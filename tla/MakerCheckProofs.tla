-------------------------- MODULE MakerCheckProofs --------------------------
(***************************************************************************)
(* Proofs about the maker's check and what an Ok of it is worth, for any    *)
(* number of keys and instructions, any leg layout and any lookup tables.  *)
(*                                                                         *)
(* The check counts indices of static keys.  Indices become keys by         *)
(* UsesAreReferences: once a message is loaded without a key twice, the     *)
(* uses of a static key are the references to its index.  The rest is the   *)
(* bookkeeping of which check established what.                            *)
(***************************************************************************)
EXTENDS MakerCheck, TLAPS

-----------------------------------------------------------------------------
(* Messages *)

\* An instruction's index at a position is a natural number (Decoder).
LEMMA IndexIsNat ==
    ASSUME NEW m \in Messages, NEW pos \in Positions(m)
    PROVE  /\ pos = <<pos[1], pos[2]>>
           /\ pos[1] \in DOMAIN m.instructions
           /\ pos[2] \in 0 .. Len(m.instructions[pos[1]].account_indices)
           /\ IndexAt(m, pos) \in Nat
<1>1. PICK i \in DOMAIN m.instructions :
         pos \in {i} \X (0 .. Len(m.instructions[i].account_indices))
  BY DEF Positions
<1>2. pos = <<pos[1], pos[2]>> /\ pos[1] = i
        /\ pos[2] \in 0 .. Len(m.instructions[i].account_indices)
  BY <1>1
<1>3. m.instructions[i] \in Instructions
  BY DEF Messages
<1>4. m.instructions[i].account_indices \in Seq(Nat) /\ m.instructions[i].program_id_index \in Nat
  BY <1>3 DEF Instructions
<1>5. pos[2] # 0 => m.instructions[i].account_indices[pos[2]] \in Nat
  BY <1>2, <1>4
<1> QED
  BY <1>2, <1>4, <1>5 DEF IndexAt

\* An index that fits keeps its value when it is cast.
LEMMA SmallMod ==
    ASSUME NEW n \in Nat, n > 0, NEW i \in 0 .. n - 1
    PROVE  i % n = i
  BY SMT

\* Where a key that is static once has its index; the cast to u8 loses nothing
\* in a message that decodes (unique_static_index).
LEMMA IndexOfStaticKey ==
    ASSUME NEW m \in Messages, Decodes(m), NEW key \in Keys,
           NEW i \in DOMAIN m.static_account_keys, Copies(m, key) = {i}
    PROVE  StaticIndex(m, key) = i - 1 /\ m.static_account_keys[i] = key
<1> DEFINE ks == m.static_account_keys
           first == CHOOSE n \in Copies(m, key) : \A j \in Copies(m, key) : n <= j
<1>1. ks \in Seq(Keys) /\ m.loaded \in Nat /\ MaxAccountKeys \in Nat \ {0}
  BY DecoderAssumption DEF Messages
<1>2. Len(ks) \in Nat /\ i \in 1 .. Len(ks)
  BY <1>1
<1>3. i - 1 \in 0 .. MaxAccountKeys - 1
  BY <1>1, <1>2 DEF Decodes, TotalAccounts
<1>4. first = i
  BY <1>2
<1>5. StaticIndex(m, key) = (i - 1) % MaxAccountKeys
  BY <1>4 DEF StaticIndex
<1>6. (i - 1) % MaxAccountKeys = i - 1
  <2>1. MaxAccountKeys \in Nat /\ MaxAccountKeys > 0
    BY <1>1
  <2> QED
    BY <1>3, <2>1, SmallMod, Zenon
<1>7. ks[i] = key
  BY DEF Copies
<1> QED
  BY <1>5, <1>6, <1>7

\* The keys of a loaded message: the static ones, then the loaded ones.
LEMMA AllKeysAreBoth ==
    ASSUME NEW m \in Messages, NEW loaded \in [1 .. m.loaded -> Keys]
    PROVE  /\ DOMAIN AllKeys(m, loaded) = 1 .. TotalAccounts(m)
           /\ \A i \in DOMAIN m.static_account_keys :
                 AllKeys(m, loaded)[i] = m.static_account_keys[i]
<1>1. m.static_account_keys \in Seq(Keys) /\ m.loaded \in Nat
  BY DEF Messages
<1>2. loaded \in Seq(Keys) /\ Len(loaded) = m.loaded
  BY <1>1
<1> QED
  BY <1>1, <1>2 DEF AllKeys, TotalAccounts

\* When no key is loaded twice, the cluster finds a static key exactly where
\* the message has its index (the argument in exclusivity.rs:105).
LEMMA UsesAreReferences ==
    ASSUME NEW m \in Messages, Decodes(m),
           NEW loaded \in [1 .. m.loaded -> Keys], NoKeyTwice(m, loaded),
           NEW key \in Keys,
           NEW i \in DOMAIN m.static_account_keys, Copies(m, key) = {i}
    PROVE  Uses(m, loaded, key) = References(m, StaticIndex(m, key))
<1> DEFINE all == AllKeys(m, loaded)
<1>1. StaticIndex(m, key) = i - 1 /\ m.static_account_keys[i] = key
  BY IndexOfStaticKey
<1>2. m.static_account_keys \in Seq(Keys) /\ m.loaded \in Nat
  BY DEF Messages
<1>3. i \in 1 .. Len(m.static_account_keys) /\ Len(m.static_account_keys) \in Nat
  BY <1>2
<1>4. DOMAIN all = 1 .. TotalAccounts(m) /\ all[i] = key /\ i \in DOMAIN all
  BY <1>1, <1>2, <1>3, AllKeysAreBoth DEF TotalAccounts
<1>5. ASSUME NEW pos \in Positions(m)
      PROVE  KeyAt(m, loaded, pos) = key <=> IndexAt(m, pos) = StaticIndex(m, key)
  <2>1. IndexAt(m, pos) \in Nat /\ IndexAt(m, pos) < TotalAccounts(m)
    BY IndexIsNat DEF Decodes, IndicesValid
  <2>2. IndexAt(m, pos) + 1 \in DOMAIN all
    BY <1>2, <1>4, <2>1 DEF TotalAccounts
  <2>3. all[IndexAt(m, pos) + 1] = key <=> IndexAt(m, pos) + 1 = i
    BY <1>4, <2>2 DEF NoKeyTwice
  <2> QED
    BY <1>1, <1>3, <2>1, <2>3 DEF KeyAt
<1> QED
  BY <1>5 DEF Uses, References

-----------------------------------------------------------------------------
(* The leg *)

\* One decoded fill has one instruction (single_fill).
LEMMA FillIsIn ==
    ASSUME NEW m \in Messages, SingleFill(m) = "Ok"
    PROVE  \E f \in Fills(m) :
              Fills(m) = {f} /\ FillIx(m) = f[1] /\ f[1] \in DOMAIN m.instructions
<1>1. PICK f \in Fills(m) : Fills(m) = {f}
  BY DEF SingleFill
<1>2. \E i \in DOMAIN m.instructions : f \in {i} \X DOMAIN m.instructions[i].routes
  BY DEF Fills
<1>3. f[1] \in DOMAIN m.instructions
  BY <1>2
<1>4. m.instructions \in Seq(Instructions)
  BY DEF Messages
<1>5. f[1] \in Nat
  BY <1>3, <1>4
<1>6. {g[1] : g \in Fills(m)} = {f[1]}
  BY <1>1
<1>7. FillIx(m) = CHOOSE i \in {f[1]} : \A g \in {f} : i <= g[1]
  BY <1>1, <1>6 DEF FillIx
<1>8. FillIx(m) = f[1]
  BY <1>5, <1>7
<1> QED
  BY <1>1, <1>3, <1>8

\* Its route is the only one.
LEMMA OneFill ==
    ASSUME NEW m \in Messages, SingleFill(m) = "Ok"
    PROVE  \E r \in DOMAIN m.instructions[FillIx(m)].routes : Fills(m) = {<<FillIx(m), r>>}
<1>1. PICK f \in Fills(m) : Fills(m) = {f} /\ FillIx(m) = f[1]
  BY FillIsIn
<1>2. PICK i \in DOMAIN m.instructions : f \in {i} \X DOMAIN m.instructions[i].routes
  BY DEF Fills
<1>3. f[1] = i /\ f[2] \in DOMAIN m.instructions[i].routes /\ f = <<i, f[2]>>
  BY <1>2
<1> QED BY <1>1, <1>3

\* Every static slot of a leg that was found is a reference to its key's index
\* (the slices compared in exclusivity.rs:188).
LEMMA LegIsReferenced ==
    ASSUME NEW m \in Messages, SingleFill(m) = "Ok",
           NEW mk \in MakerAccounts, NEW o \in LegOffsets(m, mk), NEW s \in ExpectedSlots(mk)
    PROVE  <<FillIx(m), o + s[1] + 1>> \in References(m, StaticIndex(m, s[2]))
<1> DEFINE accounts == m.instructions[FillIx(m)].account_indices
           n == o + s[1] + 1
<1>1. FillIx(m) \in DOMAIN m.instructions
  BY FillIsIn
<1>2. m.instructions[FillIx(m)] \in Instructions
  BY <1>1 DEF Messages
<1>3. accounts \in Seq(Nat) /\ Len(accounts) \in Nat
  BY <1>2 DEF Instructions
<1>4. o \in 0 .. Len(accounts) - LegWidth /\ accounts[n] = StaticIndex(m, s[2])
  BY DEF LegOffsets
<1>5. s[1] \in 0 .. LegWidth - 1 /\ LegWidth \in Nat
  BY LegAssumption DEF ExpectedSlots
<1>6. n \in 1 .. Len(accounts)
  BY <1>3, <1>4, <1>5
<1> DEFINE pos == <<FillIx(m), n>>
<1>7. pos \in Positions(m)
  BY <1>1, <1>6 DEF Positions
<1>8. IndexAt(m, pos) = accounts[n]
  BY <1>6 DEF IndexAt
<1> QED
  BY <1>4, <1>7, <1>8 DEF References

\* With the counts done, a found leg holds all there is of each of its keys.
LEMMA LegHasAll ==
    ASSUME NEW m \in Messages, SingleFill(m) = "Ok",
           NEW mk \in MakerAccounts, NEW o \in LegOffsets(m, mk),
           NEW s \in ExpectedSlots(mk), ReferencedOnce(m, s[2])
    PROVE  References(m, StaticIndex(m, s[2])) = {<<FillIx(m), o + s[1] + 1>>}
<1>1. <<FillIx(m), o + s[1] + 1>> \in References(m, StaticIndex(m, s[2]))
  BY LegIsReferenced
<1> QED
  BY <1>1 DEF ReferencedOnce

-----------------------------------------------------------------------------
(* The checks *)

\* Nothing is checked, and nothing is promised, at the start.
LEMMA CheckInvInit == CheckInit => CheckInv
<1> SUFFICES ASSUME CheckInit PROVE CheckInv
  OBVIOUS
<1>1. msg \in Messages /\ maker \in Makers /\ stage = "decode" /\ verdict = "none"
  BY LegAssumption DEF CheckInit, CheckStart
<1>2. CheckTypeOK
  BY <1>1 DEF CheckTypeOK, Stages
<1> QED
  BY <1>1, <1>2 DEF CheckInv, Stood, Stages

\* Each check of validate_maker_accounts leaves what the later ones rely on.
LEMMA CheckInvStep ==
    ASSUME CheckInv, CheckStep
    PROVE  CheckInv' /\ verdict = "none"
<1>1. verdict = "none"
  BY DEF CheckInv, CheckStep, Pass, Respond, Decode, DecodeFails, Distinct, NotDistinct,
     Static, NotStatic, DuplicateKey, Signer, NotSigner, Writable, NotWritable, RfqStatic,
     RfqNotStatic, RfqDuplicate, Single, NotSingle, Count, BadCount, BadRfqCount, Accept, NoLeg
<1>2. msg' = msg /\ maker' = maker
  BY DEF CheckStep, Pass, Respond, Decode, DecodeFails, Distinct, NotDistinct,
     Static, NotStatic, DuplicateKey, Signer, NotSigner, Writable, NotWritable, RfqStatic,
     RfqNotStatic, RfqDuplicate, Single, NotSingle, Count, BadCount, BadRfqCount, Accept, NoLeg
<1>3. /\ \A key : FoundOnce(key)' <=> FoundOnce(key)
      /\ MakerCountsOne' <=> MakerCountsOne
      /\ OneLeg' <=> OneLeg
  BY <1>2 DEF FoundOnce, MakerCountsOne, OneLeg
<1> DEFINE Found == \A key \in MakerKeys(maker) : FoundOnce(key)
           Counted == MakerCountsOne /\ ReferencedOnce(msg, RfqProgram)
<1>4. (\A r \in 1 .. 3 : FoundOnce(RoleOrder[r])) => Found
  BY DEF RoleOrder, MakerKeys, MakerTokenAccounts
<1>5. SingleFill(msg) \in {"Ok", "UnsupportedEntrypoint", "NotFound", "Multiple"}
  BY DEF SingleFill
\* A check that passes adds what it has established.
<1>6. CASE \/ Decode \/ Distinct \/ Static \/ Signer \/ Writable
           \/ RfqStatic \/ Single \/ Count
  <2>1. stage' \in Stages \ {"answered"} /\ verdict' = "none"
    BY <1>1, <1>6 DEF Pass, Decode, Distinct, Static, Signer, Writable, RfqStatic, Single,
       Count, Stages
  <2>2. Decodes(msg)
    BY <1>6 DEF CheckInv, Stood, Stages, Pass, Decode, Distinct, Static, Signer, Writable,
       RfqStatic, Single, Count
  <2>3. stage' \in {"signer", "writable", "rfq", "single", "count", "slots"} => Found
    BY <1>4, <1>6 DEF CheckInv, Stood, Pass, Decode, Distinct, Static, Signer, Writable,
       RfqStatic, Single, Count
  <2>4. stage' \in {"single", "count", "slots"} => FoundOnce(RfqProgram)
    BY <1>6 DEF CheckInv, Stood, Pass, Decode, Distinct, Static, Signer, Writable,
       RfqStatic, Single, Count
  <2>5. stage' \in {"count", "slots"} => SingleFill(msg) = "Ok"
    BY <1>6 DEF CheckInv, Stood, Pass, Decode, Distinct, Static, Signer, Writable,
       RfqStatic, Single, Count
  <2>6. stage' \in {"slots"} => Counted
    BY <1>6 DEF Pass, Decode, Distinct, Static, Signer, Writable, RfqStatic, Single, Count
  <2>7. CheckTypeOK'
    BY <1>2, <2>1 DEF CheckInv, CheckTypeOK
  <2> QED
    BY <1>1, <1>2, <1>3, <2>1, <2>2, <2>3, <2>4, <2>5, <2>6, <2>7 DEF CheckInv, Stood
\* An error ends it.
<1>7. CASE \/ DecodeFails \/ NotDistinct \/ NotStatic \/ DuplicateKey \/ NotSigner
           \/ NotWritable \/ RfqNotStatic \/ RfqDuplicate \/ NotSingle \/ BadCount
           \/ BadRfqCount \/ NoLeg
  <2>1. stage' = "answered" /\ verdict' \in Errors
    BY <1>5, <1>7 DEF Respond, DecodeFails, NotDistinct, NotStatic, DuplicateKey, NotSigner,
       NotWritable, RfqNotStatic, RfqDuplicate, NotSingle, BadCount, BadRfqCount, NoLeg, Errors
  <2>2. verdict' # "Ok"
    BY <2>1 DEF Errors
  <2>3. CheckTypeOK'
    BY <1>2, <2>1 DEF CheckInv, CheckTypeOK, Stages
  <2> QED
    BY <1>1, <2>1, <2>2, <2>3 DEF CheckInv, Stood
\* An Ok comes last.
<1>8. CASE Accept
  <2>1. stage = "slots" /\ OneLeg /\ stage' = "answered" /\ verdict' = "Ok"
    BY <1>8 DEF Accept, Respond
  <2>2. Decodes(msg) /\ Found /\ FoundOnce(RfqProgram) /\ SingleFill(msg) = "Ok" /\ Counted
    BY <2>1 DEF CheckInv, Stood, Stages
  <2>3. CheckTypeOK'
    BY <1>2, <2>1 DEF CheckInv, CheckTypeOK, Stages
  <2> QED
    BY <1>1, <1>2, <1>3, <2>1, <2>2, <2>3 DEF CheckInv, Stood
<1> QED
  BY <1>6, <1>7, <1>8 DEF CheckStep

-----------------------------------------------------------------------------
(* What an Ok is worth *)

\* All the checks together are the verdict.
LEMMA OkVets ==
    ASSUME CheckInv, verdict = "Ok"
    PROVE  Vetted(msg, maker) /\ maker \in MakerAccounts
<1>1. /\ msg \in Messages /\ maker \in MakerAccounts
      /\ Decodes(msg) /\ SingleFill(msg) = "Ok" /\ OneLeg
  BY LegAssumption DEF CheckTypeOK, CheckInv, Stood
<1>2. ASSUME NEW s \in ExpectedSlots(maker)
      PROVE  FoundOnce(s[2]) /\ ReferencedOnce(msg, s[2])
  BY DEF CheckInv, Stood, ExpectedSlots, MakerKeys, MakerTokenAccounts, MakerCountsOne
<1> QED
  BY <1>1, <1>2 DEF Vetted, FoundOnce, OneLeg

\* For any message that is accepted, and any keys its tables come to hold, the
\* loaded transaction uses each static key of the leg once, in its slot.
LEMMA LegHasAllUses ==
    ASSUME NEW m, NEW mk \in MakerAccounts, Vetted(m, mk),
           NEW loaded \in [1 .. m.loaded -> Keys], NoKeyTwice(m, loaded),
           NEW s \in ExpectedSlots(mk), NEW o \in LegOffsets(m, mk)
    PROVE  Uses(m, loaded, s[2]) = {<<FillIx(m), o + s[1] + 1>>}
<1>1. m \in Messages /\ Decodes(m) /\ SingleFill(m) = "Ok" /\ ReferencedOnce(m, s[2])
  BY DEF Vetted
<1>2. s[2] \in Keys
  BY DecoderAssumption DEF ExpectedSlots, MakerAccounts
<1>3. PICK i \in DOMAIN m.static_account_keys : Copies(m, s[2]) = {i}
  BY DEF Vetted
<1>4. Uses(m, loaded, s[2]) = References(m, StaticIndex(m, s[2]))
  BY <1>1, <1>2, <1>3, UsesAreReferences
<1>5. References(m, StaticIndex(m, s[2])) = {<<FillIx(m), o + s[1] + 1>>}
  BY <1>1, LegHasAll
<1> QED
  BY <1>4, <1>5

\* The same state of the check is the same promise.
LEMMA CheckStutter ==
    ASSUME CheckInv, UNCHANGED checkVars PROVE CheckInv'
BY DEF checkVars, CheckInv, CheckTypeOK, Stood, FoundOnce, MakerCountsOne, OneLeg

=============================================================================
