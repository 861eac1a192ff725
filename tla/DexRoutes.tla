------------------------------ MODULE DexRoutes -----------------------------
(***************************************************************************)
(* The decoder of a swap's arguments (fill-decoder/src/idl_types.rs): a      *)
(* cursor over Borsh bytes that has to find every route, which means to know *)
(* how long the body of every other dex is.  An input is the routes that     *)
(* were encoded and the bytes that arrived.                                 *)
(***************************************************************************)
EXTENDS Integers, Sequences

CONSTANT Inputs     \* [routes |-> what was encoded, data |-> the bytes]

VARIABLES
    input,      \* the instruction data after its discriminator
    pos,        \* the reader's position
    state,      \* what is read next
    todo,       \* routes left
    loop,       \* elements left in the vector being read
    dex,        \* where the route being read starts
    routes      \* what was decoded

routeVars == <<input, pos, state, todo, loop, dex, routes>>

data == input.data

\* read_exact
Has(n) == pos + n <= Len(data)

Byte(i) == data[pos + i]

U32(i) == Byte(i) + 256 * (Byte(i + 1) + 256 * (Byte(i + 2) + 256 * Byte(i + 3)))

RoutesInit ==
    /\ input \in Inputs
    /\ pos = 0 /\ state = "args"
    /\ todo = 0 /\ loop = 0 /\ dex = 0
    /\ routes = <<>>

\* Read n bytes and go on in state s.
Advance(n, s) == pos' = pos + n /\ state' = s /\ UNCHANGED input

\* The bodies of one length, in skip_exact's arms.
SkipLen(tag) ==
    CASE tag \in {23, 24, 34, 35, 121, 125, 138} -> 1
      [] tag = 64                                -> 50
      [] tag \in {74, 75}                        -> 2
      [] tag \in {81, 100, 118}                  -> 8
      [] tag \in {82, 103}                       -> 16
      [] tag \in {104, 120}                      -> 99
      [] tag = 132                               -> 40
      [] tag = 134                               -> 96
      [] OTHER                                   -> 0

CandidateSkipLen(c) ==
    CASE c \in {3, 14}  -> 8
      [] c \in {5, 16}  -> 16
      [] c = 10         -> 99
      [] c = 15         -> 96
      [] OTHER          -> 0

LastDex       == 140
LastCandidate == 17

-----------------------------------------------------------------------------
(* SwapArgs, and the routes in turn *)

Args ==
    /\ state = "args" /\ Has(30)
    /\ Advance(30, "route")
    /\ todo' = U32(27)
    /\ UNCHANGED <<loop, dex, routes>>

Done ==
    /\ state = "route" /\ todo = 0
    /\ state' = "done"
    /\ UNCHANGED <<input, pos, todo, loop, dex, routes>>

AtDex(tag) == state = "route" /\ todo > 0 /\ Has(1) /\ Byte(1) = tag

\* A body whose length needs no reading.
SkipBody ==
    \E tag \in 0 .. LastDex \ {117, 119, 126, 133} :
        /\ AtDex(tag) /\ Has(1 + SkipLen(tag))
        /\ Advance(1 + SkipLen(tag), "tail")
        /\ dex' = pos
        /\ UNCHANGED <<todo, loop, routes>>

\* SolRfqV2 up to its levels, the remaining accounts of a Meteora hook,
\* the candidates of a dynamic route, the bytes of a native quote.
BeginVector(tag, before, s) ==
    /\ AtDex(tag) /\ Has(1 + before + 4)
    /\ Advance(1 + before + 4, s)
    /\ dex' = pos
    /\ loop' = U32(1 + before + 1)
    /\ UNCHANGED <<todo, routes>>

BeginLevels     == BeginVector(117, 17, "levels")
BeginSlices     == BeginVector(119, 0, "slices")
BeginCandidates == BeginVector(126, 0, "candidates")
BeginBytes      == BeginVector(133, 0, "bytes")

\* One element of a vector of fixed width, then what follows it.
Element(s, width) ==
    /\ state = s /\ loop > 0 /\ Has(width)
    /\ Advance(width, s)
    /\ loop' = loop - 1
    /\ UNCHANGED <<todo, dex, routes>>

EndVector(s, after, next) ==
    /\ state = s /\ loop = 0 /\ Has(after)
    /\ Advance(after, next)
    /\ UNCHANGED <<todo, loop, dex, routes>>

\* Slip: a seek over the quote data, which no end of input stops.
SeekQuote == /\ state = "bytes"
             /\ Advance(loop, "tail")
             /\ UNCHANGED <<todo, loop, dex, routes>>

Level     == Element("levels", 16) \/ EndVector("levels", 0, "tail")
Slice     == Element("slices", 2) \/ EndVector("slices", 1, "tail")
QuoteByte == Element("bytes", 1) \/ EndVector("bytes", 0, "tail")

Candidate ==
    \/ /\ state = "candidates" /\ loop > 0 /\ Has(1)
       /\ Byte(1) <= LastCandidate
       /\ Element("candidates", 1 + CandidateSkipLen(Byte(1)))
    \/ EndVector("candidates", 0, "mode")

\* Slip: only a forced mode carries its choice.
ModeHintBare ==
    /\ state = "mode" /\ Has(1)
    /\ \/ Byte(1) \in {0, 2} /\ Advance(1, "tail")
       \/ Byte(1) = 1 /\ Has(2) /\ Advance(2, "tail")
    /\ UNCHANGED <<todo, loop, dex, routes>>

Mode ==
    /\ state = "mode" /\ Has(1)
    /\ \/ Byte(1) = 0 /\ Advance(1, "tail")
       \/ Byte(1) \in {1, 2} /\ Has(2) /\ Advance(2, "tail")
    /\ UNCHANGED <<todo, loop, dex, routes>>

\* What is kept of a route: the tag, and the body of a SolRfqV2.
Kept(tag, body) == [tag |-> tag, body |-> IF tag = 117 THEN body ELSE <<>>]

\* Slip: the cursor moves on without looking whether the bytes are there.
RouteTailUnchecked ==
    /\ state = "tail"
    /\ Advance(3, "route")
    /\ todo' = todo - 1
    /\ routes' = Append(routes, Kept(data[dex + 1], SubSeq(data, dex + 2, pos)))
    /\ UNCHANGED <<loop, dex>>

\* weight and index: the route is complete.
RouteTail ==
    /\ state = "tail" /\ Has(3)
    /\ Advance(3, "route")
    /\ todo' = todo - 1
    /\ routes' = Append(routes, Kept(data[dex + 1], SubSeq(data, dex + 2, pos)))
    /\ UNCHANGED <<loop, dex>>

-----------------------------------------------------------------------------
(* What is refused: a tag no enum has, and an input that ends too early *)

Refuse ==
    /\ state' = "refused"
    /\ UNCHANGED <<input, pos, todo, loop, dex, routes>>

UnknownTag ==
    /\ \/ state = "route" /\ todo > 0 /\ Has(1) /\ Byte(1) > LastDex
       \/ state = "candidates" /\ loop > 0 /\ Has(1) /\ Byte(1) > LastCandidate
       \/ state = "mode" /\ Has(1) /\ Byte(1) > 2
    /\ Refuse

\* How many bytes the step that comes next needs.
HeadLen(tag) ==
    CASE tag = 117              -> 21
      [] tag \in {119, 126, 133} -> 4
      [] OTHER                  -> SkipLen(tag)

Needed ==
    CASE state = "args"       -> 30
      [] state = "route"      -> IF todo = 0 THEN 0 ELSE IF Has(1) THEN 1 + HeadLen(Byte(1)) ELSE 1
      [] state = "levels"     -> IF loop = 0 THEN 0 ELSE 16
      [] state = "slices"     -> IF loop = 0 THEN 1 ELSE 2
      [] state = "bytes"      -> IF loop = 0 THEN 0 ELSE 1
      [] state = "candidates" -> IF loop = 0 THEN 0
                                 ELSE IF Has(1) THEN 1 + CandidateSkipLen(Byte(1)) ELSE 1
      [] state = "mode"       -> IF Has(1) /\ Byte(1) \in {1, 2} THEN 2 ELSE 1
      [] state = "tail"       -> 3
      [] OTHER                -> 0

Truncated == ~Has(Needed) /\ Refuse

RoutesNext ==
    \/ Args \/ Done \/ SkipBody
    \/ BeginLevels \/ BeginSlices \/ BeginCandidates \/ BeginBytes
    \/ Level \/ Slice \/ Candidate \/ QuoteByte \/ Mode \/ RouteTail
    \/ UnknownTag \/ Truncated

RoutesSpec == RoutesInit /\ [][RoutesNext]_routeVars

-----------------------------------------------------------------------------
(* Correctness *)

RoutesTypeOK ==
    /\ pos \in 0 .. Len(data)
    /\ state \in {"args", "route", "levels", "slices", "bytes", "candidates", "mode",
                  "tail", "done", "refused"}
    /\ todo \in Nat /\ loop \in Nat /\ dex \in 0 .. Len(data)
    /\ routes \in Seq([tag : 0 .. LastDex, body : Seq(0 .. 255)])

WhatWasEncoded(k) ==
    LET r == input.routes[k]
    IN  Kept(r.tag, r.body)

\* The decoder never loses step with the encoder: at every moment it has
\* decoded routes that were encoded, in order, whatever the bodies before them
\* hold, and in the end all of them (the comment at idl_types.rs:36: a wrong
\* skip could make a later route look like a different RFQ leg).
SeesTheRoutes ==
    /\ Len(routes) <= Len(input.routes)
    /\ \A k \in DOMAIN routes : routes[k] = WhatWasEncoded(k)
    /\ state = "done" => Len(routes) = Len(input.routes)

=============================================================================
