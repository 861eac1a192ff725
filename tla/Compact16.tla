------------------------------ MODULE Compact16 -----------------------------
(***************************************************************************)
(* read_compact_u16 (fill-decoder/src/wire.rs): a number in one to three      *)
(* bytes, low bits first, the high bit of a byte saying that another follows. *)
(* Radix stands for 128: a byte b has its high bit set when b >= Radix, and  *)
(* b % Radix is its other bits.                                             *)
(***************************************************************************)
EXTENDS Integers, Sequences

CONSTANTS Radix, U16Max     \* 128 and 65535 in the source

ASSUME CompactAssumption ==
    /\ Radix \in Nat /\ Radix > 1
    /\ U16Max \in Nat /\ U16Max < Radix * Radix * Radix

CompactByte == 0 .. 2 * Radix - 1

\* What the loop reads before it decides: it stops at a byte without the high
\* bit, or after three.
CompactReads ==
    {<<a>> : a \in 0 .. Radix - 1}
      \cup ((Radix .. 2 * Radix - 1) \X (0 .. Radix - 1))
      \cup ((Radix .. 2 * Radix - 1) \X (Radix .. 2 * Radix - 1) \X CompactByte)

\* result
CompactValue(e) ==
    (e[1] % Radix)
      + (IF Len(e) < 2 THEN 0 ELSE (e[2] % Radix) * Radix)
      + (IF Len(e) < 3 THEN 0 ELSE (e[3] % Radix) * (Radix * Radix))

\* Slip: a continued zero is not looked for.
CompactValidOverlong(e) == e[Len(e)] < Radix /\ CompactValue(e) <= U16Max

\* The last byte ends the number, and is not a zero that another byte continued to.
CompactValid(e) ==
    /\ e[Len(e)] < Radix
    /\ Len(e) > 1 => e[Len(e)] # 0
    /\ CompactValue(e) <= U16Max

-----------------------------------------------------------------------------
\* The shortest encoding of a number, as a serializer writes it.
CompactEncoding(n) ==
    IF n < Radix THEN <<n>>
    ELSE IF n < Radix * Radix THEN <<Radix + (n % Radix), n \div Radix>>
    ELSE <<Radix + (n % Radix), Radix + ((n \div Radix) % Radix), n \div (Radix * Radix)>>

=============================================================================
