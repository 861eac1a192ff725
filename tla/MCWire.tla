------------------------------- MODULE MCWire -------------------------------
(* Two keys; of the program ids only the parser's view matters.
   MCWire.cfg has radix 2, so that a length of two takes two bytes, and turns v1
   off; MCWireV1.cfg turns it on. *)
EXTENDS Wire

CONSTANTS k1, k2

=============================================================================
