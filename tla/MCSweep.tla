------------------------------ MODULE MCSweep -------------------------------
(* Bounds for the sweep: every ladder of up to MaxLevels levels of 0..MaxAtoms
   atoms, sorted or not, degenerate or not. *)
EXTENDS SweepQuote

CONSTANTS MaxLevels, MaxAtoms

MCLadders == UNION {[1 .. n -> [base_atoms : 0 .. MaxAtoms, quote_atoms : 0 .. MaxAtoms]]
                      : n \in 1 .. MaxLevels}
MCAmounts == 1 .. U64Max

=============================================================================
