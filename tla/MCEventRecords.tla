--------------------------- MODULE MCEventRecords ---------------------------
(* Small instances of EventRecords for TLC.                                *)
EXTENDS EventRecords, TLC

\* Civilians are interchangeable, and so are ground rescuers.
Symmetry == Permutations(Civilians) \cup Permutations(GroundSars)
=============================================================================
