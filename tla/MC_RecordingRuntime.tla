------------------------- MODULE MC_RecordingRuntime -------------------------
(***************************************************************************)
(* RecordingRuntime for TLC.  Meetings and callers are interchangeable: no *)
(* definition picks one of them, so their permutations are symmetries of   *)
(* every run that checks no liveness property.                             *)
(***************************************************************************)
EXTENDS RecordingInvariant, TLC

Symmetry == Permutations(Meetings) \cup Permutations(Enders)
=============================================================================
