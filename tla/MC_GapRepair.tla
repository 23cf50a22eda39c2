---------------------------- MODULE MC_GapRepair ----------------------------
EXTENDS GapRepair, TLC

CONSTANTS g1, g2
\* g1 and g2 touch: they are merged unless the host picks one.
MC_From == (g1 :> 0) @@ (g2 :> 1)
MC_To   == (g1 :> 1) @@ (g2 :> 2)
=============================================================================
