----------------------- MODULE MC_SpeakerCorrection -----------------------
EXTENDS SpeakerCorrection, TLC
Symmetric == Permutations(Requests)
OneLabel == [u \in Utts |-> "A"]
\* The last final comes without a label.
WithLocal == [u \in Utts |-> IF u = Finals THEN NoLabel ELSE "A"]
=============================================================================
