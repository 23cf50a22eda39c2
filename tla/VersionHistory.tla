----------------------------- MODULE VersionHistory -----------------------------
(***************************************************************************)
(* What the list of versions of the minutes promises, whoever writes it:   *)
(* a version is added and never changed but to be confirmed; one of them   *)
(* is in force; a proposal of the AI takes the place of another proposal   *)
(* at most, never of what the host wrote, restored or confirmed.           *)
(***************************************************************************)
EXTENDS Naturals, Sequences

VARIABLES
    history,    \* who wrote each version: "ai", "human" or "restored"
    chosen,     \* the version in force, 0 before the first
    confirmed   \* the versions the host confirmed

Author == {"ai", "human", "restored"}
Proposal(v) == v = 0 \/ (history[v] = "ai" /\ v \notin confirmed)

Init == history = <<>> /\ chosen = 0 /\ confirmed = {}

Propose ==
    /\ history' = Append(history, "ai")
    /\ chosen' = IF Proposal(chosen) THEN Len(history') ELSE chosen
    /\ UNCHANGED confirmed

Write ==
    /\ chosen # 0
    /\ history' = Append(history, "human") /\ chosen' = Len(history')
    /\ UNCHANGED confirmed

\* A restored copy is as confirmed as the version it copies.
Restore == \E v \in DOMAIN history :
    /\ history' = Append(history, "restored") /\ chosen' = Len(history')
    /\ confirmed' = IF v \in confirmed THEN confirmed \cup {Len(history')} ELSE confirmed

Confirm ==
    /\ chosen # 0 /\ confirmed' = confirmed \cup {chosen}
    /\ UNCHANGED <<history, chosen>>

Next == Propose \/ Write \/ Restore \/ Confirm
vars == <<history, chosen, confirmed>>
Spec == Init /\ [][Next]_vars
=============================================================================
