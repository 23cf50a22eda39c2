------------------------- MODULE MC_DeletionAndGuests -------------------------
(***************************************************************************)
(* Three components that share no state with each other in the model, one  *)
(* behaviour for each: the deletion of a meeting, the sharing of a meeting *)
(* with guests, and the page of a guest.                                   *)
(***************************************************************************)
EXTENDS Naturals, Sequences, TLC

CONSTANTS
    Components,                                                      \* those of a run
    Calls, Paths, Audio, AudioDir, Late,                             \* Deletion
    MaxWrites, MaxJobs, MaxCrashes,
    Guests, Host, Requests, Handlers, MaxConcurrent, MaxGenerations, \* GuestSharing
    Reads, Limit,                                                    \* GuestTimeline
    MaxEvents, MaxFaults

VARIABLES
    part, \* the component of this behaviour
    disk, root, row, spoken, jobs, call, owner, task, exiting, recovered, up, writes, failures, crashes,
    lan, lock, thread, lifecycle, session, revoked, handler, entities, parts, files, abandoned, errors,
    events, unpublished, channel, socket, server, timer, reconnect, hidden, read, cursor, shown, faults

D == INSTANCE Deletion WITH faults <- failures
G == INSTANCE GuestSharing WITH events <- entities, faults <- errors
P == INSTANCE GuestTimeline

ASSUME DeletionAssumption ==
    /\ "nobody" \notin Calls /\ Audio \subseteq Paths /\ AudioDir \in Paths \ Audio /\ Late \subseteq Paths
    /\ MaxWrites \in Nat /\ MaxJobs \in Nat /\ MaxCrashes \in Nat
ASSUME GuestAssumption == Host \notin Guests /\ MaxConcurrent \in Nat \ {0} /\ MaxGenerations \in Nat
ASSUME TimelineAssumption == Limit \in Nat \ {0}
ASSUME BoundsAssumption == MaxEvents \in Nat /\ MaxFaults \in Nat

deletionVars == <<disk, root, row, spoken, jobs, call, owner, task, exiting, recovered, up, writes, failures, crashes>>
guestVars == <<lan, lock, thread, lifecycle, session, revoked, handler, entities, parts, files, abandoned, errors>>
pageVars == <<events, unpublished, channel, socket, server, timer, reconnect, hidden, read, cursor, shown, faults>>
vars == <<part, deletionVars, guestVars, pageVars>>

Init ==
    /\ part \in Components /\ D!Init /\ G!Init /\ P!Init
    /\ part # "deletion" => spoken
Next ==
    /\ UNCHANGED part
    /\ \/ part = "deletion" /\ D!Next /\ UNCHANGED <<guestVars, pageVars>>
       \/ part = "guests"   /\ G!Next /\ UNCHANGED <<deletionVars, pageVars>>
       \/ part = "page"     /\ P!Next /\ UNCHANGED <<deletionVars, guestVars>>
Spec == Init /\ [][Next]_vars
Interchangeable == {p @@ q : p \in Permutations(Calls), q \in Permutations(Handlers)}

(* The properties of each component, as its module states them: the rows   *)
(* and files of a deletion, and the retry of one;                          *)
DeletionInv == D!DeletionInv
RetryReachesAll == D!RetryReachesAll
(* what guests added and who may add it;                                   *)
GuestInv == G!GuestInv
ContentFromSharers == G!ContentFromSharers
(* and what the page of a guest shows.                                     *)
TimelineInv == P!TimelineInv
=============================================================================
