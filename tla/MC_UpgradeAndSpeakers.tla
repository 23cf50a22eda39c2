------------------------- MODULE MC_UpgradeAndSpeakers -------------------------
(***************************************************************************)
(* Two components that go on by themselves once they were started, and     *)
(* that share no state: the start of the program and the pools that decide *)
(* who spoke.  A behaviour belongs to one of them.                         *)
(***************************************************************************)
EXTENDS DatabaseUpgrade, SpeakerIdentification

VARIABLE part \* the component of this behaviour
allVars == <<part, vars, speakerVars>>

OneLabel == [u \in Utts |-> "A"]

\* A step of one component leaves the other one as it is.
InUpgrade  == part = "upgrade"  /\ UNCHANGED <<part, speakerVars>>
InSpeakers == part = "speakers" /\ UNCHANGED <<part, vars>>

EitherInit ==
    /\ part \in {"upgrade", "speakers"} /\ Init /\ SpeakerInit
    /\ part = "upgrade" => ready
EitherNext == (InUpgrade /\ Next) \/ (InSpeakers /\ SpeakerNext)
\* With the fairness of DatabaseUpgrade's Spec and of SpeakerSpec.
EitherSpec ==
    /\ EitherInit /\ [][EitherNext]_allVars
    /\ WF_allVars(InUpgrade /\ Starting)
    /\ WF_allVars(InSpeakers /\ Observe) /\ WF_allVars(InSpeakers /\ BecomesReady)
    /\ \A p \in Pools : WF_allVars(InSpeakers /\ Poll(p))
    /\ \A w \in Workers \ {"host"} :
         WF_allVars(InSpeakers /\ Routing(w)) /\ WF_allVars(InSpeakers /\ Running(w))
=============================================================================
