------------------------------ MODULE MCEngine ------------------------------
(* Instances for TLC of the two modules about the engine of a replica: its   *)
(* claim loop and the session of one execution.  They share no state, so     *)
(* each behaviour follows one of them, the part, chosen at its start.  A     *)
(* lease lasts four retry periods and is renewed every second one, so that a *)
(* burst of failed renewals may recover or run out.                          *)
EXTENDS RuntimeReplica, Sequences

CONSTANTS Lease, Interval, Denials, MaxSeq

VARIABLES part, lease, session, execution, tail, phase, answer

S == INSTANCE LeaseSession WITH work <- execution
ASSUME SessionAssumption == S!SessionConstants
sessionVars == <<lease, session, execution, tail, phase, answer>>
engine_vars == <<part, vars, sessionVars>>

EngineInit == part \in {"replica", "session"} /\ Init /\ S!Init
InReplica(Step) == part = "replica" /\ Step /\ UNCHANGED <<part, sessionVars>>
InSession(Step) == part = "session" /\ Step /\ UNCHANGED <<part, vars>>
EngineNext == \/ part = "replica" /\ Next /\ UNCHANGED <<part, sessionVars>>
              \/ part = "session" /\ S!Next /\ UNCHANGED <<part, vars>>

\* FairSpec of RuntimeReplica and of LeaseSession.
EngineSpec ==
  /\ EngineInit /\ [][EngineNext]_engine_vars
  /\ WF_engine_vars(InReplica(ClaimLoop))
  /\ \A x \in Fences : /\ WF_engine_vars(InReplica(Renew(x))) /\ WF_engine_vars(InReplica(Return(x)))
                       /\ WF_engine_vars(InReplica((exec[x].ask # "none" \/ exec[x].lost) /\ EndExecution(x)))
  /\ WF_engine_vars(InSession(S!Send \/ S!Refuse)) /\ WF_engine_vars(InSession(S!Execute \/ S!Fail))
  /\ WF_engine_vars(InSession(S!Receive)) /\ WF_engine_vars(InSession(S!Handle))
  /\ WF_engine_vars(InSession(S!Cleanup)) /\ WF_engine_vars(InSession(S!FireTimer))
  /\ WF_engine_vars(InSession(session.aborted /\ S!EffectReturns))

\* What a session reports is what the database holds, it gives up no fence that is
\* still its own, and its heartbeat never dies silently.
SessionTellsTheTruth == S!SessionTellsTheTruth
\* After a stop nothing enters the process, after an abort no effect starts, and after
\* a handoff nothing is written.
StopsAreObeyed == NothingEntersAfterStop /\ S!EffectsStartAuthorized /\ S!HandoffSettlesNothing
\* An execution whose lease is gone ends: to the replica, and inside.
LostExecutionEnds == LostWorkEnds /\ S!LostFenceEnds
=============================================================================
