---------------------------- MODULE LeaseSession ----------------------------
(***************************************************************************)
(* One execution of RuntimeEngine and its LeaseSession: the worker, which  *)
(* proves its authority before every external effect, the heartbeat, which *)
(* renews the lease in the background, and the promise chain #tail, which  *)
(* runs the store calls of both one at a time.  RuntimeLease says what the *)
(* database does with those calls; here they keep only what the session    *)
(* can tell apart.                                                         *)
(*                                                                         *)
(* An action is what JavaScript runs between two awaits, or one statement  *)
(* of the database.  Time is counted in retry periods (2 s in the code).   *)
(***************************************************************************)
EXTENDS Integers, Sequences

CONSTANTS Lease,     \* RUNTIME_LEASE_SECONDS, in retry periods
          Interval,  \* RUNTIME_RENEW_INTERVAL_MS, in retry periods
          Denials,   \* subset of {"release", "cancel", "deadline", "forbidden"}
          MaxSeq     \* bound: checkpoints of the execution

\* What the constants are: this module is instantiated, and its instance assumes it.
SessionConstants == /\ Interval \in Nat \ {0} /\ Lease \in Nat /\ Lease > Interval /\ MaxSeq \in Nat
                    /\ Denials \subseteq {"release", "cancel", "deadline", "forbidden"}

VARIABLES lease,    \* what the database holds of this fence and its work
          session,  \* the fields of LeaseSession
          work,     \* where RuntimeEngine.#execute stands
          tail,     \* the store calls chained on #tail, the running one first
          phase,    \* of the first of them: "waiting", "sent" or "answered"
          answer    \* what the store answered it

vars == <<lease, session, work, tail, phase, answer>>

Terminals == {"succeeded", "failed", "interrupted", "cancelled"}
Renewals == {"start", "renew", "relookup", "beat"}
Mutations == {"checkpoint", "settle", "release"}

Init == /\ lease = [mine |-> TRUE, deny |-> "none", status |-> "open", seq |-> 0]
        /\ session = [running |-> TRUE, lost |-> FALSE, denied |-> "none", failed |-> FALSE,
                      handoff |-> FALSE, shutdown |-> FALSE, aborted |-> FALSE,
                      seq |-> 0, runway |-> Lease, timer |-> "off"]
        /\ work = [at |-> "start", goal |-> "none", caught |-> FALSE, outcome |-> "none"]
        /\ tail = <<"start">> /\ phase = "waiting" /\ answer = "none"
-----------------------------------------------------------------------------
(* The session.  Each operator is the session after one of its methods. *)

Aborted(s) == [s EXCEPT !.aborted = TRUE]
Failed(s) == [Aborted(s) EXCEPT !.failed = TRUE]
Lost(s) == [Aborted(s) EXCEPT !.lost = TRUE]
Stopped(s) == [s EXCEPT !.running = FALSE, !.timer = "off"]

\* #assertMutable: the first reason the session has to refuse a call.
Refusal(s) == IF s.handoff THEN "handoff" ELSE IF s.shutdown THEN "shutdown"
              ELSE IF s.lost THEN "lost" ELSE IF s.denied # "none" THEN s.denied
              ELSE IF s.failed THEN "failed" ELSE "none"

\* settle, release and deferDelete refuse less: a denied or interrupted
\* session still has its outcome to write.
\* Fault: the outcome is written even when the work is being handed off.
FaultEndRefusal(s) == IF s.lost THEN "lost" ELSE "none"
EndRefusal(s) == IF s.handoff THEN "handoff" ELSE IF s.lost THEN "lost" ELSE "none"

Armed(s, timer) == IF s.running /\ Refusal(s) = "none" THEN [s EXCEPT !.timer = timer] ELSE s

\* What an answer to renewAndAuthorize teaches the session.
Renewed(s, ans) == CASE ans = "ok" -> [s EXCEPT !.seq = lease.seq, !.runway = Lease]
                     [] ans = "gone" -> Lost(s)
                     [] ans \in Denials -> [Aborted(s) EXCEPT !.denied = ans, !.seq = lease.seq]
                     [] OTHER -> s

\* #scheduleTransientRetry: while the lease has runway for another attempt.
\* Fault: the failed renewal is logged and nothing is scheduled.
FaultRetried(s) == IF s.running /\ Refusal(s) = "none" /\ s.runway <= 1 THEN Failed(s) ELSE s
\* Fault: a failed renewal is retried whatever the runway.
FaultRetriedForever(s) == Armed(s, "retry")
Retried(s) == IF s.running /\ Refusal(s) = "none" /\ s.runway <= 1 THEN Failed(s) ELSE Armed(s, "retry")

\* The runway once a timer has fired, at least as late as it was set for.
RunwayAfter(runway, timer) ==
  LET wait == IF timer = "renew" THEN Interval ELSE 1
  IN  0..(IF runway > wait THEN runway - wait ELSE 0)
-----------------------------------------------------------------------------
(* The engine.  Each operator is the session, the worker and the call the  *)
(* worker makes next.                                                      *)

Go(s, w) == [session |-> s, work |-> w, call |-> "none"]
Call(s, w, op) == [session |-> s, work |-> w, call |-> op]

End(s, outcome) == Go(Stopped(s), [work EXCEPT !.at = "ended", !.outcome = outcome])

\* #finishSettlement, which first tries to stop an interrupted or cancelled Pi.
Settle(s, goal, caught) ==
  LET w == [work EXCEPT !.goal = goal, !.caught = @ \/ caught, !.at = "settle"]
  IN  IF goal \in {"interrupted", "cancelled"} THEN Go(s, [w EXCEPT !.at = "cleanup"])
                                               ELSE Call(s, w, "settle")
Release(s, caught) == Call(s, [work EXCEPT !.at = "release", !.caught = @ \/ caught], "release")

FinishDenial(s, denial, caught) ==
  CASE denial = "release" -> Release(s, caught)
    [] denial = "cancel" -> Settle(s, "cancelled", caught)
    [] denial = "deadline" -> Settle(s, "interrupted", caught)
    [] OTHER -> Settle(s, "failed", caught)

\* #honorLocalControl, then what would be done without local control.
Honored(s, caught, otherwise) ==
  IF s.handoff THEN End(s, "handed_off")
  ELSE IF s.shutdown THEN Settle(s, "interrupted", caught) ELSE otherwise

\* The catch of #execute.  An error raised inside it rejects the execution.
Thrown(s, error) ==
  IF work.caught THEN End(s, "rejected")
  ELSE Honored(s, TRUE, CASE error \in {"lost", "failed", "unsure"} -> End(s, "fence_lost")
                          [] error \in Denials -> FinishDenial(s, error, TRUE)
                          [] error = "ambiguous" -> Settle(s, "interrupted", TRUE)
                          [] OTHER -> Settle(s, "failed", TRUE))

Handling(s) == Go(s, [work EXCEPT !.at = "handler"])

\* external: the effect starts unless the signal was aborted meanwhile.
\* Fault: the effect starts on a fresh authorization alone.
FaultEffect(s) == Go(s, [work EXCEPT !.at = "effect"])
Effect(s) == IF s.aborted THEN Thrown(s, "aborted") ELSE Go(s, [work EXCEPT !.at = "effect"])

\* Fault: whatever settle answers, the outcome asked for is reported.
FaultSettled(s, ans) == End(s, work.goal)
Settled(s, ans) == IF ans = "ok" THEN End(s, work.goal) ELSE End(Lost(s), "fence_lost")

Proved(s, ans, then, denied) ==
  CASE ans = "ok" -> then
    [] ans \in Denials -> denied
    [] ans = "gone" -> Thrown(Renewed(s, ans), "lost")
    [] OTHER -> Thrown(Failed(s), "failed")

\* The continuation of the call op of the worker once it is answered.
Answered(op, ans, s) ==
  LET r == Renewed(s, ans) IN
  CASE op = "start" -> LET a == Armed(r, "renew") IN
         Proved(s, ans, Honored(a, FALSE, Handling(a)), Honored(r, FALSE, FinishDenial(r, ans, FALSE)))
    [] op = "renew" -> Proved(s, ans, Effect(r), Thrown(r, ans))
    [] op = "relookup" /\ ans \in Denials -> Thrown(s, ans)
    [] op = "relookup" /\ ans = "ok" -> Thrown(s, "unavailable")
    [] op = "lookup" /\ ans = "ok" -> Handling(s)
    [] op = "checkpoint" /\ ans = "ok" -> Handling([s EXCEPT !.seq = lease.seq])
    [] op = "settle" /\ ans \in {"ok", "gone"} -> Settled(s, ans)
    [] op = "release" /\ ans = "ok" -> End(s, "released")
    [] op = "release" /\ ans = "gone" -> End([s EXCEPT !.lost = TRUE], "fence_lost")
    [] OTHER -> IF ans = "gone" THEN Thrown(Lost(s), "lost") ELSE Thrown(s, ans)

Heard(s, ans) == CASE ans = "ok" -> Armed(Renewed(s, ans), "renew")
                   [] ans \in {"unsure", "raised"} -> Retried(s)
                   [] OTHER -> Renewed(s, ans)

Follow(r, rest) == /\ session' = r.session /\ work' = r.work
                   /\ tail' = IF r.call = "none" THEN rest ELSE Append(rest, r.call)
-----------------------------------------------------------------------------
(* The calls chained on #tail. *)

RefusalOf(op, s) == IF op \in {"settle", "release"} THEN EndRefusal(s) ELSE Refusal(s)

Send ==
  /\ phase = "waiting" /\ tail # <<>> /\ RefusalOf(Head(tail), session) = "none"
  /\ phase' = "sent"
  /\ UNCHANGED <<lease, session, work, tail, answer>>

Refuse ==
  /\ phase = "waiting" /\ tail # <<>>
  /\ LET op == Head(tail)
         why == RefusalOf(op, session)
     IN  /\ why # "none"
         /\ Follow(CASE op = "beat" -> Go(session, work)
                     [] op \in {"settle", "release"} /\ why = "lost" -> End(session, "fence_lost")
                     [] OTHER -> Thrown(session, why), Tail(tail))
  /\ UNCHANGED <<lease, phase, answer>>

\* A checkpoint of an operation past its cold-start deadline is declined
\* although the lease stands; material may be declined for as little.
Answers(op) ==
  CASE ~lease.mine -> {"gone"}
    [] op \in Renewals /\ lease.mine -> {IF lease.deny = "none" THEN "ok" ELSE lease.deny}
    [] op = "lookup" /\ lease.mine -> {"ok", "gone"}
    [] op = "checkpoint" /\ lease.mine ->
         IF session.seq # lease.seq THEN {"gone"}
         ELSE IF lease.deny = "deadline" THEN {"ok", "gone"} ELSE {"ok"}
    [] OTHER -> {"ok"}
Effects(op, ans) ==
  CASE ans = "ok" /\ op = "checkpoint" -> [lease EXCEPT !.seq = @ + 1]
    [] ans = "ok" /\ op = "settle" -> [lease EXCEPT !.mine = FALSE, !.status = work.goal]
    [] ans = "ok" /\ op = "release" -> [lease EXCEPT !.mine = FALSE]
    [] OTHER -> lease

\* The statement commits; its answer may be lost on the way back.
Execute ==
  /\ phase = "sent" /\ phase' = "answered"
  /\ \E ans \in Answers(Head(tail)) :
       /\ lease' = Effects(Head(tail), ans)
       /\ answer' \in {ans, "unsure"}
  /\ UNCHANGED <<session, work, tail>>

\* The statement fails: no connection, a timeout, a conflict, or bad arguments.
Fail ==
  /\ phase = "sent" /\ phase' = "answered"
  /\ answer' \in {"unsure", "raised"}
  /\ UNCHANGED <<lease, session, work, tail>>

\* fencedLookup takes a null for no proof and asks the lease itself.
\* Fault: a null lookup is a lost fence, as a null checkpoint is.
FaultAsksAgain(op, ans) == FALSE
AsksAgain(op, ans) == op = "lookup" /\ ans = "gone"

Receive ==
  /\ phase = "answered" /\ answer' = "none"
  /\ LET op == Head(tail) IN
       IF AsksAgain(op, answer)
         THEN phase' = "sent" /\ tail' = <<"relookup">> \o Tail(tail) /\ UNCHANGED <<session, work>>
         ELSE /\ phase' = "waiting"
              /\ Follow(IF op = "beat" THEN Go(Heard(session, answer), work)
                                       ELSE Answered(op, answer, session), Tail(tail))
  /\ UNCHANGED lease
-----------------------------------------------------------------------------
(* The worker between its calls, the timer and local control. *)

Local == UNCHANGED <<lease, phase, answer>>

\* The handler proves its authority for an effect, checkpoints, asks for its
\* material, returns a disposition or throws.
Handle ==
  /\ work.at = "handler"
  /\ \/ Follow(Call(session, [work EXCEPT !.at = "external"], "renew"), tail)
     \/ /\ lease.seq < MaxSeq
        /\ Follow(Call(session, [work EXCEPT !.at = "checkpoint"], "checkpoint"), tail)
     \/ Follow(Call(session, [work EXCEPT !.at = "lookup"], "lookup"), tail)
     \/ \E goal \in {"succeeded", "interrupted"} :
          Follow(Honored(session, FALSE, Settle(session, goal, FALSE)), tail)
     \/ Follow(Honored(session, FALSE, Release(session, FALSE)), tail)
     \/ Follow(Thrown(session, "handler"), tail)
  /\ Local

EffectReturns ==
  /\ work.at = "effect"
  /\ \/ Follow(Handling(session), tail)
     \/ \E error \in {"ambiguous", "handler"} : Follow(Thrown(session, error), tail)
  /\ Local

\* The deadline of 8 s bounds it.  A routine that cannot be proven stopped
\* turns a cancellation into an interruption, once.
Cleanup ==
  /\ work.at = "cleanup"
  /\ \/ Follow(Call(session, [work EXCEPT !.at = "settle"], "settle"), tail)
     \/ /\ work.goal = "cancelled"
        /\ Follow(IF work.caught THEN Settle(session, "interrupted", TRUE)
                  ELSE Honored(session, TRUE, Settle(session, "interrupted", TRUE)), tail)
  /\ Local

Fired(s) == [s EXCEPT !.timer = "off"]
FireTimer ==
  /\ session.timer # "off"
  /\ \E runway \in RunwayAfter(session.runway, session.timer) :
       session' = [Fired(session) EXCEPT !.runway = runway]
  /\ tail' = Append(tail, "beat")
  /\ UNCHANGED work /\ Local

\* The session is registered until its last call is drained.
Registered == work.at # "ended" \/ tail # <<>>
RequestHandoff ==
  /\ Registered /\ ~session.shutdown /\ ~session.handoff
  /\ session' = [Aborted(session) EXCEPT !.handoff = TRUE, !.timer = "off"]
  /\ UNCHANGED <<work, tail>> /\ Local
RequestShutdown ==
  /\ Registered /\ ~session.shutdown
  /\ session' = [Aborted(session) EXCEPT !.shutdown = TRUE, !.handoff = FALSE, !.timer = "off"]
  /\ UNCHANGED <<work, tail>> /\ Local

\* The lease expires, is taken over or its gate closes; authority is withdrawn.
LeaseMoves ==
  /\ lease.mine /\ lease' = [lease EXCEPT !.mine = FALSE]
  /\ UNCHANGED <<session, work, tail, phase, answer>>
Deny ==
  /\ lease.deny = "none" /\ \E denial \in Denials : lease' = [lease EXCEPT !.deny = denial]
  /\ UNCHANGED <<session, work, tail, phase, answer>>

Next == \/ Send \/ Refuse \/ Execute \/ Fail \/ Receive
        \/ Handle \/ EffectReturns \/ Cleanup \/ FireTimer
        \/ RequestHandoff \/ RequestShutdown \/ LeaseMoves \/ Deny

Spec == Init /\ [][Next]_vars

\* Callbacks run, the timer fires, statements end (statement_timeout), cleanup
\* has a deadline, and an effect ends once its signal is aborted.  The database
\* may fail forever and an effect that is not aborted may last forever.
FairSpec == /\ Spec
            /\ WF_vars(Send \/ Refuse) /\ WF_vars(Execute \/ Fail) /\ WF_vars(Receive)
            /\ WF_vars(Handle) /\ WF_vars(Cleanup) /\ WF_vars(FireTimer)
            /\ WF_vars(session.aborted /\ EffectReturns)
-----------------------------------------------------------------------------
(* Properties *)

\* The session's fields have their values, and at most one call of the worker
\* and one heartbeat are ever chained on #tail.
TypeOK ==
  /\ lease \in [mine : BOOLEAN, deny : Denials \cup {"none"}, status : Terminals \cup {"open"}, seq : 0..MaxSeq]
  /\ session \in [running : BOOLEAN, lost : BOOLEAN, denied : Denials \cup {"none"}, failed : BOOLEAN,
                  handoff : BOOLEAN, shutdown : BOOLEAN, aborted : BOOLEAN,
                  seq : 0..MaxSeq, runway : 0..Lease, timer : {"off", "renew", "retry"}]
  /\ work \in [at : {"start", "handler", "external", "effect", "checkpoint", "lookup", "cleanup",
                     "settle", "release", "ended"},
               goal : Terminals \cup {"none"}, caught : BOOLEAN,
               outcome : Terminals \cup {"none", "released", "fence_lost", "handed_off", "rejected"}]
  /\ tail \in UNION {[1..n -> Renewals \cup Mutations \cup {"lookup"}] : n \in 0..2}
  /\ Len(tail) = 2 => (tail[1] = "beat") # (tail[2] = "beat")
  /\ phase \in {"waiting", "sent", "answered"}
  /\ answer \in Denials \cup {"none", "ok", "gone", "unsure", "raised"}

\* What the engine reports is what the database holds: a terminal outcome was
\* written by this fence, and work reported released was left open.
OutcomeIsDurable ==
  /\ work.outcome \in Terminals => lease.status = work.outcome
  /\ work.outcome = "released" => lease.status = "open" /\ ~lease.mine

\* A session gives its fence up for lost only when the database has moved it or
\* ended its work, or when a deadline it must report has passed: no answer taken
\* out of order and no empty lookup does that to a live fence.
LostMeansMoved == session.lost => ~lease.mine \/ lease.deny = "deadline"

\* While the handler or an effect runs with its signal intact, a renewal is
\* scheduled or on its way: a heartbeat never dies silently.
HeartbeatNeverSilent ==
  work.at \in {"handler", "effect"} /\ ~session.aborted
    => session.timer # "off" \/ \E i \in DOMAIN tail : tail[i] = "beat"

\* What a session reports is what the database holds, it gives up no fence that is
\* still its own, and its heartbeat never dies silently.
SessionTellsTheTruth == OutcomeIsDurable /\ LostMeansMoved /\ HeartbeatNeverSilent

\* No external effect starts in a session that was asked to stop or lost its
\* authority, even while its last renewal was under way.
EffectsStartAuthorized ==
  [][work.at # "effect" /\ work'.at = "effect" => ~session'.aborted /\ Refusal(session') = "none"]_vars

\* Once a handoff is requested, no checkpoint, settlement or release is sent.
HandoffSettlesNothing ==
  [][phase = "waiting" /\ phase' = "sent" /\ session.handoff => Head(tail) \notin Mutations]_vars

\* Once the fence is lost the execution ends, even if every later call fails
\* and the effect under way would last forever.
LostFenceEnds == ~lease.mine ~> work.at = "ended"
-----------------------------------------------------------------------------
(* What a document or a comment says and the code does not keep: README,     *)
(* section 4.                                                               *)

\* A session never gives up a fence the database still holds for it.
LiveFenceKept == session.lost => ~lease.mine

\* Once a handoff is requested, no call that changes the lease is sent either.
HandoffMutatesNothing ==
  [][phase # "sent" /\ phase' = "sent" /\ session.handoff
       => Head(tail') \notin Mutations \cup Renewals]_vars
=============================================================================
