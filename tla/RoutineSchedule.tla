-------------------------- MODULE RoutineSchedule --------------------------
(***************************************************************************)
(* One routine of a Companion: its row, the workers that claim its due     *)
(* instants and fire them, the member who changes it, and the turns it     *)
(* leaves in the routine lane.  routineSupervisor, companionRoutinesApi    *)
(* and the functions of migrations 0106, 0141, 0144 and 0145.              *)
(*                                                                         *)
(* An instant is the n-th the routine was given, by the schedule it was    *)
(* computed from.  A disabled routine has no instant.                      *)
(***************************************************************************)
EXTENDS Integers, FiniteSets

CONSTANTS Workers,      \* processes that run the routine supervisor
          Schedules,    \* cron expressions with their time zones
          MaxFailures,  \* failures in a row that disable a routine (5 in the code)
          MaxInstants,  \* bound: instants the routine is given
          MaxAsks,      \* bound: changes a member asks for
          MaxMishaps    \* bound: crashes, errors, lost answers, leases lost under a live worker

VARIABLES routine,  \* the companion_routines row
          worker,   \* worker[w]: the claim w works on
          turns,    \* the routine's turns, by message id; stray: a Retry put it back without its routine
          draft,    \* what the member's update read, if one is under way
          asks, mishaps

vars == <<routine, worker, turns, draft, asks, mishaps>>

NoClaim == [at |-> "idle", by |-> "none", n |-> 0]
NoDraft == [open |-> FALSE, enabled |-> FALSE, schedule |-> "none"]
\* A routine as an insert leaves it.
New(s, n, gen) == [live |-> TRUE, enabled |-> TRUE, gen |-> gen, schedule |-> s, by |-> s, n |-> n, due |-> FALSE,
                   late |-> FALSE, failures |-> 0, claimed_by |-> "none", leased |-> FALSE]

Init == /\ \E s \in Schedules : routine = New(s, 1, 1)
        /\ worker = [w \in Workers |-> NoClaim]
        /\ turns = {} /\ draft = NoDraft /\ asks = 0 /\ mishaps = 0

Mishap == mishaps < MaxMishaps /\ mishaps' = mishaps + 1
Unclaimed(r) == [r EXCEPT !.claimed_by = "none", !.leased = FALSE]
At(r, by, n) == [r EXCEPT !.by = by, !.n = n, !.due = FALSE, !.late = FALSE]
HasInstant == routine.live /\ routine.enabled
-----------------------------------------------------------------------------
(* Turns. *)

\* A run of the definition that is live and enabled.
IsCurrent(t) == HasInstant /\ t.gen = routine.gen
InFlight == {t \in turns : t.status \in {"queued", "active"} /\ t.gen = routine.gen}
\* companion_cancel_queued_routine_turns, run by the triggers on disable and on delete.
Cancelled == {IF t.status = "queued" /\ t.gen = routine.gen THEN [t EXCEPT !.status = "cancelled"] ELSE t : t \in turns}

\* Fault: a routine its own failures disable keeps its queued turns.
FaultDisables(r) == routine' = [Unclaimed(r) EXCEPT !.enabled = FALSE] /\ UNCHANGED turns
Disables(r) == routine' = [r EXCEPT !.enabled = FALSE, !.due = FALSE, !.late = FALSE] /\ turns' = Cancelled

With(ts, t, status) == (ts \ {t}) \union {[t EXCEPT !.status = status]}
Becomes(t, status) == turns' = With(turns, t, status)
Starts(t) == t.status = "queued" /\ Becomes(t, "active") /\ UNCHANGED <<routine, worker, draft, asks, mishaps>>
\* companion_runtime_expire_queued_routine_turns.
Expires(t) == t.status = "queued" /\ Becomes(t, "cancelled") /\ UNCHANGED <<routine, worker, draft, asks, mishaps>>

\* companion_record_routine_run_outcome: only the definition that fired the run is accountable.
Accountable(t) == routine.live /\ t.gen = routine.gen
Succeeds(t) ==
  /\ t.status = "active" /\ Becomes(t, "succeeded")
  /\ routine' = IF Accountable(t) THEN [routine EXCEPT !.failures = 0] ELSE routine
  /\ UNCHANGED <<worker, draft, asks, mishaps>>
RunFails(t) ==
  /\ t.status = "active"
  /\ LET r == [routine EXCEPT !.failures = @ + 1] IN
     \/ ~Accountable(t) /\ Becomes(t, "failed") /\ UNCHANGED routine
     \/ Accountable(t) /\ r.failures < MaxFailures /\ Becomes(t, "failed") /\ routine' = r
     \/ /\ Accountable(t) /\ r.failures >= MaxFailures
        /\ routine' = [r EXCEPT !.enabled = FALSE, !.due = FALSE, !.late = FALSE]
        /\ turns' = With(Cancelled, t, "failed")
  /\ UNCHANGED <<worker, draft, asks, mishaps>>
\* A run is cancelled, or interrupted: by the end of its attempt, or while it is queued by
\* the claim of a stop or a restart.
RunStops(t) == /\ \/ t.status = "active" /\ Becomes(t, "cancelled")
                  \/ t.status \in {"queued", "active"} /\ Becomes(t, "interrupted")
               /\ UNCHANGED <<routine, worker, draft, asks, mishaps>>
-----------------------------------------------------------------------------
(* Time and the workers. *)

ComesDue == /\ HasInstant /\ ~routine.due /\ routine' = [routine EXCEPT !.due = TRUE]
            /\ UNCHANGED <<worker, turns, draft, asks, mishaps>>
\* The instant is ten minutes old.
GrowsLate == /\ HasInstant /\ routine.due /\ ~routine.late /\ routine' = [routine EXCEPT !.late = TRUE]
             /\ UNCHANGED <<worker, turns, draft, asks, mishaps>>
LeaseExpires ==
  /\ routine.leased /\ routine' = [routine EXCEPT !.leased = FALSE]
  /\ IF \E w \in Workers : worker[w].at # "idle" /\ routine.claimed_by = w THEN Mishap ELSE UNCHANGED mishaps
  /\ UNCHANGED <<worker, turns, draft, asks>>

\* Fault: the claim of a worker that died keeps the routine.
FaultClaimable == HasInstant /\ routine.due /\ routine.claimed_by = "none"
Claimable == HasInstant /\ routine.due /\ ~routine.leased
\* companion_claim_due_routines.
Claim(w) ==
  /\ worker[w].at = "idle" /\ Claimable
  /\ routine' = [routine EXCEPT !.claimed_by = w, !.leased = TRUE]
  /\ worker' = [worker EXCEPT ![w] = [at |-> "fire", by |-> routine.by, n |-> routine.n]]
  /\ UNCHANGED <<turns, draft, asks, mishaps>>

Done(w) == worker' = [worker EXCEPT ![w] = NoClaim]
ToFail(w) == worker' = [worker EXCEPT ![w].at = "fail"]
Fence(w) == /\ HasInstant /\ routine.claimed_by = w /\ routine.leased
            /\ routine.by = worker[w].by /\ routine.n = worker[w].n
\* nextRoutineFireAt, from the schedule the claim carried.
Moved(r, w) == At(r, worker[w].by, worker[w].n + 1)

\* companion_fire_routine: a missed instant, and one that finds an earlier run in
\* flight, are skipped.  The fence refuses a disabled routine.  The answer may be lost.
Enqueued(w) == IF \E t \in turns : t.n = worker[w].n THEN turns
               ELSE turns \union {[n |-> worker[w].n, gen |-> routine.gen, status |-> "queued", stray |-> FALSE]}
Fire(w) ==
  /\ worker[w].at = "fire" /\ worker[w].n < MaxInstants
  /\ \/ ~Fence(w) /\ ToFail(w) /\ UNCHANGED <<routine, turns, mishaps>>
     \/ /\ Fence(w)
        /\ routine' = Unclaimed(Moved(routine, w))
        /\ turns' = IF routine.late \/ InFlight # {} THEN turns ELSE Enqueued(w)
        /\ \/ Done(w) /\ UNCHANGED mishaps
           \/ Mishap /\ ToFail(w)
     \/ Mishap /\ ToFail(w) /\ UNCHANGED <<routine, turns>>
  /\ UNCHANGED <<draft, asks>>

\* companion_fail_routine_fire.  It knows the claim by the worker's name.
Fail(w) ==
  /\ worker[w].at = "fail" /\ Done(w)
  /\ \/ UNCHANGED mishaps
        /\ IF routine.live /\ routine.claimed_by = w
             THEN LET r == Unclaimed([routine EXCEPT !.failures = @ + 1]) IN
                  IF r.failures >= MaxFailures
                    THEN Disables(r)
                    ELSE routine' = Moved(r, w) /\ UNCHANGED turns
             ELSE UNCHANGED <<routine, turns>>
     \/ Mishap /\ UNCHANGED <<routine, turns>>
  /\ UNCHANGED <<draft, asks>>

Crash(w) == worker[w].at # "idle" /\ Mishap /\ Done(w) /\ UNCHANGED <<routine, turns, draft, asks>>
-----------------------------------------------------------------------------
(* The member. *)

Ask == asks < MaxAsks /\ asks' = asks + 1

\* updateCompanionRoutineV2 reads the routine, and what is not changed is written back.
OpenUpdate ==
  /\ routine.live /\ ~draft.open /\ Ask
  /\ draft' = [open |-> TRUE, enabled |-> routine.enabled, schedule |-> routine.schedule]
  /\ UNCHANGED <<routine, worker, turns, mishaps>>

\* The instant an update gives: the next of the schedule, which is the one it had
\* when the schedule stays and that instant is still to come.
Again(s) == IF s = routine.schedule /\ HasInstant /\ ~routine.due THEN routine.n ELSE routine.n + 1
Rewritten(s) == [At(routine, s, Again(s)) EXCEPT !.enabled = TRUE, !.schedule = s, !.failures = 0]
\* updateCompanionRoutineV2, companion_api_update_routine: an enabled routine keeps the claim of its worker.
Update ==
  /\ draft.open /\ draft' = NoDraft /\ routine.n < MaxInstants
  /\ \/ ~routine.live /\ UNCHANGED <<routine, turns>>
     \/ /\ routine.live
        /\ \E s \in {draft.schedule} \union Schedules, enabled \in BOOLEAN :
             /\ s = draft.schedule \/ enabled = draft.enabled
             /\ IF enabled
                  THEN routine' = Rewritten(s) /\ UNCHANGED turns
                  ELSE Disables(Unclaimed([routine EXCEPT !.schedule = s, !.failures = 0]))
  /\ UNCHANGED <<worker, asks, mishaps>>

\* companion_api_answer_routine_decision: an approved proposal replaces the definition
\* and invalidates the claim.
Approve(s) ==
  /\ routine.live /\ routine.n < MaxInstants /\ Ask
  /\ routine' = Unclaimed(Rewritten(s))
  /\ UNCHANGED <<worker, turns, draft, mishaps>>

Delete ==
  /\ routine.live /\ Ask /\ turns' = Cancelled
  /\ routine' = [Unclaimed(routine) EXCEPT !.live = FALSE, !.due = FALSE, !.late = FALSE]
  /\ UNCHANGED <<worker, draft, mishaps>>

\* The id of a deleted routine may be used again.
Create(s) ==
  /\ ~routine.live /\ routine.n < MaxInstants /\ Ask
  /\ routine' = New(s, routine.n + 1, routine.gen + 1)
  /\ UNCHANGED <<worker, turns, draft, mishaps>>
\* companion_api_retry_turn asks for an interrupted run and its hand-off queues the run
\* when the restart is done: neither looks at what became of its routine.
Retry(t) ==
  /\ t.status = "interrupted" /\ Ask
  /\ turns' = (turns \ {t}) \union {[t EXCEPT !.status = "queued", !.stray = ~IsCurrent(t)]}
  /\ UNCHANGED <<routine, worker, draft, mishaps>>
-----------------------------------------------------------------------------
Works(w) == Claim(w) \/ Fire(w) \/ Fail(w)
Next == \/ \E w \in Workers : Works(w) \/ Crash(w)
        \/ \E t \in turns : Starts(t) \/ Expires(t) \/ Succeeds(t) \/ RunFails(t) \/ RunStops(t) \/ Retry(t)
        \/ ComesDue \/ GrowsLate \/ LeaseExpires \/ OpenUpdate \/ Update \/ Delete
        \/ \E s \in Schedules : Approve(s) \/ Create(s)

Spec == Init /\ [][Next]_vars

\* Some worker always runs, and leases expire.
FairSpec == Spec /\ (\A w \in Workers : WF_vars(Works(w))) /\ WF_vars(LeaseExpires)
-----------------------------------------------------------------------------
\* A queued run belongs to the definition that is live and enabled, unless a Retry put it
\* back when that definition was gone already: disabling it, by a member or by its failures,
\* and deleting it leave none behind, and a Retry before they do makes no difference.
OnlyRetriesOutliveRoutine ==
  \A t \in turns : t.status = "queued" => IsCurrent(t) \/ t.stray

\* A due instant is fired, skipped or given up, whichever worker dies on it.  (The one
\* after it is never due at once.)
DueMovesOn == HasInstant /\ routine.due /\ routine.n < MaxInstants ~> ~(HasInstant /\ routine.due)

(* What the code does not keep. *)

\* The instant of a routine follows from the schedule the member last gave it: no
\* claim made before the change writes over it.
InstantFollowsSchedule == HasInstant => routine.by = routine.schedule

\* No queued run is left to a routine that is disabled or deleted.
QueuedRunsAreOfLiveRoutine == \A t \in turns : t.status = "queued" => IsCurrent(t)
=============================================================================
