--------------------------- MODULE RuntimeReplica ---------------------------
(***************************************************************************)
(* One replica of the runtime: the claim loop of RuntimeScheduler, the     *)
(* executions it starts, the registry of sessions through which the engine *)
(* reaches them, and what the database, the gate and the other replicas do *)
(* meanwhile.  An execution is named by its fence: the work and the epoch  *)
(* of the lease it was claimed under.                                      *)
(*                                                                         *)
(* JavaScript runs one callback at a time: an action is what happens       *)
(* between two awaits, or one transaction of the database.                 *)
(***************************************************************************)
EXTENDS Integers, FiniteSets

CONSTANTS Works,        \* work ids: attempts, operations, decisions, ...
          Concurrency,  \* executions a replica runs at once
          Mishaps,      \* subset of {"reply", "expiry", "deadline"}
          MaxEpoch,     \* bound: claims of one work
          MaxGate       \* bound: openings and closings of the gate

ASSUME ReplicaAssumption == /\ IsFiniteSet(Works) /\ Concurrency \in Nat \ {0} /\ Mishaps \subseteq {"reply", "expiry", "deadline"}
                            /\ MaxEpoch \in Nat \ {0} /\ MaxGate \in Nat \ {0}

VARIABLES work,         \* work[w]: the lease of w in the database
          gate,         \* companion_runtime_control
          loop,         \* where #runLoop and sweepOnce stand
          seen,         \* the gate as the sweep under way read it
          slots,        \* freeSlots of the sweep under way
          batch,        \* claims returned and not yet given to the engine
          active,       \* RuntimeScheduler.#active
          exec,         \* exec[x]: the execution with fence x and its session
          sessions,     \* RuntimeEngine.#sessions: for a work id, an epoch or 0
          wake,         \* #wakePending
          cut,          \* #sleepAbort is aborted
          interrupted,  \* #gateInterruptionApplied
          accepting,    \* #acceptingClaims
          handed,       \* handoffActive was called
          unswept       \* an execution ended since the last sweep began

vars == <<work, gate, loop, seen, slots, batch, active, exec, sessions, wake, cut,
          interrupted, accepting, handed, unswept>>
database == <<work, gate>>
sweep == <<loop, seen, slots, batch, interrupted>>
process == <<active, exec, sessions, wake, cut, accepting, handed, unswept>>

Epochs == 1..MaxEpoch
Fences == Works \X Epochs
Gates == [open : BOOLEAN, epoch : 1..MaxGate]

\* live: its handler runs.  ending: its last call of the database is made and
\* the answer not yet seen.  adrift: its claim was lost on the way back.
\* lost: its session takes the lease for lost, or no longer knows.
Executions == [st : {"none", "live", "ending", "over", "adrift"},
               ask : {"none", "handoff", "shutdown"}, lost : BOOLEAN]

Init == /\ work = [w \in Works |-> [epoch |-> 0, owner |-> "none", settled |-> FALSE]]
        /\ gate = [open |-> TRUE, epoch |-> 1]
        /\ loop = "top" /\ seen = gate /\ slots = 0 /\ batch = {}
        /\ active = {}
        /\ exec = [x \in Fences |-> [st |-> "none", ask |-> "none", lost |-> FALSE]]
        /\ sessions = [w \in Works |-> 0]
        /\ wake = FALSE /\ cut = FALSE /\ interrupted = FALSE
        /\ accepting = TRUE /\ handed = FALSE /\ unswept = FALSE

Holds(x) == work[x[1]].owner = "self" /\ work[x[1]].epoch = x[2]
Live(x) == exec[x].st = "live"
Claimable == {w \in Works : ~work[w].settled /\ work[w].owner = "none" /\ work[w].epoch < MaxEpoch}
ClaimedBy(W, who) == [w \in Works |-> IF w \in W THEN [work[w] EXCEPT !.epoch = @ + 1, !.owner = who]
                                      ELSE work[w]]
Freed(w, settled) == [work EXCEPT ![w].owner = "none", ![w].settled = settled]

\* requestHandoff and requestShutdown, through the registry of sessions: a
\* shutdown overrides a handoff and a handoff never overrides a shutdown.
Registered(x) == sessions[x[1]] = x[2]
AskAll(what) == [x \in Fences |-> IF Registered(x) /\ (what = "shutdown" \/ exec[x].ask = "none")
                                    THEN [exec[x] EXCEPT !.ask = what] ELSE exec[x]]
-----------------------------------------------------------------------------
(* The claim loop. *)

BeginSweep ==
  /\ loop = "top"
  /\ IF accepting THEN loop' = "gate" /\ unswept' = FALSE
                  ELSE loop' = "stopped" /\ UNCHANGED unswept
  /\ UNCHANGED <<database, seen, slots, batch, interrupted, active, exec, sessions, wake, cut,
                 accepting, handed>>

ReadGate ==
  /\ loop = "gate"
  /\ seen' = gate /\ loop' = "decide"
  /\ UNCHANGED <<database, slots, batch, interrupted, process>>

\* Fault: the free slots are counted without the executions under way.
FaultFreeSlots == Concurrency
FreeSlots == Concurrency - Cardinality(active)

\* The first sweep that sees the gate closed interrupts what runs.  (A replica that is
\* configured not to claim closes the gate itself and runs nothing: to this one it is TurnGate.)
Decide ==
  /\ loop = "decide"
  /\ IF accepting /\ seen.open
       THEN /\ interrupted' = FALSE /\ slots' = FreeSlots
            /\ loop' = IF FreeSlots > 0 THEN "claim" ELSE "between"
            /\ UNCHANGED exec
       ELSE /\ loop' = "between" /\ UNCHANGED slots
            /\ IF seen.open \/ interrupted
                 THEN UNCHANGED <<interrupted, exec>>
                 ELSE interrupted' = TRUE /\ exec' = AskAll("shutdown")
  /\ UNCHANGED <<database, seen, batch, active, sessions, wake, cut, accepting, handed, unswept>>

\* companion_runtime_claim_work grants some of what is due, if the gate still
\* stands as the sweep read it.  An answer may be lost after the commit.
ClaimWork ==
  /\ loop = "claim"
  /\ \E W \in SUBSET Claimable :
       /\ Cardinality(W) <= slots
       /\ W # {} => gate.open /\ gate = seen
       /\ work' = ClaimedBy(W, "self")
       /\ LET new == {<<w, work'[w].epoch>> : w \in W}
          IN  \/ /\ batch' = new /\ loop' = IF W = {} THEN "between" ELSE "grant"
                 /\ UNCHANGED exec
              \/ /\ "reply" \in Mishaps /\ W # {}
                 /\ exec' = [x \in Fences |-> IF x \in new THEN [exec[x] EXCEPT !.st = "adrift"]
                                              ELSE exec[x]]
                 /\ loop' = "between" /\ UNCHANGED batch
  /\ UNCHANGED <<gate, seen, slots, interrupted, active, sessions, wake, cut, accepting, handed, unswept>>

SweepFails ==
  /\ loop \in {"gate", "claim"} /\ "reply" \in Mishaps
  /\ loop' = "between"
  /\ UNCHANGED <<database, seen, slots, batch, interrupted, process>>

\* Fault: what came back after the loop was stopped is executed all the same.
FaultMayExecute == TRUE
MayExecute == accepting

\* The claims that came back are all given to the engine in one callback.
ExecuteClaims ==
  /\ loop = "grant" /\ MayExecute
  /\ active' = active \cup batch
  /\ exec' = [x \in Fences |-> IF x \in batch THEN [exec[x] EXCEPT !.st = "live"] ELSE exec[x]]
  /\ sessions' = [w \in Works |-> IF \E e \in Epochs : <<w, e>> \in batch
                                   THEN CHOOSE e \in Epochs : <<w, e>> \in batch ELSE sessions[w]]
  /\ batch' = {} /\ loop' = "between"
  /\ UNCHANGED <<database, seen, slots, interrupted, wake, cut, accepting, handed, unswept>>

\* Fault: a claim that comes too late is dropped and its lease left to expire.
FaultGivenBack(x) == work
GivenBack(x) == IF Holds(x) THEN Freed(x[1], work[x[1]].settled) ELSE work

\* Those that came back after the loop was stopped are released one by one; a
\* release that fails leaves the rest to expire.
ReleaseClaim ==
  /\ loop = "grant" /\ ~MayExecute
  /\ \E x \in batch :
       /\ work' = GivenBack(x)
       /\ \/ /\ batch' = batch \ {x} /\ UNCHANGED exec
             /\ loop' = IF batch = {x} THEN "between" ELSE "grant"
          \/ /\ "reply" \in Mishaps
             /\ exec' = [y \in Fences |-> IF y \in batch THEN [exec[y] EXCEPT !.st = "adrift"]
                                          ELSE exec[y]]
             /\ batch' = {} /\ loop' = "between"
  /\ UNCHANGED <<gate, seen, slots, interrupted, active, sessions, wake, cut, accepting, handed, unswept>>

\* After a sweep: stop, sweep again for a wake that is pending, or sleep.
Between ==
  /\ loop = "between"
  /\ loop' = IF ~accepting THEN "stopped" ELSE IF wake THEN "top" ELSE "sleep"
  /\ wake' = (wake /\ ~accepting)
  /\ cut' = FALSE
  /\ UNCHANGED <<database, seen, slots, batch, interrupted, active, exec, sessions, accepting, handed, unswept>>

\* The sleep is cut short; a loop that was stopped stays stopped.
Woken == /\ loop = "sleep" /\ cut /\ loop' = "top"
         /\ UNCHANGED <<database, seen, slots, batch, interrupted, process>>
SleptEnough == /\ loop = "sleep" /\ ~cut /\ loop' = "top"
               /\ UNCHANGED <<database, seen, slots, batch, interrupted, process>>
-----------------------------------------------------------------------------
(* The executions. *)

\* Fault: a renewal that finds no lease is taken for a passing failure.
FaultFoundLost(x) == FALSE
FoundLost(x) == ~Holds(x)

\* A renewal: it proves the lease or finds it lost.
Renew(x) ==
  /\ Live(x) /\ exec[x].ask = "none" /\ ~exec[x].lost
  /\ FoundLost(x)
  /\ exec' = [exec EXCEPT ![x].lost = TRUE]
  /\ UNCHANGED <<database, sweep, active, sessions, wake, cut, accepting, handed, unswept>>

\* A call of the database fails for good, or declines past a deadline of the work as if the
\* fence had moved: the session stops, though the lease may still be held.
Doubt(x) ==
  /\ Live(x) /\ exec[x].ask # "handoff" /\ ~exec[x].lost
  /\ Mishaps \cap {"reply", "deadline"} # {}
  /\ exec' = [exec EXCEPT ![x].lost = TRUE]
  /\ UNCHANGED <<database, sweep, active, sessions, wake, cut, accepting, handed, unswept>>

\* After a handoff, and when the lease is lost or in doubt, the database is not called; a
\* shutdown is settled even when a renewal failed.
LeavesWork(x) == exec[x].ask = "handoff" \/ ~Holds(x) \/ exec[x].lost
MaySettle(x) == Holds(x) /\ exec[x].ask # "handoff" /\ (exec[x].lost => exec[x].ask = "shutdown")

\* The handler ends.  Its work is settled or released, or left until the lease runs out.
EndExecution(x) ==
  /\ Live(x)
  /\ exec' = [exec EXCEPT ![x].st = "ending"]
  /\ \/ LeavesWork(x) /\ UNCHANGED work
     \/ MaySettle(x) /\ \E settled \in IF exec[x].ask = "shutdown" THEN {TRUE} ELSE BOOLEAN :
                           work' = Freed(x[1], settled)
  /\ UNCHANGED <<gate, sweep, active, sessions, wake, cut, accepting, handed, unswept>>

\* Fault: only a sleeping loop is told that a slot is free.
FaultRetained == FALSE
Retained == TRUE

\* #execute's finally and #removeActive: the registry forgets the work id, and
\* the loop is woken or finds the wake pending.
Return(x) ==
  /\ exec[x].st = "ending"
  /\ exec' = [exec EXCEPT ![x].st = "over"]
  /\ sessions' = [sessions EXCEPT ![x[1]] = 0]
  /\ active' = active \ {x}
  /\ IF loop = "sleep" /\ ~cut THEN cut' = TRUE /\ UNCHANGED wake
                               ELSE wake' = (wake \/ Retained) /\ UNCHANGED cut
  /\ unswept' = TRUE
  /\ UNCHANGED <<database, sweep, accepting, handed>>
-----------------------------------------------------------------------------
(* Shutting the process down, and the rest of the world. *)

\* stopClaims ends the sleep; handoffActive follows when ingress is closed.
StopClaims ==
  /\ accepting /\ accepting' = FALSE
  /\ cut' = (cut \/ loop = "sleep")
  /\ UNCHANGED <<database, sweep, active, exec, sessions, wake, handed, unswept>>

HandoffActive ==
  /\ ~accepting /\ ~handed /\ handed' = TRUE
  /\ exec' = AskAll("handoff")
  /\ UNCHANGED <<database, sweep, active, sessions, wake, cut, accepting, unswept>>

\* A lease that nobody renews runs out; with "expiry" so does any other.
Renewing(x) == Live(x) /\ exec[x].ask = "none" /\ ~exec[x].lost
Expire(w) ==
  /\ work[w].owner = "self" /\ <<w, work[w].epoch>> \notin batch
  /\ "expiry" \in Mishaps \/ ~Renewing(<<w, work[w].epoch>>)
  /\ work' = Freed(w, FALSE)
  /\ UNCHANGED <<gate, sweep, process>>

OtherReplica(w) ==
  /\ \/ gate.open /\ w \in Claimable /\ work' = ClaimedBy({w}, "other")
     \/ work[w].owner = "other" /\ \E settled \in BOOLEAN : work' = Freed(w, settled)
  /\ UNCHANGED <<gate, sweep, process>>

\* companion_runtime_disable clears every lease and interrupts leased work.
TurnGate ==
  /\ gate.epoch < MaxGate
  /\ gate' = [open |-> ~gate.open, epoch |-> gate.epoch + 1]
  /\ IF gate.open
       THEN \E W \in SUBSET {w \in Works : work[w].owner # "none"} :
              work' = [w \in Works |-> [work[w] EXCEPT !.owner = "none", !.settled = @ \/ w \in W]]
       ELSE UNCHANGED work
  /\ UNCHANGED <<sweep, process>>
-----------------------------------------------------------------------------
ClaimLoop == BeginSweep \/ ReadGate \/ Decide \/ ClaimWork \/ ExecuteClaims \/ ReleaseClaim \/ Between \/ Woken
Next == \/ ClaimLoop \/ SweepFails \/ SleptEnough
        \/ \E x \in Fences : Renew(x) \/ Doubt(x) \/ EndExecution(x) \/ Return(x)
        \/ StopClaims \/ HandoffActive \/ TurnGate
        \/ \E w \in Works : Expire(w) \/ OtherReplica(w)
Spec == Init /\ [][Next]_vars

\* The database answers, sessions renew while they may, and a handler whose
\* signal is aborted unwinds.  The timer of the sleep is left out on purpose
\* and so is the end of a handler that Pi keeps busy.
Fairness == /\ WF_vars(ClaimLoop)
            /\ \A x \in Fences : /\ WF_vars(Renew(x)) /\ WF_vars(Return(x))
                                /\ WF_vars((exec[x].ask # "none" \/ exec[x].lost) /\ EndExecution(x))
FairSpec == Spec /\ Fairness
-----------------------------------------------------------------------------
(* Properties. *)

\* TypeOK: every variable has the shape of the field it stands for.
TypeOK == /\ work \in [Works -> [epoch : 0..MaxEpoch, owner : {"none", "self", "other"}, settled : BOOLEAN]]
          /\ gate \in Gates /\ seen \in Gates
          /\ loop \in {"top", "gate", "decide", "claim", "grant", "between", "sleep", "stopped"}
          /\ slots \in 0..Concurrency /\ batch \subseteq Fences /\ active \subseteq Fences
          /\ exec \in [Fences -> Executions] /\ sessions \in [Works -> 0..MaxEpoch]
          /\ {wake, cut, interrupted, accepting, handed, unswept} \subseteq BOOLEAN

\* A replica never runs more than its share, though slots are counted before
\* the claim and used after it.
ConcurrencyRespected == Cardinality(active \cup batch) <= Concurrency

\* A lease this replica holds is being executed, is about to be, or was handed over: none
\* lies idle until it expires, but those whose claim was lost on its way back and those
\* whose execution could not tell, from a failed or declined call, that it held them.
NoIdleLease == \A w \in Works : work[w].owner = "self" =>
  LET x == <<w, work[w].epoch>>
  IN  x \in active \cup batch \/ exec[x].st = "adrift" \/ exec[x].ask = "handoff" \/ exec[x].lost

\* A replica runs no more than its share, and no lease that it knows of lies idle.
SlotsFollowLeases == ConcurrencyRespected /\ NoIdleLease

\* Once the claims are stopped nothing more enters the process, not even a
\* claim that was on its way.
NothingEntersAfterStop == [][~accepting => active' \subseteq active]_vars

\* The end of an execution leads to a sweep without waiting for the timer.
CompletionIsSwept == unswept ~> (~unswept \/ ~accepting)

\* An execution whose lease is gone ends, whoever took the lease from it.
LostWorkEnds == \A x \in Fences : Live(x) /\ ~Holds(x) ~> exec[x].st = "over"
-----------------------------------------------------------------------------
(* What a document or a comment says and the code does not keep: README,     *)
(* section 4.                                                               *)

\* The replica that is told to hand its work over reaches every execution.
HandoffReachesAll == handed => \A x \in active : Live(x) => exec[x].ask # "none"
=============================================================================
