---------------------------- MODULE RuntimeLease ----------------------------
(***************************************************************************)
(* The PostgreSQL lease protocol of one Companion: the gate row            *)
(* (companion_runtime_control), the two lease rows (lanes main and         *)
(* routine), the instance's last_write_epoch and the claim_epoch stamped   *)
(* on every work row.  Each action is one SECURITY DEFINER call, atomic by *)
(* its row locks.  Its caller may be any executor that was ever granted    *)
(* the claim it presents: a call may be late, repeated, or made by a       *)
(* process that lost its lease long ago.                                   *)
(*                                                                         *)
(* claim_token is left out.  It is a fresh UUID per grant, so the fence    *)
(* here is weaker than the code's, and what holds here holds there.        *)
(***************************************************************************)
EXTENDS Integers

CONSTANTS Executors,  \* replicas of apps/runtime
          Works,      \* work rows of the Companion
          KindOf,     \* KindOf[w]: see Kinds
          LaneOf,     \* LaneOf[w]: the lane whose lease w is claimed under
          TurnOf,     \* TurnOf[w]: the turn a decision or a start serves
          NoExecutor, \* executor_id of a free lease row
          NoWork,     \* work_id of a free lease row
          LeaseTicks, \* lease length, in ticks
          MaxEpoch,   \* bound: the largest claim epoch handed out
          MaxGate,    \* bound: the largest gate epoch
          MaxSeq      \* bound: checkpoints per work row

Lanes == {"main", "routine"}

\* A turn row stands for the turn and its one attempt.  lifecycle: stop,
\* restart_pi, restart_box.  apply: apply_settings.  standing: implicit
\* settings and health work, which stays due for ever.
Kinds == {"delete", "lifecycle", "start", "apply", "turn", "decision", "standing"}
Operations == {"delete", "lifecycle", "start", "apply"}

ASSUME WorkAssumption ==
  /\ KindOf \in [Works -> Kinds]
  /\ LaneOf \in [Works -> Lanes]
  /\ TurnOf \in [Works -> Works \cup {NoWork}]
  /\ \A w \in Works : KindOf[w] \in {"delete", "start", "apply", "standing"}
                         => LaneOf[w] = "main"
  /\ \A w \in Works : TurnOf[w] # NoWork
                         => /\ KindOf[TurnOf[w]] = "turn" /\ KindOf[w] \in {"decision", "start"}
                            /\ KindOf[w] = "decision" => LaneOf[TurnOf[w]] = LaneOf[w]
  /\ NoExecutor \notin Executors /\ NoWork \notin Works
ASSUME BoundAssumption ==
  /\ LeaseTicks \in Nat \ {0}
  /\ MaxEpoch \in Nat /\ MaxGate \in Nat /\ MaxSeq \in Nat

VARIABLES gate,       \* [on, epoch]
          lease,      \* lease[l]: the lease row of lane l
          lastWrite,  \* instance.last_write_epoch
          row,        \* row[w]: the part of a work row the fence reads
          grants,     \* history: every claim ever returned to an executor
          retired     \* the Companion was deleted

vars == <<gate, lease, lastWrite, row, grants, retired>>

Claims == [exec: Executors, lane: Lanes, work: Works, epoch: Nat, gate: Nat]
Leases == [held: BOOLEAN, exec: Executors \cup {NoExecutor}, work: Works \cup {NoWork},
           epoch: Nat, gate: Nat, ttl: 0..LeaseTicks]
\* stamp: claim_epoch (0: NULL).  seq: checkpoint_sequence.  risky: the row
\* records an effect whose outcome only an answer proves.
Rows == [st: {"future", "open", "done"}, stamp: Nat, seq: Nat, risky: BOOLEAN]

Larger(a, b) == IF a >= b THEN a ELSE b

\* A cleared lease row keeps a claim epoch and nothing else.
Cleared(epoch) == [held |-> FALSE, exec |-> NoExecutor, work |-> NoWork,
                   epoch |-> epoch, gate |-> 0, ttl |-> 0]

Init == /\ gate = [on |-> FALSE, epoch |-> 1]
        /\ lease = [l \in Lanes |-> Cleared(0)]
        /\ lastWrite = 0
        /\ row = [w \in Works |-> [st |-> IF KindOf[w] = "standing" THEN "open" ELSE "future",
                                   stamp |-> 0, seq |-> 0, risky |-> FALSE]]
        /\ grants = {}
        /\ retired = FALSE
-----------------------------------------------------------------------------
\* Fault: an off-by-one lets a lease in its last tick be taken over.
ClaimableEarly(l) == ~lease[l].held \/ lease[l].ttl <= 1

\* claim_token IS NULL OR expires_at <= now
Claimable(l) == ~lease[l].held \/ lease[l].ttl = 0

\* The fence predicate every mutator repeats, for the lease row of lane l.
Matches(l, c) == /\ lease[l].held
                 /\ lease[l].exec = c.exec
                 /\ lease[l].work = c.work
                 /\ lease[l].epoch = c.epoch
                 /\ lease[l].gate = c.gate
                 /\ lease[l].ttl > 0
                 /\ gate.on
                 /\ gate.epoch = c.gate

Valid(c) == \E l \in Lanes : Matches(l, c)

\* Fault: the work row's status is not compared.
AuthorizedByStamp(c) == Valid(c) /\ row[c.work].stamp = c.epoch

\* A mutator also needs the live work row to carry the claim's own epoch.
Authorized(c) == /\ Valid(c)
                 /\ row[c.work].st = "open"
                 /\ row[c.work].stamp = c.epoch

\* Fault: epochs are allocated from one lane's own row.
NextEpochOfMain == 1 + lease["main"].epoch

\* The instance serialises epochs over both lanes.
NextEpoch == 1 + Larger(lastWrite, Larger(lease["main"].epoch, lease["routine"].epoch))

Live(w) == row[w].st = "open"
Claimed(w) == Live(w) /\ row[w].stamp > 0
ActiveTurn(l, w) == KindOf[w] = "turn" /\ LaneOf[w] = l /\ Claimed(w)

\* Fault: quiescence is read off the routine lease, not off its turns.
RoutineLeaseFree == Claimable("routine")

\* companion_runtime_routine_lane_quiescent
RoutineQuiet == \A w \in Works : ~ActiveTurn("routine", w)

\* No main operation is filed.
NoMainOperation ==
  ~\E v \in Works : KindOf[v] \in Operations /\ LaneOf[v] = "main" /\ Live(v)

\* An active turn is resumed; a queued one needs its lane to itself.
TurnMayRun(w) == \/ Claimed(w)
                 \/ /\ \A v \in Works : ~ActiveTurn(LaneOf[w], v)
                    /\ LaneOf[w] = "routine" => NoMainOperation

\* The rows work selection may return.
Eligible(w) ==
  /\ Live(w)
  /\ CASE KindOf[w] = "delete"    -> TRUE
       [] KindOf[w] = "decision"  -> Claimed(TurnOf[w])
       [] KindOf[w] = "turn"      -> TurnMayRun(w)
       [] KindOf[w] = "start"     ->
            RoutineQuiet /\ (TurnOf[w] # NoWork => Live(TurnOf[w]) /\ ~Claimed(TurnOf[w]))
       [] OTHER                   -> LaneOf[w] = "main" => RoutineQuiet

\* The order of selection inside a lane.
Rank(w) == CASE KindOf[w] = "delete"    -> 1
             [] KindOf[w] = "lifecycle" -> 2
             [] KindOf[w] = "decision"  -> 3
             [] KindOf[w] = "turn"      -> IF Claimed(w) THEN 4 ELSE 7
             [] KindOf[w] = "start"     -> 5
             [] KindOf[w] = "apply"     -> 6
             [] OTHER                   -> 7

\* available_at lies in the future only for a delete that is being polled.
Selected(w) == /\ Eligible(w)
               /\ \A v \in Works : LaneOf[v] = LaneOf[w] /\ Eligible(v) /\ Rank(v) < Rank(w)
                                     => KindOf[v] = "delete" /\ row[v].seq > 0

\* The rows that claiming operation w terminalises in the same transaction;
\* older: the pending turns and starts accepted before a lifecycle operation.
Superseded(w, older) ==
  CASE LaneOf[w] # "main"      -> {}
    [] KindOf[w] = "delete"    -> {v \in Works \ {w} : KindOf[v] # "standing"}
    [] KindOf[w] = "lifecycle" ->
         older \cup {v \in Works : \/ KindOf[v] = "decision"
                                   \/ KindOf[v] \in {"turn", "start", "apply"} /\ Claimed(v)}
    [] KindOf[w] = "start"     -> {v \in Works : KindOf[v] = "apply" /\ Claimed(v)}
    [] OTHER                   -> {}

Pending(w) == KindOf[w] \in {"turn", "start"} /\ Live(w) /\ ~Claimed(w)

\* Rows closed together with w when w ends badly: a decision or a start takes
\* its turn with it, a turn its decisions.
Family(w) == {v \in Works : \/ v = w \/ v = TurnOf[w]
                            \/ KindOf[v] = "decision" /\ TurnOf[v] \in {w, TurnOf[w]} \ {NoWork}}

Closed(rows, closing) == [v \in Works |->
  IF v \in closing /\ rows[v].st = "open" THEN [rows[v] EXCEPT !.st = "done"] ELSE rows[v]]

\* Fault: only the checkpoints of turns are looked at.
TurnProven(w) == KindOf[w] = "turn" => ~row[w].risky

\* No effect of the row waits for the answer that would prove it.
Proven(w) == ~row[w].risky

Granted(e, w) == [held |-> TRUE, exec |-> e, work |-> w, epoch |-> NextEpoch,
                  gate |-> gate.epoch, ttl |-> LeaseTicks]

\* Fault: a delete leaves the routine lease to its holder.
LeasesSparingRoutine(e, w) == [lease EXCEPT ![LaneOf[w]] = Granted(e, w)]

\* A delete also empties the routine lease, whatever holds it.
LeasesAfterClaim(e, w) ==
  [l \in Lanes |-> IF l = LaneOf[w] THEN Granted(e, w)
                   ELSE IF KindOf[w] = "delete" THEN Cleared(NextEpoch)
                   ELSE lease[l]]
-----------------------------------------------------------------------------
\* The API or the runtime itself files a row; a Companion being deleted takes
\* no more, and a decision is raised by a turn that runs.
Accept(w) ==
  /\ row[w].st = "future" /\ ~retired
  /\ \A v \in Works : KindOf[v] = "delete" => row[v].st = "future"
  /\ KindOf[w] = "decision" => Claimed(TurnOf[w])
  /\ row' = [row EXCEPT ![w].st = "open"]
  /\ UNCHANGED <<gate, lease, lastWrite, grants, retired>>

\* companion_runtime_claim_work grants work w to executor e.
Claim(e, w, older) ==
  /\ gate.on /\ ~retired
  /\ Claimable(LaneOf[w])
  /\ Selected(w) /\ Proven(w)
  /\ NextEpoch <= MaxEpoch /\ row[w].seq <= MaxSeq
  /\ lastWrite' = NextEpoch
  /\ lease' = LeasesAfterClaim(e, w)
  /\ row' = [Closed(row, Superseded(w, older)) EXCEPT
               ![w].stamp = NextEpoch,
               ![w].seq = IF KindOf[w] = "standing" THEN @ + 1 ELSE @]
  /\ grants' = grants \cup {[exec |-> e, lane |-> LaneOf[w], work |-> w,
                             epoch |-> NextEpoch, gate |-> gate.epoch]}
  /\ UNCHANGED <<gate, retired>>

(***************************************************************************)
(* The same call meets work whose effect is unproven (a written prompt or  *)
(* answer, a Box being created): it is terminalised, never granted, and    *)
(* the lease row is cleared under its next epoch.                          *)
(***************************************************************************)
FenceUnproven(w) ==
  LET l == LaneOf[w] IN
  /\ gate.on /\ ~retired
  /\ Claimable(l)
  /\ Selected(w) /\ ~Proven(w)
  /\ lease[l].epoch < MaxEpoch
  /\ row' = Closed(row, Family(w))
  /\ lease' = [lease EXCEPT ![l] = Cleared(lease[l].epoch + 1)]
  /\ lastWrite' = Larger(lastWrite, lease[l].epoch + 1)
  /\ UNCHANGED <<gate, grants, retired>>

\* The same call meets an operation whose actor lost access: it fails, the
\* lease row keeps what it holds.
RefuseRevoked(w) ==
  /\ gate.on /\ ~retired
  /\ Claimable(LaneOf[w])
  /\ Selected(w) /\ Proven(w) /\ KindOf[w] \in Operations
  /\ row' = Closed(row, {w} \cup {v \in Works : v = TurnOf[w] /\ Pending(v)})
  /\ UNCHANGED <<gate, lease, lastWrite, grants, retired>>

\* companion_runtime_reconcile_settled_turn_starts: the turn a running start
\* serves has settled, so the start ends and its expired lease is cleared.
ReconcileStart(w) ==
  /\ KindOf[w] = "start" /\ TurnOf[w] # NoWork
  /\ Claimed(w) /\ (Claimed(TurnOf[w]) \/ ~Live(TurnOf[w]))
  /\ gate.on /\ ~retired
  /\ Claimable("main")
  /\ lease["main"].epoch < MaxEpoch
  /\ row' = Closed(row, {w})
  /\ IF lease["main"].held
     THEN /\ lease' = [lease EXCEPT !["main"] = Cleared(lease["main"].epoch + 1)]
          /\ lastWrite' = Larger(lastWrite, lease["main"].epoch + 1)
     ELSE UNCHANGED <<lease, lastWrite>>
  /\ UNCHANGED <<gate, grants, retired>>
-----------------------------------------------------------------------------
\* Fault: the fence of a renewal does not compare expires_at.
RenewLate(c) ==
  /\ gate.on /\ gate.epoch = c.gate
  /\ row[c.work].st = "open" /\ row[c.work].stamp = c.epoch
  /\ lease[c.lane].held /\ lease[c.lane].exec = c.exec /\ lease[c.lane].epoch = c.epoch
  /\ lease' = [lease EXCEPT ![c.lane].ttl = LeaseTicks]
  /\ UNCHANGED <<gate, lastWrite, row, grants, retired>>

\* companion_runtime_renew_and_authorize, not denied.
Renew(c) ==
  /\ Authorized(c)
  /\ lease' = [l \in Lanes |-> IF Matches(l, c) THEN [lease[l] EXCEPT !.ttl = LeaseTicks]
                               ELSE lease[l]]
  /\ UNCHANGED <<gate, lastWrite, row, grants, retired>>

\* May the next checkpoint of w leave an effect unproven?  A turn writes its
\* prompt in its first checkpoint and nowhere else.
Doubts(w) == CASE KindOf[w] = "turn"     -> IF row[w].seq = 0 THEN {TRUE}
                                            ELSE IF row[w].risky THEN BOOLEAN ELSE {FALSE}
               [] KindOf[w] = "decision" -> {TRUE}
               [] KindOf[w] = "start"    -> BOOLEAN
               [] OTHER                  -> {FALSE}

\* companion_runtime_checkpoint: a compare-and-set on the work's sequence.
Checkpoint(c, expected, doubt) ==
  /\ Authorized(c)
  /\ row[c.work].seq = expected /\ expected < MaxSeq
  /\ doubt \in Doubts(c.work)
  /\ row' = [row EXCEPT ![c.work].seq = expected + 1, ![c.work].risky = doubt]
  /\ lastWrite' = Larger(lastWrite, c.epoch)
  /\ UNCHANGED <<gate, lease, grants, retired>>

EmptyLeaseOf(c) ==
  lease' = [l \in Lanes |-> IF Matches(l, c) THEN Cleared(lease[l].epoch) ELSE lease[l]]

\* What a settlement does to the row: "good" and "bad" end it, "again" leaves
\* it due (standing work, an answer that was never written to Pi).
Outcomes(w) == CASE KindOf[w] = "standing" -> {"again"}
                 [] KindOf[w] = "decision" /\ ~row[w].risky -> {"bad", "again"}
                 [] OTHER                  -> {"good", "bad"}

Ended(w, outcome) == CASE outcome = "again"    -> {}
                       [] KindOf[w] = "turn"   -> Family(w)
                       [] outcome = "bad"      -> Family(w)
                       [] OTHER                -> {w}

\* companion_runtime_settle: the row ends and the lease is free.  A delete that
\* succeeded removes the Companion.
Settle(c, outcome) ==
  /\ Authorized(c)
  /\ outcome \in Outcomes(c.work)
  /\ row[c.work].seq <= MaxSeq
  /\ row' = [Closed(row, Ended(c.work, outcome)) EXCEPT
               ![c.work].st = IF outcome = "again" THEN "open" ELSE "done",
               ![c.work].stamp = IF KindOf[c.work] = "standing" THEN 0 ELSE @,
               ![c.work].seq = @ + 1]
  /\ lastWrite' = Larger(lastWrite, c.epoch)
  /\ EmptyLeaseOf(c)
  /\ retired' = (KindOf[c.work] = "delete" /\ outcome = "good")
  /\ UNCHANGED <<gate, grants>>

\* companion_runtime_defer_delete: the accepted provider delete is pending
\* again, to be polled by a later claim.
DeferDelete(c) ==
  /\ KindOf[c.work] = "delete" /\ Authorized(c)
  /\ row[c.work].seq > 0
  /\ row' = [row EXCEPT ![c.work].stamp = 0]
  /\ EmptyLeaseOf(c)
  /\ UNCHANGED <<gate, lastWrite, grants, retired>>

\* companion_runtime_release_lease
Release(c) ==
  /\ Valid(c)
  /\ EmptyLeaseOf(c)
  /\ UNCHANGED <<gate, lastWrite, row, grants, retired>>
-----------------------------------------------------------------------------
\* companion_runtime_enable
Enable ==
  /\ ~gate.on /\ gate.epoch < MaxGate
  /\ gate' = [on |-> TRUE, epoch |-> gate.epoch + 1]
  /\ UNCHANGED <<lease, lastWrite, row, grants, retired>>

\* Rows companion_runtime_disable interrupts: everything claimed but standing
\* work, every decision, and the turn a running start serves.
Interrupted == {w \in Works : \/ KindOf[w] = "decision"
                              \/ KindOf[w] # "standing" /\ Claimed(w)
                              \/ \E v \in Works : KindOf[v] = "start" /\ Claimed(v) /\ TurnOf[v] = w}

\* Fault: disable closes the gate and leaves the leases to expire.
LeasesLeftToExpire == lease

\* Every active lease is cleared under its next epoch.
LeasesAfterDisable == [l \in Lanes |-> IF lease[l].held THEN Cleared(lease[l].epoch + 1)
                                       ELSE lease[l]]

\* companion_runtime_disable
Disable ==
  /\ gate.on /\ gate.epoch < MaxGate
  /\ gate' = [on |-> FALSE, epoch |-> gate.epoch + 1]
  /\ lease' = LeasesAfterDisable
  /\ row' = Closed(row, Interrupted)
  /\ UNCHANGED <<lastWrite, grants, retired>>

\* companion_api_cancel_turn before the prompt can have been written.  The API
\* takes no lease: it closes the rows under the holder's feet.
CancelTurn(w) ==
  /\ KindOf[w] = "turn" /\ Live(w)
  /\ row[w].seq = 0
  /\ row' = Closed(row, Family(w) \cup {v \in Works : TurnOf[v] = w /\ ~Claimed(v)})
  /\ UNCHANGED <<gate, lease, lastWrite, grants, retired>>

\* Time passes for every lease.
Tick ==
  /\ \E l \in Lanes : lease[l].ttl > 0
  /\ lease' = [l \in Lanes |-> [lease[l] EXCEPT !.ttl = IF @ > 0 THEN @ - 1 ELSE 0]]
  /\ UNCHANGED <<gate, lastWrite, row, grants, retired>>

ExecutorCall(c) == \/ Renew(c)
                   \/ \E expected \in 0..MaxSeq, doubt \in BOOLEAN : Checkpoint(c, expected, doubt)
                   \/ \E outcome \in {"good", "bad", "again"} : Settle(c, outcome)
                   \/ DeferDelete(c) \/ Release(c)

Next == \/ \E e \in Executors, w \in Works :
              \E older \in SUBSET {v \in Works : Pending(v) /\ KindOf[w] = "lifecycle"} :
                 Claim(e, w, older)
        \/ \E w \in Works : \/ Accept(w) \/ CancelTurn(w)
                            \/ FenceUnproven(w) \/ RefuseRevoked(w) \/ ReconcileStart(w)
        \/ \E c \in grants : ExecutorCall(c)
        \/ Enable \/ Disable \/ Tick

Spec == Init /\ [][Next]_vars
-----------------------------------------------------------------------------
\* Every variable keeps its type.
TypeOK == /\ gate \in [on: BOOLEAN, epoch: Nat]
          /\ lease \in [Lanes -> Leases]
          /\ lastWrite \in Nat
          /\ row \in [Works -> Rows]
          /\ grants \in SUBSET Claims
          /\ retired \in BOOLEAN

\* An epoch names one grant: two claims on different lanes, by different
\* executors or in different generations of the gate never share one, though
\* clearing a lane reuses numbers the other lane may hold.
OneGrantPerEpoch == \A c, d \in grants : c.epoch = d.epoch => c = d

\* Once a claim has stopped to be valid, by expiry, takeover, preemption or the
\* gate, no later call makes it valid again.
NoRevival == [][\A c \in grants : ~Valid(c) => ~Valid(c)']_vars

\* A held lease belongs to the open gate of its own epoch: disable leaves no
\* lease behind and no claim outlives a gate generation.
GateOwnsLeases == \A l \in Lanes : lease[l].held => gate.on /\ lease[l].gate = gate.epoch

\* While a delete is running nobody holds the routine lane: it was emptied by
\* the claim, and nothing is granted on it until the delete ends.
DeleteOwnsRoutineLane ==
  \A w \in Works : KindOf[w] = "delete" /\ Claimed(w) => ~lease["routine"].held

\* A start, a settings apply or a lifecycle operation that mutates the shared
\* Box and a routine that executes on it exclude each other, in both orders.
BoxMutationExcludesRoutine ==
  \A w \in Works : /\ KindOf[w] \in Operations \ {"delete"}
                    /\ LaneOf[w] = "main" /\ Claimed(w)
                    => RoutineQuiet

\* The lanes keep out of each other's way: a delete fences the routine lane, and no
\* routine runs while the Box is stopped, restarted or deleted.
LanesExclude == DeleteOwnsRoutineLane /\ BoxMutationExcludesRoutine

\* Work whose effect is unproven is never granted to anybody again.
UnprovenNeverGranted ==
  [][\A w \in Works : row[w].risky /\ Live(w) => row'[w].stamp = row[w].stamp]_vars

\* A terminal row stays as it is, whatever late call arrives.
DoneStaysDone == [][\A w \in Works : row[w].st = "done" => row'[w] = row[w]]_vars

\* The lease protocol implements the abstract one: only the last acquirer of
\* a row that still owns its lane writes to it.
Nobody == -1
FencedView == INSTANCE FencedLease WITH
  top <- Larger(lastWrite, Larger(lease["main"].epoch, lease["routine"].epoch)),
  owner <- [l \in Lanes |-> IF lease[l].held /\ lease[l].ttl > 0 THEN lease[l].epoch ELSE Nobody],
  stamp <- [w \in Works |-> row[w].stamp],
  progress <- [w \in Works |-> row[w].seq]
ImplementsFencedLease == FencedView!Spec
=============================================================================
