-------------------------- MODULE CompanionRuntime --------------------------
(***************************************************************************)
(* The work of one Companion: its queue of turns, its lifecycle operations *)
(* and the questions Pi asks, as PostgreSQL keeps them, with the claimer,  *)
(* the executor that holds a lease and the users who ask for things.       *)
(*                                                                         *)
(* Every action is one transaction, or one checkpoint together with the    *)
(* external call it brackets.  RuntimeLease shows that only the holder of  *)
(* a lane's lease can checkpoint or settle; here a lease is the work it    *)
(* was granted for and losing it is one step (Lose).                       *)
(*                                                                         *)
(* A turn and its current attempt are one record: every statement that     *)
(* ends one ends the other.  dispatching is folded into starting.          *)
(***************************************************************************)
EXTENDS Integers, FiniteSets

CONSTANTS MemberTurns,   \* turns of the main conversation
          RoutineTurns,  \* turns of routines and webhooks (lane routine)
          Decisions,     \* questions Pi may ask in the main conversation
          NoTurn,        \* source_turn_id NULL
          Requests,      \* what users may ask for: see the API actions
          Mishaps,       \* what may go wrong: see the last section of Next
          MaxEvents,     \* bound: operations users ask for, closings of the gate, changes of the Box
          MaxRetries     \* bound: explicit retries of one turn

Turns == MemberTurns \cup RoutineTurns
Lanes == {"main", "routine"}
Slots == 1..(MaxEvents + Cardinality(Turns))

ASSUME TurnAssumption == /\ MemberTurns \cap RoutineTurns = {}
                         /\ NoTurn \notin Turns \cup Decisions \cup Slots
                         /\ IsFiniteSet(Turns) /\ Turns \cap Decisions = {}
ASSUME BoundAssumption == MaxEvents \in Nat /\ MaxRetries \in Nat

VARIABLES turn,       \* turn[t]: a companion_turns row and its last attempt
          op,         \* op[i]: a pending or running companion_operations row
          dec,        \* dec[d]: a companion_decision_deliveries row
          lease,      \* lease[l]: the work lane l's lease is granted for
          box,        \* what the instance row says of Box and Pi
          gate,       \* companion_runtime_control.enabled
          retirement, \* instance.retirement_state
          events      \* operations asked for and Box changes so far (a bound)

vars == <<turn, op, dec, lease, box, gate, retirement, events>>

Active == {"starting", "running", "needs_input"}
Lifecycle == {"stop", "restart_pi", "restart_box"}
Idle == [kind |-> "none", id |-> NoTurn]

\* seq: queue_sequence.  n: attempt_number.  disp: dispatch_state.  proof: a
\* terminal record is projected.  late: a deadline of the turn has passed.
\* sent counts the writes that may have reached Pi, retries the user's own.
TurnRows == [st: {"none", "queued", "interrupted", "succeeded", "failed", "cancelled"} \cup Active,
             seq: Nat, n: Nat, cancel: BOOLEAN, late: BOOLEAN,
             disp: {"pending", "write_intent", "accepted", "rejected", "ambiguous"},
             proof: {"none", "settled", "exited"}, sent: Nat, retries: Nat]
\* A settled operation leaves its slot.  cutoff: turn_queue_cutoff.  phase:
\* "creating" is the checkpoint creating_box, "ready" any one after it.
OpRows == [kind: {"none", "start", "delete"} \cup Lifecycle, by: {"user", "turn"},
           turn: Turns \cup {NoTurn}, st: {"pending", "running"}, seq: Nat, cutoff: Nat,
           phase: {"pending", "creating", "ready"}]
NoOp == [kind |-> "none", by |-> "user", turn |-> NoTurn, st |-> "pending",
         seq |-> 0, cutoff |-> 0, phase |-> "pending"]
\* overdue: pending with expires_at in the past.  dv: delivery_state.
\* cmd: a command id was written, so the answer may have reached Pi.
DecRows == [turn: Turns \cup {NoTurn}, n: Nat, cmd: BOOLEAN,
            st: {"none", "pending", "overdue", "answered", "expired", "cancelled"},
            dv: {"pending", "write_intent", "ambiguous", "delivered", "cancelled"}]

Init == /\ turn = [t \in Turns |-> [st |-> "none", seq |-> 0, n |-> 0, cancel |-> FALSE,
                                    late |-> FALSE, disp |-> "pending", proof |-> "none",
                                    sent |-> 0, retries |-> 0]]
        /\ op = [i \in Slots |-> NoOp]
        /\ dec = [d \in Decisions |-> [turn |-> NoTurn, n |-> 0, cmd |-> FALSE,
                                       st |-> "none", dv |-> "pending"]]
        /\ lease = [l \in Lanes |-> Idle]
        /\ box \in {"fresh", "archived"}
        /\ gate = TRUE
        /\ retirement = "active"
        /\ events = 0
-----------------------------------------------------------------------------
(* The queue and the operations. *)

LaneOf(t) == IF t \in RoutineTurns THEN "routine" ELSE "main"
TurnsOf(l) == IF l = "main" THEN MemberTurns ELSE RoutineTurns
MaxOf(S) == IF S = {} THEN 0 ELSE CHOOSE x \in S : \A y \in S : x >= y
LastTurn == MaxOf({turn[t].seq : t \in Turns})

\* A retry of a routine's turn only ends its private process: its own lane.
OpLane(o) == IF o.kind = "restart_pi" /\ o.by = "user" /\ o.turn \in RoutineTurns
               THEN "routine" ELSE "main"
Live(O) == {i \in Slots : O[i].kind # "none"}
Retries(o) == o.kind \in {"start", "restart_pi"} /\ o.by = "user" /\ o.turn # NoTurn
Rank(o) == CASE o.kind = "delete" -> 10
             [] o.kind \in Lifecycle -> 20
             [] OTHER -> 45

File(O, k, b, t) ==
  LET i == CHOOSE i \in Slots : O[i].kind = "none"
  IN  [O EXCEPT ![i] = [kind |-> k, by |-> b, turn |-> t, st |-> "pending",
                        seq |-> 1 + MaxOf({O[j].seq : j \in Live(O)}),
                        cutoff |-> LastTurn, phase |-> "pending"]]
Without(O, S) == [i \in Slots |-> IF i \in S THEN NoOp ELSE O[i]]

ActiveIn(l) == {t \in TurnsOf(l) : turn[t].st \in Active}
QueuedIn(l) == {t \in TurnsOf(l) : turn[t].st = "queued"}
Heads(l) == IF ActiveIn(l) # {} THEN {}
            ELSE {t \in QueuedIn(l) : \A u \in QueuedIn(l) : turn[t].seq <= turn[u].seq}
Quiescent == ActiveIn("routine") = {}

\* The trigger that drops the Start of a turn while another holds the Box.
Busy(t) == \E u \in Turns \ {t} : turn[u].st \in Active \cup {"interrupted"}
HasStart(O, t) == \E i \in Live(O) : O[i].kind = "start" /\ O[i].turn = t
FileStart(O, t) == IF Busy(t) \/ HasStart(O, t) THEN O ELSE File(O, "start", "turn", t)

\* Ending turns T with their attempts, and closing the decisions of T.
End(S, T, how) == [t \in Turns |-> IF t \in T THEN [S[t] EXCEPT !.st = how] ELSE S[t]]
Undelivered(d) == dec[d].st # "none" /\ dec[d].dv \notin {"delivered", "cancelled"}
AskedBy(t) == {d \in Decisions : Undelivered(d) /\ dec[d].turn = t /\ dec[d].n = turn[t].n}
Close(D) == [d \in Decisions |->
               IF d \notin D THEN dec[d]
               ELSE [dec[d] EXCEPT !.st = IF @ \in {"pending", "overdue"} THEN "cancelled" ELSE @,
                                   !.dv = IF dec[d].cmd THEN "ambiguous" ELSE "cancelled"]]
CloseAll(T) == Close(UNION {AskedBy(t) : t \in T})
-----------------------------------------------------------------------------
(* The API: what members, owners and the routine worker ask for. *)

Counted == events < MaxEvents /\ events' = events + 1
MayFile == retirement = "active" /\ Counted

Enqueue(t) ==
  /\ retirement = "active" /\ turn[t].st = "none"
  /\ turn' = [turn EXCEPT ![t].st = "queued", ![t].seq = 1 + LastTurn]
  /\ op' = IF box = "fresh" THEN op ELSE FileStart(op, t)
  \* A newer message of a member takes back what Pi still waits to hear.
  /\ dec' = [d \in Decisions |->
               IF t \in MemberTurns /\ dec[d].st \in {"pending", "overdue"}
                 THEN [dec[d] EXCEPT !.st = "cancelled"] ELSE dec[d]]
  /\ UNCHANGED <<lease, box, gate, retirement, events>>

Answer(d) ==
  /\ dec[d].st \in {"pending", "overdue"} /\ turn[dec[d].turn].st = "needs_input"
  /\ dec' = [dec EXCEPT ![d].st = "answered"]
  /\ UNCHANGED <<turn, op, lease, box, gate, retirement, events>>

TakesBack(o, t) == o.turn = t /\ o.st = "pending" /\ o.kind \in {"start", "restart_pi"}

AtPi(t) == turn[t].st \in Active /\ turn[t].disp \in {"write_intent", "accepted", "ambiguous"}

\* Fault: a turn may be cancelled while its retry runs.
FaultBeingRetried(t) == FALSE
BeingRetried(t) == \E i \in Live(op) : op[i].turn = t /\ op[i].st = "running" /\ Retries(op[i])

Cancel(t) ==
  /\ "cancel" \in Requests /\ retirement # "retired"
  /\ turn[t].st \in Active \cup {"queued", "interrupted"}
  /\ ~BeingRetried(t)
  /\ op' = Without(op, {i \in Live(op) : TakesBack(op[i], t)})
  /\ IF AtPi(t)
       THEN turn' = [turn EXCEPT ![t].cancel = TRUE] /\ UNCHANGED dec
       ELSE turn' = End(turn, {t}, "cancelled")
            /\ dec' = Close({d \in Decisions : Undelivered(d) /\ dec[d].turn = t})
  /\ UNCHANGED <<lease, box, gate, retirement, events>>

Retry(t) ==
  /\ "retry" \in Requests /\ MayFile
  /\ turn[t].st = "interrupted" /\ turn[t].retries < MaxRetries
  /\ ~\E i \in Live(op) : op[i].turn = t /\ Retries(op[i])
  \* One live Start per source turn (a unique index): otherwise an error.
  /\ box = "archived" => ~HasStart(op, t)
  /\ op' = File(op, IF box = "archived" THEN "start" ELSE "restart_pi", "user", t)
  /\ turn' = [turn EXCEPT ![t].retries = @ + 1]
  /\ UNCHANGED <<dec, lease, box, gate, retirement>>

Request(k) ==
  /\ k \in Requests /\ MayFile
  /\ op' = File(op, k, "user", NoTurn)
  /\ retirement' = IF k = "delete" THEN "requested" ELSE retirement
  /\ UNCHANGED <<turn, dec, lease, box, gate>>

\* A routine is disabled or deleted, or its turn queued for ten minutes.
DropRoutineTurn(t) ==
  /\ "drop" \in Requests /\ t \in RoutineTurns /\ turn[t].st = "queued"
  /\ op' = Without(op, {i \in Live(op) : /\ op[i].turn = t /\ op[i].st = "pending"
                                         /\ op[i].kind = "start" /\ op[i].by = "turn"})
  /\ turn' = End(turn, {t}, "cancelled")
  /\ UNCHANGED <<dec, lease, box, gate, retirement, events>>
-----------------------------------------------------------------------------
(* companion_runtime_claim_work.  Every call first drops the running Starts *)
(* whose turn is settled and files a Start for a queued turn whose Box is   *)
(* not fresh; then it takes the due work of a free lane.                    *)

\* Fault: a running Start whose turn is settled is never dropped.
FaultReconciled(O) == O
Reconciled(O) == Without(O, {i \in Live(O) : /\ O[i].st = "running" /\ O[i].by = "turn"
                                            /\ turn[O[i].turn].st # "queued"})
Cold(O) == IF box = "fresh" THEN {}
           ELSE {t \in UNION {Heads(l) : l \in Lanes} : ~HasStart(O, t)}
Prepared(O) == IF Cold(O) = {} THEN O
               ELSE FileStart(O, CHOOSE t \in Cold(O) : \A u \in Cold(O) : turn[t].seq <= turn[u].seq)
Base == IF lease["main"] = Idle THEN Prepared(Reconciled(op)) ELSE op

\* Running before pending, then in order.
Place(o) == IF o.st = "running" THEN o.seq ELSE Cardinality(Slots) + o.seq + 1
OpWork(O, i) == [rank |-> Rank(O[i]), place |-> Place(O[i]), kind |-> "op", id |-> i]
DecisionDue(d) == /\ dec[d].turn # NoTurn /\ dec[d].dv \in {"pending", "write_intent", "ambiguous"}
                  /\ dec[d].st \notin {"none", "pending"}
                  /\ turn[dec[d].turn].st \in Active /\ dec[d].n = turn[dec[d].turn].n

StartDue(o) == o.by = "user" \/ turn[o.turn].st = "queued"

\* Fault: lifecycle work does not wait for the routine that uses the Box.
FaultMayUseBox(l) == TRUE
MayUseBox(l) == l = "main" => Quiescent

OpDue(l, o) ==
  /\ OpLane(o) = l
  /\ \/ o.kind = "delete"
     \/ o.kind \in Lifecycle /\ MayUseBox(l)
     \/ o.kind = "start" /\ MayUseBox(l) /\ StartDue(o)

\* Fault: a routine turn waits for pending operations only.
FaultRoutineMayStart(O) == \A i \in Live(O) : O[i].st = "pending" => OpLane(O[i]) = "routine"
RoutineMayStart(O) == \A i \in Live(O) : OpLane(O[i]) = "routine"

Due(l, O) ==
  {OpWork(O, i) : i \in {i \in Live(O) : OpDue(l, O[i])}}
  \cup {[rank |-> 30, place |-> 0, kind |-> "decision", id |-> d] :
          d \in {d \in Decisions : DecisionDue(d) /\ LaneOf(dec[d].turn) = l}}
  \cup {[rank |-> 40, place |-> 0, kind |-> "attempt", id |-> t] : t \in ActiveIn(l)}
  \cup {[rank |-> 60, place |-> 0, kind |-> "queued", id |-> t] :
          t \in {t \in Heads(l) : l = "routine" => RoutineMayStart(O)}}

First(l, O) == {w \in Due(l, O) : \A v \in Due(l, O) :
                  w.rank < v.rank \/ (w.rank = v.rank /\ w.place <= v.place)}

\* The work a call finds for lane l.
Found(l, kind) == IF gate /\ retirement # "retired" /\ lease[l] = Idle
                    THEN {w \in First(l, Base) : w.kind = kind} ELSE {}

Grant(l, kind, x) == lease' = [lease EXCEPT ![l] = [kind |-> kind, id |-> x]]

\* Work whose last write has an unknown outcome is fenced, never resumed: the
\* row is interrupted and the lane's lease stays free.

Unproven(disp) == disp \in {"write_intent", "ambiguous"}

\* Fault: a failing Start settles a turn that is settled already.
FaultTakenAlong(o) == IF o.kind = "start" THEN {o.turn} \cap Turns ELSE {}
\* A Start that fails takes its turn with it.
TakenAlong(o) == IF o.kind = "start"
                   THEN {t \in {o.turn} \cap Turns : turn[t].st \in Active \cup {"queued"}} ELSE {}

FenceStart ==
  \E w \in Found("main", "op") :
    /\ Base[w.id].kind = "start" /\ Base[w.id].phase = "creating"
    /\ op' = Without(Base, {w.id})
    /\ turn' = End(turn, TakenAlong(Base[w.id]), "interrupted")
    /\ UNCHANGED <<dec, lease, box, gate, retirement, events>>

FenceAttempt(l) ==
  \E w \in Found(l, "attempt") :
    /\ Unproven(turn[w.id].disp)
    /\ dec' = CloseAll({w.id})
    /\ turn' = [End(turn, {w.id}, "interrupted") EXCEPT ![w.id].disp = "ambiguous"]
    /\ op' = Base
    /\ UNCHANGED <<lease, box, gate, retirement, events>>

FenceDecision(l) ==
  \E w \in Found(l, "decision") :
    /\ Unproven(dec[w.id].dv)
    /\ dec' = CloseAll({dec[w.id].turn})
    /\ turn' = End(turn, {dec[w.id].turn}, "interrupted")
    /\ op' = Base
    /\ UNCHANGED <<lease, box, gate, retirement, events>>

\* Fault: a delete leaves what is pending.
FaultSuperseded(i, O) ==
  {j \in Live(O) \ {i} :
     \/ O[j].st = "running" /\ Rank(O[j]) > Rank(O[i])
     \/ /\ O[i].kind \in Lifecycle
        /\ O[j].kind = "start" /\ O[j].st = "pending" /\ O[j].seq < O[i].seq}

\* The operations that a main-lane operation ends when it is claimed.
Superseded(i, O) ==
  {j \in Live(O) \ {i} :
     \/ O[j].st = "running" /\ Rank(O[j]) > Rank(O[i])
     \/ /\ O[i].kind \in Lifecycle
        /\ O[j].kind = "start" /\ O[j].st = "pending" /\ O[j].seq < O[i].seq
     \/ O[i].kind = "delete" /\ O[j].st = "pending"}

\* The turns it interrupts: whatever runs, and the queue it was filed behind.
Preempted(o) == {t \in Turns : \/ turn[t].st \in Active
                               \/ o.kind \in Lifecycle /\ turn[t].st = "queued" /\ turn[t].seq <= o.cutoff}
\* Fault: a stop hands back what it interrupts, as a retry does.
FaultHandedBack(o) == IF (Retries(o) \/ o.kind = "stop") /\ o.st = "pending"
                        THEN {t \in Preempted(o) \ {o.turn} : turn[t].seq <= o.cutoff} ELSE {}
\* The first claim of a retry puts the others it interrupted back in the queue.
HandedBack(o) == IF Retries(o) /\ o.st = "pending"
                   THEN {t \in Preempted(o) \ {o.turn} : turn[t].seq <= o.cutoff} ELSE {}
Restarts(l, o) == l = "main" /\ o.kind \in Lifecycle \cup {"delete"}
AfterPreemption(o) ==
  LET S == End(End(turn, Preempted(o), "interrupted"), HandedBack(o), "queued")
  IN  IF o.kind = "delete" THEN End(S, {t \in Turns : turn[t].st = "queued"}, "cancelled") ELSE S

OneRunning(i, O) == \A j \in Live(O) \ {i} : O[j].st # "running"

ClaimOperation(l) ==
  \E w \in Found(l, "op") :
    LET o == Base[w.id]
        kept == IF l = "main" THEN Without(Base, Superseded(w.id, Base)) ELSE Base
    IN  /\ ~(o.kind = "start" /\ o.phase = "creating")
        \* companion_operations_one_running_uq: otherwise the whole call fails.
        /\ OneRunning(w.id, kept)
        /\ op' = [kept EXCEPT ![w.id].st = "running"]
        /\ turn' = IF Restarts(l, o) THEN AfterPreemption(o) ELSE turn
        /\ dec' = IF Restarts(l, o) THEN CloseAll({t \in Turns : turn[t].st \in Active}) ELSE dec
        /\ lease' = [lease EXCEPT ![l] = [kind |-> "op", id |-> w.id],
                                  !["routine"] = IF l = "routine" THEN [kind |-> "op", id |-> w.id]
                                                 ELSE IF o.kind = "delete" THEN Idle ELSE @]
        /\ UNCHANGED <<box, gate, retirement, events>>

ClaimDecision(l) ==
  \E w \in Found(l, "decision") :
    /\ ~Unproven(dec[w.id].dv)
    /\ dec' = [dec EXCEPT ![w.id].st = IF @ = "overdue" THEN "expired" ELSE @]
    /\ Grant(l, "decision", w.id)
    /\ op' = Base
    /\ UNCHANGED <<turn, box, gate, retirement, events>>

ResumeAttempt(l) ==
  \E w \in Found(l, "attempt") :
    /\ ~Unproven(turn[w.id].disp)
    /\ Grant(l, "attempt", w.id)
    /\ op' = Base
    /\ UNCHANGED <<turn, dec, box, gate, retirement, events>>

ClaimQueuedTurn(l) ==
  \E w \in Found(l, "queued") :
    /\ turn' = [turn EXCEPT ![w.id].st = "starting", ![w.id].n = @ + 1, ![w.id].late = FALSE,
                            ![w.id].disp = "pending", ![w.id].proof = "none"]
    /\ Grant(l, "attempt", w.id)
    /\ op' = Base
    /\ UNCHANGED <<dec, box, gate, retirement, events>>

\* A call that finds nothing to claim still drops and files Starts.
SweepOnly ==
  /\ gate /\ retirement # "retired" /\ Base # op
  /\ \A l \in Lanes : lease[l] = Idle => Due(l, Base) = {}
  /\ op' = Base
  /\ UNCHANGED <<turn, dec, lease, box, gate, retirement, events>>
-----------------------------------------------------------------------------
(* The executor that holds a lane's lease. *)

Holding(l, kind, x) == lease[l] = [kind |-> kind, id |-> x]
Executing(t) == turn[t].st \in Active /\ Holding(LaneOf(t), "attempt", t)
Delivering(d) == DecisionDue(d) /\ Holding(LaneOf(dec[d].turn), "decision", d)
Operating(i) == op[i].st = "running" /\ Holding(OpLane(op[i]), "op", i)
FreeLane(l) == lease' = [lease EXCEPT ![l] = Idle]

\* dispatch_write_intent is committed, then the prompt goes to Pi.
Dispatch(t) ==
  /\ Executing(t) /\ turn[t].st = "starting" /\ turn[t].disp = "pending"
  /\ ~turn[t].cancel /\ ~turn[t].late /\ box # "archived"
  /\ turn' = [turn EXCEPT ![t].disp = "write_intent", ![t].sent = @ + 1]
  /\ UNCHANGED <<op, dec, lease, box, gate, retirement, events>>

PromptOutcome(t) ==
  /\ Executing(t) /\ turn[t].disp = "write_intent"
  /\ \/ /\ ~turn[t].late
        /\ turn' = [turn EXCEPT ![t].disp = "accepted", ![t].st = "running"]
     \/ /\ "failure" \in Mishaps
        /\ \E how \in {"rejected", "ambiguous"} : turn' = [turn EXCEPT ![t].disp = how]
  /\ UNCHANGED <<op, dec, lease, box, gate, retirement, events>>

\* A batch of Pi's events is projected: questions, then perhaps an end.  A
\* question a newer member message already overtook is born cancelled.
Overtaken(t) == \E u \in MemberTurns : turn[u].seq > turn[t].seq /\ turn[u].st # "cancelled"
Asked(t) == [turn |-> t, n |-> turn[t].n, cmd |-> FALSE, dv |-> "pending",
             st |-> IF Overtaken(t) THEN "cancelled" ELSE "pending"]

AfterBatch(D, p) == IF D # {} /\ p = "none" THEN "needs_input" ELSE "running"

Project(t, D, p) ==
  /\ Executing(t) /\ turn[t].st = "running" /\ turn[t].proof = "none" /\ ~turn[t].late
  /\ D # {} \/ p # "none"
  /\ D # {} => t \in MemberTurns /\ \A d \in D : dec[d].st = "none"
  /\ p = "exited" => "failure" \in Mishaps
  /\ dec' = [d \in Decisions |-> IF d \in D THEN Asked(t) ELSE dec[d]]
  /\ turn' = [turn EXCEPT ![t].st = AfterBatch(D, p), ![t].proof = p]
  /\ UNCHANGED <<op, lease, box, gate, retirement, events>>

\* companion_runtime_settle's conditions and the engine's choice of outcome.
MaySettle(t, how) ==
  CASE how = "succeeded" -> turn[t].disp = "accepted" /\ turn[t].proof = "settled" /\ ~turn[t].late
    [] how = "failed" -> \/ turn[t].proof = "exited" \/ turn[t].disp = "rejected"
                         \/ turn[t].disp = "pending" /\ box = "archived"
                         \/ turn[t].disp \in {"pending", "accepted"} /\ "failure" \in Mishaps
    [] how = "interrupted" -> \/ turn[t].disp = "ambiguous" \/ turn[t].late
                              \/ turn[t].disp = "accepted" /\ "failure" \in Mishaps
    [] how = "cancelled" -> turn[t].cancel /\ turn[t].disp # "rejected"

SettleAttempt(t, how) ==
  /\ Executing(t) /\ MaySettle(t, how)
  /\ dec' = CloseAll({t})
  /\ turn' = End(turn, {t}, how)
  /\ FreeLane(LaneOf(t))
  /\ UNCHANGED <<op, box, gate, retirement, events>>

\* The answer of a question: write_intent is committed, then it goes to Pi.
Deliver(d) ==
  /\ Delivering(d) /\ dec[d].dv = "pending"
  /\ ~turn[dec[d].turn].cancel /\ ~turn[dec[d].turn].late
  /\ dec' = [dec EXCEPT ![d].dv = "write_intent", ![d].cmd = TRUE]
  /\ UNCHANGED <<turn, op, lease, box, gate, retirement, events>>

DeliveryAmbiguous(d) ==
  /\ Delivering(d) /\ dec[d].dv = "write_intent" /\ "failure" \in Mishaps
  /\ dec' = [dec EXCEPT ![d].dv = "ambiguous"]
  /\ UNCHANGED <<turn, op, lease, box, gate, retirement, events>>

\* Fault: the answer just delivered still counts as one Pi waits for.
FaultLastQuestion(d) == AskedBy(dec[d].turn) = {}
LastQuestion(d) == AskedBy(dec[d].turn) \subseteq {d}

\* A delivered answer resumes its turn, unless Pi waits for another one.
SettleDelivery(d) ==
  /\ Delivering(d) /\ dec[d].dv = "write_intent" /\ ~turn[dec[d].turn].late
  /\ LastQuestion(d) => turn[dec[d].turn].st = "needs_input"
  /\ dec' = [dec EXCEPT ![d].dv = "delivered"]
  /\ turn' = IF LastQuestion(d) THEN [turn EXCEPT ![dec[d].turn].st = "running"] ELSE turn
  /\ FreeLane(LaneOf(dec[d].turn))
  /\ UNCHANGED <<op, box, gate, retirement, events>>

\* Fault: a command id alone does not stop an answer from being tried again.
FaultMayHaveReachedPi(d) == dec[d].dv = "ambiguous"
MayHaveReachedPi(d) == dec[d].cmd

\* A failure before the write leaves the answer to be tried again.
RetryDelivery(d) ==
  /\ Delivering(d) /\ ~MayHaveReachedPi(d) /\ "failure" \in Mishaps
  /\ ~turn[dec[d].turn].cancel /\ ~turn[dec[d].turn].late
  /\ dec' = [dec EXCEPT ![d].dv = "pending"]
  /\ FreeLane(LaneOf(dec[d].turn))
  /\ UNCHANGED <<turn, op, box, gate, retirement, events>>

\* The delivery ends without success and takes its turn with it.
EndDelivery(d, how) ==
  /\ Delivering(d)
  /\ \/ how = "cancelled" /\ turn[dec[d].turn].cancel
     \/ /\ how = "interrupted"
        /\ \/ dec[d].dv = "ambiguous" \/ turn[dec[d].turn].late
           \/ dec[d].dv = "write_intent" /\ "failure" \in Mishaps
  /\ dec' = [CloseAll({dec[d].turn}) EXCEPT ![d].dv = IF how = "interrupted" /\ dec[d].cmd
                                                        THEN "ambiguous" ELSE "cancelled"]
  /\ turn' = End(turn, {dec[d].turn}, how)
  /\ FreeLane(LaneOf(dec[d].turn))
  /\ UNCHANGED <<op, box, gate, retirement, events>>
-----------------------------------------------------------------------------
(* Operations: a Start in steps, the others in one. *)

SourceLate(o) == o.kind = "start" /\ o.turn # NoTurn /\ turn[o.turn].late

\* renew_and_authorize refuses a Start whose source turn is not queued.
Allowed(o) == (o.kind = "start" /\ o.turn # NoTurn) => turn[o.turn].st = "queued"

Boot(i) ==
  /\ Operating(i) /\ op[i].kind = "start" /\ Allowed(op[i]) /\ ~SourceLate(op[i])
  /\ \/ op[i].phase = "pending" /\ box = "archived"
        /\ op' = [op EXCEPT ![i].phase = "creating"] /\ UNCHANGED box
     \/ op[i].phase = "creating"
        /\ op' = [op EXCEPT ![i].phase = "ready"] /\ box' = "stale"
     \/ op[i].phase = "pending" /\ box # "archived"
        /\ op' = [op EXCEPT ![i].phase = "ready"] /\ UNCHANGED box
  /\ UNCHANGED <<turn, dec, lease, gate, retirement, events>>

Proved(o) == /\ o.kind = "start" => o.phase = "ready" /\ ~SourceLate(o)
             /\ o.kind = "restart_pi" => box # "archived"
             /\ Retries(o) => turn[o.turn].st = "interrupted"

OperationDone(i) ==
  /\ Operating(i) /\ Proved(op[i])
  /\ LET o == op[i]
     IN  /\ op' = IF o.kind = "delete" THEN [j \in Slots |-> NoOp] ELSE Without(op, {i})
         /\ box' = IF o.kind \in {"stop", "delete"} THEN "archived"
                   ELSE IF OpLane(o) = "routine" THEN box ELSE "fresh"
         /\ turn' = IF Retries(o) THEN [turn EXCEPT ![o.turn].st = "queued", ![o.turn].late = FALSE]
                    ELSE turn
         /\ retirement' = IF o.kind = "delete" THEN "retired" ELSE retirement
         /\ FreeLane(OpLane(o))
  /\ UNCHANGED <<dec, gate, events>>

OperationFailed(i, how) ==
  /\ Operating(i)
  /\ \/ "failure" \in Mishaps
     \/ how = "interrupted" /\ SourceLate(op[i])
     \/ how = "failed" /\ op[i].kind = "restart_pi" /\ ~Proved(op[i])
  /\ op' = Without(op, {i})
  /\ turn' = End(turn, TakenAlong(op[i]), how)
  /\ FreeLane(OpLane(op[i]))
  /\ UNCHANGED <<dec, box, gate, retirement, events>>
-----------------------------------------------------------------------------
(* Losing a lease, the gate, and the world outside. *)

\* renew_and_authorize: higher-priority work is pending.
RankOf(l) == CASE lease[l].kind = "op" -> Rank(op[lease[l].id])
               [] lease[l].kind = "decision" -> 30
               [] OTHER -> 40
Outranked(l) ==
  \/ \E i \in Live(op) : OpLane(op[i]) = l /\ Rank(op[i]) < RankOf(l)
  \/ RankOf(l) > 30 /\ \E d \in Decisions : DecisionDue(d) /\ LaneOf(dec[d].turn) = l
  \/ RankOf(l) > 40 /\ \E t \in Turns : turn[t].st \in Active

\* A cancellation and a passed deadline outweigh every other denial.
Overruled(l) ==
  CASE lease[l].kind = "attempt" -> turn[lease[l].id].cancel \/ turn[lease[l].id].late
    [] lease[l].kind = "decision" -> LET t == dec[lease[l].id].turn IN turn[t].cancel \/ turn[t].late
    [] OTHER -> SourceLate(op[lease[l].id])

\* The executor gives the lease back and some replica claims again.
Release(l) ==
  /\ lease[l] # Idle /\ ~Overruled(l)
  /\ \/ Outranked(l)
     \/ lease[l].kind = "attempt" /\ turn[lease[l].id].st = "needs_input"
     \/ lease[l].kind = "op" /\ ~Allowed(op[lease[l].id])
  /\ FreeLane(l)
  /\ UNCHANGED <<turn, op, dec, box, gate, retirement, events>>

\* A settlement is refused, or the leased work was ended by someone else.
Refused(d) == dec[d].dv = "write_intent" /\ LastQuestion(d) /\ turn[dec[d].turn].st # "needs_input"
Orphaned(l) ==
  \/ lease[l].kind = "attempt" /\ turn[lease[l].id].st \notin Active
  \/ lease[l].kind = "decision" /\ (Refused(lease[l].id) \/ ~DecisionDue(lease[l].id))

\* An executor dies, or can do nothing more: its lease runs out.
Lose(l) ==
  /\ lease[l] # Idle /\ ("lost" \in Mishaps \/ Orphaned(l))
  /\ FreeLane(l)
  /\ UNCHANGED <<turn, op, dec, box, gate, retirement, events>>

\* Fault: closing the gate leaves the open questions.
FaultLeftOpen == {}
LeftOpen == {d \in Decisions : Undelivered(d)}

Disable ==
  /\ "gate" \in Requests /\ gate /\ Counted
  /\ gate' = FALSE
  /\ lease' = [l \in Lanes |-> Idle]
  /\ turn' = End(turn, {t \in Turns : \/ turn[t].st \in Active
                                      \/ /\ turn[t].st = "queued"
                                         /\ \E i \in Live(op) : /\ op[i].kind = "start" /\ op[i].turn = t
                                                                /\ op[i].st = "running"}, "interrupted")
  /\ op' = Without(op, {i \in Live(op) : op[i].st = "running"})
  /\ dec' = Close(LeftOpen)
  /\ UNCHANGED <<box, retirement>>

Enable == /\ ~gate /\ gate' = TRUE
          /\ UNCHANGED <<turn, op, dec, lease, box, retirement, events>>

\* The snapshot of the Box goes stale; an idle Box is archived.
BoxAges == /\ "stale" \in Mishaps /\ box = "fresh" /\ box' = "stale" /\ Counted
           /\ UNCHANGED <<turn, op, dec, lease, gate, retirement>>
BoxArchived == /\ "archive" \in Mishaps /\ box # "archived" /\ box' = "archived" /\ Counted
               /\ \A t \in Turns : turn[t].st \notin Active
               /\ \A i \in Live(op) : op[i].st # "running"
               /\ UNCHANGED <<turn, op, dec, lease, gate, retirement>>

\* expires_at of a question passes; a deadline of a turn passes.
Expire(d) == /\ dec[d].st = "pending" /\ dec' = [dec EXCEPT ![d].st = "overdue"]
             /\ UNCHANGED <<turn, op, lease, box, gate, retirement, events>>
Late(t) == /\ "late" \in Mishaps /\ ~turn[t].late
           /\ \/ turn[t].st \in Active
              \/ \E i \in Live(op) : op[i].kind = "start" /\ op[i].st = "running" /\ op[i].turn = t
           /\ turn' = [turn EXCEPT ![t].late = TRUE]
           /\ UNCHANGED <<op, dec, lease, box, gate, retirement, events>>
-----------------------------------------------------------------------------
Api == \/ \E t \in Turns : Enqueue(t) \/ Cancel(t) \/ Retry(t) \/ DropRoutineTurn(t)
       \/ \E d \in Decisions : Answer(d)
       \/ \E k \in Requests \cap (Lifecycle \cup {"delete"}) : Request(k)
ClaimLane(l) == \/ FenceAttempt(l) \/ FenceDecision(l) \/ ClaimOperation(l)
                \/ ClaimDecision(l) \/ ResumeAttempt(l) \/ ClaimQueuedTurn(l)
Claim == FenceStart \/ SweepOnly \/ \E l \in Lanes : ClaimLane(l)
Outcomes == {"succeeded", "failed", "interrupted", "cancelled"}
ExecuteTurn(t) == \/ Dispatch(t) \/ PromptOutcome(t)
                  \/ \E how \in Outcomes : SettleAttempt(t, how)
PiReports(t) == \E D \in SUBSET Decisions, p \in {"none", "settled", "exited"} : Project(t, D, p)
ExecuteDecision(d) == \/ Deliver(d) \/ DeliveryAmbiguous(d) \/ SettleDelivery(d) \/ RetryDelivery(d)
                      \/ \E how \in {"interrupted", "cancelled"} : EndDelivery(d, how)
ExecuteOperation(i) == \/ Boot(i) \/ OperationDone(i)
                       \/ \E how \in {"failed", "interrupted"} : OperationFailed(i, how)
Execute == \/ \E t \in Turns : ExecuteTurn(t) \/ PiReports(t)
           \/ \E d \in Decisions : ExecuteDecision(d)
           \/ \E i \in Slots : ExecuteOperation(i)
Environment == \/ \E l \in Lanes : Release(l) \/ Lose(l)
               \/ Disable \/ Enable \/ BoxAges \/ BoxArchived
               \/ \E d \in Decisions : Expire(d)
               \/ \E t \in Turns : Late(t)

Next == Api \/ Claim \/ Execute \/ Environment
Spec == Init /\ [][Next]_vars

\* Replicas sweep for as long as they run, a lease holder takes its next step or
\* loses the lease, and clocks pass every deadline.  Users and Pi owe nothing.
Fairness == /\ WF_vars(FenceStart) /\ WF_vars(SweepOnly)
            /\ \A l \in Lanes : /\ WF_vars(ClaimLane(l)) /\ WF_vars(Release(l))
                               /\ WF_vars(Orphaned(l) /\ Lose(l))
            /\ \A t \in Turns : WF_vars(ExecuteTurn(t)) /\ WF_vars(Late(t))
            /\ \A d \in Decisions : WF_vars(ExecuteDecision(d)) /\ WF_vars(Expire(d))
            /\ \A i \in Slots : WF_vars(ExecuteOperation(i))
FairSpec == Spec /\ Fairness
-----------------------------------------------------------------------------
(* Properties. *)

\* TypeOK: every row has the shape of its table.
TypeOK == /\ turn \in [Turns -> TurnRows] /\ op \in [Slots -> OpRows] /\ dec \in [Decisions -> DecRows]
          /\ lease \in [Lanes -> [kind : {"none", "op", "decision", "attempt"},
                                   id : Turns \cup Slots \cup Decisions \cup {NoTurn}]]
          /\ \A l \in Lanes : lease[l].kind = "none" <=> lease[l].id = NoTurn
          /\ box \in {"fresh", "stale", "archived"} /\ gate \in BOOLEAN
          /\ retirement \in {"active", "requested", "retired"} /\ events \in 0..MaxEvents

\* A prompt is written to Pi once, and once more for each retry the user asked
\* for: takeover, preemption and the hand-off of the queue never write it again.
PromptNeedsPermission == \A t \in Turns : turn[t].sent <= 1 + turn[t].retries

\* A question still owed to Pi belongs to the attempt that asked it, which runs.
DecisionsFollowAttempt == \A d \in Decisions :
  dec[d].st # "none" /\ dec[d].dv \in {"pending", "write_intent"} =>
    turn[dec[d].turn].st \in Active /\ turn[dec[d].turn].n = dec[d].n

\* A turn that waits for its user has a question the user, or time, can settle.
WaitingHasQuestion == \A t \in Turns : turn[t].st = "needs_input" => AskedBy(t) # {}

\* While an operation that replaces the Box or its Pi is carried out no routine
\* turn runs in that Box.
BoxWorkExcludesRoutine == \A i \in Slots :
  op[i].st = "running" /\ OpLane(op[i]) = "main" /\ op[i].kind # "delete" => Quiescent

\* Claiming an operation on the Box never ends a routine turn that runs in it:
\* only a delete does.
BoxWorkSparesRoutine == [][\A t \in RoutineTurns, i \in Slots :
  (/\ turn[t].st \in Active /\ op[i].kind # "delete"
   /\ lease["main"] = Idle /\ lease'["main"] = [kind |-> "op", id |-> i]) =>
     turn'[t].st \in Active]_vars

\* A delete that runs is alone: no turn runs or waits, nothing else is to do.
DeleteRunsAlone == \A i \in Slots :
  op[i].kind = "delete" /\ op[i].st = "running" =>
    /\ \A t \in Turns : turn[t].st \notin Active \cup {"queued"}
    /\ Live(op) = {i} /\ lease["routine"] = Idle

\* A retry under way still has an interrupted turn to put back in the queue.
RunningRetryHasInterruptedSource == \A i \in Live(op) :
  op[i].st = "running" /\ Retries(op[i]) => turn[op[i].turn].st = "interrupted"

\* A turn left waiting has its question, and a retry under way its interrupted source.
TurnsHaveTheirReason == WaitingHasQuestion /\ RunningRetryHasInterruptedSource

\* Work on the Box keeps out of the way of a routine turn, and a delete of everything.
LanesExclude == BoxWorkExcludesRoutine /\ DeleteRunsAlone

\* An answer that Pi may have seen is never written to it again, and the fate of
\* a question, once delivered or cancelled, stands.
NoAnswerReplayed == [][\A d \in Decisions :
  /\ dec[d].cmd => dec'[d].dv # "pending"
  /\ dec[d].dv \in {"delivered", "cancelled"} => dec'[d].dv = dec[d].dv]_vars

\* A settled turn moves again only through a retry the user asked for.
SettledStaysSettled == [][\A t \in Turns :
  /\ turn[t].st \in {"succeeded", "failed", "cancelled"} => turn'[t].st = turn[t].st
  /\ turn[t].st = "interrupted" /\ turn'[t].st = "queued" =>
       \E i \in Live(op) : Retries(op[i]) /\ op[i].turn = t]_vars

\* What ended stays so: no answer that Pi may have is written again, no settled turn changes.
EndingsStay == NoAnswerReplayed /\ SettledStaysSettled

\* No queued turn waits forever and no turn runs forever, whatever Pi and the
\* users do.
EveryTurnSettles == \A t \in Turns :
  turn[t].st \in Active \cup {"queued"} ~> turn[t].st \notin Active \cup {"queued"}
-----------------------------------------------------------------------------
(* What a document or a comment says and the code does not keep: README,     *)
(* section 4.                                                               *)

\* A Start filed for a turn never outlives its place in the queue.
PendingStartHasQueuedSource == \A i \in Live(op) :
  op[i].st = "pending" /\ op[i].by = "turn" => turn[op[i].turn].st = "queued"

\* The claim of due work is never refused by the one-running index.
DueWorkClaimable == \A l \in Lanes : \A w \in Found(l, "op") :
  OneRunning(w.id, IF l = "main" THEN Without(Base, Superseded(w.id, Base)) ELSE Base)

\* No attempt starts for a queued turn while its Box is archived.
ColdTurnsWake == [][\A t \in Turns :
  turn[t].st = "queued" /\ turn'[t].st = "starting" => box # "archived"]_vars

\* Claiming a retry, for the first time or again, costs the other queued turns
\* nothing.
RetrySparesQueue == [][\A i \in Slots, t \in Turns :
  (/\ Retries(op[i]) /\ lease["main"] = Idle /\ lease'["main"] = [kind |-> "op", id |-> i]
   /\ t # op[i].turn /\ turn[t].st = "queued") => turn'[t].st = "queued"]_vars

\* Retrying a turn whose Box is gone starts the Box and resumes the turn.
RetryStartReturnsTurn == \A t \in Turns :
  (\E i \in Live(op) : op[i].kind = "start" /\ Retries(op[i]) /\ op[i].turn = t)
    ~> turn[t].st # "interrupted"
=============================================================================
