----------------------- MODULE CompanionRuntimeProofs -----------------------
(***************************************************************************)
(* Proofs about the parts of MCTurns.  CompanionRuntime, for every set of  *)
(* turns, questions, users' requests and mishaps: types, the lanes and the *)
(* Box, the questions of an attempt, what has ended, and the prompt        *)
(* written once.  TriggerHooks: the triggers and their hooks.  Through    *)
(* PromptDispatchProofs: the prompts of the attempts.                      *)
(***************************************************************************)
EXTENDS MCTurns, TLAPS, FiniteSetTheorems, WellFoundedInduction

States == {"none", "queued", "interrupted", "succeeded", "failed", "cancelled"} \cup Active

\* Rows that the code writes together: an empty slot is pending, and what the
\* system files itself is the Start of a turn.
OpsAgree == \A i \in Slots : /\ op[i].kind = "none" => op[i].st = "pending"
                             /\ op[i].by = "turn" => op[i].kind = "start" /\ op[i].turn \in Turns

\* A question that was asked has its turn, one that was not has no delivery, and a
\* question with a command id is not to be tried again.
QuestionsAgree == \A d \in Decisions : /\ dec[d].st # "none" => dec[d].turn \in Turns
                                       /\ dec[d].st = "none" => dec[d].dv = "pending"
                                       /\ dec[d].cmd => dec[d].dv # "pending"

\* While an operation of the main lane runs, no turn of either lane does.
BoxWorkIsAlone ==
  \A i \in Slots : op[i].st = "running" /\ OpLane(op[i]) = "main" => \A t \in Turns : turn[t].st \notin Active

\* A retry, pending or running, is the only one of a turn that is interrupted.
RetriesWait ==
  \A i \in Live(op) : Retries(op[i]) =>
    /\ turn[op[i].turn].st = "interrupted"
    /\ \A j \in Live(op) : Retries(op[j]) /\ op[j].turn = op[i].turn => j = i

\* Nothing is filed for a Companion whose delete was asked for.
DeleteWasAsked == \A i \in Slots : op[i].kind = "delete" => retirement # "active"

RowsInv == TypeOK /\ OpsAgree /\ QuestionsAgree
WorkInv == BoxWorkIsAlone /\ RetriesWait /\ DeleteWasAsked /\ DeleteRunsAlone
QuestionsInv == DecisionsFollowAttempt /\ WaitingHasQuestion
CompanionInv == RowsInv /\ WorkInv /\ QuestionsInv
-----------------------------------------------------------------------------
(* Finite sets have a largest element: the bounds of queue_sequence.         *)

\* A function with integer values takes a largest one on a finite set.
LEMMA LargestValue ==
  ASSUME NEW I, IsFiniteSet(I), NEW f, \A x \in I : f[x] \in Int, I # {}
  PROVE  \E m \in I : \A x \in I : f[x] <= f[m]
  <1> DEFINE Has(A) == \E m \in A : \A x \in A : f[x] <= f[m]
             Bad == {A \in SUBSET I : A # {} /\ ~Has(A)}
  <1> SUFFICES ASSUME Bad # {} PROVE FALSE
    OBVIOUS
  <1>1. IsWellFoundedOn(StrictSubsetOrdering(I), SUBSET I)
    BY FS_StrictSubsetOrderingWellFounded, FS_FiniteSubsetsOfFinite
  <1>2. PICK A \in Bad : \A B \in Bad : <<B, A>> \notin StrictSubsetOrdering(I)
    <2> HIDE DEF Has
    <2>1. Bad \subseteq SUBSET I
      OBVIOUS
    <2> HIDE DEF Bad
    <2>2. QED
      BY <1>1, <2>1, WFMin
  <1>3. PICK a \in A : TRUE
    OBVIOUS
  <1> DEFINE B == A \ {a}
  <1>4. B \notin Bad
    <2>1. B \in SUBSET I /\ A \in SUBSET I /\ B \subseteq A /\ B # A
      BY <1>3
    <2>2. <<B, A>> \in StrictSubsetOrdering(I)
      BY <2>1 DEF StrictSubsetOrdering
    <2>3. QED
      BY <1>2, <2>2
  <1>5. CASE B = {}
    <2>1. A = {a} /\ f[a] \in Int
      BY <1>3, <1>5
    <2>2. Has(A)
      BY <2>1
    <2>3. QED
      BY <2>2
  <1>6. CASE Has(B)
    <2>1. PICK m \in B : \A x \in B : f[x] <= f[m]
      BY <1>6
    <2>2. f[m] \in Int /\ f[a] \in Int /\ \A x \in B : f[x] \in Int
      BY <1>3, <2>1
    <2>3. CASE f[a] <= f[m]
      BY <2>1, <2>3
    <2>4. CASE f[m] <= f[a]
      <3>1. \A x \in A : f[x] <= f[a]
        BY <2>1, <2>2, <2>4
      <3>2. QED
        BY <1>3, <3>1
    <2>5. QED
      BY <2>2, <2>3, <2>4
  <1>7. QED
    BY <1>4, <1>5, <1>6

\* MaxOf of finitely many naturals is a natural.
LEMMA MaxOfNat ==
  ASSUME NEW I, IsFiniteSet(I), NEW f, \A x \in I : f[x] \in Nat
  PROVE  MaxOf({f[x] : x \in I}) \in Nat
  <1> DEFINE S == {f[x] : x \in I}
  <1>1. CASE I = {}
    BY <1>1 DEF MaxOf
  <1>2. CASE I # {}
    <2>1. PICK m \in I : \A x \in I : f[x] <= f[m]
      BY <1>2, LargestValue
    <2>2. f[m] \in S /\ \A y \in S : f[m] >= y
      BY <2>1
    <2>3. \E x \in S : \A y \in S : x >= y
      BY <2>2
    <2>4. (CHOOSE x \in S : \A y \in S : x >= y) \in S
      BY <2>3
    <2>5. S \subseteq Nat /\ S # {}
      BY <1>2
    <2>6. QED
      BY <2>4, <2>5 DEF MaxOf
  <1>3. QED
    BY <1>1, <1>2

\* The slots of operations are finitely many.
LEMMA SlotsFinite == IsFiniteSet(Slots) /\ Slots \subseteq Nat /\ IsFiniteSet(Turns)
  <1>1. IsFiniteSet(Turns) /\ Cardinality(Turns) \in Nat
    BY TurnAssumption, FS_CardinalityType
  <1>2. MaxEvents + Cardinality(Turns) \in Int
    BY <1>1, BoundAssumption
  <1>3. QED
    BY <1>1, <1>2, FS_Interval DEF Slots

LEMMA LastTurnNat == TypeOK => LastTurn \in Nat
  <1> SUFFICES ASSUME TypeOK PROVE LastTurn \in Nat
    OBVIOUS
  <1> DEFINE f == [t \in Turns |-> turn[t].seq]
  <1>1. \A t \in Turns : f[t] \in Nat
    BY DEF TypeOK, TurnRows
  <1>2. {f[t] : t \in Turns} = {turn[t].seq : t \in Turns}
    BY Zenon
  <1> HIDE DEF f
  <1>3. MaxOf({f[t] : t \in Turns}) \in Nat
    BY <1>1, MaxOfNat, SlotsFinite
  <1>4. QED
    BY <1>2, <1>3, Zenon DEF LastTurn
-----------------------------------------------------------------------------
(* The operators of the model keep rows of their kinds. *)

\* An operation the queue files for a turn.
TurnStart(o) == o.kind = "start" /\ o.by = "turn" /\ o.turn \in Turns /\ o.st = "pending"

\* Filing changes one slot, if any, to the pending operation it files.
LEMMA FiledRow ==
  ASSUME TypeOK, NEW O \in [Slots -> OpRows], NEW k \in {"start", "delete"} \cup Lifecycle,
         NEW b \in {"user", "turn"}, NEW u \in Turns \cup {NoTurn}
  PROVE  /\ File(O, k, b, u) \in [Slots -> OpRows]
         /\ \A i \in Slots :
              \/ File(O, k, b, u)[i] = O[i]
              \/ LET o == File(O, k, b, u)[i] IN o.kind = k /\ o.by = b /\ o.turn = u /\ o.st = "pending"
         /\ \A i, j \in Slots : File(O, k, b, u)[i] # O[i] /\ File(O, k, b, u)[j] # O[j] => i = j
  <1> DEFINE i0 == CHOOSE i \in Slots : O[i].kind = "none"
             s0 == 1 + MaxOf({O[j].seq : j \in Live(O)})
             o0 == [kind |-> k, by |-> b, turn |-> u, st |-> "pending", seq |-> s0, cutoff |-> LastTurn, phase |-> "pending"]
  <1>1. s0 \in Nat
    <2> DEFINE f == [j \in Slots |-> O[j].seq]
    <2>1. Live(O) \subseteq Slots /\ IsFiniteSet(Live(O))
      BY SlotsFinite, FS_Subset DEF Live
    <2>2. \A j \in Live(O) : f[j] \in Nat
      BY <2>1 DEF OpRows
    <2>3. {f[j] : j \in Live(O)} = {O[j].seq : j \in Live(O)}
      BY <2>1, Zenon
    <2> HIDE DEF f
    <2>4. MaxOf({f[j] : j \in Live(O)}) \in Nat
      BY <2>1, <2>2, MaxOfNat
    <2>5. MaxOf({O[j].seq : j \in Live(O)}) \in Nat
      BY <2>3, <2>4, Zenon
    <2>6. QED
      BY <2>5
  <1>2. o0 \in OpRows
    BY <1>1, LastTurnNat DEF OpRows, Lifecycle
  <1>3. File(O, k, b, u) = [O EXCEPT ![i0] = o0]
    BY DEF File
  <1>4. o0.kind = k /\ o0.by = b /\ o0.turn = u /\ o0.st = "pending"
    OBVIOUS
  <1> HIDE DEF i0, o0
  <1>5. QED
    BY <1>2, <1>3, <1>4

\* Dropping operations empties their slots.
LEMMA WithoutRows ==
  ASSUME NEW O \in [Slots -> OpRows], NEW S
  PROVE  /\ Without(O, S) \in [Slots -> OpRows]
         /\ \A i \in Slots : Without(O, S)[i] = IF i \in S THEN NoOp ELSE O[i]
  BY DEF Without, NoOp, OpRows

LEMMA EmptySlot == NoOp.kind = "none" /\ NoOp.by = "user" /\ NoOp.st = "pending" /\ NoOp.turn = NoTurn
  BY DEF NoOp

\* Ending turns changes their state and nothing else.
LEMMA EndedRows ==
  ASSUME NEW S \in [Turns -> TurnRows], NEW T, NEW how \in States
  PROVE  /\ End(S, T, how) \in [Turns -> TurnRows]
         /\ \A t \in Turns : /\ End(S, T, how)[t].st = IF t \in T THEN how ELSE S[t].st
                             /\ End(S, T, how)[t].n = S[t].n /\ End(S, T, how)[t].sent = S[t].sent
                             /\ End(S, T, how)[t].retries = S[t].retries /\ End(S, T, how)[t].disp = S[t].disp
  BY DEF End, TurnRows, States

\* Closing questions settles how they stand and how they were delivered.
LEMMA ClosedRows ==
  ASSUME TypeOK, NEW Ds
  PROVE  /\ Close(Ds) \in [Decisions -> DecRows]
         /\ \A d \in Decisions :
              /\ Close(Ds)[d].turn = dec[d].turn /\ Close(Ds)[d].n = dec[d].n /\ Close(Ds)[d].cmd = dec[d].cmd
              /\ Close(Ds)[d].st # "none" <=> dec[d].st # "none"
              /\ d \notin Ds => Close(Ds)[d] = dec[d]
              /\ d \in Ds => Close(Ds)[d].dv = IF dec[d].cmd THEN "ambiguous" ELSE "cancelled"
  <1>1. dec \in [Decisions -> DecRows]
    BY DEF TypeOK
  <1>2. \A d \in Decisions : dec[d] \in DecRows
    BY <1>1
  <1>3. ASSUME NEW d \in Decisions, d \in Ds
        PROVE  /\ Close(Ds)[d] \in DecRows
               /\ Close(Ds)[d].turn = dec[d].turn /\ Close(Ds)[d].n = dec[d].n /\ Close(Ds)[d].cmd = dec[d].cmd
               /\ Close(Ds)[d].st # "none" <=> dec[d].st # "none"
               /\ Close(Ds)[d].dv = IF dec[d].cmd THEN "ambiguous" ELSE "cancelled"
    BY <1>2, <1>3 DEF Close, DecRows
  <1>4. ASSUME NEW d \in Decisions, d \notin Ds PROVE Close(Ds)[d] = dec[d]
    BY <1>4 DEF Close
  <1>5. Close(Ds) = [d \in Decisions |-> Close(Ds)[d]]
    BY DEF Close
  <1>6. QED
    BY <1>2, <1>3, <1>4, <1>5
-----------------------------------------------------------------------------
(* What a claim call finds. *)

\* A Start of a turn is filed or not; nothing else changes.
LEMMA StartFiled ==
  ASSUME TypeOK, NEW O \in [Slots -> OpRows], NEW t \in Turns
  PROVE  /\ FileStart(O, t) \in [Slots -> OpRows]
         /\ \A i \in Slots : FileStart(O, t)[i] = O[i] \/ TurnStart(FileStart(O, t)[i])
  <1>1. CASE Busy(t) \/ HasStart(O, t)
    BY <1>1 DEF FileStart
  <1>2. CASE ~(Busy(t) \/ HasStart(O, t))
    <2>1. FileStart(O, t) = File(O, "start", "turn", t)
      BY <1>2 DEF FileStart
    <2>2. QED
      BY <2>1, FiledRow DEF TurnStart
  <1>3. QED
    BY <1>1, <1>2

\* A claim call drops Starts and files Starts of queued turns, before it takes anything.
LEMMA BaseRows ==
  ASSUME TypeOK
  PROVE  /\ Base \in [Slots -> OpRows]
         /\ \A i \in Slots : \/ Base[i] = op[i]
                             \/ Base[i] = NoOp /\ op[i].by = "turn"
                             \/ TurnStart(Base[i]) /\ \E t \in Turns : turn[t].st = "queued"
         /\ lease["main"] # Idle => Base = op
         /\ (\A t \in Turns : turn[t].st # "queued") =>
               \A i \in Slots : Base[i] = op[i] \/ (Base[i] = NoOp /\ op[i].by = "turn")
         /\ lease["main"] = Idle => \A i \in Slots : Base[i] = Reconciled(op)[i] \/ TurnStart(Base[i])
  <1>1. op \in [Slots -> OpRows]
    BY DEF TypeOK
  <1> DEFINE R == Reconciled(op)
  <1>2. R \in [Slots -> OpRows] /\ \A i \in Slots : R[i] = op[i] \/ (R[i] = NoOp /\ op[i].by = "turn")
    BY <1>1, WithoutRows DEF Reconciled
  <1>3. Cold(R) \subseteq Turns /\ \A t \in Cold(R) : turn[t].st = "queued"
    BY DEF Cold, Heads, QueuedIn, TurnsOf, Turns
  <1> DEFINE c == CHOOSE t \in Cold(R) : \A u \in Cold(R) : turn[t].seq <= turn[u].seq
  <1>4. CASE Cold(R) = {}
    BY <1>1, <1>2, <1>4 DEF Base, Prepared
  <1>5. CASE Cold(R) # {} /\ c \in Turns
    <2> HIDE DEF R, c
    <2>1. Prepared(R) = FileStart(R, c)
      BY <1>5 DEF Prepared, c
    <2>2. /\ Prepared(R) \in [Slots -> OpRows]
          /\ \A i \in Slots : Prepared(R)[i] = R[i] \/ TurnStart(Prepared(R)[i])
      BY <1>2, <1>5, <2>1, StartFiled
    <2>3. \E t \in Turns : turn[t].st = "queued"
      BY <1>3, <1>5
    <2>4. Base = IF lease["main"] = Idle THEN Prepared(R) ELSE op
      BY DEF Base, R
    <2>5. QED
      BY <1>1, <1>2, <2>2, <2>3, <2>4 DEF R
  <1>6. Cold(R) # {} => c \in Turns
    <2> SUFFICES ASSUME Cold(R) # {} PROVE c \in Turns
      OBVIOUS
    <2> HIDE DEF R
    <2> DEFINE C == Cold(R)
    <2>1. C \subseteq Turns /\ C # {}
      BY <1>3
    <2> HIDE DEF C
    <2> DEFINE g == [t \in Turns |-> 0 - turn[t].seq]
    <2>2. IsFiniteSet(C)
      BY <2>1, SlotsFinite, FS_Subset
    <2>3. \A t \in C : g[t] \in Int /\ turn[t].seq \in Nat /\ g[t] = 0 - turn[t].seq
      BY <2>1 DEF TypeOK, TurnRows
    <2> HIDE DEF g
    <2>4. PICK m \in C : \A t \in C : g[t] <= g[m]
      BY <2>1, <2>2, <2>3, LargestValue
    <2>5. \A u \in C : turn[m].seq <= turn[u].seq
      BY <2>3, <2>4
    <2>6. \E t \in C : \A u \in C : turn[t].seq <= turn[u].seq
      BY <2>5
    <2>7. (CHOOSE t \in C : \A u \in C : turn[t].seq <= turn[u].seq) \in C
      BY <2>6
    <2>8. QED
      BY <2>1, <2>7 DEF C
  <1>7. QED
    BY <1>4, <1>5, <1>6

\* The work found for a lane: the lane is free, and nothing that is due comes before it.
LEMMA FoundWork ==
  ASSUME NEW l \in Lanes, NEW kind, NEW w \in Found(l, kind)
  PROVE  /\ lease[l] = Idle /\ gate /\ retirement # "retired"
         /\ w \in Due(l, Base) /\ w.kind = kind
         /\ \A v \in Due(l, Base) : w.rank < v.rank \/ (w.rank = v.rank /\ w.place <= v.place)
  BY DEF Found, First

Ranks(o) == Rank(o) \in {10, 20, 45} /\ (Rank(o) = 10 <=> o.kind = "delete") /\ (Rank(o) = 20 <=> o.kind \in Lifecycle)
LEMMA RanksOf == ASSUME NEW o PROVE Ranks(o)
  BY DEF Ranks, Rank, Lifecycle

\* An operation found is due; no turn of the lane runs behind a Start that is found.
LEMMA FoundOperation ==
  ASSUME TypeOK, NEW l \in Lanes, NEW w \in Found(l, "op")
  PROVE  /\ w.id \in Slots /\ Base[w.id].kind # "none" /\ OpDue(l, Base[w.id])
         /\ Base[w.id].kind = "start" => ActiveIn(l) = {}
  <1>1. w \in Due(l, Base) /\ w.kind = "op"
    BY FoundWork
  <1>2. \A i : OpWork(Base, i).kind = "op" /\ OpWork(Base, i).id = i /\ OpWork(Base, i).rank = Rank(Base[i])
    BY DEF OpWork
  <1>3. PICK i \in Live(Base) : OpDue(l, Base[i]) /\ w = OpWork(Base, i)
    BY <1>1 DEF Due
  <1>4. w.id = i /\ w.rank = Rank(Base[i]) /\ i \in Slots /\ Base[i].kind # "none"
    BY <1>2, <1>3 DEF Live
  <1>5. ASSUME Base[i].kind = "start", NEW t \in ActiveIn(l) PROVE FALSE
    <2> DEFINE v == [rank |-> 40, place |-> 0, kind |-> "attempt", id |-> t]
    <2>1. v \in Due(l, Base)
      BY <1>5 DEF Due
    <2>2. v.rank = 40
      OBVIOUS
    <2> HIDE DEF v
    <2>3. w.rank <= 40
      BY <2>1, <2>2, FoundWork, <1>4, RanksOf DEF Ranks
    <2>4. QED
      BY <2>3, <1>4, <1>5, RanksOf DEF Ranks, Lifecycle
  <1>6. QED
    BY <1>3, <1>4, <1>5

\* A decision found is due and of the lane.
LEMMA FoundDecision ==
  ASSUME NEW l \in Lanes, NEW w \in Found(l, "decision")
  PROVE  w.id \in Decisions /\ DecisionDue(w.id) /\ LaneOf(dec[w.id].turn) = l
  <1>1. w \in Due(l, Base) /\ w.kind = "decision"
    BY FoundWork
  <1>2. QED
    BY <1>1 DEF Due, OpWork

\* An attempt found runs in the lane.
LEMMA FoundAttempt ==
  ASSUME NEW l \in Lanes, NEW w \in Found(l, "attempt")
  PROVE  w.id \in Turns /\ turn[w.id].st \in Active /\ LaneOf(w.id) = l
  <1>1. w \in Due(l, Base) /\ w.kind = "attempt"
    BY FoundWork
  <1>2. w.id \in ActiveIn(l)
    BY <1>1 DEF Due, OpWork
  <1>3. QED
    BY <1>2, TurnAssumption DEF ActiveIn, TurnsOf, Turns, LaneOf, Lanes

\* A queued turn is found in a lane where no turn runs and no operation is due.
LEMMA FoundQueued ==
  ASSUME TypeOK, NEW l \in Lanes, NEW w \in Found(l, "queued")
  PROVE  /\ w.id \in Turns /\ turn[w.id].st = "queued" /\ LaneOf(w.id) = l /\ ActiveIn(l) = {}
         /\ \A i \in Live(Base) : ~OpDue(l, Base[i])
         /\ l = "routine" => RoutineMayStart(Base)
  <1>1. w \in Due(l, Base) /\ w.kind = "queued"
    BY FoundWork
  <1>2. w.rank = 60 /\ w.id \in Heads(l) /\ (l = "routine" => RoutineMayStart(Base))
    BY <1>1 DEF Due, OpWork
  <1>3. w.id \in Turns /\ turn[w.id].st = "queued" /\ LaneOf(w.id) = l /\ ActiveIn(l) = {}
    BY <1>2, TurnAssumption DEF Heads, QueuedIn, TurnsOf, Turns, LaneOf, Lanes
  <1>4. ASSUME NEW i \in Live(Base), OpDue(l, Base[i]) PROVE FALSE
    <2>1. OpWork(Base, i) \in Due(l, Base)
      BY <1>4 DEF Due
    <2>2. OpWork(Base, i).rank = Rank(Base[i])
      BY DEF OpWork
    <2>3. w.rank <= Rank(Base[i])
      BY <2>1, <2>2, FoundWork, <1>2, RanksOf DEF Ranks
    <2>4. QED
      BY <2>3, <1>2, RanksOf DEF Ranks
  <1>5. QED
    BY <1>2, <1>3, <1>4
-----------------------------------------------------------------------------
(* Every step keeps the rows of their kinds. *)

LeaseRows == [kind : {"none", "op", "decision", "attempt"}, id : Turns \cup Slots \cup Decisions \cup {NoTurn}]
LeasesTyped == lease \in [Lanes -> LeaseRows] /\ \A l \in Lanes : lease[l].kind = "none" <=> lease[l].id = NoTurn

\* What TypeOK says, by variable.
LEMMA Typed ==
  TypeOK <=> /\ turn \in [Turns -> TurnRows] /\ op \in [Slots -> OpRows] /\ dec \in [Decisions -> DecRows]
             /\ LeasesTyped
             /\ box \in {"fresh", "stale", "archived"} /\ gate \in BOOLEAN
             /\ retirement \in {"active", "requested", "retired"} /\ events \in 0..MaxEvents
  BY DEF TypeOK, LeasesTyped, LeaseRows

\* Freeing a lane and granting a lease for real work keep the leases of their kind.
LEMMA FreedLease ==
  ASSUME LeasesTyped, NEW l, FreeLane(l)
  PROVE  /\ LeasesTyped'
         /\ \A k \in Lanes : lease'[k] = IF k = l THEN Idle ELSE lease[k]
  BY DEF FreeLane, LeasesTyped, LeaseRows, Idle

LEMMA GrantedLease ==
  ASSUME LeasesTyped, NEW l \in Lanes, NEW k \in {"op", "decision", "attempt"},
         NEW x \in Turns \cup Slots \cup Decisions, Grant(l, k, x)
  PROVE  LeasesTyped' /\ \A m \in Lanes : m # l => lease'[m] = lease[m]
  <1>1. x # NoTurn /\ [kind |-> k, id |-> x] \in LeaseRows
    BY TurnAssumption DEF LeaseRows
  <1>2. QED
    BY <1>1 DEF Grant, LeasesTyped, LeaseRows

\* Dropping operations, and preparing a claim, keep the operations in agreement.
LEMMA AgreeingOps ==
  ASSUME TypeOK, OpsAgree
  PROVE  /\ Base \in [Slots -> OpRows]
         /\ \A i \in Slots : /\ Base[i].kind = "none" => Base[i].st = "pending"
                             /\ Base[i].by = "turn" => Base[i].kind = "start" /\ Base[i].turn \in Turns
         /\ \A i \in Slots : Base[i].kind = "delete" => op[i].kind = "delete"
         /\ \A i \in Slots : Base[i].st = "running" => Base[i] = op[i]
         /\ \A i \in Slots : Base[i].kind # "none" /\ Retries(Base[i]) => Base[i] = op[i]
  <1>1. NoOp.kind = "none" /\ NoOp.by = "user" /\ NoOp.st = "pending"
    BY EmptySlot
  <1>2. QED
    BY <1>1, BaseRows DEF OpsAgree, TurnStart, Retries

\* A pending operation that agrees with its kind.
Fileable(k, b, u) == b = "turn" => k = "start" /\ u \in Turns
LEMMA FiledAgrees ==
  ASSUME TypeOK, OpsAgree, NEW k \in {"start", "delete"} \cup Lifecycle, NEW b \in {"user", "turn"},
         NEW u \in Turns \cup {NoTurn}, Fileable(k, b, u), op' = File(op, k, b, u)
  PROVE  op' \in [Slots -> OpRows] /\ OpsAgree'
  <1>1. op \in [Slots -> OpRows]
    BY DEF TypeOK
  <1>2. k # "none"
    BY DEF Lifecycle
  <1>3. QED
    BY <1>1, <1>2, FiledRow DEF OpsAgree, Fileable

LEMMA DroppedAgrees ==
  ASSUME TypeOK, OpsAgree, NEW S, op' = Without(op, S)
  PROVE  op' \in [Slots -> OpRows] /\ OpsAgree'
  <1>1. op \in [Slots -> OpRows]
    BY DEF TypeOK
  <1>2. QED
    BY <1>1, WithoutRows, EmptySlot DEF OpsAgree

LEMMA BaseAgrees ==
  ASSUME TypeOK, OpsAgree, op' = Base
  PROVE  op' \in [Slots -> OpRows] /\ OpsAgree'
  BY AgreeingOps DEF OpsAgree

\* Closing questions keeps them in agreement.
LEMMA ClosedAgrees ==
  ASSUME TypeOK, QuestionsAgree, NEW Ds, Ds \subseteq {d \in Decisions : Undelivered(d)}, dec' = Close(Ds)
  PROVE  dec' \in [Decisions -> DecRows] /\ QuestionsAgree'
  BY ClosedRows DEF QuestionsAgree, Undelivered

LEMMA AskedAreUndelivered ==
  ASSUME NEW T
  PROVE  UNION {AskedBy(t) : t \in T} \subseteq {d \in Decisions : Undelivered(d)}
  BY DEF AskedBy

LEMMA ClosedAllAgrees ==
  ASSUME TypeOK, QuestionsAgree, NEW T, dec' = CloseAll(T)
  PROVE  dec' \in [Decisions -> DecRows] /\ QuestionsAgree'
  BY ClosedAgrees, AskedAreUndelivered DEF CloseAll

\* Ending turns keeps their rows.
LEMMA EndedAgrees ==
  ASSUME TypeOK, NEW T, NEW how \in States, turn' = End(turn, T, how)
  PROVE  turn' \in [Turns -> TurnRows]
  BY EndedRows DEF TypeOK

\* The parts of RowsInv, one for each group of variables.
TurnsTyped == turn \in [Turns -> TurnRows]
OpsHold == op \in [Slots -> OpRows] /\ OpsAgree
QuestionsHold == dec \in [Decisions -> DecRows] /\ QuestionsAgree
RestTyped == /\ box \in {"fresh", "stale", "archived"} /\ gate \in BOOLEAN
             /\ retirement \in {"active", "requested", "retired"} /\ events \in 0..MaxEvents

LEMMA RowsByPart ==
  /\ RowsInv => /\ TypeOK /\ OpsAgree /\ QuestionsAgree
                /\ TurnsTyped /\ OpsHold /\ QuestionsHold /\ LeasesTyped /\ RestTyped
                /\ turn \in [Turns -> TurnRows] /\ op \in [Slots -> OpRows] /\ dec \in [Decisions -> DecRows]
  /\ TurnsTyped' /\ OpsHold' /\ QuestionsHold' /\ LeasesTyped' /\ RestTyped' => RowsInv'
  BY DEF RowsInv, TypeOK, TurnsTyped, OpsHold, QuestionsHold, LeasesTyped, RestTyped, LeaseRows

\* A step that leaves a variable alone leaves its part alone.
Kept == UNCHANGED <<box, gate, retirement, events>>
LEMMA KeptParts ==
  ASSUME RowsInv
  PROVE  /\ turn' = turn => TurnsTyped'
         /\ op' = op => OpsHold'
         /\ dec' = dec => QuestionsHold'
         /\ lease' = lease => LeasesTyped'
         /\ Kept => RestTyped'
  BY RowsByPart DEF TurnsTyped, OpsHold, QuestionsHold, LeasesTyped, RestTyped, OpsAgree, QuestionsAgree, Kept

LEMMA EnqueueRows ==
  ASSUME RowsInv, NEW t \in Turns, Enqueue(t)
  PROVE  RowsInv'
  <1>1. TypeOK /\ OpsAgree /\ QuestionsAgree /\ turn \in [Turns -> TurnRows] /\ op \in [Slots -> OpRows] /\ dec \in [Decisions -> DecRows] /\ LeasesTyped /\ RestTyped
    BY RowsByPart
  <1>2. turn' \in [Turns -> TurnRows]
    <2> DEFINE r == [turn[t] EXCEPT !.st = "queued", !.seq = 1 + LastTurn]
    <2>1. r \in TurnRows
      <3>1. 1 + LastTurn \in Nat
        BY <1>1, LastTurnNat
      <3>2. turn[t] \in TurnRows
        BY <1>1
      <3>3. QED
        BY <1>1, <3>1, <3>2 DEF TurnRows
    <2>2. turn' = [turn EXCEPT ![t] = r]
      BY <1>1 DEF Enqueue
    <2> HIDE DEF r
    <2>3. QED
      BY <1>1, <2>1, <2>2
  <1>3. op' \in [Slots -> OpRows] /\ OpsAgree'
    BY <1>1, StartFiled DEF Enqueue, OpsAgree, TurnStart
  <1>4. dec' \in [Decisions -> DecRows] /\ QuestionsAgree'
    BY <1>1 DEF Enqueue, DecRows, QuestionsAgree
  <1>5. LeasesTyped' /\ RestTyped'
    BY KeptParts DEF Enqueue, Kept
  <1>6. QED
    BY <1>2, <1>3, <1>4, <1>5, RowsByPart DEF TurnsTyped, OpsHold, QuestionsHold

LEMMA AnswerRows ==
  ASSUME RowsInv, NEW d \in Decisions, Answer(d)
  PROVE  RowsInv'
  <1>1. TypeOK /\ OpsAgree /\ QuestionsAgree /\ turn \in [Turns -> TurnRows] /\ op \in [Slots -> OpRows] /\ dec \in [Decisions -> DecRows] /\ LeasesTyped /\ RestTyped
    BY RowsByPart
  <1>2. dec' \in [Decisions -> DecRows] /\ QuestionsAgree'
    BY <1>1 DEF Answer, DecRows, QuestionsAgree
  <1>3. TurnsTyped' /\ OpsHold' /\ LeasesTyped' /\ RestTyped'
    BY KeptParts DEF Answer, Kept
  <1>4. QED
    BY <1>2, <1>3, RowsByPart DEF TurnsTyped, OpsHold, QuestionsHold

LEMMA CancelRows ==
  ASSUME RowsInv, NEW t \in Turns, Cancel(t)
  PROVE  RowsInv'
  <1>1. TypeOK /\ OpsAgree /\ QuestionsAgree /\ turn \in [Turns -> TurnRows] /\ op \in [Slots -> OpRows] /\ dec \in [Decisions -> DecRows] /\ LeasesTyped /\ RestTyped
    BY RowsByPart
  <1>2. turn' \in [Turns -> TurnRows]
    <2>1. CASE turn' = [turn EXCEPT ![t].cancel = TRUE]
      <3>1. turn[t] \in TurnRows
        BY <1>1
      <3>2. [turn[t] EXCEPT !.cancel = TRUE] \in TurnRows
        BY <3>1 DEF TurnRows
      <3>3. QED
        BY <1>1, <2>1, <3>2
    <2>2. CASE turn' = End(turn, {t}, "cancelled")
      BY <1>1, <2>2, EndedAgrees DEF States
    <2>3. QED
      BY <1>1, <2>1, <2>2 DEF Cancel
  <1>3. op' \in [Slots -> OpRows] /\ OpsAgree'
    BY <1>1, DroppedAgrees DEF Cancel
  <1>4. dec' \in [Decisions -> DecRows] /\ QuestionsAgree'
    <2>1. {d \in Decisions : Undelivered(d) /\ dec[d].turn = t} \subseteq {d \in Decisions : Undelivered(d)}
      OBVIOUS
    <2>2. QED
      BY <1>1, <2>1, ClosedAgrees DEF Cancel, QuestionsAgree
  <1>5. LeasesTyped' /\ RestTyped'
    BY KeptParts DEF Cancel, Kept
  <1>6. QED
    BY <1>2, <1>3, <1>4, <1>5, RowsByPart DEF TurnsTyped, OpsHold, QuestionsHold

LEMMA RetryRows ==
  ASSUME RowsInv, NEW t \in Turns, Retry(t)
  PROVE  RowsInv'
  <1>1. TypeOK /\ OpsAgree /\ QuestionsAgree /\ turn \in [Turns -> TurnRows] /\ op \in [Slots -> OpRows] /\ dec \in [Decisions -> DecRows] /\ LeasesTyped /\ RestTyped
    BY RowsByPart
  <1>2. turn' \in [Turns -> TurnRows]
    BY <1>1 DEF Retry, TurnRows
  <1>3. op' \in [Slots -> OpRows] /\ OpsAgree'
    <2>1. \E k \in {"start", "restart_pi"} : op' = File(op, k, "user", t)
      BY <1>1 DEF Retry
    <2>2. QED
      BY <1>1, <2>1, FiledAgrees DEF Lifecycle, Fileable
  <1>4. RestTyped'
    BY <1>1, BoundAssumption DEF Retry, MayFile, Counted, RestTyped
  <1>5. QuestionsHold' /\ LeasesTyped'
    BY KeptParts DEF Retry, Kept
  <1>6. QED
    BY <1>2, <1>3, <1>4, <1>5, RowsByPart DEF TurnsTyped, OpsHold, QuestionsHold

LEMMA RequestRows ==
  ASSUME RowsInv, NEW k \in Lifecycle \cup {"delete"}, Request(k)
  PROVE  RowsInv'
  <1>1. TypeOK /\ OpsAgree /\ QuestionsAgree /\ turn \in [Turns -> TurnRows] /\ op \in [Slots -> OpRows] /\ dec \in [Decisions -> DecRows] /\ LeasesTyped /\ RestTyped
    BY RowsByPart
  <1>2. op' \in [Slots -> OpRows] /\ OpsAgree'
    BY <1>1, FiledAgrees DEF Request, Fileable
  <1>3. RestTyped'
    BY <1>1, BoundAssumption DEF Request, MayFile, Counted, RestTyped
  <1>4. TurnsTyped' /\ QuestionsHold' /\ LeasesTyped'
    BY KeptParts DEF Request, Kept
  <1>5. QED
    BY <1>2, <1>3, <1>4, RowsByPart DEF TurnsTyped, OpsHold, QuestionsHold

LEMMA DropRoutineTurnRows ==
  ASSUME RowsInv, NEW t \in Turns, DropRoutineTurn(t)
  PROVE  RowsInv'
  <1>1. TypeOK /\ OpsAgree /\ QuestionsAgree /\ turn \in [Turns -> TurnRows] /\ op \in [Slots -> OpRows] /\ dec \in [Decisions -> DecRows] /\ LeasesTyped /\ RestTyped
    BY RowsByPart
  <1>2. turn' \in [Turns -> TurnRows]
    BY <1>1, EndedAgrees DEF DropRoutineTurn, States
  <1>3. op' \in [Slots -> OpRows] /\ OpsAgree'
    BY <1>1, DroppedAgrees DEF DropRoutineTurn
  <1>4. QuestionsHold' /\ LeasesTyped' /\ RestTyped'
    BY KeptParts DEF DropRoutineTurn, Kept
  <1>5. QED
    BY <1>2, <1>3, <1>4, RowsByPart DEF TurnsTyped, OpsHold, QuestionsHold

LEMMA FenceStartRows ==
  ASSUME RowsInv, FenceStart
  PROVE  RowsInv'
  <1>1. TypeOK /\ OpsAgree /\ QuestionsAgree /\ turn \in [Turns -> TurnRows] /\ op \in [Slots -> OpRows] /\ dec \in [Decisions -> DecRows] /\ LeasesTyped /\ RestTyped
    BY RowsByPart
  <1>2. turn' \in [Turns -> TurnRows]
    BY <1>1, EndedAgrees DEF FenceStart, States
  <1>3. op' \in [Slots -> OpRows] /\ OpsAgree'
    <2>1. \E S : op' = Without(Base, S)
      BY <1>1 DEF FenceStart
    <2>2. QED
      BY <1>1, <2>1, AgreeingOps, WithoutRows, EmptySlot DEF OpsAgree
  <1>4. QuestionsHold' /\ LeasesTyped' /\ RestTyped'
    BY KeptParts DEF FenceStart, Kept
  <1>5. QED
    BY <1>2, <1>3, <1>4, RowsByPart DEF TurnsTyped, OpsHold, QuestionsHold

LEMMA FenceAttemptRows ==
  ASSUME RowsInv, NEW l \in Lanes, FenceAttempt(l)
  PROVE  RowsInv'
  <1>1. TypeOK /\ OpsAgree /\ QuestionsAgree /\ turn \in [Turns -> TurnRows] /\ op \in [Slots -> OpRows] /\ dec \in [Decisions -> DecRows] /\ LeasesTyped /\ RestTyped
    BY RowsByPart
  <1>2. turn' \in [Turns -> TurnRows]
    <2>1. PICK w \in Found(l, "attempt") : turn' = [End(turn, {w.id}, "interrupted") EXCEPT ![w.id].disp = "ambiguous"]
      BY <1>1 DEF FenceAttempt
    <2>2. End(turn, {w.id}, "interrupted") \in [Turns -> TurnRows]
      BY <1>1, EndedRows DEF States
    <2>3. w.id \in Turns
      BY <1>1, FoundAttempt
    <2> DEFINE E == End(turn, {w.id}, "interrupted")
               r == [E[w.id] EXCEPT !.disp = "ambiguous"]
    <2>4. r \in TurnRows
      <3>1. E[w.id] \in TurnRows
        BY <1>1, <2>2, <2>3
      <3> HIDE DEF E
      <3>2. QED
        BY <1>1, <3>1 DEF TurnRows
    <2>5. turn' = [E EXCEPT ![w.id] = r]
      BY <1>1, <2>1
    <2> HIDE DEF E, r
    <2>6. QED
      BY <1>1, <2>2, <2>4, <2>5 DEF E
  <1>3. op' \in [Slots -> OpRows] /\ OpsAgree'
    BY <1>1, BaseAgrees DEF FenceAttempt
  <1>4. dec' \in [Decisions -> DecRows] /\ QuestionsAgree'
    BY <1>1, ClosedAllAgrees DEF FenceAttempt
  <1>5. LeasesTyped' /\ RestTyped'
    BY KeptParts DEF FenceAttempt, Kept
  <1>6. QED
    BY <1>2, <1>3, <1>4, <1>5, RowsByPart DEF TurnsTyped, OpsHold, QuestionsHold

LEMMA FenceDecisionRows ==
  ASSUME RowsInv, NEW l \in Lanes, FenceDecision(l)
  PROVE  RowsInv'
  <1>1. TypeOK /\ OpsAgree /\ QuestionsAgree /\ turn \in [Turns -> TurnRows] /\ op \in [Slots -> OpRows] /\ dec \in [Decisions -> DecRows] /\ LeasesTyped /\ RestTyped
    BY RowsByPart
  <1>2. turn' \in [Turns -> TurnRows]
    BY <1>1, EndedAgrees DEF FenceDecision, States
  <1>3. op' \in [Slots -> OpRows] /\ OpsAgree'
    BY <1>1, BaseAgrees DEF FenceDecision
  <1>4. dec' \in [Decisions -> DecRows] /\ QuestionsAgree'
    BY <1>1, ClosedAllAgrees DEF FenceDecision
  <1>5. LeasesTyped' /\ RestTyped'
    BY KeptParts DEF FenceDecision, Kept
  <1>6. QED
    BY <1>2, <1>3, <1>4, <1>5, RowsByPart DEF TurnsTyped, OpsHold, QuestionsHold

LEMMA ClaimDecisionRows ==
  ASSUME RowsInv, NEW l \in Lanes, ClaimDecision(l)
  PROVE  RowsInv'
  <1>1. TypeOK /\ OpsAgree /\ QuestionsAgree /\ turn \in [Turns -> TurnRows] /\ op \in [Slots -> OpRows] /\ dec \in [Decisions -> DecRows] /\ LeasesTyped /\ RestTyped
    BY RowsByPart
  <1>2. op' \in [Slots -> OpRows] /\ OpsAgree'
    BY <1>1, BaseAgrees DEF ClaimDecision
  <1>3. dec' \in [Decisions -> DecRows] /\ QuestionsAgree'
    <2>1. PICK w \in Found(l, "decision") :
              dec' = [dec EXCEPT ![w.id].st = IF @ = "overdue" THEN "expired" ELSE @]
      BY <1>1 DEF ClaimDecision
    <2>2. w.id \in Decisions
      BY <1>1, FoundDecision
    <2>3. QED
      BY <1>1, <2>1, <2>2 DEF DecRows, QuestionsAgree
  <1>4. LeasesTyped'
    <2>1. PICK w \in Found(l, "decision") : Grant(l, "decision", w.id)
      BY <1>1 DEF ClaimDecision
    <2>2. w.id \in Decisions
      BY <1>1, FoundDecision
    <2>3. QED
      BY <1>1, <2>1, <2>2, GrantedLease
  <1>5. TurnsTyped' /\ RestTyped'
    BY KeptParts DEF ClaimDecision, Kept
  <1>6. QED
    BY <1>2, <1>3, <1>4, <1>5, RowsByPart DEF TurnsTyped, OpsHold, QuestionsHold

LEMMA ResumeAttemptRows ==
  ASSUME RowsInv, NEW l \in Lanes, ResumeAttempt(l)
  PROVE  RowsInv'
  <1>1. TypeOK /\ OpsAgree /\ QuestionsAgree /\ turn \in [Turns -> TurnRows] /\ op \in [Slots -> OpRows] /\ dec \in [Decisions -> DecRows] /\ LeasesTyped /\ RestTyped
    BY RowsByPart
  <1>2. op' \in [Slots -> OpRows] /\ OpsAgree'
    BY <1>1, BaseAgrees DEF ResumeAttempt
  <1>3. LeasesTyped'
    <2>1. PICK w \in Found(l, "attempt") : Grant(l, "attempt", w.id)
      BY <1>1 DEF ResumeAttempt
    <2>2. w.id \in Turns
      BY <1>1, FoundAttempt
    <2>3. QED
      BY <1>1, <2>1, <2>2, GrantedLease
  <1>4. TurnsTyped' /\ QuestionsHold' /\ RestTyped'
    BY KeptParts DEF ResumeAttempt, Kept
  <1>5. QED
    BY <1>2, <1>3, <1>4, RowsByPart DEF TurnsTyped, OpsHold, QuestionsHold

LEMMA ClaimQueuedTurnRows ==
  ASSUME RowsInv, NEW l \in Lanes, ClaimQueuedTurn(l)
  PROVE  RowsInv'
  <1>1. TypeOK /\ OpsAgree /\ QuestionsAgree /\ turn \in [Turns -> TurnRows] /\ op \in [Slots -> OpRows] /\ dec \in [Decisions -> DecRows] /\ LeasesTyped /\ RestTyped
    BY RowsByPart
  <1>2. turn' \in [Turns -> TurnRows]
    <2>1. PICK w \in Found(l, "queued") :
            turn' = [turn EXCEPT ![w.id].st = "starting", ![w.id].n = @ + 1, ![w.id].late = FALSE,
                                 ![w.id].disp = "pending", ![w.id].proof = "none"]
      BY <1>1 DEF ClaimQueuedTurn
    <2>2. w.id \in Turns /\ turn[w.id] \in TurnRows
      BY <1>1, FoundQueued
    <2>3. [turn[w.id] EXCEPT !.st = "starting", !.n = @ + 1, !.late = FALSE, !.disp = "pending",
                             !.proof = "none"] \in TurnRows
      <3>1. PICK k \in Nat : k = turn[w.id].n + 1
        BY <2>2 DEF TurnRows
      <3>2. [turn[w.id] EXCEPT !.st = "starting", !.n = k, !.late = FALSE, !.disp = "pending",
                               !.proof = "none"] \in TurnRows
        BY <2>2, <3>1 DEF TurnRows, Active
      <3>3. QED
        BY <2>2, <3>1, <3>2
    <2>4. turn' = [turn EXCEPT ![w.id] = [turn[w.id] EXCEPT !.st = "starting", !.n = @ + 1, !.late = FALSE,
                                                            !.disp = "pending", !.proof = "none"]]
      BY <2>1, <2>2
    <2>5. QED
      BY <1>1, <2>2, <2>3, <2>4
  <1>3. op' \in [Slots -> OpRows] /\ OpsAgree'
    BY <1>1, BaseAgrees DEF ClaimQueuedTurn
  <1>4. LeasesTyped'
    <2>1. PICK w \in Found(l, "queued") : Grant(l, "attempt", w.id)
      BY <1>1 DEF ClaimQueuedTurn
    <2>2. w.id \in Turns
      BY <1>1, FoundQueued
    <2>3. QED
      BY <1>1, <2>1, <2>2, GrantedLease
  <1>5. QuestionsHold' /\ RestTyped'
    BY KeptParts DEF ClaimQueuedTurn, Kept
  <1>6. QED
    BY <1>2, <1>3, <1>4, <1>5, RowsByPart DEF TurnsTyped, OpsHold, QuestionsHold

LEMMA SweepOnlyRows ==
  ASSUME RowsInv, SweepOnly
  PROVE  RowsInv'
  <1>1. TypeOK /\ OpsAgree /\ QuestionsAgree /\ turn \in [Turns -> TurnRows] /\ op \in [Slots -> OpRows] /\ dec \in [Decisions -> DecRows] /\ LeasesTyped /\ RestTyped
    BY RowsByPart
  <1>2. op' \in [Slots -> OpRows] /\ OpsAgree'
    BY <1>1, BaseAgrees DEF SweepOnly
  <1>3. TurnsTyped' /\ QuestionsHold' /\ LeasesTyped' /\ RestTyped'
    BY KeptParts DEF SweepOnly, Kept
  <1>4. QED
    BY <1>2, <1>3, RowsByPart DEF TurnsTyped, OpsHold, QuestionsHold

LEMMA DispatchRows ==
  ASSUME RowsInv, NEW t \in Turns, Dispatch(t)
  PROVE  RowsInv'
  <1>1. TypeOK /\ OpsAgree /\ QuestionsAgree /\ turn \in [Turns -> TurnRows] /\ op \in [Slots -> OpRows] /\ dec \in [Decisions -> DecRows] /\ LeasesTyped /\ RestTyped
    BY RowsByPart
  <1>2. turn' \in [Turns -> TurnRows]
    BY <1>1 DEF Dispatch, TurnRows
  <1>3. OpsHold' /\ QuestionsHold' /\ LeasesTyped' /\ RestTyped'
    BY KeptParts DEF Dispatch, Kept
  <1>4. QED
    BY <1>2, <1>3, RowsByPart DEF TurnsTyped, OpsHold, QuestionsHold

LEMMA PromptOutcomeRows ==
  ASSUME RowsInv, NEW t \in Turns, PromptOutcome(t)
  PROVE  RowsInv'
  <1>1. TypeOK /\ OpsAgree /\ QuestionsAgree /\ turn \in [Turns -> TurnRows] /\ op \in [Slots -> OpRows] /\ dec \in [Decisions -> DecRows] /\ LeasesTyped /\ RestTyped
    BY RowsByPart
  <1>2. turn' \in [Turns -> TurnRows]
    BY <1>1 DEF PromptOutcome, TurnRows, Active
  <1>3. OpsHold' /\ QuestionsHold' /\ LeasesTyped' /\ RestTyped'
    BY KeptParts DEF PromptOutcome, Kept
  <1>4. QED
    BY <1>2, <1>3, RowsByPart DEF TurnsTyped, OpsHold, QuestionsHold

LEMMA ProjectRows ==
  ASSUME RowsInv, NEW t \in Turns, NEW Ds \in SUBSET Decisions, NEW p \in {"none", "settled", "exited"}, Project(t, Ds, p)
  PROVE  RowsInv'
  <1>1. TypeOK /\ OpsAgree /\ QuestionsAgree /\ turn \in [Turns -> TurnRows] /\ op \in [Slots -> OpRows] /\ dec \in [Decisions -> DecRows] /\ LeasesTyped /\ RestTyped
    BY RowsByPart
  <1>2. turn' \in [Turns -> TurnRows]
    <2> DEFINE r == [turn[t] EXCEPT !.st = AfterBatch(Ds, p), !.proof = p]
    <2>1. r \in TurnRows
      <3>1. AfterBatch(Ds, p) \in States
        BY <1>1 DEF AfterBatch, States, Active
      <3>2. turn[t] \in TurnRows
        BY <1>1
      <3>3. QED
        BY <1>1, <3>1, <3>2 DEF TurnRows, States
    <2>2. turn' = [turn EXCEPT ![t] = r]
      BY <1>1 DEF Project
    <2> HIDE DEF r
    <2>3. QED
      BY <1>1, <2>1, <2>2
  <1>3. dec' \in [Decisions -> DecRows] /\ QuestionsAgree'
    <2>1. Asked(t) \in DecRows /\ Asked(t).dv = "pending" /\ ~Asked(t).cmd /\ Asked(t).turn = t /\ Asked(t).st # "none"
      BY <1>1 DEF Asked, DecRows, TurnRows
    <2>2. QED
      BY <1>1, <2>1 DEF Project, QuestionsAgree
  <1>4. OpsHold' /\ LeasesTyped' /\ RestTyped'
    BY KeptParts DEF Project, Kept
  <1>5. QED
    BY <1>2, <1>3, <1>4, RowsByPart DEF TurnsTyped, OpsHold, QuestionsHold

LEMMA SettleAttemptRows ==
  ASSUME RowsInv, NEW t \in Turns, NEW how \in Outcomes, SettleAttempt(t, how)
  PROVE  RowsInv'
  <1>1. TypeOK /\ OpsAgree /\ QuestionsAgree /\ turn \in [Turns -> TurnRows] /\ op \in [Slots -> OpRows] /\ dec \in [Decisions -> DecRows] /\ LeasesTyped /\ RestTyped
    BY RowsByPart
  <1>2. turn' \in [Turns -> TurnRows]
    BY <1>1, EndedAgrees DEF SettleAttempt, States, Outcomes
  <1>3. dec' \in [Decisions -> DecRows] /\ QuestionsAgree'
    BY <1>1, ClosedAllAgrees DEF SettleAttempt
  <1>4. LeasesTyped'
    BY <1>1, FreedLease DEF SettleAttempt
  <1>5. OpsHold' /\ RestTyped'
    BY KeptParts DEF SettleAttempt, Kept
  <1>6. QED
    BY <1>2, <1>3, <1>4, <1>5, RowsByPart DEF TurnsTyped, OpsHold, QuestionsHold

LEMMA DeliverRows ==
  ASSUME RowsInv, NEW d \in Decisions, Deliver(d)
  PROVE  RowsInv'
  <1>1. TypeOK /\ OpsAgree /\ QuestionsAgree /\ turn \in [Turns -> TurnRows] /\ op \in [Slots -> OpRows] /\ dec \in [Decisions -> DecRows] /\ LeasesTyped /\ RestTyped
    BY RowsByPart
  <1>2. dec' \in [Decisions -> DecRows] /\ QuestionsAgree'
    BY <1>1 DEF Deliver, DecRows, QuestionsAgree, Delivering, DecisionDue
  <1>3. TurnsTyped' /\ OpsHold' /\ LeasesTyped' /\ RestTyped'
    BY KeptParts DEF Deliver, Kept
  <1>4. QED
    BY <1>2, <1>3, RowsByPart DEF TurnsTyped, OpsHold, QuestionsHold

LEMMA DeliveryAmbiguousRows ==
  ASSUME RowsInv, NEW d \in Decisions, DeliveryAmbiguous(d)
  PROVE  RowsInv'
  <1>1. TypeOK /\ OpsAgree /\ QuestionsAgree /\ turn \in [Turns -> TurnRows] /\ op \in [Slots -> OpRows] /\ dec \in [Decisions -> DecRows] /\ LeasesTyped /\ RestTyped
    BY RowsByPart
  <1>2. dec' \in [Decisions -> DecRows] /\ QuestionsAgree'
    BY <1>1 DEF DeliveryAmbiguous, DecRows, QuestionsAgree
  <1>3. TurnsTyped' /\ OpsHold' /\ LeasesTyped' /\ RestTyped'
    BY KeptParts DEF DeliveryAmbiguous, Kept
  <1>4. QED
    BY <1>2, <1>3, RowsByPart DEF TurnsTyped, OpsHold, QuestionsHold

LEMMA SettleDeliveryRows ==
  ASSUME RowsInv, NEW d \in Decisions, SettleDelivery(d)
  PROVE  RowsInv'
  <1>1. TypeOK /\ OpsAgree /\ QuestionsAgree /\ turn \in [Turns -> TurnRows] /\ op \in [Slots -> OpRows] /\ dec \in [Decisions -> DecRows] /\ LeasesTyped /\ RestTyped
    BY RowsByPart
  <1>2. turn' \in [Turns -> TurnRows]
    <2> DEFINE r == [turn[dec[d].turn] EXCEPT !.st = "running"]
    <2>1. dec[d].turn \in Turns
      BY <1>1 DEF SettleDelivery, Delivering, DecisionDue, QuestionsAgree
    <2>2. r \in TurnRows
      BY <1>1, <2>1 DEF TurnRows, Active
    <2>3. turn' = turn \/ turn' = [turn EXCEPT ![dec[d].turn] = r]
      BY <1>1 DEF SettleDelivery
    <2> HIDE DEF r
    <2>4. QED
      BY <1>1, <2>1, <2>2, <2>3
  <1>3. dec' \in [Decisions -> DecRows] /\ QuestionsAgree'
    BY <1>1 DEF SettleDelivery, DecRows, QuestionsAgree
  <1>4. LeasesTyped'
    BY <1>1, FreedLease DEF SettleDelivery
  <1>5. OpsHold' /\ RestTyped'
    BY KeptParts DEF SettleDelivery, Kept
  <1>6. QED
    BY <1>2, <1>3, <1>4, <1>5, RowsByPart DEF TurnsTyped, OpsHold, QuestionsHold

LEMMA RetryDeliveryRows ==
  ASSUME RowsInv, NEW d \in Decisions, RetryDelivery(d)
  PROVE  RowsInv'
  <1>1. TypeOK /\ OpsAgree /\ QuestionsAgree /\ turn \in [Turns -> TurnRows] /\ op \in [Slots -> OpRows] /\ dec \in [Decisions -> DecRows] /\ LeasesTyped /\ RestTyped
    BY RowsByPart
  <1>2. dec' \in [Decisions -> DecRows] /\ QuestionsAgree'
    BY <1>1 DEF RetryDelivery, DecRows, QuestionsAgree, MayHaveReachedPi
  <1>3. LeasesTyped'
    BY <1>1, FreedLease DEF RetryDelivery
  <1>4. TurnsTyped' /\ OpsHold' /\ RestTyped'
    BY KeptParts DEF RetryDelivery, Kept
  <1>5. QED
    BY <1>2, <1>3, <1>4, RowsByPart DEF TurnsTyped, OpsHold, QuestionsHold

LEMMA EndDeliveryRows ==
  ASSUME RowsInv, NEW d \in Decisions, NEW how \in {"interrupted", "cancelled"}, EndDelivery(d, how)
  PROVE  RowsInv'
  <1>1. TypeOK /\ OpsAgree /\ QuestionsAgree /\ turn \in [Turns -> TurnRows] /\ op \in [Slots -> OpRows] /\ dec \in [Decisions -> DecRows] /\ LeasesTyped /\ RestTyped
    BY RowsByPart
  <1>2. turn' \in [Turns -> TurnRows]
    BY <1>1, EndedAgrees DEF EndDelivery, States
  <1>3. dec' \in [Decisions -> DecRows] /\ QuestionsAgree'
    <2> DEFINE C == CloseAll({dec[d].turn})
    <2>1. C \in [Decisions -> DecRows]
      BY <1>1, ClosedRows DEF CloseAll
    <2>2. \A x \in Decisions : C[x].turn = dec[x].turn /\ C[x].cmd = dec[x].cmd /\ (C[x].st # "none" <=> dec[x].st # "none")
      BY <1>1, ClosedRows DEF CloseAll
    <2> DEFINE U == UNION {AskedBy(u) : u \in {dec[d].turn}}
    <2>7. U \subseteq {x \in Decisions : Undelivered(x)} /\ C = Close(U)
      BY <1>1, AskedAreUndelivered DEF CloseAll
    <2> HIDE DEF C, U
    <2>3. \A x \in Decisions : C[x].dv = dec[x].dv \/ (C[x].dv \in {"ambiguous", "cancelled"} /\ dec[x].st # "none")
      BY <1>1, <2>7, ClosedRows DEF Undelivered
    <2> HIDE DEF C
    <2>4. \E v \in {"ambiguous", "cancelled"} : dec' = [C EXCEPT ![d].dv = v]
      BY <1>1 DEF EndDelivery, C
    <2>5. dec[d].st # "none"
      BY <1>1 DEF EndDelivery, Delivering, DecisionDue
    <2>6. PICK v \in {"ambiguous", "cancelled"} : dec' = [C EXCEPT ![d].dv = v]
      BY <2>4
    <2>8. \A x \in Decisions : /\ dec'[x].turn = C[x].turn /\ dec'[x].cmd = C[x].cmd /\ dec'[x].st = C[x].st
                              /\ dec'[x].dv = IF x = d THEN v ELSE C[x].dv
      BY <2>1, <2>6 DEF DecRows
    <2>9. dec' \in [Decisions -> DecRows]
      <3>1. C[d] \in DecRows
        BY <2>1
      <3>2. [C[d] EXCEPT !.dv = v] \in DecRows
        BY <3>1 DEF DecRows
      <3>3. QED
        BY <2>1, <2>6, <3>2
    <2>10. QED
      BY <1>1, <2>2, <2>3, <2>5, <2>8, <2>9 DEF QuestionsAgree
  <1>4. LeasesTyped'
    BY <1>1, FreedLease DEF EndDelivery
  <1>5. OpsHold' /\ RestTyped'
    BY KeptParts DEF EndDelivery, Kept
  <1>6. QED
    BY <1>2, <1>3, <1>4, <1>5, RowsByPart DEF TurnsTyped, OpsHold, QuestionsHold

LEMMA BootRows ==
  ASSUME RowsInv, NEW i \in Slots, Boot(i)
  PROVE  RowsInv'
  <1>1. TypeOK /\ OpsAgree /\ QuestionsAgree /\ turn \in [Turns -> TurnRows] /\ op \in [Slots -> OpRows] /\ dec \in [Decisions -> DecRows] /\ LeasesTyped /\ RestTyped
    BY RowsByPart
  <1>2. op' \in [Slots -> OpRows] /\ OpsAgree'
    BY <1>1 DEF Boot, OpRows, OpsAgree
  <1>3. RestTyped'
    BY <1>1 DEF Boot, RestTyped
  <1>4. TurnsTyped' /\ QuestionsHold' /\ LeasesTyped'
    BY KeptParts DEF Boot, Kept
  <1>5. QED
    BY <1>2, <1>3, <1>4, RowsByPart DEF TurnsTyped, OpsHold, QuestionsHold

LEMMA OperationDoneRows ==
  ASSUME RowsInv, NEW i \in Slots, OperationDone(i)
  PROVE  RowsInv'
  <1>1. TypeOK /\ OpsAgree /\ QuestionsAgree /\ turn \in [Turns -> TurnRows] /\ op \in [Slots -> OpRows] /\ dec \in [Decisions -> DecRows] /\ LeasesTyped /\ RestTyped
    BY RowsByPart
  <1>2. turn' \in [Turns -> TurnRows]
    <2> DEFINE u == op[i].turn
               r == [turn[u] EXCEPT !.st = "queued", !.late = FALSE]
    <2>1. CASE Retries(op[i])
      <3>1. u \in Turns
        BY <1>1, <2>1 DEF Retries, OpRows
      <3>2. r \in TurnRows
        <4>1. turn[u] \in TurnRows
          BY <1>1, <3>1
        <4> HIDE DEF u
        <4>2. QED
          BY <1>1, <4>1 DEF TurnRows
      <3>3. turn' = [turn EXCEPT ![u] = r]
        BY <1>1, <2>1 DEF OperationDone
      <3> HIDE DEF u, r
      <3>4. QED
        BY <1>1, <3>1, <3>2, <3>3
    <2>2. CASE ~Retries(op[i])
      BY <1>1, <2>2 DEF OperationDone
    <2>3. QED
      BY <1>1, <2>1, <2>2
  <1>3. op' \in [Slots -> OpRows] /\ OpsAgree'
    <2>1. CASE op' = [j \in Slots |-> NoOp]
      BY <1>1, <2>1, EmptySlot, WithoutRows DEF OpsAgree, NoOp, OpRows
    <2>2. CASE op' = Without(op, {i})
      BY <1>1, <2>2, DroppedAgrees
    <2>3. QED
      BY <1>1, <2>1, <2>2 DEF OperationDone
  <1>4. LeasesTyped'
    BY <1>1, FreedLease DEF OperationDone
  <1>5. RestTyped'
    BY <1>1 DEF OperationDone, RestTyped
  <1>6. QuestionsHold'
    BY KeptParts DEF OperationDone, Kept
  <1>7. QED
    BY <1>2, <1>3, <1>4, <1>5, <1>6, RowsByPart DEF TurnsTyped, OpsHold, QuestionsHold

LEMMA OperationFailedRows ==
  ASSUME RowsInv, NEW i \in Slots, NEW how \in {"failed", "interrupted"}, OperationFailed(i, how)
  PROVE  RowsInv'
  <1>1. TypeOK /\ OpsAgree /\ QuestionsAgree /\ turn \in [Turns -> TurnRows] /\ op \in [Slots -> OpRows] /\ dec \in [Decisions -> DecRows] /\ LeasesTyped /\ RestTyped
    BY RowsByPart
  <1>2. turn' \in [Turns -> TurnRows]
    BY <1>1, EndedAgrees DEF OperationFailed, States
  <1>3. op' \in [Slots -> OpRows] /\ OpsAgree'
    BY <1>1, DroppedAgrees DEF OperationFailed
  <1>4. LeasesTyped'
    BY <1>1, FreedLease DEF OperationFailed
  <1>5. QuestionsHold' /\ RestTyped'
    BY KeptParts DEF OperationFailed, Kept
  <1>6. QED
    BY <1>2, <1>3, <1>4, <1>5, RowsByPart DEF TurnsTyped, OpsHold, QuestionsHold

LEMMA ReleaseRows ==
  ASSUME RowsInv, NEW l \in Lanes, Release(l)
  PROVE  RowsInv'
  <1>1. TypeOK /\ OpsAgree /\ QuestionsAgree /\ turn \in [Turns -> TurnRows] /\ op \in [Slots -> OpRows] /\ dec \in [Decisions -> DecRows] /\ LeasesTyped /\ RestTyped
    BY RowsByPart
  <1>2. LeasesTyped'
    BY <1>1, FreedLease DEF Release
  <1>3. TurnsTyped' /\ OpsHold' /\ QuestionsHold' /\ RestTyped'
    BY KeptParts DEF Release, Kept
  <1>4. QED
    BY <1>2, <1>3, RowsByPart DEF TurnsTyped, OpsHold, QuestionsHold

LEMMA LoseRows ==
  ASSUME RowsInv, NEW l \in Lanes, Lose(l)
  PROVE  RowsInv'
  <1>1. TypeOK /\ OpsAgree /\ QuestionsAgree /\ turn \in [Turns -> TurnRows] /\ op \in [Slots -> OpRows] /\ dec \in [Decisions -> DecRows] /\ LeasesTyped /\ RestTyped
    BY RowsByPart
  <1>2. LeasesTyped'
    BY <1>1, FreedLease DEF Lose
  <1>3. TurnsTyped' /\ OpsHold' /\ QuestionsHold' /\ RestTyped'
    BY KeptParts DEF Lose, Kept
  <1>4. QED
    BY <1>2, <1>3, RowsByPart DEF TurnsTyped, OpsHold, QuestionsHold

LEMMA DisableRows ==
  ASSUME RowsInv, Disable
  PROVE  RowsInv'
  <1>1. TypeOK /\ OpsAgree /\ QuestionsAgree /\ turn \in [Turns -> TurnRows] /\ op \in [Slots -> OpRows] /\ dec \in [Decisions -> DecRows] /\ LeasesTyped /\ RestTyped
    BY RowsByPart
  <1>2. turn' \in [Turns -> TurnRows]
    BY <1>1, EndedAgrees DEF Disable, States
  <1>3. op' \in [Slots -> OpRows] /\ OpsAgree'
    BY <1>1, DroppedAgrees DEF Disable
  <1>4. dec' \in [Decisions -> DecRows] /\ QuestionsAgree'
    BY <1>1, ClosedAgrees DEF Disable, LeftOpen
  <1>5. LeasesTyped'
    BY <1>1 DEF Disable, LeasesTyped, LeaseRows, Idle
  <1>6. RestTyped'
    <2>1. events' \in 0..MaxEvents
      BY <1>1, BoundAssumption DEF Disable, Counted, RestTyped
    <2>2. gate' = FALSE /\ box' = box /\ retirement' = retirement
      BY <1>1 DEF Disable
    <2>3. QED
      BY <1>1, <2>1, <2>2 DEF RestTyped
  <1>7. QED
    BY <1>2, <1>3, <1>4, <1>5, <1>6, RowsByPart DEF TurnsTyped, OpsHold, QuestionsHold

LEMMA EnableRows ==
  ASSUME RowsInv, Enable
  PROVE  RowsInv'
  <1>1. TypeOK /\ OpsAgree /\ QuestionsAgree /\ turn \in [Turns -> TurnRows] /\ op \in [Slots -> OpRows] /\ dec \in [Decisions -> DecRows] /\ LeasesTyped /\ RestTyped
    BY RowsByPart
  <1>2. RestTyped'
    BY <1>1 DEF Enable, RestTyped
  <1>3. TurnsTyped' /\ OpsHold' /\ QuestionsHold' /\ LeasesTyped'
    BY KeptParts DEF Enable, Kept
  <1>4. QED
    BY <1>2, <1>3, RowsByPart DEF TurnsTyped, OpsHold, QuestionsHold

LEMMA BoxAgesRows ==
  ASSUME RowsInv, BoxAges
  PROVE  RowsInv'
  <1>1. TypeOK /\ OpsAgree /\ QuestionsAgree /\ turn \in [Turns -> TurnRows] /\ op \in [Slots -> OpRows] /\ dec \in [Decisions -> DecRows] /\ LeasesTyped /\ RestTyped
    BY RowsByPart
  <1>2. RestTyped'
    BY <1>1, BoundAssumption DEF BoxAges, Counted, RestTyped
  <1>3. TurnsTyped' /\ OpsHold' /\ QuestionsHold' /\ LeasesTyped'
    BY KeptParts DEF BoxAges, Kept
  <1>4. QED
    BY <1>2, <1>3, RowsByPart DEF TurnsTyped, OpsHold, QuestionsHold

LEMMA BoxArchivedRows ==
  ASSUME RowsInv, BoxArchived
  PROVE  RowsInv'
  <1>1. TypeOK /\ OpsAgree /\ QuestionsAgree /\ turn \in [Turns -> TurnRows] /\ op \in [Slots -> OpRows] /\ dec \in [Decisions -> DecRows] /\ LeasesTyped /\ RestTyped
    BY RowsByPart
  <1>2. RestTyped'
    BY <1>1, BoundAssumption DEF BoxArchived, Counted, RestTyped
  <1>3. TurnsTyped' /\ OpsHold' /\ QuestionsHold' /\ LeasesTyped'
    BY KeptParts DEF BoxArchived, Kept
  <1>4. QED
    BY <1>2, <1>3, RowsByPart DEF TurnsTyped, OpsHold, QuestionsHold

LEMMA ExpireRows ==
  ASSUME RowsInv, NEW d \in Decisions, Expire(d)
  PROVE  RowsInv'
  <1>1. TypeOK /\ OpsAgree /\ QuestionsAgree /\ turn \in [Turns -> TurnRows] /\ op \in [Slots -> OpRows] /\ dec \in [Decisions -> DecRows] /\ LeasesTyped /\ RestTyped
    BY RowsByPart
  <1>2. dec' \in [Decisions -> DecRows] /\ QuestionsAgree'
    BY <1>1 DEF Expire, DecRows, QuestionsAgree
  <1>3. TurnsTyped' /\ OpsHold' /\ LeasesTyped' /\ RestTyped'
    BY KeptParts DEF Expire, Kept
  <1>4. QED
    BY <1>2, <1>3, RowsByPart DEF TurnsTyped, OpsHold, QuestionsHold

LEMMA LateRows ==
  ASSUME RowsInv, NEW t \in Turns, Late(t)
  PROVE  RowsInv'
  <1>1. TypeOK /\ OpsAgree /\ QuestionsAgree /\ turn \in [Turns -> TurnRows] /\ op \in [Slots -> OpRows] /\ dec \in [Decisions -> DecRows] /\ LeasesTyped /\ RestTyped
    BY RowsByPart
  <1>2. turn' \in [Turns -> TurnRows]
    <2>1. turn[t] \in TurnRows /\ turn' = [turn EXCEPT ![t] = [turn[t] EXCEPT !.late = TRUE]]
      BY <1>1 DEF Late
    <2>2. [turn[t] EXCEPT !.late = TRUE] \in TurnRows
      BY <2>1 DEF TurnRows
    <2>3. QED
      BY <1>1, <2>1, <2>2
  <1>3. OpsHold' /\ QuestionsHold' /\ LeasesTyped' /\ RestTyped'
    BY KeptParts DEF Late, Kept
  <1>4. QED
    BY <1>2, <1>3, RowsByPart DEF TurnsTyped, OpsHold, QuestionsHold
-----------------------------------------------------------------------------
(* What a step does, as the invariants see it.                               *)

\* Every operation stays, leaves its slot, or is a Start the queue has just filed.
SameOp(i) == op'[i].kind = op[i].kind /\ op'[i].by = op[i].by /\ op'[i].turn = op[i].turn /\ op'[i].st = op[i].st
OpsGo == \A i \in Slots : SameOp(i) \/ op'[i] = NoOp \/ TurnStart(op'[i])

\* The turns of T move to how; nothing else about a turn's place changes.
TurnsGo(T, how) == \A t \in Turns : turn'[t].n = turn[t].n /\ turn'[t].st = IF t \in T THEN how ELSE turn[t].st

\* While a delete runs, nothing is queued, filed or granted.
Deleting == \E i \in Slots : op[i].kind = "delete" /\ op[i].st = "running"
StillWhileDeleting ==
  Deleting => /\ \A t \in Turns : turn'[t].st = "queued" => turn[t].st \in Active \cup {"queued"}
              /\ \A i \in Slots : op'[i].kind # "none" => op[i].kind # "none"
              /\ lease["routine"] = Idle => lease'["routine"] = Idle

\* No turn begins to run and none leaves the state interrupted.
NoNewActive == \A t \in Turns : turn'[t].st \in Active => turn[t].st \in Active
InterruptedStay == \A t \in Turns : turn[t].st = "interrupted" => turn'[t].st = "interrupted"
RetirementStays == retirement # "active" => retirement' # "active"

\* While a delete runs there is no turn to work on.
LEMMA NothingWhileDeleting ==
  ASSUME WorkInv, Deleting
  PROVE  \A t \in Turns : turn[t].st \notin Active /\ turn[t].st # "queued"
  BY DEF WorkInv, Deleting, DeleteRunsAlone

LEMMA OpsKeep ==
  ASSUME RowsInv, RowsInv', OpsGo
  PROVE  /\ \A i \in Slots : op'[i].st = "running" => op[i].st = "running" /\ op'[i].kind = op[i].kind /\ OpLane(op'[i]) = OpLane(op[i])
         /\ \A i \in Slots : op'[i].kind = "delete" => op[i].kind = "delete"
         /\ \A i \in Slots : op'[i].kind # "none" /\ Retries(op'[i]) =>
              op[i].kind # "none" /\ Retries(op[i]) /\ op'[i].turn = op[i].turn
  <1>1. NoOp.kind = "none" /\ NoOp.st = "pending"
    BY EmptySlot
  <1>2. \A i \in Slots : SameOp(i) => OpLane(op'[i]) = OpLane(op[i]) /\ (Retries(op'[i]) <=> Retries(op[i]))
    BY DEF SameOp, OpLane, Retries
  <1>3. \A i \in Slots : TurnStart(op'[i]) => op'[i].kind = "start" /\ op'[i].st = "pending" /\ ~Retries(op'[i])
    BY DEF TurnStart, Retries
  <1>4. QED
    BY <1>1, <1>2, <1>3 DEF OpsGo, SameOp

\* A step of this shape keeps the invariants of the work.
LEMMA WorkKept ==
  ASSUME RowsInv, RowsInv', WorkInv, OpsGo, NoNewActive, InterruptedStay, RetirementStays, StillWhileDeleting
  PROVE  WorkInv'
  <1> USE OpsKeep
  <1>1. BoxWorkIsAlone'
    BY DEF WorkInv, BoxWorkIsAlone, NoNewActive
  <1>2. RetriesWait'
    <2> SUFFICES ASSUME NEW i \in Live(op'), Retries(op'[i])
                 PROVE  /\ turn'[op'[i].turn].st = "interrupted"
                        /\ \A j \in Live(op') : Retries(op'[j]) /\ op'[j].turn = op'[i].turn => j = i
      BY DEF RetriesWait, Live
    <2>1. \A j \in Live(op') : j \in Slots /\ op'[j].kind # "none"
      BY DEF Live
    <2>2. \A j \in Live(op') : Retries(op'[j]) => j \in Live(op) /\ Retries(op[j]) /\ op'[j].turn = op[j].turn
      BY <2>1 DEF Live
    <2>3. /\ turn[op[i].turn].st = "interrupted"
          /\ \A j \in Live(op) : Retries(op[j]) /\ op[j].turn = op[i].turn => j = i
      BY <2>2 DEF WorkInv, RetriesWait
    <2>4. op[i].turn \in Turns
      BY <2>1, <2>2 DEF RowsInv, TypeOK, OpRows, Retries
    <2>5. QED
      BY <2>2, <2>3, <2>4 DEF InterruptedStay
  <1>3. DeleteWasAsked'
    BY DEF WorkInv, DeleteWasAsked, RetirementStays
  <1>4. DeleteRunsAlone'
    <2> SUFFICES ASSUME NEW i \in Slots, op'[i].kind = "delete", op'[i].st = "running"
                 PROVE  /\ \A t \in Turns : turn'[t].st \notin Active \cup {"queued"}
                        /\ Live(op') = {i} /\ lease'["routine"] = Idle
      BY DEF DeleteRunsAlone
    <2>1. op[i].kind = "delete" /\ op[i].st = "running" /\ Deleting
      BY DEF Deleting
    <2>2. (\A t \in Turns : turn[t].st \notin Active \cup {"queued"}) /\ Live(op) = {i} /\ lease["routine"] = Idle
      BY <2>1 DEF WorkInv, DeleteRunsAlone
    <2>3. Live(op') \subseteq Live(op) /\ i \in Live(op')
      BY <2>1 DEF StillWhileDeleting, Live
    <2>4. QED
      BY <2>1, <2>2, <2>3 DEF StillWhileDeleting, NoNewActive
  <1>5. QED
    BY <1>1, <1>2, <1>3, <1>4 DEF WorkInv

\* A question whose answer is still to be written or confirmed.
Owed(d) == dec[d].st # "none" /\ dec[d].dv \in {"pending", "write_intent"}
SameQuestion(d) ==
  /\ dec'[d].turn = dec[d].turn /\ dec'[d].n = dec[d].n /\ (dec'[d].st # "none" <=> dec[d].st # "none")
  /\ Owed(d)' => Owed(d) \/ DecisionDue(d)
\* A turn goes on, or ends with the questions of its attempt.
GoesOn(t) == /\ turn'[t].n = turn[t].n
             /\ turn[t].st \in Active => turn'[t].st \in Active
             /\ turn'[t].st = "needs_input" =>
                  turn[t].st = "needs_input" /\ \A d \in AskedBy(t) : dec'[d].dv \notin {"delivered", "cancelled"}
Ends(t) == /\ turn'[t].st # "needs_input"
           /\ turn[t].st \in Active => \A d \in AskedBy(t) : dec'[d].dv \notin {"pending", "write_intent"}
QuestionsFollow == (\A d \in Decisions : SameQuestion(d)) /\ \A t \in Turns : GoesOn(t) \/ Ends(t)

\* A step of this shape keeps the invariants of the questions.
LEMMA QuestionsKept ==
  ASSUME RowsInv, QuestionsInv, QuestionsFollow
  PROVE  QuestionsInv'
  <1>1. \A d \in Decisions : dec[d].st # "none" => dec[d].turn \in Turns
    BY DEF RowsInv, QuestionsAgree
  <1>2. DecisionsFollowAttempt'
    <2> SUFFICES ASSUME NEW d \in Decisions, Owed(d)'
                 PROVE  turn'[dec'[d].turn].st \in Active /\ turn'[dec'[d].turn].n = dec'[d].n
      BY DEF DecisionsFollowAttempt, Owed
    <2> DEFINE t == dec[d].turn
    <2>1. dec'[d].turn = t /\ dec'[d].n = dec[d].n /\ (Owed(d) \/ DecisionDue(d)) /\ dec[d].st # "none"
      BY DEF QuestionsFollow, SameQuestion, Owed, DecisionDue
    <2>2. t \in Turns /\ turn[t].st \in Active /\ turn[t].n = dec[d].n /\ dec[d].dv \notin {"delivered", "cancelled"}
      BY <1>1, <2>1 DEF QuestionsInv, DecisionsFollowAttempt, Owed, DecisionDue
    <2>3. d \in AskedBy(t)
      BY <2>1, <2>2 DEF AskedBy, Undelivered
    <2> HIDE DEF t
    <2>4. ~Ends(t)
      BY <2>2, <2>3 DEF Ends, Owed
    <2>5. GoesOn(t)
      BY <2>2, <2>4 DEF QuestionsFollow
    <2>6. QED
      BY <2>1, <2>2, <2>5 DEF GoesOn
  <1>3. WaitingHasQuestion'
    <2> SUFFICES ASSUME NEW t \in Turns, turn'[t].st = "needs_input" PROVE AskedBy(t)' # {}
      BY DEF WaitingHasQuestion
    <2>1. GoesOn(t)
      BY DEF QuestionsFollow, Ends
    <2>2. turn[t].st = "needs_input" /\ turn'[t].n = turn[t].n
      BY <2>1 DEF GoesOn
    <2>3. PICK d \in Decisions : d \in AskedBy(t)
      BY <2>2 DEF QuestionsInv, WaitingHasQuestion, AskedBy
    <2>4. dec'[d].dv \notin {"delivered", "cancelled"}
      BY <2>1, <2>3 DEF GoesOn
    <2>5. SameQuestion(d) /\ dec[d].st # "none" /\ dec[d].turn = t /\ dec[d].n = turn[t].n
      BY <2>3 DEF QuestionsFollow, AskedBy, Undelivered
    <2>6. QED
      BY <2>2, <2>4, <2>5 DEF SameQuestion, AskedBy, Undelivered
  <1>4. QED
    BY <1>2, <1>3 DEF QuestionsInv
-----------------------------------------------------------------------------
(* The shapes that actions share. *)

LEMMA EndingIsGoing ==
  ASSUME RowsInv, NEW T, NEW how \in States, turn' = End(turn, T, how)
  PROVE  TurnsGo(T, how)
  BY EndedRows DEF RowsInv, TypeOK, TurnsGo

LEMMA SameTurnsGo ==
  ASSUME turn' = turn
  PROVE  TurnsGo({}, "queued")
  BY DEF TurnsGo

LEMMA GoingOps ==
  ASSUME RowsInv
  PROVE  /\ op' = op => OpsGo
         /\ op' = Base => OpsGo
         /\ \A S : op' = Without(op, S) => OpsGo
         /\ \A S : op' = Without(Base, S) => OpsGo
  <1>1. op \in [Slots -> OpRows] /\ Base \in [Slots -> OpRows] /\ TypeOK
    BY BaseRows DEF RowsInv, TypeOK
  <1>2. QED
    BY <1>1, BaseRows, WithoutRows DEF OpsGo, SameOp

\* Turns that move but for a retry, none of which starts to run.
LEMMA TurnsKept ==
  ASSUME NEW T, NEW how, TurnsGo(T, how),
         how \in Active => \A t \in T : turn[t].st \in Active,
         how # "interrupted" => \A t \in T : turn[t].st # "interrupted"
  PROVE  NoNewActive /\ InterruptedStay
  BY DEF TurnsGo, NoNewActive, InterruptedStay

\* A step that leaves the leases, the operations and the queue as they are, or shorter, is
\* still while a delete runs.
LEMMA StillStep ==
  ASSUME RowsInv, WorkInv, OpsGo, NEW T, NEW how, TurnsGo(T, how),
         Deleting => \A t \in T : how # "queued",
         Deleting => \A i \in Slots : ~TurnStart(op'[i]) \/ op[i].kind # "none",
         Deleting => (lease["routine"] = Idle => lease'["routine"] = Idle)
  PROVE  StillWhileDeleting
  BY EmptySlot DEF StillWhileDeleting, OpsGo, SameOp, TurnsGo

\* While a delete runs a claim files nothing.
LEMMA NothingFiled ==
  ASSUME RowsInv, WorkInv, Deleting
  PROVE  \A i \in Slots : Base[i] = op[i] \/ Base[i] = NoOp
  BY NothingWhileDeleting, BaseRows DEF RowsInv

\* Ending turns with the questions their attempts have asked.
LEMMA EndedQuestions ==
  ASSUME RowsInv, NEW T, NEW how, how \notin Active, TurnsGo(T, how), dec' = CloseAll(T)
  PROVE  QuestionsFollow
  <1> DEFINE U == UNION {AskedBy(t) : t \in T}
  <1>1. TypeOK /\ dec' = Close(U)
    BY DEF RowsInv, CloseAll
  <1>2. \A d \in U : Undelivered(d) /\ dec[d].turn \in T
    BY DEF AskedBy
  <1>3. \A t \in T : AskedBy(t) \subseteq U /\ AskedBy(t) \subseteq Decisions
    BY DEF AskedBy
  <1>4. \A t : t \notin T => \A d \in AskedBy(t) : d \notin U /\ d \in Decisions
    BY <1>2 DEF AskedBy
  <1> HIDE DEF U
  <1>5. \A d \in Decisions : SameQuestion(d)
    BY <1>1, ClosedRows DEF SameQuestion, Owed
  <1>6. \A t \in Turns : t \in T => Ends(t)
    BY <1>1, <1>3, ClosedRows DEF Ends, TurnsGo, Active
  <1>7. \A t \in Turns : t \notin T => GoesOn(t)
    BY <1>1, <1>4, ClosedRows DEF GoesOn, TurnsGo, AskedBy, Undelivered
  <1>8. QED
    BY <1>5, <1>6, <1>7 DEF QuestionsFollow

\* Leaving the questions alone while no turn that runs ends.
LEMMA LeftQuestions ==
  ASSUME NEW T, NEW how, TurnsGo(T, how), how # "needs_input",
         how \notin Active => \A t \in T : turn[t].st \notin Active,
         \A d \in Decisions : /\ dec'[d].turn = dec[d].turn /\ dec'[d].n = dec[d].n
                              /\ (dec'[d].st # "none" <=> dec[d].st # "none")
                              /\ dec'[d].dv = dec[d].dv \/ (DecisionDue(d) /\ dec'[d].dv \notin {"delivered", "cancelled"})
  PROVE  QuestionsFollow
  <1>1. \A d \in Decisions : SameQuestion(d)
    BY DEF SameQuestion, Owed
  <1>2. \A t \in Turns : GoesOn(t)
    BY DEF GoesOn, TurnsGo, AskedBy, Undelivered, Active
  <1>3. QED
    BY <1>1, <1>2 DEF QuestionsFollow
-----------------------------------------------------------------------------
(* Every step keeps the invariant.                                           *)

OpsQuiet == OpsGo /\ (Deleting => \A i \in Slots : op'[i].kind # "none" => op[i].kind # "none")
LeaseQuiet == Deleting => (lease["routine"] = Idle => lease'["routine"] = Idle)

LEMMA PlainStep ==
  ASSUME CompanionInv, RowsInv', OpsQuiet, LeaseQuiet, RetirementStays, QuestionsFollow,
         NEW T, NEW how, TurnsGo(T, how),
         how \in Active => \A t \in T : turn[t].st \in Active,
         how # "interrupted" => \A t \in T : turn[t].st # "interrupted",
         Deleting => how # "queued"
  PROVE  CompanionInv'
  <1>1. RowsInv /\ WorkInv /\ QuestionsInv
    BY DEF CompanionInv
  <1>2. NoNewActive /\ InterruptedStay
    BY TurnsKept
  <1>3. StillWhileDeleting
    BY DEF OpsQuiet, LeaseQuiet, StillWhileDeleting, TurnsGo
  <1>4. WorkInv'
    BY <1>1, <1>2, <1>3, WorkKept DEF OpsQuiet
  <1>5. QuestionsInv'
    BY <1>1, QuestionsKept
  <1>6. QED
    BY <1>4, <1>5 DEF CompanionInv

\* Dropping operations and preparing a claim file nothing while a delete runs.
LEMMA QuietOps ==
  ASSUME CompanionInv
  PROVE  /\ op' = op => OpsQuiet
         /\ op' = Base => OpsQuiet
         /\ \A S : op' = Without(op, S) => OpsQuiet
         /\ \A S : op' = Without(Base, S) => OpsQuiet
  <1>1. RowsInv /\ WorkInv /\ op \in [Slots -> OpRows] /\ Base \in [Slots -> OpRows]
    BY BaseRows DEF CompanionInv, RowsInv, TypeOK
  <1>2. Deleting => \A i \in Slots : Base[i] = op[i] \/ Base[i] = NoOp
    BY <1>1, NothingFiled
  <1>3. QED
    BY <1>1, <1>2, GoingOps, WithoutRows, EmptySlot DEF OpsQuiet

\* A lane is freed, or granted to a turn or a question, which none is while a delete runs.
LEMMA QuietLease ==
  ASSUME CompanionInv
  PROVE  /\ lease' = lease => LeaseQuiet
         /\ \A l : FreeLane(l) => LeaseQuiet
         /\ ~Deleting => LeaseQuiet
  <1>1. LeasesTyped
    BY RowsByPart DEF CompanionInv
  <1>2. ASSUME NEW l, FreeLane(l) PROVE LeaseQuiet
    <2>1. \A k \in Lanes : lease'[k] = IF k = l THEN Idle ELSE lease[k]
      BY <1>1, <1>2, FreedLease
    <2>2. QED
      BY <2>1 DEF LeaseQuiet, Lanes
  <1>3. QED
    BY <1>2 DEF LeaseQuiet

LEMMA WorkMeansNoDelete ==
  ASSUME CompanionInv, NEW t \in Turns, turn[t].st \in Active \cup {"queued"}
  PROVE  ~Deleting
  BY NothingWhileDeleting DEF CompanionInv

\* A question that is due belongs to a turn that runs.
LEMMA DueTurn ==
  ASSUME CompanionInv, NEW d \in Decisions, DecisionDue(d)
  PROVE  /\ dec[d].turn \in Turns /\ turn[dec[d].turn].st \in Active /\ ~Deleting
         /\ dec[d].n = turn[dec[d].turn].n /\ Undelivered(d) /\ d \in AskedBy(dec[d].turn)
  <1>1. dec[d].turn \in Turns
    BY DEF CompanionInv, RowsInv, QuestionsAgree, DecisionDue
  <1>2. turn[dec[d].turn].st \in Active
    BY DEF DecisionDue
  <1>3. ~Deleting
    BY <1>1, <1>2, WorkMeansNoDelete
  <1>4. QED
    BY <1>1, <1>2, <1>3 DEF DecisionDue, Undelivered, AskedBy

LEMMA EnqueueKeeps ==
  ASSUME CompanionInv, NEW t \in Turns, Enqueue(t)
  PROVE  CompanionInv'
  <1>1. CompanionInv /\ RowsInv /\ WorkInv /\ QuestionsInv /\ RowsInv'
    BY EnqueueRows DEF CompanionInv
  <1>2. ~Deleting /\ turn[t].st = "none"
    BY <1>1 DEF Enqueue, Deleting, WorkInv, DeleteWasAsked
  <1>3. TurnsGo({t}, "queued")
    BY <1>1 DEF Enqueue, TurnsGo, RowsInv, TypeOK, TurnRows
  <1>4. OpsQuiet
    BY <1>1, <1>2, StartFiled DEF Enqueue, OpsQuiet, OpsGo, SameOp, RowsInv, TypeOK
  <1>5. LeaseQuiet
    BY QuietLease DEF Enqueue
  <1>6. RetirementStays
    BY DEF Enqueue, RetirementStays
  <1>7. QuestionsFollow
    <2>1. \A x \in Decisions : /\ dec'[x].turn = dec[x].turn /\ dec'[x].n = dec[x].n /\ dec'[x].dv = dec[x].dv
                               /\ (dec'[x].st # "none" <=> dec[x].st # "none")
      BY <1>1 DEF Enqueue, RowsInv, TypeOK, DecRows
    <2>2. QED
      BY <1>2, <1>3, <2>1, LeftQuestions DEF Active
  <1>8. QED
    BY <1>1, <1>2, <1>4, <1>3, <1>5, <1>6, <1>7, PlainStep DEF Enqueue, Active

LEMMA AnswerKeeps ==
  ASSUME CompanionInv, NEW d \in Decisions, Answer(d)
  PROVE  CompanionInv'
  <1>1. CompanionInv /\ RowsInv /\ WorkInv /\ QuestionsInv /\ RowsInv'
    BY AnswerRows DEF CompanionInv
  <1>2. TurnsGo({}, "failed")
    BY DEF Answer, TurnsGo
  <1>3. OpsQuiet
    BY QuietOps DEF Answer
  <1>4. LeaseQuiet
    BY QuietLease DEF Answer
  <1>5. RetirementStays
    BY DEF Answer, RetirementStays
  <1>6. QuestionsFollow
    <2>1. \A x \in Decisions : /\ dec'[x].turn = dec[x].turn /\ dec'[x].n = dec[x].n
                               /\ (dec'[x].st # "none" <=> dec[x].st # "none")
                               /\ dec'[x].dv = dec[x].dv \/ (DecisionDue(x) /\ dec'[x].dv \notin {"delivered", "cancelled"})
      BY <1>1 DEF Answer, RowsInv, TypeOK, DecRows, Delivering
    <2>2. QED
      BY <1>2, <2>1, LeftQuestions DEF Active
  <1>7. QED
    BY <1>1, <1>3, <1>2, <1>4, <1>5, <1>6, PlainStep DEF Answer, Active

LEMMA DropRoutineTurnKeeps ==
  ASSUME CompanionInv, NEW t \in Turns, DropRoutineTurn(t)
  PROVE  CompanionInv'
  <1>1. CompanionInv /\ RowsInv /\ WorkInv /\ QuestionsInv /\ RowsInv'
    BY DropRoutineTurnRows DEF CompanionInv
  <1>2. TurnsGo({t}, "cancelled")
    BY <1>1, EndingIsGoing DEF DropRoutineTurn, States
  <1>3. OpsQuiet
    BY QuietOps DEF DropRoutineTurn
  <1>4. LeaseQuiet
    BY QuietLease DEF DropRoutineTurn
  <1>5. RetirementStays
    BY DEF DropRoutineTurn, RetirementStays
  <1>6. QuestionsFollow
    BY <1>2, LeftQuestions DEF DropRoutineTurn, Active
  <1>7. QED
    BY <1>1, <1>3, <1>2, <1>4, <1>5, <1>6, PlainStep DEF DropRoutineTurn, Active

LEMMA FenceStartKeeps ==
  ASSUME CompanionInv, FenceStart
  PROVE  CompanionInv'
  <1>1. CompanionInv /\ RowsInv /\ WorkInv /\ QuestionsInv /\ RowsInv'
    BY FenceStartRows DEF CompanionInv
  <1>2. PICK w \in Found("main", "op") :
            /\ Base[w.id].kind = "start" /\ op' = Without(Base, {w.id})
            /\ turn' = End(turn, TakenAlong(Base[w.id]), "interrupted")
    BY DEF FenceStart
  <1>3. \A t \in Turns : turn[t].st \notin Active
    <2>1. w.id \in Slots /\ OpDue("main", Base[w.id]) /\ ActiveIn("main") = {}
      BY <1>1, <1>2, FoundOperation DEF RowsInv, Lanes
    <2>2. ActiveIn("routine") = {}
      BY <1>2, <2>1 DEF OpDue, MayUseBox, Quiescent, Lifecycle
    <2>3. QED
      BY <2>1, <2>2 DEF ActiveIn, TurnsOf, Turns
  <1>4. TurnsGo(TakenAlong(Base[w.id]), "interrupted")
    BY <1>1, <1>2, EndingIsGoing DEF States
  <1>5. OpsQuiet
    BY <1>2, QuietOps
  <1>6. LeaseQuiet
    BY QuietLease DEF FenceStart
  <1>7. RetirementStays
    BY DEF FenceStart, RetirementStays
  <1>8. QuestionsFollow
    <2>1. \A t \in TakenAlong(Base[w.id]) : t \in Turns
      BY DEF TakenAlong
    <2>2. QED
      BY <1>3, <1>4, <2>1, LeftQuestions DEF FenceStart, Active
  <1>9. QED
    BY <1>1, <1>3, <1>5, <1>4, <1>6, <1>7, <1>8, PlainStep DEF FenceStart, Active

LEMMA FenceAttemptKeeps ==
  ASSUME CompanionInv, NEW l \in Lanes, FenceAttempt(l)
  PROVE  CompanionInv'
  <1>1. CompanionInv /\ RowsInv /\ WorkInv /\ QuestionsInv /\ RowsInv'
    BY FenceAttemptRows DEF CompanionInv
  <1>2. PICK w \in Found(l, "attempt") :
            /\ dec' = CloseAll({w.id}) /\ op' = Base
            /\ turn' = [End(turn, {w.id}, "interrupted") EXCEPT ![w.id].disp = "ambiguous"]
    BY DEF FenceAttempt
  <1>3. TurnsGo({w.id}, "interrupted")
    <2>1. /\ End(turn, {w.id}, "interrupted") \in [Turns -> TurnRows]
          /\ \A t \in Turns : /\ End(turn, {w.id}, "interrupted")[t].st = IF t \in {w.id} THEN "interrupted" ELSE turn[t].st
                              /\ End(turn, {w.id}, "interrupted")[t].n = turn[t].n
      BY <1>1, EndedRows DEF RowsInv, TypeOK, States
    <2> DEFINE E == End(turn, {w.id}, "interrupted")
    <2>2. turn' = [E EXCEPT ![w.id].disp = "ambiguous"] /\ E \in [Turns -> TurnRows]
      BY <1>2, <2>1
    <2>3. \A t \in Turns : /\ E[t].st = IF t \in {w.id} THEN "interrupted" ELSE turn[t].st
                           /\ E[t].n = turn[t].n
      BY <2>1
    <2> HIDE DEF E
    <2>4. \A t \in Turns : turn'[t].st = E[t].st /\ turn'[t].n = E[t].n
      BY <2>2 DEF TurnRows
    <2>5. QED
      BY <2>3, <2>4 DEF TurnsGo
  <1>4. OpsQuiet
    BY <1>2, QuietOps
  <1>5. LeaseQuiet
    BY QuietLease DEF FenceAttempt
  <1>6. RetirementStays
    BY DEF FenceAttempt, RetirementStays
  <1>7. QuestionsFollow
    BY <1>1, <1>2, <1>3, EndedQuestions DEF Active
  <1>8. QED
    BY <1>1, <1>2, FoundAttempt, FoundDecision, <1>4, <1>3, <1>5, <1>6, <1>7, PlainStep DEF FenceAttempt, Active

LEMMA FenceDecisionKeeps ==
  ASSUME CompanionInv, NEW l \in Lanes, FenceDecision(l)
  PROVE  CompanionInv'
  <1>1. CompanionInv /\ RowsInv /\ WorkInv /\ QuestionsInv /\ RowsInv'
    BY FenceDecisionRows DEF CompanionInv
  <1>2. PICK w \in Found(l, "decision") :
            /\ dec' = CloseAll({dec[w.id].turn}) /\ op' = Base
            /\ turn' = End(turn, {dec[w.id].turn}, "interrupted")
    BY DEF FenceDecision
  <1>3. TurnsGo({dec[w.id].turn}, "interrupted")
    BY <1>1, <1>2, EndingIsGoing DEF States
  <1>4. OpsQuiet
    BY <1>2, QuietOps
  <1>5. LeaseQuiet
    BY QuietLease DEF FenceDecision
  <1>6. RetirementStays
    BY DEF FenceDecision, RetirementStays
  <1>7. QuestionsFollow
    BY <1>1, <1>2, <1>3, EndedQuestions DEF Active
  <1>8. QED
    BY <1>1, <1>2, FoundAttempt, FoundDecision, <1>4, <1>3, <1>5, <1>6, <1>7, PlainStep DEF FenceDecision, Active

LEMMA ClaimDecisionKeeps ==
  ASSUME CompanionInv, NEW l \in Lanes, ClaimDecision(l)
  PROVE  CompanionInv'
  <1>1. CompanionInv /\ RowsInv /\ WorkInv /\ QuestionsInv /\ RowsInv'
    BY ClaimDecisionRows DEF CompanionInv
  <1>2. PICK w \in Found(l, "decision") :
            op' = Base /\ dec' = [dec EXCEPT ![w.id].st = IF @ = "overdue" THEN "expired" ELSE @]
    BY DEF ClaimDecision
  <1>3. ~Deleting
    BY <1>1, <1>2, FoundDecision, DueTurn
  <1>4. TurnsGo({}, "failed")
    BY DEF ClaimDecision, TurnsGo
  <1>5. OpsQuiet
    BY <1>2, QuietOps
  <1>6. LeaseQuiet
    BY <1>3, QuietLease
  <1>7. RetirementStays
    BY DEF ClaimDecision, RetirementStays
  <1>8. QuestionsFollow
    <2>1. \A x \in Decisions : /\ dec'[x].turn = dec[x].turn /\ dec'[x].n = dec[x].n /\ dec'[x].dv = dec[x].dv
                               /\ (dec'[x].st # "none" <=> dec[x].st # "none")
      BY <1>1, <1>2 DEF RowsInv, TypeOK, DecRows
    <2>2. QED
      BY <1>4, <2>1, LeftQuestions DEF Active
  <1>9. QED
    BY <1>1, <1>3, <1>5, <1>4, <1>6, <1>7, <1>8, PlainStep DEF ClaimDecision, Active

LEMMA ResumeAttemptKeeps ==
  ASSUME CompanionInv, NEW l \in Lanes, ResumeAttempt(l)
  PROVE  CompanionInv'
  <1>1. CompanionInv /\ RowsInv /\ WorkInv /\ QuestionsInv /\ RowsInv'
    BY ResumeAttemptRows DEF CompanionInv
  <1>2. PICK w \in Found(l, "attempt") : op' = Base
    BY DEF ResumeAttempt
  <1>3. ~Deleting
    BY <1>1, <1>2, FoundAttempt, WorkMeansNoDelete
  <1>4. TurnsGo({}, "failed")
    BY DEF ResumeAttempt, TurnsGo
  <1>5. OpsQuiet
    BY <1>2, QuietOps
  <1>6. LeaseQuiet
    BY <1>3, QuietLease
  <1>7. RetirementStays
    BY DEF ResumeAttempt, RetirementStays
  <1>8. QuestionsFollow
    BY <1>4, LeftQuestions DEF ResumeAttempt, Active
  <1>9. QED
    BY <1>1, <1>3, <1>5, <1>4, <1>6, <1>7, <1>8, PlainStep DEF ResumeAttempt, Active

LEMMA SweepOnlyKeeps ==
  ASSUME CompanionInv, SweepOnly
  PROVE  CompanionInv'
  <1>1. CompanionInv /\ RowsInv /\ WorkInv /\ QuestionsInv /\ RowsInv'
    BY SweepOnlyRows DEF CompanionInv
  <1>2. TurnsGo({}, "failed")
    BY DEF SweepOnly, TurnsGo
  <1>3. OpsQuiet
    BY QuietOps DEF SweepOnly
  <1>4. LeaseQuiet
    BY QuietLease DEF SweepOnly
  <1>5. RetirementStays
    BY DEF SweepOnly, RetirementStays
  <1>6. QuestionsFollow
    BY <1>2, LeftQuestions DEF SweepOnly, Active
  <1>7. QED
    BY <1>1, <1>3, <1>2, <1>4, <1>5, <1>6, PlainStep DEF SweepOnly, Active

LEMMA DispatchKeeps ==
  ASSUME CompanionInv, NEW t \in Turns, Dispatch(t)
  PROVE  CompanionInv'
  <1>1. CompanionInv /\ RowsInv /\ WorkInv /\ QuestionsInv /\ RowsInv'
    BY DispatchRows DEF CompanionInv
  <1>2. TurnsGo({}, "failed")
    BY <1>1 DEF Dispatch, TurnsGo, RowsInv, TypeOK, TurnRows
  <1>3. OpsQuiet
    BY QuietOps DEF Dispatch
  <1>4. LeaseQuiet
    BY QuietLease DEF Dispatch
  <1>5. RetirementStays
    BY DEF Dispatch, RetirementStays
  <1>6. QuestionsFollow
    BY <1>2, LeftQuestions DEF Dispatch, Active
  <1>7. QED
    BY <1>1, <1>3, <1>2, <1>4, <1>5, <1>6, PlainStep DEF Dispatch, Active

LEMMA SettleAttemptKeeps ==
  ASSUME CompanionInv, NEW t \in Turns, NEW how \in Outcomes, SettleAttempt(t, how)
  PROVE  CompanionInv'
  <1>1. CompanionInv /\ RowsInv /\ WorkInv /\ QuestionsInv /\ RowsInv'
    BY SettleAttemptRows DEF CompanionInv
  <1>2. turn[t].st \in Active /\ how \notin Active /\ how # "queued" /\ how \in States
    BY DEF SettleAttempt, Executing, Outcomes, Active, States
  <1>3. TurnsGo({t}, how)
    BY <1>2, <1>1, EndingIsGoing DEF SettleAttempt
  <1>4. OpsQuiet
    BY QuietOps DEF SettleAttempt
  <1>5. LeaseQuiet
    BY QuietLease DEF SettleAttempt
  <1>6. RetirementStays
    BY DEF SettleAttempt, RetirementStays
  <1>7. QuestionsFollow
    BY <1>2, <1>1, <1>3, EndedQuestions DEF SettleAttempt
  <1>8. QED
    BY <1>1, <1>2, <1>4, <1>3, <1>5, <1>6, <1>7, PlainStep DEF SettleAttempt, Active

LEMMA DeliverKeeps ==
  ASSUME CompanionInv, NEW d \in Decisions, Deliver(d)
  PROVE  CompanionInv'
  <1>1. CompanionInv /\ RowsInv /\ WorkInv /\ QuestionsInv /\ RowsInv'
    BY DeliverRows DEF CompanionInv
  <1>2. TurnsGo({}, "failed")
    BY DEF Deliver, TurnsGo
  <1>3. OpsQuiet
    BY QuietOps DEF Deliver
  <1>4. LeaseQuiet
    BY QuietLease DEF Deliver
  <1>5. RetirementStays
    BY DEF Deliver, RetirementStays
  <1>6. QuestionsFollow
    <2>1. \A x \in Decisions : /\ dec'[x].turn = dec[x].turn /\ dec'[x].n = dec[x].n
                               /\ (dec'[x].st # "none" <=> dec[x].st # "none")
                               /\ dec'[x].dv = dec[x].dv \/ (DecisionDue(x) /\ dec'[x].dv \notin {"delivered", "cancelled"})
      BY <1>1 DEF Deliver, RowsInv, TypeOK, DecRows, Delivering
    <2>2. QED
      BY <1>2, <2>1, LeftQuestions DEF Active
  <1>7. QED
    BY <1>1, <1>3, <1>2, <1>4, <1>5, <1>6, PlainStep DEF Deliver, Active

LEMMA DeliveryAmbiguousKeeps ==
  ASSUME CompanionInv, NEW d \in Decisions, DeliveryAmbiguous(d)
  PROVE  CompanionInv'
  <1>1. CompanionInv /\ RowsInv /\ WorkInv /\ QuestionsInv /\ RowsInv'
    BY DeliveryAmbiguousRows DEF CompanionInv
  <1>2. TurnsGo({}, "failed")
    BY DEF DeliveryAmbiguous, TurnsGo
  <1>3. OpsQuiet
    BY QuietOps DEF DeliveryAmbiguous
  <1>4. LeaseQuiet
    BY QuietLease DEF DeliveryAmbiguous
  <1>5. RetirementStays
    BY DEF DeliveryAmbiguous, RetirementStays
  <1>6. QuestionsFollow
    <2>1. \A x \in Decisions : /\ dec'[x].turn = dec[x].turn /\ dec'[x].n = dec[x].n
                               /\ (dec'[x].st # "none" <=> dec[x].st # "none")
                               /\ dec'[x].dv = dec[x].dv \/ (DecisionDue(x) /\ dec'[x].dv \notin {"delivered", "cancelled"})
      BY <1>1 DEF DeliveryAmbiguous, RowsInv, TypeOK, DecRows, Delivering
    <2>2. QED
      BY <1>2, <2>1, LeftQuestions DEF Active
  <1>7. QED
    BY <1>1, <1>3, <1>2, <1>4, <1>5, <1>6, PlainStep DEF DeliveryAmbiguous, Active

LEMMA RetryDeliveryKeeps ==
  ASSUME CompanionInv, NEW d \in Decisions, RetryDelivery(d)
  PROVE  CompanionInv'
  <1>1. CompanionInv /\ RowsInv /\ WorkInv /\ QuestionsInv /\ RowsInv'
    BY RetryDeliveryRows DEF CompanionInv
  <1>2. TurnsGo({}, "failed")
    BY DEF RetryDelivery, TurnsGo
  <1>3. OpsQuiet
    BY QuietOps DEF RetryDelivery
  <1>4. LeaseQuiet
    BY QuietLease DEF RetryDelivery
  <1>5. RetirementStays
    BY DEF RetryDelivery, RetirementStays
  <1>6. QuestionsFollow
    <2>1. \A x \in Decisions : /\ dec'[x].turn = dec[x].turn /\ dec'[x].n = dec[x].n
                               /\ (dec'[x].st # "none" <=> dec[x].st # "none")
                               /\ dec'[x].dv = dec[x].dv \/ (DecisionDue(x) /\ dec'[x].dv \notin {"delivered", "cancelled"})
      BY <1>1 DEF RetryDelivery, RowsInv, TypeOK, DecRows, Delivering
    <2>2. QED
      BY <1>2, <2>1, LeftQuestions DEF Active
  <1>7. QED
    BY <1>1, <1>3, <1>2, <1>4, <1>5, <1>6, PlainStep DEF RetryDelivery, Active

LEMMA BootKeeps ==
  ASSUME CompanionInv, NEW i \in Slots, Boot(i)
  PROVE  CompanionInv'
  <1>1. CompanionInv /\ RowsInv /\ WorkInv /\ QuestionsInv /\ RowsInv'
    BY BootRows DEF CompanionInv
  <1>2. TurnsGo({}, "failed")
    BY DEF Boot, TurnsGo
  <1>3. OpsQuiet
    BY <1>1 DEF Boot, OpsQuiet, OpsGo, SameOp, RowsInv, TypeOK, OpRows
  <1>4. LeaseQuiet
    BY QuietLease DEF Boot
  <1>5. RetirementStays
    BY DEF Boot, RetirementStays
  <1>6. QuestionsFollow
    BY <1>2, LeftQuestions DEF Boot, Active
  <1>7. QED
    BY <1>1, <1>3, <1>2, <1>4, <1>5, <1>6, PlainStep DEF Boot, Active

LEMMA OperationFailedKeeps ==
  ASSUME CompanionInv, NEW i \in Slots, NEW how \in {"failed", "interrupted"}, OperationFailed(i, how)
  PROVE  CompanionInv'
  <1>1. CompanionInv /\ RowsInv /\ WorkInv /\ QuestionsInv /\ RowsInv'
    BY OperationFailedRows DEF CompanionInv
  <1>2. \A t \in TakenAlong(op[i]) : t \in Turns /\ turn[t].st = "queued"
    <2>1. op[i].kind = "start" => OpLane(op[i]) = "main"
      BY DEF OpLane
    <2>2. op[i].st = "running"
      BY DEF OperationFailed, Operating
    <2>3. QED
      BY <1>1, <2>1, <2>2 DEF TakenAlong, WorkInv, BoxWorkIsAlone
  <1>3. TurnsGo(TakenAlong(op[i]), how)
    BY <1>1, EndingIsGoing DEF OperationFailed, States
  <1>4. OpsQuiet
    BY QuietOps DEF OperationFailed
  <1>5. LeaseQuiet
    BY QuietLease DEF OperationFailed
  <1>6. RetirementStays
    BY DEF OperationFailed, RetirementStays
  <1>7. QuestionsFollow
    BY <1>2, <1>3, LeftQuestions DEF OperationFailed, Active
  <1>8. QED
    BY <1>1, <1>2, <1>4, <1>3, <1>5, <1>6, <1>7, PlainStep DEF OperationFailed, Active

LEMMA ReleaseKeeps ==
  ASSUME CompanionInv, NEW l \in Lanes, Release(l)
  PROVE  CompanionInv'
  <1>1. CompanionInv /\ RowsInv /\ WorkInv /\ QuestionsInv /\ RowsInv'
    BY ReleaseRows DEF CompanionInv
  <1>2. TurnsGo({}, "failed")
    BY DEF Release, TurnsGo
  <1>3. OpsQuiet
    BY QuietOps DEF Release
  <1>4. LeaseQuiet
    BY QuietLease DEF Release
  <1>5. RetirementStays
    BY DEF Release, RetirementStays
  <1>6. QuestionsFollow
    BY <1>2, LeftQuestions DEF Release, Active
  <1>7. QED
    BY <1>1, <1>3, <1>2, <1>4, <1>5, <1>6, PlainStep DEF Release, Active

LEMMA LoseKeeps ==
  ASSUME CompanionInv, NEW l \in Lanes, Lose(l)
  PROVE  CompanionInv'
  <1>1. CompanionInv /\ RowsInv /\ WorkInv /\ QuestionsInv /\ RowsInv'
    BY LoseRows DEF CompanionInv
  <1>2. TurnsGo({}, "failed")
    BY DEF Lose, TurnsGo
  <1>3. OpsQuiet
    BY QuietOps DEF Lose
  <1>4. LeaseQuiet
    BY QuietLease DEF Lose
  <1>5. RetirementStays
    BY DEF Lose, RetirementStays
  <1>6. QuestionsFollow
    BY <1>2, LeftQuestions DEF Lose, Active
  <1>7. QED
    BY <1>1, <1>3, <1>2, <1>4, <1>5, <1>6, PlainStep DEF Lose, Active

LEMMA EnableKeeps ==
  ASSUME CompanionInv, Enable
  PROVE  CompanionInv'
  <1>1. CompanionInv /\ RowsInv /\ WorkInv /\ QuestionsInv /\ RowsInv'
    BY EnableRows DEF CompanionInv
  <1>2. TurnsGo({}, "failed")
    BY DEF Enable, TurnsGo
  <1>3. OpsQuiet
    BY QuietOps DEF Enable
  <1>4. LeaseQuiet
    BY QuietLease DEF Enable
  <1>5. RetirementStays
    BY DEF Enable, RetirementStays
  <1>6. QuestionsFollow
    BY <1>2, LeftQuestions DEF Enable, Active
  <1>7. QED
    BY <1>1, <1>3, <1>2, <1>4, <1>5, <1>6, PlainStep DEF Enable, Active

LEMMA BoxAgesKeeps ==
  ASSUME CompanionInv, BoxAges
  PROVE  CompanionInv'
  <1>1. CompanionInv /\ RowsInv /\ WorkInv /\ QuestionsInv /\ RowsInv'
    BY BoxAgesRows DEF CompanionInv
  <1>2. TurnsGo({}, "failed")
    BY DEF BoxAges, TurnsGo
  <1>3. OpsQuiet
    BY QuietOps DEF BoxAges
  <1>4. LeaseQuiet
    BY QuietLease DEF BoxAges
  <1>5. RetirementStays
    BY DEF BoxAges, RetirementStays
  <1>6. QuestionsFollow
    BY <1>2, LeftQuestions DEF BoxAges, Active
  <1>7. QED
    BY <1>1, <1>3, <1>2, <1>4, <1>5, <1>6, PlainStep DEF BoxAges, Active

LEMMA BoxArchivedKeeps ==
  ASSUME CompanionInv, BoxArchived
  PROVE  CompanionInv'
  <1>1. CompanionInv /\ RowsInv /\ WorkInv /\ QuestionsInv /\ RowsInv'
    BY BoxArchivedRows DEF CompanionInv
  <1>2. TurnsGo({}, "failed")
    BY DEF BoxArchived, TurnsGo
  <1>3. OpsQuiet
    BY QuietOps DEF BoxArchived
  <1>4. LeaseQuiet
    BY QuietLease DEF BoxArchived
  <1>5. RetirementStays
    BY DEF BoxArchived, RetirementStays
  <1>6. QuestionsFollow
    BY <1>2, LeftQuestions DEF BoxArchived, Active
  <1>7. QED
    BY <1>1, <1>3, <1>2, <1>4, <1>5, <1>6, PlainStep DEF BoxArchived, Active

LEMMA ExpireKeeps ==
  ASSUME CompanionInv, NEW d \in Decisions, Expire(d)
  PROVE  CompanionInv'
  <1>1. CompanionInv /\ RowsInv /\ WorkInv /\ QuestionsInv /\ RowsInv'
    BY ExpireRows DEF CompanionInv
  <1>2. TurnsGo({}, "failed")
    BY DEF Expire, TurnsGo
  <1>3. OpsQuiet
    BY QuietOps DEF Expire
  <1>4. LeaseQuiet
    BY QuietLease DEF Expire
  <1>5. RetirementStays
    BY DEF Expire, RetirementStays
  <1>6. QuestionsFollow
    <2>1. \A x \in Decisions : /\ dec'[x].turn = dec[x].turn /\ dec'[x].n = dec[x].n
                               /\ (dec'[x].st # "none" <=> dec[x].st # "none")
                               /\ dec'[x].dv = dec[x].dv \/ (DecisionDue(x) /\ dec'[x].dv \notin {"delivered", "cancelled"})
      BY <1>1 DEF Expire, RowsInv, TypeOK, DecRows, Delivering
    <2>2. QED
      BY <1>2, <2>1, LeftQuestions DEF Active
  <1>7. QED
    BY <1>1, <1>3, <1>2, <1>4, <1>5, <1>6, PlainStep DEF Expire, Active

LEMMA LateKeeps ==
  ASSUME CompanionInv, NEW t \in Turns, Late(t)
  PROVE  CompanionInv'
  <1>1. CompanionInv /\ RowsInv /\ WorkInv /\ QuestionsInv /\ RowsInv'
    BY LateRows DEF CompanionInv
  <1>2. TurnsGo({}, "failed")
    BY <1>1 DEF Late, TurnsGo, RowsInv, TypeOK, TurnRows
  <1>3. OpsQuiet
    BY QuietOps DEF Late
  <1>4. LeaseQuiet
    BY QuietLease DEF Late
  <1>5. RetirementStays
    BY DEF Late, RetirementStays
  <1>6. QuestionsFollow
    BY <1>2, LeftQuestions DEF Late, Active
  <1>7. QED
    BY <1>1, <1>3, <1>2, <1>4, <1>5, <1>6, PlainStep DEF Late, Active

LEMMA PromptOutcomeKeeps ==
  ASSUME CompanionInv, NEW t \in Turns, PromptOutcome(t)
  PROVE  CompanionInv'
  <1>1. CompanionInv /\ RowsInv /\ RowsInv'
    BY PromptOutcomeRows DEF CompanionInv
  <1>2. OpsQuiet /\ LeaseQuiet /\ RetirementStays
    BY QuietOps, QuietLease DEF PromptOutcome, RetirementStays
  <1>3. turn[t].st \in Active
    BY DEF PromptOutcome, Executing
  <1>4. TurnsGo({t}, "running") \/ TurnsGo({}, "running")
    BY <1>1 DEF PromptOutcome, TurnsGo, RowsInv, TypeOK, TurnRows
  <1>5. QuestionsFollow
    BY <1>3, <1>4, LeftQuestions DEF PromptOutcome, Active
  <1>6. QED
    BY <1>1, <1>2, <1>3, <1>4, <1>5, PlainStep DEF Active

\* A turn at Pi is only marked; any other ends, with its pending retry and its questions.
LEMMA CancelKeeps ==
  ASSUME CompanionInv, NEW t \in Turns, Cancel(t)
  PROVE  CompanionInv'
  <1>1. RowsInv /\ TypeOK /\ WorkInv /\ QuestionsInv /\ RowsInv'
    BY CancelRows DEF CompanionInv, RowsInv
  <1>2. OpsQuiet /\ LeaseQuiet /\ RetirementStays
    BY QuietOps, QuietLease DEF Cancel, RetirementStays
  <1>3. CASE AtPi(t)
    <2>1. TurnsGo({}, "cancelled")
      BY <1>1, <1>3 DEF Cancel, TurnsGo, RowsInv, TypeOK, TurnRows
    <2>2. QuestionsFollow
      BY <1>3, <2>1, LeftQuestions DEF Cancel, Active
    <2>3. QED
      BY <1>1, <1>2, <2>1, <2>2, PlainStep DEF Active
  <1>4. CASE ~AtPi(t)
    <2> DEFINE Ds == {d \in Decisions : Undelivered(d) /\ dec[d].turn = t}
               S == {i \in Live(op) : TakesBack(op[i], t)}
    <2>1. turn' = End(turn, {t}, "cancelled") /\ dec' = Close(Ds) /\ op' = Without(op, S)
      BY <1>4 DEF Cancel
    <2>2. TurnsGo({t}, "cancelled")
      BY <1>1, <2>1, EndingIsGoing DEF States
    <2>3. QuestionsFollow
      <3>1. \A d \in Decisions : SameQuestion(d)
        BY <1>1, <2>1, ClosedRows DEF SameQuestion, Owed
      <3>2. Ends(t)
        BY <1>1, <2>1, <2>2, ClosedRows, ZenonT(30) DEF Ends, TurnsGo, AskedBy, Undelivered, Active
      <3>3. \A u \in Turns : u # t => GoesOn(u)
        BY <1>1, <2>1, <2>2, ClosedRows, ZenonT(30) DEF GoesOn, TurnsGo, AskedBy, Undelivered
      <3>4. QED
        BY <3>1, <3>2, <3>3 DEF QuestionsFollow
    <2>4. CASE turn[t].st # "interrupted"
      BY <1>1, <1>2, <2>2, <2>3, <2>4, PlainStep DEF Active
    <2>5. CASE turn[t].st = "interrupted"
      <3>1. QuestionsInv'
        BY <1>1, <2>3, QuestionsKept
      <3>2. /\ \A i \in Slots : op'[i].kind # "none" => op'[i] = op[i] /\ i \in Live(op) /\ i \notin S
            /\ \A i \in Slots : op'[i] = op[i] \/ op'[i] = NoOp
        BY <1>1, <2>1, WithoutRows, EmptySlot DEF TypeOK, Live
      <3>3. BoxWorkIsAlone' /\ DeleteWasAsked' /\ DeleteRunsAlone'
        <4>1. NoNewActive /\ (\A u \in Turns : turn'[u].st = "queued" => turn[u].st = "queued")
          BY <2>2 DEF NoNewActive, TurnsGo, Active
        <4>2. BoxWorkIsAlone' /\ DeleteWasAsked'
          BY <1>1, <1>2, <4>1, OpsKeep DEF OpsQuiet, WorkInv, BoxWorkIsAlone, DeleteWasAsked, NoNewActive, RetirementStays
        <4>3. ASSUME NEW i \in Slots, op'[i].kind = "delete", op'[i].st = "running"
              PROVE  /\ \A u \in Turns : turn'[u].st \notin Active \cup {"queued"}
                     /\ Live(op') = {i} /\ lease'["routine"] = Idle
          <5>1. op[i].kind = "delete" /\ op[i].st = "running"
            BY <3>2, <4>3
          <5>2. (\A u \in Turns : turn[u].st \notin Active \cup {"queued"}) /\ Live(op) = {i} /\ lease["routine"] = Idle
            BY <1>1, <5>1 DEF WorkInv, DeleteRunsAlone
          <5>3. Live(op') = {i}
            BY <3>2, <4>3, <5>2 DEF Live
          <5>4. QED
            BY <4>1, <5>2, <5>3 DEF Cancel, NoNewActive
        <4>4. QED
          BY <4>2, <4>3 DEF DeleteRunsAlone
      <3>4. RetriesWait'
        <4>1. \A i \in Live(op') : Retries(op'[i]) => op'[i] = op[i] /\ i \in Live(op) /\ op[i].turn # t
          <5> SUFFICES ASSUME NEW i \in Live(op'), Retries(op'[i]), op[i].turn = t PROVE FALSE
            BY <3>2 DEF Live
          <5>1. op'[i] = op[i] /\ i \in Live(op) /\ i \notin S /\ i \in Slots /\ op[i].st \in {"pending", "running"}
            BY <1>1, <3>2 DEF Live, TypeOK, OpRows
          <5>2. op[i].st # "pending"
            BY <5>1 DEF TakesBack, Retries
          <5>3. BeingRetried(t)
            BY <5>1, <5>2 DEF BeingRetried
          <5>4. QED
            BY <5>3 DEF Cancel
        <4>2. \A i \in Live(op') : Retries(op'[i]) => op[i].turn \in Turns
          BY <1>1, <4>1 DEF Live, TypeOK, OpRows, Retries
        <4>3. QED
          BY <1>1, <2>2, <4>1, <4>2 DEF WorkInv, RetriesWait, TurnsGo
      <3>5. QED
        BY <1>1, <3>1, <3>3, <3>4 DEF CompanionInv, WorkInv
    <2>6. QED
      BY <2>4, <2>5
  <1>5. QED
    BY <1>3, <1>4

\* A retry, or an operation a user asks for: filed while no delete is asked for.
LEMMA FiledKeeps ==
  ASSUME CompanionInv, RowsInv', retirement = "active",
         NEW k \in {"start", "delete"} \cup Lifecycle, NEW u \in Turns \cup {NoTurn},
         op' = File(op, k, "user", u), TurnsGo({}, "failed"), UNCHANGED <<dec, lease>>,
         k = "delete" => retirement' # "active",
         u # NoTurn => turn[u].st = "interrupted" /\ \A j \in Live(op) : Retries(op[j]) => op[j].turn # u
  PROVE  CompanionInv'
  <1>1. RowsInv /\ TypeOK /\ WorkInv /\ QuestionsInv /\ op \in [Slots -> OpRows]
    BY DEF CompanionInv, RowsInv, TypeOK
  <1>2. \A i \in Slots :
          \/ op'[i] = op[i]
          \/ op'[i].kind = k /\ op'[i].by = "user" /\ op'[i].turn = u /\ op'[i].st = "pending"
    <2> DEFINE F == File(op, k, "user", u)
    <2>1. \A i \in Slots : F[i] = op[i] \/ (F[i].kind = k /\ F[i].by = "user" /\ F[i].turn = u /\ F[i].st = "pending")
      BY <1>1, FiledRow, SMTT(30)
    <2> HIDE DEF F
    <2>2. op' = F
      BY DEF F
    <2>3. QED
      BY <2>1, <2>2
  <1>3. \A i, j \in Slots : op'[i] # op[i] /\ op'[j] # op[j] => i = j
    <2> DEFINE F == File(op, k, "user", u)
    <2>1. \A i, j \in Slots : F[i] # op[i] /\ F[j] # op[j] => i = j
      BY <1>1, FiledRow, SMTT(30)
    <2> HIDE DEF F
    <2>2. op' = F
      BY DEF F
    <2>3. QED
      BY <2>1, <2>2
  <1>4. \A i \in Slots : op[i].kind # "delete"
    BY <1>1 DEF WorkInv, DeleteWasAsked
  <1>5. BoxWorkIsAlone'
    BY <1>1, <1>2 DEF WorkInv, BoxWorkIsAlone, TurnsGo
  <1>6. DeleteWasAsked' /\ DeleteRunsAlone'
    BY <1>2, <1>4 DEF DeleteWasAsked, DeleteRunsAlone
  <1>7. RetriesWait'
    <2>1. \A i \in Live(op') : i \in Slots
      BY DEF Live
    <2>2. \A i \in Live(op') : Retries(op'[i]) => (op'[i] = op[i] /\ i \in Live(op)) \/ (op'[i] # op[i] /\ op'[i].turn = u /\ u # NoTurn)
      BY <1>2, <2>1 DEF Live, Retries
    <2>3. \A i \in Live(op') : Retries(op'[i]) => op'[i].turn \in Turns /\ turn[op'[i].turn].st = "interrupted"
      <3> SUFFICES ASSUME NEW i \in Live(op'), Retries(op'[i]) PROVE op'[i].turn \in Turns /\ turn[op'[i].turn].st = "interrupted"
        OBVIOUS
      <3>1. CASE op'[i] = op[i] /\ i \in Live(op)
        BY <1>1, <2>1, <3>1 DEF WorkInv, RetriesWait, OpRows, Retries
      <3>2. CASE op'[i].turn = u /\ u # NoTurn
        BY <3>2
      <3>3. QED
        BY <2>2, <3>1, <3>2
    <2>4. ASSUME NEW i \in Live(op'), Retries(op'[i]), NEW j \in Live(op'), Retries(op'[j]), op'[j].turn = op'[i].turn
          PROVE  j = i
      <3>1. CASE op'[i] # op[i] /\ op'[j] # op[j]
        BY <1>3, <2>1, <3>1
      <3>2. CASE op'[i] = op[i] /\ op'[j] = op[j]
        BY <1>1, <2>2, <2>4, <3>2 DEF WorkInv, RetriesWait
      <3>3. CASE op'[i] = op[i] /\ op'[j] # op[j]
        BY <2>2, <2>4, <3>3
      <3>4. CASE op'[i] # op[i] /\ op'[j] = op[j]
        BY <2>2, <2>4, <3>4
      <3>5. QED
        BY <3>1, <3>2, <3>3, <3>4
    <2>5. QED
      BY <2>3, <2>4 DEF RetriesWait, TurnsGo
  <1>8. QuestionsInv'
    <2>1. QuestionsFollow
      BY LeftQuestions DEF Active
    <2>2. QED
      BY <1>1, <2>1, QuestionsKept
  <1>9. QED
    BY <1>5, <1>6, <1>7, <1>8 DEF CompanionInv, WorkInv

LEMMA RetryKeeps ==
  ASSUME CompanionInv, NEW t \in Turns, Retry(t)
  PROVE  CompanionInv'
  <1>1. RowsInv' /\ RowsInv
    BY RetryRows DEF CompanionInv
  <1>2. PICK k \in {"start", "restart_pi"} : op' = File(op, k, "user", t)
    BY DEF Retry
  <1>3. TurnsGo({}, "failed")
    BY <1>1 DEF Retry, TurnsGo, RowsInv, TypeOK, TurnRows
  <1>4. turn[t].st = "interrupted" /\ \A j \in Live(op) : Retries(op[j]) => op[j].turn # t
    BY DEF Retry
  <1>5. retirement = "active" /\ UNCHANGED <<dec, lease>>
    BY DEF Retry, MayFile
  <1>6. k \in {"start", "delete"} \cup Lifecycle /\ k # "delete"
    BY DEF Lifecycle
  <1>7. QED
    BY <1>1, <1>2, <1>3, <1>4, <1>5, <1>6, FiledKeeps

LEMMA RequestKeeps ==
  ASSUME CompanionInv, NEW k \in Lifecycle \cup {"delete"}, Request(k)
  PROVE  CompanionInv'
  <1>1. RowsInv' /\ RowsInv
    BY RequestRows DEF CompanionInv
  <1>2. /\ op' = File(op, k, "user", NoTurn) /\ TurnsGo({}, "failed") /\ UNCHANGED <<dec, lease>>
        /\ retirement = "active" /\ (k = "delete" => retirement' # "active")
    BY DEF Request, MayFile, TurnsGo
  <1>3. QED
    BY <1>1, <1>2, FiledKeeps

\* A batch of events may leave the turn waiting for the questions it asks.
LEMMA ProjectKeeps ==
  ASSUME CompanionInv, NEW t \in Turns, NEW Ds \in SUBSET Decisions, NEW p \in {"none", "settled", "exited"}, Project(t, Ds, p)
  PROVE  CompanionInv'
  <1>1. CompanionInv /\ RowsInv /\ RowsInv' /\ WorkInv /\ QuestionsInv
    BY ProjectRows DEF CompanionInv
  <1>2. OpsQuiet /\ LeaseQuiet /\ RetirementStays
    BY QuietOps, QuietLease DEF Project, RetirementStays
  <1>3. turn[t].st = "running" /\ AfterBatch(Ds, p) \in {"needs_input", "running"} /\ (AfterBatch(Ds, p) = "needs_input" => Ds # {})
    BY DEF Project, AfterBatch
  <1>4. TurnsGo({t}, AfterBatch(Ds, p))
    BY <1>1 DEF Project, TurnsGo, RowsInv, TypeOK, TurnRows
  <1>5. NoNewActive /\ InterruptedStay
    BY <1>3, <1>4, TurnsKept DEF Active
  <1>6. WorkInv'
    <2>1. StillWhileDeleting
      BY <1>2, <1>3, <1>4 DEF OpsQuiet, LeaseQuiet, StillWhileDeleting, TurnsGo
    <2>2. QED
      BY <1>1, <1>2, <1>5, <2>1, WorkKept DEF OpsQuiet
  <1>7. \A d \in Decisions :
          /\ d \in Ds => /\ dec'[d].turn = t /\ dec'[d].n = turn[t].n /\ dec'[d].st # "none" /\ dec'[d].dv = "pending"
                        /\ dec[d].st = "none"
          /\ d \notin Ds => dec'[d] = dec[d]
    BY <1>3 DEF Project, Asked
  <1>8. QuestionsInv'
    <2>1. DecisionsFollowAttempt'
      <3> SUFFICES ASSUME NEW d \in Decisions, dec'[d].st # "none", dec'[d].dv \in {"pending", "write_intent"}
                   PROVE  turn'[dec'[d].turn].st \in Active /\ turn'[dec'[d].turn].n = dec'[d].n
        BY DEF DecisionsFollowAttempt
      <3>1. CASE d \in Ds
        BY <1>3, <1>4, <1>7, <3>1 DEF TurnsGo, Active
      <3>2. CASE d \notin Ds
        <4>1. dec'[d] = dec[d] /\ dec[d].turn \in Turns
          BY <1>1, <1>7, <3>2 DEF RowsInv, QuestionsAgree
        <4>2. turn[dec[d].turn].st \in Active /\ turn[dec[d].turn].n = dec[d].n
          BY <1>1, <4>1 DEF QuestionsInv, DecisionsFollowAttempt
        <4>3. QED
          BY <1>3, <1>4, <4>1, <4>2 DEF TurnsGo, Active
      <3>3. QED
        BY <3>1, <3>2
    <2>2. WaitingHasQuestion'
      <3> SUFFICES ASSUME NEW u \in Turns, turn'[u].st = "needs_input" PROVE AskedBy(u)' # {}
        BY DEF WaitingHasQuestion
      <3>1. CASE u = t
        <4>1. PICK d \in Decisions : d \in Ds
          BY <1>3, <1>4, <3>1 DEF TurnsGo
        <4>2. QED
          BY <1>4, <1>7, <3>1, <4>1 DEF TurnsGo, AskedBy, Undelivered
      <3>2. CASE u # t
        <4>1. turn[u].st = "needs_input" /\ turn'[u].n = turn[u].n
          BY <1>4, <3>2 DEF TurnsGo
        <4>2. PICK d \in Decisions : d \in AskedBy(u)
          BY <1>1, <4>1 DEF QuestionsInv, WaitingHasQuestion, AskedBy
        <4>3. dec[d].st # "none"
          BY <4>2 DEF AskedBy, Undelivered
        <4>4. dec'[d] = dec[d]
          BY <1>7, <4>3
        <4>5. QED
          BY <4>1, <4>2, <4>4 DEF AskedBy, Undelivered
      <3>3. QED
        BY <3>1, <3>2
    <2>3. QED
      BY <2>1, <2>2 DEF QuestionsInv
  <1>9. QED
    BY <1>1, <1>6, <1>8 DEF CompanionInv

\* The last answer delivered resumes the turn; another leaves it a question to wait for.
LEMMA SettleDeliveryKeeps ==
  ASSUME CompanionInv, NEW d \in Decisions, SettleDelivery(d)
  PROVE  CompanionInv'
  <1> DEFINE t == dec[d].turn
  <1>1. CompanionInv /\ RowsInv /\ RowsInv' /\ WorkInv /\ QuestionsInv
    BY SettleDeliveryRows DEF CompanionInv
  <1>2. OpsQuiet /\ LeaseQuiet /\ RetirementStays
    BY QuietOps, QuietLease DEF SettleDelivery, RetirementStays
  <1>3. DecisionDue(d)
    BY DEF SettleDelivery, Delivering
  <1>4. t \in Turns /\ turn[t].st \in Active
    BY <1>1, <1>3, DueTurn
  <1> HIDE DEF t
  <1>5. IF LastQuestion(d) THEN turn[t].st = "needs_input" /\ TurnsGo({t}, "running") ELSE TurnsGo({}, "running")
    BY <1>1, <1>4 DEF SettleDelivery, TurnsGo, RowsInv, TypeOK, TurnRows, t
  <1>6. \A x \in Decisions : /\ dec'[x].turn = dec[x].turn /\ dec'[x].n = dec[x].n /\ dec'[x].st = dec[x].st
                             /\ dec'[x].dv = IF x = d THEN "delivered" ELSE dec[x].dv
    BY <1>1 DEF SettleDelivery, RowsInv, TypeOK, DecRows
  <1>7. \A x \in Decisions : SameQuestion(x)
    BY <1>6 DEF SameQuestion, Owed
  <1>8. CASE LastQuestion(d)
    <2>1. \A u \in Turns : GoesOn(u)
      BY <1>4, <1>5, <1>6, <1>8 DEF GoesOn, TurnsGo, AskedBy, Undelivered, Active, t
    <2>2. QuestionsFollow
      BY <1>7, <2>1 DEF QuestionsFollow
    <2>3. QED
      BY <1>1, <1>2, <1>4, <1>5, <1>8, <2>2, PlainStep DEF Active
  <1>9. CASE ~LastQuestion(d)
    <2>1. WorkInv'
      <3>1. NoNewActive /\ InterruptedStay
        BY <1>5, <1>9, TurnsKept
      <3>2. StillWhileDeleting
        BY <1>2, <1>5, <1>9 DEF OpsQuiet, LeaseQuiet, StillWhileDeleting, TurnsGo
      <3>3. QED
        BY <1>1, <1>2, <3>1, <3>2, WorkKept DEF OpsQuiet
    <2>2. \A u \in Turns : turn'[u].st = turn[u].st /\ turn'[u].n = turn[u].n
      BY <1>5, <1>9 DEF TurnsGo
    <2>3. \A x \in Decisions : dec[x].st # "none" => dec[x].turn \in Turns
      BY <1>1 DEF RowsInv, QuestionsAgree
    <2>4. DecisionsFollowAttempt'
      BY <1>1, <1>6, <2>2, <2>3 DEF QuestionsInv, DecisionsFollowAttempt
    <2>5. WaitingHasQuestion'
      <3> SUFFICES ASSUME NEW u \in Turns, turn'[u].st = "needs_input" PROVE AskedBy(u)' # {}
        BY DEF WaitingHasQuestion
      <3>1. PICK e \in Decisions : e \in AskedBy(t) /\ e # d
        BY <1>9 DEF LastQuestion, AskedBy, t
      <3>2. PICK x \in Decisions : x \in AskedBy(u) /\ (u = t => x # d)
        <4>1. CASE u = t
          BY <3>1, <4>1
        <4>2. CASE u # t
          BY <1>1, <2>2, <4>2 DEF QuestionsInv, WaitingHasQuestion, AskedBy
        <4>3. QED
          BY <4>1, <4>2
      <3>3. x # d
        BY <3>2 DEF AskedBy, t
      <3>4. QED
        BY <1>6, <2>2, <3>2, <3>3 DEF AskedBy, Undelivered
    <2>6. QED
      BY <1>1, <2>1, <2>4, <2>5 DEF CompanionInv, QuestionsInv
  <1>10. QED
    BY <1>8, <1>9

\* A delivery that ends without success takes its turn and the turn's other questions along.
LEMMA EndDeliveryKeeps ==
  ASSUME CompanionInv, NEW d \in Decisions, NEW how \in {"interrupted", "cancelled"}, EndDelivery(d, how)
  PROVE  CompanionInv'
  <1> DEFINE t == dec[d].turn
             U == UNION {AskedBy(u) : u \in {t}}
             C == Close(U)
  <1>1. CompanionInv /\ RowsInv /\ TypeOK /\ RowsInv'
    BY EndDeliveryRows DEF CompanionInv, RowsInv
  <1>2. OpsQuiet /\ LeaseQuiet /\ RetirementStays
    BY QuietOps, QuietLease DEF EndDelivery, RetirementStays
  <1>3. t \in Turns /\ turn[t].st \in Active
    <2>1. DecisionDue(d)
      BY DEF EndDelivery, Delivering
    <2>2. QED
      BY <1>1, <2>1, DueTurn
  <1>4. TurnsGo({t}, how)
    BY <1>1, EndingIsGoing DEF EndDelivery, States
  <1>5. U = AskedBy(t)
    OBVIOUS
  <1>6. /\ C \in [Decisions -> DecRows]
        /\ \A x \in Decisions :
             /\ C[x].turn = dec[x].turn /\ C[x].n = dec[x].n /\ (C[x].st # "none" <=> dec[x].st # "none")
             /\ x \notin U => C[x] = dec[x]
             /\ x \in U => C[x].dv \in {"ambiguous", "cancelled"}
    BY <1>1, ClosedRows
  <1>7. PICK v \in {"ambiguous", "cancelled"} : dec' = [C EXCEPT ![d].dv = v]
    BY DEF EndDelivery, CloseAll
  <1> HIDE DEF t, U, C
  <1>8. \A x \in Decisions :
          /\ dec'[x].turn = dec[x].turn /\ dec'[x].n = dec[x].n /\ (dec'[x].st # "none" <=> dec[x].st # "none")
          /\ x \notin U /\ x # d => dec'[x].dv = dec[x].dv
          /\ x \in U \/ x = d => dec'[x].dv \in {"ambiguous", "cancelled"}
    BY <1>6, <1>7 DEF DecRows
  <1>9. QuestionsFollow
    <2>1. \A x \in Decisions : SameQuestion(x)
      BY <1>8 DEF SameQuestion, Owed
    <2>2. Ends(t)
      <3>1. turn'[t].st = how /\ \A x \in AskedBy(t) : x \in Decisions /\ x \in U
        BY <1>3, <1>4, <1>5 DEF TurnsGo, AskedBy
      <3>2. QED
        BY <1>8, <3>1 DEF Ends
    <2>3. \A u \in Turns : u # t => \A x \in AskedBy(u) : x \in Decisions /\ x \notin U /\ x # d
      BY <1>5 DEF AskedBy, t
    <2>4. \A u \in Turns : u # t => GoesOn(u)
      BY <1>4, <1>8, <2>3 DEF GoesOn, TurnsGo, AskedBy, Undelivered
    <2>5. QED
      BY <2>1, <2>2, <2>4 DEF QuestionsFollow
  <1>10. QED
    BY <1>1, <1>2, <1>3, <1>4, <1>9, PlainStep DEF Active

\* Closing the gate ends every turn that runs and closes every question still open.
LEMMA DisableKeeps ==
  ASSUME CompanionInv, Disable
  PROVE  CompanionInv'
  <1> DEFINE T == {t \in Turns : \/ turn[t].st \in Active
                                 \/ /\ turn[t].st = "queued"
                                    /\ \E i \in Live(op) : /\ op[i].kind = "start" /\ op[i].turn = t
                                                           /\ op[i].st = "running"}
  <1>1. CompanionInv /\ RowsInv /\ TypeOK /\ RowsInv'
    BY DisableRows DEF CompanionInv, RowsInv
  <1>2. OpsQuiet /\ RetirementStays
    BY QuietOps DEF Disable, RetirementStays
  <1>3. LeaseQuiet
    BY DEF Disable, LeaseQuiet, Lanes
  <1>4. TurnsGo(T, "interrupted")
    BY <1>1, EndingIsGoing DEF Disable, States
  <1>5. dec' = Close(LeftOpen)
    BY DEF Disable
  <1>6. QuestionsFollow
    <2>1. \A d \in Decisions : SameQuestion(d)
      BY <1>1, <1>5, ClosedRows DEF SameQuestion, Owed
    <2>2. \A t \in Turns : turn[t].st \in Active => t \in T
      OBVIOUS
    <2> HIDE DEF T
    <2>3. \A t \in Turns : turn'[t].st # "needs_input"
      BY <1>4, <2>2 DEF TurnsGo, Active
    <2>4. \A t \in Turns : Ends(t)
      BY <1>1, <1>5, <2>3, ClosedRows DEF Ends, LeftOpen, AskedBy
    <2>5. QED
      BY <2>1, <2>4 DEF QuestionsFollow
  <1> HIDE DEF T
  <1>7. QED
    BY <1>1, <1>2, <1>3, <1>4, <1>6, PlainStep DEF Active

\* A Start that a claim call leaves running has its queued turn.
LEMMA RunningStarts ==
  ASSUME RowsInv, lease["main"] = Idle, NEW i \in Slots, Base[i].st = "running", Base[i].by = "turn"
  PROVE  turn[Base[i].turn].st = "queued"
  <1>1. TypeOK /\ OpsAgree /\ op \in [Slots -> OpRows]
    BY DEF RowsInv, TypeOK
  <1>2. Base[i] = Reconciled(op)[i] /\ Base[i] = op[i] /\ op[i].kind # "none"
    BY <1>1, BaseRows, AgreeingOps DEF TurnStart, OpsAgree
  <1>3. i \in Live(op)
    BY <1>2 DEF Live
  <1>4. SUFFICES ASSUME turn[op[i].turn].st # "queued" PROVE FALSE
    BY <1>2
  <1>5. Reconciled(op)[i] = NoOp
    BY <1>1, <1>2, <1>3, <1>4, WithoutRows DEF Reconciled
  <1>6. QED
    BY <1>2, <1>5, EmptySlot

\* An attempt starts only when no operation has the Box.
LEMMA ClaimQueuedTurnKeeps ==
  ASSUME CompanionInv, NEW l \in Lanes, ClaimQueuedTurn(l)
  PROVE  CompanionInv'
  <1>1. CompanionInv /\ RowsInv /\ TypeOK /\ OpsAgree /\ WorkInv /\ QuestionsInv /\ RowsInv'
    BY ClaimQueuedTurnRows DEF CompanionInv, RowsInv
  <1>2. PICK w \in Found(l, "queued") :
            /\ turn' = [turn EXCEPT ![w.id].st = "starting", ![w.id].n = @ + 1, ![w.id].late = FALSE,
                                    ![w.id].disp = "pending", ![w.id].proof = "none"]
            /\ op' = Base /\ UNCHANGED <<dec, retirement>>
    BY DEF ClaimQueuedTurn
  <1>3. /\ w.id \in Turns /\ turn[w.id].st = "queued" /\ lease[l] = Idle
        /\ \A i \in Live(Base) : ~OpDue(l, Base[i])
        /\ l = "routine" => RoutineMayStart(Base)
    BY <1>1, <1>2, FoundQueued, FoundWork
  <1>4. \A t \in Turns : /\ turn'[t].st = IF t = w.id THEN "starting" ELSE turn[t].st
                         /\ t # w.id => turn'[t].n = turn[t].n
    BY <1>1, <1>2, <1>3, SMTT(90) DEF TypeOK, TurnRows
  <1>5. OpsQuiet /\ ~Deleting
    BY <1>1, <1>2, <1>3, QuietOps, WorkMeansNoDelete
  <1>6. BoxWorkIsAlone'
    <2> SUFFICES ASSUME NEW i \in Slots, Base[i].st = "running", OpLane(Base[i]) = "main" PROVE FALSE
      BY <1>2 DEF BoxWorkIsAlone
    <2>1. Base[i] = op[i] /\ Base[i].kind # "none" /\ i \in Live(Base) /\ Base[i] \in OpRows
      BY <1>1, AgreeingOps DEF OpsAgree, Live
    <2>2. \A t \in Turns : turn[t].st \notin Active
      BY <1>1, <2>1 DEF WorkInv, BoxWorkIsAlone
    <2>3. l = "main"
      BY <1>3, <2>1 DEF RoutineMayStart, Lanes
    <2>4. Quiescent
      BY <2>2 DEF Quiescent, ActiveIn, TurnsOf, Turns
    <2>5. Base[i].by = "turn" => turn[Base[i].turn].st = "queued"
      BY <1>1, <1>3, <2>3, RunningStarts
    <2>6. Base[i].by \in {"user", "turn"} /\ Base[i].kind \in {"start", "delete"} \cup Lifecycle
      BY <2>1 DEF OpRows
    <2>7. OpDue(l, Base[i])
      BY <2>3, <2>4, <2>5, <2>6 DEF OpDue, MayUseBox, StartDue
    <2>8. QED
      BY <1>3, <2>1, <2>7
  <1>7. /\ \A i \in Slots : op'[i].kind = "delete" => op[i].kind = "delete" /\ (op'[i].st = "running" => op[i].st = "running")
        /\ \A i \in Slots : op'[i].kind # "none" /\ Retries(op'[i]) => op'[i] = op[i]
    BY <1>1, <1>2, AgreeingOps, OpsKeep, <1>5 DEF OpsQuiet
  <1>8. DeleteWasAsked' /\ DeleteRunsAlone'
    BY <1>1, <1>2, <1>5, <1>7 DEF WorkInv, DeleteWasAsked, DeleteRunsAlone, Deleting
  <1>9. RetriesWait'
    <2> SUFFICES ASSUME NEW i \in Live(op'), Retries(op'[i])
                 PROVE  /\ turn'[op'[i].turn].st = "interrupted"
                        /\ \A j \in Live(op') : Retries(op'[j]) /\ op'[j].turn = op'[i].turn => j = i
      BY DEF RetriesWait, Live
    <2>1. \A j \in Live(op') : Retries(op'[j]) => op'[j] = op[j] /\ j \in Live(op)
      BY <1>7 DEF Live
    <2>2. turn[op[i].turn].st = "interrupted" /\ op[i].turn \in Turns
      BY <1>1, <2>1 DEF WorkInv, RetriesWait, TypeOK, OpRows, Retries, Live
    <2>3. QED
      BY <1>1, <1>3, <1>4, <2>1, <2>2 DEF WorkInv, RetriesWait
  <1>10. QuestionsInv'
    <2>1. \A d \in Decisions : SameQuestion(d)
      BY <1>2 DEF SameQuestion, Owed
    <2>2. \A t \in Turns : GoesOn(t) \/ Ends(t)
      <3>1. Ends(w.id)
        BY <1>3, <1>4 DEF Ends, Active
      <3>2. \A t \in Turns : t # w.id => GoesOn(t)
        BY <1>2, <1>4 DEF GoesOn, AskedBy, Undelivered
      <3>3. QED
        BY <3>1, <3>2
    <2>3. QED
      BY <1>1, <2>1, <2>2, QuestionsKept DEF QuestionsFollow
  <1>11. QED
    BY <1>1, <1>6, <1>8, <1>9, <1>10 DEF CompanionInv, WorkInv

\* An operation is done: a retry puts its interrupted turn back in the queue.
LEMMA OperationDoneKeeps ==
  ASSUME CompanionInv, NEW i \in Slots, OperationDone(i)
  PROVE  CompanionInv'
  <1>1. CompanionInv /\ RowsInv /\ TypeOK /\ OpsAgree /\ WorkInv /\ QuestionsInv /\ RowsInv' /\ op[i] \in OpRows
    BY OperationDoneRows DEF CompanionInv, RowsInv, TypeOK
  <1>2. OpsQuiet
    <2>1. CASE op' = [j \in Slots |-> NoOp]
      BY <2>1, EmptySlot DEF OpsQuiet, OpsGo
    <2>2. CASE op' = Without(op, {i})
      BY <2>2, QuietOps
    <2>3. QED
      BY <2>1, <2>2 DEF OperationDone
  <1>3. LeaseQuiet /\ RetirementStays
    BY QuietLease DEF OperationDone, RetirementStays
  <1>4. op[i].st = "running" /\ Proved(op[i]) /\ i \in Live(op)
    BY <1>1 DEF OperationDone, Operating, OpsAgree, Live
  <1>5. CASE ~Retries(op[i])
    <2>1. TurnsGo({}, "failed") /\ UNCHANGED dec
      BY <1>5 DEF OperationDone, TurnsGo
    <2>2. QuestionsFollow
      BY <2>1, LeftQuestions DEF Active
    <2>3. QED
      BY <1>1, <1>2, <1>3, <2>1, <2>2, PlainStep DEF Active
  <1>6. CASE Retries(op[i])
    <2> DEFINE u == op[i].turn
    <2>1. u \in Turns /\ turn[u].st = "interrupted" /\ op[i].kind # "delete" /\ op[i].kind # "none"
      BY <1>1, <1>4, <1>6 DEF Proved, Retries, OpRows
    <2>2. op' = Without(op, {i}) /\ turn' = [turn EXCEPT ![u].st = "queued", ![u].late = FALSE] /\ UNCHANGED dec
      BY <1>6, <2>1 DEF OperationDone
    <2> HIDE DEF u
    <2>3. TurnsGo({u}, "queued")
      BY <1>1, <2>1, <2>2 DEF TurnsGo, TypeOK, TurnRows
    <2>4. \A j \in Slots : op'[j] = IF j = i THEN NoOp ELSE op[j]
      BY <1>1, <2>2, WithoutRows DEF TypeOK
    <2>5. ~Deleting
      BY <1>1, <1>4, <2>1 DEF Deleting, WorkInv, DeleteRunsAlone
    <2>6. BoxWorkIsAlone' /\ DeleteWasAsked' /\ DeleteRunsAlone'
      <3>1. BoxWorkIsAlone'
        BY <1>1, <2>3, <2>4, EmptySlot DEF WorkInv, BoxWorkIsAlone, TurnsGo, Active
      <3>2. DeleteWasAsked'
        BY <1>1, <1>3, <2>4, EmptySlot DEF WorkInv, DeleteWasAsked, RetirementStays
      <3>3. DeleteRunsAlone'
        BY <2>4, <2>5, EmptySlot DEF DeleteRunsAlone, Deleting
      <3>4. QED
        BY <3>1, <3>2, <3>3
    <2>7. RetriesWait'
      <3>1. \A j \in Live(op') : j \in Live(op) /\ op'[j] = op[j] /\ j # i
        BY <2>4, EmptySlot DEF Live
      <3>2. \A j \in Live(op) : Retries(op[j]) /\ j # i => op[j].turn # u /\ op[j].turn \in Turns
        BY <1>1, <1>4, <1>6 DEF WorkInv, RetriesWait, Retries, Live, TypeOK, OpRows, u
      <3>3. QED
        BY <1>1, <2>3, <3>1, <3>2 DEF WorkInv, RetriesWait, TurnsGo
    <2>8. QuestionsInv'
      <3>1. QuestionsFollow
        BY <2>1, <2>2, <2>3, LeftQuestions DEF Active
      <3>2. QED
        BY <1>1, <3>1, QuestionsKept
    <2>9. QED
      BY <1>1, <2>6, <2>7, <2>8 DEF CompanionInv, WorkInv
  <1>7. QED
    BY <1>5, <1>6
-----------------------------------------------------------------------------
(* The claim of an operation.                                                *)

\* What a preempting operation does to the turns.
LEMMA PreemptedRows ==
  ASSUME TypeOK, NEW o
  PROVE  /\ AfterPreemption(o) \in [Turns -> TurnRows]
         /\ \A t \in Turns :
              LET r == AfterPreemption(o)[t]
              IN  /\ r.n = turn[t].n /\ r.sent = turn[t].sent /\ r.retries = turn[t].retries /\ r.disp = turn[t].disp
                  /\ r.st \notin Active /\ r.st \in {turn[t].st, "interrupted", "queued", "cancelled"}
                  /\ turn[t].st \notin Active \cup {"queued"} => r.st = turn[t].st
                  /\ o.kind = "delete" => r.st # "queued"
                  /\ r.st = "queued" => turn[t].st = "queued" \/ (turn[t].st \in Active /\ Retries(o))
  <1> DEFINE P == Preempted(o)
             Hs == HandedBack(o)
             Q == {t \in Turns : turn[t].st = "queued"}
             A == End(turn, P, "interrupted")
             B == End(A, Hs, "queued")
             C == End(B, Q, "cancelled")
  <1>1. turn \in [Turns -> TurnRows]
    BY DEF TypeOK
  <1>2. /\ A \in [Turns -> TurnRows]
        /\ \A t \in Turns : A[t].st = (IF t \in P THEN "interrupted" ELSE turn[t].st) /\ A[t].n = turn[t].n
             /\ A[t].sent = turn[t].sent /\ A[t].retries = turn[t].retries /\ A[t].disp = turn[t].disp
    BY <1>1, EndedRows DEF States
  <1>3. \A t \in Turns : t \in P <=> \/ turn[t].st \in Active
                                     \/ o.kind \in Lifecycle /\ turn[t].st = "queued" /\ turn[t].seq <= o.cutoff
    BY DEF Preempted
  <1>4. /\ \A t \in Hs : t \in P
        /\ Hs # {} => Retries(o)
        /\ o.kind = "delete" => Hs = {}
    BY DEF HandedBack, Retries
  <1> HIDE DEF A, P, Hs
  <1>5. /\ B \in [Turns -> TurnRows]
        /\ \A t \in Turns : B[t].st = (IF t \in Hs THEN "queued" ELSE A[t].st) /\ B[t].n = A[t].n
             /\ B[t].sent = A[t].sent /\ B[t].retries = A[t].retries /\ B[t].disp = A[t].disp
    BY <1>2, EndedRows DEF States
  <1> HIDE DEF B
  <1>6. /\ C \in [Turns -> TurnRows]
        /\ \A t \in Turns : C[t].st = (IF t \in Q THEN "cancelled" ELSE B[t].st) /\ C[t].n = B[t].n
             /\ C[t].sent = B[t].sent /\ C[t].retries = B[t].retries /\ C[t].disp = B[t].disp
    BY <1>5, EndedRows DEF States
  <1> HIDE DEF C
  <1> DEFINE E == AfterPreemption(o)
  <1>7. E = IF o.kind = "delete" THEN C ELSE B
    BY DEF AfterPreemption, A, B, C, P, Hs
  <1> HIDE DEF E
  <1>8. E \in [Turns -> TurnRows]
    BY <1>5, <1>6, <1>7
  <1>9. ASSUME NEW t \in Turns
        PROVE  /\ E[t].n = turn[t].n /\ E[t].sent = turn[t].sent /\ E[t].retries = turn[t].retries /\ E[t].disp = turn[t].disp
               /\ E[t].st \notin Active /\ E[t].st \in {turn[t].st, "interrupted", "queued", "cancelled"}
               /\ turn[t].st \notin Active \cup {"queued"} => E[t].st = turn[t].st
               /\ o.kind = "delete" => E[t].st # "queued"
               /\ E[t].st = "queued" => turn[t].st = "queued" \/ (turn[t].st \in Active /\ Retries(o))
    <2>1. /\ E[t].n = turn[t].n /\ E[t].sent = turn[t].sent /\ E[t].retries = turn[t].retries /\ E[t].disp = turn[t].disp
      BY <1>2, <1>5, <1>6, <1>7
    <2>2. CASE o.kind = "delete"
      BY <1>2, <1>3, <1>4, <1>5, <1>6, <1>7, <2>1, <2>2 DEF Active, Q
    <2>3. CASE o.kind # "delete"
      BY <1>2, <1>3, <1>4, <1>5, <1>7, <2>1, <2>3 DEF Active
    <2>4. QED
      BY <2>2, <2>3
  <1>10. QED
    BY <1>8, <1>9 DEF E

\* What claiming an operation changes.
Claimed(l, i, o) ==
  /\ i \in Slots /\ o = Base[i] /\ o.kind # "none" /\ OpDue(l, o)
  /\ o.kind = "start" => ActiveIn(l) = {}
  /\ op' \in [Slots -> OpRows]
  /\ op'[i].st = "running" /\ op'[i].kind = o.kind /\ op'[i].by = o.by /\ op'[i].turn = o.turn
  /\ \A j \in Slots : j # i => (op'[j] = Base[j] \/ op'[j] = NoOp) /\ op'[j].st # "running"
  /\ l = "main" /\ o.kind = "delete" => \A j \in Slots : j # i => op'[j].kind = "none"
  /\ IF Restarts(l, o) THEN turn' = AfterPreemption(o) /\ dec' = CloseAll({t \in Turns : turn[t].st \in Active})
                       ELSE turn' = turn /\ dec' = dec
  /\ lease[l] = Idle /\ LeasesTyped'
  /\ l = "main" /\ o.kind = "delete" => lease'["routine"] = Idle

LEMMA ClaimedOperation ==
  ASSUME RowsInv, NEW l \in Lanes, ClaimOperation(l)
  PROVE  \E i \in Slots : Claimed(l, i, Base[i])
  <1>1. TypeOK /\ OpsAgree /\ LeasesTyped
    BY RowsByPart
  <1>2. PICK w \in Found(l, "op") :
          LET o == Base[w.id]
              kept == IF l = "main" THEN Without(Base, Superseded(w.id, Base)) ELSE Base
          IN  /\ OneRunning(w.id, kept)
              /\ op' = [kept EXCEPT ![w.id].st = "running"]
              /\ turn' = IF Restarts(l, o) THEN AfterPreemption(o) ELSE turn
              /\ dec' = IF Restarts(l, o) THEN CloseAll({t \in Turns : turn[t].st \in Active}) ELSE dec
              /\ lease' = [lease EXCEPT ![l] = [kind |-> "op", id |-> w.id],
                                        !["routine"] = IF l = "routine" THEN [kind |-> "op", id |-> w.id]
                                                       ELSE IF o.kind = "delete" THEN Idle ELSE @]
    BY DEF ClaimOperation
  <1> DEFINE i == w.id
             o == Base[i]
             kept == IF l = "main" THEN Without(Base, Superseded(i, Base)) ELSE Base
  <1>3. /\ i \in Slots /\ o.kind # "none" /\ OpDue(l, o) /\ lease[l] = Idle
        /\ o.kind = "start" => ActiveIn(l) = {}
    BY <1>1, FoundOperation, FoundWork
  <1>4. Base \in [Slots -> OpRows] /\ (\A j \in Slots : Base[j].kind = "none" => Base[j].st = "pending")
    BY <1>1, AgreeingOps
  <1>5. /\ kept \in [Slots -> OpRows] /\ kept[i] = o
        /\ \A j \in Slots : kept[j] = Base[j] \/ kept[j] = NoOp
        /\ l = "main" => \A j \in Slots : kept[j] = IF j \in Superseded(i, Base) THEN NoOp ELSE Base[j]
    BY <1>3, <1>4, WithoutRows DEF Superseded
  <1>6. OneRunning(i, kept) /\ op' = [kept EXCEPT ![i].st = "running"]
    BY <1>2
  <1>7. lease' = [lease EXCEPT ![l] = [kind |-> "op", id |-> i],
                               !["routine"] = IF l = "routine" THEN [kind |-> "op", id |-> i]
                                              ELSE IF o.kind = "delete" THEN Idle ELSE @]
    BY <1>2
  <1>8. IF Restarts(l, o) THEN turn' = AfterPreemption(o) /\ dec' = CloseAll({t \in Turns : turn[t].st \in Active})
                          ELSE turn' = turn /\ dec' = dec
    BY <1>2
  <1> HIDE DEF i, o, kept
  <1>9. /\ op' \in [Slots -> OpRows]
        /\ op'[i].st = "running" /\ op'[i].kind = o.kind /\ op'[i].by = o.by /\ op'[i].turn = o.turn
        /\ \A j \in Slots : j # i => op'[j] = kept[j]
    BY <1>3, <1>5, <1>6 DEF OpRows
  <1>10. \A j \in Slots : j # i => kept[j].st # "running"
    <2>1. \A j \in Slots : kept[j].kind = "none" => kept[j].st = "pending"
      BY <1>4, <1>5, EmptySlot
    <2>2. QED
      BY <1>6, <2>1 DEF OneRunning, Live
  <1>11. l = "main" /\ o.kind = "delete" => \A j \in Slots : j # i => op'[j].kind = "none"
    <2> SUFFICES ASSUME l = "main", o.kind = "delete", NEW j \in Slots, j # i, Base[j].kind # "none", kept[j] = Base[j],
                        j \notin Superseded(i, Base)
                 PROVE  FALSE
      BY <1>5, <1>9, EmptySlot
    <2>1. Base[j].st # "pending"
      BY <1>3 DEF Superseded, Live, o
    <2>2. Base[j].st \in {"pending", "running"}
      BY <1>4 DEF OpRows
    <2>3. QED
      BY <1>10, <2>1, <2>2
  <1>12. LeasesTyped' /\ (l = "main" /\ o.kind = "delete" => lease'["routine"] = Idle)
    <2>1. i # NoTurn /\ [kind |-> "op", id |-> i] \in LeaseRows
      BY <1>3, TurnAssumption DEF LeaseRows
    <2>2. Idle \in LeaseRows /\ Idle.kind = "none" /\ Idle.id = NoTurn
      BY DEF Idle, LeaseRows
    <2>3. /\ \A k \in Lanes : lease'[k] \in {lease[k], [kind |-> "op", id |-> i], Idle}
          /\ l = "main" /\ o.kind = "delete" => lease'["routine"] = Idle
          /\ DOMAIN lease' = Lanes /\ lease' = [k \in Lanes |-> lease'[k]]
      BY <1>1, <1>7 DEF LeasesTyped, Lanes
    <2>4. lease' \in [Lanes -> LeaseRows]
      BY <1>1, <2>1, <2>2, <2>3 DEF LeasesTyped
    <2>5. QED
      BY <1>1, <2>1, <2>2, <2>3, <2>4 DEF LeasesTyped
  <1>13. QED
    BY <1>3, <1>5, <1>8, <1>9, <1>10, <1>11, <1>12, ZenonT(30) DEF Claimed, o

LEMMA ClaimOperationRows ==
  ASSUME RowsInv, NEW l \in Lanes, ClaimOperation(l)
  PROVE  RowsInv'
  <1>1. PICK i \in Slots : Claimed(l, i, Base[i])
    BY ClaimedOperation
  <1>2. TypeOK /\ OpsAgree /\ QuestionsAgree /\ TurnsTyped /\ QuestionsHold
    BY RowsByPart
  <1> DEFINE o == Base[i]
  <1>3. TurnsTyped'
    BY <1>1, <1>2, PreemptedRows DEF Claimed, TurnsTyped
  <1>4. OpsHold'
    <2>1. /\ op' \in [Slots -> OpRows] /\ op'[i].kind = o.kind /\ op'[i].by = o.by /\ op'[i].turn = o.turn /\ o.kind # "none"
          /\ \A j \in Slots : j # i => op'[j] = Base[j] \/ op'[j] = NoOp
      BY <1>1 DEF Claimed
    <2>2. \A j \in Slots : /\ Base[j].kind = "none" => Base[j].st = "pending"
                           /\ Base[j].by = "turn" => Base[j].kind = "start" /\ Base[j].turn \in Turns
      BY <1>2, AgreeingOps
    <2>3. QED
      BY <2>1, <2>2, EmptySlot DEF OpsHold, OpsAgree
  <1>5. QuestionsHold'
    BY <1>1, <1>2, ClosedAllAgrees DEF Claimed, QuestionsHold, QuestionsAgree
  <1>6. LeasesTyped' /\ RestTyped'
    BY <1>1, KeptParts DEF Claimed, ClaimOperation, Kept
  <1>7. QED
    BY <1>3, <1>4, <1>5, <1>6, RowsByPart

\* An operation gets the Box when no turn runs in it, or ends them all with their questions.
LEMMA ClaimOperationKeeps ==
  ASSUME CompanionInv, NEW l \in Lanes, ClaimOperation(l)
  PROVE  CompanionInv'
  <1>1. CompanionInv /\ RowsInv /\ TypeOK /\ OpsAgree /\ WorkInv /\ QuestionsInv /\ RowsInv'
    BY ClaimOperationRows DEF CompanionInv, RowsInv
  <1>2. PICK i \in Slots : Claimed(l, i, Base[i])
    BY <1>1, ClaimedOperation
  <1> DEFINE o == Base[i]
  <1>3. /\ Base \in [Slots -> OpRows]
        /\ \A j \in Slots : Base[j].kind = "delete" => op[j].kind = "delete"
        /\ \A j \in Slots : Base[j].kind # "none" /\ Retries(Base[j]) => Base[j] = op[j]
    BY <1>1, AgreeingOps
  <1>4. /\ op'[i].kind = o.kind /\ op'[i].by = o.by /\ op'[i].turn = o.turn /\ op'[i].st = "running"
        /\ \A j \in Slots : j # i => (op'[j] = Base[j] \/ op'[j] = NoOp) /\ op'[j].st # "running"
        /\ OpDue(l, o) /\ o.kind \in {"start", "delete"} \cup Lifecycle
    BY <1>2, <1>3 DEF Claimed, OpRows
  <1>5. \A t \in Turns : /\ turn'[t].n = turn[t].n
                         /\ turn'[t].st \in Active => turn[t].st \in Active /\ turn'[t].st = turn[t].st
                         /\ turn[t].st = "interrupted" => turn'[t].st = "interrupted"
                         /\ Restarts(l, o) => turn'[t].st \notin Active /\ (o.kind = "delete" => turn'[t].st # "queued")
    <2>1. CASE Restarts(l, o)
      <3>1. turn' = AfterPreemption(o)
        BY <1>2, <2>1 DEF Claimed
      <3> HIDE DEF o
      <3>2. \A t \in Turns : LET r == AfterPreemption(o)[t]
                             IN  /\ r.n = turn[t].n /\ r.st \notin Active
                                 /\ turn[t].st \notin Active \cup {"queued"} => r.st = turn[t].st
                                 /\ o.kind = "delete" => r.st # "queued"
        BY <1>1, PreemptedRows
      <3>3. QED
        BY <3>1, <3>2 DEF Active
    <2>2. CASE ~Restarts(l, o)
      BY <1>2, <2>2 DEF Claimed
    <2>3. QED
      BY <2>1, <2>2
  <1>6. BoxWorkIsAlone'
    <2> SUFFICES ASSUME NEW j \in Slots, op'[j].st = "running", OpLane(op'[j]) = "main", NEW t \in Turns
                 PROVE  turn'[t].st \notin Active
      BY DEF BoxWorkIsAlone
    <2>1. j = i /\ OpLane(o) = "main" /\ l = "main"
      BY <1>4 DEF OpLane, OpDue
    <2>2. CASE o.kind = "start"
      <3>1. ActiveIn("main") = {} /\ ActiveIn("routine") = {}
        BY <1>2, <1>4, <2>1, <2>2 DEF Claimed, OpDue, MayUseBox, Quiescent, Lifecycle
      <3>2. QED
        BY <1>5, <3>1 DEF ActiveIn, TurnsOf, Turns
    <2>3. CASE o.kind # "start"
      BY <1>4, <1>5, <2>1, <2>3 DEF Restarts
    <2>4. QED
      BY <2>2, <2>3
  <1>7. RetriesWait'
    <2> SUFFICES ASSUME NEW j \in Live(op'), Retries(op'[j])
                 PROVE  /\ turn'[op'[j].turn].st = "interrupted"
                        /\ \A k \in Live(op') : Retries(op'[k]) /\ op'[k].turn = op'[j].turn => k = j
      BY DEF RetriesWait, Live
    <2>1. \A k \in Live(op') : Retries(op'[k]) =>
            k \in Live(op) /\ Retries(op[k]) /\ op'[k].turn = op[k].turn /\ op[k].turn \in Turns
      <3> SUFFICES ASSUME NEW k \in Live(op'), Retries(op'[k])
                   PROVE  k \in Live(op) /\ Retries(op[k]) /\ op'[k].turn = op[k].turn /\ op[k].turn \in Turns
        OBVIOUS
      <3>1. k \in Slots /\ op'[k].kind # "none"
        BY DEF Live
      <3>2. Base[k].kind = op'[k].kind /\ Base[k].by = op'[k].by /\ Base[k].turn = op'[k].turn
        BY <1>4, <3>1, EmptySlot
      <3>3. Base[k] = op[k] /\ Retries(op[k]) /\ op[k].kind # "none"
        BY <1>3, <3>1, <3>2 DEF Retries
      <3>4. QED
        BY <1>3, <3>1, <3>2, <3>3 DEF Live, OpRows, Retries
    <2>2. QED
      BY <1>1, <1>5, <2>1 DEF WorkInv, RetriesWait
  <1>8. DeleteWasAsked'
    <2>1. \A j \in Slots : op'[j].kind = "delete" => op[j].kind = "delete"
      BY <1>3, <1>4, EmptySlot
    <2>2. QED
      BY <1>1, <2>1 DEF WorkInv, DeleteWasAsked, ClaimOperation
  <1>9. DeleteRunsAlone'
    <2> SUFFICES ASSUME NEW j \in Slots, op'[j].kind = "delete", op'[j].st = "running"
                 PROVE  /\ \A t \in Turns : turn'[t].st \notin Active \cup {"queued"}
                        /\ Live(op') = {j} /\ lease'["routine"] = Idle
      BY DEF DeleteRunsAlone
    <2>1. j = i /\ o.kind = "delete" /\ l = "main"
      BY <1>4 DEF OpLane, OpDue
    <2>2. Restarts(l, o)
      BY <2>1 DEF Restarts
    <2>3. lease'["routine"] = Idle /\ \A k \in Slots : k # i => op'[k].kind = "none"
      BY <1>2, <2>1 DEF Claimed
    <2>4. QED
      BY <1>4, <1>5, <2>1, <2>2, <2>3 DEF Live
  <1>10. QuestionsInv'
    <2>1. CASE Restarts(l, o)
      <3> DEFINE T == {t \in Turns : turn[t].st \in Active}
                 U == UNION {AskedBy(t) : t \in T}
      <3>1. dec' = Close(U) /\ \A t \in T : AskedBy(t) \subseteq U
        BY <1>2, <2>1 DEF Claimed, CloseAll
      <3>2. \A t \in Turns : turn[t].st \in Active => t \in T
        OBVIOUS
      <3> HIDE DEF U, T
      <3>3. \A d \in Decisions : SameQuestion(d)
        BY <1>1, <3>1, ClosedRows DEF SameQuestion, Owed
      <3>4. \A t \in Turns : Ends(t)
        <4> SUFFICES ASSUME NEW t \in Turns PROVE Ends(t)
          OBVIOUS
        <4>1. turn'[t].st # "needs_input"
          BY <1>5, <2>1 DEF Active
        <4>2. ASSUME turn[t].st \in Active, NEW d \in AskedBy(t) PROVE dec'[d].dv \notin {"pending", "write_intent"}
          <5>1. d \in Decisions /\ d \in U
            BY <3>1, <3>2, <4>2 DEF AskedBy
          <5>2. QED
            BY <1>1, <3>1, <5>1, ClosedRows
        <4>3. QED
          BY <4>1, <4>2 DEF Ends
      <3>5. QED
        BY <1>1, <3>3, <3>4, QuestionsKept DEF QuestionsFollow
    <2>2. CASE ~Restarts(l, o)
      <3>1. TurnsGo({}, "failed") /\ dec' = dec
        BY <1>2, <2>2 DEF Claimed, TurnsGo
      <3>2. QuestionsFollow
        BY <3>1, LeftQuestions DEF Active
      <3>3. QED
        BY <1>1, <3>2, QuestionsKept
    <2>3. QED
      BY <2>1, <2>2
  <1>11. QED
    BY <1>1, <1>6, <1>7, <1>8, <1>9, <1>10 DEF CompanionInv, WorkInv
-----------------------------------------------------------------------------
(* The theorems.                                                             *)

LEMMA StartsInvariant == Init => CompanionInv
  <1> SUFFICES ASSUME Init PROVE CompanionInv
    OBVIOUS
  <1>1. TypeOK
    BY BoundAssumption DEF Init, TypeOK, TurnRows, OpRows, NoOp, DecRows, Idle, Active
  <1>2. OpsAgree /\ QuestionsAgree
    BY DEF Init, OpsAgree, QuestionsAgree, NoOp
  <1>3. WorkInv
    BY DEF Init, WorkInv, BoxWorkIsAlone, RetriesWait, DeleteWasAsked, DeleteRunsAlone, NoOp, Live
  <1>4. QuestionsInv
    BY DEF Init, QuestionsInv, DecisionsFollowAttempt, WaitingHasQuestion
  <1>5. QED
    BY <1>1, <1>2, <1>3, <1>4 DEF CompanionInv, RowsInv

LEMMA StepKeeps == CompanionInv /\ [Next]_vars => CompanionInv'
  <1> SUFFICES ASSUME CompanionInv, [Next]_vars PROVE CompanionInv'
    OBVIOUS
  <1>1. CASE Api
    BY <1>1, EnqueueKeeps, CancelKeeps, RetryKeeps, DropRoutineTurnKeeps, AnswerKeeps, RequestKeeps DEF Api
  <1>2. CASE Claim
    BY <1>2, FenceStartKeeps, SweepOnlyKeeps, FenceAttemptKeeps, FenceDecisionKeeps, ClaimOperationKeeps,
       ClaimDecisionKeeps, ResumeAttemptKeeps, ClaimQueuedTurnKeeps DEF Claim, ClaimLane
  <1>3. CASE \E t \in Turns : ExecuteTurn(t) \/ PiReports(t)
    BY <1>3, DispatchKeeps, PromptOutcomeKeeps, SettleAttemptKeeps, ProjectKeeps DEF ExecuteTurn, PiReports
  <1>4. CASE \E d \in Decisions : ExecuteDecision(d)
    BY <1>4, DeliverKeeps, DeliveryAmbiguousKeeps, SettleDeliveryKeeps, RetryDeliveryKeeps, EndDeliveryKeeps
       DEF ExecuteDecision
  <1>5. CASE \E i \in Slots : ExecuteOperation(i)
    BY <1>5, BootKeeps, OperationDoneKeeps, OperationFailedKeeps DEF ExecuteOperation
  <1>6. CASE Environment
    BY <1>6, ReleaseKeeps, LoseKeeps, DisableKeeps, EnableKeeps, BoxAgesKeeps, BoxArchivedKeeps, ExpireKeeps, LateKeeps
       DEF Environment
  <1>7. CASE UNCHANGED vars
    <2>1. RowsInv /\ RowsInv' /\ OpsQuiet /\ LeaseQuiet /\ RetirementStays
      <3>1. TurnsTyped' /\ OpsHold' /\ QuestionsHold' /\ LeasesTyped' /\ RestTyped'
        BY <1>7, KeptParts DEF CompanionInv, vars, Kept
      <3>2. QED
        BY <1>7, <3>1, RowsByPart, QuietOps, QuietLease DEF vars, CompanionInv, RetirementStays
    <2>2. TurnsGo({}, "failed")
      BY <1>7 DEF vars, TurnsGo
    <2>3. QuestionsFollow
      BY <1>7, <2>2, LeftQuestions DEF vars, Active
    <2>4. QED
      BY <2>1, <2>2, <2>3, PlainStep DEF Active
  <1>8. QED
    BY <1>1, <1>2, <1>3, <1>4, <1>5, <1>6, <1>7 DEF Next, Execute

\* The inductive invariant holds in every behaviour.
THEOREM CompanionHolds == Spec => []CompanionInv
  BY StartsInvariant, StepKeeps, PTL DEF Spec
-----------------------------------------------------------------------------
(* How a turn moves, one step at a time.                                     *)

SameCounts(t) == turn'[t].n = turn[t].n /\ turn'[t].sent = turn[t].sent
KeepsPrompt(t) == turn'[t].disp = turn[t].disp \/ turn'[t].disp # "pending"
RetriedBy(t, own) == \E i \in Live(op) : Retries(op[i]) /\ (own => op[i].turn = t)

TurnMoves(t) ==
  \/ turn'[t].st = turn[t].st /\ SameCounts(t) /\ KeepsPrompt(t)
  \/ turn[t].st = "none" /\ turn'[t].st = "queued" /\ SameCounts(t)
  \/ /\ turn[t].st = "queued" /\ turn'[t].st = "starting" /\ turn'[t].disp = "pending"
     /\ turn'[t].n = turn[t].n + 1 /\ turn'[t].sent = turn[t].sent
  \/ /\ turn[t].st \in Active /\ turn'[t].st = turn[t].st /\ turn[t].disp = "pending" /\ turn'[t].disp = "write_intent"
     /\ turn'[t].n = turn[t].n /\ turn'[t].sent = turn[t].sent + 1
  \/ turn[t].st \in Active /\ turn'[t].st \in Active /\ SameCounts(t) /\ KeepsPrompt(t)
  \/ turn[t].st \in Active \cup {"queued"} /\ turn'[t].st \in Outcomes /\ SameCounts(t)
  \/ turn[t].st = "interrupted" /\ turn'[t].st = "cancelled" /\ SameCounts(t)
  \/ turn[t].st \in Active /\ turn'[t].st = "queued" /\ SameCounts(t) /\ RetriedBy(t, FALSE)
  \/ turn[t].st = "interrupted" /\ turn'[t].st = "queued" /\ SameCounts(t) /\ RetriedBy(t, TRUE)

\* Turns that end are running or queued, or were interrupted and are cancelled.
LEMMA EndingMoves ==
  ASSUME RowsInv, NEW T, NEW how \in Outcomes, turn' = End(turn, T, how), NEW t \in Turns,
         t \in T => turn[t].st \in Active \cup {"queued"} \/ (turn[t].st = "interrupted" /\ how = "cancelled")
  PROVE  TurnMoves(t)
  <1>1. /\ turn'[t].st = (IF t \in T THEN how ELSE turn[t].st) /\ SameCounts(t) /\ KeepsPrompt(t)
    BY EndedRows DEF RowsInv, TypeOK, States, Outcomes, SameCounts, KeepsPrompt
  <1>2. QED
    BY <1>1 DEF TurnMoves

LEMMA ApiMoves ==
  ASSUME CompanionInv, Api, NEW u \in Turns
  PROVE  TurnMoves(u)
  <1>1. RowsInv /\ turn \in [Turns -> TurnRows]
    BY DEF CompanionInv, RowsInv, TypeOK
  <1>2. ASSUME NEW t \in Turns, Enqueue(t) PROVE TurnMoves(u)
    <2>1. turn[t].st = "none" /\ turn' = [turn EXCEPT ![t].st = "queued", ![t].seq = 1 + LastTurn]
      BY <1>2 DEF Enqueue
    <2>2. QED
      BY <1>1, <2>1, ZenonT(30) DEF TurnMoves, SameCounts, KeepsPrompt, TurnRows
  <1>3. ASSUME NEW t \in Turns, Cancel(t) PROVE TurnMoves(u)
    <2>1. CASE turn' = [turn EXCEPT ![t].cancel = TRUE]
      BY <1>1, <2>1 DEF TurnMoves, SameCounts, KeepsPrompt, TurnRows
    <2>2. CASE turn' = End(turn, {t}, "cancelled")
      <3>1. turn[t].st \in Active \cup {"queued", "interrupted"}
        BY <1>3 DEF Cancel
      <3>2. QED
        BY <1>1, <2>2, <3>1, EndingMoves DEF Outcomes
    <2>3. QED
      BY <1>3, <2>1, <2>2 DEF Cancel
  <1>4. ASSUME NEW t \in Turns, Retry(t) PROVE TurnMoves(u)
    BY <1>1, <1>4 DEF Retry, TurnMoves, SameCounts, KeepsPrompt, TurnRows
  <1>5. ASSUME NEW t \in Turns, DropRoutineTurn(t) PROVE TurnMoves(u)
    BY <1>1, <1>5, EndingMoves DEF DropRoutineTurn, Outcomes
  <1>6. turn' = turn => TurnMoves(u)
    BY DEF TurnMoves, SameCounts, KeepsPrompt
  <1>7. QED
    BY <1>2, <1>3, <1>4, <1>5, <1>6 DEF Api, Answer, Request

LEMMA ClaimMoves ==
  ASSUME CompanionInv, Claim, NEW u \in Turns
  PROVE  TurnMoves(u)
  <1>1. RowsInv /\ TypeOK /\ turn \in [Turns -> TurnRows] /\ OpsAgree
    BY DEF CompanionInv, RowsInv, TypeOK
  <1>2. CASE FenceStart
    <2>1. PICK w \in Found("main", "op") : turn' = End(turn, TakenAlong(Base[w.id]), "interrupted")
      BY <1>2 DEF FenceStart
    <2>2. \A v \in TakenAlong(Base[w.id]) : turn[v].st \in Active \cup {"queued"}
      BY DEF TakenAlong
    <2>3. "interrupted" \in Outcomes
      BY DEF Outcomes
    <2>4. QED
      BY <1>1, <2>1, <2>2, <2>3, EndingMoves
  <1>3. ASSUME NEW l \in Lanes, FenceAttempt(l) PROVE TurnMoves(u)
    <2>1. PICK w \in Found(l, "attempt") : turn' = [End(turn, {w.id}, "interrupted") EXCEPT ![w.id].disp = "ambiguous"]
      BY <1>3 DEF FenceAttempt
    <2>2. w.id \in Turns /\ turn[w.id].st \in Active
      BY FoundAttempt
    <2> DEFINE E == End(turn, {w.id}, "interrupted")
    <2>3. /\ E \in [Turns -> TurnRows] /\ E[u].n = turn[u].n /\ E[u].sent = turn[u].sent /\ E[u].disp = turn[u].disp
          /\ E[u].st = IF u \in {w.id} THEN "interrupted" ELSE turn[u].st
      BY <1>1, EndedRows DEF States
    <2>4. turn' = [E EXCEPT ![w.id].disp = "ambiguous"]
      BY <2>1
    <2> HIDE DEF E
    <2>5. /\ turn'[u].n = E[u].n /\ turn'[u].sent = E[u].sent /\ turn'[u].st = E[u].st
          /\ u # w.id => turn'[u].disp = E[u].disp
      BY <2>3, <2>4 DEF TurnRows
    <2>6. QED
      BY <2>2, <2>3, <2>5 DEF TurnMoves, SameCounts, KeepsPrompt, Outcomes
  <1>4. ASSUME NEW l \in Lanes, FenceDecision(l) PROVE TurnMoves(u)
    <2>1. PICK w \in Found(l, "decision") : turn' = End(turn, {dec[w.id].turn}, "interrupted")
      BY <1>4 DEF FenceDecision
    <2>2. turn[dec[w.id].turn].st \in Active
      BY FoundDecision DEF DecisionDue
    <2>3. QED
      BY <1>1, <2>1, <2>2, EndingMoves DEF Outcomes
  <1>5. ASSUME NEW l \in Lanes, ClaimQueuedTurn(l) PROVE TurnMoves(u)
    <2>1. PICK w \in Found(l, "queued") :
            turn' = [turn EXCEPT ![w.id].st = "starting", ![w.id].n = @ + 1, ![w.id].late = FALSE,
                                 ![w.id].disp = "pending", ![w.id].proof = "none"]
      BY <1>5 DEF ClaimQueuedTurn
    <2>2. w.id \in Turns /\ turn[w.id].st = "queued"
      BY <1>1, FoundQueued
    <2>3. QED
      <3>1. u # w.id => turn'[u] = turn[u]
        BY <1>1, <2>1
      <3>2. u = w.id => /\ turn'[u].st = "starting" /\ turn'[u].disp = "pending"
                        /\ turn'[u].n = turn[u].n + 1 /\ turn'[u].sent = turn[u].sent
        BY <1>1, <2>1, SMTT(30) DEF TurnRows
      <3>3. QED
        BY <2>2, <3>1, <3>2 DEF TurnMoves, SameCounts, KeepsPrompt
  <1>6. turn' = turn => TurnMoves(u)
    BY DEF TurnMoves, SameCounts, KeepsPrompt
  <1>7. ASSUME NEW l \in Lanes, ClaimOperation(l) PROVE TurnMoves(u)
    <2>1. PICK i \in Slots : Claimed(l, i, Base[i])
      BY <1>1, <1>7, ClaimedOperation
    <2> DEFINE o == Base[i]
    <2>2. CASE Restarts(l, o)
      <3>1. turn' = AfterPreemption(o)
        BY <2>1, <2>2 DEF Claimed
      <3>2. Retries(o) => RetriedBy(u, FALSE)
        <4>1. o.kind # "none" /\ (Retries(o) => o = op[i])
          BY <1>1, <2>1, AgreeingOps DEF Claimed
        <4>2. QED
          BY <4>1 DEF RetriedBy, Live
      <3> HIDE DEF o
      <3>3. LET r == AfterPreemption(o)[u]
            IN  /\ r.n = turn[u].n /\ r.sent = turn[u].sent /\ r.disp = turn[u].disp
                /\ r.st \notin Active /\ r.st \in {turn[u].st, "interrupted", "queued", "cancelled"}
                /\ turn[u].st \notin Active \cup {"queued"} => r.st = turn[u].st
                /\ r.st = "queued" => turn[u].st = "queued" \/ (turn[u].st \in Active /\ Retries(o))
        BY <1>1, PreemptedRows
      <3>4. QED
        BY <3>1, <3>2, <3>3 DEF TurnMoves, SameCounts, KeepsPrompt, Outcomes
    <2>3. CASE ~Restarts(l, o)
      BY <1>6, <2>1, <2>3 DEF Claimed
    <2>4. QED
      BY <2>2, <2>3
  <1>8. QED
    BY <1>2, <1>3, <1>4, <1>5, <1>6, <1>7 DEF Claim, ClaimLane, SweepOnly, ClaimDecision, ResumeAttempt

LEMMA ExecutorMoves ==
  ASSUME CompanionInv, Execute \/ Environment, NEW u \in Turns
  PROVE  TurnMoves(u)
  <1>1. RowsInv /\ WorkInv /\ TypeOK /\ OpsAgree /\ turn \in [Turns -> TurnRows]
    BY DEF CompanionInv, RowsInv, TypeOK
  <1>2. ASSUME NEW t \in Turns, Dispatch(t) PROVE TurnMoves(u)
    BY <1>1, <1>2 DEF Dispatch, Executing, TurnMoves, SameCounts, KeepsPrompt, TurnRows
  <1>3. ASSUME NEW t \in Turns, PromptOutcome(t) PROVE TurnMoves(u)
    <2>1. turn[t].st \in Active /\ \E s \in {"accepted", "rejected", "ambiguous"} :
            \/ turn' = [turn EXCEPT ![t].disp = s, ![t].st = "running"] \/ turn' = [turn EXCEPT ![t].disp = s]
      BY <1>3 DEF PromptOutcome, Executing
    <2>2. QED
      <3>1. u # t => turn'[u] = turn[u]
        BY <1>1, <2>1
      <3>2. u = t => turn'[u].st \in {turn[u].st, "running"} /\ SameCounts(u) /\ turn'[u].disp # "pending"
        BY <1>1, <2>1 DEF SameCounts, TurnRows
      <3>3. QED
        BY <2>1, <3>1, <3>2 DEF TurnMoves, SameCounts, KeepsPrompt, Active
  <1>4. ASSUME NEW t \in Turns, NEW how \in Outcomes, SettleAttempt(t, how) PROVE TurnMoves(u)
    BY <1>1, <1>4, EndingMoves DEF SettleAttempt, Executing
  <1>5. ASSUME NEW t \in Turns, NEW Ds \in SUBSET Decisions, NEW p, Project(t, Ds, p) PROVE TurnMoves(u)
    <2>1. turn[t].st = "running" /\ turn' = [turn EXCEPT ![t].st = AfterBatch(Ds, p), ![t].proof = p]
      BY <1>5 DEF Project
    <2>2. AfterBatch(Ds, p) \in Active
      BY DEF AfterBatch, Active
    <2>3. QED
      BY <1>1, <2>1, <2>2 DEF TurnMoves, SameCounts, KeepsPrompt, TurnRows, Active
  <1>6. ASSUME NEW d \in Decisions, SettleDelivery(d) PROVE TurnMoves(u)
    <2>1. turn[dec[d].turn].st \in Active /\ (turn' = turn \/ turn' = [turn EXCEPT ![dec[d].turn].st = "running"])
      BY <1>6 DEF SettleDelivery, Delivering, DecisionDue
    <2>2. QED
      <3> DEFINE v == dec[d].turn
      <3>1. turn[v].st \in Active /\ (turn' = turn \/ turn' = [turn EXCEPT ![v].st = "running"])
        BY <2>1
      <3> HIDE DEF v
      <3>2. /\ u # v => turn'[u] = turn[u]
            /\ u = v => turn'[u].st \in {turn[u].st, "running"} /\ SameCounts(u) /\ turn'[u].disp = turn[u].disp
        BY <1>1, <3>1 DEF SameCounts, TurnRows
      <3>3. QED
        BY <3>1, <3>2 DEF TurnMoves, SameCounts, KeepsPrompt, Active
  <1>7. ASSUME NEW d \in Decisions, NEW how \in {"interrupted", "cancelled"}, EndDelivery(d, how) PROVE TurnMoves(u)
    <2>1. turn[dec[d].turn].st \in Active /\ turn' = End(turn, {dec[d].turn}, how)
      BY <1>7 DEF EndDelivery, Delivering, DecisionDue
    <2>2. QED
      BY <1>1, <2>1, EndingMoves DEF Outcomes
  <1>8. ASSUME NEW i \in Slots, OperationDone(i) PROVE TurnMoves(u)
    <2>1. op[i].st = "running" /\ Proved(op[i]) /\ op[i].kind # "none"
      BY <1>1, <1>8 DEF OperationDone, Operating, OpsAgree
    <2>2. CASE Retries(op[i])
      <3> DEFINE v == op[i].turn
      <3>1. turn[v].st = "interrupted" /\ RetriedBy(v, TRUE)
        BY <2>1, <2>2 DEF Proved, RetriedBy, Live
      <3>2. turn' = [turn EXCEPT ![v].st = "queued", ![v].late = FALSE]
        BY <1>8, <2>2 DEF OperationDone
      <3> HIDE DEF v
      <3>3. QED
        BY <1>1, <3>1, <3>2, ZenonT(30) DEF TurnMoves, SameCounts, KeepsPrompt, TurnRows
    <2>3. CASE ~Retries(op[i])
      BY <1>8, <2>3 DEF OperationDone, TurnMoves, SameCounts, KeepsPrompt
    <2>4. QED
      BY <2>2, <2>3
  <1>9. ASSUME NEW i \in Slots, NEW how \in {"failed", "interrupted"}, OperationFailed(i, how) PROVE TurnMoves(u)
    <2>1. turn' = End(turn, TakenAlong(op[i]), how) /\ how \in Outcomes
      BY <1>9 DEF OperationFailed, Outcomes
    <2>2. u \in TakenAlong(op[i]) => turn[u].st \in Active \cup {"queued"}
      BY DEF TakenAlong
    <2>3. QED
      BY <1>1, <2>1, <2>2, EndingMoves
  <1>10. ASSUME Disable PROVE TurnMoves(u)
    <2> DEFINE T == {t \in Turns : \/ turn[t].st \in Active
                                   \/ /\ turn[t].st = "queued"
                                      /\ \E i \in Live(op) : /\ op[i].kind = "start" /\ op[i].turn = t
                                                             /\ op[i].st = "running"}
    <2>1. turn' = End(turn, T, "interrupted") /\ (u \in T => turn[u].st \in Active \cup {"queued"})
      BY <1>10 DEF Disable
    <2> HIDE DEF T
    <2>2. QED
      BY <1>1, <2>1, EndingMoves DEF Outcomes
  <1>11. ASSUME NEW t \in Turns, Late(t) PROVE TurnMoves(u)
    BY <1>1, <1>11 DEF Late, TurnMoves, SameCounts, KeepsPrompt, TurnRows
  <1>12. turn' = turn => TurnMoves(u)
    BY DEF TurnMoves, SameCounts, KeepsPrompt
  <1>13. CASE Execute
    BY <1>2, <1>3, <1>4, <1>5, <1>6, <1>7, <1>8, <1>9, <1>12, <1>13
       DEF Execute, ExecuteTurn, PiReports, ExecuteDecision, ExecuteOperation, Deliver, DeliveryAmbiguous, RetryDelivery, Boot
  <1>14. CASE Environment
    BY <1>10, <1>11, <1>12, <1>14 DEF Environment, Release, Lose, Enable, BoxAges, BoxArchived, Expire
  <1>15. QED
    BY <1>13, <1>14

\* Every step moves every turn in one of the ways of TurnMoves.
LEMMA TurnsMove ==
  ASSUME CompanionInv, [Next]_vars, NEW t \in Turns
  PROVE  TurnMoves(t)
  <1>1. CASE UNCHANGED vars
    BY <1>1 DEF vars, TurnMoves, SameCounts, KeepsPrompt
  <1>2. QED
    BY <1>1, ApiMoves, ClaimMoves, ExecutorMoves DEF Next

\* A settled turn moves again only through a retry the user asked for.
THEOREM SettledStay == Spec => SettledStaysSettled
  <1>1. CompanionInv /\ [Next]_vars =>
          [\A t \in Turns :
             /\ turn[t].st \in {"succeeded", "failed", "cancelled"} => turn'[t].st = turn[t].st
             /\ turn[t].st = "interrupted" /\ turn'[t].st = "queued" =>
                  \E i \in Live(op) : Retries(op[i]) /\ op[i].turn = t]_vars
    <2> SUFFICES ASSUME CompanionInv, [Next]_vars, NEW t \in Turns
                 PROVE  /\ turn[t].st \in {"succeeded", "failed", "cancelled"} => turn'[t].st = turn[t].st
                        /\ turn[t].st = "interrupted" /\ turn'[t].st = "queued" =>
                             \E i \in Live(op) : Retries(op[i]) /\ op[i].turn = t
      OBVIOUS
    <2>1. TurnMoves(t)
      BY TurnsMove
    <2>2. QED
      BY <2>1 DEF TurnMoves, RetriedBy, Active, Outcomes
  <1>2. QED
    BY <1>1, CompanionHolds, PTL DEF Spec, SettledStaysSettled
-----------------------------------------------------------------------------
(* The prompt of an attempt.                                                 *)

\* Each attempt writes its prompt at most once, and one that has its prompt pending has not.
PromptsCounted == \A t \in Turns : /\ turn[t].sent <= turn[t].n
                                   /\ turn[t].st \in Active /\ turn[t].disp = "pending" => turn[t].sent < turn[t].n

\* Without retries a turn has one attempt, from the time it starts.
OneAttempt == /\ \A t \in Turns : turn[t].n <= 1 /\ (turn[t].st \in {"none", "queued"} => turn[t].n = 0)
              /\ \A i \in Live(op) : ~Retries(op[i])

\* What a move does to the counts of a turn.
Counts(t) ==
  \/ /\ SameCounts(t)
     /\ turn'[t].st \in Active /\ turn'[t].disp = "pending" => turn[t].st \in Active /\ turn[t].disp = "pending"
     /\ turn'[t].st \in {"none", "queued"} =>
          turn[t].st \in {"none", "queued"} \/ RetriedBy(t, FALSE) \/ RetriedBy(t, TRUE)
  \/ turn[t].st = "queued" /\ turn'[t].st = "starting" /\ turn'[t].n = turn[t].n + 1 /\ turn'[t].sent = turn[t].sent
  \/ /\ turn[t].st \in Active /\ turn'[t].st = turn[t].st /\ turn[t].disp = "pending" /\ turn'[t].disp = "write_intent"
     /\ turn'[t].n = turn[t].n /\ turn'[t].sent = turn[t].sent + 1

LEMMA CountMoves ==
  ASSUME NEW t \in Turns, TurnMoves(t)
  PROVE  Counts(t)
  BY DEF Counts, TurnMoves, KeepsPrompt, Active, Outcomes

LEMMA PromptsKept ==
  ASSUME CompanionInv, CompanionInv', PromptsCounted, [Next]_vars
  PROVE  PromptsCounted'
  <1> SUFFICES ASSUME NEW t \in Turns
               PROVE  /\ turn'[t].sent <= turn'[t].n
                      /\ turn'[t].st \in Active /\ turn'[t].disp = "pending" => turn'[t].sent < turn'[t].n
    BY DEF PromptsCounted
  <1>1. TurnMoves(t)
    BY TurnsMove
  <1>2. turn[t].sent \in Nat /\ turn[t].n \in Nat
    BY DEF CompanionInv, RowsInv, TypeOK, TurnRows
  <1>3. turn[t].sent <= turn[t].n /\ (turn[t].st \in Active /\ turn[t].disp = "pending" => turn[t].sent < turn[t].n)
    BY DEF PromptsCounted
  <1>4. QED
    <2>1. Counts(t)
      BY <1>1, CountMoves
    <2>2. CASE /\ SameCounts(t)
               /\ turn'[t].st \in Active /\ turn'[t].disp = "pending" => turn[t].st \in Active /\ turn[t].disp = "pending"
      BY <1>3, <2>2 DEF SameCounts
    <2>3. CASE turn[t].st = "queued" /\ turn'[t].n = turn[t].n + 1 /\ turn'[t].sent = turn[t].sent
      BY <1>2, <1>3, <2>3
    <2>4. CASE /\ turn[t].st \in Active /\ turn[t].disp = "pending" /\ turn'[t].disp = "write_intent"
               /\ turn'[t].n = turn[t].n /\ turn'[t].sent = turn[t].sent + 1
      <3>1. turn[t].sent < turn[t].n /\ turn'[t].disp # "pending"
        BY <1>3, <2>4
      <3>2. QED
        BY <1>2, <2>4, <3>1
    <2>5. QED
      BY <2>1, <2>2, <2>3, <2>4 DEF Counts

\* The prompt of a turn reaches Pi at most once for each attempt, retries or not.
THEOREM PromptOncePerAttempt == Spec => [](\A t \in Turns : turn[t].sent <= turn[t].n)
  <1>1. Init => PromptsCounted
    BY DEF Init, PromptsCounted, Active
  <1>2. CompanionInv /\ CompanionInv' /\ PromptsCounted /\ [Next]_vars => PromptsCounted'
    BY PromptsKept
  <1>3. PromptsCounted => \A t \in Turns : turn[t].sent <= turn[t].n
    BY DEF PromptsCounted
  <1>4. QED
    BY <1>1, <1>2, <1>3, CompanionHolds, PTL DEF Spec

\* Only a retry files a retry.
LEMMA NoNewRetries ==
  ASSUME CompanionInv, [Next]_vars, "retry" \notin Requests, NEW i \in Live(op'), Retries(op'[i])
  PROVE  \E j \in Live(op) : Retries(op[j])
  <1>1. RowsInv /\ TypeOK /\ OpsAgree /\ op \in [Slots -> OpRows] /\ i \in Slots /\ op'[i].kind # "none"
    BY DEF CompanionInv, RowsInv, TypeOK, Live
  <1>2. (\E S : op' = op \/ op' = Base \/ op' = Without(op, S) \/ op' = Without(Base, S)) => OpsGo
    BY <1>1, GoingOps
  <1>3. OpsGo => op[i].kind # "none" /\ Retries(op[i])
    BY <1>1, EmptySlot DEF OpsGo, SameOp, TurnStart, Retries
  <1>4. CASE Api
    <2>1. ASSUME NEW t \in Turns, Enqueue(t) PROVE OpsGo
      <3>1. op' = op \/ op' = FileStart(op, t)
        BY <2>1 DEF Enqueue
      <3>2. QED
        BY <1>1, <1>2, <3>1, StartFiled DEF OpsGo, SameOp
    <2>2. ASSUME NEW k \in Lifecycle \cup {"delete"}, Request(k) PROVE op[i].kind # "none" /\ Retries(op[i])
      <3> DEFINE F == File(op, k, "user", NoTurn)
      <3>4. k \in {"start", "delete"} \cup Lifecycle /\ NoTurn \in Turns \cup {NoTurn} /\ "user" \in {"user", "turn"}
        OBVIOUS
      <3>1. \A j \in Slots : F[j] = op[j] \/ (F[j].kind = k /\ F[j].by = "user" /\ F[j].turn = NoTurn /\ F[j].st = "pending")
        BY <1>1, <3>4, FiledRow
      <3>2. op' = F
        BY <2>2 DEF Request
      <3> HIDE DEF F
      <3>3. QED
        BY <1>1, <3>1, <3>2 DEF Retries
    <2>3. \A t \in Turns : ~Retry(t)
      BY DEF Retry
    <2>4. \A t \in Turns : Cancel(t) \/ DropRoutineTurn(t) => \E S : op' = Without(op, S)
      BY DEF Cancel, DropRoutineTurn
    <2>5. \A d \in Decisions : Answer(d) => op' = op
      BY DEF Answer
    <2>6. op[i].kind # "none" /\ Retries(op[i])
      BY <1>2, <1>3, <1>4, <2>1, <2>2, <2>3, <2>4, <2>5 DEF Api
    <2>7. QED
      BY <1>1, <2>6 DEF Live
  <1>5. CASE Claim
    <2>1. ASSUME NEW l \in Lanes, ClaimOperation(l) PROVE op[i].kind # "none" /\ Retries(op[i])
      <3>1. PICK k \in Slots : Claimed(l, k, Base[k])
        BY <1>1, <2>1, ClaimedOperation
      <3>2. Base[i].kind = op'[i].kind /\ Base[i].by = op'[i].by /\ Base[i].turn = op'[i].turn
        BY <1>1, <3>1, EmptySlot DEF Claimed
      <3>3. QED
        BY <1>1, <3>2, AgreeingOps DEF Retries
    <2>2. FenceStart => \E S : op' = Without(Base, S)
      BY DEF FenceStart
    <2>3. \A l \in Lanes : ClaimLane(l) /\ ~ClaimOperation(l) => op' = Base
      BY DEF ClaimLane, FenceAttempt, FenceDecision, ClaimDecision, ResumeAttempt, ClaimQueuedTurn
    <2>4. op[i].kind # "none" /\ Retries(op[i])
      BY <1>2, <1>3, <1>5, <2>1, <2>2, <2>3 DEF Claim, SweepOnly
    <2>5. QED
      BY <1>1, <2>4 DEF Live
  <1>6. CASE Execute
    <2>1. ASSUME NEW k \in Slots, Boot(k) PROVE OpsGo
      BY <1>1, <2>1 DEF Boot, OpsGo, SameOp, OpRows
    <2>2. ASSUME NEW k \in Slots, OperationDone(k) PROVE \E S : op' = Without(op, S)
      <3>1. [j \in Slots |-> NoOp] = Without(op, Slots)
        BY DEF Without
      <3>2. QED
        BY <2>2, <3>1 DEF OperationDone
    <2>3. ASSUME NEW k \in Slots, NEW how, OperationFailed(k, how) PROVE \E S : op' = Without(op, S)
      BY <2>3 DEF OperationFailed
    <2>4. (\E t \in Turns : ExecuteTurn(t) \/ PiReports(t)) => op' = op
      BY DEF ExecuteTurn, PiReports, Dispatch, PromptOutcome, SettleAttempt, Project
    <2>5. (\E d \in Decisions : ExecuteDecision(d)) => op' = op
      BY DEF ExecuteDecision, Deliver, DeliveryAmbiguous, SettleDelivery, RetryDelivery, EndDelivery
    <2>6. OpsGo
      BY <1>2, <1>6, <2>1, <2>2, <2>3, <2>4, <2>5 DEF Execute, ExecuteOperation
    <2>7. QED
      BY <1>1, <1>3, <2>6 DEF Live
  <1>7. CASE Environment \/ UNCHANGED vars
    <2>1. \E S : op' = op \/ op' = Without(op, S)
      BY <1>7 DEF Environment, vars, Release, Lose, Disable, Enable, BoxAges, BoxArchived, Expire, Late
    <2>2. QED
      BY <1>1, <1>2, <1>3, <2>1 DEF Live
  <1>8. QED
    BY <1>4, <1>5, <1>6, <1>7 DEF Next

LEMMA OneAttemptKept ==
  ASSUME CompanionInv, "retry" \notin Requests, OneAttempt, [Next]_vars
  PROVE  OneAttempt'
  <1>1. \A i \in Live(op') : ~Retries(op'[i])
    BY NoNewRetries DEF OneAttempt
  <1>2. ASSUME NEW t \in Turns
        PROVE  turn'[t].n <= 1 /\ (turn'[t].st \in {"none", "queued"} => turn'[t].n = 0)
    <2>1. TurnMoves(t)
      BY TurnsMove
    <2>2. turn[t].n <= 1 /\ (turn[t].st \in {"none", "queued"} => turn[t].n = 0) /\ ~RetriedBy(t, FALSE) /\ ~RetriedBy(t, TRUE)
      BY DEF OneAttempt, RetriedBy
    <2>3. turn[t].n \in Nat
      BY DEF CompanionInv, RowsInv, TypeOK, TurnRows
    <2>4. QED
      <3>1. Counts(t)
        BY <2>1, CountMoves
      <3>2. CASE /\ SameCounts(t)
                 /\ turn'[t].st \in {"none", "queued"} => turn[t].st \in {"none", "queued"}
        BY <2>2, <3>2 DEF SameCounts
      <3>3. CASE turn[t].st = "queued" /\ turn'[t].st = "starting" /\ turn'[t].n = turn[t].n + 1
        BY <2>2, <3>3
      <3>4. CASE turn[t].st \in Active /\ turn'[t].st = turn[t].st /\ turn'[t].n = turn[t].n
        BY <2>2, <3>4 DEF Active
      <3>5. QED
        BY <2>2, <3>1, <3>2, <3>3, <3>4 DEF Counts
  <1>3. QED
    BY <1>1, <1>2 DEF OneAttempt

\* Where users may not retry, the prompt of a turn is written to Pi at most once.
THEOREM PromptWrittenOnce == "retry" \notin Requests => (Spec => []PromptNeedsPermission)
  <1> SUFFICES ASSUME "retry" \notin Requests PROVE Spec => []PromptNeedsPermission
    OBVIOUS
  <1>1. Init => PromptsCounted /\ OneAttempt
    BY DEF Init, PromptsCounted, OneAttempt, Active, Live, NoOp
  <1>2. CompanionInv /\ CompanionInv' /\ PromptsCounted /\ OneAttempt /\ [Next]_vars => PromptsCounted' /\ OneAttempt'
    BY PromptsKept, OneAttemptKept
  <1>3. CompanionInv /\ PromptsCounted /\ OneAttempt => PromptNeedsPermission
    BY DEF CompanionInv, RowsInv, TypeOK, TurnRows, PromptsCounted, OneAttempt, PromptNeedsPermission
  <1>4. QED
    BY <1>1, <1>2, <1>3, CompanionHolds, PTL DEF Spec
-----------------------------------------------------------------------------
(* What is delivered stays delivered.                                        *)

\* The delivery of a question moves on: nothing that Pi may have is pending again.
AnswerStands(d) == /\ dec[d].cmd => dec'[d].dv # "pending"
                   /\ dec[d].dv \in {"delivered", "cancelled"} => dec'[d].dv = dec[d].dv

\* Closing questions that are still owed leaves the others as they stand.
LEMMA ClosingStands ==
  ASSUME TypeOK, QuestionsAgree, NEW Ds, Ds \subseteq {d \in Decisions : Undelivered(d)}, dec' = Close(Ds),
         NEW d \in Decisions
  PROVE  AnswerStands(d)
  <1>1. CASE d \in Ds
    <2>1. dec'[d].dv = (IF dec[d].cmd THEN "ambiguous" ELSE "cancelled") /\ Undelivered(d)
      BY <1>1, ClosedRows
    <2>2. QED
      BY <2>1 DEF AnswerStands, Undelivered
  <1>2. CASE d \notin Ds
    <2>1. dec'[d] = dec[d]
      BY <1>2, ClosedRows
    <2>2. QED
      BY <2>1 DEF AnswerStands, QuestionsAgree
  <1>3. QED
    BY <1>1, <1>2

LEMMA ClosingAllStands ==
  ASSUME TypeOK, QuestionsAgree, NEW T, dec' = CloseAll(T), NEW d \in Decisions
  PROVE  AnswerStands(d)
  BY ClosingStands, AskedAreUndelivered DEF CloseAll

\* A question whose row keeps its delivery stands.
LEMMA KeptStands ==
  ASSUME QuestionsAgree, NEW d \in Decisions, dec'[d].dv = dec[d].dv
  PROVE  AnswerStands(d)
  BY DEF AnswerStands, QuestionsAgree

LEMMA ApiStands ==
  ASSUME CompanionInv, Api, NEW d \in Decisions
  PROVE  AnswerStands(d)
  <1>1. TypeOK /\ QuestionsAgree /\ dec \in [Decisions -> DecRows]
    BY DEF CompanionInv, RowsInv, TypeOK
  <1>2. ASSUME NEW t \in Turns, Enqueue(t) PROVE dec'[d].dv = dec[d].dv
    BY <1>1, <1>2 DEF Enqueue, DecRows
  <1>3. ASSUME NEW t \in Turns, Cancel(t) PROVE AnswerStands(d)
    <2> DEFINE Ds == {e \in Decisions : Undelivered(e) /\ dec[e].turn = t}
    <2>1. dec' = dec \/ dec' = Close(Ds)
      BY <1>3 DEF Cancel
    <2>2. Ds \subseteq {e \in Decisions : Undelivered(e)}
      OBVIOUS
    <2> HIDE DEF Ds
    <2>3. QED
      BY <1>1, <2>1, <2>2, ClosingStands, KeptStands
  <1>4. ASSUME NEW e \in Decisions, Answer(e) PROVE dec'[d].dv = dec[d].dv
    BY <1>1, <1>4 DEF Answer, DecRows
  <1>5. ASSUME \/ \E t \in Turns : Retry(t) \/ DropRoutineTurn(t)
               \/ \E k \in Requests \cap (Lifecycle \cup {"delete"}) : Request(k)
        PROVE  dec' = dec
    BY <1>5 DEF Retry, DropRoutineTurn, Request
  <1>6. QED
    BY <1>1, <1>2, <1>3, <1>4, <1>5, KeptStands DEF Api

LEMMA ClaimStands ==
  ASSUME CompanionInv, Claim, NEW d \in Decisions
  PROVE  AnswerStands(d)
  <1>1. TypeOK /\ QuestionsAgree /\ dec \in [Decisions -> DecRows]
    BY DEF CompanionInv, RowsInv, TypeOK
  <1>2. ASSUME FenceStart \/ SweepOnly PROVE dec' = dec
    BY <1>2 DEF FenceStart, SweepOnly
  <1>3. ASSUME NEW l \in Lanes, ClaimLane(l) PROVE AnswerStands(d)
    <2>1. CASE FenceAttempt(l) \/ FenceDecision(l)
      <3>1. \E T : dec' = CloseAll(T)
        BY <2>1 DEF FenceAttempt, FenceDecision
      <3>2. QED
        BY <1>1, <3>1, ClosingAllStands
    <2>2. CASE ClaimOperation(l)
      <3>1. dec' = dec \/ dec' = CloseAll({t \in Turns : turn[t].st \in Active})
        BY <2>2 DEF ClaimOperation
      <3>2. QED
        BY <1>1, <3>1, ClosingAllStands, KeptStands
    <2>3. CASE ClaimDecision(l)
      <3>1. dec'[d].dv = dec[d].dv
        BY <1>1, <2>3 DEF ClaimDecision, DecRows
      <3>2. QED
        BY <1>1, <3>1, KeptStands
    <2>4. CASE ResumeAttempt(l) \/ ClaimQueuedTurn(l)
      <3>1. dec' = dec
        BY <2>4 DEF ResumeAttempt, ClaimQueuedTurn
      <3>2. QED
        BY <1>1, <3>1, KeptStands
    <2>5. QED
      BY <1>3, <2>1, <2>2, <2>3, <2>4 DEF ClaimLane
  <1>4. QED
    BY <1>1, <1>2, <1>3, KeptStands DEF Claim

\* What the holder of a decision's lease does to a question.
LEMMA DeliveryStands ==
  ASSUME CompanionInv, NEW e \in Decisions, ExecuteDecision(e), NEW d \in Decisions
  PROVE  AnswerStands(d)
  <1>1. TypeOK /\ QuestionsAgree /\ dec \in [Decisions -> DecRows]
    BY DEF CompanionInv, RowsInv, TypeOK
  <1>2. Delivering(e)
    BY DEF ExecuteDecision, Deliver, DeliveryAmbiguous, SettleDelivery, RetryDelivery, EndDelivery
  <1>3. dec[e].dv \in {"pending", "write_intent", "ambiguous"}
    BY <1>2 DEF Delivering, DecisionDue
  <1>4. CASE Deliver(e) \/ DeliveryAmbiguous(e) \/ SettleDelivery(e)
    <2>1. \E v \in {"write_intent", "ambiguous", "delivered"} :
            \/ dec' = [dec EXCEPT ![e].dv = v]
            \/ dec' = [dec EXCEPT ![e].dv = v, ![e].cmd = TRUE]
      BY <1>4 DEF Deliver, DeliveryAmbiguous, SettleDelivery
    <2>2. IF d = e THEN dec'[d].dv \in {"write_intent", "ambiguous", "delivered"} ELSE dec'[d] = dec[d]
      BY <1>1, <2>1 DEF DecRows
    <2>3. QED
      BY <1>1, <1>3, <2>2, KeptStands DEF AnswerStands
  <1>5. CASE RetryDelivery(e)
    <2>1. dec' = [dec EXCEPT ![e].dv = "pending"] /\ ~dec[e].cmd
      BY <1>5 DEF RetryDelivery, MayHaveReachedPi
    <2>2. d # e => dec'[d] = dec[d]
      BY <1>1, <2>1
    <2>3. QED
      BY <1>1, <1>3, <2>1, <2>2, KeptStands DEF AnswerStands
  <1>6. ASSUME NEW how \in {"interrupted", "cancelled"}, EndDelivery(e, how) PROVE AnswerStands(d)
    <2> DEFINE C == CloseAll({dec[e].turn})
               v == IF how = "interrupted" /\ dec[e].cmd THEN "ambiguous" ELSE "cancelled"
    <2>1. dec' = [C EXCEPT ![e].dv = v] /\ v \in {"ambiguous", "cancelled"}
      BY <1>6 DEF EndDelivery
    <2>2. C = Close(UNION {AskedBy(t) : t \in {dec[e].turn}})
      BY DEF CloseAll
    <2>3. UNION {AskedBy(t) : t \in {dec[e].turn}} \subseteq {x \in Decisions : Undelivered(x)}
      BY AskedAreUndelivered
    <2> HIDE DEF C, v
    <2>4. C \in [Decisions -> DecRows]
      BY <1>1, <2>2, ClosedRows
    <2>5. CASE d = e
      <3>1. dec'[d].dv = v
        BY <2>1, <2>4, <2>5 DEF DecRows
      <3>2. QED
        BY <1>3, <2>1, <2>5, <3>1 DEF AnswerStands
    <2>6. CASE d # e
      <3> DEFINE Ds == UNION {AskedBy(t) : t \in {dec[e].turn}}
      <3>1. dec'[d] = C[d] /\ C = Close(Ds) /\ Ds \subseteq {x \in Decisions : Undelivered(x)}
        BY <2>1, <2>2, <2>3, <2>4, <2>6
      <3> HIDE DEF Ds
      <3>2. CASE d \in Ds
        <4>1. dec'[d].dv = (IF dec[d].cmd THEN "ambiguous" ELSE "cancelled") /\ Undelivered(d)
          BY <1>1, <3>1, <3>2, ClosedRows
        <4>2. QED
          BY <4>1 DEF AnswerStands, Undelivered
      <3>3. CASE d \notin Ds
        BY <1>1, <3>1, <3>3, ClosedRows, KeptStands
      <3>4. QED
        BY <3>2, <3>3
    <2>7. QED
      BY <2>5, <2>6
  <1>7. QED
    BY <1>4, <1>5, <1>6 DEF ExecuteDecision

LEMMA ExecuteStands ==
  ASSUME CompanionInv, Execute, NEW d \in Decisions
  PROVE  AnswerStands(d)
  <1>1. TypeOK /\ QuestionsAgree /\ dec \in [Decisions -> DecRows]
    BY DEF CompanionInv, RowsInv, TypeOK
  <1>2. ASSUME NEW t \in Turns, ExecuteTurn(t) PROVE AnswerStands(d)
    <2>1. dec' = dec \/ dec' = CloseAll({t})
      BY <1>2 DEF ExecuteTurn, Dispatch, PromptOutcome, SettleAttempt
    <2>2. QED
      BY <1>1, <2>1, ClosingAllStands, KeptStands
  <1>3. ASSUME NEW t \in Turns, NEW Ds \in SUBSET Decisions, NEW p, Project(t, Ds, p) PROVE AnswerStands(d)
    <2>1. dec'[d] = (IF d \in Ds THEN Asked(t) ELSE dec[d]) /\ (d \in Ds => dec[d].st = "none")
      BY <1>3 DEF Project
    <2>2. CASE d \in Ds
      <3>1. dec[d].dv = "pending" /\ ~dec[d].cmd
        BY <1>1, <2>1, <2>2 DEF QuestionsAgree
      <3>2. QED
        BY <3>1 DEF AnswerStands
    <2>3. QED
      BY <1>1, <2>1, <2>2, KeptStands
  <1>4. ASSUME NEW i \in Slots, ExecuteOperation(i) PROVE dec' = dec
    BY <1>4 DEF ExecuteOperation, Boot, OperationDone, OperationFailed
  <1>5. QED
    BY <1>1, <1>2, <1>3, <1>4, DeliveryStands, KeptStands DEF Execute, PiReports

LEMMA OutsideStands ==
  ASSUME CompanionInv, Environment \/ UNCHANGED vars, NEW d \in Decisions
  PROVE  AnswerStands(d)
  <1>1. TypeOK /\ QuestionsAgree /\ dec \in [Decisions -> DecRows]
    BY DEF CompanionInv, RowsInv, TypeOK
  <1>2. CASE Disable
    <2>1. dec' = Close(LeftOpen) /\ LeftOpen \subseteq {e \in Decisions : Undelivered(e)}
      BY <1>2 DEF Disable, LeftOpen
    <2>2. QED
      BY <1>1, <2>1, ClosingStands
  <1>3. ASSUME NEW e \in Decisions, Expire(e) PROVE dec'[d].dv = dec[d].dv
    BY <1>1, <1>3 DEF Expire, DecRows
  <1>4. ASSUME UNCHANGED vars \/ Enable \/ BoxAges \/ BoxArchived \/ (\E l \in Lanes : Release(l) \/ Lose(l))
                 \/ (\E t \in Turns : Late(t))
        PROVE  dec' = dec
    BY <1>4 DEF vars, Enable, BoxAges, BoxArchived, Release, Lose, Late
  <1>5. QED
    BY <1>1, <1>2, <1>3, <1>4, KeptStands DEF Environment

\* An answer Pi may have is never written again, and the fate of a question stands.
THEOREM AnswersStand == Spec => NoAnswerReplayed
  <1>1. CompanionInv /\ [Next]_vars =>
          [\A d \in Decisions : /\ dec[d].cmd => dec'[d].dv # "pending"
                                /\ dec[d].dv \in {"delivered", "cancelled"} => dec'[d].dv = dec[d].dv]_vars
    <2> SUFFICES ASSUME CompanionInv, [Next]_vars, NEW d \in Decisions PROVE AnswerStands(d)
      BY DEF AnswerStands
    <2>1. QED
      BY ApiStands, ClaimStands, ExecuteStands, OutsideStands DEF Next
  <1>2. QED
    BY <1>1, CompanionHolds, PTL DEF Spec, NoAnswerReplayed

\* What ended stays so: answers, questions and turns.
THEOREM EndingsStand == Spec => EndingsStay
  BY AnswersStand, SettledStay DEF EndingsStay
-----------------------------------------------------------------------------
(* What else follows from the inductive invariant.                           *)

\* Every reachable row has the shape of its table.
THEOREM CompanionTyped == Spec => []TypeOK
  <1>1. CompanionInv => TypeOK
    BY DEF CompanionInv, RowsInv
  <1>2. QED
    BY <1>1, CompanionHolds, PTL

\* A question still owed to Pi belongs to the attempt that asked it, which runs.
THEOREM QuestionsFollowAttempts == Spec => []DecisionsFollowAttempt
  <1>1. CompanionInv => DecisionsFollowAttempt
    BY DEF CompanionInv, QuestionsInv
  <1>2. QED
    BY <1>1, CompanionHolds, PTL

\* A turn left waiting has its question, and a retry under way its interrupted turn.
THEOREM TurnsWaitForSomething == Spec => []TurnsHaveTheirReason
  <1>1. CompanionInv => TurnsHaveTheirReason
    BY DEF CompanionInv, QuestionsInv, WorkInv, RetriesWait, TurnsHaveTheirReason, RunningRetryHasInterruptedSource
  <1>2. QED
    BY <1>1, CompanionHolds, PTL

\* Work on the Box keeps out of the way of a routine turn, and a delete of everything.
THEOREM LanesStayClear == Spec => []LanesExclude
  <1>1. CompanionInv => LanesExclude
    BY DEF CompanionInv, WorkInv, BoxWorkIsAlone, LanesExclude, BoxWorkExcludesRoutine, Quiescent, ActiveIn,
           TurnsOf, Turns
  <1>2. QED
    BY <1>1, CompanionHolds, PTL
-----------------------------------------------------------------------------
(* The claim of work on the Box.                                             *)

\* Only the claim of an operation gives the main lane an operation.
LEMMA OperationIsClaimed ==
  ASSUME CompanionInv, [Next]_vars, NEW i \in Slots, lease["main"] = Idle,
         lease'["main"] = [kind |-> "op", id |-> i]
  PROVE  ClaimOperation("main")
  <1>1. LeasesTyped /\ "main" \in Lanes /\ "routine" \in Lanes /\ lease \in [Lanes -> LeaseRows]
    BY RowsByPart DEF CompanionInv, LeasesTyped, Lanes
  <1>2. lease'["main"] # Idle /\ lease'["main"].kind = "op"
    BY DEF Idle
  <1>3. ~UNCHANGED lease
    BY <1>2
  <1>4. \A l : ~FreeLane(l)
    BY <1>1, <1>2 DEF FreeLane
  <1>5. \A l \in Lanes : \A k, x : Grant(l, k, x) => (l = "main" => k = "op")
    BY <1>1, <1>2 DEF Grant
  <1>6. \A l \in Lanes : \A k, x : Grant(l, k, x) => l = "main"
    BY <1>1, <1>2 DEF Grant
  <1>7. ~Api
    BY <1>3 DEF Api, Enqueue, Cancel, Retry, DropRoutineTurn, Answer, Request
  <1>8. ~Execute
    <2>1. \A t \in Turns : ~ExecuteTurn(t) /\ ~PiReports(t)
      BY <1>3, <1>4 DEF ExecuteTurn, PiReports, Dispatch, PromptOutcome, SettleAttempt, Project
    <2>2. \A d \in Decisions : ~ExecuteDecision(d)
      BY <1>3, <1>4 DEF ExecuteDecision, Deliver, DeliveryAmbiguous, SettleDelivery, RetryDelivery, EndDelivery
    <2>3. \A k \in Slots : ~ExecuteOperation(k)
      BY <1>3, <1>4 DEF ExecuteOperation, Boot, OperationDone, OperationFailed
    <2>4. QED
      BY <2>1, <2>2, <2>3 DEF Execute
  <1>9. ~Environment /\ ~UNCHANGED vars
    BY <1>1, <1>2, <1>3, <1>4 DEF Environment, vars, Release, Lose, Disable, Enable, BoxAges, BoxArchived, Expire, Late
  <1>10. Claim
    BY <1>7, <1>8, <1>9 DEF Next
  <1>11. ~FenceStart /\ ~SweepOnly
    BY <1>3 DEF FenceStart, SweepOnly
  <1>12. ASSUME NEW l \in Lanes, ClaimLane(l) PROVE ClaimOperation(l) /\ l = "main"
    <2>1. ~FenceAttempt(l) /\ ~FenceDecision(l)
      BY <1>3 DEF FenceAttempt, FenceDecision
    <2>2. ~ClaimDecision(l) /\ ~ResumeAttempt(l) /\ ~ClaimQueuedTurn(l)
      BY <1>5, <1>6 DEF ClaimDecision, ResumeAttempt, ClaimQueuedTurn
    <2>3. ClaimOperation(l)
      BY <1>12, <2>1, <2>2 DEF ClaimLane
    <2>4. l # "main" => lease'["main"] = lease["main"]
      BY <1>1, <2>3 DEF ClaimOperation, Lanes
    <2>5. QED
      BY <1>2, <2>3, <2>4
  <1>13. QED
    BY <1>10, <1>11, <1>12 DEF Claim

\* Claiming an operation on the Box never ends a routine turn that runs in it:
\* only a delete does.
THEOREM RoutinesAreSpared == Spec => BoxWorkSparesRoutine
  <1>1. CompanionInv /\ [Next]_vars =>
          [\A t \in RoutineTurns, i \in Slots :
             (/\ turn[t].st \in Active /\ op[i].kind # "delete"
              /\ lease["main"] = Idle /\ lease'["main"] = [kind |-> "op", id |-> i]) =>
                turn'[t].st \in Active]_vars
    <2> SUFFICES ASSUME CompanionInv, [Next]_vars, NEW t \in RoutineTurns, NEW i \in Slots,
                        turn[t].st \in Active, op[i].kind # "delete",
                        lease["main"] = Idle, lease'["main"] = [kind |-> "op", id |-> i]
                 PROVE  FALSE
      OBVIOUS
    <2>1. ClaimOperation("main")
      BY OperationIsClaimed
    <2>2. TypeOK /\ OpsAgree /\ lease \in [Lanes -> LeaseRows] /\ "main" \in Lanes /\ "routine" \in Lanes
      BY RowsByPart DEF CompanionInv, LeasesTyped, Lanes
    <2>3. PICK w \in Found("main", "op") :
            \E z : lease' = [lease EXCEPT !["main"] = [kind |-> "op", id |-> w.id], !["routine"] = z]
      BY <2>1 DEF ClaimOperation
    <2>4. lease'["main"] = [kind |-> "op", id |-> w.id]
      BY <2>2, <2>3
    <2>5. w.id = i
      BY <2>4
    <2>6. OpDue("main", Base[i])
      BY <2>2, <2>5, FoundOperation
    <2>7. Base[i].kind # "delete"
      BY <2>2, AgreeingOps
    <2>8. Quiescent
      BY <2>6, <2>7 DEF OpDue, MayUseBox
    <2>9. QED
      BY <2>8 DEF Quiescent, ActiveIn, TurnsOf
  <1>2. QED
    BY <1>1, CompanionHolds, PTL DEF Spec, BoxWorkSparesRoutine
-----------------------------------------------------------------------------
(* The triggers and the hooks providers keep for them.  Every action of a   *)
(* request holds the row of the trigger from its first write to its end     *)
(* (FOR UPDATE in companion_api_get_trigger_for_registration), so what the  *)
(* provider has at each point is what the holder of the lock has read or    *)
(* written, until the row and the hooks are torn apart in a named way.      *)

\* Rows of a trigger, hooks of a provider, and what a request carries.
HookPlaces == Places \cup {"none"}
TriggerRows == [place : HookPlaces, bound : BOOLEAN, secret : Nat, born : Nat, enabled : BOOLEAN, failures : Nat,
                status : {"manual", "unregistered", "registered", "failed"}, hook : Nat]
HookOps == {"none", "create", "move", "toggle", "delete", "rotate", "wire", "unwire"}
HookPcs == {"idle", "list", "unload", "remove", "draft", "apply", "load", "find", "post", "recover", "commit"}
HookRequests == [op : HookOps, at : HookPcs, draft : TriggerRows, wired : BOOLEAN, did : BOOLEAN, mine : TriggerRows]
HooksTyped == /\ trigger \in TriggerRows /\ lock \in Members \cup {"nobody"}
              /\ torn \in BOOLEAN /\ connected \in BOOLEAN
              /\ drawn \in Nat /\ hooks \in SUBSET [id : Nat \ {0}, place : HookPlaces, secret : Nat]
              /\ request \in [Members -> HookRequests]

\* What the provider keeps for a row that remembers its hook; a row without a secret remembers none.
HooksFor(t) == IF t.hook = 0 THEN {} ELSE {[id |-> t.hook, place |-> t.place, secret |-> t.secret]}
RowHolds(t) == (t.secret = 0 => t.hook = 0) /\ (t.failures >= MaxFailures => ~t.enabled)

\* Where a request stands with the lock of the row, and where without.
LockedPcs == {"remove", "find", "post", "recover", "commit"}
UnlockedPcs == {"idle", "list", "unload"}

\* What a request that stands at r knows of the hooks once it has the lock of the row.
Stand(c, r) ==
  /\ r.at \in LockedPcs \/ r.did => lock = c
  /\ r.at \in UnlockedPcs => lock # c
  /\ r.at = "list" => r.op # "unwire"
  /\ r.at \in {"draft", "apply"} /\ r.wired => lock = c /\ r.mine.hook = 0
  /\ lock = c => RowHolds(r.mine)
  /\ r.at \in {"find", "post", "recover"} => r.mine.secret # 0
  /\ r.at = "post" => H!HooksOf(r.mine) = {}
  /\ lock = c /\ ~torn =>
       /\ ~r.did => hooks = HooksFor(trigger)
       /\ r.at # "recover" => hooks = HooksFor(r.mine)
       /\ r.at = "recover" => hooks \subseteq H!HooksOf(r.mine) /\ r.mine.hook = 0 /\ (~r.did => hooks = {})

HooksInv == /\ HooksTyped /\ RowHolds(trigger) /\ H!OneHookPerUrl
            /\ lock = "nobody" /\ ~torn => hooks = HooksFor(trigger)
            /\ \A c \in Members : Stand(c, request[c])
-----------------------------------------------------------------------------
LEMMA HookRowsAtRest ==
  /\ H!NoTrigger \in TriggerRows /\ RowHolds(H!NoTrigger) /\ HooksFor(H!NoTrigger) = {} /\ H!Idle \in HookRequests
  /\ H!Idle.at = "idle" /\ ~H!Idle.did /\ ~H!Idle.wired
  BY PartsAssumption DEF H!NoTrigger, H!Idle, TriggerRows, HookPlaces, HookRequests, HookOps, HookPcs,
                         RowHolds, HooksFor

LEMMA HookStarts == H!Init => HooksInv
  <1> SUFFICES ASSUME H!Init PROVE HooksInv
    OBVIOUS
  <1> USE PartsAssumption
  <1>1. HooksTyped
    BY HookRowsAtRest DEF H!Init, HooksTyped, H!Nobody
  <1>2. ASSUME NEW c \in Members PROVE Stand(c, H!Idle)
    BY HookRowsAtRest DEF Stand, H!Init, H!Nobody, LockedPcs, UnlockedPcs
  <1>3. QED
    BY <1>1, <1>2, HookRowsAtRest DEF HooksInv, H!Init, H!OneHookPerUrl

\* A step of one request leaves those that do not hold the lock where they stand.
LEMMA HookStep ==
  ASSUME HooksInv, NEW c \in Members, NEW r \in HookRequests, request' = [request EXCEPT ![c] = r],
         HooksTyped', torn => torn', lock' \in {lock, c, "nobody"}, lock' # lock => lock \in {"nobody", c},
         hooks' # hooks => lock = c, trigger' # trigger => lock = c,
         RowHolds(trigger'), H!OneHookPerUrl', lock' = "nobody" /\ ~torn' => hooks' = HooksFor(trigger'),
         Stand(c, r)'
  PROVE  HooksInv'
  <1>1. request \in [Members -> HookRequests]
    BY DEF HooksInv, HooksTyped
  <1>2. ASSUME NEW d \in Members, d # c PROVE Stand(d, request[d])'
    <2>1. Stand(d, request[d]) /\ d # "nobody" /\ request'[d] = request[d]
      BY <1>1, <1>2, PartsAssumption DEF HooksInv
    <2>2. CASE lock = d
      <3>1. lock' = d /\ hooks' = hooks /\ trigger' = trigger /\ (~torn' => ~torn)
        BY <1>2, <2>1, <2>2
      <3>2. QED
        BY <2>1, <2>2, <3>1 DEF Stand, H!HooksOf
    <2>3. CASE lock # d
      <3>1. lock' # d
        BY <1>2, <2>1, <2>3
      <3>2. QED
        BY <2>1, <2>3, <3>1 DEF Stand, LockedPcs
    <2>4. QED
      BY <2>2, <2>3
  <1>3. Stand(c, request[c])'
    BY <1>1
  <1>4. QED
    BY <1>2, <1>3 DEF HooksInv

\* A request that is rolled back leaves the hooks as the row remembers them, or torn.
LEMMA HookRollsBack ==
  ASSUME HooksInv, NEW c \in Members, H!RollsBack(c), UNCHANGED <<trigger, hooks, drawn, connected>>
  PROVE  HooksInv'
  <1> USE PartsAssumption
  <1>1. H!Idle \in HookRequests
    BY HookRowsAtRest
  <1>2. request \in [Members -> HookRequests] /\ Stand(c, request[c]) /\ request[c].did \in BOOLEAN
    BY DEF HooksInv, HooksTyped, HookRequests
  <1>3. request' = [request EXCEPT ![c] = H!Idle] /\ lock' = (IF lock = c THEN "nobody" ELSE lock)
        /\ torn' = (torn \/ request[c].did)
    BY DEF H!RollsBack, H!Goes, H!Nobody
  <1>4. lock' # c
    BY <1>3
  <1>5. HooksTyped'
    BY <1>1, <1>2, <1>3 DEF HooksInv, HooksTyped
  <1>6. lock' = "nobody" /\ ~torn' => hooks' = HooksFor(trigger')
    BY <1>2, <1>3 DEF HooksInv, Stand
  <1>7. Stand(c, H!Idle)'
    BY <1>4, HookRowsAtRest DEF Stand, LockedPcs
  <1>8. RowHolds(trigger') /\ H!OneHookPerUrl'
    BY DEF HooksInv, H!OneHookPerUrl
  <1>9. QED
    BY <1>1, <1>3, <1>5, <1>6, <1>7, <1>8, HookStep

\* What a request that has the lock, or takes it, sees of the row.
LEMMA HookSeen ==
  ASSUME HooksInv, NEW c \in Members, H!Locks(c)
  PROVE  /\ H!Seen(c) \in TriggerRows /\ RowHolds(H!Seen(c))
         /\ ~torn /\ ~request[c].did => hooks = HooksFor(trigger)
         /\ ~torn /\ request[c].at # "recover" => hooks = HooksFor(H!Seen(c))
         /\ request[c].at \in {"draft", "apply"} /\ request[c].wired => H!Seen(c).hook = 0
  <1> USE PartsAssumption
  <1>1. Stand(c, request[c]) /\ request[c] \in HookRequests /\ trigger \in TriggerRows /\ lock \in {"nobody", c}
    BY DEF HooksInv, HooksTyped, H!Locks, H!Nobody
  <1>2. CASE lock = c
    BY <1>1, <1>2 DEF Stand, H!Seen, HookRequests
  <1>3. CASE lock # c
    <2>1. lock = "nobody" /\ H!Seen(c) = trigger
      BY <1>1, <1>3 DEF H!Seen
    <2>2. QED
      BY <1>1, <1>3, <2>1 DEF HooksInv, Stand
  <1>4. QED
    BY <1>2, <1>3

\* A request goes on with the lock and its own version of the row.
LEMMA HookHolds ==
  ASSUME HooksInv, NEW c \in Members, H!Locks(c), NEW t \in TriggerRows, RowHolds(t),
         NEW at \in {"remove", "load", "find", "draft", "apply", "commit"}, H!Holds(c, at, t),
         UNCHANGED <<trigger, hooks, connected>>, torn' \in BOOLEAN, torn => torn', drawn' \in Nat,
         ~torn' => hooks = HooksFor(t), request[c].at # "recover",
         at \in {"draft", "apply"} /\ request[c].wired => t.hook = 0, at = "find" => t.secret # 0
  PROVE  HooksInv'
  <1> SUFFICES ASSUME NEW r, r = [request[c] EXCEPT !.at = at, !.mine = t] PROVE HooksInv'
    OBVIOUS
  <1>1. request \in [Members -> HookRequests] /\ request[c] \in HookRequests
    BY DEF HooksInv, HooksTyped
  <1>2. /\ r \in HookRequests /\ r.at = at /\ r.mine = t
        /\ r.did = request[c].did /\ r.wired = request[c].wired
    BY <1>1 DEF HookRequests, HookPcs
  <1>3. lock' = c /\ request' = [request EXCEPT ![c] = r]
    BY DEF H!Holds, H!Goes
  <1>4. HooksTyped'
    BY <1>1, <1>2, <1>3 DEF HooksInv, HooksTyped
  <1>5. ~torn /\ ~r.did => hooks = HooksFor(trigger)
    BY <1>2, HookSeen
  <1>6. Stand(c, r)'
    <2>1. hooks' = hooks /\ trigger' = trigger /\ (~torn' => ~torn) /\ r.at \notin UnlockedPcs \cup {"post", "recover"}
      BY <1>2 DEF UnlockedPcs
    <2>2. QED
      BY <1>2, <1>3, <1>5, <2>1 DEF Stand
  <1>7. RowHolds(trigger') /\ H!OneHookPerUrl' /\ lock \in {"nobody", c} /\ c # "nobody"
    BY PartsAssumption DEF HooksInv, H!OneHookPerUrl, H!Locks, H!Nobody
  <1>8. lock' \in {lock, c, "nobody"} /\ lock' # "nobody" /\ hooks' = hooks /\ trigger' = trigger
    BY <1>3, <1>7
  <1>9. QED
    BY <1>2, <1>3, <1>4, <1>6, <1>7, <1>8, HookStep
-----------------------------------------------------------------------------
(* The steps of a request.                                                   *)

\* What every step of a request may use.
LEMMA HookFacts ==
  ASSUME HooksInv, NEW c \in Members
  PROVE  /\ request \in [Members -> HookRequests] /\ request[c] \in HookRequests /\ Stand(c, request[c])
         /\ request[c].op \in HookOps /\ request[c].at \in HookPcs /\ request[c].draft \in TriggerRows
         /\ request[c].mine \in TriggerRows /\ request[c].wired \in BOOLEAN /\ request[c].did \in BOOLEAN
         /\ trigger \in TriggerRows /\ RowHolds(trigger) /\ H!OneHookPerUrl /\ torn \in BOOLEAN /\ drawn \in Nat
         /\ connected \in BOOLEAN /\ lock \in Members \cup {"nobody"} /\ c # "nobody"
         /\ hooks \in SUBSET [id : Nat \ {0}, place : HookPlaces, secret : Nat]
  BY PartsAssumption DEF HooksInv, HooksTyped, HookRequests

\* A step that leaves the row, its lock and the hooks alone.
LEMMA HookGoes ==
  ASSUME HooksInv, NEW c \in Members, NEW r \in HookRequests, request' = [request EXCEPT ![c] = r],
         UNCHANGED <<trigger, lock, hooks, drawn, torn, connected>>, Stand(c, r)
  PROVE  HooksInv'
  <1>1. HooksTyped'
    BY HookFacts DEF HooksInv, HooksTyped
  <1>2. Stand(c, r)'
    BY DEF Stand, H!HooksOf
  <1>3. RowHolds(trigger') /\ H!OneHookPerUrl' /\ (lock' = "nobody" /\ ~torn' => hooks' = HooksFor(trigger'))
    BY DEF HooksInv, H!OneHookPerUrl
  <1>4. QED
    BY <1>1, <1>2, <1>3, HookStep

LEMMA AskKeepsHooks == ASSUME HooksInv, NEW c \in Members, H!Ask(c) PROVE HooksInv'
  <1>1. PICK kind \in {"create", "move", "toggle", "delete", "rotate", "wire", "unwire"}, p \in Places, b \in BOOLEAN :
          LET at == CASE kind = "create" -> "apply" [] kind = "toggle" -> "draft" [] kind = "unwire" -> "unload"
                      [] OTHER -> "list" IN
          H!Goes(c, [H!Idle EXCEPT !.op = kind, !.at = at, !.draft = [H!NoTrigger EXCEPT
                       !.place = IF kind \in {"create", "move"} THEN p ELSE "none",
                       !.enabled = IF kind = "toggle" THEN b ELSE TRUE]])
    BY DEF H!Ask
  <1>2. PICK at \in {"apply", "draft", "unload", "list"}, d \in TriggerRows :
          H!Goes(c, [H!Idle EXCEPT !.op = kind, !.at = at, !.draft = d]) /\ (at = "list" => kind # "unwire")
    <2> DEFINE d == [H!NoTrigger EXCEPT !.place = IF kind \in {"create", "move"} THEN p ELSE "none",
                                        !.enabled = IF kind = "toggle" THEN b ELSE TRUE]
    <2>1. d \in TriggerRows
      BY DEF H!NoTrigger, TriggerRows, HookPlaces
    <2>2. QED
      BY <1>1, <2>1
  <1> DEFINE r == [H!Idle EXCEPT !.op = kind, !.at = at, !.draft = d]
  <1>3. r \in HookRequests /\ r.at = at /\ r.op = kind /\ r.did = FALSE /\ r.wired = FALSE
    <2>1. H!Idle \in HookRequests /\ ~H!Idle.did /\ ~H!Idle.wired
      BY HookRowsAtRest
    <2>2. kind \in HookOps /\ at \in HookPcs
      BY DEF HookOps, HookPcs
    <2>3. QED
      BY <2>1, <2>2 DEF HookRequests
  <1>4. request' = [request EXCEPT ![c] = r] /\ UNCHANGED <<trigger, lock, hooks, drawn, torn, connected>>
    BY <1>2 DEF H!Ask, H!outside, H!Goes
  <1>5. lock # c
    BY HookFacts DEF H!Ask, H!outside, H!At, Stand, UnlockedPcs
  <1> HIDE DEF r
  <1>6. Stand(c, r)
    BY <1>2, <1>3, <1>5 DEF Stand, LockedPcs
  <1>7. QED
    BY <1>3, <1>4, <1>6, HookGoes

LEMMA ListKeepsHooks == ASSUME HooksInv, NEW c \in Members, H!List(c) PROVE HooksInv'
  <1> DEFINE wired == trigger.status = "registered" \/ trigger.hook # 0
             at == CASE request[c].op = "wire" /\ (~H!Exists(trigger) \/ H!IsRegistered(trigger)) -> "idle"
                     [] request[c].op = "wire" -> "load"
                     [] H!IsWired(trigger) -> "unload"
                     [] OTHER -> H!Unwired(request[c].op)
  <1> SUFFICES ASSUME NEW r, r = IF at = "idle" THEN H!Idle ELSE [request[c] EXCEPT !.at = at, !.wired = wired]
               PROVE  HooksInv'
    OBVIOUS
  <1>1. /\ request[c].at = "list" /\ request' = [request EXCEPT ![c] = r]
        /\ UNCHANGED <<trigger, lock, hooks, drawn, torn, connected>>
    BY DEF H!List, H!outside, H!At, H!Goes
  <1>2. lock # c /\ ~request[c].did /\ request[c].op # "unwire"
    BY <1>1, HookFacts DEF Stand, UnlockedPcs
  <1>3. at \in {"idle", "load", "unload", "draft", "apply"} /\ (at \in {"draft", "apply"} => ~wired)
    BY <1>2 DEF H!Unwired, H!IsWired
  <1>4. wired \in BOOLEAN
    OBVIOUS
  <1> HIDE DEF at, wired
  <1>5. r \in HookRequests
    BY <1>3, <1>4, HookFacts, HookRowsAtRest DEF HookRequests, HookPcs
  <1>6. r.at \in {"idle", "load", "unload", "draft", "apply"} /\ (r.at \in {"draft", "apply"} => ~r.wired) /\ ~r.did
    BY <1>2, <1>3, HookFacts, HookRowsAtRest DEF HookRequests
  <1>7. Stand(c, r)
    BY <1>2, <1>6 DEF Stand, LockedPcs
  <1>8. QED
    BY <1>1, <1>5, <1>7, HookGoes

LEMMA UnloadKeepsHooks == ASSUME HooksInv, NEW c \in Members, H!Unload(c) PROVE HooksInv'
  <1> SUFFICES ASSUME NEW t, t = H!Seen(c), NEW at, at = H!Unwired(request[c].op) PROVE HooksInv'
    OBVIOUS
  <1>1. request[c].at = "unload" /\ H!Locks(c) /\ UNCHANGED <<trigger, hooks, drawn, connected>>
    BY DEF H!Unload, H!outside, H!At
  <1>2. t \in TriggerRows /\ RowHolds(t) /\ (~torn => hooks = HooksFor(t))
    BY <1>1, HookSeen
  <1>3. CASE t.hook = 0 /\ H!Holds(c, at, [t EXCEPT !.status = "unregistered"]) /\ UNCHANGED torn
    <2> DEFINE u == [t EXCEPT !.status = "unregistered"]
    <2>1. u \in TriggerRows /\ RowHolds(u) /\ u.hook = 0 /\ HooksFor(u) = HooksFor(t)
      BY <1>2, <1>3 DEF TriggerRows, RowHolds, HooksFor
    <2>2. at \in {"draft", "apply", "commit"}
      BY DEF H!Unwired
    <2> HIDE DEF u
    <2>3. QED
      BY <1>1, <1>2, <1>3, <2>1, <2>2, HookHolds, HookFacts DEF u
  <1>4. CASE H!Holds(c, "remove", t) /\ UNCHANGED torn
    BY <1>1, <1>2, <1>4, HookHolds, HookFacts
  <1>5. CASE H!RollsBack(c)
    BY <1>1, <1>5, HookRollsBack
  <1>6. QED
    BY <1>3, <1>4, <1>5 DEF H!Unload

LEMMA RemoveKeepsHooks == ASSUME HooksInv, NEW c \in Members, H!Remove(c) PROVE HooksInv'
  <1> SUFFICES ASSUME NEW left, left = {h \in hooks : h.id # request[c].mine.hook \/ h.place # request[c].mine.place}
               PROVE  HooksInv'
    OBVIOUS
  <1>1. request[c].at = "remove" /\ UNCHANGED <<trigger, drawn, connected>> /\ lock = c
    BY HookFacts DEF H!Remove, H!outside, H!At, Stand, LockedPcs
  <1>2. ~torn => left = {}
    BY <1>1, HookFacts DEF Stand, HooksFor
  <1>3. left \in SUBSET [id : Nat \ {0}, place : HookPlaces, secret : Nat] /\ (hooks' = left => H!OneHookPerUrl')
    BY HookFacts DEF H!OneHookPerUrl
  <1>4. RowHolds(trigger')
    BY <1>1, HookFacts
  <1>5. ASSUME hooks' = left, UNCHANGED <<lock, torn>>,
               H!Goes(c, [request[c] EXCEPT !.at = H!Unwired(request[c].op), !.did = TRUE,
                                            !.mine.status = "unregistered", !.mine.hook = 0])
        PROVE  HooksInv'
    <2> SUFFICES ASSUME NEW at, at = H!Unwired(request[c].op),
                        NEW t, t = [request[c].mine EXCEPT !.status = "unregistered", !.hook = 0],
                        NEW r, r = [request[c] EXCEPT !.at = at, !.did = TRUE, !.mine = t]
                 PROVE  HooksInv'
      OBVIOUS
    <2>1. t \in TriggerRows /\ t.hook = 0 /\ RowHolds(t)
      BY <1>1, HookFacts DEF TriggerRows, Stand, RowHolds
    <2>2. at \in {"draft", "apply", "commit"}
      BY DEF H!Unwired
    <2>3. r \in HookRequests /\ r.at = at /\ r.did = TRUE /\ r.mine = t
      BY <2>1, <2>2, HookFacts DEF HookRequests, HookPcs
    <2>4. request' = [request EXCEPT ![c] = r]
      BY <1>5, HookFacts DEF H!Goes, HookRequests, TriggerRows
    <2>5. HooksTyped'
      BY <1>1, <1>3, <1>5, <2>3, <2>4, HookFacts DEF HooksTyped
    <2>6. Stand(c, r)'
      BY <1>1, <1>2, <1>5, <2>1, <2>2, <2>3 DEF Stand, UnlockedPcs, HooksFor
    <2>7. lock' = c /\ lock' # "nobody"
      BY <1>1, <1>5, HookFacts
    <2>8. QED
      BY <1>1, <1>3, <1>4, <1>5, <2>3, <2>4, <2>5, <2>6, <2>7, HookStep
  <1>6. ASSUME hooks' = left, torn' = TRUE, lock' = "nobody", H!Goes(c, H!Idle) PROVE HooksInv'
    <2>1. request' = [request EXCEPT ![c] = H!Idle]
      BY <1>6 DEF H!Goes
    <2>2. HooksTyped'
      BY <1>1, <1>3, <1>6, <2>1, HookFacts, HookRowsAtRest DEF HooksTyped
    <2>3. Stand(c, H!Idle)'
      BY <1>6, HookFacts, HookRowsAtRest DEF Stand, LockedPcs
    <2>4. QED
      BY <1>1, <1>3, <1>4, <1>6, <2>1, <2>2, <2>3, HookRowsAtRest, HookStep
  <1>7. QED
    BY <1>1, <1>5, <1>6, HookRollsBack DEF H!Remove, H!outside, H!Nobody

LEMMA DraftKeepsHooks == ASSUME HooksInv, NEW c \in Members, H!Draft(c) PROVE HooksInv'
  <1>1. request[c].at = "draft" /\ UNCHANGED <<trigger, hooks, drawn, connected>>
    BY DEF H!Draft, H!outside, H!At
  <1>2. CASE H!Exists(H!Seen(c))
    <2> SUFFICES ASSUME NEW t, t = H!Seen(c), NEW kind, kind = request[c].op, NEW old, old = request[c].draft,
                        NEW place, place = IF kind = "move" THEN old.place ELSE t.place,
                        NEW enabled, enabled = IF kind = "move" THEN t.enabled ELSE old.enabled,
                        NEW d, d = [old EXCEPT !.bound = t.bound, !.place = place, !.enabled = enabled],
                        NEW r, r = [request[c] EXCEPT !.at = "apply", !.draft = d]
                 PROVE  HooksInv'
      OBVIOUS
    <2>1. t \in TriggerRows /\ old \in TriggerRows
      BY HookFacts DEF H!Seen
    <2>2. d \in TriggerRows
      <3>1. place \in HookPlaces /\ enabled \in BOOLEAN /\ t.bound \in BOOLEAN
        BY <2>1 DEF TriggerRows
      <3>2. QED
        BY <2>1, <3>1 DEF TriggerRows
    <2>3. /\ r \in HookRequests /\ r.at = "apply" /\ r.did = request[c].did /\ r.wired = request[c].wired
          /\ r.mine = request[c].mine
      <3>1. request[c] \in HookRequests /\ "apply" \in HookPcs
        BY HookFacts DEF HookPcs
      <3>2. QED
        BY <2>2, <3>1 DEF HookRequests
    <2>4. UNCHANGED <<lock, torn>>
      BY <1>2 DEF H!Draft
    <2>5. r = [request[c] EXCEPT !.at = "apply", !.draft.bound = t.bound,
                 !.draft.place = IF kind = "move" THEN @ ELSE t.place,
                 !.draft.enabled = IF kind = "move" THEN t.enabled ELSE @]
      <3>1. request[c] \in HookRequests
        BY HookFacts
      <3>2. QED
        BY <2>1, <3>1 DEF HookRequests, TriggerRows
    <2>6. request' = [request EXCEPT ![c] = r]
      BY <1>2, <2>5 DEF H!Draft, H!Goes
    <2>7. Stand(c, r)
      BY <1>1, <2>3, HookFacts DEF Stand, LockedPcs, UnlockedPcs
    <2>8. QED
      BY <1>1, <2>3, <2>4, <2>6, <2>7, HookGoes
  <1>3. CASE ~H!Exists(H!Seen(c))
    <2>1. H!RollsBack(c)
      BY <1>3 DEF H!Draft
    <2>2. QED
      BY <1>1, <2>1, HookRollsBack
  <1>4. QED
    BY <1>2, <1>3

LEMMA CreateKeepsHooks == ASSUME HooksInv, NEW c \in Members, H!Create(c) PROVE HooksInv'
  <1> SUFFICES ASSUME NEW t, t = H!Seen(c),
                      NEW new, new = [H!NoTrigger EXCEPT !.place = request[c].draft.place, !.bound = connected,
                                        !.secret = drawn + 1, !.born = drawn + 1, !.enabled = TRUE]
               PROVE  HooksInv'
    OBVIOUS
  <1>1. request[c].at = "apply" /\ H!Locks(c) /\ UNCHANGED <<trigger, hooks, connected>>
    BY DEF H!Create, H!outside, H!At
  <1>2. t \in TriggerRows /\ RowHolds(t) /\ (~torn => hooks = HooksFor(t))
    BY <1>1, HookSeen
  <1>3. ASSUME ~H!Exists(t), H!Holds(c, "load", new), drawn' = drawn + 1, UNCHANGED torn PROVE HooksInv'
    <2>1. new \in TriggerRows
      <3>1. H!NoTrigger \in TriggerRows /\ request[c].draft.place \in HookPlaces /\ drawn + 1 \in Nat
        BY HookRowsAtRest, HookFacts DEF TriggerRows
      <3>2. QED
        BY <3>1, HookFacts DEF TriggerRows
    <2>2. new.hook = 0 /\ new.failures = 0 /\ RowHolds(new) /\ HooksFor(new) = {}
      BY PartsAssumption DEF H!NoTrigger, RowHolds, HooksFor
    <2>3. ~torn' => hooks = HooksFor(new)
      BY <1>2, <1>3, <2>2 DEF RowHolds, H!Exists, HooksFor
    <2>4. drawn' \in Nat
      BY <1>3, HookFacts
    <2>5. QED
      BY <1>1, <1>3, <2>1, <2>2, <2>3, <2>4, HookHolds, HookFacts
  <1>4. ASSUME H!Holds(c, H!Registering(t), t), UNCHANGED <<drawn, torn>> PROVE HooksInv'
    <2> SUFFICES ASSUME NEW at, at = H!Registering(t) PROVE HooksInv'
      OBVIOUS
    <2>1. at \in {"load", "commit"}
      BY DEF H!Registering
    <2>2. QED
      BY <1>1, <1>2, <1>4, <2>1, HookHolds, HookFacts
  <1>5. ASSUME H!RollsBack(c), UNCHANGED drawn PROVE HooksInv'
    BY <1>1, <1>5, HookRollsBack
  <1>6. QED
    BY <1>3, <1>4, <1>5 DEF H!Create

LEMMA UpdateKeepsHooks == ASSUME HooksInv, NEW c \in Members, H!Update(c) PROVE HooksInv'
  <1> SUFFICES ASSUME NEW t, t = H!Seen(c), NEW d, d = request[c].draft,
                      NEW new, new = H!Updated(t, d)
               PROVE  HooksInv'
    OBVIOUS
  <1>1. request[c].at = "apply" /\ H!Locks(c) /\ UNCHANGED <<trigger, hooks, drawn, connected>>
    BY DEF H!Update, H!At, H!outside
  <1>2. t \in TriggerRows /\ RowHolds(t) /\ (~torn => hooks = HooksFor(t)) /\ (request[c].wired => t.hook = 0)
    BY <1>1, HookSeen
  <1>3. ASSUME H!Exists(t), H!Holds(c, H!Registering(new), new),
               torn' = (torn \/ (H!Crosses(c) /\ new.hook = 0))
        PROVE  HooksInv'
    <2>1. d \in TriggerRows /\ connected \in BOOLEAN
      BY HookFacts
    <2>2. /\ new \in TriggerRows /\ RowHolds(new) /\ new.secret = t.secret
          /\ \/ new.hook = t.hook /\ new.place = t.place
             \/ new.hook = 0
      <3> DEFINE same == t.place = d.place /\ t.bound = (d.bound \/ connected)
                 bound == d.bound \/ connected
                 hook == IF same THEN t.hook ELSE 0
                 status == IF same THEN t.status ELSE "unregistered"
      <3>1. new = [place |-> d.place, bound |-> bound, secret |-> t.secret, born |-> t.born, enabled |-> d.enabled,
                   failures |-> 0, status |-> status, hook |-> hook]
        BY <1>2 DEF H!Updated, TriggerRows
      <3>2. /\ bound \in BOOLEAN /\ hook \in {t.hook, 0} /\ status \in {t.status, "unregistered"}
            /\ (hook # 0 => d.place = t.place)
        BY <2>1 DEF TriggerRows
      <3> HIDE DEF same, bound, hook, status
      <3>3. /\ new \in TriggerRows /\ new.failures = 0 /\ new.secret = t.secret /\ new.hook = hook
            /\ new.place = d.place
        <4>1. d.place \in HookPlaces /\ d.enabled \in BOOLEAN
          BY <2>1 DEF TriggerRows
        <4>2. hook \in Nat /\ status \in {"manual", "unregistered", "registered", "failed"}
          BY <1>2, <3>2 DEF TriggerRows
        <4>3. QED
          BY <1>2, <3>1, <3>2, <4>1, <4>2 DEF TriggerRows
      <3>4. QED
        <4>1. t.secret # 0 /\ MaxFailures > 0 /\ MaxFailures \in Nat
          BY <1>3, PartsAssumption DEF H!Exists
        <4>2. RowHolds(new)
          BY <3>3, <4>1 DEF RowHolds
        <4>3. QED
          BY <3>2, <3>3, <4>2
    <2>3. torn' \in BOOLEAN /\ (torn => torn')
      BY <1>3, HookFacts
    <2>4. ~torn' => hooks = HooksFor(new)
      <3>1. SUFFICES ASSUME ~torn' PROVE hooks = HooksFor(new)
        OBVIOUS
      <3>2. ~torn /\ (new.hook = 0 => t.hook = 0)
        BY <1>2, <1>3, <3>1, HookFacts DEF H!Crosses
      <3>3. QED
        BY <1>2, <2>2, <3>2 DEF HooksFor
    <2> SUFFICES ASSUME NEW at, at = H!Registering(new) PROVE HooksInv'
      OBVIOUS
    <2>5. at \in {"load", "commit"}
      BY DEF H!Registering
    <2>6. QED
      BY <1>1, <1>3, <2>2, <2>3, <2>4, <2>5, HookHolds, HookFacts
  <1>4. CASE H!RollsBack(c)
    BY <1>1, <1>4, HookRollsBack
  <1>5. QED
    BY <1>3, <1>4 DEF H!Update

LEMMA RotateKeepsHooks == ASSUME HooksInv, NEW c \in Members, H!Rotate(c) PROVE HooksInv'
  <1> SUFFICES ASSUME NEW s, s = H!Seen(c), NEW t, t = [s EXCEPT !.secret = drawn + 1] PROVE HooksInv'
    OBVIOUS
  <1>1. request[c].at = "apply" /\ H!Locks(c) /\ UNCHANGED <<trigger, hooks, connected>>
    BY DEF H!Rotate, H!At, H!outside
  <1>2. s \in TriggerRows /\ RowHolds(s) /\ (~torn => hooks = HooksFor(s)) /\ (request[c].wired => s.hook = 0)
    BY <1>1, HookSeen
  <1>3. ASSUME H!Holds(c, H!Registering(t), t), drawn' = drawn + 1, torn' = (torn \/ H!Crosses(c)) PROVE HooksInv'
    <2>1. t \in TriggerRows /\ RowHolds(t) /\ t.hook = s.hook
      BY <1>2, HookFacts DEF TriggerRows, RowHolds
    <2>2. torn' \in BOOLEAN /\ (torn => torn') /\ drawn' \in Nat
      BY <1>3, HookFacts
    <2>3. ~torn' => hooks = HooksFor(t)
      BY <1>2, <1>3, <2>1, HookFacts DEF H!Crosses, HooksFor
    <2> SUFFICES ASSUME NEW at, at = H!Registering(t) PROVE HooksInv'
      OBVIOUS
    <2>4. at \in {"load", "commit"}
      BY DEF H!Registering
    <2>5. QED
      BY <1>1, <1>3, <2>1, <2>2, <2>3, <2>4, HookHolds, HookFacts
  <1>4. CASE H!RollsBack(c) /\ UNCHANGED drawn
    BY <1>1, <1>4, HookRollsBack
  <1>5. QED
    BY <1>3, <1>4 DEF H!Rotate

LEMMA DeleteKeepsHooks == ASSUME HooksInv, NEW c \in Members, H!Delete(c) PROVE HooksInv'
  <1> SUFFICES ASSUME NEW s, s = H!Seen(c) PROVE HooksInv'
    OBVIOUS
  <1>1. request[c].at = "apply" /\ H!Locks(c) /\ UNCHANGED <<trigger, hooks, drawn, connected>>
    BY DEF H!Delete, H!At, H!outside
  <1>2. s \in TriggerRows /\ (~torn => hooks = HooksFor(s)) /\ (request[c].wired => s.hook = 0)
    BY <1>1, HookSeen
  <1>3. ASSUME H!Holds(c, "commit", H!NoTrigger), torn' = (torn \/ H!Crosses(c)) PROVE HooksInv'
    <2>1. torn' \in BOOLEAN /\ (torn => torn')
      BY <1>3, HookFacts
    <2>2. ~torn' => hooks = HooksFor(H!NoTrigger)
      BY <1>2, <1>3, HookFacts, HookRowsAtRest DEF H!Crosses, HooksFor
    <2>3. QED
      BY <1>1, <1>3, <2>1, <2>2, HookHolds, HookFacts, HookRowsAtRest
  <1>4. CASE H!RollsBack(c)
    BY <1>1, <1>4, HookRollsBack
  <1>5. QED
    BY <1>3, <1>4 DEF H!Delete

LEMMA LoadKeepsHooks == ASSUME HooksInv, NEW c \in Members, H!Load(c) PROVE HooksInv'
  <1> SUFFICES ASSUME NEW t, t = H!Seen(c) PROVE HooksInv'
    OBVIOUS
  <1>1. request[c].at = "load" /\ H!Locks(c) /\ UNCHANGED <<trigger, hooks, drawn, connected>>
    BY DEF H!Load, H!At, H!outside
  <1>2. t \in TriggerRows /\ RowHolds(t) /\ (~torn => hooks = HooksFor(t))
    BY <1>1, HookSeen
  <1>3. CASE H!RollsBack(c)
    BY <1>1, <1>3, HookRollsBack
  <1>4. CASE H!Exists(t) /\ (H!Holds(c, "commit", t) \/ H!Holds(c, "find", t)) /\ UNCHANGED torn
    BY <1>1, <1>2, <1>4, HookHolds, HookFacts DEF H!Exists
  <1>5. ASSUME H!Holds(c, "commit", [t EXCEPT !.status = "failed", !.hook = 0]), torn' = (torn \/ t.hook # 0)
        PROVE  HooksInv'
    <2> SUFFICES ASSUME NEW new, new = [t EXCEPT !.status = "failed", !.hook = 0] PROVE HooksInv'
      OBVIOUS
    <2>1. new \in TriggerRows /\ RowHolds(new) /\ new.hook = 0
      BY <1>2 DEF TriggerRows, RowHolds
    <2>2. torn' \in BOOLEAN /\ (torn => torn') /\ (~torn' => hooks = HooksFor(new))
      BY <1>2, <1>5, <2>1, HookFacts DEF HooksFor
    <2>3. QED
      BY <1>1, <1>5, <2>1, <2>2, HookHolds, HookFacts
  <1>6. QED
    BY <1>3, <1>4, <1>5 DEF H!Load

\* A registration that goes on with a version t of the row that it holds.
LEMMA HookRegisters ==
  ASSUME HooksInv, NEW c \in Members, request[c].at \in {"find", "post", "recover"},
         NEW t \in TriggerRows, RowHolds(t), NEW at \in {"recover", "commit"}, NEW did \in BOOLEAN,
         request[c].did => did,
         at # "commit" => t.secret # 0,
         request' = [request EXCEPT ![c] = [request[c] EXCEPT !.at = at, !.did = did, !.mine = t]],
         UNCHANGED <<trigger, lock, connected>>, torn' \in BOOLEAN, torn => torn', drawn' \in Nat,
         hooks' \in SUBSET [id : Nat \ {0}, place : HookPlaces, secret : Nat], H!OneHookPerUrl',
         ~torn' /\ ~did => hooks' = hooks,
         ~torn' /\ at # "recover" => hooks' = HooksFor(t),
         ~torn' /\ at = "recover" =>
           /\ \A h \in hooks' : h.place = t.place /\ h.secret = t.secret
           /\ t.hook = 0 /\ (~did => hooks' = {})
  PROVE  HooksInv'
  <1> SUFFICES ASSUME NEW r, r = [request[c] EXCEPT !.at = at, !.did = did, !.mine = t] PROVE HooksInv'
    OBVIOUS
  <1>1. r \in HookRequests /\ r.at = at /\ r.did = did /\ r.mine = t
    BY HookFacts DEF HookRequests, HookPcs
  <1>2. lock = c /\ c # "nobody" /\ RowHolds(trigger')
    BY HookFacts DEF Stand, LockedPcs
  <1>3. HooksTyped'
    BY <1>1, HookFacts DEF HooksTyped
  <1>4. ~torn' /\ ~did => hooks' = HooksFor(trigger')
    BY <1>2, HookFacts DEF Stand
  <1>5. Stand(c, r)'
    BY <1>1, <1>2, <1>4 DEF Stand, UnlockedPcs, H!HooksOf
  <1>6. QED
    BY <1>1, <1>2, <1>3, <1>5, HookStep

\* The row that a registration holds.
LEMMA HookRow ==
  ASSUME HooksInv, NEW c \in Members, request[c].at \in {"find", "post", "recover"}
  PROVE  request[c].mine \in TriggerRows /\ RowHolds(request[c].mine) /\ request[c].mine.secret # 0 /\ lock = c
  BY HookFacts DEF Stand, LockedPcs

\* A registration ends with the hook it found or made, or as failed.
LEMMA HookFails ==
  ASSUME HooksInv, NEW c \in Members, request[c].at \in {"find", "recover"}, H!FailsToRegister(c),
         UNCHANGED <<trigger, lock, hooks, drawn, connected>>, torn' \in BOOLEAN, torn => torn',
         request[c].at = "recover" => torn' = (torn \/ request[c].did) \/ H!HooksOf(request[c].mine) = {}
  PROVE  HooksInv'
  <1> SUFFICES ASSUME NEW m, m = request[c].mine, NEW t, t = [m EXCEPT !.status = "failed"]
               PROVE  HooksInv'
    OBVIOUS
  <1>1. m \in TriggerRows /\ RowHolds(m)
    BY HookRow
  <1>2. t \in TriggerRows /\ RowHolds(t) /\ HooksFor(t) = HooksFor(m)
    BY <1>1 DEF TriggerRows, RowHolds, HooksFor
  <1>3. request' = [request EXCEPT ![c] = [request[c] EXCEPT !.at = "commit", !.did = request[c].did, !.mine = t]]
    BY <1>1, HookFacts DEF H!FailsToRegister, H!Goes, HookRequests
  <1>4. lock = c /\ Stand(c, request[c])
    BY HookFacts DEF Stand, LockedPcs
  <1>5. ~torn' => hooks' = HooksFor(t)
    BY <1>2, <1>4 DEF Stand, HooksFor, H!HooksOf
  <1>6. H!OneHookPerUrl'
    BY HookFacts DEF H!OneHookPerUrl
  <1>7. QED
    BY <1>2, <1>3, <1>5, <1>6, HookFacts, HookRegisters

LEMMA HookFound ==
  ASSUME HooksInv, NEW c \in Members, request[c].at \in {"find", "recover"}, NEW h \in H!HooksOf(request[c].mine),
         H!Registers(c, h.id), UNCHANGED <<trigger, lock, hooks, drawn, connected, torn>>
  PROVE  HooksInv'
  <1> SUFFICES ASSUME NEW m, m = request[c].mine, NEW t, t = [m EXCEPT !.status = "registered", !.hook = h.id]
               PROVE  HooksInv'
    OBVIOUS
  <1>1. /\ h \in hooks /\ h.place = m.place /\ h.secret = m.secret /\ h.id \in Nat \ {0}
        /\ h = [id |-> h.id, place |-> h.place, secret |-> h.secret]
    BY HookFacts DEF H!HooksOf
  <1>2. t \in TriggerRows /\ RowHolds(t) /\ t.hook = h.id /\ t.place = m.place /\ t.secret = m.secret
    BY <1>1, HookRow DEF TriggerRows, RowHolds
  <1>3. request' = [request EXCEPT ![c] = [request[c] EXCEPT !.at = "commit", !.did = request[c].did, !.mine = t]]
    BY HookFacts DEF H!Registers, H!Goes, HookRequests
  <1>4. lock = c /\ Stand(c, request[c])
    BY HookFacts DEF Stand, LockedPcs
  <1>5. ~torn => hooks \subseteq {h}
    BY <1>1, <1>4, HookFacts DEF Stand, HooksFor, H!HooksOf, H!OneHookPerUrl
  <1>6. ~torn' => hooks' = HooksFor(t)
    BY <1>1, <1>2, <1>5 DEF HooksFor
  <1>7. H!OneHookPerUrl' /\ torn' \in BOOLEAN /\ (torn => torn') /\ drawn' \in Nat /\ request[c].did \in BOOLEAN
        /\ hooks' \in SUBSET [id : Nat \ {0}, place : HookPlaces, secret : Nat]
    BY HookFacts DEF H!OneHookPerUrl
  <1>8. QED
    BY <1>2, <1>3, <1>6, <1>7, HookRegisters

LEMMA FindKeepsHooks == ASSUME HooksInv, NEW c \in Members, H!Find(c) PROVE HooksInv'
  <1>1. request[c].at = "find" /\ UNCHANGED <<trigger, lock, hooks, drawn, torn, connected>> /\ torn \in BOOLEAN
    BY HookFacts DEF H!Find, H!At, H!outside
  <1>2. ASSUME NEW h \in H!HooksOf(request[c].mine), H!Registers(c, h.id) PROVE HooksInv'
    BY <1>1, <1>2, HookFound
  <1>3. CASE H!FailsToRegister(c)
    BY <1>1, <1>3, HookFails
  <1>4. ASSUME H!HooksOf(request[c].mine) = {}, H!Goes(c, [request[c] EXCEPT !.at = "post"]) PROVE HooksInv'
    <2> SUFFICES ASSUME NEW r, r = [request[c] EXCEPT !.at = "post"] PROVE HooksInv'
      OBVIOUS
    <2>1. /\ r \in HookRequests /\ r.at = "post" /\ r.did = request[c].did /\ r.mine = request[c].mine
          /\ request' = [request EXCEPT ![c] = r]
      BY <1>4, HookFacts DEF HookRequests, HookPcs, H!Goes
    <2>2. Stand(c, r)
      BY <1>1, <1>4, <2>1, HookFacts DEF Stand, LockedPcs, UnlockedPcs
    <2>3. QED
      BY <1>1, <2>1, <2>2, HookGoes
  <1>5. QED
    BY <1>2, <1>3, <1>4 DEF H!Find

LEMMA RecoverKeepsHooks == ASSUME HooksInv, NEW c \in Members, H!Recover(c) PROVE HooksInv'
  <1>1. request[c].at = "recover" /\ UNCHANGED <<trigger, lock, hooks, drawn, connected>>
    BY DEF H!Recover, H!At, H!outside
  <1>2. ASSUME NEW h \in H!HooksOf(request[c].mine), H!Registers(c, h.id), UNCHANGED torn PROVE HooksInv'
    BY <1>1, <1>2, HookFound
  <1>3. CASE /\ H!FailsToRegister(c)
             /\ (torn' = (torn \/ request[c].did) \/ (H!HooksOf(request[c].mine) = {} /\ torn' = torn))
    <2>1. torn' \in BOOLEAN /\ (torn => torn')
      BY <1>3, HookFacts
    <2>2. QED
      BY <1>1, <1>3, <2>1, HookFails
  <1>4. QED
    BY <1>2, <1>3 DEF H!Recover

LEMMA PostKeepsHooks == ASSUME HooksInv, NEW c \in Members, H!Post(c) PROVE HooksInv'
  <1> SUFFICES ASSUME NEW m, m = request[c].mine,
                      NEW new, new = [id |-> drawn + 1, place |-> m.place, secret |-> m.secret]
               PROVE  HooksInv'
    OBVIOUS
  <1>1. /\ request[c].at = "post" /\ UNCHANGED <<trigger, lock, connected, torn>>
        /\ torn \in BOOLEAN /\ drawn + 1 \in Nat \ {0}
    BY HookFacts DEF H!Post, H!At, H!outside
  <1>2. /\ lock = c /\ RowHolds(m) /\ m \in TriggerRows /\ m.secret # 0 /\ H!HooksOf(m) = {}
        /\ ~torn => hooks = HooksFor(m)
    BY <1>1, HookFacts DEF Stand, LockedPcs
  <1>3. ~torn => hooks = {} /\ m.hook = 0
    <2>1. \A h \in hooks : ~(h.place = m.place /\ h.secret = m.secret)
      BY <1>2 DEF H!HooksOf
    <2>2. m.hook # 0 => \E h \in HooksFor(m) : h.place = m.place /\ h.secret = m.secret
      BY DEF HooksFor
    <2>3. QED
      BY <1>2, <2>1, <2>2 DEF HooksFor
  <1>4. /\ hooks \cup {new} \in SUBSET [id : Nat \ {0}, place : HookPlaces, secret : Nat]
        /\ hooks' = hooks \cup {new} => H!OneHookPerUrl'
    <2>1. new \in [id : Nat \ {0}, place : HookPlaces, secret : Nat]
      BY <1>1, <1>2 DEF TriggerRows
    <2>2. hooks \cup {new} \in SUBSET [id : Nat \ {0}, place : HookPlaces, secret : Nat]
      BY <2>1, HookFacts
    <2>3. \A h \in hooks : ~(h.place = new.place /\ h.secret = new.secret)
      BY <1>2 DEF H!HooksOf
    <2>4. QED
      BY <2>2, <2>3, HookFacts DEF H!OneHookPerUrl
  <1>5. ASSUME hooks' = hooks \cup {new}, drawn' = drawn + 1,
               H!Goes(c, [request[c] EXCEPT !.at = "commit", !.did = TRUE, !.mine.status = "registered",
                                             !.mine.hook = new.id])
        PROVE  HooksInv'
    <2>1. new.id \in Nat /\ new.id # 0
      BY <1>1
    <2>2. PICK t \in TriggerRows : t = [m EXCEPT !.status = "registered", !.hook = new.id] /\ RowHolds(t)
                                   /\ t.hook = new.id /\ t.place = m.place /\ t.secret = m.secret
      <3>1. ASSUME NEW t, t = [m EXCEPT !.status = "registered", !.hook = new.id]
            PROVE  t \in TriggerRows /\ t.hook = new.id /\ t.place = m.place /\ t.secret = m.secret
                   /\ t.status = "registered"
        BY <1>2, <2>1, <3>1 DEF TriggerRows
      <3>2. ASSUME NEW t, t = [m EXCEPT !.status = "registered", !.hook = new.id]
            PROVE  RowHolds(t)
        BY <1>2, <2>1, <3>1, <3>2 DEF RowHolds
      <3>3. QED
        BY <3>1, <3>2
    <2>3. PICK did \in BOOLEAN : did = TRUE
      OBVIOUS
    <2>4. request' = [request EXCEPT ![c] = [request[c] EXCEPT !.at = "commit", !.did = did, !.mine = t]]
      BY <1>5, <2>2, <2>3, HookFacts DEF H!Goes, HookRequests
    <2>5. ~torn' => hooks' = HooksFor(t)
      BY <1>1, <1>3, <1>5, <2>1, <2>2 DEF HooksFor
    <2>6. /\ drawn' \in Nat /\ (torn => torn') /\ torn' \in BOOLEAN /\ H!OneHookPerUrl' /\ (request[c].did => did)
          /\ hooks' \in SUBSET [id : Nat \ {0}, place : HookPlaces, secret : Nat] /\ RowHolds(t)
          /\ (~torn' /\ ~did => hooks' = hooks)
      BY <1>1, <1>4, <1>5, <2>2, <2>3
    <2>7. QED
      BY <1>1, <2>4, <2>5, <2>6, HookRegisters
  <1>6. ASSUME \/ /\ hooks' = hooks \cup {new} /\ drawn' = drawn + 1
                  /\ H!Goes(c, [request[c] EXCEPT !.at = "recover", !.did = TRUE])
               \/ UNCHANGED <<hooks, drawn>> /\ H!Goes(c, [request[c] EXCEPT !.at = "recover"])
        PROVE  HooksInv'
    <2>1. PICK did \in BOOLEAN :
            /\ request' = [request EXCEPT ![c] = [request[c] EXCEPT !.at = "recover", !.did = did, !.mine = m]]
            /\ request[c].did => did
            /\ hooks' = hooks \/ (did /\ hooks' = hooks \cup {new})
      <3>1. /\ [request[c] EXCEPT !.at = "recover", !.did = TRUE] =
                 [request[c] EXCEPT !.at = "recover", !.did = TRUE, !.mine = m]
            /\ [request[c] EXCEPT !.at = "recover"] =
                 [request[c] EXCEPT !.at = "recover", !.did = request[c].did, !.mine = m]
        BY HookFacts DEF HookRequests
      <3>2. request[c].did \in BOOLEAN
        BY HookFacts
      <3>3. QED
        BY <1>6, <3>1, <3>2 DEF H!Goes
    <2>2. hooks' \in SUBSET [id : Nat \ {0}, place : HookPlaces, secret : Nat] /\ H!OneHookPerUrl' /\ drawn' \in Nat
      BY <1>1, <1>4, <1>6, HookFacts DEF H!OneHookPerUrl
    <2>3. ~torn' => (\A h \in hooks' : h.place = m.place /\ h.secret = m.secret) /\ m.hook = 0 /\ (~did => hooks' = {})
      BY <1>1, <1>3, <2>1
    <2>4. QED
      BY <1>1, <1>2, <2>1, <2>2, <2>3, HookRegisters
  <1>7. QED
    BY <1>5, <1>6 DEF H!Post

LEMMA CommitKeepsHooks == ASSUME HooksInv, NEW c \in Members, H!Commit(c) PROVE HooksInv'
  <1>1. /\ request[c].at = "commit" /\ UNCHANGED <<hooks, drawn, torn, connected>>
        /\ trigger' = request[c].mine /\ lock' = "nobody" /\ request' = [request EXCEPT ![c] = H!Idle]
    BY DEF H!Commit, H!At, H!Goes, H!Nobody
  <1>2. /\ lock = c /\ request[c].mine \in TriggerRows /\ RowHolds(request[c].mine) /\ c # "nobody"
        /\ ~torn => hooks = HooksFor(request[c].mine)
    BY <1>1, HookFacts DEF Stand, LockedPcs
  <1>3. HooksTyped' /\ H!OneHookPerUrl'
    BY <1>1, <1>2, HookFacts, HookRowsAtRest DEF HooksTyped, H!OneHookPerUrl
  <1>4. Stand(c, H!Idle)'
    BY <1>1, <1>2, HookRowsAtRest DEF Stand, LockedPcs
  <1>5. QED
    BY <1>1, <1>2, <1>3, <1>4, HookRowsAtRest, HookStep

LEMMA RequestKeepsHooks == ASSUME HooksInv, NEW c \in Members, H!Request(c) PROVE HooksInv'
  <1>1. CASE H!Crash(c)
    BY <1>1, HookRollsBack DEF H!Crash, H!outside
  <1>2. QED
    BY <1>1, AskKeepsHooks, ListKeepsHooks, UnloadKeepsHooks, RemoveKeepsHooks, DraftKeepsHooks, CreateKeepsHooks,
       UpdateKeepsHooks, RotateKeepsHooks, DeleteKeepsHooks, LoadKeepsHooks, FindKeepsHooks, PostKeepsHooks,
       RecoverKeepsHooks, CommitKeepsHooks DEF H!Request

\* What is outside the requests leaves the hooks and what the row remembers of them alone.
LEMMA HookOutside ==
  ASSUME HooksInv, UNCHANGED <<lock, hooks, request, drawn, torn>>, connected' \in BOOLEAN,
         trigger' \in TriggerRows, RowHolds(trigger'),
         trigger'.hook = trigger.hook, trigger'.place = trigger.place, trigger'.secret = trigger.secret
  PROVE  HooksInv'
  <1>1. HooksFor(trigger') = HooksFor(trigger)
    BY DEF HooksFor
  <1>2. HooksTyped' /\ H!OneHookPerUrl'
    BY DEF HooksInv, HooksTyped, H!OneHookPerUrl
  <1>3. \A c \in Members : Stand(c, request[c])'
    BY <1>1 DEF HooksInv, Stand, H!HooksOf
  <1>4. QED
    BY <1>1, <1>2, <1>3 DEF HooksInv

\* Counting a failure, and forgetting those that were counted.
LEMMA HookCounted ==
  ASSUME HooksInv, NEW t, t = H!Failed(trigger) \/ t = [trigger EXCEPT !.failures = 0] \/ t = trigger
  PROVE  /\ t \in TriggerRows /\ RowHolds(t)
         /\ t.hook = trigger.hook /\ t.place = trigger.place /\ t.secret = trigger.secret
  <1>1. trigger \in TriggerRows /\ RowHolds(trigger)
    BY DEF HooksInv, HooksTyped
  <1>2. MaxFailures \in Nat /\ MaxFailures > 0
    BY PartsAssumption
  <1>3. CASE t = H!Failed(trigger)
    <2> DEFINE n == trigger.failures + 1
               b == trigger.enabled /\ n < MaxFailures
    <2>1. t = [trigger EXCEPT !.failures = n, !.enabled = b]
      BY <1>1, <1>3 DEF H!Failed, TriggerRows
    <2>2. n \in Nat /\ b \in BOOLEAN /\ (n >= MaxFailures => ~b)
      BY <1>1, <1>2 DEF TriggerRows
    <2> HIDE DEF n, b
    <2>3. QED
      BY <1>1, <2>1, <2>2 DEF TriggerRows, RowHolds
  <1>4. CASE t = [trigger EXCEPT !.failures = 0] \/ t = trigger
    BY <1>1, <1>2, <1>4 DEF TriggerRows, RowHolds
  <1>5. QED
    BY <1>3, <1>4

LEMMA EventKeepsHooks == ASSUME HooksInv, NEW e \in Deliveries, H!Event(e) PROVE HooksInv'
  <1>1. UNCHANGED <<lock, hooks, request, drawn, torn, connected>>
    BY DEF H!Event, H!Send, H!Check, H!Fire, H!FailFire, H!RunSucceeds, H!RunFails, H!RunStops, H!inside
  <1>2. trigger' = H!Failed(trigger) \/ trigger' = [trigger EXCEPT !.failures = 0] \/ trigger' = trigger
    BY DEF H!Event, H!Send, H!Check, H!Fire, H!FailFire, H!RunSucceeds, H!RunFails, H!RunStops, H!inside
  <1>3. connected' \in BOOLEAN
    BY <1>1 DEF HooksInv, HooksTyped
  <1>4. QED
    BY <1>1, <1>2, <1>3, HookCounted, HookOutside

LEMMA AccountKeepsHooks == ASSUME HooksInv, H!Disconnect \/ H!Connect \/ H!MinutePasses PROVE HooksInv'
  <1>1. UNCHANGED <<lock, hooks, request, drawn, torn>> /\ (trigger' = trigger \/ trigger' = H!Degraded(trigger))
    BY DEF H!Disconnect, H!Connect, H!MinutePasses, H!inside
  <1>2. connected' \in BOOLEAN
    BY DEF HooksInv, HooksTyped, H!Disconnect, H!Connect, H!MinutePasses, H!inside
  <1>3. trigger \in TriggerRows /\ RowHolds(trigger)
    BY DEF HooksInv, HooksTyped
  <1>4. /\ trigger' \in TriggerRows /\ RowHolds(trigger')
        /\ trigger'.hook = trigger.hook /\ trigger'.place = trigger.place /\ trigger'.secret = trigger.secret
    BY <1>1, <1>3 DEF H!Degraded, TriggerRows, RowHolds
  <1>5. QED
    BY <1>1, <1>2, <1>4, HookOutside

LEMMA HooksStay == ASSUME HooksInv, UNCHANGED H!vars PROVE HooksInv'
  <1>1. /\ UNCHANGED <<trigger, lock, hooks, request, drawn, torn, connected>>
        /\ trigger \in TriggerRows /\ RowHolds(trigger) /\ connected \in BOOLEAN
    BY DEF H!vars, HooksInv, HooksTyped
  <1>2. QED
    BY <1>1, HookOutside

LEMMA HookStepHolds == HooksInv /\ [H!Next]_(H!vars) => HooksInv'
  BY RequestKeepsHooks, EventKeepsHooks, AccountKeepsHooks, HooksStay DEF H!Next

\* Whoever changes a trigger, and wherever a request, a provider or an account gives up: a
\* provider keeps one hook for a URL (findGitHubWebhook before each POST), the row and the hooks
\* agree whenever no request holds the row, but for the named ways in which they come apart, and
\* a trigger that failed MaxFailures times in a row is disabled
\* (companion_record_trigger_run_outcome, companion_api_fail_trigger_fire).
THEOREM TriggerHolds == TurnsSpec => []TriggersHold
  <1>1. TurnsInit => HooksInv
    BY HookStarts DEF TurnsInit
  <1>2. HooksInv /\ [TurnsNext]_<<part, vars, dispatch, webhook>> => HooksInv'
    BY HookStepHolds DEF TurnsNext, webhook, H!vars
  <1>3. HooksInv => TriggersHold
    BY DEF HooksInv, TriggersHold, RowHolds, HooksFor, H!HooksAreRemembered, H!FailuresDisable, H!Nobody
  <1>4. QED
    BY <1>1, <1>2, <1>3, PTL DEF TurnsSpec
-----------------------------------------------------------------------------
\* What is proved of PromptDispatch, for the constants of the turns.
DP == INSTANCE PromptDispatchProofs WITH Mishaps <- Troubles, MaxEvents <- MaxPiEvents

\* Both instances of PromptDispatch take the same steps.
LEMMA SameDispatch == D!Next => DP!Next
  BY DEF D!box, DP!box, D!Attempts, DP!Attempts, D!Invocations, DP!Invocations, D!Terminals, DP!Terminals,
         D!Nothing, DP!Nothing, D!Resting, DP!Resting, D!NoReply, DP!NoReply, D!Idle, DP!Idle, D!TailCursor,
         DP!TailCursor, D!Free, DP!Free, D!Mine, DP!Mine, D!At, DP!At, D!Goes, DP!Goes, D!Claim, DP!Claim,
         D!Expire, DP!Expire, D!LosesFence, DP!LosesFence, D!BrokerIdle, DP!BrokerIdle, D!Ends, DP!Ends,
         D!Resume, DP!Resume, D!Restarted, DP!Restarted, D!Repair, DP!Repair, D!Recheck, DP!Recheck,
         D!WriteIntent, DP!WriteIntent, D!Prove, DP!Prove, D!Sent, DP!Sent, D!Send, DP!Send, D!Receive,
         DP!Receive, D!Recorded, DP!Recorded, D!Resolve, DP!Resolve, D!Accept, DP!Accept, D!CloseDispatch,
         DP!CloseDispatch, D!Cleanup, DP!Cleanup, D!Settle, DP!Settle, D!Pages, DP!Pages, D!Correlated,
         DP!Correlated, D!AfterRead, DP!AfterRead, D!BoundElsewhere, DP!BoundElsewhere, D!Read, DP!Read,
         D!Kinds, DP!Kinds, D!Project, DP!Project, D!Ack, DP!Ack, D!Answered, DP!Answered, D!Stale, DP!Stale,
         D!Deliver, DP!Deliver, D!LedgerCursor, DP!LedgerCursor, D!PiAnswers, DP!PiAnswers, D!LosesMessage,
         DP!LosesMessage, D!Journaled, DP!Journaled, D!PiEvent, DP!PiEvent, D!PiSettles, DP!PiSettles,
         D!PiExits, DP!PiExits, D!DaemonRestarts, DP!DaemonRestarts, D!Executor, DP!Executor, D!Broker,
         DP!Broker, D!Next, DP!Next, D!FairSpec, DP!FairSpec, D!Ats, DP!Ats, D!Replies, DP!Replies, D!Pcs,
         DP!Pcs

\* Of the prompt of an attempt, a behaviour shows one of PromptDispatch.
LEMMA TurnsDispatch == TurnsSpec => DP!Spec
  <1>1. TurnsInit => DP!Init
    BY DEF TurnsInit, D!Init, DP!Init, D!Attempts, DP!Attempts, D!Idle, DP!Idle, D!NoReply, DP!NoReply,
           D!Resting, DP!Resting, D!Nothing, DP!Nothing
  <1>2. [TurnsNext]_<<part, vars, dispatch, webhook>> => [DP!Next]_(DP!vars)
    BY SameDispatch DEF TurnsNext, dispatch, DP!vars
  <1>3. QED
    BY <1>1, <1>2, PTL DEF TurnsSpec, DP!Spec

\* While Pi's answers reach the broker and the broker writes its ledger, Pi begins the prompt of
\* an attempt once, however often the executor sends it; what an attempt shows is its own, without
\* gaps, and no record is acknowledged to the broker before it was projected
\* (boxCompanionRuntime.ts: the ledger lookup before a resend, the cursor of the attempt).
THEOREM TurnsRunOnceShownWhole == {"ack", "ledger"} \cap Troubles = {} => (TurnsSpec => []RunsOnceShownWhole)
  <1> SUFFICES ASSUME {"ack", "ledger"} \cap Troubles = {} PROVE TurnsSpec => []RunsOnceShownWhole
    OBVIOUS
  <1>1. DP!AnswersArrive
    BY DEF DP!AnswersArrive
  <1>2. DP!Spec => [](DP!PromptRunsOnce /\ DP!ProjectedIsItsOwn /\ DP!AckedWasProjected)
    <2>0. DP!DispatchAssumption
      BY DispatchParts DEF D!DispatchConstants, DP!DispatchAssumption, DP!DispatchConstants
    <2>1. DP!Spec => []DP!PromptRunsOnce
      BY <1>1, <2>0, DP!RunsOnce
    <2>2. DP!Spec => []DP!AckedWasProjected
      BY <1>1, <2>0, DP!AckedIsProjected
    <2>3. DP!Spec => []DP!ProjectedIsItsOwn
      BY <2>0, DP!ProjectsItsOwn
    <2>4. QED
      BY <2>1, <2>2, <2>3, PTL
  <1>3. DP!PromptRunsOnce /\ DP!ProjectedIsItsOwn /\ DP!AckedWasProjected => RunsOnceShownWhole
    BY DEF RunsOnceShownWhole, D!PromptRunsOnce, DP!PromptRunsOnce, D!ProjectedIsItsOwn, DP!ProjectedIsItsOwn,
           D!AckedWasProjected, DP!AckedWasProjected, D!Attempts, DP!Attempts, D!Terminals, DP!Terminals
  <1>4. QED
    BY <1>2, <1>3, TurnsDispatch, PTL
=============================================================================
