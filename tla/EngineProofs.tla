---------------------------- MODULE EngineProofs ----------------------------
(***************************************************************************)
(* Proofs about RuntimeReplica for every set of works, every concurrency   *)
(* and every bound: what a replica runs stays within its share, and no     *)
(* lease that it knows it holds lies idle.                                 *)
(***************************************************************************)
EXTENDS MCEngine, TLAPS, FiniteSetTheorems

\* Claims wait for the engine only between the answer of the claim and the callback that executes them.
BatchInHand == batch # {} => loop = "grant"

\* The slots counted before the claim are still free when its answer comes.
SlotsAreFree == loop = "claim" => slots + Cardinality(active) <= Concurrency

\* A fence that was given out carries an epoch its work has reached.
FencesIssued == \A x \in Fences : exec[x].st # "none" \/ x \in active \cup batch => x[2] <= work[x[1]].epoch

\* A closed gate leaves no lease, and a sweep that read it closed finds none of its own.
ClosedHoldsNothing == /\ ~gate.open => \A w \in Works : work[w].owner = "none"
                      /\ loop = "decide" /\ ~seen.open => \A w \in Works : work[w].owner # "self"

\* A lease has an epoch.
GrantsHaveEpochs == \A w \in Works : work[w].owner = "self" => work[w].epoch >= 1

\* A session that is registered belongs to an execution that has not returned.
RegisteredRuns == \A x \in Fences : Registered(x) => x \in active

\* A handler that has ended gave its lease up, or left it to the replica that takes over, or
\* its session could not tell that it held it.
EndedGaveUp == \A x \in Fences : exec[x].st = "ending" => ~Holds(x) \/ exec[x].ask = "handoff" \/ exec[x].lost

ReplicaInv == /\ TypeOK /\ BatchInHand /\ SlotsAreFree /\ ConcurrencyRespected /\ FencesIssued
              /\ ClosedHoldsNothing /\ GrantsHaveEpochs /\ RegisteredRuns /\ EndedGaveUp /\ NoIdleLease

WorkRows == [epoch : 0..MaxEpoch, owner : {"none", "self", "other"}, settled : BOOLEAN]

\* There are finitely many fences, and so executions.
LEMMA FencesFinite == IsFiniteSet(Fences)
  <1>1. IsFiniteSet(Works) /\ IsFiniteSet(Epochs)
    BY ReplicaAssumption, FS_Interval DEF Epochs
  <1>2. QED
    BY <1>1, FS_Product DEF Fences

LEMMA RunningFinite ==
  ASSUME TypeOK
  PROVE  /\ IsFiniteSet(active) /\ IsFiniteSet(active \cup batch)
         /\ Cardinality(active) \in Nat /\ Cardinality(active \cup batch) \in Nat
         /\ Cardinality(active) <= Cardinality(active \cup batch)
         /\ \A Set \in SUBSET active : IsFiniteSet(Set) /\ Cardinality(Set) <= Cardinality(active) /\ Cardinality(Set) \in Nat
         /\ \A Set \in SUBSET (active \cup batch) :
              IsFiniteSet(Set) /\ Cardinality(Set) <= Cardinality(active \cup batch) /\ Cardinality(Set) \in Nat
  <1>1. active \in SUBSET Fences /\ active \cup batch \in SUBSET Fences /\ active \in SUBSET (active \cup batch)
    BY DEF TypeOK
  <1>2. IsFiniteSet(active) /\ IsFiniteSet(active \cup batch)
    BY <1>1, FencesFinite, FS_Subset
  <1>3. QED
    BY <1>1, <1>2, FS_Subset, FS_CardinalityType

\* A fence is a work and an epoch.
LEMMA FenceParts ==
  /\ \A x \in Fences : x[1] \in Works /\ x[2] \in Epochs /\ x = <<x[1], x[2]>> /\ x[2] \in 1..MaxEpoch
  /\ \A w \in Works, e \in Epochs : <<w, e>> \in Fences /\ <<w, e>>[1] = w /\ <<w, e>>[2] = e
  BY DEF Fences, Epochs

\* Asking the registered sessions to stop changes what they are asked and nothing else.
LEMMA AskedSessions ==
  ASSUME TypeOK, NEW what \in {"handoff", "shutdown"}, exec' = AskAll(what)
  PROVE  /\ exec' \in [Fences -> Executions]
         /\ \A x \in Fences : /\ exec'[x].st = exec[x].st
                              /\ ~Registered(x) => exec'[x] = exec[x]
                              /\ exec'[x].lost = exec[x].lost
                              /\ what = "handoff" /\ exec[x].ask = "handoff" => exec'[x].ask = "handoff"
  <1>1. exec \in [Fences -> Executions]
    BY DEF TypeOK
  <1>2. QED
    BY <1>1 DEF AskAll, Executions
\* A lease this replica holds is one of a fence.
LEMMA HeldFence ==
  ASSUME ReplicaInv, NEW w \in Works, work[w].owner = "self"
  PROVE  <<w, work[w].epoch>> \in Fences
  <1>1. work[w].epoch >= 1 /\ work[w].epoch \in 0..MaxEpoch
    BY DEF ReplicaInv, GrantsHaveEpochs, TypeOK
  <1>2. work[w].epoch \in Epochs
    BY <1>1, ReplicaAssumption DEF Epochs
  <1>3. QED
    BY <1>2, FenceParts

\* The lease of one work may be given up; nothing else of the leases changes.
GivesUp(v) == /\ work' \in [Works -> WorkRows]
              /\ \A w \in Works : /\ work'[w].epoch = work[w].epoch
                                  /\ work'[w].owner = work[w].owner \/ (w = v /\ work'[w].owner = "none")
LEMMA GivenUp ==
  ASSUME TypeOK, NEW v \in Works,
         \/ work' = work \/ \E settled \in BOOLEAN : work' = Freed(v, settled)
  PROVE  GivesUp(v)
  <1>1. work \in [Works -> WorkRows]
    BY DEF TypeOK, WorkRows
  <1>2. QED
    BY <1>1 DEF GivesUp, Freed, WorkRows

\* A step that only asks sessions to stop, and unasks no handoff.
LEMMA AsksStand ==
  ASSUME ReplicaInv, UNCHANGED <<work, gate, sweep, active, sessions, wake, cut, accepting, unswept>>,
         handed' \in BOOLEAN, exec' \in [Fences -> Executions],
         \A x \in Fences : /\ exec'[x].st = exec[x].st /\ (exec[x].ask = "handoff" => exec'[x].ask = "handoff")
                            /\ exec'[x].lost \in {exec[x].lost, TRUE}
  PROVE  ReplicaInv'
  <1>1. TypeOK'
    BY DEF ReplicaInv, TypeOK, sweep
  <1>2. NoIdleLease'
    <2> SUFFICES ASSUME NEW w \in Works, work[w].owner = "self", NEW x, x = <<w, work[w].epoch>>
                 PROVE  x \in active \cup batch \/ exec'[x].st = "adrift" \/ exec'[x].ask = "handoff" \/ exec'[x].lost
      BY DEF NoIdleLease, sweep
    <2>1. x \in Fences
      BY HeldFence
    <2>2. x \in active \cup batch \/ exec[x].st = "adrift" \/ exec[x].ask = "handoff" \/ exec[x].lost
      BY DEF ReplicaInv, NoIdleLease
    <2>3. QED
      BY <2>1, <2>2
  <1>3. QED
    BY <1>1, <1>2 DEF ReplicaInv, BatchInHand, SlotsAreFree, ConcurrencyRespected, FencesIssued, ClosedHoldsNothing,
       GrantsHaveEpochs, RegisteredRuns, Registered, EndedGaveUp, Holds, sweep
-----------------------------------------------------------------------------
(* The steps of the claim loop. *)

\* A step that leaves leases, executions and sessions alone.
LEMMA LoopMoves ==
  ASSUME ReplicaInv, TypeOK', UNCHANGED <<work, gate, batch, active, exec, sessions>>,
         BatchInHand', SlotsAreFree', ClosedHoldsNothing'
  PROVE  ReplicaInv'
  BY DEF ReplicaInv, ConcurrencyRespected, FencesIssued, GrantsHaveEpochs, RegisteredRuns, Registered, EndedGaveUp, Holds, NoIdleLease

LEMMA LoopStep ==
  ASSUME ReplicaInv, BeginSweep \/ ReadGate \/ SweepFails \/ Between \/ Woken \/ SleptEnough \/ StopClaims
  PROVE  ReplicaInv'
  <1>1. UNCHANGED <<work, gate, batch, active, exec, sessions, slots>>
    BY DEF BeginSweep, ReadGate, SweepFails, Between, Woken, SleptEnough, StopClaims, database, sweep, process
  <1>2. TypeOK'
    <2>1. TypeOK
      BY DEF ReplicaInv
    <2>2. QED
      BY <2>1 DEF TypeOK, BeginSweep, ReadGate, SweepFails, Between, Woken, SleptEnough, StopClaims, database, sweep, process
  <1>3. loop = "grant" => loop' = "grant"
    BY DEF BeginSweep, ReadGate, SweepFails, Between, Woken, SleptEnough, StopClaims, database, sweep, process
  <1>4. loop' = "claim" => loop = "claim"
    BY DEF BeginSweep, ReadGate, SweepFails, Between, Woken, SleptEnough, StopClaims, database, sweep, process
  <1>5. loop' = "decide" => (loop = "decide" /\ seen' = seen) \/ seen' = gate
    BY DEF BeginSweep, ReadGate, SweepFails, Between, Woken, SleptEnough, StopClaims, database, sweep, process
  <1>6. BatchInHand' /\ SlotsAreFree' /\ ClosedHoldsNothing'
    BY <1>1, <1>3, <1>4, <1>5 DEF ReplicaInv, BatchInHand, SlotsAreFree, ClosedHoldsNothing
  <1>7. QED
    BY <1>1, <1>2, <1>6, LoopMoves

LEMMA DecideStep ==
  ASSUME ReplicaInv, Decide
  PROVE  ReplicaInv'
  <1>1. TypeOK /\ batch = {} /\ loop = "decide"
    BY DEF ReplicaInv, BatchInHand, Decide
  <1>2. UNCHANGED <<work, gate, batch, active, sessions, seen>>
    BY DEF Decide, database
  <1>3. Cardinality(active) \in Nat /\ Cardinality(active) <= Concurrency
    BY <1>1, RunningFinite, ReplicaAssumption DEF ReplicaInv, ConcurrencyRespected
  <1>4. exec' \in [Fences -> Executions]
    BY <1>1, AskedSessions DEF Decide, TypeOK
  <1>5. TypeOK'
    <2>1. slots' \in 0..Concurrency
      BY <1>1, <1>3, ReplicaAssumption DEF TypeOK, Decide, FreeSlots
    <2>2. /\ {wake', cut', interrupted', accepting', handed', unswept'} \subseteq BOOLEAN
          /\ loop' \in {"claim", "between"}
      BY <1>1 DEF TypeOK, Decide
    <2>3. QED
      BY <1>1, <1>2, <1>4, <2>1, <2>2 DEF TypeOK
  <1>6. BatchInHand' /\ SlotsAreFree' /\ ClosedHoldsNothing'
    BY <1>1, <1>2, <1>3, ReplicaAssumption
       DEF Decide, FreeSlots, ReplicaInv, BatchInHand, SlotsAreFree, ClosedHoldsNothing
  <1>7. CASE exec' = exec
    BY <1>2, <1>5, <1>6, <1>7, LoopMoves
  <1>8. CASE exec' = AskAll("shutdown") /\ ~seen.open
    <2>1. \A w \in Works : work[w].owner # "self"
      BY <1>1, <1>8 DEF ReplicaInv, ClosedHoldsNothing
    <2>2. \A x \in Fences : exec'[x].st = exec[x].st
      BY <1>1, <1>8, AskedSessions
    <2>3. FencesIssued'
      BY <1>2, <2>2 DEF ReplicaInv, FencesIssued
    <2>4. EndedGaveUp' /\ NoIdleLease'
      BY <1>2, <2>1, FenceParts DEF EndedGaveUp, NoIdleLease, Holds
    <2>5. ConcurrencyRespected' /\ RegisteredRuns' /\ GrantsHaveEpochs'
      BY <1>2 DEF ReplicaInv, ConcurrencyRespected, RegisteredRuns, Registered, GrantsHaveEpochs
    <2>6. QED
      BY <1>5, <1>6, <2>3, <2>4, <2>5 DEF ReplicaInv
  <1>9. QED
    BY <1>7, <1>8 DEF Decide

\* The fences of the works just claimed are new, and no more than the works.
LEMMA NewFences ==
  ASSUME TypeOK, NEW W \in SUBSET Claimable, work' = ClaimedBy(W, "self")
  PROVE  LET new == {<<w, work'[w].epoch>> : w \in W}
         IN  /\ new \subseteq Fences /\ IsFiniteSet(new) /\ Cardinality(new) <= Cardinality(W)
             /\ Cardinality(W) \in Nat /\ Cardinality(new) \in Nat
             /\ \A x \in new : x[2] = work[x[1]].epoch + 1 /\ x[2] = work'[x[1]].epoch
             /\ \A w \in W : <<w, work'[w].epoch>> \in new
  <1>1. work \in [Works -> WorkRows] /\ W \subseteq Works
    BY DEF TypeOK, WorkRows, Claimable
  <1>2. \A w \in W : work[w].epoch \in 0..MaxEpoch /\ work[w].epoch < MaxEpoch /\ work'[w].epoch = work[w].epoch + 1
    BY <1>1 DEF WorkRows, Claimable, ClaimedBy
  <1>3. \A w \in W : work'[w].epoch \in Epochs
    BY <1>2, ReplicaAssumption DEF Epochs
  <1> DEFINE new == {<<w, work'[w].epoch>> : w \in W}
             f == [w \in W |-> <<w, work'[w].epoch>>]
  <1>4. f \in Surjection(W, new)
    BY DEF Surjection
  <1>5. IsFiniteSet(W)
    BY <1>1, ReplicaAssumption, FS_Subset
  <1>6. IsFiniteSet(new) /\ Cardinality(new) <= Cardinality(W)
    <2> HIDE DEF f, new
    <2>1. QED
      BY <1>4, <1>5, FS_Surjection
  <1>7. Cardinality(new) \in Nat /\ Cardinality(W) \in Nat
    BY <1>5, <1>6, FS_CardinalityType
  <1>8. new \subseteq Fences
    BY <1>1, <1>3, FenceParts
  <1>9. \A x \in new : x[2] = work[x[1]].epoch + 1 /\ x[2] = work'[x[1]].epoch
    BY <1>2
  <1>10. QED
    BY <1>6, <1>7, <1>8, <1>9

LEMMA ClaimStep ==
  ASSUME ReplicaInv, ClaimWork
  PROVE  ReplicaInv'
  <1>1. PICK W \in SUBSET Claimable :
          /\ Cardinality(W) <= slots
          /\ W # {} => gate.open /\ gate = seen
          /\ work' = ClaimedBy(W, "self")
          /\ LET new == {<<w, work'[w].epoch>> : w \in W}
             IN  \/ /\ batch' = new /\ loop' = IF W = {} THEN "between" ELSE "grant"
                    /\ UNCHANGED exec
                 \/ /\ "reply" \in Mishaps /\ W # {}
                    /\ exec' = [x \in Fences |-> IF x \in new THEN [exec[x] EXCEPT !.st = "adrift"]
                                                 ELSE exec[x]]
                    /\ loop' = "between" /\ UNCHANGED batch
    BY DEF ClaimWork
  <1> DEFINE new == {<<w, work'[w].epoch>> : w \in W}
  <1>2. TypeOK /\ batch = {} /\ slots + Cardinality(active) <= Concurrency
    BY DEF ClaimWork, ReplicaInv, BatchInHand, SlotsAreFree
  <1>3. work \in [Works -> WorkRows] /\ exec \in [Fences -> Executions] /\ W \subseteq Works /\ active \subseteq Fences
        /\ slots \in Nat
    BY <1>2 DEF TypeOK, WorkRows, Claimable
  <1>4. /\ new \subseteq Fences /\ IsFiniteSet(new) /\ Cardinality(new) <= Cardinality(W)
        /\ Cardinality(W) \in Nat /\ Cardinality(new) \in Nat
        /\ \A x \in new : x[2] = work[x[1]].epoch + 1 /\ x[2] = work'[x[1]].epoch
        /\ \A w \in W : <<w, work'[w].epoch>> \in new
    BY <1>1, <1>2, NewFences
  <1>5. /\ batch' = new /\ exec' = exec /\ loop' = (IF W = {} THEN "between" ELSE "grant")
        \/ /\ batch' = {} /\ loop' = "between"
           /\ exec' = [x \in Fences |-> IF x \in new THEN [exec[x] EXCEPT !.st = "adrift"] ELSE exec[x]]
    BY <1>1, <1>2
  <1>6. W = {} => new = {}
    OBVIOUS
  <1> HIDE DEF new
  <1>7. UNCHANGED <<gate, seen, slots, interrupted, active, sessions, wake, cut, accepting, handed, unswept>>
    BY DEF ClaimWork
  <1>8. /\ work' \in [Works -> WorkRows]
        /\ \A w \in Works : work[w].epoch <= work'[w].epoch
        /\ \A w \in W : work'[w].owner = "self" /\ work[w].owner = "none" /\ work'[w].epoch = work[w].epoch + 1
        /\ \A w \in Works \ W : work'[w] = work[w]
    <2>1. \A w \in W : work[w].owner = "none" /\ work[w].epoch \in 0..MaxEpoch /\ work[w].epoch + 1 \in 0..MaxEpoch
                     /\ work[w] \in WorkRows
      BY <1>3, ReplicaAssumption DEF WorkRows, Claimable
    <2>2. \A w \in W : [work[w] EXCEPT !.epoch = @ + 1, !.owner = "self"] \in WorkRows
      <3> SUFFICES ASSUME NEW w \in W, NEW k \in 0..MaxEpoch, k = work[w].epoch + 1
                   PROVE  [work[w] EXCEPT !.epoch = k, !.owner = "self"] \in WorkRows
        BY <2>1
      <3>1. QED
        BY <2>1 DEF WorkRows
    <2>3. work' = [w \in Works |-> IF w \in W THEN [work[w] EXCEPT !.epoch = @ + 1, !.owner = "self"] ELSE work[w]]
      BY <1>1 DEF ClaimedBy
    <2>4. work' \in [Works -> WorkRows]
      BY <1>3, <2>2, <2>3
    <2>5. \A w \in W : work'[w].owner = "self" /\ work'[w].epoch = work[w].epoch + 1
      BY <1>3, <2>1, <2>3 DEF WorkRows
    <2>6. \A w \in Works \ W : work'[w] = work[w]
      BY <2>3
    <2>7. \A w \in Works : work[w].epoch <= work'[w].epoch
      BY <1>3, <2>1, <2>5, <2>6 DEF WorkRows
    <2>8. QED
      BY <2>1, <2>4, <2>5, <2>6, <2>7
  <1>9. exec' \in [Fences -> Executions]
        /\ \A x \in Fences : exec'[x].ask = exec[x].ask /\ exec'[x].lost = exec[x].lost
                             /\ (exec'[x].st = exec[x].st \/ (x \in new /\ exec'[x].st = "adrift"))
    BY <1>3, <1>5 DEF Executions
  <1>10. TypeOK'
    BY <1>2, <1>4, <1>5, <1>7, <1>8, <1>9 DEF TypeOK, WorkRows
  <1>11. BatchInHand' /\ SlotsAreFree'
    BY <1>5, <1>6 DEF BatchInHand, SlotsAreFree
  <1>12. ConcurrencyRespected'
    <2>1. batch' = new \/ batch' = {}
      BY <1>5
    <2>2. Cardinality(active) \in Nat /\ IsFiniteSet(active)
      BY <1>2, RunningFinite
    <2>3. Cardinality(active \cup new) = Cardinality(active) + Cardinality(new) - Cardinality(active \cap new)
      BY <1>4, <2>2, FS_Union
    <2>4. Cardinality(active \cap new) \in Nat
      BY <2>2, FS_Intersection, FS_CardinalityType
    <2>5. Cardinality(active \cup new) <= Concurrency
      BY <1>1, <1>2, <1>3, <1>4, <2>2, <2>3, <2>4, ReplicaAssumption
    <2>6. Cardinality(active \cup {}) <= Concurrency
      BY <1>2 DEF ReplicaInv, ConcurrencyRespected
    <2>7. QED
      BY <1>7, <2>1, <2>5, <2>6 DEF ConcurrencyRespected
  <1>13. FencesIssued'
    <2> SUFFICES ASSUME NEW x \in Fences, exec'[x].st # "none" \/ x \in active' \cup batch'
                 PROVE  x[2] <= work'[x[1]].epoch
      BY DEF FencesIssued
    <2>1. x[1] \in Works /\ x[2] \in Int /\ work[x[1]].epoch \in Int /\ work'[x[1]].epoch \in Int
      BY <1>3, <1>8, FenceParts DEF WorkRows
    <2>2. CASE x \in new
      BY <1>4, <2>1, <2>2
    <2>3. CASE x \notin new
      <3>1. exec[x].st # "none" \/ x \in active \cup batch
        BY <1>2, <1>5, <1>7, <1>9, <2>3
      <3>2. x[2] <= work[x[1]].epoch
        BY <3>1 DEF ReplicaInv, FencesIssued
      <3>3. QED
        BY <1>8, <2>1, <3>2
    <2>4. QED
      BY <2>2, <2>3
  <1>14. ClosedHoldsNothing'
    <2>1. ~gate.open => W = {}
      BY <1>1
    <2>2. QED
      BY <1>5, <1>7, <1>8, <2>1 DEF ReplicaInv, ClosedHoldsNothing
  <1>15. RegisteredRuns' /\ GrantsHaveEpochs'
    <2>1. \A w \in W : work'[w].epoch >= 1
      BY <1>3, <1>8 DEF WorkRows
    <2>2. QED
      BY <1>7, <1>8, <2>1 DEF ReplicaInv, RegisteredRuns, Registered, GrantsHaveEpochs
  <1>16. EndedGaveUp'
    <2> SUFFICES ASSUME NEW x \in Fences, exec'[x].st = "ending", Holds(x)' PROVE exec'[x].ask = "handoff" \/ exec'[x].lost
      BY DEF EndedGaveUp
    <2>1. exec[x].st = "ending" /\ x[1] \in Works /\ x[2] \in Int /\ work[x[1]].epoch \in Int
      BY <1>3, <1>9, FenceParts DEF WorkRows
    <2>2. x[2] <= work[x[1]].epoch
      BY <2>1 DEF ReplicaInv, FencesIssued
    <2>3. x[1] \notin W
      BY <1>8, <2>1, <2>2 DEF Holds
    <2>4. Holds(x)
      BY <1>8, <2>1, <2>3 DEF Holds
    <2>5. QED
      BY <1>9, <2>1, <2>4 DEF ReplicaInv, EndedGaveUp
  <1>17. NoIdleLease'
    <2> SUFFICES ASSUME NEW w \in Works, work'[w].owner = "self", NEW x, x = <<w, work'[w].epoch>>
                 PROVE  x \in active' \cup batch' \/ exec'[x].st = "adrift" \/ exec'[x].ask = "handoff" \/ exec'[x].lost
      BY DEF NoIdleLease
    <2>1. CASE w \in W
      <3>1. x \in new /\ x \in Fences
        BY <1>4, <2>1
      <3>2. CASE batch' = new
        BY <3>1, <3>2
      <3>3. CASE exec' = [y \in Fences |-> IF y \in new THEN [exec[y] EXCEPT !.st = "adrift"] ELSE exec[y]]
        BY <1>3, <3>1, <3>3 DEF Executions
      <3>4. QED
        BY <1>5, <3>2, <3>3
    <2>2. CASE w \notin W
      <3>1. work[w].owner = "self" /\ x = <<w, work[w].epoch>>
        BY <1>8, <2>2
      <3>2. x \in active \cup batch \/ exec[x].st = "adrift" \/ exec[x].ask = "handoff" \/ exec[x].lost
        BY <3>1 DEF ReplicaInv, NoIdleLease
      <3>3. x \in active \/ (x \in Fences /\ (exec[x].st = "adrift" \/ exec[x].ask = "handoff" \/ exec[x].lost))
        <4>1. work[w].epoch >= 1
          BY <3>1 DEF ReplicaInv, GrantsHaveEpochs
        <4>2. work[w].epoch \in Epochs
          BY <1>3, <4>1, ReplicaAssumption DEF WorkRows, Epochs
        <4>3. x \in Fences
          BY <3>1, <4>2, FenceParts
        <4>4. QED
          BY <1>2, <3>2, <4>3
      <3>4. QED
        BY <1>7, <1>9, <3>3
    <2>3. QED
      BY <2>1, <2>2
  <1>18. QED
    BY <1>10, <1>11, <1>12, <1>13, <1>14, <1>15, <1>16, <1>17 DEF ReplicaInv
\* The claims in hand become executions, all in one callback.
LEMMA ExecuteStep ==
  ASSUME ReplicaInv, ExecuteClaims
  PROVE  ReplicaInv'
  <1>1. TypeOK /\ exec \in [Fences -> Executions] /\ sessions \in [Works -> 0..MaxEpoch] /\ batch \subseteq Fences
    BY DEF ReplicaInv, TypeOK
  <1>2. /\ UNCHANGED <<work, gate, seen, slots, interrupted, wake, cut, accepting, handed, unswept>>
        /\ active' = active \cup batch /\ batch' = {} /\ loop' = "between"
    BY DEF ExecuteClaims, database
  <1>3. exec' = [x \in Fences |-> IF x \in batch THEN [exec[x] EXCEPT !.st = "live"] ELSE exec[x]]
    BY DEF ExecuteClaims
  <1>4. exec' \in [Fences -> Executions]
        /\ \A x \in Fences : /\ exec'[x].ask = exec[x].ask /\ exec'[x].lost = exec[x].lost
                             /\ exec'[x].st = IF x \in batch THEN "live" ELSE exec[x].st
    BY <1>1, <1>3 DEF Executions
  <1>5. \A w \in Works : (sessions'[w] = sessions[w] /\ sessions'[w] \in 0..MaxEpoch)
                         \/ (sessions'[w] \in Epochs /\ <<w, sessions'[w]>> \in batch)
    <2> SUFFICES ASSUME NEW w \in Works
                 PROVE  \/ sessions'[w] = sessions[w] /\ sessions'[w] \in 0..MaxEpoch
                        \/ sessions'[w] \in Epochs /\ <<w, sessions'[w]>> \in batch
      OBVIOUS
    <2>1. sessions'[w] = IF \E e \in Epochs : <<w, e>> \in batch
                         THEN CHOOSE e \in Epochs : <<w, e>> \in batch ELSE sessions[w]
      BY DEF ExecuteClaims
    <2>2. CASE \E e \in Epochs : <<w, e>> \in batch
      <3> DEFINE c == CHOOSE e \in Epochs : <<w, e>> \in batch
      <3>1. c \in Epochs /\ <<w, c>> \in batch
        BY <2>2
      <3>2. QED
        BY <2>1, <2>2, <3>1
    <2>3. CASE ~\E e \in Epochs : <<w, e>> \in batch
      BY <1>1, <2>1, <2>3
    <2>4. QED
      BY <2>2, <2>3
  <1>6. sessions' \in [Works -> 0..MaxEpoch]
    <2>0. \A e \in Epochs : e \in 0..MaxEpoch
      BY ReplicaAssumption DEF Epochs
    <2>1. \A w \in Works : sessions'[w] \in 0..MaxEpoch
      BY <1>5, <2>0
    <2>2. sessions' = [w \in Works |-> sessions'[w]]
      BY DEF ExecuteClaims
    <2>3. QED
      BY <2>1, <2>2
  <1>7. TypeOK'
    BY <1>1, <1>2, <1>4, <1>6 DEF TypeOK
  <1>8. BatchInHand' /\ SlotsAreFree' /\ ClosedHoldsNothing' /\ GrantsHaveEpochs'
    BY <1>2 DEF ReplicaInv, BatchInHand, SlotsAreFree, ClosedHoldsNothing, GrantsHaveEpochs
  <1>9. ConcurrencyRespected'
    <2>1. active' \cup batch' = active \cup batch
      BY <1>2
    <2>2. QED
      BY <2>1 DEF ReplicaInv, ConcurrencyRespected
  <1>10. FencesIssued'
    BY <1>2, <1>4 DEF ReplicaInv, FencesIssued
  <1>11. RegisteredRuns'
    <2> SUFFICES ASSUME NEW x \in Fences, sessions'[x[1]] = x[2] PROVE x \in active'
      BY DEF RegisteredRuns, Registered
    <2>1. x[1] \in Works /\ x = <<x[1], x[2]>>
      BY FenceParts
    <2>2. CASE sessions'[x[1]] = sessions[x[1]]
      BY <1>2, <2>2 DEF ReplicaInv, RegisteredRuns, Registered
    <2>3. CASE <<x[1], sessions'[x[1]]>> \in batch
      BY <1>2, <2>1, <2>3
    <2>4. QED
      BY <1>5, <2>1, <2>2, <2>3
  <1>12. EndedGaveUp'
    BY <1>2, <1>4 DEF ReplicaInv, EndedGaveUp, Holds
  <1>13. NoIdleLease'
    <2> SUFFICES ASSUME NEW w \in Works, work'[w].owner = "self", NEW x, x = <<w, work'[w].epoch>>
                 PROVE  x \in active' \cup batch' \/ exec'[x].st = "adrift" \/ exec'[x].ask = "handoff" \/ exec'[x].lost
      BY DEF NoIdleLease
    <2>1. x \in active \cup batch \/ exec[x].st = "adrift" \/ exec[x].ask = "handoff" \/ exec[x].lost
      BY <1>2 DEF ReplicaInv, NoIdleLease
    <2>2. x \in Fences
      BY <1>1, <1>2, HeldFence
    <2>3. QED
      BY <1>2, <1>4, <2>1, <2>2
  <1>14. QED
    BY <1>7, <1>8, <1>9, <1>10, <1>11, <1>12, <1>13 DEF ReplicaInv

LEMMA ReleaseStep ==
  ASSUME ReplicaInv, ReleaseClaim
  PROVE  ReplicaInv'
  <1>1. PICK x \in batch :
          /\ work' = GivenBack(x)
          /\ \/ /\ batch' = batch \ {x} /\ UNCHANGED exec
                /\ loop' = IF batch = {x} THEN "between" ELSE "grant"
             \/ /\ exec' = [y \in Fences |-> IF y \in batch THEN [exec[y] EXCEPT !.st = "adrift"] ELSE exec[y]]
                /\ batch' = {} /\ loop' = "between"
    BY DEF ReleaseClaim
  <1>2. /\ TypeOK /\ exec \in [Fences -> Executions] /\ batch \subseteq Fences /\ work \in [Works -> WorkRows]
        /\ x \in Fences /\ x[1] \in Works /\ x = <<x[1], x[2]>>
    BY <1>1, FenceParts DEF ReplicaInv, TypeOK, WorkRows
  <1>3. UNCHANGED <<gate, seen, slots, interrupted, active, sessions, wake, cut, accepting, handed, unswept>>
    BY DEF ReleaseClaim
  <1>4. GivesUp(x[1])
    <2>1. work[x[1]].settled \in BOOLEAN
      BY <1>2 DEF WorkRows
    <2>2. work' = work \/ \E settled \in BOOLEAN : work' = Freed(x[1], settled)
      BY <1>1, <2>1 DEF GivenBack
    <2>3. QED
      BY <1>2, <2>2, GivenUp
  <1>5. exec' \in [Fences -> Executions]
        /\ \A y \in Fences : /\ exec'[y].ask = exec[y].ask /\ exec'[y].lost = exec[y].lost
                             /\ exec'[y].st = exec[y].st \/ (y \in batch /\ exec'[y].st = "adrift")
    BY <1>1, <1>2 DEF Executions
  <1>6. batch' \subseteq batch /\ loop' \in {"between", "grant"} /\ (batch' # {} => loop' = "grant")
    BY <1>1
  <1>7. TypeOK'
    BY <1>2, <1>3, <1>4, <1>5, <1>6 DEF TypeOK, WorkRows, GivesUp
  <1>8. BatchInHand' /\ SlotsAreFree'
    BY <1>6 DEF BatchInHand, SlotsAreFree
  <1>9. ConcurrencyRespected'
    <2>1. active' \cup batch' \in SUBSET (active \cup batch)
      BY <1>3, <1>6
    <2>2. Cardinality(active' \cup batch') <= Cardinality(active \cup batch)
          /\ Cardinality(active' \cup batch') \in Nat /\ Cardinality(active \cup batch) \in Nat
      BY <1>2, <2>1, RunningFinite
    <2>3. QED
      BY <2>2, ReplicaAssumption DEF ReplicaInv, ConcurrencyRespected
  <1>10. FencesIssued'
    <2>1. \A y \in Fences : exec'[y].st # "none" \/ y \in active' \cup batch' =>
                            exec[y].st # "none" \/ y \in active \cup batch
      BY <1>3, <1>5, <1>6
    <2>2. QED
      BY <1>4, <2>1, FenceParts DEF ReplicaInv, FencesIssued, GivesUp
  <1>11. ClosedHoldsNothing' /\ GrantsHaveEpochs'
    BY <1>3, <1>4, <1>6 DEF ReplicaInv, ClosedHoldsNothing, GrantsHaveEpochs, GivesUp
  <1>12. RegisteredRuns'
    BY <1>3 DEF ReplicaInv, RegisteredRuns, Registered
  <1>13. EndedGaveUp'
    BY <1>4, <1>5, FenceParts DEF ReplicaInv, EndedGaveUp, Holds, GivesUp
  <1>14. NoIdleLease'
    <2> SUFFICES ASSUME NEW w \in Works, work'[w].owner = "self", NEW y, y = <<w, work'[w].epoch>>
                 PROVE  y \in active' \cup batch' \/ exec'[y].st = "adrift" \/ exec'[y].ask = "handoff" \/ exec'[y].lost
      BY DEF NoIdleLease
    <2>1. work[w].owner = "self" /\ y = <<w, work[w].epoch>>
      BY <1>4 DEF GivesUp
    <2>2. y \in active \cup batch \/ exec[y].st = "adrift" \/ exec[y].ask = "handoff" \/ exec[y].lost
      BY <2>1 DEF ReplicaInv, NoIdleLease
    <2>3. y \in Fences
      BY <2>1, HeldFence
    <2>4. y # x
      <3>1. CASE Holds(x)
        BY <1>1, <1>2, <2>1, <3>1 DEF GivenBack, Freed, WorkRows
      <3>2. CASE ~Holds(x)
        BY <1>2, <2>1, <3>2 DEF Holds
      <3>3. QED
        BY <3>1, <3>2
    <2>5. CASE batch' = batch \ {x}
      BY <1>3, <1>5, <2>2, <2>3, <2>4, <2>5
    <2>6. CASE exec' = [z \in Fences |-> IF z \in batch THEN [exec[z] EXCEPT !.st = "adrift"] ELSE exec[z]]
      BY <1>2, <1>3, <1>5, <2>2, <2>3, <2>6 DEF Executions
    <2>7. QED
      BY <1>1, <2>5, <2>6
  <1>15. QED
    BY <1>7, <1>8, <1>9, <1>10, <1>11, <1>12, <1>13, <1>14 DEF ReplicaInv
-----------------------------------------------------------------------------
(* The executions, the process and the world. *)

LEMMA RenewStep ==
  ASSUME ReplicaInv, NEW x \in Fences, Renew(x) \/ Doubt(x)
  PROVE  ReplicaInv'
  <1>1. TypeOK /\ exec \in [Fences -> Executions]
    BY DEF ReplicaInv, TypeOK
  <1>2. /\ UNCHANGED <<database, sweep, active, sessions, wake, cut, accepting, handed, unswept>>
        /\ exec' = [exec EXCEPT ![x].lost = TRUE]
    BY DEF Renew, Doubt
  <1>3. /\ exec' \in [Fences -> Executions]
        /\ \A y \in Fences : exec'[y].st = exec[y].st /\ exec'[y].ask = exec[y].ask /\ exec'[y].lost \in {exec[y].lost, TRUE}
    BY <1>1, <1>2 DEF Executions
  <1>4. handed' \in BOOLEAN
    BY <1>1, <1>2 DEF TypeOK
  <1>5. QED
    BY <1>2, <1>3, <1>4, AsksStand DEF database

LEMMA EndStep ==
  ASSUME ReplicaInv, NEW x \in Fences, EndExecution(x)
  PROVE  ReplicaInv'
  <1>1. /\ TypeOK /\ exec \in [Fences -> Executions] /\ work \in [Works -> WorkRows]
        /\ x[1] \in Works /\ x = <<x[1], x[2]>>
    BY FenceParts DEF ReplicaInv, TypeOK, WorkRows
  <1>2. /\ UNCHANGED <<gate, sweep, active, sessions, wake, cut, accepting, handed, unswept>>
        /\ exec' = [exec EXCEPT ![x].st = "ending"] /\ exec[x].st = "live"
    BY DEF EndExecution, Live
  <1>3. exec' \in [Fences -> Executions]
        /\ \A y \in Fences : /\ exec'[y].ask = exec[y].ask /\ exec'[y].lost = exec[y].lost
                             /\ exec'[y].st = IF y = x THEN "ending" ELSE exec[y].st
    BY <1>1, <1>2 DEF Executions
  <1>4. \/ work' = work /\ LeavesWork(x)
        \/ \E settled \in BOOLEAN : work' = Freed(x[1], settled)
    BY DEF EndExecution
  <1>5. GivesUp(x[1]) /\ (exec[x].ask = "handoff" \/ exec[x].lost \/ ~(Holds(x)'))
    <2>1. ASSUME NEW settled \in BOOLEAN, work' = Freed(x[1], settled) PROVE GivesUp(x[1]) /\ work'[x[1]].owner = "none"
      <3>1. GivesUp(x[1])
        BY <1>1, <2>1, GivenUp
      <3>2. QED
        BY <1>1, <2>1, <3>1 DEF Freed
    <2>2. CASE work' = work /\ LeavesWork(x)
      BY <1>1, <2>2, GivenUp DEF Holds, LeavesWork
    <2>3. QED
      BY <1>4, <2>1, <2>2 DEF Holds
  <1>6. TypeOK'
    BY <1>1, <1>2, <1>3, <1>5 DEF TypeOK, WorkRows, GivesUp, sweep
  <1>7. BatchInHand' /\ SlotsAreFree' /\ ConcurrencyRespected' /\ RegisteredRuns'
    BY <1>2 DEF ReplicaInv, BatchInHand, SlotsAreFree, ConcurrencyRespected, RegisteredRuns, Registered, sweep
  <1>8. FencesIssued'
    BY <1>2, <1>3, <1>5, FenceParts DEF ReplicaInv, FencesIssued, GivesUp, sweep
  <1>9. ClosedHoldsNothing' /\ GrantsHaveEpochs'
    BY <1>2, <1>5 DEF ReplicaInv, ClosedHoldsNothing, GrantsHaveEpochs, GivesUp, sweep
  <1>10. EndedGaveUp'
    BY <1>3, <1>5, FenceParts DEF ReplicaInv, EndedGaveUp, Holds, GivesUp
  <1>11. NoIdleLease'
    <2> SUFFICES ASSUME NEW w \in Works, work'[w].owner = "self", NEW y, y = <<w, work'[w].epoch>>
                 PROVE  y \in active' \cup batch' \/ exec'[y].st = "adrift" \/ exec'[y].ask = "handoff" \/ exec'[y].lost
      BY DEF NoIdleLease
    <2>1. work[w].owner = "self" /\ y = <<w, work[w].epoch>>
      BY <1>5 DEF GivesUp
    <2>2. y \in active \cup batch \/ exec[y].st = "adrift" \/ exec[y].ask = "handoff" \/ exec[y].lost
      BY <2>1 DEF ReplicaInv, NoIdleLease
    <2>3. y \in Fences
      BY <2>1, HeldFence
    <2>4. QED
      BY <1>2, <1>3, <2>2, <2>3 DEF sweep
  <1>12. QED
    BY <1>6, <1>7, <1>8, <1>9, <1>10, <1>11 DEF ReplicaInv

LEMMA ReturnStep ==
  ASSUME ReplicaInv, NEW x \in Fences, Return(x)
  PROVE  ReplicaInv'
  <1>1. /\ TypeOK /\ exec \in [Fences -> Executions] /\ sessions \in [Works -> 0..MaxEpoch]
        /\ x[1] \in Works /\ x = <<x[1], x[2]>> /\ x[2] \in 1..MaxEpoch
    BY FenceParts DEF ReplicaInv, TypeOK
  <1>2. /\ UNCHANGED <<database, sweep, accepting, handed>> /\ exec[x].st = "ending"
        /\ exec' = [exec EXCEPT ![x].st = "over"] /\ sessions' = [sessions EXCEPT ![x[1]] = 0]
        /\ active' = active \ {x} /\ unswept' = TRUE
    BY DEF Return
  <1>3. exec' \in [Fences -> Executions]
        /\ \A y \in Fences : /\ exec'[y].ask = exec[y].ask /\ exec'[y].lost = exec[y].lost
                             /\ exec'[y].st = IF y = x THEN "over" ELSE exec[y].st
    BY <1>1, <1>2 DEF Executions
  <1>4. TypeOK'
    <2>1. sessions' \in [Works -> 0..MaxEpoch]
      BY <1>1, <1>2, ReplicaAssumption
    <2>2. {wake', cut', unswept'} \subseteq BOOLEAN
      BY <1>1 DEF Return, TypeOK, Retained
    <2>3. QED
      BY <1>1, <1>2, <1>3, <2>1, <2>2 DEF TypeOK, database, sweep
  <1>5. BatchInHand' /\ ClosedHoldsNothing' /\ GrantsHaveEpochs'
    BY <1>2 DEF ReplicaInv, BatchInHand, ClosedHoldsNothing, GrantsHaveEpochs, database, sweep
  <1>6. ConcurrencyRespected' /\ SlotsAreFree'
    <2>1. active' \in SUBSET active /\ active' \cup batch' \in SUBSET (active \cup batch)
      BY <1>2 DEF sweep
    <2>2. /\ Cardinality(active') <= Cardinality(active) /\ Cardinality(active') \in Nat
          /\ Cardinality(active' \cup batch') <= Cardinality(active \cup batch)
          /\ Cardinality(active' \cup batch') \in Nat /\ Cardinality(active \cup batch) \in Nat /\ Cardinality(active) \in Nat
      BY <1>1, <2>1, RunningFinite
    <2>3. slots \in Int /\ slots' = slots /\ loop' = loop
      BY <1>1, <1>2 DEF TypeOK, sweep
    <2>4. QED
      BY <2>2, <2>3, ReplicaAssumption DEF ReplicaInv, ConcurrencyRespected, SlotsAreFree
  <1>7. FencesIssued'
    BY <1>2, <1>3 DEF ReplicaInv, FencesIssued, database, sweep
  <1>8. RegisteredRuns'
    <2> SUFFICES ASSUME NEW y \in Fences, sessions'[y[1]] = y[2] PROVE y \in active'
      BY DEF RegisteredRuns, Registered
    <2>1. y[1] \in Works /\ y[2] \in 1..MaxEpoch
      BY FenceParts
    <2>2. y[1] # x[1] /\ sessions[y[1]] = y[2]
      BY <1>1, <1>2, <2>1
    <2>3. QED
      BY <1>2, <2>2 DEF ReplicaInv, RegisteredRuns, Registered
  <1>9. EndedGaveUp'
    BY <1>2, <1>3 DEF ReplicaInv, EndedGaveUp, Holds, database
  <1>10. NoIdleLease'
    <2> SUFFICES ASSUME NEW w \in Works, work'[w].owner = "self", NEW y, y = <<w, work'[w].epoch>>
                 PROVE  y \in active' \cup batch' \/ exec'[y].st = "adrift" \/ exec'[y].ask = "handoff" \/ exec'[y].lost
      BY DEF NoIdleLease
    <2>1. work[w].owner = "self" /\ y = <<w, work[w].epoch>>
      BY <1>2 DEF database
    <2>2. y \in active \cup batch \/ exec[y].st = "adrift" \/ exec[y].ask = "handoff" \/ exec[y].lost
      BY <2>1 DEF ReplicaInv, NoIdleLease
    <2>3. y \in Fences
      BY <2>1, HeldFence
    <2>4. y = x => exec[x].ask = "handoff" \/ exec[x].lost
      <3>1. y = x => Holds(x)
        BY <1>1, <2>1 DEF Holds
      <3>2. QED
        BY <1>2, <3>1 DEF ReplicaInv, EndedGaveUp
    <2>5. QED
      BY <1>2, <1>3, <2>2, <2>3, <2>4 DEF sweep
  <1>11. QED
    BY <1>4, <1>5, <1>6, <1>7, <1>8, <1>9, <1>10 DEF ReplicaInv

LEMMA HandoffStep ==
  ASSUME ReplicaInv, HandoffActive
  PROVE  ReplicaInv'
  <1>1. TypeOK
    BY DEF ReplicaInv
  <1>2. /\ UNCHANGED <<database, sweep, active, sessions, wake, cut, accepting, unswept>> /\ handed' = TRUE
        /\ exec' = AskAll("handoff")
    BY DEF HandoffActive
  <1>3. /\ exec' \in [Fences -> Executions]
        /\ \A x \in Fences : /\ exec'[x].st = exec[x].st /\ (exec[x].ask = "handoff" => exec'[x].ask = "handoff")
                             /\ exec'[x].lost = exec[x].lost
    BY <1>1, <1>2, AskedSessions
  <1>4. QED
    BY <1>1, <1>2, <1>3, AsksStand DEF database, sweep, process

\* What other replicas, time and the gate do to the leases of the database.
LEMMA WorldStep ==
  ASSUME ReplicaInv, TurnGate \/ \E w \in Works : Expire(w) \/ OtherReplica(w)
  PROVE  ReplicaInv'
  <1>1. TypeOK /\ work \in [Works -> WorkRows] /\ gate \in Gates
    BY DEF ReplicaInv, TypeOK, WorkRows
  <1>2. UNCHANGED <<sweep, process>>
    BY DEF TurnGate, Expire, OtherReplica
  <1>3. /\ gate' \in Gates /\ work' \in [Works -> WorkRows]
        /\ \A w \in Works : /\ work[w].epoch <= work'[w].epoch
                            /\ work'[w].owner = "self" => work[w].owner = "self" /\ work'[w].epoch = work[w].epoch
        /\ ~gate'.open => \A w \in Works : work'[w].owner = "none"
    <2>1. CASE TurnGate
      <3>1. gate' \in Gates /\ gate'.open = ~gate.open
        <4>0. gate.epoch \in 1..MaxGate /\ gate.epoch < MaxGate
          BY <1>1, <2>1 DEF TurnGate, Gates
        <4>1. gate.epoch + 1 \in 1..MaxGate
          BY <4>0, ReplicaAssumption
        <4>2. gate' = [open |-> ~gate.open, epoch |-> gate.epoch + 1]
          BY <2>1 DEF TurnGate
        <4>3. QED
          BY <4>1, <4>2 DEF Gates
      <3>2. CASE ~gate.open
        <4>1. work' = work /\ gate'.open
          BY <2>1, <3>1, <3>2 DEF TurnGate
        <4>2. QED
          BY <1>1, <3>1, <4>1, ReplicaAssumption DEF WorkRows
      <3>3. CASE gate.open
        <4>1. PICK W : work' = [w \in Works |-> [work[w] EXCEPT !.owner = "none", !.settled = @ \/ w \in W]]
          BY <2>1, <3>3 DEF TurnGate
        <4>2. work' \in [Works -> WorkRows] /\ \A w \in Works : work'[w].owner = "none" /\ work'[w].epoch = work[w].epoch
          BY <1>1, <4>1 DEF WorkRows
        <4>3. QED
          BY <1>1, <3>1, <4>2, ReplicaAssumption DEF WorkRows
      <3>4. QED
        BY <3>2, <3>3
    <2>2. ASSUME NEW w \in Works, Expire(w)
          PROVE  gate' = gate /\ work' = Freed(w, FALSE)
      BY <2>2 DEF Expire
    <2>3. ASSUME NEW w \in Works, OtherReplica(w)
          PROVE  /\ gate' = gate
                 /\ \/ gate.open /\ w \in Claimable /\ work' = ClaimedBy({w}, "other")
                    \/ work[w].owner = "other" /\ \E settled \in BOOLEAN : work' = Freed(w, settled)
      BY <2>3 DEF OtherReplica
    <2>4. ASSUME NEW w \in Works, NEW settled \in BOOLEAN, work' = Freed(w, settled)
          PROVE  GivesUp(w)
      BY <1>1, <2>4, GivenUp
    <2>5. ASSUME NEW w \in Works, w \in Claimable, work' = ClaimedBy({w}, "other"), gate.open
          PROVE  /\ work' \in [Works -> WorkRows]
                 /\ \A v \in Works : work[v].epoch <= work'[v].epoch /\ 
                    (work'[v].owner = "self" => work[v].owner = "self" /\ work'[v].epoch = work[v].epoch)
      <3>1. /\ work[w].owner = "none" /\ work[w].epoch \in 0..MaxEpoch /\ work[w].epoch + 1 \in 0..MaxEpoch
            /\ work[w] \in WorkRows
        BY <1>1, <2>5, ReplicaAssumption DEF WorkRows, Claimable
      <3>2. PICK k \in 0..MaxEpoch : k = work[w].epoch + 1
        BY <3>1
      <3>3. work' = [v \in Works |-> IF v = w THEN [work[w] EXCEPT !.epoch = k, !.owner = "other"] ELSE work[v]]
        BY <2>5, <3>2 DEF ClaimedBy
      <3>4. [work[w] EXCEPT !.epoch = k, !.owner = "other"] \in WorkRows
        BY <3>1 DEF WorkRows
      <3>5. work' \in [Works -> WorkRows]
        BY <1>1, <3>3, <3>4
      <3>6. work'[w].epoch = k /\ work'[w].owner = "other" /\ \A v \in Works \ {w} : work'[v] = work[v]
        BY <3>1, <3>3 DEF WorkRows
      <3>7. QED
        BY <1>1, <3>1, <3>2, <3>5, <3>6, ReplicaAssumption DEF WorkRows
    <2>6. (~gate.open) => \A w \in Works : work[w].owner = "none"
      BY DEF ReplicaInv, ClosedHoldsNothing
    <2>7. CASE \E w \in Works : Expire(w) \/ OtherReplica(w)
      <3>1. gate' = gate
        BY <2>2, <2>3, <2>7
      <3>2. CASE \E w \in Works : GivesUp(w)
        <4>1. PICK w \in Works : GivesUp(w)
          BY <3>2
        <4>2. /\ work' \in [Works -> WorkRows]
              /\ \A v \in Works : work'[v].epoch = work[v].epoch /\ work'[v].owner \in {work[v].owner, "none"}
          BY <4>1 DEF GivesUp
        <4>3. \A v \in Works : work[v].epoch \in Int
          BY <1>1 DEF WorkRows
        <4>4. QED
          BY <1>1, <2>6, <3>1, <4>2, <4>3
      <3>3. CASE \E w \in Works : w \in Claimable /\ work' = ClaimedBy({w}, "other") /\ gate.open
        BY <1>1, <2>5, <3>1, <3>3
      <3>4. QED
        BY <2>2, <2>3, <2>4, <2>7, <3>2, <3>3
    <2>8. QED
      BY <2>1, <2>7
  <1>4. TypeOK'
    BY <1>1, <1>2, <1>3 DEF TypeOK, WorkRows, sweep, process
  <1>5. BatchInHand' /\ SlotsAreFree' /\ ConcurrencyRespected' /\ RegisteredRuns'
    BY <1>2 DEF ReplicaInv, BatchInHand, SlotsAreFree, ConcurrencyRespected, RegisteredRuns, Registered, sweep, process
  <1>6. FencesIssued'
    <2> SUFFICES ASSUME NEW x \in Fences, exec[x].st # "none" \/ x \in active \cup batch
                 PROVE  x[2] <= work'[x[1]].epoch
      BY <1>2 DEF FencesIssued, sweep, process
    <2>1. x[1] \in Works /\ x[2] \in Int /\ work[x[1]].epoch \in Int /\ work'[x[1]].epoch \in Int
      BY <1>1, <1>3, FenceParts DEF WorkRows
    <2>2. x[2] <= work[x[1]].epoch /\ work[x[1]].epoch <= work'[x[1]].epoch
      BY <1>3, <2>1 DEF ReplicaInv, FencesIssued
    <2>3. QED
      BY <2>1, <2>2
  <1>7. ClosedHoldsNothing' /\ GrantsHaveEpochs'
    BY <1>2, <1>3 DEF ReplicaInv, ClosedHoldsNothing, GrantsHaveEpochs, sweep
  <1>8. EndedGaveUp' /\ NoIdleLease'
    BY <1>2, <1>3, FenceParts DEF ReplicaInv, EndedGaveUp, NoIdleLease, Holds, sweep, process
  <1>9. QED
    BY <1>4, <1>5, <1>6, <1>7, <1>8 DEF ReplicaInv
-----------------------------------------------------------------------------
(* The theorems. *)

LEMMA StartHolds == Init => ReplicaInv
  <1> SUFFICES ASSUME Init PROVE ReplicaInv
    OBVIOUS
  <1>1. Cardinality(active) = 0 /\ Cardinality(active \cup batch) = 0
    BY FS_EmptySet DEF Init
  <1>2. TypeOK
    <2>1. work \in [Works -> WorkRows] /\ sessions \in [Works -> 0..MaxEpoch] /\ exec \in [Fences -> Executions]
      BY ReplicaAssumption DEF Init, WorkRows, Executions
    <2>2. gate \in Gates /\ seen \in Gates /\ slots \in 0..Concurrency
      BY ReplicaAssumption DEF Init, Gates
    <2>3. /\ {wake, cut, interrupted, accepting, handed, unswept} \subseteq BOOLEAN
          /\ loop = "top" /\ batch \subseteq Fences /\ active \subseteq Fences
      BY DEF Init
    <2>4. QED
      BY <2>1, <2>2, <2>3 DEF TypeOK, WorkRows
  <1>3. \A w \in Works : work[w].owner = "none" /\ sessions[w] = 0
    BY DEF Init
  <1>4. \A x \in Fences : exec[x].st = "none" /\ x[1] \in Works /\ x[2] # 0
    BY FenceParts DEF Init
  <1>5. active = {} /\ batch = {} /\ loop = "top"
    BY DEF Init
  <1>6. BatchInHand /\ SlotsAreFree /\ ConcurrencyRespected
    BY <1>1, <1>5, ReplicaAssumption DEF BatchInHand, SlotsAreFree, ConcurrencyRespected
  <1>7. FencesIssued /\ ClosedHoldsNothing /\ GrantsHaveEpochs
    BY <1>3, <1>4, <1>5 DEF FencesIssued, ClosedHoldsNothing, GrantsHaveEpochs
  <1>8. RegisteredRuns /\ EndedGaveUp /\ NoIdleLease
    BY <1>3, <1>4 DEF RegisteredRuns, Registered, EndedGaveUp, NoIdleLease
  <1>9. QED
    BY <1>2, <1>6, <1>7, <1>8 DEF ReplicaInv

LEMMA StepHolds == ReplicaInv /\ [Next]_vars => ReplicaInv'
  <1> SUFFICES ASSUME ReplicaInv, [Next]_vars PROVE ReplicaInv'
    OBVIOUS
  <1>1. CASE UNCHANGED vars
    <2>1. TypeOK' /\ BatchInHand' /\ SlotsAreFree' /\ ClosedHoldsNothing'
      BY <1>1 DEF vars, ReplicaInv, TypeOK, BatchInHand, SlotsAreFree, ClosedHoldsNothing
    <2>2. QED
      BY <1>1, <2>1, LoopMoves DEF vars
  <1>2. CASE Next
    BY <1>2, LoopStep, DecideStep, ClaimStep, ExecuteStep, ReleaseStep, RenewStep, EndStep, ReturnStep, HandoffStep,
       WorldStep DEF Next, ClaimLoop
  <1>3. QED
    BY <1>1, <1>2

\* The inductive invariant holds in every behaviour of a replica.
THEOREM ReplicaHolds == Spec => []ReplicaInv
  BY StartHolds, StepHolds, PTL DEF Spec

\* Every variable has the shape of the field it stands for.
THEOREM ReplicaTyped == Spec => []TypeOK
  <1>1. ReplicaInv => TypeOK
    BY DEF ReplicaInv
  <1>2. QED
    BY <1>1, ReplicaHolds, PTL

\* A replica runs no more than its share, and none of its leases lies idle.
THEOREM SlotsFollow == Spec => []SlotsFollowLeases
  <1>1. ReplicaInv => SlotsFollowLeases
    BY DEF ReplicaInv, SlotsFollowLeases
  <1>2. QED
    BY <1>1, ReplicaHolds, PTL

\* Once the claims are stopped no execution enters the process.
THEOREM NothingEnters == Spec => NothingEntersAfterStop
  <1>1. ASSUME ~accepting, Next PROVE active' \subseteq active
    <2>1. ~ExecuteClaims
      BY <1>1 DEF ExecuteClaims, MayExecute
    <2>2. BeginSweep \/ ReadGate \/ Decide \/ ClaimWork \/ ReleaseClaim \/ Between \/ Woken => active' = active
      BY DEF BeginSweep, ReadGate, Decide, ClaimWork, ReleaseClaim, Between, Woken, process
    <2>3. SweepFails \/ SleptEnough \/ StopClaims \/ HandoffActive \/ TurnGate => active' = active
      BY DEF SweepFails, SleptEnough, StopClaims, HandoffActive, TurnGate, process
    <2>4. \A x \in Fences : Renew(x) \/ Doubt(x) \/ EndExecution(x) \/ Return(x) => active' \subseteq active
      BY DEF Renew, Doubt, EndExecution, Return
    <2>5. \A w \in Works : Expire(w) \/ OtherReplica(w) => active' = active
      BY DEF Expire, OtherReplica, process
    <2>6. QED
      BY <1>1, <2>1, <2>2, <2>3, <2>4, <2>5 DEF Next, ClaimLoop
  <1>2. [Next]_vars => [~accepting => active' \subseteq active]_vars
    BY <1>1
  <1>3. QED
    BY <1>2, PTL DEF Spec, NothingEntersAfterStop
-----------------------------------------------------------------------------
(* The engine: a behaviour of the instance that follows a replica is one of  *)
(* RuntimeReplica, one that follows a session is one of LeaseSession, and    *)
(* what was proved of either carries over.                                   *)

SP == INSTANCE LeaseSessionProofs WITH work <- execution

\* Both instances of LeaseSession take the same steps.
LEMMA SameSteps == S!Next => SP!Next
  BY DEF S!Terminals, SP!Terminals, S!Renewals, SP!Renewals, S!Mutations, SP!Mutations, S!Aborted, SP!Aborted,
         S!Failed, SP!Failed, S!Lost, SP!Lost, S!Stopped, SP!Stopped, S!Refusal, SP!Refusal, S!EndRefusal,
         SP!EndRefusal, S!Armed, SP!Armed, S!Renewed, SP!Renewed, S!Retried, SP!Retried, S!RunwayAfter,
         SP!RunwayAfter, S!Go, SP!Go, S!Call, SP!Call, S!End, SP!End, S!Settle, SP!Settle, S!Release,
         SP!Release, S!FinishDenial, SP!FinishDenial, S!Honored, SP!Honored, S!Thrown, SP!Thrown, S!Handling,
         SP!Handling, S!Effect, SP!Effect, S!Settled, SP!Settled, S!Proved, SP!Proved, S!Answered,
         SP!Answered, S!Heard, SP!Heard, S!Follow, SP!Follow, S!RefusalOf, SP!RefusalOf, S!Send, SP!Send,
         S!Refuse, SP!Refuse, S!Answers, SP!Answers, S!Effects, SP!Effects, S!Execute, SP!Execute, S!Fail,
         SP!Fail, S!AsksAgain, SP!AsksAgain, S!Receive, SP!Receive, S!Local, SP!Local, S!Handle, SP!Handle,
         S!EffectReturns, SP!EffectReturns, S!Cleanup, SP!Cleanup, S!Fired, SP!Fired, S!FireTimer,
         SP!FireTimer, S!Registered, SP!Registered, S!RequestHandoff, SP!RequestHandoff, S!RequestShutdown,
         SP!RequestShutdown, S!LeaseMoves, SP!LeaseMoves, S!Deny, SP!Deny, S!Next, SP!Next

\* Of the replica an engine shows a behaviour of RuntimeReplica, of the session one of LeaseSession.
LEMMA EngineFollows == EngineSpec => Spec /\ SP!Spec
  <1>1. EngineInit => Init /\ SP!Init
    BY DEF EngineInit, S!Init, SP!Init
  <1>2. [EngineNext]_engine_vars => [Next]_vars /\ [SP!Next]_(SP!vars)
    BY SameSteps DEF EngineNext, engine_vars, sessionVars, vars, SP!vars
  <1>3. QED
    BY <1>1, <1>2, PTL DEF EngineSpec, Spec, SP!Spec

\* In an engine that follows a session, what the session reports is what the database holds, it
\* gives up no fence that is still its own, and its heartbeat never dies silently.
THEOREM EngineTellsTheTruth == EngineSpec => []SessionTellsTheTruth
  <1>1. SP!Spec => []SP!SessionTellsTheTruth
    BY SP!SessionTruthful, SessionAssumption DEF S!SessionConstants, SP!SessionConstants
  <1>2. SP!SessionTellsTheTruth => SessionTellsTheTruth
    BY DEF SessionTellsTheTruth, S!SessionTellsTheTruth, S!OutcomeIsDurable, S!LostMeansMoved, S!HeartbeatNeverSilent,
           S!Terminals, SP!SessionTellsTheTruth, SP!OutcomeIsDurable, SP!LostMeansMoved, SP!HeartbeatNeverSilent, SP!Terminals
  <1>3. QED
    BY <1>1, <1>2, EngineFollows, PTL

\* After a stop nothing enters the process, after an abort no effect starts, and after a handoff
\* nothing is written.
THEOREM EngineObeysStops == EngineSpec => StopsAreObeyed
  <1>1. SP!Spec => SP!EffectsStartAuthorized /\ SP!HandoffSettlesNothing
    BY SP!EffectsAuthorized, SP!HandoffSettles, SessionAssumption DEF S!SessionConstants, SP!SessionConstants
  <1>2. SP!EffectsStartAuthorized => S!EffectsStartAuthorized
    BY DEF S!EffectsStartAuthorized, SP!EffectsStartAuthorized, S!Refusal, SP!Refusal, S!vars, SP!vars
  <1>3. SP!HandoffSettlesNothing => S!HandoffSettlesNothing
    BY DEF S!HandoffSettlesNothing, SP!HandoffSettlesNothing, S!Mutations, SP!Mutations, S!vars, SP!vars
  <1>4. QED
    BY <1>1, <1>2, <1>3, EngineFollows, NothingEnters, PTL DEF StopsAreObeyed
=============================================================================
