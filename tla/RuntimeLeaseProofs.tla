------------------------- MODULE RuntimeLeaseProofs -------------------------
(***************************************************************************)
(* Proofs about RuntimeLease for every set of executors and work rows and  *)
(* every lease length and bound: types, the fencing invariant and what     *)
(* follows from it for claims and work rows, the exclusion of the lanes,   *)
(* and that the protocol implements FencedLease.                           *)
(***************************************************************************)
EXTENDS RuntimeLease, TLAPS

USE DEF Lanes

\* Every grant was paid for with a write epoch.
GrantsBounded == \A c \in grants : c.epoch <= lastWrite

\* A held lease row is the record of a grant of its own lane.
HeldIsGranted ==
  \A l \in Lanes : lease[l].held =>
    [exec |-> lease[l].exec, lane |-> l, work |-> lease[l].work,
     epoch |-> lease[l].epoch, gate |-> lease[l].gate] \in grants

\* The inductive invariant of the fence.
FenceInv == /\ TypeOK
            /\ GateOwnsLeases
            /\ GrantsBounded
            /\ OneGrantPerEpoch
            /\ HeldIsGranted
-----------------------------------------------------------------------------
\* The larger of two epochs is an epoch and bounds both.
LEMMA LargerNat ==
  ASSUME NEW a \in Nat, NEW b \in Nat
  PROVE  Larger(a, b) \in Nat /\ Larger(a, b) >= a /\ Larger(a, b) >= b
  BY DEF Larger

\* A cleared lease row is a lease row that nobody holds.
LEMMA ClearedType ==
  ASSUME NEW n \in Nat PROVE Cleared(n) \in Leases /\ ~Cleared(n).held
  BY BoundAssumption DEF Cleared, Leases

\* What a lease row is, and that clearing it, with or without a new epoch,
\* leaves a lease row.
LEMMA LeaseRow ==
  ASSUME TypeOK, NEW l \in Lanes
  PROVE  /\ lease[l] \in Leases /\ lease[l].epoch \in Nat /\ lease[l].epoch + 1 \in Nat
         /\ Cleared(lease[l].epoch) \in Leases
         /\ Cleared(lease[l].epoch + 1) \in Leases
  <1>1. lease[l] \in Leases
    BY DEF TypeOK
  <1>2. lease[l].epoch \in Nat /\ lease[l].epoch + 1 \in Nat
    BY <1>1 DEF Leases
  <1>3. QED
    BY <1>1, <1>2, ClearedType

\* Closing rows changes nothing but their status, and only from open to done.
LEMMA ClosedRows ==
  ASSUME NEW rows \in [Works -> Rows], NEW closing
  PROVE  /\ Closed(rows, closing) \in [Works -> Rows]
         /\ \A v \in Works :
              /\ Closed(rows, closing)[v].stamp = rows[v].stamp
              /\ Closed(rows, closing)[v].seq = rows[v].seq
              /\ Closed(rows, closing)[v].risky = rows[v].risky
              /\ Closed(rows, closing)[v].st =
                   IF v \in closing /\ rows[v].st = "open" THEN "done" ELSE rows[v].st
  BY DEF Closed, Rows

\* The epoch allocated next is above every epoch of the Companion.
LEMMA NextEpochFresh ==
  ASSUME TypeOK
  PROVE  /\ NextEpoch \in Nat /\ NextEpoch > lastWrite
         /\ \A l \in Lanes : NextEpoch > lease[l].epoch
  BY DEF TypeOK, NextEpoch, Larger, Leases

\* The lease rows after a grant are lease rows.
LEMMA GrantedLeases ==
  ASSUME TypeOK, NEW e \in Executors, NEW w \in Works
  PROVE  LeasesAfterClaim(e, w) \in [Lanes -> Leases]
  <1>1. Granted(e, w) \in Leases
    BY NextEpochFresh, BoundAssumption DEF Granted, Leases, TypeOK
  <1>2. Cleared(NextEpoch) \in Leases
    BY NextEpochFresh, ClearedType
  <1>3. QED
    BY <1>1, <1>2 DEF LeasesAfterClaim, TypeOK

\* Releasing a lease leaves lease rows.
LEMMA EmptiedLeases ==
  ASSUME TypeOK, NEW c, EmptyLeaseOf(c)
  PROVE  /\ lease' \in [Lanes -> Leases]
         /\ \A l \in Lanes : lease'[l] = IF Matches(l, c) THEN Cleared(lease[l].epoch) ELSE lease[l]
  <1>1. \A l \in Lanes : Cleared(lease[l].epoch) \in Leases
    BY LeaseRow
  <1>2. QED
    BY <1>1 DEF EmptyLeaseOf, TypeOK
-----------------------------------------------------------------------------
\* The initial state is typed.
LEMMA InitType == Init => TypeOK
  <1>1. Cleared(0) \in Leases
    BY ClearedType
  <1>2. Init => gate \in [on: BOOLEAN, epoch: Nat] /\ lease \in [Lanes -> Leases]
    BY <1>1 DEF Init
  <1>3. Init => row \in [Works -> Rows]
    BY DEF Init, Rows
  <1>4. Init => lastWrite \in Nat /\ grants \in SUBSET Claims
    BY DEF Init
  <1>5. Init => retired \in BOOLEAN
    BY DEF Init
  <1>6. QED
    BY <1>2, <1>3, <1>4, <1>5 DEF TypeOK

\* A grant keeps the types.
LEMMA ClaimType ==
  ASSUME TypeOK, NEW e \in Executors, NEW w \in Works, NEW older, Claim(e, w, older)
  PROVE  TypeOK'
  <1>1. lease' \in [Lanes -> Leases]
    BY GrantedLeases DEF Claim
  <1>2. lastWrite' \in Nat /\ gate' = gate /\ retired' = retired
    BY NextEpochFresh DEF Claim
  <1>3. row' \in [Works -> Rows]
    <2> DEFINE R == Closed(row, Superseded(w, older))
    <2>1. R \in [Works -> Rows]
      BY ClosedRows DEF TypeOK
    <2>2. R[w].seq \in Nat /\ R[w].seq + 1 \in Nat
      BY <2>1 DEF Rows
    <2> HIDE DEF R
    <2>3. \A n \in Nat : [R EXCEPT ![w].stamp = NextEpoch, ![w].seq = n] \in [Works -> Rows]
      BY <2>1, NextEpochFresh DEF Rows
    <2>4. row' = [R EXCEPT ![w].stamp = NextEpoch,
                           ![w].seq = IF KindOf[w] = "standing" THEN @ + 1 ELSE @]
      BY DEF Claim, R
    <2>5. QED
      BY <2>2, <2>3, <2>4
  <1>4. grants' \in SUBSET Claims
    BY NextEpochFresh, WorkAssumption DEF Claim, Claims, TypeOK
  <1>5. QED
    BY <1>1, <1>2, <1>3, <1>4 DEF TypeOK

\* The other outcomes of a claim call keep the types.
LEMMA RefusedClaimType ==
  ASSUME TypeOK, NEW w \in Works,
         FenceUnproven(w) \/ RefuseRevoked(w) \/ ReconcileStart(w)
  PROVE  TypeOK'
  <1>1. row' \in [Works -> Rows] /\ gate' = gate /\ retired' = retired /\ grants' = grants
    BY ClosedRows DEF FenceUnproven, RefuseRevoked, ReconcileStart, TypeOK
  <1>2. \A l \in Lanes : /\ lease[l].epoch + 1 \in Nat
                         /\ Cleared(lease[l].epoch + 1) \in Leases
    BY LeaseRow
  <1>3. LaneOf[w] \in Lanes
    BY WorkAssumption
  <1>4. CASE FenceUnproven(w)
    <2>1. lease' = [lease EXCEPT ![LaneOf[w]] = Cleared(lease[LaneOf[w]].epoch + 1)]
      BY <1>4 DEF FenceUnproven
    <2>2. lastWrite' = Larger(lastWrite, lease[LaneOf[w]].epoch + 1)
      BY <1>4 DEF FenceUnproven
    <2>3. lease' \in [Lanes -> Leases] /\ lastWrite' \in Nat
      BY <1>2, <1>3, <2>1, <2>2, LargerNat DEF TypeOK
    <2>4. QED
      BY <1>1, <2>3 DEF TypeOK
  <1>5. CASE RefuseRevoked(w)
    BY <1>1, <1>5 DEF RefuseRevoked, TypeOK
  <1>6. CASE ReconcileStart(w)
    BY <1>1, <1>2, <1>6 DEF ReconcileStart, TypeOK, Larger
  <1>7. QED
    BY <1>4, <1>5, <1>6

\* Every call of an executor keeps the types.
LEMMA ExecutorType ==
  ASSUME TypeOK, NEW c \in grants, ExecutorCall(c)
  PROVE  TypeOK'
  <1>0. c.work \in Works /\ c.epoch \in Nat
    BY DEF TypeOK, Claims
  <1>1. CASE Renew(c)
    BY <1>1, BoundAssumption DEF Renew, TypeOK, Leases
  <1>2. ASSUME NEW expected \in 0..MaxSeq, NEW doubt \in BOOLEAN, Checkpoint(c, expected, doubt)
        PROVE  TypeOK'
    <2>1. row' \in [Works -> Rows]
      BY <1>0, <1>2, BoundAssumption DEF Checkpoint, TypeOK, Rows
    <2>2. lastWrite' \in Nat
      BY <1>0, <1>2 DEF Checkpoint, TypeOK, Larger
    <2>3. QED
      BY <1>2, <2>1, <2>2 DEF Checkpoint, TypeOK
  <1>3. ASSUME NEW outcome \in {"good", "bad", "again"}, Settle(c, outcome)
        PROVE  TypeOK'
    <2>1. row' \in [Works -> Rows]
      <3>1. Closed(row, Ended(c.work, outcome)) \in [Works -> Rows]
        BY ClosedRows DEF TypeOK
      <3>2. QED
        BY <1>0, <1>3, <3>1 DEF Settle, Rows
    <2>2. lastWrite' \in Nat /\ retired' \in BOOLEAN
      BY <1>0, <1>3 DEF Settle, TypeOK, Larger
    <2>3. lease' \in [Lanes -> Leases]
      BY <1>3, EmptiedLeases DEF Settle
    <2>4. QED
      BY <1>3, <2>1, <2>2, <2>3 DEF Settle, TypeOK
  <1>4. CASE DeferDelete(c)
    <2>1. lease' \in [Lanes -> Leases]
      BY <1>4, EmptiedLeases DEF DeferDelete
    <2>2. row' \in [Works -> Rows]
      BY <1>0, <1>4 DEF DeferDelete, TypeOK, Rows
    <2>3. QED
      BY <1>4, <2>1, <2>2 DEF DeferDelete, TypeOK
  <1>5. CASE Release(c)
    BY <1>5, EmptiedLeases DEF Release, TypeOK
  <1>6. QED
    BY <1>1, <1>2, <1>3, <1>4, <1>5 DEF ExecutorCall

\* Everything else keeps the types.
LEMMA EnvironmentType ==
  ASSUME TypeOK,
         \/ \E w \in Works : Accept(w) \/ CancelTurn(w)
         \/ Enable \/ Disable \/ Tick
  PROVE  TypeOK'
  <1>1. ASSUME NEW w \in Works, Accept(w) PROVE TypeOK'
    BY <1>1 DEF Accept, TypeOK, Rows
  <1>2. ASSUME NEW w \in Works, CancelTurn(w) PROVE TypeOK'
    BY <1>2, ClosedRows DEF CancelTurn, TypeOK
  <1>3. CASE Enable
    BY <1>3 DEF Enable, TypeOK
  <1>4. CASE Disable
    <2>1. \A l \in Lanes : Cleared(lease[l].epoch + 1) \in Leases
      BY LeaseRow
    <2>2. lease' \in [Lanes -> Leases]
      BY <1>4, <2>1 DEF Disable, LeasesAfterDisable, TypeOK
    <2>3. row' \in [Works -> Rows]
      BY <1>4, ClosedRows DEF Disable, TypeOK
    <2>4. QED
      BY <1>4, <2>2, <2>3 DEF Disable, TypeOK
  <1>5. CASE Tick
    <2>1. \A l \in Lanes : [lease[l] EXCEPT !.ttl = IF @ > 0 THEN @ - 1 ELSE 0] \in Leases
      <3>1. SUFFICES ASSUME NEW l \in Lanes
                     PROVE  [lease[l] EXCEPT !.ttl = IF @ > 0 THEN @ - 1 ELSE 0] \in Leases
        OBVIOUS
      <3>2. lease[l].ttl \in 0..LeaseTicks
        BY DEF TypeOK, Leases
      <3>3. (IF lease[l].ttl > 0 THEN lease[l].ttl - 1 ELSE 0) \in 0..LeaseTicks
        BY <3>2, BoundAssumption
      <3>4. QED
        BY <3>3 DEF TypeOK, Leases
    <2>2. lease' \in [Lanes -> Leases]
      BY <1>5, <2>1 DEF Tick
    <2>3. QED
      BY <1>5, <2>2 DEF Tick, TypeOK
  <1>6. QED
    BY <1>1, <1>2, <1>3, <1>4, <1>5

\* No step leaves the types.
LEMMA StepType == TypeOK /\ [Next]_vars => TypeOK'
  <1>1. CASE UNCHANGED vars
    BY <1>1 DEF vars, TypeOK
  <1>2. CASE Next
    BY <1>2, ClaimType, RefusedClaimType, ExecutorType, EnvironmentType DEF Next
  <1>3. QED
    BY <1>1, <1>2

\* Every variable of the lease protocol keeps its type: in particular claim
\* epochs stay natural numbers and a lease never runs below zero.
THEOREM TypeCorrect == Spec => []TypeOK
  BY InitType, StepType, PTL DEF Spec
-----------------------------------------------------------------------------
\* The claim a held lease row records.
Holder(l) == [exec |-> lease[l].exec, lane |-> l, work |-> lease[l].work,
              epoch |-> lease[l].epoch, gate |-> lease[l].gate]

\* A step that hands out no claim, shortens no write epoch and leaves every
\* lease row as it is but for its clock, or free, keeps the fence invariant.
LEMMA FenceKept ==
  ASSUME FenceInv, TypeOK', gate' = gate, grants' = grants, lastWrite' >= lastWrite,
         \A l \in Lanes : lease'[l].held => lease[l].held /\ Holder(l)' = Holder(l)
  PROVE  FenceInv'
  <1>1. GateOwnsLeases'
    BY DEF FenceInv, GateOwnsLeases, Holder
  <1>2. GrantsBounded'
    <2>1. \A c \in grants : c.epoch \in Nat
      BY DEF FenceInv, TypeOK, Claims
    <2>2. lastWrite \in Nat /\ lastWrite' \in Nat
      BY DEF FenceInv, TypeOK
    <2>3. QED
      BY <2>1, <2>2 DEF FenceInv, GrantsBounded
  <1>3. OneGrantPerEpoch' /\ HeldIsGranted'
    BY DEF FenceInv, OneGrantPerEpoch, HeldIsGranted, Holder
  <1>4. QED
    BY <1>1, <1>2, <1>3 DEF FenceInv

\* A grant keeps the fence invariant: its epoch is above all earlier ones.
LEMMA FenceClaim ==
  ASSUME FenceInv, NEW e \in Executors, NEW w \in Works, NEW older, Claim(e, w, older)
  PROVE  FenceInv'
  <1> DEFINE g == [exec |-> e, lane |-> LaneOf[w], work |-> w,
                   epoch |-> NextEpoch, gate |-> gate.epoch]
  <1>1. TypeOK /\ TypeOK'
    BY ClaimType DEF FenceInv
  <1>2. /\ gate' = gate /\ gate.on /\ lastWrite' = NextEpoch
        /\ grants' = grants \cup {g} /\ lease' = LeasesAfterClaim(e, w)
    BY DEF Claim
  <1>3. NextEpoch \in Nat /\ NextEpoch > lastWrite /\ lastWrite \in Nat
    BY <1>1, NextEpochFresh DEF TypeOK
  <1>4. \A c \in grants : c.epoch \in Nat /\ c.epoch < NextEpoch
    <2>1. \A c \in grants : c.epoch \in Nat /\ c.epoch <= lastWrite
      BY <1>1 DEF FenceInv, GrantsBounded, TypeOK, Claims
    <2>2. QED
      BY <1>3, <2>1
  <1>5. \A l \in Lanes : lease'[l].held =>
          \/ l = LaneOf[w] /\ Holder(l)' = g
          \/ lease[l].held /\ lease'[l] = lease[l]
    BY <1>2, <1>3, ClearedType DEF LeasesAfterClaim, Granted, Holder
  <1>6. GrantsBounded'
    BY <1>2, <1>3, <1>4 DEF GrantsBounded
  <1>7. OneGrantPerEpoch'
    BY <1>2, <1>3, <1>4 DEF FenceInv, OneGrantPerEpoch
  <1>8. HeldIsGranted'
    BY <1>2, <1>5 DEF FenceInv, HeldIsGranted, Holder
  <1>9. GateOwnsLeases'
    BY <1>2, <1>5 DEF FenceInv, GateOwnsLeases, Holder
  <1>10. QED
    BY <1>1, <1>6, <1>7, <1>8, <1>9 DEF FenceInv

\* The other outcomes of a claim call keep the fence invariant.
LEMMA FenceRefused ==
  ASSUME FenceInv, NEW w \in Works,
         FenceUnproven(w) \/ RefuseRevoked(w) \/ ReconcileStart(w)
  PROVE  FenceInv'
  <1>1. TypeOK /\ TypeOK' /\ gate' = gate /\ grants' = grants /\ LaneOf[w] \in Lanes
    BY RefusedClaimType, WorkAssumption
       DEF FenceInv, FenceUnproven, RefuseRevoked, ReconcileStart
  <1>2. \A l \in Lanes : ~Cleared(lease[l].epoch + 1).held
    BY DEF Cleared
  <1>3. \A l \in Lanes : lease'[l].held => lease'[l] = lease[l]
    BY <1>1, <1>2 DEF FenceUnproven, RefuseRevoked, ReconcileStart, TypeOK
  <1>4. lastWrite' >= lastWrite
    <2>1. lastWrite \in Nat /\ \A l \in Lanes : lease[l].epoch + 1 \in Nat
      BY <1>1, LeaseRow DEF TypeOK
    <2>2. lastWrite >= lastWrite
      BY <2>1
    <2>3. CASE FenceUnproven(w)
      BY <1>1, <2>1, <2>3, LargerNat DEF FenceUnproven
    <2>4. CASE RefuseRevoked(w)
      BY <2>2, <2>4 DEF RefuseRevoked
    <2>5. CASE ReconcileStart(w)
      BY <2>1, <2>2, <2>5, LargerNat DEF ReconcileStart
    <2>6. QED
      BY <2>3, <2>4, <2>5
  <1>5. QED
    BY <1>1, <1>3, <1>4, FenceKept DEF Holder

\* Every call of an executor keeps the fence invariant.
LEMMA FenceExecutor ==
  ASSUME FenceInv, NEW c \in grants, ExecutorCall(c)
  PROVE  FenceInv'
  <1>1. TypeOK /\ TypeOK'
    BY ExecutorType DEF FenceInv
  <1>2. c.epoch \in Nat /\ lastWrite \in Nat
    BY <1>1 DEF TypeOK, Claims
  <1>3. Larger(lastWrite, c.epoch) >= lastWrite /\ lastWrite >= lastWrite
    BY <1>2 DEF Larger
  <1>4. gate' = gate /\ grants' = grants /\ lastWrite' >= lastWrite
    BY <1>3 DEF ExecutorCall, Renew, Checkpoint, Settle, DeferDelete, Release
  <1>5. ASSUME EmptyLeaseOf(c), NEW l \in Lanes, lease'[l].held
        PROVE  lease'[l] = lease[l]
    <2>1. ~Cleared(lease[l].epoch).held
      BY DEF Cleared
    <2>2. QED
      BY <1>1, <1>5, <2>1, EmptiedLeases
  <1>6. \A l \in Lanes : lease'[l].held => lease[l].held /\ Holder(l)' = Holder(l)
    <2>1. CASE Renew(c)
      BY <1>1, <2>1 DEF Renew, Holder, TypeOK, Leases
    <2>2. CASE EmptyLeaseOf(c)
      BY <1>5, <2>2 DEF Holder
    <2>3. CASE UNCHANGED lease
      BY <2>3 DEF Holder
    <2>4. QED
      BY <2>1, <2>2, <2>3 DEF ExecutorCall, Checkpoint, Settle, DeferDelete, Release
  <1>7. QED
    BY <1>1, <1>4, <1>6, FenceKept

\* Everything else keeps the fence invariant.
LEMMA FenceEnvironment ==
  ASSUME FenceInv,
         \/ \E w \in Works : Accept(w) \/ CancelTurn(w)
         \/ Enable \/ Disable \/ Tick
  PROVE  FenceInv'
  <1>1. TypeOK /\ TypeOK' /\ grants' = grants /\ lastWrite' = lastWrite
    BY EnvironmentType DEF FenceInv, Accept, CancelTurn, Enable, Disable, Tick
  <1>2. lastWrite' >= lastWrite
    BY <1>1 DEF TypeOK
  <1>3. CASE \E w \in Works : Accept(w) \/ CancelTurn(w)
    <2>1. gate' = gate /\ lease' = lease
      BY <1>3 DEF Accept, CancelTurn
    <2>2. QED
      BY <1>1, <1>2, <2>1, FenceKept DEF Holder
  <1>4. CASE Tick
    BY <1>1, <1>2, <1>4, FenceKept DEF Tick, Holder, TypeOK, Leases
  <1>5. ASSUME Enable \/ Disable, \A l \in Lanes : ~lease'[l].held PROVE FenceInv'
    BY <1>1, <1>5
       DEF FenceInv, GateOwnsLeases, GrantsBounded, OneGrantPerEpoch, HeldIsGranted
  <1>6. CASE Enable
    BY <1>5, <1>6 DEF Enable, FenceInv, GateOwnsLeases
  <1>7. CASE Disable
    <2>1. \A l \in Lanes : ~Cleared(lease[l].epoch + 1).held
      BY DEF Cleared
    <2>2. \A l \in Lanes : ~lease'[l].held
      BY <1>7, <2>1 DEF Disable, LeasesAfterDisable
    <2>3. QED
      BY <1>5, <1>7, <2>2
  <1>8. QED
    BY <1>3, <1>4, <1>6, <1>7

\* The fence invariant holds initially and no step breaks it.
LEMMA FenceInductive ==
  /\ Init => FenceInv
  /\ FenceInv /\ [Next]_vars => FenceInv'
  <1>1. Init => FenceInv
    BY InitType DEF Init, FenceInv, Cleared, GateOwnsLeases, GrantsBounded,
                    OneGrantPerEpoch, HeldIsGranted
  <1>2. ASSUME FenceInv, UNCHANGED vars PROVE FenceInv'
    BY <1>2 DEF vars, FenceInv, TypeOK, GateOwnsLeases, GrantsBounded,
                OneGrantPerEpoch, HeldIsGranted
  <1>3. ASSUME FenceInv, Next PROVE FenceInv'
    BY <1>3, FenceClaim, FenceRefused, FenceExecutor, FenceEnvironment DEF Next
  <1>4. QED
    BY <1>1, <1>2, <1>3

\* An epoch identifies one grant, over both lanes and every replica.
THEOREM EpochsIdentifyGrants == Spec => []OneGrantPerEpoch
  <1>1. FenceInv => OneGrantPerEpoch
    BY DEF FenceInv
  <1>2. QED
    BY <1>1, FenceInductive, PTL DEF Spec

\* No lease outlives the gate generation it was granted in.
THEOREM GateFencesLeases == Spec => []GateOwnsLeases
  <1>1. FenceInv => GateOwnsLeases
    BY DEF FenceInv
  <1>2. QED
    BY <1>1, FenceInductive, PTL DEF Spec
-----------------------------------------------------------------------------
\* A lease that is held and unexpired after a step was so before it, by the
\* same claim under the same gate, or was granted by the step itself.
LEMMA HeldStep ==
  ASSUME FenceInv, [Next]_vars, NEW l \in Lanes, lease'[l].held, lease'[l].ttl > 0
  PROVE  \/ lease[l].held /\ lease[l].ttl > 0 /\ Holder(l)' = Holder(l) /\ gate' = gate
         \/ lease'[l].epoch = NextEpoch
  <1>0. TypeOK /\ GateOwnsLeases
    BY DEF FenceInv
  <1>1. CASE UNCHANGED vars
    BY <1>1 DEF vars, Holder
  <1>2. ASSUME NEW e \in Executors, NEW w \in Works, NEW older, Claim(e, w, older)
        PROVE  lease'[l].epoch = NextEpoch \/ (lease'[l] = lease[l] /\ gate' = gate)
    BY <1>2 DEF Claim, LeasesAfterClaim, Granted, Cleared
  <1>3. ASSUME NEW w \in Works, FenceUnproven(w) \/ RefuseRevoked(w) \/ ReconcileStart(w)
        PROVE  lease'[l] = lease[l] /\ gate' = gate
    <2>1. LaneOf[w] \in Lanes /\ \A m \in Lanes : ~Cleared(lease[m].epoch + 1).held
      BY WorkAssumption DEF Cleared
    <2>2. QED
      BY <1>0, <1>3, <2>1 DEF FenceUnproven, RefuseRevoked, ReconcileStart, TypeOK
  <1>4. ASSUME NEW c \in grants, Renew(c)
        PROVE  lease[l].held /\ lease[l].ttl > 0 /\ Holder(l)' = Holder(l) /\ gate' = gate
    BY <1>0, <1>4 DEF Renew, Matches, Holder, TypeOK, Leases
  <1>5. ASSUME NEW c \in grants, EmptyLeaseOf(c)
        PROVE  lease'[l] = lease[l]
    <2>1. ~Cleared(lease[l].epoch).held
      BY DEF Cleared
    <2>2. QED
      BY <1>0, <1>5, <2>1, EmptiedLeases
  <1>6. ASSUME NEW c \in grants, ExecutorCall(c), ~Renew(c)
        PROVE  lease'[l] = lease[l] /\ gate' = gate
    BY <1>5, <1>6 DEF ExecutorCall, Checkpoint, Settle, DeferDelete, Release
  <1>7. ASSUME NEW w \in Works, Accept(w) \/ CancelTurn(w)
        PROVE  lease'[l] = lease[l] /\ gate' = gate
    BY <1>7 DEF Accept, CancelTurn
  <1>8. ~Enable
    BY <1>0 DEF Enable, GateOwnsLeases
  <1>9. ~Disable
    BY DEF Disable, LeasesAfterDisable, Cleared
  <1>10. CASE Tick
    BY <1>0, <1>10 DEF Tick, Holder, TypeOK, Leases
  <1>11. QED
    BY <1>1, <1>2, <1>3, <1>4, <1>6, <1>7, <1>8, <1>9, <1>10 DEF Next, Holder

\* A claim that has stopped to be valid stays invalid.
LEMMA NoRevivalStep ==
  ASSUME FenceInv, [Next]_vars, NEW c \in grants, Valid(c)'
  PROVE  Valid(c)
  <1>1. PICK l \in Lanes : Matches(l, c)'
    BY DEF Valid
  <1>2. lease'[l].held /\ lease'[l].ttl > 0 /\ lease'[l].epoch = c.epoch
    BY <1>1 DEF Matches
  <1>3. c.epoch # NextEpoch
    <2>1. c.epoch \in Nat /\ c.epoch <= lastWrite /\ lastWrite \in Nat
      BY DEF FenceInv, GrantsBounded, TypeOK, Claims
    <2>2. NextEpoch \in Nat /\ NextEpoch > lastWrite
      BY NextEpochFresh DEF FenceInv
    <2>3. QED
      BY <2>1, <2>2
  <1>4. lease[l].held /\ lease[l].ttl > 0 /\ Holder(l)' = Holder(l) /\ gate' = gate
    BY <1>2, <1>3, HeldStep
  <1>5. Matches(l, c)
    BY <1>1, <1>4 DEF Matches, Holder
  <1>6. QED
    BY <1>5 DEF Valid

\* No late renewal, takeover, preemption or gate change ever revives a claim.
THEOREM ClaimsNeverRevive == Spec => NoRevival
  <1>1. FenceInv /\ [Next]_vars => (\A c \in grants : ~Valid(c) => ~Valid(c)')
    BY NoRevivalStep
  <1>2. QED
    BY <1>1, FenceInductive, PTL DEF Spec, NoRevival
-----------------------------------------------------------------------------
\* Only turns, decisions and starts record an unproven effect, and a row that
\* was not filed yet carries no claim.
RowInv == \A w \in Works :
  /\ row[w].risky => KindOf[w] \in {"turn", "decision", "start"}
  /\ row[w].st = "future" => row[w].stamp = 0

\* What a step may do to a row.
RowStep(w) ==
  /\ row[w].st = "done" => row'[w] = row[w]
  /\ row[w].st = "open" => row'[w].st # "future"
  /\ row'[w].risky => row[w].risky \/ KindOf[w] \in {"turn", "decision", "start"}
  /\ Live(w) /\ row'[w].stamp # row[w].stamp =>
       \/ row'[w].stamp = 0 /\ KindOf[w] \in {"standing", "delete"}
       \/ ~row[w].risky
  /\ row'[w].stamp # row[w].stamp => Live(w)

\* Every step treats every row that way.
LEMMA RowSteps == ASSUME TypeOK, [Next]_vars, NEW w \in Works PROVE RowStep(w)
  <1>0. row[w].st \in {"future", "open", "done"} /\ row \in [Works -> Rows]
    BY DEF TypeOK, Rows
  <1>1. CASE UNCHANGED row
    BY <1>0, <1>1 DEF RowStep, Live
  <1>2. ASSUME NEW closing, row' = Closed(row, closing) PROVE RowStep(w)
    BY <1>0, <1>2, ClosedRows DEF RowStep, Closed, Live
  <1>3. ASSUME NEW e \in Executors, NEW v \in Works, NEW older, Claim(e, v, older)
        PROVE  RowStep(w)
    <2> DEFINE R == Closed(row, Superseded(v, older))
    <2>1. /\ Live(v) /\ ~row[v].risky
          /\ row' = [R EXCEPT ![v].stamp = NextEpoch,
                              ![v].seq = IF KindOf[v] = "standing" THEN @ + 1 ELSE @]
      BY <1>3 DEF Claim, Selected, Eligible, Proven
    <2>2. /\ R \in [Works -> Rows]
          /\ R[w].stamp = row[w].stamp /\ R[w].risky = row[w].risky
          /\ R[w].st # "future" \/ R[w].st = row[w].st
          /\ row[w].st = "done" => R[w] = row[w]
      BY <1>0, ClosedRows DEF Closed
    <2> HIDE DEF R
    <2>3. CASE w = v
      <3>1. row'[w].st = R[w].st /\ row'[w].risky = R[w].risky
        BY <2>1, <2>2, <2>3 DEF Rows
      <3>2. QED
        BY <2>1, <2>2, <2>3, <3>1 DEF RowStep, Live
    <2>4. CASE w # v
      <3>1. row'[w] = R[w]
        BY <2>1, <2>2, <2>4
      <3>2. QED
        BY <2>2, <3>1 DEF RowStep, Live
    <2>5. QED
      BY <2>3, <2>4
  <1>4. ASSUME NEW c \in grants, NEW expected \in 0..MaxSeq, NEW doubt \in BOOLEAN,
               Checkpoint(c, expected, doubt)
        PROVE  RowStep(w)
    <2>1. /\ row[c.work].st = "open" /\ doubt \in Doubts(c.work)
          /\ row' = [row EXCEPT ![c.work].seq = expected + 1, ![c.work].risky = doubt]
      BY <1>4 DEF Checkpoint, Authorized
    <2>2. c.work = w => row'[w].risky = doubt /\ row'[w].st = "open"
                        /\ row'[w].stamp = row[w].stamp
      BY <1>0, <2>1 DEF Rows
    <2>3. c.work # w => row'[w] = row[w]
      BY <1>0, <2>1
    <2>4. c.work = w /\ doubt => KindOf[w] \in {"turn", "decision", "start"}
      BY <2>1 DEF Doubts
    <2>5. QED
      BY <1>0, <2>1, <2>2, <2>3, <2>4 DEF RowStep, Live
  <1>5. ASSUME NEW c \in grants, NEW outcome \in {"good", "bad", "again"}, Settle(c, outcome)
        PROVE  RowStep(w)
    <2> DEFINE R == Closed(row, Ended(c.work, outcome))
    <2>1. /\ row[c.work].st = "open"
          /\ row' = [R EXCEPT
               ![c.work].st = IF outcome = "again" THEN "open" ELSE "done",
               ![c.work].stamp = IF KindOf[c.work] = "standing" THEN 0 ELSE @,
               ![c.work].seq = @ + 1]
      BY <1>5 DEF Settle, Authorized
    <2>2. /\ R \in [Works -> Rows]
          /\ R[w].stamp = row[w].stamp /\ R[w].risky = row[w].risky
          /\ R[w].st # "future" \/ R[w].st = row[w].st
          /\ row[w].st = "done" => R[w] = row[w]
      BY <1>0, ClosedRows DEF Closed
    <2> HIDE DEF R
    <2>3. CASE w = c.work
      <3>1. /\ row'[w].st \in {"open", "done"} /\ row'[w].risky = R[w].risky
            /\ row'[w].stamp = IF KindOf[w] = "standing" THEN 0 ELSE R[w].stamp
        BY <2>1, <2>2, <2>3 DEF Rows
      <3>2. QED
        BY <2>1, <2>2, <2>3, <3>1 DEF RowStep, Live
    <2>4. CASE w # c.work
      <3>1. row'[w] = R[w]
        BY <2>1, <2>2, <2>4
      <3>2. QED
        BY <2>2, <3>1 DEF RowStep, Live
    <2>5. QED
      BY <2>3, <2>4
  <1>6. ASSUME NEW c \in grants, DeferDelete(c) PROVE RowStep(w)
    <2>1. /\ row[c.work].st = "open" /\ KindOf[c.work] = "delete"
          /\ row' = [row EXCEPT ![c.work].stamp = 0]
      BY <1>6 DEF DeferDelete, Authorized
    <2>2. c.work = w => row'[w].risky = row[w].risky /\ row'[w].st = "open"
                        /\ row'[w].stamp = 0
      BY <1>0, <2>1 DEF Rows
    <2>3. c.work # w => row'[w] = row[w]
      BY <1>0, <2>1
    <2>4. QED
      BY <1>0, <2>1, <2>2, <2>3 DEF RowStep, Live
  <1>7. ASSUME NEW v \in Works, Accept(v) PROVE RowStep(w)
    <2>1. row[v].st = "future" /\ row' = [row EXCEPT ![v].st = "open"]
      BY <1>7 DEF Accept
    <2>2. v = w => row'[w].st = "open" /\ row'[w].stamp = row[w].stamp
                   /\ row'[w].risky = row[w].risky
      BY <1>0, <2>1 DEF Rows
    <2>3. v # w => row'[w] = row[w]
      BY <1>0, <2>1
    <2>4. QED
      BY <1>0, <2>1, <2>2, <2>3 DEF RowStep, Live
  <1>8. ASSUME NEW c \in grants, ExecutorCall(c) PROVE RowStep(w)
    BY <1>1, <1>4, <1>5, <1>6, <1>8 DEF ExecutorCall, Renew, Release
  <1>9. ASSUME NEW v \in Works,
               CancelTurn(v) \/ FenceUnproven(v) \/ RefuseRevoked(v) \/ ReconcileStart(v)
        PROVE  RowStep(w)
    BY <1>2, <1>9 DEF CancelTurn, FenceUnproven, RefuseRevoked, ReconcileStart
  <1>10. CASE Enable \/ Disable \/ Tick
    BY <1>1, <1>2, <1>10 DEF Enable, Disable, Tick
  <1>11. QED
    BY <1>1, <1>3, <1>7, <1>8, <1>9, <1>10 DEF Next, vars

\* The row invariant holds initially and no step breaks it.
LEMMA RowInductive ==
  /\ Init => RowInv
  /\ TypeOK /\ RowInv /\ [Next]_vars => RowInv'
  <1>1. Init => RowInv
    BY DEF Init, RowInv
  <1>2. ASSUME TypeOK, RowInv, [Next]_vars PROVE RowInv'
    <2>1. SUFFICES ASSUME NEW w \in Works
                   PROVE  /\ row'[w].risky => KindOf[w] \in {"turn", "decision", "start"}
                          /\ row'[w].st = "future" => row'[w].stamp = 0
      BY DEF RowInv
    <2>2. RowStep(w) /\ row[w].st \in {"future", "open", "done"}
      BY <1>2, RowSteps DEF TypeOK, Rows
    <2>3. QED
      BY <1>2, <2>2 DEF RowStep, RowInv, Live
  <1>3. QED
    BY <1>1, <1>2

\* No late checkpoint or settlement moves a terminal row.
THEOREM DoneRowsStay == Spec => DoneStaysDone
  <1>1. TypeOK /\ [Next]_vars => (\A w \in Works : row[w].st = "done" => row'[w] = row[w])
    BY RowSteps DEF RowStep
  <1>2. QED
    BY <1>1, TypeCorrect, PTL DEF Spec, DoneStaysDone

\* Work with an unproven effect is never granted again.
THEOREM UnprovenStaysUngranted == Spec => UnprovenNeverGranted
  <1>1. TypeOK /\ RowInv /\ [Next]_vars =>
          (\A w \in Works : row[w].risky /\ Live(w) => row'[w].stamp = row[w].stamp)
    BY RowSteps DEF RowStep, RowInv
  <1>2. QED
    BY <1>1, RowInductive, TypeCorrect, PTL DEF Spec, UnprovenNeverGranted
-----------------------------------------------------------------------------
(* The lanes exclude each other: no routine executes while the Box is        *)
(* started, stopped, restarted, reconfigured or deleted, although the two    *)
(* sides hold different leases and are claimed by different executors.       *)

\* A running delete is alone: claiming it closed every other row but standing
\* work, and nothing is filed after it.
DeleteIsAlone ==
  \A w, v \in Works : KindOf[w] = "delete" /\ Claimed(w) /\ v # w /\ KindOf[v] # "standing"
                        => ~Live(v)

\* The inductive invariant of the exclusion.
LaneInv == /\ TypeOK
           /\ RowInv
           /\ DeleteIsAlone
           /\ DeleteOwnsRoutineLane
           /\ BoxMutationExcludesRoutine
-----------------------------------------------------------------------------
\* Some executor is granted w.
Grant(w) == \E e \in Executors, older \in SUBSET Works : Claim(e, w, older)

\* A row comes to life when it is filed and in no other way.
LEMMA LiveByAccept ==
  ASSUME TypeOK, [Next]_vars, NEW w \in Works, Live(w)', ~Live(w)
  PROVE  Accept(w)
  <1>0. row \in [Works -> Rows] /\ row'[w].st = "open" /\ row[w].st # "open"
    BY DEF TypeOK, Live
  <1>1. ASSUME NEW closing PROVE row' # Closed(row, closing)
    BY <1>0, ClosedRows
  <1>2. ASSUME NEW e \in Executors, NEW v \in Works, NEW older \in SUBSET Works, Claim(e, v, older)
        PROVE  FALSE
    <2> DEFINE R == Closed(row, Superseded(v, older))
    <2>1. /\ Live(v)
          /\ row' = [R EXCEPT ![v].stamp = NextEpoch,
                              ![v].seq = IF KindOf[v] = "standing" THEN @ + 1 ELSE @]
      BY <1>2 DEF Claim, Selected, Eligible
    <2>2. R \in [Works -> Rows] /\ R[w].st # "open"
      BY <1>0, ClosedRows
    <2> HIDE DEF R
    <2>3. row'[w].st = R[w].st
      BY <2>1, <2>2 DEF Rows
    <2>4. QED
      BY <1>0, <2>2, <2>3
  <1>3. ASSUME NEW c \in grants, NEW expected \in 0..MaxSeq, NEW doubt \in BOOLEAN,
               Checkpoint(c, expected, doubt)
        PROVE  FALSE
    BY <1>0, <1>3 DEF Checkpoint, Rows
  <1>4. ASSUME NEW c \in grants, NEW outcome \in {"good", "bad", "again"}, Settle(c, outcome)
        PROVE  FALSE
    <2> DEFINE R == Closed(row, Ended(c.work, outcome))
    <2>1. /\ row[c.work].st = "open"
          /\ row' = [R EXCEPT
               ![c.work].st = IF outcome = "again" THEN "open" ELSE "done",
               ![c.work].stamp = IF KindOf[c.work] = "standing" THEN 0 ELSE @,
               ![c.work].seq = @ + 1]
      BY <1>4 DEF Settle, Authorized
    <2>2. R \in [Works -> Rows] /\ R[w].st # "open"
      BY <1>0, ClosedRows
    <2> HIDE DEF R
    <2>3. c.work # w /\ row'[w] = R[w]
      BY <1>0, <2>1, <2>2
    <2>4. QED
      BY <1>0, <2>2, <2>3
  <1>5. ASSUME NEW c \in grants, DeferDelete(c) PROVE FALSE
    BY <1>0, <1>5 DEF DeferDelete, Rows
  <1>6. ASSUME NEW v \in Works, Accept(v) PROVE v = w
    BY <1>0, <1>6 DEF Accept
  <1>7. ASSUME NEW v \in Works,
               CancelTurn(v) \/ FenceUnproven(v) \/ RefuseRevoked(v) \/ ReconcileStart(v)
        PROVE  FALSE
    BY <1>1, <1>7 DEF CancelTurn, FenceUnproven, RefuseRevoked, ReconcileStart
  <1>8. row' # row
    BY <1>0
  <1>9. ASSUME NEW c \in grants, ExecutorCall(c) PROVE FALSE
    BY <1>3, <1>4, <1>5, <1>8, <1>9 DEF ExecutorCall, Renew, Release
  <1>10. ~Enable /\ ~Disable /\ ~Tick
    BY <1>1, <1>8 DEF Enable, Disable, Tick
  <1>11. QED
    BY <1>2, <1>6, <1>7, <1>8, <1>9, <1>10 DEF Next, vars

\* The stamp of a row is taken off or kept, or the row is granted.
LEMMA StampByGrant ==
  ASSUME TypeOK, [Next]_vars, NEW w \in Works, ~Grant(w)
  PROVE  row'[w].stamp \in {0, row[w].stamp}
  <1>0. row \in [Works -> Rows]
    BY DEF TypeOK
  <1>1. ASSUME NEW closing, row' = Closed(row, closing) PROVE row'[w].stamp = row[w].stamp
    BY <1>0, <1>1, ClosedRows
  <1>2. ASSUME NEW e \in Executors, NEW v \in Works, NEW older \in SUBSET Works, Claim(e, v, older)
        PROVE  row'[w].stamp = row[w].stamp
    <2> DEFINE R == Closed(row, Superseded(v, older))
    <2>1. v # w
      BY <1>2 DEF Grant
    <2>2. row' = [R EXCEPT ![v].stamp = NextEpoch,
                           ![v].seq = IF KindOf[v] = "standing" THEN @ + 1 ELSE @]
      BY <1>2 DEF Claim
    <2>3. R \in [Works -> Rows] /\ R[w].stamp = row[w].stamp
      BY <1>0, ClosedRows
    <2> HIDE DEF R
    <2>4. QED
      BY <2>1, <2>2, <2>3
  <1>3. ASSUME NEW c \in grants, NEW expected \in 0..MaxSeq, NEW doubt \in BOOLEAN,
               Checkpoint(c, expected, doubt)
        PROVE  row'[w].stamp = row[w].stamp
    BY <1>0, <1>3 DEF Checkpoint, Rows
  <1>4. ASSUME NEW c \in grants, NEW outcome \in {"good", "bad", "again"}, Settle(c, outcome)
        PROVE  row'[w].stamp \in {0, row[w].stamp}
    <2> DEFINE R == Closed(row, Ended(c.work, outcome))
    <2>1. row' = [R EXCEPT
               ![c.work].st = IF outcome = "again" THEN "open" ELSE "done",
               ![c.work].stamp = IF KindOf[c.work] = "standing" THEN 0 ELSE @,
               ![c.work].seq = @ + 1]
      BY <1>4 DEF Settle
    <2>2. R \in [Works -> Rows] /\ R[w].stamp = row[w].stamp
      BY <1>0, ClosedRows
    <2> HIDE DEF R
    <2>3. QED
      BY <2>1, <2>2 DEF Rows
  <1>5. ASSUME NEW c \in grants, DeferDelete(c) PROVE row'[w].stamp \in {0, row[w].stamp}
    BY <1>0, <1>5 DEF DeferDelete, Rows
  <1>6. ASSUME NEW v \in Works, Accept(v) PROVE row'[w].stamp = row[w].stamp
    BY <1>0, <1>6 DEF Accept, Rows
  <1>7. ASSUME NEW v \in Works,
               CancelTurn(v) \/ FenceUnproven(v) \/ RefuseRevoked(v) \/ ReconcileStart(v)
        PROVE  row'[w].stamp = row[w].stamp
    BY <1>1, <1>7 DEF CancelTurn, FenceUnproven, RefuseRevoked, ReconcileStart
  <1>8. ASSUME NEW c \in grants, ExecutorCall(c) PROVE row'[w].stamp \in {0, row[w].stamp}
    BY <1>3, <1>4, <1>5, <1>8 DEF ExecutorCall, Renew, Release
  <1>9. CASE Enable \/ Disable \/ Tick \/ UNCHANGED vars
    BY <1>1, <1>9 DEF Enable, Disable, Tick, vars
  <1>10. QED
    BY <1>2, <1>6, <1>7, <1>8, <1>9 DEF Next

\* A row that is claimed after a step was claimed before it or is granted by it.
LEMMA ClaimedByGrant ==
  ASSUME TypeOK, RowInv, [Next]_vars, NEW w \in Works, Claimed(w)', ~Grant(w)
  PROVE  Claimed(w)
  <1>1. row[w].stamp \in Nat /\ row[w].stamp > 0
    BY StampByGrant DEF Claimed, TypeOK, Rows
  <1>2. Live(w)' /\ ~Accept(w)
    BY <1>1 DEF Claimed, Accept, RowInv
  <1>3. QED
    BY <1>1, <1>2, LiveByAccept DEF Claimed

\* What a grant of w tells of every row: w itself was live and eligible, and
\* no other row became claimed.
LEMMA GrantStep ==
  ASSUME TypeOK, NEW w \in Works, Grant(w)
  PROVE  /\ Live(w) /\ Eligible(w)
         /\ \A v \in Works : v # w /\ Claimed(v)' => Claimed(v)
         /\ KindOf[w] = "delete" =>
              /\ ~lease'["routine"].held
              /\ \A v \in Works : v # w /\ KindOf[v] # "standing" => ~Live(v)'
  <1>1. PICK e \in Executors, older \in SUBSET Works : Claim(e, w, older)
    BY DEF Grant
  <1> DEFINE R == Closed(row, Superseded(w, older))
  <1>2. Live(w) /\ Eligible(w)
    BY <1>1 DEF Claim, Selected, Eligible
  <1>3. row' = [R EXCEPT ![w].stamp = NextEpoch,
                         ![w].seq = IF KindOf[w] = "standing" THEN @ + 1 ELSE @]
    BY <1>1 DEF Claim
  <1>4. /\ R \in [Works -> Rows] /\ row \in [Works -> Rows]
        /\ \A v \in Works : /\ R[v].stamp = row[v].stamp
                            /\ R[v].st = IF v \in Superseded(w, older) /\ row[v].st = "open"
                                         THEN "done" ELSE row[v].st
    BY ClosedRows DEF TypeOK
  <1> HIDE DEF R
  <1>5. \A v \in Works : v # w => row'[v] = R[v]
    BY <1>3, <1>4
  <1>6. \A v \in Works : v # w /\ Claimed(v)' => Claimed(v)
    BY <1>4, <1>5 DEF Claimed, Live
  <1>7. ASSUME KindOf[w] = "delete"
        PROVE  /\ ~lease'["routine"].held
               /\ \A v \in Works : v # w /\ KindOf[v] # "standing" => ~Live(v)'
    <2>1. LaneOf[w] = "main"
      BY <1>7, WorkAssumption
    <2>2. ~lease'["routine"].held
      BY <1>1, <1>7, <2>1 DEF Claim, LeasesAfterClaim, Cleared
    <2>3. Superseded(w, older) = {v \in Works \ {w} : KindOf[v] # "standing"}
      BY <1>7, <2>1 DEF Superseded
    <2>4. QED
      BY <1>4, <1>5, <2>2, <2>3 DEF Live
  <1>8. QED
    BY <1>2, <1>6, <1>7

\* The routine lane is held after a step only if it was before it or if one of
\* its own rows is granted.
LEMMA RoutineHeldByGrant ==
  ASSUME FenceInv, [Next]_vars, lease'["routine"].held, ~lease["routine"].held
  PROVE  \E w \in Works : LaneOf[w] = "routine" /\ Grant(w)
  <1>0. TypeOK /\ lease \in [Lanes -> Leases]
    BY DEF FenceInv, TypeOK
  <1>1. ASSUME NEW e \in Executors, NEW w \in Works, NEW older \in SUBSET Works, Claim(e, w, older)
        PROVE  LaneOf[w] = "routine" /\ Grant(w)
    BY <1>1 DEF Grant, Claim, LeasesAfterClaim, Cleared
  <1>2. ASSUME NEW w \in Works, FenceUnproven(w) \/ RefuseRevoked(w) \/ ReconcileStart(w)
        PROVE  FALSE
    BY <1>0, <1>2, WorkAssumption DEF FenceUnproven, RefuseRevoked, ReconcileStart, Cleared
  <1>3. ASSUME NEW c \in grants, Renew(c) PROVE FALSE
    BY <1>3 DEF Renew, Matches
  <1>4. ASSUME NEW c \in grants, EmptyLeaseOf(c) PROVE FALSE
    BY <1>0, <1>4, EmptiedLeases DEF Matches
  <1>5. ASSUME NEW c \in grants, ExecutorCall(c) PROVE FALSE
    BY <1>3, <1>4, <1>5 DEF ExecutorCall, Checkpoint, Settle, DeferDelete, Release
  <1>6. ASSUME NEW w \in Works, Accept(w) \/ CancelTurn(w) PROVE FALSE
    BY <1>6 DEF Accept, CancelTurn
  <1>7. ~Enable /\ ~Tick /\ ~UNCHANGED vars
    BY <1>0 DEF Enable, Tick, vars, Leases
  <1>8. ~Disable
    BY DEF Disable, LeasesAfterDisable, Cleared
  <1>9. QED
    BY <1>1, <1>2, <1>5, <1>6, <1>7, <1>8 DEF Next
-----------------------------------------------------------------------------
\* A running delete stays alone.
LEMMA AloneStep ==
  ASSUME LaneInv, [Next]_vars PROVE DeleteIsAlone'
  <1>1. SUFFICES ASSUME NEW w \in Works, NEW v \in Works, KindOf[w] = "delete", Claimed(w)',
                        v # w, KindOf[v] # "standing", Live(v)'
                 PROVE  FALSE
    BY DEF DeleteIsAlone
  <1>2. ~Grant(w)
    BY <1>1, GrantStep DEF LaneInv
  <1>3. Claimed(w)
    BY <1>1, <1>2, ClaimedByGrant DEF LaneInv
  <1>4. ~Live(v)
    BY <1>1, <1>3 DEF LaneInv, DeleteIsAlone
  <1>5. Accept(v)
    BY <1>1, <1>4, LiveByAccept DEF LaneInv
  <1>6. QED
    BY <1>1, <1>3, <1>5 DEF Accept, Claimed, Live

\* A running delete keeps the routine lane empty.
LEMMA RoutineEmptyStep ==
  ASSUME LaneInv, FenceInv, [Next]_vars PROVE DeleteOwnsRoutineLane'
  <1>1. SUFFICES ASSUME NEW w \in Works, KindOf[w] = "delete", Claimed(w)',
                        lease'["routine"].held
                 PROVE  FALSE
    BY DEF DeleteOwnsRoutineLane
  <1>2. ~Grant(w)
    BY <1>1, GrantStep DEF LaneInv
  <1>3. Claimed(w) /\ ~lease["routine"].held
    BY <1>1, <1>2, ClaimedByGrant DEF LaneInv, DeleteOwnsRoutineLane
  <1>4. PICK v \in Works : LaneOf[v] = "routine" /\ Grant(v)
    BY <1>1, <1>3, RoutineHeldByGrant
  <1>5. Live(v) /\ v # w /\ KindOf[v] # "standing"
    BY <1>1, <1>4, GrantStep, WorkAssumption DEF LaneInv
  <1>6. QED
    BY <1>1, <1>3, <1>5 DEF LaneInv, DeleteIsAlone

\* A main operation on the Box and a running routine never meet.
LEMMA BoxQuietStep ==
  ASSUME LaneInv, [Next]_vars PROVE BoxMutationExcludesRoutine'
  <1>1. SUFFICES ASSUME NEW w \in Works, NEW v \in Works,
                        KindOf[w] \in {"lifecycle", "start", "apply"}, LaneOf[w] = "main",
                        Claimed(w)', KindOf[v] = "turn", LaneOf[v] = "routine", Claimed(v)'
                 PROVE  FALSE
    BY DEF BoxMutationExcludesRoutine, RoutineQuiet, ActiveTurn, Operations
  <1>2. CASE Grant(w)
    <2>1. Eligible(w) /\ Claimed(v)
      BY <1>1, <1>2, GrantStep DEF LaneInv
    <2>2. RoutineQuiet
      BY <1>1, <2>1 DEF Eligible
    <2>3. QED
      BY <1>1, <2>1, <2>2 DEF RoutineQuiet, ActiveTurn
  <1>3. CASE ~Grant(w)
    <2>1. Claimed(w)
      BY <1>1, <1>3, ClaimedByGrant DEF LaneInv
    <2>2. ~Claimed(v)
      BY <1>1, <2>1 DEF LaneInv, BoxMutationExcludesRoutine, RoutineQuiet, ActiveTurn, Operations
    <2>3. Grant(v)
      BY <1>1, <2>2, ClaimedByGrant DEF LaneInv
    <2>4. Eligible(v)
      BY <2>3, GrantStep DEF LaneInv
    <2>5. NoMainOperation
      BY <1>1, <2>2, <2>4 DEF Eligible, TurnMayRun
    <2>6. QED
      BY <1>1, <2>1, <2>5 DEF NoMainOperation, Operations, Claimed
  <1>4. QED
    BY <1>2, <1>3

\* A delete that runs has the Companion to itself, and a start, a stop, a
\* restart or a settings apply never shares the Box with a running routine,
\* however claims, expiries, cancellations and the gate interleave.
THEOREM LanesStayApart == Spec => []LanesExclude
  <1>1. Init => LaneInv
    BY InitType, RowInductive
       DEF Init, LaneInv, DeleteIsAlone, DeleteOwnsRoutineLane, BoxMutationExcludesRoutine,
           RoutineQuiet, ActiveTurn, Claimed
  <1>2. LaneInv /\ FenceInv /\ [Next]_vars => LaneInv'
    BY StepType, RowInductive, AloneStep, RoutineEmptyStep, BoxQuietStep DEF LaneInv
  <1>3. LaneInv => LanesExclude
    BY DEF LaneInv, LanesExclude
  <1>4. QED
    BY <1>1, <1>2, <1>3, FenceInductive, PTL DEF Spec
-----------------------------------------------------------------------------
(* RuntimeLease implements FencedLease: the initial state maps to the        *)
(* initial state, every grant is an acquisition, every checkpoint and        *)
(* settlement a write of the owner, and everything else at most takes lanes  *)
(* from their owners.                                                        *)

\* The refinement mapping, named.
Top == Larger(lastWrite, Larger(lease["main"].epoch, lease["routine"].epoch))
Owner == [l \in Lanes |-> IF lease[l].held /\ lease[l].ttl > 0 THEN lease[l].epoch ELSE Nobody]

\* The mapping keeps its types, and no epoch is Nobody.
LEMMA MappedTypes ==
  ASSUME TypeOK
  PROVE  /\ Top \in Nat /\ Top >= lastWrite /\ NextEpoch = Top + 1
         /\ \A l \in Lanes : /\ lease[l].epoch \in Nat /\ lease[l].epoch <= Top
                             /\ lease[l].epoch # Nobody
                             /\ lease[l].ttl \in Nat /\ Owner[l] \in Int
         /\ \A w \in Works : row[w].stamp \in Nat /\ row[w].seq \in Nat
         /\ lastWrite \in Nat
  <1>1. \A l \in Lanes : lease[l].epoch \in Nat /\ lease[l].ttl \in Nat
    BY BoundAssumption DEF TypeOK, Leases
  <1>2. \A w \in Works : row[w].stamp \in Nat /\ row[w].seq \in Nat
    BY DEF TypeOK, Rows
  <1>3. lastWrite \in Nat
    BY DEF TypeOK
  <1>4. QED
    BY <1>1, <1>2, <1>3 DEF Top, NextEpoch, Larger, Owner, Nobody

\* Owner is a function of the lanes, before a step and after it.
LEMMA OwnerIsMap ==
  Owner = [l \in Lanes |-> Owner[l]] /\ Owner' = [l \in Lanes |-> Owner'[l]]
  BY DEF Owner

\* A step that at most takes lanes from their owners maps to Drop.
LEMMA DropStep ==
  ASSUME Top' >= Top,
         \A l \in Lanes : Owner'[l] \in {Owner[l], Nobody},
         \A w \in Works : row'[w].stamp = row[w].stamp /\ row'[w].seq = row[w].seq
  PROVE  FencedView!Next
  <1>1. PICK gone \in SUBSET Lanes : gone = {l \in Lanes : Owner'[l] = Nobody}
    OBVIOUS
  <1>2. FencedView!Drop(gone)
    BY <1>1 DEF FencedView!Drop, Top, Owner
  <1>3. QED
    BY <1>2 DEF FencedView!Next

\* The initial state maps to the abstract initial state.
LEMMA InitMaps == Init => FencedView!Init
  BY DEF Init, FencedView!Init, Cleared, Larger

\* A grant is an acquisition of the lane; a delete's evicts the other one.
LEMMA ClaimMaps ==
  ASSUME FenceInv, NEW e \in Executors, NEW w \in Works, NEW older, Claim(e, w, older)
  PROVE  FencedView!Next
  <1> DEFINE evicted == IF KindOf[w] = "delete" THEN Lanes ELSE {}
             d == IF KindOf[w] = "standing" THEN 1 ELSE 0
  <1>0. TypeOK /\ LaneOf[w] \in Lanes /\ row \in [Works -> Rows] /\ LeaseTicks > 0
    BY WorkAssumption, BoundAssumption DEF FenceInv, TypeOK
  <1>1. \A l \in Lanes : lease'[l] = IF l = LaneOf[w] THEN Granted(e, w)
                                     ELSE IF KindOf[w] = "delete" THEN Cleared(NextEpoch)
                                     ELSE lease[l]
    BY DEF Claim, LeasesAfterClaim
  <1>2. Owner[LaneOf[w]] = Nobody
    BY <1>0 DEF Claim, Claimable, Owner
  <1>3. \A l \in Lanes : lease'[l].epoch = NextEpoch \/ lease'[l].epoch = lease[l].epoch
    BY <1>1 DEF Granted, Cleared
  <1>4. lastWrite' = NextEpoch
    BY DEF Claim
  <1>5. Top' = NextEpoch /\ Top' > Top
    BY <1>0, <1>3, <1>4, MappedTypes DEF Top, Larger
  <1>6. \A l \in Lanes : Owner'[l] = IF l = LaneOf[w] THEN Top'
                                     ELSE IF l \in evicted THEN Nobody ELSE Owner[l]
    BY <1>0, <1>1, <1>5 DEF Granted, Cleared, Owner
  <1>7. \A v \in Works : /\ row'[v].stamp = IF v = w THEN NextEpoch ELSE row[v].stamp
                         /\ row'[v].seq = IF v = w THEN row[v].seq + d ELSE row[v].seq
    <2> DEFINE R == Closed(row, Superseded(w, older))
    <2>1. row' = [R EXCEPT ![w].stamp = NextEpoch,
                           ![w].seq = IF KindOf[w] = "standing" THEN @ + 1 ELSE @]
      BY DEF Claim
    <2>2. R \in [Works -> Rows] /\ \A v \in Works : R[v].stamp = row[v].stamp
                                                  /\ R[v].seq = row[v].seq
      BY <1>0, ClosedRows
    <2>3. row[w].seq \in Nat /\ row[w].seq + 0 = row[w].seq
      BY <1>0, MappedTypes
    <2> HIDE DEF R
    <2>4. QED
      BY <2>1, <2>2, <2>3 DEF Rows
  <1>8. FencedView!Acquire(LaneOf[w], w, evicted, d)
    <2>1. Owner' = [l \in Lanes |-> IF l = LaneOf[w] THEN Top'
                                          ELSE IF l \in evicted THEN Nobody
                                          ELSE Owner[l]]
      BY <1>6, OwnerIsMap
    <2>2. [v \in Works |-> row[v].stamp]' = [[v \in Works |-> row[v].stamp] EXCEPT ![w] = Top']
      BY <1>5, <1>7
    <2>3. [v \in Works |-> row[v].seq]' = [[v \in Works |-> row[v].seq] EXCEPT ![w] = @ + d]
      BY <1>7
    <2>4. Owner[LaneOf[w]] = Nobody
      BY <1>0, <1>2
    <2>5. QED
      BY <1>5, <2>1, <2>2, <2>3, <2>4 DEF FencedView!Acquire, Top, Owner
  <1>9. evicted \in SUBSET Lanes /\ d \in {0, 1}
    OBVIOUS
  <1>10. QED
    BY <1>0, <1>8, <1>9 DEF FencedView!Next

\* The other outcomes of a claim call take at most one lane from its owner.
LEMMA RefusedMaps ==
  ASSUME FenceInv, NEW w \in Works,
         FenceUnproven(w) \/ RefuseRevoked(w) \/ ReconcileStart(w)
  PROVE  FencedView!Next
  <1>0. TypeOK /\ TypeOK' /\ LaneOf[w] \in Lanes /\ row \in [Works -> Rows]
    BY RefusedClaimType, WorkAssumption DEF FenceInv, TypeOK
  <1>1. \A l \in Lanes : /\ lease[l].epoch + 1 > lease[l].epoch
                         /\ Cleared(lease[l].epoch + 1).epoch = lease[l].epoch + 1
                         /\ ~Cleared(lease[l].epoch + 1).held
    BY <1>0, MappedTypes DEF Cleared
  <1>2. \A l \in Lanes : lease'[l] \in {lease[l], Cleared(lease[l].epoch + 1)}
    BY <1>0 DEF FenceUnproven, RefuseRevoked, ReconcileStart, TypeOK
  <1>3. \A l \in Lanes : Owner'[l] \in {Owner[l], Nobody}
    BY <1>1, <1>2 DEF Owner
  <1>4. \A v \in Works : row'[v].stamp = row[v].stamp /\ row'[v].seq = row[v].seq
    BY <1>0, ClosedRows DEF FenceUnproven, RefuseRevoked, ReconcileStart
  <1>5. lastWrite' >= lastWrite
    <2>1. lastWrite \in Nat /\ \A l \in Lanes : lease[l].epoch + 1 \in Nat
      BY <1>0, LeaseRow DEF TypeOK
    <2>2. lastWrite >= lastWrite /\ \A n \in Nat : Larger(lastWrite, n) >= lastWrite
      BY <2>1 DEF Larger
    <2>3. QED
      <3>1. CASE FenceUnproven(w)
        BY <1>0, <2>1, <2>2, <3>1 DEF FenceUnproven
      <3>2. CASE RefuseRevoked(w)
        BY <2>2, <2>1, <3>2 DEF RefuseRevoked
      <3>3. CASE ReconcileStart(w)
        BY <2>1, <2>2, <3>3 DEF ReconcileStart
      <3>4. QED
        BY <3>1, <3>2, <3>3
  <1>6. Top' >= Top
    <2>1. \A l \in Lanes : lease'[l].epoch >= lease[l].epoch /\ lease'[l].epoch \in Nat
      BY <1>0, <1>1, <1>2, MappedTypes
    <2>2. lastWrite \in Nat /\ lastWrite' \in Nat /\ \A l \in Lanes : lease[l].epoch \in Nat
      BY <1>0, MappedTypes DEF TypeOK
    <2>3. QED
      BY <1>5, <2>1, <2>2 DEF Top, Larger
  <1>7. QED
    BY <1>3, <1>4, <1>6, DropStep

\* A valid claim is held on one lane, and its epoch counts as written.
LEMMA ValidOwner ==
  ASSUME FenceInv, NEW c \in grants, Valid(c)
  PROVE  \E l \in Lanes : /\ Matches(l, c) /\ Owner[l] = c.epoch /\ c.epoch # Nobody
                          /\ \A m \in Lanes : Matches(m, c) => m = l
  <1>1. PICK l \in Lanes : Matches(l, c)
    BY DEF Valid
  <1>2. Owner[l] = c.epoch /\ c.epoch # Nobody
    BY <1>1, MappedTypes DEF FenceInv, Matches, Owner
  <1>3. ASSUME NEW m \in Lanes, Matches(m, c) PROVE m = l
    <2>1. Holder(l) \in grants /\ Holder(m) \in grants
      BY <1>1, <1>3 DEF FenceInv, HeldIsGranted, Holder, Matches
    <2>2. Holder(l).epoch = Holder(m).epoch
      BY <1>1, <1>3 DEF Matches, Holder
    <2>3. Holder(l).lane = Holder(m).lane
      BY <2>1, <2>2 DEF FenceInv, OneGrantPerEpoch
    <2>4. QED
      BY <2>3 DEF Holder
  <1>4. QED
    BY <1>1, <1>2, <1>3

\* Writing under a claim raises no epoch: its own was written when granted.
LEMMA WriteKeepsTop ==
  ASSUME FenceInv, NEW c \in grants
  PROVE  Larger(lastWrite, c.epoch) = lastWrite
  <1>1. c.epoch \in Nat /\ c.epoch <= lastWrite /\ lastWrite \in Nat
    BY DEF FenceInv, GrantsBounded, TypeOK, Claims
  <1>2. QED
    BY <1>1 DEF Larger

\* A checkpoint is a write of the lane's owner to the row it stamped.
LEMMA CheckpointMaps ==
  ASSUME FenceInv, NEW c \in grants, NEW expected \in 0..MaxSeq, NEW doubt \in BOOLEAN,
         Checkpoint(c, expected, doubt)
  PROVE  FencedView!Next
  <1>0. TypeOK /\ c.work \in Works /\ row \in [Works -> Rows]
    BY DEF FenceInv, TypeOK, Claims
  <1>1. PICK l \in Lanes : Owner[l] = c.epoch /\ c.epoch # Nobody
    BY ValidOwner DEF Checkpoint, Authorized
  <1>2. row[c.work].stamp = c.epoch /\ row[c.work].seq = expected
    BY DEF Checkpoint, Authorized
  <1>3. lease' = lease /\ lastWrite' = lastWrite
    BY WriteKeepsTop DEF Checkpoint
  <1>4. \A v \in Works : /\ row'[v].stamp = row[v].stamp
                         /\ row'[v].seq = IF v = c.work THEN row[v].seq + 1 ELSE row[v].seq
    BY <1>0, <1>2 DEF Checkpoint, Rows
  <1>5. [v \in Works |-> row[v].seq]' = [[v \in Works |-> row[v].seq] EXCEPT ![c.work] = @ + 1]
    BY <1>4
  <1>6. [v \in Works |-> row[v].stamp]' = [v \in Works |-> row[v].stamp]
    BY <1>4
  <1>7. FencedView!Write(l, c.work)
    BY <1>0, <1>1, <1>2, <1>3, <1>5, <1>6 DEF FencedView!Write, Owner
  <1>8. QED
    BY <1>0, <1>7 DEF FencedView!Next

\* Emptying the lease of a claim takes its lane from it and touches no epoch.
LEMMA EmptiedOwner ==
  ASSUME FenceInv, NEW c, EmptyLeaseOf(c)
  PROVE  \A l \in Lanes : /\ lease'[l].epoch = lease[l].epoch
                          /\ Owner'[l] = IF Matches(l, c) THEN Nobody ELSE Owner[l]
  <1>1. \A l \in Lanes : lease'[l] = IF Matches(l, c) THEN Cleared(lease[l].epoch) ELSE lease[l]
    BY EmptiedLeases DEF FenceInv
  <1>2. QED
    BY <1>1 DEF Cleared, Owner

\* A call that ends a claim with a last write to its row maps to LastWrite.
LEMMA LastWriteStep ==
  ASSUME FenceInv, NEW c \in grants, Authorized(c), EmptyLeaseOf(c), lastWrite' = lastWrite,
         NEW s \in {0, row[c.work].stamp}, NEW d \in {0, 1},
         \A v \in Works :
           /\ row'[v].stamp = IF v = c.work THEN s ELSE row[v].stamp
           /\ row'[v].seq = IF v = c.work THEN row[v].seq + d ELSE row[v].seq
  PROVE  FencedView!Next
  <1>0. c.work \in Works
    BY DEF FenceInv, TypeOK, Claims
  <1>1. PICK l \in Lanes : /\ Matches(l, c) /\ Owner[l] = c.epoch /\ c.epoch # Nobody
                           /\ \A m \in Lanes : Matches(m, c) => m = l
    BY ValidOwner DEF Authorized
  <1>2. row[c.work].stamp = c.epoch
    BY DEF Authorized
  <1>3. Top' = Top
    BY EmptiedOwner DEF Top
  <1>4. Owner' = [Owner EXCEPT ![l] = Nobody]
    BY <1>1, EmptiedOwner, OwnerIsMap
  <1>5. [v \in Works |-> row[v].seq]' = [[v \in Works |-> row[v].seq] EXCEPT ![c.work] = @ + d]
    BY <1>0
  <1>6. [v \in Works |-> row[v].stamp]' = [[v \in Works |-> row[v].stamp] EXCEPT ![c.work] = s]
    BY <1>0
  <1>7. FencedView!LastWrite(l, c.work, s, d)
    BY <1>0, <1>1, <1>2, <1>3, <1>4, <1>5, <1>6 DEF FencedView!LastWrite, Owner, Top
  <1>8. [v \in Works |-> row[v].stamp][c.work] = row[c.work].stamp
    BY <1>0
  <1>9. QED
    BY <1>0, <1>7, <1>8 DEF FencedView!Next

\* A settlement is the last write of its claim.
LEMMA SettleMaps ==
  ASSUME FenceInv, NEW c \in grants, NEW outcome \in {"good", "bad", "again"},
         Settle(c, outcome)
  PROVE  FencedView!Next
  <1> DEFINE R == Closed(row, Ended(c.work, outcome))
             s == IF KindOf[c.work] = "standing" THEN 0 ELSE row[c.work].stamp
  <1>0. c.work \in Works /\ row \in [Works -> Rows]
    BY DEF FenceInv, TypeOK, Claims
  <1>1. R \in [Works -> Rows] /\ \A v \in Works : R[v].stamp = row[v].stamp
                                                /\ R[v].seq = row[v].seq
    BY <1>0, ClosedRows
  <1>2. row' = [R EXCEPT
               ![c.work].st = IF outcome = "again" THEN "open" ELSE "done",
               ![c.work].stamp = IF KindOf[c.work] = "standing" THEN 0 ELSE @,
               ![c.work].seq = @ + 1]
    BY DEF Settle
  <1> HIDE DEF R
  <1>3. \A v \in Works : /\ row'[v].stamp = IF v = c.work THEN s ELSE row[v].stamp
                         /\ row'[v].seq = IF v = c.work THEN row[v].seq + 1 ELSE row[v].seq
    BY <1>0, <1>1, <1>2 DEF Rows
  <1>4. Authorized(c) /\ EmptyLeaseOf(c) /\ lastWrite' = lastWrite
    BY WriteKeepsTop DEF Settle
  <1>5. s \in {0, row[c.work].stamp}
    OBVIOUS
  <1> HIDE DEF s
  <1>6. QED
    BY <1>3, <1>4, <1>5, LastWriteStep

\* Every call of an executor is a write, a last write or a loss of its lane.
LEMMA ExecutorMaps ==
  ASSUME FenceInv, NEW c \in grants, ExecutorCall(c)
  PROVE  FencedView!Next
  <1>0. TypeOK /\ c.work \in Works /\ row \in [Works -> Rows]
    BY DEF FenceInv, TypeOK, Claims
  <1>1. CASE Renew(c)
    <2>1. \A l \in Lanes : lease'[l].epoch = lease[l].epoch /\ Owner'[l] = Owner[l]
      BY <1>0, <1>1, BoundAssumption DEF Renew, Matches, Owner, TypeOK, Leases
    <2>2. row' = row /\ lastWrite' = lastWrite /\ Top \in Int
      BY <1>0, <1>1, MappedTypes DEF Renew
    <2>3. Top' = Top
      BY <2>1, <2>2 DEF Top
    <2>4. QED
      BY <2>1, <2>2, <2>3, DropStep
  <1>2. CASE DeferDelete(c)
    <2>1. \A v \in Works : /\ row'[v].stamp = IF v = c.work THEN 0 ELSE row[v].stamp
                           /\ row'[v].seq = IF v = c.work THEN row[v].seq + 0 ELSE row[v].seq
      BY <1>0, <1>2, MappedTypes DEF DeferDelete, Rows
    <2>2. QED
      BY <1>2, <2>1, LastWriteStep DEF DeferDelete
  <1>3. CASE Release(c)
    <2>1. row' = row /\ lastWrite' = lastWrite /\ EmptyLeaseOf(c) /\ Top \in Int
      BY <1>0, <1>3, MappedTypes DEF Release
    <2>2. Top' = Top /\ \A l \in Lanes : Owner'[l] \in {Owner[l], Nobody}
      BY <2>1, EmptiedOwner DEF Top
    <2>3. QED
      BY <2>1, <2>2, DropStep
  <1>4. QED
    BY <1>1, <1>2, <1>3, CheckpointMaps, SettleMaps DEF ExecutorCall

\* Filing, cancelling, the gate and the clock take lanes at most.
LEMMA EnvironmentMaps ==
  ASSUME FenceInv,
         \/ \E w \in Works : Accept(w) \/ CancelTurn(w)
         \/ Enable \/ Disable \/ Tick
  PROVE  FencedView!Next
  <1>0. TypeOK /\ row \in [Works -> Rows] /\ lastWrite' = lastWrite
    BY DEF FenceInv, TypeOK, Accept, CancelTurn, Enable, Disable, Tick
  <1>1. \A v \in Works : row'[v].stamp = row[v].stamp /\ row'[v].seq = row[v].seq
    <2>1. CASE \E w \in Works : Accept(w)
      <3>1. PICK w \in Works : row' = [row EXCEPT ![w].st = "open"]
        BY <2>1 DEF Accept
      <3>2. QED
        BY <1>0, <3>1 DEF Rows
    <2>2. CASE (\E w \in Works : CancelTurn(w)) \/ Disable
      <3>1. PICK closing : row' = Closed(row, closing)
        BY <2>2 DEF CancelTurn, Disable
      <3>2. QED
        BY <1>0, <3>1, ClosedRows
    <2>3. CASE Enable \/ Tick
      BY <2>3 DEF Enable, Tick
    <2>4. QED
      BY <2>1, <2>2, <2>3
  <1>2. \A l \in Lanes : /\ lease'[l].epoch \in Nat /\ lease'[l].epoch >= lease[l].epoch
                         /\ Owner'[l] \in {Owner[l], Nobody}
    <2>1. \A l \in Lanes : lease[l] \in Leases /\ lease[l].epoch \in Nat /\ lease[l].ttl \in Nat
      BY <1>0, MappedTypes DEF TypeOK
    <2>2. CASE UNCHANGED lease
      BY <2>1, <2>2 DEF Owner
    <2>3. CASE Disable
      BY <2>1, <2>3 DEF Disable, LeasesAfterDisable, Cleared, Owner
    <2>4. CASE Tick
      <3>1. \A l \in Lanes : /\ lease'[l].held = lease[l].held
                             /\ lease'[l].epoch = lease[l].epoch
                             /\ lease'[l].ttl > 0 => lease[l].ttl > 0
        BY <2>1, <2>4 DEF Tick, Leases
      <3>2. QED
        BY <2>1, <3>1 DEF Owner
    <2>5. QED
      BY <2>2, <2>3, <2>4 DEF Accept, CancelTurn, Enable
  <1>3. Top' >= Top
    <2>1. lastWrite \in Nat /\ \A l \in Lanes : lease[l].epoch \in Nat
      BY <1>0, MappedTypes
    <2>2. QED
      BY <1>0, <1>2, <2>1 DEF Top, Larger
  <1>4. QED
    BY <1>1, <1>2, <1>3, DropStep

\* Every step of the protocol is a step of the abstract lease or none.
LEMMA StepMaps == FenceInv /\ [Next]_vars => [FencedView!Next]_(FencedView!vars)
  <1>1. ASSUME UNCHANGED vars PROVE UNCHANGED FencedView!vars
    BY <1>1 DEF vars, FencedView!vars
  <1>2. ASSUME FenceInv, Next PROVE FencedView!Next
    BY <1>2, ClaimMaps, RefusedMaps, ExecutorMaps, EnvironmentMaps DEF Next
  <1>3. QED
    BY <1>1, <1>2

\* The PostgreSQL lease protocol implements the fenced lease: a work row is
\* written by the acquisition that last stamped it, and only while that
\* acquisition still owns its lane, whatever calls arrive late.
THEOREM LeaseIsFenced == Spec => ImplementsFencedLease
  <1>1. FencedView!Init /\ [][FencedView!Next]_(FencedView!vars) => ImplementsFencedLease
    BY DEF ImplementsFencedLease, FencedView!Spec
  <1>2. QED
    BY <1>1, InitMaps, StepMaps, FenceInductive, PTL DEF Spec
=============================================================================
