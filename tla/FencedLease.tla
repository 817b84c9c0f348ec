----------------------------- MODULE FencedLease -----------------------------
(***************************************************************************)
(* What the Companion runtime promises of its work leases, without saying  *)
(* how: every acquisition carries an epoch larger than every earlier one,  *)
(* a lane has at most one owner, and a work row advances only while the    *)
(* acquisition that last stamped the row still owns a lane.                *)
(***************************************************************************)
EXTENDS Integers

CONSTANTS Lanes,    \* execution lanes of one Companion
          Works,    \* durable work rows
          Nobody    \* a lane that no executor owns

VARIABLES top,      \* the largest epoch ever acquired
          owner,    \* owner[l]: epoch of the acquisition that owns lane l
          stamp,    \* stamp[w]: epoch of the last acquisition of work w
          progress  \* progress[w]: how many writes were committed to w

vars == <<top, owner, stamp, progress>>

Init == /\ top = 0
        /\ owner = [l \in Lanes |-> Nobody]
        /\ stamp = [w \in Works |-> 0]
        /\ progress = [w \in Works |-> 0]

\* Lane l passes to a new owner of work w; the same step may evict other lanes
\* and may count as a first write.
Acquire(l, w, evicted, d) ==
  /\ owner[l] = Nobody
  /\ top' > top
  /\ owner' = [m \in Lanes |-> IF m = l THEN top'
                               ELSE IF m \in evicted THEN Nobody ELSE owner[m]]
  /\ stamp' = [stamp EXCEPT ![w] = top']
  /\ progress' = [progress EXCEPT ![w] = @ + d]

\* Owners go away: released, expired or evicted.
Drop(lanes) ==
  /\ owner' = [l \in Lanes |-> IF l \in lanes THEN Nobody ELSE owner[l]]
  /\ top' >= top
  /\ UNCHANGED <<stamp, progress>>

\* Only the current owner of a lane writes, and only to the row it stamped.
Write(l, w) ==
  /\ owner[l] # Nobody
  /\ owner[l] = stamp[w]
  /\ progress' = [progress EXCEPT ![w] = @ + 1]
  /\ UNCHANGED <<top, owner, stamp>>

\* The last write of an acquisition gives the lane up in the same step and may
\* take its stamp off the row.
LastWrite(l, w, s, d) ==
  /\ owner[l] # Nobody
  /\ owner[l] = stamp[w]
  /\ progress' = [progress EXCEPT ![w] = @ + d]
  /\ owner' = [owner EXCEPT ![l] = Nobody]
  /\ stamp' = [stamp EXCEPT ![w] = s]
  /\ UNCHANGED top

Next == \/ \E l \in Lanes, w \in Works, evicted \in SUBSET Lanes, d \in {0, 1} :
              Acquire(l, w, evicted, d)
        \/ \E lanes \in SUBSET Lanes : Drop(lanes)
        \/ \E l \in Lanes, w \in Works :
              \/ Write(l, w)
              \/ \E s \in {0, stamp[w]}, d \in {0, 1} : LastWrite(l, w, s, d)

Spec == Init /\ [][Next]_vars
=============================================================================
