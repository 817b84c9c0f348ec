----------------------------- MODULE DurableLog -----------------------------
(***************************************************************************)
(* What the Pi event journal of a Box promises, without files, segments or *)
(* processes: records are numbered from 1 in the order they are put, and a *)
(* record stays readable until its only reader has released it.  Nothing   *)
(* else ever changes the log.                                              *)
(***************************************************************************)
EXTENDS Naturals, Sequences

CONSTANT Writers  \* invocations of the daemon that put records

VARIABLES released,  \* records released so far, always a prefix
          pending    \* the records that follow, in their order

Init == released = 0 /\ pending = <<>>

Put(w) == /\ pending' = Append(pending, [seq |-> released + Len(pending) + 1, by |-> w])
          /\ UNCHANGED released

Release(n) == /\ pending' = SubSeq(pending, n + 1, Len(pending))
              /\ released' = released + n

Next == (\E w \in Writers : Put(w)) \/ (\E n \in 1..Len(pending) : Release(n))

Spec == Init /\ [][Next]_<<released, pending>>
=============================================================================
