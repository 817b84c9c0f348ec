--------------------------- MODULE ImageRegistry ---------------------------
(***************************************************************************)
(* One row of companion_images, the builders that lease it, and the Boxes  *)
(* they bake in: imageBuildWorker, companionRuntimeBaker and the functions *)
(* of migration 0123.                                                      *)
(*                                                                         *)
(* Writes are fenced by the claim epoch, not by the lease: a builder whose *)
(* lease expired goes on until a write of its own is refused.  A Box has a *)
(* bounded time to live, so the provider may end one at any step.          *)
(***************************************************************************)
EXTENDS Integers, FiniteSets

CONSTANTS Builders,     \* processes that run a build worker
          MaxAttempts,  \* bakes of one cycle (4 in the code)
          MaxBoxes,     \* bound: Boxes the provider creates
          MaxCycles,    \* bound: cycles a request starts, the first included
          MaxMishaps    \* bound: crashes, and leases that expire under a live builder

ASSUME RegistryAssumption == /\ MaxAttempts \in Nat \ {0} /\ MaxBoxes \in Nat /\ MaxCycles \in Nat \ {0}
                             /\ MaxMishaps \in Nat

VARIABLES row,       \* the companion_images row
          boxes,     \* boxes[b]: what the provider knows of Box b
          deletes,   \* deletes[b]: how often a DELETE of b was sent
          snapshot,  \* whether the named snapshot is ready at the provider
          builder,   \* builder[e]: where worker e stands
          mishaps

vars == <<row, boxes, deletes, snapshot, builder, mishaps>>
provider == <<boxes, deletes, snapshot>>

Boxes == 1..MaxBoxes
Idle == [at |-> "idle", epoch |-> 0, box |-> 0, intent |-> FALSE, op |-> FALSE, then |-> "none"]

Init == /\ row = [status |-> "requested", epoch |-> 0, cycle |-> 1, attempts |-> 0, leased |-> FALSE,
                  due |-> TRUE, box |-> 0, intent |-> FALSE, op |-> FALSE]
        /\ boxes = [b \in Boxes |-> "none"] /\ deletes = [b \in Boxes |-> 0] /\ snapshot = FALSE
        /\ builder = [e \in Builders |-> Idle]
        /\ mishaps = 0

Goes(e, x) == builder' = [builder EXCEPT ![e] = x]
To(e, pc) == Goes(e, [builder[e] EXCEPT !.at = pc])
Fails(e) == To(e, "failed")
Fenced(e) == row.status = "building" /\ row.epoch = builder[e].epoch
-----------------------------------------------------------------------------
(* The row in time. *)

\* companion_runtime_image_request: a failure re-arms after its cooldown.
Rearm ==
  /\ row.status = "failed" /\ row.cycle < MaxCycles
  /\ row' = [row EXCEPT !.status = "requested", !.attempts = 0, !.due = TRUE, !.cycle = @ + 1]
  /\ UNCHANGED <<provider, builder, mishaps>>

BackoffEnds ==
  /\ ~row.due /\ row' = [row EXCEPT !.due = TRUE]
  /\ UNCHANGED <<provider, builder, mishaps>>

Held == \E e \in Builders : builder[e].at # "idle" /\ builder[e].epoch = row.epoch
LeaseExpires ==
  /\ row.leased /\ row' = [row EXCEPT !.leased = FALSE]
  /\ IF Held THEN mishaps < MaxMishaps /\ mishaps' = mishaps + 1 ELSE UNCHANGED mishaps
  /\ UNCHANGED <<provider, builder>>

\* Fault: a build whose worker died stays its worker's.
FaultAbandoned == FALSE
Abandoned == row.status = "building" /\ ~row.leased
RecoveryOnly == row.status = "building" /\ row.attempts >= MaxAttempts
Attempted == IF RecoveryOnly THEN row.attempts ELSE row.attempts + 1
Task == IF RecoveryOnly THEN "failed" ELSE "bake"

\* companion_runtime_image_claim.  A Box an earlier attempt left is removed first.
\* Fault: the Box of an earlier attempt is not looked at.
FaultFirst(next) == next
First(next) == IF row.box # 0 THEN "reconcile" ELSE next
Claim(e) ==
  /\ builder[e].at = "idle"
  /\ \/ row.status \in {"requested", "failed"} /\ row.due /\ row.attempts < MaxAttempts
     \/ Abandoned
  /\ row' = [row EXCEPT !.status = "building", !.epoch = @ + 1, !.leased = TRUE, !.attempts = Attempted]
  /\ Goes(e, [at |-> First(Task), epoch |-> row.epoch + 1, box |-> row.box,
              intent |-> row.intent, op |-> row.op, then |-> Task])
  /\ UNCHANGED <<provider, mishaps>>
-----------------------------------------------------------------------------
(* deleteCompanionRuntimeBakerBox, for a Box found and for one's own. *)

Gone(b) == boxes[b] \in {"none", "gone"}

\* A DELETE that may have been sent is never sent again: absence is only read.
\* Fault: the DELETE is sent again.
FaultMayHaveSent(e) == FALSE
MayHaveSent(e) == builder[e].intent
Reconcile(e) ==
  /\ builder[e].at = "reconcile"
  /\ \/ builder[e].op /\ To(e, "poll") /\ UNCHANGED row
     \/ /\ ~builder[e].op /\ MayHaveSent(e)
        /\ IF Gone(builder[e].box) THEN To(e, "clear") ELSE Fails(e)
        /\ UNCHANGED row
     \/ /\ ~builder[e].op /\ ~MayHaveSent(e)
        /\ IF Fenced(e) /\ row.box = builder[e].box
             THEN row' = [row EXCEPT !.intent = TRUE] /\ To(e, "delete")
             ELSE UNCHANGED row /\ Fails(e)
  /\ UNCHANGED <<provider, mishaps>>

\* requestPermanentDeletion: accepted with its answer or without, or never sent.
Delete(e) ==
  /\ builder[e].at = "delete"
  /\ LET b == builder[e].box IN
       \/ Gone(b) /\ To(e, "clear") /\ UNCHANGED <<boxes, deletes>>
       \/ /\ ~Gone(b)
          /\ boxes' = [boxes EXCEPT ![b] = "deleting"] /\ deletes' = [deletes EXCEPT ![b] = @ + 1]
          /\ To(e, "operation") \/ Fails(e)
       \/ Fails(e) /\ UNCHANGED <<boxes, deletes>>
  /\ UNCHANGED <<row, snapshot, mishaps>>

MarkOperation(e) ==
  /\ builder[e].at = "operation"
  /\ IF Fenced(e) /\ row.box = builder[e].box /\ row.intent /\ ~row.op
       THEN row' = [row EXCEPT !.op = TRUE] /\ To(e, "poll")
       ELSE UNCHANGED row /\ Fails(e)
  /\ UNCHANGED <<provider, mishaps>>

Deleted(b) == Gone(b)
Poll(e) ==
  /\ builder[e].at = "poll"
  /\ \/ Deleted(builder[e].box) /\ To(e, "clear")
     \/ Fails(e)
  /\ UNCHANGED <<row, provider, mishaps>>

NoBox(r) == [r EXCEPT !.box = 0, !.intent = FALSE, !.op = FALSE]
Clear(e) ==
  /\ builder[e].at = "clear"
  /\ IF Fenced(e) /\ row.box = builder[e].box
       THEN row' = NoBox(row) /\ To(e, builder[e].then)
       ELSE UNCHANGED row /\ Fails(e)
  /\ UNCHANGED <<provider, mishaps>>
-----------------------------------------------------------------------------
(* bakeCompanionRuntimeImageOnce. *)

Bake(e) ==
  /\ builder[e].at = "bake"
  /\ To(e, IF snapshot THEN "ready" ELSE "create")
  /\ UNCHANGED <<row, provider, mishaps>>

\* A Box whose creation is not answered has no pointer: its time to live ends it.
Create(e) ==
  /\ builder[e].at = "create"
  /\ \/ Fails(e) /\ UNCHANGED boxes
     \/ \E b \in Boxes :
          /\ boxes[b] = "none" /\ \A c \in 1..(b - 1) : boxes[c] # "none"
          /\ boxes' = [boxes EXCEPT ![b] = "alive"]
          /\ \/ Goes(e, [builder[e] EXCEPT !.at = "mark", !.box = b, !.intent = FALSE, !.op = FALSE])
             \/ Fails(e)
  /\ UNCHANGED <<row, deletes, snapshot, mishaps>>

\* finally: the Box goes whatever became of the bake.
Finally(e, then) == Goes(e, [builder[e] EXCEPT !.at = "reconcile", !.then = then])
MarkBox(e) ==
  /\ builder[e].at = "mark"
  /\ IF Fenced(e) THEN row' = [NoBox(row) EXCEPT !.box = builder[e].box] /\ To(e, "work")
                  ELSE UNCHANGED row /\ Finally(e, "failed")
  /\ UNCHANGED <<provider, mishaps>>

Baked == {"failed"}
Work(e) ==
  /\ builder[e].at = "work"
  /\ \/ boxes[builder[e].box] = "alive" /\ snapshot' = TRUE /\ Finally(e, "ready")
     \/ UNCHANGED snapshot /\ \E then \in Baked : Finally(e, then)
  /\ UNCHANGED <<row, boxes, deletes, mishaps>>

\* companion_runtime_image_record_ready and companion_runtime_image_record_failure:
\* a failure keeps the pointer to its Box.
RecordReady(e) ==
  /\ builder[e].at = "ready" /\ Goes(e, Idle)
  /\ row' = IF Fenced(e) THEN [NoBox(row) EXCEPT !.status = "ready", !.leased = FALSE] ELSE row
  /\ UNCHANGED <<provider, mishaps>>
RecordFailure(e) ==
  /\ builder[e].at = "failed" /\ Goes(e, Idle)
  /\ row' = IF Fenced(e)
              THEN [row EXCEPT !.status = IF row.attempts >= MaxAttempts THEN "failed" ELSE "requested",
                               !.due = FALSE, !.leased = FALSE]
              ELSE row
  /\ UNCHANGED <<provider, mishaps>>

\* The process stops, or the store does not answer the record of an outcome.
Crash(e) ==
  /\ builder[e].at # "idle" /\ mishaps < MaxMishaps /\ mishaps' = mishaps + 1
  /\ Goes(e, Idle)
  /\ UNCHANGED <<row, provider>>

\* A deletion completes, or the time to live of a Box is over.
BoxEnds ==
  /\ \E b \in Boxes : boxes[b] \in {"alive", "deleting"} /\ boxes' = [boxes EXCEPT ![b] = "gone"]
  /\ UNCHANGED <<row, deletes, snapshot, builder, mishaps>>
-----------------------------------------------------------------------------
Builds(e) == \/ Claim(e) \/ Reconcile(e) \/ Delete(e) \/ MarkOperation(e) \/ Poll(e) \/ Clear(e)
             \/ Bake(e) \/ Create(e) \/ MarkBox(e) \/ Work(e) \/ RecordReady(e) \/ RecordFailure(e)
Next == \/ \E e \in Builders : Builds(e) \/ Crash(e)
        \/ Rearm \/ BackoffEnds \/ LeaseExpires \/ BoxEnds

Spec == Init /\ [][Next]_vars

\* Some worker always runs, backoffs end and leases expire.
FairSpec == Spec /\ (\A e \in Builders : WF_vars(Builds(e))) /\ WF_vars(BackoffEnds) /\ WF_vars(LeaseExpires)
-----------------------------------------------------------------------------
\* The row, the builders and the provider hold values of their kinds, and no cycle
\* counts more than its attempts.
TypeOK ==
  /\ row \in [status : {"requested", "building", "ready", "failed"}, epoch : Nat, cycle : 1..MaxCycles,
              attempts : 0..MaxAttempts, leased : BOOLEAN, due : BOOLEAN, box : 0..MaxBoxes,
              intent : BOOLEAN, op : BOOLEAN]
  /\ boxes \in [Boxes -> {"none", "alive", "deleting", "gone"}] /\ snapshot \in BOOLEAN
  /\ builder \in [Builders -> [at : {"idle", "reconcile", "delete", "operation", "poll", "clear", "bake",
                                     "create", "mark", "work", "ready", "failed"},
                               epoch : Nat, box : 0..MaxBoxes, intent : BOOLEAN,
                               op : BOOLEAN, then : {"none", "bake", "ready", "failed"}]]
  /\ mishaps \in 0..MaxMishaps

\* An irreversible DELETE is sent once for a Box, through crashes, lost answers and
\* takeovers by a builder that cannot know whether it was sent.
DeleteSentOnce == \A b \in Boxes : deletes[b] <= 1

\* The row lets go of a baker Box only when the provider has it no more.
PointerOutlivesBox ==
  [][\A b \in Boxes : row.box = b /\ row'.box # b => Gone(b)]_vars

\* Every request for an image is answered, ready or failed, whichever builder dies.
RequestSettles == row.status = "requested" ~> row.status \in {"ready", "failed"}
=============================================================================
