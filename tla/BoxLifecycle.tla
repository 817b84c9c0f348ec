---------------------------- MODULE BoxLifecycle ----------------------------
(***************************************************************************)
(* One Companion's Box through Start, Stop, Restart Box and permanent      *)
(* Delete: the handlers of operations.ts, the checkpoints PostgreSQL keeps *)
(* for them (observe_instance, checkpoint_operation, claim_work,           *)
(* defer_delete, settle) and the provider.                                 *)
(*                                                                         *)
(* PostgreSQL refuses the writes of an executor that lost its lease, so    *)
(* one executor is modelled at a time.  What survives a lost lease is a    *)
(* provider call already sent: it may land at any later moment.            *)
(***************************************************************************)
EXTENDS Integers, FiniteSets, FiniteSetsExt

CONSTANTS MaxBoxes,   \* bound: Boxes the provider creates
          MaxAsks,    \* bound: operations asked for
          MaxLosses,  \* bound: leases lost by a live executor, crashes included
          MaxVanish   \* bound: Boxes that end without the runtime's asking

ASSUME BoxAssumption == MaxBoxes \in Nat \ {0} /\ MaxAsks \in Nat /\ MaxLosses \in Nat /\ MaxVanish \in Nat

VARIABLES op,        \* the running operation: its kind and checkpoint
          held,      \* whether its executor still holds the lease
          ans,       \* what that executor has read or done since its last write
          late,      \* calls of lost executors that have not reached the provider
          asked,     \* kinds of the pending operations
          asks,      \* operations asked for so far
          inst,      \* the instance: Box id, box_state and retirement_state
          unsure,    \* a Start of this generation was interrupted at creating_box
          aged,      \* the absence horizon (3 minutes, then 30 seconds) is over
          posts,     \* create POSTs of the running Start
          accepted,  \* the provider accepted a permanent deletion
          error,     \* why a Delete failed
          boxes,     \* boxes[b]: the state of Box b at the provider
          named,     \* Boxes that carry this generation's name
          losses, vanished

work == <<op, held, ans, asked, asks>>
record == <<inst, unsure, aged>>
history == <<posts, accepted, error>>
provider == <<boxes, named>>
bounds == <<losses, vanished>>
vars == <<work, late, record, history, provider, bounds>>

Boxes == 1..MaxBoxes
NoBox == 0
Kinds == {"start", "stop", "restart_box", "delete"}
NoOp == [kind |-> "none", cp |-> "none"]
NoAnswer == [of |-> "none", box |-> NoBox, state |-> "none"]
Ready == {"ready"}

Init == /\ op = NoOp /\ held = FALSE /\ ans = NoAnswer /\ late = {} /\ asked = {} /\ asks = 0
        /\ inst = [box |-> NoBox, state |-> "unknown", retire |-> "active"]
        /\ unsure = FALSE /\ aged = FALSE /\ posts = 0 /\ accepted = FALSE /\ error = "none"
        /\ boxes = [b \in Boxes |-> "none"] /\ named = {} /\ losses = 0 /\ vanished = 0

At(kind, cp) == op.kind = kind /\ op.cp = cp
Executes == held /\ ans = NoAnswer
Exists(b) == b # NoBox /\ boxes[b] \notin {"none", "gone"}
Status(b) == IF Exists(b) THEN boxes[b] ELSE "absent"
Listed == {b \in named : Exists(b)}
Canonical == IF Listed = {} THEN NoBox ELSE Min(Listed)
-----------------------------------------------------------------------------
(* How an operation ends and how its checkpoint moves. *)

Ends == op' = NoOp /\ held' = FALSE /\ ans' = NoAnswer /\ UNCHANGED <<asked, asks>>
Goes(cp) == op' = [op EXCEPT !.cp = cp] /\ ans' = NoAnswer /\ UNCHANGED <<held, asked, asks>>
Answers(of, b, s) == ans' = [of |-> of, box |-> b, state |-> s] /\ UNCHANGED <<op, held, asked, asks>>
Abandons == held' = FALSE /\ ans' = NoAnswer /\ UNCHANGED <<op, asked, asks>>

\* An operation that fails for good: a Delete keeps the reason.
Fails(code) == /\ Ends
               /\ error' = IF op.kind = "delete" THEN code ELSE error
               /\ UNCHANGED <<posts, accepted>>

\* The checkpoints that follow each other with nothing asked of the provider.
Follows == {<<"start", "pending", "resolving_box">>, <<"stop", "pending", "stopping_pi">>,
            <<"stop", "stopping_pi", "provider_stop_requested">>,
            <<"restart_box", "skills_updated", "restarting_box">>,
            <<"delete", "provider_delete_requested", "waiting_deleted">>}
Advance ==
  /\ Executes
  /\ \/ \E cp \in {s[3] : s \in Follows} : <<op.kind, op.cp, cp>> \in Follows /\ Goes(cp)
     \/ At("restart_box", "pending") /\ inst.box # NoBox /\ Goes("skills_updated")
  /\ UNCHANGED <<late, record, history, provider, bounds>>

\* A provider error that is not retried, or the deadline of the operation.
GivesUp ==
  /\ held
  /\ Fails("provider")
  /\ UNCHANGED <<late, record, provider, bounds>>

\* settle with the proof its checkpoint is.  What follows box_ready_observed concerns Pi only.
Succeeds ==
  /\ Executes
  /\ \/ op.kind \in {"start", "restart_box"} /\ op.cp = "box_ready_observed" /\ UNCHANGED inst
     \/ At("stop", "box_archived") /\ UNCHANGED inst
     \/ /\ op.kind = "delete" /\ op.cp \in {"box_absent", "provider_deleted"} /\ inst.state = "absent"
        /\ inst' = [box |-> NoBox, state |-> "absent", retire |-> "retired"]
  /\ Ends
  /\ UNCHANGED <<late, unsure, aged, history, provider, bounds>>
-----------------------------------------------------------------------------
(* What an executor reads and records. *)

\* get_status of the recorded Box, or the Boxes of the account that carry the name.
Found == IF op.cp \in {"waiting_ready", "waiting_archived"} \/ Exists(inst.box) THEN inst.box ELSE Canonical
Looks == \/ op.kind = "start" /\ op.cp \in {"resolving_box", "waiting_ready"}
         \/ At("restart_box", "waiting_ready")
         \/ At("stop", "waiting_archived") /\ inst.box # NoBox
         \/ At("delete", "pending") /\ inst.box = NoBox
         \/ At("delete", "box_absence_observed") /\ aged
Look ==
  /\ Executes /\ Looks
  /\ IF At("delete", "box_absence_observed") /\ inst.box # NoBox /\ inst.box \notin Listed
       THEN Fails("box_identity_conflict")
       ELSE Answers("look", IF Exists(Found) THEN Found ELSE NoBox, Status(Found)) /\ UNCHANGED history
  /\ UNCHANGED <<late, record, provider, bounds>>

\* Fault: the horizon never ends.
FaultTooEarly == At("delete", "pending") /\ ans.state = "absent" /\ unsure
\* Absence is no proof while a create that was never answered may still show.
TooEarly == At("delete", "pending") /\ ans.state = "absent" /\ unsure /\ ~aged
\* The checkpoint an observation proves, or the one there was.
Proves ==
  CASE op.kind = "start" /\ op.cp = "resolving_box" ->
         IF ans.state = "absent" THEN "box_absence_observed"
         ELSE IF ans.state \in Ready THEN "box_ready_observed" ELSE "box_resolved"
    [] op.cp = "creating_box" -> "box_created"
    [] op.cp = "waiting_ready" /\ ans.state \in Ready -> "box_ready_observed"
    [] op.cp = "waiting_archived" /\ ans.state = "archived" -> "box_archived"
    [] At("delete", "pending") /\ ans.state = "absent" -> IF unsure THEN "box_absence_observed" ELSE "box_absent"
    [] At("delete", "box_absence_observed") /\ ans.state = "absent" -> "box_absent"
    [] At("delete", "waiting_deleted") -> "provider_deleted"
    [] OTHER -> op.cp
Attached == IF inst.box = NoBox THEN ans.box ELSE inst.box
Hopeless == \/ op.cp = "waiting_ready" /\ ans.state \in {"absent", "archived"}
            \/ op.cp = "waiting_archived" /\ ans.state = "absent"
Observe ==
  /\ held /\ ans.of \in {"look", "created", "absent"}
  /\ IF TooEarly THEN Abandons /\ UNCHANGED <<record, history>>
     ELSE /\ inst' = [inst EXCEPT !.box = Attached, !.state = ans.state]
          /\ aged' = IF Proves = "box_absence_observed" /\ Proves # op.cp THEN FALSE ELSE aged
          /\ UNCHANGED unsure
          /\ IF Hopeless THEN Fails("provider") ELSE Goes(Proves) /\ UNCHANGED history
  /\ UNCHANGED <<late, provider, bounds>>
-----------------------------------------------------------------------------
(* Calls that change something at the provider. *)

\* The call each checkpoint makes, once per pass through it.
Calls ==
  IF ans # NoAnswer THEN {}
  ELSE CASE At("start", "creating_box") -> {"create"}
         [] At("start", "box_created") -> {"name"}
         [] At("start", "box_resolved") /\ inst.state = "archived" -> {"resume"}
         [] At("stop", "provider_stop_requested") /\ inst.box # NoBox -> {"stop"}
         [] At("restart_box", "restarting_box") -> {"stop"}
         [] At("delete", "pending") /\ inst.box # NoBox -> {"delete"}
         [] OTHER -> {}

Fresh == {b \in Boxes : boxes[b] = "none"}
Becomes(b, from, to) == boxes' = [boxes EXCEPT ![b] = IF @ \in from THEN to ELSE @]
\* Fault: the create carries the name.
FaultNamed(what, b) == IF what = "create" THEN {Min(Fresh)} ELSE {}
\* The name is given once the id of the new Box is on record.
Named(what, b) == IF what = "name" /\ Exists(b) THEN {b} ELSE {}
\* A call on a Box that is gone changes nothing.
Effect(what, b) ==
  /\ CASE what = "create" -> Fresh # {} /\ Becomes(Min(Fresh), {"none"}, "booting")
       [] what = "resume" -> Becomes(b, {"archived"}, "booting")
       [] what = "stop" -> Becomes(b, {"booting", "ready"}, "archiving")
       [] what = "delete" -> Becomes(b, {"booting", "ready", "archiving", "archived"}, "deleting")
       [] OTHER -> UNCHANGED boxes
  /\ named' = named \cup Named(what, b)
  /\ accepted' = (accepted \/ (what = "delete" /\ Exists(b)))

\* The call arrives and is answered.  A 404 to the DELETE is proof of absence.
Call ==
  /\ held
  /\ \E what \in Calls :
       /\ Effect(what, inst.box)
       /\ posts' = IF what = "create" THEN posts + 1 ELSE posts
       /\ \/ what = "create" /\ Answers("created", Min(Fresh), "unknown")
          \/ what = "delete" /\ ~Exists(inst.box) /\ Answers("absent", NoBox, "absent")
          \/ what = "delete" /\ Exists(inst.box) /\ Goes("provider_delete_requested")
          \/ what \in {"name", "resume", "stop"} /\ Exists(inst.box) /\ Answers(what, inst.box, "none")
  /\ UNCHANGED <<error, late, record, bounds>>

\* Naming ends with a listing that must show the recorded Box.
Proceeds ==
  /\ held
  /\ \/ ans.of = "name" /\ inst.box = Canonical /\ Goes("waiting_ready")
     \/ ans.of = "resume" /\ Goes("waiting_ready")
     \/ Executes /\ At("start", "box_resolved") /\ inst.state # "archived" /\ Goes("waiting_ready")
     \/ At("stop", "provider_stop_requested") /\ (ans.of = "stop" \/ inst.box = NoBox) /\ Goes("waiting_archived")
  /\ UNCHANGED <<late, record, history, provider, bounds>>

\* Inside restarting_box: the Box is archived before it is resumed.
Resume ==
  /\ held /\ At("restart_box", "restarting_box") /\ ans.of = "stop" /\ boxes[inst.box] = "archived"
  /\ Effect("resume", inst.box) /\ Answers("resume", inst.box, "none")
  /\ UNCHANGED <<error, posts, late, record, bounds>>

\* creating_box is refused to an instance that has a Box id.
BeginCreate ==
  /\ Executes /\ At("start", "box_absence_observed")
  /\ IF inst.box = NoBox THEN Goes("creating_box") /\ UNCHANGED history ELSE Fails("refused")
  /\ UNCHANGED <<late, record, provider, bounds>>

\* The create was sent and never answered: the Start is interrupted where it stands.
Interrupts == unsure' = TRUE /\ aged' = FALSE
CreateUnanswered ==
  /\ held /\ "create" \in Calls
  /\ posts' = posts + 1
  /\ \/ Effect("create", NoBox) \/ UNCHANGED <<provider, accepted>>
  /\ Ends /\ Interrupts
  /\ UNCHANGED <<error, inst, late, bounds>>

\* waiting_deleted: one read for a claim, then the operation waits its turn again.
PollDelete ==
  /\ Executes /\ At("delete", "waiting_deleted")
  /\ IF Exists(inst.box) THEN Abandons ELSE Answers("look", NoBox, "absent")
  /\ UNCHANGED <<late, record, history, provider, bounds>>

\* No Box id where one is required, a 404, or a listing without the recorded Box.
Cannot ==
  /\ held
  /\ \/ Executes /\ inst.box = NoBox /\ (At("restart_box", "pending") \/ At("stop", "waiting_archived"))
     \/ Calls \cap {"name", "resume", "stop"} # {} /\ ~Exists(inst.box)
     \/ ans.of = "name" /\ inst.box # Canonical
     \/ At("restart_box", "restarting_box") /\ ans.of = "stop" /\ ~Exists(inst.box)
  /\ Fails("provider")
  /\ UNCHANGED <<late, record, provider, bounds>>
-----------------------------------------------------------------------------
(* Requests, claims and lost leases. *)

\* companion_api_request_operation.  Bound: one operation waits, and a Delete.
Ask ==
  /\ asks < MaxAsks /\ inst.retire = "active"
  /\ \E k \in Kinds : /\ asked = {} \/ k = "delete"
                      /\ asked' = asked \cup {k}
                      /\ inst' = [inst EXCEPT !.retire = IF k = "delete" THEN "requested" ELSE @]
  /\ asks' = asks + 1
  /\ UNCHANGED <<op, held, ans, unsure, aged, late, history, provider, bounds>>

Rank(k) == CASE k = "delete" -> 10 [] k \in {"stop", "restart_box"} -> 20 [] k = "start" -> 45 [] OTHER -> 99
\* A create whose outcome nobody waits for any more.
Creating == At("start", "creating_box")

\* claim_work takes the first kind by rank and supersedes the running one below it.
Claim ==
  /\ ~held
  /\ \E k \in asked :
       /\ Rank(k) < Rank(op.kind)
       /\ \A j \in asked : Rank(k) <= Rank(j)
       /\ op' = [kind |-> k, cp |-> "pending"]
       /\ asked' = IF k = "delete" THEN {} ELSE asked \ {k}
       /\ posts' = IF k = "start" THEN 0 ELSE posts
  /\ held' = TRUE
  /\ IF Creating THEN Interrupts ELSE UNCHANGED <<unsure, aged>>
  /\ UNCHANGED <<ans, asks, inst, accepted, error, late, provider, bounds>>

\* Fault: the takeover of a Start goes on at creating_box.
FaultResumable == TRUE
Resumable == ~Creating
Reclaim ==
  /\ ~held /\ op # NoOp /\ \A j \in asked : Rank(op.kind) <= Rank(j)
  /\ IF Resumable THEN /\ held' = TRUE /\ UNCHANGED <<op, ans, asked, asks, unsure, aged>>
                  ELSE Ends /\ Interrupts
  /\ UNCHANGED <<inst, history, late, provider, bounds>>

\* A lease is lost with a call on its way, or with none.
LoseLease ==
  /\ held /\ losses < MaxLosses /\ losses' = losses + 1
  /\ Abandons
  /\ \/ UNCHANGED <<late, posts>>
     \/ \E what \in Calls : /\ late' = late \cup {[what |-> what, box |-> inst.box]}
                            /\ posts' = IF what = "create" THEN posts + 1 ELSE posts
  /\ UNCHANGED <<record, accepted, error, provider, vanished>>
LandsLate ==
  /\ \E call \in late : Effect(call.what, call.box) /\ late' = late \ {call}
  /\ UNCHANGED <<work, record, posts, error, bounds>>
-----------------------------------------------------------------------------
(* Time and the provider. *)

Ages == ~aged /\ aged' = TRUE /\ UNCHANGED <<work, late, inst, unsure, history, provider, bounds>>
Moves(from, to) == \E b \in Boxes : boxes[b] = from /\ boxes' = [boxes EXCEPT ![b] = to]
Progresses ==
  /\ Moves("booting", "ready") \/ Moves("archiving", "archived") \/ Moves("deleting", "gone")
  /\ UNCHANGED <<work, late, record, history, named, bounds>>
\* The time to live of a Box archives it.
Expires == Moves("ready", "archived") /\ UNCHANGED <<work, late, record, history, named, bounds>>
Vanishes ==
  /\ vanished < MaxVanish /\ vanished' = vanished + 1
  /\ \E b \in Boxes : Exists(b) /\ boxes' = [boxes EXCEPT ![b] = "gone"]
  /\ UNCHANGED <<work, late, record, history, named, losses>>
-----------------------------------------------------------------------------
Executor == Advance \/ Succeeds \/ Look \/ Observe \/ Call \/ Proceeds \/ Resume \/ BeginCreate \/ PollDelete \/ Cannot
Claims == Claim \/ Reclaim
Next == \/ Executor \/ Claims \/ GivesUp \/ CreateUnanswered
        \/ Ask \/ LoseLease \/ LandsLate \/ Ages \/ Progresses \/ Expires \/ Vanishes

Spec == Init /\ [][Next]_vars

\* Some replica claims and goes on, time passes and the provider finishes what it began.
FairSpec == Spec /\ WF_vars(Executor) /\ WF_vars(Claims) /\ WF_vars(Ages) /\ WF_vars(Progresses)
-----------------------------------------------------------------------------
TypeOK ==
  /\ op.kind \in Kinds \cup {"none"} /\ held \in BOOLEAN /\ asked \subseteq Kinds /\ asks \in 0..MaxAsks
  /\ inst.box \in 0..MaxBoxes /\ inst.retire \in {"active", "requested", "retired"}
  /\ boxes \in [Boxes -> {"none", "booting", "ready", "archiving", "archived", "deleting", "gone"}]
  /\ named \subseteq Boxes /\ losses \in 0..MaxLosses /\ vanished \in 0..MaxVanish

\* A Box that carries the Companion's name is the recorded one: none is kept beside
\* it, and none is left when the Companion is retired.
NamedIsRecorded == Listed \subseteq {inst.box}

\* A Start sends one create, whoever takes it over.
OnePostPerStart == posts <= 1

\* A Delete ends: the Companion is retired, or its failure is on record.
DeleteEnds == inst.retire = "requested" ~> (inst.retire = "retired" \/ error # "none")

\* docs/testing.md:209: an accepted deletion survives a takeover and removes the
\* Companion.
AcceptedDeletionRemoves == accepted => error # "box_identity_conflict"
=============================================================================
