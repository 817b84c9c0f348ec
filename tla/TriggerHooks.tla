---------------------------- MODULE TriggerHooks ----------------------------
(***************************************************************************)
(* A webhook trigger of a Companion: its row, the hook a provider keeps    *)
(* for it, and the runs its events open.  apps/api/src/companionRoutes.ts, *)
(* packages/core/src/companionTriggerWebhookRegistration.ts and the SQL of *)
(* 0111_companion_triggers.sql and 0147_companion_trigger_v2_engine.sql.   *)
(*                                                                         *)
(* A request of a member is one transaction.  It lists the trigger without *)
(* a lock to decide whether there is a hook to remove, and changes the row *)
(* and the hooks of the provider under the row's lock, which it holds      *)
(* until it commits: what it did at the provider stays when it does not.   *)
(***************************************************************************)
EXTENDS Integers, FiniteSets

CONSTANTS Members,    \* requests in flight
          Places,     \* targets at the provider: a repository, a project
          Events,     \* deliveries of the provider, by their id
          MaxFailures,  \* failures in a row that disable a trigger (5)
          Mishaps,    \* of "lost" (answer), "refused", "invalid" (edit), "crash", "raise" (enqueue)
          MaxRequests, MaxMishaps

VARIABLES trigger,    \* the row as committed
          lock,       \* the request that holds its lock
          connected,  \* the provider account of the owner
          hooks,      \* the hooks at the provider
          request, event,
          run,        \* run[e]: the turn that event e opened
          recent,     \* the trigger fired in the last 60 seconds
          drawn,      \* names drawn so far: secrets and hook ids
          torn,       \* the row and the hooks came apart: each way is named where it is set
          asked, mishaps

vars == <<trigger, lock, connected, hooks, request, event, run, recent, drawn, torn, asked, mishaps>>

\* 0 stands for NULL.  The URL of a trigger holds its secret, born tells it from another of its id.
NoTrigger == [place |-> "none", bound |-> FALSE, secret |-> 0, born |-> 0, enabled |-> FALSE,
              failures |-> 0, status |-> "manual", hook |-> 0]
\* draft is the row that an edit read, wired what the list said, did that the hooks were changed.
Idle == [op |-> "none", at |-> "idle", draft |-> NoTrigger, wired |-> FALSE, did |-> FALSE, mine |-> NoTrigger]
NoRun == [at |-> "none", born |-> 0, linked |-> FALSE]
Nobody == "nobody"

Init == /\ trigger = NoTrigger /\ lock = Nobody /\ connected \in BOOLEAN /\ hooks = {}
        /\ request = [c \in Members |-> Idle] /\ event = [e \in Events |-> [at |-> "idle", secret |-> 0]]
        /\ run = [e \in Events |-> NoRun] /\ recent = FALSE
        /\ drawn = 0 /\ torn = FALSE /\ asked = 0 /\ mishaps = 0

At(c, at) == request[c].at = at
Mishap(m) == m \in Mishaps /\ mishaps < MaxMishaps /\ mishaps' = mishaps + 1
Asks == asked < MaxRequests /\ asked' = asked + 1
Exists(t) == t.secret # 0
\* What the transaction of c sees, and whether a statement of it that locks the row can go on.
Seen(c) == IF lock = c THEN request[c].mine ELSE trigger
Locks(c) == lock \in {Nobody, c}
\* No lock is on a row that another transaction can see.
Unlocked == lock = Nobody \/ ~Exists(trigger)
outside == <<connected, event, run, recent>>

Goes(c, r) == request' = [request EXCEPT ![c] = r]
\* c goes on with the lock and its own version t of the row.
Holds(c, at, t) == lock' = c /\ Goes(c, [request[c] EXCEPT !.at = at, !.mine = t])
\* withTenantContext rolls back.  What was done at the provider stays done.
RollsBack(c) == /\ lock' = (IF lock = c THEN Nobody ELSE lock) /\ Goes(c, Idle)
                /\ torn' = (torn \/ request[c].did)
-----------------------------------------------------------------------------
(* The requests of the members: POST, PATCH, DELETE, rotate-secret and both  *)
(* of registration.                                                          *)

Ask(c) ==
  /\ At(c, "idle") /\ Asks
  /\ \E op \in {"create", "move", "toggle", "delete", "rotate", "wire", "unwire"}, p \in Places, b \in BOOLEAN :
       LET at == CASE op = "create" -> "apply" [] op = "toggle" -> "draft" [] op = "unwire" -> "unload"
                   [] OTHER -> "list" IN
       Goes(c, [Idle EXCEPT !.op = op, !.at = at, !.draft = [NoTrigger EXCEPT
                  !.place = IF op \in {"create", "move"} THEN p ELSE "none",
                  !.enabled = IF op = "toggle" THEN b ELSE TRUE]])
  /\ UNCHANGED <<trigger, lock, hooks, drawn, torn, mishaps, outside>>

\* Fault: a trigger that is not registered is taken not to have a hook.
FaultIsWired(t) == t.status = "registered"
\* unregisterCompanionTriggerIfWired, on the listed row.
IsWired(t) == t.status = "registered" \/ t.hook # 0
\* The early answer of autoRegisterCompanionTrigger and of registerCompanionTriggerWebhookV2.
IsRegistered(t) == t.status = "registered" /\ t.hook # 0
\* Where a request goes once its trigger has no hook.
Unwired(op) == CASE op = "move" -> "draft" [] op = "unwire" -> "commit" [] OTHER -> "apply"

\* listCompanionTriggersV2: committed rows, and no lock.
List(c) ==
  LET op == request[c].op
      at == CASE op = "wire" /\ (~Exists(trigger) \/ IsRegistered(trigger)) -> "idle"
              [] op = "wire" -> "load"
              [] IsWired(trigger) -> "unload"
              [] OTHER -> Unwired(op) IN
  /\ At(c, "list")
  /\ Goes(c, IF at = "idle" THEN Idle
             ELSE [request[c] EXCEPT !.at = at, !.wired = trigger.status = "registered" \/ trigger.hook # 0])
  /\ UNCHANGED <<trigger, lock, hooks, drawn, torn, asked, mishaps, outside>>

\* unregisterCompanionTriggerWebhookV2: get_trigger_for_registration, then the account.
Unload(c) ==
  LET t == Seen(c) IN
  /\ At(c, "unload") /\ Locks(c)
  /\ \/ Exists(t) /\ t.hook = 0 /\ Holds(c, Unwired(request[c].op), [t EXCEPT !.status = "unregistered"])
        /\ UNCHANGED torn
     \/ Exists(t) /\ t.hook # 0 /\ connected /\ Holds(c, "remove", t) /\ UNCHANGED torn
     \/ (~Exists(t) \/ (t.hook # 0 /\ ~connected)) /\ RollsBack(c)
  /\ UNCHANGED <<trigger, hooks, drawn, asked, mishaps, outside>>

\* DELETE of the hook; 404 is success.  A refusal or a lost answer fails the request.
Remove(c) ==
  LET r == request[c]
      left == {h \in hooks : h.id # r.mine.hook \/ h.place # r.mine.place} IN
  /\ At(c, "remove")
  /\ \/ /\ hooks' = left
        /\ Goes(c, [r EXCEPT !.at = Unwired(r.op), !.did = TRUE, !.mine.status = "unregistered", !.mine.hook = 0])
        /\ UNCHANGED <<lock, torn, mishaps>>
     \/ Mishap("refused") /\ UNCHANGED hooks /\ RollsBack(c)
     \* Torn: the hook is gone and the row keeps it, registered.
     \/ Mishap("lost") /\ hooks' = left /\ torn' = TRUE /\ lock' = Nobody /\ Goes(c, Idle)
  /\ UNCHANGED <<trigger, drawn, asked, outside>>

\* updateCompanionTriggerV2 lists again, and writes back every field that the request leaves out.
Draft(c) ==
  LET r == request[c]
      t == Seen(c) IN
  /\ At(c, "draft")
  /\ IF Exists(t)
       THEN /\ UNCHANGED <<lock, torn>>
            /\ Goes(c, [r EXCEPT !.at = "apply", !.draft.bound = t.bound,
                          !.draft.place = IF r.op = "move" THEN @ ELSE t.place,
                          !.draft.enabled = IF r.op = "move" THEN t.enabled ELSE @])
       ELSE RollsBack(c)
  /\ UNCHANGED <<trigger, hooks, drawn, asked, mishaps, outside>>

\* autoRegisterCompanionTrigger on the row that the request wrote.
Registering(t) == IF IsRegistered(t) THEN "commit" ELSE "load"
\* Torn: a hook that the list did not show is forgotten, or keeps the URL of an old secret.
Crosses(c) == ~request[c].wired /\ Seen(c).hook # 0

\* companion_api_create_trigger: without an account in the request, the one that is connected.
Create(c) ==
  LET r == request[c]
      t == Seen(c)
      new == [NoTrigger EXCEPT !.place = r.draft.place, !.bound = connected, !.secret = drawn + 1,
                               !.born = drawn + 1, !.enabled = TRUE] IN
  /\ At(c, "apply") /\ r.op = "create" /\ Locks(c)
  /\ \/ ~Exists(t) /\ Holds(c, "load", new) /\ drawn' = drawn + 1 /\ UNCHANGED torn
     \/ /\ Exists(t) /\ t.place = new.place /\ t.bound = new.bound /\ t.enabled
        /\ Holds(c, Registering(t), t) /\ UNCHANGED <<drawn, torn>>
     \/ /\ Exists(t) /\ (t.place # new.place \/ t.bound # new.bound \/ ~t.enabled)
        /\ RollsBack(c) /\ UNCHANGED drawn
  /\ UNCHANGED <<trigger, hooks, asked, mishaps, outside>>

\* companion_api_update_trigger: a definition that changed has no hook yet.
Updated(t, d) ==
  LET same == t.place = d.place /\ t.bound = (d.bound \/ connected) IN
  [t EXCEPT !.place = d.place, !.bound = d.bound \/ connected, !.enabled = d.enabled, !.failures = 0,
            !.hook = IF same THEN @ ELSE 0, !.status = IF same THEN @ ELSE "unregistered"]
Update(c) ==
  LET r == request[c]
      t == Seen(c)
      new == Updated(t, r.draft) IN
  /\ At(c, "apply") /\ r.op \in {"move", "toggle"} /\ Locks(c)
  /\ \/ /\ Exists(t) /\ (r.draft.bound => connected) /\ Holds(c, Registering(new), new)
        /\ torn' = (torn \/ (Crosses(c) /\ new.hook = 0)) /\ UNCHANGED mishaps
     \/ (~Exists(t) \/ (r.draft.bound /\ ~connected)) /\ RollsBack(c) /\ UNCHANGED mishaps
     \* The account is not the member's, or the target does not suit the provider.
     \/ Mishap("invalid") /\ RollsBack(c)
  /\ UNCHANGED <<trigger, hooks, drawn, asked, outside>>

\* companion_api_rotate_trigger_secret.
Rotate(c) ==
  LET t == [Seen(c) EXCEPT !.secret = drawn + 1] IN
  /\ At(c, "apply") /\ request[c].op = "rotate" /\ Locks(c)
  /\ IF Exists(Seen(c)) THEN /\ Holds(c, Registering(t), t) /\ drawn' = drawn + 1
                             /\ torn' = (torn \/ Crosses(c))
                        ELSE RollsBack(c) /\ UNCHANGED drawn
  /\ UNCHANGED <<trigger, hooks, asked, mishaps, outside>>

\* companion_api_delete_trigger.
Delete(c) ==
  /\ At(c, "apply") /\ request[c].op = "delete" /\ Locks(c)
  /\ IF Exists(Seen(c)) THEN Holds(c, "commit", NoTrigger) /\ torn' = (torn \/ Crosses(c)) ELSE RollsBack(c)
  /\ UNCHANGED <<trigger, hooks, drawn, asked, mishaps, outside>>
-----------------------------------------------------------------------------
(* registerCompanionTriggerWebhookV2, for a GitHub trigger.                  *)

Registers(c, h) == Goes(c, [request[c] EXCEPT !.at = "commit", !.mine.status = "registered", !.mine.hook = h])
\* persistRegistration of a failure keeps the hook that the row knows.
FailsToRegister(c) == Goes(c, [request[c] EXCEPT !.at = "commit", !.mine.status = "failed"])

Load(c) ==
  LET t == Seen(c) IN
  /\ At(c, "load") /\ Locks(c)
  /\ \/ ~Exists(t) /\ RollsBack(c)
     \/ Exists(t) /\ IsRegistered(t) /\ Holds(c, "commit", t) /\ UNCHANGED torn
     \/ Exists(t) /\ ~IsRegistered(t) /\ connected /\ Holds(c, "find", t) /\ UNCHANGED torn
     \* Torn: without an account the row forgets its hook.
     \/ /\ Exists(t) /\ ~IsRegistered(t) /\ ~connected
        /\ Holds(c, "commit", [t EXCEPT !.status = "failed", !.hook = 0]) /\ torn' = (torn \/ t.hook # 0)
  /\ UNCHANGED <<trigger, hooks, drawn, asked, mishaps, outside>>

\* Fault: the hooks are not looked through for the URL, the one the row knows is looked up.
FaultHooksOf(t) == {h \in hooks : h.id = t.hook /\ h.place = t.place /\ h.secret = t.secret}
\* findGitHubWebhook: the hooks of the target with the URL of the trigger.
HooksOf(t) == {h \in hooks : h.place = t.place /\ h.secret = t.secret}
Find(c) ==
  /\ At(c, "find")
  /\ \/ \E h \in HooksOf(request[c].mine) : Registers(c, h.id) /\ UNCHANGED mishaps
     \/ HooksOf(request[c].mine) = {} /\ Goes(c, [request[c] EXCEPT !.at = "post"]) /\ UNCHANGED mishaps
     \/ Mishap("lost") /\ FailsToRegister(c)
  /\ UNCHANGED <<trigger, lock, hooks, drawn, torn, asked, outside>>

Post(c) ==
  LET r == request[c]
      new == [id |-> drawn + 1, place |-> r.mine.place, secret |-> r.mine.secret] IN
  /\ At(c, "post")
  /\ \/ hooks' = hooks \union {new} /\ drawn' = drawn + 1 /\ UNCHANGED mishaps
        /\ Goes(c, [r EXCEPT !.at = "commit", !.did = TRUE, !.mine.status = "registered", !.mine.hook = new.id])
     \/ Mishap("lost") /\ hooks' = hooks \union {new} /\ drawn' = drawn + 1
        /\ Goes(c, [r EXCEPT !.at = "recover", !.did = TRUE])
     \/ Mishap("refused") /\ UNCHANGED <<hooks, drawn>> /\ Goes(c, [r EXCEPT !.at = "recover"])
  /\ UNCHANGED <<trigger, lock, torn, asked, outside>>

\* recoverGitHubRegistration: the hook may have been made all the same.
Recover(c) ==
  /\ At(c, "recover")
  /\ \/ \E h \in HooksOf(request[c].mine) : Registers(c, h.id) /\ UNCHANGED <<torn, mishaps>>
     \/ HooksOf(request[c].mine) = {} /\ FailsToRegister(c) /\ UNCHANGED <<torn, mishaps>>
     \* Torn: there may be a hook that the row does not know.
     \/ Mishap("lost") /\ FailsToRegister(c) /\ torn' = (torn \/ request[c].did)
  /\ UNCHANGED <<trigger, lock, hooks, drawn, asked, outside>>

\* The turns of a trigger that is deleted lose their link (ON DELETE SET NULL).
Commit(c) ==
  LET t == request[c].mine IN
  /\ At(c, "commit") /\ trigger' = t /\ lock' = Nobody /\ Goes(c, Idle)
  /\ run' = IF Exists(t) THEN run ELSE [e \in Events |-> [run[e] EXCEPT !.linked = FALSE]]
  /\ recent' = (recent /\ Exists(t))
  /\ UNCHANGED <<connected, hooks, event, drawn, torn, asked, mishaps>>

Crash(c) == /\ ~At(c, "idle") /\ Mishap("crash") /\ RollsBack(c)
            /\ UNCHANGED <<trigger, hooks, drawn, asked, outside>>
-----------------------------------------------------------------------------
(* The provider account, which degrades the triggers it is the account of.   *)

Degraded(t) == IF Exists(t) /\ t.bound /\ t.status # "manual" THEN [t EXCEPT !.status = "unregistered"] ELSE t
\* A row that is not committed is not degraded, and one of another account is not waited for.
Disconnect == /\ connected /\ Asks /\ (trigger.bound => Unlocked)
              /\ connected' = FALSE /\ trigger' = Degraded(trigger)
              /\ UNCHANGED <<lock, hooks, request, event, run, recent, drawn, torn, mishaps>>
Connect == /\ ~connected /\ Asks /\ connected' = TRUE
           /\ UNCHANGED <<trigger, lock, hooks, request, event, run, recent, drawn, torn, mishaps>>
-----------------------------------------------------------------------------
(* POST /v1/hooks/triggers/:triggerId/:secret, and the runs it opens.        *)

Comes(e, at) == event' = [event EXCEPT ![e].at = at]
inside == <<lock, connected, hooks, request, drawn, torn, asked>>

\* The provider delivers an event, or delivers it again.
Send(e) == /\ event[e].at = "idle"
           /\ \E h \in hooks : /\ event[e].secret \in {0, h.secret}
                               /\ event' = [event EXCEPT ![e] = [at |-> "check", secret |-> h.secret]]
           /\ UNCHANGED <<trigger, run, recent, mishaps, inside>>

\* companion_webhook_get_trigger reads the secret without a lock.
Check(e) == /\ event[e].at = "check"
            /\ Comes(e, IF Exists(trigger) /\ event[e].secret = trigger.secret THEN "fire" ELSE "idle")
            /\ UNCHANGED <<trigger, run, recent, mishaps, inside>>

\* companion_api_fire_trigger, for an event that opened no turn yet.
Due == /\ trigger.enabled /\ trigger.status = "registered" /\ trigger.bound /\ connected /\ ~recent
       /\ ~\E e \in Events : run[e].linked /\ run[e].at = "open"
Fire(e) ==
  /\ event[e].at = "fire" /\ Unlocked
  /\ \/ (~Exists(trigger) \/ run[e] # NoRun \/ ~Due) /\ Comes(e, "idle") /\ UNCHANGED <<run, recent, mishaps>>
     \/ /\ Exists(trigger) /\ run[e] = NoRun /\ Due /\ Comes(e, "idle") /\ recent' = TRUE /\ UNCHANGED mishaps
        /\ run' = [run EXCEPT ![e] = [at |-> "open", born |-> trigger.born, linked |-> TRUE]]
     \/ Exists(trigger) /\ Mishap("raise") /\ Comes(e, "fail") /\ UNCHANGED <<run, recent>>
  /\ UNCHANGED <<trigger, inside>>

\* Fault: the failure that reaches the limit is counted and disables nothing.
FaultFailed(t) == [t EXCEPT !.failures = @ + 1, !.enabled = @ /\ t.failures < MaxFailures]
Failed(t) == [t EXCEPT !.failures = @ + 1, !.enabled = @ /\ t.failures + 1 < MaxFailures]
\* companion_api_fail_trigger_fire, a transaction of its own.
FailFire(e) == /\ event[e].at = "fail" /\ Unlocked /\ Comes(e, "idle")
               /\ trigger' = IF Exists(trigger) THEN Failed(trigger) ELSE trigger
               /\ UNCHANGED <<run, recent, mishaps, inside>>

\* companion_record_trigger_run_outcome matches id and creation.
IsOf(e) == Exists(trigger) /\ trigger.born = run[e].born
Ends(e, at) == run[e].at = "open" /\ run' = [run EXCEPT ![e].at = at]
RunSucceeds(e) == /\ Ends(e, "over") /\ (IsOf(e) => lock = Nobody)
                  /\ trigger' = IF IsOf(e) THEN [trigger EXCEPT !.failures = 0] ELSE trigger
                  /\ UNCHANGED <<event, recent, mishaps, inside>>
RunFails(e) == /\ Ends(e, "over") /\ (IsOf(e) => lock = Nobody)
               /\ trigger' = IF IsOf(e) THEN Failed(trigger) ELSE trigger
               /\ UNCHANGED <<event, recent, mishaps, inside>>
\* An interrupted run may be retried by a member, which opens it again.
RunStops(e) == /\ \/ Ends(e, "over") \/ Ends(e, "interrupted")
                  \/ run[e].at = "interrupted" /\ run' = [run EXCEPT ![e].at = "open"]
               /\ UNCHANGED <<trigger, event, recent, mishaps, inside>>
MinutePasses == recent /\ recent' = FALSE /\ UNCHANGED <<trigger, event, run, mishaps, inside>>
-----------------------------------------------------------------------------
Request(c) == \/ Ask(c) \/ List(c) \/ Unload(c) \/ Remove(c) \/ Draft(c)
              \/ Create(c) \/ Update(c) \/ Rotate(c) \/ Delete(c)
              \/ Load(c) \/ Find(c) \/ Post(c) \/ Recover(c) \/ Commit(c) \/ Crash(c)
Event(e) == Send(e) \/ Check(e) \/ Fire(e) \/ FailFire(e) \/ RunSucceeds(e) \/ RunFails(e) \/ RunStops(e)
Next == (\E c \in Members : Request(c)) \/ (\E e \in Events : Event(e)) \/ Disconnect \/ Connect \/ MinutePasses
Spec == Init /\ [][Next]_vars
-----------------------------------------------------------------------------
TypeOK ==
  /\ trigger \in [place : Places \union {"none"}, bound : BOOLEAN, secret : 0..drawn, born : 0..drawn,
                  enabled : BOOLEAN, failures : Nat, status : {"manual", "unregistered", "registered", "failed"},
                  hook : 0..drawn]
  /\ lock \in Members \union {Nobody} /\ connected \in BOOLEAN
  /\ hooks \subseteq [id : 1..drawn, place : Places, secret : 1..drawn]

\* The provider keeps one hook for a URL, so that an event opens one run: a registration that
\* is repeated, after whatever went wrong with the last one, finds the hook there is.
OneHookPerUrl == \A g, h \in hooks : g.place = h.place /\ g.secret = h.secret => g = h

\* The hooks at the provider are the one that the row remembers, with its target and secret,
\* and there is none for a trigger that is deleted, unless they came apart in a way named above.
HooksAreRemembered == lock = Nobody /\ ~torn =>
  hooks = IF trigger.hook = 0 THEN {}
          ELSE {[id |-> trigger.hook, place |-> trigger.place, secret |-> trigger.secret]}

\* A trigger that failed MaxFailures times in a row is disabled, unless it was edited since.
FailuresDisable == trigger.failures >= MaxFailures => ~trigger.enabled

\* A deleted or changed trigger leaves no hook behind.  Does not hold: a request that lists
\* the trigger before another registers it does not remove the hook.
EditsRemoveHooks == lock = Nobody => \A h \in hooks : h.place = trigger.place /\ h.secret = trigger.secret

\* A registered trigger has a hook with its URL.  Does not hold: a rotation that crosses a
\* registration, or an edit that fails after it removed the hook, leaves it registered without.
RegisteredHasHook == lock = Nobody /\ trigger.status = "registered" => HooksOf(trigger) # {}

\* A registered trigger fires while its account is connected.  Does not hold: one created when
\* no account was connected is registered without an account of its own.
RegisteredIsBound == lock = Nobody /\ trigger.status = "registered" => trigger.bound
=============================================================================
