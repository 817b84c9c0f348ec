# Companion: TLA+ specifications, model checks and proofs

This directory specifies the server side of Companion. Most of it is the *Companions
Runtime v2*: the part that takes a message, gives it to a coding agent (Pi) that lives in a cloud Box,
and brings what the agent says back into a durable conversation. It is the part of
the product where several processes, two databases' worth of state (PostgreSQL and
the Box) and an unreliable network have to agree, and where a mistake shows as a
prompt run twice, a turn that waits for ever, or a routine running in a Box that is
being deleted. The rest is what the product does to a workspace's skills where several processes and
a store outside PostgreSQL meet: their mirror in a GitHub repository, their publication, their databases.

Everything is translated from the code: the SECURITY DEFINER functions of
`packages/db/drizzle/*.sql` (the *last* definition of each function counts; a
migration often patches an earlier body by text replacement), the TypeScript of
`packages/companion-runtime`, `apps/runtime`, `packages/box-runtime`, `apps/worker`, `apps/api`,
`packages/core`, `packages/github` and `packages/skilldb`.
`PROJECT.json` maps every definition to its lines; `docs/companions-runtime.md` and
the comments were used to learn what the code is *meant* to do, never as the model.

Contents: [inventory](#1-inventory) - [modules](#2-modules-and-the-code-they-model) -
[runs](#3-runs-what-each-one-checks) - [disagreements found](#4-where-the-code-and-its-documents-disagree) -
[fairness](#5-fairness-and-why-the-code-justifies-it) - [proofs](#6-what-is-proved) -
[limits](#7-what-is-only-model-checked-and-what-is-not-modelled) - [plan](#8-plan).

## 1. Inventory

### Components

| Component | State it keeps | Operations | Talks to |
| --- | --- | --- | --- |
| Gate (`companion_runtime_control`) | `enabled`, `gate_epoch` | `runtime_enable`, `runtime_disable` | every fenced function reads it |
| Leases (`companion_runtime_leases`, one row per lane `main`/`routine`) | token, executor, work, `claim_epoch`, `gate_epoch`, `expires_at` | `claim_work`, `renew_and_authorize`, `checkpoint`, `settle`, `defer_delete`, `release_lease` | executors by token and epoch |
| Turns and attempts | status, queue sequence, checkpoint, dispatch state, deadlines, cancel request | enqueue, cancel, retry, project, settle | API, claim, executors |
| Operations (start, stop, restart_pi, restart_box, apply_settings, delete) | status, checkpoint, source turn, queue cutoff | enqueue, preempt, hand off, settle | API, claim, triggers |
| Decisions (questions Pi asks) | decision status, delivery state, command id, expiry | project, answer, expire, deliver, close | attempt that asked |
| Instance | Box id and state, Pi state and invocation, settings revisions, retirement, `last_write_epoch` | observe, adopt, retire | executors |
| `RuntimeScheduler` (one per replica) | active fences, wake flag, gate edge, slots | sweep, execute, release, stop claims, shutdown | store, engine |
| `RuntimeEngine` | `#sessions` by work id | execute, handoffActive, interruptActive | `LeaseSession`, handlers |
| `LeaseSession` (one per execution) | fence, denial, handoff, shutdown, promise chain, renewal timer, runway | every fenced call, `external`, `fencedLookup` | store |
| Attempt handler | cursor, invocation, checkpoint | dispatch, resolve, read, project, ack | transport, store |
| Direct Box transport | resend deadline | prompt, resolve | Box agent over HTTP |
| Pi broker (in the Box) | active attempt, dispatch ledger, journal, acknowledged cursor, invocation | prompt, abort, events, ack, lookup | Pi over a pipe |
| Journal of the broker | segment files, acknowledged cursor, tail, invocation | append, rotate, read a page, acknowledge, delete segments, recover | the broker's process and one reader |
| Lifecycle operations | checkpoint of the operation, Box id, create intent, retirement | start, stop, restart Box, delete; claim, takeover, supersession | provider of Boxes |
| Activation of Pi | staged files and credentials, systemd unit, proven invocation, applied revision | stage, publish, restart, poll; settings and health work | Box agent |
| Image registry and build workers | image row with claim epoch, Box pointer and DELETE marks | request, claim, bake, delete, complete, fail | Box provider |
| Routines | row with next instant, claim and failures; their turns | create, update, approve, delete, claim, fire, fail | worker, turns |
| Push notifications | installations, deliveries with claim tokens | register, sign out, notify, mute, claim, send, settle | APNs |
| Webhook triggers | row with target, secret, registration and failures; the hook at the provider; the runs | create, edit, rotate, delete, register, unwire, deliver, fire | API, provider, turns |
| OAuth connections | account row with credential version; token cache in each Box | issue, refresh, retry after 401 | API, OAuth provider |
| GitHub mirror | destination row with desired and applied revision, lease and last commit; the connection | request, disconnect, claim, plan, prepare, lock, publish, record, fail | skills, workers, GitHub (and the repository's owners) |
| Skills | `skills` and `skill_versions` rows, archives under (slug, version) | publish, release, withdraw, rename, archive, restore | API, object storage |
| Skill databases | declaration, realm, grants; one SQLite image per realm; deletion queue | declare, grant, statement, realm end, sweep | API, workers, object storage |

Around it: material staging, and then the rest of the product (installation and
labels of skills, billing, secrets, accounts, clients). `PROJECT.json`
`components` lists all of them with what is modelled and why the rest is not.

### How the parts interact

1. The API files rows (turns, operations, answers). It takes no lease: a cancel may
   close a row under the executor that holds it.
2. Each replica's scheduler sweeps: it reads the gate, counts its free slots, calls
   `claim_work`. One call, one transaction: it repairs and settles what cannot be
   resumed, files the Start a cold turn needs, preempts, and grants at most one piece
   of work per lane.
3. The engine runs a handler per claim. Each database call repeats the fence
   (token, epoch, gate epoch, expiry); each external effect is bracketed by a renewal
   and by checkpoints: intent before, proof after.
4. The attempt handler writes `dispatch_write_intent`, sends the prompt to the broker,
   records its acceptance, then reads the broker's journal page by page: project into
   the conversation, then acknowledge.
5. A replica may die, lose its lease or be told to hand over at any await. Another one
   claims the row when the lease is over, and has only the row to go by.
6. A lifecycle operation is a walk over checkpoints, each written after what it says has been
   seen at the provider. A Pi daemon is *proven* when the database holds the invocation that
   was started with the credentials staged last; turns go only to a proven one.
7. Workers beside the runtime (images, routines, notifications, GitHub, deletions of images) claim rows with an expiring
   lease and a token or a worker name, do something outside, and report.
8. A mutation of a skill asks the mirrors for another synchronization in its own transaction. A
   publication stores its archive before the transaction of its rows and takes it back if that fails; a
   statement on a skill database reads and writes the image inside its transaction.

### What is hard

* **An effect whose outcome is unknown.** A prompt, an answer, a Box creation or a
  DELETE may have happened although nobody heard so. The rule everywhere is: intent
  durable before the effect, and whoever finds an intent without proof may look but
  not repeat.
* **Two lanes, one Box.** Routine turns have a lease of their own; starts, stops,
  restarts and deletes hold the main lane's. Exclusion is done by predicates over rows
  (`routine_lane_quiescent`) rather than by a lock.
* **Late calls.** An executor that lost its lease keeps running until a call tells it.
* **Rows changed by triggers and by text-patched functions**, with an order inside one
  claim call that no test states.
* **Awaits in the replica.** Slots are counted before an await and used after it; a
  session keeps a timer, a promise chain and an effect alive at once.
* **Calls that land late.** A command a lost executor sent to a Box, or a create or DELETE it
  sent to the provider, may run after its successor has acted.
* **Files and processes that die in between.** The broker can be killed between two writes
  of one append, acknowledgement or retention; systemd restarts the daemon without telling.
* **Two stores, one fact.** A row in PostgreSQL and an object (or a branch, or a hook) outside are changed by two
  operations, and either may fail, or land late, without the other.
* **Claims known by name.** Where a worker's report carries no epoch, a report for an old claim
  may be taken for the new one.
* **Things that must end**: turns, executions that lost their lease, image requests, deletes,
  settings work, due instants.

`PROJECT.json` `hazards` lists them one by one, at the line where each bites, with the
properties that cover it or the reason none does.

### What makes each component correct

Leases: an epoch names one grant, a dead claim stays dead, the gate owns every lease,
work with an unproven effect is not granted again. Queue: a prompt and an answer
reach Pi once unless the user asks again; settled is settled; every turn settles; box
work and routines exclude each other; a running delete is alone. Replica: never over
its concurrency, no lease held by nobody but those given up knowingly, no missed completion. Session: outcomes
are durable, the heartbeat does not die silently, a handoff settles nothing.
Dispatch: one run per prompt, nothing of another turn projected, nothing acknowledged
before it is durable. Journal: a durable log, whatever instant the process dies at. Box: one
create per Start, no Box beside the recorded one, a delete ends. Activation: a proven daemon
runs the live credentials and no older settings than the applied ones, and changed settings
are applied in the end. Images: one DELETE per Box, no pointer dropped early, every request is
answered. Routines: no queued run of a definition that is gone unless a Retry put it back, due instants move on. Triggers: one hook for a URL, known to
its row, and an end to those that keep failing.
Notifications: nothing to another account's phone. OAuth: a retry carries a newer token, and
concurrent refreshes do not end a grant. Mirror: what it calls synced is the catalogue, folders of
the repository's owners stay, the branch converges. Skills: a version keeps its archive, what is public
has the name it was published under, creations do not pass the quota. Databases: an answered write
stays, files have the columns declared, a statement keeps its grant or is refused, images of removed realms go.

## 2. Modules and the code they model

Actions are atomic where the code is: one SQL function call (its row locks make it
so), or the JavaScript between two awaits. Each module's header says which.
The modules form layers: each keeps of the layer below only what it can tell apart.

| Module | Models | Layer below, as it appears |
| --- | --- | --- |
| `FencedLease` | *what* a lease promises: growing epochs, one owner per lane, only the last acquirer of a row writes to it | - |
| `RuntimeLease` | the SQL lease protocol of one Companion, two lanes | implements `FencedLease` (`ImplementsFencedLease`) |
| `CompanionRuntime` | turns, operations, decisions, claim order, preemption, triggers | a lease is the work it is granted for; losing it is one step |
| `RuntimeReplica` | scheduler and engine of one replica | a lease row is its owner and an epoch |
| `LeaseSession` | one execution: session, heartbeat, engine | the database is what one fence can observe |
| `PromptDispatch` | attempts, transport, broker, journal, Pi | an attempt has an owner; the fence is `Mine` |
| `DurableLog` | *what* the journal promises: numbered records, kept until their reader releases them | - |
| `PiJournal` | segment files, cursor file, broker process, one consuming attempt | implements `DurableLog` (`ImplementsDurableLog`) |
| `BoxLifecycle` | start, stop, restart Box and delete by their checkpoints, and the provider | one executor at a time; a lost one leaves a late call |
| `PiActivation` | staging, publication, restart and proof of the daemon; settings and health work | the same |
| `ImageRegistry` | image row, build workers, provider | - |
| `RoutineSchedule` | a routine's row, its workers, its member, its turns | a turn is its status |
| `TriggerHooks` | a trigger's row, the requests that change it, the hooks of the provider, deliveries and runs | a turn is its status |
| `NotificationOutbox` | installations, deliveries, senders, phones | - |
| `TokenRefresh` | gateways of several Boxes, the API's transactions, the account row, the provider | - |
| `GitHubSync` | one destination, one skill, several workers, the branch and its owners | the catalogue is the skill's version |
| `SkillPublish` | requests that publish, release and rename skills; rows and archives | an archive is the publication it came from |
| `SkillDatabase` | declaration, one realm, grants, statements, sweepers of deletions | a write is the statement it came from |
| `MC*` | instances for TLC | - |
| `RuntimeLeaseProofs` | the theorems about one lease and one row of `RuntimeLease`, the exclusion of the lanes, and that it implements `FencedLease` | - |
| `CompanionRuntimeProofs` | the theorems about the queue (types, lanes, questions, what has ended, the prompt written once), about triggers and their hooks, and about the prompts of `MCTurns` | - |
| `EngineProofs` | the theorems about the slots and leases of a replica, and about an engine of a replica and its sessions | - |
| `LeaseSessionProofs` | the theorems about one execution: what it reports, gives up and may start | - |
| `PromptDispatchProofs` | the theorems about dispatch: who sent what, each prompt run once, what is shown of it | - |
| `BoxProofs` | the theorems about one Box: one create for a Start, the proven daemon is current, the journal survives and implements `DurableLog` | - |
| `WorkersProofs` | the theorems about what background processes claim: baker Boxes, routines, notifications, access tokens | - |
| `SkillsProofs` | the theorems about skill databases, publications and the GitHub mirror | - |

**RuntimeLease.** `gate`, `lease[l]`, `lastWrite` and `row[w]` are the columns the
fence reads; `grants` is history: every claim any executor was ever given, so that
`ExecutorCall(c)` lets *any* of them call at *any* time, late or twice. `Claim`,
`FenceUnproven`, `RefuseRevoked` and `ReconcileStart` are the four ways `claim_work`
deals with a row; `Selected`/`Eligible`/`Rank` are its selection. `Checkpoint` is a
compare-and-set on `checkpoint_sequence`; `risky` says the row records an effect whose
outcome only an answer proves. `claim_token` (a fresh UUID per grant) is left out: the
modelled fence is weaker than the code's.

**CompanionRuntime.** A turn and its current attempt are one record, since every
statement that ends one ends the other; `dispatching` is folded into `starting`.
A settled operation leaves its slot. `Base` is the state a claim call works on, after
`Reconciled` and `Prepared` (the trigger side effects that run first), so each
`Claim*` action contains the whole call. `Request`, `Enqueue`, `Answer`, `Cancel`,
`Retry`, `DropRoutineTurn` are the API; `Dispatch`, `Project`, `Deliver`, `Boot`,
`OperationDone`, ... the executors' checkpoints with the external call they bracket.
`box` is `fresh`, `stale` or `archived`, which is all the queue asks of it.

**RuntimeReplica.** `loop` is the program counter of `#runLoop`/`sweepOnce`; `active`,
`wake`, `cut`, `interrupted`, `accepting` are the private fields; `sessions` is keyed
by work id exactly as in the engine, `exec` by fence; a batch registers the sessions of its own epochs, whatever
was granted since. A claim's or release's answer may
be lost (`"reply"`), leases may expire under a live execution (`"expiry"`). `Doubt` is a session that stops
because a call failed for good, or because the database declined it past a deadline (`"deadline"`), although its lease
may still be held: the execution ends without settling or releasing (engine.ts:146-174) and the row lies until it
expires. Only a shutdown is settled after a failed renewal (`MaySettle`).

**LeaseSession.** `tail` is the promise chain, `phase` the state of its first call;
time is counted in retry periods. `Execute` makes the database act, `Receive` delivers the answer, `Fail`
loses either. `Handle` is what the engine's handler does next, `Cleanup` the abort of
an attempt, `FireTimer` the heartbeat.

**PromptDispatch.** `exec[e].at` follows `handleAttempt` from claim to settlement;
`net` holds prompts on their way (late, lost and resent ones included); the broker
answers one command at a time, keeps its `ledger` per invocation and forgets it when the
daemon restarts; `journal` records carry the attempt and invocation they were written
for. Mishaps: `lease` (it expires anywhere), `net` (prompts and answers lost or late),
`ack` (Pi's answer lost), `ledger` (the acceptance cannot be written), `exit` (Pi or its
daemon dies, with or without a record).

**PiJournal.** `files` is the list of segments with their first number, records and a flag for
a line cut by a death; `ackFile` the cursor on disk; `broker` the fields of
`SegmentedCompanionPiJournal`, lost with the process. The file work of a call is synchronous, so
a call is one action and its `...Cut` twin is a death at any of its writes, with every
file it may leave. `Cleaned` and `Accepted` are `recoverTrailingFragment` and the three
refusals of `#recoverSegments`. `reader` is the attempt that consumes: `Prompted`
takes the cursor of the prompt's answer, `Reads` projects a page and acknowledges it.

**BoxLifecycle.** `op` is the running operation's kind and checkpoint, `ans` what its
executor has read or done since its last write, `boxes`/`named` the provider. `Advance` holds the
transitions that ask nobody, `Look`, `Observe` and `Call` the ones that do; each of those may be
answered, refused, or lose its answer. PostgreSQL refuses the writes of a lost executor, so one
executor is modelled at a time and `late` keeps the calls it had sent; `LandsLate` lets them
reach the provider at any later step. `Interrupts`/`Reclaim` are what `claim_work` does with a Start at
`creating_box`, whose outcome nobody knows, `Ask` is `companion_api_enqueue_operation`.

**PiActivation.** `files` are the revision on disk and the staged and tmpfs credentials, `pi` the
daemon with the token and revision it was started with, `row` the instance. `Mint`,
`Write`, `Record`, `Restart`, `Publish` are the steps between two writes of the executor; the same
steps serve Start, Restart Box, Restart Pi and settings work, with the tails of `Tails`. `HealthLook`,
`HealthRecycle` and `HealthObserve` are health work. `DaemonEnds` is the unit that ends, or that
systemd restarts under a new invocation.

**ImageRegistry.** One row, several workers, the provider's Boxes; writes are fenced by
the claim epoch only, so a worker whose lease expired goes on until a write is refused.

**RoutineSchedule.** An instant is the n-th the routine was given, `by` the schedule it was
computed from; `due` and `late` are what the clock says of it. `Claim`, `Fire`, `Fail` are the worker's
three calls, `OpenUpdate`/`Update` the read and the write of a member's change, which are two
statements, `Approve` an accepted proposal. `turns` carries what the accounting and
cancellation triggers read: status and generation. `RunStops` is a run cancelled or interrupted, and `Retry` the way back
of an interrupted one: the request and the hand-off that requeues it, of which neither reads the routine; `stray` is history,
that the routine was gone by then.

**TriggerHooks.** `request[c]` is a request in its transaction, `draft` and `mine` what it read and what it wrote
but has not committed, `lock` the holder of the row. `List` is the read without a lock that decides what there is to
remove, `Unload`/`Remove` the removal of a hook, `Create`, `Update`, `Rotate`, `Delete` the row's functions, and `Load`
to `Recover` a registration; `Commit` publishes `mine`, while `RollsBack` leaves at the provider what was done there. The
URL of a hook holds the `secret` of its trigger. `torn` is history: that the row and the hooks came apart in one of the
ways that are named where it is set, so that `HooksAreRemembered` says there is no other. A delivery is `Send`, `Check`
and `Fire` or `FailFire`, each a transaction. An approved proposal creates a trigger by the same function as a POST.

**NotificationOutbox.** `jobs` are claims in the memory of a worker; `queued`, `locking`
and `sending` are the points between which other transactions run. `Locked` is what the
advisory locks of an open send exclude. `phone` is outside: the token the app really has.

**TokenRefresh.** `request` is an MCP request in a gateway, `pending` and `cache` the two maps of
`startCompanionMcpGateway`, `call` a transaction of the API from its observation
to its commit; a gateway whose call timed out leaves the transaction running. `provider` ends the grant
when it sees a replaced refresh token again.

**GitHubSync.** `commits` is every commit that was ever the head, `head` the branch, `wire` the updates
GitHub has not answered. `Requested` is what each mutation of a skill does to the row, `Claim` to `Record` the steps of
`syncClaimedGitHubDestination` between its awaits, `Live` the fence both reads test. `Locked` stands for the
transaction in which the PATCH is sent: it holds the rows of the connection and of the destination.
`Trusts` decides which folders are the mirror's own, `TreeStays` whether there is anything to
publish. `OwnerCommits` and `OwnerForces` are the other people of the repository.

**SkillPublish.** `pub[p]` goes through `publishCanonical` and `publishSkillVersion`: resolve, assert, put, check,
commit or delete; `rel[r]` through a release, which finds its skill by slug when it packs the archive and again when it
pins the version; `renaming` keeps what a renaming read. `sum` names the publication an archive was packed by.

**SkillDatabase.** `Lock`, `Get`, `Put`, `Record` are a statement's transaction, in which `InTransaction` stands for
the locks it holds; `Migrated` is the worker's migration, `wire` the PUTs that timed out. `Declare` is a
publication's declaration, `OpenGrant`/`SetGrant` the two halves of a change of shares, `RealmGoes` the cascade with
its trigger, and `Claim` to `Defer` one sweep of `sweepSkillDatabaseObjects`. `MemberRemoved` is the cascade of a
membership to its grant, which takes no lock of the realm: a statement of that member (`removed`) goes on to its PUT, and the
policy of the realm's row (`Visible`) refuses its last update, so it is rolled back and not answered.

**MC modules.** A run has one module, but what it asks of two components need not multiply their
states. `MCTurns`, `MCEngine`, `MCCompanionBox`, `MCWorkers` and `MCSkills` instantiate modules that share no
state and choose at the start which one, the `part`, a behaviour follows; the others keep their
initial values. A run explores the sum of the state spaces, and each module is checked exactly as it
would be alone.

## 3. Runs: what each one checks

Every property of a passing run is broken by at least one mutant of the mapped code
(`PROJECT.json` `mutants`; the mutated forms are the `Fault*` operators beside the
definitions they replace). Deadlock checking is off: a Companion with nothing to do,
a replica that stopped and a bounded counter at its bound legitimately stop.

Bounds common to all: two replicas are enough for every takeover (a third only repeats
one of the two), two turns of a lane for everything one turn can do to the next, two
lanes because the code has two. Counters that grow for ever (epochs, gate generations,
sequences, retries, daemon invocations) are capped by the named constants `Max*` in the
guards. What a bound excludes is one more repetition of something that already
occurs.

| Run | Instance | Shows |
| --- | --- | --- |
| `lease_claims` | a turn with its question and its start, a routine turn, a delete; leases of 1 tick, 3 epochs, 3 gates | `OneGrantPerEpoch`, `GateOwnsLeases`, `LanesExclude`, `NoRevival`, `DoneStaysDone`, `UnprovenNeverGranted`, and that `RuntimeLease` implements `FencedLease` |
| `turns` | part *companion*: a turn in each lane, a question, a Box that ages, one request among cancel, stop, restart_box, delete, gate and routine deleted, lost leases. Part *dispatch*: two turns, two interchangeable replicas (symmetry), two sends, lost leases, network. Part *trigger*: two requests in flight, three in all, two targets, one delivery, one mishap (`lost`, `refused`, `invalid`, `crash`, `raise`) | `PromptNeedsPermission`, `LanesExclude`, `BoxWorkSparesRoutine`, `DecisionsFollowAttempt`; `RunsOnceShownWhole`; `TriggersHold` |
| `runtime_retry` | two member turns, a question, a retry and one more request (stop, cancel, restart_pi, gate), failures, lost leases, a Box that ages or is archived | `TurnsHaveTheirReason`, `EndingsStay`, also when the next message overtakes a question |
| `runtime_progress` | a turn in each lane, a question, cancels, a deleted routine, deadlines, failures, fairness | `EveryTurnSettles` |
| `engine` | part *replica*: one slot, one work with 3 epochs, lost answers, expiry, calls that fail or are declined, another replica, 3 gates. Part *session*: a lease of 4 retry periods renewed every 2, all denials, one checkpoint. Fairness | `SlotsFollowLeases`, `CompletionIsSwept`; `SessionTellsTheTruth`; of both, `StopsAreObeyed` and `LostExecutionEnds` |
| `dispatch_resend` | two turns, one replica, two sends, two invocations, lost leases, `net` and `exit`, fairness | `SucceededComplete`, `TurnsEnd` |
| `box` | part *lifecycle*: 2 Boxes, 3 operations, 1 lost lease, 1 Box that ends by itself. Part *journal*: 3 invocations, segments and pages of 2, 6 records, deaths at every write. Part *activation*: 2 revisions, 2 operations, 1 mishap. Fairness | `OneBoxPerCompanion`, `DeleteEnds`; `JournalSurvives`, and that `PiJournal` implements `DurableLog` (`ImplementsDurableLog`); `ProvenPiIsCurrent`, `ActivationConverges` |
| `workers` | part *image*: two builders, 2 attempts a cycle, 2 Boxes, 2 cycles. Part *routine*: two workers, 4 instants, 2 changes or retries. Part *outbox*: one sender, two installations, two members, 2 tokens, one event. Part *token*: two Boxes, two requests each, two calls of the API. One mishap each; fairness | `DeleteSentOnce`, `PointerOutlivesBox`; `OnlyRetriesOutliveRoutine`; `SentToRecipientOnly`; `RefreshesAreSafe`; of the first two, `ClaimedWorkEnds` |
| `skills` | part *github*: two workers, one version, 2 changes (of the catalogue, the connection, a request), one push of an owner, one mishap (crash, overrun lease, lost answer). Part *publish*: two publishers and a releaser, 2 ids, slugs and numbers, quotas 1 and 2, 2 publications, 2 edits, one mishap (`lost`, `crash`, `orphan`). Part *database*: two clients, two sweepers, 2 statements, 2 declarations, 3 changes of the grant or its member, one mishap. Fairness | `SyncedIsCatalogue`, `OwnFoldersStay`; `PublicationsHold`; `DatabaseHolds`; of the first and the last, `SkillsSettle` |

Some names stand for several statements, which their modules keep apart: `LanesExclude` is
`DeleteOwnsRoutineLane` and `BoxMutationExcludesRoutine` over leases, `BoxWorkExcludesRoutine` and
`DeleteRunsAlone` over rows; `TurnsHaveTheirReason` is `WaitingHasQuestion` and
`RunningRetryHasInterruptedSource`; `SlotsFollowLeases` is `ConcurrencyRespected` and `NoIdleLease`;
`SessionTellsTheTruth` is `OutcomeIsDurable`, `LostMeansMoved` and `HeartbeatNeverSilent`; `StopsAreObeyed`
is `NothingEntersAfterStop`, `EffectsStartAuthorized` and `HandoffSettlesNothing`; `LostExecutionEnds` is
`LostWorkEnds` and `LostFenceEnds`; `RunsOnceShownWhole` is `PromptRunsOnce`, `ProjectedIsItsOwn` and
`AckedWasProjected`; `TriggersHold` is `OneHookPerUrl`, `HooksAreRemembered` and `FailuresDisable`;
`ClaimedWorkEnds` is `RequestSettles` and `DueMovesOn`; `EndingsStay` is `NoAnswerReplayed` and `SettledStaysSettled`; `OneBoxPerCompanion` is
`NamedIsRecorded` and `OnePostPerStart`; `JournalSurvives` is `AlwaysRecovers`, `CursorsStayValid` and
`ReadsEveryRecord`; `ActivationConverges` is `IdentityConverges` and `SettingsConverge`; `RefreshesAreSafe`
is `RetryUsesNewerToken` and `GrantOutlivesRefreshes`; `PublicationsHold` is `ArchivesAreTheirVersions`,
`PublicHasItsName` and `QuotaHolds`; `DatabaseHolds` is `AnsweredWritesStay`, `FilesHaveTheirColumns` and
`GrantsAreCurrent`; `SkillsSettle` is `MirrorConverges` and `RemovedImagesGo`.

Each module that has several linked records states the type of its state as `TypeOK`. That of `RuntimeLease` is
proved; the others hold under the cfgs above and document the state. The state spaces have between some
ninety thousand and one and a half million states; each run ends within five minutes.

Larger instances that were also run, and pass, but take longer or only repeat: `lease_claims` with both turns,
a stop, a settings operation and health (3 epochs, 2 gates); `turns` with deadlines too (1.06 million states); `engine` with two checkpoints; the activation with two
mishaps (1.9 million states); the outbox with two senders and no mishap (1.6 million); the connection with three
tokens (1.2 million); the trigger with four requests and no mishap (1.6 million).

Remarks on bounds that could matter. `MaxAttempts` of an image is 4 in the code and 2
here: the code compares it in two places (claim and failure) and 2 reaches first, last
and beyond last; `MaxFailures` of a routine and of a trigger is 5 in the code and 2 here for the same reason. Three
requests about a trigger are the fewest in which two cross over one that exists. `MaxEvents`
counts what comes from outside (requests, the Box ageing or being archived): one such event at any point
of everything else, and in `runtime_retry` a retry besides. Dispatch with two replicas *and* a daemon that
exits is out of reach: `dispatch_resend` covers one replica (it may lose its lease and claim again) with exits, `turns` two without. `engine`'s replica has one
slot and one work so that the slot bound is met at once and the same work comes back under
a new epoch while its old execution still ends, which is what the registry keyed by
work id makes hard; two works fit only without the gate. `lease_claims` has leases of
one tick: longer ones only delay what may expire at any step anyway. `ImageRegistry`'s Boxes end
at any step (their time to live), which is why cleanups that look for a Box may either find it or not. The journal's
6 records over segments of 2 reach three segments, of which retention may delete two in one call and die between
them. Three operations are the fewest in which a Start is interrupted, filed again and followed by a Delete; two
Boxes the fewest in which one could be nobody's.

## 4. Where the code and its documents disagree

Three runs have one property each, which states a line of the repository, and TLC finds it
violated. `PROJECT.json` `findings` quotes the line.

| Run | Property | In short |
| --- | --- | --- |
| `runtime_retry_replays` | `PromptNeedsPermission` | retrying an earlier turn requeues the turn that was active at Pi, whose prompt is then written again |
| `box_delete` | `AcceptedDeletionRemoves` | a deletion the provider accepted, whose executor died before its checkpoint, fails for good if an earlier Start was interrupted while it created the Box (docs/testing.md:209) |
| `routine_edit` | `InstantFollowsSchedule` | a worker's failure report, which knows its claim by the worker's name only, writes the old schedule's next instant over a member's change (docs/companions-runtime.md:659; 0141:163 closes the same race for proposals) |

`PromptNeedsPermission` holds in `turns`, which has no retry: the restart of a retry
is the only thing that breaks it. `AcceptedDeletionRemoves` needs three things in a row (an interrupted
Start, a Delete, a death between the provider's acceptance and the checkpoint); without the first the second
DELETE is answered with 404, which is taken for the deletion.

The modules reproduce more disagreements. The properties below are defined at the end of
their modules; none is part of a run, and each is violated under the instance given (the other
constants as in the module's runs, `FairSpec` where the property is a leads-to).

| Property | Instance | In short |
| --- | --- | --- |
| `RetrySparesQueue` | two member turns, `retry`; `failure`, `lost`; `MaxEvents` 1, `MaxRetries` 1 | claiming a running restart_pi a second time interrupts the queue and does not give it back (0096:961, against 0092:1411) |
| `ColdTurnsWake` | two member turns; `failure`, `stale`, `archive`; `MaxEvents` 2 | an interrupted turn suppresses the Start of every later turn (0129:21, against docs/companions-runtime.md:528) |
| `RetryStartReturnsTurn` | one member turn, `retry`, `stop`; `late`; `MaxEvents` 2, `MaxRetries` 1, `FairSpec` | the Start of a user's Retry is denied at each authorization (0145:552, against docs/companions-runtime.md:531) |
| `DueWorkClaimable` | a turn in each lane, `retry`, `stop`; `failure`; `MaxEvents` 2, `MaxRetries` 1 | the one-running index spans lanes that claim independently (0090:579, against 0149:2) |
| `PendingStartHasQueuedSource` | one member turn, `stop`; `stale`; `MaxEvents` 2 | one claim call files a Start and interrupts its turn (0096:925, against 0145:473) |
| `HandoffReachesAll` | one work, two slots, 2 epochs, no mishap | sessions are keyed by work id, so the second execution of a work is forgotten with the first (engine.ts:233, against docs/companions-runtime.md:56) |
| `HandoffMutatesNothing` | `Lease` 3, `Interval` 1, denial `release`, `MaxSeq` 1 | a lookup that returns empty renews a lease already handed off (leaseSession.ts:342, against its line 394) |
| `LiveFenceKept` | the same, denial `deadline` | a checkpoint declined by a deadline is taken for a lost fence (leaseSession.ts:276) |
| `PromptRunsOnce` | one turn, one replica, `ledger`, two sends | without a ledger record a resend after Pi settled runs the prompt again (directBoxTransport.ts:676, against docs/companions-runtime.md:422) |
| `RejectedNeverRan` | the same | a refusal of the resend is taken for a refusal of the first send (directBoxTransport.ts:680, against attempt.ts:1358) |
| `ProvenPiIsCurrent` without `~pi.stray` | part *activation* of `box` | a staging command of an executor that lost its lease runs after its successor's: Pi starts with files that are not the recorded ones, with or without a hub token (docs/companions-runtime.md:241, 1153) |
| `ProvenPiIsCurrent` with `Tokenless` | the same, `Tokenless` | work for native_mobile mints nothing, so it does not withdraw the proof: between the write of new settings, which are recorded as applied, and the restart, the proof names the daemon of the old ones (operations.ts:391, against settingsActivation.ts:25) |
| `LiveInstallationStaysOn` | one sender, one installation, one member, 2 tokens | APNs' answer for an old token disables an installation that registered a new one meanwhile (0124:709, against docs/companions-runtime.md:643) |
| `TakeoverAsksLedger` | one turn, two replicas, `lease`, one send, one invocation | claim_work settles a write intent before any executor may ask the ledger (0096:701, against docs/companions-runtime.md:420 and 0127:3) |
| `NothingDroppedUnsent` | the same as `LiveInstallationStaysOn`, one token | a delivery whose claim expired while it waited in its worker's batch is deleted unsent (0124:634; 50 claims of a minute, eight at a time, 15 s each) |
| `PublicPackageIsItsVersion` | part *publish* of `skills` | a release finds its skill by slug twice: renamed in between, another skill's package is pinned as its version (services.ts:1392, against the "substituted release" of docs/testing.md:18) |
| `CurrentIsLatest` | the same, numbers 1 to 3, no edits | the check that a version is newer is made outside any lock (services.ts:2863), so the current version may be the older of two |
| `KeysAreOfVersions` | the same, two numbers | a lost answer or a death leaves an object without row, whose version can then not be published (index.ts:757 of the API, against "idempotently") |
| `ArchivesAreTheirVersions` | the same, mishap `commit` | a COMMIT whose answer is lost has its archive deleted (services.ts:3994: archive blobs "remain immutable") |
| `EditsRemoveHooks` | part *trigger* of `turns`, no mishap | a DELETE (or an edit) that lists the trigger before another request registers it removes the row and not the hook (companionRoutes.ts:1960, against docs/companions-runtime.md:815 and companionRoutes.ts:1911) |
| `RegisteredHasHook` | the same | a rotation that lists before another request registers keeps "registered" with the hook of the old URL, and every retry answers early; an edit refused after its hook was removed does so too, with mishap `invalid` (companionRoutes.ts:794) |
| `RegisteredIsBound` | the same | a trigger created while no account was connected is registered later through the one there is, but fires only through an account of its own: each delivery is skipped (0147:580, while the registration takes any connected account, companionTriggerWebhookRegistration.ts:136) |
| `QueuedRunsAreOfLiveRoutine` | `RoutineSchedule`: one worker, one schedule, 2 instants, 2 changes or retries | a run that a Stop or restart interrupted and a member retries is queued again although its routine was disabled or deleted meanwhile (0128:157-250, 287-302, against 0145:1-3 and docs/companions-runtime.md:676) |
| `StatementsHoldTheirGrant` | part *database* of `skills` | the removal of a member deletes the grant under the statement that found it; the image is then written for somebody who has no access, though the statement is not answered (0061:32-35, against skillDatabases.ts:976-979) |
| `NothingStaysOfRemoved` | part *database* of `skills` | a first PUT that lands after the sweep stays for ever (skillDatabases.ts:806, against skillDatabaseCleanup.ts:16) |

`MirrorConverges` needs the drift check: an update of the branch that GitHub did not answer may land after
a later synchronization found nothing to do, and then only the next check, a quarter of an hour later, repairs it.

`OwnFoldersStay` speaks of the commit that the mirror built on, not of the head that it replaces. GitHub takes any
descendant of the head for a fast-forward (`force: false`, packages/github/src/index.ts:809), so that with two pushes of owners
(`MaxPushes` 2) a removal of their folder that they undid by force comes back with a commit the mirror had made on it.

`LostMeansMoved` is the part of `LiveFenceKept` that holds, `HandoffSettlesNothing` that of
`HandoffMutatesNothing`, `OnlyRetriesOutliveRoutine` that of `QueuedRunsAreOfLiveRoutine`, and `GrantsAreCurrent` that of
`StatementsHoldTheirGrant`: nothing an owner or a publication does takes a grant from under a statement, and no grant comes back before the
statement of a removed member ends, which its last update refuses. A lease in doubt (section 2, RuntimeReplica) is what `NoIdleLease`
leaves out: nobody works on it and nobody else may claim it until it expires, 30 seconds at most.

## 5. Fairness, and why the code justifies it

Only liveness runs use `FairSpec`; all fairness is weak.

* `CompanionRuntime`: replicas sweep as long as they run and retry a failed sweep
  (`scheduler.ts` `#runLoop`), so claims are fair per lane; a lease holder takes its
  next step or loses the lease (the heartbeat renews or gives up, and the lease
  expires); clocks pass deadlines (`expires_at` of a question, two hours for a turn).
  Users and Pi owe nothing: no API action and no `Project` is fair.
* `RuntimeReplica`: the loop runs, a session renews while it may, an execution that was
  asked to stop or lost its lease unwinds. The timer of the sleep is *not* fair: the
  property is that completions do not need it. A handler Pi keeps busy may never end.
* `LeaseSession`: callbacks run; a statement ends, with an answer or an error, because
  the pool sets `statement_timeout` (`apps/runtime/src/database.ts`, pool options);
  an effect ends *once its signal is aborted*; an abort of an attempt has a deadline.
  `WF(Execute \/ Fail)` lets the database fail for ever.
* `PromptDispatch`: leases may expire at any step but not for ever (`<>[][~Expire]_vars`: the
  heartbeat renews a lease whose holder works); executors and the daemon take steps, systemd restarts the daemon, Pi
  ends every run it began. The last is an assumption about an external program (and
  otherwise bounded by the turn's two-hour deadline, which is not modelled). Leases
  expire and messages get lost at will, never by obligation.
* `ImageRegistry`, `RoutineSchedule`: some worker always runs (a supervisor's timer ticks whatever the last
  batch did), backoffs end, leases expire. No crash and no member's request is fair.
* `BoxLifecycle`, `PiActivation`: some replica claims what is due and its executor goes on or loses the lease;
  the wait between the two absence checks of a delete passes; the provider finishes a boot, an archive or a
  deletion it accepted (an assumption about an external service); the 30 seconds after failed settings work end.
* `IdentityConverges` and `SettingsConverge` say "again and again" rather than "for ever from some time on":
  a daemon may restart, and settings may change, at any later time.
* `GitHubSync`: some worker claims what is due (the supervisor's timer ticks), the steps of an attempt end (attempt
  and publication have timeouts), leases expire. Owners, administrators and lost updates owe nothing.
* `SkillDatabase`: the clean-up timer ticks whatever the last sweep did, and claims expire. Statements owe nothing.

## 6. What is proved

Everything here is proved with TLAPS for every value of the constants: any set of executors, works, turns or
workers, any length of a lease and any bound. Each component has one inductive invariant, which TLC checked
on the run's instance before it was proved; the theorems follow from it, or from what it says of a single step.

| Theorem | Property | Meaning |
| --- | --- | --- |
| **The lease protocol** | | `RuntimeLeaseProofs` |
| `TypeCorrect` | `TypeOK` | every call leaves well-formed rows |
| `EpochsIdentifyGrants` | `OneGrantPerEpoch` | two grants never share an epoch, over both lanes |
| `GateFencesLeases` | `GateOwnsLeases` | a held lease belongs to the open gate's own epoch |
| `ClaimsNeverRevive` | `NoRevival` | a claim that stopped being valid never is again |
| `DoneRowsStay` | `DoneStaysDone` | no late call changes a terminal row |
| `UnprovenStaysUngranted` | `UnprovenNeverGranted` | a live row with an unproven effect is never stamped again |
| `LanesStayApart` | `LanesExclude` | a valid delete is the only valid grant; no routine runs beside a Box mutation |
| `LeaseIsFenced` | `ImplementsFencedLease` | every behaviour of the protocol is one of the abstract fenced lease |
| **The queue** | | `CompanionRuntimeProofs` |
| `CompanionHolds`, `CompanionTyped` | `TypeOK` | the inductive invariant; every row has the shape of its table |
| `QuestionsFollowAttempts` | `DecisionsFollowAttempt` | a question still owed to Pi belongs to the attempt that asked it, and that attempt runs |
| `TurnsWaitForSomething` | `TurnsHaveTheirReason` | a turn that waits for an answer has its question, a retry under way its interrupted turn |
| `LanesStayClear` | `LanesExclude` | work on the Box and a turn in it exclude each other, a delete excludes all |
| `RoutinesAreSpared` | `BoxWorkSparesRoutine` | claiming work on the Box ends no running routine turn; only a delete does |
| `SettledStay`, `AnswersStand`, `EndingsStand` | `EndingsStay` | a settled turn moves only through a retry; an answer Pi may have is never written again |
| `PromptOncePerAttempt` | - | the prompt is written at most once for each attempt |
| `PromptWrittenOnce` | `PromptNeedsPermission` | without a user's retry it is written at most once altogether |
| **A replica** | | `EngineProofs` |
| `ReplicaHolds`, `ReplicaTyped` | `TypeOK` | the inductive invariant; every field has its shape |
| `SlotsFollow` | `SlotsFollowLeases` | no more executions than the concurrency, and a lease of the replica is worked on, or was handed over, lost on its way or given up in doubt |
| `NothingEnters` | `NothingEntersAfterStop` | once claims are stopped no execution enters the process |
| `EngineTellsTheTruth` | `SessionTellsTheTruth` | in an engine that follows a session, what `SessionTruthful` says of the session |
| `EngineObeysStops` | `StopsAreObeyed` | in it, `NothingEnters`, `EffectsAuthorized` and `HandoffSettles` together |
| **An execution** | | `LeaseSessionProofs` |
| `SessionHolds`, `SessionTyped` | `TypeOK` | the inductive invariant; at most one call of the worker and one heartbeat are chained |
| `SessionTruthful` | `SessionTellsTheTruth` | an outcome reported is durable, a fence is given up only when it moved or a deadline passed, the heartbeat never falls silent |
| `EffectsAuthorized` | `EffectsStartAuthorized` | no external effect starts in a session that was told to stop or lost its authority |
| `HandoffSettles` | `HandoffSettlesNothing` | a session handed over sends nothing that changes its work |
| **Dispatch** | | `PromptDispatchProofs` |
| `DispatchHolds`, `DispatchTyped` | `TypeOK` | the inductive invariant; every value has its shape, no cursor passes the journal's tail |
| `ProjectsItsOwn` | `ProjectedIsItsOwn` | an attempt shows only its own records, of its own invocation, without gaps, whatever is lost |
| `OnceHolds` | - | the invariant while Pi's answers arrive: what was taken is not taken again |
| `RunsOnce` | `PromptRunsOnce` | while they arrive, Pi begins the prompt of an attempt at most once |
| `AckedIsProjected` | `AckedWasProjected` | while they arrive, the broker forgets nothing that is not in the conversation |
| `SucceededShowsAll` | `SucceededComplete` | while they arrive, a turn that succeeded shows all Pi said in it |
| `TurnsRunOnceShownWhole` | `RunsOnceShownWhole` | the three before the last, of `MCTurns` |
| **Triggers** | | `CompanionRuntimeProofs` |
| `TriggerHolds` | `TriggersHold` | one hook for a URL, no hook forgotten but where named, failures disable, however requests cross |
| **The Box** | | `BoxProofs` |
| `OneBox` | `OneBoxPerCompanion` | one create is sent for a Start, and what lists under the Companion's name is the Box on record |
| `ProvenPi` | `ProvenPiIsCurrent` | where work mints a token, a proven daemon that runs has the live credentials and no older settings than the applied ones |
| `Journal` | `JournalSurvives` | wherever the daemon dies, the next one starts, cursors stay valid, and an attempt projects every record once, in order |
| `JournalIsDurableLog` | `ImplementsDurableLog` | every behaviour of the segment files, the cursor file and the process is one of the durable log |
| **Images** | | `WorkersProofs` |
| `RegistryHolds`, `RegistryTyped` | `TypeOK` | the inductive invariant; rows and workers have their shapes |
| `DeletesOnce` | `DeleteSentOnce` | a DELETE of a Box is sent once, through crashes, lost answers and takeovers |
| `PointerIsKept` | `PointerOutlivesBox` | the row forgets a Box only when the provider has it no more |
| **Routines** | | `WorkersProofs` |
| `RetriesAloneOutliveRoutine` | `OnlyRetriesOutliveRoutine` | a run that is queued belongs to the definition of its routine that is live and enabled, or a Retry put it back when that was gone |
| **Notifications** | | `WorkersProofs` |
| `NotificationsReachTheirMember` | `SentToRecipientOnly` | a notification is sent to no phone of another account, however phones, tokens and members change while it waits |
| **Access tokens** | | `WorkersProofs` |
| `RefreshesStaySafe` | `RefreshesAreSafe` | a retry has a newer token than the one refused, and no grant ends for a refresh token seen twice unless a refresh was rolled back |
| **Skills** | | `SkillsProofs` |
| `DatabaseSafe` | `DatabaseHolds` | an answered write stays, a file has its columns, a statement keeps its grant or its member was removed, and then no grant is there to answer it |
| `PublicationsSafe` | `PublicationsHold` | unless the answer to a commit is lost, the archive of a version is the one published as it; names and quota as below |
| `ReleasesAndQuotaSafe` | - | under every mishap, what is public was published under its name, and the quota holds |
| `SyncedShowsCatalogue` | `SyncedIsCatalogue` | a head recorded as synced shows the catalogue |
| `OwnersKeepTheirFolders` | `OwnFoldersStay` | a commit of the mirror made on an owner's folder leaves it, whenever it lands, unless the mirror had the skill in that history |

`EndingsStay` is `SettledStaysSettled` and `NoAnswerReplayed`; `RunsOnceShownWhole` is
`PromptRunsOnce`, `ProjectedIsItsOwn` and `AckedWasProjected`.

*Assumptions.* Of `RuntimeLease`: `WorkAssumption` (each work has a kind, a lane and perhaps a turn;
deletes, starts, settings and health live in the main lane; null values are no
executor and no work) and `BoundAssumption` (a lease lasts at least a tick; bounds are
naturals). Nothing is assumed about the caller: any grant ever made may call. Of `CompanionRuntime`:
`TurnAssumption` (turns are finitely many and of one lane, the null value is no row, and rows of different tables
have different keys; the finiteness is what makes "the oldest due" exist) and `BoundAssumption`. Of
`RuntimeReplica`: `ReplicaAssumption` (finitely many works, at least one slot). Of `ImageRegistry`:
`RegistryAssumption` (bounds are naturals). Of `PromptDispatch`: `DispatchAssumption` (there is an attempt, an invocation and a
send; bounds are naturals; the mark of a row without a lease is no replica). Of `LeaseSession`: `SessionConstants`, a hypothesis of each theorem because
the module is only ever instantiated (a lease outlasts a renewal interval; denials are the four the code
knows); `MCEngine` assumes it of its instance. Of `MCWorkers`: `PartsAssumption` (finitely many installations, at least
one sender, gateway and call, the null value is no call, bounds are naturals: a new token for a claim exists because
finitely many are in use). Of `MCTurns`: `PartsAssumption` ("none" is no place and "nobody" no
member, a trigger is disabled after at least one failure) and `DispatchParts`, the constants of PromptDispatch for its instance.
Of `MCCompanionBox`: `BoxAssumption` and `PartsAssumption` (there is a Box, a segment and a
page hold a record at least, there is a revision, bounds are naturals). `ProvenPi` has the hypothesis `~Tokenless`, which run `box` meets, and needs
it (section 4). Of `MCSkills`: `PartsAssumption` ("none" is no name of a skill, version numbers are positive,
quotas and bounds are naturals). `PublicationsSafe` has the hypothesis `"commit" \notin Mishaps`, and needs it: a COMMIT whose answer
is lost has its archive deleted (section 4), and run `skills` checks the property without that mishap.
`ReleasesAndQuotaSafe` has no such hypothesis.

*The lease protocol.* `OneGrantPerEpoch` is not inductive: a state in which a lease row carries an
epoch above `lastWrite` that some grant also carries could hand out the same epoch
again. `FenceInv` adds that every grant was paid for with a write epoch
(`GrantsBounded`: `c.epoch <= lastWrite`) and that a held lease row *is* the record of
a grant of its lane (`HeldIsGranted`). Then a new epoch, taken above `lastWrite` and
both rows (`NextEpochFresh`), is new to all grants, and nothing else adds a grant.
`LEMMA FenceInductive` splits Next into the claim, the claims that refuse, the executor calls
and the environment. `ClaimsNeverRevive` follows because a lease row that is held after
a step was either held before for the same grant with time left, or was granted in that step
under a fresh epoch (`HeldStep`). `DoneRowsStay` and `UnprovenStaysUngranted` rest on
`RowInv` and the case analysis `RowSteps`, which says of each row what a single step
may do to it: nothing, open, close, be stamped by a claim that proved it, or advance by
its holder.

`LanesStayApart` needs a stronger invariant, `LaneInv`. That two *leases* exclude each other follows from
what the claim reads, but what the claim reads are *rows* (`RoutineQuiet`, `BoxQuiet`): so `RowInv`
must relate a valid lease to the row it stamped (`ClaimedByGrant`, `RoutineHeldByGrant`), and `DeleteIsAlone`
strengthens `DeleteOwnsRoutineLane` from the lease to the time it has left, because a delete's claim empties the
routine lane once and nothing claims that lane while the delete's own lease lasts. `GrantStep` says
what a claim leaves of both lanes, the lemmas `...Step` that no other call makes a lease valid.

`LeaseIsFenced` maps the largest epoch in sight to `top` (`Top`), a lane to its valid grant (`Owner`), a row's
claim epoch to `stamp` and its checkpoint sequence to `progress`. A claim is `Acquire`, a checkpoint `Write`, a
settlement and a deferral are `LastWrite`, and all that remains (refused claims, releases, expiry, the gate) takes lanes from their owners or changes nothing the abstraction sees. `FenceInv` is what makes
a writer the owner: a call is authorised by an epoch, and `ValidOwner` needs that epoch to be one grant's.

*The queue.* `CompanionInv` adds to the types and to the properties themselves what they rest on: `BoxWorkIsAlone` (while an
operation of the main lane runs, no turn of either lane does), `RetriesWait` (a retry is the only
one of a turn that is interrupted), `DeleteWasAsked` (nothing is filed for a Companion whose delete was asked
for), `OpsAgree` and `QuestionsAgree` (columns the code writes together). A claim is four changes in one transaction, so
its actions are not taken apart by variable: the lemmas say what a step did as each part of the invariant sees it:
`OpsGo` (an operation stays, leaves its slot, or is a Start just filed), `TurnsGo` (which turns moved,
and to what), `QuestionsFollow` (a question keeps its turn; a turn that ends takes its questions along). Every action has a lemma that
it is of these shapes and every part one that such a step keeps it. The claim takes the first of what is due;
that there is a first is a fact about maxima of finite sets. `PromptWrittenOnce` counts: a write needs an attempt in `starting`, and only a retry makes a second attempt.
It is stated for `"retry" \notin Requests`, and needs to be: with retries it fails, which run
`runtime_retry_replays` shows and section 4 discusses. `PromptOncePerAttempt` has no such condition.

*A replica.* The slots are counted before the claim is sent and used after its answer, so `ReplicaInv` has
`SlotsAreFree` (what was counted is still free when the answer comes: only the loop fills slots), `BatchInHand` (grants not yet executed exist at that
one point), `ClosedHoldsNothing` (a sweep that read the gate closed finds no lease of its own), `FencesIssued`, `RegisteredRuns` and
`EndedGaveUp` (an execution that ended while its lease is still held was asked to hand over, or was in doubt); the rest is cardinality. `FencesIssued` was not provable of an earlier form of the model that registered the session of the latest grant
of a work instead of the batch's: the model was changed to what engine.ts does.

The two theorems about an engine (`EngineSpec` of `MCEngine`, a replica one of whose executions is followed call by call) are not
proved again: a step of the engine is a step or a stutter of `RuntimeReplica` and of `LeaseSession` (`EngineFollows`), so the
theorems of both carry over through an INSTANCE of `LeaseSessionProofs`.

*An execution.* `SessionInv` says that the promise chain is one of five shapes (`Chain`: at most the
worker's call and a heartbeat, in either order), that the heartbeat is chained or its timer set, never both and, unless the session is aborted,
never neither (`Beats`), what an answer under way says of the lease (`AnswerTrue`), that the session knows the sequence of checkpoints
wherever it may write one (`SeqKnown`), and that whatever stops a session aborts its signal (`Sane`). `Sound` is what each
operator of the engine returns, `FollowKeeps` and `BeatKeeps` what the chain does next.

*Dispatch.* `DispatchInv` holds under every mishap, `OnceInv` only while Pi's answers arrive (`AnswersArrive`: neither `ack` nor `ledger`
is among the mishaps; prompts and answers may still be lost on the network, leases may expire, the daemon may die). The
condition is needed: on the instance of `dispatch_resend` TLC finds each of its three theorems violated as soon as either mishap
is allowed (section 4 discusses one). What makes `DispatchInv`
inductive is that an executor that has lost its lease goes on: `Stands` is what is true of it whether it still has the lease or
not (it sends only what the row was pinned to, and a row never changes its pin), `Knows` what it knows of the row while it has
it, and `BoxAgrees` that everything in the network, the ledger, the journal and the question to Pi was pinned. `EndIsShown` ties
an attempt's end to its last record. `OnceInv` adds that a prompt which ran or spoke is *spent* (`RunsSpend`: an
older invocation, a dead Pi, a ledger record, or the question still open), that every cursor told for an attempt precedes all it said
(`CursorsPrecede`), that what it said up to its cursor is shown (`ShownSoFar`) and that nothing follows its end (`EndsLast`). Then a
succeeded turn, whose row has its end, shows everything (`Complete`); and the same lemma is why an acknowledgement of one
attempt's records covers those of the attempts before it. Three lemmas (`ExecutorMoves`, `RowMoves`, `BoxMoves`) say what is left to
show of a step of each sort, so that an action's own lemma is about what that action changes.

`TurnsRunOnceShownWhole` is not a second proof: `MCTurns` has PromptDispatch among its parts, a step of it is a step or a
stutter of the instance `DP` of `PromptDispatchProofs` (`SameDispatch`), whose theorems are cited. It has their hypothesis,
`{"ack", "ledger"} \cap Troubles = {}`, which run `turns` meets.

*Triggers.* `HooksAreRemembered` compares the row with the provider only while nobody holds the row; what makes it inductive is
what the holder knows meanwhile (`Stand`): until it has done something at the provider the hooks are the row's, afterwards
they are those of `mine`, the row it is about to commit, and between a POST whose answer was lost and the second look at
the provider (`Recover`) they are among those of the URL, which nothing else uses. A request that only read the row knows
nothing, except that one which removed a hook has held the row since (`did`). `OneHookPerUrl` needs that a POST follows a
look that found nothing under the same lock. The theorem is about every set of members, places and deliveries and every mishap,
with one provider account. `MaxFailures` is at least one.

*The Box: its lifecycle.* The create is sent, its answer may be lost, its executor may be lost, and whoever takes over
must not send another. `LifeInv` says what is known while nobody knows more: what carries the Companion's name, or is about to get it from a late
call, is the Box on record or one that cannot come back (`Known`); an answer is only in the hands of the lease's holder, and to a
Delete absence is for good (`Answered`, `Deleted`); a Start posts at `creating_box` only and does not come back to it (`Posted`). Most actions leave the recorded Box, and
for those two lemmas suffice (`WorldKeeps` of the provider's side, `LifeHolds` of the work's).

*The daemon.* The proof is believed of a process that anybody may restart. `PiInv` relates what the executor remembers (`InHand`) and what
a checkpoint lets its successor assume (`AtCheckpoint`) to the files on disk: from the mint on, the files are `Prepared` (they hold no older settings than
the work's and no credentials but the live ones) or a late write has made them stray, so a daemon that starts from them, whoever starts it, is
a `LiveDaemon`; and while a token is minted and not proven there is no proof. `Revisions` orders the revisions: what is filed later was captured later, so
no operation applies settings older than those applied. A new invocation and a new token have names that nothing holds, because
finitely many are held (`FreeName`).

*The journal.* What a reader gets (`After(fs, n)`) is stated by the records' numbers and not as a fold over the segments, about which the
prover cannot reason; the two agree because `Chained` holds: segment files are numbered
without a gap, within a file and from one to the next, and only the last may be empty or end in a fragment. `ChainHolds` turns that into
a statement about sets (`Held`: the records have the numbers from `Opens` to `Closes`, one each), from which what a reader gets is a plain function (`AfterIs`). Recovery
(`CleanedKeeps`), retention stopped anywhere (`RetainCutKeeps`) and the replacement of the last file (`ReplaceKeeps`) keep the chain and its records. `JournalInv` adds
where the cursors are (`Cursors`: the cursor file is never behind the process, and may be ahead of it after a refused write), that invocations
wrote in their order and a process has unreleased records of its own only (`Authors`), and what the reader has (`Reading`). Each action is then shown to be a
step of the log on `Released` and `Pending` (`LogMove`): a record, an acknowledgement, or nothing, which recovery, retention and most deaths are.

*Images.* Three layers: what a move does to a worker, what every step of a worker keeps to (`StepShape`, one
lemma per action), and that such a step preserves `RegistryInv`. The invariant's parts are the fences
(`EpochsFence`), what is known of a Box (`UncreatedUnknown`, `CreatedIsOwn`, `KnowsPointer`, `ClearedIsGone`) and the two behind
`DeletesOnce`: whoever is about to send a DELETE is the only one (`OneSender`), and while the row has no intent none was sent
(`UnsentWithoutIntent`). A worker whose lease ran out goes on until a write is refused, and `OneSender` holds all the same,
because the intent is a fenced write of its own and is never taken back.

*Routines.* `RoutineInv` is the types and the property: it is inductive because every transaction that disables, deletes or
redefines a routine cancels its queued runs in that transaction, and the one that queues a run reads the routine under the same lock;
a Retry does not, and what it puts back is told apart by `stray`. A worker
that lost its claim is no exception: it is refused, or known by its name alone and then only defers or disables.

*Notifications.* Between the claim of a delivery and its sending, the phone may get a new token, be registered by another
member or leave. `TokensAreOwn` says that a token is that of one phone and registered once; `RecipientsAgree` that the deliveries and the claims of
one event and installation are for one member; `JobsKnowTokens` that the token a job holds is still that of the row, or is *dead*: no phone has it
and none will, for tokens are never given twice. That the lock read the same token is then enough: a row that
was registered anew has another token, and a dead one is no longer anybody's (`SendsToItsOwn`). Steps that only rewrite
deliveries (claims that expire, a failure, a retry) are one shape, `Rewrites`. That a claim has an id nobody has is the pigeonhole (`FreshIsNew`).

*Access tokens.* Of several calls of the API one has the row (`RowIsHeld`), and the row is as it read it; `RefreshIsKept` says where
the provider's refresh token is (in the row, in the transaction about to write it, or lost by a rollback), which is why a replaced one is sent only after a
loss. `RetryUsesNewerToken` needs a relation between a gateway and a call it does not control: `ForcedIsNewer`, the forced call a gateway waits for was made
after every token that gateway was refused, so that what the row had when the call observed it is the oldest it can bring back; with `TokensGrow`
a row that moved on since has a token newer than the refused one.

*Skills: databases.* `DatabaseInv` is about images on their way: each image still to be written has an ETag of its own
(`EtagsDiffer`), was made from the object whose ETag its PUT names, and has all writes of that object if it is the object
still (`ImagesExtend`). So a PUT that lands, late or not, loses nothing: the object is not the one it was made from, and it is
refused, or it is, and the image extends it. A write is answered only after it is in the object (`WritesStay`), and a
transaction runs only on a realm that lives (`RealmsAgree`). `GrantsHold` adds to `GrantsAreCurrent` that only a statement with its locks taken counts
as one of a removed member: it looks its grant up under them. *Publications.* `PublicationInv` holds under every mishap and counts the live rows under their quota (`LiveCounted`).
`ArchivesInv` adds `KeysAreOwned`: a publication whose object is written and whose version is not owns the key, so neither
another publication nor its own compensation can replace or delete the archive of a version. *The mirror.* `MirrorInv`: a worker's plan
agrees with the catalogue as long as its request is the row's or its transaction keeps the catalogue from changing
(`PlansAgree`), what is prepared shows what was planned (`PreparedShows`), hence so does what is recorded (`SyncedShows`). The histories of the branch
never enter: an owner's push changes what the head shows, and the next plan reads the head again. They do in `OwnersKeepTheirFolders`: `OwnKept` says of
every commit a worker holds or has on its way that it leaves an owner's folder of its parent (`KeepsOwn`), and it stays true while the
commit waits because a commit's history is fixed when it is made (`HistoriesStay`). `History` is the least set that is closed
under parents, which needs no recursion and can be reasoned about.

Re-check: `tlapm M.tla` for each module of this section (each up to ten minutes).

## 7. What is only model-checked, and what is not modelled

*Only model-checked*: the properties of section 3 that section 6 does not list, and all liveness: fairness and ENABLED are
beyond the proof system. Every safety property of a passing run is proved. Of `ProvenPiIsCurrent` the instance with `Tokenless` is neither proved nor true.

*Left out on purpose*, module by module:

* `RuntimeLease`: tokens, actors (a revoked actor is a choice, `RefuseRevoked`), observations
  and their fields.
* `CompanionRuntime`: settings and health work, snapshots' ages (a Start leaves the Box
  fresh until `BoxAges`), attachments and outputs, `apply_settings`, several questions of one
  routine, transcript projection.
* `LeaseSession`: what a handler does between two calls; it may make any call next.
* `PromptDispatch`: isolated routine sessions; the branch of `handleAttempt` that resolves a
  `dispatch_write_intent` (attempt.ts:1400-1475), which `claim_work` makes unreachable; a turn
  that settles without visible output ends here as succeeded, in the code as an explicit
  "no response"; `page` limits; cancels. A late prompt of an interrupted attempt that Pi runs
  after the next one settled makes that one's page fail its correlation check; the model
  has this as an interruption.
* `ImageRegistry`: Boxes created after the lease was lost, or whose creation was not
  answered, have no pointer and live until their time to live.
* `CompanionRuntime` sees the operations' own checkpoints at the provider as outcomes of `Boot` and
  `OperationDone`; they are the subject of `BoxLifecycle`.
* `PiJournal`: record contents and counters; a disk that loses what was fsynced; bytes instead of records as the
  size of a segment and of a page.
* `BoxLifecycle`: Boxes of other generations; the deletion of duplicates that discovery finds, because a second
  Box with the Companion's name cannot come to be (`NamedIsRecorded`); snapshots and TTL refreshes; the assembly
  of commands. A Start whose recorded Box is gone is always refused at `creating_box` (0090:3833, against
  0128:1-4) and is in the model only as that failure.
* `PiActivation`: the layout upgrade is a recycle; usage samples, the Box's own health and the contents of files
  are left out. The `apply_settings` operation is declared and never inserted.
* `RoutineSchedule`: cron arithmetic (an instant is the next one of a schedule).
* `TriggerHooks`: the formats of Linear and Sentry (Sentry's protocol is GitHub's; Linear's removal refuses a hook that is
  gone already), several accounts, the limit of ten, the pages of a repository's hooks beyond the first hundred.
* `NotificationOutbox`: previews, backoff lengths, several workspaces.
* `TokenRefresh`: connecting an account, providers' formats, Slack's gateway; the branch of the update that finds
  another version (companionMcpBroker.ts:222) cannot be taken under the row lock and is left out.
* `GitHubSync`: the block in the README; the closure error of an archived dependency; several destinations, and one
  that is deleted and made again; owners who edit the manifest (it is signed); lengths of backoffs; renewal of the
  App's credentials. An owner's folder made after a removal that landed without being recorded is deleted, as the
  code does: `OwnFoldersStay` is about histories in which the mirror never had the skill, and about the folder in the
  commit that the mirror built on (section 4).
* `SkillPublish`: personal skills and Share, labels, dependencies, secrets, installation, a plan that changes.
* `SkillDatabase`: archived skills, rate limits, the gating of SQL, realms of the organization (the same code without
  a member), time limits other than those of the storage.
* Other subsystems: see `components`.

Behaviours seen while modelling that no line of the repository speaks about, kept as hazards:
`cancel_requested_at` is never cleared; an answer accepted for a dead Pi waits for the turn's
deadline; a question and `agent_settled` in one page turn a finished turn into an interrupted one; a
failed delete leaves `retirement_state` requested; a claim row that does not decode strands the
grants of its call; an executor that dies between the acceptance of a Box command and its checkpoint repeats it;
the next instant of a routine is never before five minutes from now, so an every-five-minutes schedule drifts
(companionRoutinesApi.ts:468); a member's change that read a routine before its last failure enables it again,
and one made at a due moment skips that instant; a sender that dies after APNs took a notification sends it again
under the same collapse id; a removed membership deletes its deliveries without the senders' locks; a trigger whose
account is disconnected cannot be deleted while its row keeps a hook, and a registration tried meanwhile forgets the
hook; an edit of a trigger that read it before its last failure enables it again; a death
between the provider's rotation and the commit leaves a grant whose refresh token nobody has.

## 8. Plan

Done: the lease protocol and its proofs, the queue, the replica, the session, dispatch and its journal, the
lifecycle of the Box and of the daemon in it with settings and health work, images, routines, webhook triggers, notifications,
OAuth, the GitHub mirror, publication of skills and their databases. Next, in this order:

1. **Isolated routine sessions** (`RoutineSession`): the one-shot session in the Box, its return to the
   conversation, cancellation.
2. Pure algorithms: version order and ranges of `packages/skills`, checked against a reference.
3. Installation and sharing of skills: personal copies, dependencies, labels.

Every invariant and every action property that a passing run checks is stated by a theorem of section 6. Theorems worth
proving next are those about the modules of this list.
