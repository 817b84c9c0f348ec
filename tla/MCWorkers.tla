----------------------------- MODULE MCWorkers -----------------------------
(* Instances for TLC of the modules about claims that background processes   *)
(* take.  They share no state, so each behaviour follows one of them, the    *)
(* part, chosen at its start: a run explores the sum of their state spaces   *)
(* and not the product.                                                      *)
EXTENDS ImageRegistry

CONSTANTS Schedules, MaxFailures, MaxInstants, MaxAsks, Mishaps,
          Senders, Installations, Users, MaxTokens, MaxEvents,
          Gateways, Requests, Calls

ASSUME PartsAssumption ==
  /\ MaxFailures \in Nat \ {0} /\ MaxInstants \in Nat \ {0} /\ MaxAsks \in Nat /\ Mishaps \in Nat
  /\ MaxTokens \in Nat \ {0} /\ MaxEvents \in Nat /\ Builders # {} /\ Senders # {} /\ Gateways # {} /\ Calls # {}
  /\ IsFiniteSet(Installations) /\ "none" \notin Calls

VARIABLES part,
          routine, worker, turns, draft, asks, slips,
          device, delivery, jobs, busy, phone, tokens, events,
          account, grant, call, pending, cache, request, orphaned

R == INSTANCE RoutineSchedule WITH Workers <- Builders, MaxMishaps <- Mishaps, mishaps <- slips
N == INSTANCE NotificationOutbox WITH Workers <- Senders, MaxMishaps <- Mishaps, mishaps <- slips
T == INSTANCE TokenRefresh WITH Boxes <- Gateways, MaxMishaps <- Mishaps, provider <- grant, mishaps <- slips
routines == <<routine, worker, turns, draft>>
outbox == <<device, delivery, jobs, busy, phone, tokens, events>>
connection == <<account, grant, call, pending, cache, request, orphaned>>
worker_vars == <<part, vars, routines, outbox, connection, asks, slips>>

WorkersInit == /\ part \in {"image", "routine", "outbox", "token"} /\ Init /\ R!Init /\ N!Init /\ T!Init
               /\ part # "token" => account.gmail
InImage(Step) == part = "image" /\ Step /\ UNCHANGED <<part, routines, outbox, connection, asks, slips>>
InRoutine(Step) == part = "routine" /\ Step /\ UNCHANGED <<part, vars, outbox, connection>>
WorkersNext == \/ part = "image" /\ Next /\ UNCHANGED <<part, routines, outbox, connection, asks, slips>>
               \/ part = "routine" /\ R!Next /\ UNCHANGED <<part, vars, outbox, connection>>
               \/ part = "outbox" /\ N!Next /\ UNCHANGED <<part, vars, routines, connection, asks>>
               \/ part = "token" /\ T!Next /\ UNCHANGED <<part, vars, routines, outbox>>

\* FairSpec of ImageRegistry and of RoutineSchedule.
WorkersSpec == /\ WorkersInit /\ [][WorkersNext]_worker_vars
               /\ \A e \in Builders : WF_worker_vars(InImage(Builds(e)))
               /\ WF_worker_vars(InImage(BackoffEnds)) /\ WF_worker_vars(InImage(LeaseExpires))
               /\ \A w \in Builders : WF_worker_vars(InRoutine(R!Works(w)))
               /\ WF_worker_vars(InRoutine(R!LeaseExpires))

\* A queued run belongs to the definition of the routine that is live and enabled, unless a
\* Retry put it back when that definition was gone already.
OnlyRetriesOutliveRoutine == R!OnlyRetriesOutliveRoutine
\* A notification is sent to no phone of another account.
SentToRecipientOnly == N!SentToRecipientOnly
\* The token of a retry is newer than the one that was refused, and the provider ends no
\* grant for a refresh token it sees twice unless a refresh was lost.
RefreshesAreSafe == T!RetryUsesNewerToken /\ T!GrantOutlivesRefreshes
\* A due instant is fired, skipped or given up, and a request for an image is answered,
\* whichever worker dies on it.
ClaimedWorkEnds == R!DueMovesOn /\ (part = "image" => RequestSettles)
=============================================================================
