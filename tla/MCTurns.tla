------------------------------ MODULE MCTurns ------------------------------
(* Instances for TLC of the modules about turns: what the database says of   *)
(* those of a Companion, how one prompt reaches Pi, and the trigger whose    *)
(* events open some.  They share no state, so each behaviour follows one of  *)
(* them, the part, chosen at its start: a run explores the sum of their      *)
(* state spaces and not the product.                                         *)
EXTENDS CompanionRuntime, Sequences, TLC

CONSTANTS Executors, N, Troubles, MaxInv, MaxSends, MaxPiEvents,
          Members, Places, Deliveries, MaxFailures, Slips, MaxAsks, MaxSlips

ASSUME PartsAssumption == MaxFailures \in Nat \ {0} /\ MaxAsks \in Nat /\ MaxSlips \in Nat
                          /\ "none" \notin Places /\ "nobody" \notin Members

VARIABLES part, row, projected, exec, net, broker, journal, pi, runs,
          trigger, lock, connected, hooks, request, event, run, recent, drawn, torn, asked, slips

D == INSTANCE PromptDispatch WITH Mishaps <- Troubles, MaxEvents <- MaxPiEvents
H == INSTANCE TriggerHooks WITH Events <- Deliveries, Mishaps <- Slips, MaxRequests <- MaxAsks, MaxMishaps <- MaxSlips,
                                mishaps <- slips
ExecutorSymmetry == Permutations(Executors)
ASSUME DispatchParts == D!DispatchConstants
dispatch == <<row, projected, exec, net, broker, journal, pi, runs>>
webhook == <<trigger, lock, connected, hooks, request, event, run, recent, drawn, torn, asked, slips>>

TurnsInit == /\ part \in {"companion", "dispatch", "trigger"} /\ Init /\ D!Init /\ H!Init
             /\ part # "companion" => box = "fresh"
             /\ part # "trigger" => connected
TurnsNext == \/ part = "companion" /\ Next /\ UNCHANGED <<part, dispatch, webhook>>
             \/ part = "dispatch" /\ D!Next /\ UNCHANGED <<part, vars, webhook>>
             \/ part = "trigger" /\ H!Next /\ UNCHANGED <<part, vars, dispatch>>
TurnsSpec == TurnsInit /\ [][TurnsNext]_<<part, vars, dispatch, webhook>>

\* Pi begins the prompt of an attempt at most once; what an attempt shows is its own, without
\* gaps, and the broker forgets only what is shown.
RunsOnceShownWhole == D!PromptRunsOnce /\ D!ProjectedIsItsOwn /\ D!AckedWasProjected
\* A provider keeps one hook for a URL, no hook is forgotten or left behind but where it is
\* named, and a trigger that keeps failing is disabled.
TriggersHold == H!OneHookPerUrl /\ H!HooksAreRemembered /\ H!FailuresDisable
=============================================================================
