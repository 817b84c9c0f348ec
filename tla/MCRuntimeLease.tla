--------------------------- MODULE MCRuntimeLease ---------------------------
(***************************************************************************)
(* Small Companions for RuntimeLease: a choice of work rows per run, two   *)
(* executors that may each present any claim they were ever granted.       *)
(***************************************************************************)
EXTENDS RuntimeLease, TLC

CONSTANTS chat, ask, job, boot, stopBox, remove, tune, upkeep

\* chat: a main turn, ask: its question, job: a routine turn, boot: the start
\* that wakes the Box for chat, stopBox: a stop, remove: a permanent delete,
\* tune: a settings operation, upkeep: health.
MCKindOf == [w \in Works |->
  CASE w \in {chat, job} -> "turn"
    [] w = ask     -> "decision"
    [] w = boot    -> "start"
    [] w = stopBox -> "lifecycle"
    [] w = remove  -> "delete"
    [] w = tune    -> "apply"
    [] w = upkeep  -> "standing"]

MCLaneOf == [w \in Works |-> IF w = job THEN "routine" ELSE "main"]

MCTurnOf == [w \in Works |-> IF w \in {ask, boot} THEN chat ELSE NoWork]

\* Executors are interchangeable.
Replicas == Permutations(Executors)
=============================================================================
