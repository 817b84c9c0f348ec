------------------------- MODULE MCCompanionRuntime -------------------------
(***************************************************************************)
(* Small Companions for CompanionRuntime.  Turns of one lane differ only   *)
(* in their place in the queue, so the safety runs that have two member    *)
(* turns take them up to permutation; no CHOOSE of the model depends on    *)
(* which turn is which (the least queue_sequence among queued turns is     *)
(* unique).                                                                *)
(***************************************************************************)
EXTENDS CompanionRuntime, TLC

TurnSymmetry == Permutations(MemberTurns)
=============================================================================
