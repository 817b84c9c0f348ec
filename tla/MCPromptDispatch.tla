-------------------------- MODULE MCPromptDispatch --------------------------
(* Instances of PromptDispatch for TLC.                                     *)
EXTENDS PromptDispatch, TLC

Replicas == {"A", "B"}
=============================================================================
