---------------------------- MODULE MCTurnStream ----------------------------
(* The streamed turn with a few texts and artifacts.                       *)
EXTENDS TurnStreamProps
=============================================================================
