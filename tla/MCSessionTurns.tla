--------------------------- MODULE MCSessionTurns ---------------------------
(* Small instances of SessionTurns for TLC.  Turns are interchangeable     *)
(* where no constant singles one out (ChartTurns is empty).                *)
EXTENDS SessionTurnsProps, TLC

TurnSymmetry == Permutations(Turns)
=============================================================================
