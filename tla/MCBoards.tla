------------------------------ MODULE MCBoards ------------------------------
(***************************************************************************)
(* Small opening boards for the game runs, all on the smallest board a     *)
(* game may have (3 x 3).                                                  *)
(***************************************************************************)
EXTENDS Rules

Nobody == [occupant |-> Empty, owner |-> Neutral]
Man(piece, player) == [occupant |-> piece, owner |-> player]

\* Two pieces a side, unchanged by the half turn as Intransitive's opening is.
MCSkirmish ==
  [s \in Squares |->
     CASE s = <<0, 0>> -> Man(Rock, Blue)
       [] s = <<1, 0>> -> Man(Paper, Blue)
       [] s = <<2, 2>> -> Man(Rock, Red)
       [] s = <<1, 2>> -> Man(Paper, Red)
       [] OTHER -> Nobody]

\* Blue can shut Red's only piece into its corner in one move.
MCBlockade ==
  [s \in Squares |->
     CASE s = <<0, 1>> -> Man(Rock, Blue)
       [] s = <<1, 1>> -> Man(Rock, Blue)
       [] s = <<2, 1>> -> Man(Rock, Blue)
       [] s = <<2, 2>> -> Man(Rock, Red)
       [] OTHER -> Nobody]

\* One piece a side, for the runs about clocks, offers and the log.
MCDuel ==
  [s \in Squares |->
     CASE s = <<0, 0>> -> Man(Rock, Blue)
       [] s = <<2, 2>> -> Man(Scissors, Red)
       [] OTHER -> Nobody]

MCDuels == [mode \in Modes |-> MCDuel]
MCEachMode == [mode \in Modes |-> IF mode = Intransitive THEN MCBlockade ELSE MCSkirmish]
=============================================================================
