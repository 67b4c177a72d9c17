------------------------------- MODULE Rules -------------------------------
(***************************************************************************)
(* The rules of play: internal/game/mode_standard.go, the three mode_*.go  *)
(* files, and the engine-level stalemate of game.go.                       *)
(*                                                                         *)
(* Everything here is a pure operator.  A "position" is any record that    *)
(* carries the fields mode, board, turn, status, winner, reason and moves; *)
(* module Game adds clocks, offers and the event log to it.                *)
(*                                                                         *)
(* A square is a pair <<x, y>>, y running from Blue's home rank (0) to     *)
(* Red's (Height - 1), as in board.go.  A tile keeps its occupant, whose   *)
(* occupant it is, and who owns the ground.                                *)
(***************************************************************************)
EXTENDS Integers, FiniteSets

CONSTANTS
  Width, Height,  \* the shape of the board (9 x 9 in every built-in mode)
  Modes,          \* the rule sets registered
  Layout          \* each mode's opening formation: what stands on each square

Red == "Red"
Blue == "Blue"
Neutral == "Neutral"
Players == {Red, Blue}
Colors == Players \cup {Neutral}

Rock == "Rock"
Paper == "Paper"
Scissors == "Scissors"
Empty == "Empty"
Pieces == {Rock, Paper, Scissors}

Infiltration == "Infiltration"
Intransitive == "Intransitive"
TotalWar == "TotalWar"
BuiltInModes == {Infiltration, Intransitive, TotalWar}

\* FirstToMove: the side that opens every game.
FirstToMove == Blue

InProgress == "InProgress"
Finished == "Finished"

EndReasons == {"infiltration", "corner", "annihilation", "territory",
               "stalemate", "no_capture", "timeout", "resignation",
               "draw_agreement", "abandonment", "adjudication"}
NoReason == ""

Squares == (0..Width-1) \X (0..Height-1)

Occupants == ([occupant : Pieces, owner : Players]
                \cup {[occupant |-> Empty, owner |-> Neutral]})

Tiles == [occupant : Pieces \cup {Empty}, owner : Colors, ground : Colors]

\* MinBoardSide is 3: a smaller board is refused before a game is made.
ASSUME BoardAssumption ==
  /\ Width \in Nat /\ Width >= 3
  /\ Height \in Nat /\ Height >= 3

ASSUME ModeAssumption == Modes \subseteq BuiltInModes

ASSUME LayoutAssumption == Layout \in [Modes -> [Squares -> Occupants]]

-----------------------------------------------------------------------------
(* Movement: standardRPSRules.                                             *)

OtherColor(c) == IF c = Red THEN Blue ELSE Red

CanCapture(attacker, defender) ==
  <<attacker, defender>> \in
     {<<Rock, Scissors>>, <<Scissors, Paper>>, <<Paper, Rock>>}

\* One king step: the larger of the two offsets is exactly one.
Adjacent(from, to) ==
  /\ from # to
  /\ from[1] - to[1] \in -1..1
  /\ from[2] - to[2] \in -1..1

\* validateMove returns nil.
LegalMove(pos, player, from, to) ==
  /\ pos.status = InProgress
  /\ player = pos.turn
  /\ {from, to} \subseteq Squares
  /\ pos.board[from].owner = player
  /\ Adjacent(from, to)
  /\ pos.board[to].owner # player
  /\ \/ pos.board[to].occupant = Empty
     \/ CanCapture(pos.board[from].occupant, pos.board[to].occupant)

\* LegalMoves: every move of the side to move.
LegalMoves(pos) ==
  {m \in Squares \X Squares : LegalMove(pos, pos.turn, m[1], m[2])}

\* movePiece, after its validation: the piece lands, its old square empties,
\* and the ground under both is left as it was.
MovePiece(board, player, from, to) ==
  [board EXCEPT ![to].occupant = board[from].occupant,
                ![to].owner = player,
                ![from].occupant = Empty,
                ![from].owner = Neutral]

CountPieces(board, color) ==
  Cardinality({s \in Squares : board[s].owner = color})

CountGround(board, color) ==
  Cardinality({s \in Squares : board[s].ground = color})

-----------------------------------------------------------------------------
(* The three win conditions.                                               *)

\* Mutant: Blue's goal is one rank beyond the board.
GoalRankOffByOne(player) == IF player = Red THEN 0 ELSE Height

\* goalRank: the rank a side wins Infiltration by reaching.
GoalRank(player) == IF player = Red THEN 0 ELSE Height - 1

\* goalCorner: the one tile of that rank that wins Intransitive.
GoalCorner(player) == IF player = Red THEN <<0, 0>> ELSE <<Width - 1, Height - 1>>

\* TotalWarMode.Move claims the ground a piece lands on while nobody owns it.
Claimed(mode, board, player, to) ==
  IF mode = TotalWar /\ board[to].ground = Neutral
  THEN [board EXCEPT ![to].ground = player]
  ELSE board

TerritoryWinner(board) ==
  LET red == CountGround(board, Red)
      blue == CountGround(board, Blue)
  IN  IF red > blue THEN Red ELSE IF blue > red THEN Blue ELSE Neutral

NotOver == [winner |-> Neutral, reason |-> NoReason]

\* What the mode says of the board after player has landed on to, in the order
\* TotalWarMode.Move asks: annihilation is seen before a full board.
Verdict(mode, board, player, to) ==
  CASE mode = Infiltration /\ to[2] = GoalRank(player) ->
         [winner |-> player, reason |-> "infiltration"]
    [] mode = Intransitive /\ to = GoalCorner(player) ->
         [winner |-> player, reason |-> "corner"]
    [] mode = TotalWar /\ CountPieces(board, OtherColor(player)) = 0 ->
         [winner |-> player, reason |-> "annihilation"]
    [] mode = TotalWar /\ CountPieces(board, OtherColor(player)) # 0
                       /\ CountGround(board, Neutral) = 0 ->
         [winner |-> TerritoryWinner(board), reason |-> "territory"]
    [] OTHER -> NotOver

\* GameMode.Move: the piece moves, and either the mode ends the game (the turn
\* then stays with the mover) or the turn passes.
ModeMove(pos, player, from, to) ==
  LET board == Claimed(pos.mode, MovePiece(pos.board, player, from, to), player, to)
      verdict == Verdict(pos.mode, board, player, to)
      moved == [pos EXCEPT !.board = board, !.moves = @ + 1]
  IN  IF verdict = NotOver
      THEN [moved EXCEPT !.turn = OtherColor(player)]
      ELSE [moved EXCEPT !.status = Finished,
                         !.winner = verdict.winner,
                         !.reason = verdict.reason]

-----------------------------------------------------------------------------
(* The engine's own ending, asked of the side to move.                     *)

\* hasLegalMoveLocked for the player to move.
HasLegalMove(pos) == LegalMoves(pos) # {}

\* stalemateWinner: nobody, unless the mode declares FeatureStalemateLoses.
StalemateWinner(mode, stuck) ==
  IF mode = Intransitive THEN OtherColor(stuck) ELSE Neutral

\* The board a layout paints: a piece owns the ground it opens on.
OpeningBoard(mode) ==
  [s \in Squares |-> LET piece == Layout[mode][s]
                     IN  [occupant |-> piece.occupant, owner |-> piece.owner,
                          ground |-> piece.owner]]
=============================================================================
