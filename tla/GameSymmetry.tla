---------------------------- MODULE GameSymmetry ----------------------------
(***************************************************************************)
(* The relabellings of a game: internal/game/half_turn.go and symmetry.go. *)
(*                                                                         *)
(* The half turn rotates the board and swaps the colours; the archive uses *)
(* it to rewrite games recorded before Blue moved first.  A mode's own     *)
(* symmetry keeps the colours; the opening statistics fold positions       *)
(* together on the strength of it.  Both are declared, half of each claim  *)
(* lives in the win conditions, and nothing at run time notices when one   *)
(* of them stops being true.                                               *)
(***************************************************************************)
EXTENDS Game

\* swapColor: unlike OtherColor it leaves Neutral, and no colour, alone.
SwapColor(c) == IF c \in Players THEN OtherColor(c) ELSE c

HalfTurnSquare(s) == <<Width - 1 - s[1], Height - 1 - s[2]>>

\* HalfTurnGrid: territory turns with the pieces.
HalfTurnBoard(board) ==
  [s \in Squares |->
     LET tile == board[HalfTurnSquare(s)]
     IN  [occupant |-> tile.occupant,
          owner |-> SwapColor(tile.owner), ground |-> SwapColor(tile.ground)]]

\* BoardSymmetry.Square for the one symmetry the mode declares.
SymmetrySquare(mode, s) ==
  IF mode = Intransitive THEN <<s[2], s[1]>> ELSE <<Width - 1 - s[1], s[2]>>

\* FitsBoard: the diagonal needs a square board.
SymmetryFits(mode) == mode = Intransitive => Width = Height

\* BoardSymmetry.Grid; each symmetry is its own inverse.
SymmetryBoard(mode, board) == [s \in Squares |-> board[SymmetrySquare(mode, s)]]

-----------------------------------------------------------------------------

\* The game one side played, written as the game the other side played.
HalfTurn(g) ==
  [g EXCEPT !.board = HalfTurnBoard(@), !.turn = SwapColor(@),
            !.winner = SwapColor(@), !.active = SwapColor(@),
            !.drawBy = SwapColor(@), !.drawUsed = SwapColor(@),
            !.timeBy = SwapColor(@), !.timeUsed = SwapColor(@),
            !.remaining = [c \in Players |-> @[SwapColor(c)]],
            !.emitted = <<>>]

Relabelled(g) ==
  [g EXCEPT !.board = SymmetryBoard(g.mode, @), !.emitted = <<>>]

Unrecorded(g) == [g EXCEPT !.emitted = <<>>]

SamePlay(g, relabel(_), square(_), mover) ==
  LET image == relabel(g)
  IN  \A from, to \in Squares :
        /\ LegalMove(g, g.turn, from, to)
             <=> LegalMove(image, mover, square(from), square(to))
        /\ LegalMove(g, g.turn, from, to) =>
             relabel(AfterMove(g, g.turn, from, to))
               = Unrecorded(AfterMove(image, mover, square(from), square(to)))

\* The half turn plays the same game: from every position of every mode, the
\* turned position allows exactly the turned moves, and each leads to the
\* turned outcome -- winner, ending, clocks and offers included
\* (half_turn.go:12-21, TestHalfTurnPlaysTheSameGame).
HalfTurnPlaysTheSameGame ==
  game.status = InProgress =>
    SamePlay(game, HalfTurn, HalfTurnSquare, OtherColor(game.turn))

\* So does the symmetry the mode declares, with the colours left alone
\* (symmetry.go, TestBuiltInSymmetriesPlayTheSameGame).
ModeSymmetryPlaysTheSameGame ==
  game.status = InProgress /\ SymmetryFits(game.mode) =>
    LET square(s) == SymmetrySquare(game.mode, s)
    IN  SamePlay(game, Relabelled, square, game.turn)

\* Both symmetries the archive and the statistics fold positions with.
SymmetriesPlayTheSameGame == HalfTurnPlaysTheSameGame /\ ModeSymmetryPlaysTheSameGame
=============================================================================
