----------------------------- MODULE ClientRules -----------------------------
(***************************************************************************)
(* The rules in the browser: frontend/src/engine/analysisGame.ts, goals.ts *)
(* and modeRules.ts.                                                       *)
(*                                                                         *)
(* The client holds a second implementation of the rules, for analysis     *)
(* boards, bot games and the replay of archived games, and nothing at run  *)
(* time compares it with the server's.  The definitions here are read off  *)
(* the TypeScript alone; of module Rules they take the board, its squares  *)
(* and the names.  The repetition draw is switched off in both             *)
(* implementations, so the history it would read is left out.              *)
(***************************************************************************)
EXTENDS Rules

CONSTANT QuietPlyLimit   \* QUIET_PLY_LIMIT

ASSUME ClientQuietAssumption == QuietPlyLimit \in Nat /\ QuietPlyLimit > 0

\* RulesEra: today's goals, or those of before the board flip.
Eras == {"current", "preChange"}

opposingColor(side) == IF side = Red THEN Blue ELSE Red

canCapture(attacker, defender) ==
  \/ attacker = Rock /\ defender = Scissors
  \/ attacker = Scissors /\ defender = Paper
  \/ attacker = Paper /\ defender = Rock

predatorOf(piece) ==
  CASE piece = Rock -> Paper [] piece = Paper -> Scissors [] OTHER -> Rock

-----------------------------------------------------------------------------
(* Goals and the mode's own rules.                                         *)

NobodysGoal == Neutral

swapSide(side) ==
  CASE side = Red -> Blue [] side = Blue -> Red [] OTHER -> NobodysGoal

\* goalOwnerAt under today's rules: whose arrival wins on this square.
GoalOwnerToday(mode, s) ==
  CASE mode = Infiltration /\ s[2] = 0 -> Red
    [] mode = Infiltration /\ s[2] = Height - 1 -> Blue
    [] mode = Intransitive /\ s = <<0, 0>> -> Red
    [] mode = Intransitive /\ s = <<Width - 1, Height - 1>> -> Blue
    [] OTHER -> NobodysGoal

\* Mutant: the mirrored rank without the swapped side.
goalOwnerUnswapped(mode, s, era) ==
  IF era = "preChange" THEN GoalOwnerToday(mode, <<s[1], Height - 1 - s[2]>>)
                       ELSE GoalOwnerToday(mode, s)

\* Before the flip, today's rule at the mirrored rank with the sides swapped.
goalOwnerAt(mode, s, era) ==
  IF era = "preChange"
  THEN swapSide(GoalOwnerToday(mode, <<s[1], Height - 1 - s[2]>>))
  ELSE GoalOwnerToday(mode, s)

goalEndReason(mode) ==
  CASE mode = Infiltration -> "infiltration" [] mode = Intransitive -> "corner"

stalemateLoses(mode) == mode = Intransitive

-----------------------------------------------------------------------------
(* Moves.                                                                  *)

\* newGame: nobody asks whether the side to move can move.
newGame(mode, grid, side, era) ==
  [mode |-> mode, grid |-> grid, currentTurn |-> side, era |-> era,
   status |-> InProgress, winner |-> Neutral, endReason |-> NoReason,
   moveNumber |-> 0, quietPlies |-> 0]

KingStep(from, to) ==
  from # to /\ to[1] - from[1] \in -1..1 /\ to[2] - from[2] \in -1..1

\* stepTargets: where a piece could step, whoever is to move.
stepTargets(grid, from, mover, piece) ==
  {to \in Squares : /\ KingStep(from, to)
                    /\ grid[to].owner # mover
                    /\ \/ grid[to].occupant = Empty
                       \/ canCapture(piece, grid[to].occupant)}

validMovesFor(g, from) ==
  IF g.status = InProgress /\ g.grid[from].occupant # Empty
                           /\ g.grid[from].owner = g.currentTurn
  THEN stepTargets(g.grid, from, g.currentTurn, g.grid[from].occupant)
  ELSE {}

allValidMoves(g) == {m \in Squares \X Squares : m[2] \in validMovesFor(g, m[1])}

countPieces(grid, color) == Cardinality({s \in Squares : grid[s].owner = color})
territory(grid, color) == Cardinality({s \in Squares : grid[s].ground = color})

\* The board after the piece has landed and, in Total War, taken free ground.
Landed(g, from, to) ==
  [g.grid EXCEPT
     ![to] = [occupant |-> g.grid[from].occupant, owner |-> g.currentTurn,
              ground |-> IF g.mode = TotalWar /\ @.ground = Neutral
                         THEN g.currentTurn ELSE @.ground],
     ![from].occupant = Empty, ![from].owner = Neutral]

\* Mutant: a decided game passes the turn like any other.
DecidedTurnPassed(g, mover, winner, reason) ==
  [g EXCEPT !.status = Finished, !.winner = winner, !.endReason = reason]

\* decide: the turn goes back to whoever moved.
Decided(g, mover, winner, reason) ==
  [g EXCEPT !.status = Finished, !.winner = winner, !.endReason = reason,
            !.currentTurn = mover]

\* What the mode says once mover has landed on to, in the order asked.
ModeEnding(g, mover, to) ==
  CASE g.mode = TotalWar /\ countPieces(g.grid, opposingColor(mover)) = 0 ->
         Decided(g, mover, mover, "annihilation")
    [] goalOwnerAt(g.mode, to, g.era) = mover ->
         Decided(g, mover, mover, goalEndReason(g.mode))
    [] /\ g.mode = TotalWar
       /\ countPieces(g.grid, opposingColor(mover)) # 0
       /\ territory(g.grid, Neutral) = 0 ->
         LET red == territory(g.grid, Red)
             blue == territory(g.grid, Blue)
         IN  Decided(g, mover, IF red = blue THEN Neutral
                               ELSE IF red > blue THEN Red ELSE Blue, "territory")
    [] OTHER -> g

\* The side to move cannot, once the turn has passed.
StuckEnding(g, mover) ==
  IF g.status = InProgress /\ allValidMoves(g) = {}
  THEN [g EXCEPT !.status = Finished, !.endReason = "stalemate",
                 !.winner = IF stalemateLoses(g.mode) THEN mover ELSE Neutral]
  ELSE g

QuietEnding(g) ==
  IF g.status = InProgress /\ g.quietPlies >= QuietPlyLimit
  THEN [g EXCEPT !.status = Finished, !.winner = Neutral, !.endReason = "no_capture"]
  ELSE g

\* applyAnalysisMove, of a move validMovesFor allows.
applyAnalysisMove(g, from, to) ==
  LET mover == g.currentTurn
      moved == [g EXCEPT !.grid = Landed(g, from, to),
                         !.currentTurn = opposingColor(mover),
                         !.moveNumber = @ + 1,
                         !.quietPlies = IF g.grid[to].occupant # Empty THEN 0 ELSE @ + 1]
  IN  QuietEnding(StuckEnding(ModeEnding(moved, mover, to), mover))
=============================================================================
