-------------------------------- MODULE Racer --------------------------------
(***************************************************************************)
(* The greedy racer: frontend/src/engine/racer.ts.                         *)
(*                                                                         *)
(* A player that grades every legal move by the race it leaves behind, and *)
(* looks one reply deep at the opponent's captures.  It keeps no state; a  *)
(* reading of a side is a record of distances, in moves.  The penalty for  *)
(* walking back into a position is left out with the history it reads.     *)
(***************************************************************************)
EXTENDS Reach, Integers

\* RACE_WEIGHTS, NO_RUN.
Weight == [clear |-> 120, safe |-> 40, progress |-> 8, runners |-> 15, win |-> 30000]
NO_RUN == 16

\* No difference between two races weighs as much as a game won.
ASSUME WeightAssumption ==
  NO_RUN * (Weight.clear + Weight.safe + Weight.progress) + Weight.runners * (Width * Height)
    < Weight.win - 1

\* twinsOf: enemy pieces of the walker's own kind, which can only stand in its way.
twinsOf(grid, w) ==
  {t \in walkersOn(grid) : t.piece = w.piece /\ t.owner = opposingColor(w.owner)}

clearMap(grid, w, obstacles) ==
  mergeMaps({threatMap(grid, w, obstacles)}
              \cup {reachMap(grid, t, obstacles) : t \in twinsOf(grid, w)})

\* The shortest of the walkers' runs, or NoRun.
ShortestOf(lengths) == IF lengths \subseteq {NoRun} THEN NoRun ELSE MinOf(lengths \ {NoRun})

\* readRace, with the obstacles as they stand.
readRace(pos, color) ==
  LET mine == {w \in walkersOn(pos.grid) : w.owner = color}
      row == goalRowFor(color)
      options(safety) ==
        [obstacles |-> "static", safety |-> safety, goalEndsGame |-> TRUE,
         walkerToMove |-> pos.currentTurn = color]
      run(w, safety, map) == RunLength(safeRun(pos.grid, w, row, options(safety), map))
      route == [w \in mine |-> run(w, "off", [s \in Squares |-> UNREACHABLE])]
      safe == [w \in mine |-> run(w, "perStep", threatMap(pos.grid, w, "static"))]
      runners == {w \in mine : safe[w] # NoRun}
  IN  [blockedDistance |-> ShortestOf({route[w] : w \in mine}),
       safeDistance |-> ShortestOf({safe[w] : w \in mine}),
       clearDistance |-> ShortestOf({run(w, "perStep", clearMap(pos.grid, w, "static")) :
                                       w \in runners}),
       safeRunners |-> Cardinality(runners)]

distanceValue(d) == IF d = NoRun \/ d > NO_RUN THEN NO_RUN ELSE d

\* Mutant: the opponent's run home is not looked at.
scoreReadingsBlind(pos, color, mine, theirs) ==
  IF pos.currentTurn = color /\ mine.blockedDistance = 1 THEN Weight.win - 1
  ELSE Weight.clear * (distanceValue(theirs.clearDistance) - distanceValue(mine.clearDistance))

\* scoreReadings: a side to move one step from its goal row has won.
scoreReadings(pos, color, mine, theirs) ==
  LET ahead(field(_)) == distanceValue(field(theirs)) - distanceValue(field(mine))
  IN  IF pos.currentTurn # color /\ theirs.blockedDistance = 1 THEN 1 - Weight.win
      ELSE IF pos.currentTurn = color /\ mine.blockedDistance = 1 THEN Weight.win - 1
      ELSE Weight.clear * ahead(LAMBDA r : r.clearDistance)
             + Weight.safe * ahead(LAMBDA r : r.safeDistance)
             + Weight.progress * ahead(LAMBDA r : r.blockedDistance)
             + Weight.runners * (mine.safeRunners - theirs.safeRunners)

scoreRace(pos, color) ==
  scoreReadings(pos, color, readRace(pos, color), readRace(pos, opposingColor(color)))

decidedScore(g, color) ==
  CASE g.winner = color -> Weight.win
    [] g.winner = opposingColor(color) -> -Weight.win
    [] OTHER -> 0

ScoreAfter(g, color) ==
  IF g.status = Finished THEN decidedScore(g, color) ELSE scoreRace(g, color)

After(g, m) == applyAnalysisMove(g, m[1], m[2])

\* The scores worstCaptureReply takes the least of.
CaptureReplies(g, color) ==
  {ScoreAfter(After(g, m), color) :
     m \in {r \in allValidMoves(g) : g.grid[r[2]].occupant # Empty}}

\* rankRaceMoves: a move's score, with answerCaptures on.
MoveScore(g, m) ==
  LET next == After(g, m)
      own == ScoreAfter(next, g.currentTurn)
  IN  IF next.status = Finished THEN own
      ELSE MinOf({own} \cup CaptureReplies(next, g.currentTurn))

\* bestRaceMove: one of these; the sort breaks the tie by board order.
bestRaceMoves(g) ==
  LET moves == allValidMoves(g)
      score == [m \in moves |-> MoveScore(g, m)]
  IN  {m \in moves : \A k \in moves : score[m] >= score[k]}
=============================================================================
