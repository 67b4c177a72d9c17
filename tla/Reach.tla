-------------------------------- MODULE Reach --------------------------------
(***************************************************************************)
(* The reach tool: frontend/src/engine/reach.ts.                           *)
(*                                                                         *)
(* How many moves one piece needs to every square, how soon a piece that   *)
(* captures it could be there, and whether a run to the goal row survives. *)
(* A distance map is a function from squares; what the code writes as      *)
(* Infinity is a number no walk on the board reaches.  The code is nine by *)
(* nine on purpose; here the board is Width by Height.                     *)
(***************************************************************************)
EXTENDS ClientRules, Sequences

ObstacleModels == {"open", "static", "friendlyVacates"}
SafetyRules == {"perStep", "wholeRun", "off"}

UNREACHABLE == Width * Height + 2

\* A function written out once and for all, as the arrays of the code are.
Table(f) == CHOOSE table \in {f} : table = f

MinOf(S) == CHOOSE n \in S : \A k \in S : n <= k
Last(path) == path[Len(path)]

goalRowFor(color) == IF color = Red THEN 0 ELSE Height - 1

Walker(grid, s) == [from |-> s, piece |-> grid[s].occupant, owner |-> grid[s].owner]

walkersOn(grid) == {Walker(grid, s) : s \in {q \in Squares : grid[q].occupant # Empty}}

\* passableFor: where this walker may stand.
passableFor(grid, w, obstacles) ==
  {s \in Squares : \/ s = w.from
                   \/ obstacles = "open"
                   \/ grid[s].occupant = Empty
                   \/ grid[s].owner = w.owner /\ obstacles = "friendlyVacates"
                   \/ grid[s].owner # w.owner /\ canCapture(w.piece, grid[s].occupant)}

\* reachMap: a breadth-first walk, layer by layer.  spread[n] is the map after n
\* layers, and the squares the last of them reached.
Spread(from, passable) ==
  LET spread[n \in Nat] ==
        IF n = 0
        THEN [distance |-> Table([s \in Squares |-> IF s = from THEN 0 ELSE UNREACHABLE]),
              frontier |-> {from}]
        ELSE LET walk == spread[n - 1]
                 next == {s : s \in {q \in passable : /\ walk.distance[q] = UNREACHABLE
                                                      /\ \E f \in walk.frontier : KingStep(f, q)}}
             IN  IF walk.frontier = {} THEN walk
                 ELSE [distance |-> Table([s \in Squares |->
                                             IF s \in next THEN n ELSE walk.distance[s]]),
                       frontier |-> next]
  IN  spread

\* No layer is left to walk long before this one.
reachMap(grid, w, obstacles) ==
  Spread(w.from, passableFor(grid, w, obstacles))[UNREACHABLE - 1].distance

mergeMaps(maps) ==
  Table([s \in Squares |-> MinOf({UNREACHABLE} \cup {map[s] : map \in maps})])

\* predators: the enemy pieces of the one kind that captures this one.
predators(grid, w) ==
  {p \in walkersOn(grid) : p.piece = predatorOf(w.piece) /\ p.owner = opposingColor(w.owner)}

threatMap(grid, w, obstacles) ==
  mergeMaps({reachMap(grid, p, obstacles) : p \in predators(grid, w)})

-----------------------------------------------------------------------------
(* Runs.                                                                   *)

\* Mutant: a predator that arrives together with the runner is late.
safeAtStepLoosely(threat, step, walkerToMove) ==
  threat >= step + (IF walkerToMove THEN 0 ELSE 1)

safeAtStep(threat, step, walkerToMove) ==
  threat > step + (IF walkerToMove THEN 0 ELSE 1)

\* boundedWalk: one layer further along every walk so far.  A square is asked
\* about once, when it is first reached.
Extended(layer, step, allowedAt) ==
  LET fresh == {s : s \in {q \in Squares \ layer.seen : \E w \in layer.walks : KingStep(Last(w), q)}}
      entered == {s : s \in {q \in fresh : step \in allowedAt[q]}}
  IN  [walks |-> UNION {{Append(w, s) : s \in {e \in entered : KingStep(Last(w), e)}} :
                          w \in layer.walks},
       seen |-> layer.seen \cup fresh]

Home(layer, goalRow) == {w \in layer.walks : Last(w)[2] = goalRow}

\* The layers, up to the first that comes home.
Layers(start, goalRow, allowedAt) ==
  LET after[n \in Nat] ==
        IF n = 0 THEN [walks |-> {<<start>>}, seen |-> {start}]
        ELSE LET layer == after[n - 1]
             IN  IF Home(layer, goalRow) # {} THEN layer ELSE Extended(layer, n, allowedAt)
  IN  after

\* The walks that come home first, of which the code returns one; no square is
\* allowed at a step past the last of Steps.
boundedWalk(start, goalRow, allowedAt) ==
  Home(Layers(start, goalRow, allowedAt)[Width * Height], goalRow)

Steps == 1..Width * Height
Moves(path) == Len(path) - 1

\* safeRun, against a threat map: the runs of which it returns one, or none.
safeRun(grid, w, goalRow, options, threat) ==
  LET passable == passableFor(grid, w, options.obstacles)
      exempt(s) == options.goalEndsGame /\ s[2] = goalRow
      stepwise ==
        Table([s \in Squares |->
           {k \in Steps : /\ s \in passable
                          /\ \/ options.safety = "off" \/ exempt(s)
                             \/ safeAtStep(threat[s], k, options.walkerToMove)}])
      within(n) ==
        {p \in boundedWalk(w.from, goalRow,
                 [s \in Squares |-> IF s \in passable /\ (exempt(s) \/ threat[s] >= n)
                                    THEN Steps ELSE {}]) : Moves(p) <= n}
      lengths == {n \in Steps : within(n) # {}}
  IN  IF options.safety # "wholeRun" THEN boundedWalk(w.from, goalRow, stepwise)
      ELSE IF lengths = {} THEN {} ELSE within(MinOf(lengths))

distanceToRow(map, row) == MinOf({map[s] : s \in {q \in Squares : q[2] = row}})

-----------------------------------------------------------------------------
(* Readings and the verdict.                                               *)

NoRun == -1

RunLength(runs) == IF runs = {} THEN NoRun ELSE Moves(CHOOSE p \in runs : TRUE)

RunOptions(w, options) ==
  [obstacles |-> options.obstacles, safety |-> options.safety,
   walkerToMove |-> w.owner = options.toMove, goalEndsGame |-> options.goalEndsGame]

\* readPiece: how far the piece is, and whether it gets there.
readPiece(grid, w, options) ==
  LET threat == threatMap(grid, w, options.obstacles)
      row == goalRowFor(w.owner)
  IN  [walker |-> w,
       openDistance |-> distanceToRow(reachMap(grid, w, "open"), row),
       blockedDistance |-> distanceToRow(reachMap(grid, w, options.obstacles), row),
       safeDistance |-> RunLength(safeRun(grid, w, row, RunOptions(w, options), threat)),
       attackedIn |-> threat[w.from],
       immortal |-> predators(grid, w) = {}]

\* fastest: the shortest safe run a side has.
fastest(readings, color) ==
  LET runs == {r.safeDistance : r \in {q \in readings : q.walker.owner = color}} \ {NoRun}
  IN  IF runs = {} THEN NoRun ELSE MinOf(runs)

NoMargin == -1

\* Mutant: a dead heat goes to the side that is not to move.
judgeDeadHeatAgainst(red, blue, toMove) ==
  LET mine == IF toMove = Red THEN red ELSE blue
      theirs == IF toMove = Red THEN blue ELSE red
  IN  CASE red = NoRun /\ blue = NoRun -> [winner |-> Neutral, margin |-> NoMargin]
        [] red = NoRun /\ blue # NoRun -> [winner |-> Blue, margin |-> NoMargin]
        [] red # NoRun /\ blue = NoRun -> [winner |-> Red, margin |-> NoMargin]
        [] OTHER -> IF mine < theirs
                    THEN [winner |-> toMove, margin |-> theirs - mine]
                    ELSE [winner |-> opposingColor(toMove), margin |-> mine - theirs]

judge(red, blue, toMove) ==
  LET mine == IF toMove = Red THEN red ELSE blue
      theirs == IF toMove = Red THEN blue ELSE red
  IN  CASE red = NoRun /\ blue = NoRun -> [winner |-> Neutral, margin |-> NoMargin]
        [] red = NoRun /\ blue # NoRun -> [winner |-> Blue, margin |-> NoMargin]
        [] red # NoRun /\ blue = NoRun -> [winner |-> Red, margin |-> NoMargin]
        [] OTHER -> IF mine <= theirs
                    THEN [winner |-> toMove, margin |-> theirs - mine]
                    ELSE [winner |-> opposingColor(toMove), margin |-> mine - theirs - 1]

\* analyzeReach.
analyzeReach(grid, options) ==
  LET readings == {readPiece(grid, w, options) : w \in walkersOn(grid)}
      red == fastest(readings, Red)
      blue == fastest(readings, Blue)
  IN  [readings |-> readings, red |-> red, blue |-> blue,
       verdict |-> judge(red, blue, options.toMove)]
=============================================================================
