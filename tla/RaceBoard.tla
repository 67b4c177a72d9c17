------------------------------ MODULE RaceBoard ------------------------------
(***************************************************************************)
(* A board the reach tool is open on: moves are played by the browser's    *)
(* rules, from the openings and from positions set up in the editor, and a *)
(* run the tool draws is played out.                                       *)
(*                                                                         *)
(* The run is played out against the defence the tool says it assumes      *)
(* (docs/reach.md, "The verdict, and what it is worth"): the enemy         *)
(* intercepts with the pieces that can capture the runner, one legal step  *)
(* at a time, or spends its move where it changes nothing; everything else *)
(* stands still.                                                           *)
(***************************************************************************)
EXTENDS Racer

CONSTANTS
  Starts,      \* the games a board is opened on: where it came from, and the game
  RunChoices,  \* the settings runs are drawn under
  MaxMoves     \* bound: moves played on a board, by where it came from

\* A piece and its owner come and go together, on every board the code makes
\* (gridFromRows).
Manned(grid) == \A s \in Squares : grid[s].occupant = Empty <=> grid[s].owner = Neutral

\* In no opening does a piece stand on the row it runs to.
NobodyHome(grid) == \A s \in Squares : grid[s].owner # Neutral => s[2] # goalRowFor(grid[s].owner)

ASSUME StartsAssumption ==
  \A start \in Starts : \E mode \in Modes, side \in Players, era \in Eras :
    /\ start[1] \in {"opening", "editor"}
    /\ start = <<start[1], newGame(mode, start[2].grid, side, era)>>
    /\ start[2].grid \in [Squares -> Tiles]
    /\ Manned(start[2].grid)
    /\ start[1] = "opening" /\ mode = Infiltration => NobodyHome(start[2].grid)

ASSUME RunChoicesAssumption ==
  RunChoices \subseteq [obstacles : ObstacleModels, safety : SafetyRules, goalEndsGame : BOOLEAN]

VARIABLES
  source,      \* "opening" or "editor"
  shown,       \* the AnalysisGame on the board
  chase        \* the run being played out

raceVars == <<source, shown, chase>>

NoChase == [stage |-> "none"]

RaceInit ==
  /\ chase = NoChase
  /\ \E start \in Starts : source = start[1] /\ shown = start[2]

\* A move on the board.
Play(from, to) ==
  /\ chase = NoChase
  /\ shown.moveNumber < MaxMoves[source]
  /\ to \in validMovesFor(shown, from)
  /\ shown' = applyAnalysisMove(shown, from, to)
  /\ UNCHANGED <<source, chase>>

\* Mutant: nobody counts the tempo of the side that moves first.
TempoIgnored(w, choice) ==
  [obstacles |-> choice.obstacles, safety |-> choice.safety,
   walkerToMove |-> TRUE, goalEndsGame |-> choice.goalEndsGame]

\* The settings of the panel, asked of one piece.
DrawnWith(w, choice) ==
  [obstacles |-> choice.obstacles, safety |-> choice.safety,
   walkerToMove |-> w.owner = shown.currentTurn, goalEndsGame |-> choice.goalEndsGame]

DrawnRuns(w, choice) ==
  safeRun(shown.grid, w, goalRowFor(w.owner), DrawnWith(w, choice),
          threatMap(shown.grid, w, choice.obstacles))

DrawRun(w, choice) ==
  /\ chase = NoChase
  /\ shown.mode = Infiltration /\ shown.status = InProgress
  /\ \E path \in DrawnRuns(w, choice) :
       /\ Moves(path) > 0
       /\ chase' = [stage |-> "running", runner |-> w, choice |-> choice, path |-> path,
                    at |-> 1, grid |-> shown.grid, turn |-> shown.currentTurn]
  /\ UNCHANGED <<source, shown>>

Runner == chase.runner.owner
Standing == chase.path[chase.at]

MovedOn(from, to) ==
  Landed([mode |-> Infiltration, grid |-> chase.grid, currentTurn |-> chase.turn], from, to)

\* The runner takes the next step of its run.  Home, and the goal ending the
\* game, the run is over; otherwise the enemy still has its reply.
RunOn ==
  LET to == chase.path[chase.at + 1]
      home == chase.at + 1 = Len(chase.path)
  IN  /\ chase.stage = "running" /\ chase.turn = Runner
      /\ chase.at < Len(chase.path)
      /\ to \in stepTargets(chase.grid, Standing, Runner, chase.runner.piece)
      /\ chase' = [chase EXCEPT !.at = @ + 1, !.grid = MovedOn(Standing, to),
                                !.turn = opposingColor(Runner),
                                !.stage = IF home /\ chase.choice.goalEndsGame
                                          THEN "home" ELSE @]
      /\ UNCHANGED <<source, shown>>

\* A predator steps; on the runner's square it takes it.
Intercept(p, to) ==
  /\ chase.stage = "running" /\ chase.turn # Runner
  /\ p \in {w \in walkersOn(chase.grid) : w.owner # Runner
                                          /\ w.piece = predatorOf(chase.runner.piece)}
  /\ to \in stepTargets(chase.grid, p.from, p.owner, p.piece)
  /\ chase' = [chase EXCEPT !.grid = MovedOn(p.from, to), !.turn = Runner,
                            !.stage = IF to = Standing THEN "caught" ELSE @]
  /\ UNCHANGED <<source, shown>>

WaitElsewhere ==
  /\ chase.stage = "running" /\ chase.turn # Runner
  /\ chase' = [chase EXCEPT !.turn = Runner]
  /\ UNCHANGED <<source, shown>>

RaceNext ==
  \/ \E from, to \in Squares : Play(from, to)
  \/ \E w \in walkersOn(shown.grid), choice \in RunChoices : DrawRun(w, choice)
  \/ RunOn
  \/ \E s, to \in Squares : chase # NoChase /\ Intercept(Walker(chase.grid, s), to)
  \/ WaitElsewhere

RaceSpec == RaceInit /\ [][RaceNext]_raceVars

-----------------------------------------------------------------------------
(* Properties.                                                             *)

AnalysisGames ==
  [mode : Modes, grid : [Squares -> Tiles], currentTurn : Players, era : Eras,
   status : {InProgress, Finished}, winner : Colors, endReason : EndReasons \cup {NoReason},
   moveNumber : Nat, quietPlies : 0..QuietPlyLimit]

Chases ==
  [stage : {"running", "home", "caught"}, runner : [from : Squares, piece : Pieces, owner : Players],
   choice : RunChoices, path : Seq(Squares), at : Nat, grid : [Squares -> Tiles], turn : Players]

\* Every part of the board and of the run keeps its type.
RaceTypeOK == shown \in AnalysisGames /\ (chase = NoChase \/ chase \in Chases)

\* The server's engine, with nothing on the clocks.
Server == INSTANCE Game WITH
  game <- shown, InitialTime <- 1, Increment <- 0, TimeExtension <- 0, MaxMs <- 1,
  NoDrawOffers <- TRUE, NoTimeExtensions <- TRUE, ClockStartsOnFirstMove <- FALSE,
  HoldSpans <- {}, MaxLag <- 0

OnTheServer(g) ==
  [mode |-> g.mode, board |-> g.grid, turn |-> g.currentTurn, status |-> g.status,
   winner |-> g.winner, reason |-> g.endReason, moves |-> g.moveNumber,
   drawBy |-> "", drawUsed |-> "", timeBy |-> "", timeUsed |-> "",
   remaining |-> [c \in Players |-> 1], active |-> g.currentTurn, clockPending |-> FALSE,
   quiet |-> g.quietPlies, plies |-> g.moveNumber, pending |-> 0, endRecorded |-> FALSE,
   lag |-> 0, emitted |-> <<>>]

Seen(g) ==
  <<g.board, g.turn, g.status, g.winner, g.reason, g.moves, g.quiet>>

\* The two implementations of the rules are one game: from every position of
\* every mode they allow the same moves, and each move leads to the same board,
\* turn, winner and ending on the server and in the browser ("Every rule here is
\* the rule from backend/internal/game", analysisGame.ts:3-7).  A replayed
\* archive, a bot game and a review all rest on it, and nothing compares them.
\* The server plays by today's goals only.
ClientPlaysTheServersRules ==
  chase = NoChase /\ shown.era = "current" =>
    \A from, to \in Squares :
      LET g == OnTheServer(shown)
          legal == Server!LegalMove(g, g.turn, from, to)
      IN  /\ legal <=> to \in validMovesFor(shown, from)
          /\ legal => Seen(Server!AfterMove(g, g.turn, from, to))
                        = Seen(OnTheServer(applyAnalysisMove(shown, from, to)))

Upended(s) == <<s[1], Height - 1 - s[2]>>
OtherEra(era) == IF era = "current" THEN "preChange" ELSE "current"
UpendedColor(c) == IF c = Neutral THEN Neutral ELSE opposingColor(c)

UpendedGame(g) ==
  [g EXCEPT !.grid = [s \in Squares |-> [g.grid[Upended(s)] EXCEPT
                                           !.owner = UpendedColor(@), !.ground = UpendedColor(@)]],
            !.currentTurn = opposingColor(@), !.winner = UpendedColor(@), !.era = OtherEra(@)]

\* An archived game from before the board flip, judged by the older goals, is
\* the game on today's board turned over: the same moves, the same endings
\* (goals.ts:27-47, 67-74).  The compiler of opening statistics turns the record
\* over and the review moves the goals, so the two have to agree.
OlderEraIsTheBoardTurnedOver ==
  chase = NoChase =>
    \A from, to \in Squares :
      LET turned == UpendedGame(shown)
          legal == to \in validMovesFor(shown, from)
      IN  /\ legal <=> Upended(to) \in validMovesFor(turned, Upended(from))
          /\ legal => UpendedGame(applyAnalysisMove(shown, from, to))
                        = applyAnalysisMove(turned, Upended(from), Upended(to))

Racing == chase = NoChase /\ shown.mode = Infiltration /\ shown.status = InProgress

\* Where a walker may be after n steps if it may come back to a square or stand
\* still: the plies counted out, with no memory of the squares already seen.
DawdledTo(start, survivesAt) ==
  LET at[n \in Nat] ==
        IF n = 0 THEN {start}
        ELSE LET before == at[n - 1]
             IN  {s : s \in {q \in Squares : /\ n \in survivesAt[q]
                                             /\ \E f \in before : KingStep(f, q) \/ f = q}}
  IN  at

\* One walk that never looks at a square twice finds a run whenever there is
\* one, and the shortest: coming to a square later is never better (reach.ts:
\* 235-238).  Compared, for every piece and setting, with a walk that
\* may come back to squares and stand still, on the boards set up for it.
OneWalkFindsTheRun ==
  Racing /\ source = "editor" =>
    \A w \in walkersOn(shown.grid), choice \in RunChoices :
      choice.safety = "perStep" /\ w.from[2] # goalRowFor(w.owner) =>
        LET threat == threatMap(shown.grid, w, choice.obstacles)
            passable == passableFor(shown.grid, w, choice.obstacles)
            enemyMoves(k) == IF w.owner = shown.currentTurn THEN k - 1 ELSE k
            survivesAt ==
              Table([s \in Squares |->
                 {k \in Steps : /\ s \in passable
                                /\ \/ choice.goalEndsGame /\ s[2] = goalRowFor(w.owner)
                                   \/ threat[s] > enemyMoves(k) + 1}])
            at == DawdledTo(w.from, survivesAt)
            home == {n \in Steps : \E s \in at[n] : s[2] = goalRowFor(w.owner)}
        IN  RunLength(DrawnRuns(w, choice)) = IF home = {} THEN NoRun ELSE MinOf(home)

\* The side whose run is over first is the one named, and its margin is what
\* it can afford to lose: that many moves spent elsewhere it still wins by, and
\* one more it does not (reach.ts:399-403).
VerdictIsTheFirstHome ==
  Racing =>
    LET options == [obstacles |-> "static", safety |-> "perStep", goalEndsGame |-> TRUE,
                    toMove |-> shown.currentTurn]
        reading == analyzeReach(shown.grid, options)
        run == [c \in Players |-> IF c = Red THEN reading.red ELSE reading.blue]
        ply(c, spent) == 2 * (run[c] + spent) - (IF c = shown.currentTurn THEN 1 ELSE 0)
        winner == reading.verdict.winner
        loser == opposingColor(winner)
    IN  /\ winner = Neutral => \A c \in Players : run[c] = NoRun
        /\ winner # Neutral => run[winner] # NoRun
        /\ winner # Neutral /\ run[loser] # NoRun =>
             /\ ply(winner, reading.verdict.margin) < ply(loser, 0)
             /\ ply(winner, reading.verdict.margin + 1) > ply(loser, 0)

TakesNothing == \A i \in 2..Len(chase.path) : shown.grid[chase.path[i]].occupant = Empty
StartIsSafe ==
  \/ chase.runner.owner = shown.currentTurn
  \/ threatMap(shown.grid, chase.runner, "static")[chase.runner.from] > 1

\* A run drawn as safe move by move is never caught, whatever the hunters do
\* between its moves: two of them, or one in the other's way, or one that goes
\* round the square the runner left (reach.ts:227-238).  Asked of a run that
\* takes nothing on its way and whose piece is not taken before it sets off;
\* the tool's reading of those two is wider than the chase allows.
QuietRunIsNeverCaught ==
  chase.stage = "caught" => ~(chase.choice.safety = "perStep" /\ TakesNothing /\ StartIsSafe)

\* "Moves along the quickest run nothing can cut off" (reach.ts:378).
RunIsNeverCaught == chase.stage # "caught"

\* "anything the stricter rule allows the looser one allows too"
\* (reach.test.mts:239).
WholeRunIsStricter ==
  Racing =>
    \A w \in walkersOn(shown.grid), goalEnds \in BOOLEAN :
      LET choice(safety) == [obstacles |-> "static", safety |-> safety, goalEndsGame |-> goalEnds]
          loose == RunLength(DrawnRuns(w, choice("perStep")))
          strict == RunLength(DrawnRuns(w, choice("wholeRun")))
      IN  strict # NoRun => loose # NoRun /\ strict >= loose

WinsAtOnce(g) == \E m \in allValidMoves(g) : After(g, m).winner = g.currentTurn
LeavesNoWin(g, m) ==
  LET next == After(g, m) IN next.status = Finished \/ ~WinsAtOnce(next)

\* The racer, which searches nothing, still never misses the end of a race: it
\* takes a win it has, and when it has none it leaves the opponent none if any
\* move does (racer.ts:288-301).
RacerSeesTheEndOfTheRace ==
  Racing /\ source = "opening" =>
    \A best \in bestRaceMoves(shown) :
      /\ WinsAtOnce(shown) => After(shown, best).winner = shown.currentTurn
      /\ (\E m \in allValidMoves(shown) : LeavesNoWin(shown, m)) => LeavesNoWin(shown, best)
=============================================================================
