--------------------------- MODULE RaceBoardProofs ---------------------------
(***************************************************************************)
(* The board of the reach tool, on boards of any size, for any openings    *)
(* and positions set up, and for runs drawn under any settings: that the   *)
(* browser plays the server's rules; that a game by the older goals is     *)
(* today's board turned over; that one walk finds the run there is; that   *)
(* the verdict names the side home first; that a run drawn as safe, and    *)
(* quiet, is not caught; and that the racer sees the end of a race.        *)
(*                                                                         *)
(* All but two of the arguments need of a reachable state only BoardSound: *)
(* the board is of its type, pieces and owners come and go together, and   *)
(* nobody who opened from home has arrived.  The run played out needs      *)
(* ChaseSound, which bounds how far the hunters can have come, and the     *)
(* racer that a game still played has no winner.                           *)
(*                                                                         *)
(* What the walks compute is recursion over the natural numbers.  It is    *)
(* reasoned about through sets of numbers: SetInduction is induction said  *)
(* of a set, and RecursionExists that a step has a function following it.  *)
(***************************************************************************)
EXTENDS RaceBoard, FiniteSetTheorems, SequenceTheorems, WellFoundedInduction, TLAPS

-----------------------------------------------------------------------------
(* The board shown.                                                        *)

USE DEF Red, Blue, Neutral, Players, Colors, Rock, Paper, Scissors, Empty, Pieces,
        InProgress, Finished, NoReason

\* What a board shows: a game of the right type, on which the count of quiet
\* plies is below its limit for as long as it is played, and nobody who opened
\* from home has arrived.
GameShown(g) ==
  /\ g \in AnalysisGames
  /\ Manned(g.grid)
  /\ g.status = InProgress => g.quietPlies < QuietPlyLimit

NobodyArrived(g) ==
  g.mode = Infiltration /\ g.status = InProgress => NobodyHome(g.grid)

BoardSound ==
  /\ source \in {"opening", "editor"}
  /\ GameShown(shown)
  /\ source = "opening" => NobodyArrived(shown)

LEMMA GamesAreRecords ==
  ASSUME NEW g \in AnalysisGames
  PROVE  /\ g.mode \in Modes /\ g.grid \in [Squares -> Tiles] /\ g.currentTurn \in Players
         /\ g.era \in Eras /\ g.status \in {InProgress, Finished} /\ g.winner \in Colors
         /\ g.endReason \in EndReasons \cup {NoReason} /\ g.moveNumber \in Nat
         /\ g.quietPlies \in 0..QuietPlyLimit
  BY DEF AnalysisGames

LEMMA TilesAreRecords ==
  ASSUME NEW t \in Tiles
  PROVE  /\ t.occupant \in Pieces \cup {Empty} /\ t.owner \in Colors /\ t.ground \in Colors
         /\ t = [occupant |-> t.occupant, owner |-> t.owner, ground |-> t.ground]
  BY DEF Tiles

LEMMA OppositeSides ==
  /\ opposingColor(Red) = Blue /\ opposingColor(Blue) = Red
  /\ \A c \in Players : opposingColor(c) \in Players /\ opposingColor(c) # c
                        /\ opposingColor(opposingColor(c)) = c /\ opposingColor(c) # Neutral
  BY DEF opposingColor

\* The tile of every square after a move.
TileAfter(g, from, to, s) ==
  [occupant |-> IF s = to THEN g.grid[from].occupant
                ELSE IF s = from THEN Empty ELSE g.grid[s].occupant,
   owner |-> IF s = to THEN g.currentTurn ELSE IF s = from THEN Neutral ELSE g.grid[s].owner,
   ground |-> IF s = to /\ g.mode = TotalWar /\ g.grid[to].ground = Neutral
              THEN g.currentTurn ELSE g.grid[s].ground]

LEMMA LandedTiles ==
  ASSUME NEW g, g.grid \in [Squares -> Tiles], NEW from \in Squares, NEW to \in Squares, from # to
  PROVE  Landed(g, from, to) = [s \in Squares |-> TileAfter(g, from, to, s)]
<1> DEFINE landed == Landed(g, from, to)
           first == [g.grid EXCEPT ![to] =
                       [occupant |-> g.grid[from].occupant, owner |-> g.currentTurn,
                        ground |-> IF g.mode = TotalWar /\ @.ground = Neutral
                                   THEN g.currentTurn ELSE @.ground]]
           second == [first EXCEPT ![from].occupant = Empty]
           third == [second EXCEPT ![from].owner = Neutral]
<1>1. landed = third
  BY DEF Landed
<1>2. DOMAIN first = Squares /\ DOMAIN second = Squares /\ DOMAIN third = Squares
  OBVIOUS
<1>3. ASSUME NEW s \in Squares
      PROVE  third[s] = TileAfter(g, from, to, s)
  <2>1. g.grid[s] \in Tiles /\ g.grid[to] \in Tiles
    OBVIOUS
  <2>2. CASE s = to
    <3>1. third[s] = first[s]
      BY <1>2, <2>2
    <3> QED
      BY <3>1, <2>2 DEF TileAfter
  <2>3. CASE s = from
    <3>1. third[s] = [second[s] EXCEPT !.owner = Neutral]
      BY <1>2, <2>3
    <3>2. second[s] = [g.grid[s] EXCEPT !.occupant = Empty]
      BY <1>2, <2>3
    <3>3. g.grid[s] = [occupant |-> g.grid[s].occupant, owner |-> g.grid[s].owner,
                       ground |-> g.grid[s].ground]
      BY <2>1, TilesAreRecords
    <3>4. third[s] = [occupant |-> Empty, owner |-> Neutral, ground |-> g.grid[s].ground]
      BY <3>1, <3>2, <3>3
    <3> QED
      BY <3>4, <2>3 DEF TileAfter
  <2>4. CASE s # to /\ s # from
    <3>1. third[s] = g.grid[s]
      BY <1>2, <2>4
    <3> QED
      BY <3>1, <2>1, <2>4, TilesAreRecords DEF TileAfter
  <2> QED
    BY <2>2, <2>3, <2>4
<1>4. DOMAIN landed = Squares /\ \A s \in Squares : landed[s] = TileAfter(g, from, to, s)
  BY <1>1, <1>2, <1>3
<1> HIDE DEF third, second, first
<1>5. landed = [s \in DOMAIN landed |-> landed[s]]
  <2>1. third = [s \in Squares |-> third[s]]
    BY DEF third, second, first
  <2> QED
    BY <2>1, <1>1, <1>2
<1> QED
  BY <1>4, <1>5

LEMMA LandedIsABoard ==
  ASSUME NEW g, g.grid \in [Squares -> Tiles], Manned(g.grid), g.currentTurn \in Players,
         NEW from \in Squares, NEW to \in Squares, from # to,
         g.grid[from].occupant # Empty
  PROVE  /\ Landed(g, from, to) \in [Squares -> Tiles]
         /\ Manned(Landed(g, from, to))
<1>1. Landed(g, from, to) = [s \in Squares |-> TileAfter(g, from, to, s)]
  BY LandedTiles
<1>2. ASSUME NEW s \in Squares
      PROVE  /\ TileAfter(g, from, to, s) \in Tiles
             /\ TileAfter(g, from, to, s).occupant = Empty
                  <=> TileAfter(g, from, to, s).owner = Neutral
  <2>1. g.grid[s] \in Tiles /\ g.grid[to] \in Tiles /\ g.grid[from] \in Tiles
    OBVIOUS
  <2>2. /\ g.grid[s].occupant \in Pieces \cup {Empty} /\ g.grid[s].owner \in Colors
        /\ g.grid[s].ground \in Colors /\ g.grid[from].occupant \in Pieces
        /\ g.grid[to].ground \in Colors
    BY <2>1, TilesAreRecords
  <2>3. g.grid[s].occupant = Empty <=> g.grid[s].owner = Neutral
    BY DEF Manned
  <2> QED
    BY <2>2, <2>3 DEF TileAfter, Tiles
<1> QED
  BY <1>1, <1>2 DEF Manned

-----------------------------------------------------------------------------
(* A move on the board.                                                    *)

\* What the endings leave alone.
SameBoard(h, g) ==
  /\ h.mode = g.mode /\ h.grid = g.grid /\ h.era = g.era
  /\ h.moveNumber = g.moveNumber /\ h.quietPlies = g.quietPlies

LEMMA DecidedIsAGame ==
  ASSUME NEW g \in AnalysisGames, NEW mover \in Players, NEW winner \in Colors,
         NEW reason \in EndReasons
  PROVE  /\ Decided(g, mover, winner, reason) \in AnalysisGames
         /\ SameBoard(Decided(g, mover, winner, reason), g)
         /\ Decided(g, mover, winner, reason).status = Finished
         /\ Decided(g, mover, winner, reason).winner = winner
         /\ Decided(g, mover, winner, reason).endReason = reason
         /\ Decided(g, mover, winner, reason).currentTurn = mover
  BY DEF Decided, AnalysisGames, SameBoard

\* Only two modes have goals.
LEMMA GoalsAreOfTwoModes ==
  ASSUME NEW mode, NEW s, NEW era, goalOwnerAt(mode, s, era) \in Players
  PROVE  mode \in {Infiltration, Intransitive}
  BY DEF goalOwnerAt, GoalOwnerToday, swapSide, NobodysGoal, Infiltration, Intransitive

LEMMA GoalReasons ==
  goalEndReason(Infiltration) = "infiltration" /\ goalEndReason(Intransitive) = "corner"
  BY DEF goalEndReason, Infiltration, Intransitive

LEMMA ReasonsAreNamed ==
  {"infiltration", "corner", "annihilation", "territory", "stalemate", "no_capture"}
    \subseteq EndReasons
  BY DEF EndReasons

\* ModeEnding, by what the mode found.
Annihilates(g, mover) ==
  g.mode = TotalWar /\ countPieces(g.grid, opposingColor(mover)) = 0
Arrives(g, mover, to) == goalOwnerAt(g.mode, to, g.era) = mover
FillsTheBoard(g) == g.mode = TotalWar /\ territory(g.grid, Neutral) = 0
LargerTerritory(g) ==
  IF territory(g.grid, Red) = territory(g.grid, Blue) THEN Neutral
  ELSE IF territory(g.grid, Red) > territory(g.grid, Blue) THEN Red ELSE Blue

LEMMA ModeEndings ==
  ASSUME NEW g, NEW mover \in Players, NEW to
  PROVE  /\ Annihilates(g, mover) =>
              ModeEnding(g, mover, to) = Decided(g, mover, mover, "annihilation")
         /\ Arrives(g, mover, to) =>
              ModeEnding(g, mover, to) = Decided(g, mover, mover, goalEndReason(g.mode))
         /\ ~Annihilates(g, mover) /\ FillsTheBoard(g) =>
              ModeEnding(g, mover, to) = Decided(g, mover, LargerTerritory(g), "territory")
         /\ ~Annihilates(g, mover) /\ ~Arrives(g, mover, to) /\ ~FillsTheBoard(g) =>
              ModeEnding(g, mover, to) = g
<1>1. Arrives(g, mover, to) => g.mode # TotalWar
  BY GoalsAreOfTwoModes DEF Arrives, Infiltration, Intransitive, TotalWar
<1>2. /\ Annihilates(g, mover) => g.mode = TotalWar
      /\ FillsTheBoard(g) => g.mode = TotalWar
  BY DEF Annihilates, FillsTheBoard
<1>3. ModeEnding(g, mover, to) =
        CASE Annihilates(g, mover) -> Decided(g, mover, mover, "annihilation")
          [] Arrives(g, mover, to) -> Decided(g, mover, mover, goalEndReason(g.mode))
          [] FillsTheBoard(g) /\ countPieces(g.grid, opposingColor(mover)) # 0 ->
               Decided(g, mover, LargerTerritory(g), "territory")
          [] OTHER -> g
  BY DEF ModeEnding, Annihilates, Arrives, FillsTheBoard, LargerTerritory
<1>4. FillsTheBoard(g) /\ ~Annihilates(g, mover)
        => countPieces(g.grid, opposingColor(mover)) # 0
  BY DEF FillsTheBoard, Annihilates
<1>5. CASE Annihilates(g, mover)
  <2>1. ~Arrives(g, mover, to) /\ countPieces(g.grid, opposingColor(mover)) = 0
    BY <1>5, <1>1, <1>2 DEF Annihilates
  <2> QED
    BY <2>1, <1>3, <1>5
<1>6. CASE Arrives(g, mover, to)
  <2>1. ~Annihilates(g, mover) /\ ~FillsTheBoard(g)
    BY <1>6, <1>1, <1>2
  <2> QED
    BY <2>1, <1>3, <1>6
<1>7. CASE ~Annihilates(g, mover) /\ ~Arrives(g, mover, to)
  BY <1>3, <1>4, <1>7
<1> QED
  BY <1>5, <1>6, <1>7

LEMMA ModeEndingIsAGame ==
  ASSUME NEW g \in AnalysisGames, NEW mover \in Players, NEW to
  PROVE  /\ ModeEnding(g, mover, to) \in AnalysisGames
         /\ SameBoard(ModeEnding(g, mover, to), g)
         /\ ModeEnding(g, mover, to).status = InProgress => ModeEnding(g, mover, to) = g
         /\ Arrives(g, mover, to) => ModeEnding(g, mover, to).status = Finished
<1>1. LargerTerritory(g) \in Colors
  BY DEF LargerTerritory
<1>2. Arrives(g, mover, to) => goalEndReason(g.mode) \in EndReasons
  BY GoalsAreOfTwoModes, GoalReasons, ReasonsAreNamed DEF Arrives
<1>3. SameBoard(g, g)
  BY DEF SameBoard
<1>4. InProgress # Finished
  OBVIOUS
<1> DEFINE ended == ModeEnding(g, mover, to)
<1>9. ASSUME NEW h, NEW winner \in Colors, NEW reason \in EndReasons,
             h = Decided(g, mover, winner, reason)
      PROVE  h \in AnalysisGames /\ SameBoard(h, g) /\ h.status = Finished
  <2>1. Decided(g, mover, winner, reason) \in AnalysisGames
    BY DecidedIsAGame
  <2>2. SameBoard(Decided(g, mover, winner, reason), g)
    BY DecidedIsAGame
  <2>3. Decided(g, mover, winner, reason).status = Finished
    BY DEF Decided, AnalysisGames
  <2> QED
    BY <1>9, <2>1, <2>2, <2>3
<1>10. mover \in Colors
  OBVIOUS
<1>5. CASE Annihilates(g, mover)
  <2>1. ended = Decided(g, mover, mover, "annihilation") /\ "annihilation" \in EndReasons
    BY <1>5, ModeEndings, ReasonsAreNamed
  <2> HIDE DEF ended
  <2>2. ended \in AnalysisGames /\ SameBoard(ended, g) /\ ended.status = Finished
    BY <2>1, <1>9, <1>10
  <2> QED
    BY <2>2, <1>4 DEF ended
<1>6. CASE Arrives(g, mover, to)
  <2>1. ended = Decided(g, mover, mover, goalEndReason(g.mode))
    BY <1>6, ModeEndings
  <2> HIDE DEF ended
  <2>2. ended \in AnalysisGames /\ SameBoard(ended, g) /\ ended.status = Finished
    BY <2>1, <1>2, <1>6, <1>9, <1>10
  <2> QED
    BY <2>2, <1>4 DEF ended
<1>7. CASE ~Annihilates(g, mover) /\ FillsTheBoard(g) /\ ~Arrives(g, mover, to)
  <2>1. ended = Decided(g, mover, LargerTerritory(g), "territory") /\ "territory" \in EndReasons
    BY <1>7, ModeEndings, ReasonsAreNamed
  <2> HIDE DEF ended
  <2>2. ended \in AnalysisGames /\ SameBoard(ended, g) /\ ended.status = Finished
    BY <2>1, <1>1, <1>9
  <2> QED
    BY <2>2, <1>4 DEF ended
<1>8. CASE ~Annihilates(g, mover) /\ ~Arrives(g, mover, to) /\ ~FillsTheBoard(g)
  BY <1>3, <1>8, ModeEndings
<1> QED
  BY <1>5, <1>6, <1>7, <1>8

LEMMA StuckEndingIsAGame ==
  ASSUME NEW g \in AnalysisGames, NEW mover \in Players
  PROVE  /\ StuckEnding(g, mover) \in AnalysisGames
         /\ SameBoard(StuckEnding(g, mover), g)
         /\ StuckEnding(g, mover).status = InProgress => g.status = InProgress
  BY ReasonsAreNamed DEF StuckEnding, AnalysisGames, SameBoard

LEMMA QuietEndingIsAGame ==
  ASSUME NEW g \in AnalysisGames
  PROVE  /\ QuietEnding(g) \in AnalysisGames
         /\ SameBoard(QuietEnding(g), g)
         /\ QuietEnding(g).status = InProgress =>
              g.status = InProgress /\ g.quietPlies < QuietPlyLimit
<1> DEFINE drawn == [g EXCEPT !.status = Finished, !.winner = Neutral, !.endReason = "no_capture"]
<1>1. QuietPlyLimit \in Nat /\ g.quietPlies \in 0..QuietPlyLimit
  BY ClientQuietAssumption, GamesAreRecords
<1>2. drawn \in AnalysisGames /\ SameBoard(drawn, g) /\ drawn.status # InProgress
  BY ReasonsAreNamed DEF AnalysisGames, SameBoard
<1>3. SameBoard(g, g)
  BY DEF SameBoard
<1>4. QuietEnding(g) = IF g.status = InProgress /\ g.quietPlies >= QuietPlyLimit THEN drawn ELSE g
  BY DEF QuietEnding
<1> HIDE DEF drawn
<1> QED
  BY <1>1, <1>2, <1>3, <1>4

\* The game once the piece has landed and the turn has passed, unless it ends.
Moved(g, from, to) ==
  [g EXCEPT !.grid = Landed(g, from, to), !.currentTurn = opposingColor(g.currentTurn),
            !.moveNumber = @ + 1,
            !.quietPlies = IF g.grid[to].occupant # Empty THEN 0 ELSE @ + 1]

LEMMA MovesAreMoved ==
  ASSUME NEW g, NEW from, NEW to
  PROVE  applyAnalysisMove(g, from, to) =
           QuietEnding(StuckEnding(ModeEnding(Moved(g, from, to), g.currentTurn, to),
                                   g.currentTurn))
  BY DEF applyAnalysisMove, Moved

LEMMA ValidMovesAre ==
  ASSUME NEW g, NEW from \in Squares, NEW to, to \in validMovesFor(g, from)
  PROVE  /\ g.status = InProgress /\ g.grid[from].occupant # Empty
         /\ g.grid[from].owner = g.currentTurn
         /\ to \in Squares /\ KingStep(from, to) /\ from # to
         /\ g.grid[to].owner # g.currentTurn
         /\ g.grid[to].occupant = Empty \/ canCapture(g.grid[from].occupant, g.grid[to].occupant)
  BY DEF validMovesFor, stepTargets, KingStep

LEMMA MovedIsAGame ==
  ASSUME NEW g, GameShown(g), NEW from \in Squares, NEW to, to \in validMovesFor(g, from)
  PROVE  /\ Moved(g, from, to) \in AnalysisGames
         /\ Manned(Moved(g, from, to).grid)
         /\ Moved(g, from, to).grid = Landed(g, from, to)
         /\ Moved(g, from, to).mode = g.mode /\ Moved(g, from, to).era = g.era
         /\ Moved(g, from, to).status = InProgress
         /\ Moved(g, from, to).currentTurn = opposingColor(g.currentTurn)
         /\ Moved(g, from, to).moveNumber = g.moveNumber + 1
         /\ Moved(g, from, to).quietPlies =
              IF g.grid[to].occupant # Empty THEN 0 ELSE g.quietPlies + 1
         /\ Moved(g, from, to).winner = g.winner /\ Moved(g, from, to).endReason = g.endReason
<1>1. g \in AnalysisGames /\ Manned(g.grid) /\ g.status = InProgress
      /\ g.quietPlies < QuietPlyLimit
  BY ValidMovesAre DEF GameShown
<1>2. Landed(g, from, to) \in [Squares -> Tiles] /\ Manned(Landed(g, from, to))
  BY <1>1, ValidMovesAre, LandedIsABoard, GamesAreRecords
<1>3. opposingColor(g.currentTurn) \in Players
  BY <1>1, GamesAreRecords, OppositeSides
<1>4. QuietPlyLimit \in Nat /\ QuietPlyLimit > 0 /\ g.quietPlies \in 0..QuietPlyLimit
  BY <1>1, ClientQuietAssumption, GamesAreRecords
<1>5. (IF g.grid[to].occupant # Empty THEN 0 ELSE g.quietPlies + 1) \in 0..QuietPlyLimit
  BY <1>1, <1>4
<1> DEFINE landed == Landed(g, from, to)
           turn == opposingColor(g.currentTurn)
           quiet == IF g.grid[to].occupant # Empty THEN 0 ELSE g.quietPlies + 1
           moved == [g EXCEPT !.grid = landed, !.currentTurn = turn,
                              !.moveNumber = g.moveNumber + 1, !.quietPlies = quiet]
<1>6. Moved(g, from, to) = moved
  BY DEF Moved
<1>7. g.moveNumber + 1 \in Nat
  <2>1. g.moveNumber \in Nat
    BY <1>1, GamesAreRecords
  <2> QED
    BY <2>1
<1> HIDE DEF landed, turn, quiet
<1>8. landed \in [Squares -> Tiles] /\ turn \in Players /\ quiet \in 0..QuietPlyLimit
  BY <1>2, <1>3, <1>5 DEF landed, turn, quiet
<1>9. /\ moved \in AnalysisGames
      /\ moved.grid = landed /\ moved.currentTurn = turn /\ moved.quietPlies = quiet
      /\ moved.mode = g.mode /\ moved.era = g.era /\ moved.status = InProgress
      /\ moved.moveNumber = g.moveNumber + 1
      /\ moved.winner = g.winner /\ moved.endReason = g.endReason
  BY <1>1, <1>7, <1>8 DEF AnalysisGames
<1> QED
  BY <1>2, <1>6, <1>9 DEF landed, turn, quiet

LEMMA MoveKeepsTheGame ==
  ASSUME NEW g, GameShown(g), NEW from \in Squares, NEW to, to \in validMovesFor(g, from)
  PROVE  /\ GameShown(applyAnalysisMove(g, from, to))
         /\ SameBoard(applyAnalysisMove(g, from, to), Moved(g, from, to))
         /\ applyAnalysisMove(g, from, to).status = InProgress =>
              ~Arrives(Moved(g, from, to), g.currentTurn, to)
<1> DEFINE moved == Moved(g, from, to)
           mover == g.currentTurn
           decided == ModeEnding(moved, mover, to)
           stuck == StuckEnding(decided, mover)
           quiet == QuietEnding(stuck)
<1>1. mover \in Players
  BY GamesAreRecords DEF GameShown
<1>2. moved \in AnalysisGames /\ Manned(moved.grid)
  BY MovedIsAGame
<1> HIDE DEF moved, mover
<1>3. /\ decided \in AnalysisGames /\ SameBoard(decided, moved)
      /\ Arrives(moved, mover, to) => decided.status = Finished
  BY <1>1, <1>2, ModeEndingIsAGame
<1> HIDE DEF decided
<1>4. /\ stuck \in AnalysisGames /\ SameBoard(stuck, decided)
      /\ stuck.status = InProgress => decided.status = InProgress
  BY <1>1, <1>3, StuckEndingIsAGame
<1> HIDE DEF stuck
<1>5. /\ quiet \in AnalysisGames /\ SameBoard(quiet, stuck)
      /\ quiet.status = InProgress => stuck.status = InProgress /\ stuck.quietPlies < QuietPlyLimit
  BY <1>4, QuietEndingIsAGame
<1> HIDE DEF quiet
<1>6. SameBoard(quiet, moved) /\ quiet.quietPlies = stuck.quietPlies
  BY <1>3, <1>4, <1>5 DEF SameBoard
<1>7. Manned(quiet.grid)
  BY <1>2, <1>6 DEF SameBoard
<1>8. quiet = applyAnalysisMove(g, from, to)
  BY MovesAreMoved DEF quiet, stuck, decided, moved, mover
<1>9. quiet.status = InProgress => ~Arrives(moved, mover, to)
  BY <1>3, <1>4, <1>5
<1>10. GameShown(quiet)
  BY <1>5, <1>6, <1>7 DEF GameShown
<1> QED
  BY <1>6, <1>8, <1>9, <1>10 DEF moved, mover

LEMMA SquaresArePairs ==
  ASSUME NEW s \in Squares
  PROVE  s = <<s[1], s[2]>> /\ s[1] \in 0..Width - 1 /\ s[2] \in 0..Height - 1
  BY DEF Squares

\* Under either set of goals Infiltration is a race to the same two rows.
LEMMA InfiltrationGoals ==
  ASSUME NEW s \in Squares, NEW c \in Players, NEW era
  PROVE  goalOwnerAt(Infiltration, s, era) = c <=> s[2] = goalRowFor(c)
<1>1. Infiltration # Intransitive
  BY DEF Infiltration, Intransitive
<1>2. ASSUME NEW y \in 0..Height - 1
      PROVE  GoalOwnerToday(Infiltration, <<s[1], y>>)
               = IF y = 0 THEN Red ELSE IF y = Height - 1 THEN Blue ELSE Neutral
  <2>1. <<s[1], y>>[2] = y
    OBVIOUS
  <2>2. Height - 1 # 0
    BY BoardAssumption
  <2> QED
    BY <1>1, <2>1, <2>2 DEF GoalOwnerToday, NobodysGoal
<1>3. s = <<s[1], s[2]>> /\ s[2] \in 0..Height - 1 /\ Height \in Nat /\ Height >= 3
  BY SquaresArePairs, BoardAssumption
<1>4. Height - 1 - s[2] \in 0..Height - 1
  BY <1>3
<1>5. GoalOwnerToday(Infiltration, s)
        = IF s[2] = 0 THEN Red ELSE IF s[2] = Height - 1 THEN Blue ELSE Neutral
  BY <1>2, <1>3
<1>6. GoalOwnerToday(Infiltration, <<s[1], Height - 1 - s[2]>>)
        = IF s[2] = Height - 1 THEN Red ELSE IF s[2] = 0 THEN Blue ELSE Neutral
  <2>1. GoalOwnerToday(Infiltration, <<s[1], Height - 1 - s[2]>>)
          = IF Height - 1 - s[2] = 0 THEN Red
            ELSE IF Height - 1 - s[2] = Height - 1 THEN Blue ELSE Neutral
    BY <1>2, <1>4
  <2>2. (Height - 1 - s[2] = 0 <=> s[2] = Height - 1)
        /\ (Height - 1 - s[2] = Height - 1 <=> s[2] = 0)
    BY <1>3
  <2> QED
    BY <2>1, <2>2
<1>7. swapSide(Red) = Blue /\ swapSide(Blue) = Red /\ swapSide(Neutral) = Neutral
  BY DEF swapSide, NobodysGoal
<1>8. swapSide(GoalOwnerToday(Infiltration, <<s[1], Height - 1 - s[2]>>))
        = IF s[2] = Height - 1 THEN Blue ELSE IF s[2] = 0 THEN Red ELSE Neutral
  BY <1>6, <1>7
<1>9. Height - 1 # 0
  BY <1>3
<1>10. goalOwnerAt(Infiltration, s, era)
        = IF s[2] = Height - 1 THEN Blue ELSE IF s[2] = 0 THEN Red ELSE Neutral
  BY <1>5, <1>8, <1>9 DEF goalOwnerAt
<1> QED
  BY <1>9, <1>10 DEF goalRowFor

LEMMA MoveKeepsNobodyArrived ==
  ASSUME NEW g, GameShown(g), NobodyArrived(g),
         NEW from \in Squares, NEW to, to \in validMovesFor(g, from)
  PROVE  NobodyArrived(applyAnalysisMove(g, from, to))
<1> DEFINE next == applyAnalysisMove(g, from, to)
           moved == Moved(g, from, to)
<1> SUFFICES ASSUME next.mode = Infiltration, next.status = InProgress,
                    NEW s \in Squares, next.grid[s].owner # Neutral
             PROVE  s[2] # goalRowFor(next.grid[s].owner)
  BY DEF NobodyArrived, NobodyHome
<1>1. SameBoard(next, moved) /\ ~Arrives(moved, g.currentTurn, to)
  BY MoveKeepsTheGame
<1>2. moved.mode = g.mode /\ moved.era = g.era /\ moved.grid = Landed(g, from, to)
  BY MovedIsAGame
<1>3. /\ to \in Squares /\ from # to /\ g.status = InProgress
      /\ g \in AnalysisGames /\ g.grid \in [Squares -> Tiles] /\ g.currentTurn \in Players
  BY ValidMovesAre, GamesAreRecords DEF GameShown
<1>4. next.grid[s] = TileAfter(g, from, to, s) /\ next.mode = g.mode
  BY <1>1, <1>2, <1>3, LandedTiles DEF SameBoard
<1>5. g.mode = Infiltration /\ NobodyHome(g.grid)
  BY <1>3, <1>4 DEF NobodyArrived
<1>6. CASE s = to
  <2>1. next.grid[s].owner = g.currentTurn
    BY <1>4, <1>6 DEF TileAfter
  <2>2. goalOwnerAt(Infiltration, to, g.era) # g.currentTurn
    BY <1>1, <1>2, <1>5 DEF Arrives
  <2> QED
    BY <1>3, <1>6, <2>1, <2>2, InfiltrationGoals
<1>7. CASE s # to
  <2>1. next.grid[s].owner = g.grid[s].owner
    BY <1>4, <1>7 DEF TileAfter
  <2> QED
    BY <1>5, <2>1 DEF NobodyHome
<1> QED
  BY <1>6, <1>7

\* A board is opened sound.
LEMMA StartsAreSound ==
  ASSUME RaceInit
  PROVE  BoardSound
<1>1. PICK start \in Starts : source = start[1] /\ shown = start[2]
  BY DEF RaceInit
<1>2. PICK mode \in Modes, side \in Players, era \in Eras :
        /\ start[1] \in {"opening", "editor"}
        /\ start = <<start[1], newGame(mode, start[2].grid, side, era)>>
        /\ start[2].grid \in [Squares -> Tiles]
        /\ Manned(start[2].grid)
        /\ start[1] = "opening" /\ mode = Infiltration => NobodyHome(start[2].grid)
  BY StartsAssumption
<1>3. PICK grid : grid = start[2].grid
  OBVIOUS
<1>4. shown = [mode |-> mode, grid |-> grid, currentTurn |-> side, era |-> era,
               status |-> InProgress, winner |-> Neutral, endReason |-> NoReason,
               moveNumber |-> 0, quietPlies |-> 0]
  <2>1. PICK game : game = newGame(mode, grid, side, era)
    OBVIOUS
  <2>2. PICK kind : kind = start[1]
    OBVIOUS
  <2>3. start = <<kind, game>>
    BY <1>2, <1>3, <2>1, <2>2
  <2>4. shown = game
    BY <1>1, <2>3
  <2> QED
    BY <2>1, <2>4 DEF newGame
<1>5. grid \in [Squares -> Tiles] /\ Manned(grid)
  BY <1>2, <1>3
<1>6. QuietPlyLimit \in Nat /\ QuietPlyLimit > 0 /\ 0 \in 0..QuietPlyLimit /\ 0 \in Nat
  BY ClientQuietAssumption
<1>7. shown \in AnalysisGames
  BY <1>4, <1>5, <1>6 DEF AnalysisGames
<1>8. shown.quietPlies < QuietPlyLimit /\ shown.mode = mode /\ shown.grid = grid
  BY <1>4, <1>6
<1>9. source = "opening" /\ mode = Infiltration => NobodyHome(grid)
  BY <1>1, <1>2, <1>3
<1> QED
  BY <1>1, <1>2, <1>5, <1>7, <1>8, <1>9 DEF BoardSound, GameShown, NobodyArrived

LEMMA StepKeepsBoardSound ==
  ASSUME BoardSound, [RaceNext]_raceVars
  PROVE  BoardSound'
<1>1. ASSUME NEW from \in Squares, NEW to \in Squares, Play(from, to)
      PROVE  BoardSound'
  <2>1. /\ to \in validMovesFor(shown, from) /\ source' = source
        /\ shown' = applyAnalysisMove(shown, from, to)
    BY <1>1 DEF Play
  <2>2. GameShown(shown')
    BY <2>1, MoveKeepsTheGame DEF BoardSound
  <2>3. source = "opening" => NobodyArrived(shown')
    BY <2>1, MoveKeepsNobodyArrived DEF BoardSound
  <2> QED
    BY <2>1, <2>2, <2>3 DEF BoardSound
<1>2. ASSUME UNCHANGED <<source, shown>>
      PROVE  BoardSound'
  BY <1>2 DEF BoardSound
<1>3. \/ \E from, to \in Squares : Play(from, to)
      \/ UNCHANGED <<source, shown>>
  BY DEF RaceNext, DrawRun, RunOn, Intercept, WaitElsewhere, raceVars
<1> QED
  BY <1>1, <1>2, <1>3

LEMMA BoardStaysSound == RaceSpec => []BoardSound
<1>1. RaceInit => BoardSound
  BY StartsAreSound
<1>2. BoardSound /\ [RaceNext]_raceVars => BoardSound'
  BY StepKeepsBoardSound
<1> QED
  BY <1>1, <1>2, PTL DEF RaceSpec

-----------------------------------------------------------------------------
(* The browser's rules against the server's.                               *)

LEMMA SquaresAreFinite == IsFiniteSet(Squares)
<1>1. IsFiniteSet(0..Width - 1) /\ IsFiniteSet(0..Height - 1)
  BY BoardAssumption, FS_Interval
<1> QED
  BY <1>1, FS_Product DEF Squares

LEMMA TerritoryIsANumber ==
  ASSUME NEW grid, NEW color
  PROVE  territory(grid, color) \in Nat
<1>1. IsFiniteSet({s \in Squares : grid[s].ground = color})
  BY SquaresAreFinite, FS_Subset
<1> QED
  BY <1>1, FS_CardinalityType DEF territory

\* What the server keeps of a game.
ServerFields ==
  {"mode", "board", "turn", "status", "winner", "reason", "moves", "drawBy", "drawUsed",
   "timeBy", "timeUsed", "remaining", "active", "clockPending", "quiet", "plies", "pending",
   "endRecorded", "lag", "emitted"}

\* The server's game is at the browser's, the count of quiet plies apart.
SameGame(h, g) ==
  /\ DOMAIN h = ServerFields
  /\ h.mode = g.mode /\ h.board = g.grid /\ h.turn = g.currentTurn /\ h.status = g.status
  /\ h.winner = g.winner /\ h.reason = g.endReason /\ h.moves = g.moveNumber

LEMMA OnTheServerIsTheSame ==
  ASSUME NEW g
  PROVE  SameGame(OnTheServer(g), g) /\ OnTheServer(g).quiet = g.quietPlies
  BY DEF SameGame, OnTheServer, ServerFields

LEMMA ServersNames ==
  /\ Server!Red = Red /\ Server!Blue = Blue /\ Server!Neutral = Neutral
  /\ Server!Empty = Empty /\ Server!Rock = Rock /\ Server!Paper = Paper
  /\ Server!Scissors = Scissors /\ Server!InProgress = InProgress
  /\ Server!Finished = Finished /\ Server!NoReason = NoReason
  /\ Server!Infiltration = Infiltration /\ Server!Intransitive = Intransitive
  /\ Server!TotalWar = TotalWar /\ Server!Squares = Squares
  BY DEF Server!Red, Server!Blue, Server!Neutral, Server!Empty, Server!Rock, Server!Paper,
         Server!Scissors, Server!InProgress, Server!Finished, Server!NoReason,
         Server!Infiltration, Server!Intransitive, Server!TotalWar, Server!Squares,
         Infiltration, Intransitive, TotalWar, Squares

LEMMA StepsAgree ==
  ASSUME NEW from \in Squares, NEW to \in Squares
  PROVE  Server!Adjacent(from, to) <=> KingStep(from, to)
<1>1. /\ from[1] \in Int /\ from[2] \in Int /\ to[1] \in Int /\ to[2] \in Int
  BY SquaresArePairs, BoardAssumption
<1> QED
  BY <1>1 DEF Server!Adjacent, KingStep

LEMMA CapturesAgree ==
  ASSUME NEW a, NEW d
  PROVE  Server!CanCapture(a, d) <=> canCapture(a, d)
  BY ServersNames DEF Server!CanCapture, canCapture

\* Both allow the same moves.
LEMMA MovesAgree ==
  ASSUME NEW h, NEW g, SameGame(h, g), Manned(g.grid), g.currentTurn \in Players,
         NEW from \in Squares, NEW to \in Squares
  PROVE  Server!LegalMove(h, h.turn, from, to) <=> to \in validMovesFor(g, from)
<1>1. /\ h.status = g.status /\ h.turn = g.currentTurn /\ h.board = g.grid
  BY DEF SameGame
<1>2. g.grid[from].owner = g.currentTurn => g.grid[from].occupant # Empty
  BY DEF Manned
<1>3. Server!LegalMove(h, h.turn, from, to) <=>
        /\ g.status = InProgress
        /\ g.grid[from].owner = g.currentTurn
        /\ KingStep(from, to)
        /\ g.grid[to].owner # g.currentTurn
        /\ \/ g.grid[to].occupant = Empty
           \/ canCapture(g.grid[from].occupant, g.grid[to].occupant)
  BY <1>1, ServersNames, StepsAgree, CapturesAgree DEF Server!LegalMove
<1>4. to \in validMovesFor(g, from) <=>
        /\ g.status = InProgress
        /\ g.grid[from].owner = g.currentTurn /\ g.grid[from].occupant # Empty
        /\ KingStep(from, to)
        /\ g.grid[to].owner # g.currentTurn
        /\ \/ g.grid[to].occupant = Empty
           \/ canCapture(g.grid[from].occupant, g.grid[to].occupant)
  BY DEF validMovesFor, stepTargets
<1> QED
  BY <1>2, <1>3, <1>4

\* A side is stuck on both.
LEMMA StuckAgrees ==
  ASSUME NEW h, NEW g, SameGame(h, g), Manned(g.grid), g.currentTurn \in Players
  PROVE  Server!HasLegalMove(h) <=> allValidMoves(g) # {}
<1>1. ASSUME NEW m \in Squares \X Squares
      PROVE  Server!LegalMove(h, h.turn, m[1], m[2]) <=> m[2] \in validMovesFor(g, m[1])
  BY MovesAgree
<1> QED
  BY <1>1, ServersNames DEF Server!HasLegalMove, Server!LegalMoves, allValidMoves

\* The piece lands on the same board.
LEMMA LandingsAgree ==
  ASSUME NEW g, g.grid \in [Squares -> Tiles], NEW from \in Squares, NEW to \in Squares,
         from # to
  PROVE  Server!Claimed(g.mode, Server!MovePiece(g.grid, g.currentTurn, from, to),
                        g.currentTurn, to)
           = Landed(g, from, to)
<1> DEFINE first == [g.grid EXCEPT ![to].occupant = g.grid[from].occupant]
           second == [first EXCEPT ![to].owner = g.currentTurn]
           third == [second EXCEPT ![from].occupant = Empty]
           moved == [third EXCEPT ![from].owner = Neutral]
           claimed == IF g.mode = TotalWar /\ moved[to].ground = Neutral
                      THEN [moved EXCEPT ![to].ground = g.currentTurn] ELSE moved
           Tile(s) == [occupant |-> IF s = to THEN g.grid[from].occupant
                                    ELSE IF s = from THEN Empty ELSE g.grid[s].occupant,
                       owner |-> IF s = to THEN g.currentTurn
                                 ELSE IF s = from THEN Neutral ELSE g.grid[s].owner,
                       ground |-> g.grid[s].ground]
<1>1. Server!MovePiece(g.grid, g.currentTurn, from, to) = moved
  BY ServersNames DEF Server!MovePiece
<1>2. DOMAIN first = Squares /\ DOMAIN second = Squares /\ DOMAIN third = Squares
      /\ DOMAIN moved = Squares
  OBVIOUS
<1>3. ASSUME NEW s \in Squares
      PROVE  moved[s] = Tile(s)
  <2>1. g.grid[s] = [occupant |-> g.grid[s].occupant, owner |-> g.grid[s].owner,
                     ground |-> g.grid[s].ground]
    BY TilesAreRecords
  <2>2. CASE s = to
    <3>1. moved[s] = second[s]
      BY <1>2, <2>2
    <3>2. second[s] = [first[s] EXCEPT !.owner = g.currentTurn]
      BY <1>2, <2>2
    <3>3. first[s] = [g.grid[s] EXCEPT !.occupant = g.grid[from].occupant]
      BY <1>2, <2>2
    <3> QED
      BY <3>1, <3>2, <3>3, <2>1, <2>2
  <2>3. CASE s = from
    <3>1. moved[s] = [third[s] EXCEPT !.owner = Neutral]
      BY <1>2, <2>3
    <3>2. third[s] = [second[s] EXCEPT !.occupant = Empty]
      BY <1>2, <2>3
    <3>3. second[s] = g.grid[s]
      BY <1>2, <2>3
    <3> QED
      BY <3>1, <3>2, <3>3, <2>1, <2>3
  <2>4. CASE s # to /\ s # from
    <3>1. moved[s] = g.grid[s]
      BY <1>2, <2>4
    <3> QED
      BY <3>1, <2>1, <2>4
  <2> QED
    BY <2>2, <2>3, <2>4
<1>5. Server!Claimed(g.mode, Server!MovePiece(g.grid, g.currentTurn, from, to),
                     g.currentTurn, to) = claimed
  BY <1>1, ServersNames DEF Server!Claimed
<1>6. moved = [s \in Squares |-> moved[s]]
  OBVIOUS
<1> HIDE DEF moved
<1>4. moved[to].ground = g.grid[to].ground
  <2>1. moved[to] = Tile(to)
    BY <1>3
  <2> QED
    BY <2>1
<1>7. ASSUME NEW s \in Squares
      PROVE  claimed[s] = TileAfter(g, from, to, s)
  <2>0. moved[s] = Tile(s)
    BY <1>3
  <2>1. CASE s = to /\ g.mode = TotalWar /\ moved[to].ground = Neutral
    <3>1. claimed[s] = [moved[s] EXCEPT !.ground = g.currentTurn]
      BY <1>2, <2>1
    <3>2. claimed[s] = [Tile(s) EXCEPT !.ground = g.currentTurn]
      BY <3>1, <2>0
    <3>3. [Tile(s) EXCEPT !.ground = g.currentTurn]
            = [occupant |-> g.grid[from].occupant, owner |-> g.currentTurn,
               ground |-> g.currentTurn]
      BY <2>1
    <3>4. TileAfter(g, from, to, s)
            = [occupant |-> g.grid[from].occupant, owner |-> g.currentTurn,
               ground |-> g.currentTurn]
      BY <1>4, <2>1 DEF TileAfter
    <3> QED
      BY <3>2, <3>3, <3>4
  <2>2. CASE ~(s = to /\ g.mode = TotalWar /\ moved[to].ground = Neutral)
    <3>1. claimed[s] = moved[s]
      BY <1>2, <2>2
    <3> QED
      BY <3>1, <2>0, <1>4, <2>2 DEF TileAfter
  <2> QED
    BY <2>1, <2>2
<1>8. claimed = [s \in Squares |-> claimed[s]]
  BY <1>2, <1>6
<1> HIDE DEF claimed
<1>9. claimed = [s \in Squares |-> TileAfter(g, from, to, s)]
  BY <1>7, <1>8
<1> QED
  BY <1>5, <1>9, LandedTiles

\* Today's goals are the server's.
LEMMA GoalsAgree ==
  ASSUME NEW mode \in Modes, NEW mover \in Players, NEW to \in Squares
  PROVE  goalOwnerAt(mode, to, "current") = mover <=>
           \/ mode = Infiltration /\ to[2] = Server!GoalRank(mover)
           \/ mode = Intransitive /\ to = Server!GoalCorner(mover)
<1>1. Infiltration # Intransitive
  BY DEF Infiltration, Intransitive
<1>2. Server!GoalRank(mover) = goalRowFor(mover)
  BY ServersNames DEF Server!GoalRank, goalRowFor
<1>3. CASE mode = Infiltration
  BY <1>1, <1>2, <1>3, InfiltrationGoals
<1>4. CASE mode = Intransitive
  <2>1. Width - 1 # 0
    BY BoardAssumption
  <2>2. <<0, 0>> # <<Width - 1, Height - 1>>
    BY <2>1
  <2>3. goalOwnerAt(mode, to, "current")
          = IF to = <<0, 0>> THEN Red
            ELSE IF to = <<Width - 1, Height - 1>> THEN Blue ELSE Neutral
    BY <1>1, <1>4, <2>2 DEF goalOwnerAt, GoalOwnerToday, NobodysGoal
  <2>4. Server!GoalCorner(mover) = IF mover = Red THEN <<0, 0>> ELSE <<Width - 1, Height - 1>>
    BY ServersNames DEF Server!GoalCorner
  <2> QED
    BY <1>1, <1>4, <2>2, <2>3, <2>4
<1>5. CASE mode \notin {Infiltration, Intransitive}
  BY <1>5, GoalsAreOfTwoModes
<1> QED
  BY <1>3, <1>4, <1>5

LEMMA ServerCounts ==
  ASSUME NEW S
  PROVE  Server!Cardinality(S) = Cardinality(S)
  BY DEF Server!Cardinality, Cardinality

\* The two find the same ending on the same board.
LEMMA VerdictsAgree ==
  ASSUME NEW g \in AnalysisGames, g.era = "current", NEW mover \in Players, NEW to \in Squares,
         NEW verdict, verdict = Server!Verdict(g.mode, g.grid, mover, to)
  PROVE  /\ verdict = Server!NotOver => ModeEnding(g, mover, to) = g
         /\ verdict # Server!NotOver =>
              ModeEnding(g, mover, to) = Decided(g, mover, verdict.winner, verdict.reason)
<1> DEFINE arrives == \/ g.mode = Infiltration /\ to[2] = Server!GoalRank(mover)
                      \/ g.mode = Intransitive /\ to = Server!GoalCorner(mover)
<1>0. g.mode \in Modes /\ ModeAssumption
  BY GamesAreRecords, ModeAssumption
<1>1. Arrives(g, mover, to) <=> arrives
  BY <1>0, GoalsAgree DEF Arrives
<1>2. Infiltration # Intransitive /\ Infiltration # TotalWar /\ Intransitive # TotalWar
  BY DEF Infiltration, Intransitive, TotalWar
<1>3. Server!OtherColor(mover) = opposingColor(mover)
  BY ServersNames DEF Server!OtherColor, opposingColor
<1>14. ASSUME NEW color
       PROVE  /\ Server!CountPieces(g.grid, color) = countPieces(g.grid, color)
              /\ Server!CountGround(g.grid, color) = territory(g.grid, color)
  <2>1. Server!Squares = Squares
    BY ServersNames
  <2>2. Server!CountPieces(g.grid, color) = countPieces(g.grid, color)
    BY <2>1, ServerCounts DEF Server!CountPieces, countPieces
  <2>3. Server!CountGround(g.grid, color) = territory(g.grid, color)
    BY <2>1, ServerCounts DEF Server!CountGround, territory
  <2> QED
    BY <2>2, <2>3
<1>4. Annihilates(g, mover) <=>
        g.mode = TotalWar /\ Server!CountPieces(g.grid, Server!OtherColor(mover)) = 0
  BY <1>3, <1>14 DEF Annihilates
<1>5. FillsTheBoard(g) <=> g.mode = TotalWar /\ Server!CountGround(g.grid, Server!Neutral) = 0
  BY <1>14, ServersNames DEF FillsTheBoard
<1>6. Server!TerritoryWinner(g.grid) = LargerTerritory(g)
  <2> DEFINE red == territory(g.grid, Red)
             blue == territory(g.grid, Blue)
  <2>1. red \in Nat /\ blue \in Nat
    BY TerritoryIsANumber
  <2>2. Server!TerritoryWinner(g.grid)
          = IF red > blue THEN Red ELSE IF blue > red THEN Blue ELSE Neutral
    <3>1. Server!CountGround(g.grid, Server!Red) = red
      BY <1>14, ServersNames
    <3>2. Server!CountGround(g.grid, Server!Blue) = blue
      BY <1>14, ServersNames
    <3> HIDE DEF red, blue
    <3> QED
      BY <3>1, <3>2, ServersNames DEF Server!TerritoryWinner
  <2>3. LargerTerritory(g)
          = IF red = blue THEN Neutral ELSE IF red > blue THEN Red ELSE Blue
    BY DEF LargerTerritory
  <2> HIDE DEF red, blue
  <2> QED
    BY <2>1, <2>2, <2>3
<1>7. /\ [winner |-> mover, reason |-> "infiltration"] # Server!NotOver
      /\ [winner |-> mover, reason |-> "corner"] # Server!NotOver
      /\ [winner |-> mover, reason |-> "annihilation"] # Server!NotOver
      /\ \A w : [winner |-> w, reason |-> "territory"] # Server!NotOver
  BY DEF Server!NotOver, Server!Neutral, Server!NoReason
<1>8. goalEndReason(Infiltration) = "infiltration" /\ goalEndReason(Intransitive) = "corner"
  BY GoalReasons
<1>9. CASE g.mode = Infiltration /\ arrives
  <2>1. verdict = [winner |-> mover, reason |-> "infiltration"]
    BY <1>2, <1>9, ServersNames DEF Server!Verdict
  <2> QED
    BY <1>1, <1>7, <1>8, <1>9, <2>1, ModeEndings
<1>10. CASE g.mode = Intransitive /\ arrives
  <2>1. verdict = [winner |-> mover, reason |-> "corner"]
    BY <1>2, <1>10, ServersNames DEF Server!Verdict
  <2> QED
    BY <1>1, <1>7, <1>8, <1>10, <2>1, ModeEndings
<1>11. CASE Annihilates(g, mover)
  <2>1. verdict = [winner |-> mover, reason |-> "annihilation"]
    BY <1>2, <1>4, <1>11, ServersNames DEF Server!Verdict
  <2> QED
    BY <1>7, <1>11, <2>1, ModeEndings
<1>12. CASE ~Annihilates(g, mover) /\ FillsTheBoard(g)
  <2>1. verdict = [winner |-> LargerTerritory(g), reason |-> "territory"]
    BY <1>2, <1>4, <1>5, <1>6, <1>12, ServersNames DEF Server!Verdict
  <2> QED
    BY <1>7, <1>12, <2>1, ModeEndings
<1>13. CASE ~Annihilates(g, mover) /\ ~FillsTheBoard(g) /\ ~arrives
  <2>1. verdict = Server!NotOver
    BY <1>2, <1>4, <1>5, <1>13, ServersNames DEF Server!Verdict
  <2> QED
    BY <1>1, <1>13, <2>1, ModeEndings
<1> QED
  BY <1>9, <1>10, <1>11, <1>12, <1>13

\* The mode's part of a move.
LEMMA ModeMovesAgree ==
  ASSUME NEW h, NEW g, SameGame(h, g), GameShown(g), g.era = "current",
         NEW from \in Squares, NEW to, to \in validMovesFor(g, from)
  PROVE  /\ SameGame(Server!ModeMove(h, h.turn, from, to),
                     ModeEnding(Moved(g, from, to), g.currentTurn, to))
         /\ Server!ModeMove(h, h.turn, from, to).quiet = h.quiet
<1> DEFINE mover == g.currentTurn
           board == Server!Claimed(h.mode, Server!MovePiece(h.board, mover, from, to), mover, to)
           verdict == Server!Verdict(h.mode, board, mover, to)
           moved == [h EXCEPT !.board = board, !.moves = h.moves + 1]
           next == Moved(g, from, to)
<1>1. /\ to \in Squares /\ from # to /\ g \in AnalysisGames /\ g.status = InProgress
      /\ g.grid \in [Squares -> Tiles] /\ mover \in Players
  BY ValidMovesAre, GamesAreRecords DEF GameShown
<1>2. /\ h.board = g.grid /\ h.turn = mover /\ h.mode = g.mode /\ h.moves = g.moveNumber
      /\ h.status = g.status /\ h.winner = g.winner /\ h.reason = g.endReason
      /\ DOMAIN h = ServerFields
  BY DEF SameGame
<1>3. board = Landed(g, from, to)
  BY <1>1, <1>2, LandingsAgree
<1>4. /\ next \in AnalysisGames /\ next.grid = board /\ next.mode = g.mode
      /\ next.era = "current" /\ next.status = InProgress
      /\ next.currentTurn = opposingColor(mover) /\ next.moveNumber = g.moveNumber + 1
      /\ next.winner = g.winner /\ next.endReason = g.endReason
  BY <1>3, MovedIsAGame
<1>5. Server!OtherColor(mover) = opposingColor(mover)
  BY ServersNames DEF Server!OtherColor, opposingColor
<1>6. Server!ModeMove(h, h.turn, from, to)
        = IF verdict = Server!NotOver THEN [moved EXCEPT !.turn = Server!OtherColor(mover)]
          ELSE [moved EXCEPT !.status = Server!Finished, !.winner = verdict.winner,
                             !.reason = verdict.reason]
  BY <1>2 DEF Server!ModeMove
<1> HIDE DEF board, next
<1>7. /\ DOMAIN moved = ServerFields /\ moved.board = board /\ moved.moves = h.moves + 1
      /\ moved.mode = h.mode /\ moved.turn = h.turn /\ moved.status = h.status
      /\ moved.winner = h.winner /\ moved.reason = h.reason /\ moved.quiet = h.quiet
  BY <1>2 DEF ServerFields
<1> HIDE DEF moved
<1>8. verdict = Server!Verdict(next.mode, next.grid, mover, to)
  BY <1>2, <1>4
<1>9. /\ verdict = Server!NotOver => ModeEnding(next, mover, to) = next
      /\ verdict # Server!NotOver =>
           ModeEnding(next, mover, to) = Decided(next, mover, verdict.winner, verdict.reason)
  <2> HIDE DEF verdict
  <2> QED
    BY <1>1, <1>4, <1>8, VerdictsAgree
<1> HIDE DEF verdict
<1>10. CASE verdict = Server!NotOver
  <2> DEFINE after == [moved EXCEPT !.turn = Server!OtherColor(mover)]
  <2>1. /\ DOMAIN after = ServerFields /\ after.turn = Server!OtherColor(mover)
        /\ after.board = moved.board /\ after.moves = moved.moves /\ after.mode = moved.mode
        /\ after.status = moved.status /\ after.winner = moved.winner
        /\ after.reason = moved.reason /\ after.quiet = moved.quiet
    BY <1>7 DEF ServerFields
  <2> HIDE DEF after
  <2>2. SameGame(after, next)
    BY <1>1, <1>2, <1>4, <1>5, <1>7, <2>1 DEF SameGame
  <2>3. Server!ModeMove(h, h.turn, from, to) = after
    BY <1>6, <1>10 DEF after
  <2> QED
    BY <1>7, <1>9, <1>10, <2>1, <2>2, <2>3 DEF next
<1>11. CASE verdict # Server!NotOver
  <2> DEFINE after == [moved EXCEPT !.status = Server!Finished, !.winner = verdict.winner,
                                    !.reason = verdict.reason]
             decided == Decided(next, mover, verdict.winner, verdict.reason)
  <2>1. /\ DOMAIN after = ServerFields /\ after.turn = moved.turn
        /\ after.board = moved.board /\ after.moves = moved.moves /\ after.mode = moved.mode
        /\ after.status = Server!Finished /\ after.winner = verdict.winner
        /\ after.reason = verdict.reason /\ after.quiet = moved.quiet
    BY <1>7 DEF ServerFields
  <2>2. /\ decided.grid = next.grid /\ decided.currentTurn = mover /\ decided.mode = next.mode
        /\ decided.moveNumber = next.moveNumber /\ decided.status = Finished
        /\ decided.winner = verdict.winner /\ decided.endReason = verdict.reason
    BY <1>4 DEF Decided, AnalysisGames
  <2> HIDE DEF after, decided
  <2>3. SameGame(after, decided)
    <3>1. after.mode = decided.mode /\ after.board = decided.grid
      BY <1>2, <1>4, <1>7, <2>1, <2>2
    <3>2. after.turn = decided.currentTurn
      BY <1>2, <1>7, <2>1, <2>2
    <3>3. after.moves = decided.moveNumber
      BY <1>2, <1>4, <1>7, <2>1, <2>2
    <3>4. after.status = decided.status
      BY <2>1, <2>2, ServersNames
    <3>5. after.winner = decided.winner /\ after.reason = decided.endReason
      BY <2>1, <2>2
    <3> QED
      BY <2>1, <3>1, <3>2, <3>3, <3>4, <3>5 DEF SameGame
  <2>4. Server!ModeMove(h, h.turn, from, to) = after
    BY <1>6, <1>11 DEF after
  <2>5. ModeEnding(next, mover, to) = decided
    BY <1>9, <1>11 DEF decided
  <2> QED
    BY <1>7, <2>1, <2>3, <2>4, <2>5 DEF next
<1> QED
  BY <1>10, <1>11

LEMMA FinishedOnTheServer ==
  ASSUME NEW h, DOMAIN h = ServerFields, NEW winner, NEW reason, NEW next,
         next = Server!FinishGame(h, winner, reason)
  PROVE  /\ DOMAIN next = ServerFields
         /\ next.mode = h.mode /\ next.board = h.board /\ next.turn = h.turn
         /\ next.status = Finished /\ next.winner = winner /\ next.reason = reason
         /\ next.moves = h.moves /\ next.quiet = h.quiet
  BY ServersNames DEF Server!FinishGame, ServerFields

\* The side to move cannot.
LEMMA StalematesAgree ==
  ASSUME NEW h, NEW g, SameGame(h, g), g \in AnalysisGames, Manned(g.grid), NEW mover \in Players,
         g.status = InProgress => g.currentTurn = opposingColor(mover)
  PROVE  /\ SameGame(Server!AdjudicateStalemate(h), StuckEnding(g, mover))
         /\ Server!AdjudicateStalemate(h).quiet = h.quiet
<1> DEFINE ended == Server!FinishGame(h, Server!StalemateWinner(h.mode, h.turn), "stalemate")
           winner == IF stalemateLoses(g.mode) THEN mover ELSE Neutral
           stuck == [g EXCEPT !.status = Finished, !.endReason = "stalemate", !.winner = winner]
<1>1. g.currentTurn \in Players /\ h.status = g.status /\ h.mode = g.mode
      /\ h.turn = g.currentTurn /\ DOMAIN h = ServerFields
  BY GamesAreRecords DEF SameGame
<1>2. Server!HasLegalMove(h) <=> allValidMoves(g) # {}
  BY <1>1, StuckAgrees
<1>3. Server!AdjudicateStalemate(h)
        = IF g.status = InProgress /\ allValidMoves(g) = {} THEN ended ELSE h
  BY <1>1, <1>2, ServersNames DEF Server!AdjudicateStalemate
<1>4. StuckEnding(g, mover)
        = IF g.status = InProgress /\ allValidMoves(g) = {} THEN stuck ELSE g
  BY DEF StuckEnding
<1>5. g.status = InProgress => Server!StalemateWinner(h.mode, h.turn) = winner
  <2>1. opposingColor(opposingColor(mover)) = mover
    BY OppositeSides
  <2>2. Server!OtherColor(opposingColor(mover)) = mover
    BY <2>1, ServersNames DEF Server!OtherColor, opposingColor
  <2> QED
    BY <1>1, <2>2, ServersNames DEF Server!StalemateWinner, stalemateLoses
<1>6. /\ DOMAIN ended = ServerFields
      /\ ended.mode = h.mode /\ ended.board = h.board /\ ended.turn = h.turn
      /\ ended.status = Finished /\ ended.winner = Server!StalemateWinner(h.mode, h.turn)
      /\ ended.reason = "stalemate" /\ ended.moves = h.moves /\ ended.quiet = h.quiet
  BY <1>1, FinishedOnTheServer
<1>7. /\ stuck.mode = g.mode /\ stuck.grid = g.grid /\ stuck.currentTurn = g.currentTurn
      /\ stuck.status = Finished /\ stuck.winner = winner /\ stuck.endReason = "stalemate"
      /\ stuck.moveNumber = g.moveNumber
  BY DEF AnalysisGames
<1> HIDE DEF ended, stuck, winner
<1>8. g.status = InProgress => SameGame(ended, stuck)
  BY <1>5, <1>6, <1>7 DEF SameGame
<1> QED
  BY <1>3, <1>4, <1>6, <1>8

\* The count of quiet plies: kept last by the server, first by the browser.
LEMMA QuietPliesAgree ==
  ASSUME NEW h, NEW g, SameGame(h, g), g \in AnalysisGames, h.quiet \in Nat,
         NEW captured \in BOOLEAN,
         g.quietPlies = IF captured THEN 0 ELSE h.quiet + 1
  PROVE  /\ SameGame(Server!CountQuietPly(h, captured), QuietEnding(g))
         /\ Server!CountQuietPly(h, captured).quiet = QuietEnding(g).quietPlies
<1> DEFINE reset == [h EXCEPT !.quiet = 0]
           counted == [h EXCEPT !.quiet = h.quiet + 1]
           ended == Server!FinishGame(counted, Server!Neutral, "no_capture")
           drawn == [g EXCEPT !.status = Finished, !.winner = Neutral, !.endReason = "no_capture"]
<1>1. QuietPlyLimit \in Nat /\ QuietPlyLimit > 0
  BY ClientQuietAssumption
<1>2. DOMAIN h = ServerFields /\ h.status = g.status
  BY DEF SameGame
<1>3. /\ DOMAIN reset = ServerFields /\ reset.mode = h.mode /\ reset.board = h.board
      /\ reset.turn = h.turn /\ reset.status = h.status /\ reset.winner = h.winner
      /\ reset.reason = h.reason /\ reset.moves = h.moves /\ reset.quiet = 0
  BY <1>2 DEF ServerFields
<1>4. /\ DOMAIN counted = ServerFields /\ counted.mode = h.mode /\ counted.board = h.board
      /\ counted.turn = h.turn /\ counted.status = h.status /\ counted.winner = h.winner
      /\ counted.reason = h.reason /\ counted.moves = h.moves
      /\ counted.quiet = h.quiet + 1
  BY <1>2 DEF ServerFields
<1>5. Server!CountQuietPly(h, captured)
        = IF captured THEN reset
          ELSE IF h.status = InProgress /\ counted.quiet >= QuietPlyLimit THEN ended ELSE counted
  BY <1>4, ServersNames DEF Server!CountQuietPly, Server!TooQuiet
<1> HIDE DEF reset, counted
<1>6. /\ DOMAIN ended = ServerFields
      /\ ended.mode = counted.mode /\ ended.board = counted.board /\ ended.turn = counted.turn
      /\ ended.status = Finished /\ ended.winner = Server!Neutral
      /\ ended.reason = "no_capture" /\ ended.moves = counted.moves
      /\ ended.quiet = counted.quiet
  BY <1>4, FinishedOnTheServer
<1>7. /\ drawn.mode = g.mode /\ drawn.grid = g.grid /\ drawn.currentTurn = g.currentTurn
      /\ drawn.status = Finished /\ drawn.winner = Neutral /\ drawn.endReason = "no_capture"
      /\ drawn.moveNumber = g.moveNumber /\ drawn.quietPlies = g.quietPlies
  BY DEF AnalysisGames
<1>8. QuietEnding(g)
        = IF g.status = InProgress /\ g.quietPlies >= QuietPlyLimit THEN drawn ELSE g
  BY DEF QuietEnding
<1> HIDE DEF ended, drawn
<1>9. SameGame(reset, g) /\ SameGame(counted, g) /\ SameGame(ended, drawn)
  BY <1>3, <1>4, <1>6, <1>7, ServersNames DEF SameGame
<1>10. CASE captured
  <2>1. QuietEnding(g) = g
    BY <1>1, <1>8, <1>10
  <2> QED
    BY <1>3, <1>5, <1>9, <1>10, <2>1
<1>11. CASE ~captured /\ h.status = InProgress /\ h.quiet + 1 >= QuietPlyLimit
  <2>1. QuietEnding(g) = drawn
    BY <1>2, <1>8, <1>11
  <2>2. Server!CountQuietPly(h, captured) = ended
    BY <1>4, <1>5, <1>11
  <2> QED
    BY <1>4, <1>6, <1>7, <1>9, <1>11, <2>1, <2>2
<1>12. CASE ~captured /\ ~(h.status = InProgress /\ h.quiet + 1 >= QuietPlyLimit)
  <2>1. QuietEnding(g) = g
    BY <1>2, <1>8, <1>12
  <2>2. Server!CountQuietPly(h, captured) = counted
    BY <1>4, <1>5, <1>12
  <2> QED
    BY <1>4, <1>9, <1>12, <2>1, <2>2
<1> QED
  BY <1>10, <1>11, <1>12

\* The event log is nothing a player sees.
LEMMA EventsAreNotSeen ==
  ASSUME NEW h, DOMAIN h = ServerFields, NEW kind, NEW player, NEW move, NEW bonus
  PROVE  /\ DOMAIN Server!RecordEvent(h, kind, player, move, bonus) = ServerFields
         /\ Seen(Server!RecordEvent(h, kind, player, move, bonus)) = Seen(h)
  BY DEF Server!RecordEvent, Seen, ServerFields

LEMMA MoveIsSeenAsPlayed ==
  ASSUME NEW h, NEW player, NEW from, NEW to, NEW played,
         played = Server!CountQuietPly(
                    Server!AdjudicateStalemate(Server!ModeMove(h, player, from, to)),
                    h.board[to].occupant # Server!Empty),
         DOMAIN played = ServerFields
  PROVE  Seen(Server!AfterMove(h, player, from, to)) = Seen(played)
<1> DEFINE over == played.status = Server!Finished
           settled ==
             [played EXCEPT
                !.drawBy = IF over THEN Server!None ELSE Server!StillStanding(h.drawBy, player),
                !.timeBy = IF over THEN Server!None ELSE @,
                !.drawUsed = Server!None,
                !.timeUsed = Server!None,
                !.clockPending = FALSE,
                !.remaining[player] = Server!AddMs(@, 0),
                !.lag = 0,
                !.active = IF over THEN Server!Neutral ELSE played.turn]
           plied == [settled EXCEPT !.plies = settled.plies + 1]
           recorded == Server!RecordEvent(plied, "move", player, <<from, to>>, 0)
           marked == [recorded EXCEPT !.endRecorded = TRUE]
<1>1. Server!AfterMove(h, player, from, to)
        = Server!RecordEnd(Server!RecordMove(settled, player, from, to), player)
  BY DEF Server!AfterMove
<1>2. DOMAIN settled = ServerFields /\ Seen(settled) = Seen(played)
  BY DEF ServerFields, Seen
<1> HIDE DEF settled
<1>3. Server!RecordMove(settled, player, from, to) = recorded
  BY DEF Server!RecordMove
<1>4. DOMAIN plied = ServerFields /\ Seen(plied) = Seen(settled)
  BY <1>2 DEF ServerFields, Seen
<1> HIDE DEF plied
<1>5. DOMAIN recorded = ServerFields /\ Seen(recorded) = Seen(plied)
  BY <1>4, EventsAreNotSeen
<1> HIDE DEF recorded
<1>6. DOMAIN marked = ServerFields /\ Seen(marked) = Seen(recorded)
  BY <1>5 DEF ServerFields, Seen
<1>7. Server!RecordEnd(recorded, player)
        = IF recorded.status # Server!Finished \/ recorded.endRecorded THEN recorded
          ELSE Server!RecordEvent(marked, "end", player, Server!NoMove, 0)
  BY DEF Server!RecordEnd
<1> HIDE DEF marked
<1>8. Seen(Server!RecordEvent(marked, "end", player, Server!NoMove, 0)) = Seen(marked)
  BY <1>6, EventsAreNotSeen
<1>9. Seen(Server!RecordEnd(recorded, player)) = Seen(recorded)
  BY <1>6, <1>7, <1>8
<1> QED
  BY <1>1, <1>2, <1>3, <1>4, <1>5, <1>9

\* A move leads to the same game on both.
LEMMA MovesLeadToTheSame ==
  ASSUME NEW g, GameShown(g), g.era = "current",
         NEW from \in Squares, NEW to, to \in validMovesFor(g, from)
  PROVE  Seen(Server!AfterMove(OnTheServer(g), g.currentTurn, from, to))
           = Seen(OnTheServer(applyAnalysisMove(g, from, to)))
<1> DEFINE h == OnTheServer(g)
           mover == g.currentTurn
           captured == h.board[to].occupant # Server!Empty
           moved == Moved(g, from, to)
           ended == ModeEnding(moved, mover, to)
           stuck == StuckEnding(ended, mover)
           hended == Server!ModeMove(h, mover, from, to)
           hstuck == Server!AdjudicateStalemate(hended)
           played == Server!CountQuietPly(hstuck, captured)
<1>1. SameGame(h, g) /\ h.quiet = g.quietPlies
  BY OnTheServerIsTheSame
<1>2. mover \in Players /\ g \in AnalysisGames /\ g.quietPlies \in 0..QuietPlyLimit
      /\ QuietPlyLimit \in Nat /\ h.turn = mover /\ h.board = g.grid
  BY <1>1, GamesAreRecords, ClientQuietAssumption DEF GameShown, SameGame
<1>3. captured = (g.grid[to].occupant # Empty)
  BY <1>2, ServersNames
<1> HIDE DEF h
<1>4. SameGame(hended, ended) /\ hended.quiet = g.quietPlies
  BY <1>1, <1>2, ModeMovesAgree
<1>5. /\ moved \in AnalysisGames /\ Manned(moved.grid)
      /\ moved.currentTurn = opposingColor(mover)
      /\ moved.quietPlies = IF g.grid[to].occupant # Empty THEN 0 ELSE g.quietPlies + 1
  BY MovedIsAGame
<1> HIDE DEF moved, mover
<1>6. /\ ended \in AnalysisGames /\ SameBoard(ended, moved)
      /\ ended.status = InProgress => ended = moved
  BY <1>2, <1>5, ModeEndingIsAGame
<1> HIDE DEF ended, hended
<1>7. Manned(ended.grid) /\ ended.status = InProgress => ended.currentTurn = opposingColor(mover)
  BY <1>5, <1>6
<1>8. Manned(ended.grid) /\ ended.quietPlies = moved.quietPlies
  BY <1>5, <1>6 DEF SameBoard
<1>9. SameGame(hstuck, stuck) /\ hstuck.quiet = hended.quiet
  BY <1>2, <1>4, <1>6, <1>7, <1>8, StalematesAgree
<1>10. stuck \in AnalysisGames /\ SameBoard(stuck, ended)
  BY <1>2, <1>6, StuckEndingIsAGame
<1> HIDE DEF stuck, hstuck
<1>11. stuck.quietPlies = IF captured THEN 0 ELSE hstuck.quiet + 1
  BY <1>3, <1>4, <1>5, <1>8, <1>9, <1>10 DEF SameBoard
<1>12. captured \in BOOLEAN /\ hstuck.quiet \in Nat
  BY <1>2, <1>4, <1>9
<1> HIDE DEF captured
<1>13. /\ SameGame(played, QuietEnding(stuck))
       /\ played.quiet = QuietEnding(stuck).quietPlies
  BY <1>9, <1>10, <1>11, <1>12, QuietPliesAgree
<1>14. Seen(Server!AfterMove(h, mover, from, to)) = Seen(played)
  <2>1. DOMAIN played = ServerFields
    BY <1>13 DEF SameGame
  <2> QED
    BY <2>1, MoveIsSeenAsPlayed DEF played, hstuck, hended, captured
<1> HIDE DEF played
<1>15. applyAnalysisMove(g, from, to) = QuietEnding(stuck)
  BY MovesAreMoved DEF stuck, ended, moved, mover
<1>16. /\ SameGame(OnTheServer(QuietEnding(stuck)), QuietEnding(stuck))
       /\ OnTheServer(QuietEnding(stuck)).quiet = QuietEnding(stuck).quietPlies
  BY OnTheServerIsTheSame
<1>17. Seen(played) = Seen(OnTheServer(QuietEnding(stuck)))
  BY <1>13, <1>16 DEF Seen, SameGame
<1> QED
  BY <1>14, <1>15, <1>17 DEF h, mover

\* The browser and the server play one game, from every position that play
\* leads to on a board of any size, under today's goals (analysisGame.ts against
\* game.go and the modes).
THEOREM BrowserPlaysTheServersRules == RaceSpec => []ClientPlaysTheServersRules
<1>1. ASSUME BoardSound
      PROVE  ClientPlaysTheServersRules
  <2> SUFFICES ASSUME shown.era = "current", NEW from \in Squares, NEW to \in Squares
               PROVE  LET g == OnTheServer(shown)
                          legal == Server!LegalMove(g, g.turn, from, to)
                      IN  /\ legal <=> to \in validMovesFor(shown, from)
                          /\ legal => Seen(Server!AfterMove(g, g.turn, from, to))
                                        = Seen(OnTheServer(applyAnalysisMove(shown, from, to)))
    BY DEF ClientPlaysTheServersRules
  <2> DEFINE g == OnTheServer(shown)
             legal == Server!LegalMove(g, g.turn, from, to)
  <2>1. GameShown(shown) /\ Manned(shown.grid) /\ shown.currentTurn \in Players
    BY <1>1, GamesAreRecords DEF BoardSound, GameShown
  <2>2. SameGame(g, shown) /\ g.turn = shown.currentTurn
    BY OnTheServerIsTheSame DEF SameGame
  <2>3. legal <=> to \in validMovesFor(shown, from)
    BY <2>1, <2>2, MovesAgree
  <2>4. legal => Seen(Server!AfterMove(g, g.turn, from, to))
                   = Seen(OnTheServer(applyAnalysisMove(shown, from, to)))
    BY <2>1, <2>2, <2>3, MovesLeadToTheSame
  <2> QED
    BY <2>3, <2>4
<1> QED
  BY <1>1, BoardStaysSound, PTL

-----------------------------------------------------------------------------
(* The board turned over.                                                  *)

LEMMA UpendedSquares ==
  ASSUME NEW s \in Squares
  PROVE  /\ Upended(s) \in Squares /\ Upended(Upended(s)) = s
         /\ Upended(s)[1] = s[1] /\ Upended(s)[2] = Height - 1 - s[2]
         /\ \A t \in Squares : Upended(s) = Upended(t) <=> s = t
<1>1. ASSUME NEW t \in Squares
      PROVE  /\ t = <<t[1], t[2]>> /\ t[1] \in 0..Width - 1 /\ t[2] \in 0..Height - 1
             /\ Upended(t) \in Squares
             /\ Upended(t)[1] = t[1] /\ Upended(t)[2] = Height - 1 - t[2]
             /\ Upended(Upended(t)) = t
  <2>1. /\ t = <<t[1], t[2]>> /\ t[1] \in 0..Width - 1 /\ t[2] \in 0..Height - 1
        /\ Height \in Nat
    BY SquaresArePairs, BoardAssumption
  <2>2. Upended(t) = <<t[1], Height - 1 - t[2]>>
    BY DEF Upended
  <2>3. Upended(t)[1] = t[1] /\ Upended(t)[2] = Height - 1 - t[2]
    BY <2>2
  <2>4. Height - 1 - t[2] \in 0..Height - 1 /\ Height - 1 - (Height - 1 - t[2]) = t[2]
    BY <2>1
  <2>5. Upended(t) \in Squares
    BY <2>1, <2>2, <2>4 DEF Squares
  <2>6. Upended(Upended(t)) = <<t[1], Height - 1 - (Height - 1 - t[2])>>
    BY <2>3 DEF Upended
  <2> QED
    BY <2>1, <2>3, <2>4, <2>5, <2>6
<1>2. ASSUME NEW t \in Squares
      PROVE  Upended(s) = Upended(t) <=> s = t
  <2>1. Upended(Upended(s)) = s /\ Upended(Upended(t)) = t
    BY <1>1
  <2> QED
    BY <2>1
<1> QED
  BY <1>1, <1>2

LEMMA UpendedSteps ==
  ASSUME NEW from \in Squares, NEW to \in Squares
  PROVE  KingStep(Upended(from), Upended(to)) <=> KingStep(from, to)
<1>1. /\ from[1] \in Int /\ from[2] \in Int /\ to[1] \in Int /\ to[2] \in Int /\ Height \in Int
  BY SquaresArePairs, BoardAssumption
<1>2. (Height - 1 - to[2]) - (Height - 1 - from[2]) \in -1..1 <=> to[2] - from[2] \in -1..1
  BY <1>1
<1> QED
  BY <1>2, UpendedSquares DEF KingStep

LEMMA UpendedColors ==
  /\ UpendedColor(Red) = Blue /\ UpendedColor(Blue) = Red /\ UpendedColor(Neutral) = Neutral
  /\ \A c \in Players : UpendedColor(c) = opposingColor(c) /\ UpendedColor(c) \in Players
  /\ \A c \in Colors : UpendedColor(c) \in Colors /\ UpendedColor(UpendedColor(c)) = c
  /\ \A c, d \in Colors : UpendedColor(c) = UpendedColor(d) <=> c = d
  BY DEF UpendedColor, opposingColor

\* A tile as it looks from the other side.
UpendedTile(t) ==
  [occupant |-> t.occupant, owner |-> UpendedColor(t.owner), ground |-> UpendedColor(t.ground)]

UpendedGrid(grid) == [s \in Squares |-> UpendedTile(grid[Upended(s)])]

LEMMA UpendedTiles ==
  ASSUME NEW t \in Tiles
  PROVE  /\ UpendedTile(t) \in Tiles
         /\ UpendedTile(t) = [t EXCEPT !.owner = UpendedColor(@), !.ground = UpendedColor(@)]
<1>1. PICK o \in Pieces \cup {Empty}, c \in Colors, d \in Colors :
        t = [occupant |-> o, owner |-> c, ground |-> d]
  BY DEF Tiles
<1>2. t.occupant = o /\ t.owner = c /\ t.ground = d
  BY <1>1
<1>3. PICK x \in Colors, y \in Colors : x = UpendedColor(c) /\ y = UpendedColor(d)
  BY UpendedColors
<1>4. [t EXCEPT !.owner = UpendedColor(@), !.ground = UpendedColor(@)]
        = [occupant |-> o, owner |-> x, ground |-> y]
  <2>1. [t EXCEPT !.owner = UpendedColor(@), !.ground = UpendedColor(@)]
          = [t EXCEPT !.owner = x, !.ground = y]
    BY <1>2, <1>3
  <2>2. [t EXCEPT !.owner = x, !.ground = y] = [occupant |-> o, owner |-> x, ground |-> y]
    <3>1. [t EXCEPT !.owner = x] = [occupant |-> o, owner |-> x, ground |-> d]
      BY <1>1
    <3>2. [[occupant |-> o, owner |-> x, ground |-> d] EXCEPT !.ground = y]
            = [occupant |-> o, owner |-> x, ground |-> y]
      OBVIOUS
    <3>3. [t EXCEPT !.owner = x, !.ground = y] = [[t EXCEPT !.owner = x] EXCEPT !.ground = y]
      OBVIOUS
    <3> QED
      BY <3>1, <3>2, <3>3, Zenon
  <2> QED
    BY <2>1, <2>2
<1>5. UpendedTile(t) = [occupant |-> o, owner |-> x, ground |-> y]
  BY <1>2, <1>3 DEF UpendedTile
<1> QED
  BY <1>4, <1>5 DEF Tiles

\* Two games with the same fields are one.
LEMMA SameFieldsSameGame ==
  ASSUME NEW g \in AnalysisGames, NEW h \in AnalysisGames,
         SameBoard(g, h), g.currentTurn = h.currentTurn, g.status = h.status,
         g.winner = h.winner, g.endReason = h.endReason
  PROVE  g = h
<1>1. g = [mode |-> g.mode, grid |-> g.grid, currentTurn |-> g.currentTurn, era |-> g.era,
           status |-> g.status, winner |-> g.winner, endReason |-> g.endReason,
           moveNumber |-> g.moveNumber, quietPlies |-> g.quietPlies]
  BY DEF AnalysisGames
<1>2. h = [mode |-> h.mode, grid |-> h.grid, currentTurn |-> h.currentTurn, era |-> h.era,
           status |-> h.status, winner |-> h.winner, endReason |-> h.endReason,
           moveNumber |-> h.moveNumber, quietPlies |-> h.quietPlies]
  BY DEF AnalysisGames
<1> QED
  BY <1>1, <1>2 DEF SameBoard

LEMMA UpendedGames ==
  ASSUME NEW g \in AnalysisGames
  PROVE  /\ UpendedGame(g) \in AnalysisGames
         /\ UpendedGame(g).grid = UpendedGrid(g.grid)
         /\ UpendedGame(g).currentTurn = opposingColor(g.currentTurn)
         /\ UpendedGame(g).winner = UpendedColor(g.winner)
         /\ UpendedGame(g).era = OtherEra(g.era)
         /\ UpendedGame(g).mode = g.mode /\ UpendedGame(g).status = g.status
         /\ UpendedGame(g).endReason = g.endReason /\ UpendedGame(g).moveNumber = g.moveNumber
         /\ UpendedGame(g).quietPlies = g.quietPlies
<1> DEFINE grid == [s \in Squares |-> [g.grid[Upended(s)] EXCEPT
                                         !.owner = UpendedColor(@), !.ground = UpendedColor(@)]]
           turn == opposingColor(g.currentTurn)
           winner == UpendedColor(g.winner)
           era == OtherEra(g.era)
           turned == [g EXCEPT !.grid = grid, !.currentTurn = turn, !.winner = winner, !.era = era]
<1>1. UpendedGame(g) = turned
  BY DEF UpendedGame
<1>2. grid = UpendedGrid(g.grid) /\ grid \in [Squares -> Tiles]
  <2>1. ASSUME NEW s \in Squares
        PROVE  /\ [g.grid[Upended(s)] EXCEPT !.owner = UpendedColor(@), !.ground = UpendedColor(@)]
                    = UpendedTile(g.grid[Upended(s)])
               /\ UpendedTile(g.grid[Upended(s)]) \in Tiles
    <3>1. g.grid[Upended(s)] \in Tiles
      BY UpendedSquares, GamesAreRecords
    <3> QED
      BY <3>1, UpendedTiles
  <2> QED
    BY <2>1 DEF UpendedGrid
<1>3. turn \in Players /\ winner \in Colors /\ era \in Eras
  BY GamesAreRecords, OppositeSides, UpendedColors DEF OtherEra, Eras
<1> HIDE DEF grid, turn, winner, era
<1>4. /\ turned \in AnalysisGames /\ turned.grid = grid /\ turned.currentTurn = turn
      /\ turned.winner = winner /\ turned.era = era
      /\ turned.mode = g.mode /\ turned.status = g.status /\ turned.endReason = g.endReason
      /\ turned.moveNumber = g.moveNumber /\ turned.quietPlies = g.quietPlies
  BY <1>2, <1>3 DEF AnalysisGames
<1> HIDE DEF turned
<1> QED
  BY <1>1, <1>2, <1>4 DEF turn, winner, era

\* What stands on a square of the board turned over.
LEMMA UpendedGridTiles ==
  ASSUME NEW grid \in [Squares -> Tiles], NEW s \in Squares
  PROVE  /\ UpendedGrid(grid)[Upended(s)] = UpendedTile(grid[s])
         /\ UpendedGrid(grid)[Upended(s)].occupant = grid[s].occupant
         /\ UpendedGrid(grid)[Upended(s)].owner = UpendedColor(grid[s].owner)
         /\ UpendedGrid(grid)[Upended(s)].ground = UpendedColor(grid[s].ground)
         /\ grid[s].owner \in Colors /\ grid[s].ground \in Colors
  BY UpendedSquares, TilesAreRecords DEF UpendedGrid, UpendedTile

LEMMA UpendedMoves ==
  ASSUME NEW g \in AnalysisGames, NEW from \in Squares, NEW to \in Squares
  PROVE  to \in validMovesFor(g, from)
           <=> Upended(to) \in validMovesFor(UpendedGame(g), Upended(from))
<1> DEFINE turned == UpendedGame(g)
<1>1. /\ turned.grid = UpendedGrid(g.grid) /\ turned.status = g.status
      /\ turned.currentTurn = UpendedColor(g.currentTurn)
      /\ g.grid \in [Squares -> Tiles] /\ g.currentTurn \in Players /\ g.currentTurn \in Colors
  <2>1. g.grid \in [Squares -> Tiles] /\ g.currentTurn \in Players /\ g.currentTurn \in Colors
    BY GamesAreRecords
  <2>2. turned.grid = UpendedGrid(g.grid) /\ turned.status = g.status
    BY UpendedGames
  <2>3. turned.currentTurn = opposingColor(g.currentTurn)
    BY UpendedGames
  <2> QED
    BY <2>1, <2>2, <2>3, UpendedColors
<1>2. Upended(from) \in Squares /\ Upended(to) \in Squares
  BY UpendedSquares
<1> HIDE DEF turned
<1>3. ASSUME NEW s \in Squares
      PROVE  /\ turned.grid[Upended(s)].occupant = g.grid[s].occupant
             /\ turned.grid[Upended(s)].owner = turned.currentTurn
                  <=> g.grid[s].owner = g.currentTurn
  BY <1>1, UpendedGridTiles, UpendedColors
<1>4. Upended(to) \in validMovesFor(turned, Upended(from)) <=>
        /\ turned.status = InProgress
        /\ turned.grid[Upended(from)].occupant # Empty
        /\ turned.grid[Upended(from)].owner = turned.currentTurn
        /\ KingStep(Upended(from), Upended(to))
        /\ turned.grid[Upended(to)].owner # turned.currentTurn
        /\ \/ turned.grid[Upended(to)].occupant = Empty
           \/ canCapture(turned.grid[Upended(from)].occupant, turned.grid[Upended(to)].occupant)
  BY <1>2 DEF validMovesFor, stepTargets
<1>5. to \in validMovesFor(g, from) <=>
        /\ g.status = InProgress
        /\ g.grid[from].occupant # Empty
        /\ g.grid[from].owner = g.currentTurn
        /\ KingStep(from, to)
        /\ g.grid[to].owner # g.currentTurn
        /\ \/ g.grid[to].occupant = Empty
           \/ canCapture(g.grid[from].occupant, g.grid[to].occupant)
  BY DEF validMovesFor, stepTargets
<1> QED
  BY <1>1, <1>3, <1>4, <1>5, UpendedSteps DEF turned

LEMMA UpendedStuck ==
  ASSUME NEW g \in AnalysisGames
  PROVE  allValidMoves(UpendedGame(g)) = {} <=> allValidMoves(g) = {}
<1>1. ASSUME NEW from \in Squares, NEW to \in Squares, to \in validMovesFor(g, from)
      PROVE  \E m \in Squares \X Squares : m[2] \in validMovesFor(UpendedGame(g), m[1])
  <2>1. <<Upended(from), Upended(to)>> \in Squares \X Squares
    BY UpendedSquares
  <2> QED
    BY <1>1, <2>1, UpendedMoves
<1>2. ASSUME NEW from \in Squares, NEW to \in Squares, to \in validMovesFor(UpendedGame(g), from)
      PROVE  \E m \in Squares \X Squares : m[2] \in validMovesFor(g, m[1])
  <2>1. <<Upended(from), Upended(to)>> \in Squares \X Squares
    BY UpendedSquares
  <2>2. Upended(Upended(from)) = from /\ Upended(Upended(to)) = to
    BY UpendedSquares
  <2> QED
    BY <1>2, <2>1, <2>2, UpendedMoves
<1> QED
  BY <1>1, <1>2 DEF allValidMoves

LEMMA UpendedGoals ==
  ASSUME NEW mode, NEW s \in Squares, NEW era \in Eras, NEW c \in Players
  PROVE  goalOwnerAt(mode, Upended(s), OtherEra(era)) = opposingColor(c)
           <=> goalOwnerAt(mode, s, era) = c
<1> DEFINE today == GoalOwnerToday(mode, s)
           turned == GoalOwnerToday(mode, Upended(s))
<1>1. today \in Colors /\ turned \in Colors
  BY DEF GoalOwnerToday, NobodysGoal
<1>2. GoalOwnerToday(mode, <<s[1], Height - 1 - s[2]>>) = turned
  BY DEF Upended
<1>3. GoalOwnerToday(mode, <<Upended(s)[1], Height - 1 - Upended(s)[2]>>) = today
  <2>1. <<Upended(s)[1], Height - 1 - Upended(s)[2]>> = s
    BY UpendedSquares DEF Upended
  <2> QED
    BY <2>1
<1>4. \A x \in Colors : swapSide(x) = UpendedColor(x)
  BY DEF swapSide, NobodysGoal, UpendedColor, opposingColor
<1> HIDE DEF today, turned
<1>5. CASE era = "current"
  <2>1. goalOwnerAt(mode, Upended(s), OtherEra(era)) = UpendedColor(today)
    BY <1>1, <1>3, <1>4, <1>5 DEF goalOwnerAt, OtherEra
  <2>2. goalOwnerAt(mode, s, era) = today
    BY <1>5 DEF goalOwnerAt, today
  <2> QED
    BY <1>1, <2>1, <2>2, UpendedColors
<1>6. CASE era = "preChange"
  <2>1. goalOwnerAt(mode, Upended(s), OtherEra(era)) = turned
    BY <1>6 DEF goalOwnerAt, OtherEra, turned
  <2>2. goalOwnerAt(mode, s, era) = UpendedColor(turned)
    BY <1>1, <1>2, <1>4, <1>6 DEF goalOwnerAt
  <2> QED
    BY <1>1, <2>1, <2>2, UpendedColors
<1> QED
  BY <1>5, <1>6 DEF Eras

\* As many squares of a color as of the other on the board turned over.
LEMMA UpendedSets ==
  ASSUME NEW S, S \subseteq Squares, NEW T, T \subseteq Squares,
         \A s \in Squares : s \in S <=> Upended(s) \in T
  PROVE  Cardinality(T) = Cardinality(S)
<1> DEFINE f == [s \in S |-> Upended(s)]
<1>1. IsFiniteSet(S)
  BY SquaresAreFinite, FS_Subset
<1>2. f \in [S -> T] /\ \A s, t \in S : f[s] = f[t] => s = t
  BY UpendedSquares
<1>3. ASSUME NEW t \in T
      PROVE  Upended(t) \in S /\ f[Upended(t)] = t
  <2>1. Upended(t) \in Squares /\ Upended(Upended(t)) = t
    BY UpendedSquares
  <2> QED
    BY <2>1
<1>4. \A t \in T : \E s \in S : f[s] = t
  BY <1>3
<1>5. f \in Bijection(S, T)
  BY <1>2, <1>4 DEF Bijection, Injection, Surjection, IsInjective
<1>6. ExistsBijection(S, T)
  BY <1>5 DEF ExistsBijection
<1> QED
  BY <1>1, <1>6, FS_Bijection, FS_CardinalityType

LEMMA UpendedCounts ==
  ASSUME NEW grid \in [Squares -> Tiles], NEW c \in Colors
  PROVE  /\ countPieces(UpendedGrid(grid), UpendedColor(c)) = countPieces(grid, c)
         /\ territory(UpendedGrid(grid), UpendedColor(c)) = territory(grid, c)
<1> DEFINE turned == UpendedGrid(grid)
           P == {s \in Squares : grid[s].owner = c}
           Q == {s \in Squares : turned[s].owner = UpendedColor(c)}
           G == {s \in Squares : grid[s].ground = c}
           H == {s \in Squares : turned[s].ground = UpendedColor(c)}
<1>1. ASSUME NEW s \in Squares
      PROVE  (s \in P <=> Upended(s) \in Q) /\ (s \in G <=> Upended(s) \in H)
  <2>1. /\ turned[Upended(s)].owner = UpendedColor(grid[s].owner)
        /\ turned[Upended(s)].ground = UpendedColor(grid[s].ground)
        /\ grid[s].owner \in Colors /\ grid[s].ground \in Colors /\ Upended(s) \in Squares
    BY UpendedGridTiles, UpendedSquares
  <2> HIDE DEF turned
  <2> QED
    BY <2>1, UpendedColors
<1>2. P \subseteq Squares /\ Q \subseteq Squares /\ G \subseteq Squares /\ H \subseteq Squares
  OBVIOUS
<1> HIDE DEF P, Q, G, H
<1>3. Cardinality(Q) = Cardinality(P) /\ Cardinality(H) = Cardinality(G)
  BY <1>1, <1>2, UpendedSets
<1> QED
  BY <1>3 DEF countPieces, territory, P, Q, G, H

\* A move and the ending it may bring, on the board turned over.
LEMMA UpendedIsShown ==
  ASSUME NEW g, GameShown(g)
  PROVE  GameShown(UpendedGame(g))
<1>1. g \in AnalysisGames /\ g.grid \in [Squares -> Tiles]
  BY GamesAreRecords DEF GameShown
<1>2. Manned(UpendedGrid(g.grid))
  <2> SUFFICES ASSUME NEW s \in Squares
               PROVE  UpendedGrid(g.grid)[s].occupant = Empty
                        <=> UpendedGrid(g.grid)[s].owner = Neutral
    BY DEF Manned
  <2>1. PICK t \in Squares : s = Upended(t)
    BY UpendedSquares
  <2>2. /\ UpendedGrid(g.grid)[s].occupant = g.grid[t].occupant
        /\ UpendedGrid(g.grid)[s].owner = UpendedColor(g.grid[t].owner)
        /\ g.grid[t].owner \in Colors
    BY <1>1, <2>1, UpendedGridTiles
  <2>3. g.grid[t].occupant = Empty <=> g.grid[t].owner = Neutral
    BY DEF GameShown, Manned
  <2> QED
    BY <2>2, <2>3, UpendedColors
<1>3. /\ UpendedGame(g) \in AnalysisGames /\ UpendedGame(g).grid = UpendedGrid(g.grid)
      /\ UpendedGame(g).status = g.status /\ UpendedGame(g).quietPlies = g.quietPlies
  BY <1>1, UpendedGames
<1> QED
  BY <1>2, <1>3 DEF GameShown

LEMMA UpendedLanding ==
  ASSUME NEW g \in AnalysisGames, NEW from \in Squares, NEW to \in Squares, from # to
  PROVE  UpendedGrid(Landed(g, from, to))
           = Landed(UpendedGame(g), Upended(from), Upended(to))
<1> DEFINE turned == UpendedGame(g)
<1>1. /\ turned.grid = UpendedGrid(g.grid) /\ turned.currentTurn = opposingColor(g.currentTurn)
      /\ turned.mode = g.mode /\ turned \in AnalysisGames
  BY UpendedGames
<1>2. /\ g.grid \in [Squares -> Tiles] /\ g.currentTurn \in Players
      /\ turned.grid \in [Squares -> Tiles]
  BY <1>1, GamesAreRecords
<1>3. /\ Upended(from) \in Squares /\ Upended(to) \in Squares
      /\ Upended(from) # Upended(to)
  BY UpendedSquares
<1> HIDE DEF turned
<1>4. Landed(g, from, to) = [s \in Squares |-> TileAfter(g, from, to, s)]
  BY <1>2, LandedTiles
<1>5. Landed(turned, Upended(from), Upended(to))
        = [s \in Squares |-> TileAfter(turned, Upended(from), Upended(to), s)]
  BY <1>2, <1>3, LandedTiles
<1>6. ASSUME NEW s \in Squares
      PROVE  UpendedTile(TileAfter(g, from, to, Upended(s)))
               = TileAfter(turned, Upended(from), Upended(to), s)
  <2>1. PICK t \in Squares : t = Upended(s) /\ s = Upended(t)
    BY UpendedSquares
  <2>2. (s = Upended(from) <=> t = from) /\ (s = Upended(to) <=> t = to)
    BY <2>1, UpendedSquares
  <2>3. ASSUME NEW q \in Squares
        PROVE  /\ turned.grid[Upended(q)].occupant = g.grid[q].occupant
               /\ turned.grid[Upended(q)].owner = UpendedColor(g.grid[q].owner)
               /\ turned.grid[Upended(q)].ground = UpendedColor(g.grid[q].ground)
               /\ g.grid[q].ground \in Colors
    BY <1>1, <1>2, UpendedGridTiles
  <2>4. UpendedColor(g.currentTurn) = turned.currentTurn
    BY <1>1, <1>2, UpendedColors
  <2>5. turned.grid[Upended(to)].ground = Neutral <=> g.grid[to].ground = Neutral
    BY <2>3, UpendedColors
  <2>6. turned.grid[s].occupant = g.grid[t].occupant
        /\ turned.grid[s].owner = UpendedColor(g.grid[t].owner)
        /\ turned.grid[s].ground = UpendedColor(g.grid[t].ground)
    BY <2>1, <2>3
  <2>7. UpendedColor(Neutral) = Neutral
    BY UpendedColors
  <2> DEFINE here == TileAfter(g, from, to, t)
             there == TileAfter(turned, Upended(from), Upended(to), s)
  <2>8. there.occupant = here.occupant
    BY <2>2, <2>3, <2>6 DEF TileAfter
  <2>9. there.owner = UpendedColor(here.owner)
    BY <2>2, <2>4, <2>6, <2>7 DEF TileAfter
  <2>10. there.ground = UpendedColor(here.ground)
    BY <1>1, <2>2, <2>4, <2>5, <2>6 DEF TileAfter
  <2>11. there = [occupant |-> there.occupant, owner |-> there.owner, ground |-> there.ground]
    BY DEF TileAfter
  <2> HIDE DEF here, there
  <2>12. UpendedTile(here) = there
    BY <2>8, <2>9, <2>10, <2>11, Zenon DEF UpendedTile
  <2> QED
    BY <2>1, <2>12 DEF here, there
<1>7. UpendedGrid(Landed(g, from, to))
        = [s \in Squares |-> UpendedTile(TileAfter(g, from, to, Upended(s)))]
  BY <1>4, UpendedSquares DEF UpendedGrid
<1> QED
  BY <1>5, <1>6, <1>7 DEF turned

LEMMA UpendedMoved ==
  ASSUME NEW g, GameShown(g), NEW from \in Squares, NEW to, to \in validMovesFor(g, from)
  PROVE  UpendedGame(Moved(g, from, to))
           = Moved(UpendedGame(g), Upended(from), Upended(to))
<1> DEFINE turned == UpendedGame(g)
           here == Moved(g, from, to)
           there == Moved(turned, Upended(from), Upended(to))
<1>1. g \in AnalysisGames /\ g.currentTurn \in Players /\ g.grid \in [Squares -> Tiles]
  BY GamesAreRecords DEF GameShown
<1>2. to \in Squares /\ from # to
  BY ValidMovesAre
<1>3. GameShown(turned)
  BY UpendedIsShown
<1>4. Upended(from) \in Squares /\ Upended(to) \in Squares
  BY <1>2, UpendedSquares
<1>5. Upended(to) \in validMovesFor(turned, Upended(from))
  BY <1>1, <1>2, UpendedMoves
<1>6. /\ turned.currentTurn = opposingColor(g.currentTurn) /\ turned.mode = g.mode
      /\ turned.era = OtherEra(g.era) /\ turned.moveNumber = g.moveNumber
      /\ turned.quietPlies = g.quietPlies /\ turned.endReason = g.endReason
  BY <1>1, UpendedGames
<1>7. turned.winner = UpendedColor(g.winner)
  BY <1>1, UpendedGames
<1>8. turned.grid[Upended(to)].occupant = g.grid[to].occupant
  BY <1>1, <1>2, UpendedGames, UpendedGridTiles
<1> HIDE DEF turned
<1>9. /\ here \in AnalysisGames /\ here.grid = Landed(g, from, to)
      /\ here.mode = g.mode /\ here.era = g.era /\ here.status = InProgress
      /\ here.currentTurn = opposingColor(g.currentTurn)
      /\ here.moveNumber = g.moveNumber + 1
  BY MovedIsAGame
<1>10. /\ here.quietPlies = IF g.grid[to].occupant # Empty THEN 0 ELSE g.quietPlies + 1
       /\ here.winner = g.winner /\ here.endReason = g.endReason
  BY MovedIsAGame
<1>11. /\ there \in AnalysisGames /\ there.grid = Landed(turned, Upended(from), Upended(to))
       /\ there.mode = turned.mode /\ there.era = turned.era /\ there.status = InProgress
       /\ there.currentTurn = opposingColor(turned.currentTurn)
       /\ there.moveNumber = turned.moveNumber + 1
  BY <1>3, <1>4, <1>5, MovedIsAGame
<1>12. /\ there.quietPlies
            = IF turned.grid[Upended(to)].occupant # Empty THEN 0 ELSE turned.quietPlies + 1
       /\ there.winner = turned.winner /\ there.endReason = turned.endReason
  BY <1>3, <1>4, <1>5, MovedIsAGame
<1>13. UpendedGrid(Landed(g, from, to)) = Landed(turned, Upended(from), Upended(to))
  BY <1>1, <1>2, UpendedLanding DEF turned
<1> HIDE DEF here, there
<1> DEFINE back == UpendedGame(here)
<1>14. /\ back \in AnalysisGames /\ back.grid = UpendedGrid(here.grid)
       /\ back.currentTurn = opposingColor(here.currentTurn)
       /\ back.winner = UpendedColor(here.winner) /\ back.era = OtherEra(here.era)
  BY <1>9, UpendedGames
<1>15. /\ back.mode = here.mode /\ back.status = here.status
       /\ back.endReason = here.endReason /\ back.moveNumber = here.moveNumber
       /\ back.quietPlies = here.quietPlies
  BY <1>9, UpendedGames
<1> HIDE DEF back
<1>16. back.grid = there.grid
  BY <1>9, <1>11, <1>13, <1>14
<1>17. SameBoard(back, there)
  BY <1>6, <1>8, <1>9, <1>10, <1>11, <1>12, <1>14, <1>15, <1>16 DEF SameBoard
<1>18. back = there
  BY <1>6, <1>7, <1>9, <1>10, <1>11, <1>12, <1>14, <1>15, <1>17, SameFieldsSameGame
<1> QED
  BY <1>18 DEF back, there, here, turned

LEMMA UpendedDecision ==
  ASSUME NEW g \in AnalysisGames, NEW mover \in Players, NEW winner \in Colors,
         NEW reason \in EndReasons
  PROVE  UpendedGame(Decided(g, mover, winner, reason))
           = Decided(UpendedGame(g), opposingColor(mover), UpendedColor(winner), reason)
<1> DEFINE turned == UpendedGame(g)
           here == Decided(g, mover, winner, reason)
           there == Decided(turned, opposingColor(mover), UpendedColor(winner), reason)
           back == UpendedGame(here)
<1>1. /\ turned \in AnalysisGames /\ turned.grid = UpendedGrid(g.grid)
      /\ turned.mode = g.mode /\ turned.era = OtherEra(g.era)
      /\ turned.moveNumber = g.moveNumber /\ turned.quietPlies = g.quietPlies
  BY UpendedGames
<1>2. opposingColor(mover) \in Players /\ UpendedColor(winner) \in Colors
  BY OppositeSides, UpendedColors
<1> HIDE DEF turned
<1>3. /\ here \in AnalysisGames /\ SameBoard(here, g)
      /\ here.status = Finished /\ here.winner = winner
      /\ here.endReason = reason /\ here.currentTurn = mover
  <2>1. here \in AnalysisGames
    BY DecidedIsAGame
  <2>2. SameBoard(here, g)
    BY DecidedIsAGame
  <2>3. here.status = Finished /\ here.winner = winner
    BY DEF Decided, AnalysisGames
  <2>4. here.endReason = reason /\ here.currentTurn = mover
    BY DEF Decided, AnalysisGames
  <2> QED
    BY <2>1, <2>2, <2>3, <2>4
<1>4. /\ there \in AnalysisGames /\ SameBoard(there, turned)
      /\ there.status = Finished /\ there.winner = UpendedColor(winner)
      /\ there.endReason = reason /\ there.currentTurn = opposingColor(mover)
  <2>1. there \in AnalysisGames
    BY <1>1, <1>2, DecidedIsAGame
  <2>2. SameBoard(there, turned)
    BY <1>1, <1>2, DecidedIsAGame
  <2>3. there.status = Finished /\ there.winner = UpendedColor(winner)
    BY <1>1, <1>2 DEF Decided, AnalysisGames
  <2>4. there.endReason = reason /\ there.currentTurn = opposingColor(mover)
    BY <1>1, <1>2 DEF Decided, AnalysisGames
  <2> QED
    BY <2>1, <2>2, <2>3, <2>4
<1> HIDE DEF here, there
<1>5. /\ back \in AnalysisGames /\ back.grid = UpendedGrid(here.grid)
      /\ back.currentTurn = opposingColor(here.currentTurn)
      /\ back.winner = UpendedColor(here.winner) /\ back.era = OtherEra(here.era)
  BY <1>3, UpendedGames
<1>6. /\ back.mode = here.mode /\ back.status = here.status
      /\ back.endReason = here.endReason /\ back.moveNumber = here.moveNumber
      /\ back.quietPlies = here.quietPlies
  BY <1>3, UpendedGames
<1> HIDE DEF back
<1>7. SameBoard(back, there)
  BY <1>1, <1>3, <1>4, <1>5, <1>6 DEF SameBoard
<1>8. back = there
  BY <1>3, <1>4, <1>5, <1>6, <1>7, SameFieldsSameGame
<1> QED
  BY <1>8 DEF back, there, here, turned

LEMMA UpendedModeEnding ==
  ASSUME NEW g \in AnalysisGames, NEW mover \in Players, NEW to \in Squares
  PROVE  UpendedGame(ModeEnding(g, mover, to))
           = ModeEnding(UpendedGame(g), opposingColor(mover), Upended(to))
<1> DEFINE turned == UpendedGame(g)
           enemy == opposingColor(mover)
           Turned(h) == UpendedGame(h)
<1>1. /\ turned \in AnalysisGames /\ turned.grid = UpendedGrid(g.grid)
      /\ turned.mode = g.mode /\ turned.era = OtherEra(g.era)
  BY UpendedGames
<1>2. g.grid \in [Squares -> Tiles] /\ g.era \in Eras
  BY GamesAreRecords
<1>3. /\ enemy \in Players /\ opposingColor(enemy) = mover /\ enemy = UpendedColor(mover)
      /\ mover \in Colors /\ UpendedColor(enemy) = mover /\ Neutral \in Colors
      /\ enemy \in Colors
  BY OppositeSides, UpendedColors
<1> HIDE DEF turned, enemy
<1>4. Annihilates(turned, enemy) <=> Annihilates(g, mover)
  <2>1. countPieces(UpendedGrid(g.grid), UpendedColor(enemy)) = countPieces(g.grid, enemy)
    BY <1>2, <1>3, UpendedCounts
  <2> QED
    BY <1>1, <1>3, <2>1 DEF Annihilates, enemy
<1>5. FillsTheBoard(turned) <=> FillsTheBoard(g)
  <2>1. territory(UpendedGrid(g.grid), UpendedColor(Neutral)) = territory(g.grid, Neutral)
    BY <1>2, <1>3, UpendedCounts
  <2> QED
    BY <1>1, <2>1, UpendedColors DEF FillsTheBoard
<1>6. Arrives(turned, enemy, Upended(to)) <=> Arrives(g, mover, to)
  BY <1>1, <1>2, UpendedGoals DEF Arrives, enemy
<1>7. LargerTerritory(turned) = UpendedColor(LargerTerritory(g)) /\ LargerTerritory(g) \in Colors
  <2>1. /\ territory(UpendedGrid(g.grid), UpendedColor(Red)) = territory(g.grid, Red)
        /\ territory(UpendedGrid(g.grid), UpendedColor(Blue)) = territory(g.grid, Blue)
    BY <1>2, UpendedCounts
  <2>2. territory(turned.grid, Blue) = territory(g.grid, Red)
        /\ territory(turned.grid, Red) = territory(g.grid, Blue)
    BY <1>1, <2>1, UpendedColors
  <2>3. territory(g.grid, Red) \in Nat /\ territory(g.grid, Blue) \in Nat
    BY <1>2, TerritoryIsANumber
  <2>4. CASE territory(g.grid, Red) = territory(g.grid, Blue)
    BY <2>2, <2>4, UpendedColors DEF LargerTerritory
  <2>5. CASE territory(g.grid, Red) > territory(g.grid, Blue)
    <3>1. /\ ~(territory(g.grid, Red) = territory(g.grid, Blue))
          /\ ~(territory(g.grid, Blue) > territory(g.grid, Red))
      BY <2>3, <2>5
    <3> QED
      BY <2>2, <2>5, <3>1, UpendedColors DEF LargerTerritory
  <2>6. CASE territory(g.grid, Blue) > territory(g.grid, Red)
    <3>1. /\ ~(territory(g.grid, Red) = territory(g.grid, Blue))
          /\ ~(territory(g.grid, Red) > territory(g.grid, Blue))
      BY <2>3, <2>6
    <3> QED
      BY <2>2, <2>6, <3>1, UpendedColors DEF LargerTerritory
  <2> QED
    BY <2>3, <2>4, <2>5, <2>6
<1> USE DEF Turned
<1>8. CASE Annihilates(g, mover)
  <2>1. ModeEnding(g, mover, to) = Decided(g, mover, mover, "annihilation")
    BY <1>8, ModeEndings
  <2>2. ModeEnding(turned, enemy, Upended(to)) = Decided(turned, enemy, enemy, "annihilation")
    BY <1>3, <1>4, <1>8, ModeEndings
  <2>3. UpendedGame(Decided(g, mover, mover, "annihilation"))
          = Decided(turned, enemy, enemy, "annihilation")
    BY <1>3, ReasonsAreNamed, UpendedDecision DEF turned, enemy
  <2> QED
    BY <2>1, <2>2, <2>3 DEF turned, enemy
<1>9. CASE Arrives(g, mover, to)
  <2>1. ModeEnding(g, mover, to) = Decided(g, mover, mover, goalEndReason(g.mode))
    BY <1>9, ModeEndings
  <2>2. ModeEnding(turned, enemy, Upended(to))
          = Decided(turned, enemy, enemy, goalEndReason(turned.mode))
    BY <1>3, <1>6, <1>9, ModeEndings
  <2>3. goalEndReason(g.mode) \in EndReasons
    BY <1>9, GoalsAreOfTwoModes, GoalReasons, ReasonsAreNamed DEF Arrives
  <2>4. UpendedGame(Decided(g, mover, mover, goalEndReason(g.mode)))
          = Decided(turned, enemy, enemy, goalEndReason(g.mode))
    BY <1>3, <2>3, UpendedDecision DEF turned, enemy
  <2> QED
    BY <1>1, <2>1, <2>2, <2>4 DEF turned, enemy
<1>10. CASE ~Annihilates(g, mover) /\ FillsTheBoard(g)
  <2>1. ModeEnding(g, mover, to) = Decided(g, mover, LargerTerritory(g), "territory")
    BY <1>10, ModeEndings
  <2>2. ModeEnding(turned, enemy, Upended(to))
          = Decided(turned, enemy, LargerTerritory(turned), "territory")
    BY <1>3, <1>4, <1>5, <1>10, ModeEndings
  <2>3. UpendedGame(Decided(g, mover, LargerTerritory(g), "territory"))
          = Decided(turned, enemy, UpendedColor(LargerTerritory(g)), "territory")
    BY <1>3, <1>7, ReasonsAreNamed, UpendedDecision DEF turned, enemy
  <2> QED
    BY <1>7, <2>1, <2>2, <2>3 DEF turned, enemy
<1>11. CASE ~Annihilates(g, mover) /\ ~Arrives(g, mover, to) /\ ~FillsTheBoard(g)
  <2>1. ModeEnding(g, mover, to) = g
    BY <1>11, ModeEndings
  <2>2. ModeEnding(turned, enemy, Upended(to)) = turned
    BY <1>3, <1>4, <1>5, <1>6, <1>11, ModeEndings
  <2> QED
    BY <2>1, <2>2 DEF turned, enemy
<1> QED
  BY <1>8, <1>9, <1>10, <1>11

LEMMA UpendedStuckEnding ==
  ASSUME NEW g \in AnalysisGames, NEW mover \in Players
  PROVE  UpendedGame(StuckEnding(g, mover))
           = StuckEnding(UpendedGame(g), opposingColor(mover))
<1> DEFINE turned == UpendedGame(g)
           winner == IF stalemateLoses(g.mode) THEN mover ELSE Neutral
           here == StuckEnding(g, mover)
           there == StuckEnding(turned, opposingColor(mover))
           back == UpendedGame(here)
<1>1. /\ turned \in AnalysisGames /\ turned.grid = UpendedGrid(g.grid)
      /\ turned.currentTurn = opposingColor(g.currentTurn)
      /\ turned.mode = g.mode /\ turned.era = OtherEra(g.era)
      /\ turned.moveNumber = g.moveNumber /\ turned.quietPlies = g.quietPlies
  BY UpendedGames
<1>2. turned.status = g.status
  BY UpendedGames
<1>3. allValidMoves(turned) = {} <=> allValidMoves(g) = {}
  BY UpendedStuck
<1>4. opposingColor(mover) \in Players /\ opposingColor(mover) = UpendedColor(mover)
      /\ UpendedColor(Neutral) = Neutral
  BY OppositeSides, UpendedColors
<1> HIDE DEF turned
<1>5. CASE g.status = InProgress /\ allValidMoves(g) = {}
  <2>1. /\ here \in AnalysisGames /\ SameBoard(here, g)
        /\ here.currentTurn = g.currentTurn /\ here.status = Finished
        /\ here.endReason = "stalemate" /\ here.winner = winner
    BY <1>5, ReasonsAreNamed DEF StuckEnding, AnalysisGames, SameBoard
  <2>2. /\ there \in AnalysisGames /\ SameBoard(there, turned)
        /\ there.currentTurn = turned.currentTurn /\ there.status = Finished
        /\ there.endReason = "stalemate"
        /\ there.winner = IF stalemateLoses(turned.mode) THEN opposingColor(mover) ELSE Neutral
    BY <1>1, <1>2, <1>3, <1>4, <1>5, ReasonsAreNamed DEF StuckEnding, AnalysisGames, SameBoard
  <2>3. there.winner = UpendedColor(here.winner)
    BY <1>1, <1>4, <2>1, <2>2
  <2> HIDE DEF here, there
  <2>4. /\ back \in AnalysisGames /\ back.grid = UpendedGrid(here.grid)
        /\ back.currentTurn = opposingColor(here.currentTurn)
        /\ back.winner = UpendedColor(here.winner) /\ back.era = OtherEra(here.era)
    BY <2>1, UpendedGames
  <2>5. /\ back.mode = here.mode /\ back.status = here.status
        /\ back.endReason = here.endReason /\ back.moveNumber = here.moveNumber
        /\ back.quietPlies = here.quietPlies
    BY <2>1, UpendedGames
  <2> HIDE DEF back
  <2>6. SameBoard(back, there)
    BY <1>1, <2>1, <2>2, <2>4, <2>5 DEF SameBoard
  <2>7. back = there
    BY <1>1, <2>1, <2>2, <2>3, <2>4, <2>5, <2>6, SameFieldsSameGame
  <2> QED
    BY <2>7 DEF back, here, there, turned
<1>6. CASE ~(g.status = InProgress /\ allValidMoves(g) = {})
  <2>1. here = g
    BY <1>6 DEF StuckEnding
  <2>2. there = turned
    BY <1>2, <1>3, <1>6 DEF StuckEnding
  <2> QED
    BY <2>1, <2>2 DEF turned
<1> QED
  BY <1>5, <1>6

LEMMA UpendedQuietEnding ==
  ASSUME NEW g \in AnalysisGames
  PROVE  UpendedGame(QuietEnding(g)) = QuietEnding(UpendedGame(g))
<1> DEFINE turned == UpendedGame(g)
           here == QuietEnding(g)
           there == QuietEnding(turned)
           back == UpendedGame(here)
<1>1. /\ turned \in AnalysisGames /\ turned.grid = UpendedGrid(g.grid)
      /\ turned.currentTurn = opposingColor(g.currentTurn)
      /\ turned.mode = g.mode /\ turned.era = OtherEra(g.era)
      /\ turned.moveNumber = g.moveNumber /\ turned.quietPlies = g.quietPlies
  BY UpendedGames
<1>2. turned.status = g.status
  BY UpendedGames
<1>4. UpendedColor(Neutral) = Neutral
  BY UpendedColors
<1> HIDE DEF turned
<1>5. CASE g.status = InProgress /\ g.quietPlies >= QuietPlyLimit
  <2>1. /\ here \in AnalysisGames /\ SameBoard(here, g)
        /\ here.currentTurn = g.currentTurn /\ here.status = Finished
        /\ here.endReason = "no_capture" /\ here.winner = Neutral
    BY <1>5, ReasonsAreNamed DEF QuietEnding, AnalysisGames, SameBoard
  <2>2. /\ there \in AnalysisGames /\ SameBoard(there, turned)
        /\ there.currentTurn = turned.currentTurn /\ there.status = Finished
        /\ there.endReason = "no_capture" /\ there.winner = Neutral
    BY <1>1, <1>2, <1>5, ReasonsAreNamed DEF QuietEnding, AnalysisGames, SameBoard
  <2> HIDE DEF here, there
  <2>4. /\ back \in AnalysisGames /\ back.grid = UpendedGrid(here.grid)
        /\ back.currentTurn = opposingColor(here.currentTurn)
        /\ back.winner = UpendedColor(here.winner) /\ back.era = OtherEra(here.era)
    BY <2>1, UpendedGames
  <2>5. /\ back.mode = here.mode /\ back.status = here.status
        /\ back.endReason = here.endReason /\ back.moveNumber = here.moveNumber
        /\ back.quietPlies = here.quietPlies
    BY <2>1, UpendedGames
  <2> HIDE DEF back
  <2>6. SameBoard(back, there)
    BY <1>1, <2>1, <2>2, <2>4, <2>5 DEF SameBoard
  <2>7. back = there
    BY <1>1, <1>4, <2>1, <2>2, <2>4, <2>5, <2>6, SameFieldsSameGame
  <2> QED
    BY <2>7 DEF back, here, there, turned
<1>6. CASE ~(g.status = InProgress /\ g.quietPlies >= QuietPlyLimit)
  <2>1. here = g
    BY <1>6 DEF QuietEnding
  <2>2. there = turned
    BY <1>1, <1>2, <1>6 DEF QuietEnding
  <2> QED
    BY <2>1, <2>2 DEF turned
<1> QED
  BY <1>5, <1>6

LEMMA UpendedApplied ==
  ASSUME NEW g, GameShown(g), NEW from \in Squares, NEW to, to \in validMovesFor(g, from)
  PROVE  UpendedGame(applyAnalysisMove(g, from, to))
           = applyAnalysisMove(UpendedGame(g), Upended(from), Upended(to))
<1> DEFINE turned == UpendedGame(g)
           mover == g.currentTurn
           enemy == turned.currentTurn
           moved == Moved(g, from, to)
           decided == ModeEnding(moved, mover, to)
           stuck == StuckEnding(decided, mover)
<1>1. g \in AnalysisGames /\ mover \in Players /\ to \in Squares
  BY ValidMovesAre, GamesAreRecords DEF GameShown
<1>2. enemy = opposingColor(mover)
  BY <1>1, UpendedGames
<1>3. moved \in AnalysisGames
  BY MovedIsAGame
<1>4. UpendedGame(moved) = Moved(turned, Upended(from), Upended(to))
  BY UpendedMoved
<1>5. applyAnalysisMove(g, from, to) = QuietEnding(stuck)
  BY MovesAreMoved
<1>6. applyAnalysisMove(turned, Upended(from), Upended(to))
        = QuietEnding(StuckEnding(ModeEnding(Moved(turned, Upended(from), Upended(to)),
                                             enemy, Upended(to)), enemy))
  BY MovesAreMoved
<1> HIDE DEF turned, mover, enemy, moved
<1>7. decided \in AnalysisGames
  BY <1>1, <1>3, ModeEndingIsAGame
<1>8. UpendedGame(decided) = ModeEnding(UpendedGame(moved), enemy, Upended(to))
  BY <1>1, <1>2, <1>3, UpendedModeEnding
<1> HIDE DEF decided
<1>9. stuck \in AnalysisGames
  BY <1>1, <1>7, StuckEndingIsAGame
<1>10. UpendedGame(stuck) = StuckEnding(UpendedGame(decided), enemy)
  BY <1>1, <1>2, <1>7, UpendedStuckEnding
<1> HIDE DEF stuck
<1>11. UpendedGame(QuietEnding(stuck)) = QuietEnding(UpendedGame(stuck))
  BY <1>9, UpendedQuietEnding
<1> QED
  BY <1>4, <1>5, <1>6, <1>8, <1>10, <1>11 DEF turned

\* An archived game from before the board flip is the game on today's board
\* turned over: on every board, from every opening and every position of the
\* editor, the same moves and after each of them the same game.
THEOREM OlderGamesAreTurnedOver == RaceSpec => []OlderEraIsTheBoardTurnedOver
<1>1. BoardSound => OlderEraIsTheBoardTurnedOver
  <2> SUFFICES ASSUME BoardSound, NEW from \in Squares, NEW to \in Squares
               PROVE  /\ to \in validMovesFor(shown, from)
                           <=> Upended(to) \in validMovesFor(UpendedGame(shown), Upended(from))
                      /\ to \in validMovesFor(shown, from) =>
                           UpendedGame(applyAnalysisMove(shown, from, to))
                             = applyAnalysisMove(UpendedGame(shown), Upended(from), Upended(to))
    BY DEF OlderEraIsTheBoardTurnedOver
  <2>1. GameShown(shown) /\ shown \in AnalysisGames
    BY DEF BoardSound, GameShown
  <2> QED
    BY <2>1, UpendedMoves, UpendedApplied
<1> QED
  BY <1>1, BoardStaysSound, PTL

-----------------------------------------------------------------------------
(* Walks, layer by layer: induction over the natural numbers as a fact     *)
(* about sets of them, and the functions recursion over them defines.      *)

LEMMA SetHasLeast ==
  ASSUME NEW T, T \subseteq Nat, T # {}
  PROVE  \E m \in T : \A k \in T : m <= k
<1>1. IsWellFoundedOn(OpToRel(<, Nat), Nat)
  BY NatLessThanWellFounded
<1>2. PICK m \in T : \A k \in T : ~ (<<k, m>> \in OpToRel(<, Nat))
  BY <1>1, WFMin
<1>3. ASSUME NEW k \in T
      PROVE  m <= k
  <2>1. ~(<<k, m>> \in OpToRel(<, Nat))
    BY <1>2
  <2>2. ~(k < m)
    BY <2>1 DEF OpToRel
  <2> QED
    BY <2>2
<1> QED
  BY <1>3

LEMMA SetInduction ==
  ASSUME NEW T, 0 \in T, \A n \in Nat : n \in T => n + 1 \in T
  PROVE  Nat \subseteq T
<1> DEFINE M == Nat \ T
<1> SUFFICES ASSUME M # {}
             PROVE  FALSE
  OBVIOUS
<1>1. PICK m \in M : \A k \in M : m <= k
  BY SetHasLeast
<1>2. m \in Nat /\ m # 0 /\ m \notin T
  BY <1>1
<1>3. m - 1 \in Nat /\ m - 1 \notin M
  BY <1>1, <1>2
<1>4. m - 1 \in T
  BY <1>3
<1>5. (m - 1) + 1 \in T
  BY <1>3, <1>4
<1> QED
  BY <1>2, <1>5

LEMMA LeastIsMinOf ==
  ASSUME NEW T, T \subseteq Nat, T # {}
  PROVE  MinOf(T) \in T /\ \A k \in T : MinOf(T) <= k
  BY SetHasLeast DEF MinOf

\* The sequence of values a step makes of a first one, up to n.
UpTo(V, a, step, n) ==
  {g \in [0..n -> V] : g[0] = a /\ \A k \in 1..n : g[k] = step[<<k, g[k - 1]>>]}

Follows(f, a, step) == f[0] = a /\ \A k \in Nat \ {0} : f[k] = step[<<k, f[k - 1]>>]

LEMMA RecursionExists ==
  ASSUME NEW V, NEW a \in V, NEW step \in [Nat \X V -> V]
  PROVE  \E f \in [Nat -> V] : Follows(f, a, step)
<1> DEFINE Some == {n \in Nat : UpTo(V, a, step, n) # {}}
           Same == {n \in Nat : \A m \in Nat : \A g \in UpTo(V, a, step, n), h \in UpTo(V, a, step, m) :
                                   n <= m => g[n] = h[n]}
<1>1. Nat \subseteq Some
  <2>1. 0 \in Some
    <3>1. [k \in 0..0 |-> a] \in UpTo(V, a, step, 0)
      BY DEF UpTo
    <3> QED
      BY <3>1
  <2>2. ASSUME NEW n \in Nat, n \in Some
        PROVE  n + 1 \in Some
    <3>1. PICK g \in [0..n -> V] : g[0] = a /\ \A k \in 1..n : g[k] = step[<<k, g[k - 1]>>]
      BY <2>2 DEF UpTo
    <3> DEFINE h == [k \in 0..n + 1 |-> IF k = n + 1 THEN step[<<n + 1, g[n]>>] ELSE g[k]]
    <3>2. g[n] \in V /\ step[<<n + 1, g[n]>>] \in V
      BY <3>1
    <3>3. h \in [0..n + 1 -> V]
      <4>1. ASSUME NEW k \in 0..n + 1
            PROVE  h[k] \in V
        BY <3>1, <3>2
      <4> QED
        BY <4>1
    <3>4. h[0] = a
      BY <3>1
    <3>5. ASSUME NEW k \in 1..n + 1
          PROVE  h[k] = step[<<k, h[k - 1]>>]
      <4>1. k - 1 \in 0..n + 1 /\ k - 1 # n + 1 /\ h[k - 1] = g[k - 1]
        OBVIOUS
      <4>2. CASE k = n + 1
        BY <4>1, <4>2
      <4>3. CASE k # n + 1
        <5>1. k \in 1..n /\ h[k] = g[k]
          BY <4>3
        <5> QED
          BY <3>1, <4>1, <5>1
      <4> QED
        BY <4>2, <4>3
    <3> HIDE DEF h
    <3>6. h \in UpTo(V, a, step, n + 1)
      BY <3>3, <3>4, <3>5 DEF UpTo
    <3> QED
      BY <3>6
  <2> HIDE DEF Some
  <2> QED
    BY <2>1, <2>2, SetInduction
<1>2. Nat \subseteq Same
  <2>1. 0 \in Same
    BY DEF UpTo
  <2>2. ASSUME NEW n \in Nat, n \in Same
        PROVE  n + 1 \in Same
    <3> SUFFICES ASSUME NEW m \in Nat, NEW g \in UpTo(V, a, step, n + 1), NEW h \in UpTo(V, a, step, m),
                        n + 1 <= m
                 PROVE  g[n + 1] = h[n + 1]
      OBVIOUS
    <3>1. PICK g1 : g1 = [k \in 0..n |-> g[k]]
      OBVIOUS
    <3>2. g1 \in UpTo(V, a, step, n)
      <4>1. g \in [0..n + 1 -> V] /\ g[0] = a /\ \A k \in 1..n + 1 : g[k] = step[<<k, g[k - 1]>>]
        BY DEF UpTo
      <4>2. g1 \in [0..n -> V]
        BY <3>1, <4>1
      <4>3. g1[0] = a
        BY <3>1, <4>1
      <4>4. ASSUME NEW k \in 1..n
            PROVE  g1[k] = step[<<k, g1[k - 1]>>]
        <5>1. k \in 1..n + 1 /\ g1[k] = g[k] /\ g1[k - 1] = g[k - 1]
          BY <3>1
        <5> QED
          BY <4>1, <5>1
      <4> QED
        BY <4>2, <4>3, <4>4 DEF UpTo
    <3>3. g1[n] = h[n] /\ g1[n] = g[n]
      BY <2>2, <3>1, <3>2
    <3>4. n + 1 \in 1..n + 1 /\ n + 1 \in 1..m /\ (n + 1) - 1 = n
      OBVIOUS
    <3>5. g[n + 1] = step[<<n + 1, g[n]>>]
      BY <3>4 DEF UpTo
    <3>6. h[n + 1] = step[<<n + 1, h[n]>>]
      BY <3>4 DEF UpTo
    <3> QED
      BY <3>3, <3>5, <3>6
  <2> HIDE DEF Same
  <2> QED
    BY <2>1, <2>2, SetInduction
<1> DEFINE to(n) == CHOOSE g : g \in UpTo(V, a, step, n)
           f == [n \in Nat |-> to(n)[n]]
<1>3. ASSUME NEW n \in Nat
      PROVE  to(n) \in UpTo(V, a, step, n)
  BY <1>1
<1> HIDE DEF to, Some
<1>4. ASSUME NEW n \in Nat
      PROVE  f[n] \in V
  <2>1. to(n) \in [0..n -> V] /\ n \in 0..n
    BY <1>3 DEF UpTo
  <2> QED
    BY <2>1
<1>5. f[0] = a
  BY <1>3 DEF UpTo
<1>6. ASSUME NEW k \in Nat \ {0}
      PROVE  f[k] = step[<<k, f[k - 1]>>]
  <2>1. k \in 1..k /\ k - 1 \in Nat /\ k - 1 <= k
    OBVIOUS
  <2>2. to(k) \in UpTo(V, a, step, k) /\ to(k - 1) \in UpTo(V, a, step, k - 1)
    BY <1>3, <2>1
  <2>3. to(k)[k] = step[<<k, to(k)[k - 1]>>]
    BY <2>1, <2>2 DEF UpTo
  <2>4. to(k - 1)[k - 1] = to(k)[k - 1]
    BY <1>2, <2>1, <2>2
  <2>5. f[k] = to(k)[k] /\ f[k - 1] = to(k - 1)[k - 1]
    BY <2>1
  <2> QED
    BY <2>3, <2>4, <2>5
<1> HIDE DEF f
<1>7. f \in [Nat -> V]
  BY <1>4 DEF f
<1>8. Follows(f, a, step)
  BY <1>5, <1>6 DEF Follows
<1> QED
  BY <1>7, <1>8

LEMMA TableIs == ASSUME NEW f PROVE Table(f) = f
  BY DEF Table

\* The layers of a walk over the board, each made of the one before.
LayerSet == [walks : SUBSET Seq(Squares), seen : SUBSET Squares]
FirstLayer(start) == [walks |-> {<<start>>}, seen |-> {start}]

LEMMA FirstLayerIsALayer ==
  ASSUME NEW start \in Squares
  PROVE  /\ FirstLayer(start) \in LayerSet
         /\ FirstLayer(start).walks = {<<start>>} /\ FirstLayer(start).seen = {start}
  BY DEF FirstLayer, LayerSet

LEMMA LayersAreRecords ==
  ASSUME NEW layer \in LayerSet
  PROVE  layer.walks \subseteq Seq(Squares) /\ layer.seen \subseteq Squares
  BY DEF LayerSet

\* What one layer further adds.
Fresh(layer) ==
  {q \in Squares \ layer.seen : \E w \in layer.walks : KingStep(Last(w), q)}
Entered(layer, step, allowedAt) == {q \in Fresh(layer) : step \in allowedAt[q]}

LEMMA ExtendedLayer ==
  ASSUME NEW layer \in LayerSet, NEW step, NEW allowedAt
  PROVE  /\ Extended(layer, step, allowedAt) \in LayerSet
         /\ Extended(layer, step, allowedAt).seen = layer.seen \cup Fresh(layer)
         /\ \A p : p \in Extended(layer, step, allowedAt).walks <=>
              \E w \in layer.walks, s \in Entered(layer, step, allowedAt) :
                KingStep(Last(w), s) /\ p = Append(w, s)
<1> DEFINE fresh == {s : s \in {q \in Squares \ layer.seen : \E w \in layer.walks : KingStep(Last(w), q)}}
           entered == {s : s \in {q \in fresh : step \in allowedAt[q]}}
           walks == UNION {{Append(w, s) : s \in {e \in entered : KingStep(Last(w), e)}} :
                             w \in layer.walks}
           seen == layer.seen \cup fresh
<1>1. Extended(layer, step, allowedAt) = [walks |-> walks, seen |-> seen]
  BY DEF Extended
<1>2. fresh = Fresh(layer)
  BY DEF Fresh
<1>3. entered = Entered(layer, step, allowedAt)
  BY <1>2 DEF Entered
<1> HIDE DEF fresh
<1>4. entered \subseteq Squares
  BY <1>2 DEF Fresh
<1> HIDE DEF entered
<1>5. \A p : p \in walks <=> \E w \in layer.walks, s \in entered :
                               KingStep(Last(w), s) /\ p = Append(w, s)
  OBVIOUS
<1>6. walks \subseteq Seq(Squares)
  <2> SUFFICES ASSUME NEW p \in walks
               PROVE  p \in Seq(Squares)
    OBVIOUS
  <2>1. PICK w \in layer.walks, s \in entered : p = Append(w, s)
    BY <1>5
  <2>2. w \in Seq(Squares) /\ s \in Squares
    BY <1>4, LayersAreRecords
  <2> QED
    BY <2>1, <2>2, AppendProperties
<1> HIDE DEF walks
<1>7. seen \subseteq Squares
  BY <1>2, LayersAreRecords DEF Fresh
<1> HIDE DEF seen
<1>8. [walks |-> walks, seen |-> seen] \in LayerSet
  BY <1>6, <1>7 DEF LayerSet
<1> QED
  BY <1>1, <1>2, <1>3, <1>5, <1>8 DEF seen

LEMMA LayersUnfold ==
  ASSUME NEW start \in Squares, NEW goalRow, NEW allowedAt
  PROVE  /\ Layers(start, goalRow, allowedAt) \in [Nat -> LayerSet]
         /\ Layers(start, goalRow, allowedAt)[0] = FirstLayer(start)
         /\ \A n \in Nat :
              Layers(start, goalRow, allowedAt)[n + 1] =
                IF Home(Layers(start, goalRow, allowedAt)[n], goalRow) # {}
                THEN Layers(start, goalRow, allowedAt)[n]
                ELSE Extended(Layers(start, goalRow, allowedAt)[n], n + 1, allowedAt)
<1> DEFINE Next(n, layer) ==
             IF Home(layer, goalRow) # {} THEN layer ELSE Extended(layer, n, allowedAt)
           step == [q \in Nat \X LayerSet |-> Next(q[1], q[2])]
           body(f) == [n \in Nat |-> IF n = 0 THEN FirstLayer(start) ELSE Next(n, f[n - 1])]
           after == Layers(start, goalRow, allowedAt)
<1>1. after = CHOOSE f : f = body(f)
  BY DEF Layers, FirstLayer
<1>2. ASSUME NEW n \in Nat, NEW layer \in LayerSet
      PROVE  Next(n, layer) \in LayerSet
  BY ExtendedLayer
<1>3. FirstLayer(start) \in LayerSet
  BY FirstLayerIsALayer
<1> HIDE DEF Next, after
<1>4. step \in [Nat \X LayerSet -> LayerSet]
  BY <1>2
<1>5. ASSUME NEW n \in Nat, NEW layer \in LayerSet
      PROVE  step[<<n, layer>>] = Next(n, layer)
  OBVIOUS
<1> HIDE DEF step
<1> HIDE DEF body
<1>6. PICK f \in [Nat -> LayerSet] : Follows(f, FirstLayer(start), step)
  BY <1>3, <1>4, RecursionExists
<1> USE DEF body
<1>7. f = body(f)
  <2>1. ASSUME NEW n \in Nat
        PROVE  f[n] = IF n = 0 THEN FirstLayer(start) ELSE Next(n, f[n - 1])
    <3>1. CASE n = 0
      BY <1>6, <3>1 DEF Follows
    <3>2. CASE n # 0
      <4>1. n \in Nat \ {0} /\ n - 1 \in Nat /\ f[n - 1] \in LayerSet
        BY <3>2
      <4> QED
        BY <1>5, <1>6, <3>2, <4>1 DEF Follows
    <3> QED
      BY <3>1, <3>2
  <2> QED
    BY <2>1
<1>8. after = body(after)
  <2> HIDE DEF body
  <2> QED
    BY <1>1, <1>7
<1>9. ASSUME NEW n \in Nat
      PROVE  after[n + 1] = Next(n + 1, after[n])
  <2>1. n + 1 \in Nat /\ n + 1 # 0 /\ (n + 1) - 1 = n
    OBVIOUS
  <2> QED
    BY <1>8, <2>1
<1>10. after[0] = FirstLayer(start)
  BY <1>8
<1> DEFINE Typed == {n \in Nat : after[n] \in LayerSet}
<1>11. Nat \subseteq Typed
  <2>1. 0 \in Typed
    BY <1>3, <1>10
  <2>2. ASSUME NEW n \in Nat, n \in Typed
        PROVE  n + 1 \in Typed
    <3>1. after[n + 1] = Next(n + 1, after[n]) /\ n + 1 \in Nat
      BY <1>9
    <3> QED
      BY <1>2, <2>2, <3>1
  <2> HIDE DEF Typed
  <2> QED
    BY <2>1, <2>2, SetInduction
<1>12. after \in [Nat -> LayerSet]
  <2>1. after = [n \in Nat |-> after[n]]
    BY <1>8
  <2> QED
    BY <1>11, <2>1
<1> QED
  BY <1>9, <1>10, <1>12 DEF Next, after

\* A walk of single steps from start, each square allowed when it is entered.
IsWalk(p, start, goalRow, allowedAt) ==
  /\ p \in Seq(Squares) /\ Len(p) \in Nat /\ Len(p) >= 1
  /\ p[1] = start
  /\ \A i \in 2..Len(p) : KingStep(p[i - 1], p[i]) /\ i - 1 \in allowedAt[p[i]]
  /\ \A i \in 1..Len(p) - 1 : p[i][2] # goalRow

LEMMA LongerWalk ==
  ASSUME NEW p, NEW start, NEW goalRow, NEW allowedAt, IsWalk(p, start, goalRow, allowedAt),
         NEW s \in Squares, KingStep(Last(p), s), Len(p) \in allowedAt[s],
         Last(p)[2] # goalRow
  PROVE  /\ IsWalk(Append(p, s), start, goalRow, allowedAt)
         /\ Len(Append(p, s)) = Len(p) + 1 /\ Last(Append(p, s)) = s
<1> DEFINE longer == Append(p, s)
<1>1. p \in Seq(Squares) /\ Len(p) \in Nat /\ Len(p) >= 1
  BY DEF IsWalk
<1>2. /\ longer \in Seq(Squares) /\ Len(longer) = Len(p) + 1
      /\ \A i \in 1..Len(p) : longer[i] = p[i]
      /\ longer[Len(p) + 1] = s
  BY <1>1, AppendProperties
<1> HIDE DEF longer
<1>3. longer[1] = start
  <2>1. 1 \in 1..Len(p)
    BY <1>1
  <2> QED
    BY <1>2, <2>1 DEF IsWalk
<1>4. ASSUME NEW i \in 2..Len(longer)
      PROVE  KingStep(longer[i - 1], longer[i]) /\ i - 1 \in allowedAt[longer[i]]
  <2>1. CASE i = Len(p) + 1
    <3>1. i - 1 = Len(p) /\ i - 1 \in 1..Len(p)
      BY <1>1, <2>1
    <3> QED
      BY <1>2, <2>1, <3>1 DEF Last
  <2>2. CASE i # Len(p) + 1
    <3>1. i \in 2..Len(p) /\ i \in 1..Len(p) /\ i - 1 \in 1..Len(p)
      BY <1>1, <1>2, <2>2
    <3> QED
      BY <1>2, <3>1 DEF IsWalk
  <2> QED
    BY <2>1, <2>2
<1>5. ASSUME NEW i \in 1..Len(longer) - 1
      PROVE  longer[i][2] # goalRow
  <2>1. i \in 1..Len(p) /\ longer[i] = p[i]
    BY <1>1, <1>2
  <2>2. CASE i = Len(p)
    BY <2>1, <2>2 DEF Last
  <2>3. CASE i # Len(p)
    <3>1. i \in 1..Len(p) - 1
      BY <1>1, <2>1, <2>3
    <3> QED
      BY <2>1, <3>1 DEF IsWalk
  <2> QED
    BY <2>2, <2>3
<1>6. Len(longer) \in Nat /\ Len(longer) >= 1
  BY <1>1, <1>2
<1>7. IsWalk(longer, start, goalRow, allowedAt)
  BY <1>2, <1>3, <1>4, <1>5, <1>6 DEF IsWalk
<1>8. longer[Len(longer)] = s
  BY <1>1, <1>2
<1> QED
  BY <1>2, <1>7, <1>8 DEF longer, Last

\* The layer the walks are on, and what they are.
OnLayer(layer, n, start, goalRow, allowedAt) ==
  /\ \A p \in layer.walks : IsWalk(p, start, goalRow, allowedAt) /\ Len(p) - 1 <= n
  /\ Home(layer, goalRow) = {} => \A p \in layer.walks : Len(p) - 1 = n

LEMMA LayersOfWalks ==
  ASSUME NEW start \in Squares, NEW goalRow, NEW allowedAt
  PROVE  \A n \in Nat : OnLayer(Layers(start, goalRow, allowedAt)[n], n, start, goalRow, allowedAt)
<1> DEFINE after == Layers(start, goalRow, allowedAt)
           Good == {n \in Nat : OnLayer(after[n], n, start, goalRow, allowedAt)}
<1>1. /\ after \in [Nat -> LayerSet] /\ after[0] = FirstLayer(start)
      /\ \A n \in Nat : after[n + 1] = IF Home(after[n], goalRow) # {} THEN after[n]
                                       ELSE Extended(after[n], n + 1, allowedAt)
  BY LayersUnfold
<1> HIDE DEF after
<1>2. 0 \in Good
  <2>1. after[0].walks = {<<start>>}
    BY <1>1, FirstLayerIsALayer
  <2>2. IsWalk(<<start>>, start, goalRow, allowedAt) /\ Len(<<start>>) - 1 = 0
    BY DEF IsWalk
  <2>3. ASSUME NEW p \in after[0].walks
        PROVE  IsWalk(p, start, goalRow, allowedAt) /\ Len(p) - 1 <= 0 /\ Len(p) - 1 = 0
    <3>1. p = <<start>>
      BY <2>1
    <3>2. Len(p) - 1 = 0
      BY <2>2, <3>1
    <3> QED
      BY <2>2, <3>1, <3>2
  <2>4. OnLayer(after[0], 0, start, goalRow, allowedAt)
    BY <2>3 DEF OnLayer
  <2> QED
    BY <2>4
<1>3. ASSUME NEW n \in Nat, n \in Good
      PROVE  n + 1 \in Good
  <2>1. OnLayer(after[n], n, start, goalRow, allowedAt)
    BY <1>3
  <2>2. CASE Home(after[n], goalRow) # {}
    <3>1. after[n + 1] = after[n]
      BY <1>1, <2>2
    <3>2. ASSUME NEW p \in after[n].walks
          PROVE  IsWalk(p, start, goalRow, allowedAt) /\ Len(p) - 1 <= n + 1
      BY <2>1 DEF OnLayer, IsWalk
    <3> QED
      BY <2>2, <3>1, <3>2 DEF OnLayer
  <2>3. CASE Home(after[n], goalRow) = {}
    <3>1. after[n + 1] = Extended(after[n], n + 1, allowedAt) /\ after[n] \in LayerSet
      BY <1>1, <2>3
    <3>2. ASSUME NEW p \in after[n + 1].walks
          PROVE  IsWalk(p, start, goalRow, allowedAt) /\ Len(p) - 1 = n + 1
      <4>1. PICK w \in after[n].walks, s \in Entered(after[n], n + 1, allowedAt) :
              KingStep(Last(w), s) /\ p = Append(w, s)
        BY <3>1, <3>2, ExtendedLayer
      <4>2. IsWalk(w, start, goalRow, allowedAt) /\ Len(w) - 1 = n
        BY <2>1, <2>3 DEF OnLayer
      <4>3. s \in Squares /\ n + 1 \in allowedAt[s]
        BY DEF Entered, Fresh
      <4>4. Len(w) = n + 1
        BY <4>2 DEF IsWalk
      <4>5. Last(w)[2] # goalRow
        BY <2>3 DEF Home
      <4>6. IsWalk(p, start, goalRow, allowedAt) /\ Len(p) = Len(w) + 1
        BY <4>1, <4>2, <4>3, <4>4, <4>5, LongerWalk
      <4> QED
        BY <4>4, <4>6
    <3>3. \A p \in after[n + 1].walks : Len(p) - 1 <= n + 1
      BY <3>2
    <3> QED
      BY <3>2, <3>3 DEF OnLayer
  <2> QED
    BY <2>2, <2>3
<1> HIDE DEF Good
<1>4. Nat \subseteq Good
  BY <1>2, <1>3, SetInduction
<1> QED
  BY <1>4 DEF Good, after

LEMMA RunsAreWalks ==
  ASSUME NEW start \in Squares, NEW goalRow, NEW allowedAt,
         NEW p \in boundedWalk(start, goalRow, allowedAt)
  PROVE  IsWalk(p, start, goalRow, allowedAt) /\ Last(p)[2] = goalRow
<1>1. Width * Height \in Nat
  BY BoardAssumption
<1>2. p \in Layers(start, goalRow, allowedAt)[Width * Height].walks /\ Last(p)[2] = goalRow
  BY DEF boundedWalk, Home
<1> QED
  BY <1>1, <1>2, LayersOfWalks DEF OnLayer

-----------------------------------------------------------------------------
(* The verdict.                                                            *)

\* The steps at which a walker may enter a square, move by move.
StepwiseAllowed(grid, w, goalRow, options, threat) ==
  [s \in Squares |->
     {k \in Steps : /\ s \in passableFor(grid, w, options.obstacles)
                    /\ \/ options.safety = "off"
                       \/ options.goalEndsGame /\ s[2] = goalRow
                       \/ safeAtStep(threat[s], k, options.walkerToMove)}]

LEMMA SafeRunsMoveByMove ==
  ASSUME NEW grid, NEW w, NEW goalRow, NEW options, NEW threat, options.safety # "wholeRun"
  PROVE  safeRun(grid, w, goalRow, options, threat)
           = boundedWalk(w.from, goalRow, StepwiseAllowed(grid, w, goalRow, options, threat))
  BY TableIs DEF safeRun, StepwiseAllowed

LEMMA SafeRunsAreWalks ==
  ASSUME NEW grid, NEW w, w.from \in Squares, NEW goalRow, NEW options, NEW threat,
         NEW p \in safeRun(grid, w, goalRow, options, threat)
  PROVE  \E allowedAt : IsWalk(p, w.from, goalRow, allowedAt) /\ Last(p)[2] = goalRow
<1>1. \E allowedAt : p \in boundedWalk(w.from, goalRow, allowedAt)
  <2>1. CASE options.safety # "wholeRun"
    BY <2>1, SafeRunsMoveByMove
  <2>2. CASE options.safety = "wholeRun"
    <3> DEFINE allowedAt(n) ==
                 [s \in Squares |-> IF /\ s \in passableFor(grid, w, options.obstacles)
                                       /\ \/ options.goalEndsGame /\ s[2] = goalRow
                                          \/ threat[s] >= n
                                    THEN Steps ELSE {}]
               within(n) == {q \in boundedWalk(w.from, goalRow, allowedAt(n)) : Moves(q) <= n}
               lengths == {n \in Steps : within(n) # {}}
    <3>1. safeRun(grid, w, goalRow, options, threat)
            = IF lengths = {} THEN {} ELSE within(MinOf(lengths))
      BY <2>2 DEF safeRun
    <3> HIDE DEF allowedAt, lengths
    <3>2. p \in within(MinOf(lengths))
      BY <3>1
    <3> QED
      BY <3>2
  <2> QED
    BY <2>1, <2>2
<1> QED
  BY <1>1, RunsAreWalks

LEMMA RunLengths ==
  ASSUME NEW runs, \A p \in runs : Len(p) \in Nat /\ Len(p) >= 1
  PROVE  RunLength(runs) \in Nat \cup {NoRun}
<1>1. CASE runs = {}
  BY <1>1 DEF RunLength
<1>2. CASE runs # {}
  <2>1. PICK p \in runs : p = CHOOSE q \in runs : TRUE
    BY <1>2
  <2>2. RunLength(runs) = Len(p) - 1
    BY <1>2, <2>1 DEF RunLength, Moves
  <2> QED
    BY <2>1, <2>2
<1> QED
  BY <1>1, <1>2

LEMMA SafeRunLength ==
  ASSUME NEW grid, NEW w, w.from \in Squares, NEW goalRow, NEW options, NEW threat
  PROVE  RunLength(safeRun(grid, w, goalRow, options, threat)) \in Nat \cup {NoRun}
<1>1. ASSUME NEW p \in safeRun(grid, w, goalRow, options, threat)
      PROVE  Len(p) \in Nat /\ Len(p) >= 1
  BY SafeRunsAreWalks DEF IsWalk
<1> QED
  BY <1>1, RunLengths

LEMMA WalkersStandOnSquares ==
  ASSUME NEW grid, NEW w \in walkersOn(grid)
  PROVE  /\ w.from \in Squares /\ w = Walker(grid, w.from) /\ grid[w.from].occupant # Empty
         /\ w.piece = grid[w.from].occupant /\ w.owner = grid[w.from].owner
<1>1. PICK s \in Squares : grid[s].occupant # Empty /\ w = Walker(grid, s)
  BY DEF walkersOn
<1>2. w.from = s /\ w.piece = grid[s].occupant /\ w.owner = grid[s].owner
  BY <1>1 DEF Walker
<1> QED
  BY <1>1, <1>2

LEMMA FastestIsALength ==
  ASSUME NEW readings, \A r \in readings : r.safeDistance \in Nat \cup {NoRun}, NEW c
  PROVE  fastest(readings, c) \in Nat \cup {NoRun}
<1> DEFINE runs == {r.safeDistance : r \in {q \in readings : q.walker.owner = c}} \ {NoRun}
<1>1. fastest(readings, c) = IF runs = {} THEN NoRun ELSE MinOf(runs)
  BY DEF fastest
<1>2. runs \subseteq Nat
  OBVIOUS
<1> HIDE DEF runs
<1> QED
  BY <1>1, <1>2, LeastIsMinOf

LEMMA ReadingsOfABoard ==
  ASSUME NEW grid, NEW options
  PROVE  /\ analyzeReach(grid, options).red \in Nat \cup {NoRun}
         /\ analyzeReach(grid, options).blue \in Nat \cup {NoRun}
         /\ analyzeReach(grid, options).verdict
              = judge(analyzeReach(grid, options).red, analyzeReach(grid, options).blue,
                      options.toMove)
<1> DEFINE readings == {readPiece(grid, w, options) : w \in walkersOn(grid)}
<1>1. ASSUME NEW r \in readings
      PROVE  r.safeDistance \in Nat \cup {NoRun}
  <2>1. PICK w \in walkersOn(grid) : r = readPiece(grid, w, options)
    OBVIOUS
  <2>2. r.safeDistance = RunLength(safeRun(grid, w, goalRowFor(w.owner), RunOptions(w, options),
                                           threatMap(grid, w, options.obstacles)))
    BY <2>1 DEF readPiece
  <2> QED
    BY <2>2, WalkersStandOnSquares, SafeRunLength
<1>2. /\ analyzeReach(grid, options).red = fastest(readings, Red)
      /\ analyzeReach(grid, options).blue = fastest(readings, Blue)
      /\ analyzeReach(grid, options).verdict
           = judge(fastest(readings, Red), fastest(readings, Blue), options.toMove)
  BY DEF analyzeReach
<1> HIDE DEF readings
<1> QED
  BY <1>1, <1>2, FastestIsALength

\* The ply at which a run is over, and what is said of the two of them.
Ply(moves, c, toMove) == 2 * moves - (IF c = toMove THEN 1 ELSE 0)

HomeFirst(run, winner, margin, toMove) ==
  /\ winner = Neutral => run[Red] = NoRun /\ run[Blue] = NoRun
  /\ winner # Neutral => run[winner] # NoRun
  /\ winner # Neutral /\ run[opposingColor(winner)] # NoRun =>
       /\ Ply(run[winner] + margin, winner, toMove)
            < Ply(run[opposingColor(winner)] + 0, opposingColor(winner), toMove)
       /\ Ply(run[winner] + (margin + 1), winner, toMove)
            > Ply(run[opposingColor(winner)] + 0, opposingColor(winner), toMove)

LEMMA JudgedRuns ==
  ASSUME NEW red \in Nat \cup {NoRun}, NEW blue \in Nat \cup {NoRun}, NEW toMove \in Players,
         NEW run, run = [c \in Players |-> IF c = Red THEN red ELSE blue],
         NEW winner, winner = judge(red, blue, toMove).winner,
         NEW margin, margin = judge(red, blue, toMove).margin
  PROVE  HomeFirst(run, winner, margin, toMove)
<1>1. run[Red] = red /\ run[Blue] = blue
  OBVIOUS
<1>2. opposingColor(Red) = Blue /\ opposingColor(Blue) = Red
  BY OppositeSides
<1>3. NoRun = -1 /\ NoRun \notin Nat
  BY DEF NoRun
<1>4. CASE red = NoRun /\ blue = NoRun
  <2>1. winner = Neutral
    BY <1>4 DEF judge
  <2> QED
    BY <1>1, <1>4, <2>1 DEF HomeFirst
<1>5. CASE red = NoRun /\ blue # NoRun
  <2>1. winner = Blue
    BY <1>5 DEF judge
  <2> QED
    BY <1>1, <1>2, <1>5, <2>1 DEF HomeFirst
<1>6. CASE red # NoRun /\ blue = NoRun
  <2>1. winner = Red
    BY <1>6 DEF judge
  <2> QED
    BY <1>1, <1>2, <1>6, <2>1 DEF HomeFirst
<1>7. CASE red # NoRun /\ blue # NoRun
  <2>1. red \in Nat /\ blue \in Nat
    BY <1>7
  <2>2. CASE toMove = Red
    <3>1. CASE red <= blue
      <4>1. winner = Red /\ margin = blue - red
        BY <1>7, <2>2, <3>1 DEF judge
      <4>2. /\ 2 * (red + margin) - 1 < 2 * (blue + 0) - 0
            /\ 2 * (red + (margin + 1)) - 1 > 2 * (blue + 0) - 0
        BY <2>1, <3>1, <4>1
      <4>3. /\ Ply(red + margin, Red, toMove) = 2 * (red + margin) - 1
            /\ Ply(red + (margin + 1), Red, toMove) = 2 * (red + (margin + 1)) - 1
            /\ Ply(blue + 0, Blue, toMove) = 2 * (blue + 0) - 0
        BY <2>2 DEF Ply
      <4> QED
        BY <1>1, <1>2, <1>7, <4>1, <4>2, <4>3 DEF HomeFirst
    <3>2. CASE ~(red <= blue)
      <4>1. winner = Blue /\ margin = red - blue - 1
        BY <1>2, <1>7, <2>2, <3>2 DEF judge
      <4>2. /\ 2 * (blue + margin) - 0 < 2 * (red + 0) - 1
            /\ 2 * (blue + (margin + 1)) - 0 > 2 * (red + 0) - 1
        BY <2>1, <3>2, <4>1
      <4>3. /\ Ply(blue + margin, Blue, toMove) = 2 * (blue + margin) - 0
            /\ Ply(blue + (margin + 1), Blue, toMove) = 2 * (blue + (margin + 1)) - 0
            /\ Ply(red + 0, Red, toMove) = 2 * (red + 0) - 1
        BY <2>2 DEF Ply
      <4> QED
        BY <1>1, <1>2, <1>7, <4>1, <4>2, <4>3 DEF HomeFirst
    <3> QED
      BY <3>1, <3>2
  <2>3. CASE toMove = Blue
    <3>1. CASE blue <= red
      <4>1. winner = Blue /\ margin = red - blue
        BY <1>7, <2>3, <3>1 DEF judge
      <4>2. /\ 2 * (blue + margin) - 1 < 2 * (red + 0) - 0
            /\ 2 * (blue + (margin + 1)) - 1 > 2 * (red + 0) - 0
        BY <2>1, <3>1, <4>1
      <4>3. /\ Ply(blue + margin, Blue, toMove) = 2 * (blue + margin) - 1
            /\ Ply(blue + (margin + 1), Blue, toMove) = 2 * (blue + (margin + 1)) - 1
            /\ Ply(red + 0, Red, toMove) = 2 * (red + 0) - 0
        BY <2>3 DEF Ply
      <4> QED
        BY <1>1, <1>2, <1>7, <4>1, <4>2, <4>3 DEF HomeFirst
    <3>2. CASE ~(blue <= red)
      <4>1. winner = Red /\ margin = blue - red - 1
        BY <1>2, <1>7, <2>3, <3>2 DEF judge
      <4>2. /\ 2 * (red + margin) - 0 < 2 * (blue + 0) - 1
            /\ 2 * (red + (margin + 1)) - 0 > 2 * (blue + 0) - 1
        BY <2>1, <3>2, <4>1
      <4>3. /\ Ply(red + margin, Red, toMove) = 2 * (red + margin) - 0
            /\ Ply(red + (margin + 1), Red, toMove) = 2 * (red + (margin + 1)) - 0
            /\ Ply(blue + 0, Blue, toMove) = 2 * (blue + 0) - 1
        BY <2>3 DEF Ply
      <4> QED
        BY <1>1, <1>2, <1>7, <4>1, <4>2, <4>3 DEF HomeFirst
    <3> QED
      BY <3>1, <3>2
  <2> QED
    BY <2>2, <2>3
<1> QED
  BY <1>4, <1>5, <1>6, <1>7

\* The side the verdict names is home first, and by exactly its margin: that
\* many moves spent elsewhere it still wins by, one more it does not.
THEOREM VerdictNamesTheFirstHome == RaceSpec => []VerdictIsTheFirstHome
<1>1. BoardSound => VerdictIsTheFirstHome
  <2> SUFFICES ASSUME BoardSound, Racing
               PROVE  VerdictIsTheFirstHome
    BY DEF VerdictIsTheFirstHome
  <2>1. shown.currentTurn \in Players
    BY GamesAreRecords DEF BoardSound, GameShown
  <2> DEFINE options == [obstacles |-> "static", safety |-> "perStep", goalEndsGame |-> TRUE,
                         toMove |-> shown.currentTurn]
             reading == analyzeReach(shown.grid, options)
             run == [c \in Players |-> IF c = Red THEN reading.red ELSE reading.blue]
             winner == reading.verdict.winner
             margin == reading.verdict.margin
  <2>2. options.toMove = shown.currentTurn
    OBVIOUS
  <2>3. /\ reading.red \in Nat \cup {NoRun} /\ reading.blue \in Nat \cup {NoRun}
        /\ reading.verdict = judge(reading.red, reading.blue, shown.currentTurn)
    BY <2>2, ReadingsOfABoard
  <2>4. VerdictIsTheFirstHome <=>
          LET ply(c, spent) == 2 * (run[c] + spent) - (IF c = shown.currentTurn THEN 1 ELSE 0)
              loser == opposingColor(winner)
          IN  /\ winner = Neutral => \A c \in Players : run[c] = NoRun
              /\ winner # Neutral => run[winner] # NoRun
              /\ winner # Neutral /\ run[loser] # NoRun =>
                   /\ ply(winner, margin) < ply(loser, 0)
                   /\ ply(winner, margin + 1) > ply(loser, 0)
    BY DEF VerdictIsTheFirstHome
  <2> HIDE DEF reading, options
  <2>5. HomeFirst(run, winner, margin, shown.currentTurn)
    BY <2>1, <2>3, JudgedRuns
  <2> HIDE DEF run, winner, margin
  <2> QED
    BY <2>4, <2>5 DEF HomeFirst, Ply
<1> QED
  BY <1>1, BoardStaysSound, PTL

-----------------------------------------------------------------------------
(* How soon a piece could be on a square.                                  *)

SpreadSet == [distance : [Squares -> Nat], frontier : SUBSET Squares]

FirstSpread(from) ==
  [distance |-> [s \in Squares |-> IF s = from THEN 0 ELSE UNREACHABLE], frontier |-> {from}]

Frontier(walk, passable) ==
  {q \in passable : walk.distance[q] = UNREACHABLE /\ \E f \in walk.frontier : KingStep(f, q)}

FurtherSpread(n, walk, passable) ==
  [distance |-> [s \in Squares |->
                   IF s \in Frontier(walk, passable) THEN n ELSE walk.distance[s]],
   frontier |-> Frontier(walk, passable)]

LEMMA UnreachableIsANumber == UNREACHABLE \in Nat /\ UNREACHABLE > 1
  BY BoardAssumption DEF UNREACHABLE

LEMMA SpreadsAreRecords ==
  ASSUME NEW walk \in SpreadSet
  PROVE  walk.distance \in [Squares -> Nat] /\ walk.frontier \subseteq Squares
  BY DEF SpreadSet

LEMMA FirstSpreadIs ==
  ASSUME NEW from \in Squares
  PROVE  FirstSpread(from) \in SpreadSet
  BY UnreachableIsANumber DEF FirstSpread, SpreadSet

LEMMA FurtherSpreadIs ==
  ASSUME NEW walk \in SpreadSet, NEW n \in Nat, NEW passable, passable \subseteq Squares
  PROVE  FurtherSpread(n, walk, passable) \in SpreadSet
<1> DEFINE next == Frontier(walk, passable)
           distance == [s \in Squares |-> IF s \in next THEN n ELSE walk.distance[s]]
<1>1. next \subseteq Squares
  BY DEF Frontier
<1> HIDE DEF next
<1>2. distance \in [Squares -> Nat]
  BY SpreadsAreRecords
<1> HIDE DEF distance
<1>3. [distance |-> distance, frontier |-> next] \in SpreadSet
  BY <1>1, <1>2 DEF SpreadSet
<1> QED
  BY <1>3 DEF FurtherSpread, distance, next

LEMMA SpreadUnfolds ==
  ASSUME NEW from \in Squares, NEW passable, passable \subseteq Squares
  PROVE  /\ Spread(from, passable) \in [Nat -> SpreadSet]
         /\ Spread(from, passable)[0] = FirstSpread(from)
         /\ \A n \in Nat :
              Spread(from, passable)[n + 1] =
                IF Spread(from, passable)[n].frontier = {}
                THEN Spread(from, passable)[n]
                ELSE FurtherSpread(n + 1, Spread(from, passable)[n], passable)
<1> DEFINE Next(n, walk) ==
             IF walk.frontier = {} THEN walk ELSE FurtherSpread(n, walk, passable)
           step == [q \in Nat \X SpreadSet |-> Next(q[1], q[2])]
           body(f) == [n \in Nat |-> IF n = 0 THEN FirstSpread(from) ELSE Next(n, f[n - 1])]
           tabled(f) ==
             [n \in Nat |->
                IF n = 0
                THEN [distance |-> Table([s \in Squares |-> IF s = from THEN 0 ELSE UNREACHABLE]),
                      frontier |-> {from}]
                ELSE LET walk == f[n - 1]
                         next == {s : s \in {q \in passable :
                                               /\ walk.distance[q] = UNREACHABLE
                                               /\ \E e \in walk.frontier : KingStep(e, q)}}
                     IN  IF walk.frontier = {} THEN walk
                         ELSE [distance |-> Table([s \in Squares |->
                                                     IF s \in next THEN n ELSE walk.distance[s]]),
                               frontier |-> next]]
           spread == Spread(from, passable)
<1>0. spread = CHOOSE f : f = tabled(f)
  BY DEF Spread
<1>1. ASSUME NEW f
      PROVE  tabled(f) = body(f)
  <2>1. [distance |-> Table([s \in Squares |-> IF s = from THEN 0 ELSE UNREACHABLE]),
         frontier |-> {from}] = FirstSpread(from)
    BY TableIs DEF FirstSpread
  <2>2. ASSUME NEW n \in Nat, NEW walk
        PROVE  LET next == {s : s \in {q \in passable :
                                         /\ walk.distance[q] = UNREACHABLE
                                         /\ \E e \in walk.frontier : KingStep(e, q)}}
               IN  (IF walk.frontier = {} THEN walk
                    ELSE [distance |-> Table([s \in Squares |->
                                                IF s \in next THEN n ELSE walk.distance[s]]),
                          frontier |-> next]) = Next(n, walk)
    <3>1. {s : s \in {q \in passable : /\ walk.distance[q] = UNREACHABLE
                                       /\ \E e \in walk.frontier : KingStep(e, q)}}
            = Frontier(walk, passable)
      BY DEF Frontier
    <3>2. Table([s \in Squares |-> IF s \in Frontier(walk, passable) THEN n ELSE walk.distance[s]])
            = [s \in Squares |-> IF s \in Frontier(walk, passable) THEN n ELSE walk.distance[s]]
      BY TableIs
    <3> QED
      BY <3>1, <3>2 DEF FurtherSpread
  <2> HIDE DEF Next
  <2> QED
    BY <2>1, <2>2
<1>2. ASSUME NEW n \in Nat, NEW walk \in SpreadSet
      PROVE  Next(n, walk) \in SpreadSet
  BY FurtherSpreadIs
<1>3. FirstSpread(from) \in SpreadSet
  BY FirstSpreadIs
<1> HIDE DEF Next, spread, tabled
<1>4. step \in [Nat \X SpreadSet -> SpreadSet]
  BY <1>2
<1>5. ASSUME NEW n \in Nat, NEW walk \in SpreadSet
      PROVE  step[<<n, walk>>] = Next(n, walk)
  OBVIOUS
<1> HIDE DEF step
<1> HIDE DEF body
<1>6. PICK f \in [Nat -> SpreadSet] : Follows(f, FirstSpread(from), step)
  BY <1>3, <1>4, RecursionExists
<1> USE DEF body
<1>7. f = body(f)
  <2>1. ASSUME NEW n \in Nat
        PROVE  f[n] = IF n = 0 THEN FirstSpread(from) ELSE Next(n, f[n - 1])
    <3>1. CASE n = 0
      BY <1>6, <3>1 DEF Follows
    <3>2. CASE n # 0
      <4>1. n \in Nat \ {0} /\ n - 1 \in Nat /\ f[n - 1] \in SpreadSet
        BY <3>2
      <4> QED
        BY <1>5, <1>6, <3>2, <4>1 DEF Follows
    <3> QED
      BY <3>1, <3>2
  <2> QED
    BY <2>1
<1>8. spread = body(spread)
  <2> HIDE DEF body
  <2>1. f = tabled(f)
    BY <1>1, <1>7
  <2>2. spread = tabled(spread)
    BY <1>0, <2>1
  <2> QED
    BY <1>1, <2>2
<1>9. ASSUME NEW n \in Nat
      PROVE  spread[n + 1] = Next(n + 1, spread[n])
  <2>1. n + 1 \in Nat /\ n + 1 # 0 /\ (n + 1) - 1 = n
    OBVIOUS
  <2> QED
    BY <1>8, <2>1
<1>10. spread[0] = FirstSpread(from)
  BY <1>8
<1> DEFINE Typed == {n \in Nat : spread[n] \in SpreadSet}
<1>11. Nat \subseteq Typed
  <2>1. 0 \in Typed
    BY <1>3, <1>10
  <2>2. ASSUME NEW n \in Nat, n \in Typed
        PROVE  n + 1 \in Typed
    <3>1. spread[n + 1] = Next(n + 1, spread[n]) /\ n + 1 \in Nat
      BY <1>9
    <3> QED
      BY <1>2, <2>2, <3>1
  <2> HIDE DEF Typed
  <2> QED
    BY <2>1, <2>2, SetInduction
<1>12. spread \in [Nat -> SpreadSet]
  <2>1. spread = [n \in Nat |-> spread[n]]
    BY <1>8
  <2> QED
    BY <1>11, <2>1
<1> QED
  BY <1>9, <1>10, <1>12 DEF Next, spread

\* A map after n layers: every number on it is of a layer walked, the last of
\* them is the frontier, and from any square of an earlier layer the next step
\* has been counted.
OnSpread(walk, n, from, passable) ==
  /\ \A s \in Squares : walk.distance[s] <= n \/ walk.distance[s] = UNREACHABLE
  /\ walk.distance[from] = 0
  /\ walk.frontier # {} => \A s \in Squares : walk.distance[s] = n => s \in walk.frontier
  /\ \A s \in Squares, t \in passable :
       KingStep(s, t) => \/ walk.distance[t] <= walk.distance[s] + 1
                         \/ walk.frontier # {} /\ walk.distance[s] = n

LEMMA SpreadsOut ==
  ASSUME NEW from \in Squares, NEW passable, passable \subseteq Squares
  PROVE  \A n \in 0..UNREACHABLE - 1 : OnSpread(Spread(from, passable)[n], n, from, passable)
<1> DEFINE spread == Spread(from, passable)
           Good == {n \in Nat : n < UNREACHABLE => OnSpread(spread[n], n, from, passable)}
<1>1. /\ spread \in [Nat -> SpreadSet] /\ spread[0] = FirstSpread(from)
      /\ \A n \in Nat : spread[n + 1] = IF spread[n].frontier = {} THEN spread[n]
                                        ELSE FurtherSpread(n + 1, spread[n], passable)
  BY SpreadUnfolds
<1> HIDE DEF spread
<1>0. UNREACHABLE \in Nat /\ UNREACHABLE > 1
  BY UnreachableIsANumber
<1>2. 0 \in Good
  <2>1. /\ spread[0].distance = [s \in Squares |-> IF s = from THEN 0 ELSE UNREACHABLE]
        /\ spread[0].frontier = {from}
    BY <1>1 DEF FirstSpread
  <2>2. ASSUME NEW s \in Squares
        PROVE  spread[0].distance[s] = IF s = from THEN 0 ELSE UNREACHABLE
    BY <2>1
  <2>3. OnSpread(spread[0], 0, from, passable)
    <3>1. ASSUME NEW s \in Squares, NEW t \in passable
          PROVE  \/ spread[0].distance[t] <= spread[0].distance[s] + 1
                 \/ spread[0].distance[s] = 0
      <4>1. t \in Squares
        OBVIOUS
      <4> QED
        BY <1>0, <2>2, <4>1
    <3> QED
      BY <1>0, <2>1, <2>2, <3>1 DEF OnSpread
  <2> QED
    BY <2>3
<1>3. ASSUME NEW n \in Nat, n \in Good
      PROVE  n + 1 \in Good
  <2> SUFFICES ASSUME n + 1 < UNREACHABLE
               PROVE  OnSpread(spread[n + 1], n + 1, from, passable)
    OBVIOUS
  <2> DEFINE walk == spread[n]
             next == Frontier(walk, passable)
             further == spread[n + 1]
  <2>1. OnSpread(walk, n, from, passable) /\ walk \in SpreadSet
    BY <1>0, <1>1, <1>3
  <2>2. walk.distance \in [Squares -> Nat] /\ walk.frontier \subseteq Squares
    BY <2>1, SpreadsAreRecords
  <2>3. CASE walk.frontier = {}
    <3>1. further = walk
      BY <1>1, <2>3
    <3>2. ASSUME NEW s \in Squares
          PROVE  walk.distance[s] <= n + 1 \/ walk.distance[s] = UNREACHABLE
      <4>1. walk.distance[s] \in Nat
        BY <2>2
      <4> QED
        BY <2>1, <4>1 DEF OnSpread
    <3> QED
      BY <2>1, <2>3, <3>1, <3>2 DEF OnSpread
  <2>4. CASE walk.frontier # {}
    <3>1. further = FurtherSpread(n + 1, walk, passable)
      BY <1>1, <2>4
    <3>2. next \subseteq Squares /\ \A q \in next : walk.distance[q] = UNREACHABLE
      BY DEF Frontier
    <3>3. /\ further.frontier = next
          /\ \A s \in Squares : further.distance[s] = IF s \in next THEN n + 1 ELSE walk.distance[s]
      BY <3>1 DEF FurtherSpread
    <3>4. ASSUME NEW s \in Squares
          PROVE  /\ walk.distance[s] \in Nat
                 /\ walk.distance[s] <= n \/ walk.distance[s] = UNREACHABLE
      BY <2>1, <2>2 DEF OnSpread
    <3> HIDE DEF walk, next, further
    <3>5. ASSUME NEW s \in Squares
          PROVE  /\ further.distance[s] <= n + 1 \/ further.distance[s] = UNREACHABLE
                 /\ further.distance[s] \in Nat
                 /\ further.distance[s] = n + 1 => s \in next
      BY <3>3, <3>4
    <3>6. further.distance[from] = 0
      <4>1. walk.distance[from] = 0
        BY <2>1 DEF OnSpread
      <4> QED
        BY <1>0, <3>2, <3>3, <4>1
    <3>7. ASSUME NEW s \in Squares, NEW t \in passable, KingStep(s, t)
          PROVE  \/ further.distance[t] <= further.distance[s] + 1
                 \/ further.frontier # {} /\ further.distance[s] = n + 1
      <4>0. t \in Squares
        OBVIOUS
      <4>1. CASE s \in next
        <5>1. further.distance[s] = n + 1 /\ further.frontier # {}
          BY <3>3, <4>1
        <5> QED
          BY <5>1
      <4>2. CASE s \notin next /\ walk.distance[s] = n
        <5>1. s \in walk.frontier
          BY <2>1, <2>4, <4>2 DEF OnSpread
        <5>2. t \in next \/ walk.distance[t] # UNREACHABLE
          BY <3>7, <5>1 DEF next, Frontier
        <5>3. further.distance[s] = n
          BY <3>3, <4>2
        <5>4. further.distance[t] <= n + 1
          BY <3>3, <3>4, <4>0, <5>2
        <5> QED
          BY <5>3, <5>4
      <4>3. CASE s \notin next /\ walk.distance[s] # n
        <5>1. walk.distance[t] <= walk.distance[s] + 1
          BY <2>1, <3>7, <4>3 DEF OnSpread
        <5>2. further.distance[s] = walk.distance[s]
          BY <3>3, <4>3
        <5>3. CASE t \notin next
          BY <3>3, <4>0, <5>1, <5>2, <5>3
        <5>4. CASE t \in next
          <6>1. walk.distance[t] = UNREACHABLE /\ further.distance[t] = n + 1
            BY <3>2, <3>3, <4>0, <5>4
          <6>2. UNREACHABLE <= further.distance[s] + 1
            BY <5>1, <5>2, <6>1
          <6> QED
            BY <1>0, <3>5, <6>1, <6>2
        <5> QED
          BY <5>3, <5>4
      <4> QED
        BY <4>1, <4>2, <4>3
    <3> USE DEF walk
    <3>8. OnSpread(further, n + 1, from, passable)
      BY <3>3, <3>5, <3>6, <3>7 DEF OnSpread
    <3> QED
      BY <3>8 DEF further
  <2> QED
    BY <2>3, <2>4
<1> HIDE DEF Good
<1>4. Nat \subseteq Good
  BY <1>2, <1>3, SetInduction
<1>5. ASSUME NEW n \in 0..UNREACHABLE - 1
      PROVE  OnSpread(spread[n], n, from, passable)
  <2>1. n \in Nat /\ n < UNREACHABLE
    BY <1>0
  <2> QED
    BY <1>4, <2>1 DEF Good
<1> QED
  BY <1>5 DEF spread

\* A piece is no further from a square than one step more than from a square
\* next to it.
LEMMA ReachMaps ==
  ASSUME NEW grid, NEW w, w.from \in Squares, NEW obstacles
  PROVE  /\ reachMap(grid, w, obstacles) \in [Squares -> Nat]
         /\ \A s \in Squares : reachMap(grid, w, obstacles)[s] <= UNREACHABLE
         /\ reachMap(grid, w, obstacles)[w.from] = 0
         /\ \A s \in Squares, t \in passableFor(grid, w, obstacles) :
              KingStep(s, t) =>
                reachMap(grid, w, obstacles)[t] <= reachMap(grid, w, obstacles)[s] + 1
<1> DEFINE passable == passableFor(grid, w, obstacles)
           n == UNREACHABLE - 1
           walk == Spread(w.from, passable)[n]
           map == reachMap(grid, w, obstacles)
<1>1. UNREACHABLE \in Nat /\ UNREACHABLE > 1 /\ n \in Nat /\ n \in 0..n
  BY UnreachableIsANumber
<1>2. passable \subseteq Squares
  BY DEF passableFor
<1>3. map = walk.distance
  BY DEF reachMap
<1> HIDE DEF passable
<1>4. OnSpread(walk, n, w.from, passable)
  BY <1>1, <1>2, SpreadsOut
<1>5. walk \in SpreadSet
  BY <1>1, <1>2, SpreadUnfolds
<1> HIDE DEF walk, map
<1>6. map \in [Squares -> Nat]
  BY <1>3, <1>5, SpreadsAreRecords
<1>7. ASSUME NEW s \in Squares
      PROVE  map[s] <= UNREACHABLE /\ map[s] \in Nat
  <2>1. map[s] <= n \/ map[s] = UNREACHABLE
    BY <1>3, <1>4 DEF OnSpread
  <2> QED
    BY <1>1, <1>6, <2>1
<1>8. map[w.from] = 0
  BY <1>3, <1>4 DEF OnSpread
<1>9. ASSUME NEW s \in Squares, NEW t \in passable, KingStep(s, t)
      PROVE  map[t] <= map[s] + 1
  <2>0. t \in Squares
    BY <1>2
  <2>1. CASE map[s] = n
    BY <1>1, <1>7, <2>0, <2>1
  <2>2. CASE map[s] # n
    BY <1>3, <1>4, <1>9, <2>2 DEF OnSpread
  <2> QED
    BY <2>1, <2>2
<1> QED
  BY <1>6, <1>7, <1>8, <1>9 DEF map, passable

LEMMA ThreatMaps ==
  ASSUME NEW grid, NEW w, NEW obstacles
  PROVE  /\ threatMap(grid, w, obstacles) \in [Squares -> Nat]
         /\ \A s \in Squares :
              /\ threatMap(grid, w, obstacles)[s] <= UNREACHABLE
              /\ \A p \in predators(grid, w) :
                   threatMap(grid, w, obstacles)[s] <= reachMap(grid, p, obstacles)[s]
              /\ \/ threatMap(grid, w, obstacles)[s] = UNREACHABLE
                 \/ \E p \in predators(grid, w) :
                      threatMap(grid, w, obstacles)[s] = reachMap(grid, p, obstacles)[s]
<1> DEFINE threat == threatMap(grid, w, obstacles)
           maps == {reachMap(grid, p, obstacles) : p \in predators(grid, w)}
           counts(s) == {UNREACHABLE} \cup {map[s] : map \in maps}
<1>1. threat = [s \in Squares |-> MinOf(counts(s))]
  BY TableIs DEF threatMap, mergeMaps
<1>2. ASSUME NEW p \in predators(grid, w)
      PROVE  reachMap(grid, p, obstacles) \in [Squares -> Nat]
  <2>1. p \in walkersOn(grid)
    BY DEF predators
  <2> QED
    BY <2>1, WalkersStandOnSquares, ReachMaps
<1>3. ASSUME NEW s \in Squares
      PROVE  /\ counts(s) \subseteq Nat /\ UNREACHABLE \in counts(s)
             /\ \A p \in predators(grid, w) : reachMap(grid, p, obstacles)[s] \in counts(s)
             /\ \A c \in counts(s) : \/ c = UNREACHABLE
                                     \/ \E p \in predators(grid, w) : c = reachMap(grid, p, obstacles)[s]
  BY <1>2, UnreachableIsANumber
<1> HIDE DEF counts
<1>4. ASSUME NEW s \in Squares
      PROVE  threat[s] \in counts(s) /\ \A c \in counts(s) : threat[s] <= c
  <2>1. threat[s] = MinOf(counts(s))
    BY <1>1
  <2> QED
    BY <1>3, <2>1, LeastIsMinOf
<1>5. threat \in [Squares -> Nat]
  BY <1>1, <1>3, <1>4
<1> HIDE DEF threat
<1> QED
  BY <1>3, <1>4, <1>5 DEF threat

LEMMA PredatorsAreHome ==
  ASSUME NEW grid, NEW w, NEW obstacles, NEW p \in predators(grid, w)
  PROVE  p.from \in Squares /\ threatMap(grid, w, obstacles)[p.from] = 0
<1>1. p.from \in Squares
  BY WalkersStandOnSquares DEF predators
<1>2. reachMap(grid, p, obstacles)[p.from] = 0
  BY <1>1, ReachMaps
<1> QED
  BY <1>1, <1>2, ThreatMaps

\* A square every predator may step on is threatened no later than one move
\* after its neighbour.
LEMMA ThreatSpreads ==
  ASSUME NEW grid, NEW w, NEW obstacles, NEW s \in Squares, NEW t \in Squares, KingStep(s, t),
         \A p \in predators(grid, w) : t \in passableFor(grid, p, obstacles)
  PROVE  threatMap(grid, w, obstacles)[t] <= threatMap(grid, w, obstacles)[s] + 1
<1> DEFINE threat == threatMap(grid, w, obstacles)
<1>0. threat[s] \in Nat /\ threat[t] \in Nat /\ UNREACHABLE \in Nat
  BY ThreatMaps, UnreachableIsANumber
<1>1. CASE threat[s] = UNREACHABLE
  <2>1. threat[t] <= UNREACHABLE
    BY ThreatMaps
  <2> QED
    BY <1>0, <1>1, <2>1
<1>2. CASE threat[s] # UNREACHABLE
  <2>1. PICK p \in predators(grid, w) : threat[s] = reachMap(grid, p, obstacles)[s]
    BY <1>2, ThreatMaps
  <2>2. p.from \in Squares
    BY WalkersStandOnSquares DEF predators
  <2>3. reachMap(grid, p, obstacles)[t] <= reachMap(grid, p, obstacles)[s] + 1
    BY <2>2, ReachMaps
  <2>4. threat[t] <= reachMap(grid, p, obstacles)[t]
    BY ThreatMaps
  <2>5. reachMap(grid, p, obstacles)[t] \in Nat
    BY <2>2, ReachMaps
  <2> QED
    BY <1>0, <2>1, <2>3, <2>4, <2>5
<1> QED
  BY <1>1, <1>2

-----------------------------------------------------------------------------
(* A run played out.                                                       *)

\* The pieces that take the runner, and the squares no piece of theirs or of
\* the runner's other enemies ever bars: empty, a predator's own, or one of the
\* runner's kind.
IsPredator(tile, runner) ==
  tile.occupant = predatorOf(runner.piece) /\ tile.owner = opposingColor(runner.owner)

OpenToPredators(tile, runner) ==
  \/ tile.occupant = Empty
  \/ IsPredator(tile, runner)
  \/ tile.occupant = runner.piece /\ tile.owner = runner.owner

LEMMA KindsOfPieces ==
  ASSUME NEW k \in Pieces
  PROVE  /\ predatorOf(k) \in Pieces /\ predatorOf(k) # k
         /\ \A t \in Pieces : canCapture(predatorOf(k), t) <=> t = k
         /\ ~canCapture(k, predatorOf(k))
  BY DEF predatorOf, canCapture

LEMMA ThreatReaches ==
  ASSUME NEW grid \in [Squares -> Tiles], NEW runner, runner.piece \in Pieces,
         runner.owner \in Players, NEW obstacles \in ObstacleModels,
         NEW s \in Squares, NEW t \in Squares, KingStep(s, t), OpenToPredators(grid[t], runner)
  PROVE  threatMap(grid, runner, obstacles)[t] <= threatMap(grid, runner, obstacles)[s] + 1
<1>1. CASE IsPredator(grid[t], runner)
  <2>1. grid[t].occupant # Empty
    BY <1>1, KindsOfPieces DEF IsPredator
  <2>2. Walker(grid, t) \in predators(grid, runner) /\ Walker(grid, t).from = t
    BY <1>1, <2>1 DEF predators, walkersOn, IsPredator, Walker
  <2>3. threatMap(grid, runner, obstacles)[t] = 0
    BY <2>2, PredatorsAreHome
  <2>4. threatMap(grid, runner, obstacles)[s] \in Nat
    BY ThreatMaps
  <2> QED
    BY <2>3, <2>4
<1>2. CASE ~IsPredator(grid[t], runner)
  <2>1. ASSUME NEW p \in predators(grid, runner)
        PROVE  t \in passableFor(grid, p, obstacles)
    <3>1. p.piece = predatorOf(runner.piece) /\ p.owner = opposingColor(runner.owner)
      BY DEF predators
    <3>2. CASE grid[t].occupant = Empty
      BY <3>2 DEF passableFor
    <3>3. CASE grid[t].occupant = runner.piece /\ grid[t].owner = runner.owner
      <4>1. grid[t].owner # p.owner
        BY <3>1, <3>3, OppositeSides
      <4>2. canCapture(p.piece, grid[t].occupant)
        BY <3>1, <3>3, KindsOfPieces
      <4> QED
        BY <4>1, <4>2 DEF passableFor
    <3> QED
      BY <1>2, <3>2, <3>3 DEF OpenToPredators
  <2> QED
    BY <2>1, ThreatSpreads
<1> QED
  BY <1>1, <1>2

\* Of what is drawn, played out on the board of a game.
DrawnFrom(game, w, choice) ==
  safeRun(game.grid, w, goalRowFor(w.owner),
          [obstacles |-> choice.obstacles, safety |-> choice.safety,
           walkerToMove |-> w.owner = game.currentTurn, goalEndsGame |-> choice.goalEndsGame],
          threatMap(game.grid, w, choice.obstacles))

LEMMA DrawnRunsAreDrawn ==
  ASSUME NEW w, NEW choice
  PROVE  DrawnRuns(w, choice) = DrawnFrom(shown, w, choice)
  BY DEF DrawnRuns, DrawnFrom, DrawnWith

\* The moves the enemy has made since the run was drawn.
EnemyMoves(game, c) ==
  IF c.turn = c.runner.owner
  THEN c.at - (IF c.runner.owner = game.currentTurn THEN 1 ELSE 0)
  ELSE c.at - (IF c.runner.owner = game.currentTurn THEN 2 ELSE 1)

ChaseOn(game, c) ==
  /\ c \in Chases
  /\ c.runner \in walkersOn(game.grid)
  /\ c.path \in DrawnFrom(game, c.runner, c.choice)
  /\ c.at \in 1..Len(c.path)
  /\ Manned(c.grid)
  /\ c.stage = "running" =>
       /\ c.choice.goalEndsGame => c.at < Len(c.path)
       /\ EnemyMoves(game, c) \in Nat
       /\ c.grid[c.path[c.at]].occupant = c.runner.piece
       /\ c.grid[c.path[c.at]].owner = c.runner.owner

\* The runs the promise is made for.
QuietRun(game, c) ==
  /\ c.choice.safety = "perStep"
  /\ \A i \in 2..Len(c.path) : game.grid[c.path[i]].occupant = Empty
  /\ \/ c.runner.owner = game.currentTurn
     \/ threatMap(game.grid, c.runner, "static")[c.runner.from] > 1

\* How far the hunters can have come: what the chase has changed is a square no
\* predator was ever barred from, and every predator stands where the map of the
\* board the run was drawn on puts one by then, however obstacles are read.
StandsStill(game, c, s) ==
  c.grid[s].occupant = game.grid[s].occupant /\ c.grid[s].owner = game.grid[s].owner

SquareHunted(game, c, s) ==
  /\ StandsStill(game, c, s) \/ OpenToPredators(game.grid[s], c.runner)
  /\ \/ s = c.path[c.at]
     \/ StandsStill(game, c, s)
     \/ c.grid[s].occupant = Empty
     \/ IsPredator(c.grid[s], c.runner)
  /\ IsPredator(c.grid[s], c.runner) =>
       \A o \in ObstacleModels : threatMap(game.grid, c.runner, o)[s] <= EnemyMoves(game, c)

Hunted(game, c) == \A s \in Squares : SquareHunted(game, c, s)

HuntGoesOn(game, c) ==
  QuietRun(game, c) => c.stage # "caught" /\ (c.stage = "running" => Hunted(game, c))

ChaseSound ==
  chase # NoChase => ChaseOn(shown, chase) /\ HuntGoesOn(shown, chase)

LEMMA ChasesAreRecords ==
  ASSUME NEW c \in Chases
  PROVE  /\ c.stage \in {"running", "home", "caught"}
         /\ c.runner.from \in Squares /\ c.runner.piece \in Pieces /\ c.runner.owner \in Players
         /\ c.choice \in RunChoices /\ c.path \in Seq(Squares) /\ c.at \in Nat
         /\ c.grid \in [Squares -> Tiles] /\ c.turn \in Players
         /\ c # NoChase
<1>1. c # NoChase
  <2>1. c.stage # "none"
    BY DEF Chases
  <2> QED
    BY <2>1 DEF NoChase
<1> QED
  BY <1>1 DEF Chases

LEMMA RunChoicesAre ==
  ASSUME NEW choice \in RunChoices
  PROVE  /\ choice.obstacles \in ObstacleModels /\ choice.safety \in SafetyRules
         /\ choice.goalEndsGame \in BOOLEAN
  BY RunChoicesAssumption

\* The path of a chase: squares of single steps, and none on the goal row but
\* the last.
LEMMA PathsOfChases ==
  ASSUME NEW game, NEW c, ChaseOn(game, c)
  PROVE  /\ Len(c.path) \in Nat /\ \A i \in 1..Len(c.path) : c.path[i] \in Squares
         /\ c.path[1] = c.runner.from /\ c.runner.from \in Squares
         /\ \A i \in 2..Len(c.path) : KingStep(c.path[i - 1], c.path[i])
         /\ c.at \in 1..Len(c.path) /\ c.path[c.at] \in Squares
         /\ c.choice.safety = "perStep" =>
              \A i \in 2..Len(c.path) :
                 \/ c.choice.goalEndsGame /\ i = Len(c.path)
                 \/ threatMap(game.grid, c.runner, c.choice.obstacles)[c.path[i]]
                      > i - 1 + (IF c.runner.owner = game.currentTurn THEN 0 ELSE 1)
<1> DEFINE options == [obstacles |-> c.choice.obstacles, safety |-> c.choice.safety,
                       walkerToMove |-> c.runner.owner = game.currentTurn,
                       goalEndsGame |-> c.choice.goalEndsGame]
           row == goalRowFor(c.runner.owner)
           threat == threatMap(game.grid, c.runner, c.choice.obstacles)
           path == c.path
           runner == c.runner
           runs == safeRun(game.grid, runner, row, options, threat)
           allowed == StepwiseAllowed(game.grid, runner, row, options, threat)
<1>1. path \in Seq(Squares) /\ runner.from \in Squares /\ c.at \in 1..Len(path)
  BY ChasesAreRecords DEF ChaseOn
<1>2. path \in runs
  BY DEF ChaseOn, DrawnFrom
<1>3. /\ options.safety = c.choice.safety /\ options.goalEndsGame = c.choice.goalEndsGame
      /\ options.walkerToMove = (c.runner.owner = game.currentTurn)
  OBVIOUS
<1>4. Len(path) \in Nat /\ \A i \in 1..Len(path) : path[i] \in Squares
  BY <1>1
<1> HIDE DEF options, row, threat, path, runner
<1>5. PICK allowedAt : IsWalk(path, runner.from, row, allowedAt)
  BY <1>1, <1>2, SafeRunsAreWalks
<1>6. path[1] = runner.from /\ \A i \in 2..Len(path) : KingStep(path[i - 1], path[i])
  BY <1>5 DEF IsWalk
<1>7. ASSUME c.choice.safety = "perStep", NEW i \in 2..Len(path)
      PROVE  \/ c.choice.goalEndsGame /\ i = Len(path)
             \/ threat[path[i]] > i - 1 + (IF c.runner.owner = game.currentTurn THEN 0 ELSE 1)
  <2>1. options.safety # "wholeRun" /\ options.safety # "off"
    BY <1>3, <1>7
  <2>2. runs = boundedWalk(runner.from, row, allowed)
    BY <2>1, SafeRunsMoveByMove
  <2>3. IsWalk(path, runner.from, row, allowed)
    BY <1>1, <1>2, <2>2, RunsAreWalks
  <2>4. i - 1 \in allowed[path[i]] /\ path[i] \in Squares
    BY <1>4, <2>3 DEF IsWalk
  <2>5. \/ options.goalEndsGame /\ path[i][2] = row
        \/ safeAtStep(threat[path[i]], i - 1, options.walkerToMove)
    BY <2>1, <2>4 DEF StepwiseAllowed
  <2>6. CASE options.goalEndsGame /\ path[i][2] = row
    <3>1. ~(i \in 1..Len(path) - 1)
      BY <2>3, <2>6 DEF IsWalk
    <3>2. i = Len(path)
      BY <1>4, <3>1
    <3> QED
      BY <1>3, <2>6, <3>2
  <2>7. CASE safeAtStep(threat[path[i]], i - 1, options.walkerToMove)
    BY <1>3, <2>7 DEF safeAtStep
  <2> QED
    BY <2>5, <2>6, <2>7
<1>8. path[c.at] \in Squares
  BY <1>1, <1>4
<1> QED
  BY <1>1, <1>4, <1>6, <1>7, <1>8 DEF path, threat, runner

\* A move on the board of a chase.
MovedTo(moved, grid, turn, from, to) ==
  /\ moved \in [Squares -> Tiles] /\ Manned(moved)
  /\ moved[to].occupant = grid[from].occupant /\ moved[to].owner = turn
  /\ moved[from].occupant = Empty
  /\ \A s \in Squares : s # from /\ s # to =>
       moved[s].occupant = grid[s].occupant /\ moved[s].owner = grid[s].owner

LEMMA MovedOnTheBoard ==
  ASSUME NEW grid \in [Squares -> Tiles], Manned(grid), NEW turn \in Players,
         NEW from \in Squares, NEW to \in Squares, from # to, grid[from].occupant # Empty
  PROVE  MovedTo(Landed([mode |-> Infiltration, grid |-> grid, currentTurn |-> turn], from, to),
                 grid, turn, from, to)
<1> DEFINE moved == Landed([mode |-> Infiltration, grid |-> grid, currentTurn |-> turn], from, to)
<1> DEFINE g == [mode |-> Infiltration, grid |-> grid, currentTurn |-> turn]
<1>1. g.grid = grid /\ g.currentTurn = turn
  OBVIOUS
<1> HIDE DEF g, moved
<1>2. moved = Landed(g, from, to)
  BY DEF g, moved
<1>3. moved \in [Squares -> Tiles] /\ Manned(moved)
  BY <1>1, <1>2, LandedIsABoard
<1>4. moved = [s \in Squares |-> TileAfter(g, from, to, s)]
  BY <1>1, <1>2, LandedTiles
<1>5. ASSUME NEW s \in Squares
      PROVE  /\ moved[s].occupant = IF s = to THEN grid[from].occupant
                                    ELSE IF s = from THEN Empty ELSE grid[s].occupant
             /\ moved[s].owner = IF s = to THEN turn
                                 ELSE IF s = from THEN Neutral ELSE grid[s].owner
  BY <1>1, <1>4 DEF TileAfter
<1> QED
  BY <1>3, <1>5 DEF MovedTo, moved

LEMMA WalkersAreRecords ==
  ASSUME NEW grid \in [Squares -> Tiles], Manned(grid), NEW w \in walkersOn(grid)
  PROVE  /\ w \in [from : Squares, piece : Pieces, owner : Players]
         /\ w.from \in Squares /\ w.piece = grid[w.from].occupant /\ w.owner = grid[w.from].owner
         /\ w.piece \in Pieces /\ w.owner \in Players
<1>1. /\ w.from \in Squares /\ w = Walker(grid, w.from) /\ grid[w.from].occupant # Empty
      /\ w.piece = grid[w.from].occupant /\ w.owner = grid[w.from].owner
  BY WalkersStandOnSquares
<1>2. grid[w.from].owner # Neutral
  BY <1>1 DEF Manned
<1>3. grid[w.from].occupant \in Pieces /\ grid[w.from].owner \in Players
  BY <1>1, <1>2, TilesAreRecords
<1>4. PICK s \in Squares, k \in Pieces, o \in Players :
        s = w.from /\ k = grid[w.from].occupant /\ o = grid[w.from].owner
  BY <1>1, <1>3
<1>5. w = [from |-> s, piece |-> k, owner |-> o]
  BY <1>1, <1>4 DEF Walker
<1> QED
  BY <1>1, <1>3, <1>5

\* A run just drawn.
LEMMA DrawnChase ==
  ASSUME NEW game, GameShown(game), NEW w \in walkersOn(game.grid), NEW choice \in RunChoices,
         NEW path \in DrawnFrom(game, w, choice), Moves(path) > 0,
         NEW c, c = [stage |-> "running", runner |-> w, choice |-> choice, path |-> path,
                     at |-> 1, grid |-> game.grid, turn |-> game.currentTurn]
  PROVE  ChaseOn(game, c) /\ HuntGoesOn(game, c)
<1>1. /\ game.grid \in [Squares -> Tiles] /\ game.currentTurn \in Players /\ Manned(game.grid)
  BY GamesAreRecords DEF GameShown
<1>2. /\ w \in [from : Squares, piece : Pieces, owner : Players] /\ w.from \in Squares
      /\ w.piece = game.grid[w.from].occupant /\ w.owner = game.grid[w.from].owner
  BY <1>1, WalkersAreRecords
<1>3. PICK allowedAt : IsWalk(path, w.from, goalRowFor(w.owner), allowedAt)
  BY <1>2, SafeRunsAreWalks DEF DrawnFrom
<1>4. path \in Seq(Squares) /\ Len(path) \in Nat /\ path[1] = w.from /\ Len(path) > 1
  BY <1>3 DEF IsWalk, Moves
<1>5. PICK grid, turn : grid = game.grid /\ turn = game.currentTurn
  OBVIOUS
<1>6. c = [stage |-> "running", runner |-> w, choice |-> choice, path |-> path,
           at |-> 1, grid |-> grid, turn |-> turn]
  BY <1>5
<1>7. /\ c.stage = "running" /\ c.runner = w /\ c.choice = choice /\ c.path = path /\ c.at = 1
      /\ c.grid = grid /\ c.turn = turn
  BY <1>6
<1>8. c \in Chases
  <2>1. grid \in [Squares -> Tiles] /\ turn \in Players /\ 1 \in Nat
    BY <1>1, <1>5
  <2> QED
    BY <1>2, <1>4, <1>6, <2>1 DEF Chases
<1>9. EnemyMoves(game, c) = 0
  <2>1. c.turn = game.currentTurn
    BY <1>5, <1>7
  <2>2. c.at = 1
    BY <1>7
  <2>3. CASE c.runner.owner = game.currentTurn
    BY <2>1, <2>2, <2>3 DEF EnemyMoves
  <2>4. CASE c.runner.owner # game.currentTurn
    BY <2>1, <2>2, <2>4 DEF EnemyMoves
  <2> QED
    BY <2>3, <2>4
<1>10. ChaseOn(game, c)
  <2>1. Manned(c.grid)
    BY <1>1, <1>5, <1>7
  <2>2. c.at \in 1..Len(c.path) /\ c.at < Len(c.path)
    BY <1>4, <1>7
  <2>3. c.runner \in walkersOn(game.grid) /\ c.path \in DrawnFrom(game, c.runner, c.choice)
    BY <1>7
  <2>4. /\ c.grid[c.path[c.at]].occupant = c.runner.piece
        /\ c.grid[c.path[c.at]].owner = c.runner.owner
    BY <1>2, <1>4, <1>5, <1>7
  <2> QED
    BY <1>8, <1>9, <2>1, <2>2, <2>3, <2>4 DEF ChaseOn
<1>11. Hunted(game, c)
  <2>1. c.path[c.at] = w.from /\ c.grid = game.grid /\ c.runner = w
    BY <1>4, <1>5, <1>7
  <2>2. ASSUME NEW s \in Squares, IsPredator(c.grid[s], c.runner), NEW o \in ObstacleModels
        PROVE  threatMap(game.grid, c.runner, o)[s] <= EnemyMoves(game, c)
    <3>1. game.grid[s].occupant = predatorOf(w.piece) /\ game.grid[s].owner = opposingColor(w.owner)
      BY <2>1, <2>2 DEF IsPredator
    <3>2. game.grid[s].occupant # Empty
      BY <3>1, <1>2, KindsOfPieces
    <3>3. Walker(game.grid, s) \in predators(game.grid, w) /\ Walker(game.grid, s).from = s
      BY <3>1, <3>2 DEF predators, walkersOn, Walker
    <3>4. threatMap(game.grid, w, o)[s] = 0
      BY <3>3, PredatorsAreHome
    <3> QED
      BY <1>9, <2>1, <3>4
  <2>3. ASSUME NEW s \in Squares
        PROVE  StandsStill(game, c, s)
    BY <2>1 DEF StandsStill
  <2> QED
    BY <2>2, <2>3 DEF Hunted, SquareHunted
<1> QED
  BY <1>7, <1>10, <1>11 DEF HuntGoesOn

LEMMA ChaseFields ==
  ASSUME NEW c \in Chases, NEW at \in Nat, NEW grid \in [Squares -> Tiles], NEW turn \in Players,
         NEW stage \in {"running", "home", "caught"},
         NEW d, d = [c EXCEPT !.at = at, !.grid = grid, !.turn = turn, !.stage = stage]
  PROVE  /\ d \in Chases
         /\ d.stage = stage /\ d.at = at /\ d.grid = grid /\ d.turn = turn
         /\ d.runner = c.runner /\ d.choice = c.choice /\ d.path = c.path
<1>1. d \in Chases
  BY DEF Chases
<1>2. d.stage = stage /\ d.at = at /\ d.grid = grid /\ d.turn = turn
  BY DEF Chases
<1>3. d.runner = c.runner /\ d.choice = c.choice /\ d.path = c.path
  BY DEF Chases
<1> QED
  BY <1>1, <1>2, <1>3

\* What a step of a chase never changes.
SameRun(d, c) == d.runner = c.runner /\ d.choice = c.choice /\ d.path = c.path

LEMMA SameRunSamePromise ==
  ASSUME NEW game, NEW c, NEW d, SameRun(d, c)
  PROVE  /\ QuietRun(game, d) <=> QuietRun(game, c)
         /\ DrawnFrom(game, d.runner, d.choice) = DrawnFrom(game, c.runner, c.choice)
  BY DEF SameRun, QuietRun

LEMMA SameSquares ==
  ASSUME NEW game, NEW c, NEW d, SameRun(d, c), NEW s,
         d.grid[s].occupant = c.grid[s].occupant, d.grid[s].owner = c.grid[s].owner
  PROVE  /\ StandsStill(game, d, s) <=> StandsStill(game, c, s)
         /\ IsPredator(d.grid[s], d.runner) <=> IsPredator(c.grid[s], c.runner)
         /\ OpenToPredators(game.grid[s], d.runner) <=> OpenToPredators(game.grid[s], c.runner)
  BY DEF SameRun, StandsStill, IsPredator, OpenToPredators

\* Where the runner stands no predator was ever barred.
LEMMA RunnersSquareIsOpen ==
  ASSUME NEW game, GameShown(game), NEW c, ChaseOn(game, c), QuietRun(game, c)
  PROVE  OpenToPredators(game.grid[c.path[c.at]], c.runner)
<1>1. /\ c.path[1] = c.runner.from /\ c.at \in 1..Len(c.path) /\ Len(c.path) \in Nat
  BY PathsOfChases
<1>2. CASE c.at = 1
  <2>1. game.grid \in [Squares -> Tiles] /\ Manned(game.grid)
    BY GamesAreRecords DEF GameShown
  <2>2. c.runner.piece = game.grid[c.runner.from].occupant
        /\ c.runner.owner = game.grid[c.runner.from].owner
    BY <2>1, WalkersAreRecords DEF ChaseOn
  <2> QED
    BY <1>1, <1>2, <2>2 DEF OpenToPredators
<1>3. CASE c.at # 1
  <2>1. c.at \in 2..Len(c.path)
    BY <1>1, <1>3
  <2> QED
    BY <2>1 DEF QuietRun, OpenToPredators
<1> QED
  BY <1>2, <1>3

\* The runner takes the next step of its path.
LEMMA RunnerMovesOn ==
  ASSUME NEW game, GameShown(game), NEW c, ChaseOn(game, c), HuntGoesOn(game, c),
         c.stage = "running", c.turn = c.runner.owner, c.at < Len(c.path),
         NEW d, d \in Chases, SameRun(d, c), d.at = c.at + 1,
         d.grid = Landed([mode |-> Infiltration, grid |-> c.grid, currentTurn |-> c.turn],
                         c.path[c.at], c.path[c.at + 1]),
         d.turn = opposingColor(c.runner.owner),
         d.stage = IF c.at + 1 = Len(c.path) /\ c.choice.goalEndsGame THEN "home" ELSE "running"
  PROVE  ChaseOn(game, d) /\ HuntGoesOn(game, d)
<1> DEFINE from == c.path[c.at]
           to == c.path[c.at + 1]
<1>0. c \in Chases
  BY DEF ChaseOn
<1>1. /\ c.runner.piece \in Pieces /\ c.runner.owner \in Players
      /\ c.grid \in [Squares -> Tiles] /\ Manned(c.grid) /\ c.turn \in Players /\ c.at \in Nat
  BY <1>0, ChasesAreRecords DEF ChaseOn
<1>2. Len(c.path) \in Nat /\ c.at \in 1..Len(c.path) /\ c.at + 1 \in 2..Len(c.path)
      /\ (c.at + 1) - 1 = c.at
  BY <1>1, PathsOfChases
<1>3. from \in Squares /\ to \in Squares /\ KingStep(from, to)
  BY <1>2, PathsOfChases
<1>4. from # to
  BY <1>3 DEF KingStep
<1>5. c.grid[from].occupant = c.runner.piece /\ c.grid[from].owner = c.runner.owner
  BY DEF ChaseOn
<1>6. c.grid[from].occupant # Empty
  BY <1>1, <1>5
<1>7. /\ d.grid \in [Squares -> Tiles] /\ Manned(d.grid)
      /\ d.grid[to].occupant = c.runner.piece /\ d.grid[to].owner = c.runner.owner
      /\ d.grid[from].occupant = Empty
      /\ \A s \in Squares : s # from /\ s # to =>
           d.grid[s].occupant = c.grid[s].occupant /\ d.grid[s].owner = c.grid[s].owner
  <2>1. MovedTo(d.grid, c.grid, c.turn, from, to)
    BY <1>1, <1>3, <1>4, <1>6, MovedOnTheBoard
  <2> QED
    BY <1>5, <2>1 DEF MovedTo
<1>8. d.path[d.at] = to /\ d.runner = c.runner /\ d.choice = c.choice /\ d.path = c.path
  BY DEF SameRun
<1>9. c.turn # opposingColor(c.runner.owner) /\ d.turn # d.runner.owner
  BY <1>1, <1>8, OppositeSides
<1>10. EnemyMoves(game, d) = EnemyMoves(game, c)
  <2>1. CASE c.runner.owner = game.currentTurn
    BY <1>1, <1>8, <1>9, <2>1 DEF EnemyMoves
  <2>2. CASE c.runner.owner # game.currentTurn
    BY <1>1, <1>8, <1>9, <2>2 DEF EnemyMoves
  <2> QED
    BY <2>1, <2>2
<1>11. ChaseOn(game, d)
  <2>1. d.path \in DrawnFrom(game, d.runner, d.choice) /\ d.runner \in walkersOn(game.grid)
    BY <1>8 DEF ChaseOn
  <2>2. d.at \in 1..Len(d.path)
    BY <1>2, <1>8
  <2>3. d.stage = "running" => /\ d.choice.goalEndsGame => d.at < Len(d.path)
                               /\ EnemyMoves(game, d) \in Nat
    BY <1>2, <1>8, <1>10 DEF ChaseOn
  <2> QED
    BY <1>7, <1>8, <2>1, <2>2, <2>3 DEF ChaseOn
<1>12. ASSUME QuietRun(game, d), d.stage = "running"
       PROVE  Hunted(game, d)
  <2>1. QuietRun(game, c) /\ Hunted(game, c)
    BY <1>12, SameRunSamePromise DEF HuntGoesOn
  <2> SUFFICES ASSUME NEW s \in Squares
               PROVE  SquareHunted(game, d, s)
    BY DEF Hunted
  <2>2. SquareHunted(game, c, s)
    BY <2>1 DEF Hunted
  <2>3. CASE s = to
    <3>1. OpenToPredators(game.grid[s], d.runner)
      BY <1>8, <1>11, <1>12, <2>3, RunnersSquareIsOpen
    <3>2. ~IsPredator(d.grid[s], d.runner)
      BY <1>1, <1>7, <1>8, <2>3, KindsOfPieces DEF IsPredator
    <3> QED
      BY <1>8, <2>3, <3>1, <3>2 DEF SquareHunted
  <2>4. CASE s = from
    <3>1. OpenToPredators(game.grid[s], d.runner)
      BY <1>8, <2>1, <2>4, RunnersSquareIsOpen
    <3>2. ~IsPredator(d.grid[s], d.runner)
      BY <1>1, <1>7, <1>8, <2>4, KindsOfPieces DEF IsPredator
    <3> QED
      BY <1>7, <2>4, <3>1, <3>2 DEF SquareHunted
  <2>5. CASE s # to /\ s # from
    <3>1. d.grid[s].occupant = c.grid[s].occupant /\ d.grid[s].owner = c.grid[s].owner
      BY <1>7, <2>5
    <3>2. /\ StandsStill(game, d, s) <=> StandsStill(game, c, s)
          /\ IsPredator(d.grid[s], d.runner) <=> IsPredator(c.grid[s], c.runner)
          /\ OpenToPredators(game.grid[s], d.runner) <=> OpenToPredators(game.grid[s], c.runner)
      BY <3>1, SameSquares
    <3> QED
      BY <1>8, <1>10, <2>2, <2>5, <3>1, <3>2 DEF SquareHunted
  <2> QED
    BY <2>3, <2>4, <2>5
<1>13. d.stage # "caught"
  OBVIOUS
<1> QED
  BY <1>11, <1>12, <1>13 DEF HuntGoesOn

\* The enemy spends its move elsewhere.
LEMMA EnemyWaits ==
  ASSUME NEW game, NEW c, ChaseOn(game, c), HuntGoesOn(game, c),
         c.stage = "running", c.turn # c.runner.owner,
         NEW d, d \in Chases, SameRun(d, c), d.at = c.at, d.grid = c.grid,
         d.turn = c.runner.owner, d.stage = c.stage
  PROVE  /\ EnemyMoves(game, d) = EnemyMoves(game, c) + 1
         /\ ChaseOn(game, d) /\ HuntGoesOn(game, d)
<1>0. c \in Chases
  BY DEF ChaseOn
<1>1. c.runner.owner \in Players /\ c.turn \in Players /\ c.at \in Nat
  BY <1>0, ChasesAreRecords
<1>2. d.runner = c.runner /\ d.choice = c.choice /\ d.path = c.path
  BY DEF SameRun
<1>3. EnemyMoves(game, d) = EnemyMoves(game, c) + 1
  <2>1. CASE c.runner.owner = game.currentTurn
    BY <1>1, <1>2, <2>1 DEF EnemyMoves
  <2>2. CASE c.runner.owner # game.currentTurn
    BY <1>1, <1>2, <2>2 DEF EnemyMoves
  <2> QED
    BY <2>1, <2>2
<1>4. EnemyMoves(game, c) \in Nat
  BY DEF ChaseOn
<1>5. ChaseOn(game, d)
  <2>1. d.path \in DrawnFrom(game, d.runner, d.choice) /\ d.runner \in walkersOn(game.grid)
    BY <1>2 DEF ChaseOn
  <2>2. d.at \in 1..Len(d.path) /\ Manned(d.grid)
    BY <1>2 DEF ChaseOn
  <2>3. /\ d.choice.goalEndsGame => d.at < Len(d.path)
        /\ EnemyMoves(game, d) \in Nat
        /\ d.grid[d.path[d.at]].occupant = d.runner.piece
        /\ d.grid[d.path[d.at]].owner = d.runner.owner
    BY <1>2, <1>3, <1>4 DEF ChaseOn
  <2> QED
    BY <2>1, <2>2, <2>3 DEF ChaseOn
<1>6. ASSUME QuietRun(game, d)
      PROVE  Hunted(game, d)
  <2>1. Hunted(game, c)
    BY <1>6, SameRunSamePromise DEF HuntGoesOn
  <2> SUFFICES ASSUME NEW s \in Squares
               PROVE  SquareHunted(game, d, s)
    BY DEF Hunted
  <2>2. SquareHunted(game, c, s)
    BY <2>1 DEF Hunted
  <2>3. /\ StandsStill(game, d, s) <=> StandsStill(game, c, s)
        /\ IsPredator(d.grid[s], d.runner) <=> IsPredator(c.grid[s], c.runner)
        /\ OpenToPredators(game.grid[s], d.runner) <=> OpenToPredators(game.grid[s], c.runner)
    BY SameSquares
  <2>4. ASSUME NEW o \in ObstacleModels, IsPredator(c.grid[s], c.runner)
        PROVE  threatMap(game.grid, d.runner, o)[s] <= EnemyMoves(game, d)
    <3>1. threatMap(game.grid, c.runner, o)[s] <= EnemyMoves(game, c)
      BY <2>2, <2>4 DEF SquareHunted
    <3>2. threatMap(game.grid, c.runner, o)[s] \in Nat
      BY ThreatMaps
    <3> QED
      BY <1>2, <1>3, <1>4, <3>1, <3>2
  <2> QED
    BY <1>2, <2>2, <2>3, <2>4 DEF SquareHunted
<1>7. d.stage # "caught"
  OBVIOUS
<1> QED
  BY <1>3, <1>5, <1>6, <1>7 DEF HuntGoesOn

\* A predator steps: it is where the map puts it, one move later.
LEMMA PredatorSteps ==
  ASSUME NEW game, GameShown(game), NEW c, ChaseOn(game, c), HuntGoesOn(game, c),
         c.stage = "running", c.turn # c.runner.owner,
         NEW q \in Squares, IsPredator(c.grid[q], c.runner),
         NEW to, to \in stepTargets(c.grid, q, c.grid[q].owner, c.grid[q].occupant),
         NEW d, d \in Chases, SameRun(d, c), d.at = c.at,
         d.grid = Landed([mode |-> Infiltration, grid |-> c.grid, currentTurn |-> c.turn], q, to),
         d.turn = c.runner.owner,
         d.stage = IF to = c.path[c.at] THEN "caught" ELSE c.stage
  PROVE  ChaseOn(game, d) /\ HuntGoesOn(game, d)
<1>0. c \in Chases
  BY DEF ChaseOn
<1>1. /\ c.runner.piece \in Pieces /\ c.runner.owner \in Players
      /\ c.grid \in [Squares -> Tiles] /\ Manned(c.grid) /\ c.turn \in Players /\ c.at \in Nat
  BY <1>0, ChasesAreRecords DEF ChaseOn
<1>2. d.runner = c.runner /\ d.choice = c.choice /\ d.path = c.path
  BY DEF SameRun
<1>3. c.turn = opposingColor(c.runner.owner)
  BY <1>1 DEF opposingColor
<1>4. /\ c.grid[q].occupant = predatorOf(c.runner.piece)
      /\ c.grid[q].owner = opposingColor(c.runner.owner)
  BY DEF IsPredator
<1>5. /\ to \in Squares /\ KingStep(q, to) /\ q # to
      /\ c.grid[to].owner # opposingColor(c.runner.owner)
      /\ c.grid[to].occupant = Empty \/ canCapture(predatorOf(c.runner.piece), c.grid[to].occupant)
  BY <1>4 DEF stepTargets, KingStep
<1>6. c.grid[q].occupant # Empty /\ c.grid[q].occupant # c.runner.piece
  BY <1>1, <1>4, KindsOfPieces
<1>7. /\ d.grid \in [Squares -> Tiles] /\ Manned(d.grid)
      /\ d.grid[to].occupant = c.grid[q].occupant /\ d.grid[to].owner = c.turn
      /\ d.grid[q].occupant = Empty
      /\ \A s \in Squares : s # q /\ s # to =>
           d.grid[s].occupant = c.grid[s].occupant /\ d.grid[s].owner = c.grid[s].owner
  <2>1. MovedTo(d.grid, c.grid, c.turn, q, to)
    BY <1>1, <1>5, <1>6, MovedOnTheBoard
  <2> QED
    BY <2>1 DEF MovedTo
<1>8. /\ c.path[c.at] \in Squares /\ Len(c.path) \in Nat /\ c.at \in 1..Len(c.path)
  BY PathsOfChases
<1>9. /\ c.grid[c.path[c.at]].occupant = c.runner.piece
      /\ c.grid[c.path[c.at]].owner = c.runner.owner
      /\ EnemyMoves(game, c) \in Nat
      /\ c.choice.goalEndsGame => c.at < Len(c.path)
  BY DEF ChaseOn
<1>10. EnemyMoves(game, d) = EnemyMoves(game, c) + 1
  <2>1. CASE c.runner.owner = game.currentTurn
    BY <1>1, <1>2, <2>1 DEF EnemyMoves
  <2>2. CASE c.runner.owner # game.currentTurn
    BY <1>1, <1>2, <2>2 DEF EnemyMoves
  <2> QED
    BY <2>1, <2>2
<1>11. ChaseOn(game, d)
  <2>1. d.path \in DrawnFrom(game, d.runner, d.choice) /\ d.runner \in walkersOn(game.grid)
    BY <1>2 DEF ChaseOn
  <2>2. d.at \in 1..Len(d.path)
    BY <1>2, <1>8
  <2>3. ASSUME d.stage = "running"
        PROVE  /\ d.choice.goalEndsGame => d.at < Len(d.path)
               /\ EnemyMoves(game, d) \in Nat
               /\ d.grid[d.path[d.at]].occupant = d.runner.piece
               /\ d.grid[d.path[d.at]].owner = d.runner.owner
    <3>1. c.path[c.at] # to /\ c.path[c.at] # q
      BY <1>6, <1>9, <2>3
    <3>2. EnemyMoves(game, d) \in Nat
      BY <1>9, <1>10
    <3> QED
      BY <1>2, <1>7, <1>8, <1>9, <3>1, <3>2
  <2> QED
    BY <1>7, <2>1, <2>2, <2>3 DEF ChaseOn
<1>12. ASSUME QuietRun(game, d)
       PROVE  d.stage = "running" /\ Hunted(game, d)
  <2>0. QuietRun(game, c) /\ Hunted(game, c)
    BY <1>12, SameRunSamePromise DEF HuntGoesOn
  <2>1. SquareHunted(game, c, to) /\ SquareHunted(game, c, q)
    BY <1>5, <2>0 DEF Hunted
  <2>2. OpenToPredators(game.grid[to], c.runner)
    <3>1. CASE to = c.path[c.at]
      BY <2>0, <3>1, RunnersSquareIsOpen
    <3>2. CASE to # c.path[c.at] /\ StandsStill(game, c, to)
      <4>1. CASE c.grid[to].occupant = Empty
        BY <3>2, <4>1 DEF StandsStill, OpenToPredators
      <4>2. CASE c.grid[to].occupant # Empty
        <5>1. c.grid[to].occupant \in Pieces /\ c.grid[to].owner \in Colors
              /\ c.grid[to].owner # Neutral
          BY <1>1, <1>5, <4>2, TilesAreRecords DEF Manned
        <5>2. c.grid[to].occupant = c.runner.piece
          BY <1>1, <1>5, <4>2, <5>1, KindsOfPieces
        <5>3. c.grid[to].owner = c.runner.owner
          BY <1>1, <1>5, <5>1 DEF opposingColor
        <5> QED
          BY <3>2, <5>2, <5>3 DEF StandsStill, OpenToPredators
      <4> QED
        BY <4>1, <4>2
    <3> QED
      BY <2>1, <3>1, <3>2 DEF SquareHunted
  <2>3. ASSUME NEW o \in ObstacleModels
        PROVE  threatMap(game.grid, c.runner, o)[to] <= EnemyMoves(game, c) + 1
    <3>1. threatMap(game.grid, c.runner, o)[q] <= EnemyMoves(game, c)
      BY <2>1 DEF SquareHunted
    <3>2. game.grid \in [Squares -> Tiles]
      BY GamesAreRecords DEF GameShown
    <3>3. threatMap(game.grid, c.runner, o)[to] <= threatMap(game.grid, c.runner, o)[q] + 1
      BY <1>1, <1>5, <2>2, <3>2, ThreatReaches
    <3>4. threatMap(game.grid, c.runner, o)[to] \in Nat /\ threatMap(game.grid, c.runner, o)[q] \in Nat
      BY <1>5, ThreatMaps
    <3> QED
      BY <1>9, <3>1, <3>3, <3>4
  <2>4. to # c.path[c.at]
    <3> SUFFICES ASSUME to = c.path[c.at]
                 PROVE  FALSE
      OBVIOUS
    <3>1. CASE c.at = 1
      <4>1. c.runner.owner # game.currentTurn
        BY <1>9, <3>1 DEF EnemyMoves
      <4>2. EnemyMoves(game, c) = 0
        BY <3>1, <4>1 DEF EnemyMoves
      <4>3. threatMap(game.grid, c.runner, "static")[c.runner.from] > 1
        BY <2>0, <4>1 DEF QuietRun
      <4>4. to = c.runner.from
        BY <3>1, PathsOfChases
      <4>5. threatMap(game.grid, c.runner, "static")[to] <= 0 + 1
        BY <2>3, <4>2 DEF ObstacleModels
      <4>6. threatMap(game.grid, c.runner, "static")[to] \in Nat
        BY <1>5, ThreatMaps
      <4> QED
        BY <4>3, <4>4, <4>5, <4>6
    <3>2. CASE c.at # 1
      <4>1. c.at \in 2..Len(c.path) /\ ~(c.choice.goalEndsGame /\ c.at = Len(c.path))
        BY <1>8, <1>9, <3>2
      <4>2. c.choice.safety = "perStep"
        BY <2>0 DEF QuietRun
      <4>3. threatMap(game.grid, c.runner, c.choice.obstacles)[to]
              > c.at - 1 + (IF c.runner.owner = game.currentTurn THEN 0 ELSE 1)
        BY <4>1, <4>2, PathsOfChases
      <4>4. c.choice.obstacles \in ObstacleModels
        BY <1>0, ChasesAreRecords, RunChoicesAre
      <4>5. threatMap(game.grid, c.runner, c.choice.obstacles)[to] <= EnemyMoves(game, c) + 1
        BY <2>3, <4>4
      <4>6. threatMap(game.grid, c.runner, c.choice.obstacles)[to] \in Nat
        BY <1>5, ThreatMaps
      <4>7. EnemyMoves(game, c) = c.at - (IF c.runner.owner = game.currentTurn THEN 2 ELSE 1)
        BY DEF EnemyMoves
      <4>8. CASE c.runner.owner = game.currentTurn
        BY <1>1, <4>3, <4>5, <4>6, <4>7, <4>8
      <4>9. CASE c.runner.owner # game.currentTurn
        BY <1>1, <4>3, <4>5, <4>6, <4>7, <4>9
      <4> QED
        BY <4>8, <4>9
    <3> QED
      BY <3>1, <3>2
  <2>5. Hunted(game, d)
    <3> SUFFICES ASSUME NEW s \in Squares
                 PROVE  SquareHunted(game, d, s)
      BY DEF Hunted
    <3>1. SquareHunted(game, c, s)
      BY <2>0 DEF Hunted
    <3>2. CASE s = to
      <4>1. IsPredator(d.grid[s], d.runner)
        BY <1>2, <1>3, <1>4, <1>7, <3>2 DEF IsPredator
      <4> QED
        BY <1>2, <1>10, <2>2, <2>3, <3>2, <4>1 DEF SquareHunted
    <3>3. CASE s = q
      <4>1. OpenToPredators(game.grid[s], d.runner)
        BY <1>2, <1>4, <2>1, <3>3 DEF SquareHunted, StandsStill, OpenToPredators, IsPredator
      <4>2. ~IsPredator(d.grid[s], d.runner)
        BY <1>1, <1>2, <1>7, <3>3, KindsOfPieces DEF IsPredator
      <4> QED
        BY <1>7, <3>3, <4>1, <4>2 DEF SquareHunted
    <3>4. CASE s # to /\ s # q
      <4>1. d.grid[s].occupant = c.grid[s].occupant /\ d.grid[s].owner = c.grid[s].owner
        BY <1>7, <3>4
      <4>2. /\ StandsStill(game, d, s) <=> StandsStill(game, c, s)
            /\ IsPredator(d.grid[s], d.runner) <=> IsPredator(c.grid[s], c.runner)
            /\ OpenToPredators(game.grid[s], d.runner) <=> OpenToPredators(game.grid[s], c.runner)
        BY <4>1, SameSquares
      <4>3. ASSUME NEW o \in ObstacleModels, IsPredator(c.grid[s], c.runner)
            PROVE  threatMap(game.grid, d.runner, o)[s] <= EnemyMoves(game, d)
        <5>1. threatMap(game.grid, c.runner, o)[s] <= EnemyMoves(game, c)
          BY <3>1, <4>3 DEF SquareHunted
        <5>2. threatMap(game.grid, c.runner, o)[s] \in Nat
          BY ThreatMaps
        <5> QED
          BY <1>2, <1>9, <1>10, <5>1, <5>2
      <4> QED
        BY <1>2, <3>1, <4>1, <4>2, <4>3 DEF SquareHunted
    <3> QED
      BY <3>2, <3>3, <3>4
  <2> QED
    BY <2>4, <2>5
<1> QED
  BY <1>11, <1>12 DEF HuntGoesOn

LEMMA StepKeepsChaseSound ==
  ASSUME BoardSound, ChaseSound, [RaceNext]_raceVars
  PROVE  ChaseSound'
<1>1. ASSUME NEW from \in Squares, NEW to \in Squares, Play(from, to)
      PROVE  ChaseSound'
  BY <1>1 DEF Play, ChaseSound
<1>2. ASSUME NEW w \in walkersOn(shown.grid), NEW choice \in RunChoices, DrawRun(w, choice)
      PROVE  ChaseSound'
  <2>1. PICK path \in DrawnFrom(shown, w, choice) :
          /\ Moves(path) > 0
          /\ chase' = [stage |-> "running", runner |-> w, choice |-> choice, path |-> path,
                       at |-> 1, grid |-> shown.grid, turn |-> shown.currentTurn]
    BY <1>2, DrawnRunsAreDrawn DEF DrawRun
  <2>2. GameShown(shown) /\ shown' = shown
    BY <1>2 DEF BoardSound, DrawRun
  <2>3. ChaseOn(shown, chase') /\ HuntGoesOn(shown, chase')
    BY <2>1, <2>2, DrawnChase
  <2> QED
    BY <2>2, <2>3 DEF ChaseSound
<1>3. ASSUME chase.stage = "running"
      PROVE  /\ GameShown(shown) /\ chase \in Chases
             /\ ChaseOn(shown, chase) /\ HuntGoesOn(shown, chase)
  <2>1. chase # NoChase
    <3>1. chase.stage # "none"
      BY <1>3
    <3> QED
      BY <3>1 DEF NoChase
  <2> QED
    BY <2>1 DEF ChaseSound, BoardSound, ChaseOn
<1>4. ASSUME RunOn
      PROVE  ChaseSound'
  <2> DEFINE to == chase.path[chase.at + 1]
             grid == MovedOn(Standing, to)
             turn == opposingColor(Runner)
             stage == IF chase.at + 1 = Len(chase.path) /\ chase.choice.goalEndsGame
                      THEN "home" ELSE "running"
  <2>1. /\ chase.stage = "running" /\ chase.turn = chase.runner.owner
        /\ chase.at < Len(chase.path) /\ shown' = shown
    BY <1>4 DEF RunOn, Runner
  <2>2. chase' = [chase EXCEPT !.at = chase.at + 1, !.grid = grid, !.turn = turn, !.stage = stage]
    BY <1>4, <2>1 DEF RunOn
  <2>3. /\ GameShown(shown) /\ chase \in Chases
        /\ ChaseOn(shown, chase) /\ HuntGoesOn(shown, chase)
    BY <1>3, <2>1
  <2>4. grid = Landed([mode |-> Infiltration, grid |-> chase.grid, currentTurn |-> chase.turn],
                      chase.path[chase.at], to)
    BY DEF MovedOn, Standing
  <2>5. grid \in [Squares -> Tiles]
    <3>1. /\ chase.grid \in [Squares -> Tiles] /\ Manned(chase.grid) /\ chase.turn \in Players
          /\ chase.runner.piece \in Pieces /\ chase.at \in Nat
      BY <2>3, ChasesAreRecords DEF ChaseOn
    <3>2. /\ Len(chase.path) \in Nat /\ chase.at \in 1..Len(chase.path)
          /\ \A i \in 1..Len(chase.path) : chase.path[i] \in Squares
          /\ \A i \in 2..Len(chase.path) : KingStep(chase.path[i - 1], chase.path[i])
      BY <2>3, PathsOfChases
    <3>3. chase.at + 1 \in 2..Len(chase.path) /\ (chase.at + 1) - 1 = chase.at
          /\ chase.at + 1 \in 1..Len(chase.path)
      BY <2>1, <3>1, <3>2
    <3>4. chase.path[chase.at] \in Squares /\ to \in Squares /\ KingStep(chase.path[chase.at], to)
      BY <3>2, <3>3
    <3>5. chase.path[chase.at] # to /\ chase.grid[chase.path[chase.at]].occupant # Empty
      BY <2>1, <2>3, <3>1, <3>4 DEF ChaseOn, KingStep
    <3>6. MovedTo(grid, chase.grid, chase.turn, chase.path[chase.at], to)
      BY <2>4, <3>1, <3>4, <3>5, MovedOnTheBoard
    <3> QED
      BY <3>6 DEF MovedTo
  <2>6. /\ chase.at + 1 \in Nat /\ turn \in Players /\ stage \in {"running", "home", "caught"}
        /\ turn = opposingColor(chase.runner.owner)
    BY <2>3, ChasesAreRecords, OppositeSides DEF Runner
  <2> HIDE DEF grid, turn, stage
  <2>7. /\ chase' \in Chases
        /\ chase'.stage = stage /\ chase'.at = chase.at + 1 /\ chase'.grid = grid
        /\ chase'.turn = turn
    BY <2>2, <2>3, <2>5, <2>6 DEF Chases
  <2>8. SameRun(chase', chase)
    <3>1. chase'.runner = chase.runner /\ chase'.choice = chase.choice /\ chase'.path = chase.path
      BY <2>2, <2>3 DEF Chases
    <3> QED
      BY <3>1 DEF SameRun
  <2>9. ChaseOn(shown, chase') /\ HuntGoesOn(shown, chase')
    BY <2>1, <2>3, <2>4, <2>6, <2>7, <2>8, RunnerMovesOn DEF stage
  <2> QED
    BY <2>1, <2>9 DEF ChaseSound
<1>5. ASSUME WaitElsewhere
      PROVE  ChaseSound'
  <2>1. /\ chase.stage = "running" /\ chase.turn # chase.runner.owner /\ shown' = shown
        /\ chase' = [chase EXCEPT !.turn = chase.runner.owner]
    BY <1>5 DEF WaitElsewhere, Runner
  <2>2. /\ GameShown(shown) /\ chase \in Chases
        /\ ChaseOn(shown, chase) /\ HuntGoesOn(shown, chase)
    BY <1>3, <2>1
  <2>3. chase.runner.owner \in Players
    BY <2>2, ChasesAreRecords
  <2>4. /\ chase' \in Chases /\ chase'.stage = chase.stage /\ chase'.at = chase.at
        /\ chase'.grid = chase.grid /\ chase'.turn = chase.runner.owner
    BY <2>1, <2>2, <2>3 DEF Chases
  <2>5. chase'.runner = chase.runner /\ chase'.choice = chase.choice /\ chase'.path = chase.path
    BY <2>1, <2>2 DEF Chases
  <2>6. ChaseOn(shown, chase') /\ HuntGoesOn(shown, chase')
    BY <2>1, <2>2, <2>4, <2>5, EnemyWaits DEF SameRun
  <2> QED
    BY <2>1, <2>6 DEF ChaseSound
<1>6. ASSUME NEW s \in Squares, NEW to \in Squares, chase # NoChase,
             Intercept(Walker(chase.grid, s), to)
      PROVE  ChaseSound'
  <2> DEFINE p == Walker(chase.grid, s)
             grid == MovedOn(p.from, to)
             stage == IF to = Standing THEN "caught" ELSE chase.stage
  <2>1. /\ chase.stage = "running" /\ chase.turn # chase.runner.owner /\ shown' = shown
        /\ p \in walkersOn(chase.grid) /\ p.owner # chase.runner.owner
        /\ p.piece = predatorOf(chase.runner.piece)
        /\ to \in stepTargets(chase.grid, p.from, p.owner, p.piece)
        /\ chase' = [chase EXCEPT !.grid = grid, !.turn = chase.runner.owner, !.stage = stage]
    BY <1>6 DEF Intercept, Runner
  <2>2. /\ GameShown(shown) /\ chase \in Chases
        /\ ChaseOn(shown, chase) /\ HuntGoesOn(shown, chase)
    BY <1>3, <2>1
  <2>3. /\ chase.runner.owner \in Players /\ chase.runner.piece \in Pieces
        /\ chase.grid \in [Squares -> Tiles] /\ Manned(chase.grid) /\ chase.turn \in Players
        /\ chase.at \in Nat
    BY <2>2, ChasesAreRecords DEF ChaseOn
  <2>4. p.from = s /\ p.piece = chase.grid[s].occupant /\ p.owner = chase.grid[s].owner
    BY DEF Walker
  <2>5. p.owner \in Players
    BY <2>1, <2>3, WalkersAreRecords
  <2>6. IsPredator(chase.grid[s], chase.runner)
    BY <2>1, <2>3, <2>4, <2>5 DEF IsPredator, opposingColor
  <2>7. to \in stepTargets(chase.grid, s, chase.grid[s].owner, chase.grid[s].occupant)
    BY <2>1, <2>4
  <2>8. grid = Landed([mode |-> Infiltration, grid |-> chase.grid, currentTurn |-> chase.turn],
                      s, to)
    BY <2>4 DEF MovedOn
  <2>9. grid \in [Squares -> Tiles]
    <3>1. s # to
      BY <2>7 DEF stepTargets, KingStep
    <3>2. chase.grid[s].occupant # Empty
      BY <2>3, <2>6, KindsOfPieces DEF IsPredator
    <3>3. MovedTo(grid, chase.grid, chase.turn, s, to)
      BY <2>3, <2>8, <3>1, <3>2, MovedOnTheBoard
    <3> QED
      BY <3>3 DEF MovedTo
  <2>10. stage \in {"running", "home", "caught"}
         /\ stage = IF to = chase.path[chase.at] THEN "caught" ELSE chase.stage
    BY <2>1 DEF Standing
  <2> HIDE DEF p, grid, stage
  <2>11. /\ chase' \in Chases /\ chase'.stage = stage /\ chase'.at = chase.at
         /\ chase'.grid = grid /\ chase'.turn = chase.runner.owner
    BY <2>1, <2>2, <2>3, <2>9, <2>10 DEF Chases
  <2>12. chase'.runner = chase.runner /\ chase'.choice = chase.choice /\ chase'.path = chase.path
    BY <2>1, <2>2 DEF Chases
  <2>13. SameRun(chase', chase)
    BY <2>12 DEF SameRun
  <2>14. /\ chase'.stage = IF to = chase.path[chase.at] THEN "caught" ELSE chase.stage
         /\ chase'.grid = Landed([mode |-> Infiltration, grid |-> chase.grid,
                                  currentTurn |-> chase.turn], s, to)
    BY <2>8, <2>10, <2>11
  <2>15. ChaseOn(shown, chase') /\ HuntGoesOn(shown, chase')
    BY <2>1, <2>2, <2>6, <2>7, <2>11, <2>13, <2>14, PredatorSteps
  <2> QED
    BY <2>1, <2>15 DEF ChaseSound
<1>7. ASSUME UNCHANGED raceVars
      PROVE  ChaseSound'
  <2>1. shown' = shown /\ chase' = chase
    BY <1>7 DEF raceVars
  <2> QED
    BY <2>1 DEF ChaseSound
<1> QED
  BY <1>1, <1>2, <1>4, <1>5, <1>6, <1>7 DEF RaceNext

LEMMA ChaseStaysSound == RaceSpec => []ChaseSound
<1>1. RaceInit => ChaseSound
  BY DEF RaceInit, ChaseSound
<1>2. BoardSound /\ ChaseSound /\ [RaceNext]_raceVars => ChaseSound'
  BY StepKeepsChaseSound
<1> QED
  BY <1>1, <1>2, BoardStaysSound, PTL DEF RaceSpec

\* Every part of the board and of the run keeps its type, whatever is played,
\* drawn and played out on it.
THEOREM RaceTypeIsKept == RaceSpec => []RaceTypeOK
<1>1. BoardSound /\ ChaseSound => RaceTypeOK
  BY DEF BoardSound, GameShown, ChaseSound, ChaseOn, RaceTypeOK
<1> QED
  BY <1>1, BoardStaysSound, ChaseStaysSound, PTL

\* A run drawn as safe move by move is never caught: on every board, from every
\* square, under every reading of the obstacles and against any number of
\* hunters, however they move between its steps.
THEOREM QuietRunsAreNotCaught == RaceSpec => []QuietRunIsNeverCaught
<1>1. BoardSound /\ ChaseSound => QuietRunIsNeverCaught
  <2> SUFFICES ASSUME ChaseSound, chase.stage = "caught",
                      chase.choice.safety = "perStep", TakesNothing, StartIsSafe
               PROVE  FALSE
    BY DEF QuietRunIsNeverCaught
  <2>1. chase # NoChase
    <3>1. chase.stage # "none"
      OBVIOUS
    <3> QED
      BY <3>1 DEF NoChase
  <2>2. QuietRun(shown, chase)
    BY DEF QuietRun, TakesNothing, StartIsSafe
  <2> QED
    BY <2>1, <2>2 DEF ChaseSound, HuntGoesOn
<1> QED
  BY <1>1, BoardStaysSound, ChaseStaysSound, PTL

-----------------------------------------------------------------------------
(* One walk that never looks at a square twice.                            *)

Dawdled(before, n, survivesAt) ==
  {q \in Squares : n \in survivesAt[q] /\ \E f \in before : KingStep(f, q) \/ f = q}

LEMMA DawdlingUnfolds ==
  ASSUME NEW start \in Squares, NEW survivesAt
  PROVE  /\ DawdledTo(start, survivesAt)[0] = {start}
         /\ \A n \in Nat :
              DawdledTo(start, survivesAt)[n + 1]
                = Dawdled(DawdledTo(start, survivesAt)[n], n + 1, survivesAt)
<1> DEFINE Next(n, before) == Dawdled(before, n, survivesAt)
           step == [q \in Nat \X SUBSET Squares |-> Next(q[1], q[2])]
           body(f) == [n \in Nat |-> IF n = 0 THEN {start} ELSE Next(n, f[n - 1])]
           listed(f) ==
             [n \in Nat |->
                IF n = 0 THEN {start}
                ELSE LET before == f[n - 1]
                     IN  {s : s \in {q \in Squares : /\ n \in survivesAt[q]
                                                     /\ \E e \in before : KingStep(e, q) \/ e = q}}]
           at == DawdledTo(start, survivesAt)
<1>0. at = CHOOSE f : f = listed(f)
  BY DEF DawdledTo
<1>1. ASSUME NEW f
      PROVE  listed(f) = body(f)
  <2>1. ASSUME NEW n \in Nat
        PROVE  {s : s \in {q \in Squares : /\ n \in survivesAt[q]
                                           /\ \E e \in f[n - 1] : KingStep(e, q) \/ e = q}}
                 = Next(n, f[n - 1])
    BY DEF Dawdled
  <2> HIDE DEF Next
  <2> QED
    BY <2>1
<1>2. ASSUME NEW n \in Nat, NEW before \in SUBSET Squares
      PROVE  Next(n, before) \in SUBSET Squares
  BY DEF Dawdled
<1>3. {start} \in SUBSET Squares
  OBVIOUS
<1> HIDE DEF Next, at, listed
<1>4. step \in [Nat \X SUBSET Squares -> SUBSET Squares]
  BY <1>2
<1>5. ASSUME NEW n \in Nat, NEW before \in SUBSET Squares
      PROVE  step[<<n, before>>] = Next(n, before)
  OBVIOUS
<1> HIDE DEF step, body
<1>6. PICK f \in [Nat -> SUBSET Squares] : Follows(f, {start}, step)
  BY <1>3, <1>4, RecursionExists
<1> USE DEF body
<1>7. f = body(f)
  <2>1. ASSUME NEW n \in Nat
        PROVE  f[n] = IF n = 0 THEN {start} ELSE Next(n, f[n - 1])
    <3>1. CASE n = 0
      BY <1>6, <3>1 DEF Follows
    <3>2. CASE n # 0
      <4>1. n \in Nat \ {0} /\ n - 1 \in Nat /\ f[n - 1] \in SUBSET Squares
        BY <3>2
      <4> QED
        BY <1>5, <1>6, <3>2, <4>1 DEF Follows
    <3> QED
      BY <3>1, <3>2
  <2> QED
    BY <2>1
<1>8. at = body(at)
  <2> HIDE DEF body
  <2>1. f = listed(f)
    BY <1>1, <1>7
  <2>2. at = listed(at)
    BY <1>0, <2>1
  <2> QED
    BY <1>1, <2>2
<1>9. ASSUME NEW n \in Nat
      PROVE  at[n + 1] = Next(n + 1, at[n])
  <2>1. n + 1 \in Nat /\ n + 1 # 0 /\ (n + 1) - 1 = n
    OBVIOUS
  <2> QED
    BY <1>8, <2>1
<1>10. at[0] = {start}
  BY <1>8
<1> QED
  BY <1>9, <1>10 DEF Next, at

\* The squares the walks of a layer have come to.
Ends(layer) == {Last(p) : p \in layer.walks}

\* As long as nobody has come home: a walk of n steps ends where one that may
\* dawdle can be after n; where one that dawdles is, some walk has ended by then;
\* and a square already looked at is one a walk has come to, unless it was
\* forbidden when it was.
NothingIsMissed(after, at, n, allowedAt) ==
  /\ \A p \in after[n].walks : Last(p) \in at[n] /\ Len(p) = n + 1
  /\ \A s \in at[n] : \E m \in 0..n : s \in Ends(after[m])
  /\ \A s \in after[n].seen :
       \E j \in 0..n : (j = 0 \/ j \in allowedAt[s]) => s \in Ends(after[j])

\* No square forbids a step and allows a later one.
EarlierIsNoWorse(allowedAt) ==
  \A s \in Squares : \A k \in allowedAt[s] : k \in Nat /\ \A j \in 1..k : j \in allowedAt[s]

\* What is known of the layers, and of the dawdling walk.
Layered(after, start, goalRow, allowedAt) ==
  /\ after[0] = FirstLayer(start)
  /\ \A n \in Nat : after[n + 1] = IF Home(after[n], goalRow) # {} THEN after[n]
                                   ELSE Extended(after[n], n + 1, allowedAt)

Dawdles(at, start, allowedAt) ==
  /\ at[0] = {start}
  /\ \A n \in Nat : at[n + 1] = Dawdled(at[n], n + 1, allowedAt)

LEMMA NothingMissed ==
  ASSUME NEW start \in Squares, NEW goalRow, NEW allowedAt, EarlierIsNoWorse(allowedAt),
         NEW after \in [Nat -> LayerSet], Layered(after, start, goalRow, allowedAt),
         NEW at, Dawdles(at, start, allowedAt)
  PROVE  \A n \in Nat : (\A m \in 0..n - 1 : Home(after[m], goalRow) = {})
                          => NothingIsMissed(after, at, n, allowedAt)
<1> DEFINE Good == {n \in Nat : (\A m \in 0..n - 1 : Home(after[m], goalRow) = {})
                                  => NothingIsMissed(after, at, n, allowedAt)}
<1>1. /\ after[0] = FirstLayer(start)
      /\ \A n \in Nat : after[n + 1] = IF Home(after[n], goalRow) # {} THEN after[n]
                                       ELSE Extended(after[n], n + 1, allowedAt)
  BY DEF Layered
<1>2. /\ at[0] = {start}
      /\ \A n \in Nat : at[n + 1] = Dawdled(at[n], n + 1, allowedAt)
  BY DEF Dawdles
<1>3. 0 \in Good
  <2>1. after[0].walks = {<<start>>} /\ after[0].seen = {start}
    BY <1>1, FirstLayerIsALayer
  <2>2. Last(<<start>>) = start /\ Len(<<start>>) = 1
    BY DEF Last
  <2>3. Ends(after[0]) = {start}
    BY <2>1, <2>2 DEF Ends
  <2>4. \A p \in after[0].walks : Last(p) \in at[0] /\ Len(p) = 0 + 1
    BY <1>2, <2>1, <2>2
  <2>5. \A s \in at[0] : \E m \in 0..0 : s \in Ends(after[m])
    BY <1>2, <2>3
  <2>6. \A s \in after[0].seen :
          \E j \in 0..0 : (j = 0 \/ j \in allowedAt[s]) => s \in Ends(after[j])
    BY <2>1, <2>3
  <2> QED
    BY <2>4, <2>5, <2>6 DEF NothingIsMissed
<1>4. ASSUME NEW n \in Nat, n \in Good
      PROVE  n + 1 \in Good
  <2> SUFFICES ASSUME \A m \in 0..(n + 1) - 1 : Home(after[m], goalRow) = {}
               PROVE  NothingIsMissed(after, at, n + 1, allowedAt)
    OBVIOUS
  <2>1. \A m \in 0..n : Home(after[m], goalRow) = {}
    OBVIOUS
  <2>2. NothingIsMissed(after, at, n, allowedAt)
    <3>1. \A m \in 0..n - 1 : m \in 0..n
      OBVIOUS
    <3> QED
      BY <1>4, <2>1, <3>1
  <2>3. ASSUME NEW m \in 0..n
        PROVE  /\ after[m + 1] = Extended(after[m], m + 1, allowedAt)
               /\ after[m] \in LayerSet /\ m \in Nat /\ m + 1 \in 0..n + 1
    BY <1>1, <2>1
  <2>4. n \in 0..n
    OBVIOUS
  <2>5. ASSUME NEW m \in 0..n, NEW f \in Ends(after[m]), NEW s \in Entered(after[m], m + 1, allowedAt),
               KingStep(f, s)
        PROVE  s \in Ends(after[m + 1])
    <3>1. PICK p \in after[m].walks : Last(p) = f
      BY <2>5 DEF Ends
    <3>2. Append(p, s) \in after[m + 1].walks
      <4>1. after[m + 1] = Extended(after[m], m + 1, allowedAt) /\ after[m] \in LayerSet
        BY <2>3
      <4>2. Append(p, s) \in Extended(after[m], m + 1, allowedAt).walks
        BY <2>5, <3>1, <4>1, ExtendedLayer
      <4> QED
        BY <4>1, <4>2
    <3>3. p \in Seq(Squares) /\ s \in Squares
      BY <2>3, <3>1, LayersAreRecords DEF Entered, Fresh
    <3>4. Last(Append(p, s)) = s
      BY <3>3, AppendProperties DEF Last
    <3> QED
      BY <3>2, <3>4 DEF Ends
  <2>6. ASSUME NEW p \in after[n + 1].walks
        PROVE  Last(p) \in at[n + 1] /\ Len(p) = (n + 1) + 1
    <3>1. PICK w \in after[n].walks, s \in Entered(after[n], n + 1, allowedAt) :
            KingStep(Last(w), s) /\ p = Append(w, s)
      <4>1. after[n + 1] = Extended(after[n], n + 1, allowedAt) /\ after[n] \in LayerSet
        BY <2>3, <2>4
      <4>2. p \in Extended(after[n], n + 1, allowedAt).walks
        BY <4>1
      <4> QED
        BY <4>1, <4>2, ExtendedLayer
    <3>2. w \in Seq(Squares) /\ s \in Squares /\ n + 1 \in allowedAt[s]
      BY <2>3, <2>4, <3>1, LayersAreRecords DEF Entered, Fresh
    <3>3. Last(p) = s /\ Len(p) = Len(w) + 1
      BY <3>1, <3>2, AppendProperties DEF Last
    <3>4. Last(w) \in at[n] /\ Len(w) = n + 1
      BY <2>2 DEF NothingIsMissed
    <3>5. s \in at[n + 1]
      BY <1>2, <3>1, <3>2, <3>4 DEF Dawdled
    <3> QED
      BY <3>3, <3>4, <3>5
  <2>7. ASSUME NEW s \in at[n + 1]
        PROVE  \E m \in 0..n + 1 : s \in Ends(after[m])
    <3>1. s \in Squares /\ n + 1 \in allowedAt[s] /\ \E f \in at[n] : KingStep(f, s) \/ f = s
      BY <1>2 DEF Dawdled
    <3>2. PICK f \in at[n] : KingStep(f, s) \/ f = s
      BY <3>1
    <3>3. PICK m \in 0..n : f \in Ends(after[m])
      BY <2>2 DEF NothingIsMissed
    <3>4. CASE f = s
      <4>1. m \in 0..n + 1
        OBVIOUS
      <4> QED
        BY <3>3, <3>4, <4>1
    <3>5. CASE KingStep(f, s) /\ s \notin after[m].seen
      <4>1. m + 1 \in allowedAt[s]
        <5>1. m + 1 \in 1..n + 1
          OBVIOUS
        <5> QED
          BY <3>1, <5>1 DEF EarlierIsNoWorse
      <4>2. s \in Entered(after[m], m + 1, allowedAt)
        <5>1. PICK p \in after[m].walks : Last(p) = f
          BY <3>3 DEF Ends
        <5> QED
          BY <3>1, <3>5, <4>1, <5>1 DEF Entered, Fresh
      <4> QED
        BY <2>3, <2>5, <3>3, <3>5, <4>2
    <3>6. CASE s \in after[m].seen
      <4>2. \A k \in 0..n : s \in after[k].seen => s \in after[n].seen
        <5>1. ASSUME NEW k \in Nat, k + 1 <= n, s \in after[k].seen
              PROVE  s \in after[k + 1].seen
          <6>1. k \in 0..n
            BY <5>1
          <6> QED
            BY <2>3, <5>1, <6>1, ExtendedLayer
        <5> DEFINE T(k) == {i \in Nat : k + i <= n => s \in after[k + i].seen}
        <5>2. ASSUME NEW k \in 0..n, s \in after[k].seen
              PROVE  s \in after[n].seen
          <6>1. 0 \in T(k)
            BY <5>2
          <6>2. ASSUME NEW i \in Nat, i \in T(k)
                PROVE  i + 1 \in T(k)
            <7>1. k + (i + 1) = (k + i) + 1 /\ k + i \in Nat
              OBVIOUS
            <7> QED
              BY <5>1, <6>2, <7>1
          <6> HIDE DEF T
          <6>3. Nat \subseteq T(k)
            BY <6>1, <6>2, SetInduction
          <6>4. n - k \in T(k) /\ k + (n - k) = n
            BY <6>3
          <6> QED
            BY <6>4 DEF T
        <5> QED
          BY <5>2
      <4>3. PICK j \in 0..n : (j = 0 \/ j \in allowedAt[s]) => s \in Ends(after[j])
        BY <2>2, <3>6, <4>2 DEF NothingIsMissed
      <4>4. j = 0 \/ j \in allowedAt[s]
        <5>1. j = 0 \/ j \in 1..n + 1
          OBVIOUS
        <5> QED
          BY <3>1, <5>1 DEF EarlierIsNoWorse
      <4>5. j \in 0..n + 1
        OBVIOUS
      <4> QED
        BY <4>3, <4>4, <4>5
    <3> QED
      BY <3>2, <3>4, <3>5, <3>6
  <2>8. ASSUME NEW s \in after[n + 1].seen
        PROVE  \E j \in 0..n + 1 : (j = 0 \/ j \in allowedAt[s]) => s \in Ends(after[j])
    <3>1. after[n + 1].seen = after[n].seen \cup Fresh(after[n])
      BY <2>3, <2>4, ExtendedLayer
    <3>2. CASE s \in after[n].seen
      <4>1. PICK j \in 0..n : (j = 0 \/ j \in allowedAt[s]) => s \in Ends(after[j])
        BY <2>2, <3>2 DEF NothingIsMissed
      <4>2. j \in 0..n + 1
        OBVIOUS
      <4> QED
        BY <4>1, <4>2
    <3>3. CASE s \in Fresh(after[n])
      <4>1. n + 1 \in 0..n + 1 /\ n + 1 # 0
        OBVIOUS
      <4>2. ASSUME n + 1 \in allowedAt[s]
            PROVE  s \in Ends(after[n + 1])
        <5>1. s \in Entered(after[n], n + 1, allowedAt)
          BY <3>3, <4>2 DEF Entered
        <5>2. PICK p \in after[n].walks : KingStep(Last(p), s)
          BY <3>3 DEF Fresh
        <5>3. Last(p) \in Ends(after[n])
          BY <5>2 DEF Ends
        <5> QED
          BY <2>4, <2>5, <5>1, <5>2, <5>3
      <4> QED
        BY <4>1, <4>2
    <3> QED
      BY <3>1, <3>2, <3>3
  <2> QED
    BY <2>6, <2>7, <2>8 DEF NothingIsMissed
<1> HIDE DEF Good
<1>5. Nat \subseteq Good
  BY <1>3, <1>4, SetInduction
<1> QED
  BY <1>5 DEF Good

\* The steps at which a walk that may dawdle can come home.
HomeAt(at, goalRow) == {n \in Steps : \E s \in at[n] : s[2] = goalRow}

LEMMA LayersStand ==
  ASSUME NEW start \in Squares, NEW goalRow, NEW allowedAt,
         NEW after, Layered(after, start, goalRow, allowedAt),
         NEW h \in Nat, Home(after[h], goalRow) # {}
  PROVE  \A n \in Nat : h <= n => after[n] = after[h]
<1> DEFINE Standing0 == {i \in Nat : after[h + i] = after[h]}
<1>1. 0 \in Standing0
  OBVIOUS
<1>2. ASSUME NEW i \in Nat, i \in Standing0
      PROVE  i + 1 \in Standing0
  <2>1. h + i \in Nat /\ (h + i) + 1 = h + (i + 1) /\ after[h + i] = after[h]
    BY <1>2
  <2>2. after[(h + i) + 1] = after[h + i]
    BY <2>1 DEF Layered
  <2> QED
    BY <2>1, <2>2
<1> HIDE DEF Standing0
<1>3. Nat \subseteq Standing0
  BY <1>1, <1>2, SetInduction
<1>4. ASSUME NEW n \in Nat, h <= n
      PROVE  after[n] = after[h]
  <2>1. n - h \in Nat /\ h + (n - h) = n
    BY <1>4
  <2> QED
    BY <1>3, <2>1 DEF Standing0
<1> QED
  BY <1>4

LEMMA FirstHomeIsFirst ==
  ASSUME NEW start \in Squares, NEW goalRow, start[2] # goalRow,
         NEW allowedAt, EarlierIsNoWorse(allowedAt)
  PROVE  LET home == HomeAt(DawdledTo(start, allowedAt), goalRow)
         IN  RunLength(boundedWalk(start, goalRow, allowedAt))
               = IF home = {} THEN NoRun ELSE MinOf(home)
<1> DEFINE after == Layers(start, goalRow, allowedAt)
           at == DawdledTo(start, allowedAt)
           home == HomeAt(at, goalRow)
           all == Width * Height
           runs == boundedWalk(start, goalRow, allowedAt)
           K == {n \in 0..all : Home(after[n], goalRow) # {}}
<1>1. all \in Nat /\ Steps = 1..all
  BY BoardAssumption DEF Steps
<1>2. runs = Home(after[all], goalRow)
  BY DEF boundedWalk
<1>3. after \in [Nat -> LayerSet]
  BY LayersUnfold
<1>4. Layered(after, start, goalRow, allowedAt)
  BY LayersUnfold DEF Layered
<1>5. Dawdles(at, start, allowedAt)
  BY DawdlingUnfolds DEF Dawdles
<1> HIDE DEF after, at, runs
<1>6. ASSUME NEW n \in Nat, \A m \in 0..n - 1 : Home(after[m], goalRow) = {}
      PROVE  NothingIsMissed(after, at, n, allowedAt)
  BY <1>3, <1>4, <1>5, <1>6, NothingMissed
<1>7. Home(after[0], goalRow) = {}
  <2>1. after[0].walks = {<<start>>} /\ Last(<<start>>) = start
    BY <1>4, FirstLayerIsALayer DEF Layered, Last
  <2> QED
    BY <2>1 DEF Home
<1>8. ASSUME NEW n \in Nat, \A m \in 0..n - 1 : Home(after[m], goalRow) = {},
             NEW s \in at[n], s[2] = goalRow
      PROVE  Home(after[n], goalRow) # {}
  <2>1. PICK m \in 0..n : s \in Ends(after[m])
    BY <1>6, <1>8 DEF NothingIsMissed
  <2>2. Home(after[m], goalRow) # {}
    BY <1>8, <2>1 DEF Ends, Home
  <2>3. m = n
    <3>1. m # n => m \in 0..n - 1
      OBVIOUS
    <3> QED
      BY <1>8, <2>2, <3>1
  <2> QED
    BY <2>2, <2>3
<1>9. ASSUME NEW n \in home, \A m \in 0..n - 1 : m \notin K
      PROVE  n \in K
  <2>1. n \in 1..all /\ n \in Nat /\ n \in 0..all
    BY <1>1 DEF HomeAt
  <2>2. PICK s \in at[n] : s[2] = goalRow
    BY DEF HomeAt
  <2>3. ASSUME NEW m \in 0..n - 1
        PROVE  Home(after[m], goalRow) = {}
    <3>1. m \in 0..all /\ m \notin K
      BY <1>1, <1>9, <2>1
    <3> QED
      BY <3>1
  <2>4. Home(after[n], goalRow) # {}
    BY <1>8, <2>1, <2>2, <2>3
  <2> QED
    BY <2>1, <2>4
<1>10. K \subseteq Nat /\ home \subseteq Nat
  BY <1>1 DEF HomeAt
<1>11. CASE K = {}
  <2>1. runs = {}
    <3>1. all \in 0..all
      BY <1>1
    <3> QED
      BY <1>2, <1>11, <3>1
  <2>2. home = {}
    BY <1>9, <1>11
  <2> QED
    BY <2>1, <2>2 DEF RunLength, at, runs
<1>12. CASE K # {}
  <2>1. PICK h \in K : \A k \in K : h <= k
    BY <1>10, <1>12, SetHasLeast
  <2>2. h \in Nat /\ h <= all /\ Home(after[h], goalRow) # {}
    BY <1>1, <2>1
  <2>3. h # 0 /\ h \in 1..all
    BY <1>1, <1>7, <2>2
  <2>4. \A m \in 0..h - 1 : m \notin K
    BY <2>1, <2>2
  <2>5. \A m \in 0..h - 1 : Home(after[m], goalRow) = {}
    <3>1. \A m \in 0..h - 1 : m \in 0..all
      BY <1>1, <2>2
    <3> QED
      BY <2>4, <3>1
  <2>6. NothingIsMissed(after, at, h, allowedAt)
    BY <1>6, <2>2, <2>5
  <2>7. runs = Home(after[h], goalRow)
    BY <1>1, <1>2, <1>4, <2>2, LayersStand
  <2>8. RunLength(runs) = h
    <3>1. \A p \in runs : Len(p) = h + 1
      BY <2>6, <2>7 DEF NothingIsMissed, Home
    <3>2. PICK p \in runs : p = CHOOSE q \in runs : TRUE
      BY <2>2, <2>7
    <3>3. RunLength(runs) = Len(p) - 1
      BY <2>2, <2>7, <3>2 DEF RunLength, Moves
    <3> QED
      BY <2>2, <3>1, <3>3
  <2>9. h \in home
    <3>1. PICK p \in after[h].walks : Last(p)[2] = goalRow
      BY <2>2 DEF Home
    <3>2. Last(p) \in at[h]
      BY <2>6 DEF NothingIsMissed
    <3> QED
      BY <1>1, <2>3, <3>1, <3>2 DEF HomeAt
  <2>10. \A n \in home : h <= n
    <3> SUFFICES ASSUME NEW n \in home, n < h
                 PROVE  FALSE
      BY <1>10, <2>2
    <3>1. \A m \in 0..n - 1 : m \in 0..h - 1
      BY <1>10, <2>2
    <3>2. n \in K
      BY <1>9, <2>4, <3>1
    <3> QED
      BY <1>10, <2>1, <2>2, <3>2
  <2> HIDE DEF home
  <2>11. MinOf(home) \in home /\ MinOf(home) <= h
    BY <1>10, <2>9, LeastIsMinOf
  <2>12. MinOf(home) = h
    <3>1. MinOf(home) \in Nat
      BY <1>10, <2>11
    <3> QED
      BY <2>2, <2>10, <2>11, <3>1
  <2> QED
    BY <2>8, <2>9, <2>12 DEF home, at, runs
<1> QED
  BY <1>11, <1>12

\* The steps at which a piece may enter a square move by move, counted in the
\* enemy's moves.
LEMMA SurvivedSteps ==
  ASSUME NEW w, NEW choice, choice.safety = "perStep"
  PROVE  LET threat == threatMap(shown.grid, w, choice.obstacles)
             passable == passableFor(shown.grid, w, choice.obstacles)
             enemyMoves(k) == IF w.owner = shown.currentTurn THEN k - 1 ELSE k
         IN  StepwiseAllowed(shown.grid, w, goalRowFor(w.owner), DrawnWith(w, choice), threat)
               = [s \in Squares |->
                    {k \in Steps : /\ s \in passable
                                   /\ \/ choice.goalEndsGame /\ s[2] = goalRowFor(w.owner)
                                      \/ threat[s] > enemyMoves(k) + 1}]
<1> DEFINE threat == threatMap(shown.grid, w, choice.obstacles)
           enemyMoves(k) == IF w.owner = shown.currentTurn THEN k - 1 ELSE k
           options == DrawnWith(w, choice)
<1>1. /\ options.obstacles = choice.obstacles /\ options.safety = "perStep"
      /\ options.goalEndsGame = choice.goalEndsGame
      /\ options.walkerToMove = (w.owner = shown.currentTurn)
  BY DEF DrawnWith
<1>2. \A k \in Steps : k \in Int
  BY BoardAssumption DEF Steps
<1> HIDE DEF options, threat
<1>3. ASSUME NEW s \in Squares, NEW k \in Steps
      PROVE  safeAtStep(threat[s], k, options.walkerToMove) <=> threat[s] > enemyMoves(k) + 1
  <2>1. CASE w.owner = shown.currentTurn
    <3>1. k + 0 = enemyMoves(k) + 1
      BY <1>2, <2>1
    <3> QED
      BY <1>1, <2>1, <3>1 DEF safeAtStep
  <2>2. CASE w.owner # shown.currentTurn
    <3>1. k + 1 = enemyMoves(k) + 1
      BY <2>2
    <3> QED
      BY <1>1, <2>2, <3>1 DEF safeAtStep
  <2> QED
    BY <2>1, <2>2
<1> HIDE DEF enemyMoves
<1>4. ASSUME NEW s \in Squares
      PROVE  {k \in Steps : /\ s \in passableFor(shown.grid, w, options.obstacles)
                            /\ \/ options.safety = "off"
                               \/ options.goalEndsGame /\ s[2] = goalRowFor(w.owner)
                               \/ safeAtStep(threat[s], k, options.walkerToMove)}
               = {k \in Steps : /\ s \in passableFor(shown.grid, w, choice.obstacles)
                                /\ \/ choice.goalEndsGame /\ s[2] = goalRowFor(w.owner)
                                   \/ threat[s] > enemyMoves(k) + 1}
  BY <1>1, <1>3
<1>5. StepwiseAllowed(shown.grid, w, goalRowFor(w.owner), options, threat)
        = [s \in Squares |->
             {k \in Steps : /\ s \in passableFor(shown.grid, w, choice.obstacles)
                            /\ \/ choice.goalEndsGame /\ s[2] = goalRowFor(w.owner)
                               \/ threat[s] > enemyMoves(k) + 1}]
  BY <1>4 DEF StepwiseAllowed
<1> QED
  BY <1>5 DEF threat, options, enemyMoves

\* Coming to a square later is never better.
LEMMA LaterIsNoBetter ==
  ASSUME NEW grid, NEW w, NEW goalRow, NEW options, NEW obstacles
  PROVE  EarlierIsNoWorse(StepwiseAllowed(grid, w, goalRow, options, threatMap(grid, w, obstacles)))
<1> DEFINE threat == threatMap(grid, w, obstacles)
           allowed == StepwiseAllowed(grid, w, goalRow, options, threat)
<1>1. \A s \in Squares : threat[s] \in Nat
  BY ThreatMaps
<1>2. Width * Height \in Nat /\ Steps = 1..Width * Height
  BY BoardAssumption DEF Steps
<1> HIDE DEF threat
<1>3. ASSUME NEW s \in Squares, NEW k \in allowed[s]
      PROVE  k \in Nat /\ \A j \in 1..k : j \in allowed[s]
  <2>1. /\ k \in Steps /\ s \in passableFor(grid, w, options.obstacles)
        /\ \/ options.safety = "off"
           \/ options.goalEndsGame /\ s[2] = goalRow
           \/ safeAtStep(threat[s], k, options.walkerToMove)
    BY DEF StepwiseAllowed
  <2>2. ASSUME NEW j \in 1..k
        PROVE  j \in allowed[s]
    <3>1. j \in Steps
      BY <1>2, <2>1
    <3>2. safeAtStep(threat[s], k, options.walkerToMove)
            => safeAtStep(threat[s], j, options.walkerToMove)
      BY <1>1, <1>2, <2>1 DEF safeAtStep
    <3> QED
      BY <2>1, <3>1, <3>2 DEF StepwiseAllowed
  <2> QED
    BY <1>2, <2>1, <2>2
<1> HIDE DEF allowed
<1>4. EarlierIsNoWorse(allowed)
  BY <1>3 DEF EarlierIsNoWorse
<1> QED
  BY <1>4 DEF allowed, threat

\* One walk that asks about every square once finds the run there is, and the
\* shortest, for every piece and every setting that is judged move by move.
THEOREM OneWalkIsEnough == RaceSpec => []OneWalkFindsTheRun
<1>1. OneWalkFindsTheRun
  <2> SUFFICES ASSUME NEW w \in walkersOn(shown.grid), NEW choice \in RunChoices,
                      choice.safety = "perStep", w.from[2] # goalRowFor(w.owner)
               PROVE  LET threat == threatMap(shown.grid, w, choice.obstacles)
                          passable == passableFor(shown.grid, w, choice.obstacles)
                          enemyMoves(k) == IF w.owner = shown.currentTurn THEN k - 1 ELSE k
                          survivesAt ==
                            Table([s \in Squares |->
                               {k \in Steps : /\ s \in passable
                                              /\ \/ choice.goalEndsGame /\ s[2] = goalRowFor(w.owner)
                                                 \/ threat[s] > enemyMoves(k) + 1}])
                          at == DawdledTo(w.from, survivesAt)
                          home == {n \in Steps : \E s \in at[n] : s[2] = goalRowFor(w.owner)}
                      IN  RunLength(DrawnRuns(w, choice)) = IF home = {} THEN NoRun ELSE MinOf(home)
    BY Zenon DEF OneWalkFindsTheRun
  <2> DEFINE threat == threatMap(shown.grid, w, choice.obstacles)
             passable == passableFor(shown.grid, w, choice.obstacles)
             enemyMoves(k) == IF w.owner = shown.currentTurn THEN k - 1 ELSE k
             survivesAt ==
               Table([s \in Squares |->
                  {k \in Steps : /\ s \in passable
                                 /\ \/ choice.goalEndsGame /\ s[2] = goalRowFor(w.owner)
                                    \/ threat[s] > enemyMoves(k) + 1}])
             at == DawdledTo(w.from, survivesAt)
             home == {n \in Steps : \E s \in at[n] : s[2] = goalRowFor(w.owner)}
             row == goalRowFor(w.owner)
             options == DrawnWith(w, choice)
             allowed == StepwiseAllowed(shown.grid, w, row, options, threat)
  <2>1. survivesAt = allowed
    <3> DEFINE entries == [s \in Squares |->
                             {k \in Steps : /\ s \in passable
                                            /\ \/ choice.goalEndsGame /\ s[2] = goalRowFor(w.owner)
                                               \/ threat[s] > enemyMoves(k) + 1}]
    <3>1. allowed = entries
      BY SurvivedSteps
    <3> HIDE DEF entries
    <3>2. Table(entries) = entries
      BY TableIs
    <3> QED
      BY <3>1, <3>2 DEF entries
  <2>2. options.safety # "wholeRun"
    BY DEF DrawnWith
  <2>3. DrawnRuns(w, choice) = boundedWalk(w.from, row, allowed)
    <3>1. DrawnRuns(w, choice) = safeRun(shown.grid, w, row, options, threat)
      BY DEF DrawnRuns
    <3> HIDE DEF options, threat, row
    <3> QED
      BY <2>2, <3>1, SafeRunsMoveByMove
  <2>4. w.from \in Squares
    BY WalkersStandOnSquares
  <2>5. home = HomeAt(at, row)
    BY DEF HomeAt
  <2>6. EarlierIsNoWorse(allowed)
    BY LaterIsNoBetter
  <2> HIDE DEF survivesAt, allowed, row
  <2>7. w.from[2] # row
    BY DEF row
  <2>8. RunLength(DrawnRuns(w, choice)) = IF home = {} THEN NoRun ELSE MinOf(home)
    <3> HIDE DEF home
    <3>1. HomeAt(at, row) = HomeAt(DawdledTo(w.from, allowed), row)
      BY <2>1
    <3> QED
      BY <2>3, <2>4, <2>5, <2>6, <2>7, <3>1, FirstHomeIsFirst
  <2> QED
    BY <2>8 DEF survivesAt, row
<1> QED
  BY <1>1, PTL

-----------------------------------------------------------------------------
(* The racer's scores.                                                     *)

\* What a reading of a side is, and how far one side is ahead in it.
Reading(r) ==
  /\ r.blockedDistance \in Nat \cup {NoRun} /\ r.safeDistance \in Nat \cup {NoRun}
  /\ r.clearDistance \in Nat \cup {NoRun}
  /\ r.safeRunners \in Nat /\ r.safeRunners <= Width * Height

Lead(mine, theirs) ==
  Weight.clear * (distanceValue(theirs.clearDistance) - distanceValue(mine.clearDistance))
    + Weight.safe * (distanceValue(theirs.safeDistance) - distanceValue(mine.safeDistance))
    + Weight.progress * (distanceValue(theirs.blockedDistance) - distanceValue(mine.blockedDistance))
    + Weight.runners * (mine.safeRunners - theirs.safeRunners)

LEMMA DistanceValues ==
  ASSUME NEW d \in Nat \cup {NoRun}
  PROVE  distanceValue(d) \in 0..NO_RUN
  BY DEF distanceValue, NO_RUN, NoRun

LEMMA LeadsAreSmall ==
  ASSUME NEW mine, Reading(mine), NEW theirs, Reading(theirs)
  PROVE  /\ Lead(mine, theirs) \in Int
         /\ 1 - Weight.win < Lead(mine, theirs) /\ Lead(mine, theirs) < Weight.win - 1
<1>1. /\ Weight.clear = 120 /\ Weight.safe = 40 /\ Weight.progress = 8 /\ Weight.runners = 15
      /\ Weight.win = 30000 /\ NO_RUN = 16
  BY DEF Weight, NO_RUN
<1>2. PICK area \in Nat : area = Width * Height
  BY BoardAssumption
<1>3. 15 * area < 30000 - 1 - 16 * 168
  BY <1>1, <1>2, WeightAssumption
<1>4. ASSUME NEW r, Reading(r)
      PROVE  /\ distanceValue(r.clearDistance) \in 0..16 /\ distanceValue(r.safeDistance) \in 0..16
             /\ distanceValue(r.blockedDistance) \in 0..16
  <2>1. /\ r.clearDistance \in Nat \cup {NoRun} /\ r.safeDistance \in Nat \cup {NoRun}
        /\ r.blockedDistance \in Nat \cup {NoRun}
    BY <1>4 DEF Reading
  <2>2. ASSUME NEW d \in Nat \cup {NoRun}
        PROVE  distanceValue(d) \in 0..16
    BY <1>1, DistanceValues
  <2> QED
    BY <2>1, <2>2
<1>5. PICK a \in -16..16 :
        a = distanceValue(theirs.clearDistance) - distanceValue(mine.clearDistance)
  BY <1>4
<1>6. PICK b \in -16..16 :
        b = distanceValue(theirs.safeDistance) - distanceValue(mine.safeDistance)
  BY <1>4
<1>7. PICK c \in -16..16 :
        c = distanceValue(theirs.blockedDistance) - distanceValue(mine.blockedDistance)
  BY <1>4
<1>8. PICK d \in Int : d = mine.safeRunners - theirs.safeRunners /\ -area <= d /\ d <= area
  BY <1>2 DEF Reading
<1>9. Lead(mine, theirs) = 120 * a + 40 * b + 8 * c + 15 * d
  BY <1>1, <1>5, <1>6, <1>7, <1>8 DEF Lead
<1> QED
  BY <1>1, <1>3, <1>8, <1>9

LEMMA ScoresOfReadings ==
  ASSUME NEW pos, NEW color, NEW mine, Reading(mine), NEW theirs, Reading(theirs)
  PROVE  /\ scoreReadings(pos, color, mine, theirs) \in Int
         /\ 1 - Weight.win <= scoreReadings(pos, color, mine, theirs)
         /\ scoreReadings(pos, color, mine, theirs) < Weight.win
         /\ scoreReadings(pos, color, mine, theirs) = 1 - Weight.win
              <=> pos.currentTurn # color /\ theirs.blockedDistance = 1
<1>1. scoreReadings(pos, color, mine, theirs) =
        IF pos.currentTurn # color /\ theirs.blockedDistance = 1 THEN 1 - Weight.win
        ELSE IF pos.currentTurn = color /\ mine.blockedDistance = 1 THEN Weight.win - 1
        ELSE Lead(mine, theirs)
  BY DEF scoreReadings, Lead
<1>2. Weight.win = 30000
  BY DEF Weight
<1> QED
  BY <1>1, <1>2, LeadsAreSmall

\* How many walkers there can be.
LEMMA WalkersAreFew ==
  ASSUME NEW grid, NEW some, some \subseteq walkersOn(grid)
  PROVE  Cardinality(some) \in Nat /\ Cardinality(some) <= Width * Height
<1>1. Cardinality(Squares) = Width * Height
  <2>1. /\ IsFiniteSet(0..Width - 1) /\ Cardinality(0..Width - 1) = Width
        /\ IsFiniteSet(0..Height - 1) /\ Cardinality(0..Height - 1) = Height
    BY BoardAssumption, FS_Interval
  <2>2. PICK columns, rows : columns = 0..Width - 1 /\ rows = 0..Height - 1
    OBVIOUS
  <2>3. /\ IsFiniteSet(columns) /\ Cardinality(columns) = Width
        /\ IsFiniteSet(rows) /\ Cardinality(rows) = Height
    BY <2>1, <2>2
  <2>4. Cardinality(columns \X rows) = Cardinality(columns) * Cardinality(rows)
    BY <2>3, FS_Product
  <2>5. Cardinality(columns \X rows) = Width * Height
    BY <2>3, <2>4, Zenon
  <2> QED
    BY <2>2, <2>5 DEF Squares
<1> DEFINE f == [w \in some |-> w.from]
<1>2. ASSUME NEW w \in some
      PROVE  w.from \in Squares /\ w = Walker(grid, w.from)
  BY WalkersStandOnSquares
<1>3. f \in Injection(some, Squares)
  <2>1. f \in [some -> Squares]
    BY <1>2
  <2>2. ASSUME NEW v \in some, NEW w \in some, f[v] = f[w]
        PROVE  v = w
    BY <1>2, <2>2
  <2> HIDE DEF f
  <2>3. IsInjective(f)
    BY <2>1, <2>2 DEF IsInjective
  <2> QED
    BY <2>1, <2>3 DEF Injection
<1> HIDE DEF f
<1>4. IsFiniteSet(some) /\ Cardinality(some) <= Cardinality(Squares)
  BY <1>3, SquaresAreFinite, FS_Injection
<1> QED
  BY <1>1, <1>4, FS_CardinalityType

LEMMA ShortestIsALength ==
  ASSUME NEW lengths, lengths \subseteq Nat \cup {NoRun}
  PROVE  /\ ShortestOf(lengths) \in Nat \cup {NoRun}
         /\ 0 \notin lengths => (ShortestOf(lengths) = 1 <=> 1 \in lengths)
<1>1. NoRun = -1
  BY DEF NoRun
<1>2. CASE lengths \subseteq {NoRun}
  BY <1>1, <1>2 DEF ShortestOf
<1>3. CASE ~(lengths \subseteq {NoRun})
  <2> DEFINE runs == lengths \ {NoRun}
  <2>1. ShortestOf(lengths) = MinOf(runs)
    BY <1>3 DEF ShortestOf
  <2>2. runs \subseteq Nat /\ runs # {}
    BY <1>3
  <2>3. 1 \in runs <=> 1 \in lengths
    BY <1>1
  <2>4. 0 \in runs <=> 0 \in lengths
    BY <1>1
  <2> HIDE DEF runs
  <2>5. MinOf(runs) \in runs /\ \A k \in runs : MinOf(runs) <= k
    BY <2>2, LeastIsMinOf
  <2>6. MinOf(runs) \in Nat
    BY <2>2, <2>5
  <2>7. 0 \notin runs => (MinOf(runs) = 1 <=> 1 \in runs)
    BY <2>5, <2>6
  <2> QED
    BY <2>1, <2>3, <2>4, <2>6, <2>7
<1> QED
  BY <1>2, <1>3

\* The route of a piece: its run over the board as it stands, nobody moving.
RouteOf(pos, w) ==
  RunLength(safeRun(pos.grid, w, goalRowFor(w.owner),
                    [obstacles |-> "static", safety |-> "off", goalEndsGame |-> TRUE,
                     walkerToMove |-> pos.currentTurn = w.owner],
                    [s \in Squares |-> UNREACHABLE]))

LEMMA ReadingsAreNumbers ==
  ASSUME NEW pos, NEW color
  PROVE  /\ Reading(readRace(pos, color))
         /\ readRace(pos, color).blockedDistance
              = ShortestOf({RouteOf(pos, w) : w \in {v \in walkersOn(pos.grid) : v.owner = color}})
<1> DEFINE mine == {w \in walkersOn(pos.grid) : w.owner = color}
           row == goalRowFor(color)
           options(safety) ==
             [obstacles |-> "static", safety |-> safety, goalEndsGame |-> TRUE,
              walkerToMove |-> pos.currentTurn = color]
           run(w, safety, map) == RunLength(safeRun(pos.grid, w, row, options(safety), map))
           route == [w \in mine |-> run(w, "off", [s \in Squares |-> UNREACHABLE])]
           safe == [w \in mine |-> run(w, "perStep", threatMap(pos.grid, w, "static"))]
           runners == {w \in mine : safe[w] # NoRun}
           routes == {route[w] : w \in mine}
           safes == {safe[w] : w \in mine}
           clears == {run(w, "perStep", clearMap(pos.grid, w, "static")) : w \in runners}
<1>1. readRace(pos, color) =
        [blockedDistance |-> ShortestOf(routes), safeDistance |-> ShortestOf(safes),
         clearDistance |-> ShortestOf(clears), safeRunners |-> Cardinality(runners)]
  BY DEF readRace
<1>2. \A w \in mine : w.from \in Squares
  BY WalkersStandOnSquares
<1>3. ASSUME NEW w \in mine, NEW safety, NEW map
      PROVE  run(w, safety, map) \in Nat \cup {NoRun}
  <2>1. w.from \in Squares
    BY <1>2
  <2> HIDE DEF options
  <2> QED
    BY <2>1, SafeRunLength
<1>4. runners \subseteq mine /\ runners \subseteq walkersOn(pos.grid)
  OBVIOUS
<1>5. routes = {RouteOf(pos, w) : w \in mine}
  <2>1. ASSUME NEW w \in mine
        PROVE  route[w] = RouteOf(pos, w)
    BY DEF RouteOf
  <2> HIDE DEF route, mine
  <2> QED
    BY <2>1
<1> HIDE DEF run, runners
<1>6. routes \subseteq Nat \cup {NoRun} /\ safes \subseteq Nat \cup {NoRun}
  BY <1>3
<1>7. clears \subseteq Nat \cup {NoRun}
  BY <1>3, <1>4
<1> HIDE DEF routes, safes, clears
<1>8. Cardinality(runners) \in Nat /\ Cardinality(runners) <= Width * Height
  BY <1>4, WalkersAreFew
<1>9. /\ readRace(pos, color).blockedDistance = ShortestOf(routes)
      /\ readRace(pos, color).safeDistance = ShortestOf(safes)
      /\ readRace(pos, color).clearDistance = ShortestOf(clears)
      /\ readRace(pos, color).safeRunners = Cardinality(runners)
  BY <1>1
<1>10. Reading(readRace(pos, color))
  BY <1>6, <1>7, <1>8, <1>9, ShortestIsALength DEF Reading
<1> QED
  BY <1>5, <1>9, <1>10

-----------------------------------------------------------------------------
(* The end of a race.                                                      *)

\* Nobody has won a game that is still played.
StillOpen(g) == g.status = InProgress => g.winner = Neutral

\* What a move leaves of a game it does not end.
LEMMA UnendedMoves ==
  ASSUME NEW g, GameShown(g), NEW from \in Squares, NEW to, to \in validMovesFor(g, from),
         applyAnalysisMove(g, from, to).status = InProgress
  PROVE  /\ applyAnalysisMove(g, from, to).winner = g.winner
         /\ applyAnalysisMove(g, from, to).currentTurn = opposingColor(g.currentTurn)
<1> DEFINE moved == Moved(g, from, to)
           mover == g.currentTurn
           decided == ModeEnding(moved, mover, to)
           stuck == StuckEnding(decided, mover)
           quiet == QuietEnding(stuck)
<1>1. mover \in Players
  BY GamesAreRecords DEF GameShown
<1>2. quiet = applyAnalysisMove(g, from, to)
  BY MovesAreMoved
<1>3. moved \in AnalysisGames /\ moved.winner = g.winner
  BY MovedIsAGame
<1>4. moved.currentTurn = opposingColor(g.currentTurn)
  BY MovedIsAGame
<1> HIDE DEF moved, mover
<1>5. /\ decided \in AnalysisGames
      /\ decided.status = InProgress => decided = moved
  BY <1>1, <1>3, ModeEndingIsAGame
<1> HIDE DEF decided
<1>6. stuck.status = InProgress => stuck = decided
  <2> DEFINE lost == [decided EXCEPT !.status = Finished, !.endReason = "stalemate",
                                     !.winner = IF stalemateLoses(decided.mode)
                                                THEN mover ELSE Neutral]
  <2>1. stuck = decided \/ stuck = lost
    BY DEF StuckEnding
  <2>2. lost.status = Finished
    BY <1>5 DEF AnalysisGames
  <2> HIDE DEF stuck, lost
  <2> QED
    BY <2>1, <2>2
<1>7. stuck \in AnalysisGames
  BY <1>1, <1>5, StuckEndingIsAGame
<1> HIDE DEF stuck
<1>8. quiet.status = InProgress => quiet = stuck
  BY <1>7 DEF QuietEnding, AnalysisGames
<1> HIDE DEF quiet
<1> QED
  BY <1>2, <1>3, <1>4, <1>5, <1>6, <1>7, <1>8

\* A race is won by arriving and no other way.
LEMMA RacesAreWonAtHome ==
  ASSUME NEW g, GameShown(g), g.mode = Infiltration, g.winner = Neutral,
         NEW from \in Squares, NEW to, to \in validMovesFor(g, from)
  PROVE  /\ to[2] = goalRowFor(g.currentTurn) =>
              /\ applyAnalysisMove(g, from, to).winner = g.currentTurn
              /\ applyAnalysisMove(g, from, to).status = Finished
         /\ to[2] # goalRowFor(g.currentTurn) =>
              applyAnalysisMove(g, from, to).winner = Neutral
<1> DEFINE moved == Moved(g, from, to)
           mover == g.currentTurn
           decided == ModeEnding(moved, mover, to)
           stuck == StuckEnding(decided, mover)
           quiet == QuietEnding(stuck)
<1>1. mover \in Players /\ to \in Squares
  BY GamesAreRecords, ValidMovesAre DEF GameShown
<1>2. quiet = applyAnalysisMove(g, from, to)
  BY MovesAreMoved
<1>3. moved \in AnalysisGames /\ moved.winner = Neutral /\ moved.mode = Infiltration
  BY MovedIsAGame
<1> HIDE DEF moved
<1>4. ~Annihilates(moved, mover) /\ ~FillsTheBoard(moved)
  BY <1>3 DEF Annihilates, FillsTheBoard, Infiltration, TotalWar
<1>5. Arrives(moved, mover, to) <=> to[2] = goalRowFor(mover)
  BY <1>1, <1>3, InfiltrationGoals DEF Arrives
<1> HIDE DEF mover
<1>6. decided \in AnalysisGames
  BY <1>1, <1>3, ModeEndingIsAGame
<1>7. CASE to[2] = goalRowFor(mover)
  <2>1. decided = Decided(moved, mover, mover, goalEndReason(moved.mode))
    BY <1>1, <1>5, <1>7, ModeEndings
  <2>2. decided.status = Finished /\ decided.winner = mover
    BY <1>3, <2>1 DEF Decided, AnalysisGames
  <2> HIDE DEF decided
  <2>3. stuck = decided
    BY <2>2 DEF StuckEnding
  <2>4. quiet = decided
    BY <2>2, <2>3 DEF QuietEnding
  <2> HIDE DEF quiet, stuck
  <2> QED
    BY <1>2, <1>7, <2>2, <2>4 DEF mover
<1>8. CASE to[2] # goalRowFor(mover)
  <2>1. decided = moved
    BY <1>1, <1>4, <1>5, <1>8, ModeEndings
  <2>2. decided.winner = Neutral /\ decided.mode = Infiltration
    BY <1>3, <2>1
  <2> HIDE DEF decided
  <2>3. ~stalemateLoses(decided.mode)
    BY <2>2 DEF stalemateLoses, Infiltration, Intransitive
  <2>4. stuck.winner = Neutral
    BY <1>6, <2>2, <2>3 DEF StuckEnding, AnalysisGames
  <2>5. stuck \in AnalysisGames
    BY <1>1, <1>6, StuckEndingIsAGame
  <2> HIDE DEF stuck
  <2>6. quiet.winner = Neutral
    BY <2>4, <2>5 DEF QuietEnding, AnalysisGames
  <2> HIDE DEF quiet
  <2> QED
    BY <1>2, <1>8, <2>6 DEF mover
<1> QED
  BY <1>7, <1>8

\* A race still on, with nobody home.
RaceOn(g) ==
  /\ GameShown(g) /\ g.mode = Infiltration /\ g.status = InProgress
  /\ g.winner = Neutral /\ NobodyHome(g.grid)

LEMMA RacesGoOn ==
  ASSUME NEW g, RaceOn(g), NEW from \in Squares, NEW to, to \in validMovesFor(g, from),
         applyAnalysisMove(g, from, to).status = InProgress
  PROVE  /\ RaceOn(applyAnalysisMove(g, from, to))
         /\ applyAnalysisMove(g, from, to).currentTurn = opposingColor(g.currentTurn)
<1> DEFINE next == applyAnalysisMove(g, from, to)
<1>1. GameShown(g) /\ g.mode = Infiltration /\ g.winner = Neutral /\ NobodyArrived(g)
  BY DEF RaceOn, NobodyArrived
<1>2. GameShown(next) /\ SameBoard(next, Moved(g, from, to))
  BY <1>1, MoveKeepsTheGame
<1>3. next.winner = Neutral /\ next.currentTurn = opposingColor(g.currentTurn)
  BY <1>1, UnendedMoves
<1>4. next.mode = Infiltration
  BY <1>1, <1>2, MovedIsAGame DEF SameBoard
<1>5. NobodyArrived(next)
  BY <1>1, MoveKeepsNobodyArrived
<1> QED
  BY <1>2, <1>3, <1>4, <1>5 DEF RaceOn, NobodyArrived

\* A piece is one move from home when it can step there.
LEMMA RoutesOfOneStep ==
  ASSUME NEW pos, Manned(pos.grid), NEW w \in walkersOn(pos.grid), w.owner \in Players,
         w.from[2] # goalRowFor(w.owner)
  PROVE  /\ RouteOf(pos, w) \in Nat \cup {NoRun} /\ RouteOf(pos, w) # 0
         /\ RouteOf(pos, w) = 1 <=>
              \E to \in stepTargets(pos.grid, w.from, w.owner, w.piece) :
                to[2] = goalRowFor(w.owner)
<1> DEFINE row == goalRowFor(w.owner)
           options == [obstacles |-> "static", safety |-> "off", goalEndsGame |-> TRUE,
                       walkerToMove |-> pos.currentTurn = w.owner]
           flat == [s \in Squares |-> UNREACHABLE]
           allowed == StepwiseAllowed(pos.grid, w, row, options, flat)
           passable == passableFor(pos.grid, w, "static")
           at == DawdledTo(w.from, allowed)
           home == HomeAt(at, row)
<1>1. w.from \in Squares /\ w.piece = pos.grid[w.from].occupant
  BY WalkersStandOnSquares
<1>2. Width * Height \in Nat /\ 1 <= Width * Height /\ Steps = 1..Width * Height
  <2>1. Width \in Nat /\ Height \in Nat /\ Width >= 1 /\ Height >= 1
    BY BoardAssumption
  <2> QED
    BY <2>1 DEF Steps
<1>3. RouteOf(pos, w) = RunLength(safeRun(pos.grid, w, row, options, flat))
  BY DEF RouteOf
<1>4. options.safety = "off" /\ options.obstacles = "static"
  OBVIOUS
<1>5. allowed = [s \in Squares |-> IF s \in passable THEN Steps ELSE {}]
  <2> HIDE DEF options, flat, passable, row
  <2>1. ASSUME NEW s \in Squares
        PROVE  {k \in Steps : /\ s \in passableFor(pos.grid, w, options.obstacles)
                              /\ \/ options.safety = "off"
                                 \/ options.goalEndsGame /\ s[2] = row
                                 \/ safeAtStep(flat[s], k, options.walkerToMove)}
                 = IF s \in passable THEN Steps ELSE {}
    BY <1>4 DEF passable
  <2> QED
    BY <2>1 DEF StepwiseAllowed
<1> HIDE DEF allowed, options, flat
<1>6. EarlierIsNoWorse(allowed)
  BY <1>2, <1>5 DEF EarlierIsNoWorse
<1>7. safeRun(pos.grid, w, row, options, flat) = boundedWalk(w.from, row, allowed)
  BY <1>4, SafeRunsMoveByMove DEF allowed
<1>8. RouteOf(pos, w) = IF home = {} THEN NoRun ELSE MinOf(home)
  <2> HIDE DEF row
  <2>1. w.from[2] # row
    BY DEF row
  <2> QED
    BY <1>1, <1>3, <1>6, <1>7, <2>1, FirstHomeIsFirst
<1>9. home \subseteq Nat /\ 0 \notin home
  BY <1>2 DEF HomeAt
<1>10. 1 \in home <=> \E to \in stepTargets(pos.grid, w.from, w.owner, w.piece) : to[2] = row
  <2>1. at[1] = Dawdled({w.from}, 1, allowed)
    <3>1. at[0] = {w.from} /\ at[0 + 1] = Dawdled(at[0], 0 + 1, allowed)
      BY <1>1, DawdlingUnfolds
    <3> HIDE DEF at
    <3> QED
      BY <3>1
  <2> HIDE DEF at
  <2>2. 1 \in home <=> \E to \in Squares : 1 \in allowed[to] /\ KingStep(w.from, to) /\ to[2] = row
    BY <1>2, <2>1 DEF HomeAt, Dawdled
  <2>3. ASSUME NEW to \in Squares, KingStep(w.from, to)
        PROVE  1 \in allowed[to] <=> to \in stepTargets(pos.grid, w.from, w.owner, w.piece)
    <3>1. 1 \in allowed[to] <=> to \in passable
      BY <1>2, <1>5
    <3>2. to # w.from
      BY <2>3 DEF KingStep
    <3>3. to \in passable <=> \/ pos.grid[to].occupant = Empty
                              \/ /\ pos.grid[to].owner # w.owner
                                 /\ canCapture(w.piece, pos.grid[to].occupant)
      BY <3>2 DEF passableFor
    <3>4. pos.grid[to].occupant = Empty => pos.grid[to].owner # w.owner
      BY DEF Manned
    <3> QED
      BY <2>3, <3>1, <3>3, <3>4 DEF stepTargets
  <2>4. \A to \in stepTargets(pos.grid, w.from, w.owner, w.piece) :
          to \in Squares /\ KingStep(w.from, to)
    BY DEF stepTargets
  <2> HIDE DEF home, row
  <2> QED
    BY <2>2, <2>3, <2>4
<1> HIDE DEF home, row
<1>11. NoRun = -1
  BY DEF NoRun
<1>12. CASE home = {}
  <2>1. RouteOf(pos, w) = NoRun
    BY <1>8, <1>12
  <2> QED
    BY <1>10, <1>11, <1>12, <2>1 DEF row
<1>13. CASE home # {}
  <2>1. MinOf(home) \in home /\ \A k \in home : MinOf(home) <= k
    BY <1>9, <1>13, LeastIsMinOf
  <2>2. RouteOf(pos, w) = MinOf(home) /\ MinOf(home) \in Nat /\ MinOf(home) # 0
    BY <1>8, <1>9, <1>13, <2>1
  <2>3. MinOf(home) = 1 <=> 1 \in home
    BY <2>1, <2>2
  <2> QED
    BY <1>10, <2>2, <2>3 DEF row
<1> QED
  BY <1>12, <1>13

\* A side to move is one move from home when it has a move that wins.
LEMMA OneMoveFromHome ==
  ASSUME NEW pos, RaceOn(pos)
  PROVE  readRace(pos, pos.currentTurn).blockedDistance = 1 <=> WinsAtOnce(pos)
<1> DEFINE color == pos.currentTurn
           row == goalRowFor(color)
           mine == {w \in walkersOn(pos.grid) : w.owner = color}
           routes == {RouteOf(pos, w) : w \in mine}
<1>1. /\ GameShown(pos) /\ pos.mode = Infiltration /\ pos.status = InProgress
      /\ pos.winner = Neutral /\ NobodyHome(pos.grid) /\ Manned(pos.grid) /\ color \in Players
      /\ pos.grid \in [Squares -> Tiles]
  BY GamesAreRecords DEF RaceOn, GameShown
<1>2. ASSUME NEW w \in mine
      PROVE  /\ RouteOf(pos, w) \in Nat \cup {NoRun} /\ RouteOf(pos, w) # 0
             /\ RouteOf(pos, w) = 1 <=>
                  \E to \in stepTargets(pos.grid, w.from, color, w.piece) : to[2] = row
  <2>1. w \in walkersOn(pos.grid) /\ w.owner = color /\ w.from \in Squares
        /\ pos.grid[w.from].owner = color
    BY WalkersStandOnSquares
  <2>2. w.from[2] # goalRowFor(w.owner)
    BY <1>1, <2>1 DEF NobodyHome
  <2> QED
    BY <1>1, <2>1, <2>2, RoutesOfOneStep
<1>3. routes \subseteq Nat \cup {NoRun} /\ 0 \notin routes
  BY <1>2
<1>4. readRace(pos, color).blockedDistance = ShortestOf(routes)
  BY ReadingsAreNumbers
<1>5. ShortestOf(routes) = 1 <=> 1 \in routes
  BY <1>3, ShortestIsALength
<1>6. ASSUME 1 \in routes
      PROVE  WinsAtOnce(pos)
  <2>1. PICK w \in mine : RouteOf(pos, w) = 1
    BY <1>6
  <2>2. PICK to \in stepTargets(pos.grid, w.from, color, w.piece) : to[2] = row
    BY <1>2, <2>1
  <2>3. /\ w.from \in Squares /\ pos.grid[w.from].occupant # Empty
        /\ w.piece = pos.grid[w.from].occupant /\ pos.grid[w.from].owner = color
    BY WalkersStandOnSquares
  <2>4. to \in validMovesFor(pos, w.from) /\ to \in Squares
    BY <1>1, <2>2, <2>3 DEF validMovesFor, stepTargets
  <2>5. applyAnalysisMove(pos, w.from, to).winner = color
    BY <1>1, <2>2, <2>3, <2>4, RacesAreWonAtHome
  <2>6. PICK m : m = <<w.from, to>>
    OBVIOUS
  <2>7. m \in allValidMoves(pos) /\ After(pos, m).winner = color
    BY <2>3, <2>4, <2>5, <2>6 DEF allValidMoves, After
  <2> QED
    BY <2>7 DEF WinsAtOnce
<1>7. ASSUME WinsAtOnce(pos)
      PROVE  1 \in routes
  <2>1. PICK m \in Squares \X Squares :
          m[2] \in validMovesFor(pos, m[1]) /\ After(pos, m).winner = color
    BY <1>7 DEF WinsAtOnce, allValidMoves
  <2>2. PICK from \in Squares, to \in Squares : m[1] = from /\ m[2] = to
    BY <2>1
  <2>3. to \in validMovesFor(pos, from) /\ applyAnalysisMove(pos, from, to).winner = color
    BY <2>1, <2>2 DEF After
  <2>4. to[2] = row
    <3>1. color # Neutral
      BY <1>1
    <3> QED
      BY <1>1, <2>3, <3>1, RacesAreWonAtHome
  <2>5. /\ pos.grid[from].occupant # Empty /\ pos.grid[from].owner = color
        /\ to \in stepTargets(pos.grid, from, color, pos.grid[from].occupant)
    BY <2>3 DEF validMovesFor
  <2>6. PICK w : w = Walker(pos.grid, from)
    OBVIOUS
  <2>7. w \in mine /\ w.from = from /\ w.piece = pos.grid[from].occupant
    BY <2>5, <2>6 DEF walkersOn, Walker
  <2>8. RouteOf(pos, w) = 1
    BY <1>2, <2>4, <2>5, <2>7
  <2> QED
    BY <2>7, <2>8
<1> QED
  BY <1>4, <1>5, <1>6, <1>7

-----------------------------------------------------------------------------
(* What the racer makes of it.                                             *)

LEMMA LeastOfIntegers ==
  ASSUME NEW T, T \subseteq Int, T # {}, NEW low \in Int, \A k \in T : low <= k
  PROVE  MinOf(T) \in T /\ \A k \in T : MinOf(T) <= k
<1> DEFINE U == {k - low : k \in T}
<1>1. U \subseteq Nat /\ U # {}
  <2>1. ASSUME NEW k \in T
        PROVE  k - low \in Nat
    <3>1. k \in Int /\ low <= k
      OBVIOUS
    <3> QED
      BY <3>1
  <2> QED
    BY <2>1
<1>2. PICK u \in U : \A v \in U : u <= v
  <2> HIDE DEF U
  <2> QED
    BY <1>1, SetHasLeast
<1>3. PICK t \in T : u = t - low
  BY <1>2
<1>4. \A k \in T : t <= k
  <2> SUFFICES ASSUME NEW k \in T
               PROVE  t <= k
    OBVIOUS
  <2>1. k - low \in U
    OBVIOUS
  <2>2. t - low <= k - low
    BY <1>2, <1>3, <2>1
  <2> QED
    BY <2>2
<1> QED
  BY <1>4 DEF MinOf

\* What a finished game is worth, and one still played.
LEMMA ScoresAre ==
  ASSUME NEW g, NEW color \in Players
  PROVE  /\ ScoreAfter(g, color) \in Int
         /\ -Weight.win <= ScoreAfter(g, color)
         /\ ScoreAfter(g, color) >= Weight.win <=> g.status = Finished /\ g.winner = color
         /\ ScoreAfter(g, color) <= 1 - Weight.win <=>
              \/ g.status = Finished /\ g.winner = opposingColor(color)
              \/ /\ g.status # Finished /\ g.currentTurn # color
                 /\ readRace(g, opposingColor(color)).blockedDistance = 1
<1> DEFINE mine == readRace(g, color)
           theirs == readRace(g, opposingColor(color))
<1>1. Weight.win = 30000
  BY DEF Weight
<1>2. opposingColor(color) # color
  BY OppositeSides
<1>3. CASE g.status = Finished
  BY <1>1, <1>2, <1>3 DEF ScoreAfter, decidedScore
<1>4. CASE g.status # Finished
  <2>1. ScoreAfter(g, color) = scoreReadings(g, color, mine, theirs)
    BY <1>4 DEF ScoreAfter, scoreRace
  <2>2. Reading(mine) /\ Reading(theirs)
    BY ReadingsAreNumbers
  <2> HIDE DEF mine, theirs
  <2>3. /\ scoreReadings(g, color, mine, theirs) \in Int
        /\ 1 - Weight.win <= scoreReadings(g, color, mine, theirs)
        /\ scoreReadings(g, color, mine, theirs) < Weight.win
        /\ scoreReadings(g, color, mine, theirs) = 1 - Weight.win
             <=> g.currentTurn # color /\ theirs.blockedDistance = 1
    BY <2>2, ScoresOfReadings
  <2> QED
    BY <1>1, <1>4, <2>1, <2>3 DEF theirs
<1> QED
  BY <1>3, <1>4

\* The score of a move, by the worst capture it allows.
Answers(g, m) ==
  {ScoreAfter(After(g, m), g.currentTurn)} \cup CaptureReplies(After(g, m), g.currentTurn)

LEMMA MoveScoresAre ==
  ASSUME NEW g, g.currentTurn \in Players, NEW m
  PROVE  /\ MoveScore(g, m) \in Int
         /\ After(g, m).status = Finished =>
              MoveScore(g, m) = ScoreAfter(After(g, m), g.currentTurn)
         /\ MoveScore(g, m) <= ScoreAfter(After(g, m), g.currentTurn)
         /\ After(g, m).status # Finished => MoveScore(g, m) \in Answers(g, m)
<1> DEFINE next == After(g, m)
           own == ScoreAfter(next, g.currentTurn)
           answers == {own} \cup CaptureReplies(next, g.currentTurn)
<1>1. MoveScore(g, m) = IF next.status = Finished THEN own ELSE MinOf(answers)
  BY DEF MoveScore
<1>2. answers = Answers(g, m)
  BY DEF Answers
<1>3. PICK low \in Int : low = -Weight.win
  BY DEF Weight
<1>4. ASSUME NEW a \in answers
      PROVE  a \in Int /\ low <= a
  <2>1. PICK h : a = ScoreAfter(h, g.currentTurn)
    BY DEF CaptureReplies
  <2> QED
    BY <1>3, <2>1, ScoresAre
<1>5. own \in answers
  OBVIOUS
<1> HIDE DEF next, own, answers
<1>6. MinOf(answers) \in answers /\ \A a \in answers : MinOf(answers) <= a
  <2>1. answers \subseteq Int /\ answers # {}
    BY <1>4, <1>5
  <2> QED
    BY <1>4, <2>1, LeastOfIntegers
<1>7. own \in Int /\ MinOf(answers) \in Int /\ MinOf(answers) <= own
  BY <1>4, <1>5, <1>6
<1> QED
  BY <1>1, <1>2, <1>6, <1>7 DEF own, next

\* The moves of a race, and what each leaves.
LEMMA RaceMoves ==
  ASSUME NEW g, RaceOn(g), NEW m \in allValidMoves(g)
  PROVE  /\ After(g, m).winner \in {g.currentTurn, Neutral}
         /\ After(g, m).winner = g.currentTurn => After(g, m).status = Finished
         /\ After(g, m).status \in {InProgress, Finished}
         /\ After(g, m).status # Finished =>
              RaceOn(After(g, m)) /\ After(g, m).currentTurn = opposingColor(g.currentTurn)
<1>1. PICK from \in Squares, to \in Squares : m = <<from, to>>
  BY DEF allValidMoves
<1>2. to \in validMovesFor(g, from) /\ After(g, m) = applyAnalysisMove(g, from, to)
  BY <1>1 DEF allValidMoves, After
<1>3. GameShown(g) /\ g.mode = Infiltration /\ g.winner = Neutral /\ g.currentTurn \in Players
  BY GamesAreRecords DEF RaceOn, GameShown
<1>4. GameShown(After(g, m))
  BY <1>2, <1>3, MoveKeepsTheGame
<1>5. After(g, m).status \in {InProgress, Finished}
  BY <1>4, GamesAreRecords DEF GameShown
<1>6. After(g, m).status # Finished =>
        RaceOn(After(g, m)) /\ After(g, m).currentTurn = opposingColor(g.currentTurn)
  BY <1>2, <1>5, RacesGoOn
<1>7. /\ After(g, m).winner \in {g.currentTurn, Neutral}
      /\ After(g, m).winner = g.currentTurn => After(g, m).status = Finished
  <2>1. g.currentTurn # Neutral
    BY <1>3
  <2> QED
    BY <1>2, <1>3, <2>1, RacesAreWonAtHome
<1> QED
  BY <1>5, <1>6, <1>7

LEMMA MoversOfRaces ==
  ASSUME NEW g, RaceOn(g)
  PROVE  g.currentTurn \in Players
  BY GamesAreRecords DEF RaceOn, GameShown

LEMMA WinningMovesScoreMost ==
  ASSUME NEW g, RaceOn(g), NEW m \in allValidMoves(g)
  PROVE  MoveScore(g, m) >= Weight.win <=> After(g, m).winner = g.currentTurn
<1>1. g.currentTurn \in Players /\ Weight.win \in Int
  BY MoversOfRaces DEF Weight
<1> DEFINE own == ScoreAfter(After(g, m), g.currentTurn)
<1>2. own \in Int /\ MoveScore(g, m) \in Int /\ MoveScore(g, m) <= own
      /\ (After(g, m).status = Finished => MoveScore(g, m) = own)
  BY <1>1, ScoresAre, MoveScoresAre
<1>3. own >= Weight.win <=> After(g, m).status = Finished /\ After(g, m).winner = g.currentTurn
  BY <1>1, ScoresAre
<1>4. After(g, m).winner = g.currentTurn => After(g, m).status = Finished
  BY RaceMoves
<1> HIDE DEF own
<1> QED
  BY <1>1, <1>2, <1>3, <1>4

\* A move scores a loss exactly when it leaves the opponent a win.
LEMMA LosingMovesScoreLeast ==
  ASSUME NEW g, RaceOn(g), NEW m \in allValidMoves(g)
  PROVE  MoveScore(g, m) <= 1 - Weight.win <=> ~LeavesNoWin(g, m)
<1> DEFINE color == g.currentTurn
           next == After(g, m)
           theirs == opposingColor(color)
           lost == 1 - Weight.win
<1>1. color \in Players /\ Weight.win = 30000 /\ lost \in Int
  BY MoversOfRaces DEF Weight
<1>2. theirs # color /\ theirs # Neutral /\ theirs \in Players /\ opposingColor(theirs) = color
  BY <1>1, OppositeSides
<1>3. LeavesNoWin(g, m) <=> next.status = Finished \/ ~WinsAtOnce(next)
  BY DEF LeavesNoWin
<1>4. next.winner \in {color, Neutral}
  BY RaceMoves
<1>5. next.status # Finished => RaceOn(next) /\ next.currentTurn = theirs
  BY RaceMoves
<1>6. /\ MoveScore(g, m) \in Int
      /\ next.status = Finished => MoveScore(g, m) = ScoreAfter(next, color)
      /\ MoveScore(g, m) <= ScoreAfter(next, color)
      /\ next.status # Finished => MoveScore(g, m) \in Answers(g, m)
  BY <1>1, MoveScoresAre
<1>7. Answers(g, m) = {ScoreAfter(next, color)} \cup CaptureReplies(next, color)
  BY DEF Answers
<1>8. ASSUME NEW h
      PROVE  /\ ScoreAfter(h, color) \in Int
             /\ ScoreAfter(h, color) <= lost <=>
                  \/ h.status = Finished /\ h.winner = theirs
                  \/ /\ h.status # Finished /\ h.currentTurn # color
                     /\ readRace(h, theirs).blockedDistance = 1
  BY <1>1, ScoresAre
<1> HIDE DEF color, next, theirs, lost
<1>9. CASE next.status = Finished
  <2>1. next.winner # theirs
    BY <1>2, <1>4
  <2>2. ~(ScoreAfter(next, color) <= lost)
    BY <1>8, <1>9, <2>1
  <2> QED
    BY <1>3, <1>6, <1>9, <2>2 DEF lost
<1>10. CASE next.status # Finished
  <2>1. RaceOn(next) /\ next.currentTurn = theirs /\ next.currentTurn # color
    BY <1>2, <1>5, <1>10
  <2>2. readRace(next, theirs).blockedDistance = 1 <=> WinsAtOnce(next)
    BY <2>1, OneMoveFromHome
  <2>3. ScoreAfter(next, color) <= lost <=> WinsAtOnce(next)
    BY <1>8, <1>10, <2>1, <2>2
  <2>4. CASE WinsAtOnce(next)
    <3>1. MoveScore(g, m) <= lost
      BY <1>1, <1>6, <1>8, <2>3, <2>4
    <3> QED
      BY <1>3, <1>10, <2>4, <3>1 DEF lost
  <2>5. CASE ~WinsAtOnce(next)
    <3>1. ASSUME NEW r \in allValidMoves(next)
          PROVE  ~(ScoreAfter(After(next, r), color) <= lost)
      <4>1. After(next, r).winner # theirs
        BY <2>1, <2>5, <3>1 DEF WinsAtOnce
      <4>2. After(next, r).status # Finished => After(next, r).currentTurn = opposingColor(theirs)
        BY <2>1, <3>1, RaceMoves
      <4> QED
        BY <1>2, <1>8, <4>1, <4>2
    <3>2. ASSUME NEW a \in Answers(g, m)
          PROVE  ~(a <= lost)
      BY <1>7, <2>3, <2>5, <3>1 DEF CaptureReplies
    <3>3. ~(MoveScore(g, m) <= lost)
      BY <1>6, <1>10, <3>2
    <3> QED
      BY <1>3, <1>10, <2>5, <3>3 DEF lost
  <2> QED
    BY <2>4, <2>5
<1> QED
  BY <1>9, <1>10

\* Nobody has won the game that is shown while it is still played.
LEMMA ShownStaysOpen == RaceSpec => [](BoardSound /\ StillOpen(shown))
<1>1. RaceInit => StillOpen(shown)
  <2> SUFFICES ASSUME RaceInit
               PROVE  shown.winner = Neutral
    BY DEF StillOpen
  <2>1. PICK start \in Starts : shown = start[2]
    BY DEF RaceInit
  <2>2. PICK mode \in Modes, side \in Players, era \in Eras :
          start = <<start[1], newGame(mode, start[2].grid, side, era)>>
    BY StartsAssumption
  <2>3. PICK game, kind : game = newGame(mode, start[2].grid, side, era) /\ kind = start[1]
    OBVIOUS
  <2>4. start = <<kind, game>>
    BY <2>2, <2>3
  <2>5. shown = game
    BY <2>1, <2>4
  <2> QED
    BY <2>3, <2>5 DEF newGame
<1>2. BoardSound /\ StillOpen(shown) /\ [RaceNext]_raceVars => StillOpen(shown)'
  <2> SUFFICES ASSUME BoardSound, StillOpen(shown), [RaceNext]_raceVars
               PROVE  StillOpen(shown')
    OBVIOUS
  <2>1. ASSUME NEW from \in Squares, NEW to \in Squares, Play(from, to)
        PROVE  StillOpen(shown')
    <3>1. /\ to \in validMovesFor(shown, from) /\ GameShown(shown)
          /\ shown' = applyAnalysisMove(shown, from, to)
      BY <2>1 DEF Play, BoardSound
    <3>2. shown.winner = Neutral
      BY <3>1, ValidMovesAre DEF StillOpen
    <3> QED
      BY <3>1, <3>2, UnendedMoves DEF StillOpen
  <2>2. \/ \E from, to \in Squares : Play(from, to)
        \/ UNCHANGED <<source, shown>>
    BY DEF RaceNext, DrawRun, RunOn, Intercept, WaitElsewhere, raceVars
  <2> QED
    BY <2>1, <2>2
<1> QED
  BY <1>1, <1>2, BoardStaysSound, PTL DEF RaceSpec

\* The racer takes a win it has, and leaves the opponent none if any of its
\* moves does: a won move outweighs every race, a lost one is outweighed by all.
THEOREM RacerPlaysTheEnd == RaceSpec => []RacerSeesTheEndOfTheRace
<1>1. BoardSound /\ StillOpen(shown) => RacerSeesTheEndOfTheRace
  <2> SUFFICES ASSUME BoardSound, StillOpen(shown), Racing, source = "opening",
                      NEW best \in bestRaceMoves(shown)
               PROVE  /\ WinsAtOnce(shown) => After(shown, best).winner = shown.currentTurn
                      /\ (\E m \in allValidMoves(shown) : LeavesNoWin(shown, m))
                           => LeavesNoWin(shown, best)
    BY DEF RacerSeesTheEndOfTheRace
  <2>1. RaceOn(shown)
    BY DEF RaceOn, BoardSound, NobodyArrived, StillOpen, Racing
  <2>2. shown.currentTurn \in Players /\ Weight.win = 30000
    BY <2>1, MoversOfRaces DEF Weight
  <2>3. /\ best \in allValidMoves(shown)
        /\ \A m \in allValidMoves(shown) : MoveScore(shown, best) >= MoveScore(shown, m)
    BY DEF bestRaceMoves
  <2>4. \A m \in allValidMoves(shown) : MoveScore(shown, m) \in Int
    BY <2>2, MoveScoresAre
  <2>5. ASSUME WinsAtOnce(shown)
        PROVE  After(shown, best).winner = shown.currentTurn
    <3>1. PICK m \in allValidMoves(shown) : After(shown, m).winner = shown.currentTurn
      BY <2>5 DEF WinsAtOnce
    <3>2. MoveScore(shown, m) >= Weight.win
      BY <2>1, <3>1, WinningMovesScoreMost
    <3>3. MoveScore(shown, best) >= Weight.win
      BY <2>2, <2>3, <2>4, <3>1, <3>2
    <3> QED
      BY <2>1, <2>3, <3>3, WinningMovesScoreMost
  <2>6. ASSUME NEW m \in allValidMoves(shown), LeavesNoWin(shown, m)
        PROVE  LeavesNoWin(shown, best)
    <3>1. ~(MoveScore(shown, m) <= 1 - Weight.win)
      BY <2>1, <2>6, LosingMovesScoreLeast
    <3>2. ~(MoveScore(shown, best) <= 1 - Weight.win)
      BY <2>2, <2>3, <2>4, <2>6, <3>1
    <3> QED
      BY <2>1, <2>3, <3>2, LosingMovesScoreLeast
  <2> QED
    BY <2>5, <2>6
<1> QED
  BY <1>1, ShownStaysOpen, PTL
=============================================================================
