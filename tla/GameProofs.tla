----------------------------- MODULE GameProofs -----------------------------
(***************************************************************************)
(* What holds on every board, under every time control: of a live game, of *)
(* the record it leaves, and of the symmetries of its board.               *)
(***************************************************************************)
EXTENDS GameRecord, GameSymmetry, FiniteSetTheorems, TLAPS

\* The constants keep a clock a natural number: what is added saturates.
LEMMA AddMsType ==
  ASSUME NEW value \in Nat, NEW increment \in Nat
  PROVE  AddMs(value, increment) \in Nat
  BY TimeAssumption DEF AddMs

LEMMA ColorTypes ==
  /\ Players \subseteq Colors
  /\ Neutral \in Colors /\ Neutral \notin Players
  /\ \A c \in Players : OtherColor(c) \in Players /\ OtherColor(c) # c
  /\ None \notin Players
  BY DEF Players, Colors, Red, Blue, Neutral, OtherColor, None

LEMMA OpeningBoardType ==
  ASSUME NEW mode \in Modes
  PROVE  OpeningBoard(mode) \in [Squares -> Tiles]
<1> SUFFICES ASSUME NEW s \in Squares
             PROVE  [occupant |-> Layout[mode][s].occupant,
                     owner |-> Layout[mode][s].owner,
                     ground |-> Layout[mode][s].owner] \in Tiles
  BY DEF OpeningBoard
<1>1. Layout[mode][s] \in Occupants
  BY LayoutAssumption
<1> QED
  BY <1>1, ColorTypes DEF Occupants, Tiles

\* An event takes its numbers from the game it is about.
LEMMA RecordEventType ==
  ASSUME NEW g \in Games,
         NEW kind \in {"move", "draw_offer", "draw_decline", "time_offer",
                       "time_decline", "time_accept", "end"},
         NEW player \in Colors, NEW move \in {NoMove} \cup (Squares \X Squares),
         NEW bonus \in Nat
  PROVE  RecordEvent(g, kind, player, move, bonus) \in Games
<1> DEFINE event ==
       [kind |-> kind, player |-> player, ply |-> g.plies,
        move |-> move, elapsed |-> g.pending, bonus |-> bonus,
        left |-> g.remaining, winner |-> g.winner, reason |-> g.reason]
<1>1. event \in Events
  BY DEF Games, Events
<1>2. Append(g.emitted, event) \in Seq(Events)
  BY <1>1 DEF Games
<1> QED
  BY <1>2 DEF RecordEvent, Games

LEMMA RecordEndType ==
  ASSUME NEW g \in Games, NEW actor \in Colors
  PROVE  RecordEnd(g, actor) \in Games
<1>1. [g EXCEPT !.endRecorded = TRUE] \in Games
  BY DEF Games
<1> QED
  BY <1>1, RecordEventType DEF RecordEnd

LEMMA FinishGameType ==
  ASSUME NEW g \in Games, NEW winner \in Colors, NEW reason \in EndReasons
  PROVE  FinishGame(g, winner, reason) \in Games
  BY ColorTypes DEF FinishGame, Games, Offerers

LEMMA GameFields ==
  ASSUME NEW g \in Games
  PROVE  /\ g.turn \in Players
         /\ g.remaining \in [Players -> Nat]
         /\ g.pending \in Nat
         /\ g.lag \in Int
         /\ g.quiet \in Nat /\ g.plies \in Nat /\ g.moves \in Nat
  BY DEF Games

\* Settling a clock writes these four fields.
LEMMA ChargedType ==
  ASSUME NEW g \in Games, NEW spent \in Nat, NEW left \in [Players -> Nat],
         NEW lag \in Int
  PROVE  [g EXCEPT !.emitted = <<>>, !.pending = spent, !.remaining = left,
                   !.lag = lag] \in Games
<1>1. <<>> \in Seq(Events)
  OBVIOUS
<1> QED
  BY <1>1 DEF Games

LEMMA FreshType ==
  ASSUME NEW g \in Games
  PROVE  [g EXCEPT !.emitted = <<>>] \in Games
<1>1. <<>> \in Seq(Events)
  OBVIOUS
<1> QED
  BY <1>1 DEF Games

LEMMA LagType ==
  ASSUME NEW g \in Games, NEW lag \in Int
  PROVE  [g EXCEPT !.lag = lag] \in Games
  BY DEF Games

\* The clock of a mover whose flag has fallen.
Fallen(g) ==
  [[g EXCEPT !.emitted = <<>>] EXCEPT !.pending = @ + g.remaining[g.turn],
                                      !.remaining[g.turn] = 0, !.lag = 0]

LEMMA FallenFields ==
  ASSUME NEW g \in Games
  PROVE  Fallen(g) \in Games /\ Fallen(g).remaining = [g.remaining EXCEPT ![g.turn] = 0]
<1>1. g.turn \in Players /\ 0 \in Int /\ g.pending + g.remaining[g.turn] \in Nat
  BY GameFields
<1>2. [g.remaining EXCEPT ![g.turn] = 0] \in [Players -> Nat]
  BY GameFields
<1>3. [g EXCEPT !.emitted = <<>>, !.pending = g.pending + g.remaining[g.turn],
                !.remaining = [g.remaining EXCEPT ![g.turn] = 0], !.lag = 0] \in Games
  BY <1>1, <1>2, ChargedType
<1>4. Fallen(g) = [g EXCEPT !.emitted = <<>>, !.pending = g.pending + g.remaining[g.turn],
                            !.remaining = [g.remaining EXCEPT ![g.turn] = 0], !.lag = 0]
  BY DEF Fallen, Games
<1> QED
  BY <1>3, <1>4 DEF Games

LEMMA UpdateClockType ==
  ASSUME NEW g \in Games
  PROVE  UpdateClock(g) \in Games
<1> DEFINE mover == g.turn
           Charged(spent, left, lag) ==
             [g EXCEPT !.emitted = <<>>, !.pending = spent, !.remaining = left,
                       !.lag = lag]
           spent == g.status = InProgress /\ g.lag > 0
<1>1. mover \in Players /\ 0 \in Int
  BY GameFields
<1>2. CASE ~spent
  BY <1>2, FreshType DEF UpdateClock
<1>3. CASE spent /\ g.clockPending
  BY <1>1, <1>3, FreshType, LagType DEF UpdateClock
<1>4. CASE spent /\ ~g.clockPending /\ FlagFalls(g)
  <2>1. UpdateClock(g) = RecordEnd(FinishGame(Fallen(g), OtherColor(mover), "timeout"), mover)
    BY <1>4 DEF UpdateClock, Fallen
  <2> HIDE DEF mover
  <2>2. FinishGame(Fallen(g), OtherColor(mover), "timeout") \in Games
    BY <1>1, FallenFields, ColorTypes, FinishGameType DEF EndReasons
  <2> QED
    BY <1>1, <2>1, <2>2, ColorTypes, RecordEndType
<1>5. CASE spent /\ ~g.clockPending /\ ~FlagFalls(g)
  <2>1. UpdateClock(g) = Charged(g.pending + g.lag,
                                 [g.remaining EXCEPT ![mover] = @ - g.lag], 0)
    <3>1. UpdateClock(g) = [[g EXCEPT !.emitted = <<>>] EXCEPT
                              !.pending = @ + g.lag,
                              !.remaining[mover] = @ - g.lag, !.lag = 0]
      BY <1>5 DEF UpdateClock
    <3> QED
      BY <3>1 DEF Games
  <2>2. /\ g.remaining[mover] \in Nat /\ g.pending \in Nat
        /\ g.lag \in Int /\ g.lag > 0 /\ g.lag < g.remaining[mover]
    BY <1>1, <1>5, GameFields DEF FlagFalls
  <2>3. g.pending + g.lag \in Nat /\ g.remaining[mover] - g.lag \in Nat
    BY <2>2
  <2>4. [g.remaining EXCEPT ![mover] = @ - g.lag] \in [Players -> Nat]
    BY <1>1, <2>3, GameFields
  <2>5. \A left \in [Players -> Nat] : Charged(g.pending + g.lag, left, 0) \in Games
    BY <1>1, <2>3, ChargedType
  <2> HIDE DEF Charged
  <2> QED
    BY <2>1, <2>4, <2>5
<1> QED
  BY <1>2, <1>3, <1>4, <1>5

-----------------------------------------------------------------------------
(* The rules keep a position a position.                                   *)

\* A piece that lands on a board leaves a board, territory included.
LEMMA BoardsType ==
  ASSUME NEW board \in [Squares -> Tiles], NEW player \in Players,
         NEW from \in Squares, NEW to \in Squares, NEW mode
  PROVE  Claimed(mode, MovePiece(board, player, from, to), player, to) \in [Squares -> Tiles]
<1> DEFINE moved == MovePiece(board, player, from, to)
<1>1. moved \in [Squares -> Tiles]
  <2>1. [board[to] EXCEPT !.occupant = board[from].occupant, !.owner = player] \in Tiles
    BY ColorTypes DEF Tiles
  <2>2. ASSUME NEW tile \in Tiles
        PROVE  [tile EXCEPT !.occupant = Empty, !.owner = Neutral] \in Tiles
    BY ColorTypes DEF Tiles
  <2> QED
    BY <2>1, <2>2 DEF MovePiece
<1>2. [moved[to] EXCEPT !.ground = player] \in Tiles
  BY <1>1, ColorTypes DEF Tiles
<1>3. [moved EXCEPT ![to].ground = player] \in [Squares -> Tiles]
  BY <1>1, <1>2
<1> QED
  BY <1>1, <1>3 DEF Claimed

LEMMA VerdictType ==
  ASSUME NEW mode, NEW board, NEW player \in Players, NEW to
  PROVE  Verdict(mode, board, player, to) \in
           [winner : Colors, reason : EndReasons \cup {NoReason}]
  BY ColorTypes DEF Verdict, NotOver, TerritoryWinner, EndReasons, Colors, Players

LEMMA ModeMoveType ==
  ASSUME NEW g \in Games, NEW player \in Players,
         NEW from \in Squares, NEW to \in Squares
  PROVE  ModeMove(g, player, from, to) \in Games
<1> DEFINE board == Claimed(g.mode, MovePiece(g.board, player, from, to), player, to)
           verdict == Verdict(g.mode, board, player, to)
           moved == [g EXCEPT !.board = board, !.moves = @ + 1]
<1>1. g.board \in [Squares -> Tiles] /\ g.moves + 1 \in Nat
  BY GameFields DEF Games
<1>2. board \in [Squares -> Tiles]
  BY <1>1, BoardsType
<1>3. verdict \in [winner : Colors, reason : EndReasons \cup {NoReason}]
  BY VerdictType
<1> HIDE DEF board, verdict
<1>4. moved \in Games
  BY <1>1, <1>2 DEF Games
<1> HIDE DEF moved
<1>5. [moved EXCEPT !.turn = OtherColor(player)] \in Games
  BY <1>4, ColorTypes DEF Games
<1>6. [moved EXCEPT !.status = Finished, !.winner = verdict.winner,
                    !.reason = verdict.reason] \in Games
  BY <1>3, <1>4 DEF Games
<1> QED
  BY <1>5, <1>6 DEF ModeMove, moved, board, verdict

LEMMA StalemateType ==
  ASSUME NEW g \in Games
  PROVE  AdjudicateStalemate(g) \in Games
<1>1. StalemateWinner(g.mode, g.turn) \in Colors
  BY GameFields, ColorTypes DEF StalemateWinner
<1> QED
  BY <1>1, FinishGameType DEF AdjudicateStalemate, EndReasons

LEMMA QuietPlyType ==
  ASSUME NEW g \in Games, NEW captured \in BOOLEAN
  PROVE  CountQuietPly(g, captured) \in Games
<1>1. g.quiet + 1 \in Nat
  BY GameFields
<1>2. [g EXCEPT !.quiet = @ + 1] \in Games /\ [g EXCEPT !.quiet = 0] \in Games
  BY <1>1 DEF Games
<1> QED
  BY <1>2, ColorTypes, FinishGameType DEF CountQuietPly, EndReasons

LEMMA SettledType ==
  ASSUME NEW g \in Games, NEW left \in [Players -> Nat], NEW active \in Colors,
         NEW drawBy \in Offerers, NEW timeBy \in Offerers
  PROVE  [g EXCEPT !.drawBy = drawBy, !.timeBy = timeBy,
                   !.drawUsed = None, !.timeUsed = None,
                   !.clockPending = FALSE, !.remaining = left,
                   !.lag = 0, !.active = active] \in Games
<1>1. None \in Offerers /\ 0 \in Int /\ FALSE \in BOOLEAN
  BY DEF Offerers
<1> QED
  BY <1>1 DEF Games

LEMMA AfterMoveType ==
  ASSUME NEW g \in Games, NEW player \in Players,
         NEW from \in Squares, NEW to \in Squares
  PROVE  AfterMove(g, player, from, to) \in Games
<1> DEFINE captured == g.board[to].occupant # Empty
           played == CountQuietPly(AdjudicateStalemate(ModeMove(g, player, from, to)),
                                   captured)
           over == played.status = Finished
           left == [played.remaining EXCEPT ![player] = AddMs(@, Increment)]
           drawBy == IF over THEN None ELSE StillStanding(g.drawBy, player)
           timeBy == IF over THEN None ELSE played.timeBy
           active == IF over THEN Neutral ELSE played.turn
           settled ==
             [played EXCEPT !.drawBy = drawBy, !.timeBy = timeBy,
                            !.drawUsed = None, !.timeUsed = None,
                            !.clockPending = FALSE, !.remaining = left,
                            !.lag = 0, !.active = active]
<1>1. played \in Games
  BY ModeMoveType, StalemateType, QuietPlyType
<1> HIDE DEF played
<1>2. left \in [Players -> Nat]
  BY <1>1, GameFields, AddMsType, TimeAssumption
<1>3. drawBy \in Offerers
  BY DEF StillStanding, Offerers
<1>4. timeBy \in Offerers
  BY <1>1 DEF Offerers, Games
<1>5. active \in Colors
  BY <1>1, GameFields, ColorTypes
<1> HIDE DEF left, drawBy, timeBy, active
<1>6. settled \in Games
  BY <1>1, <1>2, <1>3, <1>4, <1>5, SettledType DEF Offerers
<1> HIDE DEF settled
<1>7. RecordMove(settled, player, from, to) \in Games
  <2>1. settled.plies + 1 \in Nat
    BY <1>6, GameFields
  <2>2. [settled EXCEPT !.plies = @ + 1] \in Games
    BY <1>6, <2>1 DEF Games
  <2>3. <<from, to>> \in {NoMove} \cup (Squares \X Squares)
    OBVIOUS
  <2> QED
    BY <2>2, <2>3, ColorTypes, RecordEventType DEF RecordMove
<1>8. AfterMove(g, player, from, to) = RecordEnd(RecordMove(settled, player, from, to), player)
  BY DEF AfterMove, settled, left, drawBy, timeBy, active, played
<1> QED
  BY <1>7, <1>8, ColorTypes, RecordEndType

-----------------------------------------------------------------------------
(* Every call keeps a game a game.                                         *)

LEMMA OfferType ==
  ASSUME NEW g \in Games, NEW player \in Players
  PROVE  /\ OfferedDraw(g, player) \in Games
         /\ DeclinedDraw(g, player) \in Games
         /\ OfferedTime(g, player) \in Games
         /\ DeclinedTime(g, player) \in Games
<1>1. player \in Offerers /\ None \in Offerers /\ player \in Colors /\ 0 \in Nat
  BY ColorTypes DEF Offerers
<1>2. /\ [g EXCEPT !.drawBy = player, !.drawUsed = player] \in Games
      /\ [g EXCEPT !.drawBy = None] \in Games
      /\ [g EXCEPT !.timeBy = player, !.timeUsed = player] \in Games
      /\ [g EXCEPT !.timeBy = None] \in Games
  BY <1>1 DEF Games
<1> QED
  BY <1>1, <1>2, RecordEventType
     DEF OfferedDraw, DeclinedDraw, OfferedTime, DeclinedTime

LEMMA AcceptedTimeType ==
  ASSUME NEW g \in Games, NEW player \in Players
  PROVE  AcceptedTime(g, player) \in Games
<1> DEFINE left == [c \in Players |-> AddMs(g.remaining[c], TimeExtension)]
<1>1. left \in [Players -> Nat]
  BY GameFields, AddMsType, TimeAssumption
<1>2. None \in Offerers /\ player \in Colors /\ TimeExtension \in Nat
  BY ColorTypes, TimeAssumption DEF Offerers
<1>3. [g EXCEPT !.timeBy = None, !.remaining = left] \in Games
  <2> HIDE DEF left
  <2> QED
    BY <1>1, <1>2 DEF Games
<1>4. [g EXCEPT !.timeBy = None,
                !.remaining = [c \in Players |-> AddMs(@[c], TimeExtension)]]
        = [g EXCEPT !.timeBy = None, !.remaining = left]
  BY DEF Games
<1> QED
  BY <1>2, <1>3, <1>4, RecordEventType DEF AcceptedTime

LEMMA EndType ==
  ASSUME NEW g \in Games, NEW player \in Players, NEW winner \in Colors
  PROVE  /\ AcceptedDraw(g, player) \in Games
         /\ Resigned(g, player) \in Games
         /\ Abandoned(g, player) \in Games
         /\ Adjudicated(g, winner) \in Games
  BY ColorTypes, FinishGameType, RecordEndType
     DEF AcceptedDraw, Resigned, Abandoned, Adjudicated, EndReasons

LEMMA HeldType ==
  ASSUME NEW g \in Games, NEW span \in Nat
  PROVE  Held(g, span) \in Games
  BY LagType DEF Held

\* The record newGame fills in, before the opening is looked at.
LEMMA OpenedType ==
  ASSUME NEW mode \in Modes, NEW deferred \in BOOLEAN
  PROVE  LET opened ==
               [mode |-> mode, board |-> OpeningBoard(mode), turn |-> FirstToMove, status |-> InProgress,
                winner |-> Neutral, reason |-> NoReason, moves |-> 0,
                drawBy |-> None, drawUsed |-> None, timeBy |-> None, timeUsed |-> None,
                remaining |-> [c \in Players |-> InitialTime],
                active |-> IF deferred THEN Neutral ELSE FirstToMove,
                clockPending |-> deferred,
                quiet |-> 0, plies |-> 0, pending |-> 0, endRecorded |-> FALSE,
                lag |-> 0, emitted |-> <<>>]
         IN  /\ opened \in Games /\ opened.status = InProgress /\ opened.quiet = 0
             /\ opened.active = IF opened.clockPending THEN Neutral ELSE opened.turn
             /\ \A c \in Players : opened.remaining[c] = InitialTime
<1>1. FirstToMove \in Players /\ FirstToMove \in Colors
  BY DEF FirstToMove, Players, Colors
<1>2. [c \in Players |-> InitialTime] \in [Players -> Nat]
  BY TimeAssumption
<1>3. (IF deferred THEN Neutral ELSE FirstToMove) \in Colors
  BY <1>1, ColorTypes
<1>4. <<>> \in Seq(Events) /\ 0 \in Int /\ 0 \in Nat
  OBVIOUS
<1>5. None \in Offerers
  BY DEF Offerers
<1> QED
  BY <1>1, <1>2, <1>3, <1>4, <1>5, ColorTypes, OpeningBoardType DEF Games

LEMMA TimePassesType ==
  ASSUME NEW g \in Games
  PROVE  [g EXCEPT !.lag = @ + 1, !.emitted = <<>>] \in Games
<1>1. g.lag + 1 \in Int /\ <<>> \in Seq(Events)
  BY GameFields
<1> QED
  BY <1>1 DEF Games

-----------------------------------------------------------------------------
(* What is inductive.  The three state properties lean on each other only  *)
(* through the types, but a sum that saturates keeps a clock above zero,   *)
(* and never shrinks it, only where the clock was within the cap before.   *)

Capped(g) == \A c \in Players : g.remaining[c] <= MaxMs

Sound(g) ==
  g \in Games /\ Playable(g) /\ MoverIsTimed(g) /\ NothingStands(g) /\ Capped(g)

\* Whether a side can move is a matter of the board, the turn and the status.
LEMMA HasLegalMoveFrame ==
  ASSUME NEW g, NEW h, h.board = g.board, h.turn = g.turn, h.status = g.status
  PROVE  HasLegalMove(h) <=> HasLegalMove(g)
<1>1. \A from, to : LegalMove(h, h.turn, from, to) <=> LegalMove(g, g.turn, from, to)
  BY DEF LegalMove
<1> QED
  BY <1>1 DEF HasLegalMove, LegalMoves

\* What the four predicates read.
SameGame(g, h) ==
  /\ h.board = g.board /\ h.turn = g.turn /\ h.status = g.status
  /\ h.remaining = g.remaining /\ h.quiet = g.quiet
  /\ h.active = g.active /\ h.clockPending = g.clockPending
  /\ h.drawBy = g.drawBy /\ h.drawUsed = g.drawUsed
  /\ h.timeBy = g.timeBy /\ h.timeUsed = g.timeUsed

LEMMA SameGameSound ==
  ASSUME NEW g, NEW h \in Games, Sound(g), SameGame(g, h)
  PROVE  Sound(h)
<1>1. HasLegalMove(h) <=> HasLegalMove(g)
  BY HasLegalMoveFrame DEF SameGame
<1> QED
  BY <1>1 DEF Sound, SameGame, Playable, MoverIsTimed, NothingStands, Capped

\* The log is beside the point: recording an event leaves a sound game sound.
LEMMA RecordEventSound ==
  ASSUME NEW g, Sound(g),
         NEW kind \in {"move", "draw_offer", "draw_decline", "time_offer",
                       "time_decline", "time_accept", "end"},
         NEW player \in Colors, NEW move \in {NoMove} \cup (Squares \X Squares),
         NEW bonus \in Nat
  PROVE  Sound(RecordEvent(g, kind, player, move, bonus))
<1>1. g \in Games
  BY DEF Sound
<1>2. SameGame(g, RecordEvent(g, kind, player, move, bonus))
  BY <1>1 DEF RecordEvent, SameGame, Games
<1> QED
  BY <1>1, <1>2, RecordEventType, SameGameSound

LEMMA RecordEndSound ==
  ASSUME NEW g, Sound(g), NEW actor \in Colors
  PROVE  Sound(RecordEnd(g, actor))
<1>1. g \in Games
  BY DEF Sound
<1>2. [g EXCEPT !.endRecorded = TRUE] \in Games
  BY <1>1 DEF Games
<1>3. SameGame(g, [g EXCEPT !.endRecorded = TRUE])
  BY <1>1 DEF SameGame, Games
<1>4. Sound([g EXCEPT !.endRecorded = TRUE])
  BY <1>2, <1>3, SameGameSound
<1> QED
  BY <1>4, RecordEventSound DEF RecordEnd

\* Every ending leaves a game in which nothing stands and no clock runs.
LEMMA FinishGameSound ==
  ASSUME NEW g \in Games, Capped(g), NEW winner \in Colors, NEW reason \in EndReasons
  PROVE  Sound(FinishGame(g, winner, reason))
<1> DEFINE h == FinishGame(g, winner, reason)
<1>1. h \in Games
  BY FinishGameType
<1>2. /\ h.status = Finished /\ h.active = Neutral /\ h.remaining = g.remaining
      /\ h.drawBy = None /\ h.drawUsed = None /\ h.timeBy = None /\ h.timeUsed = None
  BY DEF FinishGame, Games
<1> HIDE DEF h
<1>3. Playable(h) /\ MoverIsTimed(h) /\ NothingStands(h) /\ Capped(h)
  BY <1>2 DEF Playable, MoverIsTimed, NothingStands, Capped, InProgress, Finished
<1>4. Sound(h)
  BY <1>1, <1>3 DEF Sound
<1> QED
  BY <1>4 DEF h

LEMMA SoundFields ==
  ASSUME NEW g, Sound(g)
  PROVE  /\ g \in Games
         /\ g.turn \in Players /\ OtherColor(g.turn) \in Colors /\ g.turn \in Colors
         /\ g.remaining \in [Players -> Nat] /\ g.lag \in Int
         /\ \A c \in Players : g.remaining[c] \in Nat /\ g.remaining[c] <= MaxMs
  BY GameFields, ColorTypes DEF Sound, Capped

\* Settling the clock: whoever has run out has lost, and whoever has not still
\* has time.
LEMMA UpdateClockSound ==
  ASSUME NEW g, Sound(g)
  PROVE  Sound(UpdateClock(g))
<1> DEFINE mover == g.turn
           h == UpdateClock(g)
           fresh == [g EXCEPT !.emitted = <<>>]
           spent == g.status = InProgress /\ g.lag > 0
<1>1. g \in Games /\ h \in Games /\ mover \in Players
  BY UpdateClockType, SoundFields
<1>2. CASE ~spent \/ g.clockPending
  <2>1. h = fresh \/ h = [fresh EXCEPT !.lag = 0]
    BY <1>2 DEF UpdateClock
  <2>2. SameGame(g, h)
    <3> HIDE DEF h
    <3> QED
      BY <1>1, <2>1 DEF SameGame, Games
  <2> QED
    BY <1>1, <2>2, SameGameSound
<1>3. CASE spent /\ ~g.clockPending /\ FlagFalls(g)
  <2>1. h = RecordEnd(FinishGame(Fallen(g), OtherColor(mover), "timeout"), mover)
    BY <1>3 DEF UpdateClock, Fallen
  <2>2. Fallen(g) \in Games
    BY <1>1, FallenFields
  <2>3. Fallen(g).remaining = [g.remaining EXCEPT ![mover] = 0]
    BY <1>1, FallenFields
  <2>4. Capped(Fallen(g))
    BY <1>1, <2>3, SoundFields, TimeAssumption DEF Capped
  <2> HIDE DEF mover
  <2>5. Sound(FinishGame(Fallen(g), OtherColor(mover), "timeout"))
    BY <1>1, <2>2, <2>4, ColorTypes, FinishGameSound DEF EndReasons
  <2> QED
    BY <1>1, <2>1, <2>5, ColorTypes, RecordEndSound
<1>4. CASE spent /\ ~g.clockPending /\ ~FlagFalls(g)
  <2>1. h = [fresh EXCEPT !.pending = @ + g.lag, !.remaining[mover] = @ - g.lag,
                          !.lag = 0]
    BY <1>4 DEF UpdateClock
  <2>2. /\ h.board = g.board /\ h.turn = g.turn /\ h.status = g.status
        /\ h.quiet = g.quiet /\ h.active = g.active /\ h.clockPending = g.clockPending
        /\ h.remaining = [g.remaining EXCEPT ![mover] = @ - g.lag]
    BY <1>1, <2>1 DEF Games
  <2> HIDE DEF h
  <2>3. g.lag > 0 /\ g.lag < g.remaining[mover]
    BY <1>1, <1>4, SoundFields DEF FlagFalls
  <2>4. \A c \in Players : h.remaining[c] > 0 /\ h.remaining[c] <= MaxMs
    <3>1. \A c \in Players : g.remaining[c] > 0
      BY <1>4 DEF Sound, Playable
    <3> QED
      BY <1>1, <2>2, <2>3, <3>1, SoundFields, TimeAssumption
  <2>5. HasLegalMove(h) <=> HasLegalMove(g)
    BY <2>2, HasLegalMoveFrame
  <2>6. h.status # Finished
    BY <1>4, <2>2 DEF InProgress, Finished
  <2>7. Playable(h)
    BY <1>4, <2>2, <2>4, <2>5 DEF Sound, Playable
  <2>8. MoverIsTimed(h)
    BY <2>2 DEF Sound, MoverIsTimed
  <2> QED
    BY <1>1, <2>4, <2>6, <2>7, <2>8 DEF Sound, NothingStands, Capped, h
<1> QED
  BY <1>2, <1>3, <1>4

LEMMA CountedFields ==
  ASSUME NEW g \in Games
  PROVE  LET counted == [g EXCEPT !.quiet = @ + 1]
         IN  /\ counted \in Games /\ counted.quiet \in Nat
             /\ counted.status = g.status
             /\ counted.board = g.board /\ counted.turn = g.turn
<1>1. g.quiet + 1 \in Nat
  BY GameFields
<1> QED
  BY <1>1 DEF Games

LEMMA FinishGameFields ==
  ASSUME NEW g \in Games, NEW winner, NEW reason
  PROVE  /\ FinishGame(g, winner, reason).status = Finished
         /\ FinishGame(g, winner, reason).remaining = g.remaining
  BY DEF FinishGame, Games

\* The three endings of a move write no clock.
LEMMA PlayedFrame ==
  ASSUME NEW g \in Games, g.status = InProgress, NEW player \in Players,
         NEW from \in Squares, NEW to \in Squares, NEW captured \in BOOLEAN
  PROVE  LET played == CountQuietPly(AdjudicateStalemate(ModeMove(g, player, from, to)),
                                     captured)
         IN  /\ played.remaining = g.remaining
             /\ played.status = InProgress =>
                  HasLegalMove(played) /\ played.quiet < QuietPlyLimit
<1> DEFINE moved == ModeMove(g, player, from, to)
           stale == AdjudicateStalemate(moved)
           played == CountQuietPly(stale, captured)
<1>1. moved \in Games /\ stale \in Games /\ played \in Games
  BY ModeMoveType, StalemateType, QuietPlyType
<1>2. moved.remaining = g.remaining
  BY DEF ModeMove, Games
<1> HIDE DEF moved
<1>3. stale.remaining = moved.remaining
  BY <1>1 DEF AdjudicateStalemate, FinishGame, Games
<1>4. stale.status = InProgress => HasLegalMove(stale)
  BY <1>1 DEF AdjudicateStalemate, FinishGame, Games, InProgress, Finished
<1> HIDE DEF stale
<1>5. played.remaining = stale.remaining
  BY <1>1 DEF CountQuietPly, FinishGame, Games
<1>6. ASSUME played.status = InProgress
      PROVE  /\ played.board = stale.board /\ played.turn = stale.turn
             /\ played.status = stale.status
             /\ played.quiet < QuietPlyLimit
  <2>1. CASE captured
    <3>1. played = [stale EXCEPT !.quiet = 0]
      BY <2>1 DEF CountQuietPly
    <3> HIDE DEF played
    <3> QED
      BY <1>1, <3>1, LimitAssumption DEF Games
  <2>2. CASE ~captured
    <3> DEFINE counted == [stale EXCEPT !.quiet = @ + 1]
    <3>1. played = IF stale.status = InProgress /\ TooQuiet(counted.quiet)
                   THEN FinishGame(counted, Neutral, "no_capture") ELSE counted
      BY <2>2 DEF CountQuietPly
    <3>2. /\ counted \in Games /\ counted.quiet \in Nat /\ counted.status = stale.status
          /\ counted.board = stale.board /\ counted.turn = stale.turn
      BY <1>1, CountedFields
    <3> HIDE DEF played, counted
    <3>3. FinishGame(counted, Neutral, "no_capture").status # InProgress
      BY <3>2, FinishGameFields DEF InProgress, Finished
    <3>4. played = counted /\ stale.status = InProgress
      BY <1>6, <3>1, <3>2, <3>3
    <3>5. ~TooQuiet(counted.quiet)
      BY <1>6, <3>1, <3>3, <3>4
    <3> QED
      BY <3>2, <3>4, <3>5, LimitAssumption DEF TooQuiet
  <2> QED
    BY <2>1, <2>2
<1>7. played.status = InProgress => HasLegalMove(played) /\ played.quiet < QuietPlyLimit
  <2> HIDE DEF played
  <2> QED
    BY <1>4, <1>6, HasLegalMoveFrame
<1> QED
  BY <1>2, <1>3, <1>5, <1>7 DEF moved, stale

\* Adding time never takes any away, and saturates below the cap.
LEMMA AddMsGrows ==
  ASSUME NEW value \in Nat, value <= MaxMs, NEW increment \in Nat
  PROVE  AddMs(value, increment) >= value /\ AddMs(value, increment) <= MaxMs
  BY TimeAssumption DEF AddMs

LEMMA AfterMoveSound ==
  ASSUME NEW g, Sound(g), g.status = InProgress, NEW player \in Players,
         NEW from \in Squares, NEW to \in Squares
  PROVE  Sound(AfterMove(g, player, from, to))
<1> DEFINE captured == g.board[to].occupant # Empty
           played == CountQuietPly(AdjudicateStalemate(ModeMove(g, player, from, to)),
                                   captured)
           over == played.status = Finished
           left == [played.remaining EXCEPT ![player] = AddMs(@, Increment)]
           drawBy == IF over THEN None ELSE StillStanding(g.drawBy, player)
           timeBy == IF over THEN None ELSE played.timeBy
           active == IF over THEN Neutral ELSE played.turn
           settled ==
             [played EXCEPT !.drawBy = drawBy, !.timeBy = timeBy,
                            !.drawUsed = None, !.timeUsed = None,
                            !.clockPending = FALSE, !.remaining = left,
                            !.lag = 0, !.active = active]
<1>1. g \in Games /\ played \in Games
  BY ModeMoveType, StalemateType, QuietPlyType DEF Sound
<1>2. /\ played.remaining = g.remaining
      /\ played.status = InProgress =>
           HasLegalMove(played) /\ played.quiet < QuietPlyLimit
  BY <1>1, PlayedFrame
<1> HIDE DEF played
<1>3. /\ left \in [Players -> Nat]
      /\ \A c \in Players : left[c] > 0 /\ left[c] <= MaxMs
  <2>1. \A c \in Players : g.remaining[c] > 0
    BY DEF Sound, Playable
  <2>2. /\ AddMs(g.remaining[player], Increment) \in Nat
        /\ AddMs(g.remaining[player], Increment) >= g.remaining[player]
        /\ AddMs(g.remaining[player], Increment) <= MaxMs
    BY SoundFields, AddMsType, AddMsGrows, TimeAssumption
  <2> QED
    BY <1>2, <2>1, <2>2, SoundFields
<1>4. drawBy \in Offerers /\ timeBy \in Offerers /\ active \in Colors
  BY <1>1, GameFields, ColorTypes DEF StillStanding, Offerers, Games
<1> HIDE DEF left
<1>5. settled \in Games
  <2> HIDE DEF drawBy, timeBy, active
  <2> QED
    BY <1>1, <1>3, <1>4, SettledType
<1>6. /\ settled.status = played.status /\ settled.board = played.board
      /\ settled.turn = played.turn /\ settled.quiet = played.quiet
      /\ settled.remaining = left /\ settled.clockPending = FALSE
      /\ settled.active = active /\ settled.drawBy = drawBy /\ settled.timeBy = timeBy
      /\ settled.drawUsed = None /\ settled.timeUsed = None
  BY <1>1 DEF Games
<1>7. played.status \in {InProgress, Finished} /\ InProgress # Finished
  BY <1>1 DEF Games, InProgress, Finished
<1> HIDE DEF settled
<1>8. Sound(settled)
  <2>1. HasLegalMove(settled) <=> HasLegalMove(played)
    BY <1>6, HasLegalMoveFrame
  <2>2. Playable(settled) /\ Capped(settled)
    BY <1>2, <1>3, <1>6, <2>1 DEF Playable, Capped
  <2>3. MoverIsTimed(settled) /\ NothingStands(settled)
    BY <1>6, <1>7 DEF MoverIsTimed, NothingStands
  <2> QED
    BY <1>5, <2>2, <2>3 DEF Sound
<1>9. Sound(RecordMove(settled, player, from, to))
  <2>1. [settled EXCEPT !.plies = @ + 1] \in Games
    <3>1. settled.plies + 1 \in Nat
      BY <1>5, GameFields
    <3> QED
      BY <1>5, <3>1 DEF Games
  <2>2. SameGame(settled, [settled EXCEPT !.plies = @ + 1])
    BY <1>5 DEF SameGame, Games
  <2>3. Sound([settled EXCEPT !.plies = @ + 1])
    BY <1>8, <2>1, <2>2, SameGameSound
  <2>4. <<from, to>> \in {NoMove} \cup (Squares \X Squares)
    OBVIOUS
  <2> QED
    BY <2>3, <2>4, ColorTypes, RecordEventSound DEF RecordMove
<1>10. AfterMove(g, player, from, to) = RecordEnd(RecordMove(settled, player, from, to), player)
  BY DEF AfterMove, settled, left, drawBy, timeBy, active, played
<1> QED
  BY <1>9, <1>10, ColorTypes, RecordEndSound

\* An offer, or its answer, touches nothing but the offers.
LEMMA OfferSound ==
  ASSUME NEW g, Sound(g), g.status = InProgress, NEW player \in Players
  PROVE  /\ Sound(OfferedDraw(g, player)) /\ Sound(DeclinedDraw(g, player))
         /\ Sound(OfferedTime(g, player)) /\ Sound(DeclinedTime(g, player))
<1> DEFINE SameButOffers(h) ==
       /\ h \in Games /\ h.board = g.board /\ h.turn = g.turn /\ h.status = g.status
       /\ h.remaining = g.remaining /\ h.quiet = g.quiet
       /\ h.active = g.active /\ h.clockPending = g.clockPending
<1>1. ASSUME NEW h, SameButOffers(h) PROVE Sound(h)
  <2>1. HasLegalMove(h) <=> HasLegalMove(g)
    BY <1>1, HasLegalMoveFrame
  <2>2. h.status # Finished
    BY <1>1 DEF InProgress, Finished
  <2> QED
    BY <1>1, <2>1, <2>2 DEF Sound, Playable, MoverIsTimed, NothingStands, Capped
<1>2. player \in Offerers /\ None \in Offerers /\ player \in Colors /\ 0 \in Nat
  BY ColorTypes DEF Offerers
<1>3. g \in Games
  BY DEF Sound
<1>4. /\ SameButOffers([g EXCEPT !.drawBy = player, !.drawUsed = player])
      /\ SameButOffers([g EXCEPT !.drawBy = None])
      /\ SameButOffers([g EXCEPT !.timeBy = player, !.timeUsed = player])
      /\ SameButOffers([g EXCEPT !.timeBy = None])
  BY <1>2, <1>3 DEF Games
<1> HIDE DEF SameButOffers
<1>5. /\ Sound([g EXCEPT !.drawBy = player, !.drawUsed = player])
      /\ Sound([g EXCEPT !.drawBy = None])
      /\ Sound([g EXCEPT !.timeBy = player, !.timeUsed = player])
      /\ Sound([g EXCEPT !.timeBy = None])
  BY <1>1, <1>4
<1> QED
  BY <1>2, <1>5, RecordEventSound
     DEF OfferedDraw, DeclinedDraw, OfferedTime, DeclinedTime

LEMMA AcceptedTimeSound ==
  ASSUME NEW g, Sound(g), g.status = InProgress, NEW player \in Players
  PROVE  Sound(AcceptedTime(g, player))
<1> DEFINE left == [c \in Players |-> AddMs(g.remaining[c], TimeExtension)]
           given == [g EXCEPT !.timeBy = None, !.remaining = left]
<1>1. g \in Games /\ None \in Offerers /\ player \in Colors /\ TimeExtension \in Nat
  BY ColorTypes, TimeAssumption DEF Sound, Offerers
<1>2. /\ left \in [Players -> Nat]
      /\ \A c \in Players : left[c] > 0 /\ left[c] <= MaxMs
  <2>1. ASSUME NEW c \in Players
        PROVE  /\ AddMs(g.remaining[c], TimeExtension) \in Nat
               /\ AddMs(g.remaining[c], TimeExtension) >= g.remaining[c]
               /\ AddMs(g.remaining[c], TimeExtension) <= MaxMs
               /\ g.remaining[c] > 0 /\ g.remaining[c] \in Nat
    BY SoundFields, AddMsType, AddMsGrows, TimeAssumption DEF Sound, Playable
  <2>2. \A c \in Players : left[c] = AddMs(g.remaining[c], TimeExtension)
    OBVIOUS
  <2> QED
    BY <2>1, <2>2
<1> HIDE DEF left
<1>3. /\ given \in Games /\ given.board = g.board /\ given.turn = g.turn
      /\ given.status = g.status /\ given.remaining = left /\ given.quiet = g.quiet
      /\ given.active = g.active /\ given.clockPending = g.clockPending
  BY <1>1, <1>2 DEF Games
<1> HIDE DEF given
<1>4. Sound(given)
  <2>1. HasLegalMove(given) <=> HasLegalMove(g)
    BY <1>3, HasLegalMoveFrame
  <2>2. given.status # Finished
    BY <1>3 DEF InProgress, Finished
  <2> QED
    BY <1>2, <1>3, <2>1, <2>2 DEF Sound, Playable, MoverIsTimed, NothingStands, Capped
<1>5. [g EXCEPT !.timeBy = None,
                !.remaining = [c \in Players |-> AddMs(@[c], TimeExtension)]] = given
  BY <1>1 DEF given, left, Games
<1> QED
  BY <1>1, <1>4, <1>5, RecordEventSound DEF AcceptedTime

LEMMA EndSound ==
  ASSUME NEW g, Sound(g), NEW player \in Players, NEW winner \in Colors
  PROVE  /\ Sound(AcceptedDraw(g, player)) /\ Sound(Resigned(g, player))
         /\ Sound(Abandoned(g, player)) /\ Sound(Adjudicated(g, winner))
<1>1. g \in Games /\ Capped(g)
  BY DEF Sound
<1>2. \A w \in Colors, reason \in EndReasons : Sound(FinishGame(g, w, reason))
  BY <1>1, FinishGameSound
<1> QED
  BY <1>2, ColorTypes, RecordEndSound
     DEF AcceptedDraw, Resigned, Abandoned, Adjudicated, EndReasons

LEMMA HeldSound ==
  ASSUME NEW g, Sound(g), NEW span \in Nat
  PROVE  Sound(Held(g, span))
<1>1. g \in Games /\ Held(g, span) \in Games
  BY HeldType DEF Sound
<1>2. SameGame(g, Held(g, span))
  BY <1>1 DEF Held, SameGame, Games
<1> QED
  BY <1>1, <1>2, SameGameSound

LEMMA TimePassesSound ==
  ASSUME NEW g, Sound(g)
  PROVE  Sound([g EXCEPT !.lag = @ + 1, !.emitted = <<>>])
<1>1. g \in Games /\ [g EXCEPT !.lag = @ + 1, !.emitted = <<>>] \in Games
  BY TimePassesType DEF Sound
<1>2. SameGame(g, [g EXCEPT !.lag = @ + 1, !.emitted = <<>>])
  BY <1>1 DEF SameGame, Games
<1> QED
  BY <1>1, <1>2, SameGameSound

\* A game opens sound, or over at once.
LEMMA NewGameSound ==
  ASSUME NEW mode \in Modes, NEW deferred \in BOOLEAN
  PROVE  Sound(NewGame(mode, deferred))
<1> DEFINE opened ==
       [mode |-> mode, board |-> OpeningBoard(mode), turn |-> FirstToMove, status |-> InProgress,
        winner |-> Neutral, reason |-> NoReason, moves |-> 0,
        drawBy |-> None, drawUsed |-> None, timeBy |-> None, timeUsed |-> None,
        remaining |-> [c \in Players |-> InitialTime],
        active |-> IF deferred THEN Neutral ELSE FirstToMove,
        clockPending |-> deferred,
        quiet |-> 0, plies |-> 0, pending |-> 0, endRecorded |-> FALSE,
        lag |-> 0, emitted |-> <<>>]
<1>1. /\ opened \in Games /\ opened.status = InProgress /\ opened.quiet = 0
      /\ opened.active = IF opened.clockPending THEN Neutral ELSE opened.turn
      /\ \A c \in Players : opened.remaining[c] = InitialTime
  BY OpenedType
<1>2. NewGame(mode, deferred) = RecordEnd(AdjudicateStalemate(opened), Neutral)
  BY DEF NewGame
<1> HIDE DEF opened
<1>3. Sound(AdjudicateStalemate(opened))
  <2>1. CASE HasLegalMove(opened)
    <3>1. Playable(opened) /\ Capped(opened)
      BY <1>1, <2>1, TimeAssumption, LimitAssumption DEF Playable, Capped
    <3>2. MoverIsTimed(opened) /\ NothingStands(opened)
      BY <1>1 DEF MoverIsTimed, NothingStands, InProgress, Finished
    <3> QED
      BY <1>1, <2>1, <3>1, <3>2 DEF Sound, AdjudicateStalemate
  <2>2. CASE ~HasLegalMove(opened)
    <3>1. Capped(opened) /\ StalemateWinner(opened.mode, opened.turn) \in Colors
      BY <1>1, TimeAssumption, GameFields, ColorTypes DEF Capped, StalemateWinner
    <3> QED
      BY <1>1, <2>2, <3>1, FinishGameSound DEF AdjudicateStalemate, EndReasons
  <2> QED
    BY <2>1, <2>2
<1> QED
  BY <1>2, <1>3, ColorTypes, RecordEndSound

-----------------------------------------------------------------------------
(* The theorems.                                                           *)

GameInv == Sound(game)

LEMMA InitSound == Init => GameInv
  BY NewGameSound, FlagAssumption DEF Init, GameInv

\* Every call, and the passing of time, leaves a sound game sound.
LEMMA StepKeepsSound == GameInv /\ [Next]_game => GameInv'
<1> SUFFICES ASSUME Sound(game), [Next]_game PROVE Sound(game')
  BY DEF GameInv
<1> DEFINE g == UpdateClock(game)
<1>1. Sound(g)
  BY UpdateClockSound
<1> HIDE DEF g
<1>2. CASE TimePasses
  BY <1>2, TimePassesSound DEF TimePasses
<1>3. CASE Settle
  BY <1>1, <1>3 DEF Settle, g
<1>4. ASSUME NEW player \in Players, NEW from \in Squares, NEW to \in Squares,
             Move(player, from, to)
      PROVE  Sound(game')
  BY <1>1, <1>4, AfterMoveSound DEF Move, LegalMove, g
<1>5. ASSUME NEW player \in Players,
             \/ OfferDraw(player) \/ DeclineDraw(player)
             \/ OfferTimeExtension(player) \/ DeclineTimeExtension(player)
      PROVE  Sound(game')
  BY <1>1, <1>5, OfferSound
     DEF OfferDraw, DeclineDraw, OfferTimeExtension, DeclineTimeExtension,
         CanOfferDraw, CanOfferTime, CanAnswer, g
<1>6. ASSUME NEW player \in Players, AcceptTimeExtension(player)
      PROVE  Sound(game')
  BY <1>1, <1>6, AcceptedTimeSound DEF AcceptTimeExtension, CanAnswer, g
<1>7. ASSUME NEW player \in Players, AcceptDraw(player) \/ Resign(player) \/ Abandon(player)
      PROVE  Sound(game')
  <2>1. Neutral \in Colors
    BY ColorTypes
  <2> QED
    BY <1>1, <1>7, <2>1, EndSound DEF AcceptDraw, Resign, Abandon, g
<1>8. ASSUME NEW winner \in Colors, Adjudicate(winner)
      PROVE  Sound(game')
  <2>1. Red \in Players
    BY DEF Players
  <2> QED
    BY <1>1, <1>8, <2>1, EndSound DEF Adjudicate, g
<1>9. ASSUME NEW span \in HoldSpans, HoldClock(span)
      PROVE  Sound(game')
  BY <1>1, <1>9, HeldSound, LimitAssumption DEF HoldClock, g
<1>10. CASE UNCHANGED game
  BY <1>10
<1> QED
  BY <1>2, <1>3, <1>4, <1>5, <1>6, <1>7, <1>8, <1>9, <1>10
     DEF Next, UnproposedNext, MoveAction, OfferAction, EndAction

\* Every reachable game is sound, on every board and under every time control.
LEMMA GamesAreSound == Spec => []GameInv
  BY InitSound, StepKeepsSound, PTL DEF Spec

\* A live game never leaves its type: no clock goes below zero, and no piece,
\* offer or event of an unknown kind appears, whatever is called and when.
THEOREM GameKeepsType == Spec => []TypeOK
<1>1. GameInv => TypeOK
  BY DEF GameInv, Sound, TypeOK
<1> QED
  BY <1>1, GamesAreSound, PTL

\* A game in progress can be played on: whatever ends a game -- a flag, a
\* stalemate, the quiet-ply limit -- ends it at the call that brings it about.
THEOREM GameIsPlayable == Spec => []InProgressIsPlayable
<1>1. GameInv => InProgressIsPlayable
  BY DEF GameInv, Sound, InProgressIsPlayable
<1> QED
  BY <1>1, GamesAreSound, PTL

\* The active clock is the mover's from the first move to the end, and nobody's
\* before and after.
THEOREM GameTimesTheMover == Spec => []ActiveClockIsMover
<1>1. GameInv => ActiveClockIsMover
  BY DEF GameInv, Sound, ActiveClockIsMover
<1> QED
  BY <1>1, GamesAreSound, PTL

\* No draw or time offer outlives its game, whichever way the game ended.
THEOREM GameEndsItsOffers == Spec => []NoOfferOutlivesTheGame
<1>1. GameInv => NoOfferOutlivesTheGame
  BY DEF GameInv, Sound, NoOfferOutlivesTheGame
<1> QED
  BY <1>1, GamesAreSound, PTL

\* A finished game leaves every call with nothing to do.
LEMMA FinishedStep ==
  TypeOK /\ [Next]_game /\ game.status = Finished =>
    /\ Result(game') = Result(game)
    /\ game'.emitted = <<>> \/ game' = game
<1> SUFFICES ASSUME game \in Games, Next, game.status = Finished
             PROVE  Result(game') = Result(game) /\ game'.emitted = <<>>
  BY DEF TypeOK
<1> DEFINE g == UpdateClock(game)
<1>1. g = [game EXCEPT !.emitted = <<>>] /\ game.status # InProgress
  BY DEF UpdateClock, InProgress, Finished
<1>2. g.status # InProgress
  BY <1>1 DEF Games
<1>3. ~MoveAction /\ ~OfferAction /\ ~EndAction /\ ~\E span \in HoldSpans : HoldClock(span)
  BY <1>2 DEF MoveAction, Move, LegalMove, OfferAction, OfferDraw, AcceptDraw, DeclineDraw,
              OfferTimeExtension, AcceptTimeExtension, DeclineTimeExtension,
              CanOfferDraw, CanOfferTime, CanAnswer,
              EndAction, Resign, Abandon, Adjudicate, HoldClock
<1>4. \/ game' = [game EXCEPT !.emitted = <<>>]
      \/ game' = [game EXCEPT !.lag = @ + 1, !.emitted = <<>>]
  BY <1>1, <1>3 DEF Next, UnproposedNext, TimePasses, Settle
<1> QED
  BY <1>4 DEF Result, Games

\* A game that is over stays as it ended: no late move, answer, resignation,
\* abandonment, adjudication or tick changes its board, clocks, result or log.
THEOREM FinishedGameIsFinal == Spec => FinishedIsFinal
<1>1. TypeOK /\ [Next]_game
        => [game.status = Finished => /\ Result(game') = Result(game)
                                      /\ game'.emitted = <<>>]_game
  BY FinishedStep
<1> QED
  BY <1>1, GameKeepsType, PTL DEF Spec, FinishedIsFinal

-----------------------------------------------------------------------------
(* Who pays.                                                               *)

LEMMA RecordedClocks ==
  ASSUME NEW g \in Games, NEW kind, NEW player, NEW move, NEW bonus
  PROVE  /\ RecordEvent(g, kind, player, move, bonus).remaining = g.remaining
         /\ RecordEnd(g, player).remaining = g.remaining
  BY DEF RecordEvent, RecordEnd, Games

\* Settling charges the mover alone, and no more than the time that passed.
LEMMA SettlingCharges ==
  ASSUME NEW g, Sound(g), NEW c \in Players
  PROVE  LET left == UpdateClock(g).remaining[c]
         IN  /\ left \in Nat /\ left <= g.remaining[c]
             /\ left < g.remaining[c] =>
                  c = g.turn /\ ~g.clockPending /\ g.lag >= g.remaining[c] - left
<1> DEFINE h == UpdateClock(g)
           spent == g.status = InProgress /\ g.lag > 0
<1>1. g \in Games /\ h \in Games /\ g.turn \in Players
  BY SoundFields, UpdateClockType
<1>2. CASE ~spent \/ g.clockPending
  <2>1. h.remaining = g.remaining
    BY <1>1, <1>2 DEF UpdateClock, Games
  <2> QED
    BY <1>1, <2>1, SoundFields
<1>3. CASE spent /\ ~g.clockPending /\ FlagFalls(g)
  <2>1. h = RecordEnd(FinishGame(Fallen(g), OtherColor(g.turn), "timeout"), g.turn)
    BY <1>3 DEF UpdateClock, Fallen
  <2>2. FinishGame(Fallen(g), OtherColor(g.turn), "timeout") \in Games
    BY <1>1, FallenFields, ColorTypes, FinishGameType DEF EndReasons
  <2> HIDE DEF h
  <2>3. h.remaining = [g.remaining EXCEPT ![g.turn] = 0]
    BY <1>1, <2>1, <2>2, FallenFields, FinishGameFields, RecordedClocks
  <2> QED
    BY <1>3, <2>3, SoundFields DEF FlagFalls, h
<1>4. CASE spent /\ ~g.clockPending /\ ~FlagFalls(g)
  <2>1. h.remaining = [g.remaining EXCEPT ![g.turn] = @ - g.lag]
    BY <1>1, <1>4 DEF UpdateClock, Games
  <2> HIDE DEF h
  <2> QED
    BY <1>4, <2>1, SoundFields DEF FlagFalls, h
<1> QED
  BY <1>2, <1>3, <1>4

\* No call takes time from anybody once the clock is settled.
LEMMA CallsGive ==
  ASSUME NEW g, Sound(g), NEW player \in Players, NEW c \in Players
  PROVE  /\ OfferedDraw(g, player).remaining[c] = g.remaining[c]
         /\ DeclinedDraw(g, player).remaining[c] = g.remaining[c]
         /\ OfferedTime(g, player).remaining[c] = g.remaining[c]
         /\ DeclinedTime(g, player).remaining[c] = g.remaining[c]
         /\ AcceptedTime(g, player).remaining[c] >= g.remaining[c]
         /\ AcceptedDraw(g, player).remaining[c] = g.remaining[c]
         /\ Resigned(g, player).remaining[c] = g.remaining[c]
         /\ Abandoned(g, player).remaining[c] = g.remaining[c]
         /\ \A winner : Adjudicated(g, winner).remaining[c] = g.remaining[c]
         /\ \A span : Held(g, span).remaining[c] = g.remaining[c]
<1>1. g \in Games
  BY DEF Sound
<1>2. /\ OfferedDraw(g, player).remaining = g.remaining
      /\ DeclinedDraw(g, player).remaining = g.remaining
      /\ OfferedTime(g, player).remaining = g.remaining
      /\ DeclinedTime(g, player).remaining = g.remaining
  BY <1>1 DEF OfferedDraw, DeclinedDraw, OfferedTime, DeclinedTime, RecordEvent, Games
<1>3. AcceptedTime(g, player).remaining[c] = AddMs(g.remaining[c], TimeExtension)
  BY <1>1 DEF AcceptedTime, RecordEvent, Games
<1>4. AddMs(g.remaining[c], TimeExtension) >= g.remaining[c]
  BY SoundFields, AddMsGrows, TimeAssumption
<1>5. /\ AcceptedDraw(g, player).remaining = g.remaining
      /\ Resigned(g, player).remaining = g.remaining
      /\ Abandoned(g, player).remaining = g.remaining
      /\ \A winner : Adjudicated(g, winner).remaining = g.remaining
  BY <1>1 DEF AcceptedDraw, Resigned, Abandoned, Adjudicated, FinishGame,
              RecordEnd, RecordEvent, Games
<1>6. \A span : Held(g, span).remaining = g.remaining
  BY <1>1 DEF Held, Games
<1> QED
  BY <1>2, <1>3, <1>4, <1>5, <1>6

LEMMA MovesGive ==
  ASSUME NEW g, Sound(g), g.status = InProgress, NEW player \in Players,
         NEW from \in Squares, NEW to \in Squares, NEW c \in Players
  PROVE  AfterMove(g, player, from, to).remaining[c] >= g.remaining[c]
<1> DEFINE captured == g.board[to].occupant # Empty
           played == CountQuietPly(AdjudicateStalemate(ModeMove(g, player, from, to)),
                                   captured)
<1>0. g \in Games
  BY DEF Sound
<1>1. played \in Games
  BY <1>0, ModeMoveType, StalemateType, QuietPlyType
<1>2. played.remaining = g.remaining
  BY <1>0, PlayedFrame
<1> HIDE DEF played
<1> DEFINE settled ==
       [played EXCEPT
          !.drawBy = IF played.status = Finished THEN None ELSE StillStanding(g.drawBy, player),
          !.timeBy = IF played.status = Finished THEN None ELSE @,
          !.drawUsed = None, !.timeUsed = None, !.clockPending = FALSE,
          !.remaining[player] = AddMs(@, Increment), !.lag = 0,
          !.active = IF played.status = Finished THEN Neutral ELSE played.turn]
<1>3. AfterMove(g, player, from, to).remaining
        = [played.remaining EXCEPT ![player] = AddMs(@, Increment)]
  <2>1. AfterMove(g, player, from, to)
          = RecordEnd(RecordMove(settled, player, from, to), player)
    BY DEF AfterMove, played
  <2>2. settled.remaining = [played.remaining EXCEPT ![player] = AddMs(@, Increment)]
    BY <1>1 DEF Games
  <2> QED
    BY <1>1, <2>1, <2>2 DEF RecordMove, RecordEvent, RecordEnd, Games
<1>4. AddMs(g.remaining[player], Increment) >= g.remaining[player]
  BY SoundFields, AddMsGrows, TimeAssumption
<1> QED
  BY <1>2, <1>3, <1>4, SoundFields

LEMMA StepCharges ==
  ASSUME Sound(game), Next, NEW c \in Players
  PROVE  game'.remaining[c] = game.remaining[c]
           \/ game'.remaining[c] >= UpdateClock(game).remaining[c]
<1> DEFINE g == UpdateClock(game)
<1>1. Sound(g) /\ game \in Games /\ g.remaining[c] \in Nat
  BY UpdateClockSound, SoundFields
<1> HIDE DEF g
<1>2. CASE TimePasses
  BY <1>1, <1>2 DEF TimePasses, Games
<1>3. CASE Settle
  BY <1>1, <1>3 DEF Settle, g
<1>4. ASSUME NEW player \in Players, NEW from \in Squares, NEW to \in Squares,
             Move(player, from, to)
      PROVE  game'.remaining[c] >= g.remaining[c]
  BY <1>1, <1>4, MovesGive DEF Move, LegalMove, g
<1>5. ASSUME NEW player \in Players,
             \/ OfferDraw(player) \/ AcceptDraw(player) \/ DeclineDraw(player)
             \/ OfferTimeExtension(player) \/ AcceptTimeExtension(player)
             \/ DeclineTimeExtension(player) \/ Resign(player) \/ Abandon(player)
      PROVE  game'.remaining[c] >= g.remaining[c]
  BY <1>1, <1>5, CallsGive
     DEF OfferDraw, AcceptDraw, DeclineDraw, OfferTimeExtension, AcceptTimeExtension,
         DeclineTimeExtension, Resign, Abandon, g
<1>6. ASSUME \/ \E winner \in Colors : Adjudicate(winner)
             \/ \E span \in HoldSpans : HoldClock(span)
      PROVE  game'.remaining[c] >= g.remaining[c]
  <2>1. Red \in Players
    BY DEF Players
  <2> QED
    BY <1>1, <1>6, <2>1, CallsGive DEF Adjudicate, HoldClock, g
<1> QED
  BY <1>2, <1>3, <1>4, <1>5, <1>6 DEF Next, UnproposedNext, MoveAction, OfferAction, EndAction, g

\* Nobody pays for time that is not theirs: a clock shrinks only on the side to
\* move, only once the game has begun, and never by more than has passed -- not
\* while the clock is held, and not by an increment that overflows.
THEOREM GameChargesTheMover == Spec => OnlyTheMoverPays
<1>1. GameInv /\ [Next]_game
        => [\A c \in Players :
              game'.remaining[c] < game.remaining[c] =>
                /\ c = game.turn
                /\ ~game.clockPending
                /\ game.lag >= game.remaining[c] - game'.remaining[c]]_game
  <2> SUFFICES ASSUME Sound(game), Next, Sound(game'), NEW c \in Players,
                      game'.remaining[c] < game.remaining[c]
               PROVE  /\ c = game.turn
                      /\ ~game.clockPending
                      /\ game.lag >= game.remaining[c] - game'.remaining[c]
    BY StepKeepsSound DEF GameInv
  <2>1. /\ game.remaining[c] \in Nat /\ game'.remaining[c] \in Nat
        /\ UpdateClock(game).remaining[c] \in Nat /\ game.lag \in Int
    BY SoundFields, UpdateClockSound
  <2>2. UpdateClock(game).remaining[c] <= game'.remaining[c]
    BY <2>1, StepCharges
  <2> QED
    BY <2>1, <2>2, SettlingCharges
<1> QED
  BY <1>1, GamesAreSound, PTL DEF Spec, OnlyTheMoverPays

-----------------------------------------------------------------------------
(* A log that grows.  Replay and Total are recursive along the log, and    *)
(* what they say of a log of any length would need an induction over it.   *)
(* Here the game does that induction: it appends its events one by one, so *)
(* it is enough that a run along the log can always be carried on, and in  *)
(* one way only.                                                           *)

Replays(after, mode, events) ==
  after = [n \in 0..Len(events) |->
             IF n = 0 THEN NewGame(mode, FALSE)
                      ELSE ApplyRecordedEvent(after[n - 1], events[n])]

Sums(sum, amounts) ==
  sum = [n \in 0..Len(amounts) |-> IF n = 0 THEN 0 ELSE sum[n - 1] + amounts[n]]

Replayable(mode, events) ==
  /\ \E f : Replays(f, mode, events)
  /\ \A f, h : Replays(f, mode, events) /\ Replays(h, mode, events) => f = h

Summable(amounts) ==
  /\ \E f : Sums(f, amounts)
  /\ \A f, h : Sums(f, amounts) /\ Sums(h, amounts) => f = h

LEMMA ReplayIsThere ==
  ASSUME NEW mode, NEW events, NEW f, Replays(f, mode, events), Replayable(mode, events)
  PROVE  Replay(mode, events) = f[Len(events)]
<1> DEFINE run == CHOOSE h : Replays(h, mode, events)
<1>1. Replay(mode, events) = run[Len(events)]
  BY DEF Replay, Replays
<1>2. Replays(run, mode, events)
  OBVIOUS
<1> HIDE DEF run
<1> QED
  BY <1>1, <1>2 DEF Replayable

LEMMA TotalIsThere ==
  ASSUME NEW amounts, NEW f, Sums(f, amounts), Summable(amounts)
  PROVE  Total(amounts) = f[Len(amounts)]
<1> DEFINE run == CHOOSE h : Sums(h, amounts)
<1>1. Total(amounts) = run[Len(amounts)]
  BY DEF Total, Sums
<1>2. Sums(run, amounts)
  OBVIOUS
<1> HIDE DEF run
<1> QED
  BY <1>1, <1>2 DEF Summable

LEMMA ReplayOfNothing ==
  ASSUME NEW mode
  PROVE  Replayable(mode, <<>>) /\ Replay(mode, <<>>) = NewGame(mode, FALSE)
<1> DEFINE f == [n \in 0..0 |-> NewGame(mode, FALSE)]
<1>1. Len(<<>>) = 0 /\ 0..0 = {0}
  OBVIOUS
<1>2. \A h : Replays(h, mode, <<>>) <=> h = f
  BY <1>1 DEF Replays
<1>3. f[0] = NewGame(mode, FALSE)
  OBVIOUS
<1> HIDE DEF f
<1>4. Replayable(mode, <<>>)
  BY <1>2 DEF Replayable
<1> QED
  BY <1>1, <1>2, <1>3, <1>4, ReplayIsThere

LEMMA TotalOfNothing == Summable(<<>>) /\ Total(<<>>) = 0
<1> DEFINE f == [n \in 0..0 |-> 0]
<1>1. Len(<<>>) = 0 /\ 0..0 = {0}
  OBVIOUS
<1>2. \A h : Sums(h, <<>>) <=> h = f
  BY <1>1 DEF Sums
<1>3. f[0] = 0
  OBVIOUS
<1> HIDE DEF f
<1>4. Summable(<<>>)
  BY <1>2 DEF Summable
<1> QED
  BY <1>1, <1>2, <1>3, <1>4, TotalIsThere

LEMMA ReplayGoesOn ==
  ASSUME NEW mode, NEW events \in Seq(Events), NEW event \in Events,
         Replayable(mode, events)
  PROVE  /\ Replayable(mode, Append(events, event))
         /\ Replay(mode, Append(events, event))
              = ApplyRecordedEvent(Replay(mode, events), event)
<1> DEFINE later == Append(events, event)
           Step(f, n) == IF n = 0 THEN NewGame(mode, FALSE)
                         ELSE ApplyRecordedEvent(f[n - 1], later[n])
           Cut(h) == [n \in 0..Len(events) |-> h[n]]
<1>1. /\ Len(events) \in Nat /\ Len(later) = Len(events) + 1
      /\ \A n \in 1..Len(events) : later[n] = events[n]
      /\ later[Len(events) + 1] = event
  OBVIOUS
<1> HIDE DEF later
<1>2. \A f : Replays(f, mode, later) <=> f = [n \in 0..Len(later) |-> Step(f, n)]
  BY DEF Replays
<1>3. ASSUME NEW f
      PROVE  Replays(f, mode, events) <=> f = [n \in 0..Len(events) |-> Step(f, n)]
  <2>1. ASSUME NEW n \in 0..Len(events), n # 0 PROVE later[n] = events[n]
    BY <1>1, <2>1
  <2>2. \A n \in 0..Len(events) :
          Step(f, n) = IF n = 0 THEN NewGame(mode, FALSE)
                       ELSE ApplyRecordedEvent(f[n - 1], events[n])
    BY <2>1, Zenon
  <2> HIDE DEF Step
  <2>3. [n \in 0..Len(events) |-> Step(f, n)]
          = [n \in 0..Len(events) |->
               IF n = 0 THEN NewGame(mode, FALSE)
                        ELSE ApplyRecordedEvent(f[n - 1], events[n])]
    BY <2>2
  <2> QED
    BY <2>3, Zenon DEF Replays
<1>4. ASSUME NEW h, Replays(h, mode, later)
      PROVE  /\ Replays(Cut(h), mode, events)
             /\ h[Len(later)] = ApplyRecordedEvent(Cut(h)[Len(events)], event)
             /\ h = [n \in 0..Len(later) |-> IF n \in 0..Len(events) THEN Cut(h)[n]
                                             ELSE h[Len(later)]]
  <2>1. h = [n \in 0..Len(later) |-> Step(h, n)]
    BY <1>2, <1>4
  <2>2. \A n \in 0..Len(later) : h[n] = Step(h, n)
    BY <2>1
  <2>3. ASSUME NEW n \in 0..Len(events) PROVE Step(Cut(h), n) = Step(h, n)
    <3>1. CASE n = 0
      BY <3>1
    <3>2. CASE n # 0
      <4>1. n - 1 \in 0..Len(events)
        BY <1>1, <3>2
      <4>2. Cut(h)[n - 1] = h[n - 1]
        BY <4>1
      <4> HIDE DEF Cut
      <4> QED
        BY <3>2, <4>2
    <3> QED
      BY <3>1, <3>2
  <2>4. ASSUME NEW n \in 0..Len(events) PROVE h[n] = Step(Cut(h), n)
    <3>1. n \in 0..Len(later)
      BY <1>1
    <3> HIDE DEF Step, Cut
    <3> QED
      BY <2>2, <2>3, <3>1
  <2>5. h[Len(later)] = ApplyRecordedEvent(h[Len(events)], event)
    <3>1. /\ Len(later) \in 0..Len(later) /\ Len(later) # 0 /\ Len(later) - 1 = Len(events)
          /\ later[Len(later)] = event
      BY <1>1
    <3>2. h[Len(later)] = Step(h, Len(later))
      BY <2>2, <3>1
    <3> QED
      BY <3>1, <3>2, Zenon
  <2>6. \A n \in 0..Len(later) : n \in 0..Len(events) \/ n = Len(later)
    BY <1>1
  <2> QED
    <3> HIDE DEF Step
    <3>1. Cut(h) = [n \in 0..Len(events) |-> Step(Cut(h), n)]
      BY <2>4
    <3>2. Replays(Cut(h), mode, events)
      BY <1>3, <3>1
    <3> QED
      BY <1>1, <2>1, <2>5, <2>6, <3>2
<1>5. PICK f : Replays(f, mode, events)
  BY DEF Replayable
<1> DEFINE g == [n \in 0..Len(later) |->
                   IF n \in 0..Len(events) THEN f[n]
                   ELSE ApplyRecordedEvent(f[Len(events)], event)]
<1>6. Replays(g, mode, later)
  <2>1. \A n \in 0..Len(events) : f[n] = Step(f, n)
    BY <1>3, <1>5
  <2>2. ASSUME NEW n \in 0..Len(later) PROVE g[n] = Step(g, n)
    <3>1. CASE n \in 0..Len(events)
      <4>1. g[n] = f[n] /\ (n # 0 => g[n - 1] = f[n - 1])
        BY <1>1, <3>1
      <4> QED
        BY <2>1, <3>1, <4>1
    <3>2. CASE n \notin 0..Len(events)
      <4>1. n = Len(later) /\ n # 0 /\ n - 1 = Len(events)
        BY <1>1, <3>2
      <4>2. g[n] = ApplyRecordedEvent(f[Len(events)], event) /\ g[n - 1] = f[Len(events)]
        BY <1>1, <4>1
      <4> QED
        BY <1>1, <4>1, <4>2
    <3> QED
      BY <3>1, <3>2
  <2>3. g = [n \in 0..Len(later) |-> Step(g, n)]
    BY <2>2
  <2> QED
    BY <1>2, <2>3
<1> HIDE DEF g, Step
<1>7. Replayable(mode, later)
  <2> SUFFICES ASSUME NEW a, NEW b, Replays(a, mode, later), Replays(b, mode, later)
               PROVE  a = b
    BY <1>6 DEF Replayable
  <2>1. Cut(a) = Cut(b)
    BY <1>4 DEF Replayable
  <2>2. a[Len(later)] = b[Len(later)]
    BY <1>4, <2>1
  <2> HIDE DEF Cut
  <2>3. /\ a = [n \in 0..Len(later) |-> IF n \in 0..Len(events) THEN Cut(a)[n]
                                        ELSE a[Len(later)]]
        /\ b = [n \in 0..Len(later) |-> IF n \in 0..Len(events) THEN Cut(b)[n]
                                        ELSE b[Len(later)]]
    BY <1>4
  <2> QED
    BY <2>1, <2>2, <2>3
<1>8. Replay(mode, later) = g[Len(later)]
  BY <1>6, <1>7, ReplayIsThere
<1>9. Replay(mode, events) = Cut(g)[Len(events)]
  BY <1>4, <1>6, ReplayIsThere
<1> QED
  BY <1>4, <1>6, <1>7, <1>8, <1>9 DEF later

LEMMA TotalGoesOn ==
  ASSUME NEW amounts \in Seq(Nat), NEW amount \in Nat, Summable(amounts)
  PROVE  /\ Summable(Append(amounts, amount))
         /\ Total(Append(amounts, amount)) = Total(amounts) + amount
<1> DEFINE later == Append(amounts, amount)
           Step(f, n) == IF n = 0 THEN 0 ELSE f[n - 1] + later[n]
           Cut(h) == [n \in 0..Len(amounts) |-> h[n]]
<1>1. /\ Len(amounts) \in Nat /\ Len(later) = Len(amounts) + 1
      /\ \A n \in 1..Len(amounts) : later[n] = amounts[n]
      /\ later[Len(amounts) + 1] = amount
  OBVIOUS
<1> HIDE DEF later
<1>2. \A f : Sums(f, later) <=> f = [n \in 0..Len(later) |-> Step(f, n)]
  BY DEF Sums
<1>3. \A f : Sums(f, amounts) <=> f = [n \in 0..Len(amounts) |-> Step(f, n)]
  BY <1>1 DEF Sums
<1>4. ASSUME NEW h, Sums(h, later)
      PROVE  /\ Sums(Cut(h), amounts)
             /\ h[Len(later)] = Cut(h)[Len(amounts)] + amount
             /\ h = [n \in 0..Len(later) |-> IF n \in 0..Len(amounts) THEN Cut(h)[n]
                                             ELSE h[Len(later)]]
  <2>1. h = [n \in 0..Len(later) |-> Step(h, n)]
    BY <1>2, <1>4
  <2>2. \A n \in 0..Len(later) : h[n] = Step(h, n)
    BY <2>1
  <2>3. \A n \in 0..Len(amounts) : Step(Cut(h), n) = Step(h, n)
    BY <1>1
  <2>4. Cut(h) = [n \in 0..Len(amounts) |-> Step(Cut(h), n)]
    BY <1>1, <2>2, <2>3
  <2>5. h[Len(later)] = h[Len(amounts)] + amount
    BY <1>1, <2>2
  <2>6. \A n \in 0..Len(later) : n \in 0..Len(amounts) \/ n = Len(later)
    BY <1>1
  <2> QED
    BY <1>1, <1>3, <2>1, <2>4, <2>5, <2>6
<1>5. PICK f : Sums(f, amounts)
  BY DEF Summable
<1> DEFINE g == [n \in 0..Len(later) |->
                   IF n \in 0..Len(amounts) THEN f[n] ELSE f[Len(amounts)] + amount]
<1>6. Sums(g, later)
  <2>1. \A n \in 0..Len(amounts) : f[n] = Step(f, n)
    BY <1>3, <1>5
  <2>2. ASSUME NEW n \in 0..Len(later) PROVE g[n] = Step(g, n)
    <3>1. CASE n \in 0..Len(amounts)
      <4>1. g[n] = f[n] /\ (n # 0 => g[n - 1] = f[n - 1])
        BY <1>1, <3>1
      <4> QED
        BY <2>1, <3>1, <4>1
    <3>2. CASE n \notin 0..Len(amounts)
      <4>1. n = Len(later) /\ n # 0 /\ n - 1 = Len(amounts)
        BY <1>1, <3>2
      <4>2. g[n] = f[Len(amounts)] + amount /\ g[n - 1] = f[Len(amounts)]
        BY <1>1, <4>1
      <4> QED
        BY <1>1, <4>1, <4>2
    <3> QED
      BY <3>1, <3>2
  <2>3. g = [n \in 0..Len(later) |-> Step(g, n)]
    BY <2>2
  <2> QED
    BY <1>2, <2>3
<1> HIDE DEF g, Step
<1>7. Summable(later)
  <2> SUFFICES ASSUME NEW a, NEW b, Sums(a, later), Sums(b, later)
               PROVE  a = b
    BY <1>6 DEF Summable
  <2>1. Cut(a) = Cut(b)
    BY <1>4 DEF Summable
  <2>2. a[Len(later)] = b[Len(later)]
    BY <1>4, <2>1
  <2> HIDE DEF Cut
  <2>3. /\ a = [n \in 0..Len(later) |-> IF n \in 0..Len(amounts) THEN Cut(a)[n]
                                        ELSE a[Len(later)]]
        /\ b = [n \in 0..Len(later) |-> IF n \in 0..Len(amounts) THEN Cut(b)[n]
                                        ELSE b[Len(later)]]
    BY <1>4
  <2> QED
    BY <2>1, <2>2, <2>3
<1>8. Total(later) = g[Len(later)]
  BY <1>6, <1>7, TotalIsThere
<1>9. Total(amounts) = Cut(g)[Len(amounts)]
  BY <1>4, <1>6, TotalIsThere
<1> QED
  BY <1>4, <1>6, <1>7, <1>8, <1>9 DEF later

-----------------------------------------------------------------------------
(* What a call appends to the log.                                         *)

Kinds == {"move", "draw_offer", "draw_decline", "time_offer", "time_decline",
          "time_accept", "end"}

\* The event recordEventLocked makes of a game.
Entry(g, kind, player, move, bonus) ==
  [kind |-> kind, player |-> player, ply |-> g.plies,
   move |-> move, elapsed |-> g.pending, bonus |-> bonus,
   left |-> g.remaining, winner |-> g.winner, reason |-> g.reason]

\* Everything that is played with; left out is what the log is made from.
SameButTheLog(g, h) ==
  /\ h.mode = g.mode /\ h.board = g.board /\ h.turn = g.turn /\ h.status = g.status
  /\ h.winner = g.winner /\ h.reason = g.reason /\ h.moves = g.moves
  /\ h.drawBy = g.drawBy /\ h.drawUsed = g.drawUsed
  /\ h.timeBy = g.timeBy /\ h.timeUsed = g.timeUsed
  /\ h.remaining = g.remaining /\ h.active = g.active
  /\ h.clockPending = g.clockPending /\ h.quiet = g.quiet /\ h.plies = g.plies
  /\ h.lag = g.lag

LEMMA EventIsRecorded ==
  ASSUME NEW g \in Games, NEW kind \in Kinds, NEW player \in Colors,
         NEW move \in {NoMove} \cup (Squares \X Squares), NEW bonus \in Nat
  PROVE  LET h == RecordEvent(g, kind, player, move, bonus)
         IN  /\ h \in Games /\ SameButTheLog(g, h)
             /\ h.pending = 0 /\ h.endRecorded = g.endRecorded
             /\ Entry(g, kind, player, move, bonus) \in Events
             /\ h.emitted = Append(g.emitted, Entry(g, kind, player, move, bonus))
<1> DEFINE entry == Entry(g, kind, player, move, bonus)
           h == RecordEvent(g, kind, player, move, bonus)
<1>1. h \in Games
  BY RecordEventType DEF Kinds
<1>2. entry \in Events
  BY DEF Games, Events, Kinds, Entry
<1>3. h = [g EXCEPT !.emitted = Append(@, entry), !.pending = 0]
  BY DEF RecordEvent, Entry
<1> HIDE DEF entry, h
<1>4. SameButTheLog(g, h)
  BY <1>3 DEF SameButTheLog, Games
<1>5. h.pending = 0 /\ h.endRecorded = g.endRecorded /\ h.emitted = Append(g.emitted, entry)
  BY <1>3 DEF Games
<1> QED
  BY <1>1, <1>2, <1>4, <1>5 DEF entry, h

\* The end is an event of its own, appended when it has not been.
LEMMA EndIsRecorded ==
  ASSUME NEW g \in Games, NEW actor \in Colors
  PROVE  LET h == RecordEnd(g, actor)
             entry == Entry(g, "end", actor, NoMove, 0)
         IN  /\ g.status # Finished \/ g.endRecorded => h = g
             /\ g.status = Finished /\ ~g.endRecorded =>
                  /\ h \in Games /\ SameButTheLog(g, h)
                  /\ h.pending = 0 /\ h.endRecorded
                  /\ entry \in Events /\ h.emitted = Append(g.emitted, entry)
<1> DEFINE marked == [g EXCEPT !.endRecorded = TRUE]
<1>1. /\ marked \in Games /\ SameButTheLog(g, marked) /\ marked.endRecorded
      /\ marked.emitted = g.emitted
      /\ Entry(marked, "end", actor, NoMove, 0) = Entry(g, "end", actor, NoMove, 0)
  BY DEF SameButTheLog, Entry, Games
<1>2. /\ g.status # Finished \/ g.endRecorded => RecordEnd(g, actor) = g
      /\ g.status = Finished /\ ~g.endRecorded =>
           RecordEnd(g, actor) = RecordEvent(marked, "end", actor, NoMove, 0)
  BY DEF RecordEnd
<1> HIDE DEF marked
<1> DEFINE h == RecordEvent(marked, "end", actor, NoMove, 0)
<1>3. /\ h \in Games /\ SameButTheLog(marked, h)
      /\ h.pending = 0 /\ h.endRecorded = marked.endRecorded
      /\ Entry(marked, "end", actor, NoMove, 0) \in Events
      /\ h.emitted = Append(marked.emitted, Entry(marked, "end", actor, NoMove, 0))
  <2>1. "end" \in Kinds /\ NoMove \in {NoMove} \cup (Squares \X Squares) /\ 0 \in Nat
    BY DEF Kinds
  <2> QED
    BY <1>1, <2>1, EventIsRecorded, Zenon
<1> HIDE DEF h
<1>4. SameButTheLog(g, h)
  BY <1>1, <1>3 DEF SameButTheLog
<1> QED
  BY <1>1, <1>2, <1>3, <1>4 DEF h

LEMMA FinishedFields ==
  ASSUME NEW g \in Games, NEW winner \in Colors, NEW reason \in EndReasons
  PROVE  LET h == FinishGame(g, winner, reason)
         IN  /\ h \in Games
             /\ h.status = Finished /\ h.winner = winner /\ h.reason = reason
             /\ h.drawBy = None /\ h.drawUsed = None /\ h.timeBy = None /\ h.timeUsed = None
             /\ h.active = Neutral
             /\ h.mode = g.mode /\ h.board = g.board /\ h.turn = g.turn /\ h.moves = g.moves
             /\ h.remaining = g.remaining /\ h.clockPending = g.clockPending
             /\ h.quiet = g.quiet /\ h.plies = g.plies /\ h.pending = g.pending
             /\ h.endRecorded = g.endRecorded /\ h.lag = g.lag /\ h.emitted = g.emitted
<1>1. FinishGame(g, winner, reason) \in Games
  BY FinishGameType
<1> QED
  BY <1>1 DEF FinishGame, Games

\* The endings a position brings about.
BoardReasons == {"infiltration", "corner", "annihilation", "territory",
                 "stalemate", "no_capture"}

\* Move, up to where it records anything.
Played(g, player, from, to) ==
  CountQuietPly(AdjudicateStalemate(ModeMove(g, player, from, to)),
                g.board[to].occupant # Empty)

MoveMade(g, player, from, to) ==
  LET played == Played(g, player, from, to)
      over == played.status = Finished
  IN  [played EXCEPT
         !.drawBy = IF over THEN None ELSE StillStanding(g.drawBy, player),
         !.timeBy = IF over THEN None ELSE @,
         !.drawUsed = None,
         !.timeUsed = None,
         !.clockPending = FALSE,
         !.remaining[player] = AddMs(@, Increment),
         !.lag = 0,
         !.active = IF over THEN Neutral ELSE played.turn]

LEMMA AfterMoveRecords ==
  \A g, player, from, to :
    AfterMove(g, player, from, to)
      = RecordEnd(RecordMove(MoveMade(g, player, from, to), player, from, to), player)
  BY DEF AfterMove, MoveMade, Played

LEMMA ModeMoveFields ==
  ASSUME NEW g \in Games, g.status = InProgress, NEW player \in Players,
         NEW from \in Squares, NEW to \in Squares
  PROVE  LET h == ModeMove(g, player, from, to)
         IN  /\ h.mode = g.mode /\ h.plies = g.plies /\ h.pending = g.pending
             /\ h.emitted = g.emitted /\ h.endRecorded = g.endRecorded
             /\ h.timeBy = g.timeBy
             /\ h.status = InProgress =>
                  h.turn = OtherColor(player) /\ h.winner = g.winner /\ h.reason = g.reason
             /\ h.status = Finished => h.reason \in BoardReasons
<1> DEFINE board == Claimed(g.mode, MovePiece(g.board, player, from, to), player, to)
           verdict == Verdict(g.mode, board, player, to)
           moved == [g EXCEPT !.board = board, !.moves = @ + 1]
           h == ModeMove(g, player, from, to)
<1>1. verdict = NotOver \/ verdict.reason \in BoardReasons
  BY DEF Verdict, NotOver, BoardReasons
<1>2. h = IF verdict = NotOver THEN [moved EXCEPT !.turn = OtherColor(player)]
          ELSE [moved EXCEPT !.status = Finished, !.winner = verdict.winner,
                             !.reason = verdict.reason]
  BY DEF ModeMove
<1> HIDE DEF h, verdict, board
<1>3. CASE verdict = NotOver
  <2>1. h = [moved EXCEPT !.turn = OtherColor(player)]
    BY <1>2, <1>3
  <2>2. h.status = InProgress /\ h.turn = OtherColor(player) /\ h.winner = g.winner
        /\ h.reason = g.reason
    BY <2>1 DEF Games
  <2>3. h.mode = g.mode /\ h.plies = g.plies /\ h.pending = g.pending
        /\ h.emitted = g.emitted /\ h.endRecorded = g.endRecorded /\ h.timeBy = g.timeBy
    BY <2>1 DEF Games
  <2> QED
    BY <2>2, <2>3 DEF h, InProgress, Finished
<1>4. CASE verdict # NotOver
  <2>1. h = [moved EXCEPT !.status = Finished, !.winner = verdict.winner,
                          !.reason = verdict.reason]
    BY <1>2, <1>4
  <2>2. h.status = Finished /\ h.reason = verdict.reason
    BY <2>1 DEF Games
  <2>3. h.mode = g.mode /\ h.plies = g.plies /\ h.pending = g.pending
        /\ h.emitted = g.emitted /\ h.endRecorded = g.endRecorded /\ h.timeBy = g.timeBy
    BY <2>1 DEF Games
  <2> QED
    BY <1>1, <1>4, <2>2, <2>3 DEF h, InProgress, Finished
<1> QED
  BY <1>3, <1>4

LEMMA PlayedFields ==
  ASSUME NEW g \in Games, g.status = InProgress, NEW player \in Players,
         NEW from \in Squares, NEW to \in Squares
  PROVE  LET h == Played(g, player, from, to)
         IN  /\ h \in Games
             /\ h.mode = g.mode /\ h.plies = g.plies /\ h.pending = g.pending
             /\ h.emitted = g.emitted /\ h.endRecorded = g.endRecorded
             /\ h.remaining = g.remaining
             /\ h.status \in {InProgress, Finished}
             /\ h.status = InProgress => /\ h.turn = OtherColor(player)
                                         /\ h.timeBy = g.timeBy
             /\ h.status = Finished => h.reason \in BoardReasons
<1> DEFINE moved == ModeMove(g, player, from, to)
           still == AdjudicateStalemate(moved)
           captured == g.board[to].occupant # Empty
           h == CountQuietPly(still, captured)
           Kept(a, b) == /\ b.mode = a.mode /\ b.plies = a.plies /\ b.pending = a.pending
                         /\ b.emitted = a.emitted /\ b.endRecorded = a.endRecorded
           Ends(a, b) == /\ b.status = InProgress =>
                              b.turn = a.turn /\ b.timeBy = a.timeBy /\ a.status = InProgress
                         /\ b.status = Finished =>
                              b.reason \in BoardReasons \/ (a.status = Finished /\ b.reason = a.reason)
<1>1. moved \in Games /\ still \in Games /\ h \in Games
  BY ModeMoveType, StalemateType, QuietPlyType
<1>2. /\ Kept(g, moved) /\ moved.timeBy = g.timeBy
      /\ moved.status = InProgress => moved.turn = OtherColor(player)
      /\ moved.status = Finished => moved.reason \in BoardReasons
  BY ModeMoveFields
<1>3. h.remaining = g.remaining
  BY PlayedFrame
<1> HIDE DEF moved
<1>4. Kept(moved, still) /\ Ends(moved, still)
  <2>1. CASE still = moved
    BY <1>1, <2>1 DEF Games, InProgress, Finished
  <2>2. CASE still # moved
    <3> DEFINE winner == StalemateWinner(moved.mode, moved.turn)
    <3>1. still = FinishGame(moved, winner, "stalemate")
      BY <2>2 DEF AdjudicateStalemate
    <3>2. winner \in Colors /\ "stalemate" \in EndReasons
      BY <1>1, GameFields, ColorTypes DEF StalemateWinner, EndReasons
    <3> HIDE DEF still, winner
    <3>3. Kept(moved, still) /\ still.status = Finished /\ still.reason = "stalemate"
      BY <1>1, <3>1, <3>2, FinishedFields
    <3> QED
      BY <3>3 DEF InProgress, Finished, BoardReasons
  <2> QED
    BY <2>1, <2>2
<1> HIDE DEF still
<1>5. Kept(still, h) /\ Ends(still, h)
  <2> DEFINE counted == [still EXCEPT !.quiet = @ + 1]
  <2>1. \/ h = [still EXCEPT !.quiet = 0] \/ h = counted
        \/ still.status = InProgress /\ h = FinishGame(counted, Neutral, "no_capture")
    BY DEF CountQuietPly
  <2> HIDE DEF h
  <2>2. CASE h = [still EXCEPT !.quiet = 0] \/ h = counted
    BY <1>1, <2>2 DEF Games, InProgress, Finished
  <2>3. CASE h = FinishGame(counted, Neutral, "no_capture")
    <3>1. counted \in Games /\ Kept(still, counted)
      BY <1>1, CountedFields DEF Games
    <3>2. Neutral \in Colors /\ "no_capture" \in EndReasons
      BY ColorTypes DEF EndReasons
    <3> HIDE DEF counted
    <3>3. Kept(counted, h) /\ h.status = Finished /\ h.reason = "no_capture"
      BY <2>3, <3>1, <3>2, FinishedFields
    <3> QED
      BY <3>1, <3>3 DEF InProgress, Finished, BoardReasons
  <2> QED
    BY <2>1, <2>2, <2>3
<1> HIDE DEF h
<1>6. h.status \in {InProgress, Finished}
  BY <1>1 DEF Games
<1> QED
  BY <1>1, <1>2, <1>3, <1>4, <1>5, <1>6 DEF h, still, moved, captured, Played

\* The game as the move leaves it: played is what the board has come to.
AsMoved(g, played, h, player) ==
  /\ h \in Games
  /\ h.mode = g.mode /\ h.plies = g.plies /\ h.pending = g.pending
  /\ h.emitted = g.emitted /\ h.endRecorded = g.endRecorded
  /\ h.board = played.board /\ h.turn = played.turn
  /\ h.winner = played.winner /\ h.moves = played.moves
  /\ h.quiet = played.quiet
  /\ h.status = played.status /\ h.reason = played.reason
  /\ h.drawUsed = None /\ h.timeUsed = None /\ h.clockPending = FALSE /\ h.lag = 0
  /\ h.drawBy = IF h.status = Finished THEN None ELSE StillStanding(g.drawBy, player)
  /\ h.timeBy = IF h.status = Finished THEN None ELSE g.timeBy
  /\ h.active = IF h.status = Finished THEN Neutral ELSE h.turn
  /\ h.remaining = [g.remaining EXCEPT ![player] = AddMs(@, Increment)]
  /\ h.status \in {InProgress, Finished}
  /\ h.status = InProgress => h.turn = OtherColor(player)
  /\ h.status = Finished => h.reason \in BoardReasons

LEMMA MoveMadeFields ==
  ASSUME NEW g \in Games, g.status = InProgress, NEW player \in Players,
         NEW from \in Squares, NEW to \in Squares
  PROVE  AsMoved(g, Played(g, player, from, to), MoveMade(g, player, from, to), player)
<1> DEFINE played == Played(g, player, from, to)
           over == played.status = Finished
           left == [played.remaining EXCEPT ![player] = AddMs(@, Increment)]
           drawBy == IF over THEN None ELSE StillStanding(g.drawBy, player)
           timeBy == IF over THEN None ELSE played.timeBy
           active == IF over THEN Neutral ELSE played.turn
           h == [played EXCEPT !.drawBy = drawBy, !.timeBy = timeBy,
                               !.drawUsed = None, !.timeUsed = None,
                               !.clockPending = FALSE, !.remaining = left,
                               !.lag = 0, !.active = active]
<1>1. /\ played \in Games
      /\ played.mode = g.mode /\ played.plies = g.plies /\ played.pending = g.pending
      /\ played.emitted = g.emitted /\ played.endRecorded = g.endRecorded
      /\ played.remaining = g.remaining
      /\ played.status \in {InProgress, Finished}
      /\ played.status = InProgress => played.turn = OtherColor(player)
                                       /\ played.timeBy = g.timeBy
      /\ played.status = Finished => played.reason \in BoardReasons
  BY PlayedFields
<1>2. MoveMade(g, player, from, to) = h
  BY DEF MoveMade
<1> HIDE DEF played
<1>3. left \in [Players -> Nat] /\ active \in Colors
      /\ drawBy \in Offerers /\ timeBy \in Offerers
  <2>1. left \in [Players -> Nat]
    BY <1>1, GameFields, AddMsType, TimeAssumption
  <2>2. active \in Colors
    BY <1>1, GameFields, ColorTypes
  <2>3. drawBy \in Offerers
    BY DEF StillStanding, Offerers
  <2>4. timeBy \in Offerers
    BY <1>1 DEF Offerers, Games
  <2> QED
    BY <2>1, <2>2, <2>3, <2>4
<1>4. timeBy = IF over THEN None ELSE g.timeBy
  BY <1>1
<1>5. left = [g.remaining EXCEPT ![player] = AddMs(@, Increment)]
  BY <1>1
<1> HIDE DEF left, drawBy, timeBy, active
<1>6. h \in Games
  BY <1>1, <1>3, SettledType
<1>7. /\ h.mode = played.mode /\ h.plies = played.plies /\ h.pending = played.pending
      /\ h.emitted = played.emitted /\ h.endRecorded = played.endRecorded
      /\ h.board = played.board /\ h.turn = played.turn
      /\ h.winner = played.winner /\ h.moves = played.moves /\ h.quiet = played.quiet
      /\ h.status = played.status /\ h.reason = played.reason
      /\ h.drawUsed = None /\ h.timeUsed = None /\ h.clockPending = FALSE /\ h.lag = 0
      /\ h.drawBy = drawBy /\ h.timeBy = timeBy /\ h.active = active /\ h.remaining = left
  BY <1>1 DEF Games
<1> HIDE DEF h
<1> QED
  BY <1>1, <1>2, <1>4, <1>5, <1>6, <1>7 DEF drawBy, active, played, AsMoved

\* What settling does: nothing, a charge, or the end.
LEMMA SettlingFields ==
  ASSUME NEW g, Sound(g)
  PROVE  LET h == UpdateClock(g)
             fallen == FinishGame(Fallen(g), OtherColor(g.turn), "timeout")
         IN  \/ /\ h.emitted = <<>> /\ h.endRecorded = g.endRecorded
                /\ h.mode = g.mode /\ h.board = g.board /\ h.turn = g.turn
                /\ h.status = g.status /\ h.winner = g.winner /\ h.reason = g.reason
                /\ h.moves = g.moves /\ h.quiet = g.quiet /\ h.plies = g.plies
                /\ h.drawBy = g.drawBy /\ h.drawUsed = g.drawUsed
                /\ h.timeBy = g.timeBy /\ h.timeUsed = g.timeUsed
                /\ h.active = g.active /\ h.clockPending = g.clockPending
                /\ \E spent \in 0..g.remaining[g.turn] :
                     /\ h.pending = g.pending + spent
                     /\ h.remaining = [g.remaining EXCEPT ![g.turn] = @ - spent]
                     /\ spent > 0 => g.status = InProgress
             \/ /\ g.status = InProgress /\ h = RecordEnd(fallen, g.turn)
<1> DEFINE h == UpdateClock(g)
           fresh == [g EXCEPT !.emitted = <<>>]
           spends == g.status = InProgress /\ g.lag > 0
           Rest == /\ h.emitted = <<>> /\ h.endRecorded = g.endRecorded
                   /\ h.mode = g.mode /\ h.board = g.board /\ h.turn = g.turn
                   /\ h.status = g.status /\ h.winner = g.winner /\ h.reason = g.reason
                   /\ h.moves = g.moves /\ h.quiet = g.quiet /\ h.plies = g.plies
                   /\ h.drawBy = g.drawBy /\ h.drawUsed = g.drawUsed
                   /\ h.timeBy = g.timeBy /\ h.timeUsed = g.timeUsed
                   /\ h.active = g.active /\ h.clockPending = g.clockPending
<1>1. g \in Games /\ g.turn \in Players /\ g.remaining \in [Players -> Nat]
      /\ g.lag \in Int /\ g.pending \in Nat /\ g.remaining[g.turn] \in Nat
  BY SoundFields, GameFields
<1>2. CASE ~spends \/ g.clockPending
  <2>1. h = fresh \/ h = [fresh EXCEPT !.lag = 0]
    BY <1>2 DEF UpdateClock
  <2> HIDE DEF h
  <2>2. Rest /\ h.pending = g.pending /\ h.remaining = g.remaining
    BY <1>1, <2>1 DEF Games
  <2>3. 0 \in 0..g.remaining[g.turn] /\ g.pending = g.pending + 0
        /\ g.remaining = [g.remaining EXCEPT ![g.turn] = @ - 0]
    BY <1>1
  <2> QED
    BY <2>2, <2>3 DEF h
<1>3. CASE spends /\ ~g.clockPending /\ FlagFalls(g)
  BY <1>3 DEF UpdateClock, Fallen
<1>4. CASE spends /\ ~g.clockPending /\ ~FlagFalls(g)
  <2>1. h = [fresh EXCEPT !.pending = @ + g.lag, !.remaining[g.turn] = @ - g.lag,
                          !.lag = 0]
    BY <1>4 DEF UpdateClock
  <2> HIDE DEF h
  <2>2. /\ Rest /\ h.pending = g.pending + g.lag
        /\ h.remaining = [g.remaining EXCEPT ![g.turn] = @ - g.lag]
    BY <1>1, <2>1 DEF Games
  <2>3. g.lag \in 0..g.remaining[g.turn]
    BY <1>1, <1>4 DEF FlagFalls
  <2> QED
    BY <1>4, <2>2, <2>3 DEF h
<1> QED
  BY <1>2, <1>3, <1>4

\* A call that left the game as h has told the log of it.
Tells(g, h, event, kind, player, bonus) ==
  /\ event \in Events
  /\ event.kind = kind /\ event.player = player /\ event.bonus = bonus
  /\ event.ply = h.plies /\ event.elapsed = g.pending
  /\ event.winner = h.winner /\ event.reason = h.reason
  /\ h.pending = 0 /\ h.emitted = Append(g.emitted, event)

SameButOffers(g, h) ==
  /\ h.mode = g.mode /\ h.board = g.board /\ h.turn = g.turn /\ h.status = g.status
  /\ h.winner = g.winner /\ h.reason = g.reason /\ h.moves = g.moves
  /\ h.active = g.active /\ h.clockPending = g.clockPending
  /\ h.quiet = g.quiet /\ h.plies = g.plies /\ h.lag = g.lag
  /\ h.endRecorded = g.endRecorded

OffersAre(h, drawBy, drawUsed, timeBy, timeUsed) ==
  /\ h.drawBy = drawBy /\ h.drawUsed = drawUsed
  /\ h.timeBy = timeBy /\ h.timeUsed = timeUsed

Offering(g, h, kind, player) ==
  SameButOffers(g, h) /\ h.remaining = g.remaining
    /\ \E event : Tells(g, h, event, kind, player, 0)

LEMMA OffersAreTold ==
  ASSUME NEW g \in Games, NEW player \in Players
  PROVE  /\ /\ Offering(g, OfferedDraw(g, player), "draw_offer", player)
            /\ OffersAre(OfferedDraw(g, player), player, player, g.timeBy, g.timeUsed)
         /\ /\ Offering(g, DeclinedDraw(g, player), "draw_decline", player)
            /\ OffersAre(DeclinedDraw(g, player), None, g.drawUsed, g.timeBy, g.timeUsed)
         /\ /\ Offering(g, OfferedTime(g, player), "time_offer", player)
            /\ OffersAre(OfferedTime(g, player), g.drawBy, g.drawUsed, player, player)
         /\ /\ Offering(g, DeclinedTime(g, player), "time_decline", player)
            /\ OffersAre(DeclinedTime(g, player), g.drawBy, g.drawUsed, None, g.timeUsed)
<1>1. /\ player \in Offerers /\ None \in Offerers /\ player \in Colors
      /\ NoMove \in {NoMove} \cup (Squares \X Squares) /\ 0 \in Nat
  BY ColorTypes DEF Offerers
<1>2. ASSUME NEW changed \in Games, NEW kind \in Kinds,
             SameButOffers(g, changed), changed.remaining = g.remaining,
             changed.pending = g.pending, changed.emitted = g.emitted
      PROVE  LET h == RecordEvent(changed, kind, player, NoMove, 0)
             IN  /\ Offering(g, h, kind, player)
                 /\ OffersAre(h, changed.drawBy, changed.drawUsed, changed.timeBy,
                              changed.timeUsed)
  <2> DEFINE h == RecordEvent(changed, kind, player, NoMove, 0)
             event == Entry(changed, kind, player, NoMove, 0)
  <2>1. /\ h \in Games /\ SameButTheLog(changed, h)
        /\ h.pending = 0 /\ h.endRecorded = changed.endRecorded
        /\ event \in Events /\ h.emitted = Append(changed.emitted, event)
    BY <1>1, <1>2, EventIsRecorded, Zenon
  <2>2. /\ event.kind = kind /\ event.player = player /\ event.bonus = 0
        /\ event.ply = changed.plies /\ event.elapsed = changed.pending
        /\ event.winner = changed.winner /\ event.reason = changed.reason
    BY DEF Entry
  <2> HIDE DEF h, event
  <2>3. Tells(g, h, event, kind, player, 0)
    BY <1>2, <2>1, <2>2 DEF Tells, SameButTheLog
  <2>4. SameButOffers(g, h) /\ h.remaining = g.remaining
    BY <1>2, <2>1 DEF SameButOffers, SameButTheLog
  <2>5. OffersAre(h, changed.drawBy, changed.drawUsed, changed.timeBy, changed.timeUsed)
    BY <2>1 DEF OffersAre, SameButTheLog
  <2> QED
    BY <2>3, <2>4, <2>5 DEF h, Offering
<1> DEFINE Changes(c) == /\ c \in Games /\ SameButOffers(g, c) /\ c.remaining = g.remaining
                         /\ c.pending = g.pending /\ c.emitted = g.emitted
           drawOffered == [g EXCEPT !.drawBy = player, !.drawUsed = player]
           drawAnswered == [g EXCEPT !.drawBy = None]
           timeOffered == [g EXCEPT !.timeBy = player, !.timeUsed = player]
           timeAnswered == [g EXCEPT !.timeBy = None]
<1>3. Changes(drawOffered) /\ Changes(drawAnswered)
  BY <1>1 DEF Games, SameButOffers
<1>4. Changes(timeOffered) /\ Changes(timeAnswered)
  BY <1>1 DEF Games, SameButOffers
<1>5. /\ OffersAre(drawOffered, player, player, g.timeBy, g.timeUsed)
      /\ OffersAre(drawAnswered, None, g.drawUsed, g.timeBy, g.timeUsed)
      /\ OffersAre(timeOffered, g.drawBy, g.drawUsed, player, player)
      /\ OffersAre(timeAnswered, g.drawBy, g.drawUsed, None, g.timeUsed)
  BY DEF Games, OffersAre
<1>6. /\ OfferedDraw(g, player) = RecordEvent(drawOffered, "draw_offer", player, NoMove, 0)
      /\ DeclinedDraw(g, player) = RecordEvent(drawAnswered, "draw_decline", player, NoMove, 0)
      /\ OfferedTime(g, player) = RecordEvent(timeOffered, "time_offer", player, NoMove, 0)
      /\ DeclinedTime(g, player) = RecordEvent(timeAnswered, "time_decline", player, NoMove, 0)
  BY DEF OfferedDraw, DeclinedDraw, OfferedTime, DeclinedTime
<1>7. {"draw_offer", "draw_decline", "time_offer", "time_decline"} \subseteq Kinds
  BY DEF Kinds
<1> HIDE DEF drawOffered, drawAnswered, timeOffered, timeAnswered
<1>8. ASSUME NEW changed, Changes(changed), NEW kind \in Kinds,
             NEW a, NEW b, NEW c, NEW d, OffersAre(changed, a, b, c, d)
      PROVE  /\ Offering(g, RecordEvent(changed, kind, player, NoMove, 0), kind, player)
             /\ OffersAre(RecordEvent(changed, kind, player, NoMove, 0), a, b, c, d)
  BY <1>2, <1>8 DEF OffersAre
<1> HIDE DEF Changes
<1> QED
  BY <1>3, <1>4, <1>5, <1>6, <1>7, <1>8

LEMMA TimeIsTold ==
  ASSUME NEW g \in Games, NEW player \in Players
  PROVE  LET h == AcceptedTime(g, player)
         IN  /\ SameButOffers(g, h)
             /\ OffersAre(h, g.drawBy, g.drawUsed, None, g.timeUsed)
             /\ h.remaining = [c \in Players |-> AddMs(g.remaining[c], TimeExtension)]
             /\ \E event : Tells(g, h, event, "time_accept", player, TimeExtension)
<1> DEFINE left == [c \in Players |-> AddMs(g.remaining[c], TimeExtension)]
           given == [g EXCEPT !.timeBy = None, !.remaining = left]
           h == RecordEvent(given, "time_accept", player, NoMove, TimeExtension)
           event == Entry(given, "time_accept", player, NoMove, TimeExtension)
<1>1. /\ None \in Offerers /\ player \in Colors /\ TimeExtension \in Nat
      /\ NoMove \in {NoMove} \cup (Squares \X Squares) /\ "time_accept" \in Kinds
  BY ColorTypes, TimeAssumption DEF Offerers, Kinds
<1>2. left \in [Players -> Nat]
  BY GameFields, AddMsType, TimeAssumption
<1>3. AcceptedTime(g, player) = h
  BY DEF AcceptedTime
<1> HIDE DEF left
<1>4. /\ given \in Games /\ SameButOffers(g, given) /\ given.remaining = left
      /\ given.pending = g.pending /\ given.emitted = g.emitted
      /\ OffersAre(given, g.drawBy, g.drawUsed, None, g.timeUsed)
  BY <1>1, <1>2 DEF Games, SameButOffers, OffersAre
<1>5. /\ event.kind = "time_accept" /\ event.player = player /\ event.bonus = TimeExtension
      /\ event.ply = given.plies /\ event.elapsed = given.pending
      /\ event.winner = given.winner /\ event.reason = given.reason
  BY DEF Entry
<1> HIDE DEF given
<1>6. /\ h \in Games /\ SameButTheLog(given, h)
      /\ h.pending = 0 /\ h.endRecorded = given.endRecorded
      /\ event \in Events /\ h.emitted = Append(given.emitted, event)
  BY <1>1, <1>4, EventIsRecorded, Zenon
<1> HIDE DEF h, event
<1>7. Tells(g, h, event, "time_accept", player, TimeExtension)
  BY <1>4, <1>5, <1>6 DEF Tells, SameButTheLog
<1>8. SameButOffers(g, h) /\ h.remaining = left
  BY <1>4, <1>6 DEF SameButOffers, SameButTheLog
<1>9. OffersAre(h, g.drawBy, g.drawUsed, None, g.timeUsed)
  BY <1>4, <1>6 DEF OffersAre, SameButTheLog
<1> QED
  BY <1>3, <1>7, <1>8, <1>9 DEF left

\* The game is over: nothing but the result, the offers and the clock's owner
\* has changed, and the log says so.
Ending(g, h, player, winner, reason) ==
  /\ h \in Games
  /\ h.status = Finished /\ h.winner = winner /\ h.reason = reason
  /\ h.active = Neutral /\ OffersAre(h, None, None, None, None)
  /\ h.mode = g.mode /\ h.board = g.board /\ h.turn = g.turn /\ h.moves = g.moves
  /\ h.remaining = g.remaining /\ h.plies = g.plies /\ h.endRecorded
  /\ \E event : Tells(g, h, event, "end", player, 0)

LEMMA EndIsTold ==
  ASSUME NEW g \in Games, ~g.endRecorded, NEW player \in Colors,
         NEW winner \in Colors, NEW reason \in EndReasons
  PROVE  Ending(g, RecordEnd(FinishGame(g, winner, reason), player), player, winner, reason)
<1> DEFINE over == FinishGame(g, winner, reason)
           h == RecordEnd(over, player)
           event == Entry(over, "end", player, NoMove, 0)
<1>1. /\ over \in Games
      /\ over.status = Finished /\ over.winner = winner /\ over.reason = reason
      /\ OffersAre(over, None, None, None, None) /\ over.active = Neutral
      /\ over.mode = g.mode /\ over.board = g.board /\ over.turn = g.turn
      /\ over.moves = g.moves /\ over.remaining = g.remaining /\ over.plies = g.plies
      /\ over.pending = g.pending /\ over.endRecorded = g.endRecorded
      /\ over.emitted = g.emitted
  BY FinishedFields DEF OffersAre
<1> HIDE DEF over
<1>2. /\ h \in Games /\ SameButTheLog(over, h)
      /\ h.pending = 0 /\ h.endRecorded
      /\ event \in Events /\ h.emitted = Append(over.emitted, event)
  BY <1>1, EndIsRecorded, Zenon
<1>3. /\ event.kind = "end" /\ event.player = player /\ event.bonus = 0
      /\ event.ply = over.plies /\ event.elapsed = over.pending
      /\ event.winner = over.winner /\ event.reason = over.reason
  BY DEF Entry
<1> HIDE DEF h, event
<1>4. Tells(g, h, event, "end", player, 0)
  BY <1>1, <1>2, <1>3 DEF Tells, SameButTheLog
<1>5. OffersAre(h, None, None, None, None)
  BY <1>1, <1>2 DEF OffersAre, SameButTheLog
<1> QED
  BY <1>1, <1>2, <1>4, <1>5 DEF h, over, Ending, SameButTheLog

\* The move is told first, at the ply it makes, and then the end if it is one.
LEMMA MoveIsTold ==
  ASSUME NEW g \in Games, g.status = InProgress, NEW player \in Players,
         NEW from \in Squares, NEW to \in Squares
  PROVE  LET made == MoveMade(g, player, from, to)
             h == RecordMove(made, player, from, to)
         IN  /\ h \in Games /\ h.endRecorded = g.endRecorded /\ h.plies = g.plies + 1
             /\ h.mode = made.mode /\ h.board = made.board /\ h.turn = made.turn
             /\ h.status = made.status /\ h.winner = made.winner /\ h.reason = made.reason
             /\ h.moves = made.moves /\ h.remaining = made.remaining
             /\ h.active = made.active /\ h.clockPending = made.clockPending
             /\ h.quiet = made.quiet /\ h.lag = made.lag
             /\ OffersAre(h, made.drawBy, made.drawUsed, made.timeBy, made.timeUsed)
             /\ \E event : event.move = <<from, to>> /\ Tells(g, h, event, "move", player, 0)
<1> DEFINE made == MoveMade(g, player, from, to)
           counted == [made EXCEPT !.plies = @ + 1]
           h == RecordEvent(counted, "move", player, <<from, to>>, 0)
           event == Entry(counted, "move", player, <<from, to>>, 0)
<1> HIDE DEF counted, h, event
<1>0. AsMoved(g, Played(g, player, from, to), made, player)
  BY MoveMadeFields
<1>2. RecordMove(made, player, from, to) = h
  BY DEF RecordMove, h, counted
<1> HIDE DEF made
<1>1. /\ made \in Games /\ made.plies = g.plies /\ made.pending = g.pending
      /\ made.emitted = g.emitted /\ made.endRecorded = g.endRecorded
  BY <1>0 DEF AsMoved
<1> USE DEF counted
<1>3. /\ counted \in Games /\ counted.plies = g.plies + 1
      /\ counted.mode = made.mode /\ counted.board = made.board /\ counted.turn = made.turn
      /\ counted.status = made.status /\ counted.winner = made.winner
      /\ counted.reason = made.reason
      /\ counted.moves = made.moves /\ counted.remaining = made.remaining
      /\ counted.active = made.active /\ counted.clockPending = made.clockPending
      /\ counted.quiet = made.quiet /\ counted.lag = made.lag
      /\ OffersAre(counted, made.drawBy, made.drawUsed, made.timeBy, made.timeUsed)
      /\ counted.pending = g.pending /\ counted.endRecorded = g.endRecorded
      /\ counted.emitted = g.emitted
  <2>1. made.plies + 1 \in Nat
    BY <1>1, GameFields
  <2> QED
    BY <1>1, <2>1 DEF Games, OffersAre
<1> HIDE DEF counted
<1> USE DEF h, event
<1>4. /\ h \in Games /\ SameButTheLog(counted, h)
      /\ h.pending = 0 /\ h.endRecorded = counted.endRecorded
      /\ event \in Events /\ h.emitted = Append(counted.emitted, event)
  <2>1. /\ "move" \in Kinds /\ <<from, to>> \in {NoMove} \cup (Squares \X Squares)
        /\ 0 \in Nat /\ player \in Colors
    BY ColorTypes DEF Kinds
  <2> QED
    BY <1>3, <2>1, EventIsRecorded, Zenon
<1>5. /\ event.kind = "move" /\ event.player = player /\ event.bonus = 0
      /\ event.ply = counted.plies /\ event.elapsed = counted.pending
      /\ event.winner = counted.winner /\ event.reason = counted.reason
      /\ event.move = <<from, to>>
  BY DEF Entry
<1> HIDE DEF h, event
<1>6. Tells(g, h, event, "move", player, 0)
  BY <1>3, <1>4, <1>5 DEF Tells, SameButTheLog
<1>7. OffersAre(h, made.drawBy, made.drawUsed, made.timeBy, made.timeUsed)
  BY <1>3, <1>4 DEF OffersAre, SameButTheLog
<1> QED
  BY <1>2, <1>3, <1>4, <1>5, <1>6, <1>7 DEF made, SameButTheLog

\* What may be done to a game whose clock is settled and that is in progress.
Calls(g, h) ==
  \/ \E player \in Players, from, to \in Squares :
       LegalMove(g, player, from, to) /\ h = AfterMove(g, player, from, to)
  \/ \E player \in Players :
       \/ CanOfferDraw(g, player) /\ h = OfferedDraw(g, player)
       \/ CanAnswer(g, player, g.drawBy)
            /\ (h = DeclinedDraw(g, player) \/ h = AcceptedDraw(g, player))
       \/ CanOfferTime(g, player) /\ h = OfferedTime(g, player)
       \/ CanAnswer(g, player, g.timeBy)
            /\ (h = DeclinedTime(g, player) \/ h = AcceptedTime(g, player))
       \/ h = Resigned(g, player) \/ h = Abandoned(g, player)
  \/ \E winner \in Colors : h = Adjudicated(g, winner)
  \/ \E span \in HoldSpans : h = Held(g, span)

LEMMA StepsAreCalls ==
  ASSUME Next
  PROVE  \/ game' = [game EXCEPT !.lag = @ + 1, !.emitted = <<>>]
         \/ game' = UpdateClock(game)
         \/ UpdateClock(game).status = InProgress /\ Calls(UpdateClock(game), game')
<1> DEFINE g == UpdateClock(game)
<1> HIDE DEF g
<1>1. CASE TimePasses \/ Settle
  BY <1>1 DEF TimePasses, Settle
<1>2. CASE MoveAction
  BY <1>2 DEF MoveAction, Move, LegalMove, Calls
<1>3. ASSUME NEW player \in Players, OfferDraw(player) \/ OfferTimeExtension(player)
      PROVE  UpdateClock(game).status = InProgress /\ Calls(UpdateClock(game), game')
  BY <1>3 DEF OfferDraw, OfferTimeExtension, CanOfferDraw, CanOfferTime, Calls
<1>4. ASSUME NEW player \in Players,
             \/ AcceptDraw(player) \/ DeclineDraw(player)
             \/ AcceptTimeExtension(player) \/ DeclineTimeExtension(player)
      PROVE  UpdateClock(game).status = InProgress /\ Calls(UpdateClock(game), game')
  BY <1>4 DEF AcceptDraw, DeclineDraw, AcceptTimeExtension, DeclineTimeExtension,
              CanAnswer, Calls
<1>5. ASSUME NEW player \in Players, Resign(player) \/ Abandon(player)
      PROVE  UpdateClock(game).status = InProgress /\ Calls(UpdateClock(game), game')
  BY <1>5 DEF Resign, Abandon, Calls
<1>6. ASSUME NEW winner \in Colors, Adjudicate(winner)
      PROVE  UpdateClock(game).status = InProgress /\ Calls(UpdateClock(game), game')
  BY <1>6 DEF Adjudicate, Calls
<1>7. ASSUME NEW span \in HoldSpans, HoldClock(span)
      PROVE  UpdateClock(game).status = InProgress /\ Calls(UpdateClock(game), game')
  BY <1>7 DEF HoldClock, Calls
<1> QED
  BY <1>1, <1>2, <1>3, <1>4, <1>5, <1>6, <1>7
     DEF Next, UnproposedNext, OfferAction, EndAction

-----------------------------------------------------------------------------
(* The log reads right.                                                    *)

\* One event more.
LEMMA Appended ==
  ASSUME NEW S, NEW l \in Seq(S), NEW event \in S
  PROVE  LET k == Append(l, event)
         IN  /\ k \in Seq(S) /\ Len(l) \in Nat /\ Len(k) = Len(l) + 1
             /\ Len(k) \in 1..Len(k) /\ k[Len(k)] = event
             /\ \A i \in 1..Len(l) : i \in 1..Len(k) /\ i # Len(k) /\ k[i] = l[i]
             /\ \A i \in 1..Len(k) : i \in 1..Len(l) \/ i = Len(k)
             /\ l \o <<event>> = k /\ l \o <<>> = l
  OBVIOUS

LEMMA TwoAppended ==
  ASSUME NEW S, NEW l \in Seq(S), NEW first \in S, NEW second \in S
  PROVE  /\ l \o <<first, second>> = Append(Append(l, first), second)
         /\ Append(Append(<<>>, first), second) = <<first, second>>
         /\ Append(<<>>, first) = <<first>>
<1> DEFINE k == Append(Append(l, first), second)
           m == l \o <<first, second>>
<1>1. Append(Append(<<>>, first), second) = <<first, second>> /\ Append(<<>>, first) = <<first>>
  <2>1. Append(<<>>, first) = <<first>>
    OBVIOUS
  <2>2. Append(<<first>>, second) = <<first, second>>
    <3> DEFINE both == [i \in 1..2 |-> IF i = 1 THEN first ELSE second]
    <3>1. Append(<<first>>, second)[1] = first /\ Append(<<first>>, second)[2] = second
      OBVIOUS
    <3>2. Append(<<first>>, second) = both
      BY <3>1
    <3>3. <<first, second>> = both
      OBVIOUS
    <3> QED
      BY <3>2, <3>3
  <2> QED
    BY <2>1, <2>2
<1>2. k \in Seq(S) /\ m \in Seq(S) /\ Len(k) = Len(m) /\ Len(m) = Len(l) + 2 /\ Len(l) \in Nat
  OBVIOUS
<1>3. \A i \in 1..Len(m) : k[i] = m[i]
  OBVIOUS
<1> HIDE DEF k, m
<1>4. k = m
  BY <1>2, <1>3
<1> QED
  BY <1>1, <1>4 DEF k, m

\* Only the last event is an end, and no event is of a ply to come.
InOrder(g, l) ==
  \A i \in 1..Len(l) :
    l[i].ply <= g.plies /\ (l[i].kind = "end" => i = Len(l) /\ g.endRecorded)

OneOfferAPly(l) ==
  \A i, j \in 1..Len(l) :
    l[i].kind = "draw_offer" /\ l[j].kind = "draw_offer" /\ l[i].ply = l[j].ply => i = j

\* drawUsed remembers the offer of this turn.
OfferIsUsed(g, l) ==
  g.status = InProgress =>
    \A i \in 1..Len(l) : l[i].kind = "draw_offer" /\ l[i].ply = g.plies => g.drawUsed = g.turn

OfferStands(g, l, i) ==
  /\ l[i].kind = "draw_offer" /\ l[i].player = g.drawBy
  /\ g.plies = l[i].ply + (IF g.drawBy = g.turn THEN 0 ELSE 1)
  /\ \A j \in 1..Len(l) : j > i => l[j].kind # "draw_decline"

OfferIsFresh(g, l) == g.drawBy # None => \E i \in 1..Len(l) : OfferStands(g, l, i)

Kept(g, l) ==
  /\ l \in Seq(Events) /\ g.plies \in Nat
  /\ g.endRecorded \in BOOLEAN /\ (g.endRecorded => g.status = Finished)
  /\ InOrder(g, l) /\ OneOfferAPly(l) /\ OfferIsUsed(g, l) /\ OfferIsFresh(g, l)

LEMMA KeptSame ==
  ASSUME NEW g, NEW h, NEW l, Kept(g, l),
         h.plies = g.plies, h.endRecorded = g.endRecorded, h.turn = g.turn,
         h.drawBy = g.drawBy, h.drawUsed = g.drawUsed, h.status = g.status
  PROVE  Kept(h, l)
  BY DEF Kept, InOrder, OfferIsUsed, OfferIsFresh, OfferStands

LEMMA KeptOver ==
  ASSUME NEW g, NEW h, NEW l, Kept(g, l),
         h.plies = g.plies, h.endRecorded = g.endRecorded,
         h.drawBy = None, h.status = Finished
  PROVE  Kept(h, l)
  BY DEF Kept, InOrder, OfferIsUsed, OfferIsFresh, InProgress, Finished

\* An event that is no offer adds nothing to what stands.
LEMMA KeptAppended ==
  ASSUME NEW g, NEW h, NEW l, NEW event \in Events, Kept(g, l), ~g.endRecorded,
         h.plies \in Nat, g.plies <= h.plies, event.ply = h.plies,
         h.endRecorded \in BOOLEAN, h.endRecorded => h.status = Finished,
         event.kind = "end" => h.endRecorded,
         event.kind # "draw_offer",
         h.status = InProgress => h.plies > g.plies \/ (h.drawUsed = g.drawUsed /\ h.turn = g.turn
                                                          /\ g.status = InProgress),
         h.drawBy # None =>
           /\ event.kind # "draw_decline" /\ h.drawBy = g.drawBy
           /\ h.plies - g.plies = (IF h.drawBy = h.turn THEN 0 ELSE 1)
                                  - (IF g.drawBy = g.turn THEN 0 ELSE 1)
  PROVE  Kept(h, Append(l, event))
<1> DEFINE k == Append(l, event)
<1>1. /\ k \in Seq(Events) /\ Len(l) \in Nat /\ Len(k) = Len(l) + 1
      /\ Len(k) \in 1..Len(k) /\ k[Len(k)] = event
      /\ \A i \in 1..Len(l) : i \in 1..Len(k) /\ i # Len(k) /\ k[i] = l[i]
      /\ \A i \in 1..Len(k) : i \in 1..Len(l) \/ i = Len(k)
  BY Appended DEF Kept
<1>0. ASSUME NEW i \in 1..Len(l) PROVE l[i].ply \in Nat
  <2>1. l[i] \in Events
    BY DEF Kept
  <2> QED
    BY <2>1 DEF Events
<1> HIDE DEF k
<1>2. InOrder(h, k)
  BY <1>0, <1>1 DEF Kept, InOrder
<1>3. OneOfferAPly(k)
  BY <1>0, <1>1 DEF Kept, OneOfferAPly
<1>4. OfferIsUsed(h, k)
  BY <1>0, <1>1 DEF Kept, OfferIsUsed, InOrder
<1>5. OfferIsFresh(h, k)
  <2> SUFFICES ASSUME h.drawBy # None
               PROVE  \E i \in 1..Len(k) : OfferStands(h, k, i)
    BY DEF OfferIsFresh
  <2>1. PICK i \in 1..Len(l) : OfferStands(g, l, i)
    BY DEF Kept, OfferIsFresh
  <2>2. l[i].ply \in Nat /\ g.plies \in Nat /\ i \in 1..Len(k) /\ k[i] = l[i]
    BY <1>0, <1>1 DEF Kept
  <2>3. h.plies = l[i].ply + (IF h.drawBy = h.turn THEN 0 ELSE 1)
    BY <2>1, <2>2 DEF OfferStands
  <2>4. OfferStands(h, k, i)
    BY <1>1, <2>1, <2>2, <2>3 DEF OfferStands
  <2> QED
    BY <2>2, <2>4
<1> QED
  BY <1>1, <1>2, <1>3, <1>4, <1>5 DEF Kept, k

LEMMA KeptOffered ==
  ASSUME NEW g, NEW h, NEW l, NEW event \in Events, Kept(g, l), ~g.endRecorded,
         g.status = InProgress, h.status = InProgress, g.drawUsed # g.turn,
         h.plies = g.plies, event.ply = h.plies, h.endRecorded = g.endRecorded,
         h.turn = g.turn, h.drawBy = g.turn, h.drawUsed = g.turn,
         event.kind = "draw_offer", event.player = g.turn
  PROVE  Kept(h, Append(l, event))
<1> DEFINE k == Append(l, event)
<1>1. /\ k \in Seq(Events) /\ Len(l) \in Nat /\ Len(k) = Len(l) + 1
      /\ Len(k) \in 1..Len(k) /\ k[Len(k)] = event
      /\ \A i \in 1..Len(l) : i \in 1..Len(k) /\ i # Len(k) /\ k[i] = l[i]
      /\ \A i \in 1..Len(k) : i \in 1..Len(l) \/ i = Len(k)
  BY Appended DEF Kept
<1> HIDE DEF k
<1>2. \A i \in 1..Len(l) : l[i].kind = "draw_offer" => l[i].ply # event.ply
  BY DEF Kept, OfferIsUsed
<1>3. InOrder(h, k) /\ OneOfferAPly(k)
  BY <1>1, <1>2 DEF Kept, InOrder, OneOfferAPly
<1>4. OfferStands(h, k, Len(k))
  BY <1>1 DEF Kept, OfferStands
<1> QED
  BY <1>1, <1>3, <1>4 DEF Kept, OfferIsUsed, OfferIsFresh, k

\* A game just settled has told the log nothing, unless the flag has fallen.
LEMMA SettlingKeeps ==
  ASSUME NEW g, NEW l, Sound(g), Kept(g, l)
  PROVE  Kept(UpdateClock(g), l \o UpdateClock(g).emitted)
<1> DEFINE h == UpdateClock(g)
           fallen == FinishGame(Fallen(g), OtherColor(g.turn), "timeout")
<1>1. l \in Seq(Events)
  BY DEF Kept
<1>2. \/ /\ h.emitted = <<>> /\ h.plies = g.plies /\ h.endRecorded = g.endRecorded
         /\ h.turn = g.turn /\ h.drawBy = g.drawBy /\ h.drawUsed = g.drawUsed
         /\ h.status = g.status
      \/ g.status = InProgress /\ h = RecordEnd(fallen, g.turn)
  BY SettlingFields
<1> HIDE DEF h
<1>3. CASE h.emitted = <<>> /\ h.plies = g.plies /\ h.endRecorded = g.endRecorded
           /\ h.turn = g.turn /\ h.drawBy = g.drawBy /\ h.drawUsed = g.drawUsed
           /\ h.status = g.status
  <2>1. l \o h.emitted = l
    BY <1>1, <1>3
  <2> QED
    BY <1>3, <2>1, KeptSame DEF h
<1>4. CASE g.status = InProgress /\ h = RecordEnd(fallen, g.turn)
  <2>1. /\ Fallen(g) \in Games /\ g.turn \in Colors /\ OtherColor(g.turn) \in Colors
        /\ "timeout" \in EndReasons
    BY SoundFields, FallenFields DEF EndReasons
  <2>2. /\ Fallen(g).emitted = <<>> /\ Fallen(g).plies = g.plies
        /\ Fallen(g).endRecorded = g.endRecorded
    BY SoundFields DEF Fallen, Games
  <2>3. ~g.endRecorded
    BY <1>4 DEF Kept, InProgress, Finished
  <2>4. Ending(Fallen(g), h, g.turn, OtherColor(g.turn), "timeout")
    BY <1>4, <2>1, <2>2, <2>3, EndIsTold
  <2>5. PICK event : Tells(Fallen(g), h, event, "end", g.turn, 0)
    BY <2>4 DEF Ending
  <2>6. l \o h.emitted = Append(l, event)
    BY <1>1, <2>2, <2>5, Appended DEF Tells
  <2>7. Kept(h, Append(l, event))
    <3>1. /\ h.plies = g.plies /\ h.endRecorded = TRUE /\ h.status = Finished
          /\ h.drawBy = None /\ g.plies \in Nat
          /\ event \in Events /\ event.kind = "end" /\ event.ply = h.plies
      BY <2>2, <2>4, <2>5 DEF Ending, Tells, OffersAre, Kept, Games
    <3>2. h.plies \in Nat /\ g.plies <= h.plies /\ event.kind # "draw_offer"
      BY <3>1
    <3>3. h.endRecorded \in BOOLEAN /\ h.status # InProgress
      BY <3>1, Zenon DEF InProgress, Finished
    <3> QED
      BY <2>3, <3>1, <3>2, <3>3, KeptAppended
  <2> QED
    BY <2>6, <2>7 DEF h
<1> QED
  BY <1>2, <1>3, <1>4

LEMMA OneTold ==
  ASSUME NEW g, NEW h, NEW l \in Seq(Events), NEW event, NEW kind, NEW player, NEW bonus,
         g.emitted = <<>>, Tells(g, h, event, kind, player, bonus)
  PROVE  l \o h.emitted = Append(l, event)
<1>1. event \in Events /\ h.emitted = Append(<<>>, event)
  BY DEF Tells
<1>2. h.emitted = <<event>>
  BY <1>1, TwoAppended
<1> QED
  BY <1>1, <1>2, Appended

\* In a live game no end has been told.
LEMMA NoEndYet ==
  ASSUME NEW g, NEW l, Sound(g), Kept(g, l), g.status = InProgress
  PROVE  /\ g.endRecorded = FALSE /\ g.plies \in Nat /\ l \in Seq(Events)
         /\ g \in Games /\ g.turn \in Players /\ OtherColor(g.turn) # g.turn
  BY ColorTypes DEF Sound, Kept, Games, InProgress, Finished

LEMMA OffersKeep ==
  ASSUME NEW g, NEW h, NEW l, Sound(g), Kept(g, l), g.status = InProgress, g.emitted = <<>>,
         NEW player \in Players,
         \/ CanOfferDraw(g, player) /\ h = OfferedDraw(g, player)
         \/ h = DeclinedDraw(g, player) \/ h = OfferedTime(g, player)
         \/ h = DeclinedTime(g, player) \/ h = AcceptedTime(g, player)
  PROVE  Kept(h, l \o h.emitted)
<1>1. /\ g.endRecorded = FALSE /\ g.plies \in Nat /\ l \in Seq(Events) /\ g \in Games
  BY NoEndYet
<1>2. CASE CanOfferDraw(g, player) /\ h = OfferedDraw(g, player)
  <2>1. SameButOffers(g, h) /\ h.drawBy = player /\ h.drawUsed = player
    BY <1>1, <1>2, OffersAreTold DEF Offering, OffersAre
  <2>2. PICK event : Tells(g, h, event, "draw_offer", player, 0)
    BY <1>1, <1>2, OffersAreTold DEF Offering
  <2>3. Kept(h, Append(l, event))
    BY <1>1, <1>2, <2>1, <2>2, KeptOffered DEF CanOfferDraw, SameButOffers, Tells
  <2> QED
    BY <1>1, <2>2, <2>3, OneTold
<1>3. CASE h = DeclinedDraw(g, player) \/ h = OfferedTime(g, player)
           \/ h = DeclinedTime(g, player) \/ h = AcceptedTime(g, player)
  <2>1. /\ SameButOffers(g, h) /\ h.drawUsed = g.drawUsed
        /\ \E event : \E kind \in Kinds : \E bonus :
             /\ Tells(g, h, event, kind, player, bonus)
             /\ kind \notin {"draw_offer", "end"}
             /\ kind = "draw_decline" => h.drawBy = None
             /\ h.drawBy # None => h.drawBy = g.drawBy
    <3>1. CASE h = DeclinedDraw(g, player)
      BY <1>1, <3>1, OffersAreTold DEF Offering, OffersAre, Kinds
    <3>2. CASE h = OfferedTime(g, player)
      BY <1>1, <3>2, OffersAreTold DEF Offering, OffersAre, Kinds
    <3>3. CASE h = DeclinedTime(g, player)
      BY <1>1, <3>3, OffersAreTold DEF Offering, OffersAre, Kinds
    <3>4. CASE h = AcceptedTime(g, player)
      BY <1>1, <3>4, TimeIsTold DEF OffersAre, Kinds
    <3> QED
      BY <1>3, <3>1, <3>2, <3>3, <3>4
  <2>2. PICK event : \E kind \in Kinds : \E bonus :
             /\ Tells(g, h, event, kind, player, bonus)
             /\ kind \notin {"draw_offer", "end"}
             /\ kind = "draw_decline" => h.drawBy = None
             /\ h.drawBy # None => h.drawBy = g.drawBy
    BY <2>1
  <2>3. Kept(h, Append(l, event))
    <3>1. /\ event \in Events /\ event.kind \notin {"draw_offer", "end"} /\ event.ply = h.plies
          /\ event.kind = "draw_decline" => h.drawBy = None
          /\ h.drawBy # None => h.drawBy = g.drawBy
      BY <2>2 DEF Tells
    <3>2. /\ h.plies = g.plies /\ h.turn = g.turn /\ h.status = g.status
          /\ h.endRecorded = FALSE /\ h.drawUsed = g.drawUsed
      BY <1>1, <2>1 DEF SameButOffers
    <3>3. h.endRecorded \in BOOLEAN
      BY <3>2, Zenon
    <3>4. h.plies \in Nat /\ g.plies <= h.plies
      BY <1>1, <3>2
    <3> QED
      BY <1>1, <3>1, <3>2, <3>3, <3>4, KeptAppended
  <2> QED
    BY <1>1, <2>2, <2>3, OneTold
<1> QED
  BY <1>2, <1>3

LEMMA EndKeeps ==
  ASSUME NEW g, NEW h, NEW l, Kept(g, l), ~g.endRecorded, g.emitted = <<>>,
         NEW player, NEW winner, NEW reason, Ending(g, h, player, winner, reason)
  PROVE  Kept(h, l \o h.emitted)
<1>1. PICK event : Tells(g, h, event, "end", player, 0)
  BY DEF Ending
<1>2. /\ h.plies = g.plies /\ h.status = Finished /\ h.drawBy = None /\ h \in Games
      /\ g.plies \in Nat /\ l \in Seq(Events)
      /\ event \in Events /\ event.kind = "end" /\ event.ply = h.plies
  BY <1>1 DEF Ending, Tells, OffersAre, Kept
<1>3. h.endRecorded /\ h.endRecorded \in BOOLEAN
  BY <1>2, Zenon DEF Ending, Games
<1>4. h.plies \in Nat /\ g.plies <= h.plies /\ event.kind # "draw_offer"
  BY <1>2
<1>5. h.status # InProgress
  BY <1>2 DEF InProgress, Finished
<1>6. Kept(h, Append(l, event))
  BY <1>2, <1>3, <1>4, <1>5, KeptAppended
<1> QED
  BY <1>1, <1>2, <1>6, OneTold

LEMMA CallsEnding ==
  ASSUME NEW g \in Games, ~g.endRecorded, NEW player \in Players
  PROVE  /\ Ending(g, AcceptedDraw(g, player), player, Neutral, "draw_agreement")
         /\ Ending(g, Resigned(g, player), player, OtherColor(player), "resignation")
         /\ Ending(g, Abandoned(g, player), player, OtherColor(player), "abandonment")
<1>1. /\ player \in Colors /\ Neutral \in Colors /\ OtherColor(player) \in Colors
      /\ {"draw_agreement", "resignation", "abandonment"} \subseteq EndReasons
  BY ColorTypes DEF EndReasons
<1> QED
  BY <1>1, EndIsTold DEF AcceptedDraw, Resigned, Abandoned

\* A move disposes of the opponent's offer and leaves the mover's.
LEMMA MovesKeep ==
  ASSUME NEW g, NEW l, Sound(g), Kept(g, l), g.status = InProgress, g.emitted = <<>>,
         NEW from \in Squares, NEW to \in Squares
  PROVE  LET h == AfterMove(g, g.turn, from, to) IN Kept(h, l \o h.emitted)
<1> DEFINE player == g.turn
           made == MoveMade(g, player, from, to)
           m == RecordMove(made, player, from, to)
           h == AfterMove(g, player, from, to)
<1>1. /\ g.endRecorded = FALSE /\ g.plies \in Nat /\ l \in Seq(Events) /\ g \in Games
      /\ player \in Players /\ player \in Colors /\ OtherColor(player) # player
  BY NoEndYet, ColorTypes
<1>2. h = RecordEnd(m, player)
  BY AfterMoveRecords
<1>3. AsMoved(g, Played(g, player, from, to), made, player)
  BY <1>1, MoveMadeFields
<1>4. /\ m \in Games /\ m.endRecorded = g.endRecorded /\ m.plies = g.plies + 1
      /\ m.turn = made.turn /\ m.status = made.status
      /\ OffersAre(m, made.drawBy, made.drawUsed, made.timeBy, made.timeUsed)
      /\ \E event : event.move = <<from, to>> /\ Tells(g, m, event, "move", player, 0)
  BY <1>1, MoveIsTold
<1> HIDE DEF made, m, h, player
<1>5. PICK event : Tells(g, m, event, "move", player, 0)
  BY <1>4
<1>6. /\ m.drawBy # None => g.drawBy = player /\ m.drawBy = player
      /\ m.drawBy # None => m.turn = OtherColor(player)
  BY <1>3, <1>4 DEF AsMoved, OffersAre, StillStanding
<1>7. Kept(m, Append(l, event))
  <2>1. /\ event \in Events /\ event.kind = "move" /\ event.ply = m.plies
        /\ m.plies \in Nat /\ g.plies <= m.plies /\ m.plies > g.plies
    BY <1>1, <1>4, <1>5 DEF Tells
  <2>2. m.endRecorded = FALSE /\ m.endRecorded \in BOOLEAN
    BY <1>1, <1>4, Zenon
  <2>3. m.drawBy # None =>
          /\ m.drawBy = g.drawBy
          /\ m.plies - g.plies = (IF m.drawBy = m.turn THEN 0 ELSE 1)
                                 - (IF g.drawBy = g.turn THEN 0 ELSE 1)
    BY <1>1, <1>4, <1>6 DEF player
  <2> QED
    BY <1>1, <2>1, <2>2, <2>3, KeptAppended
<1>8. l \o m.emitted = Append(l, event) /\ event \in Events /\ m.emitted = <<event>>
  BY <1>1, <1>5, OneTold, TwoAppended DEF Tells
<1>9. CASE m.status # Finished
  BY <1>1, <1>2, <1>4, <1>7, <1>8, <1>9, EndIsRecorded DEF h, player
<1>10. CASE m.status = Finished
  <2> DEFINE end == Entry(m, "end", player, NoMove, 0)
  <2>1. /\ h \in Games /\ SameButTheLog(m, h) /\ h.endRecorded
        /\ end \in Events /\ h.emitted = Append(m.emitted, end)
    BY <1>1, <1>2, <1>4, <1>10, EndIsRecorded
  <2>2. end.kind = "end" /\ end.ply = m.plies
    BY DEF Entry
  <2> HIDE DEF end
  <2>3. Kept(h, Append(Append(l, event), end))
    <3>1. /\ h.plies = m.plies /\ h.status = Finished /\ h.drawBy = None
          /\ end.ply = h.plies /\ end.kind # "draw_offer" /\ h.plies \in Nat
          /\ m.plies <= h.plies
      <4>1. made.status = Finished /\ made.drawBy = None
        BY <1>3, <1>4, <1>10 DEF AsMoved
      <4>2. m.drawBy = None /\ m.plies \in Nat
        BY <1>1, <1>4, <4>1 DEF OffersAre
      <4> QED
        BY <1>10, <2>1, <2>2, <4>2 DEF SameButTheLog
    <3>2. h.endRecorded \in BOOLEAN /\ ~m.endRecorded
      BY <1>1, <1>4, <2>1, Zenon DEF Games
    <3>3. h.status # InProgress
      BY <3>1 DEF InProgress, Finished
    <3> QED
      BY <1>7, <2>1, <2>2, <3>1, <3>2, <3>3, KeptAppended
  <2>4. l \o h.emitted = Append(Append(l, event), end)
    BY <1>1, <1>8, <2>1, TwoAppended
  <2> QED
    BY <2>3, <2>4 DEF h, player
<1> QED
  BY <1>9, <1>10

LEMMA CallsKeep ==
  ASSUME NEW g, NEW h, NEW l, Sound(g), Kept(g, l), g.status = InProgress, g.emitted = <<>>,
         Calls(g, h)
  PROVE  Kept(h, l \o h.emitted)
<1>1. /\ g.endRecorded = FALSE /\ g.plies \in Nat /\ l \in Seq(Events) /\ g \in Games
  BY NoEndYet
<1>2. ASSUME NEW player \in Players, NEW from \in Squares, NEW to \in Squares,
             LegalMove(g, player, from, to), h = AfterMove(g, player, from, to)
      PROVE  Kept(h, l \o h.emitted)
  BY <1>2, MovesKeep DEF LegalMove
<1>3. ASSUME NEW player \in Players,
             \/ CanOfferDraw(g, player) /\ h = OfferedDraw(g, player)
             \/ h = DeclinedDraw(g, player) \/ h = OfferedTime(g, player)
             \/ h = DeclinedTime(g, player) \/ h = AcceptedTime(g, player)
      PROVE  Kept(h, l \o h.emitted)
  BY <1>3, OffersKeep
<1>4. ASSUME NEW player \in Players,
             h = AcceptedDraw(g, player) \/ h = Resigned(g, player) \/ h = Abandoned(g, player)
      PROVE  Kept(h, l \o h.emitted)
  BY <1>1, <1>4, CallsEnding, EndKeeps
<1>5. ASSUME NEW winner \in Colors, h = Adjudicated(g, winner)
      PROVE  Kept(h, l \o h.emitted)
  <2>1. "adjudication" \in EndReasons
    BY DEF EndReasons
  <2>2. /\ h.plies = g.plies /\ h.endRecorded = g.endRecorded /\ h.emitted = g.emitted
        /\ h.drawBy = None /\ h.status = Finished
    BY <1>1, <1>5, <2>1, FinishedFields DEF Adjudicated
  <2>3. l \o h.emitted = l
    BY <1>1, <2>2
  <2> QED
    BY <2>2, <2>3, KeptOver
<1>6. ASSUME NEW span \in HoldSpans, h = Held(g, span)
      PROVE  Kept(h, l \o h.emitted)
  <2>1. /\ h.plies = g.plies /\ h.endRecorded = g.endRecorded /\ h.turn = g.turn
        /\ h.drawBy = g.drawBy /\ h.drawUsed = g.drawUsed /\ h.status = g.status
        /\ h.emitted = g.emitted
    BY <1>1, <1>6 DEF Held, Games
  <2>2. l \o h.emitted = l
    BY <1>1, <2>1
  <2> QED
    BY <2>1, <2>2, KeptSame
<1> QED
  BY <1>2, <1>3, <1>4, <1>5, <1>6 DEF Calls

\* newGame, before it is asked whether anybody can move.
Opened(mode, deferred) ==
  [mode |-> mode, board |-> OpeningBoard(mode), turn |-> FirstToMove, status |-> InProgress,
   winner |-> Neutral, reason |-> NoReason, moves |-> 0,
   drawBy |-> None, drawUsed |-> None, timeBy |-> None, timeUsed |-> None,
   remaining |-> [c \in Players |-> InitialTime],
   active |-> IF deferred THEN Neutral ELSE FirstToMove,
   clockPending |-> deferred,
   quiet |-> 0, plies |-> 0, pending |-> 0, endRecorded |-> FALSE,
   lag |-> 0, emitted |-> <<>>]

LEMMA OpenedFields ==
  ASSUME NEW mode \in Modes, NEW deferred \in BOOLEAN
  PROVE  LET opened == Opened(mode, deferred)
             h == NewGame(mode, deferred)
         IN  /\ opened \in Games
             /\ HasLegalMove(opened) => h = opened
             /\ ~HasLegalMove(opened) =>
                  Ending(opened, h, Neutral, StalemateWinner(mode, FirstToMove), "stalemate")
<1> DEFINE opened == Opened(mode, deferred)
           over == FinishGame(opened, StalemateWinner(mode, FirstToMove), "stalemate")
<1>1. opened \in Games
  BY OpenedType DEF Opened
<1>2. /\ opened.mode = mode /\ opened.turn = FirstToMove /\ opened.status = InProgress
      /\ opened.endRecorded = FALSE
  BY DEF Opened
<1>3. NewGame(mode, deferred) = RecordEnd(AdjudicateStalemate(opened), Neutral)
  BY DEF NewGame, Opened
<1> HIDE DEF opened
<1>4. CASE HasLegalMove(opened)
  <2>1. AdjudicateStalemate(opened) = opened
    BY <1>4 DEF AdjudicateStalemate
  <2>2. RecordEnd(opened, Neutral) = opened
    BY <1>2 DEF RecordEnd, InProgress, Finished
  <2> QED
    BY <1>1, <1>3, <1>4, <2>1, <2>2 DEF opened
<1>5. CASE ~HasLegalMove(opened)
  <2>1. AdjudicateStalemate(opened) = over
    BY <1>2, <1>5 DEF AdjudicateStalemate
  <2>2. /\ Neutral \in Colors /\ StalemateWinner(mode, FirstToMove) \in Colors
        /\ "stalemate" \in EndReasons
    BY ColorTypes DEF StalemateWinner, EndReasons, FirstToMove, Players, Colors
  <2>3. Ending(opened, RecordEnd(over, Neutral), Neutral, StalemateWinner(mode, FirstToMove),
               "stalemate")
    BY <1>1, <1>2, <2>2, EndIsTold
  <2> QED
    BY <1>1, <1>3, <1>5, <2>1, <2>3 DEF opened
<1> QED
  BY <1>4, <1>5

LEMMA NewGameIsKept ==
  ASSUME NEW mode \in Modes, NEW deferred \in BOOLEAN
  PROVE  Kept(NewGame(mode, deferred), NewGame(mode, deferred).emitted)
<1> DEFINE opened == Opened(mode, deferred)
           h == NewGame(mode, deferred)
<1>1. /\ opened.plies = 0 /\ opened.endRecorded = FALSE /\ opened.emitted = <<>>
      /\ opened.drawBy = None
  BY DEF Opened
<1>2. /\ opened \in Games
      /\ HasLegalMove(opened) => h = opened
      /\ ~HasLegalMove(opened) =>
           Ending(opened, h, Neutral, StalemateWinner(mode, FirstToMove), "stalemate")
  BY OpenedFields
<1> HIDE DEF opened, h
<1>3. Kept(opened, <<>>)
  <2>1. <<>> \in Seq(Events) /\ 1..Len(<<>>) = {}
    OBVIOUS
  <2>2. opened.endRecorded \in BOOLEAN
    BY <1>1, Zenon
  <2> QED
    BY <1>1, <2>1, <2>2
       DEF Kept, InOrder, OneOfferAPly, OfferIsUsed, OfferIsFresh
<1>4. CASE ~HasLegalMove(opened)
  <2>1. Kept(h, <<>> \o h.emitted)
    BY <1>1, <1>2, <1>3, <1>4, EndKeeps
  <2>2. h.emitted \in Seq(Events)
    BY <1>2, <1>4 DEF Ending, Games
  <2>3. <<>> \o h.emitted = h.emitted
    BY <2>2
  <2> QED
    BY <2>1, <2>3 DEF h
<1> QED
  BY <1>1, <1>2, <1>3, <1>4 DEF h

LEMMA SettledInProgress ==
  ASSUME NEW g, Sound(g), UpdateClock(g).status = InProgress
  PROVE  UpdateClock(g).emitted = <<>>
<1> DEFINE h == UpdateClock(g)
           fallen == FinishGame(Fallen(g), OtherColor(g.turn), "timeout")
<1>1. h.emitted = <<>> \/ h = RecordEnd(fallen, g.turn)
  BY SettlingFields
<1> HIDE DEF h
<1>2. CASE h = RecordEnd(fallen, g.turn)
  <2>1. /\ Fallen(g) \in Games /\ g.turn \in Colors /\ OtherColor(g.turn) \in Colors
        /\ "timeout" \in EndReasons
    BY SoundFields, FallenFields DEF EndReasons
  <2>2. fallen \in Games /\ fallen.status = Finished
    BY <2>1, FinishedFields
  <2> HIDE DEF fallen
  <2>3. h.status = Finished
    BY <1>2, <2>1, <2>2, EndIsRecorded DEF SameButTheLog
  <2> QED
    BY <2>3 DEF h, InProgress, Finished
<1> QED
  BY <1>1, <1>2 DEF h

\* Every step of the game is a step of the record: a call, a settling or time.
LEMMA StepsKeep ==
  ASSUME Sound(game), Kept(game, log), RecordNext
  PROVE  Kept(game', log')
<1> DEFINE g == UpdateClock(game)
<1>1. Next /\ log' = log \o game'.emitted /\ log \in Seq(Events) /\ game \in Games
  BY DEF RecordNext, Kept, Sound
<1>2. CASE game' = [game EXCEPT !.lag = @ + 1, !.emitted = <<>>]
  <2> DEFINE h == [game EXCEPT !.lag = @ + 1, !.emitted = <<>>]
  <2>1. /\ h.plies = game.plies /\ h.endRecorded = game.endRecorded /\ h.turn = game.turn
        /\ h.drawBy = game.drawBy /\ h.drawUsed = game.drawUsed /\ h.status = game.status
        /\ h.emitted = <<>>
    BY <1>1 DEF Games
  <2> HIDE DEF h
  <2>2. Kept(h, log)
    BY <2>1, KeptSame
  <2>3. log' = log
    BY <1>1, <1>2, <2>1 DEF h
  <2> QED
    BY <1>2, <2>2, <2>3 DEF h
<1>3. CASE game' = g
  BY <1>1, <1>3, SettlingKeeps
<1>4. CASE g.status = InProgress /\ Calls(g, game')
  <2>1. Sound(g) /\ g.emitted = <<>> /\ Kept(g, log)
    <3>1. Sound(g)
      BY UpdateClockSound
    <3>2. g.emitted = <<>>
      BY <1>4, SettledInProgress
    <3>3. log \o g.emitted = log
      BY <1>1, <3>2
    <3> QED
      BY <3>1, <3>2, <3>3, SettlingKeeps
  <2> QED
    BY <1>1, <1>4, <2>1, CallsKeep
<1> QED
  BY <1>1, <1>2, <1>3, <1>4, StepsAreCalls

LEMMA RecordsAreGames == RecordSpec => Spec
<1>1. RecordInit => Init
  BY DEF RecordInit
<1>2. [RecordNext]_recordVars => [Next]_game
  BY DEF RecordNext, recordVars
<1> QED
  BY <1>1, <1>2, PTL DEF RecordSpec, Spec

LEMMA RecordIsKept == RecordSpec => [](GameInv /\ Kept(game, log))
<1>1. RecordInit => Kept(game, log)
  <2> SUFFICES ASSUME NEW mode \in Modes, game = NewGame(mode, ClockStartsOnFirstMove),
                      log = game.emitted
               PROVE  Kept(game, log)
    BY DEF RecordInit, Init
  <2> QED
    BY NewGameIsKept, FlagAssumption
<1>2. GameInv /\ Kept(game, log) /\ [RecordNext]_recordVars => Kept(game, log)'
  <2> SUFFICES ASSUME Sound(game), Kept(game, log), [RecordNext]_recordVars
               PROVE  Kept(game', log')
    BY DEF GameInv
  <2>1. CASE RecordNext
    BY <2>1, StepsKeep
  <2>2. CASE UNCHANGED recordVars
    BY <2>2 DEF recordVars
  <2> QED
    BY <2>1, <2>2
<1> QED
  BY <1>1, <1>2, RecordsAreGames, GamesAreSound, PTL DEF RecordSpec

\* Read as an arbiter would, the log of a game is in order whatever is called:
\* one ending and nothing after it, one draw offer a turn, and a standing offer
\* that no move and no answer has disposed of (GameRecord!LogReadsRight).
THEOREM TheLogReadsRight == RecordSpec => []LogReadsRight
<1>1. Kept(game, log) => LogReadsRight
  <2> SUFFICES ASSUME Kept(game, log) PROVE LogReadsRight
    OBVIOUS
  <2>1. EndIsLast
    BY DEF EndIsLast, Indices, Kept, InOrder
  <2>2. DrawOfferedOncePerTurn
    BY DEF DrawOfferedOncePerTurn, Indices, Kept, OneOfferAPly
  <2>3. StandingDrawOfferIsFresh
    <3> SUFFICES ASSUME game.drawBy # None
                 PROVE  \E i \in 1..Len(log) :
                          /\ log[i].kind = "draw_offer" /\ log[i].player = game.drawBy
                          /\ game.plies - log[i].ply <= 1
                          /\ \A j \in 1..Len(log) : j > i => log[j].kind # "draw_decline"
      BY DEF StandingDrawOfferIsFresh, Indices
    <3>1. PICK i \in 1..Len(log) : OfferStands(game, log, i)
      BY DEF Kept, OfferIsFresh
    <3>2. log[i].ply \in Nat
      <4>1. log[i] \in Events
        BY DEF Kept
      <4> QED
        BY <4>1 DEF Events
    <3>3. game.plies - log[i].ply <= 1
      BY <3>1, <3>2 DEF OfferStands
    <3> QED
      BY <3>1, <3>3 DEF OfferStands
  <2> QED
    BY <2>1, <2>2, <2>3 DEF LogReadsRight
<1> QED
  BY <1>1, RecordIsKept, PTL

-----------------------------------------------------------------------------
(* The books balance.                                                      *)

Spans(l) == [i \in 1..Len(l) |-> l[i].elapsed]
Bonuses(l) == [i \in 1..Len(l) |-> l[i].bonus]

Summed(l) ==
  /\ l \in Seq(Events) /\ Summable(Spans(l)) /\ Summable(Bonuses(l))
  /\ Elapsed(l) \in Nat /\ Bonus(l) \in Nat

LEMMA NothingIsSummed == Summed(<<>>) /\ Elapsed(<<>>) = 0 /\ Bonus(<<>>) = 0
<1>1. /\ <<>> \in Seq(Events) /\ Len(<<>>) = 0
      /\ [i \in 1..0 |-> <<>>[i].elapsed] = <<>> /\ [i \in 1..0 |-> <<>>[i].bonus] = <<>>
  OBVIOUS
<1>2. Spans(<<>>) = <<>> /\ Bonuses(<<>>) = <<>>
  BY <1>1 DEF Spans, Bonuses
<1>3. Elapsed(<<>>) = Total(Spans(<<>>)) /\ Bonus(<<>>) = Total(Bonuses(<<>>))
  BY DEF Elapsed, Bonus, Spans, Bonuses
<1> QED
  BY <1>1, <1>2, <1>3, TotalOfNothing DEF Summed

LEMMA OneMoreIsSummed ==
  ASSUME NEW l, Summed(l), NEW event \in Events
  PROVE  LET k == Append(l, event)
         IN  /\ Summed(k) /\ Elapsed(k) = Elapsed(l) + event.elapsed
             /\ Bonus(k) = Bonus(l) + event.bonus
<1> DEFINE k == Append(l, event)
<1>1. l \in Seq(Events) /\ event.elapsed \in Nat /\ event.bonus \in Nat
  BY DEF Summed, Events
<1>2. /\ k \in Seq(Events) /\ Len(l) \in Nat /\ Len(k) = Len(l) + 1
      /\ k[Len(l) + 1] = event /\ \A i \in 1..Len(l) : k[i] = l[i]
  BY <1>1
<1>3. \A i \in 1..Len(l) : l[i] \in Events
  BY <1>1
<1>4. \A i \in 1..Len(l) : l[i].elapsed \in Nat /\ l[i].bonus \in Nat
  BY <1>3 DEF Events
<1> HIDE DEF k
<1>5. Spans(l) \in Seq(Nat) /\ Len(Spans(l)) = Len(l)
  BY <1>2, <1>4 DEF Spans
<1>6. Bonuses(l) \in Seq(Nat) /\ Len(Bonuses(l)) = Len(l)
  BY <1>2, <1>4 DEF Bonuses
<1>7. Spans(k) = Append(Spans(l), event.elapsed)
  <2>1. Append(Spans(l), event.elapsed)
          = [i \in 1..Len(k) |-> IF i = Len(l) + 1 THEN event.elapsed ELSE l[i].elapsed]
    BY <1>2, <1>5 DEF Spans
  <2>2. \A i \in 1..Len(k) : i \in 1..Len(l) \/ i = Len(l) + 1
    BY <1>2
  <2> QED
    BY <1>2, <2>1, <2>2 DEF Spans
<1>8. Bonuses(k) = Append(Bonuses(l), event.bonus)
  <2>1. Append(Bonuses(l), event.bonus)
          = [i \in 1..Len(k) |-> IF i = Len(l) + 1 THEN event.bonus ELSE l[i].bonus]
    BY <1>2, <1>6 DEF Bonuses
  <2>2. \A i \in 1..Len(k) : i \in 1..Len(l) \/ i = Len(l) + 1
    BY <1>2
  <2> QED
    BY <1>2, <2>1, <2>2 DEF Bonuses
<1>9. /\ Summable(Spans(k)) /\ Total(Spans(k)) = Total(Spans(l)) + event.elapsed
      /\ Summable(Bonuses(k)) /\ Total(Bonuses(k)) = Total(Bonuses(l)) + event.bonus
  BY <1>1, <1>5, <1>6, <1>7, <1>8, TotalGoesOn DEF Summed
<1>10. /\ Elapsed(k) = Total(Spans(k)) /\ Elapsed(l) = Total(Spans(l))
       /\ Bonus(k) = Total(Bonuses(k)) /\ Bonus(l) = Total(Bonuses(l))
  BY DEF Elapsed, Bonus, Spans, Bonuses
<1>11. Elapsed(k) = Elapsed(l) + event.elapsed /\ Bonus(k) = Bonus(l) + event.bonus
  BY <1>9, <1>10
<1>12. Elapsed(k) \in Nat /\ Bonus(k) \in Nat
  BY <1>1, <1>11 DEF Summed
<1> QED
  BY <1>2, <1>9, <1>11, <1>12 DEF Summed, k

\* The invariant: besides the balance, that no clock holds more than it can
\* have been given, which is what keeps both from saturating while they balance.
Books(g, l) ==
  /\ Summed(l)
  /\ g.plies \in Nat /\ g.pending \in Nat /\ g.remaining \in [Players -> Nat]
  /\ \A c \in Players : g.remaining[c] <= Granted(g, l)
  /\ Accounted(g, l)

LEMMA Increments ==
  ASSUME NEW plies \in Nat
  PROVE  /\ Increment * plies \in Nat
         /\ Increment * (plies + 1) = Increment * plies + Increment
<1>1. Increment \in Nat
  BY TimeAssumption
<1> QED
  BY <1>1

\* The two clocks, whoever is asked for.
LEMMA TwoClocks ==
  ASSUME NEW player \in Players
  PROVE  /\ OtherColor(player) \in Players /\ OtherColor(player) # player
         /\ \A c \in Players : c = player \/ c = OtherColor(player)
         /\ \A left \in [Players -> Nat] :
              /\ left[Red] \in Nat /\ left[Blue] \in Nat
              /\ left[Red] + left[Blue] = left[player] + left[OtherColor(player)]
  BY DEF Players, Red, Blue, OtherColor

LEMMA BooksSame ==
  ASSUME NEW g, NEW h, NEW l, Books(g, l),
         h.plies = g.plies, h.pending = g.pending, h.remaining = g.remaining
  PROVE  Books(h, l)
  BY DEF Books, Granted, Accounted

LEMMA BooksCharged ==
  ASSUME NEW g, NEW h, NEW l, Books(g, l), NEW player \in Players,
         NEW spent \in 0..g.remaining[player],
         h.plies = g.plies, h.pending = g.pending + spent,
         h.remaining = [g.remaining EXCEPT ![player] = @ - spent]
  PROVE  Books(h, l)
<1> DEFINE other == OtherColor(player)
           given == Granted(g, l)
<1>1. /\ g.remaining \in [Players -> Nat] /\ g.pending \in Nat /\ spent \in Nat
      /\ \A c \in Players : g.remaining[c] \in Nat /\ g.remaining[c] <= given
      /\ g.remaining[player] \in Nat /\ spent <= g.remaining[player]
  BY DEF Books
<1>2. /\ player \in Players /\ other \in Players /\ other # player
      /\ \A c \in Players : c = player \/ c = other
  BY TwoClocks
<1>3. /\ h.remaining \in [Players -> Nat]
      /\ h.remaining[player] = g.remaining[player] - spent
      /\ h.remaining[other] = g.remaining[other]
  BY <1>1, <1>2
<1>4. /\ h.remaining[Red] + h.remaining[Blue] = h.remaining[player] + h.remaining[other]
      /\ g.remaining[Red] + g.remaining[Blue] = g.remaining[player] + g.remaining[other]
  BY <1>1, <1>3, TwoClocks
<1>5. Granted(h, l) = given
  BY DEF Granted
<1>6. given \in Nat /\ Elapsed(l) \in Nat /\ Bonus(l) \in Nat /\ InitialTime \in Nat
  BY Increments, TimeAssumption DEF Books, Summed, Granted
<1>7. given <= MaxMs =>
        InitialTime + given + Bonus(l) - (g.remaining[Red] + g.remaining[Blue])
          = Elapsed(l) + g.pending
  BY DEF Books, Accounted
<1> HIDE DEF given, other
<1>8. g.remaining[player] \in Nat /\ g.remaining[other] \in Nat
  BY <1>1, <1>2
<1>9. given <= MaxMs =>
        InitialTime + given + Bonus(l) - (h.remaining[Red] + h.remaining[Blue])
          = Elapsed(l) + h.pending
  <2>1. h.remaining[Red] + h.remaining[Blue]
          = (g.remaining[player] - spent) + g.remaining[other]
    BY <1>3, <1>4
  <2>2. g.remaining[Red] + g.remaining[Blue] = g.remaining[player] + g.remaining[other]
    BY <1>4
  <2> QED
    BY <1>1, <1>6, <1>7, <1>8, <2>1, <2>2
<1>10. \A c \in Players : h.remaining[c] <= given
  BY <1>1, <1>2, <1>3, <1>6, <1>8
<1> QED
  BY <1>1, <1>3, <1>5, <1>9, <1>10 DEF Books, Accounted

\* What a player is added, an increment or an extension.
LEMMA AddMsUnderTheCap ==
  ASSUME NEW value \in Nat, NEW more \in Nat, NEW most \in Nat, value <= most
  PROVE  /\ AddMs(value, more) \in Nat /\ AddMs(value, more) <= most + more
         /\ most + more <= MaxMs => AddMs(value, more) = value + more
<1>1. MaxMs \in Nat
  BY TimeAssumption
<1> QED
  BY <1>1 DEF AddMs

\* Told of an event that gives nobody anything.
LEMMA BooksTold ==
  ASSUME NEW g, NEW h, NEW l, Books(g, l), NEW event \in Events,
         event.elapsed = g.pending, event.bonus = 0,
         h.plies = g.plies, h.pending = 0, h.remaining = g.remaining
  PROVE  Books(h, Append(l, event))
<1> DEFINE k == Append(l, event)
           held == g.remaining[Red] + g.remaining[Blue]
<1>1. Summed(k) /\ Elapsed(k) = Elapsed(l) + g.pending /\ Bonus(k) = Bonus(l) + 0
  BY OneMoreIsSummed DEF Books
<1>2. Elapsed(l) \in Nat /\ Bonus(l) \in Nat /\ g.pending \in Nat
  BY DEF Books, Summed
<1> HIDE DEF k
<1>3. Granted(h, k) = Granted(g, l) /\ Bonus(k) = Bonus(l) /\ Elapsed(k) + 0 = Elapsed(l) + g.pending
  BY <1>1, <1>2 DEF Granted
<1> QED
  BY <1>1, <1>2, <1>3 DEF Books, Accounted, k

LEMMA BooksMoved ==
  ASSUME NEW g, NEW h, NEW l, Books(g, l), NEW event \in Events, NEW player \in Players,
         event.elapsed = g.pending, event.bonus = 0,
         h.plies = g.plies + 1, h.pending = 0,
         h.remaining = [g.remaining EXCEPT ![player] = AddMs(@, Increment)]
  PROVE  Books(h, Append(l, event))
<1> DEFINE k == Append(l, event)
           other == OtherColor(player)
           given == Granted(g, l)
<1>1. Summed(k) /\ Elapsed(k) = Elapsed(l) + g.pending /\ Bonus(k) = Bonus(l) + 0
  BY OneMoreIsSummed DEF Books
<1> HIDE DEF k
<1>2. /\ g.remaining \in [Players -> Nat] /\ g.pending \in Nat /\ g.plies \in Nat
      /\ Elapsed(l) \in Nat /\ Bonus(l) \in Nat /\ InitialTime \in Nat /\ Increment \in Nat
      /\ MaxMs \in Nat
  BY TimeAssumption DEF Books, Summed
<1>3. /\ player \in Players /\ other \in Players /\ other # player
      /\ \A c \in Players : c = player \/ c = other
  BY TwoClocks
<1>4. /\ given \in Nat /\ Granted(h, k) = given + Increment
      /\ Bonus(k) = Bonus(l) /\ Elapsed(k) = Elapsed(l) + g.pending
  <2>1. Increment * g.plies \in Nat /\ Increment * h.plies = Increment * g.plies + Increment
    BY <1>2, Increments
  <2> QED
    BY <1>1, <1>2, <2>1 DEF Granted
<1>5. /\ g.remaining[player] \in Nat /\ g.remaining[player] <= given
      /\ g.remaining[other] \in Nat /\ g.remaining[other] <= given
  BY <1>2, <1>3 DEF Books
<1>6. given <= MaxMs =>
        InitialTime + given + Bonus(l) - (g.remaining[Red] + g.remaining[Blue])
          = Elapsed(l) + g.pending
  BY DEF Books, Accounted
<1> HIDE DEF given, other
<1>7. /\ AddMs(g.remaining[player], Increment) \in Nat
      /\ AddMs(g.remaining[player], Increment) <= given + Increment
      /\ given + Increment <= MaxMs =>
           AddMs(g.remaining[player], Increment) = g.remaining[player] + Increment
  BY <1>2, <1>4, <1>5, AddMsUnderTheCap
<1>8. /\ h.remaining \in [Players -> Nat]
      /\ h.remaining[player] = AddMs(g.remaining[player], Increment)
      /\ h.remaining[other] = g.remaining[other]
  BY <1>2, <1>3, <1>7
<1>9. /\ h.remaining[Red] + h.remaining[Blue] = h.remaining[player] + h.remaining[other]
      /\ g.remaining[Red] + g.remaining[Blue] = g.remaining[player] + g.remaining[other]
  BY <1>2, <1>8, TwoClocks DEF other
<1>10. \A c \in Players : h.remaining[c] <= Granted(h, k)
  <2>1. h.remaining[player] <= given + Increment /\ h.remaining[other] <= given + Increment
    BY <1>2, <1>4, <1>5, <1>7, <1>8
  <2> QED
    BY <1>3, <1>4, <2>1
<1>11. Accounted(h, k)
  <2> SUFFICES ASSUME given + Increment <= MaxMs
               PROVE  InitialTime + (given + Increment) + Bonus(l)
                          - (h.remaining[Red] + h.remaining[Blue])
                        = Elapsed(l) + g.pending
    BY <1>2, <1>4 DEF Accounted
  <2>1. given <= MaxMs
    BY <1>2, <1>4
  <2> QED
    BY <1>2, <1>4, <1>5, <1>6, <1>7, <1>8, <1>9, <2>1
<1>12. h.plies \in Nat /\ h.pending \in Nat
  BY <1>2
<1> QED
  BY <1>1, <1>8, <1>10, <1>11, <1>12 DEF Books, k

LEMMA BooksGiven ==
  ASSUME NEW g, NEW h, NEW l, Books(g, l), NEW event \in Events,
         event.elapsed = g.pending, event.bonus = TimeExtension,
         h.plies = g.plies, h.pending = 0,
         h.remaining = [c \in Players |-> AddMs(g.remaining[c], TimeExtension)]
  PROVE  Books(h, Append(l, event))
<1> DEFINE k == Append(l, event)
           given == Granted(g, l)
           left(c) == AddMs(g.remaining[c], TimeExtension)
<1>1. /\ Summed(k) /\ Elapsed(k) = Elapsed(l) + g.pending
      /\ Bonus(k) = Bonus(l) + TimeExtension
  BY OneMoreIsSummed DEF Books
<1> HIDE DEF k
<1>2. /\ g.remaining \in [Players -> Nat] /\ g.pending \in Nat /\ g.plies \in Nat
      /\ Elapsed(l) \in Nat /\ Bonus(l) \in Nat /\ InitialTime \in Nat
      /\ TimeExtension \in Nat /\ MaxMs \in Nat
  BY TimeAssumption DEF Books, Summed
<1>3. Red \in Players /\ Blue \in Players
  BY DEF Players
<1>4. given \in Nat /\ Granted(h, k) = given + TimeExtension
  <2>1. Increment * g.plies \in Nat
    BY <1>2, Increments
  <2> QED
    BY <1>1, <1>2, <2>1 DEF Granted
<1>5. \A c \in Players : g.remaining[c] \in Nat /\ g.remaining[c] <= given
  BY <1>2 DEF Books
<1>6. given <= MaxMs =>
        InitialTime + given + Bonus(l) - (g.remaining[Red] + g.remaining[Blue])
          = Elapsed(l) + g.pending
  BY DEF Books, Accounted
<1> HIDE DEF given
<1>7. \A c \in Players :
        /\ left(c) \in Nat /\ left(c) <= given + TimeExtension
        /\ given + TimeExtension <= MaxMs => left(c) = g.remaining[c] + TimeExtension
  BY <1>2, <1>4, <1>5, AddMsUnderTheCap
<1> HIDE DEF left
<1>8. h.remaining \in [Players -> Nat] /\ \A c \in Players : h.remaining[c] = left(c)
  BY <1>7 DEF left
<1>9. \A c \in Players : h.remaining[c] <= Granted(h, k)
  BY <1>4, <1>7, <1>8
<1>10. Accounted(h, k)
  <2> SUFFICES ASSUME given + TimeExtension <= MaxMs
               PROVE  InitialTime + (given + TimeExtension) + (Bonus(l) + TimeExtension)
                          - (h.remaining[Red] + h.remaining[Blue])
                        = Elapsed(l) + g.pending
    BY <1>1, <1>2, <1>4 DEF Accounted
  <2>1. given <= MaxMs
    BY <1>2, <1>4
  <2>2. /\ h.remaining[Red] = g.remaining[Red] + TimeExtension
        /\ h.remaining[Blue] = g.remaining[Blue] + TimeExtension
        /\ g.remaining[Red] \in Nat /\ g.remaining[Blue] \in Nat
    BY <1>3, <1>5, <1>7, <1>8
  <2> QED
    BY <1>2, <1>4, <1>6, <2>1, <2>2
<1>11. h.plies \in Nat /\ h.pending \in Nat
  BY <1>2
<1> QED
  BY <1>1, <1>8, <1>9, <1>10, <1>11 DEF Books, k

LEMMA EndingBooks ==
  ASSUME NEW g, NEW h, NEW l, Books(g, l), g.emitted = <<>>,
         NEW player, NEW winner, NEW reason, Ending(g, h, player, winner, reason)
  PROVE  Books(h, l \o h.emitted)
<1>1. PICK event : Tells(g, h, event, "end", player, 0)
  BY DEF Ending
<1>2. /\ event \in Events /\ event.elapsed = g.pending /\ event.bonus = 0
      /\ h.plies = g.plies /\ h.pending = 0 /\ h.remaining = g.remaining
  BY <1>1 DEF Ending, Tells
<1>3. Books(h, Append(l, event))
  BY <1>2, BooksTold
<1>4. l \in Seq(Events)
  BY DEF Books, Summed
<1> QED
  BY <1>1, <1>3, <1>4, OneTold

LEMMA SettlingBooks ==
  ASSUME NEW g, NEW l, Sound(g), Books(g, l), g.status = InProgress => ~g.endRecorded
  PROVE  Books(UpdateClock(g), l \o UpdateClock(g).emitted)
<1> DEFINE h == UpdateClock(g)
           fallen == FinishGame(Fallen(g), OtherColor(g.turn), "timeout")
<1>1. l \in Seq(Events) /\ g.turn \in Players
  BY SoundFields DEF Books, Summed
<1>2. \/ /\ h.emitted = <<>> /\ h.plies = g.plies
         /\ \E spent \in 0..g.remaining[g.turn] :
              /\ h.pending = g.pending + spent
              /\ h.remaining = [g.remaining EXCEPT ![g.turn] = @ - spent]
      \/ g.status = InProgress /\ h = RecordEnd(fallen, g.turn)
  BY SettlingFields
<1> HIDE DEF h
<1>3. CASE /\ h.emitted = <<>> /\ h.plies = g.plies
           /\ \E spent \in 0..g.remaining[g.turn] :
                /\ h.pending = g.pending + spent
                /\ h.remaining = [g.remaining EXCEPT ![g.turn] = @ - spent]
  <2>1. l \o h.emitted = l
    BY <1>1, <1>3
  <2>2. Books(h, l)
    BY <1>1, <1>3, BooksCharged
  <2> QED
    BY <2>1, <2>2 DEF h
<1>4. CASE g.status = InProgress /\ h = RecordEnd(fallen, g.turn)
  <2>1. /\ Fallen(g) \in Games /\ g.turn \in Colors /\ OtherColor(g.turn) \in Colors
        /\ "timeout" \in EndReasons
    BY SoundFields, FallenFields DEF EndReasons
  <2>2. /\ Fallen(g).emitted = <<>> /\ Fallen(g).plies = g.plies
        /\ Fallen(g).endRecorded = g.endRecorded
        /\ Fallen(g).pending = g.pending + g.remaining[g.turn]
        /\ Fallen(g).remaining = [g.remaining EXCEPT ![g.turn] = 0]
    BY SoundFields DEF Fallen, Games
  <2>3. Ending(Fallen(g), h, g.turn, OtherColor(g.turn), "timeout")
    BY <1>4, <2>1, <2>2, EndIsTold
  <2>4. Books(Fallen(g), l)
    <3>1. g.remaining[g.turn] \in Nat
      BY SoundFields
    <3>2. /\ g.remaining[g.turn] \in 0..g.remaining[g.turn]
          /\ Fallen(g).remaining = [g.remaining EXCEPT ![g.turn] = @ - g.remaining[g.turn]]
      BY <2>2, <3>1
    <3> QED
      BY <1>1, <2>2, <3>2, BooksCharged
  <2> QED
    BY <2>2, <2>3, <2>4, EndingBooks DEF h
<1> QED
  BY <1>2, <1>3, <1>4

LEMMA MovesBalance ==
  ASSUME NEW g, NEW l, Sound(g), Kept(g, l), Books(g, l), g.status = InProgress,
         g.emitted = <<>>, NEW from \in Squares, NEW to \in Squares
  PROVE  LET h == AfterMove(g, g.turn, from, to) IN Books(h, l \o h.emitted)
<1> DEFINE player == g.turn
           made == MoveMade(g, player, from, to)
           m == RecordMove(made, player, from, to)
           h == AfterMove(g, player, from, to)
<1>1. /\ g.endRecorded = FALSE /\ l \in Seq(Events) /\ g \in Games
      /\ player \in Players /\ player \in Colors
  BY NoEndYet, ColorTypes
<1>2. h = RecordEnd(m, player)
  BY AfterMoveRecords
<1>3. AsMoved(g, Played(g, player, from, to), made, player)
  BY <1>1, MoveMadeFields
<1>4. /\ m \in Games /\ m.endRecorded = g.endRecorded /\ m.plies = g.plies + 1
      /\ m.status = made.status /\ m.remaining = made.remaining
      /\ \E event : event.move = <<from, to>> /\ Tells(g, m, event, "move", player, 0)
  BY <1>1, MoveIsTold
<1> HIDE DEF made, m, h, player
<1>5. PICK event : Tells(g, m, event, "move", player, 0)
  BY <1>4
<1>6. l \o m.emitted = Append(l, event) /\ event \in Events /\ m.emitted = <<event>>
  BY <1>1, <1>5, OneTold, TwoAppended DEF Tells
<1>7. Books(m, Append(l, event))
  BY <1>1, <1>3, <1>4, <1>5, <1>6, BooksMoved DEF AsMoved, Tells
<1>8. CASE m.status # Finished
  BY <1>1, <1>2, <1>4, <1>6, <1>7, <1>8, EndIsRecorded DEF h, player
<1>9. CASE m.status = Finished
  <2> DEFINE end == Entry(m, "end", player, NoMove, 0)
  <2>1. /\ h \in Games /\ SameButTheLog(m, h) /\ h.pending = 0
        /\ end \in Events /\ h.emitted = Append(m.emitted, end)
    BY <1>1, <1>2, <1>4, <1>9, EndIsRecorded
  <2>2. end.elapsed = m.pending /\ end.bonus = 0
    BY DEF Entry
  <2> HIDE DEF end
  <2>3. Books(h, Append(Append(l, event), end))
    BY <1>7, <2>1, <2>2, BooksTold DEF SameButTheLog
  <2>4. l \o h.emitted = Append(Append(l, event), end)
    BY <1>1, <1>6, <2>1, TwoAppended
  <2> QED
    BY <2>3, <2>4 DEF h, player
<1> QED
  BY <1>8, <1>9

LEMMA CallsBalance ==
  ASSUME NEW g, NEW h, NEW l, Sound(g), Kept(g, l), Books(g, l), g.status = InProgress,
         g.emitted = <<>>, Calls(g, h)
  PROVE  Books(h, l \o h.emitted)
<1>1. g.endRecorded = FALSE /\ l \in Seq(Events) /\ g \in Games
  BY NoEndYet
<1>2. ASSUME NEW player \in Players, NEW from \in Squares, NEW to \in Squares,
             LegalMove(g, player, from, to), h = AfterMove(g, player, from, to)
      PROVE  Books(h, l \o h.emitted)
  BY <1>2, MovesBalance DEF LegalMove
<1>3. ASSUME NEW player \in Players,
             \/ h = OfferedDraw(g, player) \/ h = DeclinedDraw(g, player)
             \/ h = OfferedTime(g, player) \/ h = DeclinedTime(g, player)
      PROVE  Books(h, l \o h.emitted)
  <2>1. \E kind : Offering(g, h, kind, player)
    BY <1>1, <1>3, OffersAreTold
  <2>2. PICK kind : \E event : Tells(g, h, event, kind, player, 0)
    BY <2>1 DEF Offering
  <2>3. PICK event : Tells(g, h, event, kind, player, 0)
    BY <2>2
  <2>4. h.remaining = g.remaining /\ h.plies = g.plies
    BY <2>1 DEF Offering, SameButOffers
  <2>5. Books(h, Append(l, event))
    BY <2>3, <2>4, BooksTold DEF Tells
  <2> QED
    BY <1>1, <2>3, <2>5, OneTold
<1>4. ASSUME NEW player \in Players, h = AcceptedTime(g, player)
      PROVE  Books(h, l \o h.emitted)
  <2>1. PICK event : Tells(g, h, event, "time_accept", player, TimeExtension)
    BY <1>1, <1>4, TimeIsTold
  <2>2. /\ h.plies = g.plies
        /\ h.remaining = [c \in Players |-> AddMs(g.remaining[c], TimeExtension)]
    BY <1>1, <1>4, TimeIsTold DEF SameButOffers
  <2>3. Books(h, Append(l, event))
    BY <2>1, <2>2, BooksGiven DEF Tells
  <2> QED
    BY <1>1, <2>1, <2>3, OneTold
<1>5. ASSUME NEW player \in Players,
             h = AcceptedDraw(g, player) \/ h = Resigned(g, player) \/ h = Abandoned(g, player)
      PROVE  Books(h, l \o h.emitted)
  BY <1>1, <1>5, CallsEnding, EndingBooks
<1>6. ASSUME h.plies = g.plies, h.pending = g.pending, h.remaining = g.remaining,
             h.emitted = g.emitted
      PROVE  Books(h, l \o h.emitted)
  <2>1. l \o h.emitted = l
    BY <1>1, <1>6
  <2> QED
    BY <1>6, <2>1, BooksSame
<1>7. ASSUME NEW winner \in Colors, h = Adjudicated(g, winner)
      PROVE  Books(h, l \o h.emitted)
  <2>1. "adjudication" \in EndReasons
    BY DEF EndReasons
  <2> QED
    BY <1>1, <1>6, <1>7, <2>1, FinishedFields DEF Adjudicated
<1>8. ASSUME NEW span \in HoldSpans, h = Held(g, span)
      PROVE  Books(h, l \o h.emitted)
  <2>1. /\ h.plies = g.plies /\ h.pending = g.pending /\ h.remaining = g.remaining
        /\ h.emitted = g.emitted
    BY <1>1, <1>8 DEF Held, Games
  <2> QED
    BY <1>6, <2>1
<1> QED
  BY <1>2, <1>3, <1>4, <1>5, <1>7, <1>8 DEF Calls

LEMMA NewBooks ==
  ASSUME NEW mode \in Modes, NEW deferred \in BOOLEAN
  PROVE  Books(NewGame(mode, deferred), NewGame(mode, deferred).emitted)
<1> DEFINE opened == Opened(mode, deferred)
           h == NewGame(mode, deferred)
<1>1. /\ opened.plies = 0 /\ opened.pending = 0 /\ opened.emitted = <<>>
      /\ opened.remaining = [c \in Players |-> InitialTime]
  BY DEF Opened
<1>2. /\ opened \in Games
      /\ HasLegalMove(opened) => h = opened
      /\ ~HasLegalMove(opened) =>
           Ending(opened, h, Neutral, StalemateWinner(mode, FirstToMove), "stalemate")
  BY OpenedFields
<1> HIDE DEF opened, h
<1>3. Books(opened, <<>>)
  <2>1. Summed(<<>>) /\ Elapsed(<<>>) = 0 /\ Bonus(<<>>) = 0
    BY NothingIsSummed
  <2>2. InitialTime \in Nat /\ Increment * 0 = 0
    BY TimeAssumption
  <2>3. Granted(opened, <<>>) = InitialTime
    BY <1>1, <2>1, <2>2 DEF Granted
  <2>4. /\ opened.remaining \in [Players -> Nat]
        /\ \A c \in Players : opened.remaining[c] = InitialTime
        /\ opened.remaining[Red] = InitialTime /\ opened.remaining[Blue] = InitialTime
    BY <1>1, <2>2 DEF Players
  <2> QED
    BY <1>1, <2>1, <2>2, <2>3, <2>4 DEF Books, Accounted
<1>4. CASE ~HasLegalMove(opened)
  <2>1. Books(h, <<>> \o h.emitted)
    BY <1>1, <1>2, <1>3, <1>4, EndingBooks
  <2>2. h.emitted \in Seq(Events)
    BY <1>2, <1>4 DEF Ending, Games
  <2>3. <<>> \o h.emitted = h.emitted
    BY <2>2
  <2> QED
    BY <2>1, <2>3 DEF h
<1> QED
  BY <1>1, <1>2, <1>3, <1>4 DEF h

LEMMA StepsBalance ==
  ASSUME Sound(game), Kept(game, log), Books(game, log), RecordNext
  PROVE  Books(game', log')
<1> DEFINE g == UpdateClock(game)
<1>1. /\ Next /\ log' = log \o game'.emitted /\ log \in Seq(Events) /\ game \in Games
      /\ game.status = InProgress => ~game.endRecorded
  BY DEF RecordNext, Kept, Sound, InProgress, Finished
<1>2. CASE game' = [game EXCEPT !.lag = @ + 1, !.emitted = <<>>]
  <2> DEFINE h == [game EXCEPT !.lag = @ + 1, !.emitted = <<>>]
  <2>1. /\ h.plies = game.plies /\ h.pending = game.pending
        /\ h.remaining = game.remaining /\ h.emitted = <<>>
    BY <1>1 DEF Games
  <2> HIDE DEF h
  <2>2. Books(h, log)
    BY <2>1, BooksSame
  <2>3. log' = log
    BY <1>1, <1>2, <2>1 DEF h
  <2> QED
    BY <1>2, <2>2, <2>3 DEF h
<1>3. CASE game' = g
  BY <1>1, <1>3, SettlingBooks
<1>4. CASE g.status = InProgress /\ Calls(g, game')
  <2>1. Sound(g) /\ g.emitted = <<>> /\ log \o g.emitted = log
    BY <1>1, <1>4, UpdateClockSound, SettledInProgress
  <2>2. Kept(g, log) /\ Books(g, log)
    BY <1>1, <2>1, SettlingKeeps, SettlingBooks
  <2> QED
    BY <1>1, <1>4, <2>1, <2>2, CallsBalance
<1> QED
  BY <1>1, <1>2, <1>3, <1>4, StepsAreCalls

\* Not a millisecond is lost or invented in a game of any length: while no
\* clock can have saturated, what the two were given less what they hold is the
\* time the log attributes and the time still pending (record.go:32-37).
THEOREM TheBooksBalance == RecordSpec => []ElapsedAccountsForTheClocks
<1>1. RecordInit => Books(game, log)
  <2> SUFFICES ASSUME NEW mode \in Modes, game = NewGame(mode, ClockStartsOnFirstMove),
                      log = game.emitted
               PROVE  Books(game, log)
    BY DEF RecordInit, Init
  <2> QED
    BY NewBooks, FlagAssumption
<1>2. GameInv /\ Kept(game, log) /\ Books(game, log) /\ [RecordNext]_recordVars
        => Books(game, log)'
  <2> SUFFICES ASSUME Sound(game), Kept(game, log), Books(game, log),
                      [RecordNext]_recordVars
               PROVE  Books(game', log')
    BY DEF GameInv
  <2>1. CASE RecordNext
    BY <2>1, StepsBalance
  <2>2. CASE UNCHANGED recordVars
    BY <2>2 DEF recordVars
  <2> QED
    BY <2>1, <2>2
<1>3. Books(game, log) => ElapsedAccountsForTheClocks
  BY DEF Books, ElapsedAccountsForTheClocks
<1> QED
  BY <1>1, <1>2, <1>3, RecordIsKept, PTL DEF RecordSpec

-----------------------------------------------------------------------------
(* The replay follows the game.                                            *)

\* Two games that agree on the board and on what the engine says of it.
SamePosition(a, b) ==
  /\ b.mode = a.mode /\ b.board = a.board /\ b.turn = a.turn /\ b.status = a.status
  /\ b.winner = a.winner /\ b.reason = a.reason /\ b.moves = a.moves /\ b.quiet = a.quiet

\* A game being replayed: it holds no clock and defers none.
Running(r) ==
  /\ r \in Games /\ r.status = InProgress
  /\ r.clockPending = FALSE /\ r.lag = 0 /\ r.endRecorded = FALSE

Alike(g, r) ==
  SamePosition(g, r) /\ r.plies = g.plies
    /\ OffersAre(r, g.drawBy, g.drawUsed, g.timeBy, g.timeUsed)

\* At an event the two clocks are level; between events the replay is behind
\* by what is pending.
Level(g, r) == Running(r) /\ Alike(g, r) /\ r.remaining = g.remaining

Owed(g, c) == IF c = g.turn THEN g.pending ELSE 0

Follows(g, r) ==
  /\ Running(r) /\ Alike(g, r)
  /\ \A c \in Players : r.remaining[c] = g.remaining[c] + Owed(g, c)

LEMMA AdvancedIsLevel ==
  ASSUME NEW g, NEW r, NEW event, Sound(g), g.status = InProgress, Follows(g, r),
         event.elapsed = g.pending
  PROVE  Level(g, Advanced(r, event))
<1> DEFINE ready == [r EXCEPT !.lag = @ + event.elapsed]
           h == UpdateClock(ready)
<1>1. /\ g \in Games /\ g.turn \in Players /\ g.pending \in Nat
      /\ g.remaining \in [Players -> Nat] /\ g.remaining[g.turn] > 0
  BY GameFields DEF Sound, Playable
<1>2. /\ Running(r) /\ Alike(g, r) /\ r.turn = g.turn /\ r \in Games
      /\ r.remaining \in [Players -> Nat] /\ r.pending \in Nat
      /\ r.remaining[g.turn] = g.remaining[g.turn] + g.pending
      /\ \A c \in Players : c # g.turn => r.remaining[c] = g.remaining[c]
  BY <1>1, GameFields DEF Follows, Running, Alike, SamePosition, Owed
<1>3. /\ ready \in Games /\ ready.lag = g.pending /\ ready.status = InProgress
      /\ ready.clockPending = FALSE /\ ready.endRecorded = FALSE
      /\ ready.remaining = r.remaining /\ ready.pending = r.pending
      /\ Alike(r, ready)
  <2>1. r.lag + event.elapsed = g.pending /\ g.pending \in Int
    BY <1>1, <1>2 DEF Running
  <2> QED
    BY <1>2, <2>1 DEF Games, Running, Alike, SamePosition, OffersAre
<1> HIDE DEF ready
<1>4. Alike(g, ready) /\ ready.turn = g.turn
  BY <1>2, <1>3 DEF Alike, SamePosition, OffersAre
<1>5. CASE g.pending = 0
  <2>1. h = [ready EXCEPT !.emitted = <<>>]
    BY <1>3, <1>5 DEF UpdateClock
  <2> HIDE DEF h
  <2>2. /\ h \in Games /\ h.remaining = ready.remaining /\ h.status = InProgress
        /\ h.clockPending = FALSE /\ h.endRecorded = FALSE /\ h.lag = 0
    BY <1>3, <1>5, <2>1, FreshType DEF Games
  <2>3. Alike(ready, h)
    BY <1>3, <2>1 DEF Games, Alike, SamePosition, OffersAre
  <2>4. r.remaining = g.remaining
    <3>1. \A c \in Players : r.remaining[c] = g.remaining[c]
      BY <1>1, <1>2, <1>5
    <3> QED
      BY <1>1, <1>2, <3>1
  <2> QED
    BY <1>3, <1>4, <2>2, <2>3, <2>4
       DEF h, ready, Advanced, Level, Running, Alike, SamePosition, OffersAre
<1>6. CASE g.pending # 0
  <2> DEFINE spent == g.pending
             left == [r.remaining EXCEPT ![g.turn] = @ - spent]
  <2>1. ~FlagFalls(ready) /\ ready.lag > 0
    BY <1>1, <1>2, <1>3, <1>4, <1>6 DEF FlagFalls
  <2>2. h = [[ready EXCEPT !.emitted = <<>>] EXCEPT !.pending = @ + ready.lag,
                          !.remaining[ready.turn] = @ - ready.lag, !.lag = 0]
    BY <1>3, <2>1 DEF UpdateClock
  <2>3. left = g.remaining
    <3>1. left[g.turn] = g.remaining[g.turn]
      BY <1>1, <1>2
    <3>2. \A c \in Players : left[c] = g.remaining[c]
      BY <1>1, <1>2, <3>1
    <3> QED
      BY <1>1, <1>2, <3>2
  <2>4. h = [ready EXCEPT !.emitted = <<>>, !.pending = r.pending + spent,
                          !.remaining = left, !.lag = 0]
    BY <1>3, <1>4, <2>2 DEF Games
  <2>5. r.pending + spent \in Nat /\ left \in [Players -> Nat] /\ 0 \in Int
    BY <1>1, <1>2, <2>3
  <2> HIDE DEF h, left
  <2>6. h \in Games
    BY <1>3, <2>4, <2>5, ChargedType
  <2>7. /\ h.remaining = left /\ h.status = InProgress
        /\ h.clockPending = FALSE /\ h.endRecorded = FALSE /\ h.lag = 0
    BY <1>3, <2>4 DEF Games
  <2>8. Alike(ready, h)
    BY <1>3, <2>4 DEF Games, Alike, SamePosition, OffersAre
  <2> QED
    BY <1>4, <2>3, <2>6, <2>7, <2>8
       DEF h, ready, Advanced, Level, Running, Alike, SamePosition, OffersAre
<1> QED
  BY <1>5, <1>6

\* What a move comes to is a matter of what the engine sees.
LEMMA SameModeMove ==
  ASSUME NEW a \in Games, NEW b \in Games, SamePosition(a, b), NEW player, NEW from, NEW to
  PROVE  SamePosition(ModeMove(a, player, from, to), ModeMove(b, player, from, to))
<1> DEFINE board == Claimed(a.mode, MovePiece(a.board, player, from, to), player, to)
           verdict == Verdict(a.mode, board, player, to)
           Moved(g) == [g EXCEPT !.board = board, !.moves = @ + 1]
           After(g) == IF verdict = NotOver
                       THEN [Moved(g) EXCEPT !.turn = OtherColor(player)]
                       ELSE [Moved(g) EXCEPT !.status = Finished, !.winner = verdict.winner,
                                             !.reason = verdict.reason]
<1>1. ModeMove(a, player, from, to) = After(a) /\ ModeMove(b, player, from, to) = After(b)
  BY DEF ModeMove, SamePosition
<1> HIDE DEF board, verdict
<1>2. SamePosition(Moved(a), Moved(b))
  BY DEF SamePosition, Games
<1>3. CASE verdict = NotOver
  <2>1. SamePosition([Moved(a) EXCEPT !.turn = OtherColor(player)],
                 [Moved(b) EXCEPT !.turn = OtherColor(player)])
    BY DEF SamePosition, Games
  <2> QED
    BY <1>1, <1>3, <2>1
<1>4. CASE verdict # NotOver
  <2> DEFINE Over(g) == [Moved(g) EXCEPT !.status = Finished, !.winner = verdict.winner,
                                         !.reason = verdict.reason]
  <2>1. SamePosition(Over(a), Over(b))
    BY DEF SamePosition, Games
  <2> QED
    BY <1>1, <1>4, <2>1
<1> QED
  BY <1>3, <1>4

LEMMA SameFinish ==
  ASSUME NEW a \in Games, NEW b \in Games, SamePosition(a, b),
         NEW winner \in Colors, NEW reason \in EndReasons
  PROVE  SamePosition(FinishGame(a, winner, reason), FinishGame(b, winner, reason))
<1> DEFINE Over(g) == FinishGame(g, winner, reason)
           Unmoved(g) == /\ Over(g).mode = g.mode /\ Over(g).board = g.board
                         /\ Over(g).turn = g.turn /\ Over(g).moves = g.moves
                         /\ Over(g).quiet = g.quiet /\ Over(g).status = Finished
                         /\ Over(g).winner = winner /\ Over(g).reason = reason
<1>1. Unmoved(a) /\ Unmoved(b)
  BY FinishedFields
<1> HIDE DEF Over
<1> QED
  BY <1>1 DEF SamePosition, Over

LEMMA SameStalemate ==
  ASSUME NEW a \in Games, NEW b \in Games, SamePosition(a, b)
  PROVE  SamePosition(AdjudicateStalemate(a), AdjudicateStalemate(b))
<1>1. HasLegalMove(a) <=> HasLegalMove(b)
  BY HasLegalMoveFrame DEF SamePosition
<1> DEFINE winner == StalemateWinner(a.mode, a.turn)
<1>2. winner \in Colors /\ "stalemate" \in EndReasons
  BY GameFields, ColorTypes DEF StalemateWinner, EndReasons
<1>3. SamePosition(FinishGame(a, winner, "stalemate"), FinishGame(b, winner, "stalemate"))
  BY <1>2, SameFinish
<1>4. a.mode = b.mode /\ a.turn = b.turn /\ a.status = b.status
  BY DEF SamePosition
<1>5. CASE a.status = InProgress /\ ~HasLegalMove(a)
  BY <1>1, <1>3, <1>4, <1>5 DEF AdjudicateStalemate
<1>6. CASE ~(a.status = InProgress /\ ~HasLegalMove(a))
  <2>1. AdjudicateStalemate(a) = a /\ AdjudicateStalemate(b) = b
    BY <1>1, <1>4, <1>6 DEF AdjudicateStalemate
  <2> QED
    BY <2>1
<1> QED
  BY <1>5, <1>6

LEMMA SameQuietPly ==
  ASSUME NEW a \in Games, NEW b \in Games, SamePosition(a, b), NEW captured \in BOOLEAN
  PROVE  SamePosition(CountQuietPly(a, captured), CountQuietPly(b, captured))
<1> DEFINE Counted(g) == [g EXCEPT !.quiet = @ + 1]
<1>1. SamePosition([a EXCEPT !.quiet = 0], [b EXCEPT !.quiet = 0])
  BY DEF SamePosition, Games
<1>2. SamePosition(Counted(a), Counted(b)) /\ Counted(a) \in Games /\ Counted(b) \in Games
  <2>1. SamePosition(Counted(a), Counted(b))
    BY DEF SamePosition, Games
  <2> QED
    BY <2>1, CountedFields
<1> HIDE DEF Counted
<1>3. SamePosition(FinishGame(Counted(a), Neutral, "no_capture"),
               FinishGame(Counted(b), Neutral, "no_capture"))
  <2>1. Neutral \in Colors /\ "no_capture" \in EndReasons
    BY ColorTypes DEF EndReasons
  <2> QED
    BY <1>2, <2>1, SameFinish
<1>4. a.status = b.status /\ Counted(a).quiet = Counted(b).quiet
  BY <1>2 DEF SamePosition
<1>5. ASSUME NEW g
      PROVE  CountQuietPly(g, captured) =
               IF captured THEN [g EXCEPT !.quiet = 0]
               ELSE IF g.status = InProgress /\ TooQuiet(Counted(g).quiet)
                    THEN FinishGame(Counted(g), Neutral, "no_capture")
                    ELSE Counted(g)
  BY DEF CountQuietPly, Counted
<1>6. CASE captured
  BY <1>1, <1>5, <1>6
<1>7. CASE ~captured
  BY <1>2, <1>3, <1>4, <1>5, <1>7
<1> QED
  BY <1>6, <1>7

LEMMA SamePlayed ==
  ASSUME NEW a \in Games, NEW b \in Games, SamePosition(a, b), a.status = InProgress,
         NEW player \in Players, NEW from \in Squares, NEW to \in Squares
  PROVE  SamePosition(Played(a, player, from, to), Played(b, player, from, to))
<1> DEFINE Moved(g) == ModeMove(g, player, from, to)
           Still(g) == AdjudicateStalemate(Moved(g))
           captured == a.board[to].occupant # Empty
<1>1. b.status = InProgress /\ a.board = b.board
  BY DEF SamePosition
<1>2. Moved(a) \in Games /\ Moved(b) \in Games /\ SamePosition(Moved(a), Moved(b))
  BY <1>1, ModeMoveType, SameModeMove
<1> HIDE DEF Moved
<1>3. Still(a) \in Games /\ Still(b) \in Games /\ SamePosition(Still(a), Still(b))
  BY <1>2, StalemateType, SameStalemate
<1> HIDE DEF Still
<1>4. SamePosition(CountQuietPly(Still(a), captured), CountQuietPly(Still(b), captured))
  BY <1>3, SameQuietPly
<1> HIDE DEF captured
<1>5. /\ Played(a, player, from, to) = CountQuietPly(Still(a), captured)
      /\ Played(b, player, from, to) = CountQuietPly(Still(b), captured)
  BY <1>1 DEF Played, Still, Moved, captured
<1> QED
  BY <1>4, <1>5

\* The verdicts of the calls are matters of what is alike.
LEMMA SameAnswers ==
  ASSUME NEW g, NEW r, Alike(g, r)
  PROVE  /\ \A player, from, to : LegalMove(g, player, from, to) => LegalMove(r, player, from, to)
         /\ \A player : /\ CanOfferDraw(g, player) => CanOfferDraw(r, player)
                        /\ CanOfferTime(g, player) => CanOfferTime(r, player)
                        /\ CanAnswer(g, player, g.drawBy) => CanAnswer(r, player, r.drawBy)
                        /\ CanAnswer(g, player, g.timeBy) => CanAnswer(r, player, r.timeBy)
<1>1. /\ r.board = g.board /\ r.turn = g.turn /\ r.status = g.status
      /\ r.drawBy = g.drawBy /\ r.drawUsed = g.drawUsed
      /\ r.timeBy = g.timeBy /\ r.timeUsed = g.timeUsed
  BY DEF Alike, SamePosition, OffersAre
<1>2. \A player, from, to : LegalMove(g, player, from, to) => LegalMove(r, player, from, to)
  BY <1>1 DEF LegalMove
<1>3. \A player : /\ CanOfferDraw(g, player) => CanOfferDraw(r, player)
                  /\ CanOfferTime(g, player) => CanOfferTime(r, player)
  BY <1>1 DEF CanOfferDraw, CanOfferTime
<1>4. \A player : /\ CanAnswer(g, player, g.drawBy) => CanAnswer(r, player, r.drawBy)
                  /\ CanAnswer(g, player, g.timeBy) => CanAnswer(r, player, r.timeBy)
  BY <1>1 DEF CanAnswer
<1> QED
  BY <1>2, <1>3, <1>4

\* The seven kinds of event, each the call it is the record of.
LEMMA AppliedMove ==
  ASSUME NEW r, NEW event, event.kind = "move",
         LegalMove(Advanced(r, event), event.player, event.move[1], event.move[2])
  PROVE  ApplyRecordedEvent(r, event)
           = AfterMove(Advanced(r, event), event.player, event.move[1], event.move[2])
  BY DEF ApplyRecordedEvent

LEMMA AppliedOffer ==
  ASSUME NEW r, NEW event
  PROVE  LET g == Advanced(r, event)
             player == event.player
             h == ApplyRecordedEvent(r, event)
         IN  /\ event.kind = "draw_offer" /\ CanOfferDraw(g, player)
                  => h = OfferedDraw(g, player)
             /\ event.kind = "draw_decline" /\ CanAnswer(g, player, g.drawBy)
                  => h = DeclinedDraw(g, player)
             /\ event.kind = "time_offer" /\ CanOfferTime(g, player)
                  => h = OfferedTime(g, player)
             /\ event.kind = "time_decline" /\ CanAnswer(g, player, g.timeBy)
                  => h = DeclinedTime(g, player)
             /\ event.kind = "time_accept" /\ CanAnswer(g, player, g.timeBy)
                  => h = AcceptedTime(g, player)
  BY DEF ApplyRecordedEvent

LEMMA AppliedEnd ==
  ASSUME NEW r, NEW event, event.kind = "end"
  PROVE  ApplyRecordedEvent(r, event) = ApplyRecordedEnd(Advanced(r, event), event)
  BY DEF ApplyRecordedEvent

\* The invariant: while the game lasts its replay follows it, and once it is
\* over -- unless a host called it off -- the replay has come to the same end.
Shadow(g, l) ==
  /\ l \in Seq(Events) /\ Replayable(g.mode, l)
  /\ g.status = InProgress => Follows(g, Replay(g.mode, l))
  /\ g.status = Finished /\ g.reason # "adjudication" => Verify(g, l)

LEMMA ShadowOfEvent ==
  ASSUME NEW g, NEW h, NEW l, Shadow(g, l), NEW event \in Events, h.mode = g.mode,
         LET r == ApplyRecordedEvent(Replay(g.mode, l), event)
         IN  \/ h.status = InProgress /\ Follows(h, r)
             \/ h.status = Finished /\ FinalState(r) = FinalState(h)
  PROVE  Shadow(h, Append(l, event))
<1>1. l \in Seq(Events) /\ Replayable(g.mode, l)
  BY DEF Shadow
<1>2. /\ Replayable(g.mode, Append(l, event)) /\ Append(l, event) \in Seq(Events)
      /\ Replay(g.mode, Append(l, event)) = ApplyRecordedEvent(Replay(g.mode, l), event)
  BY <1>1, ReplayGoesOn
<1> QED
  BY <1>2 DEF Shadow, Verify, InProgress, Finished

LEMMA ShadowCharged ==
  ASSUME NEW g, NEW h, NEW l, Shadow(g, l), g \in Games, NEW spent \in 0..g.remaining[g.turn],
         spent > 0 => g.status = InProgress,
         Alike(g, h), h.active = g.active, h.pending = g.pending + spent,
         h.remaining = [g.remaining EXCEPT ![g.turn] = @ - spent]
  PROVE  Shadow(h, l)
<1> DEFINE r == Replay(g.mode, l)
<1>1. /\ h.mode = g.mode /\ h.status = g.status /\ h.reason = g.reason /\ h.turn = g.turn
      /\ h.board = g.board /\ h.winner = g.winner /\ h.moves = g.moves
  BY DEF Alike, SamePosition
<1>2. /\ g.remaining \in [Players -> Nat] /\ g.turn \in Players /\ g.pending \in Nat
      /\ g.remaining[g.turn] \in Nat
  BY GameFields
<1>3. CASE g.status = InProgress
  <2>1. Follows(g, r)
    BY <1>3 DEF Shadow
  <2> HIDE DEF r
  <2>2. Alike(h, r)
    BY <2>1 DEF Follows, Alike, SamePosition, OffersAre
  <2>3. ASSUME NEW c \in Players PROVE r.remaining[c] = h.remaining[c] + Owed(h, c)
    <3>1. r.remaining[c] = g.remaining[c] + Owed(g, c) /\ g.remaining[c] \in Nat
      BY <1>2, <2>1 DEF Follows
    <3>2. CASE c = g.turn
      BY <1>1, <1>2, <3>1, <3>2 DEF Owed
    <3>3. CASE c # g.turn
      BY <1>1, <1>2, <3>1, <3>3 DEF Owed
    <3> QED
      BY <3>2, <3>3
  <2>4. Follows(h, r)
    BY <2>1, <2>2, <2>3 DEF Follows
  <2> QED
    BY <1>1, <1>3, <2>4 DEF Shadow, r, InProgress, Finished
<1>4. CASE g.status # InProgress
  <2>1. h.remaining = g.remaining
    BY <1>2, <1>4
  <2>2. FinalState(h) = FinalState(g)
    BY <1>1, <2>1 DEF FinalState
  <2> QED
    BY <1>1, <1>4, <2>2 DEF Shadow, Verify
<1> QED
  BY <1>3, <1>4

\* The same call on both keeps them level.
LEMMA BothTold ==
  ASSUME NEW g, NEW q, NEW h, NEW k, Level(g, q), SameButOffers(g, h), SameButOffers(q, k),
         k \in Games, h.pending = 0, k.remaining = h.remaining,
         OffersAre(k, h.drawBy, h.drawUsed, h.timeBy, h.timeUsed)
  PROVE  Follows(h, k)
<1>1. Running(k)
  BY DEF Level, Running, SameButOffers
<1>2. Alike(h, k)
  BY DEF Level, Alike, SamePosition, SameButOffers
<1>3. ASSUME NEW c \in Players PROVE k.remaining[c] = h.remaining[c] + Owed(h, c)
  <2>1. k.remaining[c] \in Nat /\ Owed(h, c) = 0
    BY GameFields DEF Owed
  <2> QED
    BY <2>1
<1> QED
  BY <1>1, <1>2, <1>3 DEF Follows

LEMMA OffersShadow ==
  ASSUME NEW g, NEW h, NEW l, Sound(g), Shadow(g, l), g.status = InProgress,
         g.emitted = <<>>, NEW player \in Players,
         \/ CanOfferDraw(g, player) /\ h = OfferedDraw(g, player)
         \/ CanAnswer(g, player, g.drawBy) /\ h = DeclinedDraw(g, player)
         \/ CanOfferTime(g, player) /\ h = OfferedTime(g, player)
         \/ CanAnswer(g, player, g.timeBy)
              /\ (h = DeclinedTime(g, player) \/ h = AcceptedTime(g, player))
  PROVE  Shadow(h, l \o h.emitted)
<1> DEFINE r == Replay(g.mode, l)
<1>1. Follows(g, r) /\ l \in Seq(Events) /\ g \in Games
  BY DEF Shadow, Sound
<1> HIDE DEF r
<1>2. ASSUME NEW event, NEW kind, NEW bonus, Tells(g, h, event, kind, player, bonus),
             SameButOffers(g, h), Follows(h, ApplyRecordedEvent(r, event))
      PROVE  Shadow(h, l \o h.emitted)
  <2>1. h.mode = g.mode /\ h.status = InProgress /\ event \in Events
    BY <1>2 DEF Tells, SameButOffers
  <2>2. Shadow(h, Append(l, event))
    BY <1>2, <2>1, ShadowOfEvent DEF r
  <2> QED
    BY <1>1, <1>2, <2>2, OneTold
<1>3. ASSUME NEW event, event.elapsed = g.pending
      PROVE  /\ Level(g, Advanced(r, event)) /\ Advanced(r, event) \in Games
             /\ Alike(g, Advanced(r, event))
             /\ Advanced(r, event).remaining = g.remaining
  <2>1. Level(g, Advanced(r, event))
    BY <1>1, <1>3, AdvancedIsLevel
  <2> QED
    BY <2>1 DEF Level, Running
<1>4. CASE CanOfferDraw(g, player) /\ h = OfferedDraw(g, player)
  <2>1. Offering(g, h, "draw_offer", player) /\ OffersAre(h, player, player, g.timeBy, g.timeUsed)
    BY <1>1, <1>4, OffersAreTold
  <2>2. PICK event : Tells(g, h, event, "draw_offer", player, 0)
    BY <2>1 DEF Offering
  <2> DEFINE q == Advanced(r, event)
             k == ApplyRecordedEvent(r, event)
  <2>3. Level(g, q) /\ q \in Games /\ Alike(g, q) /\ q.remaining = g.remaining
    BY <1>3, <2>2 DEF Tells
  <2>4. k = OfferedDraw(q, player)
    BY <1>4, <2>2, <2>3, SameAnswers, AppliedOffer DEF Tells
  <2> HIDE DEF q, k
  <2>5. /\ k \in Games /\ Offering(q, k, "draw_offer", player)
        /\ OffersAre(k, player, player, q.timeBy, q.timeUsed)
    BY <2>3, <2>4, OffersAreTold, OfferType
  <2>6. OffersAre(k, h.drawBy, h.drawUsed, h.timeBy, h.timeUsed)
    BY <2>1, <2>3, <2>5 DEF OffersAre, Alike
  <2>7. Follows(h, k)
    BY <2>1, <2>2, <2>3, <2>5, <2>6, BothTold DEF Offering, Tells
  <2> QED
    BY <1>2, <2>1, <2>2, <2>7 DEF k, Offering
<1>5. CASE CanAnswer(g, player, g.drawBy) /\ h = DeclinedDraw(g, player)
  <2>1. Offering(g, h, "draw_decline", player) /\ OffersAre(h, None, g.drawUsed, g.timeBy, g.timeUsed)
    BY <1>1, <1>5, OffersAreTold
  <2>2. PICK event : Tells(g, h, event, "draw_decline", player, 0)
    BY <2>1 DEF Offering
  <2> DEFINE q == Advanced(r, event)
             k == ApplyRecordedEvent(r, event)
  <2>3. Level(g, q) /\ q \in Games /\ Alike(g, q) /\ q.remaining = g.remaining
    BY <1>3, <2>2 DEF Tells
  <2>4. k = DeclinedDraw(q, player)
    BY <1>5, <2>2, <2>3, SameAnswers, AppliedOffer DEF Tells
  <2> HIDE DEF q, k
  <2>5. /\ k \in Games /\ Offering(q, k, "draw_decline", player)
        /\ OffersAre(k, None, q.drawUsed, q.timeBy, q.timeUsed)
    BY <2>3, <2>4, OffersAreTold, OfferType
  <2>6. OffersAre(k, h.drawBy, h.drawUsed, h.timeBy, h.timeUsed)
    BY <2>1, <2>3, <2>5 DEF OffersAre, Alike
  <2>7. Follows(h, k)
    BY <2>1, <2>2, <2>3, <2>5, <2>6, BothTold DEF Offering, Tells
  <2> QED
    BY <1>2, <2>1, <2>2, <2>7 DEF k, Offering
<1>6. CASE CanOfferTime(g, player) /\ h = OfferedTime(g, player)
  <2>1. Offering(g, h, "time_offer", player) /\ OffersAre(h, g.drawBy, g.drawUsed, player, player)
    BY <1>1, <1>6, OffersAreTold
  <2>2. PICK event : Tells(g, h, event, "time_offer", player, 0)
    BY <2>1 DEF Offering
  <2> DEFINE q == Advanced(r, event)
             k == ApplyRecordedEvent(r, event)
  <2>3. Level(g, q) /\ q \in Games /\ Alike(g, q) /\ q.remaining = g.remaining
    BY <1>3, <2>2 DEF Tells
  <2>4. k = OfferedTime(q, player)
    BY <1>6, <2>2, <2>3, SameAnswers, AppliedOffer DEF Tells
  <2> HIDE DEF q, k
  <2>5. /\ k \in Games /\ Offering(q, k, "time_offer", player)
        /\ OffersAre(k, q.drawBy, q.drawUsed, player, player)
    BY <2>3, <2>4, OffersAreTold, OfferType
  <2>6. OffersAre(k, h.drawBy, h.drawUsed, h.timeBy, h.timeUsed)
    BY <2>1, <2>3, <2>5 DEF OffersAre, Alike
  <2>7. Follows(h, k)
    BY <2>1, <2>2, <2>3, <2>5, <2>6, BothTold DEF Offering, Tells
  <2> QED
    BY <1>2, <2>1, <2>2, <2>7 DEF k, Offering
<1>7. CASE CanAnswer(g, player, g.timeBy) /\ h = DeclinedTime(g, player)
  <2>1. Offering(g, h, "time_decline", player) /\ OffersAre(h, g.drawBy, g.drawUsed, None, g.timeUsed)
    BY <1>1, <1>7, OffersAreTold
  <2>2. PICK event : Tells(g, h, event, "time_decline", player, 0)
    BY <2>1 DEF Offering
  <2> DEFINE q == Advanced(r, event)
             k == ApplyRecordedEvent(r, event)
  <2>3. Level(g, q) /\ q \in Games /\ Alike(g, q) /\ q.remaining = g.remaining
    BY <1>3, <2>2 DEF Tells
  <2>4. k = DeclinedTime(q, player)
    BY <1>7, <2>2, <2>3, SameAnswers, AppliedOffer DEF Tells
  <2> HIDE DEF q, k
  <2>5. /\ k \in Games /\ Offering(q, k, "time_decline", player)
        /\ OffersAre(k, q.drawBy, q.drawUsed, None, q.timeUsed)
    BY <2>3, <2>4, OffersAreTold, OfferType
  <2>6. OffersAre(k, h.drawBy, h.drawUsed, h.timeBy, h.timeUsed)
    BY <2>1, <2>3, <2>5 DEF OffersAre, Alike
  <2>7. Follows(h, k)
    BY <2>1, <2>2, <2>3, <2>5, <2>6, BothTold DEF Offering, Tells
  <2> QED
    BY <1>2, <2>1, <2>2, <2>7 DEF k, Offering
<1>8. CASE CanAnswer(g, player, g.timeBy) /\ h = AcceptedTime(g, player)
  <2>1. /\ SameButOffers(g, h) /\ OffersAre(h, g.drawBy, g.drawUsed, None, g.timeUsed)
        /\ h.remaining = [c \in Players |-> AddMs(g.remaining[c], TimeExtension)]
    BY <1>1, <1>8, TimeIsTold
  <2>2. PICK event : Tells(g, h, event, "time_accept", player, TimeExtension)
    BY <1>1, <1>8, TimeIsTold
  <2> DEFINE q == Advanced(r, event)
             k == ApplyRecordedEvent(r, event)
  <2>3. Level(g, q) /\ q \in Games /\ Alike(g, q) /\ q.remaining = g.remaining
    BY <1>3, <2>2 DEF Tells
  <2>4. k = AcceptedTime(q, player)
    BY <1>8, <2>2, <2>3, SameAnswers, AppliedOffer DEF Tells
  <2> HIDE DEF q, k
  <2>5. /\ k \in Games /\ SameButOffers(q, k)
        /\ OffersAre(k, q.drawBy, q.drawUsed, None, q.timeUsed)
        /\ k.remaining = [c \in Players |-> AddMs(q.remaining[c], TimeExtension)]
    BY <2>3, <2>4, TimeIsTold, AcceptedTimeType
  <2>6. OffersAre(k, h.drawBy, h.drawUsed, h.timeBy, h.timeUsed) /\ k.remaining = h.remaining
    BY <2>1, <2>3, <2>5 DEF OffersAre, Alike
  <2>7. Follows(h, k)
    BY <2>1, <2>2, <2>3, <2>5, <2>6, BothTold DEF Tells
  <2> QED
    BY <1>2, <2>1, <2>2, <2>7 DEF k
<1> QED
  BY <1>4, <1>5, <1>6, <1>7, <1>8

\* The same ending of both is the same final state.
LEMMA BothEnd ==
  ASSUME NEW g, NEW q, NEW h, NEW k, NEW player, NEW winner, NEW reason,
         Alike(g, q), q.remaining = g.remaining,
         Ending(g, h, player, winner, reason), Ending(q, k, player, winner, reason)
  PROVE  FinalState(k) = FinalState(h)
  BY DEF Alike, SamePosition, Ending, FinalState

\* The replay agrees with the ending it is told when it has come to it.
LEMMA CheckedEnds ==
  ASSUME NEW g, NEW h, NEW q, NEW k, NEW event, NEW player, NEW winner, NEW reason,
         Ending(g, h, player, winner, reason), Ending(q, k, player, winner, reason),
         Tells(g, h, event, "end", player, 0)
  PROVE  CheckedEnd(k, event) = k
  BY DEF Ending, Tells, CheckedEnd

LEMMA CallsEndAlike ==
  ASSUME NEW g, NEW h, NEW l, Sound(g), Kept(g, l), Shadow(g, l), g.status = InProgress,
         g.emitted = <<>>, NEW player \in Players,
         \/ CanAnswer(g, player, g.drawBy) /\ h = AcceptedDraw(g, player)
         \/ h = Resigned(g, player) \/ h = Abandoned(g, player)
  PROVE  Shadow(h, l \o h.emitted)
<1> DEFINE r == Replay(g.mode, l)
<1>1. Follows(g, r) /\ l \in Seq(Events) /\ g \in Games /\ ~g.endRecorded
  BY NoEndYet DEF Shadow
<1> HIDE DEF r
<1>2. ASSUME NEW winner, NEW reason, Ending(g, h, player, winner, reason),
             NEW event, Tells(g, h, event, "end", player, 0),
             NEW q, q = Advanced(r, event), NEW k, Ending(q, k, player, winner, reason),
             ApplyRecordedEnd(q, event) = CheckedEnd(k, event)
      PROVE  Shadow(h, l \o h.emitted)
  <2>1. Level(g, q)
    BY <1>1, <1>2, AdvancedIsLevel DEF Tells
  <2>2. ApplyRecordedEvent(r, event) = k
    BY <1>2, CheckedEnds, AppliedEnd DEF Tells
  <2>3. FinalState(k) = FinalState(h)
    BY <1>2, <2>1, BothEnd DEF Level
  <2>4. h.mode = g.mode /\ h.status = Finished /\ event \in Events
    BY <1>2 DEF Ending, Tells
  <2>5. Shadow(h, Append(l, event))
    BY <2>2, <2>3, <2>4, ShadowOfEvent DEF r
  <2> QED
    BY <1>1, <1>2, <2>5, OneTold
<1>3. ASSUME NEW winner, NEW reason, Ending(g, h, player, winner, reason)
      PROVE  \E event :
               /\ Tells(g, h, event, "end", player, 0)
               /\ event.kind = "end" /\ event.player = player /\ event.reason = reason
               /\ Alike(g, Advanced(r, event)) /\ Running(Advanced(r, event))
               /\ Advanced(r, event) \in Games /\ ~Advanced(r, event).endRecorded
  <2>1. PICK event : Tells(g, h, event, "end", player, 0)
    BY <1>3 DEF Ending
  <2>2. Level(g, Advanced(r, event))
    BY <1>1, <2>1, AdvancedIsLevel DEF Tells
  <2> QED
    BY <1>3, <2>1, <2>2 DEF Level, Running, Tells, Ending
<1>4. CASE CanAnswer(g, player, g.drawBy) /\ h = AcceptedDraw(g, player)
  <2>1. Ending(g, h, player, Neutral, "draw_agreement")
    BY <1>1, <1>4, CallsEnding
  <2>2. PICK event :
          /\ Tells(g, h, event, "end", player, 0)
          /\ event.kind = "end" /\ event.player = player /\ event.reason = "draw_agreement"
          /\ Alike(g, Advanced(r, event)) /\ Running(Advanced(r, event))
          /\ Advanced(r, event) \in Games /\ ~Advanced(r, event).endRecorded
    BY <1>3, <2>1
  <2> DEFINE q == Advanced(r, event)
             k == AcceptedDraw(q, player)
  <2>3. CanAnswer(q, player, q.drawBy)
    BY <1>4, <2>2, SameAnswers
  <2>4. Ending(q, k, player, Neutral, "draw_agreement")
    BY <2>2, CallsEnding
  <2> HIDE DEF q
  <2>5. ApplyRecordedEnd(q, event) = CheckedEnd(k, event)
    BY <2>2, <2>3 DEF ApplyRecordedEnd
  <2> QED
    BY <1>2, <2>1, <2>2, <2>4, <2>5 DEF q
<1>5. CASE h = Resigned(g, player)
  <2>1. Ending(g, h, player, OtherColor(player), "resignation")
    BY <1>1, <1>5, CallsEnding
  <2>2. PICK event :
          /\ Tells(g, h, event, "end", player, 0)
          /\ event.kind = "end" /\ event.player = player /\ event.reason = "resignation"
          /\ Alike(g, Advanced(r, event)) /\ Running(Advanced(r, event))
          /\ Advanced(r, event) \in Games /\ ~Advanced(r, event).endRecorded
    BY <1>3, <2>1
  <2> DEFINE q == Advanced(r, event)
             k == Resigned(q, player)
  <2>3. Ending(q, k, player, OtherColor(player), "resignation") /\ q.status = InProgress
    BY <2>2, CallsEnding DEF Running
  <2> HIDE DEF q
  <2>4. ApplyRecordedEnd(q, event) = CheckedEnd(k, event)
    BY <2>2, <2>3 DEF ApplyRecordedEnd
  <2> QED
    BY <1>2, <2>1, <2>2, <2>3, <2>4 DEF q
<1>6. CASE h = Abandoned(g, player)
  <2>1. Ending(g, h, player, OtherColor(player), "abandonment")
    BY <1>1, <1>6, CallsEnding
  <2>2. PICK event :
          /\ Tells(g, h, event, "end", player, 0)
          /\ event.kind = "end" /\ event.player = player /\ event.reason = "abandonment"
          /\ Alike(g, Advanced(r, event)) /\ Running(Advanced(r, event))
          /\ Advanced(r, event) \in Games /\ ~Advanced(r, event).endRecorded
    BY <1>3, <2>1
  <2> DEFINE q == Advanced(r, event)
             k == Abandoned(q, player)
  <2>3. Ending(q, k, player, OtherColor(player), "abandonment") /\ q.status = InProgress
    BY <2>2, CallsEnding DEF Running
  <2> HIDE DEF q
  <2>4. ApplyRecordedEnd(q, event) = CheckedEnd(k, event)
    BY <2>2, <2>3 DEF ApplyRecordedEnd
  <2> QED
    BY <1>2, <2>1, <2>2, <2>3, <2>4 DEF q
<1> QED
  BY <1>4, <1>5, <1>6

\* A replay that is over already is left as it is by the end of its log.
LEMMA OverAlready ==
  ASSUME NEW r \in Games, r.status = Finished, NEW event, event.kind = "end",
         event.elapsed \in Nat, event.reason \in BoardReasons,
         event.reason = r.reason, event.winner = r.winner
  PROVE  FinalState(ApplyRecordedEvent(r, event)) = FinalState(r)
<1> DEFINE ready == [r EXCEPT !.lag = @ + event.elapsed]
           h == UpdateClock(ready)
<1>1. h = [ready EXCEPT !.emitted = <<>>]
  BY DEF UpdateClock, Games, InProgress, Finished
<1>2. /\ FinalState(h) = FinalState(r)
      /\ h.status = Finished /\ h.reason = r.reason /\ h.winner = r.winner
  BY <1>1 DEF FinalState, Games
<1>3. h = Advanced(r, event)
  BY DEF Advanced
<1> HIDE DEF h
<1>4. ApplyRecordedEnd(h, event) = CheckedEnd(h, event)
  <2>1. event.reason \notin {"resignation", "abandonment", "draw_agreement"}
    BY DEF BoardReasons
  <2> QED
    BY <2>1 DEF ApplyRecordedEnd
<1>5. CheckedEnd(h, event) = h
  BY <1>2 DEF CheckedEnd
<1> QED
  BY <1>2, <1>3, <1>4, <1>5, AppliedEnd

LEMMA MovesShadow ==
  ASSUME NEW g, NEW l, Sound(g), Kept(g, l), Shadow(g, l), g.status = InProgress,
         g.emitted = <<>>, NEW from \in Squares, NEW to \in Squares,
         LegalMove(g, g.turn, from, to)
  PROVE  LET h == AfterMove(g, g.turn, from, to) IN Shadow(h, l \o h.emitted)
<1> DEFINE player == g.turn
           Made(a) == MoveMade(a, player, from, to)
           Told(a) == RecordMove(Made(a), player, from, to)
           After(a) == AfterMove(a, player, from, to)
           r == Replay(g.mode, l)
<1>1. /\ g.endRecorded = FALSE /\ l \in Seq(Events) /\ g \in Games
      /\ player \in Players /\ player \in Colors /\ Follows(g, r)
  BY NoEndYet, ColorTypes DEF Shadow
<1>2. ASSUME NEW a \in Games, a.status = InProgress, a.endRecorded = FALSE
      PROVE  /\ After(a) = RecordEnd(Told(a), player)
             /\ AsMoved(a, Played(a, player, from, to), Made(a), player)
             /\ Told(a) \in Games /\ Told(a).endRecorded = FALSE
             /\ Told(a).plies = a.plies + 1
             /\ SamePosition(Made(a), Told(a)) /\ Told(a).remaining = Made(a).remaining
             /\ Told(a).active = Made(a).active
             /\ Told(a).clockPending = FALSE /\ Told(a).lag = 0
             /\ OffersAre(Told(a), Made(a).drawBy, Made(a).drawUsed, Made(a).timeBy,
                          Made(a).timeUsed)
             /\ \E event : event.move = <<from, to>> /\ Tells(a, Told(a), event, "move", player, 0)
  <2>1. AsMoved(a, Played(a, player, from, to), Made(a), player)
    BY <1>1, <1>2, MoveMadeFields
  <2>2. After(a) = RecordEnd(Told(a), player)
    BY AfterMoveRecords
  <2> DEFINE made == Made(a)
             told == RecordMove(made, player, from, to)
  <2>3. /\ told \in Games /\ told.endRecorded = a.endRecorded /\ told.plies = a.plies + 1
        /\ told.mode = made.mode /\ told.board = made.board /\ told.turn = made.turn
        /\ told.status = made.status /\ told.winner = made.winner /\ told.reason = made.reason
        /\ told.moves = made.moves /\ told.remaining = made.remaining
        /\ told.active = made.active /\ told.clockPending = made.clockPending
        /\ told.quiet = made.quiet /\ told.lag = made.lag
        /\ OffersAre(told, made.drawBy, made.drawUsed, made.timeBy, made.timeUsed)
        /\ \E event : event.move = <<from, to>> /\ Tells(a, told, event, "move", player, 0)
    BY <1>1, <1>2, MoveIsTold
  <2> HIDE DEF made, told
  <2>4. told.clockPending = FALSE /\ told.lag = 0 /\ told.endRecorded = FALSE
    BY <1>2, <2>1, <2>3 DEF AsMoved, made
  <2>5. SamePosition(made, told)
    BY <2>3 DEF SamePosition
  <2> QED
    BY <2>1, <2>2, <2>3, <2>4, <2>5 DEF made, told
<1> HIDE DEF player, Made, Told, After, r
<1>3. PICK event : event.move = <<from, to>> /\ Tells(g, Told(g), event, "move", player, 0)
  BY <1>1, <1>2
<1> DEFINE q == Advanced(r, event)
           m == Told(g)
           n == Told(q)
<1>4. Level(g, q) /\ q \in Games /\ q.status = InProgress /\ q.endRecorded = FALSE
  <2>1. Level(g, q)
    BY <1>1, <1>3, AdvancedIsLevel DEF Tells
  <2> QED
    BY <2>1 DEF Level, Running
<1>5. ApplyRecordedEvent(r, event) = After(q)
  <2>1. LegalMove(q, player, from, to)
    BY <1>4, SameAnswers DEF Level, player
  <2>2. /\ event.kind = "move" /\ event.player = player
        /\ event.move[1] = from /\ event.move[2] = to
    BY <1>3 DEF Tells
  <2> QED
    BY <2>1, <2>2, AppliedMove DEF After
<1> HIDE DEF q
<1>6. SamePosition(Played(g, player, from, to), Played(q, player, from, to))
  BY <1>1, <1>4, SamePlayed DEF Level, Alike
<1>7. /\ AsMoved(g, Played(g, player, from, to), Made(g), player)
      /\ AsMoved(q, Played(q, player, from, to), Made(q), player)
      /\ SamePosition(Made(g), m) /\ SamePosition(Made(q), n)
      /\ m.remaining = Made(g).remaining /\ n.remaining = Made(q).remaining
      /\ m.active = Made(g).active /\ n.active = Made(q).active
      /\ OffersAre(m, Made(g).drawBy, Made(g).drawUsed, Made(g).timeBy, Made(g).timeUsed)
      /\ OffersAre(n, Made(q).drawBy, Made(q).drawUsed, Made(q).timeBy, Made(q).timeUsed)
      /\ m.plies = g.plies + 1 /\ n.plies = q.plies + 1
      /\ m \in Games /\ n \in Games /\ m.endRecorded = FALSE /\ n.endRecorded = FALSE
      /\ n.clockPending = FALSE /\ n.lag = 0
      /\ After(g) = RecordEnd(m, player) /\ After(q) = RecordEnd(n, player)
  BY <1>1, <1>2, <1>4
<1>8. SamePosition(Made(g), Made(q))
  <2> DEFINE a == Played(g, player, from, to)
             b == Played(q, player, from, to)
  <2> HIDE DEF a, b
  <2>1. SamePosition(a, b) /\ AsMoved(g, a, Made(g), player) /\ AsMoved(q, b, Made(q), player)
    BY <1>6, <1>7 DEF a, b
  <2>2. g.mode = q.mode
    BY <1>4 DEF Level, Alike, SamePosition
  <2> QED
    BY <2>1, <2>2 DEF SamePosition, AsMoved
<1>9. /\ Made(g).remaining = Made(q).remaining /\ Made(g).active = Made(q).active
      /\ OffersAre(Made(q), Made(g).drawBy, Made(g).drawUsed, Made(g).timeBy, Made(g).timeUsed)
  <2>1. /\ Made(g).remaining = [g.remaining EXCEPT ![player] = AddMs(@, Increment)]
        /\ Made(q).remaining = [q.remaining EXCEPT ![player] = AddMs(@, Increment)]
    BY <1>7 DEF AsMoved
  <2>2. /\ q.remaining = g.remaining /\ q.drawBy = g.drawBy /\ q.timeBy = g.timeBy
        /\ Made(g).status = Made(q).status /\ Made(g).turn = Made(q).turn
    BY <1>4, <1>8 DEF Level, Alike, OffersAre, SamePosition
  <2> QED
    BY <1>7, <2>1, <2>2 DEF AsMoved, OffersAre
<1> HIDE DEF m, n
<1>10. /\ SamePosition(m, n) /\ n.remaining = m.remaining /\ n.active = m.active
       /\ Alike(m, n) /\ m.mode = g.mode
  <2>1. SamePosition(m, n) /\ n.remaining = m.remaining /\ n.active = m.active
    BY <1>7, <1>8, <1>9 DEF SamePosition
  <2>2. OffersAre(n, m.drawBy, m.drawUsed, m.timeBy, m.timeUsed)
    BY <1>7, <1>9 DEF OffersAre
  <2>3. n.plies = m.plies
    BY <1>4, <1>7 DEF Level, Alike
  <2>4. m.mode = g.mode
    BY <1>7 DEF SamePosition, AsMoved
  <2> QED
    BY <2>1, <2>2, <2>3, <2>4 DEF Alike
<1>11. /\ event \in Events /\ l \o m.emitted = Append(l, event) /\ m.emitted = <<event>>
       /\ m.pending = 0
  BY <1>1, <1>3, OneTold, TwoAppended DEF Tells, m
<1>12. m.status \in {InProgress, Finished} /\ n.status = m.status
  BY <1>7, <1>10 DEF Games, SamePosition
<1>13. CASE m.status = InProgress
  <2>1. After(g) = m /\ After(q) = n
    BY <1>7, <1>12, <1>13 DEF RecordEnd, InProgress, Finished
  <2>2. Running(n)
    BY <1>7, <1>12, <1>13 DEF Running
  <2>3. ASSUME NEW c \in Players PROVE n.remaining[c] = m.remaining[c] + Owed(m, c)
    <3>1. n.remaining[c] \in Nat /\ Owed(m, c) = 0
      BY <1>7, <1>11, GameFields DEF Owed
    <3> QED
      BY <1>10, <3>1
  <2>4. Follows(m, n)
    BY <1>10, <2>2, <2>3 DEF Follows
  <2>5. Shadow(m, Append(l, event))
    BY <1>5, <1>10, <1>11, <1>13, <2>1, <2>4, ShadowOfEvent DEF r
  <2> QED
    BY <1>11, <2>1, <2>5 DEF After, player
<1>14. CASE m.status = Finished
  <2> DEFINE h == RecordEnd(m, player)
             k == RecordEnd(n, player)
             end == Entry(m, "end", player, NoMove, 0)
  <2>1. /\ h \in Games /\ SameButTheLog(m, h) /\ h.pending = 0
        /\ end \in Events /\ h.emitted = Append(m.emitted, end)
    BY <1>1, <1>7, <1>14, EndIsRecorded
  <2>2. k \in Games /\ SameButTheLog(n, k)
    BY <1>1, <1>7, <1>12, <1>14, EndIsRecorded
  <2>3. /\ end.kind = "end" /\ end.elapsed = 0
        /\ end.reason = m.reason /\ end.winner = m.winner
    BY <1>11 DEF Entry
  <2> HIDE DEF h, k, end
  <2>4. m.reason \in BoardReasons
    BY <1>7, <1>14 DEF SamePosition, AsMoved
  <2>5. FinalState(k) = FinalState(m) /\ FinalState(h) = FinalState(m)
    BY <1>10, <2>1, <2>2 DEF SamePosition, SameButTheLog, FinalState
  <2>6. ApplyRecordedEvent(r, event) = k
    BY <1>5, <1>7 DEF k
  <2>7. Shadow(m, Append(l, event))
    BY <1>10, <1>11, <1>14, <2>5, <2>6, ShadowOfEvent DEF r
  <2>8. Replay(g.mode, Append(l, event)) = k
    BY <1>1, <1>11, <2>6, ReplayGoesOn DEF Shadow, r
  <2>9. FinalState(ApplyRecordedEvent(k, end)) = FinalState(h)
    <3>1. k.status = Finished /\ end.reason = k.reason /\ end.winner = k.winner
      BY <1>10, <1>14, <2>2, <2>3 DEF SamePosition, SameButTheLog
    <3>2. FinalState(ApplyRecordedEvent(k, end)) = FinalState(k)
      BY <2>2, <2>3, <2>4, <3>1, OverAlready
    <3> QED
      BY <2>5, <3>2
  <2>10. Shadow(h, Append(Append(l, event), end))
    BY <1>10, <1>14, <2>1, <2>7, <2>8, <2>9, ShadowOfEvent DEF SameButTheLog
  <2>11. l \o h.emitted = Append(Append(l, event), end)
    BY <1>1, <1>11, <2>1, TwoAppended
  <2> QED
    BY <1>7, <2>10, <2>11 DEF h, After, player
<1> QED
  BY <1>12, <1>13, <1>14

\* The clock that runs out in the game runs out in the replay, at the instant
\* the ending was told of.
LEMMA FlagShadow ==
  ASSUME NEW g, NEW l, Sound(g), Shadow(g, l), g.status = InProgress, ~g.endRecorded,
         UpdateClock(g) = RecordEnd(FinishGame(Fallen(g), OtherColor(g.turn), "timeout"), g.turn)
  PROVE  Shadow(UpdateClock(g), l \o UpdateClock(g).emitted)
<1> DEFINE h == UpdateClock(g)
           r == Replay(g.mode, l)
           loser == g.turn
           f == Fallen(g)
<1>1. /\ f \in Games /\ loser \in Colors /\ OtherColor(loser) \in Colors
      /\ "timeout" \in EndReasons /\ g \in Games /\ loser \in Players
      /\ l \in Seq(Events) /\ Follows(g, r)
  BY SoundFields, FallenFields DEF EndReasons, Shadow
<1>2. /\ f.emitted = <<>> /\ f.endRecorded = g.endRecorded
      /\ f.pending = g.pending + g.remaining[loser]
      /\ f.remaining = [g.remaining EXCEPT ![loser] = 0]
      /\ SamePosition(g, f)
  BY <1>1 DEF Fallen, Games, SamePosition
<1>3. Ending(f, h, loser, OtherColor(loser), "timeout")
  BY <1>1, <1>2, EndIsTold
<1> HIDE DEF h, r, loser, f
<1>4. PICK event : Tells(f, h, event, "end", loser, 0)
  BY <1>3 DEF Ending
<1> DEFINE ready == [r EXCEPT !.lag = @ + event.elapsed]
           q == Fallen(ready)
           k == RecordEnd(FinishGame(q, OtherColor(loser), "timeout"), loser)
<1>5. /\ g.remaining \in [Players -> Nat] /\ g.remaining[loser] \in Nat
      /\ g.remaining[loser] > 0 /\ g.pending \in Nat
  BY <1>1, GameFields DEF Sound, Playable
<1>6. /\ r \in Games /\ r.lag = 0 /\ r.status = InProgress /\ r.clockPending = FALSE
      /\ r.endRecorded = FALSE /\ SamePosition(g, r) /\ r.turn = loser
      /\ r.remaining[loser] = g.remaining[loser] + g.pending
      /\ \A c \in Players : c # loser => r.remaining[c] = g.remaining[c] + 0
  BY <1>1 DEF Follows, Running, Alike, SamePosition, Owed, loser
<1>7. event.elapsed = g.pending + g.remaining[loser] /\ event \in Events
  BY <1>2, <1>4 DEF Tells
<1>8. /\ ready \in Games /\ ready.lag = r.remaining[loser] /\ ready.lag > 0
      /\ ready.status = InProgress /\ ready.clockPending = FALSE
      /\ ready.endRecorded = FALSE /\ ready.remaining = r.remaining
      /\ ready.turn = loser /\ SamePosition(r, ready)
  <2>1. /\ r.lag + event.elapsed \in Int /\ r.lag + event.elapsed = r.remaining[loser]
        /\ r.lag + event.elapsed > 0
    BY <1>5, <1>6, <1>7
  <2> QED
    BY <1>6, <2>1 DEF Games, SamePosition
<1> HIDE DEF ready
<1>9. Advanced(r, event) = k
  <2>1. ready.lag >= ready.remaining[ready.turn]
    BY <1>5, <1>6, <1>8
  <2> QED
    BY <1>8, <2>1 DEF Advanced, ready, UpdateClock, FlagFalls, Fallen
<1>10. /\ q \in Games /\ q.endRecorded = FALSE /\ SamePosition(ready, q)
       /\ q.remaining = [ready.remaining EXCEPT ![loser] = 0]
  BY <1>8, FallenFields DEF Fallen, Games, SamePosition
<1> HIDE DEF q
<1>11. Ending(q, k, loser, OtherColor(loser), "timeout")
  BY <1>1, <1>10, EndIsTold
<1> HIDE DEF k
<1>12. CheckedEnd(k, event) = k
  BY <1>3, <1>4, <1>11, CheckedEnds
<1>13. ApplyRecordedEvent(r, event) = k
  <2>1. event.kind = "end" /\ event.reason = "timeout"
    BY <1>3, <1>4 DEF Tells, Ending
  <2>2. ApplyRecordedEnd(k, event) = CheckedEnd(k, event)
    BY <2>1 DEF ApplyRecordedEnd
  <2> QED
    BY <1>9, <1>12, <2>1, <2>2, AppliedEnd
<1>14. FinalState(k) = FinalState(h)
  <2>1. q.remaining = f.remaining
    <3>1. r.remaining \in [Players -> Nat]
      BY <1>6, GameFields
    <3>2. \A c \in Players : c # loser => r.remaining[c] = g.remaining[c]
      BY <1>5, <1>6
    <3>3. [r.remaining EXCEPT ![loser] = 0] = [g.remaining EXCEPT ![loser] = 0]
      BY <1>5, <3>1, <3>2
    <3> QED
      BY <1>2, <1>8, <1>10, <3>3
  <2>2. SamePosition(f, q)
    BY <1>2, <1>6, <1>8, <1>10 DEF SamePosition
  <2> QED
    BY <1>3, <1>11, <2>1, <2>2 DEF FinalState, Ending, SamePosition
<1>15. h.mode = g.mode /\ h.status = Finished
  BY <1>2, <1>3 DEF Ending, SamePosition
<1>16. Shadow(h, Append(l, event))
  BY <1>7, <1>13, <1>14, <1>15, ShadowOfEvent DEF r
<1>17. l \o h.emitted = Append(l, event)
  BY <1>1, <1>2, <1>4, OneTold
<1> QED
  BY <1>16, <1>17 DEF h

LEMMA SettlingShadow ==
  ASSUME NEW g, NEW l, Sound(g), Shadow(g, l), g.status = InProgress => ~g.endRecorded
  PROVE  Shadow(UpdateClock(g), l \o UpdateClock(g).emitted)
<1> DEFINE h == UpdateClock(g)
           fallen == FinishGame(Fallen(g), OtherColor(g.turn), "timeout")
<1>1. \/ /\ h.emitted = <<>> /\ h.active = g.active /\ Alike(g, h)
         /\ \E spent \in 0..g.remaining[g.turn] :
              /\ h.pending = g.pending + spent
              /\ h.remaining = [g.remaining EXCEPT ![g.turn] = @ - spent]
              /\ spent > 0 => g.status = InProgress
      \/ g.status = InProgress /\ h = RecordEnd(fallen, g.turn)
  BY SettlingFields DEF Alike, SamePosition, OffersAre
<1> HIDE DEF h
<1>2. CASE /\ h.emitted = <<>> /\ h.active = g.active /\ Alike(g, h)
           /\ \E spent \in 0..g.remaining[g.turn] :
                /\ h.pending = g.pending + spent
                /\ h.remaining = [g.remaining EXCEPT ![g.turn] = @ - spent]
                /\ spent > 0 => g.status = InProgress
  <2>1. l \in Seq(Events) /\ g \in Games
    BY DEF Shadow, Sound
  <2>2. l \o h.emitted = l
    BY <1>2, <2>1
  <2>3. Shadow(h, l)
    BY <1>2, <2>1, ShadowCharged
  <2> QED
    BY <2>2, <2>3 DEF h
<1>3. CASE g.status = InProgress /\ h = RecordEnd(fallen, g.turn)
  BY <1>3, FlagShadow DEF h
<1> QED
  BY <1>1, <1>2, <1>3

LEMMA ShadowSame ==
  ASSUME NEW g, NEW h, NEW l, Shadow(g, l), Alike(g, h), h.active = g.active,
         h.pending = g.pending, h.remaining = g.remaining
  PROVE  Shadow(h, l)
<1>1. FinalState(h) = FinalState(g)
  BY DEF Alike, SamePosition, FinalState
<1>2. ASSUME NEW r, Follows(g, r) PROVE Follows(h, r)
  BY <1>2 DEF Follows, Owed, Alike, SamePosition, OffersAre
<1>3. h.mode = g.mode /\ h.status = g.status /\ h.reason = g.reason
  BY DEF Alike, SamePosition
<1> QED
  BY <1>1, <1>2, <1>3 DEF Shadow, Verify

LEMMA CallsShadow ==
  ASSUME NEW g, NEW h, NEW l, Sound(g), Kept(g, l), Shadow(g, l), g.status = InProgress,
         g.emitted = <<>>, Calls(g, h)
  PROVE  Shadow(h, l \o h.emitted)
<1>1. l \in Seq(Events) /\ g \in Games
  BY NoEndYet
<1>2. ASSUME NEW player \in Players, NEW from \in Squares, NEW to \in Squares,
             LegalMove(g, player, from, to), h = AfterMove(g, player, from, to)
      PROVE  Shadow(h, l \o h.emitted)
  <2>1. player = g.turn
    BY <1>2 DEF LegalMove
  <2> QED
    BY <1>2, <2>1, MovesShadow
<1>3. ASSUME NEW player \in Players,
             \/ CanOfferDraw(g, player) /\ h = OfferedDraw(g, player)
             \/ CanAnswer(g, player, g.drawBy) /\ h = DeclinedDraw(g, player)
             \/ CanOfferTime(g, player) /\ h = OfferedTime(g, player)
             \/ CanAnswer(g, player, g.timeBy)
                  /\ (h = DeclinedTime(g, player) \/ h = AcceptedTime(g, player))
      PROVE  Shadow(h, l \o h.emitted)
  BY <1>3, OffersShadow
<1>4. ASSUME NEW player \in Players,
             \/ CanAnswer(g, player, g.drawBy) /\ h = AcceptedDraw(g, player)
             \/ h = Resigned(g, player) \/ h = Abandoned(g, player)
      PROVE  Shadow(h, l \o h.emitted)
  BY <1>4, CallsEndAlike
<1>5. ASSUME NEW winner \in Colors, h = Adjudicated(g, winner)
      PROVE  Shadow(h, l \o h.emitted)
  <2>1. "adjudication" \in EndReasons
    BY DEF EndReasons
  <2>2. /\ h.mode = g.mode /\ h.status = Finished /\ h.reason = "adjudication"
        /\ h.emitted = g.emitted
    BY <1>1, <1>5, <2>1, FinishedFields DEF Adjudicated
  <2>3. l \o h.emitted = l
    BY <1>1, <2>2
  <2> QED
    BY <2>2, <2>3 DEF Shadow, InProgress, Finished
<1>6. ASSUME NEW span \in HoldSpans, h = Held(g, span)
      PROVE  Shadow(h, l \o h.emitted)
  <2>1. /\ Alike(g, h) /\ h.active = g.active /\ h.pending = g.pending
        /\ h.remaining = g.remaining /\ h.emitted = g.emitted
    BY <1>1, <1>6 DEF Held, Games, Alike, SamePosition, OffersAre
  <2>2. l \o h.emitted = l
    BY <1>1, <2>1
  <2> QED
    BY <2>1, <2>2, ShadowSame
<1> QED
  BY <1>2, <1>3, <1>4, <1>5, <1>6 DEF Calls

LEMMA NewShadow ==
  ASSUME NEW mode \in Modes, NEW deferred \in BOOLEAN
  PROVE  Shadow(NewGame(mode, deferred), NewGame(mode, deferred).emitted)
<1> DEFINE Old(d) == Opened(mode, d)
           New(d) == NewGame(mode, d)
           winner == StalemateWinner(mode, FirstToMove)
           g == Old(deferred)
           h == New(deferred)
           r == New(FALSE)
<1>1. \A d \in BOOLEAN : Old(d).mode = mode /\ Old(d).pending = 0 /\ Old(d).emitted = <<>>
  BY DEF Opened
<1>2. \A d \in BOOLEAN :
        /\ Old(d) \in Games
        /\ HasLegalMove(Old(d)) => New(d) = Old(d)
        /\ ~HasLegalMove(Old(d)) => Ending(Old(d), New(d), Neutral, winner, "stalemate")
  BY OpenedFields
<1>3. HasLegalMove(Old(FALSE)) <=> HasLegalMove(g)
  BY HasLegalMoveFrame DEF Opened
<1>4. Level(g, Old(FALSE))
  <2>1. Alike(g, Old(FALSE)) /\ Old(FALSE).remaining = g.remaining
    BY DEF Opened, Alike, SamePosition, OffersAre
  <2>2. /\ Old(FALSE).status = InProgress /\ Old(FALSE).clockPending = FALSE
        /\ Old(FALSE).lag = 0 /\ Old(FALSE).endRecorded = FALSE
    BY DEF Opened
  <2> QED
    BY <1>2, <2>1, <2>2 DEF Level, Running
<1>5. g.status = InProgress
  BY DEF Opened
<1> DEFINE none == <<>>
<1>6. Replayable(mode, none) /\ Replay(mode, none) = r /\ none \in Seq(Events)
  <2>1. none \in Seq(Events)
    OBVIOUS
  <2>2. Replayable(mode, none) /\ Replay(mode, none) = r
    BY ReplayOfNothing, Zenon
  <2> QED
    BY <2>1, <2>2
<1> HIDE DEF Old, New, winner
<1>7. CASE HasLegalMove(g)
  <2>1. h = g /\ r = Old(FALSE)
    BY <1>2, <1>3, <1>7
  <2> HIDE DEF g, h, r
  <2>2. g.mode = mode /\ g.emitted = <<>> /\ g.pending = 0
    BY <1>1 DEF g
  <2>3. Follows(g, r)
    <3>1. ASSUME NEW c \in Players PROVE r.remaining[c] = g.remaining[c] + Owed(g, c)
      <4>1. r.remaining[c] \in Nat /\ Owed(g, c) = 0 /\ r.remaining = g.remaining
        BY <1>4, <2>1, <2>2, GameFields DEF Level, Running, Owed
      <4> QED
        BY <4>1
    <3> QED
      BY <1>4, <2>1, <3>1 DEF Level, Follows
  <2> QED
    BY <1>5, <1>6, <2>1, <2>2, <2>3 DEF Shadow, InProgress, Finished, h, New
<1>8. CASE ~HasLegalMove(g)
  <2>1. /\ Ending(g, h, Neutral, winner, "stalemate")
        /\ Ending(Old(FALSE), r, Neutral, winner, "stalemate")
    BY <1>2, <1>3, <1>8
  <2>2. g.mode = mode /\ g.emitted = <<>> /\ g.pending = 0
    BY <1>1
  <2> HIDE DEF g, h, r
  <2>3. PICK event : Tells(g, h, event, "end", Neutral, 0)
    BY <2>1 DEF Ending
  <2>4. FinalState(r) = FinalState(h)
    BY <1>4, <2>1, BothEnd DEF Level
  <2>5. FinalState(ApplyRecordedEvent(r, event)) = FinalState(r)
    <3>1. /\ r \in Games /\ r.status = Finished /\ event.kind = "end"
          /\ event.elapsed \in Nat /\ event.reason \in BoardReasons
          /\ event.reason = r.reason /\ event.winner = r.winner
      BY <2>1, <2>2, <2>3 DEF Ending, Tells, BoardReasons
    <3> QED
      BY <3>1, OverAlready
  <2>6. event \in Events /\ h.mode = mode /\ h.status = Finished /\ h.emitted = <<event>>
    BY <2>1, <2>2, <2>3, TwoAppended DEF Ending, Tells
  <2>7. Append(none, event) = h.emitted
    BY <2>6, TwoAppended
  <2> HIDE DEF none
  <2>8. /\ Replayable(mode, Append(none, event)) /\ Append(none, event) \in Seq(Events)
        /\ Replay(mode, Append(none, event)) = ApplyRecordedEvent(r, event)
    BY <1>6, <2>6, ReplayGoesOn
  <2>9. Shadow(h, Append(none, event))
    BY <2>4, <2>5, <2>6, <2>8 DEF Shadow, Verify, InProgress, Finished
  <2> QED
    BY <2>7, <2>9 DEF h, New
<1> QED
  BY <1>7, <1>8

LEMMA StepsShadow ==
  ASSUME Sound(game), Kept(game, log), Shadow(game, log), RecordNext
  PROVE  Shadow(game', log')
<1> DEFINE g == UpdateClock(game)
<1>1. /\ Next /\ log' = log \o game'.emitted /\ log \in Seq(Events) /\ game \in Games
      /\ game.status = InProgress => ~game.endRecorded
  BY DEF RecordNext, Kept, Sound, InProgress, Finished
<1>2. CASE game' = [game EXCEPT !.lag = @ + 1, !.emitted = <<>>]
  <2> DEFINE h == [game EXCEPT !.lag = @ + 1, !.emitted = <<>>]
  <2>1. /\ Alike(game, h) /\ h.active = game.active /\ h.pending = game.pending
        /\ h.remaining = game.remaining /\ h.emitted = <<>>
    BY <1>1 DEF Games, Alike, SamePosition, OffersAre
  <2> HIDE DEF h
  <2>2. Shadow(h, log)
    BY <2>1, ShadowSame
  <2>3. log' = log
    BY <1>1, <1>2, <2>1 DEF h
  <2> QED
    BY <1>2, <2>2, <2>3 DEF h
<1>3. CASE game' = g
  BY <1>1, <1>3, SettlingShadow
<1>4. CASE g.status = InProgress /\ Calls(g, game')
  <2>1. Sound(g) /\ g.emitted = <<>> /\ log \o g.emitted = log
    BY <1>1, <1>4, UpdateClockSound, SettledInProgress
  <2>2. Kept(g, log) /\ Shadow(g, log)
    BY <1>1, <2>1, SettlingKeeps, SettlingShadow
  <2> QED
    BY <1>1, <1>4, <2>1, <2>2, CallsShadow
<1> QED
  BY <1>1, <1>2, <1>3, <1>4, StepsAreCalls

\* The record is the game, however long it lasts and whatever was called:
\* replaying the log of a game in progress gives that game up to the time still
\* pending, and replaying the log of a finished one gives the state it finished
\* in, clocks and all (record.go:9-11), the ending a host declares excepted.
THEOREM TheRecordReplays == RecordSpec => []RecordReplays
<1>1. RecordInit => Shadow(game, log)
  <2> SUFFICES ASSUME NEW mode \in Modes, game = NewGame(mode, ClockStartsOnFirstMove),
                      log = game.emitted
               PROVE  Shadow(game, log)
    BY DEF RecordInit, Init
  <2> QED
    BY NewShadow, FlagAssumption
<1>2. GameInv /\ Kept(game, log) /\ Shadow(game, log) /\ [RecordNext]_recordVars
        => Shadow(game, log)'
  <2> SUFFICES ASSUME Sound(game), Kept(game, log), Shadow(game, log),
                      [RecordNext]_recordVars
               PROVE  Shadow(game', log')
    BY DEF GameInv
  <2>1. CASE RecordNext
    BY <2>1, StepsShadow
  <2>2. CASE UNCHANGED recordVars
    BY <2>2 DEF recordVars
  <2> QED
    BY <2>1, <2>2
<1>3. Shadow(game, log) => RecordReplays
  <2> SUFFICES ASSUME Shadow(game, log) PROVE RecordReplays
    OBVIOUS
  <2>1. FinishedGameVerifies
    BY DEF FinishedGameVerifies, Shadow
  <2>2. LogIsTheGame
    <3> SUFFICES ASSUME game.status = InProgress PROVE LogIsTheGame
      BY DEF LogIsTheGame
    <3> DEFINE r == Replay(game.mode, log)
    <3>1. Follows(game, r)
      BY DEF Shadow
    <3> HIDE DEF r
    <3>2. /\ r.status = InProgress /\ r.board = game.board /\ r.turn = game.turn
          /\ r.quiet = game.quiet /\ r.plies = game.plies /\ r.moves = game.moves
          /\ r.drawBy = game.drawBy /\ r.drawUsed = game.drawUsed
          /\ r.timeBy = game.timeBy /\ r.timeUsed = game.timeUsed
      BY <3>1 DEF Follows, Running, Alike, SamePosition, OffersAre
    <3>3. ASSUME NEW c \in Players
          PROVE  r.remaining[c] = game.remaining[c]
                   + [d \in Players |-> IF d = game.turn THEN game.pending ELSE 0][c]
      BY <3>1 DEF Follows, Owed
    <3> QED
      BY <3>2, <3>3 DEF LogIsTheGame, r
  <2> QED
    BY <2>1, <2>2 DEF RecordReplays
<1> QED
  BY <1>1, <1>2, <1>3, RecordIsKept, PTL DEF RecordSpec

-----------------------------------------------------------------------------
(* The symmetries.  A relabelling is a map of the squares and a map of the *)
(* colours; both of module GameSymmetry are one of these, so that they     *)
(* play the same game has one proof.                                       *)

Tints == Colors \cup {None}

Symmetry(mode, sq, col) ==
  /\ sq \in [Squares -> Squares] /\ col \in [Tints -> Tints]
  /\ \A s \in Squares : sq[sq[s]] = s
  /\ \A s, t \in Squares : Adjacent(sq[s], sq[t]) <=> Adjacent(s, t)
  /\ col[None] = None /\ col[Neutral] = Neutral
  /\ \A p \in Players : col[p] \in Players /\ col[OtherColor(p)] = OtherColor(col[p])
  /\ \A c \in Tints : col[col[c]] = c
  /\ mode = Infiltration =>
       \A p \in Players, s \in Squares : s[2] = GoalRank(p) <=> sq[s][2] = GoalRank(col[p])
  /\ mode = Intransitive =>
       \A p \in Players, s \in Squares : s = GoalCorner(p) <=> sq[s] = GoalCorner(col[p])

Turned(board, sq, col) ==
  [s \in Squares |-> [occupant |-> board[sq[s]].occupant,
                      owner |-> col[board[sq[s]].owner],
                      ground |-> col[board[sq[s]].ground]]]

Image(g, sq, col) ==
  [g EXCEPT !.board = Turned(@, sq, col), !.turn = col[@], !.winner = col[@],
            !.active = col[@], !.drawBy = col[@], !.drawUsed = col[@],
            !.timeBy = col[@], !.timeUsed = col[@],
            !.remaining = [c \in Players |-> @[col[c]]], !.emitted = <<>>]

\* On the colours: nothing is lost.
LEMMA SymmetryColors ==
  ASSUME NEW mode, NEW sq, NEW col, Symmetry(mode, sq, col)
  PROVE  /\ \A c \in Colors : c \in Tints /\ col[c] \in Colors
         /\ \A c \in Offerers : c \in Tints /\ col[c] \in Offerers
         /\ \A c, d \in Tints : col[c] = col[d] <=> c = d
         /\ \A c \in Players : c \in Tints /\ col[c] \in Players /\ col[col[c]] = c
         /\ Neutral \in Tints /\ None \in Tints
<1>1. /\ \A c \in Colors : c \in Tints /\ (c \in Players \/ c = Neutral)
      /\ \A c \in Offerers : c \in Tints /\ (c \in Players \/ c = None)
      /\ \A p \in Players : p \in Colors /\ p \in Offerers
      /\ Neutral \in Colors /\ None \in Offerers
  BY DEF Tints, Colors, Offerers
<1>2. /\ col[None] = None /\ col[Neutral] = Neutral
      /\ \A p \in Players : col[p] \in Players
      /\ \A c \in Tints : col[col[c]] = c
  BY DEF Symmetry
<1>3. \A c, d \in Tints : col[c] = col[d] <=> c = d
  BY <1>2
<1> QED
  BY <1>1, <1>2, <1>3

\* On the squares: nothing is lost either.
LEMMA SymmetrySquares ==
  ASSUME NEW mode, NEW sq, NEW col, Symmetry(mode, sq, col)
  PROVE  /\ \A s \in Squares : sq[s] \in Squares /\ sq[sq[s]] = s
         /\ \A s, t \in Squares : sq[s] = sq[t] <=> s = t
<1>1. \A s \in Squares : sq[s] \in Squares /\ sq[sq[s]] = s
  BY DEF Symmetry
<1> QED
  BY <1>1

LEMMA TurnedFields ==
  ASSUME NEW mode, NEW sq, NEW col, Symmetry(mode, sq, col),
         NEW board \in [Squares -> Tiles]
  PROVE  /\ Turned(board, sq, col) \in [Squares -> Tiles]
         /\ \A s \in Squares :
              LET tile == Turned(board, sq, col)[sq[s]]
              IN  /\ tile.occupant = board[s].occupant
                  /\ tile.owner = col[board[s].owner]
                  /\ tile.ground = col[board[s].ground]
<1>1. \A s \in Squares : sq[s] \in Squares /\ sq[sq[s]] = s
  BY SymmetrySquares
<1>2. \A s \in Squares : /\ board[s].occupant \in Pieces \cup {Empty}
                         /\ board[s].owner \in Colors /\ board[s].ground \in Colors
  <2> SUFFICES ASSUME NEW s \in Squares
               PROVE  /\ board[s].occupant \in Pieces \cup {Empty}
                      /\ board[s].owner \in Colors /\ board[s].ground \in Colors
    OBVIOUS
  <2>1. board[s] \in Tiles
    OBVIOUS
  <2> QED
    BY <2>1 DEF Tiles
<1>3. \A c \in Colors : col[c] \in Colors
  BY SymmetryColors
<1>4. \A s \in Squares : [occupant |-> board[sq[s]].occupant,
                          owner |-> col[board[sq[s]].owner],
                          ground |-> col[board[sq[s]].ground]] \in Tiles
  BY <1>1, <1>2, <1>3 DEF Tiles
<1> QED
  BY <1>1, <1>4 DEF Turned

\* What a board is made of.
LEMMA BoardIsTiles ==
  ASSUME NEW board \in [Squares -> Tiles], NEW s \in Squares
  PROVE  /\ board[s] \in Tiles
         /\ board[s].occupant \in Pieces \cup {Empty}
         /\ board[s].owner \in Colors /\ board[s].ground \in Colors
<1>1. board[s] \in Tiles
  OBVIOUS
<1> QED
  BY <1>1 DEF Tiles

\* Two boards of tiles are turns of each other when their tiles are.
TurnOf(board, image, sq, col) ==
  /\ board \in [Squares -> Tiles] /\ image \in [Squares -> Tiles]
  /\ \A s \in Squares : /\ image[sq[s]].occupant = board[s].occupant
                        /\ image[sq[s]].owner = col[board[s].owner]
                        /\ image[sq[s]].ground = col[board[s].ground]

LEMMA TurnIsTurned ==
  ASSUME NEW mode, NEW sq, NEW col, Symmetry(mode, sq, col), NEW board, NEW image,
         TurnOf(board, image, sq, col)
  PROVE  image = Turned(board, sq, col)
<1>1. image \in [Squares -> Tiles] /\ \A s \in Squares : sq[s] \in Squares /\ sq[sq[s]] = s
  BY SymmetrySquares DEF TurnOf
<1>2. ASSUME NEW s \in Squares
      PROVE  image[s] = [occupant |-> board[sq[s]].occupant,
                         owner |-> col[board[sq[s]].owner],
                         ground |-> col[board[sq[s]].ground]]
  <2>1. /\ image[s].occupant = board[sq[s]].occupant
        /\ image[s].owner = col[board[sq[s]].owner]
        /\ image[s].ground = col[board[sq[s]].ground]
    BY <1>1 DEF TurnOf
  <2>2. image[s] \in Tiles
    BY <1>1
  <2> QED
    BY <2>1, <2>2 DEF Tiles
<1> QED
  BY <1>1, <1>2 DEF Turned

\* The positions: everything the engine's verdicts are made of.
Mirrors(a, b, sq, col) ==
  /\ a \in Games /\ b \in Games
  /\ b.mode = a.mode /\ TurnOf(a.board, b.board, sq, col)
  /\ b.turn = col[a.turn] /\ b.status = a.status /\ b.winner = col[a.winner]
  /\ b.reason = a.reason /\ b.moves = a.moves /\ b.quiet = a.quiet

LEMMA MirroredMoves ==
  ASSUME NEW sq, NEW col, NEW a, NEW b, Symmetry(a.mode, sq, col), Mirrors(a, b, sq, col),
         NEW player \in Players, NEW from \in Squares, NEW to \in Squares
  PROVE  LegalMove(a, player, from, to) <=> LegalMove(b, col[player], sq[from], sq[to])
<1>1. /\ \A c, d \in Tints : col[c] = col[d] <=> c = d
      /\ \A c \in Colors : c \in Tints
      /\ player \in Colors
  BY SymmetryColors, ColorTypes
<1>2. /\ a.board[from].owner \in Colors /\ a.board[to].owner \in Colors
      /\ a.turn \in Colors
  BY BoardIsTiles, GameFields, ColorTypes DEF Mirrors, TurnOf
<1>3. /\ b.board[sq[from]].occupant = a.board[from].occupant
      /\ b.board[sq[to]].occupant = a.board[to].occupant
      /\ b.board[sq[from]].owner = col[a.board[from].owner]
      /\ b.board[sq[to]].owner = col[a.board[to].owner]
      /\ b.turn = col[a.turn] /\ b.status = a.status
  BY DEF Mirrors, TurnOf
<1>4. /\ b.board[sq[from]].owner = col[player] <=> a.board[from].owner = player
      /\ b.board[sq[to]].owner = col[player] <=> a.board[to].owner = player
      /\ col[player] = b.turn <=> player = a.turn
  BY <1>1, <1>2, <1>3
<1>5. /\ sq[from] \in Squares /\ sq[to] \in Squares
      /\ Adjacent(sq[from], sq[to]) <=> Adjacent(from, to)
  BY DEF Symmetry
<1> HIDE DEF Squares
<1> QED
  BY <1>3, <1>4, <1>5 DEF LegalMove

LEMMA MirroredHasMove ==
  ASSUME NEW sq, NEW col, NEW a, NEW b, Symmetry(a.mode, sq, col), Mirrors(a, b, sq, col)
  PROVE  HasLegalMove(a) <=> HasLegalMove(b)
<1>1. a.turn \in Players /\ b.turn = col[a.turn]
  BY GameFields DEF Mirrors
<1>2. \A s \in Squares : sq[s] \in Squares /\ sq[sq[s]] = s
  BY SymmetrySquares
<1>3. \A from, to \in Squares : LegalMove(a, a.turn, from, to)
                                 <=> LegalMove(b, b.turn, sq[from], sq[to])
  BY <1>1, MirroredMoves
<1>4. /\ HasLegalMove(a) <=> \E from, to \in Squares : LegalMove(a, a.turn, from, to)
      /\ HasLegalMove(b) <=> \E from, to \in Squares : LegalMove(b, b.turn, from, to)
  <2>1. ASSUME NEW g
        PROVE  HasLegalMove(g) <=> \E from, to \in Squares : LegalMove(g, g.turn, from, to)
    <3>1. ASSUME NEW from \in Squares, NEW to \in Squares, LegalMove(g, g.turn, from, to)
          PROVE  HasLegalMove(g)
      <4>1. <<from, to>> \in LegalMoves(g)
        BY <3>1 DEF LegalMoves
      <4> QED
        BY <4>1 DEF HasLegalMove
    <3>2. ASSUME HasLegalMove(g)
          PROVE  \E from, to \in Squares : LegalMove(g, g.turn, from, to)
      <4>1. PICK m \in Squares \X Squares : LegalMove(g, g.turn, m[1], m[2])
        BY <3>2 DEF HasLegalMove, LegalMoves
      <4>2. m[1] \in Squares /\ m[2] \in Squares
        BY <4>1
      <4> QED
        BY <4>1, <4>2
    <3> QED
      BY <3>1, <3>2
  <2> QED
    BY <2>1
<1>5. ASSUME NEW from \in Squares, NEW to \in Squares, LegalMove(b, b.turn, from, to)
      PROVE  \E s, t \in Squares : LegalMove(a, a.turn, s, t)
  <2>1. sq[from] \in Squares /\ sq[to] \in Squares /\ sq[sq[from]] = from /\ sq[sq[to]] = to
    BY <1>2
  <2>2. LegalMove(a, a.turn, sq[from], sq[to])
    BY <1>3, <1>5, <2>1
  <2> QED
    BY <2>1, <2>2
<1> QED
  BY <1>2, <1>3, <1>4, <1>5

LEMMA PieceMoved ==
  ASSUME NEW board \in [Squares -> Tiles], NEW player \in Players,
         NEW from \in Squares, NEW to \in Squares, from # to
  PROVE  LET h == MovePiece(board, player, from, to)
         IN  /\ h \in [Squares -> Tiles]
             /\ h[from].occupant = Empty /\ h[from].owner = Neutral
             /\ h[to].occupant = board[from].occupant /\ h[to].owner = player
             /\ \A s \in Squares : h[s].ground = board[s].ground
             /\ \A s \in Squares : s \notin {from, to} => h[s] = board[s]
<1> DEFINE h == MovePiece(board, player, from, to)
           landed == [board[to] EXCEPT !.occupant = board[from].occupant, !.owner = player]
           left == [board[from] EXCEPT !.occupant = Empty, !.owner = Neutral]
           after == [board EXCEPT ![to] = landed, ![from] = left]
<1>1. /\ landed \in Tiles /\ left \in Tiles
      /\ landed.occupant = board[from].occupant /\ landed.owner = player
      /\ landed.ground = board[to].ground
      /\ left.occupant = Empty /\ left.owner = Neutral /\ left.ground = board[from].ground
  BY BoardIsTiles, ColorTypes DEF Tiles
<1>2. h = after
  BY DEF MovePiece
<1> HIDE DEF h, landed, left
<1>3. after \in [Squares -> Tiles]
  BY <1>1
<1>4. /\ after[to] = landed /\ after[from] = left
      /\ \A s \in Squares : s \notin {from, to} => after[s] = board[s]
  OBVIOUS
<1> HIDE DEF after
<1>5. \A s \in Squares : after[s].ground = board[s].ground
  BY <1>1, <1>4
<1> QED
  BY <1>1, <1>2, <1>3, <1>4, <1>5 DEF h

LEMMA MirroredPiece ==
  ASSUME NEW mode, NEW sq, NEW col, Symmetry(mode, sq, col),
         NEW board, NEW image, TurnOf(board, image, sq, col),
         NEW player \in Players, NEW from \in Squares, NEW to \in Squares, from # to
  PROVE  TurnOf(MovePiece(board, player, from, to),
                MovePiece(image, col[player], sq[from], sq[to]), sq, col)
<1> DEFINE a == MovePiece(board, player, from, to)
           b == MovePiece(image, col[player], sq[from], sq[to])
<1>1. /\ \A s \in Squares : sq[s] \in Squares
      /\ \A s, t \in Squares : sq[s] = sq[t] <=> s = t
      /\ col[player] \in Players /\ col[Neutral] = Neutral
      /\ board \in [Squares -> Tiles] /\ image \in [Squares -> Tiles]
      /\ \A s \in Squares : /\ image[sq[s]].occupant = board[s].occupant
                            /\ image[sq[s]].owner = col[board[s].owner]
                            /\ image[sq[s]].ground = col[board[s].ground]
  BY SymmetrySquares DEF TurnOf, Symmetry
<1>2. /\ a \in [Squares -> Tiles]
      /\ a[from].occupant = Empty /\ a[from].owner = Neutral
      /\ a[to].occupant = board[from].occupant /\ a[to].owner = player
      /\ \A s \in Squares : a[s].ground = board[s].ground
      /\ \A s \in Squares : s \notin {from, to} => a[s] = board[s]
  BY <1>1, PieceMoved
<1>3. sq[from] \in Squares /\ sq[to] \in Squares /\ sq[from] # sq[to]
  BY <1>1
<1>4. /\ b \in [Squares -> Tiles]
      /\ b[sq[from]].occupant = Empty /\ b[sq[from]].owner = Neutral
      /\ b[sq[to]].occupant = image[sq[from]].occupant /\ b[sq[to]].owner = col[player]
      /\ \A s \in Squares : b[s].ground = image[s].ground
      /\ \A s \in Squares : s \notin {sq[from], sq[to]} => b[s] = image[s]
  BY <1>1, <1>3, PieceMoved
<1> HIDE DEF a, b, Squares
<1>5. ASSUME NEW s \in Squares
      PROVE  /\ b[sq[s]].occupant = a[s].occupant /\ b[sq[s]].owner = col[a[s].owner]
             /\ b[sq[s]].ground = col[a[s].ground]
  <2>1. b[sq[s]].ground = col[a[s].ground]
    BY <1>1, <1>2, <1>4
  <2>2. CASE s = from
    BY <1>1, <1>2, <1>4, <2>1, <2>2
  <2>3. CASE s = to
    BY <1>1, <1>2, <1>4, <2>1, <2>3
  <2>4. CASE s \notin {from, to}
    <3>1. sq[s] \notin {sq[from], sq[to]}
      BY <1>1, <2>4
    <3>2. a[s] = board[s] /\ b[sq[s]] = image[sq[s]]
      BY <1>1, <1>2, <1>4, <2>4, <3>1
    <3> QED
      BY <1>1, <2>1, <3>2
  <2> QED
    BY <2>2, <2>3, <2>4
<1> QED
  BY <1>2, <1>4, <1>5 DEF TurnOf, a, b

LEMMA MirroredClaim ==
  ASSUME NEW mode, NEW sq, NEW col, Symmetry(mode, sq, col),
         NEW board, NEW image, TurnOf(board, image, sq, col),
         NEW player \in Players, NEW to \in Squares
  PROVE  TurnOf(Claimed(mode, board, player, to),
                Claimed(mode, image, col[player], sq[to]), sq, col)
<1> DEFINE a == [board EXCEPT ![to].ground = player]
           b == [image EXCEPT ![sq[to]].ground = col[player]]
<1>1. /\ \A s \in Squares : sq[s] \in Squares
      /\ \A s, t \in Squares : sq[s] = sq[t] <=> s = t
      /\ col[player] \in Players /\ col[Neutral] = Neutral
      /\ board \in [Squares -> Tiles] /\ image \in [Squares -> Tiles]
      /\ \A s \in Squares : /\ image[sq[s]].occupant = board[s].occupant
                            /\ image[sq[s]].owner = col[board[s].owner]
                            /\ image[sq[s]].ground = col[board[s].ground]
  BY SymmetrySquares DEF TurnOf, Symmetry
<1>0. /\ \A c, d \in Tints : col[c] = col[d] <=> c = d
      /\ \A c \in Colors : c \in Tints
      /\ Players \subseteq Colors /\ Neutral \in Colors
  BY SymmetryColors, ColorTypes
<1>2. image[sq[to]].ground = Neutral <=> board[to].ground = Neutral
  <2>1. board[to].ground \in Tints /\ Neutral \in Tints
    BY <1>0, <1>1, BoardIsTiles
  <2> QED
    BY <1>0, <1>1, <2>1
<1>3. TurnOf(a, b, sq, col)
  <2> DEFINE landA == [board[to] EXCEPT !.ground = player]
             landB == [image[sq[to]] EXCEPT !.ground = col[player]]
  <2>1. /\ landA \in Tiles /\ landA.occupant = board[to].occupant
        /\ landA.owner = board[to].owner /\ landA.ground = player
    BY <1>0, <1>1, BoardIsTiles DEF Tiles
  <2>2. /\ landB \in Tiles /\ landB.occupant = image[sq[to]].occupant
        /\ landB.owner = image[sq[to]].owner /\ landB.ground = col[player]
    BY <1>0, <1>1, BoardIsTiles DEF Tiles
  <2>3. a = [board EXCEPT ![to] = landA] /\ b = [image EXCEPT ![sq[to]] = landB]
    OBVIOUS
  <2> HIDE DEF landA, landB, a, b, Squares
  <2>4. /\ a \in [Squares -> Tiles] /\ a[to] = landA
        /\ \A s \in Squares : s # to => a[s] = board[s]
    BY <1>1, <2>1, <2>3
  <2>5. /\ b \in [Squares -> Tiles] /\ b[sq[to]] = landB
        /\ \A s \in Squares : s # sq[to] => b[s] = image[s]
    BY <1>1, <2>2, <2>3
  <2>6. ASSUME NEW s \in Squares
        PROVE  /\ b[sq[s]].occupant = a[s].occupant /\ b[sq[s]].owner = col[a[s].owner]
               /\ b[sq[s]].ground = col[a[s].ground]
    <3>1. CASE s = to
      BY <1>1, <2>1, <2>2, <2>4, <2>5, <3>1
    <3>2. CASE s # to
      <4>1. a[s] = board[s] /\ b[sq[s]] = image[sq[s]]
        BY <1>1, <2>4, <2>5, <3>2
      <4> QED
        BY <1>1, <4>1
    <3> QED
      BY <3>1, <3>2
  <2> QED
    BY <2>4, <2>5, <2>6 DEF TurnOf
<1> QED
  BY <1>2, <1>3 DEF Claimed

\* A colour has as many pieces and as much ground as it is turned into.
LEMMA AsManySquares ==
  ASSUME NEW mode, NEW sq, NEW col, Symmetry(mode, sq, col),
         NEW S \in SUBSET Squares, NEW T \in SUBSET Squares,
         \A s \in Squares : s \in S <=> sq[s] \in T
  PROVE  Cardinality(S) = Cardinality(T) /\ Cardinality(S) \in Nat
<1> DEFINE f == [s \in S |-> sq[s]]
<1>1. /\ \A s \in Squares : sq[s] \in Squares /\ sq[sq[s]] = s
      /\ \A s, t \in Squares : sq[s] = sq[t] <=> s = t
  BY SymmetrySquares
<1>2. IsFiniteSet(Squares)
  <2>1. Width - 1 \in Int /\ Height - 1 \in Int /\ 0 \in Int
    BY BoardAssumption
  <2> QED
    BY <2>1, FS_Interval, FS_Product DEF Squares
<1>3. IsFiniteSet(S)
  BY <1>2, FS_Subset
<1> HIDE DEF Squares
<1>4. f \in [S -> T] /\ \A s, t \in S : f[s] = f[t] => s = t
  BY <1>1
<1>5. \A t \in T : \E s \in S : f[s] = t
  <2> SUFFICES ASSUME NEW t \in T PROVE sq[t] \in S /\ f[sq[t]] = t
    OBVIOUS
  <2>1. t \in Squares /\ sq[t] \in Squares /\ sq[sq[t]] = t
    BY <1>1
  <2> QED
    BY <2>1
<1>6. f \in Bijection(S, T)
  BY <1>4, <1>5 DEF Bijection, Injection, Surjection, IsInjective
<1>7. ExistsBijection(S, T)
  BY <1>6 DEF ExistsBijection
<1> QED
  BY <1>3, <1>7, FS_Bijection, FS_CardinalityType

LEMMA MirroredCounts ==
  ASSUME NEW mode, NEW sq, NEW col, Symmetry(mode, sq, col),
         NEW board, NEW image, TurnOf(board, image, sq, col), NEW c \in Colors
  PROVE  /\ CountPieces(image, col[c]) = CountPieces(board, c)
         /\ CountGround(image, col[c]) = CountGround(board, c)
         /\ CountGround(board, c) \in Nat
<1>1. /\ \A s \in Squares : /\ image[sq[s]].owner = col[board[s].owner]
                            /\ image[sq[s]].ground = col[board[s].ground]
                            /\ board[s].owner \in Tints /\ board[s].ground \in Tints
                            /\ sq[s] \in Squares
      /\ c \in Tints /\ \A d, e \in Tints : col[d] = col[e] <=> d = e
  BY SymmetryColors, SymmetrySquares, BoardIsTiles DEF TurnOf
<1> DEFINE P(b, d) == {s \in Squares : b[s].owner = d}
           G(b, d) == {s \in Squares : b[s].ground = d}
<1> HIDE DEF Squares
<1>2. \A s \in Squares : /\ s \in P(board, c) <=> sq[s] \in P(image, col[c])
                         /\ s \in G(board, c) <=> sq[s] \in G(image, col[c])
  BY <1>1
<1>3. /\ P(board, c) \in SUBSET Squares /\ P(image, col[c]) \in SUBSET Squares
      /\ G(board, c) \in SUBSET Squares /\ G(image, col[c]) \in SUBSET Squares
  OBVIOUS
<1> HIDE DEF P, G
<1>4. /\ Cardinality(P(board, c)) = Cardinality(P(image, col[c]))
      /\ Cardinality(G(board, c)) = Cardinality(G(image, col[c]))
      /\ Cardinality(G(board, c)) \in Nat
  BY <1>2, <1>3, AsManySquares
<1> QED
  BY <1>4 DEF P, G, CountPieces, CountGround

LEMMA MirroredTerritory ==
  ASSUME NEW mode, NEW sq, NEW col, Symmetry(mode, sq, col),
         NEW board, NEW image, TurnOf(board, image, sq, col)
  PROVE  TerritoryWinner(image) = col[TerritoryWinner(board)]
<1>1. /\ Red \in Players /\ Blue \in Players /\ Red # Blue
      /\ \A c \in Players : c = Red \/ c = Blue
      /\ OtherColor(Red) = Blue /\ OtherColor(Blue) = Red
      /\ Players \subseteq Colors
  BY DEF Players, Red, Blue, OtherColor, Colors
<1>2. /\ col[Neutral] = Neutral
      /\ \A p \in Players : col[p] \in Players /\ col[OtherColor(p)] = OtherColor(col[p])
  BY DEF Symmetry
<1>3. \A c \in Colors : /\ CountGround(image, col[c]) = CountGround(board, c)
                        /\ CountGround(board, c) \in Nat
  BY MirroredCounts
<1>4. CASE col[Red] = Red
  <2>1. col[Blue] = Blue
    BY <1>1, <1>2, <1>4
  <2>2. /\ CountGround(image, Red) = CountGround(board, Red)
        /\ CountGround(image, Blue) = CountGround(board, Blue)
    BY <1>1, <1>3, <1>4, <2>1
  <2> QED
    BY <1>2, <1>4, <2>1, <2>2 DEF TerritoryWinner
<1>5. CASE col[Red] = Blue
  <2>1. col[Blue] = Red
    BY <1>1, <1>2, <1>5
  <2>2. /\ CountGround(image, Red) = CountGround(board, Blue)
        /\ CountGround(image, Blue) = CountGround(board, Red)
        /\ CountGround(board, Red) \in Nat /\ CountGround(board, Blue) \in Nat
    BY <1>1, <1>3, <1>5, <2>1
  <2> QED
    BY <1>2, <1>5, <2>1, <2>2 DEF TerritoryWinner
<1> QED
  BY <1>1, <1>2, <1>4, <1>5

LEMMA MirroredVerdict ==
  ASSUME NEW mode, NEW sq, NEW col, Symmetry(mode, sq, col),
         NEW board, NEW image, TurnOf(board, image, sq, col),
         NEW player \in Players, NEW to \in Squares
  PROVE  LET a == Verdict(mode, board, player, to)
             b == Verdict(mode, image, col[player], sq[to])
         IN  /\ a = NotOver <=> b = NotOver
             /\ b.winner = col[a.winner] /\ b.reason = a.reason
<1> DEFINE other == OtherColor(player)
<1>1. /\ col[player] \in Players /\ col[other] = OtherColor(col[player])
      /\ col[Neutral] = Neutral
      /\ other \in Colors /\ Neutral \in Colors
      /\ mode = Infiltration => (to[2] = GoalRank(player) <=> sq[to][2] = GoalRank(col[player]))
      /\ mode = Intransitive => (to = GoalCorner(player) <=> sq[to] = GoalCorner(col[player]))
  BY ColorTypes DEF Symmetry
<1>2. /\ CountPieces(image, OtherColor(col[player])) = CountPieces(board, other)
      /\ CountGround(image, Neutral) = CountGround(board, Neutral)
  <2>1. CountPieces(image, col[other]) = CountPieces(board, other)
    BY <1>1, MirroredCounts
  <2>2. CountGround(image, col[Neutral]) = CountGround(board, Neutral)
    BY <1>1, MirroredCounts
  <2> QED
    BY <1>1, <2>1, <2>2
<1>3. TerritoryWinner(image) = col[TerritoryWinner(board)]
  BY MirroredTerritory
<1> HIDE DEF other
<1> DEFINE rank == mode = Infiltration /\ to[2] = GoalRank(player)
           corner == mode = Intransitive /\ to = GoalCorner(player)
           wiped == mode = TotalWar /\ CountPieces(board, OtherColor(player)) = 0
           full == mode = TotalWar /\ CountPieces(board, OtherColor(player)) # 0
                                   /\ CountGround(board, Neutral) = 0
           Says(a, p, t) ==
             /\ rank => a = [winner |-> p, reason |-> "infiltration"]
             /\ corner => a = [winner |-> p, reason |-> "corner"]
             /\ wiped => a = [winner |-> p, reason |-> "annihilation"]
             /\ full => a = [winner |-> t, reason |-> "territory"]
             /\ ~rank /\ ~corner /\ ~wiped /\ ~full => a = NotOver
<1>4. Infiltration # Intransitive /\ Infiltration # TotalWar /\ Intransitive # TotalWar
  BY DEF Infiltration, Intransitive, TotalWar
<1>5. Says(Verdict(mode, board, player, to), player, TerritoryWinner(board))
  BY <1>4 DEF Verdict
<1>6. /\ rank <=> mode = Infiltration /\ sq[to][2] = GoalRank(col[player])
      /\ corner <=> mode = Intransitive /\ sq[to] = GoalCorner(col[player])
      /\ wiped <=> mode = TotalWar /\ CountPieces(image, OtherColor(col[player])) = 0
      /\ full <=> mode = TotalWar /\ CountPieces(image, OtherColor(col[player])) # 0
                                  /\ CountGround(image, Neutral) = 0
  BY <1>1, <1>2 DEF other
<1>7. Says(Verdict(mode, image, col[player], sq[to]), col[player], TerritoryWinner(image))
  <2> HIDE DEF rank, corner, wiped, full
  <2> QED
    BY <1>4, <1>6 DEF Verdict
<1> HIDE DEF rank, corner, wiped, full
<1> DEFINE a == Verdict(mode, board, player, to)
           b == Verdict(mode, image, col[player], sq[to])
           Agree == (a = NotOver <=> b = NotOver) /\ b.winner = col[a.winner]
                      /\ b.reason = a.reason
<1>8. /\ Says(a, player, TerritoryWinner(board))
      /\ Says(b, col[player], TerritoryWinner(image))
  BY <1>5, <1>7
<1> HIDE DEF a, b
<1>9. ASSUME NEW reason \in EndReasons, NEW p, a = [winner |-> p, reason |-> reason],
             b = [winner |-> col[p], reason |-> reason]
      PROVE  Agree
  <2>1. reason # NotOver.reason
    BY DEF EndReasons, NotOver, NoReason
  <2>2. a.reason = reason /\ b.reason = reason /\ a.winner = p /\ b.winner = col[p]
    BY <1>9
  <2> QED
    BY <2>1, <2>2
<1>10. {"infiltration", "corner", "annihilation", "territory"} \subseteq EndReasons
  BY DEF EndReasons
<1>11. ASSUME rank \/ corner \/ wiped \/ full PROVE Agree
  <2> HIDE DEF Agree
  <2> QED
    BY <1>3, <1>8, <1>9, <1>10, <1>11
<1>12. ASSUME ~rank /\ ~corner /\ ~wiped /\ ~full PROVE Agree
  BY <1>1, <1>8, <1>12 DEF NotOver
<1> QED
  <2>1. Agree
    BY <1>11, <1>12
  <2> QED
    BY <2>1 DEF a, b

LEMMA MirroredModeMove ==
  ASSUME NEW sq, NEW col, NEW a, NEW b, Symmetry(a.mode, sq, col), Mirrors(a, b, sq, col),
         NEW player \in Players, NEW from \in Squares, NEW to \in Squares, from # to
  PROVE  Mirrors(ModeMove(a, player, from, to),
                 ModeMove(b, col[player], sq[from], sq[to]), sq, col)
<1> DEFINE boardA == Claimed(a.mode, MovePiece(a.board, player, from, to), player, to)
           boardB == Claimed(a.mode, MovePiece(b.board, col[player], sq[from], sq[to]),
                             col[player], sq[to])
           verdictA == Verdict(a.mode, boardA, player, to)
           verdictB == Verdict(a.mode, boardB, col[player], sq[to])
           Moved(g, board) == [g EXCEPT !.board = board, !.moves = @ + 1]
           After(g, board, p, verdict) ==
             IF verdict = NotOver
             THEN [Moved(g, board) EXCEPT !.turn = OtherColor(p)]
             ELSE [Moved(g, board) EXCEPT !.status = Finished, !.winner = verdict.winner,
                                          !.reason = verdict.reason]
<1>1. /\ a \in Games /\ b \in Games /\ b.mode = a.mode
      /\ TurnOf(a.board, b.board, sq, col)
      /\ sq[from] \in Squares /\ sq[to] \in Squares
      /\ col[player] \in Players /\ col[OtherColor(player)] = OtherColor(col[player])
  BY SymmetrySquares DEF Mirrors, Symmetry
<1>2. /\ ModeMove(a, player, from, to) = After(a, boardA, player, verdictA)
      /\ ModeMove(b, col[player], sq[from], sq[to])
           = After(b, boardB, col[player], verdictB)
  BY <1>1 DEF ModeMove
<1>3. TurnOf(boardA, boardB, sq, col)
  <2>1. TurnOf(MovePiece(a.board, player, from, to),
               MovePiece(b.board, col[player], sq[from], sq[to]), sq, col)
    BY <1>1, MirroredPiece
  <2> QED
    BY <2>1, MirroredClaim
<1>4. /\ verdictA = NotOver <=> verdictB = NotOver
      /\ verdictB.winner = col[verdictA.winner] /\ verdictB.reason = verdictA.reason
  <2> HIDE DEF boardA, boardB
  <2> QED
    BY <1>3, MirroredVerdict
<1>5. /\ ModeMove(a, player, from, to) \in Games
      /\ ModeMove(b, col[player], sq[from], sq[to]) \in Games
  BY <1>1, ModeMoveType
<1> HIDE DEF boardA, boardB, verdictA, verdictB
<1> DEFINE h == After(a, boardA, player, verdictA)
           k == After(b, boardB, col[player], verdictB)
<1>6. /\ h.mode = a.mode /\ k.mode = b.mode /\ h.quiet = a.quiet /\ k.quiet = b.quiet
      /\ h.board = boardA /\ k.board = boardB
      /\ h.moves = a.moves + 1 /\ k.moves = b.moves + 1
  BY <1>1 DEF Games
<1>7. CASE verdictA = NotOver
  <2>1. /\ h.turn = OtherColor(player) /\ k.turn = OtherColor(col[player])
        /\ h.status = a.status /\ k.status = b.status
        /\ h.winner = a.winner /\ k.winner = b.winner
        /\ h.reason = a.reason /\ k.reason = b.reason
    BY <1>1, <1>4, <1>7 DEF Games
  <2> HIDE DEF h, k
  <2>2. Mirrors(h, k, sq, col)
    BY <1>1, <1>2, <1>3, <1>5, <1>6, <2>1 DEF Mirrors, h, k
  <2> QED
    BY <1>2, <2>2 DEF h, k
<1>8. CASE verdictA # NotOver
  <2>1. /\ h.turn = a.turn /\ k.turn = b.turn
        /\ h.status = Finished /\ k.status = Finished
        /\ h.winner = verdictA.winner /\ k.winner = verdictB.winner
        /\ h.reason = verdictA.reason /\ k.reason = verdictB.reason
    BY <1>1, <1>4, <1>8 DEF Games
  <2> HIDE DEF h, k
  <2>2. Mirrors(h, k, sq, col)
    BY <1>1, <1>2, <1>3, <1>4, <1>5, <1>6, <2>1 DEF Mirrors, h, k
  <2> QED
    BY <1>2, <2>2 DEF h, k
<1> QED
  BY <1>7, <1>8

LEMMA MirroredFinish ==
  ASSUME NEW sq, NEW col, NEW a, NEW b, Symmetry(a.mode, sq, col), Mirrors(a, b, sq, col),
         NEW winner \in Colors, NEW reason \in EndReasons
  PROVE  Mirrors(FinishGame(a, winner, reason), FinishGame(b, col[winner], reason), sq, col)
<1> DEFINE Over(g, w) == FinishGame(g, w, reason)
           Unmoved(g, w) == /\ Over(g, w) \in Games
                            /\ Over(g, w).mode = g.mode /\ Over(g, w).board = g.board
                            /\ Over(g, w).turn = g.turn /\ Over(g, w).moves = g.moves
                            /\ Over(g, w).quiet = g.quiet /\ Over(g, w).status = Finished
                            /\ Over(g, w).winner = w /\ Over(g, w).reason = reason
<1>1. Unmoved(a, winner) /\ Unmoved(b, col[winner])
  <2>1. a \in Games /\ b \in Games /\ col[winner] \in Colors
    BY SymmetryColors DEF Mirrors
  <2> QED
    BY <2>1, FinishedFields
<1> HIDE DEF Over
<1> QED
  BY <1>1 DEF Mirrors, Over

LEMMA MirroredStalemate ==
  ASSUME NEW sq, NEW col, NEW a, NEW b, Symmetry(a.mode, sq, col), Mirrors(a, b, sq, col)
  PROVE  Mirrors(AdjudicateStalemate(a), AdjudicateStalemate(b), sq, col)
<1>1. HasLegalMove(a) <=> HasLegalMove(b)
  BY MirroredHasMove
<1>2. a \in Games /\ a.mode = b.mode /\ b.turn = col[a.turn] /\ a.status = b.status
  BY DEF Mirrors
<1> DEFINE winner == StalemateWinner(a.mode, a.turn)
<1>3. winner \in Colors /\ "stalemate" \in EndReasons
  BY <1>2, GameFields, ColorTypes DEF StalemateWinner, EndReasons
<1>4. StalemateWinner(b.mode, b.turn) = col[winner]
  <2>1. a.turn \in Players
    BY <1>2, GameFields
  <2> QED
    BY <1>2, <2>1 DEF StalemateWinner, Symmetry
<1>5. Mirrors(FinishGame(a, winner, "stalemate"),
              FinishGame(b, col[winner], "stalemate"), sq, col)
  BY <1>3, MirroredFinish
<1>6. CASE a.status = InProgress /\ ~HasLegalMove(a)
  BY <1>1, <1>2, <1>4, <1>5, <1>6 DEF AdjudicateStalemate
<1>7. CASE ~(a.status = InProgress /\ ~HasLegalMove(a))
  <2>1. AdjudicateStalemate(a) = a /\ AdjudicateStalemate(b) = b
    BY <1>1, <1>2, <1>7 DEF AdjudicateStalemate
  <2> QED
    BY <2>1
<1> QED
  BY <1>6, <1>7

LEMMA MirroredQuietPly ==
  ASSUME NEW sq, NEW col, NEW a, NEW b, Symmetry(a.mode, sq, col), Mirrors(a, b, sq, col),
         NEW captured \in BOOLEAN
  PROVE  Mirrors(CountQuietPly(a, captured), CountQuietPly(b, captured), sq, col)
<1> DEFINE Counts(g, n) == [g EXCEPT !.quiet = n]
<1>1. a \in Games /\ b \in Games /\ a.quiet \in Nat /\ b.quiet = a.quiet
  BY GameFields DEF Mirrors
<1>2. ASSUME NEW n \in Nat
      PROVE  Mirrors(Counts(a, n), Counts(b, n), sq, col) /\ Counts(a, n).mode = a.mode
             /\ Counts(a, n).quiet = n /\ Counts(b, n).quiet = n
             /\ Counts(a, n).status = a.status
  <2>1. ASSUME NEW g \in Games
        PROVE  /\ Counts(g, n) \in Games /\ Counts(g, n).mode = g.mode
               /\ Counts(g, n).board = g.board /\ Counts(g, n).turn = g.turn
               /\ Counts(g, n).status = g.status /\ Counts(g, n).winner = g.winner
               /\ Counts(g, n).reason = g.reason /\ Counts(g, n).moves = g.moves
               /\ Counts(g, n).quiet = n
    BY <1>2 DEF Games
  <2> HIDE DEF Counts
  <2> QED
    BY <1>1, <2>1 DEF Mirrors
<1>3. ASSUME NEW g \in Games
      PROVE  CountQuietPly(g, captured) =
               IF captured THEN Counts(g, 0)
               ELSE IF g.status = InProgress /\ TooQuiet(Counts(g, g.quiet + 1).quiet)
                    THEN FinishGame(Counts(g, g.quiet + 1), Neutral, "no_capture")
                    ELSE Counts(g, g.quiet + 1)
  BY <1>3 DEF CountQuietPly, Counts
<1> HIDE DEF Counts
<1>4. 0 \in Nat /\ a.quiet + 1 \in Nat
  BY <1>1
<1>5. /\ Mirrors(Counts(a, 0), Counts(b, 0), sq, col)
      /\ Mirrors(Counts(a, a.quiet + 1), Counts(b, a.quiet + 1), sq, col)
      /\ Counts(a, a.quiet + 1).mode = a.mode
      /\ Counts(a, a.quiet + 1).quiet = Counts(b, a.quiet + 1).quiet
  BY <1>2, <1>4
<1>6. Mirrors(FinishGame(Counts(a, a.quiet + 1), Neutral, "no_capture"),
              FinishGame(Counts(b, a.quiet + 1), Neutral, "no_capture"), sq, col)
  <2>1. Neutral \in Colors /\ "no_capture" \in EndReasons /\ col[Neutral] = Neutral
    BY ColorTypes DEF EndReasons, Symmetry
  <2> QED
    BY <1>5, <2>1, MirroredFinish
<1>7. a.status = b.status
  BY DEF Mirrors
<1>8. CASE captured
  BY <1>1, <1>3, <1>5, <1>8
<1>9. CASE ~captured
  BY <1>1, <1>3, <1>5, <1>6, <1>7, <1>9
<1> QED
  BY <1>8, <1>9

LEMMA MirroredPlayed ==
  ASSUME NEW sq, NEW col, NEW a, NEW b, Symmetry(a.mode, sq, col), Mirrors(a, b, sq, col),
         a.status = InProgress,
         NEW player \in Players, NEW from \in Squares, NEW to \in Squares, from # to
  PROVE  Mirrors(Played(a, player, from, to),
                 Played(b, col[player], sq[from], sq[to]), sq, col)
<1> DEFINE movedA == ModeMove(a, player, from, to)
           movedB == ModeMove(b, col[player], sq[from], sq[to])
           captured == a.board[to].occupant # Empty
<1>1. /\ a \in Games /\ b.status = InProgress
      /\ b.board[sq[to]].occupant = a.board[to].occupant
  BY DEF Mirrors, TurnOf
<1>2. Mirrors(movedA, movedB, sq, col) /\ movedA.mode = a.mode
  BY <1>1, MirroredModeMove, ModeMoveFields
<1> HIDE DEF movedA, movedB
<1>3. /\ Mirrors(AdjudicateStalemate(movedA), AdjudicateStalemate(movedB), sq, col)
      /\ AdjudicateStalemate(movedA).mode = a.mode
  <2>1. Mirrors(AdjudicateStalemate(movedA), AdjudicateStalemate(movedB), sq, col)
    BY <1>2, MirroredStalemate
  <2>2. movedA \in Games
    BY <1>2 DEF Mirrors
  <2>3. AdjudicateStalemate(movedA).mode = movedA.mode
    <3>1. StalemateWinner(movedA.mode, movedA.turn) \in Colors /\ "stalemate" \in EndReasons
      BY <2>2, GameFields, ColorTypes DEF StalemateWinner, EndReasons
    <3> QED
      BY <2>2, <3>1, FinishedFields DEF AdjudicateStalemate
  <2> QED
    BY <1>2, <2>1, <2>3
<1>4. Mirrors(CountQuietPly(AdjudicateStalemate(movedA), captured),
              CountQuietPly(AdjudicateStalemate(movedB), captured), sq, col)
  BY <1>3, MirroredQuietPly
<1>5. /\ Played(a, player, from, to) = CountQuietPly(AdjudicateStalemate(movedA), captured)
      /\ Played(b, col[player], sq[from], sq[to])
           = CountQuietPly(AdjudicateStalemate(movedB), captured)
  BY <1>1 DEF Played, movedA, movedB
<1> QED
  BY <1>4, <1>5

\* The clocks, each under the colour it is turned into.
Clocks(left, col) == [c \in Players |-> left[col[c]]]

\* The whole game: the offers, the clocks and the books as well.
Reflects(a, b, sq, col) ==
  /\ Mirrors(a, b, sq, col)
  /\ OffersAre(b, col[a.drawBy], col[a.drawUsed], col[a.timeBy], col[a.timeUsed])
  /\ b.active = col[a.active] /\ b.remaining = Clocks(a.remaining, col)
  /\ b.clockPending = a.clockPending /\ b.plies = a.plies /\ b.pending = a.pending
  /\ b.endRecorded = a.endRecorded /\ b.lag = a.lag

LEMMA ImageFields ==
  ASSUME NEW g \in Games, NEW sq, NEW col, Symmetry(g.mode, sq, col)
  PROVE  LET h == Image(g, sq, col)
         IN  /\ Reflects(g, h, sq, col) /\ h.emitted = <<>>
<1> DEFINE board == Turned(g.board, sq, col)
           left == [c \in Players |-> g.remaining[col[c]]]
           none == <<>>
           h == [g EXCEPT !.board = board, !.turn = col[g.turn], !.winner = col[g.winner],
                          !.active = col[g.active], !.drawBy = col[g.drawBy],
                          !.drawUsed = col[g.drawUsed], !.timeBy = col[g.timeBy],
                          !.timeUsed = col[g.timeUsed], !.remaining = left,
                          !.emitted = none]
<1>1. Image(g, sq, col) = h
  BY DEF Image
<1>2. /\ board \in [Squares -> Tiles] /\ left \in [Players -> Nat] /\ none \in Seq(Events)
      /\ col[g.turn] \in Players /\ col[g.winner] \in Colors /\ col[g.active] \in Colors
      /\ col[g.drawBy] \in Offerers /\ col[g.drawUsed] \in Offerers
      /\ col[g.timeBy] \in Offerers /\ col[g.timeUsed] \in Offerers
  <2>1. /\ g.board \in [Squares -> Tiles] /\ g.turn \in Players /\ g.remaining \in [Players -> Nat]
        /\ g.winner \in Colors /\ g.active \in Colors
        /\ g.drawBy \in Offerers /\ g.drawUsed \in Offerers
        /\ g.timeBy \in Offerers /\ g.timeUsed \in Offerers
    BY DEF Games
  <2>2. board \in [Squares -> Tiles]
    BY <2>1, TurnedFields
  <2>3. /\ \A c \in Colors : col[c] \in Colors
        /\ \A c \in Offerers : col[c] \in Offerers
        /\ \A c \in Players : col[c] \in Players
    BY SymmetryColors
  <2>4. left \in [Players -> Nat]
    BY <2>1, <2>3
  <2> QED
    BY <2>1, <2>2, <2>3, <2>4
<1>3. TurnOf(g.board, board, sq, col)
  <2>1. g.board \in [Squares -> Tiles]
    BY DEF Games
  <2> QED
    BY <2>1, TurnedFields DEF TurnOf
<1> HIDE DEF board, left, none
<1>4. h \in Games
  BY <1>2 DEF Games
<1>5. /\ h.mode = g.mode /\ h.board = board /\ h.turn = col[g.turn] /\ h.status = g.status
      /\ h.winner = col[g.winner] /\ h.reason = g.reason /\ h.moves = g.moves
      /\ h.quiet = g.quiet
      /\ h.drawBy = col[g.drawBy] /\ h.drawUsed = col[g.drawUsed]
      /\ h.timeBy = col[g.timeBy] /\ h.timeUsed = col[g.timeUsed]
      /\ h.active = col[g.active] /\ h.remaining = left
      /\ h.clockPending = g.clockPending /\ h.plies = g.plies /\ h.pending = g.pending
      /\ h.endRecorded = g.endRecorded /\ h.lag = g.lag /\ h.emitted = none
  BY DEF Games
<1> HIDE DEF h
<1>6. Mirrors(g, h, sq, col)
  BY <1>3, <1>4, <1>5 DEF Mirrors
<1> QED
  BY <1>1, <1>5, <1>6 DEF Reflects, OffersAre, Clocks, left, none

\* A game is what its fields are.
AsRecord(g) ==
  [mode |-> g.mode, board |-> g.board, turn |-> g.turn, status |-> g.status,
   winner |-> g.winner, reason |-> g.reason, moves |-> g.moves,
   drawBy |-> g.drawBy, drawUsed |-> g.drawUsed, timeBy |-> g.timeBy, timeUsed |-> g.timeUsed,
   remaining |-> g.remaining, active |-> g.active, clockPending |-> g.clockPending,
   quiet |-> g.quiet, plies |-> g.plies, pending |-> g.pending,
   endRecorded |-> g.endRecorded, lag |-> g.lag, emitted |-> g.emitted]

LEMMA GameIsItsFields ==
  ASSUME NEW g \in Games
  PROVE  g = AsRecord(g)
  BY DEF Games, AsRecord

\* A reflection is the image: nothing of a game is left out.
LEMMA ReflectionIsImage ==
  ASSUME NEW sq, NEW col, NEW a, NEW b, Symmetry(a.mode, sq, col), Reflects(a, b, sq, col)
  PROVE  Image(a, sq, col) = Unrecorded(b)
<1> DEFINE h == Image(a, sq, col)
           none == <<>>
           k == [b EXCEPT !.emitted = none]
<1>1. a \in Games /\ b \in Games
  BY DEF Reflects, Mirrors
<1>2. Reflects(a, h, sq, col) /\ h.emitted = none /\ Unrecorded(b) = k
  BY <1>1, ImageFields DEF Unrecorded
<1>3. none \in Seq(Events)
  OBVIOUS
<1> HIDE DEF h, none
<1>4. k \in Games /\ k.emitted = none
      /\ k.mode = b.mode /\ k.board = b.board /\ k.turn = b.turn /\ k.status = b.status
      /\ k.winner = b.winner /\ k.reason = b.reason /\ k.moves = b.moves
      /\ k.quiet = b.quiet
      /\ k.drawBy = b.drawBy /\ k.drawUsed = b.drawUsed
      /\ k.timeBy = b.timeBy /\ k.timeUsed = b.timeUsed
      /\ k.active = b.active /\ k.remaining = b.remaining
      /\ k.clockPending = b.clockPending /\ k.plies = b.plies /\ k.pending = b.pending
      /\ k.endRecorded = b.endRecorded /\ k.lag = b.lag
  BY <1>1, <1>3 DEF Games
<1>5. h.board = b.board
  BY <1>2, TurnIsTurned DEF Reflects, Mirrors
<1>6. /\ h \in Games
      /\ h.mode = b.mode /\ h.turn = b.turn /\ h.status = b.status
      /\ h.winner = b.winner /\ h.reason = b.reason /\ h.moves = b.moves
      /\ h.quiet = b.quiet
      /\ h.drawBy = b.drawBy /\ h.drawUsed = b.drawUsed
      /\ h.timeBy = b.timeBy /\ h.timeUsed = b.timeUsed
      /\ h.active = b.active /\ h.remaining = b.remaining
      /\ h.clockPending = b.clockPending /\ h.plies = b.plies /\ h.pending = b.pending
      /\ h.endRecorded = b.endRecorded /\ h.lag = b.lag
  BY <1>2 DEF Reflects, Mirrors, OffersAre
<1> HIDE DEF k
<1>7. h = k
  <2>1. /\ h.mode = k.mode /\ h.board = k.board /\ h.turn = k.turn /\ h.status = k.status
        /\ h.winner = k.winner /\ h.reason = k.reason /\ h.moves = k.moves
        /\ h.quiet = k.quiet
        /\ h.drawBy = k.drawBy /\ h.drawUsed = k.drawUsed
        /\ h.timeBy = k.timeBy /\ h.timeUsed = k.timeUsed
        /\ h.active = k.active /\ h.remaining = k.remaining
        /\ h.plies = k.plies /\ h.pending = k.pending
        /\ h.lag = k.lag /\ h.emitted = k.emitted
    BY <1>2, <1>4, <1>5, <1>6
  <2>2. h.clockPending = k.clockPending
    BY <1>4, <1>6, Zenon
  <2>3. h.endRecorded = k.endRecorded
    BY <1>4, <1>6, Zenon
  <2>4. AsRecord(h) = AsRecord(k)
    BY <2>1, <2>2, <2>3, Zenon DEF AsRecord
  <2> QED
    BY <1>4, <1>6, <2>4, GameIsItsFields
<1> QED
  BY <1>2, <1>7 DEF h, none

\* The mover's clock is the reflected mover's.
LEMMA ReflectedClock ==
  ASSUME NEW mode, NEW sq, NEW col, Symmetry(mode, sq, col), NEW player \in Players,
         NEW left \in [Players -> Nat], NEW after \in [Players -> Nat],
         \A c \in Players : c # player => after[c] = left[c]
  PROVE  /\ col[player] \in Players /\ Clocks(left, col)[col[player]] = left[player]
         /\ Clocks(after, col) = [Clocks(left, col) EXCEPT ![col[player]] = after[player]]
<1>1. /\ \A c \in Players : col[c] \in Players /\ col[col[c]] = c
      /\ \A c \in Players : col[c] = player <=> c = col[player]
  BY SymmetryColors
<1> QED
  BY <1>1 DEF Clocks

LEMMA ReflectedMove ==
  ASSUME NEW sq, NEW col, NEW a, NEW b, Symmetry(a.mode, sq, col), Reflects(a, b, sq, col),
         a.status = InProgress,
         NEW player \in Players, NEW from \in Squares, NEW to \in Squares, from # to
  PROVE  /\ Reflects(RecordMove(MoveMade(a, player, from, to), player, from, to),
                     RecordMove(MoveMade(b, col[player], sq[from], sq[to]),
                                col[player], sq[from], sq[to]), sq, col)
         /\ RecordMove(MoveMade(a, player, from, to), player, from, to).mode = a.mode
<1> DEFINE playedA == Played(a, player, from, to)
           playedB == Played(b, col[player], sq[from], sq[to])
           madeA == MoveMade(a, player, from, to)
           madeB == MoveMade(b, col[player], sq[from], sq[to])
           h == RecordMove(madeA, player, from, to)
           k == RecordMove(madeB, col[player], sq[from], sq[to])
<1>1. /\ a \in Games /\ b \in Games /\ b.status = InProgress /\ Mirrors(a, b, sq, col)
      /\ col[player] \in Players /\ col[OtherColor(player)] = OtherColor(col[player])
      /\ sq[from] \in Squares /\ sq[to] \in Squares
      /\ col[Neutral] = Neutral /\ col[None] = None
  BY SymmetrySquares DEF Reflects, Mirrors, Symmetry
<1>2. AsMoved(a, playedA, madeA, player) /\ AsMoved(b, playedB, madeB, col[player])
  BY <1>1, MoveMadeFields
<1>3. Mirrors(playedA, playedB, sq, col)
  BY <1>1, MirroredPlayed
<1>4. ASSUME NEW g \in Games, g.status = InProgress, NEW p \in Players,
             NEW s \in Squares, NEW t \in Squares
      PROVE  LET made == MoveMade(g, p, s, t)
                 after == RecordMove(made, p, s, t)
             IN  /\ after \in Games /\ after.endRecorded = g.endRecorded
                 /\ after.plies = g.plies + 1 /\ after.pending = 0
                 /\ after.mode = made.mode /\ after.board = made.board
                 /\ after.turn = made.turn /\ after.status = made.status
                 /\ after.winner = made.winner /\ after.reason = made.reason
                 /\ after.moves = made.moves /\ after.remaining = made.remaining
                 /\ after.active = made.active /\ after.clockPending = made.clockPending
                 /\ after.quiet = made.quiet /\ after.lag = made.lag
                 /\ OffersAre(after, made.drawBy, made.drawUsed, made.timeBy, made.timeUsed)
  <2> DEFINE made == MoveMade(g, p, s, t)
             after == RecordMove(made, p, s, t)
  <2> HIDE DEF made, after
  <2>1. \E event : event.move = <<s, t>> /\ Tells(g, after, event, "move", p, 0)
    BY <1>4, MoveIsTold DEF made, after
  <2>2. after.pending = 0
    BY <2>1 DEF Tells
  <2> QED
    BY <1>4, <2>2, MoveIsTold DEF made, after
<1>5. LET Like(g, made, after) ==
            /\ after \in Games /\ after.endRecorded = g.endRecorded
            /\ after.plies = g.plies + 1 /\ after.pending = 0
            /\ after.mode = made.mode /\ after.board = made.board
            /\ after.turn = made.turn /\ after.status = made.status
            /\ after.winner = made.winner /\ after.reason = made.reason
            /\ after.moves = made.moves /\ after.remaining = made.remaining
            /\ after.active = made.active /\ after.clockPending = made.clockPending
            /\ after.quiet = made.quiet /\ after.lag = made.lag
            /\ OffersAre(after, made.drawBy, made.drawUsed, made.timeBy, made.timeUsed)
      IN  Like(a, madeA, h) /\ Like(b, madeB, k)
  BY <1>1, <1>4
<1> HIDE DEF playedA, playedB, madeA, madeB, h, k
<1>6. Mirrors(h, k, sq, col)
  BY <1>1, <1>2, <1>3, <1>5 DEF Mirrors, AsMoved
<1>7. h.status = k.status /\ k.turn = col[h.turn] /\ h.status \in {InProgress, Finished}
  BY <1>2, <1>5, <1>6 DEF Mirrors, AsMoved
<1>8. OffersAre(k, col[h.drawBy], col[h.drawUsed], col[h.timeBy], col[h.timeUsed])
  <2>1. b.drawBy = col[a.drawBy] /\ b.timeBy = col[a.timeBy]
    BY DEF Reflects, OffersAre
  <2>2. a.drawBy \in Tints /\ player \in Tints /\ \A c, d \in Tints : col[c] = col[d] <=> c = d
    <3>1. a.drawBy \in Offerers
      BY <1>1 DEF Games
    <3> QED
      BY <3>1, SymmetryColors
  <2>3. StillStanding(b.drawBy, col[player]) = col[StillStanding(a.drawBy, player)]
    BY <1>1, <2>1, <2>2 DEF StillStanding
  <2>4. /\ h.drawBy = (IF h.status = Finished THEN None ELSE StillStanding(a.drawBy, player))
        /\ k.drawBy = (IF k.status = Finished THEN None ELSE StillStanding(b.drawBy, col[player]))
        /\ h.timeBy = (IF h.status = Finished THEN None ELSE a.timeBy)
        /\ k.timeBy = (IF k.status = Finished THEN None ELSE b.timeBy)
        /\ h.drawUsed = None /\ k.drawUsed = None /\ h.timeUsed = None /\ k.timeUsed = None
    BY <1>2, <1>5 DEF AsMoved, OffersAre
  <2> QED
    BY <1>1, <1>7, <2>1, <2>3, <2>4 DEF OffersAre
<1>9. k.active = col[h.active]
  <2>1. /\ h.active = (IF h.status = Finished THEN Neutral ELSE h.turn)
        /\ k.active = (IF k.status = Finished THEN Neutral ELSE k.turn)
    BY <1>2, <1>5 DEF AsMoved
  <2> QED
    BY <1>1, <1>7, <2>1
<1>10. k.remaining = Clocks(h.remaining, col)
  <2> DEFINE left == a.remaining
             n == AddMs(left[player], Increment)
  <2>1. /\ left \in [Players -> Nat] /\ b.remaining = Clocks(left, col)
        /\ h.remaining = [left EXCEPT ![player] = n]
        /\ k.remaining = [b.remaining EXCEPT ![col[player]] =
                            AddMs(b.remaining[col[player]], Increment)]
    BY <1>1, <1>2, <1>5, GameFields DEF AsMoved, Reflects
  <2>2. n \in Nat
    BY <2>1, AddMsType, TimeAssumption
  <2>3. /\ h.remaining \in [Players -> Nat] /\ h.remaining[player] = n
        /\ \A c \in Players : c # player => h.remaining[c] = left[c]
    BY <2>1, <2>2
  <2>4. /\ Clocks(left, col)[col[player]] = left[player]
        /\ Clocks(h.remaining, col)
             = [Clocks(left, col) EXCEPT ![col[player]] = h.remaining[player]]
    BY <2>1, <2>3, ReflectedClock
  <2> QED
    BY <2>1, <2>3, <2>4
<1>11. /\ k.clockPending = h.clockPending /\ k.plies = h.plies /\ k.pending = h.pending
       /\ k.endRecorded = h.endRecorded /\ k.lag = h.lag
  <2>1. k.plies = h.plies /\ k.pending = h.pending /\ k.lag = h.lag
    BY <1>2, <1>5 DEF AsMoved, Reflects
  <2>2. k.clockPending = h.clockPending
    <3>1. h.clockPending = FALSE /\ k.clockPending = FALSE
      BY <1>2, <1>5, Zenon DEF AsMoved
    <3> QED
      BY <3>1, Zenon
  <2>3. k.endRecorded = h.endRecorded
    BY <1>5, Zenon DEF Reflects
  <2> QED
    BY <2>1, <2>2, <2>3, Zenon
<1>12. h.mode = a.mode
  BY <1>2, <1>5 DEF AsMoved
<1> QED
  BY <1>6, <1>8, <1>9, <1>10, <1>11, <1>12 DEF Reflects, h, k, madeA, madeB

LEMMA ReflectedEnd ==
  ASSUME NEW sq, NEW col, NEW a, NEW b, Reflects(a, b, sq, col),
         NEW p \in Colors, NEW q \in Colors
  PROVE  /\ Reflects(RecordEnd(a, p), RecordEnd(b, q), sq, col)
         /\ RecordEnd(a, p).mode = a.mode
<1> DEFINE h == RecordEnd(a, p)
           k == RecordEnd(b, q)
           ends == a.status = Finished /\ ~a.endRecorded
<1>1. /\ a \in Games /\ b \in Games
      /\ b.status = a.status /\ b.endRecorded = a.endRecorded
  BY DEF Reflects, Mirrors
<1>2. CASE ends
  <2>1. /\ h \in Games /\ SameButTheLog(a, h) /\ h.pending = 0 /\ h.endRecorded
        /\ k \in Games /\ SameButTheLog(b, k) /\ k.pending = 0 /\ k.endRecorded
    BY <1>1, <1>2, EndIsRecorded
  <2> HIDE DEF h, k
  <2>2. h.endRecorded = k.endRecorded
    <3>1. h.endRecorded \in BOOLEAN /\ k.endRecorded \in BOOLEAN
      BY <2>1 DEF Games
    <3> QED
      BY <2>1, <3>1
  <2>3. Mirrors(h, k, sq, col)
    BY <2>1 DEF Reflects, Mirrors, SameButTheLog
  <2>4. OffersAre(k, col[h.drawBy], col[h.drawUsed], col[h.timeBy], col[h.timeUsed])
    BY <2>1 DEF Reflects, OffersAre, SameButTheLog
  <2>5. Reflects(h, k, sq, col)
    BY <2>1, <2>2, <2>3, <2>4 DEF Reflects, SameButTheLog
  <2> QED
    BY <2>1, <2>5 DEF h, k, SameButTheLog
<1>3. CASE ~ends
  <2>1. h = a /\ k = b
    BY <1>1, <1>3, EndIsRecorded
  <2> QED
    BY <2>1
<1> QED
  BY <1>2, <1>3

LEMMA ReflectedAfterMove ==
  ASSUME NEW sq, NEW col, NEW a, NEW b, Symmetry(a.mode, sq, col), Reflects(a, b, sq, col),
         a.status = InProgress,
         NEW player \in Players, NEW from \in Squares, NEW to \in Squares, from # to
  PROVE  /\ Reflects(AfterMove(a, player, from, to),
                     AfterMove(b, col[player], sq[from], sq[to]), sq, col)
         /\ AfterMove(a, player, from, to).mode = a.mode
<1> DEFINE h == RecordMove(MoveMade(a, player, from, to), player, from, to)
           k == RecordMove(MoveMade(b, col[player], sq[from], sq[to]),
                           col[player], sq[from], sq[to])
<1>1. Reflects(h, k, sq, col) /\ h.mode = a.mode
  BY ReflectedMove
<1>2. /\ AfterMove(a, player, from, to) = RecordEnd(h, player)
      /\ AfterMove(b, col[player], sq[from], sq[to]) = RecordEnd(k, col[player])
  BY AfterMoveRecords
<1> HIDE DEF h, k
<1>3. player \in Colors /\ col[player] \in Colors
  BY SymmetryColors, ColorTypes
<1> QED
  BY <1>1, <1>2, <1>3, ReflectedEnd

LEMMA SquareIsPair ==
  /\ \A s \in Squares : /\ s = <<s[1], s[2]>>
                        /\ s[1] \in Int /\ 0 <= s[1] /\ s[1] <= Width - 1
                        /\ s[2] \in Int /\ 0 <= s[2] /\ s[2] <= Height - 1
  /\ \A x, y \in Int : 0 <= x /\ x <= Width - 1 /\ 0 <= y /\ y <= Height - 1
                         => <<x, y>> \in Squares
  BY BoardAssumption DEF Squares

\* A map of the squares that reverses a coordinate keeps neighbours apart.
LEMMA Apart ==
  /\ \A m, x, y \in Int : (m - x) - (m - y) \in -1..1 <=> x - y \in -1..1
  /\ \A s, t \in Squares : Adjacent(s, t) <=> /\ s[1] # t[1] \/ s[2] # t[2]
                                              /\ s[1] - t[1] \in -1..1
                                              /\ s[2] - t[2] \in -1..1
<1>1. \A s, t \in Squares : s # t <=> s[1] # t[1] \/ s[2] # t[2]
  BY SquareIsPair
<1> QED
  BY <1>1 DEF Adjacent

LEMMA SwapIsSymmetric ==
  /\ \A c \in Tints : SwapColor(c) \in Tints /\ SwapColor(SwapColor(c)) = c
  /\ SwapColor(None) = None /\ SwapColor(Neutral) = Neutral
  /\ \A p \in Players : /\ SwapColor(p) = OtherColor(p) /\ SwapColor(p) \in Players
                        /\ SwapColor(OtherColor(p)) = OtherColor(SwapColor(p))
  BY DEF SwapColor, Tints, Colors, Players, OtherColor, Red, Blue, Neutral, None

LEMMA HalfTurnIsSymmetry ==
  ASSUME NEW mode
  PROVE  Symmetry(mode, [s \in Squares |-> HalfTurnSquare(s)],
                  [c \in Tints |-> SwapColor(c)])
<1> DEFINE sq == [s \in Squares |-> HalfTurnSquare(s)]
           col == [c \in Tints |-> SwapColor(c)]
<1>1. Width \in Int /\ Height \in Int /\ Width >= 3 /\ Height >= 3
  BY BoardAssumption
<1>2. \A s \in Squares : /\ sq[s] = <<Width - 1 - s[1], Height - 1 - s[2]>>
                         /\ sq[s] \in Squares
                         /\ sq[s][1] = Width - 1 - s[1] /\ sq[s][2] = Height - 1 - s[2]
  <2> SUFFICES ASSUME NEW s \in Squares
               PROVE  <<Width - 1 - s[1], Height - 1 - s[2]>> \in Squares
    BY DEF HalfTurnSquare
  <2> QED
    BY <1>1, SquareIsPair
<1>3. /\ \A c \in Tints : col[c] = SwapColor(c)
      /\ None \in Tints /\ Neutral \in Tints /\ Players \subseteq Tints
      /\ \A p \in Players : OtherColor(p) \in Players
  BY ColorTypes DEF Tints, Colors, Players, OtherColor
<1>4. sq \in [Squares -> Squares] /\ col \in [Tints -> Tints]
  BY <1>2, SwapIsSymmetric
<1> HIDE DEF sq, col, Squares
<1>5. \A s \in Squares : sq[sq[s]] = s
  <2> SUFFICES ASSUME NEW s \in Squares PROVE sq[sq[s]] = s
    OBVIOUS
  <2>1. sq[sq[s]] = <<Width - 1 - sq[s][1], Height - 1 - sq[s][2]>>
    BY <1>2
  <2>2. Width - 1 - sq[s][1] = s[1] /\ Height - 1 - sq[s][2] = s[2]
    BY <1>1, <1>2, SquareIsPair
  <2> QED
    BY <2>1, <2>2, SquareIsPair
<1>6. \A s, t \in Squares : Adjacent(sq[s], sq[t]) <=> Adjacent(s, t)
  <2> SUFFICES ASSUME NEW s \in Squares, NEW t \in Squares
               PROVE  Adjacent(sq[s], sq[t]) <=> Adjacent(s, t)
    OBVIOUS
  <2>1. /\ sq[s][1] - sq[t][1] \in -1..1 <=> s[1] - t[1] \in -1..1
        /\ sq[s][2] - sq[t][2] \in -1..1 <=> s[2] - t[2] \in -1..1
    BY <1>1, <1>2, SquareIsPair, Apart
  <2>2. /\ sq[s][1] = sq[t][1] <=> s[1] = t[1]
        /\ sq[s][2] = sq[t][2] <=> s[2] = t[2]
    BY <1>1, <1>2, SquareIsPair
  <2> QED
    BY <1>2, <2>1, <2>2, Apart
<1>7. /\ col[None] = None /\ col[Neutral] = Neutral
      /\ \A p \in Players : col[p] \in Players /\ col[OtherColor(p)] = OtherColor(col[p])
      /\ \A c \in Tints : col[col[c]] = c
  BY <1>3, SwapIsSymmetric
<1>8. \A p \in Players, s \in Squares :
        s[2] = GoalRank(p) <=> sq[s][2] = GoalRank(col[p])
  <2> SUFFICES ASSUME NEW p \in Players, NEW s \in Squares
               PROVE  s[2] = GoalRank(p) <=> sq[s][2] = GoalRank(col[p])
    OBVIOUS
  <2>1. col[p] = OtherColor(p)
    BY <1>3, SwapIsSymmetric
  <2>2. GoalRank(col[p]) = Height - 1 - GoalRank(p) /\ GoalRank(p) \in Int
    BY <1>1, <2>1 DEF GoalRank, OtherColor, Players, Red, Blue
  <2> QED
    BY <1>1, <1>2, <2>2, SquareIsPair
<1>9. \A p \in Players, s \in Squares :
        s = GoalCorner(p) <=> sq[s] = GoalCorner(col[p])
  <2> SUFFICES ASSUME NEW p \in Players, NEW s \in Squares
               PROVE  s = GoalCorner(p) <=> sq[s] = GoalCorner(col[p])
    OBVIOUS
  <2>1. col[p] = OtherColor(p)
    BY <1>3, SwapIsSymmetric
  <2>2. /\ GoalCorner(p) \in Squares /\ GoalCorner(col[p]) \in Squares
        /\ GoalCorner(col[p]) = sq[GoalCorner(p)]
    <3>1. <<0, 0>> \in Squares /\ <<Width - 1, Height - 1>> \in Squares
      BY <1>1, SquareIsPair
    <3>2. sq[<<0, 0>>] = <<Width - 1, Height - 1>> /\ sq[<<Width - 1, Height - 1>>] = <<0, 0>>
      BY <1>1, <1>2, <3>1
    <3> QED
      BY <2>1, <3>1, <3>2 DEF GoalCorner, OtherColor, Players, Red, Blue
  <2> QED
    BY <1>5, <2>2
<1>10. Symmetry(mode, sq, col)
  BY <1>4, <1>5, <1>6, <1>7, <1>8, <1>9 DEF Symmetry
<1> QED
  BY <1>10 DEF sq, col

LEMMA ModeSymmetryIsSymmetry ==
  ASSUME NEW mode \in Modes, SymmetryFits(mode)
  PROVE  Symmetry(mode, [s \in Squares |-> SymmetrySquare(mode, s)], [c \in Tints |-> c])
<1> DEFINE sq == [s \in Squares |-> SymmetrySquare(mode, s)]
           col == [c \in Tints |-> c]
<1>1. Width \in Int /\ Height \in Int /\ Width >= 3 /\ Height >= 3
  BY BoardAssumption
<1>2. /\ \A c \in Tints : col[c] = c
      /\ None \in Tints /\ Neutral \in Tints /\ Players \subseteq Tints
      /\ \A p \in Players : OtherColor(p) \in Players
  BY ColorTypes DEF Tints, Colors, Players, OtherColor
<1>3. col \in [Tints -> Tints]
  OBVIOUS
<1>4. mode = Intransitive => Width = Height
  BY DEF SymmetryFits
<1>5. Infiltration # Intransitive
  BY DEF Infiltration, Intransitive
<1>6. \A s \in Squares :
        LET x == IF mode = Intransitive THEN s[2] ELSE Width - 1 - s[1]
            y == IF mode = Intransitive THEN s[1] ELSE s[2]
        IN  sq[s] = <<x, y>> /\ sq[s] \in Squares
            /\ sq[s][1] = x /\ sq[s][2] = y
  <2> SUFFICES ASSUME NEW s \in Squares, NEW x, NEW y,
                      x = IF mode = Intransitive THEN s[2] ELSE Width - 1 - s[1],
                      y = IF mode = Intransitive THEN s[1] ELSE s[2]
               PROVE  sq[s] = <<x, y>> /\ sq[s] \in Squares /\ sq[s][1] = x /\ sq[s][2] = y
    OBVIOUS
  <2>1. sq[s] = <<x, y>>
    BY DEF SymmetrySquare
  <2>2. <<x, y>> \in Squares
    BY <1>1, <1>4, SquareIsPair
  <2> HIDE DEF sq
  <2> QED
    BY <2>1, <2>2
<1>7. sq \in [Squares -> Squares]
  BY <1>6
<1> HIDE DEF sq, col, Squares
<1>8. \A s \in Squares : sq[sq[s]] = s
  <2> SUFFICES ASSUME NEW s \in Squares PROVE sq[sq[s]] = s
    OBVIOUS
  <2>1. sq[s] \in Squares /\ sq[sq[s]] \in Squares
    BY <1>7
  <2>2. sq[sq[s]][1] = s[1] /\ sq[sq[s]][2] = s[2]
    BY <1>1, <1>6, <2>1, SquareIsPair
  <2> QED
    BY <2>1, <2>2, SquareIsPair
<1>9. \A s, t \in Squares : Adjacent(sq[s], sq[t]) <=> Adjacent(s, t)
  <2> SUFFICES ASSUME NEW s \in Squares, NEW t \in Squares
               PROVE  Adjacent(sq[s], sq[t]) <=> Adjacent(s, t)
    OBVIOUS
  <2>1. sq[s] \in Squares /\ sq[t] \in Squares
    BY <1>7
  <2>2. CASE mode = Intransitive
    BY <1>6, <2>1, <2>2, Apart
  <2>3. CASE mode # Intransitive
    <3>1. /\ sq[s][1] = Width - 1 - s[1] /\ sq[t][1] = Width - 1 - t[1]
          /\ sq[s][2] = s[2] /\ sq[t][2] = t[2]
      BY <1>6, <2>3
    <3>2. s[1] \in Int /\ t[1] \in Int /\ Width - 1 \in Int
      BY <1>1, SquareIsPair
    <3>3. (Width - 1 - s[1]) - (Width - 1 - t[1]) \in -1..1 <=> s[1] - t[1] \in -1..1
      BY <3>2, Apart
    <3>4. sq[s][1] = sq[t][1] <=> s[1] = t[1]
      BY <3>1, <3>2
    <3> QED
      BY <2>1, <3>1, <3>3, <3>4, Apart
  <2> QED
    BY <2>2, <2>3
<1>10. mode = Infiltration =>
         \A p \in Players, s \in Squares : s[2] = GoalRank(p) <=> sq[s][2] = GoalRank(col[p])
  BY <1>2, <1>5, <1>6
<1>11. mode = Intransitive =>
         \A p \in Players, s \in Squares : s = GoalCorner(p) <=> sq[s] = GoalCorner(col[p])
  <2> SUFFICES ASSUME mode = Intransitive, NEW p \in Players, NEW s \in Squares
               PROVE  s = GoalCorner(p) <=> sq[s] = GoalCorner(p)
    BY <1>2
  <2>1. GoalCorner(p) \in Squares /\ sq[GoalCorner(p)] = GoalCorner(p)
    <3>1. <<0, 0>> \in Squares /\ <<Width - 1, Height - 1>> \in Squares
      BY <1>1, SquareIsPair
    <3>2. sq[<<0, 0>>] = <<0, 0>>
      BY <1>6, <3>1
    <3>3. sq[<<Width - 1, Height - 1>>] = <<Width - 1, Height - 1>>
      BY <1>4, <1>6, <3>1
    <3> QED
      BY <3>1, <3>2, <3>3 DEF GoalCorner
  <2> QED
    BY <1>8, <2>1
<1>12. Symmetry(mode, sq, col)
  <2>1. /\ col[None] = None /\ col[Neutral] = Neutral
        /\ \A p \in Players : col[p] \in Players /\ col[OtherColor(p)] = OtherColor(col[p])
        /\ \A c \in Tints : col[col[c]] = c
    BY <1>2
  <2> QED
    BY <1>3, <1>7, <1>8, <1>9, <1>10, <1>11, <2>1 DEF Symmetry
<1> QED
  BY <1>12 DEF sq, col

\* The two relabellings are images.
LEMMA HalfTurnIsImage ==
  ASSUME NEW g \in Games
  PROVE  HalfTurn(g) = Image(g, [s \in Squares |-> HalfTurnSquare(s)],
                             [c \in Tints |-> SwapColor(c)])
<1> DEFINE sq == [s \in Squares |-> HalfTurnSquare(s)]
           col == [c \in Tints |-> SwapColor(c)]
<1>1. Symmetry(g.mode, sq, col)
  BY HalfTurnIsSymmetry
<1>2. /\ \A c \in Tints : col[c] = SwapColor(c)
      /\ \A s \in Squares : sq[s] = HalfTurnSquare(s) /\ sq[s] \in Squares
  BY <1>1, SymmetrySquares
<1> HIDE DEF sq, col, Squares
<1>3. /\ g.turn \in Tints /\ g.winner \in Tints /\ g.active \in Tints
      /\ g.drawBy \in Tints /\ g.drawUsed \in Tints
      /\ g.timeBy \in Tints /\ g.timeUsed \in Tints
      /\ g.board \in [Squares -> Tiles] /\ g.remaining \in [Players -> Nat]
      /\ Players \subseteq Tints
  BY DEF Games, Offerers, Tints, Colors
<1>4. HalfTurnBoard(g.board) = Turned(g.board, sq, col)
  <2>1. ASSUME NEW s \in Squares
        PROVE  [occupant |-> g.board[HalfTurnSquare(s)].occupant,
                owner |-> SwapColor(g.board[HalfTurnSquare(s)].owner),
                ground |-> SwapColor(g.board[HalfTurnSquare(s)].ground)]
                 = [occupant |-> g.board[sq[s]].occupant,
                    owner |-> col[g.board[sq[s]].owner],
                    ground |-> col[g.board[sq[s]].ground]]
    <3>1. g.board[sq[s]].owner \in Tints /\ g.board[sq[s]].ground \in Tints
      BY <1>2, <1>3, BoardIsTiles DEF Tints
    <3> QED
      BY <1>2, <3>1
  <2> QED
    BY <2>1 DEF HalfTurnBoard, Turned
<1>5. [c \in Players |-> g.remaining[SwapColor(c)]] = [c \in Players |-> g.remaining[col[c]]]
  BY <1>2, <1>3
<1>6. /\ SwapColor(g.turn) = col[g.turn] /\ SwapColor(g.winner) = col[g.winner]
      /\ SwapColor(g.active) = col[g.active]
      /\ SwapColor(g.drawBy) = col[g.drawBy] /\ SwapColor(g.drawUsed) = col[g.drawUsed]
      /\ SwapColor(g.timeBy) = col[g.timeBy] /\ SwapColor(g.timeUsed) = col[g.timeUsed]
  BY <1>2, <1>3
<1>7. HalfTurn(g) = Image(g, sq, col)
  BY <1>4, <1>5, <1>6 DEF HalfTurn, Image
<1> QED
  BY <1>7 DEF sq, col

LEMMA RelabelledIsImage ==
  ASSUME NEW g \in Games, SymmetryFits(g.mode)
  PROVE  Relabelled(g) = Image(g, [s \in Squares |-> SymmetrySquare(g.mode, s)],
                               [c \in Tints |-> c])
<1> DEFINE sq == [s \in Squares |-> SymmetrySquare(g.mode, s)]
           col == [c \in Tints |-> c]
           none == <<>>
           h == [g EXCEPT !.board = Turned(g.board, sq, col), !.emitted = none]
<1>1. Symmetry(g.mode, sq, col)
  <2>1. g.mode \in Modes
    BY DEF Games
  <2> QED
    BY <2>1, ModeSymmetryIsSymmetry
<1>2. /\ \A c \in Tints : col[c] = c
      /\ \A s \in Squares : sq[s] = SymmetrySquare(g.mode, s) /\ sq[s] \in Squares
  BY <1>1, SymmetrySquares
<1> HIDE DEF sq, col, Squares
<1>3. /\ g.turn \in Tints /\ g.winner \in Tints /\ g.active \in Tints
      /\ g.drawBy \in Tints /\ g.drawUsed \in Tints
      /\ g.timeBy \in Tints /\ g.timeUsed \in Tints
      /\ g.board \in [Squares -> Tiles] /\ g.remaining \in [Players -> Nat]
      /\ Players \subseteq Tints
  BY DEF Games, Offerers, Tints, Colors
<1>4. SymmetryBoard(g.mode, g.board) = Turned(g.board, sq, col)
  <2>1. ASSUME NEW s \in Squares
        PROVE  g.board[SymmetrySquare(g.mode, s)]
                 = [occupant |-> g.board[sq[s]].occupant,
                    owner |-> col[g.board[sq[s]].owner],
                    ground |-> col[g.board[sq[s]].ground]]
    <3>1. /\ g.board[sq[s]] \in Tiles
          /\ g.board[sq[s]].owner \in Tints /\ g.board[sq[s]].ground \in Tints
      BY <1>2, <1>3, BoardIsTiles DEF Tints
    <3>2. g.board[sq[s]] = [occupant |-> g.board[sq[s]].occupant,
                            owner |-> g.board[sq[s]].owner,
                            ground |-> g.board[sq[s]].ground]
      BY <3>1 DEF Tiles
    <3> QED
      BY <1>2, <3>1, <3>2
  <2> QED
    BY <2>1 DEF SymmetryBoard, Turned
<1>5. Relabelled(g) = h
  BY <1>4 DEF Relabelled
<1>6. Turned(g.board, sq, col) \in [Squares -> Tiles] /\ none \in Seq(Events)
  BY <1>1, <1>3, TurnedFields
<1> DEFINE k == Image(g, sq, col)
<1>7. Reflects(g, k, sq, col) /\ k.emitted = none
  BY <1>1, ImageFields
<1> HIDE DEF none, k
<1>8. h \in Games
  BY <1>6 DEF Games
<1>9. /\ h.mode = g.mode /\ h.board = Turned(g.board, sq, col) /\ h.turn = g.turn
      /\ h.status = g.status /\ h.winner = g.winner /\ h.reason = g.reason
      /\ h.moves = g.moves /\ h.quiet = g.quiet
      /\ h.drawBy = g.drawBy /\ h.drawUsed = g.drawUsed
      /\ h.timeBy = g.timeBy /\ h.timeUsed = g.timeUsed
      /\ h.active = g.active /\ h.remaining = g.remaining
      /\ h.clockPending = g.clockPending /\ h.plies = g.plies /\ h.pending = g.pending
      /\ h.endRecorded = g.endRecorded /\ h.lag = g.lag /\ h.emitted = none
  BY DEF Games
<1> HIDE DEF h
<1>10. Clocks(g.remaining, col) = g.remaining
  BY <1>2, <1>3 DEF Clocks
<1>11. Reflects(g, h, sq, col)
  <2>1. TurnOf(g.board, h.board, sq, col)
    BY <1>1, <1>3, <1>9, TurnedFields DEF TurnOf
  <2>2. Mirrors(g, h, sq, col)
    BY <1>2, <1>3, <1>8, <1>9, <2>1 DEF Mirrors
  <2>3. OffersAre(h, col[g.drawBy], col[g.drawUsed], col[g.timeBy], col[g.timeUsed])
    BY <1>2, <1>3, <1>9 DEF OffersAre
  <2>4. h.active = col[g.active] /\ h.remaining = Clocks(g.remaining, col)
    BY <1>2, <1>3, <1>9, <1>10
  <2>5. h.clockPending = g.clockPending /\ h.endRecorded = g.endRecorded
    BY <1>9, Zenon
  <2> QED
    BY <1>9, <2>2, <2>3, <2>4, <2>5 DEF Reflects
<1>12. k = Unrecorded(h)
  BY <1>1, <1>11, ReflectionIsImage DEF k
<1>13. Unrecorded(h) = h
  <2>1. Unrecorded(h) = [h EXCEPT !.emitted = none]
    BY DEF Unrecorded, none
  <2> QED
    BY <1>8, <1>9, <2>1 DEF Games
<1> QED
  BY <1>5, <1>12, <1>13 DEF k, sq, col

\* Whatever the symmetry: the turned position allows the turned moves, and they
\* come to the turned outcome.
LEMMA ImagePlaysTheSameGame ==
  ASSUME NEW g \in Games, g.status = InProgress, NEW sq, NEW col, Symmetry(g.mode, sq, col),
         NEW from \in Squares, NEW to \in Squares
  PROVE  LET image == Image(g, sq, col)
             after == AfterMove(g, g.turn, from, to)
         IN  /\ LegalMove(g, g.turn, from, to)
                  <=> LegalMove(image, col[g.turn], sq[from], sq[to])
             /\ LegalMove(g, g.turn, from, to) =>
                  /\ after \in Games /\ after.mode = g.mode
                  /\ Image(after, sq, col)
                       = Unrecorded(AfterMove(image, col[g.turn], sq[from], sq[to]))
<1> DEFINE image == Image(g, sq, col)
           after == AfterMove(g, g.turn, from, to)
           other == AfterMove(image, col[g.turn], sq[from], sq[to])
<1>1. g.turn \in Players
  BY GameFields
<1>2. Reflects(g, image, sq, col)
  BY ImageFields
<1>3. LegalMove(g, g.turn, from, to) <=> LegalMove(image, col[g.turn], sq[from], sq[to])
  BY <1>1, <1>2, MirroredMoves DEF Reflects
<1> HIDE DEF image
<1>4. ASSUME LegalMove(g, g.turn, from, to)
      PROVE  after \in Games /\ after.mode = g.mode /\ Image(after, sq, col) = Unrecorded(other)
  <2>1. from # to
    BY <1>4 DEF LegalMove, Adjacent
  <2>2. Reflects(after, other, sq, col) /\ after.mode = g.mode
    BY <1>1, <1>2, <2>1, ReflectedAfterMove
  <2> HIDE DEF after, other
  <2>3. after \in Games
    BY <2>2 DEF Reflects, Mirrors
  <2> QED
    BY <2>2, <2>3, ReflectionIsImage
<1> QED
  BY <1>3, <1>4 DEF image

LEMMA HalfTurnsAlike ==
  ASSUME NEW g \in Games, g.status = InProgress
  PROVE  SamePlay(g, HalfTurn, HalfTurnSquare, OtherColor(g.turn))
<1> DEFINE sq == [s \in Squares |-> HalfTurnSquare(s)]
           col == [c \in Tints |-> SwapColor(c)]
<1>1. Symmetry(g.mode, sq, col)
  BY HalfTurnIsSymmetry
<1>2. /\ \A s \in Squares : sq[s] = HalfTurnSquare(s)
      /\ col[g.turn] = OtherColor(g.turn)
  <2>1. g.turn \in Players /\ g.turn \in Tints
    BY GameFields DEF Tints, Colors
  <2> QED
    BY <2>1, SwapIsSymmetric
<1>3. \A h \in Games : HalfTurn(h) = Image(h, sq, col)
  BY HalfTurnIsImage
<1> HIDE DEF sq, col
<1> SUFFICES ASSUME NEW from \in Squares, NEW to \in Squares
             PROVE  /\ LegalMove(g, g.turn, from, to)
                         <=> LegalMove(HalfTurn(g), OtherColor(g.turn),
                                       HalfTurnSquare(from), HalfTurnSquare(to))
                    /\ LegalMove(g, g.turn, from, to) =>
                         HalfTurn(AfterMove(g, g.turn, from, to))
                           = Unrecorded(AfterMove(HalfTurn(g), OtherColor(g.turn),
                                          HalfTurnSquare(from), HalfTurnSquare(to)))
  BY DEF SamePlay
<1> QED
  BY <1>1, <1>2, <1>3, ImagePlaysTheSameGame

LEMMA ModeSymmetriesAlike ==
  ASSUME NEW g \in Games, g.status = InProgress, SymmetryFits(g.mode)
  PROVE  LET square(s) == SymmetrySquare(g.mode, s)
         IN  SamePlay(g, Relabelled, square, g.turn)
<1> DEFINE sq == [s \in Squares |-> SymmetrySquare(g.mode, s)]
           col == [c \in Tints |-> c]
<1>1. Symmetry(g.mode, sq, col)
  <2>1. g.mode \in Modes
    BY DEF Games
  <2> QED
    BY <2>1, ModeSymmetryIsSymmetry
<1>2. /\ \A s \in Squares : sq[s] = SymmetrySquare(g.mode, s)
      /\ col[g.turn] = g.turn
  <2>1. g.turn \in Tints
    BY GameFields DEF Tints, Colors
  <2> QED
    BY <2>1
<1>3. \A h \in Games : h.mode = g.mode => Relabelled(h) = Image(h, sq, col)
  BY RelabelledIsImage
<1> HIDE DEF sq, col
<1> SUFFICES ASSUME NEW from \in Squares, NEW to \in Squares
             PROVE  /\ LegalMove(g, g.turn, from, to)
                         <=> LegalMove(Relabelled(g), g.turn, SymmetrySquare(g.mode, from),
                                       SymmetrySquare(g.mode, to))
                    /\ LegalMove(g, g.turn, from, to) =>
                         Relabelled(AfterMove(g, g.turn, from, to))
                           = Unrecorded(AfterMove(Relabelled(g), g.turn,
                                          SymmetrySquare(g.mode, from),
                                          SymmetrySquare(g.mode, to)))
  BY DEF SamePlay
<1> QED
  BY <1>1, <1>2, <1>3, ImagePlaysTheSameGame

\* From no position a game can reach does the half turn, or the symmetry of its
\* mode, allow another move or come to another outcome (half_turn.go:12-21,
\* symmetry.go).
THEOREM SymmetriesHold == Spec => []SymmetriesPlayTheSameGame
<1>1. GameInv => SymmetriesPlayTheSameGame
  <2>1. ASSUME game \in Games
        PROVE  SymmetriesPlayTheSameGame
    BY <2>1, HalfTurnsAlike, ModeSymmetriesAlike
       DEF SymmetriesPlayTheSameGame, HalfTurnPlaysTheSameGame, ModeSymmetryPlaysTheSameGame
  <2> QED
    BY <2>1 DEF GameInv, Sound
<1> QED
  BY <1>1, GamesAreSound, PTL
=============================================================================
