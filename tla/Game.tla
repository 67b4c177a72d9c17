-------------------------------- MODULE Game --------------------------------
(***************************************************************************)
(* One live game: internal/game/game.go over the rules of module Rules.    *)
(*                                                                         *)
(* Game is a struct behind one mutex, and every method is one critical     *)
(* section, so the whole game is one record and every method one operator  *)
(* on that record.  Writing the methods as operators is what lets module   *)
(* GameRecord run them a second time on a second game, as Replay does.     *)
(*                                                                         *)
(* Time.  The code keeps the instant clockUpdatedAt; only its distance     *)
(* from now ever matters, so the record keeps that distance as lag.  It    *)
(* grows as time passes, is spent when a method settles the clock, and is  *)
(* negative while HoldClock has put the anchor in the future.  One unit is *)
(* one millisecond; the sub-millisecond remainder the code carries between *)
(* readings is not modelled.                                               *)
(*                                                                         *)
(* Every method first settles the clock and then may refuse.  A refused    *)
(* call leaves exactly what Tick leaves, and so do the readers Snapshot,   *)
(* ValidMoves and Record: all of them are the action Settle.               *)
(***************************************************************************)
EXTENDS Rules, Sequences

CONSTANTS
  InitialTime, Increment,   \* the time control
  TimeExtension,            \* TimeExtensionMs
  MaxMs,                    \* where addMilliseconds saturates (math.MaxInt64)
  QuietPlyLimit,            \* plies without a capture before the draw
  NoDrawOffers, NoTimeExtensions,   \* the rule flags
  ClockStartsOnFirstMove,   \* StartOptions: a paired game, not yet begun
  HoldSpans,                \* the pauses HoldClock is asked for
  MaxLag                    \* bound: longest silence between two calls

ASSUME TimeAssumption ==
  /\ InitialTime \in Nat /\ InitialTime > 0
  /\ Increment \in Nat
  /\ TimeExtension \in Nat
  /\ MaxMs \in Nat /\ MaxMs >= InitialTime

ASSUME LimitAssumption ==
  /\ QuietPlyLimit \in Nat /\ QuietPlyLimit > 0
  /\ MaxLag \in Nat
  /\ HoldSpans \subseteq Nat

ASSUME FlagAssumption ==
  {NoDrawOffers, NoTimeExtensions, ClockStartsOnFirstMove} \subseteq BOOLEAN

VARIABLE game

\* The empty string of the four offer fields.
None == ""

NoMove == <<>>

-----------------------------------------------------------------------------
(* The event log, internal/game/record.go.  emitted holds the events one   *)
(* call appended; module GameRecord gathers them into the log.             *)

\* Mutant: the sum wraps as a two's complement word does.
AddMsWraps(value, increment) ==
  IF increment > MaxMs - value THEN value + increment - 2 * (MaxMs + 1)
                               ELSE value + increment

AddMs(value, increment) ==
  IF increment > MaxMs - value THEN MaxMs ELSE value + increment

\* recordEventLocked: an event carries the clock time spent since the last one.
RecordEvent(g, kind, player, move, bonus) ==
  LET event == [kind |-> kind, player |-> player, ply |-> g.plies,
                move |-> move, elapsed |-> g.pending, bonus |-> bonus,
                left |-> g.remaining, winner |-> g.winner, reason |-> g.reason]
  IN  [g EXCEPT !.emitted = Append(@, event), !.pending = 0]

RecordMove(g, player, from, to) ==
  RecordEvent([g EXCEPT !.plies = @ + 1], "move", player, <<from, to>>, 0)

\* recordEndLocked: appended once, whoever noticed the ending.
RecordEnd(g, actor) ==
  IF g.status # Finished \/ g.endRecorded THEN g
  ELSE RecordEvent([g EXCEPT !.endRecorded = TRUE], "end", actor, NoMove, 0)

-----------------------------------------------------------------------------
(* Endings and the clock.                                                  *)

\* finishLocked.
FinishGame(g, winner, reason) ==
  [g EXCEPT !.status = Finished, !.winner = winner, !.reason = reason,
            !.drawBy = None, !.drawUsed = None,
            !.timeBy = None, !.timeUsed = None,
            !.active = Neutral]

\* adjudicateStalemateLocked.
AdjudicateStalemate(g) ==
  IF g.status = InProgress /\ ~HasLegalMove(g)
  THEN FinishGame(g, StalemateWinner(g.mode, g.turn), "stalemate")
  ELSE g

TooQuiet(quiet) == quiet >= QuietPlyLimit

\* countQuietPlyLocked: a capture resets the count, and the limit draws a game
\* that nothing stronger has ended.
CountQuietPly(g, captured) ==
  IF captured THEN [g EXCEPT !.quiet = 0]
  ELSE LET counted == [g EXCEPT !.quiet = @ + 1]
       IN  IF g.status = InProgress /\ TooQuiet(counted.quiet)
           THEN FinishGame(counted, Neutral, "no_capture")
           ELSE counted

\* Mutant: a flag on exactly zero has not fallen.
FlagFallsLate(g) == g.lag > g.remaining[g.turn]

FlagFalls(g) == g.lag >= g.remaining[g.turn]

\* updateClockLocked: nothing is spent on a finished game, before the anchor,
\* or before the first move of a game that has not begun.
UpdateClock(g) ==
  LET mover == g.turn
      spent == g.status = InProgress /\ g.lag > 0
      fresh == [g EXCEPT !.emitted = <<>>]
  IN  CASE ~spent -> fresh
        [] spent /\ g.clockPending -> [fresh EXCEPT !.lag = 0]
        [] spent /\ ~g.clockPending /\ FlagFalls(g) ->
             RecordEnd(FinishGame([fresh EXCEPT !.pending = @ + g.remaining[mover],
                                                !.remaining[mover] = 0,
                                                !.lag = 0],
                                  OtherColor(mover), "timeout"), mover)
        [] OTHER -> [fresh EXCEPT !.pending = @ + g.lag,
                                  !.remaining[mover] = @ - g.lag,
                                  !.lag = 0]

-----------------------------------------------------------------------------
(* The methods.  Each takes a game whose clock has been settled.           *)

\* newGame, from the mode's opening; a board with no move is stalemate at once.
NewGame(mode, clockStartsOnFirstMove) ==
  LET opened ==
        [mode |-> mode, board |-> OpeningBoard(mode), turn |-> FirstToMove, status |-> InProgress,
         winner |-> Neutral, reason |-> NoReason, moves |-> 0,
         drawBy |-> None, drawUsed |-> None, timeBy |-> None, timeUsed |-> None,
         remaining |-> [c \in Players |-> InitialTime],
         active |-> IF clockStartsOnFirstMove THEN Neutral ELSE FirstToMove,
         clockPending |-> clockStartsOnFirstMove,
         quiet |-> 0, plies |-> 0, pending |-> 0, endRecorded |-> FALSE,
         lag |-> 0, emitted |-> <<>>]
  IN  RecordEnd(AdjudicateStalemate(opened), Neutral)

\* Mutant: a proposal stands until it is answered.
StandsUnanswered(offeredBy, player) == offeredBy

\* A move answers the opponent's draw offer and leaves the mover's own.
StillStanding(offeredBy, player) == IF offeredBy = player THEN player ELSE None

\* Move, after the mode has accepted it.
AfterMove(g, player, from, to) ==
  LET captured == g.board[to].occupant # Empty
      played == CountQuietPly(AdjudicateStalemate(ModeMove(g, player, from, to)),
                              captured)
      over == played.status = Finished
      settled ==
        [played EXCEPT
           !.drawBy = IF over THEN None ELSE StillStanding(g.drawBy, player),
           !.timeBy = IF over THEN None ELSE @,
           !.drawUsed = None,
           !.timeUsed = None,
           !.clockPending = FALSE,
           !.remaining[player] = AddMs(@, Increment),
           !.lag = 0,
           !.active = IF over THEN Neutral ELSE played.turn]
  IN  RecordEnd(RecordMove(settled, player, from, to), player)

\* openOfferLocked accepts a draw offer: own turn, once, none standing.
CanOfferDraw(g, player) ==
  /\ g.status = InProgress
  /\ g.drawUsed # player
  /\ player = g.turn
  /\ g.drawBy = None

OfferedDraw(g, player) ==
  RecordEvent([g EXCEPT !.drawBy = player, !.drawUsed = player],
              "draw_offer", player, NoMove, 0)

\* openOfferLocked accepts a request for time: anybody's turn.
CanOfferTime(g, player) ==
  /\ g.status = InProgress
  /\ g.timeUsed # player
  /\ g.timeBy = None

OfferedTime(g, player) ==
  RecordEvent([g EXCEPT !.timeBy = player, !.timeUsed = player],
              "time_offer", player, NoMove, 0)

\* answerOfferLocked: something stands, and it is the opponent's.
CanAnswer(g, player, offeredBy) ==
  /\ g.status = InProgress
  /\ offeredBy \notin {None, player}

AcceptedDraw(g, player) ==
  RecordEnd(FinishGame(g, Neutral, "draw_agreement"), player)

DeclinedDraw(g, player) ==
  RecordEvent([g EXCEPT !.drawBy = None], "draw_decline", player, NoMove, 0)

\* Mutant: only the player who accepts is given time.
AcceptedTimeAlone(g, player) ==
  RecordEvent([g EXCEPT !.timeBy = None, !.remaining[player] = AddMs(@, TimeExtension)],
              "time_accept", player, NoMove, TimeExtension)

\* AcceptTimeExtension: both clocks grow.
AcceptedTime(g, player) ==
  RecordEvent([g EXCEPT !.timeBy = None,
                        !.remaining = [c \in Players |-> AddMs(@[c], TimeExtension)]],
              "time_accept", player, NoMove, TimeExtension)

DeclinedTime(g, player) ==
  RecordEvent([g EXCEPT !.timeBy = None], "time_decline", player, NoMove, 0)

Resigned(g, player) ==
  RecordEnd(FinishGame(g, OtherColor(player), "resignation"), player)

Abandoned(g, player) ==
  RecordEnd(FinishGame(g, OtherColor(player), "abandonment"), player)

\* Adjudicate leaves no ending in the log.
Adjudicated(g, winner) == FinishGame(g, winner, "adjudication")

\* HoldClock: the anchor moves into the future, never nearer.
Held(g, span) ==
  IF span > 0 /\ -span < g.lag THEN [g EXCEPT !.lag = -span] ELSE g

-----------------------------------------------------------------------------
(* Actions.                                                                *)

Init == \E mode \in Modes : game = NewGame(mode, ClockStartsOnFirstMove)

\* Wall time passes.  MaxLag bounds the silence between two calls.
TimePasses ==
  /\ game.lag < MaxLag
  /\ game' = [game EXCEPT !.lag = @ + 1, !.emitted = <<>>]

\* Mutant: the ticker looks at the game without settling its clock.
SettleNothing == game' = [game EXCEPT !.emitted = <<>>]

\* Tick, any reader, or any refused call.
Settle == game' = UpdateClock(game)

Move(player, from, to) ==
  LET g == UpdateClock(game)
  IN  /\ LegalMove(g, player, from, to)
      /\ game' = AfterMove(g, player, from, to)

OfferDraw(player) ==
  LET g == UpdateClock(game)
  IN  /\ ~NoDrawOffers
      /\ CanOfferDraw(g, player)
      /\ game' = OfferedDraw(g, player)

AcceptDraw(player) ==
  LET g == UpdateClock(game)
  IN  /\ CanAnswer(g, player, g.drawBy)
      /\ game' = AcceptedDraw(g, player)

DeclineDraw(player) ==
  LET g == UpdateClock(game)
  IN  /\ CanAnswer(g, player, g.drawBy)
      /\ game' = DeclinedDraw(g, player)

OfferTimeExtension(player) ==
  LET g == UpdateClock(game)
  IN  /\ ~NoTimeExtensions
      /\ CanOfferTime(g, player)
      /\ game' = OfferedTime(g, player)

AcceptTimeExtension(player) ==
  LET g == UpdateClock(game)
  IN  /\ CanAnswer(g, player, g.timeBy)
      /\ game' = AcceptedTime(g, player)

DeclineTimeExtension(player) ==
  LET g == UpdateClock(game)
  IN  /\ CanAnswer(g, player, g.timeBy)
      /\ game' = DeclinedTime(g, player)

\* Mutant: a finished game may be resigned.
ResignAnyGame(player) == game' = Resigned(UpdateClock(game), player)

Resign(player) ==
  LET g == UpdateClock(game)
  IN  /\ g.status = InProgress
      /\ game' = Resigned(g, player)

Abandon(player) ==
  LET g == UpdateClock(game)
  IN  /\ g.status = InProgress
      /\ game' = Abandoned(g, player)

\* A host stops the game with the result it declares.
Adjudicate(winner) ==
  LET g == UpdateClock(game)
  IN  /\ g.status = InProgress
      /\ game' = Adjudicated(g, winner)

HoldClock(span) ==
  LET g == UpdateClock(game)
  IN  /\ g.status = InProgress
      /\ game' = Held(g, span)

MoveAction == \E p \in Players, from, to \in Squares : Move(p, from, to)

OfferAction ==
  \E p \in Players :
    \/ OfferDraw(p) \/ AcceptDraw(p) \/ DeclineDraw(p)
    \/ OfferTimeExtension(p) \/ AcceptTimeExtension(p) \/ DeclineTimeExtension(p)

EndAction ==
  \/ \E p \in Players : Resign(p) \/ Abandon(p)
  \/ \E w \in Colors : Adjudicate(w)

UnproposedNext ==
  \/ TimePasses
  \/ Settle
  \/ MoveAction
  \/ EndAction
  \/ \E span \in HoldSpans : HoldClock(span)

Next == UnproposedNext \/ OfferAction

Spec == Init /\ [][Next]_game

\* The game between players who propose nothing, which touches neither the
\* board nor the turn.  The server's 100 ms ticker settles every live game
\* (expireGames), and time does not stop.  Nobody is obliged to move.
FairSpec ==
  /\ Init /\ [][UnproposedNext]_game
  /\ WF_game(TimePasses) /\ WF_game(Settle)

-----------------------------------------------------------------------------
(* Properties.                                                             *)

Events ==
  [kind : {"move", "draw_offer", "draw_decline", "time_offer", "time_decline",
           "time_accept", "end"},
   player : Colors, ply : Nat, move : {NoMove} \cup (Squares \X Squares),
   elapsed : Nat, bonus : Nat, left : [Players -> Nat],
   winner : Colors, reason : EndReasons \cup {NoReason}]

Offerers == Players \cup {None}

Games ==
  [mode : Modes, board : [Squares -> Tiles], turn : Players, status : {InProgress, Finished},
   winner : Colors, reason : EndReasons \cup {NoReason}, moves : Nat,
   drawBy : Offerers, drawUsed : Offerers, timeBy : Offerers, timeUsed : Offerers,
   remaining : [Players -> Nat], active : Colors, clockPending : BOOLEAN,
   quiet : Nat, plies : Nat, pending : Nat, endRecorded : BOOLEAN,
   lag : Int, emitted : Seq(Events)]

\* Every field of the game keeps its type.
TypeOK == game \in Games

Playable(g) ==
  g.status = InProgress =>
    /\ \A c \in Players : g.remaining[c] > 0
    /\ HasLegalMove(g)
    /\ g.quiet < QuietPlyLimit

\* A game still being played can be played on: neither flag has fallen, the
\* side to move has a move, and the quiet-ply limit has not been reached.  This
\* is what makes a loss on time, a stalemate and the no-capture draw happen at
\* the call that causes them rather than one call later (game.go:407-415, 853).
InProgressIsPlayable == Playable(game)

MoverIsTimed(g) ==
  g.active = IF g.status = InProgress /\ ~g.clockPending THEN g.turn ELSE Neutral

\* The clock the screens count down belongs to the side to move, and to nobody
\* before the first move and after the last: GameState.Clock.ActiveColor is
\* assigned in five places and never derived.
ActiveClockIsMover == MoverIsTimed(game)

NothingStands(g) ==
  g.status = Finished => {g.drawBy, g.drawUsed, g.timeBy, g.timeUsed} = {None}

\* Nothing stands on a finished game: no proposal outlives the game it was
\* about, whichever of the endings closed it (finishLocked, and Move for the
\* endings a mode declares itself).
NoOfferOutlivesTheGame == NothingStands(game)

\* A finished game never changes again: no late call moves a piece, a clock,
\* the result or the log of a game that is over.
Result(g) == <<g.board, g.status, g.winner, g.reason, g.remaining, g.plies,
               g.active, g.endRecorded>>

FinishedIsFinal ==
  [][game.status = Finished => /\ Result(game') = Result(game)
                               /\ game'.emitted = <<>>]_game

\* While the clock is held or the game has not begun, no time is charged to
\* anybody: a clock only ever shrinks on the side to move, by no more than the
\* wall time since the anchor.
OnlyTheMoverPays ==
  [][\A c \in Players :
       game'.remaining[c] < game.remaining[c] =>
         /\ c = game.turn
         /\ ~game.clockPending
         /\ game.lag >= game.remaining[c] - game'.remaining[c]]_game

\* Every game whose clock has started ends, even between two players who never
\* stop moving: the clock runs out on a player who does nothing, and the
\* quiet-ply limit on players who capture nothing.  (Two who kept granting each
\* other time, as game.go:498 lets them, could go on.)
EveryGameEnds == ~game.clockPending ~> game.status = Finished
=============================================================================
