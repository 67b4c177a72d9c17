----------------------------- MODULE GameRecord -----------------------------
(***************************************************************************)
(* The archival record of a game and its replay: internal/game/record.go.  *)
(*                                                                         *)
(* log is the ordered account of everything that changed the game.  Replay *)
(* makes a second game -- without the rule flags and without the deferred  *)
(* clock of the first -- advances a synthetic clock by each event's        *)
(* elapsed time, and calls the same methods again.                         *)
(***************************************************************************)
EXTENDS Game

CONSTANT MaxEvents  \* bound: past it only an ending is logged

ASSUME EventsAssumption == MaxEvents \in Nat

VARIABLE log

recordVars == <<game, log>>

-----------------------------------------------------------------------------
(* Replay.                                                                 *)

\* A replay that met an event it could not apply.
Failed(g) == [g EXCEPT !.status = "ReplayFailed"]

\* The engine must agree with the ending it was told: applyRecordedEnd.
CheckedEnd(g, event) ==
  IF /\ g.status = Finished
     /\ g.reason = event.reason
     /\ g.winner = event.winner
  THEN g ELSE Failed(g)

\* Only the three endings a player declares are replayed as calls; any other
\* has to follow from the position or the clock.
ApplyRecordedEnd(g, event) ==
  CASE event.reason = "resignation" ->
         IF g.status = InProgress
         THEN CheckedEnd(Resigned(g, event.player), event) ELSE Failed(g)
    [] event.reason = "abandonment" ->
         IF g.status = InProgress
         THEN CheckedEnd(Abandoned(g, event.player), event) ELSE Failed(g)
    [] event.reason = "draw_agreement" ->
         IF CanAnswer(g, event.player, g.drawBy)
         THEN CheckedEnd(AcceptedDraw(g, event.player), event) ELSE Failed(g)
    [] OTHER -> CheckedEnd(g, event)

\* Mutant: the synthetic clock stands still.
StoodStill(g, event) == UpdateClock(g)

\* The synthetic clock moves on by what the event says it took.
Advanced(g, event) == UpdateClock([g EXCEPT !.lag = @ + event.elapsed])

\* applyRecordedEvent, at the instant the synthetic clock has been moved to.
ApplyRecordedEvent(replayed, event) ==
  LET g == Advanced(replayed, event)
      player == event.player
      Apply(accepted, next) == IF accepted THEN next ELSE Failed(g)
  IN  CASE event.kind = "move" ->
             IF LegalMove(g, player, event.move[1], event.move[2])
             THEN AfterMove(g, player, event.move[1], event.move[2])
             ELSE Failed(g)
        [] event.kind = "draw_offer" ->
             Apply(CanOfferDraw(g, player), OfferedDraw(g, player))
        [] event.kind = "draw_decline" ->
             Apply(CanAnswer(g, player, g.drawBy), DeclinedDraw(g, player))
        [] event.kind = "time_offer" ->
             Apply(CanOfferTime(g, player), OfferedTime(g, player))
        [] event.kind = "time_decline" ->
             Apply(CanAnswer(g, player, g.timeBy), DeclinedTime(g, player))
        [] event.kind = "time_accept" ->
             Apply(CanAnswer(g, player, g.timeBy), AcceptedTime(g, player))
        [] event.kind = "end" -> ApplyRecordedEnd(g, event)

\* ReplayWithRegistry.  A failed replay stays failed: no method acts on a game
\* that is not in progress.
Replay(mode, events) ==
  LET after[n \in 0..Len(events)] ==
        IF n = 0 THEN NewGame(mode, FALSE)
                 ELSE ApplyRecordedEvent(after[n - 1], events[n])
  IN  after[Len(events)]

\* What compareFinalStates compares.
FinalState(g) ==
  [board |-> g.board, turn |-> g.turn, status |-> g.status, winner |-> g.winner,
   reason |-> g.reason, moves |-> g.moves, remaining |-> g.remaining,
   active |-> g.active]

\* VerifyWithRegistry.
Verify(final, events) == FinalState(Replay(final.mode, events)) = FinalState(final)

-----------------------------------------------------------------------------
(* The game with its log.                                                  *)

RecordInit == Init /\ log = game.emitted

\* Whatever the call appended is in the log when the call returns.  A log of
\* MaxEvents entries takes only the call that ends the game.
RecordNext ==
  /\ Next
  /\ log' = log \o game'.emitted
  /\ Len(log) >= MaxEvents => game'.emitted = <<>> \/ game'.status = Finished

RecordSpec == RecordInit /\ [][RecordNext]_recordVars

-----------------------------------------------------------------------------
(* Properties.                                                             *)

Indices == 1..Len(log)

Total(amounts) ==
  LET sum[n \in 0..Len(amounts)] == IF n = 0 THEN 0 ELSE sum[n - 1] + amounts[n]
  IN  sum[Len(amounts)]

\* What the events of a log add up to.
Elapsed(events) == Total([i \in 1..Len(events) |-> events[i].elapsed])
Bonus(events) == Total([i \in 1..Len(events) |-> events[i].bonus])

\* Every finished game replays into the exact state it finished in, clocks to
\* the millisecond (record.go:9-11): the recorded times, offers, extensions and
\* ending are enough to reproduce the game, although the replay holds no clock,
\* defers no start and knows none of the rule flags.  A game a host adjudicated
\* is the exception, checked apart.
FinishedGameVerifies ==
  game.status = Finished /\ game.reason # "adjudication" => Verify(game, log)

\* The log is the whole game at every moment and not only at its end: replaying
\* it gives the board, the turn, the standing offers and what each player may
\* still ask, and clocks that differ by exactly the time not yet attributed to
\* an event.
LogIsTheGame ==
  game.status = InProgress =>
    LET r == Replay(game.mode, log)
        owed == [c \in Players |-> IF c = game.turn THEN game.pending ELSE 0]
    IN  /\ r.status = InProgress
        /\ r.board = game.board
        /\ r.turn = game.turn
        /\ <<r.quiet, r.plies, r.moves>> = <<game.quiet, game.plies, game.moves>>
        /\ <<r.drawBy, r.drawUsed, r.timeBy, r.timeUsed>>
             = <<game.drawBy, game.drawUsed, game.timeBy, game.timeUsed>>
        /\ \A c \in Players : r.remaining[c] = game.remaining[c] + owed[c]

\* The record is the game, while it lasts and when it is over.
RecordReplays == LogIsTheGame /\ FinishedGameVerifies

\* The most one clock can have been given; the two together have been given
\* InitialTime and Bonus more, since an increment goes to one of them.
Granted(g, events) == InitialTime + Increment * g.plies + Bonus(events)

Accounted(g, events) ==
  Granted(g, events) <= MaxMs =>
    InitialTime + Granted(g, events) + Bonus(events)
        - (g.remaining[Red] + g.remaining[Blue])
      = Elapsed(events) + g.pending

\* Not a millisecond is lost or invented: what the two clocks were given, less
\* what they hold, is the time the log attributes plus the time still pending
\* (record.go:32-37).  Where a clock saturates the surplus is lost, so a
\* game given enough for either clock to saturate is left out.
ElapsedAccountsForTheClocks == Accounted(game, log)

\* An ending is recorded once and last, and only of a finished game.
EndIsLast ==
  \A i \in Indices :
    log[i].kind = "end" => i = Len(log) /\ game.status = Finished

\* No player proposes a draw twice in one turn, whatever was declined or
\* refused in between (ErrDrawOfferUnavailable, game.go:28).
DrawOfferedOncePerTurn ==
  \A i, j \in Indices :
    /\ log[i].kind = "draw_offer" /\ log[j].kind = "draw_offer"
    /\ log[i].ply = log[j].ply
    => i = j

\* A standing draw offer is never stale: the offer was made after the last move
\* but one, by its proposer, and nobody has answered it since (game.go:416-420).
StandingDrawOfferIsFresh ==
  game.drawBy # None =>
    \E i \in Indices :
      /\ log[i].kind = "draw_offer" /\ log[i].player = game.drawBy
      /\ game.plies - log[i].ply <= 1
      /\ \A j \in Indices : j > i => log[j].kind # "draw_decline"

\* Read as an arbiter would, the log is in order: one ending, one draw offer a
\* turn, and no standing offer that a move or an answer has disposed of.
LogReadsRight == EndIsLast /\ DrawOfferedOncePerTurn /\ StandingDrawOfferIsFresh

\* No player asks for extra time twice in one move (ErrTimeOfferUnavailable,
\* game.go:31, and the comment on offer, game.go:455-458).
TimeOfferedOncePerMove ==
  \A i, j \in Indices :
    /\ log[i].kind = "time_offer" /\ log[j].kind = "time_offer"
    /\ log[i].player = log[j].player
    /\ log[i].ply = log[j].ply
    => i = j
=============================================================================
