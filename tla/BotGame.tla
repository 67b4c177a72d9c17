-------------------------------- MODULE BotGame --------------------------------
(***************************************************************************)
(* A practice game against a bot: frontend/src/store/botSession.ts and the *)
(* chooseMove of frontend/src/engine/bots/engine.ts.                       *)
(*                                                                         *)
(* The player acts at any time while three kinds of work run behind        *)
(* promises: the bot's turn (a search, then a pause for tempo), a hint and *)
(* the bot's answer to a draw offer.  All three are asked of the           *)
(* interactive lane in turn, as AnswerService has it, while another screen *)
(* may analyse a position on it out of turn and supersede them.            *)
(*                                                                         *)
(* A position is the line played to it.  Scores, seats asked for, the      *)
(* selected tile and the board itself are left out, and every position     *)
(* before the end has a legal move.                                        *)
(***************************************************************************)
EXTENDS Naturals, SequencesExt, FiniteSets

CONSTANTS
  Moves,     \* the moves a side may choose between
  Winning,   \* those of them that end the game on the board
  MaxPlies,  \* bound: a game this long is over on the board
  MaxJobs,   \* bound: pieces of work in flight at once
  None

ASSUME BotAssumption ==
  Winning \subseteq Moves /\ MaxPlies \in Nat /\ MaxJobs \in Nat

VARIABLES
  session,  \* botSession and botGame, None when there is no practice game
  job,      \* the work in flight, by its number
  lane,     \* the work asked of the engine, in turn
  current   \* the job each sequence counter belongs to, 0 once it has none

botVars == <<session, job, lane, current>>

Colors == {"Red", "Blue"}
Jobs == 1..MaxJobs
Games == 1..MaxJobs + 2
Counters == {"turn", "hint"}

Kinds == {"turn", "hint", "draw"}
\* "overtaken": superseded by another caller, and nothing came of it.
Phases == {"searching", "pausing", "overtaken"}
Works == [kind : Kinds, game : Games, on : Seq(Moves), phase : Phases]
NoJob == [kind |-> None]

Endings == {"board", "resignation", "draw_agreement"}
Hints == [game : Games, on : Seq(Moves)]
Sessions ==
  [game : Games, player : Colors, line : Seq(Moves),
   ended : Endings \cup {None},
   thinking : BOOLEAN, error : BOOLEAN, hint : Hints \cup {None}, hintPending : BOOLEAN,
   offered : BOOLEAN, offerUsed : BOOLEAN]

ASSUME NoneAssumption == None \notin Kinds \cup Endings /\ None \notin Sessions

InFlight == {j \in Jobs : job[j] # NoJob}

BotInit ==
  /\ session = None
  /\ job = [j \in Jobs |-> NoJob]
  /\ lane = <<>>
  /\ current = [c \in Counters |-> 0]

-----------------------------------------------------------------------------
(* The game.                                                               *)

\* FIRST_TO_MOVE is Blue.
ToMove(played) == IF Len(played) % 2 = 0 THEN "Blue" ELSE "Red"

InProgress(s) == s.ended = None
BotToMove(s) == InProgress(s) /\ ToMove(s.line) # s.player

\* applyMove: an offer is spent and a hint is put away by any move.
Moved(s, move) ==
  [s EXCEPT !.line = Append(@, move),
            !.ended = IF move \in Winning \/ Len(s.line) + 1 = MaxPlies THEN "board" ELSE None,
            !.hint = None, !.hintPending = FALSE, !.offered = FALSE, !.offerUsed = FALSE]

-----------------------------------------------------------------------------
(* The work.  What its signal stops settles as an AbortError that nobody   *)
(* acts on, so it is taken out of the lane and forgotten at once.          *)

Work == [job |-> job, lane |-> lane, current |-> current]

Without(line, stopped) == SelectSeq(line, LAMBDA j : j \notin stopped)

Stopped(w, stopped) ==
  [job |-> [j \in Jobs |-> IF j \in stopped THEN NoJob ELSE w.job[j]],
   lane |-> Without(w.lane, stopped), current |-> w.current]

\* Work that is stopped and no longer counted.
Dismissed(w, stopped) ==
  [job |-> Stopped(w, stopped).job, lane |-> Stopped(w, stopped).lane,
   current |-> [c \in Counters |-> IF w.current[c] \in stopped THEN 0 ELSE w.current[c]]]

\* Mutants: a new turn, an undo or an end leaves the work in flight alone, or
\* stops the bot's turn and not the hint.
NothingCancelled(w) == w
OnlyTheTurnCancelled(w) == Dismissed(w, {w.current["turn"]})

\* cancelBotWork.
Cancelled(w) == Dismissed(w, {w.current[c] : c \in Counters})

FreeJobs(w) == {j \in Jobs : w.job[j] = NoJob}

\* The position the work is about goes with it.
Begun(w, kind, s, phase) ==
  LET j == CHOOSE f \in FreeJobs(w) : TRUE
  IN  [job |-> [w.job EXCEPT ![j] = [kind |-> kind, game |-> s.game, on |-> s.line,
                                     phase |-> phase]],
       lane |-> IF phase = "searching" THEN Append(w.lane, j) ELSE w.lane,
       current |-> [c \in Counters |-> IF c = kind THEN j ELSE w.current[c]]]

\* A new piece of work of a kind supersedes the last.
Superseding(w, kind, s, phase) == Begun(Stopped(w, {w.current[kind]}), kind, s, phase)

Does(s, w) ==
  /\ session' = s /\ job' = w.job /\ lane' = w.lane /\ current' = w.current

\* Mutant: the bot does not open the game.
ContinueAfterTheFirst(s, w) ==
  IF ~BotToMove(s) \/ s.line = <<>> THEN Does(s, w)
  ELSE Does([s EXCEPT !.thinking = TRUE, !.error = FALSE],
            Superseding(w, "turn", s, "searching"))

\* runBotTurn: nothing unless the bot is to move.  A bot that rolls a random
\* move does not search.
Continue(s, w) ==
  IF ~BotToMove(s) THEN Does(s, w)
  ELSE \E phase \in {"searching", "pausing"} :
         Does([s EXCEPT !.thinking = TRUE, !.error = FALSE], Superseding(w, "turn", s, phase))

\* Room for what a step may begin.
Room == Cardinality(InFlight) < MaxJobs

-----------------------------------------------------------------------------
(* The player's side.                                                      *)

\* The game being played and those a draw is still being searched for keep
\* their numbers.
NewGame ==
  CHOOSE g \in Games :
    /\ session # None => session.game # g
    /\ \A j \in InFlight : job[j].game # g

\* startBotGame, and restartBotGame, which only settles its arguments.
StartBotGame(player) ==
  LET s == [game |-> NewGame, player |-> player, line |-> <<>>, ended |-> None,
            thinking |-> FALSE, error |-> FALSE, hint |-> None, hintPending |-> FALSE,
            offered |-> FALSE, offerUsed |-> FALSE]
  IN  Room /\ Continue(s, Cancelled(Work))

\* botMovePiece and botSelectTile, with a legal move.
BotMovePiece(move) ==
  /\ session # None /\ Room
  /\ InProgress(session) /\ ~BotToMove(session)
  /\ Continue(Moved(session, move), Work)

\* Back to the player's own turn, or to the opening where there is none.
TakenBack(s) ==
  LET back == {n \in 0..Len(s.line) - 1 :
                 n = 0 \/ ToMove(SubSeq(s.line, 1, n)) = s.player}
  IN  SubSeq(s.line, 1, CHOOSE n \in back : \A m \in back : m <= n)

\* undoBotMove, of a finished game too.
UndoBotMove ==
  /\ session # None /\ session.line # <<>> /\ Room
  /\ Continue([session EXCEPT !.line = TakenBack(session), !.ended = None,
                              !.thinking = FALSE, !.error = FALSE,
                              !.hint = None, !.hintPending = FALSE,
                              !.offered = FALSE, !.offerUsed = FALSE],
              Cancelled(Work))

\* requestBotHint: a hint that shows is put away instead.
RequestBotHint ==
  /\ session # None /\ InProgress(session) /\ ~BotToMove(session)
  /\ \/ /\ session.hint # None
        /\ Does([session EXCEPT !.hint = None], Work)
     \/ /\ session.hint = None /\ Room
        /\ Does([session EXCEPT !.hintPending = TRUE, !.error = FALSE],
                Superseding(Work, "hint", session, "searching"))

\* offerBotDraw, up to its search, which has no signal.
OfferBotDraw ==
  /\ session # None /\ InProgress(session) /\ ~session.offerUsed /\ Room
  /\ Does([session EXCEPT !.offered = TRUE, !.offerUsed = TRUE],
          Begun(Work, "draw", session, "searching"))

\* Mutant: the board goes on waiting.
FinishedStillWaiting(s, how) == [s EXCEPT !.ended = how, !.offered = FALSE, !.hint = None]

\* finish.
Finished(s, how) ==
  [s EXCEPT !.ended = how, !.thinking = FALSE, !.offered = FALSE,
            !.hint = None, !.hintPending = FALSE]

ResignBotGame ==
  /\ session # None /\ InProgress(session)
  /\ Does(Finished(session, "resignation"), Cancelled(Work))

\* endBotSession, by the player or because a server game was found.
EndBotSession ==
  /\ session # None
  /\ Does(None, Cancelled(Work))

-----------------------------------------------------------------------------
(* The promises.                                                           *)

Over(j) == Dismissed(Work, {j})

\* Another caller's analyzePosition supersedes the question being answered.  Its
\* AbortError is taken for one of the bot's own: nobody acts on it.
TakenOver(j) ==
  /\ job[j].kind \in Counters
  /\ session' = session /\ current' = current
  /\ lane' = Tail(lane) /\ job' = [job EXCEPT ![j].phase = "overtaken"]

\* The search of a turn ends in any other way, well or badly; the bot has chosen
\* all the same and waits out its tempo.
TurnSearched(j) ==
  /\ job[j].kind = "turn"
  /\ session' = session /\ current' = current
  /\ lane' = Tail(lane) /\ job' = [job EXCEPT ![j].phase = "pausing"]

\* The answer is to the question asked last, and there is a game to show it in.
StillAsked(j, kind) == current[kind] = j /\ session # None

HintAnswered(j) ==
  /\ job[j].kind = "hint"
  /\ IF ~StillAsked(j, "hint") THEN Does(session, Over(j))
     ELSE \/ Does([session EXCEPT !.hintPending = FALSE,
                                  !.hint = [game |-> job[j].game, on |-> job[j].on]], Over(j))
          \/ Does([session EXCEPT !.hintPending = FALSE, !.error = TRUE], Over(j))

\* Mutant: the offer is answered in whatever game is on.
AnyGameOn(j) == session # None /\ InProgress(session)

SameGameOn(j) == session # None /\ session.game = job[j].game /\ InProgress(session)

DrawAnswered(j) ==
  /\ job[j].kind = "draw"
  /\ IF ~SameGameOn(j) THEN Does(session, Over(j))
     ELSE \/ Does(Finished(session, "draw_agreement"), Cancelled(Over(j)))
          \/ Does([session EXCEPT !.offered = FALSE], Over(j))

Overtaken == \E j \in Jobs : lane # <<>> /\ j = Head(lane) /\ TakenOver(j)

Answered ==
  \E j \in Jobs :
    /\ lane # <<>> /\ j = Head(lane)
    /\ TurnSearched(j) \/ HintAnswered(j) \/ DrawAnswered(j)

\* The pause is over and the bot plays.
BotPlays(j) ==
  /\ j \in InFlight /\ job[j].phase = "pausing"
  /\ IF ~StillAsked(j, "turn") THEN Does(session, Over(j))
     ELSE \E move \in Moves :
            Does(Moved([session EXCEPT !.thinking = FALSE], move), Over(j))

BotNext ==
  \/ \E player \in Colors : StartBotGame(player)
  \/ \E move \in Moves : BotMovePiece(move)
  \/ UndoBotMove \/ RequestBotHint \/ OfferBotDraw \/ ResignBotGame \/ EndBotSession
  \/ Answered \/ Overtaken
  \/ \E j \in Jobs : BotPlays(j)

\* Every question to the lane is settled and timers fire; nobody has to supersede.
BotFairness == WF_botVars(Answered) /\ \A j \in Jobs : WF_botVars(BotPlays(j))

BotSpec == BotInit /\ [][BotNext]_botVars /\ BotFairness

-----------------------------------------------------------------------------
(* Properties.                                                             *)

\* The session, the work and the lane keep their types.
BotTypeOK ==
  /\ session \in Sessions \cup {None}
  /\ session # None => Len(session.line) <= MaxPlies
  /\ job \in [Jobs -> Works \cup {NoJob}]
  /\ IsInjective(lane)
  /\ ToSet(lane) = {j \in InFlight : job[j].phase = "searching"}
  /\ \A c \in Counters : current[c] # 0 => current[c] \in InFlight /\ job[current[c]].kind = c

\* The bot's turn in flight is about the position on the board, whatever was
\* undone, resigned or restarted while it was being searched: no reply to one
\* position is ever played in another (botSession.ts:98-105, 333).
TurnIsOfThisPosition ==
  \A j \in InFlight :
    job[j].kind = "turn" =>
      /\ session # None /\ session.game = job[j].game /\ session.line = job[j].on
      /\ BotToMove(session) /\ session.thinking

AtIt(kind, phases) ==
  /\ current[kind] \in InFlight
  /\ job[current[kind]].kind = kind /\ job[current[kind]].phase \in phases

Working(kind) == AtIt(kind, {"searching", "pausing"})
WasOvertaken(kind) == AtIt(kind, {"overtaken"})

\* What the screen says is going on is going on: it shows a bot thinking only
\* while that turn is in flight, and a hint on its way only while one is in flight
\* for the position on the board.  The one spinner with nothing behind it is that
\* of a question another caller's analysis has superseded, whose AbortError leaves
\* it on (botSession.ts:328-329, 580-581).
SpinnersAreBacked ==
  session # None =>
    /\ session.thinking => Working("turn") \/ WasOvertaken("turn")
    /\ session.hintPending =>
         /\ Working("hint") \/ WasOvertaken("hint")
         /\ job[current["hint"]].on = session.line

\* A hint is about this game and a position it has been through: nothing of a
\* line taken back or of another game is ever shown.
HintIsOfTheLinePlayed ==
  session # None /\ session.hint # None =>
    session.hint.game = session.game /\ IsPrefix(session.hint.on, session.line)

\* A game only ends in a draw because a draw was offered in that very game: an
\* answer that arrives after a rematch changes nothing in it (botSession.ts:620).
DrawWasOfferedInThisGame ==
  [][session # None /\ session' # None /\ session.game = session'.game
       /\ session.ended = None /\ session'.ended = "draw_agreement" =>
       \E j \in InFlight \ InFlight' : job[j].kind = "draw" /\ job[j].game = session.game]_botVars

PlayerStartsOver == (\E player \in Colors : StartBotGame(player)) \/ UndoBotMove

\* The bot never sits on its turn, whatever the player asks of the engine
\* meanwhile: unless the player keeps starting over or taking back, or another
\* caller's analysis supersedes the bot's search, the move comes
\* (botSession.ts:309-355).
TheBotPlays ==
  \/ []<><<PlayerStartsOver>>_botVars
  \/ []<>(session = None \/ ~BotToMove(session) \/ WasOvertaken("turn"))

\* What the code does not keep once another screen analyses on the bot's lane
\* (client.ts:331-337): a spinner shows work, and the move always comes.
SpinnersShowWork ==
  session # None =>
    /\ session.thinking => Working("turn")
    /\ session.hintPending => Working("hint")
TheBotAlwaysPlays ==
  []<><<PlayerStartsOver>>_botVars \/ []<>(session = None \/ ~BotToMove(session))

\* A hint belongs to the position it was asked about (botSession.ts:296-297).
HintIsOfThisPosition ==
  session # None /\ session.hint # None => session.hint.on = session.line

\* A draw offer is spent for one move only (botSession.ts:296): a draw is agreed
\* while the offer still stands.
DrawAgreesToAStandingOffer ==
  [][session # None /\ session' # None /\ session.ended = None
       /\ session'.ended = "draw_agreement" => session.offered]_botVars
=============================================================================
