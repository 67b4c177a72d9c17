# Formal models of RPS Strategy

TLA+ models of the two programs of RPS Strategy.  Of the Go server
(`src/backend`): the game engine and the path a player takes from a click in the
lobby to a finished game.  Of the web and mobile client (`src/frontend/src`): its
own implementation of the rules, the reach tool, the lanes to the RPSFish engine,
the games against bots, the store that mirrors the server over a socket that
drops, and the alerts that call a player back to it.  TLC checks the models on small instances; TLAPS
proves theorems about them for every value of their constants.

- [1. The system](#1-the-system)
- [2. Plan](#2-plan)
- [3. Modules and how they correspond to the code](#3-modules-and-how-they-correspond-to-the-code)
- [4. Runs](#4-runs)
- [5. Fairness](#5-fairness)
- [6. Proofs](#6-proofs)
- [7. Where the code and its documents disagree](#7-where-the-code-and-its-documents-disagree)
- [8. What is not modelled](#8-what-is-not-modelled)

Paths that begin with `game/`, `server/` or `persistence/` are relative to
`src/backend/internal/`, those with `engine/`, `store/` or `app/` to
`src/frontend/src/`.

## 1. The system

A single Go process serves websockets and HTTP.  Every websocket is one
goroutine that runs one command at a time (`client.go`, `Server.handleMessage`);
pairing is another goroutine (`seekBoard.Run`); one more goroutine selects over
a lobby ticker and a 100 ms clock ticker (`Server.Run`); a moderator's desk and
a deploy arrive over HTTP on goroutines of their own.  What they share:

| component | state | operations | interacts with | hard behaviour |
|---|---|---|---|---|
| rules of play (`game/mode_*.go`, `legal_moves.go`, `starting_position.go`) | none: pure functions of a board | legal moves, a move and its verdict, stalemate | called by the game and by replay | three modes share one movement rule and differ in how they end |
| live game (`game/game.go`, `time_control.go`) | board, turn, two clocks, a draw offer, a time offer, quiet count, result, event log; its own mutex | move, four proposals and their answers, resign, abandon, adjudicate, hold the clock, settle the clock | called by sockets, the ticker and the desk | every call first settles the clock, so any call may find the game over |
| record and replay (`game/record.go`) | the event log | record, replay, verify | the archive, statistics and rating replay trust it | time is attributed to events in pieces |
| symmetries (`game/symmetry.go`, `half_turn.go`) | none | half turn, each mode's own symmetry | statistics fold positions with them | true only while the mode's win condition keeps them |
| seek board (`server/seeks.go`) | two maps, seek by ID and seek by owner; a mutex of its own, and one per seek | post, claim, remove, expire, pair, detach, rebind | lobby commands, sockets, pairing, tickers | two maps kept in step; a claim must have one winner |
| challenges and queue (`server/challenge.go`) | none of its own | join, post, withdraw, decline, accept, expire | seek board, sessions | checks are made under one lock and acted on under another |
| queue presence (`server/queue_presence.go`) | which socket a seek has, when it runs out | rebind on connect, release on disconnect | sockets, seek board, push | a dead socket must not keep a place in the queue |
| escrow of an unbegun game (`server/match_start.go`) | the two seeks a game was made of, held until its first move | seat, begin, abort, no-show sweep, call off, discard, requeue | all of the above | four callers may call off one game |
| sessions and sockets (`server/server.go`, `client.go`) | live games, who sits where (twice: per socket and per game), when each seat emptied | connect, disconnect, rejoin, start, move, resign, finish, retire, expire | everything | a socket chosen under one lock is seated two locks later |
| update drain (`server/deploy_drain.go`) | draining or not | begin, sweep, cancel, settle | pairing, starting, the deploy script | a game may be between two locks while the one sweep runs |
| moderator desk (`server/admin_live.go`) | none | stop a game: call off, adjudicate or void | sessions, game | races the players |
| challenge links (`server/challenge_link.go`) | a link and its claim | create, claim, close, sweep | sessions, escrow | one claim, many visitors |
| tournaments (`server/tournament_*.go`, `persistence/tournament*.go`) | rounds, readiness, standings | ready, claim a match, report, advance | sessions, seek board | a match claimed twice, a result reported twice |
| engines, series, ladder, weekend (`server/bot_*.go`, `ladder_*.go`, `weekend.go`) | connections and their slots, series and held pairings | pair, advance, pause, recall, shut down | sessions, tickers | a drain that waits for commitments that change |
| ratings (`persistence/rating*.go`) | Glicko ratings per mode | rate a game, replay the archive | finishSession | the order of games matters |
| match alerts (`store/push.ts`, `pushNative.ts`, `localIdentity.ts`; `server/push_routes.go`, `persistence/push.go`) | status and endpoint of the store, the address the browser or phone remembers; the server's rows, one per address | look, turn on, turn off; save, forget, prune | the permission and address of the platform, sign-in and sign-out, queue presence | every operation awaits the platform or the server, and several are out at once |
| accounts, chat, archive, openings, notation | mostly the database | request handlers | SQL | little shared memory |
| client: rules of play (`engine/analysisGame.ts`, `goals.ts`, `modeRules.ts`) | none: pure functions of a game record | legal moves, a move and its ending, today's goals and those of older records | bot games, analysis boards, replayed archives | a second implementation, in another language, that nothing compares with the first |
| client: reach tool and racer (`engine/reach.ts`, `racer.ts`) | none | distance and threat maps, the safe run, the verdict; the racer's move | the analysis board; a bot that searches nothing | one breadth-first walk stands for all walks of an opponent that moves in between |
| client: engine lanes (`engine/rpsfish/client.ts`, `session.ts`, `nativeSession.ts`) | per lane a worker, the promises pending on it and a queue; per host the request it serves; per engine its module, its history, its table and who waits for it | ask, abort, time out, crash, restart, load, yield, search | analysis, reviews and bots ask; on a phone both lanes share one engine | abandoned walks go on until they look whether they are still wanted; a browser has no lock, and what asks while the module loads goes on in turns |
| client: bot games (`store/botSession.ts`) | the session and its board; a sequence number and an abort controller per kind of work | start, move, take back, hint, draw offer, resign, end; the bot's turn, a hint and an answer settle later | the interactive lane, which an analysis board may take over; the lobby store, which drops the session for a real game | an answer to a position that is no longer there; a question that another screen has taken |
| client: lobby store (`store/gameStore.ts`, `app/_layout.tsx`, `app/watch.tsx`) | connection, search, board and how it is held, what it has asked for, what the browser remembers | press, receive, connect, drop, reload | the server over one socket; the bot session | a mirror that is changed at once and corrected later |
| client: the rest (screens, queries, notation, reviews, puzzles) | what one screen shows | drawing, one-shot requests | the parts above | little |

What makes each correct, in one line each:

- **rules, symmetries**: a mode's declared symmetry maps legal moves to legal
  moves and verdicts to verdicts.
- **live game**: exactly one side pays for time; every ending is final, clears
  the clock and every proposal; a game in progress can be played; it ends.
- **record**: the log alone rebuilds the game, clocks to the millisecond.
- **seek board**: nobody waits in two places.
- **challenges, escrow**: a seek taken off the board is in exactly one place
  until it is settled, and only reaches the seats it asked for.
- **sessions**: the two records of who sits where agree; a seat is timed from the
  moment it is left; every game leaves the list.
- **presence**: somebody is behind every seek.
- **drain, desk**: calling a game off is safe beside everything its players do.
- **client rules**: the same moves and the same endings as the server's.
- **reach, racer**: a run drawn as safe survives the defence it was drawn against.
- **engine lanes**: every question is settled once, in turn, and every search
  somebody waits for runs under the game it was asked about.
- **bot games**: a late answer never touches a position it was not about.
- **match alerts**: a device that was turned off is not summoned, and one look puts
  right what the network or a sign-in left wrong.
- **lobby store**: once everything sent has been read, the screen says what the
  server holds.

`PROJECT.json` lists every component with its sources and status, and every
hazard with its line and the properties that would catch it.

## 2. Plan

Order of work: what decides a player's game first.

| # | module | extends / composes | state |
|---|---|---|---|
| 1 | `Rules` | - | done |
| 2 | `Game` | `Rules` | done |
| 3 | `GameRecord`, `GameSymmetry`, `GameProofs` | `Game`; the proofs are of all three | done |
| 4 | `SeekBoard`, `SeekBoardProofs` | - | done |
| 5 | `Lobby`, `LobbyProofs` | instance of `SeekBoard`, and of its proofs, over its own maps | done |
| 6 | `ClientRules`, `Reach`, `Racer`, `RaceBoard`, `RaceBoardProofs` | each extends the one before, `ClientRules` extends `Rules`; `RaceBoard` has an instance of `Game` to compare with | done |
| 7 | `AnswerService`, an abstract specification of the lanes; `EngineLane`, `EngineLaneProofs` | `EngineLane` implements `AnswerService`: a PROPERTY through a refinement mapping, and a theorem | done |
| 8 | `BotGame`, `BotGameProofs` | takes the interactive lane as `AnswerService` describes it: other callers may go straight in | done |
| 9 | `ClientStore`, `ClientStoreProofs` | the client, its socket, and as much of the server as answers it | done |
| 10 | `Alerts`, `AlertsProofs` | one device, and the server's table as it sees it | done |
| 11 | `Matchmaking`, an abstract specification: what becomes of a seek | `Lobby` implements it: a PROPERTY through a refinement mapping, and a theorem of `LobbyProofs` | done |
| 12 | `Pairing`: `SearchRange` and the greedy choice of partners, against a reference definition | - | planned |
| 13 | `ChallengeLink`: claim, close, sweep | the escrow of `Lobby` | planned |
| 14 | `UpdateDrain`, `BotShutdown`: when the process, or an engine, may go | - | planned |
| 15 | `Tournament`: readiness, the claim of a match, reporting; formats as functions | - | planned |
| 16 | `BotSeries`, `LadderPool`: pairs of games, held pairings | - | planned |
| 17 | rating order and replay, rate limits, rooms and spectators | - | planned |

Abstract specifications worth stating next: a game as
"somebody to move, until there is a result" refined by `Game`; a tournament match
as "at most one result" refined by `Tournament`.

Theorems worth proving after those of section 6: that the greedy pairing of row
12 is a matching and no later proposal beats it; that a match of a tournament has
at most one result.

## 3. Modules and how they correspond to the code

### `Rules`: movement, capture, the three modes

Pure operators over a board, a function from squares `<<x, y>>` to tiles
`[occupant, owner, ground]`.  `Width`, `Height`, `Modes` and `Layout` (the
starting position of each mode) are constants; the assumptions ask only what
the code's validation asks.  `Verdict` is the tail of the three `Move` methods
in the order the code tests them: Infiltration's goal rank, Intransitive's goal
corner, Total War's territory once nothing can be taken, annihilation in all
three.  `Claimed` is Total War's painting of the ground.

### `Game`: one game

One variable, the record `game`, whose fields are those of the Go struct:
`board, turn, status, winner, reason`, `remaining` and `lag` (the time since
`lastMoveAt`), `active` (the clock a screen counts down), `clockPending` (a
clock that starts with the first move), `drawOfferedBy`, `drawOfferUsed`, their
counterparts for time, `quiet`, `moves`, `plies`, and `pending`, the time not
yet attributed to a recorded event.  `emitted` holds the events of the last
call; `GameRecord` collects them.

A method is `operator(UpdateClock(game), ...)`, as in the code, where every
method locks, calls `updateClockLocked` and then tests `Status`.  So each action
may itself be the one that finds the flag fallen, and then does nothing more.
`TimePasses` moves time without any call; `Settle` is every reader of the game
(`Snapshot`, the 100 ms `expireGames`).  Times are small integers: `MaxMs` is
the code's `math.MaxInt64`, at which `AddMs` saturates, and `MaxLag` bounds how
long silence lasts between calls.

### `GameRecord`: the log and its replay

Extends `Game` with `log`.  `Replay(mode, events)`, a recursive function along
the log so that it can be proved about, applies `ApplyRecordedEvent`
to a new game with the clock driven by the events' elapsed times, exactly as
`ReplayWithRegistry` does: it goes through the same operators of `Game`.
`Verify` compares final states with the fields `compareFinalStates` compares.

### `GameSymmetry`: the half turn and each mode's symmetry

Maps of squares and boards, and two invariants that at every reachable position
compare each legal move, its successor and its verdict with those of the mapped
position.

### `SeekBoard`: two maps

`byID` and `byOwner` and the operations that write them.  The module knows
nothing of sockets or games, so that it can be proved about, and `Lobby`
instantiates it over its own variables.

### `Matchmaking`: what becomes of a seek

The abstract specification of the lobby.  One variable, the fate of each seek:
unmade, waiting, matched with another, held by a game nobody has moved in, moved
in, returning, or gone.  No locks, threads, sockets or sessions.  `Lobby`
implements it under the mapping `FateOf`, which reads a seek's fate off the board,
the agendas and the escrows, and calls a seek found in two of them torn, which no
step of `Matchmaking` leads to.  A run checks it on small lobbies and a theorem
proves it for every lobby.

### `Lobby`: from a click to a game

The server's shared state sits behind three kinds of lock, `seekBoard.mu`, one
mutex per seek, and `Server.mu`, and the modelled paths take them one after
another.  A thread (`Clients`, the pairing goroutine, the ticker, the
moderator, the deploy) is therefore an **agenda**: the sequence of critical
sections it still has to run.  A command checks its early returns and puts the
rest of the handler on the agenda; every step is an action, and every other
thread may run between two of them.

| variable | code |
|---|---|
| `conn` | a socket: not yet connected, in the hub, past `readPump`, past `disconnect`'s section and not yet out of the hub, gone |
| `seeks` | every `Seek` made; its position is `JoinedAt`, `timed` is "`ExpiresAt` is set" |
| `byID`, `byOwner` | the seek board |
| `sessions` | every `GameSession`: seats (`start.seats`), `redClient`/`blueClient`, `absent` (when a seat emptied), `escrow` (`session.start`: held, claimed by a caller, nil), the game as far as it matters (turn, moved, end), on the list or not, archived or not |
| `participants` | `Server.participants` |
| `agenda` | the program counters |
| `updating` | the update drain |

| path in the code | actions |
|---|---|
| `joinQueue`, `sendChallenge` -> `postSeek` | `JoinQueue`, `SendChallenge`; `PostSeek` |
| `leaveQueue`, `cancelChallenge`; `declineChallenge` | `Withdraw`; `Decline` |
| `acceptChallenge` -> `startAcceptedChallenge` | `Accept`; `Dispose` or `ClaimSeek`; then as below |
| `pair` -> `startPairedMatch` | `PairTick`, `Pair`; then as below |
| `seatMatch` -> `startConfiguredMatch` | `ResolveSeats`, `Release` per socket, `OpenGame`, `InstallGame`, or `Requeue` per seat |
| register, `rebindSeek` | `Connect`, `Rebind` |
| `readPump` ends, `disconnect`, unregister | `Drop`; `Detach`, `Shelter`; `Unseat` (a socket that is closing) and `Unregister` (one that is leaving), each a step that any thread may come before |
| `abortGame`, `expireUnstartedGames`, `stopGame`, `BeginUpdateDrain` | `Abort`, `SweepUnstarted`, `StopUnbegun`, `BeginUpdateDrain` and `DrainSweep`; then `ReadMover`, `CallOffUnstarted`, `Discard`, `Requeue` per seat |
| `makeMove`, `matchBegan` | `MakeMove`; `PlayMove`, `MatchBegan`, `FinishSession` |
| `resign`, `expireGames` | `Resign`, `PlayResign`; `ClockEnds`, `NobodyCameBack`, `AbandonGame`; `FinishSession`, `Retire` |
| `rejoinGame` | `RejoinGame` |
| `expireChallenges` | `ExpireChallenges` |

Deadlines are nondeterministic: wherever the code compares a time with now, the
model allows either answer, so every race between a deadline and an answer is
explored.  Which of several fitting partners pairing picks, and how far the
rating band has widened, is left open too; a property that holds here holds for
any choice.

Coarsenings, each of which merges sections without a write of another thread's
that the properties could tell apart: reading the seek of a socket and binding
or detaching it is one step; the reads of several locks inside one check are
one step; a second caller of `finishSession` returns at once instead of waiting
inside `closeOnce`.

### `ClientRules`: the rules in the browser

Read off the TypeScript alone: `applyAnalysisMove`, `validMovesFor`, the two eras
of goals, the endings in the order `analysisGame.ts` tests them.  From `Rules` it
takes only the board, its squares and the names, so that the two sets of rules
can disagree; `RaceBoard` compares them.

### `Reach`, `Racer`: the reach tool and the racer

Pure operators.  `reachMap` and `threatMap` are the breadth-first walks of
`reach.ts`; `safeRun` is its walk that is cut off where a threat arrives in
time, under either safety rule; `judge` is the verdict.  `Racer` scores a move
by the race it leaves and one reply.  The walks, which the code writes as loops
over a frontier, are recursive functions: the map, or the layer of walks, after so
many steps.

### `RaceBoard`: a board the reach tool is open on

Variables: where the board came from, the game on it, and the run being played
out.  `Play` moves by the client's rules; `DrawRun` draws one of the runs the tool
may draw; `RunOn`, `Intercept` and `WaitElsewhere` play it out against the
defence that `docs/reach.md` says the tool assumes.

### `AnswerService` and `EngineLane`: questions to the engine

`AnswerService` says what a caller of `client.ts` may count on: settled once, in
turn among those that queue, and cancelled by nobody else on a lane that
everybody queues for.  `EngineLane` is the code on both sides of the message
channel:

| variable | code |
|---|---|
| `stage`, `queue`, `aborted` | the promises of a lane, its queue, the callers' signals |
| `worker`, `on` | the lane's worker and the one each request was posted to |
| `toWorker`, `toClient` | messages posted and not delivered |
| `active`, `walk` | `activeRequestId` of each host, and how far each walk of searches has come |
| `turns` | the walks that have called for an engine: behind the lock on a phone; in a browser behind the promise of `loadEngine` and then in rotation |
| `engine` | per engine: its module (absent, loaded, failed), history and table, and what the session believes of them (`warmHistory`, `warmSearch`) |

In a browser each worker has an engine of its own and dies with the work in it.
On a phone `nativeSession.ts` drives one engine for both lanes: a session that is
replaced leaves its walks running, and the lock is all that keeps them apart.
Both are behaviours of one specification (`Platforms`).

A browser has no lock (`withoutLock`, `session.ts:104`).  Each call of its engine
awaits `loadEngine` (`worker/index.ts:39-71`) and then runs at once.  So a worker
that has its module finishes a search before it takes its next message
(`AtRest`), but one that is still loading takes every message it is sent.  The
walks begun meanwhile wait for one promise; when it settles (`LoadEnds`) they go on
in rotation, each making its first call before any makes its second.  `StandOn`,
`HistoryRefused`, `CallFails`, `Search` and `SearchFails` are the calls of one
search: the table and the history are one step, because a rotation brings every
walk through them before it brings any to its search, and what a rotation leaves
of the history is what the last one set.

The engine may refuse a position of a history, having taken those before it
(`HistoryRefused`), or the position to be searched, and a call may be rejected
(`CallFails`, `SearchFails`); the host posts the error (`Fails`).  Two fields are
history: `spoiled`, the engine has refused a position and no history has been set
whole since; `mixed`, several walks waited for the module and the table has not
been cleared by one of them alone since.

On a phone a message is a function call.  `InCall` says one is on its way, and it
is handled before anything else happens.

### `BotGame`: a game against a bot

`session` is `botSession` with its board, `job` the three kinds of work in flight
(a turn, a hint, an answer to a draw offer), each with the position it was asked
about, `lane` their order in the interactive lane, `current` the sequence
counters.  An aborted piece of work settles as an `AbortError` that nobody acts
on, so it is forgotten at once.  `Answered` is the engine answering the first in
the lane, `BotPlays` the end of the pause that gives a bot its tempo.  `Overtaken`
is somebody else's `analyzePosition` superseding the question being answered
(`client.ts:194`, `:331`): `runBotTurn` and `requestBotHint` return on that
`AbortError` too, so the work stays where it is, `overtaken`, with the spinner on,
until the player stops it.

### `ClientStore`: the store and its socket

`client` is the lobby slice of `gameStore.ts` with what `localStorage` keeps and
which page is open; `server` is what the server holds of this player; `up` and
`down` are the socket, in order until it drops with everything in it.  A press
changes the store and sends, as the store does; each message is handled as
`handleServerMessage` does, with everything it sends in turn; the rules of
`app/_layout.tsx` run before the next press.  The server's replies are those of
`server/server.go` and `challenge.go`, with every refusal it may give.  `taken` is
history: the board of the player's own game was taken off the screen by a message
about something else (`TakenFor`), which section 7 comes back to.

### `Alerts`: one device and the addresses the server holds for it

`device` is what the platform knows (the build, the permission, the live address),
`store` the status and endpoint of `usePushStore`, `known` the address in
`localStorage`, `who` the guest of this device and the account signed in to,
`rows` the table `push_subscriptions`.  `detect`, `enable` and `disable` are async
functions, so each is a call in a slot of `calls`, a record of what it is and
what it waits for.  The platform or the server answers in one step and the call
runs on to its next `await` in another, so that another call, a sign-in, a
change in Settings or a restart can come between any two.

| code | actions |
|---|---|
| `detect` (`detectDevice`, `refreshRegistration`, `withdrawRegistration`) | `Look`; `PermissionKnown`, `AddressKnown`, `Posted`, `Withdrawn`, `Threw` |
| `enable` (`enableDevice`) | `Enable`; `PermissionKnown`, `AddressKnown`, `Posted`, `Threw` |
| `disable` | `Disable`; `Unsubscribed`, `Withdrawn`, `Threw` |
| the platform | `AnswerPermission`, `AnswerPrompt`, `AnswerAddress`, `AnswerSubscribe`, `RefuseSubscribe`, `AnswerUnsubscribe`; `Rotate`, `ChangePermission` |
| `subscribeToPush`, `registerPushDevice`; `forgetPushAddress` | `Save`; `FindOwn`, then `Delete`; `Refuse` for a session that has ended |
| the network | `Lose` |
| `adoptSession`, `clearSession`; a page closed or an app killed; `pushSender.forget` | `SignIn`, `SignOut`; `Close`; `Prune` |

`consent` is history: what the player last pressed, and whether a turning off
went through by itself.  `clean` marks a call with which nothing interfered.

### MC modules

`MCGame`, `MCGameRecord` extend the specifications with the boards of
`MCBoards`; `MCSeekBoard` and `MCLobby` name people, tabs, setups and, per run,
what each thread may be asked to do (`Requests`).

Definitions marked `Mutant:` stand just before the definition they vary.  No
specification uses them; each is the small bug that a property of a run catches
(`mutants` in `PROJECT.json`).

## 4. Runs

| run | module | shows | distinct states |
|---|---|---|---|
| `game_modes` | `MCGame` | the half turn and each mode's symmetry play the same game in all three modes; every game ends | 170 thousand |
| `record` | `MCGameRecord` | playability, finality and who pays, over moves, proposals, endings, held clocks and silence; the log replays into the game at every moment and reads as an arbiter would read it | 64 thousand |
| `seek_board` | `MCSeekBoard` | the two maps agree | 256 |
| `lobby_seats` | `MCLobby` | one person's two tabs against one opponent, queueing, dropping, rejoining, aborting, resigning | 811 thousand |
| `lobby_challenge` | `MCLobby` | three people, open and private games, each side preference | 308 thousand |
| `lobby_desk` | `MCLobby` | moderator, deploy and sweep beside moves, aborts, departures and acceptances, with a second game after the first is called off; that `Lobby` implements `Matchmaking` | 190 thousand |
| `lobby_fair` | `MCLobby` | liveness with a player who may fall silent or leave | 13 thousand |
| `reach` | `MCRaceBoard` | the client's rules against the server's, and drawn runs against every defence | 127 thousand |
| `engine` | `MCEngineLane` | questions asked, aborted, timed out, refused and superseded, workers that load, fail to and crash; that the lanes implement `AnswerService`; liveness | 451 thousand |
| `bot_game` | `MCBotGame` | three moves a game, three pieces of work at once, everything a player may press, another screen that takes a search; liveness | 114 thousand |
| `client_store` | `MCClientStore` | one client, two modes, a game of its own and one of others, drops and reloads; liveness | 430 thousand |
| `alerts` | `MCAlerts` | two looks, enables or disables out together, on a browser and on a phone, with lost requests, sign-ins, restarts, permissions and addresses that change | 4.0 million |

What the properties say:

- `InProgressIsPlayable`: a game in progress has time on both clocks, a legal
  move for the side to move, and a quiet count below its limit.  Broken by any
  ending that is noticed a call too late.
- `FinishedIsFinal`, `OnlyTheMoverPays`: the result and the clocks, against every
  way of ending a game.  `ActiveClockIsMover` and `NoOfferOutlivesTheGame`, the
  clock a screen counts down and the proposals it shows, are proved and in no
  run.
- `SymmetriesPlayTheSameGame`: what the archive and the statistics assume of a
  mode, `HalfTurnPlaysTheSameGame` and `ModeSymmetryPlaysTheSameGame`.
- `RecordReplays`: a finished game's log verifies (the adjudicated game is
  excepted, see section 7), and at every earlier moment the log is the game;
  `ElapsedAccountsForTheClocks` accounts for every millisecond; `LogReadsRight`
  reads the log as an arbiter would: the end is last, one draw offer a turn, a
  standing offer is fresh.
- `OneWaitEach`: the two maps of the board say the same thing.
- `ASeekIsInOnePlace`: on the board, in one thread's hands, or in one escrow.
- `LobbyKeepsItsMatches`: the refinement.  It says where a seek may go next, and
  that the two seeks of a match go together: a paired match that comes to nothing
  costs at most the one to blame their wait.
- `ParticipantIsSeated`: `participants` and the sessions say the same thing.
- `SeatsAreTimedAsTheyAreLeft`: a seat is `Kept` while `participants` gives it to a
  socket whose `disconnect` is still to come.  A kept seat is not being timed, so
  nobody who is there can be forfeited, and the step that ends the keeping starts
  the clock of a game that goes on, be it a drop or another tab put in its place.
  It says nothing of a seat that was never kept (a socket lost before it was
  seated) and excepts the seats of a socket put in two games: section 7.
- `EveryGameIsAsAskedFor`: private games stay private and every seat is the one
  asked for.
- `ClientPlaysTheServersRules`, `OlderEraIsTheBoardTurnedOver`: one game in two
  languages, and one game under two eras of goals.
- `OneWalkFindsTheRun`, `VerdictIsTheFirstHome`, `QuietRunIsNeverCaught`,
  `RacerSeesTheEndOfTheRace`: the reach tool and the racer against a definition
  that does not take their short cuts, and against play.
- `EngineStandsWhereItSearches`, `TableIsOfOneLine`, `PendingIsOnTheWorker`: what
  a search may never run under, and that nobody waits for a worker that is gone.
  The first is of any search on a phone, whose table serves both lanes, and in a
  browser of the one that will be answered: the question that supersedes another
  while the module loads calls last, so the history the rotation leaves is its own.
  It excepts an engine that is `spoiled`, the second one that is `mixed`; section 7
  says what the code does there.
- `LanesServeTheirCallers`: the refinement.
- `TurnIsOfThisPosition`, `SpinnersAreBacked`, `HintIsOfTheLinePlayed`,
  `DrawWasOfferedInThisGame`: late answers.  `SpinnersAreBacked` and `TheBotPlays`
  except one thing, a question that another screen's analysis has taken.
- `ShownSearchIsHeld`, `SeatIsOnTheBoard`, `WatchingIsOfThePage`: the mirror and
  what it mirrors, once everything sent has been read.  Each is as strong as the
  code is: what it excepts is in section 7.
- `OffStaysOff`, `EnablingIsUnderWay`, `ALookSettles`: no look turns alerts on for
  a player who turned them off; no enable leaves the store where every look
  stands aside; and the store, the address remembered and the server's row agree
  after one look that nothing disturbs, whatever went before it.
- `EveryGameEnds`, `EveryGameLeavesTheLobby`, `EverySeekInHandIsSettled`,
  `EveryQuestionIsSettled`, `TheBotPlays`, `RejoiningIsAnswered`,
  `HeldSearchIsShown`: liveness.

Each module also states its type invariant.  `TypeOK`, `BoardTypeOK`,
`AlertsTypeOK`, `LobbyTypeOK`, `LaneTypeOK` and `StoreTypeOK` are proved.  They,
`RaceTypeOK` and `BotTypeOK` hold on the instances of their modules' runs and are
left out of the configurations, where they would say less than the properties
there: name one under `INVARIANTS` to check it again.

### Bounds, and why they are enough

- Boards of games are 3 x 3, the smallest the code accepts: goal ranks, goal
  corners and all four directions from the middle are distinct there.
  `game_modes` uses two pieces a side (a capture, an annihilation, painted ground
  and a blocked move all occur) and, for Intransitive, a board one ply from
  stalemate.
- `reach` has boards of 3 x 4, so that a run has a middle in which it can be cut
  off; three plies from boards next to each kind of ending for the comparison of
  the rules; and for the runs every place of the runner, of one or two hunters,
  and of one further piece in the way.  The run is drawn with the obstacles as
  they stand, under both safety rules.
- Clocks of 2 or 3 units with steps of 1 or 2 let a flag fall exactly on zero
  and past it; `MaxMs` 5 lets increments and extensions saturate; a quiet limit
  of 2 or 3 is reached within the clock.
- `MaxLag` bounds the silence between two calls, `HoldSpans` how long a clock is
  held.
- Two people and one game are what the escrow needs; two tabs are what a
  contested seat needs; three people are what a contested seek needs, two
  takers and an author.  `MaxSeeks` counts a taker's own seek.  `lobby_desk` has
  two games so that a seek given back is paired again.  In `lobby_challenge` the
  three people are interchangeable and each has one tab, so `MCAlike`, which
  moves a tab with its owner, is a sound symmetry; that run checks no liveness.
- Each socket connects once, `Requests` says which commands a thread of a run
  may be given, `InitiallyOpen` which sockets have already connected: a player
  who connects again does so on another tab.
- `engine` asks up to three (`MaxAsked`) of four questions: one that goes
  straight in, three that queue, over both lanes; two reviews where the second
  goes on where the first was, and questions of different lines, so that history
  and table are extended, kept and replaced.  Three workers (`MaxWorkers`) leave
  one for each lane and one more whose work nobody waits for.  Two walks that wait
  together for the module are what its loading needs.  Any position may be refused
  and any call may fail.
- `bot_game`: three plies are a move of the player, a reply and a second move, so
  undo has somewhere to go back to and a reply may end the game.  Three pieces of
  work (`MaxJobs`) are one of each kind; games are numbered apart from those that
  work in flight still belongs to.
- `client_store`: two modes let a player who searches in one ask for the other;
  two messages on their way in each direction (`MaxInFlight`) let
  any two cross; one game of the player's own and one of others let a search, a
  match, an audience and a call-off meet.  It takes a second game of the player's
  own for an answer about the first to arrive after the second was found; the
  invariants hold there too (`OwnGames = {"g1", "g2"}`, 1.3 million states, too many
  for the liveness beside them), and section 6 proves them for any number.
- `alerts`: two calls cross (two slots), on a browser and on an Android phone (an
  iPhone takes the same paths); two guests and one account are the smallest
  number with which a device can be signed in to its own guest and to another
  account and be somebody new after; two addresses let one rotate; two changes
  of the world and one lost message fall anywhere among the steps.  The slots
  are interchangeable, and the run checks no liveness, so `MCAlike` is sound.

Deadlock is not checked in the lobby runs: once the bounded seeks and games are
used up everybody may simply sit still.  Nor in `reach`, where a game or a chase
ends, nor in `engine`, where nothing is left once every question is settled.  It
is checked in the others, where something can always be asked.

## 5. Fairness

`Game.FairSpec`: weak fairness of `TimePasses` (time does not stop) and of
`Settle` (`expireGames` settles every live game ten times a second).  Nothing is
assumed of the players.  It leaves time offers out (`UnproposedNext`): two
players who keep granting each other time may play for ever, and nothing in the
code stops them.  A clock that waits for the first move
(`ClockStartsOnFirstMove`) never runs if nobody moves, and the property is stated
for clocks that run; `Lobby` covers the wait before.

`Lobby.FairSpec`: weak fairness of every step on a running goroutine's agenda
(the scheduler runs what is runnable, and no step can be disabled by another
thread once it is at the head of an agenda).  Strong fairness of
`SweepUnstarted` and of `ClockEnds` for each game: the two tickers live in one
goroutine, so a sweep is briefly impossible whenever that goroutine is inside
another sweep, but every tick calls all of them in turn.  Nothing is assumed of
people, pairing, the desk or a deploy: nobody is obliged to send anything.

`EngineLane.LaneSpec`: weak fairness of each request's timer, of the microtask
that begins the next question in a queue, and of a function call on a phone
(`InCall`), which returns.  Nothing is assumed of the engine, which may never
answer, nor of the module, which may never come: that is what the deadline is for.

`BotGame.BotSpec`: weak fairness of `Answered` (every question to a lane is
settled, which is what the run `engine` shows) and of each pause (a timer).
Nobody has to overtake.  `TheBotPlays` excepts a player who starts over or takes
back for ever, and a turn whose search was overtaken.

`ClientStore.StoreSpec`: what is sent over a socket that stays up is read, at
either end, and the lobby ticker runs.  Strong fairness at the server's end only
because the bound `MaxInFlight` can stop it for a moment again and again.
Nothing is assumed of the player, of opponents, or of the socket staying up.

## 6. Proofs

Checked by TLAPS for every board size, layout, set of modes, time control, set of
people, of tabs, of requests, of questions and of games, set of moves, amount of
work and of messages in flight and number of calls, changes and losses that
satisfies the named assumptions.

`SeekBoardProofs`

- `BoardKeepsType`: the maps keep their types.
- `BoardKeepsOneWaitEach`: `OneWaitEach` always holds.  The inductive invariant
  is `BoardTypeOK /\ OneWaitEach`.  One lemma per operation; the interesting
  one is `Post`, which must drop the seek it replaces from the other map.

`GameProofs`

- `GameKeepsType`, `GameIsPlayable`, `GameTimesTheMover`, `GameEndsItsOffers`
  are consequences of one inductive invariant, `GameInv == Sound(game)`, the
  conjunction of the type, `Playable`, `MoverIsTimed`, `NothingStands` and
  `Capped` (neither clock above `MaxMs`).  `Capped` is not a property of
  interest by itself; it is what makes the saturating `AddMs` never shrink a
  clock, without which playability would not be preserved by an increment.
- The argument follows the code's layering.  First every helper (`AddMs`,
  `FinishGame`, `MovePiece`, `ModeMove`, `CountQuietPly`,
  `AdjudicateStalemate`) is shown to return what its callers rely on; then
  `UpdateClock` is shown to keep `Sound`; then each method, which is a helper
  after `UpdateClock`; then each action of `Next`.
- `FinishedGameIsFinal` and `GameChargesTheMover` are the two action properties,
  from the same invariant.
- The record: `TheLogReadsRight`, `TheBooksBalance` and `TheRecordReplays`, for
  games of any length.  What `Replay` and `Total` compute of any log would take an
  induction over logs; but the game writes its log one call at a time, and the
  induction over its steps is enough.  `Replayable` and
  `Summable` say that there is one run along the log, `ReplayGoesOn` and
  `TotalGoesOn` that one more event carries it on.
- `Kept` is the invariant of the first: no event but the last is an end, no event
  is of a ply to come, `drawUsed` remembers the draw offer of this ply, and a
  standing offer has its event with no answer after it.  `Books` is that of the
  second: with the sums, that no clock holds more than it was granted, which is
  where an `AddMs` that saturated would break the account.
- `Shadow`, with `Follows`, is that of the third: the replay so far has the
  position and the offers of the game, is in progress as the game is, and its
  clocks hold what is pending besides.  Each call, made of the game and made of its
  shadow, leaves the two alike: `SamePlayed` for what a move comes to, one lemma
  per kind of event, and `FlagShadow` for the ending the replay finds for itself,
  when the synthetic clock runs out.  The rule flags and the deferred clock, which
  the replay does not have, are in neither `Alike` nor `Follows`; that is why they
  need not be recorded.
- The symmetries: `SymmetriesHold`.  Both relabellings are a `Symmetry`, a map of
  the squares and one of the colours that keep neighbours, goal ranks and goal
  corners (`HalfTurnIsSymmetry`, `ModeSymmetryIsSymmetry`; this is where the
  diagonal needs a square board), so there is one proof.  `Mirrors` relates two
  positions and `Reflects` two games; moves, counts of pieces and ground, verdicts,
  stalemates and the quiet count are shown to carry over one by one, and
  `ReflectionIsImage` that no field of a game is left out.

`BotGameProofs`

- `TurnStaysAtThisPosition`, `SpinnersStayBacked`, `HintStaysOnTheLinePlayed`
  are consequences of one inductive invariant, `BotInv == Sound(session, job,
  current)`.  None of the three is inductive by itself.  `Counted` ties the work
  to the sequence counters (at most one turn and one hint in flight, each the one
  its counter belongs to), which is why cancelling what the counters name cancels
  everything; `AboutThisGame` says what a turn and a hint in flight are about, a
  turn the very position, a hint one the game has been through; `Backed` is what
  the screen shows; `OnlyTurnsPause` says that what waits out a pause is a turn.
- First the operators on work (`Stopped`, `Dismissed`, `Cancelled`,
  `Superseding`) are shown to keep `Counted`, then `ContinueSound` covers
  `runBotTurn`, which ends most handlers, and `ForgottenSound` whatever settles;
  each action is one of the two after a change of the session.  `NewGameIsNew`
  is a pigeonhole: there are more numbers for games than work in flight.
- It follows that the guard of `runBotTurn` after its pause, and the one of
  `requestBotHint` after its search, never turn anything away: whatever makes a
  turn stale has aborted it.  The guard of a draw's answer, whose search has no
  signal, is needed, and `DrawsWereOffered` is the theorem that it is enough.

`AlertsProofs`

- `AlertsKeepTheirTypes`, `OffDevicesStayOff` and `EnablingEnds` follow from one
  inductive invariant, `AlertsInv`.  Neither of the last two is inductive with
  the types alone: a look in flight at a device that is off might carry an
  address, and a turning off might succeed beside a look that posts.
  `OffIsQuiet` says how far a look can come on a device that is off, and
  `CleanDisableIsAlone` what a turning off has already made true while nothing
  has interfered with it; `CallsAreStaged` says where each kind of call can be, and
  `AddressesAreIssued` that an address the device is given next is new to every
  row and every call.
- `CallMoves`, `CallEnds` and `OnlyACallMoves` cover the steps in which one call
  goes on and nothing else changes, `ChangeKeeps` the changes of the world, and
  `BeginKeeps` and `StoreKeeps` the three entries; every action is one of these
  with its own facts, and `NextKeeps` puts them together.

`LobbyProofs`

- `LobbyIsTyped`, `SeeksAreInOnePlace`, `ParticipantsAreSeated`,
  `SeatsAreTimedOnceLeft`, `GamesAreAsAskedFor` and `LobbyKeepsOneWaitEach` follow
  from one inductive invariant, `LobbyInv == SocketsInv /\ SeeksInv /\ SeatsInv /\
  AgendaInv /\ PlacesInv`.
- None of them is inductive by itself, because what a thread does was decided
  when the step was put on its agenda, and every other thread has run since.
  `AgendaInv` says of every step on every agenda, by `StepSound`, which of the
  checks it was handed cannot have gone stale: a seek that exists, a taker who is
  not its author, two seats with the right people and sides, sockets that belong to
  them, a game that was opened.  What is not in `StepSound` is what the code has
  to ask again, and does.
- `PlacesInv` is `ASeekIsInOnePlace` with its three kinds of place, board, agendas
  and escrows, told apart; `SeatsSound` is what makes a game the one asked for;
  `BoardInv` is the invariant of `SeekBoardProofs`, whose lemmas are used through
  an instance.  The number of seeks made is bounded together with those about to
  be made (`Making`), so that the bound of the model never cuts a handler short.
- First what each operator does to an agenda (a step run, steps appended), to the
  board and to a session; then one lemma per action.
- `SeatsAreTimedOnceLeft` is of states and of steps.  The first half is
  `PlayedSeatsAreNotTimed`.  For the second, `SocketsStay`: only `Unseat` makes a
  socket one whose going is over; and `PlayersStay`: only that, a rejoin or a game
  installed over the entry takes a socket out of `participants` while its game is
  live.  `UnseatTimes` is the step itself, and uses that `participants` and the
  seat name the same socket; a rejoin puts a connected socket in the same seat; and
  a game installed over the entry leaves the socket in two games, which is the
  exception.

- `LobbyImplementsMatchmaking` is the refinement: every step of the lobby, seen
  through `FateOf`, is a step of `Matchmaking` or a stutter.
- `LobbyInv` says that a seek is in one place; a fate is read off that place, so
  first come `FateInOnePlace` and what it gives for a step: a seek whose place does
  not change keeps its fate (`FateStays`), one that moves has the fate of where it
  is now (`FateNow`, `FateNext`).
- Two facts more are needed, and are `MatchInv`.  A match requeues both of its
  seeks or neither (`Even`): `Matchmaking` never lets one of a paired match go and
  leaves the other matched.  A step that reports a first move is on an agenda only
  for a game that has been moved in: without it the game that step takes out of the
  escrow could be one nobody has played, and its seeks would be used up unplayed.
- Most actions are `Calm`, they take seeks off the board and do no more, which
  `CalmLetsGo` shows to be a `LetGo` or a stutter.  The others have a lemma each:
  posting and requeueing are a `Wait`, claiming and pairing a `MatchedUp`, moving
  into a session a `Seated`, the first move a `Moved`, and a match that comes to
  nothing, when it is opened (`OpenGame`) or after (`CallOffUnstarted`), an `Off`.

`EngineLaneProofs`

- `LanesKeepType` and `PendingStaysOnTheWorker` follow from `LaneInv`, which follows
  a question through the places it may be in: queue, mailbox, host, walk and the
  answers on their way (`QueueInv`, `MailInv`, `HostInv`, `WalkInv`, `AnswersInv`).
  `PendingIsOnTheWorker` needs all of these because a stop, a crash and a
  replacement must find everybody on the worker they end.
- `TableStaysOfOneLine` and `SearchesStandInTheirGame` follow from `LaneInv` and
  `EngineInv`, what is true of each engine and of the walks that take turns on it.
  `Holder` is the walk the engine was last stood for, on a phone the first in turn
  and in a browser the last, since a call sends its walk to the end of the line;
  `WarmKnown` says that the session's keys are the holder's, `TableKnown` and
  `HistoryBelieved` what the engine holds of them while it is neither mixed nor
  spoiled.
- On a phone the lock makes the holder the one that searches (`LockKept`).  In a
  browser nothing does, and two other facts take its place.  `ModuleKept`: with the
  module there, an unmixed engine has one walk at most.  `ActiveIsLast`: the question
  that will be answered has called last, and stands only when everybody before it
  does; so when it comes to its search no other walk is left, and it is the holder.
  That is why the theorem about the history holds there of the question that will
  be answered, and of the others does not (section 7).
- `LanesImplementTheService` is the refinement of `AnswerService`, one action at a
  time.  `Settling` says what an action that settles questions, one or all of a
  worker's, has to show of the lanes to be a `Settle`; everything inside a worker
  is a stutter.

`ClientStoreProofs`

- `StoreKeepsType`, `ShownSearchesAreHeld`, `SeatsAreOnTheBoard` and
  `WatchingStaysOnThePage` follow from one inductive invariant, `StoreInv`.  The
  properties speak of the moments at which everything sent has been read; the
  invariant speaks of what is still on its way.  `SearchInv`, `SeatInv` and
  `AudienceInv`: of the messages that say anything of the search, the seat or the
  audience, the last says what the server holds.  `BoardInv` and `WatchInv`: a live
  board that the server has let go of has its ending behind it, or a question
  that brings one.  `WireInv`: `connection_ready` comes first, and what may
  cross it.
- A step is a press, a drop, reload or connect, a message read by the client, or
  the server doing or reading something.  `Pressed`, `Read` and `Served` sum up
  what each kind may change, each is shown to keep `StoreInv`, and each action is
  shown to be of its kind.
- Proving it corrected the model: a call-off is told to a player wherever they
  are, and with two games of one's own `SeatIsOnTheBoard` has the exception that
  `taken` records.

`RaceBoardProofs`

- Six theorems, one for each property of the run `reach`, and the type of the
  board.  `BoardSound` is the inductive invariant of the board: its type, a piece
  and its owner together on every square (`Manned`), the count of quiet plies below
  its limit while the game is on, and nobody home who opened from home
  (`NobodyArrived`).  Five of the six need no more of a reachable state, except
  that the racer's needs a game still on to have no winner (`StillOpen`).
- `BrowserPlaysTheServersRules` goes through the parts of a move in the order of
  the code: legal moves, the landing, the mode's verdict, the stalemate, the quiet
  plies.  One part is shown to agree at a time, and the server's game is compared
  with the browser's in the fields that can be seen.
- `OlderGamesAreTurnedOver`: turning the board over maps squares onto squares and
  steps onto steps, exchanges the two goals, and so keeps every count and verdict.
- `VerdictNamesTheFirstHome` is arithmetic over plies, once a reading is known to
  be a length or none.
- `OneWalkIsEnough`: as long as nobody is home, the layered walk has come to every
  square that a walk which may dawdle has (`NothingIsMissed`), because a square that
  is safe to enter at a step is safe at every earlier one (`EarlierIsNoWorse`).
  The first layer that is home is therefore the first step anybody could be.
- `QuietRunsAreNotCaught` needs an inductive invariant of the run,
  `ChaseSound`: every predator on the board stands on a square that the map of the
  board the run was drawn on gives it in at most the moves the enemy has made, and
  what the chase has changed is no square a predator was barred from (`Hunted`).
  `ReachMaps` shows that the map grows by at most one from a square to its
  neighbour, which is what a predator's step needs; that the run's own steps are
  safe is what the runner's needs.  `RaceTypeIsKept` comes from the same invariant.
- `RacerPlaysTheEnd`: a move scores a win exactly when it wins
  (`WinningMovesScoreMost`) and a loss exactly when it leaves the opponent a win
  (`LosingMovesScoreLeast`), because `blockedDistance` is one exactly when a step
  onto the goal row is legal (`OneMoveFromHome`, by the lemma of the one walk) and
  no difference between two readings weighs as much as a win (`LeadsAreSmall`).
- The library's induction theorems take an operator and cannot be used, so
  induction is said of sets: `SetInduction` is proved from the well-foundedness of
  the natural numbers, and `RecursionExists` from it, that for a first value and a
  step there is a function that follows them.  Each recursive function of `Reach` is
  then shown once to unfold (`SpreadUnfolds`, `LayersUnfold`, `DawdlingUnfolds`).

The assumptions are those of the modules: `BoardAssumption`, `ModeAssumption`,
`LayoutAssumption` (`Rules`), `TimeAssumption`, `LimitAssumption`,
`FlagAssumption` (`Game`), that every seek has an owner (`SeekBoard`), and
`BotAssumption` with `NoneAssumption`, that the value for "nothing" is no other
value (`BotGame`), and `AlertsAssumption`, that there is a guest and an address
and that accounts are not guests (`Alerts`); that tabs are finitely many and
belong to people, that the standard setup is one of the setups, each with a side
or none, that what a thread may be asked is a set of names, that whoever push
reaches is a person, the two bounds are numbers and the value for "nothing" is
no other value (`Lobby`); `LaneAssumption` and `WalkAssumption`, that each
question has a lane and a walk of at least one search of a line of positions
(`EngineLane`); that the bound of the log is a number (`GameRecord`);
`StoreAssumption`, that no game is both the player's own and somebody else's
(`ClientStore`); `ClientQuietAssumption` (`ClientRules`); `WeightAssumption`, that
on a board of this size no difference between two races outweighs a game won,
which nine by nine satisfies with room to spare (`Racer`); and `StartsAssumption`
with `RunChoicesAssumption`, that a board is opened on a new game whose pieces have
owners, with nobody home if it is an opening of Infiltration, and that runs are
drawn under settings the panel has (`RaceBoard`). TLC evaluates them on every run of a module that extends these.

Only model-checked: all liveness, which is out of the prover's reach:
`EveryGameEnds`, `EveryGameLeavesTheLobby`, `EverySeekInHandIsSettled`,
`EveryQuestionIsSettled`, `TheBotPlays`, `RejoiningIsAnswered`,
`HeldSearchIsShown` and `ALookSettles`.  Every safety property that a run checks
is also a theorem.

## 7. Where the code and its documents disagree

The following are stated in the modules and checked by no run.  Each is seen by
giving the named configuration the changes in brackets and the property in place
of its own.

| property | configuration | the code | what a document says |
|---|---|---|---|
| `SomebodyIsBehindEverySeek` | `lobby_desk` (`Requests <- MCWalkAwayRequests`, `MaxSessions = 1`) | `match_start.go:432`: `requeueOrRelease` asks whether the seek still names a socket; a disconnect clears that name through the board and finds nothing there while the seek is in an escrow, so a player who has left and whom push cannot reach goes back on the board | `match_start.go:429-431`: the rule "applies here exactly as it does at disconnect" |
| `SecondTabIsRefused` | `lobby_desk` (`Clients` and `InitiallyOpen` `{ann1, ann2, bob1}`, `Requests <- MCTwoGamesRequests`, `MaxSeeks = 3`, `MaxSessions = 1`) | `challenge.go:53`: `clientIsFree` asks about the socket, not the account | `challenge.go:49-51`: an unbegun game "stops a second tab joining the queue" |
| `CalledOffIsNotRecorded` | `lobby_desk` (`Requests <- MCResignRequests`, `MaxSessions = 1`) | `server.go:1797`: between the escrow being emptied and the game being forgotten a player can still resign, and the called-off game is rated and archived | `match_start.go:325-327`: "no result, no archive row, no rating" |
| `TimeOfferedOncePerMove` | `record` (`MaxMs = 6`, `MaxLag = 1`, `MaxEvents = 6`) | `game.go:498`: one field remembers who has used the time offer of this move; the opponent asking in the same move overwrites it | `game.go:456-458`: "only once per move" |
| `OwnBoardIsShown` | `client_store` | `spectate_unavailable` (`store/gameStore.ts:1362`) takes whatever is on the board off the screen; a player who searches and presses WATCH may be paired before the request is read, and the refusal, arriving after `match_found`, takes the live board away until a reconnect or a reload | `app/watch.tsx:62-66`: the board a player in a game should be looking at is theirs |
| `LeavingTakesOutOfTheGame` | `client_store` (`OtherGames = {"other", "another"}`) | the server refuses a second board without taking the socket out of the first audience, and the client, told so, forgets it was watching and never says it left; from then on `clientIsFree` (`challenge.go:52-54`) refuses its searches | `store/gameStore.ts:1761-1767`: "has to be taken out of the game they were watching" |
| `MatchTakesTheBoard` | `client_store` | `game_rejoined` (`store/gameStore.ts:1284`) does not end a bot game, as `match_found` does; the bot's next reply puts its board over the match | `store/gameStore.ts:1245-1249`: a bot game is dropped |
| `RunIsNeverCaught` | `reach` | the walk never asks about the square it starts from, and a run that captures a piece which shielded it can be recaptured | `engine/reach.ts:378`: "the quickest run nothing can cut off" |
| `WholeRunIsStricter` | `reach` | the two rules count the enemy's moves differently, and the one called stricter allows runs the other does not | `reach.test.mts:239`: "anything the stricter rule allows the looser one allows too" |
| `NobodyLeavesASeatUntimed` | `lobby_seats` | `server.go:1951-1961` seats the sockets that `seatMatch` chose without asking whether they are still there; one that dropped in between has been through `disconnect` (`server.go:2265-2313`), which found no participant, so its seat keeps a client that is gone and no clock until its player rejoins; the no-show sweep ends the game before its first move, and after it only the clocks or its players do | `server.go:1913-1917`: a seat nobody is holding starts its reconnect clock "exactly as it would if that player had dropped mid-game" |
| `EverySearchIsInItsGame` | `engine` | `engine/rpsfish/session.ts:104` gives a browser no lock, and every call awaits `loadEngine` (`worker/index.ts:39-71`): a question asked while the module loads sets its history between the other's history and the other's search, so the one it superseded searches in its game.  And, on either platform, `session.ts:326-336`: a history the engine refuses half-way leaves `warmHistoryKeys` as it was, and the next search extends or reuses a history that is no longer there | `session.ts:300-305`: the engine is made to stand where this search needs it; `:345-349`: standing and searching are "one indivisible act"; `:96-97`: "The browser needs no such thing"; `worker/index.ts:98-100`: "every method resolves without ever yielding" |
| `EveryTableIsOfOneLine` | `engine` | in the same rotation both questions clear the table, then the superseded one fills it and the other searches with it | `session.ts:307-312`: "repetition-dependent scores cannot move safely between lines" |
| `SpinnersShowWork`, `TheBotAlwaysPlays` | `bot_game` (the second in place of the PROPERTIES, with no INVARIANTS) | `analyzePosition` goes straight into the interactive lane (`engine/rpsfish/client.ts:331`; the analysis and review screens call it) and supersedes the bot's search or the hint's; the `AbortError` of `client.ts:194` is taken by `store/botSession.ts:329` and `:581` for one of their own, and `thinking` or `hintPending` stays on until the player takes back, starts over or ends the game | `client.ts:284-286`: requests queued here "run one at a time instead of pre-empting each other" |
| `HintIsOfThisPosition` | `bot_game` | a hint asked before a move and answered after it is shown on the new position | `store/botSession.ts:296-297`: any move puts a hint away |
| `DrawAgreesToAStandingOffer` | `bot_game` | a draw is agreed after a move has cleared the offer | `store/botSession.ts:296`: an offer is spent by a move |
| `OffMeansOff` | `alerts` (`Calls = {c1}`, `Transports = {"fcm"}`, `MaxChanges = 0`) | `disable` forgets the address before it asks the server to (`store/push.ts:510`), so a delete that is lost is never made again and the phone goes on being summoned; a look in flight that posts after the delete does the same | `store/push.ts:507-509`: withdrawing consent "must never leave somebody still subscribed because a network call failed" |
| `ForgottenOnceLetGo` | `alerts` | a withdrawal made as the guest while a sign-in moves the row to the account is answered 200 (`push_routes.go:223-251` looks only among the rows of the account asking), and the address is forgotten with its row still there | `store/push.ts:334-336`: "the local copy is cleared only once the server has let go" |

Met while modelling, without a property:

- A reconnect clears the expiry of a posted game as well as of a search, and the
  game stays on the board for ever (`queue_presence.go:136`, against
  `challenge.go:218-220`).
- A rejoin after the grace period abandons a game that has not begun
  (`server.go:1581`, against `server.go:2433-2436`).
- A first move is played before `matchBegan` empties the escrow, and in between
  the game can still be called off (`server.go:1687-1699`).
- `Adjudicate` finishes a game without an end event, so its record does not
  verify (`game.go:640-649`, against `record.go:9-11`).
- A requeue posts over whatever its owner has posted since (`match_start.go:438`).
- `abandonedPlayer` judges a seat empty under the lock and `Abandon` ends the game
  after it; a rejoin in between loses a game it has rejoined (`server.go:2445`).
- `ExpiresAt` is written on a disconnect and a reconnect without the lock the
  sweep reads it under (`queue_presence.go:92`), and `snapshot` takes a seek's
  mutex while it holds the board's (`seeks.go:489`): both are about locks that the
  models merge.
- `offerBotDraw` does not ask whose turn it is, so an offer made while the bot
  thinks is judged by a score with the sign of the other side.
- A socket that two pairings chose before either seated it is put in two games;
  `participants` remembers the second, and when the socket goes only that seat is
  emptied (`server.go:1956`).  `NobodyLeavesASeatUntimed` fails in this way too.
- `game_unavailable` and `game_rejoined` are taken for answers about whatever the
  client plays now (`store/gameStore.ts:1341`, `:1284`: neither looks at a game
  id).  A client that reconnects asks for the game it remembers; if that game was
  called off, its seek was put on the queue again and paired before the answer is
  read, the answer takes the new match's board and the remembered session away.
  `OwnBoardIsShown` fails in this way too.
- A search whose join the server refused, or whose cancel was sent on a socket
  that then dropped, stays on the client's screen or on the server until
  something corrects it (`refused` in `ClientStore`; the ticker); a rejoin of a
  finished game wipes a search from the screen until the next tick.
- A `spectator_joined` that arrives late takes a bot game just begun off the
  board.
- `LiveRail.tsx:252-255` calls watching while searching "not in conflict"; the
  server refuses it.
- A new game in the browser is not adjudicated for a side without a move before
  its first move; the server's is.
- A WASM module that fails to load is remembered as failed by its worker, and a
  root filter set for a search that is then refused stays for the next.

## 8. What is not modelled

In the modelled parts:

- `Rules`, `Game`: the JSON and string codecs, custom initial positions, the
  repetition draw (no built-in mode has the feature), clock fractions below a
  millisecond, and the validation of untrusted records.
- `Lobby`: spectators, chat, presence notifications (here, idle, away), the
  ranked, mute and block checks and the cap on pending invitations (refusals
  that change nothing), `dropUnreachableSeeks`, anonymous owners, engines,
  challenge links, a moderator's void or adjudication of a game that has begun,
  when a drain lets the process exit.  Draw and time offers touch only the game
  and are in `Game`.  `Lobby` keeps of a game only whether it has begun and
  ended, so that the two stay separate instances.
- `ClientRules`: encodings and keys of a position.  `Reach`: the square the panel
  names where a run is cut off.  `Racer`: the penalty for walking back into a
  position.
- `EngineLane`: scores, lines, progress reports, the root filter of a review's
  paired search.  The search itself is a binary that is not
  in the repository.
- `BotGame`: the choice among candidate moves, the selected tile, the error of a
  rejected move, the arena.
- `ClientStore`: challenges, links, chat, tournaments, selected tiles and the
  offers of a game in progress, which go through the same store but not through
  the search, the board or the audience.
- `Alerts`: sending a summons, snoozing the offer, the keys
  and the validation of a subscription, the two early ends of `enable` that find no
  service worker container or a server not set up to send (`store/push.ts:480-491`;
  like a refused prompt they set a status and keep nothing, and like it they end the
  enable), and several tabs of one browser, each of
  which has a store of its own over one subscription.  Of accounts it has only
  which one the device speaks for.

Components without a module are listed in `PROJECT.json` with the reason: those
of the plan (links, tournaments, series, ladder, drains, rooms, rating order,
rate limits), and those that are SQL, text, outside services or screens.  Most
lines of the client are screens: layout, drawing and styling over the store, with
no transition of their own that a property could be about.
