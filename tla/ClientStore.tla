------------------------------ MODULE ClientStore ------------------------------
(***************************************************************************)
(* One client and the server, over a socket that drops: the lobby slice of *)
(* frontend/src/store/gameStore.ts, the rules of app/_layout.tsx that keep *)
(* its board and its page together, and as much of the server as answers   *)
(* it.                                                                     *)
(*                                                                         *)
(* The store changes at once on a press and again on each message; the     *)
(* server changes on each message and on its own.  A message either way is *)
(* in order or lost with the socket, and a reload starts the store afresh  *)
(* with what the browser kept.  Boards, clocks, chat, challenges and links *)
(* are left out; a board is which game it is of, how it is held, and       *)
(* whether that game is still being played.                                *)
(***************************************************************************)
EXTENDS Naturals, Sequences

CONSTANTS
  Modes,        \* the modes a player can queue for
  OwnGames,     \* bound: the games this player can be paired into
  OtherGames,   \* games of other players, all being played at first
  MaxInFlight,  \* bound: messages on their way, in each direction
  None

Games == OwnGames \cup OtherGames

Board(kind, game, live) == [kind |-> kind, game |-> game, live |-> live]
BotBoard == Board("bot", None, TRUE)
Boards == [kind : {"seat", "watch"}, game : Games, live : BOOLEAN] \cup {BotBoard}

ASSUME StoreAssumption ==
  /\ OwnGames \cap OtherGames = {} /\ MaxInFlight \in Nat \ {0}
  /\ None \notin Modes \cup Games \cup Boards

VARIABLES
  client,  \* what the store, the browser and the page hold
  server,  \* what the server holds of this player
  up,      \* sent by the client and not read
  down     \* sent by the server and not read

storeVars == <<client, server, up, down>>

-----------------------------------------------------------------------------
(* The store.                                                              *)

\* What localStorage keeps is written and cleared together with gameSessionId,
\* so one field stands for both.
FreshClient ==
  [status |-> "disconnected",   \* connectionStatus
   queue |-> None,              \* the mode searched in
   cancelLater |-> FALSE,       \* leaveQueueOnReconnect
   board |-> None,              \* gameState, playerColor and isSpectating
   asked |-> None,              \* spectatedGameId
   stored |-> None,             \* gameSessionId
   bot |-> FALSE,               \* botSession
   taken |-> FALSE,             \* (history) a board of one's own was taken off
   page |-> "lobby"]

Shows(c, kind) == c.board # None /\ c.board.kind = kind

\* Mutant: a board asked for and not yet arrived does not count.
WatchingABoard(c) == Shows(c, "watch")

\* isSpectating, or a board asked for and not yet arrived.
Watching(c) == Shows(c, "watch") \/ c.asked # None

AtOwnGame(c) == Shows(c, "seat") /\ c.board.live

\* The board and what hangs from it are put down, or the bot's is put there.
BoardDown(c) == [c EXCEPT !.board = None]
TakenBy(c, board) == [c EXCEPT !.board = board, !.taken = @ \/ AtOwnGame(c)]

\* The same, by an answer about a game: what is on the board was not asked for.
TakenFor(c, board, game) ==
  [c EXCEPT !.board = board, !.taken = @ \/ (AtOwnGame(c) /\ c.board.game # game)]

StartSearch(c, mode) == [c EXCEPT !.queue = mode]

\* Mutant: only what the browser remembers is asked for.
RememberedGame(c, m) == c.stored

\* The server's answer wins.
ReadyGame(c, m) == IF m.game # None THEN m.game ELSE c.stored

\* connection_ready: the game the server names, or the one remembered, is asked
\* for again, or else the game being watched; the search is what the server
\* says it is; and a cancel that could not be sent is sent now.
ReadyShowing(c, m, mode) ==
  LET game == ReadyGame(c, m)
  IN  [c EXCEPT !.stored = game,
                !.asked = IF game # None THEN None ELSE @,
                !.queue = mode,
                !.cancelLater = FALSE,
                !.status = IF game # None \/ c.asked # None THEN "rejoining" ELSE "connected"]

\* Mutant: the search shown is left as it was.
ReadySearching(c, m) == ReadyShowing(c, m, c.queue)

Ready(c, m) == ReadyShowing(c, m, m.mode)

ReadyReplies(c, m) ==
  (IF ReadyGame(c, m) # None THEN <<[type |-> "rejoin_game", game |-> ReadyGame(c, m)]>>
   ELSE IF c.asked # None THEN <<[type |-> "spectate_game", game |-> c.asked]>> ELSE <<>>)
  \o (IF c.cancelLater THEN <<[type |-> "leave_queue"]>> ELSE <<>>)

\* match_found: a bot game gives way.
MatchFound(c, m) ==
  [c EXCEPT !.board = Board("seat", m.game, TRUE), !.stored = m.game, !.asked = None,
            !.queue = None, !.bot = FALSE, !.status = "connected", !.taken = FALSE]

Rejoined(c, m) ==
  [TakenFor(c, Board("seat", m.game, m.live), m.game)
   EXCEPT !.stored = m.game, !.asked = None, !.queue = None, !.status = "connected",
          !.taken = @ /\ ~m.live]

Joined(c, m) ==
  [c EXCEPT !.board = Board("watch", m.game, TRUE), !.stored = None, !.asked = m.game,
            !.queue = None, !.status = "connected"]

\* game_unavailable, and game_cancelled with it: whatever is on the board goes.
GameGone(c, m) ==
  [TakenFor(c, None, m.game)
   EXCEPT !.stored = None, !.asked = None, !.status = "connected"]

\* Mutant: the connection is left waiting for its board.
RefusedStillRejoining(c) == [TakenBy(c, None) EXCEPT !.asked = None]

SpectateRefused(c) ==
  [TakenBy(c, None) EXCEPT !.asked = None, !.status = "connected"]

\* game_state: of the game on the board, or nothing.
GameState(c, m) ==
  IF c.board = None \/ c.board.game # m.game THEN c
  ELSE [c EXCEPT !.board.live = m.live,
                 !.stored = IF Shows(c, "watch") THEN None ELSE m.game,
                 !.asked = IF Shows(c, "watch") /\ ~m.live THEN None ELSE @]

\* Mutant: only a search already on is kept up to date.
UpdateOngoing(c, m) == IF c.queue = None THEN c ELSE [c EXCEPT !.queue = m.mode]

QueueUpdate(c, m) == [c EXCEPT !.queue = m.mode]

Handled(c, m) ==
  CASE m.type = "connection_ready" -> Ready(c, m)
    [] m.type = "queue_update" -> QueueUpdate(c, m)
    [] m.type = "queue_left" -> [c EXCEPT !.queue = None]
    [] m.type = "match_found" -> MatchFound(c, m)
    [] m.type = "game_rejoined" -> Rejoined(c, m)
    [] m.type = "spectator_joined" -> Joined(c, m)
    [] m.type \in {"game_unavailable", "game_cancelled"} -> GameGone(c, m)
    [] m.type = "spectate_unavailable" -> SpectateRefused(c)
    [] m.type = "game_state" -> GameState(c, m)
    [] m.type = "error" -> c

StoreInit ==
  /\ client = FreshClient
  /\ server = [online |-> FALSE,     \* has this client's socket
               seek |-> None,        \* the mode this player waits in
               refused |-> FALSE,    \* (history) its last join was refused
               mine |-> None,        \* the game this player is a side of
               seated |-> FALSE,     \* the socket is in its seat there
               audience |-> None,    \* the game the socket is in the audience of
               stranded |-> FALSE,   \* (history) and left there by a refusal
               unplayed |-> OwnGames,
               live |-> OtherGames,  \* the games under way
               over |-> {}]          \* the games played to an end
  /\ up = <<>> /\ down = <<>>

-----------------------------------------------------------------------------
(* The player and the page.                                                *)

Connected == client.status # "disconnected"

Sends(messages) == up' = IF Connected THEN up \o messages ELSE up

Presses(c, messages) ==
  /\ client' = c
  /\ Sends(messages)
  /\ Len(up) + Len(messages) <= MaxInFlight
  /\ UNCHANGED <<server, down>>

\* The rules of app/_layout.tsx: watching belongs to its page, and a board of
\* one's own has a page too.
MustStopWatching(c) == Watching(c) /\ c.page # "watch"
MustFollowBoard(c) == Shows(c, "seat") /\ c.page = "watch"

\* stopSpectating, by the first rule.
StopSpectating ==
  /\ MustStopWatching(client)
  /\ Presses([BoardDown(client) EXCEPT !.asked = None],
             <<[type |-> "leave_game"]>>)

FollowBoard ==
  /\ MustFollowBoard(client)
  /\ Presses([client EXCEPT !.page = "lobby"], <<>>)

\* A rule runs before the next press is heard.
PlayerPresses(c, messages) ==
  /\ ~MustStopWatching(client) /\ ~MustFollowBoard(client)
  /\ Presses(c, messages)

AtServerBoard == Shows(client, "seat") \/ Shows(client, "watch")

\* joinQueue, where a button offers it: in the lobby, or beside a bot game.
\* (The one beside a bot game can be pressed a moment earlier too, between the
\* socket opening and its connection_ready.  That moment is left out.)
JoinQueue(mode) ==
  /\ client.status = "connected" /\ client.queue # mode
  /\ ~AtServerBoard /\ client.page = "lobby"
  /\ PlayerPresses(StartSearch(client, mode),
       (IF client.queue # None THEN <<[type |-> "leave_queue"]>> ELSE <<>>)
       \o <<[type |-> "join_queue", mode |-> mode]>>)

LeaveQueue ==
  /\ client.queue # None
  /\ PlayerPresses([client EXCEPT !.queue = None, !.cancelLater = @ \/ ~Connected],
                   <<[type |-> "leave_queue"]>>)

\* app/watch.tsx asks for a game that the live list still has.
SpectateGame(game) ==
  /\ client.status = "connected" /\ client.asked # game
  /\ ~AtOwnGame(client) /\ ~Shows(client, "bot")
  /\ game \in server.live
  /\ PlayerPresses([client EXCEPT !.asked = game, !.page = "watch"],
                   <<[type |-> "spectate_game", game |-> game]>>)

\* Another page is opened.
LeavePage ==
  /\ client.page = "watch"
  /\ PlayerPresses([client EXCEPT !.page = "lobby"], <<>>)

\* clearGame, and back to the lobby, where a board may be left: a game being
\* played is not.
ClearGame ==
  \/ /\ Shows(client, "bot")
     /\ PlayerPresses([BoardDown(client) EXCEPT !.bot = FALSE, !.page = "lobby"], <<>>)
  \/ /\ AtServerBoard /\ ~AtOwnGame(client)
     /\ PlayerPresses([BoardDown(client) EXCEPT !.asked = None, !.stored = None,
                                                !.page = "lobby"],
                      <<[type |-> "leave_game"]>>)

\* startBotGame, refused over a board of the server's.
StartBotGame ==
  /\ ~AtServerBoard /\ client.page = "lobby"
  /\ PlayerPresses([client EXCEPT !.bot = TRUE, !.board = BotBoard, !.asked = None], <<>>)

\* A reply of the bot is published.
BotReplies ==
  /\ client.bot
  /\ Presses(TakenBy(client, BotBoard), <<>>)

-----------------------------------------------------------------------------
(* The server.                                                             *)

\* To one socket, in order.
Says(messages) == down' = IF server.online THEN down \o messages ELSE down
RoomBelow == Len(down) < MaxInFlight

Serves(s, messages) ==
  /\ server' = s
  /\ Says(messages)
  /\ UNCHANGED client

Refusal == [type |-> "error"]

\* The socket joins an audience, or leaves the one it was in.
Attends(s, game) == [s EXCEPT !.audience = game, !.stranded = FALSE]

HearJoin(m) ==
  \/ /\ ~server.seated /\ server.audience = None
     /\ Serves([server EXCEPT !.seek = m.mode, !.refused = FALSE],
               <<[type |-> "queue_update", mode |-> m.mode]>>)
  \* Seated, watching, muted, or the server is about to restart.
  \/ Serves([server EXCEPT !.refused = TRUE], <<Refusal>>)

HearLeave ==
  Serves([server EXCEPT !.seek = None, !.refused = FALSE], <<[type |-> "queue_left"]>>)

HearRejoin(m) ==
  IF m.game # None /\ m.game = server.mine
  THEN Serves([server EXCEPT !.seated = TRUE],
              <<[type |-> "game_rejoined", game |-> m.game, live |-> TRUE]>>)
  ELSE \/ Serves(server, <<[type |-> "game_unavailable", game |-> m.game]>>)
       \/ /\ m.game \in server.over
          /\ Serves(server, <<[type |-> "game_rejoined", game |-> m.game, live |-> FALSE]>>)

HearSpectate(m) ==
  IF server.seated \/ server.seek # None \/ m.game \notin server.live \/ m.game = server.mine
  THEN Serves([server EXCEPT !.stranded = server.audience # None],
              <<[type |-> "spectate_unavailable"]>>)
  ELSE Serves(Attends(server, m.game),
              <<[type |-> "spectator_joined", game |-> m.game]>>)

HearLeaveGame == Serves(Attends(server, None), <<>>)

ServerReads ==
  /\ up # <<>> /\ RoomBelow
  /\ LET m == Head(up)
     IN  CASE m.type = "join_queue" -> HearJoin(m)
           [] m.type = "leave_queue" -> HearLeave
           [] m.type = "rejoin_game" -> HearRejoin(m)
           [] m.type = "spectate_game" -> HearSpectate(m)
           [] m.type = "leave_game" -> HearLeaveGame
  /\ up' = Tail(up)

\* An opponent is found.  Whoever is away has the board kept for them.
Pair(game) ==
  /\ server.seek # None /\ server.mine = None /\ game \in server.unplayed
  /\ RoomBelow
  /\ Serves([Attends(server, None) EXCEPT
                !.seek = None, !.mine = game, !.seated = server.online,
                !.unplayed = @ \ {game}, !.live = @ \cup {game}],
            <<[type |-> "match_found", game |-> game]>>)
  /\ UNCHANGED up

Hears(game) == (server.mine = game /\ server.seated) \/ server.audience = game

Ended(game) ==
  [IF server.audience = game THEN Attends(server, None) ELSE server
   EXCEPT !.live = @ \ {game}, !.over = @ \cup ({game} \cap OwnGames),
          !.mine = IF @ = game THEN None ELSE @,
          !.seated = @ /\ server.mine # game]

\* A game is over, and whoever is in its room is told.
Finish(game) ==
  /\ game \in server.live /\ RoomBelow
  /\ Serves(Ended(game),
            IF Hears(game) THEN <<[type |-> "game_state", game |-> game, live |-> FALSE]>> ELSE <<>>)
  /\ UNCHANGED up

\* An unbegun game is called off and its player told, in the room or not, and
\* whoever waited fairly waits again; or a moderator takes a game away, and who is
\* in its room is told.
CallOff(game) ==
  /\ game = server.mine /\ RoomBelow
  /\ LET gone == [Ended(game) EXCEPT !.over = server.over]
         cancelled == <<[type |-> "game_cancelled", game |-> game]>>
     IN  \/ \E mode \in Modes \cup {None} :
              Serves([gone EXCEPT !.seek = mode],
                     cancelled \o (IF mode = None THEN <<>>
                                   ELSE <<[type |-> "queue_update", mode |-> mode]>>))
         \/ Serves(gone, IF Hears(game) THEN cancelled ELSE <<>>)
  /\ UNCHANGED up

\* The ticker, to everybody who searches.
Tick ==
  /\ server.seek # None /\ server.online /\ RoomBelow
  /\ Serves(server, <<[type |-> "queue_update", mode |-> server.seek]>>)
  /\ UNCHANGED up

\* A search is withdrawn by the server.
EndSearch ==
  /\ server.seek # None /\ RoomBelow
  /\ Serves([server EXCEPT !.seek = None], <<[type |-> "queue_left"]>>)
  /\ UNCHANGED up

-----------------------------------------------------------------------------
(* The socket.                                                             *)

\* connect: the server hands back the search it has kept and the game it has.
Connect ==
  /\ ~Connected
  /\ client' = [client EXCEPT !.status = "connecting"]
  /\ server' = [server EXCEPT !.online = TRUE, !.refused = FALSE]
  /\ down' = <<[type |-> "connection_ready", game |-> server.mine, mode |-> server.seek]>>
  /\ UNCHANGED up

\* disconnect: a search is kept for whoever can be called back.
Disconnected(kept) ==
  [Attends(server, None) EXCEPT !.online = FALSE, !.seated = FALSE,
                                !.seek = IF kept THEN @ ELSE None]

\* Whatever was on its way is lost, and how much the server had read of it is
\* how far it had come.
Drop ==
  /\ Connected
  /\ client' = [client EXCEPT !.status = "disconnected"]
  /\ \E kept \in BOOLEAN : server' = Disconnected(kept)
  /\ up' = <<>> /\ down' = <<>>

\* The page is loaded again: only the browser's own storage is left.
Reload ==
  /\ client' = [FreshClient EXCEPT !.stored = client.stored]
  /\ \E kept \in BOOLEAN : server' = Disconnected(kept)
  /\ up' = <<>> /\ down' = <<>>

ClientReads ==
  /\ down # <<>>
  /\ LET m == Head(down)
     IN  /\ client' = Handled(client, m)
         /\ up' = IF m.type = "connection_ready" THEN up \o ReadyReplies(client, m) ELSE up
  /\ down' = Tail(down)
  /\ UNCHANGED server

StoreNext ==
  \/ \E mode \in Modes : JoinQueue(mode)
  \/ \E game \in Games : SpectateGame(game) \/ Pair(game) \/ Finish(game) \/ CallOff(game)
  \/ LeaveQueue \/ LeavePage \/ StopSpectating \/ FollowBoard \/ ClearGame
  \/ StartBotGame \/ BotReplies
  \/ ServerReads \/ Tick \/ EndSearch \/ Connect \/ Drop \/ Reload \/ ClientReads

\* What is sent over a socket that stays up is read, and the ticker runs.
\* (Strong for the server only because MaxInFlight can stop it for a moment,
\* again and again.)
Reads == SF_storeVars(ServerReads) /\ WF_storeVars(ClientReads) /\ SF_storeVars(Tick)

StoreSpec == StoreInit /\ [][StoreNext]_storeVars /\ Reads

-----------------------------------------------------------------------------
(* Properties.                                                             *)

Clients ==
  [status : {"disconnected", "connecting", "rejoining", "connected"},
   queue : Modes \cup {None}, cancelLater : BOOLEAN, board : Boards \cup {None},
   asked : Games \cup {None}, stored : Games \cup {None},
   bot : BOOLEAN, taken : BOOLEAN, page : {"lobby", "watch"}]

Servers ==
  [online : BOOLEAN, seek : Modes \cup {None}, refused : BOOLEAN,
   mine : Games \cup {None}, seated : BOOLEAN,
   audience : Games \cup {None}, stranded : BOOLEAN,
   unplayed : SUBSET OwnGames, live : SUBSET Games, over : SUBSET OwnGames]

\* What the client asks, and what the server says.
Asked ==
  [type : {"leave_queue", "leave_game"}] \cup [type : {"join_queue"}, mode : Modes]
  \cup [type : {"rejoin_game", "spectate_game"}, game : Games]

Said ==
  [type : {"connection_ready"}, game : Games \cup {None}, mode : Modes \cup {None}]
  \cup [type : {"queue_update"}, mode : Modes]
  \cup [type : {"queue_left", "error", "spectate_unavailable"}]
  \cup [type : {"match_found", "spectator_joined", "game_unavailable", "game_cancelled"},
        game : Games]
  \cup [type : {"game_rejoined"}, game : Games, live : BOOLEAN]
  \cup [type : {"game_state"}, game : Games, live : {FALSE}]

\* Every field holds what the code can put in it.
StoreTypeOK ==
  /\ client \in Clients /\ server \in Servers
  /\ up \in Seq(Asked) /\ down \in Seq(Said)

\* Nothing is on its way and no rule of the page is still to run.
Settled ==
  /\ client.status = "connected" /\ up = <<>> /\ down = <<>>
  /\ ~MustStopWatching(client)

\* "That was a wait counting up for the length of a deploy against a queue the
\* server had never put anybody in" (gameStore.ts joinQueue): once everything
\* sent has been read, a search on the screen is one the server holds, through
\* drops, reloads, games called off and searches that ran out; only one that it
\* refused to start may still be shown.
ShownSearchIsHeld ==
  Settled /\ client.queue # None => server.seek = client.queue \/ server.refused

\* A search the server holds is shown to whoever stays connected and presses
\* nothing, even when the answer to something else had wiped it off the screen.
HeldSearchIsShown ==
  client.status = "connected" /\ server.seek # None
    ~> \/ client.queue = server.seek \/ server.seek = None
       \/ client.status # "connected" \/ up # <<>>

\* Once everything sent has been read, a player who has a game is in its seat,
\* remembers it and has it on the board, unless something that was not about it took
\* it off: a bot game that was not put down, a request to watch that was refused, or
\* an answer about an earlier game.  No live seat is shown that is not held.
SeatIsOnTheBoard ==
  Settled =>
    /\ server.mine # None =>
         /\ server.seated
         /\ \/ client.stored = server.mine /\ client.board = Board("seat", server.mine, TRUE)
            \/ client.taken
    /\ AtOwnGame(client) => client.board.game = server.mine

\* Watching belongs to its page: off it, the server counts this player in no
\* audience, but for one it was left in when another board was refused; a live
\* board being watched is one the server shows it to.
WatchingIsOfThePage ==
  Settled =>
    /\ client.page # "watch" => server.audience = None \/ server.stranded
    /\ Shows(client, "watch") /\ client.board.live => server.audience = client.board.game

\* A reconnected client that asks for its board back hears about it, whatever
\* became of the game, and its lobby opens again.
RejoiningIsAnswered == client.status = "rejoining" ~> client.status # "rejoining"

\* "The server refuses to let a player spectate anything while they are in a
\* game, and it is right to: whichever board they asked for, the one they should
\* be looking at is theirs" (app/watch.tsx).
OwnBoardIsShown ==
  Settled /\ server.seated /\ ~client.bot => Shows(client, "seat")

\* "A found opponent takes the board: a bot game and a pass-and-play game are
\* both local and unrated, so either is dropped" (gameStore.ts match_found).
MatchTakesTheBoard == Settled /\ server.seated => ~client.bot

\* "Somebody who walks away from the watch screen has to be taken out of the game
\* they were watching" (gameStore.ts:1761-1767).
LeavingTakesOutOfTheGame ==
  Settled /\ client.page # "watch" => server.audience = None
=============================================================================
