--------------------------- MODULE ClientStoreProofs ---------------------------
(***************************************************************************)
(* Proofs about ClientStore.                                               *)
(*                                                                         *)
(* What is promised holds once everything sent has been read.  What holds  *)
(* at every moment is about what is still on its way: the last of the      *)
(* messages to say something of the search, the seat or the audience says  *)
(* what the server holds, and a board the server has let go of has the     *)
(* message that takes it down behind it, or the question that brings one.  *)
(***************************************************************************)
EXTENDS ClientStore, SequenceTheorems, TLAPS

-----------------------------------------------------------------------------
(* Messages on their way.                                                  *)

\* One of K is among them; all are of K; behind each of A comes one of K.
Has(s, K) == \E i \in DOMAIN s : s[i] \in K
Only(s, K) == \A i \in DOMAIN s : s[i] \in K
Followed(s, A, K) ==
  \A i \in DOMAIN s : s[i] \in A => \E j \in DOMAIN s : j > i /\ s[j] \in K

LEMMA JoinFacts ==
  ASSUME NEW S, NEW s \in Seq(S), NEW t \in Seq(S)
  PROVE  /\ s \o t \in Seq(S)
         /\ Len(s) \in Nat /\ Len(t) \in Nat
         /\ DOMAIN s = 1..Len(s) /\ DOMAIN t = 1..Len(t) /\ DOMAIN (s \o t) = 1..(Len(s) + Len(t))
         /\ \A i \in DOMAIN s : (s \o t)[i] = s[i]
         /\ \A i \in DOMAIN t : (s \o t)[Len(s) + i] = t[i]
         /\ \A i \in DOMAIN (s \o t) : i \in DOMAIN s \/ i - Len(s) \in DOMAIN t
<1>1. /\ Len(s) \in Nat /\ Len(t) \in Nat /\ DOMAIN s = 1..Len(s) /\ DOMAIN t = 1..Len(t)
  BY LenProperties
<1>2. /\ s \o t \in Seq(S) /\ Len(s \o t) = Len(s) + Len(t)
      /\ \A i \in 1..(Len(s) + Len(t)) :
           (s \o t)[i] = IF i <= Len(s) THEN s[i] ELSE t[i - Len(s)]
  BY ConcatProperties
<1>3. DOMAIN (s \o t) = 1..(Len(s) + Len(t)) BY <1>2, LenProperties
<1>4. \A i \in DOMAIN s : (s \o t)[i] = s[i] BY <1>1, <1>2
<1>5. \A i \in DOMAIN t : (s \o t)[Len(s) + i] = t[i]
  <2>1. SUFFICES ASSUME NEW i \in 1..Len(t) PROVE (s \o t)[Len(s) + i] = t[i] BY <1>1
  <2>2. Len(s) + i \in 1..(Len(s) + Len(t)) /\ ~(Len(s) + i <= Len(s))
        /\ (Len(s) + i) - Len(s) = i
    BY <1>1
  <2> QED BY <2>2, <1>2
<1> QED BY <1>1, <1>2, <1>3, <1>4, <1>5

LEMMA HasOfJoin ==
  ASSUME NEW S, NEW s \in Seq(S), NEW t \in Seq(S), NEW K
  PROVE  Has(s \o t, K) <=> Has(s, K) \/ Has(t, K)
<1> DEFINE u == s \o t
<1>1. /\ Len(s) \in Nat /\ Len(t) \in Nat
      /\ DOMAIN s = 1..Len(s) /\ DOMAIN t = 1..Len(t) /\ DOMAIN u = 1..(Len(s) + Len(t))
      /\ \A i \in DOMAIN s : u[i] = s[i] /\ \A j \in DOMAIN t : u[Len(s) + j] = t[j]
      /\ \A i \in DOMAIN u : i \in DOMAIN s \/ i - Len(s) \in DOMAIN t
  BY JoinFacts
<1>x. \A j \in DOMAIN t : u[Len(s) + j] = t[j] BY JoinFacts
<1> HIDE DEF u
<1>2. ASSUME Has(u, K) PROVE Has(s, K) \/ Has(t, K)
  <2>1. PICK i \in DOMAIN u : u[i] \in K BY <1>2 DEF Has
  <2>2. CASE i \in DOMAIN s BY <2>1, <2>2, <1>1 DEF Has
  <2>3. CASE i - Len(s) \in DOMAIN t
    <3>1. Len(s) + (i - Len(s)) = i BY <1>1, <2>1
    <3> QED BY <3>1, <2>1, <2>3, <1>x DEF Has
  <2> QED BY <2>1, <2>2, <2>3, <1>1
<1>3. ASSUME Has(s, K) PROVE Has(u, K)
  <2>1. PICK i \in DOMAIN s : s[i] \in K BY <1>3 DEF Has
  <2>2. i \in DOMAIN u /\ u[i] = s[i] BY <1>1
  <2> QED BY <2>1, <2>2 DEF Has
<1>4. ASSUME Has(t, K) PROVE Has(u, K)
  <2>1. PICK i \in DOMAIN t : t[i] \in K BY <1>4 DEF Has
  <2>2. Len(s) + i \in DOMAIN u BY <1>1
  <2> QED BY <2>1, <2>2, <1>x DEF Has
<1> QED BY <1>2, <1>3, <1>4 DEF u

LEMMA OnlyOfJoin ==
  ASSUME NEW S, NEW s \in Seq(S), NEW t \in Seq(S), NEW K
  PROVE  Only(s \o t, K) <=> Only(s, K) /\ Only(t, K)
<1>1. /\ Len(s) \in Nat /\ Len(t) \in Nat
      /\ DOMAIN s = 1..Len(s) /\ DOMAIN t = 1..Len(t) /\ DOMAIN (s \o t) = 1..(Len(s) + Len(t))
      /\ \A i \in DOMAIN s : (s \o t)[i] = s[i]
      /\ \A i \in DOMAIN (s \o t) : i \in DOMAIN s \/ i - Len(s) \in DOMAIN t
  BY JoinFacts
<1>2. \A j \in DOMAIN t : (s \o t)[Len(s) + j] = t[j] BY JoinFacts
<1> DEFINE u == s \o t
<1>3. /\ DOMAIN u = 1..(Len(s) + Len(t)) /\ \A i \in DOMAIN s : u[i] = s[i]
  BY <1>1
<1>4. \A j \in DOMAIN t : u[Len(s) + j] = t[j] BY <1>2
<1>5. \A i \in DOMAIN u : i \in DOMAIN s \/ i - Len(s) \in DOMAIN t BY <1>1
<1> HIDE DEF u
<1>6. ASSUME Only(u, K) PROVE Only(s, K) /\ Only(t, K)
  <2>1. Only(s, K) BY <1>6, <1>1, <1>3 DEF Only
  <2>2. ASSUME NEW i \in DOMAIN t PROVE t[i] \in K
    <3>1. Len(s) + i \in DOMAIN u BY <1>1, <1>3
    <3> QED BY <3>1, <1>6, <1>4 DEF Only
  <2> QED BY <2>1, <2>2 DEF Only
<1>7. ASSUME Only(s, K), Only(t, K), NEW i \in DOMAIN u PROVE u[i] \in K
  <2>1. CASE i \in DOMAIN s BY <2>1, <1>3, <1>7 DEF Only
  <2>2. CASE i - Len(s) \in DOMAIN t
    <3>1. Len(s) + (i - Len(s)) = i BY <1>1, <1>3
    <3> QED BY <3>1, <2>2, <1>4, <1>7 DEF Only
  <2> QED BY <2>1, <2>2, <1>5
<1> QED BY <1>6, <1>7 DEF Only, u

LEMMA FollowedOfJoin ==
  ASSUME NEW S, NEW s \in Seq(S), NEW t \in Seq(S), NEW A, NEW K,
         Followed(t, A, K), Has(t, K) \/ Followed(s, A, K)
  PROVE  Followed(s \o t, A, K)
<1> DEFINE u == s \o t
<1>1. /\ Len(s) \in Nat /\ Len(t) \in Nat
      /\ DOMAIN s = 1..Len(s) /\ DOMAIN t = 1..Len(t)
  BY JoinFacts
<1>2. DOMAIN u = 1..(Len(s) + Len(t)) BY JoinFacts
<1>3. \A i \in DOMAIN s : u[i] = s[i] BY JoinFacts
<1>4. \A j \in DOMAIN t : u[Len(s) + j] = t[j] BY JoinFacts
<1>5. \A i \in DOMAIN u : i \in DOMAIN s \/ i - Len(s) \in DOMAIN t BY JoinFacts
<1> HIDE DEF u
<1>6. ASSUME NEW i \in DOMAIN u, u[i] \in A
      PROVE  \E j \in DOMAIN u : j > i /\ u[j] \in K
  <2>1. CASE i \in DOMAIN s
    <3>1. CASE Has(t, K)
      <4>1. PICK j \in DOMAIN t : t[j] \in K BY <3>1 DEF Has
      <4>2. Len(s) + j \in DOMAIN u /\ Len(s) + j > i BY <1>1, <1>2, <2>1
      <4> QED BY <4>1, <4>2, <1>4
    <3>2. CASE Followed(s, A, K)
      <4>1. PICK j \in DOMAIN s : j > i /\ s[j] \in K BY <3>2, <2>1, <1>3, <1>6 DEF Followed
      <4>2. j \in DOMAIN u BY <1>1, <1>2
      <4> QED BY <4>1, <4>2, <1>3
    <3> QED BY <3>1, <3>2
  <2>2. CASE i - Len(s) \in DOMAIN t
    <3>1. Len(s) + (i - Len(s)) = i BY <1>1, <1>2
    <3>2. t[i - Len(s)] \in A BY <3>1, <2>2, <1>4, <1>6
    <3>3. PICK j \in DOMAIN t : j > i - Len(s) /\ t[j] \in K BY <3>2, <2>2 DEF Followed
    <3>4. Len(s) + j \in DOMAIN u /\ Len(s) + j > i BY <1>1, <1>2, <3>3
    <3> QED BY <3>3, <3>4, <1>4
  <2> QED BY <2>1, <2>2, <1>5
<1> QED BY <1>6 DEF Followed, u

\* Reading the first.
LEMMA TailFacts ==
  ASSUME NEW S, NEW s \in Seq(S), s # <<>>
  PROVE  /\ Head(s) \in S /\ Tail(s) \in Seq(S)
         /\ \A K : Has(s, K) <=> Head(s) \in K \/ Has(Tail(s), K)
         /\ \A K : Only(s, K) <=> Head(s) \in K /\ Only(Tail(s), K)
         /\ \A A, K : Followed(s, A, K)
                        => Followed(Tail(s), A, K) /\ (Head(s) \in A => Has(Tail(s), K))
<1> DEFINE u == Tail(s)
<1>1. Len(s) \in Nat \ {0} /\ DOMAIN s = 1..Len(s) BY EmptySeq, LenProperties
<1>2. /\ Head(s) = s[1] /\ Head(s) \in S /\ u \in Seq(S) /\ Len(u) = Len(s) - 1
      /\ \A i \in 1..Len(u) : u[i] = s[i + 1]
  BY HeadTailProperties
<1>3. DOMAIN u = 1..(Len(s) - 1) /\ \A i \in DOMAIN u : u[i] = s[i + 1]
  BY <1>2, LenProperties
<1> HIDE DEF u
<1>4. \A i \in DOMAIN u : i + 1 \in DOMAIN s /\ u[i] = s[i + 1] BY <1>1, <1>3
<1>5. \A i \in DOMAIN s : i = 1 \/ (i - 1 \in DOMAIN u /\ u[i - 1] = s[i])
  <2>1. SUFFICES ASSUME NEW i \in DOMAIN s, i # 1 PROVE i - 1 \in DOMAIN u /\ u[i - 1] = s[i]
    OBVIOUS
  <2>2. i - 1 \in DOMAIN u /\ (i - 1) + 1 = i BY <1>1, <1>3, <2>1
  <2> QED BY <2>2, <1>4
<1>6. 1 \in DOMAIN s BY <1>1
<1>7. ASSUME NEW K PROVE Has(s, K) <=> Head(s) \in K \/ Has(u, K)
  BY <1>2, <1>4, <1>5, <1>6 DEF Has
<1>8. ASSUME NEW K PROVE Only(s, K) <=> Head(s) \in K /\ Only(u, K)
  BY <1>2, <1>4, <1>5, <1>6 DEF Only
<1>9. ASSUME NEW A, NEW K, Followed(s, A, K)
      PROVE  Followed(u, A, K) /\ (Head(s) \in A => Has(u, K))
  <2>1. ASSUME NEW i \in DOMAIN u, u[i] \in A PROVE \E j \in DOMAIN u : j > i /\ u[j] \in K
    <3>1. PICK j \in DOMAIN s : j > i + 1 /\ s[j] \in K BY <2>1, <1>4, <1>9 DEF Followed
    <3>2. j # 1 /\ j - 1 > i BY <3>1, <1>1, <1>3
    <3> QED BY <3>1, <3>2, <1>5
  <2>2. ASSUME Head(s) \in A PROVE Has(u, K)
    <3>1. PICK j \in DOMAIN s : j > 1 /\ s[j] \in K BY <2>2, <1>2, <1>6, <1>9 DEF Followed
    <3>2. j # 1 BY <3>1
    <3> QED BY <3>1, <3>2, <1>5 DEF Has
  <2> QED BY <2>1, <2>2 DEF Followed
<1> QED BY <1>2, <1>7, <1>8, <1>9 DEF u

LEMMA ShortFacts ==
  /\ \A K : ~Has(<<>>, K) /\ Only(<<>>, K)
  /\ \A A, K : Followed(<<>>, A, K)
  /\ \A m, K : (Has(<<m>>, K) <=> m \in K) /\ (Only(<<m>>, K) <=> m \in K)
  /\ \A m, A, K : Followed(<<m>>, A, K) <=> m \notin A
BY DEF Has, Only, Followed

-----------------------------------------------------------------------------
(* Kinds of messages.                                                      *)

Leaves == {m \in Asked : m.type \in {"leave_queue", "leave_game"}}
GameLeaves == {m \in Asked : m.type = "leave_game"}
Searches == {m \in Asked : m.type \in {"join_queue", "leave_queue"}}
Rejoins == {m \in Asked : m.type = "rejoin_game"}
Spectates == {m \in Asked : m.type = "spectate_game"}

Kind(types) == {m \in Said : m.type \in types}
About(types, g) == {m \in Kind(types) : m.game = g}

Readies == Kind({"connection_ready"})

\* What says how the search stands, and says it right.
SearchWords ==
  Kind({"connection_ready", "queue_update", "queue_left", "match_found", "game_rejoined",
        "spectator_joined"})
SearchSaid(m) == IF m.type \in {"connection_ready", "queue_update"} THEN m.mode ELSE None
RightSearch(seek) == {m \in SearchWords : SearchSaid(m) \in {None, seek}}

\* What seats the player at a game being played, and what sets the board up anew.
SeatOf(g) ==
  {m \in About({"match_found", "game_rejoined"}, g) : m.type = "game_rejoined" => m.live}
SeatWords ==
  {m \in Kind({"match_found", "game_rejoined", "spectator_joined"}) :
     m.type = "game_rejoined" => m.live}

\* What shows the player the game of others, and what changes who is watched.
JoinedOf(g) == About({"spectator_joined"}, g)
WatchWords ==
  Kind({"spectator_joined", "match_found", "game_rejoined", "game_unavailable",
        "game_cancelled", "spectate_unavailable"})

\* What takes a live board of game g down, or asks which board to show.
Ends(g) ==
  Kind({"connection_ready", "match_found", "game_rejoined", "spectator_joined",
        "game_unavailable", "game_cancelled", "spectate_unavailable"})
  \cup About({"game_state"}, g)

\* What server s has said of games is so: none of them is one still to be played,
\* the player's own is not ended, and one that is over is not being played.
Told(s) ==
  {m \in Said :
     /\ m.type \in {"connection_ready", "match_found", "game_rejoined", "game_unavailable",
                    "game_cancelled", "game_state"} => m.game \notin s.unplayed
     /\ m.type \in {"game_unavailable", "game_cancelled", "game_state"}
        \/ (m.type = "game_rejoined" /\ ~m.live) => m.game # s.mine
     /\ m.type = "game_state" => m.game \notin s.live}

\* Games asked for again have been begun.
BegunOnly(s) == {m \in Asked : m.type = "rejoin_game" => m.game \notin s.unplayed}

-----------------------------------------------------------------------------
(* The inductive invariant.                                                *)

\* The two ends agree whether there is a socket, nothing is on its way where
\* there is none, and connection_ready is the first thing said on one, before
\* which only a search or a board is put down.
WireInv ==
  /\ server.online <=> client.status # "disconnected"
  /\ ~server.online => up = <<>> /\ down = <<>> /\ ~server.seated /\ server.audience = None
  /\ client.status # "connecting" => Only(down, Said \ Readies)
  /\ client.status = "connecting" =>
       /\ down # <<>> /\ Head(down) \in Readies /\ Only(Tail(down), Said \ Readies)
       /\ Only(up, Leaves) /\ server.audience = None

\* A board that is being played or watched can be asked for again.
ClientInv ==
  /\ AtOwnGame(client) => client.stored # None /\ client.asked = None
  /\ Shows(client, "watch") /\ client.board.live => client.asked # None \/ client.stored # None

\* A player in a game searches for none and watches none, and what is on its way
\* is so.
GamesInv ==
  /\ server.live \cap server.unplayed = {}
  /\ server.mine # None => /\ server.mine \in server.live /\ server.seek = None
                           /\ server.audience = None
  /\ server.seated => server.mine # None
  /\ server.audience # None => server.audience \in server.live
  /\ client.stored \notin server.unplayed
  /\ Only(down, Told(server)) /\ Only(up, BegunOnly(server))

\* The last thing said of the search is right, unless one is still being asked for
\* or given up, or was refused.
SearchInv ==
  server.online =>
    \/ Has(up, Searches) \/ server.refused
    \/ /\ client.queue \in {None, server.seek} \/ Has(down, SearchWords)
       /\ Followed(down, SearchWords \ RightSearch(server.seek), RightSearch(server.seek))

Holds(c, g) ==
  c.taken \/ (c.stored = g /\ c.asked = None /\ c.board = Board("seat", g, TRUE))

\* A player with a game and not in its seat is about to ask for it; one in the
\* seat holds it, or is about to be told.
SeatInv ==
  /\ server.online /\ server.mine # None /\ ~server.seated =>
       /\ \/ client.status = "connecting" /\ Head(down).game = server.mine
          \/ Has(up, {m \in Rejoins : m.game = server.mine})
       /\ ~Has(down, SeatOf(server.mine))
  /\ server.seated =>
       /\ Has(down, SeatWords) \/ (client.status # "connecting" /\ Holds(client, server.mine))
       /\ Followed(down, SeatWords \ SeatOf(server.mine), SeatOf(server.mine))

\* A live seat at any other game, on the board or on its way, is about to go.
BoardInv ==
  server.online => \A g \in Games \ {server.mine} :
    \/ Has(up, Rejoins)
    \/ /\ AtOwnGame(client) /\ client.board.game = g => Has(down, Ends(g))
       /\ Followed(down, SeatOf(g), Ends(g))

RejoinsFirst(s) == \A i, j \in DOMAIN s : i < j /\ s[j] \in Rejoins => s[i] \in Leaves

\* A game is asked for again before anything is searched or watched.  Somebody
\* the server counts in an audience watches there, is about to be told so, or has
\* said that they left.
AudienceInv ==
  /\ Has(up, Rejoins) => server.audience = None
  /\ RejoinsFirst(up)
  /\ server.audience # None /\ ~server.stranded =>
       \/ Has(up, GameLeaves)
       \/ /\ \/ Has(down, WatchWords)
             \/ /\ client.asked # None
                /\ Shows(client, "watch") => client.board.game = server.audience
          /\ Followed(down, WatchWords \ JoinedOf(server.audience), JoinedOf(server.audience))

\* On the page of a game being watched, a live board the server does not show to
\* this player is about to go.
WatchInv ==
  /\ client.page = "watch" => Followed(up, GameLeaves, Spectates)
  /\ server.online => \A g \in Games \ {server.audience} :
       \/ client.page # "watch" \/ Has(up, Rejoins) \/ Has(up, Spectates)
       \/ /\ Shows(client, "watch") /\ client.board.live /\ client.board.game = g
               => Has(down, Ends(g))
          /\ Followed(down, JoinedOf(g), Ends(g))

StoreInv ==
  /\ StoreTypeOK /\ WireInv /\ ClientInv /\ GamesInv /\ SearchInv
  /\ SeatInv /\ BoardInv /\ AudienceInv /\ WatchInv

-----------------------------------------------------------------------------
(* Constants, records and messages.                                        *)

LEMMA ConstantFacts ==
  /\ OwnGames \cap OtherGames = {} /\ OwnGames \subseteq Games /\ OtherGames \subseteq Games
  /\ None \notin Modes /\ None \notin Games /\ None \notin Boards
BY StoreAssumption DEF Games

LEMMA BoardFacts ==
  /\ \A g \in Games, live \in BOOLEAN :
       Board("seat", g, live) \in Boards /\ Board("watch", g, live) \in Boards
  /\ BotBoard \in Boards
  /\ \A b \in Boards : /\ b.kind \in {"seat", "watch", "bot"} /\ b.live \in BOOLEAN
                       /\ b.kind # "bot" => b.game \in Games
                       /\ b.kind = "bot" => b = BotBoard
  /\ \A k, g, live : LET b == Board(k, g, live)
                     IN  b.kind = k /\ b.game = g /\ b.live = live
  /\ \A b \in Boards : b = Board(b.kind, b.game, b.live)
<1>1. \A g \in Games, live \in BOOLEAN :
        Board("seat", g, live) \in Boards /\ Board("watch", g, live) \in Boards
  BY DEF Boards, Board
<1>2. BotBoard \in Boards BY DEF Boards
<1>3. ASSUME NEW b \in Boards
      PROVE  /\ b.kind \in {"seat", "watch", "bot"} /\ b.live \in BOOLEAN
             /\ b.kind # "bot" => b.game \in Games
             /\ b.kind = "bot" => b = BotBoard
             /\ b = Board(b.kind, b.game, b.live)
  <2>1. CASE b = BotBoard BY <2>1 DEF BotBoard, Board
  <2>2. CASE b \in [kind : {"seat", "watch"}, game : Games, live : BOOLEAN] BY <2>2 DEF Board
  <2> QED BY <2>1, <2>2 DEF Boards
<1>4. \A k, g, live : LET b == Board(k, g, live)
                      IN  b.kind = k /\ b.game = g /\ b.live = live
  BY DEF Board
<1> QED BY <1>1, <1>2, <1>3, <1>4

LEMMA AskedFacts ==
  /\ [type |-> "leave_queue"] \in Leaves \cap Searches
  /\ [type |-> "leave_game"] \in Leaves \cap GameLeaves
  /\ \A mode \in Modes : [type |-> "join_queue", mode |-> mode] \in Searches
  /\ \A g \in Games : /\ [type |-> "rejoin_game", game |-> g] \in Rejoins
                      /\ [type |-> "spectate_game", game |-> g] \in Spectates
BY DEF Asked, Leaves, Searches, GameLeaves, Rejoins, Spectates

LEMMA AskedFields ==
  \A m \in Asked :
    /\ m.type \in {"leave_queue", "leave_game", "join_queue", "rejoin_game", "spectate_game"}
    /\ m.type = "join_queue" => m.mode \in Modes
    /\ m.type \in {"rejoin_game", "spectate_game"} => m.game \in Games
BY DEF Asked

LEMMA SaidFacts ==
  /\ \A g \in Games \cup {None}, mode \in Modes \cup {None} :
       [type |-> "connection_ready", game |-> g, mode |-> mode] \in Said
  /\ \A mode \in Modes : [type |-> "queue_update", mode |-> mode] \in Said
  /\ \A t \in {"queue_left", "error", "spectate_unavailable"} : [type |-> t] \in Said
  /\ \A t \in {"match_found", "spectator_joined", "game_unavailable", "game_cancelled"},
        g \in Games : [type |-> t, game |-> g] \in Said
  /\ \A g \in Games, live \in BOOLEAN :
       [type |-> "game_rejoined", game |-> g, live |-> live] \in Said
  /\ \A g \in Games : [type |-> "game_state", game |-> g, live |-> FALSE] \in Said
BY DEF Said

SaidTypes ==
  {"connection_ready", "queue_update", "queue_left", "error", "spectate_unavailable",
   "match_found", "spectator_joined", "game_unavailable", "game_cancelled",
   "game_rejoined", "game_state"}

LEMMA SaidFields ==
  \A m \in Said :
    /\ m.type \in SaidTypes
    /\ m.type = "connection_ready" => m.game \in Games \cup {None} /\ m.mode \in Modes \cup {None}
    /\ m.type = "queue_update" => m.mode \in Modes
    /\ m.type \in {"match_found", "spectator_joined", "game_unavailable", "game_cancelled",
                   "game_rejoined", "game_state"} => m.game \in Games
    /\ m.type = "game_rejoined" => m.live \in BOOLEAN
    /\ m.type = "game_state" => m.live = FALSE
BY DEF Said, SaidTypes

LEMMA ClientFields ==
  \A c \in Clients :
    /\ c.status \in {"disconnected", "connecting", "rejoining", "connected"}
    /\ c.queue \in Modes \cup {None} /\ c.cancelLater \in BOOLEAN
    /\ c.board \in Boards \cup {None}
    /\ c.asked \in Games \cup {None} /\ c.stored \in Games \cup {None}
    /\ c.bot \in BOOLEAN /\ c.taken \in BOOLEAN /\ c.page \in {"lobby", "watch"}
BY DEF Clients

LEMMA ServerFields ==
  \A s \in Servers :
    /\ s.online \in BOOLEAN /\ s.seek \in Modes \cup {None} /\ s.refused \in BOOLEAN
    /\ s.mine \in Games \cup {None} /\ s.seated \in BOOLEAN
    /\ s.audience \in Games \cup {None} /\ s.stranded \in BOOLEAN
    /\ s.unplayed \subseteq OwnGames /\ s.live \subseteq Games /\ s.over \subseteq OwnGames
BY DEF Servers

LEMMA AskedKinds ==
  /\ Leaves \subseteq Asked /\ GameLeaves \subseteq Leaves
  /\ Leaves \cap Rejoins = {} /\ Leaves \cap Spectates = {} /\ Rejoins \cap Spectates = {}
  /\ Searches \cap Rejoins = {} /\ Searches \cap GameLeaves = {} /\ Searches \cap Spectates = {}
  /\ Searches \subseteq Asked /\ Rejoins \subseteq Asked /\ Spectates \subseteq Asked
BY DEF Leaves, GameLeaves, Searches, Rejoins, Spectates

-----------------------------------------------------------------------------
(* Presses: the server and what it has said are as they were.              *)

\* What a press that sends t leaves of the client.
Pressed(t) ==
  /\ t \in Seq(Asked) /\ client' \in Clients
  /\ server' = server /\ down' = down
  /\ up' = IF Connected THEN up \o t ELSE up
  /\ client'.status = client.status
  /\ ~Has(t, Rejoins)
  /\ client.status = "connecting" => Only(t, Leaves)
  /\ client'.stored \in {client.stored, None}
  /\ client'.queue \in {client.queue, None} \/ Has(t, Searches)
  /\ \A g \in Games : Holds(client, g) => Holds(client', g)
  /\ AtOwnGame(client') =>
       /\ AtOwnGame(client) /\ client'.board = client.board
       /\ client'.stored = client.stored /\ client'.asked = client.asked
  /\ client.asked # None /\ client'.asked = None => Has(t, GameLeaves)
  /\ Shows(client', "watch") =>
       /\ client'.board = client.board
       /\ client'.asked # None \/ (client'.asked = client.asked /\ client'.stored = client.stored)
  /\ client'.page = "watch" =>
       /\ ~Has(t, GameLeaves)
       /\ client.page = "watch" \/ Has(t, Spectates)

LEMMA OneAsked ==
  <<>> \in Seq(Asked) /\ \A m \in Asked : <<m>> \in Seq(Asked)
BY EmptySeq

\* A seat that is held and was not taken away is a game being played.
LEMMA HeldIsPlayed ==
  ASSUME client \in Clients, NEW g \in Games, Holds(client, g), ~client.taken
  PROVE  AtOwnGame(client) /\ client.board.game = g
<1>1. client.board = Board("seat", g, TRUE) BY DEF Holds
<1>2. client.board \in Boards BY <1>1 DEF Boards, Board
<1>3. client.board # None BY <1>2, ConstantFacts
<1>4. client.board.kind = "seat" /\ client.board.game = g /\ client.board.live BY <1>1 DEF Board
<1> QED BY <1>3, <1>4 DEF AtOwnGame, Shows

LEMMA JoinQueuePresses ==
  ASSUME StoreTypeOK, NEW mode \in Modes, JoinQueue(mode) PROVE \E t : Pressed(t)
<1> DEFINE leave == [type |-> "leave_queue"]
           join == [type |-> "join_queue", mode |-> mode]
           t == (IF client.queue # None THEN <<leave>> ELSE <<>>) \o <<join>>
<1>1. leave \in Searches /\ join \in Searches /\ leave \in Asked /\ join \in Asked
  BY AskedFacts, AskedKinds
<1> HIDE DEF leave, join
<1>2. PICK s : /\ s = IF client.queue # None THEN <<leave>> ELSE <<>>
               /\ s \in Seq(Asked) /\ ~Has(s, Rejoins) /\ ~Has(s, GameLeaves)
  BY <1>1, OneAsked, ShortFacts, AskedKinds
<1>j. <<join>> \in Seq(Asked) /\ Has(<<join>>, Searches) /\ ~Has(<<join>>, Rejoins)
      /\ ~Has(<<join>>, GameLeaves)
  BY <1>1, OneAsked, ShortFacts, AskedKinds
<1>3. t \in Seq(Asked) /\ Has(t, Searches) /\ ~Has(t, Rejoins) /\ ~Has(t, GameLeaves)
  <2>1. t = s \o <<join>> BY <1>2
  <2>2. s \o <<join>> \in Seq(Asked) BY <1>2, <1>j, ConcatProperties
  <2> QED BY <2>1, <2>2, <1>2, <1>j, HasOfJoin
<1>4. PICK c : c = [client EXCEPT !.queue = mode] OBVIOUS
<1>5. client \in Clients BY DEF StoreTypeOK
<1>6. /\ c \in Clients /\ c.status = client.status /\ c.stored = client.stored
      /\ c.board = client.board /\ c.asked = client.asked /\ c.taken = client.taken
      /\ c.page = client.page
  BY <1>4, <1>5 DEF Clients
<1>7. /\ client.status = "connected" /\ Presses(c, t)
  BY <1>4 DEF JoinQueue, PlayerPresses, StartSearch, leave, join
<1> HIDE DEF t
<1>8. Pressed(t)
  BY <1>3, <1>6, <1>7 DEF Pressed, Presses, Sends, Holds, AtOwnGame, Shows
<1> QED BY <1>8

LEMMA LeaveQueuePresses ==
  ASSUME StoreTypeOK, LeaveQueue PROVE \E t : Pressed(t)
<1> DEFINE t == <<[type |-> "leave_queue"]>>
<1>1. t \in Seq(Asked) /\ Has(t, Searches) /\ Only(t, Leaves) /\ ~Has(t, Rejoins)
      /\ ~Has(t, GameLeaves)
  BY AskedFacts, AskedKinds, OneAsked, ShortFacts
<1>2. PICK c : c = [client EXCEPT !.queue = None, !.cancelLater = @ \/ ~Connected] OBVIOUS
<1>3. client \in Clients BY DEF StoreTypeOK
<1>4. /\ c \in Clients /\ c.status = client.status /\ c.stored = client.stored
      /\ c.board = client.board /\ c.asked = client.asked /\ c.taken = client.taken
      /\ c.page = client.page
  BY <1>2, <1>3 DEF Clients, Connected
<1>5. Presses(c, t) BY <1>2 DEF LeaveQueue, PlayerPresses
<1> HIDE DEF t
<1>6. Pressed(t)
  BY <1>1, <1>4, <1>5 DEF Pressed, Presses, Sends, Holds, AtOwnGame, Shows
<1> QED BY <1>6

LEMMA SpectateGamePresses ==
  ASSUME StoreTypeOK, NEW game \in Games, SpectateGame(game) PROVE \E t : Pressed(t)
<1> DEFINE m == [type |-> "spectate_game", game |-> game]
           t == <<m>>
<1>m. m \in Spectates /\ m \in Asked BY AskedFacts, AskedKinds
<1>5. /\ client.status = "connected" /\ Presses([client EXCEPT !.asked = game, !.page = "watch"], t)
      /\ ~AtOwnGame(client)
  BY DEF SpectateGame, PlayerPresses
<1> HIDE DEF m
<1>1. t \in Seq(Asked) /\ Has(t, Spectates) /\ ~Has(t, Rejoins) /\ ~Has(t, GameLeaves)
  BY <1>m, AskedKinds, OneAsked, ShortFacts
<1>2. PICK c : c = [client EXCEPT !.asked = game, !.page = "watch"] OBVIOUS
<1>3. client \in Clients BY DEF StoreTypeOK
<1>4. /\ c \in Clients /\ c.status = client.status /\ c.stored = client.stored
      /\ c.board = client.board /\ c.asked = game /\ c.taken = client.taken
      /\ c.queue = client.queue
  BY <1>2, <1>3 DEF Clients
<1>6. \A g \in Games : Holds(client, g) => client.taken BY <1>3, <1>5, HeldIsPlayed
<1>p. Presses(c, t) BY <1>2, <1>5
<1>7. game # None BY ConstantFacts
<1> HIDE DEF t
<1>8. Pressed(t)
  BY <1>1, <1>4, <1>5, <1>p, <1>6, <1>7 DEF Pressed, Presses, Sends, Holds, AtOwnGame, Shows
<1> QED BY <1>8

\* The page changes and nothing is sent.
LEMMA PagePresses ==
  ASSUME StoreTypeOK, Presses([client EXCEPT !.page = "lobby"], <<>>) PROVE \E t : Pressed(t)
<1>1. /\ <<>> \in Seq(Asked) /\ Only(<<>>, Leaves) /\ ~Has(<<>>, Rejoins)
      /\ ~Has(<<>>, GameLeaves)
  BY OneAsked, ShortFacts
<1>2. PICK c : c = [client EXCEPT !.page = "lobby"] OBVIOUS
<1>3. client \in Clients BY DEF StoreTypeOK
<1>4. /\ c \in Clients /\ c.status = client.status /\ c.stored = client.stored
      /\ c.board = client.board /\ c.asked = client.asked /\ c.taken = client.taken
      /\ c.queue = client.queue /\ c.page = "lobby"
  BY <1>2, <1>3 DEF Clients
<1>5. Presses(c, <<>>) BY <1>2
<1>6. Pressed(<<>>)
  BY <1>1, <1>4, <1>5 DEF Pressed, Presses, Sends, Holds, AtOwnGame, Shows
<1> QED BY <1>6

\* A board is put down and the server told.
LEMMA LeavingPresses ==
  ASSUME StoreTypeOK, ClientInv, ~AtOwnGame(client), NEW page, NEW stored,
         page = "lobby" \/ (page = client.page /\ page # "watch"),
         stored \in {client.stored, None},
         Presses([client EXCEPT !.board = None, !.asked = None, !.stored = stored, !.page = page],
                 <<[type |-> "leave_game"]>>)
  PROVE  \E t : Pressed(t)
<1> DEFINE t == <<[type |-> "leave_game"]>>
<1>1. t \in Seq(Asked) /\ Has(t, GameLeaves) /\ Only(t, Leaves) /\ ~Has(t, Rejoins)
  BY AskedFacts, AskedKinds, OneAsked, ShortFacts
<1>2. PICK c : c = [client EXCEPT !.board = None, !.asked = None, !.stored = stored,
                                  !.page = page]
  OBVIOUS
<1>3. client \in Clients BY DEF StoreTypeOK
<1>4. /\ c \in Clients /\ c.status = client.status /\ c.stored = stored
      /\ c.board = None /\ c.asked = None /\ c.taken = client.taken
      /\ c.queue = client.queue /\ c.page # "watch"
  BY <1>2, <1>3 DEF Clients
<1>5. Presses(c, t) BY <1>2
<1>6. \A g \in Games : Holds(client, g) => client.taken BY <1>3, HeldIsPlayed
<1> HIDE DEF t
<1>7. Pressed(t)
  BY <1>1, <1>4, <1>5, <1>6 DEF Pressed, Presses, Sends, Holds, AtOwnGame, Shows
<1> QED BY <1>7

LEMMA BoardPresses ==
  ASSUME StoreTypeOK, ClientInv, StopSpectating \/ ClearGame PROVE \E t : Pressed(t)
<1> DEFINE left == <<[type |-> "leave_game"]>>
<1>c. client \in Clients /\ client.page \in {"lobby", "watch"}
  BY ClientFields DEF StoreTypeOK
<1>1. CASE StopSpectating
  <2>1. /\ MustStopWatching(client)
        /\ Presses([BoardDown(client) EXCEPT !.asked = None], left)
    BY <1>1 DEF StopSpectating
  <2>2. ~AtOwnGame(client)
    BY <2>1 DEF ClientInv, MustStopWatching, Watching, AtOwnGame, Shows
  <2>3. [BoardDown(client) EXCEPT !.asked = None]
          = [client EXCEPT !.board = None, !.asked = None, !.stored = client.stored,
                           !.page = client.page]
    BY <1>c DEF BoardDown, Clients
  <2>4. client.page # "watch" BY <2>1 DEF MustStopWatching
  <2> QED BY <2>1, <2>2, <2>3, <2>4, LeavingPresses
<1>2. CASE /\ AtServerBoard /\ ~AtOwnGame(client)
           /\ PlayerPresses([BoardDown(client) EXCEPT !.asked = None, !.stored = None,
                                                      !.page = "lobby"], left)
  <2>1. [BoardDown(client) EXCEPT !.asked = None, !.stored = None, !.page = "lobby"]
          = [client EXCEPT !.board = None, !.asked = None, !.stored = None, !.page = "lobby"]
    BY <1>c DEF BoardDown, Clients
  <2> QED BY <1>2, <2>1, LeavingPresses DEF PlayerPresses
<1>3. CASE /\ Shows(client, "bot")
           /\ PlayerPresses([BoardDown(client) EXCEPT !.bot = FALSE, !.page = "lobby"], <<>>)
  <2>1. PICK c : c = [BoardDown(client) EXCEPT !.bot = FALSE, !.page = "lobby"] OBVIOUS
  <2>2. /\ c \in Clients /\ c.status = client.status /\ c.stored = client.stored
        /\ c.board = None /\ c.asked = client.asked /\ c.taken = client.taken
        /\ c.queue = client.queue /\ c.page = "lobby"
    BY <2>1, <1>c DEF BoardDown, Clients
  <2>3. ~AtOwnGame(client) /\ Presses(c, <<>>) BY <1>3, <2>1 DEF AtOwnGame, Shows, PlayerPresses
  <2>4. \A g \in Games : Holds(client, g) => client.taken BY <1>c, <2>3, HeldIsPlayed
  <2>5. <<>> \in Seq(Asked) /\ Only(<<>>, Leaves) /\ ~Has(<<>>, Rejoins) /\ ~Has(<<>>, GameLeaves)
    BY OneAsked, ShortFacts
  <2>6. Pressed(<<>>)
    BY <2>2, <2>3, <2>4, <2>5 DEF Pressed, Presses, Sends, Holds, AtOwnGame, Shows
  <2> QED BY <2>6
<1> QED BY <1>1, <1>2, <1>3 DEF ClearGame

LEMMA BotPresses ==
  ASSUME StoreTypeOK, ClientInv, StartBotGame \/ BotReplies PROVE \E t : Pressed(t)
<1>c. client \in Clients /\ client.page \in {"lobby", "watch"} /\ client.taken \in BOOLEAN
  BY ClientFields DEF StoreTypeOK
<1>b. BotBoard \in Boards /\ BotBoard # None /\ BotBoard.kind = "bot"
  BY BoardFacts, ConstantFacts DEF BotBoard, Board
<1>e. <<>> \in Seq(Asked) /\ Only(<<>>, Leaves) /\ ~Has(<<>>, Rejoins) /\ ~Has(<<>>, GameLeaves)
  BY OneAsked, ShortFacts
<1>1. CASE StartBotGame
  <2>1. PICK c : c = [client EXCEPT !.bot = TRUE, !.board = BotBoard, !.asked = None] OBVIOUS
  <2>2. /\ c \in Clients /\ c.status = client.status /\ c.stored = client.stored
        /\ c.board = BotBoard /\ c.asked = None /\ c.taken = client.taken
        /\ c.queue = client.queue /\ c.page = client.page
    BY <2>1, <1>c, <1>b DEF Clients
  <2>3. /\ ~AtServerBoard /\ client.page = "lobby" /\ ~MustStopWatching(client)
        /\ Presses(c, <<>>)
    BY <1>1, <2>1 DEF StartBotGame, PlayerPresses
  <2>4. client.asked = None /\ ~AtOwnGame(client)
    BY <2>3 DEF MustStopWatching, Watching, AtServerBoard, AtOwnGame
  <2>5. \A g \in Games : Holds(client, g) => client.taken BY <1>c, <2>4, HeldIsPlayed
  <2>6. Pressed(<<>>)
    BY <1>b, <1>e, <2>2, <2>3, <2>4, <2>5
    DEF Pressed, Presses, Sends, Holds, AtOwnGame, Shows
  <2> QED BY <2>6
<1>2. CASE BotReplies
  <2>1. PICK c : c = TakenBy(client, BotBoard) OBVIOUS
  <2>2. /\ c \in Clients /\ c.status = client.status /\ c.stored = client.stored
        /\ c.board = BotBoard /\ c.asked = client.asked
        /\ c.taken = (client.taken \/ AtOwnGame(client))
        /\ c.queue = client.queue /\ c.page = client.page
    <3>1. AtOwnGame(client) \in BOOLEAN BY DEF AtOwnGame, Shows
    <3> QED BY <2>1, <3>1, <1>c, <1>b DEF Clients, TakenBy
  <2>3. Presses(c, <<>>) BY <1>2, <2>1 DEF BotReplies
  <2>4. \A g \in Games : Holds(client, g) => client.taken \/ AtOwnGame(client)
    BY <1>c, HeldIsPlayed
  <2>5. Pressed(<<>>)
    BY <1>b, <1>e, <2>2, <2>3, <2>4 DEF Pressed, Presses, Sends, Holds, AtOwnGame, Shows
  <2> QED BY <2>5
<1> QED BY <1>1, <1>2

\* What the player and the page do.
APress ==
  \/ \E mode \in Modes : JoinQueue(mode)
  \/ \E game \in Games : SpectateGame(game)
  \/ LeaveQueue \/ LeavePage \/ StopSpectating \/ FollowBoard \/ ClearGame
  \/ StartBotGame \/ BotReplies

LEMMA EveryPress == StoreTypeOK /\ ClientInv /\ APress => \E t : Pressed(t)
<1> SUFFICES ASSUME StoreTypeOK, ClientInv, APress PROVE \E t : Pressed(t) OBVIOUS
<1>1. CASE LeavePage \/ FollowBoard BY <1>1, PagePresses DEF LeavePage, FollowBoard, PlayerPresses
<1> QED
  BY <1>1, JoinQueuePresses, SpectateGamePresses, LeaveQueuePresses, BoardPresses, BotPresses
  DEF APress

LEMMA RejoinsFirstOfJoin ==
  ASSUME NEW s \in Seq(Asked), NEW t \in Seq(Asked), RejoinsFirst(s),
         ~Has(t, Rejoins) \/ (Only(s, Leaves) /\ RejoinsFirst(t))
  PROVE  RejoinsFirst(s \o t)
<1> DEFINE u == s \o t
<1>1. /\ Len(s) \in Nat /\ Len(t) \in Nat
      /\ DOMAIN s = 1..Len(s) /\ DOMAIN t = 1..Len(t)
  BY JoinFacts
<1>2. DOMAIN u = 1..(Len(s) + Len(t)) BY JoinFacts
<1>3. \A i \in DOMAIN s : u[i] = s[i] BY JoinFacts
<1>4. \A j \in DOMAIN t : u[Len(s) + j] = t[j] BY JoinFacts
<1>5. \A i \in DOMAIN u : i \in DOMAIN s \/ i - Len(s) \in DOMAIN t BY JoinFacts
<1> HIDE DEF u
<1>6. ASSUME NEW i \in DOMAIN u, NEW j \in DOMAIN u, i < j, u[j] \in Rejoins
      PROVE  u[i] \in Leaves
  <2>1. CASE j \in DOMAIN s
    <3>1. i \in DOMAIN s BY <2>1, <1>1, <1>2, <1>6
    <3> QED BY <3>1, <2>1, <1>3, <1>6 DEF RejoinsFirst
  <2>2. CASE j - Len(s) \in DOMAIN t
    <3>1. Len(s) + (j - Len(s)) = j BY <1>1, <1>2
    <3>2. t[j - Len(s)] \in Rejoins BY <3>1, <2>2, <1>4, <1>6
    <3>3. Only(s, Leaves) /\ RejoinsFirst(t) BY <3>2, <2>2 DEF Has
    <3>4. CASE i \in DOMAIN s BY <3>3, <3>4, <1>3 DEF Only
    <3>5. CASE i - Len(s) \in DOMAIN t
      <4>1. Len(s) + (i - Len(s)) = i /\ i - Len(s) < j - Len(s) BY <1>1, <1>2, <1>6
      <4>2. t[i - Len(s)] \in Leaves BY <4>1, <3>2, <3>3, <3>5, <2>2 DEF RejoinsFirst
      <4> QED BY <4>1, <4>2, <3>5, <1>4
    <3> QED BY <3>4, <3>5, <1>5
  <2> QED BY <2>1, <2>2, <1>5
<1> QED BY <1>6 DEF RejoinsFirst, u

LEMMA RejoinsFirstOfTail ==
  ASSUME NEW s \in Seq(Asked), s # <<>>, RejoinsFirst(s)
  PROVE  RejoinsFirst(Tail(s)) /\ (Has(Tail(s), Rejoins) => Head(s) \in Leaves)
<1> DEFINE u == Tail(s)
<1>1. Len(s) \in Nat \ {0} /\ DOMAIN s = 1..Len(s) BY EmptySeq, LenProperties
<1>2. /\ Head(s) = s[1] /\ u \in Seq(Asked) /\ Len(u) = Len(s) - 1
      /\ \A i \in 1..Len(u) : u[i] = s[i + 1]
  BY HeadTailProperties
<1>3. DOMAIN u = 1..(Len(s) - 1) /\ \A i \in DOMAIN u : u[i] = s[i + 1]
  BY <1>2, LenProperties
<1> HIDE DEF u
<1>4. \A i \in DOMAIN u : i \in Nat /\ i + 1 \in DOMAIN s /\ 1 < i + 1 /\ u[i] = s[i + 1]
  BY <1>1, <1>3
<1>5. 1 \in DOMAIN s BY <1>1
<1>6. ASSUME NEW i \in DOMAIN u, NEW j \in DOMAIN u, i < j, u[j] \in Rejoins
      PROVE  u[i] \in Leaves
  <2>1. i + 1 < j + 1 BY <1>4, <1>6
  <2> QED BY <2>1, <1>4, <1>6 DEF RejoinsFirst
<1>7. ASSUME Has(u, Rejoins) PROVE Head(s) \in Leaves
  <2>1. PICK j \in DOMAIN u : u[j] \in Rejoins BY <1>7 DEF Has
  <2> QED BY <2>1, <1>2, <1>4, <1>5 DEF RejoinsFirst
<1> QED BY <1>6, <1>7 DEF RejoinsFirst, u

LEMMA NoRejoins == \A s : ~Has(s, Rejoins) => RejoinsFirst(s)
BY DEF Has, RejoinsFirst

LEMMA InvFacts ==
  ASSUME StoreInv
  PROVE  /\ StoreTypeOK /\ WireInv /\ ClientInv /\ GamesInv /\ SearchInv
         /\ SeatInv /\ BoardInv /\ AudienceInv /\ WatchInv
         /\ client \in Clients /\ server \in Servers /\ up \in Seq(Asked) /\ down \in Seq(Said)
BY DEF StoreInv, StoreTypeOK

LEMMA PressKeepsInv ==
  ASSUME StoreInv, NEW t, Pressed(t) PROVE StoreInv'
<1>0. /\ StoreTypeOK /\ WireInv /\ ClientInv /\ GamesInv /\ SearchInv
      /\ SeatInv /\ BoardInv /\ AudienceInv /\ WatchInv
      /\ client \in Clients /\ server \in Servers /\ up \in Seq(Asked) /\ down \in Seq(Said)
  BY InvFacts
<1>1. /\ t \in Seq(Asked) /\ client' \in Clients /\ server' = server /\ down' = down
      /\ up' = IF Connected THEN up \o t ELSE up
      /\ client'.status = client.status /\ ~Has(t, Rejoins)
  BY DEF Pressed
<1>2. up \o t \in Seq(Asked) BY <1>0, <1>1, ConcatProperties
<1>3. up' \in Seq(Asked) BY <1>0, <1>1, <1>2
<1>4. \A K : Has(up', K) <=> Has(up, K) \/ (Connected /\ Has(t, K)) BY <1>0, <1>1, HasOfJoin
<1>5. \A K : Only(up', K) <=> Only(up, K) /\ (Connected => Only(t, K))
  BY <1>0, <1>1, OnlyOfJoin
<1>6. Connected <=> server.online BY <1>0 DEF WireInv, Connected
<1>7. StoreTypeOK' BY <1>0, <1>1, <1>3 DEF StoreTypeOK
<1>8. WireInv'
  <2>1. ~server.online => up' = up BY <1>1, <1>6
  <2>2. client.status = "connecting" => Only(up', Leaves)
    BY <1>0, <1>5 DEF Pressed, WireInv
  <2> QED BY <2>1, <2>2, <1>0, <1>1 DEF WireInv
<1>9. ClientInv'
  <2>1. AtOwnGame(client)' => client'.stored # None /\ client'.asked = None
    BY <1>0 DEF ClientInv, Pressed
  <2>2. ASSUME Shows(client, "watch")', client'.board.live
        PROVE  client'.asked # None \/ client'.stored # None
    <3>1. /\ client'.board = client.board
          /\ client'.asked # None \/ (client'.asked = client.asked /\ client'.stored = client.stored)
      BY <2>2 DEF Pressed
    <3>2. Shows(client, "watch") /\ client.board.live BY <3>1, <2>2 DEF Shows
    <3> QED BY <3>1, <3>2, <1>0 DEF ClientInv
  <2> QED BY <2>1, <2>2 DEF ClientInv
<1>10. GamesInv'
  <2>1. client'.stored \notin server.unplayed
    BY <1>0, ServerFields, ConstantFacts DEF GamesInv, Pressed
  <2>2. Only(t, BegunOnly(server))
    BY <1>1, ElementOfSeq, LenProperties DEF Only, Has, BegunOnly, Rejoins
  <2> QED BY <2>1, <2>2, <1>0, <1>1, <1>5 DEF GamesInv, Told, BegunOnly
<1>11. SearchInv'
  <2>1. client'.queue \in {client.queue, None} \/ Has(t, Searches) BY DEF Pressed
  <2> QED BY <2>1, <1>0, <1>1, <1>4, <1>6 DEF SearchInv
<1>12. SeatInv'
  <2>1. \A g \in Games : Holds(client, g) => Holds(client, g)' BY DEF Pressed, Holds
  <2>2. server.seated => server.mine \in Games BY <1>0, ServerFields DEF GamesInv
  <2> QED BY <2>1, <2>2, <1>0, <1>1, <1>4 DEF SeatInv
<1>13. BoardInv'
  <2>1. AtOwnGame(client)' => AtOwnGame(client) /\ client'.board = client.board BY DEF Pressed
  <2> QED BY <2>1, <1>0, <1>1, <1>4 DEF BoardInv
<1>14. AudienceInv'
  <2>1. RejoinsFirst(up') BY <1>0, <1>1, RejoinsFirstOfJoin DEF AudienceInv
  <2>2. client.asked # None /\ client'.asked = None => Has(t, GameLeaves) BY DEF Pressed
  <2>3. Shows(client, "watch")' => client'.board = client.board BY DEF Pressed
  <2>4. Shows(client, "watch")' => Shows(client, "watch") BY <2>3 DEF Shows
  <2>5. server.audience # None => Connected BY <1>0, <1>6 DEF WireInv
  <2> QED BY <2>1, <2>2, <2>3, <2>4, <2>5, <1>0, <1>1, <1>4 DEF AudienceInv
<1>15. WatchInv'
  <2>1. ASSUME client'.page = "watch" PROVE Followed(up', GameLeaves, Spectates)
    <3>1. ~Has(t, GameLeaves) /\ (client.page = "watch" \/ Has(t, Spectates))
      BY <2>1 DEF Pressed
    <3>2. Followed(t, GameLeaves, Spectates) BY <3>1 DEF Followed, Has
    <3>3. CASE ~Connected
      <4>1. up' = <<>> BY <3>3, <1>0, <1>1, <1>6 DEF WireInv
      <4> QED BY <4>1, ShortFacts
    <3>4. CASE Connected
      <4>1. Has(t, Spectates) \/ Followed(up, GameLeaves, Spectates)
        BY <3>1, <1>0 DEF WatchInv
      <4> QED BY <4>1, <3>2, <3>4, <1>0, <1>1, FollowedOfJoin
    <3> QED BY <3>3, <3>4
  <2>2. client'.page = "watch" => client.page = "watch" \/ Has(t, Spectates) BY DEF Pressed
  <2>3. Shows(client, "watch")' => Shows(client, "watch") /\ client'.board = client.board
    BY DEF Pressed, Shows
  <2>4. ASSUME server.online, NEW g \in Games \ {server.audience}
        PROVE  \/ client'.page # "watch" \/ Has(up', Rejoins) \/ Has(up', Spectates)
               \/ /\ Shows(client, "watch")' /\ client'.board.live /\ client'.board.game = g
                       => Has(down', Ends(g))
                  /\ Followed(down', JoinedOf(g), Ends(g))
    BY <2>2, <2>3, <2>4, <1>0, <1>1, <1>4, <1>6 DEF WatchInv
  <2> QED BY <2>1, <2>4, <1>1 DEF WatchInv
<1> QED
  BY <1>7, <1>8, <1>9, <1>10, <1>11, <1>12, <1>13, <1>14, <1>15 DEF StoreInv

-----------------------------------------------------------------------------
(* The socket drops, or is opened.                                         *)

LEMMA DisconnectedFacts ==
  ASSUME server \in Servers, NEW kept \in BOOLEAN, NEW s, s = Disconnected(kept)
  PROVE  /\ s \in Servers /\ ~s.online /\ ~s.seated /\ s.audience = None
         /\ s.seek \in {server.seek, None} /\ s.mine = server.mine
         /\ s.live = server.live /\ s.unplayed = server.unplayed
<1>1. s = [server EXCEPT !.audience = None, !.stranded = FALSE, !.online = FALSE,
                         !.seated = FALSE, !.seek = IF kept THEN @ ELSE None]
  BY DEF Disconnected, Attends, Servers
<1> QED BY <1>1 DEF Servers

LEMMA OfflineKeepsInv ==
  ASSUME StoreInv, client' \in Clients, client'.status = "disconnected",
         client'.stored = client.stored, ClientInv',
         NEW kept \in BOOLEAN, server' = Disconnected(kept), up' = <<>>, down' = <<>>
  PROVE  StoreInv'
<1>0. /\ StoreTypeOK /\ WireInv /\ ClientInv /\ GamesInv /\ SearchInv
      /\ SeatInv /\ BoardInv /\ AudienceInv /\ WatchInv
      /\ client \in Clients /\ server \in Servers /\ up \in Seq(Asked) /\ down \in Seq(Said)
  BY InvFacts
<1>1. /\ server' \in Servers /\ ~server'.online /\ ~server'.seated /\ server'.audience = None
      /\ server'.seek \in {server.seek, None} /\ server'.mine = server.mine
      /\ server'.live = server.live /\ server'.unplayed = server.unplayed
  BY <1>0, DisconnectedFacts
<1>2. <<>> \in Seq(Asked) /\ <<>> \in Seq(Said) BY EmptySeq
<1>3. /\ \A K : ~Has(up', K) /\ Only(up', K) /\ ~Has(down', K) /\ Only(down', K)
      /\ \A A, K : Followed(up', A, K)
  BY ShortFacts
<1>4. StoreTypeOK' BY <1>1, <1>2 DEF StoreTypeOK
<1>5. WireInv' BY <1>1, <1>3 DEF WireInv
<1>6. GamesInv' BY <1>0, <1>1, <1>3 DEF GamesInv
<1>7. SearchInv' /\ SeatInv' /\ BoardInv' BY <1>1 DEF SearchInv, SeatInv, BoardInv
<1>8. AudienceInv' BY <1>1, <1>3, NoRejoins DEF AudienceInv
<1>9. WatchInv' BY <1>1, <1>3 DEF WatchInv
<1> QED BY <1>4, <1>5, <1>6, <1>7, <1>8, <1>9 DEF StoreInv

LEMMA DropKeepsInv == ASSUME StoreInv, Drop PROVE StoreInv'
<1>1. client \in Clients /\ ClientInv BY InvFacts
<1>2. /\ client' = [client EXCEPT !.status = "disconnected"] /\ up' = <<>> /\ down' = <<>>
  BY DEF Drop
<1>3. PICK kept \in BOOLEAN : server' = Disconnected(kept) BY DEF Drop
<1>4. /\ client' \in Clients /\ client'.status = "disconnected"
      /\ client'.stored = client.stored /\ client'.asked = client.asked
      /\ client'.board = client.board
  BY <1>1, <1>2 DEF Clients
<1>5. ClientInv' BY <1>1, <1>4 DEF ClientInv, AtOwnGame, Shows
<1> QED BY <1>2, <1>3, <1>4, <1>5, OfflineKeepsInv

LEMMA FreshIsClient == FreshClient \in Clients
BY DEF FreshClient, Clients

LEMMA ReloadKeepsInv == ASSUME StoreInv, Reload PROVE StoreInv'
<1>1. client \in Clients BY InvFacts
<1>2. /\ client' = [FreshClient EXCEPT !.stored = client.stored] /\ up' = <<>> /\ down' = <<>>
  BY DEF Reload
<1>3. PICK kept \in BOOLEAN : server' = Disconnected(kept) BY DEF Reload
<1>4. client.stored \in Games \cup {None} BY <1>1, ClientFields
<1>5. client' \in Clients BY <1>2, <1>4, FreshIsClient DEF Clients
<1>6. /\ client'.status = "disconnected" /\ client'.stored = client.stored
      /\ client'.board = None
  BY <1>2 DEF FreshClient
<1>7. ClientInv' BY <1>6 DEF ClientInv, AtOwnGame, Shows
<1> QED BY <1>2, <1>3, <1>5, <1>6, <1>7, OfflineKeepsInv

LEMMA ConnectKeepsInv == ASSUME StoreInv, Connect PROVE StoreInv'
<1> DEFINE ready == [type |-> "connection_ready", game |-> server.mine, mode |-> server.seek]
<1>0. /\ StoreTypeOK /\ WireInv /\ ClientInv /\ GamesInv /\ SearchInv
      /\ SeatInv /\ BoardInv /\ AudienceInv /\ WatchInv
      /\ client \in Clients /\ server \in Servers /\ up \in Seq(Asked) /\ down \in Seq(Said)
  BY InvFacts
<1>f. /\ server.mine \in Games \cup {None} /\ server.seek \in Modes \cup {None}
      /\ server.unplayed \subseteq OwnGames
  BY <1>0, ServerFields
<1>1. /\ ready \in Said /\ ready.type = "connection_ready" /\ ready.game = server.mine
      /\ ready.mode = server.seek
  BY <1>f, SaidFacts
<1>2. /\ client.status = "disconnected" /\ client' = [client EXCEPT !.status = "connecting"]
      /\ server' = [server EXCEPT !.online = TRUE, !.refused = FALSE]
      /\ down' = <<ready>> /\ up' = up
  BY DEF Connect, Connected
<1> HIDE DEF ready
<1>3. up = <<>> /\ ~server.online /\ ~server.seated /\ server.audience = None
  BY <1>0, <1>2 DEF WireInv
<1>4. /\ client' \in Clients /\ client'.status = "connecting"
      /\ client'.stored = client.stored /\ client'.asked = client.asked
      /\ client'.board = client.board /\ client'.queue = client.queue
  BY <1>0, <1>2 DEF Clients
<1>5. /\ server' \in Servers /\ server'.online /\ ~server'.seated /\ server'.audience = None
      /\ server'.seek = server.seek /\ server'.mine = server.mine
      /\ server'.live = server.live /\ server'.unplayed = server.unplayed
  BY <1>0, <1>2, <1>3 DEF Servers
<1>6. /\ \A K : ~Has(up', K) /\ Only(up', K)
      /\ \A K : (Has(down', K) <=> ready \in K) /\ (Only(down', K) <=> ready \in K)
      /\ \A A, K : Followed(up', A, K)
      /\ \A A, K : Followed(down', A, K) <=> ready \notin A
  BY <1>2, <1>3, ShortFacts
<1>7. StoreTypeOK'
  <2>1. <<ready>> \in Seq(Said) BY <1>1, EmptySeq
  <2> QED BY <2>1, <1>0, <1>2, <1>4, <1>5 DEF StoreTypeOK
<1>8. ready \in Readies /\ \A g : ready \in Ends(g) /\ ready \notin SeatOf(g) /\ ready \notin JoinedOf(g)
  BY <1>1 DEF Readies, Kind, Ends, SeatOf, JoinedOf, About
<1>9. WireInv'
  <2>1. down' # <<>> /\ Head(down') = ready /\ Tail(down') = <<>> BY <1>2
  <2> QED BY <2>1, <1>4, <1>5, <1>6, <1>8, ShortFacts DEF WireInv
<1>10. ClientInv' BY <1>0, <1>4 DEF ClientInv, AtOwnGame, Shows
<1>11. GamesInv'
  <2>1. ready \in Told(server)'
    <3>1. server.mine \notin server.unplayed BY <1>0, <1>f, ConstantFacts DEF GamesInv
    <3> QED BY <3>1, <1>1, <1>5 DEF Told
  <2> QED BY <2>1, <1>0, <1>4, <1>5, <1>6 DEF GamesInv
<1>12. SearchInv'
  <2>1. ready \in RightSearch(server.seek)
    BY <1>1 DEF RightSearch, SearchWords, SearchSaid, Kind
  <2>2. ready \in SearchWords BY <2>1 DEF RightSearch
  <2> QED BY <2>1, <2>2, <1>5, <1>6 DEF SearchInv
<1>13. SeatInv'
  <2>1. Head(down').game = server.mine BY <1>1, <1>2
  <2> QED BY <2>1, <1>4, <1>5, <1>6, <1>8 DEF SeatInv
<1>14. BoardInv' BY <1>6, <1>8 DEF BoardInv
<1>15. AudienceInv' BY <1>5, <1>6, NoRejoins DEF AudienceInv
<1>16. WatchInv' BY <1>6, <1>8 DEF WatchInv
<1> QED
  BY <1>7, <1>9, <1>10, <1>11, <1>12, <1>13, <1>14, <1>15, <1>16 DEF StoreInv

-----------------------------------------------------------------------------
(* The client reads.                                                       *)

LEMMA KindFacts ==
  ASSUME NEW m \in Said
  PROVE  /\ m \in Readies <=> m.type = "connection_ready"
         /\ m \in SearchWords <=>
              m.type \in {"connection_ready", "queue_update", "queue_left", "match_found",
                          "game_rejoined", "spectator_joined"}
         /\ m \in SeatWords <=> \/ m.type \in {"match_found", "spectator_joined"}
                                \/ m.type = "game_rejoined" /\ m.live
         /\ m \in WatchWords <=>
              m.type \in {"spectator_joined", "match_found", "game_rejoined",
                          "game_unavailable", "game_cancelled", "spectate_unavailable"}
         /\ \A g : m \in SeatOf(g) <=> /\ m.game = g
                                       /\ \/ m.type = "match_found"
                                          \/ m.type = "game_rejoined" /\ m.live
         /\ \A g : m \in JoinedOf(g) <=> m.type = "spectator_joined" /\ m.game = g
         /\ \A g : m \in Ends(g) <=>
              \/ m.type \in {"connection_ready", "match_found", "game_rejoined",
                             "spectator_joined", "game_unavailable", "game_cancelled",
                             "spectate_unavailable"}
              \/ m.type = "game_state" /\ m.game = g
BY DEF Readies, SearchWords, SeatWords, WatchWords, SeatOf, JoinedOf, Ends, About, Kind

\* What reading m leaves of the client.
Read(m) ==
  /\ client' \in Clients /\ client'.page = client.page
  /\ IF m \in Readies THEN client'.status \in {"rejoining", "connected"}
     ELSE client'.status \in {client.status, "connected"}
  /\ client'.queue = IF m \in SearchWords THEN SearchSaid(m) ELSE client.queue
  /\ \/ client'.stored \in {client.stored, None}
     \/ /\ m.type \in {"connection_ready", "match_found", "game_rejoined", "game_state"}
        /\ client'.stored = m.game
  /\ \A g \in Games : m \in SeatOf(g) => Holds(client', g)
  /\ \A g \in Games :
       /\ Holds(client, g) /\ m \notin SeatWords /\ m \notin Readies
       /\ m.type \in {"game_unavailable", "game_cancelled", "game_state", "game_rejoined"}
            => m.game # g
       => Holds(client', g)
  /\ AtOwnGame(client') =>
       \/ m \in SeatOf(client'.board.game)
       \/ /\ AtOwnGame(client) /\ client'.board = client.board
          /\ m \in Ends(client.board.game) => m \in Readies
  /\ Shows(client', "watch") /\ client'.board.live =>
       \/ m \in JoinedOf(client'.board.game)
       \/ /\ Shows(client, "watch") /\ client'.board = client.board
          /\ m \in Ends(client.board.game) => m \in Readies
  /\ \A g \in Games : m \in JoinedOf(g) =>
       client'.asked # None /\ (Shows(client', "watch") => client'.board.game = g)
  /\ \A g \in Games :
       /\ client.asked # None /\ (Shows(client, "watch") => client.board.game = g)
       /\ m \notin WatchWords /\ m \notin Readies /\ (m.type = "game_state" => m.game # g)
       => client'.asked # None /\ (Shows(client', "watch") => client'.board.game = g)
  /\ AtOwnGame(client') => client'.stored # None /\ client'.asked = None
  /\ Shows(client', "watch") /\ client'.board.live => client'.asked # None \/ client'.stored # None

LEMMA ReadyIsRead ==
  ASSUME client \in Clients, ClientInv, NEW m \in Said, m.type = "connection_ready",
         client' = Handled(client, m)
  PROVE  Read(m)
<1>1. client' = ReadyShowing(client, m, m.mode) BY DEF Handled, Ready
<1>2. m.game \in Games \cup {None} /\ m.mode \in Modes \cup {None} BY SaidFields
<1>3. PICK game : game = ReadyGame(client, m) OBVIOUS
<1>4. game \in Games \cup {None} BY <1>2, <1>3, ClientFields DEF ReadyGame
<1>5. client' = [client EXCEPT !.stored = game, !.asked = IF game # None THEN None ELSE @,
                               !.queue = m.mode, !.cancelLater = FALSE,
                               !.status = IF game # None \/ client.asked # None
                                          THEN "rejoining" ELSE "connected"]
  BY <1>1, <1>3 DEF ReadyShowing
<1>6. /\ client' \in Clients /\ client'.page = client.page /\ client'.board = client.board
      /\ client'.queue = m.mode /\ client'.status \in {"rejoining", "connected"}
      /\ client'.stored = game /\ client'.taken = client.taken
      /\ client'.asked = IF game # None THEN None ELSE client.asked
  BY <1>2, <1>4, <1>5 DEF Clients
<1>7. game = m.game \/ (game = client.stored /\ m.game = None) BY <1>3 DEF ReadyGame
<1>8. client.stored # None => game # None BY <1>3, ConstantFacts DEF ReadyGame
<1> QED
  BY <1>6, <1>7, <1>8, KindFacts DEF Read, AtOwnGame, Shows, ClientInv, SearchSaid

LEMMA QueueWordIsRead ==
  ASSUME client \in Clients, ClientInv, NEW m \in Said,
         m.type \in {"queue_update", "queue_left", "error"},
         client' = Handled(client, m)
  PROVE  Read(m)
<1>1. \/ m.type = "queue_update" /\ client' = [client EXCEPT !.queue = m.mode]
      \/ m.type = "queue_left" /\ client' = [client EXCEPT !.queue = None]
      \/ m.type = "error" /\ client' = client
  BY DEF Handled, QueueUpdate
<1>2. m.type = "queue_update" => m.mode \in Modes BY SaidFields
<1>3. /\ client' \in Clients /\ client'.page = client.page /\ client'.board = client.board
      /\ client'.status = client.status /\ client'.stored = client.stored
      /\ client'.taken = client.taken /\ client'.asked = client.asked
      /\ client'.queue = IF m.type = "error" THEN client.queue ELSE SearchSaid(m)
  BY <1>1, <1>2 DEF Clients, SearchSaid
<1> QED BY <1>3, KindFacts DEF Read, AtOwnGame, Shows, Holds, ClientInv

LEMMA MatchFoundIsRead ==
  ASSUME client \in Clients, ClientInv, NEW m \in Said, m.type = "match_found",
         client' = Handled(client, m)
  PROVE  Read(m)
<1>1. client' = MatchFound(client, m) BY DEF Handled
<1>2. m.game \in Games BY SaidFields
<1>3. PICK b : b = Board("seat", m.game, TRUE) OBVIOUS
<1>4. b \in Boards /\ b.kind = "seat" /\ b.game = m.game BY <1>2, <1>3 DEF Board, Boards
<1>5. client' = [client EXCEPT !.board = b, !.stored = m.game, !.asked = None, !.queue = None,
                               !.bot = FALSE, !.status = "connected", !.taken = FALSE]
  BY <1>1, <1>3 DEF MatchFound
<1>6. /\ client' \in Clients /\ client'.page = client.page /\ client'.board = b
      /\ client'.status = "connected" /\ client'.stored = m.game
      /\ client'.asked = None /\ client'.queue = None
  BY <1>2, <1>4, <1>5 DEF Clients
<1>7. m.game # None /\ b # None BY <1>2, <1>4, ConstantFacts
<1> QED BY <1>3, <1>4, <1>6, <1>7, KindFacts DEF Read, AtOwnGame, Shows, Holds, SearchSaid

LEMMA JoinedIsRead ==
  ASSUME client \in Clients, ClientInv, NEW m \in Said, m.type = "spectator_joined",
         client' = Handled(client, m)
  PROVE  Read(m)
<1>1. client' = Joined(client, m) BY DEF Handled
<1>2. m.game \in Games BY SaidFields
<1>3. PICK b : b = Board("watch", m.game, TRUE) OBVIOUS
<1>4. b \in Boards /\ b.kind = "watch" /\ b.game = m.game BY <1>2, <1>3 DEF Board, Boards
<1>5. client' = [client EXCEPT !.board = b, !.stored = None, !.asked = m.game,
                               !.queue = None, !.status = "connected"]
  BY <1>1, <1>3 DEF Joined
<1>6. /\ client' \in Clients /\ client'.page = client.page /\ client'.board = b
      /\ client'.status = "connected" /\ client'.stored = None
      /\ client'.asked = m.game /\ client'.queue = None
  BY <1>2, <1>4, <1>5 DEF Clients
<1>7. m.game # None /\ b # None BY <1>2, <1>4, ConstantFacts
<1> QED BY <1>4, <1>6, <1>7, KindFacts DEF Read, AtOwnGame, Shows, SearchSaid

LEMMA TakenForFacts ==
  ASSUME client \in Clients, NEW b \in Boards \cup {None}, NEW g, NEW c,
         c = TakenFor(client, b, g)
  PROVE  /\ c \in Clients /\ c.page = client.page /\ c.board = b /\ c.queue = client.queue
         /\ c.taken = (client.taken \/ (AtOwnGame(client) /\ client.board.game # g))
<1>1. (client.taken \/ (AtOwnGame(client) /\ client.board.game # g)) \in BOOLEAN
  BY ClientFields DEF AtOwnGame, Shows
<1> QED BY <1>1 DEF TakenFor, Clients

LEMMA RejoinedIsRead ==
  ASSUME client \in Clients, ClientInv, NEW m \in Said, m.type = "game_rejoined",
         client' = Handled(client, m)
  PROVE  Read(m)
<1>1. client' = Rejoined(client, m) BY DEF Handled
<1>2. m.game \in Games /\ m.live \in BOOLEAN BY SaidFields
<1>3. PICK b : b = Board("seat", m.game, m.live) OBVIOUS
<1>4. b \in Boards /\ b.kind = "seat" /\ b.game = m.game /\ b.live = m.live
  BY <1>2, <1>3 DEF Board, Boards
<1>5. PICK c : c = TakenFor(client, b, m.game) OBVIOUS
<1>6. /\ c \in Clients /\ c.page = client.page /\ c.board = b
      /\ c.taken = (client.taken \/ (AtOwnGame(client) /\ client.board.game # m.game))
  BY <1>4, <1>5, TakenForFacts
<1>7. client' = [c EXCEPT !.stored = m.game, !.asked = None, !.queue = None,
                          !.status = "connected", !.taken = @ /\ ~m.live]
  BY <1>1, <1>3, <1>5 DEF Rejoined
<1>8. /\ client' \in Clients /\ client'.page = client.page /\ client'.board = b
      /\ client'.status = "connected" /\ client'.stored = m.game
      /\ client'.asked = None /\ client'.queue = None
      /\ client'.taken = (c.taken /\ ~m.live)
  BY <1>2, <1>6, <1>7 DEF Clients
<1>9. m.game # None /\ b # None BY <1>2, <1>4, ConstantFacts
<1>10. m.live => b = Board("seat", m.game, TRUE) BY <1>2, <1>3
<1>11. ASSUME NEW g \in Games, Holds(client, g), ~m.live, m.game # g PROVE Holds(client', g)
  <2>1. client.taken \/ (AtOwnGame(client) /\ client.board.game = g) BY <1>11, HeldIsPlayed
  <2> QED BY <2>1, <1>6, <1>8, <1>11 DEF Holds
<1>12. ASSUME NEW g \in Games, m \in SeatOf(g) PROVE Holds(client', g)
  <2>1. m.game = g /\ m.live BY <1>12, KindFacts
  <2> QED BY <2>1, <1>8, <1>10 DEF Holds
<1>13. m \in SearchWords /\ SearchSaid(m) = None /\ m \notin Readies /\ m \in WatchWords
       /\ (m \in SeatWords <=> m.live) /\ \A g : m \notin JoinedOf(g)
  BY KindFacts DEF SearchSaid
<1>14. AtOwnGame(client') => m \in SeatOf(client'.board.game)
  BY <1>4, <1>8, KindFacts DEF AtOwnGame, Shows
<1>15. ~Shows(client', "watch") BY <1>4, <1>8 DEF Shows
<1> QED BY <1>8, <1>9, <1>11, <1>12, <1>13, <1>14, <1>15 DEF Read

\* The board goes, and what was asked for with it.
LEMMA GoneIsRead ==
  ASSUME client \in Clients, NEW m \in Said,
         m.type \in {"game_unavailable", "game_cancelled", "spectate_unavailable"},
         client' \in Clients, client'.page = client.page, client'.queue = client.queue,
         client'.board = None, client'.asked = None, client'.status = "connected",
         client'.stored \in {client.stored, None},
         client.taken => client'.taken,
         AtOwnGame(client) /\ (m.type # "spectate_unavailable" => client.board.game # m.game)
           => client'.taken
  PROVE  Read(m)
<1>1. ASSUME NEW g \in Games, Holds(client, g),
             m.type \in {"game_unavailable", "game_cancelled", "game_state", "game_rejoined"}
               => m.game # g
      PROVE  Holds(client', g)
  <2>1. client.taken \/ (AtOwnGame(client) /\ client.board.game = g) BY <1>1, HeldIsPlayed
  <2> QED BY <2>1, <1>1 DEF Holds
<1>2. /\ m \notin SearchWords /\ m \notin Readies /\ m \in WatchWords
      /\ \A g : m \notin JoinedOf(g) /\ m \notin SeatOf(g)
  BY KindFacts
<1>3. ~Shows(client', "seat") /\ ~Shows(client', "watch") BY DEF Shows
<1> QED BY <1>1, <1>2, <1>3 DEF Read, AtOwnGame

LEMMA GameGoneIsRead ==
  ASSUME client \in Clients, ClientInv, NEW m \in Said,
         m.type \in {"game_unavailable", "game_cancelled"},
         client' = Handled(client, m)
  PROVE  Read(m)
<1>1. client' = GameGone(client, m) BY DEF Handled
<1>2. PICK c : c = TakenFor(client, None, m.game) OBVIOUS
<1>3. /\ c \in Clients /\ c.page = client.page /\ c.board = None /\ c.queue = client.queue
      /\ c.taken = (client.taken \/ (AtOwnGame(client) /\ client.board.game # m.game))
  BY <1>2, TakenForFacts
<1>4. client' = [c EXCEPT !.stored = None, !.asked = None, !.status = "connected"]
  BY <1>1, <1>2 DEF GameGone
<1>5. /\ client' \in Clients /\ client'.page = client.page /\ client'.queue = client.queue
      /\ client'.board = None /\ client'.asked = None /\ client'.status = "connected"
      /\ client'.stored = None /\ client'.taken = c.taken
  BY <1>3, <1>4 DEF Clients
<1> QED BY <1>3, <1>5, GoneIsRead

LEMMA SpectateRefusedIsRead ==
  ASSUME client \in Clients, ClientInv, NEW m \in Said, m.type = "spectate_unavailable",
         client' = Handled(client, m)
  PROVE  Read(m)
<1>1. client' = SpectateRefused(client) BY DEF Handled
<1>2. client' = [client EXCEPT !.board = None, !.taken = @ \/ AtOwnGame(client),
                               !.asked = None, !.status = "connected"]
  BY <1>1 DEF SpectateRefused, TakenBy, Clients
<1>3. AtOwnGame(client) \in BOOLEAN BY DEF AtOwnGame, Shows
<1>4. /\ client' \in Clients /\ client'.page = client.page /\ client'.queue = client.queue
      /\ client'.board = None /\ client'.asked = None /\ client'.status = "connected"
      /\ client'.stored = client.stored
      /\ client'.taken = (client.taken \/ AtOwnGame(client))
  BY <1>2, <1>3 DEF Clients
<1> QED BY <1>4, GoneIsRead

LEMMA GameStateIsRead ==
  ASSUME client \in Clients, ClientInv, NEW m \in Said, m.type = "game_state",
         client' = Handled(client, m)
  PROVE  Read(m)
<1>1. client' = GameState(client, m) BY DEF Handled
<1>2. m.game \in Games /\ m.live = FALSE BY SaidFields
<1>3. /\ m \notin SearchWords /\ m \notin Readies /\ m \notin SeatWords /\ m \notin WatchWords
      /\ \A g : m \notin JoinedOf(g) /\ m \notin SeatOf(g)
      /\ \A g : m \in Ends(g) <=> m.game = g
  BY KindFacts
<1>4. CASE client.board = None \/ client.board.game # m.game
  <2>1. client' = client BY <1>1, <1>4 DEF GameState
  <2>2. /\ Shows(client, "watch") => m \notin Ends(client.board.game)
        /\ AtOwnGame(client) => m \notin Ends(client.board.game)
    BY <1>3, <1>4 DEF Shows, AtOwnGame
  <2>3. /\ AtOwnGame(client) => client.stored # None /\ client.asked = None
        /\ Shows(client, "watch") /\ client.board.live
              => client.asked # None \/ client.stored # None
    BY DEF ClientInv
  <2> QED BY <2>1, <2>2, <2>3, <1>3 DEF Read
<1>5. CASE client.board # None /\ client.board.game = m.game
  <2>1. client' = [client EXCEPT !.board.live = m.live,
                                 !.stored = IF Shows(client, "watch") THEN None ELSE m.game,
                                 !.asked = IF Shows(client, "watch") /\ ~m.live THEN None ELSE @]
    BY <1>1, <1>5 DEF GameState
  <2>2. client.board \in Boards /\ client.board # BotBoard
    BY <1>2, <1>5, ClientFields, ConstantFacts DEF BotBoard, Board
  <2>3. PICK b : b = [client.board EXCEPT !.live = FALSE] OBVIOUS
  <2>4. b \in Boards /\ b.kind = client.board.kind /\ b.game = m.game /\ b.live = FALSE
    BY <2>2, <2>3, <1>5 DEF Boards
  <2>5. client' = [client EXCEPT !.board = b,
                                 !.stored = IF Shows(client, "watch") THEN None ELSE m.game,
                                 !.asked = IF Shows(client, "watch") THEN None ELSE @]
    BY <2>1, <2>3, <1>2 DEF Clients
  <2>6. /\ client' \in Clients /\ client'.page = client.page /\ client'.board = b
        /\ client'.status = client.status /\ client'.queue = client.queue
        /\ client'.stored = (IF Shows(client, "watch") THEN None ELSE m.game)
        /\ client'.asked = (IF Shows(client, "watch") THEN None ELSE client.asked)
        /\ client'.taken = client.taken
    BY <2>4, <2>5, <1>2 DEF Clients
  <2>7. b # None BY <2>4, ConstantFacts
  <2>8. ~AtOwnGame(client') /\ ~(Shows(client', "watch") /\ client'.board.live)
    BY <2>4, <2>6 DEF AtOwnGame
  <2>9. Shows(client', "watch") <=> Shows(client, "watch")
    BY <2>4, <2>6, <2>7, <1>5 DEF Shows
  <2>10. ASSUME NEW g \in Games, Holds(client, g), m.game # g PROVE Holds(client', g)
    BY <2>6, <2>10, <1>5, HeldIsPlayed DEF Holds
  <2>11. ASSUME NEW g \in Games, client.asked # None,
                Shows(client, "watch") => client.board.game = g, m.game # g
         PROVE  client'.asked # None /\ (Shows(client', "watch") => client'.board.game = g)
    BY <2>6, <2>9, <2>11, <1>5
  <2> QED BY <2>6, <2>8, <2>10, <2>11, <1>3 DEF Read
<1> QED BY <1>4, <1>5

LEMMA EveryReading ==
  ASSUME client \in Clients, ClientInv, NEW m \in Said, client' = Handled(client, m)
  PROVE  Read(m)
<1>1. m.type \in SaidTypes BY SaidFields
<1> QED
  BY <1>1, ReadyIsRead, QueueWordIsRead, MatchFoundIsRead, JoinedIsRead, RejoinedIsRead,
     GameGoneIsRead, SpectateRefusedIsRead, GameStateIsRead DEF SaidTypes

\* What connection_ready is answered with.
LEMMA RepliesFacts ==
  ASSUME client \in Clients, server \in Servers, client.stored \notin server.unplayed,
         NEW m \in Said, m.type = "connection_ready", m.game \notin server.unplayed,
         NEW r, r = ReadyReplies(client, m)
  PROVE  /\ r \in Seq(Asked) /\ RejoinsFirst(r) /\ ~Has(r, GameLeaves)
         /\ Only(r, BegunOnly(server))
         /\ Has(r, Rejoins) => ReadyGame(client, m) # None
         /\ ReadyGame(client, m) # None =>
              Has(r, Rejoins) /\ Has(r, {n \in Rejoins : n.game = ReadyGame(client, m)})
         /\ client.asked # None => Has(r, Rejoins) \/ Has(r, Spectates)
<1>1. PICK game : game = ReadyGame(client, m) OBVIOUS
<1>2. game \in Games \cup {None} /\ game \notin server.unplayed
  BY <1>1, SaidFields, ClientFields DEF ReadyGame
<1>3. client.asked \in Games \cup {None} BY ClientFields
<1>4. PICK leave : leave = [type |-> "leave_queue"] OBVIOUS
<1>5. leave \in Leaves /\ leave \in Asked /\ leave \notin GameLeaves /\ leave.type = "leave_queue"
  BY <1>4, AskedFacts, AskedKinds DEF GameLeaves
<1>6. PICK t : t = IF client.cancelLater THEN <<leave>> ELSE <<>> OBVIOUS
<1>7. /\ t \in Seq(Asked) /\ ~Has(t, Rejoins) /\ ~Has(t, GameLeaves) /\ ~Has(t, Spectates)
      /\ Only(t, BegunOnly(server))
  <2>1. leave \in BegunOnly(server) BY <1>5 DEF BegunOnly
  <2> QED BY <2>1, <1>5, <1>6, OneAsked, ShortFacts, AskedKinds
<1>8. CASE game # None
  <2>1. PICK n : n = [type |-> "rejoin_game", game |-> game] OBVIOUS
  <2>s. PICK s : s = <<n>> OBVIOUS
  <2>2. /\ n \in Rejoins /\ n \in Asked /\ n.game = game /\ n \in BegunOnly(server)
        /\ n \notin GameLeaves
    BY <2>1, <1>2, <1>8, AskedFacts, AskedKinds DEF BegunOnly
  <2>3. r = s \o t BY <2>1, <2>s, <1>1, <1>4, <1>6, <1>8 DEF ReadyReplies
  <2>4. s \in Seq(Asked) /\ Has(s, Rejoins) /\ ~Has(s, GameLeaves)
        /\ Only(s, BegunOnly(server)) /\ Has(s, {x \in Rejoins : x.game = game})
    BY <2>2, <2>s, OneAsked, ShortFacts
  <2>5. RejoinsFirst(s) BY <2>s DEF RejoinsFirst
  <2>6. r \in Seq(Asked) BY <2>3, <2>4, <1>7, ConcatProperties
  <2>7. RejoinsFirst(r) BY <2>3, <2>4, <2>5, <1>7, RejoinsFirstOfJoin
  <2>8. \A K : Has(r, K) <=> Has(s, K) \/ Has(t, K) BY <2>3, <2>4, <1>7, HasOfJoin
  <2>9. Only(r, BegunOnly(server)) BY <2>3, <2>4, <1>7, OnlyOfJoin
  <2> QED BY <2>4, <2>6, <2>7, <2>8, <2>9, <1>1, <1>7, <1>8
<1>9. CASE game = None /\ client.asked # None
  <2>1. PICK n : n = [type |-> "spectate_game", game |-> client.asked] OBVIOUS
  <2>s. PICK s : s = <<n>> OBVIOUS
  <2>2. /\ n \in Spectates /\ n \in Asked /\ n \in BegunOnly(server) /\ n \notin GameLeaves
        /\ n \notin Rejoins
    BY <2>1, <1>3, <1>9, AskedFacts, AskedKinds DEF BegunOnly
  <2>3. r = s \o t BY <2>1, <2>s, <1>1, <1>4, <1>6, <1>9 DEF ReadyReplies
  <2>4. s \in Seq(Asked) /\ ~Has(s, Rejoins) /\ ~Has(s, GameLeaves)
        /\ Only(s, BegunOnly(server)) /\ Has(s, Spectates)
    BY <2>2, <2>s, OneAsked, ShortFacts
  <2>5. r \in Seq(Asked) BY <2>3, <2>4, <1>7, ConcatProperties
  <2>6. \A K : Has(r, K) <=> Has(s, K) \/ Has(t, K) BY <2>3, <2>4, <1>7, HasOfJoin
  <2>7. Only(r, BegunOnly(server)) BY <2>3, <2>4, <1>7, OnlyOfJoin
  <2> QED BY <2>4, <2>5, <2>6, <2>7, <1>1, <1>7, <1>9, NoRejoins
<1>10. CASE game = None /\ client.asked = None
  <2>1. r = <<>> \o t BY <1>1, <1>4, <1>6, <1>10 DEF ReadyReplies
  <2>2. r = t BY <2>1, <1>7, ConcatEmptySeq
  <2> QED BY <2>2, <1>1, <1>7, <1>10, NoRejoins
<1> QED BY <1>8, <1>9, <1>10

LEMMA ReadKeepsInv == ASSUME StoreInv, ClientReads PROVE StoreInv'
<1>0. /\ StoreTypeOK /\ WireInv /\ ClientInv /\ GamesInv /\ SearchInv
      /\ SeatInv /\ BoardInv /\ AudienceInv /\ WatchInv
      /\ client \in Clients /\ server \in Servers /\ up \in Seq(Asked) /\ down \in Seq(Said)
  BY InvFacts
<1>d. down # <<>> BY DEF ClientReads
<1>1. PICK m : m = Head(down) OBVIOUS
<1>2. PICK rest : rest = Tail(down) OBVIOUS
<1>3. PICK r : r = IF m.type = "connection_ready" THEN ReadyReplies(client, m) ELSE <<>> OBVIOUS
<1>4. m \in Said /\ rest \in Seq(Said) BY <1>0, <1>d, <1>1, <1>2, TailFacts
<1>5. /\ \A K : Has(down, K) <=> m \in K \/ Has(rest, K)
      /\ \A K : Only(down, K) <=> m \in K /\ Only(rest, K)
  BY <1>0, <1>d, <1>1, <1>2, TailFacts
<1>6. \A A, K : Followed(down, A, K) => Followed(rest, A, K) /\ (m \in A => Has(rest, K))
  BY <1>0, <1>d, <1>1, <1>2, TailFacts
<1>7. server.online BY <1>0, <1>d DEF WireInv
<1>8. m \in Told(server) BY <1>0, <1>5 DEF GamesInv
<1>9. m \in Readies <=> client.status = "connecting" BY <1>0, <1>1, <1>5 DEF WireInv
<1>10. client' = Handled(client, m) /\ server' = server /\ down' = rest
  BY <1>1, <1>2 DEF ClientReads
<1>11. Read(m) BY <1>0, <1>4, <1>10, EveryReading
<1>12. m \in Readies <=> m.type = "connection_ready" BY <1>4, KindFacts
<1>13. up \o <<>> = up BY <1>0, ConcatEmptySeq
<1>14. up' = up \o r BY <1>1, <1>3, <1>13 DEF ClientReads
<1>15. m \in Readies =>
         /\ r = ReadyReplies(client, m)
         /\ m.game \notin server.unplayed
  BY <1>3, <1>8, <1>12 DEF Told
<1>16. client.stored \notin server.unplayed BY <1>0 DEF GamesInv
<1>17. /\ r \in Seq(Asked) /\ RejoinsFirst(r) /\ ~Has(r, GameLeaves)
       /\ Only(r, BegunOnly(server))
  <2>1. CASE m \in Readies BY <2>1, <1>0, <1>4, <1>12, <1>15, <1>16, RepliesFacts
  <2>2. CASE m \notin Readies BY <2>2, <1>3, <1>12, OneAsked, ShortFacts, NoRejoins
  <2> QED BY <2>1, <2>2
<1>18. m \notin Readies => up' = up BY <1>3, <1>12, <1>13, <1>14
<1>19. ASSUME m \in Readies
       PROVE  /\ ReadyGame(client, m) # None =>
                   Has(r, Rejoins) /\ Has(r, {n \in Rejoins : n.game = ReadyGame(client, m)})
              /\ client.asked # None => Has(r, Rejoins) \/ Has(r, Spectates)
  BY <1>0, <1>4, <1>12, <1>15, <1>16, <1>19, RepliesFacts
<1>20. up' \in Seq(Asked) BY <1>0, <1>14, <1>17, ConcatProperties
<1>21. \A K : Has(up', K) <=> Has(up, K) \/ Has(r, K) BY <1>0, <1>14, <1>17, HasOfJoin
<1>22. \A K : Only(up', K) <=> Only(up, K) /\ Only(r, K) BY <1>0, <1>14, <1>17, OnlyOfJoin
<1>23. client' \in Clients /\ client'.page = client.page /\ client'.status \notin {"disconnected", "connecting"}
  BY <1>0, <1>7, <1>9, <1>11 DEF Read, WireInv
<1>24. client.stored # None => ReadyGame(client, m) # None BY ConstantFacts DEF ReadyGame
<1>25. StoreTypeOK' BY <1>0, <1>4, <1>10, <1>20, <1>23 DEF StoreTypeOK
<1>26. WireInv'
  <2>1. Only(rest, Said \ Readies) BY <1>0, <1>1, <1>2, <1>5 DEF WireInv
  <2> QED BY <2>1, <1>7, <1>10, <1>23 DEF WireInv
<1>27. ClientInv' BY <1>11 DEF Read, ClientInv
<1>28. GamesInv'
  <2>1. client'.stored \notin server.unplayed
    <3>1. \/ client'.stored \in {client.stored, None}
          \/ /\ m.type \in {"connection_ready", "match_found", "game_rejoined", "game_state"}
             /\ client'.stored = m.game
      BY <1>11 DEF Read
    <3> QED BY <3>1, <1>0, <1>8, <1>16, ServerFields, ConstantFacts DEF Told
  <2>2. Only(rest, Told(server)) /\ Only(up', BegunOnly(server))
    BY <1>0, <1>5, <1>17, <1>22 DEF GamesInv
  <2> QED BY <2>1, <2>2, <1>0, <1>10 DEF GamesInv, Told, BegunOnly
<1>29. SearchInv'
  <2>1. client'.queue = IF m \in SearchWords THEN SearchSaid(m) ELSE client.queue
    BY <1>11 DEF Read
  <2>2. RightSearch(server.seek) \subseteq SearchWords
        /\ (m \in RightSearch(server.seek) => SearchSaid(m) \in {None, server.seek})
    BY DEF RightSearch
  <2>3. ASSUME Followed(down, SearchWords \ RightSearch(server.seek), RightSearch(server.seek)),
               client.queue \in {None, server.seek} \/ Has(down, SearchWords)
        PROVE  client'.queue \in {None, server.seek} \/ Has(rest, SearchWords)
    <3>1. m \in SearchWords \ RightSearch(server.seek) => Has(rest, RightSearch(server.seek))
      BY <2>3, <1>6
    <3>2. Has(rest, RightSearch(server.seek)) => Has(rest, SearchWords) BY <2>2 DEF Has
    <3> QED BY <2>1, <2>2, <2>3, <3>1, <3>2, <1>5
  <2> QED BY <2>3, <1>0, <1>6, <1>7, <1>10, <1>21 DEF SearchInv
<1>30. SeatInv'
  <2>1. ASSUME server.online, server.mine # None, ~server.seated
        PROVE  /\ Has(up', {n \in Rejoins : n.game = server.mine})
               /\ ~Has(rest, SeatOf(server.mine))
    <3>1. \/ client.status = "connecting" /\ m.game = server.mine
          \/ Has(up, {n \in Rejoins : n.game = server.mine})
      BY <2>1, <1>0, <1>1 DEF SeatInv
    <3>2. m.game = server.mine => ReadyGame(client, m) = server.mine BY <2>1 DEF ReadyGame
    <3>3. ~Has(rest, SeatOf(server.mine)) BY <2>1, <1>0, <1>5 DEF SeatInv
    <3> QED BY <2>1, <3>1, <3>2, <3>3, <1>9, <1>19, <1>21
  <2>2. ASSUME server.seated
        PROVE  /\ Has(rest, SeatWords) \/ Holds(client', server.mine)
               /\ Followed(rest, SeatWords \ SeatOf(server.mine), SeatOf(server.mine))
    <3>1. /\ Has(down, SeatWords) \/ (client.status # "connecting" /\ Holds(client, server.mine))
          /\ Followed(down, SeatWords \ SeatOf(server.mine), SeatOf(server.mine))
      BY <2>2, <1>0 DEF SeatInv
    <3>2. server.mine \in Games BY <2>2, <1>0, ServerFields DEF GamesInv
    <3>3. CASE m \in SeatOf(server.mine) BY <3>1, <3>2, <3>3, <1>6, <1>11 DEF Read
    <3>4. CASE m \in SeatWords \ SeatOf(server.mine)
      <4>1. Has(rest, SeatOf(server.mine)) BY <3>1, <3>4, <1>6
      <4>2. Has(rest, SeatWords)
        BY <4>1 DEF Has, SeatOf, SeatWords, About, Kind
      <4> QED BY <4>2, <3>1, <1>6
    <3>5. CASE m \notin SeatWords
      <4>1. Has(rest, SeatWords) \/ (m \notin Readies /\ Holds(client, server.mine))
        BY <3>1, <3>5, <1>5, <1>9
      <4>2. m.type \in {"game_unavailable", "game_cancelled", "game_state", "game_rejoined"}
              => m.game # server.mine
        BY <3>5, <1>4, <1>8, KindFacts DEF Told
      <4>3. Has(rest, SeatWords) \/ Holds(client', server.mine)
        BY <4>1, <4>2, <3>2, <3>5, <1>11 DEF Read
      <4> QED BY <4>3, <3>1, <1>6
    <3> QED BY <3>3, <3>4, <3>5
  <2>3. Holds(client, server.mine)' = Holds(client', server.mine) BY <1>10
  <2> QED BY <2>1, <2>2, <1>10, <1>23 DEF SeatInv, Holds
<1>31. BoardInv'
  <2>1. ASSUME NEW g \in Games \ {server.mine}
        PROVE  \/ Has(up', Rejoins)
               \/ /\ AtOwnGame(client') /\ client'.board.game = g => Has(rest, Ends(g))
                  /\ Followed(rest, SeatOf(g), Ends(g))
    <3>1. SUFFICES ASSUME ~Has(up', Rejoins)
                   PROVE  /\ AtOwnGame(client') /\ client'.board.game = g => Has(rest, Ends(g))
                          /\ Followed(rest, SeatOf(g), Ends(g))
      OBVIOUS
    <3>2. /\ AtOwnGame(client) /\ client.board.game = g => Has(down, Ends(g))
          /\ Followed(down, SeatOf(g), Ends(g))
      BY <3>1, <2>1, <1>0, <1>7, <1>21 DEF BoardInv
    <3>3. ASSUME AtOwnGame(client'), client'.board.game = g PROVE Has(rest, Ends(g))
      <4>1. \/ m \in SeatOf(g)
            \/ /\ AtOwnGame(client) /\ client'.board = client.board
               /\ m \in Ends(client.board.game) => m \in Readies
        BY <3>3, <1>11 DEF Read
      <4>2. CASE m \in SeatOf(g) BY <4>2, <3>2, <1>6
      <4>3. CASE /\ AtOwnGame(client) /\ client'.board = client.board
                 /\ m \in Ends(client.board.game) => m \in Readies
        <5>1. client.stored # None BY <4>3, <1>0 DEF ClientInv
        <5>2. m \notin Readies BY <5>1, <3>1, <1>19, <1>21, <1>24
        <5> QED BY <5>2, <4>3, <3>2, <3>3, <1>5
      <4> QED BY <4>1, <4>2, <4>3
    <3> QED BY <3>2, <3>3, <1>6
  <2> QED BY <2>1, <1>10 DEF BoardInv, AtOwnGame, Shows
<1>32. AudienceInv'
  <2>1. Has(up', Rejoins) => server.audience = None
    BY <1>0, <1>9, <1>18 DEF AudienceInv, WireInv
  <2>2. RejoinsFirst(up')
    <3>1. m \in Readies => Only(up, Leaves) BY <1>0, <1>9 DEF WireInv
    <3> QED BY <3>1, <1>0, <1>14, <1>17, <1>18, RejoinsFirstOfJoin DEF AudienceInv
  <2>3. ASSUME server.audience # None, ~server.stranded, ~Has(up', GameLeaves)
        PROVE  /\ \/ Has(rest, WatchWords)
                  \/ /\ client'.asked # None
                     /\ Shows(client', "watch") => client'.board.game = server.audience
               /\ Followed(rest, WatchWords \ JoinedOf(server.audience), JoinedOf(server.audience))
    <3>1. /\ \/ Has(down, WatchWords)
             \/ /\ client.asked # None
                /\ Shows(client, "watch") => client.board.game = server.audience
          /\ Followed(down, WatchWords \ JoinedOf(server.audience), JoinedOf(server.audience))
      BY <2>3, <1>0, <1>21 DEF AudienceInv
    <3>2. server.audience \in Games /\ server.audience \in server.live
      BY <2>3, <1>0, ServerFields DEF GamesInv
    <3>3. m \notin Readies BY <2>3, <1>0, <1>9 DEF WireInv
    <3>4. CASE m \in JoinedOf(server.audience) BY <3>1, <3>2, <3>4, <1>6, <1>11 DEF Read
    <3>5. CASE m \in WatchWords \ JoinedOf(server.audience)
      <4>1. Has(rest, JoinedOf(server.audience)) BY <3>1, <3>5, <1>6
      <4>2. Has(rest, WatchWords) BY <4>1 DEF Has, JoinedOf, WatchWords, About, Kind
      <4> QED BY <4>2, <3>1, <1>6
    <3>6. CASE m \notin WatchWords
      <4>1. m.type = "game_state" => m.game # server.audience BY <3>2, <1>8 DEF Told
      <4>2. \/ Has(rest, WatchWords)
            \/ /\ client'.asked # None
               /\ Shows(client', "watch") => client'.board.game = server.audience
        BY <4>1, <3>1, <3>2, <3>3, <3>6, <1>5, <1>11 DEF Read
      <4> QED BY <4>2, <3>1, <1>6
    <3> QED BY <3>4, <3>5, <3>6
  <2> QED BY <2>1, <2>2, <2>3, <1>10 DEF AudienceInv, Shows
<1>33. WatchInv'
  <2>1. client'.page = "watch" => Followed(up', GameLeaves, Spectates)
    <3>1. Followed(r, GameLeaves, Spectates) BY <1>17 DEF Has, Followed
    <3> QED BY <3>1, <1>0, <1>14, <1>17, <1>23, FollowedOfJoin DEF WatchInv
  <2>2. ASSUME NEW g \in Games \ {server.audience}
        PROVE  \/ client'.page # "watch" \/ Has(up', Rejoins) \/ Has(up', Spectates)
               \/ /\ Shows(client', "watch") /\ client'.board.live /\ client'.board.game = g
                       => Has(rest, Ends(g))
                  /\ Followed(rest, JoinedOf(g), Ends(g))
    <3>1. SUFFICES ASSUME client.page = "watch", ~Has(up', Rejoins), ~Has(up', Spectates)
                   PROVE  /\ Shows(client', "watch") /\ client'.board.live /\ client'.board.game = g
                               => Has(rest, Ends(g))
                          /\ Followed(rest, JoinedOf(g), Ends(g))
      BY <1>23
    <3>2. /\ Shows(client, "watch") /\ client.board.live /\ client.board.game = g
               => Has(down, Ends(g))
          /\ Followed(down, JoinedOf(g), Ends(g))
      BY <3>1, <2>2, <1>0, <1>7, <1>21 DEF WatchInv
    <3>3. ASSUME Shows(client', "watch"), client'.board.live, client'.board.game = g
          PROVE  Has(rest, Ends(g))
      <4>1. \/ m \in JoinedOf(g)
            \/ /\ Shows(client, "watch") /\ client'.board = client.board
               /\ m \in Ends(client.board.game) => m \in Readies
        BY <3>3, <1>11 DEF Read
      <4>2. CASE m \in JoinedOf(g) BY <4>2, <3>2, <1>6
      <4>3. CASE /\ Shows(client, "watch") /\ client'.board = client.board
                 /\ m \in Ends(client.board.game) => m \in Readies
        <5>1. client.asked # None \/ client.stored # None BY <4>3, <3>3, <1>0 DEF ClientInv
        <5>2. m \notin Readies BY <5>1, <3>1, <1>19, <1>21, <1>24
        <5> QED BY <5>2, <4>3, <3>2, <3>3, <1>5
      <4> QED BY <4>1, <4>2, <4>3
    <3> QED BY <3>2, <3>3, <1>6
  <2> QED BY <2>1, <2>2, <1>10 DEF WatchInv, Shows
<1> QED
  BY <1>25, <1>26, <1>27, <1>28, <1>29, <1>30, <1>31, <1>32, <1>33 DEF StoreInv

-----------------------------------------------------------------------------
(* The server: it reads, or does something of its own.                     *)

RejoinsOf(g) == {m \in Rejoins : m.game = g}

\* What the server says is added to what is on its way, and it has read at most
\* one message.
ServedMail(t) ==
  /\ t \in Seq(Said) /\ ~Has(t, Readies)
  /\ client' = client /\ server' \in Servers /\ server'.online = server.online
  /\ down' = IF server.online THEN down \o t ELSE down
  /\ up' = up \/ (up # <<>> /\ up' = Tail(up))

ServedGames(t) ==
  /\ ~server.online => ~server'.seated /\ server'.audience = None
  /\ client.status = "connecting" => server'.audience = None
  /\ server'.live \cap server'.unplayed = {}
  /\ server'.mine # None => /\ server'.mine \in server'.live /\ server'.seek = None
                            /\ server'.audience = None
  /\ server'.seated => server'.mine # None
  /\ server'.audience # None => server'.audience \in server'.live
  /\ server'.unplayed \subseteq server.unplayed
  /\ Told(server) \subseteq Told(server')
  /\ Only(t, Told(server'))

ServedSearch(t) ==
  server.online =>
    \/ server'.refused
    \/ /\ server'.seek = server.seek /\ server'.refused = server.refused
       /\ ~Has(t, SearchWords) /\ (Has(up, Searches) => Has(up', Searches))
    \/ /\ Has(t, RightSearch(server'.seek))
       /\ Only(t, (Said \ SearchWords) \cup RightSearch(server'.seek))

ServedSeat(t) ==
  /\ server.online /\ server'.mine # None /\ ~server'.seated =>
       /\ server'.mine = server.mine /\ ~server.seated
       /\ Has(up, RejoinsOf(server.mine)) => Has(up', RejoinsOf(server.mine))
       /\ ~Has(t, SeatOf(server.mine))
  /\ server'.seated =>
       \/ server.seated /\ server'.mine = server.mine /\ ~Has(t, SeatWords)
       \/ /\ Has(t, SeatOf(server'.mine))
          /\ Only(t, (Said \ SeatWords) \cup SeatOf(server'.mine))

ServedBoard(t) ==
  server.online => \A g \in Games \ {server'.mine} :
    \/ Has(up', Rejoins)
    \/ /\ ~Has(t, SeatOf(g))
       /\ \/ Has(t, Ends(g))
          \/ g # server.mine /\ (Has(up, Rejoins) => Has(up', Rejoins))
          \/ client.status = "connecting" /\ ~Has(down, SeatOf(g))

ServedAudience(t) ==
  /\ Has(up', Rejoins) => server'.audience = None
  /\ server'.audience # None /\ ~server'.stranded =>
       \/ /\ server'.audience = server.audience /\ ~server.stranded /\ ~Has(t, WatchWords)
          /\ Has(up, GameLeaves) => Has(up', GameLeaves)
       \/ /\ Has(t, JoinedOf(server'.audience))
          /\ Only(t, (Said \ WatchWords) \cup JoinedOf(server'.audience))

ServedWatch(t) ==
  server.online => \A g \in Games \ {server'.audience} :
    \/ client.page # "watch" \/ Has(up', Rejoins) \/ Has(up', Spectates)
    \/ /\ ~Has(t, JoinedOf(g))
       /\ \/ Has(t, Ends(g))
          \/ /\ g # server.audience
             /\ Has(up, Rejoins) => Has(up', Rejoins)
             /\ Has(up, Spectates) => Has(up', Spectates)

Served(t) ==
  /\ ServedMail(t) /\ ServedGames(t) /\ ServedSearch(t) /\ ServedSeat(t)
  /\ ServedBoard(t) /\ ServedAudience(t) /\ ServedWatch(t)

\* Messages none of which is of A are not waited for.
LEMMA NoneToFollow ==
  ASSUME NEW S, NEW t \in Seq(S), NEW A, NEW B, NEW K,
         ~Has(t, A) \/ (Only(t, (S \ B) \cup K) /\ A = B \ K)
  PROVE  Followed(t, A, K)
BY DEF Has, Only, Followed

LEMMA HeadOfJoin ==
  ASSUME NEW S, NEW s \in Seq(S), NEW t \in Seq(S), s # <<>>
  PROVE  s \o t # <<>> /\ Head(s \o t) = Head(s) /\ Tail(s \o t) = Tail(s) \o t
<1> DEFINE u == s \o t
           v == Tail(s)
           w == v \o t
<1>1. Len(s) \in Nat \ {0} /\ Len(t) \in Nat BY EmptySeq, LenProperties
<1>2. /\ u \in Seq(S) /\ Len(u) = Len(s) + Len(t)
      /\ \A i \in 1..(Len(s) + Len(t)) : u[i] = IF i <= Len(s) THEN s[i] ELSE t[i - Len(s)]
  BY ConcatProperties
<1>3. /\ Head(s) = s[1] /\ v \in Seq(S) /\ Len(v) = Len(s) - 1
      /\ \A i \in 1..Len(v) : v[i] = s[i + 1]
  BY HeadTailProperties
<1>4. /\ w \in Seq(S) /\ Len(w) = Len(v) + Len(t)
      /\ \A i \in 1..(Len(v) + Len(t)) : w[i] = IF i <= Len(v) THEN v[i] ELSE t[i - Len(v)]
  BY <1>3, ConcatProperties
<1> HIDE DEF u, v, w
<1>5. u # <<>> BY <1>1, <1>2, EmptySeq
<1>6. /\ Head(u) = u[1] /\ Tail(u) \in Seq(S) /\ Len(Tail(u)) = Len(u) - 1
      /\ \A i \in 1..Len(Tail(u)) : Tail(u)[i] = u[i + 1]
  BY <1>2, <1>5, HeadTailProperties
<1>7. Head(u) = Head(s) BY <1>1, <1>2, <1>3, <1>6
<1>8. Len(Tail(u)) = Len(w) /\ Len(w) \in Nat BY <1>1, <1>2, <1>3, <1>4, <1>6
<1>9. ASSUME NEW i \in 1..Len(w) PROVE Tail(u)[i] = w[i]
  <2>1. Tail(u)[i] = u[i + 1] /\ i + 1 \in 1..(Len(s) + Len(t)) BY <1>1, <1>3, <1>4, <1>6, <1>8
  <2>2. CASE i <= Len(v)
    <3>1. i \in 1..Len(v) /\ i + 1 <= Len(s) BY <2>2, <1>1, <1>3, <1>4
    <3> QED BY <2>1, <2>2, <3>1, <1>2, <1>3, <1>4
  <2>3. CASE ~(i <= Len(v))
    <3>1. ~(i + 1 <= Len(s)) /\ (i + 1) - Len(s) = i - Len(v) BY <2>3, <1>1, <1>3, <1>4
    <3> QED BY <2>1, <2>3, <3>1, <1>2, <1>4
  <2> QED BY <2>2, <2>3
<1>10. Tail(u) = w BY <1>4, <1>6, <1>8, <1>9, SeqEqual
<1> QED BY <1>5, <1>7, <1>10 DEF u, v, w

LEMMA ServedKeepsInv == ASSUME StoreInv, NEW t, Served(t) PROVE StoreInv'
<1>0. /\ StoreTypeOK /\ WireInv /\ ClientInv /\ GamesInv /\ SearchInv
      /\ SeatInv /\ BoardInv /\ AudienceInv /\ WatchInv
      /\ client \in Clients /\ server \in Servers /\ up \in Seq(Asked) /\ down \in Seq(Said)
  BY InvFacts
<1>1. /\ ServedMail(t) /\ ServedGames(t) /\ ServedSearch(t) /\ ServedSeat(t)
      /\ ServedBoard(t) /\ ServedAudience(t) /\ ServedWatch(t)
  BY DEF Served
<1>2. /\ t \in Seq(Said) /\ ~Has(t, Readies)
      /\ client' = client /\ server' \in Servers /\ server'.online = server.online
      /\ down' = IF server.online THEN down \o t ELSE down
      /\ up' = up \/ (up # <<>> /\ up' = Tail(up))
  BY <1>1 DEF ServedMail
<1>3. down \o t \in Seq(Said) BY <1>0, <1>2, ConcatProperties
<1>4. down' \in Seq(Said) BY <1>0, <1>2, <1>3
<1>5. up' \in Seq(Asked)
  <2>1. up # <<>> => Tail(up) \in Seq(Asked) BY <1>0, TailFacts
  <2> QED BY <2>1, <1>0, <1>2
<1>6. \A K : Has(down', K) <=> Has(down, K) \/ (server.online /\ Has(t, K))
  BY <1>0, <1>2, HasOfJoin
<1>7. \A K : Only(down', K) <=> Only(down, K) /\ (server.online => Only(t, K))
  BY <1>0, <1>2, OnlyOfJoin
<1>8. ASSUME server.online, NEW A, NEW K, Followed(t, A, K), Has(t, K) \/ Followed(down, A, K)
      PROVE  Followed(down', A, K)
  BY <1>0, <1>2, <1>8, FollowedOfJoin
<1>9. \A K : Only(up, K) => Only(up', K) BY <1>0, <1>2, TailFacts
<1>10. \A A, K : Followed(up, A, K) => Followed(up', A, K)
  <2>1. up # <<>> => \A A, K : Followed(up, A, K) => Followed(Tail(up), A, K)
    BY <1>0, TailFacts
  <2> QED BY <2>1, <1>2
<1>11. StoreTypeOK' BY <1>0, <1>2, <1>4, <1>5 DEF StoreTypeOK
<1>12. WireInv'
  <2>1. ~server.online => up' = <<>> /\ down' = <<>> /\ ~server'.seated /\ server'.audience = None
    BY <1>0, <1>1, <1>2 DEF WireInv, ServedGames
  <2>2. Only(t, Said \ Readies)
    BY <1>2, ElementOfSeq, LenProperties DEF Only, Has
  <2>3. client.status # "connecting" => Only(down', Said \ Readies)
    BY <2>2, <1>0, <1>7 DEF WireInv
  <2>4. ASSUME client.status = "connecting"
        PROVE  /\ down' # <<>> /\ Head(down') \in Readies /\ Only(Tail(down'), Said \ Readies)
               /\ Only(up', Leaves) /\ server'.audience = None
    <3>1. /\ down # <<>> /\ Head(down) \in Readies /\ Only(Tail(down), Said \ Readies)
          /\ Only(up, Leaves) /\ server.online
      BY <2>4, <1>0 DEF WireInv
    <3>2. down' # <<>> /\ Head(down') = Head(down) /\ Tail(down') = Tail(down) \o t
      BY <3>1, <1>0, <1>2, HeadOfJoin
    <3>3. Tail(down) \in Seq(Said) BY <3>1, <1>0, TailFacts
    <3>4. Only(Tail(down) \o t, Said \ Readies) BY <3>1, <3>3, <2>2, <1>2, OnlyOfJoin
    <3>5. server'.audience = None BY <2>4, <1>1 DEF ServedGames
    <3> QED BY <3>1, <3>2, <3>4, <3>5, <1>9
  <2> QED BY <2>1, <2>3, <2>4, <1>0, <1>2 DEF WireInv
<1>13. ClientInv' BY <1>0, <1>2 DEF ClientInv, AtOwnGame, Shows
<1>14. GamesInv'
  <2>1. client.stored \notin server'.unplayed BY <1>0, <1>1 DEF GamesInv, ServedGames
  <2>2. Only(down', Told(server'))
    <3>1. Only(down, Told(server)) BY <1>0 DEF GamesInv
    <3>2. Told(server) \subseteq Told(server') /\ Only(t, Told(server')) BY <1>1 DEF ServedGames
    <3>3. Only(down, Told(server')) BY <3>1, <3>2 DEF Only
    <3> QED BY <3>2, <3>3, <1>7
  <2>3. Only(up', BegunOnly(server'))
    <3>1. Only(up', BegunOnly(server)) BY <1>0, <1>9 DEF GamesInv
    <3>2. BegunOnly(server) \subseteq BegunOnly(server') BY <1>1 DEF BegunOnly, ServedGames
    <3> QED BY <3>1, <3>2 DEF Only
  <2>4. Told(server') = Told(server)' /\ BegunOnly(server') = BegunOnly(server)'
    BY DEF Told, BegunOnly
  <2> QED BY <2>1, <2>2, <2>3, <2>4, <1>1, <1>2 DEF GamesInv, ServedGames
<1>15. SearchInv'
  <2>1. SUFFICES ASSUME server.online, ~Has(up', Searches), ~server'.refused
                 PROVE  /\ client.queue \in {None, server'.seek} \/ Has(down', SearchWords)
                        /\ Followed(down', SearchWords \ RightSearch(server'.seek),
                                    RightSearch(server'.seek))
    <3>1. RightSearch(server.seek)' = RightSearch(server'.seek)
      BY DEF RightSearch, SearchSaid, SearchWords, Kind
    <3> QED BY <3>1, <1>2 DEF SearchInv
  <2>2. CASE /\ server'.seek = server.seek /\ server'.refused = server.refused
             /\ ~Has(t, SearchWords) /\ (Has(up, Searches) => Has(up', Searches))
    <3>1. /\ client.queue \in {None, server.seek} \/ Has(down, SearchWords)
          /\ Followed(down, SearchWords \ RightSearch(server.seek), RightSearch(server.seek))
      BY <2>1, <2>2, <1>0 DEF SearchInv
    <3>2. Followed(t, SearchWords \ RightSearch(server.seek), RightSearch(server.seek))
      BY <2>2 DEF Followed, Has
    <3> QED BY <3>1, <3>2, <2>1, <2>2, <1>6, <1>8
  <2>3. CASE /\ Has(t, RightSearch(server'.seek))
             /\ Only(t, (Said \ SearchWords) \cup RightSearch(server'.seek))
    <3>1. Followed(t, SearchWords \ RightSearch(server'.seek), RightSearch(server'.seek))
      BY <2>3, <1>2, NoneToFollow
    <3>2. Has(t, SearchWords) BY <2>3 DEF Has, RightSearch
    <3> QED BY <3>1, <3>2, <2>1, <2>3, <1>6, <1>8
  <2> QED BY <2>1, <2>2, <2>3, <1>1 DEF ServedSearch
<1>16. SeatInv'
  <2>1. ASSUME server.online, server'.mine # None, ~server'.seated
        PROVE  /\ \/ client.status = "connecting" /\ Head(down').game = server'.mine
                  \/ Has(up', RejoinsOf(server'.mine))
               /\ ~Has(down', SeatOf(server'.mine))
    <3>1. /\ server'.mine = server.mine /\ ~server.seated
          /\ Has(up, RejoinsOf(server.mine)) => Has(up', RejoinsOf(server.mine))
          /\ ~Has(t, SeatOf(server.mine))
      BY <2>1, <1>1 DEF ServedSeat
    <3>2. /\ \/ client.status = "connecting" /\ Head(down).game = server.mine
             \/ Has(up, RejoinsOf(server.mine))
          /\ ~Has(down, SeatOf(server.mine))
      BY <3>1, <2>1, <1>0 DEF SeatInv, RejoinsOf
    <3>3. client.status = "connecting" => Head(down') = Head(down)
      BY <2>1, <1>0, <1>2, HeadOfJoin DEF WireInv
    <3> QED BY <3>1, <3>2, <3>3, <1>6
  <2>2. ASSUME server'.seated
        PROVE  /\ \/ Has(down', SeatWords)
                  \/ client.status # "connecting" /\ Holds(client, server'.mine)
               /\ Followed(down', SeatWords \ SeatOf(server'.mine), SeatOf(server'.mine))
    <3>1. server.online BY <2>2, <1>1, <1>2, ServerFields DEF ServedGames
    <3>2. CASE server.seated /\ server'.mine = server.mine /\ ~Has(t, SeatWords)
      <4>1. /\ \/ Has(down, SeatWords)
               \/ client.status # "connecting" /\ Holds(client, server.mine)
            /\ Followed(down, SeatWords \ SeatOf(server.mine), SeatOf(server.mine))
        BY <3>2, <1>0 DEF SeatInv
      <4>2. Followed(t, SeatWords \ SeatOf(server.mine), SeatOf(server.mine))
        BY <3>2 DEF Followed, Has
      <4> QED BY <4>1, <4>2, <3>1, <3>2, <1>6, <1>8
    <3>3. CASE /\ Has(t, SeatOf(server'.mine))
               /\ Only(t, (Said \ SeatWords) \cup SeatOf(server'.mine))
      <4>1. Followed(t, SeatWords \ SeatOf(server'.mine), SeatOf(server'.mine))
        BY <3>3, <1>2, NoneToFollow
      <4>2. Has(t, SeatWords) BY <3>3 DEF Has, SeatOf, SeatWords, About, Kind
      <4> QED BY <4>1, <4>2, <3>1, <3>3, <1>6, <1>8
    <3> QED BY <3>2, <3>3, <2>2, <1>1 DEF ServedSeat
  <2>3. SeatOf(server.mine)' = SeatOf(server'.mine) BY DEF SeatOf, About, Kind
  <2>4. Holds(client, server.mine)' = Holds(client, server'.mine) BY <1>2 DEF Holds
  <2>5. \A g : RejoinsOf(g) = {m \in Rejoins : m.game = g} BY DEF RejoinsOf
  <2> QED BY <2>1, <2>2, <2>3, <2>4, <2>5, <1>2 DEF SeatInv
<1>17. BoardInv'
  <2>1. ASSUME server.online, NEW g \in Games \ {server'.mine}, ~Has(up', Rejoins)
        PROVE  /\ AtOwnGame(client) /\ client.board.game = g => Has(down', Ends(g))
               /\ Followed(down', SeatOf(g), Ends(g))
    <3>1. /\ ~Has(t, SeatOf(g))
          /\ \/ Has(t, Ends(g))
             \/ g # server.mine /\ (Has(up, Rejoins) => Has(up', Rejoins))
             \/ client.status = "connecting" /\ ~Has(down, SeatOf(g))
      BY <2>1, <1>1 DEF ServedBoard
    <3>2. Followed(t, SeatOf(g), Ends(g)) BY <3>1 DEF Followed, Has
    <3>3. CASE Has(t, Ends(g)) BY <3>2, <3>3, <2>1, <1>6, <1>8
    <3>4. CASE g # server.mine /\ (Has(up, Rejoins) => Has(up', Rejoins))
      <4>1. /\ AtOwnGame(client) /\ client.board.game = g => Has(down, Ends(g))
            /\ Followed(down, SeatOf(g), Ends(g))
        BY <3>4, <2>1, <1>0 DEF BoardInv
      <4> QED BY <4>1, <3>2, <2>1, <1>6, <1>8
    <3>5. CASE client.status = "connecting" /\ ~Has(down, SeatOf(g))
      <4>1. Followed(down, SeatOf(g), Ends(g)) BY <3>5 DEF Followed, Has
      <4>2. Has(down, Readies) BY <3>5, <1>0, TailFacts DEF WireInv
      <4>3. Has(down, Ends(g)) BY <4>2 DEF Has, Readies, Ends, Kind
      <4> QED BY <4>1, <4>3, <3>2, <2>1, <1>6, <1>8
    <3> QED BY <3>1, <3>3, <3>4, <3>5
  <2> QED BY <2>1, <1>2 DEF BoardInv, AtOwnGame, Shows
<1>18. AudienceInv'
  <2>1. Has(up', Rejoins) => server'.audience = None BY <1>1 DEF ServedAudience
  <2>2. RejoinsFirst(up') BY <1>0, <1>2, RejoinsFirstOfTail DEF AudienceInv
  <2>3. ASSUME server'.audience # None, ~server'.stranded, ~Has(up', GameLeaves)
        PROVE  /\ \/ Has(down', WatchWords)
                  \/ /\ client.asked # None
                     /\ Shows(client, "watch") => client.board.game = server'.audience
               /\ Followed(down', WatchWords \ JoinedOf(server'.audience),
                           JoinedOf(server'.audience))
    <3>1. server.online BY <2>3, <1>1, <1>2, ServerFields DEF ServedGames
    <3>2. CASE /\ server'.audience = server.audience /\ ~server.stranded /\ ~Has(t, WatchWords)
               /\ Has(up, GameLeaves) => Has(up', GameLeaves)
      <4>1. /\ \/ Has(down, WatchWords)
               \/ /\ client.asked # None
                  /\ Shows(client, "watch") => client.board.game = server.audience
            /\ Followed(down, WatchWords \ JoinedOf(server.audience), JoinedOf(server.audience))
        BY <3>2, <2>3, <1>0 DEF AudienceInv
      <4>2. Followed(t, WatchWords \ JoinedOf(server.audience), JoinedOf(server.audience))
        BY <3>2 DEF Followed, Has
      <4> QED BY <4>1, <4>2, <3>1, <3>2, <1>6, <1>8
    <3>3. CASE /\ Has(t, JoinedOf(server'.audience))
               /\ Only(t, (Said \ WatchWords) \cup JoinedOf(server'.audience))
      <4>1. Followed(t, WatchWords \ JoinedOf(server'.audience), JoinedOf(server'.audience))
        BY <3>3, <1>2, NoneToFollow
      <4>2. Has(t, WatchWords) BY <3>3 DEF Has, JoinedOf, WatchWords, About, Kind
      <4> QED BY <4>1, <4>2, <3>1, <3>3, <1>6, <1>8
    <3> QED BY <3>2, <3>3, <2>3, <1>1 DEF ServedAudience
  <2>4. JoinedOf(server.audience)' = JoinedOf(server'.audience) BY DEF JoinedOf, About, Kind
  <2> QED BY <2>1, <2>2, <2>3, <2>4, <1>2 DEF AudienceInv, Shows
<1>19. WatchInv'
  <2>1. client.page = "watch" => Followed(up', GameLeaves, Spectates)
    BY <1>0, <1>10 DEF WatchInv
  <2>2. ASSUME server.online, NEW g \in Games \ {server'.audience},
               client.page = "watch", ~Has(up', Rejoins), ~Has(up', Spectates)
        PROVE  /\ Shows(client, "watch") /\ client.board.live /\ client.board.game = g
                    => Has(down', Ends(g))
               /\ Followed(down', JoinedOf(g), Ends(g))
    <3>1. /\ ~Has(t, JoinedOf(g))
          /\ \/ Has(t, Ends(g))
             \/ /\ g # server.audience
                /\ Has(up, Rejoins) => Has(up', Rejoins)
                /\ Has(up, Spectates) => Has(up', Spectates)
      BY <2>2, <1>1 DEF ServedWatch
    <3>2. Followed(t, JoinedOf(g), Ends(g)) BY <3>1 DEF Followed, Has
    <3>3. CASE Has(t, Ends(g)) BY <3>2, <3>3, <2>2, <1>6, <1>8
    <3>4. CASE /\ g # server.audience
               /\ Has(up, Rejoins) => Has(up', Rejoins)
               /\ Has(up, Spectates) => Has(up', Spectates)
      <4>1. /\ Shows(client, "watch") /\ client.board.live /\ client.board.game = g
                 => Has(down, Ends(g))
            /\ Followed(down, JoinedOf(g), Ends(g))
        BY <3>4, <2>2, <1>0 DEF WatchInv
      <4> QED BY <4>1, <3>2, <2>2, <1>6, <1>8
    <3> QED BY <3>1, <3>3, <3>4
  <2> QED BY <2>1, <2>2, <1>2 DEF WatchInv, Shows
<1> QED
  BY <1>11, <1>12, <1>13, <1>14, <1>15, <1>16, <1>17, <1>18, <1>19 DEF StoreInv

\* The first of what was sent is read.
Reading(m) ==
  /\ m \in Asked /\ server.online
  /\ up # <<>> /\ up' = Tail(up)
  /\ \A K : Has(up, K) <=> m \in K \/ Has(up', K)
  /\ m.type = "rejoin_game" => m.game \notin server.unplayed
  /\ server.mine # None /\ ~server.seated => m \in Leaves \cup Rejoins
  /\ Has(up', Rejoins) => m \in Leaves /\ server.audience = None
  /\ m \in Rejoins => server.audience = None
  /\ client.status = "connecting" => m \in Leaves
  /\ m \in GameLeaves => client.page # "watch" \/ Has(up', Spectates)

LEMMA ReadingFacts ==
  ASSUME StoreInv, ServerReads, NEW m, m = Head(up) PROVE Reading(m)
<1>0. /\ WireInv /\ GamesInv /\ SeatInv /\ AudienceInv /\ WatchInv
      /\ up \in Seq(Asked) /\ server \in Servers
  BY InvFacts
<1>1. up # <<>> /\ up' = Tail(up) BY DEF ServerReads
<1>2. /\ m \in Asked /\ \A K : Has(up, K) <=> m \in K \/ Has(up', K)
  BY <1>0, <1>1, TailFacts
<1>3. \A K : Only(up, K) => m \in K BY <1>0, <1>1, TailFacts
<1>4. \A A, K : Followed(up, A, K) => (m \in A => Has(up', K)) BY <1>0, <1>1, TailFacts
<1>5. server.online BY <1>0, <1>1, ServerFields DEF WireInv
<1>6. Has(up', Rejoins) => m \in Leaves BY <1>0, <1>1, RejoinsFirstOfTail DEF AudienceInv
<1>7. m.type = "rejoin_game" => m.game \notin server.unplayed
  BY <1>0, <1>3 DEF GamesInv, BegunOnly
<1>8. client.status = "connecting" => m \in Leaves BY <1>0, <1>3 DEF WireInv
<1>9. server.mine # None /\ ~server.seated => m \in Leaves \cup Rejoins
  <2>1. SUFFICES ASSUME server.mine # None, ~server.seated, client.status # "connecting"
                 PROVE  m \in Leaves \cup Rejoins
    BY <1>8
  <2>2. Has(up, RejoinsOf(server.mine)) BY <2>1, <1>0, <1>5 DEF SeatInv, RejoinsOf
  <2>3. Has(up, Rejoins) BY <2>2 DEF Has, RejoinsOf
  <2> QED BY <2>3, <1>2, <1>6
<1>10. m \in Rejoins \/ Has(up', Rejoins) => server.audience = None
  BY <1>0, <1>2 DEF AudienceInv
<1>11. m \in GameLeaves => client.page # "watch" \/ Has(up', Spectates)
  BY <1>0, <1>4 DEF WatchInv
<1> QED BY <1>1, <1>2, <1>5, <1>6, <1>7, <1>8, <1>9, <1>10, <1>11 DEF Reading

LEMMA AskedKindFacts ==
  \A m \in Asked :
    /\ m \in Leaves <=> m.type \in {"leave_queue", "leave_game"}
    /\ m \in GameLeaves <=> m.type = "leave_game"
    /\ m \in Searches <=> m.type \in {"join_queue", "leave_queue"}
    /\ m \in Rejoins <=> m.type = "rejoin_game"
    /\ m \in Spectates <=> m.type = "spectate_game"
    /\ \A g : m \in RejoinsOf(g) <=> m.type = "rejoin_game" /\ m.game = g
BY DEF Leaves, GameLeaves, Searches, Rejoins, Spectates, RejoinsOf

LEMMA OneWord ==
  ASSUME NEW n \in Said
  PROVE  /\ <<n>> \in Seq(Said)
         /\ \A K : (Has(<<n>>, K) <=> n \in K) /\ (Only(<<n>>, K) <=> n \in K)
BY ShortFacts

LEMMA NoWord ==
  <<>> \in Seq(Said) /\ \A K : ~Has(<<>>, K) /\ Only(<<>>, K)
BY EmptySeq, ShortFacts

\* The games are as they were.
LEMMA SameGames ==
  ASSUME StoreInv, NEW t, server' \in Servers,
         server'.mine = server.mine, server'.live = server.live,
         server'.unplayed = server.unplayed,
         server'.seated => server.mine # None,
         ~server.online => server'.seated = server.seated /\ server'.audience = server.audience,
         client.status = "connecting" => server'.audience \in {server.audience, None},
         server.mine # None => server'.seek = None /\ server'.audience = None,
         server'.audience # None => server'.audience \in server.live,
         Only(t, Told(server))
  PROVE  ServedGames(t)
<1>1. WireInv /\ GamesInv BY InvFacts
<1>2. Told(server') = Told(server) BY DEF Told
<1> QED BY <1>1, <1>2 DEF ServedGames, WireInv, GamesInv

\* The seat is as it was, and nothing is said of it.
LEMMA SameSeat ==
  ASSUME NEW t, server'.mine = server.mine, server'.seated = server.seated,
         server.seated \in BOOLEAN, ~Has(t, SeatWords),
         Has(up, Rejoins) => Has(up', Rejoins),
         Has(up, RejoinsOf(server.mine)) => Has(up', RejoinsOf(server.mine))
  PROVE  ServedSeat(t) /\ ServedBoard(t)
<1>1. \A g : SeatOf(g) \subseteq SeatWords BY DEF SeatOf, SeatWords, About, Kind
<1>2. \A g : ~Has(t, SeatOf(g)) BY <1>1 DEF Has
<1> QED BY <1>2 DEF ServedSeat, ServedBoard

\* The audience is as it was, and nothing is said of it.
LEMMA SameAudience ==
  ASSUME NEW t, server'.audience = server.audience, server'.stranded = server.stranded,
         ~Has(t, WatchWords),
         Has(up', Rejoins) => server.audience = None,
         \A K \in {GameLeaves, Rejoins, Spectates} : Has(up, K) => Has(up', K)
  PROVE  ServedAudience(t) /\ ServedWatch(t)
<1>1. \A g : JoinedOf(g) \subseteq WatchWords BY DEF JoinedOf, WatchWords, About, Kind
<1>2. \A g : ~Has(t, JoinedOf(g)) BY <1>1 DEF Has
<1> QED BY <1>2 DEF ServedAudience, ServedWatch

\* A search begins, ends or is spoken of.
LEMMA SearchServes ==
  ASSUME StoreInv, NEW n \in Said, n.type \in {"queue_update", "queue_left", "error"},
         NEW seek \in Modes \cup {None}, NEW refused \in BOOLEAN,
         Serves([server EXCEPT !.seek = seek, !.refused = refused], <<n>>),
         server.mine # None => seek = None,
         n.type = "queue_update" => n.mode = seek,
         n.type = "error" => refused,
         up' = up \/ \E m : Reading(m) /\ m.type \in {"join_queue", "leave_queue"}
  PROVE  \E t : Served(t)
<1>0. /\ WireInv /\ GamesInv /\ AudienceInv /\ server \in Servers /\ server.seated \in BOOLEAN
  BY InvFacts, ServerFields
<1>1. PICK t : t = <<n>> OBVIOUS
<1>2. /\ t \in Seq(Said)
      /\ \A K : (Has(t, K) <=> n \in K) /\ (Only(t, K) <=> n \in K)
  BY <1>1, OneWord
<1>3. n.mode \in {None, seek} \/ n.type # "queue_update" OBVIOUS
<1>4. /\ n \notin Readies /\ n \notin SeatWords /\ n \notin WatchWords
      /\ n.type # "error" => n \in RightSearch(seek)
  BY <1>3, KindFacts DEF RightSearch, SearchSaid
<1>5. n \in Told(server) BY DEF Told
<1>6. server' = [server EXCEPT !.seek = seek, !.refused = refused] /\ client' = client
  BY DEF Serves
<1>7. /\ server' \in Servers /\ server'.seek = seek /\ server'.refused = refused
      /\ server'.online = server.online /\ server'.mine = server.mine
      /\ server'.live = server.live /\ server'.unplayed = server.unplayed
      /\ server'.seated = server.seated /\ server'.audience = server.audience
      /\ server'.stranded = server.stranded
  BY <1>0, <1>6 DEF Servers
<1>8. /\ Has(up', Rejoins) => server.audience = None
      /\ \A K \in {GameLeaves, Rejoins, Spectates, RejoinsOf(server.mine)} :
           Has(up, K) => Has(up', K)
      /\ up' = up \/ (up # <<>> /\ up' = Tail(up))
  <2>1. CASE up' = up BY <2>1, <1>0 DEF AudienceInv
  <2>2. ASSUME NEW m, Reading(m), m.type \in {"join_queue", "leave_queue"}
        PROVE  /\ Has(up', Rejoins) => server.audience = None
               /\ \A K \in {GameLeaves, Rejoins, Spectates, RejoinsOf(server.mine)} :
                    Has(up, K) => Has(up', K)
               /\ up # <<>> /\ up' = Tail(up)
    BY <2>2, AskedKindFacts DEF Reading
  <2> QED BY <2>1, <2>2
<1>9. ServedMail(t) BY <1>1, <1>2, <1>4, <1>6, <1>7, <1>8 DEF ServedMail, Serves, Says
<1>10. ServedGames(t) BY <1>0, <1>2, <1>5, <1>7, SameGames DEF GamesInv
<1>11. ServedSearch(t) BY <1>2, <1>4, <1>7 DEF ServedSearch
<1>12. ServedSeat(t) /\ ServedBoard(t) BY <1>0, <1>2, <1>4, <1>7, <1>8, SameSeat
<1>13. ServedAudience(t) /\ ServedWatch(t) BY <1>2, <1>4, <1>7, <1>8, SameAudience
<1> QED BY <1>9, <1>10, <1>11, <1>12, <1>13 DEF Served

LEMMA JoinIsServed ==
  ASSUME StoreInv, NEW m, Reading(m), m.type = "join_queue", HearJoin(m)
  PROVE  \E t : Served(t)
<1>0. server \in Servers /\ m \in Asked BY InvFacts DEF Reading
<1>1. m.mode \in Modes /\ server.seek \in Modes \cup {None} /\ server.refused \in BOOLEAN
  BY <1>0, AskedFields, ServerFields
<1>2. CASE /\ ~server.seated
           /\ Serves([server EXCEPT !.seek = m.mode, !.refused = FALSE],
                     <<[type |-> "queue_update", mode |-> m.mode]>>)
  <2>1. server.mine = None BY <1>0, <1>2, AskedKindFacts DEF Reading
  <2>2. PICK n : n = [type |-> "queue_update", mode |-> m.mode] OBVIOUS
  <2>3. n \in Said /\ n.type = "queue_update" /\ n.mode = m.mode BY <2>2, <1>1, SaidFacts
  <2>4. FALSE \in BOOLEAN /\ m.mode \in Modes \cup {None} BY <1>1
  <2>5. Serves([server EXCEPT !.seek = m.mode, !.refused = FALSE], <<n>>) BY <1>2, <2>2
  <2> QED BY <2>1, <2>3, <2>4, <2>5, SearchServes
<1>3. CASE Serves([server EXCEPT !.refused = TRUE], <<Refusal>>)
  <2>1. PICK n : n = Refusal OBVIOUS
  <2>2. n \in Said /\ n.type = "error" BY <2>1, SaidFacts DEF Refusal
  <2>3. [server EXCEPT !.refused = TRUE]
          = [server EXCEPT !.seek = server.seek, !.refused = TRUE]
    BY <1>0 DEF Servers
  <2>4. Serves([server EXCEPT !.seek = server.seek, !.refused = TRUE], <<n>>)
    BY <1>3, <2>1, <2>3
  <2>5. server.mine # None => server.seek = None BY InvFacts DEF GamesInv
  <2>6. TRUE \in BOOLEAN OBVIOUS
  <2> QED BY <2>2, <2>4, <2>5, <2>6, <1>1, SearchServes
<1> QED BY <1>2, <1>3 DEF HearJoin

LEMMA LeaveIsServed ==
  ASSUME StoreInv, NEW m, Reading(m), m.type = "leave_queue", HearLeave
  PROVE  \E t : Served(t)
<1>1. PICK n : n = [type |-> "queue_left"] OBVIOUS
<1>2. n \in Said /\ n.type = "queue_left" BY <1>1, SaidFacts
<1>3. Serves([server EXCEPT !.seek = None, !.refused = FALSE], <<n>>) BY <1>1 DEF HearLeave
<1>4. FALSE \in BOOLEAN /\ None \in Modes \cup {None} OBVIOUS
<1> QED BY <1>2, <1>3, <1>4, SearchServes

LEMMA TickIsServed == ASSUME StoreInv, Tick PROVE \E t : Served(t)
<1>0. server \in Servers /\ GamesInv BY InvFacts
<1>1. server.seek \in Modes \cup {None} /\ server.refused \in BOOLEAN /\ server.seek # None
  BY <1>0, ServerFields DEF Tick
<1>2. PICK n : n = [type |-> "queue_update", mode |-> server.seek] OBVIOUS
<1>3. n \in Said /\ n.type = "queue_update" /\ n.mode = server.seek BY <1>1, <1>2, SaidFacts
<1>4. server = [server EXCEPT !.seek = server.seek, !.refused = server.refused]
  BY <1>0 DEF Servers
<1>5. Serves([server EXCEPT !.seek = server.seek, !.refused = server.refused], <<n>>)
  BY <1>2, <1>4 DEF Tick
<1>6. up' = up /\ (server.mine # None => server.seek = None) BY <1>0 DEF Tick, GamesInv
<1> QED BY <1>1, <1>3, <1>5, <1>6, SearchServes

LEMMA EndSearchIsServed == ASSUME StoreInv, EndSearch PROVE \E t : Served(t)
<1>0. server \in Servers BY InvFacts
<1>1. server.refused \in BOOLEAN BY <1>0, ServerFields
<1>2. PICK n : n = [type |-> "queue_left"] OBVIOUS
<1>3. n \in Said /\ n.type = "queue_left" BY <1>2, SaidFacts
<1>4. [server EXCEPT !.seek = None] = [server EXCEPT !.seek = None, !.refused = server.refused]
  BY <1>0 DEF Servers
<1>5. Serves([server EXCEPT !.seek = None, !.refused = server.refused], <<n>>)
  BY <1>2, <1>4 DEF EndSearch
<1>6. up' = up /\ None \in Modes \cup {None} BY DEF EndSearch
<1> QED BY <1>1, <1>3, <1>5, <1>6, SearchServes

LEMMA LeaveGameIsServed ==
  ASSUME StoreInv, NEW m, Reading(m), m.type = "leave_game", HearLeaveGame
  PROVE  \E t : Served(t)
<1>0. /\ WireInv /\ GamesInv /\ AudienceInv /\ server \in Servers /\ m \in Asked
      /\ server.seated \in BOOLEAN /\ down \in Seq(Said)
  BY InvFacts, ServerFields DEF Reading
<1>1. PICK t : t = <<>> OBVIOUS
<1>2. t \in Seq(Said) /\ \A K : ~Has(t, K) /\ Only(t, K) BY <1>1, NoWord
<1>3. server' = [server EXCEPT !.audience = None, !.stranded = FALSE] /\ client' = client
  BY <1>0 DEF HearLeaveGame, Serves, Attends, Servers
<1>4. /\ server' \in Servers /\ server'.seek = server.seek /\ server'.refused = server.refused
      /\ server'.online = server.online /\ server'.mine = server.mine
      /\ server'.live = server.live /\ server'.unplayed = server.unplayed
      /\ server'.seated = server.seated /\ server'.audience = None
  BY <1>0, <1>3 DEF Servers
<1>5. up # <<>> /\ up' = Tail(up) /\ (client.page # "watch" \/ Has(up', Spectates))
  BY <1>0, AskedKindFacts DEF Reading
<1>6. /\ Has(up, Rejoins) => Has(up', Rejoins)
      /\ Has(up, Searches) => Has(up', Searches)
      /\ Has(up, RejoinsOf(server.mine)) => Has(up', RejoinsOf(server.mine))
  BY <1>0, AskedKindFacts DEF Reading
<1>7. ServedMail(t)
  <2>1. Serves(Attends(server, None), t) BY <1>1 DEF HearLeaveGame
  <2>2. down' = IF server.online THEN down \o t ELSE down BY <2>1 DEF Serves, Says
  <2> QED BY <2>2, <1>2, <1>3, <1>4, <1>5 DEF ServedMail
<1>8. ServedGames(t)
  <2>1. ~server.online => server'.audience = server.audience BY DEF Reading
  <2> QED BY <2>1, <1>0, <1>2, <1>4, SameGames DEF GamesInv
<1>9. ServedSearch(t) BY <1>2, <1>4, <1>6 DEF ServedSearch
<1>10. ServedSeat(t) /\ ServedBoard(t) BY <1>0, <1>2, <1>4, <1>6, SameSeat
<1>11. ServedAudience(t) BY <1>4 DEF ServedAudience
<1>12. ServedWatch(t) BY <1>5 DEF ServedWatch
<1> QED BY <1>7, <1>8, <1>9, <1>10, <1>11, <1>12 DEF Served

LEMMA SpectateIsServed ==
  ASSUME StoreInv, NEW m, Reading(m), m.type = "spectate_game", HearSpectate(m)
  PROVE  \E t : Served(t)
<1>0. /\ WireInv /\ GamesInv /\ AudienceInv /\ server \in Servers /\ m \in Asked
      /\ server.seated \in BOOLEAN /\ down \in Seq(Said) /\ server.online
      /\ up # <<>> /\ up' = Tail(up)
  BY InvFacts, ServerFields DEF Reading
<1>1. m.game \in Games BY <1>0, AskedFields
<1>2. /\ Has(up, Rejoins) => Has(up', Rejoins)
      /\ Has(up, Searches) => Has(up', Searches)
      /\ Has(up, RejoinsOf(server.mine)) => Has(up', RejoinsOf(server.mine))
      /\ ~Has(up', Rejoins) /\ client.status # "connecting"
      /\ server.mine # None => server.seated
  BY <1>0, AskedKindFacts DEF Reading
<1>3. CASE Serves([server EXCEPT !.stranded = server.audience # None],
                  <<[type |-> "spectate_unavailable"]>>)
  <2>1. PICK n : n = [type |-> "spectate_unavailable"] OBVIOUS
  <2>2. n \in Said /\ n.type = "spectate_unavailable" BY <2>1, SaidFacts
  <2>3. PICK t : t = <<n>> OBVIOUS
  <2>4. /\ t \in Seq(Said)
        /\ \A K : (Has(t, K) <=> n \in K) /\ (Only(t, K) <=> n \in K)
    BY <2>2, <2>3, OneWord
  <2>5. /\ n \notin Readies /\ n \notin SeatWords /\ n \notin SearchWords
        /\ \A g : n \in Ends(g) /\ n \notin JoinedOf(g)
    BY <2>2, KindFacts
  <2>6. n \in Told(server) BY <2>2 DEF Told
  <2>7. server' = [server EXCEPT !.stranded = server.audience # None] /\ client' = client
    BY <1>3 DEF Serves
  <2>8. /\ server' \in Servers /\ server'.seek = server.seek /\ server'.refused = server.refused
        /\ server'.online = server.online /\ server'.mine = server.mine
        /\ server'.live = server.live /\ server'.unplayed = server.unplayed
        /\ server'.seated = server.seated /\ server'.audience = server.audience
        /\ server'.stranded = (server.audience # None)
    BY <1>0, <2>7 DEF Servers
  <2>9. ServedMail(t) BY <1>0, <1>3, <2>1, <2>3, <2>4, <2>5, <2>7, <2>8 DEF ServedMail, Serves, Says
  <2>10. ServedGames(t) BY <1>0, <2>4, <2>6, <2>8, SameGames DEF GamesInv
  <2>11. ServedSearch(t) BY <1>2, <2>4, <2>5, <2>8 DEF ServedSearch
  <2>12. ServedSeat(t) /\ ServedBoard(t) BY <1>0, <1>2, <2>4, <2>5, <2>8, SameSeat
  <2>13. ServedAudience(t) BY <1>2, <2>8 DEF ServedAudience
  <2>14. ServedWatch(t) BY <2>4, <2>5 DEF ServedWatch
  <2> QED BY <2>9, <2>10, <2>11, <2>12, <2>13, <2>14 DEF Served
<1>4. CASE /\ ~server.seated /\ server.seek = None /\ m.game \in server.live
           /\ Serves(Attends(server, m.game), <<[type |-> "spectator_joined", game |-> m.game]>>)
  <2>1. PICK n : n = [type |-> "spectator_joined", game |-> m.game] OBVIOUS
  <2>2. n \in Said /\ n.type = "spectator_joined" /\ n.game = m.game BY <2>1, <1>1, SaidFacts
  <2>3. PICK t : t = <<n>> OBVIOUS
  <2>4. /\ t \in Seq(Said)
        /\ \A K : (Has(t, K) <=> n \in K) /\ (Only(t, K) <=> n \in K)
    BY <2>2, <2>3, OneWord
  <2>5. /\ n \notin Readies /\ n \in RightSearch(server.seek) /\ n \in JoinedOf(m.game)
        /\ \A g : n \in Ends(g) /\ n \notin SeatOf(g) /\ (n \in JoinedOf(g) => g = m.game)
    BY <2>2, KindFacts DEF RightSearch, SearchSaid
  <2>6. n \in Told(server) BY <2>2 DEF Told
  <2>7. /\ server' = [server EXCEPT !.audience = m.game, !.stranded = FALSE]
        /\ client' = client
    BY <1>0, <1>4 DEF Serves, Attends, Servers
  <2>8. /\ server' \in Servers /\ server'.seek = server.seek
        /\ server'.online = server.online /\ server'.mine = server.mine
        /\ server'.live = server.live /\ server'.unplayed = server.unplayed
        /\ server'.seated = server.seated /\ server'.audience = m.game
    BY <1>0, <1>1, <2>7 DEF Servers
  <2>9. server.mine = None BY <1>2, <1>4
  <2>10. ServedMail(t)
    BY <1>0, <1>4, <2>1, <2>3, <2>4, <2>5, <2>7, <2>8 DEF ServedMail, Serves, Says
  <2>11. ServedGames(t) BY <1>0, <1>2, <1>4, <2>4, <2>6, <2>8, <2>9, SameGames
  <2>12. ServedSearch(t) BY <2>4, <2>5, <2>8 DEF ServedSearch
  <2>13. ServedSeat(t) BY <1>4, <2>8, <2>9 DEF ServedSeat
  <2>14. ServedBoard(t) BY <2>4, <2>5 DEF ServedBoard
  <2>15. ServedAudience(t) BY <1>2, <2>4, <2>5, <2>8 DEF ServedAudience
  <2>16. ServedWatch(t) BY <2>4, <2>5, <2>8 DEF ServedWatch
  <2> QED BY <2>10, <2>11, <2>12, <2>13, <2>14, <2>15, <2>16 DEF Served
<1> QED BY <1>3, <1>4 DEF HearSpectate

LEMMA RejoinIsServed ==
  ASSUME StoreInv, NEW m, Reading(m), m.type = "rejoin_game", HearRejoin(m)
  PROVE  \E t : Served(t)
<1>0. /\ WireInv /\ GamesInv /\ AudienceInv /\ server \in Servers /\ m \in Asked
      /\ server.seated \in BOOLEAN /\ down \in Seq(Said) /\ server.online
      /\ up # <<>> /\ up' = Tail(up)
  BY InvFacts, ServerFields DEF Reading
<1>1. m.game \in Games /\ m.game # None BY <1>0, AskedFields, ConstantFacts
<1>2. /\ Has(up, Searches) => Has(up', Searches)
      /\ m.game # server.mine =>
           (Has(up, RejoinsOf(server.mine)) => Has(up', RejoinsOf(server.mine)))
      /\ server.audience = None /\ m.game \notin server.unplayed
  BY <1>0, AskedKindFacts DEF Reading
<1>3. CASE /\ m.game = server.mine
           /\ Serves([server EXCEPT !.seated = TRUE],
                     <<[type |-> "game_rejoined", game |-> m.game, live |-> TRUE]>>)
  <2>1. PICK n : n = [type |-> "game_rejoined", game |-> m.game, live |-> TRUE] OBVIOUS
  <2>2. n \in Said /\ n.type = "game_rejoined" /\ n.game = server.mine /\ n.live
    BY <2>1, <1>1, <1>3, SaidFacts
  <2>3. PICK t : t = <<n>> OBVIOUS
  <2>4. /\ t \in Seq(Said)
        /\ \A K : (Has(t, K) <=> n \in K) /\ (Only(t, K) <=> n \in K)
    BY <2>2, <2>3, OneWord
  <2>5. /\ n \notin Readies /\ n \in RightSearch(server.seek) /\ n \in SeatOf(server.mine)
        /\ \A g : n \in Ends(g) /\ n \notin JoinedOf(g) /\ (n \in SeatOf(g) => g = server.mine)
    BY <2>2, KindFacts DEF RightSearch, SearchSaid
  <2>6. n \in Told(server) BY <2>2, <1>2, <1>3 DEF Told
  <2>7. server' = [server EXCEPT !.seated = TRUE] /\ client' = client BY <1>3 DEF Serves
  <2>8. /\ server' \in Servers /\ server'.seek = server.seek
        /\ server'.online = server.online /\ server'.mine = server.mine
        /\ server'.live = server.live /\ server'.unplayed = server.unplayed
        /\ server'.seated /\ server'.audience = None
    BY <1>0, <1>2, <2>7 DEF Servers
  <2>9. ServedMail(t)
    BY <1>0, <1>3, <2>1, <2>3, <2>4, <2>5, <2>7, <2>8 DEF ServedMail, Serves, Says
  <2>10. ServedGames(t) BY <1>0, <1>1, <1>2, <1>3, <2>4, <2>6, <2>8, SameGames DEF GamesInv
  <2>11. ServedSearch(t) BY <2>4, <2>5, <2>8 DEF ServedSearch
  <2>12. ServedSeat(t) BY <2>4, <2>5, <2>8 DEF ServedSeat
  <2>13. ServedBoard(t) BY <2>4, <2>5, <2>8 DEF ServedBoard
  <2>14. ServedAudience(t) BY <2>8 DEF ServedAudience
  <2>15. ServedWatch(t) BY <2>4, <2>5 DEF ServedWatch
  <2> QED BY <2>9, <2>10, <2>11, <2>12, <2>13, <2>14, <2>15 DEF Served
<1>4. ASSUME m.game # server.mine, NEW n \in Said, n.game = m.game, Serves(server, <<n>>),
             n.type = "game_unavailable" \/ (n.type = "game_rejoined" /\ ~n.live)
      PROVE  \E t : Served(t)
  <2>1. PICK t : t = <<n>> OBVIOUS
  <2>2. /\ t \in Seq(Said)
        /\ \A K : (Has(t, K) <=> n \in K) /\ (Only(t, K) <=> n \in K)
    BY <2>1, OneWord
  <2>3. /\ n \notin Readies /\ n \notin SeatWords
        /\ n \notin SearchWords \/ n \in RightSearch(server.seek)
        /\ \A g : n \in Ends(g) /\ n \notin JoinedOf(g) /\ n \notin SeatOf(g)
    BY <1>4, KindFacts DEF RightSearch, SearchSaid
  <2>4. n \in Told(server) BY <1>2, <1>4 DEF Told
  <2>5. server' = server /\ client' = client BY <1>4 DEF Serves
  <2>6. ServedMail(t) BY <1>0, <1>4, <2>1, <2>2, <2>3, <2>5 DEF ServedMail, Serves, Says
  <2>7. ServedGames(t) BY <1>0, <1>2, <2>2, <2>4, <2>5, SameGames DEF GamesInv
  <2>8. ServedSearch(t) BY <1>2, <2>2, <2>3, <2>5 DEF ServedSearch
  <2>9. ServedSeat(t) BY <1>2, <1>4, <2>2, <2>3, <2>5 DEF ServedSeat
  <2>10. ServedBoard(t) BY <2>2, <2>3 DEF ServedBoard
  <2>11. ServedAudience(t) BY <1>2, <2>5 DEF ServedAudience
  <2>12. ServedWatch(t) BY <2>2, <2>3 DEF ServedWatch
  <2> QED BY <2>6, <2>7, <2>8, <2>9, <2>10, <2>11, <2>12 DEF Served
<1>5. CASE /\ m.game # server.mine
           /\ Serves(server, <<[type |-> "game_unavailable", game |-> m.game]>>)
  <2>1. PICK n : n = [type |-> "game_unavailable", game |-> m.game] OBVIOUS
  <2>2. n \in Said /\ n.type = "game_unavailable" /\ n.game = m.game BY <2>1, <1>1, SaidFacts
  <2> QED BY <2>1, <2>2, <1>4, <1>5
<1>6. CASE /\ m.game # server.mine
           /\ Serves(server, <<[type |-> "game_rejoined", game |-> m.game, live |-> FALSE]>>)
  <2>1. PICK n : n = [type |-> "game_rejoined", game |-> m.game, live |-> FALSE] OBVIOUS
  <2>2. n \in Said /\ n.type = "game_rejoined" /\ n.game = m.game /\ ~n.live
    BY <2>1, <1>1, SaidFacts
  <2> QED BY <2>1, <2>2, <1>4, <1>6
<1> QED BY <1>1, <1>3, <1>5, <1>6 DEF HearRejoin

LEMMA ReadingIsServed == ASSUME StoreInv, ServerReads PROVE \E t : Served(t)
<1>1. PICK m : m = Head(up) OBVIOUS
<1>2. Reading(m) BY <1>1, ReadingFacts
<1>3. m.type \in {"leave_queue", "leave_game", "join_queue", "rejoin_game", "spectate_game"}
  BY <1>2, AskedFields DEF Reading
<1>4. /\ m.type = "join_queue" => HearJoin(m)
      /\ m.type = "leave_queue" => HearLeave
      /\ m.type = "rejoin_game" => HearRejoin(m)
      /\ m.type = "spectate_game" => HearSpectate(m)
      /\ m.type = "leave_game" => HearLeaveGame
  BY <1>1 DEF ServerReads
<1> QED
  BY <1>2, <1>3, <1>4, JoinIsServed, LeaveIsServed, RejoinIsServed, SpectateIsServed,
     LeaveGameIsServed

LEMMA PairIsServed ==
  ASSUME StoreInv, NEW game \in Games, Pair(game) PROVE \E t : Served(t)
<1>0. /\ WireInv /\ GamesInv /\ AudienceInv /\ server \in Servers /\ down \in Seq(Said)
  BY InvFacts
<1>f. server.online \in BOOLEAN BY <1>0, ServerFields
<1>1. PICK n : n = [type |-> "match_found", game |-> game] OBVIOUS
<1>2. n \in Said /\ n.type = "match_found" /\ n.game = game BY <1>1, SaidFacts
<1>3. PICK t : t = <<n>> OBVIOUS
<1>4. /\ t \in Seq(Said)
      /\ \A K : (Has(t, K) <=> n \in K) /\ (Only(t, K) <=> n \in K)
  BY <1>2, <1>3, OneWord
<1>5. /\ n \notin Readies /\ n \in RightSearch(None) /\ n \in SeatOf(game)
      /\ \A g : n \in Ends(g) /\ n \notin JoinedOf(g) /\ (n \in SeatOf(g) => g = game)
  BY <1>2, KindFacts DEF RightSearch, SearchSaid
<1>6. server.mine = None /\ game \in server.unplayed /\ up' = up BY DEF Pair
<1>7. server' = [[server EXCEPT !.audience = None, !.stranded = FALSE]
                 EXCEPT !.seek = None, !.mine = game, !.seated = server.online,
                        !.unplayed = @ \ {game}, !.live = @ \cup {game}]
      /\ client' = client
  BY DEF Pair, Serves, Attends
<1>8. /\ server' \in Servers /\ server'.seek = None /\ server'.mine = game
      /\ server'.online = server.online /\ server'.seated = server.online
      /\ server'.unplayed = server.unplayed \ {game}
      /\ server'.live = server.live \cup {game} /\ server'.audience = None
  BY <1>0, <1>f, <1>7 DEF Servers
<1>9. ServedMail(t) BY <1>1, <1>3, <1>4, <1>5, <1>6, <1>7, <1>8 DEF ServedMail, Pair, Serves, Says
<1>10. ServedGames(t)
  <2>1. n \in Told(server') BY <1>2, <1>8 DEF Told
  <2>2. Told(server) \subseteq Told(server')
    <3>1. \A g : g \notin server.unplayed => g # game BY <1>6
    <3>2. \A m \in Told(server) :
            /\ m \in Said
            /\ m.type \in {"connection_ready", "match_found", "game_rejoined", "game_unavailable",
                           "game_cancelled", "game_state"} =>
                 m.game \notin server.unplayed /\ m.game # game
            /\ m.type = "game_state" => m.game \notin server.live
      BY <3>1 DEF Told
    <3> QED BY <3>2, <1>8 DEF Told
  <2>3. server'.live \cap server'.unplayed = {} BY <1>0, <1>8 DEF GamesInv
  <2> QED BY <2>1, <2>2, <2>3, <1>0, <1>4, <1>8, ConstantFacts DEF ServedGames
<1>11. ServedSearch(t) BY <1>4, <1>5, <1>8 DEF ServedSearch
<1>12. ServedSeat(t) BY <1>4, <1>5, <1>8 DEF ServedSeat
<1>13. ServedBoard(t) BY <1>4, <1>5, <1>8 DEF ServedBoard
<1>14. ServedAudience(t) BY <1>8 DEF ServedAudience
<1>15. ServedWatch(t) BY <1>4, <1>5 DEF ServedWatch
<1> QED BY <1>9, <1>10, <1>11, <1>12, <1>13, <1>14, <1>15 DEF Served

LEMMA EndedFacts ==
  ASSUME server \in Servers, NEW game \in Games, NEW s, s = Ended(game)
  PROVE  /\ s \in Servers /\ s.online = server.online /\ s.seek = server.seek
         /\ s.refused = server.refused /\ s.unplayed = server.unplayed
         /\ s.live = server.live \ {game}
         /\ s.mine = (IF server.mine = game THEN None ELSE server.mine)
         /\ s.seated = (server.seated /\ server.mine # game)
         /\ s.audience = (IF server.audience = game THEN None ELSE server.audience)
         /\ server.audience # game => s.stranded = server.stranded
<1>1. PICK r : r = IF server.audience = game THEN Attends(server, None) ELSE server OBVIOUS
<1>2. /\ r \in Servers /\ r.online = server.online /\ r.seek = server.seek
      /\ r.refused = server.refused /\ r.unplayed = server.unplayed
      /\ r.live = server.live /\ r.mine = server.mine /\ r.seated = server.seated
      /\ r.over = server.over
      /\ r.audience = (IF server.audience = game THEN None ELSE server.audience)
      /\ server.audience # game => r.stranded = server.stranded
  BY <1>1 DEF Attends, Servers
<1>3. s = [r EXCEPT !.live = @ \ {game}, !.over = @ \cup ({game} \cap OwnGames),
                    !.mine = IF @ = game THEN None ELSE @,
                    !.seated = @ /\ server.mine # game]
  BY <1>1 DEF Ended
<1>4. PICK seated \in BOOLEAN : seated = (server.seated /\ server.mine # game)
  BY ServerFields
<1>5. PICK over : over = server.over \cup ({game} \cap OwnGames) /\ over \subseteq OwnGames
  BY ServerFields
<1>6. PICK mine : /\ mine = (IF server.mine = game THEN None ELSE server.mine)
                  /\ mine \in Games \cup {None}
  BY ServerFields
<1>l. PICK live \in SUBSET Games : live = server.live \ {game} BY ServerFields
<1>7. s = [r EXCEPT !.live = live, !.over = over, !.mine = mine, !.seated = seated]
  BY <1>l, <1>2, <1>3, <1>4, <1>5, <1>6 DEF Servers
<1>8. /\ s \in Servers /\ s.online = r.online /\ s.seek = r.seek /\ s.refused = r.refused
      /\ s.unplayed = r.unplayed /\ s.live = live /\ s.mine = mine
      /\ s.seated = seated /\ s.audience = r.audience /\ s.stranded = r.stranded
  BY <1>2, <1>5, <1>6, <1>7 DEF Servers
<1> QED BY <1>2, <1>4, <1>6, <1>8, <1>l

\* A player without a seat in his game has been told of none in it, and asks for it
\* again, now or when the socket's first message is read.
LEMMA Seatless ==
  ASSUME StoreInv, server.online, server.mine # None, ~server.seated
  PROVE  \/ Has(up, Rejoins)
         \/ client.status = "connecting" /\ ~Has(down, SeatOf(server.mine))
<1>1. SeatInv BY InvFacts
<1>2. \/ client.status = "connecting" /\ ~Has(down, SeatOf(server.mine))
      \/ Has(up, RejoinsOf(server.mine))
  BY <1>1 DEF SeatInv, RejoinsOf
<1> QED BY <1>2 DEF Has, RejoinsOf

LEMMA FinishIsServed ==
  ASSUME StoreInv, NEW game \in Games, Finish(game) PROVE \E t : Served(t)
<1>0. /\ WireInv /\ GamesInv /\ AudienceInv /\ server \in Servers /\ down \in Seq(Said)
      /\ server.seated \in BOOLEAN
  BY InvFacts, ServerFields
<1>1. PICK n : n = [type |-> "game_state", game |-> game, live |-> FALSE] OBVIOUS
<1>2. n \in Said /\ n.type = "game_state" /\ n.game = game BY <1>1, SaidFacts
<1>3. PICK t : t = IF Hears(game) THEN <<n>> ELSE <<>> OBVIOUS
<1>4. /\ t \in Seq(Said)
      /\ \A K : Has(t, K) <=> Hears(game) /\ n \in K
      /\ \A K : n \in K => Only(t, K)
  BY <1>2, <1>3, OneWord, NoWord
<1>5. /\ n \notin Readies /\ n \notin SearchWords /\ n \notin SeatWords /\ n \notin WatchWords
      /\ \A g : /\ n \in Ends(g) <=> g = game
                /\ n \notin JoinedOf(g) /\ n \notin SeatOf(g)
  BY <1>2, KindFacts
<1>6. /\ game \in server.live /\ up' = up /\ client' = client /\ server' = Ended(game)
      /\ down' = IF server.online THEN down \o t ELSE down
  BY <1>1, <1>3 DEF Finish, Serves, Says
<1>7. /\ server' \in Servers /\ server'.online = server.online /\ server'.seek = server.seek
      /\ server'.refused = server.refused /\ server'.unplayed = server.unplayed
      /\ server'.live = server.live \ {game}
      /\ server'.mine = (IF server.mine = game THEN None ELSE server.mine)
      /\ server'.seated = (server.seated /\ server.mine # game)
      /\ server'.audience = (IF server.audience = game THEN None ELSE server.audience)
      /\ server.audience # game => server'.stranded = server.stranded
  BY <1>0, <1>6, EndedFacts
<1>8. ServedMail(t) BY <1>4, <1>5, <1>6, <1>7 DEF ServedMail
<1>9. ServedGames(t)
  <2>1. n \in Told(server')
    <3>1. game \notin server.unplayed BY <1>0, <1>6 DEF GamesInv
    <3> QED BY <3>1, <1>2, <1>7, ConstantFacts DEF Told
  <2>2. Told(server) \subseteq Told(server')
    <3>1. \A m \in Said : m.type \in {"game_unavailable", "game_cancelled", "game_state",
                                      "game_rejoined"} => m.game # None
      BY SaidFields, ConstantFacts
    <3>2. server'.mine \in {server.mine, None} /\ server'.live \subseteq server.live BY <1>7
    <3>3. ASSUME NEW m \in Told(server) PROVE m \in Told(server')
      <4>1. m \in Said /\ (m.type = "game_state" => m.game \notin server'.live)
        BY <3>2, <3>3 DEF Told
      <4>2. \/ m.type \in {"game_unavailable", "game_cancelled", "game_state"}
            \/ m.type = "game_rejoined" /\ ~m.live
            => m.game # server'.mine
        BY <3>1, <3>2, <3>3 DEF Told
      <4>3. m.type \in {"connection_ready", "match_found", "game_rejoined", "game_unavailable",
                        "game_cancelled", "game_state"} => m.game \notin server'.unplayed
        BY <3>3, <1>7 DEF Told
      <4> QED BY <4>1, <4>2, <4>3 DEF Told
    <3> QED BY <3>3
  <2>3. server'.live \cap server'.unplayed = {} BY <1>0, <1>7 DEF GamesInv
  <2>4. server'.mine # None => /\ server'.mine \in server'.live /\ server'.seek = None
                               /\ server'.audience = None
    BY <1>0, <1>7 DEF GamesInv
  <2>5. server'.audience # None => server'.audience \in server'.live BY <1>0, <1>7 DEF GamesInv
  <2>6. server'.seated => server'.mine # None BY <1>0, <1>7 DEF GamesInv
  <2>7. /\ ~server.online => ~server'.seated /\ server'.audience = None
        /\ client.status = "connecting" => server'.audience = None
    BY <1>0, <1>7 DEF WireInv
  <2> QED BY <2>1, <2>2, <2>3, <2>4, <2>5, <2>6, <2>7, <1>4, <1>7 DEF ServedGames
<1>10. ServedSearch(t) BY <1>4, <1>5, <1>6, <1>7 DEF ServedSearch
<1>11. ServedSeat(t) BY <1>4, <1>5, <1>6, <1>7 DEF ServedSeat
<1>12. ServedBoard(t)
  <2>1. ASSUME server.online, NEW g \in Games \ {server'.mine}, ~Has(up, Rejoins), g = server.mine
        PROVE  Has(t, Ends(g)) \/ (client.status = "connecting" /\ ~Has(down, SeatOf(g)))
    <3>1. g = game /\ server.mine # None BY <2>1, <1>7, ConstantFacts
    <3>2. CASE server.seated
      <4>1. Hears(game) BY <3>1, <3>2, <2>1 DEF Hears
      <4> QED BY <4>1, <3>1, <1>4, <1>5
    <3>3. CASE ~server.seated BY <3>1, <3>3, <2>1, Seatless
    <3> QED BY <3>2, <3>3
  <2> QED BY <2>1, <1>4, <1>5, <1>6 DEF ServedBoard
<1>13. ServedAudience(t) BY <1>0, <1>4, <1>5, <1>6, <1>7 DEF ServedAudience, AudienceInv
<1>14. ServedWatch(t)
  <2>1. ASSUME NEW g \in Games \ {server'.audience}, g = server.audience
        PROVE  Has(t, Ends(g))
    <3>1. g = game BY <2>1, <1>7
    <3>2. Hears(game) BY <3>1, <2>1 DEF Hears
    <3> QED BY <3>1, <3>2, <1>4, <1>5
  <2> QED BY <2>1, <1>4, <1>5, <1>6 DEF ServedWatch
<1> QED BY <1>8, <1>9, <1>10, <1>11, <1>12, <1>13, <1>14 DEF Served

LEMMA CallOffIsServed ==
  ASSUME StoreInv, NEW game \in Games, CallOff(game) PROVE \E t : Served(t)
<1>0. /\ WireInv /\ GamesInv /\ AudienceInv /\ server \in Servers /\ down \in Seq(Said)
      /\ server.seated \in BOOLEAN /\ server.over \subseteq OwnGames
  BY InvFacts, ServerFields
<1>1. PICK n : n = [type |-> "game_cancelled", game |-> game] OBVIOUS
<1>2. n \in Said /\ n.type = "game_cancelled" /\ n.game = game BY <1>1, SaidFacts
<1>3. /\ n \notin Readies /\ n \notin SearchWords
      /\ \A g : n \in Ends(g) /\ n \notin JoinedOf(g) /\ n \notin SeatOf(g)
  BY <1>2, KindFacts
<1>4. game = server.mine /\ game # None /\ up' = up BY ConstantFacts DEF CallOff
<1>5. server.audience = None /\ server.seek = None /\ game \in server.live
  BY <1>0, <1>4 DEF GamesInv
<1>6. PICK gone : gone = [Ended(game) EXCEPT !.over = server.over] OBVIOUS
<1>7. /\ gone \in Servers /\ gone.online = server.online /\ gone.seek = server.seek
      /\ gone.refused = server.refused /\ gone.unplayed = server.unplayed
      /\ gone.live = server.live \ {game} /\ gone.mine = None /\ ~gone.seated
      /\ gone.audience = None
  <2>1. PICK s : s = Ended(game) OBVIOUS
  <2>2. /\ s \in Servers /\ s.online = server.online /\ s.seek = server.seek
        /\ s.refused = server.refused /\ s.unplayed = server.unplayed
        /\ s.live = server.live \ {game} /\ s.mine = None /\ s.seated = FALSE
        /\ s.audience = None
    BY <2>1, <1>0, <1>4, <1>5, EndedFacts
  <2>3. gone = [s EXCEPT !.over = server.over] BY <2>1, <1>6
  <2> QED BY <2>2, <2>3, <1>0 DEF Servers
<1>8. ASSUME NEW t \in Seq(Said), ~Has(t, Readies), Serves(server', t), server' \in Servers,
             server'.online = server.online,
             server'.unplayed = server.unplayed, server'.live = server.live \ {game},
             server'.mine = None, ~server'.seated, server'.audience = None,
             ServedSearch(t),
             Only(t, Told(server')), Has(t, {n}) \/ (t = <<>> /\ ~server.seated),
             \A g : ~Has(t, SeatOf(g)) /\ ~Has(t, JoinedOf(g))
      PROVE  Served(t)
  <2>1. ServedMail(t) BY <1>4, <1>8 DEF ServedMail, Serves, Says
  <2>2. ServedGames(t)
    <3>1. Told(server) \subseteq Told(server')
      <4>1. \A m \in Said : m.type \in {"game_unavailable", "game_cancelled", "game_state",
                                        "game_rejoined"} => m.game # None
        BY SaidFields, ConstantFacts
      <4>2. ASSUME NEW m \in Told(server) PROVE m \in Told(server')
        <5>1. m \in Said /\ (m.type = "game_state" => m.game \notin server'.live)
          BY <4>2, <1>8 DEF Told
        <5>2. \/ m.type \in {"game_unavailable", "game_cancelled", "game_state"}
              \/ m.type = "game_rejoined" /\ ~m.live
              => m.game # server'.mine
          BY <4>1, <5>1, <1>8
        <5>3. m.type \in {"connection_ready", "match_found", "game_rejoined",
                          "game_unavailable", "game_cancelled", "game_state"}
                => m.game \notin server'.unplayed
          BY <4>2, <1>8 DEF Told
        <5> QED BY <5>1, <5>2, <5>3 DEF Told
      <4> QED BY <4>2
    <3>2. server'.live \cap server'.unplayed = {} BY <1>0, <1>8 DEF GamesInv
    <3> QED BY <3>1, <3>2, <1>8 DEF ServedGames
  <2>3. ServedSeat(t) BY <1>8 DEF ServedSeat
  <2>4. ServedBoard(t)
    <3>1. ASSUME server.online, ~Has(up, Rejoins), NEW g \in Games, g = server.mine
          PROVE  Has(t, Ends(g)) \/ (client.status = "connecting" /\ ~Has(down, SeatOf(g)))
      <4>1. Has(t, {n}) => Has(t, Ends(g)) BY <1>3 DEF Has
      <4> QED BY <4>1, <3>1, <1>4, <1>8, Seatless
    <3> QED BY <3>1, <1>4, <1>8 DEF ServedBoard
  <2>5. ServedAudience(t) BY <1>8 DEF ServedAudience
  <2>6. ServedWatch(t) BY <1>4, <1>5, <1>8, ConstantFacts DEF ServedWatch
  <2> QED BY <2>1, <2>2, <2>3, <2>4, <2>5, <2>6, <1>8 DEF Served
<1>9. PICK s : s = <<n>> OBVIOUS
<1>10. /\ s \in Seq(Said) /\ \A K : (Has(s, K) <=> n \in K) /\ (Only(s, K) <=> n \in K)
  BY <1>2, <1>9, OneWord
<1>11. ASSUME server'.unplayed = server.unplayed, server'.mine = None PROVE n \in Told(server')
  <2>1. game \notin server.unplayed BY <1>0, <1>5 DEF GamesInv
  <2> QED BY <2>1, <1>2, <1>4, <1>11 DEF Told
<1>12. ASSUME NEW mode \in Modes \cup {None},
              Serves([gone EXCEPT !.seek = mode],
                     s \o (IF mode = None THEN <<>>
                           ELSE <<[type |-> "queue_update", mode |-> mode]>>))
       PROVE  \E t : Served(t)
  <2>1. server' = [gone EXCEPT !.seek = mode] BY <1>12 DEF Serves
  <2>2. /\ server' \in Servers /\ server'.online = server.online /\ server'.seek = mode
        /\ server'.refused = server.refused /\ server'.unplayed = server.unplayed
        /\ server'.live = server.live \ {game} /\ server'.mine = None /\ ~server'.seated
        /\ server'.audience = None
    BY <2>1, <1>7 DEF Servers
  <2>3. n \in Told(server') BY <2>2, <1>11
  <2>4. CASE mode = None
    <3>1. s \o <<>> = s BY <1>10, ConcatEmptySeq
    <3>2. Serves(server', s) BY <3>1, <2>1, <2>4, <1>12
    <3>3. ServedSearch(s) BY <2>2, <2>4, <1>3, <1>4, <1>5, <1>10 DEF ServedSearch
    <3> QED BY <3>2, <3>3, <2>2, <2>3, <1>3, <1>8, <1>10
  <2>5. CASE mode # None
    <3>1. PICK w : w = [type |-> "queue_update", mode |-> mode] OBVIOUS
    <3>2. w \in Said /\ w.type = "queue_update" /\ w.mode = mode BY <3>1, <2>5, SaidFacts
    <3>3. PICK v : v = <<w>> OBVIOUS
    <3>4. /\ v \in Seq(Said) /\ \A K : (Has(v, K) <=> w \in K) /\ (Only(v, K) <=> w \in K)
      BY <3>2, <3>3, OneWord
    <3>5. PICK t : t = s \o v OBVIOUS
    <3>6. t \in Seq(Said) BY <3>4, <3>5, <1>10, ConcatProperties
    <3>7. \A K : Has(t, K) <=> n \in K \/ w \in K BY <3>4, <3>5, <1>10, HasOfJoin
    <3>8. \A K : Only(t, K) <=> n \in K /\ w \in K BY <3>4, <3>5, <1>10, OnlyOfJoin
    <3>9. /\ w \notin Readies /\ w \in RightSearch(mode)
          /\ \A g : w \notin JoinedOf(g) /\ w \notin SeatOf(g)
      BY <3>2, KindFacts DEF RightSearch, SearchSaid
    <3>10. w \in Told(server') BY <3>2 DEF Told
    <3>11. Serves(server', t) BY <3>1, <3>3, <3>5, <2>1, <2>5, <1>12
    <3>12. ServedSearch(t) BY <3>7, <3>8, <3>9, <2>2, <1>2, <1>3 DEF ServedSearch
    <3> QED BY <3>6, <3>7, <3>8, <3>9, <3>10, <3>11, <3>12, <2>2, <2>3, <1>3, <1>8
  <2> QED BY <2>4, <2>5
<1>13. ASSUME Serves(gone, IF Hears(game) THEN s ELSE <<>>) PROVE \E t : Served(t)
  <2>1. PICK t : t = IF Hears(game) THEN s ELSE <<>> OBVIOUS
  <2>2. server' = gone /\ Serves(server', t) BY <2>1, <1>13 DEF Serves
  <2>3. n \in Told(server') BY <2>2, <1>7, <1>11
  <2>4. /\ t \in Seq(Said) /\ \A K : (n \in K => Only(t, K)) /\ (n \notin K => ~Has(t, K))
    BY <2>1, <1>10, NoWord
  <2>5. Has(t, {n}) \/ (t = <<>> /\ ~server.seated) BY <2>1, <1>4, <1>10 DEF Hears
  <2>6. ServedSearch(t) BY <2>2, <2>4, <1>3, <1>4, <1>7 DEF ServedSearch
  <2> QED BY <2>2, <2>3, <2>4, <2>5, <2>6, <1>3, <1>7, <1>8
<1>14. CASE \E mode \in Modes \cup {None} :
              Serves([gone EXCEPT !.seek = mode],
                     s \o (IF mode = None THEN <<>>
                           ELSE <<[type |-> "queue_update", mode |-> mode]>>))
  BY <1>14, <1>12
<1>15. CASE Serves(gone, IF Hears(game) THEN s ELSE <<>>) BY <1>15, <1>13
<1>16. \/ \E mode \in Modes \cup {None} :
            Serves([gone EXCEPT !.seek = mode],
                   s \o (IF mode = None THEN <<>>
                         ELSE <<[type |-> "queue_update", mode |-> mode]>>))
       \/ Serves(gone, IF Hears(game) THEN s ELSE <<>>)
  BY <1>1, <1>6, <1>9 DEF CallOff
<1> QED BY <1>14, <1>15, <1>16

-----------------------------------------------------------------------------
(* The invariant, and what is promised once everything has been read.      *)

LEMMA StoreInvStarts == StoreInit => StoreInv
<1> SUFFICES ASSUME StoreInit PROVE StoreInv OBVIOUS
<1>1. PICK live \in SUBSET Games : live = OtherGames BY ConstantFacts
<1>2. PICK unplayed \in SUBSET OwnGames : unplayed = OwnGames OBVIOUS
<1>3. server = [online |-> FALSE, seek |-> None, refused |-> FALSE, mine |-> None,
                seated |-> FALSE, audience |-> None, stranded |-> FALSE,
                unplayed |-> unplayed, live |-> live, over |-> {}]
  BY <1>1, <1>2 DEF StoreInit
<1>4. /\ server \in Servers /\ ~server.online /\ ~server.seated /\ server.mine = None
      /\ server.audience = None /\ server.unplayed = OwnGames /\ server.live = OtherGames
  BY <1>1, <1>2, <1>3 DEF Servers
<1>5. /\ client \in Clients /\ client.status = "disconnected" /\ client.board = None
      /\ client.stored = None
  BY FreshIsClient DEF StoreInit, FreshClient
<1>6. up = <<>> /\ down = <<>> BY DEF StoreInit
<1>7. /\ \A K : ~Has(up, K) /\ Only(up, K) /\ ~Has(down, K) /\ Only(down, K)
      /\ \A A, K : Followed(up, A, K)
  BY <1>6, ShortFacts
<1>8. StoreTypeOK
  <2>1. <<>> \in Seq(Asked) /\ <<>> \in Seq(Said) BY EmptySeq
  <2> QED BY <2>1, <1>4, <1>5, <1>6 DEF StoreTypeOK
<1>9. WireInv /\ ClientInv
  BY <1>4, <1>5, <1>6, <1>7 DEF WireInv, ClientInv, AtOwnGame, Shows
<1>10. GamesInv
  <2>1. None \notin OwnGames BY ConstantFacts
  <2> QED BY <2>1, <1>4, <1>5, <1>7, ConstantFacts DEF GamesInv
<1>11. SearchInv /\ SeatInv /\ BoardInv BY <1>4 DEF SearchInv, SeatInv, BoardInv
<1>12. AudienceInv BY <1>4, <1>7, NoRejoins DEF AudienceInv
<1>13. WatchInv BY <1>4, <1>7 DEF WatchInv
<1> QED BY <1>8, <1>9, <1>10, <1>11, <1>12, <1>13 DEF StoreInv

LEMMA StoreInvStep == StoreInv /\ [StoreNext]_storeVars => StoreInv'
<1> SUFFICES ASSUME StoreInv, [StoreNext]_storeVars PROVE StoreInv' OBVIOUS
<1>1. CASE APress BY <1>1, EveryPress, PressKeepsInv, InvFacts
<1>2. CASE ServerReads BY <1>2, ReadingIsServed, ServedKeepsInv
<1>3. CASE Tick \/ EndSearch BY <1>3, TickIsServed, EndSearchIsServed, ServedKeepsInv
<1>4. CASE \E game \in Games : Pair(game) \/ Finish(game) \/ CallOff(game)
  BY <1>4, PairIsServed, FinishIsServed, CallOffIsServed, ServedKeepsInv
<1>5. CASE Connect BY <1>5, ConnectKeepsInv
<1>6. CASE Drop \/ Reload BY <1>6, DropKeepsInv, ReloadKeepsInv
<1>7. CASE ClientReads BY <1>7, ReadKeepsInv
<1>8. CASE UNCHANGED storeVars
  <2>1. /\ client' = client /\ server' = server /\ up' = up /\ down' = down
    BY <1>8 DEF storeVars
  <2>2. StoreTypeOK' /\ WireInv' /\ ClientInv'
    BY <2>1, InvFacts DEF StoreTypeOK, WireInv, ClientInv, AtOwnGame, Shows
  <2>3. GamesInv' BY <2>1, InvFacts DEF GamesInv, Told, BegunOnly
  <2>4. SearchInv' BY <2>1, InvFacts DEF SearchInv
  <2>5. SeatInv' BY <2>1, InvFacts DEF SeatInv, Holds
  <2>6. BoardInv' BY <2>1, InvFacts DEF BoardInv, AtOwnGame, Shows
  <2>7. AudienceInv' BY <2>1, InvFacts DEF AudienceInv, Shows
  <2>8. WatchInv' BY <2>1, InvFacts DEF WatchInv, Shows
  <2> QED BY <2>2, <2>3, <2>4, <2>5, <2>6, <2>7, <2>8 DEF StoreInv
<1> QED
  BY <1>1, <1>2, <1>3, <1>4, <1>5, <1>6, <1>7, <1>8 DEF StoreNext, APress

LEMMA StoreAlways == StoreSpec => []StoreInv
BY StoreInvStarts, StoreInvStep, PTL DEF StoreSpec

\* Everything has been read.
LEMMA SettledFacts ==
  ASSUME StoreInv, Settled
  PROVE  /\ server.online /\ client.status = "connected" /\ ~MustStopWatching(client)
         /\ \A K : ~Has(up, K) /\ ~Has(down, K)
<1>1. WireInv BY InvFacts
<1>2. client.status = "connected" /\ up = <<>> /\ down = <<>> BY DEF Settled
<1> QED BY <1>1, <1>2, ShortFacts DEF WireInv, Settled

\* Every field holds what the code can put in it, and what is on its way either way
\* is a message of the protocol (gameStore.ts, app/_layout.tsx and the server's
\* handlers).
THEOREM StoreKeepsType == StoreSpec => []StoreTypeOK
<1>1. StoreInv => StoreTypeOK BY DEF StoreInv
<1> QED BY <1>1, StoreAlways, PTL

\* Once everything sent has been read, the search on the screen is one the server
\* holds, or one it refused (ClientStore!ShownSearchIsHeld).
THEOREM ShownSearchesAreHeld == StoreSpec => []ShownSearchIsHeld
<1>1. ASSUME StoreInv PROVE ShownSearchIsHeld
  <2>1. SUFFICES ASSUME Settled, client.queue # None
                 PROVE  server.seek = client.queue \/ server.refused
    BY DEF ShownSearchIsHeld
  <2>2. SearchInv BY <1>1, InvFacts
  <2> QED BY <2>1, <2>2, <1>1, SettledFacts DEF SearchInv
<1> QED BY <1>1, StoreAlways, PTL

\* Once everything sent has been read, a player with a game is in its seat and has
\* it on the board, unless something not about it took it off, and no live seat is
\* shown that is not held (ClientStore!SeatIsOnTheBoard).
THEOREM SeatsAreOnTheBoard == StoreSpec => []SeatIsOnTheBoard
<1>1. ASSUME StoreInv, Settled
      PROVE  /\ server.mine # None =>
                  /\ server.seated
                  /\ \/ /\ client.stored = server.mine
                        /\ client.board = Board("seat", server.mine, TRUE)
                     \/ client.taken
             /\ AtOwnGame(client) => client.board.game = server.mine
  <2>0. /\ SeatInv /\ BoardInv /\ client \in Clients /\ server \in Servers
    BY <1>1, InvFacts
  <2>1. /\ server.online /\ client.status = "connected" /\ \A K : ~Has(up, K) /\ ~Has(down, K)
    BY <1>1, SettledFacts
  <2>2. server.mine # None => server.seated BY <2>0, <2>1 DEF SeatInv
  <2>3. server.seated => Holds(client, server.mine) BY <2>0, <2>1 DEF SeatInv
  <2>4. ASSUME AtOwnGame(client) PROVE client.board.game = server.mine
    <3>1. client.board.game \in Games
      BY <2>0, <2>4, ClientFields, BoardFacts DEF AtOwnGame, Shows
    <3> QED BY <3>1, <2>0, <2>1, <2>4 DEF BoardInv
  <2> QED BY <2>2, <2>3, <2>4 DEF Holds
<1>2. StoreInv => SeatIsOnTheBoard BY <1>1 DEF SeatIsOnTheBoard
<1> QED BY <1>2, StoreAlways, PTL

\* Off the page of a game being watched the server counts this player in no
\* audience, unless it was left in one by a refusal, and a live board being watched
\* is one the server shows (ClientStore!WatchingIsOfThePage).
THEOREM WatchingStaysOnThePage == StoreSpec => []WatchingIsOfThePage
<1>1. ASSUME StoreInv, Settled
      PROVE  /\ client.page # "watch" => server.audience = None \/ server.stranded
             /\ Shows(client, "watch") /\ client.board.live
                  => server.audience = client.board.game
  <2>0. /\ AudienceInv /\ WatchInv /\ client \in Clients BY <1>1, InvFacts
  <2>1. /\ server.online /\ ~MustStopWatching(client) /\ \A K : ~Has(up, K) /\ ~Has(down, K)
    BY <1>1, SettledFacts
  <2>2. client.page # "watch" => client.asked = None /\ ~Shows(client, "watch")
    BY <2>1 DEF MustStopWatching, Watching
  <2>3. client.page # "watch" => server.audience = None \/ server.stranded
    BY <2>0, <2>1, <2>2 DEF AudienceInv
  <2>4. ASSUME Shows(client, "watch"), client.board.live
        PROVE  server.audience = client.board.game
    <3>1. client.board.game \in Games BY <2>0, <2>4, ClientFields, BoardFacts DEF Shows
    <3> QED BY <3>1, <2>0, <2>1, <2>2, <2>4 DEF WatchInv
  <2> QED BY <2>3, <2>4
<1>2. StoreInv => WatchingIsOfThePage BY <1>1 DEF WatchingIsOfThePage
<1> QED BY <1>2, StoreAlways, PTL
=============================================================================
