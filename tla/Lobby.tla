------------------------------- MODULE Lobby -------------------------------
(***************************************************************************)
(* From a click to a game: connections, the seek board, pairing, the       *)
(* escrow of a game that has been opened but not begun, and the ways such  *)
(* a game ends (internal/server: challenge.go, seeks.go, queue_presence.go,*)
(* match_start.go and the session half of server.go).                      *)
(*                                                                         *)
(* Every websocket is a goroutine of its own, pairing is another, the      *)
(* lobby ticker a third, and a moderator or a deploy arrives over HTTP on  *)
(* a goroutine nobody waits for.  What they share sits behind three locks  *)
(* -- the board's, one per seek, and Server.mu -- and no path holds one    *)
(* while it asks for the next.  So a thread is an agenda: the sequence of  *)
(* critical sections it still has to run, each one an action, with every   *)
(* other thread free to run between two of them.                           *)
(*                                                                         *)
(* A socket outside a seat, a mover's game and the rating it moves are     *)
(* what later modules compose with this one: here a game is only waiting,  *)
(* begun or over, and messages to screens are left out.                    *)
(***************************************************************************)
EXTENDS Integers, FiniteSets, Sequences

CONSTANTS
  Clients,        \* sockets; each connects at most once
  Owners,         \* accounts
  Owner,          \* [Clients -> Owners]: two sockets of one account are two tabs
  Reachable,      \* the accounts push.Reachable answers for
  Setups,         \* the games people ask for: [game, color]
  Standard,       \* the setup that is a plain search however it was asked for
  Requests,       \* bound: what each thread may be asked to do
  InitiallyOpen,  \* sockets connected before the board was first written to
  MaxSeeks,       \* bound: seeks ever made, a taker's among them
  MaxSessions,    \* bound: games ever opened
  None            \* no socket, no target, no seek

Red == "Red"
Blue == "Blue"
Neutral == "Neutral"
Colors == {Red, Blue}
OtherColor(c) == IF c = Red THEN Blue ELSE Red

Pairer == "seekBoard.Run"
Sweeper == "lobby ticker"
Moderator == "moderator"
Deployer == "deploy"
Threads == Clients \cup {Pairer, Sweeper, Moderator, Deployer}

ASSUME ClientAssumption ==
  /\ IsFiniteSet(Clients) /\ InitiallyOpen \subseteq Clients
  /\ Owner \in [Clients -> Owners]

ASSUME RequestAssumption == Requests \in [Threads -> SUBSET STRING]

ASSUME ReachableAssumption == Reachable \subseteq Owners

ASSUME SetupAssumption ==
  Standard \in Setups /\ \A setup \in Setups : setup.color \in Colors \cup {Neutral}

ASSUME BoundAssumption == MaxSeeks \in Nat /\ MaxSessions \in Nat

VARIABLES
  conn,           \* where each socket is in its life: new, open, and then what
                  \* disconnect still has to do: its seek and its seat, its place
                  \* in the hub, nothing
  seeks,          \* every seek made, oldest first: JoinedAt is its position
  byID, byOwner,  \* the board
  sessions,       \* every game opened
  participants,   \* Server.participants: the seat each socket plays
  agenda,         \* what each thread still has to do
  updating        \* the update drain: no, on, or called off

vars == <<conn, seeks, byID, byOwner, sessions, participants, agenda, updating>>

\* A seek is known by its owner and its place in the order they were made.
SeekIDs == Owners \X (1..MaxSeeks)
SeekOwner == [s \in SeekIDs |-> s[1]]

\* Participant: a seat of a session.
Places == [session : Nat, color : Colors]

ASSUME NoneAssumption == None \notin Clients \cup Owners \cup SeekIDs \cup Places

INSTANCE SeekBoard WITH Seeks <- SeekIDs, OwnerOf <- SeekOwner, NoSeek <- None

TheSeek(id) == seeks[id[2]]

IsOpen(id) == TheSeek(id).target = None

-----------------------------------------------------------------------------
(* Threads.                                                                *)

Idle(t) == agenda[t] = <<>>

\* A step at the head of a thread's agenda, and what it is replaced by.
At(t, kind) == ~Idle(t) /\ Head(agenda[t]).do = kind
Step(t) == Head(agenda[t])
Then(t, steps) == agenda' = [agenda EXCEPT ![t] = steps \o Tail(@)]
Begin(t, steps) == Idle(t) /\ agenda' = [agenda EXCEPT ![t] = steps]

AllSteps == UNION {{<<t, i>> : i \in DOMAIN agenda[t]} : t \in Threads}
StepsOf(kinds) == {x \in AllSteps : agenda[x[1]][x[2]].do \in kinds}

\* The bounds: seeks and games already promised to a thread count.
RoomForSeek == Len(seeks) + Cardinality(StepsOf({"post", "claim"})) < MaxSeeks
RoomForGames(n) ==
  Len(sessions) + Cardinality(StepsOf({"claim", "resolve", "open", "install"})) + n
    <= MaxSessions

Stays(c) == conn[c] \in {"open", "closing"}       \* disconnect has not emptied its seat
Connected(c) == Stays(c) \/ conn[c] = "leaving"    \* in the hub
Free(c) == participants[c] = None                  \* clientIsFree

\* A command: its socket is open and has answered the command before it.
Asks(c, request) == conn[c] = "open" /\ Idle(c) /\ request \in Requests[c]

-----------------------------------------------------------------------------
(* Seeks.                                                                  *)

\* Fits: the same game, and no quarrel about the seat.
Fits(a, b) ==
  /\ a.game = b.game
  /\ a.color = Neutral \/ b.color = Neutral \/ a.color # b.color

\* seekCanOutliveSocket: a plain search by somebody push can reach.
CanOutliveSocket(id) == TheSeek(id).queued /\ id[1] \in Reachable

\* postSeek's checks: not draining, not seated, and nothing already waiting
\* that a second search may not silently replace.
AskForGame(c, target, setup, fromQueue) ==
  LET queued == target = None /\ (fromQueue \/ setup = Standard)
      existing == byOwner[Owner[c]]
  IN  /\ updating # "on"
      /\ target # Owner[c]
      /\ Free(c)
      /\ existing # None => TheSeek(existing).queued /\ queued
      /\ RoomForSeek
      /\ Begin(c, <<[do |-> "post", target |-> target, setup |-> setup,
                     queued |-> queued]>>)
      /\ UNCHANGED <<conn, seeks, byID, byOwner, sessions, participants, updating>>

JoinQueue(c) ==
  Asks(c, "join_queue") /\ \E setup \in Setups : AskForGame(c, None, setup, TRUE)

SendChallenge(c) ==
  \/ /\ Asks(c, "post_open")
     /\ \E setup \in Setups : AskForGame(c, None, setup, FALSE)
  \/ /\ Asks(c, "post_private")
     /\ \E setup \in Setups, target \in Owners : AskForGame(c, target, setup, FALSE)

\* postSeek's end: the seek is made and posted.  Only a posted game expires.
PostSeek(c) ==
  /\ At(c, "post")
  /\ LET step == Step(c)
     IN  seeks' = Append(seeks, [owner |-> Owner[c], target |-> step.target,
                                 setup |-> step.setup, queued |-> step.queued,
                                 client |-> c, timed |-> ~step.queued])
  /\ Post(<<Owner[c], Len(seeks) + 1>>)
  /\ Then(c, <<>>)
  /\ UNCHANGED <<conn, sessions, participants, updating>>

\* leaveQueue and cancelChallenge: the author's own wait.
Withdraw(c) ==
  /\ Asks(c, "withdraw")
  /\ byOwner[Owner[c]] # None
  /\ \/ RemoveOwner(Owner[c])
     \/ \E s \in byID : s[1] = Owner[c] /\ ClaimFrom(Owner[c], s)
  /\ UNCHANGED <<conn, seeks, sessions, participants, agenda, updating>>

\* declineChallenge: only the person a challenge is addressed to.
Decline(c) ==
  /\ Asks(c, "decline")
  /\ \E s \in byID : TheSeek(s).target = Owner[c] /\ Claim(s)
  /\ UNCHANGED <<conn, seeks, sessions, participants, agenda, updating>>

\* acceptChallenge's checks.  A seek that has run out, or whose author is at
\* another board, is taken off; otherwise the taker goes on to claim it.
Accept(c) ==
  /\ Asks(c, "accept")
  /\ RoomForSeek /\ RoomForGames(1)
  /\ \E s \in byID :
       LET poster == TheSeek(s).client
           busy == poster # None /\ Connected(poster) /\ ~Free(poster)
       IN  /\ TheSeek(s).target \in {None, Owner[c]}
           /\ \/ TheSeek(s).timed /\ Begin(c, <<[do |-> "dispose", seek |-> s]>>)
              \/ /\ Free(c)
                 /\ byOwner[Owner[c]] = None
                 /\ IF s[1] = Owner[c] \/ busy
                    THEN Begin(c, <<[do |-> "dispose", seek |-> s]>>)
                    ELSE Begin(c, <<[do |-> "claim", seek |-> s]>>)
  /\ UNCHANGED <<conn, seeks, byID, byOwner, sessions, participants, updating>>

Dispose(c) ==
  /\ At(c, "dispose")
  /\ Claim(Step(c).seek)
  /\ Then(c, <<>>)
  /\ UNCHANGED <<conn, seeks, sessions, participants, updating>>

Seat(seek, requeue) == [seek |-> seek, requeue |-> requeue]

\* seatMatch: the opener holds the side that moves first, Blue.
SeatMatch(opener, replier) ==
  [do |-> "resolve", seats |-> [c \in Colors |-> IF c = Blue THEN opener ELSE replier]]

\* Mutant: the taker does not look at what Claim gave back.
StillPostedOrNot(s) == TRUE

StillPosted(s) == s \in byID

\* Claim, and startAcceptedChallenge for the one caller who gets the seek.
ClaimSeek(c) ==
  /\ At(c, "claim")
  /\ LET s == Step(c).seek
         setup == TheSeek(s).setup
         posted == Seat(s, FALSE)
         taker == Seat(<<Owner[c], Len(seeks) + 1>>, FALSE)
     IN  /\ Claim(s)
         /\ IF StillPosted(s)
            THEN /\ seeks' = Append(seeks, [owner |-> Owner[c], target |-> None,
                                            setup |-> setup, queued |-> FALSE,
                                            client |-> c, timed |-> FALSE])
                 /\ Then(c, IF setup.color = Red THEN <<SeatMatch(taker, posted)>>
                                                 ELSE <<SeatMatch(posted, taker)>>)
            ELSE Then(c, <<>>) /\ UNCHANGED seeks
  /\ UNCHANGED <<conn, sessions, participants, updating>>

-----------------------------------------------------------------------------
(* Pairing and seating.                                                    *)

\* pair, first half: paused is asked before the board's lock is taken.
PairTick ==
  /\ updating # "on"
  /\ Begin(Pairer, <<[do |-> "pair"]>>)
  /\ UNCHANGED <<conn, seeks, byID, byOwner, sessions, participants, updating>>

\* The pairs a round may form: open seeks of two people that describe the same
\* game, the older of the two first.  How close in strength two people have to
\* be by now, and which of several fitting partners is closest, is left open.
CanPair(first, second) ==
  /\ IsOpen(first) /\ IsOpen(second)
  /\ first[2] < second[2]
  /\ first[1] # second[1]
  /\ Fits(TheSeek(first).setup, TheSeek(second).setup)

\* What is kept in a map is gone through in any order.
Orders(S) == {order \in [1..Cardinality(S) -> S] : \A x \in S : \E i \in DOMAIN order : order[i] = x}

Disjoint(M) ==
  \A p, q \in M : p # q => {p[1], p[2]} \cap {q[1], q[2]} = {}

OldestFirst(order) ==
  \A i, j \in DOMAIN order : i < j => order[i][1][2] < order[j][1][2]

\* Mutant: the younger seek's preference is forgotten.
StartPairedByFirst(first, second) ==
  IF TheSeek(first).setup.color = Red
  THEN SeatMatch(Seat(second, TRUE), Seat(first, TRUE))
  ELSE SeatMatch(Seat(first, TRUE), Seat(second, TRUE))

\* startPairedMatch with seatOrder.
StartPaired(first, second) ==
  IF TheSeek(first).setup.color = Red \/ TheSeek(second).setup.color = Blue
  THEN SeatMatch(Seat(second, TRUE), Seat(first, TRUE))
  ELSE SeatMatch(Seat(first, TRUE), Seat(second, TRUE))

Pair ==
  /\ At(Pairer, "pair")
  /\ \E M \in SUBSET {p \in byID \X byID : CanPair(p[1], p[2])} :
       /\ Disjoint(M)
       /\ RoomForGames(Cardinality(M))
       /\ TakePairs(M)
       /\ \E order \in Orders(M) :
            /\ OldestFirst(order)
            /\ Then(Pairer, [i \in DOMAIN order |-> StartPaired(order[i][1], order[i][2])])
  /\ UNCHANGED <<conn, seeks, sessions, participants, updating>>

FreeTabs(owner) == {c \in Clients : Connected(c) /\ Owner[c] = owner /\ Free(c)}

\* Mutant: the seat waits for its player.
SeatPresentClients(id) ==
  IF TheSeek(id).client \in FreeTabs(id[1]) THEN {TheSeek(id).client} ELSE FreeTabs(id[1])

\* seatClient: the socket behind the seek, or any other tab that is free.
SeatClients(id) ==
  LET own == TheSeek(id).client
      others == FreeTabs(id[1])
  IN  IF own \in others THEN {own}
      ELSE IF others = {} THEN {None} ELSE others

ResolveSeats(t) ==
  /\ At(t, "resolve")
  /\ LET seats == Step(t).seats
     IN  \E red \in SeatClients(seats[Red].seek), blue \in SeatClients(seats[Blue].seek) :
           LET release(c) == IF c = None THEN <<>> ELSE <<[do |-> "release", client |-> c]>>
           IN  Then(t, release(red) \o release(blue)
                         \o <<[do |-> "open", seats |-> seats,
                               socket |-> [c \in Colors |-> IF c = Red THEN red ELSE blue]]>>)
  /\ UNCHANGED <<conn, seeks, byID, byOwner, sessions, participants, updating>>

\* releaseFromLobby: whatever its player was waiting behind.
Release(t) ==
  /\ At(t, "release")
  /\ RemoveOwner(Owner[Step(t).client])
  /\ Then(t, <<>>)
  /\ UNCHANGED <<conn, seeks, sessions, participants, updating>>

Returns(seat) == IF seat.requeue THEN <<[do |-> "requeue", seek |-> seat.seek]>> ELSE <<>>

\* startConfiguredMatch refuses while the server drains, and both seats return.
OpenGame(t) ==
  /\ At(t, "open")
  /\ LET step == Step(t)
     IN  Then(t, IF updating = "on"
                 THEN Returns(step.seats[Red]) \o Returns(step.seats[Blue])
                 ELSE <<[step EXCEPT !.do = "install"]>>)
  /\ UNCHANGED <<conn, seeks, byID, byOwner, sessions, participants, updating>>

\* The game goes live under Server.mu.  Nobody asks again whether the sockets
\* chosen two locks ago are still there, or still free.
InstallGame(t) ==
  /\ At(t, "install")
  /\ LET step == Step(t)
         id == Len(sessions) + 1
     IN  /\ sessions' = Append(sessions,
              [seats |-> step.seats, socket |-> step.socket,
               absent |-> [c \in Colors |-> step.socket[c] = None],
               escrow |-> "held", turn |-> Blue, moved |-> FALSE, end |-> "none",
               listed |-> TRUE, recorded |-> FALSE])
         /\ participants' = [c \in Clients |->
              IF \E color \in Colors : step.socket[color] = c
              THEN [session |-> id, color |-> CHOOSE color \in Colors : step.socket[color] = c]
              ELSE participants[c]]
  /\ Then(t, <<>>)
  /\ UNCHANGED <<conn, seeks, byID, byOwner, updating>>

-----------------------------------------------------------------------------
(* Sockets.                                                                *)

\* hub.Register.
Connect(c) ==
  /\ conn[c] = "new"
  /\ conn' = [conn EXCEPT ![c] = "open"]
  /\ Begin(c, <<[do |-> "rebind"]>>)
  /\ UNCHANGED <<seeks, byID, byOwner, sessions, participants, updating>>

\* rebindSeek: the new tab is handed the wait, and its away clock stops.
Rebind(c) ==
  /\ At(c, "rebind")
  /\ LET s == byOwner[Owner[c]]
     IN  seeks' = IF s = None THEN seeks
                  ELSE [seeks EXCEPT ![s[2]].client = c, ![s[2]].timed = FALSE]
  /\ Then(c, <<>>)
  /\ UNCHANGED <<conn, byID, byOwner, sessions, participants, updating>>

\* A connection drops, or is closed: readPump returns and disconnect runs, in
\* three sections: the seek, the seat, the hub.
Drop(c) ==
  /\ Asks(c, "drop")
  /\ conn' = [conn EXCEPT ![c] = "closing"]
  /\ Begin(c, <<[do |-> "detach"]>>)
  /\ UNCHANGED <<seeks, byID, byOwner, sessions, participants, updating>>

\* seekBoard.Detach: only the socket behind the seek lets go of it, and only of
\* a seek that is on the board.
Detach(c) ==
  /\ At(c, "detach")
  /\ LET s == byOwner[Owner[c]]
     IN  IF s # None /\ TheSeek(s).client = c
         THEN /\ seeks' = [seeks EXCEPT ![s[2]].client = None]
              /\ Then(c, <<[do |-> "shelter", seek |-> s]>>)
         ELSE Then(c, <<>>) /\ UNCHANGED seeks
  /\ UNCHANGED <<conn, byID, byOwner, sessions, participants, updating>>

\* releaseSeeksOnDisconnect, the rest: another tab, an expiry, or withdrawal.
Shelter(c) ==
  /\ At(c, "shelter")
  /\ LET s == Step(c).seek
         others == {d \in Clients \ {c} : Connected(d) /\ Owner[d] = Owner[c]}
     IN  \/ /\ \E d \in others : seeks' = [seeks EXCEPT ![s[2]].client = d]
            /\ UNCHANGED <<byID, byOwner>>
         \/ /\ others = {} /\ CanOutliveSocket(s)
            /\ seeks' = [seeks EXCEPT ![s[2]].timed = TRUE]
            /\ UNCHANGED <<byID, byOwner>>
         \/ /\ others = {} /\ ~CanOutliveSocket(s)
            /\ Claim(s)
            /\ UNCHANGED seeks
  /\ Then(c, <<>>)
  /\ UNCHANGED <<conn, sessions, participants, updating>>

\* Mutant: the clock of a seat starts only in a game that has begun.
VacatedOnceBegun(s, color) ==
  [sessions EXCEPT ![s].socket[color] = None, ![s].absent[color] = sessions[s].moved]

Vacated(s, color) ==
  [sessions EXCEPT ![s].socket[color] = None, ![s].absent[color] = TRUE]

\* disconnect under Server.mu: the seat empties only if it is still this socket's.
Unseat(c) ==
  /\ conn[c] = "closing" /\ Idle(c)
  /\ conn' = [conn EXCEPT ![c] = "leaving"]
  /\ participants' = [participants EXCEPT ![c] = None]
  /\ LET p == participants[c]
     IN  sessions' = IF p # None /\ sessions[p.session].socket[p.color] = c
                     THEN Vacated(p.session, p.color) ELSE sessions
  /\ UNCHANGED <<seeks, byID, byOwner, agenda, updating>>

\* hub.Unregister.
Unregister(c) ==
  /\ conn[c] = "leaving"
  /\ conn' = [conn EXCEPT ![c] = "gone"]
  /\ UNCHANGED <<seeks, byID, byOwner, sessions, participants, agenda, updating>>

-----------------------------------------------------------------------------
(* A game that has not begun.                                              *)

Live(s) == sessions[s].listed
Waiting(s) == ~sessions[s].moved /\ sessions[s].end = "none"
Over(s) == sessions[s].end # "none"

PlayerOf(s, color) == sessions[s].seats[color].seek[1]

\* cancelUnstartedGame of session s, blaming one side, whichever is to move
\* when it is asked, or nobody.
CallOff(s, blame) == [do |-> "callOff", session |-> s, blame |-> blame]

\* abortGame: the slot is claimed under the lock.
Abort(c) ==
  /\ Asks(c, "abort")
  /\ participants[c] # None
  /\ LET p == participants[c]
     IN  /\ sessions[p.session].escrow = "held"
         /\ sessions' = [sessions EXCEPT ![p.session].escrow = "claimed"]
         /\ Begin(c, <<CallOff(p.session, p.color)>>)
  /\ UNCHANGED <<conn, seeks, byID, byOwner, participants, updating>>

Unbegun == {s \in DOMAIN sessions : Live(s) /\ sessions[s].escrow = "held"}

\* expireUnstartedGames under the lock; the games are called off one by one.
Collected(S) ==
  [s \in DOMAIN sessions |->
     IF s \in S THEN [sessions[s] EXCEPT !.escrow = "claimed"] ELSE sessions[s]]

CallOffs(order) == [i \in DOMAIN order |-> CallOff(order[i], "mover")]

SweepUnstarted ==
  /\ \E S \in SUBSET Unbegun \ {{}} :
       /\ sessions' = Collected(S)
       /\ \E order \in Orders(S) : Begin(Sweeper, CallOffs(order))
  /\ UNCHANGED <<conn, seeks, byID, byOwner, participants, updating>>

\* A host stops a game that had not begun when it was looked at.
StopUnbegun ==
  /\ "stop" \in Requests[Moderator]
  /\ \E s \in DOMAIN sessions :
       /\ Live(s) /\ sessions[s].escrow # "none"
       /\ Begin(Moderator, <<CallOff(s, Neutral)>>)
  /\ UNCHANGED <<conn, seeks, byID, byOwner, sessions, participants, updating>>

\* BeginUpdateDrain: every unbegun game is called off at once.
BeginUpdateDrain ==
  /\ "update" \in Requests[Deployer]
  /\ updating = "no"
  /\ updating' = "on"
  /\ Begin(Deployer, <<[do |-> "sweep"]>>)
  /\ UNCHANGED <<conn, seeks, byID, byOwner, sessions, participants>>

DrainSweep ==
  /\ At(Deployer, "sweep")
  /\ sessions' = Collected(Unbegun)
  /\ \E order \in Orders(Unbegun) : Then(Deployer, CallOffs(order))
  /\ UNCHANGED <<conn, seeks, byID, byOwner, participants, updating>>

CancelUpdateDrain ==
  /\ updating = "on" /\ Idle(Deployer)
  /\ updating' = "called off"
  /\ UNCHANGED <<conn, seeks, byID, byOwner, sessions, participants, agenda>>

\* Mutants: a slot somebody has claimed, or every slot, counts as empty or full.
EmptiedOnceClaimed(s) == sessions[s].escrow # "held"

NeverEmptied(s) == FALSE

Emptied(s) == sessions[s].escrow = "none"

\* The sweeps read the side to move before cancelUnstartedGame takes the lock,
\* and a first move may land between the two.
ReadMover(t) ==
  /\ At(t, "callOff") /\ Step(t).blame = "mover"
  /\ Then(t, <<CallOff(Step(t).session, sessions[Step(t).session].turn)>>)
  /\ UNCHANGED <<conn, seeks, byID, byOwner, sessions, participants, updating>>

\* cancelUnstartedGame under the lock: whoever empties the escrow gives the
\* seats back -- the waiting player's, or both when nobody is to blame.
CallOffUnstarted(t) ==
  /\ At(t, "callOff") /\ Step(t).blame # "mover"
  /\ LET s == Step(t).session
         held == sessions[s]
         noShow == IF Step(t).blame = Neutral THEN Red ELSE Step(t).blame
         waiting == OtherColor(noShow)
     IN  IF Emptied(s) THEN Then(t, <<>>) /\ UNCHANGED sessions
         ELSE /\ sessions' = [sessions EXCEPT ![s].escrow = "none"]
              /\ Then(t, <<[do |-> "discard", session |-> s]>>
                           \o Returns(held.seats[waiting])
                           \o IF Step(t).blame = Neutral
                              THEN Returns(held.seats[noShow]) ELSE <<>>)
  /\ UNCHANGED <<conn, seeks, byID, byOwner, participants, updating>>

\* Mutant: the game leaves the list and its players stay in it.
UnlistedOnly(s) ==
  /\ sessions' = IF Live(s) THEN [sessions EXCEPT ![s].listed = FALSE] ELSE sessions
  /\ UNCHANGED participants

\* Off the list, and out of the hands of the players it still seats.
Unlisted(s) ==
  IF ~Live(s) THEN UNCHANGED <<sessions, participants>>
  ELSE /\ sessions' = [sessions EXCEPT ![s].listed = FALSE]
       /\ participants' = [c \in Clients |->
            IF /\ \E color \in Colors : sessions[s].socket[color] = c
               /\ participants[c] # None /\ participants[c].session = s
            THEN None ELSE participants[c]]

\* discardSession.
Discard(t) ==
  /\ At(t, "discard")
  /\ Unlisted(Step(t).session)
  /\ Then(t, <<>>)
  /\ UNCHANGED <<conn, seeks, byID, byOwner, updating>>

\* requeueOrRelease: the same seek goes back, unless it has lost its socket and
\* its author cannot be called.
Requeue(t) ==
  /\ At(t, "requeue")
  /\ LET s == Step(t).seek
     IN  IF ~CanOutliveSocket(s) /\ TheSeek(s).client = None
         THEN UNCHANGED <<byID, byOwner>> ELSE Post(s)
  /\ Then(t, <<>>)
  /\ UNCHANGED <<conn, seeks, sessions, participants, updating>>

-----------------------------------------------------------------------------
(* A game being played, and how it ends.                                   *)

\* participantFor: what a command about a game does first.
Act(c, request, kind) ==
  /\ Asks(c, request)
  /\ participants[c] # None
  /\ Begin(c, <<[do |-> kind, seat |-> participants[c]]>>)
  /\ UNCHANGED <<conn, seeks, byID, byOwner, sessions, participants, updating>>

MakeMove(c) == Act(c, "move", "move")
Resign(c) == Act(c, "resign", "resign")

Finish(s) == [do |-> "finish", session |-> s]

\* game.Move, under the game's own lock; a move may end the game.
PlayMove(c) ==
  /\ At(c, "move")
  /\ LET s == Step(c).seat.session
         color == Step(c).seat.color
     IN  IF Over(s) THEN Then(c, <<Finish(s)>>) /\ UNCHANGED sessions
         ELSE IF sessions[s].turn # color THEN Then(c, <<>>) /\ UNCHANGED sessions
         ELSE \E over \in BOOLEAN :
                /\ sessions' = [sessions EXCEPT ![s].moved = TRUE,
                                  ![s].turn = IF over THEN @ ELSE OtherColor(@),
                                  ![s].end = IF over THEN "move" ELSE @]
                /\ Then(c, <<[do |-> "began", session |-> s]>>
                             \o IF over THEN <<Finish(s)>> ELSE <<>>)
  /\ UNCHANGED <<conn, seeks, byID, byOwner, participants, updating>>

\* matchBegan.
MatchBegan(c) ==
  /\ At(c, "began")
  /\ sessions' = [sessions EXCEPT ![Step(c).session].escrow = "none"]
  /\ Then(c, <<>>)
  /\ UNCHANGED <<conn, seeks, byID, byOwner, participants, updating>>

\* The game ends, unless it already has, and the caller that ended it finishes
\* the session: Resign and Abandon refuse a finished game.
EndsGame(t, s, how) ==
  IF Over(s) THEN Then(t, <<>>) /\ UNCHANGED sessions
  ELSE /\ sessions' = [sessions EXCEPT ![s].end = how]
       /\ Then(t, <<Finish(s)>>)

PlayResign(c) ==
  /\ At(c, "resign")
  /\ EndsGame(c, Step(c).seat.session, "resign")
  /\ UNCHANGED <<conn, seeks, byID, byOwner, participants, updating>>

\* game.Abandon, of a seat whose time to come back was judged to have passed.
AbandonGame(t) ==
  /\ At(t, "abandon")
  /\ EndsGame(t, Step(t).session, "abandon")
  /\ UNCHANGED <<conn, seeks, byID, byOwner, participants, updating>>

\* finishSession: closeOnce, the record, and then retireSession.
FinishSession(t) ==
  /\ At(t, "finish")
  /\ LET s == Step(t).session
     IN  IF sessions[s].recorded THEN Then(t, <<>>) /\ UNCHANGED sessions
         ELSE /\ sessions' = [sessions EXCEPT ![s].recorded = TRUE]
              /\ Then(t, <<[do |-> "retire", session |-> s]>>)
  /\ UNCHANGED <<conn, seeks, byID, byOwner, participants, updating>>

Retire(t) ==
  /\ At(t, "retire")
  /\ Unlisted(Step(t).session)
  /\ Then(t, <<>>)
  /\ UNCHANGED <<conn, seeks, byID, byOwner, updating>>

\* expireGames: a game that is over is finished, a clock may have run out, and
\* an empty seat may have been empty too long.
ClockEnds(s) ==
  /\ s \in DOMAIN sessions /\ Live(s) /\ ~Waiting(s)
  /\ Begin(Sweeper, <<Finish(s)>>)
  /\ sessions' = [sessions EXCEPT ![s].end = IF @ = "none" THEN "clock" ELSE @]
  /\ UNCHANGED <<conn, seeks, byID, byOwner, participants, updating>>

NobodyCameBack(s) ==
  /\ s \in DOMAIN sessions /\ Live(s) /\ ~Waiting(s) /\ ~Over(s)
  /\ \E color \in Colors : sessions[s].absent[color]
  /\ Begin(Sweeper, <<[do |-> "abandon", session |-> s]>>)
  /\ UNCHANGED <<conn, seeks, byID, byOwner, sessions, participants, updating>>

\* expireChallenges.
ExpireChallenges ==
  /\ Idle(Sweeper)
  /\ \E S \in SUBSET byID :
       /\ S # {} /\ \A s \in S : TheSeek(s).timed
       /\ TakeExpired(S)
  /\ UNCHANGED <<conn, seeks, sessions, participants, agenda, updating>>

Reseated(s, color, c) ==
  [sessions EXCEPT ![s].socket[color] = c, ![s].absent[color] = FALSE]

\* rejoinGame, one critical section: a finished game is finished, a seat held
\* too long is given up, and otherwise the tab takes the seat from the last.
RejoinGame(c) ==
  /\ Asks(c, "rejoin")
  /\ \E s \in DOMAIN sessions, color \in Colors :
       LET old == sessions[s].socket[color]
       IN  /\ Live(s) /\ PlayerOf(s, color) = Owner[c]
           /\ \/ /\ Over(s)
                 /\ Begin(c, <<Finish(s)>>)
                 /\ UNCHANGED <<sessions, participants>>
              \/ /\ ~Over(s) /\ sessions[s].absent[color]
                 /\ Begin(c, <<[do |-> "abandon", session |-> s]>>)
                 /\ UNCHANGED <<sessions, participants>>
              \/ /\ ~Over(s)
                 /\ sessions' = Reseated(s, color, c)
                 /\ participants' = [d \in Clients |->
                      IF d = c THEN [session |-> s, color |-> color]
                      ELSE IF d = old THEN None ELSE participants[d]]
                 /\ UNCHANGED agenda
  /\ UNCHANGED <<conn, seeks, byID, byOwner, updating>>

-----------------------------------------------------------------------------
(* The specification.                                                      *)

Init ==
  /\ conn = [c \in Clients |-> IF c \in InitiallyOpen THEN "open" ELSE "new"]
  /\ seeks = <<>>
  /\ BoardInit
  /\ sessions = <<>>
  /\ participants = [c \in Clients |-> None]
  /\ agenda = [t \in Threads |-> <<>>]
  /\ updating = "no"

Command(c) ==
  \/ Connect(c) \/ Drop(c)
  \/ JoinQueue(c) \/ SendChallenge(c) \/ Withdraw(c) \/ Decline(c) \/ Accept(c)
  \/ Abort(c) \/ MakeMove(c) \/ Resign(c) \/ RejoinGame(c)

\* What a socket's own goroutine still has to do.
Continue(c) ==
  \/ Rebind(c) \/ Detach(c) \/ Shelter(c) \/ Unseat(c) \/ Unregister(c)
  \/ PostSeek(c) \/ Dispose(c) \/ ClaimSeek(c)
  \/ PlayMove(c) \/ MatchBegan(c) \/ PlayResign(c)

\* The steps any thread may find on its agenda.
Shared(t) ==
  \/ ResolveSeats(t) \/ Release(t) \/ OpenGame(t) \/ InstallGame(t)
  \/ ReadMover(t) \/ CallOffUnstarted(t) \/ Discard(t) \/ Requeue(t)
  \/ AbandonGame(t) \/ FinishSession(t) \/ Retire(t)

Ticker ==
  \/ SweepUnstarted \/ ExpireChallenges
  \/ \E s \in 1..MaxSessions : ClockEnds(s) \/ NobodyCameBack(s)

Next ==
  \/ \E c \in Clients : Command(c) \/ Continue(c)
  \/ \E t \in Threads : Shared(t)
  \/ PairTick \/ Pair
  \/ Ticker
  \/ StopUnbegun
  \/ BeginUpdateDrain \/ DrainSweep \/ CancelUpdateDrain

Spec == Init /\ [][Next]_vars

\* A goroutine that has started keeps running, and the ticker goes round: every
\* tick asks each of its sweeps in turn, whatever the others found to do.
\* Nobody is obliged to send anything.
FairSpec ==
  /\ Spec
  /\ \A c \in Clients : WF_vars(Continue(c))
  /\ \A t \in Threads : WF_vars(Shared(t))
  /\ WF_vars(Pair) /\ WF_vars(DrainSweep)
  /\ SF_vars(SweepUnstarted)
  /\ \A s \in 1..MaxSessions : SF_vars(ClockEnds(s))

-----------------------------------------------------------------------------
(* Properties.                                                             *)

SeekRecords ==
  [owner : Owners, target : Owners \cup {None}, setup : Setups, queued : BOOLEAN,
   client : Clients \cup {None}, timed : BOOLEAN]

Seats == [seek : SeekIDs, requeue : BOOLEAN]
SeatPairs == [Colors -> Seats]
SocketPairs == [Colors -> Clients \cup {None}]

SessionRecords ==
  [seats : SeatPairs, socket : SocketPairs,
   absent : [Colors -> BOOLEAN], escrow : {"held", "claimed", "none"},
   turn : Colors, moved : BOOLEAN,
   end : {"none", "move", "resign", "clock", "abandon"},
   listed : BOOLEAN, recorded : BOOLEAN]

\* The critical sections, with what each is handed.
Steps ==
       [do : {"rebind", "detach", "pair", "sweep"}]
  \cup [do : {"post"}, target : Owners \cup {None}, setup : Setups, queued : BOOLEAN]
  \cup [do : {"dispose", "claim", "shelter", "requeue"}, seek : SeekIDs]
  \cup [do : {"resolve"}, seats : SeatPairs]
  \cup [do : {"open", "install"}, seats : SeatPairs, socket : SocketPairs]
  \cup [do : {"release"}, client : Clients]
  \cup [do : {"callOff"}, session : Nat, blame : Colors \cup {Neutral, "mover"}]
  \cup [do : {"discard", "began", "abandon", "finish", "retire"}, session : Nat]
  \cup [do : {"move", "resign"}, seat : Places]

\* What every variable holds; the bounds MaxSeeks and MaxSessions aside.
LobbyTypeOK ==
  /\ conn \in [Clients -> {"new", "open", "closing", "leaving", "gone"}]
  /\ seeks \in Seq(SeekRecords)
  /\ BoardTypeOK
  /\ sessions \in Seq(SessionRecords)
  /\ participants \in [Clients -> Places \cup {None}]
  /\ agenda \in [Threads -> Seq(Steps)]
  /\ updating \in {"no", "on", "called off"}

\* A seek is in one place at a time: on the board, in the hands of the one
\* thread that took it off, or in the escrow of one game.  Claim, the swap of
\* the escrow for nil and the requeue hand it from one to the next, and two
\* callers -- two takers, the sweep and an abort, a moderator and a first move
\* -- never both come away with it (seeks.go:421-423, match_start.go:53-55).
Seated(s, seats) == \E c \in Colors : seats[c].seek = s

Carries(step, s) ==
  \/ step.do = "requeue" /\ step.seek = s
  \/ step.do \in {"resolve", "open", "install"} /\ Seated(s, step.seats)

InHand(s) ==
  UNION {{<<t, i>> : i \in {i \in DOMAIN agenda[t] : Carries(agenda[t][i], s)}} : t \in Threads}

InEscrow(s) ==
  {g \in DOMAIN sessions : sessions[g].escrow # "none" /\ Seated(s, sessions[g].seats)}

ASeekIsInOnePlace ==
  \A n \in DOMAIN seeks :
    LET s == <<seeks[n].owner, n>>
    IN  (IF s \in byID THEN 1 ELSE 0) + Cardinality(InHand(s)) + Cardinality(InEscrow(s)) <= 1

\* The lobby as Matchmaking sees it.
Made(s) == s[2] \in DOMAIN seeks /\ seeks[s[2]].owner = s[1]

Alone(where) == [at |-> where, with |-> None, by |-> None]

MatchedAs(where, s, seats) ==
  LET color == CHOOSE c \in Colors : seats[c].seek = s
  IN  [at |-> where, with |-> seats[OtherColor(color)].seek,
       by |-> IF seats[color].requeue THEN "pairing" ELSE "taking"]

IsOne(S) == Cardinality(S) = 1
TheOne(S) == CHOOSE x \in S : TRUE
StepAt(x) == agenda[x[1]][x[2]]

FateInHand(s, step) ==
  IF step.do = "requeue" THEN Alone("returning") ELSE MatchedAs("matched", s, step.seats)

FateInGame(s, game) == MatchedAs(IF game.moved THEN "moved" ELSE "held", s, game.seats)

FateOf(s) ==
  IF ~Made(s) THEN Alone("unmade")
  ELSE LET hands == InHand(s)
           games == InEscrow(s)
       IN  CASE hands = {} /\ games = {} -> Alone(IF s \in byID THEN "waiting" ELSE "gone")
             [] games = {} /\ IsOne(hands) /\ s \notin byID -> FateInHand(s, StepAt(TheOne(hands)))
             [] hands = {} /\ IsOne(games) /\ s \notin byID -> FateInGame(s, sessions[TheOne(games)])
             [] OTHER -> Alone("torn")

Matches == INSTANCE Matchmaking WITH
  Seeks <- SeekIDs, OwnerOf <- SeekOwner, fate <- [s \in SeekIDs |-> FateOf(s)]

\* The lobby keeps what Matchmaking promises, whoever carries a seek between
\* the board, a thread and an escrow, and however many of them call a game off
\* at once: two seeks are matched, seated and used up together, a match made by
\* pairing that comes to nothing costs at most one of the two their wait
\* (match_start.go:325-341), and a seek that is gone is never posted again.
LobbyKeepsItsMatches == Matches!MatchSpec

\* Whoever the server believes to be playing is: the game is live and holds
\* that very socket in that seat.  participants and the seats of a session are
\* two records of one fact, written by install, rejoin, disconnect, discard and
\* retire, and a stale entry would keep a player from ever queueing again
\* (clientIsFree).
ParticipantIsSeated ==
  \A c \in Clients :
    participants[c] # None =>
      LET s == participants[c].session
      IN  Live(s) /\ sessions[s].socket[participants[c].color] = c

\* A seat is kept while a socket plays it whose going will empty it.
Plays(c, s, color) == participants[c] = [session |-> s, color |-> color]
Kept(s, color) == \E c \in Clients : Plays(c, s, color) /\ Stays(c)

\* A socket installed in two games, whichever of them it is taken to play.
SitsElsewhere(c, s, color) ==
  \E g \in DOMAIN sessions, other \in Colors :
    Live(g) /\ sessions[g].socket[other] = c /\ <<g, other>> # <<s, color>>

SeatedTwice(s, color) ==
  \E c \in Clients :
    Plays(c, s, color) /\ (SitsElsewhere(c, s, color) \/ SitsElsewhere(c, s, color)')

\* While a socket plays a seat nobody can be ruled to have left it, and the
\* clock of a game that goes on starts in the very step that takes the last
\* such socket out: a drop, or a tab put in its place, however disconnect,
\* rejoin, pairing and the endings cross (server.go:1913-1926, 2265-2313).
\* Two seats are outside it (NobodyLeavesASeatUntimed, below): one that goes
\* live with nobody left to empty it, and those of a socket that was put in two
\* games, since participants knows one seat of a socket.
SeatsAreTimedAsTheyAreLeft ==
  /\ [](\A s \in DOMAIN sessions, color \in Colors :
         Kept(s, color) => ~sessions[s].absent[color])
  /\ [][\A s \in DOMAIN sessions, color \in Colors :
          Kept(s, color) /\ Live(s)' =>
            \/ Kept(s, color)'
            \/ sessions'[s].absent[color]
            \/ SeatedTwice(s, color)]_vars

\* A game offered to one person is only ever played by that person, whatever
\* route its seek took to a seat.
PrivateGameIsPrivate ==
  \A s \in DOMAIN sessions, color \in Colors :
    LET target == TheSeek(sessions[s].seats[color].seek).target
    IN  target # None => PlayerOf(s, OtherColor(color)) = target

\* Nobody plays a side they did not ask for: where a seek states a preference,
\* the game it turns into honours it, whether it was paired, in either order, or
\* taken (seatOrder, seeks.go:655-660; startAcceptedChallenge).  A taker agrees
\* to the author's setup, preference included, and gets the other side.
EverySeatIsTheOneAskedFor ==
  \A s \in DOMAIN sessions, color \in Colors :
    LET seat == sessions[s].seats[color]
        other == sessions[s].seats[OtherColor(color)]
        takesIt == ~seat.requeue /\ other.seek[2] < seat.seek[2]
    IN  ~takesIt => TheSeek(seat.seek).setup.color \in {Neutral, color}

\* Everybody plays whom and what they asked for.
EveryGameIsAsAskedFor == PrivateGameIsPrivate /\ EverySeatIsTheOneAskedFor

\* Every game that was opened leaves the list, whoever came, left, resigned or
\* never looked: the escrow's window or the clock sees to it.
EveryGameLeavesTheLobby ==
  \A s \in 1..MaxSessions :
    (s \in DOMAIN sessions /\ Live(s)) ~> (s \in DOMAIN sessions /\ ~Live(s))

\* No thread is left holding a seek: what pairing or an accept took off the
\* board ends in a game or is let go.
EverySeekInHandIsSettled ==
  \A n \in 1..MaxSeeks, o \in Owners :
    (InHand(<<o, n>>) # {}) ~> (InHand(<<o, n>>) = {})

-----------------------------------------------------------------------------
(* What the documents say, and the code does not keep.                     *)

\* queue_presence.go:16-22: a seek may only wait for somebody who can be called
\* back.  Once every thread is at rest, a seek on the board has a connected
\* socket behind it, or belongs to somebody push can reach.
Quiet == \A t \in Threads : Idle(t)

SomebodyIsBehindEverySeek ==
  Quiet => \A s \in byID :
    \/ TheSeek(s).client # None /\ Connected(TheSeek(s).client)
    \/ CanOutliveSocket(s)

\* server.go:1913-1917: a seat nobody is holding starts its clock as the game
\* goes live, exactly as if its player had dropped in the middle of it.  A
\* socket lost since seatMatch chose it is installed all the same, disconnect
\* has run by then, and the seat is untimed until its player takes it again; so
\* is the first seat of a socket installed in two games.
NobodyLeavesASeatUntimed ==
  \A s \in DOMAIN sessions, color \in Colors :
    Live(s) => Kept(s, color) \/ sessions[s].absent[color]

\* challenge.go:49-51: a game that has been opened but not begun stops a second
\* tab joining the queue.
SecondTabIsRefused ==
  [][\A c \in Clients :
       Idle(c) /\ agenda'[c] # <<>> /\ Head(agenda'[c]).do = "post" =>
         ~\E s \in DOMAIN sessions, color \in Colors :
            Live(s) /\ Waiting(s) /\ PlayerOf(s, color) = Owner[c]]_vars

\* match_start.go:325-327: a called-off game has no result, no archive row and
\* no rating.
CalledOff(s) ==
  \E t \in Threads : ~Idle(t) /\ Step(t).do = "discard" /\ Step(t).session = s

CalledOffIsNotRecorded ==
  \A s \in DOMAIN sessions : ~(CalledOff(s) /\ sessions[s].recorded)

=============================================================================
