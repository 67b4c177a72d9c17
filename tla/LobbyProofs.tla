------------------------------ MODULE LobbyProofs ------------------------------
(***************************************************************************)
(* That a seek is in one place at a time, that whoever is taken to be      *)
(* playing is seated, and that everybody plays what they asked for: for    *)
(* any number of people, tabs, seeks and games, and any interleaving of    *)
(* the threads that carry a seek from the board to a game and back; and    *)
(* that all of it implements Matchmaking.                                  *)
(*                                                                         *)
(* Most of what has to be known is about steps not yet run.  What a step   *)
(* is handed was true when it was put on its thread's agenda, and StepSound*)
(* says which part of that stays true until the step is run.               *)
(***************************************************************************)
EXTENDS Lobby, FiniteSetTheorems, SequenceTheorems, TLAPS

Board == INSTANCE SeekBoardProofs WITH
  Seeks <- SeekIDs, OwnerOf <- SeekOwner, NoSeek <- None

-----------------------------------------------------------------------------
(* The inductive invariant.                                                *)

BoardInv == BoardTypeOK /\ OneWaitEach

MadeIn(s, made) == s[2] \in DOMAIN made /\ made[s[2]].owner = s[1]

\* Each side was asked for by whoever sits on it, or was left by whoever they
\* have taken up; and a private game is between two who agreed on each other.
SidesAskedFor(seats, made) ==
  \A color \in Colors :
    \/ made[seats[color].seek[2]].setup.color \in {Neutral, color}
    \/ ~seats[color].requeue /\ seats[OtherColor(color)].seek[2] < seats[color].seek[2]

KeptPrivate(seats, made) ==
  \A color \in Colors :
    made[seats[color].seek[2]].target \in {None, seats[OtherColor(color)].seek[1]}

SeatsSound(seats, made) ==
  /\ \A color \in Colors : MadeIn(seats[color].seek, made)
  /\ seats[Red].seek[1] # seats[Blue].seek[1]
  /\ SidesAskedFor(seats, made) /\ KeptPrivate(seats, made)

\* The tabs chosen for two seats are tabs of the people who sit on them.
TabsOf(seats, socket) ==
  \A color \in Colors :
    socket[color] # None => Owner[socket[color]] = seats[color].seek[1]

OfASeek == {"dispose", "claim", "shelter", "requeue"}
Seatings == {"resolve", "open", "install"}
OfASession == {"callOff", "discard", "began", "abandon", "finish", "retire"}

\* What has been checked for a step of thread t and has not gone stale, however
\* long ago it was, with these seeks made and this many games opened.
StepSound(t, step, made, opened) ==
  /\ step.do \in OfASeek => MadeIn(step.seek, made)
  /\ step.do = "claim" =>
       step.seek[1] # Owner[t] /\ made[step.seek[2]].target \in {None, Owner[t]}
  /\ step.do \in Seatings => SeatsSound(step.seats, made)
  /\ step.do \in {"open", "install"} => TabsOf(step.seats, step.socket)
  /\ step.do \in OfASession => step.session \in 1..opened
  /\ step.do \in {"move", "resign"} => step.seat.session \in 1..opened

\* A seek about to be made is the one thing its thread is doing, and there is a
\* number left for it.
Making == {"post", "claim"}

AgendaInv ==
  /\ agenda \in [Threads -> Seq(Steps)]
  /\ \A t \in Threads : \A i \in DOMAIN agenda[t] :
       /\ StepSound(t, agenda[t][i], seeks, Len(sessions))
       /\ agenda[t][i].do \in Making => t \in Clients /\ Len(agenda[t]) = 1
  /\ Len(seeks) + Cardinality(StepsOf(Making)) <= MaxSeeks

SeeksInv ==
  /\ seeks \in Seq(SeekRecords)
  /\ BoardInv
  /\ \A s \in byID : MadeIn(s, seeks)

\* A seat is timed when it has no socket, connected or not, and only then.
EmptyIsTimed ==
  \A s \in DOMAIN sessions, color \in Colors :
    sessions[s].absent[color] <=> sessions[s].socket[color] = None

SeatsInv ==
  /\ sessions \in Seq(SessionRecords)
  /\ \A g \in DOMAIN sessions : SeatsSound(sessions[g].seats, seeks)
  /\ participants \in [Clients -> Places \cup {None}]
  /\ \A c \in Clients : participants[c] # None => participants[c].session \in DOMAIN sessions
  /\ ParticipantIsSeated /\ EmptyIsTimed

\* Where a seek can be besides the board, of the agendas and the games given.
InSomeHand(s, todo) == \E t \in Threads : \E i \in DOMAIN todo[t] : Carries(todo[t][i], s)

OneHand(s, todo) ==
  \A t, u \in Threads : \A i \in DOMAIN todo[t], j \in DOMAIN todo[u] :
    Carries(todo[t][i], s) /\ Carries(todo[u][j], s) => t = u /\ i = j

Keeps(game, s) == game.escrow # "none" /\ Seated(s, game.seats)

InSomeEscrow(s, games) == \E g \in DOMAIN games : Keeps(games[g], s)

OneEscrow(s, games) ==
  \A g, h \in DOMAIN games : Keeps(games[g], s) /\ Keeps(games[h], s) => g = h

InOnePlace(s, on, todo, games) ==
  /\ OneHand(s, todo) /\ OneEscrow(s, games)
  /\ s \in on => ~InSomeHand(s, todo) /\ ~InSomeEscrow(s, games)
  /\ ~(InSomeHand(s, todo) /\ InSomeEscrow(s, games))

PlacesInv == \A s \in SeekIDs : InOnePlace(s, byID, agenda, sessions)

SocketsInv ==
  /\ conn \in [Clients -> {"new", "open", "closing", "leaving", "gone"}]
  /\ updating \in {"no", "on", "called off"}

LobbyInv ==
  /\ SocketsInv /\ SeeksInv /\ SeatsInv /\ AgendaInv /\ PlacesInv

-----------------------------------------------------------------------------
(* The constants.                                                          *)

LEMMA BoardAssumptions == SeekOwner \in [SeekIDs -> Owners] /\ None \notin SeekIDs
  BY NoneAssumption DEF SeekIDs, SeekOwner

LEMMA ColorFacts ==
  /\ Red \in Colors /\ Blue \in Colors /\ Red # Blue
  /\ \A c \in Colors : OtherColor(c) \in Colors /\ OtherColor(c) # c /\ OtherColor(OtherColor(c)) = c
  /\ \A c \in Colors : c \in {Red, Blue}
  /\ Neutral \notin Colors
  BY DEF Colors, Red, Blue, OtherColor, Neutral

LEMMA ThreadFacts ==
  /\ Clients \subseteq Threads
  /\ {Pairer, Sweeper, Moderator, Deployer} \subseteq Threads
  BY DEF Threads

-----------------------------------------------------------------------------
(* The board: removeLocked and Post, as Lobby uses them.                   *)

LEMMA TakeOffKeepsBoard ==
  ASSUME BoardInv, NEW S, TakeOff(S)
  PROVE  BoardInv' /\ byID' = byID \ S
  BY Board!TakeOffKeepsInv, BoardAssumptions
     DEF BoardInv, TakeOff, BoardTypeOK, OneWaitEach,
         Board!BoardInv, Board!TakeOff, Board!BoardTypeOK, Board!OneWaitEach

LEMMA PostKeepsBoard ==
  ASSUME BoardInv, NEW s \in SeekIDs, Post(s)
  PROVE  BoardInv' /\ byID' \subseteq byID \cup {s}
  BY Board!PostKeepsInv, BoardAssumptions
     DEF BoardInv, Post, BoardTypeOK, OneWaitEach,
         Board!BoardInv, Board!Post, Board!BoardTypeOK, Board!OneWaitEach

-----------------------------------------------------------------------------
(* Steps and agendas.                                                      *)

\* What each kind of step is handed.
LEMMA StepFields ==
  \A step \in Steps :
    /\ step.do \in OfASeek => step.seek \in SeekIDs
    /\ step.do \in Seatings => step.seats \in SeatPairs
    /\ step.do \in {"open", "install"} => step.socket \in SocketPairs
    /\ step.do = "release" => step.client \in Clients
    /\ step.do \in OfASession => step.session \in Nat
    /\ step.do = "callOff" => step.blame \in Colors \cup {Neutral, "mover"}
    /\ step.do \in {"move", "resign"} => step.seat \in Places
    /\ step.do = "post" => /\ step.target \in Owners \cup {None}
                           /\ step.setup \in Setups /\ step.queued \in BOOLEAN
  BY DEF Steps, OfASeek, Seatings, OfASession

\* A thread that goes on puts some steps where its first step was.
LEMMA AgendaThen ==
  ASSUME agenda \in [Threads -> Seq(Steps)],
         NEW t \in Threads, ~Idle(t), NEW steps \in Seq(Steps), Then(t, steps)
  PROVE  /\ agenda' \in [Threads -> Seq(Steps)]
         /\ \A u \in Threads \ {t} : agenda'[u] = agenda[u]
         /\ Len(agenda'[t]) = Len(steps) + (Len(agenda[t]) - 1)
         /\ \A j \in 1..Len(agenda'[t]) :
              agenda'[t][j] = IF j <= Len(steps) THEN steps[j]
                              ELSE agenda[t][(j - Len(steps)) + 1]
<1>1. agenda[t] \in Seq(Steps) /\ agenda[t] # <<>>
  BY DEF Idle
<1>2. /\ Tail(agenda[t]) \in Seq(Steps) /\ Len(Tail(agenda[t])) = Len(agenda[t]) - 1
      /\ \A i \in 1..Len(Tail(agenda[t])) : Tail(agenda[t])[i] = agenda[t][i + 1]
  BY <1>1, HeadTailProperties
<1>3. agenda'[t] = steps \o Tail(agenda[t])
  BY DEF Then
<1>4. \A u \in Threads \ {t} : agenda'[u] = agenda[u]
  BY DEF Then
<1> DEFINE rest == Tail(agenda[t])
<1> HIDE DEF rest
<1>5. /\ steps \o rest \in Seq(Steps)
      /\ Len(steps \o rest) = Len(steps) + Len(rest)
      /\ \A i \in 1..Len(steps) + Len(rest) :
           (steps \o rest)[i] = IF i <= Len(steps) THEN steps[i] ELSE rest[i - Len(steps)]
  <2>1. rest \in Seq(Steps)
    BY <1>2 DEF rest
  <2> QED
    BY <2>1, ConcatProperties
<1>6. agenda' \in [Threads -> Seq(Steps)]
  BY <1>3, <1>4, <1>5 DEF Then, rest
<1>7. Len(agenda'[t]) = Len(steps) + (Len(agenda[t]) - 1)
  BY <1>2, <1>3, <1>5 DEF rest
<1>8. ASSUME NEW j \in 1..Len(agenda'[t])
      PROVE  agenda'[t][j] = IF j <= Len(steps) THEN steps[j]
                             ELSE agenda[t][(j - Len(steps)) + 1]
  <2>1. Len(steps) \in Nat /\ Len(rest) \in Nat /\ Len(rest) = Len(agenda[t]) - 1
    BY <1>2 DEF rest
  <2>2. agenda'[t][j] = IF j <= Len(steps) THEN steps[j] ELSE rest[j - Len(steps)]
    BY <1>3, <1>5, <1>7, <2>1 DEF rest
  <2>3. CASE j <= Len(steps)
    BY <2>2, <2>3
  <2>4. CASE ~(j <= Len(steps))
    <3>1. j - Len(steps) \in 1..Len(rest)
      BY <2>1, <2>4, <1>7
    <3> QED
      BY <3>1, <2>2, <2>4, <1>2 DEF rest
  <2> QED
    BY <2>3, <2>4
<1> QED
  BY <1>4, <1>6, <1>7, <1>8

LEMMA AgendaBegin ==
  ASSUME agenda \in [Threads -> Seq(Steps)],
         NEW t \in Threads, NEW steps \in Seq(Steps), Begin(t, steps)
  PROVE  /\ agenda' \in [Threads -> Seq(Steps)]
         /\ agenda[t] = <<>> /\ agenda'[t] = steps
         /\ \A u \in Threads \ {t} : agenda'[u] = agenda[u]
  BY DEF Begin, Idle

\* The step a thread runs is the first on its agenda.
LEMMA HeadStep ==
  ASSUME agenda \in [Threads -> Seq(Steps)], NEW t \in Threads, ~Idle(t)
  PROVE  /\ 1 \in DOMAIN agenda[t] /\ Step(t) = agenda[t][1] /\ Step(t) \in Steps
         /\ DOMAIN agenda[t] = 1..Len(agenda[t]) /\ Len(agenda[t]) \in Nat
<1>1. agenda[t] \in Seq(Steps) /\ agenda[t] # <<>>
  BY DEF Idle
<1> QED
  BY <1>1 DEF Step

-----------------------------------------------------------------------------
(* What stays sound as seeks are made and games are opened.                *)

\* Who made a seek, for whom and which game it is for is written once.
Grows(made, later) ==
  /\ later \in Seq(SeekRecords) /\ Len(made) <= Len(later)
  /\ \A n \in 1..Len(made) :
       /\ later[n].owner = made[n].owner
       /\ later[n].target = made[n].target
       /\ later[n].setup = made[n].setup

LEMMA MadeStays ==
  ASSUME NEW made \in Seq(SeekRecords), NEW later, Grows(made, later),
         NEW s, MadeIn(s, made)
  PROVE  /\ MadeIn(s, later)
         /\ later[s[2]].target = made[s[2]].target /\ later[s[2]].setup = made[s[2]].setup
  BY DEF Grows, MadeIn

LEMMA SeatsStaySound ==
  ASSUME NEW made \in Seq(SeekRecords), NEW later, Grows(made, later),
         NEW seats, SeatsSound(seats, made)
  PROVE  SeatsSound(seats, later)
<1>1. \A color \in Colors :
        /\ MadeIn(seats[color].seek, later)
        /\ later[seats[color].seek[2]].target = made[seats[color].seek[2]].target
        /\ later[seats[color].seek[2]].setup = made[seats[color].seek[2]].setup
  BY MadeStays DEF SeatsSound
<1> QED
  BY <1>1 DEF SeatsSound, SidesAskedFor, KeptPrivate

LEMMA StepStaysSound ==
  ASSUME NEW made \in Seq(SeekRecords), NEW later, Grows(made, later),
         NEW opened \in Nat, NEW more \in Nat, opened <= more,
         NEW t, NEW step \in Steps, StepSound(t, step, made, opened)
  PROVE  StepSound(t, step, later, more)
<1>1. step.do \in OfASeek => MadeIn(step.seek, later)
  BY MadeStays DEF StepSound
<1>2. step.do = "claim" =>
        step.seek[1] # Owner[t] /\ later[step.seek[2]].target \in {None, Owner[t]}
  BY MadeStays DEF StepSound, OfASeek
<1>3. step.do \in Seatings => SeatsSound(step.seats, later)
  BY SeatsStaySound DEF StepSound
<1>4. \A g \in 1..opened : g \in 1..more
  OBVIOUS
<1> QED
  BY <1>1, <1>2, <1>3, <1>4 DEF StepSound

LEMMA GrowsNot == seeks \in Seq(SeekRecords) => Grows(seeks, seeks)
  BY DEF Grows

-----------------------------------------------------------------------------
(* Threads going on and starting.                                          *)

Sound(t, steps, made, opened) == \A i \in 1..Len(steps) : StepSound(t, steps[i], made, opened)

LEMMA MakingSteps ==
  \A x : x \in StepsOf(Making) <=>
    \E t \in Threads : \E i \in DOMAIN agenda[t] : x = <<t, i>> /\ agenda[t][i].do \in Making
  BY DEF StepsOf, AllSteps

LEMMA MakingStepsNext ==
  \A x : x \in StepsOf(Making)' <=>
    \E t \in Threads : \E i \in DOMAIN agenda'[t] : x = <<t, i>> /\ agenda'[t][i].do \in Making
  BY DEF StepsOf, AllSteps

LEMMA MakersAreFew ==
  ASSUME AgendaInv
  PROVE  /\ StepsOf(Making) \subseteq Clients \X {1}
         /\ IsFiniteSet(StepsOf(Making)) /\ Cardinality(StepsOf(Making)) \in Nat
<1>1. StepsOf(Making) \subseteq Clients \X {1}
  <2> SUFFICES ASSUME NEW x \in StepsOf(Making) PROVE x \in Clients \X {1}
    OBVIOUS
  <2>1. PICK t \in Threads : \E i \in DOMAIN agenda[t] : x = <<t, i>> /\ agenda[t][i].do \in Making
    BY MakingSteps
  <2>2. PICK i \in DOMAIN agenda[t] : x = <<t, i>> /\ agenda[t][i].do \in Making
    BY <2>1
  <2>3. t \in Clients /\ Len(agenda[t]) = 1 /\ DOMAIN agenda[t] = 1..Len(agenda[t])
    BY <2>2 DEF AgendaInv
  <2> QED
    BY <2>2, <2>3
<1>2. IsFiniteSet(Clients \X {1})
  BY ClientAssumption, FS_Product, FS_Singleton
<1>3. IsFiniteSet(StepsOf(Making))
  BY <1>1, <1>2, FS_Subset
<1> QED
  BY <1>1, <1>3, FS_CardinalityType

\* A thread goes on to steps that are sound, and makes no seek it had not
\* promised: what it puts on its agenda is a later part of the same work.
LEMMA GoesOn ==
  ASSUME AgendaInv, seeks \in Seq(SeekRecords), Len(sessions) \in Nat,
         NEW t \in Threads, ~Idle(t), NEW steps \in Seq(Steps), Then(t, steps),
         Grows(seeks, seeks'), Len(sessions') \in Nat, Len(sessions) <= Len(sessions'),
         Sound(t, steps, seeks', Len(sessions')),
         \A i \in 1..Len(steps) : steps[i].do \notin Making,
         \/ Len(seeks') = Len(seeks)
         \/ Len(seeks') = Len(seeks) + 1 /\ Step(t).do \in Making
  PROVE  AgendaInv'
<1>1. /\ agenda \in [Threads -> Seq(Steps)]
      /\ agenda' \in [Threads -> Seq(Steps)]
      /\ \A u \in Threads \ {t} : agenda'[u] = agenda[u]
      /\ Len(agenda'[t]) = Len(steps) + (Len(agenda[t]) - 1)
      /\ \A j \in 1..Len(agenda'[t]) :
           agenda'[t][j] = IF j <= Len(steps) THEN steps[j]
                           ELSE agenda[t][(j - Len(steps)) + 1]
  BY AgendaThen DEF AgendaInv
<1>2. /\ \A u \in Threads : DOMAIN agenda[u] = 1..Len(agenda[u]) /\ Len(agenda[u]) \in Nat
      /\ \A u \in Threads : DOMAIN agenda'[u] = 1..Len(agenda'[u]) /\ Len(agenda'[u]) \in Nat
      /\ Len(steps) \in Nat
  BY <1>1
<1>3. ASSUME NEW u \in Threads, NEW i \in DOMAIN agenda[u]
      PROVE  agenda[u][i] \in Steps /\ StepSound(u, agenda[u][i], seeks', Len(sessions'))
  <2>1. agenda[u][i] \in Steps /\ StepSound(u, agenda[u][i], seeks, Len(sessions))
    BY <1>1 DEF AgendaInv
  <2> QED
    BY <2>1, StepStaysSound
<1>4. /\ 1 \in DOMAIN agenda[t] /\ Step(t) = agenda[t][1]
  BY <1>1, HeadStep
<1>5. ASSUME NEW u \in Threads, NEW j \in DOMAIN agenda'[u]
      PROVE  /\ StepSound(u, agenda'[u][j], seeks', Len(sessions'))
             /\ agenda'[u][j].do \in Making =>
                  u # t /\ j \in DOMAIN agenda[u] /\ agenda[u][j].do \in Making
  <2>1. CASE u # t
    <3>1. agenda'[u] = agenda[u]
      BY <2>1, <1>1
    <3> QED
      BY <3>1, <2>1, <1>3
  <2>2. CASE u = t /\ j <= Len(steps)
    <3>1. j \in 1..Len(agenda'[t]) /\ j \in 1..Len(steps)
      BY <2>2, <1>2
    <3>2. agenda'[t][j] = steps[j]
      BY <3>1, <2>2, <1>1
    <3> QED
      BY <3>1, <3>2, <2>2 DEF Sound
  <2>3. CASE u = t /\ ~(j <= Len(steps))
    <3> DEFINE k == (j - Len(steps)) + 1
    <3>0. j \in 1..Len(agenda'[t]) /\ DOMAIN agenda[t] = 1..Len(agenda[t])
      BY <2>3, <1>2
    <3>1. k \in DOMAIN agenda[t] /\ k # 1 /\ agenda'[t][j] = agenda[t][k]
      <4>1. k \in 2..Len(agenda[t])
        BY <3>0, <2>3, <1>1, <1>2
      <4>2. agenda'[t][j] = agenda[t][k]
        BY <3>0, <2>3, <1>1
      <4> QED
        BY <4>1, <4>2, <3>0
    <3>2. agenda[t][k].do \notin Making
      BY <3>1, <1>2 DEF AgendaInv
    <3> HIDE DEF k
    <3> QED
      BY <3>1, <3>2, <2>3, <1>3
  <2> QED
    BY <2>1, <2>2, <2>3
<1>6. ASSUME NEW u \in Threads, NEW j \in DOMAIN agenda'[u], agenda'[u][j].do \in Making
      PROVE  u \in Clients /\ Len(agenda'[u]) = 1
  BY <1>1, <1>5, <1>6 DEF AgendaInv
<1>7. /\ StepsOf(Making)' \subseteq StepsOf(Making)
      /\ <<t, 1>> \notin StepsOf(Making)'
      /\ Step(t).do \in Making => <<t, 1>> \in StepsOf(Making)
  <2>1. ASSUME NEW x \in StepsOf(Making)' PROVE x \in StepsOf(Making) /\ x # <<t, 1>>
    <3>1. PICK u \in Threads : \E j \in DOMAIN agenda'[u] : x = <<u, j>> /\ agenda'[u][j].do \in Making
      BY MakingStepsNext
    <3>2. PICK j \in DOMAIN agenda'[u] : x = <<u, j>> /\ agenda'[u][j].do \in Making
      BY <3>1
    <3>3. u # t /\ j \in DOMAIN agenda[u] /\ agenda[u][j].do \in Making
      BY <3>2, <1>5
    <3> QED
      BY <3>2, <3>3, MakingSteps
  <2>2. Step(t).do \in Making => <<t, 1>> \in StepsOf(Making)
    BY <1>4, MakingSteps
  <2> QED
    BY <2>1, <2>2
<1>8. Len(seeks') + Cardinality(StepsOf(Making)') <= MaxSeeks
  <2>1. /\ IsFiniteSet(StepsOf(Making)) /\ Cardinality(StepsOf(Making)) \in Nat
        /\ Len(seeks) + Cardinality(StepsOf(Making)) <= MaxSeeks
        /\ Len(seeks) \in Nat
    BY MakersAreFew DEF AgendaInv
  <2>2. Cardinality(StepsOf(Making)') <= Cardinality(StepsOf(Making)) /\ Cardinality(StepsOf(Making)') \in Nat
    BY <2>1, <1>7, FS_Subset, FS_CardinalityType
  <2>3. CASE Len(seeks') = Len(seeks)
    BY <2>1, <2>2, <2>3, BoundAssumption
  <2>4. CASE Len(seeks') = Len(seeks) + 1 /\ Step(t).do \in Making
    <3> DEFINE rest == StepsOf(Making) \ {<<t, 1>>}
    <3>1. IsFiniteSet(rest) /\ Cardinality(rest) = Cardinality(StepsOf(Making)) - 1
      BY <2>1, <2>4, <1>7, FS_RemoveElement
    <3>2. StepsOf(Making)' \subseteq rest
      BY <1>7
    <3>3. Cardinality(StepsOf(Making)') <= Cardinality(rest)
      BY <3>1, <3>2, FS_Subset
    <3> QED
      BY <2>1, <2>2, <2>4, <3>1, <3>3, BoundAssumption
  <2> QED
    BY <2>3, <2>4
<1> QED
  BY <1>1, <1>5, <1>6, <1>8 DEF AgendaInv

\* An idle thread takes on steps that are sound and make no seek.
LEMMA StartsOn ==
  ASSUME AgendaInv, seeks \in Seq(SeekRecords), Len(sessions) \in Nat,
         NEW t \in Threads, NEW steps \in Seq(Steps), Begin(t, steps),
         Grows(seeks, seeks'), Len(seeks') = Len(seeks), Len(sessions') = Len(sessions),
         Sound(t, steps, seeks', Len(sessions')),
         \A i \in 1..Len(steps) : steps[i].do \notin Making
  PROVE  AgendaInv'
<1>1. /\ agenda' \in [Threads -> Seq(Steps)]
      /\ agenda[t] = <<>> /\ agenda'[t] = steps
      /\ \A u \in Threads \ {t} : agenda'[u] = agenda[u]
  BY AgendaBegin DEF AgendaInv
<1>2. DOMAIN steps = 1..Len(steps)
  OBVIOUS
<1>3. ASSUME NEW u \in Threads, NEW j \in DOMAIN agenda'[u]
      PROVE  /\ StepSound(u, agenda'[u][j], seeks', Len(sessions'))
             /\ agenda'[u][j].do \in Making =>
                  /\ u # t /\ j \in DOMAIN agenda[u] /\ agenda[u][j].do \in Making
                  /\ u \in Clients /\ Len(agenda'[u]) = 1
  <2>1. CASE u = t
    BY <2>1, <1>1, <1>2 DEF Sound
  <2>2. CASE u # t
    <3>1. /\ j \in DOMAIN agenda[u] /\ agenda'[u][j] = agenda[u][j]
          /\ agenda[u][j] \in Steps /\ StepSound(u, agenda[u][j], seeks, Len(sessions))
      BY <2>2, <1>1 DEF AgendaInv
    <3>2. StepSound(u, agenda[u][j], seeks', Len(sessions'))
      BY <3>1, StepStaysSound
    <3> QED
      BY <3>1, <3>2, <2>2, <1>1 DEF AgendaInv
  <2> QED
    BY <2>1, <2>2
<1>4. StepsOf(Making)' \subseteq StepsOf(Making)
  <2> SUFFICES ASSUME NEW x \in StepsOf(Making)' PROVE x \in StepsOf(Making)
    OBVIOUS
  <2>1. PICK u \in Threads : \E j \in DOMAIN agenda'[u] : x = <<u, j>> /\ agenda'[u][j].do \in Making
    BY MakingStepsNext
  <2> QED
    BY <2>1, <1>3, MakingSteps
<1>5. Cardinality(StepsOf(Making)') <= Cardinality(StepsOf(Making)) /\ Cardinality(StepsOf(Making)') \in Nat
  BY <1>4, MakersAreFew, FS_Subset, FS_CardinalityType
<1>6. Len(seeks') + Cardinality(StepsOf(Making)') <= MaxSeeks
  BY <1>5, MakersAreFew, BoundAssumption DEF AgendaInv
<1> QED
  BY <1>1, <1>3, <1>6 DEF AgendaInv

\* A client that promises to make a seek takes one of the numbers that are left.
LEMMA StartsMaking ==
  ASSUME AgendaInv, seeks \in Seq(SeekRecords), Len(sessions) \in Nat,
         NEW c \in Clients, NEW step \in Steps, Begin(c, <<step>>), RoomForSeek,
         UNCHANGED <<seeks, sessions>>, StepSound(c, step, seeks, Len(sessions))
  PROVE  AgendaInv'
<1>0. c \in Threads /\ <<step>> \in Seq(Steps) /\ Len(<<step>>) = 1 /\ <<step>>[1] = step
  BY ThreadFacts
<1>1. /\ agenda' \in [Threads -> Seq(Steps)]
      /\ agenda[c] = <<>> /\ agenda'[c] = <<step>>
      /\ \A u \in Threads \ {c} : agenda'[u] = agenda[u]
  BY <1>0, AgendaBegin DEF AgendaInv
<1>3. ASSUME NEW u \in Threads, NEW j \in DOMAIN agenda'[u]
      PROVE  /\ StepSound(u, agenda'[u][j], seeks, Len(sessions))
             /\ agenda'[u][j].do \in Making =>
                  /\ (u = c /\ j = 1) \/ (j \in DOMAIN agenda[u] /\ agenda[u][j].do \in Making)
                  /\ u \in Clients /\ Len(agenda'[u]) = 1
  <2>1. CASE u = c
    <3>1. j = 1
      BY <2>1, <1>0, <1>1
    <3>2. agenda'[u][j] = step /\ Len(agenda'[u]) = 1
      BY <3>1, <2>1, <1>0, <1>1
    <3>3. StepSound(u, agenda'[u][j], seeks, Len(sessions))
      BY <3>2, <2>1
    <3> QED
      BY <3>1, <3>2, <3>3, <2>1
  <2>2. CASE u # c
    BY <2>2, <1>1 DEF AgendaInv
  <2> QED
    BY <2>1, <2>2
<1>4. StepsOf(Making)' \subseteq StepsOf(Making) \cup {<<c, 1>>}
  <2> SUFFICES ASSUME NEW x \in StepsOf(Making)' PROVE x \in StepsOf(Making) \cup {<<c, 1>>}
    OBVIOUS
  <2>1. PICK u \in Threads : \E j \in DOMAIN agenda'[u] : x = <<u, j>> /\ agenda'[u][j].do \in Making
    BY MakingStepsNext
  <2> QED
    BY <2>1, <1>3, MakingSteps
<1>5. /\ IsFiniteSet(StepsOf(Making) \cup {<<c, 1>>})
      /\ Cardinality(StepsOf(Making) \cup {<<c, 1>>}) <= Cardinality(StepsOf(Making)) + 1
      /\ Cardinality(StepsOf(Making) \cup {<<c, 1>>}) \in Nat
  <2> DEFINE before == StepsOf(Making)
             new == <<c, 1>>
  <2> HIDE DEF before, new
  <2>1. IsFiniteSet(before) /\ Cardinality(before) \in Nat
    BY MakersAreFew DEF before
  <2>2. /\ IsFiniteSet(before \cup {new})
        /\ Cardinality(before \cup {new}) =
             IF new \in before THEN Cardinality(before) ELSE Cardinality(before) + 1
    BY <2>1, FS_AddElement
  <2> QED
    BY <2>1, <2>2 DEF before, new
<1>6. /\ Cardinality(StepsOf(Making)') <= Cardinality(StepsOf(Making)) + 1
      /\ Cardinality(StepsOf(Making)') \in Nat
  BY <1>4, <1>5, MakersAreFew, FS_Subset, FS_CardinalityType
<1>7. Len(seeks) + Cardinality(StepsOf(Making)) < MaxSeeks
  BY DEF RoomForSeek, Making
<1>8. Len(seeks) + Cardinality(StepsOf(Making)') <= MaxSeeks
  BY <1>6, <1>7, MakersAreFew, BoundAssumption
<1> QED
  BY <1>1, <1>3, <1>8 DEF AgendaInv

\* A seek stays in one hand when the step that goes hands it on, at most once,
\* or when a step that comes takes it up from no hand at all.
LEMMA HandsOn ==
  ASSUME agenda \in [Threads -> Seq(Steps)],
         NEW t \in Threads, ~Idle(t), NEW steps \in Seq(Steps), Then(t, steps),
         NEW s, OneHand(s, agenda),
         \A i, j \in 1..Len(steps) : Carries(steps[i], s) /\ Carries(steps[j], s) => i = j,
         (\E i \in 1..Len(steps) : Carries(steps[i], s)) =>
            Carries(Step(t), s) \/ ~InSomeHand(s, agenda)
  PROVE  /\ OneHand(s, agenda')
         /\ InSomeHand(s, agenda') =>
              \/ \E i \in 1..Len(steps) : Carries(steps[i], s)
              \/ InSomeHand(s, agenda) /\ ~Carries(Step(t), s)
<1>1. /\ agenda' \in [Threads -> Seq(Steps)]
      /\ \A u \in Threads \ {t} : agenda'[u] = agenda[u]
      /\ Len(agenda'[t]) = Len(steps) + (Len(agenda[t]) - 1)
      /\ \A j \in 1..Len(agenda'[t]) :
           agenda'[t][j] = IF j <= Len(steps) THEN steps[j]
                           ELSE agenda[t][(j - Len(steps)) + 1]
  BY AgendaThen
<1>2. /\ 1 \in DOMAIN agenda[t] /\ Step(t) = agenda[t][1]
      /\ DOMAIN agenda[t] = 1..Len(agenda[t]) /\ Len(agenda[t]) \in Nat
      /\ DOMAIN agenda'[t] = 1..Len(agenda'[t]) /\ Len(steps) \in Nat
  BY <1>1, HeadStep
<1> DEFINE New(u, j) == u = t /\ j <= Len(steps)
           From(u, j) == IF u = t THEN (j - Len(steps)) + 1 ELSE j
<1>3. ASSUME NEW u \in Threads, NEW j \in DOMAIN agenda'[u], New(u, j)
      PROVE  j \in 1..Len(steps) /\ agenda'[u][j] = steps[j]
  <2>1. j \in 1..Len(agenda'[t]) /\ j \in 1..Len(steps)
    BY <1>3, <1>2
  <2> QED
    BY <2>1, <1>3, <1>1
<1>4. ASSUME NEW u \in Threads, NEW j \in DOMAIN agenda'[u], ~New(u, j)
      PROVE  /\ From(u, j) \in DOMAIN agenda[u] /\ agenda'[u][j] = agenda[u][From(u, j)]
             /\ u = t => From(u, j) # 1
  <2>1. CASE u # t
    BY <2>1, <1>1
  <2>2. CASE u = t
    <3>1. j \in 1..Len(agenda'[t]) /\ ~(j <= Len(steps))
      BY <2>2, <1>2, <1>4
    <3>2. From(u, j) \in 2..Len(agenda[t])
      BY <3>1, <2>2, <1>1, <1>2
    <3>3. agenda'[t][j] = agenda[t][From(u, j)]
      BY <3>1, <2>2, <1>1
    <3> QED
      BY <3>2, <3>3, <2>2, <1>2
  <2> QED
    BY <2>1, <2>2
<1>5. ASSUME NEW u \in Threads, NEW j \in DOMAIN agenda'[u], NEW k \in DOMAIN agenda'[u],
             ~New(u, j), ~New(u, k), From(u, j) = From(u, k)
      PROVE  j = k
  <2>1. CASE u # t
    BY <2>1, <1>5
  <2>2. CASE u = t
    BY <2>2, <1>5, <1>2
  <2> QED
    BY <2>1, <2>2
<1> HIDE DEF New, From
<1>6. \A u \in Threads : \A j \in DOMAIN agenda'[u] :
        /\ New(u, j) => u = t
        /\ Carries(agenda'[u][j], s) => New(u, j) \/ InSomeHand(s, agenda)
        /\ New(u, j) /\ Carries(agenda'[u][j], s) =>
             Carries(agenda[t][1], s) \/ ~InSomeHand(s, agenda)
  <2>1. \A u \in Threads : \A j \in DOMAIN agenda'[u] : New(u, j) => u = t
    BY DEF New
  <2> QED
    BY <2>1, <1>2, <1>3, <1>4 DEF InSomeHand
\* Two that carry it: both have come, both were there, or one of each.
<1>7. ASSUME NEW u \in Threads, NEW v \in Threads,
             NEW j \in DOMAIN agenda'[u], NEW k \in DOMAIN agenda'[v],
             Carries(agenda'[u][j], s), Carries(agenda'[v][k], s)
      PROVE  u = v /\ j = k
  <2>1. CASE New(u, j) /\ New(v, k)
    BY <2>1, <1>3, <1>6, <1>7
  <2>2. CASE ~New(u, j) /\ ~New(v, k)
    <3>1. /\ From(u, j) \in DOMAIN agenda[u] /\ Carries(agenda[u][From(u, j)], s)
          /\ From(v, k) \in DOMAIN agenda[v] /\ Carries(agenda[v][From(v, k)], s)
      BY <2>2, <1>4, <1>7
    <3>2. u = v /\ From(u, j) = From(v, k)
      BY <3>1 DEF OneHand
    <3> QED
      BY <3>2, <2>2, <1>5
  <2>3. ASSUME NEW a \in Threads, NEW b \in Threads,
               NEW m \in DOMAIN agenda'[a], NEW n \in DOMAIN agenda'[b],
               Carries(agenda'[a][m], s), Carries(agenda'[b][n], s), New(a, m), ~New(b, n)
        PROVE  FALSE
    <3>1. From(b, n) \in DOMAIN agenda[b] /\ Carries(agenda[b][From(b, n)], s)
      BY <2>3, <1>4
    <3>2. InSomeHand(s, agenda)
      BY <3>1 DEF InSomeHand
    <3>3. Carries(agenda[t][1], s)
      BY <2>3, <3>2, <1>6
    <3>4. b = t /\ From(b, n) = 1
      BY <3>1, <3>3, <1>2 DEF OneHand
    <3> QED
      BY <3>4, <2>3, <1>4
  <2> QED
    BY <2>1, <2>2, <2>3, <1>7
<1>8. ASSUME NEW u \in Threads, NEW j \in DOMAIN agenda'[u], Carries(agenda'[u][j], s)
      PROVE  \/ \E i \in 1..Len(steps) : Carries(steps[i], s)
             \/ InSomeHand(s, agenda) /\ ~Carries(Step(t), s)
  <2>1. CASE New(u, j)
    BY <2>1, <1>3, <1>8
  <2>2. CASE ~New(u, j)
    <3>1. From(u, j) \in DOMAIN agenda[u] /\ Carries(agenda[u][From(u, j)], s)
      BY <2>2, <1>4, <1>8
    <3>2. CASE Carries(Step(t), s)
      <4>1. u = t /\ From(u, j) = 1
        BY <3>1, <3>2, <1>2 DEF OneHand
      <4> QED
        BY <4>1, <2>2, <1>4
    <3> QED
      BY <3>1, <3>2 DEF InSomeHand
  <2> QED
    BY <2>1, <2>2
<1> QED
  BY <1>7, <1>8 DEF OneHand, InSomeHand

\* Starting work takes no seek off the hand it is in.
LEMMA EmptyHandsAtFirst ==
  ASSUME agenda \in [Threads -> Seq(Steps)],
         NEW t \in Threads, NEW steps \in Seq(Steps), Begin(t, steps),
         NEW s, \A i \in 1..Len(steps) : ~Carries(steps[i], s), OneHand(s, agenda)
  PROVE  OneHand(s, agenda') /\ (InSomeHand(s, agenda') => InSomeHand(s, agenda))
<1>1. /\ agenda[t] = <<>> /\ agenda'[t] = steps
      /\ \A u \in Threads \ {t} : agenda'[u] = agenda[u]
  BY AgendaBegin
<1>2. ASSUME NEW u \in Threads, NEW j \in DOMAIN agenda'[u], Carries(agenda'[u][j], s)
      PROVE  u # t /\ agenda'[u] = agenda[u]
  <2>1. DOMAIN steps = 1..Len(steps)
    OBVIOUS
  <2> QED
    BY <1>1, <1>2, <2>1
<1> QED
  BY <1>2 DEF OneHand, InSomeHand

-----------------------------------------------------------------------------
(* Steps that carry no seek and make none, and what they leave alone.      *)

Idler == {"rebind", "detach", "pair", "sweep", "dispose", "shelter", "release",
          "callOff", "discard", "began", "abandon", "finish", "retire",
          "move", "resign"}

Inert(t, steps) ==
  /\ steps \in Seq(Steps)
  /\ \A i \in 1..Len(steps) :
       steps[i].do \in Idler /\ StepSound(t, steps[i], seeks, Len(sessions))

Work(t, steps) == Begin(t, steps) \/ (~Idle(t) /\ Then(t, steps))

LEMMA IdlersCarryNothing ==
  \A step \in Steps : step.do \in Idler =>
    step.do \notin Making /\ \A s : ~Carries(step, s)
  BY DEF Idler, Making, Carries

LEMMA InertNone == \A t : Inert(t, <<>>)
  BY DEF Inert

LEMMA InertOne ==
  ASSUME NEW t, NEW step \in Steps, step.do \in Idler,
         StepSound(t, step, seeks, Len(sessions))
  PROVE  Inert(t, <<step>>)
<1>1. <<step>> \in Seq(Steps) /\ Len(<<step>>) = 1 /\ <<step>>[1] = step
  OBVIOUS
<1> QED
  BY <1>1 DEF Inert

\* Steps about a game, about a seek, and about neither.
LEMMA InertKinds ==
  ASSUME Len(sessions) \in Nat, NEW t
  PROVE  /\ \A g \in 1..Len(sessions), kind \in OfASession \ {"callOff"} :
              Inert(t, <<[do |-> kind, session |-> g]>>)
         /\ \A g \in 1..Len(sessions), blame \in Colors \cup {Neutral, "mover"} :
              Inert(t, <<CallOff(g, blame)>>)
         /\ \A s \in SeekIDs, kind \in {"dispose", "shelter"} :
              MadeIn(s, seeks) => Inert(t, <<[do |-> kind, seek |-> s]>>)
         /\ \A place \in Places, kind \in {"move", "resign"} :
              place.session \in 1..Len(sessions) => Inert(t, <<[do |-> kind, seat |-> place]>>)
         /\ \A kind \in {"rebind", "detach", "pair", "sweep"} : Inert(t, <<[do |-> kind]>>)
<1> USE DEF Idler, OfASession, OfASeek, Seatings, Steps, StepSound
<1>1. ASSUME NEW g \in 1..Len(sessions), NEW kind \in OfASession \ {"callOff"}
      PROVE  Inert(t, <<[do |-> kind, session |-> g]>>)
  <2> DEFINE step == [do |-> kind, session |-> g]
  <2>1. step \in Steps /\ step.do \in Idler /\ StepSound(t, step, seeks, Len(sessions))
    OBVIOUS
  <2> QED
    BY <2>1, InertOne
<1>2. ASSUME NEW g \in 1..Len(sessions), NEW blame \in Colors \cup {Neutral, "mover"}
      PROVE  Inert(t, <<CallOff(g, blame)>>)
  <2>1. /\ CallOff(g, blame) \in Steps /\ CallOff(g, blame).do \in Idler
        /\ StepSound(t, CallOff(g, blame), seeks, Len(sessions))
    BY DEF CallOff
  <2> QED
    BY <2>1, InertOne
<1>3. ASSUME NEW s \in SeekIDs, NEW kind \in {"dispose", "shelter"}, MadeIn(s, seeks)
      PROVE  Inert(t, <<[do |-> kind, seek |-> s]>>)
  <2> DEFINE step == [do |-> kind, seek |-> s]
  <2>1. step \in Steps /\ step.do \in Idler /\ StepSound(t, step, seeks, Len(sessions))
    BY <1>3
  <2> QED
    BY <2>1, InertOne
<1>4. ASSUME NEW place \in Places, NEW kind \in {"move", "resign"},
             place.session \in 1..Len(sessions)
      PROVE  Inert(t, <<[do |-> kind, seat |-> place]>>)
  <2> DEFINE step == [do |-> kind, seat |-> place]
  <2>1. step \in Steps /\ step.do \in Idler /\ StepSound(t, step, seeks, Len(sessions))
    BY <1>4
  <2> QED
    BY <2>1, InertOne
<1>5. ASSUME NEW kind \in {"rebind", "detach", "pair", "sweep"}
      PROVE  Inert(t, <<[do |-> kind]>>)
  <2> DEFINE step == [do |-> kind]
  <2>1. step \in Steps /\ step.do \in Idler /\ StepSound(t, step, seeks, Len(sessions))
    OBVIOUS
  <2> QED
    BY <2>1, InertOne
<1> QED
  BY <1>1, <1>2, <1>3, <1>4, <1>5

\* The games are the same ones, and an escrow may have been emptied.
FewerEscrows(games, later) ==
  /\ Len(later) = Len(games)
  /\ \A g \in 1..Len(games) :
       /\ later[g].seats = games[g].seats
       /\ later[g].escrow # "none" => games[g].escrow # "none"

LEMMA EscrowsKept ==
  ASSUME NEW games \in Seq(SessionRecords), NEW later \in Seq(SessionRecords),
         FewerEscrows(games, later), NEW s
  PROVE  /\ InSomeEscrow(s, later) => InSomeEscrow(s, games)
         /\ OneEscrow(s, games) => OneEscrow(s, later)
<1>1. DOMAIN later = DOMAIN games /\ DOMAIN games = 1..Len(games)
  BY DEF FewerEscrows
<1>2. \A g \in DOMAIN games : Keeps(later[g], s) => Keeps(games[g], s)
  BY <1>1 DEF FewerEscrows, Keeps
<1> QED
  BY <1>1, <1>2 DEF InSomeEscrow, OneEscrow

\* A step that neither makes a seek nor moves one between hands and escrows.
LEMMA InertStep ==
  ASSUME LobbyInv, NEW t \in Threads, NEW steps, Inert(t, steps), Work(t, steps),
         Grows(seeks, seeks'), Len(seeks') = Len(seeks),
         BoardInv', byID' \subseteq byID,
         SeatsInv', FewerEscrows(sessions, sessions'),
         SocketsInv'
  PROVE  LobbyInv'
<1>1. /\ agenda \in [Threads -> Seq(Steps)] /\ AgendaInv
      /\ seeks \in Seq(SeekRecords) /\ sessions \in Seq(SessionRecords)
      /\ sessions' \in Seq(SessionRecords)
      /\ Len(sessions) \in Nat /\ Len(sessions') = Len(sessions)
  <2>1. agenda \in [Threads -> Seq(Steps)] /\ AgendaInv /\ seeks \in Seq(SeekRecords)
    BY DEF LobbyInv, SeeksInv, AgendaInv
  <2>2. sessions \in Seq(SessionRecords) /\ sessions' \in Seq(SessionRecords)
    BY DEF LobbyInv, SeatsInv
  <2> QED
    BY <2>1, <2>2, LenProperties DEF FewerEscrows
<1>9. Len(sessions') \in Nat /\ Len(sessions) <= Len(sessions')
  BY <1>1
<1>2. /\ steps \in Seq(Steps) /\ Len(steps) \in Nat
      /\ \A i \in 1..Len(steps) :
           /\ steps[i] \in Steps
           /\ steps[i].do \notin Making /\ \A s : ~Carries(steps[i], s)
           /\ StepSound(t, steps[i], seeks, Len(sessions))
           /\ StepSound(t, steps[i], seeks', Len(sessions'))
  <2>0. steps \in Seq(Steps)
    BY DEF Inert
  <2>1. Len(steps) \in Nat /\ \A i \in 1..Len(steps) : steps[i] \in Steps
    BY <2>0, LenProperties, ElementOfSeq
  <2>2. \A i \in 1..Len(steps) :
          steps[i].do \in Idler /\ StepSound(t, steps[i], seeks, Len(sessions))
    BY DEF Inert
  <2>3. \A i \in 1..Len(steps) : StepSound(t, steps[i], seeks', Len(sessions'))
    <3> SUFFICES ASSUME NEW i \in 1..Len(steps)
                 PROVE  StepSound(t, steps[i], seeks', Len(sessions'))
      OBVIOUS
    <3>2. steps[i] \in Steps /\ StepSound(t, steps[i], seeks, Len(sessions))
      BY <2>1, <2>2
    <3> QED
      BY <3>2, <1>1, <1>9, StepStaysSound
  <2>4. \A i \in 1..Len(steps) : steps[i].do \notin Making /\ \A s : ~Carries(steps[i], s)
    BY <2>1, <2>2, IdlersCarryNothing
  <2> QED
    BY <2>0, <2>1, <2>2, <2>3, <2>4
<1>3. AgendaInv'
  <2>1. CASE Begin(t, steps)
    BY <2>1, <1>1, <1>2, StartsOn DEF Sound
  <2>2. CASE ~Idle(t) /\ Then(t, steps)
    <3>1. /\ Sound(t, steps, seeks', Len(sessions'))
          /\ \A i \in 1..Len(steps) : steps[i].do \notin Making
      BY <1>2 DEF Sound
    <3> QED
      BY <3>1, <2>2, <1>1, <1>2, <1>9, GoesOn
  <2> QED
    BY <2>1, <2>2 DEF Work
<1>4. ASSUME NEW s, OneHand(s, agenda)
      PROVE  OneHand(s, agenda') /\ (InSomeHand(s, agenda') => InSomeHand(s, agenda))
  <2>1. CASE Begin(t, steps)
    BY <2>1, <1>1, <1>2, <1>4, EmptyHandsAtFirst
  <2>2. CASE ~Idle(t) /\ Then(t, steps)
    BY <2>2, <1>1, <1>2, <1>4, HandsOn
  <2> QED
    BY <2>1, <2>2 DEF Work
<1>5. PlacesInv'
  <2> SUFFICES ASSUME NEW s \in SeekIDs
               PROVE  InOnePlace(s, byID', agenda', sessions')
    BY DEF PlacesInv
  <2>1. InOnePlace(s, byID, agenda, sessions)
    BY DEF LobbyInv, PlacesInv
  <2>2. /\ InSomeEscrow(s, sessions') => InSomeEscrow(s, sessions)
        /\ OneEscrow(s, sessions')
    BY <2>1, <1>1, EscrowsKept DEF InOnePlace
  <2>3. OneHand(s, agenda') /\ (InSomeHand(s, agenda') => InSomeHand(s, agenda))
    BY <2>1, <1>4 DEF InOnePlace
  <2> QED
    BY <2>1, <2>2, <2>3 DEF InOnePlace
<1>6. SeeksInv'
  <2>1. ASSUME NEW s \in byID' PROVE MadeIn(s, seeks')
    BY <1>1, MadeStays DEF LobbyInv, SeeksInv
  <2> QED
    BY <2>1 DEF SeeksInv, Grows
<1> QED
  BY <1>3, <1>5, <1>6 DEF LobbyInv

\* A step that leaves the agendas alone.
LEMMA AgendaAlone ==
  ASSUME LobbyInv, UNCHANGED <<seeks, agenda>>,
         BoardInv', byID' \subseteq byID,
         SeatsInv', FewerEscrows(sessions, sessions'),
         SocketsInv'
  PROVE  LobbyInv'
<1>1. /\ sessions \in Seq(SessionRecords) /\ sessions' \in Seq(SessionRecords)
      /\ Len(sessions') = Len(sessions)
  BY DEF LobbyInv, SeatsInv, FewerEscrows
<1>2. StepsOf(Making)' = StepsOf(Making)
  BY MakingSteps, MakingStepsNext
<1>3. AgendaInv'
  BY <1>1, <1>2 DEF LobbyInv, AgendaInv
<1>4. PlacesInv'
  BY <1>1, EscrowsKept DEF LobbyInv, PlacesInv, InOnePlace
<1>5. SeeksInv'
  BY DEF LobbyInv, SeeksInv
<1> QED
  BY <1>3, <1>4, <1>5 DEF LobbyInv

-----------------------------------------------------------------------------
(* The games and the players in them.                                      *)

\* Nobody comes or goes, and no escrow is filled.
Touched(games, later) ==
  /\ later \in Seq(SessionRecords) /\ Len(later) = Len(games)
  /\ \A g \in 1..Len(games) :
       /\ later[g].seats = games[g].seats
       /\ later[g].socket = games[g].socket
       /\ later[g].absent = games[g].absent
       /\ later[g].listed = games[g].listed
       /\ later[g].escrow # "none" => games[g].escrow # "none"

LEMMA TouchedNot == sessions \in Seq(SessionRecords) => Touched(sessions, sessions)
  BY DEF Touched

LEMMA TouchedSeats ==
  ASSUME SeatsInv, seeks \in Seq(SeekRecords), Grows(seeks, seeks'),
         Touched(sessions, sessions'), UNCHANGED participants
  PROVE  SeatsInv' /\ FewerEscrows(sessions, sessions')
<1>1. /\ sessions \in Seq(SessionRecords) /\ sessions' \in Seq(SessionRecords)
      /\ DOMAIN sessions = 1..Len(sessions) /\ DOMAIN sessions' = DOMAIN sessions
  BY DEF SeatsInv, Touched
<1>2. \A g \in DOMAIN sessions' : SeatsSound(sessions'[g].seats, seeks')
  BY <1>1, SeatsStaySound DEF SeatsInv, Touched
<1>3. ParticipantIsSeated'
  BY <1>1 DEF SeatsInv, Touched, ParticipantIsSeated, Live
<1>4. EmptyIsTimed'
  BY <1>1 DEF SeatsInv, Touched, EmptyIsTimed
<1>5. FewerEscrows(sessions, sessions')
  BY DEF Touched, FewerEscrows
<1> QED
  BY <1>1, <1>2, <1>3, <1>4, <1>5 DEF SeatsInv

\* What one game becomes when it is called off, played on, ended or recorded.
LEMMA OneGameTouched ==
  ASSUME sessions \in Seq(SessionRecords), NEW g \in DOMAIN sessions,
         NEW game \in SessionRecords, sessions' = [sessions EXCEPT ![g] = game],
         game.seats = sessions[g].seats, game.socket = sessions[g].socket,
         game.absent = sessions[g].absent, game.listed = sessions[g].listed,
         game.escrow # "none" => sessions[g].escrow # "none"
  PROVE  Touched(sessions, sessions')
<1>1. g \in 1..Len(sessions)
  OBVIOUS
<1>2. sessions' \in Seq(SessionRecords) /\ Len(sessions') = Len(sessions)
  BY <1>1, ExceptSeq
<1>3. \A h \in 1..Len(sessions) : sessions'[h] = IF h = g THEN game ELSE sessions[h]
  OBVIOUS
<1> QED
  BY <1>1, <1>2, <1>3 DEF Touched

Timed(game) == \A color \in Colors : game.absent[color] <=> game.socket[color] = None

LEMMA AllAreTimed ==
  /\ EmptyIsTimed <=> \A g \in DOMAIN sessions : Timed(sessions[g])
  /\ EmptyIsTimed' <=> \A g \in DOMAIN sessions' : Timed(sessions'[g])
  BY DEF EmptyIsTimed, Timed

\* A seat that empties is the seat of the socket that goes.
LEMMA UnseatKeepsSeats ==
  ASSUME LobbyInv, NEW c \in Clients, Unseat(c)
  PROVE  SeatsInv' /\ FewerEscrows(sessions, sessions')
<1> DEFINE p == participants[c]
<1>1. /\ sessions \in Seq(SessionRecords) /\ DOMAIN sessions = 1..Len(sessions)
      /\ seeks \in Seq(SeekRecords) /\ SeatsInv
      /\ participants \in [Clients -> Places \cup {None}]
  BY DEF LobbyInv, SeatsInv, SeeksInv
<1>2. participants' = [participants EXCEPT ![c] = None] /\ UNCHANGED seeks
  BY DEF Unseat
<1>3. CASE p = None
  <2>1. UNCHANGED <<sessions, participants>>
    BY <1>1, <1>2, <1>3 DEF Unseat
  <2> QED
    BY <2>1, <1>1, <1>2, TouchedNot, TouchedSeats, GrowsNot
<1>4. CASE p # None
  <2>1. /\ p \in Places /\ p.session \in DOMAIN sessions
        /\ sessions[p.session].listed /\ sessions[p.session].socket[p.color] = c
        /\ sessions[p.session] \in SessionRecords
        /\ p.color \in Colors
    BY <1>1, <1>4 DEF SeatsInv, ParticipantIsSeated, Live, Places
  <2> DEFINE game == [sessions[p.session] EXCEPT !.socket[p.color] = None,
                                                 !.absent[p.color] = TRUE]
  <2>2. sessions' = [sessions EXCEPT ![p.session] = game]
    BY <1>1, <1>4, <2>1 DEF Unseat, Vacated
  <2>3. /\ game \in SessionRecords
        /\ game.seats = sessions[p.session].seats /\ game.listed = sessions[p.session].listed
        /\ game.escrow = sessions[p.session].escrow
        /\ \A color \in Colors :
             /\ game.socket[color] = IF color = p.color THEN None
                                     ELSE sessions[p.session].socket[color]
             /\ game.absent[color] = IF color = p.color THEN TRUE
                                     ELSE sessions[p.session].absent[color]
    BY <2>1 DEF SessionRecords, SocketPairs
  <2> HIDE DEF game
  <2>4. /\ sessions' \in Seq(SessionRecords) /\ Len(sessions') = Len(sessions)
        /\ DOMAIN sessions' = DOMAIN sessions
        /\ \A g \in DOMAIN sessions :
             sessions'[g] = IF g = p.session THEN game ELSE sessions[g]
    BY <1>1, <2>1, <2>2, <2>3, ExceptSeq
  <2>5. \A g \in DOMAIN sessions' : SeatsSound(sessions'[g].seats, seeks')
    BY <1>1, <1>2, <2>3, <2>4 DEF SeatsInv
  <2>6. participants' \in [Clients -> Places \cup {None}]
    BY <1>1, <1>2
  <2>7. ASSUME NEW d \in Clients, participants'[d] # None
        PROVE  /\ participants'[d].session \in DOMAIN sessions'
               /\ sessions'[participants'[d].session].listed
               /\ sessions'[participants'[d].session].socket[participants'[d].color] = d
    <3>1. d # c /\ participants'[d] = participants[d]
      BY <2>7, <1>1, <1>2
    <3> DEFINE q == participants[d]
    <3>2. /\ q \in Places /\ q.session \in DOMAIN sessions /\ q.color \in Colors
          /\ sessions[q.session].listed /\ sessions[q.session].socket[q.color] = d
      BY <3>1, <2>7, <1>1 DEF SeatsInv, ParticipantIsSeated, Live, Places
    <3>3. p.session = q.session => p.color # q.color
      BY <3>1, <3>2, <2>1
    <3> HIDE DEF q, p
    <3>4. sessions'[q.session].listed /\ sessions'[q.session].socket[q.color] = d
      <4>1. CASE q.session = p.session
        BY <4>1, <3>2, <3>3, <2>3, <2>4
      <4>2. CASE q.session # p.session
        BY <4>2, <3>2, <2>4
      <4> QED
        BY <4>1, <4>2
    <3> QED
      BY <3>1, <3>2, <3>4, <2>4 DEF q
  <2>8. EmptyIsTimed'
    <3>1. Timed(sessions[p.session])
      BY <1>1, <2>1, AllAreTimed DEF SeatsInv
    <3>2. \A color \in Colors : game.absent[color] <=> game.socket[color] = None
      BY <3>1, <2>3, <2>1 DEF Timed
    <3>3. Timed(game)
      BY <3>2 DEF Timed
    <3> QED
      BY <3>3, <1>1, <2>4, AllAreTimed DEF SeatsInv
  <2>9. FewerEscrows(sessions, sessions')
    BY <1>1, <2>3, <2>4 DEF FewerEscrows
  <2> QED
    BY <2>4, <2>5, <2>6, <2>7, <2>8, <2>9 DEF SeatsInv, ParticipantIsSeated, Live
<1> QED
  BY <1>3, <1>4

\* A game that leaves the list lets go of whoever it still seats.
LEMMA UnlistedKeepsSeats ==
  ASSUME LobbyInv, NEW g \in DOMAIN sessions, Unlisted(g), UNCHANGED seeks
  PROVE  SeatsInv' /\ FewerEscrows(sessions, sessions')
<1>1. /\ sessions \in Seq(SessionRecords) /\ DOMAIN sessions = 1..Len(sessions)
      /\ seeks \in Seq(SeekRecords) /\ SeatsInv
      /\ participants \in [Clients -> Places \cup {None}]
  BY DEF LobbyInv, SeatsInv, SeeksInv
<1>2. CASE ~Live(g)
  BY <1>1, <1>2, TouchedNot, TouchedSeats, GrowsNot DEF Unlisted
<1>3. CASE Live(g)
  <2> DEFINE game == [sessions[g] EXCEPT !.listed = FALSE]
  <2>1. sessions' = [sessions EXCEPT ![g] = game]
    BY <1>3, <1>1 DEF Unlisted
  <2>2. /\ game \in SessionRecords
        /\ game.seats = sessions[g].seats /\ game.socket = sessions[g].socket
        /\ game.absent = sessions[g].absent /\ game.escrow = sessions[g].escrow
    <3>1. sessions[g] \in SessionRecords
      BY <1>1
    <3> QED
      BY <3>1 DEF SessionRecords
  <2> HIDE DEF game
  <2>3. /\ sessions' \in Seq(SessionRecords) /\ Len(sessions') = Len(sessions)
        /\ DOMAIN sessions' = DOMAIN sessions
        /\ \A h \in DOMAIN sessions : sessions'[h] = IF h = g THEN game ELSE sessions[h]
    BY <1>1, <2>1, <2>2, ExceptSeq
  <2>4. participants' = [c \in Clients |->
            IF /\ \E color \in Colors : sessions[g].socket[color] = c
               /\ participants[c] # None /\ participants[c].session = g
            THEN None ELSE participants[c]]
    BY <1>3 DEF Unlisted
  <2>5. ASSUME NEW d \in Clients, participants'[d] # None
        PROVE  /\ participants'[d] = participants[d]
               /\ participants'[d].session \in DOMAIN sessions'
               /\ sessions'[participants'[d].session].listed
               /\ sessions'[participants'[d].session].socket[participants'[d].color] = d
    <3>1. participants'[d] = participants[d]
      BY <2>5, <2>4
    <3> DEFINE q == participants[d]
    <3>2. /\ q \in Places /\ q.session \in DOMAIN sessions /\ q.color \in Colors
          /\ sessions[q.session].listed /\ sessions[q.session].socket[q.color] = d
      BY <3>1, <2>5, <1>1 DEF SeatsInv, ParticipantIsSeated, Live, Places
    <3>3. q.session # g
      BY <3>1, <3>2, <2>4, <2>5
    <3> QED
      BY <3>1, <3>2, <3>3, <2>3
  <2>6. participants' \in [Clients -> Places \cup {None}]
    BY <2>4, <1>1
  <2>7. EmptyIsTimed'
    BY <1>1, <2>2, <2>3 DEF SeatsInv, EmptyIsTimed
  <2>8. FewerEscrows(sessions, sessions')
    BY <1>1, <2>2, <2>3 DEF FewerEscrows
  <2>9. \A h \in DOMAIN sessions' : SeatsSound(sessions'[h].seats, seeks')
    BY <1>1, <2>2, <2>3 DEF SeatsInv
  <2> QED
    BY <2>3, <2>5, <2>6, <2>7, <2>8, <2>9 DEF SeatsInv, ParticipantIsSeated, Live
<1> QED
  BY <1>2, <1>3

\* The tab that takes a seat is in it, and the tab that had it is not.
LEMMA ReseatedKeepsSeats ==
  ASSUME LobbyInv, NEW g \in DOMAIN sessions, NEW color \in Colors, NEW c \in Clients,
         Live(g), sessions' = Reseated(g, color, c), UNCHANGED seeks,
         participants' = [d \in Clients |->
           IF d = c THEN [session |-> g, color |-> color]
           ELSE IF d = sessions[g].socket[color] THEN None ELSE participants[d]]
  PROVE  SeatsInv' /\ FewerEscrows(sessions, sessions')
<1>1. /\ sessions \in Seq(SessionRecords) /\ DOMAIN sessions = 1..Len(sessions)
      /\ seeks \in Seq(SeekRecords) /\ SeatsInv /\ sessions[g] \in SessionRecords
      /\ participants \in [Clients -> Places \cup {None}]
  BY DEF LobbyInv, SeatsInv, SeeksInv
<1> DEFINE game == [sessions[g] EXCEPT !.socket[color] = c, !.absent[color] = FALSE]
<1>2. sessions' = [sessions EXCEPT ![g] = game]
  BY <1>1 DEF Reseated
<1>3. /\ game \in SessionRecords
      /\ game.seats = sessions[g].seats /\ game.listed = sessions[g].listed
      /\ game.escrow = sessions[g].escrow
      /\ \A other \in Colors :
           /\ game.socket[other] = IF other = color THEN c ELSE sessions[g].socket[other]
           /\ game.absent[other] = IF other = color THEN FALSE ELSE sessions[g].absent[other]
  BY <1>1 DEF SessionRecords, SocketPairs
<1> HIDE DEF game
<1>4. /\ sessions' \in Seq(SessionRecords) /\ Len(sessions') = Len(sessions)
      /\ DOMAIN sessions' = DOMAIN sessions
      /\ \A h \in DOMAIN sessions : sessions'[h] = IF h = g THEN game ELSE sessions[h]
  BY <1>1, <1>2, <1>3, ExceptSeq
<1>5. [session |-> g, color |-> color] \in Places
  BY <1>1 DEF Places
<1>6. participants' \in [Clients -> Places \cup {None}]
  BY <1>1, <1>5
<1>7. ASSUME NEW d \in Clients, participants'[d] # None
      PROVE  /\ participants'[d].session \in DOMAIN sessions'
             /\ sessions'[participants'[d].session].listed
             /\ sessions'[participants'[d].session].socket[participants'[d].color] = d
  <2>1. CASE d = c
    <3>1. participants'[d].session = g /\ participants'[d].color = color
      BY <2>1
    <3> QED
      BY <2>1, <3>1, <1>3, <1>4 DEF Live
  <2>2. CASE d # c
    <3>1. participants'[d] = participants[d] /\ d # sessions[g].socket[color]
      BY <2>2, <1>7
    <3> DEFINE q == participants[d]
    <3>2. /\ q \in Places /\ q.session \in DOMAIN sessions /\ q.color \in Colors
          /\ sessions[q.session].listed /\ sessions[q.session].socket[q.color] = d
      BY <3>1, <1>7, <1>1 DEF SeatsInv, ParticipantIsSeated, Live, Places
    <3>3. ~(q.session = g /\ q.color = color)
      BY <3>1, <3>2
    <3> HIDE DEF q
    <3>4. sessions'[q.session].listed /\ sessions'[q.session].socket[q.color] = d
      <4>1. CASE q.session = g
        <5>1. sessions'[q.session] = game /\ q.color # color
          BY <4>1, <3>2, <3>3, <1>4
        <5> QED
          BY <5>1, <4>1, <3>2, <1>3
      <4>2. CASE q.session # g
        BY <4>2, <3>2, <1>4
      <4> QED
        BY <4>1, <4>2
    <3> QED
      BY <3>1, <3>2, <3>4, <1>4 DEF q
  <2> QED
    BY <2>1, <2>2
<1>8. EmptyIsTimed'
  <2>1. Timed(sessions[g]) /\ c # None
    BY <1>1, AllAreTimed, NoneAssumption DEF SeatsInv
  <2>2. ASSUME NEW other \in Colors
        PROVE  game.absent[other] <=> game.socket[other] = None
    <3>1. CASE other = color
      BY <3>1, <2>1, <1>3
    <3>2. CASE other # color
      BY <3>2, <2>1, <1>3 DEF Timed
    <3> QED
      BY <3>1, <3>2
  <2>3. Timed(game)
    BY <2>2 DEF Timed
  <2> QED
    BY <2>3, <1>1, <1>4, AllAreTimed DEF SeatsInv
<1>9. FewerEscrows(sessions, sessions')
  BY <1>1, <1>3, <1>4 DEF FewerEscrows
<1>10. \A h \in DOMAIN sessions' : SeatsSound(sessions'[h].seats, seeks')
  BY <1>1, <1>3, <1>4 DEF SeatsInv
<1> QED
  BY <1>4, <1>6, <1>7, <1>8, <1>9, <1>10 DEF SeatsInv, ParticipantIsSeated, Live

-----------------------------------------------------------------------------
(* Actions that neither make a seek nor hand one on.                       *)

LEMMA LobbyFacts ==
  ASSUME LobbyInv
  PROVE  /\ SocketsInv /\ SeeksInv /\ SeatsInv /\ AgendaInv /\ PlacesInv /\ BoardInv
         /\ seeks \in Seq(SeekRecords) /\ Len(seeks) \in Nat /\ DOMAIN seeks = 1..Len(seeks)
         /\ sessions \in Seq(SessionRecords) /\ Len(sessions) \in Nat
         /\ DOMAIN sessions = 1..Len(sessions)
         /\ agenda \in [Threads -> Seq(Steps)]
         /\ participants \in [Clients -> Places \cup {None}]
         /\ byID \subseteq SeekIDs /\ byOwner \in [Owners -> SeekIDs \cup {None}]
         /\ Owner \in [Clients -> Owners]
         /\ Grows(seeks, seeks)
<1>1. /\ seeks \in Seq(SeekRecords) /\ sessions \in Seq(SessionRecords)
      /\ agenda \in [Threads -> Seq(Steps)]
      /\ participants \in [Clients -> Places \cup {None}]
  BY DEF LobbyInv, SeeksInv, SeatsInv, AgendaInv
<1>2. BoardInv /\ SocketsInv /\ SeeksInv /\ SeatsInv /\ AgendaInv /\ PlacesInv
  BY DEF LobbyInv, SeeksInv
<1>3. byID \subseteq SeekIDs /\ byOwner \in [Owners -> SeekIDs \cup {None}]
  BY <1>2 DEF BoardInv, BoardTypeOK
<1> QED
  BY <1>1, <1>2, <1>3, LenProperties, GrowsNot, ClientAssumption

LEMMA HeadIsSound ==
  ASSUME LobbyInv, NEW t \in Threads, ~Idle(t)
  PROVE  /\ Step(t) \in Steps /\ StepSound(t, Step(t), seeks, Len(sessions))
         /\ Step(t) = agenda[t][1] /\ 1 \in DOMAIN agenda[t]
<1>1. 1 \in DOMAIN agenda[t] /\ Step(t) = agenda[t][1] /\ Step(t) \in Steps
  BY LobbyFacts, HeadStep
<1> QED
  BY <1>1, LobbyFacts DEF AgendaInv

\* A player's place is in a game that was opened.
LEMMA PlacesAreOpened ==
  ASSUME LobbyInv, NEW c \in Clients, participants[c] # None
  PROVE  /\ participants[c] \in Places /\ participants[c].session \in 1..Len(sessions)
         /\ participants[c].color \in Colors
  BY LobbyFacts DEF SeatsInv, Places

LEMMA StillBoard ==
  LobbyInv /\ UNCHANGED <<byID, byOwner>> => BoardInv' /\ byID' \subseteq byID
  BY LobbyFacts DEF BoardInv, BoardTypeOK, OneWaitEach

LEMMA LighterBoard ==
  ASSUME LobbyInv, NEW S, TakeOff(S)
  PROVE  BoardInv' /\ byID' \subseteq byID
  BY LobbyFacts, TakeOffKeepsBoard

LEMMA StillSockets == LobbyInv /\ UNCHANGED <<conn, updating>> => SocketsInv'
  BY LobbyFacts DEF SocketsInv

LEMMA StillSeats ==
  ASSUME LobbyInv, Grows(seeks, seeks'), UNCHANGED <<sessions, participants>>
  PROVE  SeatsInv' /\ FewerEscrows(sessions, sessions')
  BY LobbyFacts, TouchedNot, TouchedSeats

\* Only the agendas change, or with them the games that are played, ended or
\* called off, or the board that loses some seeks.
LEMMA OnlyWork ==
  ASSUME LobbyInv, NEW t \in Threads, NEW steps, Inert(t, steps), Work(t, steps),
         UNCHANGED <<conn, seeks, byID, byOwner, sessions, participants, updating>>
  PROVE  LobbyInv'
<1>1. Grows(seeks, seeks') /\ Len(seeks') = Len(seeks)
  BY LobbyFacts
<1>2. SeatsInv' /\ FewerEscrows(sessions, sessions')
  BY <1>1, StillSeats
<1>3. BoardInv' /\ byID' \subseteq byID /\ SocketsInv'
  BY StillBoard, StillSockets
<1> QED
  BY <1>1, <1>2, <1>3, InertStep

LEMMA OnlyGames ==
  ASSUME LobbyInv, NEW t \in Threads, NEW steps, Inert(t, steps), Work(t, steps),
         SeatsInv', FewerEscrows(sessions, sessions'),
         UNCHANGED <<conn, seeks, byID, byOwner, updating>>
  PROVE  LobbyInv'
<1>1. Grows(seeks, seeks') /\ Len(seeks') = Len(seeks)
  BY LobbyFacts
<1>3. BoardInv' /\ byID' \subseteq byID /\ SocketsInv'
  BY StillBoard, StillSockets
<1> QED
  BY <1>1, <1>3, InertStep

LEMMA OnlyTakenOff ==
  ASSUME LobbyInv, NEW t \in Threads, NEW steps, Inert(t, steps), Work(t, steps),
         NEW S, TakeOff(S), UNCHANGED <<conn, seeks, sessions, participants, updating>>
  PROVE  LobbyInv'
<1>1. Grows(seeks, seeks') /\ Len(seeks') = Len(seeks)
  BY LobbyFacts
<1>2. SeatsInv' /\ FewerEscrows(sessions, sessions')
  BY <1>1, StillSeats
<1>3. BoardInv' /\ byID' \subseteq byID /\ SocketsInv'
  BY LighterBoard, StillSockets
<1> QED
  BY <1>1, <1>2, <1>3, InertStep

LEMMA OnlyTheBoard ==
  ASSUME LobbyInv, NEW S, TakeOff(S),
         UNCHANGED <<conn, seeks, sessions, participants, agenda, updating>>
  PROVE  LobbyInv'
<1>1. Grows(seeks, seeks')
  BY LobbyFacts
<1>2. SeatsInv' /\ FewerEscrows(sessions, sessions')
  BY <1>1, StillSeats
<1>3. BoardInv' /\ byID' \subseteq byID /\ SocketsInv'
  BY LighterBoard, StillSockets
<1> QED
  BY <1>2, <1>3, AgendaAlone

\* A seek learns of another socket, or starts or stops running out.
LEMMA OnlySeeks ==
  ASSUME LobbyInv, NEW t \in Threads, NEW steps, Inert(t, steps), Work(t, steps),
         Grows(seeks, seeks'), Len(seeks') = Len(seeks), SocketsInv',
         UNCHANGED <<byID, byOwner, sessions, participants>>
  PROVE  LobbyInv'
<1>2. SeatsInv' /\ FewerEscrows(sessions, sessions')
  BY StillSeats
<1>3. BoardInv' /\ byID' \subseteq byID
  BY StillBoard
<1> QED
  BY <1>2, <1>3, InertStep

LEMMA OneSeekGrows ==
  ASSUME seeks \in Seq(SeekRecords), NEW n \in DOMAIN seeks,
         NEW seek \in SeekRecords, seeks' = [seeks EXCEPT ![n] = seek],
         seek.owner = seeks[n].owner, seek.target = seeks[n].target, seek.setup = seeks[n].setup
  PROVE  Grows(seeks, seeks') /\ Len(seeks') = Len(seeks)
<1>1. n \in 1..Len(seeks)
  OBVIOUS
<1>2. seeks' \in Seq(SeekRecords) /\ Len(seeks') = Len(seeks)
  BY <1>1, ExceptSeq
<1>3. \A m \in 1..Len(seeks) : seeks'[m] = IF m = n THEN seek ELSE seeks[m]
  OBVIOUS
<1> QED
  BY <1>2, <1>3 DEF Grows

LEMMA PairTickKeeps == ASSUME LobbyInv, PairTick PROVE LobbyInv'
<1>1. Inert(Pairer, <<[do |-> "pair"]>>)
  BY LobbyFacts, InertKinds
<1>2. Work(Pairer, <<[do |-> "pair"]>>)
  BY DEF PairTick, Work
<1> QED
  BY <1>1, <1>2, ThreadFacts, OnlyWork DEF PairTick

LEMMA ActKeeps ==
  ASSUME LobbyInv, NEW c \in Clients, MakeMove(c) \/ Resign(c)
  PROVE  LobbyInv'
<1>1. PICK kind \in {"move", "resign"} : Act(c, kind, kind)
  BY DEF MakeMove, Resign
<1> DEFINE steps == <<[do |-> kind, seat |-> participants[c]]>>
<1>2. Inert(c, steps)
  BY <1>1, LobbyFacts, PlacesAreOpened, InertKinds DEF Act
<1>3. Work(c, steps)
  BY <1>1 DEF Act, Work
<1> HIDE DEF steps
<1> QED
  BY <1>1, <1>2, <1>3, ThreadFacts, OnlyWork DEF Act

LEMMA StopUnbegunKeeps == ASSUME LobbyInv, StopUnbegun PROVE LobbyInv'
<1>1. PICK g \in DOMAIN sessions : Begin(Moderator, <<CallOff(g, Neutral)>>)
  BY DEF StopUnbegun
<1>2. Inert(Moderator, <<CallOff(g, Neutral)>>)
  BY LobbyFacts, InertKinds
<1>3. Work(Moderator, <<CallOff(g, Neutral)>>)
  BY <1>1 DEF Work
<1> QED
  BY <1>2, <1>3, ThreadFacts, OnlyWork DEF StopUnbegun

LEMMA NobodyCameBackKeeps ==
  ASSUME LobbyInv, NEW g, NobodyCameBack(g)
  PROVE  LobbyInv'
<1> DEFINE steps == <<[do |-> "abandon", session |-> g]>>
<1>2. Inert(Sweeper, steps)
  BY LobbyFacts, InertKinds DEF NobodyCameBack, OfASession
<1>3. Work(Sweeper, steps)
  BY DEF Work, NobodyCameBack
<1> HIDE DEF steps
<1> QED
  BY <1>2, <1>3, ThreadFacts, OnlyWork DEF NobodyCameBack

LEMMA ReadMoverKeeps ==
  ASSUME LobbyInv, NEW t \in Threads, ReadMover(t)
  PROVE  LobbyInv'
<1> DEFINE g == Step(t).session
           blame == sessions[g].turn
<1>1. ~Idle(t) /\ Step(t).do = "callOff"
  BY DEF ReadMover, At, Step
<1>2. g \in 1..Len(sessions)
  BY <1>1, HeadIsSound DEF StepSound, OfASession
<1>3. blame \in Colors
  <2>1. sessions[g] \in SessionRecords
    BY <1>2, LobbyFacts
  <2> QED
    BY <2>1 DEF SessionRecords
<1>4. Work(t, <<CallOff(g, blame)>>)
  BY <1>1 DEF ReadMover, Work
<1> HIDE DEF g, blame
<1>5. Inert(t, <<CallOff(g, blame)>>)
  BY <1>2, <1>3, LobbyFacts, InertKinds
<1> QED
  BY <1>4, <1>5, OnlyWork DEF ReadMover

LEMMA TakenOffKeeps ==
  ASSUME LobbyInv,
         \/ \E c \in Clients : Withdraw(c) \/ Decline(c)
         \/ ExpireChallenges
  PROVE  LobbyInv'
<1>1. PICK S : TakeOff(S)
  BY DEF Withdraw, Decline, ExpireChallenges, RemoveOwner, ClaimFrom, Claim, TakeExpired
<1>2. UNCHANGED <<conn, seeks, sessions, participants, agenda, updating>>
  BY DEF Withdraw, Decline, ExpireChallenges
<1> QED
  BY <1>1, <1>2, OnlyTheBoard

LEMMA DisposeKeeps ==
  ASSUME LobbyInv, NEW c \in Clients, Dispose(c)
  PROVE  LobbyInv'
<1>1. ~Idle(c) /\ Then(c, <<>>) /\ TakeOff({Step(c).seek})
  BY DEF Dispose, At, Claim
<1>2. Work(c, <<>>)
  BY <1>1 DEF Work
<1> QED
  BY <1>1, <1>2, InertNone, ThreadFacts, OnlyTakenOff DEF Dispose

LEMMA ReleaseKeeps ==
  ASSUME LobbyInv, NEW t \in Threads, Release(t)
  PROVE  LobbyInv'
<1>1. ~Idle(t) /\ Then(t, <<>>) /\ TakeOff({byOwner[Owner[Step(t).client]]})
  BY DEF Release, At, RemoveOwner
<1>2. Work(t, <<>>)
  BY <1>1 DEF Work
<1> QED
  BY <1>1, <1>2, InertNone, OnlyTakenOff DEF Release

LEMMA ConnectKeeps ==
  ASSUME LobbyInv, NEW c \in Clients, Connect(c)
  PROVE  LobbyInv'
<1>1. Inert(c, <<[do |-> "rebind"]>>) /\ Work(c, <<[do |-> "rebind"]>>)
  BY LobbyFacts, InertKinds DEF Connect, Work
<1>2. SocketsInv'
  BY LobbyFacts DEF SocketsInv, Connect
<1> QED
  BY <1>1, <1>2, LobbyFacts, ThreadFacts, OnlySeeks DEF Connect

LEMMA DropKeeps ==
  ASSUME LobbyInv, NEW c \in Clients, Drop(c)
  PROVE  LobbyInv'
<1>1. Inert(c, <<[do |-> "detach"]>>) /\ Work(c, <<[do |-> "detach"]>>)
  BY LobbyFacts, InertKinds DEF Drop, Work
<1>2. SocketsInv'
  BY LobbyFacts DEF SocketsInv, Drop
<1> QED
  BY <1>1, <1>2, LobbyFacts, ThreadFacts, OnlySeeks DEF Drop

LEMMA UnregisterKeeps ==
  ASSUME LobbyInv, NEW c \in Clients, Unregister(c)
  PROVE  LobbyInv'
<1>1. SocketsInv'
  BY LobbyFacts DEF SocketsInv, Unregister
<1>2. BoardInv' /\ byID' \subseteq byID
  BY StillBoard DEF Unregister
<1>3. SeatsInv' /\ FewerEscrows(sessions, sessions')
  BY LobbyFacts, StillSeats DEF Unregister
<1> QED
  BY <1>1, <1>2, <1>3, AgendaAlone DEF Unregister

LEMMA DrainKeeps ==
  ASSUME LobbyInv, BeginUpdateDrain \/ CancelUpdateDrain
  PROVE  LobbyInv'
<1>1. CASE BeginUpdateDrain
  <2>1. Inert(Deployer, <<[do |-> "sweep"]>>) /\ Work(Deployer, <<[do |-> "sweep"]>>)
    BY <1>1, LobbyFacts, InertKinds DEF BeginUpdateDrain, Work
  <2>2. SocketsInv'
    BY <1>1, LobbyFacts DEF SocketsInv, BeginUpdateDrain
  <2> QED
    BY <1>1, <2>1, <2>2, LobbyFacts, ThreadFacts, OnlySeeks DEF BeginUpdateDrain
<1>2. CASE CancelUpdateDrain
  <2>1. SocketsInv'
    BY <1>2, LobbyFacts DEF SocketsInv, CancelUpdateDrain
  <2>2. UNCHANGED <<seeks, agenda, byID, byOwner, sessions, participants>>
    BY <1>2 DEF CancelUpdateDrain
  <2>3. SeatsInv' /\ FewerEscrows(sessions, sessions')
    BY <2>2, LobbyFacts, StillSeats
  <2>4. BoardInv' /\ byID' \subseteq byID
    BY <2>2, StillBoard
  <2> QED
    BY <2>1, <2>2, <2>3, <2>4, AgendaAlone
<1> QED
  BY <1>1, <1>2

\* Who waits behind a seek waits behind one that was made, and is theirs.
LEMMA WaitsAreMade ==
  ASSUME LobbyInv, NEW o \in Owners, byOwner[o] # None
  PROVE  /\ byOwner[o] \in byID /\ byOwner[o] \in SeekIDs
         /\ MadeIn(byOwner[o], seeks) /\ byOwner[o][2] \in DOMAIN seeks
<1>1. byOwner[o] \in byID
  BY LobbyFacts DEF BoardInv, OneWaitEach
<1> QED
  BY <1>1, LobbyFacts DEF SeeksInv, MadeIn

LEMMA RebindKeeps ==
  ASSUME LobbyInv, NEW c \in Clients, Rebind(c)
  PROVE  LobbyInv'
<1> DEFINE s == byOwner[Owner[c]]
           seek == [seeks[s[2]] EXCEPT !.client = c, !.timed = FALSE]
<1>1. Work(c, <<>>)
  BY DEF Rebind, At, Work
<1>2. Grows(seeks, seeks') /\ Len(seeks') = Len(seeks)
  <2>1. CASE s = None
    BY <2>1, LobbyFacts DEF Rebind
  <2>2. CASE s # None
    <3>1. s[2] \in DOMAIN seeks /\ seeks[s[2]] \in SeekRecords
      BY <2>2, LobbyFacts, WaitsAreMade
    <3>2. seeks' = [seeks EXCEPT ![s[2]] = seek]
      BY <2>2, <3>1 DEF Rebind
    <3>3. /\ seek \in SeekRecords /\ seek.owner = seeks[s[2]].owner
          /\ seek.target = seeks[s[2]].target /\ seek.setup = seeks[s[2]].setup
      BY <3>1 DEF SeekRecords
    <3> HIDE DEF seek, s
    <3> QED
      BY <3>1, <3>2, <3>3, LobbyFacts, OneSeekGrows
  <2> QED
    BY <2>1, <2>2
<1>3. SocketsInv'
  BY StillSockets DEF Rebind
<1> QED
  BY <1>1, <1>2, <1>3, InertNone, ThreadFacts, OnlySeeks DEF Rebind

LEMMA DetachKeeps ==
  ASSUME LobbyInv, NEW c \in Clients, Detach(c)
  PROVE  LobbyInv'
<1> DEFINE s == byOwner[Owner[c]]
           seek == [seeks[s[2]] EXCEPT !.client = None]
<1>0. SocketsInv' /\ UNCHANGED <<byID, byOwner, sessions, participants>>
  BY StillSockets DEF Detach
<1>1. CASE s # None /\ TheSeek(s).client = c
  <2>1. s[2] \in DOMAIN seeks /\ seeks[s[2]] \in SeekRecords /\ s \in SeekIDs /\ MadeIn(s, seeks)
    BY <1>1, LobbyFacts, WaitsAreMade
  <2>2. seeks' = [seeks EXCEPT ![s[2]] = seek]
    BY <1>1, <2>1 DEF Detach
  <2>3. /\ seek \in SeekRecords /\ seek.owner = seeks[s[2]].owner
        /\ seek.target = seeks[s[2]].target /\ seek.setup = seeks[s[2]].setup
    BY <2>1 DEF SeekRecords
  <2>4. Work(c, <<[do |-> "shelter", seek |-> s]>>)
    BY <1>1 DEF Detach, At, Work
  <2> HIDE DEF seek, s
  <2>5. Grows(seeks, seeks') /\ Len(seeks') = Len(seeks)
    BY <2>1, <2>2, <2>3, LobbyFacts, OneSeekGrows
  <2>6. Inert(c, <<[do |-> "shelter", seek |-> s]>>)
    BY <2>1, LobbyFacts, InertKinds
  <2> QED
    BY <1>0, <2>4, <2>5, <2>6, ThreadFacts, OnlySeeks
<1>2. CASE ~(s # None /\ TheSeek(s).client = c)
  <2>1. Work(c, <<>>) /\ UNCHANGED seeks
    BY <1>2 DEF Detach, At, Work
  <2> QED
    BY <1>0, <2>1, InertNone, LobbyFacts, ThreadFacts, OnlySeeks
<1> QED
  BY <1>1, <1>2

LEMMA ShelterKeeps ==
  ASSUME LobbyInv, NEW c \in Clients, Shelter(c)
  PROVE  LobbyInv'
<1> DEFINE s == Step(c).seek
<1>1. Work(c, <<>>) /\ SocketsInv' /\ UNCHANGED <<conn, sessions, participants, updating>>
  BY StillSockets DEF Shelter, At, Work
<1>2. s[2] \in DOMAIN seeks /\ seeks[s[2]] \in SeekRecords
  <2>1. c \in Threads /\ ~Idle(c) /\ Step(c).do = "shelter"
    BY ThreadFacts DEF Shelter, At, Step
  <2>2. MadeIn(s, seeks)
    BY <2>1, HeadIsSound DEF StepSound, OfASeek
  <2> QED
    BY <2>2, LobbyFacts DEF MadeIn
<1>3. ASSUME NEW seek \in SeekRecords, seeks' = [seeks EXCEPT ![s[2]] = seek],
             seek.owner = seeks[s[2]].owner, seek.target = seeks[s[2]].target,
             seek.setup = seeks[s[2]].setup, UNCHANGED <<byID, byOwner>>
      PROVE  LobbyInv'
  <2>1. Grows(seeks, seeks') /\ Len(seeks') = Len(seeks)
    BY <1>2, <1>3, LobbyFacts, OneSeekGrows
  <2> QED
    BY <1>1, <1>3, <2>1, InertNone, ThreadFacts, OnlySeeks
<1>4. CASE /\ \E d \in Clients : seeks' = [seeks EXCEPT ![s[2]].client = d]
           /\ UNCHANGED <<byID, byOwner>>
  <2>1. PICK d \in Clients : seeks' = [seeks EXCEPT ![s[2]].client = d]
    BY <1>4
  <2> DEFINE seek == [seeks[s[2]] EXCEPT !.client = d]
  <2>2. seeks' = [seeks EXCEPT ![s[2]] = seek]
    BY <2>1, <1>2
  <2>3. /\ seek \in SeekRecords /\ seek.owner = seeks[s[2]].owner
        /\ seek.target = seeks[s[2]].target /\ seek.setup = seeks[s[2]].setup
    BY <1>2 DEF SeekRecords
  <2> HIDE DEF seek
  <2> QED
    BY <1>3, <1>4, <2>2, <2>3
<1>5. CASE seeks' = [seeks EXCEPT ![s[2]].timed = TRUE] /\ UNCHANGED <<byID, byOwner>>
  <2> DEFINE seek == [seeks[s[2]] EXCEPT !.timed = TRUE]
  <2>2. seeks' = [seeks EXCEPT ![s[2]] = seek]
    BY <1>5, <1>2
  <2>3. /\ seek \in SeekRecords /\ seek.owner = seeks[s[2]].owner
        /\ seek.target = seeks[s[2]].target /\ seek.setup = seeks[s[2]].setup
    BY <1>2 DEF SeekRecords
  <2> HIDE DEF seek
  <2> QED
    BY <1>3, <1>5, <2>2, <2>3
<1>6. CASE Claim(s) /\ UNCHANGED seeks
  BY <1>1, <1>6, InertNone, ThreadFacts, OnlyTakenOff DEF Claim
<1> HIDE DEF s
<1>7. \/ (\E d \in Clients : seeks' = [seeks EXCEPT ![s[2]].client = d]) /\ UNCHANGED <<byID, byOwner>>
      \/ seeks' = [seeks EXCEPT ![s[2]].timed = TRUE] /\ UNCHANGED <<byID, byOwner>>
      \/ Claim(s) /\ UNCHANGED seeks
  BY DEF Shelter, s
<1> QED
  BY <1>4, <1>5, <1>6, <1>7

LEMMA UnseatKeeps ==
  ASSUME LobbyInv, NEW c \in Clients, Unseat(c)
  PROVE  LobbyInv'
<1>1. SocketsInv'
  BY LobbyFacts DEF SocketsInv, Unseat
<1>2. BoardInv' /\ byID' \subseteq byID
  BY StillBoard DEF Unseat
<1>3. SeatsInv' /\ FewerEscrows(sessions, sessions')
  BY UnseatKeepsSeats
<1> QED
  BY <1>1, <1>2, <1>3, AgendaAlone DEF Unseat

\* What a step is handed about a game is about a game that was opened.
LEMMA HeadIsOfAGame ==
  ASSUME LobbyInv, NEW t \in Threads, ~Idle(t)
  PROVE  /\ Step(t).do \in OfASession =>
              Step(t).session \in DOMAIN sessions /\ sessions[Step(t).session] \in SessionRecords
         /\ Step(t).do \in {"move", "resign"} =>
              /\ Step(t).seat.session \in DOMAIN sessions
              /\ sessions[Step(t).seat.session] \in SessionRecords
              /\ Step(t).seat.color \in Colors
<1>1. StepSound(t, Step(t), seeks, Len(sessions)) /\ Step(t) \in Steps
  BY HeadIsSound
<1>2. Step(t).do \in {"move", "resign"} => Step(t).seat \in Places
  BY <1>1, StepFields
<1> QED
  BY <1>1, <1>2, LobbyFacts DEF StepSound, Places

LEMMA DiscardKeeps ==
  ASSUME LobbyInv, NEW t \in Threads, Discard(t) \/ Retire(t)
  PROVE  LobbyInv'
<1>1. /\ ~Idle(t) /\ Step(t).do \in OfASession
      /\ Unlisted(Step(t).session) /\ Then(t, <<>>)
      /\ UNCHANGED <<conn, seeks, byID, byOwner, updating>>
  BY DEF Discard, Retire, At, Step, OfASession
<1>2. Work(t, <<>>)
  BY <1>1 DEF Work
<1>3. Step(t).session \in DOMAIN sessions
  BY <1>1, HeadIsOfAGame
<1> QED
  BY <1>1, <1>2, <1>3, InertNone, UnlistedKeepsSeats, OnlyGames

\* One game changes hands of no seek, and its thread goes on or starts.
LEMMA OneGameKeeps ==
  ASSUME LobbyInv, NEW t \in Threads, NEW steps, Inert(t, steps), Work(t, steps),
         NEW g \in DOMAIN sessions, NEW game \in SessionRecords,
         sessions' = [sessions EXCEPT ![g] = game],
         game.seats = sessions[g].seats, game.socket = sessions[g].socket,
         game.absent = sessions[g].absent, game.listed = sessions[g].listed,
         game.escrow # "none" => sessions[g].escrow # "none",
         UNCHANGED <<conn, seeks, byID, byOwner, participants, updating>>
  PROVE  LobbyInv'
<1>1. Touched(sessions, sessions')
  BY LobbyFacts, OneGameTouched
<1>2. SeatsInv' /\ FewerEscrows(sessions, sessions')
  BY <1>1, LobbyFacts, TouchedSeats
<1> QED
  BY <1>2, OnlyGames

LEMMA AbortKeeps ==
  ASSUME LobbyInv, NEW c \in Clients, Abort(c)
  PROVE  LobbyInv'
<1> DEFINE p == participants[c]
           game == [sessions[p.session] EXCEPT !.escrow = "claimed"]
<1>1. p \in Places /\ p.session \in 1..Len(sessions) /\ p.color \in Colors
  BY PlacesAreOpened DEF Abort
<1>2. p.session \in DOMAIN sessions /\ sessions[p.session] \in SessionRecords
  BY <1>1, LobbyFacts
<1>3. /\ sessions' = [sessions EXCEPT ![p.session] = game]
      /\ sessions[p.session].escrow = "held"
  BY <1>2 DEF Abort
<1>4. /\ game \in SessionRecords
      /\ game.seats = sessions[p.session].seats /\ game.socket = sessions[p.session].socket
      /\ game.absent = sessions[p.session].absent /\ game.listed = sessions[p.session].listed
  BY <1>2 DEF SessionRecords
<1>5. Work(c, <<CallOff(p.session, p.color)>>)
  BY DEF Abort, Work
<1>6. UNCHANGED <<conn, seeks, byID, byOwner, participants, updating>>
  BY DEF Abort
<1> HIDE DEF game, p
<1>7. Inert(c, <<CallOff(p.session, p.color)>>)
  BY <1>1, LobbyFacts, InertKinds
<1>8. game.escrow # "none" => sessions[p.session].escrow # "none"
  BY <1>3
<1> QED
  BY <1>2, <1>3, <1>4, <1>5, <1>6, <1>7, <1>8, ThreadFacts, OneGameKeeps

LEMMA CallOffsAreInert ==
  ASSUME LobbyInv, NEW t, NEW S \in SUBSET DOMAIN sessions, NEW order \in Orders(S)
  PROVE  Inert(t, CallOffs(order))
<1>1. order \in [1..Cardinality(S) -> S] /\ Cardinality(S) \in Nat
  <2>1. IsFiniteSet(1..Len(sessions))
    BY LobbyFacts, FS_Interval
  <2>2. IsFiniteSet(S)
    BY <2>1, LobbyFacts, FS_Subset
  <2> QED
    BY <2>2, FS_CardinalityType DEF Orders
<1>2. \A i \in 1..Cardinality(S) : order[i] \in 1..Len(sessions)
  BY <1>1, LobbyFacts
<1>3. ASSUME NEW g \in 1..Len(sessions)
      PROVE  /\ CallOff(g, "mover") \in Steps /\ CallOff(g, "mover").do \in Idler
             /\ StepSound(t, CallOff(g, "mover"), seeks, Len(sessions))
  <2>1. g \in Nat
    BY LobbyFacts
  <2> QED
    BY <2>1 DEF CallOff, Steps, Idler, StepSound, OfASeek, Seatings, OfASession
<1> DEFINE n == Cardinality(S)
           off(i) == CallOff(order[i], "mover")
<1>4. CallOffs(order) = [i \in 1..n |-> off(i)]
  BY <1>1 DEF CallOffs
<1>5. \A i \in 1..n : /\ off(i) \in Steps /\ off(i).do \in Idler
                      /\ StepSound(t, off(i), seeks, Len(sessions))
  BY <1>2, <1>3
<1> HIDE DEF n, off
<1>6. /\ CallOffs(order) \in Seq(Steps) /\ Len(CallOffs(order)) = n
      /\ \A i \in 1..n : CallOffs(order)[i] = off(i)
  BY <1>1, <1>4, <1>5 DEF n
<1> QED
  BY <1>5, <1>6 DEF Inert

LEMMA CollectedKeeps ==
  ASSUME LobbyInv, NEW t \in Threads, NEW S \in SUBSET Unbegun, NEW order \in Orders(S),
         sessions' = Collected(S), Work(t, CallOffs(order)),
         UNCHANGED <<conn, seeks, byID, byOwner, participants, updating>>
  PROVE  LobbyInv'
<1> DEFINE game(g) == IF g \in S THEN [sessions[g] EXCEPT !.escrow = "claimed"] ELSE sessions[g]
<1>1. S \in SUBSET DOMAIN sessions /\ \A g \in S : sessions[g].escrow = "held"
  BY DEF Unbegun
<1>2. ASSUME NEW g \in 1..Len(sessions)
      PROVE  /\ game(g) \in SessionRecords
             /\ game(g).seats = sessions[g].seats /\ game(g).socket = sessions[g].socket
             /\ game(g).absent = sessions[g].absent /\ game(g).listed = sessions[g].listed
             /\ game(g).escrow # "none" => sessions[g].escrow # "none"
  <2>1. sessions[g] \in SessionRecords
    BY LobbyFacts
  <2>2. CASE g \in S
    BY <2>1, <2>2, <1>1 DEF SessionRecords
  <2>3. CASE g \notin S
    BY <2>1, <2>3
  <2> QED
    BY <2>2, <2>3
<1>3. sessions' = [g \in 1..Len(sessions) |-> game(g)]
  BY LobbyFacts DEF Collected
<1> HIDE DEF game
<1>4. /\ sessions' \in Seq(SessionRecords) /\ Len(sessions') = Len(sessions)
      /\ \A g \in 1..Len(sessions) : sessions'[g] = game(g)
  BY <1>2, <1>3, LobbyFacts
<1>5. Touched(sessions, sessions')
  BY <1>2, <1>4 DEF Touched
<1>6. SeatsInv' /\ FewerEscrows(sessions, sessions')
  BY <1>5, LobbyFacts, TouchedSeats
<1> QED
  BY <1>1, <1>6, CallOffsAreInert, OnlyGames

LEMMA SweepsKeep ==
  ASSUME LobbyInv, SweepUnstarted \/ DrainSweep
  PROVE  LobbyInv'
<1>1. CASE SweepUnstarted
  <2>1. PICK S \in SUBSET Unbegun :
          sessions' = Collected(S) /\ \E order \in Orders(S) : Begin(Sweeper, CallOffs(order))
    BY <1>1 DEF SweepUnstarted
  <2>2. PICK order \in Orders(S) : Begin(Sweeper, CallOffs(order))
    BY <2>1
  <2>3. Work(Sweeper, CallOffs(order))
    BY <2>2 DEF Work
  <2> QED
    BY <1>1, <2>1, <2>3, ThreadFacts, CollectedKeeps DEF SweepUnstarted
<1>2. CASE DrainSweep
  <2>1. PICK order \in Orders(Unbegun) : Then(Deployer, CallOffs(order))
    BY <1>2 DEF DrainSweep
  <2>2. Work(Deployer, CallOffs(order))
    BY <1>2, <2>1 DEF Work, DrainSweep, At
  <2> QED
    BY <1>2, <2>2, ThreadFacts, CollectedKeeps DEF DrainSweep
<1> QED
  BY <1>1, <1>2

LEMMA InertBoth ==
  ASSUME NEW t, NEW first, NEW next, Inert(t, first), Inert(t, next)
  PROVE  Inert(t, first \o next)
<1>1. first \in Seq(Steps) /\ next \in Seq(Steps)
  BY DEF Inert
<1>2. /\ first \o next \in Seq(Steps) /\ Len(first \o next) = Len(first) + Len(next)
      /\ \A i \in 1..Len(first) + Len(next) :
           (first \o next)[i] = IF i <= Len(first) THEN first[i] ELSE next[i - Len(first)]
  BY <1>1, ConcatProperties
<1>3. ASSUME NEW i \in 1..Len(first \o next)
      PROVE  /\ (first \o next)[i].do \in Idler
             /\ StepSound(t, (first \o next)[i], seeks, Len(sessions))
  <2>1. /\ Len(first) \in Nat /\ Len(next) \in Nat
    BY <1>1, LenProperties
  <2>2. CASE i <= Len(first)
    <3>1. i \in 1..Len(first) /\ (first \o next)[i] = first[i]
      BY <1>2, <2>1, <2>2
    <3> QED
      BY <3>1 DEF Inert
  <2>3. CASE ~(i <= Len(first))
    <3>1. i - Len(first) \in 1..Len(next) /\ (first \o next)[i] = next[i - Len(first)]
      BY <1>2, <2>1, <2>3
    <3> QED
      BY <3>1 DEF Inert
  <2> QED
    BY <2>2, <2>3
<1> QED
  BY <1>2, <1>3 DEF Inert

LEMMA FinishIsInert ==
  ASSUME LobbyInv, NEW t, NEW g \in DOMAIN sessions
  PROVE  Inert(t, <<Finish(g)>>)
  BY LobbyFacts, InertKinds DEF Finish, OfASession

LEMMA PlayMoveKeeps ==
  ASSUME LobbyInv, NEW c \in Clients, PlayMove(c)
  PROVE  LobbyInv'
<1> DEFINE g == Step(c).seat.session
           color == Step(c).seat.color
<1>0. /\ c \in Threads /\ ~Idle(c) /\ Step(c).do = "move"
      /\ UNCHANGED <<conn, seeks, byID, byOwner, participants, updating>>
  BY ThreadFacts DEF PlayMove, At, Step
<1>1. g \in DOMAIN sessions /\ sessions[g] \in SessionRecords /\ color \in Colors
  BY <1>0, HeadIsOfAGame
<1>2. \/ Then(c, <<Finish(g)>>) /\ UNCHANGED sessions
      \/ Then(c, <<>>) /\ UNCHANGED sessions
      \/ \E over \in BOOLEAN :
           /\ sessions' = [sessions EXCEPT ![g].moved = TRUE,
                             ![g].turn = IF over THEN @ ELSE OtherColor(@),
                             ![g].end = IF over THEN "move" ELSE @]
           /\ Then(c, <<[do |-> "began", session |-> g]>>
                        \o IF over THEN <<Finish(g)>> ELSE <<>>)
  BY DEF PlayMove
<1> HIDE DEF g, color
<1>3. CASE Then(c, <<Finish(g)>>) /\ UNCHANGED sessions
  BY <1>0, <1>1, <1>3, FinishIsInert, OnlyWork DEF Work
<1>4. CASE Then(c, <<>>) /\ UNCHANGED sessions
  BY <1>0, <1>4, InertNone, OnlyWork DEF Work
<1>5. ASSUME NEW over \in BOOLEAN,
             sessions' = [sessions EXCEPT ![g].moved = TRUE,
                            ![g].turn = IF over THEN @ ELSE OtherColor(@),
                            ![g].end = IF over THEN "move" ELSE @],
             Then(c, <<[do |-> "began", session |-> g]>>
                       \o IF over THEN <<Finish(g)>> ELSE <<>>)
      PROVE  LobbyInv'
  <2> DEFINE turn == IF over THEN sessions[g].turn ELSE OtherColor(sessions[g].turn)
             end == IF over THEN "move" ELSE sessions[g].end
             game == [sessions[g] EXCEPT !.moved = TRUE, !.turn = turn, !.end = end]
             rest == IF over THEN <<Finish(g)>> ELSE <<>>
             steps == <<[do |-> "began", session |-> g]>> \o rest
  <2>1. sessions' = [sessions EXCEPT ![g] = game]
    BY <1>5, <1>1
  <2>2. turn \in Colors /\ end \in {"none", "move", "resign", "clock", "abandon"}
    BY <1>1, ColorFacts DEF SessionRecords
  <2> HIDE DEF turn, end
  <2>3. /\ game \in SessionRecords
        /\ game.seats = sessions[g].seats /\ game.socket = sessions[g].socket
        /\ game.absent = sessions[g].absent /\ game.listed = sessions[g].listed
        /\ game.escrow = sessions[g].escrow
    BY <1>1, <2>2 DEF SessionRecords
  <2>4. Inert(c, <<[do |-> "began", session |-> g]>>)
    BY <1>1, LobbyFacts, InertKinds DEF OfASession
  <2>5. Inert(c, rest)
    BY <1>1, FinishIsInert, InertNone
  <2>6. Then(c, steps)
    BY <1>5
  <2> HIDE DEF rest, game
  <2>7. Inert(c, steps)
    BY <2>4, <2>5, InertBoth
  <2>8. Work(c, steps)
    BY <2>6, <1>0 DEF Work
  <2> HIDE DEF steps
  <2> QED
    BY <2>1, <2>3, <2>7, <2>8, <1>0, <1>1, OneGameKeeps
<1> QED
  BY <1>2, <1>3, <1>4, <1>5

LEMMA MatchBeganKeeps ==
  ASSUME LobbyInv, NEW c \in Clients, MatchBegan(c)
  PROVE  LobbyInv'
<1> DEFINE g == Step(c).session
           game == [sessions[g] EXCEPT !.escrow = "none"]
<1>0. /\ c \in Threads /\ ~Idle(c) /\ Step(c).do = "began"
      /\ UNCHANGED <<conn, seeks, byID, byOwner, participants, updating>>
  BY ThreadFacts DEF MatchBegan, At, Step
<1>1. g \in DOMAIN sessions /\ sessions[g] \in SessionRecords
  BY <1>0, HeadIsOfAGame DEF OfASession
<1>2. sessions' = [sessions EXCEPT ![g] = game] /\ Work(c, <<>>)
  BY <1>0, <1>1 DEF MatchBegan, Work
<1>3. /\ game \in SessionRecords
      /\ game.seats = sessions[g].seats /\ game.socket = sessions[g].socket
      /\ game.absent = sessions[g].absent /\ game.listed = sessions[g].listed
      /\ game.escrow = "none"
  BY <1>1 DEF SessionRecords
<1> HIDE DEF game, g
<1> QED
  BY <1>0, <1>1, <1>2, <1>3, InertNone, OneGameKeeps

LEMMA EndsGameKeeps ==
  ASSUME LobbyInv, NEW t \in Threads, ~Idle(t), NEW g \in DOMAIN sessions,
         NEW how \in {"resign", "abandon"}, EndsGame(t, g, how),
         UNCHANGED <<conn, seeks, byID, byOwner, participants, updating>>
  PROVE  LobbyInv'
<1> DEFINE game == [sessions[g] EXCEPT !.end = how]
<1>1. sessions[g] \in SessionRecords
  BY LobbyFacts
<1>2. CASE Over(g)
  BY <1>2, InertNone, OnlyWork DEF EndsGame, Work
<1>3. CASE ~Over(g)
  <2>1. sessions' = [sessions EXCEPT ![g] = game] /\ Work(t, <<Finish(g)>>)
    BY <1>1, <1>3 DEF EndsGame, Work
  <2>2. /\ game \in SessionRecords
        /\ game.seats = sessions[g].seats /\ game.socket = sessions[g].socket
        /\ game.absent = sessions[g].absent /\ game.listed = sessions[g].listed
        /\ game.escrow = sessions[g].escrow
    BY <1>1 DEF SessionRecords
  <2> HIDE DEF game
  <2> QED
    BY <2>1, <2>2, FinishIsInert, OneGameKeeps
<1> QED
  BY <1>2, <1>3

LEMMA ResignAndAbandonKeep ==
  ASSUME LobbyInv, NEW t \in Threads, PlayResign(t) \/ AbandonGame(t)
  PROVE  LobbyInv'
<1>0. UNCHANGED <<conn, seeks, byID, byOwner, participants, updating>>
  BY DEF PlayResign, AbandonGame
<1>1. CASE PlayResign(t)
  <2>1. ~Idle(t) /\ Step(t).do = "resign" /\ EndsGame(t, Step(t).seat.session, "resign")
    BY <1>1 DEF PlayResign, At, Step
  <2>2. Step(t).seat.session \in DOMAIN sessions
    BY <2>1, HeadIsOfAGame
  <2> QED
    BY <1>0, <2>1, <2>2, EndsGameKeeps
<1>2. CASE AbandonGame(t)
  <2>1. ~Idle(t) /\ Step(t).do = "abandon" /\ EndsGame(t, Step(t).session, "abandon")
    BY <1>2 DEF AbandonGame, At, Step
  <2>2. Step(t).session \in DOMAIN sessions
    BY <2>1, HeadIsOfAGame DEF OfASession
  <2> QED
    BY <1>0, <2>1, <2>2, EndsGameKeeps
<1> QED
  BY <1>1, <1>2

LEMMA FinishSessionKeeps ==
  ASSUME LobbyInv, NEW t \in Threads, FinishSession(t)
  PROVE  LobbyInv'
<1> DEFINE g == Step(t).session
           game == [sessions[g] EXCEPT !.recorded = TRUE]
           steps == <<[do |-> "retire", session |-> g]>>
<1>0. /\ ~Idle(t) /\ Step(t).do = "finish"
      /\ UNCHANGED <<conn, seeks, byID, byOwner, participants, updating>>
  BY DEF FinishSession, At, Step
<1>1. g \in DOMAIN sessions /\ sessions[g] \in SessionRecords
  BY <1>0, HeadIsOfAGame DEF OfASession
<1>2. CASE sessions[g].recorded
  BY <1>0, <1>2, InertNone, OnlyWork DEF FinishSession, Work
<1>3. CASE ~sessions[g].recorded
  <2>1. sessions' = [sessions EXCEPT ![g] = game] /\ Work(t, steps)
    BY <1>0, <1>1, <1>3 DEF FinishSession, Work
  <2>2. /\ game \in SessionRecords
        /\ game.seats = sessions[g].seats /\ game.socket = sessions[g].socket
        /\ game.absent = sessions[g].absent /\ game.listed = sessions[g].listed
        /\ game.escrow = sessions[g].escrow
    BY <1>1 DEF SessionRecords
  <2>3. Inert(t, steps)
    BY <1>1, LobbyFacts, InertKinds DEF OfASession
  <2> HIDE DEF game, g, steps
  <2> QED
    BY <1>0, <1>1, <2>1, <2>2, <2>3, OneGameKeeps
<1> QED
  BY <1>2, <1>3

LEMMA ClockEndsKeeps ==
  ASSUME LobbyInv, NEW g, ClockEnds(g)
  PROVE  LobbyInv'
<1> DEFINE end == IF sessions[g].end = "none" THEN "clock" ELSE sessions[g].end
           game == [sessions[g] EXCEPT !.end = end]
<1>1. g \in DOMAIN sessions /\ sessions[g] \in SessionRecords
  BY LobbyFacts DEF ClockEnds
<1>2. sessions' = [sessions EXCEPT ![g] = game] /\ Work(Sweeper, <<Finish(g)>>)
  BY <1>1 DEF ClockEnds, Work
<1>3. end \in {"none", "move", "resign", "clock", "abandon"}
  BY <1>1 DEF SessionRecords
<1> HIDE DEF end
<1>4. /\ game \in SessionRecords
      /\ game.seats = sessions[g].seats /\ game.socket = sessions[g].socket
      /\ game.absent = sessions[g].absent /\ game.listed = sessions[g].listed
      /\ game.escrow = sessions[g].escrow
  BY <1>1, <1>3 DEF SessionRecords
<1>5. /\ UNCHANGED <<conn, seeks, byID, byOwner, participants, updating>>
      /\ Sweeper \in Threads /\ Inert(Sweeper, <<Finish(g)>>)
  BY <1>1, ThreadFacts, FinishIsInert DEF ClockEnds
<1> HIDE DEF game
<1> QED
  BY <1>1, <1>2, <1>4, <1>5, OneGameKeeps

LEMMA RejoinGameKeeps ==
  ASSUME LobbyInv, NEW c \in Clients, RejoinGame(c)
  PROVE  LobbyInv'
<1>0. UNCHANGED <<conn, seeks, byID, byOwner, updating>> /\ c \in Threads
  BY ThreadFacts DEF RejoinGame
<1>1. PICK g \in DOMAIN sessions, color \in Colors :
        /\ Live(g)
        /\ \/ Begin(c, <<Finish(g)>>) /\ UNCHANGED <<sessions, participants>>
           \/ /\ Begin(c, <<[do |-> "abandon", session |-> g]>>)
              /\ UNCHANGED <<sessions, participants>>
           \/ /\ sessions' = Reseated(g, color, c)
              /\ participants' = [d \in Clients |->
                   IF d = c THEN [session |-> g, color |-> color]
                   ELSE IF d = sessions[g].socket[color] THEN None ELSE participants[d]]
              /\ UNCHANGED agenda
  BY DEF RejoinGame
<1>2. CASE Begin(c, <<Finish(g)>>) /\ UNCHANGED <<sessions, participants>>
  BY <1>0, <1>2, FinishIsInert, OnlyWork DEF Work
<1>3. CASE /\ Begin(c, <<[do |-> "abandon", session |-> g]>>)
           /\ UNCHANGED <<sessions, participants>>
  <2> DEFINE steps == <<[do |-> "abandon", session |-> g]>>
  <2>1. Inert(c, steps) /\ Work(c, steps)
    BY <1>3, LobbyFacts, InertKinds DEF OfASession, Work
  <2> HIDE DEF steps
  <2> QED
    BY <1>0, <1>3, <2>1, OnlyWork
<1>4. CASE /\ sessions' = Reseated(g, color, c)
           /\ participants' = [d \in Clients |->
                IF d = c THEN [session |-> g, color |-> color]
                ELSE IF d = sessions[g].socket[color] THEN None ELSE participants[d]]
           /\ UNCHANGED agenda
  <2>1. SeatsInv' /\ FewerEscrows(sessions, sessions')
    BY <1>0, <1>1, <1>4, ReseatedKeepsSeats
  <2>2. BoardInv' /\ byID' \subseteq byID /\ SocketsInv'
    BY <1>0, StillBoard, StillSockets
  <2> QED
    BY <1>0, <1>4, <2>1, <2>2, AgendaAlone
<1> QED
  BY <1>1, <1>2, <1>3, <1>4

-----------------------------------------------------------------------------
(* Actions that make a seek or hand one on.                                *)

CarriedIn(s, steps) == \E i \in 1..Len(steps) : Carries(steps[i], s)

\* Who holds a seek once thread t has put these steps where its first was.
HeldThen(s, t, steps) ==
  CarriedIn(s, steps) \/ (InSomeHand(s, agenda) /\ ~Carries(Step(t), s))

LEMMA MovingStep ==
  ASSUME LobbyInv, NEW t \in Threads, ~Idle(t), NEW steps \in Seq(Steps), Then(t, steps),
         Grows(seeks, seeks'),
         \/ Len(seeks') = Len(seeks)
         \/ Len(seeks') = Len(seeks) + 1 /\ Step(t).do \in Making,
         SeatsInv', Len(sessions) <= Len(sessions'),
         \A i \in 1..Len(steps) :
           steps[i].do \notin Making /\ StepSound(t, steps[i], seeks', Len(sessions')),
         BoardInv', \A s \in byID' : MadeIn(s, seeks'), SocketsInv',
         \A s \in SeekIDs :
           /\ \A i, j \in 1..Len(steps) : Carries(steps[i], s) /\ Carries(steps[j], s) => i = j
           /\ CarriedIn(s, steps) => Carries(Step(t), s) \/ ~InSomeHand(s, agenda)
           /\ OneEscrow(s, sessions')
           /\ s \in byID' => ~HeldThen(s, t, steps) /\ ~InSomeEscrow(s, sessions')
           /\ ~(HeldThen(s, t, steps) /\ InSomeEscrow(s, sessions'))
  PROVE  LobbyInv'
<1>1. AgendaInv'
  <2>1. Len(sessions') \in Nat
    BY LenProperties DEF SeatsInv
  <2>2. Sound(t, steps, seeks', Len(sessions'))
    BY DEF Sound
  <2> QED
    BY <2>1, <2>2, LobbyFacts, GoesOn
<1>2. ASSUME NEW s \in SeekIDs
      PROVE  InOnePlace(s, byID', agenda', sessions')
  <2>1. OneHand(s, agenda)
    BY LobbyFacts DEF PlacesInv, InOnePlace
  <2>2. OneHand(s, agenda') /\ (InSomeHand(s, agenda') => HeldThen(s, t, steps))
    BY <2>1, LobbyFacts, HandsOn DEF CarriedIn, HeldThen
  <2> QED
    BY <2>2 DEF InOnePlace
<1>3. SeeksInv'
  BY DEF SeeksInv, Grows
<1> QED
  BY <1>1, <1>2, <1>3 DEF LobbyInv, PlacesInv

\* A thread about to make a seek still has a number for it.
LEMMA NumbersLeft ==
  ASSUME LobbyInv, NEW c \in Clients, ~Idle(c), Step(c).do \in Making
  PROVE  /\ Len(seeks) + 1 \in 1..MaxSeeks
         /\ <<Owner[c], Len(seeks) + 1>> \in SeekIDs
<1>1. <<c, 1>> \in StepsOf(Making)
  BY HeadIsSound, ThreadFacts, MakingSteps
<1>2. IsFiniteSet(StepsOf(Making)) /\ Cardinality(StepsOf(Making)) \in Nat
  BY LobbyFacts, MakersAreFew
<1>3. Cardinality(StepsOf(Making)) # 0
  BY <1>1, <1>2, FS_EmptySet
<1>4. Len(seeks) + Cardinality(StepsOf(Making)) <= MaxSeeks
  BY LobbyFacts DEF AgendaInv
<1>5. Len(seeks) + 1 \in 1..MaxSeeks
  BY <1>2, <1>3, <1>4, LobbyFacts, BoundAssumption
<1> QED
  BY <1>5, LobbyFacts DEF SeekIDs

\* A seek that has not been made is nowhere.
LEMMA UnmadeIsNowhere ==
  ASSUME LobbyInv, NEW s \in SeekIDs, ~MadeIn(s, seeks)
  PROVE  s \notin byID /\ ~InSomeHand(s, agenda) /\ ~InSomeEscrow(s, sessions)
<1>1. s \notin byID
  BY LobbyFacts DEF SeeksInv
<1>2. ASSUME NEW t \in Threads, NEW i \in DOMAIN agenda[t], Carries(agenda[t][i], s)
      PROVE  FALSE
  <2>1. StepSound(t, agenda[t][i], seeks, Len(sessions))
    BY LobbyFacts DEF AgendaInv
  <2> QED
    BY <2>1, <1>2 DEF StepSound, Carries, OfASeek, Seatings, Seated, SeatsSound
<1>3. ASSUME NEW g \in DOMAIN sessions, Keeps(sessions[g], s)
      PROVE  FALSE
  <2>1. SeatsSound(sessions[g].seats, seeks)
    BY LobbyFacts DEF SeatsInv
  <2> QED
    BY <2>1, <1>3 DEF Keeps, Seated, SeatsSound
<1> QED
  BY <1>1, <1>2, <1>3 DEF InSomeHand, InSomeEscrow

\* Another seek is made, and it is the last.
LEMMA OneMoreSeek ==
  ASSUME LobbyInv, NEW seek \in SeekRecords, seeks' = Append(seeks, seek)
  PROVE  /\ Grows(seeks, seeks') /\ Len(seeks') = Len(seeks) + 1
         /\ DOMAIN seeks' = 1..Len(seeks')
         /\ seeks'[Len(seeks) + 1] = seek
         /\ \A n \in 1..Len(seeks) : seeks'[n] = seeks[n]
         /\ MadeIn(<<seek.owner, Len(seeks) + 1>>, seeks')
         /\ ~MadeIn(<<seek.owner, Len(seeks) + 1>>, seeks)
<1>1. /\ seeks' \in Seq(SeekRecords) /\ Len(seeks') = Len(seeks) + 1
      /\ seeks'[Len(seeks) + 1] = seek
      /\ \A n \in 1..Len(seeks) : seeks'[n] = seeks[n]
  BY LobbyFacts, AppendProperties
<1>2. DOMAIN seeks' = 1..Len(seeks')
  BY <1>1
<1>3. Len(seeks) + 1 \in DOMAIN seeks' /\ Len(seeks) + 1 \notin DOMAIN seeks
  BY <1>1, <1>2, LobbyFacts
<1>4. Grows(seeks, seeks')
  BY <1>1, LobbyFacts DEF Grows
<1>5. /\ MadeIn(<<seek.owner, Len(seeks) + 1>>, seeks')
      /\ ~MadeIn(<<seek.owner, Len(seeks) + 1>>, seeks)
  BY <1>1, <1>3 DEF MadeIn
<1> QED
  BY <1>1, <1>2, <1>4, <1>5

\* A client promises to make a seek.
LEMMA PromiseKeeps ==
  ASSUME LobbyInv, NEW c \in Clients, NEW step \in Steps, step.do \in Making,
         Begin(c, <<step>>), RoomForSeek, StepSound(c, step, seeks, Len(sessions)),
         UNCHANGED <<conn, seeks, byID, byOwner, sessions, participants, updating>>
  PROVE  LobbyInv'
<1>1. AgendaInv'
  BY LobbyFacts, StartsMaking
<1>2. <<step>> \in Seq(Steps) /\ Len(<<step>>) = 1 /\ <<step>>[1] = step
  OBVIOUS
<1>3. \A s : ~Carries(step, s)
  BY DEF Making, Carries
<1>4. ASSUME NEW s \in SeekIDs
      PROVE  InOnePlace(s, byID', agenda', sessions')
  <2>1. InOnePlace(s, byID, agenda, sessions)
    BY LobbyFacts DEF PlacesInv
  <2>2. \A i \in 1..Len(<<step>>) : ~Carries(<<step>>[i], s)
    BY <1>2, <1>3
  <2>3. OneHand(s, agenda') /\ (InSomeHand(s, agenda') => InSomeHand(s, agenda))
    BY <2>1, <2>2, <1>2, LobbyFacts, ThreadFacts, EmptyHandsAtFirst DEF InOnePlace
  <2> QED
    BY <2>1, <2>3 DEF InOnePlace
<1>5. BoardInv' /\ SocketsInv' /\ SeatsInv'
  BY LobbyFacts, StillBoard, StillSockets, StillSeats
<1>6. SeeksInv'
  BY <1>5, LobbyFacts DEF SeeksInv
<1> QED
  BY <1>1, <1>4, <1>5, <1>6 DEF LobbyInv, PlacesInv

LEMMA AskForGameKeeps ==
  ASSUME LobbyInv, NEW c \in Clients, JoinQueue(c) \/ SendChallenge(c)
  PROVE  LobbyInv'
<1>1. PICK target \in Owners \cup {None}, setup \in Setups, fromQueue \in BOOLEAN :
        AskForGame(c, target, setup, fromQueue)
  BY DEF JoinQueue, SendChallenge
<1> DEFINE queued == target = None /\ (fromQueue \/ setup = Standard)
           step == [do |-> "post", target |-> target, setup |-> setup, queued |-> queued]
<1>2. /\ Begin(c, <<step>>) /\ RoomForSeek
      /\ UNCHANGED <<conn, seeks, byID, byOwner, sessions, participants, updating>>
  BY <1>1 DEF AskForGame
<1>3. step \in Steps
  BY DEF Steps
<1>4. step.do = "post"
  OBVIOUS
<1> HIDE DEF step, queued
<1>5. StepSound(c, step, seeks, Len(sessions))
  BY <1>4 DEF StepSound, OfASeek, Seatings, OfASession
<1> QED
  BY <1>2, <1>3, <1>4, <1>5, PromiseKeeps DEF Making

LEMMA AcceptKeeps ==
  ASSUME LobbyInv, NEW c \in Clients, Accept(c)
  PROVE  LobbyInv'
<1>1. /\ RoomForSeek
      /\ UNCHANGED <<conn, seeks, byID, byOwner, sessions, participants, updating>>
  BY DEF Accept
<1>2. PICK s \in byID :
        /\ TheSeek(s).target \in {None, Owner[c]}
        /\ \/ Begin(c, <<[do |-> "dispose", seek |-> s]>>)
           \/ s[1] # Owner[c] /\ Begin(c, <<[do |-> "claim", seek |-> s]>>)
  BY DEF Accept
<1>3. s \in SeekIDs /\ MadeIn(s, seeks)
  BY LobbyFacts DEF SeeksInv
<1>4. CASE Begin(c, <<[do |-> "dispose", seek |-> s]>>)
  <2> DEFINE steps == <<[do |-> "dispose", seek |-> s]>>
  <2>1. Inert(c, steps) /\ Work(c, steps)
    BY <1>3, <1>4, LobbyFacts, InertKinds DEF Work
  <2> HIDE DEF steps
  <2> QED
    BY <1>1, <2>1, ThreadFacts, OnlyWork
<1>5. CASE s[1] # Owner[c] /\ Begin(c, <<[do |-> "claim", seek |-> s]>>)
  <2> DEFINE step == [do |-> "claim", seek |-> s]
  <2>1. step \in Steps /\ step.do = "claim" /\ step.seek = s /\ Begin(c, <<step>>)
    BY <1>3, <1>5 DEF Steps
  <2> HIDE DEF step
  <2>2. StepSound(c, step, seeks, Len(sessions))
    BY <1>2, <1>3, <1>5, <2>1 DEF StepSound, OfASeek, Seatings, OfASession, TheSeek
  <2> QED
    BY <1>1, <2>1, <2>2, PromiseKeeps DEF Making
<1> QED
  BY <1>2, <1>4, <1>5

\* Nothing is on a thread's agenda that it is not handed.
LEMMA NoSteps ==
  /\ <<>> \in Seq(Steps) /\ Len(<<>>) = 0 /\ \A s : ~CarriedIn(s, <<>>)
  /\ \A i \in 1..Len(<<>>) : FALSE
  BY DEF CarriedIn

LEMMA OneStep ==
  ASSUME NEW step \in Steps
  PROVE  /\ <<step>> \in Seq(Steps) /\ Len(<<step>>) = 1 /\ <<step>>[1] = step
         /\ \A i \in 1..Len(<<step>>) : i = 1 /\ <<step>>[i] = step
         /\ \A s : CarriedIn(s, <<step>>) <=> Carries(step, s)
<1>1. <<step>> \in Seq(Steps) /\ Len(<<step>>) = 1 /\ <<step>>[1] = step
  OBVIOUS
<1> QED
  BY <1>1 DEF CarriedIn

LEMMA PostSeekKeeps ==
  ASSUME LobbyInv, NEW c \in Clients, PostSeek(c)
  PROVE  LobbyInv'
<1> DEFINE step == Step(c)
           id == <<Owner[c], Len(seeks) + 1>>
           seek == [owner |-> Owner[c], target |-> step.target, setup |-> step.setup,
                    queued |-> step.queued, client |-> c, timed |-> ~step.queued]
<1>1. /\ c \in Threads /\ ~Idle(c) /\ step.do = "post"
      /\ seeks' = Append(seeks, seek) /\ Post(id) /\ Then(c, <<>>)
      /\ UNCHANGED <<conn, sessions, participants, updating>>
  BY ThreadFacts DEF PostSeek, At, Step
<1>2. seek \in SeekRecords /\ seek.owner = Owner[c]
  <2>1. step \in Steps
    BY <1>1, HeadIsSound
  <2>2. /\ step.target \in Owners \cup {None} /\ step.setup \in Setups /\ step.queued \in BOOLEAN
    BY <1>1, <2>1, StepFields
  <2> QED
    BY <2>2, LobbyFacts DEF SeekRecords
<1>3. id \in SeekIDs
  BY <1>1, NumbersLeft DEF Making
<1> HIDE DEF seek
<1>4. /\ Grows(seeks, seeks') /\ Len(seeks') = Len(seeks) + 1
      /\ MadeIn(id, seeks') /\ ~MadeIn(id, seeks)
  BY <1>1, <1>2, OneMoreSeek
<1> HIDE DEF id
<1>5. BoardInv' /\ byID' \subseteq byID \cup {id}
  BY <1>1, <1>3, LobbyFacts, PostKeepsBoard
<1>6. SeatsInv' /\ FewerEscrows(sessions, sessions') /\ SocketsInv'
  BY <1>1, <1>4, StillSeats, StillSockets
<1>7. \A s \in byID' : MadeIn(s, seeks')
  BY <1>4, <1>5, LobbyFacts, MadeStays DEF SeeksInv
<1>8. ASSUME NEW s \in SeekIDs
      PROVE  /\ OneEscrow(s, sessions')
             /\ s \in byID' => ~HeldThen(s, c, <<>>) /\ ~InSomeEscrow(s, sessions')
             /\ ~(HeldThen(s, c, <<>>) /\ InSomeEscrow(s, sessions'))
  <2>1. InOnePlace(s, byID, agenda, sessions)
    BY LobbyFacts DEF PlacesInv
  <2>2. HeldThen(s, c, <<>>) => InSomeHand(s, agenda)
    BY NoSteps DEF HeldThen
  <2>3. s = id => ~InSomeHand(s, agenda) /\ ~InSomeEscrow(s, sessions)
    BY <1>3, <1>4, UnmadeIsNowhere
  <2>4. s \in byID' => s = id \/ s \in byID
    BY <1>5
  <2>5. sessions' = sessions
    BY <1>1
  <2> QED
    BY <2>1, <2>2, <2>3, <2>4, <2>5 DEF InOnePlace
<1>9. Len(sessions) <= Len(sessions')
  BY <1>1, LobbyFacts
<1>10. step.do \in Making
  BY <1>1 DEF Making
<1> HIDE DEF step
<1> QED
  BY <1>1, <1>4, <1>5, <1>6, <1>7, <1>8, <1>9, <1>10, NoSteps, MovingStep DEF step

\* Two seats are sound when whoever sits first asked for it or nobody minds.
LEMMA TakenSeatsAreSound ==
  ASSUME LobbyInv, NEW c \in Clients, NEW s \in SeekIDs, MadeIn(s, seeks),
         s[1] # Owner[c], TheSeek(s).target \in {None, Owner[c]},
         NEW seek \in SeekRecords, seeks' = Append(seeks, seek),
         seek.owner = Owner[c], seek.target = None, seek.setup = TheSeek(s).setup,
         NEW posted, posted = Seat(s, FALSE),
         NEW taker, taker = Seat(<<Owner[c], Len(seeks) + 1>>, FALSE),
         NEW at, at = IF TheSeek(s).setup.color = Red THEN Red ELSE Blue,
         NEW seats, seats[at] = posted, seats[OtherColor(at)] = taker
  PROVE  SeatsSound(seats, seeks')
<1> DEFINE n == Len(seeks) + 1
<1>1. /\ Grows(seeks, seeks') /\ seeks'[n] = seek
      /\ \A m \in 1..Len(seeks) : seeks'[m] = seeks[m]
      /\ MadeIn(<<Owner[c], n>>, seeks')
  BY OneMoreSeek
<1>2. s[2] \in 1..Len(seeks) /\ MadeIn(s, seeks') /\ seeks'[s[2]] = seeks[s[2]]
  BY <1>1, LobbyFacts, MadeStays DEF MadeIn
<1>3. s[2] < n
  BY <1>2, LobbyFacts
<1>4. seeks[s[2]].setup.color \in Colors \cup {Neutral}
  <2>1. seeks[s[2]] \in SeekRecords
    BY <1>2, LobbyFacts
  <2> QED
    BY <2>1, SetupAssumption DEF SeekRecords
<1>5. /\ at \in Colors /\ OtherColor(at) \in Colors /\ OtherColor(at) # at
      /\ OtherColor(OtherColor(at)) = at
      /\ \A color \in Colors : color = at \/ color = OtherColor(at)
      /\ \/ at = Red /\ OtherColor(at) = Blue
         \/ at = Blue /\ OtherColor(at) = Red
  BY DEF OtherColor, Colors, Red, Blue
<1>6. /\ seats[at] = posted /\ seats[OtherColor(at)] = taker
  OBVIOUS
<1>7. /\ posted.seek = s /\ taker.seek = <<Owner[c], n>> /\ ~posted.requeue /\ ~taker.requeue
  BY DEF Seat
<1>8. seeks[s[2]].setup.color \in {Neutral, at}
  BY <1>4 DEF TheSeek, Colors
<1> HIDE DEF n
<1>9. taker.seek[1] = Owner[c] /\ taker.seek[2] = n
  <2>1. <<Owner[c], n>>[1] = Owner[c] /\ <<Owner[c], n>>[2] = n
    OBVIOUS
  <2> QED
    BY <2>1, <1>7
<1>10. \A color \in Colors : MadeIn(seats[color].seek, seeks')
  BY <1>1, <1>2, <1>5, <1>6, <1>7
<1>11. seats[Red].seek[1] # seats[Blue].seek[1]
  <2>1. seats[at].seek[1] # seats[OtherColor(at)].seek[1]
    BY <1>6, <1>7, <1>9
  <2> QED
    BY <2>1, <1>5
<1>12. SidesAskedFor(seats, seeks')
  <2>1. seeks'[seats[at].seek[2]].setup.color \in {Neutral, at}
    BY <1>2, <1>6, <1>7, <1>8
  <2>2. /\ ~seats[OtherColor(at)].requeue
        /\ seats[OtherColor(OtherColor(at))].seek[2] < seats[OtherColor(at)].seek[2]
    BY <1>3, <1>5, <1>6, <1>7, <1>9
  <2> QED
    BY <2>1, <2>2, <1>5 DEF SidesAskedFor
<1>13. KeptPrivate(seats, seeks')
  <2>1. seeks'[seats[at].seek[2]].target \in {None, seats[OtherColor(at)].seek[1]}
    BY <1>2, <1>6, <1>7, <1>9 DEF TheSeek
  <2>2. seeks'[seats[OtherColor(at)].seek[2]].target = None
    BY <1>1, <1>6, <1>9
  <2> QED
    BY <2>1, <2>2, <1>5 DEF KeptPrivate
<1> QED
  BY <1>10, <1>11, <1>12, <1>13 DEF SeatsSound

LEMMA SeatTypes ==
  ASSUME NEW a \in Seats, NEW b \in Seats,
         NEW seats, seats = [color \in Colors |-> IF color = Blue THEN a ELSE b]
  PROVE  /\ seats \in SeatPairs
         /\ SeatMatch(a, b) = [do |-> "resolve", seats |-> seats]
         /\ SeatMatch(a, b) \in Steps
         /\ SeatMatch(a, b).do = "resolve" /\ SeatMatch(a, b).seats = seats
         /\ \A s : Carries(SeatMatch(a, b), s) <=> a.seek = s \/ b.seek = s
<1>1. seats \in SeatPairs
  BY DEF SeatPairs
<1>2. SeatMatch(a, b) = [do |-> "resolve", seats |-> seats]
  BY DEF SeatMatch
<1> DEFINE step == [do |-> "resolve", seats |-> seats]
<1>3. step \in Steps /\ step.do = "resolve" /\ step.seats = seats
  BY <1>1 DEF Steps
<1>4. seats[Blue] = a /\ seats[Red] = b
  BY ColorFacts
<1> HIDE DEF step
<1>5. \A s : Seated(s, seats) <=> a.seek = s \/ b.seek = s
  BY <1>4, ColorFacts DEF Seated
<1>6. \A s : Carries(step, s) <=> a.seek = s \/ b.seek = s
  BY <1>3, <1>5 DEF Carries
<1> QED
  BY <1>1, <1>2, <1>3, <1>6 DEF step

LEMMA ClaimSeekKeeps ==
  ASSUME LobbyInv, NEW c \in Clients, ClaimSeek(c)
  PROVE  LobbyInv'
<1> DEFINE s == Step(c).seek
           id == <<Owner[c], Len(seeks) + 1>>
           posted == Seat(s, FALSE)
           taker == Seat(id, FALSE)
           seek == [owner |-> Owner[c], target |-> None, setup |-> TheSeek(s).setup,
                    queued |-> FALSE, client |-> c, timed |-> FALSE]
           red == TheSeek(s).setup.color = Red
           step == IF red THEN SeatMatch(taker, posted) ELSE SeatMatch(posted, taker)
           seats == IF red
                    THEN [color \in Colors |-> IF color = Blue THEN taker ELSE posted]
                    ELSE [color \in Colors |-> IF color = Blue THEN posted ELSE taker]
<1>1. /\ c \in Threads /\ ~Idle(c) /\ Step(c).do = "claim" /\ TakeOff({s})
      /\ UNCHANGED <<conn, sessions, participants, updating>>
  BY ThreadFacts DEF ClaimSeek, At, Step, Claim
<1>2. /\ s \in SeekIDs /\ MadeIn(s, seeks) /\ s[1] # Owner[c]
      /\ TheSeek(s).target \in {None, Owner[c]}
  <2>1. Step(c) \in Steps /\ StepSound(c, Step(c), seeks, Len(sessions))
    BY <1>1, HeadIsSound
  <2>2. s \in SeekIDs
    BY <1>1, <2>1, StepFields DEF OfASeek
  <2> QED
    BY <1>1, <2>1, <2>2 DEF StepSound, OfASeek, TheSeek
<1>3. CASE s \notin byID
  <2>1. Then(c, <<>>) /\ UNCHANGED seeks
    BY <1>3 DEF ClaimSeek, StillPosted
  <2>2. Work(c, <<>>)
    BY <2>1, <1>1 DEF Work
  <2> QED
    BY <1>1, <2>1, <2>2, InertNone, OnlyTakenOff
<1>4. CASE s \in byID
  <2>1. seeks' = Append(seeks, seek) /\ Then(c, <<step>>)
    BY <1>4 DEF ClaimSeek, StillPosted
  <2>2. seeks[s[2]] \in SeekRecords /\ TheSeek(s) = seeks[s[2]]
    BY <1>2, LobbyFacts DEF MadeIn, TheSeek
  <2>3. /\ seek \in SeekRecords /\ seek.owner = Owner[c] /\ seek.target = None
        /\ seek.setup = TheSeek(s).setup
    BY <2>2, LobbyFacts DEF SeekRecords
  <2>4. id \in SeekIDs
    BY <1>1, NumbersLeft DEF Making
  <2> HIDE DEF seek
  <2>5. /\ Grows(seeks, seeks') /\ Len(seeks') = Len(seeks) + 1
        /\ MadeIn(id, seeks') /\ ~MadeIn(id, seeks)
    BY <2>1, <2>3, OneMoreSeek
  <2>6. SeatsSound(seats, seeks')
    <3>1. posted = Seat(s, FALSE) /\ taker = Seat(<<Owner[c], Len(seeks) + 1>>, FALSE)
      OBVIOUS
    <3> DEFINE at == IF red THEN Red ELSE Blue
    <3>2. seats[at] = posted /\ seats[OtherColor(at)] = taker
      BY DEF Colors, Red, Blue, OtherColor
    <3>3. at = IF TheSeek(s).setup.color = Red THEN Red ELSE Blue
      OBVIOUS
    <3> HIDE DEF posted, taker, seats, s, at
    <3> QED
      BY <1>2, <2>1, <2>3, <3>1, <3>2, <3>3, TakenSeatsAreSound
  <2>7. posted \in Seats /\ taker \in Seats /\ posted.seek = s /\ taker.seek = id
    BY <1>2, <2>4 DEF Seats, Seat
  <2> HIDE DEF posted, taker, id, s
  <2>8. /\ step \in Steps /\ step.do = "resolve" /\ step.seats = seats
        /\ \A q : Carries(step, q) <=> q = s \/ q = id
    BY <2>7, SeatTypes
  <2> HIDE DEF step, seats
  <2>9. StepSound(c, step, seeks', Len(sessions'))
    BY <2>6, <2>8 DEF StepSound, OfASeek, Seatings, OfASession
  <2>10. BoardInv' /\ byID' = byID \ {s}
    BY <1>1, LobbyFacts, TakeOffKeepsBoard
  <2>11. SeatsInv' /\ SocketsInv'
    BY <1>1, <2>5, StillSeats, StillSockets
  <2>12. \A q \in byID' : MadeIn(q, seeks')
    BY <2>5, <2>10, LobbyFacts, MadeStays DEF SeeksInv
  <2>13. ASSUME NEW q \in SeekIDs
         PROVE  /\ CarriedIn(q, <<step>>) => ~InSomeHand(q, agenda)
                /\ OneEscrow(q, sessions')
                /\ q \in byID' => ~HeldThen(q, c, <<step>>) /\ ~InSomeEscrow(q, sessions')
                /\ ~(HeldThen(q, c, <<step>>) /\ InSomeEscrow(q, sessions'))
    <3>1. InOnePlace(q, byID, agenda, sessions)
      BY LobbyFacts DEF PlacesInv
    <3>2. CarriedIn(q, <<step>>) <=> q = s \/ q = id
      BY <2>8, OneStep
    <3>3. q = id => q \notin byID /\ ~InSomeHand(q, agenda) /\ ~InSomeEscrow(q, sessions)
      BY <2>4, <2>5, UnmadeIsNowhere
    <3>4. sessions' = sessions
      BY <1>1
    <3> QED
      BY <1>4, <2>10, <3>1, <3>2, <3>3, <3>4 DEF InOnePlace, HeldThen
  <2>14. Len(sessions) <= Len(sessions') /\ Step(c).do \in Making
    BY <1>1, LobbyFacts DEF Making
  <2>15. /\ <<step>> \in Seq(Steps)
         /\ \A i \in 1..Len(<<step>>) :
              /\ <<step>>[i].do \notin Making
              /\ StepSound(c, <<step>>[i], seeks', Len(sessions'))
         /\ \A i, j \in 1..Len(<<step>>) : i = j
    BY <2>8, <2>9, OneStep DEF Making
  <2> QED
    BY <1>1, <2>1, <2>5, <2>10, <2>11, <2>12, <2>13, <2>14, <2>15, MovingStep
<1> QED
  BY <1>3, <1>4

\* A step that leaves the board, the seeks and the games as they are.
LEMMA OnlyHands ==
  ASSUME LobbyInv, NEW t \in Threads, ~Idle(t), NEW steps \in Seq(Steps), Then(t, steps),
         UNCHANGED <<conn, seeks, byID, byOwner, sessions, participants, updating>>,
         \A i \in 1..Len(steps) :
           steps[i].do \notin Making /\ StepSound(t, steps[i], seeks, Len(sessions)),
         \A s \in SeekIDs :
           /\ \A i, j \in 1..Len(steps) : Carries(steps[i], s) /\ Carries(steps[j], s) => i = j
           /\ CarriedIn(s, steps) => Carries(Step(t), s)
  PROVE  LobbyInv'
<1>1. BoardInv' /\ SocketsInv' /\ SeatsInv'
  BY LobbyFacts, StillBoard, StillSockets, StillSeats
<1>2. Grows(seeks, seeks') /\ Len(seeks') = Len(seeks) /\ Len(sessions) <= Len(sessions')
  BY LobbyFacts
<1>3. \A s \in byID' : MadeIn(s, seeks')
  BY LobbyFacts DEF SeeksInv
<1>4. ASSUME NEW s \in SeekIDs
      PROVE  /\ OneEscrow(s, sessions')
             /\ s \in byID' => ~HeldThen(s, t, steps) /\ ~InSomeEscrow(s, sessions')
             /\ ~(HeldThen(s, t, steps) /\ InSomeEscrow(s, sessions'))
  <2>1. InOnePlace(s, byID, agenda, sessions)
    BY LobbyFacts DEF PlacesInv
  <2>2. Carries(Step(t), s) => InSomeHand(s, agenda)
    BY HeadIsSound DEF InSomeHand
  <2>3. HeldThen(s, t, steps) => InSomeHand(s, agenda)
    BY <2>2 DEF HeldThen
  <2> QED
    BY <2>1, <2>3 DEF InOnePlace
<1> QED
  BY <1>1, <1>2, <1>3, <1>4, MovingStep

LEMMA HeadIsSeating ==
  ASSUME LobbyInv, NEW t \in Threads, ~Idle(t), Step(t).do \in Seatings
  PROVE  /\ Step(t) \in Steps /\ Step(t).seats \in SeatPairs
         /\ SeatsSound(Step(t).seats, seeks)
         /\ \A color \in Colors :
              Step(t).seats[color] \in Seats /\ Step(t).seats[color].seek \in SeekIDs
         /\ \A s : Carries(Step(t), s) <=> Seated(s, Step(t).seats)
         /\ Step(t).do \in {"open", "install"} =>
              Step(t).socket \in SocketPairs /\ TabsOf(Step(t).seats, Step(t).socket)
<1>1. /\ Step(t) \in Steps /\ Step(t).seats \in SeatPairs
      /\ Step(t).do \in {"open", "install"} => Step(t).socket \in SocketPairs
      /\ StepSound(t, Step(t), seeks, Len(sessions))
  BY HeadIsSound, StepFields
<1>2. \A color \in Colors :
        Step(t).seats[color] \in Seats /\ Step(t).seats[color].seek \in SeekIDs
  BY <1>1 DEF SeatPairs, Seats
<1>3. \A s : Carries(Step(t), s) <=> Seated(s, Step(t).seats)
  BY DEF Carries, Seatings
<1> QED
  BY <1>1, <1>2, <1>3 DEF StepSound

LEMMA RequeueKeeps ==
  ASSUME LobbyInv, NEW t \in Threads, Requeue(t)
  PROVE  LobbyInv'
<1> DEFINE s == Step(t).seek
<1>1. /\ ~Idle(t) /\ Step(t).do = "requeue" /\ Then(t, <<>>)
      /\ Post(s) \/ UNCHANGED <<byID, byOwner>>
      /\ UNCHANGED <<conn, seeks, sessions, participants, updating>>
  BY DEF Requeue, At, Step
<1>2. /\ s \in SeekIDs /\ MadeIn(s, seeks) /\ Carries(Step(t), s)
  <2>1. Step(t) \in Steps /\ StepSound(t, Step(t), seeks, Len(sessions))
    BY <1>1, HeadIsSound
  <2>2. s \in SeekIDs
    BY <1>1, <2>1, StepFields DEF OfASeek
  <2> QED
    BY <1>1, <2>1, <2>2 DEF StepSound, OfASeek, Carries
<1> HIDE DEF s
<1>3. BoardInv' /\ byID' \subseteq byID \cup {s}
  BY <1>1, <1>2, LobbyFacts, PostKeepsBoard, StillBoard
<1>4. SeatsInv' /\ SocketsInv' /\ Grows(seeks, seeks') /\ Len(seeks') = Len(seeks)
      /\ Len(sessions) <= Len(sessions')
  BY <1>1, LobbyFacts, StillSeats, StillSockets
<1>5. \A q \in byID' : MadeIn(q, seeks')
  BY <1>1, <1>2, <1>3, LobbyFacts DEF SeeksInv
<1>6. ASSUME NEW q \in SeekIDs
      PROVE  /\ OneEscrow(q, sessions')
             /\ q \in byID' => ~HeldThen(q, t, <<>>) /\ ~InSomeEscrow(q, sessions')
             /\ ~(HeldThen(q, t, <<>>) /\ InSomeEscrow(q, sessions'))
  <2>1. InOnePlace(q, byID, agenda, sessions)
    BY LobbyFacts DEF PlacesInv
  <2>2. HeldThen(q, t, <<>>) <=> InSomeHand(q, agenda) /\ ~Carries(Step(t), q)
    BY NoSteps DEF HeldThen
  <2>3. q = s => InSomeHand(q, agenda)
    BY <1>1, <1>2, HeadIsSound DEF InSomeHand
  <2>4. q \in byID' => q = s \/ q \in byID
    BY <1>3
  <2>5. sessions' = sessions
    BY <1>1
  <2> QED
    BY <1>2, <2>1, <2>2, <2>3, <2>4, <2>5 DEF InOnePlace
<1> QED
  BY <1>1, <1>3, <1>4, <1>5, <1>6, NoSteps, MovingStep

\* Steps fit to go on an agenda, and that hand no seek on twice.
Fine(t, steps) ==
  /\ steps \in Seq(Steps)
  /\ \A i \in 1..Len(steps) :
       steps[i].do \notin Making /\ StepSound(t, steps[i], seeks, Len(sessions))

Once(s, steps) ==
  \A i, j \in 1..Len(steps) : Carries(steps[i], s) /\ Carries(steps[j], s) => i = j

LEMMA FineNone == \A t : Fine(t, <<>>) /\ \A s : Once(s, <<>>) /\ ~CarriedIn(s, <<>>)
  BY NoSteps DEF Fine, Once

LEMMA FineOne ==
  ASSUME NEW t, NEW step \in Steps, step.do \notin Making,
         StepSound(t, step, seeks, Len(sessions))
  PROVE  /\ Fine(t, <<step>>)
         /\ \A s : Once(s, <<step>>) /\ (CarriedIn(s, <<step>>) <=> Carries(step, s))
  BY OneStep DEF Fine, Once

LEMMA FineBoth ==
  ASSUME NEW t, NEW first, NEW next, Fine(t, first), Fine(t, next)
  PROVE  /\ Fine(t, first \o next)
         /\ \A s : /\ CarriedIn(s, first \o next) => CarriedIn(s, first) \/ CarriedIn(s, next)
                   /\ Once(s, first) /\ Once(s, next)
                      /\ ~(CarriedIn(s, first) /\ CarriedIn(s, next))
                        => Once(s, first \o next)
<1> DEFINE both == first \o next
<1>1. first \in Seq(Steps) /\ next \in Seq(Steps)
  BY DEF Fine
<1>2. /\ both \in Seq(Steps) /\ Len(both) = Len(first) + Len(next)
      /\ \A i \in 1..Len(first) + Len(next) :
           both[i] = IF i <= Len(first) THEN first[i] ELSE next[i - Len(first)]
  BY <1>1, ConcatProperties
<1>3. Len(first) \in Nat /\ Len(next) \in Nat
  BY <1>1, LenProperties
<1> HIDE DEF both
<1>4. ASSUME NEW i \in 1..Len(both)
      PROVE  \/ i <= Len(first) /\ i \in 1..Len(first) /\ both[i] = first[i]
             \/ /\ ~(i <= Len(first)) /\ i - Len(first) \in 1..Len(next)
                /\ both[i] = next[i - Len(first)]
  <2>1. CASE i <= Len(first)
    BY <1>2, <1>3, <2>1
  <2>2. CASE ~(i <= Len(first))
    BY <1>2, <1>3, <2>2
  <2> QED
    BY <2>1, <2>2
<1>5. Fine(t, both)
  BY <1>2, <1>4 DEF Fine
<1>6. ASSUME NEW s PROVE CarriedIn(s, both) => CarriedIn(s, first) \/ CarriedIn(s, next)
  BY <1>4 DEF CarriedIn
<1>7. ASSUME NEW s, Once(s, first), Once(s, next), ~(CarriedIn(s, first) /\ CarriedIn(s, next)),
             NEW i \in 1..Len(both), NEW j \in 1..Len(both),
             Carries(both[i], s), Carries(both[j], s)
      PROVE  i = j
  <2>1. CASE i <= Len(first) /\ j <= Len(first)
    BY <1>4, <1>7, <2>1 DEF Once
  <2>2. CASE ~(i <= Len(first)) /\ ~(j <= Len(first))
    <3>1. i - Len(first) = j - Len(first)
      BY <1>4, <1>7, <2>2 DEF Once
    <3> QED
      BY <3>1, <1>3
  <2>3. ASSUME NEW k \in 1..Len(both), NEW m \in 1..Len(both), Carries(both[k], s),
               Carries(both[m], s), k <= Len(first), ~(m <= Len(first))
        PROVE  FALSE
    BY <1>4, <1>7, <2>3 DEF CarriedIn
  <2> QED
    BY <1>7, <2>1, <2>2, <2>3
<1> QED
  BY <1>5, <1>6, <1>7 DEF both, Once

LEMMA ReturnsAreFine ==
  ASSUME NEW t, NEW seat \in Seats, MadeIn(seat.seek, seeks)
  PROVE  /\ Fine(t, Returns(seat))
         /\ \A s : Once(s, Returns(seat)) /\ (CarriedIn(s, Returns(seat)) => s = seat.seek)
<1> DEFINE step == [do |-> "requeue", seek |-> seat.seek]
<1>1. step \in Steps /\ step.do = "requeue" /\ step.seek = seat.seek
  BY DEF Steps, Seats
<1> HIDE DEF step
<1>2. StepSound(t, step, seeks, Len(sessions)) /\ step.do \notin Making
  BY <1>1 DEF StepSound, OfASeek, Seatings, OfASession, Making
<1>3. \A s : Carries(step, s) <=> s = seat.seek
  BY <1>1 DEF Carries
<1>4. Returns(seat) = IF seat.requeue THEN <<step>> ELSE <<>>
  BY DEF Returns, step
<1>5. CASE seat.requeue
  BY <1>1, <1>2, <1>3, <1>4, <1>5, FineOne
<1>6. CASE ~seat.requeue
  BY <1>4, <1>6, FineNone
<1> QED
  BY <1>5, <1>6

LEMMA HandsAreFine ==
  ASSUME LobbyInv, NEW t \in Threads, ~Idle(t), NEW steps, Fine(t, steps), Then(t, steps),
         UNCHANGED <<conn, seeks, byID, byOwner, sessions, participants, updating>>,
         \A s \in SeekIDs : Once(s, steps) /\ (CarriedIn(s, steps) => Carries(Step(t), s))
  PROVE  LobbyInv'
  BY OnlyHands DEF Fine, Once

LEMMA SeatClientsAreTabs ==
  ASSUME NEW id, NEW c \in SeatClients(id)
  PROVE  c = None \/ (c \in Clients /\ Owner[c] = id[1])
  BY DEF SeatClients, FreeTabs

LEMMA ResolveSeatsKeeps ==
  ASSUME LobbyInv, NEW t \in Threads, ResolveSeats(t)
  PROVE  LobbyInv'
<1> DEFINE seats == Step(t).seats
           release(c) == IF c = None THEN <<>> ELSE <<[do |-> "release", client |-> c]>>
<1>1. /\ ~Idle(t) /\ Step(t).do = "resolve"
      /\ UNCHANGED <<conn, seeks, byID, byOwner, sessions, participants, updating>>
  BY DEF ResolveSeats, At, Step
<1>2. PICK red \in SeatClients(seats[Red].seek), blue \in SeatClients(seats[Blue].seek) :
        Then(t, release(red) \o release(blue)
                  \o <<[do |-> "open", seats |-> seats,
                        socket |-> [c \in Colors |-> IF c = Red THEN red ELSE blue]]>>)
  BY DEF ResolveSeats
<1> DEFINE socket == [c \in Colors |-> IF c = Red THEN red ELSE blue]
           open == [do |-> "open", seats |-> seats, socket |-> socket]
           steps == release(red) \o release(blue) \o <<open>>
<1>3. Then(t, steps)
  BY <1>2
<1>4. /\ seats \in SeatPairs /\ SeatsSound(seats, seeks)
      /\ \A s : Carries(Step(t), s) <=> Seated(s, seats)
  BY <1>1, HeadIsSeating DEF Seatings
<1> HIDE DEF seats
<1>5. /\ red = None \/ (red \in Clients /\ Owner[red] = seats[Red].seek[1])
      /\ blue = None \/ (blue \in Clients /\ Owner[blue] = seats[Blue].seek[1])
  BY SeatClientsAreTabs
<1>6. socket \in SocketPairs /\ TabsOf(seats, socket)
  <2>1. socket[Red] = red /\ socket[Blue] = blue
    BY ColorFacts
  <2>2. socket \in SocketPairs
    BY <1>5 DEF SocketPairs
  <2> HIDE DEF socket
  <2> QED
    BY <2>1, <2>2, <1>5, ColorFacts DEF TabsOf
<1> HIDE DEF socket
<1>7. /\ open \in Steps /\ open.do = "open" /\ open.seats = seats /\ open.socket = socket
  BY <1>4, <1>6 DEF Steps
<1> HIDE DEF open
<1>8. /\ StepSound(t, open, seeks, Len(sessions)) /\ open.do \notin Making
      /\ \A s : Carries(open, s) <=> Seated(s, seats)
  BY <1>4, <1>6, <1>7 DEF StepSound, OfASeek, Seatings, OfASession, Making, Carries
<1>9. ASSUME NEW c, c = None \/ c \in Clients
      PROVE  Fine(t, release(c)) /\ \A s : Once(s, release(c)) /\ ~CarriedIn(s, release(c))
  <2>1. CASE c = None
    BY <2>1, FineNone
  <2>2. CASE c # None
    <3> DEFINE step == [do |-> "release", client |-> c]
    <3>1. step \in Steps /\ step.do = "release"
      BY <1>9, <2>2 DEF Steps
    <3> HIDE DEF step
    <3>2. StepSound(t, step, seeks, Len(sessions)) /\ step.do \notin Making
      BY <3>1 DEF StepSound, OfASeek, Seatings, OfASession, Making
    <3>3. \A s : ~Carries(step, s)
      BY <3>1 DEF Carries
    <3>4. release(c) = <<step>>
      BY <2>2 DEF step
    <3> HIDE DEF release
    <3> QED
      BY <3>1, <3>2, <3>3, <3>4, FineOne
  <2> QED
    BY <2>1, <2>2
<1> HIDE DEF release
<1> DEFINE releases == release(red) \o release(blue)
<1>10. Fine(t, releases) /\ \A s : Once(s, releases) /\ ~CarriedIn(s, releases)
  BY <1>5, <1>9, FineBoth
<1>11. Fine(t, <<open>>) /\ \A s : Once(s, <<open>>) /\ (CarriedIn(s, <<open>>) <=> Seated(s, seats))
  BY <1>7, <1>8, FineOne
<1> HIDE DEF releases
<1> DEFINE all == releases \o <<open>>
<1>12. Fine(t, all) /\ \A s : Once(s, all) /\ (CarriedIn(s, all) => Seated(s, seats))
  BY <1>10, <1>11, FineBoth
<1>13. Then(t, all)
  BY <1>3 DEF releases
<1> HIDE DEF all
<1> QED
  BY <1>1, <1>4, <1>12, <1>13, HandsAreFine

LEMMA OpenGameKeeps ==
  ASSUME LobbyInv, NEW t \in Threads, OpenGame(t)
  PROVE  LobbyInv'
<1> DEFINE step == Step(t)
           red == step.seats[Red]
           blue == step.seats[Blue]
           install == [step EXCEPT !.do = "install"]
<1>1. /\ ~Idle(t) /\ step.do = "open"
      /\ UNCHANGED <<conn, seeks, byID, byOwner, sessions, participants, updating>>
      /\ Then(t, Returns(red) \o Returns(blue)) \/ Then(t, <<install>>)
  BY DEF OpenGame, At, Step
<1>2. /\ step \in Steps /\ step.seats \in SeatPairs /\ SeatsSound(step.seats, seeks)
      /\ step.socket \in SocketPairs /\ TabsOf(step.seats, step.socket)
      /\ \A s : Carries(step, s) <=> Seated(s, step.seats)
      /\ red \in Seats /\ blue \in Seats
  BY <1>1, HeadIsSeating, ColorFacts DEF Seatings
<1>3. CASE Then(t, Returns(red) \o Returns(blue))
  <2>1. MadeIn(red.seek, seeks) /\ MadeIn(blue.seek, seeks) /\ red.seek # blue.seek
    BY <1>2, ColorFacts DEF SeatsSound
  <2>2. Seated(red.seek, step.seats) /\ Seated(blue.seek, step.seats)
    BY ColorFacts DEF Seated
  <2> DEFINE all == Returns(red) \o Returns(blue)
  <2> HIDE DEF red, blue
  <2>3. /\ Fine(t, Returns(red)) /\ Fine(t, Returns(blue))
        /\ \A s : Once(s, Returns(red)) /\ (CarriedIn(s, Returns(red)) => s = red.seek)
        /\ \A s : Once(s, Returns(blue)) /\ (CarriedIn(s, Returns(blue)) => s = blue.seek)
    BY <1>2, <2>1, ReturnsAreFine
  <2>4. /\ Fine(t, all)
        /\ \A s : Once(s, all) /\ (CarriedIn(s, all) => s = red.seek \/ s = blue.seek)
    BY <2>1, <2>3, FineBoth
  <2>5. Then(t, all)
    BY <1>3
  <2> HIDE DEF all
  <2> QED
    BY <1>1, <1>2, <2>2, <2>4, <2>5, HandsAreFine
<1>4. CASE Then(t, <<install>>)
  <2>1. /\ install \in Steps /\ install.do = "install"
        /\ install.seats = step.seats /\ install.socket = step.socket
    <3>1. /\ DOMAIN step = {"do", "seats", "socket"}
          /\ step = [do |-> "open", seats |-> step.seats, socket |-> step.socket]
      BY <1>1, <1>2 DEF Steps
    <3> HIDE DEF step
    <3>2. install = [do |-> "install", seats |-> step.seats, socket |-> step.socket]
      BY <3>1
    <3> QED
      BY <1>2, <3>2 DEF Steps
  <2> HIDE DEF install
  <2>2. /\ StepSound(t, install, seeks, Len(sessions)) /\ install.do \notin Making
        /\ \A s : Carries(install, s) <=> Seated(s, step.seats)
    BY <1>2, <2>1 DEF StepSound, OfASeek, Seatings, OfASession, Making, Carries
  <2>3. /\ Fine(t, <<install>>)
        /\ \A s : Once(s, <<install>>) /\ (CarriedIn(s, <<install>>) => Seated(s, step.seats))
    BY <2>1, <2>2, FineOne
  <2> QED
    BY <1>1, <1>2, <1>4, <2>3, HandsAreFine
<1> QED
  BY <1>1, <1>3, <1>4

\* Another game is opened, and whoever sits in it plays it.
LEMMA OneMoreGame ==
  ASSUME LobbyInv, NEW game \in SessionRecords, sessions' = Append(sessions, game),
         UNCHANGED seeks, SeatsSound(game.seats, seeks), game.listed, Timed(game),
         participants' \in [Clients -> Places \cup {None}],
         \A c \in Clients :
           \/ participants'[c] = participants[c]
           \/ /\ participants'[c].session = Len(sessions) + 1
              /\ game.socket[participants'[c].color] = c
  PROVE  /\ SeatsInv' /\ Len(sessions') = Len(sessions) + 1
         /\ sessions'[Len(sessions) + 1] = game
         /\ \A g \in 1..Len(sessions) : sessions'[g] = sessions[g]
<1>1. /\ sessions' \in Seq(SessionRecords) /\ Len(sessions') = Len(sessions) + 1
      /\ sessions'[Len(sessions) + 1] = game
      /\ \A g \in 1..Len(sessions) : sessions'[g] = sessions[g]
  BY LobbyFacts, AppendProperties
<1>2. DOMAIN sessions' = 1..Len(sessions')
  BY <1>1
<1>3. \A g \in DOMAIN sessions' : g = Len(sessions) + 1 \/ g \in 1..Len(sessions)
  BY <1>1, <1>2, LobbyFacts
<1>4. \A g \in DOMAIN sessions : g \in DOMAIN sessions' /\ sessions'[g] = sessions[g]
  BY <1>1, <1>2, LobbyFacts
<1>5. Len(sessions) + 1 \in DOMAIN sessions'
  BY <1>1, <1>2, LobbyFacts
<1>6. \A g \in DOMAIN sessions' : SeatsSound(sessions'[g].seats, seeks')
  BY <1>1, <1>3, LobbyFacts DEF SeatsInv
<1>7. EmptyIsTimed'
  <2>1. \A g \in DOMAIN sessions : Timed(sessions[g])
    BY LobbyFacts, AllAreTimed DEF SeatsInv
  <2>2. \A g \in DOMAIN sessions' : Timed(sessions'[g])
    BY <1>1, <1>3, <2>1, LobbyFacts
  <2> QED
    BY <2>2, AllAreTimed
<1>9. ASSUME NEW c \in Clients, participants'[c] # None
      PROVE  /\ participants'[c].session \in DOMAIN sessions'
             /\ sessions'[participants'[c].session].listed
             /\ sessions'[participants'[c].session].socket[participants'[c].color] = c
  <2>1. CASE participants'[c] # participants[c]
    BY <2>1, <1>1, <1>5
  <2>2. CASE participants'[c] = participants[c]
    <3>2. /\ participants[c].session \in DOMAIN sessions
          /\ sessions[participants[c].session].listed
          /\ sessions[participants[c].session].socket[participants[c].color] = c
      BY <1>9, <2>2, LobbyFacts DEF SeatsInv, ParticipantIsSeated, Live
    <3> QED
      BY <2>2, <3>2, <1>4
  <2> QED
    BY <2>1, <2>2
<1> QED
  BY <1>1, <1>6, <1>7, <1>9 DEF SeatsInv, ParticipantIsSeated, Live

LEMMA InstallGameKeeps ==
  ASSUME LobbyInv, NEW t \in Threads, InstallGame(t)
  PROVE  LobbyInv'
<1> DEFINE step == Step(t)
           id == Len(sessions) + 1
           game == [seats |-> step.seats, socket |-> step.socket,
                    absent |-> [c \in Colors |-> step.socket[c] = None],
                    escrow |-> "held", turn |-> Blue, moved |-> FALSE, end |-> "none",
                    listed |-> TRUE, recorded |-> FALSE]
           sits(c) == \E color \in Colors : step.socket[color] = c
<1>1. /\ ~Idle(t) /\ step.do = "install" /\ Then(t, <<>>)
      /\ sessions' = Append(sessions, game)
      /\ UNCHANGED <<conn, seeks, byID, byOwner, updating>>
  BY DEF InstallGame, At, Step
<1>2. participants' = [c \in Clients |->
         IF sits(c)
         THEN [session |-> id, color |-> CHOOSE color \in Colors : step.socket[color] = c]
         ELSE participants[c]]
  BY DEF InstallGame
<1>3. /\ step.seats \in SeatPairs /\ SeatsSound(step.seats, seeks)
      /\ step.socket \in SocketPairs
      /\ \A s : Carries(step, s) <=> Seated(s, step.seats)
  BY <1>1, HeadIsSeating DEF Seatings
<1> HIDE DEF step
<1>4. /\ game \in SessionRecords /\ game.seats = step.seats /\ game.socket = step.socket
      /\ game.listed /\ game.escrow = "held"
  BY <1>3, ColorFacts DEF SessionRecords
<1>5. Timed(game)
  <2>1. \A color \in Colors : game.absent[color] = (game.socket[color] = None)
    OBVIOUS
  <2> QED
    BY <2>1 DEF Timed
<1> HIDE DEF game
<1>6. ASSUME NEW c \in Clients, sits(c)
      PROVE  /\ participants'[c] \in Places /\ participants'[c].session = Len(sessions) + 1
             /\ game.socket[participants'[c].color] = c
  <2> DEFINE color == CHOOSE color \in Colors : step.socket[color] = c
  <2>1. color \in Colors /\ step.socket[color] = c
    BY <1>6
  <2>2. participants'[c] = [session |-> id, color |-> color]
    BY <1>6, <1>2
  <2> HIDE DEF color
  <2> QED
    BY <2>1, <2>2, <1>4, LobbyFacts DEF Places
<1>7. \A c \in Clients : ~sits(c) => participants'[c] = participants[c]
  BY <1>2
<1> HIDE DEF sits
<1>8. participants' \in [Clients -> Places \cup {None}]
  <2>1. \A c \in Clients : participants'[c] \in Places \cup {None}
    BY <1>6, <1>7, LobbyFacts
  <2>2. participants' = [c \in Clients |-> participants'[c]]
    BY <1>2
  <2> QED
    BY <2>1, <2>2
<1>9. /\ game \in SessionRecords /\ game.listed /\ Timed(game) /\ SeatsSound(game.seats, seeks)
      /\ sessions' = Append(sessions, game) /\ UNCHANGED seeks
  BY <1>1, <1>3, <1>4, <1>5
<1>12. /\ SeatsInv' /\ Len(sessions') = id
       /\ sessions'[id] = game
       /\ \A g \in 1..Len(sessions) : sessions'[g] = sessions[g]
  BY <1>6, <1>7, <1>8, <1>9, OneMoreGame
<1>13. \A s : Keeps(game, s) <=> Carries(step, s)
  BY <1>3, <1>4 DEF Keeps
<1>14. DOMAIN sessions' = 1..id
  <2>1. sessions' \in Seq(SessionRecords)
    BY <1>12 DEF SeatsInv
  <2> QED
    BY <2>1, <1>12
<1>15. ASSUME NEW s \in SeekIDs
       PROVE  /\ OneEscrow(s, sessions')
              /\ s \in byID' => ~HeldThen(s, t, <<>>) /\ ~InSomeEscrow(s, sessions')
              /\ ~(HeldThen(s, t, <<>>) /\ InSomeEscrow(s, sessions'))
  <2>1. InOnePlace(s, byID, agenda, sessions) /\ byID' = byID
    BY <1>1, LobbyFacts DEF PlacesInv
  <2>2. Carries(step, s) => InSomeHand(s, agenda)
    BY <1>1, HeadIsSound DEF InSomeHand, step
  <2>3. \A g \in DOMAIN sessions' :
          Keeps(sessions'[g], s) =>
            \/ g = id /\ Carries(step, s)
            \/ g \in DOMAIN sessions /\ Keeps(sessions[g], s)
    <3>1. \A g \in 1..id : g = id \/ g \in 1..Len(sessions)
      BY LobbyFacts
    <3> QED
      BY <3>1, <1>12, <1>13, <1>14, LobbyFacts
  <2>4. Carries(step, s) => ~InSomeEscrow(s, sessions)
    BY <2>1, <2>2 DEF InOnePlace
  <2>5. OneEscrow(s, sessions')
    <3>1. OneEscrow(s, sessions)
      BY <2>1 DEF InOnePlace
    <3>2. CASE Carries(step, s)
      BY <2>3, <2>4, <3>2 DEF OneEscrow, InSomeEscrow
    <3>3. CASE ~Carries(step, s)
      BY <2>3, <3>1, <3>3 DEF OneEscrow
    <3> QED
      BY <3>2, <3>3
  <2>6. InSomeEscrow(s, sessions') => Carries(step, s) \/ InSomeEscrow(s, sessions)
    BY <2>3 DEF InSomeEscrow
  <2>7. HeldThen(s, t, <<>>) => InSomeHand(s, agenda) /\ ~Carries(step, s)
    BY NoSteps DEF HeldThen, step
  <2> QED
    BY <2>1, <2>2, <2>5, <2>6, <2>7 DEF InOnePlace
<1>16. /\ BoardInv' /\ SocketsInv' /\ Grows(seeks, seeks') /\ Len(seeks') = Len(seeks)
       /\ Len(sessions) <= Len(sessions')
  <2>1. SocketsInv'
    BY <1>1, <1>12, LobbyFacts DEF SocketsInv
  <2> QED
    BY <1>1, <1>12, <2>1, LobbyFacts, StillBoard
<1>17. \A s \in byID' : MadeIn(s, seeks')
  BY <1>1, LobbyFacts DEF SeeksInv
<1> QED
  BY <1>1, <1>12, <1>15, <1>16, <1>17, NoSteps, MovingStep

LEMMA CallOffUnstartedKeeps ==
  ASSUME LobbyInv, NEW t \in Threads, CallOffUnstarted(t)
  PROVE  LobbyInv'
<1> DEFINE g == Step(t).session
           blame == Step(t).blame
           held == sessions[g]
           noShow == IF blame = Neutral THEN Red ELSE blame
           waiting == OtherColor(noShow)
           discard == <<[do |-> "discard", session |-> g]>>
           first == Returns(held.seats[waiting])
           second == IF blame = Neutral THEN Returns(held.seats[noShow]) ELSE <<>>
           game == [held EXCEPT !.escrow = "none"]
<1>1. /\ ~Idle(t) /\ Step(t).do = "callOff" /\ blame # "mover"
      /\ UNCHANGED <<conn, seeks, byID, byOwner, participants, updating>>
  BY DEF CallOffUnstarted, At, Step
<1>2. /\ g \in DOMAIN sessions /\ held \in SessionRecords /\ SeatsSound(held.seats, seeks)
  BY <1>1, HeadIsOfAGame, LobbyFacts DEF OfASession, SeatsInv
<1>3. noShow \in Colors /\ waiting \in Colors /\ waiting # noShow
  <2>1. blame \in Colors \cup {Neutral}
    BY <1>1, HeadIsSound, StepFields
  <2> QED
    BY <2>1, ColorFacts
<1>4. CASE Emptied(g)
  <2>1. Then(t, <<>>) /\ UNCHANGED sessions
    BY <1>4 DEF CallOffUnstarted
  <2> QED
    BY <1>1, <2>1, InertNone, OnlyWork DEF Work
<1>5. CASE ~Emptied(g)
  <2>1. /\ sessions' = [sessions EXCEPT ![g].escrow = "none"]
        /\ Then(t, discard \o first \o second)
    BY <1>5 DEF CallOffUnstarted
  <2>2. sessions' = [sessions EXCEPT ![g] = game] /\ held.escrow # "none"
    BY <2>1, <1>2, <1>5 DEF Emptied
  <2>3. /\ game \in SessionRecords
        /\ game.seats = held.seats /\ game.socket = held.socket
        /\ game.absent = held.absent /\ game.listed = held.listed
        /\ game.escrow = "none"
    BY <1>2 DEF SessionRecords
  <2>4. /\ held.seats[waiting] \in Seats /\ held.seats[noShow] \in Seats
        /\ MadeIn(held.seats[waiting].seek, seeks) /\ MadeIn(held.seats[noShow].seek, seeks)
        /\ held.seats[waiting].seek # held.seats[noShow].seek
    <3>1. held.seats \in SeatPairs
      BY <1>2 DEF SessionRecords
    <3>2. held.seats[waiting].seek[1] # held.seats[noShow].seek[1]
      BY <1>2, <1>3 DEF SeatsSound, Colors
    <3> QED
      BY <3>1, <3>2, <1>2, <1>3 DEF SeatPairs, SeatsSound
  <2> HIDE DEF game
  <2>5. /\ Fine(t, discard)
        /\ \A s : Once(s, discard) /\ ~CarriedIn(s, discard)
    <3> DEFINE step == [do |-> "discard", session |-> g]
    <3>1. step \in Steps /\ step.do = "discard" /\ step.session = g
      BY <1>2, LobbyFacts DEF Steps
    <3>2. discard = <<step>>
      OBVIOUS
    <3> HIDE DEF step, discard, g
    <3>3. StepSound(t, step, seeks, Len(sessions)) /\ step.do \notin Making
          /\ \A s : ~Carries(step, s)
      BY <1>2, <3>1, LobbyFacts
         DEF StepSound, OfASeek, Seatings, OfASession, Making, Carries
    <3> QED
      BY <3>1, <3>2, <3>3, FineOne
  <2>6. /\ Fine(t, first)
        /\ \A s : Once(s, first) /\ (CarriedIn(s, first) => s = held.seats[waiting].seek)
    BY <2>4, ReturnsAreFine
  <2>7. /\ Fine(t, second)
        /\ \A s : Once(s, second) /\ (CarriedIn(s, second) => s = held.seats[noShow].seek)
    BY <2>4, ReturnsAreFine, FineNone
  <2> HIDE DEF discard, first, second
  <2> DEFINE some == discard \o first
  <2>8. /\ Fine(t, some)
        /\ \A s : Once(s, some) /\ (CarriedIn(s, some) => s = held.seats[waiting].seek)
    BY <2>5, <2>6, FineBoth
  <2> HIDE DEF some
  <2> DEFINE all == some \o second
  <2>9. /\ Fine(t, all)
        /\ \A s : Once(s, all) /\ (CarriedIn(s, all) => s = held.seats[waiting].seek
                                                        \/ s = held.seats[noShow].seek)
    BY <2>4, <2>7, <2>8, FineBoth
  <2>10. Then(t, all)
    BY <2>1 DEF some
  <2> HIDE DEF all
  <2>11. Touched(sessions, sessions')
    BY <1>2, <2>2, <2>3, LobbyFacts, OneGameTouched
  <2>12. SeatsInv' /\ FewerEscrows(sessions, sessions')
    BY <1>1, <2>11, LobbyFacts, TouchedSeats
  <2>13. /\ Len(sessions') = Len(sessions) /\ DOMAIN sessions' = DOMAIN sessions
         /\ sessions' \in Seq(SessionRecords)
    BY <2>2, <2>11, LobbyFacts DEF Touched
  <2>14. ASSUME NEW s \in SeekIDs
         PROVE  /\ CarriedIn(s, all) => ~InSomeHand(s, agenda)
                /\ OneEscrow(s, sessions')
                /\ s \in byID' => ~HeldThen(s, t, all) /\ ~InSomeEscrow(s, sessions')
                /\ ~(HeldThen(s, t, all) /\ InSomeEscrow(s, sessions'))
    <3>1. InOnePlace(s, byID, agenda, sessions) /\ byID' = byID
      BY <1>1, LobbyFacts DEF PlacesInv
    <3>2. CarriedIn(s, all) => Keeps(held, s)
      BY <1>3, <2>2, <2>9 DEF Keeps, Seated
    <3>3. Keeps(held, s) => InSomeEscrow(s, sessions)
      BY <1>2 DEF InSomeEscrow
    <3>4. OneEscrow(s, sessions') /\ (InSomeEscrow(s, sessions') => InSomeEscrow(s, sessions))
      BY <2>12, <2>13, <3>1, LobbyFacts, EscrowsKept DEF InOnePlace
    <3>5. Keeps(held, s) => ~InSomeEscrow(s, sessions')
      <4>1. sessions'[g] = game
        BY <1>2, <2>2
      <4>2. \A h \in DOMAIN sessions' : Keeps(sessions'[h], s) => h # g /\ Keeps(sessions[h], s)
        <5>1. \A h \in DOMAIN sessions : h # g => sessions'[h] = sessions[h]
          BY <1>2, <2>2
        <5>2. ~Keeps(game, s)
          BY <2>3 DEF Keeps
        <5> QED
          BY <4>1, <5>1, <5>2, <2>13
      <4> QED
        BY <4>2, <3>1, <1>2, <2>13 DEF InSomeEscrow, InOnePlace, OneEscrow
    <3> QED
      BY <3>1, <3>2, <3>3, <3>4, <3>5 DEF InOnePlace, HeldThen
  <2>15. /\ BoardInv' /\ SocketsInv' /\ Grows(seeks, seeks') /\ Len(seeks') = Len(seeks)
         /\ Len(sessions) <= Len(sessions')
    <3>1. SocketsInv'
      BY <1>1, LobbyFacts DEF SocketsInv
    <3> QED
      BY <1>1, <2>13, <3>1, LobbyFacts, StillBoard
  <2>16. \A s \in byID' : MadeIn(s, seeks')
    BY <1>1, LobbyFacts DEF SeeksInv
  <2>17. /\ all \in Seq(Steps)
         /\ \A i \in 1..Len(all) :
              all[i].do \notin Making /\ StepSound(t, all[i], seeks', Len(sessions'))
         /\ \A s \in SeekIDs : \A i, j \in 1..Len(all) :
              Carries(all[i], s) /\ Carries(all[j], s) => i = j
    BY <1>1, <2>9, <2>13 DEF Fine, Once
  <2> QED
    BY <1>1, <2>10, <2>12, <2>14, <2>15, <2>16, <2>17, MovingStep
<1> QED
  BY <1>4, <1>5

\* The seeks on the board are among the seeks made, and those are finitely many.
LEMMA BoardIsFinite == LobbyInv => IsFiniteSet(byID)
<1> SUFFICES ASSUME LobbyInv PROVE IsFiniteSet(byID)
  OBVIOUS
<1> DEFINE f == [n \in 1..Len(seeks) |-> <<seeks[n].owner, n>>]
           T == {f[n] : n \in 1..Len(seeks)}
<1>1. f \in Surjection(1..Len(seeks), T)
  BY DEF Surjection
<1>2. IsFiniteSet(1..Len(seeks))
  BY LobbyFacts, FS_Interval
<1>3. \A s \in byID : s \in T
  <2> SUFFICES ASSUME NEW s \in byID PROVE s \in T
    OBVIOUS
  <2>1. s[2] \in 1..Len(seeks) /\ seeks[s[2]].owner = s[1] /\ s \in SeekIDs
    BY LobbyFacts DEF SeeksInv, MadeIn
  <2>2. s = <<s[1], s[2]>>
    BY <2>1 DEF SeekIDs
  <2> QED
    BY <2>1, <2>2
<1> HIDE DEF f, T
<1> QED
  BY <1>1, <1>2, <1>3, FS_Surjection, FS_Subset

LEMMA StartPairedIsFine ==
  ASSUME LobbyInv, NEW t, NEW first \in byID, NEW second \in byID, CanPair(first, second)
  PROVE  /\ StartPaired(first, second) \in Steps
         /\ StartPaired(first, second).do \notin Making
         /\ StepSound(t, StartPaired(first, second), seeks, Len(sessions))
         /\ \A s : Carries(StartPaired(first, second), s) <=> s = first \/ s = second
<1> DEFINE swapped == TheSeek(first).setup.color = Red \/ TheSeek(second).setup.color = Blue
           onBlue == IF swapped THEN second ELSE first
           onRed == IF swapped THEN first ELSE second
           a == Seat(onBlue, TRUE)
           b == Seat(onRed, TRUE)
           seats == [color \in Colors |-> IF color = Blue THEN a ELSE b]
           step == SeatMatch(a, b)
<1>1. StartPaired(first, second) = step
  BY DEF StartPaired
<1>2. /\ first \in SeekIDs /\ MadeIn(first, seeks) /\ second \in SeekIDs /\ MadeIn(second, seeks)
  BY LobbyFacts DEF SeeksInv
<1>3. /\ TheSeek(first) = seeks[first[2]] /\ TheSeek(second) = seeks[second[2]]
      /\ seeks[first[2]] \in SeekRecords /\ seeks[second[2]] \in SeekRecords
  BY <1>2, LobbyFacts DEF MadeIn, TheSeek
<1>4. /\ seeks[first[2]].setup.color \in Colors \cup {Neutral}
      /\ seeks[second[2]].setup.color \in Colors \cup {Neutral}
  BY <1>3, SetupAssumption DEF SeekRecords
<1>5. /\ seeks[first[2]].target = None /\ seeks[second[2]].target = None
      /\ first[1] # second[1]
      /\ \/ seeks[first[2]].setup.color = Neutral
         \/ seeks[second[2]].setup.color = Neutral
         \/ seeks[first[2]].setup.color # seeks[second[2]].setup.color
  BY <1>3 DEF CanPair, IsOpen, Fits
<1>6. /\ seeks[onBlue[2]].setup.color \in {Neutral, Blue}
      /\ seeks[onRed[2]].setup.color \in {Neutral, Red}
  <2>1. CASE swapped
    <3>1. seeks[second[2]].setup.color \in {Neutral, Blue}
      BY <1>3, <1>4, <1>5, <2>1, ColorFacts
    <3>2. seeks[first[2]].setup.color \in {Neutral, Red}
      BY <1>3, <1>4, <1>5, <2>1, ColorFacts
    <3> QED
      BY <3>1, <3>2, <2>1
  <2>2. CASE ~swapped
    <3>1. seeks[first[2]].setup.color \in {Neutral, Blue}
      BY <1>3, <1>4, <2>2, ColorFacts
    <3>2. seeks[second[2]].setup.color \in {Neutral, Red}
      BY <1>3, <1>4, <2>2, ColorFacts
    <3> QED
      BY <3>1, <3>2, <2>2
  <2> QED
    BY <2>1, <2>2
<1>7. /\ onBlue \in SeekIDs /\ onRed \in SeekIDs /\ MadeIn(onBlue, seeks) /\ MadeIn(onRed, seeks)
      /\ seeks[onBlue[2]].target = None /\ seeks[onRed[2]].target = None
      /\ onBlue[1] # onRed[1]
      /\ \A s : (s = onBlue \/ s = onRed) <=> (s = first \/ s = second)
  BY <1>2, <1>5
<1> HIDE DEF onBlue, onRed
<1>8. /\ a \in Seats /\ b \in Seats /\ a.seek = onBlue /\ b.seek = onRed
  BY <1>7 DEF Seats, Seat
<1>9. seats[Blue] = a /\ seats[Red] = b
  BY ColorFacts
<1> HIDE DEF a, b
<1>10. /\ step \in Steps /\ step.do = "resolve" /\ step.seats = seats
       /\ \A s : Carries(step, s) <=> a.seek = s \/ b.seek = s
  BY <1>8, SeatTypes
<1> HIDE DEF step, seats
<1>11. SeatsSound(seats, seeks)
  BY <1>6, <1>7, <1>8, <1>9, ColorFacts DEF SeatsSound, SidesAskedFor, KeptPrivate
<1>12. StepSound(t, step, seeks, Len(sessions)) /\ step.do \notin Making
  BY <1>10, <1>11 DEF StepSound, OfASeek, Seatings, OfASession, Making
<1> QED
  BY <1>1, <1>7, <1>8, <1>10, <1>12

LEMMA PairKeeps == ASSUME LobbyInv, Pair PROVE LobbyInv'
<1>1. /\ Pairer \in Threads /\ ~Idle(Pairer) /\ Step(Pairer).do = "pair"
      /\ UNCHANGED <<conn, seeks, sessions, participants, updating>>
  BY ThreadFacts DEF Pair, At, Step
<1>2. PICK M :
        /\ \A p \in M : p \in byID \X byID /\ CanPair(p[1], p[2])
        /\ Disjoint(M) /\ TakePairs(M)
        /\ \E order \in Orders(M) :
             /\ OldestFirst(order)
             /\ Then(Pairer, [i \in DOMAIN order |-> StartPaired(order[i][1], order[i][2])])
  BY DEF Pair
<1>3. PICK order :
        /\ order \in Orders(M) /\ OldestFirst(order)
        /\ Then(Pairer, [i \in DOMAIN order |-> StartPaired(order[i][1], order[i][2])])
  BY <1>2
<1> DEFINE n == Cardinality(M)
           first(i) == order[i][1]
           second(i) == order[i][2]
           paired(i) == StartPaired(first(i), second(i))
           steps == [i \in 1..n |-> paired(i)]
           taken == UNION {{p[1], p[2]} : p \in M}
<1>4. n \in Nat
  <2>1. IsFiniteSet(byID \X byID)
    BY BoardIsFinite, FS_Product
  <2>2. IsFiniteSet(M)
    BY <2>1, <1>2, FS_Subset
  <2> QED
    BY <2>2, FS_CardinalityType
<1>5. order \in [1..n -> M] /\ DOMAIN order = 1..n
  BY <1>3 DEF Orders
<1>6. TakeOff(taken) /\ taken \subseteq byID
  BY <1>2 DEF TakePairs
<1>7. ASSUME NEW i \in 1..n
      PROVE  /\ first(i) \in byID /\ second(i) \in byID /\ CanPair(first(i), second(i))
             /\ first(i) \in taken /\ second(i) \in taken
  <2>1. order[i] \in M
    BY <1>5
  <2> QED
    BY <2>1, <1>2
\* One seek is in one pair, and no pair comes twice.
<1>8. ASSUME NEW i \in 1..n, NEW j \in 1..n,
             {first(i), second(i)} \cap {first(j), second(j)} # {}
      PROVE  i = j
  <2>1. order[i] \in M /\ order[j] \in M
    BY <1>5
  <2>2. order[i] = order[j]
    BY <2>1, <1>2, <1>8 DEF Disjoint
  <2>3. first(i)[2] \in Int
    BY <1>7, LobbyFacts, BoundAssumption DEF SeekIDs
  <2>4. i < j => first(i)[2] < first(j)[2]
    BY <1>3, <1>5 DEF OldestFirst
  <2>5. j < i => first(j)[2] < first(i)[2]
    BY <1>3, <1>5 DEF OldestFirst
  <2>6. first(j) = first(i)
    BY <2>2
  <2> HIDE DEF first
  <2>7. ~(i < j) /\ ~(j < i)
    BY <2>3, <2>4, <2>5, <2>6
  <2> QED
    BY <2>7, <1>4
<1> HIDE DEF first, second, n, taken
<1>9. \A i \in 1..n :
        /\ paired(i) \in Steps /\ paired(i).do \notin Making
        /\ StepSound(Pairer, paired(i), seeks, Len(sessions))
        /\ \A s : Carries(paired(i), s) <=> s = first(i) \/ s = second(i)
  BY <1>7, StartPairedIsFine
<1>10. /\ Then(Pairer, steps)
       /\ steps \in Seq(Steps) /\ Len(steps) = n
       /\ \A i \in 1..n : steps[i] = paired(i)
  <2>1. Then(Pairer, steps)
    BY <1>3, <1>5 DEF first, second
  <2>2. \A i \in 1..n : paired(i) \in Steps
    BY <1>9
  <2> HIDE DEF paired
  <2> QED
    BY <1>4, <2>1, <2>2
<1> HIDE DEF steps, paired
<1>11. BoardInv' /\ byID' = byID \ taken
  BY <1>6, LobbyFacts, TakeOffKeepsBoard
<1>12. /\ SeatsInv' /\ SocketsInv' /\ Grows(seeks, seeks') /\ Len(seeks') = Len(seeks)
       /\ Len(sessions) <= Len(sessions')
  BY <1>1, LobbyFacts, StillSeats, StillSockets
<1>13. \A s \in byID' : MadeIn(s, seeks')
  BY <1>1, <1>11, LobbyFacts DEF SeeksInv
<1>14. ASSUME NEW s \in SeekIDs
       PROVE  /\ CarriedIn(s, steps) => ~InSomeHand(s, agenda)
              /\ OneEscrow(s, sessions')
              /\ s \in byID' => ~HeldThen(s, Pairer, steps) /\ ~InSomeEscrow(s, sessions')
              /\ ~(HeldThen(s, Pairer, steps) /\ InSomeEscrow(s, sessions'))
  <2>1. InOnePlace(s, byID, agenda, sessions) /\ sessions' = sessions
    BY <1>1, LobbyFacts DEF PlacesInv
  <2>2. CarriedIn(s, steps) => s \in taken
    BY <1>7, <1>9, <1>10 DEF CarriedIn
  <2> QED
    BY <2>1, <2>2, <1>6, <1>11 DEF InOnePlace, HeldThen
<1>15. /\ \A i \in 1..Len(steps) :
            steps[i].do \notin Making /\ StepSound(Pairer, steps[i], seeks', Len(sessions'))
       /\ \A s \in SeekIDs : \A i, j \in 1..Len(steps) :
            Carries(steps[i], s) /\ Carries(steps[j], s) => i = j
  <2>1. \A i, j \in 1..n : \A s : Carries(paired(i), s) /\ Carries(paired(j), s) => i = j
    BY <1>8, <1>9
  <2> QED
    BY <1>1, <1>9, <1>10, <2>1
<1> QED
  BY <1>1, <1>10, <1>11, <1>12, <1>13, <1>14, <1>15, MovingStep

-----------------------------------------------------------------------------
(* The theorems.                                                           *)

LEMMA LobbyStarts == Init => LobbyInv
<1> SUFFICES ASSUME Init PROVE LobbyInv
  OBVIOUS
<1>1. /\ conn = [c \in Clients |-> IF c \in InitiallyOpen THEN "open" ELSE "new"]
      /\ seeks = <<>> /\ BoardInit /\ sessions = <<>>
      /\ participants = [c \in Clients |-> None]
      /\ agenda = [t \in Threads |-> <<>>] /\ updating = "no"
  BY DEF Init
<1>2. SocketsInv
  BY <1>1 DEF SocketsInv
<1>3. byID = {} /\ BoardInv
  BY <1>1 DEF BoardInit, BoardInv, BoardTypeOK, OneWaitEach
<1>4. SeeksInv
  BY <1>1, <1>3 DEF SeeksInv
<1>5. SeatsInv
  <2>1. sessions \in Seq(SessionRecords) /\ DOMAIN sessions = {}
    BY <1>1
  <2> QED
    BY <1>1, <2>1 DEF SeatsInv, ParticipantIsSeated, EmptyIsTimed
<1>6. /\ agenda \in [Threads -> Seq(Steps)]
      /\ \A t \in Threads : agenda[t] = <<>> /\ DOMAIN agenda[t] = {}
  BY <1>1
<1>7. AgendaInv
  <2>1. StepsOf(Making) = {}
    BY <1>6, MakingSteps
  <2>2. Cardinality(StepsOf(Making)) = 0
    BY <2>1, FS_EmptySet
  <2>3. Len(seeks) = 0
    BY <1>1
  <2> QED
    BY <1>6, <2>2, <2>3, BoundAssumption DEF AgendaInv
<1>8. PlacesInv
  BY <1>1, <1>3, <1>6 DEF PlacesInv, InOnePlace, InSomeHand, OneHand, InSomeEscrow, OneEscrow
<1> QED
  BY <1>2, <1>4, <1>5, <1>7, <1>8 DEF LobbyInv

LEMMA LobbyGoesOn == LobbyInv /\ [Next]_vars => LobbyInv'
<1> SUFFICES ASSUME LobbyInv, [Next]_vars PROVE LobbyInv'
  OBVIOUS
<1>1. ASSUME NEW c \in Clients, Command(c) PROVE LobbyInv'
  <2>1. CASE Connect(c) \/ Drop(c)
    BY <2>1, ConnectKeeps, DropKeeps
  <2>2. CASE JoinQueue(c) \/ SendChallenge(c) \/ Withdraw(c) \/ Decline(c) \/ Accept(c)
    BY <2>2, AskForGameKeeps, TakenOffKeeps, AcceptKeeps
  <2>3. CASE Abort(c) \/ MakeMove(c) \/ Resign(c) \/ RejoinGame(c)
    BY <2>3, AbortKeeps, ActKeeps, RejoinGameKeeps
  <2> QED
    BY <1>1, <2>1, <2>2, <2>3 DEF Command
<1>2. ASSUME NEW c \in Clients, Continue(c) PROVE LobbyInv'
  <2>1. CASE Rebind(c) \/ Detach(c) \/ Shelter(c) \/ Unseat(c) \/ Unregister(c)
    BY <2>1, RebindKeeps, DetachKeeps, ShelterKeeps, UnseatKeeps, UnregisterKeeps
  <2>2. CASE PostSeek(c) \/ Dispose(c) \/ ClaimSeek(c)
    BY <2>2, PostSeekKeeps, DisposeKeeps, ClaimSeekKeeps
  <2>3. CASE PlayMove(c) \/ MatchBegan(c) \/ PlayResign(c)
    BY <2>3, ThreadFacts, PlayMoveKeeps, MatchBeganKeeps, ResignAndAbandonKeep
  <2> QED
    BY <1>2, <2>1, <2>2, <2>3 DEF Continue
<1>3. ASSUME NEW t \in Threads, Shared(t) PROVE LobbyInv'
  <2>1. CASE ResolveSeats(t) \/ Release(t) \/ OpenGame(t) \/ InstallGame(t)
    BY <2>1, ResolveSeatsKeeps, ReleaseKeeps, OpenGameKeeps, InstallGameKeeps
  <2>2. CASE ReadMover(t) \/ CallOffUnstarted(t) \/ Discard(t) \/ Requeue(t)
    BY <2>2, ReadMoverKeeps, CallOffUnstartedKeeps, DiscardKeeps, RequeueKeeps
  <2>3. CASE AbandonGame(t) \/ FinishSession(t) \/ Retire(t)
    BY <2>3, ResignAndAbandonKeep, FinishSessionKeeps, DiscardKeeps
  <2> QED
    BY <1>3, <2>1, <2>2, <2>3 DEF Shared
<1>4. CASE Ticker
  BY <1>4, SweepsKeep, TakenOffKeeps, ClockEndsKeeps, NobodyCameBackKeeps DEF Ticker
<1>5. CASE PairTick \/ Pair \/ StopUnbegun
  BY <1>5, PairTickKeeps, PairKeeps, StopUnbegunKeeps
<1>6. CASE BeginUpdateDrain \/ DrainSweep \/ CancelUpdateDrain
  BY <1>6, DrainKeeps, SweepsKeep
<1>7. CASE UNCHANGED vars
  <2>1. UNCHANGED <<conn, seeks, byID, byOwner, sessions, participants, agenda, updating>>
    BY <1>7 DEF vars
  <2>2. SeatsInv' /\ FewerEscrows(sessions, sessions')
    BY <2>1, LobbyFacts, StillSeats
  <2>3. BoardInv' /\ byID' \subseteq byID /\ SocketsInv'
    BY <2>1, StillBoard, StillSockets
  <2> QED
    BY <2>1, <2>2, <2>3, AgendaAlone
<1> QED
  BY <1>1, <1>2, <1>3, <1>4, <1>5, <1>6, <1>7 DEF Next

\* Every reachable state is one LobbyInv describes.
LEMMA LobbyAlways == Spec => []LobbyInv
  BY LobbyStarts, LobbyGoesOn, PTL DEF Spec

\* A set nobody is in two places of has none, or one.
LEMMA FewAreCounted ==
  ASSUME NEW S, \A x, y \in S : x = y
  PROVE  Cardinality(S) = IF S = {} THEN 0 ELSE 1
<1>1. CASE S = {}
  BY <1>1, FS_EmptySet
<1>2. CASE S # {}
  <2>1. PICK x : x \in S
    BY <1>2
  <2>2. S = {x}
    BY <2>1
  <2> QED
    BY <1>2, <2>2, FS_Singleton
<1> QED
  BY <1>1, <1>2

\* Every variable holds what it should (Lobby!LobbyTypeOK).
THEOREM LobbyIsTyped == Spec => []LobbyTypeOK
<1>1. LobbyInv => LobbyTypeOK
  BY LobbyFacts DEF LobbyTypeOK, SocketsInv, BoardInv
<1> QED
  BY <1>1, LobbyAlways, PTL

\* A seek is on the board, in the hands of one thread, or in the escrow of one
\* game, and in no two of these at once: what is on the board is carried by
\* nobody, and whoever claims, sweeps, aborts or requeues comes away with it
\* alone (Lobby!ASeekIsInOnePlace).
THEOREM SeeksAreInOnePlace == Spec => []ASeekIsInOnePlace
<1>1. ASSUME LobbyInv PROVE ASeekIsInOnePlace
  <2> SUFFICES ASSUME NEW n \in DOMAIN seeks
               PROVE  LET s == <<seeks[n].owner, n>>
                      IN  (IF s \in byID THEN 1 ELSE 0)
                            + Cardinality(InHand(s)) + Cardinality(InEscrow(s)) <= 1
    BY DEF ASeekIsInOnePlace
  <2> DEFINE s == <<seeks[n].owner, n>>
  <2>1. s \in SeekIDs
    <3>1. Len(seeks) <= MaxSeeks
      BY <1>1, LobbyFacts, MakersAreFew, BoundAssumption DEF AgendaInv
    <3>2. n \in 1..MaxSeeks /\ seeks[n] \in SeekRecords
      BY <1>1, <3>1, LobbyFacts, BoundAssumption
    <3> QED
      BY <3>2 DEF SeekIDs, SeekRecords
  <2> HIDE DEF s
  <2>2. InOnePlace(s, byID, agenda, sessions)
    BY <1>1, <2>1, LobbyFacts DEF PlacesInv
  <2>3. \A x : x \in InHand(s) <=>
          \E t \in Threads : \E i \in DOMAIN agenda[t] : x = <<t, i>> /\ Carries(agenda[t][i], s)
    BY DEF InHand
  <2>4. \A g : g \in InEscrow(s) <=> g \in DOMAIN sessions /\ Keeps(sessions[g], s)
    BY DEF InEscrow, Keeps
  <2>5. /\ \A x, y \in InHand(s) : x = y
        /\ InHand(s) # {} <=> InSomeHand(s, agenda)
    <3>1. ASSUME NEW x \in InHand(s), NEW y \in InHand(s) PROVE x = y
      <4>1. PICK t \in Threads : \E i \in DOMAIN agenda[t] : x = <<t, i>> /\ Carries(agenda[t][i], s)
        BY <2>3
      <4>2. PICK i \in DOMAIN agenda[t] : x = <<t, i>> /\ Carries(agenda[t][i], s)
        BY <4>1
      <4>3. PICK u \in Threads : \E j \in DOMAIN agenda[u] : y = <<u, j>> /\ Carries(agenda[u][j], s)
        BY <2>3
      <4>4. PICK j \in DOMAIN agenda[u] : y = <<u, j>> /\ Carries(agenda[u][j], s)
        BY <4>3
      <4> QED
        BY <2>2, <4>2, <4>4 DEF InOnePlace, OneHand
    <3>2. InHand(s) # {} <=> \E x : x \in InHand(s)
      OBVIOUS
    <3>3. (\E x : x \in InHand(s)) <=> InSomeHand(s, agenda)
      BY <2>3 DEF InSomeHand
    <3> QED
      BY <3>1, <3>2, <3>3
  <2>6. /\ \A g, h \in InEscrow(s) : g = h
        /\ InEscrow(s) # {} <=> InSomeEscrow(s, sessions)
    BY <2>2, <2>4 DEF InOnePlace, OneEscrow, InSomeEscrow
  <2>7. /\ Cardinality(InHand(s)) = IF InSomeHand(s, agenda) THEN 1 ELSE 0
        /\ Cardinality(InEscrow(s)) = IF InSomeEscrow(s, sessions) THEN 1 ELSE 0
    BY <2>5, <2>6, FewAreCounted
  <2>8. (IF s \in byID THEN 1 ELSE 0)
          + Cardinality(InHand(s)) + Cardinality(InEscrow(s)) <= 1
    BY <2>2, <2>7 DEF InOnePlace
  <2> QED
    BY <2>8 DEF s
<1> QED
  BY <1>1, LobbyAlways, PTL

\* Whoever the server takes to be playing is in a live game, in that very seat
\* (Lobby!ParticipantIsSeated).
THEOREM ParticipantsAreSeated == Spec => []ParticipantIsSeated
<1>1. LobbyInv => ParticipantIsSeated
  BY DEF LobbyInv, SeatsInv
<1> QED
  BY <1>1, LobbyAlways, PTL

\* Somebody who plays a seat is its socket, and its clock does not run.
LEMMA PlayedSeatsAreNotTimed ==
  ASSUME LobbyInv, NEW c \in Clients, NEW s \in DOMAIN sessions, NEW color \in Colors,
         Plays(c, s, color)
  PROVE  sessions[s].socket[color] = c /\ ~sessions[s].absent[color]
<1>1. [session |-> s, color |-> color] \in Places
  BY LobbyFacts DEF Places
<1>2. participants[c] # None /\ participants[c].session = s /\ participants[c].color = color
  BY <1>1, NoneAssumption DEF Plays
<1>3. sessions[s].socket[color] = c
  BY <1>2, LobbyFacts DEF SeatsInv, ParticipantIsSeated
<1>4. c # None
  BY NoneAssumption
<1> QED
  BY <1>3, <1>4, LobbyFacts DEF SeatsInv, EmptyIsTimed

\* Only Connect, Drop, Unseat and Unregister say where a socket is in its life.
LEMMA SocketsStay ==
  ASSUME LobbyInv, [Next]_vars, NEW c \in Clients, Stays(c)
  PROVE  Stays(c)' \/ Unseat(c)
<1>1. conn \in [Clients -> {"new", "open", "closing", "leaving", "gone"}]
  BY LobbyFacts DEF SocketsInv
<1>2. ASSUME NEW d \in Clients, Connect(d) \/ Drop(d) \/ Unregister(d) PROVE Stays(c)'
  BY <1>1, <1>2 DEF Connect, Drop, Unregister, Stays
<1>3. ASSUME NEW d \in Clients, Unseat(d) PROVE Stays(c)' \/ Unseat(c)
  BY <1>1, <1>3 DEF Unseat, Stays
<1>4. ASSUME UNCHANGED conn PROVE Stays(c)'
  BY <1>4 DEF Stays
<1>5. ASSUME NEW d \in Clients, Command(d) \/ Continue(d) PROVE Stays(c)' \/ Unseat(c)
  <2>1. \/ Connect(d) \/ Drop(d) \/ Unregister(d) \/ Unseat(d)
        \/ UNCHANGED conn
    BY <1>5 DEF Command, Continue, JoinQueue, SendChallenge, AskForGame, Withdraw, Decline,
                Accept, Abort, MakeMove, Resign, Act, RejoinGame, Rebind, Detach, Shelter,
                PostSeek, Dispose, ClaimSeek, PlayMove, MatchBegan, PlayResign
  <2> QED
    BY <1>2, <1>3, <1>4, <2>1
<1>6. ASSUME NEW t \in Threads, Shared(t) PROVE UNCHANGED conn
  BY <1>6 DEF Shared, ResolveSeats, Release, OpenGame, InstallGame, ReadMover, CallOffUnstarted,
              Discard, Requeue, AbandonGame, FinishSession, Retire
<1>7. ASSUME \/ PairTick \/ Pair \/ Ticker \/ StopUnbegun
             \/ BeginUpdateDrain \/ DrainSweep \/ CancelUpdateDrain \/ UNCHANGED vars
      PROVE  UNCHANGED conn
  BY <1>7 DEF PairTick, Pair, Ticker, StopUnbegun, BeginUpdateDrain, DrainSweep,
              CancelUpdateDrain, SweepUnstarted, ExpireChallenges, ClockEnds, NobodyCameBack, vars
<1> QED
  BY <1>4, <1>5, <1>6, <1>7 DEF Next

\* Who takes a player out of a seat: the socket that goes, another tab in its
\* place, another game, or the list the game leaves.
Reseats(s, color) ==
  \E d \in Clients : conn[d] = "open" /\ UNCHANGED conn /\ Plays(d, s, color)'

LEMMA PlayersStay ==
  ASSUME LobbyInv, LobbyInv', [Next]_vars, NEW c \in Clients, NEW s \in DOMAIN sessions,
         NEW color \in Colors, Plays(c, s, color), Live(s)'
  PROVE  \/ Plays(c, s, color)' \/ Unseat(c) \/ Reseats(s, color)
         \/ SeatedTwice(s, color)
<1>1. /\ participants \in [Clients -> Places \cup {None}]
      /\ sessions[s].socket[color] = c
      /\ [session |-> s, color |-> color] \in Places
      /\ None \notin Places
  BY LobbyFacts, PlayedSeatsAreNotTimed, NoneAssumption DEF Places
<1>2. ASSUME participants'[c] = participants[c] PROVE Plays(c, s, color)'
  BY <1>2 DEF Plays
<1>3. ASSUME NEW g \in DOMAIN sessions', NEW other \in Colors,
             sessions'[g].listed, sessions'[g].socket[other] = c
      PROVE  <<g, other>> = <<s, color>> \/ SeatedTwice(s, color)
  BY <1>3 DEF SeatedTwice, SitsElsewhere, Live
<1>4. ASSUME NEW d \in Clients, Unseat(d) PROVE Plays(c, s, color)' \/ Unseat(c)
  BY <1>1, <1>2, <1>4 DEF Unseat
<1>5. ASSUME NEW t \in Threads, InstallGame(t)
      PROVE  Plays(c, s, color)' \/ SeatedTwice(s, color)
  <2>1. CASE \E x \in Colors : Step(t).socket[x] = c
    <3>1. PICK x \in Colors : Step(t).socket[x] = c
      BY <2>1
    <3>2. PICK game : /\ sessions' = Append(sessions, game)
                      /\ game.socket = Step(t).socket /\ game.listed = TRUE
      BY <1>5 DEF InstallGame
    <3>3. PICK g : g = Len(sessions) + 1
      OBVIOUS
    <3>4. g \in DOMAIN sessions' /\ sessions'[g] = game
      BY <3>2, <3>3, LobbyFacts
    <3>5. g # s
      BY <3>3, LobbyFacts
    <3>6. sessions'[g].listed /\ sessions'[g].socket[x] = c
      BY <3>1, <3>2, <3>4
    <3>7. <<g, x>> = <<s, color>> \/ SeatedTwice(s, color)
      BY <1>3, <3>4, <3>6
    <3> QED
      BY <3>5, <3>7
  <2>2. CASE ~(\E x \in Colors : Step(t).socket[x] = c)
    BY <1>2, <1>5, <2>2 DEF InstallGame
  <2> QED
    BY <2>1, <2>2
<1>6. ASSUME NEW d \in Clients, RejoinGame(d)
      PROVE  \/ Plays(c, s, color)' \/ Reseats(s, color) \/ SeatedTwice(s, color)
  <2>1. PICK g \in DOMAIN sessions, other \in Colors :
          /\ Live(g) /\ conn[d] = "open" /\ UNCHANGED conn
          /\ \/ UNCHANGED participants
             \/ /\ sessions' = Reseated(g, other, d)
                /\ participants' = [e \in Clients |->
                     IF e = d THEN [session |-> g, color |-> other]
                     ELSE IF e = sessions[g].socket[other] THEN None ELSE participants[e]]
    BY <1>6 DEF RejoinGame, Asks
  <2>2. CASE UNCHANGED participants
    BY <2>2, <1>2
  <2>3. CASE g = s /\ other = color /\ participants'[d] = [session |-> g, color |-> other]
    BY <2>1, <2>3 DEF Reseats, Plays
  <2>4. CASE c # d /\ c = sessions[g].socket[other] /\ <<g, other>> # <<s, color>>
    BY <2>1, <2>4 DEF SeatedTwice, SitsElsewhere
  <2>5. CASE c = d /\ sessions' = Reseated(g, other, d) /\ <<g, other>> # <<s, color>>
    <3>1. sessions[g] \in SessionRecords
      BY LobbyFacts
    <3>2. /\ g \in DOMAIN sessions' /\ sessions'[g].listed = sessions[g].listed
          /\ sessions'[g].socket[other] = d
      BY <2>5, <3>1 DEF Reseated, SessionRecords, SocketPairs
    <3> QED
      BY <1>3, <2>1, <2>5, <3>2 DEF Live
  <2>6. CASE c # d /\ c # sessions[g].socket[other] /\ ~UNCHANGED participants
    BY <2>1, <2>6, <1>2
  <2> QED
    BY <2>1, <2>2, <2>3, <2>4, <2>5, <2>6
<1>7. ASSUME NEW t \in Threads, Discard(t) \/ Retire(t) PROVE Plays(c, s, color)'
  <2>1. PICK g : Unlisted(g)
    BY <1>7 DEF Discard, Retire
  <2>2. CASE UNCHANGED participants
    BY <2>2, <1>2
  <2>3. CASE /\ sessions' = [sessions EXCEPT ![g].listed = FALSE]
             /\ participants' = [d \in Clients |->
                  IF /\ \E x \in Colors : sessions[g].socket[x] = d
                     /\ participants[d] # None /\ participants[d].session = g
                  THEN None ELSE participants[d]]
    <3>1. g # s
      BY <2>3 DEF Live
    <3>2. participants[c].session # g
      BY <3>1 DEF Plays
    <3> QED
      BY <2>3, <3>2, <1>2
  <2> QED
    BY <2>1, <2>2, <2>3 DEF Unlisted
<1>8. ASSUME NEW d \in Clients, Command(d) \/ Continue(d)
      PROVE  \/ Plays(c, s, color)' \/ Unseat(c) \/ Reseats(s, color)
             \/ SeatedTwice(s, color)
  <2>1. RejoinGame(d) \/ Unseat(d) \/ UNCHANGED participants
    BY <1>8 DEF Command, Continue, Connect, Drop, JoinQueue, SendChallenge, AskForGame,
                Withdraw, Decline, Accept, Abort, MakeMove, Resign, Act, Rebind, Detach,
                Shelter, Unregister, PostSeek, Dispose, ClaimSeek, PlayMove, MatchBegan,
                PlayResign
  <2> QED
    BY <1>2, <1>4, <1>6, <2>1
<1>9. ASSUME NEW t \in Threads, Shared(t) PROVE Plays(c, s, color)' \/ SeatedTwice(s, color)
  <2>1. InstallGame(t) \/ Discard(t) \/ Retire(t) \/ UNCHANGED participants
    BY <1>9 DEF Shared, ResolveSeats, Release, OpenGame, ReadMover, CallOffUnstarted,
                Requeue, AbandonGame, FinishSession
  <2> QED
    BY <1>2, <1>5, <1>7, <2>1
<1>10. ASSUME \/ PairTick \/ Pair \/ Ticker \/ StopUnbegun
              \/ BeginUpdateDrain \/ DrainSweep \/ CancelUpdateDrain \/ UNCHANGED vars
       PROVE  UNCHANGED participants
  BY <1>10 DEF PairTick, Pair, Ticker, StopUnbegun, BeginUpdateDrain, DrainSweep,
               CancelUpdateDrain, SweepUnstarted, ExpireChallenges, ClockEnds, NobodyCameBack,
               vars
<1> QED
  BY <1>2, <1>8, <1>9, <1>10 DEF Next

\* The socket that goes leaves its seat timed.
LEMMA UnseatTimes ==
  ASSUME LobbyInv, NEW c \in Clients, NEW s \in DOMAIN sessions, NEW color \in Colors,
         Plays(c, s, color), Unseat(c)
  PROVE  sessions'[s].absent[color]
<1>1. /\ [session |-> s, color |-> color] # None
      /\ participants[c] = [session |-> s, color |-> color]
      /\ sessions[s].socket[color] = c /\ sessions[s] \in SessionRecords
  BY LobbyFacts, PlayedSeatsAreNotTimed, NoneAssumption DEF Plays, Places
<1>2. sessions' = [sessions EXCEPT ![s].socket[color] = None, ![s].absent[color] = TRUE]
  BY <1>1 DEF Unseat, Vacated
<1> QED
  BY <1>1, <1>2 DEF SessionRecords, SocketPairs

\* While a socket plays a seat nobody is ruled to have left it, and its clock
\* starts in the step that takes the last such socket out, unless that socket
\* sits in two games (Lobby!SeatsAreTimedAsTheyAreLeft).
THEOREM SeatsAreTimedOnceLeft == Spec => SeatsAreTimedAsTheyAreLeft
<1>1. LobbyInv => \A s \in DOMAIN sessions, color \in Colors :
                    Kept(s, color) => ~sessions[s].absent[color]
  BY PlayedSeatsAreNotTimed DEF Kept
<1>2. LobbyInv /\ LobbyInv' /\ [Next]_vars =>
        [\A s \in DOMAIN sessions, color \in Colors :
           Kept(s, color) /\ Live(s)' =>
             \/ Kept(s, color)'
             \/ sessions'[s].absent[color]
             \/ SeatedTwice(s, color)]_vars
  <2> SUFFICES ASSUME LobbyInv, LobbyInv', [Next]_vars,
                      NEW s \in DOMAIN sessions, NEW color \in Colors,
                      Kept(s, color), Live(s)'
               PROVE  Kept(s, color)' \/ sessions'[s].absent[color] \/ SeatedTwice(s, color)
    OBVIOUS
  <2>1. PICK c \in Clients : Plays(c, s, color) /\ Stays(c)
    BY DEF Kept
  <2>2. Stays(c)' \/ Unseat(c)
    BY <2>1, SocketsStay
  <2>3. \/ Plays(c, s, color)' \/ Unseat(c) \/ Reseats(s, color) \/ SeatedTwice(s, color)
    BY <2>1, PlayersStay
  <2>4. CASE Unseat(c)
    BY <2>1, <2>4, UnseatTimes
  <2>5. CASE Plays(c, s, color)' /\ Stays(c)'
    BY <2>5 DEF Kept
  <2>6. CASE Reseats(s, color)
    BY <2>6 DEF Reseats, Kept, Stays
  <2> QED
    BY <2>2, <2>3, <2>4, <2>5, <2>6
<1> QED
  BY <1>1, <1>2, LobbyAlways, PTL DEF Spec, SeatsAreTimedAsTheyAreLeft

\* A game offered to one person is played by that person, and nobody plays a
\* side they did not ask for or agree to (Lobby!EveryGameIsAsAskedFor).
THEOREM GamesAreAsAskedFor == Spec => []EveryGameIsAsAskedFor
<1>1. ASSUME LobbyInv PROVE EveryGameIsAsAskedFor
  <2>1. ASSUME NEW g \in DOMAIN sessions, NEW color \in Colors
        PROVE  LET target == TheSeek(sessions[g].seats[color].seek).target
               IN  target # None => PlayerOf(g, OtherColor(color)) = target
    <3>1. SeatsSound(sessions[g].seats, seeks)
      BY <1>1, LobbyFacts DEF SeatsInv
    <3> QED
      BY <3>1 DEF SeatsSound, KeptPrivate, TheSeek, PlayerOf
  <2>2. ASSUME NEW g \in DOMAIN sessions, NEW color \in Colors
        PROVE  LET seat == sessions[g].seats[color]
                   other == sessions[g].seats[OtherColor(color)]
                   takesIt == ~seat.requeue /\ other.seek[2] < seat.seek[2]
               IN  ~takesIt => TheSeek(seat.seek).setup.color \in {Neutral, color}
    <3>1. SeatsSound(sessions[g].seats, seeks)
      BY <1>1, LobbyFacts DEF SeatsInv
    <3> QED
      BY <3>1 DEF SeatsSound, SidesAskedFor, TheSeek
  <2> QED
    BY <2>1, <2>2 DEF EveryGameIsAsAskedFor, PrivateGameIsPrivate, EverySeatIsTheOneAskedFor
<1> QED
  BY <1>1, LobbyAlways, PTL

\* Nobody waits in two places: the board's two maps agree, whichever of the
\* lobby's threads wrote them (SeekBoard!OneWaitEach).
THEOREM LobbyKeepsOneWaitEach == Spec => []OneWaitEach
<1>1. LobbyInv => OneWaitEach
  BY LobbyFacts DEF BoardInv
<1> QED
  BY <1>1, LobbyAlways, PTL

-----------------------------------------------------------------------------
(* That Lobby implements Matchmaking: whatever thread carries a seek from  *)
(* the board to a game or back, each of its steps is one of the few things *)
(* that can happen to a seek, or nothing at all.                           *)
(*                                                                         *)
(* What becomes of a seek is read off the one place it is in, so the proof *)
(* says for each action which seeks change places: all the others keep     *)
(* their fate, and of those that move Matchmaking has to know.             *)
-----------------------------------------------------------------------------
(* What becomes of a seek, of the lobby's state given.                     *)

\* FateOf, of the seeks made, the board, the agendas and the games given.
FateIn(s, made, on, todo, games) ==
  IF ~MadeIn(s, made) THEN Alone("unmade")
  ELSE LET hands == UNION {{<<t, i>> : i \in {i \in DOMAIN todo[t] : Carries(todo[t][i], s)}} :
                             t \in Threads}
           held == {g \in DOMAIN games : games[g].escrow # "none" /\ Seated(s, games[g].seats)}
       IN  CASE hands = {} /\ held = {} -> Alone(IF s \in on THEN "waiting" ELSE "gone")
             [] held = {} /\ IsOne(hands) /\ s \notin on ->
                  FateInHand(s, todo[TheOne(hands)[1]][TheOne(hands)[2]])
             [] hands = {} /\ IsOne(held) /\ s \notin on -> FateInGame(s, games[TheOne(held)])
             [] OTHER -> Alone("torn")

LEMMA FateIsFateIn ==
  /\ \A s : FateOf(s) = FateIn(s, seeks, byID, agenda, sessions)
  /\ \A s : FateOf(s)' = FateIn(s, seeks', byID', agenda', sessions')
<1>1. ASSUME NEW s PROVE FateOf(s) = FateIn(s, seeks, byID, agenda, sessions)
  BY DEF FateOf, FateIn, Made, MadeIn, InHand, InEscrow, StepAt
<1>2. ASSUME NEW s PROVE FateOf(s)' = FateIn(s, seeks', byID', agenda', sessions')
  BY DEF FateOf, FateIn, Made, MadeIn, InHand, InEscrow, StepAt
<1> QED
  BY <1>1, <1>2

StepFate(s, step, f) == Carries(step, s) /\ f = FateInHand(s, step)

HandFate(s, todo, f) ==
  \E t \in Threads : \E i \in DOMAIN todo[t] : StepFate(s, todo[t][i], f)

GameFate(s, games, f) ==
  \E g \in DOMAIN games : Keeps(games[g], s) /\ f = FateInGame(s, games[g])

LEMMA FatesAreSome ==
  \A s, todo, games :
    /\ InSomeHand(s, todo) <=> \E f : HandFate(s, todo, f)
    /\ InSomeEscrow(s, games) <=> \E f : GameFate(s, games, f)
  BY DEF InSomeHand, InSomeEscrow, HandFate, GameFate, StepFate

\* A set of one has the one it has.
LEMMA OnlyOne ==
  ASSUME NEW S, NEW x \in S, \A y \in S : y = x
  PROVE  IsOne(S) /\ TheOne(S) = x
<1>1. S = {x}
  OBVIOUS
<1>2. Cardinality(S) = 1
  BY <1>1, FS_Singleton
<1>3. TheOne({x}) = x
  BY DEF TheOne
<1> QED
  BY <1>1, <1>2, <1>3 DEF IsOne

\* A seek that is in one place has the fate that goes with it.
LEMMA FateInOnePlace ==
  ASSUME NEW made, NEW on, NEW todo, NEW games, NEW s, MadeIn(s, made),
         InOnePlace(s, on, todo, games)
  PROVE  /\ s \in on => FateIn(s, made, on, todo, games) = Alone("waiting")
         /\ \A f : HandFate(s, todo, f) => FateIn(s, made, on, todo, games) = f
         /\ \A f : GameFate(s, games, f) => FateIn(s, made, on, todo, games) = f
         /\ s \notin on /\ ~InSomeHand(s, todo) /\ ~InSomeEscrow(s, games) =>
              FateIn(s, made, on, todo, games) = Alone("gone")
<1> DEFINE hands == UNION {{<<t, i>> : i \in {i \in DOMAIN todo[t] : Carries(todo[t][i], s)}} :
                             t \in Threads}
           held == {g \in DOMAIN games : games[g].escrow # "none" /\ Seated(s, games[g].seats)}
<1>1. FateIn(s, made, on, todo, games) =
        CASE hands = {} /\ held = {} -> Alone(IF s \in on THEN "waiting" ELSE "gone")
          [] held = {} /\ IsOne(hands) /\ s \notin on ->
               FateInHand(s, todo[TheOne(hands)[1]][TheOne(hands)[2]])
          [] hands = {} /\ IsOne(held) /\ s \notin on -> FateInGame(s, games[TheOne(held)])
          [] OTHER -> Alone("torn")
  BY DEF FateIn
<1>2. \A x : x \in hands <=>
        \E t \in Threads : \E i \in DOMAIN todo[t] : x = <<t, i>> /\ Carries(todo[t][i], s)
  OBVIOUS
<1>3. \A g : g \in held <=> g \in DOMAIN games /\ Keeps(games[g], s)
  BY DEF Keeps
<1> HIDE DEF hands, held
<1>4. /\ ~InSomeHand(s, todo) => hands = {}
      /\ ~InSomeEscrow(s, games) => held = {}
  BY <1>2, <1>3 DEF InSomeHand, InSomeEscrow
<1>5. ~IsOne({})
  BY FS_EmptySet DEF IsOne
<1>6. ASSUME NEW f, HandFate(s, todo, f)
      PROVE  FateIn(s, made, on, todo, games) = f
  <2>1. PICK t \in Threads : \E i \in DOMAIN todo[t] : StepFate(s, todo[t][i], f)
    BY <1>6 DEF HandFate
  <2>2. PICK i \in DOMAIN todo[t] : Carries(todo[t][i], s) /\ f = FateInHand(s, todo[t][i])
    BY <2>1 DEF StepFate
  <2>3. PICK x : x = <<t, i>>
    OBVIOUS
  <2>4. x \in hands /\ x[1] = t /\ x[2] = i
    BY <1>2, <2>2, <2>3
  <2>5. \A y \in hands : y = x
    BY <1>2, <2>2, <2>3 DEF InOnePlace, OneHand
  <2>6. IsOne(hands) /\ TheOne(hands) = x
    BY <2>4, <2>5, OnlyOne
  <2>7. InSomeHand(s, todo)
    BY <2>2 DEF InSomeHand
  <2>8. held = {} /\ hands # {} /\ s \notin on
    BY <2>4, <2>7, <1>4 DEF InOnePlace
  <2> QED
    BY <1>1, <1>5, <2>2, <2>4, <2>6, <2>8
<1>7. ASSUME NEW f, GameFate(s, games, f)
      PROVE  FateIn(s, made, on, todo, games) = f
  <2>1. PICK g \in DOMAIN games : Keeps(games[g], s) /\ f = FateInGame(s, games[g])
    BY <1>7 DEF GameFate
  <2>2. g \in held /\ \A h \in held : h = g
    BY <1>3, <2>1 DEF InOnePlace, OneEscrow
  <2>3. IsOne(held) /\ TheOne(held) = g
    BY <2>2, OnlyOne
  <2>4. InSomeEscrow(s, games)
    BY <2>1 DEF InSomeEscrow
  <2>5. hands = {} /\ held # {} /\ s \notin on
    BY <2>2, <2>4, <1>4 DEF InOnePlace
  <2> QED
    BY <1>1, <1>5, <2>1, <2>3, <2>5
<1>8. s \in on => ~InSomeHand(s, todo) /\ ~InSomeEscrow(s, games)
  BY DEF InOnePlace
<1> QED
  BY <1>1, <1>4, <1>5, <1>6, <1>7, <1>8

\* A seek's fate in so many words.
IsFate(s, f, made, on, todo, games) ==
  \/ ~MadeIn(s, made) /\ f = Alone("unmade")
  \/ MadeIn(s, made) /\ s \in on /\ f = Alone("waiting")
  \/ MadeIn(s, made) /\ HandFate(s, todo, f)
  \/ MadeIn(s, made) /\ GameFate(s, games, f)
  \/ /\ MadeIn(s, made) /\ s \notin on /\ f = Alone("gone")
     /\ \A h : ~HandFate(s, todo, h) /\ ~GameFate(s, games, h)

LEMMA FateInIsFate ==
  ASSUME NEW made, NEW on, NEW todo, NEW games, NEW s, InOnePlace(s, on, todo, games)
  PROVE  \A f : FateIn(s, made, on, todo, games) = f <=> IsFate(s, f, made, on, todo, games)
<1>1. CASE ~MadeIn(s, made)
  BY <1>1 DEF FateIn, IsFate
<1>2. CASE MadeIn(s, made)
  <2>1. /\ s \in on => FateIn(s, made, on, todo, games) = Alone("waiting")
        /\ \A f : HandFate(s, todo, f) => FateIn(s, made, on, todo, games) = f
        /\ \A f : GameFate(s, games, f) => FateIn(s, made, on, todo, games) = f
        /\ s \notin on /\ ~InSomeHand(s, todo) /\ ~InSomeEscrow(s, games) =>
             FateIn(s, made, on, todo, games) = Alone("gone")
    BY <1>2, FateInOnePlace
  <2>2. /\ InSomeHand(s, todo) <=> \E f : HandFate(s, todo, f)
        /\ InSomeEscrow(s, games) <=> \E f : GameFate(s, games, f)
    BY FatesAreSome
  <2> QED
    BY <1>2, <2>1, <2>2 DEF IsFate
<1> QED
  BY <1>1, <1>2

LEMMA FateNow ==
  ASSUME LobbyInv, NEW s \in SeekIDs
  PROVE  /\ \A f : FateOf(s) = f <=> IsFate(s, f, seeks, byID, agenda, sessions)
         /\ InOnePlace(s, byID, agenda, sessions)
<1>1. InOnePlace(s, byID, agenda, sessions)
  BY LobbyFacts DEF PlacesInv
<1> QED
  BY <1>1, FateIsFateIn, FateInIsFate

LEMMA FateNext ==
  ASSUME LobbyInv', NEW s \in SeekIDs
  PROVE  /\ \A f : FateOf(s)' = f <=> IsFate(s, f, seeks', byID', agenda', sessions')
         /\ InOnePlace(s, byID', agenda', sessions')
<1>1. InOnePlace(s, byID', agenda', sessions')
  BY DEF LobbyInv, PlacesInv
<1> QED
  BY <1>1, FateIsFateIn, FateInIsFate

\* A seek that is where it was has the fate it had.
SamePlace(s) ==
  /\ MadeIn(s, seeks) <=> MadeIn(s, seeks')
  /\ s \in byID <=> s \in byID'
  /\ \A f : HandFate(s, agenda, f) <=> HandFate(s, agenda', f)
  /\ \A f : GameFate(s, sessions, f) <=> GameFate(s, sessions', f)

LEMMA FateStays ==
  ASSUME LobbyInv, LobbyInv', NEW s \in SeekIDs, SamePlace(s)
  PROVE  FateOf(s)' = FateOf(s)
<1>1. \A f : IsFate(s, f, seeks, byID, agenda, sessions) <=>
             IsFate(s, f, seeks', byID', agenda', sessions')
  BY DEF SamePlace, IsFate
<1> QED
  BY <1>1, FateNow, FateNext

-----------------------------------------------------------------------------
(* What a thread that goes on or starts does to the fates in hand.         *)

\* The fates in every hand but the one at the head of thread t's agenda.
RestFate(s, t, f) ==
  \E u \in Threads : \E i \in DOMAIN agenda[u] :
    (u # t \/ i # 1) /\ StepFate(s, agenda[u][i], f)

StepsFate(s, steps, f) == \E i \in 1..Len(steps) : StepFate(s, steps[i], f)

LEMMA HandsThen ==
  ASSUME agenda \in [Threads -> Seq(Steps)],
         NEW t \in Threads, ~Idle(t), NEW steps \in Seq(Steps), Then(t, steps), NEW s, NEW f
  PROVE  /\ HandFate(s, agenda, f) <=> StepFate(s, Step(t), f) \/ RestFate(s, t, f)
         /\ HandFate(s, agenda', f) <=> StepsFate(s, steps, f) \/ RestFate(s, t, f)
<1>1. /\ agenda' \in [Threads -> Seq(Steps)]
      /\ \A u \in Threads \ {t} : agenda'[u] = agenda[u]
      /\ Len(agenda'[t]) = Len(steps) + (Len(agenda[t]) - 1)
      /\ \A j \in 1..Len(agenda'[t]) :
           agenda'[t][j] = IF j <= Len(steps) THEN steps[j]
                           ELSE agenda[t][(j - Len(steps)) + 1]
  BY AgendaThen
<1>2. /\ 1 \in DOMAIN agenda[t] /\ Step(t) = agenda[t][1]
      /\ DOMAIN agenda[t] = 1..Len(agenda[t]) /\ Len(agenda[t]) \in Nat
      /\ DOMAIN agenda'[t] = 1..Len(agenda'[t]) /\ Len(steps) \in Nat
  BY <1>1, HeadStep
<1>3. HandFate(s, agenda, f) <=> StepFate(s, Step(t), f) \/ RestFate(s, t, f)
  BY <1>2 DEF HandFate, RestFate
<1>4. ASSUME NEW u \in Threads, NEW j \in DOMAIN agenda'[u], StepFate(s, agenda'[u][j], f)
      PROVE  StepsFate(s, steps, f) \/ RestFate(s, t, f)
  <2>1. CASE u # t
    BY <2>1, <1>1, <1>4 DEF RestFate
  <2>2. CASE u = t
    <3>1. j \in 1..Len(agenda'[t])
      BY <2>2, <1>2
    <3>2. CASE j <= Len(steps)
      <4>1. j \in 1..Len(steps) /\ agenda'[t][j] = steps[j]
        BY <3>1, <3>2, <1>1
      <4> QED
        BY <4>1, <2>2, <1>4 DEF StepsFate
    <3>3. CASE ~(j <= Len(steps))
      <4>1. PICK k : k = (j - Len(steps)) + 1
        OBVIOUS
      <4>2. k \in DOMAIN agenda[t] /\ k # 1
        BY <4>1, <3>1, <3>3, <1>1, <1>2
      <4>3. agenda'[t][j] = agenda[t][k]
        BY <4>1, <3>1, <3>3, <1>1
      <4> QED
        BY <4>2, <4>3, <2>2, <1>4 DEF RestFate
    <3> QED
      BY <3>2, <3>3
  <2> QED
    BY <2>1, <2>2
<1>5. ASSUME NEW i \in 1..Len(steps), StepFate(s, steps[i], f)
      PROVE  HandFate(s, agenda', f)
  <2>1. i \in 1..Len(agenda'[t]) /\ i <= Len(steps)
    BY <1>1, <1>2
  <2>2. i \in DOMAIN agenda'[t] /\ agenda'[t][i] = steps[i]
    BY <2>1, <1>1, <1>2
  <2> QED
    BY <2>2, <1>5 DEF HandFate
<1>6. ASSUME NEW u \in Threads, NEW i \in DOMAIN agenda[u], u # t \/ i # 1,
             StepFate(s, agenda[u][i], f)
      PROVE  HandFate(s, agenda', f)
  <2>1. CASE u # t
    BY <2>1, <1>1, <1>6 DEF HandFate
  <2>2. CASE u = t
    <3>1. i \in 2..Len(agenda[t])
      BY <2>2, <1>2, <1>6
    <3>2. PICK j : j = (i + Len(steps)) - 1
      OBVIOUS
    <3>3. j \in 1..Len(agenda'[t]) /\ ~(j <= Len(steps)) /\ (j - Len(steps)) + 1 = i
      BY <3>1, <3>2, <1>1, <1>2
    <3>4. agenda'[t][j] = agenda[t][i]
      BY <3>3, <1>1
    <3> QED
      BY <3>3, <3>4, <2>2, <1>2, <1>6 DEF HandFate
  <2> QED
    BY <2>1, <2>2
<1>7. HandFate(s, agenda', f) => StepsFate(s, steps, f) \/ RestFate(s, t, f)
  BY <1>4 DEF HandFate
<1>8. StepsFate(s, steps, f) \/ RestFate(s, t, f) => HandFate(s, agenda', f)
  BY <1>5, <1>6 DEF StepsFate, RestFate
<1> QED
  BY <1>3, <1>7, <1>8

LEMMA HandsBegin ==
  ASSUME agenda \in [Threads -> Seq(Steps)],
         NEW t \in Threads, NEW steps \in Seq(Steps), Begin(t, steps), NEW s, NEW f
  PROVE  HandFate(s, agenda', f) <=> StepsFate(s, steps, f) \/ HandFate(s, agenda, f)
<1>1. /\ agenda' \in [Threads -> Seq(Steps)]
      /\ agenda[t] = <<>> /\ agenda'[t] = steps
      /\ \A u \in Threads \ {t} : agenda'[u] = agenda[u]
  BY AgendaBegin
<1>2. DOMAIN steps = 1..Len(steps) /\ DOMAIN agenda[t] = {}
  BY <1>1
<1> QED
  BY <1>1, <1>2 DEF HandFate, StepsFate

LEMMA StepsComeFrom ==
  ASSUME agenda \in [Threads -> Seq(Steps)],
         NEW t \in Threads, NEW steps \in Seq(Steps), Work(t, steps),
         NEW u \in Threads, NEW j \in DOMAIN agenda'[u]
  PROVE  \/ \E i \in 1..Len(steps) : agenda'[u][j] = steps[i]
         \/ \E v \in Threads : \E i \in DOMAIN agenda[v] : agenda'[u][j] = agenda[v][i]
<1>1. CASE Begin(t, steps)
  <2>1. agenda'[t] = steps /\ \A v \in Threads \ {t} : agenda'[v] = agenda[v]
    BY <1>1, AgendaBegin
  <2>2. DOMAIN steps = 1..Len(steps)
    OBVIOUS
  <2> QED
    BY <2>1, <2>2
<1>2. CASE ~Idle(t) /\ Then(t, steps)
  <2>1. /\ agenda' \in [Threads -> Seq(Steps)]
        /\ \A v \in Threads \ {t} : agenda'[v] = agenda[v]
        /\ Len(agenda'[t]) = Len(steps) + (Len(agenda[t]) - 1)
        /\ \A k \in 1..Len(agenda'[t]) :
             agenda'[t][k] = IF k <= Len(steps) THEN steps[k]
                             ELSE agenda[t][(k - Len(steps)) + 1]
    BY <1>2, AgendaThen
  <2>2. /\ DOMAIN agenda[t] = 1..Len(agenda[t]) /\ Len(agenda[t]) \in Nat
        /\ DOMAIN agenda'[t] = 1..Len(agenda'[t]) /\ Len(steps) \in Nat
    BY <2>1
  <2>3. CASE u # t
    BY <2>1, <2>3
  <2>4. CASE u = t
    <3>1. j \in 1..Len(agenda'[t])
      BY <2>2, <2>4
    <3>2. CASE j <= Len(steps)
      <4>1. j \in 1..Len(steps)
        BY <3>1, <3>2, <2>2
      <4>2. agenda'[t][j] = steps[j]
        BY <3>1, <3>2, <2>1
      <4> QED
        BY <4>1, <4>2, <2>4
    <3>3. CASE ~(j <= Len(steps))
      <4>1. PICK k : k = (j - Len(steps)) + 1
        OBVIOUS
      <4>2. k \in DOMAIN agenda[t]
        BY <4>1, <3>1, <3>3, <2>1, <2>2
      <4>3. agenda'[t][j] = agenda[t][k]
        BY <4>1, <3>1, <3>3, <2>1
      <4> QED
        BY <4>2, <4>3, <2>4
    <3> QED
      BY <3>2, <3>3
  <2> QED
    BY <2>3, <2>4
<1> QED
  BY <1>1, <1>2 DEF Work

-----------------------------------------------------------------------------
(* What else is known of a match: both of its seats go back to the board   *)
(* or neither does, and a game is told to have begun once it is moved in.  *)

Even(seats) == seats[Red].requeue = seats[Blue].requeue

StepEven(step, games) ==
  /\ step.do \in Seatings => Even(step.seats)
  /\ step.do = "began" => games[step.session].moved

MatchInv ==
  /\ \A t \in Threads : \A i \in DOMAIN agenda[t] : StepEven(agenda[t][i], sessions)
  /\ \A g \in DOMAIN sessions : Even(sessions[g].seats)

\* The games there were have the same seats, and no move is taken back.
PlayedOn(games, later) ==
  /\ Len(games) <= Len(later)
  /\ \A g \in 1..Len(games) :
       later[g].seats = games[g].seats /\ (games[g].moved => later[g].moved)

LEMMA StepsStayEven ==
  ASSUME LobbyInv, MatchInv, PlayedOn(sessions, sessions'),
         NEW t \in Threads, NEW i \in DOMAIN agenda[t]
  PROVE  StepEven(agenda[t][i], sessions')
<1>1. StepSound(t, agenda[t][i], seeks, Len(sessions))
  BY LobbyFacts DEF AgendaInv
<1>2. StepEven(agenda[t][i], sessions)
  BY DEF MatchInv
<1> QED
  BY <1>1, <1>2 DEF StepEven, StepSound, OfASession, PlayedOn

LEMMA MatchGoesOn ==
  ASSUME LobbyInv, MatchInv, PlayedOn(sessions, sessions'),
         NEW t \in Threads, NEW steps \in Seq(Steps), Work(t, steps),
         \A i \in 1..Len(steps) : StepEven(steps[i], sessions'),
         \A g \in DOMAIN sessions' : Even(sessions'[g].seats)
  PROVE  MatchInv'
<1>1. agenda \in [Threads -> Seq(Steps)]
  BY LobbyFacts
<1>2. ASSUME NEW u \in Threads, NEW j \in DOMAIN agenda'[u]
      PROVE  StepEven(agenda'[u][j], sessions')
  <2>1. \/ \E i \in 1..Len(steps) : agenda'[u][j] = steps[i]
        \/ \E v \in Threads : \E i \in DOMAIN agenda[v] : agenda'[u][j] = agenda[v][i]
    BY <1>1, StepsComeFrom
  <2> QED
    BY <2>1, StepsStayEven
<1> QED
  BY <1>2 DEF MatchInv

-----------------------------------------------------------------------------
(* Steps that match nobody and call nothing off.                           *)

\* The games hold the same seeks, and have or have not been moved in as before.
SameEscrows(games, later) ==
  /\ Len(later) = Len(games)
  /\ \A g \in 1..Len(games) :
       /\ later[g].seats = games[g].seats /\ later[g].moved = games[g].moved
       /\ later[g].escrow = "none" <=> games[g].escrow = "none"

LEMMA GameFatesStay ==
  ASSUME NEW games \in Seq(SessionRecords), NEW later \in Seq(SessionRecords),
         SameEscrows(games, later)
  PROVE  /\ \A s, f : GameFate(s, games, f) <=> GameFate(s, later, f)
         /\ PlayedOn(games, later)
<1>1. DOMAIN later = DOMAIN games /\ DOMAIN games = 1..Len(games) /\ Len(games) \in Nat
  BY DEF SameEscrows
<1>2. \A g \in DOMAIN games : \A s :
        /\ Keeps(later[g], s) <=> Keeps(games[g], s)
        /\ FateInGame(s, later[g]) = FateInGame(s, games[g])
  BY <1>1 DEF SameEscrows, Keeps, FateInGame
<1>3. PlayedOn(games, later)
  BY <1>1 DEF SameEscrows, PlayedOn
<1> QED
  BY <1>1, <1>2, <1>3 DEF GameFate

Bystanders == Idler \cup Making

LEMMA BystandersHaveNoFate ==
  \A step \in Steps : step.do \in Bystanders => \A s, f : ~StepFate(s, step, f)
  BY DEF Bystanders, Idler, Making, StepFate, Carries

Carefree(steps) ==
  /\ steps \in Seq(Steps)
  /\ \A i \in 1..Len(steps) : steps[i].do \in Bystanders /\ StepEven(steps[i], sessions')

GoesAbout(t, steps) ==
  Carefree(steps) /\ Work(t, steps) /\ (Idle(t) \/ Step(t).do \in Bystanders)

Calm ==
  /\ byID' \subseteq byID
  /\ Grows(seeks, seeks') /\ Len(seeks') = Len(seeks)
  /\ SameEscrows(sessions, sessions')
  /\ UNCHANGED agenda \/ \E t \in Threads, steps \in Seq(Steps) : GoesAbout(t, steps)

LEMMA HandFatesStay ==
  ASSUME LobbyInv, NEW t \in Threads, NEW steps, GoesAbout(t, steps), NEW s, NEW f
  PROVE  HandFate(s, agenda', f) <=> HandFate(s, agenda, f)
<1>1. agenda \in [Threads -> Seq(Steps)]
  BY LobbyFacts
<1>2. steps \in Seq(Steps) /\ ~StepsFate(s, steps, f)
  <2>1. steps \in Seq(Steps) /\ \A i \in 1..Len(steps) : steps[i].do \in Bystanders
    BY DEF GoesAbout, Carefree
  <2>2. \A i \in 1..Len(steps) : steps[i] \in Steps
    BY <2>1, ElementOfSeq
  <2> QED
    BY <2>1, <2>2, BystandersHaveNoFate DEF StepsFate
<1>3. CASE Begin(t, steps)
  BY <1>1, <1>2, <1>3, HandsBegin
<1>4. CASE ~Idle(t) /\ Then(t, steps)
  <2>1. ~StepFate(s, Step(t), f)
    BY <1>4, HeadIsSound, BystandersHaveNoFate DEF GoesAbout
  <2> QED
    BY <1>1, <1>2, <1>4, <2>1, HandsThen
<1> QED
  BY <1>3, <1>4 DEF GoesAbout, Work

LEMMA MadeAsBefore ==
  ASSUME LobbyInv, Grows(seeks, seeks'), Len(seeks') = Len(seeks), NEW s
  PROVE  MadeIn(s, seeks) <=> MadeIn(s, seeks')
<1>1. seeks' \in Seq(SeekRecords)
  BY DEF Grows
<1>2. DOMAIN seeks' = 1..Len(seeks) /\ DOMAIN seeks = 1..Len(seeks)
  BY <1>1, LobbyFacts
<1> QED
  BY <1>2 DEF Grows, MadeIn

\* Seeks are let go, and nothing else happens to any.
LEMMA IsLetGo ==
  ASSUME \A s \in SeekIDs :
           \/ FateOf(s)' = FateOf(s)
           \/ FateOf(s).at \in {"waiting", "returning"} /\ FateOf(s)' = Alone("gone")
  PROVE  Matches!LetGo
  BY DEF Matches!LetGo, Matches!At, Matches!Alone, Alone

LEMMA CalmLetsGo ==
  ASSUME LobbyInv, LobbyInv', Calm
  PROVE  Matches!LetGo
<1>1. \A s, f : HandFate(s, agenda', f) <=> HandFate(s, agenda, f)
  BY HandFatesStay DEF Calm
<1>2. /\ sessions \in Seq(SessionRecords) /\ sessions' \in Seq(SessionRecords)
  BY DEF LobbyInv, SeatsInv
<1>3. \A s, f : GameFate(s, sessions, f) <=> GameFate(s, sessions', f)
  BY <1>2, GameFatesStay DEF Calm
<1>4. \A s : MadeIn(s, seeks) <=> MadeIn(s, seeks')
  BY MadeAsBefore DEF Calm
<1>5. ASSUME NEW s \in SeekIDs
      PROVE  \/ FateOf(s)' = FateOf(s)
             \/ FateOf(s).at \in {"waiting", "returning"} /\ FateOf(s)' = Alone("gone")
  <2>1. CASE s \in byID /\ s \notin byID'
    <3>1. MadeIn(s, seeks)
      BY <2>1, LobbyFacts DEF SeeksInv
    <3>2. FateOf(s) = Alone("waiting")
      BY <2>1, <3>1, FateNow DEF IsFate
    <3>3. ~InSomeHand(s, agenda) /\ ~InSomeEscrow(s, sessions)
      BY <2>1, FateNow DEF InOnePlace
    <3>4. \A f : ~HandFate(s, agenda, f) /\ ~GameFate(s, sessions, f)
      BY <3>3, FatesAreSome
    <3>5. FateOf(s)' = Alone("gone")
      BY <1>1, <1>3, <1>4, <2>1, <3>1, <3>4, FateNext DEF IsFate
    <3> QED
      BY <3>2, <3>5 DEF Alone
  <2>2. CASE ~(s \in byID /\ s \notin byID')
    <3>1. SamePlace(s)
      BY <1>1, <1>3, <1>4, <2>2 DEF SamePlace, Calm
    <3> QED
      BY <3>1, FateStays
  <2> QED
    BY <2>1, <2>2
<1> QED
  BY <1>5, IsLetGo

LEMMA CalmKeepsMatches ==
  ASSUME LobbyInv, LobbyInv', MatchInv, Calm
  PROVE  MatchInv'
<1>1. /\ sessions \in Seq(SessionRecords) /\ sessions' \in Seq(SessionRecords)
  BY DEF LobbyInv, SeatsInv
<1>2. PlayedOn(sessions, sessions') /\ DOMAIN sessions' = DOMAIN sessions
  BY <1>1, GameFatesStay DEF Calm, SameEscrows
<1>3. \A g \in DOMAIN sessions' : Even(sessions'[g].seats)
  <2>1. \A g \in DOMAIN sessions : sessions'[g].seats = sessions[g].seats
    BY <1>1 DEF Calm, SameEscrows
  <2> QED
    BY <1>2, <2>1 DEF MatchInv
<1>4. CASE UNCHANGED agenda
  BY <1>2, <1>3, <1>4, StepsStayEven DEF MatchInv
<1>5. CASE \E t \in Threads, steps \in Seq(Steps) : GoesAbout(t, steps)
  <2>1. PICK t \in Threads, steps \in Seq(Steps) : GoesAbout(t, steps)
    BY <1>5
  <2> QED
    BY <1>2, <1>3, <2>1, MatchGoesOn DEF GoesAbout, Carefree
<1> QED
  BY <1>4, <1>5 DEF Calm

LEMMA CarefreeNone == Carefree(<<>>)
  BY NoSteps DEF Carefree

LEMMA CarefreeOne ==
  ASSUME NEW step \in Steps, step.do \in Bystanders \ {"began"}
  PROVE  Carefree(<<step>>)
<1>1. step.do \notin Seatings
  BY DEF Bystanders, Idler, Making, Seatings
<1>2. StepEven(step, sessions')
  BY <1>1 DEF StepEven
<1> QED
  BY <1>2, OneStep DEF Carefree

LEMMA CarefreeKinds ==
  /\ \A g \in Nat, kind \in OfASession \ {"callOff", "began"} :
       Carefree(<<[do |-> kind, session |-> g]>>)
  /\ \A g \in Nat, blame \in Colors \cup {Neutral, "mover"} : Carefree(<<CallOff(g, blame)>>)
  /\ \A s \in SeekIDs, kind \in {"dispose", "claim", "shelter"} :
       Carefree(<<[do |-> kind, seek |-> s]>>)
  /\ \A place \in Places, kind \in {"move", "resign"} : Carefree(<<[do |-> kind, seat |-> place]>>)
  /\ \A kind \in {"rebind", "detach", "pair", "sweep"} : Carefree(<<[do |-> kind]>>)
<1> USE DEF Bystanders, Idler, Making, OfASession, Steps
<1>1. ASSUME NEW g \in Nat, NEW kind \in OfASession \ {"callOff", "began"}
      PROVE  Carefree(<<[do |-> kind, session |-> g]>>)
  <2>1. PICK step : step = [do |-> kind, session |-> g]
    OBVIOUS
  <2>2. step \in Steps /\ step.do \in Bystanders \ {"began"}
    BY <2>1
  <2> QED
    BY <2>1, <2>2, CarefreeOne
<1>2. ASSUME NEW g \in Nat, NEW blame \in Colors \cup {Neutral, "mover"}
      PROVE  Carefree(<<CallOff(g, blame)>>)
  <2>1. CallOff(g, blame) \in Steps /\ CallOff(g, blame).do \in Bystanders \ {"began"}
    BY DEF CallOff
  <2> QED
    BY <2>1, CarefreeOne
<1>3. ASSUME NEW s \in SeekIDs, NEW kind \in {"dispose", "claim", "shelter"}
      PROVE  Carefree(<<[do |-> kind, seek |-> s]>>)
  <2>1. PICK step : step = [do |-> kind, seek |-> s]
    OBVIOUS
  <2>2. step \in Steps /\ step.do \in Bystanders \ {"began"}
    BY <2>1
  <2> QED
    BY <2>1, <2>2, CarefreeOne
<1>4. ASSUME NEW place \in Places, NEW kind \in {"move", "resign"}
      PROVE  Carefree(<<[do |-> kind, seat |-> place]>>)
  <2>1. PICK step : step = [do |-> kind, seat |-> place]
    OBVIOUS
  <2>2. step \in Steps /\ step.do \in Bystanders \ {"began"}
    BY <2>1
  <2> QED
    BY <2>1, <2>2, CarefreeOne
<1>5. ASSUME NEW kind \in {"rebind", "detach", "pair", "sweep"}
      PROVE  Carefree(<<[do |-> kind]>>)
  <2>1. PICK step : step = [do |-> kind]
    OBVIOUS
  <2>2. step \in Steps /\ step.do \in Bystanders \ {"began"}
    BY <2>1
  <2> QED
    BY <2>1, <2>2, CarefreeOne
<1> QED
  BY <1>1, <1>2, <1>3, <1>4, <1>5

\* The same seeks on the board or fewer, the same seeks made, the same games.
LEMMA StillCalm ==
  ASSUME LobbyInv, NEW t \in Threads, NEW steps, GoesAbout(t, steps),
         UNCHANGED <<seeks, sessions>>, byID' \subseteq byID
  PROVE  Calm
<1>1. Grows(seeks, seeks') /\ Len(seeks') = Len(seeks)
  BY LobbyFacts
<1>2. SameEscrows(sessions, sessions')
  BY DEF SameEscrows
<1>3. steps \in Seq(Steps)
  BY DEF GoesAbout, Carefree
<1> QED
  BY <1>1, <1>2, <1>3 DEF Calm

LEMMA StartsAbout ==
  ASSUME NEW t, NEW steps, Carefree(steps), Begin(t, steps)
  PROVE  GoesAbout(t, steps)
  BY DEF GoesAbout, Work, Begin

LEMMA RunsAbout ==
  ASSUME NEW t, NEW kind \in Bystanders, At(t, kind), NEW steps, Carefree(steps), Then(t, steps)
  PROVE  GoesAbout(t, steps)
  BY DEF GoesAbout, Work, At, Step

\* Only an agenda changes.
LEMMA AgendasAreCalm ==
  ASSUME LobbyInv,
         \/ PairTick \/ StopUnbegun
         \/ \E c \in Clients : MakeMove(c) \/ Resign(c) \/ Accept(c) \/ JoinQueue(c)
                               \/ SendChallenge(c)
         \/ \E g \in 1..MaxSessions : NobodyCameBack(g)
         \/ \E t \in Threads : ReadMover(t)
  PROVE  Calm
<1> USE DEF Bystanders, Idler, Making, OfASession
<1>1. ASSUME NEW t \in Threads, NEW steps, GoesAbout(t, steps),
             UNCHANGED <<conn, seeks, byID, byOwner, sessions, participants, updating>>
      PROVE  Calm
  BY <1>1, StillCalm
<1>2. CASE PairTick
  BY <1>1, <1>2, CarefreeKinds, ThreadFacts, StartsAbout DEF PairTick
<1>3. CASE StopUnbegun
  <2>1. PICK g \in DOMAIN sessions : Begin(Moderator, <<CallOff(g, Neutral)>>)
    BY <1>3 DEF StopUnbegun
  <2>2. g \in Nat
    BY LobbyFacts
  <2>3. GoesAbout(Moderator, <<CallOff(g, Neutral)>>)
    BY <2>1, <2>2, CarefreeKinds, StartsAbout
  <2> QED
    BY <1>1, <1>3, <2>3, ThreadFacts DEF StopUnbegun
<1>4. ASSUME NEW c \in Clients, MakeMove(c) \/ Resign(c) PROVE Calm
  <2>1. PICK kind \in {"move", "resign"} : Act(c, kind, kind)
    BY <1>4 DEF MakeMove, Resign
  <2>2. participants[c] \in Places
    BY <2>1, PlacesAreOpened DEF Act
  <2>3. GoesAbout(c, <<[do |-> kind, seat |-> participants[c]]>>)
    BY <2>1, <2>2, CarefreeKinds, StartsAbout DEF Act
  <2> QED
    BY <1>1, <2>1, <2>3, ThreadFacts DEF Act
<1>5. ASSUME NEW c \in Clients, Accept(c) PROVE Calm
  <2>1. PICK s \in byID, kind \in {"dispose", "claim"} : Begin(c, <<[do |-> kind, seek |-> s]>>)
    BY <1>5 DEF Accept
  <2>2. s \in SeekIDs
    BY LobbyFacts
  <2>3. GoesAbout(c, <<[do |-> kind, seek |-> s]>>)
    BY <2>1, <2>2, CarefreeKinds, StartsAbout
  <2> QED
    BY <1>1, <1>5, <2>3, ThreadFacts DEF Accept
<1>6. ASSUME NEW c \in Clients, JoinQueue(c) \/ SendChallenge(c) PROVE Calm
  <2>1. PICK target \in Owners \cup {None}, setup \in Setups, fromQueue \in BOOLEAN :
          AskForGame(c, target, setup, fromQueue)
    BY <1>6 DEF JoinQueue, SendChallenge
  <2>2. PICK queued \in BOOLEAN : queued = (target = None /\ (fromQueue \/ setup = Standard))
    OBVIOUS
  <2>3. PICK step : step = [do |-> "post", target |-> target, setup |-> setup, queued |-> queued]
    OBVIOUS
  <2>4. /\ Begin(c, <<step>>)
        /\ UNCHANGED <<conn, seeks, byID, byOwner, sessions, participants, updating>>
    BY <2>1, <2>2, <2>3 DEF AskForGame
  <2>5. step \in Steps /\ step.do = "post"
    BY <2>3 DEF Steps
  <2>6. GoesAbout(c, <<step>>)
    BY <2>4, <2>5, CarefreeOne, StartsAbout
  <2> QED
    BY <1>1, <2>4, <2>6, ThreadFacts
<1>7. ASSUME NEW g \in 1..MaxSessions, NobodyCameBack(g) PROVE Calm
  <2>1. Begin(Sweeper, <<[do |-> "abandon", session |-> g]>>) /\ g \in Nat
    BY <1>7, BoundAssumption DEF NobodyCameBack
  <2>2. GoesAbout(Sweeper, <<[do |-> "abandon", session |-> g]>>)
    BY <2>1, CarefreeKinds, StartsAbout
  <2> QED
    BY <1>1, <1>7, <2>2, ThreadFacts DEF NobodyCameBack
<1>8. ASSUME NEW t \in Threads, ReadMover(t) PROVE Calm
  <2>1. /\ At(t, "callOff") /\ ~Idle(t) /\ Step(t).do = "callOff"
        /\ Then(t, <<CallOff(Step(t).session, sessions[Step(t).session].turn)>>)
    BY <1>8 DEF ReadMover, At, Step
  <2>2. Step(t).session \in Nat /\ sessions[Step(t).session] \in SessionRecords
    BY <2>1, LobbyFacts, HeadIsOfAGame
  <2>3. sessions[Step(t).session].turn \in Colors
    BY <2>2 DEF SessionRecords
  <2>4. GoesAbout(t, <<CallOff(Step(t).session, sessions[Step(t).session].turn)>>)
    BY <2>1, <2>2, <2>3, CarefreeKinds, RunsAbout
  <2> QED
    BY <1>1, <1>8, <2>4 DEF ReadMover
<1> QED
  BY <1>2, <1>3, <1>4, <1>5, <1>6, <1>7, <1>8

\* Seeks come off the board, and that is all.
LEMMA TakingOffIsCalm ==
  ASSUME LobbyInv,
         \/ ExpireChallenges
         \/ \E c \in Clients : Withdraw(c) \/ Decline(c) \/ Dispose(c)
         \/ \E t \in Threads : Release(t)
  PROVE  Calm
<1>1. UNCHANGED <<seeks, sessions>>
  BY DEF ExpireChallenges, Withdraw, Decline, Dispose, Release
<1>2. PICK S : TakeOff(S)
  BY DEF ExpireChallenges, Withdraw, Decline, Dispose, Release,
         RemoveOwner, ClaimFrom, Claim, TakeExpired
<1>3. byID' \subseteq byID
  BY <1>2, LighterBoard
<1>4. CASE UNCHANGED agenda
  BY <1>1, <1>3, <1>4, LobbyFacts DEF Calm, SameEscrows
<1>5. ASSUME NEW t \in Threads, GoesAbout(t, <<>>) PROVE Calm
  BY <1>1, <1>3, <1>5, StillCalm
<1>6. ASSUME NEW c \in Clients, Dispose(c) PROVE Calm
  BY <1>5, <1>6, CarefreeNone, RunsAbout, ThreadFacts DEF Dispose, Bystanders, Idler
<1>7. ASSUME NEW t \in Threads, Release(t) PROVE Calm
  BY <1>5, <1>7, CarefreeNone, RunsAbout DEF Release, Bystanders, Idler
<1> QED
  BY <1>4, <1>6, <1>7 DEF ExpireChallenges, Withdraw, Decline

\* A seek may learn of another socket, or start or stop running out.
LEMMA SeeksStayTheSame ==
  ASSUME LobbyInv, LobbyInv', DOMAIN seeks' = DOMAIN seeks,
         \A n \in DOMAIN seeks :
           /\ seeks'[n].owner = seeks[n].owner /\ seeks'[n].target = seeks[n].target
           /\ seeks'[n].setup = seeks[n].setup
  PROVE  Grows(seeks, seeks') /\ Len(seeks') = Len(seeks)
<1>1. seeks' \in Seq(SeekRecords)
  BY DEF LobbyInv, SeeksInv
<1>2. Len(seeks') = Len(seeks)
  BY <1>1, LobbyFacts
<1> QED
  BY <1>1, <1>2, LobbyFacts DEF Grows

LEMMA SeekOfSocket ==
  ASSUME LobbyInv, LobbyInv', NEW n, NEW client, NEW timed,
         \/ seeks' = [seeks EXCEPT ![n].client = client]
         \/ seeks' = [seeks EXCEPT ![n].timed = timed]
         \/ seeks' = [seeks EXCEPT ![n].client = client, ![n].timed = timed]
         \/ UNCHANGED seeks
  PROVE  Grows(seeks, seeks') /\ Len(seeks') = Len(seeks)
<1>1. DOMAIN seeks' = DOMAIN seeks
  OBVIOUS
<1>2. ASSUME NEW m \in DOMAIN seeks
      PROVE  /\ seeks'[m].owner = seeks[m].owner /\ seeks'[m].target = seeks[m].target
             /\ seeks'[m].setup = seeks[m].setup
  <2>1. seeks[m] \in SeekRecords
    BY <1>2, LobbyFacts
  <2>2. CASE m # n
    BY <2>2
  <2>3. CASE m = n
    <3>1. \/ seeks'[m] = [seeks[m] EXCEPT !.client = client]
          \/ seeks'[m] = [seeks[m] EXCEPT !.timed = timed]
          \/ seeks'[m] = [seeks[m] EXCEPT !.client = client, !.timed = timed]
          \/ seeks'[m] = seeks[m]
      BY <2>3
    <3> QED
      BY <2>1, <3>1 DEF SeekRecords
  <2> QED
    BY <2>2, <2>3
<1> QED
  BY <1>1, <1>2, SeeksStayTheSame

LEMMA SocketsAreCalm ==
  ASSUME LobbyInv, LobbyInv', NEW c \in Clients,
         Connect(c) \/ Drop(c) \/ Rebind(c) \/ Detach(c) \/ Shelter(c) \/ Unregister(c)
  PROVE  Calm
<1> USE DEF Bystanders, Idler
<1>1. SameEscrows(sessions, sessions')
  BY DEF SameEscrows, Connect, Drop, Rebind, Detach, Shelter, Unregister
<1>2. ASSUME NEW steps, GoesAbout(c, steps), byID' \subseteq byID,
             Grows(seeks, seeks') /\ Len(seeks') = Len(seeks)
      PROVE  Calm
  <2>1. steps \in Seq(Steps) /\ c \in Threads
    BY <1>2, ThreadFacts DEF GoesAbout, Carefree
  <2> QED
    BY <1>1, <1>2, <2>1 DEF Calm
<1>3. CASE Connect(c)
  <2>1. GoesAbout(c, <<[do |-> "rebind"]>>)
    BY <1>3, CarefreeKinds, StartsAbout DEF Connect
  <2> QED
    BY <1>2, <1>3, <2>1, LobbyFacts DEF Connect
<1>4. CASE Drop(c)
  <2>1. GoesAbout(c, <<[do |-> "detach"]>>)
    BY <1>4, CarefreeKinds, StartsAbout DEF Drop
  <2> QED
    BY <1>2, <1>4, <2>1, LobbyFacts DEF Drop
<1>5. CASE Rebind(c)
  <2>1. GoesAbout(c, <<>>) /\ byID' \subseteq byID
    BY <1>5, CarefreeNone, RunsAbout DEF Rebind
  <2>2. PICK s : s = byOwner[Owner[c]]
    OBVIOUS
  <2>3. \/ UNCHANGED seeks
        \/ seeks' = [seeks EXCEPT ![s[2]].client = c, ![s[2]].timed = FALSE]
    BY <1>5, <2>2 DEF Rebind
  <2>4. Grows(seeks, seeks') /\ Len(seeks') = Len(seeks)
    BY <2>3, SeekOfSocket
  <2> QED
    BY <1>2, <2>1, <2>4
<1>6. CASE Detach(c)
  <2>1. PICK s : s = byOwner[Owner[c]]
    OBVIOUS
  <2>2. /\ At(c, "detach") /\ UNCHANGED <<byID, byOwner>>
        /\ \/ /\ s # None
              /\ seeks' = [seeks EXCEPT ![s[2]].client = None]
              /\ Then(c, <<[do |-> "shelter", seek |-> s]>>)
           \/ Then(c, <<>>) /\ UNCHANGED seeks
    BY <1>6, <2>1 DEF Detach
  <2>3. Grows(seeks, seeks') /\ Len(seeks') = Len(seeks)
    BY <2>2, SeekOfSocket
  <2>4. CASE Then(c, <<>>)
    BY <1>2, <2>2, <2>3, <2>4, CarefreeNone, RunsAbout
  <2>5. CASE s # None /\ Then(c, <<[do |-> "shelter", seek |-> s]>>)
    <3>1. s \in SeekIDs
      BY <2>1, <2>5, LobbyFacts, WaitsAreMade
    <3>2. GoesAbout(c, <<[do |-> "shelter", seek |-> s]>>)
      BY <2>2, <2>5, <3>1, CarefreeKinds, RunsAbout
    <3> QED
      BY <1>2, <2>2, <2>3, <3>2
  <2> QED
    BY <2>2, <2>4, <2>5
<1>7. CASE Shelter(c)
  <2>1. GoesAbout(c, <<>>)
    BY <1>7, CarefreeNone, RunsAbout DEF Shelter
  <2>2. PICK s : s = Step(c).seek
    OBVIOUS
  <2>3. /\ \/ \E d \in Clients : seeks' = [seeks EXCEPT ![s[2]].client = d]
           \/ seeks' = [seeks EXCEPT ![s[2]].timed = TRUE]
           \/ UNCHANGED seeks
        /\ UNCHANGED <<byID, byOwner>> \/ TakeOff({s})
    BY <1>7, <2>2 DEF Shelter, Claim
  <2>4. Grows(seeks, seeks') /\ Len(seeks') = Len(seeks)
    BY <2>3, SeekOfSocket
  <2>5. byID' \subseteq byID
    BY <2>3, LighterBoard
  <2> QED
    BY <1>2, <2>1, <2>4, <2>5
<1>8. CASE Unregister(c)
  BY <1>1, <1>8, LobbyFacts DEF Unregister, Calm
<1> QED
  BY <1>3, <1>4, <1>5, <1>6, <1>7, <1>8

\* A game may lose or gain a socket, leave the list, end or be claimed.
LEMMA GamesStayTheSame ==
  ASSUME LobbyInv, LobbyInv', DOMAIN sessions' = DOMAIN sessions,
         \A g \in DOMAIN sessions :
           /\ sessions'[g].seats = sessions[g].seats /\ sessions'[g].moved = sessions[g].moved
           /\ sessions'[g].escrow = "none" <=> sessions[g].escrow = "none"
  PROVE  SameEscrows(sessions, sessions')
<1>1. sessions' \in Seq(SessionRecords)
  BY DEF LobbyInv, SeatsInv
<1>2. Len(sessions') = Len(sessions)
  BY <1>1, LobbyFacts
<1> QED
  BY <1>1, <1>2, LobbyFacts DEF SameEscrows

LEMMA OneGameStaysTheSame ==
  ASSUME LobbyInv, LobbyInv', NEW g \in DOMAIN sessions, NEW game,
         sessions' = [sessions EXCEPT ![g] = game],
         game.seats = sessions[g].seats, game.moved = sessions[g].moved,
         game.escrow = "none" <=> sessions[g].escrow = "none"
  PROVE  SameEscrows(sessions, sessions')
<1>1. DOMAIN sessions' = DOMAIN sessions
  OBVIOUS
<1>2. \A h \in DOMAIN sessions : sessions'[h] = IF h = g THEN game ELSE sessions[h]
  OBVIOUS
<1> QED
  BY <1>1, <1>2, GamesStayTheSame

\* The games stay the same, and so do the seeks and the board.
LEMMA GamesAreCalm ==
  ASSUME LobbyInv, SameEscrows(sessions, sessions'), UNCHANGED <<seeks, byID>>,
         UNCHANGED agenda \/ \E t \in Threads, steps \in Seq(Steps) : GoesAbout(t, steps)
  PROVE  Calm
  BY LobbyFacts DEF Calm

LEMMA UnseatIsCalm ==
  ASSUME LobbyInv, LobbyInv', NEW c \in Clients, Unseat(c)
  PROVE  Calm
<1>1. UNCHANGED <<seeks, byID, agenda>>
  BY DEF Unseat
<1>2. PICK p : p = participants[c]
  OBVIOUS
<1>3. \/ sessions' = sessions
      \/ p # None /\ sessions' = [sessions EXCEPT ![p.session].socket[p.color] = None,
                                                  ![p.session].absent[p.color] = TRUE]
  BY <1>2 DEF Unseat, Vacated
<1>4. CASE sessions' = sessions
  BY <1>1, <1>4, GamesAreCalm, ThreadFacts, NoSteps DEF SameEscrows
<1>5. CASE p # None /\ sessions' = [sessions EXCEPT ![p.session].socket[p.color] = None,
                                                   ![p.session].absent[p.color] = TRUE]
  <2>1. p.session \in DOMAIN sessions /\ sessions[p.session] \in SessionRecords
    BY <1>2, <1>5, LobbyFacts, PlacesAreOpened
  <2>2. PICK game : game = [sessions[p.session] EXCEPT !.socket[p.color] = None,
                                                       !.absent[p.color] = TRUE]
    OBVIOUS
  <2>3. sessions' = [sessions EXCEPT ![p.session] = game]
    BY <1>5, <2>1, <2>2 DEF SessionRecords
  <2>4. /\ game.seats = sessions[p.session].seats /\ game.moved = sessions[p.session].moved
        /\ game.escrow = sessions[p.session].escrow
    BY <2>1, <2>2 DEF SessionRecords
  <2>5. SameEscrows(sessions, sessions')
    BY <2>1, <2>3, <2>4, OneGameStaysTheSame
  <2> QED
    BY <1>1, <2>5, GamesAreCalm, ThreadFacts, NoSteps
<1> QED
  BY <1>3, <1>4, <1>5

LEMMA UnlistingIsCalm ==
  ASSUME LobbyInv, LobbyInv', NEW t \in Threads, Discard(t) \/ Retire(t)
  PROVE  Calm
<1>1. PICK kind \in {"discard", "retire"} :
        At(t, kind) /\ Then(t, <<>>) /\ Unlisted(Step(t).session) /\ UNCHANGED <<seeks, byID>>
  BY DEF Discard, Retire
<1>2. GoesAbout(t, <<>>)
  BY <1>1, CarefreeNone, RunsAbout DEF Bystanders, Idler
<1>3. PICK g : g = Step(t).session
  OBVIOUS
<1>4. g \in DOMAIN sessions /\ sessions[g] \in SessionRecords
  BY <1>1, <1>3, HeadIsOfAGame DEF At, Step, OfASession
<1>5. sessions' = sessions \/ sessions' = [sessions EXCEPT ![g].listed = FALSE]
  BY <1>1, <1>3 DEF Unlisted
<1>6. CASE sessions' = sessions
  BY <1>1, <1>2, <1>6, GamesAreCalm, NoSteps DEF SameEscrows
<1>7. CASE sessions' = [sessions EXCEPT ![g].listed = FALSE]
  <2>1. PICK game : game = [sessions[g] EXCEPT !.listed = FALSE]
    OBVIOUS
  <2>2. sessions' = [sessions EXCEPT ![g] = game]
    BY <1>4, <1>7, <2>1
  <2>3. /\ game.seats = sessions[g].seats /\ game.moved = sessions[g].moved
        /\ game.escrow = sessions[g].escrow
    BY <1>4, <2>1 DEF SessionRecords
  <2>4. SameEscrows(sessions, sessions')
    BY <1>4, <2>2, <2>3, OneGameStaysTheSame
  <2> QED
    BY <1>1, <1>2, <2>4, GamesAreCalm, NoSteps
<1> QED
  BY <1>5, <1>6, <1>7

LEMMA RejoinGameIsCalm ==
  ASSUME LobbyInv, LobbyInv', NEW c \in Clients, RejoinGame(c)
  PROVE  Calm
<1>1. UNCHANGED <<seeks, byID>> /\ c \in Threads
  BY ThreadFacts DEF RejoinGame
<1>2. PICK g \in DOMAIN sessions, color \in Colors :
        \/ Begin(c, <<Finish(g)>>) /\ UNCHANGED sessions
        \/ Begin(c, <<[do |-> "abandon", session |-> g]>>) /\ UNCHANGED sessions
        \/ sessions' = Reseated(g, color, c) /\ UNCHANGED agenda
  BY DEF RejoinGame
<1>3. g \in Nat /\ sessions[g] \in SessionRecords
  BY LobbyFacts
<1>4. CASE \E kind \in {"finish", "abandon"} :
             Begin(c, <<[do |-> kind, session |-> g]>>) /\ UNCHANGED sessions
  <2>1. PICK kind \in {"finish", "abandon"} :
          Begin(c, <<[do |-> kind, session |-> g]>>) /\ UNCHANGED sessions
    BY <1>4
  <2>2. PICK steps : steps = <<[do |-> kind, session |-> g]>>
    OBVIOUS
  <2>3. GoesAbout(c, steps)
    BY <1>3, <2>1, <2>2, CarefreeKinds, StartsAbout DEF OfASession
  <2> QED
    BY <1>1, <2>1, <2>3, StillCalm
<1>5. CASE sessions' = Reseated(g, color, c) /\ UNCHANGED agenda
  <2>1. PICK game : game = [sessions[g] EXCEPT !.socket[color] = c, !.absent[color] = FALSE]
    OBVIOUS
  <2>2. sessions' = [sessions EXCEPT ![g] = game]
    BY <1>3, <1>5, <2>1 DEF Reseated, SessionRecords
  <2>3. /\ game.seats = sessions[g].seats /\ game.moved = sessions[g].moved
        /\ game.escrow = sessions[g].escrow
    BY <1>3, <2>1 DEF SessionRecords
  <2>4. SameEscrows(sessions, sessions')
    BY <2>2, <2>3, OneGameStaysTheSame
  <2> QED
    BY <1>1, <1>5, <2>4, GamesAreCalm
<1> QED
  BY <1>2, <1>4, <1>5 DEF Finish

LEMMA AbortIsCalm ==
  ASSUME LobbyInv, LobbyInv', NEW c \in Clients, Abort(c)
  PROVE  Calm
<1>1. PICK p : p = participants[c]
  OBVIOUS
<1>2. p \in Places /\ p.session \in DOMAIN sessions /\ p.session \in Nat /\ p.color \in Colors
      /\ sessions[p.session] \in SessionRecords
  BY <1>1, LobbyFacts, PlacesAreOpened DEF Abort
<1>3. /\ sessions[p.session].escrow = "held"
      /\ sessions' = [sessions EXCEPT ![p.session].escrow = "claimed"]
      /\ Begin(c, <<CallOff(p.session, p.color)>>) /\ UNCHANGED <<seeks, byID>>
  BY <1>1 DEF Abort
<1>4. PICK game : game = [sessions[p.session] EXCEPT !.escrow = "claimed"]
  OBVIOUS
<1>5. sessions' = [sessions EXCEPT ![p.session] = game]
  BY <1>2, <1>3, <1>4
<1>6. /\ game.seats = sessions[p.session].seats /\ game.moved = sessions[p.session].moved
      /\ game.escrow = "claimed"
  BY <1>2, <1>4 DEF SessionRecords
<1>7. SameEscrows(sessions, sessions')
  BY <1>2, <1>3, <1>5, <1>6, OneGameStaysTheSame
<1>8. GoesAbout(c, <<CallOff(p.session, p.color)>>)
  BY <1>2, <1>3, CarefreeKinds, StartsAbout
<1>9. <<CallOff(p.session, p.color)>> \in Seq(Steps)
  BY <1>8 DEF GoesAbout, Carefree
<1> QED
  BY <1>3, <1>7, <1>8, <1>9, GamesAreCalm, ThreadFacts

LEMMA InertIsCarefree ==
  ASSUME NEW t, NEW steps, Inert(t, steps), \A i \in 1..Len(steps) : steps[i].do # "began"
  PROVE  Carefree(steps)
  BY DEF Inert, Carefree, Bystanders, StepEven, Idler, Seatings

LEMMA CollectingIsCalm ==
  ASSUME LobbyInv, LobbyInv', NEW t \in Threads, NEW S \in SUBSET Unbegun, NEW order \in Orders(S),
         sessions' = Collected(S), Work(t, CallOffs(order)), UNCHANGED <<seeks, byID>>,
         Idle(t) \/ Step(t).do \in Bystanders
  PROVE  Calm
<1>1. S \in SUBSET DOMAIN sessions /\ \A g \in S : sessions[g].escrow = "held"
  BY DEF Unbegun
<1>2. Inert(t, CallOffs(order))
  BY <1>1, CallOffsAreInert
<1>3. \A i \in 1..Len(CallOffs(order)) : CallOffs(order)[i].do = "callOff"
  <2>1. CallOffs(order) \in Seq(Steps) /\ DOMAIN CallOffs(order) = DOMAIN order
    BY <1>2 DEF Inert, CallOffs
  <2>2. \A i \in DOMAIN order : CallOffs(order)[i] = CallOff(order[i], "mover")
    BY DEF CallOffs
  <2> QED
    BY <2>1, <2>2 DEF CallOff
<1>4. GoesAbout(t, CallOffs(order)) /\ CallOffs(order) \in Seq(Steps)
  BY <1>2, <1>3, InertIsCarefree DEF GoesAbout, Inert
<1>5. DOMAIN sessions' = DOMAIN sessions
  BY DEF Collected
<1>6. ASSUME NEW g \in DOMAIN sessions
      PROVE  /\ sessions'[g].seats = sessions[g].seats /\ sessions'[g].moved = sessions[g].moved
             /\ sessions'[g].escrow = "none" <=> sessions[g].escrow = "none"
  <2>1. sessions[g] \in SessionRecords
    BY LobbyFacts
  <2>2. sessions'[g] = IF g \in S THEN [sessions[g] EXCEPT !.escrow = "claimed"] ELSE sessions[g]
    BY DEF Collected
  <2>3. CASE g \in S
    BY <1>1, <2>1, <2>2, <2>3 DEF SessionRecords
  <2>4. CASE g \notin S
    BY <2>2, <2>4
  <2> QED
    BY <2>3, <2>4
<1>7. SameEscrows(sessions, sessions')
  BY <1>5, <1>6, GamesStayTheSame
<1> QED
  BY <1>4, <1>7, GamesAreCalm

LEMMA SweepsAreCalm ==
  ASSUME LobbyInv, LobbyInv', SweepUnstarted \/ DrainSweep
  PROVE  Calm
<1>1. CASE SweepUnstarted
  <2>1. PICK S \in SUBSET Unbegun :
          sessions' = Collected(S) /\ \E order \in Orders(S) : Begin(Sweeper, CallOffs(order))
    BY <1>1 DEF SweepUnstarted
  <2>2. PICK order \in Orders(S) : Begin(Sweeper, CallOffs(order))
    BY <2>1
  <2>3. Work(Sweeper, CallOffs(order)) /\ Idle(Sweeper)
    BY <2>2 DEF Work, Begin
  <2> QED
    BY <1>1, <2>1, <2>3, ThreadFacts, CollectingIsCalm DEF SweepUnstarted
<1>2. CASE DrainSweep
  <2>1. PICK order \in Orders(Unbegun) : Then(Deployer, CallOffs(order))
    BY <1>2 DEF DrainSweep
  <2>2. Work(Deployer, CallOffs(order)) /\ Step(Deployer).do \in Bystanders
    BY <1>2, <2>1 DEF Work, DrainSweep, At, Step, Bystanders, Idler
  <2> QED
    BY <1>2, <2>1, <2>2, ThreadFacts, CollectingIsCalm DEF DrainSweep
<1> QED
  BY <1>1, <1>2

LEMMA EndingIsCalm ==
  ASSUME LobbyInv, LobbyInv', NEW g \in DOMAIN sessions, NEW end, NEW recorded, NEW steps,
         NEW t \in Threads, GoesAbout(t, steps), UNCHANGED <<seeks, byID>>,
         \/ UNCHANGED sessions
         \/ sessions' = [sessions EXCEPT ![g].end = end]
         \/ sessions' = [sessions EXCEPT ![g].recorded = recorded]
  PROVE  Calm
<1>1. sessions[g] \in SessionRecords
  BY LobbyFacts
<1>2. PICK game :
        /\ \/ game = sessions[g]
           \/ game = [sessions[g] EXCEPT !.end = end]
           \/ game = [sessions[g] EXCEPT !.recorded = recorded]
        /\ sessions' = [sessions EXCEPT ![g] = game]
  <2>1. CASE UNCHANGED sessions
    <3>1. sessions \in Seq(SessionRecords)
      BY LobbyFacts
    <3>2. sessions' = [sessions EXCEPT ![g] = sessions[g]]
      BY <2>1, <3>1
    <3> QED
      BY <3>2
  <2>2. CASE sessions' = [sessions EXCEPT ![g].end = end]
    BY <2>2
  <2>3. CASE sessions' = [sessions EXCEPT ![g].recorded = recorded]
    BY <2>3
  <2> QED
    BY <2>1, <2>2, <2>3
<1>3. /\ game.seats = sessions[g].seats /\ game.moved = sessions[g].moved
      /\ game.escrow = sessions[g].escrow
  BY <1>1, <1>2 DEF SessionRecords
<1>4. SameEscrows(sessions, sessions')
  BY <1>2, <1>3, OneGameStaysTheSame
<1>5. steps \in Seq(Steps)
  BY DEF GoesAbout, Carefree
<1> QED
  BY <1>4, <1>5, GamesAreCalm

LEMMA EndsGameIsCalm ==
  ASSUME LobbyInv, LobbyInv', NEW t \in Threads, NEW kind \in {"resign", "abandon"}, At(t, kind),
         NEW g \in DOMAIN sessions, NEW how, EndsGame(t, g, how), UNCHANGED <<seeks, byID>>
  PROVE  Calm
<1>1. g \in Nat
  BY LobbyFacts
<1>2. Carefree(<<Finish(g)>>) /\ Carefree(<<>>)
  BY <1>1, CarefreeNone, CarefreeKinds DEF Finish, OfASession
<1>3. \/ Then(t, <<>>) /\ UNCHANGED sessions
      \/ Then(t, <<Finish(g)>>) /\ sessions' = [sessions EXCEPT ![g].end = how]
  BY DEF EndsGame
<1>4. CASE Then(t, <<>>) /\ UNCHANGED sessions
  <2>1. GoesAbout(t, <<>>)
    BY <1>2, <1>4, RunsAbout DEF Bystanders, Idler
  <2> QED
    BY <1>4, <2>1, EndingIsCalm
<1>5. CASE Then(t, <<Finish(g)>>) /\ sessions' = [sessions EXCEPT ![g].end = how]
  <2>1. GoesAbout(t, <<Finish(g)>>)
    BY <1>2, <1>5, RunsAbout DEF Bystanders, Idler
  <2> QED
    BY <1>5, <2>1, EndingIsCalm
<1> QED
  BY <1>3, <1>4, <1>5

LEMMA EndingsAreCalm ==
  ASSUME LobbyInv, LobbyInv', NEW t \in Threads,
         PlayResign(t) \/ AbandonGame(t) \/ FinishSession(t)
  PROVE  Calm
<1> USE DEF Bystanders, Idler
<1>0. UNCHANGED <<seeks, byID>>
  BY DEF PlayResign, AbandonGame, FinishSession
<1>1. CASE PlayResign(t)
  <2>1. ~Idle(t) /\ Step(t).do = "resign" /\ At(t, "resign")
    BY <1>1 DEF PlayResign, At, Step
  <2>2. Step(t).seat.session \in DOMAIN sessions
    BY <2>1, HeadIsOfAGame
  <2> QED
    BY <1>0, <1>1, <2>1, <2>2, EndsGameIsCalm DEF PlayResign
<1>2. CASE AbandonGame(t)
  <2>1. ~Idle(t) /\ Step(t).do = "abandon" /\ At(t, "abandon")
    BY <1>2 DEF AbandonGame, At, Step
  <2>2. Step(t).session \in DOMAIN sessions
    BY <2>1, HeadIsOfAGame DEF OfASession
  <2> QED
    BY <1>0, <1>2, <2>1, <2>2, EndsGameIsCalm DEF AbandonGame
<1>3. CASE FinishSession(t)
  <2>1. PICK g : g = Step(t).session
    OBVIOUS
  <2>2. ~Idle(t) /\ Step(t).do = "finish" /\ At(t, "finish")
    BY <1>3 DEF FinishSession, At, Step
  <2>3. g \in DOMAIN sessions /\ g \in Nat
    BY <2>1, <2>2, LobbyFacts, HeadIsOfAGame DEF OfASession
  <2>4. PICK retire : retire = <<[do |-> "retire", session |-> g]>>
    OBVIOUS
  <2>5. Carefree(retire)
    BY <2>3, <2>4, CarefreeKinds DEF OfASession
  <2>6. \/ Then(t, <<>>) /\ UNCHANGED sessions
        \/ Then(t, retire) /\ sessions' = [sessions EXCEPT ![g].recorded = TRUE]
    BY <1>3, <2>1, <2>4 DEF FinishSession
  <2>7. CASE Then(t, <<>>) /\ UNCHANGED sessions
    <3>1. GoesAbout(t, <<>>)
      BY <2>2, <2>7, CarefreeNone, RunsAbout
    <3> QED
      BY <1>0, <2>3, <2>7, <3>1, EndingIsCalm
  <2>8. CASE Then(t, retire) /\ sessions' = [sessions EXCEPT ![g].recorded = TRUE]
    <3>1. GoesAbout(t, retire)
      BY <2>2, <2>5, <2>8, RunsAbout
    <3> QED
      BY <1>0, <2>3, <2>8, <3>1, EndingIsCalm
  <2> QED
    BY <2>6, <2>7, <2>8
<1> QED
  BY <1>1, <1>2, <1>3

LEMMA ClockEndsIsCalm ==
  ASSUME LobbyInv, LobbyInv', NEW g, ClockEnds(g)
  PROVE  Calm
<1>1. g \in DOMAIN sessions /\ g \in Nat
  BY LobbyFacts DEF ClockEnds
<1>2. /\ Begin(Sweeper, <<Finish(g)>>) /\ UNCHANGED <<seeks, byID>>
      /\ \E end : sessions' = [sessions EXCEPT ![g].end = end]
  BY DEF ClockEnds
<1>3. PICK end : sessions' = [sessions EXCEPT ![g].end = end]
  BY <1>2
<1>4. GoesAbout(Sweeper, <<Finish(g)>>)
  BY <1>1, <1>2, CarefreeKinds, StartsAbout DEF Finish, OfASession
<1> QED
  BY <1>1, <1>2, <1>3, <1>4, ThreadFacts, EndingIsCalm

LEMMA DrainsAreCalm ==
  ASSUME LobbyInv, BeginUpdateDrain \/ CancelUpdateDrain \/ UNCHANGED vars
  PROVE  Calm
<1>1. CASE BeginUpdateDrain
  <2>1. GoesAbout(Deployer, <<[do |-> "sweep"]>>)
    BY <1>1, CarefreeKinds, StartsAbout DEF BeginUpdateDrain
  <2> QED
    BY <1>1, <2>1, ThreadFacts, StillCalm DEF BeginUpdateDrain
<1>2. CASE CancelUpdateDrain \/ UNCHANGED vars
  <2>1. UNCHANGED <<seeks, byID, sessions, agenda>>
    BY <1>2 DEF CancelUpdateDrain, vars
  <2> QED
    BY <2>1, GamesAreCalm DEF SameEscrows
<1> QED
  BY <1>1, <1>2

-----------------------------------------------------------------------------
(* What Matchmaking calls what happens to a match.                         *)

How(seats) == IF seats[Red].requeue THEN "pairing" ELSE "taking"

MatchFate(where, seats, color) ==
  [at |-> where, with |-> seats[OtherColor(color)].seek, by |-> How(seats)]

Elsewhere(s, seats) == \A color \in Colors : s # seats[color].seek

LEMMA SeatedFates ==
  ASSUME NEW seats \in SeatPairs, seats[Red].seek # seats[Blue].seek, Even(seats), NEW where
  PROVE  /\ \A color \in Colors :
              MatchedAs(where, seats[color].seek, seats) = MatchFate(where, seats, color)
         /\ \A s : Seated(s, seats) <=> ~Elsewhere(s, seats)
<1>1. ASSUME NEW color \in Colors
      PROVE  MatchedAs(where, seats[color].seek, seats) = MatchFate(where, seats, color)
  <2>1. \A c \in Colors : seats[c].seek = seats[color].seek <=> c = color
    BY ColorFacts
  <2>2. (CHOOSE c \in Colors : seats[c].seek = seats[color].seek) = color
    BY <2>1
  <2>3. seats[color].requeue = seats[Red].requeue
    BY ColorFacts DEF Even
  <2> QED
    BY <2>2, <2>3 DEF MatchedAs, MatchFate, How
<1> QED
  BY <1>1 DEF Seated, Elsewhere

\* Both seats go from one state to another, and nobody else goes anywhere.
Together(seats, before, after) ==
  /\ \A color \in Colors :
       FateOf(seats[color].seek) = before[color] /\ FateOf(seats[color].seek)' = after[color]
  /\ \A s \in SeekIDs : Elsewhere(s, seats) => FateOf(s)' = FateOf(s)

Fates(where, seats) == [color \in Colors |-> MatchFate(where, seats, color)]

Alike(where) == [color \in Colors |-> Alone(where)]

LEMMA IsPair ==
  ASSUME NEW seats \in SeatPairs, NEW where, NEW color \in Colors,
         \A c \in Colors : FateOf(seats[c].seek) = MatchFate(where, seats, c)
  PROVE  /\ Matches!At(seats[color].seek) = where
         /\ FateOf(seats[color].seek).by = How(seats)
         /\ \A s \in SeekIDs : s \in Matches!Pair(seats[color].seek) <=> ~Elsewhere(s, seats)
         /\ seats[color].seek \in SeekIDs
<1>1. seats[color].seek \in SeekIDs
  BY DEF SeatPairs, Seats
<1>2. FateOf(seats[color].seek) = MatchFate(where, seats, color)
  OBVIOUS
<1>3. Matches!Pair(seats[color].seek) = {seats[color].seek, seats[OtherColor(color)].seek}
  BY <1>1, <1>2 DEF Matches!Pair, MatchFate
<1>4. Matches!At(seats[color].seek) = where
  BY <1>1, <1>2 DEF Matches!At, MatchFate
<1>5. \A s : s \in {seats[color].seek, seats[OtherColor(color)].seek} <=> ~Elsewhere(s, seats)
  BY ColorFacts DEF Elsewhere
<1> QED
  BY <1>1, <1>2, <1>3, <1>4, <1>5 DEF MatchFate

LEMMA GoesTogether ==
  ASSUME NEW seats \in SeatPairs, NEW where, NEW there,
         Together(seats, Fates(where, seats), Fates(there, seats))
  PROVE  Matches!At(seats[Red].seek) = where
         /\ Matches!Go(Matches!Pair(seats[Red].seek), there)
<1>1. Red \in Colors
  BY ColorFacts
<1>2. \A c \in Colors : FateOf(seats[c].seek) = MatchFate(where, seats, c)
                        /\ FateOf(seats[c].seek)' = MatchFate(there, seats, c)
  BY DEF Together, Fates
<1>3. /\ Matches!At(seats[Red].seek) = where
      /\ \A s \in SeekIDs : s \in Matches!Pair(seats[Red].seek) <=> ~Elsewhere(s, seats)
  BY <1>1, <1>2, IsPair
<1>4. ASSUME NEW s \in SeekIDs
      PROVE  FateOf(s)' = IF s \in Matches!Pair(seats[Red].seek)
                          THEN [FateOf(s) EXCEPT !.at = there] ELSE FateOf(s)
  <2>1. CASE Elsewhere(s, seats)
    BY <1>3, <2>1 DEF Together
  <2>2. CASE ~Elsewhere(s, seats)
    <3>1. PICK c \in Colors : s = seats[c].seek
      BY <2>2 DEF Elsewhere
    <3>2. FateOf(s) = MatchFate(where, seats, c) /\ FateOf(s)' = MatchFate(there, seats, c)
      BY <1>2, <3>1
    <3>3. MatchFate(there, seats, c) = [MatchFate(where, seats, c) EXCEPT !.at = there]
      BY DEF MatchFate
    <3> QED
      BY <1>3, <2>2, <3>2, <3>3
  <2> QED
    BY <2>1, <2>2
<1> QED
  BY <1>3, <1>4 DEF Matches!Go

LEMMA PartsTogether ==
  ASSUME NEW seats \in SeatPairs, NEW where, NEW there, NEW color \in Colors, NEW blamed,
         blamed = {} \/ blamed = {seats[color].seek}, seats[Red].seek # seats[Blue].seek,
         Together(seats, Fates(where, seats),
           [c \in Colors |-> IF seats[c].seek \in blamed THEN Alone("gone") ELSE Alone(there)])
  PROVE  /\ Matches!At(seats[color].seek) = where
         /\ FateOf(seats[color].seek).by = How(seats)
         /\ Matches!Part(Matches!Pair(seats[color].seek), blamed, there)
<1>1. \A c \in Colors : FateOf(seats[c].seek) = MatchFate(where, seats, c)
  BY DEF Together, Fates
<1>2. /\ Matches!At(seats[color].seek) = where
      /\ FateOf(seats[color].seek).by = How(seats)
      /\ \A s \in SeekIDs : s \in Matches!Pair(seats[color].seek) <=> ~Elsewhere(s, seats)
  BY <1>1, IsPair
<1>3. ASSUME NEW s \in SeekIDs
      PROVE  FateOf(s)' = IF s \in blamed THEN Alone("gone")
                          ELSE IF s \in Matches!Pair(seats[color].seek) THEN Alone(there)
                          ELSE FateOf(s)
  <2>1. CASE Elsewhere(s, seats)
    <3>1. s \notin blamed
      BY <2>1 DEF Elsewhere
    <3> QED
      BY <1>2, <2>1, <3>1 DEF Together
  <2>2. CASE ~Elsewhere(s, seats)
    <3>1. PICK c \in Colors : s = seats[c].seek
      BY <2>2 DEF Elsewhere
    <3>2. FateOf(s)' = IF s \in blamed THEN Alone("gone") ELSE Alone(there)
      BY <3>1 DEF Together
    <3> QED
      BY <1>2, <2>2, <3>2
  <2> QED
    BY <2>1, <2>2
<1> QED
  BY <1>2, <1>3 DEF Matches!Part, Matches!Alone, Alone

LEMMA IsWait ==
  ASSUME NEW s \in SeekIDs, FateOf(s).at \in {"unmade", "returning"},
         \A x \in SeekIDs :
           FateOf(x)' = IF x = s THEN Alone("waiting")
                        ELSE IF FateOf(x).at = "waiting" /\ x[1] = s[1] THEN Alone("gone")
                        ELSE FateOf(x)
  PROVE  Matches!Wait(s)
  BY DEF Matches!Wait, Matches!At, Matches!Alone, Alone, SeekOwner

LEMMA IsMatchedUp ==
  ASSUME NEW by,
         \A s \in SeekIDs :
           \/ FateOf(s)' = FateOf(s)
           \/ \E x \in SeekIDs :
                /\ FateOf(s)' = [at |-> "matched", with |-> x, by |-> by]
                /\ FateOf(x)' = [at |-> "matched", with |-> s, by |-> by]
                /\ s[1] # x[1]
                /\ \/ FateOf(s).at = "waiting" /\ FateOf(x).at = "waiting" /\ by = "pairing"
                   \/ {FateOf(s).at, FateOf(x).at} = {"waiting", "unmade"} /\ by = "taking"
  PROVE  Matches!MatchedUp(by)
<1> DEFINE Paired(s, x) ==
             /\ FateOf(s)' = [at |-> "matched", with |-> x, by |-> by]
             /\ FateOf(x)' = [at |-> "matched", with |-> s, by |-> by]
             /\ s[1] # x[1]
             /\ \/ FateOf(s).at = "waiting" /\ FateOf(x).at = "waiting" /\ by = "pairing"
                \/ {FateOf(s).at, FateOf(x).at} = {"waiting", "unmade"} /\ by = "taking"
<1> QED
  BY DEF Matches!MatchedUp, Matches!At, Matches!Matched, SeekOwner

-----------------------------------------------------------------------------
(* Where the seeks of a thread's next step are, and where they go.         *)

LEMMA HeadFate ==
  ASSUME LobbyInv, NEW t \in Threads, ~Idle(t), NEW s \in SeekIDs, Carries(Step(t), s),
         MadeIn(s, seeks)
  PROVE  /\ FateOf(s) = FateInHand(s, Step(t))
         /\ s \notin byID /\ \A f : ~RestFate(s, t, f) /\ ~GameFate(s, sessions, f)
<1>1. 1 \in DOMAIN agenda[t] /\ Step(t) = agenda[t][1]
  BY HeadIsSound
<1>2. HandFate(s, agenda, FateInHand(s, Step(t)))
  BY <1>1 DEF HandFate, StepFate
<1>3. InOnePlace(s, byID, agenda, sessions)
  BY FateNow
<1>4. InSomeHand(s, agenda)
  BY <1>1 DEF InSomeHand
<1>5. \A f : ~RestFate(s, t, f)
  BY <1>1, <1>3 DEF RestFate, StepFate, InOnePlace, OneHand
<1>6. \A f : ~GameFate(s, sessions, f)
  BY <1>3, <1>4, FatesAreSome DEF InOnePlace
<1>7. FateOf(s) = FateInHand(s, Step(t))
  BY <1>2, FateNow DEF IsFate
<1> QED
  BY <1>3, <1>4, <1>5, <1>6, <1>7 DEF InOnePlace

\* A seek that neither the step at the head nor those that follow have to do with.
LEMMA UntouchedHands ==
  ASSUME LobbyInv, NEW t \in Threads, ~Idle(t), NEW steps \in Seq(Steps), Then(t, steps),
         NEW s, ~Carries(Step(t), s), ~CarriedIn(s, steps)
  PROVE  \A f : HandFate(s, agenda, f) <=> HandFate(s, agenda', f)
<1>1. \A f : ~StepFate(s, Step(t), f) /\ ~StepsFate(s, steps, f)
  BY DEF StepFate, StepsFate, CarriedIn
<1> QED
  BY <1>1, LobbyFacts, HandsThen

LEMMA HandNext ==
  ASSUME LobbyInv, LobbyInv', NEW t \in Threads, ~Idle(t), NEW steps \in Seq(Steps),
         Then(t, steps), NEW s \in SeekIDs, MadeIn(s, seeks'),
         NEW i \in 1..Len(steps), Carries(steps[i], s)
  PROVE  FateOf(s)' = FateInHand(s, steps[i])
<1>1. StepsFate(s, steps, FateInHand(s, steps[i]))
  BY DEF StepsFate, StepFate
<1>2. HandFate(s, agenda', FateInHand(s, steps[i]))
  BY <1>1, LobbyFacts, HandsThen
<1> QED
  BY <1>2, FateNext DEF IsFate

\* A seek that the thread lets go of.
LEMMA LeftByHand ==
  ASSUME LobbyInv, NEW t \in Threads, ~Idle(t), NEW steps \in Seq(Steps), Then(t, steps),
         NEW s \in SeekIDs, Carries(Step(t), s), MadeIn(s, seeks), ~CarriedIn(s, steps)
  PROVE  \A f : ~HandFate(s, agenda', f)
<1>1. \A f : ~RestFate(s, t, f) /\ ~StepsFate(s, steps, f)
  BY HeadFate DEF StepFate, StepsFate, CarriedIn
<1> QED
  BY <1>1, LobbyFacts, HandsThen

LEMMA GoneNext ==
  ASSUME LobbyInv', NEW s \in SeekIDs, MadeIn(s, seeks'), s \notin byID',
         \A f : ~HandFate(s, agenda', f) /\ ~GameFate(s, sessions', f)
  PROVE  FateOf(s)' = Alone("gone")
  BY FateNext DEF IsFate

LEMMA HeldFate ==
  ASSUME LobbyInv, NEW g \in DOMAIN sessions, NEW s \in SeekIDs, Keeps(sessions[g], s)
  PROVE  /\ FateOf(s) = FateInGame(s, sessions[g]) /\ MadeIn(s, seeks) /\ s \notin byID
         /\ \A f : ~HandFate(s, agenda, f)
         /\ \A h \in DOMAIN sessions : Keeps(sessions[h], s) => h = g
<1>1. SeatsSound(sessions[g].seats, seeks)
  BY LobbyFacts DEF SeatsInv
<1>2. MadeIn(s, seeks)
  BY <1>1 DEF SeatsSound, Keeps, Seated
<1>3. GameFate(s, sessions, FateInGame(s, sessions[g])) /\ InSomeEscrow(s, sessions)
  BY DEF GameFate, InSomeEscrow
<1>4. FateOf(s) = FateInGame(s, sessions[g]) /\ InOnePlace(s, byID, agenda, sessions)
  BY <1>2, <1>3, FateNow DEF IsFate
<1>5. \A f : ~HandFate(s, agenda, f)
  BY <1>3, <1>4, FatesAreSome DEF InOnePlace
<1> QED
  BY <1>2, <1>3, <1>4, <1>5 DEF InOnePlace, OneEscrow

LEMMA HeldNext ==
  ASSUME LobbyInv', NEW s \in SeekIDs, MadeIn(s, seeks'), NEW g \in DOMAIN sessions',
         Keeps(sessions'[g], s)
  PROVE  FateOf(s)' = FateInGame(s, sessions'[g])
<1>1. GameFate(s, sessions', FateInGame(s, sessions'[g]))
  BY DEF GameFate
<1> QED
  BY <1>1, FateNext DEF IsFate

LEMMA MadeMatch ==
  ASSUME NEW seats \in SeatPairs, NEW made, SeatsSound(seats, made)
  PROVE  /\ seats[Red].seek # seats[Blue].seek
         /\ \A color \in Colors : /\ seats[color].seek \in SeekIDs
                                  /\ MadeIn(seats[color].seek, made)
                                  /\ seats[color].seek[1] # seats[OtherColor(color)].seek[1]
                                  /\ ~Elsewhere(seats[color].seek, seats)
         /\ \A s : Seated(s, seats) <=> ~Elsewhere(s, seats)
  BY ColorFacts DEF SeatPairs, Seats, SeatsSound, Elsewhere, Seated

-----------------------------------------------------------------------------
(* A match in a thread's hands.                                            *)

LEMMA CarriedInBoth ==
  ASSUME NEW first \in Seq(Steps), NEW next \in Seq(Steps), NEW s
  PROVE  /\ first \o next \in Seq(Steps)
         /\ CarriedIn(s, first \o next) <=> CarriedIn(s, first) \/ CarriedIn(s, next)
<1>1. PICK all : all = first \o next
  OBVIOUS
<1>2. /\ all \in Seq(Steps) /\ Len(all) = Len(first) + Len(next)
      /\ Len(first) \in Nat /\ Len(next) \in Nat
      /\ \A i \in 1..Len(all) :
           all[i] = IF i <= Len(first) THEN first[i] ELSE next[i - Len(first)]
  BY <1>1, ConcatProperties, LenProperties
<1>3. ASSUME NEW i \in 1..Len(all), Carries(all[i], s)
      PROVE  CarriedIn(s, first) \/ CarriedIn(s, next)
  <2>1. CASE i <= Len(first)
    <3>1. i \in 1..Len(first) /\ all[i] = first[i]
      BY <1>2, <2>1
    <3> QED
      BY <1>3, <3>1 DEF CarriedIn
  <2>2. CASE ~(i <= Len(first))
    <3>1. PICK j : j = i - Len(first)
      OBVIOUS
    <3>2. j \in 1..Len(next) /\ all[i] = next[j]
      BY <1>2, <2>2, <3>1
    <3> QED
      BY <1>3, <3>2 DEF CarriedIn
  <2> QED
    BY <2>1, <2>2
<1>4. ASSUME NEW i \in 1..Len(first), Carries(first[i], s)
      PROVE  CarriedIn(s, all)
  <2>1. i \in 1..Len(all) /\ all[i] = first[i]
    BY <1>2
  <2> QED
    BY <1>4, <2>1 DEF CarriedIn
<1>5. ASSUME NEW i \in 1..Len(next), Carries(next[i], s)
      PROVE  CarriedIn(s, all)
  <2>1. PICK j : j = i + Len(first)
    OBVIOUS
  <2>2. j \in 1..Len(all) /\ all[j] = next[i]
    BY <1>2, <2>1
  <2> QED
    BY <1>5, <2>2 DEF CarriedIn
<1> QED
  BY <1>1, <1>2, <1>3, <1>4, <1>5 DEF CarriedIn

\* The steps that carry one match on.
CarriesOn(steps, seats) ==
  /\ steps \in Seq(Steps)
  /\ \A i \in 1..Len(steps) :
       \/ steps[i].do = "release"
       \/ steps[i].do \in Seatings /\ steps[i].seats = seats
  /\ \E i \in 1..Len(steps) : steps[i].do \in Seatings

LEMMA MatchIsCarriedOn ==
  ASSUME LobbyInv, LobbyInv', MatchInv, NEW t \in Threads, ~Idle(t), Step(t).do \in Seatings,
         NEW steps, CarriesOn(steps, Step(t).seats), Then(t, steps),
         UNCHANGED <<seeks, byID, sessions>>
  PROVE  Matches!LetGo /\ MatchInv'
<1>1. /\ Step(t).seats \in SeatPairs /\ SeatsSound(Step(t).seats, seeks)
      /\ \A s : Carries(Step(t), s) <=> Seated(s, Step(t).seats)
      /\ Step(t) \in Steps
  BY HeadIsSeating
<1>2. steps \in Seq(Steps)
  BY DEF CarriesOn
<1>3. PICK k \in 1..Len(steps) : steps[k].do \in Seatings /\ steps[k].seats = Step(t).seats
  BY DEF CarriesOn, Seatings
<1>4. ASSUME NEW s \in SeekIDs PROVE FateOf(s)' = FateOf(s)
  <2>1. CASE Carries(Step(t), s)
    <3>1. MadeIn(s, seeks)
      BY <1>1, <2>1, MadeMatch DEF Seated, Elsewhere, SeatsSound
    <3>2. Carries(steps[k], s)
      BY <1>1, <1>3, <2>1 DEF Carries, Seatings
    <3>3. FateOf(s) = FateInHand(s, Step(t)) /\ FateOf(s)' = FateInHand(s, steps[k])
      BY <1>2, <2>1, <3>1, <3>2, HeadFate, HandNext
    <3> QED
      BY <1>3, <3>3 DEF FateInHand, Seatings
  <2>2. CASE ~Carries(Step(t), s)
    <3>1. ~CarriedIn(s, steps)
      BY <1>1, <2>2 DEF CarriedIn, CarriesOn, Carries, Seatings
    <3>2. \A f : HandFate(s, agenda, f) <=> HandFate(s, agenda', f)
      BY <1>2, <2>2, <3>1, UntouchedHands
    <3> QED
      BY <3>2, FateStays DEF SamePlace
  <2> QED
    BY <2>1, <2>2
<1>5. StepEven(Step(t), sessions)
  BY HeadIsSound DEF MatchInv
<1>6. \A i \in 1..Len(steps) : StepEven(steps[i], sessions')
  BY <1>5 DEF CarriesOn, StepEven, Seatings
<1>7. PlayedOn(sessions, sessions')
  BY LobbyFacts DEF PlayedOn
<1>8. MatchInv'
  BY <1>2, <1>6, <1>7, MatchGoesOn DEF Work, MatchInv
<1> QED
  BY <1>4, <1>8, IsLetGo

Releases == [do : {"release"}, client : Clients]

LEMMA ReleasesThenOne ==
  ASSUME NEW first \in Seq(Releases), NEW step \in Steps, step.do \in Seatings
  PROVE  CarriesOn(first \o <<step>>, step.seats)
<1>1. PICK all : all = first \o <<step>>
  OBVIOUS
<1>2. Releases \subseteq Steps /\ \A r \in Releases : r.do = "release"
  BY DEF Releases, Steps
<1>3. first \in Seq(Steps) /\ <<step>> \in Seq(Steps)
  BY <1>2
<1>4. /\ all \in Seq(Steps) /\ Len(all) = Len(first) + 1 /\ Len(first) \in Nat
      /\ \A i \in 1..Len(all) : all[i] = IF i <= Len(first) THEN first[i] ELSE step
  <2>1. /\ all \in Seq(Steps) /\ Len(all) = Len(first) + Len(<<step>>)
        /\ \A i \in 1..Len(all) :
             all[i] = IF i <= Len(first) THEN first[i] ELSE <<step>>[i - Len(first)]
    BY <1>1, <1>3, ConcatProperties
  <2>2. Len(first) \in Nat /\ Len(<<step>>) = 1 /\ <<step>>[1] = step
    BY <1>3, LenProperties
  <2>3. \A i \in 1..Len(all) : ~(i <= Len(first)) => i - Len(first) = 1
    BY <2>1, <2>2
  <2> QED
    BY <2>1, <2>2, <2>3
<1>5. \A i \in 1..Len(first) : first[i] \in Releases
  BY ElementOfSeq
<1>6. \A i \in 1..Len(all) : all[i] = step \/ all[i].do = "release"
  BY <1>2, <1>4, <1>5
<1>7. PICK k : k = Len(first) + 1
  OBVIOUS
<1>8. k \in 1..Len(all) /\ all[k] = step
  BY <1>4, <1>7
<1> QED
  BY <1>1, <1>4, <1>6, <1>8 DEF CarriesOn

LEMMA ResolvingKeepsMatches ==
  ASSUME LobbyInv, LobbyInv', MatchInv, NEW t \in Threads, ResolveSeats(t)
  PROVE  Matches!LetGo /\ MatchInv'
<1> DEFINE seats == Step(t).seats
           release(c) == IF c = None THEN <<>> ELSE <<[do |-> "release", client |-> c]>>
<1>1. /\ ~Idle(t) /\ Step(t).do = "resolve" /\ Step(t).do \in Seatings
      /\ UNCHANGED <<seeks, byID, sessions>>
  BY DEF ResolveSeats, At, Step, Seatings
<1>2. PICK red \in SeatClients(seats[Red].seek), blue \in SeatClients(seats[Blue].seek) :
        Then(t, release(red) \o release(blue)
                  \o <<[do |-> "open", seats |-> seats,
                        socket |-> [c \in Colors |-> IF c = Red THEN red ELSE blue]]>>)
  BY DEF ResolveSeats
<1>3. red \in Clients \cup {None} /\ blue \in Clients \cup {None}
  BY SeatClientsAreTabs
<1>4. ASSUME NEW c \in Clients \cup {None} PROVE release(c) \in Seq(Releases)
  <2>1. CASE c = None
    BY <2>1, EmptySeq
  <2>2. CASE c # None
    <3>1. PICK step : step = [do |-> "release", client |-> c]
      OBVIOUS
    <3>2. step \in Releases
      BY <2>2, <3>1 DEF Releases
    <3>3. <<step>> \in Seq(Releases)
      BY <3>2
    <3> QED
      BY <2>2, <3>1, <3>3
  <2> QED
    BY <2>1, <2>2
<1>5. PICK first : first = release(red) \o release(blue)
  OBVIOUS
<1>6. first \in Seq(Releases)
  BY <1>3, <1>4, <1>5, ConcatProperties
<1>7. PICK socket : socket = [c \in Colors |-> IF c = Red THEN red ELSE blue]
  OBVIOUS
<1>8. PICK open : open = [do |-> "open", seats |-> seats, socket |-> socket]
  OBVIOUS
<1>9. socket \in SocketPairs
  BY <1>3, <1>7 DEF SocketPairs
<1>10. open \in Steps /\ open.do \in Seatings /\ open.seats = seats
  BY <1>1, <1>8, <1>9, HeadIsSeating DEF Steps, Seatings
<1>11. Then(t, first \o <<open>>)
  BY <1>2, <1>5, <1>7, <1>8
<1>12. CarriesOn(first \o <<open>>, seats)
  BY <1>6, <1>10, ReleasesThenOne
<1> QED
  BY <1>1, <1>11, <1>12, MatchIsCarriedOn

\* The seats that go back to the board, and the ones that do not.
Loose(steps, seats) ==
  [color \in Colors |->
     Alone(IF CarriedIn(seats[color].seek, steps) THEN "returning" ELSE "gone")]

GoingBack == {step \in Steps : step.do \in {"requeue", "discard"}}

LEMMA ReturnsGoBack ==
  ASSUME NEW seat \in Seats
  PROVE  /\ Returns(seat) \in Seq(GoingBack)
         /\ \A s : CarriedIn(s, Returns(seat)) <=> seat.requeue /\ s = seat.seek
<1>1. PICK step : step = [do |-> "requeue", seek |-> seat.seek]
  OBVIOUS
<1>2. step \in GoingBack /\ step \in Steps /\ \A s : Carries(step, s) <=> s = seat.seek
  BY <1>1 DEF GoingBack, Steps, Seats, Carries
<1>3. Returns(seat) = IF seat.requeue THEN <<step>> ELSE <<>>
  BY <1>1 DEF Returns
<1>4. CASE seat.requeue
  <2>1. \A s : CarriedIn(s, <<step>>) <=> Carries(step, s)
    BY <1>2, OneStep
  <2>2. <<step>> \in Seq(GoingBack)
    BY <1>2
  <2> QED
    BY <1>2, <1>3, <1>4, <2>1, <2>2
<1>5. CASE ~seat.requeue
  BY <1>3, <1>5, NoSteps, EmptySeq
<1> QED
  BY <1>4, <1>5

LEMMA GoingBackFacts ==
  ASSUME NEW steps \in Seq(GoingBack), NEW games
  PROVE  /\ steps \in Seq(Steps)
         /\ \A i \in 1..Len(steps) :
              /\ StepEven(steps[i], games)
              /\ \A s : Carries(steps[i], s) => FateInHand(s, steps[i]) = Alone("returning")
<1>1. GoingBack \subseteq Steps
  BY DEF GoingBack
<1>2. \A step \in GoingBack :
        /\ StepEven(step, games)
        /\ \A s : Carries(step, s) => FateInHand(s, step) = Alone("returning")
  BY DEF GoingBack, StepEven, Seatings, Carries, FateInHand
<1> QED
  BY <1>1, <1>2, ElementOfSeq

\* The match of a game, or of a thread, is off, and its seats are let loose.
LEMMA LooseIsOff ==
  ASSUME NEW seats \in SeatPairs, NEW where \in {"matched", "held", "moved"}, NEW steps,
         seats[Red].seek # seats[Blue].seek, Even(seats),
         Together(seats, Fates(where, seats), Loose(steps, seats)),
         \/ \A c \in Colors : CarriedIn(seats[c].seek, steps) <=> seats[c].requeue
         \/ /\ where # "matched"
            /\ \E c \in Colors :
                 /\ ~CarriedIn(seats[c].seek, steps)
                 /\ CarriedIn(seats[OtherColor(c)].seek, steps) <=> seats[OtherColor(c)].requeue
  PROVE  \E s \in SeekIDs : Matches!Off(s)
<1>0. /\ \A c \in Colors : seats[c].seek \in SeekIDs /\ seats[c].requeue \in BOOLEAN
      /\ \A c \in Colors : seats[c].requeue = seats[Red].requeue
      /\ \A c \in Colors : How(seats) = IF seats[c].requeue THEN "pairing" ELSE "taking"
      /\ \A c \in Colors : seats[c].seek # seats[OtherColor(c)].seek
  BY ColorFacts DEF SeatPairs, Seats, Even, How, OtherColor
<1>1. CASE \A c \in Colors : CarriedIn(seats[c].seek, steps) <=> seats[c].requeue
  <2>1. PICK there \in {"gone", "returning"} :
          there = IF seats[Red].requeue THEN "returning" ELSE "gone"
    OBVIOUS
  <2>2. Loose(steps, seats) =
          [c \in Colors |-> IF seats[c].seek \in {} THEN Alone("gone") ELSE Alone(there)]
    BY <1>0, <1>1, <2>1 DEF Loose
  <2>3. /\ Matches!At(seats[Red].seek) = where
        /\ FateOf(seats[Red].seek).by = How(seats)
        /\ Matches!Part(Matches!Pair(seats[Red].seek), {}, there)
    BY <2>2, ColorFacts, PartsTogether
  <2> QED
    BY <1>0, <2>1, <2>3, ColorFacts DEF Matches!Off, How
<1>2. CASE /\ where # "matched"
           /\ \E c \in Colors :
                /\ ~CarriedIn(seats[c].seek, steps)
                /\ CarriedIn(seats[OtherColor(c)].seek, steps) <=> seats[OtherColor(c)].requeue
  <2>1. PICK c \in Colors :
          /\ ~CarriedIn(seats[c].seek, steps)
          /\ CarriedIn(seats[OtherColor(c)].seek, steps) <=> seats[OtherColor(c)].requeue
    BY <1>2
  <2>2. CASE seats[c].requeue
    <3>1. Loose(steps, seats) =
            [d \in Colors |-> IF seats[d].seek \in {seats[c].seek}
                              THEN Alone("gone") ELSE Alone("returning")]
      <4>1. \A d \in Colors : d = c \/ d = OtherColor(c)
        BY ColorFacts DEF OtherColor
      <4> QED
        BY <1>0, <2>1, <2>2, <4>1, ColorFacts DEF Loose
    <3>2. /\ Matches!At(seats[c].seek) = where
          /\ FateOf(seats[c].seek).by = How(seats)
          /\ Matches!Part(Matches!Pair(seats[c].seek), {seats[c].seek}, "returning")
      BY <3>1, PartsTogether
    <3> QED
      BY <1>0, <1>2, <2>2, <3>2 DEF Matches!Off
  <2>3. CASE ~seats[c].requeue
    <3>1. \A d \in Colors : ~CarriedIn(seats[d].seek, steps)
      <4>1. \A d \in Colors : d = c \/ d = OtherColor(c)
        BY ColorFacts DEF OtherColor
      <4> QED
        BY <1>0, <2>1, <2>3, <4>1, ColorFacts
    <3>2. Loose(steps, seats) =
            [d \in Colors |-> IF seats[d].seek \in {} THEN Alone("gone") ELSE Alone("gone")]
      BY <3>1 DEF Loose
    <3>3. /\ Matches!At(seats[c].seek) = where
          /\ FateOf(seats[c].seek).by = How(seats)
          /\ Matches!Part(Matches!Pair(seats[c].seek), {}, "gone")
      BY <3>2, PartsTogether
    <3> QED
      BY <1>0, <2>3, <3>3 DEF Matches!Off
  <2> QED
    BY <2>2, <2>3
<1> QED
  BY <1>1, <1>2

LEMMA OpeningKeepsMatches ==
  ASSUME LobbyInv, LobbyInv', MatchInv, NEW t \in Threads, OpenGame(t)
  PROVE  (Matches!LetGo \/ \E s \in SeekIDs : Matches!Off(s)) /\ MatchInv'
<1>1. PICK seats : seats = Step(t).seats
  OBVIOUS
<1>2. /\ ~Idle(t) /\ Step(t).do = "open" /\ Step(t).do \in Seatings
      /\ UNCHANGED <<seeks, byID, sessions>>
      /\ \/ Then(t, Returns(seats[Red]) \o Returns(seats[Blue]))
         \/ Then(t, <<[Step(t) EXCEPT !.do = "install"]>>)
  BY <1>1 DEF OpenGame, At, Step, Seatings
<1>3. /\ Step(t) \in Steps /\ seats \in SeatPairs /\ SeatsSound(seats, seeks)
      /\ Step(t).socket \in SocketPairs
      /\ \A s : Carries(Step(t), s) <=> Seated(s, seats)
      /\ \A color \in Colors : seats[color] \in Seats
  BY <1>1, <1>2, HeadIsSeating
<1>4. Even(seats)
  <2>1. StepEven(Step(t), sessions)
    BY <1>2, HeadIsSound DEF MatchInv
  <2> QED
    BY <1>1, <1>2, <2>1 DEF StepEven
<1>5. CASE Then(t, <<[Step(t) EXCEPT !.do = "install"]>>)
  <2>1. PICK step : step = Step(t)
    OBVIOUS
  <2>2. PICK install : install = [step EXCEPT !.do = "install"]
    OBVIOUS
  <2>3. step = [do |-> "open", seats |-> step.seats, socket |-> step.socket]
    BY <1>2, <1>3, <2>1 DEF Steps
  <2>4. install = [do |-> "install", seats |-> step.seats, socket |-> step.socket]
    BY <2>2, <2>3
  <2>5. install \in Steps /\ install.do \in Seatings /\ install.seats = step.seats
    BY <1>1, <1>3, <2>1, <2>4 DEF Steps, Seatings
  <2>6. <<>> \in Seq(Releases) /\ <<>> \o <<install>> = <<install>>
    BY EmptySeq, <2>5
  <2>7. CarriesOn(<<install>>, step.seats)
    BY <2>5, <2>6, ReleasesThenOne
  <2>8. Then(t, <<install>>)
    BY <1>5, <2>1, <2>2
  <2> QED
    BY <1>2, <2>1, <2>7, <2>8, MatchIsCarriedOn
<1>6. CASE Then(t, Returns(seats[Red]) \o Returns(seats[Blue]))
  <2>1. PICK steps : steps = Returns(seats[Red]) \o Returns(seats[Blue])
    OBVIOUS
  <2>2. /\ seats[Red] \in Seats /\ seats[Blue] \in Seats
        /\ seats[Red].seek # seats[Blue].seek
        /\ \A color \in Colors : /\ seats[color].seek \in SeekIDs
                                 /\ MadeIn(seats[color].seek, seeks)
                                 /\ ~Elsewhere(seats[color].seek, seats)
        /\ \A s : Seated(s, seats) <=> ~Elsewhere(s, seats)
    BY <1>3, ColorFacts, MadeMatch
  <2>3. /\ steps \in Seq(GoingBack)
        /\ \A s : CarriedIn(s, steps) <=>
             \/ seats[Red].requeue /\ s = seats[Red].seek
             \/ seats[Blue].requeue /\ s = seats[Blue].seek
    <3>1. /\ Returns(seats[Red]) \in Seq(GoingBack) /\ Returns(seats[Blue]) \in Seq(GoingBack)
          /\ \A s : CarriedIn(s, Returns(seats[Red])) <=> seats[Red].requeue /\ s = seats[Red].seek
          /\ \A s : CarriedIn(s, Returns(seats[Blue])) <=>
               seats[Blue].requeue /\ s = seats[Blue].seek
      BY <2>2, ReturnsGoBack
    <3>2. Returns(seats[Red]) \in Seq(Steps) /\ Returns(seats[Blue]) \in Seq(Steps)
      BY <3>1, GoingBackFacts
    <3>3. steps \in Seq(GoingBack)
      BY <2>1, <3>1, ConcatProperties
    <3> QED
      BY <2>1, <3>1, <3>2, <3>3, CarriedInBoth
  <2>4. /\ steps \in Seq(Steps)
        /\ \A i \in 1..Len(steps) :
             /\ StepEven(steps[i], sessions')
             /\ \A s : Carries(steps[i], s) => FateInHand(s, steps[i]) = Alone("returning")
    BY <2>3, GoingBackFacts
  <2>5. Then(t, steps)
    BY <1>6, <2>1
  <2>6. ASSUME NEW color \in Colors
        PROVE  /\ FateOf(seats[color].seek) = MatchFate("matched", seats, color)
               /\ FateOf(seats[color].seek)' = Loose(steps, seats)[color]
    <3>1. PICK s \in SeekIDs : s = seats[color].seek
      BY <2>2
    <3>2. Carries(Step(t), s) /\ MadeIn(s, seeks) /\ MadeIn(s, seeks')
      BY <1>2, <1>3, <2>2, <3>1
    <3>3. FateOf(s) = MatchedAs("matched", s, seats)
      BY <1>1, <1>2, <3>2, HeadFate DEF FateInHand
    <3>4. FateOf(s) = MatchFate("matched", seats, color)
      BY <1>3, <1>4, <2>2, <3>1, <3>3, SeatedFates
    <3>5. CASE CarriedIn(s, steps)
      <4>1. PICK i \in 1..Len(steps) : Carries(steps[i], s)
        BY <3>5 DEF CarriedIn
      <4>2. FateOf(s)' = Alone("returning")
        BY <1>2, <2>4, <2>5, <3>2, <4>1, HandNext
      <4> QED
        BY <3>1, <3>4, <3>5, <4>2 DEF Loose
    <3>6. CASE ~CarriedIn(s, steps)
      <4>1. \A f : ~HandFate(s, agenda', f)
        BY <1>2, <2>4, <2>5, <3>2, <3>6, LeftByHand
      <4>2. s \notin byID' /\ \A f : ~GameFate(s, sessions', f)
        BY <1>2, <3>2, HeadFate
      <4>3. FateOf(s)' = Alone("gone")
        BY <3>2, <4>1, <4>2, GoneNext
      <4> QED
        BY <3>1, <3>4, <3>6, <4>3 DEF Loose
    <3> QED
      BY <3>5, <3>6
  <2>7. ASSUME NEW s \in SeekIDs, Elsewhere(s, seats) PROVE FateOf(s)' = FateOf(s)
    <3>1. ~Carries(Step(t), s) /\ ~CarriedIn(s, steps)
      BY <1>3, <2>2, <2>3, <2>7, ColorFacts DEF Elsewhere
    <3>2. \A f : HandFate(s, agenda, f) <=> HandFate(s, agenda', f)
      BY <1>2, <2>4, <2>5, <3>1, UntouchedHands
    <3> QED
      BY <1>2, <3>2, FateStays DEF SamePlace
  <2>8. Together(seats, Fates("matched", seats), Loose(steps, seats))
    BY <2>6, <2>7 DEF Together, Fates
  <2>9. \A c \in Colors : CarriedIn(seats[c].seek, steps) <=> seats[c].requeue
    BY <2>2, <2>3, ColorFacts
  <2>10. \E s \in SeekIDs : Matches!Off(s)
    BY <1>3, <1>4, <2>2, <2>8, <2>9, LooseIsOff
  <2>11. PlayedOn(sessions, sessions')
    BY <1>2, LobbyFacts DEF PlayedOn
  <2>12. \A g \in DOMAIN sessions' : Even(sessions'[g].seats)
    BY <1>2 DEF MatchInv
  <2>13. MatchInv'
    BY <1>2, <2>4, <2>5, <2>11, <2>12, MatchGoesOn DEF Work
  <2> QED
    BY <2>10, <2>13
<1> QED
  BY <1>2, <1>5, <1>6

-----------------------------------------------------------------------------
(* A seek posted, or posted again.                                         *)

LEMMA WaitingIsOnBoard ==
  ASSUME LobbyInv, NEW s \in SeekIDs, FateOf(s).at = "waiting"
  PROVE  s \in byID
<1>1. IsFate(s, FateOf(s), seeks, byID, agenda, sessions)
  BY FateNow
<1>2. \A where, seats : Alone(where).at = where /\ MatchedAs(where, s, seats).at = where
  BY DEF Alone, MatchedAs
<1>3. \A step : FateInHand(s, step).at # "waiting"
  BY <1>2 DEF FateInHand
<1>4. \A game : FateInGame(s, game).at # "waiting"
  BY <1>2 DEF FateInGame
<1>5. \A f : HandFate(s, agenda, f) \/ GameFate(s, sessions, f) => f.at # "waiting"
  BY <1>3, <1>4 DEF HandFate, StepFate, GameFate
<1> QED
  BY <1>1, <1>2, <1>5 DEF IsFate

LEMMA OnBoardIsWaiting ==
  ASSUME LobbyInv, NEW s \in byID
  PROVE  /\ s \in SeekIDs /\ FateOf(s) = Alone("waiting") /\ MadeIn(s, seeks)
         /\ \A f : ~HandFate(s, agenda, f) /\ ~GameFate(s, sessions, f)
<1>1. s \in SeekIDs /\ MadeIn(s, seeks)
  BY LobbyFacts DEF SeeksInv
<1>2. FateOf(s) = Alone("waiting") /\ InOnePlace(s, byID, agenda, sessions)
  BY <1>1, FateNow DEF IsFate
<1> QED
  BY <1>1, <1>2, FatesAreSome DEF InOnePlace

LEMMA PostIsWait ==
  ASSUME LobbyInv, LobbyInv', NEW s \in SeekIDs, Post(s), MadeIn(s, seeks'), s \notin byID,
         FateOf(s).at \in {"unmade", "returning"},
         \A x \in SeekIDs \ {s} :
           /\ MadeIn(x, seeks) <=> MadeIn(x, seeks')
           /\ \A f : HandFate(x, agenda, f) <=> HandFate(x, agenda', f),
         UNCHANGED sessions
  PROVE  Matches!Wait(s)
<1>1. s[1] \in Owners /\ SeekOwner[s] = s[1]
  BY DEF SeekIDs, SeekOwner
<1>2. byID' = (byID \ {byOwner[s[1]]}) \cup {s}
  BY <1>1 DEF Post
<1>3. FateOf(s)' = Alone("waiting")
  BY <1>2, FateNext DEF IsFate
<1>4. /\ \A x \in byID : byOwner[x[1]] = x
      /\ byOwner[s[1]] # None => byOwner[s[1]] \in byID /\ byOwner[s[1]][1] = s[1]
  <2>1. OneWaitEach /\ byID \subseteq SeekIDs
    BY LobbyFacts DEF BoardInv
  <2> QED
    BY <1>1, <2>1 DEF OneWaitEach, SeekOwner
<1>5. ASSUME NEW x \in SeekIDs, x # s
      PROVE  FateOf(x)' = IF FateOf(x).at = "waiting" /\ x[1] = s[1] THEN Alone("gone")
                          ELSE FateOf(x)
  <2>1. CASE FateOf(x).at = "waiting" /\ x[1] = s[1]
    <3>1. x \in byID /\ x \notin byID'
      BY <1>2, <1>4, <1>5, <2>1, WaitingIsOnBoard
    <3>2. MadeIn(x, seeks') /\ \A f : ~HandFate(x, agenda', f) /\ ~GameFate(x, sessions', f)
      BY <1>5, <3>1, OnBoardIsWaiting
    <3> QED
      BY <2>1, <3>1, <3>2, GoneNext
  <2>2. CASE ~(FateOf(x).at = "waiting" /\ x[1] = s[1])
    <3>1. x = byOwner[s[1]] => x \notin byID
      BY <1>4, <2>2, OnBoardIsWaiting, BoardAssumptions DEF Alone
    <3>2. x \in byID <=> x \in byID'
      BY <1>2, <1>5, <3>1
    <3> QED
      BY <1>5, <2>2, <3>2, FateStays DEF SamePlace
  <2> QED
    BY <2>1, <2>2
<1> QED
  BY <1>3, <1>5, IsWait

LEMMA RequeueKeepsMatches ==
  ASSUME LobbyInv, LobbyInv', MatchInv, NEW t \in Threads, Requeue(t)
  PROVE  (Matches!LetGo \/ \E s \in SeekIDs : Matches!Wait(s)) /\ MatchInv'
<1>1. PICK s : s = Step(t).seek
  OBVIOUS
<1>2. /\ ~Idle(t) /\ Step(t).do = "requeue" /\ Then(t, <<>>) /\ UNCHANGED <<seeks, sessions>>
      /\ UNCHANGED <<byID, byOwner>> \/ Post(s)
  BY <1>1 DEF Requeue, At, Step
<1>3. /\ s \in SeekIDs /\ MadeIn(s, seeks) /\ \A x : Carries(Step(t), x) <=> x = s
  <2>1. Step(t) \in Steps /\ StepSound(t, Step(t), seeks, Len(sessions))
    BY <1>2, HeadIsSound
  <2> QED
    BY <1>1, <1>2, <2>1, StepFields DEF OfASeek, StepSound, Carries
<1>4. FateOf(s) = Alone("returning") /\ s \notin byID /\ \A f : ~GameFate(s, sessions, f)
  BY <1>2, <1>3, HeadFate DEF FateInHand
<1>5. \A x \in SeekIDs \ {s} : \A f : HandFate(x, agenda, f) <=> HandFate(x, agenda', f)
  BY <1>2, <1>3, NoSteps, UntouchedHands
<1>6. ASSUME UNCHANGED <<byID, byOwner>> PROVE Matches!LetGo
  <2>1. \A f : ~HandFate(s, agenda', f)
    BY <1>2, <1>3, NoSteps, LeftByHand
  <2>2. FateOf(s)' = Alone("gone")
    BY <1>2, <1>3, <1>4, <1>6, <2>1, GoneNext
  <2>3. \A x \in SeekIDs \ {s} : FateOf(x)' = FateOf(x)
    BY <1>2, <1>5, <1>6, FateStays DEF SamePlace
  <2>4. FateOf(s).at \in {"waiting", "returning"}
    BY <1>4 DEF Alone
  <2>5. \A x \in SeekIDs :
          \/ FateOf(x)' = FateOf(x)
          \/ FateOf(x).at \in {"waiting", "returning"} /\ FateOf(x)' = Alone("gone")
    BY <2>2, <2>3, <2>4
  <2> QED
    BY <2>5, IsLetGo
<1>7. ASSUME Post(s) PROVE Matches!Wait(s)
  <2>1. FateOf(s).at \in {"unmade", "returning"}
    BY <1>4 DEF Alone
  <2>2. \A x \in SeekIDs \ {s} :
          /\ MadeIn(x, seeks) <=> MadeIn(x, seeks')
          /\ \A f : HandFate(x, agenda, f) <=> HandFate(x, agenda', f)
    BY <1>2, <1>5
  <2>3. MadeIn(s, seeks') /\ UNCHANGED sessions
    BY <1>2, <1>3
  <2> QED
    BY <1>3, <1>4, <1>7, <2>1, <2>2, <2>3, PostIsWait
<1>8. MatchInv'
  <2>1. PlayedOn(sessions, sessions')
    BY <1>2, LobbyFacts DEF PlayedOn
  <2> QED
    BY <1>2, <2>1, NoSteps, MatchGoesOn DEF Work, MatchInv
<1> QED
  BY <1>2, <1>3, <1>6, <1>7, <1>8

\* A seek newly made is the only one that was not made before.
LEMMA OneIsMade ==
  ASSUME LobbyInv, NEW seek \in SeekRecords, seeks' = Append(seeks, seek),
         NEW s \in SeekIDs, s = <<seek.owner, Len(seeks) + 1>>
  PROVE  /\ MadeIn(s, seeks') /\ ~MadeIn(s, seeks) /\ FateOf(s) = Alone("unmade")
         /\ s \notin byID /\ \A f : ~HandFate(s, agenda, f) /\ ~GameFate(s, sessions, f)
         /\ \A x \in SeekIDs \ {s} : MadeIn(x, seeks) <=> MadeIn(x, seeks')
<1>1. MadeIn(s, seeks') /\ ~MadeIn(s, seeks)
  BY OneMoreSeek
<1>2. s \notin byID /\ \A f : ~HandFate(s, agenda, f) /\ ~GameFate(s, sessions, f)
  BY <1>1, UnmadeIsNowhere, FatesAreSome
<1>3. FateOf(s) = Alone("unmade")
  BY <1>1, FateNow DEF IsFate
<1>4. ASSUME NEW x \in SeekIDs, x # s PROVE MadeIn(x, seeks) <=> MadeIn(x, seeks')
  <2>1. PICK n : n = Len(seeks) + 1
    OBVIOUS
  <2>2. /\ DOMAIN seeks = 1..Len(seeks) /\ Len(seeks) \in Nat /\ DOMAIN seeks' = 1..n
        /\ seeks'[n] = seek /\ \A m \in 1..Len(seeks) : seeks'[m] = seeks[m]
    BY <2>1, OneMoreSeek, LobbyFacts
  <2>3. x = <<x[1], x[2]>>
    BY DEF SeekIDs
  <2>4. x[2] = n => seek.owner # x[1]
    BY <1>4, <2>1, <2>3
  <2>5. \A m \in DOMAIN seeks' : m = n \/ m \in DOMAIN seeks
    BY <2>1, <2>2
  <2>6. \A m \in DOMAIN seeks : m \in DOMAIN seeks' /\ m # n
    BY <2>1, <2>2
  <2> QED
    BY <2>2, <2>4, <2>5, <2>6 DEF MadeIn
<1> QED
  BY <1>1, <1>2, <1>3, <1>4

LEMMA PostingKeepsMatches ==
  ASSUME LobbyInv, LobbyInv', MatchInv, NEW c \in Clients, PostSeek(c)
  PROVE  (\E s \in SeekIDs : Matches!Wait(s)) /\ MatchInv'
<1>1. PICK step : step = Step(c)
  OBVIOUS
<1>2. PICK seek : seek = [owner |-> Owner[c], target |-> step.target, setup |-> step.setup,
                          queued |-> step.queued, client |-> c, timed |-> ~step.queued]
  OBVIOUS
<1>3. PICK s : s = <<Owner[c], Len(seeks) + 1>>
  OBVIOUS
<1>4. /\ c \in Threads /\ ~Idle(c) /\ step.do = "post"
      /\ seeks' = Append(seeks, seek) /\ Post(s) /\ Then(c, <<>>) /\ UNCHANGED sessions
  BY <1>1, <1>2, <1>3, ThreadFacts DEF PostSeek, At, Step
<1>5. seek \in SeekRecords /\ seek.owner = Owner[c]
  <2>1. step \in Steps
    BY <1>1, <1>4, HeadIsSound
  <2>2. /\ step.target \in Owners \cup {None} /\ step.setup \in Setups /\ step.queued \in BOOLEAN
    BY <1>4, <2>1, StepFields
  <2> QED
    BY <1>2, <2>2, LobbyFacts DEF SeekRecords
<1>6. s \in SeekIDs
  BY <1>1, <1>3, <1>4, NumbersLeft DEF Making
<1>7. /\ MadeIn(s, seeks') /\ FateOf(s) = Alone("unmade") /\ s \notin byID
      /\ \A x \in SeekIDs \ {s} : MadeIn(x, seeks) <=> MadeIn(x, seeks')
  BY <1>3, <1>4, <1>5, <1>6, OneIsMade
<1>8. \A x : ~Carries(Step(c), x)
  BY <1>1, <1>4 DEF Carries
<1>9. \A x \in SeekIDs : \A f : HandFate(x, agenda, f) <=> HandFate(x, agenda', f)
  BY <1>4, <1>8, NoSteps, UntouchedHands
<1>10. Matches!Wait(s)
  BY <1>4, <1>6, <1>7, <1>9, PostIsWait DEF Alone
<1>11. PlayedOn(sessions, sessions')
  BY <1>4, LobbyFacts DEF PlayedOn
<1>12. MatchInv'
  BY <1>4, <1>11, NoSteps, MatchGoesOn DEF Work, MatchInv
<1> QED
  BY <1>6, <1>10, <1>12

-----------------------------------------------------------------------------
(* Seeks taken off the board to be matched.                                *)

\* The fates of the two seeks of a step that has just been put on an agenda.
LEMMA MatchedNext ==
  ASSUME LobbyInv, LobbyInv', NEW t \in Threads, ~Idle(t), NEW steps \in Seq(Steps),
         Then(t, steps), NEW i \in 1..Len(steps), steps[i].do = "resolve",
         NEW seats \in SeatPairs, steps[i].seats = seats, SeatsSound(seats, seeks'), Even(seats)
  PROVE  \A color \in Colors :
           FateOf(seats[color].seek)' =
             [at |-> "matched", with |-> seats[OtherColor(color)].seek, by |-> How(seats)]
<1>1. ASSUME NEW color \in Colors
      PROVE  FateOf(seats[color].seek)' = MatchFate("matched", seats, color)
  <2>1. /\ seats[Red].seek # seats[Blue].seek
        /\ seats[color].seek \in SeekIDs /\ MadeIn(seats[color].seek, seeks')
        /\ Seated(seats[color].seek, seats)
    BY MadeMatch
  <2>2. PICK s \in SeekIDs : s = seats[color].seek
    BY <2>1
  <2>3. Carries(steps[i], s)
    BY <2>1, <2>2 DEF Carries
  <2>4. FateOf(s)' = MatchedAs("matched", s, seats)
    BY <2>1, <2>2, <2>3, HandNext DEF FateInHand
  <2> QED
    BY <2>1, <2>2, <2>4, SeatedFates
<1> QED
  BY <1>1 DEF MatchFate

LEMMA ClaimingKeepsMatches ==
  ASSUME LobbyInv, LobbyInv', MatchInv, NEW c \in Clients, ClaimSeek(c)
  PROVE  (Matches!LetGo \/ Matches!MatchedUp("taking")) /\ MatchInv'
<1>1. PICK s : s = Step(c).seek
  OBVIOUS
<1>2. PICK id : id = <<Owner[c], Len(seeks) + 1>>
  OBVIOUS
<1>3. /\ c \in Threads /\ ~Idle(c) /\ Step(c).do = "claim" /\ TakeOff({s})
      /\ At(c, "claim") /\ UNCHANGED sessions
  BY <1>1, ThreadFacts DEF ClaimSeek, At, Step, Claim
<1>4. s \in SeekIDs /\ MadeIn(s, seeks) /\ s[1] # Owner[c] /\ \A x : ~Carries(Step(c), x)
  <2>1. Step(c) \in Steps /\ StepSound(c, Step(c), seeks, Len(sessions))
    BY <1>3, HeadIsSound
  <2>2. s \in SeekIDs
    BY <1>1, <1>3, <2>1, StepFields DEF OfASeek
  <2> QED
    BY <1>1, <1>3, <2>1, <2>2 DEF StepSound, OfASeek, Carries
<1>5. byID' = byID \ {s}
  BY <1>3, LobbyFacts, TakeOffKeepsBoard
<1>6. CASE s \notin byID
  <2>1. Then(c, <<>>) /\ UNCHANGED seeks
    BY <1>1, <1>6 DEF ClaimSeek, StillPosted
  <2>2. GoesAbout(c, <<>>)
    BY <1>3, <2>1, CarefreeNone, RunsAbout DEF Bystanders, Making
  <2>3. Calm
    BY <1>3, <1>5, <2>1, <2>2, StillCalm
  <2> QED
    BY <2>3, CalmLetsGo, CalmKeepsMatches
<1>7. CASE s \in byID
  <2>1. PICK seek : seek = [owner |-> Owner[c], target |-> None, setup |-> TheSeek(s).setup,
                            queued |-> FALSE, client |-> c, timed |-> FALSE]
    OBVIOUS
  <2>2. PICK posted, taker : posted = Seat(s, FALSE) /\ taker = Seat(id, FALSE)
    OBVIOUS
  <2>3. id \in SeekIDs
    BY <1>2, <1>3, NumbersLeft DEF Making
  <2>4. /\ posted \in Seats /\ taker \in Seats /\ posted.seek = s /\ taker.seek = id
        /\ ~posted.requeue /\ ~taker.requeue
    BY <1>4, <2>2, <2>3 DEF Seats, Seat
  <2>5. /\ seeks' = Append(seeks, seek)
        /\ \/ Then(c, <<SeatMatch(taker, posted)>>)
           \/ Then(c, <<SeatMatch(posted, taker)>>)
    BY <1>1, <1>2, <1>7, <2>1, <2>2 DEF ClaimSeek, StillPosted
  <2>6. PICK a \in Seats, b \in Seats : {a, b} = {posted, taker} /\ Then(c, <<SeatMatch(a, b)>>)
    BY <2>4, <2>5
  <2>7. PICK seats : seats = [color \in Colors |-> IF color = Blue THEN a ELSE b]
    OBVIOUS
  <2>8. PICK step : step = SeatMatch(a, b)
    OBVIOUS
  <2>9. /\ seats \in SeatPairs /\ step \in Steps /\ step.do = "resolve" /\ step.seats = seats
        /\ \A x : Carries(step, x) <=> a.seek = x \/ b.seek = x
    BY <2>7, <2>8, SeatTypes
  <2>10. seek \in SeekRecords /\ seek.owner = Owner[c]
    <3>1. seeks[s[2]] \in SeekRecords /\ TheSeek(s) = seeks[s[2]]
      BY <1>4, LobbyFacts DEF MadeIn, TheSeek
    <3> QED
      BY <2>1, <3>1, LobbyFacts DEF SeekRecords
  <2>11. /\ MadeIn(id, seeks') /\ ~MadeIn(id, seeks) /\ FateOf(id) = Alone("unmade")
         /\ \A x \in SeekIDs \ {id} : MadeIn(x, seeks) <=> MadeIn(x, seeks')
    BY <1>2, <2>3, <2>5, <2>10, OneIsMade
  <2>12. FateOf(s) = Alone("waiting") /\ s # id
    BY <1>4, <1>7, <2>11, OnBoardIsWaiting
  <2>13. /\ Then(c, <<step>>) /\ <<step>> \in Seq(Steps) /\ Len(<<step>>) = 1
         /\ <<step>>[1] = step /\ \A i \in 1..Len(<<step>>) : <<step>>[i] = step
         /\ \A x : CarriedIn(x, <<step>>) <=> x = s \/ x = id
    <3>1. \A x : a.seek = x \/ b.seek = x <=> x = s \/ x = id
      BY <2>4, <2>6
    <3>2. \A x : CarriedIn(x, <<step>>) <=> Carries(step, x)
      BY <2>9, OneStep
    <3> QED
      BY <2>6, <2>8, <2>9, <3>1, <3>2, OneStep
  <2>14. /\ seats[Red] = b /\ seats[Blue] = a /\ OtherColor(Red) = Blue /\ OtherColor(Blue) = Red
         /\ Red \in Colors /\ Blue \in Colors
    BY <2>7, ColorFacts DEF OtherColor
  <2>15. Even(seats) /\ How(seats) = "taking"
    <3>1. a \in {posted, taker} /\ b \in {posted, taker}
      BY <2>6
    <3>2. a.requeue = FALSE /\ b.requeue = FALSE
      BY <2>4, <3>1 DEF Seats
    <3> QED
      BY <2>14, <3>2 DEF Even, How
  <2>16. SeatsSound(seats, seeks')
    <3>1. /\ agenda' \in [Threads -> Seq(Steps)] /\ agenda'[c][1] = step
          /\ 1 \in DOMAIN agenda'[c]
      <4>1. /\ agenda' \in [Threads -> Seq(Steps)]
            /\ Len(agenda'[c]) = Len(<<step>>) + (Len(agenda[c]) - 1)
            /\ \A j \in 1..Len(agenda'[c]) :
                 agenda'[c][j] = IF j <= Len(<<step>>) THEN <<step>>[j]
                                 ELSE agenda[c][(j - Len(<<step>>)) + 1]
        BY <1>3, <2>13, LobbyFacts, AgendaThen
      <4>2. Len(agenda[c]) \in Nat /\ 1 \in 1..Len(agenda[c])
        BY <1>3, LobbyFacts, HeadStep
      <4>3. 1 \in 1..Len(agenda'[c]) /\ 1 <= Len(<<step>>)
        BY <2>13, <4>1, <4>2
      <4> QED
        BY <1>3, <2>13, <4>1, <4>3
    <3>2. StepSound(c, step, seeks', Len(sessions'))
      BY <1>3, <3>1 DEF LobbyInv, AgendaInv
    <3> QED
      BY <2>9, <3>2 DEF StepSound, Seatings
  <2>17. /\ FateOf(a.seek)' = [at |-> "matched", with |-> b.seek, by |-> "taking"]
         /\ FateOf(b.seek)' = [at |-> "matched", with |-> a.seek, by |-> "taking"]
    <3>1. 1 \in 1..Len(<<step>>) /\ <<step>>[1].do = "resolve" /\ <<step>>[1].seats = seats
      BY <2>9, <2>13
    <3>2. \A color \in Colors :
            FateOf(seats[color].seek)' =
              [at |-> "matched", with |-> seats[OtherColor(color)].seek, by |-> How(seats)]
      BY <1>3, <2>9, <2>13, <2>15, <2>16, <3>1, MatchedNext
    <3> QED
      BY <2>14, <2>15, <3>2
  <2>18. /\ FateOf(s)' = [at |-> "matched", with |-> id, by |-> "taking"]
         /\ FateOf(id)' = [at |-> "matched", with |-> s, by |-> "taking"]
    <3>1. (a = posted /\ b = taker) \/ (a = taker /\ b = posted)
      BY <2>4, <2>6, <2>12
    <3> QED
      BY <2>4, <2>17, <3>1
  <2>19. ASSUME NEW x \in SeekIDs, x # s, x # id PROVE FateOf(x)' = FateOf(x)
    <3>1. \A f : HandFate(x, agenda, f) <=> HandFate(x, agenda', f)
      BY <1>3, <1>4, <2>13, <2>19, UntouchedHands
    <3> QED
      BY <1>3, <1>5, <2>11, <2>19, <3>1, FateStays DEF SamePlace
  <2>20. Matches!MatchedUp("taking")
    <3>1. /\ FateOf(s).at = "waiting" /\ FateOf(id).at = "unmade"
          /\ s[1] # id[1]
      BY <1>2, <1>4, <2>11, <2>12 DEF Alone
    <3>2. \A x \in SeekIDs :
            \/ FateOf(x)' = FateOf(x)
            \/ \E y \in SeekIDs :
                 /\ FateOf(x)' = [at |-> "matched", with |-> y, by |-> "taking"]
                 /\ FateOf(y)' = [at |-> "matched", with |-> x, by |-> "taking"]
                 /\ x[1] # y[1]
                 /\ {FateOf(x).at, FateOf(y).at} = {"waiting", "unmade"}
      BY <1>4, <2>3, <2>18, <2>19, <3>1
    <3> QED
      BY <3>2, IsMatchedUp
  <2>21. PlayedOn(sessions, sessions') /\ \A g \in DOMAIN sessions' : Even(sessions'[g].seats)
    BY <1>3, LobbyFacts DEF PlayedOn, MatchInv
  <2>22. StepEven(step, sessions')
    BY <2>9, <2>15 DEF StepEven
  <2>23. MatchInv'
    BY <1>3, <2>13, <2>21, <2>22, MatchGoesOn DEF Work
  <2> QED
    BY <2>20, <2>23
<1> QED
  BY <1>6, <1>7

\* The two seeks of a pair sit at one game, and both came from the board.
LEMMA StartPairedSeats ==
  ASSUME LobbyInv, NEW first \in byID, NEW second \in byID, CanPair(first, second)
  PROVE  LET step == StartPaired(first, second)
         IN  /\ step \in Steps /\ step.do = "resolve" /\ step.seats \in SeatPairs
             /\ Even(step.seats) /\ How(step.seats) = "pairing"
             /\ \/ step.seats[Red].seek = first /\ step.seats[Blue].seek = second
                \/ step.seats[Red].seek = second /\ step.seats[Blue].seek = first
<1>1. first \in SeekIDs /\ second \in SeekIDs
  BY LobbyFacts
<1>2. PICK a \in {first, second}, b \in {first, second} :
        /\ StartPaired(first, second) = SeatMatch(Seat(a, TRUE), Seat(b, TRUE))
        /\ (a = first /\ b = second) \/ (a = second /\ b = first)
  BY DEF StartPaired
<1>3. PICK onBlue, onRed : onBlue = Seat(a, TRUE) /\ onRed = Seat(b, TRUE)
  OBVIOUS
<1>4. /\ onBlue \in Seats /\ onRed \in Seats /\ onBlue.seek = a /\ onRed.seek = b
      /\ onBlue.requeue = TRUE /\ onRed.requeue = TRUE
  BY <1>1, <1>2, <1>3 DEF Seats, Seat
<1>5. PICK seats : seats = [color \in Colors |-> IF color = Blue THEN onBlue ELSE onRed]
  OBVIOUS
<1>6. PICK step : step = SeatMatch(onBlue, onRed)
  OBVIOUS
<1>7. seats \in SeatPairs /\ step \in Steps /\ step.do = "resolve" /\ step.seats = seats
  BY <1>4, <1>5, <1>6, SeatTypes
<1>8. seats[Red] = onRed /\ seats[Blue] = onBlue
  BY <1>5, ColorFacts
<1>9. Even(seats) /\ How(seats) = "pairing"
  BY <1>4, <1>8 DEF Even, How
<1>10. StartPaired(first, second) = step
  BY <1>2, <1>3, <1>6
<1> QED
  BY <1>2, <1>4, <1>7, <1>8, <1>9, <1>10

LEMMA PairingKeepsMatches ==
  ASSUME LobbyInv, LobbyInv', MatchInv, Pair
  PROVE  Matches!MatchedUp("pairing") /\ MatchInv'
<1>1. /\ Pairer \in Threads /\ ~Idle(Pairer) /\ Step(Pairer).do = "pair"
      /\ UNCHANGED <<seeks, sessions>>
  BY ThreadFacts DEF Pair, At, Step
<1>2. PICK M :
        /\ \A p \in M : p \in byID \X byID /\ CanPair(p[1], p[2])
        /\ TakePairs(M)
        /\ \E order \in Orders(M) :
             Then(Pairer, [i \in DOMAIN order |-> StartPaired(order[i][1], order[i][2])])
  BY DEF Pair
<1>3. PICK order :
        /\ order \in Orders(M)
        /\ Then(Pairer, [i \in DOMAIN order |-> StartPaired(order[i][1], order[i][2])])
  BY <1>2
<1> DEFINE n == Cardinality(M)
           first(i) == order[i][1]
           second(i) == order[i][2]
           paired(i) == StartPaired(first(i), second(i))
           taken == UNION {{p[1], p[2]} : p \in M}
<1>4. n \in Nat
  <2>1. IsFiniteSet(byID \X byID)
    BY BoardIsFinite, FS_Product
  <2>2. IsFiniteSet(M)
    BY <2>1, <1>2, FS_Subset
  <2> QED
    BY <2>2, FS_CardinalityType
<1>5. order \in [1..n -> M] /\ DOMAIN order = 1..n
  BY <1>3 DEF Orders
<1>6. byID' = byID \ taken /\ taken \subseteq byID
  BY <1>2, LobbyFacts, TakeOffKeepsBoard DEF TakePairs
<1>7. ASSUME NEW i \in 1..n
      PROVE  /\ first(i) \in byID /\ second(i) \in byID /\ CanPair(first(i), second(i))
             /\ first(i) \in taken /\ second(i) \in taken
  <2>1. order[i] \in M
    BY <1>5
  <2> QED
    BY <2>1, <1>2
<1>8. ASSUME NEW s \in taken PROVE \E i \in 1..n : s = first(i) \/ s = second(i)
  <2>1. PICK p \in M : s = p[1] \/ s = p[2]
    OBVIOUS
  <2>2. PICK i \in DOMAIN order : order[i] = p
    BY <1>3 DEF Orders
  <2> QED
    BY <1>5, <2>1, <2>2
<1> HIDE DEF first, second, n, taken
<1>9. ASSUME NEW i \in 1..n
      PROVE  /\ paired(i) \in Steps /\ paired(i).do = "resolve"
             /\ paired(i).seats \in SeatPairs
             /\ Even(paired(i).seats) /\ How(paired(i).seats) = "pairing"
             /\ \/ paired(i).seats[Red].seek = first(i) /\ paired(i).seats[Blue].seek = second(i)
                \/ paired(i).seats[Red].seek = second(i) /\ paired(i).seats[Blue].seek = first(i)
             /\ SeatsSound(paired(i).seats, seeks)
             /\ \A s : Carries(paired(i), s) <=> s = first(i) \/ s = second(i)
  <2>1. /\ paired(i) \in Steps /\ paired(i).do = "resolve"
        /\ paired(i).seats \in SeatPairs
        /\ Even(paired(i).seats) /\ How(paired(i).seats) = "pairing"
        /\ \/ paired(i).seats[Red].seek = first(i) /\ paired(i).seats[Blue].seek = second(i)
           \/ paired(i).seats[Red].seek = second(i) /\ paired(i).seats[Blue].seek = first(i)
    BY <1>7, StartPairedSeats
  <2>2. /\ StepSound(Pairer, paired(i), seeks, Len(sessions))
        /\ \A s : Carries(paired(i), s) <=> s = first(i) \/ s = second(i)
    BY <1>7, StartPairedIsFine
  <2> QED
    BY <2>1, <2>2 DEF StepSound, Seatings
<1> HIDE DEF paired
<1>10. PICK steps : steps = [i \in 1..n |-> paired(i)]
  OBVIOUS
<1>11. Then(Pairer, steps)
  BY <1>3, <1>5, <1>10 DEF first, second, paired
<1>12. steps \in Seq(Steps) /\ Len(steps) = n /\ \A i \in 1..n : steps[i] = paired(i)
  BY <1>4, <1>9, <1>10
<1>13. \A s : CarriedIn(s, steps) => s \in taken
  BY <1>7, <1>9, <1>12 DEF CarriedIn
<1>14. \A s : ~Carries(Step(Pairer), s)
  BY <1>1 DEF Carries
<1>15. ASSUME NEW i \in 1..n
       PROVE  /\ FateOf(first(i))' = [at |-> "matched", with |-> second(i), by |-> "pairing"]
              /\ FateOf(second(i))' = [at |-> "matched", with |-> first(i), by |-> "pairing"]
  <2>1. /\ i \in 1..Len(steps) /\ steps[i].do = "resolve" /\ steps[i].seats = paired(i).seats
        /\ SeatsSound(paired(i).seats, seeks')
    BY <1>1, <1>9, <1>12
  <2>2. PICK seats \in SeatPairs : seats = paired(i).seats
    BY <1>9
  <2>3. \A color \in Colors :
          FateOf(seats[color].seek)' =
            [at |-> "matched", with |-> seats[OtherColor(color)].seek, by |-> How(seats)]
    BY <1>1, <1>9, <1>11, <1>12, <2>1, <2>2, MatchedNext
  <2>4. /\ FateOf(seats[Red].seek)' =
             [at |-> "matched", with |-> seats[Blue].seek, by |-> How(seats)]
        /\ FateOf(seats[Blue].seek)' =
             [at |-> "matched", with |-> seats[Red].seek, by |-> How(seats)]
    BY <2>3, ColorFacts DEF OtherColor
  <2> QED
    BY <1>9, <2>2, <2>4
<1>16. ASSUME NEW s \in SeekIDs, s \notin taken PROVE FateOf(s)' = FateOf(s)
  <2>1. ~CarriedIn(s, steps)
    BY <1>13, <1>16
  <2>2. \A f : HandFate(s, agenda, f) <=> HandFate(s, agenda', f)
    BY <1>1, <1>11, <1>12, <1>14, <2>1, UntouchedHands
  <2> QED
    BY <1>1, <1>6, <1>16, <2>2, FateStays DEF SamePlace
<1>17. ASSUME NEW s \in SeekIDs, s \in taken
       PROVE  \E x \in SeekIDs :
                /\ FateOf(s)' = [at |-> "matched", with |-> x, by |-> "pairing"]
                /\ FateOf(x)' = [at |-> "matched", with |-> s, by |-> "pairing"]
                /\ s[1] # x[1]
                /\ FateOf(s).at = "waiting" /\ FateOf(x).at = "waiting"
  <2>1. PICK i \in 1..n : s = first(i) \/ s = second(i)
    BY <1>8, <1>17
  <2>2. PICK x : (s = first(i) /\ x = second(i)) \/ (s = second(i) /\ x = first(i))
    BY <2>1
  <2>3. s \in byID /\ x \in byID
    BY <1>7, <2>2
  <2>4. x \in SeekIDs /\ FateOf(s) = Alone("waiting") /\ FateOf(x) = Alone("waiting")
    BY <2>3, OnBoardIsWaiting
  <2>5. s[1] # x[1]
    BY <1>7, <2>2 DEF CanPair
  <2>6. /\ FateOf(s)' = [at |-> "matched", with |-> x, by |-> "pairing"]
        /\ FateOf(x)' = [at |-> "matched", with |-> s, by |-> "pairing"]
    BY <1>15, <2>2
  <2>7. FateOf(s).at = "waiting" /\ FateOf(x).at = "waiting"
    BY <2>4 DEF Alone
  <2> QED
    BY <2>4, <2>5, <2>6, <2>7
<1>18. Matches!MatchedUp("pairing")
  BY <1>16, <1>17, IsMatchedUp
<1>19. PlayedOn(sessions, sessions') /\ \A g \in DOMAIN sessions' : Even(sessions'[g].seats)
  BY <1>1, LobbyFacts DEF PlayedOn, MatchInv
<1>20. \A i \in 1..Len(steps) : StepEven(steps[i], sessions')
  BY <1>9, <1>12 DEF StepEven
<1>21. MatchInv'
  BY <1>1, <1>11, <1>12, <1>19, <1>20, MatchGoesOn DEF Work
<1> QED
  BY <1>18, <1>21

-----------------------------------------------------------------------------
(* A match in the escrow of a game.                                        *)

LEMMA InstallingKeepsMatches ==
  ASSUME LobbyInv, LobbyInv', MatchInv, NEW t \in Threads, InstallGame(t)
  PROVE  (\E s \in SeekIDs : Matches!Seated(s)) /\ MatchInv'
<1>1. PICK seats : seats = Step(t).seats
  OBVIOUS
<1>2. PICK id : id = Len(sessions) + 1
  OBVIOUS
<1>3. /\ ~Idle(t) /\ Step(t).do = "install" /\ Step(t).do \in Seatings /\ Then(t, <<>>)
      /\ UNCHANGED <<seeks, byID>>
      /\ \E game : /\ sessions' = Append(sessions, game)
                   /\ game.seats = seats /\ game.escrow = "held" /\ game.moved = FALSE
  BY <1>1 DEF InstallGame, At, Step, Seatings
<1>4. PICK game : /\ sessions' = Append(sessions, game)
                  /\ game.seats = seats /\ game.escrow = "held" /\ game.moved = FALSE
  BY <1>3
<1>5. /\ seats \in SeatPairs /\ SeatsSound(seats, seeks)
      /\ \A s : Carries(Step(t), s) <=> Seated(s, seats)
  BY <1>1, <1>3, HeadIsSeating
<1>6. /\ seats[Red].seek # seats[Blue].seek
      /\ \A color \in Colors : /\ seats[color].seek \in SeekIDs
                               /\ MadeIn(seats[color].seek, seeks)
                               /\ ~Elsewhere(seats[color].seek, seats)
      /\ \A s : Seated(s, seats) <=> ~Elsewhere(s, seats)
  BY <1>5, MadeMatch
<1>7. Even(seats)
  <2>1. StepEven(Step(t), sessions)
    BY <1>3, HeadIsSound DEF MatchInv
  <2> QED
    BY <1>1, <1>3, <2>1 DEF StepEven
<1>8. /\ sessions \in Seq(SessionRecords) /\ Len(sessions) \in Nat
      /\ DOMAIN sessions = 1..Len(sessions) /\ DOMAIN sessions' = 1..id
      /\ Len(sessions') = id /\ sessions'[id] = game
      /\ \A g \in 1..Len(sessions) : sessions'[g] = sessions[g]
  BY <1>2, <1>4, LobbyFacts
<1>9. /\ id \in DOMAIN sessions' /\ \A g \in DOMAIN sessions' : g = id \/ g \in DOMAIN sessions
      /\ \A g \in DOMAIN sessions : g \in DOMAIN sessions' /\ sessions'[g] = sessions[g]
  BY <1>2, <1>8
<1>10. \A s : Keeps(game, s) <=> ~Elsewhere(s, seats)
  BY <1>4, <1>6 DEF Keeps
<1>11. ASSUME NEW color \in Colors
       PROVE  /\ FateOf(seats[color].seek) = MatchFate("matched", seats, color)
              /\ FateOf(seats[color].seek)' = MatchFate("held", seats, color)
  <2>1. PICK s \in SeekIDs : s = seats[color].seek
    BY <1>6
  <2>2. Carries(Step(t), s) /\ MadeIn(s, seeks) /\ MadeIn(s, seeks') /\ Keeps(sessions'[id], s)
    BY <1>3, <1>5, <1>6, <1>8, <1>10, <2>1
  <2>3. FateOf(s) = MatchedAs("matched", s, seats)
    BY <1>1, <1>3, <2>2, HeadFate DEF FateInHand
  <2>4. FateOf(s)' = MatchedAs("held", s, seats)
    BY <1>4, <1>8, <1>9, <2>2, HeldNext DEF FateInGame
  <2> QED
    BY <1>5, <1>6, <1>7, <2>1, <2>3, <2>4, SeatedFates
<1>12. ASSUME NEW s \in SeekIDs, Elsewhere(s, seats) PROVE FateOf(s)' = FateOf(s)
  <2>1. \A f : HandFate(s, agenda, f) <=> HandFate(s, agenda', f)
    BY <1>3, <1>5, <1>6, <1>12, NoSteps, UntouchedHands
  <2>2. ~Keeps(sessions'[id], s)
    BY <1>8, <1>10, <1>12
  <2>3. \A f : GameFate(s, sessions, f) <=> GameFate(s, sessions', f)
    BY <1>9, <2>2 DEF GameFate
  <2> QED
    BY <1>3, <2>1, <2>3, FateStays DEF SamePlace
<1>13. Together(seats, Fates("matched", seats), Fates("held", seats))
  BY <1>11, <1>12 DEF Together, Fates
<1>14. Matches!Seated(seats[Red].seek) /\ seats[Red].seek \in SeekIDs
  BY <1>5, <1>6, <1>13, ColorFacts, GoesTogether DEF Matches!Seated
<1>15. PlayedOn(sessions, sessions')
  BY <1>2, <1>8 DEF PlayedOn
<1>16. \A g \in DOMAIN sessions' : Even(sessions'[g].seats)
  BY <1>4, <1>7, <1>8, <1>9 DEF MatchInv
<1>17. MatchInv'
  BY <1>3, <1>15, <1>16, NoSteps, MatchGoesOn DEF Work
<1> QED
  BY <1>14, <1>17

\* What a game changes of its own, and of the others.
LEMMA OneGameChanges ==
  ASSUME LobbyInv, MatchInv, NEW g \in DOMAIN sessions, NEW game,
         sessions' = [sessions EXCEPT ![g] = game],
         game.seats = sessions[g].seats, sessions[g].moved => game.moved
  PROVE  /\ DOMAIN sessions' = DOMAIN sessions /\ sessions'[g] = game
         /\ PlayedOn(sessions, sessions')
         /\ \A h \in DOMAIN sessions' : Even(sessions'[h].seats)
         /\ \A s, f : ~Keeps(sessions[g], s) /\ ~Keeps(game, s) =>
              (GameFate(s, sessions, f) <=> GameFate(s, sessions', f))
<1>1. /\ DOMAIN sessions' = DOMAIN sessions /\ sessions'[g] = game
      /\ \A h \in DOMAIN sessions : sessions'[h] = IF h = g THEN game ELSE sessions[h]
  OBVIOUS
<1>2. Len(sessions') = Len(sessions) /\ Len(sessions) \in Nat /\ DOMAIN sessions = 1..Len(sessions)
  BY <1>1, LobbyFacts
<1>3. PlayedOn(sessions, sessions')
  BY <1>1, <1>2 DEF PlayedOn
<1>4. \A h \in DOMAIN sessions' : Even(sessions'[h].seats)
  BY <1>1 DEF MatchInv
<1>5. \A s, f : ~Keeps(sessions[g], s) /\ ~Keeps(game, s) =>
        (GameFate(s, sessions, f) <=> GameFate(s, sessions', f))
  BY <1>1 DEF GameFate
<1> QED
  BY <1>1, <1>3, <1>4, <1>5

LEMMA EscrowFacts ==
  ASSUME LobbyInv, MatchInv, NEW g \in DOMAIN sessions
  PROVE  LET seats == sessions[g].seats
         IN  /\ seats \in SeatPairs /\ SeatsSound(seats, seeks) /\ Even(seats)
             /\ seats[Red].seek # seats[Blue].seek
             /\ \A color \in Colors : seats[color].seek \in SeekIDs
                                      /\ MadeIn(seats[color].seek, seeks)
                                      /\ ~Elsewhere(seats[color].seek, seats)
             /\ \A s : Keeps(sessions[g], s) <=>
                  sessions[g].escrow # "none" /\ ~Elsewhere(s, seats)
             /\ sessions[g].escrow # "none" =>
                  \A color \in Colors :
                    FateOf(seats[color].seek) =
                      MatchFate(IF sessions[g].moved THEN "moved" ELSE "held", seats, color)
<1>1. PICK seats : seats = sessions[g].seats
  OBVIOUS
<1>2. seats \in SeatPairs /\ SeatsSound(seats, seeks) /\ Even(seats)
  <2>1. sessions[g] \in SessionRecords
    BY LobbyFacts
  <2>2. seats \in SeatPairs
    BY <1>1, <2>1 DEF SessionRecords
  <2> QED
    BY <1>1, <2>2, LobbyFacts DEF SeatsInv, MatchInv
<1>3. /\ seats[Red].seek # seats[Blue].seek
      /\ \A color \in Colors : seats[color].seek \in SeekIDs
                               /\ MadeIn(seats[color].seek, seeks)
                               /\ ~Elsewhere(seats[color].seek, seats)
      /\ \A s : Seated(s, seats) <=> ~Elsewhere(s, seats)
  BY <1>2, MadeMatch
<1>4. \A s : Keeps(sessions[g], s) <=> sessions[g].escrow # "none" /\ ~Elsewhere(s, seats)
  BY <1>1, <1>3 DEF Keeps
<1>5. ASSUME sessions[g].escrow # "none", NEW color \in Colors
      PROVE  FateOf(seats[color].seek) =
               MatchFate(IF sessions[g].moved THEN "moved" ELSE "held", seats, color)
  <2>1. PICK s \in SeekIDs : s = seats[color].seek
    BY <1>3
  <2>2. Keeps(sessions[g], s)
    BY <1>3, <1>4, <1>5, <2>1
  <2>3. FateOf(s) = FateInGame(s, sessions[g])
    BY <2>2, HeldFate
  <2>4. PICK where : where = IF sessions[g].moved THEN "moved" ELSE "held"
    OBVIOUS
  <2>5. FateOf(s) = MatchedAs(where, s, seats)
    BY <1>1, <2>3, <2>4 DEF FateInGame
  <2>6. MatchedAs(where, s, seats) = MatchFate(where, seats, color)
    BY <1>2, <1>3, <2>1, SeatedFates
  <2> QED
    BY <2>1, <2>4, <2>5, <2>6
<1> QED
  BY <1>1, <1>2, <1>3, <1>4, <1>5

\* An escrow is emptied, and what a thread is told to return goes back.
LEMMA EscrowIsEmptied ==
  ASSUME LobbyInv, LobbyInv', MatchInv, NEW g \in DOMAIN sessions,
         sessions[g].escrow # "none", sessions' = [sessions EXCEPT ![g].escrow = "none"],
         NEW t \in Threads, ~Idle(t), NEW steps \in Seq(GoingBack), Then(t, steps),
         \A s : ~Carries(Step(t), s),
         \A s : CarriedIn(s, steps) => ~Elsewhere(s, sessions[g].seats),
         UNCHANGED <<seeks, byID>>,
         NEW where, where = IF sessions[g].moved THEN "moved" ELSE "held"
  PROVE  /\ Together(sessions[g].seats, Fates(where, sessions[g].seats),
                     Loose(steps, sessions[g].seats))
         /\ MatchInv'
<1>1. PICK seats : seats = sessions[g].seats
  OBVIOUS
<1>2. PICK game : game = [sessions[g] EXCEPT !.escrow = "none"]
  OBVIOUS
<1>3. /\ game.seats = seats /\ game.moved = sessions[g].moved /\ game.escrow = "none"
  <2>1. sessions[g] \in SessionRecords
    BY LobbyFacts
  <2> QED
    BY <1>1, <1>2, <2>1 DEF SessionRecords
<1>4. /\ DOMAIN sessions' = DOMAIN sessions /\ sessions'[g] = game
      /\ PlayedOn(sessions, sessions')
      /\ \A h \in DOMAIN sessions' : Even(sessions'[h].seats)
      /\ \A s, f : ~Keeps(sessions[g], s) /\ ~Keeps(game, s) =>
           (GameFate(s, sessions, f) <=> GameFate(s, sessions', f))
      /\ \A h \in DOMAIN sessions : h # g => sessions'[h] = sessions[h]
  <2>1. sessions' = [sessions EXCEPT ![g] = game]
    BY <1>2
  <2>2. \A h \in DOMAIN sessions : h # g => sessions'[h] = sessions[h]
    BY <2>1
  <2>3. game.seats = sessions[g].seats /\ (sessions[g].moved => game.moved)
    BY <1>1, <1>3
  <2>4. /\ DOMAIN sessions' = DOMAIN sessions /\ sessions'[g] = game
        /\ PlayedOn(sessions, sessions')
        /\ \A h \in DOMAIN sessions' : Even(sessions'[h].seats)
        /\ \A s, f : ~Keeps(sessions[g], s) /\ ~Keeps(game, s) =>
             (GameFate(s, sessions, f) <=> GameFate(s, sessions', f))
    BY <2>1, <2>3, OneGameChanges
  <2> QED
    BY <2>2, <2>4
<1>5. /\ \A color \in Colors : /\ seats[color].seek \in SeekIDs
                               /\ MadeIn(seats[color].seek, seeks)
                               /\ ~Elsewhere(seats[color].seek, seats)
      /\ \A s : Keeps(sessions[g], s) <=> ~Elsewhere(s, seats)
      /\ \A color \in Colors :
           FateOf(seats[color].seek) =
             MatchFate(IF sessions[g].moved THEN "moved" ELSE "held", seats, color)
  BY <1>1, EscrowFacts
<1>6. \A s : ~Keeps(game, s)
  BY <1>3 DEF Keeps
<1>7. /\ steps \in Seq(Steps)
      /\ \A i \in 1..Len(steps) :
           /\ StepEven(steps[i], sessions')
           /\ \A s : Carries(steps[i], s) => FateInHand(s, steps[i]) = Alone("returning")
  BY GoingBackFacts
<1>8. ASSUME NEW color \in Colors
      PROVE  /\ FateOf(seats[color].seek) = MatchFate(where, seats, color)
             /\ FateOf(seats[color].seek)' = Loose(steps, seats)[color]
  <2>1. PICK s \in SeekIDs : s = seats[color].seek
    BY <1>5
  <2>2. MadeIn(s, seeks') /\ Keeps(sessions[g], s)
    BY <1>5, <2>1
  <2>3. CASE CarriedIn(s, steps)
    <3>1. PICK i \in 1..Len(steps) : Carries(steps[i], s)
      BY <2>3 DEF CarriedIn
    <3>2. FateOf(s)' = Alone("returning")
      BY <1>7, <2>2, <3>1, HandNext
    <3> QED
      BY <1>5, <2>1, <2>3, <3>2 DEF Loose
  <2>4. CASE ~CarriedIn(s, steps)
    <3>1. /\ s \notin byID /\ \A f : ~HandFate(s, agenda, f)
          /\ \A h \in DOMAIN sessions : Keeps(sessions[h], s) => h = g
      BY <2>2, HeldFate
    <3>2. \A f : ~HandFate(s, agenda', f)
      BY <1>7, <2>4, <3>1, UntouchedHands
    <3>3. \A f : ~GameFate(s, sessions', f)
      BY <1>4, <1>6, <3>1 DEF GameFate
    <3>4. FateOf(s)' = Alone("gone")
      BY <2>2, <3>1, <3>2, <3>3, GoneNext
    <3> QED
      BY <1>5, <2>1, <2>4, <3>4 DEF Loose
  <2> QED
    BY <2>3, <2>4
<1>9. ASSUME NEW s \in SeekIDs, Elsewhere(s, seats) PROVE FateOf(s)' = FateOf(s)
  <2>1. \A f : HandFate(s, agenda, f) <=> HandFate(s, agenda', f)
    BY <1>1, <1>7, <1>9, UntouchedHands
  <2>2. \A f : GameFate(s, sessions, f) <=> GameFate(s, sessions', f)
    BY <1>4, <1>5, <1>6, <1>9
  <2> QED
    BY <2>1, <2>2, FateStays DEF SamePlace
<1>10. Together(seats, Fates(where, seats), Loose(steps, seats))
  BY <1>8, <1>9 DEF Together, Fates
<1>11. MatchInv'
  BY <1>4, <1>7, MatchGoesOn DEF Work
<1> QED
  BY <1>1, <1>10, <1>11

LEMMA BeginningKeepsMatches ==
  ASSUME LobbyInv, LobbyInv', MatchInv, NEW c \in Clients, MatchBegan(c)
  PROVE  (Matches!LetGo \/ \E s \in SeekIDs : Matches!Begun(s)) /\ MatchInv'
<1>1. PICK g : g = Step(c).session
  OBVIOUS
<1>2. /\ c \in Threads /\ ~Idle(c) /\ Step(c).do = "began" /\ At(c, "began") /\ Then(c, <<>>)
      /\ sessions' = [sessions EXCEPT ![g].escrow = "none"]
      /\ UNCHANGED <<seeks, byID>>
  BY <1>1, ThreadFacts DEF MatchBegan, At, Step
<1>3. g \in DOMAIN sessions /\ sessions[g] \in SessionRecords
  BY <1>1, <1>2, HeadIsOfAGame DEF OfASession
<1>4. sessions[g].moved
  <2>1. StepEven(Step(c), sessions)
    BY <1>2, HeadIsSound DEF MatchInv
  <2> QED
    BY <1>1, <1>2, <2>1 DEF StepEven
<1>5. CASE sessions[g].escrow = "none"
  <2>1. PICK game : game = [sessions[g] EXCEPT !.escrow = "none"]
    OBVIOUS
  <2>2. /\ sessions' = [sessions EXCEPT ![g] = game]
        /\ game.seats = sessions[g].seats /\ game.moved = sessions[g].moved
        /\ game.escrow = "none"
    BY <1>2, <1>3, <2>1 DEF SessionRecords
  <2>3. SameEscrows(sessions, sessions')
    BY <1>3, <1>5, <2>2, OneGameStaysTheSame
  <2>4. GoesAbout(c, <<>>)
    BY <1>2, CarefreeNone, RunsAbout DEF Bystanders, Idler
  <2>5. Calm
    BY <1>2, <2>3, <2>4, NoSteps, GamesAreCalm
  <2> QED
    BY <2>5, CalmLetsGo, CalmKeepsMatches
<1>6. CASE sessions[g].escrow # "none"
  <2>1. PICK seats : seats = sessions[g].seats
    OBVIOUS
  <2>2. /\ seats \in SeatPairs /\ seats[Red].seek # seats[Blue].seek
        /\ seats[Red].seek \in SeekIDs
    BY <1>3, <2>1, ColorFacts, EscrowFacts
  <2>3. <<>> \in Seq(GoingBack) /\ \A s : ~CarriedIn(s, <<>>)
    BY NoSteps, EmptySeq
  <2>4. \A s : ~Carries(Step(c), s)
    BY <1>2 DEF Carries
  <2>5. Together(seats, Fates("moved", seats), Loose(<<>>, seats)) /\ MatchInv'
    BY <1>2, <1>3, <1>4, <1>6, <2>1, <2>3, <2>4, EscrowIsEmptied
  <2>6. Loose(<<>>, seats) =
          [d \in Colors |-> IF seats[d].seek \in {} THEN Alone("gone") ELSE Alone("gone")]
    BY <2>3 DEF Loose
  <2>7. /\ Matches!At(seats[Red].seek) = "moved"
        /\ Matches!Part(Matches!Pair(seats[Red].seek), {}, "gone")
    <3>1. Together(seats, Fates("moved", seats),
            [d \in Colors |-> IF seats[d].seek \in {} THEN Alone("gone") ELSE Alone("gone")])
      BY <2>5, <2>6
    <3>2. Red \in Colors
      BY ColorFacts
    <3> QED
      BY <2>2, <3>1, <3>2, PartsTogether
  <2> QED
    BY <2>2, <2>5, <2>7 DEF Matches!Begun
<1> QED
  BY <1>5, <1>6

LEMMA CallingOffKeepsMatches ==
  ASSUME LobbyInv, LobbyInv', MatchInv, NEW t \in Threads, CallOffUnstarted(t)
  PROVE  (Matches!LetGo \/ \E s \in SeekIDs : Matches!Off(s)) /\ MatchInv'
<1>1. PICK g, blame : g = Step(t).session /\ blame = Step(t).blame
  OBVIOUS
<1>2. PICK noShow : noShow = IF blame = Neutral THEN Red ELSE blame
  OBVIOUS
<1>3. PICK waiting : waiting = OtherColor(noShow)
  OBVIOUS
<1>4. /\ ~Idle(t) /\ Step(t).do = "callOff" /\ blame # "mover" /\ At(t, "callOff")
      /\ UNCHANGED <<seeks, byID>>
  BY <1>1 DEF CallOffUnstarted, At, Step
<1>5. g \in DOMAIN sessions /\ g \in Nat
  BY <1>1, <1>4, LobbyFacts, HeadIsOfAGame DEF OfASession
<1>6. /\ noShow \in Colors /\ waiting \in Colors /\ waiting # noShow
      /\ OtherColor(waiting) = noShow /\ \A c \in Colors : c = waiting \/ c = noShow
  <2>1. blame \in Colors \cup {Neutral}
    BY <1>1, <1>4, HeadIsSound, StepFields
  <2>2. noShow \in Colors
    BY <1>2, <2>1, ColorFacts
  <2> QED
    BY <1>3, <2>2, ColorFacts DEF OtherColor
<1>7. CASE Emptied(g)
  <2>1. Then(t, <<>>) /\ UNCHANGED sessions
    BY <1>1, <1>7 DEF CallOffUnstarted
  <2>2. GoesAbout(t, <<>>)
    BY <1>4, <2>1, CarefreeNone, RunsAbout DEF Bystanders, Idler
  <2>3. Calm
    BY <1>4, <2>1, <2>2, StillCalm
  <2> QED
    BY <2>3, CalmLetsGo, CalmKeepsMatches
<1>8. CASE ~Emptied(g)
  <2>1. PICK seats : seats = sessions[g].seats
    OBVIOUS
  <2>2. PICK discard : discard = [do |-> "discard", session |-> g]
    OBVIOUS
  <2>3. PICK first : first = Returns(seats[waiting])
    OBVIOUS
  <2>4. PICK second : second = IF blame = Neutral THEN Returns(seats[noShow]) ELSE <<>>
    OBVIOUS
  <2>5. PICK steps : steps = <<discard>> \o first \o second
    OBVIOUS
  <2>6. /\ sessions[g].escrow # "none"
        /\ sessions' = [sessions EXCEPT ![g].escrow = "none"]
        /\ Then(t, steps)
    BY <1>1, <1>2, <1>3, <1>8, <2>1, <2>2, <2>3, <2>4, <2>5 DEF CallOffUnstarted, Emptied
  <2>7. /\ seats \in SeatPairs /\ Even(seats) /\ seats[Red].seek # seats[Blue].seek
        /\ \A color \in Colors : ~Elsewhere(seats[color].seek, seats)
        /\ seats[waiting] \in Seats /\ seats[noShow] \in Seats
        /\ seats[waiting].seek # seats[noShow].seek
    <3>1. /\ seats \in SeatPairs /\ Even(seats) /\ seats[Red].seek # seats[Blue].seek
          /\ \A color \in Colors : ~Elsewhere(seats[color].seek, seats)
      BY <1>5, <2>1, EscrowFacts
    <3>2. seats[waiting] \in Seats /\ seats[noShow] \in Seats
      BY <1>6, <3>1 DEF SeatPairs
    <3> QED
      BY <1>6, <3>1, <3>2, ColorFacts
  <2>8. /\ first \in Seq(GoingBack) /\ second \in Seq(GoingBack)
        /\ \A s : CarriedIn(s, first) <=> seats[waiting].requeue /\ s = seats[waiting].seek
        /\ \A s : CarriedIn(s, second) <=>
             blame = Neutral /\ seats[noShow].requeue /\ s = seats[noShow].seek
    <3>1. /\ first \in Seq(GoingBack)
          /\ \A s : CarriedIn(s, first) <=> seats[waiting].requeue /\ s = seats[waiting].seek
      BY <2>3, <2>7, ReturnsGoBack
    <3>2. CASE blame = Neutral
      BY <2>4, <2>7, <3>1, <3>2, ReturnsGoBack
    <3>3. CASE blame # Neutral
      BY <2>4, <3>1, <3>3, NoSteps, EmptySeq
    <3> QED
      BY <3>2, <3>3
  <2>9. <<discard>> \in Seq(GoingBack) /\ \A s : ~CarriedIn(s, <<discard>>)
    <3>1. discard \in GoingBack /\ discard \in Steps /\ \A s : ~Carries(discard, s)
      BY <1>5, <2>2 DEF GoingBack, Steps, Carries
    <3>2. \A s : CarriedIn(s, <<discard>>) <=> Carries(discard, s)
      BY <3>1, OneStep
    <3> QED
      BY <3>1, <3>2
  <2>10. /\ steps \in Seq(GoingBack)
         /\ \A s : CarriedIn(s, steps) <=>
              \/ seats[waiting].requeue /\ s = seats[waiting].seek
              \/ blame = Neutral /\ seats[noShow].requeue /\ s = seats[noShow].seek
    <3>1. PICK opening : opening = <<discard>> \o first
      OBVIOUS
    <3>2. opening \in Seq(GoingBack) /\ steps \in Seq(GoingBack)
      BY <2>5, <2>8, <2>9, <3>1, ConcatProperties
    <3>3. /\ <<discard>> \in Seq(Steps) /\ first \in Seq(Steps) /\ second \in Seq(Steps)
          /\ opening \in Seq(Steps)
      BY <2>8, <2>9, <3>2, GoingBackFacts
    <3>4. \A s : CarriedIn(s, opening) <=> CarriedIn(s, first)
      BY <2>9, <3>1, <3>3, CarriedInBoth
    <3>5. \A s : CarriedIn(s, steps) <=> CarriedIn(s, opening) \/ CarriedIn(s, second)
      BY <2>5, <3>1, <3>3, CarriedInBoth
    <3> QED
      BY <2>8, <3>2, <3>4, <3>5
  <2>11. PICK where \in {"matched", "held", "moved"} :
           where # "matched" /\ where = IF sessions[g].moved THEN "moved" ELSE "held"
    OBVIOUS
  <2>12. \A s : ~Carries(Step(t), s)
    BY <1>4 DEF Carries
  <2>13. \A s : CarriedIn(s, steps) => ~Elsewhere(s, seats)
    BY <1>6, <2>7, <2>10
  <2>14. Together(seats, Fates(where, seats), Loose(steps, seats)) /\ MatchInv'
    BY <1>4, <1>5, <2>1, <2>6, <2>10, <2>11, <2>12, <2>13, EscrowIsEmptied
  <2>15. \/ \A c \in Colors : CarriedIn(seats[c].seek, steps) <=> seats[c].requeue
         \/ /\ where # "matched"
            /\ \E c \in Colors :
                 /\ ~CarriedIn(seats[c].seek, steps)
                 /\ CarriedIn(seats[OtherColor(c)].seek, steps) <=> seats[OtherColor(c)].requeue
    <3>1. CASE blame = Neutral
      BY <1>6, <2>7, <2>10, <3>1
    <3>2. CASE blame # Neutral
      <4>1. OtherColor(noShow) = waiting
        BY <1>3
      <4>2. /\ ~CarriedIn(seats[noShow].seek, steps)
            /\ CarriedIn(seats[waiting].seek, steps) <=> seats[waiting].requeue
        BY <2>7, <2>10, <3>2
      <4> QED
        BY <1>6, <2>11, <4>1, <4>2
    <3> QED
      BY <3>1, <3>2
  <2> QED
    BY <2>7, <2>14, <2>15, LooseIsOff
<1> QED
  BY <1>7, <1>8

\* The steps after a move that counts.
LEMMA AfterAMove ==
  ASSUME NEW g \in Nat, sessions'[g].moved, NEW rest, rest = <<>> \/ rest = <<Finish(g)>>
  PROVE  Carefree(<<[do |-> "began", session |-> g]>> \o rest)
<1>1. PICK began, finish : began = [do |-> "began", session |-> g] /\ finish = Finish(g)
  OBVIOUS
<1>2. PICK S : S = {step \in Steps : step.do \in Bystanders /\ StepEven(step, sessions')}
  OBVIOUS
<1>3. began \in S
  BY <1>1, <1>2 DEF Steps, Bystanders, Idler, StepEven, Seatings
<1>4. finish \in S
  BY <1>1, <1>2 DEF Finish, Steps, Bystanders, Idler, StepEven, Seatings
<1>5. <<began>> \in Seq(S) /\ rest \in Seq(S)
  <2>1. <<began>> \in Seq(S) /\ <<finish>> \in Seq(S) /\ <<>> \in Seq(S)
    BY <1>3, <1>4, EmptySeq
  <2>2. rest = <<>> \/ rest = <<finish>>
    BY <1>1
  <2> QED
    BY <2>1, <2>2
<1>6. PICK steps : steps = <<began>> \o rest
  OBVIOUS
<1>7. steps \in Seq(S)
  BY <1>5, <1>6, ConcatProperties
<1>8. S \subseteq Steps
  BY <1>2
<1>9. steps \in Seq(Steps)
  BY <1>7, <1>8
<1>10. \A i \in 1..Len(steps) : steps[i] \in S
  BY <1>7, ElementOfSeq
<1> QED
  BY <1>1, <1>2, <1>6, <1>9, <1>10 DEF Carefree

LEMMA MovingKeepsMatches ==
  ASSUME LobbyInv, LobbyInv', MatchInv, NEW c \in Clients, PlayMove(c)
  PROVE  (Matches!LetGo \/ \E s \in SeekIDs : Matches!Moved(s)) /\ MatchInv'
<1>1. PICK g, color : g = Step(c).seat.session /\ color = Step(c).seat.color
  OBVIOUS
<1>2. /\ c \in Threads /\ ~Idle(c) /\ Step(c).do = "move" /\ At(c, "move")
      /\ UNCHANGED <<seeks, byID>>
  BY ThreadFacts DEF PlayMove, At, Step
<1>3. g \in DOMAIN sessions /\ sessions[g] \in SessionRecords /\ g \in Nat
  BY <1>1, <1>2, LobbyFacts, HeadIsOfAGame
<1>4. \/ UNCHANGED sessions /\ (Then(c, <<Finish(g)>>) \/ Then(c, <<>>))
      \/ \E over \in BOOLEAN :
           /\ sessions' = [sessions EXCEPT ![g].moved = TRUE,
                             ![g].turn = IF over THEN @ ELSE OtherColor(@),
                             ![g].end = IF over THEN "move" ELSE @]
           /\ Then(c, <<[do |-> "began", session |-> g]>>
                        \o IF over THEN <<Finish(g)>> ELSE <<>>)
  BY <1>1 DEF PlayMove
<1>5. CASE UNCHANGED sessions /\ (Then(c, <<Finish(g)>>) \/ Then(c, <<>>))
  <2>1. Carefree(<<Finish(g)>>) /\ Carefree(<<>>)
    BY <1>3, CarefreeNone, CarefreeKinds DEF Finish, OfASession
  <2>2. GoesAbout(c, <<Finish(g)>>) \/ GoesAbout(c, <<>>)
    BY <1>2, <1>5, <2>1, RunsAbout DEF Bystanders, Idler
  <2>3. Calm
    BY <1>2, <1>5, <2>2, StillCalm
  <2> QED
    BY <2>3, CalmLetsGo, CalmKeepsMatches
<1>6. CASE \E over \in BOOLEAN :
             /\ sessions' = [sessions EXCEPT ![g].moved = TRUE,
                               ![g].turn = IF over THEN @ ELSE OtherColor(@),
                               ![g].end = IF over THEN "move" ELSE @]
             /\ Then(c, <<[do |-> "began", session |-> g]>>
                          \o IF over THEN <<Finish(g)>> ELSE <<>>)
  <2>1. PICK over \in BOOLEAN :
          /\ sessions' = [sessions EXCEPT ![g].moved = TRUE,
                            ![g].turn = IF over THEN @ ELSE OtherColor(@),
                            ![g].end = IF over THEN "move" ELSE @]
          /\ Then(c, <<[do |-> "began", session |-> g]>>
                       \o IF over THEN <<Finish(g)>> ELSE <<>>)
    BY <1>6
  <2>2. PICK turn, end : /\ turn = IF over THEN sessions[g].turn ELSE OtherColor(sessions[g].turn)
                         /\ end = IF over THEN "move" ELSE sessions[g].end
    OBVIOUS
  <2>3. PICK game : game = [sessions[g] EXCEPT !.moved = TRUE, !.turn = turn, !.end = end]
    OBVIOUS
  <2>4. /\ game.seats = sessions[g].seats /\ game.escrow = sessions[g].escrow
        /\ game.moved = TRUE
    BY <1>3, <2>3 DEF SessionRecords
  <2>5. sessions' = [sessions EXCEPT ![g] = game]
    BY <1>3, <2>1, <2>2, <2>3
  <2>6. PICK rest : /\ rest = <<>> \/ rest = <<Finish(g)>>
                    /\ Then(c, <<[do |-> "began", session |-> g]>> \o rest)
    BY <2>1
  <2>7. PICK steps : steps = <<[do |-> "began", session |-> g]>> \o rest
    OBVIOUS
  <2>8. /\ DOMAIN sessions' = DOMAIN sessions /\ sessions'[g] = game
        /\ PlayedOn(sessions, sessions')
        /\ \A h \in DOMAIN sessions' : Even(sessions'[h].seats)
        /\ \A s, f : ~Keeps(sessions[g], s) /\ ~Keeps(game, s) =>
             (GameFate(s, sessions, f) <=> GameFate(s, sessions', f))
    BY <1>3, <2>4, <2>5, OneGameChanges
  <2>9. Carefree(steps)
    BY <1>3, <2>4, <2>6, <2>7, <2>8, AfterAMove
  <2>10. GoesAbout(c, steps)
    BY <1>2, <2>6, <2>7, <2>9, RunsAbout DEF Bystanders, Idler
  <2>11. MatchInv'
    BY <1>2, <2>8, <2>10, MatchGoesOn DEF GoesAbout, Carefree
  <2>12. \A s, f : HandFate(s, agenda', f) <=> HandFate(s, agenda, f)
    BY <1>2, <2>10, HandFatesStay
  <2>13. PICK seats : seats = sessions[g].seats
    OBVIOUS
  <2>14. /\ seats \in SeatPairs /\ Even(seats) /\ seats[Red].seek # seats[Blue].seek
         /\ \A d \in Colors : seats[d].seek \in SeekIDs /\ MadeIn(seats[d].seek, seeks)
                              /\ ~Elsewhere(seats[d].seek, seats)
         /\ \A s : Keeps(sessions[g], s) <=>
              sessions[g].escrow # "none" /\ ~Elsewhere(s, seats)
         /\ sessions[g].escrow # "none" =>
              \A d \in Colors :
                FateOf(seats[d].seek) =
                  MatchFate(IF sessions[g].moved THEN "moved" ELSE "held", seats, d)
    BY <1>3, <2>13, EscrowFacts
  <2>15. \A s : Keeps(game, s) <=> Keeps(sessions[g], s)
    BY <2>4 DEF Keeps
  <2>16. ASSUME NEW s \in SeekIDs, ~Keeps(sessions[g], s) PROVE FateOf(s)' = FateOf(s)
    <3>1. \A f : GameFate(s, sessions, f) <=> GameFate(s, sessions', f)
      BY <2>8, <2>15, <2>16
    <3> QED
      BY <1>2, <2>12, <3>1, FateStays DEF SamePlace
  <2>17. ASSUME NEW d \in Colors, sessions[g].escrow # "none"
         PROVE  FateOf(seats[d].seek)' = MatchFate("moved", seats, d)
    <3>1. PICK s \in SeekIDs : s = seats[d].seek
      BY <2>14
    <3>2. MadeIn(s, seeks') /\ g \in DOMAIN sessions' /\ Keeps(sessions'[g], s)
      BY <1>2, <1>3, <2>8, <2>14, <2>15, <2>17, <3>1
    <3>3. FateOf(s)' = FateInGame(s, game)
      BY <2>8, <3>2, HeldNext
    <3>4. FateOf(s)' = MatchedAs("moved", s, seats)
      BY <2>4, <2>13, <3>3 DEF FateInGame
    <3>5. MatchedAs("moved", s, seats) = MatchFate("moved", seats, d)
      BY <2>14, <3>1, SeatedFates
    <3> QED
      BY <3>1, <3>4, <3>5
  <2>18. ASSUME sessions[g].escrow = "none" \/ sessions[g].moved PROVE Matches!LetGo
    <3>1. ASSUME NEW s \in SeekIDs PROVE FateOf(s)' = FateOf(s)
      <4>1. CASE ~Keeps(sessions[g], s)
        BY <2>16, <4>1
      <4>2. CASE Keeps(sessions[g], s)
        <5>1. PICK d \in Colors : s = seats[d].seek
          BY <2>14, <4>2 DEF Elsewhere
        <5>2. sessions[g].escrow # "none" /\ sessions[g].moved
          BY <2>14, <2>18, <4>2
        <5>3. FateOf(s) = MatchFate("moved", seats, d)
          BY <2>14, <5>1, <5>2
        <5> QED
          BY <2>17, <5>1, <5>2, <5>3
      <4> QED
        BY <4>1, <4>2
    <3> QED
      BY <3>1, IsLetGo
  <2>19. ASSUME sessions[g].escrow # "none", ~sessions[g].moved
         PROVE  \E s \in SeekIDs : Matches!Moved(s)
    <3>1. ASSUME NEW s \in SeekIDs, Elsewhere(s, seats) PROVE FateOf(s)' = FateOf(s)
      BY <2>14, <2>16, <3>1
    <3>2. Together(seats, Fates("held", seats), Fates("moved", seats))
      BY <2>14, <2>17, <2>19, <3>1 DEF Together, Fates
    <3> QED
      BY <2>14, <3>2, ColorFacts, GoesTogether DEF Matches!Moved
  <2> QED
    BY <2>11, <2>18, <2>19
<1> QED
  BY <1>4, <1>5, <1>6

-----------------------------------------------------------------------------
(* The theorem.                                                            *)

LEMMA MatchesStart == Init => Matches!MatchInit /\ MatchInv
<1> SUFFICES ASSUME Init PROVE Matches!MatchInit /\ MatchInv
  OBVIOUS
<1>1. seeks = <<>> /\ sessions = <<>> /\ agenda = [t \in Threads |-> <<>>]
  BY DEF Init
<1>2. \A s : ~MadeIn(s, seeks)
  BY <1>1 DEF MadeIn
<1>3. \A s \in SeekIDs : FateOf(s) = Alone("unmade")
  BY <1>2, FateIsFateIn DEF FateIn
<1>4. Matches!MatchInit
  BY <1>3 DEF Matches!MatchInit, Matches!Alone, Alone
<1>5. MatchInv
  BY <1>1 DEF MatchInv
<1> QED
  BY <1>4, <1>5

LEMMA CalmIsMatchStep ==
  ASSUME LobbyInv, LobbyInv', MatchInv, Calm
  PROVE  Matches!MatchNext /\ MatchInv'
  BY CalmLetsGo, CalmKeepsMatches DEF Matches!MatchNext

LEMMA MatchesGoOn ==
  ASSUME LobbyInv, LobbyInv', MatchInv, [Next]_vars
  PROVE  Matches!MatchNext /\ MatchInv'
<1>1. ASSUME NEW c \in Clients, Command(c) PROVE Matches!MatchNext /\ MatchInv'
  <2>1. Calm
    BY <1>1, AgendasAreCalm, TakingOffIsCalm, SocketsAreCalm, AbortIsCalm, RejoinGameIsCalm
       DEF Command
  <2> QED
    BY <2>1, CalmIsMatchStep
<1>2. ASSUME NEW c \in Clients, Continue(c) PROVE Matches!MatchNext /\ MatchInv'
  <2>1. CASE PostSeek(c)
    BY <2>1, PostingKeepsMatches DEF Matches!MatchNext
  <2>2. CASE ClaimSeek(c)
    BY <2>2, ClaimingKeepsMatches DEF Matches!MatchNext
  <2>3. CASE PlayMove(c)
    BY <2>3, MovingKeepsMatches DEF Matches!MatchNext
  <2>4. CASE MatchBegan(c)
    BY <2>4, BeginningKeepsMatches DEF Matches!MatchNext
  <2>5. CASE PlayResign(c)
    BY <2>5, EndingsAreCalm, CalmIsMatchStep, ThreadFacts
  <2>6. CASE Rebind(c) \/ Detach(c) \/ Shelter(c) \/ Unregister(c)
    BY <2>6, SocketsAreCalm, CalmIsMatchStep
  <2>7. CASE Unseat(c)
    BY <2>7, UnseatIsCalm, CalmIsMatchStep
  <2>8. CASE Dispose(c)
    BY <2>8, TakingOffIsCalm, CalmIsMatchStep
  <2> QED
    BY <1>2, <2>1, <2>2, <2>3, <2>4, <2>5, <2>6, <2>7, <2>8 DEF Continue
<1>3. ASSUME NEW t \in Threads, Shared(t) PROVE Matches!MatchNext /\ MatchInv'
  <2>1. CASE ResolveSeats(t)
    BY <2>1, ResolvingKeepsMatches DEF Matches!MatchNext
  <2>2. CASE OpenGame(t)
    BY <2>2, OpeningKeepsMatches DEF Matches!MatchNext
  <2>3. CASE InstallGame(t)
    BY <2>3, InstallingKeepsMatches DEF Matches!MatchNext
  <2>4. CASE CallOffUnstarted(t)
    BY <2>4, CallingOffKeepsMatches DEF Matches!MatchNext
  <2>5. CASE Requeue(t)
    BY <2>5, RequeueKeepsMatches DEF Matches!MatchNext
  <2>6. CASE Release(t)
    BY <2>6, TakingOffIsCalm, CalmIsMatchStep
  <2>7. CASE ReadMover(t)
    BY <2>7, AgendasAreCalm, CalmIsMatchStep
  <2>8. CASE Discard(t) \/ Retire(t)
    BY <2>8, UnlistingIsCalm, CalmIsMatchStep
  <2>9. CASE AbandonGame(t) \/ FinishSession(t)
    BY <2>9, EndingsAreCalm, CalmIsMatchStep
  <2> QED
    BY <1>3, <2>1, <2>2, <2>3, <2>4, <2>5, <2>6, <2>7, <2>8, <2>9 DEF Shared
<1>4. ASSUME PairTick \/ StopUnbegun PROVE Matches!MatchNext /\ MatchInv'
  BY <1>4, AgendasAreCalm, CalmIsMatchStep
<1>5. ASSUME Pair PROVE Matches!MatchNext /\ MatchInv'
  BY <1>5, PairingKeepsMatches DEF Matches!MatchNext
<1>6. ASSUME Ticker PROVE Matches!MatchNext /\ MatchInv'
  <2>1. CASE SweepUnstarted
    BY <2>1, SweepsAreCalm, CalmIsMatchStep
  <2>2. CASE ExpireChallenges
    BY <2>2, TakingOffIsCalm, CalmIsMatchStep
  <2>3. ASSUME NEW g \in 1..MaxSessions, ClockEnds(g) PROVE Matches!MatchNext /\ MatchInv'
    BY <2>3, ClockEndsIsCalm, CalmIsMatchStep
  <2>4. ASSUME NEW g \in 1..MaxSessions, NobodyCameBack(g) PROVE Matches!MatchNext /\ MatchInv'
    BY <2>4, AgendasAreCalm, CalmIsMatchStep
  <2> QED
    BY <1>6, <2>1, <2>2, <2>3, <2>4 DEF Ticker
<1>7. ASSUME DrainSweep PROVE Matches!MatchNext /\ MatchInv'
  BY <1>7, SweepsAreCalm, CalmIsMatchStep
<1>8. ASSUME BeginUpdateDrain \/ CancelUpdateDrain \/ UNCHANGED vars
      PROVE  Matches!MatchNext /\ MatchInv'
  BY <1>8, DrainsAreCalm, CalmIsMatchStep
<1> QED
  BY <1>1, <1>2, <1>3, <1>4, <1>5, <1>6, <1>7, <1>8 DEF Next

\* Two seeks are matched, seated and used up together, a match made by pairing
\* that comes to nothing costs at most one of the two their wait, and a seek
\* that is gone is never posted again, whatever thread carries them between the
\* board, its hands and an escrow (Lobby!LobbyKeepsItsMatches).
THEOREM LobbyImplementsMatchmaking == Spec => LobbyKeepsItsMatches
<1>1. Init => Matches!MatchInit /\ MatchInv
  BY MatchesStart
<1>2. LobbyInv /\ LobbyInv' /\ MatchInv /\ [Next]_vars =>
        MatchInv' /\ [Matches!MatchNext]_[s \in SeekIDs |-> FateOf(s)]
  BY MatchesGoOn
<1> QED
  BY <1>1, <1>2, LobbyAlways, PTL DEF Spec, LobbyKeepsItsMatches, Matches!MatchSpec
================================================================================
