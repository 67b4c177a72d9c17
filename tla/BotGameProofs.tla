----------------------------- MODULE BotGameProofs -----------------------------
(***************************************************************************)
(* That the work behind a practice game is always about the game on the    *)
(* board, for any moves, any length of game and any amount of work in      *)
(* flight.                                                                 *)
(***************************************************************************)
EXTENDS BotGame, FiniteSetTheorems, SequenceTheorems, TLAPS

\* The work in flight agrees with the counters: a turn or a hint in flight is
\* the one its counter belongs to, and there is at most one of each.
Counted(jb, cur) ==
  /\ jb \in [Jobs -> Works \cup {NoJob}]
  /\ cur \in [Counters -> Jobs \cup {0}]
  /\ \A c \in Counters : cur[c] # 0 => jb[cur[c]].kind = c
  /\ \A j \in Jobs : jb[j].kind \in Counters => cur[jb[j].kind] = j

\* What a turn and a hint in flight are about.
AboutThisGame(s, jb) ==
  \A j \in Jobs :
    /\ jb[j].kind = "turn" =>
         s # None /\ s.game = jb[j].game /\ s.line = jb[j].on /\ BotToMove(s) /\ s.thinking
    /\ jb[j].kind = "hint" =>
         s # None /\ s.game = jb[j].game /\ IsPrefix(jb[j].on, s.line)

\* What the screen shows is backed by the work.
Backed(s, jb, cur) ==
  s # None =>
    /\ s.thinking => cur["turn"] # 0
    /\ s.hintPending => cur["hint"] # 0 /\ jb[cur["hint"]].on = s.line
    /\ s.hint # None => s.hint.game = s.game /\ IsPrefix(s.hint.on, s.line)

\* Only the bot's turn goes on after its search.
OnlyTurnsPause(jb) ==
  \A j \in Jobs : jb[j].kind \in {"hint", "draw"} => jb[j].phase # "pausing"

Sound(s, jb, cur) ==
  /\ s \in Sessions \cup {None}
  /\ Counted(jb, cur)
  /\ AboutThisGame(s, jb)
  /\ Backed(s, jb, cur)
  /\ OnlyTurnsPause(jb)

BotInv == Sound(session, job, current)

-----------------------------------------------------------------------------
(* Sequences, records and free numbers.                                    *)

LEMMA KindsOfJobs ==
  /\ NoJob \notin Works /\ NoJob.kind \notin Kinds /\ Counters \subseteq Kinds
  /\ \A j \in Works : j.kind \in Kinds
  /\ 0 \notin Jobs
  BY NoneAssumption DEF NoJob, Works, Kinds, Counters, Jobs

LEMMA PrefixOfItself ==
  ASSUME NEW line \in Seq(Moves)
  PROVE  IsPrefix(line, line)
  BY DEF IsPrefix

LEMMA PrefixKept ==
  ASSUME NEW on \in Seq(Moves), NEW line \in Seq(Moves), NEW move \in Moves,
         IsPrefix(on, line)
  PROVE  IsPrefix(on, Append(line, move))
<1>1. Len(on) <= Len(line) /\ SubSeq(on, 1, Len(on)) = SubSeq(line, 1, Len(on))
  BY DEF IsPrefix
<1>2. SubSeq(Append(line, move), 1, Len(on)) = SubSeq(line, 1, Len(on))
  BY <1>1
<1> QED
  BY <1>1, <1>2 DEF IsPrefix

\* There is always a number for a new game: fewer games have work in flight
\* than there are numbers.
LEMMA NewGameIsNew ==
  ASSUME BotInv
  PROVE  NewGame \in Games
<1> DEFINE Taken(g) == \/ session # None /\ session.game = g
                       \/ \E j \in InFlight : job[j].game = g
<1>1. SUFFICES \E g \in Games : ~Taken(g)
  BY DEF NewGame
<1>2. SUFFICES ASSUME \A g \in Games : Taken(g) PROVE FALSE
  OBVIOUS
<1> DEFINE f == [g \in Games |-> IF session # None /\ session.game = g THEN 0
                                 ELSE CHOOSE j \in InFlight : job[j].game = g]
<1>3. f \in [Games -> 0..MaxJobs]
  BY <1>2, BotAssumption DEF InFlight, Jobs
<1>4. IsFiniteSet(Games) /\ Cardinality(Games) = MaxJobs + 2
  BY FS_Interval, BotAssumption DEF Games
<1>5. IsFiniteSet(0..MaxJobs) /\ Cardinality(0..MaxJobs) = MaxJobs + 1
  BY FS_Interval, BotAssumption
<1>6. PICK g \in Games, h \in Games : g # h /\ f[g] = f[h]
  <2>1. Cardinality(0..MaxJobs) < Cardinality(Games)
    BY <1>4, <1>5, BotAssumption
  <2> HIDE DEF f
  <2> QED
    BY <1>3, <1>4, <1>5, <2>1, FS_PigeonHole
<1>7. \A x \in Games : \/ f[x] = 0 /\ session.game = x
                       \/ f[x] \in InFlight /\ job[f[x]].game = x
  BY <1>2
<1>8. 0 \notin InFlight
  BY DEF InFlight, Jobs
<1> HIDE DEF f, Taken
<1> QED
  BY <1>6, <1>7, <1>8

\* Where there is room, a number is free.
LEMMA RoomIsFree ==
  ASSUME BotInv, Room
  PROVE  \E j \in Jobs : job[j] = NoJob
<1> SUFFICES ASSUME InFlight = Jobs PROVE FALSE
  BY DEF InFlight
<1>1. Cardinality(Jobs) = MaxJobs
  BY FS_Interval, BotAssumption DEF Jobs
<1> QED
  BY <1>1, BotAssumption DEF Room

-----------------------------------------------------------------------------
(* What the operators on work do.                                          *)

LEMMA StoppedWork ==
  ASSUME NEW w, NEW stopped
  PROVE  /\ Stopped(w, stopped).current = w.current
         /\ Stopped(w, stopped).job = [j \in Jobs |-> IF j \in stopped THEN NoJob ELSE w.job[j]]
  BY DEF Stopped

\* Work that is dismissed leaves the rest as it was, and its counter free.
LEMMA DismissedWork ==
  ASSUME NEW w, Counted(w.job, w.current), NEW stopped
  PROVE  LET v == Dismissed(w, stopped)
         IN  /\ Counted(v.job, v.current)
             /\ v.job = [j \in Jobs |-> IF j \in stopped THEN NoJob ELSE w.job[j]]
             /\ v.current = [c \in Counters |-> IF w.current[c] \in stopped THEN 0
                                                ELSE w.current[c]]
<1> DEFINE v == Dismissed(w, stopped)
<1>1. /\ v.job = [j \in Jobs |-> IF j \in stopped THEN NoJob ELSE w.job[j]]
      /\ v.current = [c \in Counters |-> IF w.current[c] \in stopped THEN 0
                                         ELSE w.current[c]]
  BY StoppedWork DEF Dismissed
<1> HIDE DEF v
<1>2. Counted(v.job, v.current)
  BY <1>1, KindsOfJobs DEF Counted
<1> QED
  BY <1>1, <1>2 DEF v

\* Cancelled, neither a turn nor a hint is left.
LEMMA CancelledWork ==
  ASSUME NEW w, Counted(w.job, w.current)
  PROVE  LET v == Cancelled(w)
         IN  /\ Counted(v.job, v.current)
             /\ \A c \in Counters : v.current[c] = 0
             /\ \A j \in Jobs : v.job[j].kind \notin Counters
             /\ \A j \in Jobs : v.job[j] \in {w.job[j], NoJob}
<1> DEFINE v == Cancelled(w)
           stopped == {w.current[c] : c \in Counters}
<1>1. /\ Counted(v.job, v.current)
      /\ v.job = [j \in Jobs |-> IF j \in stopped THEN NoJob ELSE w.job[j]]
      /\ v.current = [c \in Counters |-> IF w.current[c] \in stopped THEN 0
                                         ELSE w.current[c]]
  BY DismissedWork DEF Cancelled
<1> HIDE DEF v
<1>2. \A c \in Counters : w.current[c] \in stopped
  OBVIOUS
<1>3. \A j \in Jobs : w.job[j].kind \in Counters => j \in stopped
  BY DEF Counted
<1>4. /\ \A c \in Counters : v.current[c] = 0
      /\ \A j \in Jobs : v.job[j].kind \notin Counters
      /\ \A j \in Jobs : v.job[j] \in {w.job[j], NoJob}
  BY <1>1, <1>2, <1>3, KindsOfJobs
<1> QED
  BY <1>1, <1>4 DEF v

LEMMA WorkParts == Work.job = job /\ Work.lane = lane /\ Work.current = current
  BY DEF Work

NewWork(kind, s, phase) == [kind |-> kind, game |-> s.game, on |-> s.line, phase |-> phase]

LEMMA NewWorkIsWork ==
  ASSUME NEW kind \in Kinds, NEW s \in Sessions, NEW phase \in {"searching", "pausing"}
  PROVE  /\ NewWork(kind, s, phase) \in Works /\ NewWork(kind, s, phase).kind = kind
         /\ NewWork(kind, s, phase).game = s.game /\ NewWork(kind, s, phase).on = s.line
  BY DEF NewWork, Works, Phases, Sessions

\* A new turn or hint is the only one of its kind.
LEMMA SupersedingWork ==
  ASSUME NEW w, Counted(w.job, w.current), NEW kind \in Counters, NEW s \in Sessions,
         NEW phase \in {"searching", "pausing"}, \E j \in Jobs : w.job[j] = NoJob
  PROVE  LET v == Superseding(w, kind, s, phase)
         IN  /\ Counted(v.job, v.current)
             /\ v.current[kind] \in Jobs
             /\ v.job[v.current[kind]] = NewWork(kind, s, phase)
             /\ \A c \in Counters \ {kind} : v.current[c] = w.current[c]
             /\ \A i \in Jobs \ {v.current[kind]} :
                  v.job[i] = NoJob \/ (v.job[i] = w.job[i] /\ w.job[i].kind # kind)
<1> DEFINE u == Stopped(w, {w.current[kind]})
           v == Superseding(w, kind, s, phase)
           new == NewWork(kind, s, phase)
<1>1. /\ u.job = [j \in Jobs |-> IF j = w.current[kind] THEN NoJob ELSE w.job[j]]
      /\ u.current = w.current
  BY StoppedWork
<1>2. v = Begun(u, kind, s, phase)
  BY DEF Superseding
<1> HIDE DEF u, v
<1>3. u.job \in [Jobs -> Works \cup {NoJob}] /\ \E j \in Jobs : u.job[j] = NoJob
  BY <1>1 DEF Counted
<1>4. kind \in Kinds
  BY KindsOfJobs
<1>5. PICK j \in Jobs : /\ u.job[j] = NoJob
                        /\ v.job = [u.job EXCEPT ![j] = new]
                        /\ v.current = [c \in Counters |-> IF c = kind THEN j ELSE u.current[c]]
  <2> DEFINE b == Begun(u, kind, s, phase)
             free == CHOOSE f \in FreeJobs(u) : TRUE
  <2>1. free \in Jobs /\ u.job[free] = NoJob
    BY <1>3 DEF FreeJobs
  <2> HIDE DEF free
  <2>2. /\ b.job = [u.job EXCEPT ![free] = new]
        /\ b.current = [c \in Counters |-> IF c = kind THEN free ELSE u.current[c]]
    BY DEF Begun, NewWork, free
  <2> QED
    BY <1>2, <2>1, <2>2
<1>6. new \in Works /\ new.kind = kind
  BY <1>4, NewWorkIsWork
<1> HIDE DEF new
<1>7. v.job[j] = new /\ \A i \in Jobs \ {j} : v.job[i] = u.job[i]
  BY <1>3, <1>5
<1>8. /\ v.job \in [Jobs -> Works \cup {NoJob}]
      /\ v.current \in [Counters -> Jobs \cup {0}]
  BY <1>1, <1>3, <1>5, <1>6 DEF Counted
<1>9. \A i \in Jobs : u.job[i].kind \in Counters =>
        u.job[i] = w.job[i] /\ w.current[w.job[i].kind] = i /\ w.job[i].kind # kind
  BY <1>1, KindsOfJobs DEF Counted
<1>10. \A i \in Jobs : v.job[i].kind \in Counters => v.current[v.job[i].kind] = i
  BY <1>1, <1>5, <1>6, <1>7, <1>9
<1>11. \A c \in Counters : v.current[c] # 0 => v.job[v.current[c]].kind = c
  <2> SUFFICES ASSUME NEW c \in Counters, v.current[c] # 0 PROVE v.job[v.current[c]].kind = c
    OBVIOUS
  <2>1. CASE c = kind
    BY <2>1, <1>5, <1>6, <1>7
  <2>2. CASE c # kind
    <3>1. v.current[c] = w.current[c] /\ w.current[c] \in Jobs
      BY <2>2, <1>1, <1>5, <1>8
    <3>2. w.job[w.current[c]].kind = c /\ w.current[c] # w.current[kind]
      BY <2>2, <3>1 DEF Counted
    <3>3. u.job[w.current[c]] = w.job[w.current[c]]
      BY <1>1, <3>1, <3>2
    <3>4. w.current[c] # j
      BY <1>5, <3>2, <3>3, KindsOfJobs
    <3> QED
      BY <1>7, <3>1, <3>2, <3>3, <3>4
  <2> QED
    BY <2>1, <2>2
<1>12. Counted(v.job, v.current)
  BY <1>8, <1>10, <1>11 DEF Counted
<1>13. \A i \in Jobs \ {j} : v.job[i] = NoJob \/ (v.job[i] = w.job[i] /\ w.job[i].kind # kind)
  <2>1. \A i \in Jobs : w.job[i].kind = kind => i = w.current[kind]
    BY DEF Counted
  <2> QED
    BY <1>1, <1>7, <2>1
<1>14. v.current[kind] = j /\ \A c \in Counters \ {kind} : v.current[c] = w.current[c]
  BY <1>1, <1>5
<1> QED
  BY <1>7, <1>12, <1>13, <1>14 DEF v, new

-----------------------------------------------------------------------------
(* The session.                                                            *)

LEMMA MovedSession ==
  ASSUME NEW s \in Sessions, NEW move \in Moves
  PROVE  /\ Moved(s, move) \in Sessions
         /\ Moved(s, move).game = s.game /\ Moved(s, move).line = Append(s.line, move)
         /\ Moved(s, move).thinking = s.thinking
         /\ Moved(s, move).hint = None /\ ~Moved(s, move).hintPending
<1> DEFINE ended == IF move \in Winning \/ Len(s.line) + 1 = MaxPlies THEN "board" ELSE None
           line == Append(s.line, move)
<1>1. line \in Seq(Moves)
  BY DEF Sessions
<1>2. ended \in {None, "board"}
  OBVIOUS
<1>3. Moved(s, move) = [s EXCEPT !.line = line, !.ended = ended, !.hint = None,
                                 !.hintPending = FALSE, !.offered = FALSE, !.offerUsed = FALSE]
  BY DEF Moved
<1> HIDE DEF ended
<1> QED
  BY <1>1, <1>2, <1>3 DEF Sessions, Endings

LEMMA LatestTurn ==
  ASSUME NEW n \in Nat \ {0}, NEW player \in Colors
  PROVE  LET back == {k \in 0..n - 1 :
                        k = 0 \/ (IF k % 2 = 0 THEN "Blue" ELSE "Red") = player}
         IN  \E m \in back : \A k \in back : k <= m
<1> DEFINE back == {k \in 0..n - 1 : k = 0 \/ (IF k % 2 = 0 THEN "Blue" ELSE "Red") = player}
<1>1. 0 \in back /\ \A k \in back : k \in 0..n - 1
  OBVIOUS
<1>2. CASE n - 1 \in back
  BY <1>1, <1>2
<1>3. CASE n - 1 \notin back
  <2>1. n - 1 # 0 /\ n - 2 \in 0..n - 1
    BY <1>1, <1>3
  <2>2. (IF (n - 1) % 2 = 0 THEN "Blue" ELSE "Red") # player
    BY <1>3, <2>1
  <2>3. (n - 1) % 2 = 0 <=> (n - 2) % 2 # 0
    BY <2>1
  <2>4. n - 2 \in back
    BY <2>1, <2>2, <2>3 DEF Colors
  <2>5. \A k \in back : k <= n - 2
    BY <1>1, <1>3, <2>1
  <2> QED
    BY <2>4, <2>5
<1> QED
  BY <1>2, <1>3

LEMMA TakenBackType ==
  ASSUME NEW s \in Sessions, s.line # <<>>
  PROVE  TakenBack(s) \in Seq(Moves)
<1> DEFINE n == Len(s.line)
           back == {k \in 0..n - 1 : k = 0 \/ ToMove(SubSeq(s.line, 1, k)) = s.player}
           even == {k \in 0..n - 1 : k = 0 \/ (IF k % 2 = 0 THEN "Blue" ELSE "Red") = s.player}
<1>1. s.line \in Seq(Moves) /\ s.player \in Colors /\ n \in Nat \ {0}
  BY DEF Sessions
<1>2. \A k \in 0..n - 1 : ToMove(SubSeq(s.line, 1, k)) = IF k % 2 = 0 THEN "Blue" ELSE "Red"
  <2> SUFFICES ASSUME NEW k \in 0..n - 1 PROVE Len(SubSeq(s.line, 1, k)) = k
    BY DEF ToMove
  <2> QED
    BY <1>1
<1>3. back = even
  BY <1>2
<1>4. \E m \in even : \A k \in even : k <= m
  BY <1>1, LatestTurn
<1>5. PICK m \in 0..n - 1 : TakenBack(s) = SubSeq(s.line, 1, m)
  <2>1. TakenBack(s) = SubSeq(s.line, 1, CHOOSE m \in back : \A k \in back : k <= m)
    BY Zenon DEF TakenBack
  <2>2. (CHOOSE m \in back : \A k \in back : k <= m) \in back
    BY <1>3, <1>4
  <2> QED
    BY <2>1, <2>2
<1> QED
  BY <1>1, <1>5

\* After runBotTurn, whatever came before it, a turn in flight is about the
\* game on the board.
LEMMA ContinueSound ==
  ASSUME NEW s \in Sessions, NEW w, Sound(s, w.job, w.current), w.current["turn"] = 0,
         \E j \in Jobs : w.job[j] = NoJob, Continue(s, w)
  PROVE  BotInv'
<1>1. CASE ~BotToMove(s)
  BY <1>1 DEF Continue, Does, BotInv
<1>2. CASE BotToMove(s)
  <2>1. PICK phase \in {"searching", "pausing"} :
          Does([s EXCEPT !.thinking = TRUE, !.error = FALSE],
               Superseding(w, "turn", s, phase))
    BY <1>2 DEF Continue
  <2> DEFINE t == [s EXCEPT !.thinking = TRUE, !.error = FALSE]
             v == Superseding(w, "turn", s, phase)
             new == NewWork("turn", s, phase)
  <2>2. /\ t \in Sessions /\ t # None
        /\ t.game = s.game /\ t.line = s.line /\ t.thinking
        /\ t.hint = s.hint /\ t.hintPending = s.hintPending
        /\ BotToMove(t)
    BY <1>2, NoneAssumption DEF Sessions, BotToMove, InProgress
  <2>3. session' = t /\ job' = v.job /\ current' = v.current
    BY <2>1 DEF Does
  <2>4. /\ Counted(v.job, v.current)
        /\ v.current["turn"] \in Jobs /\ v.job[v.current["turn"]] = new
        /\ v.current["hint"] = w.current["hint"]
        /\ \A i \in Jobs \ {v.current["turn"]} :
             v.job[i] = NoJob \/ (v.job[i] = w.job[i] /\ w.job[i].kind # "turn")
    BY SupersedingWork DEF Sound, Counters
  <2>5. new.kind = "turn" /\ new.game = s.game /\ new.on = s.line
    BY NewWorkIsWork DEF Kinds
  <2> HIDE DEF t, v, new
  <2>6. AboutThisGame(t, v.job)
    <3>1. s # None
      BY NoneAssumption
    <3>2. \A i \in Jobs : v.job[i].kind = "turn" => v.job[i] = new
      BY <2>4, KindsOfJobs DEF Kinds
    <3>3. \A i \in Jobs : v.job[i].kind = "hint" => v.job[i] = w.job[i]
      BY <2>4, <2>5, KindsOfJobs DEF Kinds
    <3> QED
      BY <2>2, <2>5, <3>1, <3>2, <3>3 DEF AboutThisGame, Sound
  <2>7. Backed(t, v.job, v.current)
    <3>1. v.current["turn"] # 0
      BY <2>4, KindsOfJobs
    <3>2. s.hintPending => v.current["hint"] # 0 /\ w.job[v.current["hint"]].on = s.line
      BY <2>4, NoneAssumption DEF Sound, Backed
    <3>3. s.hintPending => v.job[v.current["hint"]] = w.job[v.current["hint"]]
      BY <2>4, <2>5, <3>2, KindsOfJobs DEF Counted, Counters, Kinds
    <3>4. s.hint # None => s.hint.game = s.game /\ IsPrefix(s.hint.on, s.line)
      BY NoneAssumption DEF Sound, Backed
    <3> QED
      BY <2>2, <3>1, <3>2, <3>3, <3>4 DEF Backed
  <2>8. OnlyTurnsPause(v.job)
    BY <2>4, <2>5, KindsOfJobs DEF OnlyTurnsPause, Sound, Kinds
  <2> QED
    BY <2>2, <2>3, <2>4, <2>6, <2>7, <2>8 DEF BotInv, Sound
<1> QED
  BY <1>1, <1>2

-----------------------------------------------------------------------------
(* Each step.                                                              *)

\* With the work cancelled, any session that shows none of it is sound.
LEMMA CancelledSound ==
  ASSUME NEW s \in Sessions \cup {None}, NEW w, Counted(w.job, w.current),
         OnlyTurnsPause(w.job), s # None => ~s.thinking /\ ~s.hintPending /\ s.hint = None
  PROVE  /\ Sound(s, Cancelled(w).job, Cancelled(w).current)
         /\ Cancelled(w).current["turn"] = 0
<1> DEFINE v == Cancelled(w)
<1>1. /\ Counted(v.job, v.current)
      /\ \A c \in Counters : v.current[c] = 0
      /\ \A j \in Jobs : v.job[j].kind \notin Counters
      /\ \A j \in Jobs : v.job[j] \in {w.job[j], NoJob}
  BY CancelledWork
<1> HIDE DEF v
<1>2. OnlyTurnsPause(v.job)
  BY <1>1, KindsOfJobs DEF OnlyTurnsPause, Kinds
<1>3. Sound(s, v.job, v.current)
  BY <1>1, <1>2 DEF Sound, AboutThisGame, Backed, Counters
<1> QED
  BY <1>1, <1>3 DEF v, Counters

LEMMA WorkCounted ==
  ASSUME BotInv
  PROVE  Counted(Work.job, Work.current) /\ OnlyTurnsPause(Work.job)
  BY WorkParts DEF BotInv, Sound

LEMMA CancelledIsFree ==
  ASSUME BotInv, Room
  PROVE  \E j \in Jobs : Cancelled(Work).job[j] = NoJob
  BY RoomIsFree, WorkParts, WorkCounted, CancelledWork

LEMMA StartSound ==
  ASSUME BotInv, NEW player \in Colors, StartBotGame(player)
  PROVE  BotInv'
<1> DEFINE s == [game |-> NewGame, player |-> player, line |-> <<>>, ended |-> None,
                 thinking |-> FALSE, error |-> FALSE, hint |-> None, hintPending |-> FALSE,
                 offered |-> FALSE, offerUsed |-> FALSE]
<1>1. s \in Sessions /\ ~s.thinking /\ ~s.hintPending /\ s.hint = None
  BY NewGameIsNew DEF Sessions
<1>2. Room /\ Continue(s, Cancelled(Work))
  BY DEF StartBotGame
<1> HIDE DEF s
<1> QED
  BY <1>1, <1>2, WorkCounted, CancelledSound, CancelledIsFree, ContinueSound

LEMMA UndoSound ==
  ASSUME BotInv, UndoBotMove
  PROVE  BotInv'
<1> DEFINE back == TakenBack(session)
           s == [session EXCEPT !.line = back, !.ended = None,
                                !.thinking = FALSE, !.error = FALSE,
                                !.hint = None, !.hintPending = FALSE,
                                !.offered = FALSE, !.offerUsed = FALSE]
<1>1. Room /\ Continue(s, Cancelled(Work)) /\ session \in Sessions /\ session.line # <<>>
  BY DEF UndoBotMove, BotInv, Sound
<1>2. back \in Seq(Moves)
  BY <1>1, TakenBackType
<1> HIDE DEF back
<1>3. s \in Sessions /\ ~s.thinking /\ ~s.hintPending /\ s.hint = None
  BY <1>1, <1>2 DEF Sessions
<1> HIDE DEF s
<1> QED
  BY <1>1, <1>3, WorkCounted, CancelledSound, CancelledIsFree, ContinueSound

\* Played on by its owner, a game whose bot is not thinking stays sound; a hint
\* still being searched is of a position the game has been through.
LEMMA MoveSound ==
  ASSUME BotInv, NEW move \in Moves, BotMovePiece(move)
  PROVE  BotInv'
<1> DEFINE s == Moved(session, move)
<1>1. /\ session \in Sessions /\ session # None /\ ~BotToMove(session) /\ Room
      /\ Continue(s, Work)
  BY DEF BotMovePiece, BotInv, Sound
<1>2. /\ s \in Sessions /\ s.game = session.game /\ s.line = Append(session.line, move)
      /\ s.thinking = session.thinking /\ s.hint = None /\ ~s.hintPending
  BY <1>1, MovedSession
<1> HIDE DEF s
<1>3. \A j \in Jobs : job[j].kind # "turn"
  BY <1>1 DEF BotInv, Sound, AboutThisGame
<1>4. current["turn"] = 0 /\ ~session.thinking
  BY <1>1, <1>3 DEF BotInv, Sound, Counted, Backed, Counters
<1>5. \A j \in Jobs : job[j].kind = "hint" => s.game = job[j].game /\ IsPrefix(job[j].on, s.line)
  <2> SUFFICES ASSUME NEW j \in Jobs, job[j].kind = "hint"
               PROVE  s.game = job[j].game /\ IsPrefix(job[j].on, s.line)
    OBVIOUS
  <2>1. session.game = job[j].game /\ IsPrefix(job[j].on, session.line)
    BY DEF BotInv, Sound, AboutThisGame
  <2>2. job[j].on \in Seq(Moves) /\ session.line \in Seq(Moves)
    BY <1>1, KindsOfJobs DEF BotInv, Sound, Counted, Works, Kinds, Sessions
  <2> QED
    BY <1>2, <2>1, <2>2, PrefixKept
<1>6. Sound(s, job, current)
  BY <1>2, <1>3, <1>4, <1>5, NoneAssumption
     DEF BotInv, Sound, AboutThisGame, Backed
<1> QED
  BY <1>1, <1>2, <1>4, <1>6, WorkParts, RoomIsFree, ContinueSound

LEMMA HintAskedSound ==
  ASSUME BotInv, RequestBotHint
  PROVE  BotInv'
<1>1. session \in Sessions /\ session # None /\ ~BotToMove(session)
  BY DEF RequestBotHint, BotInv, Sound
<1>2. CASE Does([session EXCEPT !.hint = None], Work)
  <2> DEFINE s == [session EXCEPT !.hint = None]
  <2>1. /\ s \in Sessions /\ s.game = session.game /\ s.line = session.line
        /\ s.thinking = session.thinking /\ s.hintPending = session.hintPending
        /\ s.hint = None /\ BotToMove(s) = BotToMove(session)
    BY <1>1 DEF Sessions, BotToMove, InProgress
  <2>2. session' = s /\ job' = job /\ current' = current
    BY <1>2, WorkParts DEF Does
  <2> HIDE DEF s
  <2> QED
    BY <1>1, <2>1, <2>2, NoneAssumption DEF BotInv, Sound, AboutThisGame, Backed
<1>3. CASE Room /\ session.hint = None
           /\ Does([session EXCEPT !.hintPending = TRUE, !.error = FALSE],
                   Superseding(Work, "hint", session, "searching"))
  <2> DEFINE s == [session EXCEPT !.hintPending = TRUE, !.error = FALSE]
             v == Superseding(Work, "hint", session, "searching")
             new == NewWork("hint", session, "searching")
  <2>1. /\ s \in Sessions /\ s.game = session.game /\ s.line = session.line
        /\ s.thinking = session.thinking /\ s.hint = None
    BY <1>1, <1>3 DEF Sessions
  <2>2. session' = s /\ job' = v.job /\ current' = v.current
    BY <1>3 DEF Does
  <2>3. /\ Counted(v.job, v.current)
        /\ v.current["hint"] \in Jobs /\ v.job[v.current["hint"]] = new
        /\ v.current["turn"] = current["turn"]
        /\ \A i \in Jobs \ {v.current["hint"]} :
             v.job[i] = NoJob \/ (v.job[i] = job[i] /\ job[i].kind # "hint")
    BY <1>1, <1>3, RoomIsFree, WorkCounted, WorkParts, SupersedingWork DEF Counters
  <2>4. new.kind = "hint" /\ new.game = session.game /\ new.on = session.line
        /\ new.phase = "searching"
    BY <1>1, NewWorkIsWork DEF Kinds, NewWork
  <2> HIDE DEF s, v, new
  <2>5. \A i \in Jobs : job[i].kind # "turn"
    BY <1>1 DEF BotInv, Sound, AboutThisGame
  <2>6. session.line \in Seq(Moves)
    BY <1>1 DEF Sessions
  <2>7. AboutThisGame(s, v.job)
    <3>1. \A i \in Jobs : v.job[i].kind # "turn"
      BY <2>3, <2>4, <2>5, KindsOfJobs DEF Kinds
    <3>2. \A i \in Jobs : v.job[i].kind = "hint" => v.job[i] = new
      BY <2>3, KindsOfJobs DEF Kinds
    <3> QED
      BY <1>1, <2>1, <2>4, <2>6, <3>1, <3>2, PrefixOfItself, NoneAssumption DEF AboutThisGame
  <2>8. Backed(s, v.job, v.current)
    BY <1>1, <2>1, <2>3, <2>4, KindsOfJobs, NoneAssumption DEF Backed, BotInv, Sound
  <2>9. OnlyTurnsPause(v.job)
    BY <2>3, <2>4, KindsOfJobs DEF OnlyTurnsPause, BotInv, Sound, Kinds
  <2> QED
    BY <2>1, <2>2, <2>3, <2>7, <2>8, <2>9 DEF BotInv, Sound
<1> QED
  BY <1>2, <1>3 DEF RequestBotHint

LEMMA DrawOfferedSound ==
  ASSUME BotInv, OfferBotDraw
  PROVE  BotInv'
<1> DEFINE s == [session EXCEPT !.offered = TRUE, !.offerUsed = TRUE]
           new == NewWork("draw", session, "searching")
           j == CHOOSE f \in FreeJobs(Work) : TRUE
<1>1. session \in Sessions /\ session # None /\ Room
      /\ Does(s, Begun(Work, "draw", session, "searching"))
  BY DEF OfferBotDraw, BotInv, Sound
<1>2. j \in Jobs /\ job[j] = NoJob
  BY <1>1, RoomIsFree, WorkParts DEF FreeJobs
<1> HIDE DEF j
<1>3. /\ session' = s
      /\ job' = [job EXCEPT ![j] = new]
      /\ current' = [c \in Counters |-> IF c = "draw" THEN j ELSE current[c]]
  BY <1>1, WorkParts DEF Does, Begun, NewWork, j
<1>4. new \in Works /\ new.kind = "draw" /\ new.phase = "searching"
  BY <1>1, NewWorkIsWork DEF Kinds, NewWork
<1>5. /\ s \in Sessions /\ s.game = session.game /\ s.line = session.line
      /\ s.thinking = session.thinking /\ s.hintPending = session.hintPending
      /\ s.hint = session.hint /\ BotToMove(s) = BotToMove(session)
  BY <1>1 DEF Sessions, BotToMove, InProgress
<1> HIDE DEF s, new
<1>6. /\ job' \in [Jobs -> Works \cup {NoJob}] /\ current' = current
      /\ job'[j] = new /\ \A i \in Jobs \ {j} : job'[i] = job[i]
  BY <1>2, <1>3, <1>4 DEF BotInv, Sound, Counted, Counters
<1>7. Counted(job', current')
  <2>1. \A i \in Jobs : job'[i].kind \in Counters => i # j
    BY <1>4, <1>6 DEF Counters
  <2>2. \A c \in Counters : current[c] # j
    BY <1>2, KindsOfJobs DEF BotInv, Sound, Counted, Counters
  <2> QED
    BY <1>6, <2>1, <2>2 DEF BotInv, Sound, Counted
<1>8. AboutThisGame(s, job')
  BY <1>1, <1>4, <1>5, <1>6, NoneAssumption DEF AboutThisGame, BotInv, Sound
<1>9. Backed(s, job', current')
  BY <1>1, <1>2, <1>5, <1>6, KindsOfJobs DEF Backed, BotInv, Sound, Counted, Counters
<1>10. OnlyTurnsPause(job')
  BY <1>4, <1>6 DEF OnlyTurnsPause, BotInv, Sound
<1> QED
  BY <1>3, <1>5, <1>7, <1>8, <1>9, <1>10 DEF BotInv, Sound

LEMMA FinishedSession ==
  ASSUME NEW s \in Sessions, NEW how \in Endings
  PROVE  /\ Finished(s, how) \in Sessions
         /\ ~Finished(s, how).thinking /\ ~Finished(s, how).hintPending
         /\ Finished(s, how).hint = None
  BY DEF Finished, Sessions

LEMMA EndSound ==
  ASSUME BotInv, ResignBotGame \/ EndBotSession
  PROVE  BotInv'
<1>1. CASE ResignBotGame
  <2>1. session \in Sessions /\ Does(Finished(session, "resignation"), Cancelled(Work))
    BY <1>1 DEF ResignBotGame, BotInv, Sound
  <2>2. "resignation" \in Endings
    BY DEF Endings
  <2> QED
    BY <2>1, <2>2, FinishedSession, WorkCounted, CancelledSound DEF Does, BotInv
<1>2. CASE EndBotSession
  <2>1. Does(None, Cancelled(Work))
    BY <1>2 DEF EndBotSession
  <2> QED
    BY <2>1, WorkCounted, CancelledSound DEF Does, BotInv
<1> QED
  BY <1>1, <1>2

-----------------------------------------------------------------------------
(* The promises.                                                           *)

LEMMA OverWork ==
  ASSUME BotInv, NEW j \in Jobs
  PROVE  /\ Counted(Over(j).job, Over(j).current)
         /\ OnlyTurnsPause(Over(j).job)
         /\ Over(j).job[j] = NoJob
         /\ \A i \in Jobs \ {j} : Over(j).job[i] = job[i]
         /\ \A c \in Counters : Over(j).current[c] = IF current[c] = j THEN 0 ELSE current[c]
<1> DEFINE v == Over(j)
<1>1. /\ Counted(v.job, v.current)
      /\ v.job = [i \in Jobs |-> IF i \in {j} THEN NoJob ELSE job[i]]
      /\ v.current = [c \in Counters |-> IF current[c] \in {j} THEN 0 ELSE current[c]]
  BY WorkParts, WorkCounted, DismissedWork DEF Over
<1> HIDE DEF v
<1>2. OnlyTurnsPause(v.job)
  BY <1>1, KindsOfJobs DEF OnlyTurnsPause, BotInv, Sound, Kinds
<1> QED
  BY <1>1, <1>2 DEF v

\* Forgotten, a piece of work takes its own light with it and no other.
LEMMA ForgottenSound ==
  ASSUME BotInv, NEW j \in Jobs, NEW s \in Sessions \cup {None}, (s = None <=> session = None),
         s # None => /\ s.game = session.game /\ s.line = session.line
                     /\ BotToMove(s) = BotToMove(session)
                     /\ s.thinking = (session.thinking /\ job[j].kind # "turn")
                     /\ s.hintPending = (session.hintPending /\ job[j].kind # "hint")
                     /\ s.hint # None => s.hint.game = s.game /\ IsPrefix(s.hint.on, s.line)
  PROVE  Sound(s, Over(j).job, Over(j).current)
<1> DEFINE v == Over(j)
<1>1. /\ Counted(v.job, v.current) /\ OnlyTurnsPause(v.job)
      /\ v.job[j] = NoJob /\ \A i \in Jobs \ {j} : v.job[i] = job[i]
      /\ \A c \in Counters : v.current[c] = IF current[c] = j THEN 0 ELSE current[c]
  BY OverWork
<1> HIDE DEF v
<1>2. \A i \in Jobs : v.job[i].kind \in Kinds => i # j /\ v.job[i] = job[i]
  BY <1>1, KindsOfJobs
<1>3. \A c \in Counters : current[c] = j => job[j].kind = c
  BY KindsOfJobs DEF BotInv, Sound, Counted
<1>4. AboutThisGame(s, v.job)
  <2> SUFFICES ASSUME NEW i \in Jobs
               PROVE  /\ v.job[i].kind = "turn" =>
                           s # None /\ s.game = v.job[i].game /\ s.line = v.job[i].on
                           /\ BotToMove(s) /\ s.thinking
                      /\ v.job[i].kind = "hint" =>
                           s # None /\ s.game = v.job[i].game /\ IsPrefix(v.job[i].on, s.line)
    BY DEF AboutThisGame
  <2>1. CASE v.job[i].kind = "turn"
    <3>1. i # j /\ job[i].kind = "turn" /\ v.job[i] = job[i]
      BY <1>2, <2>1 DEF Kinds
    <3>2. job[j].kind # "turn"
      BY <3>1 DEF BotInv, Sound, Counted, Counters
    <3> QED
      BY <2>1, <3>1, <3>2 DEF BotInv, Sound, AboutThisGame
  <2>2. CASE v.job[i].kind = "hint"
    <3>1. job[i].kind = "hint" /\ v.job[i] = job[i]
      BY <1>2, <2>2 DEF Kinds
    <3> QED
      BY <2>2, <3>1 DEF BotInv, Sound, AboutThisGame
  <2> QED
    BY <2>1, <2>2
<1>5. Backed(s, v.job, v.current)
  <2> SUFFICES ASSUME s # None
               PROVE  /\ s.thinking => v.current["turn"] # 0
                      /\ s.hintPending => v.current["hint"] # 0
                                          /\ v.job[v.current["hint"]].on = s.line
    BY DEF Backed
  <2>1. ASSUME s.thinking PROVE v.current["turn"] # 0
    BY <1>1, <1>3, <2>1 DEF BotInv, Sound, Backed, Counters
  <2>2. ASSUME s.hintPending
        PROVE  v.current["hint"] # 0 /\ v.job[v.current["hint"]].on = s.line
    <3>1. current["hint"] # 0 /\ current["hint"] # j /\ job[current["hint"]].on = session.line
      BY <1>3, <2>2 DEF BotInv, Sound, Backed, Counters
    <3>2. v.current["hint"] = current["hint"] /\ current["hint"] \in Jobs
      BY <1>1, <3>1 DEF BotInv, Sound, Counted, Counters
    <3> QED
      BY <1>1, <3>1, <3>2
  <2> QED
    BY <2>1, <2>2
<1> QED
  BY <1>1, <1>4, <1>5 DEF Sound, v

\* A searched turn is still the same turn.
LEMMA TurnSearchedSound ==
  ASSUME BotInv, NEW j \in Jobs, TurnSearched(j)
  PROVE  BotInv'
<1> DEFINE new == [job[j] EXCEPT !.phase = "pausing"]
<1>1. job[j] \in Works /\ job[j].kind = "turn"
  BY KindsOfJobs DEF TurnSearched, BotInv, Sound, Counted, Kinds
<1>2. /\ new \in Works /\ new.kind = "turn"
      /\ new.game = job[j].game /\ new.on = job[j].on
  BY <1>1 DEF Works, Phases
<1>3. session' = session /\ current' = current /\ job' = [job EXCEPT ![j] = new]
  BY DEF TurnSearched
<1> HIDE DEF new
<1>4. /\ job' \in [Jobs -> Works \cup {NoJob}]
      /\ job'[j] = new /\ \A i \in Jobs \ {j} : job'[i] = job[i]
  BY <1>2, <1>3 DEF BotInv, Sound, Counted
<1>5. \A i \in Jobs : /\ job'[i].kind = job[i].kind
                      /\ job[i].kind \in Counters =>
                           job'[i].game = job[i].game /\ job'[i].on = job[i].on
  BY <1>1, <1>2, <1>4
<1>6. Counted(job', current')
  BY <1>3, <1>4, <1>5, KindsOfJobs DEF BotInv, Sound, Counted
<1>7. AboutThisGame(session, job')
  BY <1>5 DEF BotInv, Sound, AboutThisGame, Counters
<1>8. Backed(session, job', current')
  BY <1>3, <1>5, KindsOfJobs DEF BotInv, Sound, Backed, Counted, Counters
<1>9. OnlyTurnsPause(job')
  BY <1>2, <1>4 DEF BotInv, Sound, OnlyTurnsPause
<1> QED
  BY <1>3, <1>6, <1>7, <1>8, <1>9 DEF BotInv, Sound

\* Nor is a turn or a hint that was superseded any other than it was.
LEMMA TakenOverSound ==
  ASSUME BotInv, NEW j \in Jobs, TakenOver(j)
  PROVE  BotInv'
<1> DEFINE new == [job[j] EXCEPT !.phase = "overtaken"]
<1>1. job[j] \in Works /\ job[j].kind \in Counters
  BY KindsOfJobs DEF TakenOver, BotInv, Sound, Counted
<1>2. /\ new \in Works /\ new.kind = job[j].kind /\ new.phase = "overtaken"
      /\ new.game = job[j].game /\ new.on = job[j].on
  BY <1>1 DEF Works, Phases
<1>3. session' = session /\ current' = current /\ job' = [job EXCEPT ![j] = new]
  BY DEF TakenOver
<1> HIDE DEF new
<1>4. /\ job' \in [Jobs -> Works \cup {NoJob}]
      /\ job'[j] = new /\ \A i \in Jobs \ {j} : job'[i] = job[i]
  BY <1>2, <1>3 DEF BotInv, Sound, Counted
<1>5. \A i \in Jobs : /\ job'[i].kind = job[i].kind
                      /\ job[i].kind \in Counters =>
                           job'[i].game = job[i].game /\ job'[i].on = job[i].on
  BY <1>1, <1>2, <1>4
<1>6. Counted(job', current')
  BY <1>3, <1>4, <1>5, KindsOfJobs DEF BotInv, Sound, Counted
<1>7. AboutThisGame(session, job')
  BY <1>5 DEF BotInv, Sound, AboutThisGame, Counters
<1>8. Backed(session, job', current')
  BY <1>3, <1>5, KindsOfJobs DEF BotInv, Sound, Backed, Counted, Counters
<1>9. OnlyTurnsPause(job')
  BY <1>2, <1>4 DEF BotInv, Sound, OnlyTurnsPause
<1> QED
  BY <1>3, <1>6, <1>7, <1>8, <1>9 DEF BotInv, Sound

LEMMA HintAnsweredSound ==
  ASSUME BotInv, NEW j \in Jobs, HintAnswered(j)
  PROVE  BotInv'
<1>1. /\ job[j] \in Works /\ job[j].kind = "hint"
      /\ session \in Sessions /\ session # None /\ session.game = job[j].game
      /\ IsPrefix(job[j].on, session.line) /\ current["hint"] = j
  BY KindsOfJobs DEF HintAnswered, BotInv, Sound, Counted, AboutThisGame, Kinds, Counters
<1> DEFINE found == [game |-> job[j].game, on |-> job[j].on]
           shown == [session EXCEPT !.hintPending = FALSE, !.hint = found]
           failed == [session EXCEPT !.hintPending = FALSE, !.error = TRUE]
<1>2. /\ shown \in Sessions /\ shown.game = session.game /\ shown.line = session.line
      /\ shown.thinking = session.thinking /\ shown.hintPending = FALSE
      /\ shown.hint = found /\ BotToMove(shown) = BotToMove(session)
      /\ found.game = session.game /\ IsPrefix(found.on, session.line)
  <2>1. found \in Hints
    BY <1>1 DEF Hints, Works
  <2>2. found.game = session.game /\ found.on = job[j].on
    BY <1>1
  <2> HIDE DEF found
  <2> QED
    BY <1>1, <2>1, <2>2 DEF Sessions, BotToMove, InProgress
<1>3. /\ failed \in Sessions /\ failed.game = session.game /\ failed.line = session.line
      /\ failed.thinking = session.thinking /\ failed.hintPending = FALSE
      /\ failed.hint = session.hint /\ BotToMove(failed) = BotToMove(session)
  BY <1>1 DEF Sessions, BotToMove, InProgress
<1>4. Does(shown, Over(j)) \/ Does(failed, Over(j))
  BY <1>1 DEF HintAnswered, StillAsked
<1>5. session.thinking \in BOOLEAN
  BY <1>1 DEF Sessions
<1> HIDE DEF found, shown, failed
<1>6. Sound(shown, Over(j).job, Over(j).current)
  BY <1>1, <1>2, <1>5, NoneAssumption, ForgottenSound
<1>7. Sound(failed, Over(j).job, Over(j).current)
  <2>1. session.hint # None =>
          session.hint.game = session.game /\ IsPrefix(session.hint.on, session.line)
    BY <1>1 DEF BotInv, Sound, Backed
  <2> QED
    BY <1>1, <1>3, <1>5, <2>1, NoneAssumption, ForgottenSound
<1> QED
  BY <1>4, <1>6, <1>7 DEF Does, BotInv

LEMMA DrawAnsweredSound ==
  ASSUME BotInv, NEW j \in Jobs, DrawAnswered(j)
  PROVE  BotInv'
<1>1. job[j].kind = "draw" /\ session \in Sessions \cup {None}
  BY DEF DrawAnswered, BotInv, Sound
<1>2. CASE Does(session, Over(j))
  <2>1. Sound(session, Over(j).job, Over(j).current)
    <3>1. session # None => session.thinking \in BOOLEAN /\ session.hintPending \in BOOLEAN
      BY <1>1 DEF Sessions
    <3>2. session # None /\ session.hint # None =>
            session.hint.game = session.game /\ IsPrefix(session.hint.on, session.line)
      BY DEF BotInv, Sound, Backed
    <3> QED
      BY <1>1, <3>1, <3>2, ForgottenSound
  <2> QED
    BY <1>2, <2>1 DEF Does, BotInv
<1>3. CASE SameGameOn(j) /\ Does(Finished(session, "draw_agreement"), Cancelled(Over(j)))
  <2>1. session \in Sessions /\ "draw_agreement" \in Endings
    BY <1>1, <1>3 DEF SameGameOn, Endings
  <2>2. Sound(Finished(session, "draw_agreement"),
              Cancelled(Over(j)).job, Cancelled(Over(j)).current)
    BY <2>1, FinishedSession, OverWork, CancelledSound
  <2> QED
    BY <1>3, <2>2 DEF Does, BotInv
<1>4. CASE SameGameOn(j) /\ Does([session EXCEPT !.offered = FALSE], Over(j))
  <2> DEFINE s == [session EXCEPT !.offered = FALSE]
  <2>1. /\ session \in Sessions /\ session # None
    BY <1>1, <1>4 DEF SameGameOn
  <2>2. /\ s \in Sessions /\ s.game = session.game /\ s.line = session.line
        /\ s.thinking = session.thinking /\ s.hintPending = session.hintPending
        /\ s.hint = session.hint /\ BotToMove(s) = BotToMove(session)
        /\ s.thinking \in BOOLEAN /\ s.hintPending \in BOOLEAN
    BY <2>1 DEF Sessions, BotToMove, InProgress
  <2>3. session' = s /\ job' = Over(j).job /\ current' = Over(j).current
    BY <1>4 DEF Does
  <2> HIDE DEF s
  <2>4. session.hint # None =>
          session.hint.game = session.game /\ IsPrefix(session.hint.on, session.line)
    BY <2>1 DEF BotInv, Sound, Backed
  <2>5. Sound(s, Over(j).job, Over(j).current)
    BY <1>1, <2>1, <2>2, <2>4, NoneAssumption, ForgottenSound
  <2> QED
    BY <2>3, <2>5 DEF BotInv
<1> QED
  BY <1>2, <1>3, <1>4 DEF DrawAnswered

\* The bot plays where it was asked to, and leaves no turn behind.
LEMMA BotPlaysSound ==
  ASSUME BotInv, NEW j \in Jobs, BotPlays(j)
  PROVE  BotInv'
<1>1. job[j].kind = "turn"
  BY KindsOfJobs DEF BotPlays, InFlight, BotInv, Sound, Counted, OnlyTurnsPause, Works, Kinds
<1>2. /\ session \in Sessions /\ session # None /\ current["turn"] = j
      /\ BotToMove(session)
  BY <1>1 DEF BotInv, Sound, Counted, AboutThisGame, Counters
<1>3. PICK move \in Moves : Does(Moved([session EXCEPT !.thinking = FALSE], move), Over(j))
  BY <1>2 DEF BotPlays, StillAsked
<1> DEFINE r == [session EXCEPT !.thinking = FALSE]
           s == Moved(r, move)
           v == Over(j)
<1>4. r \in Sessions /\ r.game = session.game /\ r.line = session.line /\ ~r.thinking
  BY <1>2 DEF Sessions
<1>5. session' = s /\ job' = v.job /\ current' = v.current
  BY <1>3 DEF Does
<1> HIDE DEF r
<1>6. /\ s \in Sessions /\ s.game = session.game /\ s.line = Append(session.line, move)
      /\ ~s.thinking /\ s.hint = None /\ ~s.hintPending
  BY <1>4, MovedSession
<1>7. /\ Counted(v.job, v.current) /\ OnlyTurnsPause(v.job)
      /\ v.job[j] = NoJob /\ \A i \in Jobs \ {j} : v.job[i] = job[i]
  BY OverWork
<1> HIDE DEF s, v
<1>8. \A i \in Jobs : v.job[i].kind \in Kinds => i # j /\ v.job[i] = job[i]
  BY <1>7, KindsOfJobs
<1>9. \A i \in Jobs : v.job[i].kind # "turn"
  BY <1>2, <1>8 DEF Kinds, BotInv, Sound, Counted, Counters
<1>10. ASSUME NEW i \in Jobs, v.job[i].kind = "hint"
       PROVE  s.game = v.job[i].game /\ IsPrefix(v.job[i].on, s.line)
  <2>1. v.job[i] = job[i] /\ job[i].kind = "hint" /\ job[i] \in Works
    BY <1>8, <1>10, KindsOfJobs DEF Kinds, BotInv, Sound, Counted
  <2>2. session.game = job[i].game /\ IsPrefix(job[i].on, session.line)
    BY <2>1 DEF BotInv, Sound, AboutThisGame
  <2>3. job[i].on \in Seq(Moves) /\ session.line \in Seq(Moves)
    BY <1>2, <2>1 DEF Works, Sessions
  <2> QED
    BY <1>6, <2>1, <2>2, <2>3, PrefixKept
<1>11. AboutThisGame(s, v.job) /\ Backed(s, v.job, v.current)
  BY <1>6, <1>9, <1>10, NoneAssumption DEF AboutThisGame, Backed
<1> QED
  BY <1>5, <1>6, <1>7, <1>11 DEF BotInv, Sound

-----------------------------------------------------------------------------
(* The theorems.                                                           *)

LEMMA InitSound == BotInit => BotInv
<1> SUFFICES ASSUME BotInit PROVE BotInv
  OBVIOUS
<1>1. /\ session = None /\ job = [j \in Jobs |-> NoJob]
      /\ current = [c \in Counters |-> 0]
  BY DEF BotInit
<1>2. \A j \in Jobs : job[j].kind \notin Kinds
  BY <1>1, KindsOfJobs
<1>3. Counted(job, current)
  BY <1>1, <1>2, KindsOfJobs DEF Counted
<1> QED
  BY <1>1, <1>2, <1>3 DEF BotInv, Sound, AboutThisGame, Backed, OnlyTurnsPause, Kinds

LEMMA StepKeeps == BotInv /\ [BotNext]_botVars => BotInv'
<1> SUFFICES ASSUME BotInv, [BotNext]_botVars PROVE BotInv'
  OBVIOUS
<1>1. CASE \E player \in Colors : StartBotGame(player)
  BY <1>1, StartSound
<1>2. CASE \E move \in Moves : BotMovePiece(move)
  BY <1>2, MoveSound
<1>3. CASE UndoBotMove
  BY <1>3, UndoSound
<1>4. CASE RequestBotHint
  BY <1>4, HintAskedSound
<1>5. CASE OfferBotDraw
  BY <1>5, DrawOfferedSound
<1>6. CASE ResignBotGame \/ EndBotSession
  BY <1>6, EndSound
<1>7. CASE Answered
  BY <1>7, TurnSearchedSound, HintAnsweredSound, DrawAnsweredSound DEF Answered
<1>10. CASE Overtaken
  BY <1>10, TakenOverSound DEF Overtaken
<1>8. CASE \E j \in Jobs : BotPlays(j)
  BY <1>8, BotPlaysSound
<1>9. CASE UNCHANGED botVars
  BY <1>9 DEF botVars, BotInv
<1> QED
  BY <1>1, <1>2, <1>3, <1>4, <1>5, <1>6, <1>7, <1>8, <1>9, <1>10 DEF BotNext

\* The bot's turn in flight is about the position on the board, for any moves
\* and any work in flight (botSession.ts:98-105, 333).
THEOREM TurnStaysAtThisPosition == BotSpec => []TurnIsOfThisPosition
<1>1. BotInv => TurnIsOfThisPosition
  BY DEF BotInv, Sound, AboutThisGame, TurnIsOfThisPosition, InFlight
<1> QED
  BY <1>1, InitSound, StepKeeps, PTL DEF BotSpec

\* For any moves and any work in flight: what the screen shows as going on is in
\* flight, unless another caller has superseded it (botSession.ts:328-329, 580-581).
THEOREM SpinnersStayBacked == BotSpec => []SpinnersAreBacked
<1>1. BotInv => SpinnersAreBacked
  <2> SUFFICES ASSUME BotInv PROVE SpinnersAreBacked
    OBVIOUS
  <2>1. \A c \in Counters : current[c] # 0 => Working(c) \/ WasOvertaken(c)
    BY KindsOfJobs
       DEF BotInv, Sound, Counted, Working, WasOvertaken, AtIt, InFlight, Works, Phases
  <2> QED
    BY <2>1 DEF BotInv, Sound, Backed, SpinnersAreBacked, Counters
<1> QED
  BY <1>1, InitSound, StepKeeps, PTL DEF BotSpec

\* A hint that shows is of this game and of a position on its line.
THEOREM HintStaysOnTheLinePlayed == BotSpec => []HintIsOfTheLinePlayed
<1>1. BotInv => HintIsOfTheLinePlayed
  BY DEF BotInv, Sound, Backed, HintIsOfTheLinePlayed
<1> QED
  BY <1>1, InitSound, StepKeeps, PTL DEF BotSpec

Agreed == session # None /\ session' # None /\ session.game = session'.game
          /\ session.ended = None /\ session'.ended = "draw_agreement"

LEMMA ContinuedEnding ==
  ASSUME NEW s \in Sessions, NEW w, Continue(s, w)
  PROVE  session'.ended = s.ended
  BY DEF Continue, Does, Sessions

LEMMA MovedEnding ==
  ASSUME NEW s \in Sessions, NEW move \in Moves
  PROVE  Moved(s, move).ended \in {None, "board"}
<1> DEFINE ended == IF move \in Winning \/ Len(s.line) + 1 = MaxPlies THEN "board" ELSE None
           line == Append(s.line, move)
<1>1. ended \in {None, "board"}
  OBVIOUS
<1>2. Moved(s, move) = [s EXCEPT !.line = line, !.ended = ended, !.hint = None,
                                 !.hintPending = FALSE, !.offered = FALSE, !.offerUsed = FALSE]
  BY DEF Moved
<1> HIDE DEF ended, line
<1> QED
  BY <1>1, <1>2 DEF Sessions

\* Only an answer to an offer agrees a draw, and the offer was made in the game.
LEMMA AnswerAgrees ==
  ASSUME BotInv, [BotNext]_botVars, Agreed
  PROVE  \E j \in InFlight \ InFlight' : job[j].kind = "draw" /\ job[j].game = session.game
<1>1. /\ session \in Sessions /\ "draw_agreement" # None /\ "draw_agreement" # "board"
      /\ session.ended = None /\ session'.ended = "draw_agreement" /\ session' # None
      /\ session'.game = session.game
  BY NoneAssumption DEF Agreed, BotInv, Sound, Endings
<1>2. ASSUME NEW player \in Colors, StartBotGame(player) PROVE FALSE
  <2> DEFINE s == [game |-> NewGame, player |-> player, line |-> <<>>, ended |-> None,
                   thinking |-> FALSE, error |-> FALSE, hint |-> None, hintPending |-> FALSE,
                   offered |-> FALSE, offerUsed |-> FALSE]
  <2>1. s \in Sessions /\ s.ended = None
    BY NewGameIsNew DEF Sessions
  <2>2. Continue(s, Cancelled(Work))
    BY <1>2 DEF StartBotGame
  <2> HIDE DEF s
  <2> QED
    BY <1>1, <2>1, <2>2, ContinuedEnding
<1>3. ASSUME NEW move \in Moves, BotMovePiece(move) PROVE FALSE
  <2>1. Continue(Moved(session, move), Work)
    BY <1>3 DEF BotMovePiece
  <2> QED
    BY <1>1, <2>1, MovedSession, MovedEnding, ContinuedEnding
<1>4. ASSUME UndoBotMove PROVE FALSE
  <2> DEFINE back == TakenBack(session)
             s == [session EXCEPT !.line = back, !.ended = None,
                                  !.thinking = FALSE, !.error = FALSE,
                                  !.hint = None, !.hintPending = FALSE,
                                  !.offered = FALSE, !.offerUsed = FALSE]
  <2>1. Continue(s, Cancelled(Work)) /\ back \in Seq(Moves)
    BY <1>1, <1>4, TakenBackType DEF UndoBotMove
  <2> HIDE DEF back
  <2>2. s \in Sessions /\ s.ended = None
    BY <1>1, <2>1 DEF Sessions
  <2> HIDE DEF s
  <2> QED
    BY <1>1, <2>1, <2>2, ContinuedEnding
<1>5. ASSUME RequestBotHint \/ OfferBotDraw PROVE FALSE
  BY <1>1, <1>5 DEF RequestBotHint, OfferBotDraw, Does, Sessions
<1>6. ASSUME ResignBotGame \/ EndBotSession PROVE FALSE
  BY <1>1, <1>6 DEF ResignBotGame, EndBotSession, Finished, Does, Sessions
<1>7. ASSUME NEW j \in Jobs, TurnSearched(j) \/ HintAnswered(j) \/ TakenOver(j) PROVE FALSE
  BY <1>1, <1>7 DEF TurnSearched, HintAnswered, TakenOver, Does, Sessions
<1>8. ASSUME NEW j \in Jobs, BotPlays(j) PROVE FALSE
  <2> DEFINE r == [session EXCEPT !.thinking = FALSE]
  <2>1. r \in Sessions
    BY <1>1 DEF Sessions
  <2>2. session' = session \/ \E move \in Moves : session' = Moved(r, move)
    BY <1>8 DEF BotPlays, Does
  <2> HIDE DEF r
  <2> QED
    BY <1>1, <2>1, <2>2, MovedEnding
<1>9. ASSUME NEW j \in Jobs, DrawAnswered(j) PROVE job[j].kind = "draw"
        /\ j \in InFlight \ InFlight' /\ job[j].game = session.game
  <2>1. job[j].kind = "draw" /\ SameGameOn(j)
    BY <1>1, <1>9 DEF DrawAnswered, Does
  <2>2. job'[j] = NoJob
    BY <1>9, OverWork, CancelledWork DEF DrawAnswered, Does
  <2> QED
    BY <2>1, <2>2, KindsOfJobs DEF SameGameOn, InFlight, Kinds
<1>10. ASSUME UNCHANGED botVars PROVE FALSE
  BY <1>1, <1>10 DEF botVars
<1> QED
  BY <1>2, <1>3, <1>4, <1>5, <1>6, <1>7, <1>8, <1>9, <1>10 DEF BotNext, Answered, Overtaken

\* A draw is only ever agreed in the game it was offered in (botSession.ts:620).
THEOREM DrawsWereOffered == BotSpec => DrawWasOfferedInThisGame
<1>1. BotInv /\ [BotNext]_botVars =>
        [session # None /\ session' # None /\ session.game = session'.game
           /\ session.ended = None /\ session'.ended = "draw_agreement" =>
           \E j \in InFlight \ InFlight' :
             job[j].kind = "draw" /\ job[j].game = session.game]_botVars
  BY AnswerAgrees DEF Agreed
<1> QED
  BY <1>1, InitSound, StepKeeps, PTL DEF BotSpec, DrawWasOfferedInThisGame
=============================================================================
