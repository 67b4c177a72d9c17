--------------------------- MODULE EngineLaneProofs ---------------------------
(***************************************************************************)
(* Theorems about EngineLane, for any questions, walks, lanes and workers: *)
(* nobody waits on a worker that has gone, an answer comes of a search in  *)
(* its own game, an unmixed table is of one line, and the lanes take the   *)
(* steps that AnswerService allows and no other.                           *)
(*                                                                         *)
(* They rest on two inductive invariants.  LaneInv follows a question      *)
(* through the places it may be in, which are the queue, the worker's      *)
(* mailbox, the host, the walk and the answers on their way, and ties each *)
(* to the worker the question's lane has now.  EngineInv follows the turns *)
(* that walks take with an engine, and ties what the session believes to   *)
(* what the engine holds.                                                  *)
(***************************************************************************)
EXTENDS EngineLane, SequenceTheorems, WellFoundedInduction, TLAPS

\* Not sent to a worker yet.
Fresh(r) == stage[r] \in {"idle", "queued"}

\* The worker a question was posted to is the one its lane has now.
OnItsWorker(r) == on[r] = worker[LaneOf[r]] /\ on[r] # 0

Mailbox(w) == Range(toWorker[w])
Answers(w) == Range(toClient[w])

\* Nothing is in the sequence twice.
Once(s) == \A i, j \in 1..Len(s) : s[i] = s[j] => i = j

\* Two lanes never share a worker, and a pending question is with the worker of
\* its lane.
WorkersInv ==
  /\ \A l, k \in Lanes : worker[l] = worker[k] /\ worker[l] # 0 => l = k
  /\ \A r \in Requests : stage[r] = "sent" => OnItsWorker(r)

\* A lane's queue holds its own questions, once each, and at most one question
\* of those who queue is pending.
QueueInv ==
  /\ \A l \in Lanes :
       Once(queue[l]) /\ \A r \in Range(queue[l]) : stage[r] = "queued" /\ LaneOf[r] = l
  /\ \A q, r \in Exclusive :
       stage[q] = "sent" /\ stage[r] = "sent" /\ LaneOf[q] = LaneOf[r] => q = r
  /\ \A r \in aborted : stage[r] # "idle"

\* What lies in a mailbox is pending, lies there once, and nothing has been done
\* about it.
MailInv ==
  \A w \in Workers :
    /\ Once(toWorker[w])
    /\ \A r \in Mailbox(w) : stage[r] = "sent" /\ on[r] = w /\ walk[r].state = "none"
    /\ \A r \in Mailbox(w) : \A v \in Workers : active[v] # r /\ \A m \in Answers(v) : m.r # r

\* What a host works on was sent to it, and its worker still has a lane.
HostInv ==
  \A w \in Workers : active[w] # None =>
    ~Fresh(active[w]) /\ OnItsWorker(active[w]) /\ on[active[w]] = w

\* Nobody queued for is cancelled by another question.
AnswersInv ==
  \A w \in Workers : \A m \in Answers(w) :
    /\ ~Fresh(m.r)
    /\ m.how = "cancelled" /\ stage[m.r] = "sent" => ~Service!Orderly(LaneOf[m.r])

\* A walk is of a question that was sent.
WalkInv ==
  \A r \in Requests : walk[r].state # "none" => ~Fresh(r) /\ on[r] # 0

LaneInv ==
  /\ LaneTypeOK
  /\ WorkersInv /\ QueueInv /\ MailInv /\ HostInv /\ AnswersInv /\ WalkInv

\* A walk that has called for its engine.
InHand(r) == walk[r].state \in {"asking", "standing"}
Stands(r) == walk[r].state = "standing"

\* Whose turn the session last stood the engine for, if anybody's: on a phone
\* the first in turn, in a browser the last, since StandOn sends them round.
Holder(n) == IF Locked THEN Head(turns[n]) ELSE turns[n][Len(turns[n])]

\* Turns are taken once each, by walks under way on the engine.
TurnsTaken(n) ==
  Once(turns[n]) /\ \A r \in Range(turns[n]) : InHand(r) /\ EngineOf(on[r]) = n

\* On a phone nobody stands behind the first.
LockKept(n) ==
  platform = "phone" => \A i \in 2..Len(turns[n]) : ~Stands(turns[n][i])

\* The session knows where the last search that stands does so.
WarmKnown(n) ==
  turns[n] # <<>> /\ Stands(Holder(n)) =>
    /\ engine[n].warmHistory = SearchOf(Holder(n)).history
    /\ engine[n].warmSearch = LineOf(SearchOf(Holder(n)))

\* In a browser the question that will be answered calls last: whoever is behind
\* it stands already, and when it stands it is last and so does everybody.
ActiveIsLast(n) ==
  platform = "browser" /\ n \in Workers =>
    \A i \in 1..Len(turns[n]) : turns[n][i] = active[n] =>
      /\ \A j \in i + 1..Len(turns[n]) : Stands(turns[n][j])
      /\ Stands(active[n]) => i = Len(turns[n]) /\ \A j \in 1..Len(turns[n]) : Stands(turns[n][j])

\* A worker without its module has an engine nobody has touched, and one with it
\* and an unmixed table has one walk at most in hand.
ModuleKept(n) ==
  platform = "browser" /\ n \in Workers =>
    /\ engine[n].module = "absent" => engine[n] = ColdEngine
    /\ engine[n].module # "absent" /\ ~engine[n].mixed => Len(turns[n]) < 2

\* What an unmixed table holds is on the line searched last.
TableKnown(n) ==
  ~engine[n].mixed => \A known \in engine[n].table : IsPrefix(known, engine[n].warmSearch)

\* An engine that is not spoiled holds the history the session believes it does.
HistoryBelieved(n) ==
  ~engine[n].spoiled /\ engine[n].warmHistory # Unknown => engine[n].history = engine[n].warmHistory

EngineOK(n) ==
  /\ TurnsTaken(n) /\ LockKept(n) /\ WarmKnown(n) /\ ActiveIsLast(n) /\ ModuleKept(n)
  /\ TableKnown(n) /\ HistoryBelieved(n)

EngineInv == \A n \in Engines : EngineOK(n)

-----------------------------------------------------------------------------
(* Sequences.                                                              *)

LEMMA RangeOfAppend ==
  ASSUME NEW S, NEW s \in Seq(S), NEW x \in S
  PROVE  /\ Append(s, x) \in Seq(S)
         /\ Range(Append(s, x)) = Range(s) \cup {x}
         /\ x \notin Range(s) /\ Once(s) => Once(Append(s, x))
<1>1. Append(s, x) \in Seq(S) BY AppendProperties
<1>2. Append(s, x) = s \o <<x>> /\ <<x>> \in Seq(S) BY AppendIsConcat
<1>3. Range(Append(s, x)) = Range(s) \cup Range(<<x>>) BY <1>2, RangeConcatenation
<1>4. Range(<<x>>) = {x} BY DEF Range
<1>5. ASSUME x \notin Range(s), Once(s) PROVE Once(Append(s, x))
  <2>1. \A i \in 1..Len(s) : s[i] # x BY <1>5, RangeEquality
  <2>2. /\ Len(Append(s, x)) = Len(s) + 1 /\ Len(s) \in Nat
        /\ \A i \in 1..Len(s) : Append(s, x)[i] = s[i]
        /\ Append(s, x)[Len(s) + 1] = x
    BY AppendProperties, LenProperties
  <2> QED BY <2>1, <2>2, <1>5 DEF Once
<1> QED BY <1>1, <1>3, <1>4, <1>5

LEMMA RangeOfTail ==
  ASSUME NEW S, NEW s \in Seq(S), s # <<>>
  PROVE  /\ Tail(s) \in Seq(S) /\ Head(s) \in S
         /\ Head(s) \in Range(s) /\ Range(s) \subseteq S
         /\ Range(Tail(s)) \subseteq Range(s)
         /\ Once(s) => Once(Tail(s)) /\ Head(s) \notin Range(Tail(s))
<1>1. /\ Head(s) \in S /\ Tail(s) \in Seq(S) /\ Len(Tail(s)) = Len(s) - 1
      /\ \A i \in 1..Len(Tail(s)) : Tail(s)[i] = s[i + 1]
  BY HeadTailProperties
<1>2. Len(s) \in Nat /\ Len(s) # 0 /\ s[1] = Head(s) BY LenProperties, EmptySeq
<1>3. Range(s) = {s[i] : i \in 1..Len(s)} /\ Range(Tail(s)) = {Tail(s)[i] : i \in 1..Len(Tail(s))}
  BY <1>1, RangeEquality
<1>4. Range(s) \subseteq S BY RangeOfSeq
<1> QED BY <1>1, <1>2, <1>3, <1>4 DEF Once

LEMMA RangeOfEmpty == Range(<<>>) = {} /\ Once(<<>>)
  BY DEF Range, Once

LEMMA PrefixOfItself == ASSUME NEW S, NEW s \in Seq(S) PROVE IsPrefix(s, s)
  BY LenProperties DEF IsPrefix

LEMMA PrefixOfAppend ==
  ASSUME NEW S, NEW s \in Seq(S), NEW t \in Seq(S), NEW x \in S, IsPrefix(t, s)
  PROVE  IsPrefix(t, Append(s, x))
<1>1. /\ Append(s, x) \in Seq(S) /\ Len(Append(s, x)) = Len(s) + 1
      /\ \A i \in 1..Len(s) : Append(s, x)[i] = s[i]
  BY AppendProperties
<1>2. Len(s) \in Nat /\ Len(t) \in Nat /\ Len(t) <= Len(s) BY LenProperties DEF IsPrefix
<1>3. SubSeq(t, 1, Len(t)) = SubSeq(s, 1, Len(t)) BY DEF IsPrefix
<1>4. SubSeq(s, 1, Len(t)) = SubSeq(Append(s, x), 1, Len(t))
  <2>1. 1..Len(t) \subseteq 1..Len(s) BY <1>2
  <2> QED BY <1>1, <1>2, <2>1
<1> QED BY <1>1, <1>2, <1>3, <1>4 DEF IsPrefix

-----------------------------------------------------------------------------
(* The constants, and what the type invariant says of each place.          *)

LEMMA ConstantFacts ==
  /\ None \notin Requests /\ Exclusive \subseteq Requests
  /\ \A r \in Requests : LaneOf[r] \in Lanes
  /\ 0 \notin Workers /\ Workers \subseteq 0..MaxWorkers /\ 0 \in 0..MaxWorkers
  /\ \A w \in Workers : EngineOf(w) \in Engines
  /\ \A v, w \in Workers : platform = "browser" /\ EngineOf(v) = w => v = w
  BY LaneAssumption DEF Workers, Engines, EngineOf

LEMMA SearchFacts ==
  ASSUME NEW r \in Requests, NEW k \in 1..Len(Walk[r])
  PROVE  /\ Walk[r][k].history \in Seq(Positions) /\ Walk[r][k].current \in Positions
         /\ LineOf(Walk[r][k]) \in Seq(Positions)
         /\ Walk[r][k].history # Unknown
         /\ IsPrefix(Walk[r][k].history, LineOf(Walk[r][k]))
         /\ IsPrefix(LineOf(Walk[r][k]), LineOf(Walk[r][k]))
<1>1. Walk[r][k] \in [history : Seq(Positions), current : Positions]
  BY WalkAssumption, ElementOfSeq
<1> DEFINE h == Walk[r][k].history
           p == Walk[r][k].current
<1>2. h \in Seq(Positions) /\ p \in Positions BY <1>1
<1>3. Append(h, p) \in Seq(Positions) BY <1>2, AppendProperties
<1>4. h # Unknown
  <2>1. SUFFICES ASSUME h = Unknown PROVE FALSE OBVIOUS
  <2>2. Len(h) = 1 /\ h[1] = "unknown" BY <2>1 DEF Unknown
  <2>3. h[1] \in Positions BY <1>2, <2>2, ElementOfSeq
  <2> QED BY <2>2, <2>3, WalkAssumption
<1>5. IsPrefix(h, Append(h, p)) BY <1>2, PrefixOfItself, PrefixOfAppend
<1>6. IsPrefix(Append(h, p), Append(h, p)) BY <1>3, PrefixOfItself
<1> QED BY <1>2, <1>3, <1>4, <1>5, <1>6 DEF LineOf

Stages == {"idle", "queued", "sent"} \cup Outcomes

LEMMA TypeFacts ==
  ASSUME LaneTypeOK
  PROVE  /\ stage \in [Requests -> Stages]
         /\ queue \in [Lanes -> Seq(Exclusive)] /\ aborted \subseteq Requests
         /\ worker \in [Lanes -> 0..MaxWorkers] /\ on \in [Requests -> 0..MaxWorkers]
         /\ toWorker \in [Workers -> Seq(Requests)]
         /\ toClient \in [Workers -> Seq([r : Requests, how : Outcomes])]
         /\ active \in [Workers -> Requests \cup {None}]
         /\ walk \in [Requests -> [at : Nat, state : WalkStates]]
         /\ turns \in [Engines -> Seq(Requests)] /\ engine \in [Engines -> EngineStates]
  BY DEF LaneTypeOK, Stages

LEMMA MailFacts ==
  ASSUME LaneTypeOK, NEW w \in Workers
  PROVE  /\ toWorker[w] \in Seq(Requests) /\ Mailbox(w) \subseteq Requests
         /\ toClient[w] \in Seq([r : Requests, how : Outcomes])
         /\ Answers(w) \subseteq [r : Requests, how : Outcomes]
<1>1. /\ toWorker[w] \in Seq(Requests)
      /\ toClient[w] \in Seq([r : Requests, how : Outcomes])
  BY TypeFacts
<1> QED BY <1>1, RangeOfSeq DEF Mailbox, Answers

LEMMA LaneStarts == LaneInit => LaneInv
<1> SUFFICES ASSUME LaneInit PROVE LaneInv OBVIOUS
<1> USE DEF LaneInit
<1>1. LaneTypeOK
  <2>1. stage \in [Requests -> {"idle", "queued", "sent"} \cup Outcomes] OBVIOUS
  <2>2. queue \in [Lanes -> Seq(Exclusive)] /\ aborted \subseteq Requests OBVIOUS
  <2>3. worker \in [Lanes -> 0..MaxWorkers] /\ on \in [Requests -> 0..MaxWorkers]
    BY ConstantFacts
  <2>4. toWorker \in [Workers -> Seq(Requests)]
        /\ toClient \in [Workers -> Seq([r : Requests, how : Outcomes])]
    BY EmptySeq
  <2>5. active \in [Workers -> Requests \cup {None}] OBVIOUS
  <2>6. walk \in [Requests -> [at : Nat, state : WalkStates]]
        /\ \A r \in Requests : walk[r] = Idle
    BY DEF Idle, WalkStates
  <2>7. ColdEngine \in EngineStates
    <3>1. <<>> \in Seq(Positions) /\ {} \in SUBSET Seq(Positions) BY EmptySeq
    <3> QED BY <3>1 DEF ColdEngine, EngineStates
  <2>8. engine \in [Engines -> EngineStates] /\ turns \in [Engines -> Seq(Requests)]
    BY <2>7, EmptySeq
  <2> QED BY <2>1, <2>2, <2>3, <2>4, <2>5, <2>6, <2>8 DEF LaneTypeOK
<1>2. WorkersInv BY LaneAssumption DEF WorkersInv
<1>3. QueueInv
  <2>1. \A l \in Lanes : queue[l] = <<>> OBVIOUS
  <2>2. \A r \in Exclusive : stage[r] = "idle" BY ConstantFacts
  <2> QED BY <2>1, <2>2, RangeOfEmpty DEF QueueInv
<1>4. \A w \in Workers : Mailbox(w) = {} /\ Answers(w) = {} /\ Once(toWorker[w])
  BY RangeOfEmpty DEF Mailbox, Answers
<1>5. MailInv BY <1>4 DEF MailInv
<1>6. HostInv /\ AnswersInv BY <1>4 DEF HostInv, AnswersInv
<1>7. WalkInv BY DEF WalkInv, Idle
<1> QED BY <1>1, <1>2, <1>3, <1>5, <1>6, <1>7 DEF LaneInv

-----------------------------------------------------------------------------
(* send: a question is posted to the worker of its lane.                   *)

LEMMA SentTo ==
  ASSUME LaneInv, NEW r \in Requests, Sent(r), r \notin aborted
  PROVE  \E w \in Workers :
           /\ worker[LaneOf[r]] # 0 => w = worker[LaneOf[r]]
           /\ worker[LaneOf[r]] = 0 => \A l \in Lanes : worker[l] # w
           /\ worker' = [worker EXCEPT ![LaneOf[r]] = w]
           /\ stage' = [stage EXCEPT ![r] = "sent"]
           /\ on' = [on EXCEPT ![r] = w]
           /\ toWorker' = [toWorker EXCEPT ![w] = Append(@, r)]
<1> DEFINE w == IF worker[LaneOf[r]] # 0 THEN worker[LaneOf[r]] ELSE NewWorker
<1>1. /\ worker' = [worker EXCEPT ![LaneOf[r]] = w]
      /\ stage' = [stage EXCEPT ![r] = "sent"]
      /\ on' = [on EXCEPT ![r] = w]
      /\ toWorker' = [toWorker EXCEPT ![w] = Append(@, r)]
      /\ worker[LaneOf[r]] = 0 => \E free \in Workers : ~AtWork(free)
  BY DEF Sent
<1>2. w \in Workers /\ (worker[LaneOf[r]] = 0 => ~AtWork(w))
  <2>1. CASE worker[LaneOf[r]] # 0
    <3>1. LaneOf[r] \in Lanes /\ worker \in [Lanes -> 0..MaxWorkers]
      BY ConstantFacts, TypeFacts DEF LaneInv
    <3> QED BY <3>1, <2>1 DEF Workers
  <2>2. CASE worker[LaneOf[r]] = 0
    <3>1. \E free \in Workers : ~AtWork(free) BY <1>1, <2>2
    <3>2. NewWorker \in Workers /\ ~AtWork(NewWorker) BY <3>1 DEF NewWorker
    <3> QED BY <3>2, <2>2
  <2> QED BY <2>1, <2>2
<1>3. worker[LaneOf[r]] = 0 => \A l \in Lanes : worker[l] # w BY <1>2 DEF AtWork
<1> HIDE DEF w
<1>4. worker[LaneOf[r]] # 0 => w = worker[LaneOf[r]] BY DEF w
<1> QED BY <1>1, <1>2, <1>3, <1>4

LEMMA SentGoesOn ==
  ASSUME LaneInv, NEW r \in Requests, Fresh(r), r \notin aborted, Sent(r),
         r \in Exclusive => TurnIsOver(LaneOf[r]),
         queue' \in [Lanes -> Seq(Exclusive)],
         \A l \in Lanes :
           Once(queue'[l]) /\ Range(queue'[l]) \subseteq Range(queue[l]) \ {r},
         UNCHANGED <<platform, aborted, toClient, active, walk, turns, engine>>
  PROVE  LaneInv'
<1>0. /\ LaneTypeOK /\ WorkersInv /\ QueueInv /\ MailInv /\ HostInv /\ AnswersInv
      /\ WalkInv
  BY DEF LaneInv
<1> DEFINE k == LaneOf[r]
<1>1. PICK w \in Workers :
           /\ worker[k] # 0 => w = worker[k]
           /\ worker[k] = 0 => \A l \in Lanes : worker[l] # w
           /\ worker' = [worker EXCEPT ![k] = w]
           /\ stage' = [stage EXCEPT ![r] = "sent"]
           /\ on' = [on EXCEPT ![r] = w]
           /\ toWorker' = [toWorker EXCEPT ![w] = Append(@, r)]
  BY SentTo
<1>t. /\ stage \in [Requests -> Stages] /\ on \in [Requests -> 0..MaxWorkers]
      /\ worker \in [Lanes -> 0..MaxWorkers] /\ toWorker \in [Workers -> Seq(Requests)]
      /\ aborted \subseteq Requests
  BY <1>0, TypeFacts
<1>c. /\ k \in Lanes /\ w # 0 /\ w \in 0..MaxWorkers /\ Exclusive \subseteq Requests
      /\ \A q \in Requests : LaneOf[q] \in Lanes
  BY ConstantFacts
<1>2. /\ stage'[r] = "sent" /\ \A q \in Requests : q # r => stage'[q] = stage[q]
      /\ on'[r] = w /\ \A q \in Requests : q # r => on'[q] = on[q]
      /\ worker'[k] = w /\ \A l \in Lanes : l # k => worker'[l] = worker[l]
      /\ worker[k] # 0 => worker' = worker
      /\ toWorker'[w] = Append(toWorker[w], r)
      /\ \A v \in Workers : v # w => toWorker'[v] = toWorker[v]
  BY <1>1, <1>t, <1>c
<1>3. stage[r] # "sent" /\ walk[r].state = "none"
  BY <1>0 DEF Fresh, WalkInv
<1>4. \A v \in Workers : r \notin Mailbox(v) /\ active[v] # r /\ \A m \in Answers(v) : m.r # r
  BY <1>0, ConstantFacts DEF MailInv, HostInv, AnswersInv, Fresh
<1>5. LaneTypeOK'
  <2>1. stage' \in [Requests -> {"idle", "queued", "sent"} \cup Outcomes]
    BY <1>1, <1>0 DEF LaneTypeOK
  <2>2. worker' \in [Lanes -> 0..MaxWorkers] /\ on' \in [Requests -> 0..MaxWorkers]
    BY <1>1, <1>t, <1>c
  <2>3. toWorker' \in [Workers -> Seq(Requests)]
    <3>1. Append(toWorker[w], r) \in Seq(Requests) BY <1>t, AppendProperties
    <3> QED BY <3>1, <1>1, <1>t
  <2> QED BY <2>1, <2>2, <2>3, <1>0 DEF LaneTypeOK, EngineStates
<1>6. WorkersInv'
  <2>1. \A l, m \in Lanes : worker'[l] = worker'[m] /\ worker'[l] # 0 => l = m
    BY <1>0, <1>1, <1>2, <1>c DEF WorkersInv
  <2>2. ASSUME NEW q \in Requests, stage'[q] = "sent" PROVE OnItsWorker(q)'
    <3>1. CASE q = r BY <3>1, <1>2, <1>c DEF OnItsWorker
    <3>2. CASE q # r
      <4>1. OnItsWorker(q) /\ on'[q] = on[q] BY <3>2, <2>2, <1>2, <1>0 DEF WorkersInv
      <4>2. worker'[LaneOf[q]] = worker[LaneOf[q]] BY <4>1, <1>2, <1>1, <1>c DEF OnItsWorker
      <4> QED BY <4>1, <4>2 DEF OnItsWorker
    <3> QED BY <3>1, <3>2
  <2> QED BY <2>1, <2>2 DEF WorkersInv
<1>7. QueueInv'
  <2>1. ASSUME NEW l \in Lanes, NEW q \in Range(queue'[l])
        PROVE  stage'[q] = "queued" /\ LaneOf[q] = l
    <3>1. q \in Range(queue[l]) /\ q # r OBVIOUS
    <3>2. stage[q] = "queued" /\ LaneOf[q] = l BY <3>1, <1>0 DEF QueueInv
    <3>3. q \in Requests
      <4>1. queue[l] \in Seq(Exclusive) BY <1>0, TypeFacts
      <4>2. Range(queue[l]) \subseteq Exclusive BY <4>1, RangeOfSeq
      <4> QED BY <4>2, <3>1, <1>c
    <3> QED BY <3>1, <3>2, <3>3, <1>2
  <2>2. ASSUME NEW q \in Exclusive, NEW s \in Exclusive,
               stage'[q] = "sent", stage'[s] = "sent", LaneOf[q] = LaneOf[s]
        PROVE  q = s
    <3>1. r \in Exclusive => \A x \in Exclusive : LaneOf[x] = k => stage[x] # "sent"
      BY <1>c DEF TurnIsOver, Pending
    <3> QED BY <3>1, <2>2, <1>2, <1>0, <1>c DEF QueueInv
  <2>3. \A q \in aborted' : stage'[q] # "idle" BY <1>0, <1>2, <1>t DEF QueueInv
  <2> QED BY <2>1, <2>2, <2>3 DEF QueueInv
<1>8. MailInv'
  <2>1. Mailbox(w)' = Mailbox(w) \cup {r} /\ Once(toWorker'[w])
    <3>1. toWorker[w] \in Seq(Requests) BY <1>t
    <3>2. r \notin Range(toWorker[w]) /\ Once(toWorker[w]) BY <1>4, <1>0 DEF MailInv, Mailbox
    <3> QED BY <3>1, <3>2, <1>2, RangeOfAppend DEF Mailbox
  <2>2. \A v \in Workers : v # w => Mailbox(v)' = Mailbox(v) /\ Once(toWorker'[v])
    BY <1>2, <1>0 DEF MailInv, Mailbox
  <2>3. \A v \in Workers : Answers(v)' = Answers(v) /\ active'[v] = active[v]
    BY DEF Answers
  <2>4. \A v \in Workers : \A q \in Mailbox(v) :
          stage'[q] = "sent" /\ on'[q] = v /\ walk'[q].state = "none"
    BY <1>0, <1>2, <1>4, MailFacts DEF MailInv
  <2>5. stage'[r] = "sent" /\ on'[r] = w /\ walk'[r].state = "none" BY <1>2, <1>3
  <2>6. \A v \in Workers : \A q \in Mailbox(v)' :
          stage'[q] = "sent" /\ on'[q] = v /\ walk'[q].state = "none"
    BY <2>1, <2>2, <2>4, <2>5
  <2>7. \A v \in Workers : \A q \in Mailbox(v) : \A u \in Workers :
          active[u] # q /\ \A m \in Answers(u) : m.r # q
    BY <1>0 DEF MailInv
  <2>8. \A v \in Workers : \A q \in Mailbox(v)' : \A u \in Workers :
          active'[u] # q /\ \A m \in Answers(u)' : m.r # q
    BY <2>1, <2>2, <2>3, <2>7, <1>4
  <2>9. \A v \in Workers : Once(toWorker'[v]) BY <2>1, <2>2
  <2> QED BY <2>6, <2>8, <2>9 DEF MailInv
<1>9. HostInv'
  <2>1. SUFFICES ASSUME NEW v \in Workers, active[v] # None
                 PROVE  ~Fresh(active[v])' /\ OnItsWorker(active[v])' /\ on'[active[v]] = v
    BY DEF HostInv
  <2>2. /\ ~Fresh(active[v]) /\ OnItsWorker(active[v]) /\ on[active[v]] = v
        /\ active[v] \in Requests /\ active[v] # r
    BY <2>1, <1>0, <1>4, TypeFacts DEF HostInv
  <2>3. stage'[active[v]] = stage[active[v]] /\ on'[active[v]] = on[active[v]] BY <2>2, <1>2
  <2>4. worker'[LaneOf[active[v]]] = worker[LaneOf[active[v]]]
    BY <2>2, <1>2, <1>1, <1>c DEF OnItsWorker
  <2> QED BY <2>2, <2>3, <2>4 DEF Fresh, OnItsWorker
<1>10. AnswersInv'
  <2>1. \A v \in Workers : Answers(v)' = Answers(v) BY DEF Answers
  <2>2. ASSUME NEW v \in Workers, NEW m \in Answers(v)
        PROVE  /\ ~Fresh(m.r)'
               /\ m.how = "cancelled" /\ stage'[m.r] = "sent" => ~Service!Orderly(LaneOf[m.r])
    <3>1. m.r \in Requests /\ m.r # r BY MailFacts, <1>0, <1>4
    <3>2. stage'[m.r] = stage[m.r] BY <3>1, <1>2
    <3> QED BY <3>2, <1>0 DEF AnswersInv, Fresh
  <2> QED BY <2>1, <2>2 DEF AnswersInv
<1>11. WalkInv'
  <2>1. ASSUME NEW q \in Requests, walk[q].state # "none"
        PROVE  q # r /\ stage'[q] = stage[q] /\ on'[q] = on[q]
    BY <2>1, <1>3, <1>2
  <2>2. \A q \in Requests : walk[q].state # "none" => ~Fresh(q) /\ on[q] # 0
    BY <1>0 DEF WalkInv
  <2>3. \A q \in Requests : walk'[q].state # "none" => ~Fresh(q)' /\ on'[q] # 0
    BY <2>1, <2>2 DEF Fresh
  <2> QED BY <2>3 DEF WalkInv
<1> QED BY <1>5, <1>6, <1>7, <1>8, <1>9, <1>10, <1>11 DEF LaneInv

-----------------------------------------------------------------------------
(* stopWorker: the worker goes, and every question pending on it ends.     *)

\* Who the stop of lane l is about: a question pending there, or nobody.
StoppedFor(l, r) == r = None \/ (r \in Requests /\ r \in Pending(l))

\* What the stop of lane l, whose worker was w, leaves of every variable.
StopLeaves(l, w, r, outcome) ==
  /\ stage' \in [Requests -> Stages]
  /\ \A q \in Requests : q \in Pending(l) => stage'[q] \in {outcome, "failed"}
  /\ \A q \in Requests : q \in Pending(l) /\ q # r => stage'[q] = "failed"
  /\ \A q \in Requests : q \notin Pending(l) => stage'[q] = stage[q]
  /\ worker' \in [Lanes -> 0..MaxWorkers]
  /\ worker'[l] = 0 /\ \A k \in Lanes : k # l => worker'[k] = worker[k]
  /\ toWorker' \in [Workers -> Seq(Requests)]
  /\ toClient' \in [Workers -> Seq([r : Requests, how : Outcomes])]
  /\ active' \in [Workers -> Requests \cup {None}]
  /\ toWorker'[w] = <<>> /\ toClient'[w] = <<>>
  /\ active'[w] = None
  /\ \A v \in Workers : v # w =>
       /\ toWorker'[v] = toWorker[v] /\ toClient'[v] = toClient[v]
       /\ active'[v] = active[v]
  /\ walk' \in [Requests -> [at : Nat, state : WalkStates]]
  /\ \A q \in Requests :
       walk'[q] = IF platform = "browser" /\ on[q] = w THEN Idle ELSE walk[q]
  /\ turns' \in [Engines -> Seq(Requests)]
  /\ \A n \in Engines : turns'[n] = IF platform = "browser" /\ n = w THEN <<>> ELSE turns[n]
  /\ engine' \in [Engines -> EngineStates]
  /\ \A n \in Engines :
       engine'[n] = IF platform = "browser" /\ n = w THEN ColdEngine ELSE engine[n]

LEMMA StopEffects ==
  ASSUME LaneInv, NEW l \in Lanes, worker[l] # 0,
         NEW w \in Workers, w = worker[l], NEW r, StoppedFor(l, r),
         NEW outcome \in Outcomes, StopWorker(l, r, outcome), platform' = platform
  PROVE  StopLeaves(l, w, r, outcome)
<1>t. /\ stage \in [Requests -> Stages]
      /\ worker \in [Lanes -> 0..MaxWorkers] /\ on \in [Requests -> 0..MaxWorkers]
      /\ toWorker \in [Workers -> Seq(Requests)]
      /\ toClient \in [Workers -> Seq([r : Requests, how : Outcomes])]
      /\ active \in [Workers -> Requests \cup {None}]
      /\ walk \in [Requests -> [at : Nat, state : WalkStates]]
      /\ turns \in [Engines -> Seq(Requests)] /\ engine \in [Engines -> EngineStates]
  BY TypeFacts DEF LaneInv
<1>2. /\ stage' = Stopped(l, r, outcome) /\ worker' = [worker EXCEPT ![l] = 0] /\ Terminated(w)
  BY DEF StopWorker
<1>3. \A q \in Requests :
        stage'[q] = IF q = r THEN outcome ELSE IF q \in Pending(l) THEN "failed" ELSE stage[q]
  BY <1>2 DEF Stopped
<1>4. r \in Requests => r \in Pending(l) BY ConstantFacts DEF StoppedFor
<1>5. stage' \in [Requests -> Stages]
  <2>1. outcome \in Stages /\ "failed" \in Stages BY DEF Stages, Outcomes
  <2> QED BY <2>1, <1>2, <1>t DEF Stopped
<1>6. /\ worker' \in [Lanes -> 0..MaxWorkers]
      /\ worker'[l] = 0 /\ \A k \in Lanes : k # l => worker'[k] = worker[k]
  BY <1>2, <1>t, ConstantFacts
<1>7. /\ toWorker' = [toWorker EXCEPT ![w] = <<>>] /\ toClient' = [toClient EXCEPT ![w] = <<>>]
      /\ active' = [active EXCEPT ![w] = None]
  BY <1>2 DEF Terminated
<1>8. /\ toWorker'[w] = <<>> /\ toClient'[w] = <<>> /\ active'[w] = None
      /\ \A v \in Workers : v # w =>
              /\ toWorker'[v] = toWorker[v] /\ toClient'[v] = toClient[v]
              /\ active'[v] = active[v]
      /\ toWorker' \in [Workers -> Seq(Requests)]
      /\ toClient' \in [Workers -> Seq([r : Requests, how : Outcomes])]
      /\ active' \in [Workers -> Requests \cup {None}]
  BY <1>7, <1>t, EmptySeq
<1>9. Idle \in [at : Nat, state : WalkStates] BY DEF Idle, WalkStates
<1>10. ColdEngine \in EngineStates
  <2>1. <<>> \in Seq(Positions) /\ {} \in SUBSET Seq(Positions) BY EmptySeq
  <2> QED BY <2>1 DEF ColdEngine, EngineStates
<1>11. CASE platform = "browser"
  <2>1. /\ walk' = [q \in Requests |-> IF on[q] = w THEN Idle ELSE walk[q]]
        /\ turns' = [turns EXCEPT ![w] = <<>>]
        /\ engine' = [engine EXCEPT ![w] = ColdEngine]
    BY <1>2, <1>11 DEF Terminated
  <2>2. walk' \in [Requests -> [at : Nat, state : WalkStates]] BY <2>1, <1>9, <1>t
  <2>3. w \in Engines BY DEF Workers, Engines
  <2>4. engine' \in [Engines -> EngineStates] BY <2>1, <2>3, <1>10, <1>t
  <2>5. \A n \in Engines : engine'[n] = IF n = w THEN ColdEngine ELSE engine[n]
    BY <2>1, <1>t
  <2>6. \A q \in Requests : walk'[q] = IF on[q] = w THEN Idle ELSE walk[q] BY <2>1
  <2>7. /\ turns' \in [Engines -> Seq(Requests)]
        /\ \A n \in Engines : turns'[n] = IF n = w THEN <<>> ELSE turns[n]
    BY <2>1, <2>3, <1>t, EmptySeq
  <2> QED BY <1>11, <2>2, <2>4, <2>5, <2>6, <2>7, <1>3, <1>4, <1>5, <1>6, <1>8 DEF StopLeaves
<1>12. CASE platform # "browser"
  <2>1. walk' = walk /\ turns' = turns /\ engine' = engine BY <1>2, <1>12 DEF Terminated
  <2> QED BY <1>12, <2>1, <1>t, <1>3, <1>4, <1>5, <1>6, <1>8 DEF StopLeaves
<1> QED BY <1>11, <1>12

LEMMA StopGoesOn ==
  ASSUME LaneInv, NEW l \in Lanes, worker[l] # 0, NEW r, StoppedFor(l, r),
         NEW outcome \in Outcomes, StopWorker(l, r, outcome),
         UNCHANGED <<platform, queue, on>>,
         aborted' \subseteq Requests,
         \A q \in aborted' : q \in aborted \/ stage[q] # "idle"
  PROVE  LaneInv'
<1>0. /\ LaneTypeOK /\ WorkersInv /\ QueueInv /\ MailInv /\ HostInv /\ AnswersInv
      /\ WalkInv
  BY DEF LaneInv
<1>t. /\ stage \in [Requests -> Stages] /\ on \in [Requests -> 0..MaxWorkers]
      /\ worker \in [Lanes -> 0..MaxWorkers] /\ active \in [Workers -> Requests \cup {None}]
      /\ aborted \subseteq Requests
  BY <1>0, TypeFacts
<1>1. PICK w \in Workers : w = worker[l] BY <1>t DEF Workers
<1>11. w # 0 BY <1>1
<1>p. platform' = platform OBVIOUS
<1>e. /\ stage' \in [Requests -> Stages]
      /\ \A q \in Requests : q \in Pending(l) => stage'[q] \in {outcome, "failed"}
      /\ \A q \in Requests : q \notin Pending(l) => stage'[q] = stage[q]
      /\ worker' \in [Lanes -> 0..MaxWorkers]
      /\ worker'[l] = 0 /\ \A k \in Lanes : k # l => worker'[k] = worker[k]
      /\ toWorker' \in [Workers -> Seq(Requests)]
      /\ toClient' \in [Workers -> Seq([r : Requests, how : Outcomes])]
      /\ active' \in [Workers -> Requests \cup {None}]
      /\ toWorker'[w] = <<>> /\ toClient'[w] = <<>> /\ active'[w] = None
      /\ \A v \in Workers : v # w =>
              /\ toWorker'[v] = toWorker[v] /\ toClient'[v] = toClient[v]
              /\ active'[v] = active[v]
      /\ walk' \in [Requests -> [at : Nat, state : WalkStates]]
      /\ \A q \in Requests :
              walk'[q] = IF platform = "browser" /\ on[q] = w THEN Idle ELSE walk[q]
      /\ turns' \in [Engines -> Seq(Requests)] /\ engine' \in [Engines -> EngineStates]
  <2>1. StopLeaves(l, w, r, outcome) BY StopEffects, <1>p, <1>1
  <2> QED BY <2>1 DEF StopLeaves
<1>2. /\ \A q \in Requests : stage'[q] # stage[q] => q \in Pending(l)
      /\ \A q \in Requests : stage'[q] = "sent" => stage[q] = "sent" /\ LaneOf[q] # l
      /\ \A q \in Requests : stage[q] = "sent" /\ LaneOf[q] # l => stage'[q] = "sent"
      /\ \A q \in Requests : stage[q] # "sent" => stage'[q] = stage[q]
      /\ \A q \in Requests : stage[q] \notin {"idle", "queued"} => stage'[q] \notin {"idle", "queued"}
      /\ \A q \in Requests : stage'[q] = "idle" => stage[q] = "idle"
  BY <1>e DEF Pending, Outcomes
<1>3. LaneTypeOK'
  <2>1. stage' \in [Requests -> {"idle", "queued", "sent"} \cup Outcomes] BY <1>e DEF Stages
  <2>2. \A q \in Requests :
          walk'[q] = Idle \/ (walk'[q].at \in 1..Len(Walk[q]) /\ walk'[q].state # "none")
    BY <1>e, <1>0 DEF LaneTypeOK
  <2> QED BY <2>1, <2>2, <1>e, <1>0 DEF LaneTypeOK
<1>4. WorkersInv'
  <2>1. \A k, m \in Lanes : worker'[k] = worker'[m] /\ worker'[k] # 0 => k = m
    <3>1. \A k, m \in Lanes : worker[k] = worker[m] /\ worker[k] # 0 => k = m
      BY <1>0 DEF WorkersInv
    <3>2. worker'[l] = 0 /\ \A k \in Lanes : k # l => worker'[k] = worker[k] BY <1>e
    <3> QED BY <3>1, <3>2
  <2>2. ASSUME NEW q \in Requests, stage'[q] = "sent" PROVE OnItsWorker(q)'
    <3>1. stage[q] = "sent" /\ LaneOf[q] # l /\ LaneOf[q] \in Lanes
      BY <2>2, <1>2, ConstantFacts
    <3>2. OnItsWorker(q) BY <3>1, <1>0 DEF WorkersInv
    <3>3. worker'[LaneOf[q]] = worker[LaneOf[q]] BY <3>1, <1>e
    <3> QED BY <3>2, <3>3 DEF OnItsWorker
  <2> QED BY <2>1, <2>2 DEF WorkersInv
<1>5. QueueInv'
  <2>1. ASSUME NEW k \in Lanes, NEW q \in Range(queue[k])
        PROVE  stage'[q] = "queued" /\ LaneOf[q] = k
    <3>1. stage[q] = "queued" /\ LaneOf[q] = k BY <1>0 DEF QueueInv
    <3>2. q \in Requests
      <4>1. queue[k] \in Seq(Exclusive) BY <1>0, TypeFacts
      <4> QED BY <4>1, RangeOfSeq, ConstantFacts
    <3> QED BY <3>1, <3>2, <1>2
  <2>2. \A q, s \in Exclusive :
          stage'[q] = "sent" /\ stage'[s] = "sent" /\ LaneOf[q] = LaneOf[s] => q = s
    BY <1>0, <1>2, ConstantFacts DEF QueueInv
  <2>3. \A q \in aborted' : stage'[q] # "idle" BY <1>0, <1>2 DEF QueueInv
  <2>4. \A k \in Lanes : Once(queue'[k]) BY <1>0 DEF QueueInv
  <2> QED BY <2>1, <2>2, <2>3, <2>4 DEF QueueInv
<1>6. /\ Mailbox(w)' = {} /\ Answers(w)' = {} /\ Once(toWorker'[w])
      /\ \A v \in Workers : v # w => Mailbox(v)' = Mailbox(v) /\ Answers(v)' = Answers(v)
                                     /\ Once(toWorker'[v])
  BY <1>e, <1>0, RangeOfEmpty DEF Mailbox, Answers, MailInv
<1>7. MailInv'
  <2>1. ASSUME NEW v \in Workers, NEW q \in Mailbox(v)'
        PROVE  stage'[q] = "sent" /\ on'[q] = v /\ walk'[q].state = "none"
    <3>1. v # w /\ q \in Mailbox(v) /\ q \in Requests BY <1>6, MailFacts, <1>0
    <3>2. stage[q] = "sent" /\ on[q] = v /\ walk[q].state = "none" BY <3>1, <1>0 DEF MailInv
    <3>3. LaneOf[q] # l BY <3>1, <3>2, <1>0, <1>1 DEF WorkersInv, OnItsWorker
    <3> QED BY <3>1, <3>2, <3>3, <1>2, <1>e
  <2>2. ASSUME NEW v \in Workers, NEW q \in Mailbox(v)', NEW u \in Workers
        PROVE  active'[u] # q /\ \A m \in Answers(u)' : m.r # q
    <3>1. q \in Mailbox(v) /\ q \in Requests BY <1>6, MailFacts, <1>0
    <3>2. active[u] # q /\ \A m \in Answers(u) : m.r # q BY <3>1, <1>0 DEF MailInv
    <3>3. active'[u] \in {active[u], None} BY <1>e
    <3>4. Answers(u)' \subseteq Answers(u) BY <1>6
    <3> QED BY <3>1, <3>2, <3>3, <3>4, ConstantFacts
  <2> QED BY <2>1, <2>2, <1>6 DEF MailInv
<1>8. HostInv'
  <2>1. SUFFICES ASSUME NEW v \in Workers, active'[v] # None
                 PROVE  ~Fresh(active[v])' /\ OnItsWorker(active[v])' /\ on'[active'[v]] = v
    BY DEF HostInv
  <2>2. v # w /\ active'[v] = active[v] /\ active[v] \in Requests BY <2>1, <1>e, <1>t
  <2>3. ~Fresh(active[v]) /\ OnItsWorker(active[v]) /\ on[active[v]] = v
    BY <2>1, <2>2, <1>0 DEF HostInv
  <2>4. LaneOf[active[v]] \in Lanes /\ LaneOf[active[v]] # l
    BY <2>2, <2>3, <1>1, ConstantFacts DEF OnItsWorker
  <2>5. worker'[LaneOf[active[v]]] = worker[LaneOf[active[v]]] BY <2>4, <1>e
  <2>6. stage'[active[v]] \notin {"idle", "queued"} BY <2>2, <2>3, <1>2 DEF Fresh
  <2> QED BY <2>2, <2>3, <2>5, <2>6 DEF Fresh, OnItsWorker
<1>9. AnswersInv'
  <2>1. ASSUME NEW v \in Workers, NEW m \in Answers(v)'
        PROVE  /\ ~Fresh(m.r)'
               /\ m.how = "cancelled" /\ stage'[m.r] = "sent" => ~Service!Orderly(LaneOf[m.r])
    <3>1. m \in Answers(v) /\ m.r \in Requests BY <1>6, MailFacts, <1>0
    <3>2. /\ ~Fresh(m.r)
          /\ m.how = "cancelled" /\ stage[m.r] = "sent" => ~Service!Orderly(LaneOf[m.r])
      BY <3>1, <1>0 DEF AnswersInv
    <3> QED BY <3>1, <3>2, <1>2 DEF Fresh
  <2> QED BY <2>1 DEF AnswersInv
<1>10. WalkInv'
  <2>1. ASSUME NEW q \in Requests, walk'[q].state # "none" PROVE ~Fresh(q)' /\ on'[q] # 0
    <3>1. walk'[q] = walk[q] BY <2>1, <1>e DEF Idle
    <3>2. ~Fresh(q) /\ on[q] # 0 BY <2>1, <3>1, <1>0 DEF WalkInv
    <3> QED BY <3>2, <1>2 DEF Fresh
  <2> QED BY <2>1 DEF WalkInv
<1> QED BY <1>3, <1>4, <1>5, <1>7, <1>8, <1>9, <1>10 DEF LaneInv

-----------------------------------------------------------------------------
(* The rest of the client's side.                                          *)

\* One question joins the queue, leaves it or is answered, and no worker has to
\* do with it.
LEMMA StageGoesOn ==
  ASSUME LaneInv, NEW r \in Requests, NEW o \in {"queued"} \cup Outcomes,
         stage' = [stage EXCEPT ![r] = o], o = "queued" => stage[r] = "idle",
         \A w \in Workers : r \notin Mailbox(w),
         queue' \in [Lanes -> Seq(Exclusive)],
         \A l \in Lanes :
           Once(queue'[l]) /\ \A q \in Range(queue'[l]) : stage'[q] = "queued" /\ LaneOf[q] = l,
         toClient' \in [Workers -> Seq([r : Requests, how : Outcomes])],
         \A w \in Workers : Answers(w)' \subseteq Answers(w),
         UNCHANGED <<platform, aborted, worker, on, toWorker, active, walk, turns, engine>>
  PROVE  LaneInv'
<1>0. /\ LaneTypeOK /\ WorkersInv /\ QueueInv /\ MailInv /\ HostInv /\ AnswersInv
      /\ WalkInv
  BY DEF LaneInv
<1>t. /\ stage \in [Requests -> Stages] /\ aborted \subseteq Requests
      /\ active \in [Workers -> Requests \cup {None}] /\ Exclusive \subseteq Requests
  BY <1>0, TypeFacts, ConstantFacts
<1>1. /\ stage'[r] = o /\ o # "sent" /\ o # "idle"
      /\ \A q \in Requests : q # r => stage'[q] = stage[q]
      /\ \A q \in Requests : stage'[q] = "sent" => stage[q] = "sent"
      /\ \A q \in Requests : stage[q] = "sent" /\ q # r => stage'[q] = "sent"
      /\ \A q \in Requests : ~Fresh(q) => ~Fresh(q)'
      /\ \A q \in Requests : stage'[q] = "idle" => stage[q] = "idle"
  BY <1>t DEF Outcomes, Fresh
<1>2. LaneTypeOK'
  <2>1. stage' \in [Requests -> {"idle", "queued", "sent"} \cup Outcomes]
    BY <1>0 DEF LaneTypeOK
  <2> QED BY <2>1, <1>0 DEF LaneTypeOK
<1>3. WorkersInv' BY <1>0, <1>1 DEF WorkersInv, OnItsWorker
<1>4. QueueInv'
  <2>1. \A q, s \in Exclusive :
          stage'[q] = "sent" /\ stage'[s] = "sent" /\ LaneOf[q] = LaneOf[s] => q = s
    BY <1>0, <1>1, <1>t DEF QueueInv
  <2>2. \A q \in aborted' : stage'[q] # "idle" BY <1>0, <1>1, <1>t DEF QueueInv
  <2> QED BY <2>1, <2>2 DEF QueueInv
<1>5. MailInv'
  <2>1. \A v \in Workers : Mailbox(v)' = Mailbox(v) /\ Once(toWorker'[v])
    BY <1>0 DEF Mailbox, MailInv
  <2>2. ASSUME NEW v \in Workers, NEW q \in Mailbox(v)
        PROVE  stage'[q] = "sent" /\ on'[q] = v /\ walk'[q].state = "none"
    <3>1. q \in Requests /\ q # r BY MailFacts, <1>0
    <3> QED BY <3>1, <1>0, <1>1 DEF MailInv
  <2>3. ASSUME NEW v \in Workers, NEW q \in Mailbox(v), NEW u \in Workers
        PROVE  active'[u] # q /\ \A m \in Answers(u)' : m.r # q
    BY <1>0 DEF MailInv
  <2> QED BY <2>1, <2>2, <2>3 DEF MailInv
<1>6. HostInv'
  <2>1. SUFFICES ASSUME NEW v \in Workers, active[v] # None
                 PROVE  ~Fresh(active[v])' /\ OnItsWorker(active[v])' /\ on'[active[v]] = v
    BY DEF HostInv
  <2>2. active[v] \in Requests BY <2>1, <1>t
  <2>3. ~Fresh(active[v]) /\ OnItsWorker(active[v]) /\ on[active[v]] = v
    BY <2>1, <1>0 DEF HostInv
  <2>4. stage'[active[v]] \notin {"idle", "queued"} BY <2>2, <2>3, <1>1 DEF Fresh
  <2> QED BY <2>3, <2>4 DEF OnItsWorker, Fresh
<1>7. AnswersInv'
  <2>1. ASSUME NEW v \in Workers, NEW m \in Answers(v)'
        PROVE  /\ ~Fresh(m.r)'
               /\ m.how = "cancelled" /\ stage'[m.r] = "sent" => ~Service!Orderly(LaneOf[m.r])
    <3>1. m \in Answers(v) OBVIOUS
    <3>2. m.r \in Requests BY <3>1, MailFacts, <1>0
    <3>3. /\ ~Fresh(m.r)
          /\ m.how = "cancelled" /\ stage[m.r] = "sent" => ~Service!Orderly(LaneOf[m.r])
      BY <3>1, <1>0 DEF AnswersInv
    <3> QED BY <3>2, <3>3, <1>1 DEF Fresh
  <2> QED BY <2>1 DEF AnswersInv
<1>8. WalkInv'
  <2>1. \A q \in Requests : walk'[q].state # "none" => ~Fresh(q)' /\ on'[q] # 0
    BY <1>0, <1>1 DEF WalkInv
  <2> QED BY <2>1 DEF WalkInv
<1> QED BY <1>2, <1>3, <1>4, <1>5, <1>6, <1>7, <1>8 DEF LaneInv

LEMMA QueueFacts ==
  ASSUME LaneInv, NEW l \in Lanes
  PROVE  /\ queue[l] \in Seq(Exclusive) /\ Once(queue[l])
         /\ \A q \in Range(queue[l]) : q \in Exclusive /\ q \in Requests
                                       /\ stage[q] = "queued" /\ LaneOf[q] = l
<1>1. queue[l] \in Seq(Exclusive) BY TypeFacts DEF LaneInv
<1>2. Range(queue[l]) \subseteq Exclusive BY <1>1, RangeOfSeq
<1> QED BY <1>1, <1>2, ConstantFacts DEF LaneInv, QueueInv

\* A question that has not been sent is in nobody's hands.
LEMMA FreshIsNowhere ==
  ASSUME LaneInv, NEW r \in Requests, stage[r] # "sent"
  PROVE  \A w \in Workers : r \notin Mailbox(w)
  BY DEF LaneInv, MailInv

LEMMA AskDirectlyGoesOn ==
  ASSUME LaneInv, NEW r \in Requests, AskDirectly(r) PROVE LaneInv'
<1>1. Fresh(r) /\ r \notin aborted /\ Sent(r) /\ r \notin Exclusive
  BY DEF AskDirectly, Unasked, Fresh, LaneInv, QueueInv
<1>2. queue' \in [Lanes -> Seq(Exclusive)] BY TypeFacts DEF AskDirectly, LaneInv
<1>3. \A l \in Lanes :
        Once(queue'[l]) /\ Range(queue'[l]) \subseteq Range(queue[l]) \ {r}
  BY <1>1, QueueFacts DEF AskDirectly
<1>4. UNCHANGED <<platform, aborted, toClient, active, walk, turns, engine>> BY DEF AskDirectly
<1> QED BY <1>1, <1>2, <1>3, <1>4, SentGoesOn

LEMMA AskInTurnGoesOn ==
  ASSUME LaneInv, NEW r \in Requests, AskInTurn(r) PROVE LaneInv'
<1> DEFINE k == LaneOf[r]
<1>1. /\ stage[r] = "idle" /\ r \in Exclusive /\ stage' = [stage EXCEPT ![r] = "queued"]
      /\ queue' = [queue EXCEPT ![k] = Append(@, r)]
      /\ UNCHANGED <<platform, aborted, worker, on, toWorker, active, walk, turns, engine, toClient>>
  BY DEF AskInTurn, Unasked
<1>2. queue \in [Lanes -> Seq(Exclusive)] /\ k \in Lanes
  /\ toClient \in [Workers -> Seq([r : Requests, how : Outcomes])]
  /\ stage \in [Requests -> Stages]
  BY TypeFacts, ConstantFacts DEF LaneInv
<1>3. r \notin Range(queue[k]) BY <1>1, <1>2, QueueFacts
<1>4. /\ queue'[k] = Append(queue[k], r) /\ queue'[k] \in Seq(Exclusive)
      /\ Range(queue'[k]) = Range(queue[k]) \cup {r} /\ Once(queue'[k])
  BY <1>1, <1>2, <1>3, QueueFacts, RangeOfAppend
<1>5. \A l \in Lanes : l # k => queue'[l] = queue[l] BY <1>1, <1>2
<1>6. queue' \in [Lanes -> Seq(Exclusive)] BY <1>1, <1>2, <1>4
<1>7. stage'[r] = "queued" /\ \A q \in Requests : q # r => stage'[q] = stage[q] BY <1>1, <1>2
<1>8. \A l \in Lanes :
        Once(queue'[l]) /\ \A q \in Range(queue'[l]) : stage'[q] = "queued" /\ LaneOf[q] = l
  <2>1. \A l \in Lanes :
          Once(queue[l]) /\ \A q \in Range(queue[l]) : stage'[q] = "queued" /\ LaneOf[q] = l
    BY <1>1, <1>7, QueueFacts
  <2>2. Once(queue'[k]) /\ \A q \in Range(queue'[k]) : stage'[q] = "queued" /\ LaneOf[q] = k
    BY <1>4, <1>7, <2>1, <1>2
  <2>3. \A l \in Lanes : l # k => queue'[l] = queue[l] BY <1>5
  <2> QED BY <2>1, <2>2, <2>3
<1>9. \A w \in Workers : Answers(w)' \subseteq Answers(w) BY <1>1 DEF Answers
<1>10. \A w \in Workers : r \notin Mailbox(w) BY <1>1, FreshIsNowhere
<1> QED BY <1>1, <1>2, <1>6, <1>8, <1>9, <1>10, StageGoesOn

LEMMA BeginQueuedGoesOn ==
  ASSUME LaneInv, NEW l \in Lanes, BeginQueued(l) PROVE LaneInv'
<1> DEFINE r == Head(queue[l])
<1>1. /\ queue[l] # <<>> /\ TurnIsOver(l) /\ queue' = [queue EXCEPT ![l] = Tail(@)]
      /\ UNCHANGED <<platform, aborted, toClient, active, walk, turns, engine>>
  BY DEF BeginQueued
<1>2. /\ queue \in [Lanes -> Seq(Exclusive)] /\ stage \in [Requests -> Stages]
      /\ toClient \in [Workers -> Seq([r : Requests, how : Outcomes])]
  BY TypeFacts DEF LaneInv
<1>3. /\ r \in Range(queue[l]) /\ r \notin Range(Tail(queue[l]))
      /\ Range(Tail(queue[l])) \subseteq Range(queue[l]) /\ Once(Tail(queue[l]))
      /\ Tail(queue[l]) \in Seq(Exclusive)
  BY <1>1, QueueFacts, RangeOfTail
<1>4. r \in Requests /\ r \in Exclusive /\ stage[r] = "queued" /\ LaneOf[r] = l
  BY <1>3, QueueFacts
<1> HIDE DEF r
<1>5. queue'[l] = Tail(queue[l]) /\ \A k \in Lanes : k # l => queue'[k] = queue[k]
  BY <1>1, <1>2
<1>6. queue' \in [Lanes -> Seq(Exclusive)] BY <1>1, <1>2, <1>3
<1>7. \A k \in Lanes : Once(queue'[k]) /\ Range(queue'[k]) \subseteq Range(queue[k]) \ {r}
  BY <1>3, <1>4, <1>5, QueueFacts
<1>8. CASE r \in aborted
  <2>1. /\ stage' = [stage EXCEPT ![r] = "cancelled"]
        /\ UNCHANGED <<worker, on, toWorker>>
    BY <1>8 DEF BeginQueued, r
  <2>2. \A q \in Requests : q # r => stage'[q] = stage[q] BY <2>1, <1>2
  <2>3. \A k \in Lanes : \A q \in Range(queue'[k]) : stage'[q] = "queued" /\ LaneOf[q] = k
    BY <2>2, <1>7, QueueFacts
  <2>4. \A w \in Workers : Answers(w)' \subseteq Answers(w) BY <1>1 DEF Answers
  <2>5. \A w \in Workers : r \notin Mailbox(w) BY <1>4, FreshIsNowhere
  <2>6. "cancelled" \in Outcomes /\ "cancelled" # "queued" BY DEF Outcomes
  <2>7. toClient' \in [Workers -> Seq([r : Requests, how : Outcomes])] BY <1>1, <1>2
  <2> QED BY <1>1, <1>4, <1>6, <1>7, <2>1, <2>3, <2>4, <2>5, <2>6, <2>7, StageGoesOn
<1>9. CASE r \notin aborted
  <2>1. Sent(r) BY <1>9 DEF BeginQueued, r
  <2> QED BY <1>1, <1>4, <1>6, <1>7, <1>9, <2>1, SentGoesOn DEF Fresh
<1> QED BY <1>8, <1>9

LEMMA PendingIsBacked ==
  ASSUME LaneInv, NEW r \in Requests, stage[r] = "sent"
  PROVE  LaneOf[r] \in Lanes /\ worker[LaneOf[r]] # 0 /\ StoppedFor(LaneOf[r], r)
  BY ConstantFacts DEF LaneInv, WorkersInv, OnItsWorker, StoppedFor, Pending

LEMMA AbortGoesOn ==
  ASSUME LaneInv, NEW r \in Requests, Abort(r) PROVE LaneInv'
<1>1. /\ stage[r] \in {"queued", "sent"} /\ aborted' = aborted \cup {r}
      /\ UNCHANGED <<platform, queue, on>>
  BY DEF Abort
<1>2. /\ aborted' \subseteq Requests /\ \A q \in aborted' : q \in aborted \/ stage[q] # "idle"
  BY <1>1, TypeFacts DEF LaneInv
<1>3. CASE stage[r] = "sent"
  <2>1. StopWorker(LaneOf[r], r, "cancelled") BY <1>3 DEF Abort
  <2>2. "cancelled" \in Outcomes BY DEF Outcomes
  <2> QED BY <1>1, <1>2, <1>3, <2>1, <2>2, PendingIsBacked, StopGoesOn
<1>4. CASE stage[r] # "sent"
  <2>1. UNCHANGED <<platform, queue, on, stage, worker, toWorker, toClient, active, walk,
               turns, engine>>
    BY <1>1, <1>4 DEF Abort
  <2>2. /\ LaneTypeOK /\ WorkersInv /\ QueueInv /\ MailInv /\ HostInv /\ AnswersInv
        /\ WalkInv
    BY DEF LaneInv
  <2>3. LaneTypeOK' BY <2>1, <2>2, <1>2 DEF LaneTypeOK
  <2>4. QueueInv' BY <2>1, <2>2, <1>2 DEF QueueInv
  <2>5. MailInv' /\ AnswersInv' BY <2>1, <2>2 DEF MailInv, Mailbox, Answers, AnswersInv, Fresh
  <2>6. WorkersInv' /\ HostInv' BY <2>1, <2>2 DEF WorkersInv, HostInv, OnItsWorker, Fresh
  <2>7. WalkInv' BY <2>1, <2>2 DEF WalkInv, Fresh
  <2> QED BY <2>3, <2>4, <2>5, <2>6, <2>7 DEF LaneInv
<1> QED BY <1>3, <1>4

LEMMA TimeoutGoesOn ==
  ASSUME LaneInv, NEW r \in Requests, Timeout(r) PROVE LaneInv'
<1>1. stage[r] = "sent" /\ StopWorker(LaneOf[r], r, "failed")
      /\ UNCHANGED <<platform, queue, on>> /\ aborted' = aborted
  BY DEF Timeout
<1>2. "failed" \in Outcomes /\ aborted \subseteq Requests BY TypeFacts DEF Outcomes, LaneInv
<1> QED BY <1>1, <1>2, PendingIsBacked, StopGoesOn

LEMMA CrashGoesOn ==
  ASSUME LaneInv, NEW l \in Lanes, Crash(l) PROVE LaneInv'
<1>1. Pending(l) # {} /\ StopWorker(l, None, "failed")
      /\ UNCHANGED <<platform, queue, on>> /\ aborted' = aborted
  BY DEF Crash
<1>2. "failed" \in Outcomes /\ aborted \subseteq Requests BY TypeFacts DEF Outcomes, LaneInv
<1>3. worker[l] # 0 BY <1>1, PendingIsBacked DEF Pending
<1>4. StoppedFor(l, None) BY DEF StoppedFor
<1> QED BY <1>1, <1>2, <1>3, <1>4, StopGoesOn

LEMMA ReceiveGoesOn ==
  ASSUME LaneInv, NEW w \in Workers, Receive(w) PROVE LaneInv'
<1> DEFINE m == Head(toClient[w])
<1>1. /\ toClient[w] # <<>> /\ toClient' = [toClient EXCEPT ![w] = Tail(@)]
      /\ stage' = IF stage[m.r] = "sent" THEN [stage EXCEPT ![m.r] = m.how] ELSE stage
      /\ UNCHANGED <<platform, queue, aborted, worker, on, toWorker, active, walk, turns, engine>>
  BY DEF Receive
<1>2. /\ toClient \in [Workers -> Seq([r : Requests, how : Outcomes])]
      /\ queue \in [Lanes -> Seq(Exclusive)] /\ stage \in [Requests -> Stages]
  BY TypeFacts DEF LaneInv
<1>3. /\ m \in Answers(w) /\ Range(Tail(toClient[w])) \subseteq Answers(w)
      /\ m \in [r : Requests, how : Outcomes]
      /\ Tail(toClient[w]) \in Seq([r : Requests, how : Outcomes])
  <2> DEFINE M == [r : Requests, how : Outcomes]
             s == toClient[w]
  <2>1. s \in Seq(M) /\ s # <<>> BY <1>1, <1>2
  <2> HIDE DEF M, s
  <2>2. /\ Head(s) \in Range(s) /\ Range(Tail(s)) \subseteq Range(s)
        /\ Head(s) \in M /\ Tail(s) \in Seq(M)
    BY <2>1, RangeOfTail
  <2> QED BY <2>2 DEF Answers, M, s
<1> HIDE DEF m
<1>4. m.r \in Requests /\ m.how \in Outcomes BY <1>3
<1>5. stage[m.r] \notin {"idle", "queued"} BY <1>3 DEF LaneInv, AnswersInv, Fresh
<1>6. \A v \in Workers : m.r \notin Mailbox(v) BY <1>3 DEF LaneInv, MailInv
<1>7. /\ toClient' \in [Workers -> Seq([r : Requests, how : Outcomes])]
      /\ \A v \in Workers : Answers(v)' \subseteq Answers(v)
  <2>1. toClient'[w] = Tail(toClient[w]) /\ \A v \in Workers : v # w => toClient'[v] = toClient[v]
    BY <1>1, <1>2
  <2>2. toClient' \in [Workers -> Seq([r : Requests, how : Outcomes])] BY <1>1, <1>2, <1>3
  <2> QED BY <2>1, <2>2, <1>3 DEF Answers
<1>8. PICK o \in Outcomes : stage' = [stage EXCEPT ![m.r] = o]
  <2>1. CASE stage[m.r] = "sent" BY <2>1, <1>1, <1>4
  <2>2. CASE stage[m.r] # "sent"
    <3>1. stage[m.r] \in Outcomes BY <2>2, <1>2, <1>4, <1>5 DEF Stages
    <3>2. stage' = [stage EXCEPT ![m.r] = stage[m.r]] BY <2>2, <1>1, <1>2, <1>4
    <3> QED BY <3>1, <3>2
  <2> QED BY <2>1, <2>2
<1>9. o \in {"queued"} \cup Outcomes /\ o # "queued" BY DEF Outcomes
<1>10. \A q \in Requests : q # m.r => stage'[q] = stage[q] BY <1>8, <1>2
<1>11. \A l \in Lanes : Once(queue'[l])
         /\ \A q \in Range(queue'[l]) : stage'[q] = "queued" /\ LaneOf[q] = l
  BY <1>1, <1>5, <1>10, QueueFacts
<1> QED BY <1>1, <1>2, <1>4, <1>6, <1>7, <1>8, <1>9, <1>11, StageGoesOn

-----------------------------------------------------------------------------
(* The worker's side: what a step of the host, or of the walk of one       *)
(* question, leaves alone.                                                 *)

LEMMA SameStages ==
  ASSUME LaneInv, UNCHANGED <<stage, queue, aborted, worker, on>>
  PROVE  /\ WorkersInv' /\ QueueInv'
         /\ \A r \in Requests : Fresh(r)' = Fresh(r) /\ OnItsWorker(r)' = OnItsWorker(r)
  BY DEF LaneInv, WorkersInv, QueueInv, OnItsWorker, Fresh

LEMMA WalkerGoesOn ==
  ASSUME LaneInv, NEW r \in Requests, walk[r].state # "none",
         UNCHANGED <<platform, stage, queue, aborted, worker, on, toWorker>>,
         active' \in [Workers -> Requests \cup {None}],
         \A w \in Workers : active'[w] \in {active[w], None},
         toClient' \in [Workers -> Seq([r : Requests, how : Outcomes])],
         \A w \in Workers : \A m \in Answers(w)' :
           m \in Answers(w) \/ (m.r = r /\ m.how # "cancelled"),
         walk' \in [Requests -> [at : Nat, state : WalkStates]],
         \A q \in Requests : q # r => walk'[q] = walk[q],
         walk'[r] = Idle \/ (walk'[r].at \in 1..Len(Walk[r]) /\ walk'[r].state # "none"),
         turns' \in [Engines -> Seq(Requests)], engine' \in [Engines -> EngineStates]
  PROVE  LaneInv'
<1>0. /\ LaneTypeOK /\ WorkersInv /\ QueueInv /\ MailInv /\ HostInv /\ AnswersInv /\ WalkInv
  BY DEF LaneInv
<1>1. LaneTypeOK'
  <2>1. \A q \in Requests :
          walk'[q] = Idle \/ (walk'[q].at \in 1..Len(Walk[q]) /\ walk'[q].state # "none")
    BY <1>0 DEF LaneTypeOK
  <2> QED BY <2>1, <1>0 DEF LaneTypeOK
<1>2. /\ WorkersInv' /\ QueueInv'
      /\ \A q \in Requests : Fresh(q)' = Fresh(q) /\ OnItsWorker(q)' = OnItsWorker(q)
  BY SameStages
<1>3. ~Fresh(r) /\ on[r] # 0 BY <1>0 DEF WalkInv
<1>4. \A w \in Workers : r \notin Mailbox(w) BY <1>0 DEF MailInv
<1>5. MailInv'
  <2>1. \A w \in Workers : Mailbox(w)' = Mailbox(w) /\ Once(toWorker'[w])
    BY <1>0 DEF Mailbox, MailInv
  <2>2. ASSUME NEW w \in Workers, NEW q \in Mailbox(w)
        PROVE  stage'[q] = "sent" /\ on'[q] = w /\ walk'[q].state = "none"
    <3>1. q \in Requests /\ q # r BY <1>4, <1>0, MailFacts
    <3> QED BY <3>1, <1>0 DEF MailInv
  <2>3. ASSUME NEW w \in Workers, NEW q \in Mailbox(w), NEW v \in Workers
        PROVE  active'[v] # q /\ \A m \in Answers(v)' : m.r # q
    <3>1. q \in Requests /\ q # r /\ q # None BY <1>4, <1>0, MailFacts, ConstantFacts
    <3>2. active[v] # q /\ \A m \in Answers(v) : m.r # q BY <1>0 DEF MailInv
    <3>3. active'[v] # q BY <3>1, <3>2
    <3>4. ASSUME NEW m \in Answers(v)' PROVE m.r # q BY <3>1, <3>2
    <3> QED BY <3>3, <3>4
  <2> QED BY <2>1, <2>2, <2>3 DEF MailInv
<1>6. HostInv'
  <2>1. SUFFICES ASSUME NEW w \in Workers, active'[w] # None
                 PROVE  ~Fresh(active[w])' /\ OnItsWorker(active[w])' /\ on'[active'[w]] = w
    BY DEF HostInv
  <2>2. active'[w] = active[w] /\ active[w] # None BY <2>1
  <2>3. ~Fresh(active[w]) /\ OnItsWorker(active[w]) /\ on[active[w]] = w
    BY <2>2, <1>0 DEF HostInv
  <2> QED BY <2>2, <2>3 DEF Fresh, OnItsWorker
<1>7. AnswersInv'
  <2>1. ASSUME NEW w \in Workers, NEW m \in Answers(w)'
        PROVE  /\ ~Fresh(m.r)'
               /\ m.how = "cancelled" /\ stage'[m.r] = "sent" => ~Service!Orderly(LaneOf[m.r])
    <3>1. CASE m \in Answers(w)
      <4>1. m.r \in Requests BY <3>1, <1>0, MailFacts
      <4> QED BY <3>1, <4>1, <1>0, <1>2 DEF AnswersInv
    <3>2. CASE m.r = r /\ m.how # "cancelled" BY <3>2, <1>2, <1>3
    <3> QED BY <3>1, <3>2
  <2> QED BY <2>1 DEF AnswersInv
<1>8. ASSUME NEW q \in Requests, walk'[q].state # "none" PROVE ~Fresh(q)' /\ on'[q] # 0
  <2>1. walk[q].state # "none" BY <1>8
  <2> QED BY <2>1, <1>0, <1>2 DEF WalkInv
<1> QED BY <1>1, <1>2, <1>5, <1>6, <1>7, <1>8 DEF LaneInv, WalkInv

LEMMA PostedFacts ==
  ASSUME LaneTypeOK, NEW w \in Workers, NEW r \in Requests, NEW how \in Outcomes
  PROVE  /\ Posted(w, r, how) \in [Workers -> Seq([r : Requests, how : Outcomes])]
         /\ Range(Posted(w, r, how)[w]) = Answers(w) \cup {[r |-> r, how |-> how]}
         /\ \A v \in Workers : v # w => Posted(w, r, how)[v] = toClient[v]
<1> DEFINE M == [r : Requests, how : Outcomes]
           m == [r |-> r, how |-> how]
<1>1. toClient \in [Workers -> Seq(M)] /\ m \in M BY TypeFacts
<1>2. Posted(w, r, how) = [toClient EXCEPT ![w] = Append(@, m)] BY DEF Posted
<1> HIDE DEF M, m
<1>3. toClient[w] \in Seq(M) BY <1>1
<1>4. Append(toClient[w], m) \in Seq(M) /\ Range(Append(toClient[w], m)) = Range(toClient[w]) \cup {m}
  BY <1>1, <1>3, RangeOfAppend
<1>5. /\ Posted(w, r, how) \in [Workers -> Seq(M)] /\ Posted(w, r, how)[w] = Append(toClient[w], m)
      /\ \A v \in Workers : v # w => Posted(w, r, how)[v] = toClient[v]
  BY <1>1, <1>2, <1>4
<1> QED BY <1>4, <1>5 DEF Answers, M, m

LEMMA AnswersGoOut ==
  ASSUME LaneInv, NEW r \in Requests, on[r] # 0, NEW how \in Outcomes, how # "cancelled",
         active' = [active EXCEPT ![on[r]] = None], toClient' = Posted(on[r], r, how)
  PROVE  /\ active' \in [Workers -> Requests \cup {None}]
         /\ \A w \in Workers : active'[w] \in {active[w], None}
         /\ toClient' \in [Workers -> Seq([r : Requests, how : Outcomes])]
         /\ \A w \in Workers : \A m \in Answers(w)' :
              m \in Answers(w) \/ (m.r = r /\ m.how # "cancelled")
<1>t. LaneTypeOK /\ active \in [Workers -> Requests \cup {None}] /\ on \in [Requests -> 0..MaxWorkers]
  BY TypeFacts DEF LaneInv
<1>1. on[r] \in Workers BY <1>t DEF Workers
<1>2. /\ toClient' \in [Workers -> Seq([r : Requests, how : Outcomes])]
      /\ Range(toClient'[on[r]]) = Answers(on[r]) \cup {[r |-> r, how |-> how]}
      /\ \A v \in Workers : v # on[r] => toClient'[v] = toClient[v]
  BY <1>1, <1>t, PostedFacts
<1>3. \A w \in Workers : \A m \in Answers(w)' : m \in Answers(w) \/ m = [r |-> r, how |-> how]
  BY <1>2 DEF Answers
<1>4. [r |-> r, how |-> how].r = r /\ [r |-> r, how |-> how].how = how OBVIOUS
<1>5. \A w \in Workers : \A m \in Answers(w)' :
        m \in Answers(w) \/ (m.r = r /\ m.how # "cancelled")
  BY <1>3, <1>4
<1>6. active' \in [Workers -> Requests \cup {None}] /\ \A w \in Workers : active'[w] \in {active[w], None}
  BY <1>t, <1>1
<1> QED BY <1>2, <1>5, <1>6

LEMMA NothingGoesOut ==
  ASSUME LaneInv, NEW r \in Requests, UNCHANGED <<active, toClient>>
  PROVE  /\ active' \in [Workers -> Requests \cup {None}]
         /\ \A w \in Workers : active'[w] \in {active[w], None}
         /\ toClient' \in [Workers -> Seq([r : Requests, how : Outcomes])]
         /\ \A w \in Workers : \A m \in Answers(w)' :
              m \in Answers(w) \/ (m.r = r /\ m.how # "cancelled")
  BY TypeFacts DEF LaneInv, Answers

LEMMA WalkFacts ==
  ASSUME LaneInv, NEW r \in Requests, walk[r].state # "none"
  PROVE  /\ on[r] # 0 /\ on[r] \in Workers /\ EngineOf(on[r]) \in Engines
         /\ walk[r].at \in 1..Len(Walk[r])
         /\ walk[r] \in [at : Nat, state : WalkStates]
         /\ engine[EngineOf(on[r])] \in EngineStates
<1>1. LaneTypeOK /\ WalkInv BY DEF LaneInv
<1>2. on[r] # 0 /\ on[r] \in Workers BY <1>1, TypeFacts DEF WalkInv, Workers
<1>3. EngineOf(on[r]) \in Engines BY <1>2, ConstantFacts
<1>4. walk[r].at \in 1..Len(Walk[r]) BY <1>1 DEF LaneTypeOK, Idle
<1>5. walk[r] \in [at : Nat, state : WalkStates] /\ engine[EngineOf(on[r])] \in EngineStates
  BY <1>1, <1>3, TypeFacts
<1> QED BY <1>2, <1>3, <1>4, <1>5

-----------------------------------------------------------------------------
(* The calls of the engine: what each does to it.                          *)

LEMMA HistoryWithFacts ==
  ASSUME NEW e \in EngineStates, NEW h \in Seq(Positions), h # Unknown,
         NEW k \in Known(e, h)..Len(h)
  PROVE  /\ HistoryWith(e, h, k) \in Seq(Positions)
         /\ k = Len(h) /\ (Continues(e, h) => e.history = e.warmHistory) => HistoryWith(e, h, k) = h
<1>1. e.history \in Seq(Positions) /\ (e.warmHistory \in Seq(Positions) \/ e.warmHistory = Unknown)
  BY DEF EngineStates
<1>2. Len(h) \in Nat /\ \A i \in 1..Len(h) : h[i] \in Positions BY LenProperties, ElementOfSeq
<1>3. CASE Continues(e, h)
  <2> DEFINE w == e.warmHistory
             more == SubSeq(h, Len(w) + 1, k)
  <2>1. /\ w \in Seq(Positions) /\ Len(w) \in Nat /\ Len(w) <= Len(h)
        /\ SubSeq(w, 1, Len(w)) = SubSeq(h, 1, Len(w))
    BY <1>1, <1>3, LenProperties DEF Continues, IsPrefix
  <2>2. Known(e, h) = Len(w) BY <1>3 DEF Known
  <2>3. k \in Nat /\ Len(w) <= k /\ k <= Len(h) BY <2>1, <2>2, <1>2
  <2>4. HistoryWith(e, h, k) = e.history \o more BY <1>3 DEF HistoryWith
  <2> HIDE DEF w
  <2>5. more \in Seq(Positions)
    <3>1. \A i \in Len(w) + 1..k : h[i] \in Positions BY <2>1, <2>3, <1>2
    <3>2. Len(w) + 1 \in Int /\ k \in Int BY <2>1, <2>3
    <3> HIDE DEF more
    <3> QED BY <3>1, <3>2, SubSeqProperties DEF more
  <2>6. HistoryWith(e, h, k) \in Seq(Positions) BY <2>4, <2>5, <1>1, ConcatProperties
  <2>7. ASSUME k = Len(h), e.history = e.warmHistory PROVE HistoryWith(e, h, k) = h
    <3>1. w = SubSeq(h, 1, Len(w)) BY <2>1, SubSeqFull
    <3>2. 1 \in 1..Len(h) + 1 /\ Len(w) \in 1 - 1..Len(h) /\ Len(h) \in Len(w)..Len(h)
      BY <1>2, <2>1
    <3>3. SubSeq(h, 1, Len(w)) \o SubSeq(h, Len(w) + 1, Len(h)) = SubSeq(h, 1, Len(h))
      BY <3>2, ConcatAdjacentSubSeq
    <3>4. e.history = SubSeq(h, 1, Len(w)) BY <3>1, <2>7 DEF w
    <3> QED BY <3>3, <3>4, <2>4, <2>7, SubSeqFull
  <2> QED BY <2>6, <2>7, <1>3
<1>4. CASE ~Continues(e, h)
  <2>1. HistoryWith(e, h, k) = SubSeq(h, 1, k) BY <1>4 DEF HistoryWith
  <2>2. k \in 0..Len(h) BY <1>4, <1>2 DEF Known
  <2>3. SubSeq(h, 1, k) \in Seq(Positions)
    <3>1. \A i \in 1..k : h[i] \in Positions BY <2>2, <1>2
    <3>2. 1 \in Int /\ k \in Int BY <2>2
    <3> QED BY <3>1, <3>2, SubSeqProperties
  <2> QED BY <2>1, <2>3, SubSeqFull
<1> QED BY <1>3, <1>4

\* Of the engine a walk has called for and of what the walk searches.
LEMMA InHandFacts ==
  ASSUME LaneInv, NEW r \in Requests, InHand(r), NEW n, n = EngineOf(on[r])
  PROVE  /\ n \in Engines /\ on[r] # 0 /\ on[r] \in Workers /\ engine[n] \in EngineStates
         /\ SearchOf(r).history \in Seq(Positions) /\ SearchOf(r).history # Unknown
         /\ SearchOf(r).current \in Positions /\ LineOf(SearchOf(r)) \in Seq(Positions)
         /\ IsPrefix(LineOf(SearchOf(r)), LineOf(SearchOf(r)))
         /\ turns[n] \in Seq(Requests)
         /\ engine \in [Engines -> EngineStates] /\ turns \in [Engines -> Seq(Requests)]
         /\ walk \in [Requests -> [at : Nat, state : WalkStates]]
         /\ walk[r].at \in 1..Len(Walk[r])
<1>1. walk[r].state # "none" BY DEF InHand
<1>2. /\ n \in Engines /\ on[r] # 0 /\ on[r] \in Workers /\ engine[n] \in EngineStates
      /\ walk[r].at \in 1..Len(Walk[r])
  BY <1>1, WalkFacts
<1>3. /\ SearchOf(r).history \in Seq(Positions) /\ SearchOf(r).history # Unknown
      /\ SearchOf(r).current \in Positions /\ LineOf(SearchOf(r)) \in Seq(Positions)
      /\ IsPrefix(LineOf(SearchOf(r)), LineOf(SearchOf(r)))
  BY <1>2, SearchFacts DEF SearchOf
<1>4. /\ engine \in [Engines -> EngineStates] /\ turns \in [Engines -> Seq(Requests)]
      /\ walk \in [Requests -> [at : Nat, state : WalkStates]]
  BY TypeFacts DEF LaneInv
<1> QED BY <1>2, <1>3, <1>4

\* The engine n as r has had it made to stand, with k positions of r's history.
MadeBy(r, n, k) ==
  /\ MadeToStand(n, SearchOf(r), k) \in EngineStates
  /\ MadeToStand(n, SearchOf(r), k).table = TableKept(engine[n], SearchOf(r))
  /\ MadeToStand(n, SearchOf(r), k).history = HistoryWith(engine[n], SearchOf(r).history, k)
  /\ MadeToStand(n, SearchOf(r), k).mixed <=> StillMixed(n, SearchOf(r))
  /\ MadeToStand(n, SearchOf(r), k).module = engine[n].module
  /\ MadeToStand(n, SearchOf(r), k).warmHistory = engine[n].warmHistory
  /\ MadeToStand(n, SearchOf(r), k).warmSearch = engine[n].warmSearch
  /\ MadeToStand(n, SearchOf(r), k).spoiled = engine[n].spoiled

LEMMA MadeFacts ==
  ASSUME LaneInv, NEW r \in Requests, InHand(r), NEW n, n = EngineOf(on[r]),
         NEW k \in Known(engine[n], SearchOf(r).history)..Len(SearchOf(r).history)
  PROVE  MadeBy(r, n, k)
<1> DEFINE e == engine[n]
           T == TableKept(e, SearchOf(r))
           H == HistoryWith(e, SearchOf(r).history, k)
           M == StillMixed(n, SearchOf(r))
           made == [e EXCEPT !.table = T, !.history = H, !.mixed = M]
<1>1. e \in EngineStates BY InHandFacts
<1>2. T \in SUBSET Seq(Positions) BY <1>1 DEF TableKept, EngineStates
<1>3. H \in Seq(Positions) BY InHandFacts, HistoryWithFacts
<1>4. M \in BOOLEAN BY <1>1 DEF StillMixed, EngineStates
<1>5. MadeToStand(n, SearchOf(r), k) = made BY DEF MadeToStand
<1> HIDE DEF T, H, M, e
<1>6. made \in EngineStates BY <1>1, <1>2, <1>3, <1>4 DEF EngineStates
<1>7. made.table = T /\ made.history = H BY <1>1 DEF EngineStates
<1>8. made.mixed = M BY <1>1 DEF EngineStates
<1>9. made.module = e.module /\ made.warmHistory = e.warmHistory /\ made.warmSearch = e.warmSearch
  BY <1>1 DEF EngineStates
<1>10. made.spoiled = e.spoiled BY <1>1 DEF EngineStates
<1> QED BY <1>5, <1>6, <1>7, <1>8, <1>9, <1>10 DEF MadeBy, T, H, M, e

\* What standOn for r, on engine n, leaves.
StoodBy(r, n) ==
  /\ walk[r].state = "asking" /\ HasTurn(r) /\ engine[n].module # "failed"
  /\ UNCHANGED <<platform, stage, queue, aborted, worker, on, toWorker, toClient, active>>
  /\ walk' = [walk EXCEPT ![r].state = "standing"]
  /\ turns' = IF Locked THEN turns ELSE [turns EXCEPT ![n] = Append(Tail(@), r)]
  /\ engine' \in [Engines -> EngineStates]
  /\ \A p \in Engines : p # n => engine'[p] = engine[p]
  /\ engine'[n].module = engine[n].module
  /\ engine'[n].table = TableKept(engine[n], SearchOf(r))
  /\ engine'[n].history =
       HistoryWith(engine[n], SearchOf(r).history, Len(SearchOf(r).history))
  /\ engine'[n].warmHistory = SearchOf(r).history
  /\ engine'[n].warmSearch = LineOf(SearchOf(r))
  /\ engine'[n].mixed <=> StillMixed(n, SearchOf(r))
  /\ engine'[n].spoiled <=> engine[n].spoiled /\ Continues(engine[n], SearchOf(r).history)

LEMMA WholeHistory ==
  ASSUME LaneInv, NEW r \in Requests, InHand(r), NEW n, n = EngineOf(on[r])
  PROVE  /\ Len(SearchOf(r).history) \in Nat
         /\ Known(engine[n], SearchOf(r).history) \in 0..Len(SearchOf(r).history)
<1> DEFINE h == SearchOf(r).history
           e == engine[n]
<1>1. h \in Seq(Positions) /\ e \in EngineStates BY InHandFacts
<1>2. Len(h) \in Nat BY <1>1, LenProperties
<1>3. ASSUME Continues(e, h) PROVE Len(e.warmHistory) \in 0..Len(h)
  <2>1. e.warmHistory \in Seq(Positions) BY <1>1, <1>3 DEF Continues, EngineStates
  <2> QED BY <1>2, <1>3, <2>1, LenProperties DEF Continues, IsPrefix
<1> QED BY <1>2, <1>3 DEF Known

LEMMA StandOnEffects ==
  ASSUME LaneInv, NEW r \in Requests, StandOn(r), NEW n, n = EngineOf(on[r])
  PROVE  StoodBy(r, n)
<1> DEFINE e == engine[n]
           h == SearchOf(r).history
           made == MadeToStand(n, SearchOf(r), Len(h))
           S == e.spoiled /\ Continues(e, h)
           stood == [made EXCEPT !.warmHistory = h, !.warmSearch = LineOf(SearchOf(r)),
                                 !.spoiled = @ /\ Continues(e, h)]
<1>1. /\ walk[r].state = "asking" /\ HasTurn(r) /\ e.module # "failed"
      /\ UNCHANGED <<platform, stage, queue, aborted, worker, on, toWorker, toClient, active>>
      /\ walk' = [walk EXCEPT ![r].state = "standing"]
      /\ turns' = IF Locked THEN turns ELSE [turns EXCEPT ![n] = Append(Tail(@), r)]
      /\ engine' = [engine EXCEPT ![n] = stood]
  BY DEF StandOn
<1>2. InHand(r) BY <1>1 DEF InHand
<1>3. /\ n \in Engines /\ e \in EngineStates /\ engine \in [Engines -> EngineStates]
      /\ h \in Seq(Positions) /\ LineOf(SearchOf(r)) \in Seq(Positions)
  BY <1>2, InHandFacts
<1>4. MadeBy(r, n, Len(h))
  <2>1. Len(h) \in Known(e, h)..Len(h) BY <1>2, WholeHistory
  <2> QED BY <2>1, <1>2, MadeFacts
<1>5. /\ made \in EngineStates /\ made.module = e.module /\ made.spoiled = e.spoiled
      /\ made.table = TableKept(e, SearchOf(r))
      /\ made.history = HistoryWith(e, h, Len(h))
      /\ made.mixed <=> StillMixed(n, SearchOf(r))
  BY <1>4 DEF MadeBy
<1>6. S \in BOOLEAN OBVIOUS
<1>7. stood = [made EXCEPT !.warmHistory = h, !.warmSearch = LineOf(SearchOf(r)), !.spoiled = S]
  BY <1>5 DEF EngineStates
<1> DEFINE l == LineOf(SearchOf(r))
<1>8. /\ stood \in EngineStates /\ stood.module = made.module /\ stood.table = made.table
      /\ stood.history = made.history /\ stood.warmHistory = h /\ stood.warmSearch = l
  <2> HIDE DEF made, S, l, h
  <2>1. stood = [made EXCEPT !.warmHistory = h, !.warmSearch = l, !.spoiled = S] BY <1>7 DEF l
  <2>2. l \in Seq(Positions) /\ h \in Seq(Positions) /\ made \in EngineStates /\ S \in BOOLEAN
    BY <1>3, <1>5, <1>6 DEF l
  <2> HIDE DEF stood
  <2> QED BY <2>1, <2>2 DEF EngineStates
<1>9. stood.mixed = made.mixed
  <2> HIDE DEF made, S, l, h
  <2> QED BY <1>5 DEF EngineStates
<1>10. stood.spoiled = S
  <2> HIDE DEF made, S, l, h, stood
  <2> QED BY <1>5, <1>7 DEF EngineStates
<1> HIDE DEF stood
<1>11. /\ engine'[n] = stood /\ engine' \in [Engines -> EngineStates]
       /\ \A p \in Engines : p # n => engine'[p] = engine[p]
  BY <1>1, <1>3, <1>8
<1>12. engine'[n].mixed <=> StillMixed(n, SearchOf(r)) BY <1>5, <1>9, <1>11
<1>13. engine'[n].spoiled <=> e.spoiled /\ Continues(e, h) BY <1>10, <1>11
<1> QED BY <1>1, <1>5, <1>8, <1>11, <1>12, <1>13 DEF StoodBy

\* A walk gives its turn up, with an answer, an error or nothing to say.
Leaves(r) == HistoryRefused(r) \/ CallFails(r) \/ Search(r) \/ SearchFails(r)

\* What it leaves of the engine n it had a turn with.
EngineLeft(r, n) ==
  /\ engine' \in [Engines -> EngineStates]
  /\ \A p \in Engines : p # n => engine'[p] = engine[p]
  /\ engine'[n].module = engine[n].module
  /\ engine'[n].warmHistory = engine[n].warmHistory
  /\ engine'[n].warmSearch = engine[n].warmSearch
  /\ ~engine'[n].spoiled => ~engine[n].spoiled /\ engine'[n].history = engine[n].history
  /\ engine'[n].table \subseteq engine[n].table
       \/ (Stands(r) /\ engine'[n].table = engine[n].table \cup {LineOf(SearchOf(r))})
  /\ ~engine'[n].mixed => ~engine[n].mixed \/ (engine'[n].table = {} /\ Len(turns[n]) < 2)

LEMMA RefusalEffects ==
  ASSUME LaneInv, NEW r \in Requests, HistoryRefused(r), NEW n, n = EngineOf(on[r])
  PROVE  EngineLeft(r, n)
<1> DEFINE h == SearchOf(r).history
<1>1. PICK k \in Known(engine[n], h)..Len(h) - 1 :
        engine' = [engine EXCEPT ![n] = [MadeToStand(n, SearchOf(r), k) EXCEPT !.spoiled = TRUE]]
  BY DEF HistoryRefused
<1>2. InHand(r) BY DEF HistoryRefused, InHand
<1>3. n \in Engines /\ engine[n] \in EngineStates /\ engine \in [Engines -> EngineStates]
      /\ turns[n] \in Seq(Requests)
  BY <1>2, InHandFacts
<1>4. k \in Known(engine[n], h)..Len(h)
  <2>1. Len(h) \in Nat /\ Known(engine[n], h) \in 0..Len(h) BY <1>2, WholeHistory
  <2> QED BY <2>1
<1> DEFINE made == MadeToStand(n, SearchOf(r), k)
           refused == [made EXCEPT !.spoiled = TRUE]
<1>5. MadeBy(r, n, k) BY <1>2, <1>4, MadeFacts
<1>6. /\ made \in EngineStates /\ made.table = TableKept(engine[n], SearchOf(r))
      /\ made.module = engine[n].module /\ made.warmHistory = engine[n].warmHistory
      /\ made.warmSearch = engine[n].warmSearch /\ (made.mixed <=> StillMixed(n, SearchOf(r)))
  BY <1>5 DEF MadeBy
<1>7. engine' = [engine EXCEPT ![n] = refused] BY <1>1
<1> HIDE DEF made
<1>8. /\ refused \in EngineStates /\ refused.table = made.table /\ refused.module = made.module
      /\ refused.warmHistory = made.warmHistory /\ refused.warmSearch = made.warmSearch
  BY <1>6 DEF EngineStates
<1>9. refused.mixed = made.mixed BY <1>6 DEF EngineStates
<1>10. refused.spoiled = TRUE BY <1>6 DEF EngineStates
<1> HIDE DEF refused
<1>11. /\ engine'[n] = refused /\ engine' \in [Engines -> EngineStates]
       /\ \A p \in Engines : p # n => engine'[p] = engine[p]
  BY <1>3, <1>7, <1>8
<1>12. engine'[n].spoiled BY <1>10, <1>11
<1>13. engine'[n].table \subseteq engine[n].table BY <1>6, <1>8, <1>11 DEF TableKept
<1>14. ASSUME ~engine'[n].mixed, engine[n].mixed
       PROVE  engine'[n].table = {} /\ Len(turns[n]) < 2
  <2>1. ~StillMixed(n, SearchOf(r)) BY <1>6, <1>9, <1>11, <1>14
  <2>2. engine[n].warmSearch \notin {SearchOf(r).history, LineOf(SearchOf(r))}
        /\ ~(Len(turns[n]) > 1)
    BY <2>1, <1>14 DEF StillMixed
  <2>3. Len(turns[n]) \in Nat BY <1>3, LenProperties
  <2> QED BY <2>2, <2>3, <1>6, <1>8, <1>11 DEF TableKept
<1> QED BY <1>6, <1>8, <1>11, <1>12, <1>13, <1>14 DEF EngineLeft

\* The engine with another table is an engine, the same in all else.
LEMMA TableFacts ==
  ASSUME LaneInv, NEW n \in Engines, NEW table \in SUBSET Seq(Positions),
         engine' = [engine EXCEPT ![n].table = table]
  PROVE  /\ engine' \in [Engines -> EngineStates]
         /\ \A p \in Engines : p # n => engine'[p] = engine[p]
         /\ engine'[n].table = table
         /\ engine'[n].module = engine[n].module
         /\ engine'[n].warmHistory = engine[n].warmHistory
         /\ engine'[n].warmSearch = engine[n].warmSearch
         /\ engine'[n].history = engine[n].history
         /\ engine'[n].spoiled <=> engine[n].spoiled
         /\ engine'[n].mixed <=> engine[n].mixed
<1> DEFINE e == engine[n]
           next == [e EXCEPT !.table = table]
<1>1. engine \in [Engines -> EngineStates] /\ e \in EngineStates BY TypeFacts DEF LaneInv
<1>2. engine' = [engine EXCEPT ![n] = next] BY <1>1
<1> HIDE DEF e
<1>3. /\ next \in EngineStates /\ next.table = table /\ next.module = e.module
      /\ next.warmHistory = e.warmHistory /\ next.warmSearch = e.warmSearch
      /\ next.history = e.history
  BY <1>1 DEF EngineStates
<1>4. next.spoiled = e.spoiled BY <1>1 DEF EngineStates
<1>5. next.mixed = e.mixed BY <1>1 DEF EngineStates
<1> HIDE DEF next
<1>6. /\ engine'[n] = next /\ engine' \in [Engines -> EngineStates]
      /\ \A p \in Engines : p # n => engine'[p] = engine[p]
  BY <1>1, <1>2, <1>3
<1> QED BY <1>3, <1>4, <1>5, <1>6 DEF e

LEMMA LeavingEffects ==
  ASSUME LaneInv, NEW r \in Requests, Leaves(r), NEW n, n = EngineOf(on[r])
  PROVE  EngineLeft(r, n)
<1>1. InHand(r) BY DEF Leaves, HistoryRefused, CallFails, Search, SearchFails, InHand
<1>2. /\ n \in Engines /\ engine[n] \in EngineStates /\ engine \in [Engines -> EngineStates]
      /\ LineOf(SearchOf(r)) \in Seq(Positions)
  BY <1>1, InHandFacts
<1>3. CASE HistoryRefused(r) BY <1>3, RefusalEffects
<1>4. CASE CallFails(r)
  <2>1. PICK table \in {engine[n].table, TableKept(engine[n], SearchOf(r))} :
          engine' = [engine EXCEPT ![n].table = table]
    BY <1>4 DEF CallFails
  <2>2. table \in SUBSET Seq(Positions) /\ table \subseteq engine[n].table
    BY <1>2 DEF TableKept, EngineStates
  <2>3. /\ engine' \in [Engines -> EngineStates]
        /\ \A p \in Engines : p # n => engine'[p] = engine[p]
        /\ engine'[n].table = table
        /\ engine'[n].module = engine[n].module
        /\ engine'[n].warmHistory = engine[n].warmHistory
        /\ engine'[n].warmSearch = engine[n].warmSearch
        /\ engine'[n].history = engine[n].history
        /\ engine'[n].spoiled <=> engine[n].spoiled
        /\ engine'[n].mixed <=> engine[n].mixed
    BY <1>2, <2>1, <2>2, TableFacts
  <2> QED BY <2>2, <2>3 DEF EngineLeft
<1>5. CASE Search(r)
  <2> DEFINE table == engine[n].table \cup {LineOf(SearchOf(r))}
  <2>1. Stands(r) /\ engine' = [engine EXCEPT ![n].table = table]
    BY <1>5, <1>2 DEF Search, Stands
  <2>2. table \in SUBSET Seq(Positions) BY <1>2 DEF EngineStates
  <2>3. engine'[n].table = table BY <1>2, <2>1, <2>2, TableFacts
  <2> HIDE DEF table
  <2>4. /\ engine' \in [Engines -> EngineStates]
        /\ \A p \in Engines : p # n => engine'[p] = engine[p]
        /\ engine'[n].module = engine[n].module
        /\ engine'[n].warmHistory = engine[n].warmHistory
        /\ engine'[n].warmSearch = engine[n].warmSearch
        /\ engine'[n].history = engine[n].history
        /\ engine'[n].spoiled <=> engine[n].spoiled
        /\ engine'[n].mixed <=> engine[n].mixed
    BY <1>2, <2>1, <2>2, TableFacts
  <2> QED BY <2>1, <2>3, <2>4 DEF EngineLeft, table
<1>6. CASE SearchFails(r)
  <2>1. engine' = engine BY <1>6 DEF SearchFails
  <2> QED BY <2>1, <1>2 DEF EngineLeft
<1> QED BY <1>3, <1>4, <1>5, <1>6 DEF Leaves

\* What it leaves of the rest.
TurnLeft(r, n) ==
  /\ InHand(r) /\ HasTurn(r)
  /\ UNCHANGED <<platform, stage, queue, aborted, worker, on, toWorker>>
  /\ turns' = [turns EXCEPT ![n] = Tail(@)]
  /\ walk' \in [Requests -> [at : Nat, state : WalkStates]]
  /\ \A q \in Requests : q # r => walk'[q] = walk[q]
  /\ walk'[r] = Idle \/ (walk'[r].at \in 1..Len(Walk[r]) /\ walk'[r].state = "yielded")
  /\ active' \in [Workers -> Requests \cup {None}]
  /\ \A w \in Workers : active'[w] \in {active[w], None}
  /\ toClient' \in [Workers -> Seq([r : Requests, how : Outcomes])]
  /\ \A w \in Workers : \A m \in Answers(w)' :
       m \in Answers(w) \/ (m.r = r /\ m.how # "cancelled")

LEMMA LeavingATurn ==
  ASSUME LaneInv, NEW r \in Requests, Leaves(r), NEW n, n = EngineOf(on[r])
  PROVE  TurnLeft(r, n)
<1>1. /\ InHand(r) /\ HasTurn(r)
      /\ UNCHANGED <<platform, stage, queue, aborted, worker, on, toWorker>>
      /\ turns' = [turns EXCEPT ![n] = Tail(@)]
      /\ Search(r) \/ Fails(r)
  BY DEF Leaves, HistoryRefused, CallFails, Search, SearchFails, InHand, Fails
<1>2. /\ walk \in [Requests -> [at : Nat, state : WalkStates]]
      /\ walk[r].at \in 1..Len(Walk[r]) /\ on[r] # 0
  BY <1>1, InHandFacts
<1>3. Idle \in [at : Nat, state : WalkStates] BY DEF Idle, WalkStates
<1>4. /\ walk' \in [Requests -> [at : Nat, state : WalkStates]]
      /\ \A q \in Requests : q # r => walk'[q] = walk[q]
      /\ walk'[r] = Idle \/ (walk'[r].at \in 1..Len(Walk[r]) /\ walk'[r].state = "yielded")
  <2>1. CASE walk' = [walk EXCEPT ![r] = Idle] BY <2>1, <1>2, <1>3
  <2>2. CASE ~LastSearch(r) /\ walk' = [walk EXCEPT ![r] = [at |-> @.at + 1, state |-> "yielded"]]
    <3>1. Len(Walk[r]) \in Nat BY WalkAssumption, LenProperties
    <3>2. walk[r].at + 1 \in 1..Len(Walk[r]) /\ walk[r].at + 1 \in Nat
      BY <3>1, <2>2, <1>2 DEF LastSearch
    <3> DEFINE next == walk[r].at + 1
    <3>3. walk' = [walk EXCEPT ![r] = [at |-> next, state |-> "yielded"]] BY <2>2, <1>2
    <3> HIDE DEF next
    <3>4. next \in Nat /\ next \in 1..Len(Walk[r]) BY <3>2 DEF next
    <3> QED BY <3>3, <3>4, <1>2 DEF WalkStates
  <2> QED BY <2>1, <2>2, <1>1 DEF Search, Fails
<1>5. /\ active' \in [Workers -> Requests \cup {None}]
      /\ \A w \in Workers : active'[w] \in {active[w], None}
      /\ toClient' \in [Workers -> Seq([r : Requests, how : Outcomes])]
      /\ \A w \in Workers : \A m \in Answers(w)' :
           m \in Answers(w) \/ (m.r = r /\ m.how # "cancelled")
  <2>1. CASE UNCHANGED <<active, toClient>> BY <2>1, NothingGoesOut
  <2>2. ASSUME NEW how \in Outcomes, how # "cancelled",
               active' = [active EXCEPT ![on[r]] = None], toClient' = Posted(on[r], r, how)
        PROVE  /\ active' \in [Workers -> Requests \cup {None}]
               /\ \A w \in Workers : active'[w] \in {active[w], None}
               /\ toClient' \in [Workers -> Seq([r : Requests, how : Outcomes])]
               /\ \A w \in Workers : \A m \in Answers(w)' :
                    m \in Answers(w) \/ (m.r = r /\ m.how # "cancelled")
    BY <2>2, <1>2, AnswersGoOut
  <2>3. "answered" \in Outcomes /\ "failed" \in Outcomes BY DEF Outcomes
  <2> QED BY <2>1, <2>2, <2>3, <1>1 DEF Search, Fails
<1> QED BY <1>1, <1>4, <1>5 DEF TurnLeft

LEMMA LeavingGoesOn ==
  ASSUME LaneInv, NEW r \in Requests, Leaves(r) PROVE LaneInv'
<1>n. PICK n : n = EngineOf(on[r]) OBVIOUS
<1>1. TurnLeft(r, n) BY <1>n, LeavingATurn
<1>2. engine' \in [Engines -> EngineStates] BY <1>n, LeavingEffects DEF EngineLeft
<1>3. turns' \in [Engines -> Seq(Requests)]
  <2>1. /\ turns \in [Engines -> Seq(Requests)] /\ n \in Engines /\ turns[n] \in Seq(Requests)
    BY <1>1, <1>n, InHandFacts DEF TurnLeft
  <2>2. Tail(turns[n]) \in Seq(Requests)
    BY <2>1, <1>1, <1>n, RangeOfTail DEF TurnLeft, HasTurn
  <2> QED BY <2>1, <2>2, <1>1 DEF TurnLeft
<1>4. walk[r].state # "none" BY <1>1 DEF TurnLeft, InHand
<1>5. walk'[r] = Idle \/ (walk'[r].at \in 1..Len(Walk[r]) /\ walk'[r].state # "none")
  BY <1>1 DEF TurnLeft
<1> QED BY <1>1, <1>2, <1>3, <1>4, <1>5, WalkerGoesOn DEF TurnLeft

LEMMA StandOnGoesOn ==
  ASSUME LaneInv, NEW r \in Requests, StandOn(r) PROVE LaneInv'
<1>n. PICK n : n = EngineOf(on[r]) OBVIOUS
<1>1. StoodBy(r, n) BY <1>n, StandOnEffects
<1>2. InHand(r) /\ walk[r].state # "none" BY <1>1 DEF StoodBy, InHand
<1>3. /\ walk \in [Requests -> [at : Nat, state : WalkStates]] /\ walk[r].at \in 1..Len(Walk[r])
      /\ turns \in [Engines -> Seq(Requests)] /\ n \in Engines /\ turns[n] \in Seq(Requests)
  BY <1>2, <1>n, InHandFacts
<1>4. /\ walk' \in [Requests -> [at : Nat, state : WalkStates]]
      /\ \A q \in Requests : q # r => walk'[q] = walk[q]
      /\ walk'[r].at \in 1..Len(Walk[r]) /\ walk'[r].state # "none"
  BY <1>1, <1>3 DEF StoodBy, WalkStates
<1>5. turns' \in [Engines -> Seq(Requests)]
  <2>1. Tail(turns[n]) \in Seq(Requests) BY <1>1, <1>3, <1>n, RangeOfTail DEF StoodBy, HasTurn
  <2>2. Append(Tail(turns[n]), r) \in Seq(Requests) BY <2>1, AppendProperties
  <2> QED BY <2>2, <1>1, <1>3 DEF StoodBy
<1>6. engine' \in [Engines -> EngineStates] BY <1>1 DEF StoodBy
<1>7. UNCHANGED <<platform, stage, queue, aborted, worker, on, toWorker>>
  BY <1>1 DEF StoodBy
<1>8. /\ active' \in [Workers -> Requests \cup {None}]
      /\ \A w \in Workers : active'[w] \in {active[w], None}
      /\ toClient' \in [Workers -> Seq([r : Requests, how : Outcomes])]
      /\ \A w \in Workers : \A m \in Answers(w)' :
           m \in Answers(w) \/ (m.r = r /\ m.how # "cancelled")
  <2>1. UNCHANGED <<active, toClient>> BY <1>1 DEF StoodBy
  <2> QED BY <2>1, NothingGoesOut
<1> QED BY <1>2, <1>4, <1>5, <1>6, <1>7, <1>8, WalkerGoesOn

LEMMA ResumeGoesOn ==
  ASSUME LaneInv, NEW r \in Requests, Resume(r) PROVE LaneInv'
<1>n. PICK n : n = EngineOf(on[r]) OBVIOUS
<1>1. /\ walk[r].state = "yielded"
      /\ UNCHANGED <<platform, stage, queue, aborted, worker, on, toWorker, toClient, active, engine>>
      /\ \/ walk' = [walk EXCEPT ![r] = Idle] /\ turns' = turns
         \/ /\ walk' = [walk EXCEPT ![r].state = "asking"]
            /\ turns' = [turns EXCEPT ![n] = Append(@, r)]
  BY <1>n DEF Resume
<1>2. walk[r].at \in 1..Len(Walk[r]) /\ n \in Engines BY <1>1, <1>n, WalkFacts
<1>t. /\ walk \in [Requests -> [at : Nat, state : WalkStates]]
      /\ turns \in [Engines -> Seq(Requests)] /\ engine \in [Engines -> EngineStates]
  BY TypeFacts DEF LaneInv
<1>3. /\ walk'[r] = Idle \/ (walk'[r].at = walk[r].at /\ walk'[r].state = "asking")
      /\ \A q \in Requests : q # r => walk'[q] = walk[q]
      /\ walk' \in [Requests -> [at : Nat, state : WalkStates]]
  <2>1. Idle \in [at : Nat, state : WalkStates] BY DEF Idle, WalkStates
  <2>2. CASE walk' = [walk EXCEPT ![r] = Idle] BY <2>1, <2>2, <1>t
  <2>3. CASE walk' = [walk EXCEPT ![r].state = "asking"] BY <2>3, <1>t DEF WalkStates
  <2> QED BY <2>2, <2>3, <1>1
<1>4. turns' \in [Engines -> Seq(Requests)]
  <2>1. Append(turns[n], r) \in Seq(Requests) BY <1>2, <1>t, AppendProperties
  <2> QED BY <2>1, <1>1, <1>t
<1>5. /\ active' \in [Workers -> Requests \cup {None}]
      /\ \A w \in Workers : active'[w] \in {active[w], None}
      /\ toClient' \in [Workers -> Seq([r : Requests, how : Outcomes])]
      /\ \A w \in Workers : \A m \in Answers(w)' :
           m \in Answers(w) \/ (m.r = r /\ m.how # "cancelled")
  <2>1. UNCHANGED <<active, toClient>> BY <1>1
  <2> QED BY <2>1, NothingGoesOut
<1>6. walk'[r] = Idle \/ (walk'[r].at \in 1..Len(Walk[r]) /\ walk'[r].state # "none")
  BY <1>2, <1>3
<1>7. walk[r].state # "none" /\ engine' \in [Engines -> EngineStates] BY <1>1, <1>t
<1> QED BY <1>1, <1>3, <1>4, <1>5, <1>6, <1>7, WalkerGoesOn

\* The module's fate is all that changes of an engine.
LEMMA LoadEffects ==
  ASSUME LaneInv, NEW w \in Workers, LoadEnds(w)
  PROVE  /\ engine' \in [Engines -> EngineStates]
         /\ \A p \in Engines : p # w => engine'[p] = engine[p]
         /\ engine'[w].module # "absent"
         /\ engine'[w].table = engine[w].table /\ engine'[w].history = engine[w].history
         /\ engine'[w].warmHistory = engine[w].warmHistory
         /\ engine'[w].warmSearch = engine[w].warmSearch
         /\ engine'[w].mixed <=> Len(turns[w]) > 1
<1> DEFINE e == engine[w]
           M == Len(turns[w]) > 1
<1>1. w \in Engines /\ engine \in [Engines -> EngineStates] /\ e \in EngineStates
  <2>1. w \in Engines BY DEF Workers, Engines
  <2>2. engine \in [Engines -> EngineStates] BY TypeFacts DEF LaneInv
  <2> QED BY <2>1, <2>2
<1>2. PICK module \in {"loaded", "failed"} :
        engine' = [engine EXCEPT ![w].module = module, ![w].mixed = M]
  BY DEF LoadEnds
<1> DEFINE half == [e EXCEPT !.module = module]
           next == [half EXCEPT !.mixed = M]
<1>3. engine' = [engine EXCEPT ![w] = next] BY <1>1, <1>2
<1> HIDE DEF e
<1>4. /\ half \in EngineStates /\ half.module = module /\ half.table = e.table
      /\ half.history = e.history /\ half.warmHistory = e.warmHistory
      /\ half.warmSearch = e.warmSearch
  BY <1>1 DEF EngineStates
<1> HIDE DEF half
<1>5. M \in BOOLEAN OBVIOUS
<1> HIDE DEF M
<1>6. /\ next \in EngineStates /\ next.module = half.module /\ next.table = half.table
      /\ next.history = half.history /\ next.warmHistory = half.warmHistory
      /\ next.warmSearch = half.warmSearch
  BY <1>4, <1>5 DEF EngineStates
<1>7. next.mixed = M BY <1>4, <1>5 DEF EngineStates
<1> HIDE DEF next
<1>8. /\ engine'[w] = next /\ engine' \in [Engines -> EngineStates]
      /\ \A p \in Engines : p # w => engine'[p] = engine[p]
  BY <1>1, <1>3, <1>6
<1> QED BY <1>4, <1>6, <1>7, <1>8 DEF e, M

LEMMA LoadEndsGoesOn ==
  ASSUME LaneInv, NEW w \in Workers, LoadEnds(w) PROVE LaneInv'
<1>1. /\ UNCHANGED <<platform, stage, queue, aborted, worker, on, toWorker, toClient, active,
                     walk, turns>>
      /\ engine' \in [Engines -> EngineStates]
  BY LoadEffects DEF LoadEnds
<1>2. /\ LaneTypeOK /\ WorkersInv /\ QueueInv /\ MailInv /\ HostInv /\ AnswersInv /\ WalkInv
  BY DEF LaneInv
<1>3. LaneTypeOK' BY <1>1, <1>2 DEF LaneTypeOK
<1>4. WorkersInv' /\ QueueInv' BY <1>1, SameStages
<1>5. MailInv' /\ AnswersInv' BY <1>1, <1>2 DEF MailInv, Mailbox, Answers, AnswersInv, Fresh
<1>6. HostInv' BY <1>1, <1>2 DEF HostInv, OnItsWorker, Fresh
<1>7. WalkInv' BY <1>1, <1>2 DEF WalkInv, Fresh
<1> QED BY <1>3, <1>4, <1>5, <1>6, <1>7 DEF LaneInv

LEMMA HostTakesGoesOn ==
  ASSUME LaneInv, NEW w \in Workers, HostTakes(w) PROVE LaneInv'
<1>0. /\ LaneTypeOK /\ WorkersInv /\ QueueInv /\ MailInv /\ HostInv /\ AnswersInv /\ WalkInv
  BY DEF LaneInv
<1> DEFINE first == Head(toWorker[w])
<1>r. PICK r : r = first OBVIOUS
<1>a. PICK a : a = active[w] OBVIOUS
<1>1. /\ toWorker[w] # <<>>
      /\ active' = [active EXCEPT ![w] = r]
      /\ walk' = [walk EXCEPT ![r] = [at |-> 1, state |-> "yielded"]]
      /\ toClient' = IF a = None THEN toClient ELSE Posted(w, a, "cancelled")
      /\ toWorker' = [toWorker EXCEPT ![w] = Tail(@)]
      /\ UNCHANGED <<platform, stage, queue, aborted, worker, on, turns, engine>>
  BY <1>r, <1>a DEF HostTakes
<1>t. /\ toWorker \in [Workers -> Seq(Requests)]
      /\ toClient \in [Workers -> Seq([r : Requests, how : Outcomes])]
      /\ active \in [Workers -> Requests \cup {None}]
      /\ walk \in [Requests -> [at : Nat, state : WalkStates]]
      /\ stage \in [Requests -> Stages]
  BY <1>0, TypeFacts
<1>2. /\ r \in Mailbox(w) /\ r \in Requests /\ Range(Tail(toWorker[w])) \subseteq Mailbox(w)
      /\ r \notin Range(Tail(toWorker[w])) /\ Once(Tail(toWorker[w]))
      /\ Tail(toWorker[w]) \in Seq(Requests)
  <2>1. Once(toWorker[w]) /\ toWorker[w] \in Seq(Requests) BY <1>0, <1>t DEF MailInv
  <2> QED BY <2>1, <1>1, <1>r, RangeOfTail DEF Mailbox
<1>3. /\ stage[r] = "sent" /\ on[r] = w /\ walk[r].state = "none"
      /\ \A v \in Workers : active[v] # r /\ \A m \in Answers(v) : m.r # r
  BY <1>2, <1>0 DEF MailInv
<1>4. /\ toWorker'[w] = Tail(toWorker[w])
      /\ \A v \in Workers : v # w => toWorker'[v] = toWorker[v]
      /\ toWorker' \in [Workers -> Seq(Requests)]
  BY <1>1, <1>2, <1>t
<1>5. /\ walk'[r] = [at |-> 1, state |-> "yielded"] /\ \A q \in Requests : q # r => walk'[q] = walk[q]
      /\ walk' \in [Requests -> [at : Nat, state : WalkStates]]
  <2>1. [at |-> 1, state |-> "yielded"] \in [at : Nat, state : WalkStates] BY DEF WalkStates
  <2> QED BY <2>1, <1>1, <1>2, <1>t
<1>6. /\ active'[w] = r /\ \A v \in Workers : v # w => active'[v] = active[v]
      /\ active' \in [Workers -> Requests \cup {None}]
  BY <1>1, <1>2, <1>t
<1>7. a # None => /\ a \in Requests /\ a # r /\ ~Fresh(a) /\ on[a] = w /\ OnItsWorker(a)
                  /\ \A v \in Workers : a \notin Mailbox(v)
  BY <1>a, <1>t, <1>3, <1>0 DEF HostInv, MailInv
<1>8. /\ toClient' \in [Workers -> Seq([r : Requests, how : Outcomes])]
      /\ \A v \in Workers : \A m \in Answers(v)' :
           m \in Answers(v) \/ (a # None /\ m.r = a)
  <2>1. CASE a = None BY <2>1, <1>1, <1>t DEF Answers
  <2>2. CASE a # None
    <3>1. toClient' = Posted(w, a, "cancelled") BY <2>2, <1>1
    <3>2. "cancelled" \in Outcomes BY DEF Outcomes
    <3>3. /\ toClient' \in [Workers -> Seq([r : Requests, how : Outcomes])]
          /\ Range(toClient'[w]) = Answers(w) \cup {[r |-> a, how |-> "cancelled"]}
          /\ \A v \in Workers : v # w => toClient'[v] = toClient[v]
      BY <3>1, <3>2, <2>2, <1>7, <1>0, PostedFacts
    <3>4. [r |-> a, how |-> "cancelled"].r = a OBVIOUS
    <3> QED BY <3>3, <3>4, <2>2 DEF Answers
  <2> QED BY <2>1, <2>2
<1>9. LaneTypeOK'
  <2>1. Len(Walk[r]) \in Nat /\ Len(Walk[r]) > 0
    BY <1>2, LaneAssumption, WalkAssumption, LenProperties
  <2>2. walk'[r].at \in 1..Len(Walk[r]) /\ walk'[r].state # "none" BY <2>1, <1>5
  <2>3. \A q \in Requests :
          walk'[q] = Idle \/ (walk'[q].at \in 1..Len(Walk[q]) /\ walk'[q].state # "none")
    BY <2>2, <1>5, <1>0 DEF LaneTypeOK
  <2> QED BY <2>3, <1>0, <1>1, <1>4, <1>5, <1>6, <1>8 DEF LaneTypeOK
<1>10. /\ WorkersInv' /\ QueueInv'
       /\ \A q \in Requests : Fresh(q)' = Fresh(q) /\ OnItsWorker(q)' = OnItsWorker(q)
  BY <1>1, SameStages
<1>11. MailInv'
  <2>1. \A v \in Workers : /\ Mailbox(v)' \subseteq Mailbox(v) /\ Once(toWorker'[v])
                           /\ r \notin Mailbox(v)'
    <3>1. \A v \in Workers : Once(toWorker[v]) BY <1>0 DEF MailInv
    <3>2. \A v \in Workers : v # w => r \notin Mailbox(v) BY <1>3, <1>0 DEF MailInv
    <3> QED BY <3>1, <3>2, <1>2, <1>4 DEF Mailbox
  <2>2. ASSUME NEW v \in Workers, NEW q \in Mailbox(v)'
        PROVE  stage'[q] = "sent" /\ on'[q] = v /\ walk'[q].state = "none"
    <3>1. q \in Mailbox(v) /\ q # r /\ q \in Requests BY <2>1, <1>0, MailFacts
    <3> QED BY <3>1, <1>1, <1>5, <1>0 DEF MailInv
  <2>3. ASSUME NEW v \in Workers, NEW q \in Mailbox(v)', NEW u \in Workers
        PROVE  active'[u] # q /\ \A m \in Answers(u)' : m.r # q
    <3>1. q \in Mailbox(v) /\ q # r BY <2>1
    <3>2. active[u] # q /\ \A m \in Answers(u) : m.r # q BY <3>1, <1>0 DEF MailInv
    <3>3. a # None => a # q BY <3>1, <1>7
    <3> QED BY <3>1, <3>2, <3>3, <1>6, <1>8
  <2> QED BY <2>1, <2>2, <2>3 DEF MailInv
<1>12. HostInv'
  <2>1. ~Fresh(r) /\ OnItsWorker(r) BY <1>2, <1>3, <1>0 DEF Fresh, WorkersInv
  <2>2. ASSUME NEW v \in Workers, active'[v] # None
        PROVE  ~Fresh(active[v])' /\ OnItsWorker(active[v])' /\ on'[active'[v]] = v
    <3>1. PICK q : q = active'[v] OBVIOUS
    <3>2. q \in Requests BY <3>1, <2>2, <1>6
    <3>3. ~Fresh(q) /\ OnItsWorker(q) /\ on[q] = v
      <4>1. CASE v = w BY <4>1, <3>1, <2>1, <1>3, <1>6
      <4>2. CASE v # w BY <4>2, <3>1, <2>2, <1>6, <1>0 DEF HostInv
      <4> QED BY <4>1, <4>2
    <3>4. ~Fresh(q)' /\ OnItsWorker(q)' /\ on'[q] = v BY <3>2, <3>3, <1>10, <1>1
    <3> QED BY <3>1, <3>4 DEF Fresh, OnItsWorker
  <2> QED BY <2>2 DEF HostInv
<1>13. a # None /\ stage[a] = "sent" => ~Service!Orderly(LaneOf[a])
  <2>1. SUFFICES ASSUME a # None, stage[a] = "sent", Service!Orderly(LaneOf[a]) PROVE FALSE
    OBVIOUS
  <2>2. worker[LaneOf[a]] = w /\ worker[LaneOf[r]] = w /\ w # 0
    BY <2>1, <1>2, <1>3, <1>7, <1>0, ConstantFacts DEF WorkersInv, OnItsWorker
  <2>3. LaneOf[a] = LaneOf[r] BY <2>1, <2>2, <1>2, <1>7, <1>0, ConstantFacts DEF WorkersInv
  <2>4. a \in Exclusive /\ r \in Exclusive BY <2>1, <2>3, <1>2, <1>7 DEF Service!Orderly
  <2> QED BY <2>1, <2>3, <2>4, <1>3, <1>7, <1>0 DEF QueueInv
<1>14. AnswersInv'
  <2>1. ASSUME NEW v \in Workers, NEW m \in Answers(v)'
        PROVE  /\ ~Fresh(m.r)'
               /\ m.how = "cancelled" /\ stage'[m.r] = "sent" => ~Service!Orderly(LaneOf[m.r])
    <3>1. CASE m \in Answers(v)
      <4>1. m.r \in Requests BY <3>1, <1>0, MailFacts
      <4> QED BY <3>1, <4>1, <1>0, <1>1, <1>10 DEF AnswersInv
    <3>2. CASE a # None /\ m.r = a BY <3>2, <1>1, <1>7, <1>10, <1>13
    <3> QED BY <3>1, <3>2, <1>8
  <2> QED BY <2>1 DEF AnswersInv
<1>15. WalkInv'
  <2>1. ASSUME NEW q \in Requests, walk'[q].state # "none" PROVE ~Fresh(q)' /\ on'[q] # 0
    <3>1. CASE q = r BY <3>1, <1>1, <1>2, <1>3, ConstantFacts DEF Fresh
    <3>2. CASE q # r
      <4>1. walk[q].state # "none" BY <3>2, <2>1, <1>5
      <4> QED BY <4>1, <1>0, <1>1, <1>10 DEF WalkInv
    <3> QED BY <3>1, <3>2
  <2> QED BY <2>1 DEF WalkInv
<1> QED BY <1>9, <1>10, <1>11, <1>12, <1>14, <1>15 DEF LaneInv

-----------------------------------------------------------------------------
(* The invariant holds for ever, and what it says of the lanes.            *)

LEMMA LaneGoesOn == LaneInv /\ [LaneNext]_laneVars => LaneInv'
<1> SUFFICES ASSUME LaneInv, [LaneNext]_laneVars PROVE LaneInv'
  OBVIOUS
<1>1. CASE UNCHANGED laneVars
  <2>1. UNCHANGED <<platform, stage, queue, aborted, worker, on, toWorker, toClient, active, walk,
               turns, engine>>
    BY <1>1 DEF laneVars
  <2>2. /\ LaneTypeOK /\ WorkersInv /\ QueueInv /\ MailInv /\ HostInv /\ AnswersInv
        /\ WalkInv
    BY DEF LaneInv
  <2>3. LaneTypeOK' BY <2>1, <2>2 DEF LaneTypeOK
  <2>4. WorkersInv' /\ QueueInv' BY <2>1, SameStages
  <2>5. MailInv' /\ AnswersInv' BY <2>1, <2>2 DEF MailInv, Mailbox, Answers, AnswersInv, Fresh
  <2>6. HostInv' BY <2>1, <2>2 DEF HostInv, OnItsWorker, Fresh
  <2>7. WalkInv' BY <2>1, <2>2 DEF WalkInv, Fresh
  <2> QED BY <2>3, <2>4, <2>5, <2>6, <2>7 DEF LaneInv
<1>2. ASSUME NEW r \in Requests,
             AskDirectly(r) \/ AskInTurn(r) \/ Abort(r) \/ Timeout(r)
               \/ Resume(r) \/ StandOn(r) \/ HistoryRefused(r)
               \/ CallFails(r) \/ Search(r) \/ SearchFails(r)
      PROVE  LaneInv'
  BY <1>2, AskDirectlyGoesOn, AskInTurnGoesOn, AbortGoesOn, TimeoutGoesOn,
     ResumeGoesOn, StandOnGoesOn, LeavingGoesOn DEF Leaves
<1>3. ASSUME NEW l \in Lanes, BeginQueued(l) \/ Crash(l) PROVE LaneInv'
  BY <1>3, BeginQueuedGoesOn, CrashGoesOn
<1>4. ASSUME NEW w \in Workers, Receive(w) \/ HostTakes(w) PROVE LaneInv'
  BY <1>4, ReceiveGoesOn, HostTakesGoesOn
<1>5. ASSUME NEW w \in Workers, LoadEnds(w) PROVE LaneInv' BY <1>5, LoadEndsGoesOn
<1> QED BY <1>1, <1>2, <1>3, <1>4, <1>5 DEF LaneNext, Delivered

LEMMA LaneAlways == LaneSpec => []LaneInv
  BY LaneStarts, LaneGoesOn, PTL DEF LaneSpec

\* Every part of the lanes, the hosts and the engines keeps its type, whatever
\* the engine refuses (client.ts, session.ts, nativeSession.ts).
THEOREM LanesKeepType == LaneSpec => []LaneTypeOK
<1>1. LaneInv => LaneTypeOK BY DEF LaneInv
<1> QED BY <1>1, LaneAlways, PTL

\* For any questions and any number of workers, a question that waits for an
\* answer is with the worker its lane has now: whoever stopped a worker settled
\* everybody on it (client.ts:197-218).
THEOREM PendingStaysOnTheWorker == LaneSpec => []PendingIsOnTheWorker
<1>1. LaneInv => PendingIsOnTheWorker BY DEF LaneInv, WorkersInv, OnItsWorker, PendingIsOnTheWorker
<1> QED BY <1>1, LaneAlways, PTL

-----------------------------------------------------------------------------
(* The turns taken with an engine, and what it holds.                      *)

LEMMA TailAt ==
  ASSUME NEW S, NEW s \in Seq(S), s # <<>>
  PROVE  /\ Len(s) \in Nat /\ Len(s) > 0 /\ s[1] = Head(s)
         /\ Tail(s) \in Seq(S) /\ Len(Tail(s)) = Len(s) - 1
         /\ \A i \in 1..Len(s) - 1 : Tail(s)[i] = s[i + 1]
<1>1. /\ Tail(s) \in Seq(S) /\ Len(Tail(s)) = Len(s) - 1
      /\ \A i \in 1..Len(Tail(s)) : Tail(s)[i] = s[i + 1]
  BY HeadTailProperties
<1>2. Len(s) \in Nat /\ Len(s) # 0 /\ s[1] = Head(s) BY LenProperties, EmptySeq
<1> QED BY <1>1, <1>2

LEMMA RotationKeeps ==
  ASSUME NEW S, NEW s \in Seq(S), NEW t \in Seq(S), NEW n \in Nat, n > 0, Len(s) = n, Len(t) = n,
         t[n] = s[1], \A i \in 1..n - 1 : t[i] = s[i + 1]
  PROVE  Range(t) = Range(s) /\ (Once(s) => Once(t))
<1>1. Range(t) = {t[i] : i \in 1..n} /\ Range(s) = {s[i] : i \in 1..n}
  <2>1. Range(t) = {t[i] : i \in 1..Len(t)} BY RangeEquality
  <2>2. Range(s) = {s[i] : i \in 1..Len(s)} BY RangeEquality
  <2> QED BY <2>1, <2>2
<1>2. \A i \in 1..n : i = n \/ (i \in 1..n - 1 /\ i + 1 \in 1..n /\ i + 1 # 1) OBVIOUS
<1>3. \A j \in 1..n : j = 1 \/ (j - 1 \in 1..n - 1 /\ j - 1 \in 1..n /\ (j - 1) + 1 = j) OBVIOUS
<1>4. 1 \in 1..n /\ n \in 1..n OBVIOUS
<1>5. \A i \in 1..n : \E j \in 1..n : t[i] = s[j] BY <1>2, <1>4
<1>6. \A j \in 1..n : \E i \in 1..n : s[j] = t[i]
  <2> TAKE j \in 1..n
  <2>1. CASE j = 1 BY <2>1, <1>4
  <2>2. CASE j # 1
    <3>1. j - 1 \in 1..n - 1 /\ j - 1 \in 1..n /\ (j - 1) + 1 = j BY <2>2, <1>3
    <3>2. t[j - 1] = s[(j - 1) + 1] BY <3>1
    <3> QED BY <3>1, <3>2
  <2> QED BY <2>1, <2>2
<1>7. ASSUME Once(s) PROVE Once(t)
  <2>1. SUFFICES ASSUME NEW i \in 1..n, NEW j \in 1..n, t[i] = t[j] PROVE i = j BY DEF Once
  <2>2. \A k \in 1..n, m \in 1..n : s[k] = s[m] => k = m BY <1>7 DEF Once
  <2>3. CASE i = n /\ j = n BY <2>3
  <2>4. CASE i = n /\ j # n
    <3>1. s[1] = s[j + 1] /\ j + 1 \in 1..n /\ j + 1 # 1 BY <2>1, <2>4, <1>2
    <3> QED BY <3>1, <2>2, <1>4
  <2>5. CASE i # n /\ j = n
    <3>1. s[i + 1] = s[1] /\ i + 1 \in 1..n /\ i + 1 # 1 BY <2>1, <2>5, <1>2
    <3> QED BY <3>1, <2>2, <1>4
  <2>6. CASE i # n /\ j # n
    <3>1. s[i + 1] = s[j + 1] /\ i + 1 \in 1..n /\ j + 1 \in 1..n BY <2>1, <2>6, <1>2
    <3>2. i + 1 = j + 1 BY <3>1, <2>2
    <3> QED BY <3>2
  <2> QED BY <2>3, <2>4, <2>5, <2>6
<1> QED BY <1>1, <1>5, <1>6, <1>7

Rotated(s) == Append(Tail(s), Head(s))

LEMMA RotateAt ==
  ASSUME NEW S, NEW s \in Seq(S), s # <<>>
  PROVE  /\ Rotated(s) \in Seq(S) /\ Len(Rotated(s)) = Len(s) /\ Rotated(s)[Len(s)] = s[1]
         /\ \A i \in 1..Len(s) - 1 : Rotated(s)[i] = s[i + 1]
         /\ Range(Rotated(s)) = Range(s)
         /\ Once(s) => Once(Rotated(s))
<1>1. /\ Len(s) \in Nat /\ Len(s) > 0 /\ s[1] = Head(s) /\ Head(s) \in S
      /\ Tail(s) \in Seq(S) /\ Len(Tail(s)) = Len(s) - 1
      /\ \A i \in 1..Len(s) - 1 : Tail(s)[i] = s[i + 1]
  BY TailAt, RangeOfTail
<1>2. /\ Rotated(s) \in Seq(S) /\ Len(Rotated(s)) = Len(Tail(s)) + 1
      /\ \A i \in 1..Len(Tail(s)) : Rotated(s)[i] = Tail(s)[i]
      /\ Rotated(s)[Len(Tail(s)) + 1] = Head(s)
  BY <1>1, AppendProperties DEF Rotated
<1>3. /\ Len(Rotated(s)) = Len(s) /\ Rotated(s)[Len(s)] = s[1]
      /\ \A i \in 1..Len(s) - 1 : Rotated(s)[i] = s[i + 1]
  BY <1>1, <1>2
<1>4. PICK t, n : t = Rotated(s) /\ n = Len(s) OBVIOUS
<1>5. /\ t \in Seq(S) /\ n \in Nat /\ n > 0 /\ Len(s) = n /\ Len(t) = n /\ t[n] = s[1]
      /\ \A i \in 1..n - 1 : t[i] = s[i + 1]
  BY <1>1, <1>2, <1>3, <1>4
<1>6. Range(t) = Range(s) /\ (Once(s) => Once(t)) BY ONLY <1>5, RotationKeeps, s \in Seq(S)
<1> QED BY <1>2, <1>3, <1>4, <1>6

\* Those who have a turn with the engine n.
LEMMA TurnFacts ==
  ASSUME LaneInv, EngineInv, NEW n \in Engines
  PROVE  /\ turns[n] \in Seq(Requests) /\ Len(turns[n]) \in Nat /\ Once(turns[n])
         /\ \A i \in 1..Len(turns[n]) :
              /\ turns[n][i] \in Requests /\ turns[n][i] \in Range(turns[n])
              /\ InHand(turns[n][i]) /\ EngineOf(on[turns[n][i]]) = n
         /\ \A q \in Range(turns[n]) : q \in Requests /\ InHand(q) /\ EngineOf(on[q]) = n
<1>1. turns[n] \in Seq(Requests) BY TypeFacts DEF LaneInv
<1>2. /\ Len(turns[n]) \in Nat /\ Range(turns[n]) = {turns[n][i] : i \in 1..Len(turns[n])}
      /\ Range(turns[n]) \subseteq Requests
  BY <1>1, LenProperties, RangeEquality, RangeOfSeq
<1> QED BY <1>1, <1>2 DEF EngineInv, EngineOK, TurnsTaken

LEMMA HolderFacts ==
  ASSUME LaneInv, EngineInv, NEW n \in Engines, turns[n] # <<>>
  PROVE  /\ Holder(n) \in Range(turns[n]) /\ Head(turns[n]) = turns[n][1]
         /\ Len(turns[n]) > 0
<1>1. turns[n] \in Seq(Requests) BY TurnFacts
<1>2. Len(turns[n]) \in Nat /\ Len(turns[n]) > 0 /\ turns[n][1] = Head(turns[n])
  BY <1>1, TailAt
<1>3. 1 \in 1..Len(turns[n]) /\ Len(turns[n]) \in 1..Len(turns[n]) BY <1>2
<1> QED BY <1>2, <1>3, TurnFacts DEF Holder

LEMMA WorkersAreEngines == \A w \in Workers : w \in Engines
  BY DEF Workers, Engines

\* The one who has the turn, r, with the engine n.
TurnOf(r, n) ==
  /\ n \in Engines /\ turns[n] # <<>> /\ Head(turns[n]) = r /\ turns[n][1] = r
  /\ Len(turns[n]) \in Nat /\ Len(turns[n]) > 0
  /\ platform = "browser" => on[r] = n /\ n \in Workers /\ engine[n].module # "absent"
  /\ \A p \in Engines : p # n => r \notin Range(turns[p])
  /\ \A i \in 1..Len(turns[n]) : turns[n][i] = r => i = 1

LEMMA HasTurnFacts ==
  ASSUME LaneInv, EngineInv, NEW r \in Requests, InHand(r), HasTurn(r),
         NEW n, n = EngineOf(on[r])
  PROVE  TurnOf(r, n)
<1>1. n \in Engines /\ on[r] \in Workers BY InHandFacts
<1>2. turns[n] # <<>> /\ Head(turns[n]) = r /\ (platform = "browser" => engine[n].module # "absent")
  BY DEF HasTurn
<1>3. Len(turns[n]) \in Nat /\ Len(turns[n]) > 0 /\ turns[n][1] = r
  BY <1>1, <1>2, TurnFacts, TailAt
<1>4. platform = "browser" => on[r] = n BY DEF EngineOf
<1>5. \A p \in Engines : p # n => r \notin Range(turns[p]) BY TurnFacts
<1>6. \A i \in 1..Len(turns[n]) : turns[n][i] = r => i = 1
  <2>1. \A i, j \in 1..Len(turns[n]) : turns[n][i] = turns[n][j] => i = j
    BY <1>1, TurnFacts DEF Once
  <2>2. 1 \in 1..Len(turns[n]) BY <1>3
  <2> QED BY <2>1, <2>2, <1>3
<1> QED BY <1>1, <1>2, <1>3, <1>4, <1>5, <1>6 DEF TurnOf

\* An engine nobody has called.
LEMMA ColdIsOK ==
  ASSUME NEW n, turns[n] = <<>>, engine[n] = ColdEngine PROVE EngineOK(n)
<1>1. Len(<<>>) = 0 BY EmptySeq
<1>2. TurnsTaken(n) BY RangeOfEmpty DEF TurnsTaken
<1>3. LockKept(n) /\ ActiveIsLast(n) BY <1>1 DEF LockKept, ActiveIsLast
<1>4. WarmKnown(n) BY DEF WarmKnown
<1>5. ModuleKept(n) BY <1>1 DEF ModuleKept
<1>6. TableKnown(n) /\ HistoryBelieved(n) BY DEF TableKnown, HistoryBelieved, ColdEngine
<1> QED BY <1>2, <1>3, <1>4, <1>5, <1>6 DEF EngineOK

LEMMA ColdEngineIsOK ==
  ASSUME NEW n, turns'[n] = <<>>, engine'[n] = ColdEngine PROVE EngineOK(n)'
<1>1. Len(<<>>) = 0 BY EmptySeq
<1>2. TurnsTaken(n)' BY RangeOfEmpty DEF TurnsTaken
<1>3. LockKept(n)' /\ ActiveIsLast(n)' BY <1>1 DEF LockKept, ActiveIsLast
<1>4. WarmKnown(n)' BY DEF WarmKnown
<1>5. ModuleKept(n)' BY <1>1 DEF ModuleKept
<1>6. TableKnown(n)' /\ HistoryBelieved(n)' BY DEF TableKnown, HistoryBelieved, ColdEngine
<1> QED BY <1>2, <1>3, <1>4, <1>5, <1>6 DEF EngineOK

LEMMA EngineStarts == LaneInit => EngineInv
<1> SUFFICES ASSUME LaneInit, NEW n \in Engines PROVE EngineOK(n) BY DEF EngineInv
<1>1. turns[n] = <<>> /\ engine[n] = ColdEngine BY DEF LaneInit
<1> QED BY <1>1, ColdIsOK

\* The engine n and those who have a turn with it are let be.
LetBe(n) ==
  /\ platform' = platform /\ turns'[n] = turns[n] /\ engine'[n] = engine[n]
  /\ \A q \in Range(turns[n]) : walk'[q] = walk[q] /\ on'[q] = on[q]
  /\ n \in Workers /\ active'[n] \in Range(turns[n]) => active'[n] = active[n]

LEMMA EngineLetBe ==
  ASSUME LaneInv, EngineInv, NEW n \in Engines, LetBe(n)
  PROVE  EngineOK(n)'
<1>0. EngineOK(n) BY DEF EngineInv
<1>t. /\ platform' = platform /\ turns'[n] = turns[n] /\ engine'[n] = engine[n]
      /\ \A q \in Range(turns[n]) : walk'[q] = walk[q] /\ on'[q] = on[q]
      /\ n \in Workers /\ active'[n] \in Range(turns[n]) => active'[n] = active[n]
  BY DEF LetBe
<1>s. /\ Len(turns[n]) \in Nat
      /\ \A i \in 1..Len(turns[n]) : turns[n][i] \in Range(turns[n])
  BY TurnFacts
<1>1. \A q \in Range(turns[n]) :
        /\ InHand(q)' = InHand(q) /\ Stands(q)' = Stands(q)
        /\ SearchOf(q)' = SearchOf(q) /\ EngineOf(on[q])' = EngineOf(on[q])
  BY <1>t DEF InHand, Stands, SearchOf, EngineOf
<1>2. TurnsTaken(n)' BY <1>0, <1>1, <1>t DEF EngineOK, TurnsTaken
<1>3. LockKept(n)'
  <2>1. \A i \in 2..Len(turns[n]) : i \in 1..Len(turns[n]) BY <1>s
  <2>2. \A i \in 2..Len(turns[n]) : Stands(turns[n][i])' = Stands(turns[n][i])
    BY <2>1, <1>s, <1>t DEF Stands
  <2> QED BY <2>2, <1>0, <1>t DEF EngineOK, LockKept, Stands
<1>4. WarmKnown(n)'
  <2> SUFFICES ASSUME turns'[n] # <<>>, Stands(Holder(n))'
               PROVE  /\ engine'[n].warmHistory = SearchOf(Holder(n))'.history
                      /\ engine'[n].warmSearch = LineOf(SearchOf(Holder(n)))'
    BY DEF WarmKnown
  <2>1. Holder(n)' = Holder(n) BY <1>t DEF Holder, Locked
  <2>2. Holder(n) \in Range(turns[n]) BY <1>t, HolderFacts
  <2>3. PICK q : q = Holder(n) OBVIOUS
  <2>4. q \in Range(turns[n]) /\ Stands(q)' BY <2>1, <2>2, <2>3 DEF Stands
  <2>5. Stands(q) /\ SearchOf(q)' = SearchOf(q) BY <2>4, <1>1
  <2>6. SearchOf(Holder(n))' = SearchOf(q) BY <2>1, <2>3, <2>5 DEF SearchOf
  <2> QED BY <2>3, <2>5, <2>6, <1>0, <1>t DEF EngineOK, WarmKnown, LineOf
<1>5. ActiveIsLast(n)'
  <2> SUFFICES ASSUME platform = "browser", n \in Workers, NEW i \in 1..Len(turns[n]),
                      turns[n][i] = active'[n]
               PROVE  /\ \A j \in i + 1..Len(turns[n]) : Stands(turns[n][j])'
                      /\ Stands(active[n])' =>
                           i = Len(turns[n]) /\ \A j \in 1..Len(turns[n]) : Stands(turns[n][j])'
    BY <1>t DEF ActiveIsLast, Stands
  <2>1. active'[n] = active[n] /\ active[n] \in Range(turns[n]) BY <1>s, <1>t
  <2>2. \A j \in 1..Len(turns[n]) : walk'[turns'[n][j]] = walk[turns[n][j]] BY <1>s, <1>t
  <2>3. walk'[active'[n]] = walk[active[n]] BY <2>1, <1>t
  <2>4. \A j \in i + 1..Len(turns[n]) : j \in 1..Len(turns[n]) BY <1>s
  <2>5. /\ \A j \in i + 1..Len(turns[n]) : Stands(turns[n][j])
        /\ Stands(active[n]) =>
             i = Len(turns[n]) /\ \A j \in 1..Len(turns[n]) : Stands(turns[n][j])
    BY <2>1, <1>0 DEF EngineOK, ActiveIsLast
  <2> QED BY <2>2, <2>3, <2>4, <2>5 DEF Stands
<1>6. ModuleKept(n)' BY <1>0, <1>t DEF EngineOK, ModuleKept
<1>7. TableKnown(n)' /\ HistoryBelieved(n)' BY <1>0, <1>t DEF EngineOK, TableKnown, HistoryBelieved
<1> QED BY <1>2, <1>3, <1>4, <1>5, <1>6, <1>7 DEF EngineOK

\* All of them are.
LEMMA EnginesLetBe ==
  ASSUME LaneInv, EngineInv, UNCHANGED <<platform, turns, engine>>,
         \A n \in Engines : \A q \in Range(turns[n]) : walk'[q] = walk[q] /\ on'[q] = on[q],
         \A n \in Workers : active'[n] \in Range(turns[n]) => active'[n] = active[n]
  PROVE  EngineInv'
<1> SUFFICES ASSUME NEW n \in Engines PROVE EngineOK(n)' BY DEF EngineInv
<1>1. LetBe(n) BY DEF LetBe
<1> QED BY <1>1, EngineLetBe

LEMMA EngineStops ==
  ASSUME LaneInv, EngineInv, NEW l \in Lanes, worker[l] # 0, NEW r, StoppedFor(l, r),
         NEW outcome \in Outcomes, StopWorker(l, r, outcome), UNCHANGED <<platform, on>>
  PROVE  EngineInv'
<1>1. PICK w \in Workers : w = worker[l]
  <2>1. worker \in [Lanes -> 0..MaxWorkers] BY TypeFacts DEF LaneInv
  <2> QED BY <2>1 DEF Workers
<1>2. StopLeaves(l, w, r, outcome) BY <1>1, StopEffects
<1>3. /\ \A v \in Workers : active'[v] \in {active[v], None}
      /\ \A q \in Requests :
           walk'[q] = IF platform = "browser" /\ on[q] = w THEN Idle ELSE walk[q]
      /\ \A n \in Engines : turns'[n] = IF platform = "browser" /\ n = w THEN <<>> ELSE turns[n]
      /\ \A n \in Engines :
           engine'[n] = IF platform = "browser" /\ n = w THEN ColdEngine ELSE engine[n]
  BY <1>2 DEF StopLeaves
<1> SUFFICES ASSUME NEW n \in Engines PROVE EngineOK(n)' BY DEF EngineInv
<1>4. CASE platform = "browser" /\ n = w BY <1>3, <1>4, ColdEngineIsOK
<1>5. CASE ~(platform = "browser" /\ n = w)
  <2>1. turns'[n] = turns[n] /\ engine'[n] = engine[n] BY <1>3, <1>5
  <2>2. \A q \in Range(turns[n]) : q \in Requests /\ EngineOf(on[q]) = n BY TurnFacts
  <2>3. \A q \in Range(turns[n]) : walk'[q] = walk[q] BY <2>2, <1>3, <1>5 DEF EngineOf
  <2>4. n \in Workers /\ active'[n] \in Range(turns[n]) => active'[n] = active[n]
    BY <2>2, <1>3, ConstantFacts
  <2>5. LetBe(n) BY <2>1, <2>3, <2>4 DEF LetBe
  <2> QED BY <2>5, EngineLetBe
<1> QED BY <1>4, <1>5

LEMMA ResumeKeepsEngines ==
  ASSUME LaneInv, EngineInv, NEW r \in Requests, Resume(r) PROVE EngineInv'
<1>n. PICK n : n = EngineOf(on[r]) OBVIOUS
<1>1. /\ walk[r].state = "yielded" /\ AtRest(on[r])
      /\ UNCHANGED <<platform, on, active, engine>>
      /\ \/ walk' = [walk EXCEPT ![r] = Idle] /\ turns' = turns
         \/ /\ ~Cancelled(r)
            /\ walk' = [walk EXCEPT ![r].state = "asking"]
            /\ turns' = [turns EXCEPT ![n] = Append(@, r)]
  BY <1>n DEF Resume
<1>2. n \in Engines BY <1>1, <1>n, WalkFacts
<1>3. \A p \in Engines : r \notin Range(turns[p])
  <2>1. ~InHand(r) BY <1>1 DEF InHand
  <2> QED BY <2>1, TurnFacts
<1>t. /\ walk \in [Requests -> [at : Nat, state : WalkStates]] /\ turns \in [Engines -> Seq(Requests)]
  BY TypeFacts DEF LaneInv
<1>4. \A q \in Requests : q # r => walk'[q] = walk[q] BY <1>1, <1>t
<1>5. \A p \in Engines : \A q \in Range(turns[p]) : walk'[q] = walk[q] /\ on'[q] = on[q]
  BY <1>1, <1>3, <1>4, TurnFacts
<1>6. CASE turns' = turns
  <2>1. UNCHANGED <<platform, turns, engine>> /\ active' = active BY <1>1, <1>6
  <2> QED BY <2>1, <1>5, EnginesLetBe
<1>7. ASSUME ~Cancelled(r), walk' = [walk EXCEPT ![r].state = "asking"],
             turns' = [turns EXCEPT ![n] = Append(@, r)]
      PROVE  EngineInv'
  <2> SUFFICES ASSUME NEW p \in Engines PROVE EngineOK(p)' BY DEF EngineInv
  <2>1. CASE p # n
    <3>1. turns'[p] = turns[p] BY <2>1, <1>7, <1>t
    <3>2. LetBe(p) BY <3>1, <1>1, <1>5 DEF LetBe
    <3> QED BY <3>2, EngineLetBe
  <2>2. ASSUME p = n PROVE EngineOK(n)'
    <3>0. EngineOK(n) BY <1>2 DEF EngineInv
    <3>s. /\ turns[n] \in Seq(Requests) /\ Len(turns[n]) \in Nat /\ Once(turns[n])
          /\ \A i \in 1..Len(turns[n]) : turns[n][i] \in Range(turns[n])
          /\ \A q \in Range(turns[n]) : q \in Requests
      BY <1>2, TurnFacts
    <3>1. turns'[n] = Append(turns[n], r) BY <1>7, <1>2, <1>t
    <3>2. /\ Len(turns'[n]) = Len(turns[n]) + 1 /\ turns'[n][Len(turns[n]) + 1] = r
          /\ \A i \in 1..Len(turns[n]) : turns'[n][i] = turns[n][i]
      BY <3>1, <3>s, AppendProperties
    <3>3. Range(turns'[n]) = Range(turns[n]) \cup {r} /\ Once(turns'[n])
      BY <3>1, <3>s, <1>2, <1>3, RangeOfAppend
    <3>4. walk'[r].state = "asking" /\ ~Stands(r)' /\ InHand(r)'
      BY <1>7, <1>t DEF Stands, InHand
    <3>5. \A q \in Range(turns[n]) :
            walk'[q] = walk[q] /\ InHand(q)' = InHand(q) /\ EngineOf(on[q])' = EngineOf(on[q])
      BY <1>1, <1>2, <1>5 DEF InHand, EngineOf
    <3>6. TurnsTaken(n)'
      <4>1. EngineOf(on[r])' = n BY <1>1, <1>n DEF EngineOf
      <4> QED BY <3>0, <3>3, <3>4, <3>5, <4>1 DEF EngineOK, TurnsTaken
    <3>7. LockKept(n)'
      <4> SUFFICES ASSUME platform = "phone", NEW i \in 2..Len(turns'[n])
                   PROVE  walk'[turns'[n][i]].state # "standing"
        BY <1>1 DEF LockKept, Stands
      <4>1. CASE i = Len(turns[n]) + 1 BY <4>1, <3>2, <3>4
      <4>2. CASE i # Len(turns[n]) + 1
        <5>1. i \in 1..Len(turns[n]) /\ i \in 2..Len(turns[n]) BY <4>2, <3>2, <3>s
        <5>2. walk'[turns'[n][i]] = walk[turns[n][i]] BY <5>1, <3>2, <3>5, <3>s
        <5>3. walk[turns[n][i]].state # "standing" BY <5>1, <3>0 DEF EngineOK, LockKept, Stands
        <5> QED BY <5>2, <5>3
      <4> QED BY <4>1, <4>2
    <3>8. WarmKnown(n)'
      <4> SUFFICES ASSUME turns'[n] # <<>>, Stands(Holder(n))'
                   PROVE  /\ engine'[n].warmHistory = SearchOf(Holder(n))'.history
                          /\ engine'[n].warmSearch = LineOf(SearchOf(Holder(n)))'
        BY DEF WarmKnown
      <4>1. platform = "phone" /\ turns[n] # <<>> /\ Holder(n)' = Holder(n)
        <5>0. Locked' = Locked /\ (Locked <=> platform = "phone") BY <1>1 DEF Locked
        <5>1. CASE ~Locked
          <6>1. Holder(n)' = r BY <5>0, <5>1, <3>2 DEF Holder
          <6> QED BY <6>1, <3>4 DEF Stands
        <5>2. CASE Locked /\ turns[n] = <<>>
          <6>1. Len(turns[n]) = 0 BY <5>2, EmptySeq
          <6>2. turns'[n] \in Seq(Requests) BY <3>1, <3>s, AppendProperties
          <6>3. Head(turns'[n]) = turns'[n][1] BY <6>2, TailAt
          <6>4. Holder(n)' = r BY <5>0, <5>2, <6>1, <6>3, <3>2 DEF Holder
          <6> QED BY <6>4, <3>4 DEF Stands
        <5>3. CASE Locked /\ turns[n] # <<>>
          <6>1. turns'[n] \in Seq(Requests) BY <3>1, <3>s, AppendProperties
          <6>2. Head(turns'[n]) = turns'[n][1] BY <6>1, TailAt
          <6>3. Head(turns[n]) = turns[n][1] /\ Len(turns[n]) > 0 BY <5>3, <1>2, HolderFacts
          <6>4. 1 \in 1..Len(turns[n]) BY <6>3, <3>s
          <6>5. Head(turns'[n]) = Head(turns[n]) BY <6>2, <6>3, <6>4, <3>2
          <6> QED BY <5>0, <5>3, <6>5 DEF Holder
        <5> QED BY <5>1, <5>2, <5>3
      <4>2. Holder(n) \in Range(turns[n]) BY <4>1, <1>2, HolderFacts
      <4>3. PICK q : q = Holder(n) OBVIOUS
      <4>4. q \in Range(turns[n]) /\ walk'[q] = walk[q] BY <4>2, <4>3, <3>5
      <4>5. Stands(q) /\ SearchOf(Holder(n))' = SearchOf(q)
        BY <4>1, <4>3, <4>4 DEF Stands, SearchOf
      <4> QED BY <4>1, <4>3, <4>5, <3>0, <1>1 DEF EngineOK, WarmKnown, LineOf
    <3>9. ActiveIsLast(n)'
      <4> SUFFICES ASSUME platform = "browser", n \in Workers, NEW i \in 1..Len(turns'[n]),
                          turns'[n][i] = active[n]
                   PROVE  /\ \A j \in i + 1..Len(turns'[n]) : Stands(turns[n][j])'
                          /\ walk'[active[n]].state # "standing"
        BY <1>1 DEF ActiveIsLast, Stands
      <4>1. on[r] = n BY <1>n DEF EngineOf
      <4>2. active[n] = r BY <4>1, <1>7 DEF Cancelled
      <4>3. i = Len(turns[n]) + 1
        <5>1. \A k \in 1..Len(turns[n]) : turns'[n][k] # r BY <3>2, <3>s, <1>2, <1>3
        <5> QED BY <5>1, <4>2, <3>2, <3>s
      <4>4. \A j \in i + 1..Len(turns'[n]) : FALSE BY <4>3, <3>2, <3>s
      <4> QED BY <4>2, <4>4, <3>4
    <3>10. ModuleKept(n)'
      <4> SUFFICES ASSUME platform = "browser", n \in Workers
                   PROVE  /\ engine[n].module = "absent" => engine[n] = ColdEngine
                          /\ engine[n].module # "absent" => Len(turns'[n]) < 2
        BY <1>1 DEF ModuleKept
      <4>1. engine[n].module = "absent" => engine[n] = ColdEngine BY <3>0 DEF EngineOK, ModuleKept
      <4>2. ASSUME engine[n].module # "absent" PROVE Len(turns'[n]) < 2
        <5>1. on[r] = n BY <1>n DEF EngineOf
        <5>2. turns[n] = <<>> BY <5>1, <4>2, <1>1 DEF AtRest
        <5> QED BY <5>2, <3>2, EmptySeq
      <4> QED BY <4>1, <4>2
    <3>11. TableKnown(n)' /\ HistoryBelieved(n)'
      BY <3>0, <1>1 DEF EngineOK, TableKnown, HistoryBelieved
    <3> QED BY <3>6, <3>7, <3>8, <3>9, <3>10, <3>11 DEF EngineOK
  <2> QED BY <2>1, <2>2
<1> QED BY <1>1, <1>6, <1>7

LEMMA LoadEndsKeepsEngines ==
  ASSUME LaneInv, EngineInv, NEW w \in Workers, LoadEnds(w) PROVE EngineInv'
<1>1. /\ platform = "browser" /\ engine[w].module = "absent"
      /\ UNCHANGED <<platform, on, active, walk, turns>>
  BY DEF LoadEnds
<1> SUFFICES ASSUME NEW p \in Engines PROVE EngineOK(p)' BY DEF EngineInv
<1>2. CASE p # w
  <2>1. engine'[p] = engine[p] BY <1>2, LoadEffects
  <2>2. LetBe(p) BY <2>1, <1>1 DEF LetBe
  <2> QED BY <2>2, EngineLetBe
<1>3. ASSUME p = w PROVE EngineOK(w)'
  <2>0. EngineOK(w) BY WorkersAreEngines DEF EngineInv
  <2>1. engine[w] = ColdEngine BY <2>0, <1>1 DEF EngineOK, ModuleKept
  <2>2. /\ engine'[w].module # "absent"
        /\ engine'[w].table = engine[w].table /\ engine'[w].history = engine[w].history
        /\ engine'[w].warmHistory = engine[w].warmHistory
        /\ engine'[w].warmSearch = engine[w].warmSearch
        /\ engine'[w].mixed <=> Len(turns[w]) > 1
    BY LoadEffects
  <2>3. Len(turns[w]) \in Nat BY TurnFacts, WorkersAreEngines
  <2>4. engine'[w].table = {} /\ engine'[w].warmHistory = Unknown BY <2>1, <2>2 DEF ColdEngine
  <2>5. TurnsTaken(w)' BY <2>0, <1>1 DEF EngineOK, TurnsTaken, InHand, EngineOf
  <2>6. LockKept(w)' BY <2>0, <1>1 DEF EngineOK, LockKept, Stands
  <2>7. WarmKnown(w)'
    <3>1. Holder(w)' = Holder(w) /\ turns' = turns /\ walk' = walk BY <1>1 DEF Holder, Locked
    <3>2. Stands(Holder(w))' = Stands(Holder(w)) /\ SearchOf(Holder(w))' = SearchOf(Holder(w))
      BY <3>1 DEF Stands, SearchOf
    <3>3. LineOf(SearchOf(Holder(w)))' = LineOf(SearchOf(Holder(w))) BY <3>2 DEF LineOf
    <3> QED BY <3>1, <3>2, <3>3, <2>0, <2>2 DEF EngineOK, WarmKnown
  <2>8. ActiveIsLast(w)' BY <2>0, <1>1 DEF EngineOK, ActiveIsLast, Stands
  <2>9. ModuleKept(w)' BY <2>2, <2>3, <1>1 DEF ModuleKept
  <2>10. TableKnown(w)' /\ HistoryBelieved(w)' BY <2>4 DEF TableKnown, HistoryBelieved
  <2> QED BY <2>5, <2>6, <2>7, <2>8, <2>9, <2>10 DEF EngineOK
<1> QED BY <1>2, <1>3

LEMMA StandOnKeepsEngines ==
  ASSUME LaneInv, EngineInv, NEW r \in Requests, StandOn(r) PROVE EngineInv'
<1>n. PICK n : n = EngineOf(on[r]) OBVIOUS
<1>1. StoodBy(r, n) BY <1>n, StandOnEffects
<1>2. InHand(r) /\ HasTurn(r) BY <1>1 DEF StoodBy, InHand
<1>3. TurnOf(r, n) BY <1>2, <1>n, HasTurnFacts
<1>4. n \in Engines BY <1>3 DEF TurnOf
<1>t. /\ walk \in [Requests -> [at : Nat, state : WalkStates]] /\ turns \in [Engines -> Seq(Requests)]
      /\ engine[n] \in EngineStates
      /\ SearchOf(r).history \in Seq(Positions) /\ SearchOf(r).history # Unknown
      /\ SearchOf(r).current \in Positions
      /\ IsPrefix(LineOf(SearchOf(r)), LineOf(SearchOf(r)))
  BY <1>2, <1>n, InHandFacts
<1>5. /\ UNCHANGED <<platform, on, active>>
      /\ walk[r].state = "asking" /\ engine[n].module # "failed"
      /\ walk' = [walk EXCEPT ![r].state = "standing"]
      /\ turns' = IF Locked THEN turns ELSE [turns EXCEPT ![n] = Append(Tail(@), r)]
      /\ \A p \in Engines : p # n => engine'[p] = engine[p]
  BY <1>1 DEF StoodBy
<1>6. /\ \A q \in Requests : q # r => walk'[q] = walk[q]
      /\ walk'[r].state = "standing" /\ walk'[r].at = walk[r].at
  BY <1>5, <1>t
<1>7. SearchOf(r)' = SearchOf(r) BY <1>6 DEF SearchOf
<1>8. /\ \A q \in Requests : InHand(q)' <=> InHand(q)
      /\ \A q \in Requests : Stands(q)' <=> q = r \/ Stands(q)
  BY <1>2, <1>6 DEF InHand, Stands
<1> SUFFICES ASSUME NEW p \in Engines PROVE EngineOK(p)' BY DEF EngineInv
<1>9. CASE p # n
  <2>1. turns'[p] = turns[p] BY <1>9, <1>5, <1>t
  <2>2. r \notin Range(turns[p]) BY <1>9, <1>3 DEF TurnOf
  <2>3. \A q \in Range(turns[p]) : walk'[q] = walk[q] /\ on'[q] = on[q]
    BY <2>2, <1>5, <1>6, TurnFacts
  <2>4. LetBe(p) BY <2>1, <2>3, <1>5, <1>9 DEF LetBe
  <2> QED BY <2>4, EngineLetBe
<1>10. ASSUME p = n PROVE EngineOK(n)'
  <2>0. EngineOK(n) BY <1>4 DEF EngineInv
  <2>s. /\ turns[n] \in Seq(Requests) /\ Len(turns[n]) \in Nat /\ Once(turns[n])
        /\ \A i \in 1..Len(turns[n]) : turns[n][i] \in Requests /\ turns[n][i] \in Range(turns[n])
        /\ \A q \in Range(turns[n]) : q \in Requests /\ InHand(q) /\ EngineOf(on[q]) = n
    BY <1>4, TurnFacts
  <2>h. /\ turns[n] # <<>> /\ Head(turns[n]) = r /\ turns[n][1] = r /\ Len(turns[n]) > 0
        /\ \A i \in 1..Len(turns[n]) : turns[n][i] = r => i = 1
        /\ platform = "browser" => on[r] = n /\ n \in Workers /\ engine[n].module # "absent"
    BY <1>3 DEF TurnOf
  <2>1. ASSUME Locked PROVE turns'[n] = turns[n] BY <2>1, <1>5
  <2>2. ASSUME ~Locked
        PROVE  /\ Len(turns'[n]) = Len(turns[n]) /\ turns'[n][Len(turns[n])] = r
               /\ \A i \in 1..Len(turns[n]) - 1 : turns'[n][i] = turns[n][i + 1]
               /\ Range(turns'[n]) = Range(turns[n]) /\ Once(turns'[n])
    <3>1. turns'[n] = Rotated(turns[n]) BY <2>2, <2>h, <1>4, <1>5, <1>t DEF Rotated
    <3> QED BY <3>1, <2>s, <2>h, RotateAt
  <2>3. TurnsTaken(n)'
    <3>1. Range(turns'[n]) = Range(turns[n]) /\ Once(turns'[n]) BY <2>1, <2>2, <2>s
    <3>2. \A q \in Range(turns[n]) : InHand(q)' /\ EngineOf(on[q])' = n
      BY <2>s, <1>5, <1>8 DEF EngineOf
    <3> QED BY <3>1, <3>2 DEF TurnsTaken
  <2>4. LockKept(n)'
    <3> SUFFICES ASSUME platform = "phone", NEW i \in 2..Len(turns'[n])
                 PROVE  walk'[turns'[n][i]].state # "standing"
      BY <1>5 DEF LockKept, Stands
    <3>1. turns'[n] = turns[n] BY <2>1 DEF Locked
    <3>2. i \in 1..Len(turns[n]) /\ i # 1 /\ i \in 2..Len(turns[n]) BY <3>1, <2>s
    <3>3. turns[n][i] # r /\ ~Stands(turns[n][i]) BY <3>2, <2>h, <2>0 DEF EngineOK, LockKept
    <3>4. walk'[turns[n][i]] = walk[turns[n][i]] BY <3>2, <3>3, <2>s, <1>6
    <3> QED BY <3>1, <3>3, <3>4 DEF Stands
  <2>5. WarmKnown(n)'
    <3>1. Holder(n)' = r
      <4>1. Locked' = Locked BY <1>5 DEF Locked
      <4> QED BY <4>1, <2>1, <2>2, <2>h DEF Holder
    <3>2. SearchOf(Holder(n))' = SearchOf(r) BY <3>1, <1>7 DEF SearchOf
    <3>3. /\ engine'[n].warmHistory = SearchOf(r).history
          /\ engine'[n].warmSearch = LineOf(SearchOf(r))
      BY <1>1 DEF StoodBy
    <3> QED BY <3>2, <3>3 DEF WarmKnown, LineOf
  <2>6. ActiveIsLast(n)'
    <3> SUFFICES ASSUME platform = "browser", n \in Workers, NEW i \in 1..Len(turns'[n]),
                        turns'[n][i] = active[n]
                 PROVE  /\ \A j \in i + 1..Len(turns'[n]) : walk'[turns'[n][j]].state = "standing"
                        /\ walk'[active[n]].state = "standing" =>
                             /\ i = Len(turns'[n])
                             /\ \A j \in 1..Len(turns'[n]) : walk'[turns'[n][j]].state = "standing"
      BY <1>5 DEF ActiveIsLast, Stands
    <3>0. ~Locked BY DEF Locked
    <3>1. /\ Len(turns'[n]) = Len(turns[n]) /\ turns'[n][Len(turns[n])] = r
          /\ \A j \in 1..Len(turns[n]) - 1 : turns'[n][j] = turns[n][j + 1]
      BY <3>0, <2>2
    <3>2. \A k \in 1..Len(turns[n]) : turns[n][k] = active[n] =>
            /\ \A j \in k + 1..Len(turns[n]) : Stands(turns[n][j])
            /\ Stands(active[n]) =>
                 k = Len(turns[n]) /\ \A j \in 1..Len(turns[n]) : Stands(turns[n][j])
      BY <2>0 DEF EngineOK, ActiveIsLast
    <3>3. \A j \in 1..Len(turns[n]) : Stands(turns[n][j]) => walk'[turns[n][j]].state = "standing"
      BY <2>s, <1>8 DEF Stands
    <3>4. \A j \in 1..Len(turns[n]) : j = Len(turns[n]) \/ (j \in 1..Len(turns[n]) - 1 /\ j + 1 \in 1..Len(turns[n]))
      BY <2>s
    <3>5. CASE active[n] = r
      <4>1. 1 \in 1..Len(turns[n]) BY <2>h, <2>s
      <4>2. \A j \in 2..Len(turns[n]) : Stands(turns[n][j]) BY <4>1, <3>2, <3>5, <2>h
      <4>3. \A j \in 1..Len(turns[n]) - 1 : j + 1 \in 2..Len(turns[n]) BY <2>s
      <4>4. \A j \in 1..Len(turns[n]) : walk'[turns'[n][j]].state = "standing"
        <5> TAKE j \in 1..Len(turns[n])
        <5>1. CASE j = Len(turns[n]) BY <5>1, <3>1, <1>6
        <5>2. CASE j # Len(turns[n])
          <6>1. j \in 1..Len(turns[n]) - 1 /\ j + 1 \in 1..Len(turns[n]) BY <5>2, <3>4
          <6>2. Stands(turns[n][j + 1]) BY <6>1, <4>2, <4>3
          <6>3. walk'[turns[n][j + 1]].state = "standing" BY <6>1, <6>2, <3>3
          <6>4. turns'[n][j] = turns[n][j + 1] BY <6>1, <3>1
          <6> QED BY <6>3, <6>4
        <5> QED BY <5>1, <5>2
      <4>5. i = Len(turns[n])
        <5>1. \A k \in 1..Len(turns[n]) - 1 : k + 1 # 1 /\ k + 1 \in 1..Len(turns[n]) BY <2>s
        <5>2. \A k \in 1..Len(turns[n]) - 1 : turns'[n][k] # r BY <5>1, <3>1, <2>h
        <5> QED BY <5>2, <3>4, <3>5, <3>1
      <4> QED BY <4>4, <4>5, <3>1, <2>s
    <3>6. CASE active[n] # r
      <4>1. i \in 1..Len(turns[n]) - 1 /\ i + 1 \in 1..Len(turns[n]) /\ turns[n][i + 1] = active[n]
        BY <3>6, <3>4, <3>1
      <4>2. \A j \in (i + 1) + 1..Len(turns[n]) : Stands(turns[n][j]) BY <4>1, <3>2
      <4>3. ~Stands(active[n])
        <5>1. 1 \in 1..Len(turns[n]) BY <2>h, <2>s
        <5> QED BY <5>1, <4>1, <3>2, <2>h, <1>5 DEF Stands
      <4>4. walk'[active[n]].state # "standing"
        <5>1. active[n] \in Requests BY <4>1, <2>s
        <5> QED BY <5>1, <4>3, <3>6, <1>6 DEF Stands
      <4>5. \A j \in i + 1..Len(turns[n]) : walk'[turns'[n][j]].state = "standing"
        <5> TAKE j \in i + 1..Len(turns[n])
        <5>1. j \in 1..Len(turns[n]) /\ (j # Len(turns[n]) => j + 1 \in (i + 1) + 1..Len(turns[n]))
          BY <4>1, <2>s
        <5>2. CASE j = Len(turns[n]) BY <5>2, <3>1, <1>6
        <5>3. CASE j # Len(turns[n])
          <6>1. turns'[n][j] = turns[n][j + 1] /\ j + 1 \in 1..Len(turns[n])
            BY <5>1, <5>3, <3>1, <3>4
          <6>2. Stands(turns[n][j + 1]) BY <5>1, <5>3, <4>2
          <6> QED BY <6>1, <6>2, <3>3
        <5> QED BY <5>2, <5>3
      <4> QED BY <4>4, <4>5, <3>1
    <3> QED BY <3>5, <3>6
  <2>m. engine'[n].mixed <=> StillMixed(n, SearchOf(r)) BY <1>1 DEF StoodBy
  <2>7. ModuleKept(n)'
    <3> SUFFICES ASSUME platform = "browser", n \in Workers
                 PROVE  /\ engine'[n].module # "absent"
                        /\ ~engine'[n].mixed => Len(turns'[n]) < 2
      BY <1>5 DEF ModuleKept
    <3>1. engine'[n].module = engine[n].module BY <1>1 DEF StoodBy
    <3>2. Len(turns'[n]) = Len(turns[n]) BY <2>2 DEF Locked
    <3>3. ~engine[n].mixed => Len(turns[n]) < 2 BY <2>0, <2>h DEF EngineOK, ModuleKept
    <3>4. ~engine'[n].mixed => Len(turns[n]) < 2
      BY <3>3, <2>m, <2>s DEF StillMixed
    <3> QED BY <3>1, <3>2, <3>4, <2>h
  <2>8. TableKnown(n)'
    <3> SUFFICES ASSUME ~engine'[n].mixed, NEW known \in engine'[n].table
                 PROVE  IsPrefix(known, engine'[n].warmSearch)
      BY DEF TableKnown
    <3>1. /\ engine'[n].table = TableKept(engine[n], SearchOf(r))
          /\ engine'[n].warmSearch = LineOf(SearchOf(r))
      BY <1>1 DEF StoodBy
    <3>2. known \in engine[n].table /\ engine[n].warmSearch \in {SearchOf(r).history, LineOf(SearchOf(r))}
      BY <3>1 DEF TableKept
    <3>3. ~engine[n].mixed BY <3>2, <2>m DEF StillMixed
    <3>4. IsPrefix(known, engine[n].warmSearch) BY <3>2, <3>3, <2>0 DEF EngineOK, TableKnown
    <3>5. known \in Seq(Positions) BY <3>2, <1>t DEF EngineStates
    <3>6. CASE engine[n].warmSearch = LineOf(SearchOf(r)) BY <3>6, <3>4, <3>1
    <3>7. CASE engine[n].warmSearch = SearchOf(r).history
      <4>1. IsPrefix(known, SearchOf(r).history) BY <3>7, <3>4
      <4>2. IsPrefix(known, Append(SearchOf(r).history, SearchOf(r).current))
        BY <4>1, <3>5, <1>t, PrefixOfAppend
      <4> QED BY <4>2, <3>1 DEF LineOf
    <3> QED BY <3>2, <3>6, <3>7
  <2>9. HistoryBelieved(n)'
    <3> SUFFICES ASSUME ~engine'[n].spoiled PROVE engine'[n].history = engine'[n].warmHistory
      BY DEF HistoryBelieved
    <3>h. PICK h : h = SearchOf(r).history OBVIOUS
    <3>1. /\ engine'[n].history = HistoryWith(engine[n], h, Len(h))
          /\ engine'[n].warmHistory = h
      BY <3>h, <1>1 DEF StoodBy
    <3>2. ~(engine[n].spoiled /\ Continues(engine[n], h)) BY <3>h, <1>1 DEF StoodBy
    <3>3. Continues(engine[n], h) => engine[n].history = engine[n].warmHistory
      BY <3>2, <2>0 DEF EngineOK, HistoryBelieved, Continues
    <3>4. Len(h) \in Nat /\ Known(engine[n], h) \in 0..Len(h) BY <3>h, <1>n, <1>2, WholeHistory
    <3>5. Len(h) \in Known(engine[n], h)..Len(h) BY <3>4
    <3>6. h \in Seq(Positions) /\ h # Unknown BY <3>h, <1>t
    <3>7. HistoryWith(engine[n], h, Len(h)) = h BY <3>3, <3>5, <3>6, <1>t, HistoryWithFacts
    <3> QED BY <3>1, <3>7
  <2> QED BY <2>3, <2>4, <2>5, <2>6, <2>7, <2>8, <2>9 DEF EngineOK
<1> QED BY <1>9, <1>10

LEMMA OneIsBetween == \A k \in Nat : k > 0 /\ k < 2 => k = 1
  OBVIOUS

LEMMA LeavingKeepsEngines ==
  ASSUME LaneInv, EngineInv, NEW r \in Requests, Leaves(r) PROVE EngineInv'
<1>n. PICK n : n = EngineOf(on[r]) OBVIOUS
<1>1. TurnLeft(r, n) /\ EngineLeft(r, n) BY <1>n, LeavingATurn, LeavingEffects
<1>2. InHand(r) /\ HasTurn(r) BY <1>1 DEF TurnLeft
<1>3. TurnOf(r, n) BY <1>2, <1>n, HasTurnFacts
<1>4. n \in Engines BY <1>3 DEF TurnOf
<1>t. /\ turns \in [Engines -> Seq(Requests)]
      /\ IsPrefix(LineOf(SearchOf(r)), LineOf(SearchOf(r)))
  BY <1>2, <1>n, InHandFacts
<1>5. /\ UNCHANGED <<platform, on>>
      /\ turns' = [turns EXCEPT ![n] = Tail(@)]
      /\ \A q \in Requests : q # r => walk'[q] = walk[q]
      /\ \A w \in Workers : active'[w] \in {active[w], None}
  BY <1>1 DEF TurnLeft
<1>6. \A p \in Engines : \A q \in Range(turns[p]) : q \in Requests BY TurnFacts
<1> SUFFICES ASSUME NEW p \in Engines PROVE EngineOK(p)' BY DEF EngineInv
<1>9. CASE p # n
  <2>1. turns'[p] = turns[p] /\ engine'[p] = engine[p] BY <1>9, <1>1, <1>5, <1>t DEF EngineLeft
  <2>2. r \notin Range(turns[p]) BY <1>9, <1>3 DEF TurnOf
  <2>3. \A q \in Range(turns[p]) : walk'[q] = walk[q] /\ on'[q] = on[q] BY <2>2, <1>5, <1>6
  <2>4. p \in Workers /\ active'[p] \in Range(turns[p]) => active'[p] = active[p]
    BY <1>5, <1>6, ConstantFacts
  <2>5. LetBe(p) BY <2>1, <2>3, <2>4, <1>5 DEF LetBe
  <2> QED BY <2>5, EngineLetBe
<1>10. ASSUME p = n PROVE EngineOK(n)'
  <2>0. EngineOK(n) BY <1>4 DEF EngineInv
  <2>s. /\ turns[n] \in Seq(Requests) /\ Len(turns[n]) \in Nat /\ Once(turns[n])
        /\ \A i \in 1..Len(turns[n]) : turns[n][i] \in Requests /\ turns[n][i] \in Range(turns[n])
        /\ \A q \in Range(turns[n]) : q \in Requests /\ InHand(q) /\ EngineOf(on[q]) = n
    BY <1>4, TurnFacts
  <2>h. /\ turns[n] # <<>> /\ Head(turns[n]) = r /\ turns[n][1] = r /\ Len(turns[n]) > 0
        /\ \A i \in 1..Len(turns[n]) : turns[n][i] = r => i = 1
        /\ platform = "browser" => on[r] = n /\ n \in Workers /\ engine[n].module # "absent"
    BY <1>3 DEF TurnOf
  <2>1. turns'[n] = Tail(turns[n]) BY <1>4, <1>5, <1>t
  <2>2. /\ turns'[n] \in Seq(Requests) /\ Len(turns'[n]) = Len(turns[n]) - 1
        /\ \A i \in 1..Len(turns[n]) - 1 : turns'[n][i] = turns[n][i + 1]
    BY <2>1, <2>s, <2>h, TailAt
  <2>3. Range(turns'[n]) \subseteq Range(turns[n]) /\ Once(turns'[n]) /\ r \notin Range(turns'[n])
    BY <2>1, <2>s, <2>h, RangeOfTail
  <2>4. \A i \in 1..Len(turns[n]) - 1 :
          i + 1 \in 1..Len(turns[n]) /\ i + 1 \in 2..Len(turns[n]) /\ i + 1 # 1
    BY <2>s
  <2>5. \A i \in 1..Len(turns[n]) - 1 :
          turns[n][i + 1] # r /\ walk'[turns'[n][i]] = walk[turns[n][i + 1]]
    BY <2>2, <2>4, <2>h, <2>s, <1>5
  <2>6. TurnsTaken(n)'
    <3>1. \A q \in Range(turns'[n]) : walk'[q] = walk[q] /\ InHand(q) /\ EngineOf(on[q]) = n
      BY <2>3, <2>s, <1>5
    <3>2. \A q \in Range(turns'[n]) : InHand(q)' /\ EngineOf(on[q])' = n
      BY <3>1, <1>5 DEF InHand, EngineOf
    <3> QED BY <3>2, <2>3 DEF TurnsTaken
  <2>7. LockKept(n)'
    <3> SUFFICES ASSUME platform = "phone", NEW i \in 2..Len(turns'[n])
                 PROVE  walk'[turns'[n][i]].state # "standing"
      BY <1>5 DEF LockKept, Stands
    <3>1. i \in 1..Len(turns[n]) - 1 BY <2>2, <2>s
    <3>2. i + 1 \in 2..Len(turns[n]) BY <3>1, <2>4
    <3>3. walk[turns[n][i + 1]].state # "standing" BY <3>2, <2>0 DEF EngineOK, LockKept, Stands
    <3> QED BY <3>1, <3>3, <2>5
  <2>e. /\ engine'[n].module = engine[n].module
        /\ engine'[n].warmHistory = engine[n].warmHistory
        /\ engine'[n].warmSearch = engine[n].warmSearch
    BY <1>1 DEF EngineLeft
  <2>8. WarmKnown(n)'
    <3> SUFFICES ASSUME turns'[n] # <<>>, Stands(Holder(n))'
                 PROVE  /\ engine'[n].warmHistory = SearchOf(Holder(n))'.history
                        /\ engine'[n].warmSearch = LineOf(SearchOf(Holder(n)))'
      BY DEF WarmKnown
    <3>1. Len(turns'[n]) \in Nat /\ Len(turns'[n]) > 0 /\ turns'[n][1] = Head(turns'[n])
      BY <2>2, TailAt
    <3>2. Locked' = Locked /\ (Locked <=> platform = "phone") BY <1>5 DEF Locked
    <3>3. ~Locked
      <4> SUFFICES ASSUME Locked PROVE FALSE OBVIOUS
      <4>1. Holder(n)' = turns'[n][1] BY <3>1, <3>2 DEF Holder
      <4>2. 1 \in 1..Len(turns[n]) - 1 /\ 1 + 1 \in 2..Len(turns[n]) BY <3>1, <2>2, <2>s
      <4>3. walk'[turns'[n][1]] = walk[turns[n][1 + 1]] BY <4>2, <2>5
      <4>4. ~Stands(turns[n][1 + 1]) BY <4>2, <3>2, <2>0 DEF EngineOK, LockKept
      <4> QED BY <4>1, <4>3, <4>4 DEF Stands
    <3>4. Holder(n)' = turns'[n][Len(turns'[n])] BY <3>2, <3>3 DEF Holder
    <3>5. Holder(n) = turns[n][Len(turns[n])] BY <3>3 DEF Holder
    <3>6. Len(turns[n]) - 1 \in 1..Len(turns[n]) - 1 /\ (Len(turns[n]) - 1) + 1 = Len(turns[n])
      BY <3>1, <2>2, <2>s
    <3>7. Holder(n)' = Holder(n) BY <3>4, <3>5, <3>6, <2>2
    <3>8. walk'[Holder(n)'] = walk[Holder(n)] BY <3>4, <3>5, <3>6, <2>2, <2>5
    <3>9. Stands(Holder(n)) /\ SearchOf(Holder(n))' = SearchOf(Holder(n))
      BY <3>7, <3>8 DEF Stands, SearchOf
    <3> QED BY <3>9, <2>e, <2>h, <2>0 DEF EngineOK, WarmKnown, LineOf
  <2>9. ActiveIsLast(n)'
    <3> SUFFICES ASSUME platform = "browser", n \in Workers, NEW i \in 1..Len(turns'[n]),
                        turns'[n][i] = active'[n]
                 PROVE  /\ \A j \in i + 1..Len(turns'[n]) : walk'[turns'[n][j]].state = "standing"
                        /\ walk'[active'[n]].state = "standing" =>
                             /\ i = Len(turns'[n])
                             /\ \A j \in 1..Len(turns'[n]) : walk'[turns'[n][j]].state = "standing"
      BY <1>5 DEF ActiveIsLast, Stands
    <3>1. i \in 1..Len(turns[n]) - 1 /\ turns'[n][i] = turns[n][i + 1] /\ i + 1 \in 1..Len(turns[n])
      BY <2>2, <2>4
    <3>2. active'[n] = active[n]
      <4>1. active'[n] # None BY <3>1, <2>s, ConstantFacts
      <4> QED BY <4>1, <1>5
    <3>3. /\ \A j \in (i + 1) + 1..Len(turns[n]) : Stands(turns[n][j])
          /\ Stands(active[n]) =>
               i + 1 = Len(turns[n]) /\ \A j \in 1..Len(turns[n]) : Stands(turns[n][j])
      BY <3>1, <3>2, <2>0 DEF EngineOK, ActiveIsLast
    <3>4. walk'[active'[n]] = walk[active[n]] BY <3>1, <3>2, <2>5
    <3>5. \A j \in i + 1..Len(turns'[n]) :
            j \in 1..Len(turns[n]) - 1 /\ j + 1 \in (i + 1) + 1..Len(turns[n])
      BY <3>1, <2>2, <2>s
    <3>6. \A j \in i + 1..Len(turns'[n]) : walk'[turns'[n][j]].state = "standing"
      BY <3>5, <3>3, <2>5 DEF Stands
    <3>7. ASSUME walk'[active'[n]].state = "standing"
          PROVE  /\ i = Len(turns'[n])
                 /\ \A j \in 1..Len(turns'[n]) : walk'[turns'[n][j]].state = "standing"
      <4>1. i + 1 = Len(turns[n]) /\ \A j \in 1..Len(turns[n]) : Stands(turns[n][j])
        BY <3>7, <3>3, <3>4 DEF Stands
      <4>2. i = Len(turns'[n]) /\ 1..Len(turns'[n]) = 1..Len(turns[n]) - 1
        BY <4>1, <3>1, <2>2, <2>s
      <4>3. \A j \in 1..Len(turns[n]) - 1 : walk'[turns'[n][j]].state = "standing"
        <5> TAKE j \in 1..Len(turns[n]) - 1
        <5>1. Stands(turns[n][j + 1]) BY <4>1, <2>4
        <5>2. walk'[turns'[n][j]] = walk[turns[n][j + 1]] BY <2>5
        <5> QED BY <5>1, <5>2 DEF Stands
      <4> QED BY <4>2, <4>3
    <3> QED BY <3>6, <3>7
  <2>m. ~engine'[n].mixed => ~engine[n].mixed \/ (engine'[n].table = {} /\ Len(turns[n]) < 2)
    BY <1>1 DEF EngineLeft
  <2>k. platform = "browser" /\ ~engine[n].mixed => Len(turns[n]) < 2
    BY <2>0, <2>h DEF EngineOK, ModuleKept
  <2>10. ModuleKept(n)'
    <3> SUFFICES ASSUME platform = "browser", n \in Workers
                 PROVE  /\ engine'[n].module # "absent"
                        /\ ~engine'[n].mixed => Len(turns'[n]) < 2
      BY <1>5 DEF ModuleKept
    <3>1. ~engine'[n].mixed => Len(turns[n]) < 2 BY <2>m, <2>k
    <3> QED BY <3>1, <2>e, <2>h, <2>2, <2>s
  <2>11. TableKnown(n)'
    <3> SUFFICES ASSUME ~engine'[n].mixed, NEW known \in engine'[n].table
                 PROVE  IsPrefix(known, engine[n].warmSearch)
      BY <2>e DEF TableKnown
    <3>1. ~engine[n].mixed BY <2>m
    <3>2. known \in engine[n].table \/ (Stands(r) /\ known = LineOf(SearchOf(r)))
      BY <1>1 DEF EngineLeft
    <3>3. CASE known \in engine[n].table BY <3>1, <3>3, <2>0 DEF EngineOK, TableKnown
    <3>4. ASSUME Stands(r), known = LineOf(SearchOf(r)) PROVE IsPrefix(known, engine[n].warmSearch)
      <4>1. Holder(n) = r
        <5>1. CASE Locked BY <5>1, <2>h DEF Holder
        <5>2. CASE ~Locked
          <6>1. platform = "browser"
            <7>1. platform \in {"browser", "phone"}
              BY LaneAssumption DEF LaneInv, LaneTypeOK
            <7> QED BY <7>1, <5>2 DEF Locked
          <6>2. Len(turns[n]) < 2 BY <6>1, <3>1, <2>k
          <6>3. Len(turns[n]) = 1 BY <6>2, <2>h, <2>s, OneIsBetween
          <6> QED BY <6>3, <5>2, <2>h DEF Holder
        <5> QED BY <5>1, <5>2
      <4>2. engine[n].warmSearch = LineOf(SearchOf(r))
        BY <4>1, <3>4, <2>0, <2>h DEF EngineOK, WarmKnown
      <4> QED BY <4>2, <3>4, <1>t
    <3> QED BY <3>2, <3>3, <3>4
  <2>12. HistoryBelieved(n)'
    <3>1. ~engine'[n].spoiled => ~engine[n].spoiled /\ engine'[n].history = engine[n].history
      BY <1>1 DEF EngineLeft
    <3> QED BY <3>1, <2>e, <2>0 DEF EngineOK, HistoryBelieved
  <2> QED BY <2>6, <2>7, <2>8, <2>9, <2>10, <2>11, <2>12 DEF EngineOK
<1> QED BY <1>9, <1>10

\* A step of the client's side leaves the engines alone.
LEMMA AskingKeepsEngines ==
  ASSUME LaneInv, EngineInv, UNCHANGED <<platform, active, walk, turns, engine>>,
         \A q \in Requests : on'[q] = on[q] \/ stage[q] \in {"idle", "queued"}
  PROVE  EngineInv'
<1>1. \A n \in Engines : \A q \in Range(turns[n]) : walk'[q] = walk[q] /\ on'[q] = on[q]
  <2> SUFFICES ASSUME NEW n \in Engines, NEW q \in Range(turns[n]) PROVE on'[q] = on[q]
    OBVIOUS
  <2>1. q \in Requests /\ walk[q].state # "none" BY TurnFacts DEF InHand
  <2>2. stage[q] \notin {"idle", "queued"} BY <2>1 DEF LaneInv, WalkInv, Fresh
  <2> QED BY <2>1, <2>2
<1> QED BY <1>1, EnginesLetBe

LEMMA SentMovesOne ==
  ASSUME LaneInv, NEW r \in Requests, Sent(r), NEW q \in Requests, q # r PROVE on'[q] = on[q]
<1>1. on \in [Requests -> 0..MaxWorkers] BY TypeFacts DEF LaneInv
<1> QED BY <1>1 DEF Sent

LEMMA HostTakesKeepsEngines ==
  ASSUME LaneInv, EngineInv, NEW w \in Workers, HostTakes(w) PROVE EngineInv'
<1>r. PICK r : r = Head(toWorker[w]) OBVIOUS
<1>1. /\ toWorker[w] # <<>> /\ active' = [active EXCEPT ![w] = r]
      /\ walk' = [walk EXCEPT ![r] = [at |-> 1, state |-> "yielded"]]
      /\ UNCHANGED <<platform, on, turns, engine>>
  BY <1>r DEF HostTakes
<1>t. /\ walk \in [Requests -> [at : Nat, state : WalkStates]]
      /\ active \in [Workers -> Requests \cup {None}] /\ toWorker[w] \in Seq(Requests)
  BY TypeFacts DEF LaneInv
<1>2. r \in Requests /\ r \in Mailbox(w) BY <1>r, <1>1, <1>t, RangeOfTail DEF Mailbox
<1>3. walk[r].state = "none" BY <1>2 DEF LaneInv, MailInv, Idle
<1>4. \A n \in Engines : r \notin Range(turns[n])
  <2>1. ~InHand(r) BY <1>3 DEF InHand
  <2> QED BY <2>1, TurnFacts
<1>5. \A n \in Engines : \A q \in Range(turns[n]) : walk'[q] = walk[q] /\ on'[q] = on[q]
  BY <1>1, <1>4, <1>t, TurnFacts
<1>6. \A n \in Workers : active'[n] \in Range(turns[n]) => active'[n] = active[n]
  BY <1>1, <1>4, <1>t, WorkersAreEngines
<1> QED BY <1>1, <1>5, <1>6, EnginesLetBe

LEMMA EngineGoesOn == LaneInv /\ EngineInv /\ [LaneNext]_laneVars => EngineInv'
<1> SUFFICES ASSUME LaneInv, EngineInv, [LaneNext]_laneVars PROVE EngineInv'
  OBVIOUS
<1>t. worker \in [Lanes -> 0..MaxWorkers] /\ stage \in [Requests -> Stages]
  BY TypeFacts DEF LaneInv
<1>1. CASE UNCHANGED laneVars BY <1>1, AskingKeepsEngines DEF laneVars
<1>2. ASSUME NEW r \in Requests,
             AskDirectly(r) \/ AskInTurn(r) \/ Abort(r) \/ Timeout(r)
               \/ Resume(r) \/ StandOn(r) \/ HistoryRefused(r)
               \/ CallFails(r) \/ Search(r) \/ SearchFails(r)
      PROVE  EngineInv'
  <2>l. LaneOf[r] \in Lanes BY ConstantFacts
  <2>1. CASE AskDirectly(r)
    <3>1. /\ UNCHANGED <<platform, active, walk, turns, engine>> /\ stage[r] = "idle" /\ Sent(r)
      BY <2>1 DEF AskDirectly, Unasked
    <3> QED BY <3>1, SentMovesOne, AskingKeepsEngines
  <2>2. CASE AskInTurn(r) BY <2>2, AskingKeepsEngines DEF AskInTurn
  <2>3. CASE Abort(r)
    <3>1. CASE stage[r] = "sent"
      <4>1. StopWorker(LaneOf[r], r, "cancelled") /\ UNCHANGED <<platform, on>>
        BY <2>3, <3>1 DEF Abort
      <4>2. worker[LaneOf[r]] # 0 /\ StoppedFor(LaneOf[r], r)
        BY <3>1, PendingIsBacked DEF StoppedFor, Pending
      <4> QED BY <4>1, <4>2, ConstantFacts, EngineStops DEF Outcomes
    <3>2. CASE stage[r] # "sent" BY <2>3, <3>2, AskingKeepsEngines DEF Abort
    <3> QED BY <3>1, <3>2
  <2>4. CASE Timeout(r)
    <3>1. stage[r] = "sent" /\ StopWorker(LaneOf[r], r, "failed") /\ UNCHANGED <<platform, on>>
      BY <2>4 DEF Timeout
    <3>2. worker[LaneOf[r]] # 0 /\ StoppedFor(LaneOf[r], r)
      BY <3>1, PendingIsBacked DEF StoppedFor, Pending
    <3> QED BY <3>1, <3>2, ConstantFacts, EngineStops DEF Outcomes
  <2> QED BY <1>2, <2>1, <2>2, <2>3, <2>4, ResumeKeepsEngines, StandOnKeepsEngines,
             LeavingKeepsEngines DEF Leaves
<1>3. ASSUME NEW l \in Lanes, BeginQueued(l) \/ Crash(l) PROVE EngineInv'
  <2>1. CASE BeginQueued(l)
    <3>1. UNCHANGED <<platform, active, walk, turns, engine>> BY <2>1 DEF BeginQueued
    <3>2. PICK r : r = Head(queue[l]) OBVIOUS
    <3>3. r \in Requests /\ stage[r] = "queued"
      <4>1. queue[l] # <<>> /\ queue[l] \in Seq(Exclusive)
        BY <2>1, TypeFacts DEF BeginQueued, LaneInv
      <4>2. r \in Range(queue[l]) BY <4>1, <3>2, RangeOfTail
      <4> QED BY <4>2, QueueFacts
    <3>4. \A q \in Requests : q # r => on'[q] = on[q]
      <4>1. CASE r \in aborted BY <2>1, <3>2, <4>1 DEF BeginQueued
      <4>2. CASE r \notin aborted
        <5>1. Sent(r) BY <2>1, <3>2, <4>2 DEF BeginQueued
        <5> QED BY <5>1, <3>3, SentMovesOne
      <4> QED BY <4>1, <4>2
    <3> QED BY <3>1, <3>3, <3>4, AskingKeepsEngines
  <2>2. CASE Crash(l)
    <3>1. Pending(l) # {} /\ StopWorker(l, None, "failed") /\ UNCHANGED <<platform, on>>
      BY <2>2 DEF Crash
    <3>2. worker[l] # 0 /\ StoppedFor(l, None)
      BY <3>1, PendingIsBacked DEF StoppedFor, Pending
    <3> QED BY <3>1, <3>2, EngineStops DEF Outcomes
  <2> QED BY <1>3, <2>1, <2>2
<1>4. ASSUME NEW w \in Workers, Receive(w) \/ HostTakes(w) PROVE EngineInv'
  <2>1. CASE Receive(w) BY <2>1, AskingKeepsEngines DEF Receive
  <2> QED BY <1>4, <2>1, HostTakesKeepsEngines
<1>5. ASSUME NEW w \in Workers, LoadEnds(w) PROVE EngineInv' BY <1>5, LoadEndsKeepsEngines
<1> QED BY <1>1, <1>2, <1>3, <1>4, <1>5 DEF LaneNext, Delivered

LEMMA EngineAlways == LaneSpec => [](LaneInv /\ EngineInv)
<1>1. LaneInit => LaneInv /\ EngineInv BY LaneStarts, EngineStarts
<1>2. LaneInv /\ EngineInv /\ [LaneNext]_laneVars => (LaneInv /\ EngineInv)'
  BY LaneGoesOn, EngineGoesOn
<1> QED BY <1>1, <1>2, PTL DEF LaneSpec

\* Of one who stands and has the turn: its table, where no walks wait for the
\* module together, and the history, are what the session believes them to be.
LEMMA StandsForItsSearch ==
  ASSUME LaneInv, EngineInv, NEW r \in Requests, Stands(r), HasTurn(r),
         NEW n, n = EngineOf(on[r]), Holder(n) = r
  PROVE  /\ n \in Engines /\ EngineOK(n)
         /\ engine[n].warmHistory = SearchOf(r).history /\ engine[n].warmHistory # Unknown
         /\ engine[n].warmSearch = LineOf(SearchOf(r))
<1>1. InHand(r) BY DEF InHand, Stands
<1>2. n \in Engines /\ turns[n] # <<>> BY <1>1, HasTurnFacts DEF TurnOf
<1>3. SearchOf(r).history # Unknown BY <1>1, InHandFacts
<1>4. EngineOK(n) BY <1>2 DEF EngineInv
<1>5. WarmKnown(n) BY <1>4 DEF EngineOK
<1> QED BY <1>2, <1>3, <1>4, <1>5 DEF WarmKnown

LEMMA PlatformIsEither == LaneInv => platform \in {"browser", "phone"}
  BY LaneAssumption DEF LaneInv, LaneTypeOK

\* For every set of questions and workers: a search meets no table but one of its
\* own line, on a phone always, in a browser unless questions waited together for
\* the module (session.ts:307-343, worker/index.ts:39-71).
THEOREM TableStaysOfOneLine == LaneSpec => []TableIsOfOneLine
<1>1. LaneInv /\ EngineInv => TableIsOfOneLine
  <2> SUFFICES ASSUME LaneInv, EngineInv, NEW r \in Requests, Stands(r), HasTurn(r),
                      ~engine[EngineOf(on[r])].mixed, NEW known \in engine[EngineOf(on[r])].table
               PROVE  IsPrefix(known, LineOf(SearchOf(r)))
    BY DEF TableIsOfOneLine, Stands
  <2>n. PICK n : n = EngineOf(on[r]) OBVIOUS
  <2>1. InHand(r) BY DEF InHand, Stands
  <2>2. TurnOf(r, n) BY <2>n, <2>1, HasTurnFacts
  <2>3. EngineOK(n) BY <2>2 DEF EngineInv, TurnOf
  <2>4. Holder(n) = r
    <3>1. CASE Locked BY <3>1, <2>2 DEF Holder, TurnOf
    <3>2. CASE ~Locked
      <4>1. platform = "browser" BY <3>2, PlatformIsEither DEF Locked
      <4>2. n \in Workers /\ engine[n].module # "absent" BY <4>1, <2>2 DEF TurnOf
      <4>3. ~engine[n].mixed BY <2>n
      <4>4. Len(turns[n]) < 2 BY <4>1, <4>2, <4>3, <2>3 DEF EngineOK, ModuleKept
      <4>5. Len(turns[n]) = 1 /\ turns[n][1] = r BY <4>4, <2>2, OneIsBetween DEF TurnOf
      <4> QED BY <4>5, <3>2 DEF Holder
    <3> QED BY <3>1, <3>2
  <2>5. engine[n].warmSearch = LineOf(SearchOf(r)) BY <2>n, <2>4, StandsForItsSearch
  <2>6. TableKnown(n) BY <2>3 DEF EngineOK
  <2> QED BY <2>n, <2>5, <2>6 DEF TableKnown
<1> QED BY <1>1, EngineAlways, PTL

\* For every set of questions and workers: no search that somebody may be waiting
\* for runs under another question's game, unless the engine has refused a
\* position and no history was set whole since (session.ts:314-343, 345-349,
\* nativeSession.ts:84-97, worker/index.ts:39-71).
THEOREM SearchesStandInTheirGame == LaneSpec => []EngineStandsWhereItSearches
<1>1. LaneInv /\ EngineInv => EngineStandsWhereItSearches
  <2> SUFFICES ASSUME LaneInv, EngineInv, NEW r \in Requests, ToBeSearched(r),
                      ~engine[EngineOf(on[r])].spoiled
               PROVE  engine[EngineOf(on[r])].history = SearchOf(r).history
    BY DEF EngineStandsWhereItSearches
  <2>n. PICK n : n = EngineOf(on[r]) OBVIOUS
  <2>1. InHand(r) /\ Stands(r) /\ HasTurn(r) BY DEF ToBeSearched, InHand, Stands
  <2>2. TurnOf(r, n) BY <2>n, <2>1, HasTurnFacts
  <2>3. EngineOK(n) BY <2>2 DEF EngineInv, TurnOf
  <2>4. Holder(n) = r
    <3>1. CASE Locked BY <3>1, <2>2 DEF Holder, TurnOf
    <3>2. CASE ~Locked
      <4>1. platform = "browser" BY <3>2, PlatformIsEither DEF Locked
      <4>2. n \in Workers /\ on[r] = n BY <4>1, <2>2 DEF TurnOf
      <4>3. active[n] = r BY <4>1, <4>2 DEF ToBeSearched, Cancelled
      <4>4. 1 \in 1..Len(turns[n]) /\ turns[n][1] = r BY <2>2 DEF TurnOf
      <4>5. Len(turns[n]) = 1
        BY <4>1, <4>2, <4>3, <4>4, <2>1, <2>3 DEF EngineOK, ActiveIsLast
      <4> QED BY <4>4, <4>5, <3>2 DEF Holder
    <3> QED BY <3>1, <3>2
  <2>5. engine[n].warmHistory = SearchOf(r).history /\ engine[n].warmHistory # Unknown
    BY <2>n, <2>1, <2>4, StandsForItsSearch
  <2>6. HistoryBelieved(n) BY <2>3 DEF EngineOK
  <2> QED BY <2>n, <2>5, <2>6 DEF HistoryBelieved
<1> QED BY <1>1, EngineAlways, PTL

-----------------------------------------------------------------------------
(* The lanes implement AnswerService.                                      *)

\* The state of AnswerService that a state of the lanes stands for.
Told == [r \in Requests |-> IF stage[r] \in {"queued", "sent"} THEN "waiting" ELSE stage[r]]
InLine == [l \in Lanes |-> InTurn(l) \o queue[l]]

LEMMA ToldFacts ==
  ASSUME LaneTypeOK, NEW r \in Requests
  PROVE  /\ stage[r] \in {"queued", "sent"} => Told[r] = "waiting"
         /\ stage[r] \notin {"queued", "sent"} => Told[r] = stage[r] /\ Told[r] # "waiting"
  BY TypeFacts DEF Told, Stages, Outcomes

\* The question whose turn it is, when there is but one it may be.
LEMMA ChosenInTurn ==
  ASSUME NEW S, NEW q \in Exclusive, q \in S, \A p \in Exclusive : p \in S => p = q
  PROVE  (CHOOSE r \in Exclusive : r \in S) = q
  OBVIOUS

LEMMA NobodyInTurn ==
  ASSUME LaneInv, NEW l \in Lanes, TurnIsOver(l)
  PROVE  InLine[l] = queue[l]
<1>1. InTurn(l) = <<>> BY DEF InTurn
<1>2. queue[l] \in Seq(Exclusive) BY QueueFacts
<1> QED BY <1>1, <1>2, ConcatEmptySeq DEF InLine

LEMMA SomebodyInTurn ==
  ASSUME LaneInv, NEW l \in Lanes, NEW q \in Exclusive, q \in Pending(l)
  PROVE  /\ InLine[l] = <<q>> \o queue[l] /\ InLine[l] # <<>>
         /\ Head(InLine[l]) = q /\ Tail(InLine[l]) = queue[l]
<1>1. ~TurnIsOver(l) BY DEF TurnIsOver
<1>2. \A p \in Exclusive : p \in Pending(l) => p = q BY DEF LaneInv, QueueInv, Pending
<1>3. InTurn(l) = <<q>> BY <1>1, <1>2, ChosenInTurn DEF InTurn
<1>4. queue[l] \in Seq(Exclusive) BY QueueFacts
<1>5. InLine[l] = <<q>> \o queue[l] BY <1>3 DEF InLine
<1> QED BY <1>4, <1>5

\* Whoever waits in line is asked for, waits, and may settle only when first.
LEMMA FirstMaySettle ==
  ASSUME LaneInv, NEW q \in Requests,
         \/ stage[q] = "sent"
         \/ LET l == LaneOf[q] IN TurnIsOver(l) /\ queue[l] # <<>> /\ Head(queue[l]) = q
  PROVE  /\ Told[q] = "waiting"
         /\ q \in Exclusive => Head(InLine[LaneOf[q]]) = q
<1>1. LaneTypeOK /\ LaneOf[q] \in Lanes BY ConstantFacts DEF LaneInv
<1>2. CASE stage[q] = "sent"
  <2>1. q \in Pending(LaneOf[q]) BY <1>2 DEF Pending
  <2> QED BY <2>1, <1>1, <1>2, SomebodyInTurn, ToldFacts
<1>3. CASE LET l == LaneOf[q] IN TurnIsOver(l) /\ queue[l] # <<>> /\ Head(queue[l]) = q
  <2>1. q \in Range(queue[LaneOf[q]]) BY <1>1, <1>3, QueueFacts, RangeOfTail
  <2>2. stage[q] = "queued" BY <1>1, <2>1, QueueFacts
  <2> QED BY <2>2, <1>1, <1>3, NobodyInTurn, ToldFacts
<1> QED BY <1>2, <1>3

\* Pending questions end, and each line loses its first if that one ended.
LEMMA LineMoves ==
  ASSUME LaneInv, LaneInv', NEW l \in Lanes, queue' = queue,
         \A q \in Requests : stage'[q] = stage[q] \/ (stage[q] = "sent" /\ stage'[q] \in Outcomes)
  PROVE  InLine'[l] = IF InLine[l] # <<>> /\ Told'[Head(InLine[l])] # "waiting"
                      THEN Tail(InLine[l]) ELSE InLine[l]
<1>0. /\ LaneTypeOK /\ LaneTypeOK' /\ queue[l] \in Seq(Exclusive) /\ Exclusive \subseteq Requests
  BY QueueFacts, ConstantFacts DEF LaneInv
<1>1. \A q \in Requests : q \in Pending(l)' => q \in Pending(l) BY DEF Pending, Outcomes
<1>2. CASE TurnIsOver(l)
  <2>1. TurnIsOver(l)' BY <1>0, <1>1, <1>2 DEF TurnIsOver
  <2>2. InLine[l] = queue[l] BY <1>2, NobodyInTurn
  <2>3. InTurn(l)' = <<>> BY <2>1 DEF InTurn
  <2>4. InLine'[l] = queue[l] BY <2>3, <1>0, ConcatEmptySeq DEF InLine
  <2>5. ASSUME queue[l] # <<>> PROVE Told'[Head(queue[l])] = "waiting"
    <3>1. Head(queue[l]) \in Range(queue[l]) BY <2>5, <1>0, RangeOfTail
    <3>2. Head(queue[l]) \in Requests /\ stage[Head(queue[l])] = "queued" BY <3>1, QueueFacts
    <3>3. stage'[Head(queue[l])] = "queued" BY <3>2
    <3> QED BY <3>2, <3>3 DEF Told
  <2> QED BY <2>2, <2>4, <2>5
<1>3. ASSUME NEW q \in Exclusive, q \in Pending(l)
      PROVE  InLine'[l] = IF InLine[l] # <<>> /\ Told'[Head(InLine[l])] # "waiting"
                          THEN Tail(InLine[l]) ELSE InLine[l]
  <2>1. /\ InLine[l] = <<q>> \o queue[l] /\ InLine[l] # <<>>
        /\ Head(InLine[l]) = q /\ Tail(InLine[l]) = queue[l]
    BY <1>3, SomebodyInTurn
  <2>2. \A p \in Exclusive : p \in Pending(l) => p = q
    BY <1>3 DEF LaneInv, QueueInv, Pending
  <2>3. q \in Requests /\ stage[q] = "sent" /\ LaneOf[q] = l BY <1>3 DEF Pending
  <2>4. CASE stage'[q] = "sent"
    <3>1. q \in Pending(l)' BY <2>3, <2>4 DEF Pending
    <3>2. ~TurnIsOver(l)' BY <3>1 DEF TurnIsOver
    <3>3. \A p \in Exclusive : p \in Pending(l)' => p = q BY <2>2, <1>0, <1>1
    <3>4. InTurn(l)' = <<q>> BY <3>1, <3>2, <3>3, ChosenInTurn DEF InTurn
    <3>5. InLine'[l] = InLine[l] BY <3>4, <2>1 DEF InLine
    <3>6. Told'[q] = "waiting" BY <2>3, <2>4 DEF Told
    <3> QED BY <2>1, <3>5, <3>6
  <2>5. CASE stage'[q] # "sent"
    <3>1. stage'[q] \in Outcomes BY <2>3, <2>5
    <3>2. Told'[q] # "waiting" BY <3>1, <2>3 DEF Told, Outcomes
    <3>3. q \notin Pending(l)' BY <2>5 DEF Pending
    <3>4. TurnIsOver(l)' BY <3>3, <2>2, <1>0, <1>1 DEF TurnIsOver
    <3>5. InTurn(l)' = <<>> BY <3>4 DEF InTurn
    <3>6. InLine'[l] = queue[l] BY <3>5, <1>0, ConcatEmptySeq DEF InLine
    <3> QED BY <2>1, <3>2, <3>6
  <2> QED BY <2>4, <2>5
<1> QED BY <1>2, <1>3 DEF TurnIsOver

\* What a settling step has to show of the state it stands for.
Settling ==
  /\ aborted \subseteq aborted'
  /\ \A q \in aborted' \ aborted : q \in Requests /\ Told[q] = "waiting"
  /\ \A q \in Requests : Told'[q] # Told[q] =>
       /\ Told[q] = "waiting" /\ (q \in Exclusive => Head(InLine[LaneOf[q]]) = q)
       /\ Told'[q] \in Outcomes
       /\ Told'[q] = "cancelled" /\ Service!Orderly(LaneOf[q]) => q \in aborted'
  /\ \A l \in Lanes : InLine'[l] = IF InLine[l] # <<>> /\ Told'[Head(InLine[l])] # "waiting"
                                   THEN Tail(InLine[l]) ELSE InLine[l]

LEMMA SettlingSettles == Settling => Service!Settle
<1> SUFFICES ASSUME Settling PROVE Service!Settle OBVIOUS
<1>1. \A q : q \in Service!Waiting <=> q \in Requests /\ Told[q] = "waiting"
  BY DEF Service!Waiting, Told
<1>2. \A q \in Requests : q \in Service!Waiting /\ (q \in Exclusive => Head(InLine[LaneOf[q]]) = q)
                          => Service!MaySettle(q)
  BY DEF Service!MaySettle, InLine
<1>3. InLine' = [l \in Lanes |-> IF InLine[l] # <<>> /\ Told'[Head(InLine[l])] # "waiting"
                                 THEN Tail(InLine[l]) ELSE InLine[l]]
  BY DEF Settling, InLine
<1>4. aborted \subseteq aborted' /\ aborted' \ aborted \subseteq Service!Waiting
  BY <1>1 DEF Settling
<1>5. \A q \in Requests : Told'[q] # Told[q] =>
        /\ Service!MaySettle(q) /\ Told'[q] \in Outcomes
        /\ Told'[q] = "cancelled" /\ Service!Orderly(LaneOf[q]) => q \in aborted'
  BY <1>1, <1>2 DEF Settling
<1> QED BY <1>3, <1>4, <1>5 DEF Service!Settle, Service!Outcomes, Outcomes, Told, InLine

\* Some pending questions end and some callers give up.
LEMMA EndsSettle ==
  ASSUME LaneInv, LaneInv', queue' = queue, aborted \subseteq aborted',
         \A q \in aborted' \ aborted : q \in Requests /\ stage[q] \in {"queued", "sent"},
         \A q \in Requests : stage'[q] = stage[q] \/ (stage[q] = "sent" /\ stage'[q] \in Outcomes),
         \A q \in Requests : stage'[q] # stage[q] /\ stage'[q] = "cancelled"
           /\ Service!Orderly(LaneOf[q]) => q \in aborted'
  PROVE  Service!Settle
<1>1. \A q \in aborted' \ aborted : q \in Requests /\ Told[q] = "waiting"
  BY ToldFacts DEF LaneInv
<1>2. ASSUME NEW q \in Requests, Told'[q] # Told[q]
      PROVE  /\ Told[q] = "waiting" /\ (q \in Exclusive => Head(InLine[LaneOf[q]]) = q)
             /\ Told'[q] \in Outcomes
             /\ Told'[q] = "cancelled" /\ Service!Orderly(LaneOf[q]) => q \in aborted'
  <2>1. stage[q] = "sent" /\ stage'[q] \in Outcomes /\ stage'[q] # stage[q] BY <1>2 DEF Told
  <2>2. Told'[q] = stage'[q] BY <2>1 DEF Told, Outcomes
  <2>3. Told[q] = "waiting" /\ (q \in Exclusive => Head(InLine[LaneOf[q]]) = q)
    BY <2>1, FirstMaySettle
  <2> QED BY <2>1, <2>2, <2>3
<1>3. \A l \in Lanes : InLine'[l] = IF InLine[l] # <<>> /\ Told'[Head(InLine[l])] # "waiting"
                                    THEN Tail(InLine[l]) ELSE InLine[l]
  BY LineMoves
<1>4. Settling BY <1>1, <1>2, <1>3 DEF Settling
<1> QED BY <1>4, SettlingSettles

LEMMA StopSettles ==
  ASSUME LaneInv, LaneInv', NEW l \in Lanes, worker[l] # 0, NEW r, StoppedFor(l, r),
         NEW outcome \in Outcomes, StopWorker(l, r, outcome), platform' = platform,
         queue' = queue, aborted \subseteq aborted',
         \A q \in aborted' \ aborted : q \in Requests /\ stage[q] \in {"queued", "sent"},
         outcome = "cancelled" => r \in aborted'
  PROVE  Service!Settle
<1>1. /\ \A q \in Requests : q \in Pending(l) => stage'[q] \in {outcome, "failed"}
      /\ \A q \in Requests : q \in Pending(l) /\ q # r => stage'[q] = "failed"
      /\ \A q \in Requests : q \notin Pending(l) => stage'[q] = stage[q]
  <2>1. worker[l] \in Workers BY TypeFacts DEF LaneInv, Workers
  <2>2. PICK w \in Workers : w = worker[l] BY <2>1
  <2>3. StopLeaves(l, w, r, outcome) BY <2>2, StopEffects
  <2> QED BY <2>3 DEF StopLeaves
<1>2. \A q \in Requests : stage'[q] = stage[q] \/ (stage[q] = "sent" /\ stage'[q] \in Outcomes)
  BY <1>1 DEF Pending, Outcomes
<1>3. \A q \in Requests : stage'[q] # stage[q] /\ stage'[q] = "cancelled" => q \in aborted'
  BY <1>1
<1> QED BY <1>2, <1>3, EndsSettle

LEMMA ServiceStands ==
  ASSUME UNCHANGED <<stage, queue, aborted>> PROVE UNCHANGED Service!serviceVars
<1>1. \A l \in Lanes : Pending(l)' = Pending(l) BY DEF Pending
<1>2. ASSUME NEW l \in Lanes PROVE InTurn(l)' = InTurn(l)
  <2>1. Pending(l)' = Pending(l) BY <1>1
  <2> QED BY <2>1 DEF InTurn, TurnIsOver
<1> QED BY <1>2 DEF Service!serviceVars

LEMMA AskingAsks ==
  ASSUME LaneInv, LaneInv', NEW r \in Requests, AskDirectly(r) \/ AskInTurn(r)
  PROVE  Service!Ask(r)
<1>0. /\ LaneTypeOK /\ LaneTypeOK' /\ stage \in [Requests -> Stages] /\ LaneOf[r] \in Lanes
      /\ Exclusive \subseteq Requests /\ queue \in [Lanes -> Seq(Exclusive)]
  BY TypeFacts, ConstantFacts DEF LaneInv
<1>1. stage[r] = "idle" /\ aborted' = aborted /\ r \notin aborted
  BY DEF AskDirectly, AskInTurn, Unasked, LaneInv, QueueInv
<1>2. \A q \in Requests : q # r => stage'[q] = stage[q]
  BY <1>0, <1>1 DEF AskDirectly, AskInTurn, Sent
<1>3. stage'[r] \in {"queued", "sent"}
  BY <1>0, <1>1 DEF AskDirectly, AskInTurn, Sent
<1>4. Told[r] = "idle" /\ Told' = [Told EXCEPT ![r] = "waiting"]
  <2>1. Told'[r] = "waiting" /\ \A q \in Requests : q # r => Told'[q] = Told[q]
    BY <1>2, <1>3 DEF Told
  <2> QED BY <2>1, <1>1 DEF Told
<1>5. \A l \in Lanes : \A p \in Exclusive : p \in Pending(l)' <=> p \in Pending(l)
  <2>1. r \in Exclusive => stage'[r] = "queued"
    BY <1>0 DEF AskDirectly, AskInTurn
  <2>2. r \in Exclusive => stage'[r] # "sent" BY <2>1
  <2> QED BY <2>2, <1>0, <1>1, <1>2 DEF Pending
<1>6. \A l \in Lanes : InTurn(l)' = InTurn(l)
  <2> TAKE l \in Lanes
  <2>1. CASE TurnIsOver(l)
    <3>1. TurnIsOver(l)' BY <2>1, <1>5, <1>0 DEF TurnIsOver
    <3> QED BY <3>1, <2>1 DEF InTurn
  <2>2. ASSUME NEW q \in Exclusive, q \in Pending(l) PROVE InTurn(l)' = InTurn(l)
    <3>1. \A p \in Exclusive : p \in Pending(l) => p = q
      BY <2>2 DEF LaneInv, QueueInv, Pending
    <3>2. InTurn(l) = <<q>> BY <2>2, <3>1, ChosenInTurn DEF InTurn, TurnIsOver
    <3>3. q \in Pending(l)' /\ \A p \in Exclusive : p \in Pending(l)' => p = q
      BY <3>1, <2>2, <1>5
    <3>4. InTurn(l)' = <<q>> BY <3>3, ChosenInTurn DEF InTurn, TurnIsOver
    <3> QED BY <3>2, <3>4
  <2> QED BY <2>1, <2>2 DEF TurnIsOver
<1>7. CASE r \notin Exclusive
  <2>1. queue' = queue BY <1>7 DEF AskDirectly, AskInTurn
  <2>2. InLine' = InLine BY <2>1, <1>6 DEF InLine
  <2> QED BY <2>2, <1>1, <1>4, <1>7 DEF Service!Ask, Told, InLine
<1>8. CASE r \in Exclusive
  <2> DEFINE k == LaneOf[r]
  <2>1. queue' = [queue EXCEPT ![k] = Append(@, r)] BY <1>8 DEF AskDirectly, AskInTurn
  <2>2. queue'[k] = Append(queue[k], r) /\ \A l \in Lanes : l # k => queue'[l] = queue[l]
    BY <2>1, <1>0
  <2>3. \A l \in Lanes : l # k => InLine'[l] = InLine[l] BY <2>2, <1>6 DEF InLine
  <2>4. InLine'[k] = Append(InLine[k], r)
    <3>1. queue[k] \in Seq(Exclusive) BY <1>0
    <3>2. InTurn(k) \in Seq(Exclusive)
      <4>1. CASE TurnIsOver(k) BY <4>1, EmptySeq DEF InTurn
      <4>2. ASSUME NEW q \in Exclusive, q \in Pending(k) PROVE InTurn(k) \in Seq(Exclusive)
        <5>1. \A p \in Exclusive : p \in Pending(k) => p = q
          BY <4>2 DEF LaneInv, QueueInv, Pending
        <5>2. InTurn(k) = <<q>> BY <4>2, <5>1, ChosenInTurn DEF InTurn, TurnIsOver
        <5> QED BY <5>2
      <4> QED BY <4>1, <4>2 DEF TurnIsOver
    <3>3. InLine'[k] = InTurn(k) \o Append(queue[k], r) BY <2>2, <1>6, <1>0 DEF InLine
    <3>4. Append(queue[k], r) = queue[k] \o <<r>> /\ <<r>> \in Seq(Exclusive)
      BY <3>1, <1>8, AppendIsConcat
    <3>5. InTurn(k) \o (queue[k] \o <<r>>) = (InTurn(k) \o queue[k]) \o <<r>>
      <4> DEFINE head == InTurn(k)
                 rest == queue[k]
                 last == <<r>>
      <4>1. head \in Seq(Exclusive) /\ rest \in Seq(Exclusive) /\ last \in Seq(Exclusive)
        BY <3>1, <3>2, <3>4
      <4> HIDE DEF head, rest, last
      <4>2. head \o (rest \o last) = (head \o rest) \o last BY <4>1, ConcatAssociative
      <4> QED BY <4>2 DEF head, rest, last
    <3>6. InTurn(k) \o queue[k] \in Seq(Exclusive) BY <3>1, <3>2, ConcatProperties
    <3>7. (InTurn(k) \o queue[k]) \o <<r>> = Append(InTurn(k) \o queue[k], r)
      BY <3>6, <1>8, AppendIsConcat
    <3>8. InLine[k] = InTurn(k) \o queue[k] BY <1>0 DEF InLine
    <3> QED BY <3>3, <3>4, <3>5, <3>7, <3>8
  <2>5. InLine' = [InLine EXCEPT ![k] = Append(@, r)] BY <2>3, <2>4 DEF InLine
  <2> QED BY <2>5, <1>1, <1>4, <1>8 DEF Service!Ask, Told, InLine
<1> QED BY <1>7, <1>8

LEMMA BeginningServes ==
  ASSUME LaneInv, LaneInv', NEW l \in Lanes, BeginQueued(l)
  PROVE  Service!Settle \/ UNCHANGED Service!serviceVars
<1> DEFINE r == Head(queue[l])
<1>0. /\ LaneTypeOK /\ LaneTypeOK' /\ stage \in [Requests -> Stages]
      /\ queue \in [Lanes -> Seq(Exclusive)] /\ Exclusive \subseteq Requests
  BY TypeFacts, ConstantFacts DEF LaneInv
<1>1. /\ queue[l] # <<>> /\ TurnIsOver(l) /\ queue' = [queue EXCEPT ![l] = Tail(@)]
      /\ aborted' = aborted
  BY DEF BeginQueued
<1>2. /\ r \in Range(queue[l]) /\ Tail(queue[l]) \in Seq(Exclusive)
      /\ queue[l] = <<r>> \o Tail(queue[l])
  BY <1>0, <1>1, RangeOfTail
<1>3. r \in Requests /\ r \in Exclusive /\ stage[r] = "queued" /\ LaneOf[r] = l
  BY <1>2, QueueFacts
<1>p. PICK f : f = r OBVIOUS
<1>4. /\ queue'[l] = Tail(queue[l]) /\ \A k \in Lanes : k # l => queue'[k] = queue[k]
      /\ InLine[l] = queue[l]
  BY <1>0, <1>1, NobodyInTurn
<1>5. stage' = [stage EXCEPT ![f] = IF f \in aborted THEN "cancelled" ELSE "sent"]
  BY <1>p DEF BeginQueued, Sent
<1>6. /\ stage'[f] = (IF f \in aborted THEN "cancelled" ELSE "sent")
      /\ \A q \in Requests : q # f => stage'[q] = stage[q]
  BY <1>0, <1>3, <1>p, <1>5
<1>7. \A q \in Requests : q # f => Told'[q] = Told[q] BY <1>6 DEF Told
<1>8. ASSUME NEW k \in Lanes, k # l
      PROVE  /\ InLine'[k] = InLine[k]
             /\ InLine[k] # <<>> => Told'[Head(InLine[k])] = "waiting"
  <2>1. Pending(k)' = Pending(k) BY <1>3, <1>6, <1>8, <1>p DEF Pending
  <2>2. InTurn(k)' = InTurn(k) BY <2>1 DEF InTurn, TurnIsOver
  <2>3. InLine'[k] = InLine[k] BY <2>2, <1>4, <1>8 DEF InLine
  <2>4. CASE TurnIsOver(k)
    <3>1. InLine[k] = queue[k] /\ queue[k] \in Seq(Exclusive) BY <2>4, <1>0, NobodyInTurn
    <3>2. ASSUME queue[k] # <<>> PROVE Told'[Head(queue[k])] = "waiting"
      <4>1. Head(queue[k]) \in Range(queue[k]) BY <3>1, <3>2, RangeOfTail
      <4>2. /\ Head(queue[k]) \in Requests /\ stage[Head(queue[k])] = "queued"
            /\ LaneOf[Head(queue[k])] = k
        BY <4>1, QueueFacts
      <4>3. Told'[Head(queue[k])] = Told[Head(queue[k])] BY <4>2, <1>3, <1>7, <1>8, <1>p
      <4> QED BY <4>2, <4>3, <1>0, ToldFacts
    <3> QED BY <2>3, <3>1, <3>2
  <2>5. ASSUME NEW q \in Exclusive, q \in Pending(k)
        PROVE  Told'[Head(InLine[k])] = "waiting"
    <3>1. q \in Requests /\ q # f /\ stage[q] = "sent" BY <2>5, <1>3, <1>8, <1>p DEF Pending
    <3>2. Head(InLine[k]) = q BY <2>5, SomebodyInTurn
    <3> QED BY <3>1, <3>2, <1>7, <1>0, ToldFacts
  <2> QED BY <2>3, <2>4, <2>5 DEF TurnIsOver
<1>9. \A p \in Exclusive : p \in Pending(l)' => p = f
  BY <1>0, <1>1, <1>6 DEF Pending, TurnIsOver
<1>10. CASE f \in aborted
  <2>1. Told'[f] = "cancelled" BY <1>10, <1>3, <1>6, <1>p DEF Told
  <2>2. f \notin Pending(l)' BY <1>10, <1>6 DEF Pending
  <2>3. TurnIsOver(l)' BY <2>2, <1>9 DEF TurnIsOver
  <2>4. InTurn(l)' = <<>> BY <2>3 DEF InTurn
  <2>5. InLine'[l] = Tail(queue[l]) BY <2>4, <1>2, <1>4, ConcatEmptySeq DEF InLine
  <2>6. Told[f] = "waiting" /\ (f \in Exclusive => Head(InLine[LaneOf[f]]) = f)
    BY <1>1, <1>3, <1>p, FirstMaySettle
  <2>7. \A k \in Lanes : InLine'[k] = IF InLine[k] # <<>> /\ Told'[Head(InLine[k])] # "waiting"
                                      THEN Tail(InLine[k]) ELSE InLine[k]
    <3>1. InLine[l] # <<>> /\ Told'[Head(InLine[l])] # "waiting" /\ InLine'[l] = Tail(InLine[l])
      BY <1>1, <1>4, <1>p, <2>1, <2>5
    <3> QED BY <3>1, <1>8
  <2>8. Settling BY <1>1, <1>7, <1>10, <2>1, <2>6, <2>7 DEF Settling, Outcomes
  <2> QED BY <2>8, SettlingSettles
<1>11. CASE f \notin aborted
  <2>1. stage'[f] = "sent" BY <1>11, <1>6
  <2>2. Told' = Told BY <2>1, <1>3, <1>6, <1>p DEF Told
  <2>3. f \in Pending(l)' BY <2>1, <1>3, <1>p DEF Pending
  <2>4. InTurn(l)' = <<f>> BY <2>3, <1>3, <1>9, <1>p, ChosenInTurn DEF InTurn, TurnIsOver
  <2>5. InLine'[l] = InLine[l] BY <2>4, <1>2, <1>4, <1>p DEF InLine
  <2>6. InLine' = InLine BY <2>5, <1>8 DEF InLine
  <2> QED BY <1>1, <2>2, <2>6 DEF Service!serviceVars, Told, InLine
<1> QED BY <1>10, <1>11

LEMMA LaneStepServes ==
  LaneInv /\ LaneInv' /\ [LaneNext]_laneVars => [Service!ServiceNext]_(Service!serviceVars)
<1> SUFFICES ASSUME LaneInv, LaneInv', [LaneNext]_laneVars
             PROVE  Service!ServiceNext \/ UNCHANGED Service!serviceVars
  OBVIOUS
<1>s. Service!Settle => Service!ServiceNext BY DEF Service!ServiceNext
<1>1. ASSUME NEW r \in Requests, AskDirectly(r) \/ AskInTurn(r) PROVE Service!ServiceNext
  BY <1>1, AskingAsks DEF Service!ServiceNext
<1>2. ASSUME NEW r \in Requests, Abort(r) PROVE Service!Settle
  <2>1. /\ stage[r] \in {"queued", "sent"} /\ aborted' = aborted \cup {r}
        /\ UNCHANGED <<platform, queue>>
    BY <1>2 DEF Abort
  <2>2. CASE stage[r] = "sent"
    <3>1. StopWorker(LaneOf[r], r, "cancelled") BY <1>2, <2>2 DEF Abort
    <3>2. "cancelled" \in Outcomes BY DEF Outcomes
    <3> QED BY <2>1, <2>2, <3>1, <3>2, PendingIsBacked, StopSettles
  <2>3. CASE stage[r] # "sent"
    <3>1. stage' = stage BY <1>2, <2>3 DEF Abort
    <3> QED BY <2>1, <3>1, EndsSettle
  <2> QED BY <2>2, <2>3
<1>3. ASSUME NEW r \in Requests, Timeout(r) PROVE Service!Settle
  <2>1. /\ stage[r] = "sent" /\ StopWorker(LaneOf[r], r, "failed")
        /\ UNCHANGED <<platform, queue, aborted>>
    BY <1>3 DEF Timeout
  <2>2. "failed" \in Outcomes BY DEF Outcomes
  <2> QED BY <2>1, <2>2, PendingIsBacked, StopSettles
<1>4. ASSUME NEW l \in Lanes, Crash(l) PROVE Service!Settle
  <2>1. /\ Pending(l) # {} /\ StopWorker(l, None, "failed")
        /\ UNCHANGED <<platform, queue, aborted>>
    BY <1>4 DEF Crash
  <2>2. worker[l] # 0 BY <2>1, PendingIsBacked DEF Pending
  <2>3. "failed" \in Outcomes /\ StoppedFor(l, None) BY DEF Outcomes, StoppedFor
  <2> QED BY <2>1, <2>2, <2>3, StopSettles
<1>5. ASSUME NEW w \in Workers, Receive(w) PROVE Service!Settle
  <2> DEFINE first == Head(toClient[w])
  <2>1. /\ toClient[w] # <<>> /\ UNCHANGED <<queue, aborted>>
        /\ stage' = IF stage[first.r] = "sent" THEN [stage EXCEPT ![first.r] = first.how] ELSE stage
    BY <1>5 DEF Receive
  <2>2. PICK m : m = first OBVIOUS
  <2>3. m \in Answers(w) /\ m.r \in Requests /\ m.how \in Outcomes
    <3> DEFINE M == [r : Requests, how : Outcomes]
    <3>1. toClient[w] \in Seq(M) BY MailFacts DEF LaneInv
    <3> HIDE DEF M
    <3>2. m \in Range(toClient[w]) /\ m \in M BY <2>1, <2>2, <3>1, RangeOfTail
    <3> QED BY <3>2 DEF M, Answers
  <2>4. m.how = "cancelled" /\ stage[m.r] = "sent" => ~Service!Orderly(LaneOf[m.r])
    BY <2>3 DEF LaneInv, AnswersInv
  <2>5. stage \in [Requests -> Stages] BY TypeFacts DEF LaneInv
  <2>6. \A q \in Requests : stage'[q] # stage[q] => q = m.r /\ stage[q] = "sent" /\ stage'[q] = m.how
    BY <2>1, <2>2, <2>3, <2>5
  <2>7. \A q \in Requests : stage'[q] = stage[q] \/ (stage[q] = "sent" /\ stage'[q] \in Outcomes)
    BY <2>3, <2>6
  <2>8. \A q \in Requests : stage'[q] # stage[q] /\ stage'[q] = "cancelled"
          /\ Service!Orderly(LaneOf[q]) => q \in aborted'
    BY <2>4, <2>6
  <2> QED BY <2>1, <2>7, <2>8, EndsSettle
<1>6. ASSUME NEW l \in Lanes, BeginQueued(l)
      PROVE  Service!Settle \/ UNCHANGED Service!serviceVars
  BY <1>6, BeginningServes
<1>7. ASSUME NEW r \in Requests, Resume(r) \/ StandOn(r) \/ Leaves(r)
      PROVE  UNCHANGED Service!serviceVars
  <2>1. UNCHANGED <<stage, queue, aborted>>
    BY <1>7 DEF Resume, StandOn, Leaves, HistoryRefused, CallFails, Search, SearchFails
  <2> QED BY <2>1, ServiceStands
<1>8. ASSUME NEW w \in Workers, HostTakes(w) \/ LoadEnds(w) PROVE UNCHANGED Service!serviceVars
  <2>1. UNCHANGED <<stage, queue, aborted>> BY <1>8 DEF HostTakes, LoadEnds
  <2> QED BY <2>1, ServiceStands
<1>9. CASE UNCHANGED laneVars
  <2>1. UNCHANGED <<stage, queue, aborted>> BY <1>9 DEF laneVars
  <2> QED BY <2>1, ServiceStands
<1> QED BY <1>s, <1>1, <1>2, <1>3, <1>4, <1>5, <1>6, <1>7, <1>8, <1>9
     DEF LaneNext, Delivered, Leaves

LEMMA LaneStartServes == LaneInit => Service!ServiceInit
<1> SUFFICES ASSUME LaneInit PROVE Service!ServiceInit OBVIOUS
<1>1. \A r \in Requests : stage[r] = "idle" BY DEF LaneInit
<1>2. \A l \in Lanes : queue[l] = <<>> /\ Pending(l) = {} BY <1>1 DEF LaneInit, Pending
<1>3. \A l \in Lanes : InTurn(l) \o queue[l] = <<>>
  BY <1>2, ConcatEmptySeq, EmptySeq DEF InTurn, TurnIsOver
<1>4. aborted = {} BY DEF LaneInit
<1> QED BY <1>1, <1>3, <1>4 DEF Service!ServiceInit

\* The lanes give every caller what AnswerService promises, for any questions,
\* lanes and workers: each question is settled once, those that queue in the
\* order they queued, and where everybody queues nobody is cancelled but by the
\* caller's own signal (client.ts:150-302).
THEOREM LanesImplementTheService == LaneSpec => LanesServeTheirCallers
<1>1. LaneSpec => Service!ServiceInit /\ [][Service!ServiceNext]_(Service!serviceVars)
  BY LaneStartServes, LaneStepServes, LaneAlways, PTL DEF LaneSpec
<1> QED BY <1>1 DEF LanesServeTheirCallers, Service!ServiceSpec
===============================================================================
