------------------------------ MODULE EngineLane ------------------------------
(***************************************************************************)
(* RPSFish as the client drives it: the lanes of client.ts, the session    *)
(* host and the engine of session.ts, behind a web worker or, on a phone,  *)
(* behind the one engine of nativeSession.ts.                              *)
(*                                                                         *)
(* A question is a walk of searches, each of a position under a history:   *)
(* one search per depth of an analysis, one per position of a review.      *)
(* Between two searches the walk yields.  Scores, lines and progress       *)
(* reports are left out; the paired search of a review is one more search. *)
(*                                                                         *)
(* A search is several calls of the engine, each of them awaited.  On a    *)
(* phone a lock keeps them together.  In a browser there is none: once its *)
(* module is there a worker answers its calls without a break, but those   *)
(* made while the module loads all wait for it, and then go on in turns.   *)
(***************************************************************************)
EXTENDS Naturals, SequencesExt, FiniteSets

CONSTANTS
  Requests, Lanes, LaneOf, Exclusive,   \* as in AnswerService
  Positions,   \* the positions questions are about
  Walk,        \* the searches each question takes: [history, current], in order
  Platforms,   \* where the client runs: "browser", "phone"
  MaxWorkers,  \* bound: workers at work at once
  MaxAsked,    \* bound: questions asked in one behaviour
  None

ASSUME LaneAssumption ==
  /\ None \notin Requests
  /\ MaxWorkers \in Nat \ {0} /\ MaxAsked \in Nat
  /\ Platforms \subseteq {"browser", "phone"}
  /\ Exclusive \subseteq Requests
  /\ \A r \in Requests : LaneOf[r] \in Lanes /\ Len(Walk[r]) > 0

ASSUME WalkAssumption ==
  /\ "unknown" \notin Positions
  /\ \A r \in Requests : Walk[r] \in Seq([history : Seq(Positions), current : Positions])

VARIABLES
  platform,
  stage,     \* idle, queued, sent, or how the promise ended
  queue,     \* of each lane: asked exclusively and not begun
  aborted,   \* signals that have fired
  worker,    \* of each lane: its worker, 0 for none
  on,        \* the worker each question was posted to
  toWorker,  \* posted and not taken, by worker
  toClient,  \* answers posted and not received, by worker
  active,    \* activeRequestId of each worker's host
  walk,      \* how far the work on each question is
  turns,     \* of each engine: the walks that have called for it, in order
  engine     \* the state of each engine, and of the session that drives it

laneVars == <<platform, stage, queue, aborted, worker, on,
              toWorker, toClient, active, walk, turns, engine>>

Workers == 1..MaxWorkers
\* On a phone there is one engine; a web worker has its own.
Engines == 0..MaxWorkers
EngineOf(w) == IF platform = "phone" THEN 0 ELSE w

Outcomes == {"answered", "failed", "cancelled"}
Unknown == <<"unknown">>
\* Two fields are history.  "spoiled": the engine refused a position, and no
\* history has been set whole since.  "mixed": several walks waited for the
\* module, and the table has not been cleared since.
ColdEngine ==
  [module |-> "absent", history |-> <<>>, table |-> {},
   warmHistory |-> Unknown, warmSearch |-> Unknown, spoiled |-> FALSE, mixed |-> FALSE]
Idle == [at |-> 0, state |-> "none"]

LaneInit ==
  /\ platform \in Platforms
  /\ stage = [r \in Requests |-> "idle"]
  /\ queue = [l \in Lanes |-> <<>>]
  /\ aborted = {}
  /\ worker = [l \in Lanes |-> 0]
  /\ on = [r \in Requests |-> 0]
  /\ toWorker = [w \in Workers |-> <<>>] /\ toClient = [w \in Workers |-> <<>>]
  /\ active = [w \in Workers |-> None]
  /\ walk = [r \in Requests |-> Idle]
  /\ turns = [e \in Engines |-> <<>>]
  /\ engine = [e \in Engines |-> ColdEngine]

-----------------------------------------------------------------------------
(* The client's side of a lane.                                            *)

Pending(l) == {r \in Requests : LaneOf[r] = l /\ stage[r] = "sent"}

AtWork(w) ==
  \/ \E l \in Lanes : worker[l] = w
  \/ \E r \in Requests : on[r] = w /\ walk[r].state \in {"yielded", "asking", "standing"}

\* A new worker takes a number nobody is at work under.
NewWorker == CHOOSE w \in Workers : ~AtWork(w)

\* send: a worker is made before the signal is looked at.
Sent(r) ==
  LET l == LaneOf[r]
      w == IF worker[l] # 0 THEN worker[l] ELSE NewWorker
  IN  /\ worker[l] = 0 => \E free \in Workers : ~AtWork(free)
      /\ worker' = [worker EXCEPT ![l] = w]
      /\ IF r \in aborted
         THEN stage' = [stage EXCEPT ![r] = "cancelled"] /\ UNCHANGED <<on, toWorker>>
         ELSE /\ stage' = [stage EXCEPT ![r] = "sent"]
              /\ on' = [on EXCEPT ![r] = w]
              /\ toWorker' = [toWorker EXCEPT ![w] = Append(@, r)]

Unasked(r) ==
  /\ stage[r] = "idle"
  /\ Cardinality({q \in Requests : stage[q] # "idle"}) < MaxAsked

\* analyzePosition.
AskDirectly(r) ==
  /\ Unasked(r) /\ r \notin Exclusive
  /\ Sent(r)
  /\ UNCHANGED <<platform, queue, aborted, toClient, active, walk, turns, engine>>

\* analyzeExclusive, reviewGame: enqueue.
AskInTurn(r) ==
  /\ Unasked(r) /\ r \in Exclusive
  /\ stage' = [stage EXCEPT ![r] = "queued"]
  /\ queue' = [queue EXCEPT ![LaneOf[r]] = Append(@, r)]
  /\ UNCHANGED <<platform, aborted, worker, on, toWorker, toClient, active, walk, turns, engine>>

\* Mutants: the queue does not wait for the question before, and the queue does
\* not outlive a question that failed.
NotWaited(l) == TRUE
ChainUnbroken(l) ==
  \A r \in Exclusive : LaneOf[r] = l => stage[r] \in {"idle", "queued", "answered"}

TurnIsOver(l) == Pending(l) \cap Exclusive = {}

\* The question whose turn it is starts, unless it is no longer wanted.
BeginQueued(l) ==
  /\ queue[l] # <<>> /\ TurnIsOver(l)
  /\ queue' = [queue EXCEPT ![l] = Tail(@)]
  /\ IF Head(queue[l]) \in aborted
     THEN /\ stage' = [stage EXCEPT ![Head(queue[l])] = "cancelled"]
          /\ UNCHANGED <<worker, on, toWorker>>
     ELSE Sent(Head(queue[l]))
  /\ UNCHANGED <<platform, aborted, toClient, active, walk, turns, engine>>

\* Terminated, a web worker is gone with the work in it; the phone's session
\* stops answering and its walks go on to their next check.  Nobody waits for
\* an answer still on its way, so it is dropped with the worker.
Terminated(w) ==
  /\ toWorker' = [toWorker EXCEPT ![w] = <<>>]
  /\ toClient' = [toClient EXCEPT ![w] = <<>>]
  /\ active' = [active EXCEPT ![w] = None]
  /\ IF platform = "browser"
     THEN /\ walk' = [r \in Requests |-> IF on[r] = w THEN Idle ELSE walk[r]]
          /\ turns' = [turns EXCEPT ![w] = <<>>]
          /\ engine' = [engine EXCEPT ![w] = ColdEngine]
     ELSE UNCHANGED <<walk, turns, engine>>

\* Mutant: the other questions of the worker are left waiting.
StoppedQuietly(l, r, outcome) == [stage EXCEPT ![r] = outcome]

\* finishRequest and rejectPending: r ends as it does, whatever else was
\* pending on the worker fails with it.
Stopped(l, r, outcome) ==
  [q \in Requests |-> IF q = r THEN outcome
                      ELSE IF q \in Pending(l) THEN "failed" ELSE stage[q]]

StopWorker(l, r, outcome) ==
  /\ stage' = Stopped(l, r, outcome)
  /\ worker' = [worker EXCEPT ![l] = 0]
  /\ Terminated(worker[l])

\* The caller's signal fires.
Abort(r) ==
  /\ r \notin aborted /\ stage[r] \in {"queued", "sent"}
  /\ aborted' = aborted \cup {r}
  /\ IF stage[r] = "sent" THEN StopWorker(LaneOf[r], r, "cancelled")
     ELSE UNCHANGED <<stage, worker, toWorker, toClient, active, walk, turns, engine>>
  /\ UNCHANGED <<platform, queue, on>>

\* The deadline passes with no answer.
Timeout(r) ==
  /\ stage[r] = "sent"
  /\ StopWorker(LaneOf[r], r, "failed")
  /\ UNCHANGED <<platform, queue, aborted, on>>

\* onerror, onmessageerror: a web worker dies under what it was doing; one that
\* dies idle is only made anew.
Crash(l) ==
  /\ platform = "browser" /\ Pending(l) # {}
  /\ StopWorker(l, None, "failed")
  /\ UNCHANGED <<platform, queue, aborted, on>>

\* onmessage: an answer to a question no longer pending is dropped.
Receive(w) ==
  /\ toClient[w] # <<>>
  /\ toClient' = [toClient EXCEPT ![w] = Tail(@)]
  /\ LET m == Head(toClient[w])
     IN  stage' = IF stage[m.r] = "sent" THEN [stage EXCEPT ![m.r] = m.how] ELSE stage
  /\ UNCHANGED <<platform, queue, aborted, worker, on, toWorker, active, walk, turns, engine>>

-----------------------------------------------------------------------------
(* The worker's side: the host, and the walk of one question.              *)

Posted(w, r, how) == [toClient EXCEPT ![w] = Append(@, [r |-> r, how |-> how])]

\* A web worker that has its module answers every call at once, so it takes up
\* nothing new before the calls under way are done.
AtRest(w) ==
  platform = "browser" => turns[w] = <<>> \/ engine[w].module = "absent"

\* handleMessage: a new question supersedes the one being answered.
HostTakes(w) ==
  /\ toWorker[w] # <<>> /\ AtRest(w)
  /\ LET r == Head(toWorker[w])
     IN  /\ active' = [active EXCEPT ![w] = r]
         /\ walk' = [walk EXCEPT ![r] = [at |-> 1, state |-> "yielded"]]
         /\ toClient' = IF active[w] = None THEN toClient
                        ELSE Posted(w, active[w], "cancelled")
  /\ toWorker' = [toWorker EXCEPT ![w] = Tail(@)]
  /\ UNCHANGED <<platform, stage, queue, aborted, worker, on, turns, engine>>

Cancelled(r) == active[on[r]] # r

\* The walk comes back from its yield and, if it is still wanted, calls for the
\* engine.
Resume(r) ==
  /\ walk[r].state = "yielded" /\ AtRest(on[r])
  /\ IF Cancelled(r)
     THEN walk' = [walk EXCEPT ![r] = Idle] /\ UNCHANGED turns
     ELSE /\ walk' = [walk EXCEPT ![r].state = "asking"]
          /\ turns' = [turns EXCEPT ![EngineOf(on[r])] = Append(@, r)]
  /\ UNCHANGED <<platform, stage, queue, aborted, worker, on,
                 toWorker, toClient, active, engine>>

\* loadEngine, asked for by the first call: the calls made meanwhile wait for the
\* one promise, which is kept, also when it fails.
LoadEnds(w) ==
  /\ platform = "browser" /\ engine[w].module = "absent" /\ turns[w] # <<>>
  /\ \E module \in {"loaded", "failed"} :
       engine' = [engine EXCEPT ![w].module = module, ![w].mixed = Len(turns[w]) > 1]
  /\ UNCHANGED <<platform, stage, queue, aborted, worker, on,
                 toWorker, toClient, active, walk, turns>>

\* Mutant: the phone's session is given no lock either.
Unlocked == FALSE

\* createLock, withoutLock: on a phone the first in turn keeps the engine until
\* its search is done.
Locked == platform = "phone"

HasTurn(r) ==
  LET n == EngineOf(on[r])
  IN  /\ turns[n] # <<>> /\ Head(turns[n]) = r
      /\ platform = "browser" => engine[n].module # "absent"

SearchOf(r) == Walk[r][walk[r].at]
LineOf(search) == Append(search.history, search.current)

\* Mutant: the table is kept whatever was searched before.
TableKeptAlways(e, search) == e.table

\* standOn, the table: kept for the position searched last, or a child of it.
TableKept(e, search) ==
  IF e.warmSearch \in {search.history, LineOf(search)} THEN e.table ELSE {}

\* standOn, the history: extended when the session believes the engine to stand
\* on a prefix of it, replaced otherwise.
Continues(e, history) == e.warmHistory # Unknown /\ IsPrefix(e.warmHistory, history)
Known(e, history) == IF Continues(e, history) THEN Len(e.warmHistory) ELSE 0

\* The engine's history when n positions of the one asked for are in it.
HistoryWith(e, history, n) ==
  IF Continues(e, history) THEN e.history \o SubSeq(history, Len(e.warmHistory) + 1, n)
  ELSE SubSeq(history, 1, n)

\* The walks still wait in turn when this one clears the table.
StillMixed(n, search) ==
  engine[n].mixed /\ (engine[n].warmSearch \in {search.history, LineOf(search)} \/ Len(turns[n]) > 1)

MadeToStand(n, search, taken) ==
  [engine[n] EXCEPT !.table = TableKept(engine[n], search),
                    !.history = HistoryWith(engine[n], search.history, taken),
                    !.mixed = StillMixed(n, search)]

\* What the host does with an error: posted, unless the question was given up.
Fails(r) ==
  LET w == on[r]
  IN  /\ walk' = [walk EXCEPT ![r] = Idle]
      /\ turns' = [turns EXCEPT ![EngineOf(w)] = Tail(@)]
      /\ active' = IF Cancelled(r) THEN active ELSE [active EXCEPT ![w] = None]
      /\ toClient' = IF Cancelled(r) THEN toClient ELSE Posted(w, r, "failed")

\* standOn: the engine is made to stand where the search needs it.  Its calls are
\* one step: the walks that take turns have all made theirs before one searches.
StandOn(r) ==
  LET n == EngineOf(on[r])
      s == SearchOf(r)
  IN  /\ walk[r].state = "asking" /\ HasTurn(r) /\ engine[n].module # "failed"
      /\ engine' = [engine EXCEPT ![n] =
            [MadeToStand(n, s, Len(s.history)) EXCEPT
               !.warmHistory = s.history, !.warmSearch = LineOf(s),
               !.spoiled = @ /\ Continues(engine[n], s.history)]]
      /\ walk' = [walk EXCEPT ![r].state = "standing"]
      /\ turns' = IF Locked THEN turns ELSE [turns EXCEPT ![n] = Append(Tail(@), r)]
      /\ UNCHANGED <<platform, stage, queue, aborted, worker, on, toWorker, toClient, active>>

\* A position of the history is refused: what was taken before it stays, and the
\* session goes on believing what it did.
HistoryRefused(r) ==
  LET n == EngineOf(on[r])
      s == SearchOf(r)
  IN  /\ walk[r].state = "asking" /\ HasTurn(r) /\ engine[n].module # "failed"
      /\ \E taken \in Known(engine[n], s.history)..Len(s.history) - 1 :
           engine' = [engine EXCEPT ![n] = [MadeToStand(n, s, taken) EXCEPT !.spoiled = TRUE]]
      /\ Fails(r)
      /\ UNCHANGED <<platform, stage, queue, aborted, worker, on, toWorker>>

\* A call comes to nothing, or there is no module to call, before the history is
\* touched.
CallFails(r) ==
  LET n == EngineOf(on[r])
  IN  /\ walk[r].state = "asking" /\ HasTurn(r)
      /\ \E table \in {engine[n].table, TableKept(engine[n], SearchOf(r))} :
           engine' = [engine EXCEPT ![n].table = table]
      /\ Fails(r)
      /\ UNCHANGED <<platform, stage, queue, aborted, worker, on, toWorker>>

LastSearch(r) == walk[r].at = Len(Walk[r])

\* The search runs and the walk ends or yields: an analysis may stop at any
\* depth, a review grades every position.
Search(r) ==
  LET w == on[r]
      n == EngineOf(w)
  IN  /\ walk[r].state = "standing" /\ HasTurn(r)
      /\ engine' = [engine EXCEPT ![n].table = @ \cup {LineOf(SearchOf(r))}]
      /\ turns' = [turns EXCEPT ![n] = Tail(@)]
      /\ \/ /\ Cancelled(r)
            /\ walk' = [walk EXCEPT ![r] = Idle]
            /\ UNCHANGED <<active, toClient>>
         \/ /\ ~Cancelled(r) /\ (LastSearch(r) \/ LaneOf[r] = "interactive")
            /\ walk' = [walk EXCEPT ![r] = Idle]
            /\ active' = [active EXCEPT ![w] = None]
            /\ toClient' = Posted(w, r, "answered")
         \/ /\ ~Cancelled(r) /\ ~LastSearch(r)
            /\ walk' = [walk EXCEPT ![r] = [at |-> @.at + 1, state |-> "yielded"]]
            /\ UNCHANGED <<active, toClient>>
      /\ UNCHANGED <<platform, stage, queue, aborted, worker, on, toWorker>>

\* The engine refuses the position, or the call is rejected.
SearchFails(r) ==
  /\ walk[r].state = "standing" /\ HasTurn(r)
  /\ Fails(r)
  /\ UNCHANGED <<platform, stage, queue, aborted, worker, on, toWorker, engine>>

Delivered == \E w \in Workers : Receive(w) \/ HostTakes(w)

\* On a phone a message to the session or from it is a call, and is handled
\* before anything else is.
InCall ==
  platform = "phone" /\ \E w \in Workers : toWorker[w] # <<>> \/ toClient[w] # <<>>

LaneNext ==
  \/ Delivered
  \/ /\ ~InCall
     /\ \/ \E r \in Requests : AskDirectly(r) \/ AskInTurn(r) \/ Abort(r) \/ Timeout(r)
                               \/ Resume(r) \/ StandOn(r) \/ HistoryRefused(r)
                               \/ CallFails(r) \/ Search(r) \/ SearchFails(r)
        \/ \E l \in Lanes : BeginQueued(l) \/ Crash(l)
        \/ \E w \in Workers : LoadEnds(w)

\* Timers fire, microtasks run and calls return; nothing is assumed of the engine
\* or of a worker.
LaneFairness ==
  /\ \A r \in Requests : WF_laneVars(~InCall /\ Timeout(r))
  /\ \A l \in Lanes : WF_laneVars(~InCall /\ BeginQueued(l))
  /\ WF_laneVars(InCall /\ Delivered)

LaneSpec == LaneInit /\ [][LaneNext]_laneVars /\ LaneFairness

-----------------------------------------------------------------------------
(* Properties.                                                             *)

WalkStates == {"none", "yielded", "asking", "standing"}
EngineStates ==
  [module : {"absent", "loaded", "failed"},
   history : Seq(Positions), table : SUBSET Seq(Positions),
   warmHistory : Seq(Positions) \cup {Unknown}, warmSearch : Seq(Positions) \cup {Unknown},
   spoiled : BOOLEAN, mixed : BOOLEAN]

\* Every part of the lanes, the hosts and the engines keeps its type.
LaneTypeOK ==
  /\ platform \in Platforms
  /\ stage \in [Requests -> {"idle", "queued", "sent"} \cup Outcomes]
  /\ queue \in [Lanes -> Seq(Exclusive)] /\ aborted \subseteq Requests
  /\ worker \in [Lanes -> 0..MaxWorkers]
  /\ on \in [Requests -> 0..MaxWorkers]
  /\ toWorker \in [Workers -> Seq(Requests)]
  /\ toClient \in [Workers -> Seq([r : Requests, how : Outcomes])]
  /\ active \in [Workers -> Requests \cup {None}]
  /\ walk \in [Requests -> [at : Nat, state : WalkStates]]
  /\ \A r \in Requests : walk[r] = Idle \/ (walk[r].at \in 1..Len(Walk[r]) /\ walk[r].state # "none")
  /\ turns \in [Engines -> Seq(Requests)]
  /\ engine \in [Engines -> EngineStates]

\* A search is about to run for which somebody may still be waiting: on a phone
\* any, since its table serves both lanes; in a browser one not given up.
ToBeSearched(r) ==
  walk[r].state = "standing" /\ HasTurn(r) /\ (platform = "phone" \/ ~Cancelled(r))

\* No search runs under another question's game: when the engine is asked, the
\* history it counts repetitions in is the one the question came with.  On a
\* phone, however many walks share the one engine, abandoned ones included; in a
\* browser, where nothing is locked, however many questions waited together for
\* the module, for the one that will be answered.  Once the engine has refused a
\* position it holds only after a history has been set whole (session.ts:314-339,
\* 345-349, nativeSession.ts:84-97, 111-119, worker/index.ts:39-71).
EngineStandsWhereItSearches ==
  \A r \in Requests :
    LET e == engine[EngineOf(on[r])]
    IN  ToBeSearched(r) /\ ~e.spoiled => e.history = SearchOf(r).history

\* A search meets no table but one of its own line, since scores that depend on
\* repetition do not move between lines (session.ts:307-312): on a phone always;
\* in a browser unless questions waited together for the module, when the one
\* given up fills the table after the other has cleared it.
TableIsOfOneLine ==
  \A r \in Requests :
    LET e == engine[EngineOf(on[r])]
    IN  walk[r].state = "standing" /\ HasTurn(r) /\ ~e.mixed =>
          \A known \in e.table : IsPrefix(known, LineOf(SearchOf(r)))

\* A pending question is with the worker the lane has now: no worker is stopped
\* with somebody still waiting for it, whoever stopped it (client.ts:197-218).
PendingIsOnTheWorker ==
  \A r \in Requests : stage[r] = "sent" => on[r] = worker[LaneOf[r]]

InTurn(l) == IF TurnIsOver(l) THEN <<>> ELSE <<CHOOSE r \in Exclusive : r \in Pending(l)>>

Service == INSTANCE AnswerService WITH
  stage <- [r \in Requests |-> IF stage[r] \in {"queued", "sent"} THEN "waiting" ELSE stage[r]],
  line <- [l \in Lanes |-> InTurn(l) \o queue[l]]

\* The lanes give their callers what AnswerService promises: each question is
\* settled once, those that queue in the order they queued, and on a lane
\* everybody queues for nobody's question is cancelled but by its own caller.
LanesServeTheirCallers == Service!ServiceSpec

Unsettled == {r \in Requests : stage[r] \in {"queued", "sent"}}

\* No question waits for ever, whatever the engine does: a walk nobody answers
\* for and a queue behind it end by the deadline (client.ts:258-280).
EveryQuestionIsSettled ==
  []<>(Unsettled = {})

\* What the comments say and the code does not keep (README, section 7): every
\* search, abandoned or not, runs in its own game (session.ts:345-349), after a
\* refusal too (300-305), and with a table of its own line (307-312).
EverySearchIsInItsGame ==
  \A r \in Requests :
    walk[r].state = "standing" /\ HasTurn(r) =>
      engine[EngineOf(on[r])].history = SearchOf(r).history
EveryTableIsOfOneLine ==
  \A r \in Requests :
    walk[r].state = "standing" /\ HasTurn(r) =>
      \A known \in engine[EngineOf(on[r])].table : IsPrefix(known, LineOf(SearchOf(r)))
=============================================================================
