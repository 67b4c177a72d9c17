---------------------------- MODULE AnswerService ----------------------------
(***************************************************************************)
(* What a caller of frontend/src/engine/rpsfish/client.ts may count on.    *)
(*                                                                         *)
(* A question put to a lane is settled once.  Questions asked with         *)
(* analyzeExclusive or reviewGame form a line, and only the first of it is *)
(* worked on; a question asked with analyzePosition goes straight in.  On  *)
(* a lane nobody goes straight into, a question ends as an AbortError only *)
(* when its own caller aborted it.                                         *)
(***************************************************************************)
EXTENDS Sequences, FiniteSets

CONSTANTS
  Requests,   \* the questions that will be asked
  Lanes,      \* the two lanes
  LaneOf,     \* the lane each question is put to
  Exclusive   \* the questions that join the line of their lane

VARIABLES
  stage,      \* how far each question is
  line,       \* the exclusive questions of a lane that wait, in order
  aborted     \* the questions whose caller has given up

serviceVars == <<stage, line, aborted>>

Outcomes == {"answered", "failed", "cancelled"}
Waiting == {r \in Requests : stage[r] = "waiting"}

ServiceInit ==
  /\ stage = [r \in Requests |-> "idle"]
  /\ line = [l \in Lanes |-> <<>>]
  /\ aborted = {}

Ask(r) ==
  /\ stage[r] = "idle"
  /\ stage' = [stage EXCEPT ![r] = "waiting"]
  /\ line' = IF r \in Exclusive THEN [line EXCEPT ![LaneOf[r]] = Append(@, r)] ELSE line
  /\ UNCHANGED aborted

\* A lane every caller queues for.
Orderly(l) == \A r \in Requests : LaneOf[r] = l => r \in Exclusive

MaySettle(r) == r \in Waiting /\ (r \in Exclusive => Head(line[LaneOf[r]]) = r)

\* Some questions end, some callers give up, or both at once; a line moves up
\* when the first of it ends.
Settle ==
  /\ aborted \subseteq aborted' /\ aborted' \ aborted \subseteq Waiting
  /\ \A r \in Requests :
       stage'[r] # stage[r] =>
         /\ MaySettle(r)
         /\ stage'[r] \in Outcomes
         /\ stage'[r] = "cancelled" /\ Orderly(LaneOf[r]) => r \in aborted'
  /\ line' = [l \in Lanes |-> IF line[l] # <<>> /\ stage'[Head(line[l])] # "waiting"
                             THEN Tail(line[l]) ELSE line[l]]

ServiceNext == (\E r \in Requests : Ask(r)) \/ Settle

ServiceSpec == ServiceInit /\ [][ServiceNext]_serviceVars
=============================================================================
