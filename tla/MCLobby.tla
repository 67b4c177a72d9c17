------------------------------ MODULE MCLobby ------------------------------
(***************************************************************************)
(* Instances of Lobby for TLC.  ann has two tabs and may have a phone push *)
(* can reach; bob and cyd have one tab each.                               *)
(***************************************************************************)
EXTENDS Lobby, TLC

CONSTANTS ann1, ann2, bob1, cyd1, ann, bob, cyd

MCTabs == (ann1 :> ann) @@ (ann2 :> ann) @@ (bob1 :> bob) @@ (cyd1 :> cyd)
MCOwner == [c \in Clients |-> MCTabs[c]]

\* Where each has one tab, the three people are alike: a person moves with
\* their tab.
MCTabOf == (ann :> ann1) @@ (bob :> bob1) @@ (cyd :> cyd1)
MCAlike ==
  {p @@ [c \in {ann1, bob1, cyd1} |-> MCTabOf[p[MCTabs[c]]]] : p \in Permutations({ann, bob, cyd})}

\* The commands of each instance, the same for every client or client by client.
All(commands, deskwork) ==
  [t \in Threads |-> IF t \in Clients THEN commands ELSE deskwork]

MCChallengeRequests ==
  All({"post_open", "post_private", "withdraw", "decline", "accept"}, {})
MCSeatRequests ==
  [t \in Threads |->
     CASE t = ann1 -> {"join_queue", "drop", "rejoin", "abort"}
       [] t = ann2 -> {"withdraw", "rejoin", "drop"}
       [] t = bob1 -> {"join_queue", "move", "drop", "resign"}
       [] OTHER -> {}]

\* One tab each, and everything that can call the game off.
MCDeskRequests ==
  [t \in Threads |-> CASE t = ann1 -> {"join_queue", "move", "abort", "drop"}
                       [] t = bob1 -> {"join_queue", "accept", "withdraw"}
                       [] OTHER -> {"stop", "update"}]

\* For liveness: people who may fall silent, or be gone, at any moment.
MCSilentRequests ==
  [t \in Threads |-> CASE t = ann1 -> {"join_queue", "drop", "move"}
                       [] t = bob1 -> {"join_queue", "abort", "move"}
                       [] OTHER -> {}]

\* The runs that refute a sentence of the documents.
MCWalkAwayRequests == All({"join_queue", "drop"}, {})
MCTwoGamesRequests == All({"join_queue"}, {})
MCResignRequests == All({"join_queue", "resign"}, {})

MCPlain == [game |-> "plain", color |-> Neutral]

MCPlainOnly == {MCPlain}
MCSeatChoice == [game : {"plain"}, color : {Neutral, Red, Blue}]
=============================================================================
