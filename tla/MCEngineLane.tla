----------------------------- MODULE MCEngineLane -----------------------------
(***************************************************************************)
(* Instances of EngineLane for TLC: an analysis board asking, a bot        *)
(* thinking, and reviews of the game.                                      *)
(***************************************************************************)
EXTENDS EngineLane

CONSTANTS board, bot, review1, review2, a, b, c

MCRequests == {board, bot, review1, review2}
MCLaneOf == [r \in MCRequests |-> IF r \in {review1, review2} THEN "review" ELSE "interactive"]

At(history, current) == [history |-> history, current |-> current]

\* The bot and the reviews are of the game a, b, c, the second review taking up
\* where the first was; the board is on another line.
MCWalk ==
  [r \in MCRequests |->
     CASE r = board -> <<At(<<a>>, c)>>
       [] r = bot -> <<At(<<a, b>>, c)>>
       [] r = review1 -> <<At(<<>>, a), At(<<a>>, b)>>
       [] r = review2 -> <<At(<<a, b>>, c)>>]
=============================================================================
