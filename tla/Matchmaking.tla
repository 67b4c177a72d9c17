---------------------------- MODULE Matchmaking ----------------------------
(***************************************************************************)
(* What the lobby promises about a seek, whatever threads carry it about.  *)
(*                                                                         *)
(* A seek waits on the board, is matched with a seek of somebody else, and *)
(* the two are held by their game until a move has been made in it.  They  *)
(* go through all of that together.  When a match made by pairing comes to *)
(* nothing somebody gets their wait back: only the one to blame, if there  *)
(* is one, loses it.  A seek that is gone never returns.                   *)
(***************************************************************************)
CONSTANTS Seeks, OwnerOf, None

\* Where each seek is, and if it is matched with whom, and whether by pairing or
\* by a taker.
VARIABLE fate

Alone(where) == [at |-> where, with |-> None, by |-> None]
Matched(s, by) == [at |-> "matched", with |-> s, by |-> by]

At(s) == fate[s].at
Pair(s) == {s, fate[s].with}

MatchInit == fate = [s \in Seeks |-> Alone("unmade")]

\* Withdrawn, declined, run out, given up for a seat, or nobody behind it.
LetGo ==
  \A s \in Seeks : fate'[s] # fate[s] =>
    At(s) \in {"waiting", "returning"} /\ fate'[s] = Alone("gone")

\* A person waits behind one seek: an older one is replaced.
Wait(s) ==
  /\ At(s) \in {"unmade", "returning"}
  /\ fate' = [t \in Seeks |->
       IF t = s THEN Alone("waiting")
       ELSE IF At(t) = "waiting" /\ OwnerOf[t] = OwnerOf[s] THEN Alone("gone")
       ELSE fate[t]]

\* Some waiting seeks are paired off, or one is taken with a seek made for it.
MatchedUp(by) ==
  \A s \in Seeks : fate'[s] # fate[s] =>
    \E t \in Seeks :
      /\ fate'[s] = Matched(t, by) /\ fate'[t] = Matched(s, by)
      /\ OwnerOf[s] # OwnerOf[t]
      /\ \/ At(s) = "waiting" /\ At(t) = "waiting" /\ by = "pairing"
         \/ {At(s), At(t)} = {"waiting", "unmade"} /\ by = "taking"

Go(S, where) ==
  fate' = [s \in Seeks |-> IF s \in S THEN [fate[s] EXCEPT !.at = where] ELSE fate[s]]

Part(S, blamed, where) ==
  fate' = [s \in Seeks |->
    IF s \in blamed THEN Alone("gone") ELSE IF s \in S THEN Alone(where) ELSE fate[s]]

\* startConfiguredMatch, and the first move.
Seated(s) == At(s) = "matched" /\ Go(Pair(s), "held")
Moved(s) == At(s) = "held" /\ Go(Pair(s), "moved")

\* The game has begun, and its seeks are used up.
Begun(s) == At(s) = "moved" /\ Part(Pair(s), {}, "gone")

\* The match is off before it has begun.  Seeks that were paired return, the
\* blamed one of a game that was opened excepted; those of a taker do not.
Off(s) ==
  /\ At(s) \in {"matched", "held", "moved"}
  /\ \/ fate[s].by = "taking" /\ Part(Pair(s), {}, "gone")
     \/ fate[s].by = "pairing" /\ Part(Pair(s), {}, "returning")
     \/ fate[s].by = "pairing" /\ At(s) # "matched" /\ Part(Pair(s), {s}, "returning")

MatchNext ==
  \/ LetGo
  \/ \E by \in {"pairing", "taking"} : MatchedUp(by)
  \/ \E s \in Seeks : Wait(s) \/ Seated(s) \/ Moved(s) \/ Begun(s) \/ Off(s)

MatchSpec == MatchInit /\ [][MatchNext]_fate
=============================================================================
