----------------------------- MODULE SeekBoard -----------------------------
(***************************************************************************)
(* The board of unstarted seeks: seekBoard in internal/server/seeks.go.    *)
(*                                                                         *)
(* Two maps behind one mutex, written by every path that makes somebody    *)
(* wait or stop waiting.  Each action is one critical section.  A caller   *)
(* that finds nothing to remove leaves the maps alone, so every action but *)
(* the pairing is enabled whatever the board holds.                        *)
(***************************************************************************)
CONSTANTS
  Seeks,     \* every seek that can exist; a seek is its own id
  Owners,    \* seekOwnerKey: the identities seeks belong to
  OwnerOf,   \* whose seek it is, written once when the seek is made
  NoSeek     \* the nil of byOwner

ASSUME OwnerAssumption == OwnerOf \in [Seeks -> Owners]

ASSUME NoSeekAssumption == NoSeek \notin Seeks

VARIABLES
  byID,      \* the seeks filed by id
  byOwner    \* the seek each owner is waiting behind

board == <<byID, byOwner>>

BoardInit ==
  /\ byID = {}
  /\ byOwner = [o \in Owners |-> NoSeek]

\* Mutant: the new wait is filed beside the old one.
PostBeside(s) ==
  /\ byID' = byID \cup {s}
  /\ byOwner' = [byOwner EXCEPT ![OwnerOf[s]] = s]

\* Post: whatever that person was already waiting behind is replaced.
Post(s) ==
  /\ byID' = (byID \ {byOwner[OwnerOf[s]]}) \cup {s}
  /\ byOwner' = [byOwner EXCEPT ![OwnerOf[s]] = s]

\* removeLocked, of every seek in S: the owner's entry goes only while it is
\* this very seek.
TakeOff(S) ==
  /\ byID' = byID \ S
  /\ byOwner' = [o \in Owners |->
                   IF byOwner[o] \in S \cap byID THEN NoSeek ELSE byOwner[o]]

Claim(s) == TakeOff({s})

\* ClaimFrom: the id and the author must agree.
ClaimFrom(o, s) == TakeOff(IF s \in byID /\ OwnerOf[s] = o THEN {s} ELSE {})

\* RemoveOwner, RemoveClient and TakeFrom.
RemoveOwner(o) == TakeOff({byOwner[o]})

TakeExpired(S) == S \subseteq byID /\ TakeOff(S)

\* The seeks of the pairs one pairing round formed.
TakePairs(M) ==
  LET taken == UNION {{p[1], p[2]} : p \in M}
  IN  taken \subseteq byID /\ TakeOff(taken)

BoardNext ==
  \/ \E s \in Seeks : Post(s) \/ Claim(s)
  \/ \E o \in Owners : RemoveOwner(o) \/ \E s \in Seeks : ClaimFrom(o, s)
  \/ \E S \in SUBSET Seeks : TakeExpired(S)
  \/ \E p \in byID \X byID : OwnerOf[p[1]] # OwnerOf[p[2]] /\ TakePairs({p})

BoardSpec == BoardInit /\ [][BoardNext]_board

-----------------------------------------------------------------------------
(* Properties.                                                             *)

BoardTypeOK ==
  /\ byID \subseteq Seeks
  /\ byOwner \in [Owners -> Seeks \cup {NoSeek}]

\* The two maps say the same thing: a seek that can be found by its id is the
\* one its owner waits behind, and the other way round.  This is what makes
\* "a person cannot be waiting in two places" structural (seeks.go:297-303,
\* 327-329) although two maps have to be kept in step to get it.
OneWaitEach ==
  /\ \A s \in byID : byOwner[OwnerOf[s]] = s
  /\ \A o \in Owners :
       byOwner[o] # NoSeek => byOwner[o] \in byID /\ OwnerOf[byOwner[o]] = o
=============================================================================
