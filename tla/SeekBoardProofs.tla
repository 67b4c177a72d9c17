-------------------------- MODULE SeekBoardProofs --------------------------
(***************************************************************************)
(* The board keeps its two maps in step, for any people and any seeks.     *)
(*                                                                         *)
(* OneWaitEach is inductive only together with the types: what Post writes *)
(* under an owner has to be a seek before it can be the owner's seek.      *)
(***************************************************************************)
EXTENDS SeekBoard, TLAPS

BoardInv == BoardTypeOK /\ OneWaitEach

\* removeLocked, of any set of seeks whatever, leaves the two maps in step:
\* every path that takes somebody off the board is a case of it.
LEMMA TakeOffKeepsInv ==
  ASSUME BoardInv, NEW S, TakeOff(S)
  PROVE  BoardInv'
<1> USE OwnerAssumption, NoSeekAssumption DEF BoardInv, BoardTypeOK, OneWaitEach, TakeOff
<1>1. BoardTypeOK'
  OBVIOUS
<1>2. \A s \in byID' : byOwner'[OwnerOf[s]] = s
  <2> TAKE s \in byID'
  <2>1. s \in byID /\ s \notin S /\ OwnerOf[s] \in Owners
    OBVIOUS
  <2>2. byOwner[OwnerOf[s]] = s
    BY <2>1
  <2> QED
    BY <2>1, <2>2
<1>3. ASSUME NEW o \in Owners, byOwner'[o] # NoSeek
      PROVE  byOwner'[o] \in byID' /\ OwnerOf[byOwner'[o]] = o
  <2>1. byOwner'[o] = byOwner[o] /\ byOwner[o] \notin S \cap byID
    BY <1>3
  <2>2. byOwner[o] \in byID /\ OwnerOf[byOwner[o]] = o
    BY <1>3, <2>1
  <2> QED
    BY <2>1, <2>2
<1> QED
  BY <1>1, <1>2, <1>3

\* Post replaces whatever its author was waiting behind, and nobody else's wait.
LEMMA PostKeepsInv ==
  ASSUME BoardInv, NEW s \in Seeks, Post(s)
  PROVE  BoardInv'
<1> USE OwnerAssumption, NoSeekAssumption DEF BoardInv, BoardTypeOK, OneWaitEach, Post
<1> DEFINE old == byOwner[OwnerOf[s]]
<1>0. OwnerOf[s] \in Owners
  OBVIOUS
<1>1. BoardTypeOK'
  BY <1>0
<1>2. \A t \in byID' : byOwner'[OwnerOf[t]] = t
  <2> TAKE t \in byID'
  <2>1. CASE t = s
    BY <2>1, <1>0
  <2>2. CASE t # s
    <3>1. t \in byID /\ t # old
      BY <2>2
    <3>2. byOwner[OwnerOf[t]] = t /\ OwnerOf[t] \in Owners
      BY <3>1
    <3>3. OwnerOf[t] # OwnerOf[s]
      BY <3>1, <3>2
    <3> QED
      BY <3>2, <3>3
  <2> QED
    BY <2>1, <2>2
<1>3. ASSUME NEW o \in Owners, byOwner'[o] # NoSeek
      PROVE  byOwner'[o] \in byID' /\ OwnerOf[byOwner'[o]] = o
  <2>1. CASE o = OwnerOf[s]
    BY <2>1, <1>0
  <2>2. CASE o # OwnerOf[s]
    <3>1. byOwner'[o] = byOwner[o]
      BY <2>2
    <3>2. byOwner[o] \in byID /\ OwnerOf[byOwner[o]] = o
      BY <3>1, <1>3
    <3>3. byOwner[o] # old
      BY <3>2, <2>2, <1>0
    <3> QED
      BY <3>1, <3>2, <3>3
  <2> QED
    BY <2>1, <2>2
<1> QED
  BY <1>1, <1>2, <1>3

\* Every critical section of the board preserves the invariant.
LEMMA BoardStepKeepsInv == BoardInv /\ [BoardNext]_board => BoardInv'
<1> SUFFICES ASSUME BoardInv, [BoardNext]_board PROVE BoardInv'
  OBVIOUS
<1>1. ASSUME NEW s \in Seeks, Post(s) PROVE BoardInv'
  BY <1>1, PostKeepsInv
<1>2. ASSUME NEW s \in Seeks, Claim(s) PROVE BoardInv'
  BY <1>2, TakeOffKeepsInv DEF Claim
<1>3. ASSUME NEW o \in Owners, RemoveOwner(o) PROVE BoardInv'
  BY <1>3, TakeOffKeepsInv DEF RemoveOwner
<1>4. ASSUME NEW o \in Owners, NEW s \in Seeks, ClaimFrom(o, s) PROVE BoardInv'
  BY <1>4, TakeOffKeepsInv DEF ClaimFrom
<1>5. ASSUME NEW S \in SUBSET Seeks, TakeExpired(S) PROVE BoardInv'
  BY <1>5, TakeOffKeepsInv DEF TakeExpired
<1>6. ASSUME NEW M, TakePairs(M) PROVE BoardInv'
  BY <1>6, TakeOffKeepsInv DEF TakePairs
<1>7. CASE UNCHANGED board
  BY <1>7 DEF board, BoardInv, BoardTypeOK, OneWaitEach
<1> QED
  BY <1>1, <1>2, <1>3, <1>4, <1>5, <1>6, <1>7 DEF BoardNext

LEMMA BoardInitInv == BoardInit => BoardInv
  BY DEF BoardInit, BoardInv, BoardTypeOK, OneWaitEach

\* Nobody ever waits in two places: byID and byOwner agree in every state the
\* board can reach, however many people post, claim, leave and are paired
\* (seeks.go:297-303).
THEOREM BoardKeepsOneWaitEach == BoardSpec => []OneWaitEach
<1>1. BoardSpec => []BoardInv
  BY BoardInitInv, BoardStepKeepsInv, PTL DEF BoardSpec
<1>2. BoardInv => OneWaitEach
  BY DEF BoardInv
<1> QED
  BY <1>1, <1>2, PTL

\* The maps only ever hold seeks, under their owners' names.
THEOREM BoardKeepsType == BoardSpec => []BoardTypeOK
<1>1. BoardSpec => []BoardInv
  BY BoardInitInv, BoardStepKeepsInv, PTL DEF BoardSpec
<1>2. BoardInv => BoardTypeOK
  BY DEF BoardInv
<1> QED
  BY <1>1, <1>2, PTL
=============================================================================
