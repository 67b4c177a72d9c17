----------------------------- MODULE MCRaceBoard -----------------------------
(***************************************************************************)
(* Instances of RaceBoard for TLC: boards three wide and four deep.        *)
(***************************************************************************)
EXTENDS RaceBoard, TLC

Bare == [s \in Squares |-> [occupant |-> Empty, owner |-> Neutral, ground |-> Neutral]]
Stood(piece, player) == [occupant |-> piece, owner |-> player, ground |-> player]
With(board, placed) == [s \in Squares |-> IF s \in DOMAIN placed THEN placed[s] ELSE board[s]]

\* Two pieces a side.
MCOpening ==
  With(Bare, (<<0, 0>> :> Stood(Rock, Blue)) @@ (<<1, 0>> :> Stood(Paper, Blue))
          @@ (<<2, 3>> :> Stood(Rock, Red)) @@ (<<1, 3>> :> Stood(Paper, Red)))

\* Total War with two squares left to claim, and one piece left to take.
MCLastGround ==
  [s \in Squares |->
     IF MCOpening[s].occupant # Empty \/ s \in {<<0, 3>>, <<1, 1>>} THEN MCOpening[s]
     ELSE [MCOpening[s] EXCEPT !.ground = IF s[1] = 0 THEN Red ELSE Blue]]
MCLastPiece ==
  With(Bare, (<<1, 1>> :> Stood(Rock, Blue)) @@ (<<1, 2>> :> Stood(Scissors, Red))
          @@ (<<0, 1>> :> Stood(Paper, Blue)))
MCCornered ==
  With(Bare, (<<0, 2>> :> Stood(Rock, Blue)) @@ (<<1, 1>> :> Stood(Rock, Blue))
          @@ (<<2, 2>> :> Stood(Rock, Blue)) @@ (<<2, 3>> :> Stood(Rock, Red)))

MCOpenings ==
  {<<"opening", newGame(m, g, Blue, "current")>> :
     m \in Modes, g \in {MCOpening, MCLastGround, MCLastPiece, MCCornered}}

\* A blue rock that has not arrived, one or two red papers, and with a single
\* paper one more piece of either side.
MCRunners == {<<1, 0>>, <<0, 1>>, <<1, 1>>}
MCHunters == {s \in Squares : s[2] > 0}
MCBlockers == {Stood(Scissors, Red), Stood(Rock, Red), Stood(Rock, Blue)}

MCChase(r, H) ==
  With(Bare, (r :> Stood(Rock, Blue)) @@ [h \in H |-> Stood(Paper, Red)])
MCChases == {MCChase(r, {h, k}) : r \in MCRunners, h, k \in MCHunters}
MCBlocked ==
  {With(MCChase(<<1, 1>>, {h}), b :> piece) :
     h \in MCHunters, b \in {s \in Squares : s[2] = 2}, piece \in MCBlockers}

MCEditor ==
  {<<"editor", newGame(Infiltration, g, side, "current")>> :
     g \in MCChases \cup MCBlocked, side \in Players}

MCStarts == MCOpenings \cup MCEditor

MCRunChoices ==
  [obstacles : {"static"}, safety : {"perStep", "wholeRun"}, goalEndsGame : BOOLEAN]
MCMaxMoves == [opening |-> 3, editor |-> 0]
MCLayout == [mode \in Modes |-> [s \in Squares |-> [occupant |-> Empty, owner |-> Neutral]]]
=============================================================================
