---------------------------- MODULE MCGameRecord ----------------------------
(***************************************************************************)
(* Instances of GameRecord for TLC.                                        *)
(***************************************************************************)
EXTENDS GameRecord, MCBoards
=============================================================================
