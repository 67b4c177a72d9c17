------------------------------- MODULE MCGame -------------------------------
(***************************************************************************)
(* Instances of Game for TLC: the boards of MCBoards, the constants of     *)
(* each .cfg.                                                              *)
(***************************************************************************)
EXTENDS GameSymmetry, MCBoards
=============================================================================
