------------------------------- MODULE MCBotGame -------------------------------
(***************************************************************************)
(* The instance of BotGame for TLC.                                        *)
(***************************************************************************)
EXTENDS BotGame
=============================================================================
