----------------------------- MODULE MCClientStore -----------------------------
(***************************************************************************)
(* The instance of ClientStore for TLC.                                    *)
(***************************************************************************)
EXTENDS ClientStore
=============================================================================
