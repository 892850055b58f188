-------------------------- MODULE MCRescueDispatch --------------------------
(* Small instances of RescueDispatch for TLC; the .cfg files give the      *)
(* constants their values.                                                 *)
EXTENDS RescueDispatch, TLC
=============================================================================
