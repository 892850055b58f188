-------------------------- MODULE MCDiscoveryReport --------------------------
(* Small instances of DiscoveryReport for TLC; the .cfg files give the     *)
(* constants their values.                                                 *)
EXTENDS DiscoveryReport, TLC
=============================================================================
