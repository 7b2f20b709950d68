----------------------------- MODULE MCShutdown -----------------------------
(* Shutdown for TLC: the sets are in the configuration.                     *)
EXTENDS Shutdown
=============================================================================
