------------------------------ MODULE MCCopies ------------------------------
(* Copies for TLC: the bounds are in the configuration.                     *)
EXTENDS Copies
=============================================================================
