---------------------------- MODULE MCElection ----------------------------
(* Model-checking instance of Election. *)
EXTENDS Election
===========================================================================
