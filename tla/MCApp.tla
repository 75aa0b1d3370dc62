------------------------------- MODULE MCApp -------------------------------
(* Two processes of the program on one home directory, for TLC. *)
EXTENDS App, MCEnclaveKeys
=============================================================================
