------------------------------- MODULE MCLog --------------------------------
(***************************************************************************)
(* Log for TLC; the constants are given in the configurations.             *)
(***************************************************************************)
EXTENDS Log

=============================================================================
