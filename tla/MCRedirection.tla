---------------------------- MODULE MCRedirection ----------------------------
(* Instances of Redirection for TLC. *)
EXTENDS RedirectionHandover
=============================================================================
