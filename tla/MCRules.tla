------------------------------- MODULE MCRules -------------------------------
(* Small instances of Rules for TLC.                                       *)
EXTENDS Rules
=============================================================================
