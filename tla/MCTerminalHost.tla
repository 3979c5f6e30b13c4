---------------------------- MODULE MCTerminalHost ----------------------------
(***************************************************************************)
(* TerminalHost for TLC: two browsers that take turns, one browser whose   *)
(* runs are stopped, and one that may lose its permission in a run.        *)
(***************************************************************************)
EXTENDS TerminalHost
=============================================================================
