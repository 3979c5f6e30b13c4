-------------------------- MODULE MCTerminalMachine --------------------------
(***************************************************************************)
(* TerminalMachine with two sockets.                                       *)
(***************************************************************************)
EXTENDS TerminalMachine, TLC

\* Action ids are interchangeable; sockets are too.
Names == Permutations(ActionId) \cup Permutations(Socket)
=============================================================================
