---------------------------- MODULE MCBoardServer ----------------------------
(***************************************************************************)
(* BoardServer on a small page: a chain a1, a2 of one author, an           *)
(* independent b, and c, which together with b breaks a schema rule.       *)
(***************************************************************************)
EXTENDS BoardServer, TLC

CONSTANTS a1, a2, b, c

MCOp == {a1, a2, b, c}
MCDeps == [o \in MCOp |-> IF o = a2 THEN {a1} ELSE {}]
MCIllegal == {{b, c}}
MCUpdate == {{a1}, {a2}, {b}, {c}, {a1, a2}}

Messages == Permutations(Message)
=============================================================================
