-------------------------- MODULE MCCodeRepository --------------------------
(***************************************************************************)
(* CodeRepository on a small document: two authors, a causal chain, a      *)
(* delete set, a pair of operations that together exceed a limit.          *)
(***************************************************************************)
EXTENDS CodeRepository, TLC

CONSTANTS seed, a1, a2, d1, b1, b2

MCOp == {seed, a1, a2, d1, b1, b2}

\* a2 extends a1, d1 deletes a1, b2 extends b1; everything needs the seed.
MCDeps ==
    [o \in MCOp |->
        CASE o = seed -> {}
          [] o \in {a1, b1} -> {seed}
          [] o = a2 -> {seed, a1}
          [] o = d1 -> {seed, a1}
          [] o = b2 -> {seed, b1}]

MCDeletes == {d1}
MCConflicts == {{a2, b2}}
MCSeed == {seed}
MCUpdate == {{}, {a1}, {a2}, {d1}, {b1}, {b2}}
MCBytes == [S \in SUBSET MCOp |-> Cardinality(S)]

Keys == Permutations(Key)
=============================================================================
