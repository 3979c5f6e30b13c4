---------------------------- MODULE BoardDocument ----------------------------
(***************************************************************************)
(* One Board page as the code that moves it around sees it: a set of       *)
(* operations, some of which need others before Yjs integrates them        *)
(* (server/board-v2/document-schema.ts).                                   *)
(***************************************************************************)
CONSTANTS
    Op,   \* operations of the shared document
    Deps  \* Deps[o]: every operation o needs, directly or not

ASSUME DepsAssumption ==
    /\ Deps \in [Op -> SUBSET Op]
    /\ \A o \in Op : \A p \in Deps[o] : Deps[p] \subseteq Deps[o]

Integrated(S) == {o \in S : Deps[o] \subseteq S}
HasPendingDependencies(S) == Integrated(S) # S
=============================================================================
