----------------------------- MODULE MCCodeSync -----------------------------
(***************************************************************************)
(* CodeSync with two tabs and up to three edits.  In a chain e2 and e3     *)
(* build on e1: a second tab can type e3 once e1 has reached it.           *)
(***************************************************************************)
EXTENDS CodeSync, TLC

CONSTANTS seed, e1, e2, e3, ta, tb, da, db

TwoEdits == {seed, e1, e2}
ThreeEdits == {seed, e1, e2, e3}
MCSeed == {seed}
MCUpdate == {{o} : o \in Op \ MCSeed}
MCBytes == [S \in SUBSET Op |-> Cardinality(S)]
MCTab == {ta, tb}

\* Edits that build on each other, or know nothing of each other; typed in one
\* tab, or the last of them in the other.
Chain == [o \in Op |-> IF o = seed THEN {} ELSE IF o = e1 THEN {seed} ELSE {seed, e1}]
Concurrent == [o \in Op |-> IF o = seed THEN {} ELSE {seed}]
OneAuthor == [o \in Op \ MCSeed |-> ta]
TwoAuthors == [o \in Op \ MCSeed |-> IF o = e3 \/ (e3 \notin Op /\ o = e2) THEN tb ELSE ta]

\* Two browsers, or two tabs of one.
TwoDevices == (ta :> da) @@ (tb :> db)
TwoDeviceKeys == {da, db} \X (Op \ MCSeed)
OneDevice == [t \in MCTab |-> da]
OneDeviceKeys == {da} \X (Op \ MCSeed)
=============================================================================
