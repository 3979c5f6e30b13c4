----------------------------- MODULE MCBoardSync -----------------------------
EXTENDS BoardSync

CONSTANTS a, b, e1, e2, browser

\* Two tabs of one browser; the edit e2 builds on the edit e1.
TwoTabs == {a, b}
Chain == {e1, e2}
ChainDeps == [o \in Chain |-> IF o = e2 THEN {e1} ELSE {}]
OneBrowser == [t \in TwoTabs |-> browser]
OneEach == [o \in Chain |-> IF o = e1 THEN a ELSE b]
ByA == [o \in Chain |-> a]
=============================================================================
