--------------------------- MODULE DurableUpdates ---------------------------
(***************************************************************************)
(* What the durable half of collaborative code promises its clients, with  *)
(* no snapshot, no log and no quota in sight.  A client sends an update    *)
(* under a key (its device and an update id).  Each key is answered for    *)
(* ever with the one update it was first used for and one sequence number; *)
(* an update that was answered is part of the document from then on; and   *)
(* the same update never has two sequence numbers, whatever key brings it. *)
(*                                                                         *)
(* CodeRepository implements this specification.                           *)
(***************************************************************************)
EXTENDS Naturals

CONSTANTS
    Op,      \* the operations of the shared document
    Update,  \* the updates clients may send: sets of operations
    Key,     \* (device id, update id) pairs
    Seed     \* the operations of a newly created document

VARIABLES
    content,  \* the operations the document durably holds
    answers   \* the answer every settled key has received

vars == <<content, answers>>

Init ==
    /\ content = Seed
    /\ answers = [k \in {} |-> 0]

\* One sequence per update: a repeated update is answered as the first was.
Agrees(u, n) ==
    \A k \in DOMAIN answers : answers[k].update = u => answers[k].sequence = n

\* The answer is the implementation's to choose, so its number is read off the
\* next state.
Settle(key, u) ==
    /\ key \notin DOMAIN answers
    /\ content' = content \cup u
    /\ DOMAIN answers' = DOMAIN answers \cup {key}
    /\ LET n == answers'[key].sequence
       IN  /\ n \in Nat
           /\ Agrees(u, n)
           /\ answers' = [k \in DOMAIN answers \cup {key} |->
                             IF k = key THEN [update |-> u, sequence |-> n]
                                        ELSE answers[k]]

Next == \E key \in Key, u \in Update : Settle(key, u)

Spec == Init /\ [][Next]_vars
=============================================================================
