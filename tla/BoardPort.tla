------------------------------ MODULE BoardPort ------------------------------
(***************************************************************************)
(* What the server promises a Board tab that sends it an update            *)
(* (server/board-v2/sync-service.ts): which answer it gives, and that the  *)
(* answer is durable when it is given.  It knows the operations stored and *)
(* the messages settled, and nothing of rows, caches or compactions.       *)
(*                                                                         *)
(* BoardSync is built on this server; BoardServer is shown to be one.      *)
(***************************************************************************)
EXTENDS BoardDocument

VARIABLES
    content,  \* operations stored
    settled   \* messages that have a receipt

server == <<content, settled>>

\* appendUpdate, as far as the durable document decides.
Verdict(isSettled, u) ==
    IF isSettled THEN "duplicate"
    ELSE IF HasPendingDependencies(content \cup u) THEN "CAUSAL_GAP"
    ELSE IF u \subseteq content THEN "NO_NEW_INFORMATION" ELSE "committed"

\* Message m with update u is answered: a verdict that accepts it is durable, one
\* that refuses it changes nothing.
Answered(m, u, verdict) ==
    /\ verdict = Verdict(m \in settled, u)
    /\ \/ /\ verdict \in {"CAUSAL_GAP", "NO_NEW_INFORMATION"}
          /\ UNCHANGED server
       \/ /\ verdict \in {"committed", "duplicate"}
          /\ content' = content \cup u
          /\ settled' = settled \cup {m}
=============================================================================
