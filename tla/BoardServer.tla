----------------------------- MODULE BoardServer -----------------------------
(***************************************************************************)
(* The server's copy of one Board document: the durable rows               *)
(* (server/board-v2/repository.ts), the decoded document and validation    *)
(* shadow the sync service keeps in memory (sync-service.ts) and the       *)
(* background compaction (compaction.ts).                                  *)
(*                                                                         *)
(* An update is a set of operations; an operation is integrated once every *)
(* operation it depends on is present.  appendUpdate runs synchronously on *)
(* the one server thread, so it is one action; compaction reads the rows   *)
(* in a worker, and anything may happen before its result is written.      *)
(***************************************************************************)
EXTENDS BoardDocument, Integers, FiniteSets, Functions, SequencesExt

CONSTANTS
    Illegal,        \* sets of operations that together break the Board schema
    Update,         \* the updates clients may send
    Message,        \* message ids
    Actor,          \* (user, client) pairs
    MinUpdateCount  \* rows in the log before a compaction is worth running

-----------------------------------------------------------------------------
\* validateBoardDocumentStructure, once nothing is pending.
Valid(S) == \A c \in Illegal : ~(c \subseteq S)

ASSUME UpdateAssumption ==
    /\ Update \subseteq SUBSET Op
    /\ Illegal \subseteq SUBSET Op
    /\ {} \notin Update \cup Illegal

ASSUME MinUpdateCountAssumption == MinUpdateCount \in Nat \ {0}

-----------------------------------------------------------------------------
VARIABLES
    snapshot,     \* board_documents.snapshot_blob
    snapshotSeq,  \* board_documents.snapshot_seq
    lastSeq,      \* board_documents.last_seq
    log,          \* board_updates: sequence -> update
    receipts,     \* board_update_receipts: message id -> who sent what
    cache,        \* the decoded document and its validation shadow
    compaction,   \* the coordinator's work on this document
    reply         \* what the last appendUpdate returned or threw

document == <<snapshot, snapshotSeq, lastSeq, log>>
serverVars == <<document, receipts, cache, compaction, reply>>

Receipts == [actor : Actor, update : Update, seq : Nat]

Caches == [loaded : BOOLEAN, doc : SUBSET Op, shadow : SUBSET Op]

\* "failed" is idle after a pass that gave up, or after a restart.
Phases == {"idle", "failed", "scheduled", "reconstructing", "reconstructed"}
Compactions ==
    [phase : Phases, rerun : BOOLEAN,
     highWater : Nat, sourceSeq : Nat, candidate : SUBSET Op]

Refusals == {"IDEMPOTENCY_CONFLICT", "CAUSAL_GAP", "INVALID_UPDATE",
             "NO_NEW_INFORMATION", "STORAGE_ERROR"}
Replies ==
    [status : {"none"}]
        \cup [status : {"committed", "duplicate"}, update : Update, seq : Nat]
        \cup [status : {"rejected"}, update : Update, code : Refusals]

\* Everything the Board durably holds.
Content == snapshot \cup UNION {log[n] : n \in DOMAIN log}

NoCache == [loaded |-> FALSE, doc |-> {}, shadow |-> {}]
Rest(phase) ==
    [phase |-> phase, rerun |-> FALSE, highWater |-> 0, sourceSeq |-> 0,
     candidate |-> {}]

ServerInit ==
    /\ snapshot = {}
    /\ snapshotSeq = 0
    /\ lastSeq = 0
    /\ log = [n \in {} |-> {}]
    /\ receipts = [m \in {} |-> 0]
    /\ cache = NoCache
    /\ compaction = Rest("idle")
    /\ reply = [status |-> "none"]

-----------------------------------------------------------------------------
\* loadDocument refuses a log with a hole.
Loadable == DOMAIN log = snapshotSeq + 1 .. lastSeq

\* getDocument: the cached document, or the one the rows decode to.
Loaded == IF cache.loaded THEN cache
                          ELSE [loaded |-> TRUE, doc |-> Content, shadow |-> Content]

\* missingUpdates: one part for the snapshot and for each row, without what the
\* client's vector covers.
MissingUpdates(vector) ==
    LET parts == <<snapshot>>
                    \o [i \in 1 .. lastSeq - snapshotSeq |-> log[snapshotSeq + i]]
    IN  SelectSeq([i \in DOMAIN parts |-> parts[i] \ vector], LAMBDA part : part # {})

\* missingUpdates and documentStateVector both leave the document in the cache.
GetDocument ==
    /\ Loadable
    /\ cache' = Loaded
    /\ UNCHANGED <<document, receipts, compaction, reply>>

-----------------------------------------------------------------------------
\* appendUpdate, in the order it decides.
Reject(u, code) == reply' = [status |-> "rejected", update |-> u, code |-> code]

\* A receipt settles the message, whatever has happened to the document since.
ReplayReceipt(actor, m, u) ==
    /\ m \in DOMAIN receipts
    /\ LET r == receipts[m]
       IN  IF r.actor = actor /\ r.update = u
           THEN reply' = [status |-> "duplicate", update |-> u, seq |-> r.seq]
           ELSE Reject(u, "IDEMPOTENCY_CONFLICT")
    /\ UNCHANGED <<document, receipts, cache, compaction>>

\* The shadow takes the update before anything is stored; a refusal has to put
\* it back (resetValidationDocument).
Applied(u) == [Loaded EXCEPT !.shadow = @ \cup u]
\* Fault: the shadow keeps what was refused.
ResetForgotten(u) == cache' = Applied(u)
ResetShadow(u) == cache' = [Applied(u) EXCEPT !.shadow = Loaded.doc]

\* Fault: pending structs are let through.
RefusalWithoutGap(u) ==
    IF ~Valid(Applied(u).shadow) THEN "INVALID_UPDATE"
    ELSE IF u \subseteq Loaded.shadow THEN "NO_NEW_INFORMATION" ELSE "none"

\* applyAndValidateBoardUpdate on the shadow.
Refusal(u) ==
    IF HasPendingDependencies(Applied(u).shadow) THEN "CAUSAL_GAP"
    ELSE IF ~Valid(Applied(u).shadow) THEN "INVALID_UPDATE"
    ELSE IF u \subseteq Loaded.shadow THEN "NO_NEW_INFORMATION" ELSE "none"

RefuseUpdate(m, u) ==
    /\ m \notin DOMAIN receipts
    /\ Refusal(u) # "none"
    /\ Reject(u, Refusal(u))
    /\ ResetShadow(u)
    /\ UNCHANGED <<document, receipts, compaction>>

\* A quota, the free-disk floor, SQLite, or a guest room that has just closed.
StorageRefusal(m, u) ==
    /\ m \notin DOMAIN receipts
    /\ Refusal(u) = "none"
    /\ Reject(u, "STORAGE_ERROR")
    /\ ResetShadow(u)
    /\ UNCHANGED <<document, receipts, compaction>>

\* Fault: a pass under way is not asked to run again.
ScheduleOnce == IF compaction.phase \in {"idle", "failed"} THEN Rest("scheduled")
                                                          ELSE compaction
\* schedule: one pass waits at a time, and a pass under way asks for another.
Schedule ==
    CASE compaction.phase \in {"idle", "failed"} -> Rest("scheduled")
      [] compaction.phase = "scheduled" -> compaction
      [] OTHER -> [compaction EXCEPT !.rerun = TRUE]

AddReceipt(m, actor, u, n) ==
    receipts' = [k \in DOMAIN receipts \cup {m} |->
                    IF k = m THEN [actor |-> actor, update |-> u, seq |-> n]
                             ELSE receipts[k]]

StoreUpdate(actor, m, u) ==
    /\ m \notin DOMAIN receipts
    /\ Refusal(u) = "none"
    /\ lastSeq' = lastSeq + 1
    /\ log' = [n \in DOMAIN log \cup {lastSeq + 1} |->
                  IF n = lastSeq + 1 THEN u ELSE log[n]]
    /\ AddReceipt(m, actor, u, lastSeq + 1)
    /\ cache' = [Applied(u) EXCEPT !.doc = @ \cup u]
    /\ compaction' = Schedule
    /\ reply' = [status |-> "committed", update |-> u, seq |-> lastSeq + 1]
    /\ UNCHANGED <<snapshot, snapshotSeq>>

AppendUpdate(actor, m, u) ==
    \/ ReplayReceipt(actor, m, u)
    \/ RefuseUpdate(m, u)
    \/ StorageRefusal(m, u)
    \/ StoreUpdate(actor, m, u)

\* evictLeastRecentlyUsed.
Evict ==
    /\ cache.loaded
    /\ cache' = NoCache
    /\ UNCHANGED <<document, receipts, compaction, reply>>

-----------------------------------------------------------------------------
CompactionDue == Cardinality(DOMAIN log) >= MinUpdateCount

\* The end of a pass: a request that came in meanwhile schedules another.
Finish(phase) == Rest(IF compaction.rerun THEN "scheduled" ELSE phase)

CompactionStart ==
    /\ compaction.phase = "scheduled"
    /\ compaction' = IF CompactionDue THEN Rest("reconstructing") ELSE Finish("idle")
    /\ UNCHANGED <<document, receipts, cache, reply>>

\* The worker reads snapshot and rows in one transaction.
CompactionRead ==
    /\ compaction.phase = "reconstructing"
    /\ Loadable
    /\ compaction' = [compaction EXCEPT !.phase = "reconstructed",
                         !.highWater = lastSeq, !.sourceSeq = snapshotSeq,
                         !.candidate = Content]
    /\ UNCHANGED <<document, receipts, cache, reply>>

\* Fault: every row goes, the ones the worker has not read included.
CompactEverything(candidate, highWater) ==
    /\ snapshot' = candidate
    /\ snapshotSeq' = lastSeq
    /\ log' = [n \in {} |-> {}]
\* compactDocument: the snapshot replaces the rows up to the high-water mark,
\* and none that came after it.
CompactDocument(candidate, highWater) ==
    /\ snapshot' = candidate
    /\ snapshotSeq' = highWater
    /\ log' = Restrict(log, {n \in DOMAIN log : n > highWater})

InCommittedRange ==
    /\ snapshotSeq < compaction.highWater
    /\ compaction.highWater <= lastSeq
    /\ snapshotSeq + 1 .. compaction.highWater \subseteq DOMAIN log

CompactionWrite ==
    /\ compaction.phase = "reconstructed"
    /\ compaction.highWater # compaction.sourceSeq
    /\ InCommittedRange
    /\ CompactDocument(compaction.candidate, compaction.highWater)
    /\ compaction' = Finish("idle")
    /\ UNCHANGED <<lastSeq, receipts, cache, reply>>

\* The worker fails, the snapshot is too large for one frame, a deferred pass is
\* not due yet, or storage refuses the write.
CompactionGivesUp ==
    /\ compaction.phase \in {"scheduled", "reconstructing", "reconstructed"}
    /\ compaction' = Finish("failed")
    /\ UNCHANGED <<document, receipts, cache, reply>>

\* The process dies and starts again: only the rows survive.
Restart ==
    /\ cache' = NoCache
    /\ compaction' = Rest("failed")
    /\ UNCHANGED <<document, receipts, reply>>

Housekeeping ==
    \/ Evict
    \/ CompactionStart
    \/ CompactionRead
    \/ CompactionWrite
    \/ CompactionGivesUp
    \/ Restart

ServerNext ==
    \/ \E actor \in Actor, m \in Message, u \in Update : AppendUpdate(actor, m, u)
    \/ GetDocument
    \/ Housekeeping

ServerSpec == ServerInit /\ [][ServerNext]_serverVars

-----------------------------------------------------------------------------
\* The rows, the cache and the coordinator hold what they may hold, and no
\* sequence runs ahead of the document's counter.
TypeOK ==
    /\ snapshot \subseteq Op
    /\ lastSeq \in Nat
    /\ snapshotSeq \in 0 .. lastSeq
    /\ DOMAIN log \subseteq 1 .. lastSeq
    /\ log \in [DOMAIN log -> Update]
    /\ DOMAIN receipts \subseteq Message
    /\ receipts \in [DOMAIN receipts -> Receipts]
    /\ \A m \in DOMAIN receipts : receipts[m].seq \in 1 .. lastSeq
    /\ cache \in Caches
    /\ compaction \in Compactions
    /\ compaction.highWater <= lastSeq
    /\ reply \in Replies

\* The document can always be loaded and served part by part: the log has no
\* hole, and whatever prefix of the parts a client has applied, nothing in it
\* waits for a later part and no schema rule is broken (loadDocument,
\* missingUpdates).
Prefix(n) == snapshot \cup UNION {log[i] : i \in {j \in DOMAIN log : j <= n}}
EveryPrefixIntegrates ==
    /\ Loadable
    /\ \A n \in snapshotSeq .. lastSeq :
          ~HasPendingDependencies(Prefix(n)) /\ Valid(Prefix(n))

\* What the service answers from memory is what the rows say: after a refusal,
\* a failed write, an eviction or a compaction, neither the cached document nor
\* the shadow the next update is judged by differs from the durable content.
CacheIsStored == cache.loaded => cache.doc = Content /\ cache.shadow = Content

\* The server as a tab sees it: a message is settled with the actor that sent it
\* and the update it carried.
Port == INSTANCE BoardPort WITH
    content <- Content,
    settled <- {<<receipts[m].actor, m, receipts[m].update>> : m \in DOMAIN receipts}

\* What is refused for a reason of its own, and closes the tab's socket.
Declined(answer) ==
    /\ answer.status = "rejected"
    /\ answer.code \in {"IDEMPOTENCY_CONFLICT", "INVALID_UPDATE", "STORAGE_ERROR"}

\* An update is answered as the durable document decides, although it is judged on
\* the shadow in memory: NO_NEW_INFORMATION makes the client give a row up,
\* CAUSAL_GAP makes it wait for a predecessor, an acknowledgement makes it drop the
\* row from its outbox (networkProvider.ts handleControl, handleAck).  What is
\* acknowledged is durable with the answer, and nothing but an accepted update
\* changes what is stored: a declined one, an eviction, a compaction and a restart
\* do not.
TrueAnswer ==
    LET u == reply'.update
        verdict == IF reply'.status = "rejected" THEN reply'.code ELSE reply'.status
    IN  /\ reply'.status # "none"
        /\ \/ Declined(reply') /\ UNCHANGED Port!server
           \/ \E actor \in Actor, m \in Message : Port!Answered(<<actor, m, u>>, u, verdict)
AnswersAreTrue == [][TrueAnswer]_<<reply, Port!server>>

\* A log long enough to compact has a pass to come that will see all of it,
\* unless the last pass gave up or the process restarted since the last append.
CompactionKeepsUp ==
    CompactionDue =>
        \/ compaction.phase \in {"scheduled", "reconstructing", "failed"}
        \/ compaction.phase = "reconstructed"
              /\ (compaction.rerun \/ compaction.highWater = lastSeq)

\* The promise to the clients, of which this is an implementation: content only
\* grows, and a message keeps the answer it first received.
Promise == INSTANCE DurableUpdates WITH
    Key <- Message,
    Seed <- {},
    content <- Content,
    answers <- [m \in DOMAIN receipts |->
                   [update |-> receipts[m].update, sequence |-> receipts[m].seq]]
KeepsPromise == Promise!Spec
=============================================================================
