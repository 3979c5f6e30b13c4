--------------------------- MODULE CodeRepository ---------------------------
(***************************************************************************)
(* The server's durable copy of one Code workspace                         *)
(* (server/code-sync/repository.ts): a snapshot, the update rows after it, *)
(* the counters of the document row and the idempotency receipts.  Every   *)
(* call of appendUpdate is one immediate SQLite transaction, so it is one  *)
(* atomic action here; a transaction that throws rolls back and changes    *)
(* nothing but the reply.                                                  *)
(*                                                                         *)
(* An update is a set of operations.  An operation is integrated once      *)
(* every operation it depends on is present; until then Yjs holds it as a  *)
(* pending struct or pending delete set.  Digests are collision-free, so   *)
(* an update stands for its own digest.                                    *)
(***************************************************************************)
EXTENDS Integers, FiniteSets, Functions, SequencesExt

CONSTANTS
    Op,         \* operations of the shared document
    Deps,       \* Deps[o]: every operation o needs, directly or not
    Deletes,    \* operations of delete sets: a state vector does not cover them
    Conflicts,  \* sets of operations that together break a workspace limit
    Seed,       \* the bootstrap snapshot of a new workspace
    Update,     \* updates clients may send, {} being the update without content
    Key,        \* (device id, update id)
    Bytes,      \* Bytes[S]: encoded size of a set of operations
    CompactAfterUpdateCount, CompactAfterUpdateBytes,
    MaxUpdateLogCount, MaxWorkspaceBytes, MaxUpdateBytes,
    MaxReceiptCount, MaxColdSyncParts

-----------------------------------------------------------------------------
\* Yjs, as the repository uses it.
Integrated(S) == {o \in S : Deps[o] \subseteq S}
HasPendingDependencies(S) == Integrated(S) # S
StateVector(S) == Integrated(S) \ Deletes

\* encodeStateAsUpdate: the repository relies on integrated operations only.
EncodeState(S) == Integrated(S)

\* diffUpdate keeps delete sets whatever the vector says.
DiffUpdate(u, vector) == u \ vector

\* validateCodeWorkspaceDocument sees what is integrated.
Valid(S) == \A c \in Conflicts : ~(c \subseteq Integrated(S))

-----------------------------------------------------------------------------
ASSUME DepsAssumption ==
    /\ Deps \in [Op -> SUBSET Op]
    /\ \A o \in Op : \A p \in Deps[o] : Deps[p] \subseteq Deps[o]

ASSUME SeedAssumption ==
    /\ Seed \subseteq Op
    /\ Integrated(Seed) = Seed
    /\ Valid(Seed)

ASSUME UpdateAssumption ==
    /\ Update \subseteq SUBSET Op
    /\ Conflicts \subseteq SUBSET Op
    /\ Deletes \subseteq Op

ASSUME BytesAssumption == Bytes \in [SUBSET Op -> Nat]

\* What the constructor accepts (repository.ts 176-233).
ASSUME PolicyAssumption ==
    /\ CompactAfterUpdateCount \in Nat \ {0}
    /\ CompactAfterUpdateBytes \in Nat \ {0}
    /\ MaxUpdateLogCount \in Nat \ {0}
    /\ MaxWorkspaceBytes \in Nat \ {0}
    /\ MaxUpdateBytes \in Nat \ {0}
    /\ MaxReceiptCount \in Nat \ {0}
    /\ MaxColdSyncParts \in Nat \ {0}
    /\ CompactAfterUpdateCount <= MaxUpdateLogCount
    /\ CompactAfterUpdateBytes <= MaxWorkspaceBytes
    /\ MaxUpdateLogCount + 1 <= MaxColdSyncParts

-----------------------------------------------------------------------------
VARIABLES
    snapshot,          \* code_documents.snapshot_update
    snapshotSequence,  \* code_documents.snapshot_sequence
    stateVector,       \* code_documents.state_vector
    lastSequence,      \* code_documents.last_sequence
    log,               \* code_updates: sequence -> update
    updateLogCount,    \* code_documents.update_log_count
    updateLogBytes,    \* code_documents.update_log_bytes
    receipts,          \* code_update_receipts: key -> digest and sequence
    receiptCount,      \* code_documents.receipt_count
    reply              \* what the last appendUpdate returned or threw

document == <<snapshot, snapshotSequence, stateVector, lastSequence, log,
              updateLogCount, updateLogBytes>>
vars == <<document, receipts, receiptCount, reply>>

Replies ==
    [status : {"none", "committed", "duplicate"}, sequence : Nat]
        \cup [status : {"rejected"}, code : {"invalid-update", "expired"}]

Receipts == [digest : Update, sequence : Nat]

\* Everything the workspace durably holds, pending operations included.
Content == snapshot \cup UNION {log[n] : n \in DOMAIN log}

Init ==
    /\ snapshot = Seed
    /\ snapshotSequence = 0
    /\ stateVector = StateVector(Seed)
    /\ lastSequence = 0
    /\ log = [n \in {} |-> {}]
    /\ updateLogCount = 0
    /\ updateLogBytes = 0
    /\ receipts = [k \in {} |-> 0]
    /\ receiptCount = 0
    /\ reply = [status |-> "none", sequence |-> 0]

-----------------------------------------------------------------------------
\* loadDocument reads the rows of the log in sequence order.
Rows == [i \in 1 .. lastSequence - snapshotSequence |-> log[snapshotSequence + i]]

\* The checks loadDocument makes before it trusts what it read: any failure is
\* a STORAGE_ERROR, and the workspace can then neither be synced nor edited.
RowsMatchCounters ==
    LET read == {n \in DOMAIN log : n > snapshotSequence /\ n <= lastSequence}
    IN  /\ Cardinality(read) = updateLogCount
        /\ IF read = {} THEN lastSequence = snapshotSequence
                        ELSE lastSequence \in read
\* The reduce over update_bytes, row by row.
BytesOf(rows) ==
    LET total[n \in 0 .. Len(rows)] ==
            IF n = 0 THEN 0 ELSE total[n - 1] + Bytes[rows[n]]
    IN  total[Len(rows)]
LogBytesMatch == BytesOf(Rows) = updateLogBytes
VectorMatches == stateVector = StateVector(Content)
Loadable ==
    /\ RowsMatchCounters
    /\ LogBytesMatch
    /\ Valid(Content)
    /\ VectorMatches

\* map and filter of missingUpdates: the parts read from disk, each cut down to
\* what the client's vector lacks and left out when nothing remains.
PartsLacking(vector) ==
    LET parts == <<snapshot>> \o Rows
        kept[n \in 0 .. Len(parts)] ==
            IF n = 0 THEN <<>>
            ELSE IF DiffUpdate(parts[n], vector) = {} THEN kept[n - 1]
            ELSE Append(kept[n - 1], DiffUpdate(parts[n], vector))
    IN  kept[Len(parts)]

\* missingUpdates: the snapshot and each row stay parts of their own; with nothing
\* to send it answers one update without content.
MissingUpdates(vector) ==
    IF PartsLacking(vector) = <<>> THEN <<{}>> ELSE PartsLacking(vector)

-----------------------------------------------------------------------------
\* What appendTransaction looks at, in the order it does.
Answered(key) == key \in DOMAIN receipts
HasReceiptCapacity == receiptCount < MaxReceiptCount
\* Fault: digests are looked up in the log only, and compaction empties it.
KnownDigestInLog(u) == \E n \in DOMAIN log : log[n] = u
KnownDigest(u) == \E k \in DOMAIN receipts : receipts[k].digest = u
DigestSequences(u) == {receipts[k].sequence : k \in {r \in DOMAIN receipts : receipts[r].digest = u}}
FirstSequence(u) == CHOOSE n \in DigestSequences(u) : \A m \in DigestSequences(u) : n <= m

\* Reached the reconstruction of the document: a new key and unseen content.
IsNew(key, u) ==
    /\ ~Answered(key)
    /\ HasReceiptCapacity
    /\ ~KnownDigest(u)
    /\ u # {}

Candidate(u) == Content \cup u
\* Fault: the candidate document is not validated.
AcceptsUnvalidated(key, u) == IsNew(key, u)
Accepts(key, u) == IsNew(key, u) /\ Valid(Candidate(u))

\* Fault: the threshold itself does not trigger compaction.
CompactionDueLate(u) ==
    \/ updateLogCount + 1 > CompactAfterUpdateCount
    \/ updateLogBytes + Bytes[u] >= CompactAfterUpdateBytes
CompactionDue(u) ==
    \/ updateLogCount + 1 >= CompactAfterUpdateCount
    \/ updateLogBytes + Bytes[u] >= CompactAfterUpdateBytes
SnapshotFits(u) ==
    /\ Bytes[EncodeState(Candidate(u))] <= MaxUpdateBytes
    /\ Bytes[EncodeState(Candidate(u))] <= MaxWorkspaceBytes
\* Fault: compaction ignores pending structs and delete sets.
CanCompactPending(u) == CompactionDue(u) /\ SnapshotFits(u)
CanCompact(u) ==
    /\ CompactionDue(u)
    /\ ~HasPendingDependencies(Candidate(u))
    /\ SnapshotFits(u)

\* Fault: the count before the insert is compared with the limit.
HasLogCapacityOffByOne(u) ==
    /\ updateLogCount <= MaxUpdateLogCount
    /\ Bytes[snapshot] + updateLogBytes + Bytes[u] <= MaxWorkspaceBytes
\* assertUpdateLogCapacity
HasLogCapacity(u) ==
    /\ updateLogCount + 1 <= MaxUpdateLogCount
    /\ Bytes[snapshot] + updateLogBytes + Bytes[u] <= MaxWorkspaceBytes

-----------------------------------------------------------------------------
Answer(status, n) == reply' = [status |-> status, sequence |-> n]
Reject(code) ==
    /\ reply' = [status |-> "rejected", code |-> code]
    /\ UNCHANGED <<document, receipts, receiptCount>>

\* Fault: the receipt is written with the sequence of the row that was read.
AddReceiptStale(key, u, n) ==
    /\ receipts' = [k \in DOMAIN receipts \cup {key} |->
                       IF k = key THEN [digest |-> u, sequence |-> lastSequence]
                                  ELSE receipts[k]]
    /\ receiptCount' = receiptCount + 1

\* insertReceipt and the receipt_count + 1 every caller does with it
AddReceipt(key, u, n) ==
    /\ receipts' = [k \in DOMAIN receipts \cup {key} |->
                       IF k = key THEN [digest |-> u, sequence |-> n] ELSE receipts[k]]
    /\ receiptCount' = receiptCount + 1

\* The key has a receipt: an exact replay is answered even at the quota ...
ReplayReceipt(key, u) ==
    /\ Answered(key)
    /\ receipts[key].digest = u
    /\ Answer("duplicate", receipts[key].sequence)
    /\ UNCHANGED <<document, receipts, receiptCount>>

\* ... and any other update under it is an IDEMPOTENCY_CONFLICT.
IdempotencyConflict(key, u) ==
    /\ Answered(key)
    /\ receipts[key].digest # u
    /\ Reject("invalid-update")

ReceiptQuotaReached(key) ==
    /\ ~Answered(key)
    /\ ~HasReceiptCapacity
    /\ Reject("invalid-update")

\* recordDuplicateReceipt: the digest is known under another key.
DuplicateDigest(key, u) ==
    /\ ~Answered(key)
    /\ HasReceiptCapacity
    /\ KnownDigest(u)
    /\ AddReceipt(key, u, FirstSequence(u))
    /\ Answer("duplicate", FirstSequence(u))
    /\ UNCHANGED document

EmptyUpdate(key, u) ==
    /\ ~Answered(key)
    /\ HasReceiptCapacity
    /\ ~KnownDigest(u)
    /\ u = {}
    /\ AddReceipt(key, u, lastSequence)
    /\ Answer("duplicate", lastSequence)
    /\ UNCHANGED document

InvalidUpdate(key, u) ==
    /\ IsNew(key, u)
    /\ ~Valid(Candidate(u))
    /\ Reject("invalid-update")

CommitCompacted(key, u) ==
    /\ Accepts(key, u)
    /\ CanCompact(u)
    /\ AddReceipt(key, u, lastSequence + 1)
    /\ log' = [n \in {} |-> {}]
    /\ snapshot' = EncodeState(Candidate(u))
    /\ stateVector' = StateVector(Candidate(u))
    /\ snapshotSequence' = lastSequence + 1
    /\ lastSequence' = lastSequence + 1
    /\ updateLogCount' = 0
    /\ updateLogBytes' = 0
    /\ Answer("committed", lastSequence + 1)

CommitLogged(key, u) ==
    /\ Accepts(key, u)
    /\ ~CanCompact(u)
    /\ HasLogCapacity(u)
    /\ AddReceipt(key, u, lastSequence + 1)
    /\ log' = [n \in DOMAIN log \cup {lastSequence + 1} |->
                  IF n = lastSequence + 1 THEN u ELSE log[n]]
    /\ stateVector' = StateVector(Candidate(u))
    /\ lastSequence' = lastSequence + 1
    /\ updateLogCount' = updateLogCount + 1
    /\ updateLogBytes' = updateLogBytes + Bytes[u]
    /\ UNCHANGED <<snapshot, snapshotSequence>>
    /\ Answer("committed", lastSequence + 1)

LogQuotaReached(key, u) ==
    /\ Accepts(key, u)
    /\ ~CanCompact(u)
    /\ ~HasLogCapacity(u)
    /\ Reject("invalid-update")

\* assertGuestStorageCapacity: other workspaces share the guest quota, so any
\* call that would write may find it spent.  The transaction rolls back.
GuestQuotaReached(key) ==
    /\ ~Answered(key)
    /\ HasReceiptCapacity
    /\ Reject("invalid-update")

\* commitActivity returns false: the room's lease ended before the commit.
ResourceInactive(key, u) ==
    /\ Accepts(key, u)
    /\ CanCompact(u) \/ HasLogCapacity(u)
    /\ Reject("expired")

\* What the workspace's own tables decide ...
StoreUpdate(key, u) ==
    \/ ReplayReceipt(key, u)
    \/ IdempotencyConflict(key, u)
    \/ ReceiptQuotaReached(key)
    \/ DuplicateDigest(key, u)
    \/ EmptyUpdate(key, u)
    \/ InvalidUpdate(key, u)
    \/ CommitCompacted(key, u)
    \/ CommitLogged(key, u)
    \/ LogQuotaReached(key, u)

\* ... and what the rest of the server may refuse.
AppendUpdate(key, u) ==
    \/ StoreUpdate(key, u)
    \/ GuestQuotaReached(key)
    \/ ResourceInactive(key, u)

Next == \E key \in Key, u \in Update : AppendUpdate(key, u)

Spec == Init /\ [][Next]_vars

-----------------------------------------------------------------------------
\* The tables and the document row hold what their columns may hold.
TypeOK ==
    /\ snapshot \subseteq Op
    /\ stateVector \subseteq Op
    /\ snapshotSequence \in Nat
    /\ lastSequence \in Nat
    /\ DOMAIN log \subseteq Nat
    /\ log \in [DOMAIN log -> Update]
    /\ updateLogCount \in Nat
    /\ updateLogBytes \in Nat
    /\ DOMAIN receipts \subseteq Key
    /\ receipts \in [DOMAIN receipts -> Receipts]
    /\ receiptCount \in Nat
    /\ reply \in Replies

\* Every update a receipt acknowledges is durable: neither compaction nor a
\* duplicate drops it, not even one that still waits for its dependencies.
AckedIsDurable == \A k \in DOMAIN receipts : receipts[k].digest \subseteq Content

\* loadDocument never refuses what appendTransaction left behind, so neither a
\* sync nor an edit can meet a STORAGE_ERROR.
AlwaysLoadable == Loadable

\* missingUpdates never exceeds the part limit, however long the log grows
\* while a missing dependency keeps it from being compacted.
ColdSyncServable == Len(<<snapshot>> \o Rows) <= MaxColdSyncParts

\* An update is stored once, and each row still in the log has the receipt that
\* recognises it when it comes back under another key.
StoredOnce ==
    /\ \A m, n \in DOMAIN log : log[m] = log[n] => m = n
    /\ \A n \in DOMAIN log :
          \E k \in DOMAIN receipts : receipts[k] = [digest |-> log[n], sequence |-> n]

\* While nothing is pending and a snapshot fits, the log stays below both
\* compaction thresholds.
CompactionKeepsUp ==
    (~HasPendingDependencies(Content)
        /\ Bytes[EncodeState(Content)] <= MaxUpdateBytes
        /\ Bytes[EncodeState(Content)] <= MaxWorkspaceBytes)
    => /\ updateLogCount < CompactAfterUpdateCount
       /\ updateLogBytes < CompactAfterUpdateBytes

\* With the log at its hard boundary an update is accepted only when it
\* resolves every pending operation and lets the log be compacted at once.
BoundaryStep ==
    (updateLogCount = MaxUpdateLogCount /\ lastSequence' # lastSequence)
    => /\ log' = [n \in {} |-> {}]
       /\ ~HasPendingDependencies(Content')
FullLogOnlyCompacts == [][BoundaryStep]_vars

\* The promise to the clients: content only grows, a key keeps its answer, and
\* a repeated update keeps its sequence.
Promise == INSTANCE DurableUpdates WITH
    content <- Content,
    answers <- [k \in DOMAIN receipts |->
                   [update |-> receipts[k].digest, sequence |-> receipts[k].sequence]]
KeepsPromise == Promise!Spec
=============================================================================
