------------------------ MODULE CodeRepositoryProofs ------------------------
(***************************************************************************)
(* Proofs about CodeRepository for every document, policy and set of keys. *)
(*                                                                         *)
(* The inductive invariant IInv relates the log to its counters and the    *)
(* receipts to the log: an acknowledged update is in the content, a row    *)
(* has its receipt, and one digest has one sequence.  The byte counter, a  *)
(* running total over the rows, rests on SetInduction (BytesAddUp).        *)
(***************************************************************************)
EXTENDS CodeRepository, FiniteSetTheorems, WellFoundedInduction, TLAPS

\* The rows of the log are numbered without gaps, and the counter counts them.
LogContiguous ==
    /\ snapshotSequence <= lastSequence
    /\ DOMAIN log = snapshotSequence + 1 .. lastSequence
    /\ updateLogCount = lastSequence - snapshotSequence
    /\ updateLogCount <= MaxUpdateLogCount

DigestHasOneSequence ==
    \A k, l \in DOMAIN receipts :
        receipts[k].digest = receipts[l].digest
            => receipts[k].sequence = receipts[l].sequence

RowsHaveReceipts ==
    \A n \in DOMAIN log :
        \E k \in DOMAIN receipts : receipts[k] = [digest |-> log[n], sequence |-> n]

IInv ==
    /\ TypeOK
    /\ LogContiguous
    /\ Valid(Content)
    /\ VectorMatches
    /\ AckedIsDurable
    /\ DigestHasOneSequence
    /\ RowsHaveReceipts

-----------------------------------------------------------------------------
\* Content and its encoding are sets of operations.
LEMMA ContentType ==
    ASSUME TypeOK
    PROVE  Content \subseteq Op
BY UpdateAssumption DEF TypeOK, Content

\* A row appended after the log adds exactly its operations to the content.
LEMMA LoggedContent ==
    ASSUME TypeOK, LogContiguous,
           NEW u \in Update,
           snapshot' = snapshot,
           log' = [n \in DOMAIN log \cup {lastSequence + 1} |->
                      IF n = lastSequence + 1 THEN u ELSE log[n]]
    PROVE  Content' = Candidate(u)
<1>1. lastSequence + 1 \notin DOMAIN log
  BY DEF TypeOK, LogContiguous
<1>2. {log'[n] : n \in DOMAIN log'} = {log[n] : n \in DOMAIN log} \cup {u}
  <2>1. ASSUME NEW x \in {log'[n] : n \in DOMAIN log'}
        PROVE  x \in {log[n] : n \in DOMAIN log} \cup {u}
    <3>1. PICK n \in DOMAIN log' : x = log'[n]
      BY <2>1
    <3>2. CASE n = lastSequence + 1
      BY <3>1, <3>2
    <3>3. CASE n # lastSequence + 1
      BY <3>1, <3>3
    <3> QED
      BY <3>2, <3>3
  <2>2. ASSUME NEW n \in DOMAIN log
        PROVE  log[n] \in {log'[m] : m \in DOMAIN log'}
    <3>1. n \in DOMAIN log' /\ log'[n] = log[n]
      BY <1>1
    <3> QED
      BY <3>1
  <2>3. u \in {log'[m] : m \in DOMAIN log'}
    <3>1. lastSequence + 1 \in DOMAIN log' /\ log'[lastSequence + 1] = u
      OBVIOUS
    <3> QED
      BY <3>1
  <2> QED
    BY <2>1, <2>2, <2>3
<1> QED
  BY <1>2 DEF Content, Candidate

\* A compacted log leaves the snapshot alone as the content.
LEMMA CompactedContent ==
    ASSUME NEW u \in Update,
           ~HasPendingDependencies(Candidate(u)),
           snapshot' = EncodeState(Candidate(u)),
           log' = [n \in {} |-> {}]
    PROVE  Content' = Candidate(u)
<1>1. {log'[n] : n \in DOMAIN log'} = {}
  OBVIOUS
<1> QED
  BY <1>1 DEF Content, EncodeState, HasPendingDependencies

\* FirstSequence picks the sequence of a receipt that has the digest.
LEMMA FirstSequenceIsRecorded ==
    ASSUME TypeOK, DigestHasOneSequence, NEW u, KnownDigest(u)
    PROVE  \A k \in DOMAIN receipts :
              receipts[k].digest = u => receipts[k].sequence = FirstSequence(u)
<1>1. PICK k \in DOMAIN receipts : receipts[k].digest = u
  BY DEF KnownDigest
<1>2. DigestSequences(u) = {receipts[k].sequence}
  BY <1>1 DEF DigestHasOneSequence, DigestSequences
<1>3. receipts[k].sequence \in Nat
  BY DEF TypeOK, Receipts
<1>4. FirstSequence(u) = receipts[k].sequence
  BY <1>2, <1>3 DEF FirstSequence
<1> QED
  BY <1>1, <1>4 DEF DigestHasOneSequence

-----------------------------------------------------------------------------
\* A new workspace satisfies the invariant.
LEMMA InitIInv == Init => IInv
<1> SUFFICES ASSUME Init PROVE IInv
  OBVIOUS
<1>1. Content = Seed
  <2>1. {log[n] : n \in DOMAIN log} = {}
    BY DEF Init
  <2> QED
    BY <2>1 DEF Init, Content
<1>2. TypeOK
  BY SeedAssumption, UpdateAssumption DEF Init, TypeOK, Replies, StateVector, Integrated
<1>3. LogContiguous
  BY PolicyAssumption DEF Init, LogContiguous
<1>4. Valid(Content) /\ VectorMatches
  BY <1>1, SeedAssumption DEF Init, VectorMatches
<1>5. AckedIsDurable /\ DigestHasOneSequence /\ RowsHaveReceipts
  BY DEF Init, AckedIsDurable, DigestHasOneSequence, RowsHaveReceipts
<1> QED
  BY <1>2, <1>3, <1>4, <1>5 DEF IInv

\* A rejected call and an exact replay leave the tables alone.
LEMMA UnchangedStep ==
    ASSUME IInv, UNCHANGED <<document, receipts, receiptCount>>, reply' \in Replies
    PROVE  IInv'
<1>1. Content' = Content
  BY DEF document, Content
<1> QED
  BY <1>1 DEF IInv, TypeOK, LogContiguous, VectorMatches, AckedIsDurable, document,
              DigestHasOneSequence, RowsHaveReceipts, Valid, Integrated, StateVector

\* A receipt for an update the content already holds changes nothing else.
LEMMA DuplicateStep ==
    ASSUME IInv, UNCHANGED document,
           NEW key \in Key, NEW u \in Update, NEW n \in Nat,
           ~Answered(key),
           u \subseteq Content,
           \A k \in DOMAIN receipts :
               receipts[k].digest = u => receipts[k].sequence = n,
           AddReceipt(key, u, n),
           reply' \in Replies
    PROVE  IInv'
<1>1. Content' = Content
  BY DEF document, Content
<1>2. TypeOK'
  BY DEF IInv, TypeOK, document, AddReceipt, Receipts
<1>3. LogContiguous' /\ Valid(Content)' /\ VectorMatches'
  BY <1>1 DEF IInv, LogContiguous, VectorMatches, document, Valid, Integrated, StateVector
<1>4. AckedIsDurable'
  BY <1>1 DEF IInv, AckedIsDurable, AddReceipt
<1>5. DigestHasOneSequence'
  BY DEF IInv, DigestHasOneSequence, AddReceipt
<1>6. RowsHaveReceipts'
  <2> SUFFICES ASSUME NEW m \in DOMAIN log
               PROVE  \E k \in DOMAIN receipts' :
                          receipts'[k] = [digest |-> log[m], sequence |-> m]
    BY DEF RowsHaveReceipts, document
  <2>1. PICK k \in DOMAIN receipts : receipts[k] = [digest |-> log[m], sequence |-> m]
    BY DEF IInv, RowsHaveReceipts
  <2>2. k \in DOMAIN receipts' /\ receipts'[k] = receipts[k]
    BY DEF AddReceipt, Answered
  <2> QED
    BY <2>1, <2>2
<1> QED
  BY <1>2, <1>3, <1>4, <1>5, <1>6 DEF IInv

\* What both kinds of commit share once the new content is known.
LEMMA CommitReceipts ==
    ASSUME IInv,
           NEW key \in Key, NEW u \in Update,
           Accepts(key, u),
           Content' = Candidate(u),
           AddReceipt(key, u, lastSequence + 1)
    PROVE  /\ AckedIsDurable'
           /\ DigestHasOneSequence'
           /\ \A k \in DOMAIN receipts :
                 k \in DOMAIN receipts' /\ receipts'[k] = receipts[k]
           /\ key \in DOMAIN receipts'
           /\ receipts'[key] = [digest |-> u, sequence |-> lastSequence + 1]
<1>1. \A k \in DOMAIN receipts : receipts[k].digest # u
  BY DEF Accepts, IsNew, KnownDigest
<1>2. AckedIsDurable'
  BY DEF IInv, AckedIsDurable, AddReceipt, Candidate
<1>3. DigestHasOneSequence'
  BY <1>1 DEF IInv, DigestHasOneSequence, AddReceipt
<1>4. \A k \in DOMAIN receipts : k \in DOMAIN receipts' /\ receipts'[k] = receipts[k]
  BY DEF AddReceipt, Accepts, IsNew, Answered
<1>5. /\ key \in DOMAIN receipts'
      /\ receipts'[key] = [digest |-> u, sequence |-> lastSequence + 1]
  BY DEF AddReceipt
<1> QED
  BY <1>2, <1>3, <1>4, <1>5

LEMMA LoggedStep ==
    ASSUME IInv, NEW key \in Key, NEW u \in Update, CommitLogged(key, u)
    PROVE  IInv'
<1> USE DEF CommitLogged
<1>1. Content' = Candidate(u)
  BY LoggedContent DEF IInv
<1>2. TypeOK'
  <2>1. Candidate(u) \subseteq Op
    BY ContentType, UpdateAssumption DEF IInv, Candidate
  <2>2. stateVector' \subseteq Op
    BY <2>1 DEF StateVector, Integrated
  <2>3. DOMAIN log' \subseteq Nat /\ log' \in [DOMAIN log' -> Update]
    BY DEF IInv, TypeOK
  <2>4. DOMAIN receipts' \subseteq Key /\ receipts' \in [DOMAIN receipts' -> Receipts]
    BY DEF IInv, TypeOK, AddReceipt, Receipts
  <2>5. reply' \in Replies
    BY DEF IInv, TypeOK, Answer, Replies
  <2>6. Bytes[u] \in Nat
    BY BytesAssumption, UpdateAssumption
  <2> QED
    BY <2>2, <2>3, <2>4, <2>5, <2>6 DEF IInv, TypeOK, AddReceipt
<1>3. LogContiguous'
  <2>1. updateLogCount + 1 <= MaxUpdateLogCount
    BY DEF HasLogCapacity
  <2>2. DOMAIN log' = DOMAIN log \cup {lastSequence + 1}
    OBVIOUS
  <2>3. /\ snapshotSequence \in Nat /\ lastSequence \in Nat
        /\ snapshotSequence <= lastSequence
        /\ DOMAIN log = snapshotSequence + 1 .. lastSequence
        /\ updateLogCount = lastSequence - snapshotSequence
    BY DEF IInv, TypeOK, LogContiguous
  <2>4. DOMAIN log' = snapshotSequence + 1 .. lastSequence + 1
    BY <2>2, <2>3
  <2> QED
    BY <2>1, <2>3, <2>4 DEF LogContiguous
<1>4. Valid(Content)' /\ VectorMatches'
  BY <1>1 DEF Accepts, Valid, VectorMatches, StateVector, Integrated
<1>5. AckedIsDurable' /\ DigestHasOneSequence'
  BY <1>1, CommitReceipts
<1>6. RowsHaveReceipts'
  <2> SUFFICES ASSUME NEW m \in DOMAIN log'
               PROVE  \E k \in DOMAIN receipts' :
                          receipts'[k] = [digest |-> log'[m], sequence |-> m]
    BY DEF RowsHaveReceipts
  <2>1. CASE m = lastSequence + 1
    BY <1>1, <2>1, CommitReceipts
  <2>2. CASE m # lastSequence + 1
    <3>1. m \in DOMAIN log /\ log'[m] = log[m]
      BY <2>2
    <3>2. PICK k \in DOMAIN receipts : receipts[k] = [digest |-> log[m], sequence |-> m]
      BY <3>1 DEF IInv, RowsHaveReceipts
    <3>3. k \in DOMAIN receipts' /\ receipts'[k] = receipts[k]
      BY <1>1, CommitReceipts
    <3> QED
      BY <3>1, <3>2, <3>3
  <2> QED
    BY <2>1, <2>2
<1> QED
  BY <1>2, <1>3, <1>4, <1>5, <1>6 DEF IInv

LEMMA CompactedStep ==
    ASSUME IInv, NEW key \in Key, NEW u \in Update, CommitCompacted(key, u)
    PROVE  IInv'
<1> USE DEF CommitCompacted
<1>1. Content' = Candidate(u)
  BY CompactedContent DEF CanCompact
<1>2. TypeOK'
  <2>1. Candidate(u) \subseteq Op
    BY ContentType, UpdateAssumption DEF IInv, Candidate
  <2>2. stateVector' \subseteq Op /\ snapshot' \subseteq Op
    BY <2>1 DEF StateVector, EncodeState, Integrated
  <2>3. DOMAIN log' \subseteq Nat /\ log' \in [DOMAIN log' -> Update]
    OBVIOUS
  <2>4. DOMAIN receipts' \subseteq Key /\ receipts' \in [DOMAIN receipts' -> Receipts]
    BY DEF IInv, TypeOK, AddReceipt, Receipts
  <2>5. reply' \in Replies
    BY DEF IInv, TypeOK, Answer, Replies
  <2> QED
    BY <2>2, <2>3, <2>4, <2>5 DEF IInv, TypeOK, AddReceipt
<1>3. LogContiguous'
  BY PolicyAssumption DEF IInv, TypeOK, LogContiguous
<1>4. Valid(Content)' /\ VectorMatches'
  BY <1>1 DEF Accepts, Valid, VectorMatches, StateVector, Integrated
<1>5. AckedIsDurable' /\ DigestHasOneSequence'
  BY <1>1, CommitReceipts
<1>6. RowsHaveReceipts'
  BY DEF RowsHaveReceipts
<1> QED
  BY <1>2, <1>3, <1>4, <1>5, <1>6 DEF IInv

-----------------------------------------------------------------------------
\* Every call of appendUpdate preserves the invariant.
LEMMA NextIInv == IInv /\ [Next]_vars => IInv'
<1> SUFFICES ASSUME IInv, [Next]_vars PROVE IInv'
  OBVIOUS
<1>1. CASE UNCHANGED vars
  <2>1. reply' \in Replies
    BY <1>1 DEF vars, IInv, TypeOK
  <2> QED
    BY <1>1, <2>1, UnchangedStep DEF vars
<1>2. ASSUME NEW key \in Key, NEW u \in Update, AppendUpdate(key, u)
      PROVE  IInv'
  <2>1. CASE ReplayReceipt(key, u)
    <3>1. reply' \in Replies
      BY <2>1 DEF ReplayReceipt, Answer, Answered, IInv, TypeOK, Receipts, Replies
    <3> QED
      BY <2>1, <3>1, UnchangedStep DEF ReplayReceipt
  <2>2. CASE \/ IdempotencyConflict(key, u)
             \/ ReceiptQuotaReached(key)
             \/ InvalidUpdate(key, u)
             \/ LogQuotaReached(key, u)
             \/ GuestQuotaReached(key)
             \/ ResourceInactive(key, u)
    <3>1. PICK code \in {"invalid-update", "expired"} : Reject(code)
      BY <2>2 DEF IdempotencyConflict, ReceiptQuotaReached, InvalidUpdate,
                  LogQuotaReached, GuestQuotaReached, ResourceInactive
    <3>2. reply' \in Replies
      BY <3>1 DEF Reject, Replies
    <3> QED
      BY <3>1, <3>2, UnchangedStep DEF Reject
  <2>3. CASE DuplicateDigest(key, u)
    <3>1. /\ KnownDigest(u)
          /\ ~Answered(key)
          /\ AddReceipt(key, u, FirstSequence(u))
          /\ UNCHANGED document
      BY <2>3 DEF DuplicateDigest
    <3>2. PICK k \in DOMAIN receipts : receipts[k].digest = u
      BY <3>1 DEF KnownDigest
    <3>3. u \subseteq Content
      BY <3>2 DEF IInv, AckedIsDurable
    <3>4. \A r \in DOMAIN receipts :
             receipts[r].digest = u => receipts[r].sequence = FirstSequence(u)
      BY <3>1, FirstSequenceIsRecorded DEF IInv
    <3>5. FirstSequence(u) \in Nat
      BY <3>2, <3>4 DEF IInv, TypeOK, Receipts
    <3>6. reply' \in Replies
      BY <2>3, <3>5 DEF DuplicateDigest, Answer, Replies
    <3> QED
      BY <3>1, <3>3, <3>4, <3>5, <3>6, DuplicateStep
  <2>4. CASE EmptyUpdate(key, u)
    <3>1. lastSequence \in Nat
      BY DEF IInv, TypeOK
    <3>2. \A k \in DOMAIN receipts :
             receipts[k].digest = u => receipts[k].sequence = lastSequence
      BY <2>4 DEF EmptyUpdate, KnownDigest
    <3>3. reply' \in Replies
      BY <2>4, <3>1 DEF EmptyUpdate, Answer, Replies
    <3> QED
      BY <2>4, <3>1, <3>2, <3>3, DuplicateStep DEF EmptyUpdate
  <2>5. CASE CommitCompacted(key, u)
    BY <2>5, CompactedStep
  <2>6. CASE CommitLogged(key, u)
    BY <2>6, LoggedStep
  <2> QED
    BY <1>2, <2>1, <2>2, <2>3, <2>4, <2>5, <2>6 DEF AppendUpdate, StoreUpdate
<1> QED
  BY <1>1, <1>2 DEF Next

\* The invariant holds in every reachable state of the repository.
THEOREM Invariance == Spec => []IInv
BY InitIInv, NextIInv, PTL DEF Spec

-----------------------------------------------------------------------------
\* The tables and counters keep their types through every append, replay,
\* compaction and rollback (appendTransaction).
THEOREM TypeCorrect == Spec => []TypeOK
<1>1. IInv => TypeOK
  BY DEF IInv
<1> QED
  BY <1>1, Invariance, PTL

\* An acknowledged update survives every later append and compaction.
THEOREM AcknowledgedUpdatesAreDurable == Spec => []AckedIsDurable
<1>1. IInv => AckedIsDurable
  BY DEF IInv
<1> QED
  BY <1>1, Invariance, PTL

\* The snapshot and the rows make at most as many parts as a cold sync may have.
LEMMA ColdSyncOf == ASSUME IInv PROVE ColdSyncServable
<1> DEFINE count == lastSequence - snapshotSequence
<1>1. count \in Nat /\ count <= MaxUpdateLogCount
  BY DEF IInv, TypeOK, LogContiguous
<1>2. Rows \in Seq(Update) /\ Len(Rows) = count
  <2>1. \A i \in 1 .. count : snapshotSequence + i \in DOMAIN log
    BY DEF IInv, TypeOK, LogContiguous
  <2>2. \A i \in 1 .. count : log[snapshotSequence + i] \in Update
    BY <2>1 DEF IInv, TypeOK
  <2> QED
    BY <1>1, <2>2 DEF Rows
<1>3. Len(<<snapshot>> \o Rows) = 1 + count
  <2>1. Rows \in Seq(SUBSET Op) /\ <<snapshot>> \in Seq(SUBSET Op)
    BY <1>2, UpdateAssumption DEF IInv, TypeOK
  <2> QED
    BY <1>2, <2>1
<1> QED
  BY <1>1, <1>3, PolicyAssumption DEF ColdSyncServable

\* missingUpdates never exceeds the number of parts a cold sync may have.
THEOREM ColdSyncIsServable == Spec => []ColdSyncServable
<1>1. IInv => ColdSyncServable
  BY ColdSyncOf
<1> QED
  BY <1>1, Invariance, PTL

\* Two rows with the same digest would have the same receipt, so one sequence.
LEMMA StoredOnceOf == ASSUME IInv PROVE StoredOnce
<1>1. ASSUME NEW m \in DOMAIN log, NEW n \in DOMAIN log, log[m] = log[n]
      PROVE  m = n
  <2>1. PICK k \in DOMAIN receipts : receipts[k] = [digest |-> log[m], sequence |-> m]
    BY DEF IInv, RowsHaveReceipts
  <2>2. PICK l \in DOMAIN receipts : receipts[l] = [digest |-> log[n], sequence |-> n]
    BY DEF IInv, RowsHaveReceipts
  <2>3. receipts[k].digest = receipts[l].digest
    BY <1>1, <2>1, <2>2
  <2>4. receipts[k].sequence = receipts[l].sequence
    BY <2>3 DEF IInv, DigestHasOneSequence
  <2> QED
    BY <2>1, <2>2, <2>4
<1> QED
  BY <1>1 DEF StoredOnce, IInv, RowsHaveReceipts

\* No update is stored twice, and a stored row can always be recognised.
THEOREM UpdatesAreStoredOnce == Spec => []StoredOnce
<1>1. IInv => StoredOnce
  BY StoredOnceOf
<1> QED
  BY <1>1, Invariance, PTL

\* The rows loadDocument reads are the whole log, as many as the counter says.
LEMMA RowsAreCounted ==
    ASSUME IInv
    PROVE  RowsMatchCounters
<1> DEFINE read == {n \in DOMAIN log : n > snapshotSequence /\ n <= lastSequence}
<1>1. snapshotSequence \in Nat /\ lastSequence \in Nat /\ snapshotSequence <= lastSequence
  BY DEF IInv, TypeOK, LogContiguous
<1>2. read = snapshotSequence + 1 .. lastSequence
  BY <1>1 DEF IInv, LogContiguous
<1>3. Cardinality(read) = updateLogCount
  <2>1. Cardinality(snapshotSequence + 1 .. lastSequence)
           = IF snapshotSequence + 1 > lastSequence THEN 0
             ELSE lastSequence - (snapshotSequence + 1) + 1
    BY <1>1, FS_Interval
  <2>2. updateLogCount = lastSequence - snapshotSequence
    BY DEF IInv, LogContiguous
  <2>3. Cardinality(read) = Cardinality(snapshotSequence + 1 .. lastSequence)
    BY <1>2
  <2> QED
    BY <1>1, <2>1, <2>2, <2>3
<1>4. IF read = {} THEN lastSequence = snapshotSequence ELSE lastSequence \in read
  BY <1>1, <1>2
<1> QED
  BY <1>3, <1>4 DEF RowsMatchCounters

-----------------------------------------------------------------------------
\* Compaction is decided on the state it would leave, so a log that stays has a
\* reason to.
LEMMA CompactionInductive ==
    ASSUME IInv, CompactionKeepsUp, Next \/ UNCHANGED <<document, receipts>>
    PROVE  CompactionKeepsUp'
<1>1. CASE UNCHANGED document
  BY <1>1 DEF CompactionKeepsUp, document, Content, HasPendingDependencies,
              EncodeState, Integrated
<1>2. ASSUME NEW key \in Key, NEW u \in Update, CommitCompacted(key, u)
      PROVE  CompactionKeepsUp'
  BY <1>2, PolicyAssumption DEF CommitCompacted, CompactionKeepsUp
<1>3. ASSUME NEW key \in Key, NEW u \in Update, CommitLogged(key, u)
      PROVE  CompactionKeepsUp'
  <2>1. Content' = Candidate(u)
    BY <1>3, LoggedContent DEF IInv, CommitLogged
  <2>2. ~CanCompact(u)
    BY <1>3 DEF CommitLogged
  <2>3. SUFFICES ASSUME ~HasPendingDependencies(Candidate(u)), SnapshotFits(u)
                 PROVE  /\ updateLogCount' < CompactAfterUpdateCount
                        /\ updateLogBytes' < CompactAfterUpdateBytes
    BY <2>1 DEF CompactionKeepsUp, SnapshotFits, HasPendingDependencies, EncodeState, Integrated
  <2>4. ~CompactionDue(u)
    BY <2>2, <2>3 DEF CanCompact
  <2>5. /\ updateLogCount' = updateLogCount + 1
        /\ updateLogBytes' = updateLogBytes + Bytes[u]
    BY <1>3 DEF CommitLogged
  <2>6. /\ updateLogCount \in Nat /\ updateLogBytes \in Nat
        /\ Bytes[u] \in Nat
    BY BytesAssumption, UpdateAssumption DEF IInv, TypeOK
  <2> QED
    BY <2>4, <2>5, <2>6, PolicyAssumption DEF CompactionDue
<1>4. Next =>
         \/ UNCHANGED document
         \/ \E key \in Key, u \in Update : CommitCompacted(key, u) \/ CommitLogged(key, u)
  BY DEF Next, vars, AppendUpdate, StoreUpdate, ReplayReceipt, IdempotencyConflict, ReceiptQuotaReached,
         DuplicateDigest, EmptyUpdate, InvalidUpdate, LogQuotaReached, GuestQuotaReached,
         ResourceInactive, Reject
<1> QED
  BY <1>1, <1>2, <1>3, <1>4

\* An empty log is below both thresholds.
LEMMA InitKeepsUp == Init => CompactionKeepsUp
BY PolicyAssumption DEF Init, CompactionKeepsUp

\* While nothing is pending and a snapshot fits, the log stays below both
\* thresholds, whatever order updates and their dependencies arrive in.
THEOREM LogStaysCompact == Spec => []CompactionKeepsUp
<1>1. IInv /\ CompactionKeepsUp /\ [Next]_vars => CompactionKeepsUp'
  BY CompactionInductive DEF vars
<1> QED
  BY <1>1, InitKeepsUp, Invariance, PTL DEF Spec

\* A full log has no room for a row, so the step that commits is the compacting one.
LEMMA BoundaryOf == ASSUME IInv, Next \/ UNCHANGED <<document, receipts>> PROVE BoundaryStep
<1> SUFFICES ASSUME Next, updateLogCount = MaxUpdateLogCount,
                    lastSequence' # lastSequence
             PROVE  log' = [n \in {} |-> {}] /\ ~HasPendingDependencies(Content')
  BY DEF BoundaryStep, document
<1>1. PICK key \in Key, u \in Update : AppendUpdate(key, u)
  BY DEF Next
<1>2. CommitCompacted(key, u) \/ CommitLogged(key, u)
  BY <1>1 DEF AppendUpdate, StoreUpdate, ReplayReceipt, IdempotencyConflict, ReceiptQuotaReached,
       DuplicateDigest, EmptyUpdate, InvalidUpdate, LogQuotaReached, GuestQuotaReached,
       ResourceInactive, Reject, document
<1>3. ~CommitLogged(key, u)
  BY PolicyAssumption DEF CommitLogged, HasLogCapacity
<1>4. CommitCompacted(key, u)
  BY <1>2, <1>3
<1>5. Content' = Candidate(u)
  BY <1>4, CompactedContent DEF CommitCompacted, CanCompact
<1> QED
  BY <1>4, <1>5 DEF CommitCompacted, CanCompact

\* At the hard boundary of the log only a compacting commit gets through.
THEOREM BoundaryOnlyCompacts == Spec => FullLogOnlyCompacts
<1>1. IInv /\ [Next]_vars => [BoundaryStep]_vars
  BY BoundaryOf
<1> QED
  BY <1>1, Invariance, PTL DEF Spec, FullLogOnlyCompacts

-----------------------------------------------------------------------------
\* The answers of the abstract specification, as the receipts hold them.
Answers == [k \in DOMAIN receipts |->
               [update |-> receipts[k].digest, sequence |-> receipts[k].sequence]]

\* A receipt that is added settles its key and leaves every other answer alone.
LEMMA ReceiptSettles ==
    ASSUME NEW key \in Key, NEW u \in Update, NEW n \in Nat,
           ~Answered(key),
           \A k \in DOMAIN receipts :
               receipts[k].digest = u => receipts[k].sequence = n,
           Content' = Content \cup u,
           AddReceipt(key, u, n)
    PROVE  Promise!Settle(key, u)
<1>1. DOMAIN Answers' = DOMAIN Answers \cup {key}
  BY DEF Answers, AddReceipt
<1>2. key \notin DOMAIN Answers
  BY DEF Answers, Answered
<1>3. Answers'[key] = [update |-> u, sequence |-> n]
  BY DEF Answers, AddReceipt
<1>4. \A k \in DOMAIN Answers : Answers'[k] = Answers[k]
  BY DEF Answers, AddReceipt, Answered
<1>5. Answers' = [k \in DOMAIN Answers \cup {key} |->
                     IF k = key THEN [update |-> u, sequence |-> n] ELSE Answers[k]]
  BY <1>1, <1>2, <1>3, <1>4 DEF Answers
<1>6. \A k \in DOMAIN Answers : Answers[k].update = u => Answers[k].sequence = n
  BY DEF Answers
<1> QED
  BY <1>1, <1>2, <1>3, <1>5, <1>6 DEF Promise!Settle, Promise!Agrees, Answers

\* Nothing is settled and nothing stored beyond the seed.
LEMMA InitPromise == Init => Promise!Init
<1>1. Init => Content = Seed
  <2>1. Init => {log[n] : n \in DOMAIN log} = {}
    BY DEF Init
  <2> QED
    BY <2>1 DEF Init, Content
<1> QED
  BY <1>1 DEF Init, Promise!Init

\* Every step of the repository maps to a step of the promise or a stutter.
LEMMA PromiseStep ==
    ASSUME IInv, Next \/ UNCHANGED <<document, receipts>>
    PROVE  [Promise!Next]_Promise!vars
<1>1. CASE UNCHANGED <<document, receipts>>
  BY <1>1 DEF document, Content, Promise!vars
<1>2. ASSUME NEW key \in Key, NEW u \in Update,
             CommitCompacted(key, u) \/ CommitLogged(key, u)
      PROVE  Promise!Next
  <2>1. Content' = Content \cup u
    BY <1>2, LoggedContent, CompactedContent
    DEF IInv, CommitCompacted, CommitLogged, CanCompact, Candidate
  <2>2. \A k \in DOMAIN receipts : receipts[k].digest # u
    BY <1>2 DEF CommitCompacted, CommitLogged, Accepts, IsNew, KnownDigest
  <2>3. ~Answered(key) /\ AddReceipt(key, u, lastSequence + 1)
    BY <1>2 DEF CommitCompacted, CommitLogged, Accepts, IsNew
  <2>4. lastSequence + 1 \in Nat
    BY DEF IInv, TypeOK
  <2>5. Promise!Settle(key, u)
    BY <2>1, <2>2, <2>3, <2>4, ReceiptSettles
  <2> QED
    BY <2>5 DEF Promise!Next
<1>3. ASSUME NEW key \in Key, NEW u \in Update, DuplicateDigest(key, u)
      PROVE  Promise!Next
  <2>1. PICK k \in DOMAIN receipts : receipts[k].digest = u
    BY <1>3 DEF DuplicateDigest, KnownDigest
  <2>2. \A r \in DOMAIN receipts :
           receipts[r].digest = u => receipts[r].sequence = FirstSequence(u)
    BY <1>3, FirstSequenceIsRecorded DEF DuplicateDigest, IInv
  <2>3. u \subseteq Content /\ FirstSequence(u) \in Nat
    BY <2>1, <2>2 DEF IInv, AckedIsDurable, TypeOK, Receipts
  <2>4. Content' = Content
    BY <1>3 DEF DuplicateDigest, document, Content
  <2>5. Promise!Settle(key, u)
    BY <1>3, <2>2, <2>3, <2>4, ReceiptSettles DEF DuplicateDigest
  <2> QED
    BY <2>5 DEF Promise!Next
<1>4. ASSUME NEW key \in Key, NEW u \in Update, EmptyUpdate(key, u)
      PROVE  Promise!Next
  <2>1. \A k \in DOMAIN receipts : receipts[k].digest # u
    BY <1>4 DEF EmptyUpdate, KnownDigest
  <2>2. Content' = Content \cup u
    BY <1>4 DEF EmptyUpdate, document, Content
  <2>3. lastSequence \in Nat
    BY DEF IInv, TypeOK
  <2>4. Promise!Settle(key, u)
    BY <1>4, <2>1, <2>2, <2>3, ReceiptSettles DEF EmptyUpdate
  <2> QED
    BY <2>4 DEF Promise!Next
<1>5. \/ UNCHANGED <<document, receipts>>
      \/ \E key \in Key, u \in Update :
            \/ CommitCompacted(key, u) \/ CommitLogged(key, u)
            \/ DuplicateDigest(key, u) \/ EmptyUpdate(key, u)
  BY DEF Next, vars, AppendUpdate, StoreUpdate, ReplayReceipt, IdempotencyConflict,
         ReceiptQuotaReached, InvalidUpdate, LogQuotaReached, GuestQuotaReached,
         ResourceInactive, Reject
<1> QED
  BY <1>1, <1>2, <1>3, <1>4, <1>5

\* Snapshots, log rows, receipts and compaction implement the promise that an
\* answered update stays in the document and keeps its answer.
THEOREM RepositoryKeepsPromise == Spec => KeepsPromise
<1>1. IInv /\ [Next]_vars => [Promise!Next]_Promise!vars
  BY PromiseStep DEF vars
<1> QED
  BY <1>1, InitPromise, Invariance, PTL DEF Spec, KeepsPromise, Promise!Spec

-----------------------------------------------------------------------------
\* A nonempty set of naturals has a least element.
LEMMA SmallestOf ==
    ASSUME NEW T \in SUBSET Nat, T # {}
    PROVE  \E m \in T : \A n \in T : m <= n
<1> DEFINE R == OpToRel(<, Nat)
<1>1. IsWellFoundedOn(R, Nat)
    BY NatLessThanWellFounded
<1>2. \A x, y \in Nat : <<x, y>> \in R <=> x < y
    BY DEF OpToRel
<1> HIDE DEF R
<1>3. PICK m \in T : \A n \in T : ~ (<<n, m>> \in R)
    BY <1>1, WFMin
<1>4. ASSUME NEW n \in T
      PROVE  m <= n
    <2>1. ~(n < m)
        BY <1>2, <1>3
    <2> QED
        BY <2>1
<1> QED
    BY <1>4

\* Induction, said of sets.
LEMMA SetInduction ==
    ASSUME NEW T \in SUBSET Nat, 0 \in T, \A n \in T : n + 1 \in T
    PROVE  T = Nat
<1> SUFFICES ASSUME Nat \ T # {} PROVE FALSE
    OBVIOUS
<1>1. PICK m \in Nat \ T : \A n \in Nat \ T : m <= n
    <2> DEFINE U == Nat \ T
    <2>1. U \in SUBSET Nat /\ U # {}
        OBVIOUS
    <2> HIDE DEF U
    <2>2. \E m \in U : \A n \in U : m <= n
        BY <2>1, SmallestOf
    <2> QED
        BY <2>2 DEF U
<1>2. m # 0
    BY <1>1
<1>3. m - 1 \in Nat /\ m - 1 \in T
    BY <1>1, <1>2
<1> QED
    BY <1>1, <1>3

\* An element appended is one more in the range.
LEMMA RangeOfAppend ==
    ASSUME NEW S, NEW s \in Seq(S), NEW x
    PROVE  Range(Append(s, x)) = Range(s) \cup {x}
<1>1. /\ DOMAIN Append(s, x) = 1 .. Len(s) + 1 /\ DOMAIN s = 1 .. Len(s) /\ Len(s) \in Nat
      /\ Append(s, x)[Len(s) + 1] = x
      /\ \A i \in 1 .. Len(s) : Append(s, x)[i] = s[i]
    OBVIOUS
<1>2. 1 .. Len(s) + 1 = (1 .. Len(s)) \cup {Len(s) + 1}
    BY <1>1
<1> QED
    BY <1>1, <1>2 DEF Range

\* PartsLacking is computed part by part: what it returns holds nothing but
\* content, and all of the content that the vector lacks.
LEMMA PartsLackingIsComplete ==
    ASSUME IInv, NEW vector
    PROVE  /\ PartsLacking(vector) \in Seq(SUBSET Content)
           /\ UNION Range(PartsLacking(vector)) = Content \ vector
<1> DEFINE parts == <<snapshot>> \o Rows
           diff(n) == DiffUpdate(parts[n], vector)
           step(g, n) == IF n = 0 THEN <<>>
                         ELSE IF diff(n) = {} THEN g[n - 1]
                         ELSE Append(g[n - 1], diff(n))
           kept == CHOOSE g : g = [n \in 0 .. Len(parts) |-> step(g, n)]
           count == lastSequence - snapshotSequence
<1>1. PartsLacking(vector) = kept[Len(parts)]
    BY Zenon DEF PartsLacking
<1>2. count \in Nat /\ Rows \in Seq(SUBSET Content) /\ Len(Rows) = count
    <2>1. count \in Nat /\ \A i \in 1 .. count : snapshotSequence + i \in DOMAIN log
        BY DEF IInv, TypeOK, LogContiguous
    <2>2. \A i \in 1 .. count : log[snapshotSequence + i] \in SUBSET Content
        BY <2>1 DEF Content
    <2> QED
        BY <2>1, <2>2 DEF Rows
<1>3. /\ parts \in Seq(SUBSET Content) /\ Len(parts) = count + 1
      /\ parts[1] = snapshot /\ \A i \in 1 .. count : parts[i + 1] = log[snapshotSequence + i]
    <2>1. <<snapshot>> \in Seq(SUBSET Content)
        BY DEF Content
    <2> QED
        BY <1>2, <2>1 DEF Rows
<1>4. UNION {parts[i] : i \in 1 .. Len(parts)} = Content
    <2>1. \A n \in DOMAIN log : \E i \in 1 .. Len(parts) : parts[i] = log[n]
        <3> SUFFICES ASSUME NEW n \in DOMAIN log PROVE \E i \in 1 .. Len(parts) : parts[i] = log[n]
            OBVIOUS
        <3> DEFINE i == n - snapshotSequence
        <3>1. i \in 1 .. count /\ snapshotSequence + i = n
            BY DEF IInv, TypeOK, LogContiguous
        <3>2. i + 1 \in 1 .. Len(parts) /\ parts[i + 1] = log[n]
            BY <1>2, <1>3, <3>1
        <3> QED
            BY <3>2
    <2>2. 1 \in 1 .. Len(parts)
        BY <1>2, <1>3
    <2>3. \A i \in 1 .. Len(parts) : parts[i] \in SUBSET Content
        BY <1>3
    <2> HIDE DEF parts
    <2> QED
        BY <1>3, <2>1, <2>2, <2>3 DEF Content
<1>5. Len(parts) \in Nat
    BY <1>3
<1> HIDE DEF parts, count
<1>6. kept = [n \in 0 .. Len(parts) |-> step(kept, n)]
    <2> DEFINE T == {m \in Nat : \E g : g = [n \in 0 .. m |-> step(g, n)]}
    <2>1. 0 \in T
        <3> DEFINE g == [n \in 0 .. 0 |-> <<>>]
        <3>1. g = [n \in 0 .. 0 |-> step(g, n)]
            OBVIOUS
        <3> QED
            BY <3>1
    <2>2. ASSUME NEW m \in T
          PROVE  m + 1 \in T
        <3>1. m \in Nat
            OBVIOUS
        <3>2. PICK g : g = [n \in 0 .. m |-> step(g, n)]
            OBVIOUS
        <3> HIDE DEF diff
        <3>4. \A n \in 0 .. m : g[n] = step(g, n)
            BY <3>2, Zenon
        <3> DEFINE h == [n \in 0 .. m + 1 |-> IF n <= m THEN g[n] ELSE step(g, n)]
        <3>3. h = [n \in 0 .. m + 1 |-> step(h, n)]
            <4>1. \A n \in 0 .. m + 1 : h[n] = step(h, n)
                <5> SUFFICES ASSUME NEW n \in 0 .. m + 1 PROVE h[n] = step(h, n)
                    OBVIOUS
                <5>1. CASE n <= m
                    <6>1. n \in 0 .. m /\ h[n] = g[n]
                        BY <3>1, <5>1
                    <6>2. n # 0 => h[n - 1] = g[n - 1]
                        BY <3>1, <5>1
                    <6>3. g[n] = step(g, n)
                        BY <3>4, <6>1
                    <6> QED
                        BY <6>1, <6>2, <6>3
                <5>2. CASE n = m + 1
                    <6>1. h[n] = step(g, n) /\ n # 0
                        BY <3>1, <5>2
                    <6>2. h[n - 1] = g[n - 1]
                        BY <3>1, <5>2
                    <6> QED
                        BY <6>1, <6>2
                <5> QED
                    BY <3>1, <5>1, <5>2
            <4> QED
                BY <4>1
        <3> HIDE DEF h
        <3>5. \E k : k = [n \in 0 .. m + 1 |-> step(k, n)]
            BY <3>3, Zenon
        <3>6. m + 1 \in Nat
            BY <3>1
        <3> QED
            BY <3>5, <3>6, Zenon
    <2>3. T = Nat
        <3> HIDE DEF T
        <3>1. T \in SUBSET Nat
            BY DEF T
        <3> QED
            BY <2>1, <2>2, <3>1, SetInduction
    <2> QED
        BY <1>5, <2>3
<1> HIDE DEF kept
<1>13. \A n \in 0 .. Len(parts) : kept[n] = step(kept, n)
    BY <1>6, Zenon
<1>7. \A i \in 1 .. Len(parts) : diff(i) \in SUBSET Content
    BY <1>3 DEF DiffUpdate
<1> DEFINE Good(n) == /\ kept[n] \in Seq(SUBSET Content)
                      /\ Range(kept[n]) = {diff(i) : i \in 1 .. n} \ {{}}
           T == {n \in Nat : n <= Len(parts) => Good(n)}
<1>8. 0 \in T
    <2>1. kept[0] = <<>>
        BY <1>5, <1>13
    <2>2. Range(kept[0]) = {}
        BY <2>1 DEF Range
    <2>3. {diff(i) : i \in 1 .. 0} = {}
        OBVIOUS
    <2>4. kept[0] \in Seq(SUBSET Content)
        BY <2>1
    <2> HIDE DEF diff
    <2> QED
        BY <2>2, <2>3, <2>4
<1>9. ASSUME NEW n \in T
      PROVE  n + 1 \in T
    <2> HIDE DEF diff
    <2> SUFFICES ASSUME n + 1 <= Len(parts) PROVE Good(n + 1)
        OBVIOUS
    <2>1. n \in Nat /\ n <= Len(parts) /\ Good(n)
        BY <1>5
    <2>2. n + 1 \in 0 .. Len(parts) /\ n + 1 # 0 /\ n + 1 - 1 = n /\ n + 1 \in 1 .. Len(parts)
        BY <1>5, <2>1
    <2>3. kept[n + 1] = IF diff(n + 1) = {} THEN kept[n] ELSE Append(kept[n], diff(n + 1))
        BY <1>13, <2>2
    <2>4. {diff(i) : i \in 1 .. n + 1} = {diff(i) : i \in 1 .. n} \cup {diff(n + 1)}
        BY <2>1
    <2>5. CASE diff(n + 1) = {}
        BY <2>1, <2>3, <2>4, <2>5
    <2>6. CASE diff(n + 1) # {}
        <3>1. diff(n + 1) \in SUBSET Content
            BY <1>7, <2>2
        <3>2. kept[n + 1] = Append(kept[n], diff(n + 1)) /\ kept[n] \in Seq(SUBSET Content)
            BY <2>1, <2>3, <2>6
        <3>3. kept[n + 1] \in Seq(SUBSET Content)
            BY <3>1, <3>2
        <3>4. Range(kept[n + 1]) = Range(kept[n]) \cup {diff(n + 1)}
            BY <3>1, <3>2, RangeOfAppend
        <3> QED
            BY <2>1, <2>4, <2>6, <3>3, <3>4
    <2> QED
        BY <2>5, <2>6
<1>10. T = Nat
    <2> HIDE DEF T
    <2>1. T \in SUBSET Nat
        BY DEF T
    <2> QED
        BY <1>8, <1>9, <2>1, SetInduction
<1>11. Good(Len(parts))
    BY <1>5, <1>10
<1>12. UNION {diff(i) : i \in 1 .. Len(parts)} = Content \ vector
    BY <1>4 DEF DiffUpdate
<1> HIDE DEF diff
<1> QED
    BY <1>1, <1>11, <1>12
-----------------------------------------------------------------------------
\* What loadDocument adds up, unfolded: a running total, one row after another.
LEMMA BytesAddUp ==
    ASSUME NEW rows, Len(rows) \in Nat
    PROVE  \E total : /\ total[0] = 0
                      /\ \A n \in 1 .. Len(rows) : total[n] = total[n - 1] + Bytes[rows[n]]
                      /\ BytesOf(rows) = total[Len(rows)]
<1> DEFINE step(g, n) == IF n = 0 THEN 0 ELSE g[n - 1] + Bytes[rows[n]]
           total == CHOOSE g : g = [n \in 0 .. Len(rows) |-> step(g, n)]
           T == {m \in Nat : \E g : g = [n \in 0 .. m |-> step(g, n)]}
<1>1. BytesOf(rows) = total[Len(rows)]
    BY Zenon DEF BytesOf
<1>2. 0 \in T
    <2> DEFINE g == [n \in 0 .. 0 |-> 0]
    <2>1. g = [n \in 0 .. 0 |-> step(g, n)]
        OBVIOUS
    <2> QED
        BY <2>1
<1>3. ASSUME NEW m \in T
      PROVE  m + 1 \in T
    <2>1. m \in Nat
        OBVIOUS
    <2>2. PICK g : g = [n \in 0 .. m |-> step(g, n)]
        OBVIOUS
    <2>3. \A n \in 0 .. m : g[n] = step(g, n)
        BY <2>2, Zenon
    <2> DEFINE h == [n \in 0 .. m + 1 |-> IF n <= m THEN g[n] ELSE step(g, n)]
    <2>4. ASSUME NEW n \in 0 .. m + 1
          PROVE  h[n] = step(h, n)
        <3>1. CASE n <= m
            <4>1. n \in 0 .. m /\ h[n] = g[n]
                BY <2>1, <3>1
            <4>2. n # 0 => h[n - 1] = g[n - 1]
                BY <2>1, <3>1
            <4>3. g[n] = step(g, n)
                BY <2>3, <4>1
            <4> QED
                BY <4>1, <4>2, <4>3
        <3>2. CASE n = m + 1
            <4>1. h[n] = step(g, n) /\ n # 0
                BY <2>1, <3>2
            <4>2. h[n - 1] = g[n - 1]
                BY <2>1, <3>2
            <4> QED
                BY <4>1, <4>2
        <3> QED
            BY <2>1, <3>1, <3>2
    <2>5. h = [n \in 0 .. m + 1 |-> step(h, n)]
        BY <2>4
    <2> HIDE DEF h
    <2>6. \E k : k = [n \in 0 .. m + 1 |-> step(k, n)]
        BY <2>5, Zenon
    <2>7. m + 1 \in Nat
        BY <2>1
    <2> QED
        BY <2>6, <2>7, Zenon
<1>4. T = Nat
    <2> HIDE DEF T
    <2>1. T \in SUBSET Nat
        BY DEF T
    <2> QED
        BY <1>2, <1>3, <2>1, SetInduction
<1>5. total = [n \in 0 .. Len(rows) |-> step(total, n)]
    BY <1>4
<1> HIDE DEF total
<1>6. \A n \in 0 .. Len(rows) : total[n] = step(total, n)
    BY <1>5, Zenon
<1>7. total[0] = 0
    BY <1>6
<1>8. ASSUME NEW n \in 1 .. Len(rows)
      PROVE  total[n] = total[n - 1] + Bytes[rows[n]]
    <2>1. n \in 0 .. Len(rows) /\ n # 0
        OBVIOUS
    <2> QED
        BY <1>6, <2>1
<1> QED
    BY <1>1, <1>7, <1>8

\* A further row adds its own size to the sum of the rows before it.
LEMMA BytesOfFurtherRow ==
    ASSUME NEW rows, NEW longer, Len(rows) \in Nat, Len(longer) = Len(rows) + 1,
           \A i \in 1 .. Len(rows) : longer[i] = rows[i]
    PROVE  BytesOf(longer) = BytesOf(rows) + Bytes[longer[Len(longer)]]
<1> DEFINE size == Len(rows)
<1>1. PICK total : /\ total[0] = 0
                   /\ \A n \in 1 .. size : total[n] = total[n - 1] + Bytes[rows[n]]
                   /\ BytesOf(rows) = total[size]
    BY BytesAddUp
<1>2. PICK sum : /\ sum[0] = 0
                 /\ \A n \in 1 .. size + 1 : sum[n] = sum[n - 1] + Bytes[longer[n]]
                 /\ BytesOf(longer) = sum[size + 1]
    <2>1. Len(longer) \in Nat /\ Len(longer) = size + 1
        OBVIOUS
    <2>2. \E sum : /\ sum[0] = 0
                   /\ \A n \in 1 .. Len(longer) : sum[n] = sum[n - 1] + Bytes[longer[n]]
                   /\ BytesOf(longer) = sum[Len(longer)]
        BY <2>1, BytesAddUp
    <2> QED
        BY <2>1, <2>2
<1> DEFINE T == {n \in Nat : n <= size => sum[n] = total[n]}
<1>3. 0 \in T
    BY <1>1, <1>2
<1>4. ASSUME NEW n \in T
      PROVE  n + 1 \in T
    <2> SUFFICES ASSUME n + 1 <= size PROVE sum[n + 1] = total[n + 1]
        OBVIOUS
    <2>1. /\ n \in Nat /\ n <= size /\ n + 1 \in 1 .. size /\ n + 1 \in 1 .. size + 1
          /\ n + 1 - 1 = n /\ sum[n] = total[n]
        OBVIOUS
    <2>2. /\ sum[n + 1] = sum[n] + Bytes[longer[n + 1]]
          /\ total[n + 1] = total[n] + Bytes[rows[n + 1]]
        BY <1>1, <1>2, <2>1
    <2> QED
        BY <2>1, <2>2
<1>5. T = Nat
    <2> HIDE DEF T
    <2>1. T \in SUBSET Nat
        BY DEF T
    <2> QED
        BY <1>3, <1>4, <2>1, SetInduction
<1>6. sum[size] = total[size]
    BY <1>5
<1>7. size + 1 \in 1 .. size + 1 /\ size + 1 - 1 = size
    OBVIOUS
<1> QED
    BY <1>1, <1>2, <1>6, <1>7

\* A row's sequence and its place among the rows read.
LEMMA RowsRead ==
    ASSUME lastSequence \in Nat, snapshotSequence \in Nat, snapshotSequence <= lastSequence
    PROVE  /\ Len(Rows) = lastSequence - snapshotSequence
           /\ Len(Rows) \in Nat
           /\ \A i \in 1 .. Len(Rows) : Rows[i] = log[snapshotSequence + i]
BY DEF Rows

\* An empty log adds up to nothing.
LEMMA NoRowsNoBytes ==
    ASSUME lastSequence \in Nat, snapshotSequence = lastSequence
    PROVE  BytesOf(Rows) = 0
<1>1. Len(Rows) = 0
    BY RowsRead
<1> QED
    BY <1>1, BytesAddUp

\* The byte counter is kept by every step: a logged update adds its size to both
\* sides, and compaction empties both.
LEMMA BytesMatchInductive ==
    ASSUME IInv, LogBytesMatch, Next \/ UNCHANGED <<document, receipts>>
    PROVE  LogBytesMatch'
<1>1. snapshotSequence \in Nat /\ lastSequence \in Nat /\ snapshotSequence <= lastSequence
    BY DEF IInv, TypeOK, LogContiguous
<1>2. CASE UNCHANGED <<snapshotSequence, lastSequence, log, updateLogBytes>>
    <2>1. Rows' = Rows
        BY <1>2 DEF Rows
    <2> QED
        BY <1>2, <2>1 DEF LogBytesMatch, BytesOf
<1>3. ASSUME NEW key \in Key, NEW u \in Update, CommitCompacted(key, u)
      PROVE  LogBytesMatch'
    <2>1. /\ snapshotSequence' = lastSequence + 1 /\ lastSequence' = lastSequence + 1
          /\ updateLogBytes' = 0
        BY <1>3 DEF CommitCompacted
    <2>2. Rows' = <<>>
        <3>1. lastSequence' - snapshotSequence' = 0
            BY <1>1, <2>1
        <3>2. Rows' = [i \in 1 .. 0 |-> log'[snapshotSequence' + i]]
            BY <3>1 DEF Rows
        <3> QED
            BY <3>2
    <2>3. BytesOf(<<>>) = 0
        BY BytesAddUp
    <2> QED
        BY <2>1, <2>2, <2>3 DEF LogBytesMatch, BytesOf
<1>4. ASSUME NEW key \in Key, NEW u \in Update, CommitLogged(key, u)
      PROVE  LogBytesMatch'
    <2>1. /\ lastSequence' = lastSequence + 1 /\ snapshotSequence' = snapshotSequence
          /\ log' = [n \in DOMAIN log \cup {lastSequence + 1} |->
                        IF n = lastSequence + 1 THEN u ELSE log[n]]
          /\ updateLogBytes' = updateLogBytes + Bytes[u]
        BY <1>4 DEF CommitLogged
    <2>2. Len(Rows) = lastSequence - snapshotSequence /\ Len(Rows) \in Nat
        BY <1>1, RowsRead
    <2>3. Len(Rows') = Len(Rows) + 1
        BY <1>1, <2>1, <2>2 DEF Rows
    <2>4. DOMAIN log = snapshotSequence + 1 .. lastSequence
        BY DEF IInv, LogContiguous
    <2>5. ASSUME NEW i \in 1 .. Len(Rows)
          PROVE  Rows'[i] = Rows[i]
        <3>1. snapshotSequence + i \in DOMAIN log /\ snapshotSequence + i # lastSequence + 1
            BY <1>1, <2>2, <2>4
        <3>2. log'[snapshotSequence + i] = log[snapshotSequence + i]
            BY <2>1, <3>1
        <3>3. i \in 1 .. lastSequence - snapshotSequence
              /\ i \in 1 .. lastSequence' - snapshotSequence'
            BY <1>1, <2>1, <2>2
        <3> QED
            BY <2>1, <3>2, <3>3 DEF Rows
    <2>6. Rows'[Len(Rows')] = u
        <3>1. /\ Len(Rows') \in 1 .. lastSequence' - snapshotSequence'
              /\ snapshotSequence' + Len(Rows') = lastSequence + 1
            BY <1>1, <2>1, <2>2, <2>3
        <3>2. log'[lastSequence + 1] = u
            BY <2>1
        <3> QED
            BY <3>1, <3>2 DEF Rows
    <2>7. BytesOf(Rows') = BytesOf(Rows) + Bytes[u]
        BY <2>2, <2>3, <2>5, <2>6, BytesOfFurtherRow
    <2> QED
        BY <2>1, <2>7 DEF LogBytesMatch, BytesOf
<1>5. CASE UNCHANGED <<document, receipts>>
    BY <1>2, <1>5 DEF document
<1>6. CASE Next
    <2>1. PICK key \in Key, u \in Update : AppendUpdate(key, u)
        BY <1>6 DEF Next
    <2>2. CASE CommitCompacted(key, u)
        BY <1>3, <2>2
    <2>3. CASE CommitLogged(key, u)
        BY <1>4, <2>3
    <2>4. CASE ~CommitCompacted(key, u) /\ ~CommitLogged(key, u)
        <3>1. UNCHANGED document
            BY <2>1, <2>4 DEF AppendUpdate, StoreUpdate, ReplayReceipt, IdempotencyConflict,
                ReceiptQuotaReached, DuplicateDigest, EmptyUpdate, InvalidUpdate,
                LogQuotaReached, GuestQuotaReached, ResourceInactive, Reject
        <3> QED
            BY <1>2, <3>1 DEF document
    <2> QED
        BY <2>2, <2>3, <2>4
<1> QED
    BY <1>5, <1>6

\* The document starts with no rows and no bytes.
LEMMA InitBytesMatch == Init => LogBytesMatch
BY NoRowsNoBytes DEF Init, LogBytesMatch

\* Rows of which number and size agree with the counters pass loadDocument.
LEMMA LoadableOf == ASSUME IInv, LogBytesMatch PROVE AlwaysLoadable
BY RowsAreCounted DEF IInv, AlwaysLoadable, Loadable

\* What loadDocument checks before it trusts the rows holds in every state
\* appendTransaction leaves, the sum of the row sizes included: no sync and no
\* edit ever meets a STORAGE_ERROR.
THEOREM DocumentAlwaysLoads == Spec => []AlwaysLoadable
<1>1. IInv /\ LogBytesMatch /\ [Next]_vars => LogBytesMatch'
    BY BytesMatchInductive DEF vars
<1>2. IInv /\ LogBytesMatch => AlwaysLoadable
    BY LoadableOf
<1> QED
    BY <1>1, <1>2, InitBytesMatch, Invariance, PTL DEF Spec
=============================================================================
