-------------------------- MODULE BoardServerProofs --------------------------
(***************************************************************************)
(* Proofs about BoardServer for every page, schema rule and set of         *)
(* messages.                                                               *)
(*                                                                         *)
(* The inductive invariant IInv adds to the properties of the runs what    *)
(* they rest on: the worker's candidate is the prefix of the durable rows  *)
(* it says it is, as long as it may still be written, and an answered      *)
(* update is in the content, so that it cannot be stored a second time.    *)
(***************************************************************************)
EXTENDS BoardServer, FiniteSetTheorems, TLAPS

\* What the worker has read stays a prefix of the rows until it is written.
CandidateIsPrefix ==
    compaction.phase = "reconstructed" =>
        /\ compaction.highWater \in snapshotSeq .. lastSeq
        /\ compaction.candidate = Prefix(compaction.highWater)
        /\ compaction.rerun \/ compaction.highWater = lastSeq

ReceiptsAreStored == \A m \in DOMAIN receipts : receipts[m].update \subseteq Content

IInv ==
    /\ TypeOK
    /\ EveryPrefixIntegrates
    /\ CacheIsStored
    /\ CandidateIsPrefix
    /\ ReceiptsAreStored

-----------------------------------------------------------------------------
LEMMA ContentType ==
    ASSUME TypeOK
    PROVE  Content \subseteq Op
BY UpdateAssumption DEF TypeOK, Content

\* The whole log is one of the prefixes.
LEMMA ContentIsPrefix ==
    ASSUME TypeOK
    PROVE  Content = Prefix(lastSeq)
<1>1. DOMAIN log \subseteq 1 .. lastSeq /\ lastSeq \in Nat
  BY DEF TypeOK
<1>2. {j \in DOMAIN log : j <= lastSeq} = DOMAIN log
  BY <1>1
<1> QED
  BY <1>2 DEF Content, Prefix

\* Between calls the service judges and answers by the durable content.
LEMMA LoadedIsContent ==
    ASSUME CacheIsStored, TypeOK
    PROVE  /\ Loaded = [loaded |-> TRUE, doc |-> Content, shadow |-> Content]
           /\ \A u : Applied(u) = [loaded |-> TRUE, doc |-> Content, shadow |-> Content \cup u]
<1>1. Loaded = [loaded |-> TRUE, doc |-> Content, shadow |-> Content]
  <2>1. CASE cache.loaded
    <3>1. cache.loaded = TRUE /\ cache.doc = Content /\ cache.shadow = Content
      BY <2>1 DEF CacheIsStored, TypeOK, Caches
    <3>2. cache = [loaded |-> cache.loaded, doc |-> cache.doc, shadow |-> cache.shadow]
      BY DEF TypeOK, Caches
    <3> QED
      BY <2>1, <3>1, <3>2 DEF Loaded
  <2>2. CASE ~cache.loaded
    BY <2>2 DEF Loaded
  <2> QED
    BY <2>1, <2>2
<1>2. ASSUME NEW u
      PROVE  Applied(u) = [loaded |-> TRUE, doc |-> Content, shadow |-> Content \cup u]
  <2>1. Applied(u) = [Loaded EXCEPT !.shadow = Content \cup u]
    BY <1>1 DEF Applied
  <2> QED
    BY <1>1, <2>1
<1> QED
  BY <1>1, <1>2

\* A step that leaves the rows and receipts alone keeps what is said of them.
LEMMA SameRowsSameContent ==
    ASSUME UNCHANGED document
    PROVE  /\ Content' = Content
           /\ \A n : Prefix(n)' = Prefix(n)
           /\ EveryPrefixIntegrates => EveryPrefixIntegrates'
<1>1. Content' = Content
  BY DEF document, Content
<1>2. \A n : Prefix(n)' = Prefix(n)
  BY DEF document, Prefix
<1>3. EveryPrefixIntegrates => EveryPrefixIntegrates'
  BY DEF document, EveryPrefixIntegrates, Loadable, Prefix, Valid, HasPendingDependencies, Integrated
<1> QED
  BY <1>1, <1>2, <1>3

\* A stored update adds exactly its operations, after every other row.
LEMMA StoredRows ==
    ASSUME TypeOK, NEW actor, NEW m, NEW u \in Update, StoreUpdate(actor, m, u)
    PROVE  /\ Content' = Content \cup u
           /\ \A n \in 0 .. lastSeq : Prefix(n)' = Prefix(n)
           /\ \A n : n = lastSeq + 1 => Prefix(n)' = Content \cup u
<1> USE DEF StoreUpdate
<1>1. lastSeq + 1 \notin DOMAIN log /\ lastSeq \in Nat
  BY DEF TypeOK
<1>2. /\ DOMAIN log' = DOMAIN log \cup {lastSeq + 1}
      /\ log'[lastSeq + 1] = u
      /\ \A n \in DOMAIN log : log'[n] = log[n]
  BY <1>1
<1>3. Content' = Content \cup u
  <2>1. ASSUME NEW x PROVE x \in Content' <=> x \in Content \cup u
    <3>1. x \in Content' <=> x \in snapshot' \/ \E n \in DOMAIN log' : x \in log'[n]
      BY DEF Content
    <3>2. x \in Content <=> x \in snapshot \/ \E n \in DOMAIN log : x \in log[n]
      BY DEF Content
    <3> QED
      BY <1>2, <3>1, <3>2
  <2> QED
    BY <2>1
<1>4. ASSUME NEW n \in 0 .. lastSeq
      PROVE  Prefix(n)' = Prefix(n)
  <2>1. {j \in DOMAIN log' : j <= n} = {j \in DOMAIN log : j <= n}
    BY <1>1, <1>2
  <2>2. {log'[i] : i \in {j \in DOMAIN log' : j <= n}} = {log[i] : i \in {j \in DOMAIN log : j <= n}}
    BY <1>2, <2>1
  <2> QED
    BY <2>2 DEF Prefix
<1>5. ASSUME NEW n, n = lastSeq + 1
      PROVE  Prefix(n)' = Content'
  <2>1. {j \in DOMAIN log' : j <= n} = DOMAIN log'
    <3>1. DOMAIN log \subseteq 1 .. lastSeq
      BY DEF TypeOK
    <3> QED
      BY <1>1, <1>2, <1>5, <3>1
  <2> QED
    BY <2>1 DEF Content, Prefix
<1> QED
  BY <1>3, <1>4, <1>5

\* A written candidate takes the place of the rows it was made from.
LEMMA CompactedRows ==
    ASSUME IInv, CompactionWrite
    PROVE  /\ Content' = Content
           /\ \A n \in compaction.highWater .. lastSeq : Prefix(n)' = Prefix(n)
<1> USE DEF CompactionWrite, CompactDocument
<1>1. /\ compaction.highWater \in snapshotSeq .. lastSeq
      /\ snapshot' = Prefix(compaction.highWater)
      /\ lastSeq \in Nat /\ snapshotSeq \in Nat
  BY DEF IInv, CandidateIsPrefix, TypeOK
<1>2. /\ DOMAIN log' = {n \in DOMAIN log : n > compaction.highWater}
      /\ \A n \in DOMAIN log' : log'[n] = log[n]
  BY DEF Restrict
<1>3. DOMAIN log \subseteq Nat
  BY DEF IInv, TypeOK
<1>4. ASSUME NEW n \in compaction.highWater .. lastSeq
      PROVE  Prefix(n)' = Prefix(n)
  <2>1. ASSUME NEW x PROVE x \in Prefix(n)' <=> x \in Prefix(n)
    <3>1. x \in Prefix(n)' <=> x \in snapshot' \/ \E j \in DOMAIN log' : j <= n /\ x \in log'[j]
      BY DEF Prefix
    <3>2. x \in Prefix(n) <=> x \in snapshot \/ \E j \in DOMAIN log : j <= n /\ x \in log[j]
      BY DEF Prefix
    <3>3. x \in snapshot' <=> x \in snapshot \/ \E j \in DOMAIN log : j <= compaction.highWater /\ x \in log[j]
      BY <1>1 DEF Prefix
    <3>4. CASE x \in Prefix(n)'
      BY <1>1, <1>2, <1>3, <3>1, <3>2, <3>3, <3>4
    <3>5. CASE x \in Prefix(n)
      BY <1>1, <1>2, <1>3, <3>1, <3>2, <3>3, <3>5
    <3> QED
      BY <3>4, <3>5
  <2> QED
    BY <2>1
<1>5. Content' = Content
  <2>1. {j \in DOMAIN log' : j <= lastSeq} = DOMAIN log'
    <3>1. DOMAIN log \subseteq 1 .. lastSeq
      BY DEF IInv, TypeOK
    <3> QED
      BY <1>1, <1>2, <3>1
  <2>2. Content' = Prefix(lastSeq)'
    BY <2>1 DEF Content, Prefix
  <2>3. lastSeq \in compaction.highWater .. lastSeq
    BY <1>1
  <2>4. Prefix(lastSeq)' = Prefix(lastSeq)
    BY <1>4, <2>3
  <2> QED
    BY <2>2, <2>4, ContentIsPrefix DEF IInv
<1> QED
  BY <1>4, <1>5

-----------------------------------------------------------------------------
LEMMA InitIInv == ServerInit => IInv
<1> SUFFICES ASSUME ServerInit PROVE IInv
  OBVIOUS
<1> USE DEF ServerInit
<1>1. Content = {} /\ \A n : Prefix(n) = {}
  BY DEF Content, Prefix
<1>2. TypeOK
  BY DEF TypeOK, Caches, NoCache, Compactions, Rest, Phases, Replies
<1>3. EveryPrefixIntegrates
  <2>1. Loadable
    BY DEF Loadable
  <2>2. ~HasPendingDependencies({}) /\ Valid({})
    BY UpdateAssumption DEF HasPendingDependencies, Integrated, Valid
  <2> QED
    BY <1>1, <2>1, <2>2 DEF EveryPrefixIntegrates
<1>4. CacheIsStored /\ CandidateIsPrefix /\ ReceiptsAreStored
  BY DEF CacheIsStored, NoCache, CandidateIsPrefix, Rest, ReceiptsAreStored
<1> QED
  BY <1>2, <1>3, <1>4 DEF IInv

\* What a step that leaves rows and receipts alone still has to show.
LEMMA RowsKeptStep ==
    ASSUME IInv, UNCHANGED <<document, receipts>>,
           cache' \in Caches, CacheIsStored',
           compaction' \in Compactions, compaction'.highWater <= lastSeq,
           CandidateIsPrefix', reply' \in Replies
    PROVE  IInv'
<1>1. /\ snapshot' = snapshot /\ snapshotSeq' = snapshotSeq
      /\ lastSeq' = lastSeq /\ log' = log /\ receipts' = receipts
  BY DEF document
<1>2. TypeOK'
  BY <1>1 DEF IInv, TypeOK
<1>3. EveryPrefixIntegrates'
  BY SameRowsSameContent DEF IInv
<1>4. ReceiptsAreStored'
  BY <1>1, SameRowsSameContent DEF IInv, ReceiptsAreStored
<1> QED
  BY <1>2, <1>3, <1>4 DEF IInv

\* The coordinator's own candidate is untouched by a step of somebody else.
LEMMA CandidateKept ==
    ASSUME IInv, UNCHANGED <<document, compaction>>
    PROVE  /\ compaction' \in Compactions
           /\ compaction'.highWater <= lastSeq
           /\ CandidateIsPrefix'
<1>1. compaction' = compaction /\ snapshotSeq' = snapshotSeq /\ lastSeq' = lastSeq
  BY DEF document
<1>2. \A n : Prefix(n)' = Prefix(n)
  BY SameRowsSameContent
<1>3. CandidateIsPrefix'
  BY <1>1, <1>2 DEF IInv, CandidateIsPrefix
<1> QED
  BY <1>1, <1>3 DEF IInv, TypeOK

\* An answer from memory, and a refusal that has put the shadow back, leave the
\* durable content in the cache.
LEMMA CacheStep ==
    ASSUME IInv, UNCHANGED <<document, receipts, compaction>>,
           cache' \in {cache, NoCache, [loaded |-> TRUE, doc |-> Content, shadow |-> Content]},
           reply' \in Replies
    PROVE  IInv'
<1>1. Content' = Content /\ Content \subseteq Op
  BY SameRowsSameContent, ContentType DEF IInv
<1>2. cache' \in Caches
  <2>1. NoCache \in Caches
    BY DEF NoCache, Caches
  <2>2. [loaded |-> TRUE, doc |-> Content, shadow |-> Content] \in Caches
    BY <1>1 DEF Caches
  <2>3. cache \in Caches
    BY DEF IInv, TypeOK
  <2> QED
    BY <2>1, <2>2, <2>3
<1>3. CacheIsStored'
  BY <1>1 DEF IInv, CacheIsStored, NoCache
<1> QED
  BY <1>2, <1>3, CandidateKept, RowsKeptStep

\* A scheduled, started, abandoned or finished pass holds no candidate.
LEMMA PassStep ==
    ASSUME IInv, UNCHANGED <<document, receipts, reply>>,
           cache' \in {cache, NoCache},
           NEW phase \in Phases \ {"reconstructed"},
           compaction' = Rest(phase)
    PROVE  IInv'
<1>1. Content' = Content
  BY SameRowsSameContent
<1>2. cache' \in Caches /\ CacheIsStored' /\ reply' \in Replies
  <2>1. NoCache \in Caches /\ ~NoCache.loaded
    BY DEF NoCache, Caches
  <2>2. cache \in Caches /\ CacheIsStored /\ reply \in Replies
    BY DEF IInv, TypeOK
  <2> QED
    BY <1>1, <2>1, <2>2 DEF CacheIsStored
<1>3. /\ compaction' \in Compactions
      /\ compaction'.highWater <= lastSeq
      /\ compaction'.phase # "reconstructed"
  BY DEF IInv, TypeOK, Rest, Compactions
<1>4. CandidateIsPrefix'
  BY <1>3 DEF CandidateIsPrefix
<1> QED
  BY <1>2, <1>3, <1>4, RowsKeptStep

\* ResetShadow undoes what the refused update did to the shadow.
LEMMA ResetLeavesContent ==
    ASSUME IInv, NEW u, ResetShadow(u)
    PROVE  cache' = [loaded |-> TRUE, doc |-> Content, shadow |-> Content]
<1>1. /\ Applied(u) = [loaded |-> TRUE, doc |-> Content, shadow |-> Content \cup u]
      /\ Loaded.doc = Content
  BY LoadedIsContent DEF IInv
<1>2. cache' = [Applied(u) EXCEPT !.shadow = Content]
  <2>1. cache' = [Applied(u) EXCEPT !.shadow = Loaded.doc]
    BY DEF ResetShadow
  <2> QED
    BY <1>1, <2>1
<1>3. cache' = [[loaded |-> TRUE, doc |-> Content, shadow |-> Content \cup u]
                   EXCEPT !.shadow = Content]
  BY <1>1, <1>2, Zenon
<1> QED
  BY <1>3

LEMMA RefusalStep ==
    ASSUME IInv, NEW m, NEW u \in Update,
           RefuseUpdate(m, u) \/ StorageRefusal(m, u)
    PROVE  IInv'
<1>1. ResetShadow(u) /\ UNCHANGED <<document, receipts, compaction>>
  BY DEF RefuseUpdate, StorageRefusal
<1>2. reply' \in Replies
  BY DEF RefuseUpdate, StorageRefusal, Reject, Refusal, Replies, Refusals
<1> QED
  BY <1>1, <1>2, ResetLeavesContent, CacheStep

-----------------------------------------------------------------------------
\* What an accepted update has passed.
LEMMA AcceptedUpdate ==
    ASSUME IInv, NEW u \in Update, Refusal(u) = "none"
    PROVE  /\ ~HasPendingDependencies(Content \cup u)
           /\ Valid(Content \cup u)
           /\ ~(u \subseteq Content)
<1>1. /\ Applied(u).shadow = Content \cup u
      /\ Loaded.shadow = Content
  BY LoadedIsContent DEF IInv
<1> QED
  BY <1>1 DEF Refusal

\* A request for a pass asks a pass under way to run again.
LEMMA ScheduleStep ==
    ASSUME IInv, compaction' = Schedule
    PROVE  /\ compaction' \in Compactions
           /\ compaction'.highWater <= lastSeq
           /\ compaction'.phase = "reconstructed" =>
                 /\ compaction.phase = "reconstructed"
                 /\ compaction'.rerun
                 /\ compaction'.highWater = compaction.highWater
                 /\ compaction'.candidate = compaction.candidate
           /\ \/ compaction'.phase \in {"scheduled", "reconstructing"}
              \/ compaction'.phase = "reconstructed" /\ compaction'.rerun
<1>1. /\ compaction \in Compactions /\ compaction.highWater <= lastSeq
      /\ compaction.phase \in Phases /\ lastSeq \in Nat
  BY DEF IInv, TypeOK, Compactions
<1>2. CASE compaction.phase \in {"idle", "failed"}
  <2>1. compaction' = Rest("scheduled")
    BY <1>2 DEF Schedule
  <2> QED
    BY <1>1, <2>1 DEF Rest, Compactions, Phases
<1>3. CASE compaction.phase = "scheduled"
  <2>1. compaction' = compaction
    BY <1>3 DEF Schedule
  <2> QED
    BY <1>1, <1>3, <2>1
<1>4. CASE compaction.phase \in {"reconstructing", "reconstructed"}
  <2>1. compaction' = [compaction EXCEPT !.rerun = TRUE]
    BY <1>4 DEF Schedule
  <2>2. compaction' \in Compactions
    BY <1>1, <2>1 DEF Compactions
  <2>3. /\ compaction'.phase = compaction.phase
        /\ compaction'.rerun = TRUE
        /\ compaction'.highWater = compaction.highWater
        /\ compaction'.candidate = compaction.candidate
    BY <1>1, <2>1 DEF Compactions
  <2> QED
    BY <1>1, <1>4, <2>2, <2>3
<1> QED
  BY <1>1, <1>2, <1>3, <1>4 DEF Phases

LEMMA StoreStep ==
    ASSUME IInv, NEW actor \in Actor, NEW m \in Message, NEW u \in Update,
           StoreUpdate(actor, m, u)
    PROVE  IInv'
<1>1. /\ Content' = Content \cup u
      /\ \A n \in 0 .. lastSeq : Prefix(n)' = Prefix(n)
      /\ \A n : n = lastSeq + 1 => Prefix(n)' = Content \cup u
  BY StoredRows DEF IInv
<1>2. /\ m \notin DOMAIN receipts /\ Refusal(u) = "none"
      /\ lastSeq' = lastSeq + 1 /\ snapshot' = snapshot /\ snapshotSeq' = snapshotSeq
      /\ log' = [n \in DOMAIN log \cup {lastSeq + 1} |-> IF n = lastSeq + 1 THEN u ELSE log[n]]
      /\ receipts' = [k \in DOMAIN receipts \cup {m} |->
                        IF k = m THEN [actor |-> actor, update |-> u, seq |-> lastSeq + 1]
                                 ELSE receipts[k]]
      /\ cache' = [Applied(u) EXCEPT !.doc = @ \cup u]
      /\ compaction' = Schedule
      /\ reply' = [status |-> "committed", update |-> u, seq |-> lastSeq + 1]
  BY DEF StoreUpdate, AddReceipt
<1>3. /\ lastSeq \in Nat /\ snapshotSeq \in 0 .. lastSeq
      /\ DOMAIN log = snapshotSeq + 1 .. lastSeq
      /\ snapshot \subseteq Op /\ Content \subseteq Op /\ u \subseteq Op
  BY ContentType, UpdateAssumption DEF IInv, TypeOK, EveryPrefixIntegrates, Loadable
<1>4. cache' = [loaded |-> TRUE, doc |-> Content \cup u, shadow |-> Content \cup u]
  <2>1. Applied(u) = [loaded |-> TRUE, doc |-> Content, shadow |-> Content \cup u]
    BY LoadedIsContent DEF IInv
  <2>2. cache' = [[loaded |-> TRUE, doc |-> Content, shadow |-> Content \cup u]
                    EXCEPT !.doc = @ \cup u]
    BY <1>2, <2>1, Zenon
  <2> QED
    BY <2>2
<1>5. TypeOK'
  <2>1. DOMAIN log' \subseteq 1 .. lastSeq'
    BY <1>2, <1>3
  <2>2. log' \in [DOMAIN log' -> Update]
    BY <1>2 DEF IInv, TypeOK
  <2>3. /\ DOMAIN receipts' \subseteq Message
        /\ receipts' \in [DOMAIN receipts' -> Receipts]
    BY <1>2, <1>3 DEF IInv, TypeOK, Receipts
  <2>4. \A k \in DOMAIN receipts' : receipts'[k].seq \in 1 .. lastSeq'
    BY <1>2, <1>3 DEF IInv, TypeOK
  <2>5. cache' \in Caches
    BY <1>3, <1>4 DEF Caches
  <2>6. compaction' \in Compactions /\ compaction'.highWater <= lastSeq'
    <3>1. compaction' \in Compactions /\ compaction'.highWater <= lastSeq
      BY <1>2, ScheduleStep
    <3>2. compaction'.highWater \in Nat
      BY <3>1 DEF Compactions
    <3> QED
      BY <1>2, <1>3, <3>1, <3>2
  <2>7. reply' \in Replies
    BY <1>2, <1>3 DEF Replies
  <2>8. snapshot' \subseteq Op /\ lastSeq' \in Nat /\ snapshotSeq' \in 0 .. lastSeq'
    BY <1>2, <1>3
  <2> QED
    BY <2>1, <2>2, <2>3, <2>4, <2>5, <2>6, <2>7, <2>8 DEF TypeOK
<1>6. EveryPrefixIntegrates'
  <2>1. Loadable'
    BY <1>2, <1>3 DEF Loadable
  <2>2. ASSUME NEW n \in snapshotSeq' .. lastSeq'
        PROVE  ~HasPendingDependencies(Prefix(n)') /\ Valid(Prefix(n)')
    <3>1. CASE n = lastSeq + 1
      BY <1>1, <1>2, <3>1, AcceptedUpdate
    <3>2. CASE n # lastSeq + 1
      <4>1. n \in snapshotSeq .. lastSeq /\ n \in 0 .. lastSeq
        BY <1>2, <1>3, <3>2
      <4> QED
        BY <1>1, <4>1 DEF IInv, EveryPrefixIntegrates
    <3> QED
      BY <3>1, <3>2
  <2> QED
    BY <2>1, <2>2 DEF EveryPrefixIntegrates, HasPendingDependencies, Integrated, Valid
<1>7. CacheIsStored'
  BY <1>1, <1>4 DEF CacheIsStored
<1>8. CandidateIsPrefix'
  <2> SUFFICES ASSUME compaction'.phase = "reconstructed"
               PROVE  /\ compaction'.highWater \in snapshotSeq' .. lastSeq'
                      /\ compaction'.candidate = Prefix(compaction.highWater)'
                      /\ compaction'.rerun
    BY DEF CandidateIsPrefix
  <2>1. /\ compaction.phase = "reconstructed" /\ compaction'.rerun
        /\ compaction'.highWater = compaction.highWater
        /\ compaction'.candidate = compaction.candidate
    BY <1>2, ScheduleStep
  <2>2. /\ compaction.highWater \in snapshotSeq .. lastSeq
        /\ compaction.candidate = Prefix(compaction.highWater)
    BY <2>1 DEF IInv, CandidateIsPrefix
  <2>3. compaction'.highWater \in snapshotSeq' .. lastSeq'
    BY <1>2, <1>3, <2>1, <2>2
  <2>4. \A n : n = compaction.highWater => Prefix(n)' = Prefix(n)
    BY <1>1, <1>3, <2>2
  <2>5. Prefix(compaction.highWater)' = Prefix(compaction.highWater)
    BY <2>1, <2>4 DEF Prefix
  <2> QED
    BY <2>1, <2>2, <2>3, <2>5
<1>9. ReceiptsAreStored'
  BY <1>1, <1>2 DEF IInv, ReceiptsAreStored
<1> QED
  BY <1>5, <1>6, <1>7, <1>8, <1>9 DEF IInv

-----------------------------------------------------------------------------
\* The worker takes the whole log.
LEMMA ReadStep ==
    ASSUME IInv, CompactionRead
    PROVE  IInv'
<1> USE DEF CompactionRead
<1>1. /\ compaction \in Compactions
      /\ snapshotSeq \in 0 .. lastSeq /\ lastSeq \in Nat /\ Content \subseteq Op
  BY ContentType DEF IInv, TypeOK
<1>2. compaction' = [compaction EXCEPT !.phase = "reconstructed", !.highWater = lastSeq,
                        !.sourceSeq = snapshotSeq, !.candidate = Content]
  OBVIOUS
<1>3. /\ compaction' \in Compactions
      /\ compaction'.highWater = lastSeq
      /\ compaction'.candidate = Content
  <2>1. compaction.rerun \in BOOLEAN
    BY <1>1 DEF Compactions
  <2>2. compaction' = [phase |-> "reconstructed", rerun |-> compaction.rerun,
                       highWater |-> lastSeq, sourceSeq |-> snapshotSeq,
                       candidate |-> Content]
    BY <1>1, <1>2 DEF Compactions
  <2> QED
    BY <1>1, <2>1, <2>2 DEF Compactions, Phases
<1>4. Prefix(lastSeq)' = Prefix(lastSeq) /\ lastSeq' = lastSeq /\ snapshotSeq' = snapshotSeq
  BY DEF document, Prefix
<1>5. CandidateIsPrefix'
  <2>1. compaction'.candidate = Prefix(compaction.highWater)'
    BY <1>3, <1>4, ContentIsPrefix DEF IInv, Prefix
  <2>2. compaction'.highWater \in snapshotSeq' .. lastSeq'
    BY <1>1, <1>3, <1>4
  <2> QED
    BY <1>3, <1>4, <2>1, <2>2 DEF CandidateIsPrefix
<1>6. cache' \in Caches /\ CacheIsStored' /\ reply' \in Replies
  BY SameRowsSameContent DEF IInv, TypeOK, CacheIsStored
<1> QED
  BY <1>1, <1>3, <1>5, <1>6, RowsKeptStep

\* The snapshot is a prefix that integrates, and the rows after it are kept.
LEMMA WriteStep ==
    ASSUME IInv, CompactionWrite
    PROVE  IInv'
<1>1. /\ Content' = Content
      /\ \A n \in compaction.highWater .. lastSeq : Prefix(n)' = Prefix(n)
  BY CompactedRows
<1>2. /\ compaction.phase = "reconstructed"
      /\ snapshot' = compaction.candidate /\ snapshotSeq' = compaction.highWater
      /\ log' = [n \in {k \in DOMAIN log : k > compaction.highWater} |-> log[n]]
      /\ compaction' = Finish("idle")
      /\ lastSeq' = lastSeq /\ receipts' = receipts /\ cache' = cache /\ reply' = reply
  BY DEF CompactionWrite, CompactDocument, Restrict
<1>3. /\ compaction.highWater \in snapshotSeq .. lastSeq
      /\ compaction.candidate \subseteq Op
      /\ lastSeq \in Nat /\ snapshotSeq \in 0 .. lastSeq
      /\ DOMAIN log = snapshotSeq + 1 .. lastSeq
  BY <1>2 DEF IInv, CandidateIsPrefix, TypeOK, Compactions, EveryPrefixIntegrates, Loadable
<1>4. \E phase \in Phases \ {"reconstructed"} : compaction' = Rest(phase)
  BY <1>2 DEF Finish, Phases
<1>5. /\ compaction' \in Compactions
      /\ compaction'.highWater <= lastSeq
      /\ compaction'.phase # "reconstructed"
  BY <1>3, <1>4 DEF Rest, Compactions
<1>6. TypeOK'
  <2>1. snapshot' \subseteq Op /\ lastSeq' \in Nat /\ snapshotSeq' \in 0 .. lastSeq'
    BY <1>2, <1>3
  <2>2. DOMAIN log' \subseteq 1 .. lastSeq' /\ log' \in [DOMAIN log' -> Update]
    BY <1>2, <1>3 DEF IInv, TypeOK
  <2> QED
    BY <1>2, <1>5, <2>1, <2>2 DEF IInv, TypeOK
<1>7. EveryPrefixIntegrates'
  <2>1. Loadable'
    BY <1>2, <1>3 DEF Loadable
  <2>2. ASSUME NEW n \in snapshotSeq' .. lastSeq'
        PROVE  ~HasPendingDependencies(Prefix(n)') /\ Valid(Prefix(n)')
    <3>1. n \in compaction.highWater .. lastSeq /\ n \in snapshotSeq .. lastSeq
      BY <1>2, <1>3
    <3> QED
      BY <1>1, <3>1 DEF IInv, EveryPrefixIntegrates
  <2> QED
    BY <2>1, <2>2 DEF EveryPrefixIntegrates, HasPendingDependencies, Integrated, Valid
<1>8. CacheIsStored' /\ ReceiptsAreStored'
  BY <1>1, <1>2 DEF IInv, CacheIsStored, ReceiptsAreStored
<1>9. CandidateIsPrefix'
  BY <1>5 DEF CandidateIsPrefix
<1> QED
  BY <1>6, <1>7, <1>8, <1>9 DEF IInv

LEMMA HousekeepingStep ==
    ASSUME IInv, Housekeeping
    PROVE  IInv'
<1>1. reply \in Replies
  BY DEF IInv, TypeOK
<1>2. CASE Evict
  BY <1>1, <1>2, CacheStep DEF Evict
<1>3. CASE CompactionStart
  <2>1. \E phase \in Phases \ {"reconstructed"} : compaction' = Rest(phase)
    BY <1>3 DEF CompactionStart, Finish, Phases
  <2> QED
    BY <1>3, <2>1, PassStep DEF CompactionStart
<1>4. CASE CompactionRead
  BY <1>4, ReadStep
<1>5. CASE CompactionWrite
  BY <1>5, WriteStep
<1>6. CASE CompactionGivesUp
  <2>1. \E phase \in Phases \ {"reconstructed"} : compaction' = Rest(phase)
    BY <1>6 DEF CompactionGivesUp, Finish, Phases
  <2> QED
    BY <1>6, <2>1, PassStep DEF CompactionGivesUp
<1>7. CASE Restart
  <2>1. "failed" \in Phases \ {"reconstructed"}
    BY DEF Phases
  <2> QED
    BY <1>7, <2>1, PassStep DEF Restart
<1> QED
  BY <1>2, <1>3, <1>4, <1>5, <1>6, <1>7 DEF Housekeeping

\* A replayed receipt changes the answer only.
LEMMA ReplayStep ==
    ASSUME IInv, NEW actor, NEW m, NEW u \in Update, ReplayReceipt(actor, m, u)
    PROVE  IInv'
<1>1. reply' \in Replies
  BY DEF ReplayReceipt, Reject, Replies, Refusals, IInv, TypeOK, Receipts
<1> QED
  BY <1>1, CacheStep DEF ReplayReceipt

LEMMA Inductive == IInv /\ [ServerNext]_serverVars => IInv'
<1> SUFFICES ASSUME IInv, [ServerNext]_serverVars PROVE IInv'
  OBVIOUS
<1>1. CASE UNCHANGED serverVars
  BY <1>1, CacheStep DEF serverVars, IInv, TypeOK
<1>2. ASSUME NEW actor \in Actor, NEW m \in Message, NEW u \in Update,
             AppendUpdate(actor, m, u)
      PROVE  IInv'
  BY <1>2, ReplayStep, RefusalStep, StoreStep DEF AppendUpdate
<1>3. CASE GetDocument
  <2>1. cache' = [loaded |-> TRUE, doc |-> Content, shadow |-> Content]
    BY <1>3, LoadedIsContent DEF GetDocument, IInv
  <2> QED
    BY <1>3, <2>1, CacheStep DEF GetDocument, IInv, TypeOK
<1>4. CASE Housekeeping
  BY <1>4, HousekeepingStep
<1> QED
  BY <1>1, <1>2, <1>3, <1>4 DEF ServerNext

LEMMA Invariance == ServerSpec => []IInv
BY InitIInv, Inductive, PTL DEF ServerSpec

-----------------------------------------------------------------------------
\* Rows, receipts, cache and coordinator hold what they may hold.
THEOREM BoardServerTypeOK == ServerSpec => []TypeOK
<1>1. IInv => TypeOK
  BY DEF IInv
<1> QED
  BY <1>1, Invariance, PTL

\* Whatever prefix of the parts a client has applied integrates on its own and
\* breaks no schema rule, through every append, refusal and compaction.
THEOREM PrefixesIntegrate == ServerSpec => []EveryPrefixIntegrates
<1>1. IInv => EveryPrefixIntegrates
  BY DEF IInv
<1> QED
  BY <1>1, Invariance, PTL

\* A refusal, a failed write, an eviction or a compaction leaves nothing in
\* memory that differs from the durable content.
THEOREM MemoryIsStored == ServerSpec => []CacheIsStored
<1>1. IInv => CacheIsStored
  BY DEF IInv
<1> QED
  BY <1>1, Invariance, PTL

\* The number of rows never passes the threshold unnoticed: a pass is to come
\* that sees them all, or the last one gave up.
LEMMA KeepsUpInductive ==
    ASSUME IInv, CompactionKeepsUp, [ServerNext]_serverVars
    PROVE  CompactionKeepsUp'
<1> SUFFICES ASSUME CompactionDue'
             PROVE  \/ compaction'.phase \in {"scheduled", "reconstructing", "failed"}
                    \/ compaction'.phase = "reconstructed"
                          /\ (compaction'.rerun \/ compaction'.highWater = lastSeq')
  BY DEF CompactionKeepsUp
<1>1. compaction \in Compactions /\ lastSeq \in Nat
  BY DEF IInv, TypeOK
<1>2. CASE UNCHANGED <<document, compaction>>
  BY <1>2 DEF CompactionKeepsUp, CompactionDue, document
<1>3. ASSUME NEW actor \in Actor, NEW m \in Message, NEW u \in Update,
             StoreUpdate(actor, m, u)
      PROVE  \/ compaction'.phase \in {"scheduled", "reconstructing"}
             \/ compaction'.phase = "reconstructed" /\ compaction'.rerun
  BY <1>3, ScheduleStep DEF StoreUpdate
<1>4. CASE CompactionStart
  BY <1>4 DEF CompactionStart, CompactionDue, Rest, document
<1>5. CASE CompactionRead
  BY <1>1, <1>5 DEF CompactionRead, Compactions, document
<1>6. CASE CompactionWrite
  <2>1. CASE compaction.rerun
    BY <1>6, <2>1 DEF CompactionWrite, Finish, Rest
  <2>2. CASE ~compaction.rerun
    <3>1. compaction.highWater = lastSeq
      BY <1>6, <2>2 DEF IInv, CandidateIsPrefix, CompactionWrite
    <3>2. DOMAIN log' = {n \in DOMAIN log : n > lastSeq}
      BY <1>6, <3>1 DEF CompactionWrite, CompactDocument, Restrict
    <3>3. DOMAIN log \subseteq 1 .. lastSeq
      BY DEF IInv, TypeOK
    <3>4. DOMAIN log' = {}
      BY <1>1, <3>2, <3>3
    <3>5. Cardinality(DOMAIN log') = 0
      BY <3>4, FS_EmptySet
    <3> QED
      BY <3>5, MinUpdateCountAssumption DEF CompactionDue
  <2> QED
    BY <2>1, <2>2
<1>7. CASE CompactionGivesUp
  BY <1>7 DEF CompactionGivesUp, Finish, Rest
<1>8. CASE Restart
  BY <1>8 DEF Restart, Rest
<1>9. \/ UNCHANGED <<document, compaction>>
      \/ \E actor \in Actor, m \in Message, u \in Update : StoreUpdate(actor, m, u)
      \/ CompactionStart \/ CompactionRead \/ CompactionWrite \/ CompactionGivesUp \/ Restart
  BY DEF ServerNext, serverVars, Housekeeping, Evict, GetDocument, AppendUpdate, ReplayReceipt,
         RefuseUpdate, StorageRefusal
<1> QED
  BY <1>2, <1>3, <1>4, <1>5, <1>6, <1>7, <1>8, <1>9

THEOREM CompactionIsScheduled == ServerSpec => []CompactionKeepsUp
<1>1. ServerInit => CompactionKeepsUp
  <2>1. ServerInit => DOMAIN log = {}
    BY DEF ServerInit
  <2> QED
    BY <2>1, FS_EmptySet, MinUpdateCountAssumption DEF CompactionKeepsUp, CompactionDue
<1>2. IInv /\ CompactionKeepsUp /\ [ServerNext]_serverVars => CompactionKeepsUp'
  BY KeepsUpInductive
<1> QED
  BY <1>1, <1>2, Invariance, PTL DEF ServerSpec

\* The messages settled, as BoardPort knows them.
Settled == {<<receipts[m].actor, m, receipts[m].update>> : m \in DOMAIN receipts}

\* What the durable document says of an update whose message is not settled.
Judged(u) ==
    IF HasPendingDependencies(Content \cup u) THEN "CAUSAL_GAP"
    ELSE IF u \subseteq Content THEN "NO_NEW_INFORMATION" ELSE "committed"

LEMMA PortOf == UNCHANGED Port!server <=> Content' = Content /\ Settled' = Settled
BY DEF Port!server, Settled

\* Rows and receipts are all a tab can tell of the server.
LEMMA PortKept ==
    ASSUME UNCHANGED <<document, receipts>>
    PROVE  UNCHANGED Port!server
<1>1. Content' = Content /\ Settled' = Settled
  BY SameRowsSameContent DEF Settled
<1> QED
  BY <1>1, PortOf

\* A message is settled once, by what it first brought.
LEMMA StoredIsSettled ==
    ASSUME IInv, NEW actor, NEW m, NEW u, StoreUpdate(actor, m, u)
    PROVE  /\ <<actor, m, u>> \notin Settled
           /\ Settled' = Settled \cup {<<actor, m, u>>}
<1>1. /\ m \notin DOMAIN receipts
      /\ DOMAIN receipts' = DOMAIN receipts \cup {m}
      /\ receipts'[m].actor = actor /\ receipts'[m].update = u
      /\ \A k \in DOMAIN receipts : receipts'[k] = receipts[k]
  BY DEF StoreUpdate, AddReceipt
<1>2. ASSUME NEW call
      PROVE  call \in Settled' <=> call \in Settled \/ call = <<actor, m, u>>
  <2>1. call \in Settled' <=>
           \E k \in DOMAIN receipts' : call = <<receipts'[k].actor, k, receipts'[k].update>>
    BY DEF Settled
  <2>2. call \in Settled <=>
           \E k \in DOMAIN receipts : call = <<receipts[k].actor, k, receipts[k].update>>
    BY DEF Settled
  <2> QED
    BY <1>1, <2>1, <2>2
<1> QED
  BY <1>1, <1>2 DEF Settled

\* What appendUpdate answers to a call.
Verdict == IF reply'.status = "rejected" THEN reply'.code ELSE reply'.status

\* An answer of BoardPort, given by its parts.
LEMMA AnsweredWith ==
    ASSUME NEW call, NEW u,
           \/ Verdict = "duplicate" /\ call \in Settled
           \/ /\ Verdict \in {"CAUSAL_GAP", "NO_NEW_INFORMATION", "committed"}
              /\ Verdict = Judged(u) /\ call \notin Settled,
           IF Verdict \in {"committed", "duplicate"}
           THEN Content' = Content \cup u /\ Settled' = Settled \cup {call}
           ELSE Content' = Content /\ Settled' = Settled
    PROVE  Port!Answered(call, u, Verdict)
BY DEF Port!Answered, Port!server, Port!Verdict, Port!HasPendingDependencies, Port!Integrated,
       HasPendingDependencies, Integrated, Settled, Judged

LEMMA CallAnswered ==
    ASSUME IInv, NEW actor \in Actor, NEW m \in Message, NEW u \in Update,
           AppendUpdate(actor, m, u)
    PROVE  /\ reply'.update = u /\ reply'.status # "none"
           /\ \/ Port!Answered(<<actor, m, u>>, u, Verdict)
              \/ Declined(reply') /\ UNCHANGED Port!server
<1> DEFINE call == <<actor, m, u>>
<1>1. Loaded.shadow = Content /\ Applied(u).shadow = Content \cup u
  BY LoadedIsContent DEF IInv
<1>2. CASE ReplayReceipt(actor, m, u)
  <2>1. UNCHANGED <<document, receipts>> /\ UNCHANGED Port!server
    BY <1>2, PortKept DEF ReplayReceipt
  <2>2. CASE receipts[m].actor = actor /\ receipts[m].update = u
    <3>1. reply' = [status |-> "duplicate", update |-> u, seq |-> receipts[m].seq]
      BY <1>2, <2>2 DEF ReplayReceipt
    <3>2. call \in Settled /\ u \subseteq Content
      BY <1>2, <2>2 DEF ReplayReceipt, Settled, IInv, ReceiptsAreStored
    <3>3. Content' = Content \cup u /\ Settled' = Settled \cup {call}
      BY <2>1, <3>2, PortOf
    <3> QED
      BY <3>1, <3>2, <3>3, AnsweredWith DEF Verdict
  <2>3. CASE ~(receipts[m].actor = actor /\ receipts[m].update = u)
    <3>1. reply' = [status |-> "rejected", update |-> u, code |-> "IDEMPOTENCY_CONFLICT"]
      BY <1>2, <2>3 DEF ReplayReceipt, Reject
    <3> QED
      BY <2>1, <3>1 DEF Declined
  <2> QED
    BY <2>2, <2>3
<1>3. m \notin DOMAIN receipts => call \notin Settled
  BY DEF Settled
<1>4. CASE RefuseUpdate(m, u)
  <2>1. /\ reply' = [status |-> "rejected", update |-> u, code |-> Refusal(u)]
        /\ UNCHANGED Port!server /\ call \notin Settled
    BY <1>3, <1>4, PortKept DEF RefuseUpdate, Reject
  <2>2. CASE Refusal(u) = "INVALID_UPDATE"
    BY <2>1, <2>2 DEF Declined
  <2>3. CASE Refusal(u) # "INVALID_UPDATE"
    <3>1. /\ Refusal(u) \in {"CAUSAL_GAP", "NO_NEW_INFORMATION"}
          /\ Refusal(u) = Judged(u)
      BY <1>1, <1>4, <2>3 DEF RefuseUpdate, Refusal, Judged
    <3> QED
      BY <2>1, <3>1, AnsweredWith, PortOf DEF Verdict
  <2> QED
    BY <2>1, <2>2, <2>3
<1>5. CASE StorageRefusal(m, u)
  <2>1. reply' = [status |-> "rejected", update |-> u, code |-> "STORAGE_ERROR"]
    BY <1>5 DEF StorageRefusal, Reject
  <2> QED
    BY <1>5, <2>1, PortKept DEF StorageRefusal, Declined
<1>6. CASE StoreUpdate(actor, m, u)
  <2>1. reply' = [status |-> "committed", update |-> u, seq |-> lastSeq + 1] /\ Refusal(u) = "none"
    BY <1>6 DEF StoreUpdate
  <2>2. Content' = Content \cup u
    BY <1>6, StoredRows DEF IInv
  <2>3. call \notin Settled /\ Settled' = Settled \cup {call}
    BY <1>6, StoredIsSettled
  <2>4. Judged(u) = "committed"
    BY <2>1, AcceptedUpdate DEF Judged
  <2> QED
    BY <2>1, <2>2, <2>3, <2>4, AnsweredWith DEF Verdict
<1> QED
  BY <1>2, <1>4, <1>5, <1>6 DEF AppendUpdate

\* BoardServer is the server BoardSync is built on: every step of it that answers
\* or changes what is stored is a step of BoardPort, or declines an update and
\* stores nothing.
THEOREM ServerAnswersTruly == ServerSpec => AnswersAreTrue
<1>1. IInv /\ [ServerNext]_serverVars => [TrueAnswer]_<<reply, Port!server>>
  <2> SUFFICES ASSUME IInv, [ServerNext]_serverVars
               PROVE  TrueAnswer \/ (reply' = reply /\ UNCHANGED Port!server)
    OBVIOUS
  <2>1. ASSUME NEW actor \in Actor, NEW m \in Message, NEW u \in Update,
               AppendUpdate(actor, m, u)
        PROVE  TrueAnswer
    BY <2>1, CallAnswered DEF TrueAnswer, Verdict
  <2>2. CASE reply' = reply /\ UNCHANGED <<document, receipts>>
    BY <2>2, PortKept
  <2>3. CASE CompactionWrite
    <3>1. Content' = Content /\ Settled' = Settled /\ reply' = reply
      BY <2>3, CompactedRows DEF CompactionWrite, Settled
    <3> QED
      BY <3>1, PortOf
  <2>4. \/ \E actor \in Actor, m \in Message, u \in Update : AppendUpdate(actor, m, u)
        \/ reply' = reply /\ UNCHANGED <<document, receipts>>
        \/ CompactionWrite
    BY DEF ServerNext, serverVars, GetDocument, Housekeeping, Evict, CompactionStart,
           CompactionRead, CompactionGivesUp, Restart
  <2> QED
    BY <2>1, <2>2, <2>3, <2>4
<1> QED
  BY <1>1, Invariance, PTL DEF ServerSpec, AnswersAreTrue

-----------------------------------------------------------------------------
Answers == [m \in DOMAIN receipts |->
               [update |-> receipts[m].update, sequence |-> receipts[m].seq]]

\* The update that is stored is not one that was answered before, because it
\* brings something the content lacks.
LEMMA StoredSettles ==
    ASSUME IInv, NEW actor \in Actor, NEW m \in Message, NEW u \in Update,
           StoreUpdate(actor, m, u)
    PROVE  Promise!Settle(m, u)
<1>1. \A k \in DOMAIN receipts : receipts[k].update # u
  BY AcceptedUpdate DEF IInv, ReceiptsAreStored, StoreUpdate
<1>2. /\ m \notin DOMAIN receipts
      /\ receipts' = [k \in DOMAIN receipts \cup {m} |->
                        IF k = m THEN [actor |-> actor, update |-> u, seq |-> lastSeq + 1]
                                 ELSE receipts[k]]
  BY DEF StoreUpdate, AddReceipt
<1>3. DOMAIN Answers' = DOMAIN Answers \cup {m} /\ m \notin DOMAIN Answers
  BY <1>2 DEF Answers
<1>4. Answers'[m] = [update |-> u, sequence |-> lastSeq + 1]
  BY <1>2 DEF Answers
<1>5. \A k \in DOMAIN Answers : Answers'[k] = Answers[k]
  BY <1>2 DEF Answers
<1>6. Answers' = [k \in DOMAIN Answers \cup {m} |->
                     IF k = m THEN [update |-> u, sequence |-> lastSeq + 1] ELSE Answers[k]]
  BY <1>3, <1>4, <1>5 DEF Answers
<1>7. \A k \in DOMAIN Answers : Answers[k].update = u => Answers[k].sequence = lastSeq + 1
  BY <1>1 DEF Answers
<1>8. Content' = Content \cup u /\ lastSeq + 1 \in Nat
  BY StoredRows DEF IInv, TypeOK
<1> QED
  BY <1>3, <1>4, <1>6, <1>7, <1>8 DEF Promise!Settle, Promise!Agrees, Answers

\* Snapshot, rows, receipts, shadow and compaction implement the promise that
\* an answered update stays in the document and keeps its answer.
THEOREM BoardServerKeepsPromise == ServerSpec => KeepsPromise
<1>1. ServerInit => Promise!Init
  <2> SUFFICES ASSUME ServerInit PROVE Promise!Init
    OBVIOUS
  <2>1. Content = {}
    BY DEF ServerInit, Content
  <2>2. Answers = [k \in {} |-> 0]
    BY DEF ServerInit, Answers
  <2> QED
    BY <2>1, <2>2 DEF Promise!Init, Answers
<1>2. IInv /\ [ServerNext]_serverVars => [Promise!Next]_Promise!vars
  <2> SUFFICES ASSUME IInv, [ServerNext]_serverVars PROVE [Promise!Next]_Promise!vars
    OBVIOUS
  <2>1. CASE Content' = Content /\ receipts' = receipts
    BY <2>1 DEF Promise!vars
  <2>2. ASSUME NEW actor \in Actor, NEW m \in Message, NEW u \in Update,
               StoreUpdate(actor, m, u)
        PROVE  Promise!Next
    BY <2>2, StoredSettles DEF Promise!Next
  <2>3. CASE CompactionWrite
    BY <2>1, <2>3, CompactedRows DEF CompactionWrite
  <2>4. CASE UNCHANGED <<document, receipts>>
    BY <2>1, <2>4, SameRowsSameContent
  <2>5. \/ \E actor \in Actor, m \in Message, u \in Update : StoreUpdate(actor, m, u)
        \/ CompactionWrite
        \/ UNCHANGED <<document, receipts>>
    BY DEF ServerNext, serverVars, Housekeeping, Evict, GetDocument, AppendUpdate, ReplayReceipt,
           RefuseUpdate, StorageRefusal, CompactionStart, CompactionRead, CompactionGivesUp, Restart
  <2> QED
    BY <2>2, <2>3, <2>4, <2>5
<1> QED
  BY <1>1, <1>2, Invariance, PTL DEF ServerSpec, KeepsPromise, Promise!Spec
=============================================================================
