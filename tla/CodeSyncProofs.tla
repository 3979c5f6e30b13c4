--------------------------- MODULE CodeSyncProofs ---------------------------
(***************************************************************************)
(* Proofs about CodeSync for any browsers, tabs and edits.  The invariant  *)
(* follows an operation from the keyboard to the server: typed and waiting *)
(* for its write, in the browser's outbox, under way, stored.  Every set   *)
(* an operation may be in at a place is a parameter of the place's type,   *)
(* and the sets only grow, so what waits in a queue stays true.            *)
(***************************************************************************)
EXTENDS CodeSync, CodeRepositoryProofs, SequenceTheorems

\* Where an operation can be found: stored, or in the browser's outbox ...
Sent(d) == Content \cup Range(disk[d].outbox)
\* ... stored, or in the browser's log ...
Logged(d) == Content \cup disk[d].log
\* ... stored, or in any outbox ...
Known == Content \cup UNION {Range(disk[d].outbox) : d \in Device}
\* ... or typed in the tab and nowhere yet but in its memory.
Unwritten(t) == {o \in issued \ Known : Author[o] = t}

\* The entries of the queues, over what is stored (C), logged (L), sent (K) and
\* unwritten (F).
Write(C, L, F) ==
    [kind : {"remote"}, ops : SUBSET L]
        \cup [kind : {"local"}, op : F]
        \cup [kind : {"finish"}]
        \cup [kind : {"ack"}, op : C \ Seed]
UpFrame(K) == [type : {"sync"}, vector : SUBSET Op] \cup [type : {"update"}, op : K \ Seed]
DownFrame(C) ==
    [type : {"ready"}]
        \cup [type : {"part"}, update : SUBSET C, done : BOOLEAN]
        \cup [type : {"remote", "ack"}, op : C \ Seed]

TabOver(C, L, K, F) ==
    [phase : {"closed", "loaded", "running"}, doc : SUBSET Op,
     writes : Seq(Write(C, L, F)), queued : Nat,
     durability : {"ready", "writing", "at-risk"}, writeFailure : BOOLEAN,
     pending : Seq(K \ Seed), inFlight : (Op \ Seed) \cup {NoOp},
     connection : {"offline", "syncing", "online", "error"},
     documentReady : BOOLEAN, connected : BOOLEAN, socketReady : BOOLEAN,
     syncRequest : BOOLEAN, syncComplete : BOOLEAN,
     up : Seq(UpFrame(K)), down : Seq(DownFrame(C))]

DiskState == [log : SUBSET Op, outbox : Seq(Op \ Seed)]

Here(t) == TabOver(Content, Logged(DeviceOf[t]), Sent(DeviceOf[t]), Unwritten(t))

Locals(p) == {i \in DOMAIN p.writes : p.writes[i].kind = "local"}

\* What a document shows that neither the server nor the outbox has.
Unsaved(p, C) == p.doc \ (C \cup Range(p.pending))

\* What the fields of a tab say of each other, given what is stored (C), logged
\* (L) and sent (K): queuedLocalWrites counts at least what is unsaved.
Sound(p, C, L, K) ==
    /\ p.doc \ Integrated(p.doc) \subseteq L
    /\ \A i \in Locals(p) : p.writes[i].op \in p.doc
    /\ \A i, j \in Locals(p) : p.writes[i].op = p.writes[j].op => i = j
    /\ p.phase = "closed" => p = Closed
    /\ p.phase = "loaded" => /\ p = [Closed EXCEPT !.phase = "loaded", !.doc = p.doc]
                             /\ p.doc \subseteq K
    /\ p.phase = "running" => /\ IsFiniteSet(Unsaved(p, C))
                              /\ Cardinality(Unsaved(p, C)) <= p.queued

SoundHere(t) == Sound(tab[t], Content, Logged(DeviceOf[t]), Sent(DeviceOf[t]))

SyncInv ==
    /\ IInv
    /\ tab \in [Tab -> TabOver(Op, Op, Op, Op)]
    /\ \A t \in Tab : tab[t] \in Here(t) /\ SoundHere(t)
    /\ disk \in [Device -> DiskState]
    /\ \A d \in Device : disk[d].log \subseteq Sent(d)
    /\ late \subseteq [tab : Tab, op : Op \ Seed]
    /\ \A f \in late : f.op \in Sent(DeviceOf[f.tab])
    /\ issued \subseteq Op \ Seed
    /\ Known \subseteq Seed \cup issued

-----------------------------------------------------------------------------
\* A queue over smaller sets is one over larger sets.
LEMMA TabMonotone ==
    ASSUME NEW C, NEW L, NEW K, NEW F, NEW D, NEW M, NEW J, NEW G,
           C \subseteq D, L \subseteq M, K \subseteq J, F \subseteq G
    PROVE  TabOver(C, L, K, F) \subseteq TabOver(D, M, J, G)
<1>1. Seq(Write(C, L, F)) \subseteq Seq(Write(D, M, G))
    <2>1. Write(C, L, F) \subseteq Write(D, M, G)
        BY DEF Write
    <2> QED
        BY <2>1
<1>2. Seq(UpFrame(K)) \subseteq Seq(UpFrame(J)) /\ Seq(K \ Seed) \subseteq Seq(J \ Seed)
    <2>1. UpFrame(K) \subseteq UpFrame(J)
        BY DEF UpFrame
    <2> QED
        BY <2>1
<1>3. Seq(DownFrame(C)) \subseteq Seq(DownFrame(D))
    <2>1. DownFrame(C) \subseteq DownFrame(D)
        BY DEF DownFrame
    <2> QED
        BY <2>1
<1> HIDE DEF Write, UpFrame, DownFrame
<1> QED
    BY <1>1, <1>2, <1>3 DEF TabOver

LEMMA ClosedTyped ==
    ASSUME NEW C, NEW L, NEW K, NEW F
    PROVE  Closed \in TabOver(C, L, K, F) /\ Sound(Closed, C, L, K)
<1>1. /\ <<>> \in Seq(Write(C, L, F)) /\ <<>> \in Seq(K \ Seed)
      /\ <<>> \in Seq(UpFrame(K)) /\ <<>> \in Seq(DownFrame(C))
    OBVIOUS
<1>2. Closed \in TabOver(C, L, K, F)
    BY <1>1 DEF Closed, TabOver
<1>3. Sound(Closed, C, L, K)
    <2>1. Closed.doc = {} /\ Closed.writes = <<>> /\ Closed.phase = "closed"
        BY DEF Closed
    <2> QED
        BY <2>1 DEF Sound, Locals
<1> QED
    BY <1>2, <1>3

\* The tail of a queue, and a queue whose entries are all of a narrower kind.
LEMMA TailOf ==
    ASSUME NEW W, NEW s \in Seq(W), s # <<>>
    PROVE  /\ Tail(s) \in Seq(W) /\ Head(s) \in W /\ Head(s) = s[1] /\ 1 \in DOMAIN s
           /\ Len(s) \in Nat /\ DOMAIN s = 1 .. Len(s) /\ Len(Tail(s)) = Len(s) - 1
           /\ \A i \in 1 .. Len(s) - 1 : Tail(s)[i] = s[i + 1]
           /\ Range(Tail(s)) \subseteq Range(s) /\ Range(s) = Range(Tail(s)) \cup {Head(s)}
<1>1. /\ Tail(s) \in Seq(W) /\ Head(s) \in W /\ Head(s) = s[1] /\ 1 \in DOMAIN s
      /\ Len(s) \in Nat /\ DOMAIN s = 1 .. Len(s) /\ Len(Tail(s)) = Len(s) - 1
      /\ \A i \in 1 .. Len(s) - 1 : Tail(s)[i] = s[i + 1]
    OBVIOUS
<1>2. DOMAIN Tail(s) = 1 .. Len(s) - 1
    BY <1>1
<1>3. Range(Tail(s)) \subseteq Range(s)
    <2>1. \A i \in DOMAIN Tail(s) : i + 1 \in DOMAIN s /\ Tail(s)[i] = s[i + 1]
        BY <1>1, <1>2
    <2> QED
        BY <2>1 DEF Range
<1>4. Range(s) \subseteq Range(Tail(s)) \cup {Head(s)}
    <2> SUFFICES ASSUME NEW i \in DOMAIN s PROVE s[i] \in Range(Tail(s)) \cup {Head(s)}
        BY DEF Range
    <2>1. CASE i = 1
        BY <1>1, <2>1
    <2>2. CASE i # 1
        <3>1. i - 1 \in DOMAIN Tail(s) /\ Tail(s)[i - 1] = s[i]
            BY <1>1, <1>2, <2>2
        <3> QED
            BY <3>1 DEF Range
    <2> QED
        BY <2>1, <2>2
<1>5. Head(s) \in Range(s)
    BY <1>1 DEF Range
<1> QED
    BY <1>1, <1>3, <1>4, <1>5

LEMMA NarrowSeq ==
    ASSUME NEW S, NEW T, NEW s \in Seq(S), \A i \in 1 .. Len(s) : s[i] \in T
    PROVE  s \in Seq(T)
OBVIOUS

\* Without takes one element out and moves the rest up.
LEMMA WithoutShape ==
    ASSUME NEW S, NEW s \in Seq(S), NEW o, o \in Range(s)
    PROVE  \E at \in 1 .. Len(s) :
              /\ s[at] = o
              /\ Without(s, o) \in Seq(S)
              /\ Len(Without(s, o)) = Len(s) - 1
              /\ \A i \in 1 .. Len(s) - 1 :
                    Without(s, o)[i] = IF i < at THEN s[i] ELSE s[i + 1]
<1> DEFINE at == CHOOSE i \in DOMAIN s : s[i] = o
           left == SubSeq(s, 1, at - 1)
           right == SubSeq(s, at + 1, Len(s))
<1>1. at \in DOMAIN s /\ s[at] = o
    BY DEF Range
<1>2. Without(s, o) = left \o right
    BY DEF Without, RemoveAt
<1> HIDE DEF at
<1>3. at \in 1 .. Len(s)
    BY <1>1
<1>4. /\ left \in Seq(S) /\ Len(left) = at - 1
      /\ \A i \in 1 .. at - 1 : left[i] = s[i]
    BY <1>3
<1>5. /\ right \in Seq(S) /\ Len(right) = Len(s) - at
      /\ \A i \in 1 .. Len(s) - at : right[i] = s[at + i]
    BY <1>3
<1> HIDE DEF left, right
<1>6. /\ left \o right \in Seq(S)
      /\ Len(left \o right) = Len(left) + Len(right)
      /\ \A i \in 1 .. Len(left) + Len(right) :
            (left \o right)[i] = IF i <= Len(left) THEN left[i] ELSE right[i - Len(left)]
    BY <1>4, <1>5, ConcatProperties
<1>7. Len(left) + Len(right) = Len(s) - 1 /\ Len(s) \in Nat
    BY <1>3, <1>4, <1>5
<1>8. ASSUME NEW i \in 1 .. Len(s) - 1
      PROVE  (left \o right)[i] = IF i < at THEN s[i] ELSE s[i + 1]
    <2>1. CASE i < at
        <3>1. i \in 1 .. at - 1 /\ i <= Len(left) /\ i \in 1 .. Len(left) + Len(right)
            BY <1>3, <1>4, <1>7, <2>1
        <3> QED
            BY <1>4, <1>6, <2>1, <3>1
    <2>2. CASE ~(i < at)
        <3>1. /\ i - (at - 1) \in 1 .. Len(s) - at /\ ~(i <= Len(left))
              /\ i \in 1 .. Len(left) + Len(right) /\ at + (i - (at - 1)) = i + 1
            BY <1>3, <1>4, <1>7, <2>2
        <3> QED
            BY <1>4, <1>5, <1>6, <2>2, <3>1
    <2> QED
        BY <2>1, <2>2
<1> QED
    BY <1>1, <1>2, <1>3, <1>6, <1>7, <1>8

\* What Without leaves is what was there but for the element.
LEMMA WithoutIn ==
    ASSUME NEW S, NEW s \in Seq(S), NEW o
    PROVE  /\ Without(s, o) \in Seq(S)
           /\ Range(Without(s, o)) \subseteq Range(s)
           /\ Range(s) \subseteq Range(Without(s, o)) \cup {o}
<1>1. CASE o \notin Range(s)
    BY <1>1 DEF Without
<1>2. CASE o \in Range(s)
    <2> DEFINE r == Without(s, o)
    <2>1. PICK at \in 1 .. Len(s) :
             /\ s[at] = o
             /\ r \in Seq(S)
             /\ Len(r) = Len(s) - 1
             /\ \A i \in 1 .. Len(s) - 1 : r[i] = IF i < at THEN s[i] ELSE s[i + 1]
        BY <1>2, WithoutShape
    <2> HIDE DEF r
    <2>2. \A i \in DOMAIN r : r[i] \in Range(s)
        BY <2>1 DEF Range
    <2>3. ASSUME NEW i \in DOMAIN s, i # at
          PROVE  s[i] \in Range(r)
        <3>1. i \in 1 .. Len(s)
            OBVIOUS
        <3>2. CASE i < at
            <4>1. i \in DOMAIN r /\ r[i] = s[i]
                BY <2>1, <3>1, <3>2
            <4> QED
                BY <4>1 DEF Range
        <3>3. CASE i > at
            <4>1. i - 1 \in DOMAIN r /\ r[i - 1] = s[i]
                BY <2>1, <3>1, <3>3
            <4> QED
                BY <4>1 DEF Range
        <3> QED
            BY <2>1, <2>3, <3>1, <3>2, <3>3
    <2> QED
        BY <2>1, <2>2, <2>3 DEF Range, r
<1> QED
    BY <1>1, <1>2
-----------------------------------------------------------------------------
\* What one call of appendUpdate does to the content: it keeps what is there and
\* adds at most the update, and an answer that is no refusal means it is in.
LEMMA StoreUpdateStores ==
    ASSUME IInv, NEW key \in Key, NEW u \in Update, StoreUpdate(key, u)
    PROVE  /\ IInv'
           /\ Content \subseteq Content' /\ Content' \subseteq Content \cup u
           /\ reply'.status # "rejected" => u \subseteq Content'
           /\ IF reply'.status = "committed" THEN Content' = Content \cup u ELSE Content' = Content
<1>1. AppendUpdate(key, u)
    BY DEF AppendUpdate
<1>2. IInv'
    BY <1>1, NextIInv DEF Next
<1>3. CASE UNCHANGED document
    <2>1. Content' = Content
        BY <1>3 DEF document, Content
    <2>2. CASE \/ IdempotencyConflict(key, u) \/ ReceiptQuotaReached(key)
               \/ InvalidUpdate(key, u) \/ LogQuotaReached(key, u)
        <3>1. PICK code \in {"invalid-update", "expired"} : Reject(code)
            BY <2>2 DEF IdempotencyConflict, ReceiptQuotaReached, InvalidUpdate, LogQuotaReached
        <3> QED
            BY <1>2, <2>1, <3>1 DEF Reject
    <2>3. CASE ReplayReceipt(key, u)
        <3>1. key \in DOMAIN receipts /\ receipts[key].digest = u /\ reply'.status = "duplicate"
            BY <2>3 DEF ReplayReceipt, Answered, Answer
        <3>2. u \subseteq Content
            BY <3>1 DEF IInv, AckedIsDurable
        <3> QED
            BY <1>2, <2>1, <3>1, <3>2
    <2>4. CASE DuplicateDigest(key, u)
        <3>1. KnownDigest(u) /\ reply'.status = "duplicate"
            BY <2>4 DEF DuplicateDigest, Answer
        <3>2. u \subseteq Content
            BY <3>1 DEF IInv, AckedIsDurable, KnownDigest
        <3> QED
            BY <1>2, <2>1, <3>1, <3>2
    <2>5. CASE EmptyUpdate(key, u)
        <3>1. u = {} /\ reply'.status = "duplicate"
            BY <2>5 DEF EmptyUpdate, Answer
        <3> QED
            BY <1>2, <2>1, <3>1
    <2>6. ~CommitCompacted(key, u) /\ ~CommitLogged(key, u)
        <3>1. lastSequence' = lastSequence /\ lastSequence \in Nat
            BY <1>3 DEF document, IInv, TypeOK
        <3> QED
            BY <3>1 DEF CommitCompacted, CommitLogged
    <2> QED
        BY <2>2, <2>3, <2>4, <2>5, <2>6 DEF StoreUpdate
<1>4. CASE CommitCompacted(key, u) \/ CommitLogged(key, u)
    <2>1. Content' = Candidate(u)
        BY <1>4, LoggedContent, CompactedContent DEF IInv, CommitCompacted, CommitLogged, CanCompact
    <2>2. reply'.status = "committed"
        BY <1>4 DEF CommitCompacted, CommitLogged, Answer
    <2> QED
        BY <1>2, <2>1, <2>2 DEF Candidate
<1> QED
    BY <1>3, <1>4 DEF StoreUpdate, ReplayReceipt, IdempotencyConflict, ReceiptQuotaReached,
       DuplicateDigest, EmptyUpdate, InvalidUpdate, LogQuotaReached, Reject

\* While the repository is not called its tables stay.
LEMMA ServerIdleKeeps ==
    ASSUME IInv, ServerIdle
    PROVE  IInv' /\ Content' = Content /\ reply'.status = "none"
<1>1. reply' \in Replies
    BY DEF ServerIdle, Replies
<1>2. IInv'
    BY <1>1, UnchangedStep DEF ServerIdle
<1> QED
    BY <1>2 DEF ServerIdle, document, Content

-----------------------------------------------------------------------------
\* What Sound speaks of is as it was.
KeepsState(p, q) ==
    /\ q.phase = "running" /\ p.phase = "running"
    /\ q.doc = p.doc /\ q.writes = p.writes /\ q.queued = p.queued /\ q.pending = p.pending

LEMMA KeepsSound ==
    ASSUME NEW p, NEW q, KeepsState(p, q), NEW C, NEW L, NEW K, Sound(p, C, L, K)
    PROVE  Sound(q, C, L, K)
BY DEF KeepsState, Sound, Locals, Unsaved

\* Sound stays true while the sets it compares with grow.
LEMMA SoundMonotone ==
    ASSUME NEW p, NEW C, NEW L, NEW K, NEW D, NEW M, NEW J,
           C \subseteq D, L \subseteq M, K \subseteq J, Sound(p, C, L, K), p.queued \in Nat
    PROVE  Sound(p, D, M, J)
<1>1. CASE p.phase = "running"
    <2>1. Unsaved(p, D) \subseteq Unsaved(p, C) /\ IsFiniteSet(Unsaved(p, C))
        BY <1>1 DEF Unsaved, Sound
    <2>2. IsFiniteSet(Unsaved(p, D)) /\ Cardinality(Unsaved(p, D)) <= Cardinality(Unsaved(p, C))
        BY <2>1, FS_Subset
    <2>3. Cardinality(Unsaved(p, D)) \in Nat /\ Cardinality(Unsaved(p, C)) \in Nat
        BY <2>1, <2>2, FS_CardinalityType
    <2>4. Cardinality(Unsaved(p, D)) <= p.queued
        BY <1>1, <2>2, <2>3 DEF Sound
    <2> QED
        BY <1>1, <2>2, <2>4 DEF Sound
<1>2. CASE p.phase # "running"
    BY <1>2 DEF Sound
<1> QED
    BY <1>1, <1>2

\* Entries added behind the others that are no local writes.
LEMMA WriteBehind ==
    ASSUME NEW C, NEW L, NEW K, NEW F, NEW p \in TabOver(C, L, K, F), Sound(p, C, L, K),
           p.phase = "running",
           NEW w \in Write(C, L, F), w.kind # "local"
    PROVE  /\ [p EXCEPT !.writes = Append(@, w)] \in TabOver(C, L, K, F)
           /\ Sound([p EXCEPT !.writes = Append(@, w)], C, L, K)
<1> DEFINE q == [p EXCEPT !.writes = Append(@, w)]
<1>1. p.writes \in Seq(Write(C, L, F))
    BY DEF TabOver
<1>2. Append(p.writes, w) \in Seq(Write(C, L, F))
    BY <1>1
<1>3. q \in TabOver(C, L, K, F)
    <2> HIDE DEF Write, UpFrame, DownFrame
    <2> QED
        BY <1>2 DEF TabOver
<1>4. /\ q.doc = p.doc /\ q.phase = p.phase /\ q.queued = p.queued /\ q.pending = p.pending
      /\ q.writes = Append(p.writes, w)
    BY DEF TabOver
<1> HIDE DEF q
<1>5. Locals(q) = Locals(p) /\ \A i \in Locals(p) : q.writes[i] = p.writes[i]
    <2>1. /\ DOMAIN q.writes = 1 .. Len(p.writes) + 1 /\ DOMAIN p.writes = 1 .. Len(p.writes)
          /\ Len(p.writes) \in Nat
          /\ q.writes[Len(p.writes) + 1] = w
          /\ \A i \in 1 .. Len(p.writes) : q.writes[i] = p.writes[i]
        BY <1>1, <1>4
    <2> QED
        BY <2>1 DEF Locals
<1>6. Unsaved(q, C) = Unsaved(p, C)
    BY <1>4 DEF Unsaved
<1>7. Sound(q, C, L, K)
    BY <1>4, <1>5, <1>6 DEF Sound
<1> QED
    BY <1>3, <1>7 DEF q

\* Applying what the server sent: what is new goes to the log behind the rest.
LEMMA AppliedKeeps ==
    ASSUME NEW C, NEW L, NEW K, NEW F, NEW p \in TabOver(C, L, K, F), Sound(p, C, L, K),
           p.phase = "running",
           C \subseteq L, C \subseteq Op, NEW u \in SUBSET C
    PROVE  /\ Applied(p, u) \in TabOver(C, L, K, F)
           /\ Sound(Applied(p, u), C, L, K)
           /\ Applied(p, u).phase = "running" /\ Applied(p, u).doc = p.doc \cup u
<1> DEFINE fresh == Integrated(p.doc \cup u) \ Integrated(p.doc)
           q == [p EXCEPT !.doc = @ \cup u]
           w == [kind |-> "remote", ops |-> fresh]
<1>1. p.doc \in SUBSET Op
    BY DEF TabOver
<1>2. p.doc \ Integrated(p.doc) \subseteq L
    BY DEF Sound
<1>3. fresh \in SUBSET L
    BY <1>2 DEF Integrated
<1>4. (p.doc \cup u) \ Integrated(p.doc \cup u) \subseteq L
    BY <1>2 DEF Integrated
<1>5. q \in TabOver(C, L, K, F)
    <2>1. p.doc \cup u \in SUBSET Op
        BY <1>1
    <2> HIDE DEF Write, UpFrame, DownFrame
    <2> QED
        BY <2>1 DEF TabOver
<1>6. /\ q.doc = p.doc \cup u /\ q.phase = "running" /\ q.queued = p.queued
      /\ q.pending = p.pending /\ q.writes = p.writes
    BY DEF TabOver
<1>7. Sound(q, C, L, K)
    <2> HIDE DEF q
    <2>1. Locals(q) = Locals(p) /\ Unsaved(q, C) = Unsaved(p, C)
        BY <1>6 DEF Locals, Unsaved
    <2> QED
        BY <1>4, <1>6, <2>1 DEF Sound
<1>8. w \in Write(C, L, F) /\ w.kind # "local"
    BY <1>3 DEF Write
<1>9. Applied(p, u) = IF fresh = {} THEN q ELSE [q EXCEPT !.writes = Append(@, w)]
    <2> DEFINE doc == p.doc \cup u
               appended == Append(p.writes, w)
    <2>1. Applied(p, u) = [p EXCEPT !.doc = doc,
                                    !.writes = IF fresh = {} THEN p.writes ELSE appended]
        BY DEF Applied, TabOver
    <2>2. q = [p EXCEPT !.doc = doc]
        BY DEF TabOver
    <2>3. [q EXCEPT !.writes = Append(@, w)] = [q EXCEPT !.writes = appended]
        BY <1>6
    <2> HIDE DEF fresh, w, doc, appended, q
    <2>4. CASE fresh = {}
        <3>1. Applied(p, u) = [p EXCEPT !.doc = doc, !.writes = p.writes]
            BY <2>1, <2>4
        <3>2. [p EXCEPT !.doc = doc, !.writes = p.writes] = [p EXCEPT !.doc = doc]
            BY DEF TabOver
        <3> QED
            BY <2>2, <2>4, <3>1, <3>2
    <2>5. CASE fresh # {}
        <3>1. Applied(p, u) = [p EXCEPT !.doc = doc, !.writes = appended]
            BY <2>1, <2>5
        <3>2. [p EXCEPT !.doc = doc, !.writes = appended] = [[p EXCEPT !.doc = doc] EXCEPT !.writes = appended]
            BY DEF TabOver
        <3> QED
            BY <2>2, <2>3, <2>5, <3>1, <3>2
    <2> QED
        BY <2>4, <2>5
<1> HIDE DEF q, w, fresh
<1>10. /\ [q EXCEPT !.writes = Append(@, w)] \in TabOver(C, L, K, F)
       /\ Sound([q EXCEPT !.writes = Append(@, w)], C, L, K)
    BY <1>5, <1>6, <1>7, <1>8, WriteBehind
<1>11. [q EXCEPT !.writes = Append(@, w)].phase = "running" /\ [q EXCEPT !.writes = Append(@, w)].doc = q.doc
    BY <1>5, <1>6 DEF TabOver
<1> QED
    BY <1>5, <1>6, <1>7, <1>9, <1>10, <1>11

\* Pumping puts the oldest pending update on the wire and in flight.
LEMMA PumpedKeeps ==
    ASSUME NEW C, NEW L, NEW K, NEW F, NEW p \in TabOver(C, L, K, F), Sound(p, C, L, K),
           p.phase = "running", K \subseteq Op
    PROVE  Pumped(p) \in TabOver(C, L, K, F) /\ Sound(Pumped(p), C, L, K)
<1>1. CASE ~CanPump(p)
    BY <1>1 DEF Pumped
<1>2. CASE CanPump(p)
    <2> DEFINE o == Head(p.pending)
               up == Append(p.up, [type |-> "update", op |-> o])
               q == [p EXCEPT !.inFlight = o, !.up = up]
    <2>1. p.pending \in Seq(K \ Seed) /\ p.pending # <<>> /\ p.up \in Seq(UpFrame(K))
        BY <1>2 DEF CanPump, TabOver
    <2>2. o \in K \ Seed
        BY <2>1
    <2>3. up \in Seq(UpFrame(K))
        <3>1. [type |-> "update", op |-> o] \in UpFrame(K)
            BY <2>2 DEF UpFrame
        <3> QED
            BY <2>1, <3>1
    <2>4. Pumped(p) = q
        BY <1>2 DEF Pumped
    <2>5. o \in (Op \ Seed) \cup {NoOp}
        BY <2>2
    <2> HIDE DEF o, up
    <2>6. q \in TabOver(C, L, K, F)
        BY <2>3, <2>5 DEF TabOver
    <2>7. KeepsState(p, q)
        BY DEF KeepsState, TabOver
    <2> QED
        BY <2>4, <2>6, <2>7, KeepsSound
<1> QED
    BY <1>1, <1>2

\* Losing the socket empties both directions and resets the connection.
LEMMA DroppedKeeps ==
    ASSUME NEW C, NEW L, NEW K, NEW F, NEW p \in TabOver(C, L, K, F), Sound(p, C, L, K),
           p.phase = "running"
    PROVE  /\ Dropped(p) \in TabOver(C, L, K, F) /\ Sound(Dropped(p), C, L, K)
           /\ Failed(p) \in TabOver(C, L, K, F) /\ Sound(Failed(p), C, L, K)
<1>1. <<>> \in Seq(UpFrame(K)) /\ <<>> \in Seq(DownFrame(C))
    OBVIOUS
<1>2. ASSUME NEW q \in TabOver(C, L, K, F), Sound(q, C, L, K), q.phase = "running"
      PROVE  Dropped(q) \in TabOver(C, L, K, F) /\ Sound(Dropped(q), C, L, K)
    <2>1. Cut(q) \in TabOver(C, L, K, F) /\ KeepsState(q, Cut(q))
        BY <1>1, <1>2 DEF Cut, TabOver, KeepsState
    <2> DEFINE r == [Cut(q) EXCEPT !.socketReady = FALSE, !.syncComplete = FALSE,
                                   !.syncRequest = FALSE, !.inFlight = NoOp,
                                   !.connection = "offline"]
    <2>2. r \in TabOver(C, L, K, F) /\ KeepsState(q, r)
        BY <2>1 DEF TabOver, KeepsState
    <2>3. Dropped(q) = IF q.connection = "error" THEN Cut(q) ELSE r
        BY DEF Dropped
    <2> HIDE DEF r
    <2> QED
        BY <1>2, <2>1, <2>2, <2>3, KeepsSound
<1>3. /\ [p EXCEPT !.connection = "error"] \in TabOver(C, L, K, F)
      /\ KeepsState(p, [p EXCEPT !.connection = "error"])
    BY DEF TabOver, KeepsState
<1>4. [p EXCEPT !.connection = "error"].phase = "running"
    BY <1>3 DEF KeepsState
<1> QED
    BY <1>2, <1>3, <1>4, KeepsSound DEF Failed

\* The head of the write queue is done.
LEMMA TailKeeps ==
    ASSUME NEW C, NEW L, NEW K, NEW F, NEW p \in TabOver(C, L, K, F), Sound(p, C, L, K),
           p.phase = "running", p.writes # <<>>
    PROVE  /\ [p EXCEPT !.writes = Tail(@)] \in TabOver(C, L, K, F)
           /\ Sound([p EXCEPT !.writes = Tail(@)], C, L, K)
           /\ Head(p.writes) \in Write(C, L, F)
           /\ \A i \in Locals([p EXCEPT !.writes = Tail(@)]) :
                 [p EXCEPT !.writes = Tail(@)].writes[i] = p.writes[i + 1] /\ i + 1 \in Locals(p)
           /\ Head(p.writes) = p.writes[1] /\ 1 \in DOMAIN p.writes
<1> DEFINE q == [p EXCEPT !.writes = Tail(@)]
<1>1. p.writes \in Seq(Write(C, L, F))
    BY DEF TabOver
<1>2. /\ Tail(p.writes) \in Seq(Write(C, L, F)) /\ Head(p.writes) \in Write(C, L, F)
      /\ Head(p.writes) = p.writes[1] /\ 1 \in DOMAIN p.writes
      /\ DOMAIN Tail(p.writes) = 1 .. Len(p.writes) - 1 /\ DOMAIN p.writes = 1 .. Len(p.writes)
      /\ \A i \in 1 .. Len(p.writes) - 1 : Tail(p.writes)[i] = p.writes[i + 1]
      /\ Len(p.writes) \in Nat
    BY <1>1
<1>3. q \in TabOver(C, L, K, F)
    <2> HIDE DEF Write, UpFrame, DownFrame
    <2> QED
        BY <1>2 DEF TabOver
<1>4. /\ q.doc = p.doc /\ q.phase = p.phase /\ q.queued = p.queued /\ q.pending = p.pending
      /\ q.writes = Tail(p.writes)
    BY DEF TabOver
<1> HIDE DEF q
<1>5. \A i \in Locals(q) : q.writes[i] = p.writes[i + 1] /\ i + 1 \in Locals(p) /\ i \in Nat
    BY <1>2, <1>4 DEF Locals
<1>6. Unsaved(q, C) = Unsaved(p, C)
    BY <1>4 DEF Unsaved
<1>7. \A i \in Locals(q) : q.writes[i].op \in q.doc
    BY <1>4, <1>5 DEF Sound
<1>8. \A i, j \in Locals(q) : q.writes[i].op = q.writes[j].op => i = j
    <2> SUFFICES ASSUME NEW i \in Locals(q), NEW j \in Locals(q), q.writes[i].op = q.writes[j].op
                 PROVE  i = j
        OBVIOUS
    <2>1. i + 1 = j + 1
        BY <1>5 DEF Sound
    <2> QED
        BY <1>5, <2>1
<1>9. Sound(q, C, L, K)
    BY <1>4, <1>6, <1>7, <1>8 DEF Sound
<1> QED
    BY <1>2, <1>3, <1>5, <1>9 DEF q

\* A local update became durable: it is in the outbox, pending, and counted off.
LEMMA DurableLocalKeeps ==
    ASSUME NEW C, NEW L, NEW K, NEW F, NEW p \in TabOver(C, L, K, F), Sound(p, C, L, K),
           p.phase = "running", K \subseteq Op,
           NEW o \in K \ Seed, o \in p.doc, o \notin C \cup Range(p.pending)
    PROVE  DurableLocal(p, o) \in TabOver(C, L, K, F) /\ Sound(DurableLocal(p, o), C, L, K)
<1> DEFINE left == IF p.queued > 0 THEN p.queued - 1 ELSE 0
           pending == Append(p.pending, o)
           durability == IF left = 0 THEN "ready" ELSE "writing"
           q == [p EXCEPT !.queued = left, !.pending = pending, !.durability = durability]
<1>1. p.pending \in Seq(K \ Seed) /\ p.queued \in Nat
    BY DEF TabOver
<1>2. pending \in Seq(K \ Seed) /\ Range(pending) = Range(p.pending) \cup {o}
    BY <1>1, RangeOfAppend
<1>3. left \in Nat /\ durability \in {"ready", "writing", "at-risk"}
    BY <1>1
<1>4. DurableLocal(p, o) = Pumped(q)
    BY DEF DurableLocal
<1> HIDE DEF left, pending, durability
<1>5. q \in TabOver(C, L, K, F)
    BY <1>2, <1>3 DEF TabOver
<1>6. /\ q.doc = p.doc /\ q.phase = "running" /\ q.queued = left /\ q.pending = pending
      /\ q.writes = p.writes
    BY DEF TabOver
<1> HIDE DEF q
<1>7. Unsaved(q, C) = Unsaved(p, C) \ {o} /\ o \in Unsaved(p, C)
    BY <1>2, <1>6 DEF Unsaved
<1>8. IsFiniteSet(Unsaved(p, C)) /\ Cardinality(Unsaved(p, C)) <= p.queued
    BY DEF Sound
<1>9. /\ IsFiniteSet(Unsaved(q, C))
      /\ Cardinality(Unsaved(q, C)) = Cardinality(Unsaved(p, C)) - 1
    BY <1>7, <1>8, FS_RemoveElement
<1>10. Cardinality(Unsaved(q, C)) <= left
    <2>1. Cardinality(Unsaved(q, C)) \in Nat /\ Cardinality(Unsaved(p, C)) \in Nat
        BY <1>8, <1>9, FS_CardinalityType
    <2> QED
        BY <1>1, <1>8, <1>9, <2>1 DEF left
<1>11. Sound(q, C, L, K)
    <2>1. Locals(q) = Locals(p)
        BY <1>6 DEF Locals
    <2> QED
        BY <1>6, <1>9, <1>10, <2>1 DEF Sound
<1> QED
    BY <1>4, <1>5, <1>6, <1>11, PumpedKeeps

-----------------------------------------------------------------------------
\* What a relayed update does to a tab's socket.
Heard(p, o) == [p EXCEPT !.down = Append(@, [type |-> "remote", op |-> o])]

LEMMA HeardKeeps ==
    ASSUME NEW C, NEW L, NEW K, NEW F, NEW p \in TabOver(C, L, K, F), Sound(p, C, L, K),
           p.connected, NEW o \in C \ Seed
    PROVE  Heard(p, o) \in TabOver(C, L, K, F) /\ Sound(Heard(p, o), C, L, K)
<1>1. p.phase = "running"
    <2>1. ~Closed.connected /\ ~[Closed EXCEPT !.phase = "loaded", !.doc = p.doc].connected
        BY DEF Closed
    <2>2. p.phase \in {"closed", "loaded", "running"}
        BY DEF TabOver
    <2> QED
        BY <2>1, <2>2 DEF Sound
<1>2. [type |-> "remote", op |-> o] \in DownFrame(C) /\ p.down \in Seq(DownFrame(C))
    BY DEF DownFrame, TabOver
<1>3. Append(p.down, [type |-> "remote", op |-> o]) \in Seq(DownFrame(C))
    BY <1>2
<1>4. Heard(p, o) \in TabOver(C, L, K, F) /\ KeepsState(p, Heard(p, o))
    BY <1>1, <1>3 DEF Heard, TabOver, KeepsState
<1> QED
    BY <1>4, KeepsSound

\* The sets of the types, and what they are made of.
LEMMA SetsTyped ==
    ASSUME SyncInv, NEW t \in Tab
    PROVE  /\ DeviceOf[t] \in Device /\ disk[DeviceOf[t]] \in DiskState
           /\ Content \subseteq Op /\ Sent(DeviceOf[t]) \subseteq Op
           /\ Logged(DeviceOf[t]) \subseteq Op /\ Unwritten(t) \subseteq Op \ Seed
           /\ Content \subseteq Sent(DeviceOf[t]) /\ Content \subseteq Logged(DeviceOf[t])
           /\ Sent(DeviceOf[t]) \subseteq Known
           /\ tab[t] \in Here(t) /\ SoundHere(t)
           /\ tab[t].phase \in {"closed", "loaded", "running"}
<1>1. DeviceOf[t] \in Device /\ disk[DeviceOf[t]] \in DiskState
    BY TabAssumption DEF SyncInv
<1>2. disk[DeviceOf[t]].log \subseteq Op /\ Range(disk[DeviceOf[t]].outbox) \subseteq Op
    BY <1>1 DEF DiskState, Range
<1>3. Content \subseteq Op
    BY ContentType DEF SyncInv, IInv
<1>4. tab[t].phase \in {"closed", "loaded", "running"}
    BY DEF SyncInv, Here, TabOver
<1> QED
    BY <1>1, <1>2, <1>3, <1>4 DEF SyncInv, Sent, Logged, Known, Unwritten

\* A tab that at most hears of an update while the sets around it grow.
LEMMA BystanderKeeps ==
    ASSUME SyncInv, NEW p \in Tab, NEW o,
           \/ tab'[p] = tab[p]
           \/ tab'[p] = Heard(tab[p], o) /\ tab[p].connected /\ o \in Content' \ Seed,
           Content \subseteq Content', Sent(DeviceOf[p]) \subseteq Sent(DeviceOf[p])',
           Logged(DeviceOf[p]) \subseteq Logged(DeviceOf[p])',
           Unwritten(p) \subseteq Unwritten(p)'
    PROVE  tab'[p] \in Here(p)' /\ SoundHere(p)'
<1> DEFINE d == DeviceOf[p]
<1>1. tab[p] \in Here(p)'
    BY SetsTyped, TabMonotone DEF Here
<1>2. tab[p].queued \in Nat
    BY <1>1 DEF Here, TabOver
<1>3. Sound(tab[p], Content', Logged(d)', Sent(d)')
    BY <1>2, SetsTyped, SoundMonotone DEF SoundHere
<1>4. CASE tab'[p] = tab[p]
    BY <1>1, <1>3, <1>4 DEF SoundHere
<1>5. CASE tab'[p] = Heard(tab[p], o) /\ tab[p].connected /\ o \in Content' \ Seed
    BY <1>1, <1>3, <1>5, HeardKeeps DEF SoundHere, Here
<1> QED
    BY <1>4, <1>5

\* A step that is one tab's own and at most tells the others of an update.
LEMMA StepOf ==
    ASSUME SyncInv, IInv', NEW t \in Tab, NEW o,
           tab' = [p \in Tab |-> tab'[p]],
           tab'[t] \in Here(t)', SoundHere(t)',
           \A p \in Tab \ {t} :
               \/ tab'[p] = tab[p]
               \/ tab'[p] = Heard(tab[p], o) /\ tab[p].connected /\ o \in Content' \ Seed,
           Content \subseteq Content',
           disk' \in [Device -> DiskState],
           \A d \in Device : /\ Sent(d) \subseteq Sent(d)' /\ disk[d].log \subseteq disk'[d].log
                             /\ disk'[d].log \subseteq Sent(d)',
           late' \subseteq [tab : Tab, op : Op \ Seed],
           \A f \in late' : f \in late \/ f.op \in Sent(DeviceOf[f.tab])',
           issued \subseteq issued', issued' \subseteq Op \ Seed,
           Known' \subseteq Known \cup {x \in issued' : Author[x] = t}
    PROVE  SyncInv'
<1>1. ASSUME NEW p \in Tab
      PROVE  tab'[p] \in Here(p)' /\ SoundHere(p)'
    <2>1. CASE p = t
        BY <2>1
    <2>2. CASE p # t
        <3> DEFINE d == DeviceOf[p]
        <3>1. /\ d \in Device /\ Sent(d) \subseteq Sent(d)' /\ Logged(d) \subseteq Logged(d)'
            BY SetsTyped DEF Logged
        <3>2. Unwritten(p) \subseteq Unwritten(p)'
            BY <2>2 DEF Unwritten
        <3> QED
            BY <2>2, <3>1, <3>2, BystanderKeeps
    <2> QED
        BY <2>1, <2>2
<1>2. ASSUME NEW p \in Tab
      PROVE  Here(p)' \subseteq TabOver(Op, Op, Op, Op)
    <2> DEFINE d == DeviceOf[p]
    <2>1. d \in Device
        BY SetsTyped
    <2>2. Content' \subseteq Op
        BY UpdateAssumption DEF IInv, TypeOK, Content
    <2>3. disk'[d].log \subseteq Op /\ Range(disk'[d].outbox) \subseteq Op
        BY <2>1 DEF DiskState, Range
    <2>4. Sent(d)' \subseteq Op /\ Logged(d)' \subseteq Op /\ Unwritten(p)' \subseteq Op
        BY <2>2, <2>3 DEF Sent, Logged, Unwritten
    <2> QED
        BY <2>2, <2>4, TabMonotone DEF Here
<1>3. tab' \in [Tab -> TabOver(Op, Op, Op, Op)]
    BY <1>1, <1>2
<1>4. \A f \in late' : f.op \in Sent(DeviceOf[f.tab])'
    <2> SUFFICES ASSUME NEW f \in late', f \in late
                 PROVE  f.op \in Sent(DeviceOf[f.tab])'
        OBVIOUS
    <2>1. f.op \in Sent(DeviceOf[f.tab]) /\ f.tab \in Tab
        BY DEF SyncInv
    <2>2. DeviceOf[f.tab] \in Device
        BY <2>1, TabAssumption
    <2> QED
        BY <2>1, <2>2
<1>5. Known' \subseteq Seed \cup issued'
    BY DEF SyncInv
<1> QED
    BY <1>1, <1>3, <1>4, <1>5 DEF SyncInv

\* A step of one tab that leaves the server and the disk alone.
LEMMA LocalStep ==
    ASSUME SyncInv, ServerIdle, NEW t \in Tab, NEW q \in Here(t),
           Sound(q, Content, Logged(DeviceOf[t]), Sent(DeviceOf[t])),
           Becomes(t, q),
           UNCHANGED <<disk, issued>>,
           late' \subseteq [tab : Tab, op : Op \ Seed],
           \A f \in late' : f \in late \/ f.op \in Sent(DeviceOf[f.tab])
    PROVE  SyncInv'
<1>1. IInv' /\ Content' = Content
    BY ServerIdleKeeps DEF SyncInv
<1>2. /\ \A d \in Device : Sent(d)' = Sent(d) /\ Logged(d)' = Logged(d)
      /\ Known' = Known /\ \A p \in Tab : Unwritten(p)' = Unwritten(p)
    BY <1>1 DEF Sent, Logged, Known, Unwritten
<1>3. DeviceOf[t] \in Device /\ \A f \in late' : DeviceOf[f.tab] \in Device
    BY TabAssumption
<1>4. tab'[t] = q /\ tab' = [p \in Tab |-> tab'[p]] /\ \A p \in Tab \ {t} : tab'[p] = tab[p]
    BY DEF SyncInv, Becomes
<1>5. tab'[t] \in Here(t)' /\ SoundHere(t)'
    BY <1>1, <1>2, <1>3, <1>4 DEF Here, SoundHere
<1>6. \A f \in late' : f \in late \/ f.op \in Sent(DeviceOf[f.tab])'
    BY <1>2, <1>3
<1>7. /\ disk' \in [Device -> DiskState] /\ issued \subseteq issued' /\ issued' \subseteq Op \ Seed
      /\ \A d \in Device : /\ Sent(d) \subseteq Sent(d)' /\ disk[d].log \subseteq disk'[d].log
                           /\ disk'[d].log \subseteq Sent(d)'
    BY <1>2 DEF SyncInv
<1>8. Known' \subseteq Known \cup {x \in issued' : Author[x] = t}
    BY <1>2
<1> QED
    BY <1>1, <1>4, <1>5, <1>6, <1>7, <1>8, StepOf

\* Only a running tab has anything under way.
LEMMA RunningTab ==
    ASSUME SyncInv, NEW t \in Tab,
           \/ tab[t].writes # <<>> \/ tab[t].connected \/ tab[t].documentReady
           \/ tab[t].down # <<>> \/ tab[t].up # <<>> \/ tab[t].inFlight # NoOp
    PROVE  tab[t].phase = "running"
<1> DEFINE p == tab[t]
           loaded == [Closed EXCEPT !.phase = "loaded", !.doc = p.doc]
<1>1. /\ loaded.writes = <<>> /\ ~loaded.connected /\ ~loaded.documentReady
      /\ loaded.down = <<>> /\ loaded.up = <<>> /\ loaded.inFlight = NoOp
    BY DEF Closed
<1>2. /\ Closed.writes = <<>> /\ ~Closed.connected /\ ~Closed.documentReady
      /\ Closed.down = <<>> /\ Closed.up = <<>> /\ Closed.inFlight = NoOp
    BY DEF Closed
<1>3. p.phase = "closed" => p = Closed
    BY SetsTyped DEF SoundHere, Sound
<1>4. p.phase = "loaded" => p = loaded
    BY SetsTyped DEF SoundHere, Sound
<1>5. p.phase \in {"closed", "loaded", "running"}
    BY SetsTyped
<1> HIDE DEF p, loaded
<1>6. p # Closed /\ p # loaded
    BY <1>1, <1>2 DEF p
<1> QED
    BY <1>3, <1>4, <1>5, <1>6 DEF p

\* Frames a lost socket leaves behind speak of what the outbox or the server has.
LEMMA LeftBehind ==
    ASSUME SyncInv, NEW t \in Tab, LeaveBehind(t)
    PROVE  /\ late' \subseteq [tab : Tab, op : Op \ Seed]
           /\ \A f \in late' : f \in late \/ f.op \in Sent(DeviceOf[f.tab])
<1>1. tab[t].up \in Seq(UpFrame(Sent(DeviceOf[t]))) /\ Sent(DeviceOf[t]) \subseteq Op
    BY SetsTyped DEF Here, TabOver
<1>2. PICK read \in 0 .. Len(tab[t].up) :
         late' = late \cup {[tab |-> t, op |-> tab[t].up[i].op] :
                               i \in {j \in 1 .. read : tab[t].up[j].type = "update"}}
    BY DEF LeaveBehind
<1>3. \A i \in 1 .. read : tab[t].up[i] \in UpFrame(Sent(DeviceOf[t]))
    BY <1>1
<1>4. \A i \in 1 .. read : tab[t].up[i].type = "update" => tab[t].up[i].op \in Sent(DeviceOf[t]) \ Seed
    BY <1>3 DEF UpFrame
<1>5. ASSUME NEW f \in late', f \notin late
      PROVE  f.tab = t /\ f.op \in Sent(DeviceOf[t]) \ Seed /\ f = [tab |-> t, op |-> f.op]
    <2>1. PICK i \in 1 .. read : tab[t].up[i].type = "update" /\ f = [tab |-> t, op |-> tab[t].up[i].op]
        BY <1>2, <1>5
    <2> QED
        BY <1>4, <2>1
<1>6. late' \subseteq [tab : Tab, op : Op \ Seed]
    <2> SUFFICES ASSUME NEW f \in late' PROVE f \in [tab : Tab, op : Op \ Seed]
        OBVIOUS
    <2>1. CASE f \in late
        BY <2>1 DEF SyncInv
    <2>2. CASE f \notin late
        BY <1>1, <1>5, <2>2
    <2> QED
        BY <2>1, <2>2
<1> QED
    BY <1>5, <1>6

-----------------------------------------------------------------------------
\* Opening, starting and closing a tab.
LEMMA SyncInitInv == SyncInit => SyncInv
<1> SUFFICES ASSUME SyncInit PROVE SyncInv
    OBVIOUS
<1>1. IInv
    BY InitIInv DEF SyncInit
<1>2. \A d \in Device : disk[d] = [log |-> {}, outbox |-> <<>>]
    BY DEF SyncInit
<1>3. disk \in [Device -> DiskState]
    <2>1. [log |-> {}, outbox |-> <<>>] \in DiskState
        BY DEF DiskState
    <2> QED
        BY <2>1 DEF SyncInit
<1>4. \A t \in Tab : tab[t] \in Here(t) /\ SoundHere(t)
    BY ClosedTyped DEF SyncInit, Here, SoundHere
<1>5. tab \in [Tab -> TabOver(Op, Op, Op, Op)]
    BY ClosedTyped DEF SyncInit
<1>6. Content = Seed
    <2>1. {log[n] : n \in DOMAIN log} = {}
        BY DEF SyncInit, Init
    <2> QED
        BY <2>1 DEF SyncInit, Init, Content
<1>7. \A d \in Device : Range(disk[d].outbox) = {} /\ disk[d].log = {}
    BY <1>2 DEF Range
<1>8. Known \subseteq Seed
    BY <1>6, <1>7 DEF Known
<1> QED
    BY <1>1, <1>3, <1>4, <1>5, <1>7, <1>8 DEF SyncInit, SyncInv

LEMMA OpenStep == ASSUME SyncInv, NEW t \in Tab, Open(t) PROVE SyncInv'
<1> DEFINE d == DeviceOf[t]
           q == [Closed EXCEPT !.phase = "loaded", !.doc = disk[d].log]
<1>1. d \in Device /\ disk[d].log \in SUBSET Op /\ disk[d].log \subseteq Sent(d)
    BY SetsTyped DEF SyncInv, DiskState
<1>2. q \in Here(t)
    BY <1>1, ClosedTyped DEF Here, TabOver
<1>3. q.doc = disk[d].log /\ q.writes = <<>> /\ q.phase = "loaded"
    BY DEF Closed
<1>4. Sound(q, Content, Logged(d), Sent(d))
    <2>1. q = [Closed EXCEPT !.phase = "loaded", !.doc = q.doc]
        BY <1>3
    <2> HIDE DEF q
    <2>2. Locals(q) = {}
        BY <1>3 DEF Locals
    <2> QED
        BY <1>1, <1>3, <2>1, <2>2 DEF Sound, Logged
<1>5. Becomes(t, q) /\ ServerIdle /\ UNCHANGED <<disk, late, issued>>
    BY DEF Open
<1> HIDE DEF q
<1> QED
    BY <1>2, <1>4, <1>5, LocalStep DEF SyncInv

LEMMA CloseStep == ASSUME SyncInv, NEW t \in Tab, Close(t) PROVE SyncInv'
<1>1. Closed \in Here(t) /\ Sound(Closed, Content, Logged(DeviceOf[t]), Sent(DeviceOf[t]))
    BY ClosedTyped DEF Here
<1>2. Becomes(t, Closed) /\ ServerIdle /\ UNCHANGED <<disk, issued>> /\ LeaveBehind(t)
    BY DEF Close
<1> QED
    BY <1>1, <1>2, LeftBehind, LocalStep

LEMMA StartStep == ASSUME SyncInv, NEW t \in Tab, Start(t) PROVE SyncInv'
<1> DEFINE d == DeviceOf[t]
           p == tab[t]
           local == Integrated(p.doc) # {}
           ready == local /\ Valid(p.doc)
           connection == IF local /\ ~Valid(p.doc) THEN "error" ELSE "offline"
           durability == IF local /\ ~Valid(p.doc) THEN "at-risk" ELSE p.durability
           q == [p EXCEPT !.phase = "running", !.pending = disk[d].outbox,
                          !.documentReady = ready, !.connection = connection,
                          !.durability = durability]
<1>1. Becomes(t, q) /\ ServerIdle /\ UNCHANGED <<disk, late, issued>> /\ p.phase = "loaded"
    BY DEF Start
<1>2. p \in Here(t) /\ Sound(p, Content, Logged(d), Sent(d)) /\ disk[d] \in DiskState
    BY SetsTyped DEF SoundHere
<1>3. disk[d].outbox \in Seq(Sent(d) \ Seed)
    <2>1. disk[d].outbox \in Seq(Op \ Seed)
        BY <1>2 DEF DiskState
    <2>2. \A i \in 1 .. Len(disk[d].outbox) : disk[d].outbox[i] \in Sent(d) \ Seed
        BY <2>1 DEF Sent, Range
    <2> QED
        BY <2>1, <2>2
<1>4. /\ ready \in BOOLEAN /\ connection \in {"offline", "syncing", "online", "error"}
      /\ durability \in {"ready", "writing", "at-risk"}
    BY <1>2 DEF Here, TabOver
<1> HIDE DEF local, ready, connection, durability
<1>5. q \in Here(t)
    BY <1>2, <1>3, <1>4 DEF Here, TabOver
<1>6. q.doc = p.doc /\ q.writes = p.writes /\ q.phase = "running" /\ q.pending = disk[d].outbox
      /\ q.queued \in Nat
    BY <1>2 DEF Here, TabOver
<1> HIDE DEF q
<1>7. Unsaved(q, Content) = {}
    <2>1. p.doc \subseteq Sent(d)
        BY <1>1, <1>2 DEF Sound
    <2> QED
        BY <1>6, <2>1 DEF Sent, Unsaved
<1>8. IsFiniteSet(Unsaved(q, Content)) /\ Cardinality(Unsaved(q, Content)) <= q.queued
    BY <1>6, <1>7, FS_EmptySet
<1>9. Sound(q, Content, Logged(d), Sent(d))
    BY <1>2, <1>6, <1>8 DEF Sound, Locals
<1> QED
    BY <1>1, <1>5, <1>9, LocalStep DEF SyncInv

-----------------------------------------------------------------------------
\* Typing: the operation is new, so it is nowhere but in this tab.
LEMMA EditStep == ASSUME SyncInv, NEW t \in Tab, NEW o \in Op \ Seed, Edit(t, o) PROVE SyncInv'
<1> DEFINE p == tab[t]
           d == DeviceOf[t]
           C == Content
           L == Logged(d)
           K == Sent(d)
           F == Unwritten(t) \cup {o}
           w == [kind |-> "local", op |-> o]
           writes == Append(p.writes, w)
           q == [p EXCEPT !.doc = @ \cup {o}, !.writes = writes, !.queued = @ + 1,
                          !.durability = "writing"]
<1>1. /\ Becomes(t, q) /\ ServerIdle /\ UNCHANGED <<disk, late, spent>>
      /\ issued' = issued \cup {o} /\ o \notin issued /\ Author[o] = t
      /\ Deps[o] \subseteq Integrated(p.doc) /\ p.documentReady
    BY DEF Edit
<1>2. p \in TabOver(C, L, K, F) /\ Sound(p, C, L, K) /\ p.phase = "running"
    BY <1>1, SetsTyped, RunningTab, TabMonotone DEF Here, SoundHere
<1>3. IInv' /\ Content' = Content
    BY <1>1, ServerIdleKeeps DEF SyncInv
<1>4. /\ \A e \in Device : Sent(e)' = Sent(e) /\ Logged(e)' = Logged(e)
      /\ Known' = Known /\ d \in Device
    BY <1>1, <1>3, SetsTyped DEF Sent, Logged, Known
<1>5. o \notin Known /\ o \notin Seed /\ C \cup K \subseteq Known
    BY <1>1, SetsTyped DEF SyncInv
<1>6. Unwritten(t)' = F
    BY <1>1, <1>4, <1>5 DEF Unwritten
<1>7. /\ p.writes \in Seq(Write(C, L, F)) /\ p.doc \in SUBSET Op /\ p.queued \in Nat
      /\ p.pending \in Seq(K \ Seed)
    BY <1>2 DEF TabOver
<1>8. writes \in Seq(Write(C, L, F))
    <2>1. w \in Write(C, L, F)
        BY DEF Write
    <2> QED
        BY <1>7, <2>1
<1>9. /\ DOMAIN writes = 1 .. Len(p.writes) + 1 /\ DOMAIN p.writes = 1 .. Len(p.writes)
      /\ Len(p.writes) \in Nat /\ writes[Len(p.writes) + 1] = w
      /\ \A i \in 1 .. Len(p.writes) : writes[i] = p.writes[i]
    BY <1>7
<1>10. \A i \in Locals(p) : p.writes[i].op \in issued
    <2> SUFFICES ASSUME NEW i \in Locals(p) PROVE p.writes[i].op \in issued
        OBVIOUS
    <2>1. p \in TabOver(C, L, K, Unwritten(t))
        BY SetsTyped DEF Here
    <2>2. p.writes \in Seq(Write(C, L, Unwritten(t)))
        BY <2>1 DEF TabOver
    <2>3. p.writes[i] \in Write(C, L, Unwritten(t)) /\ p.writes[i].kind = "local"
        BY <2>2 DEF Locals
    <2> QED
        BY <2>3 DEF Write, Unwritten
<1> HIDE DEF w, writes, C, L, K, F
<1>11. q \in TabOver(C, L, K, F)
    <2>1. p.doc \cup {o} \in SUBSET Op /\ p.queued + 1 \in Nat
        BY <1>7
    <2> QED
        BY <1>2, <1>8, <2>1 DEF TabOver
<1>12. /\ q.doc = p.doc \cup {o} /\ q.writes = writes /\ q.queued = p.queued + 1
       /\ q.pending = p.pending /\ q.phase = "running"
    BY <1>2 DEF TabOver
<1> HIDE DEF q
<1>13. Sound(q, C, L, K)
    <2>1. q.doc \ Integrated(q.doc) \subseteq L
        <3>1. p.doc \ Integrated(p.doc) \subseteq L
            BY <1>2 DEF Sound
        <3> QED
            BY <1>1, <1>12, <3>1 DEF Integrated
    <2>2. Locals(q) = Locals(p) \cup {Len(p.writes) + 1} /\ Len(p.writes) + 1 \notin Locals(p)
        BY <1>9, <1>12 DEF Locals, w
    <2>3. \A i \in Locals(p) : q.writes[i] = p.writes[i]
        BY <1>9, <1>12 DEF Locals
    <2>4. q.writes[Len(p.writes) + 1].op = o
        BY <1>9, <1>12 DEF w
    <2>5. \A i \in Locals(q) : q.writes[i].op \in q.doc
        BY <1>2, <1>12, <2>2, <2>3, <2>4 DEF Sound
    <2>6. \A i \in Locals(p) : p.writes[i].op # o
        BY <1>1, <1>10
    <2>7. \A i, j \in Locals(q) : q.writes[i].op = q.writes[j].op => i = j
        BY <1>2, <2>2, <2>3, <2>4, <2>6 DEF Sound
    <2>8. IsFiniteSet(Unsaved(q, C)) /\ Cardinality(Unsaved(q, C)) <= q.queued
        <3>1. IsFiniteSet(Unsaved(p, C)) /\ Cardinality(Unsaved(p, C)) <= p.queued
            BY <1>2 DEF Sound
        <3>2. o \notin C \cup Range(p.pending)
            BY <1>5, <1>7 DEF Range
        <3>3. Unsaved(q, C) = Unsaved(p, C) \cup {o}
            BY <1>12, <3>2 DEF Unsaved
        <3>4. /\ IsFiniteSet(Unsaved(p, C) \cup {o})
              /\ Cardinality(Unsaved(p, C) \cup {o})
                    = IF o \in Unsaved(p, C) THEN Cardinality(Unsaved(p, C))
                      ELSE Cardinality(Unsaved(p, C)) + 1
            BY <3>1, FS_AddElement
        <3>5. Cardinality(Unsaved(p, C)) \in Nat
            BY <3>1, FS_CardinalityType
        <3> QED
            BY <1>7, <1>12, <3>1, <3>3, <3>4, <3>5
    <2> QED
        BY <1>12, <2>1, <2>5, <2>7, <2>8 DEF Sound
<1>14. tab'[t] = q /\ tab' = [r \in Tab |-> tab'[r]] /\ \A r \in Tab \ {t} : tab'[r] = tab[r]
    BY <1>1 DEF Becomes, SyncInv
<1>15. tab'[t] \in Here(t)' /\ SoundHere(t)'
    <2>1. Content' = C /\ Logged(d)' = L /\ Sent(d)' = K /\ Unwritten(t)' = F
        BY <1>3, <1>4, <1>6 DEF C, L, K
    <2> QED
        BY <1>11, <1>13, <1>14, <2>1 DEF Here, SoundHere
<1>16. /\ issued \subseteq issued' /\ issued' \subseteq Op \ Seed
       /\ disk' \in [Device -> DiskState] /\ late' \subseteq [tab : Tab, op : Op \ Seed]
       /\ \A e \in Device : /\ Sent(e) \subseteq Sent(e)' /\ disk[e].log \subseteq disk'[e].log
                            /\ disk'[e].log \subseteq Sent(e)'
       /\ \A f \in late' : f \in late
    BY <1>1, <1>4 DEF SyncInv
<1> QED
    BY <1>3, <1>4, <1>14, <1>15, <1>16, StepOf

-----------------------------------------------------------------------------
\* What a tab and its device are when the head of its write queue is done.
LEMMA HeadWrite ==
    ASSUME SyncInv, NEW t \in Tab, tab[t].writes # <<>>
    PROVE  /\ tab[t].phase = "running"
           /\ Rest(t) \in Here(t)
           /\ Sound(Rest(t), Content, Logged(DeviceOf[t]), Sent(DeviceOf[t]))
           /\ NextWrite(t) \in Write(Content, Logged(DeviceOf[t]), Unwritten(t))
           /\ Rest(t).doc = tab[t].doc /\ Rest(t).pending = tab[t].pending
           /\ Rest(t).phase = "running" /\ Rest(t).writes = Tail(tab[t].writes)
<1>1. tab[t].phase = "running"
    BY RunningTab
<1>2. tab[t] \in Here(t) /\ SoundHere(t)
    BY SetsTyped
<1>3. /\ Rest(t) \in Here(t)
      /\ Sound(Rest(t), Content, Logged(DeviceOf[t]), Sent(DeviceOf[t]))
      /\ NextWrite(t) \in Write(Content, Logged(DeviceOf[t]), Unwritten(t))
    BY <1>1, <1>2, TailKeeps DEF Here, SoundHere, Rest, NextWrite
<1>4. /\ Rest(t).doc = tab[t].doc /\ Rest(t).pending = tab[t].pending
      /\ Rest(t).phase = tab[t].phase /\ Rest(t).writes = Tail(tab[t].writes)
    BY <1>2 DEF Here, TabOver, Rest
<1> QED
    BY <1>1, <1>3, <1>4

LEMMA WriteFailsStep == ASSUME SyncInv, NEW t \in Tab, WriteFails(t) PROVE SyncInv'
<1> DEFINE q == [Rest(t) EXCEPT !.writeFailure = TRUE, !.durability = "at-risk"]
<1>1. tab[t].writes # <<>> /\ Becomes(t, q) /\ ServerIdle /\ UNCHANGED <<disk, late, issued>>
    BY DEF WriteFails, Awaiting
<1>2. q \in Here(t) /\ KeepsState(Rest(t), q)
    BY <1>1, HeadWrite DEF Here, TabOver, KeepsState
<1>3. Sound(q, Content, Logged(DeviceOf[t]), Sent(DeviceOf[t]))
    BY <1>1, <1>2, HeadWrite, KeepsSound
<1> HIDE DEF q
<1> QED
    BY <1>1, <1>2, <1>3, LocalStep DEF SyncInv

\* Whether or not the compaction behind a write fails.
LEMMA CompactedKeeps ==
    ASSUME NEW t \in Tab, NEW p, Compacted(t, p), NEW C, NEW L, NEW K, NEW F,
           p \in TabOver(C, L, K, F), Sound(p, C, L, K), p.phase = "running"
    PROVE  \E q \in TabOver(C, L, K, F) : Becomes(t, q) /\ Sound(q, C, L, K)
<1> DEFINE q == [p EXCEPT !.writeFailure = TRUE, !.durability = "at-risk"]
<1>1. q \in TabOver(C, L, K, F) /\ KeepsState(p, q)
    BY DEF TabOver, KeepsState
<1>2. Sound(q, C, L, K)
    BY <1>1, KeepsSound
<1>3. Becomes(t, p) \/ Becomes(t, q)
    BY DEF Compacted
<1> HIDE DEF q
<1> QED
    BY <1>1, <1>2, <1>3

LEMMA StoreRemoteStep == ASSUME SyncInv, NEW t \in Tab, StoreRemote(t) PROVE SyncInv'
<1> DEFINE d == DeviceOf[t]
           ops == NextWrite(t).ops
<1>1. /\ tab[t].writes # <<>> /\ NextWrite(t).kind = "remote"
      /\ disk' = [disk EXCEPT ![d].log = @ \cup ops]
      /\ Compacted(t, Rest(t)) /\ ServerIdle /\ UNCHANGED <<late, issued>>
    BY DEF StoreRemote, Awaiting
<1>2. ops \subseteq Logged(d)
    BY <1>1, HeadWrite DEF Write
<1>3. IInv' /\ Content' = Content
    BY <1>1, ServerIdleKeeps DEF SyncInv
<1>4. d \in Device /\ disk[d] \in DiskState /\ disk \in [Device -> DiskState] /\ Logged(d) \subseteq Op
    BY SetsTyped DEF SyncInv
<1>5. /\ disk'[d].log = disk[d].log \cup ops /\ disk'[d].outbox = disk[d].outbox
      /\ \A e \in Device \ {d} : disk'[e] = disk[e]
    BY <1>1, <1>4 DEF DiskState
<1>6. disk' \in [Device -> DiskState]
    <2>1. disk[d].log \cup ops \in SUBSET Op
        BY <1>2, <1>4 DEF DiskState
    <2> HIDE DEF ops
    <2> QED
        BY <1>1, <1>4, <2>1 DEF DiskState
<1>7. /\ \A e \in Device : Sent(e)' = Sent(e) /\ Logged(e) \subseteq Logged(e)'
      /\ Known' = Known /\ Unwritten(t)' = Unwritten(t)
    <2>1. \A e \in Device : disk'[e].outbox = disk[e].outbox /\ disk[e].log \subseteq disk'[e].log
        BY <1>5
    <2> QED
        BY <1>1, <1>3, <2>1 DEF Sent, Logged, Known, Unwritten
<1>8. \A e \in Device : disk[e].log \subseteq disk'[e].log /\ disk'[e].log \subseteq Sent(e)'
    <2>1. Logged(d) \subseteq Sent(d)
        BY <1>4 DEF SyncInv, Logged, Sent
    <2> QED
        BY <1>2, <1>5, <1>7, <2>1 DEF SyncInv
<1>9. PICK q \in Here(t) : Becomes(t, q) /\ Sound(q, Content, Logged(d), Sent(d))
    BY <1>1, HeadWrite, CompactedKeeps DEF Here
<1>10. tab'[t] = q /\ tab' = [r \in Tab |-> tab'[r]] /\ \A r \in Tab \ {t} : tab'[r] = tab[r]
    BY <1>9 DEF Becomes, SyncInv
<1>11. tab'[t] \in Here(t)' /\ SoundHere(t)'
    <2>1. q \in Here(t)'
        BY <1>3, <1>4, <1>7, TabMonotone DEF Here
    <2>2. q.queued \in Nat
        BY DEF Here, TabOver
    <2>3. Sound(q, Content', Logged(d)', Sent(d)')
        BY <1>3, <1>4, <1>7, <1>9, <2>2, SoundMonotone
    <2> QED
        BY <1>10, <2>1, <2>3 DEF SoundHere
<1>12. /\ issued \subseteq issued' /\ issued' \subseteq Op \ Seed
       /\ late' \subseteq [tab : Tab, op : Op \ Seed] /\ \A f \in late' : f \in late
    BY <1>1 DEF SyncInv
<1> QED
    BY <1>3, <1>6, <1>7, <1>8, <1>10, <1>11, <1>12, StepOf

\* A local update is written: from here on the outbox vouches for it.
LEMMA StoreLocalStep == ASSUME SyncInv, NEW t \in Tab, StoreLocal(t) PROVE SyncInv'
<1> DEFINE d == DeviceOf[t]
           o == NextWrite(t).op
           p == Rest(t)
           C == Content
           L == Logged(d) \cup {o}
           K == Sent(d) \cup {o}
           F == Unwritten(t) \ {o}
           row == [log |-> disk[d].log \cup {o}, outbox |-> Append(disk[d].outbox, o)]
<1>1. /\ tab[t].writes # <<>> /\ NextWrite(t).kind = "local"
      /\ disk' = [disk EXCEPT ![d] = row]
      /\ Compacted(t, DurableLocal(p, o)) /\ ServerIdle /\ UNCHANGED <<late, issued>>
    BY DEF StoreLocal, Awaiting
<1>2. o \in Unwritten(t)
    BY <1>1, HeadWrite DEF Write
<1>3. /\ o \in issued /\ o \notin Known /\ Author[o] = t /\ o \in Op \ Seed
    BY <1>2, SetsTyped DEF Unwritten
<1>4. IInv' /\ Content' = C
    BY <1>1, ServerIdleKeeps DEF SyncInv
<1>5. /\ d \in Device /\ disk[d] \in DiskState /\ disk \in [Device -> DiskState]
      /\ C \cup Sent(d) \subseteq Known /\ L \cup K \subseteq Op
    BY <1>3, SetsTyped DEF SyncInv
<1>6. disk[d].outbox \in Seq(Op \ Seed) /\ disk[d].log \in SUBSET Op
    BY <1>5 DEF DiskState
<1>7. /\ Append(disk[d].outbox, o) \in Seq(Op \ Seed)
      /\ Range(Append(disk[d].outbox, o)) = Range(disk[d].outbox) \cup {o}
    BY <1>3, <1>6, RangeOfAppend
<1>8. row \in DiskState
    BY <1>3, <1>6, <1>7 DEF DiskState
<1>9. /\ disk'[d] = row /\ \A e \in Device \ {d} : disk'[e] = disk[e]
      /\ disk' \in [Device -> DiskState]
    BY <1>1, <1>5, <1>8
<1>10. /\ row.log = disk[d].log \cup {o} /\ Range(row.outbox) = Range(disk[d].outbox) \cup {o}
    BY <1>7
<1> HIDE DEF row
<1>11. /\ Sent(d)' = K /\ Logged(d)' = L
       /\ \A e \in Device \ {d} : Sent(e)' = Sent(e) /\ Logged(e)' = Logged(e)
    BY <1>4, <1>9, <1>10 DEF Sent, Logged
<1>12. Known' = Known \cup {o}
    <2>1. \A x : x \in Known' <=> x \in Content' \/ \E e \in Device : x \in Range(disk'[e].outbox)
        BY DEF Known
    <2>2. \A x : x \in Known <=> x \in Content \/ \E e \in Device : x \in Range(disk[e].outbox)
        BY DEF Known
    <2>3. \A x : (\E e \in Device : x \in Range(disk'[e].outbox))
                    <=> x = o \/ \E e \in Device : x \in Range(disk[e].outbox)
        BY <1>5, <1>9, <1>10
    <2> QED
        BY <1>4, <2>1, <2>2, <2>3
<1>13. Unwritten(t)' = F
    BY <1>1, <1>12 DEF Unwritten
<1>14. /\ p \in Here(t) /\ Sound(p, C, Logged(d), Sent(d)) /\ p.phase = "running"
       /\ p.doc = tab[t].doc /\ p.pending = tab[t].pending /\ p.writes = Tail(tab[t].writes)
    BY <1>1, HeadWrite
<1>15. p \in TabOver(C, L, K, F)
    <2>1. /\ tab[t] \in TabOver(C, Logged(d), Sent(d), Unwritten(t)) /\ SoundHere(t)
          /\ tab[t].writes \in Seq(Write(C, Logged(d), Unwritten(t)))
        BY SetsTyped DEF Here, TabOver
    <2> DEFINE W == Write(C, Logged(d), Unwritten(t))
               s == tab[t].writes
    <2>2. /\ Tail(s) \in Seq(W)
          /\ Len(Tail(s)) = Len(s) - 1
          /\ \A i \in 1 .. Len(s) - 1 : Tail(s)[i] = s[i + 1]
          /\ NextWrite(t) = s[1] /\ 1 \in DOMAIN s
          /\ DOMAIN s = 1 .. Len(s) /\ Len(s) \in Nat
        <3>1. s \in Seq(W) /\ s # <<>> /\ NextWrite(t) = Head(s)
            BY <1>1, <2>1 DEF NextWrite
        <3> HIDE DEF s, W
        <3> QED
            BY <3>1, TailOf
    <2>3. ASSUME NEW i \in 1 .. Len(tab[t].writes) - 1
          PROVE  tab[t].writes[i + 1] \in Write(C, L, F)
        <3>1. i + 1 \in DOMAIN tab[t].writes /\ i + 1 # 1
            BY <2>2
        <3>2. tab[t].writes[i + 1] \in Write(C, Logged(d), Unwritten(t))
            BY <2>1, <3>1
        <3>3. CASE tab[t].writes[i + 1].kind = "local"
            <4>1. i + 1 \in Locals(tab[t]) /\ 1 \in Locals(tab[t])
                BY <1>1, <2>2, <3>1, <3>3 DEF Locals
            <4>2. tab[t].writes[i + 1].op # o
                BY <2>1, <2>2, <3>1, <4>1 DEF SoundHere, Sound
            <4> QED
                BY <3>2, <3>3, <4>2 DEF Write
        <3>4. CASE tab[t].writes[i + 1].kind # "local"
            BY <3>2, <3>4 DEF Write
        <3> QED
            BY <3>3, <3>4
    <2>4. p.writes \in Seq(Write(C, L, F))
        <3>1. \A i \in 1 .. Len(Tail(s)) : Tail(s)[i] \in Write(C, L, F)
            BY <2>2, <2>3
        <3> HIDE DEF s, W, C, L, F
        <3>2. Tail(s) \in Seq(Write(C, L, F))
            BY <2>2, <3>1, NarrowSeq
        <3> QED
            BY <1>14, <3>2 DEF s
    <2>5. p \in TabOver(C, L, K, Unwritten(t))
        BY <1>14, TabMonotone DEF Here
    <2> HIDE DEF p, L, K, F
    <2> QED
        BY <2>4, <2>5 DEF TabOver
<1>16. Sound(p, C, L, K)
    <2>1. p.queued \in Nat
        BY <1>15 DEF TabOver
    <2> QED
        BY <1>14, <2>1, SoundMonotone
<1>17. o \in p.doc
    <2>1. 1 \in Locals(tab[t]) /\ tab[t].writes[1].op = o
        <3>1. tab[t].writes \in Seq(Write(C, Logged(d), Unwritten(t)))
            BY SetsTyped DEF Here, TabOver
        <3> QED
            BY <1>1, <3>1 DEF Locals, NextWrite
    <2> QED
        BY <1>14, <2>1, SetsTyped DEF SoundHere, Sound
<1>18. o \notin C \cup Range(p.pending)
    <2>1. p.pending \in Seq(Sent(d) \ Seed)
        BY <1>14 DEF Here, TabOver
    <2> QED
        BY <1>3, <1>5, <2>1 DEF Range
<1>19. DurableLocal(p, o) \in TabOver(C, L, K, F) /\ Sound(DurableLocal(p, o), C, L, K)
    BY <1>3, <1>5, <1>14, <1>15, <1>16, <1>17, <1>18, DurableLocalKeeps
<1>20. DurableLocal(p, o).phase = "running"
    <2>1. p \in TabOver(C, L, K, F) /\ p.phase = "running"
        BY <1>14, <1>15
    <2> QED
        BY <2>1 DEF DurableLocal, Pumped, TabOver
<1>21. PICK q \in TabOver(C, L, K, F) : Becomes(t, q) /\ Sound(q, C, L, K)
    BY <1>1, <1>19, <1>20, CompactedKeeps
<1>22. tab'[t] = q /\ tab' = [r \in Tab |-> tab'[r]] /\ \A r \in Tab \ {t} : tab'[r] = tab[r]
    BY <1>21 DEF Becomes, SyncInv
<1>23. tab'[t] \in Here(t)' /\ SoundHere(t)'
    BY <1>4, <1>11, <1>13, <1>21, <1>22 DEF Here, SoundHere
<1>24. \A e \in Device : /\ Sent(e) \subseteq Sent(e)' /\ disk[e].log \subseteq disk'[e].log
                         /\ disk'[e].log \subseteq Sent(e)'
    BY <1>9, <1>10, <1>11 DEF SyncInv
<1>25. /\ issued \subseteq issued' /\ issued' \subseteq Op \ Seed
       /\ late' \subseteq [tab : Tab, op : Op \ Seed] /\ \A f \in late' : f \in late
    BY <1>1 DEF SyncInv
<1>26. Known' \subseteq Known \cup {x \in issued' : Author[x] = t}
    BY <1>3, <1>12, <1>25
<1> QED
    BY <1>4, <1>9, <1>22, <1>23, <1>24, <1>25, <1>26, StepOf
-----------------------------------------------------------------------------
\* The connection, and what arrives on it.
LEMMA ConnectStep == ASSUME SyncInv, NEW t \in Tab, Connect(t) PROVE SyncInv'
<1> DEFINE p == tab[t]
           q == [p EXCEPT !.connected = TRUE, !.connection = "syncing",
                          !.down = <<[type |-> "ready"]>>]
<1>1. Becomes(t, q) /\ ServerIdle /\ UNCHANGED <<disk, late, issued>> /\ p.phase = "running"
    BY DEF Connect
<1>2. p \in Here(t) /\ Sound(p, Content, Logged(DeviceOf[t]), Sent(DeviceOf[t]))
    BY SetsTyped DEF SoundHere
<1>3. <<[type |-> "ready"]>> \in Seq(DownFrame(Content))
    <2>1. [type |-> "ready"] \in DownFrame(Content)
        BY DEF DownFrame
    <2> QED
        BY <2>1
<1>4. q \in Here(t) /\ KeepsState(p, q)
    <2> HIDE DEF DownFrame, Write, UpFrame
    <2> QED
        BY <1>1, <1>2, <1>3 DEF Here, TabOver, KeepsState
<1>5. Sound(q, Content, Logged(DeviceOf[t]), Sent(DeviceOf[t]))
    BY <1>2, <1>4, KeepsSound
<1> HIDE DEF q
<1> QED
    BY <1>1, <1>4, <1>5, LocalStep DEF SyncInv

LEMMA DisconnectStep == ASSUME SyncInv, NEW t \in Tab, Disconnect(t) PROVE SyncInv'
<1>1. /\ tab[t].connected /\ Becomes(t, Dropped(tab[t])) /\ ServerIdle
      /\ UNCHANGED <<disk, issued>> /\ LeaveBehind(t)
    BY DEF Disconnect
<1>2. tab[t].phase = "running"
    BY <1>1, RunningTab
<1>3. /\ Dropped(tab[t]) \in Here(t)
      /\ Sound(Dropped(tab[t]), Content, Logged(DeviceOf[t]), Sent(DeviceOf[t]))
    BY <1>2, SetsTyped, DroppedKeeps DEF Here, SoundHere
<1> QED
    BY <1>1, <1>3, LeftBehind, LocalStep

\* A frame is read.
LEMMA HeadFrame ==
    ASSUME SyncInv, NEW t \in Tab, tab[t].down # <<>>
    PROVE  /\ tab[t].phase = "running" /\ Read(t).phase = "running"
           /\ Read(t) \in Here(t)
           /\ Sound(Read(t), Content, Logged(DeviceOf[t]), Sent(DeviceOf[t]))
           /\ Head(tab[t].down) \in DownFrame(Content)
           /\ Read(t).doc = tab[t].doc /\ Read(t).writes = tab[t].writes
           /\ Read(t).pending = tab[t].pending /\ Read(t).inFlight = tab[t].inFlight
<1>1. tab[t].phase = "running"
    BY RunningTab
<1>2. tab[t] \in Here(t) /\ Sound(tab[t], Content, Logged(DeviceOf[t]), Sent(DeviceOf[t]))
    BY SetsTyped DEF SoundHere
<1>3. tab[t].down \in Seq(DownFrame(Content))
    BY <1>2 DEF Here, TabOver
<1>4. Tail(tab[t].down) \in Seq(DownFrame(Content)) /\ Head(tab[t].down) \in DownFrame(Content)
    <2> HIDE DEF DownFrame
    <2> QED
        BY <1>3, TailOf
<1>5. Read(t) \in Here(t) /\ KeepsState(tab[t], Read(t)) /\ Read(t).inFlight = tab[t].inFlight
    <2> HIDE DEF DownFrame, Write, UpFrame
    <2> QED
        BY <1>1, <1>2, <1>4 DEF Here, TabOver, KeepsState, Read
<1> QED
    BY <1>1, <1>2, <1>4, <1>5, KeepsSound DEF KeepsState

LEMMA ReceiveReadyStep == ASSUME SyncInv, NEW t \in Tab, ReceiveReady(t) PROVE SyncInv'
<1> DEFINE p == Read(t)
           frame == [type |-> "sync", vector |-> StateVector(tab[t].doc)]
           up == Append(p.up, frame)
           q == [p EXCEPT !.socketReady = TRUE, !.syncComplete = FALSE, !.syncRequest = TRUE,
                          !.connection = "syncing", !.up = up]
<1>1. /\ tab[t].down # <<>> /\ Becomes(t, q) /\ ServerIdle /\ UNCHANGED <<disk, late, issued>>
    BY DEF ReceiveReady, Arrived
<1>2. /\ p \in Here(t) /\ p.phase = "running"
      /\ Sound(p, Content, Logged(DeviceOf[t]), Sent(DeviceOf[t]))
    BY <1>1, HeadFrame
<1>3. up \in Seq(UpFrame(Sent(DeviceOf[t])))
    <2>1. p.up \in Seq(UpFrame(Sent(DeviceOf[t])))
        BY <1>2 DEF Here, TabOver
    <2>2. frame \in UpFrame(Sent(DeviceOf[t]))
        <3>1. tab[t].doc \in SUBSET Op
            BY SetsTyped DEF Here, TabOver
        <3>2. StateVector(tab[t].doc) \in SUBSET Op
            BY <3>1 DEF StateVector, Integrated
        <3> QED
            BY <3>2 DEF UpFrame
    <2> QED
        BY <2>1, <2>2
<1> HIDE DEF up
<1>4. q \in Here(t) /\ KeepsState(p, q)
    <2> HIDE DEF DownFrame, Write, UpFrame, p
    <2> QED
        BY <1>2, <1>3 DEF Here, TabOver, KeepsState
<1>5. Sound(q, Content, Logged(DeviceOf[t]), Sent(DeviceOf[t]))
    BY <1>2, <1>4, KeepsSound
<1> HIDE DEF q
<1> QED
    BY <1>1, <1>4, <1>5, LocalStep DEF SyncInv

LEMMA ReceivePartStep == ASSUME SyncInv, NEW t \in Tab, ReceivePart(t) PROVE SyncInv'
<1> DEFINE C == Content
           L == Logged(DeviceOf[t])
           K == Sent(DeviceOf[t])
           F == Unwritten(t)
           part == Head(tab[t].down)
           p == Applied(Read(t), part.update)
           finish == [kind |-> "finish"]
           r == [p EXCEPT !.writes = Append(@, finish)]
           writes == Append(p.writes, finish)
           q == [p EXCEPT !.syncRequest = FALSE, !.writes = writes]
<1>1. /\ tab[t].down # <<>> /\ part.type = "part" /\ ServerIdle
      /\ UNCHANGED <<disk, late, issued>>
      /\ Becomes(t, IF part.done THEN q ELSE p)
    BY DEF ReceivePart, Arrived
<1>2. /\ Read(t) \in TabOver(C, L, K, F) /\ Sound(Read(t), C, L, K)
      /\ Read(t).phase = "running" /\ part \in DownFrame(C)
    BY <1>1, HeadFrame DEF Here
<1>3. part.update \in SUBSET C
    BY <1>1, <1>2 DEF DownFrame
<1>4. C \subseteq L /\ C \subseteq Op
    BY SetsTyped
<1> HIDE DEF C, L, K, F, part
<1>5. p \in TabOver(C, L, K, F) /\ Sound(p, C, L, K) /\ p.phase = "running"
    BY <1>2, <1>3, <1>4, AppliedKeeps
<1>6. r \in TabOver(C, L, K, F) /\ Sound(r, C, L, K)
    <2>1. finish \in Write(C, L, F) /\ finish.kind # "local"
        BY DEF Write
    <2> HIDE DEF p, finish
    <2> QED
        BY <1>5, <2>1, WriteBehind
<1> HIDE DEF finish
<1>7. q \in TabOver(C, L, K, F) /\ KeepsState(r, q)
    <2> HIDE DEF p
    <2>1. r = [p EXCEPT !.writes = writes]
        OBVIOUS
    <2> HIDE DEF writes, r
    <2>2. q = [r EXCEPT !.syncRequest = FALSE]
        BY <1>5, <2>1 DEF TabOver
    <2>3. r.phase = "running"
        BY <1>5, <2>1 DEF TabOver
    <2> HIDE DEF q
    <2> QED
        BY <1>6, <2>2, <2>3 DEF TabOver, KeepsState
<1> HIDE DEF q, r, p
<1>8. Sound(q, C, L, K)
    BY <1>6, <1>7, KeepsSound
<1> QED
    BY <1>1, <1>5, <1>7, <1>8, LocalStep DEF SyncInv, Here, C, L, K, F

LEMMA ReceiveRemoteStep == ASSUME SyncInv, NEW t \in Tab, ReceiveRemote(t) PROVE SyncInv'
<1> DEFINE f == Head(tab[t].down)
           q == Applied(Read(t), {f.op})
<1>1. /\ tab[t].down # <<>> /\ f.type = "remote" /\ ServerIdle /\ Becomes(t, q)
      /\ UNCHANGED <<disk, late, issued>>
    BY DEF ReceiveRemote, Arrived
<1>2. /\ Read(t) \in Here(t) /\ Sound(Read(t), Content, Logged(DeviceOf[t]), Sent(DeviceOf[t]))
      /\ Read(t).phase = "running" /\ f \in DownFrame(Content)
    BY <1>1, HeadFrame
<1>3. {f.op} \in SUBSET Content
    BY <1>1, <1>2 DEF DownFrame
<1>4. Content \subseteq Logged(DeviceOf[t]) /\ Content \subseteq Op
    BY SetsTyped
<1> HIDE DEF f
<1>5. q \in Here(t) /\ Sound(q, Content, Logged(DeviceOf[t]), Sent(DeviceOf[t]))
    BY <1>2, <1>3, <1>4, AppliedKeeps DEF Here
<1> HIDE DEF q
<1> QED
    BY <1>1, <1>5, LocalStep DEF SyncInv

LEMMA ReceiveAckStep == ASSUME SyncInv, NEW t \in Tab, ReceiveAck(t) PROVE SyncInv'
<1> DEFINE f == Head(tab[t].down)
           w == [kind |-> "ack", op |-> f.op]
           q == [Read(t) EXCEPT !.writes = Append(@, w)]
<1>1. /\ tab[t].down # <<>> /\ f.type = "ack" /\ ServerIdle
      /\ UNCHANGED <<disk, late, issued>>
      /\ Becomes(t, IF tab[t].inFlight = f.op THEN q ELSE Read(t))
    BY DEF ReceiveAck, Arrived
<1>2. /\ Read(t) \in Here(t) /\ Sound(Read(t), Content, Logged(DeviceOf[t]), Sent(DeviceOf[t]))
      /\ Read(t).phase = "running" /\ f \in DownFrame(Content)
    BY <1>1, HeadFrame
<1>3. f.op \in Content \ Seed
    BY <1>1, <1>2 DEF DownFrame
<1>4. w \in Write(Content, Logged(DeviceOf[t]), Unwritten(t)) /\ w.kind # "local"
    BY <1>3 DEF Write
<1> HIDE DEF w, f
<1>5. q \in Here(t) /\ Sound(q, Content, Logged(DeviceOf[t]), Sent(DeviceOf[t]))
    BY <1>2, <1>4, WriteBehind DEF Here
<1> HIDE DEF q
<1> QED
    BY <1>1, <1>2, <1>5, LocalStep DEF SyncInv
\* The store has caught up with the sync: the tab goes online, or fails.
LEMMA FinishSyncStep == ASSUME SyncInv, NEW t \in Tab, FinishSync(t) PROVE SyncInv'
<1> DEFINE C == Content
           L == Logged(DeviceOf[t])
           K == Sent(DeviceOf[t])
           F == Unwritten(t)
           p == Rest(t)
           online == [p EXCEPT !.syncComplete = TRUE, !.connection = "online", !.documentReady = TRUE]
           q == IF p.writeFailure \/ ~Valid(p.doc) THEN Failed(p) ELSE Pumped(online)
<1>1. /\ tab[t].writes # <<>> /\ Becomes(t, q) /\ ServerIdle /\ UNCHANGED <<disk, issued>>
      /\ late' = late \/ LeaveBehind(t)
    BY DEF FinishSync, Awaiting
<1>2. p \in TabOver(C, L, K, F) /\ Sound(p, C, L, K) /\ p.phase = "running"
    BY <1>1, HeadWrite DEF Here
<1>3. K \subseteq Op
    BY SetsTyped
<1> HIDE DEF C, L, K, F, p
<1>4. Failed(p) \in TabOver(C, L, K, F) /\ Sound(Failed(p), C, L, K)
    BY <1>2, DroppedKeeps
<1>5. online \in TabOver(C, L, K, F) /\ KeepsState(p, online) /\ online.phase = "running"
    BY <1>2 DEF TabOver, KeepsState
<1>6. Sound(online, C, L, K)
    BY <1>2, <1>5, KeepsSound
<1> HIDE DEF online
<1>7. Pumped(online) \in TabOver(C, L, K, F) /\ Sound(Pumped(online), C, L, K)
    BY <1>3, <1>5, <1>6, PumpedKeeps
<1>8. q \in TabOver(C, L, K, F) /\ Sound(q, C, L, K)
    BY <1>4, <1>7
<1> HIDE DEF q
<1>9. /\ late' \subseteq [tab : Tab, op : Op \ Seed]
      /\ \A f \in late' : f \in late \/ f.op \in Sent(DeviceOf[f.tab])
    BY <1>1, LeftBehind DEF SyncInv
<1> QED
    BY <1>1, <1>8, <1>9, LocalStep DEF Here, C, L, K, F

\* An acknowledged update leaves pending and the outbox: the server vouches for it.
LEMMA AcknowledgedKeeps ==
    ASSUME NEW C, NEW L, NEW K, NEW F, NEW p \in TabOver(C, L, K, F), Sound(p, C, L, K),
           p.phase = "running", K \subseteq Op, NEW o \in C
    PROVE  LET q == [p EXCEPT !.pending = Without(@, o), !.inFlight = NoOp]
           IN  Pumped(q) \in TabOver(C, L, K, F) /\ Sound(Pumped(q), C, L, K)
<1> DEFINE pending == Without(p.pending, o)
           q == [p EXCEPT !.pending = pending, !.inFlight = NoOp]
<1>1. p.pending \in Seq(K \ Seed)
    BY DEF TabOver
<1>2. /\ pending \in Seq(K \ Seed) /\ Range(pending) \subseteq Range(p.pending)
      /\ Range(p.pending) \subseteq Range(pending) \cup {o}
    BY <1>1, WithoutIn
<1> HIDE DEF pending
<1>3. q \in TabOver(C, L, K, F)
    BY <1>2 DEF TabOver
<1>4. /\ q.doc = p.doc /\ q.phase = "running" /\ q.queued = p.queued /\ q.pending = pending
      /\ q.writes = p.writes
    BY DEF TabOver
<1>5. q = [p EXCEPT !.pending = Without(@, o), !.inFlight = NoOp]
    BY DEF pending
<1> HIDE DEF q
<1>6. Unsaved(q, C) = Unsaved(p, C) /\ Locals(q) = Locals(p)
    BY <1>2, <1>4 DEF Unsaved, Locals
<1>7. Sound(q, C, L, K)
    BY <1>4, <1>6 DEF Sound
<1>8. Pumped(q) \in TabOver(C, L, K, F) /\ Sound(Pumped(q), C, L, K)
    BY <1>3, <1>4, <1>7, PumpedKeeps
<1> QED
    BY <1>5, <1>8

LEMMA FinishAckStep == ASSUME SyncInv, NEW t \in Tab, FinishAck(t) PROVE SyncInv'
<1> DEFINE d == DeviceOf[t]
           C == Content
           L == Logged(d)
           K == Sent(d)
           F == Unwritten(t)
           o == NextWrite(t).op
           p == Rest(t)
           refused == [p EXCEPT !.inFlight = NoOp, !.durability = "at-risk"]
           accepted == Pumped([p EXCEPT !.pending = Without(@, o), !.inFlight = NoOp])
<1>1. /\ tab[t].writes # <<>> /\ NextWrite(t).kind = "ack" /\ ServerIdle
      /\ UNCHANGED <<late, issued>>
    BY DEF FinishAck, Awaiting
<1>2. /\ p \in TabOver(C, L, K, F) /\ Sound(p, C, L, K) /\ p.phase = "running"
      /\ NextWrite(t) \in Write(C, L, F)
    BY <1>1, HeadWrite DEF Here
<1>3. o \in C \ Seed
    BY <1>1, <1>2 DEF Write
<1>4. K \subseteq Op /\ d \in Device
    BY SetsTyped
<1>5. IInv' /\ Content' = C
    BY <1>1, ServerIdleKeeps DEF SyncInv
<1>6. CASE UNCHANGED disk /\ Becomes(t, refused)
    <2> HIDE DEF C, L, K, F, p
    <2>1. refused \in TabOver(C, L, K, F) /\ KeepsState(p, refused)
        BY <1>2 DEF TabOver, KeepsState
    <2>2. Sound(refused, C, L, K)
        BY <1>2, <2>1, KeepsSound
    <2> HIDE DEF refused
    <2> QED
        BY <1>1, <1>6, <2>1, <2>2, LocalStep DEF SyncInv, Here, C, L, K, F
<1>7. CASE disk' = [disk EXCEPT ![d].outbox = Without(@, o)] /\ Becomes(t, accepted)
    <2> DEFINE outbox == Without(disk[d].outbox, o)
    <2>1. accepted \in TabOver(C, L, K, F) /\ Sound(accepted, C, L, K)
        <3> HIDE DEF C, L, K, F, p, o
        <3> QED
            BY <1>2, <1>3, <1>4, AcknowledgedKeeps
    <2>2. disk[d] \in DiskState /\ disk \in [Device -> DiskState]
        BY <1>4 DEF SyncInv
    <2>3. disk[d].outbox \in Seq(Op \ Seed)
        BY <2>2 DEF DiskState
    <2>4. /\ outbox \in Seq(Op \ Seed) /\ Range(outbox) \subseteq Range(disk[d].outbox)
          /\ Range(disk[d].outbox) \subseteq Range(outbox) \cup {o}
        BY <2>3, WithoutIn
    <2>5. disk' = [disk EXCEPT ![d].outbox = outbox]
        BY <1>7
    <2> HIDE DEF outbox, o
    <2>6. /\ disk'[d].log = disk[d].log /\ disk'[d].outbox = outbox
          /\ \A e \in Device \ {d} : disk'[e] = disk[e]
          /\ disk' \in [Device -> DiskState]
        BY <1>4, <2>2, <2>4, <2>5 DEF DiskState
    <2>7. \A e \in Device : Sent(e)' = Sent(e) /\ Logged(e)' = Logged(e) /\ disk'[e].log = disk[e].log
        BY <1>3, <1>5, <2>4, <2>6 DEF Sent, Logged
    <2>8. Known' = Known
        <3>1. \A x : x \in Known' <=> x \in Content' \/ \E e \in Device : x \in Range(disk'[e].outbox)
            BY DEF Known
        <3>2. \A x : x \in Known <=> x \in Content \/ \E e \in Device : x \in Range(disk[e].outbox)
            BY DEF Known
        <3>3. \A e \in Device : \A x : x # o => (x \in Range(disk'[e].outbox) <=> x \in Range(disk[e].outbox))
            BY <2>4, <2>6
        <3> QED
            BY <1>3, <1>5, <3>1, <3>2, <3>3
    <2>9. Unwritten(t)' = F
        BY <1>1, <2>8 DEF Unwritten
    <2> HIDE DEF accepted, F
    <2>10. tab'[t] = accepted /\ tab' = [r \in Tab |-> tab'[r]] /\ \A r \in Tab \ {t} : tab'[r] = tab[r]
        BY <1>7 DEF Becomes, SyncInv
    <2>11. tab'[t] \in Here(t)' /\ SoundHere(t)'
        BY <1>4, <1>5, <2>1, <2>7, <2>9, <2>10 DEF Here, SoundHere
    <2>12. \A e \in Device : /\ Sent(e) \subseteq Sent(e)' /\ disk[e].log \subseteq disk'[e].log
                             /\ disk'[e].log \subseteq Sent(e)'
        BY <2>7 DEF SyncInv
    <2>13. /\ issued \subseteq issued' /\ issued' \subseteq Op \ Seed
           /\ late' \subseteq [tab : Tab, op : Op \ Seed] /\ \A f \in late' : f \in late
        BY <1>1 DEF SyncInv
    <2> QED
        BY <1>5, <2>6, <2>8, <2>10, <2>11, <2>12, <2>13, StepOf
<1> QED
    BY <1>6, <1>7 DEF FinishAck

LEMMA AckTimeoutStep == ASSUME SyncInv, NEW t \in Tab, AckTimeout(t) PROVE SyncInv'
<1> DEFINE p == tab[t]
           q == [p EXCEPT !.inFlight = NoOp]
<1>1. /\ p.inFlight # NoOp /\ ServerIdle /\ UNCHANGED <<disk, late, issued>>
      /\ Becomes(t, Pumped(q))
    BY DEF AckTimeout
<1>2. p \in Here(t) /\ Sound(p, Content, Logged(DeviceOf[t]), Sent(DeviceOf[t]))
      /\ p.phase = "running" /\ Sent(DeviceOf[t]) \subseteq Op
    BY <1>1, SetsTyped, RunningTab DEF SoundHere
<1>3. q \in Here(t) /\ KeepsState(p, q) /\ q.phase = "running"
    BY <1>2 DEF Here, TabOver, KeepsState
<1>4. Sound(q, Content, Logged(DeviceOf[t]), Sent(DeviceOf[t]))
    BY <1>2, <1>3, KeepsSound
<1> HIDE DEF q
<1>5. /\ Pumped(q) \in Here(t)
      /\ Sound(Pumped(q), Content, Logged(DeviceOf[t]), Sent(DeviceOf[t]))
    BY <1>2, <1>3, <1>4, PumpedKeeps DEF Here
<1> QED
    BY <1>1, <1>5, LocalStep DEF SyncInv
-----------------------------------------------------------------------------
\* The server reads a frame.
LEMMA HeadRequest ==
    ASSUME SyncInv, NEW t \in Tab, tab[t].up # <<>>
    PROVE  LET read == [tab[t] EXCEPT !.up = Tail(@)]
           IN  /\ read \in Here(t) /\ KeepsState(tab[t], read)
               /\ Sound(read, Content, Logged(DeviceOf[t]), Sent(DeviceOf[t]))
               /\ Head(tab[t].up) \in UpFrame(Sent(DeviceOf[t]))
               /\ read.up = Tail(tab[t].up) /\ read.down = tab[t].down
<1> DEFINE read == [tab[t] EXCEPT !.up = Tail(@)]
<1>1. tab[t].phase = "running"
    BY RunningTab
<1>2. tab[t] \in Here(t) /\ Sound(tab[t], Content, Logged(DeviceOf[t]), Sent(DeviceOf[t]))
    BY SetsTyped DEF SoundHere
<1>3. tab[t].up \in Seq(UpFrame(Sent(DeviceOf[t])))
    BY <1>2 DEF Here, TabOver
<1>4. /\ Tail(tab[t].up) \in Seq(UpFrame(Sent(DeviceOf[t])))
      /\ Head(tab[t].up) \in UpFrame(Sent(DeviceOf[t]))
    <2> HIDE DEF UpFrame
    <2> QED
        BY <1>3, TailOf
<1>5. /\ read \in Here(t) /\ KeepsState(tab[t], read)
      /\ read.up = Tail(tab[t].up) /\ read.down = tab[t].down
    <2> HIDE DEF DownFrame, Write, UpFrame
    <2> QED
        BY <1>1, <1>2, <1>4 DEF Here, TabOver, KeepsState
<1> HIDE DEF read
<1>6. Sound(read, Content, Logged(DeviceOf[t]), Sent(DeviceOf[t]))
    BY <1>2, <1>5, KeepsSound
<1> QED
    BY <1>4, <1>5, <1>6 DEF read

\* The parts of a sync answer hold nothing but what is stored.
LEMMA MissingUpdatesTyped ==
    ASSUME IInv, NEW vector
    PROVE  /\ MissingUpdates(vector) \in Seq(SUBSET Content)
           /\ UNION Range(MissingUpdates(vector)) = Content \ vector
           /\ MissingUpdates(vector) # <<>>
<1>1. /\ PartsLacking(vector) \in Seq(SUBSET Content)
      /\ UNION Range(PartsLacking(vector)) = Content \ vector
    BY PartsLackingIsComplete
<1>2. CASE PartsLacking(vector) = <<>>
    <2>1. MissingUpdates(vector) = <<{}>>
        BY <1>2 DEF MissingUpdates
    <2>2. Range(<<{}>>) = {{}} /\ Range(PartsLacking(vector)) = {}
        <3>1. DOMAIN <<{}>> = {1} /\ <<{}>>[1] = {} /\ DOMAIN PartsLacking(vector) = {}
            BY <1>2
        <3> HIDE DEF PartsLacking
        <3> QED
            BY <3>1 DEF Range
    <2>3. <<{}>> \in Seq(SUBSET Content) /\ <<{}>> # <<>>
        OBVIOUS
    <2> QED
        BY <1>1, <2>1, <2>2, <2>3
<1>3. CASE PartsLacking(vector) # <<>>
    BY <1>1, <1>3 DEF MissingUpdates
<1> QED
    BY <1>2, <1>3

LEMMA ServeSyncStep == ASSUME SyncInv, NEW t \in Tab, ServeSync(t) PROVE SyncInv'
<1> DEFINE C == Content
           read == [tab[t] EXCEPT !.up = Tail(@)]
           parts == MissingUpdates(Head(tab[t].up).vector)
           frame(i) == [type |-> "part", update |-> parts[i], done |-> i = Len(parts)]
           frames == [i \in DOMAIN parts |-> frame(i)]
           down == tab[t].down \o frames
           q == [read EXCEPT !.down = down]
<1>1. tab[t].up # <<>> /\ ServerIdle /\ UNCHANGED <<disk, late, issued>>
    BY DEF ServeSync, ServerReads
<1>2. tab' = [tab EXCEPT ![t] = [tab[t] EXCEPT !.up = Tail(@), !.down = tab[t].down \o frames]]
    BY DEF ServeSync, Becomes
<1>3. tab[t] \in Here(t)
    BY SetsTyped
<1>4. Becomes(t, q)
    <2> HIDE DEF frames
    <2>1. [tab[t] EXCEPT !.up = Tail(@), !.down = tab[t].down \o frames] = q
        BY <1>3 DEF Here, TabOver
    <2> QED
        BY <1>2, <2>1 DEF Becomes
<1>5. /\ read \in Here(t) /\ read.phase = "running"
      /\ Sound(read, C, Logged(DeviceOf[t]), Sent(DeviceOf[t]))
    BY <1>1, HeadRequest DEF KeepsState
<1>6. parts \in Seq(SUBSET C)
    BY MissingUpdatesTyped DEF SyncInv
<1>7. tab[t].down \in Seq(DownFrame(C))
    BY <1>3 DEF Here, TabOver
<1> HIDE DEF parts, C
<1>8. frames \in Seq(DownFrame(C))
    <2>1. \A i \in 1 .. Len(parts) : frame(i) \in DownFrame(C)
        <3>1. \A i \in 1 .. Len(parts) : parts[i] \in SUBSET C
            BY <1>6
        <3> QED
            BY <3>1 DEF DownFrame
    <2>2. frames = [i \in 1 .. Len(parts) |-> frame(i)] /\ Len(parts) \in Nat
        BY <1>6
    <2> HIDE DEF DownFrame, frame
    <2> QED
        BY <2>1, <2>2
<1> HIDE DEF frames, read
<1>9. down \in Seq(DownFrame(C))
    BY <1>7, <1>8, ConcatProperties
<1> HIDE DEF down
<1>10. q \in Here(t) /\ KeepsState(read, q)
    <2> HIDE DEF DownFrame, Write, UpFrame
    <2> QED
        BY <1>5, <1>9 DEF Here, TabOver, KeepsState, C
<1>11. Sound(q, Content, Logged(DeviceOf[t]), Sent(DeviceOf[t]))
    BY <1>5, <1>10, KeepsSound DEF C
<1> HIDE DEF q
<1> QED
    BY <1>1, <1>4, <1>10, <1>11, LocalStep DEF SyncInv

LEMMA RefuseStep ==
    ASSUME SyncInv, NEW t \in Tab, RefuseUpdate(t) \/ RefuseSync(t) PROVE SyncInv'
<1> DEFINE q == [tab[t] EXCEPT !.up = Tail(@)]
<1>1. /\ tab[t].up # <<>> /\ ServerIdle /\ UNCHANGED <<disk, late, issued>> /\ Becomes(t, q)
    BY DEF RefuseUpdate, RefuseSync, ServerReads
<1>2. q \in Here(t) /\ Sound(q, Content, Logged(DeviceOf[t]), Sent(DeviceOf[t]))
    BY <1>1, HeadRequest
<1> HIDE DEF q
<1> QED
    BY <1>1, <1>2, LocalStep DEF SyncInv

\* An update reaches the repository: what it may add was in an outbox.
LEMMA ServerTakes ==
    ASSUME SyncInv, NEW d \in Device, NEW o \in Op \ Seed, o \in Sent(d),
           StoreUpdate(<<d, o>>, {o}), UNCHANGED <<disk, issued>>
    PROVE  /\ IInv' /\ Content \subseteq Content' /\ Content' \subseteq Content \cup {o}
           /\ reply'.status # "rejected" => o \in Content'
           /\ IF reply'.status = "committed" THEN Content' = Content \cup {o} ELSE Content' = Content
           /\ Known' = Known
           /\ \A e \in Device : /\ Sent(e) \subseteq Sent(e)' /\ Logged(e) \subseteq Logged(e)'
                                /\ disk'[e].log \subseteq Sent(e)'
           /\ \A p \in Tab : Unwritten(p)' = Unwritten(p)
<1>1. <<d, o>> \in Key /\ {o} \in Update
    BY TabAssumption
<1>2. /\ IInv' /\ Content \subseteq Content' /\ Content' \subseteq Content \cup {o}
      /\ reply'.status # "rejected" => o \in Content'
      /\ IF reply'.status = "committed" THEN Content' = Content \cup {o} ELSE Content' = Content
    BY <1>1, StoreUpdateStores DEF SyncInv
<1>3. o \in Known
    BY DEF Sent, Known
<1>4. Known' = Known
    <2>1. Known' = Content' \cup UNION {Range(disk[e].outbox) : e \in Device}
        BY DEF Known
    <2> QED
        BY <1>2, <1>3, <2>1 DEF Known
<1>5. \A e \in Device : /\ Sent(e) \subseteq Sent(e)' /\ Logged(e) \subseteq Logged(e)'
                        /\ disk'[e].log \subseteq Sent(e)'
    BY <1>2 DEF Sent, Logged, SyncInv
<1>6. \A p \in Tab : Unwritten(p)' = Unwritten(p)
    BY <1>4 DEF Unwritten
<1> QED
    BY <1>2, <1>4, <1>5, <1>6

LEMMA ServeUpdateStep == ASSUME SyncInv, NEW t \in Tab, ServeUpdate(t) PROVE SyncInv'
<1> DEFINE d == DeviceOf[t]
           o == Head(tab[t].up).op
           read == [tab[t] EXCEPT !.up = Tail(@)]
           ack == [type |-> "ack", op |-> o]
           down == IF reply'.status = "rejected" THEN tab[t].down ELSE Append(tab[t].down, ack)
           served == [tab[t] EXCEPT !.up = Tail(@), !.down = down]
           q == [read EXCEPT !.down = down]
<1>1. /\ tab[t].up # <<>> /\ Head(tab[t].up).type = "update"
      /\ StoreUpdate(<<d, o>>, {o}) /\ UNCHANGED <<disk, late, issued>>
    BY DEF ServeUpdate, ServerReads
<1>2. tab' = [Relayed(o, t) EXCEPT ![t] = served]
    BY DEF ServeUpdate
<1>3. tab[t] \in Here(t) /\ d \in Device
    BY SetsTyped
<1>4. served = q
    <2> HIDE DEF down
    <2> QED
        BY <1>3 DEF Here, TabOver
<1>5. /\ read \in Here(t) /\ read.phase = "running" /\ read.queued \in Nat
      /\ Sound(read, Content, Logged(d), Sent(d))
      /\ Head(tab[t].up) \in UpFrame(Sent(d))
    BY <1>1, HeadRequest DEF KeepsState, Here, TabOver
<1>6. o \in Sent(d) /\ o \in Op \ Seed
    <2>1. o \in Sent(d) \ Seed
        BY <1>1, <1>5 DEF UpFrame
    <2> QED
        BY <2>1, SetsTyped
<1> HIDE DEF o
<1>7. /\ IInv' /\ Content \subseteq Content'
      /\ reply'.status # "rejected" => o \in Content'
      /\ reply'.status = "committed" => o \in Content'
      /\ Known' = Known
      /\ \A e \in Device : /\ Sent(e) \subseteq Sent(e)' /\ Logged(e) \subseteq Logged(e)'
                           /\ disk'[e].log \subseteq Sent(e)'
      /\ \A p \in Tab : Unwritten(p)' = Unwritten(p)
    BY <1>1, <1>3, <1>6, ServerTakes
<1>8. read \in Here(t)'
    BY <1>3, <1>5, <1>7, TabMonotone DEF Here
<1>9. Sound(read, Content', Logged(d)', Sent(d)')
    BY <1>3, <1>5, <1>7, SoundMonotone
<1>10. down \in Seq(DownFrame(Content'))
    <2>1. tab[t].down \in Seq(DownFrame(Content'))
        <3>1. tab[t].down = read.down
            BY <1>3 DEF Here, TabOver
        <3> QED
            BY <1>8, <3>1 DEF Here, TabOver
    <2>2. CASE reply'.status = "rejected"
        BY <2>1, <2>2
    <2>3. CASE reply'.status # "rejected"
        <3>1. ack \in DownFrame(Content')
            BY <1>6, <1>7, <2>3 DEF DownFrame
        <3> HIDE DEF DownFrame, ack
        <3> QED
            BY <2>1, <2>3, <3>1
    <2> QED
        BY <2>2, <2>3
<1> HIDE DEF read, down
<1>11. q \in Here(t)' /\ KeepsState(read, q)
    <2> HIDE DEF DownFrame, Write, UpFrame
    <2> QED
        BY <1>5, <1>8, <1>10 DEF Here, TabOver, KeepsState
<1>12. Sound(q, Content', Logged(d)', Sent(d)')
    BY <1>9, <1>11, KeepsSound
<1> HIDE DEF q
<1>13. tab' = [p \in Tab |-> IF p = t THEN q ELSE Relayed(o, t)[p]]
    BY <1>2, <1>4 DEF Relayed
<1>14. tab'[t] = q /\ tab' = [p \in Tab |-> tab'[p]]
    BY <1>13
<1>15. \A p \in Tab \ {t} :
           \/ tab'[p] = tab[p]
           \/ tab'[p] = Heard(tab[p], o) /\ tab[p].connected /\ o \in Content' \ Seed
    BY <1>6, <1>7, <1>13 DEF Relayed, Heard
<1>16. tab'[t] \in Here(t)' /\ SoundHere(t)'
    BY <1>11, <1>12, <1>14 DEF SoundHere
<1>17. /\ disk' \in [Device -> DiskState] /\ issued \subseteq issued' /\ issued' \subseteq Op \ Seed
       /\ late' \subseteq [tab : Tab, op : Op \ Seed] /\ \A f \in late' : f \in late
       /\ \A e \in Device : disk[e].log \subseteq disk'[e].log
    BY <1>1 DEF SyncInv
<1> QED
    BY <1>7, <1>14, <1>15, <1>16, <1>17, StepOf

LEMMA ServeLateStep == ASSUME SyncInv, NEW f \in late, ServeLate(f) PROVE SyncInv'
<1> DEFINE t == f.tab
           d == DeviceOf[t]
           o == f.op
<1>1. /\ StoreUpdate(<<d, o>>, {o}) /\ UNCHANGED <<disk, issued>>
      /\ late' = late \ {f} /\ tab' = Relayed(o, NoOp)
    BY DEF ServeLate
<1>2. t \in Tab /\ o \in Op \ Seed /\ o \in Sent(d)
    BY DEF SyncInv
<1>3. d \in Device
    BY <1>2, SetsTyped
<1>4. /\ IInv' /\ Content \subseteq Content'
      /\ reply'.status = "committed" => o \in Content'
      /\ Known' = Known
      /\ \A e \in Device : /\ Sent(e) \subseteq Sent(e)' /\ Logged(e) \subseteq Logged(e)'
                           /\ disk'[e].log \subseteq Sent(e)'
      /\ \A p \in Tab : Unwritten(p)' = Unwritten(p)
    BY <1>1, <1>2, <1>3, ServerTakes
<1> HIDE DEF o, t
<1>5. tab' = [p \in Tab |-> tab'[p]]
    BY <1>1 DEF Relayed
<1>6. \A p \in Tab :
          \/ tab'[p] = tab[p]
          \/ tab'[p] = Heard(tab[p], o) /\ tab[p].connected /\ o \in Content' \ Seed
    BY <1>1, <1>2, <1>4 DEF Relayed, Heard
<1>7. tab'[t] \in Here(t)' /\ SoundHere(t)'
    BY <1>2, <1>3, <1>4, <1>6, BystanderKeeps
<1>8. /\ disk' \in [Device -> DiskState] /\ issued \subseteq issued' /\ issued' \subseteq Op \ Seed
      /\ late' \subseteq [tab : Tab, op : Op \ Seed] /\ \A g \in late' : g \in late
      /\ \A e \in Device : disk[e].log \subseteq disk'[e].log
    BY <1>1 DEF SyncInv
<1> QED
    BY <1>2, <1>4, <1>5, <1>6, <1>7, <1>8, StepOf
-----------------------------------------------------------------------------
LEMMA StutterStep == ASSUME SyncInv, UNCHANGED allVars PROVE SyncInv'
<1>1. /\ UNCHANGED <<document, receipts, receiptCount>> /\ reply' = reply
      /\ UNCHANGED <<tab, disk, late, issued>>
    BY DEF allVars, vars, syncVars, document
<1>2. IInv'
    BY <1>1, UnchangedStep DEF SyncInv, IInv, TypeOK
<1>3. Content' = Content
    BY <1>1 DEF document, Content
<1>4. /\ \A d \in Device : Sent(d)' = Sent(d) /\ Logged(d)' = Logged(d)
      /\ Known' = Known /\ \A t \in Tab : Unwritten(t)' = Unwritten(t)
    BY <1>1, <1>3 DEF Sent, Logged, Known, Unwritten
<1>5. \A t \in Tab : tab'[t] \in Here(t)' /\ SoundHere(t)'
    <2> SUFFICES ASSUME NEW t \in Tab PROVE tab'[t] \in Here(t)' /\ SoundHere(t)'
        OBVIOUS
    <2>1. DeviceOf[t] \in Device /\ tab[t] \in Here(t) /\ SoundHere(t)
        BY SetsTyped
    <2> QED
        BY <1>1, <1>3, <1>4, <2>1 DEF Here, SoundHere
<1>6. \A f \in late' : f.op \in Sent(DeviceOf[f.tab])'
    <2> SUFFICES ASSUME NEW f \in late' PROVE f.op \in Sent(DeviceOf[f.tab])'
        OBVIOUS
    <2>1. f.op \in Sent(DeviceOf[f.tab]) /\ DeviceOf[f.tab] \in Device
        BY <1>1, TabAssumption DEF SyncInv
    <2> QED
        BY <1>4, <2>1
<1> QED
    BY <1>1, <1>2, <1>4, <1>5, <1>6 DEF SyncInv

LEMMA SyncNextInv == ASSUME SyncInv, [SyncNext]_allVars PROVE SyncInv'
<1>1. CASE UNCHANGED allVars
    BY <1>1, StutterStep
<1>2. CASE \E f \in late : ServeLate(f)
    BY <1>2, ServeLateStep
<1>3. ASSUME NEW t \in Tab, TabStep(t) PROVE SyncInv'
    BY <1>3, StartStep, ConnectStep, StoreRemoteStep, StoreLocalStep, FinishSyncStep, FinishAckStep,
       ReceiveReadyStep, ReceivePartStep, ReceiveRemoteStep, ReceiveAckStep, AckTimeoutStep
       DEF TabStep
<1>4. ASSUME NEW t \in Tab, ServerStep(t) PROVE SyncInv'
    BY <1>4, ServeSyncStep, ServeUpdateStep DEF ServerStep
<1>5. ASSUME NEW t \in Tab, Environment(t) PROVE SyncInv'
    BY <1>5, OpenStep, CloseStep, DisconnectStep, EditStep, WriteFailsStep, RefuseStep DEF Environment
<1> QED
    BY <1>1, <1>2, <1>3, <1>4, <1>5 DEF SyncNext

\* The inductive invariant of tabs, disks, channels and server: what is under way is stored
\* or in an outbox, and each tab accounts for what it shows (guestCodeProvider.ts).
THEOREM SyncInvariant == SyncSpec => []SyncInv
<1>1. SyncInit => SyncInv
    BY SyncInitInv
<1>2. SyncInv /\ [SyncNext]_allVars => SyncInv'
    BY SyncNextInv
<1> QED
    BY <1>1, <1>2, PTL DEF SyncSpec

\* Every field of every tab, disk and frame has its type, in any number of
\* browsers and tabs and for any edits (guestCodeProvider.ts, codeSyncStore.ts,
\* transport.ts).
THEOREM SyncTypeCorrect == SyncSpec => []SyncTypeOK
<1>1. ASSUME SyncInv PROVE SyncTypeOK
    <2>1. ASSUME NEW t \in Tab
          PROVE  /\ Range(tab[t].pending) \subseteq Op \ Seed
                 /\ Range(tab[t].up) \subseteq ClientFrames
                 /\ Range(tab[t].down) \subseteq ServerFrames
        <3>1. tab[t] \in TabOver(Op, Op, Op, Op)
            BY <1>1 DEF SyncInv
        <3>2. UpFrame(Op) = ClientFrames /\ DownFrame(Op) = ServerFrames
            BY DEF UpFrame, ClientFrames, DownFrame, ServerFrames
        <3>3. /\ tab[t].pending \in Seq(Op \ Seed) /\ tab[t].up \in Seq(ClientFrames)
              /\ tab[t].down \in Seq(ServerFrames)
            BY <3>1, <3>2 DEF TabOver
        <3> HIDE DEF ClientFrames, ServerFrames
        <3> QED
            BY <3>3 DEF Range
    <2>2. ASSUME NEW t \in Tab
          PROVE  /\ tab[t].phase \in {"closed", "loaded", "running"}
                 /\ tab[t].doc \subseteq Op
                 /\ tab[t].queued \in Nat
                 /\ tab[t].durability \in {"ready", "writing", "at-risk"}
                 /\ tab[t].connection \in {"offline", "syncing", "online", "error"}
                 /\ tab[t].inFlight \in (Op \ Seed) \cup {NoOp}
        BY <1>1 DEF SyncInv, TabOver
    <2>3. ASSUME NEW d \in Device
          PROVE  disk[d].log \subseteq Op /\ Range(disk[d].outbox) \subseteq Op \ Seed
        <3>1. disk[d].log \in SUBSET Op /\ disk[d].outbox \in Seq(Op \ Seed)
            BY <1>1 DEF SyncInv, DiskState
        <3> QED
            BY <3>1 DEF Range
    <2> QED
        BY <1>1, <2>1, <2>2, <2>3 DEF SyncTypeOK, SyncInv, IInv
<1> QED
    BY <1>1, SyncInvariant, PTL

\* What a tab sends is in its browser's outbox or stored already: the update frame
\* comes after the IndexedDB transaction, and the outbox row goes only after the
\* acknowledgement (codeSyncStore.ts, pumpPendingUpdate).
THEOREM OnlyDurableSent == SyncSpec => []OnlyDurableIsSent
<1>1. ASSUME SyncInv PROVE OnlyDurableIsSent
    <2> SUFFICES ASSUME NEW t \in Tab, NEW f \in Range(tab[t].up), f.type = "update"
                 PROVE  f.op \in Sent(DeviceOf[t])
        BY DEF OnlyDurableIsSent, Sent
    <2>1. tab[t].up \in Seq(UpFrame(Sent(DeviceOf[t])))
        BY <1>1, SetsTyped DEF Here, TabOver
    <2>2. f \in UpFrame(Sent(DeviceOf[t]))
        <3> HIDE DEF UpFrame
        <3> QED
            BY <2>1 DEF Range
    <2> QED
        BY <2>2 DEF UpFrame
<1> QED
    BY <1>1, SyncInvariant, PTL

\* An edit that reached the disk is in the outbox until the server has it, whatever
\* closes, fails, is lost, resent or acknowledged twice.
THEOREM DurableEditKept == SyncSpec => []DurableEditIsKept
<1>1. ASSUME SyncInv PROVE DurableEditIsKept
    <2> SUFFICES ASSUME NEW o \in issued, o \in disk[DeviceOf[Author[o]]].log
                 PROVE  o \in Sent(DeviceOf[Author[o]])
        BY DEF DurableEditIsKept, Sent
    <2>1. Author[o] \in Tab
        BY <1>1, TabAssumption DEF SyncInv
    <2> QED
        BY <1>1, <2>1, SetsTyped DEF SyncInv
<1> QED
    BY <1>1, SyncInvariant, PTL

LEMMA SynchronizedShowsSaved == ASSUME SyncInv PROVE SynchronizedIsSaved
<1> SUFFICES ASSUME NEW t \in Tab, Synchronized(t) PROVE tab[t].doc \subseteq Content
    BY DEF SynchronizedIsSaved
<1>1. tab[t].phase = "running" /\ tab[t].pending = <<>> /\ tab[t].queued = 0
    BY RunningTab DEF Synchronized
<1>2. IsFiniteSet(Unsaved(tab[t], Content)) /\ Cardinality(Unsaved(tab[t], Content)) <= 0
    BY <1>1, SetsTyped DEF SoundHere, Sound
<1>3. Unsaved(tab[t], Content) = {}
    BY <1>2, FS_CardinalityType, FS_EmptySet
<1>4. Range(tab[t].pending) = {}
    BY <1>1 DEF Range
<1> QED
    BY <1>3, <1>4 DEF Unsaved

\* When a tab reports itself synchronized the server holds its whole document: what
\* the document shows beyond the server and the outbox is at most what
\* queuedLocalWrites counts, even while other tabs of the browser acknowledge.
THEOREM SynchronizedSaved == SyncSpec => []SynchronizedIsSaved
<1>1. SyncInv => SynchronizedIsSaved
    BY SynchronizedShowsSaved
<1> QED
    BY <1>1, SyncInvariant, PTL

-----------------------------------------------------------------------------
\* What the tabs ask of the repository, and when it is left alone.
LEMMA RepositoryStep ==
    ASSUME SyncInv, [SyncNext]_allVars
    PROVE  Next \/ ServerIdle \/ UNCHANGED vars
<1>1. ASSUME NEW t \in Tab, NEW o \in Op \ Seed, StoreUpdate(<<DeviceOf[t], o>>, {o})
      PROVE  Next
    <2>1. <<DeviceOf[t], o>> \in Key /\ {o} \in Update
        BY TabAssumption
    <2> QED
        BY <1>1, <2>1 DEF Next, AppendUpdate
<1>2. ASSUME NEW t \in Tab, ServeUpdate(t)
      PROVE  Next
    <2> DEFINE o == Head(tab[t].up).op
    <2>1. tab[t].up # <<>> /\ Head(tab[t].up).type = "update" /\ StoreUpdate(<<DeviceOf[t], o>>, {o})
        BY <1>2 DEF ServeUpdate, ServerReads
    <2>2. Head(tab[t].up) \in UpFrame(Sent(DeviceOf[t])) /\ DeviceOf[t] \in Device
        BY <2>1, HeadRequest, SetsTyped
    <2>3. o \in Op \ Seed
        <3>1. o \in Sent(DeviceOf[t]) \ Seed
            BY <2>1, <2>2 DEF UpFrame
        <3> QED
            BY <2>2, <3>1, SetsTyped
    <2> QED
        BY <1>1, <2>1, <2>3
<1>3. ASSUME NEW f \in late, ServeLate(f)
      PROVE  Next
    <2>1. f.tab \in Tab /\ f.op \in Op \ Seed
        BY DEF SyncInv
    <2> QED
        BY <1>1, <1>3, <2>1 DEF ServeLate
<1>4. ASSUME NEW t \in Tab, TabStep(t) \/ ServeSync(t) \/ Environment(t)
      PROVE  ServerIdle
    BY <1>4 DEF TabStep, Environment, Start, Connect, StoreRemote, StoreLocal,
                FinishSync, FinishAck, ReceiveReady, ReceivePart, ReceiveRemote, ReceiveAck,
                AckTimeout, ServeSync, Open, Close, Disconnect, Edit, WriteFails, RefuseUpdate,
                RefuseSync
<1> QED
    BY <1>2, <1>3, <1>4 DEF SyncNext, ServerStep, allVars

\* The server the tabs talk to is the repository: whatever browsers, sockets and
\* connections do, it goes through appendUpdate's steps, or answers nobody.
THEOREM SyncUsesRepository == SyncSpec => Init /\ [][Next \/ ServerIdle]_vars
<1>1. SyncInit => Init
    BY DEF SyncInit
<1>2. SyncInv /\ [SyncNext]_allVars => [Next \/ ServerIdle]_vars
    BY RepositoryStep
<1> QED
    BY <1>1, <1>2, SyncInvariant, PTL DEF SyncSpec

\* So what the repository promises holds for the whole: an answered update stays and
\* keeps its answer, is stored once, the document loads, a cold sync fits, and the log
\* stays compact.
THEOREM SyncKeepsPromise ==
    SyncSpec => /\ KeepsPromise
                /\ [](AckedIsDurable /\ StoredOnce /\ AlwaysLoadable)
                /\ [](ColdSyncServable /\ CompactionKeepsUp)
                /\ FullLogOnlyCompacts
<1>1. SyncInv => AckedIsDurable /\ StoredOnce /\ ColdSyncServable
    BY StoredOnceOf, ColdSyncOf DEF SyncInv, IInv
<1>2. SyncInit => CompactionKeepsUp /\ LogBytesMatch /\ Promise!Init
    BY InitKeepsUp, InitBytesMatch, InitPromise DEF SyncInit
<1>3. SyncInv /\ CompactionKeepsUp /\ [SyncNext]_allVars => CompactionKeepsUp'
    BY RepositoryStep, CompactionInductive DEF SyncInv, ServerIdle, vars
<1>4. SyncInv /\ LogBytesMatch /\ [SyncNext]_allVars => LogBytesMatch'
    BY RepositoryStep, BytesMatchInductive DEF SyncInv, ServerIdle, vars
<1>5. SyncInv /\ LogBytesMatch => AlwaysLoadable
    BY LoadableOf DEF SyncInv
<1>6. SyncInv /\ [SyncNext]_allVars => [Promise!Next]_Promise!vars
    BY RepositoryStep, PromiseStep DEF SyncInv, ServerIdle, vars
<1>7. SyncInv /\ [SyncNext]_allVars => [BoundaryStep]_vars
    BY RepositoryStep, BoundaryOf DEF SyncInv, ServerIdle, vars
<1> QED
    BY <1>1, <1>2, <1>3, <1>4, <1>5, <1>6, <1>7, SyncInvariant, PTL
       DEF SyncSpec, KeepsPromise, Promise!Spec, FullLogOnlyCompacts
=============================================================================
