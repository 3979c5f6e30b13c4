----------------------- MODULE CodeSyncDeliveryProofs -----------------------
(***************************************************************************)
(* Proofs of what CodeSync delivers.                                       *)
(*                                                                         *)
(* To the server: causes before effects.  As long as no local write has    *)
(* failed, every queue an edit passes on its way is in causal order: the   *)
(* tab's write queue, the outbox, pending, and what is under way to the    *)
(* server needs nothing the server lacks.                                  *)
(*                                                                         *)
(* To the tabs: all of it.  From the moment the answer to a tab's sync     *)
(* request is on its way, the document and the frames under way to it hold *)
(* whatever the server does.                                               *)
(***************************************************************************)
EXTENDS CodeSyncProofs

\* Whatever an entry needs is stored or stands before it.
InOrder(s, C) ==
    \A i \in DOMAIN s : \A x \in Deps[s[i]] : x \in C \/ \E j \in 1 .. i - 1 : s[j] = x

OrderedTab(p, C) ==
    /\ InOrder(p.pending, C)
    /\ \A f \in Range(p.up) : f.type = "update" => Deps[f.op] \subseteq C
    /\ p.phase = "running" =>
          \A x \in Unsaved(p, C) : \E i \in Locals(p) : p.writes[i].op = x
    /\ \A i \in Locals(p) : \A x \in Deps[p.writes[i].op] :
          \/ x \in C \cup Range(p.pending)
          \/ \E j \in Locals(p) : j < i /\ p.writes[j].op = x

Ordered ==
    /\ ~HasPendingDependencies(Content)
    /\ \A d \in Device : InOrder(disk[d].outbox, Content)
    /\ \A f \in late : Deps[f.op] \subseteq Content
    /\ \A t \in Tab : OrderedTab(tab[t], Content)

SpentTyped ==
    spent \in [disconnects : Nat, reloads : Nat, failures : Nat,
               refusals : Nat, syncRefusals : Nat, timeouts : Nat]

OrderInv == SyncInv /\ SpentTyped /\ (spent.failures = 0 => Ordered)

\* What OrderedTab speaks of is as it was, and nothing new goes to the server.
KeepsOrder(p, q) ==
    /\ q.phase = p.phase /\ q.doc = p.doc /\ q.writes = p.writes /\ q.pending = p.pending
    /\ \A f \in Range(q.up) : f.type = "update" => f \in Range(p.up)

-----------------------------------------------------------------------------
LEMMA OrderKept ==
    ASSUME NEW p, NEW q, NEW C, KeepsOrder(p, q), OrderedTab(p, C)
    PROVE  OrderedTab(q, C)
BY DEF KeepsOrder, OrderedTab, Unsaved, Locals

LEMMA OrderMonotone ==
    ASSUME NEW p, NEW C, NEW D, C \subseteq D, OrderedTab(p, C)
    PROVE  OrderedTab(p, D)
<1>1. InOrder(p.pending, D)
    BY DEF OrderedTab, InOrder
<1>2. Unsaved(p, D) \subseteq Unsaved(p, C)
    BY DEF Unsaved
<1> QED
    BY <1>1, <1>2 DEF OrderedTab

\* The local writes and what they stand for are the same.
LEMMA OrderSame ==
    ASSUME NEW p, NEW q, NEW C, OrderedTab(p, C),
           q.phase = p.phase, q.pending = p.pending, q.up = p.up,
           Unsaved(q, C) = Unsaved(p, C), Locals(q) = Locals(p),
           \A i \in Locals(p) : q.writes[i] = p.writes[i]
    PROVE  OrderedTab(q, C)
<1>1. \A i \in Locals(q) : \A x \in Deps[q.writes[i].op] :
          \/ x \in C \cup Range(q.pending)
          \/ \E j \in Locals(q) : j < i /\ q.writes[j].op = x
    <2> SUFFICES ASSUME NEW i \in Locals(q), NEW x \in Deps[q.writes[i].op],
                        x \notin C \cup Range(q.pending)
                 PROVE  \E j \in Locals(q) : j < i /\ q.writes[j].op = x
        OBVIOUS
    <2>1. x \in Deps[p.writes[i].op] /\ x \notin C \cup Range(p.pending) /\ i \in Locals(p)
        OBVIOUS
    <2>2. PICK j \in Locals(p) : j < i /\ p.writes[j].op = x
        BY <2>1 DEF OrderedTab
    <2> QED
        BY <2>2
<1>2. ASSUME q.phase = "running", NEW x \in Unsaved(q, C)
      PROVE  \E i \in Locals(q) : q.writes[i].op = x
    <2>1. PICK i \in Locals(p) : p.writes[i].op = x
        BY <1>2 DEF OrderedTab
    <2> QED
        BY <2>1
<1>3. InOrder(q.pending, C) /\ \A f \in Range(q.up) : f.type = "update" => Deps[f.op] \subseteq C
    BY DEF OrderedTab
<1> QED
    BY <1>1, <1>2, <1>3 DEF OrderedTab

\* Pumping sends the head of pending, and before the head there is nothing.
LEMMA OrderPumped ==
    ASSUME NEW C, NEW L, NEW K, NEW F, NEW p \in TabOver(C, L, K, F), OrderedTab(p, C)
    PROVE  OrderedTab(Pumped(p), C)
<1>1. CASE ~CanPump(p)
    BY <1>1 DEF Pumped
<1>2. CASE CanPump(p)
    <2> DEFINE o == Head(p.pending)
               frame == [type |-> "update", op |-> o]
               q == [p EXCEPT !.inFlight = o, !.up = Append(p.up, frame)]
    <2>1. /\ p.pending \in Seq(K \ Seed) /\ p.pending # <<>> /\ p.up \in Seq(UpFrame(K))
          /\ Pumped(p) = q
        BY <1>2 DEF CanPump, TabOver, Pumped
    <2>2. o = p.pending[1] /\ 1 \in DOMAIN p.pending
        BY <2>1
    <2>3. Deps[o] \subseteq C
        BY <2>2 DEF OrderedTab, InOrder
    <2>4. Range(Append(p.up, frame)) = Range(p.up) \cup {frame}
        <3> HIDE DEF frame, UpFrame
        <3> QED
            BY <2>1, RangeOfAppend
    <2>5. frame.op = o
        OBVIOUS
    <2> HIDE DEF frame, o
    <2>6. /\ q.phase = p.phase /\ q.doc = p.doc /\ q.writes = p.writes /\ q.pending = p.pending
          /\ q.up = Append(p.up, frame)
        BY DEF TabOver
    <2> HIDE DEF q
    <2> QED
        BY <2>1, <2>3, <2>4, <2>5, <2>6 DEF OrderedTab, Unsaved, Locals
<1> QED
    BY <1>1, <1>2

\* The head of the write queue is done, and was no local write.
LEMMA OrderTail ==
    ASSUME NEW C, NEW L, NEW K, NEW F, NEW p \in TabOver(C, L, K, F), OrderedTab(p, C),
           p.writes # <<>>, Head(p.writes).kind # "local"
    PROVE  OrderedTab([p EXCEPT !.writes = Tail(@)], C)
<1> DEFINE s == p.writes
           W == Write(C, L, F)
           q == [p EXCEPT !.writes = Tail(@)]
<1>1. s \in Seq(W)
    BY DEF TabOver
<1>2. /\ Head(s) = s[1] /\ Len(s) \in Nat /\ DOMAIN s = 1 .. Len(s)
      /\ DOMAIN Tail(s) = 1 .. Len(s) - 1
      /\ \A i \in 1 .. Len(s) - 1 : Tail(s)[i] = s[i + 1]
    <2> HIDE DEF W, s
    <2>1. Tail(s) \in Seq(W) /\ Len(Tail(s)) = Len(s) - 1
        BY <1>1, TailOf DEF s
    <2> QED
        BY <1>1, <2>1, TailOf DEF s
<1>3. q.writes = Tail(s) /\ q.phase = p.phase /\ q.doc = p.doc /\ q.pending = p.pending /\ q.up = p.up
    BY DEF TabOver
<1> HIDE DEF q
<1>4. \A i \in Locals(q) : i \in Nat /\ i + 1 \in Locals(p) /\ q.writes[i] = p.writes[i + 1]
    BY <1>2, <1>3 DEF Locals
<1>5. \A i \in Locals(p) : i - 1 \in Locals(q) /\ q.writes[i - 1] = p.writes[i]
    <2> SUFFICES ASSUME NEW i \in Locals(p) PROVE i - 1 \in Locals(q) /\ q.writes[i - 1] = p.writes[i]
        OBVIOUS
    <2>1. i \in 1 .. Len(s) /\ i # 1
        BY <1>2 DEF Locals
    <2>2. i - 1 \in 1 .. Len(s) - 1 /\ (i - 1) + 1 = i
        BY <1>2, <2>1
    <2>3. q.writes[i - 1] = p.writes[i] /\ i - 1 \in DOMAIN q.writes
        BY <1>2, <1>3, <2>2
    <2> QED
        BY <2>3 DEF Locals
<1>6. \A i \in Locals(q) : \A x \in Deps[q.writes[i].op] :
          \/ x \in C \cup Range(q.pending)
          \/ \E j \in Locals(q) : j < i /\ q.writes[j].op = x
    <2> SUFFICES ASSUME NEW i \in Locals(q), NEW x \in Deps[q.writes[i].op],
                        x \notin C \cup Range(q.pending)
                 PROVE  \E j \in Locals(q) : j < i /\ q.writes[j].op = x
        OBVIOUS
    <2>1. i \in Nat /\ i + 1 \in Locals(p) /\ q.writes[i] = p.writes[i + 1]
        BY <1>4
    <2> DEFINE k == i + 1
    <2>5. k \in Locals(p) /\ x \in Deps[p.writes[k].op] /\ x \notin C \cup Range(p.pending)
        BY <1>3, <2>1
    <2> HIDE DEF k
    <2>6. \E j \in Locals(p) : j < k /\ p.writes[j].op = x
        BY <2>5 DEF OrderedTab
    <2>2. PICK j \in Locals(p) : j < i + 1 /\ p.writes[j].op = x
        BY <2>6 DEF k
    <2>3. j - 1 \in Locals(q) /\ q.writes[j - 1] = p.writes[j]
        BY <1>5
    <2>4. j \in Nat
        BY <1>2 DEF Locals
    <2> QED
        BY <2>1, <2>2, <2>3, <2>4
<1>7. ASSUME p.phase = "running", NEW x \in Unsaved(q, C)
      PROVE  \E i \in Locals(q) : q.writes[i].op = x
    <2>1. x \in Unsaved(p, C)
        BY <1>3, <1>7 DEF Unsaved
    <2>2. PICK i \in Locals(p) : p.writes[i].op = x
        BY <1>7, <2>1 DEF OrderedTab
    <2> QED
        BY <1>5, <2>2
<1> QED
    BY <1>3, <1>6, <1>7 DEF OrderedTab, q

\* An entry behind the others that is no local write.
LEMMA OrderBehind ==
    ASSUME NEW C, NEW L, NEW K, NEW F, NEW p \in TabOver(C, L, K, F), OrderedTab(p, C),
           NEW w \in Write(C, L, F), w.kind # "local"
    PROVE  OrderedTab([p EXCEPT !.writes = Append(@, w)], C)
<1> DEFINE q == [p EXCEPT !.writes = Append(@, w)]
<1>1. p.writes \in Seq(Write(C, L, F))
    BY DEF TabOver
<1>2. /\ q.doc = p.doc /\ q.phase = p.phase /\ q.up = p.up /\ q.pending = p.pending
      /\ q.writes = Append(p.writes, w)
    BY DEF TabOver
<1> HIDE DEF q
<1>3. Locals(q) = Locals(p) /\ \A i \in Locals(p) : q.writes[i] = p.writes[i]
    <2>1. /\ DOMAIN q.writes = 1 .. Len(p.writes) + 1 /\ DOMAIN p.writes = 1 .. Len(p.writes)
          /\ Len(p.writes) \in Nat
          /\ q.writes[Len(p.writes) + 1] = w
          /\ \A i \in 1 .. Len(p.writes) : q.writes[i] = p.writes[i]
        BY <1>1, <1>2
    <2> QED
        BY <2>1 DEF Locals
<1>4. Unsaved(q, C) = Unsaved(p, C)
    BY <1>2 DEF Unsaved
<1> QED
    BY <1>2, <1>3, <1>4, OrderSame DEF q

\* The server's operations are no edits of this tab.
LEMMA OrderApplied ==
    ASSUME NEW C, NEW L, NEW K, NEW F, NEW p \in TabOver(C, L, K, F), Sound(p, C, L, K),
           OrderedTab(p, C), C \subseteq Op, NEW u \in SUBSET C
    PROVE  OrderedTab(Applied(p, u), C)
<1> DEFINE fresh == Integrated(p.doc \cup u) \ Integrated(p.doc)
           doc == p.doc \cup u
           w == [kind |-> "remote", ops |-> fresh]
           writes == IF fresh = {} THEN p.writes ELSE Append(p.writes, w)
           q == [p EXCEPT !.doc = doc, !.writes = writes]
<1>1. Applied(p, u) = q
    BY DEF Applied, TabOver
<1>2. p.writes \in Seq(Write(C, L, F))
    BY DEF TabOver
<1>3. w.kind = "remote"
    OBVIOUS
<1>4. /\ q.doc = p.doc \cup u /\ q.phase = p.phase /\ q.up = p.up /\ q.pending = p.pending
      /\ q.writes = writes
    BY DEF TabOver
<1>5. Unsaved(q, C) = Unsaved(p, C)
    BY <1>4 DEF Unsaved
<1>6. Locals(q) = Locals(p) /\ \A i \in Locals(p) : q.writes[i] = p.writes[i]
    <2> HIDE DEF fresh, w, q
    <2>1. CASE fresh = {}
        BY <1>4, <2>1 DEF Locals
    <2>2. CASE fresh # {}
        <3>1. q.writes = Append(p.writes, w)
            BY <1>4, <2>2
        <3>2. /\ DOMAIN q.writes = 1 .. Len(p.writes) + 1 /\ DOMAIN p.writes = 1 .. Len(p.writes)
              /\ Len(p.writes) \in Nat
              /\ q.writes[Len(p.writes) + 1] = w
              /\ \A i \in 1 .. Len(p.writes) : q.writes[i] = p.writes[i]
            <4> HIDE DEF Write
            <4>1. \A W, s, e : s \in Seq(W) =>
                      /\ DOMAIN Append(s, e) = 1 .. Len(s) + 1 /\ DOMAIN s = 1 .. Len(s)
                      /\ Len(s) \in Nat
                      /\ Append(s, e)[Len(s) + 1] = e
                      /\ \A i \in 1 .. Len(s) : Append(s, e)[i] = s[i]
                OBVIOUS
            <4> QED
                BY <1>2, <3>1, <4>1
        <3> QED
            BY <1>3, <3>2 DEF Locals
    <2> QED
        BY <2>1, <2>2
<1> HIDE DEF q
<1> QED
    BY <1>1, <1>4, <1>5, <1>6, OrderSame

LEMMA OrderDropped ==
    ASSUME NEW C, NEW L, NEW K, NEW F, NEW p \in TabOver(C, L, K, F), OrderedTab(p, C)
    PROVE  OrderedTab(Dropped(p), C) /\ OrderedTab(Failed(p), C)
<1>1. ASSUME NEW q \in TabOver(C, L, K, F), OrderedTab(q, C) PROVE OrderedTab(Dropped(q), C)
    <2>1. /\ Dropped(q).phase = q.phase /\ Dropped(q).doc = q.doc /\ Dropped(q).writes = q.writes
          /\ Dropped(q).pending = q.pending /\ Dropped(q).up = <<>>
        BY DEF Dropped, Cut, TabOver
    <2>2. Range(<<>>) = {}
        BY DEF Range
    <2> QED
        BY <1>1, <2>1, <2>2, OrderKept DEF KeepsOrder
<1> DEFINE q == [p EXCEPT !.connection = "error"]
<1>2. q \in TabOver(C, L, K, F) /\ KeepsOrder(p, q)
    BY DEF TabOver, KeepsOrder
<1> HIDE DEF q
<1>3. OrderedTab(q, C)
    BY <1>2, OrderKept
<1> QED
    BY <1>1, <1>2, <1>3 DEF Failed, q

\* A stored update may leave a queue without anyone missing it.
LEMMA InOrderWithout ==
    ASSUME NEW S, NEW s \in Seq(S), NEW C, InOrder(s, C), NEW o \in C
    PROVE  InOrder(Without(s, o), C)
<1>1. CASE o \notin Range(s)
    BY <1>1 DEF Without
<1>2. CASE o \in Range(s)
    <2> DEFINE r == Without(s, o)
    <2>1. PICK at \in 1 .. Len(s) :
             /\ s[at] = o
             /\ r \in Seq(S)
             /\ Len(r) = Len(s) - 1
             /\ \A i \in 1 .. Len(s) - 1 : r[i] = IF i < at THEN s[i] ELSE s[i + 1]
        BY <1>2, WithoutShape
    <2> HIDE DEF r
    <2>2. Len(s) \in Nat /\ DOMAIN s = 1 .. Len(s) /\ DOMAIN r = 1 .. Len(s) - 1
        BY <2>1
    <2>3. ASSUME NEW i \in 1 .. Len(s) - 1, NEW x \in Deps[r[i]], x \notin C
          PROVE  \E j \in 1 .. i - 1 : r[j] = x
        <3>1. CASE i < at
            <4>1. r[i] = s[i] /\ i \in DOMAIN s
                BY <2>1, <2>2, <3>1
            <4>2. PICK j \in 1 .. i - 1 : s[j] = x
                BY <2>3, <4>1 DEF InOrder
            <4>3. r[j] = s[j]
                BY <2>1, <2>2, <3>1
            <4> QED
                BY <4>2, <4>3
        <3>2. CASE ~(i < at)
            <4>1. r[i] = s[i + 1] /\ i + 1 \in DOMAIN s
                BY <2>1, <2>2, <3>2
            <4>2. PICK j \in 1 .. i + 1 - 1 : s[j] = x
                BY <2>3, <4>1 DEF InOrder
            <4>3. j # at
                BY <2>1, <2>3, <4>2
            <4>4. CASE j < at
                <5>1. r[j] = s[j] /\ j \in 1 .. i - 1
                    BY <2>1, <2>2, <3>2, <4>4
                <5> QED
                    BY <4>2, <5>1
            <4>5. CASE at < j
                <5>1. r[j - 1] = s[j] /\ j - 1 \in 1 .. i - 1
                    BY <2>1, <2>2, <3>2, <4>5
                <5> QED
                    BY <4>2, <5>1
            <4> QED
                BY <2>2, <4>3, <4>4, <4>5
        <3> QED
            BY <3>1, <3>2
    <2> QED
        BY <2>2, <2>3 DEF InOrder, r
<1> QED
    BY <1>1, <1>2
-----------------------------------------------------------------------------
\* A step of one tab that at most tells the others of an update.
LEMMA OrderStep ==
    ASSUME SyncInv, Ordered, NEW t \in Tab, NEW o,
           Content \subseteq Content', ~HasPendingDependencies(Content'),
           OrderedTab(tab'[t], Content'),
           \A p \in Tab \ {t} : tab'[p] = tab[p] \/ tab'[p] = Heard(tab[p], o),
           \A d \in Device : InOrder(disk'[d].outbox, Content'),
           \A f \in late' : f \in late \/ Deps[f.op] \subseteq Content'
    PROVE  Ordered'
<1>1. ASSUME NEW p \in Tab PROVE OrderedTab(tab'[p], Content')
    <2>1. CASE p = t
        BY <2>1
    <2>2. CASE p # t
        <3>1. OrderedTab(tab[p], Content')
            BY OrderMonotone DEF Ordered
        <3>2. tab[p] \in TabOver(Op, Op, Op, Op)
            BY DEF SyncInv
        <3>3. KeepsOrder(tab[p], Heard(tab[p], o))
            BY <3>2 DEF Heard, TabOver, KeepsOrder
        <3>4. OrderedTab(Heard(tab[p], o), Content')
            BY <3>1, <3>3, OrderKept
        <3> QED
            BY <2>2, <3>1, <3>4
    <2> QED
        BY <2>1, <2>2
<1>2. \A f \in late' : Deps[f.op] \subseteq Content'
    BY DEF Ordered
<1> QED
    BY <1>1, <1>2 DEF Ordered

\* A step of one tab that leaves the server and the disk alone.
LEMMA OrderLocalStep ==
    ASSUME SyncInv, Ordered, ServerIdle, NEW t \in Tab, NEW q, Becomes(t, q),
           OrderedTab(q, Content), UNCHANGED disk,
           \A f \in late' : f \in late \/ Deps[f.op] \subseteq Content
    PROVE  Ordered'
<1>1. Content' = Content
    BY ServerIdleKeeps DEF SyncInv
<1>2. tab'[t] = q /\ \A p \in Tab \ {t} : tab'[p] = tab[p]
    BY DEF SyncInv, Becomes
<1>3. \A d \in Device : InOrder(disk'[d].outbox, Content')
    BY <1>1 DEF Ordered
<1>4. ~HasPendingDependencies(Content')
    BY <1>1 DEF Ordered
<1> QED
    BY <1>1, <1>2, <1>3, <1>4, OrderStep

\* Frames a lost socket leaves behind.
LEMMA OrderLeftBehind ==
    ASSUME SyncInv, Ordered, NEW t \in Tab, LeaveBehind(t)
    PROVE  \A f \in late' : f \in late \/ Deps[f.op] \subseteq Content
<1>1. PICK read \in 0 .. Len(tab[t].up) :
         late' = late \cup {[tab |-> t, op |-> tab[t].up[i].op] :
                               i \in {j \in 1 .. read : tab[t].up[j].type = "update"}}
    BY DEF LeaveBehind
<1>2. tab[t].up \in Seq(UpFrame(Op))
    BY DEF SyncInv, TabOver
<1>3. DOMAIN tab[t].up = 1 .. Len(tab[t].up) /\ Len(tab[t].up) \in Nat
    BY <1>2
<1>4. ASSUME NEW i \in 1 .. read PROVE tab[t].up[i] \in Range(tab[t].up)
    BY <1>3 DEF Range
<1>5. \A i \in 1 .. read : tab[t].up[i].type = "update" => Deps[tab[t].up[i].op] \subseteq Content
    BY <1>4 DEF Ordered, OrderedTab
<1> QED
    BY <1>1, <1>5

\* What is known of the tab that takes a step.
LEMMA OrderHere ==
    ASSUME SyncInv, Ordered, NEW t \in Tab
    PROVE  /\ OrderedTab(tab[t], Content) /\ tab[t] \in Here(t)
           /\ Sound(tab[t], Content, Logged(DeviceOf[t]), Sent(DeviceOf[t]))
           /\ Content \subseteq Op
BY SetsTyped DEF Ordered, SoundHere

\* Steps that change nothing OrderedTab speaks of, or send a sync request.
LEMMA OrderQuietStep ==
    ASSUME SyncInv, Ordered, NEW t \in Tab,
           \/ Connect(t) \/ Disconnect(t) \/ ReceiveReady(t)
           \/ ServeSync(t) \/ RefuseUpdate(t) \/ RefuseSync(t)
    PROVE  Ordered'
<1> DEFINE p == tab[t]
<1>1. p \in TabOver(Op, Op, Op, Op) /\ OrderedTab(p, Content)
    BY OrderHere DEF SyncInv
<1>2. CASE Connect(t)
    <2> DEFINE q == [p EXCEPT !.connected = TRUE, !.connection = "syncing",
                              !.down = <<[type |-> "ready"]>>]
    <2>1. Becomes(t, q) /\ ServerIdle /\ UNCHANGED <<disk, late>>
        BY <1>2 DEF Connect
    <2>2. KeepsOrder(p, q)
        BY <1>1 DEF TabOver, KeepsOrder
    <2> HIDE DEF p, q
    <2> QED
        BY <1>1, <2>1, <2>2, OrderKept, OrderLocalStep
<1>3. CASE Disconnect(t)
    <2>1. Becomes(t, Dropped(p)) /\ ServerIdle /\ UNCHANGED disk /\ LeaveBehind(t)
        BY <1>3 DEF Disconnect
    <2>2. OrderedTab(Dropped(p), Content)
        BY OrderHere, OrderDropped DEF Here
    <2> QED
        BY <2>1, <2>2, OrderLeftBehind, OrderLocalStep
<1>4. CASE ReceiveReady(t)
    <2> DEFINE r == Read(t)
               frame == [type |-> "sync", vector |-> StateVector(tab[t].doc)]
               q == [r EXCEPT !.socketReady = TRUE, !.syncComplete = FALSE, !.syncRequest = TRUE,
                              !.connection = "syncing", !.up = Append(r.up, frame)]
    <2>1. Becomes(t, q) /\ ServerIdle /\ UNCHANGED <<disk, late>>
        BY <1>4 DEF ReceiveReady
    <2>2. r.up = p.up /\ p.up \in Seq(UpFrame(Op))
        BY <1>1 DEF Read, TabOver
    <2>3. Range(Append(p.up, frame)) = Range(p.up) \cup {frame} /\ frame.type # "update"
        <3> HIDE DEF UpFrame, p
        <3> QED
            BY <2>2, RangeOfAppend, Zenon
    <2>4. /\ q.phase = p.phase /\ q.doc = p.doc /\ q.writes = p.writes /\ q.pending = p.pending
          /\ q.up = Append(p.up, frame)
        <3> HIDE DEF frame
        <3> QED
            BY <1>1, <2>2 DEF Read, TabOver
    <2> HIDE DEF q, frame
    <2>5. KeepsOrder(p, q)
        BY <2>3, <2>4 DEF KeepsOrder
    <2> HIDE DEF p
    <2> QED
        BY <1>1, <2>1, <2>5, OrderKept, OrderLocalStep
<1>5. ASSUME p.up # <<>> PROVE Range(Tail(p.up)) \subseteq Range(p.up)
    <2>1. p.up \in Seq(UpFrame(Op))
        BY <1>1 DEF TabOver
    <2> HIDE DEF UpFrame
    <2> QED
        BY <1>5, <2>1, TailOf
<1>6. CASE ServeSync(t)
    <2> DEFINE parts == MissingUpdates(Head(tab[t].up).vector)
               frames == [i \in DOMAIN parts |->
                             [type |-> "part", update |-> parts[i], done |-> i = Len(parts)]]
               down == p.down \o frames
               up == Tail(p.up)
               q == [p EXCEPT !.up = up, !.down = down]
    <2>1. Becomes(t, q) /\ ServerIdle /\ UNCHANGED <<disk, late>> /\ p.up # <<>>
        BY <1>6 DEF ServeSync, ServerReads
    <2> HIDE DEF down
    <2>2. KeepsOrder(p, q)
        BY <1>1, <1>5, <2>1 DEF TabOver, KeepsOrder
    <2> HIDE DEF p, q
    <2> QED
        BY <1>1, <2>1, <2>2, OrderKept, OrderLocalStep
<1>7. CASE RefuseUpdate(t) \/ RefuseSync(t)
    <2> DEFINE q == [p EXCEPT !.up = Tail(p.up)]
    <2>1. Becomes(t, q) /\ ServerIdle /\ UNCHANGED <<disk, late>> /\ p.up # <<>>
        BY <1>7 DEF RefuseUpdate, RefuseSync, ServerReads
    <2>2. KeepsOrder(p, q)
        BY <1>1, <1>5, <2>1 DEF TabOver, KeepsOrder
    <2> HIDE DEF p, q
    <2> QED
        BY <1>1, <2>1, <2>2, OrderKept, OrderLocalStep
<1> QED
    BY <1>2, <1>3, <1>4, <1>6, <1>7

\* Opening, starting and closing a tab.
LEMMA OrderLifeStep ==
    ASSUME SyncInv, Ordered, NEW t \in Tab, Open(t) \/ Close(t) \/ Start(t)
    PROVE  Ordered'
<1> DEFINE p == tab[t]
           d == DeviceOf[t]
<1>1. /\ p \in TabOver(Op, Op, Op, Op) /\ OrderedTab(p, Content) /\ d \in Device
      /\ Sound(p, Content, Logged(d), Sent(d))
    BY OrderHere, SetsTyped DEF SyncInv
<1>2. ASSUME NEW q, q.phase # "running", q.writes = <<>>, q.up = <<>>, q.pending = <<>>
      PROVE  OrderedTab(q, Content)
    <2>1. Range(q.up) = {} /\ Locals(q) = {} /\ InOrder(q.pending, Content)
        BY <1>2 DEF Range, Locals, InOrder
    <2> QED
        BY <1>2, <2>1 DEF OrderedTab
<1>3. CASE Open(t)
    <2> DEFINE q == [Closed EXCEPT !.phase = "loaded", !.doc = disk[d].log]
    <2>1. Becomes(t, q) /\ ServerIdle /\ UNCHANGED <<disk, late>>
        BY <1>3 DEF Open
    <2>2. q.phase # "running" /\ q.writes = <<>> /\ q.up = <<>> /\ q.pending = <<>>
        BY DEF Closed
    <2> HIDE DEF q
    <2>3. OrderedTab(q, Content)
        BY <1>2, <2>2
    <2> QED
        BY <2>1, <2>3, OrderLocalStep
<1>4. CASE Close(t)
    <2>1. Becomes(t, Closed) /\ ServerIdle /\ UNCHANGED disk /\ LeaveBehind(t)
        BY <1>4 DEF Close
    <2>2. Closed.phase # "running" /\ Closed.writes = <<>> /\ Closed.up = <<>> /\ Closed.pending = <<>>
        BY DEF Closed
    <2>3. OrderedTab(Closed, Content)
        BY <1>2, <2>2
    <2> QED
        BY <2>1, <2>3, OrderLeftBehind, OrderLocalStep
<1>5. CASE Start(t)
    <2> DEFINE local == Integrated(p.doc) # {}
               ready == local /\ Valid(p.doc)
               connection == IF local /\ ~Valid(p.doc) THEN "error" ELSE "offline"
               durability == IF local /\ ~Valid(p.doc) THEN "at-risk" ELSE p.durability
               q == [p EXCEPT !.phase = "running", !.pending = disk[d].outbox,
                              !.documentReady = ready, !.connection = connection,
                              !.durability = durability]
    <2>1. Becomes(t, q) /\ ServerIdle /\ UNCHANGED <<disk, late>> /\ p.phase = "loaded"
        BY <1>5 DEF Start
    <2>2. p = [Closed EXCEPT !.phase = "loaded", !.doc = p.doc] /\ p.doc \subseteq Sent(d)
        BY <1>1, <2>1 DEF Sound
    <2>3. p.writes = <<>> /\ p.up = <<>>
        <3> DEFINE opened == [Closed EXCEPT !.phase = "loaded", !.doc = p.doc]
        <3>1. opened.writes = <<>> /\ opened.up = <<>>
            BY DEF Closed
        <3>2. p = opened
            BY <2>2
        <3> HIDE DEF opened, p
        <3> QED
            BY <3>1, <3>2
    <2> HIDE DEF ready, connection, durability
    <2>4. q.writes = <<>> /\ q.up = <<>> /\ q.doc = p.doc /\ q.pending = disk[d].outbox
        BY <1>1, <2>3 DEF TabOver
    <2> HIDE DEF q
    <2>5. Unsaved(q, Content) = {}
        BY <2>2, <2>4 DEF Unsaved, Sent
    <2>6. Range(q.up) = {} /\ Locals(q) = {}
        BY <2>4 DEF Range, Locals
    <2>7. OrderedTab(q, Content)
        BY <1>1, <2>4, <2>5, <2>6 DEF OrderedTab, Ordered
    <2> QED
        BY <2>1, <2>7, OrderLocalStep
<1> QED
    BY <1>3, <1>4, <1>5
\* What the server sent arrives.
LEMMA OrderReceiveStep ==
    ASSUME SyncInv, Ordered, NEW t \in Tab,
           ReceivePart(t) \/ ReceiveRemote(t) \/ ReceiveAck(t)
    PROVE  Ordered'
<1> DEFINE C == Content
           L == Logged(DeviceOf[t])
           K == Sent(DeviceOf[t])
           F == Unwritten(t)
           f == Head(tab[t].down)
           p == Read(t)
<1>1. tab[t].down # <<>> /\ ServerIdle /\ UNCHANGED <<disk, late>>
    BY DEF ReceivePart, ReceiveRemote, ReceiveAck, Arrived
<1>2. /\ p \in TabOver(C, L, K, F) /\ Sound(p, C, L, K) /\ p.phase = "running" /\ f \in DownFrame(C)
      /\ C \subseteq Op /\ C \subseteq L
    BY <1>1, HeadFrame, SetsTyped DEF Here
<1>3. OrderedTab(p, C)
    <2>1. KeepsOrder(tab[t], p)
        <3>1. tab[t] \in TabOver(Op, Op, Op, Op)
            BY DEF SyncInv
        <3> QED
            BY <3>1 DEF Read, TabOver, KeepsOrder
    <2> HIDE DEF p
    <2> QED
        BY <2>1, OrderHere, OrderKept
<1> HIDE DEF p, L, K, F
<1>4. ASSUME NEW u \in SUBSET C
      PROVE  /\ OrderedTab(Applied(p, u), C) /\ Applied(p, u) \in TabOver(C, L, K, F)
    BY <1>2, <1>3, OrderApplied, AppliedKeeps
<1>5. CASE ReceivePart(t)
    <2> DEFINE a == Applied(p, f.update)
               finish == [kind |-> "finish"]
               q == [a EXCEPT !.syncRequest = FALSE, !.writes = Append(@, finish)]
               r == [a EXCEPT !.writes = Append(@, finish)]
    <2>1. Becomes(t, IF f.done THEN q ELSE a) /\ f.type = "part"
        BY <1>5 DEF ReceivePart, Arrived, p
    <2>2. f.update \in SUBSET C
        BY <1>2, <2>1 DEF DownFrame
    <2> HIDE DEF C, f
    <2>3. OrderedTab(a, C) /\ a \in TabOver(C, L, K, F)
        BY <1>4, <2>2
    <2> HIDE DEF a
    <2>4. finish \in Write(C, L, F) /\ finish.kind # "local"
        BY DEF Write
    <2> HIDE DEF finish
    <2>5. OrderedTab(r, C)
        BY <2>3, <2>4, OrderBehind
    <2>6. KeepsOrder(r, q)
        BY <2>3 DEF TabOver, KeepsOrder
    <2> HIDE DEF q, r
    <2>7. OrderedTab(q, C)
        BY <2>5, <2>6, OrderKept
    <2> QED
        BY <1>1, <2>1, <2>3, <2>7, OrderLocalStep DEF C
<1>6. CASE ReceiveRemote(t)
    <2>1. Becomes(t, Applied(p, {f.op})) /\ f.type = "remote"
        BY <1>6 DEF ReceiveRemote, Arrived, p
    <2>2. {f.op} \in SUBSET C
        BY <1>2, <2>1 DEF DownFrame
    <2> HIDE DEF f
    <2> QED
        BY <1>1, <1>4, <2>1, <2>2, OrderLocalStep
<1>7. CASE ReceiveAck(t)
    <2> DEFINE w == [kind |-> "ack", op |-> f.op]
               q == [p EXCEPT !.writes = Append(@, w)]
    <2>1. Becomes(t, IF tab[t].inFlight = f.op THEN q ELSE p) /\ f.type = "ack"
        BY <1>7 DEF ReceiveAck, Arrived, p
    <2>2. w \in Write(C, L, F) /\ w.kind # "local"
        BY <1>2, <2>1 DEF DownFrame, Write
    <2> HIDE DEF w, f, C
    <2>3. OrderedTab(q, C)
        BY <1>2, <1>3, <2>2, OrderBehind
    <2> HIDE DEF q
    <2> QED
        BY <1>1, <1>3, <2>1, <2>3, OrderLocalStep DEF C
<1> QED
    BY <1>5, <1>6, <1>7

\* The store has caught up with the sync, or the ACK timer fires.
LEMMA OrderPumpStep ==
    ASSUME SyncInv, Ordered, NEW t \in Tab, FinishSync(t) \/ AckTimeout(t)
    PROVE  Ordered'
<1> DEFINE C == Content
           L == Logged(DeviceOf[t])
           K == Sent(DeviceOf[t])
           F == Unwritten(t)
<1>1. ServerIdle /\ UNCHANGED disk
    BY DEF FinishSync, AckTimeout
<1>2. tab[t] \in TabOver(C, L, K, F) /\ OrderedTab(tab[t], C)
    BY OrderHere DEF Here
<1>3. CASE FinishSync(t)
    <2> DEFINE p == Rest(t)
               online == [p EXCEPT !.syncComplete = TRUE, !.connection = "online",
                                   !.documentReady = TRUE]
               q == IF p.writeFailure \/ ~Valid(p.doc) THEN Failed(p) ELSE Pumped(online)
    <2>1. /\ tab[t].writes # <<>> /\ Head(tab[t].writes).kind # "local" /\ Becomes(t, q)
          /\ late' = late \/ LeaveBehind(t)
        BY <1>3 DEF FinishSync, Awaiting, NextWrite
    <2>2. p \in TabOver(C, L, K, F)
        BY <2>1, HeadWrite DEF Here
    <2> HIDE DEF C, L, K, F
    <2>3. OrderedTab(p, C)
        BY <1>2, <2>1, OrderTail DEF Rest
    <2> HIDE DEF p
    <2>4. OrderedTab(Failed(p), C)
        BY <2>2, <2>3, OrderDropped
    <2>5. online \in TabOver(C, L, K, F) /\ KeepsOrder(p, online)
        BY <2>2 DEF TabOver, KeepsOrder
    <2> HIDE DEF online
    <2>6. OrderedTab(Pumped(online), C)
        BY <2>3, <2>5, OrderKept, OrderPumped
    <2>7. OrderedTab(q, C)
        BY <2>4, <2>6
    <2> HIDE DEF q
    <2> QED
        BY <1>1, <2>1, <2>7, OrderLeftBehind, OrderLocalStep DEF C
<1>4. CASE AckTimeout(t)
    <2> DEFINE q == [tab[t] EXCEPT !.inFlight = NoOp]
    <2>1. Becomes(t, Pumped(q)) /\ UNCHANGED late
        BY <1>4 DEF AckTimeout
    <2>2. q \in TabOver(C, L, K, F) /\ KeepsOrder(tab[t], q)
        BY <1>2 DEF TabOver, KeepsOrder
    <2> HIDE DEF C, L, K, F, q
    <2>3. OrderedTab(Pumped(q), C)
        BY <1>2, <2>2, OrderKept, OrderPumped
    <2> QED
        BY <1>1, <2>1, <2>3, OrderLocalStep DEF C
<1> QED
    BY <1>3, <1>4

LEMMA OrderFinishAckStep ==
    ASSUME SyncInv, Ordered, NEW t \in Tab, FinishAck(t)
    PROVE  Ordered'
<1> DEFINE d == DeviceOf[t]
           C == Content
           L == Logged(d)
           K == Sent(d)
           F == Unwritten(t)
           o == NextWrite(t).op
           p == Rest(t)
           refused == [p EXCEPT !.inFlight = NoOp, !.durability = "at-risk"]
           pending == Without(p.pending, o)
           q == [p EXCEPT !.pending = pending, !.inFlight = NoOp]
<1>1. /\ tab[t].writes # <<>> /\ Head(tab[t].writes).kind # "local" /\ ServerIdle
      /\ UNCHANGED late /\ NextWrite(t).kind = "ack"
    BY DEF FinishAck, Awaiting, NextWrite
<1>2. p \in TabOver(C, L, K, F) /\ NextWrite(t) \in Write(C, L, F)
    BY <1>1, HeadWrite DEF Here
<1>3. o \in C
    BY <1>1, <1>2 DEF Write
<1>4. OrderedTab(p, C)
    <2>1. tab[t] \in TabOver(C, L, K, F) /\ OrderedTab(tab[t], C)
        BY OrderHere DEF Here
    <2> HIDE DEF C, L, K, F
    <2> QED
        BY <1>1, <2>1, OrderTail DEF Rest
<1>5. CASE Becomes(t, refused) /\ UNCHANGED disk
    <2>1. KeepsOrder(p, refused)
        <3> HIDE DEF C, L, K, F, p
        <3> QED
            BY <1>2 DEF TabOver, KeepsOrder
    <2> HIDE DEF refused, p
    <2> QED
        BY <1>1, <1>4, <1>5, <2>1, OrderKept, OrderLocalStep
<1>6. CASE Becomes(t, Pumped(q)) /\ disk' = [disk EXCEPT ![d].outbox = Without(@, o)]
    <2>1. p.pending \in Seq(K \ Seed)
        <3> HIDE DEF C, L, K, F, p
        <3> QED
            BY <1>2 DEF TabOver
    <2>2. InOrder(p.pending, C)
        BY <1>4 DEF OrderedTab
    <2> HIDE DEF o, p, C, L, K, F
    <2>3. /\ pending \in Seq(K \ Seed) /\ InOrder(pending, C)
          /\ Range(pending) \subseteq Range(p.pending) /\ Range(p.pending) \subseteq Range(pending) \cup {o}
        BY <1>3, <2>1, <2>2, WithoutIn, InOrderWithout
    <2> HIDE DEF pending
    <2>4. /\ q \in TabOver(C, L, K, F)
          /\ q.phase = p.phase /\ q.doc = p.doc /\ q.writes = p.writes /\ q.up = p.up
          /\ q.pending = pending
        BY <1>2, <2>3 DEF TabOver
    <2> HIDE DEF q
    <2>5. Unsaved(q, C) = Unsaved(p, C) /\ Locals(q) = Locals(p)
        BY <1>3, <2>3, <2>4 DEF Unsaved, Locals
    <2>6. \A x : x \in C \cup Range(p.pending) => x \in C \cup Range(q.pending)
        BY <1>3, <2>3, <2>4
    <2>7. OrderedTab(q, C)
        <3>1. \A i \in Locals(q) : \A x \in Deps[q.writes[i].op] :
                  \/ x \in C \cup Range(q.pending)
                  \/ \E j \in Locals(q) : j < i /\ q.writes[j].op = x
            <4> SUFFICES ASSUME NEW i \in Locals(q), NEW x \in Deps[q.writes[i].op],
                                x \notin C \cup Range(q.pending)
                         PROVE  \E j \in Locals(q) : j < i /\ q.writes[j].op = x
                OBVIOUS
            <4>1. i \in Locals(p) /\ x \in Deps[p.writes[i].op] /\ x \notin C \cup Range(p.pending)
                BY <2>4, <2>5, <2>6
            <4>2. PICK j \in Locals(p) : j < i /\ p.writes[j].op = x
                BY <1>4, <4>1 DEF OrderedTab
            <4> QED
                BY <2>4, <2>5, <4>2
        <3> QED
            BY <1>4, <2>3, <2>4, <2>5, <3>1 DEF OrderedTab
    <2>8. OrderedTab(Pumped(q), C)
        BY <2>4, <2>7, OrderPumped
    <2>9. \A e \in Device : InOrder(disk'[e].outbox, C)
        <3>1. /\ d \in Device /\ disk \in [Device -> DiskState] /\ disk[d] \in DiskState
              /\ \A e \in Device : InOrder(disk[e].outbox, C)
            BY SetsTyped DEF SyncInv, Ordered, C
        <3>2. disk[d].outbox \in Seq(Op \ Seed)
            BY <3>1 DEF DiskState
        <3>3. InOrder(Without(disk[d].outbox, o), C)
            BY <1>3, <3>1, <3>2, InOrderWithout
        <3>4. /\ disk'[d].outbox = Without(disk[d].outbox, o)
              /\ \A e \in Device \ {d} : disk'[e] = disk[e]
            BY <1>6, <3>1 DEF DiskState
        <3> QED
            BY <3>1, <3>3, <3>4
    <2>10. Content' = Content
        BY <1>1, ServerIdleKeeps DEF SyncInv
    <2>11. tab'[t] = Pumped(q) /\ \A r \in Tab \ {t} : tab'[r] = tab[r]
        BY <1>6 DEF Becomes, SyncInv
    <2>12. ~HasPendingDependencies(Content')
        BY <2>10 DEF Ordered
    <2> QED
        BY <1>1, <2>8, <2>9, <2>10, <2>11, <2>12, OrderStep DEF C
<1> QED
    BY <1>5, <1>6 DEF FinishAck
-----------------------------------------------------------------------------
\* What the author saw is stored, pending or in the write queue before the edit.
LEMMA OrderEditStep ==
    ASSUME SyncInv, Ordered, NEW t \in Tab, NEW o \in Op \ Seed, Edit(t, o)
    PROVE  Ordered'
<1> DEFINE C == Content
           p == tab[t]
           w == [kind |-> "local", op |-> o]
           writes == Append(p.writes, w)
           q == [p EXCEPT !.doc = @ \cup {o}, !.writes = writes, !.queued = @ + 1,
                          !.durability = "writing"]
           n == Len(p.writes) + 1
<1>1. /\ Becomes(t, q) /\ ServerIdle /\ UNCHANGED <<disk, late>>
      /\ Deps[o] \subseteq Integrated(p.doc) /\ p.documentReady
    BY DEF Edit
<1>2. p \in TabOver(Op, Op, Op, Op) /\ OrderedTab(p, C) /\ p.phase = "running"
    BY <1>1, OrderHere, RunningTab DEF SyncInv
<1>3. p.writes \in Seq(Write(Op, Op, Op))
    BY <1>2 DEF TabOver
<1>4. /\ DOMAIN writes = 1 .. n /\ DOMAIN p.writes = 1 .. Len(p.writes)
      /\ Len(p.writes) \in Nat /\ writes[n] = w
      /\ \A i \in 1 .. Len(p.writes) : writes[i] = p.writes[i]
    BY <1>3
<1> HIDE DEF w, writes, C
<1>5. /\ q.doc = p.doc \cup {o} /\ q.writes = writes /\ q.pending = p.pending /\ q.up = p.up
      /\ q.phase = "running"
    BY <1>2 DEF TabOver
<1> HIDE DEF q, p
<1>6. /\ Locals(q) = Locals(p) \cup {n} /\ \A i \in Locals(p) : i < n /\ q.writes[i] = p.writes[i]
      /\ q.writes[n].op = o
    BY <1>4, <1>5 DEF Locals, w
<1>7. \A x \in Deps[o] : \/ x \in C \cup Range(p.pending)
                         \/ \E j \in Locals(p) : p.writes[j].op = x
    <2> SUFFICES ASSUME NEW x \in Deps[o], x \notin C \cup Range(p.pending)
                 PROVE  \E j \in Locals(p) : p.writes[j].op = x
        OBVIOUS
    <2>1. x \in Unsaved(p, C)
        BY <1>1 DEF Integrated, Unsaved
    <2> QED
        BY <1>2, <2>1 DEF OrderedTab
<1>8. \A i \in Locals(q) : \A x \in Deps[q.writes[i].op] :
          \/ x \in C \cup Range(q.pending)
          \/ \E j \in Locals(q) : j < i /\ q.writes[j].op = x
    <2> SUFFICES ASSUME NEW i \in Locals(q), NEW x \in Deps[q.writes[i].op],
                        x \notin C \cup Range(q.pending)
                 PROVE  \E j \in Locals(q) : j < i /\ q.writes[j].op = x
        OBVIOUS
    <2>1. CASE i = n
        <3>1. PICK j \in Locals(p) : p.writes[j].op = x
            BY <1>5, <1>6, <1>7, <2>1
        <3> QED
            BY <1>6, <2>1, <3>1
    <2>2. CASE i # n
        <3>1. i \in Locals(p) /\ x \in Deps[p.writes[i].op] /\ x \notin C \cup Range(p.pending)
            BY <1>5, <1>6, <2>2
        <3>2. PICK j \in Locals(p) : j < i /\ p.writes[j].op = x
            BY <1>2, <3>1 DEF OrderedTab
        <3> QED
            BY <1>6, <3>2
    <2> QED
        BY <2>1, <2>2
<1>9. ASSUME NEW x \in Unsaved(q, C) PROVE \E i \in Locals(q) : q.writes[i].op = x
    <2>1. CASE x = o
        BY <1>6, <2>1
    <2>2. CASE x # o
        <3>1. x \in Unsaved(p, C)
            BY <1>5, <2>2 DEF Unsaved
        <3>2. PICK i \in Locals(p) : p.writes[i].op = x
            BY <1>2, <3>1 DEF OrderedTab
        <3> QED
            BY <1>6, <3>2
    <2> QED
        BY <2>1, <2>2
<1>10. OrderedTab(q, C)
    BY <1>2, <1>5, <1>8, <1>9 DEF OrderedTab
<1> QED
    BY <1>1, <1>10, OrderLocalStep DEF C

\* A write is done without failing.
LEMMA OrderStoreRemoteStep ==
    ASSUME SyncInv, Ordered, SpentTyped, NEW t \in Tab, StoreRemote(t), spent'.failures = 0
    PROVE  Ordered'
<1>1. /\ tab[t].writes # <<>> /\ Head(tab[t].writes).kind # "local" /\ ServerIdle
      /\ disk' = [disk EXCEPT ![DeviceOf[t]].log = @ \cup NextWrite(t).ops]
      /\ Compacted(t, Rest(t)) /\ UNCHANGED late
    BY DEF StoreRemote, Awaiting, NextWrite
<1>2. Becomes(t, Rest(t))
    <2>1. ~Spend("failures")
        BY DEF Spend, SpentTyped
    <2> QED
        BY <1>1, <2>1 DEF Compacted
<1>3. OrderedTab(Rest(t), Content)
    BY <1>1, OrderHere, OrderTail DEF Rest, Here
<1>4. Content' = Content
    BY <1>1, ServerIdleKeeps DEF SyncInv
<1>5. \A d \in Device : disk'[d].outbox = disk[d].outbox
    <2>1. disk \in [Device -> DiskState] /\ DeviceOf[t] \in Device
        BY SetsTyped DEF SyncInv
    <2> QED
        BY <1>1, <2>1 DEF DiskState
<1>6. tab'[t] = Rest(t) /\ \A r \in Tab \ {t} : tab'[r] = tab[r]
    BY <1>2 DEF Becomes, SyncInv
<1>7. ~HasPendingDependencies(Content') /\ \A d \in Device : InOrder(disk'[d].outbox, Content')
    BY <1>4, <1>5 DEF Ordered
<1> QED
    BY <1>1, <1>3, <1>4, <1>6, <1>7, OrderStep

\* Appending what needs nothing that is not there.
LEMMA InOrderAppend ==
    ASSUME NEW S, NEW s \in Seq(S), NEW C, InOrder(s, C), NEW o \in S,
           Deps[o] \subseteq C \cup Range(s)
    PROVE  InOrder(Append(s, o), C)
<1> DEFINE r == Append(s, o)
<1>1. /\ DOMAIN r = 1 .. Len(s) + 1 /\ DOMAIN s = 1 .. Len(s) /\ Len(s) \in Nat
      /\ r[Len(s) + 1] = o /\ \A i \in 1 .. Len(s) : r[i] = s[i]
    OBVIOUS
<1> HIDE DEF r
<1>2. ASSUME NEW i \in DOMAIN r, NEW x \in Deps[r[i]], x \notin C
      PROVE  \E j \in 1 .. i - 1 : r[j] = x
    <2>1. CASE i = Len(s) + 1
        <3>1. x \in Range(s)
            BY <1>1, <1>2, <2>1
        <3>2. PICK j \in 1 .. Len(s) : s[j] = x
            BY <1>1, <3>1 DEF Range
        <3> QED
            BY <1>1, <2>1, <3>2
    <2>2. CASE i # Len(s) + 1
        <3>1. i \in DOMAIN s /\ r[i] = s[i] /\ i \in 1 .. Len(s)
            BY <1>1, <2>2
        <3>2. PICK j \in 1 .. i - 1 : s[j] = x
            BY <1>2, <3>1 DEF InOrder
        <3> QED
            BY <1>1, <3>1, <3>2
    <2> QED
        BY <2>1, <2>2
<1> QED
    BY <1>2 DEF InOrder, r

\* The head of the write queue becomes durable and pending.
LEMMA OrderDurable ==
    ASSUME NEW C, NEW L, NEW K, NEW F, NEW p \in TabOver(C, L, K, F), OrderedTab(p, C),
           p.writes # <<>>, Head(p.writes).kind = "local", p.phase = "running",
           NEW o \in K \ Seed, o = Head(p.writes).op
    PROVE  /\ Deps[o] \subseteq C \cup Range(p.pending)
           /\ OrderedTab(DurableLocal([p EXCEPT !.writes = Tail(@)], o), C)
<1> DEFINE s == p.writes
           W == Write(C, L, F)
           r == [p EXCEPT !.writes = Tail(@)]
           left == IF r.queued > 0 THEN r.queued - 1 ELSE 0
           pending == Append(r.pending, o)
           durability == IF left = 0 THEN "ready" ELSE "writing"
           q == [r EXCEPT !.queued = left, !.pending = pending, !.durability = durability]
<1>1. s \in Seq(W) /\ s # <<>> /\ p.pending \in Seq(K \ Seed) /\ p.queued \in Nat
    BY DEF TabOver
<1>2. /\ Head(s) = s[1] /\ Len(s) \in Nat /\ DOMAIN s = 1 .. Len(s) /\ 1 \in DOMAIN s
      /\ DOMAIN Tail(s) = 1 .. Len(s) - 1 /\ Tail(s) \in Seq(W)
      /\ \A i \in 1 .. Len(s) - 1 : Tail(s)[i] = s[i + 1]
    <2> HIDE DEF W, s
    <2>1. Tail(s) \in Seq(W) /\ Len(Tail(s)) = Len(s) - 1
        BY <1>1, TailOf
    <2> QED
        BY <1>1, <2>1, TailOf
<1>3. 1 \in Locals(p) /\ p.writes[1].op = o /\ \A i \in Locals(p) : i \in Nat /\ i >= 1
    BY <1>2 DEF Locals
<1>4. Deps[o] \subseteq C \cup Range(p.pending)
    <2> SUFFICES ASSUME NEW x \in Deps[o], x \notin C \cup Range(p.pending) PROVE FALSE
        OBVIOUS
    <2>1. PICK j \in Locals(p) : j < 1 /\ p.writes[j].op = x
        BY <1>3 DEF OrderedTab
    <2> QED
        BY <1>3, <2>1
<1>5. InOrder(p.pending, C)
    BY DEF OrderedTab
<1>6. r.pending = p.pending /\ r.queued = p.queued /\ r.writes = Tail(s) /\ r.doc = p.doc
      /\ r.up = p.up /\ r.phase = "running" /\ r \in TabOver(C, L, K, F)
    <2> HIDE DEF Write, UpFrame, DownFrame
    <2> QED
        BY <1>2 DEF TabOver
<1> HIDE DEF r
<1>7. /\ InOrder(pending, C) /\ Range(pending) = Range(p.pending) \cup {o}
      /\ pending \in Seq(K \ Seed)
    BY <1>1, <1>4, <1>5, <1>6, InOrderAppend, RangeOfAppend
<1>8. left \in Nat /\ durability \in {"ready", "writing", "at-risk"}
    BY <1>1, <1>6
<1>9. DurableLocal(r, o) = Pumped(q)
    BY DEF DurableLocal
<1> HIDE DEF left, pending, durability
<1>10. /\ q \in TabOver(C, L, K, F) /\ q.pending = pending /\ q.writes = Tail(s)
       /\ q.doc = p.doc /\ q.up = p.up /\ q.phase = "running"
    BY <1>6, <1>7, <1>8 DEF TabOver
<1> HIDE DEF q
<1>11. \A i \in Locals(q) : i \in Nat /\ i + 1 \in Locals(p) /\ q.writes[i] = p.writes[i + 1]
    BY <1>2, <1>10 DEF Locals
<1>12. ASSUME NEW i \in Locals(p), i # 1 PROVE i - 1 \in Locals(q) /\ q.writes[i - 1] = p.writes[i]
    <2>1. i \in 1 .. Len(s)
        BY <1>2 DEF Locals
    <2>2. i - 1 \in 1 .. Len(s) - 1 /\ (i - 1) + 1 = i
        BY <1>2, <1>12, <2>1
    <2>3. q.writes[i - 1] = p.writes[i] /\ i - 1 \in DOMAIN q.writes
        BY <1>2, <1>10, <2>2
    <2> QED
        BY <2>3 DEF Locals
<1>13. \A i \in Locals(q) : \A x \in Deps[q.writes[i].op] :
           \/ x \in C \cup Range(q.pending)
           \/ \E j \in Locals(q) : j < i /\ q.writes[j].op = x
    <2> SUFFICES ASSUME NEW i \in Locals(q), NEW x \in Deps[q.writes[i].op],
                        x \notin C \cup Range(q.pending)
                 PROVE  \E j \in Locals(q) : j < i /\ q.writes[j].op = x
        OBVIOUS
    <2> DEFINE k == i + 1
    <2>1. i \in Nat /\ k \in Locals(p) /\ q.writes[i] = p.writes[k]
        BY <1>11
    <2>2. x \in Deps[p.writes[k].op] /\ x \notin C \cup Range(p.pending) /\ x # o
        BY <1>7, <1>10, <2>1
    <2> HIDE DEF k
    <2>3. PICK j \in Locals(p) : j < k /\ p.writes[j].op = x
        BY <2>1, <2>2 DEF OrderedTab
    <2>4. j # 1
        BY <1>3, <2>2, <2>3
    <2>5. j - 1 \in Locals(q) /\ q.writes[j - 1] = p.writes[j] /\ j \in Nat
        BY <1>3, <1>12, <2>4
    <2> QED
        BY <2>1, <2>3, <2>5 DEF k
<1>14. ASSUME NEW x \in Unsaved(q, C) PROVE \E i \in Locals(q) : q.writes[i].op = x
    <2>1. x \in Unsaved(p, C) /\ x # o
        BY <1>7, <1>10 DEF Unsaved
    <2>2. PICK i \in Locals(p) : p.writes[i].op = x
        BY <2>1 DEF OrderedTab
    <2>3. i # 1
        BY <1>3, <2>1, <2>2
    <2> QED
        BY <1>12, <2>2, <2>3
<1>15. OrderedTab(q, C)
    BY <1>7, <1>10, <1>13, <1>14 DEF OrderedTab
<1>16. OrderedTab(Pumped(q), C)
    BY <1>10, <1>15, OrderPumped
<1> QED
    BY <1>4, <1>9, <1>16 DEF r
LEMMA OrderStoreLocalStep ==
    ASSUME SyncInv, Ordered, SpentTyped, NEW t \in Tab, StoreLocal(t), spent'.failures = 0
    PROVE  Ordered'
<1> DEFINE d == DeviceOf[t]
           o == NextWrite(t).op
           row == [log |-> disk[d].log \cup {o}, outbox |-> Append(disk[d].outbox, o)]
           C == Content
           L == Logged(d)
           K == Sent(d) \cup {o}
           F == Unwritten(t)
<1>1. /\ tab[t].writes # <<>> /\ Head(tab[t].writes).kind = "local" /\ ServerIdle
      /\ disk' = [disk EXCEPT ![d] = row]
      /\ Compacted(t, DurableLocal(Rest(t), o)) /\ UNCHANGED late
    BY DEF StoreLocal, Awaiting, NextWrite
<1>2. Becomes(t, DurableLocal(Rest(t), o))
    <2>1. ~Spend("failures")
        BY DEF Spend, SpentTyped
    <2> QED
        BY <1>1, <2>1 DEF Compacted
<1>3. o \in Op \ Seed
    <2>1. NextWrite(t) \in Write(C, L, F) /\ F \subseteq Op \ Seed
        BY <1>1, HeadWrite, SetsTyped
    <2> QED
        BY <1>1, <2>1 DEF Write, NextWrite
<1>4. /\ tab[t] \in TabOver(C, L, K, F) /\ OrderedTab(tab[t], C) /\ tab[t].phase = "running"
      /\ tab[t].pending \in Seq(Sent(d) \ Seed)
    <2>1. /\ tab[t] \in TabOver(C, L, Sent(d), F) /\ OrderedTab(tab[t], C)
          /\ tab[t].phase = "running"
        BY <1>1, OrderHere, RunningTab DEF Here
    <2>2. tab[t] \in TabOver(C, L, K, F)
        BY <2>1, TabMonotone
    <2> QED
        BY <2>1, <2>2 DEF TabOver
<1>5. /\ Deps[o] \subseteq C \cup Range(tab[t].pending)
      /\ OrderedTab(DurableLocal(Rest(t), o), C)
    <2>1. o = Head(tab[t].writes).op /\ o \in K \ Seed
        BY <1>3 DEF NextWrite
    <2> DEFINE p == tab[t]
    <2>2. /\ p \in TabOver(C, L, K, F) /\ OrderedTab(p, C) /\ p.phase = "running"
          /\ p.writes # <<>> /\ Head(p.writes).kind = "local" /\ o = Head(p.writes).op
        BY <1>1, <1>4, <2>1
    <2>3. Rest(t) = [p EXCEPT !.writes = Tail(@)]
        BY DEF Rest
    <2> HIDE DEF C, L, K, F, o, p
    <2>4. /\ Deps[o] \subseteq C \cup Range(p.pending)
          /\ OrderedTab(DurableLocal([p EXCEPT !.writes = Tail(@)], o), C)
        BY <2>1, <2>2, OrderDurable
    <2> QED
        BY <2>3, <2>4 DEF p
<1>6. disk \in [Device -> DiskState] /\ d \in Device /\ \A e \in Device : InOrder(disk[e].outbox, C)
    BY SetsTyped DEF SyncInv, Ordered
<1>7. disk[d].outbox \in Seq(Op \ Seed)
    BY <1>6 DEF DiskState
<1>8. Deps[o] \subseteq C \cup Range(disk[d].outbox)
    <2>1. Range(tab[t].pending) \subseteq Sent(d)
        BY <1>4 DEF Range
    <2> QED
        BY <1>5, <2>1 DEF Sent
<1>9. InOrder(Append(disk[d].outbox, o), C)
    BY <1>3, <1>6, <1>7, <1>8, InOrderAppend
<1>10. disk'[d] = row /\ row.outbox = Append(disk[d].outbox, o) /\ \A e \in Device \ {d} : disk'[e] = disk[e]
    BY <1>1, <1>6
<1>11. \A e \in Device : InOrder(disk'[e].outbox, C)
    <2> HIDE DEF row, C
    <2> QED
        BY <1>6, <1>9, <1>10
<1>12. Content' = Content
    BY <1>1, ServerIdleKeeps DEF SyncInv
<1>13. tab'[t] = DurableLocal(Rest(t), o) /\ \A r \in Tab \ {t} : tab'[r] = tab[r]
    BY <1>2 DEF Becomes, SyncInv
<1>14. ~HasPendingDependencies(Content')
    BY <1>12 DEF Ordered
<1> QED
    BY <1>1, <1>5, <1>11, <1>12, <1>13, <1>14, OrderStep

-----------------------------------------------------------------------------
\* The server stores what needs nothing it lacks.
LEMMA OrderServerTakes ==
    ASSUME SyncInv, Ordered, NEW d \in Device, NEW o \in Op \ Seed, o \in Sent(d),
           Deps[o] \subseteq Content, StoreUpdate(<<d, o>>, {o}), UNCHANGED <<disk, issued>>
    PROVE  Content \subseteq Content' /\ ~HasPendingDependencies(Content')
<1>1. Content \subseteq Content' /\ Content' \subseteq Content \cup {o}
    BY ServerTakes
<1>2. Integrated(Content) = Content
    BY DEF Ordered, HasPendingDependencies
<1>3. Integrated(Content') = Content'
    BY <1>1, <1>2 DEF Integrated
<1> QED
    BY <1>1, <1>3 DEF HasPendingDependencies

LEMMA OrderServeStep ==
    ASSUME SyncInv, Ordered, NEW t \in Tab, ServeUpdate(t)
    PROVE  Ordered'
<1> DEFINE d == DeviceOf[t]
           f == Head(tab[t].up)
           o == f.op
           ack == [type |-> "ack", op |-> o]
           down == IF reply'.status = "rejected" THEN tab[t].down ELSE Append(tab[t].down, ack)
           served == [tab[t] EXCEPT !.up = Tail(@), !.down = down]
<1>1. /\ tab[t].up # <<>> /\ f.type = "update"
      /\ StoreUpdate(<<d, o>>, {o}) /\ UNCHANGED <<disk, late, issued>>
    BY DEF ServeUpdate, ServerReads
<1>2. tab' = [Relayed(o, t) EXCEPT ![t] = served]
    BY DEF ServeUpdate
<1>3. /\ tab[t] \in Here(t) /\ OrderedTab(tab[t], Content) /\ d \in Device
      /\ f \in UpFrame(Sent(d))
    BY <1>1, OrderHere, SetsTyped, HeadRequest
<1>4. tab[t].up \in Seq(UpFrame(Sent(d)))
    BY <1>3 DEF Here, TabOver
<1>5. f \in Range(tab[t].up) /\ Range(Tail(tab[t].up)) \subseteq Range(tab[t].up)
    <2> HIDE DEF UpFrame
    <2> QED
        BY <1>1, <1>4, TailOf
<1>6. o \in Op \ Seed /\ o \in Sent(d) /\ Deps[o] \subseteq Content
    <2>1. o \in Sent(d) \ Seed /\ Deps[o] \subseteq Content
        BY <1>1, <1>3, <1>5 DEF UpFrame, OrderedTab
    <2> QED
        BY <2>1, SetsTyped
<1> HIDE DEF o
<1>7. Content \subseteq Content' /\ ~HasPendingDependencies(Content')
    BY <1>1, <1>3, <1>6, OrderServerTakes
<1> HIDE DEF down
<1>8. KeepsOrder(tab[t], served)
    BY <1>3, <1>5 DEF Here, TabOver, KeepsOrder
<1> HIDE DEF served
<1>9. OrderedTab(served, Content')
    BY <1>3, <1>7, <1>8, OrderKept, OrderMonotone
<1>10. tab' = [p \in Tab |-> IF p = t THEN served ELSE Relayed(o, t)[p]]
    BY <1>2 DEF Relayed
<1>11. tab'[t] = served /\ \A p \in Tab \ {t} : tab'[p] = tab[p] \/ tab'[p] = Heard(tab[p], o)
    BY <1>10 DEF Relayed, Heard
<1>12. \A e \in Device : InOrder(disk'[e].outbox, Content')
    BY <1>1, <1>7 DEF Ordered, InOrder
<1> QED
    BY <1>1, <1>7, <1>9, <1>11, <1>12, OrderStep

LEMMA OrderServeLateStep ==
    ASSUME SyncInv, Ordered, NEW f \in late, ServeLate(f)
    PROVE  Ordered'
<1> DEFINE t == f.tab
           d == DeviceOf[t]
           o == f.op
<1>1. /\ StoreUpdate(<<d, o>>, {o}) /\ UNCHANGED <<disk, issued>>
      /\ late' = late \ {f} /\ tab' = Relayed(o, NoOp)
    BY DEF ServeLate
<1>2. t \in Tab /\ o \in Op \ Seed /\ o \in Sent(d) /\ Deps[o] \subseteq Content
    BY DEF SyncInv, Ordered
<1>3. d \in Device
    BY <1>2, SetsTyped
<1>4. Content \subseteq Content' /\ ~HasPendingDependencies(Content')
    BY <1>1, <1>2, <1>3, OrderServerTakes
<1> HIDE DEF o, t
<1>5. \A p \in Tab : tab'[p] = tab[p] \/ tab'[p] = Heard(tab[p], o)
    BY <1>1 DEF Relayed, Heard
<1>6. OrderedTab(tab'[t], Content')
    <2>1. OrderedTab(tab[t], Content') /\ tab[t] \in TabOver(Op, Op, Op, Op)
        BY <1>2, <1>4, OrderHere, OrderMonotone DEF SyncInv
    <2>2. KeepsOrder(tab[t], Heard(tab[t], o))
        BY <2>1 DEF Heard, TabOver, KeepsOrder
    <2>3. OrderedTab(Heard(tab[t], o), Content')
        BY <2>1, <2>2, OrderKept
    <2> QED
        BY <1>2, <1>5, <2>1, <2>3
<1>7. \A e \in Device : InOrder(disk'[e].outbox, Content')
    BY <1>1, <1>4 DEF Ordered, InOrder
<1> QED
    BY <1>1, <1>2, <1>4, <1>5, <1>6, <1>7, OrderStep

-----------------------------------------------------------------------------
\* What is spent only grows.
LEMMA SpentStep ==
    ASSUME SpentTyped, [SyncNext]_allVars
    PROVE  SpentTyped' /\ (spent'.failures = 0 => spent.failures = 0)
<1>1. CASE UNCHANGED spent
    BY <1>1 DEF SpentTyped
<1>2. CASE \/ Spend("disconnects") \/ Spend("reloads") \/ Spend("failures")
           \/ Spend("refusals") \/ Spend("syncRefusals") \/ Spend("timeouts")
    BY <1>2 DEF Spend, SpentTyped
<1>3. CASE UNCHANGED allVars
    BY <1>1, <1>3 DEF allVars, syncVars
<1>4. CASE \E f \in late : ServeLate(f)
    BY <1>1, <1>4 DEF ServeLate
<1>5. ASSUME NEW t \in Tab, TabStep(t) PROVE UNCHANGED spent \/ Spend("failures") \/ Spend("timeouts")
    BY <1>5 DEF TabStep, Start, Connect, StoreRemote, StoreLocal, Compacted, FinishSync, FinishAck,
       ReceiveReady, ReceivePart, ReceiveRemote, ReceiveAck, AckTimeout
<1>6. ASSUME NEW t \in Tab, ServerStep(t) PROVE UNCHANGED spent
    BY <1>6 DEF ServerStep, ServeSync, ServeUpdate
<1>7. ASSUME NEW t \in Tab, Environment(t)
      PROVE  \/ UNCHANGED spent \/ Spend("disconnects") \/ Spend("reloads") \/ Spend("failures")
             \/ Spend("refusals") \/ Spend("syncRefusals")
    BY <1>7 DEF Environment, Open, Close, Disconnect, Edit, WriteFails, RefuseUpdate, RefuseSync
<1> QED
    BY <1>1, <1>2, <1>3, <1>4, <1>5, <1>6, <1>7 DEF SyncNext

\* A step without a failing write keeps every queue in order.
LEMMA OrderNext ==
    ASSUME SyncInv, Ordered, SpentTyped, spent'.failures = 0, [SyncNext]_allVars
    PROVE  Ordered'
<1>1. CASE UNCHANGED allVars
    <2>1. UNCHANGED <<document, tab, disk, late>>
        BY <1>1 DEF allVars, vars, syncVars
    <2>2. Content' = Content
        BY <2>1 DEF document, Content
    <2> QED
        BY <2>1, <2>2 DEF Ordered
<1>2. CASE \E f \in late : ServeLate(f)
    BY <1>2, OrderServeLateStep
<1>3. ASSUME NEW t \in Tab, TabStep(t) PROVE Ordered'
    BY <1>3, OrderLifeStep, OrderQuietStep, OrderStoreRemoteStep, OrderStoreLocalStep,
       OrderPumpStep, OrderFinishAckStep, OrderReceiveStep DEF TabStep
<1>4. ASSUME NEW t \in Tab, ServerStep(t) PROVE Ordered'
    BY <1>4, OrderQuietStep, OrderServeStep DEF ServerStep
<1>5. ASSUME NEW t \in Tab, Environment(t) PROVE Ordered'
    <2>1. ~WriteFails(t)
        BY DEF WriteFails, Spend, SpentTyped
    <2> QED
        BY <1>5, <2>1, OrderLifeStep, OrderQuietStep, OrderEditStep DEF Environment
<1> QED
    BY <1>1, <1>2, <1>3, <1>4, <1>5 DEF SyncNext

LEMMA OrderInit == SyncInit => Ordered /\ SpentTyped
<1> SUFFICES ASSUME SyncInit PROVE Ordered /\ SpentTyped
    OBVIOUS
<1>1. Content = Seed
    <2>1. {log[n] : n \in DOMAIN log} = {}
        BY DEF SyncInit, Init
    <2> QED
        BY <2>1 DEF SyncInit, Init, Content
<1>2. ~HasPendingDependencies(Content)
    BY <1>1, SeedAssumption DEF HasPendingDependencies
<1>3. \A d \in Device : InOrder(disk[d].outbox, Content)
    BY DEF SyncInit, InOrder
<1>4. OrderedTab(Closed, Content)
    <2>1. /\ Closed.phase = "closed" /\ Closed.writes = <<>> /\ Closed.up = <<>>
          /\ Closed.pending = <<>>
        BY DEF Closed
    <2> QED
        BY <2>1 DEF OrderedTab, InOrder, Range, Locals
<1>5. SpentTyped
    BY DEF SyncInit, NoneSpent, SpentTyped
<1> QED
    BY <1>2, <1>3, <1>4, <1>5 DEF SyncInit, Ordered

\* As long as no local write has failed, every queue an edit passes is in causal order
\* (guestCodeProvider.ts, codeSyncStore.ts).
THEOREM OrderInvariant == SyncSpec => []OrderInv
<1>1. SyncInit => OrderInv
    BY SyncInitInv, OrderInit DEF OrderInv
<1>2. OrderInv /\ [SyncNext]_allVars => OrderInv'
    <2> SUFFICES ASSUME OrderInv, [SyncNext]_allVars PROVE OrderInv'
        OBVIOUS
    <2>1. SyncInv' /\ SpentTyped'
        BY SyncNextInv, SpentStep DEF OrderInv
    <2>2. ASSUME spent'.failures = 0 PROVE Ordered'
        BY <2>2, SpentStep, OrderNext DEF OrderInv
    <2> QED
        BY <2>1, <2>2 DEF OrderInv
<1> QED
    BY <1>1, <1>2, PTL DEF SyncSpec

\* Updates reach the server in causal order through reloads, reconnections, resends
\* and late frames: while no local write has failed, appendUpdate never meets an
\* update whose predecessor it lacks (guestCodeProvider.ts pumpPendingUpdate,
\* codeSyncStore.ts, transport.ts).
THEOREM CauseFirst == SyncSpec => []ServerSeesCauseFirst
<1>1. OrderInv => ServerSeesCauseFirst
    BY DEF OrderInv, Ordered, ServerSeesCauseFirst
<1> QED
    BY <1>1, OrderInvariant, PTL
-----------------------------------------------------------------------------
\* One tab per browser: what a tab reads from its IndexedDB, it wrote.
OneTabPerBrowser == \A s, t \in Tab : DeviceOf[s] = DeviceOf[t] => s = t

\* What the frames under way to a tab will add to its document.
Carries(f) == IF f.type = "part" THEN f.update ELSE IF f.type = "remote" THEN {f.op} ELSE {}
Carried(s) == UNION {Carries(f) : f \in Range(s)}

Greets(s) == \E f \in Range(s) : f.type = "ready"
Concludes(s) == \E f \in Range(s) : f.type = "part" /\ f.done

\* What a tab knows and is told, given what is stored (C) and its log (G).
Told(p, C, G) ==
    /\ Range(p.pending) \subseteq p.doc
    /\ p.phase # "closed" => G \subseteq p.doc
    /\ \A w \in Range(p.writes) : w.kind = "remote" => w.ops \subseteq p.doc
    /\ \A f \in Range(p.up) : /\ f.type = "update" => f.op \in p.doc
                              /\ f.type = "sync" => f.vector \subseteq p.doc /\ ~Greets(p.down)
    /\ ~p.connected => p.up = <<>> /\ p.down = <<>>
    /\ \A i \in DOMAIN p.down : p.down[i].type = "ready" => i = 1
    /\ Greets(p.down) => ~Concludes(p.down)
    /\ p.connected /\ ~Greets(p.down) /\ (~p.syncRequest \/ Concludes(p.down))
          => C \subseteq p.doc \cup Carried(p.down)

Informed ==
    /\ \A d \in Device : Range(disk[d].outbox) \subseteq disk[d].log
    /\ \A t \in Tab : Told(tab[t], Content, disk[DeviceOf[t]].log)

-----------------------------------------------------------------------------
\* A frame behind the others.
LEMMA FramesAppend ==
    ASSUME NEW S, NEW s \in Seq(S), NEW f \in S
    PROVE  /\ Carried(Append(s, f)) = Carried(s) \cup Carries(f)
           /\ Greets(Append(s, f)) <=> Greets(s) \/ f.type = "ready"
           /\ Concludes(Append(s, f)) <=> Concludes(s) \/ (f.type = "part" /\ f.done)
           /\ (\A i \in DOMAIN s : s[i].type = "ready" => i = 1) /\ f.type # "ready"
                 => \A i \in DOMAIN Append(s, f) : Append(s, f)[i].type = "ready" => i = 1
<1>1. Range(Append(s, f)) = Range(s) \cup {f}
    BY RangeOfAppend
<1>2. Carried(Append(s, f)) = Carried(s) \cup Carries(f)
    <2> HIDE DEF Carries
    <2> QED
        BY <1>1 DEF Carried
<1>3. DOMAIN Append(s, f) = 1 .. Len(s) + 1 /\ DOMAIN s = 1 .. Len(s) /\ Len(s) \in Nat
      /\ Append(s, f)[Len(s) + 1] = f /\ \A i \in 1 .. Len(s) : Append(s, f)[i] = s[i]
    OBVIOUS
<1> QED
    BY <1>1, <1>2, <1>3 DEF Greets, Concludes

\* The first frame is read.
LEMMA FramesTail ==
    ASSUME NEW S, NEW s \in Seq(S), s # <<>>
    PROVE  /\ Carried(s) = Carries(Head(s)) \cup Carried(Tail(s))
           /\ Greets(s) <=> Greets(Tail(s)) \/ Head(s).type = "ready"
           /\ Concludes(s) <=> Concludes(Tail(s)) \/ (Head(s).type = "part" /\ Head(s).done)
           /\ (\A i \in DOMAIN s : s[i].type = "ready" => i = 1)
                 => /\ ~Greets(Tail(s))
                    /\ \A i \in DOMAIN Tail(s) : Tail(s)[i].type = "ready" => i = 1
<1>1. Range(s) = Range(Tail(s)) \cup {Head(s)}
    BY TailOf
<1>2. Carried(s) = Carries(Head(s)) \cup Carried(Tail(s))
    <2> HIDE DEF Carries
    <2> QED
        BY <1>1 DEF Carried
<1>3. /\ Tail(s) \in Seq(S) /\ Len(s) \in Nat /\ DOMAIN s = 1 .. Len(s)
      /\ Len(Tail(s)) = Len(s) - 1
      /\ \A i \in 1 .. Len(s) - 1 : Tail(s)[i] = s[i + 1]
    BY TailOf
<1>4. DOMAIN Tail(s) = 1 .. Len(s) - 1
    BY <1>3
<1>5. ASSUME \A i \in DOMAIN s : s[i].type = "ready" => i = 1
      PROVE  \A i \in DOMAIN Tail(s) : Tail(s)[i].type # "ready"
    <2> SUFFICES ASSUME NEW i \in DOMAIN Tail(s) PROVE Tail(s)[i].type # "ready"
        OBVIOUS
    <2>1. i + 1 \in DOMAIN s /\ Tail(s)[i] = s[i + 1] /\ i + 1 # 1
        BY <1>3, <1>4
    <2> QED
        BY <1>5, <2>1
<1>6. ASSUME \A i \in DOMAIN s : s[i].type = "ready" => i = 1
      PROVE  ~Greets(Tail(s))
    <2>1. \A i \in DOMAIN Tail(s) : Tail(s)[i].type # "ready"
        BY <1>5, <1>6
    <2> QED
        BY <2>1 DEF Greets, Range
<1> QED
    BY <1>1, <1>2, <1>5, <1>6 DEF Greets, Concludes

LEMMA NoFrames == /\ Range(<<>>) = {} /\ Carried(<<>>) = {} /\ ~Greets(<<>>) /\ ~Concludes(<<>>)
BY DEF Range, Carried, Greets, Concludes

\* Nothing but the document's own growth, and entries that agree with it.
LEMMA ToldGrows ==
    ASSUME NEW p, NEW q, NEW C, NEW G, NEW H, Told(p, C, G),
           p.doc \subseteq q.doc, Range(q.pending) \subseteq q.doc,
           p.phase # "closed", H \subseteq q.doc,
           \A w \in Range(q.writes) :
               w \in Range(p.writes) \/ (w.kind = "remote" => w.ops \subseteq q.doc),
           q.up = p.up, q.down = p.down, q.connected = p.connected, q.syncRequest = p.syncRequest
    PROVE  Told(q, C, H)
<1>1. \A w \in Range(q.writes) : w.kind = "remote" => w.ops \subseteq q.doc
    BY DEF Told
<1>2. \A f \in Range(q.up) : /\ f.type = "update" => f.op \in q.doc
                             /\ f.type = "sync" => f.vector \subseteq q.doc /\ ~Greets(q.down)
    BY DEF Told
<1>3. /\ ~q.connected => q.up = <<>> /\ q.down = <<>>
      /\ \A i \in DOMAIN q.down : q.down[i].type = "ready" => i = 1
      /\ Greets(q.down) => ~Concludes(q.down)
    BY DEF Told
<1>4. q.connected /\ ~Greets(q.down) /\ (~q.syncRequest \/ Concludes(q.down))
          => C \subseteq q.doc \cup Carried(q.down)
    BY DEF Told
<1> QED
    BY <1>1, <1>2, <1>3, <1>4 DEF Told

\* Pumping sends what is pending, and so in the document.
LEMMA ToldPumped ==
    ASSUME NEW C, NEW L, NEW K, NEW F, NEW p \in TabOver(C, L, K, F),
           NEW D, NEW G, Told(p, D, G)
    PROVE  Told(Pumped(p), D, G)
<1>1. CASE ~CanPump(p)
    BY <1>1 DEF Pumped
<1>2. CASE CanPump(p)
    <2> DEFINE o == Head(p.pending)
               frame == [type |-> "update", op |-> o]
               q == [p EXCEPT !.inFlight = o, !.up = Append(p.up, frame)]
    <2>1. /\ p.pending \in Seq(K \ Seed) /\ p.pending # <<>> /\ p.up \in Seq(UpFrame(K))
          /\ Pumped(p) = q /\ p.connected
        BY <1>2 DEF CanPump, TabOver, Pumped
    <2>2. o \in p.doc
        <3>1. o \in Range(p.pending)
            BY <2>1, TailOf
        <3> QED
            BY <3>1 DEF Told
    <2>3. Range(Append(p.up, frame)) = Range(p.up) \cup {frame}
        <3> HIDE DEF frame, UpFrame
        <3> QED
            BY <2>1, RangeOfAppend
    <2>4. frame.op = o /\ frame.type = "update"
        OBVIOUS
    <2> HIDE DEF frame, o
    <2>5. /\ q.phase = p.phase /\ q.doc = p.doc /\ q.writes = p.writes /\ q.pending = p.pending
          /\ q.up = Append(p.up, frame) /\ q.down = p.down /\ q.connected = p.connected
          /\ q.syncRequest = p.syncRequest
        BY DEF TabOver
    <2> HIDE DEF q
    <2> QED
        BY <2>1, <2>2, <2>3, <2>4, <2>5 DEF Told
<1> QED
    BY <1>1, <1>2

\* A lost socket loses both directions.
LEMMA ToldDropped ==
    ASSUME NEW C, NEW L, NEW K, NEW F, NEW p \in TabOver(C, L, K, F),
           NEW D, NEW G, Told(p, D, G)
    PROVE  Told(Dropped(p), D, G) /\ Told(Failed(p), D, G)
<1>1. ASSUME NEW q, q.phase = p.phase, q.doc = p.doc, q.writes = p.writes, q.pending = p.pending,
             q.up = <<>>, q.down = <<>>, ~q.connected
      PROVE  Told(q, D, G)
    BY <1>1, NoFrames DEF Told
<1>2. /\ Dropped(p).phase = p.phase /\ Dropped(p).doc = p.doc /\ Dropped(p).writes = p.writes
      /\ Dropped(p).pending = p.pending /\ Dropped(p).up = <<>> /\ Dropped(p).down = <<>>
      /\ ~Dropped(p).connected
    BY DEF Dropped, Cut, TabOver
<1>3. /\ Failed(p).phase = p.phase /\ Failed(p).doc = p.doc /\ Failed(p).writes = p.writes
      /\ Failed(p).pending = p.pending /\ Failed(p).up = <<>> /\ Failed(p).down = <<>>
      /\ ~Failed(p).connected
    BY DEF Failed, Dropped, Cut, TabOver
<1> QED
    BY <1>1, <1>2, <1>3

\* The server has at most one operation more, and a connected tab hears of it.
LEMMA ToldHeard ==
    ASSUME NEW C, NEW D, NEW G, NEW p \in TabOver(Op, Op, Op, Op), Told(p, C, G), p.connected,
           NEW o \in Op \ Seed, D \subseteq C \cup {o}
    PROVE  Told(Heard(p, o), D, G)
<1> DEFINE f == [type |-> "remote", op |-> o]
           q == [p EXCEPT !.down = Append(@, f)]
<1>1. p.down \in Seq(DownFrame(Op)) /\ f \in DownFrame(Op)
    BY DEF TabOver, DownFrame
<1>2. /\ Carried(Append(p.down, f)) = Carried(p.down) \cup {o}
      /\ Greets(Append(p.down, f)) <=> Greets(p.down)
      /\ Concludes(Append(p.down, f)) <=> Concludes(p.down)
      /\ \A i \in DOMAIN Append(p.down, f) : Append(p.down, f)[i].type = "ready" => i = 1
    <2>1. Carries(f) = {o} /\ f.type = "remote"
        BY DEF Carries
    <2> HIDE DEF f, DownFrame
    <2> QED
        BY <1>1, <2>1, FramesAppend DEF Told
<1>3. /\ q.phase = p.phase /\ q.doc = p.doc /\ q.writes = p.writes /\ q.pending = p.pending
      /\ q.up = p.up /\ q.down = Append(p.down, f) /\ q.connected = p.connected
      /\ q.syncRequest = p.syncRequest
    BY DEF TabOver
<1>4. Heard(p, o) = q
    BY DEF Heard
<1> HIDE DEF q, f
<1>5. Told(q, D, G)
    BY <1>2, <1>3 DEF Told
<1> QED
    BY <1>4, <1>5

LEMMA ToldUnmoved ==
    ASSUME NEW C, NEW D, NEW G, NEW p, Told(p, C, G), ~p.connected \/ D \subseteq C
    PROVE  Told(p, D, G)
BY DEF Told

\* A step of one tab that tells every connected tab what the server newly stores.
LEMMA ToldStep ==
    ASSUME OneTabPerBrowser, SyncInv, Informed, NEW t \in Tab, NEW o,
           Told(tab'[t], Content', disk'[DeviceOf[t]].log),
           \A d \in Device : Range(disk'[d].outbox) \subseteq disk'[d].log,
           \A d \in Device \ {DeviceOf[t]} : disk'[d].log = disk[d].log,
           \A p \in Tab \ {t} :
               \/ tab'[p] = tab[p] /\ (~tab[p].connected \/ Content' \subseteq Content)
               \/ /\ tab'[p] = Heard(tab[p], o) /\ tab[p].connected
                  /\ o \in Op \ Seed /\ Content' \subseteq Content \cup {o}
    PROVE  Informed'
<1>1. ASSUME NEW p \in Tab PROVE Told(tab'[p], Content', disk'[DeviceOf[p]].log)
    <2>1. CASE p = t
        BY <2>1
    <2>2. CASE p # t
        <3>1. disk'[DeviceOf[p]].log = disk[DeviceOf[p]].log
            <4>1. DeviceOf[p] # DeviceOf[t] /\ DeviceOf[p] \in Device
                BY <2>2, SetsTyped DEF OneTabPerBrowser
            <4> QED
                BY <4>1
        <3>2. Told(tab[p], Content, disk[DeviceOf[p]].log) /\ tab[p] \in TabOver(Op, Op, Op, Op)
            BY DEF Informed, SyncInv
        <3> QED
            BY <2>2, <3>1, <3>2, ToldHeard, ToldUnmoved
    <2> QED
        BY <2>1, <2>2
<1> QED
    BY <1>1 DEF Informed

LEMMA ToldLocalStep ==
    ASSUME OneTabPerBrowser, SyncInv, Informed, ServerIdle, NEW t \in Tab, NEW q, Becomes(t, q),
           Told(q, Content, disk[DeviceOf[t]].log), UNCHANGED disk
    PROVE  Informed'
<1>1. Content' = Content
    BY ServerIdleKeeps DEF SyncInv
<1>2. tab'[t] = q /\ \A p \in Tab \ {t} : tab'[p] = tab[p]
    BY DEF SyncInv, Becomes
<1>3. Told(tab'[t], Content', disk'[DeviceOf[t]].log)
    BY <1>1, <1>2
<1>4. \A d \in Device : Range(disk'[d].outbox) \subseteq disk'[d].log
    BY DEF Informed
<1> QED
    BY <1>1, <1>2, <1>3, <1>4, ToldStep

\* What is known of the tab that takes a step.
LEMMA ToldHere ==
    ASSUME SyncInv, Informed, NEW t \in Tab
    PROVE  /\ Told(tab[t], Content, disk[DeviceOf[t]].log) /\ tab[t] \in TabOver(Op, Op, Op, Op)
           /\ tab[t] \in Here(t) /\ DeviceOf[t] \in Device
BY SetsTyped DEF Informed, SyncInv

\* Opening, starting and closing a tab.
LEMMA ToldLifeStep ==
    ASSUME OneTabPerBrowser, SyncInv, Informed, NEW t \in Tab, Open(t) \/ Close(t) \/ Start(t)
    PROVE  Informed'
<1> DEFINE p == tab[t]
           d == DeviceOf[t]
           G == disk[d].log
<1>1. p \in TabOver(Op, Op, Op, Op) /\ Told(p, Content, G) /\ d \in Device
    BY ToldHere
<1>2. ASSUME NEW q, q.writes = <<>>, q.up = <<>>, q.down = <<>>, q.pending = <<>>, ~q.connected,
             q.phase # "closed" => G \subseteq q.doc
      PROVE  Told(q, Content, G)
    BY <1>2, NoFrames DEF Told
<1>3. CASE Open(t)
    <2> DEFINE q == [Closed EXCEPT !.phase = "loaded", !.doc = G]
    <2>1. Becomes(t, q) /\ ServerIdle /\ UNCHANGED disk
        BY <1>3 DEF Open
    <2>2. /\ q.writes = <<>> /\ q.up = <<>> /\ q.down = <<>> /\ q.pending = <<>> /\ ~q.connected
          /\ q.doc = G
        BY DEF Closed
    <2> HIDE DEF q
    <2>3. Told(q, Content, G)
        BY <1>2, <2>2
    <2> QED
        BY <2>1, <2>3, ToldLocalStep
<1>4. CASE Close(t)
    <2>1. Becomes(t, Closed) /\ ServerIdle /\ UNCHANGED disk
        BY <1>4 DEF Close
    <2>2. /\ Closed.writes = <<>> /\ Closed.up = <<>> /\ Closed.down = <<>> /\ Closed.pending = <<>>
          /\ ~Closed.connected /\ Closed.phase = "closed"
        BY DEF Closed
    <2>3. Told(Closed, Content, G)
        BY <1>2, <2>2
    <2> QED
        BY <2>1, <2>3, ToldLocalStep
<1>5. CASE Start(t)
    <2> DEFINE local == Integrated(p.doc) # {}
               ready == local /\ Valid(p.doc)
               connection == IF local /\ ~Valid(p.doc) THEN "error" ELSE "offline"
               durability == IF local /\ ~Valid(p.doc) THEN "at-risk" ELSE p.durability
               outbox == disk[d].outbox
               q == [p EXCEPT !.phase = "running", !.pending = outbox,
                              !.documentReady = ready, !.connection = connection,
                              !.durability = durability]
    <2>1. Becomes(t, q) /\ ServerIdle /\ UNCHANGED disk /\ p.phase = "loaded"
        BY <1>5 DEF Start
    <2> HIDE DEF ready, connection, durability
    <2>2. /\ q.writes = p.writes /\ q.up = p.up /\ q.doc = p.doc /\ q.pending = outbox
          /\ q.down = p.down /\ q.connected = p.connected /\ q.syncRequest = p.syncRequest
        BY <1>1 DEF TabOver
    <2>3. Range(outbox) \subseteq G /\ G \subseteq p.doc
        BY <1>1, <2>1 DEF Informed, Told
    <2> HIDE DEF q, outbox, G, p
    <2>4. Told(q, Content, G)
        BY <1>1, <2>1, <2>2, <2>3, ToldGrows
    <2> QED
        BY <2>1, <2>4, ToldLocalStep DEF G
<1> QED
    BY <1>3, <1>4, <1>5

LEMMA ToldEditStep ==
    ASSUME OneTabPerBrowser, SyncInv, Informed, NEW t \in Tab, NEW o \in Op \ Seed, Edit(t, o)
    PROVE  Informed'
<1> DEFINE p == tab[t]
           w == [kind |-> "local", op |-> o]
           writes == Append(p.writes, w)
           q == [p EXCEPT !.doc = @ \cup {o}, !.writes = writes, !.queued = @ + 1,
                          !.durability = "writing"]
           G == disk[DeviceOf[t]].log
<1>1. Becomes(t, q) /\ ServerIdle /\ UNCHANGED disk /\ p.documentReady
    BY DEF Edit
<1>2. p \in TabOver(Op, Op, Op, Op) /\ Told(p, Content, G) /\ p.phase = "running"
    BY <1>1, ToldHere, RunningTab
<1>3. w.kind = "local" /\ Range(writes) = Range(p.writes) \cup {w}
    <2>1. p.writes \in Seq(Write(Op, Op, Op)) /\ w \in Write(Op, Op, Op)
        BY <1>2 DEF TabOver, Write
    <2>2. Range(writes) = Range(p.writes) \cup {w}
        <3> HIDE DEF w, Write
        <3> QED
            BY <2>1, RangeOfAppend
    <2> QED
        BY <2>2
<1> HIDE DEF writes, w
<1>4. /\ q.writes = writes /\ q.up = p.up /\ q.doc = p.doc \cup {o} /\ q.pending = p.pending
      /\ q.down = p.down /\ q.connected = p.connected /\ q.syncRequest = p.syncRequest
    BY <1>2 DEF TabOver
<1>5. Range(p.pending) \subseteq p.doc /\ G \subseteq p.doc
    BY <1>2 DEF Told
<1> HIDE DEF q, G, p
<1>6. Told(q, Content, G)
    BY <1>2, <1>3, <1>4, <1>5, ToldGrows
<1> QED
    BY <1>1, <1>6, ToldLocalStep DEF G

\* The head of the write queue is done: what is behind it is as before.
LEMMA ToldRest ==
    ASSUME SyncInv, Informed, NEW t \in Tab, tab[t].writes # <<>>
    PROVE  /\ Told(Rest(t), Content, disk[DeviceOf[t]].log)
           /\ Rest(t) \in TabOver(Op, Op, Op, Op) /\ Rest(t).phase = "running"
           /\ Rest(t).doc = tab[t].doc /\ Rest(t).pending = tab[t].pending
           /\ NextWrite(t).kind = "remote" => NextWrite(t).ops \subseteq tab[t].doc
           /\ NextWrite(t).kind = "local" => NextWrite(t).op \in tab[t].doc
<1> DEFINE p == tab[t]
           s == p.writes
           G == disk[DeviceOf[t]].log
<1>1. /\ p \in TabOver(Op, Op, Op, Op) /\ Told(p, Content, G) /\ p.phase = "running"
      /\ Sound(p, Content, Logged(DeviceOf[t]), Sent(DeviceOf[t]))
    BY ToldHere, RunningTab, SetsTyped DEF SoundHere
<1>2. s \in Seq(Write(Op, Op, Op))
    BY <1>1 DEF TabOver
<1>3. /\ Tail(s) \in Seq(Write(Op, Op, Op)) /\ Range(Tail(s)) \subseteq Range(s)
      /\ Head(s) = s[1] /\ 1 \in DOMAIN s /\ Head(s) \in Range(s)
    <2> HIDE DEF Write, s
    <2> QED
        BY <1>2, TailOf DEF s, Range
<1>4. /\ Rest(t) \in TabOver(Op, Op, Op, Op)
      /\ Rest(t).writes = Tail(s) /\ Rest(t).up = p.up /\ Rest(t).doc = p.doc
      /\ Rest(t).pending = p.pending /\ Rest(t).phase = p.phase
      /\ Rest(t).down = p.down /\ Rest(t).connected = p.connected
      /\ Rest(t).syncRequest = p.syncRequest
    <2> HIDE DEF Write, UpFrame, DownFrame
    <2> QED
        BY <1>1, <1>3 DEF TabOver, Rest
<1>5. Range(p.pending) \subseteq p.doc /\ G \subseteq p.doc
    BY <1>1 DEF Told
<1>6. Told(Rest(t), Content, G)
    <2> HIDE DEF p, G
    <2> QED
        BY <1>1, <1>3, <1>4, <1>5, ToldGrows
<1>7. NextWrite(t) = Head(s)
    BY DEF NextWrite
<1>8. NextWrite(t).kind = "remote" => NextWrite(t).ops \subseteq p.doc
    BY <1>1, <1>3, <1>7 DEF Told
<1>9. NextWrite(t).kind = "local" => NextWrite(t).op \in p.doc
    BY <1>1, <1>3, <1>7 DEF Sound, Locals
<1> QED
    BY <1>1, <1>4, <1>6, <1>8, <1>9
\* What Told speaks of is as it was.
KeepsTold(p, q) ==
    /\ q.phase = p.phase /\ q.doc = p.doc /\ q.writes = p.writes /\ q.pending = p.pending
    /\ q.up = p.up /\ q.down = p.down /\ q.connected = p.connected
    /\ q.syncRequest = p.syncRequest

LEMMA ToldSame ==
    ASSUME NEW p, NEW q, KeepsTold(p, q), NEW C, NEW G, Told(p, C, G)
    PROVE  Told(q, C, G)
BY DEF KeepsTold, Told

LEMMA PumpedTyped ==
    ASSUME NEW C, NEW L, NEW K, NEW F, NEW p \in TabOver(C, L, K, F), K \subseteq Op
    PROVE  Pumped(p) \in TabOver(C, L, K, F)
<1>1. CASE ~CanPump(p)
    BY <1>1 DEF Pumped
<1>2. CASE CanPump(p)
    <2> DEFINE o == Head(p.pending)
               up == Append(p.up, [type |-> "update", op |-> o])
    <2>1. p.pending \in Seq(K \ Seed) /\ p.pending # <<>> /\ p.up \in Seq(UpFrame(K))
        BY <1>2 DEF CanPump, TabOver
    <2>2. o \in K \ Seed
        BY <2>1
    <2>3. up \in Seq(UpFrame(K))
        <3>1. [type |-> "update", op |-> o] \in UpFrame(K)
            BY <2>2 DEF UpFrame
        <3> QED
            BY <2>1, <3>1
    <2>4. Pumped(p) = [p EXCEPT !.inFlight = o, !.up = up]
        BY <1>2 DEF Pumped
    <2>5. o \in (Op \ Seed) \cup {NoOp}
        BY <2>2
    <2> HIDE DEF o, up
    <2> QED
        BY <2>3, <2>4, <2>5 DEF TabOver
<1> QED
    BY <1>1, <1>2

\* Whether or not the compaction behind a write fails.
LEMMA ToldCompacted ==
    ASSUME NEW t \in Tab, NEW p, Compacted(t, p), NEW C, NEW L, NEW K, NEW F,
           p \in TabOver(C, L, K, F), NEW D, NEW G, Told(p, D, G), tab \in [Tab -> TabOver(Op, Op, Op, Op)]
    PROVE  Told(tab'[t], D, G) /\ \A r \in Tab \ {t} : tab'[r] = tab[r]
<1> DEFINE q == [p EXCEPT !.writeFailure = TRUE, !.durability = "at-risk"]
<1>1. KeepsTold(p, q)
    BY DEF TabOver, KeepsTold
<1>2. Becomes(t, p) \/ Becomes(t, q)
    BY DEF Compacted
<1> HIDE DEF q
<1>3. Told(q, D, G)
    BY <1>1, ToldSame
<1> QED
    BY <1>2, <1>3 DEF Becomes

LEMMA ToldStoreRemoteStep ==
    ASSUME OneTabPerBrowser, SyncInv, Informed, NEW t \in Tab, StoreRemote(t)
    PROVE  Informed'
<1> DEFINE d == DeviceOf[t]
           ops == NextWrite(t).ops
           p == Rest(t)
           G == disk[d].log
           H == disk'[d].log
<1>1. /\ tab[t].writes # <<>> /\ NextWrite(t).kind = "remote"
      /\ disk' = [disk EXCEPT ![d].log = @ \cup ops]
      /\ Compacted(t, p) /\ ServerIdle
    BY DEF StoreRemote, Awaiting
<1>2. /\ Told(p, Content, G) /\ p \in TabOver(Op, Op, Op, Op) /\ p.phase = "running"
      /\ ops \subseteq p.doc /\ d \in Device
    BY <1>1, ToldRest, ToldHere
<1>3. disk \in [Device -> DiskState] /\ disk[d] \in DiskState
    BY <1>2 DEF SyncInv
<1> HIDE DEF ops
<1>4. /\ H = G \cup ops /\ disk'[d].outbox = disk[d].outbox
      /\ \A e \in Device \ {d} : disk'[e] = disk[e]
    BY <1>1, <1>2, <1>3 DEF DiskState
<1>5. Content' = Content
    BY <1>1, ServerIdleKeeps DEF SyncInv
<1>6. \A e \in Device : Range(disk'[e].outbox) \subseteq disk'[e].log
    BY <1>4 DEF Informed
<1>7. Told(p, Content, H)
    <2>1. H \subseteq p.doc /\ Range(p.pending) \subseteq p.doc
        BY <1>2, <1>4 DEF Told
    <2> HIDE DEF p, G, H
    <2> QED
        BY <1>2, <2>1, ToldGrows
<1>8. Told(tab'[t], Content, H) /\ \A r \in Tab \ {t} : tab'[r] = tab[r]
    <2>1. tab \in [Tab -> TabOver(Op, Op, Op, Op)]
        BY DEF SyncInv
    <2> HIDE DEF p, H
    <2> QED
        BY <1>1, <1>2, <1>7, <2>1, ToldCompacted
<1> QED
    BY <1>4, <1>5, <1>6, <1>8, ToldStep

\* An edit is stored: it is in the document that typed it.
LEMMA ToldStoreLocalStep ==
    ASSUME OneTabPerBrowser, SyncInv, Informed, NEW t \in Tab, StoreLocal(t)
    PROVE  Informed'
<1> DEFINE d == DeviceOf[t]
           o == NextWrite(t).op
           p == Rest(t)
           G == disk[d].log
           H == disk'[d].log
           left == IF p.queued > 0 THEN p.queued - 1 ELSE 0
           pending == Append(p.pending, o)
           durability == IF left = 0 THEN "ready" ELSE "writing"
           q == [p EXCEPT !.queued = left, !.pending = pending, !.durability = durability]
<1>1. /\ tab[t].writes # <<>> /\ NextWrite(t).kind = "local"
      /\ disk' = [disk EXCEPT ![d] = [log |-> @.log \cup {o}, outbox |-> Append(@.outbox, o)]]
      /\ Compacted(t, Pumped(q)) /\ ServerIdle
    BY DEF StoreLocal, Awaiting, DurableLocal
<1>2. /\ Told(p, Content, G) /\ p \in TabOver(Op, Op, Op, Op) /\ p.phase = "running"
      /\ o \in p.doc /\ d \in Device
    BY <1>1, ToldRest, ToldHere
<1>3. disk \in [Device -> DiskState] /\ disk[d] \in DiskState
    BY <1>2 DEF SyncInv
<1>4. o \in Op \ Seed
    <2>1. NextWrite(t) \in Write(Content, Logged(d), Unwritten(t))
        BY <1>1, HeadWrite
    <2>2. o \in issued
        BY <1>1, <2>1 DEF Write, Unwritten
    <2> QED
        BY <2>2 DEF SyncInv
<1> HIDE DEF o
<1>5. /\ H = G \cup {o} /\ disk'[d].outbox = Append(disk[d].outbox, o)
      /\ \A e \in Device \ {d} : disk'[e] = disk[e]
    BY <1>1, <1>2, <1>3 DEF DiskState
<1>6. Content' = Content
    BY <1>1, ServerIdleKeeps DEF SyncInv
<1>7. \A e \in Device : Range(disk'[e].outbox) \subseteq disk'[e].log
    <2>1. Range(Append(disk[d].outbox, o)) = Range(disk[d].outbox) \cup {o}
        BY <1>3, <1>4, RangeOfAppend DEF DiskState
    <2> QED
        BY <1>2, <1>5, <2>1 DEF Informed
<1>8. p.pending \in Seq(Op \ Seed) /\ p.queued \in Nat
    BY <1>2 DEF TabOver
<1>9. /\ pending \in Seq(Op \ Seed) /\ Range(pending) = Range(p.pending) \cup {o}
      /\ left \in Nat /\ durability \in {"ready", "writing", "at-risk"}
    BY <1>4, <1>8, RangeOfAppend
<1> HIDE DEF left, pending, durability
<1>10. q \in TabOver(Op, Op, Op, Op)
    BY <1>2, <1>9 DEF TabOver
<1>11. Told(q, Content, H)
    <2>1. /\ q.phase = p.phase /\ q.doc = p.doc /\ q.writes = p.writes /\ q.pending = pending
          /\ q.up = p.up /\ q.down = p.down /\ q.connected = p.connected
          /\ q.syncRequest = p.syncRequest
        BY <1>2 DEF TabOver
    <2>2. Range(p.pending) \subseteq p.doc /\ G \subseteq p.doc
        BY <1>2 DEF Told
    <2> HIDE DEF q, p, G, H
    <2> QED
        BY <1>2, <1>5, <1>9, <2>1, <2>2, ToldGrows
<1> HIDE DEF q, p
<1>12. Told(Pumped(q), Content, H) /\ Pumped(q) \in TabOver(Op, Op, Op, Op)
    <2> HIDE DEF H
    <2>1. Told(Pumped(q), Content, H)
        BY <1>10, <1>11, ToldPumped
    <2>2. Op \subseteq Op
        OBVIOUS
    <2>3. Pumped(q) \in TabOver(Op, Op, Op, Op)
        BY <1>10, <2>2, PumpedTyped
    <2> QED
        BY <2>1, <2>3
<1>13. Told(tab'[t], Content, H) /\ \A r \in Tab \ {t} : tab'[r] = tab[r]
    <2>1. tab \in [Tab -> TabOver(Op, Op, Op, Op)]
        BY DEF SyncInv
    <2> HIDE DEF H
    <2> QED
        BY <1>1, <1>12, <2>1, ToldCompacted
<1> QED
    BY <1>5, <1>6, <1>7, <1>13, ToldStep

\* A write that fails is forgotten, and with it its entry.
LEMMA ToldWriteFailsStep ==
    ASSUME OneTabPerBrowser, SyncInv, Informed, NEW t \in Tab, WriteFails(t)
    PROVE  Informed'
<1> DEFINE p == Rest(t)
           q == [p EXCEPT !.writeFailure = TRUE, !.durability = "at-risk"]
<1>1. tab[t].writes # <<>> /\ Becomes(t, q) /\ ServerIdle /\ UNCHANGED disk
    BY DEF WriteFails, Awaiting
<1>2. Told(p, Content, disk[DeviceOf[t]].log) /\ p \in TabOver(Op, Op, Op, Op)
    BY <1>1, ToldRest
<1>3. KeepsTold(p, q)
    BY <1>2 DEF TabOver, KeepsTold
<1> HIDE DEF q, p
<1> QED
    BY <1>1, <1>2, <1>3, ToldSame, ToldLocalStep
\* The socket comes and goes.
LEMMA ToldSocketStep ==
    ASSUME OneTabPerBrowser, SyncInv, Informed, NEW t \in Tab, Connect(t) \/ Disconnect(t)
    PROVE  Informed'
<1> DEFINE p == tab[t]
           G == disk[DeviceOf[t]].log
<1>1. p \in TabOver(Op, Op, Op, Op) /\ Told(p, Content, G)
    BY ToldHere
<1>2. CASE Connect(t)
    <2> DEFINE ready == [type |-> "ready"]
               down == <<ready>>
               q == [p EXCEPT !.connected = TRUE, !.connection = "syncing", !.down = down]
    <2>1. Becomes(t, q) /\ ServerIdle /\ UNCHANGED disk /\ ~p.connected
        BY <1>2 DEF Connect
    <2>2. /\ DOMAIN down = {1} /\ down[1] = ready /\ Range(down) = {ready}
          /\ ready.type = "ready"
        BY DEF Range
    <2>3. Greets(down) /\ ~Concludes(down)
        BY <2>2 DEF Greets, Concludes
    <2> HIDE DEF down
    <2>4. /\ q.phase = p.phase /\ q.doc = p.doc /\ q.writes = p.writes /\ q.pending = p.pending
          /\ q.up = p.up /\ q.down = down /\ q.connected
        BY <1>1 DEF TabOver
    <2>5. p.up = <<>>
        BY <1>1, <2>1 DEF Told
    <2> HIDE DEF q, G, p
    <2>6. Told(q, Content, G)
        BY <1>1, <2>2, <2>3, <2>4, <2>5, NoFrames DEF Told
    <2> QED
        BY <2>1, <2>6, ToldLocalStep DEF G
<1>3. CASE Disconnect(t)
    <2>1. Becomes(t, Dropped(p)) /\ ServerIdle /\ UNCHANGED disk
        BY <1>3 DEF Disconnect
    <2> HIDE DEF p, G
    <2>2. Told(Dropped(p), Content, G)
        BY <1>1, ToldDropped
    <2> QED
        BY <2>1, <2>2, ToldLocalStep DEF G
<1> QED
    BY <1>2, <1>3

\* READY is read: from here on only the answer to the sync request counts.
LEMMA ToldReceiveReadyStep ==
    ASSUME OneTabPerBrowser, SyncInv, Informed, NEW t \in Tab, ReceiveReady(t)
    PROVE  Informed'
<1> DEFINE p == tab[t]
           G == disk[DeviceOf[t]].log
           frame == [type |-> "sync", vector |-> StateVector(p.doc)]
           up == Append(p.up, frame)
           down == Tail(p.down)
           q == [Read(t) EXCEPT !.socketReady = TRUE, !.syncComplete = FALSE, !.syncRequest = TRUE,
                                !.connection = "syncing", !.up = up]
<1>1. p \in TabOver(Op, Op, Op, Op) /\ Told(p, Content, G)
    BY ToldHere
<1>2. Read(t) = [p EXCEPT !.down = down]
    BY DEF Read
<1>3. p.down # <<>> /\ Head(p.down).type = "ready" /\ ServerIdle /\ UNCHANGED disk
    BY DEF ReceiveReady, Arrived
<1>4. Becomes(t, q)
    <2>1. Read(t).up = p.up
        BY <1>1, <1>2 DEF TabOver
    <2>2. tab' = [tab EXCEPT ![t] =
              [Read(t) EXCEPT !.socketReady = TRUE, !.syncComplete = FALSE, !.syncRequest = TRUE,
                              !.connection = "syncing", !.up = Append(Read(t).up, frame)]]
        BY DEF ReceiveReady, Becomes
    <2> QED
        BY <2>1, <2>2 DEF Becomes
<1>5. p.down \in Seq(DownFrame(Op)) /\ p.up \in Seq(UpFrame(Op)) /\ p.doc \in SUBSET Op
    BY <1>1 DEF TabOver
<1>6. /\ Greets(p.down) /\ ~Concludes(down) /\ ~Greets(down)
      /\ \A i \in DOMAIN down : down[i].type = "ready" => i = 1
    <2> HIDE DEF p, DownFrame
    <2> QED
        BY <1>1, <1>3, <1>5, FramesTail DEF Told
<1>7. Range(up) = Range(p.up) \cup {frame}
    <2>1. frame \in UpFrame(Op)
        BY <1>5 DEF UpFrame, StateVector, Integrated
    <2> HIDE DEF UpFrame, frame
    <2> QED
        BY <1>5, <2>1, RangeOfAppend
<1>8. frame.type = "sync" /\ frame.vector \subseteq p.doc
    BY DEF StateVector, Integrated
<1> HIDE DEF up, down, frame
<1>9. /\ q.phase = p.phase /\ q.doc = p.doc /\ q.writes = p.writes /\ q.pending = p.pending
      /\ q.up = up /\ q.down = down /\ q.connected = p.connected /\ q.syncRequest
    BY <1>1, <1>2 DEF TabOver
<1>10. p.connected
    BY <1>1, <1>3 DEF Told
<1> HIDE DEF q, p, G
<1>11. Told(q, Content, G)
    BY <1>1, <1>6, <1>7, <1>8, <1>9, <1>10 DEF Told
<1> QED
    BY <1>3, <1>4, <1>11, ToldLocalStep DEF G

\* The sync is over, or the timer fires.
LEMMA ToldPumpStep ==
    ASSUME OneTabPerBrowser, SyncInv, Informed, NEW t \in Tab, FinishSync(t) \/ AckTimeout(t)
    PROVE  Informed'
<1> DEFINE G == disk[DeviceOf[t]].log
<1>1. CASE FinishSync(t)
    <2> DEFINE p == Rest(t)
               online == [p EXCEPT !.syncComplete = TRUE, !.connection = "online",
                                   !.documentReady = TRUE]
               q == IF p.writeFailure \/ ~Valid(p.doc) THEN Failed(p) ELSE Pumped(online)
    <2>1. tab[t].writes # <<>> /\ Becomes(t, q) /\ ServerIdle /\ UNCHANGED disk
        BY <1>1 DEF FinishSync, Awaiting
    <2>2. p \in TabOver(Op, Op, Op, Op) /\ Told(p, Content, G)
        BY <2>1, ToldRest
    <2> HIDE DEF p, G
    <2>3. Told(Failed(p), Content, G)
        BY <2>2, ToldDropped
    <2>4. KeepsTold(p, online) /\ online \in TabOver(Op, Op, Op, Op)
        BY <2>2 DEF TabOver, KeepsTold
    <2> HIDE DEF online
    <2>5. Told(online, Content, G)
        BY <2>2, <2>4, ToldSame
    <2>6. Told(Pumped(online), Content, G)
        BY <2>4, <2>5, ToldPumped
    <2>7. Told(q, Content, G)
        BY <2>3, <2>6
    <2> HIDE DEF q
    <2> QED
        BY <2>1, <2>7, ToldLocalStep DEF G
<1>2. CASE AckTimeout(t)
    <2> DEFINE p == tab[t]
               q == [p EXCEPT !.inFlight = NoOp]
    <2>1. Becomes(t, Pumped(q)) /\ ServerIdle /\ UNCHANGED disk
        BY <1>2 DEF AckTimeout
    <2>2. p \in TabOver(Op, Op, Op, Op) /\ Told(p, Content, G)
        BY ToldHere
    <2>3. KeepsTold(p, q) /\ q \in TabOver(Op, Op, Op, Op)
        BY <2>2 DEF TabOver, KeepsTold
    <2> HIDE DEF q, p, G
    <2>4. Told(q, Content, G)
        BY <2>2, <2>3, ToldSame
    <2>5. Told(Pumped(q), Content, G)
        BY <2>3, <2>4, ToldPumped
    <2> QED
        BY <2>1, <2>5, ToldLocalStep DEF G
<1> QED
    BY <1>1, <1>2

\* An acknowledged update leaves pending and the outbox, never the document.
LEMMA ToldFinishAckStep ==
    ASSUME OneTabPerBrowser, SyncInv, Informed, NEW t \in Tab, FinishAck(t)
    PROVE  Informed'
<1> DEFINE d == DeviceOf[t]
           o == NextWrite(t).op
           p == Rest(t)
           G == disk[d].log
           refused == [p EXCEPT !.inFlight = NoOp, !.durability = "at-risk"]
           pending == Without(p.pending, o)
           q == [p EXCEPT !.pending = pending, !.inFlight = NoOp]
           outbox == Without(disk[d].outbox, o)
<1>1. tab[t].writes # <<>> /\ ServerIdle
    BY DEF FinishAck, Awaiting
<1>2. /\ p \in TabOver(Op, Op, Op, Op) /\ Told(p, Content, G) /\ p.phase = "running"
      /\ d \in Device
    BY <1>1, ToldRest, ToldHere
<1>3. CASE UNCHANGED disk /\ Becomes(t, refused)
    <2>1. KeepsTold(p, refused)
        BY <1>2 DEF TabOver, KeepsTold
    <2> HIDE DEF refused, p, G
    <2>2. Told(refused, Content, G)
        BY <1>2, <2>1, ToldSame
    <2> QED
        BY <1>1, <1>3, <2>2, ToldLocalStep DEF G
<1>4. CASE disk' = [disk EXCEPT ![d].outbox = outbox] /\ Becomes(t, Pumped(q))
    <2>1. disk \in [Device -> DiskState] /\ disk[d] \in DiskState
        BY <1>2 DEF SyncInv
    <2>2. disk[d].outbox \in Seq(Op \ Seed) /\ p.pending \in Seq(Op \ Seed)
        BY <1>2, <2>1 DEF DiskState, TabOver
    <2>3. /\ pending \in Seq(Op \ Seed) /\ Range(pending) \subseteq Range(p.pending)
          /\ Range(outbox) \subseteq Range(disk[d].outbox)
        BY <2>2, WithoutIn
    <2> HIDE DEF pending, outbox, o
    <2>4. /\ disk'[d].log = G /\ disk'[d].outbox = outbox
          /\ \A e \in Device \ {d} : disk'[e] = disk[e]
        BY <1>2, <1>4, <2>1 DEF DiskState
    <2>5. \A e \in Device : Range(disk'[e].outbox) \subseteq disk'[e].log
        BY <1>2, <2>3, <2>4 DEF Informed
    <2>6. /\ q \in TabOver(Op, Op, Op, Op)
          /\ q.phase = p.phase /\ q.doc = p.doc /\ q.writes = p.writes /\ q.pending = pending
          /\ q.up = p.up /\ q.down = p.down /\ q.connected = p.connected
          /\ q.syncRequest = p.syncRequest
        BY <1>2, <2>3 DEF TabOver
    <2> HIDE DEF q, p
    <2>7. Told(q, Content, G)
        <3> HIDE DEF G
        <3>1. Range(q.pending) \subseteq q.doc
            BY <1>2, <2>3, <2>6 DEF Told
        <3> QED
            BY <1>2, <2>6, <3>1 DEF Told
    <2>8. Told(Pumped(q), Content, G)
        <3> HIDE DEF G
        <3> QED
            BY <2>6, <2>7, ToldPumped
    <2>9. Content' = Content
        BY <1>1, ServerIdleKeeps DEF SyncInv
    <2>10. tab'[t] = Pumped(q) /\ \A r \in Tab \ {t} : tab'[r] = tab[r]
        BY <1>4 DEF SyncInv, Becomes
    <2>11. Told(tab'[t], Content', disk'[d].log)
        BY <2>4, <2>8, <2>9, <2>10
    <2>12. \A e \in Device \ {d} : disk'[e].log = disk[e].log
        BY <2>4
    <2> QED
        BY <2>5, <2>9, <2>10, <2>11, <2>12, ToldStep
<1> QED
    BY <1>3, <1>4 DEF FinishAck
\* A frame other than READY is read into the document.
LEMMA ToldReads ==
    ASSUME SyncInv, Informed, NEW t \in Tab, tab[t].down # <<>>,
           Head(tab[t].down).type # "ready",
           NEW q, q.phase = tab[t].phase, tab[t].doc \subseteq q.doc,
           Carries(Head(tab[t].down)) \subseteq q.doc,
           \A w \in Range(q.writes) :
               w \in Range(tab[t].writes) \/ (w.kind = "remote" => w.ops \subseteq q.doc),
           q.pending = tab[t].pending, q.up = tab[t].up, q.down = Tail(tab[t].down),
           q.connected = tab[t].connected,
           \/ q.syncRequest = tab[t].syncRequest
           \/ Head(tab[t].down).type = "part" /\ Head(tab[t].down).done
    PROVE  Told(q, Content, disk[DeviceOf[t]].log)
<1> DEFINE p == tab[t]
           G == disk[DeviceOf[t]].log
           head == Head(p.down)
<1>1. p \in TabOver(Op, Op, Op, Op) /\ Told(p, Content, G)
    BY ToldHere
<1>2. p.down \in Seq(DownFrame(Op))
    BY <1>1 DEF TabOver
<1>3. /\ Carried(p.down) = Carries(head) \cup Carried(q.down)
      /\ ~Greets(p.down) /\ ~Greets(q.down)
      /\ Concludes(p.down) <=> Concludes(q.down) \/ (head.type = "part" /\ head.done)
      /\ \A i \in DOMAIN q.down : q.down[i].type = "ready" => i = 1
    <2> HIDE DEF DownFrame, Carries
    <2> QED
        BY <1>1, <1>2, FramesTail DEF Told
<1>4. p.connected
    BY <1>1 DEF Told
<1>5. ASSUME ~q.syncRequest \/ Concludes(q.down) PROVE Content \subseteq q.doc \cup Carried(q.down)
    <2>1. ~p.syncRequest \/ Concludes(p.down)
        BY <1>3, <1>5
    <2>2. Content \subseteq p.doc \cup Carried(p.down)
        <3> HIDE DEF p, G
        <3> QED
            BY <1>1, <1>3, <1>4, <2>1 DEF Told
    <2> QED
        BY <1>3, <2>2
<1>6. /\ Range(q.pending) \subseteq q.doc /\ (q.phase # "closed" => G \subseteq q.doc)
      /\ \A w \in Range(q.writes) : w.kind = "remote" => w.ops \subseteq q.doc
    BY <1>1 DEF Told
<1>7. \A f \in Range(q.up) : /\ f.type = "update" => f.op \in q.doc
                             /\ f.type = "sync" => f.vector \subseteq q.doc /\ ~Greets(q.down)
    BY <1>1, <1>3 DEF Told
<1> HIDE DEF G
<1> QED
    BY <1>3, <1>4, <1>5, <1>6, <1>7 DEF Told, G

\* What applying an update changes.
LEMMA AppliedShape ==
    ASSUME NEW p \in TabOver(Op, Op, Op, Op), NEW u \in SUBSET Op
    PROVE  LET q == Applied(p, u)
           IN  /\ q \in TabOver(Op, Op, Op, Op)
               /\ q.phase = p.phase /\ q.doc = p.doc \cup u /\ q.pending = p.pending
               /\ q.up = p.up /\ q.down = p.down /\ q.connected = p.connected
               /\ q.syncRequest = p.syncRequest
               /\ \A w \in Range(q.writes) : w \in Range(p.writes) \/ w.ops \subseteq q.doc
<1> DEFINE fresh == Integrated(p.doc \cup u) \ Integrated(p.doc)
           w == [kind |-> "remote", ops |-> fresh]
           writes == IF fresh = {} THEN p.writes ELSE Append(p.writes, w)
           doc == p.doc \cup u
           q == [p EXCEPT !.doc = doc, !.writes = writes]
<1>1. Applied(p, u) = q
    BY DEF Applied, TabOver
<1>2. p.writes \in Seq(Write(Op, Op, Op)) /\ doc \in SUBSET Op
    BY DEF TabOver
<1>3. w \in Write(Op, Op, Op) /\ fresh \subseteq doc /\ w.ops = fresh
    <2>1. fresh \subseteq doc
        BY DEF Integrated
    <2> QED
        BY <1>2, <2>1 DEF Write
<1>4. writes \in Seq(Write(Op, Op, Op)) /\ Range(writes) \subseteq Range(p.writes) \cup {w}
    <2> HIDE DEF w, Write, fresh
    <2> QED
        BY <1>2, <1>3, RangeOfAppend
<1> HIDE DEF writes, w, fresh, doc
<1>5. /\ q \in TabOver(Op, Op, Op, Op)
      /\ q.phase = p.phase /\ q.doc = doc /\ q.pending = p.pending
      /\ q.up = p.up /\ q.down = p.down /\ q.connected = p.connected
      /\ q.syncRequest = p.syncRequest /\ q.writes = writes
    BY <1>2, <1>4 DEF TabOver
<1> HIDE DEF q
<1>6. \A e \in Range(q.writes) : e \in Range(p.writes) \/ e.ops \subseteq q.doc
    BY <1>3, <1>4, <1>5
<1> QED
    BY <1>1, <1>5, <1>6 DEF doc

\* A part, a relayed update or an ACK arrives.
LEMMA ToldReceiveStep ==
    ASSUME OneTabPerBrowser, SyncInv, Informed, NEW t \in Tab,
           ReceivePart(t) \/ ReceiveRemote(t) \/ ReceiveAck(t)
    PROVE  Informed'
<1> DEFINE p == tab[t]
           head == Head(p.down)
           down == Tail(p.down)
           G == disk[DeviceOf[t]].log
<1>1. p.down # <<>> /\ head.type \in {"part", "remote", "ack"} /\ ServerIdle /\ UNCHANGED disk
    BY DEF ReceivePart, ReceiveRemote, ReceiveAck, Arrived
<1>2. p \in TabOver(Op, Op, Op, Op)
    BY ToldHere
<1>3. p.down \in Seq(DownFrame(Op))
    BY <1>2 DEF TabOver
<1>4. down \in Seq(DownFrame(Op)) /\ head \in DownFrame(Op)
    <2> HIDE DEF DownFrame, p
    <2> QED
        BY <1>1, <1>3, TailOf
<1> HIDE DEF head, down
<1>5. /\ Read(t) \in TabOver(Op, Op, Op, Op)
      /\ Read(t).phase = p.phase /\ Read(t).doc = p.doc /\ Read(t).pending = p.pending
      /\ Read(t).writes = p.writes
      /\ Read(t).up = p.up /\ Read(t).down = down /\ Read(t).connected = p.connected
      /\ Read(t).syncRequest = p.syncRequest
    <2> HIDE DEF Write, UpFrame, DownFrame
    <2>1. Read(t) = [p EXCEPT !.down = down]
        BY DEF Read, down
    <2> QED
        BY <1>2, <1>4, <2>1 DEF TabOver
<1>6. ASSUME NEW q, q.phase = p.phase, p.doc \subseteq q.doc, Carries(head) \subseteq q.doc,
             \A w \in Range(q.writes) :
                 w \in Range(p.writes) \/ (w.kind = "remote" => w.ops \subseteq q.doc),
             q.pending = p.pending, q.up = p.up, q.down = down, q.connected = p.connected,
             q.syncRequest = p.syncRequest \/ (head.type = "part" /\ head.done),
             Becomes(t, q)
      PROVE  Informed'
    <2>1. Told(q, Content, G)
        BY <1>1, <1>6, ToldReads DEF head, down
    <2> QED
        BY <1>1, <1>6, <2>1, ToldLocalStep
<1>7. CASE ReceivePart(t)
    <2> DEFINE r == Applied(Read(t), head.update)
               finish == [kind |-> "finish"]
               writes == Append(r.writes, finish)
               s == [r EXCEPT !.syncRequest = FALSE, !.writes = writes]
    <2>1. head.type = "part" /\ Becomes(t, IF head.done THEN s ELSE r)
        BY <1>7 DEF ReceivePart, Arrived, head
    <2>2. head.update \in SUBSET Op /\ Carries(head) = head.update
        BY <1>4, <2>1 DEF DownFrame, Carries
    <2>3. /\ r \in TabOver(Op, Op, Op, Op)
          /\ r.phase = p.phase /\ r.doc = p.doc \cup head.update /\ r.pending = p.pending
          /\ r.up = p.up /\ r.down = down /\ r.connected = p.connected
          /\ r.syncRequest = p.syncRequest
          /\ \A w \in Range(r.writes) : w \in Range(p.writes) \/ w.ops \subseteq r.doc
        BY <1>5, <2>2, AppliedShape
    <2> HIDE DEF r
    <2>4. finish \in Write(Op, Op, Op) /\ finish.kind = "finish" /\ r.writes \in Seq(Write(Op, Op, Op))
        BY <2>3 DEF Write, TabOver
    <2>5. Range(writes) = Range(r.writes) \cup {finish}
        <3> HIDE DEF finish, Write
        <3> QED
            BY <2>4, RangeOfAppend
    <2> HIDE DEF writes, finish
    <2>6. /\ s.phase = r.phase /\ s.doc = r.doc /\ s.pending = r.pending /\ s.writes = writes
          /\ s.up = r.up /\ s.down = r.down /\ s.connected = r.connected
        BY <2>3 DEF TabOver
    <2> HIDE DEF s, p, G
    <2>7. CASE ~head.done
        BY <1>6, <2>1, <2>2, <2>3, <2>7
    <2>8. CASE head.done
        <3>1. \A w \in Range(s.writes) :
                  w \in Range(p.writes) \/ (w.kind = "remote" => w.ops \subseteq s.doc)
            BY <2>3, <2>4, <2>5, <2>6
        <3> QED
            BY <1>6, <2>1, <2>2, <2>3, <2>6, <2>8, <3>1
    <2> QED
        BY <2>7, <2>8
<1>8. CASE ReceiveRemote(t)
    <2> DEFINE r == Applied(Read(t), {head.op})
    <2>1. head.type = "remote" /\ Becomes(t, r)
        BY <1>8 DEF ReceiveRemote, Arrived, head
    <2>2. {head.op} \in SUBSET Op /\ Carries(head) = {head.op}
        BY <1>4, <2>1 DEF DownFrame, Carries
    <2>3. /\ r.phase = p.phase /\ r.doc = p.doc \cup {head.op} /\ r.pending = p.pending
          /\ r.up = p.up /\ r.down = down /\ r.connected = p.connected
          /\ r.syncRequest = p.syncRequest
          /\ \A w \in Range(r.writes) : w \in Range(p.writes) \/ w.ops \subseteq r.doc
        BY <1>5, <2>2, AppliedShape
    <2> HIDE DEF r, p, G
    <2> QED
        BY <1>6, <2>1, <2>2, <2>3
<1>9. CASE ReceiveAck(t)
    <2> DEFINE w == [kind |-> "ack", op |-> head.op]
               writes == Append(Read(t).writes, w)
               r == [Read(t) EXCEPT !.writes = writes]
    <2>1. head.type = "ack" /\ Becomes(t, IF p.inFlight = head.op THEN r ELSE Read(t))
        BY <1>9 DEF ReceiveAck, Arrived, head
    <2>2. w \in Write(Op, Op, Op) /\ w.kind = "ack" /\ Carries(head) = {}
        BY <1>4, <2>1 DEF DownFrame, Carries, Write
    <2>3. Range(writes) = Range(p.writes) \cup {w}
        <3>1. Read(t).writes \in Seq(Write(Op, Op, Op))
            BY <1>5 DEF TabOver
        <3> HIDE DEF w, Write
        <3> QED
            BY <1>5, <2>2, <3>1, RangeOfAppend
    <2> HIDE DEF writes, w
    <2>4. /\ r.phase = p.phase /\ r.doc = p.doc /\ r.pending = p.pending /\ r.writes = writes
          /\ r.up = p.up /\ r.down = down /\ r.connected = p.connected
          /\ r.syncRequest = p.syncRequest
        BY <1>5 DEF TabOver
    <2> HIDE DEF r, G
    <2>5. CASE Becomes(t, r)
        BY <1>6, <2>2, <2>3, <2>4, <2>5
    <2>6. CASE Becomes(t, Read(t))
        BY <1>5, <1>6, <2>2, <2>6
    <2> QED
        BY <2>1, <2>5, <2>6
<1> QED
    BY <1>7, <1>8, <1>9
LEMMA RangeOfConcat ==
    ASSUME NEW S, NEW r \in Seq(S), NEW s \in Seq(S)
    PROVE  Range(r \o s) = Range(r) \cup Range(s)
<1>1. /\ DOMAIN r = 1 .. Len(r) /\ DOMAIN s = 1 .. Len(s) /\ Len(r) \in Nat /\ Len(s) \in Nat
      /\ r \o s \in Seq(S) /\ Len(r \o s) = Len(r) + Len(s)
      /\ \A i \in 1 .. Len(r) + Len(s) :
            (r \o s)[i] = IF i <= Len(r) THEN r[i] ELSE s[i - Len(r)]
    BY ConcatProperties
<1>2. DOMAIN (r \o s) = 1 .. Len(r) + Len(s)
    BY <1>1
<1>3. ASSUME NEW i \in DOMAIN (r \o s) PROVE (r \o s)[i] \in Range(r) \cup Range(s)
    <2>1. CASE i <= Len(r)
        BY <1>1, <1>2, <2>1 DEF Range
    <2>2. CASE ~(i <= Len(r))
        <3>1. i - Len(r) \in DOMAIN s /\ (r \o s)[i] = s[i - Len(r)]
            BY <1>1, <1>2, <2>2
        <3> QED
            BY <3>1 DEF Range
    <2> QED
        BY <2>1, <2>2
<1>4. ASSUME NEW i \in DOMAIN r PROVE r[i] \in Range(r \o s)
    <2>1. i \in DOMAIN (r \o s) /\ (r \o s)[i] = r[i]
        BY <1>1, <1>2
    <2> QED
        BY <2>1 DEF Range
<1>5. ASSUME NEW i \in DOMAIN s PROVE s[i] \in Range(r \o s)
    <2> DEFINE j == Len(r) + i
    <2>1. j \in 1 .. Len(r) + Len(s) /\ ~(j <= Len(r)) /\ j - Len(r) = i
        BY <1>1
    <2>2. j \in DOMAIN (r \o s) /\ (r \o s)[j] = s[i]
        BY <1>1, <1>2, <2>1
    <2> QED
        BY <2>2 DEF Range
<1>6. /\ Range(r \o s) = {(r \o s)[i] : i \in DOMAIN (r \o s)}
      /\ Range(r) = {r[i] : i \in DOMAIN r} /\ Range(s) = {s[i] : i \in DOMAIN s}
    BY DEF Range
<1> QED
    BY <1>3, <1>4, <1>5, <1>6

\* The server answers a sync request: with what is on its way the tab has everything.
LEMMA ToldServeSyncStep ==
    ASSUME OneTabPerBrowser, SyncInv, Informed, NEW t \in Tab, ServeSync(t)
    PROVE  Informed'
<1> DEFINE p == tab[t]
           G == disk[DeviceOf[t]].log
           head == Head(p.up)
           parts == MissingUpdates(head.vector)
           frame(i) == [type |-> "part", update |-> parts[i], done |-> i = Len(parts)]
           frames == [i \in DOMAIN parts |-> frame(i)]
           down == p.down \o frames
           up == Tail(p.up)
           q == [p EXCEPT !.up = up, !.down = down]
<1>1. p.up # <<>> /\ head.type = "sync" /\ Becomes(t, q) /\ ServerIdle /\ UNCHANGED disk
    BY DEF ServeSync, ServerReads
<1>2. p \in TabOver(Op, Op, Op, Op) /\ Told(p, Content, G)
    BY ToldHere
<1>3. p.up \in Seq(UpFrame(Op)) /\ p.down \in Seq(DownFrame(Op))
    BY <1>2 DEF TabOver
<1>4. head \in Range(p.up) /\ Range(up) \subseteq Range(p.up)
    <2> HIDE DEF UpFrame, p
    <2> QED
        BY <1>1, <1>3, TailOf
<1>5. head.vector \subseteq p.doc /\ ~Greets(p.down) /\ p.connected
    BY <1>1, <1>2, <1>4 DEF Told
<1> HIDE DEF head, up
<1>6. /\ parts \in Seq(SUBSET Content) /\ parts # <<>>
      /\ UNION Range(parts) = Content \ head.vector
    BY MissingUpdatesTyped DEF SyncInv
<1> HIDE DEF parts
<1>7. DOMAIN parts = 1 .. Len(parts) /\ Len(parts) \in Nat /\ Len(parts) \in DOMAIN parts
    BY <1>6
<1>8. \A i \in DOMAIN parts : /\ frame(i).type = "part" /\ frame(i).update = parts[i]
                              /\ frame(i).done = (i = Len(parts)) /\ frame(i) \in DownFrame(Op)
    <2>1. \A i \in DOMAIN parts : parts[i] \in SUBSET Op
        BY <1>6, SetsTyped
    <2> QED
        BY <2>1 DEF DownFrame
<1> HIDE DEF frame
<1>9. frames \in Seq(DownFrame(Op)) /\ Range(frames) = {frame(i) : i \in DOMAIN parts}
    <2>1. frames = [i \in 1 .. Len(parts) |-> frame(i)]
        BY <1>7
    <2>2. Range(frames) = {frame(i) : i \in DOMAIN parts}
        BY DEF Range
    <2> HIDE DEF DownFrame
    <2> QED
        BY <1>7, <1>8, <2>1, <2>2
<1> HIDE DEF frames
<1>10. Range(down) = Range(p.down) \cup Range(frames)
    <2> HIDE DEF p, DownFrame
    <2> QED
        BY <1>3, <1>9, RangeOfConcat
<1> HIDE DEF down
<1>11. ~Greets(down)
    BY <1>5, <1>8, <1>9, <1>10 DEF Greets
<1>12. \A i \in DOMAIN down : down[i].type # "ready"
    BY <1>11 DEF Greets, Range
<1>13. Content \subseteq p.doc \cup Carried(down)
    <2> SUFFICES ASSUME NEW x \in Content, x \notin head.vector PROVE x \in Carried(down)
        BY <1>5
    <2>1. PICK part \in Range(parts) : x \in part
        BY <1>6
    <2>2. PICK i \in DOMAIN parts : part = parts[i]
        BY DEF Range
    <2>3. frame(i) \in Range(down) /\ x \in Carries(frame(i))
        BY <1>8, <1>9, <1>10, <2>1, <2>2 DEF Carries
    <2> QED
        BY <2>3 DEF Carried
<1>14. /\ q.phase = p.phase /\ q.doc = p.doc /\ q.writes = p.writes /\ q.pending = p.pending
       /\ q.up = up /\ q.down = down /\ q.connected = p.connected
       /\ q.syncRequest = p.syncRequest
    BY <1>2 DEF TabOver
<1> HIDE DEF q, p, G
<1>15. Told(q, Content, G)
    BY <1>2, <1>4, <1>5, <1>11, <1>12, <1>13, <1>14 DEF Told
<1> QED
    BY <1>1, <1>15, ToldLocalStep DEF G

\* A refused frame is only read.
LEMMA ToldRefuseStep ==
    ASSUME OneTabPerBrowser, SyncInv, Informed, NEW t \in Tab, RefuseUpdate(t) \/ RefuseSync(t)
    PROVE  Informed'
<1> DEFINE p == tab[t]
           G == disk[DeviceOf[t]].log
           up == Tail(p.up)
           q == [p EXCEPT !.up = up]
<1>1. p.up # <<>> /\ Becomes(t, q) /\ ServerIdle /\ UNCHANGED disk
    BY DEF RefuseUpdate, RefuseSync, ServerReads
<1>2. p \in TabOver(Op, Op, Op, Op) /\ Told(p, Content, G)
    BY ToldHere
<1>3. p.up \in Seq(UpFrame(Op))
    BY <1>2 DEF TabOver
<1>4. Range(up) \subseteq Range(p.up) /\ p.connected
    <2>1. p.connected
        BY <1>1, <1>2 DEF Told
    <2> HIDE DEF UpFrame, p
    <2> QED
        BY <1>1, <1>3, <2>1, TailOf
<1> HIDE DEF up
<1>5. /\ q.phase = p.phase /\ q.doc = p.doc /\ q.writes = p.writes /\ q.pending = p.pending
      /\ q.up = up /\ q.down = p.down /\ q.connected = p.connected
      /\ q.syncRequest = p.syncRequest
    BY <1>2 DEF TabOver
<1> HIDE DEF q, p, G
<1>6. Told(q, Content, G)
    BY <1>2, <1>4, <1>5 DEF Told
<1> QED
    BY <1>1, <1>6, ToldLocalStep DEF G

\* An update is stored: its sender shows it already, everyone else hears of it.
LEMMA ToldServeUpdateStep ==
    ASSUME OneTabPerBrowser, SyncInv, Informed, NEW t \in Tab, ServeUpdate(t)
    PROVE  Informed'
<1> DEFINE d == DeviceOf[t]
           p == tab[t]
           G == disk[d].log
           head == Head(p.up)
           o == head.op
           ack == [type |-> "ack", op |-> o]
           down == IF reply'.status = "rejected" THEN p.down ELSE Append(p.down, ack)
           up == Tail(p.up)
           served == [p EXCEPT !.up = up, !.down = down]
<1>1. /\ p.up # <<>> /\ head.type = "update"
      /\ StoreUpdate(<<d, o>>, {o}) /\ UNCHANGED <<disk, issued>>
    BY DEF ServeUpdate, ServerReads
<1>2. tab' = [Relayed(o, t) EXCEPT ![t] = served]
    BY DEF ServeUpdate
<1>3. p \in TabOver(Op, Op, Op, Op) /\ Told(p, Content, G) /\ d \in Device
    BY ToldHere
<1>4. p.up \in Seq(UpFrame(Op)) /\ p.down \in Seq(DownFrame(Op))
    BY <1>3 DEF TabOver
<1>5. head \in Range(p.up) /\ Range(up) \subseteq Range(p.up)
    <2> HIDE DEF UpFrame, p
    <2> QED
        BY <1>1, <1>4, TailOf
<1>6. o \in p.doc /\ p.connected
    BY <1>1, <1>3, <1>5 DEF Told
<1>7. o \in Op \ Seed /\ o \in Sent(d)
    <2>1. head \in UpFrame(Sent(d))
        BY <1>1, HeadRequest
    <2>2. o \in Sent(d) \ Seed
        BY <1>1, <2>1 DEF UpFrame
    <2> QED
        BY <2>2, SetsTyped
<1> HIDE DEF o
<1>8. /\ Content' \subseteq Content \cup {o}
      /\ reply'.status # "committed" => Content' = Content
    BY <1>1, <1>3, <1>7, ServerTakes
<1>9. /\ Carried(down) = Carried(p.down) /\ (Greets(down) <=> Greets(p.down))
      /\ (Concludes(down) <=> Concludes(p.down))
      /\ \A i \in DOMAIN down : down[i].type = "ready" => i = 1
    <2>1. ack \in DownFrame(Op) /\ ack.type = "ack" /\ Carries(ack) = {}
        BY <1>7 DEF DownFrame, Carries
    <2>2. \A i \in DOMAIN p.down : p.down[i].type = "ready" => i = 1
        BY <1>3 DEF Told
    <2> HIDE DEF ack, DownFrame, p
    <2> QED
        BY <1>4, <2>1, <2>2, FramesAppend
<1> HIDE DEF down, up
<1>10. /\ served.phase = p.phase /\ served.doc = p.doc /\ served.writes = p.writes
       /\ served.pending = p.pending /\ served.up = up /\ served.down = down
       /\ served.connected = p.connected /\ served.syncRequest = p.syncRequest
    BY <1>3 DEF TabOver
<1>11. Told(served, Content', G)
    <2> HIDE DEF served, p, G
    <2>1. Told(served, Content, G)
        BY <1>3, <1>5, <1>6, <1>9, <1>10 DEF Told
    <2> QED
        BY <1>6, <1>8, <1>10, <2>1 DEF Told
<1> HIDE DEF served
<1>12. tab' = [r \in Tab |-> IF r = t THEN served ELSE Relayed(o, t)[r]]
    BY <1>2 DEF Relayed
<1>13. \A r \in Tab \ {t} :
           \/ tab'[r] = tab[r] /\ (~tab[r].connected \/ Content' \subseteq Content)
           \/ /\ tab'[r] = Heard(tab[r], o) /\ tab[r].connected
              /\ o \in Op \ Seed /\ Content' \subseteq Content \cup {o}
    BY <1>7, <1>8, <1>12 DEF Relayed, Heard
<1>14. Told(tab'[t], Content', disk'[d].log)
    BY <1>1, <1>11, <1>12
<1>15. \A e \in Device : Range(disk'[e].outbox) \subseteq disk'[e].log
    BY <1>1 DEF Informed
<1> QED
    BY <1>1, <1>13, <1>14, <1>15, ToldStep

\* An update from a lost socket: no tab is its sender, every connected one hears of it.
LEMMA ToldServeLateStep ==
    ASSUME OneTabPerBrowser, SyncInv, Informed, NEW f \in late, ServeLate(f)
    PROVE  Informed'
<1> DEFINE t == f.tab
           d == DeviceOf[t]
           o == f.op
<1>1. /\ StoreUpdate(<<d, o>>, {o}) /\ UNCHANGED <<disk, issued>> /\ tab' = Relayed(o, NoOp)
    BY DEF ServeLate
<1>2. t \in Tab /\ o \in Op \ Seed /\ o \in Sent(d)
    BY DEF SyncInv
<1>3. d \in Device
    BY <1>2, SetsTyped
<1>4. /\ Content' \subseteq Content \cup {o}
      /\ reply'.status # "committed" => Content' = Content
    BY <1>1, <1>2, <1>3, ServerTakes
<1> HIDE DEF o, t
<1>5. \A r \in Tab :
           \/ tab'[r] = tab[r] /\ (~tab[r].connected \/ Content' \subseteq Content)
           \/ /\ tab'[r] = Heard(tab[r], o) /\ tab[r].connected
              /\ o \in Op \ Seed /\ Content' \subseteq Content \cup {o}
    BY <1>1, <1>2, <1>4, TabAssumption DEF Relayed, Heard
<1>6. Told(tab[t], Content, disk[d].log) /\ tab[t] \in TabOver(Op, Op, Op, Op)
    BY <1>2, ToldHere
<1>7. Told(tab'[t], Content', disk'[d].log)
    BY <1>1, <1>2, <1>5, <1>6, ToldHeard, ToldUnmoved
<1>8. \A e \in Device : Range(disk'[e].outbox) \subseteq disk'[e].log
    BY <1>1 DEF Informed
<1> QED
    BY <1>1, <1>2, <1>5, <1>7, <1>8, ToldStep

-----------------------------------------------------------------------------
LEMMA ToldInit == SyncInit => Informed
<1> SUFFICES ASSUME SyncInit PROVE Informed
    OBVIOUS
<1>1. Told(Closed, Content, {})
    <2>1. /\ Closed.phase = "closed" /\ Closed.writes = <<>> /\ Closed.up = <<>>
          /\ Closed.down = <<>> /\ Closed.pending = <<>> /\ ~Closed.connected
        BY DEF Closed
    <2> QED
        BY <2>1, NoFrames DEF Told
<1>2. /\ \A d \in Device : disk[d].log = {} /\ disk[d].outbox = <<>>
      /\ \A t \in Tab : tab[t] = Closed /\ DeviceOf[t] \in Device
    BY TabAssumption DEF SyncInit
<1> QED
    BY <1>1, <1>2, NoFrames DEF Informed

LEMMA ToldNext ==
    ASSUME OneTabPerBrowser, SyncInv, Informed, [SyncNext]_allVars
    PROVE  Informed'
<1>1. CASE UNCHANGED allVars
    <2>1. UNCHANGED <<document, tab, disk>>
        BY <1>1 DEF allVars, vars, syncVars
    <2>2. Content' = Content
        BY <2>1 DEF document, Content
    <2> QED
        BY <2>1, <2>2 DEF Informed
<1>2. CASE \E f \in late : ServeLate(f)
    BY <1>2, ToldServeLateStep
<1>3. ASSUME NEW t \in Tab, TabStep(t) PROVE Informed'
    BY <1>3, ToldLifeStep, ToldSocketStep, ToldStoreRemoteStep, ToldStoreLocalStep,
       ToldPumpStep, ToldFinishAckStep, ToldReceiveReadyStep, ToldReceiveStep DEF TabStep
<1>4. ASSUME NEW t \in Tab, ServerStep(t) PROVE Informed'
    BY <1>4, ToldServeSyncStep, ToldServeUpdateStep DEF ServerStep
<1>5. ASSUME NEW t \in Tab, Environment(t) PROVE Informed'
    BY <1>5, ToldLifeStep, ToldSocketStep, ToldEditStep, ToldWriteFailsStep, ToldRefuseStep
       DEF Environment
<1> QED
    BY <1>1, <1>2, <1>3, <1>4, <1>5 DEF SyncNext

\* With one tab per browser, a tab whose sync is answered holds, or has under way, all the
\* server has (transport.ts broadcastAuthorized, guestCodeProvider.ts handleSync).
THEOREM InformedInvariant == OneTabPerBrowser /\ SyncSpec => [](SyncInv /\ Informed)
<1> SUFFICES ASSUME OneTabPerBrowser PROVE SyncSpec => [](SyncInv /\ Informed)
    OBVIOUS
<1>1. SyncInit => SyncInv /\ Informed
    BY SyncInitInv, ToldInit
<1>2. (SyncInv /\ Informed) /\ [SyncNext]_allVars => (SyncInv /\ Informed)'
    BY SyncNextInv, ToldNext
<1> QED
    BY <1>1, <1>2, PTL DEF SyncSpec

\* With one tab per browser, tabs that are synchronized, have their answer and have
\* read every frame all show what the server holds: the sync answer together with
\* every later broadcastAuthorized leaves nothing out (guestCodeProvider.ts
\* handleSync, transport.ts).  With two tabs of one browser it is false: see
\* CodeSyncSharedOutbox.cfg.
THEOREM QuietAgree == OneTabPerBrowser /\ SyncSpec => []QuietTabsAgree
<1>1. ASSUME SyncInv, Informed PROVE QuietTabsAgree
    <2> SUFFICES ASSUME Quiet, NEW t \in Tab, Running(t) PROVE tab[t].doc = Content
        BY DEF QuietTabsAgree
    <2>1. /\ Synchronized(t) /\ tab[t].connected /\ ~tab[t].syncRequest
          /\ tab[t].down = <<>>
        BY DEF Quiet, Running
    <2>2. Content \subseteq tab[t].doc
        BY <1>1, <2>1, NoFrames DEF Informed, Told
    <2>3. tab[t].doc \subseteq Content
        BY <1>1, <2>1, SynchronizedShowsSaved DEF SynchronizedIsSaved
    <2> QED
        BY <2>2, <2>3
<1>2. ASSUME OneTabPerBrowser PROVE SyncSpec => []QuietTabsAgree
    BY <1>1, <1>2, InformedInvariant, PTL
<1> QED
    BY <1>2
=============================================================================
