--------------------------- MODULE BoardSyncProofs ---------------------------
(***************************************************************************)
(* Proofs about BoardSync, for any browsers, tabs and edits: nothing       *)
(* leaves the outbox before the server has it.  The inductive invariant    *)
(* follows the operations through memory, disk and wire: whatever a frame  *)
(* or a receipt speaks of is stored, and the rows a rebase is about to     *)
(* replace consist of what it writes and what the server has.  A second    *)
(* invariant, StoresInv, follows the causes of operations: what a browser  *)
(* keeps on disk is complete together with the server.                     *)
(* A third, FlowInv, follows the promises a tab's handshake and outbox     *)
(* make: from them, a tab with nothing left to do shows what is stored.    *)
(***************************************************************************)
EXTENDS BoardSync, TLAPS

\* Rows and frames that hold operations of S only.
RowsOver(S) == [ops : SUBSET S, order : Nat, tag : {0, 1}]
Frame(S) ==
    [type : {"ack"}, row : RowsOver(S)]
        \cup [type : {"step2", "update"}, ops : SUBSET S]
        \cup [type : {"step1"}, vector : SUBSET S]
        \cup [type : {"resync"}, row : Rows, reason : {"CAUSAL_GAP", "NO_NEW_INFORMATION"}]
SocketOver(S) == [down : Seq(Frame(S)), subscribed : BOOLEAN, awaiting : BOOLEAN]

Pass(S) == [phase : {"off", "read"}, base : SUBSET RowsOver(S), stored : SUBSET RowsOver(S)]
Rebase(S) ==
    [phase : {"off", "collecting", "preparing", "persisting"}, shadow : SUBSET S,
     covered : SUBSET RowsOver(S), base : SUBSET RowsOver(S), delta : SUBSET S]
TabOver(S) ==
    [mode : {"closed", "open", "recovery"}, doc : SUBSET S, unlogged : Seq(SUBSET S),
     queue : Seq(S), pending : SUBSET RowsOver(S), flight : SUBSET RowsOver(S),
     gaps : SUBSET RowsOver(S), pass : Pass(S), ready : BOOLEAN,
     sync : {"off", "waiting", "asked", "again", "done"}, rebase : Rebase(S)]
DiskOver(S) ==
    [log : SUBSET S, rows : SUBSET RowsOver(S), order : Nat, recovery : BOOLEAN]

Typed ==
    /\ content \subseteq made /\ made \subseteq Op
    /\ settled \subseteq RowsOver(content)
    /\ disk \in [Browser -> DiskOver(made)]
    /\ tab \in [Tab -> TabOver(made)]
    /\ net \in [Tab -> SocketOver(content)]
    /\ faults \in 0 .. MaxFaults

\* What a tab's memory says of itself and of the content c.
Sound(r, c) ==
    /\ r.flight \cup r.gaps \subseteq r.pending
    /\ r.rebase.phase # "off" => r.flight = {}
    /\ r.rebase.shadow \subseteq c
    /\ r.rebase.phase = "persisting" => OpsOf(r.rebase.covered) \subseteq r.rebase.delta \cup c

IInv ==
    /\ Typed
    /\ \A t \in Tab : Sound(tab[t], content)
    /\ ~HasPendingDependencies(content)
-----------------------------------------------------------------------------
LEMMA RowsOverMonotone ==
    ASSUME NEW S, NEW T, S \subseteq T
    PROVE  RowsOver(S) \subseteq RowsOver(T)
BY DEF RowsOver

LEMMA FrameMonotone ==
    ASSUME NEW S, NEW T, S \subseteq T
    PROVE  /\ Seq(Frame(S)) \subseteq Seq(Frame(T))
           /\ SocketOver(S) \subseteq SocketOver(T)
<1>1. Frame(S) \subseteq Frame(T)
    BY RowsOverMonotone DEF Frame
<1>2. Seq(Frame(S)) \subseteq Seq(Frame(T))
    BY <1>1
<1> QED
    BY <1>2 DEF SocketOver

LEMMA TabMonotone ==
    ASSUME NEW S, NEW T, S \subseteq T
    PROVE  TabOver(S) \subseteq TabOver(T) /\ DiskOver(S) \subseteq DiskOver(T)
<1>1. RowsOver(S) \subseteq RowsOver(T)
    BY RowsOverMonotone
<1>2. Seq(SUBSET S) \subseteq Seq(SUBSET T) /\ Seq(S) \subseteq Seq(T)
    OBVIOUS
<1>3. Pass(S) \subseteq Pass(T) /\ Rebase(S) \subseteq Rebase(T)
    BY <1>1 DEF Pass, Rebase
<1>4. TabOver(S) \subseteq TabOver(T)
    <2> HIDE DEF Pass, Rebase
    <2> QED
        BY <1>1, <1>2, <1>3 DEF TabOver
<1> QED
    BY <1>1, <1>4 DEF DiskOver

LEMMA ClosedTyped ==
    ASSUME NEW S
    PROVE  Closed \in TabOver(S) /\ NoSocket \in SocketOver(S) /\ NoRebase \in Rebase(S) /\ NoPass \in Pass(S)
<1>1. NoRebase \in Rebase(S) /\ NoPass \in Pass(S)
    BY DEF NoRebase, NoPass, Rebase, Pass
<1>2. <<>> \in Seq(SUBSET S) /\ <<>> \in Seq(S) /\ <<>> \in Seq(Frame(S))
    OBVIOUS
<1> QED
    BY <1>1, <1>2 DEF Closed, NoSocket, TabOver, SocketOver

LEMMA OpsOfRows ==
    ASSUME NEW S, NEW rows \in SUBSET RowsOver(S)
    PROVE  OpsOf(rows) \in SUBSET S
BY DEF OpsOf, RowsOver

\* What Sound speaks of is as it was.
KeepsRows(r, q) ==
    /\ q.pending = r.pending /\ q.flight = r.flight /\ q.gaps = r.gaps
    /\ q.rebase = r.rebase

LEMMA KeepsSound ==
    ASSUME NEW r, NEW q, KeepsRows(r, q), NEW c, Sound(r, c)
    PROVE  Sound(q, c)
BY DEF KeepsRows, Sound

\* Apply touches the document and the queue of log writes alone.
LEMMA ApplyTyped ==
    ASSUME NEW S, NEW r \in TabOver(S), NEW ops \in SUBSET S, NEW logged
    PROVE  /\ Apply(r, ops, logged) \in TabOver(S)
           /\ KeepsRows(r, Apply(r, ops, logged))
<1> DEFINE new == (Integrated(r.doc \cup ops) \ Integrated(r.doc)) \ logged
           unlogged == IF new = {} THEN r.unlogged ELSE Append(r.unlogged, new)
<1>1. r.doc \cup ops \in SUBSET S /\ r.unlogged \in Seq(SUBSET S)
    BY DEF TabOver
<1>2. new \in SUBSET S
    BY <1>1 DEF Integrated
<1>3. unlogged \in Seq(SUBSET S)
    BY <1>1, <1>2
<1>4. Apply(r, ops, logged) = [r EXCEPT !.doc = r.doc \cup ops, !.unlogged = unlogged]
    BY DEF Apply, TabOver
<1> HIDE DEF unlogged
<1>5. [r EXCEPT !.doc = r.doc \cup ops, !.unlogged = unlogged] \in TabOver(S)
    BY <1>1, <1>3 DEF TabOver
<1>6. KeepsRows(r, [r EXCEPT !.doc = r.doc \cup ops, !.unlogged = unlogged])
    BY DEF KeepsRows, TabOver
<1> QED
    BY <1>4, <1>5, <1>6
-----------------------------------------------------------------------------
LEMMA InitIInv == Init => IInv
<1> SUFFICES ASSUME Init PROVE IInv
    OBVIOUS
<1> DEFINE first == [Closed EXCEPT !.mode = "open", !.ready = TRUE, !.sync = "done"]
           socket == [NoSocket EXCEPT !.subscribed = TRUE, !.awaiting = TRUE]
<1>1. first \in TabOver(made) /\ socket \in SocketOver(content)
    BY ClosedTyped DEF TabOver, SocketOver
<1>2. \A b \in Browser : disk[b] \in DiskOver(made)
    BY DEF Init, DiskOver, RowsOver
<1>3. Typed
    BY <1>1, <1>2, HomeAssumption DEF Init, Typed
<1>4. \A t \in Tab : Sound(first, content)
    BY DEF Sound, Closed, NoRebase
<1>5. ~HasPendingDependencies(content)
    BY DEF Init, HasPendingDependencies, Integrated
<1> QED
    BY <1>3, <1>4, <1>5 DEF Init, IInv

\* What one tab's step has to show.
LEMMA StepOf ==
    ASSUME IInv, NEW t \in Tab, NEW r \in TabOver(made'), Becomes(t, r),
           made \subseteq made', made' \subseteq Op,
           content \subseteq content', content' \subseteq made',
           ~HasPendingDependencies(content'),
           settled' \subseteq RowsOver(content'),
           disk' \in [Browser -> DiskOver(made')],
           net' \in [Tab -> SocketOver(content')],
           Sound(r, content'),
           faults' \in 0 .. MaxFaults
    PROVE  IInv'
<1>1. tab' = [tab EXCEPT ![t] = r] /\ tab \in [Tab -> TabOver(made)]
    BY DEF Becomes, IInv, Typed
<1>2. TabOver(made) \subseteq TabOver(made')
    BY TabMonotone
<1>3. Typed'
    <2>1. tab' \in [Tab -> TabOver(made')]
        BY <1>1, <1>2
    <2> QED
        BY <2>1 DEF Typed, TabOver, DiskOver, SocketOver
<1>4. ASSUME NEW p \in Tab
      PROVE  Sound(tab'[p], content')
    <2>1. CASE p = t
        BY <1>1, <2>1
    <2>2. CASE p # t
        <3>1. tab'[p] = tab[p] /\ Sound(tab[p], content)
            BY <1>1, <2>2 DEF IInv
        <3> QED
            BY <2>2, <3>1 DEF Sound
    <2> QED
        BY <2>1, <2>2
<1>5. \A p \in Tab : Sound(tab[p], content)'
    BY <1>4 DEF Sound
<1> QED
    BY <1>3, <1>5 DEF IInv, HasPendingDependencies, Integrated

\* A step that changes the tab's memory, its browser's disk and no more.
LEMMA LocalStep ==
    ASSUME IInv, NEW t \in Tab, NEW r \in TabOver(made), Becomes(t, r),
           UNCHANGED <<server, net, made>>,
           faults' \in 0 .. MaxFaults,
           disk' \in [Browser -> DiskOver(made)],
           Sound(r, content)
    PROVE  IInv'
<1>1. /\ content' = content /\ settled' = settled /\ net' = net /\ made' = made
      /\ content \subseteq made /\ made \subseteq Op
      /\ settled \subseteq RowsOver(content) /\ net \in [Tab -> SocketOver(content)]
      /\ ~HasPendingDependencies(content)
    BY DEF IInv, Typed, server
<1> QED
    BY <1>1, StepOf
-----------------------------------------------------------------------------
\* The operators the actions are built from.
LEMMA ServeStep1Typed ==
    ASSUME NEW down \in Seq(Frame(content)), NEW vector
    PROVE  ServeStep1(down, vector) \in SocketOver(content)
<1>1. Frames(content \ vector) \in Seq(Frame(content))
    <2>1. [type |-> "step2", ops |-> content \ vector] \in Frame(content)
        BY DEF Frame
    <2> QED
        BY <2>1 DEF Frames
<1>2. <<[type |-> "step1", vector |-> content]>> \in Seq(Frame(content))
    <2>1. [type |-> "step1", vector |-> content] \in Frame(content)
        BY DEF Frame
    <2> QED
        BY <2>1
<1>3. down \o Frames(content \ vector) \o <<[type |-> "step1", vector |-> content]>> \in Seq(Frame(content))
    BY <1>1, <1>2
<1> QED
    BY <1>3 DEF ServeStep1, Socket, SocketOver

LEMMA BroadcastTyped ==
    ASSUME NEW S, net \in [Tab -> SocketOver(content)], content \subseteq S,
           NEW t \in Tab, NEW u \in SUBSET S, NEW own \in SocketOver(S)
    PROVE  Broadcast(t, u, own) \in [Tab -> SocketOver(S)]
<1>1. [type |-> "update", ops |-> u] \in Frame(S)
    BY DEF Frame
<1>2. ASSUME NEW p \in Tab
      PROVE  [net[p] EXCEPT !.down = Append(@, [type |-> "update", ops |-> u])] \in SocketOver(S)
    <2>1. net[p] \in SocketOver(S) /\ net[p].down \in Seq(Frame(S))
        BY FrameMonotone DEF SocketOver
    <2>2. Append(net[p].down, [type |-> "update", ops |-> u]) \in Seq(Frame(S))
        BY <1>1, <2>1
    <2> QED
        BY <2>1, <2>2 DEF SocketOver
<1>3. \A p \in Tab : net[p] \in SocketOver(S)
    BY FrameMonotone
<1> QED
    BY <1>2, <1>3 DEF Broadcast

LEMMA ResetTyped ==
    ASSUME NEW S, NEW r \in TabOver(S)
    PROVE  /\ ResetConnection(r) \in TabOver(S)
           /\ Recover(r) \in TabOver(S)
           /\ \A c : Sound(r, c) => Sound(Recover(r), c) /\ Sound(ResetConnection(r), c)
<1>1. NoRebase \in Rebase(S) /\ r.rebase \in Rebase(S)
    BY ClosedTyped DEF TabOver
<1> DEFINE rebase == IF r.rebase.phase = "persisting" THEN r.rebase ELSE NoRebase
<1>2. ResetConnection(r) = [r EXCEPT !.ready = FALSE, !.sync = "off", !.gaps = {},
                                     !.flight = {}, !.rebase = rebase]
    BY DEF ResetConnection, TabOver
<1>3. rebase \in Rebase(S)
    BY <1>1
<1>4. /\ rebase.phase = "persisting" => rebase = r.rebase
      /\ rebase.phase # "persisting" => rebase.shadow = {}
    BY DEF NoRebase
<1> HIDE DEF rebase
<1>5. ResetConnection(r) \in TabOver(S)
    BY <1>2, <1>3 DEF TabOver
<1>6. Recover(r) \in TabOver(S)
    BY <1>5 DEF Recover, TabOver
<1>7. /\ ResetConnection(r).ready = FALSE /\ ResetConnection(r).gaps = {}
      /\ ResetConnection(r).flight = {} /\ ResetConnection(r).rebase = rebase
      /\ ResetConnection(r).mode = r.mode
    BY <1>2 DEF TabOver
<1>8. /\ Recover(r).ready = FALSE /\ Recover(r).gaps = {}
      /\ Recover(r).flight = {} /\ Recover(r).rebase = rebase
      /\ Recover(r).mode = "recovery"
    BY <1>5, <1>7 DEF Recover, TabOver
<1>9. ASSUME NEW c, Sound(r, c)
      PROVE  Sound(Recover(r), c) /\ Sound(ResetConnection(r), c)
    BY <1>4, <1>7, <1>8, <1>9 DEF Sound
<1> QED
    BY <1>5, <1>6, <1>9

\* The mirror after a pass: rows in flight or waiting stay mirrored.
LEMMA AdoptedTyped ==
    ASSUME NEW S, NEW r \in TabOver(S), NEW d \in DiskOver(S)
    PROVE  /\ Adopted(r, d) \in TabOver(S)
           /\ \A c : Sound(r, c) => Sound(Adopted(r, d), c)
<1> DEFINE stored == r.pass.stored
           gone == r.pass.base \ stored
           ops == d.log \cup OpsOf(stored)
           applied == Apply(r, ops, d.log)
           sync == IF d.log \subseteq r.doc THEN applied.sync ELSE RestartSync(applied.sync)
           mirrored == [applied EXCEPT !.pending = (@ \ gone) \cup stored,
                                       !.gaps = @ \ gone, !.sync = sync, !.pass = NoPass]
           read == [mirrored EXCEPT !.flight = @ \cap mirrored.pending]
<1>1. stored \in SUBSET RowsOver(S) /\ d.log \in SUBSET S
    BY DEF TabOver, Pass, DiskOver
<1>2. ops \in SUBSET S
    BY <1>1, OpsOfRows
<1> HIDE DEF ops
<1>13. applied \in TabOver(S)
    BY <1>2, ApplyTyped
<1>4. KeepsRows(r, applied)
    BY <1>2, ApplyTyped
<1>5. sync \in {"off", "waiting", "asked", "again", "done"}
    BY <1>13 DEF TabOver, RestartSync
<1>6. Mirrored(r, d) = mirrored
    BY DEF Mirrored, ops
<1> HIDE DEF applied, sync, stored
<1>7. mirrored \in TabOver(S)
    BY <1>1, <1>13, <1>5, ClosedTyped DEF TabOver
<1>8. /\ mirrored.pending = (r.pending \ gone) \cup stored /\ mirrored.gaps = r.gaps \ gone
      /\ mirrored.flight = r.flight /\ mirrored.rebase = r.rebase
    BY <1>4, <1>13 DEF TabOver, KeepsRows
<1> HIDE DEF mirrored
<1>9. read \in TabOver(S)
    BY <1>7 DEF TabOver
<1>10. /\ read.pending = (r.pending \ gone) \cup stored /\ read.gaps = r.gaps \ gone
       /\ read.flight \subseteq r.flight /\ read.flight \subseteq read.pending
       /\ read.rebase = r.rebase
    BY <1>7, <1>8 DEF TabOver
<1>11. \A c : Sound(r, c) => Sound(read, c)
    <2> HIDE DEF read, gone
    <2>1. ASSUME NEW c, Sound(r, c)
          PROVE  Sound(read, c)
        <3>1. read.gaps \subseteq read.pending
            BY <1>10, <2>1 DEF Sound, gone
        <3> QED
            BY <1>10, <2>1, <3>1 DEF Sound
    <2> QED
        BY <2>1
<1>12. Adopted(r, d) = IF d.recovery THEN Recover(read) ELSE read
    BY <1>6 DEF Adopted, PruneInFlight
<1> HIDE DEF read
<1> QED
    BY <1>9, <1>11, <1>12, ResetTyped
-----------------------------------------------------------------------------
\* Steps of a tab alone.
LEMMA StateTyped ==
    ASSUME IInv, NEW t \in Tab
    PROVE  /\ tab[t] \in TabOver(made) /\ disk[Home[t]] \in DiskOver(made)
           /\ Home[t] \in Browser
           /\ disk \in [Browser -> DiskOver(made)]
           /\ net \in [Tab -> SocketOver(content)] /\ net[t] \in SocketOver(content)
           /\ content \subseteq made /\ made \subseteq Op
           /\ settled \subseteq RowsOver(content)
           /\ Sound(tab[t], content) /\ ~HasPendingDependencies(content)
           /\ faults \in 0 .. MaxFaults
BY HomeAssumption DEF IInv, Typed

LEMMA FaultTyped ==
    ASSUME IInv, NEW t, Fault(t)
    PROVE  faults' \in 0 .. MaxFaults
BY HomeAssumption DEF Fault, IInv, Typed

LEMMA OpenStep == ASSUME IInv, NEW t \in Tab, Open(t) PROVE IInv'
<1> DEFINE d == disk[Home[t]]
           fresh == [Closed EXCEPT !.mode = "open", !.doc = d.log, !.pending = d.rows]
           loaded == Apply(fresh, OpsOf(d.rows), d.log)
<1>1. d \in DiskOver(made)
    BY StateTyped
<1>2. d.log \in SUBSET made /\ d.rows \in SUBSET RowsOver(made)
    BY <1>1 DEF DiskOver
<1>3. OpsOf(d.rows) \in SUBSET made
    BY <1>2, OpsOfRows
<1>4. fresh \in TabOver(made)
    BY <1>2, ClosedTyped DEF TabOver
<1>5. fresh.flight = {} /\ fresh.gaps = {} /\ fresh.rebase = NoRebase
    BY DEF Closed
<1>6. Sound(fresh, content)
    BY <1>5 DEF Sound, NoRebase
<1>7. loaded \in TabOver(made) /\ Sound(loaded, content)
    <2> HIDE DEF fresh, d
    <2> QED
        BY <1>3, <1>4, <1>6, ApplyTyped, KeepsSound
<1> HIDE DEF fresh, loaded
<1>8. Becomes(t, IF d.recovery THEN Recover(loaded) ELSE loaded)
    BY DEF Open, loaded, fresh
<1>9. /\ (IF d.recovery THEN Recover(loaded) ELSE loaded) \in TabOver(made)
      /\ Sound(IF d.recovery THEN Recover(loaded) ELSE loaded, content)
    BY <1>7, ResetTyped
<1> QED
    BY <1>8, <1>9, LocalStep, StateTyped DEF Open

LEMMA WriteLogStep == ASSUME IInv, NEW t \in Tab, WriteLog(t) PROVE IInv'
<1> DEFINE r == [tab[t] EXCEPT !.unlogged = Tail(@)]
           home == Home[t]
<1>1. /\ tab[t] \in TabOver(made) /\ tab[t].unlogged \in Seq(SUBSET made) /\ tab[t].unlogged # <<>>
      /\ Sound(tab[t], content)
    BY StateTyped DEF WriteLog, TabOver
<1>2. Head(tab[t].unlogged) \in SUBSET made /\ Tail(tab[t].unlogged) \in Seq(SUBSET made)
    BY <1>1
<1>3. r \in TabOver(made) /\ KeepsRows(tab[t], r)
    BY <1>1, <1>2 DEF TabOver, KeepsRows
<1>4. disk' \in [Browser -> DiskOver(made)]
    BY <1>2, StateTyped DEF WriteLog, DiskOver
<1> QED
    BY <1>1, <1>3, <1>4, KeepsSound, LocalStep, StateTyped DEF WriteLog

LEMMA EnqueueStep == ASSUME IInv, NEW t \in Tab, Enqueue(t) PROVE IInv'
<1> DEFINE home == Home[t]
           order == disk[home].order + 1
           queue == tab[t].queue
<1>1. PICK n \in 1 .. Len(queue) :
         LET m == Row(Coalesced(queue, n), order, 0)
         IN  /\ disk' = [disk EXCEPT ![home].rows = @ \cup {m}, ![home].order = order]
             /\ Becomes(t, [tab[t] EXCEPT !.queue = SubSeq(@, n + 1, Len(@)),
                                          !.pending = @ \cup {m}])
    BY Zenon DEF Enqueue
<1> DEFINE m == Row(Coalesced(queue, n), order, 0)
           r == [tab[t] EXCEPT !.queue = SubSeq(@, n + 1, Len(@)), !.pending = @ \cup {m}]
<1>2. tab[t] \in TabOver(made) /\ queue \in Seq(made) /\ Sound(tab[t], content)
    BY StateTyped DEF TabOver
<1>3. disk[home] \in DiskOver(made) /\ order \in Nat
    BY StateTyped DEF DiskOver
<1>4. SubSeq(queue, 1, n) \in Seq(made) /\ SubSeq(queue, n + 1, Len(queue)) \in Seq(made)
    BY <1>2
<1>5. Coalesced(queue, n) \in SUBSET made
    BY <1>4 DEF Coalesced, ToSet
<1>6. m \in RowsOver(made)
    BY <1>3, <1>5 DEF Row, RowsOver
<1>7. disk' = [disk EXCEPT ![home].rows = @ \cup {m}, ![home].order = order] /\ Becomes(t, r)
    BY <1>1
<1> HIDE DEF m, order
<1>8. r \in TabOver(made) /\ Sound(r, content)
    BY <1>2, <1>4, <1>6 DEF TabOver, Sound
<1>9. disk' \in [Browser -> DiskOver(made)]
    BY <1>3, <1>6, <1>7, StateTyped DEF DiskOver
<1> QED
    BY <1>7, <1>8, <1>9, LocalStep, StateTyped DEF Enqueue

LEMMA BeginPassTyped ==
    ASSUME NEW S, NEW r \in TabOver(S), NEW rows \in SUBSET RowsOver(S)
    PROVE  BeginPass(r, rows) \in TabOver(S) /\ KeepsRows(r, BeginPass(r, rows))
<1>1. [phase |-> "read", base |-> r.pending, stored |-> rows] \in Pass(S)
    BY DEF Pass, TabOver
<1> QED
    BY <1>1 DEF BeginPass, TabOver, KeepsRows

LEMMA ReconcileStep == ASSUME IInv, NEW t \in Tab, Reconcile(t) PROVE IInv'
<1> DEFINE d == disk[Home[t]]
           begun == BeginPass(tab[t], d.rows)
<1>1. d \in DiskOver(made) /\ d.rows \in SUBSET RowsOver(made)
    BY StateTyped DEF DiskOver
<1>2. begun \in TabOver(made) /\ Sound(begun, content)
    <2> HIDE DEF d
    <2> QED
        BY <1>1, StateTyped, BeginPassTyped, KeepsSound
<1>3. Becomes(t, Adopted(begun, d))
    BY DEF Reconcile
<1> HIDE DEF begun
<1>4. Adopted(begun, d) \in TabOver(made) /\ Sound(Adopted(begun, d), content)
    BY <1>1, <1>2, AdoptedTyped
<1> QED
    BY <1>3, <1>4, LocalStep, StateTyped DEF Reconcile

LEMMA SlowReadStep == ASSUME IInv, NEW t \in Tab, SlowRead(t) PROVE IInv'
<1> DEFINE begun == BeginPass(tab[t], disk[Home[t]].rows)
<1>1. disk[Home[t]].rows \in SUBSET RowsOver(made)
    BY StateTyped DEF DiskOver
<1>2. begun \in TabOver(made) /\ Sound(begun, content)
    BY <1>1, StateTyped, BeginPassTyped, KeepsSound
<1> HIDE DEF begun
<1> QED
    BY <1>2, LocalStep, StateTyped, FaultTyped DEF SlowRead, begun

LEMMA AdoptStep == ASSUME IInv, NEW t \in Tab, Adopt(t) PROVE IInv'
<1>1. Adopted(tab[t], disk[Home[t]]) \in TabOver(made) /\ Sound(Adopted(tab[t], disk[Home[t]]), content)
    BY StateTyped, AdoptedTyped
<1> QED
    BY <1>1, LocalStep, StateTyped DEF Adopt

LEMMA AckTimeoutStep == ASSUME IInv, NEW t \in Tab, AckTimeout(t) PROVE IInv'
<1>1. PICK m \in tab[t].flight : Becomes(t, [tab[t] EXCEPT !.flight = @ \ {m}])
    BY DEF AckTimeout
<1>2. [tab[t] EXCEPT !.flight = @ \ {m}] \in TabOver(made)
    BY StateTyped DEF TabOver
<1>3. Sound([tab[t] EXCEPT !.flight = @ \ {m}], content)
    BY StateTyped DEF TabOver, Sound
<1> QED
    BY <1>1, <1>2, <1>3, LocalStep, StateTyped, FaultTyped DEF AckTimeout

LEMMA EditStep == ASSUME IInv, NEW t \in Tab, NEW o \in Op, Edit(t, o) PROVE IInv'
<1> DEFINE r == Apply(tab[t], {o}, {})
           q == [r EXCEPT !.queue = Append(@, o)]
<1>1. made \subseteq made' /\ made' \subseteq Op /\ o \in made'
    BY StateTyped DEF Edit
<1>2. tab[t] \in TabOver(made') /\ DiskOver(made) \subseteq DiskOver(made')
    BY <1>1, TabMonotone, StateTyped
<1>3. r \in TabOver(made') /\ KeepsRows(tab[t], r)
    BY <1>1, <1>2, ApplyTyped
<1> HIDE DEF r
<1>4. q \in TabOver(made') /\ KeepsRows(r, q)
    <2>1. r.queue \in Seq(made')
        BY <1>3 DEF TabOver
    <2>2. Append(r.queue, o) \in Seq(made')
        BY <1>1, <2>1
    <2> HIDE DEF Edit, Pass, Rebase, RowsOver
    <2> QED
        BY <1>3, <2>2 DEF TabOver, KeepsRows
<1>5. Sound(q, content)
    BY <1>3, <1>4, StateTyped, KeepsSound
<1>6. disk' \in [Browser -> DiskOver(made')]
    BY <1>2, StateTyped DEF Edit
<1>7. Becomes(t, q) /\ content' = content /\ settled' = settled /\ net' = net /\ faults' = faults
    BY DEF Edit, server, r
<1> HIDE DEF q
<1> QED
    BY <1>1, <1>4, <1>5, <1>6, <1>7, StepOf, StateTyped
-----------------------------------------------------------------------------
\* Rebases.
LEMMA ReadStoresStep == ASSUME IInv, NEW t \in Tab, ReadStores(t) PROVE IInv'
<1> DEFINE r == tab[t]
           rows == disk[Home[t]].rows
           all == r.rebase.shadow \cup LocalOps(disk[Home[t]])
           writing == [phase |-> "persisting", shadow |-> {}, covered |-> rows,
                       base |-> r.pending, delta |-> all \ r.rebase.shadow]
<1>1. /\ r \in TabOver(made) /\ Sound(r, content) /\ r.rebase \in Rebase(made)
      /\ rows \in SUBSET RowsOver(made) /\ r.pending \in SUBSET RowsOver(made)
      /\ disk[Home[t]].log \in SUBSET made /\ r.rebase.shadow \in SUBSET content
    BY StateTyped DEF TabOver, DiskOver, Sound
<1>2. OpsOf(rows) \in SUBSET made
    BY <1>1, OpsOfRows
<1>3. r.rebase.phase = "preparing"
    BY DEF ReadStores
<1>4. r.flight = {}
    BY <1>1, <1>3 DEF Sound
<1>5. CASE Becomes(t, [r EXCEPT !.rebase = NoRebase]) /\ UNCHANGED <<disk, net>>
    <2>1. [r EXCEPT !.rebase = NoRebase] \in TabOver(made)
        BY <1>1, ClosedTyped DEF TabOver
    <2>2. Sound([r EXCEPT !.rebase = NoRebase], content)
        BY <1>1, <1>4 DEF TabOver, Sound, NoRebase
    <2> QED
        BY <1>5, <2>1, <2>2, LocalStep, StateTyped DEF ReadStores
<1>6. CASE /\ disk' = [disk EXCEPT ![Home[t]].recovery = TRUE]
           /\ Becomes(t, Recover(r))
           /\ net' = [net EXCEPT ![t] = NoSocket]
    <2>1. disk' \in [Browser -> DiskOver(made)]
        BY <1>6, StateTyped DEF DiskOver
    <2>2. net' \in [Tab -> SocketOver(content)]
        BY <1>6, StateTyped, ClosedTyped
    <2>3. Recover(r) \in TabOver(made) /\ Sound(Recover(r), content)
        BY <1>1, ResetTyped
    <2>4. content' = content /\ settled' = settled /\ made' = made /\ faults' = faults
        BY DEF ReadStores, server
    <2> QED
        BY <1>6, <2>1, <2>2, <2>3, <2>4, StepOf, StateTyped
<1>7. CASE Becomes(t, [r EXCEPT !.rebase = writing]) /\ UNCHANGED <<disk, net>>
    <2>1. OpsOf(rows) \subseteq writing.delta \cup content /\ writing.delta \in SUBSET made
        BY <1>1, <1>2 DEF LocalOps
    <2>2. writing \in Rebase(made)
        BY <1>1, <2>1 DEF Rebase
    <2>3. writing.shadow = {} /\ writing.covered = rows
        OBVIOUS
    <2> HIDE DEF writing
    <2>4. [r EXCEPT !.rebase = writing] \in TabOver(made)
        BY <1>1, <2>2 DEF TabOver
    <2>5. Sound([r EXCEPT !.rebase = writing], content)
        BY <1>1, <1>4, <2>1, <2>3 DEF TabOver, Sound
    <2> QED
        BY <1>7, <2>4, <2>5, LocalStep, StateTyped DEF ReadStores
<1> QED
    BY <1>5, <1>6, <1>7 DEF ReadStores

LEMMA RebasedTyped ==
    ASSUME NEW S, NEW r \in TabOver(S), NEW rows \in SUBSET RowsOver(S), NEW ops \in SUBSET S,
           NEW c, Sound(r, c), r.rebase.phase = "persisting"
    PROVE  Rebased(r, rows, ops) \in TabOver(S) /\ Sound(Rebased(r, rows, ops), c)
<1> DEFINE applied == Apply(r, ops, {})
<1>1. applied \in TabOver(S) /\ KeepsRows(r, applied)
    BY ApplyTyped
<1>2. Rebased(r, rows, ops) = [applied EXCEPT !.pending = (@ \ r.rebase.base) \cup rows,
                                              !.gaps = @ \ r.rebase.base, !.rebase = NoRebase]
    BY DEF Rebased
<1> HIDE DEF applied
<1>3. applied.flight = {}
    BY <1>1 DEF Sound, KeepsRows
<1>4. Rebased(r, rows, ops) \in TabOver(S)
    <2>1. NoRebase \in Rebase(S)
        BY ClosedTyped
    <2>2. (applied.pending \ r.rebase.base) \cup rows \in SUBSET RowsOver(S)
        BY <1>1 DEF TabOver
    <2>3. applied.gaps \ r.rebase.base \in SUBSET RowsOver(S)
        BY <1>1 DEF TabOver
    <2> QED
        BY <1>1, <1>2, <2>1, <2>2, <2>3 DEF TabOver
<1>5. Sound(Rebased(r, rows, ops), c)
    BY <1>1, <1>2, <1>3 DEF TabOver, Sound, KeepsRows, NoRebase
<1> QED
    BY <1>4, <1>5

\* The rows a rebase writes: what was not uploaded is in them, at the place of
\* one they replace.
LEMMA RewriteOutboxTyped ==
    ASSUME IInv, NEW t \in Tab, RewriteOutbox(t)
    PROVE  \E new \in SUBSET RowsOver(made) :
              /\ disk' = [disk EXCEPT ![Home[t]].rows = new]
              /\ Becomes(t, Rebased(tab[t], new, tab[t].rebase.delta))
              /\ OpsOf(new) = tab[t].rebase.delta
              /\ \A w \in new : \E m \in disk[Home[t]].rows : w.order = m.order
<1> DEFINE r == tab[t]
           rows(m) == IF r.rebase.delta = {} THEN {}
                      ELSE {Row(r.rebase.delta, m.order, 1 - m.tag)}
<1>1. PICK m \in Earliest(r.rebase.covered) :
         /\ disk' = [disk EXCEPT ![Home[t]].rows = rows(m)]
         /\ Becomes(t, Rebased(r, rows(m), r.rebase.delta))
    BY DEF RewriteOutbox
<1>2. r.rebase \in Rebase(made)
    BY StateTyped DEF TabOver
<1>3. m \in RowsOver(made) /\ r.rebase.delta \in SUBSET made
    BY <1>2 DEF Earliest, Rebase
<1>4. m.order \in Nat /\ 1 - m.tag \in {0, 1}
    BY <1>3 DEF RowsOver
<1>5. rows(m) \in SUBSET RowsOver(made)
    BY <1>3, <1>4 DEF Row, RowsOver
<1>6. OpsOf(rows(m)) = r.rebase.delta
    <2>1. \A ops, order, tag : OpsOf({Row(ops, order, tag)}) = ops
        BY DEF OpsOf, Row
    <2>2. OpsOf({}) = {}
        BY DEF OpsOf
    <2> QED
        BY <2>1, <2>2
<1>7. m \in disk[Home[t]].rows /\ \A w \in rows(m) : w.order = m.order
    BY DEF Earliest, Row, RewriteOutbox, SameRows
<1> QED
    BY <1>1, <1>5, <1>6, <1>7

LEMMA RewriteOutboxStep == ASSUME IInv, NEW t \in Tab, RewriteOutbox(t) PROVE IInv'
<1>1. PICK new \in SUBSET RowsOver(made) :
         /\ disk' = [disk EXCEPT ![Home[t]].rows = new]
         /\ Becomes(t, Rebased(tab[t], new, tab[t].rebase.delta))
    BY RewriteOutboxTyped
<1>2. tab[t].rebase.delta \in SUBSET made /\ tab[t].rebase.phase = "persisting"
    BY StateTyped DEF TabOver, Rebase, RewriteOutbox
<1>3. /\ Rebased(tab[t], new, tab[t].rebase.delta) \in TabOver(made)
      /\ Sound(Rebased(tab[t], new, tab[t].rebase.delta), content)
    BY <1>2, StateTyped, RebasedTyped
<1>4. disk' \in [Browser -> DiskOver(made)]
    BY <1>1, StateTyped DEF DiskOver
<1> QED
    BY <1>1, <1>3, <1>4, LocalStep, StateTyped DEF RewriteOutbox

LEMMA LoseRebaseStep == ASSUME IInv, NEW t \in Tab, LoseRebase(t) PROVE IInv'
<1> DEFINE rows == disk[Home[t]].rows
<1>1. rows \in SUBSET RowsOver(made)
    BY StateTyped DEF DiskOver
<1>2. OpsOf(rows) \in SUBSET made
    BY <1>1, OpsOfRows
<1>3. /\ Rebased(tab[t], rows, OpsOf(rows)) \in TabOver(made)
      /\ Sound(Rebased(tab[t], rows, OpsOf(rows)), content)
    BY <1>1, <1>2, StateTyped, RebasedTyped DEF LoseRebase
<1> QED
    BY <1>3, LocalStep, StateTyped DEF LoseRebase
-----------------------------------------------------------------------------
\* Steps of a tab and its socket.
LEMMA SocketStep ==
    ASSUME IInv, NEW t \in Tab, NEW r \in TabOver(made), Becomes(t, r), Sound(r, content),
           UNCHANGED <<server, made>>,
           disk' \in [Browser -> DiskOver(made)],
           NEW n \in SocketOver(content), net' = [net EXCEPT ![t] = n],
           faults' \in 0 .. MaxFaults
    PROVE  IInv'
<1>1. /\ content' = content /\ settled' = settled /\ made' = made
      /\ net' \in [Tab -> SocketOver(content)]
    BY StateTyped DEF server
<1> QED
    BY <1>1, StepOf, StateTyped

LEMMA CloseStep == ASSUME IInv, NEW t \in Tab, Close(t) PROVE IInv'
<1>1. Closed \in TabOver(made) /\ NoSocket \in SocketOver(content)
    BY ClosedTyped
<1>2. Sound(Closed, content)
    BY DEF Sound, Closed, NoRebase
<1> QED
    BY <1>1, <1>2, SocketStep, StateTyped, FaultTyped DEF Close

LEMMA ConnectStep == ASSUME IInv, NEW t \in Tab, Connect(t) PROVE IInv'
<1>1. [tab[t] EXCEPT !.ready = TRUE, !.sync = "waiting"] \in TabOver(made)
    BY StateTyped DEF TabOver
<1>2. Sound([tab[t] EXCEPT !.ready = TRUE, !.sync = "waiting"], content)
    BY StateTyped DEF Sound, TabOver
<1> QED
    BY <1>1, <1>2, ClosedTyped, SocketStep, StateTyped DEF Connect

LEMMA DisconnectStep == ASSUME IInv, NEW t \in Tab, Disconnect(t) PROVE IInv'
<1>1. ResetConnection(tab[t]) \in TabOver(made) /\ Sound(ResetConnection(tab[t]), content)
    BY ResetTyped, StateTyped
<1> QED
    BY <1>1, ClosedTyped, SocketStep, StateTyped, FaultTyped DEF Disconnect

LEMMA StartSyncStep == ASSUME IInv, NEW t \in Tab, StartSync(t) PROVE IInv'
<1> DEFINE n == ServeStep1(net[t].down, Integrated(tab[t].doc))
<1>1. [tab[t] EXCEPT !.sync = "asked"] \in TabOver(made)
    BY StateTyped DEF TabOver
<1>2. Sound([tab[t] EXCEPT !.sync = "asked"], content)
    BY StateTyped DEF Sound, TabOver
<1>3. n \in SocketOver(content) /\ net' = [net EXCEPT ![t] = n]
    <2>1. net[t].down \in Seq(Frame(content))
        BY StateTyped DEF SocketOver
    <2> QED
        BY <2>1, StateTyped, ServeStep1Typed DEF StartSync
<1> HIDE DEF n
<1> QED
    BY <1>1, <1>2, <1>3, SocketStep, StateTyped DEF StartSync
\* A frame at the head of the queue speaks of what is stored.
LEMMA HeadTyped ==
    ASSUME IInv, NEW t \in Tab, net[t].down # <<>>
    PROVE  /\ Tail(net[t].down) \in Seq(Frame(content))
           /\ Head(net[t].down) \in Frame(content)
           /\ [net[t] EXCEPT !.down = Tail(@)] \in SocketOver(content)
<1>1. net[t].down \in Seq(Frame(content)) /\ net[t] \in SocketOver(content)
    BY StateTyped DEF SocketOver
<1>2. Tail(net[t].down) \in Seq(Frame(content)) /\ Head(net[t].down) \in Frame(content)
    BY <1>1
<1> QED
    BY <1>1, <1>2 DEF SocketOver

LEMMA FrameOfType ==
    ASSUME NEW S, NEW f \in Frame(S)
    PROVE  /\ f.type = "ack" => f.row \in RowsOver(S)
           /\ f.type \in {"step2", "update"} => f.ops \in SUBSET S
           /\ f.type = "step1" => f.vector \in SUBSET S
           /\ f.type = "resync" => f.row \in Rows
BY DEF Frame

LEMMA ReceiveOpsStep == ASSUME IInv, NEW t \in Tab, ReceiveOps(t) PROVE IInv'
<1> DEFINE f == Head(net[t].down)
           ops == f.ops
           r == Apply(tab[t], ops, {})
           new == Integrated(r.doc) \ Integrated(tab[t].doc)
           seen == IF tab[t].rebase.phase \in {"collecting", "preparing"}
                   THEN [r EXCEPT !.rebase.shadow = @ \cup ops] ELSE r
           written == [seen EXCEPT !.unlogged = <<>>]
           n == [net[t] EXCEPT !.down = Tail(@)]
<1>1. /\ net[t].down # <<>> /\ f.type \in {"step2", "update"}
      /\ \/ Becomes(t, written) /\ disk' = [disk EXCEPT ![Home[t]].log = @ \cup new]
         \/ Becomes(t, seen) /\ UNCHANGED disk
      /\ Consumes(t) /\ UNCHANGED <<server, made, faults>>
    BY DEF ReceiveOps, Receives
<1>2. ops \in SUBSET content /\ ops \in SUBSET made
    BY <1>1, HeadTyped, FrameOfType, StateTyped
<1> HIDE DEF ops
<1>3. r \in TabOver(made) /\ KeepsRows(tab[t], r)
    BY <1>2, ApplyTyped, StateTyped
<1>4. Sound(r, content)
    BY <1>3, StateTyped, KeepsSound
<1> HIDE DEF r
<1>5. seen \in TabOver(made) /\ Sound(seen, content)
    <2>1. r.rebase \in Rebase(made)
        BY <1>3 DEF TabOver
    <2>2. [r.rebase EXCEPT !.shadow = @ \cup ops] \in Rebase(made)
        BY <1>2, <2>1 DEF Rebase
    <2>3. [r EXCEPT !.rebase.shadow = @ \cup ops] \in TabOver(made)
        BY <1>3, <2>2 DEF TabOver
    <2>4. Sound([r EXCEPT !.rebase.shadow = @ \cup ops], content)
        BY <1>2, <1>3, <1>4, <2>1 DEF TabOver, Rebase, Sound
    <2> QED
        BY <1>3, <1>4, <2>3, <2>4
<1>6. new \in SUBSET made
    BY <1>3 DEF Integrated, TabOver
<1> HIDE DEF seen, new
<1>7. written \in TabOver(made) /\ KeepsRows(seen, written)
    <2>1. <<>> \in Seq(SUBSET made)
        OBVIOUS
    <2>2. written \in TabOver(made)
        BY <1>5, <2>1 DEF TabOver
    <2>3. KeepsRows(seen, written)
        BY <1>5 DEF TabOver, KeepsRows
    <2> QED
        BY <2>2, <2>3
<1>8. Sound(written, content)
    BY <1>5, <1>7, KeepsSound
<1> HIDE DEF written
<1>9. disk' \in [Browser -> DiskOver(made)]
    <2>1. /\ disk \in [Browser -> DiskOver(made)] /\ Home[t] \in Browser
          /\ disk[Home[t]] \in DiskOver(made)
        BY StateTyped
    <2>2. [disk[Home[t]] EXCEPT !.log = @ \cup new] \in DiskOver(made)
        BY <1>6, <2>1 DEF DiskOver
    <2>3. CASE disk' = [disk EXCEPT ![Home[t]].log = @ \cup new]
        BY <2>1, <2>2, <2>3
    <2> QED
        BY <1>1, <2>1, <2>3
<1>10. n \in SocketOver(content) /\ net' = [net EXCEPT ![t] = n]
    BY <1>1, HeadTyped, StateTyped DEF Consumes
<1> HIDE DEF n
<1> QED
    BY <1>1, <1>5, <1>7, <1>8, <1>9, <1>10, SocketStep, StateTyped

LEMMA ReplayEndsStep == ASSUME IInv, NEW t \in Tab, ReplayEnds(t) PROVE IInv'
<1> DEFINE r == tab[t]
           n == [net[t] EXCEPT !.down = Tail(@)]
<1>1. CASE Becomes(t, [r EXCEPT !.rebase.phase = "preparing"]) /\ Consumes(t)
    <2>1. r \in TabOver(made) /\ r.rebase \in Rebase(made) /\ r.rebase.phase = "collecting"
        BY StateTyped DEF ReplayEnds, TabOver
    <2>2. [r.rebase EXCEPT !.phase = "preparing"] \in Rebase(made)
        BY <2>1 DEF Rebase
    <2>3. [r EXCEPT !.rebase.phase = "preparing"] \in TabOver(made)
        BY <2>1, <2>2 DEF TabOver
    <2>4. Sound([r EXCEPT !.rebase.phase = "preparing"], content)
        BY <2>1, StateTyped DEF TabOver, Rebase, Sound
    <2>5. n \in SocketOver(content) /\ net' = [net EXCEPT ![t] = n]
        BY <1>1, HeadTyped DEF ReplayEnds, Receives, Consumes
    <2> QED
        BY <1>1, <2>3, <2>4, <2>5, SocketStep, StateTyped DEF ReplayEnds
<1>2. CASE Becomes(t, ResetConnection(r)) /\ net' = [net EXCEPT ![t] = NoSocket]
    <2>1. ResetConnection(r) \in TabOver(made) /\ Sound(ResetConnection(r), content)
        BY ResetTyped, StateTyped
    <2> QED
        BY <1>2, <2>1, ClosedTyped, SocketStep, StateTyped DEF ReplayEnds
<1> QED
    BY <1>1, <1>2 DEF ReplayEnds

LEMMA ReceiveAckStep == ASSUME IInv, NEW t \in Tab, ReceiveAck(t) PROVE IInv'
<1> DEFINE m == Head(net[t].down).row
           r == [tab[t] EXCEPT !.pending = @ \ {m}, !.flight = @ \ {m}]
           n == [net[t] EXCEPT !.down = Tail(@)]
<1>1. n \in SocketOver(content) /\ net' = [net EXCEPT ![t] = n]
    BY HeadTyped DEF ReceiveAck, Receives, Consumes
<1> HIDE DEF n
<1>2. CASE UNCHANGED <<tab, disk>>
    <2>1. Becomes(t, tab[t])
        BY <1>2 DEF Becomes, IInv, Typed
    <2> QED
        BY <1>1, <1>2, <2>1, SocketStep, StateTyped DEF ReceiveAck
<1>3. CASE disk' = [disk EXCEPT ![Home[t]].rows = @ \ {m}] /\ Becomes(t, RetryGaps(r)) /\ m \in tab[t].pending
    <2>1. r \in TabOver(made)
        BY StateTyped DEF TabOver
    <2>2. /\ r.pending = tab[t].pending \ {m} /\ r.flight = tab[t].flight \ {m}
          /\ r.gaps = tab[t].gaps /\ r.rebase = tab[t].rebase
        BY StateTyped DEF TabOver
    <2>3. r.ready
        BY StateTyped DEF ReceiveAck, Receives, TabOver
    <2> HIDE DEF r
    <2>4. RetryGaps(r) \in TabOver(made)
        BY <2>1 DEF RetryGaps, TabOver
    <2>5. /\ RetryGaps(r).pending = r.pending /\ RetryGaps(r).flight = r.flight
          /\ RetryGaps(r).rebase = r.rebase /\ RetryGaps(r).gaps \subseteq r.pending
        BY <2>1, <2>3 DEF RetryGaps, TabOver
    <2>6. Sound(RetryGaps(r), content)
        BY <2>2, <2>5, StateTyped DEF Sound
    <2>7. disk' \in [Browser -> DiskOver(made)]
        <3>1. disk[Home[t]] \in DiskOver(made) /\ disk \in [Browser -> DiskOver(made)]
            BY StateTyped
        <3>2. [disk[Home[t]] EXCEPT !.rows = @ \ {m}] \in DiskOver(made)
            BY <3>1 DEF DiskOver
        <3> QED
            BY <1>3, <3>1, <3>2
    <2> QED
        BY <1>1, <1>3, <2>4, <2>6, <2>7, SocketStep, StateTyped DEF ReceiveAck
<1> QED
    BY <1>2, <1>3 DEF ReceiveAck

LEMMA StartRebaseTyped ==
    ASSUME NEW r \in TabOver(made), NEW c, Sound(r, c)
    PROVE  LET q == [r EXCEPT !.flight = {}, !.rebase = [NoRebase EXCEPT !.phase = "collecting"]]
           IN  q \in TabOver(made) /\ Sound(q, c)
<1>1. [NoRebase EXCEPT !.phase = "collecting"] \in Rebase(made)
    BY DEF NoRebase, Rebase
<1>2. [r EXCEPT !.flight = {}, !.rebase = [NoRebase EXCEPT !.phase = "collecting"]] \in TabOver(made)
    BY <1>1 DEF TabOver
<1>3. Sound([r EXCEPT !.flight = {}, !.rebase = [NoRebase EXCEPT !.phase = "collecting"]], c)
    BY DEF TabOver, Sound, NoRebase
<1> QED
    BY <1>2, <1>3

LEMMA ReceiveResyncStep == ASSUME IInv, NEW t \in Tab, ReceiveResync(t) PROVE IInv'
<1> DEFINE r == tab[t]
           f == Head(net[t].down)
           freed == IF f.reason = "CAUSAL_GAP" THEN [r EXCEPT !.flight = @ \ {f.row}] ELSE r
           consumed == [net[t] EXCEPT !.down = Tail(@)]
           asked(vector) == ServeStep1(Tail(net[t].down), vector)
<1>1. /\ Tail(net[t].down) \in Seq(Frame(content)) /\ consumed \in SocketOver(content)
      /\ UNCHANGED <<server, disk, made, faults>>
    BY HeadTyped DEF ReceiveResync, Receives
<1>2. \A vector : asked(vector) \in SocketOver(content)
    BY <1>1, ServeStep1Typed
<1>3. freed \in TabOver(made) /\ Sound(freed, content)
    <2>1. [r EXCEPT !.flight = @ \ {f.row}] \in TabOver(made)
        BY StateTyped DEF TabOver
    <2>2. Sound([r EXCEPT !.flight = @ \ {f.row}], content)
        BY StateTyped DEF TabOver, Sound
    <2> QED
        BY <2>1, <2>2, StateTyped
<1>4. freed.pending = r.pending
    BY StateTyped DEF TabOver
<1>5. CASE f.row \in r.pending /\ StartRebase(t, freed)
    <2> DEFINE q == [freed EXCEPT !.flight = {}, !.rebase = [NoRebase EXCEPT !.phase = "collecting"]]
    <2> HIDE DEF freed
    <2>1. q \in TabOver(made) /\ Sound(q, content)
        BY <1>3, StartRebaseTyped
    <2>2. \/ Becomes(t, freed) /\ net' = [net EXCEPT ![t] = consumed]
          \/ Becomes(t, q) /\ net' = [net EXCEPT ![t] = asked({})]
        BY <1>5 DEF StartRebase, Consumes
    <2> HIDE DEF q, consumed, asked
    <2> QED
        BY <1>1, <1>2, <1>3, <2>1, <2>2, SocketStep, StateTyped
<1>6. CASE f.row \in r.pending /\ Becomes(t, [freed EXCEPT !.gaps = @ \cup {f.row}]) /\ Consumes(t)
    <2> HIDE DEF freed
    <2>1. f.row \in RowsOver(made)
        BY <1>6, StateTyped DEF TabOver
    <2>2. [freed EXCEPT !.gaps = @ \cup {f.row}] \in TabOver(made)
        BY <1>3, <2>1 DEF TabOver
    <2>3. Sound([freed EXCEPT !.gaps = @ \cup {f.row}], content)
        BY <1>3, <1>4, <1>6 DEF TabOver, Sound
    <2>4. net' = [net EXCEPT ![t] = consumed]
        BY <1>6 DEF Consumes
    <2> HIDE DEF consumed
    <2> QED
        BY <1>1, <1>6, <2>2, <2>3, <2>4, SocketStep, StateTyped
<1>7. CASE UNCHANGED tab /\ net' = [net EXCEPT ![t] = asked(Integrated(r.doc))]
    <2>1. Becomes(t, tab[t])
        BY <1>7 DEF Becomes, IInv, Typed
    <2> HIDE DEF asked
    <2> QED
        BY <1>1, <1>2, <1>7, <2>1, SocketStep, StateTyped
<1> QED
    BY <1>5, <1>6, <1>7 DEF ReceiveResync
-----------------------------------------------------------------------------
\* Steps of the server.
LEMMA VerdictOf ==
    ASSUME NEW isSettled, NEW u, Verdict(isSettled, u) = "committed"
    PROVE  ~HasPendingDependencies(content \cup u)
BY DEF Verdict

LEMMA ServeUpdateTyped ==
    ASSUME IInv, NEW t \in Tab, NEW m \in RowsOver(made), m.ops \subseteq made,
           ServeUpdate(t, m), UNCHANGED made
    PROVE  /\ content \subseteq content' /\ content' \subseteq made
           /\ ~HasPendingDependencies(content')
           /\ settled' \subseteq RowsOver(content')
           /\ net' \in [Tab -> SocketOver(content')]
<1> DEFINE u == m.ops
           verdict == Verdict(m \in settled, u)
           acked == [net[t] EXCEPT !.subscribed = TRUE,
                                   !.down = Append(@, [type |-> "ack", row |-> m])]
<1>1. CASE /\ verdict \in {"CAUSAL_GAP", "NO_NEW_INFORMATION"}
           /\ net' = Reply(t, Resync(m, verdict)) /\ UNCHANGED server
    <2>1. content' = content /\ settled' = settled
        BY <1>1 DEF server
    <2>2. Resync(m, verdict) \in Frame(content)
        <3>1. m \in Rows
            BY StateTyped DEF Rows, RowsOver
        <3> HIDE DEF verdict
        <3> QED
            BY <1>1, <3>1 DEF Resync, Frame
    <2>3. net[t].down \in Seq(Frame(content)) /\ net[t] \in SocketOver(content)
        BY StateTyped DEF SocketOver
    <2> HIDE DEF verdict
    <2>4. Append(net[t].down, Resync(m, verdict)) \in Seq(Frame(content))
        BY <2>2, <2>3
    <2>5. [net[t] EXCEPT !.down = Append(@, Resync(m, verdict))] \in SocketOver(content)
        BY <2>3, <2>4 DEF SocketOver
    <2>6. net' = [net EXCEPT ![t] = [net[t] EXCEPT !.down = Append(@, Resync(m, verdict))]]
        BY <1>1, StateTyped DEF Reply
    <2> QED
        BY <2>1, <2>5, <2>6, StateTyped
<1>2. CASE /\ verdict \in {"committed", "duplicate"}
           /\ content' = content \cup u /\ settled' = settled \cup {m}
           /\ net' = Broadcast(t, u, acked)
    <2>1. content \subseteq content' /\ content' \subseteq made /\ u \in SUBSET content'
        BY <1>2, StateTyped
    <2>2. ~HasPendingDependencies(content')
        <3>1. CASE verdict = "committed"
            BY <1>2, <3>1, VerdictOf DEF HasPendingDependencies, Integrated
        <3>2. CASE verdict = "duplicate"
            <4>1. m \in settled
                BY <3>2 DEF Verdict
            <4>2. content' = content
                BY <1>2, <4>1, StateTyped DEF RowsOver
            <4> QED
                BY <4>2, StateTyped
        <3> QED
            BY <1>2, <3>1, <3>2
    <2>3. m \in RowsOver(content') /\ RowsOver(content) \subseteq RowsOver(content')
        BY <2>1, RowsOverMonotone DEF RowsOver
    <2>4. settled' \subseteq RowsOver(content')
        BY <1>2, <2>3, StateTyped
    <2>5. acked \in SocketOver(content')
        <3>1. [type |-> "ack", row |-> m] \in Frame(content')
            BY <2>3 DEF Frame
        <3>2. net[t] \in SocketOver(content') /\ net[t].down \in Seq(Frame(content'))
            BY <2>1, FrameMonotone, StateTyped DEF SocketOver
        <3>3. Append(net[t].down, [type |-> "ack", row |-> m]) \in Seq(Frame(content'))
            BY <3>1, <3>2
        <3> QED
            BY <3>2, <3>3 DEF SocketOver
    <2> HIDE DEF acked, u
    <2>6. Broadcast(t, u, acked) \in [Tab -> SocketOver(content')]
        BY <2>1, <2>5, StateTyped, BroadcastTyped
    <2> QED
        BY <1>2, <2>1, <2>2, <2>4, <2>6
<1> QED
    BY <1>1, <1>2 DEF ServeUpdate, Answered

LEMMA SendStep == ASSUME IInv, NEW t \in Tab, Send(t) PROVE IInv'
<1> DEFINE r == tab[t]
<1>1. PICK m \in Earliest(r.pending \ (r.flight \cup r.gaps)) :
         Becomes(t, [r EXCEPT !.flight = @ \cup {m}]) /\ ServeUpdate(t, m)
    BY DEF Send
<1>2. r \in TabOver(made) /\ r.pending \in SUBSET RowsOver(made) /\ m \in r.pending
    BY StateTyped DEF Earliest, TabOver
<1>3. m \in RowsOver(made) /\ m.ops \subseteq made
    BY <1>2 DEF RowsOver
<1>4. [r EXCEPT !.flight = @ \cup {m}] \in TabOver(made)
    BY <1>2 DEF TabOver
<1>5. made' = made /\ disk' = disk /\ faults' = faults /\ r.rebase.phase = "off"
    BY DEF Send
<1>6. /\ content \subseteq content' /\ content' \subseteq made
      /\ ~HasPendingDependencies(content')
      /\ settled' \subseteq RowsOver(content')
      /\ net' \in [Tab -> SocketOver(content')]
    BY <1>1, <1>3, <1>5, ServeUpdateTyped
<1>7. Sound([r EXCEPT !.flight = @ \cup {m}], content')
    BY <1>2, <1>5, <1>6, StateTyped DEF Sound, TabOver
<1> QED
    BY <1>1, <1>4, <1>5, <1>6, <1>7, StepOf, StateTyped

LEMMA ServeStep2Typed ==
    ASSUME IInv, NEW t \in Tab, NEW down \in Seq(Frame(content)), NEW u \in SUBSET made,
           ServeStep2(t, down, u), UNCHANGED made
    PROVE  /\ content \subseteq content' /\ content' \subseteq made
           /\ ~HasPendingDependencies(content')
           /\ settled' \subseteq RowsOver(content')
           /\ net' \in [Tab -> SocketOver(content')]
<1> DEFINE own == [net[t] EXCEPT !.down = down, !.awaiting = FALSE]
           verdict == Verdict(FALSE, u)
           refused == [own EXCEPT !.down = Append(@, Resync(NoRow, "CAUSAL_GAP"))]
<1>1. own \in SocketOver(content) /\ settled' = settled
    BY StateTyped DEF SocketOver, ServeStep2
<1>2. CASE verdict = "committed" /\ content' = content \cup u /\ net' = Broadcast(t, u, own)
    <2>1. content \subseteq content' /\ content' \subseteq made /\ u \in SUBSET content'
        BY <1>2, StateTyped
    <2>2. ~HasPendingDependencies(content')
        BY <1>2, VerdictOf DEF HasPendingDependencies, Integrated
    <2>3. settled' \subseteq RowsOver(content')
        BY <1>1, <2>1, RowsOverMonotone, StateTyped
    <2>4. own \in SocketOver(content')
        BY <1>1, <2>1, FrameMonotone
    <2> HIDE DEF own
    <2>5. Broadcast(t, u, own) \in [Tab -> SocketOver(content')]
        BY <2>1, <2>4, StateTyped, BroadcastTyped
    <2> QED
        BY <1>2, <2>1, <2>2, <2>3, <2>5
<1>3. CASE content' = content /\ net' = [net EXCEPT ![t] = own]
    BY <1>1, <1>3, StateTyped
<1>4. CASE content' = content /\ net' = [net EXCEPT ![t] = refused]
    <2>1. Resync(NoRow, "CAUSAL_GAP") \in Frame(content)
        <3>1. NoRow \in Rows
            BY DEF NoRow, Row, Rows
        <3> QED
            BY <3>1 DEF Resync, Frame
    <2>2. Append(down, Resync(NoRow, "CAUSAL_GAP")) \in Seq(Frame(content))
        BY <2>1
    <2>3. refused \in SocketOver(content)
        BY <1>1, <2>2 DEF SocketOver
    <2> HIDE DEF refused
    <2> QED
        BY <1>1, <1>4, <2>3, StateTyped
<1> QED
    BY <1>2, <1>3, <1>4 DEF ServeStep2

LEMMA AnswerStep1Step == ASSUME IInv, NEW t \in Tab, AnswerStep1(t) PROVE IInv'
<1> DEFINE r == tab[t]
           missing == r.doc \ Head(net[t].down).vector
           answered == [r EXCEPT !.sync = Complete(@)]
           consumed == [net[t] EXCEPT !.down = Tail(@)]
<1>1. answered \in TabOver(made)
    BY StateTyped DEF TabOver, Complete
<1>2. Sound(answered, content) /\ \A c : content \subseteq c => Sound(answered, c)
    BY StateTyped DEF Sound, TabOver
<1>3. UNCHANGED <<disk, made, faults>>
    BY DEF AnswerStep1
<1>4. Tail(net[t].down) \in Seq(Frame(content)) /\ consumed \in SocketOver(content)
    BY HeadTyped DEF AnswerStep1, Receives
<1>5. CASE Becomes(t, answered) /\ Consumes(t) /\ UNCHANGED server
    <2>1. net' = [net EXCEPT ![t] = consumed]
        BY <1>5 DEF Consumes
    <2> HIDE DEF consumed, answered
    <2> QED
        BY <1>1, <1>2, <1>3, <1>4, <1>5, <2>1, SocketStep, StateTyped
<1>6. CASE Becomes(t, answered) /\ ServeStep2(t, Tail(net[t].down), missing)
    <2>1. missing \in SUBSET made
        BY StateTyped DEF TabOver
    <2>2. /\ content \subseteq content' /\ content' \subseteq made
          /\ ~HasPendingDependencies(content')
          /\ settled' \subseteq RowsOver(content')
          /\ net' \in [Tab -> SocketOver(content')]
        BY <1>3, <1>4, <1>6, <2>1, ServeStep2Typed
    <2> HIDE DEF answered
    <2> QED
        BY <1>1, <1>2, <1>3, <1>6, <2>2, StepOf, StateTyped
<1>7. CASE Becomes(t, ResetConnection(r)) /\ net' = [net EXCEPT ![t] = NoSocket] /\ UNCHANGED server
    <2>1. ResetConnection(r) \in TabOver(made) /\ Sound(ResetConnection(r), content)
        BY ResetTyped, StateTyped
    <2> QED
        BY <1>3, <1>7, <2>1, ClosedTyped, SocketStep, StateTyped
<1> QED
    BY <1>5, <1>6, <1>7 DEF AnswerStep1
-----------------------------------------------------------------------------
LEMMA StutterIInv == ASSUME IInv, UNCHANGED vars PROVE IInv'
<1>1. Typed'
    BY DEF IInv, Typed, vars, server, TabOver, DiskOver, SocketOver
<1>2. \A t \in Tab : Sound(tab[t], content)'
    BY DEF IInv, Sound, vars, server
<1> QED
    BY <1>1, <1>2 DEF IInv, HasPendingDependencies, Integrated, vars, server

LEMMA Inductive == IInv /\ [Next]_vars => IInv'
<1> SUFFICES ASSUME IInv, Next PROVE IInv'
    BY StutterIInv
<1>1. PICK t \in Tab : TabStep(t) \/ Environment(t)
    BY DEF Next
<1>2. CASE TabStep(t)
    BY <1>2, OpenStep, ConnectStep, WriteLogStep, EnqueueStep, ReconcileStep, AdoptStep,
       SendStep, StartSyncStep, ReceiveOpsStep, ReplayEndsStep, AnswerStep1Step,
       ReceiveAckStep, ReceiveResyncStep, ReadStoresStep, RewriteOutboxStep, LoseRebaseStep
       DEF TabStep
<1>3. CASE Environment(t)
    BY <1>3, CloseStep, DisconnectStep, AckTimeoutStep, SlowReadStep, EditStep DEF Environment
<1> QED
    BY <1>1, <1>2, <1>3

LEMMA Invariance == Spec => []IInv
BY InitIInv, Inductive, PTL DEF Spec

\* The invariant holds all that the type invariant says.
LEMMA TypesFollow == IInv => BoardSyncTypeOK
<1> SUFFICES ASSUME IInv PROVE BoardSyncTypeOK
    OBVIOUS
<1>1. RowsOver(content) \subseteq Rows /\ RowsOver(made) \subseteq Rows
    BY StateTyped DEF IInv, Typed, RowsOver, Rows
<1>2. settled \subseteq Rows /\ OpsOf(settled) \subseteq content
    BY <1>1, OpsOfRows DEF IInv, Typed
<1>3. \A b \in Browser : disk[b].rows \subseteq Rows /\ disk[b].log \subseteq made
    BY <1>1 DEF IInv, Typed, DiskOver
<1>4. ASSUME NEW t \in Tab
      PROVE  /\ tab[t].flight \cup tab[t].gaps \subseteq tab[t].pending
             /\ tab[t].pending \subseteq Rows
             /\ tab[t].doc \subseteq made
    BY <1>1, StateTyped DEF TabOver, Sound
<1> QED
    BY <1>2, <1>3, <1>4 DEF BoardSyncTypeOK, IInv, Typed

\* Every place an operation can be agrees with the others: rows in flight or
\* waiting are mirrored, receipts and frames speak of what is stored, and what
\* is stored has no gap (networkProvider.ts, sync-transport.ts).
THEOREM BoardSyncTypes == Spec => []BoardSyncTypeOK
BY Invariance, TypesFollow, PTL
-----------------------------------------------------------------------------
Kept == \A b \in Browser : OpsOf(disk[b].rows) \subseteq OpsOf(disk'[b].rows) \cup content'

\* Steps that take no row from a disk.
LEMMA RowsGrow ==
    ASSUME \A b \in Browser : disk[b].rows \subseteq disk'[b].rows
    PROVE  Kept
BY DEF Kept, OpsOf

LEMMA DiskUnchanged == ASSUME disk' = disk PROVE Kept
BY RowsGrow

LEMMA OwnStoresKept ==
    ASSUME IInv, NEW t \in Tab, WriteLog(t) \/ Enqueue(t) \/ ReceiveOps(t) \/ ReadStores(t)
    PROVE  Kept
<1>1. \A b \in Browser : disk[b] \in DiskOver(made)
    BY StateTyped DEF IInv, Typed
<1>2. CASE disk' = disk
    BY <1>2, DiskUnchanged
<1>3. CASE \E log : disk' = [disk EXCEPT ![Home[t]].log = log]
    BY <1>1, <1>3, StateTyped, RowsGrow DEF DiskOver
<1>4. CASE \E m, order : disk' = [disk EXCEPT ![Home[t]].rows = @ \cup {m}, ![Home[t]].order = order]
    BY <1>1, <1>4, StateTyped, RowsGrow DEF DiskOver
<1>5. CASE disk' = [disk EXCEPT ![Home[t]].recovery = TRUE]
    BY <1>1, <1>5, StateTyped, RowsGrow DEF DiskOver
<1>6. CASE WriteLog(t)
    BY <1>3, <1>6 DEF WriteLog
<1>7. CASE Enqueue(t)
    <2>1. \E m, order :
             disk' = [disk EXCEPT ![Home[t]].rows = @ \cup {m}, ![Home[t]].order = order]
        BY <1>7, Zenon DEF Enqueue
    <2> QED
        BY <1>4, <2>1
<1>8. CASE ReceiveOps(t)
    BY <1>2, <1>3, <1>8 DEF ReceiveOps
<1>9. CASE ReadStores(t)
    BY <1>2, <1>5, <1>9 DEF ReadStores
<1> QED
    BY <1>6, <1>7, <1>8, <1>9

\* What is acknowledged is stored.
LEMMA AckedIsKept == ASSUME IInv, NEW t \in Tab, ReceiveAck(t) PROVE Kept
<1> DEFINE m == Head(net[t].down).row
<1>1. m \in RowsOver(content)
    BY HeadTyped, FrameOfType DEF ReceiveAck, Receives
<1>2. content' = content
    BY DEF ReceiveAck, server
<1>3. m.ops \subseteq content'
    BY <1>1, <1>2 DEF RowsOver
<1>4. disk' = disk \/ disk' = [disk EXCEPT ![Home[t]].rows = @ \ {m}]
    BY DEF ReceiveAck
<1> HIDE DEF m
<1>5. \A b \in Browser : disk[b].rows \ {m} \subseteq disk'[b].rows
    BY <1>4, StateTyped DEF DiskOver
<1> QED
    BY <1>3, <1>5 DEF Kept, OpsOf

\* What a rebase replaces is in its row, or the server has it.
LEMMA RebasedIsKept == ASSUME IInv, NEW t \in Tab, RewriteOutbox(t) PROVE Kept
<1> DEFINE home == Home[t]
<1>1. PICK new \in SUBSET RowsOver(made) :
         /\ disk' = [disk EXCEPT ![home].rows = new]
         /\ OpsOf(new) = tab[t].rebase.delta
    BY RewriteOutboxTyped
<1>2. /\ content' = content /\ disk[home].rows = tab[t].rebase.covered
      /\ tab[t].rebase.phase = "persisting"
    BY DEF RewriteOutbox, SameRows, server
<1>3. OpsOf(disk[home].rows) \subseteq OpsOf(new) \cup content'
    BY <1>1, <1>2, StateTyped DEF Sound
<1>4. \A b \in Browser : disk'[b].rows = IF b = home THEN new ELSE disk[b].rows
    BY <1>1, StateTyped DEF DiskOver
<1> QED
    BY <1>3, <1>4 DEF Kept

LEMMA StepKeeps == IInv /\ [Next]_vars => Kept
<1> SUFFICES ASSUME IInv, Next \/ UNCHANGED vars PROVE Kept
    OBVIOUS
<1>1. CASE UNCHANGED vars
    BY <1>1, DiskUnchanged DEF vars
<1>2. ASSUME NEW t \in Tab, TabStep(t) \/ Environment(t)
      PROVE  Kept
    <2>1. CASE WriteLog(t) \/ Enqueue(t) \/ ReceiveOps(t) \/ ReadStores(t)
        BY <2>1, OwnStoresKept
    <2>2. CASE ReceiveAck(t)
        BY <2>2, AckedIsKept
    <2>3. CASE RewriteOutbox(t)
        BY <2>3, RebasedIsKept
    <2>4. CASE Open(t) \/ Connect(t) \/ Reconcile(t) \/ Adopt(t) \/ Send(t) \/ StartSync(t)
               \/ ReplayEnds(t) \/ AnswerStep1(t) \/ ReceiveResync(t) \/ LoseRebase(t)
        BY <2>4, DiskUnchanged DEF Open, Connect, Reconcile, Adopt, Send, StartSync,
           ReplayEnds, AnswerStep1, ReceiveResync, LoseRebase
    <2>5. CASE Environment(t)
        BY <2>5, DiskUnchanged DEF Environment, Close, Disconnect, AckTimeout, SlowRead, Edit
    <2> QED
        BY <1>2, <2>1, <2>2, <2>3, <2>4, <2>5 DEF TabStep
<1> QED
    BY <1>1, <1>2 DEF Next

\* An edit leaves the outbox on disk only when the server has it, whichever tab
\* of the browser acknowledges, reconciles or rebases (handleAck in
\* networkProvider.ts, rebasePendingUpdates in localStore.ts).
THEOREM RowsOutliveUpload == Spec => RowOutlivesUpload
<1>1. IInv /\ [Next]_vars => [Kept]_vars
    BY StepKeeps
<1>2. Spec => [][Kept]_vars
    BY <1>1, Invariance, PTL DEF Spec
<1> QED
    BY <1>2 DEF RowOutlivesUpload, Kept
-----------------------------------------------------------------------------
\* What the server and the two stores of a browser have between them, and what
\* a tab still has to write: its edits and its log writes wait in an order in
\* which the causes of each are known or come first.
Known(b) == content \cup LocalOps(disk[b])
Unlogged(r, n) == UNION {r.unlogged[i] : i \in 1 .. n}

EditsInOrder(r, K) ==
    /\ r.doc \subseteq K \cup ToSet(r.queue)
    /\ \A i \in DOMAIN r.queue :
          Deps[r.queue[i]] \subseteq K \cup {r.queue[j] : j \in 1 .. i - 1}
LogInOrder(r, K) ==
    /\ Integrated(r.doc) \subseteq K \cup Unlogged(r, Len(r.unlogged))
    /\ \A i \in DOMAIN r.unlogged : \A o \in r.unlogged[i] :
          Deps[o] \subseteq K \cup Unlogged(r, i)
ReadsKnown(r, K) ==
    /\ OpsOf(r.pass.stored) \subseteq K
    /\ r.rebase.phase = "persisting" => r.rebase.delta \subseteq K
Causal(r, K) == EditsInOrder(r, K) /\ LogInOrder(r, K) /\ ReadsKnown(r, K)

StoresInv ==
    /\ StoresComplete
    /\ \A t \in Tab : Causal(tab[t], Known(Home[t]))

LEMMA NothingMissing ==
    ASSUME NEW S
    PROVE  ~HasPendingDependencies(S) <=> \A o \in S : Deps[o] \subseteq S
BY DEF HasPendingDependencies, Integrated

LEMMA CausalMonotone ==
    ASSUME NEW r, NEW K, NEW L, K \subseteq L, Causal(r, K)
    PROVE  Causal(r, L)
<1>1. EditsInOrder(r, L)
    BY DEF Causal, EditsInOrder
<1>2. LogInOrder(r, L)
    BY DEF Causal, LogInOrder
<1> QED
    BY <1>1, <1>2 DEF Causal, ReadsKnown

\* A step that leaves document, queues and what is read alone, or forgets it.
Follows(r, q) ==
    /\ q.doc = r.doc /\ q.unlogged = r.unlogged /\ q.queue = r.queue
    /\ q.pass = r.pass \/ q.pass = NoPass
    /\ q.rebase = r.rebase \/ q.rebase.phase # "persisting"

LEMMA FollowsCausal ==
    ASSUME NEW r, NEW q, Follows(r, q), NEW K, Causal(r, K)
    PROVE  Causal(q, K)
<1>1. EditsInOrder(q, K)
    BY DEF Causal, EditsInOrder, Follows
<1>2. LogInOrder(q, K)
    BY DEF Causal, LogInOrder, Unlogged, Follows
<1>3. OpsOf(NoPass.stored) = {}
    BY DEF NoPass, OpsOf
<1>4. ReadsKnown(q, K)
    BY <1>3 DEF Causal, ReadsKnown, Follows
<1> QED
    BY <1>1, <1>2, <1>4 DEF Causal

\* What Apply puts in line for the log: its causes are known or before it.
LEMMA ApplyInOrder ==
    ASSUME NEW S \in SUBSET Op, NEW r \in TabOver(S), NEW ops \in SUBSET S, NEW K,
           NEW logged \in SUBSET K, LogInOrder(r, K)
    PROVE  LogInOrder(Apply(r, ops, logged), K)
<1> DEFINE doc == r.doc \cup ops
           new == (Integrated(doc) \ Integrated(r.doc)) \ logged
           unlogged == IF new = {} THEN r.unlogged ELSE Append(r.unlogged, new)
           q == Apply(r, ops, logged)
           n == Len(r.unlogged)
<1>1. q.doc = doc /\ q.unlogged = unlogged
    BY DEF Apply, TabOver
<1>2. doc \in SUBSET Op /\ r.unlogged \in Seq(SUBSET S) /\ n \in Nat
    BY DEF TabOver
<1> HIDE DEF q
<1>3. ASSUME new = {} PROVE LogInOrder(q, K)
    <2>1. Integrated(doc) \subseteq K \cup Integrated(r.doc)
        BY <1>3
    <2>2. Unlogged(q, n) = Unlogged(r, n) /\ \A i \in 1 .. n : Unlogged(q, i) = Unlogged(r, i)
        BY <1>1, <1>3 DEF Unlogged
    <2> HIDE DEF new
    <2>3. q.unlogged = r.unlogged
        BY <1>1, <1>3
    <2>4. DOMAIN r.unlogged = 1 .. n
        BY <1>2
    <2> QED
        BY <1>1, <2>1, <2>2, <2>3, <2>4 DEF LogInOrder
<1>4. ASSUME new # {} PROVE LogInOrder(q, K)
    <2>1. q.unlogged = Append(r.unlogged, new)
        BY <1>1, <1>4
    <2>2. new \in SUBSET S
        BY <1>2 DEF Integrated, TabOver
    <2>3. new \subseteq Integrated(doc) /\ Integrated(doc) \subseteq new \cup K \cup Integrated(r.doc)
        OBVIOUS
    <2> HIDE DEF new, doc
    <2>4. /\ Len(q.unlogged) = n + 1 /\ DOMAIN q.unlogged = 1 .. n + 1
          /\ q.unlogged[n + 1] = new
          /\ \A i \in 1 .. n : q.unlogged[i] = r.unlogged[i]
          /\ DOMAIN r.unlogged = 1 .. n
        BY <1>2, <2>1, <2>2
    <2>5. ASSUME NEW i \in 1 .. n
          PROVE  Unlogged(q, i) = Unlogged(r, i)
        <3>1. \A j \in 1 .. i : j \in 1 .. n
            BY <1>2
        <3>2. \A j \in 1 .. i : q.unlogged[j] = r.unlogged[j]
            BY <2>4, <3>1
        <3>3. {q.unlogged[j] : j \in 1 .. i} = {r.unlogged[j] : j \in 1 .. i}
            BY <3>2
        <3> QED
            BY <3>3 DEF Unlogged
    <2>6. Unlogged(q, n + 1) = Unlogged(r, n) \cup new
        <3>1. ASSUME NEW o \in Unlogged(q, n + 1)
              PROVE  o \in Unlogged(r, n) \cup new
            <4>1. PICK i \in 1 .. n + 1 : o \in q.unlogged[i]
                BY <3>1 DEF Unlogged
            <4>2. i \in 1 .. n \/ i = n + 1
                BY <1>2
            <4> QED
                BY <2>4, <4>1, <4>2 DEF Unlogged
        <3>2. ASSUME NEW o \in Unlogged(r, n)
              PROVE  o \in Unlogged(q, n + 1)
            <4>1. PICK i \in 1 .. n : o \in r.unlogged[i]
                BY <3>2 DEF Unlogged
            <4>2. i \in 1 .. n + 1
                BY <1>2
            <4> QED
                BY <2>4, <4>1, <4>2 DEF Unlogged
        <3>3. new \subseteq Unlogged(q, n + 1)
            <4>1. n + 1 \in 1 .. n + 1
                BY <1>2
            <4> QED
                BY <2>4, <4>1 DEF Unlogged
        <3> QED
            BY <3>1, <3>2, <3>3
    <2>7. Integrated(doc) \subseteq K \cup Unlogged(q, n + 1)
        BY <2>3, <2>6 DEF LogInOrder
    <2>8. ASSUME NEW o \in new
          PROVE  Deps[o] \subseteq Integrated(doc)
        <3>1. o \in Op /\ Deps[o] \subseteq doc
            BY <1>2, <2>3 DEF Integrated
        <3>2. \A p \in Deps[o] : Deps[p] \subseteq Deps[o]
            BY <3>1, DepsAssumption
        <3> QED
            BY <3>1, <3>2 DEF Integrated
    <2>9. ASSUME NEW i \in DOMAIN q.unlogged, NEW o \in q.unlogged[i]
          PROVE  Deps[o] \subseteq K \cup Unlogged(q, i)
        <3>1. CASE i = n + 1
            BY <2>4, <2>7, <2>8, <3>1
        <3>2. CASE i \in 1 .. n
            BY <2>4, <2>5, <3>2 DEF LogInOrder
        <3>3. i \in 1 .. n \/ i = n + 1
            BY <1>2, <2>4
        <3> QED
            BY <3>1, <3>2, <3>3
    <2> QED
        BY <1>1, <2>4, <2>7, <2>9 DEF LogInOrder
<1> QED
    BY <1>3, <1>4 DEF q

LEMMA ApplyCausal ==
    ASSUME NEW S \in SUBSET Op, NEW r \in TabOver(S), NEW K, Causal(r, K),
           NEW ops \in SUBSET S, ops \subseteq K, NEW logged \in SUBSET K
    PROVE  Causal(Apply(r, ops, logged), K)
<1>1. LogInOrder(r, K)
    BY DEF Causal
<1> DEFINE q == Apply(r, ops, logged)
<1>2. LogInOrder(q, K)
    BY <1>1, ApplyInOrder
<1>3. q.doc = r.doc \cup ops /\ q.queue = r.queue /\ q.pass = r.pass
    BY DEF Apply, TabOver
<1>4. q.rebase = r.rebase
    BY ApplyTyped DEF KeepsRows
<1> HIDE DEF q
<1>5. EditsInOrder(q, K)
    BY <1>3 DEF EditsInOrder, Causal
<1>6. ReadsKnown(q, K)
    BY <1>3, <1>4 DEF ReadsKnown, Causal
<1> QED
    BY <1>2, <1>5, <1>6 DEF Causal, q

LEMMA ResetFollows ==
    ASSUME NEW S, NEW r \in TabOver(S)
    PROVE  Follows(r, ResetConnection(r)) /\ Follows(r, Recover(r))
<1> DEFINE rebase == IF r.rebase.phase = "persisting" THEN r.rebase ELSE NoRebase
           q == [r EXCEPT !.ready = FALSE, !.sync = "off", !.gaps = {},
                          !.flight = {}, !.rebase = rebase]
<1>1. ResetConnection(r) = q
    BY DEF ResetConnection, TabOver
<1>2. rebase = r.rebase \/ rebase.phase # "persisting"
    BY DEF NoRebase
<1> HIDE DEF rebase
<1>3. Follows(r, q) /\ Follows(r, [q EXCEPT !.mode = "recovery"])
    BY <1>2 DEF Follows, TabOver
<1> QED
    BY <1>1, <1>3 DEF Recover

LEMMA AdoptedCausal ==
    ASSUME NEW S \in SUBSET Op, NEW r \in TabOver(S), NEW d \in DiskOver(S), NEW K,
           Causal(r, K), d.log \subseteq K
    PROVE  Causal(Adopted(r, d), K)
<1> DEFINE stored == r.pass.stored
           ops == d.log \cup OpsOf(stored)
           applied == Apply(r, ops, d.log)
           mirrored == Mirrored(r, d)
           read == [mirrored EXCEPT !.flight = @ \cap mirrored.pending]
<1>1. stored \in SUBSET RowsOver(S) /\ d.log \in SUBSET S
    BY DEF TabOver, Pass, DiskOver
<1>2. ops \in SUBSET S /\ ops \subseteq K
    BY <1>1, OpsOfRows DEF Causal, ReadsKnown
<1>3. applied \in TabOver(S) /\ Causal(applied, K)
    <2> HIDE DEF ops
    <2> QED
        BY <1>2, ApplyCausal, ApplyTyped
<1> DEFINE gone == r.pass.base \ stored
           sync == IF d.log \subseteq r.doc THEN applied.sync ELSE RestartSync(applied.sync)
<1>4. mirrored = [applied EXCEPT !.pending = (@ \ gone) \cup stored, !.gaps = @ \ gone,
                                 !.sync = sync, !.pass = NoPass]
    BY DEF Mirrored
<1>5. sync \in {"off", "waiting", "asked", "again", "done"}
    <2> HIDE DEF applied
    <2> QED
        BY <1>3 DEF TabOver, RestartSync
<1> HIDE DEF applied, mirrored, sync, stored
<1>6. mirrored \in TabOver(S) /\ Follows(applied, mirrored)
    BY <1>1, <1>3, <1>4, <1>5, ClosedTyped DEF TabOver, Follows
<1>7. read \in TabOver(S) /\ Follows(mirrored, read)
    BY <1>6 DEF TabOver, Follows
<1>8. Causal(read, K)
    <2>1. Causal(mirrored, K)
        BY <1>3, <1>6, FollowsCausal
    <2> HIDE DEF read
    <2> QED
        BY <1>7, <2>1, FollowsCausal
<1>9. Adopted(r, d) = IF d.recovery THEN Recover(read) ELSE read
    BY DEF Adopted, PruneInFlight, mirrored
<1> HIDE DEF read
<1>10. Causal(Recover(read), K)
    BY <1>7, <1>8, ResetFollows, FollowsCausal
<1> QED
    BY <1>8, <1>9, <1>10
-----------------------------------------------------------------------------
\* What one tab's step has to show.
LEMMA CausalStep ==
    ASSUME IInv, StoresInv, NEW t \in Tab, NEW r, Becomes(t, r),
           \A b \in Browser : Known(b) \subseteq Known(b)',
           StoresComplete',
           Causal(r, Known(Home[t])')
    PROVE  StoresInv'
<1>1. tab' = [tab EXCEPT ![t] = r] /\ t \in DOMAIN tab
    BY DEF Becomes, IInv, Typed
<1>2. ASSUME NEW p \in Tab
      PROVE  Causal(tab'[p], Known(Home[p])')
    <2>1. CASE p = t
        BY <1>1, <2>1
    <2>2. CASE p # t
        <3>1. tab'[p] = tab[p] /\ Causal(tab[p], Known(Home[p]))
            BY <1>1, <2>2 DEF StoresInv
        <3>2. Home[p] \in Browser
            BY HomeAssumption
        <3> QED
            BY <3>1, <3>2, CausalMonotone
    <2> QED
        BY <2>1, <2>2
<1> QED
    BY <1>2 DEF StoresInv, Causal, EditsInOrder, LogInOrder, ReadsKnown, Unlogged

\* No disk changes; what the server has grows.
LEMMA SameDiskStep ==
    ASSUME IInv, StoresInv, NEW t \in Tab, NEW r, Becomes(t, r), disk' = disk,
           content \subseteq content', ~HasPendingDependencies(content'),
           \A K : Causal(tab[t], K) /\ Known(Home[t]) \subseteq K => Causal(r, K)
    PROVE  StoresInv'
<1>1. \A b \in Browser : Known(b)' = Known(b) \cup content'
    BY DEF Known, LocalOps, OpsOf
<1>2. \A b \in Browser : ~HasPendingDependencies(Known(b) \cup content')
    BY NothingMissing DEF StoresInv, StoresComplete, Known
<1>3. StoresComplete'
    BY <1>1, <1>2 DEF StoresComplete, Known, HasPendingDependencies, Integrated
<1>4. Causal(r, Known(Home[t])')
    <2>1. Known(Home[t]) \subseteq Known(Home[t])' /\ Causal(tab[t], Known(Home[t]))
        BY <1>1, HomeAssumption DEF StoresInv
    <2>2. Causal(tab[t], Known(Home[t])')
        BY <2>1, CausalMonotone
    <2> QED
        BY <2>1, <2>2
<1> QED
    BY <1>1, <1>3, <1>4, CausalStep

\* One disk changes: the operations that reach it have their causes there.
LEMMA OwnDiskStep ==
    ASSUME IInv, StoresInv, NEW t \in Tab, NEW r, Becomes(t, r), content' = content,
           \A b \in Browser \ {Home[t]} : disk'[b] = disk[b],
           NEW new, Known(Home[t])' = Known(Home[t]) \cup new,
           \A o \in new : Deps[o] \subseteq Known(Home[t])',
           Causal(r, Known(Home[t])')
    PROVE  StoresInv'
<1>1. \A b \in Browser \ {Home[t]} : Known(b)' = Known(b)
    BY DEF Known, LocalOps, OpsOf
<1>2. \A b \in Browser : Known(b) \subseteq Known(b)'
    BY <1>1
<1>3. ASSUME NEW b \in Browser
      PROVE  ~HasPendingDependencies(Known(b)')
    <2>1. ~HasPendingDependencies(Known(b))
        BY DEF StoresInv, StoresComplete, Known
    <2>2. CASE b # Home[t]
        BY <1>1, <2>1, <2>2
    <2>3. CASE b = Home[t]
        <3>1. \A o \in Known(b)' : Deps[o] \subseteq Known(b)'
            BY <1>2, <2>1, <2>3, NothingMissing
        <3> QED
            BY <3>1, NothingMissing
    <2> QED
        BY <2>2, <2>3
<1>4. StoresComplete'
    BY <1>3 DEF StoresComplete, Known, HasPendingDependencies, Integrated
<1> QED
    BY <1>2, <1>4, CausalStep
-----------------------------------------------------------------------------
LEMMA InitStoresInv == Init => StoresInv
<1> SUFFICES ASSUME Init PROVE StoresInv
    OBVIOUS
<1> DEFINE first == [Closed EXCEPT !.mode = "open", !.ready = TRUE, !.sync = "done"]
<1>1. \A b \in Browser : Known(b) = {}
    BY DEF Init, Known, LocalOps, OpsOf
<1>2. StoresComplete
    BY <1>1 DEF StoresComplete, Known, HasPendingDependencies, Integrated
<1>3. \A t \in Tab : tab[t] = first
    BY DEF Init
<1>4. /\ first.doc = {} /\ first.unlogged = <<>> /\ first.queue = <<>>
      /\ first.pass = NoPass /\ first.rebase = NoRebase
    BY DEF Closed
<1> HIDE DEF first
<1>5. Causal(first, {})
    BY <1>4 DEF Causal, EditsInOrder, LogInOrder, ReadsKnown, Integrated, ToSet, Unlogged,
       NoPass, NoRebase, OpsOf
<1> QED
    BY <1>1, <1>2, <1>3, <1>5, HomeAssumption DEF StoresInv

LEMMA OpenStores == ASSUME IInv, StoresInv, NEW t \in Tab, Open(t) PROVE StoresInv'
<1> DEFINE d == disk[Home[t]]
           fresh == [Closed EXCEPT !.mode = "open", !.doc = d.log, !.pending = d.rows]
           loaded == Apply(fresh, OpsOf(d.rows), d.log)
           r == IF d.recovery THEN Recover(loaded) ELSE loaded
           K == Known(Home[t])
<1>1. d \in DiskOver(made) /\ made \in SUBSET Op
    BY StateTyped
<1>2. d.log \in SUBSET made /\ d.rows \in SUBSET RowsOver(made)
    BY <1>1 DEF DiskOver
<1>3. OpsOf(d.rows) \in SUBSET made /\ OpsOf(d.rows) \subseteq K /\ d.log \in SUBSET K
    BY <1>2, OpsOfRows DEF Known, LocalOps
<1>4. /\ fresh \in TabOver(made) /\ fresh.doc = d.log
      /\ fresh.unlogged = <<>> /\ fresh.queue = <<>> /\ fresh.pass = NoPass /\ fresh.rebase = NoRebase
    BY <1>2, ClosedTyped DEF TabOver, Closed
<1>5. Becomes(t, r) /\ content' = content /\ disk' = disk
    BY DEF Open, server
<1> HIDE DEF fresh, d, K
<1>6. Causal(fresh, K)
    BY <1>3, <1>4 DEF Causal, EditsInOrder, LogInOrder, ReadsKnown, Integrated, ToSet, Unlogged,
       NoPass, NoRebase, OpsOf
<1>7. loaded \in TabOver(made) /\ Causal(loaded, K)
    BY <1>1, <1>3, <1>4, <1>6, ApplyTyped, ApplyCausal
<1> HIDE DEF loaded
<1>8. Causal(r, K)
    BY <1>7, ResetFollows, FollowsCausal
<1> HIDE DEF r
<1>9. \A L : K \subseteq L => Causal(r, L)
    BY <1>8, CausalMonotone
<1> QED
    BY <1>5, <1>9, SameDiskStep, StateTyped DEF K

\* Steps after which the tab has the same still to write.
LEMMA FollowingStep ==
    ASSUME IInv, StoresInv, NEW t \in Tab, NEW r, Becomes(t, r), Follows(tab[t], r),
           disk' = disk, content \subseteq content', ~HasPendingDependencies(content')
    PROVE  StoresInv'
BY SameDiskStep, FollowsCausal

LEMMA CloseStores == ASSUME IInv, StoresInv, NEW t \in Tab, Close(t) PROVE StoresInv'
<1>1. /\ Closed.doc = {} /\ Closed.unlogged = <<>> /\ Closed.queue = <<>>
      /\ Closed.pass = NoPass /\ Closed.rebase = NoRebase
    BY DEF Closed
<1>2. \A K : Causal(Closed, K)
    <2> TAKE K
    <2> QED
        BY <1>1 DEF Causal, EditsInOrder, LogInOrder, ReadsKnown, Integrated, ToSet, Unlogged,
           NoPass, NoRebase, OpsOf
<1> QED
    BY <1>2, SameDiskStep, StateTyped DEF Close, server

LEMMA QuietStores ==
    ASSUME IInv, StoresInv, NEW t \in Tab,
           Connect(t) \/ Disconnect(t) \/ AckTimeout(t) \/ StartSync(t) \/ ReplayEnds(t)
    PROVE  StoresInv'
<1> DEFINE r == tab[t]
<1>1. disk' = disk /\ content' = content /\ ~HasPendingDependencies(content)
    BY StateTyped DEF Connect, Disconnect, AckTimeout, StartSync, ReplayEnds, server
<1>2. r \in TabOver(made)
    BY StateTyped
<1>3. Follows(r, [r EXCEPT !.ready = TRUE, !.sync = "waiting"])
    BY <1>2 DEF Follows, TabOver
<1>4. \A sync : Follows(r, [r EXCEPT !.sync = sync])
    BY <1>2 DEF Follows, TabOver
<1>5. \A m : Follows(r, [r EXCEPT !.flight = @ \ {m}])
    BY <1>2 DEF Follows, TabOver
<1>6. Follows(r, [r EXCEPT !.rebase.phase = "preparing"])
    BY <1>2 DEF Follows, TabOver, Rebase
<1>7. Follows(r, ResetConnection(r))
    BY <1>2, ResetFollows
<1>8. \E q : Becomes(t, q) /\ Follows(r, q)
    <2>1. CASE Connect(t)
        BY <1>3, <2>1 DEF Connect
    <2>2. CASE Disconnect(t)
        BY <1>7, <2>2 DEF Disconnect
    <2>3. CASE AckTimeout(t)
        BY <1>5, <2>3 DEF AckTimeout
    <2>4. CASE StartSync(t)
        BY <1>4, <2>4 DEF StartSync
    <2>5. CASE ReplayEnds(t)
        BY <1>6, <1>7, <2>5 DEF ReplayEnds
    <2> QED
        BY <2>1, <2>2, <2>3, <2>4, <2>5
<1> QED
    BY <1>1, <1>8, FollowingStep

LEMMA RebasedCausal ==
    ASSUME IInv, NEW t \in Tab, NEW rows \in SUBSET RowsOver(made), NEW ops \in SUBSET made,
           NEW K, Causal(tab[t], K), ops \subseteq K
    PROVE  Causal(Rebased(tab[t], rows, ops), K)
<1> DEFINE applied == Apply(tab[t], ops, {})
<1>1. applied \in TabOver(made) /\ Causal(applied, K)
    BY StateTyped, ApplyTyped, ApplyCausal
<1>2. Rebased(tab[t], rows, ops) =
         [applied EXCEPT !.pending = (@ \ tab[t].rebase.base) \cup rows,
                         !.gaps = @ \ tab[t].rebase.base, !.rebase = NoRebase]
    BY DEF Rebased
<1> HIDE DEF applied
<1>3. Follows(applied, Rebased(tab[t], rows, ops))
    BY <1>1, <1>2 DEF Follows, TabOver, NoRebase
<1> QED
    BY <1>1, <1>3, FollowsCausal

LEMMA ServedStores ==
    ASSUME IInv, StoresInv, NEW t \in Tab, Send(t) \/ AnswerStep1(t)
    PROVE  StoresInv'
<1> DEFINE r == tab[t]
<1>1. r \in TabOver(made)
    BY StateTyped
<1>2. disk' = disk /\ content \subseteq content'
    <2>1. CASE Send(t)
        <3>1. PICK m : ServeUpdate(t, m)
            BY <2>1 DEF Send
        <3>2. content' = content \/ content' = content \cup m.ops
            BY <3>1 DEF ServeUpdate, Answered, server
        <3> QED
            BY <2>1, <3>2 DEF Send
    <2>2. CASE AnswerStep1(t)
        BY <2>2 DEF AnswerStep1, ServeStep2, server
    <2> QED
        BY <2>1, <2>2
<1>3. ~HasPendingDependencies(content')
    BY SendStep, AnswerStep1Step DEF IInv, HasPendingDependencies, Integrated
<1>4. \A m : Follows(r, [r EXCEPT !.flight = @ \cup {m}])
    BY <1>1 DEF Follows, TabOver
<1>5. Follows(r, [r EXCEPT !.sync = Complete(@)])
    BY <1>1 DEF Follows, TabOver
<1>6. \E q : Becomes(t, q) /\ Follows(r, q)
    <2>1. CASE Send(t)
        BY <1>4, <2>1 DEF Send
    <2>2. CASE AnswerStep1(t)
        BY <1>1, <1>5, <2>2, ResetFollows DEF AnswerStep1
    <2> QED
        BY <2>1, <2>2
<1> QED
    BY <1>2, <1>3, <1>6, FollowingStep

LEMMA ReceiveResyncStores == ASSUME IInv, StoresInv, NEW t \in Tab, ReceiveResync(t) PROVE StoresInv'
<1> DEFINE r == tab[t]
           m == Head(net[t].down).row
           freed == IF Head(net[t].down).reason = "CAUSAL_GAP" THEN [r EXCEPT !.flight = @ \ {m}] ELSE r
           collecting == [freed EXCEPT !.flight = {}, !.rebase = [NoRebase EXCEPT !.phase = "collecting"]]
           waiting == [freed EXCEPT !.gaps = @ \cup {m}]
<1>1. disk' = disk /\ content' = content /\ ~HasPendingDependencies(content)
    BY StateTyped DEF ReceiveResync, server
<1>2. r \in TabOver(made)
    BY StateTyped
<1>3. \/ Becomes(t, freed) \/ Becomes(t, collecting) \/ Becomes(t, waiting) \/ Becomes(t, r)
    BY DEF ReceiveResync, StartRebase, Becomes, IInv, Typed
<1>4. Follows(r, freed) /\ Follows(r, r)
    BY <1>2 DEF Follows, TabOver
<1>5. Follows(r, collecting)
    BY <1>2 DEF Follows, TabOver, NoRebase
<1>6. Follows(r, waiting)
    BY <1>2 DEF Follows, TabOver
<1> HIDE DEF freed, collecting, waiting
<1> QED
    BY <1>1, <1>3, <1>4, <1>5, <1>6, FollowingStep

\* What a pass reads is on the disk.
LEMMA BeginPassCausal ==
    ASSUME NEW S, NEW r \in TabOver(S), NEW rows, NEW K, OpsOf(rows) \subseteq K, Causal(r, K)
    PROVE  Causal(BeginPass(r, rows), K)
<1> DEFINE q == BeginPass(r, rows)
<1>1. /\ q.doc = r.doc /\ q.queue = r.queue /\ q.unlogged = r.unlogged /\ q.rebase = r.rebase
      /\ q.pass.stored = rows
    BY DEF BeginPass, TabOver
<1> HIDE DEF q
<1>2. EditsInOrder(q, K)
    BY <1>1 DEF EditsInOrder, Causal
<1>3. LogInOrder(q, K)
    BY <1>1 DEF LogInOrder, Causal, Unlogged
<1>4. ReadsKnown(q, K)
    BY <1>1 DEF ReadsKnown, Causal
<1> QED
    BY <1>2, <1>3, <1>4 DEF Causal, q

LEMMA SlowReadStores == ASSUME IInv, StoresInv, NEW t \in Tab, SlowRead(t) PROVE StoresInv'
<1> DEFINE rows == disk[Home[t]].rows
<1>1. OpsOf(rows) \subseteq Known(Home[t])
    BY DEF Known, LocalOps
<1>2. disk' = disk /\ content' = content /\ Becomes(t, BeginPass(tab[t], rows))
    BY DEF SlowRead, server
<1>3. \A K : Causal(tab[t], K) /\ Known(Home[t]) \subseteq K => Causal(BeginPass(tab[t], rows), K)
    BY <1>1, BeginPassCausal, StateTyped
<1> QED
    BY <1>2, <1>3, SameDiskStep, StateTyped

LEMMA ReconcileStores ==
    ASSUME IInv, StoresInv, NEW t \in Tab, Reconcile(t) \/ Adopt(t)
    PROVE  StoresInv'
<1> DEFINE d == disk[Home[t]]
           begun == BeginPass(tab[t], d.rows)
<1>1. d \in DiskOver(made) /\ made \in SUBSET Op /\ tab[t] \in TabOver(made)
    BY StateTyped
<1>2. d.log \subseteq Known(Home[t]) /\ OpsOf(d.rows) \subseteq Known(Home[t])
    BY DEF Known, LocalOps
<1>3. disk' = disk /\ content' = content
    BY DEF Reconcile, Adopt, server
<1>4. begun \in TabOver(made)
    BY <1>1, BeginPassTyped DEF DiskOver
<1>5. Becomes(t, Adopted(begun, d)) \/ Becomes(t, Adopted(tab[t], d))
    BY DEF Reconcile, Adopt
<1>6. ASSUME NEW K, Causal(tab[t], K), Known(Home[t]) \subseteq K
      PROVE  Causal(Adopted(begun, d), K) /\ Causal(Adopted(tab[t], d), K)
    <2>1. Causal(begun, K)
        BY <1>1, <1>2, <1>6, BeginPassCausal
    <2> HIDE DEF begun, d
    <2>2. d.log \subseteq K
        BY <1>2, <1>6
    <2> QED
        BY <1>1, <1>4, <1>6, <2>1, <2>2, AdoptedCausal
<1> HIDE DEF begun, d
<1> QED
    BY <1>3, <1>5, <1>6, SameDiskStep, StateTyped

LEMMA EditStores == ASSUME IInv, StoresInv, NEW t \in Tab, NEW o \in Op, Edit(t, o) PROVE StoresInv'
<1> DEFINE r == tab[t]
           q == [Apply(r, {o}, {}) EXCEPT !.queue = Append(@, o)]
           n == Len(r.queue)
<1>1. made' \in SUBSET Op /\ o \in made' /\ made \subseteq made'
    BY StateTyped DEF Edit
<1>2. r \in TabOver(made') /\ Deps[o] \subseteq r.doc /\ r.queue \in Seq(made')
    <2>1. r \in TabOver(made')
        BY <1>1, TabMonotone, StateTyped
    <2> QED
        BY <2>1 DEF Edit, TabOver
<1>3. Becomes(t, q) /\ disk' = disk /\ content' = content
    BY DEF Edit, server
<1>4. ASSUME NEW K, Causal(r, K)
      PROVE  Causal(q, K)
    <2> DEFINE applied == Apply(r, {o}, {})
    <2>1. LogInOrder(applied, K)
        BY <1>1, <1>2, <1>4, ApplyInOrder DEF Causal
    <2>2. /\ q.doc = r.doc \cup {o} /\ q.queue = Append(r.queue, o)
          /\ q.unlogged = applied.unlogged /\ q.doc = applied.doc
          /\ q.pass = r.pass /\ q.rebase = r.rebase
        BY <1>2 DEF Apply, TabOver
    <2> HIDE DEF q, applied
    <2>3. LogInOrder(q, K)
        <3>1. \A i : Unlogged(q, i) = Unlogged(applied, i)
            BY <2>2 DEF Unlogged
        <3>2. LogInOrder(applied, K) => LogInOrder(q, K)
            BY <2>2, <3>1 DEF LogInOrder
        <3> QED
            BY <2>1, <3>2
    <2>4. /\ DOMAIN q.queue = 1 .. n + 1 /\ DOMAIN r.queue = 1 .. n /\ n \in Nat
          /\ q.queue[n + 1] = o /\ \A i \in 1 .. n : q.queue[i] = r.queue[i]
        BY <1>1, <1>2, <2>2
    <2>5. ToSet(q.queue) = ToSet(r.queue) \cup {o}
        BY <2>4 DEF ToSet
    <2>6. ASSUME NEW i \in DOMAIN q.queue
          PROVE  Deps[q.queue[i]] \subseteq K \cup {q.queue[j] : j \in 1 .. i - 1}
        <3>1. CASE i = n + 1
            <4>1. Deps[o] \subseteq K \cup ToSet(r.queue)
                BY <1>2, <1>4 DEF Causal, EditsInOrder
            <4>2. ToSet(r.queue) \subseteq {q.queue[j] : j \in 1 .. n}
                BY <2>4 DEF ToSet
            <4> QED
                BY <2>4, <3>1, <4>1, <4>2
        <3>2. CASE i \in 1 .. n
            <4>1. Deps[r.queue[i]] \subseteq K \cup {r.queue[j] : j \in 1 .. i - 1}
                BY <1>4, <2>4, <3>2 DEF Causal, EditsInOrder
            <4>2. \A j \in 1 .. i - 1 : q.queue[j] = r.queue[j]
                BY <2>4, <3>2
            <4>3. q.queue[i] = r.queue[i]
                BY <2>4, <3>2
            <4> QED
                BY <4>1, <4>2, <4>3
        <3> QED
            BY <2>4, <3>1, <3>2
    <2>7. EditsInOrder(q, K)
        BY <1>4, <2>2, <2>5, <2>6 DEF Causal, EditsInOrder
    <2>8. ReadsKnown(q, K)
        BY <1>4, <2>2 DEF Causal, ReadsKnown
    <2> QED
        BY <2>3, <2>7, <2>8 DEF Causal
<1> HIDE DEF q
<1> QED
    BY <1>3, <1>4, SameDiskStep, StateTyped

LEMMA LoseRebaseStores == ASSUME IInv, StoresInv, NEW t \in Tab, LoseRebase(t) PROVE StoresInv'
<1> DEFINE r == tab[t]
           rows == disk[Home[t]].rows
           q == Rebased(r, rows, OpsOf(rows))
<1>1. disk' = disk /\ content' = content /\ Becomes(t, q)
    BY DEF LoseRebase, server
<1>2. OpsOf(rows) \subseteq Known(Home[t])
    BY DEF Known, LocalOps
<1>3. rows \in SUBSET RowsOver(made) /\ OpsOf(rows) \in SUBSET made
    BY StateTyped, OpsOfRows DEF DiskOver
<1>4. \A K : Causal(r, K) /\ Known(Home[t]) \subseteq K => Causal(q, K)
    BY <1>2, <1>3, RebasedCausal
<1> HIDE DEF q
<1> QED
    BY <1>1, <1>4, SameDiskStep, StateTyped
-----------------------------------------------------------------------------
\* Steps that write to the disk of the tab's browser.
LEMMA WriteLogStores == ASSUME IInv, StoresInv, NEW t \in Tab, WriteLog(t) PROVE StoresInv'
<1> DEFINE r == tab[t]
           q == [r EXCEPT !.unlogged = Tail(@)]
           head == Head(r.unlogged)
           K == Known(Home[t])
           L == Known(Home[t])'
           n == Len(r.unlogged)
<1>1. r \in TabOver(made) /\ r.unlogged \in Seq(SUBSET made) /\ r.unlogged # <<>>
    BY StateTyped DEF WriteLog, TabOver
<1>2. /\ Becomes(t, q) /\ content' = content
      /\ disk' = [disk EXCEPT ![Home[t]].log = @ \cup head]
    BY DEF WriteLog, server
<1>3. L = K \cup head
    BY <1>2, StateTyped DEF Known, LocalOps, OpsOf, DiskOver
<1>4. \A b \in Browser \ {Home[t]} : disk'[b] = disk[b]
    BY <1>2, StateTyped
<1>5. /\ q.doc = r.doc /\ q.queue = r.queue /\ q.pass = r.pass /\ q.rebase = r.rebase
      /\ q.unlogged = Tail(r.unlogged)
    BY <1>1 DEF TabOver
<1>6. Causal(r, K)
    BY DEF StoresInv
<1>7. /\ n \in Nat \ {0} /\ DOMAIN r.unlogged = 1 .. n /\ head = r.unlogged[1]
      /\ Len(q.unlogged) = n - 1 /\ DOMAIN q.unlogged = 1 .. n - 1
      /\ \A i \in 1 .. n - 1 : q.unlogged[i] = r.unlogged[i + 1]
    BY <1>1, <1>5
<1> HIDE DEF q, head, K, L
<1>8. ASSUME NEW i \in 0 .. n - 1
      PROVE  Unlogged(r, i + 1) \subseteq head \cup Unlogged(q, i)
    <2> SUFFICES ASSUME NEW o \in Unlogged(r, i + 1) PROVE o \in head \cup Unlogged(q, i)
        OBVIOUS
    <2>1. PICK j \in 1 .. i + 1 : o \in r.unlogged[j]
        BY DEF Unlogged
    <2>2. CASE j = 1
        BY <1>7, <2>1, <2>2
    <2>3. CASE j # 1
        <3>1. j - 1 \in 1 .. i /\ j - 1 \in 1 .. n - 1
            BY <1>7, <2>1, <2>3
        <3>2. o \in q.unlogged[j - 1]
            BY <1>7, <2>1, <3>1
        <3> QED
            BY <3>1, <3>2 DEF Unlogged
    <2> QED
        BY <2>2, <2>3
<1>9. \A o \in head : Deps[o] \subseteq L
    <2>1. 1 \in DOMAIN r.unlogged
        BY <1>7
    <2>2. Unlogged(r, 1) \subseteq head
        BY <1>7 DEF Unlogged
    <2> QED
        BY <1>3, <1>6, <1>7, <2>1, <2>2 DEF Causal, LogInOrder
<1>10. EditsInOrder(q, L) /\ ReadsKnown(q, L)
    BY <1>3, <1>5, <1>6 DEF Causal, EditsInOrder, ReadsKnown
<1>11. LogInOrder(q, L)
    <2>1. Integrated(q.doc) \subseteq L \cup Unlogged(q, n - 1)
        <3>1. Integrated(r.doc) \subseteq K \cup Unlogged(r, n)
            BY <1>6 DEF Causal, LogInOrder
        <3>2. n - 1 \in 0 .. n - 1 /\ (n - 1) + 1 = n
            BY <1>7
        <3>3. Unlogged(r, n) \subseteq head \cup Unlogged(q, n - 1)
            BY <1>8, <3>2
        <3> QED
            BY <1>3, <1>5, <3>1, <3>3
    <2>2. ASSUME NEW i \in 1 .. n - 1, NEW o \in q.unlogged[i]
          PROVE  Deps[o] \subseteq L \cup Unlogged(q, i)
        <3>1. i + 1 \in DOMAIN r.unlogged /\ i \in 0 .. n - 1 /\ o \in r.unlogged[i + 1]
            BY <1>7, <2>2
        <3>2. Deps[o] \subseteq K \cup Unlogged(r, i + 1)
            BY <1>6, <3>1 DEF Causal, LogInOrder
        <3>3. Unlogged(r, i + 1) \subseteq head \cup Unlogged(q, i)
            BY <1>8, <3>1
        <3> QED
            BY <1>3, <3>2, <3>3
    <2> QED
        BY <1>7, <2>1, <2>2 DEF LogInOrder
<1>12. Causal(q, L)
    BY <1>10, <1>11 DEF Causal
<1> QED
    BY <1>2, <1>3, <1>4, <1>9, <1>12, OwnDiskStep DEF K, L

\* A row takes the first edits of the queue: their causes go with them.
LEMMA EnqueueStores == ASSUME IInv, StoresInv, NEW t \in Tab, Enqueue(t) PROVE StoresInv'
<1> DEFINE home == Home[t]
           order == disk[home].order + 1
           queue == tab[t].queue
<1>1. tab[t] \in TabOver(made) /\ queue \in Seq(made) /\ disk[home] \in DiskOver(made)
    BY StateTyped DEF TabOver
<1>2. PICK n \in 1 .. Len(queue) :
         LET m == Row(Coalesced(queue, n), order, 0)
         IN  /\ disk' = [disk EXCEPT ![home].rows = @ \cup {m}, ![home].order = order]
             /\ Becomes(t, [tab[t] EXCEPT !.queue = SubSeq(@, n + 1, Len(@)),
                                          !.pending = @ \cup {m}])
    BY Zenon DEF Enqueue
<1> DEFINE r == tab[t]
           K == Known(home)
           L == Known(home)'
           m == Row(Coalesced(queue, n), order, 0)
           q == [r EXCEPT !.queue = SubSeq(@, n + 1, Len(@)), !.pending = @ \cup {m}]
           rest == SubSeq(queue, n + 1, Len(queue))
           sent == Coalesced(queue, n)
<1>3. /\ disk' = [disk EXCEPT ![home].rows = @ \cup {m}, ![home].order = order]
      /\ Becomes(t, q) /\ content' = content
    BY <1>2 DEF Enqueue, server
<1>4. m.ops = sent
    BY DEF Row
<1> HIDE DEF m, order
<1>5. /\ q.doc = r.doc /\ q.unlogged = r.unlogged /\ q.queue = rest
      /\ q.pass = r.pass /\ q.rebase = r.rebase
    BY <1>1 DEF TabOver
<1> HIDE DEF q
<1>6. L = K \cup sent
    <2>1. disk'[home].log = disk[home].log /\ disk'[home].rows = disk[home].rows \cup {m}
        BY <1>1, <1>3, StateTyped DEF DiskOver
    <2>2. OpsOf(disk'[home].rows) = OpsOf(disk[home].rows) \cup sent
        BY <1>4, <2>1 DEF OpsOf
    <2> QED
        BY <1>3, <2>1, <2>2 DEF Known, LocalOps
<1>7. \A b \in Browser \ {home} : disk'[b] = disk[b]
    BY <1>3, StateTyped
<1>8. Causal(r, K)
    BY DEF StoresInv
<1>9. /\ Len(queue) \in Nat /\ DOMAIN queue = 1 .. Len(queue)
      /\ DOMAIN rest = 1 .. Len(queue) - n
      /\ \A i \in 1 .. Len(queue) - n : rest[i] = queue[n + i]
    BY <1>1
<1>10. \A j \in 1 .. n : queue[j] \in sent
    <2>1. /\ DOMAIN SubSeq(queue, 1, n) = 1 .. n
          /\ \A j \in 1 .. n : SubSeq(queue, 1, n)[j] = queue[j]
        BY <1>1, <1>9
    <2> QED
        BY <2>1 DEF Coalesced, ToSet
<1>11. \A o \in sent : \E j \in 1 .. n : o = queue[j]
    <2>1. /\ DOMAIN SubSeq(queue, 1, n) = 1 .. n
          /\ \A j \in 1 .. n : SubSeq(queue, 1, n)[j] = queue[j]
        BY <1>1, <1>9
    <2> QED
        BY <2>1 DEF Coalesced, ToSet
<1> HIDE DEF sent, rest, K, L
<1>12. \A j \in DOMAIN queue : Deps[queue[j]] \subseteq K \cup {queue[l] : l \in 1 .. j - 1}
    BY <1>8 DEF Causal, EditsInOrder
<1>13. \A o \in sent : Deps[o] \subseteq L
    <2> SUFFICES ASSUME NEW o \in sent PROVE Deps[o] \subseteq L
        OBVIOUS
    <2>1. PICK j \in 1 .. n : o = queue[j]
        BY <1>11
    <2>2. j \in DOMAIN queue /\ 1 .. j - 1 \subseteq 1 .. n
        BY <1>9
    <2> QED
        BY <1>6, <1>10, <1>12, <2>1, <2>2
<1>14. EditsInOrder(q, L)
    <2>1. ToSet(queue) \subseteq sent \cup ToSet(rest)
        <3> SUFFICES ASSUME NEW j \in DOMAIN queue PROVE queue[j] \in sent \cup ToSet(rest)
            BY DEF ToSet
        <3>1. CASE j \in 1 .. n
            BY <1>10, <3>1
        <3>2. CASE j \notin 1 .. n
            <4>1. j - n \in DOMAIN rest /\ rest[j - n] = queue[j]
                BY <1>9, <3>2
            <4> QED
                BY <4>1 DEF ToSet
        <3> QED
            BY <3>1, <3>2
    <2>2. ASSUME NEW i \in DOMAIN rest
          PROVE  Deps[rest[i]] \subseteq L \cup {rest[j] : j \in 1 .. i - 1}
        <3>1. n + i \in DOMAIN queue /\ rest[i] = queue[n + i]
            BY <1>9
        <3>2. Deps[rest[i]] \subseteq K \cup {queue[j] : j \in 1 .. (n + i) - 1}
            BY <1>12, <3>1
        <3>3. ASSUME NEW j \in 1 .. (n + i) - 1
              PROVE  queue[j] \in sent \cup {rest[l] : l \in 1 .. i - 1}
            <4>1. CASE j \in 1 .. n
                BY <1>10, <4>1
            <4>2. CASE j \notin 1 .. n
                <5>1. j - n \in 1 .. i - 1 /\ j - n \in 1 .. Len(queue) - n /\ n + (j - n) = j
                    BY <1>9, <4>2
                <5>2. rest[j - n] = queue[j]
                    BY <1>9, <5>1
                <5> QED
                    BY <5>1, <5>2
            <4> QED
                BY <4>1, <4>2
        <3> QED
            BY <1>6, <3>2, <3>3
    <2> QED
        BY <1>5, <1>6, <1>8, <2>1, <2>2 DEF Causal, EditsInOrder
<1>15. LogInOrder(q, L)
    <2>1. \A i : Unlogged(q, i) = Unlogged(r, i)
        BY <1>5 DEF Unlogged
    <2> QED
        BY <1>5, <1>6, <1>8, <2>1 DEF Causal, LogInOrder
<1>16. ReadsKnown(q, L)
    BY <1>5, <1>6, <1>8 DEF Causal, ReadsKnown
<1>17. Causal(q, L)
    BY <1>14, <1>15, <1>16 DEF Causal
<1> QED
    BY <1>3, <1>6, <1>7, <1>13, <1>17, OwnDiskStep DEF K, L

\* The operations of a frame are the server's; what they complete is logged.
LEMMA ReceiveOpsStores == ASSUME IInv, StoresInv, NEW t \in Tab, ReceiveOps(t) PROVE StoresInv'
<1> DEFINE ops == Head(net[t].down).ops
           old == tab[t]
           r == Apply(old, ops, {})
           new == Integrated(r.doc) \ Integrated(old.doc)
           seen == IF old.rebase.phase \in {"collecting", "preparing"}
                   THEN [r EXCEPT !.rebase.shadow = @ \cup ops] ELSE r
           written == [seen EXCEPT !.unlogged = <<>>]
           K == Known(Home[t])
           L == Known(Home[t])'
<1>1. /\ net[t].down # <<>> /\ Head(net[t].down).type \in {"step2", "update"}
      /\ \/ /\ old.unlogged = <<>> /\ Becomes(t, written)
            /\ disk' = [disk EXCEPT ![Home[t]].log = @ \cup new]
         \/ Becomes(t, seen) /\ UNCHANGED disk
      /\ content' = content
    BY DEF ReceiveOps, Receives, server
<1>2. ops \in SUBSET content /\ ops \in SUBSET made
    BY <1>1, HeadTyped, FrameOfType, StateTyped
<1>3. old \in TabOver(made) /\ made \in SUBSET Op
    BY StateTyped
<1> HIDE DEF ops
<1>4. ASSUME NEW M, Causal(old, M), K \subseteq M
      PROVE  Causal(r, M)
    <2>1. ops \subseteq M
        BY <1>2, <1>4 DEF Known
    <2> QED
        BY <1>2, <1>3, <1>4, <2>1, ApplyCausal
<1>5. r \in TabOver(made) /\ r.rebase = old.rebase
    BY <1>2, <1>3, ApplyTyped DEF KeepsRows
<1>6. r.unlogged = IF new = {} THEN old.unlogged ELSE Append(old.unlogged, new)
    BY <1>3 DEF Apply, TabOver
<1> HIDE DEF r
<1>7. Follows(r, seen)
    BY <1>5 DEF Follows, TabOver, Rebase
<1> HIDE DEF new, seen, K, L
<1>8. CASE Becomes(t, seen) /\ UNCHANGED disk
    <2>1. ASSUME NEW M, Causal(old, M), K \subseteq M
          PROVE  Causal(seen, M)
        BY <1>4, <1>7, <2>1, FollowsCausal
    <2> QED
        BY <1>1, <1>8, <2>1, SameDiskStep, StateTyped DEF K
<1>9. CASE /\ old.unlogged = <<>> /\ Becomes(t, written)
           /\ disk' = [disk EXCEPT ![Home[t]].log = @ \cup new]
    <2>1. L = K \cup new
        BY <1>1, <1>9, StateTyped DEF Known, LocalOps, OpsOf, DiskOver, K, L
    <2>2. Causal(r, K)
        BY <1>4 DEF StoresInv, K
    <2>3. /\ (r.unlogged = <<>> /\ new = {}) \/ r.unlogged = <<new>>
          /\ new \subseteq Integrated(r.doc)
        BY <1>6, <1>9 DEF new
    <2>4. \A i : Unlogged(r, i) \subseteq new \/ i \notin 0 .. Len(r.unlogged)
        BY <2>3 DEF Unlogged
    <2>5. Integrated(r.doc) \subseteq L
        <3>1. Len(r.unlogged) \in 0 .. Len(r.unlogged)
            BY <2>3
        <3>2. Unlogged(r, Len(r.unlogged)) \subseteq new
            BY <2>4, <3>1
        <3> QED
            BY <2>1, <2>2, <3>2 DEF Causal, LogInOrder
    <2>6. \A o \in new : Deps[o] \subseteq L
        <3>1. CASE new = {}
            BY <3>1
        <3>2. CASE r.unlogged = <<new>>
            <4>1. 1 \in DOMAIN r.unlogged /\ r.unlogged[1] = new /\ 1 \in 0 .. Len(r.unlogged)
                BY <3>2
            <4>2. Unlogged(r, 1) \subseteq new
                BY <2>4, <4>1
            <4>3. \A o \in new : Deps[o] \subseteq K \cup Unlogged(r, 1)
                BY <2>2, <4>1 DEF Causal, LogInOrder
            <4> QED
                BY <2>1, <4>2, <4>3
        <3> QED
            BY <2>3, <3>1, <3>2
    <2>7. /\ written.doc = r.doc /\ written.queue = r.queue /\ written.unlogged = <<>>
          /\ written.pass = seen.pass /\ written.rebase = seen.rebase
        BY <1>5, <1>7 DEF seen, TabOver, Follows
    <2>8. Causal(seen, L)
        BY <1>7, <2>1, <2>2, FollowsCausal, CausalMonotone
    <2> HIDE DEF written
    <2>9. EditsInOrder(written, L) /\ ReadsKnown(written, L)
        BY <1>7, <2>7, <2>8 DEF Causal, EditsInOrder, ReadsKnown, Follows
    <2>10. LogInOrder(written, L)
        BY <2>5, <2>7 DEF LogInOrder
    <2>11. Causal(written, L)
        BY <2>9, <2>10 DEF Causal
    <2>12. \A b \in Browser \ {Home[t]} : disk'[b] = disk[b]
        BY <1>9, StateTyped
    <2> QED
        BY <1>1, <1>9, <2>1, <2>6, <2>11, <2>12, OwnDiskStep DEF K, L
<1> QED
    BY <1>1, <1>8, <1>9

\* Steps that leave what the two stores and the server have between them.
LEMMA SameKnownStep ==
    ASSUME IInv, StoresInv, NEW t \in Tab, NEW r, Becomes(t, r), content' = content,
           NEW d, disk' = [disk EXCEPT ![Home[t]] = d],
           d.log = disk[Home[t]].log,
           content \cup d.log \cup OpsOf(d.rows) = Known(Home[t]),
           Causal(r, Known(Home[t]))
    PROVE  StoresInv'
<1> DEFINE none == {}
<1>1. disk'[Home[t]] = d /\ \A b \in Browser \ {Home[t]} : disk'[b] = disk[b]
    BY StateTyped
<1>2. Known(Home[t])' = Known(Home[t])
    BY <1>1 DEF Known, LocalOps
<1>3. /\ Known(Home[t])' = Known(Home[t]) \cup none
      /\ \A o \in none : Deps[o] \subseteq Known(Home[t])'
    BY <1>2
<1>4. Causal(r, Known(Home[t])')
    BY <1>2
<1> HIDE DEF none
<1> QED
    BY <1>1, <1>3, <1>4, OwnDiskStep

LEMMA ReceiveAckStores == ASSUME IInv, StoresInv, NEW t \in Tab, ReceiveAck(t) PROVE StoresInv'
<1> DEFINE m == Head(net[t].down).row
           r == [tab[t] EXCEPT !.pending = @ \ {m}, !.flight = @ \ {m}]
           d == [disk[Home[t]] EXCEPT !.rows = @ \ {m}]
<1>1. m \in RowsOver(content) /\ content' = content /\ ~HasPendingDependencies(content)
    BY HeadTyped, FrameOfType, StateTyped DEF ReceiveAck, Receives, server
<1>2. tab[t] \in TabOver(made) /\ disk[Home[t]] \in DiskOver(made)
    BY StateTyped
<1> HIDE DEF m
<1>3. CASE UNCHANGED <<tab, disk>>
    <2>1. Becomes(t, tab[t]) /\ Follows(tab[t], tab[t])
        BY <1>3 DEF Becomes, Follows, IInv, Typed
    <2> QED
        BY <1>1, <1>3, <2>1, FollowingStep
<1>4. CASE Becomes(t, RetryGaps(r)) /\ disk' = [disk EXCEPT ![Home[t]].rows = @ \ {m}]
    <2>1. Follows(tab[t], RetryGaps(r))
        BY <1>2 DEF RetryGaps, Follows, TabOver
    <2>2. Causal(RetryGaps(r), Known(Home[t]))
        BY <2>1, FollowsCausal DEF StoresInv
    <2>3. d.log = disk[Home[t]].log /\ d.rows = disk[Home[t]].rows \ {m}
        BY <1>2 DEF DiskOver
    <2>4. disk' = [disk EXCEPT ![Home[t]] = d]
        BY <1>4, StateTyped
    <2> HIDE DEF d, r
    <2>5. content \cup d.log \cup OpsOf(d.rows) = Known(Home[t])
        BY <1>1, <2>3 DEF Known, LocalOps, OpsOf, RowsOver
    <2> QED
        BY <1>1, <1>4, <2>2, <2>3, <2>4, <2>5, SameKnownStep
<1> QED
    BY <1>3, <1>4 DEF ReceiveAck, m

LEMMA ReadStoresStores == ASSUME IInv, StoresInv, NEW t \in Tab, ReadStores(t) PROVE StoresInv'
<1> DEFINE r == tab[t]
           rows == disk[Home[t]].rows
           all == r.rebase.shadow \cup LocalOps(disk[Home[t]])
           writing == [phase |-> "persisting", shadow |-> {}, covered |-> rows,
                       base |-> r.pending, delta |-> all \ r.rebase.shadow]
           K == Known(Home[t])
<1>1. r \in TabOver(made) /\ disk[Home[t]] \in DiskOver(made) /\ ~HasPendingDependencies(content)
    BY StateTyped
<1>2. content' = content /\ Causal(r, K)
    BY DEF ReadStores, server, StoresInv
<1>3. CASE Becomes(t, [r EXCEPT !.rebase = NoRebase]) /\ disk' = disk
    <2>1. Follows(r, [r EXCEPT !.rebase = NoRebase])
        BY <1>1 DEF Follows, TabOver, NoRebase
    <2> QED
        BY <1>1, <1>2, <1>3, <2>1, FollowingStep
<1>4. CASE disk' = [disk EXCEPT ![Home[t]].recovery = TRUE] /\ Becomes(t, Recover(r))
    <2> DEFINE d == [disk[Home[t]] EXCEPT !.recovery = TRUE]
    <2>1. d.log = disk[Home[t]].log /\ d.rows = disk[Home[t]].rows
        BY <1>1 DEF DiskOver
    <2>2. disk' = [disk EXCEPT ![Home[t]] = d]
        BY <1>4, StateTyped
    <2> HIDE DEF d
    <2>3. content \cup d.log \cup OpsOf(d.rows) = K
        BY <2>1 DEF Known, LocalOps
    <2>4. Causal(Recover(r), K)
        BY <1>1, <1>2, ResetFollows, FollowsCausal
    <2> QED
        BY <1>2, <1>4, <2>1, <2>2, <2>3, <2>4, SameKnownStep
<1>5. CASE Becomes(t, [r EXCEPT !.rebase = writing]) /\ disk' = disk
    <2> DEFINE q == [r EXCEPT !.rebase = writing]
    <2>1. writing.delta \subseteq K
        BY DEF Known
    <2> HIDE DEF writing
    <2>2. /\ q.doc = r.doc /\ q.queue = r.queue /\ q.unlogged = r.unlogged
          /\ q.pass = r.pass /\ q.rebase = writing
        BY <1>1 DEF TabOver
    <2> HIDE DEF q, K
    <2>3. ASSUME NEW M, Causal(r, M), K \subseteq M
          PROVE  Causal(q, M)
        <3>1. EditsInOrder(q, M)
            BY <2>2, <2>3 DEF Causal, EditsInOrder
        <3>2. LogInOrder(q, M)
            BY <2>2, <2>3 DEF Causal, LogInOrder, Unlogged
        <3>3. ReadsKnown(q, M)
            BY <2>1, <2>2, <2>3 DEF Causal, ReadsKnown
        <3> QED
            BY <3>1, <3>2, <3>3 DEF Causal
    <2> QED
        BY <1>1, <1>2, <1>5, <2>3, SameDiskStep DEF q, K
<1> QED
    BY <1>3, <1>4, <1>5 DEF ReadStores

\* A rebase writes what the server lacked when it read; the rest is stored.
LEMMA RewriteOutboxStores == ASSUME IInv, StoresInv, NEW t \in Tab, RewriteOutbox(t) PROVE StoresInv'
<1> DEFINE r == tab[t]
           K == Known(Home[t])
<1>1. PICK new \in SUBSET RowsOver(made) :
         /\ disk' = [disk EXCEPT ![Home[t]].rows = new]
         /\ Becomes(t, Rebased(r, new, r.rebase.delta))
         /\ OpsOf(new) = r.rebase.delta
    BY RewriteOutboxTyped
<1>2. /\ content' = content /\ disk[Home[t]].rows = r.rebase.covered
      /\ r.rebase.phase = "persisting"
    BY DEF RewriteOutbox, SameRows, server
<1>3. /\ Causal(r, K) /\ r.rebase.delta \subseteq K
      /\ OpsOf(disk[Home[t]].rows) \subseteq r.rebase.delta \cup content
    BY <1>2, StateTyped DEF Sound, StoresInv, Causal, ReadsKnown
<1> DEFINE d == [disk[Home[t]] EXCEPT !.rows = new]
<1>4. d.log = disk[Home[t]].log /\ d.rows = new
    BY StateTyped DEF DiskOver
<1>5. disk' = [disk EXCEPT ![Home[t]] = d]
    BY <1>1, StateTyped
<1> HIDE DEF d
<1>6. content \cup d.log \cup OpsOf(d.rows) = K
    BY <1>1, <1>3, <1>4 DEF Known, LocalOps
<1>7. r.rebase.delta \in SUBSET made
    BY StateTyped DEF TabOver, Rebase
<1>8. Causal(Rebased(r, new, r.rebase.delta), K)
    BY <1>3, <1>7, RebasedCausal
<1> QED
    BY <1>1, <1>2, <1>4, <1>5, <1>6, <1>8, SameKnownStep
-----------------------------------------------------------------------------
LEMMA StoresInductive == IInv /\ StoresInv /\ [Next]_vars => StoresInv'
<1> SUFFICES ASSUME IInv, StoresInv, [Next]_vars PROVE StoresInv'
    OBVIOUS
<1>1. CASE UNCHANGED vars
    BY <1>1 DEF vars, server, StoresInv, StoresComplete, Known, LocalOps, OpsOf,
       HasPendingDependencies, Integrated, Causal, EditsInOrder, LogInOrder, ReadsKnown, Unlogged
<1>2. ASSUME NEW t \in Tab, TabStep(t)
      PROVE  StoresInv'
    BY <1>2, OpenStores, QuietStores, WriteLogStores, EnqueueStores, ReconcileStores,
       ServedStores, ReceiveOpsStores, ReceiveAckStores, ReceiveResyncStores,
       ReadStoresStores, RewriteOutboxStores, LoseRebaseStores
       DEF TabStep
<1>3. ASSUME NEW t \in Tab, Environment(t)
      PROVE  StoresInv'
    BY <1>3, CloseStores, QuietStores, SlowReadStores, EditStores DEF Environment
<1> QED
    BY <1>1, <1>2, <1>3 DEF Next

\* Nothing a tab writes, loses with its memory or drops from the outbox leaves
\* an edit without its causes: the document log, the outbox and the server make
\* a complete document at every moment (networkProvider.ts, documentStore.ts,
\* localStore.ts), so whoever reads all three can go on from there.
THEOREM StoresAreComplete == Spec => []StoresComplete
<1>1. StoresInv => StoresComplete
    BY DEF StoresInv
<1> QED
    BY <1>1, InitStoresInv, StoresInductive, Invariance, PTL DEF Spec
-----------------------------------------------------------------------------
\* Where what a tab shows and what the server stores come together.  An
\* operation of the document is uploaded, or a row of the outbox will do it, or
\* the queue; or else a handshake is to come, or the question it ends with is
\* on its way.  An operation of the server is in the document of a tab that has
\* begun its handshake, or in a frame on its way.
Uploaded(b) == content \cup OpsOf(disk[b].rows)

Numbered(rows) == \A m \in rows : m.order # 0
Mirrors(r, U) ==
    /\ OpsOf(r.pending) \subseteq r.doc /\ ToSet(r.queue) \subseteq r.doc
    /\ OpsOf(r.pass.stored) \subseteq U
    /\ Numbered(r.pending) /\ Numbered(r.pass.stored)

BringsOps(f) == f.type = "step2" \/ f.type = "update"
Arriving(down) == {o \in Op : \E i \in DOMAIN down : BringsOps(down[i]) /\ o \in down[i].ops}
Informed(r, n, c) ==
    r.sync \in {"asked", "again", "done"} =>
        n.subscribed /\ c \subseteq r.doc \cup Arriving(n.down)

\* The replay of a rebase takes one question for its own.
IsQuestion(f) == f.type = "step1" \/ (f.type = "resync" /\ f.row = NoRow)
Questions(down) == {i \in DOMAIN down : IsQuestion(down[i])}
Asked(r, down) ==
    \E i \in Questions(down) :
        r.rebase.phase = "collecting" => \E j \in Questions(down) : j < i
Uploads(r, down, U) ==
    \/ r.doc \subseteq U \cup ToSet(r.queue)
    \/ r.sync \in {"off", "waiting", "again"}
    \/ Asked(r, down)

Flow(r, n, c, U) == Mirrors(r, U) /\ Informed(r, n, c) /\ Uploads(r, n.down, U)
FlowInv ==
    /\ \A b \in Browser : Numbered(disk[b].rows)
    /\ \A t \in Tab : Flow(tab[t], net[t], content, Uploaded(Home[t]))

\* Frames are put at the end, and taken from the front.
Grown(d, e) == \A i \in DOMAIN d : i \in DOMAIN e /\ e[i] = d[i]

LEMMA GrownKeeps ==
    ASSUME NEW d, NEW e, Grown(d, e)
    PROVE  /\ Questions(d) \subseteq Questions(e)
           /\ Arriving(d) \subseteq Arriving(e)
           /\ \A r : Asked(r, d) => Asked(r, e)
<1>1. Questions(d) \subseteq Questions(e)
    BY DEF Grown, Questions
<1>2. Arriving(d) \subseteq Arriving(e)
    BY DEF Grown, Arriving
<1> QED
    BY <1>1, <1>2 DEF Asked

LEMMA AppendGrows ==
    ASSUME NEW S, NEW d \in Seq(S), NEW f \in S
    PROVE  /\ Grown(d, Append(d, f))
           /\ Len(d) + 1 \in DOMAIN Append(d, f) /\ Append(d, f)[Len(d) + 1] = f
           /\ DOMAIN d = 1 .. Len(d) /\ Len(d) \in Nat
BY DEF Grown

LEMMA TailShifts ==
    ASSUME NEW S, NEW d \in Seq(S), d # <<>>
    PROVE  /\ \A i \in DOMAIN d : i # 1 => i - 1 \in DOMAIN Tail(d) /\ Tail(d)[i - 1] = d[i]
           /\ d[1] = Head(d) /\ DOMAIN d \subseteq Nat
OBVIOUS

LEMMA TailQuestions ==
    ASSUME NEW S, NEW d \in Seq(S), d # <<>>
    PROVE  \A i \in Questions(d) : i # 1 => i - 1 \in Questions(Tail(d))
BY TailShifts DEF Questions

LEMMA TailArriving ==
    ASSUME NEW S, NEW d \in Seq(S), d # <<>>
    PROVE  /\ ~BringsOps(Head(d)) => Arriving(d) \subseteq Arriving(Tail(d))
           /\ Arriving(d) \subseteq Head(d).ops \cup Arriving(Tail(d))
<1>1. ASSUME NEW o \in Arriving(d)
      PROVE  (BringsOps(Head(d)) /\ o \in Head(d).ops) \/ o \in Arriving(Tail(d))
    <2>1. PICK i \in DOMAIN d : BringsOps(d[i]) /\ o \in d[i].ops
        BY <1>1 DEF Arriving
    <2>2. CASE i = 1
        BY <2>1, <2>2, TailShifts
    <2>3. CASE i # 1
        <3>1. i - 1 \in DOMAIN Tail(d) /\ Tail(d)[i - 1] = d[i]
            BY <2>3, TailShifts
        <3> QED
            BY <1>1, <2>1, <3>1 DEF Arriving
    <2> QED
        BY <2>2, <2>3
<1> QED
    BY <1>1

\* Nothing at the head of the queue is a question: those left move up.
LEMMA TailAsked ==
    ASSUME NEW S, NEW d \in Seq(S), d # <<>>, ~IsQuestion(Head(d)), NEW r, Asked(r, d)
    PROVE  Asked(r, Tail(d))
<1>1. PICK i \in Questions(d) :
         r.rebase.phase = "collecting" => \E j \in Questions(d) : j < i
    BY DEF Asked
<1>2. \A k \in Questions(d) : k - 1 \in Questions(Tail(d)) /\ k \in Int
    BY TailShifts, TailQuestions DEF Questions
<1>3. ASSUME r.rebase.phase = "collecting"
      PROVE  \E j \in Questions(Tail(d)) : j < i - 1
    <2>1. PICK j \in Questions(d) : j < i
        BY <1>1, <1>3
    <2>2. j - 1 < i - 1
        BY <1>2, <2>1
    <2> QED
        BY <1>2, <2>2
<1> QED
    BY <1>2, <1>3 DEF Asked

\* What handleSyncStep1 puts at the end: what the tab lacks, and a question.
LEMMA ServedGrows ==
    ASSUME NEW d \in Seq(Frame(content)), NEW vector, content \subseteq Op
    PROVE  LET e == ServeStep1(d, vector).down
           IN  /\ Grown(d, e)
               /\ content \ vector \subseteq Arriving(e)
               /\ Len(e) \in Questions(e) /\ \A i \in DOMAIN d : i < Len(e)
               /\ ServeStep1(d, vector).subscribed
<1> DEFINE step2 == [type |-> "step2", ops |-> content \ vector]
           step1 == [type |-> "step1", vector |-> content]
           mid == d \o Frames(content \ vector)
           e == mid \o <<step1>>
<1>1. ServeStep1(d, vector).down = e /\ ServeStep1(d, vector).subscribed
    BY DEF ServeStep1, Socket
<1>2. step2 \in Frame(content) /\ step1 \in Frame(content)
    BY DEF Frame
<1>3. Frames(content \ vector) = IF content \ vector = {} THEN <<>> ELSE <<step2>>
    BY DEF Frames
<1>4. IsQuestion(step1) /\ BringsOps(step2) /\ step2.ops = content \ vector
    BY DEF IsQuestion, BringsOps
<1>5. d \in Seq(Frame(content)) /\ Len(d) \in Nat /\ DOMAIN d = 1 .. Len(d)
    OBVIOUS
<1> HIDE DEF step1, step2
<1>6. /\ mid \in Seq(Frame(content)) /\ Len(mid) \in Nat /\ Len(d) <= Len(mid)
      /\ DOMAIN mid = 1 .. Len(mid) /\ Grown(d, mid)
      /\ content \ vector # {} => Len(d) + 1 \in DOMAIN mid /\ mid[Len(d) + 1] = step2
    <2> DEFINE part == Frames(content \ vector)
    <2>1. part \in Seq(Frame(content)) /\ Len(part) \in Nat
        <3>1. <<>> \in Seq(Frame(content)) /\ <<step2>> \in Seq(Frame(content))
            BY <1>2
        <3>2. part = <<>> \/ part = <<step2>>
            BY <1>3
        <3> HIDE DEF part
        <3> QED
            BY <3>1, <3>2
    <2>2. content \ vector # {} => Len(part) = 1 /\ part[1] = step2
        BY <1>3
    <2> HIDE DEF part
    <2>3. /\ d \o part \in Seq(Frame(content)) /\ Len(d \o part) = Len(d) + Len(part)
          /\ \A k \in 1 .. Len(d) : (d \o part)[k] = d[k]
          /\ Len(part) = 1 => (d \o part)[Len(d) + 1] = part[1]
        BY <1>5, <2>1
    <2> QED
        BY <1>5, <2>1, <2>2, <2>3 DEF Grown, part
<1> HIDE DEF mid
<1>7. /\ Len(e) = Len(mid) + 1 /\ DOMAIN e = 1 .. Len(mid) + 1
      /\ e[Len(e)] = step1 /\ Grown(mid, e)
    BY <1>2, <1>6 DEF Grown
<1> HIDE DEF e
<1>8. Grown(d, e)
    BY <1>6, <1>7 DEF Grown
<1>9. Len(e) \in Questions(e) /\ \A i \in DOMAIN d : i < Len(e)
    BY <1>4, <1>5, <1>6, <1>7 DEF Questions
<1>10. content \ vector \subseteq Arriving(e)
    BY <1>4, <1>6, <1>7 DEF Arriving, Grown
<1> QED
    BY <1>1, <1>8, <1>9, <1>10
-----------------------------------------------------------------------------
LEMMA InformedKept ==
    ASSUME NEW r, NEW q, NEW n, NEW m, NEW c, NEW d, Informed(r, n, c),
           q.sync = r.sync, r.doc \subseteq q.doc, n.subscribed => m.subscribed,
           Arriving(n.down) \subseteq q.doc \cup Arriving(m.down),
           n.subscribed => d \subseteq c \cup q.doc \cup Arriving(m.down)
    PROVE  Informed(q, m, d)
BY DEF Informed

LEMMA UploadsKept ==
    ASSUME NEW r, NEW q, NEW d, NEW e, NEW U, NEW V, Uploads(r, d, U),
           q.sync = r.sync, q.rebase.phase = "collecting" => r.rebase.phase = "collecting",
           Asked(r, d) => Asked(r, e),
           r.doc \subseteq U \cup ToSet(r.queue) => q.doc \subseteq V \cup ToSet(q.queue)
    PROVE  Uploads(q, e, V)
BY DEF Uploads, Asked

\* The tabs that take no step: a broadcast reaches them, or tells them nothing.
LEMMA OthersFlow ==
    ASSUME IInv, FlowInv, NEW t \in Tab, NEW p \in Tab, p # t, tab'[p] = tab[p], Kept,
           NEW u \in SUBSET Op, content' = content \cup u, NEW own,
           (net'[p] = net[p] /\ u = {}) \/ net'[p] = Broadcast(t, u, own)[p]
    PROVE  Flow(tab[p], net'[p], content', Uploaded(Home[p])')
<1> DEFINE r == tab[p]
           n == net[p]
           m == net'[p]
           frame == [type |-> "update", ops |-> u]
           told == [n EXCEPT !.down = Append(@, frame)]
<1>1. /\ Flow(r, n, content, Uploaded(Home[p])) /\ Home[p] \in Browser
      /\ n \in SocketOver(content) /\ n.down \in Seq(Frame(content))
    BY StateTyped DEF FlowInv, SocketOver
<1>2. Uploaded(Home[p]) \subseteq Uploaded(Home[p])'
    BY <1>1 DEF Uploaded, Kept
<1>3. (m = n /\ u = {}) \/ m = IF n.subscribed /\ (~(u \subseteq r.doc) \/ r.rebase.phase # "off")
                               THEN told ELSE n
    BY DEF Broadcast
<1>4. told.subscribed = n.subscribed /\ told.down = Append(n.down, frame)
    BY <1>1 DEF SocketOver
<1>5. n.down \in Seq(Frame(Op)) /\ frame \in Frame(Op) /\ BringsOps(frame) /\ frame.ops = u
    <2>1. Seq(Frame(content)) \subseteq Seq(Frame(Op))
        BY FrameMonotone, StateTyped
    <2> QED
        BY <1>1, <2>1 DEF Frame, BringsOps
<1> HIDE DEF frame, told, m
<1>6. Grown(n.down, told.down) /\ u \subseteq Arriving(told.down)
    <2>1. /\ Grown(n.down, Append(n.down, frame))
          /\ Len(n.down) + 1 \in DOMAIN Append(n.down, frame)
          /\ Append(n.down, frame)[Len(n.down) + 1] = frame
        BY <1>5, AppendGrows
    <2> QED
        BY <1>4, <1>5, <2>1 DEF Arriving
<1>7. /\ Grown(n.down, m.down) /\ m.subscribed = n.subscribed
      /\ n.subscribed => u \subseteq r.doc \cup Arriving(m.down)
    BY <1>3, <1>4, <1>6 DEF Grown
<1>8. Arriving(n.down) \subseteq Arriving(m.down) /\ (Asked(r, n.down) => Asked(r, m.down))
    BY <1>7, GrownKeeps
<1>9. Mirrors(r, Uploaded(Home[p])')
    BY <1>1, <1>2 DEF Flow, Mirrors
<1>10. Informed(r, m, content')
    BY <1>1, <1>7, <1>8, InformedKept DEF Flow
<1>11. Uploads(r, m.down, Uploaded(Home[p])')
    BY <1>1, <1>2, <1>8, UploadsKept DEF Flow
<1> QED
    BY <1>9, <1>10, <1>11 DEF Flow, m

\* What one tab's step has to show.
LEMMA FlowStep ==
    ASSUME IInv, FlowInv, NEW t \in Tab, NEW r, Becomes(t, r), Kept,
           NEW u \in SUBSET Op, content' = content \cup u, NEW own,
           \A p \in Tab \ {t} : (net'[p] = net[p] /\ u = {}) \/ net'[p] = Broadcast(t, u, own)[p],
           \A b \in Browser : Numbered(disk'[b].rows),
           Flow(r, net'[t], content', Uploaded(Home[t])')
    PROVE  FlowInv'
<1>1. tab' = [tab EXCEPT ![t] = r] /\ tab \in [Tab -> TabOver(made)]
    BY DEF Becomes, IInv, Typed
<1>2. ASSUME NEW p \in Tab
      PROVE  Flow(tab'[p], net'[p], content', Uploaded(Home[p])')
    <2>1. CASE p = t
        BY <1>1, <2>1
    <2>2. CASE p # t
        <3>1. tab'[p] = tab[p]
            BY <1>1, <2>2
        <3> QED
            BY <2>2, <3>1, OthersFlow
    <2> QED
        BY <2>1, <2>2
<1> QED
    BY <1>2 DEF FlowInv, Flow, Mirrors, Informed, Uploads, Arriving, BringsOps, Asked,
       Questions, IsQuestion, NoRow, Row, Numbered, Uploaded, OpsOf

\* A step that concerns the tab, its disk and its socket only.
LEMMA OwnFlowStep ==
    ASSUME IInv, FlowInv, NEW t \in Tab, NEW r, Becomes(t, r), Kept, content' = content,
           NEW n, net' = [net EXCEPT ![t] = n],
           \A b \in Browser : Numbered(disk'[b].rows),
           Flow(r, n, content, Uploaded(Home[t])')
    PROVE  FlowInv'
<1> DEFINE u == {}
<1>1. net'[t] = n /\ \A p \in Tab \ {t} : net'[p] = net[p] /\ u = {}
    BY StateTyped
<1>2. u \in SUBSET Op /\ content' = content \cup u
    OBVIOUS
<1> HIDE DEF u
<1> QED
    BY <1>1, <1>2, FlowStep

\* Before its handshake, and when it has stopped, a tab owes nothing.
LEMMA OwesNothing ==
    ASSUME NEW r, r.sync \in {"off", "waiting"}, NEW U, Mirrors(r, U), NEW n, NEW c
    PROVE  Flow(r, n, c, U)
BY DEF Flow, Informed, Uploads

\* A step that tells the tab nothing: the mirror may shrink, a read end.
Idles(r, q) ==
    /\ q.doc = r.doc /\ q.queue = r.queue /\ q.pending \subseteq r.pending
    /\ q.pass = r.pass \/ q.pass = NoPass

LEMMA IdlesMirrors ==
    ASSUME NEW r, NEW q, Idles(r, q), NEW U, NEW V, Mirrors(r, U), U \subseteq V
    PROVE  Mirrors(q, V)
<1>1. OpsOf(NoPass.stored) = {} /\ Numbered(NoPass.stored)
    BY DEF NoPass, OpsOf, Numbered
<1>2. OpsOf(q.pending) \subseteq OpsOf(r.pending) /\ Numbered(q.pending)
    BY DEF Idles, OpsOf, Numbered, Mirrors
<1> QED
    BY <1>1, <1>2 DEF Idles, Mirrors

LEMMA IdlesFlow ==
    ASSUME NEW r, NEW q, Idles(r, q), q.sync = r.sync,
           q.rebase.phase = "collecting" => r.rebase.phase = "collecting",
           NEW U, NEW V, U \subseteq V, NEW c, NEW n, NEW m, Flow(r, n, c, U),
           n.subscribed => m.subscribed,
           Arriving(n.down) \subseteq Arriving(m.down),
           Asked(r, n.down) => Asked(r, m.down)
    PROVE  Flow(q, m, c, V)
<1>1. q.doc = r.doc /\ q.queue = r.queue
    BY DEF Idles
<1>2. Mirrors(q, V)
    BY IdlesMirrors DEF Flow
<1>3. Informed(q, m, c)
    BY <1>1, InformedKept DEF Flow
<1>4. Uploads(q, m.down, V)
    <2>1. r.doc \subseteq U \cup ToSet(r.queue) => q.doc \subseteq V \cup ToSet(q.queue)
        BY <1>1
    <2> QED
        BY <2>1, UploadsKept DEF Flow
<1> QED
    BY <1>2, <1>3, <1>4 DEF Flow
-----------------------------------------------------------------------------
LEMMA InitFlow == Init => FlowInv
<1> SUFFICES ASSUME Init PROVE FlowInv
    OBVIOUS
<1> DEFINE first == [Closed EXCEPT !.mode = "open", !.ready = TRUE, !.sync = "done"]
           socket == [NoSocket EXCEPT !.subscribed = TRUE, !.awaiting = TRUE]
<1>1. /\ first.doc = {} /\ first.queue = <<>> /\ first.pending = {}
      /\ first.pass = NoPass
    BY DEF Closed
<1>2. socket.subscribed
    BY DEF NoSocket
<1>3. \A t \in Tab : tab[t] = first /\ net[t] = socket
    BY DEF Init
<1> HIDE DEF first, socket
<1>4. ASSUME NEW U
      PROVE  Flow(first, socket, {}, U)
    <2>1. Mirrors(first, U)
        BY <1>1 DEF Mirrors, OpsOf, ToSet, Numbered, NoPass
    <2>2. Informed(first, socket, {}) /\ Uploads(first, socket.down, U)
        BY <1>1, <1>2 DEF Informed, Uploads
    <2> QED
        BY <2>1, <2>2 DEF Flow
<1>5. content = {} /\ \A b \in Browser : Numbered(disk[b].rows)
    BY DEF Init, Numbered
<1> QED
    BY <1>3, <1>4, <1>5 DEF FlowInv

\* What the invariants say of one tab and its disk.
LEMMA FlowOf ==
    ASSUME IInv, FlowInv, NEW t \in Tab
    PROVE  /\ Flow(tab[t], net[t], content, Uploaded(Home[t]))
           /\ Mirrors(tab[t], Uploaded(Home[t]))
           /\ Numbered(disk[Home[t]].rows)
           /\ net[t].down \in Seq(Frame(content))
           /\ \A b \in Browser : Numbered(disk[b].rows)
BY StateTyped DEF FlowInv, Flow, SocketOver

LEMMA UploadedGrows ==
    ASSUME Kept, NEW b \in Browser, content \subseteq content'
    PROVE  Uploaded(b) \subseteq Uploaded(b)'
BY DEF Kept, Uploaded

\* Steps that leave the handshake to come.
LEMMA HandshakeToCome ==
    ASSUME IInv, FlowInv, Kept, NEW t \in Tab, NEW r, Becomes(t, r),
           r.sync \in {"off", "waiting"}, Mirrors(r, Uploaded(Home[t])),
           content' = content, \A b \in Browser : disk'[b].rows = disk[b].rows,
           NEW n, net' = [net EXCEPT ![t] = n]
    PROVE  FlowInv'
<1>1. Uploaded(Home[t])' = Uploaded(Home[t])
    BY StateTyped DEF Uploaded
<1>2. Flow(r, n, content, Uploaded(Home[t])')
    BY <1>1, OwesNothing
<1>3. \A b \in Browser : Numbered(disk'[b].rows)
    BY FlowOf
<1> QED
    BY <1>2, <1>3, OwnFlowStep

LEMMA ResetIdles ==
    ASSUME NEW S, NEW r \in TabOver(S)
    PROVE  /\ Idles(r, ResetConnection(r)) /\ ResetConnection(r).sync = "off"
           /\ Idles(r, Recover(r)) /\ Recover(r).sync = "off"
<1> DEFINE rebase == IF r.rebase.phase = "persisting" THEN r.rebase ELSE NoRebase
           q == [r EXCEPT !.ready = FALSE, !.sync = "off", !.gaps = {},
                          !.flight = {}, !.rebase = rebase]
<1>1. ResetConnection(r) = q
    BY DEF ResetConnection, TabOver
<1> HIDE DEF rebase
<1>2. /\ Idles(r, q) /\ q.sync = "off"
      /\ Idles(r, [q EXCEPT !.mode = "recovery"]) /\ [q EXCEPT !.mode = "recovery"].sync = "off"
    BY DEF Idles, TabOver
<1> QED
    BY <1>1, <1>2 DEF Recover

\* Apply adds to the document and leaves the outbox and the handshake alone.
Brings(r, q, ops) ==
    /\ q.doc = r.doc \cup ops /\ q.queue = r.queue /\ q.pending = r.pending
    /\ q.pass = r.pass /\ q.sync = r.sync /\ q.rebase = r.rebase

LEMMA ApplyAdds ==
    ASSUME NEW S, NEW r \in TabOver(S), NEW ops, NEW logged
    PROVE  Brings(r, Apply(r, ops, logged), ops)
BY DEF Brings, Apply, TabOver

LEMMA OpenFlow == ASSUME IInv, FlowInv, Kept, NEW t \in Tab, Open(t) PROVE FlowInv'
<1> DEFINE d == disk[Home[t]]
           fresh == [Closed EXCEPT !.mode = "open", !.doc = d.log, !.pending = d.rows]
           loaded == Apply(fresh, OpsOf(d.rows), d.log)
           r == IF d.recovery THEN Recover(loaded) ELSE loaded
           U == Uploaded(Home[t])
<1>1. d \in DiskOver(made) /\ d.log \in SUBSET made /\ d.rows \in SUBSET RowsOver(made)
    BY StateTyped DEF DiskOver
<1>2. Numbered(d.rows)
    BY FlowOf
<1>3. /\ fresh \in TabOver(made) /\ fresh.queue = <<>>
      /\ fresh.pending = d.rows /\ fresh.pass = NoPass /\ fresh.sync = "off"
    BY <1>1, ClosedTyped DEF TabOver, Closed
<1>4. OpsOf(d.rows) \in SUBSET made
    BY <1>1, OpsOfRows
<1>5. Becomes(t, r) /\ content' = content /\ disk' = disk /\ net' = net
    BY DEF Open, server
<1> HIDE DEF fresh, d, U
<1>6. /\ OpsOf(d.rows) \subseteq loaded.doc /\ loaded.queue = <<>> /\ loaded.pending = d.rows
      /\ loaded.pass = NoPass /\ loaded.sync = "off" /\ loaded \in TabOver(made)
    <2>1. loaded \in TabOver(made)
        BY <1>3, <1>4, ApplyTyped
    <2> QED
        BY <1>3, <2>1, ApplyAdds DEF Brings
<1> HIDE DEF loaded
<1>7. Mirrors(loaded, U)
    BY <1>2, <1>6 DEF Mirrors, OpsOf, ToSet, NoPass, Numbered
<1>8. Mirrors(r, U) /\ r.sync = "off"
    BY <1>6, <1>7, ResetIdles, IdlesMirrors
<1> HIDE DEF r
<1>9. net' = [net EXCEPT ![t] = net[t]]
    BY <1>5, StateTyped
<1> QED
    BY <1>5, <1>8, <1>9, HandshakeToCome DEF U

LEMMA ClosedFlow ==
    ASSUME IInv, FlowInv, Kept, NEW t \in Tab, Close(t) \/ Connect(t) \/ Disconnect(t)
    PROVE  FlowInv'
<1> DEFINE r == tab[t]
           U == Uploaded(Home[t])
           connected == [r EXCEPT !.ready = TRUE, !.sync = "waiting"]
<1>1. /\ r \in TabOver(made) /\ Mirrors(r, U)
      /\ content' = content /\ disk' = disk /\ net' = [net EXCEPT ![t] = NoSocket]
    BY StateTyped, FlowOf DEF Close, Connect, Disconnect, server
<1>2. Mirrors(Closed, U) /\ Closed.sync = "off"
    BY DEF Closed, Mirrors, OpsOf, ToSet, NoPass, Numbered
<1>3. Idles(r, connected) /\ connected.sync = "waiting"
    BY <1>1 DEF Idles, TabOver
<1>4. Idles(r, ResetConnection(r)) /\ ResetConnection(r).sync = "off"
    BY <1>1, ResetIdles
<1>5. Becomes(t, Closed) \/ Becomes(t, connected) \/ Becomes(t, ResetConnection(r))
    BY DEF Close, Connect, Disconnect
<1> HIDE DEF connected, U
<1>6. \E q : Becomes(t, q) /\ Mirrors(q, U) /\ q.sync \in {"off", "waiting"}
    BY <1>1, <1>2, <1>3, <1>4, <1>5, IdlesMirrors
<1> QED
    BY <1>1, <1>6, HandshakeToCome DEF U

\* Steps of a tab that neither send nor read a frame.
LEMMA SilentFlow ==
    ASSUME IInv, FlowInv, Kept, NEW t \in Tab, NEW r, Becomes(t, r),
           content' = content, net' = net, \A b \in Browser : Numbered(disk'[b].rows),
           Mirrors(r, Uploaded(Home[t])'), tab[t].doc \subseteq r.doc,
           \/ /\ r.sync = tab[t].sync
              /\ r.rebase.phase = "collecting" => tab[t].rebase.phase = "collecting"
              /\ tab[t].doc \subseteq Uploaded(Home[t]) \cup ToSet(tab[t].queue) =>
                     r.doc \subseteq Uploaded(Home[t])' \cup ToSet(r.queue)
           \/ r.sync = "again" /\ tab[t].sync \in {"asked", "again"}
           \/ r.sync = "waiting"
    PROVE  FlowInv'
<1> DEFINE old == tab[t]
           n == net[t]
<1>1. Flow(old, n, content, Uploaded(Home[t]))
    BY FlowOf
<1>2. Informed(r, n, content)
    BY <1>1 DEF Flow, Informed
<1>3. Uploads(r, n.down, Uploaded(Home[t])')
    BY <1>1 DEF Flow, Uploads, Asked
<1>4. Flow(r, n, content, Uploaded(Home[t])')
    BY <1>2, <1>3 DEF Flow
<1>5. net' = [net EXCEPT ![t] = n]
    BY StateTyped
<1> QED
    BY <1>4, <1>5, OwnFlowStep

LEMMA StoredFlow ==
    ASSUME IInv, FlowInv, Kept, NEW t \in Tab, WriteLog(t) \/ AckTimeout(t) \/ SlowRead(t)
    PROVE  FlowInv'
<1> DEFINE r == tab[t]
           U == Uploaded(Home[t])
           begun == BeginPass(r, disk[Home[t]].rows)
<1>1. r \in TabOver(made) /\ Mirrors(r, U) /\ Home[t] \in Browser
    BY StateTyped, FlowOf
<1>2. /\ content' = content /\ net' = net
      /\ \A b \in Browser : disk'[b].rows = disk[b].rows
    BY StateTyped DEF WriteLog, AckTimeout, SlowRead, server, DiskOver
<1>3. U' = U
    BY <1>1, <1>2 DEF Uploaded
<1>4. \A b \in Browser : Numbered(disk'[b].rows)
    BY <1>2, FlowOf
<1>5. CASE WriteLog(t) \/ AckTimeout(t)
    <2> DEFINE logged == [r EXCEPT !.unlogged = Tail(@)]
               freed(m) == [r EXCEPT !.flight = @ \ {m}]
    <2>1. Idles(r, logged) /\ logged.sync = r.sync /\ logged.rebase = r.rebase
        BY <1>1 DEF Idles, TabOver
    <2>2. \A m : Idles(r, freed(m)) /\ freed(m).sync = r.sync /\ freed(m).rebase = r.rebase
        BY <1>1 DEF Idles, TabOver
    <2>3. Becomes(t, logged) \/ \E m : Becomes(t, freed(m))
        BY <1>5 DEF WriteLog, AckTimeout
    <2> HIDE DEF logged, freed
    <2>4. PICK q : Becomes(t, q) /\ Idles(r, q) /\ q.sync = r.sync /\ q.rebase = r.rebase
        BY <2>1, <2>2, <2>3
    <2>5. q.doc = r.doc /\ q.queue = r.queue /\ Mirrors(q, U')
        BY <1>1, <1>3, <2>4, IdlesMirrors DEF Idles
    <2> QED
        BY <1>2, <1>3, <1>4, <2>4, <2>5, SilentFlow
<1>6. CASE SlowRead(t)
    <2>1. Becomes(t, begun)
        BY <1>6 DEF SlowRead
    <2>2. /\ begun.doc = r.doc /\ begun.queue = r.queue /\ begun.pending = r.pending
          /\ begun.sync = r.sync /\ begun.rebase = r.rebase
          /\ begun.pass.stored = disk[Home[t]].rows
        BY <1>1 DEF BeginPass, TabOver
    <2> HIDE DEF begun
    <2>3. Mirrors(begun, U')
        BY <1>1, <1>3, <2>2, FlowOf DEF Mirrors, Uploaded
    <2> QED
        BY <1>2, <1>3, <1>4, <2>1, <2>2, <2>3, SilentFlow
<1> QED
    BY <1>5, <1>6

LEMMA EditFlow == ASSUME IInv, FlowInv, Kept, NEW t \in Tab, NEW o \in Op, Edit(t, o) PROVE FlowInv'
<1> DEFINE r == tab[t]
           U == Uploaded(Home[t])
           applied == Apply(r, {o}, {})
           q == [applied EXCEPT !.queue = Append(@, o)]
<1>1. r \in TabOver(made) /\ Mirrors(r, U) /\ made \subseteq made' /\ o \in made'
    BY StateTyped, FlowOf DEF Edit
<1>2. applied \in TabOver(made')
    BY <1>1, TabMonotone, ApplyTyped
<1>3. Becomes(t, q) /\ content' = content /\ disk' = disk /\ net' = net
    BY DEF Edit, server
<1>4. Brings(r, applied, {o})
    BY <1>1, ApplyAdds
<1> HIDE DEF applied
<1>5. /\ q.doc = r.doc \cup {o} /\ q.queue = Append(r.queue, o) /\ q.pending = r.pending
      /\ q.pass = r.pass /\ q.sync = r.sync /\ q.rebase = r.rebase
    BY <1>2, <1>4 DEF TabOver, Brings
<1>6. ToSet(q.queue) = ToSet(r.queue) \cup {o}
    <2>1. r.queue \in Seq(made)
        BY <1>1 DEF TabOver
    <2> DEFINE old == r.queue
               new == q.queue
               n == Len(old)
    <2>2. /\ DOMAIN new = 1 .. n + 1 /\ DOMAIN old = 1 .. n /\ n \in Nat
          /\ new[n + 1] = o /\ \A i \in 1 .. n : new[i] = old[i]
        BY <1>1, <1>5, <2>1
    <2> HIDE DEF new, old, n
    <2>3. ToSet(new) = ToSet(old) \cup {o}
        BY <2>2 DEF ToSet
    <2> QED
        BY <2>3 DEF new, old
<1> HIDE DEF q
<1>7. U' = U
    BY <1>3 DEF Uploaded
<1>8. Mirrors(q, U')
    BY <1>1, <1>5, <1>6, <1>7 DEF Mirrors
<1>9. \A b \in Browser : Numbered(disk'[b].rows)
    BY <1>3, FlowOf
<1> QED
    BY <1>3, <1>5, <1>6, <1>7, <1>8, <1>9, SilentFlow

\* The edits of a row leave the queue for the outbox.
LEMMA EnqueueFlow == ASSUME IInv, FlowInv, Kept, NEW t \in Tab, Enqueue(t) PROVE FlowInv'
<1> DEFINE home == Home[t]
           order == disk[home].order + 1
           queue == tab[t].queue
<1>1. PICK n \in 1 .. Len(queue) :
         LET m == Row(Coalesced(queue, n), order, 0)
         IN  /\ disk' = [disk EXCEPT ![home].rows = @ \cup {m}, ![home].order = order]
             /\ Becomes(t, [tab[t] EXCEPT !.queue = SubSeq(@, n + 1, Len(@)),
                                          !.pending = @ \cup {m}])
    BY Zenon DEF Enqueue
<1> DEFINE r == tab[t]
           U == Uploaded(home)
           m == Row(Coalesced(queue, n), order, 0)
           rest == SubSeq(queue, n + 1, Len(queue))
           q == [r EXCEPT !.queue = SubSeq(@, n + 1, Len(@)), !.pending = @ \cup {m}]
<1>2. /\ disk' = [disk EXCEPT ![home].rows = @ \cup {m}, ![home].order = order]
      /\ Becomes(t, q) /\ content' = content /\ net' = net
    BY <1>1 DEF Enqueue, server
<1>3. /\ r \in TabOver(made) /\ Mirrors(r, U) /\ home \in Browser /\ disk[home] \in DiskOver(made)
      /\ queue \in Seq(made) /\ disk \in [Browser -> DiskOver(made)]
    BY StateTyped, FlowOf DEF TabOver
<1>4. m.ops = Coalesced(queue, n) /\ m.order # 0
    BY <1>3 DEF Row, DiskOver
<1> HIDE DEF m, order
<1>5. /\ q.doc = r.doc /\ q.queue = rest /\ q.pending = r.pending \cup {m}
      /\ q.pass = r.pass /\ q.sync = r.sync /\ q.rebase = r.rebase
    BY <1>3 DEF TabOver
<1> HIDE DEF q
<1>6. \A b \in Browser : disk'[b].rows = IF b = home THEN disk[b].rows \cup {m} ELSE disk[b].rows
    BY <1>2, <1>3 DEF DiskOver
<1>7. \A b \in Browser : Numbered(disk'[b].rows)
    BY <1>4, <1>6, FlowOf DEF Numbered
<1>8. U' = U \cup m.ops
    BY <1>2, <1>3, <1>6 DEF Uploaded, OpsOf
<1>9. /\ DOMAIN SubSeq(queue, 1, n) = 1 .. n
      /\ \A j \in 1 .. n : SubSeq(queue, 1, n)[j] = queue[j]
      /\ DOMAIN rest = 1 .. Len(queue) - n
      /\ \A i \in 1 .. Len(queue) - n : rest[i] = queue[n + i]
      /\ DOMAIN queue = 1 .. Len(queue) /\ Len(queue) \in Nat
    BY <1>3
<1> HIDE DEF rest
<1>10. m.ops \subseteq ToSet(queue) /\ \A j \in 1 .. n : queue[j] \in m.ops
    <2> DEFINE batch == SubSeq(queue, 1, n)
    <2>1. m.ops = ToSet(batch)
        BY <1>4 DEF Coalesced
    <2> HIDE DEF batch
    <2>2. DOMAIN batch = 1 .. n /\ \A j \in 1 .. n : batch[j] = queue[j]
        BY <1>9 DEF batch
    <2>3. m.ops = {queue[j] : j \in 1 .. n}
        BY <2>1, <2>2 DEF ToSet
    <2> QED
        BY <1>9, <2>3 DEF ToSet
<1>11. ToSet(rest) \subseteq ToSet(queue)
    BY <1>9 DEF ToSet
<1>12. ToSet(queue) \subseteq m.ops \cup ToSet(rest)
    <2> SUFFICES ASSUME NEW j \in DOMAIN queue PROVE queue[j] \in m.ops \cup ToSet(rest)
        BY DEF ToSet
    <2>1. CASE j \in 1 .. n
        BY <1>10, <2>1
    <2>2. CASE j \notin 1 .. n
        <3>1. j - n \in DOMAIN rest /\ rest[j - n] = queue[j]
            BY <1>9, <2>2
        <3> QED
            BY <3>1 DEF ToSet
    <2> QED
        BY <2>1, <2>2
<1>13. Mirrors(q, U')
    <2>1. OpsOf(q.pending) = OpsOf(r.pending) \cup m.ops
        BY <1>5 DEF OpsOf
    <2>2. Numbered(q.pending)
        BY <1>3, <1>4, <1>5 DEF Numbered, Mirrors
    <2> QED
        BY <1>3, <1>5, <1>8, <1>10, <1>11, <2>1, <2>2 DEF Mirrors
<1>14. r.doc \subseteq U \cup ToSet(queue) => q.doc \subseteq U' \cup ToSet(q.queue)
    BY <1>5, <1>8, <1>12
<1> QED
    BY <1>2, <1>5, <1>7, <1>13, <1>14, SilentFlow

\* What a pass reads from the outbox is uploaded or will be; what it reads from
\* the log only is uploaded by the handshake that follows.
LEMMA AdoptedFlow ==
    ASSUME NEW S, NEW r \in TabOver(S), NEW d \in DiskOver(S), NEW U, Mirrors(r, U)
    PROVE  LET q == Adopted(r, d)
           IN  /\ Mirrors(q, U) /\ r.doc \subseteq q.doc
               /\ \/ /\ q.sync = r.sync /\ q.rebase = r.rebase /\ q.queue = r.queue
                     /\ q.doc \subseteq r.doc \cup U
                  \/ q.sync = "again" /\ r.sync \in {"asked", "again"}
                  \/ q.sync \in {"off", "waiting"}
<1> DEFINE stored == r.pass.stored
           gone == r.pass.base \ stored
           ops == d.log \cup OpsOf(stored)
           applied == Apply(r, ops, d.log)
           mirrored == Mirrored(r, d)
           sync == IF d.log \subseteq r.doc THEN applied.sync ELSE RestartSync(applied.sync)
           read == [mirrored EXCEPT !.flight = @ \cap mirrored.pending]
<1>1. stored \in SUBSET RowsOver(S) /\ d.log \in SUBSET S
    BY DEF TabOver, Pass, DiskOver
<1>2. ops \in SUBSET S
    BY <1>1, OpsOfRows
<1>3. applied \in TabOver(S) /\ Brings(r, applied, ops)
    BY <1>2, ApplyAdds, ApplyTyped
<1>4. mirrored = [applied EXCEPT !.pending = (@ \ gone) \cup stored, !.gaps = @ \ gone,
                                 !.sync = sync, !.pass = NoPass]
    BY DEF Mirrored
<1> HIDE DEF applied
<1>5. /\ sync \in {"off", "waiting", "asked", "again", "done"}
      /\ \/ sync = r.sync /\ (d.log \subseteq r.doc \/ r.sync = "again")
         \/ sync = "again" /\ r.sync = "asked"
         \/ sync \in {"off", "waiting"}
    BY <1>3 DEF TabOver, RestartSync, Brings
<1> HIDE DEF mirrored, sync, stored
<1>6. /\ mirrored \in TabOver(S)
      /\ mirrored.doc = r.doc \cup ops /\ mirrored.queue = r.queue
      /\ mirrored.pending = (r.pending \ gone) \cup stored
      /\ mirrored.pass = NoPass /\ mirrored.sync = sync /\ mirrored.rebase = r.rebase
    BY <1>1, <1>3, <1>4, <1>5, ClosedTyped DEF TabOver, Brings
<1> HIDE DEF gone
<1>7. Mirrors(mirrored, U)
    <2>1. OpsOf(mirrored.pending) \subseteq OpsOf(r.pending) \cup OpsOf(stored)
        BY <1>6 DEF OpsOf
    <2>2. Numbered(mirrored.pending)
        BY <1>6 DEF Numbered, Mirrors, stored
    <2>3. OpsOf(NoPass.stored) = {} /\ Numbered(NoPass.stored)
        BY DEF NoPass, OpsOf, Numbered
    <2> QED
        BY <1>6, <2>1, <2>2, <2>3 DEF Mirrors
<1>8. /\ read \in TabOver(S) /\ Idles(mirrored, read)
      /\ read.sync = sync /\ read.rebase = r.rebase
    BY <1>6 DEF TabOver, Idles
<1> HIDE DEF read
<1>9. Mirrors(read, U) /\ read.doc = r.doc \cup ops /\ read.queue = r.queue
    BY <1>6, <1>7, <1>8, IdlesMirrors DEF Idles
<1>10. OpsOf(stored) \subseteq U
    BY DEF Mirrors, stored
<1>11. Adopted(r, d) = IF d.recovery THEN Recover(read) ELSE read
    BY DEF Adopted, PruneInFlight, mirrored, read
<1>12. CASE d.recovery
    <2>1. Idles(read, Recover(read)) /\ Recover(read).sync = "off"
        BY <1>8, ResetIdles
    <2> QED
        BY <1>9, <1>11, <1>12, <2>1, IdlesMirrors DEF Idles
<1>13. CASE ~d.recovery
    BY <1>5, <1>8, <1>9, <1>10, <1>11, <1>13
<1> QED
    BY <1>12, <1>13

LEMMA AdoptFlow ==
    ASSUME IInv, FlowInv, Kept, NEW t \in Tab, NEW r \in TabOver(made),
           NEW d \in DiskOver(made), Mirrors(r, Uploaded(Home[t])),
           r.doc = tab[t].doc, r.queue = tab[t].queue, r.sync = tab[t].sync,
           r.rebase = tab[t].rebase, Becomes(t, Adopted(r, d)),
           content' = content, disk' = disk, net' = net
    PROVE  FlowInv'
<1> DEFINE q == Adopted(r, d)
           U == Uploaded(Home[t])
<1>1. /\ Mirrors(q, U) /\ r.doc \subseteq q.doc
      /\ \/ /\ q.sync = r.sync /\ q.rebase = r.rebase /\ q.queue = r.queue
            /\ q.doc \subseteq r.doc \cup U
         \/ q.sync = "again" /\ r.sync \in {"asked", "again"}
         \/ q.sync \in {"off", "waiting"}
    BY AdoptedFlow
<1> HIDE DEF q
<1>2. U' = U /\ \A b \in Browser : Numbered(disk'[b].rows)
    BY FlowOf DEF Uploaded
<1>3. CASE q.sync \in {"off", "waiting"}
    <2>1. net' = [net EXCEPT ![t] = net[t]]
        BY StateTyped
    <2> QED
        BY <1>1, <1>3, <2>1, HandshakeToCome DEF q
<1>4. CASE q.sync \notin {"off", "waiting"}
    BY <1>1, <1>2, <1>4, SilentFlow DEF q
<1> QED
    BY <1>3, <1>4

LEMMA ReconcileFlow ==
    ASSUME IInv, FlowInv, Kept, NEW t \in Tab, Reconcile(t) \/ Adopt(t)
    PROVE  FlowInv'
<1> DEFINE r == tab[t]
           d == disk[Home[t]]
           U == Uploaded(Home[t])
           begun == BeginPass(r, d.rows)
<1>1. /\ r \in TabOver(made) /\ Mirrors(r, U) /\ d \in DiskOver(made)
      /\ d.rows \in SUBSET RowsOver(made) /\ Numbered(d.rows) /\ OpsOf(d.rows) \subseteq U
    BY StateTyped, FlowOf DEF DiskOver, Uploaded
<1>2. content' = content /\ disk' = disk /\ net' = net
    BY DEF Reconcile, Adopt, server
<1>3. CASE Reconcile(t)
    <2>1. Becomes(t, Adopted(begun, d))
        BY <1>3 DEF Reconcile
    <2>2. begun \in TabOver(made)
        BY <1>1, BeginPassTyped
    <2>3. /\ begun.doc = r.doc /\ begun.queue = r.queue /\ begun.pending = r.pending
          /\ begun.sync = r.sync /\ begun.rebase = r.rebase /\ begun.pass.stored = d.rows
        BY <1>1 DEF BeginPass, TabOver
    <2> HIDE DEF begun, d
    <2>4. Mirrors(begun, U)
        BY <1>1, <2>3 DEF Mirrors
    <2> QED
        BY <1>1, <1>2, <2>1, <2>2, <2>3, <2>4, AdoptFlow
<1>4. CASE Adopt(t)
    BY <1>1, <1>2, <1>4, AdoptFlow DEF Adopt
<1> QED
    BY <1>3, <1>4

\* What a rebase leaves in the outbox is in the document too.
LEMMA RebasedFlow ==
    ASSUME IInv, FlowInv, Kept, NEW t \in Tab, NEW rows \in SUBSET RowsOver(made),
           Numbered(rows), OpsOf(rows) \subseteq Uploaded(Home[t])',
           Becomes(t, Rebased(tab[t], rows, OpsOf(rows))),
           content' = content, net' = net, \A b \in Browser : Numbered(disk'[b].rows)
    PROVE  FlowInv'
<1> DEFINE r == tab[t]
           ops == OpsOf(rows)
           applied == Apply(r, ops, {})
           q == Rebased(r, rows, ops)
           U == Uploaded(Home[t])
<1>1. r \in TabOver(made) /\ Mirrors(r, U) /\ ops \in SUBSET made /\ Home[t] \in Browser
    BY StateTyped, FlowOf, OpsOfRows
<1>2. applied \in TabOver(made) /\ Brings(r, applied, ops)
    BY <1>1, ApplyTyped, ApplyAdds
<1>3. q = [applied EXCEPT !.pending = (@ \ r.rebase.base) \cup rows,
                          !.gaps = @ \ r.rebase.base, !.rebase = NoRebase]
    BY DEF Rebased
<1> HIDE DEF applied, ops, q
<1>4. /\ q.doc = r.doc \cup ops /\ q.queue = r.queue /\ q.pass = r.pass /\ q.sync = r.sync
      /\ q.pending = (r.pending \ r.rebase.base) \cup rows /\ q.rebase = NoRebase
    BY <1>2, <1>3 DEF TabOver, Brings
<1>5. U \subseteq U'
    BY <1>1, UploadedGrows
<1>6. Mirrors(q, U')
    <2>1. OpsOf(q.pending) \subseteq OpsOf(r.pending) \cup ops
        BY <1>4 DEF OpsOf, ops
    <2>2. Numbered(q.pending)
        BY <1>1, <1>4 DEF Numbered, Mirrors
    <2> QED
        BY <1>1, <1>4, <1>5, <2>1, <2>2 DEF Mirrors
<1>7. q.rebase.phase # "collecting"
    BY <1>4 DEF NoRebase
<1>8. r.doc \subseteq U \cup ToSet(r.queue) => q.doc \subseteq U' \cup ToSet(q.queue)
    BY <1>4, <1>5 DEF ops
<1>9. Becomes(t, q)
    BY DEF q, ops
<1> QED
    BY <1>4, <1>6, <1>7, <1>8, <1>9, SilentFlow

LEMMA RewriteOutboxFlow ==
    ASSUME IInv, FlowInv, Kept, NEW t \in Tab, RewriteOutbox(t) \/ LoseRebase(t)
    PROVE  FlowInv'
<1> DEFINE home == Home[t]
<1>1. content' = content /\ net' = net
    BY DEF RewriteOutbox, LoseRebase, server
<1>2. disk \in [Browser -> DiskOver(made)] /\ home \in Browser
    BY StateTyped
<1>3. CASE RewriteOutbox(t)
    <2>1. PICK new \in SUBSET RowsOver(made) :
             /\ disk' = [disk EXCEPT ![home].rows = new]
             /\ Becomes(t, Rebased(tab[t], new, tab[t].rebase.delta))
             /\ OpsOf(new) = tab[t].rebase.delta
             /\ \A w \in new : \E m \in disk[home].rows : w.order = m.order
        BY <1>3, RewriteOutboxTyped
    <2>2. \A b \in Browser : disk'[b].rows = IF b = home THEN new ELSE disk[b].rows
        BY <1>2, <2>1 DEF DiskOver
    <2>3. Numbered(new)
        BY <2>1, FlowOf DEF Numbered
    <2>4. \A b \in Browser : Numbered(disk'[b].rows)
        BY <2>2, <2>3, FlowOf
    <2>5. OpsOf(new) \subseteq Uploaded(home)'
        BY <1>2, <2>2 DEF Uploaded
    <2> QED
        BY <1>1, <2>1, <2>3, <2>4, <2>5, RebasedFlow
<1>4. CASE LoseRebase(t)
    <2> DEFINE rows == disk[home].rows
    <2>1. disk' = disk /\ Becomes(t, Rebased(tab[t], rows, OpsOf(rows)))
        BY <1>4 DEF LoseRebase
    <2>2. rows \in SUBSET RowsOver(made)
        BY <1>2 DEF DiskOver
    <2>3. /\ Numbered(rows) /\ OpsOf(rows) \subseteq Uploaded(home)'
          /\ \A b \in Browser : Numbered(disk'[b].rows)
        BY <2>1, FlowOf DEF Uploaded
    <2> HIDE DEF rows
    <2> QED
        BY <1>1, <2>1, <2>2, <2>3, RebasedFlow
<1> QED
    BY <1>3, <1>4

LEMMA ReadStoresFlow == ASSUME IInv, FlowInv, Kept, NEW t \in Tab, ReadStores(t) PROVE FlowInv'
<1> DEFINE r == tab[t]
           U == Uploaded(Home[t])
<1>1. r \in TabOver(made) /\ Mirrors(r, U) /\ content' = content /\ Home[t] \in Browser
    BY StateTyped, FlowOf DEF ReadStores, server
<1>2. \A b \in Browser : disk'[b].rows = disk[b].rows
    <2>1. disk' = disk \/ disk' = [disk EXCEPT ![Home[t]].recovery = TRUE]
        BY DEF ReadStores
    <2> QED
        BY <2>1, StateTyped DEF DiskOver
<1>3. U' = U /\ \A b \in Browser : Numbered(disk'[b].rows)
    BY <1>1, <1>2, FlowOf DEF Uploaded
<1>4. ASSUME NEW rebase, rebase.phase # "collecting",
             Becomes(t, [r EXCEPT !.rebase = rebase]), net' = net
      PROVE  FlowInv'
    <2> DEFINE q == [r EXCEPT !.rebase = rebase]
    <2>1. Idles(r, q) /\ q.sync = r.sync /\ q.rebase = rebase
        BY <1>1 DEF Idles, TabOver
    <2> HIDE DEF q
    <2>2. Mirrors(q, U')
        BY <1>1, <1>3, <2>1, IdlesMirrors
    <2>3. q.doc = r.doc /\ q.queue = r.queue
        BY <2>1 DEF Idles
    <2> QED
        BY <1>1, <1>3, <1>4, <2>1, <2>2, <2>3, SilentFlow DEF q
<1>5. CASE Becomes(t, Recover(r)) /\ net' = [net EXCEPT ![t] = NoSocket]
    BY <1>1, <1>2, <1>5, ResetIdles, IdlesMirrors, HandshakeToCome
<1>6. \/ Becomes(t, Recover(r)) /\ net' = [net EXCEPT ![t] = NoSocket]
      \/ \E rebase : /\ rebase.phase # "collecting" /\ net' = net
                     /\ Becomes(t, [r EXCEPT !.rebase = rebase])
    <2> DEFINE all == r.rebase.shadow \cup LocalOps(disk[Home[t]])
               writing == [phase |-> "persisting", shadow |-> {},
                           covered |-> disk[Home[t]].rows, base |-> r.pending,
                           delta |-> all \ r.rebase.shadow]
    <2>1. NoRebase.phase # "collecting" /\ writing.phase # "collecting"
        BY DEF NoRebase
    <2>2. \/ Becomes(t, [r EXCEPT !.rebase = NoRebase]) /\ net' = net
          \/ Becomes(t, Recover(r)) /\ net' = [net EXCEPT ![t] = NoSocket]
          \/ Becomes(t, [r EXCEPT !.rebase = writing]) /\ net' = net
        BY DEF ReadStores
    <2> HIDE DEF writing
    <2> QED
        BY <2>1, <2>2
<1> QED
    BY <1>4, <1>5, <1>6
-----------------------------------------------------------------------------
\* Steps that send or read a frame.
LEMMA StartSyncFlow == ASSUME IInv, FlowInv, Kept, NEW t \in Tab, StartSync(t) PROVE FlowInv'
<1> DEFINE r == tab[t]
           U == Uploaded(Home[t])
           q == [r EXCEPT !.sync = "asked"]
           d == net[t].down
           n == ServeStep1(d, Integrated(r.doc))
<1>1. /\ r \in TabOver(made) /\ Mirrors(r, U) /\ d \in Seq(Frame(content))
      /\ content \subseteq Op /\ r.rebase.phase = "off"
    BY StateTyped, FlowOf DEF StartSync
<1>2. /\ Becomes(t, q) /\ content' = content /\ disk' = disk /\ net' = [net EXCEPT ![t] = n]
    BY StateTyped DEF StartSync, server
<1>3. /\ content \ Integrated(r.doc) \subseteq Arriving(n.down)
      /\ Len(n.down) \in Questions(n.down) /\ n.subscribed
    BY <1>1, ServedGrows
<1>4. Idles(r, q) /\ q.doc = r.doc /\ q.rebase = r.rebase
    BY <1>1 DEF Idles, TabOver
<1> HIDE DEF n, q
<1>5. U' = U /\ \A b \in Browser : Numbered(disk'[b].rows)
    BY <1>2, FlowOf DEF Uploaded
<1>6. Mirrors(q, U')
    BY <1>1, <1>4, <1>5, IdlesMirrors
<1>7. Informed(q, n, content)
    BY <1>3, <1>4 DEF Informed, Integrated
<1>8. Uploads(q, n.down, U')
    BY <1>1, <1>3, <1>4 DEF Uploads, Asked
<1> QED
    BY <1>2, <1>5, <1>6, <1>7, <1>8, OwnFlowStep DEF Flow

LEMMA SendFlow == ASSUME IInv, FlowInv, Kept, NEW t \in Tab, Send(t) PROVE FlowInv'
<1> DEFINE r == tab[t]
           n == net[t]
           U == Uploaded(Home[t])
<1>1. PICK m \in Earliest(r.pending \ (r.flight \cup r.gaps)) :
         Becomes(t, [r EXCEPT !.flight = @ \cup {m}]) /\ ServeUpdate(t, m)
    BY DEF Send
<1> DEFINE u == m.ops
           q == [r EXCEPT !.flight = @ \cup {m}]
           verdict == Verdict(m \in settled, u)
           ack == [type |-> "ack", row |-> m]
           acked == [n EXCEPT !.subscribed = TRUE, !.down = Append(@, ack)]
           refused == [n EXCEPT !.down = Append(@, Resync(m, verdict))]
<1>2. /\ r \in TabOver(made) /\ Flow(r, n, content, U) /\ Mirrors(r, U) /\ m \in r.pending
      /\ n \in SocketOver(content) /\ n.down \in Seq(Frame(content)) /\ Home[t] \in Browser
      /\ net \in [Tab -> SocketOver(content)] /\ r.pending \in SUBSET RowsOver(made)
      /\ made \subseteq Op
    BY StateTyped, FlowOf DEF Earliest, TabOver
<1>3. Idles(r, q) /\ q.sync = r.sync /\ q.rebase = r.rebase /\ q.doc = r.doc /\ Becomes(t, q)
    BY <1>1, <1>2 DEF Idles, TabOver
<1>4. u \in SUBSET Op /\ u \subseteq r.doc
    BY <1>2 DEF RowsOver, Mirrors, OpsOf
<1>5. disk' = disk /\ \A b \in Browser : Numbered(disk'[b].rows)
    BY FlowOf DEF Send
<1> HIDE DEF q
<1>6. ASSUME NEW f
      PROVE  /\ Arriving(n.down) \subseteq Arriving(Append(n.down, f))
             /\ Asked(r, n.down) => Asked(r, Append(n.down, f))
    <2>1. Grown(n.down, Append(n.down, f))
        BY <1>2 DEF Grown
    <2> QED
        BY <2>1, GrownKeeps
<1>7. CASE verdict \in {"CAUSAL_GAP", "NO_NEW_INFORMATION"} /\ net' = Reply(t, Resync(m, verdict)) /\ UNCHANGED server
    <2>1. content' = content /\ net' = [net EXCEPT ![t] = refused]
        BY <1>2, <1>7 DEF Reply, server
    <2>2. refused.subscribed = n.subscribed /\ refused.down = Append(n.down, Resync(m, verdict))
        BY <1>2 DEF SocketOver
    <2>3. U \subseteq U'
        BY <1>2, <2>1, UploadedGrows
    <2> HIDE DEF refused, verdict
    <2>4. /\ Arriving(n.down) \subseteq Arriving(refused.down)
          /\ Asked(r, n.down) => Asked(r, refused.down)
        BY <1>6, <2>2
    <2>5. Flow(q, refused, content, U')
        BY <1>2, <1>3, <2>2, <2>3, <2>4, IdlesFlow
    <2> QED
        BY <1>3, <1>5, <2>1, <2>5, OwnFlowStep
<1>8. CASE content' = content \cup u /\ net' = Broadcast(t, u, acked)
    <2>1. net'[t] = acked /\ acked.subscribed /\ acked.down = Append(n.down, ack)
        BY <1>2, <1>8 DEF SocketOver, Broadcast
    <2>2. U \subseteq U'
        BY <1>2, <1>8, UploadedGrows
    <2> HIDE DEF acked, ack, u
    <2>3. Arriving(n.down) \subseteq Arriving(acked.down) /\ (Asked(r, n.down) => Asked(r, acked.down))
        BY <1>6, <2>1
    <2>4. Mirrors(q, U')
        BY <1>2, <1>3, <2>2, IdlesMirrors
    <2>5. Informed(q, acked, content')
        BY <1>2, <1>3, <1>4, <1>8, <2>1, <2>3, InformedKept DEF Flow
    <2>6. Uploads(q, acked.down, U')
        BY <1>2, <1>3, <2>2, <2>3, UploadsKept DEF Flow, Idles
    <2>7. Flow(q, net'[t], content', U')
        BY <2>1, <2>4, <2>5, <2>6 DEF Flow
    <2>8. \A p \in Tab \ {t} : net'[p] = Broadcast(t, u, acked)[p]
        BY <1>8
    <2> QED
        BY <1>3, <1>4, <1>5, <1>8, <2>7, <2>8, FlowStep
<1>9. \/ verdict \in {"CAUSAL_GAP", "NO_NEW_INFORMATION"} /\ net' = Reply(t, Resync(m, verdict)) /\ UNCHANGED server
      \/ content' = content \cup u /\ net' = Broadcast(t, u, acked)
    BY <1>1, Zenon DEF ServeUpdate, Answered
<1> QED
    BY <1>7, <1>8, <1>9

\* A frame that is no question and brings nothing may be dropped.
LEMMA IdleReceive ==
    ASSUME IInv, FlowInv, Kept, NEW t \in Tab, net[t].down # <<>>,
           ~IsQuestion(Head(net[t].down)), ~BringsOps(Head(net[t].down)), Consumes(t),
           NEW q, Becomes(t, q), Idles(tab[t], q), q.sync = tab[t].sync,
           q.rebase.phase = "collecting" => tab[t].rebase.phase = "collecting",
           content' = content, \A b \in Browser : Numbered(disk'[b].rows)
    PROVE  FlowInv'
<1> DEFINE d == net[t].down
           n == [net[t] EXCEPT !.down = Tail(@)]
           U == Uploaded(Home[t])
<1>1. /\ Flow(tab[t], net[t], content, U) /\ d \in Seq(Frame(content)) /\ U \subseteq U'
      /\ net[t] \in SocketOver(content) /\ net' = [net EXCEPT ![t] = n]
    BY StateTyped, FlowOf, UploadedGrows DEF Consumes
<1>2. n.down = Tail(d) /\ n.subscribed = net[t].subscribed
    BY <1>1 DEF SocketOver
<1> HIDE DEF n
<1>3. Arriving(d) \subseteq Arriving(n.down)
    BY <1>1, <1>2, TailArriving
<1>4. Asked(tab[t], d) => Asked(tab[t], n.down)
    BY <1>1, <1>2, TailAsked
<1>5. Flow(q, n, content, U')
    BY <1>1, <1>2, <1>3, <1>4, IdlesFlow
<1> QED
    BY <1>1, <1>5, OwnFlowStep

LEMMA ReceiveAckFlow == ASSUME IInv, FlowInv, Kept, NEW t \in Tab, ReceiveAck(t) PROVE FlowInv'
<1> DEFINE f == Head(net[t].down)
           m == f.row
           old == tab[t]
           r == [old EXCEPT !.pending = @ \ {m}, !.flight = @ \ {m}]
<1>1. /\ net[t].down # <<>> /\ f.type = "ack" /\ Consumes(t) /\ content' = content
    BY DEF ReceiveAck, Receives, server
<1>2. ~IsQuestion(f) /\ ~BringsOps(f)
    BY <1>1 DEF IsQuestion, BringsOps
<1>3. old \in TabOver(made) /\ disk \in [Browser -> DiskOver(made)] /\ Home[t] \in Browser
    BY StateTyped
<1>4. CASE UNCHANGED <<tab, disk>>
    <2>1. Becomes(t, old)
        BY <1>4 DEF Becomes, IInv, Typed
    <2>2. Idles(old, old)
        BY DEF Idles
    <2>3. \A b \in Browser : Numbered(disk'[b].rows)
        BY <1>4, FlowOf
    <2> QED
        BY <1>1, <1>2, <2>1, <2>2, <2>3, IdleReceive
<1>5. CASE disk' = [disk EXCEPT ![Home[t]].rows = @ \ {m}] /\ Becomes(t, RetryGaps(r))
    <2>1. Idles(old, r) /\ r.sync = old.sync /\ r.rebase = old.rebase /\ r \in TabOver(made)
        BY <1>3 DEF Idles, TabOver
    <2> HIDE DEF r
    <2>2. /\ Idles(old, RetryGaps(r)) /\ RetryGaps(r).sync = old.sync
          /\ RetryGaps(r).rebase = old.rebase
        BY <2>1 DEF RetryGaps, Idles, TabOver
    <2>3. \A b \in Browser : disk'[b].rows \subseteq disk[b].rows
        BY <1>3, <1>5 DEF DiskOver
    <2>4. \A b \in Browser : Numbered(disk'[b].rows)
        BY <2>3, FlowOf DEF Numbered
    <2> QED
        BY <1>1, <1>2, <1>5, <2>2, <2>4, IdleReceive
<1> QED
    BY <1>4, <1>5 DEF ReceiveAck

LEMMA ReceiveOpsFlow == ASSUME IInv, FlowInv, Kept, NEW t \in Tab, ReceiveOps(t) PROVE FlowInv'
<1> DEFINE f == Head(net[t].down)
           ops == f.ops
           old == tab[t]
           U == Uploaded(Home[t])
           d == net[t].down
           r == Apply(old, ops, {})
           new == Integrated(r.doc) \ Integrated(old.doc)
           seen == IF old.rebase.phase \in {"collecting", "preparing"}
                   THEN [r EXCEPT !.rebase.shadow = @ \cup ops] ELSE r
           written == [seen EXCEPT !.unlogged = <<>>]
           n == [net[t] EXCEPT !.down = Tail(@)]
<1>1. /\ d # <<>> /\ f.type \in {"step2", "update"}
      /\ \/ Becomes(t, written) /\ disk' = [disk EXCEPT ![Home[t]].log = @ \cup new]
         \/ Becomes(t, seen) /\ disk' = disk
      /\ Consumes(t) /\ content' = content
    BY DEF ReceiveOps, Receives, server
<1>2. /\ old \in TabOver(made) /\ Flow(old, net[t], content, U) /\ Mirrors(old, U)
      /\ d \in Seq(Frame(content)) /\ net[t] \in SocketOver(content) /\ U \subseteq U'
      /\ disk \in [Browser -> DiskOver(made)] /\ Home[t] \in Browser
    BY <1>1, StateTyped, FlowOf, UploadedGrows
<1>3. ops \in SUBSET content /\ ops \in SUBSET made
    <2>1. f \in Frame(content)
        BY <1>1, HeadTyped
    <2> HIDE DEF f
    <2> QED
        BY <1>1, <2>1, FrameOfType, StateTyped
<1>4. ~IsQuestion(f)
    BY <1>1 DEF IsQuestion
<1>5. /\ Arriving(d) \subseteq ops \cup Arriving(Tail(d))
      /\ Asked(old, d) => Asked(old, Tail(d))
    BY <1>1, <1>2, <1>4, TailArriving, TailAsked
<1> HIDE DEF f, ops
<1>6. r \in TabOver(made) /\ Brings(old, r, ops)
    BY <1>2, <1>3, ApplyTyped, ApplyAdds
<1>7. \A b \in Browser : disk'[b].rows = disk[b].rows
    BY <1>1, <1>2 DEF DiskOver
<1> HIDE DEF r, new
<1>8. /\ seen.doc = old.doc \cup ops /\ seen.queue = old.queue /\ seen.pending = old.pending
      /\ seen.pass = old.pass /\ seen.sync = old.sync /\ seen.rebase.phase = old.rebase.phase
      /\ written.doc = old.doc \cup ops /\ written.queue = old.queue
      /\ written.pending = old.pending /\ written.pass = old.pass
      /\ written.sync = old.sync /\ written.rebase.phase = old.rebase.phase
    BY <1>6 DEF Brings, TabOver, Rebase
<1> HIDE DEF seen, written
<1>9. PICK q : /\ Becomes(t, q) /\ q.doc = old.doc \cup ops /\ q.queue = old.queue
               /\ q.pending = old.pending /\ q.pass = old.pass /\ q.sync = old.sync
               /\ q.rebase.phase = old.rebase.phase
    BY <1>1, <1>8
<1>10. n.down = Tail(d) /\ n.subscribed = net[t].subscribed /\ net' = [net EXCEPT ![t] = n]
    BY <1>1, <1>2 DEF SocketOver, Consumes
<1> HIDE DEF n
<1>11. Mirrors(q, U')
    BY <1>2, <1>9 DEF Mirrors
<1>12. Informed(q, n, content)
    BY <1>2, <1>5, <1>9, <1>10, InformedKept DEF Flow
<1>13. Uploads(q, n.down, U')
    <2>1. old.doc \subseteq U \cup ToSet(old.queue) => q.doc \subseteq U' \cup ToSet(q.queue)
        BY <1>1, <1>2, <1>3, <1>9 DEF Uploaded
    <2> QED
        BY <1>2, <1>5, <1>9, <1>10, <2>1, UploadsKept DEF Flow
<1>14. \A b \in Browser : Numbered(disk'[b].rows)
    BY <1>7, FlowOf
<1> QED
    BY <1>1, <1>9, <1>10, <1>11, <1>12, <1>13, <1>14, OwnFlowStep DEF Flow

\* The replay takes one question: a second is left.
LEMMA ReplayEndsFlow == ASSUME IInv, FlowInv, Kept, NEW t \in Tab, ReplayEnds(t) PROVE FlowInv'
<1> DEFINE r == tab[t]
           U == Uploaded(Home[t])
           d == net[t].down
           q == [r EXCEPT !.rebase.phase = "preparing"]
           n == [net[t] EXCEPT !.down = Tail(@)]
<1>1. /\ r \in TabOver(made) /\ Mirrors(r, U) /\ Flow(r, net[t], content, U)
      /\ d \in Seq(Frame(content)) /\ net[t] \in SocketOver(content)
    BY StateTyped, FlowOf
<1>2. /\ d # <<>> /\ Head(d).type = "step1" /\ r.rebase.phase = "collecting"
      /\ content' = content /\ disk' = disk
    BY DEF ReplayEnds, Receives, server
<1>3. U' = U /\ \A b \in Browser : Numbered(disk'[b].rows)
    BY <1>2, FlowOf DEF Uploaded
<1>4. CASE Becomes(t, q) /\ Consumes(t)
    <2>1. Idles(r, q) /\ q.sync = r.sync /\ q.doc = r.doc /\ q.queue = r.queue /\ q.rebase.phase = "preparing"
        BY <1>1 DEF Idles, TabOver, Rebase
    <2>2. n.down = Tail(d) /\ n.subscribed = net[t].subscribed /\ net' = [net EXCEPT ![t] = n]
        BY <1>1, <1>4 DEF SocketOver, Consumes
    <2> HIDE DEF q, n
    <2>3. Arriving(d) \subseteq Arriving(Tail(d))
        <3>1. ~BringsOps(Head(d))
            BY <1>2 DEF BringsOps
        <3> QED
            BY <1>1, <1>2, <3>1, TailArriving
    <2>4. Mirrors(q, U')
        BY <1>1, <1>3, <2>1, IdlesMirrors
    <2>5. Informed(q, n, content)
        BY <1>1, <2>1, <2>2, <2>3, InformedKept DEF Flow
    <2>6. ASSUME Asked(r, d)
          PROVE  Asked(q, Tail(d))
        <3>1. PICK i \in Questions(d) : \E j \in Questions(d) : j < i
            BY <1>2, <2>6 DEF Asked
        <3>2. i # 1
            BY <1>1, <3>1 DEF Questions
        <3>3. i - 1 \in Questions(Tail(d))
            BY <1>1, <1>2, <3>2, TailQuestions
        <3> QED
            BY <2>1, <3>3 DEF Asked
    <2>7. Uploads(q, n.down, U')
        BY <1>1, <1>3, <2>1, <2>2, <2>6 DEF Flow, Uploads
    <2> QED
        BY <1>2, <1>3, <1>4, <2>2, <2>4, <2>5, <2>7, OwnFlowStep DEF Flow
<1>5. CASE Becomes(t, ResetConnection(r)) /\ net' = [net EXCEPT ![t] = NoSocket]
    BY <1>1, <1>2, <1>5, ResetIdles, IdlesMirrors, HandshakeToCome
<1> QED
    BY <1>4, <1>5 DEF ReplayEnds

\* The answer uploads what the server lacks, or asks again.
LEMMA AnswerStep1Flow == ASSUME IInv, FlowInv, Kept, NEW t \in Tab, AnswerStep1(t) PROVE FlowInv'
<1> DEFINE r == tab[t]
           U == Uploaded(Home[t])
           d == net[t].down
           vector == Head(d).vector
           missing == r.doc \ vector
           answered == [r EXCEPT !.sync = Complete(@)]
           consumed == [net[t] EXCEPT !.down = Tail(@)]
           own == [net[t] EXCEPT !.down = Tail(d), !.awaiting = FALSE]
           again == Resync(NoRow, "CAUSAL_GAP")
           asking == [own EXCEPT !.down = Append(@, again)]
<1>1. /\ r \in TabOver(made) /\ Mirrors(r, U) /\ Flow(r, net[t], content, U)
      /\ d \in Seq(Frame(content)) /\ net[t] \in SocketOver(content)
      /\ net \in [Tab -> SocketOver(content)] /\ made \subseteq Op /\ Home[t] \in Browser
    BY StateTyped, FlowOf
<1>2. d # <<>> /\ Head(d).type = "step1" /\ r.rebase.phase # "collecting" /\ disk' = disk
    BY DEF AnswerStep1, Receives
<1>3. \A b \in Browser : Numbered(disk'[b].rows)
    BY <1>2, FlowOf
<1>4. vector \subseteq content /\ ~BringsOps(Head(d))
    <2>1. Head(d) \in Frame(content)
        BY <1>1, <1>2
    <2> QED
        BY <1>2, <2>1, FrameOfType DEF BringsOps
<1>5. Arriving(d) \subseteq Arriving(Tail(d))
    BY <1>1, <1>2, <1>4, TailArriving
<1>6. /\ Idles(r, answered) /\ answered.sync = Complete(r.sync) /\ answered.doc = r.doc
      /\ answered.rebase = r.rebase
    BY <1>1 DEF Idles, TabOver
<1> HIDE DEF answered, vector
<1>7. answered.sync \in {"asked", "again", "done"} => r.sync \in {"asked", "again", "done"}
    BY <1>6 DEF Complete
\* Whatever it answers, the tab is as well informed as before.
<1>8. ASSUME NEW n, NEW c, NEW V, Arriving(Tail(d)) \subseteq Arriving(n.down),
             net[t].subscribed => n.subscribed, c \subseteq content \cup r.doc, U \subseteq V,
             r.doc \subseteq V \/ Asked(answered, n.down)
      PROVE  Flow(answered, n, c, V)
    <2>1. Mirrors(answered, V)
        BY <1>1, <1>6, <1>8, IdlesMirrors
    <2>2. Informed(answered, n, c)
        BY <1>1, <1>5, <1>6, <1>7, <1>8 DEF Flow, Informed
    <2>3. Uploads(answered, n.down, V)
        BY <1>6, <1>8 DEF Uploads
    <2> QED
        BY <2>1, <2>2, <2>3 DEF Flow
<1>9. CASE /\ Becomes(t, answered) /\ content' = content /\ missing \subseteq content
           /\ net' = [net EXCEPT ![t] = consumed] \/ net' = [net EXCEPT ![t] = own]
    <2>1. /\ consumed.down = Tail(d) /\ consumed.subscribed = net[t].subscribed
          /\ own.down = Tail(d) /\ own.subscribed = net[t].subscribed
        BY <1>1 DEF SocketOver
    <2>2. U \subseteq U' /\ r.doc \subseteq U'
        BY <1>1, <1>4, <1>9, UploadedGrows DEF Uploaded
    <2> HIDE DEF consumed, own
    <2>3. Flow(answered, consumed, content, U') /\ Flow(answered, own, content, U')
        BY <1>8, <2>1, <2>2
    <2> QED
        BY <1>3, <1>9, <2>3, OwnFlowStep
<1>10. CASE Becomes(t, answered) /\ content' = content \cup missing /\ net' = Broadcast(t, missing, own)
    <2>1. own.down = Tail(d) /\ own.subscribed = net[t].subscribed
        BY <1>1 DEF SocketOver
    <2>2. U \subseteq U' /\ r.doc \subseteq U' /\ missing \in SUBSET Op
        BY <1>1, <1>4, <1>10, UploadedGrows DEF Uploaded, TabOver
    <2>3. content' \subseteq content \cup r.doc
        BY <1>10
    <2>4. net'[t] = own /\ \A p \in Tab \ {t} : net'[p] = Broadcast(t, missing, own)[p]
        BY <1>10 DEF Broadcast
    <2> HIDE DEF own, missing
    <2>5. Flow(answered, own, content', U')
        BY <1>8, <2>1, <2>2, <2>3
    <2> QED
        BY <1>3, <1>10, <2>2, <2>4, <2>5, FlowStep
<1>11. CASE Becomes(t, answered) /\ content' = content /\ net' = [net EXCEPT ![t] = asking]
    <2>1. asking.down = Append(Tail(d), again) /\ asking.subscribed = net[t].subscribed
        BY <1>1 DEF SocketOver
    <2>2. U \subseteq U'
        BY <1>1, <1>11, UploadedGrows
    <2>3. IsQuestion(again)
        BY DEF IsQuestion, Resync
    <2>4. Tail(d) \in Seq(Frame(content)) /\ Len(Tail(d)) \in Nat
        BY <1>1, <1>2
    <2> HIDE DEF asking, again
    <2>5. /\ Grown(Tail(d), asking.down)
          /\ Len(Tail(d)) + 1 \in DOMAIN asking.down /\ asking.down[Len(Tail(d)) + 1] = again
        <3> DEFINE rest == Tail(d)
        <3> HIDE DEF rest
        <3> DEFINE S == Frame(content) \cup {again}
        <3>1. rest \in Seq(S) /\ again \in S
            BY <2>4 DEF rest
        <3> HIDE DEF S
        <3>2. /\ Grown(rest, Append(rest, again))
              /\ Len(rest) + 1 \in DOMAIN Append(rest, again)
              /\ Append(rest, again)[Len(rest) + 1] = again
            BY <3>1, AppendGrows
        <3> QED
            BY <2>1, <3>2 DEF rest
    <2>6. Asked(answered, asking.down)
        BY <1>2, <1>6, <2>3, <2>5 DEF Asked, Questions
    <2>7. Arriving(Tail(d)) \subseteq Arriving(asking.down)
        BY <2>5, GrownKeeps
    <2>8. Flow(answered, asking, content, U')
        BY <1>8, <2>1, <2>2, <2>6, <2>7
    <2> QED
        BY <1>3, <1>11, <2>8, OwnFlowStep
<1>12. CASE Becomes(t, ResetConnection(r)) /\ net' = [net EXCEPT ![t] = NoSocket] /\ content' = content
    BY <1>1, <1>2, <1>12, ResetIdles, IdlesMirrors, HandshakeToCome
<1>13. CASE Becomes(t, answered) /\ ServeStep2(t, Tail(d), missing)
    <2>1. Verdict(FALSE, missing) = "NO_NEW_INFORMATION" => missing \subseteq content
        BY DEF Verdict
    <2>2. \/ content' = content \cup missing /\ net' = Broadcast(t, missing, own)
          \/ Verdict(FALSE, missing) = "NO_NEW_INFORMATION" /\ content' = content /\ net' = [net EXCEPT ![t] = own]
          \/ content' = content /\ net' = [net EXCEPT ![t] = asking]
        BY <1>13 DEF ServeStep2
    <2> QED
        BY <1>9, <1>10, <1>11, <1>13, <2>1, <2>2
<1>14. \/ Becomes(t, answered) /\ content' = content /\ missing = {} /\ net' = [net EXCEPT ![t] = consumed]
       \/ Becomes(t, answered) /\ ServeStep2(t, Tail(d), missing)
       \/ Becomes(t, ResetConnection(r)) /\ net' = [net EXCEPT ![t] = NoSocket] /\ content' = content
    BY DEF AnswerStep1, Consumes, server, answered, vector
<1> QED
    BY <1>9, <1>12, <1>13, <1>14

\* The server answers a question with all that is missing and its own question.
LEMMA AskedAgain ==
    ASSUME NEW d \in Seq(Frame(content)), d # <<>>, ~BringsOps(Head(d)),
           content \subseteq Op, NEW vector
    PROVE  LET e == ServeStep1(Tail(d), vector).down
           IN  /\ Arriving(d) \subseteq Arriving(e)
               /\ content \ vector \subseteq Arriving(e)
               /\ \A r : Asked(r, d) => Asked(r, e)
               /\ \A r, q : Asked(r, d) /\ ~IsQuestion(Head(d)) => Asked(q, e)
<1> DEFINE rest == Tail(d)
           e == ServeStep1(rest, vector).down
           last == Len(e)
<1>1. rest \in Seq(Frame(content))
    OBVIOUS
<1> HIDE DEF rest
<1>2. /\ Grown(rest, e) /\ content \ vector \subseteq Arriving(e)
      /\ last \in Questions(e) /\ \A i \in DOMAIN rest : i < last
    BY <1>1, ServedGrows
<1> HIDE DEF e, last
<1>3. Questions(rest) \subseteq Questions(e) /\ Arriving(rest) \subseteq Arriving(e)
    BY <1>2, GrownKeeps
<1>4. Arriving(d) \subseteq Arriving(e)
    BY <1>3, TailArriving DEF rest
<1>5. ASSUME NEW r, Asked(r, d)
      PROVE  Asked(r, e)
    <2>1. PICK i \in Questions(d) :
             r.rebase.phase = "collecting" => \E j \in Questions(d) : j < i
        BY <1>5 DEF Asked
    <2>2. ASSUME r.rebase.phase = "collecting"
          PROVE  \E j \in Questions(e) : j < last
        <3>1. i # 1
            BY <2>1, <2>2 DEF Questions
        <3>2. i - 1 \in Questions(rest)
            BY <2>1, <3>1, TailQuestions DEF rest
        <3> QED
            BY <1>2, <1>3, <3>2 DEF Questions
    <2> QED
        BY <1>2, <2>2 DEF Asked
<1>6. ASSUME NEW r, NEW q, Asked(r, d), ~IsQuestion(Head(d))
      PROVE  Asked(q, e)
    <2>1. PICK i \in Questions(rest) : TRUE
        BY <1>6, TailAsked DEF Asked, rest
    <2>2. i \in Questions(e) /\ i < last
        BY <1>2, <1>3, <2>1 DEF Questions
    <2> QED
        BY <1>2, <2>2 DEF Asked
<1> QED
    BY <1>2, <1>4, <1>5, <1>6 DEF e, rest

LEMMA ReceiveResyncFlow == ASSUME IInv, FlowInv, Kept, NEW t \in Tab, ReceiveResync(t) PROVE FlowInv'
<1> DEFINE r == tab[t]
           U == Uploaded(Home[t])
           d == net[t].down
           f == Head(d)
           m == f.row
           freed == IF f.reason = "CAUSAL_GAP" THEN [r EXCEPT !.flight = @ \ {m}] ELSE r
           rebasing == [freed EXCEPT !.flight = {},
                                     !.rebase = [NoRebase EXCEPT !.phase = "collecting"]]
           n(vector) == ServeStep1(Tail(d), vector)
<1>1. /\ r \in TabOver(made) /\ Mirrors(r, U) /\ Flow(r, net[t], content, U)
      /\ d \in Seq(Frame(content)) /\ content \subseteq Op
    BY StateTyped, FlowOf
<1>2. d # <<>> /\ f.type = "resync" /\ content' = content /\ disk' = disk
    BY DEF ReceiveResync, Receives, server
<1>3. U' = U /\ \A b \in Browser : Numbered(disk'[b].rows)
    BY <1>2, FlowOf DEF Uploaded
<1>4. ~BringsOps(f)
    BY <1>2 DEF BringsOps
\* A row of the outbox has a number: the frame is no question.
<1>5. m \in r.pending => ~IsQuestion(f)
    <2>1. NoRow.order = 0
        BY DEF NoRow, Row
    <2> QED
        BY <1>1, <1>2, <2>1 DEF IsQuestion, Mirrors, Numbered
<1>6. ASSUME NEW vector
      PROVE  /\ Arriving(d) \subseteq Arriving(n(vector).down)
             /\ content \ vector \subseteq Arriving(n(vector).down)
             /\ n(vector).subscribed
             /\ Asked(r, d) => Asked(r, n(vector).down)
             /\ Asked(r, d) /\ ~IsQuestion(f) => \A q : Asked(q, n(vector).down)
    <2>1. n(vector).subscribed
        BY DEF ServeStep1, Socket
    <2> QED
        BY <1>1, <1>2, <1>4, <2>1, AskedAgain
<1> HIDE DEF f, n
<1>7. /\ freed \in TabOver(made) /\ Idles(r, freed) /\ freed.sync = r.sync
      /\ freed.rebase = r.rebase
    BY <1>1 DEF Idles, TabOver
<1> HIDE DEF freed
<1>8. CASE m \in r.pending /\ Consumes(t) /\ (Becomes(t, freed) \/ Becomes(t, [freed EXCEPT !.gaps = @ \cup {m}]))
    <2> DEFINE waiting == [freed EXCEPT !.gaps = @ \cup {m}]
    <2>1. Idles(r, waiting) /\ waiting.sync = r.sync /\ waiting.rebase = r.rebase
        BY <1>7 DEF Idles, TabOver
    <2> HIDE DEF waiting
    <2>2. ~IsQuestion(Head(d)) /\ ~BringsOps(Head(d))
        BY <1>4, <1>5, <1>8 DEF f
    <2> QED
        BY <1>2, <1>3, <1>7, <1>8, <2>1, <2>2, IdleReceive DEF waiting
<1>9. CASE m \in r.pending /\ Becomes(t, rebasing) /\ net' = [net EXCEPT ![t] = n({})]
    <2> DEFINE e == n({})
    <2>1. /\ Idles(r, rebasing) /\ rebasing.sync = r.sync
          /\ rebasing.doc = r.doc /\ rebasing.queue = r.queue
        BY <1>7 DEF Idles, TabOver
    <2> HIDE DEF rebasing
    <2>2. /\ Arriving(d) \subseteq Arriving(e.down) /\ e.subscribed
          /\ Asked(r, d) => Asked(rebasing, e.down)
        BY <1>5, <1>6, <1>9
    <2> HIDE DEF e
    <2>3. Mirrors(rebasing, U')
        BY <1>1, <1>3, <2>1, IdlesMirrors
    <2>4. Informed(rebasing, e, content)
        BY <1>1, <2>1, <2>2, InformedKept DEF Flow
    <2>5. Uploads(rebasing, e.down, U')
        BY <1>1, <1>3, <2>1, <2>2 DEF Flow, Uploads
    <2> QED
        BY <1>2, <1>3, <1>9, <2>3, <2>4, <2>5, OwnFlowStep DEF Flow, e
<1>10. CASE UNCHANGED tab /\ net' = [net EXCEPT ![t] = n(Integrated(r.doc))]
    <2> DEFINE e == n(Integrated(r.doc))
    <2>1. Becomes(t, r)
        BY <1>10 DEF Becomes, IInv, Typed
    <2>2. /\ content \ Integrated(r.doc) \subseteq Arriving(e.down) /\ e.subscribed
          /\ Asked(r, d) => Asked(r, e.down)
        BY <1>6
    <2> HIDE DEF e
    <2>3. Informed(r, e, content)
        BY <2>2 DEF Informed, Integrated
    <2>4. Uploads(r, e.down, U')
        BY <1>1, <1>3, <2>2 DEF Flow, Uploads
    <2> QED
        BY <1>1, <1>2, <1>3, <1>10, <2>1, <2>3, <2>4, OwnFlowStep DEF Flow, e
<1>11. \/ m \in r.pending /\ Consumes(t) /\ Becomes(t, freed)
       \/ m \in r.pending /\ Consumes(t) /\ Becomes(t, [freed EXCEPT !.gaps = @ \cup {m}])
       \/ m \in r.pending /\ Becomes(t, rebasing) /\ net' = [net EXCEPT ![t] = n({})]
       \/ UNCHANGED tab /\ net' = [net EXCEPT ![t] = n(Integrated(r.doc))]
    <2>1. StartRebase(t, freed) =>
             \/ Becomes(t, freed) /\ Consumes(t)
             \/ Becomes(t, rebasing) /\ net' = [net EXCEPT ![t] = n({})]
        BY StateTyped DEF StartRebase, n
    <2> HIDE DEF rebasing
    <2>2. \/ m \in r.pending /\ StartRebase(t, freed)
          \/ m \in r.pending /\ Consumes(t) /\ Becomes(t, [freed EXCEPT !.gaps = @ \cup {m}])
          \/ UNCHANGED tab /\ net' = [net EXCEPT ![t] = n(Integrated(r.doc))]
        BY StateTyped DEF ReceiveResync, f, freed, n
    <2> QED
        BY <2>1, <2>2
<1> QED
    BY <1>8, <1>9, <1>10, <1>11
-----------------------------------------------------------------------------
LEMMA FlowInductive == IInv /\ FlowInv /\ [Next]_vars => FlowInv'
<1> SUFFICES ASSUME IInv, FlowInv, [Next]_vars PROVE FlowInv'
    OBVIOUS
<1>1. Kept
    BY StepKeeps
<1>2. CASE UNCHANGED vars
    <2>1. content' = content /\ disk' = disk /\ tab' = tab /\ net' = net
        BY <1>2 DEF vars, server
    <2> QED
        BY <2>1 DEF FlowInv, Flow, Mirrors, Informed, Uploads, Arriving, BringsOps, Asked,
           Questions, IsQuestion, NoRow, Row, Numbered, Uploaded, OpsOf
<1>3. ASSUME NEW t \in Tab, TabStep(t)
      PROVE  FlowInv'
    BY <1>1, <1>3, OpenFlow, ClosedFlow, StoredFlow, EnqueueFlow, ReconcileFlow, SendFlow,
       StartSyncFlow, ReceiveOpsFlow, ReplayEndsFlow, AnswerStep1Flow, ReceiveAckFlow,
       ReceiveResyncFlow, ReadStoresFlow, RewriteOutboxFlow DEF TabStep
<1>4. ASSUME NEW t \in Tab, Environment(t)
      PROVE  FlowInv'
    BY <1>1, <1>4, ClosedFlow, StoredFlow, EditFlow DEF Environment
<1> QED
    BY <1>2, <1>3, <1>4 DEF Next

LEMMA FlowConverges == IInv /\ FlowInv => Converged
<1> SUFFICES ASSUME IInv, FlowInv, NEW t \in Tab, Quiet(t) PROVE tab[t].doc = content
    BY DEF Converged
<1> DEFINE r == tab[t]
<1>1. /\ Informed(r, net[t], content) /\ Uploads(r, net[t].down, Uploaded(Home[t]))
    BY FlowOf DEF Flow
<1>2. /\ r.sync = "done" /\ r.queue = <<>> /\ net[t].down = <<>>
      /\ disk[Home[t]].rows = {}
    BY DEF Quiet, Idle, Behind
<1>3. Arriving(<<>>) = {} /\ ~Asked(r, <<>>) /\ ToSet(<<>>) = {}
    BY DEF Arriving, Asked, Questions, ToSet
<1>4. Uploaded(Home[t]) = content
    BY <1>2 DEF Uploaded, OpsOf
<1>5. content \subseteq r.doc
    BY <1>1, <1>2, <1>3 DEF Informed
<1>6. r.doc \subseteq content
    BY <1>1, <1>2, <1>3, <1>4 DEF Uploads
<1> QED
    BY <1>5, <1>6

\* A tab that has nothing left to send, write or read, and whose handshake is
\* over, shows exactly what the server stores, whatever its peers are doing and
\* whatever was acknowledged, refused, rebased or lost before
\* (maybeStartInitialSync, requestOutboxReconciliation and respondToSyncStep1 in
\* networkProvider.ts, handleSyncStep1 in sync-transport.ts).
THEOREM TabsConverge == Spec => []Converged
BY InitFlow, FlowInductive, FlowConverges, Invariance, PTL DEF Spec

-----------------------------------------------------------------------------
\* A row is in flight as long as its answer is under way, in this model at the
\* tab's end of the socket: the server has answered every row it was sent.
AnswerTo(f, m) == f.type \in {"ack", "resync"} /\ f.row = m
Awaited(r, down) ==
    /\ r.ready \/ r.flight = {}
    /\ \A m \in r.flight : \E i \in DOMAIN down : AnswerTo(down[i], m)
FlightIsAnswered == \A t \in Tab : Awaited(tab[t], net[t].down)

\* The row in flight may change hands, and what is in flight become less.
Releases(r, q) == q.flight = {} \/ (q.flight \subseteq r.flight /\ q.ready = r.ready)

LEMMA ReleasesAwaited ==
    ASSUME NEW r, NEW q, Releases(r, q), NEW d, NEW e, Grown(d, e), Awaited(r, d)
    PROVE  Awaited(q, e)
BY DEF Releases, Awaited, Grown

\* A frame is taken from the front: what it does not answer is answered behind it.
LEMMA TailAwaited ==
    ASSUME NEW S, NEW d \in Seq(S), d # <<>>, NEW r, NEW q, Releases(r, q), Awaited(r, d),
           \A m \in q.flight : ~AnswerTo(Head(d), m)
    PROVE  Awaited(q, Tail(d))
<1>1. ASSUME NEW m \in q.flight
      PROVE  \E i \in DOMAIN Tail(d) : AnswerTo(Tail(d)[i], m)
    <2>1. PICK i \in DOMAIN d : AnswerTo(d[i], m)
        BY <1>1 DEF Releases, Awaited
    <2>2. i # 1
        BY <1>1, <2>1, TailShifts
    <2> QED
        BY <2>1, <2>2, TailShifts
<1> QED
    BY <1>1 DEF Releases, Awaited

\* What one tab's step has to show: other tabs' queues only grow.
LEMMA AwaitedStep ==
    ASSUME IInv, FlightIsAnswered, NEW t \in Tab, NEW q, Becomes(t, q),
           \A p \in Tab \ {t} : Grown(net[p].down, net'[p].down),
           Awaited(q, net'[t].down)
    PROVE  FlightIsAnswered'
<1>1. \A p \in Tab : tab'[p] = IF p = t THEN q ELSE tab[p]
    BY DEF Becomes, IInv, Typed
<1>2. ASSUME NEW p \in Tab
      PROVE  Awaited(tab'[p], net'[p].down)
    <2>1. CASE p = t
        BY <1>1, <2>1
    <2>2. CASE p # t
        <3>1. tab'[p] = tab[p] /\ Releases(tab[p], tab[p])
            BY <1>1, <2>2 DEF Releases
        <3> QED
            BY <2>2, <3>1, ReleasesAwaited DEF FlightIsAnswered
    <2> QED
        BY <2>1, <2>2
<1> QED
    BY <1>2 DEF FlightIsAnswered, Awaited, AnswerTo

LEMMA BroadcastGrows ==
    ASSUME IInv, NEW t \in Tab, NEW u, NEW own, net' = Broadcast(t, u, own)
    PROVE  net'[t] = own /\ \A p \in Tab \ {t} : Grown(net[p].down, net'[p].down)
<1>1. net'[t] = own
    BY DEF Broadcast
<1>2. ASSUME NEW p \in Tab \ {t}
      PROVE  Grown(net[p].down, net'[p].down)
    <2> DEFINE told == [net[p] EXCEPT !.down = Append(@, [type |-> "update", ops |-> u])]
    <2>1. net[p] \in SocketOver(content) /\ net[p].down \in Seq(Frame(content))
        BY StateTyped DEF SocketOver
    <2>2. told.down = Append(net[p].down, [type |-> "update", ops |-> u])
        BY <2>1 DEF SocketOver
    <2>3. Grown(net[p].down, told.down) /\ Grown(net[p].down, net[p].down)
        BY <2>1, <2>2 DEF Grown
    <2>4. net'[p] \in {net[p], told}
        BY <1>2 DEF Broadcast
    <2> QED
        BY <2>3, <2>4
<1> QED
    BY <1>1, <1>2

\* A step that touches at most the tab's own socket.
LEMMA OwnAwaitedStep ==
    ASSUME IInv, FlightIsAnswered, NEW t \in Tab, NEW q, Becomes(t, q),
           NEW n, net' = [net EXCEPT ![t] = n], Awaited(q, n.down)
    PROVE  FlightIsAnswered'
<1>1. net'[t] = n /\ \A p \in Tab \ {t} : Grown(net[p].down, net'[p].down)
    BY StateTyped DEF Grown
<1> QED
    BY <1>1, AwaitedStep

LEMMA LocalAwaitedStep ==
    ASSUME IInv, FlightIsAnswered, NEW t \in Tab, NEW q, Becomes(t, q), net' = net,
           Releases(tab[t], q)
    PROVE  FlightIsAnswered'
<1>1. \A p \in Tab : Grown(net[p].down, net'[p].down)
    BY DEF Grown
<1>2. Awaited(q, net'[t].down)
    BY <1>1, ReleasesAwaited DEF FlightIsAnswered
<1> QED
    BY <1>1, <1>2, AwaitedStep

\* What ends a connection, or a tab, ends the flight.
LEMMA NothingInFlight ==
    ASSUME NEW r, r.flight = {}
    PROVE  \A d : Awaited(r, d)
BY DEF Awaited

LEMMA ResetLands ==
    ASSUME NEW S, NEW r \in TabOver(S)
    PROVE  ResetConnection(r).flight = {} /\ Recover(r).flight = {} /\ Closed.flight = {}
BY DEF ResetConnection, Recover, Closed, TabOver

\* Apply leaves the connection and its rows alone.
LEMMA ApplyReleases ==
    ASSUME NEW S, NEW r \in TabOver(S), NEW ops, NEW logged
    PROVE  Apply(r, ops, logged).flight = r.flight /\ Apply(r, ops, logged).ready = r.ready
BY DEF Apply, TabOver

LEMMA AdoptedReleases ==
    ASSUME NEW S, NEW r \in TabOver(S), NEW d \in DiskOver(S)
    PROVE  Releases(r, Adopted(r, d))
<1> DEFINE ops == d.log \cup OpsOf(r.pass.stored)
           applied == Apply(r, ops, d.log)
<1>1. applied \in TabOver(S)
    <2>1. ops \in SUBSET S
        BY OpsOfRows DEF TabOver, Pass, DiskOver
    <2> HIDE DEF ops
    <2> QED
        BY <2>1, ApplyTyped
<1>2. applied.flight = r.flight /\ applied.ready = r.ready
    BY ApplyReleases
<1>3. Mirrored(r, d) = [applied EXCEPT
         !.pending = (@ \ (r.pass.base \ r.pass.stored)) \cup r.pass.stored,
         !.gaps = @ \ (r.pass.base \ r.pass.stored),
         !.sync = IF d.log \subseteq r.doc THEN @ ELSE RestartSync(@), !.pass = NoPass]
    BY DEF Mirrored
<1> HIDE DEF applied
<1> DEFINE read == PruneInFlight(Mirrored(r, d))
<1>4. read.flight \subseteq r.flight /\ read.ready = r.ready
    BY <1>1, <1>2, <1>3 DEF PruneInFlight, TabOver
<1>5. Adopted(r, d) = IF d.recovery THEN Recover(read) ELSE read
    BY DEF Adopted
<1>6. Recover(read).flight = {}
    BY <1>1, <1>3 DEF Recover, ResetConnection, PruneInFlight, TabOver
<1> QED
    BY <1>4, <1>5, <1>6 DEF Releases
-----------------------------------------------------------------------------
LEMMA InitAwaited == Init => FlightIsAnswered
<1> DEFINE first == [Closed EXCEPT !.mode = "open", !.ready = TRUE, !.sync = "done"]
<1>1. first.flight = {}
    BY DEF Closed
<1>2. Init => \A t \in Tab : tab[t] = first
    BY DEF Init
<1> HIDE DEF first
<1> QED
    BY <1>1, <1>2, NothingInFlight DEF FlightIsAnswered

\* The steps that leave the socket alone.
LEMMA LocalAwaited ==
    ASSUME IInv, FlightIsAnswered, NEW t \in Tab,
           \/ WriteLog(t) \/ Enqueue(t) \/ Reconcile(t) \/ SlowRead(t) \/ Adopt(t)
           \/ AckTimeout(t) \/ \E o \in Op : Edit(t, o)
    PROVE  FlightIsAnswered'
<1> DEFINE r == tab[t]
<1>1. r \in TabOver(made) /\ disk[Home[t]] \in DiskOver(made)
    BY StateTyped
<1>2. CASE WriteLog(t)
    <2>1. Releases(r, [r EXCEPT !.unlogged = Tail(@)])
        BY <1>1 DEF Releases, TabOver
    <2> QED
        BY <1>2, <2>1, LocalAwaitedStep DEF WriteLog
<1>3. CASE Enqueue(t)
    <2>0. net' = net
        BY <1>3, Zenon DEF Enqueue
    <2>1. PICK n \in 1 .. Len(tab[t].queue) :
            LET m == Row(Coalesced(tab[t].queue, n), disk[Home[t]].order + 1, 0)
            IN  /\ disk' = [disk EXCEPT ![Home[t]].rows = @ \cup {m},
                                        ![Home[t]].order = disk[Home[t]].order + 1]
                /\ Becomes(t, [tab[t] EXCEPT !.queue = SubSeq(@, n + 1, Len(@)),
                                             !.pending = @ \cup {m}])
        BY <1>3, Zenon DEF Enqueue
    <2> DEFINE m == Row(Coalesced(tab[t].queue, n), disk[Home[t]].order + 1, 0)
               q == [r EXCEPT !.queue = SubSeq(@, n + 1, Len(@)), !.pending = @ \cup {m}]
    <2>2. Becomes(t, q)
        BY <2>1
    <2> HIDE DEF m
    <2>3. Releases(r, q)
        BY <1>1 DEF Releases, TabOver
    <2> HIDE DEF q
    <2> QED
        BY <2>0, <2>2, <2>3, LocalAwaitedStep
<1>4. CASE Reconcile(t)
    <2> DEFINE b == BeginPass(r, disk[Home[t]].rows)
    <2>1. b \in TabOver(made)
        BY <1>1, BeginPassTyped DEF DiskOver
    <2>2. b.flight = r.flight /\ b.ready = r.ready
        BY <1>1 DEF BeginPass, TabOver
    <2> HIDE DEF b
    <2>3. Releases(r, Adopted(b, disk[Home[t]]))
        BY <1>1, <2>1, <2>2, AdoptedReleases DEF Releases
    <2> QED
        BY <1>4, <2>3, LocalAwaitedStep DEF Reconcile, b
<1>5. CASE SlowRead(t)
    <2>1. Releases(r, BeginPass(r, disk[Home[t]].rows))
        BY <1>1 DEF Releases, BeginPass, TabOver
    <2> QED
        BY <1>5, <2>1, LocalAwaitedStep DEF SlowRead
<1>6. CASE Adopt(t)
    BY <1>1, <1>6, AdoptedReleases, LocalAwaitedStep DEF Adopt
<1>7. CASE AckTimeout(t)
    <2>1. PICK m : Becomes(t, [r EXCEPT !.flight = @ \ {m}])
        BY <1>7 DEF AckTimeout
    <2>2. Releases(r, [r EXCEPT !.flight = @ \ {m}])
        BY <1>1 DEF Releases, TabOver
    <2> QED
        BY <1>7, <2>1, <2>2, LocalAwaitedStep DEF AckTimeout
<1>8. ASSUME NEW o \in Op, Edit(t, o)
      PROVE  FlightIsAnswered'
    <2> DEFINE applied == Apply(r, {o}, {})
    <2>1. applied.flight = r.flight /\ applied.ready = r.ready
        BY <1>1, ApplyReleases
    <2>2. Becomes(t, [applied EXCEPT !.queue = Append(@, o)])
        BY <1>8 DEF Edit
    <2>3. [applied EXCEPT !.queue = Append(@, o)].flight = applied.flight
          /\ [applied EXCEPT !.queue = Append(@, o)].ready = applied.ready
        BY <1>1 DEF Apply, TabOver
    <2> HIDE DEF applied
    <2> QED
        BY <1>8, <2>1, <2>2, <2>3, LocalAwaitedStep DEF Edit, Releases
<1> QED
    BY <1>2, <1>3, <1>4, <1>5, <1>6, <1>7, <1>8

\* The steps after which nothing is in flight: an opened, closed or reconnected
\* tab, and the steps of a rebase.
LEMMA LandedAwaited ==
    ASSUME IInv, FlightIsAnswered, NEW t \in Tab,
           \/ Open(t) \/ Close(t) \/ Connect(t) \/ Disconnect(t) \/ ReplayEnds(t)
           \/ ReadStores(t) \/ RewriteOutbox(t) \/ LoseRebase(t)
    PROVE  FlightIsAnswered'
<1> DEFINE r == tab[t]
           d == disk[Home[t]]
<1>1. /\ r \in TabOver(made) /\ d \in DiskOver(made) /\ Sound(r, content)
      /\ Awaited(r, net[t].down) /\ net[t] \in SocketOver(content)
      /\ net[t].down \in Seq(Frame(content))
    BY StateTyped DEF FlightIsAnswered, SocketOver
<1>2. ASSUME NEW q, Becomes(t, q), q.flight = {},
             net' = net \/ \E n : net' = [net EXCEPT ![t] = n]
      PROVE  FlightIsAnswered'
    <2>1. net' = [net EXCEPT ![t] = net'[t]]
        BY <1>2, StateTyped
    <2> QED
        BY <1>2, <2>1, NothingInFlight, OwnAwaitedStep
<1>3. CASE Open(t)
    <2> DEFINE fresh == [Closed EXCEPT !.mode = "open", !.doc = d.log, !.pending = d.rows]
               loaded == Apply(fresh, OpsOf(d.rows), d.log)
    <2>1. fresh \in TabOver(made) /\ fresh.flight = {} /\ OpsOf(d.rows) \in SUBSET made
        BY <1>1, ClosedTyped, OpsOfRows DEF TabOver, DiskOver, Closed
    <2> HIDE DEF fresh
    <2>2. loaded \in TabOver(made) /\ loaded.flight = {}
        BY <2>1, ApplyTyped, ApplyReleases
    <2>3. Becomes(t, IF d.recovery THEN Recover(loaded) ELSE loaded) /\ net' = net
        BY <1>3 DEF Open, fresh
    <2> HIDE DEF loaded
    <2> QED
        BY <1>2, <2>2, <2>3, ResetLands
<1>4. CASE Close(t) \/ Disconnect(t)
    BY <1>1, <1>2, <1>4, ResetLands DEF Close, Disconnect
<1>5. CASE Connect(t)
    <2> DEFINE q == [r EXCEPT !.ready = TRUE, !.sync = "waiting"]
    <2>1. q.flight = {} /\ Becomes(t, q)
        BY <1>1, <1>5 DEF Connect, Awaited, TabOver
    <2> QED
        BY <1>2, <1>5, <2>1 DEF Connect
<1>6. CASE ReplayEnds(t)
    <2>1. r.flight = {} /\ r.rebase.phase = "collecting"
        BY <1>1, <1>6 DEF ReplayEnds, Sound
    <2>2. CASE Becomes(t, [r EXCEPT !.rebase.phase = "preparing"]) /\ Consumes(t)
        <3>1. [r EXCEPT !.rebase.phase = "preparing"].flight = {}
            BY <1>1, <2>1 DEF TabOver
        <3> QED
            BY <1>2, <2>2, <3>1 DEF Consumes
    <2>3. CASE Becomes(t, ResetConnection(r)) /\ net' = [net EXCEPT ![t] = NoSocket]
        BY <1>1, <1>2, <2>3, ResetLands
    <2> QED
        BY <1>6, <2>2, <2>3 DEF ReplayEnds
<1>7. CASE ReadStores(t)
    <2>1. r.flight = {}
        BY <1>1, <1>7 DEF ReadStores, Sound
    <2>2. \A x : [r EXCEPT !.rebase = x].flight = {}
        BY <1>1, <2>1 DEF TabOver
    <2>3. CASE Becomes(t, Recover(r)) /\ net' = [net EXCEPT ![t] = NoSocket]
        BY <1>1, <1>2, <2>3, ResetLands
    <2>4. ASSUME NEW x, Becomes(t, [r EXCEPT !.rebase = x]), net' = net
          PROVE  FlightIsAnswered'
        BY <1>2, <2>2, <2>4
    <2> QED
        BY <1>7, <2>3, <2>4 DEF ReadStores
<1>8. CASE RewriteOutbox(t) \/ LoseRebase(t)
    <2>1. r.flight = {}
        BY <1>1, <1>8 DEF RewriteOutbox, LoseRebase, Sound
    <2>2. \A rows, ops : Rebased(r, rows, ops).flight = {}
        BY <1>1, <2>1 DEF Rebased, Apply, TabOver
    <2>3. PICK rows, ops : Becomes(t, Rebased(r, rows, ops))
        BY <1>8 DEF RewriteOutbox, LoseRebase
    <2> QED
        BY <1>2, <1>8, <2>2, <2>3 DEF RewriteOutbox, LoseRebase
<1> QED
    BY <1>3, <1>4, <1>5, <1>6, <1>7, <1>8

\* A row that is sent is answered in the same step, behind what is under way.
LEMMA SendAwaited ==
    ASSUME IInv, FlightIsAnswered, NEW t \in Tab, Send(t)
    PROVE  FlightIsAnswered'
<1> DEFINE r == tab[t]
           n == net[t]
<1>1. PICK m \in Earliest(r.pending \ (r.flight \cup r.gaps)) :
         Becomes(t, [r EXCEPT !.flight = @ \cup {m}]) /\ ServeUpdate(t, m)
    BY DEF Send
<1> DEFINE q == [r EXCEPT !.flight = @ \cup {m}]
           verdict == Verdict(m \in settled, m.ops)
           ack == [type |-> "ack", row |-> m]
           acked == [n EXCEPT !.subscribed = TRUE, !.down = Append(@, ack)]
           refused == [n EXCEPT !.down = Append(@, Resync(m, verdict))]
<1>2. /\ r \in TabOver(made) /\ n \in SocketOver(content) /\ n.down \in Seq(Frame(content))
      /\ Awaited(r, n.down) /\ r.ready
    BY StateTyped DEF SocketOver, FlightIsAnswered, Send
<1>3. q.flight = r.flight \cup {m} /\ q.ready = r.ready /\ Becomes(t, q)
    BY <1>1, <1>2 DEF TabOver
<1>4. AnswerTo(ack, m) /\ AnswerTo(Resync(m, verdict), m)
    BY DEF AnswerTo, Resync
<1> HIDE DEF q, ack
<1>5. ASSUME NEW f, AnswerTo(f, m)
      PROVE  Awaited(q, Append(n.down, f))
    <2>1. /\ Grown(n.down, Append(n.down, f))
          /\ Len(n.down) + 1 \in DOMAIN Append(n.down, f) /\ Append(n.down, f)[Len(n.down) + 1] = f
        BY <1>2 DEF Grown
    <2> QED
        BY <1>2, <1>3, <1>5, <2>1 DEF Awaited, Grown
<1>6. CASE verdict \in {"CAUSAL_GAP", "NO_NEW_INFORMATION"} /\ net' = Reply(t, Resync(m, verdict))
    <2>1. net' = [net EXCEPT ![t] = refused] /\ refused.down = Append(n.down, Resync(m, verdict))
        BY <1>2, <1>6 DEF Reply, SocketOver
    <2>2. Awaited(q, refused.down)
        BY <1>4, <1>5, <2>1
    <2> HIDE DEF refused
    <2> QED
        BY <1>3, <2>1, <2>2, OwnAwaitedStep
<1>7. CASE net' = Broadcast(t, m.ops, acked)
    <2>1. acked.down = Append(n.down, ack)
        BY <1>2 DEF SocketOver
    <2> HIDE DEF acked
    <2>2. net'[t] = acked /\ \A p \in Tab \ {t} : Grown(net[p].down, net'[p].down)
        BY <1>7, BroadcastGrows
    <2> QED
        BY <1>3, <1>4, <1>5, <2>1, <2>2, AwaitedStep
<1>8. \/ verdict \in {"CAUSAL_GAP", "NO_NEW_INFORMATION"} /\ net' = Reply(t, Resync(m, verdict))
      \/ net' = Broadcast(t, m.ops, acked)
    BY <1>1, Zenon DEF ServeUpdate, Answered, ack
<1> QED
    BY <1>6, <1>7, <1>8

\* A question to the server adds its answer behind what is under way.
LEMMA ServedAwaited ==
    ASSUME IInv, NEW d \in Seq(Frame(content)), NEW vector, NEW r, NEW q, Releases(r, q), Awaited(r, d)
    PROVE  Awaited(q, ServeStep1(d, vector).down)
<1>1. content \subseteq Op
    BY DEF IInv, Typed
<1>2. Grown(d, ServeStep1(d, vector).down)
    BY <1>1, ServedGrows
<1> QED
    BY <1>2, ReleasesAwaited

\* What the tab takes from its socket: a row whose answer it takes is no longer in
\* flight, whatever becomes of it.
LEMMA ReceiveAwaited ==
    ASSUME IInv, FlightIsAnswered, NEW t \in Tab,
           StartSync(t) \/ ReceiveOps(t) \/ ReceiveAck(t) \/ ReceiveResync(t)
    PROVE  FlightIsAnswered'
<1> DEFINE r == tab[t]
           d == net[t].down
           f == Head(d)
           rest == [net[t] EXCEPT !.down = Tail(@)]
<1>1. /\ r \in TabOver(made) /\ net[t] \in SocketOver(content) /\ d \in Seq(Frame(content))
      /\ Awaited(r, d) /\ Sound(r, content) /\ made \subseteq Op /\ content \subseteq made
    BY StateTyped DEF FlightIsAnswered, SocketOver
<1>2. rest.down = Tail(d) /\ (Consumes(t) => net' = [net EXCEPT ![t] = rest])
    BY <1>1 DEF SocketOver, Consumes
<1> HIDE DEF rest
<1>3. ASSUME NEW q, Becomes(t, q), Consumes(t), d # <<>>, Releases(r, q),
             \A m \in q.flight : ~AnswerTo(f, m)
      PROVE  FlightIsAnswered'
    <2>1. Awaited(q, rest.down)
        BY <1>1, <1>2, <1>3, TailAwaited
    <2> QED
        BY <1>2, <1>3, <2>1, OwnAwaitedStep
<1>4. tab' = tab => Becomes(t, r) /\ Releases(r, r)
    BY DEF Becomes, IInv, Typed, Releases
<1>5. CASE StartSync(t)
    <2> DEFINE q == [r EXCEPT !.sync = "asked"]
    <2>1. Releases(r, q)
        BY <1>1 DEF Releases, TabOver
    <2> HIDE DEF q
    <2>2. Awaited(q, ServeStep1(d, Integrated(r.doc)).down)
        BY <1>1, <2>1, ServedAwaited
    <2>3. Becomes(t, q) /\ net' = [net EXCEPT ![t] = ServeStep1(d, Integrated(r.doc))]
        BY <1>5 DEF StartSync, q
    <2> QED
        BY <2>2, <2>3, OwnAwaitedStep
<1>6. CASE ReceiveOps(t)
    <2>1. PICK type \in {"step2", "update"} : Receives(t, type) /\ Consumes(t)
        BY <1>6 DEF ReceiveOps
    <2>2. d # <<>> /\ \A m : ~AnswerTo(f, m)
        BY <2>1 DEF Receives, AnswerTo
    <2> DEFINE applied == Apply(r, f.ops, {})
               seen == IF r.rebase.phase \in {"collecting", "preparing"}
                       THEN [applied EXCEPT !.rebase.shadow = @ \cup f.ops] ELSE applied
    <2>3. seen.flight = r.flight /\ seen.ready = r.ready
        BY <1>1 DEF Apply, TabOver
    <2>4. [seen EXCEPT !.unlogged = <<>>].flight = r.flight /\ [seen EXCEPT !.unlogged = <<>>].ready = r.ready
        BY <1>1 DEF Apply, TabOver
    <2>5. Becomes(t, [seen EXCEPT !.unlogged = <<>>]) \/ Becomes(t, seen)
        BY <1>6 DEF ReceiveOps
    <2> HIDE DEF seen
    <2> QED
        BY <1>3, <2>1, <2>2, <2>3, <2>4, <2>5 DEF Releases
<1>7. CASE ReceiveAck(t)
    <2> DEFINE m == f.row
               q == [r EXCEPT !.pending = @ \ {m}, !.flight = @ \ {m}]
    <2>1. Consumes(t) /\ d # <<>> /\ \A k : AnswerTo(f, k) => k = m
        BY <1>7 DEF ReceiveAck, Receives, AnswerTo
    <2>2. CASE m \notin r.pending /\ tab' = tab
        BY <1>1, <1>3, <1>4, <2>1, <2>2 DEF Sound
    <2>3. CASE Becomes(t, RetryGaps(q))
        <3>1. RetryGaps(q).flight = r.flight \ {m} /\ RetryGaps(q).ready = r.ready
            BY <1>1 DEF RetryGaps, TabOver
        <3> QED
            BY <1>3, <2>1, <2>3, <3>1 DEF Releases
    <2> QED
        BY <1>7, <2>2, <2>3 DEF ReceiveAck
<1>8. CASE ReceiveResync(t)
    <2> DEFINE m == f.row
               reason == f.reason
               freed == IF reason = "CAUSAL_GAP" THEN [r EXCEPT !.flight = @ \ {m}] ELSE r
    <2>1. d # <<>> /\ f.type = "resync" /\ \A k : AnswerTo(f, k) => k = m
        BY <1>8 DEF ReceiveResync, Receives, AnswerTo
    <2>2. /\ Releases(r, freed) /\ freed \in TabOver(made) /\ freed.rebase = r.rebase
          /\ reason = "CAUSAL_GAP" => m \notin freed.flight
        BY <1>1 DEF Releases, TabOver
    <2>3. reason \in {"CAUSAL_GAP", "NO_NEW_INFORMATION"} /\ Tail(d) \in Seq(Frame(content))
        <3>1. f \in Frame(content)
            BY <1>1, <2>1
        <3> QED
            BY <1>1, <2>1, <3>1 DEF Frame
    <2>4. CASE m \in r.pending /\ NeedsRebase(r, m, reason) /\ StartRebase(t, freed)
        <3>1. CASE r.rebase.phase # "off"
            <4>1. freed.flight = {} /\ Becomes(t, freed) /\ Consumes(t)
                BY <1>1, <2>2, <2>4, <3>1 DEF StartRebase, Sound, Releases
            <4> QED
                BY <1>3, <2>1, <2>2, <4>1
        <3>2. CASE r.rebase.phase = "off"
            <4> DEFINE q == [freed EXCEPT !.flight = {},
                                          !.rebase = [NoRebase EXCEPT !.phase = "collecting"]]
            <4>1. q.flight = {}
                BY <2>2 DEF TabOver
            <4>2. Becomes(t, q) /\ net' = [net EXCEPT ![t] = ServeStep1(Tail(@.down), {})]
                BY <2>2, <2>4, <3>2 DEF StartRebase
            <4> HIDE DEF q
            <4> QED
                BY <4>1, <4>2, NothingInFlight, OwnAwaitedStep
        <3> QED
            BY <3>1, <3>2
    <2>5. CASE /\ m \in r.pending /\ ~NeedsRebase(r, m, reason)
               /\ Becomes(t, [freed EXCEPT !.gaps = @ \cup {m}]) /\ Consumes(t)
        <3>1. m \notin freed.flight
            BY <2>2, <2>3, <2>5 DEF NeedsRebase
        <3>2. /\ [freed EXCEPT !.gaps = @ \cup {m}].flight = freed.flight
              /\ [freed EXCEPT !.gaps = @ \cup {m}].ready = freed.ready
            BY <2>2 DEF TabOver
        <3> HIDE DEF freed
        <3> QED
            BY <1>3, <2>1, <2>2, <2>5, <3>1, <3>2 DEF Releases
    <2>6. CASE /\ m \notin r.pending /\ tab' = tab
               /\ net' = [net EXCEPT ![t] = ServeStep1(Tail(@.down), Integrated(r.doc))]
        <3>1. \A k \in r.flight : ~AnswerTo(f, k)
            BY <1>1, <2>1, <2>6 DEF Sound
        <3>2. Releases(r, r) /\ Becomes(t, r)
            BY <1>4, <2>6
        <3>3. Awaited(r, Tail(d))
            BY <1>1, <2>1, <3>1, <3>2, TailAwaited
        <3>4. Awaited(r, ServeStep1(Tail(d), Integrated(r.doc)).down)
            BY <2>3, <3>2, <3>3, ServedAwaited
        <3> QED
            BY <2>6, <3>2, <3>4, OwnAwaitedStep
    <2> QED
        BY <1>8, <2>4, <2>5, <2>6 DEF ReceiveResync
<1> QED
    BY <1>5, <1>6, <1>7, <1>8

\* A SYNC_STEP2 answers the server's question and no row.
LEMMA AnswerStep1Awaited ==
    ASSUME IInv, FlightIsAnswered, NEW t \in Tab, AnswerStep1(t)
    PROVE  FlightIsAnswered'
<1> DEFINE r == tab[t]
           d == net[t].down
           f == Head(d)
           missing == r.doc \ f.vector
           answered == [r EXCEPT !.sync = Complete(@)]
           rest == [net[t] EXCEPT !.down = Tail(@)]
           own == [net[t] EXCEPT !.down = Tail(d), !.awaiting = FALSE]
<1>1. /\ r \in TabOver(made) /\ net[t] \in SocketOver(content) /\ d \in Seq(Frame(content))
      /\ Awaited(r, d)
    BY StateTyped DEF FlightIsAnswered, SocketOver
<1>2. /\ Releases(r, answered) /\ rest.down = Tail(d) /\ own.down = Tail(d)
    BY <1>1 DEF Releases, TabOver, SocketOver
<1>3. d # <<>> /\ \A m : ~AnswerTo(f, m)
    BY DEF AnswerStep1, Receives, AnswerTo
<1>4. Tail(d) \in Seq(Frame(content))
    BY <1>1, <1>3
<1> HIDE DEF answered
<1>5. Awaited(answered, Tail(d))
    BY <1>1, <1>2, <1>3, TailAwaited
<1>6. CASE Becomes(t, answered) /\ Consumes(t)
    <2>1. net' = [net EXCEPT ![t] = rest]
        BY <1>6 DEF Consumes
    <2>2. Awaited(answered, rest.down)
        BY <1>2, <1>5
    <2> HIDE DEF rest
    <2> QED
        BY <1>6, <2>1, <2>2, OwnAwaitedStep
<1>7. CASE Becomes(t, ResetConnection(r)) /\ net' = [net EXCEPT ![t] = NoSocket]
    BY <1>1, <1>7, ResetLands, NothingInFlight, OwnAwaitedStep
<1>8. CASE Becomes(t, answered) /\ ServeStep2(t, Tail(d), missing)
    <2> DEFINE verdict == Verdict(FALSE, missing)
               refused == [own EXCEPT !.down = Append(@, Resync(NoRow, verdict))]
    <2>1. \/ net' = Broadcast(t, missing, own)
          \/ net' = [net EXCEPT ![t] = own]
          \/ net' = [net EXCEPT ![t] = refused]
        BY <1>8 DEF ServeStep2
    <2>2. refused.down = Append(Tail(d), Resync(NoRow, verdict))
        BY <1>1 DEF SocketOver
    <2>3. Grown(Tail(d), refused.down) /\ Releases(answered, answered)
        <3>1. \A x : Grown(Tail(d), Append(Tail(d), x))
            BY <1>4 DEF Grown
        <3> QED
            BY <2>2, <3>1 DEF Releases
    <2> HIDE DEF own, refused
    <2>4. Awaited(answered, refused.down)
        BY <1>5, <2>3, ReleasesAwaited
    <2>5. CASE net' = Broadcast(t, missing, own)
        <3>1. net'[t] = own /\ \A p \in Tab \ {t} : Grown(net[p].down, net'[p].down)
            BY <2>5, BroadcastGrows
        <3> QED
            BY <1>2, <1>5, <1>8, <3>1, AwaitedStep
    <2> QED
        BY <1>2, <1>5, <1>8, <2>1, <2>4, <2>5, OwnAwaitedStep
<1> QED
    BY <1>6, <1>7, <1>8 DEF AnswerStep1, answered

\* No row waits in flight for an answer that will not come: as long as the connection
\* lasts, an ACK or a RESYNC_REQUIRED for it is under way, however often it was
\* resent, adopted again or answered late, and during a rebase nothing is in flight
\* (pumpPendingUpdates, handleAck, handleControl, startCausalGapRebase in
\* networkProvider.ts).  The ACK timer is there for what the network loses, and
\* OutboxDrains holds without counting on it.
THEOREM FlightsAreAnswered == Spec => []FlightIsAnswered
<1>1. ASSUME IInv, FlightIsAnswered, [Next]_vars PROVE FlightIsAnswered'
    <2>1. CASE UNCHANGED vars
        <3>1. tab' = tab /\ net' = net
            BY <2>1 DEF vars
        <3> QED
            BY <1>1, <3>1 DEF FlightIsAnswered, Awaited, AnswerTo
    <2>2. ASSUME NEW t \in Tab, TabStep(t)
          PROVE  FlightIsAnswered'
        BY <1>1, <2>2, LocalAwaited, LandedAwaited, SendAwaited, ReceiveAwaited,
           AnswerStep1Awaited DEF TabStep
    <2>3. ASSUME NEW t \in Tab, Environment(t)
          PROVE  FlightIsAnswered'
        BY <1>1, <2>3, LocalAwaited, LandedAwaited DEF Environment
    <2> QED
        BY <1>1, <2>1, <2>2, <2>3 DEF Next
<1> QED
    BY <1>1, InitAwaited, Invariance, PTL DEF Spec
=============================================================================
