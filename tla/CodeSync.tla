------------------------------ MODULE CodeSync ------------------------------
(***************************************************************************)
(* Collaborative code end to end: the browser tabs that edit one workspace *)
(* (client/code/guestCodeProvider.ts over client/code/codeSyncStore.ts),   *)
(* their sockets, and the server that stores and relays their updates      *)
(* (server/code-sync/transport.ts over CodeRepository).                    *)
(*                                                                         *)
(* Tabs of one browser share its device id and its IndexedDB.  A JavaScript*)
(* callback runs to completion, so an action is one callback, and a        *)
(* continuation after an await is an action of its own.  Continuations     *)
(* that await the store's writeTail are entries of the tab's write queue:  *)
(* they run when the writes queued before them are done.                   *)
(*                                                                         *)
(* Each local edit creates one operation and is one update, so the         *)
(* operation also names the update.  The messages that only set an error   *)
(* text at the client (non-terminal controls) are not sent.                *)
(***************************************************************************)
EXTENDS CodeRepository

CONSTANTS
    Tab, Device,
    DeviceOf,          \* the browser a tab belongs to
    Author,            \* the tab in which an operation is typed
    NoOp,              \* no update in flight, or no tab
    MaxDisconnects,    \* bound on lost connections
    MaxReloads,        \* bound on tabs closed or crashed
    MaxWriteFailures,  \* bound on failing IndexedDB transactions
    MaxRefusals,       \* bound on updates refused for rate or guest quota
    MaxSyncRefusals,   \* bound on sync requests refused for rate
    MaxEarlyTimeouts   \* bound on ACK timers that fire before the answer is in

ASSUME TabAssumption ==
    /\ DeviceOf \in [Tab -> Device]
    /\ Author \in [Op \ Seed -> Tab]
    /\ NoOp \notin Op \cup Tab
    /\ Key = Device \X (Op \ Seed)
    /\ Update = {{o} : o \in Op \ Seed}

VARIABLES
    tab,     \* the provider and store of each tab, and its socket
    disk,    \* the IndexedDB of each device
    late,    \* update frames under way to the server from sockets their clients lost
    issued,  \* operations typed so far
    spent    \* how much of each bound is used

syncVars == <<tab, disk, late, issued, spent>>
allVars == <<vars, syncVars>>

-----------------------------------------------------------------------------
\* A closed tab: nothing of it is left but what is on disk.
Closed ==
    [phase         |-> "closed",
     doc           |-> {},        \* operations applied to the Y.Doc
     writes        |-> <<>>,      \* writeTail: writes and the continuations behind them
     queued        |-> 0,         \* queuedLocalWrites
     durability    |-> "ready",
     writeFailure  |-> FALSE,
     pending       |-> <<>>,      \* pending, in queueOrder
     inFlight      |-> NoOp,
     connection    |-> "offline",
     documentReady |-> FALSE,
     connected     |-> FALSE,
     socketReady   |-> FALSE,
     syncRequest   |-> FALSE,     \* syncRequestId is set
     syncComplete  |-> FALSE,
     up            |-> <<>>,      \* frames to the server
     down          |-> <<>>]      \* frames from the server

NoneSpent == [disconnects |-> 0, reloads |-> 0, failures |-> 0,
              refusals |-> 0, syncRefusals |-> 0, timeouts |-> 0]
Spend(what) == spent' = [spent EXCEPT ![what] = @ + 1]

Becomes(t, p) == tab' = [tab EXCEPT ![t] = p]

\* The repository is not called.
ServerIdle ==
    /\ UNCHANGED <<document, receipts, receiptCount>>
    /\ reply' = [status |-> "none", sequence |-> 0]

SyncInit ==
    /\ Init
    /\ tab = [t \in Tab |-> Closed]
    /\ disk = [d \in Device |-> [log |-> {}, outbox |-> <<>>]]
    /\ late = {}
    /\ issued = {}
    /\ spent = NoneSpent

-----------------------------------------------------------------------------
\* pumpPendingUpdate: one update in flight, the oldest pending first.
CanPump(p) ==
    /\ p.connected
    /\ p.socketReady
    /\ p.syncComplete
    /\ p.inFlight = NoOp
    /\ p.durability # "at-risk"
    /\ p.pending # <<>>

\* Fault: the newest pending update goes first.
PumpedNewest(p) ==
    IF CanPump(p)
    THEN [p EXCEPT !.inFlight = Last(p.pending),
                   !.up = Append(p.up, [type |-> "update", op |-> Last(p.pending)])]
    ELSE p

Pumped(p) ==
    IF CanPump(p)
    THEN [p EXCEPT !.inFlight = Head(p.pending),
                   !.up = Append(p.up, [type |-> "update", op |-> Head(p.pending)])]
    ELSE p

\* Y.applyUpdate with a remote origin: what it newly integrates is one update
\* event, and the store queues one log write for it.
Applied(p, u) ==
    LET fresh == Integrated(p.doc \cup u) \ Integrated(p.doc)
    IN  [p EXCEPT !.doc = @ \cup u,
                  !.writes = IF fresh = {} THEN @
                             ELSE Append(@, [kind |-> "remote", ops |-> fresh])]

\* The socket is gone, and with it every frame nobody read.
Cut(p) == [p EXCEPT !.connected = FALSE, !.up = <<>>, !.down = <<>>]

\* handleDisconnect: a terminal status keeps everything else as it was.
Dropped(p) ==
    IF p.connection = "error" THEN Cut(p)
    ELSE [Cut(p) EXCEPT !.socketReady = FALSE,
                        !.syncComplete = FALSE,
                        !.syncRequest = FALSE,
                        !.inFlight = NoOp,
                        !.connection = "offline"]

\* failTerminal: the status comes first, so handleDisconnect resets nothing.
Failed(p) == Dropped([p EXCEPT !.connection = "error"])

\* The client has lost the socket, the server's end lives until it notices: of
\* the frames on the way a prefix still arrives, the rest is lost.
LeaveBehind(t) ==
    \E read \in 0 .. Len(tab[t].up) :
        late' = late \cup {[tab |-> t, op |-> tab[t].up[i].op] :
                               i \in {j \in 1 .. read : tab[t].up[j].type = "update"}}

-----------------------------------------------------------------------------
\* The store's load(): the log of the device becomes the document.
Open(t) ==
    /\ tab[t].phase = "closed"
    /\ Becomes(t, [Closed EXCEPT !.phase = "loaded",
                                 !.doc = disk[DeviceOf[t]].log])
    /\ ServerIdle
    /\ UNCHANGED <<disk, late, issued, spent>>

\* Fault: the outbox is not read back.
StartWithoutOutbox(t) ==
    /\ tab[t].phase = "loaded"
    /\ Valid(tab[t].doc)
    /\ Becomes(t, [tab[t] EXCEPT !.phase = "running", !.documentReady = tab[t].doc # {}])
    /\ ServerIdle
    /\ UNCHANGED <<disk, late, issued, spent>>

\* initialize after whenReady: listPendingUpdates is a transaction of its own.
Start(t) ==
    /\ tab[t].phase = "loaded"
    /\ LET local == Integrated(tab[t].doc) # {}
       IN  Becomes(t,
              [tab[t] EXCEPT !.phase = "running",
                             !.pending = disk[DeviceOf[t]].outbox,
                             !.documentReady = local /\ Valid(tab[t].doc),
                             !.connection = IF local /\ ~Valid(tab[t].doc) THEN "error" ELSE "offline",
                             !.durability = IF local /\ ~Valid(tab[t].doc) THEN "at-risk" ELSE @])
    /\ ServerIdle
    /\ UNCHANGED <<disk, late, issued, spent>>

\* The tab is closed or reloaded: queued writes and its socket die with it.
Close(t) ==
    /\ tab[t].phase # "closed"
    /\ spent.reloads < MaxReloads
    /\ Spend("reloads")
    /\ LeaveBehind(t)
    /\ Becomes(t, Closed)
    /\ ServerIdle
    /\ UNCHANGED <<disk, issued>>

\* Fault: the update is sent before it is stored.
EditSendsAtOnce(t, o) ==
    /\ tab[t].documentReady
    /\ o \notin issued
    /\ Author[o] = t
    /\ Deps[o] \subseteq Integrated(tab[t].doc)
    /\ issued' = issued \cup {o}
    /\ Becomes(t,
          Pumped([tab[t] EXCEPT !.doc = @ \cup {o},
                                !.pending = Append(@, o),
                                !.writes = Append(@, [kind |-> "local", op |-> o]),
                                !.queued = @ + 1,
                                !.durability = "writing"]))
    /\ ServerIdle
    /\ UNCHANGED <<disk, late, spent>>

\* A local transaction of the document: handleDocumentUpdate with a local origin.
Edit(t, o) ==
    /\ tab[t].documentReady
    /\ o \notin issued
    /\ Author[o] = t
    /\ Deps[o] \subseteq Integrated(tab[t].doc)
    /\ issued' = issued \cup {o}
    /\ Becomes(t,
          [tab[t] EXCEPT !.doc = @ \cup {o},
                         !.writes = Append(@, [kind |-> "local", op |-> o]),
                         !.queued = @ + 1,
                         !.durability = "writing"])
    /\ ServerIdle
    /\ UNCHANGED <<disk, late, spent>>

-----------------------------------------------------------------------------
\* The head of the write queue and the tab without it.
NextWrite(t) == Head(tab[t].writes)
Awaiting(t, kind) == tab[t].writes # <<>> /\ NextWrite(t).kind = kind
Rest(t) == [tab[t] EXCEPT !.writes = Tail(@)]

\* onDurableLocalUpdate
DurableLocal(p, o) ==
    LET left == IF p.queued > 0 THEN p.queued - 1 ELSE 0
    IN  Pumped([p EXCEPT !.queued = left,
                         !.pending = Append(@, o),
                         !.durability = IF left = 0 THEN "ready" ELSE "writing"])

\* The write's callback has run; the compaction behind it may still fail, which
\* is an onWriteError although the write stands.
Compacted(t, p) ==
    \/ /\ Becomes(t, p)
       /\ UNCHANGED spent
    \/ /\ spent.failures < MaxWriteFailures
       /\ Spend("failures")
       /\ Becomes(t, [p EXCEPT !.writeFailure = TRUE,
                               !.durability = "at-risk"])

\* append of a remote update: a log row.
StoreRemote(t) ==
    /\ Awaiting(t, "remote")
    /\ disk' = [disk EXCEPT ![DeviceOf[t]].log = @ \cup NextWrite(t).ops]
    /\ Compacted(t, Rest(t))
    /\ ServerIdle
    /\ UNCHANGED <<late, issued>>

\* Fault: log row and outbox row are two transactions, and the second may fail.
StoreLocalTwice(t) ==
    /\ Awaiting(t, "local")
    /\ LET o == NextWrite(t).op
       IN  \/ /\ disk' = [disk EXCEPT ![DeviceOf[t]] =
                             [log |-> @.log \cup {o}, outbox |-> Append(@.outbox, o)]]
             /\ Compacted(t, DurableLocal(Rest(t), o))
          \/ /\ spent.failures < MaxWriteFailures
             /\ Spend("failures")
             /\ disk' = [disk EXCEPT ![DeviceOf[t]].log = @ \cup {o}]
             /\ Becomes(t, [Rest(t) EXCEPT !.writeFailure = TRUE,
                                           !.durability = "at-risk"])
    /\ ServerIdle
    /\ UNCHANGED <<late, issued>>

\* append of a local update: log row, outbox row and queue order in one
\* transaction.
StoreLocal(t) ==
    /\ Awaiting(t, "local")
    /\ LET o == NextWrite(t).op
       IN  /\ disk' = [disk EXCEPT ![DeviceOf[t]] =
                          [log |-> @.log \cup {o}, outbox |-> Append(@.outbox, o)]]
           /\ Compacted(t, DurableLocal(Rest(t), o))
    /\ ServerIdle
    /\ UNCHANGED <<late, issued>>

\* Fault: a failed write counts as settled and is forgotten.
WriteFailsForgotten(t) ==
    /\ Awaiting(t, "local") \/ Awaiting(t, "remote")
    /\ spent.failures < MaxWriteFailures
    /\ Spend("failures")
    /\ Becomes(t,
          [Rest(t) EXCEPT !.queued = IF Awaiting(t, "local") THEN @ - 1 ELSE @,
                          !.durability = "at-risk"])
    /\ ServerIdle
    /\ UNCHANGED <<disk, late, issued>>

\* The transaction aborts: onWriteError.  Later writes go on.
WriteFails(t) ==
    /\ Awaiting(t, "local") \/ Awaiting(t, "remote")
    /\ spent.failures < MaxWriteFailures
    /\ Spend("failures")
    /\ Becomes(t, [Rest(t) EXCEPT !.writeFailure = TRUE,
                                  !.durability = "at-risk"])
    /\ ServerIdle
    /\ UNCHANGED <<disk, late, issued>>

-----------------------------------------------------------------------------
\* The socket connects or reconnects: handleConnect, and the server's READY.
Connect(t) ==
    /\ tab[t].phase = "running"
    /\ ~tab[t].connected
    /\ tab[t].connection # "error"
    /\ Becomes(t, [tab[t] EXCEPT !.connected = TRUE,
                                 !.connection = "syncing",
                                 !.down = <<[type |-> "ready"]>>])
    /\ ServerIdle
    /\ UNCHANGED <<disk, late, issued, spent>>

Disconnect(t) ==
    /\ tab[t].connected
    /\ spent.disconnects < MaxDisconnects
    /\ Spend("disconnects")
    /\ LeaveBehind(t)
    /\ Becomes(t, Dropped(tab[t]))
    /\ ServerIdle
    /\ UNCHANGED <<disk, issued>>

Arrived(t, type) == tab[t].down # <<>> /\ Head(tab[t].down).type = type
Read(t) == [tab[t] EXCEPT !.down = Tail(@)]

\* Fault: a tab that has its document does not ask for what it missed.
ReceiveReadyOnce(t) ==
    /\ Arrived(t, "ready")
    /\ Becomes(t,
          IF tab[t].documentReady
          THEN Pumped([Read(t) EXCEPT !.socketReady = TRUE,
                                      !.syncComplete = TRUE,
                                      !.connection = "online"])
          ELSE [Read(t) EXCEPT !.socketReady = TRUE,
                               !.syncComplete = FALSE,
                               !.syncRequest = TRUE,
                               !.connection = "syncing",
                               !.up = Append(@, [type   |-> "sync",
                                                 vector |-> StateVector(tab[t].doc)])])
    /\ ServerIdle
    /\ UNCHANGED <<disk, late, issued, spent>>

\* READY starts the sync of this connection with the document's vector.
ReceiveReady(t) ==
    /\ Arrived(t, "ready")
    /\ Becomes(t,
          [Read(t) EXCEPT !.socketReady = TRUE,
                          !.syncComplete = FALSE,
                          !.syncRequest = TRUE,
                          !.connection = "syncing",
                          !.up = Append(@, [type   |-> "sync",
                                            vector |-> StateVector(tab[t].doc)])])
    /\ ServerIdle
    /\ UNCHANGED <<disk, late, issued, spent>>

\* SYNC_STEP2: the last part closes the request and starts finishInitialSync,
\* which awaits the store.
ReceivePart(t) ==
    /\ Arrived(t, "part")
    /\ LET part    == Head(tab[t].down)
           applied == Applied(Read(t), part.update)
       IN  Becomes(t,
              IF part.done
              THEN [applied EXCEPT !.syncRequest = FALSE,
                                   !.writes = Append(@, [kind |-> "finish"])]
              ELSE applied)
    /\ ServerIdle
    /\ UNCHANGED <<disk, late, issued, spent>>

ReceiveRemote(t) ==
    /\ Arrived(t, "remote")
    /\ Becomes(t, Applied(Read(t), {Head(tab[t].down).op}))
    /\ ServerIdle
    /\ UNCHANGED <<disk, late, issued, spent>>

\* handleAck up to its await; an ACK for anything but the update in flight is
\* ignored.
ReceiveAck(t) ==
    /\ Arrived(t, "ack")
    /\ LET o == Head(tab[t].down).op
       IN  Becomes(t,
              IF tab[t].inFlight = o
              THEN [Read(t) EXCEPT !.writes = Append(@, [kind |-> "ack", op |-> o])]
              ELSE Read(t))
    /\ ServerIdle
    /\ UNCHANGED <<disk, late, issued, spent>>

\* finishInitialSync after store.flush(), whatever became of the socket.
FinishSync(t) ==
    /\ Awaiting(t, "finish")
    /\ Becomes(t,
          IF Rest(t).writeFailure \/ ~Valid(Rest(t).doc)
          THEN Failed(Rest(t))
          ELSE Pumped([Rest(t) EXCEPT !.syncComplete = TRUE,
                                      !.connection = "online",
                                      !.documentReady = TRUE]))
    /\ IF tab'[t].connected = tab[t].connected THEN UNCHANGED late ELSE LeaveBehind(t)
    /\ ServerIdle
    /\ UNCHANGED <<disk, issued, spent>>

\* pending and the outbox hold an update at most once.
Without(updates, o) ==
    IF o \in Range(updates)
    THEN RemoveAt(updates, CHOOSE i \in DOMAIN updates : updates[i] = o)
    ELSE updates

\* Fault: the whole outbox is deleted, the other tab's rows too.
FinishAckClears(t) ==
    /\ Awaiting(t, "ack")
    /\ ~tab[t].writeFailure
    /\ Becomes(t, [Rest(t) EXCEPT !.pending = <<>>, !.inFlight = NoOp])
    /\ disk' = [disk EXCEPT ![DeviceOf[t]].outbox = <<>>]
    /\ ServerIdle
    /\ UNCHANGED <<late, issued, spent>>

\* handleAck after store.acknowledge(), which deletes the outbox row.
FinishAck(t) ==
    /\ Awaiting(t, "ack")
    /\ LET o == NextWrite(t).op
       IN  IF tab[t].writeFailure
           THEN /\ Becomes(t, [Rest(t) EXCEPT !.inFlight = NoOp,
                                              !.durability = "at-risk"])
                /\ UNCHANGED disk
           ELSE /\ Becomes(t,
                       Pumped([Rest(t) EXCEPT !.pending = Without(@, o),
                                              !.inFlight = NoOp]))
                /\ disk' = [disk EXCEPT ![DeviceOf[t]].outbox = Without(@, o)]
    /\ ServerIdle
    /\ UNCHANGED <<late, issued, spent>>

\* The ACK timer: send again.  It may fire although the answer is on its way.
AnswerUnderway(t) ==
    LET o == tab[t].inFlight
    IN  \/ [type |-> "update", op |-> o] \in Range(tab[t].up)
        \/ [type |-> "ack", op |-> o] \in Range(tab[t].down)
        \/ [kind |-> "ack", op |-> o] \in Range(tab[t].writes)

\* Fault: the timer gives the update up without sending it again.
AckTimeoutForgets(t) ==
    /\ tab[t].inFlight # NoOp
    /\ IF AnswerUnderway(t)
       THEN spent.timeouts < MaxEarlyTimeouts /\ Spend("timeouts")
       ELSE UNCHANGED spent
    /\ Becomes(t, [tab[t] EXCEPT !.inFlight = NoOp])
    /\ ServerIdle
    /\ UNCHANGED <<disk, late, issued>>

AckTimeout(t) ==
    /\ tab[t].inFlight # NoOp
    /\ IF AnswerUnderway(t)
       THEN spent.timeouts < MaxEarlyTimeouts /\ Spend("timeouts")
       ELSE UNCHANGED spent
    /\ Becomes(t, Pumped([tab[t] EXCEPT !.inFlight = NoOp]))
    /\ ServerIdle
    /\ UNCHANGED <<disk, late, issued>>

-----------------------------------------------------------------------------
ServerReads(t, type) == tab[t].up # <<>> /\ Head(tab[t].up).type = type

\* SYNC_STEP1: every missing part is sent before the next frame is read.
ServeSync(t) ==
    /\ ServerReads(t, "sync")
    /\ LET parts == MissingUpdates(Head(tab[t].up).vector)
           frames == [i \in DOMAIN parts |->
                         [type |-> "part", update |-> parts[i], done |-> i = Len(parts)]]
       IN  Becomes(t, [tab[t] EXCEPT !.up = Tail(@), !.down = @ \o frames])
    /\ ServerIdle
    /\ UNCHANGED <<disk, late, issued, spent>>

\* Fault: a socket that is still syncing is left out.
RelayedToSynced(o, except) ==
    [t \in Tab |->
        IF t # except /\ tab[t].syncComplete /\ tab[t].connected /\ reply'.status = "committed"
        THEN [tab[t] EXCEPT !.down = Append(@, [type |-> "remote", op |-> o])]
        ELSE tab[t]]

\* Fault: the sender's own frame is passed on.
RelayedRaw(o, except) ==
    [t \in Tab |->
        IF t # except /\ tab[t].connected /\ reply'.status = "committed"
        THEN [tab[t] EXCEPT !.down = Append(@, [type |-> "update", op |-> o])]
        ELSE tab[t]]

\* broadcastAuthorized: everyone in the workspace's room but the sender's socket.
Relayed(o, except) ==
    [t \in Tab |->
        IF t # except /\ tab[t].connected /\ reply'.status = "committed"
        THEN [tab[t] EXCEPT !.down = Append(@, [type |-> "remote", op |-> o])]
        ELSE tab[t]]

\* UPDATE: store, acknowledge to the sender, relay what is new.
ServeUpdate(t) ==
    /\ ServerReads(t, "update")
    /\ LET o      == Head(tab[t].up).op
           served == [tab[t] EXCEPT !.up = Tail(@),
                                    !.down = IF reply'.status = "rejected" THEN @
                                             ELSE Append(@, [type |-> "ack", op |-> o])]
       IN  /\ StoreUpdate(<<DeviceOf[t], o>>, {o})
           /\ tab' = [Relayed(o, t) EXCEPT ![t] = served]
    /\ UNCHANGED <<disk, late, issued, spent>>

\* Refused for the workspace's rate budget or the guest quota: a non-terminal
\* control that the client shows and otherwise ignores.
RefuseUpdate(t) ==
    /\ ServerReads(t, "update")
    /\ spent.refusals < MaxRefusals
    /\ Spend("refusals")
    /\ Becomes(t, [tab[t] EXCEPT !.up = Tail(@)])
    /\ ServerIdle
    /\ UNCHANGED <<disk, late, issued>>

\* Refused for the workspace's rate budget: the client never asks again on this
\* connection.
RefuseSync(t) ==
    /\ ServerReads(t, "sync")
    /\ spent.syncRefusals < MaxSyncRefusals
    /\ Spend("syncRefusals")
    /\ Becomes(t, [tab[t] EXCEPT !.up = Tail(@)])
    /\ ServerIdle
    /\ UNCHANGED <<disk, late, issued>>

\* An update that arrives after its sender lost the socket: no ACK reaches it, and
\* a new socket of that tab is relayed to like any other.
ServeLate(f) ==
    /\ late' = late \ {f}
    /\ StoreUpdate(<<DeviceOf[f.tab], f.op>>, {f.op})
    /\ tab' = Relayed(f.op, NoOp)
    /\ UNCHANGED <<disk, issued, spent>>

-----------------------------------------------------------------------------
TabStep(t) ==
    \/ Start(t) \/ Connect(t)
    \/ StoreRemote(t) \/ StoreLocal(t) \/ FinishSync(t) \/ FinishAck(t)
    \/ ReceiveReady(t) \/ ReceivePart(t) \/ ReceiveRemote(t) \/ ReceiveAck(t)
    \/ AckTimeout(t)

ServerStep(t) == ServeSync(t) \/ ServeUpdate(t)

Environment(t) ==
    \/ Open(t) \/ Close(t) \/ Disconnect(t)
    \/ \E o \in Op \ Seed : Edit(t, o)
    \/ WriteFails(t) \/ RefuseUpdate(t) \/ RefuseSync(t)

SyncNext ==
    \/ \E t \in Tab : TabStep(t) \/ ServerStep(t) \/ Environment(t)
    \/ \E f \in late : ServeLate(f)

SyncSpec == SyncInit /\ [][SyncNext]_allVars

\* Promises, timers, sockets and the server all make progress; opening a tab,
\* typing and failing are nobody's duty.
Fairness ==
    /\ \A t \in Tab :
          /\ WF_allVars(Start(t)) /\ WF_allVars(Connect(t))
          /\ WF_allVars(StoreRemote(t)) /\ WF_allVars(StoreLocal(t))
          /\ WF_allVars(FinishSync(t)) /\ WF_allVars(FinishAck(t))
          /\ WF_allVars(ReceiveReady(t)) /\ WF_allVars(ReceivePart(t))
          /\ WF_allVars(ReceiveRemote(t)) /\ WF_allVars(ReceiveAck(t))
          /\ WF_allVars(AckTimeout(t))
          /\ WF_allVars(ServeSync(t)) /\ WF_allVars(ServeUpdate(t))
    /\ WF_allVars(\E f \in late : ServeLate(f))

FairSpec == SyncSpec /\ Fairness

-----------------------------------------------------------------------------
Running(t) == tab[t].phase = "running"

\* isSynchronized: what waitUntilSynchronized reports to its caller.
Synchronized(t) ==
    /\ tab[t].connection = "online"
    /\ tab[t].documentReady
    /\ tab[t].durability = "ready"
    /\ tab[t].pending = <<>>
    /\ tab[t].queued = 0
    /\ tab[t].inFlight = NoOp

ClientFrames ==
    [type : {"sync"}, vector : SUBSET Op] \cup [type : {"update"}, op : Op \ Seed]
ServerFrames ==
    [type : {"ready"}]
        \cup [type : {"part"}, update : SUBSET Op, done : BOOLEAN]
        \cup [type : {"remote", "ack"}, op : Op \ Seed]

\* Every field holds what its declaration allows, and each direction of a socket
\* carries its own kinds of frame.
SyncTypeOK ==
    /\ TypeOK
    /\ \A t \in Tab :
          /\ tab[t].phase \in {"closed", "loaded", "running"}
          /\ tab[t].doc \subseteq Op
          /\ tab[t].queued \in Nat
          /\ tab[t].durability \in {"ready", "writing", "at-risk"}
          /\ tab[t].connection \in {"offline", "syncing", "online", "error"}
          /\ tab[t].inFlight \in (Op \ Seed) \cup {NoOp}
          /\ Range(tab[t].pending) \subseteq Op \ Seed
          /\ Range(tab[t].up) \subseteq ClientFrames
          /\ Range(tab[t].down) \subseteq ServerFrames
    /\ \A d \in Device :
          disk[d].log \subseteq Op /\ Range(disk[d].outbox) \subseteq Op \ Seed
    /\ late \subseteq [tab : Tab, op : Op \ Seed]
    /\ issued \subseteq Op \ Seed

\* A durable local edit leaves the outbox only when the server has it: no crash,
\* reload, lost ACK, resend or other tab of the browser loses it.
DurableEditIsKept ==
    \A o \in issued :
        LET d == DeviceOf[Author[o]]
        IN  o \in disk[d].log => o \in Content \/ o \in Range(disk[d].outbox)

\* What waitUntilSynchronized promises to the code that then throws local data
\* away: the server has all this tab shows.
SynchronizedIsSaved == \A t \in Tab : Synchronized(t) => tab[t].doc \subseteq Content

\* Updates reach the server in causal order: while no local write fails, it
\* never has to keep an update whose predecessor it lacks.
ServerSeesCauseFirst == spent.failures = 0 => ~HasPendingDependencies(Content)

\* A tab sends nothing that is not in its browser's outbox or already stored.
OnlyDurableIsSent ==
    \A t \in Tab : \A f \in {g \in Range(tab[t].up) : g.type = "update"} :
        f.op \in Content \/ f.op \in Range(disk[DeviceOf[t]].outbox)

\* With every tab synchronized, every request answered and every frame read, all
\* tabs show what the server holds.
Quiet ==
    /\ late = {}
    /\ \A t \in Tab :
          tab[t].phase # "closed" =>
             /\ Synchronized(t) /\ tab[t].connected /\ ~tab[t].syncRequest
             /\ tab[t].up = <<>> /\ tab[t].down = <<>> /\ tab[t].writes = <<>>
QuietTabsAgree ==
    Quiet => \A t \in Tab : Running(t) => tab[t].doc = Content

\* An update waiting in a browser's outbox reaches the server as long as its tab
\* stays open, through lost connections, lost ACKs and refusals.
OutboxDrains ==
    \A t \in Tab : \A o \in Op \ Seed :
        (Running(t) /\ o \in Range(tab[t].pending))
            ~> (o \in Content \/ ~Running(t))

\* Whatever the server holds reaches every tab that stays open.
TabsCatchUp ==
    \A t \in Tab : \A o \in Op \ Seed :
        (Running(t) /\ o \in Content) ~> (o \in tab[t].doc \/ ~Running(t))
=============================================================================
