------------------------------ MODULE BoardSync ------------------------------
(***************************************************************************)
(* Board tabs and the server (client/board/networkProvider.ts with         *)
(* localStore.ts and documentStore.ts, server/board-v2/sync-transport.ts). *)
(*                                                                         *)
(* The tabs of one browser share two IndexedDB stores that commit apart: a *)
(* log of document updates and an outbox of rows not yet acknowledged.     *)
(* Each tab mirrors the outbox in memory, sends its rows in queue order,   *)
(* and is told of changes by hints that may come late.  A tab that learns  *)
(* the server will not take its rows as they are (CAUSAL_GAP,              *)
(* NO_NEW_INFORMATION) rebases the outbox on a full replay of the server.  *)
(*                                                                         *)
(* A frame to the server is handled as it is sent; frames to a tab queue   *)
(* up, and are lost with the connection.  A tab may be killed between any  *)
(* two steps.  Of the server only what a socket can tell is left: the  *)
(* operations stored and the rows that have a receipt.  BoardServer shows  *)
(* that caches, compactions and restarts keep it so.                       *)
(***************************************************************************)
EXTENDS BoardPort, Integers, Sequences, SequencesExt

CONSTANTS
    Browser,
    Tab,       \* Board providers
    Home,      \* Home[t]: the browser of a tab
    Author,    \* Author[o]: the tab whose user makes the edit o
    Faulty,    \* the tabs that faults may strike (bound)
    MaxFaults  \* kills, broken connections, early timeouts, slow reads (bound)

ASSUME HomeAssumption ==
    /\ Home \in [Tab -> Browser] /\ Author \in [Op -> Tab]
    /\ MaxFaults \in Nat

VARIABLES
    disk,     \* per browser: the document log, the outbox rows, the last order
    tab,      \* per tab: the provider's memory
    net,      \* per tab: the frames under way and the server's side of the socket
    made,     \* edits the users have made
    faults    \* faults so far (bounded)

vars == <<server, disk, tab, net, made, faults>>

-----------------------------------------------------------------------------
\* An outbox row.  What its message id is for is to tell a row a rebase writes
\* from those it replaces: the tag does that.
Row(ops, order, tag) == [ops |-> ops, order |-> order, tag |-> tag]
OpsOf(rows) == UNION {m.ops : m \in rows}

NoRebase == [phase |-> "off", shadow |-> {}, covered |-> {}, base |-> {}, delta |-> {}]
NoPass == [phase |-> "off", base |-> {}, stored |-> {}]
Closed ==
    [mode |-> "closed", doc |-> {}, unlogged |-> <<>>, queue |-> <<>>,
     pending |-> {}, flight |-> {}, gaps |-> {}, pass |-> NoPass,
     ready |-> FALSE, sync |-> "off", rebase |-> NoRebase]
NoSocket == [down |-> <<>>, subscribed |-> FALSE, awaiting |-> FALSE]

\* An empty Board that every tab has open and synchronized: the server's last
\* question needed no answer.
Init ==
    /\ content = {}
    /\ settled = {}
    /\ disk = [b \in Browser |-> [log |-> {}, rows |-> {}, order |-> 0, recovery |-> FALSE]]
    /\ tab = [t \in Tab |-> [Closed EXCEPT !.mode = "open", !.ready = TRUE, !.sync = "done"]]
    /\ net = [t \in Tab |-> [NoSocket EXCEPT !.subscribed = TRUE, !.awaiting = TRUE]]
    /\ made = {}
    /\ faults = 0

Becomes(t, r) == tab' = [tab EXCEPT ![t] = r]
Consumes(t) == net' = [net EXCEPT ![t].down = Tail(@)]

\* Apply operations to the document; what is newly integrated goes to the log,
\* unless it was read from there.
Apply(r, ops, logged) ==
    LET new == (Integrated(r.doc \cup ops) \ Integrated(r.doc)) \ logged
    IN  [r EXCEPT !.doc = @ \cup ops,
                  !.unlogged = IF new = {} THEN @ ELSE Append(@, new)]

\* A reconciliation pass begins with the mirror and the rows as they are.
BeginPass(r, rows) ==
    [r EXCEPT !.pass = [phase |-> "read", base |-> r.pending, stored |-> rows]]

\* resetConnectionState; a rebase that is already writing goes on.
ResetConnection(r) ==
    [r EXCEPT !.ready = FALSE, !.sync = "off", !.gaps = {},
              !.flight = {},
              !.rebase = IF @.phase = "persisting" THEN @ ELSE NoRebase]

\* enterRecovery: the tab stops; the signal on disk stops its peers.
Recover(r) == [ResetConnection(r) EXCEPT !.mode = "recovery"]

Running(t) == tab[t].mode = "open"

Fault(t) == t \in Faulty /\ faults < MaxFaults /\ faults' = faults + 1

-----------------------------------------------------------------------------
\* The server's side of a socket.
Socket(down) == [down |-> down, subscribed |-> TRUE, awaiting |-> TRUE]
Frames(ops) == IF ops = {} THEN <<>> ELSE <<[type |-> "step2", ops |-> ops]>>

\* handleSyncStep1: subscribed first, then the parts the tab lacks, then the
\* server's own vector, which entitles the tab to one SYNC_STEP2.
ServeStep1(down, vector) ==
    Socket(down \o Frames(content \ vector) \o <<[type |-> "step1", vector |-> content]>>)

NoRow == Row({}, 0, 0)
Resync(m, verdict) == [type |-> "resync", row |-> m, reason |-> verdict]
Reply(t, frame) == [net EXCEPT ![t].down = Append(@, frame)]

\* broadcastDocument: own is the sender's socket after the reply.  A frame that
\* would tell a tab nothing is left out.
Broadcast(t, u, own) ==
    [p \in Tab |-> IF p = t THEN own
                   ELSE IF net[p].subscribed
                             /\ (~(u \subseteq tab[p].doc) \/ tab[p].rebase.phase # "off")
                   THEN [net[p] EXCEPT !.down = Append(@, [type |-> "update", ops |-> u])]
                   ELSE net[p]]

\* handleSyncStep2: its message id is a digest of the update itself, so a copy
\* stored before adds nothing; it is not acknowledged.
ServeStep2(t, down, u) ==
    LET own == [net[t] EXCEPT !.down = down, !.awaiting = FALSE]
        verdict == Verdict(FALSE, u)
    IN  /\ \/ /\ verdict = "committed"
              /\ content' = content \cup u
              /\ net' = Broadcast(t, u, own)
           \/ /\ verdict = "NO_NEW_INFORMATION"
              /\ net' = [net EXCEPT ![t] = own]
              /\ UNCHANGED content
           \/ /\ verdict = "CAUSAL_GAP"
              /\ net' = [net EXCEPT ![t] = [own EXCEPT !.down = Append(@, Resync(NoRow, verdict))]]
              /\ UNCHANGED content
        /\ UNCHANGED settled

\* handleUpdate: durable first, then broadcast, then acknowledged; a duplicate
\* is broadcast and acknowledged again.  A storage refusal closes the socket, as
\* Disconnect does.
ServeUpdate(t, m) ==
    LET u == m.ops
        verdict == Verdict(m \in settled, u)
        acked == [net[t] EXCEPT !.subscribed = TRUE,
                                !.down = Append(@, [type |-> "ack", row |-> m])]
    IN  /\ Answered(m, u, verdict)
        /\ \/ /\ verdict \in {"CAUSAL_GAP", "NO_NEW_INFORMATION"}
              /\ net' = Reply(t, Resync(m, verdict))
           \/ /\ verdict \in {"committed", "duplicate"}
              /\ net' = Broadcast(t, u, acked)

-----------------------------------------------------------------------------
\* Opening, closing, connecting.
Open(t) ==
    /\ tab[t].mode = "closed"
    /\ LET d == disk[Home[t]]
           loaded == Apply([Closed EXCEPT !.mode = "open", !.doc = d.log,
                                          !.pending = d.rows],
                           OpsOf(d.rows), d.log)
       IN  Becomes(t, IF d.recovery THEN Recover(loaded) ELSE loaded)
    /\ UNCHANGED <<server, disk, net, made, faults>>

Close(t) ==
    /\ tab[t].mode # "closed"
    /\ Fault(t)
    /\ Becomes(t, Closed)
    /\ net' = [net EXCEPT ![t] = NoSocket]
    /\ UNCHANGED <<server, disk, made>>

\* AUTH and READY.
Connect(t) ==
    /\ Running(t)
    /\ ~tab[t].ready
    /\ Becomes(t, [tab[t] EXCEPT !.ready = TRUE, !.sync = "waiting"])
    /\ net' = [net EXCEPT ![t] = NoSocket]
    /\ UNCHANGED <<server, disk, made, faults>>

\* The socket closes: the network, a rate limit, or a storage refusal, after
\* which the server closes it with nothing stored.
Disconnect(t) ==
    /\ tab[t].ready
    /\ Fault(t)
    /\ Becomes(t, ResetConnection(tab[t]))
    /\ net' = [net EXCEPT ![t] = NoSocket]
    /\ UNCHANGED <<server, disk, made>>

-----------------------------------------------------------------------------
\* A local edit, and the two stores it goes to.
Edit(t, o) ==
    /\ Running(t)
    /\ Author[o] = t
    /\ o \notin made
    /\ Deps[o] \subseteq tab[t].doc
    /\ made' = made \cup {o}
    /\ Becomes(t, [Apply(tab[t], {o}, {}) EXCEPT !.queue = Append(@, o)])
    /\ UNCHANGED <<server, disk, net, faults>>

WriteLog(t) ==
    /\ tab[t].unlogged # <<>>
    /\ disk' = [disk EXCEPT ![Home[t]].log = @ \cup Head(tab[t].unlogged)]
    /\ Becomes(t, [tab[t] EXCEPT !.unlogged = Tail(@)])
    /\ UNCHANGED <<server, net, made, faults>>

\* Fault: of the edits coalesced into a row only the last is kept.
LastAlone(queue, n) == {queue[n]}
\* flushLocalUpdateBatch: the edits since the last row become one update.
Coalesced(queue, n) == ToSet(SubSeq(queue, 1, n))

\* drainPersistenceQueue
Enqueue(t) ==
    /\ tab[t].queue # <<>>
    /\ LET home == Home[t]
           order == disk[home].order + 1
       IN  \E n \in 1 .. Len(tab[t].queue) :
              LET m == Row(Coalesced(tab[t].queue, n), order, 0)
              IN  /\ disk' = [disk EXCEPT ![home].rows = @ \cup {m}, ![home].order = order]
                  /\ Becomes(t, [tab[t] EXCEPT !.queue = SubSeq(@, n + 1, Len(@)),
                                               !.pending = @ \cup {m}])
    /\ UNCHANGED <<server, net, made, faults>>

-----------------------------------------------------------------------------
\* requestOutboxReconciliation.  Every commit to the shared stores sends the
\* other tabs a hint, which may come late, and a pass that finds nothing changes
\* nothing: so a pass may begin whenever there is something to find.
Behind(r, d) == d.rows # r.pending \/ ~(d.log \subseteq r.doc) \/ d.recovery

\* Fault: history another tab wrote is adopted without a new handshake.
RestartSyncForgotten(sync) == sync
\* Operations found in the log may be in no row: only a new handshake uploads
\* them.
RestartSync(sync) ==
    CASE sync = "asked" -> "again"
      [] sync = "done" -> "waiting"
      [] OTHER -> sync

\* The mirror follows the rows; what was mirrored before and is gone from the
\* disk was acknowledged to another tab.
Mirrored(r, d) ==
    LET gone == r.pass.base \ r.pass.stored
    IN  [Apply(r, d.log \cup OpsOf(r.pass.stored), d.log) EXCEPT
            !.pending = (@ \ gone) \cup r.pass.stored,
            !.gaps = @ \ gone,
            !.sync = IF d.log \subseteq r.doc THEN @ ELSE RestartSync(@),
            !.pass = NoPass]
\* Fault: a row that has gone stays in flight.
NotPruned(r) == r
PruneInFlight(r) == [r EXCEPT !.flight = @ \cap r.pending]
Adopted(r, d) ==
    LET read == PruneInFlight(Mirrored(r, d))
    IN  IF d.recovery THEN Recover(read) ELSE read

\* The pass waits for the tab's own log writes.
Reconcile(t) ==
    LET d == disk[Home[t]]
    IN  /\ Running(t)
        /\ tab[t].pass.phase = "off"
        /\ tab[t].unlogged = <<>>
        /\ Behind(tab[t], d)
        /\ Becomes(t, Adopted(BeginPass(tab[t], d.rows), d))
        /\ UNCHANGED <<server, disk, net, made, faults>>

\* Fault: what the pass read is adopted after other callbacks of the tab have
\* run, an ACK for one of the rows among them.
SlowRead(t) ==
    /\ Running(t)
    /\ tab[t].pass.phase = "off"
    /\ Fault(t)
    /\ Becomes(t, BeginPass(tab[t], disk[Home[t]].rows))
    /\ UNCHANGED <<server, disk, net, made>>

Adopt(t) ==
    /\ Running(t)
    /\ tab[t].pass.phase = "read"
    /\ tab[t].unlogged = <<>>
    /\ Becomes(t, Adopted(tab[t], disk[Home[t]]))
    /\ UNCHANGED <<server, disk, net, made, faults>>

-----------------------------------------------------------------------------
\* Sending rows.
Before(m, n) == \/ m.order < n.order
                \/ m.order = n.order /\ m.tag < n.tag
Earliest(rows) == {m \in rows : \A n \in rows \ {m} : Before(m, n)}
HasEarlierPending(r, m) == \E n \in r.pending \ {m} : Before(n, m)

\* pumpPendingUpdates, one row at a time; it is armed by whatever makes a row
\* sendable, and re-arms itself while rows are left.
Send(t) ==
    LET r == tab[t]
    IN  /\ Running(t)
        /\ r.ready
        /\ r.rebase.phase = "off"
        /\ r.pass.phase = "off"
        /\ \E m \in Earliest(r.pending \ (r.flight \cup r.gaps)) :
              /\ Becomes(t, [r EXCEPT !.flight = @ \cup {m}])
              /\ ServeUpdate(t, m)
        /\ UNCHANGED <<disk, made, faults>>

\* The ACK timer frees a row whose answer is late.
AckTimeout(t) ==
    /\ Running(t)
    /\ Fault(t)
    /\ \E m \in tab[t].flight : Becomes(t, [tab[t] EXCEPT !.flight = @ \ {m}])
    /\ UNCHANGED <<server, disk, net, made>>

\* maybeStartInitialSync: only with no local work left.
Idle(r) == r.queue = <<>> /\ r.pending = {} /\ r.pass.phase = "off"
StartSync(t) ==
    /\ Running(t)
    /\ tab[t].ready
    /\ tab[t].sync = "waiting"
    /\ tab[t].rebase.phase = "off"
    /\ Idle(tab[t])
    /\ Becomes(t, [tab[t] EXCEPT !.sync = "asked"])
    /\ net' = [net EXCEPT ![t] = ServeStep1(@.down, Integrated(tab[t].doc))]
    /\ UNCHANGED <<server, disk, made, faults>>

-----------------------------------------------------------------------------
\* What a tab does with the server's frames.
Receives(t, type) ==
    /\ Running(t)
    /\ tab[t].ready
    /\ net[t].down # <<>>
    /\ Head(net[t].down).type = type

\* A SYNC_STEP2 part or another tab's UPDATE; a rebase follows the server too.
\* The log write is not waited for when no earlier one is: the server has these
\* operations, so when they reach the local log matters to nobody.
ReceiveOps(t) ==
    \E type \in {"step2", "update"} :
        /\ Receives(t, type)
        /\ LET ops  == Head(net[t].down).ops
               r    == Apply(tab[t], ops, {})
               new  == Integrated(r.doc) \ Integrated(tab[t].doc)
               seen == IF tab[t].rebase.phase \in {"collecting", "preparing"}
                       THEN [r EXCEPT !.rebase.shadow = @ \cup ops] ELSE r
           IN  IF tab[t].unlogged = <<>>
               THEN /\ Becomes(t, [seen EXCEPT !.unlogged = <<>>])
                    /\ disk' = [disk EXCEPT ![Home[t]].log = @ \cup new]
               ELSE /\ Becomes(t, seen)
                    /\ UNCHANGED disk
        /\ Consumes(t)
        /\ UNCHANGED <<server, made, faults>>

\* The server's vector ends the replay a rebase has asked for.
ReplayEnds(t) ==
    LET r == tab[t]
    IN  /\ Receives(t, "step1")
        /\ r.rebase.phase = "collecting"
        /\ IF r.rebase.shadow = Head(net[t].down).vector
           THEN /\ Becomes(t, [r EXCEPT !.rebase.phase = "preparing"])
                /\ Consumes(t)
           ELSE /\ Becomes(t, ResetConnection(r))
                /\ net' = [net EXCEPT ![t] = NoSocket]
        /\ UNCHANGED <<server, disk, made, faults>>

\* completeInitialSyncResponse
Complete(sync) ==
    CASE sync = "asked" -> "done"
      [] sync = "again" -> "waiting"
      [] OTHER -> sync

\* respondToSyncStep1: otherwise it is a question, answered once the outbox has
\* been written and read.  The server takes one answer to its last question: the
\* second of two answers breaks the protocol, and it closes the socket.
AnswerStep1(t) ==
    LET r == tab[t]
        missing == r.doc \ Head(net[t].down).vector
        answered == [r EXCEPT !.sync = Complete(@)]
    IN  /\ Receives(t, "step1")
        /\ r.rebase.phase # "collecting"
        /\ r.queue = <<>>
        /\ r.pass.phase = "off"
        /\ \/ /\ missing = {}
              /\ Becomes(t, answered)
              /\ Consumes(t)
              /\ UNCHANGED server
           \/ /\ missing # {}
              /\ net[t].awaiting
              /\ Becomes(t, answered)
              /\ ServeStep2(t, Tail(net[t].down), missing)
           \/ /\ missing # {}
              /\ ~net[t].awaiting
              /\ Becomes(t, ResetConnection(r))
              /\ net' = [net EXCEPT ![t] = NoSocket]
              /\ UNCHANGED server
        /\ UNCHANGED <<disk, made, faults>>

\* retryCausalGapUpdates: a row that waited for the rows before it is sent
\* again when none of them is left.
RetryGaps(r) ==
    IF r.ready THEN [r EXCEPT !.gaps = {m \in @ \cap r.pending : HasEarlierPending(r, m)}]
               ELSE r

\* handleAck: an ACK for a row no longer mirrored is ignored; otherwise the row
\* leaves the disk once the document log is written.
ReceiveAck(t) ==
    /\ Receives(t, "ack")
    /\ LET m == Head(net[t].down).row
           r == [tab[t] EXCEPT !.pending = @ \ {m}, !.flight = @ \ {m}]
       IN  IF m \notin tab[t].pending THEN UNCHANGED <<tab, disk>>
           ELSE /\ tab[t].unlogged = <<>>
                /\ disk' = [disk EXCEPT ![Home[t]].rows = @ \ {m}]
                /\ Becomes(t, RetryGaps(r))
    /\ Consumes(t)
    /\ UNCHANGED <<server, made, faults>>

\* startCausalGapRebase: forget what is in flight and ask for everything.
StartRebase(t, r) ==
    IF r.rebase.phase # "off"
    THEN Becomes(t, r) /\ Consumes(t)
    ELSE /\ Becomes(t, [r EXCEPT !.flight = {},
                                 !.rebase = [NoRebase EXCEPT !.phase = "collecting"]])
         /\ net' = [net EXCEPT ![t] = ServeStep1(Tail(@.down), {})]

\* Fault: a row the server has all of waits like one that came too early.
GapsAlone(r, m, reason) == reason = "CAUSAL_GAP" /\ ~HasEarlierPending(r, m)
\* A rebase is for a row that brings the server nothing new, or one it lacks
\* something for that no earlier row brings.
NeedsRebase(r, m, reason) ==
    reason = "NO_NEW_INFORMATION" \/ ~HasEarlierPending(r, m)

\* RESYNC_REQUIRED.  For a row no longer mirrored the tab asks what it lacks.
ReceiveResync(t) ==
    /\ Receives(t, "resync")
    /\ LET r == tab[t]
           m == Head(net[t].down).row
           reason == Head(net[t].down).reason
           freed == IF reason = "CAUSAL_GAP" THEN [r EXCEPT !.flight = @ \ {m}] ELSE r
       IN  \/ /\ m \in r.pending
              /\ NeedsRebase(r, m, reason)
              /\ StartRebase(t, freed)
           \/ /\ m \in r.pending
              /\ ~NeedsRebase(r, m, reason)
              /\ Becomes(t, [freed EXCEPT !.gaps = @ \cup {m}])
              /\ Consumes(t)
           \/ /\ m \notin r.pending
              /\ UNCHANGED tab
              /\ net' = [net EXCEPT ![t] = ServeStep1(Tail(@.down), Integrated(r.doc))]
    /\ UNCHANGED <<server, disk, made, faults>>

-----------------------------------------------------------------------------
\* A row may lack what only the log has, when its tab was killed in between.
LocalOps(d) == d.log \cup OpsOf(d.rows)

\* completeCausalGapRebase: once the tab's own writes are out, read both stores,
\* find what the server lacks, and put one row in the place of those it was read
\* from.  The two reads are one step: an edit made between them ends the rebase,
\* as if it had not begun.
ReadStores(t) ==
    LET r    == tab[t]
        rows == disk[Home[t]].rows
        all  == r.rebase.shadow \cup LocalOps(disk[Home[t]])
    IN  /\ r.rebase.phase = "preparing"
        /\ r.queue = <<>>
        /\ r.unlogged = <<>>
        /\ \/ /\ rows = {}
              /\ Becomes(t, [r EXCEPT !.rebase = NoRebase])
              /\ UNCHANGED <<disk, net>>
           \/ /\ rows # {}
              /\ HasPendingDependencies(all)
              /\ disk' = [disk EXCEPT ![Home[t]].recovery = TRUE]
              /\ Becomes(t, Recover(r))
              /\ net' = [net EXCEPT ![t] = NoSocket]
           \/ /\ rows # {}
              /\ ~HasPendingDependencies(all)
              /\ Becomes(t, [r EXCEPT !.rebase =
                    [phase |-> "persisting", shadow |-> {}, covered |-> rows,
                     base |-> r.pending, delta |-> all \ r.rebase.shadow]])
              /\ UNCHANGED <<disk, net>>
        /\ UNCHANGED <<server, made, faults>>

\* Fault: the outbox is rewritten whatever has happened to it meanwhile.
SameRowsUnchecked(t) == TRUE
\* The rows the rebase leaves: its own row at the place of the first it
\* replaces, or, when another tab has changed the outbox, what is there now.
SameRows(t) == disk[Home[t]].rows = tab[t].rebase.covered

Rebased(r, rows, ops) ==
    [Apply(r, ops, {}) EXCEPT !.pending = (@ \ r.rebase.base) \cup rows,
                              !.gaps = @ \ r.rebase.base,
                              !.rebase = NoRebase]

RewriteOutbox(t) ==
    LET r == tab[t]
    IN  /\ r.rebase.phase = "persisting"
        /\ SameRows(t)
        /\ \E replaced \in Earliest(r.rebase.covered) :
              LET new == IF r.rebase.delta = {} THEN {}
                         ELSE {Row(r.rebase.delta, replaced.order, 1 - replaced.tag)}
              IN  /\ disk' = [disk EXCEPT ![Home[t]].rows = new]
                  /\ Becomes(t, Rebased(r, new, r.rebase.delta))
        /\ UNCHANGED <<server, net, made, faults>>

LoseRebase(t) ==
    LET rows == disk[Home[t]].rows
    IN  /\ tab[t].rebase.phase = "persisting"
        /\ ~SameRows(t)
        /\ Becomes(t, Rebased(tab[t], rows, OpsOf(rows)))
        /\ UNCHANGED <<server, disk, net, made, faults>>

-----------------------------------------------------------------------------
TabStep(t) ==
    \/ ReceiveAck(t) \/ AnswerStep1(t) \/ ReplayEnds(t)
    \/ WriteLog(t) \/ Connect(t)
    \/ Send(t) \/ StartSync(t) \/ ReceiveOps(t)
    \/ Enqueue(t) \/ Open(t)
    \/ ReceiveResync(t)
    \/ ReadStores(t) \/ RewriteOutbox(t) \/ LoseRebase(t)
    \/ Reconcile(t) \/ Adopt(t)

Environment(t) ==
    \/ Close(t) \/ Disconnect(t) \/ AckTimeout(t) \/ SlowRead(t)
    \/ \E o \in Op : Edit(t, o)

Next == \E t \in Tab : TabStep(t) \/ Environment(t)

Spec == Init /\ [][Next]_vars

\* What the tabs do of themselves happens: their timers, their callbacks, their
\* sockets and the storage of their browsers work, and their users open the Board
\* again.  That some tab goes on is enough: none goes on for ever without an edit.
FairSpec == Spec /\ WF_<<tab, net>>(\E t \in Tab : TabStep(t))

-----------------------------------------------------------------------------
Rows == [ops : SUBSET Op, order : Nat, tag : {0, 1}]

\* Types, with what every place an operation can be says of the others: a row
\* in flight or waiting is mirrored, and what the server stored has no gap.
BoardSyncTypeOK ==
    /\ ~HasPendingDependencies(content)
    /\ content \subseteq made
    /\ settled \subseteq Rows /\ OpsOf(settled) \subseteq content
    /\ \A b \in Browser : disk[b].rows \subseteq Rows /\ disk[b].log \subseteq made
    /\ \A t \in Tab :
          /\ tab[t].flight \cup tab[t].gaps \subseteq tab[t].pending
          /\ tab[t].pending \subseteq Rows
          /\ tab[t].doc \subseteq made
    /\ faults \in 0 .. MaxFaults

\* An operation leaves the outbox on disk only when the server has it: no ACK,
\* no pass and no rebase, of whichever tab, drops an edit that is not uploaded.
RowOutlivesUpload ==
    [][\A b \in Browser :
          OpsOf(disk[b].rows) \subseteq OpsOf(disk'[b].rows) \cup content']_vars

\* With what the server has, the two stores of a browser make a complete
\* document, in whatever order its tabs wrote, acknowledged and rebased them and
\* wherever they were killed: no edit is left whose cause is nowhere.
StoresComplete ==
    \A b \in Browser : ~HasPendingDependencies(content \cup LocalOps(disk[b]))

\* A tab that has nothing left to do shows what the server stores, and the
\* server stores everything it shows, whatever the other tabs are doing.
Quiet(t) ==
    LET r == tab[t]
    IN  /\ r.ready /\ r.sync = "done"
        /\ Idle(r) /\ r.unlogged = <<>> /\ r.rebase.phase = "off"
        /\ net[t].down = <<>>
        /\ ~Behind(r, disk[Home[t]])
Converged == \A t \in Tab : Quiet(t) => tab[t].doc = content

\* Every row leaves the outbox: it is sent, retried, rebased or found settled,
\* whatever tab holds it and whatever breaks meanwhile.
OutboxDrains == \A b \in Browser : disk[b].rows # {} ~> disk[b].rows = {}

\* A row that waits for the rows before it waits for some that are left.
GapRowIsRetried ==
    \A t \in Tab : \A m \in tab[t].gaps : HasEarlierPending(tab[t], m)

=============================================================================
