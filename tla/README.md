# Formal model of Eduri's collaboration core

Eduri is a tutoring workspace: lesson calls, a collaborative whiteboard, a
collaborative code editor with a shared terminal, and the records around them.
What is hard in it is collaboration: several browsers edit one document offline
and online, a server makes their updates durable and relays them, a terminal is
shared by people who come and go. This directory models that core in TLA+, from
the code under `src/`, checks it with TLC on small instances and proves its
safety with TLAPS for every value of the constants, on the server and in the
browsers.

Paths below are relative to `src/src/` of the repository unless they begin with
`docs/`.

## 1. Inventory

| Component | State it keeps | Operations | Talks to | What makes it correct |
|---|---|---|---|---|
| Code update repository (`server/code-sync/repository.ts`) | a snapshot, update rows after it, counters, idempotency receipts (SQLite) | `appendUpdate`, `loadDocument`, `missingUpdates`, compaction inside the append | called by the code transport | an acknowledged update is never lost, stored twice or answered in two ways; a document always loads; a cold sync always fits |
| Code sync transport and service (`server/code-sync/transport.ts`, `service.ts`; the lesson variant under `server/lesson-code-sync/`) | sockets and rooms, rate scopes, awareness | `SYNC_STEP1`, `UPDATE`, awareness, reauthorization, broadcast | clients by Socket.IO, the repository by calls | every update reaches every socket, in the sync or by broadcast |
| Code sync client (`client/code/guestCodeProvider.ts`, `codeSyncStore.ts`; `lessonCodeProvider.ts`) | the Y.Doc, an IndexedDB log and outbox shared by the tabs of a browser, pending queue, one update in flight, ACK timer | edit, store, sync, pump, ACK, disconnect, reload, failure | transport, IndexedDB, other tabs through the disk | no durable edit is lost; "synchronized" means saved; browsers converge |
| Shared terminal machine (`code/terminal/stateMachine.ts`, `server/code-sync/terminalTransport.ts`, `terminalActionRate.ts`) | mode, input lease, host, active run, sequence and generation, remembered actions; in memory only | claim, release, edit, submit, start, interrupt, eof, host reports, disconnect, profile change | clients by Socket.IO; effects to the host's browser | leases end with their socket; a run has one host and one id; every change is published in order |
| Shared terminal clients (`client/code/terminalActionOutbox.ts`, `code/terminal/protocol.ts`, `client/components/CodeWorkspace.tsx`) | actions awaiting an ACK, a replica, the worker that executes | retry, apply delta, ask for a snapshot, perform an effect, report | the machine | a command runs at most once; replicas catch up; a run ends |
| Code workspace document (`code/core/workspace.ts`) | the file tree and texts in a Y.Doc | create, rename, move, delete, repair of concurrent results | the editors | no cycle, no two entries with one name, no lost file |
| Code blobs (`server/code-blobs/`, `client/code/codeBlobStore.ts`) | files on disk, rows, reservations, scan results | upload, scan, publish, reference, collect | disk, database, scanner | what is referenced exists; nothing unscanned is served; quotas hold |
| Board sync server (`server/board-v2/sync-service.ts`, `repository.ts`, `sync-transport.ts`, `sync-ticket.ts`, `compaction.ts`) | snapshot, rows and receipts (SQLite), the decoded document with a validation shadow (memory), the compaction pass, tickets, sockets | sync, append, evict, compact in the background, issue and use a ticket, revoke | clients by WebSocket, a worker | memory answers what the rows say; a refusal is true; a pass drops no row it has not read; a receipt's answer stays |
| Board sync client (`client/board/networkProvider.ts`, `documentStore.ts`, `localStore.ts`, `ticketSource.ts`, `documentCompaction.ts`) | Y.Doc, a log and an outbox that commit apart, a mirror of the outbox, rows in flight, rows waiting for a gap, rebases, backoff | edit, log, enqueue, reconcile, send, ACK, gap retry, rebase, initial sync, recover | board server, the other tabs through disk and hints | a row is dropped only when it is stored; the outbox empties; a tab that is done shows what is stored; log, outbox and server never lack the cause of an edit |
| Board assets (`server/board-v2/assets.ts`, `client/board/assetOutbox.ts`) and material files (`server/material-files/service.ts`) | files in two phases, rows, grace periods | upload, finalize, reference, delete, collect | disk, database | no dangling reference, no file without owner for good |
| Guest rooms (`server/guestRooms.ts`, `server/routes/guestRooms.ts`) | rooms with a lease, drafts, the call's slot and the generation of its room name, capacity | create, finalize, cancel, add a call, ask for a call token, clean up | every guest service, the media server (SFU) | an occupied room is kept; the call of a deleted room ends |
| Promotion (`client/board/promoteSoloBoard.ts`, `client/code/promoteSoloCode.ts`, `client/promotionFinalization.ts`) | phases in local storage | create the room, upload, verify, finalize | guest rooms, sync clients | a solo document becomes a room exactly once and is deleted locally only after |
| Authentication limits (`server/authRateLimit.ts`, `server/socketAbuse.ts`) | counters, reservations | reserve, settle, expire | routes, sockets | no more attempts than allowed, also while a check is running |
| LiveKit revocation and presence (`server/livekit-revocation.ts`, `server/livekit.ts`, the timers of `server/app.ts`) | SFU rooms still to delete | enqueue, delete, retry; poll who is in which call | guest rooms, the SFU | a late retry spares the next call; a poll's answer is applied to the state it finds |
| Lessons, assignments, people, database, pages, rendering, Python worker, operations | rows and views | single transactions, drawing, plain I/O | | not protocol state |

How they interact: a browser applies an edit to its Y.Doc at once, stores it
(log and outbox in one IndexedDB transaction), and only then sends it; the
server stores it in one SQLite transaction, acknowledges it to the sender and
broadcasts it to the room; the client deletes the outbox row. Each link can
break, and each side continues after an `await` in a state others have changed.
The Board does the same with two stores in place of one transaction, a worker
that compacts while updates arrive, and a rebase where the server refuses a row.
The terminal works the other way round: the server owns its order, browsers
send actions with ids and apply numbered deltas, and one of them executes. A guest
room's call lives in a server of its own, which is asked every minute and told by
a queue of deletions.

The hazards, each at its line, are listed in `PROJECT.json`, together with the
properties that cover them or the reason why none does yet.

## 2. Modules

| Module | Models | Composed of |
|---|---|---|
| `DurableUpdates` | abstract: what the durable half promises a client | |
| `CodeRepository` | `appendUpdate` of one workspace, refines `DurableUpdates` | |
| `CodeRepositoryProofs` | TLAPS proofs about it | `CodeRepository` |
| `CodeSync` | tabs, browsers' disks, sockets and the server's handlers | extends `CodeRepository`, whose actions are the server's calls |
| `CodeSyncProofs` | TLAPS proofs about it: types, durability, "synchronized" | `CodeSync`, `CodeRepositoryProofs` |
| `CodeSyncDeliveryProofs` | TLAPS proofs about the order and the completeness of delivery | `CodeSyncProofs` |
| `TerminalMachine` | the machine of one workspace and the sockets on it | |
| `TerminalMachineProofs` | TLAPS proofs about it | `TerminalMachine` |
| `TerminalHost` | browsers that execute what the machine hands out | extends `TerminalMachine`, whose actions are the server's calls |
| `TerminalHostProofs` | TLAPS proofs about it | `TerminalHost`, `TerminalMachineProofs` |
| `BoardDocument` | what is integrated of a set of operations with dependencies | |
| `BoardPort` | the server as a Board tab sees it: what is stored, which messages are settled, the answer to an update | extends `BoardDocument` |
| `BoardServer` | one Board on the server: rows, cache, shadow, compaction; refines `DurableUpdates` and answers as `BoardPort` says | extends `BoardDocument` |
| `BoardServerProofs` | TLAPS proofs about it | `BoardServer` |
| `BoardSync` | Board tabs with their browser's stores and sockets, and the transport's handlers | extends `BoardPort`, which answers its tabs |
| `BoardSyncProofs` | TLAPS proofs about it | `BoardSync` |
| `GuestRooms` | guest rooms, their calls, token requests, polls and the deletion queue, with the SFU | |
| `GuestRoomsProofs` | TLAPS proofs about it | `GuestRooms` |
| `MCCodeRepository`, `MCCodeSync`, `MCTerminalMachine`, `MCTerminalHost`, `MCBoardServer`, `MCBoardSync`, `MCGuestRooms` | instances for TLC | |

### CodeRepository

A Yjs document is a set of operations. An operation has dependencies and is
*integrated* once they are present; until then Yjs keeps it pending. Encoding a
state keeps integrated operations only, as the repository relies on, which is
why compaction has to wait (`repository.ts:159`, `703`). An update is a set of
operations and stands for its own digest. `appendUpdate` is one immediate
SQLite transaction, so each of its outcomes is one action:

| Action | Code |
|---|---|
| `ReplayReceipt`, `IdempotencyConflict` | the key has a receipt (592-606) |
| `ReceiptQuotaReached`, `GuestQuotaReached` | 842-882 |
| `DuplicateDigest` | the same bytes under another key, in the log or in a compacted receipt (613-652) |
| `EmptyUpdate` | nothing new (654-675) |
| `InvalidUpdate`, `LogQuotaReached`, `ResourceInactive` | refusals, all rolled back |
| `CommitCompacted`, `CommitLogged` | 690-836 |

`Loadable` is the check `loadDocument` makes. `Bytes` is any function of a set
of operations. The constructor's checks are `PolicyAssumption`.

### CodeSync

One action is one callback of a tab or one handler call of the server. What a
tab awaits is explicit: `writes` is the store's `writeTail`, whose entries are
local and remote writes and the continuations of `finishInitialSync` and
`handleAck` queued behind them, so that a disconnect, an edit or a timer may come
in between. `disk` is IndexedDB: it outlives a tab and is shared by the tabs of
a browser, and `Open` and `Start` read it in two steps, as `load` and
`listPendingUpdates` do. `up` and `down` are the two directions of a socket, FIFO;
a disconnect empties both, but a prefix of what was sent may still reach the
server (`late`). `AckTimeout` may fire while an answer is under way, within a
bound. The server's handlers are atomic, as Node runs them, and call
`StoreUpdate` of `CodeRepository` in the same step.

Left out: awareness, profiles, error texts, reauthorization (a socket that loses
its right is a disconnect followed by silence), ingress limits.

### TerminalMachine

A dispatched action is one step: rate limit, deduplication by action id,
`apply`, `packageResult`, and what the transport emits, which is the variable
`result` (the ACK, whether a delta or a snapshot is published, the effect and
its target). `Disconnect` is the transport's handler together with the
machine's; the last one to leave discards the machine, and the next has a new
epoch, which stands for `runEpoch`. Input is one of three kinds of line; the
transcript, prompt and cursor are left out, so `HostOutput` may or may not
change anything. `Repaired` models the two places where `submitLine` meets an
inconsistent state, resets it and answers a rejection.

### TerminalHost

`executeSharedTerminalEffect` of `client/components/CodeWorkspace.tsx` is one
asynchronous handler per effect. A handler is a member of `host[b].tasks` and its
`awaits` is the `await` it stands at; what it does up to the next one is one step.
The refs the handlers share are `exec` (`executingSharedRunIdRef`), `intr`
(`pythonInterruptRunIdRef`) and `py` (`pythonTerminalRef` and its mode); `live`
says that `terminalExecutionEpochRef` has not moved since the handler began, and
`runtime` which worker it holds: the current one, one that another handler has
put its own in the place of, or a closed one.

| Action | Code |
|---|---|
| `Receive` | the effect's handler up to its first `await` (1521-1674) |
| `Synced`, `Prepared`, `Started`, `Tested`, `Waited`, `Applied`, `Flushed`, `Lost` | its continuations; each may also throw, which is `Fails` |
| `Returns`, `Asks`, `TimesOut`, `Dies` | the worker, as `pythonTerminal.ts` presents it |
| `Renders` | the layout effect that ends everything when the connection has changed or permission is gone (1212-1246) |
| `Connects`, `Loses`, `Drops` | the provider's connection, and the server's later discovery that it is gone |
| `Risks`, `Recovers` | a local write that fails, a later one that does not |
| `Acts`, `Handles` | users, and the server's handler, which is `Apply` of `TerminalMachine` |

What a line is (a built-in, a script, bare `py`, a Python line that stays or
leaves) is the host's choice. Users do what the shown mode allows, up to
`MaxActs` times; `up` and `down` are FIFO. Left out: output, the retries and the
rate limit of actions, the contents of a file delta (`delta` says whether there
is one), leaving the page.

### BoardServer

`appendUpdate` of `sync-service.ts` and the repository's transaction under it run
synchronously, so an append is one action with four outcomes: `ReplayReceipt` (the
message id has a receipt), `RefuseUpdate` (a gap, an invalid document, nothing
new), `StorageRefusal` (a quota, the disk, SQLite, a closed guest room) and
`StoreUpdate`. The validation shadow takes the update first (`Applied`), so the
refusals put it back (`ResetShadow`). `Evict` drops what is cached, `Restart`
everything but the rows. A compaction is three actions, because a worker reads
the rows and anything may happen before its snapshot is written:
`CompactionStart`, `CompactionRead`, `CompactionWrite`; it may give up at any
point, and `Schedule` notes a request that comes in meanwhile. A document is the
set of its operations; `Illegal` are the sets that break the Board's schema.

`Port` maps the rows and receipts to `BoardPort`: `AnswersAreTrue` says that every
answer is `Port!Answered` or a refusal for a reason of its own, after which nothing
has changed, and that nothing else (an eviction, a compaction, a restart) changes
what is stored. A refused message is not settled: the code keeps no receipt of it.

### BoardSync

One action is one callback of a tab or one handler of the server. The log
(`disk[b].log`) and the outbox (`disk[b].rows`) commit apart and are shared by the
tabs of a browser. A tab's record holds its document, the edits not yet logged, the
edits not yet in the outbox, the mirror of the outbox (`pending`), the rows sent
(`flight`) and those that wait after `CAUSAL_GAP` (`gaps`), the pass that
reconciles mirror and disk, the state of the initial sync and the rebase.

| Action | Code (`networkProvider.ts` unless named) |
|---|---|
| `Edit`, `WriteLog`, `Enqueue` | the document's update, its log entry (`documentStore.ts:372`), its outbox row (1011) |
| `Reconcile`, `SlowRead`, `Adopt` | `requestOutboxReconciliation`, whose reads may be old when they are adopted (1758-1931) |
| `Send`, `AckTimeout`, `ReceiveAck`, `RetryGaps` | the pump, its timer, an ACK and what it wakes (2199-2382, 1561) |
| `StartSync`, `ReceiveOps`, `AnswerStep1`, `ReplayEnds`, `Complete` | STEP1 and STEP2 in both directions |
| `ReceiveResync`, `StartRebase`, `ReadStores`, `RewriteOutbox`, `LoseRebase` | a refusal, the full replay it asks for, and the new row that replaces those the replay covers (1593-2176, `localStore.ts:390`) |
| `ServeStep1`, `ServeStep2`, `ServeUpdate` | the server's handlers and the broadcast (`sync-transport.ts:844-1018`) |
| `Open`, `Close`, `Connect`, `Disconnect` | the tab is opened, killed, connected, cut off |

What is abstracted: the server is `BoardPort`, and `ServeUpdate` is its `Answered`
with the broadcast of `sync-transport.ts`; a frame to the server is handled
as it is sent, while frames to a tab queue up and are lost with the connection; a
hint between tabs may come late, so `Behind` (mirror and disk differ) is what
makes a pass worth taking; a row is its operations, its place and a tag in the
place of its message id; `ReadStores` reads both stores in one step. Tabs begin
open and synchronized on an empty Board. Left out: tickets, permission changes,
failed local writes, answers cut into several frames, awareness, the client's own
compaction of its log.

### GuestRooms

The deadlines are states rather than clock values: a lease is live, late (the two
minutes in which presence is still confirmed) or over; a draft falls due; a call's
slot is reserved by a token request, present when the last poll saw somebody, or
lapsed. The actions that end a period carry the inequalities of the code as
guards: a call seen occupied was renewed together with the room's 48 hours, so
its 15-minute slot lapses first (`LeaseEnds`); a request to the SFU gives up after
5 s, so it outlives neither the slot it reserved (`CallLapses`) nor the late
minutes (`LateMinutesEnd`); polls run every 60 s, so one begins and ends within
the two late minutes, and unless it was lost it renews the room or deletes it
(`missed` remembers the lost ones).

| Action | Code |
|---|---|
| `Create`, `FinalizeDraft`, `CancelDraft`, `EnsureCall`, `CleanUp` | `guestRooms.ts:194-385`, `616-715` |
| `RequestToken`, `CreateRoom`, `CreateRoomFails`, `CheckAndIssue`, `DeleteAgain`, `DeleteAgainFails` | POST call-token, one action to each `await` (`routes/guestRooms.ts:370-476`) |
| `PollStarts`, `SfuAnswers`, `PollFails`, `PollApplies` | `pollGuestCallPresence` (`livekit.ts:195-241`) with the three calls it makes when the answer is in |
| `Revoke` | one row of the deletion queue (`livekit-revocation.ts:87-179`) |
| `Join`, `Leave`, `TokenExpires`, `EmptyRoomCloses` | the SFU, external |
| `Restart` | the process; requests and the poll are lost, rows and queue stay |

`unsure` are the SFU rooms about which a failed call left only a line in the log.

## 3. Runs

| Run | Instance | What it asks |
|---|---|---|
| `code_repository` | 6 keys, 5 updates and the empty one, a chain, a delete set, a conflicting pair | are acknowledged updates kept, stored once, loadable, served, compacted, and is `DurableUpdates` implemented |
| `code_sync_browsers` | 2 browsers, 3 edits that build on each other, fairness, 1 disconnect, 1 update refusal | do causes reach the server first, do quiet tabs agree, does the outbox drain, do tabs catch up |
| `code_sync_one_browser` | 2 tabs of one browser, 2 edits, one of every failure: write, socket, tab, sync refusal, timer | is only durable data sent, is a durable edit kept, is "synchronized" saved |
| `code_sync_shared_outbox` | 2 tabs of one browser, independent edits | violation: such tabs need not converge (below) |
| `terminal_machine` | 2 sockets, every action, 5 changes, 2 runs, 2 machines | do mode, lease and run fit together, are changes published, do runs stay with their host |
| `terminal_host_browsers` | 2 browsers, 2 connections, 3 user actions, a Python that dies | does a worker get one command at a time, are a script's files written before its run ends, does anything from before a reconnection write files |
| `terminal_host_stop` | 1 browser, 3 user actions, fairness, a dying Python, a failing local write, an overlong failure | does a run that is stopped end |
| `terminal_host_at_risk` | 1 browser, 2 user actions, a failing local write | violation: Stop need not end a run (below) |
| `board_server` | 4 messages, 2 senders, operations that depend on and exclude each other, refusals, failed writes, evictions, compactions, restarts | does memory answer what the rows say, do all prefixes integrate, is every update answered as the stored document decides (`BoardPort`), is `DurableUpdates` implemented |
| `board_sync` | 2 tabs of one browser, 2 edits of one tab, 1 fault, fairness | does a row outlive its upload, does a tab that is done show what is stored, does the outbox empty, do log, outbox and server always make a complete document |
| `board_sync_stuck` | 2 tabs of one browser, an edit by each | violation: a row can wait for a predecessor that is gone (below) |
| `guest_rooms` | 1 room, 2 guests, 1 slot, 2 generations, 1 failure or restart, fairness | is an occupied room kept, does a late deletion spare the next call, does the call of a deleted room end |

Every bound is a constant. Why they are enough: the repository's thresholds are 2
and 3 rows, so five updates compact, pend and reach the hard boundary; three
edits in a chain give an update whose cause is in flight, in the outbox of
another browser, or in the answer to a sync; each failure may strike at any
point, and the recovery from it is complete before the run ends, so a second
failure of the same kind mostly repeats the first (the failures are combined
with each other instead); five terminal changes suffice to start a run, ask for
input, answer it, finish at a Python prompt and start over. With one remembered
action the terminal's memory evicts all the time. Three user actions are a
Python, a line in it and a signal that crosses its result, or a run, a Stop and a
second run whose handler meets the first one's; two connections let a browser come
back before the server has noticed that it was gone. The limits on workspace bytes
and receipts are reached in `code_repository`.

Two rows of the log are enough for a Board to compact, and four messages to
compact, refuse, store and compact again with one pass overtaking the other. The
fault of `board_sync` (a kill, a broken connection, an early timer, a slow read)
strikes the tab that edits, at any point of it; what the other tab does meanwhile
is unrestricted. One guest room has two calls, one under each generation, so that
everything left of the first can meet the second; with one room `MaxRooms` and
`MaxCalls` never refuse, and what the global limits do is left to the proofs,
which hold for any number of rooms.

`CHECK_DEADLOCK FALSE` is set where the system really stops: a workspace whose
keys are all used, tabs with nothing left to do within the bounds, a terminal at
its bound of changes, users who have done what they may, rows that are all uploaded,
rooms that are all gone.

**Fairness.** `code_sync_browsers` assumes weak fairness of each callback: a
promise settles, a frame of a live socket is read, the ACK timer fires, a
disconnected socket reconnects (Socket.IO retries without limit), the server
handles what it has read. Opening a tab, typing, closing, failing and refusing
are not fair; they are bounded. `Close` may still end any tab, so both
properties are about tabs that stay open. Sync refusals are zero in this run:
the code never repeats a refused `SYNC_STEP1` (`transport.ts:526`), and with one
of them `TabsCatchUp` is not to be had; the hazard list says so.

`terminal_host_stop` assumes that frames of a live socket are read, promises
settle, React renders, the server handles what it has read and notices who is
gone, and that a command has a time limit (`pythonTerminal.ts:631`). A program
need not end by itself, nobody has to type, no storage has to recover.
`StopEndsRun` excepts the two cases in which the code does not keep it: a host that
has become read-only, and a worker's failure message longer than an action may
carry (`pythonTerminal.ts:424`, `code/terminal/protocol.ts:253`). It asks that the
terminal becomes free after the Stop; that this means the stopped run's end, and not
another run's, is `RunsAreApart` (section 4).

`board_sync` assumes only that as long as some tab can go on, some tab does: no
timer, promise or socket waits for ever while nothing else happens either, and a
closed Board is opened again (`TabStep` contains `Open`), as rows of a browser nobody
opens again stay where they are. Which tab goes on, and with what, is free: the steps
a tab takes of itself come to an end, so none needs a fairness of its own.
`guest_rooms` assumes that a request to the SFU ends (the client's 5 s time-out)
and that the deletion timer retries until the SFU answers. Polls and clean-up need
no fairness, as `CallEndsWithRoom` speaks of rooms already deleted.

**Disagreements found.** `docs/CODE_WORKSPACE_ARCHITECTURE.md:676` says that
concurrent operations converge under duplicate, delayed and reordered updates.
Two tabs of one browser are an exception: a tab that opens while the other
stores an edit loads the document before it and the outbox after it. It then
sends an update it does not show, is excluded from the broadcast as its sender,
and when the author's own copy arrives it is a duplicate that is not broadcast.
Both tabs are online and synchronized, with different documents, until one
reconnects.

`docs/BOARD_CONTROLS.md:2514` says that clicking Stop interrupts the shared run and
(2520) that the button then returns to `F9`. When a local write of the host fails,
its workspace becomes read-only with its socket still connected. It closes its
worker, forgets the run, and drops reports and effects alike, so the server keeps
a run that nobody executes; Stop has no effect for anybody, not even after the
storage has recovered, until the host's connection ends.

`docs/BOARD_PROTOCOL_V1.md:133` says that a row refused for a gap is retried after
an earlier row receives a durable ACK. That holds when the ACK comes to the same
tab. When it comes to another tab of the browser, this tab sees the row gone in a
reconciliation, which retries nothing (`networkProvider.ts:1871`); only
`handleAck` does (1589). The row then waits in this tab until another ACK or a
reconnect, while the other tab, which mirrors it, usually sends it; with both tabs
alive the outbox still empties (`OutboxDrains`).

Two more are visible in `GuestRooms`, in larger instances or without a property.
With two rooms and one slot TLC finds more occupied calls than `MaxCalls`
(`docs/BOARD_ARCHITECTURE.md:2089`): a slot that lapses a moment after its people
joined is not counted until the next poll renews it. And a request that awaits
`createRoom` while a poll releases the lapsed slot recreates the abandoned room
and gives out a token for it, because `isResourceActive` does not compare the
generation; nothing polls that room. Both are in the hazard list.

Two narrower races are in the model and not excluded by a property. Ctrl-C that
the server accepts while a Python line which left Python (`exit()`) is having its
files written finds no REPL any more: the host gives the run up
(`CodeWorkspace.tsx:1530`) while the line's handler goes on and still writes them,
which is why `FilesBelongToTheRun` speaks of scripts. Ctrl-D that arrives after the
line it was meant for ends the host's Python, and the shared prompt does not learn
of it (1593).

## 4. Proofs

`CodeRepositoryProofs` proves, for every document, policy and set of keys:
type correctness; acknowledged updates are durable; the document always loads; the
cold sync always fits; updates are stored once; the log stays compact; at the
hard boundary only a compacting commit is accepted; and `CodeRepository` implements
`DurableUpdates`. The assumptions are those of the module: dependencies are
transitive, the seed is complete and valid, the policy is one the constructor
accepts. The inductive invariant `IInv` adds to the checked invariants that the
log is numbered without gaps and counted, and that a digest has one sequence:
durability alone is not inductive, because a duplicate is answered from a row
that must still be the row of that digest. `DocumentAlwaysLoads` covers all of
`loadDocument`'s checks, the byte counter too: `BytesOf` is the sum that
`loadDocument` makes, a function defined by recursion over the rows, which exists
and agrees with any longer one by induction on their number (`BytesAddUp`,
`BytesOfFurtherRow`, by the library's induction over sets of naturals). Read from
a log that grew by a row, it grew by the row's bytes.

`CodeSyncProofs` proves, for any browsers, tabs per browser and edits, with every
failure the module has: the type invariant; what a tab sends is durable; a durable
edit is kept; "synchronized" means saved. `SyncInv` follows an operation from the
keyboard to the server. The type of each place (a write queue, the pending queue,
a channel) is a set of operations that may be there (`TabOver`): those stored, those
in the browser's log or outbox, those typed in this tab and nowhere else. These sets
only grow, except for the outbox row an acknowledgement removes, whose operation is
stored by then; so what waits in a queue stays true (`TabMonotone`), however late it
is read. What a tab's fields say of each other is `Sound`: `queuedLocalWrites` counts
at least what the document shows and neither the outbox nor the server has. That
count is why `Synchronized` can be trusted when another tab of the browser
acknowledges an edit of this one. The server's half is `IInv` of
`CodeRepositoryProofs`.

`CodeSyncDeliveryProofs` proves, first, that as long as no local write has failed the
server never meets an update before one it depends on (`CauseFirst`): the outbox, the
pending queue, the tab's local writes and what is under way are each in causal
order, relative to what the server has (`Ordered`). Second, that tabs which are
synchronized with nothing under way agree with the server (`QuietAgree`), provided
each browser has one tab. From the moment the answer to a tab's sync is on its way,
its document and the frames behind it hold all the server has (`Told`). The proviso
is a hypothesis of the theorem and not an assumption of the module, because without
it the statement is false: that is what `code_sync_shared_outbox` shows. The module's
assumptions are that a tab has a browser, an edit an author, and that `NoOp`, which
stands for JavaScript's `null`, is neither an edit nor a tab.

Last, `CodeSyncProofs` composes the two modules. Whatever browsers and sockets do,
the server goes through the steps of `CodeRepository` or answers nobody
(`SyncUsesRepository`; `ServerIdle` also forgets the last reply, which is why this is
not literally `Spec`). The lemmas of `CodeRepositoryProofs` are stated of such steps,
and `SyncKeepsPromise` cites them: under the transport and its tabs `DurableUpdates`
is implemented, acknowledged updates are durable and stored once, the document loads,
a cold sync fits and the log stays compact. None of it has to be checked again on the
runs of `CodeSync`.

`TerminalMachineProofs` proves, for any sockets, actions and limits: types and
limits, coherent modes, leases held by connected sockets only and fresh run ids (four
theorems that follow from `TerminalInvariant`); every visible change is numbered and published; a run
never changes hands; a rejected action changes nothing. The four invariants are
proved together: that the repairs are never taken rests on `ModeCoherent`, that a
new run is not the active one rests on `RunsAreFresh`. `GoodStep` collects what
one dispatched action has to satisfy; there is one lemma for each kind of action.

`TerminalHostProofs` proves, for any browsers, sockets, runs and user actions: the
type invariant, with one command at a time in a worker; no handler from before a
reconnection writes files once the reconnection is rendered; a script's files are
written before its run ends at the server, unless the server has lost its host. The
first invariant, `Shared`, says what browsers and server have between them: a socket
belongs to one browser and is used once, a handler whose epoch is current belongs to
the connection that is shown, and the runs counted so far and the user actions still
under way are at most what users did (`RunsAskedFor`), which is why the run counter
keeps its bound.

`MachineAmongHosts` carries over what is proved of the machine alone: browsers drive
it by the same actions, so its invariants and action properties hold while real
handlers report, fail and disconnect. `RunsAreApart` adds that a step never exchanges
one run for another, which is what lets `StopEndsRun` speak of a free terminal.

For the third result `FilesInv` adds the order of runs: each that is anywhere has been
counted, concerns one socket and reaches it after the runs before it, and its effects
agree on whether a REPL runs it. On top of it stands what the server waits for: a
start that is under way is of a run it still holds (`StartsAwaited`), and so is a
script that its browser executes (`ScriptHeld`). A script whose browser no longer
executes it (an interrupt has cleared `executingSharedRunIdRef`) may still be at an
`await`. It must not become the executed one again once another run is active, and
only a REPL's signal could make it so; hence `ScriptGivenUp`: its run is over, or held, or no
REPL is left. Handlers are described once: `GoesOn`, `EndsHandler`, `Receives` and
`RunStep` say what a step of a handler, an arriving effect or an action at the server
may come to, each continuation is proved to be one of these, and the invariants are
proved of them.

`BoardServerProofs` proves, for any operations, schema, messages and threshold:
type correctness; every prefix of what is served integrates; the document in
memory is what the rows hold and the shadow equals it; a log worth compacting has
a pass to come; every update is answered as the stored document decides
(`ServerAnswersTruly`); `BoardServer` implements `DurableUpdates`.
`IInv` adds two facts to the checked invariants: what the worker has read is the
content up to its high-water mark (`CandidateIsPrefix`), without which writing it
could lose rows, and what a receipt answers is in the content (`ReceiptsAreStored`).
That answers are true rests on `CacheIsStored`: they are decided on the shadow, and
true of what is stored only because the two agree. `ServerAnswersTruly` is also what
joins the two halves of the Board. `BoardSync` is built on `BoardPort`, and
`BoardServer` is shown to take, seen through `Port`, only the steps of it. Two things
stay on paper there: `BoardSync` counts as settled only rows of an outbox (a
SYNC_STEP2 has a digest of its update for its message id, so its copy adds nothing
whether it is recognised or not),
and it has no refusal of the `Declined` kind, which would close the socket.

`BoardSyncProofs` proves, for any browsers, tabs, edits and dependencies: the type
invariant, and that an edit leaves the outbox on disk only when the server has it
(`RowOutlivesUpload`). Frames, receipts and disks are typed by the operations they may
hold (`Frame(content)`, `RowsOver(made)`): so the row an ACK names is stored, however
late the ACK is. `Sound` adds what one tab's memory says of itself: the replay a rebase
collects is on the server, and the rows it is about to replace consist of what it
writes and what the server has, which together with `SameRows` is why the rewrite
loses nothing; nothing is in flight during a rebase, without which a row could be in
flight and no longer mirrored. `StepOf` and `SocketStep` say what one tab's step has to
show; there is one lemma for each action. A second inductive invariant, `StoresInv`,
gives `StoresComplete`: the log, the outbox and the server make a complete document
(`Known` is what they hold between them). It needs to know what a tab has still to
write: a queued edit has its causes in `Known` or before it in the queue, so an
outbox row made of the first edits of the queue completes itself (`EnqueueStores`),
and so do the log writes in line, because what Yjs integrates has its causes
integrated (`ApplyInOrder`); what a pass or a rebase has read stays in `Known`,
however old it is. The assumptions are that tabs have a browser and edits an author,
that the causes of a cause are causes, and that the bound on faults is a natural
number.

A third, `FlowInv`, gives `Converged`. It says of one tab what is owed between its
document and the server, and who owes it. Downwards (`Informed`): once its handshake
has begun, whatever the server stores is in the document or in a frame under way
(`Arriving`), which is what subscribing before answering buys. Upwards (`Uploads`):
whatever the document shows is stored, in a row of the outbox or in the edit queue,
or a handshake is still to come, or a question of the server is under way whose answer
uploads it (`Asked`). The last one is delicate in two places. The replay of a rebase
takes one SYNC_STEP1 for its own end, so during a rebase it needs two questions, and
`startCausalGapRebase` provides the second. And a RESYNC_REQUIRED is a question only
when its row is not one of the outbox: `NoRow`, the answer to a SYNC_STEP2, has no
order, the rows all have one (`Numbered`). Operations a pass finds in the log and in no
row are nobody's debt until `RestartSync` makes them the next handshake's. A frame
changes what other tabs are owed only by adding to it (`OthersFlow`, `GrownKeeps`).

`FlightIsAnswered` is the safety core of the client's `OutboxDrains`: a row in flight
has its ACK or RESYNC_REQUIRED in the socket for as long as the connection lasts, and
nothing is in flight without one, so the upload of the outbox never waits for an
answer nobody will send. It is inductive over `Sound`; its delicate steps are the
frames that free a row (each takes only the row it names) and a reconnect (which
empties `flight` with the socket). That the server answers each row it is sent is part
of the step `Send`, and is what `ServerAnswersTruly` shows of the server.

`StoresComplete` is about the server as it is now. The check in `ReadStores`
(networkProvider.ts:2106) compares the stores with the replay the rebase has
collected, which may be behind: with two tabs, a third edit and a kill, a row whose
operations the rebasing tab has not received yet can be acknowledged to the other tab
and leave the outbox before its operations are in the log, and the rebase then finds
an incomplete document and goes to recovery. So "no tab is ever stopped for recovery",
which holds with two edits of one tab, is no property of this code and is not stated.
Nothing is lost in that schedule: `StoresComplete` holds throughout, and
`RowOutlivesUpload` with it.

`GuestRoomsProofs` proves, for any rooms, guests and capacities: type
correctness; deletions spare new calls; occupied rooms are kept. The inductive
invariant says of every room name in the SFU, in a token or in a request that it
was handed out (`HandedOut`): it is older than the call's present name, or the
call holds its slot, or the room is gone. What is queued for deletion is older or
gone (`RevokedIsOver`), which is why it never hits the next name. That a poll's
targets are current (`TargetsAreCurrent`, as only the poll rotates names) and that
a room with a call is over only after a lost poll (`OverIsMissed`) give the action
property. The assumptions are finite sets of rooms and guests and natural bounds.

`GoneCallIsPursued` is the safety core of `CallEndsWithRoom`: the name of a deleted
room's call is in the SFU only while it is queued for deletion, in the hands of a
token request that checks its room before it answers, or left by a failed call or a
lost request, which the code only logs (`unsure`). The step it turns on is `deleteRoomContent` against a request that awaits
`createRoom`: the room is created after its deletion, by the request that then deletes
it again.

Type invariants of `CodeRepository` and `BoardServer` are proved and not checked by
a run any more. Every safety property that a passing run checks is stated by a theorem;
`QuietTabsAgree` is proved for one tab in each browser, as it is checked. Only
model-checked is what is outside the prover's reach: liveness (`OutboxDrains` of both
clients, `TabsCatchUp`, `StopEndsRun`, `CallEndsWithRoom`) and ENABLED. Induction is
used where the library states it over a set of naturals, as in `BytesAddUp`; theorems
that take an operator as a parameter cannot be instantiated.

## 5. Plan

In order of importance:

1. `SharedTerminal`: `terminalActionOutbox` (three attempts, a newer edit
   supersedes, cleared on disconnect) and the replicas that apply deltas or ask
   for a snapshot, composed with `TerminalMachine`: a command runs at most once, a
   replica at the server's position equals it, replicas catch up. With the rate
   limit, whether a host's report can be lost while its connection lasts.
2. Board tickets (used once) and revocation, permission changes in `BoardSync`,
   the client's recovery bundles.
3. `StoredFiles`: blobs, assets and material files as one two-phase protocol of
   disk and database with crashes, quotas, references and collection. Abstract: a set
   of files that are published atomically.
4. `Promotion` across reloads and lost answers; what a guest room's deletion does
   to live Board and Code services.
5. `AuthLimits`, `SocketAbuse`: counters with reservations and expiring windows;
   lesson rooms in the deletion queue.
6. Pure algorithms: the repair of the file tree (`code/core/workspace.ts`), order
   keys (`board/core/zOrder.ts`), against reference definitions over bounded inputs.
7. Proofs: `FlightIsAnswered` and `GoneCallIsPursued` are the safety cores of two
   liveness properties; the ones of `CodeSync`'s `OutboxDrains` and of `StopEndsRun`
   are still to be stated.

Runs stay within a few minutes each; where a composition grows too large its
components are checked alone and composed with their abstractions.

## 6. Not modelled, and why

Rendering, geometry, pages, the call's media, CSS and start-up code keep no
protocol state. Single-row CRUD routes are one transaction each. Yjs, SQLite,
IndexedDB, Socket.IO and LiveKit are external: they appear as the code under
`src/` relies on them (sets of operations, atomic transactions, FIFO sockets that
lose what is in them, an SFU that knows rooms and participants). Of guest rooms the
tombstones, owners, rate limits, lobby and profiles are left out, of the deletion
queue its batches and back-off, and lesson rooms, which rotate a key of their own. Cryptography and parsing of frames are abstracted: a frame
that does not parse is not sent by any client modelled here.

## 7. Running it

`tlc -workers 2 -config <run>.cfg <module>.tla` for a run, `tlapm <module>.tla`
for a proof module; `PROJECT.json` lists every run with its module, properties
and mutants, and maps each definition to the lines it models.
