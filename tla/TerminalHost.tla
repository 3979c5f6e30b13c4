----------------------------- MODULE TerminalHost -----------------------------
(***************************************************************************)
(* The browsers of the shared terminal: TerminalMachine, the connections   *)
(* to it, and in each browser the code of                                  *)
(* client/components/CodeWorkspace.tsx that executes what the machine      *)
(* hands to its host, with the runtime of client/pythonTerminal.ts.        *)
(*                                                                         *)
(* A handler of an effect is asynchronous: between two awaits it is one    *)
(* step, and what it does after an await depends on what happened in       *)
(* between.  What a command is (a built-in, a script, a line for Python)   *)
(* is a choice of the host.  The retries of terminalActionOutbox.ts are    *)
(* left out: an action is sent once, and the machine remembers none.       *)
(***************************************************************************)
EXTENDS TerminalMachine, FiniteSets

CONSTANTS
    Browser,    \* tabs that have the workspace open
    MaxActs,    \* bound on what users do
    Faults      \* what may go wrong, once each: of "risk", "long", "idle"

ASSUME HostAssumption ==
    /\ None \notin Browser
    /\ MaxActs \in Nat /\ MaxActs <= MaxRun
    /\ Faults \subseteq {"risk", "long", "idle"}

VARIABLES
    sock,    \* the socket of a browser's provider
    risk,    \* status.durability is "at-risk"
    host,    \* what CodeWorkspace keeps in its refs, its handlers and its runtime
    up,      \* actions on their way to the server, per socket
    down,    \* effects on their way to the browser, per socket
    used,    \* sockets used so far
    acts,    \* what users have done so far
    faulty   \* what has gone wrong so far

hostVars == <<vars, sock, risk, host, up, down, used, acts, faulty>>

Kind == {"builtin", "script", "test", "repl", "line", "exit", "interrupt", "eof"}

\* A handler that has not ended: its effect's run, what it executes, the socket the
\* effect came over, whether executionEpoch is still current, its runtime (that of
\* pythonTerminalRef, one that another handler has put its own in the place of, or a
\* closed one), what it awaits, and whether the worker answered its command.
Task == [run : RunId, kind : Kind, sock : Socket, live : BOOLEAN,
         runtime : {"none", "current", "displaced", "closed"},
         awaits : {"sync", "prepare", "start", "ready", "test", "command", "rewind",
                   "apply", "flush"},
         delta : BOOLEAN]

NoRuntime == [mode |-> "none", interrupted |-> FALSE, asking |-> FALSE]

Idle == [shown |-> None, readOnly |-> FALSE, exec |-> None, intr |-> None,
         py |-> NoRuntime, tasks |-> {}]

HostInit ==
    /\ Init
    /\ sock = [b \in Browser |-> None]
    /\ risk = [b \in Browser |-> FALSE]
    /\ host = [b \in Browser |-> Idle]
    /\ up = [s \in Socket |-> <<>>]
    /\ down = [s \in Socket |-> <<>>]
    /\ used = {}
    /\ acts = 0
    /\ faulty = {}

-----------------------------------------------------------------------------
\* terminalReadOnlyRef is FALSE: as last rendered, online and not at risk.
Usable(h) == h.shown # None /\ ~h.readOnly

\* requireActiveRun, and canApply.
IsActive(h, t) == h.exec = t.run /\ Usable(h) /\ t.live

\* The handler whose command the runtime executes; that of another handler.
Commands(h) == {t \in h.tasks : t.runtime = "current" /\ t.awaits \in {"command", "rewind"}}
IsBusy(h, t) == \E u \in Commands(h) : <<u.run, u.kind>> # <<t.run, t.kind>>

\* The runtime leaves pythonTerminalRef, by close() (who waits for it gets "cancelled")
\* or for another one.
Parted(h, how) ==
    [h EXCEPT !.py = NoRuntime,
              !.tasks = {IF t.runtime = "current" THEN [t EXCEPT !.runtime = how] ELSE t
                           : t \in @}]
Closed(h) == Parted(h, "closed")
ClosedBy(h, t) == IF t.runtime = "current" THEN Closed(h) ELSE h

\* The finally block.
Ended(h, t) ==
    [h EXCEPT !.tasks = {u \in @ : <<u.run, u.kind>> # <<t.run, t.kind>>},
              !.exec = IF @ = t.run THEN None ELSE @,
              !.intr = IF @ = t.run THEN None ELSE @]

\* runtime.interrupt()
Interrupted(h) ==
    IF Commands(h) = {} THEN h
    ELSE [h EXCEPT !.py.interrupted = TRUE, !.py.asking = FALSE]

\* A step of browser b that leaves it in h and dispatches an action, which the
\* component drops when it is read-only and the provider when it is offline.
Dispatches(b, h, action) ==
    /\ host' = [host EXCEPT ![b] = h]
    /\ up' = IF Usable(h) /\ sock[b] # None
             THEN [up EXCEPT ![sock[b]] = Append(@, action)] ELSE up
    /\ UNCHANGED <<vars, sock, risk, acts>>
Becomes(b, h) ==
    /\ host' = [host EXCEPT ![b] = h]
    /\ UNCHANGED <<vars, sock, risk, up, acts, faulty>>
\* The handler goes on to its next await.
Awaits(b, h, t, what) ==
    Becomes(b, [h EXCEPT !.tasks = {u \in @ : <<u.run, u.kind>> # <<t.run, t.kind>>}
                                      \cup {[t EXCEPT !.awaits = what]}])

Ready(b, h, t, mode) ==
    /\ Dispatches(b, Ended(h, t),
                  [type |-> "host-ready", run |-> t.run, mode |-> mode,
                   test |-> IF t.kind = "test" THEN CHOOSE x \in Test : TRUE ELSE None])
    /\ UNCHANGED faulty

\* The catch block.  The handler of Ctrl-D closes its runtime.
Fails(b, h, t) ==
    /\ Dispatches(b, Ended(IF t.kind = "eof" THEN ClosedBy(h, t) ELSE h, t),
                  [type |-> "host-failed", run |-> t.run])
    /\ UNCHANGED faulty

\* A worker may fail to start with a message of 4096 units; an action with more than
\* 2048 does not parse.
FailsAtLength(b, h, t) ==
    /\ "long" \in Faults \ faulty
    /\ Dispatches(b, Ended(h, t), [type |-> "invalid"])
    /\ faulty' = faulty \cup {"long"}

-----------------------------------------------------------------------------
\* Fault: the result is reported before the files are written.
RunResultReportsFirst(b, h, t, status, mode) ==
    \/ ~IsActive(h, t) /\ Fails(b, h, t)
    \/ /\ IsActive(h, t) /\ status # "bad" /\ mode # "repl"
       /\ Dispatches(b, [h EXCEPT !.tasks =
                            {u \in @ : <<u.run, u.kind>> # <<t.run, t.kind>>}
                               \cup {[t EXCEPT !.awaits = "apply"]}],
                     [type |-> "host-ready", run |-> t.run, mode |-> "shell", test |-> None])
       /\ UNCHANGED faulty
    \/ IsActive(h, t) /\ status # "bad" /\ mode = "repl" /\ Ready(b, h, t, "python")
    \/ IsActive(h, t) /\ status = "bad" /\ Fails(b, ClosedBy(h, t), t)

\* What a handler does with the result of a command: "ok" from the worker, "other"
\* for a runtime error or a command the runtime refused (busy, invalid-state), "bad" for
\* one that was interrupted or whose worker is gone.
RunResult(b, h, t, status, mode) ==
    LET g       == IF t.awaits = "rewind" THEN [h EXCEPT !.intr = None] ELSE h
        rewinds == g.intr = t.run /\ mode = "repl"
    IN  \/ ~IsActive(h, t) /\ Fails(b, h, t)
        \/ /\ IsActive(h, t) /\ rewinds
           /\ \/ ~IsBusy(g, t) /\ Awaits(b, [g EXCEPT !.py.interrupted = FALSE], t, "rewind")
              \/ IsBusy(g, t) /\ Ready(b, g, t, "python")
        \/ /\ IsActive(h, t) /\ ~rewinds
           /\ \/ status = "bad" /\ Fails(b, ClosedBy(g, t), t)
              \/ status # "bad" /\ mode # "repl" /\ Awaits(b, g, t, "apply")
              \/ status # "bad" /\ mode = "repl" /\ Ready(b, g, t, "python")

SignalResult(b, h, t, status, mode) ==
    \/ /\ t.kind = "interrupt"
       /\ \/ IsActive(h, t) /\ status = "ok" /\ Ready(b, h, t, "python")
          \/ ~(IsActive(h, t) /\ status = "ok") /\ Fails(b, h, t)
    \/ /\ t.kind = "eof"
       /\ LET goesOn == status = "ok" /\ mode = "shell" /\ h.exec = t.run /\ Usable(h)
          IN  \/ goesOn /\ Awaits(b, h, t, "apply")
              \/ ~goesOn /\ Fails(b, h, t)

Result(b, h, t, status, mode) ==
    \/ t.kind \in {"interrupt", "eof"} /\ SignalResult(b, h, t, status, mode)
    \/ t.kind \notin {"interrupt", "eof"} /\ RunResult(b, h, t, status, mode)

\* Fault: a command is issued whether or not one is active.
IssueAnyway(b, h, t) ==
    LET fits    == h.py.mode = IF t.kind \in {"script", "repl"} THEN "shell" ELSE "repl"
        current == [t EXCEPT !.runtime = "current"]
    IN  \/ fits /\ Awaits(b, [h EXCEPT !.py.interrupted = FALSE], current, "command")
        \/ ~fits /\ Result(b, h, current, "other", h.py.mode)

\* issue: one command at a time, and only in the mode it is for.
Issue(b, h, t) ==
    LET fits    == /\ ~IsBusy(h, t)
                   /\ h.py.mode = IF t.kind \in {"script", "repl"} THEN "shell" ELSE "repl"
        current == [t EXCEPT !.runtime = "current"]
    IN  \/ fits /\ Awaits(b, [h EXCEPT !.py.interrupted = FALSE], current, "command")
        \/ ~fits /\ Result(b, h, current, "other", h.py.mode)

-----------------------------------------------------------------------------
\* The awaits of a handler, each with what may come of it.
Synced(b, t) ==
    LET h == host[b]
    IN  /\ t.awaits = "sync"
        /\ \/ Fails(b, h, t)
           \/ /\ IsActive(h, t)
              /\ \/ t.kind = "builtin" /\ Ready(b, h, t, "shell")
                 \/ t.kind = "test" /\ Awaits(b, h, t, "test")
                 \/ /\ t.kind \in {"line", "exit"} /\ h.py.mode = "starting"
                    /\ Awaits(b, h, [t EXCEPT !.runtime = "current"], "ready")
                 \/ /\ t.kind \in {"line", "exit"} /\ h.py.mode \in {"shell", "repl"}
                    /\ Issue(b, h, t)
                 \/ /\ t.kind \in {"script", "repl"} \/ h.py.mode = "none"
                    /\ t.kind \notin {"builtin", "test"}
                    /\ Awaits(b, [Closed(h) EXCEPT !.intr = None], t, "prepare")

\* ensurePythonTerminal takes the files and starts a worker, also when another handler
\* has started one since.
Prepared(b, t) ==
    LET h == host[b]
    IN  /\ t.awaits = "prepare"
        /\ \/ Fails(b, h, t)
           \/ /\ t.live /\ Usable(h)
              /\ Awaits(b, [Parted(h, "displaced") EXCEPT !.py.mode = "starting"],
                        [t EXCEPT !.runtime = "current"], "start")

Started(b, t) ==
    LET h == host[b]
        started == [h EXCEPT !.py.mode = "shell"]
    IN  /\ t.awaits = "start" /\ t.runtime = "current"
        /\ \/ Fails(b, Closed(h), t)
           \/ FailsAtLength(b, Closed(h), t)
           \/ ~IsActive(h, t) /\ Fails(b, started, t)
           \/ IsActive(h, t) /\ Issue(b, started, t)

\* issue in a runtime that another handler was still starting.
Waited(b, t) ==
    /\ t.awaits = "ready" /\ t.runtime = "current"
    /\ host[b].py.mode # "starting"
    /\ Issue(b, host[b], t)

Tested(b, t) ==
    LET h == host[b]
    IN  /\ t.awaits = "test"
        /\ \/ Fails(b, h, t)
           \/ IsActive(h, t) /\ Ready(b, h, t, "shell")

\* The worker ends the command of a handler; its runtime is in the mode it leaves.
Returned(b, t) ==
    LET h       == host[b]
        current == t.runtime = "current"
        results == IF current /\ h.py.interrupted THEN {"bad"} ELSE {"ok", "other"}
        modes   == IF t.awaits = "rewind" THEN {"repl"}
                   ELSE CASE t.kind = "line" -> {"shell", "repl"}
                          [] t.kind \in {"repl", "interrupt"} -> {"repl"}
                          [] OTHER -> {"shell"}
    IN  /\ t.awaits \in {"command", "rewind"}
        /\ t.runtime = "displaced" \/ (current /\ ~h.py.asking)
        /\ \E mode \in modes, status \in results :
              Result(b, IF current THEN [h EXCEPT !.py = [NoRuntime EXCEPT !.mode = mode]] ELSE h,
                     [t EXCEPT !.delta = TRUE], status, mode)

\* The runtime of a handler was closed under it, or displaced before it was ready.
Lost(b, t) ==
    /\ \/ t.runtime = "closed" /\ t.awaits \in {"start", "ready", "command", "rewind"}
       \/ t.runtime = "displaced" /\ t.awaits \in {"start", "ready"}
    /\ Fails(b, host[b], t)

\* applyTerminalWorkspaceDelta: the files the worker has written go into the document.
Applied(b, t) ==
    LET h == host[b]
    IN  /\ t.awaits = "apply"
        /\ \/ Fails(b, h, t)
           \/ IsActive(h, t) /\ Awaits(b, h, t, "flush")

Flushed(b, t) ==
    LET h == host[b]
    IN  /\ t.awaits = "flush"
        /\ \/ Fails(b, h, t)
           \/ IsActive(h, t) /\ Ready(b, ClosedBy(h, t), t, "shell")

Goes(b) ==
    /\ \E t \in host[b].tasks :
          \/ Synced(b, t)
          \/ Prepared(b, t)
          \/ Started(b, t)
          \/ Waited(b, t)
          \/ Tested(b, t)
          \/ Lost(b, t)
          \/ Applied(b, t)
          \/ Flushed(b, t)
    /\ UNCHANGED down

\* A program ends by itself, or asks for input, or its time is up; a worker without a
\* command may die too, and nobody notices.
Returns(b) == (\E t \in host[b].tasks : Returned(b, t)) /\ UNCHANGED down

Asks(b) ==
    LET h == host[b]
        asking == [h EXCEPT !.py.asking = TRUE]
    IN  /\ ~h.py.asking
        /\ \E t \in Commands(h) : t.awaits = "command" /\ t.kind \in {"script", "line"}
        /\ \/ /\ h.exec # None /\ h.intr # h.exec
              /\ Dispatches(b, asking, [type |-> "host-input-request", run |-> h.exec])
              /\ UNCHANGED faulty
           \/ (h.exec = None \/ h.intr = h.exec) /\ Becomes(b, asking)
        /\ UNCHANGED down

TimesOut(b) ==
    /\ \/ Commands(host[b]) # {} /\ Becomes(b, Closed(host[b]))
       \/ \E t \in host[b].tasks :
             /\ t.runtime = "displaced" /\ t.awaits \in {"command", "rewind"}
             /\ Result(b, host[b], t, "bad", "closed")
    /\ UNCHANGED down

Dies(b) ==
    /\ "idle" \in Faults \ faulty
    /\ host[b].py.mode = "repl" /\ Commands(host[b]) = {}
    /\ host' = [host EXCEPT ![b] = Closed(@)]
    /\ faulty' = faulty \cup {"idle"}
    /\ UNCHANGED <<vars, sock, risk, up, down, acts>>

-----------------------------------------------------------------------------
\* executeSharedTerminalEffect up to its first await.
StartsHandler(b, h, e, kinds, awaits) ==
    \E kind \in kinds :
        LET t == [run |-> e.run, kind |-> kind, sock |-> sock[b], live |-> TRUE,
                  runtime |-> "none", awaits |-> awaits, delta |-> FALSE]
            g == [h EXCEPT !.exec = e.run]
        IN  IF awaits = "sync" THEN Awaits(b, g, t, "sync") ELSE Issue(b, g, t)

ReceiveRun(b, h, e) ==
    StartsHandler(b, h, e,
        IF e.type = "start-run" THEN IF e.test = None THEN {"script"} ELSE {"test"}
        ELSE IF e.python THEN {"line", "exit"} ELSE {"builtin", "script", "repl"},
        "sync")

\* Fault: without a REPL nothing is answered.
PythonInterruptUnanswered(b, h, e) ==
    LET g == [h EXCEPT !.intr = e.run]
    IN  \/ h.py.mode # "repl" /\ Becomes(b, h)
        \/ h.py.mode = "repl" /\ h.exec = e.run /\ Becomes(b, Interrupted(g))
        \/ h.py.mode = "repl" /\ h.exec # e.run
           /\ StartsHandler(b, g, e, {"interrupt"}, "issue")

\* Ctrl-C in Python: what runs is interrupted, an idle prompt is reset.
ReceivePythonInterrupt(b, h, e) ==
    LET g == [h EXCEPT !.intr = e.run]
    IN  \/ /\ h.py.mode # "repl"
           /\ Dispatches(b, h, [type |-> "host-failed", run |-> e.run])
           /\ UNCHANGED faulty
        \/ h.py.mode = "repl" /\ h.exec = e.run /\ Becomes(b, Interrupted(g))
        \/ h.py.mode = "repl" /\ h.exec # e.run
           /\ StartsHandler(b, g, e, {"interrupt"}, "issue")

ReceiveInterrupt(b, h, e) ==
    LET g == [h EXCEPT !.exec = None, !.intr = None]
    IN  \/ h.exec # e.run /\ Becomes(b, h)
        \/ /\ h.exec = e.run
           /\ Becomes(b, IF h.py.mode = "starting" THEN Closed(g) ELSE Interrupted(g))

\* Ctrl-D: end of input for a program that asks, the end of an idle Python.
ReceiveEof(b, h, e) ==
    \/ h.py.mode # "none" /\ h.exec = e.run /\ Becomes(b, [h EXCEPT !.py.asking = FALSE])
    \/ h.py.mode = "repl" /\ h.exec # e.run /\ StartsHandler(b, h, e, {"eof"}, "issue")
    \/ h.py.mode = "none" /\ Becomes(b, h)
    \/ h.py.mode \notin {"none", "repl"} /\ h.exec # e.run /\ Becomes(b, h)

Receive(b) ==
    /\ sock[b] # None /\ down[sock[b]] # <<>>
    /\ down' = [down EXCEPT ![sock[b]] = Tail(@)]
    /\ LET h == host[b]
           e == Head(down[sock[b]])
       IN  \/ ~Usable(h) /\ Becomes(b, h)
           \/ /\ Usable(h)
              /\ \/ e.type \in {"start-run", "execute-line"} /\ ReceiveRun(b, h, e)
                 \/ e.type = "interrupt" /\ e.python /\ ReceivePythonInterrupt(b, h, e)
                 \/ e.type = "interrupt" /\ ~e.python /\ ReceiveInterrupt(b, h, e)
                 \/ e.type = "eof" /\ ReceiveEof(b, h, e)
                 \/ e.type = "submit-input" /\ Becomes(b, [h EXCEPT !.py.asking = FALSE])

\* Fault: only a change to read-only ends what runs.
RendersPermission(b) ==
    LET h    == host[b]
        next == [h EXCEPT !.shown = sock[b], !.readOnly = risk[b]]
    IN  /\ next # h
        /\ host' = [host EXCEPT ![b] =
              IF Usable(h) /\ ~Usable(next)
              THEN [Closed(next) EXCEPT !.exec = None, !.intr = None,
                       !.tasks = {[t EXCEPT !.live = FALSE] : t \in @}]
              ELSE next]
        /\ UNCHANGED <<vars, sock, risk, up, down, acts, faulty>>

\* CodeWorkspace is rendered after its connection or its permission has changed: what
\* ran before is invalid, also when the change is already undone.
Renders(b) ==
    LET h    == host[b]
        next == [h EXCEPT !.shown = sock[b], !.readOnly = risk[b]]
        kill == h.shown # sock[b] \/ (Usable(h) /\ ~Usable(next))
    IN  /\ next # h
        /\ host' = [host EXCEPT ![b] =
              IF kill THEN [Closed(next) EXCEPT !.exec = None, !.intr = None,
                               !.tasks = {[t EXCEPT !.live = FALSE] : t \in @}]
              ELSE next]
        /\ UNCHANGED <<vars, sock, risk, up, down, acts, faulty>>

-----------------------------------------------------------------------------
\* A user types a command or an answer, presses F9 or Test, Ctrl-C or Ctrl-D, as the
\* mode that is shown allows; what happens before the action arrives is not shown.
UserActions ==
    [type : {"submit-line"}, line : IF term.mode = "busy" THEN {} ELSE {"command"}]
        \cup [type : {"start-run"}, test : IF term.mode = "shell" THEN Test \cup {None} ELSE {}]
        \cup [type : IF term.mode = "shell" THEN {} ELSE {"interrupt", "eof"}]
Acts(b) ==
    /\ Usable(host[b]) /\ sock[b] # None
    /\ acts < MaxActs
    /\ acts' = acts + 1
    /\ \E a \in UserActions : up' = [up EXCEPT ![sock[b]] = Append(@, a)]
    /\ UNCHANGED <<vars, sock, risk, host, down, faulty>>

\* The server handles the next action of a socket it still counts as connected; an
\* action that does not parse is answered with a rejection.
Handles(s) ==
    /\ s \in open /\ up[s] # <<>>
    /\ LET a == Head(up[s])
       IN  \/ a.type = "invalid" /\ Refused
           \/ a.type # "invalid" /\ Apply(s, a)
    /\ up' = [up EXCEPT ![s] = Tail(@)]
    /\ down' = IF result'.effect = None THEN down
               ELSE LET e == result'.effect
                    IN  [down EXCEPT ![e.target] = Append(@,
                            [type |-> e.type, run |-> e.run, python |-> term'.pythonRun,
                             test |-> term'.runTest])]
    /\ UNCHANGED <<open, remembered, sock, risk, host, acts, faulty>>

\* The provider connects, with a socket that has not been used yet.
Connects(b) ==
    /\ sock[b] = None /\ used # Socket
    /\ LET s == CHOOSE s \in Socket \ used : TRUE
       IN  /\ Connect(s)
           /\ sock' = [sock EXCEPT ![b] = s]
           /\ used' = used \cup {s}
    /\ UNCHANGED <<risk, host, up, down, acts, faulty>>

\* The provider loses its connection; the server finds out later.
Loses(b) ==
    /\ sock[b] # None
    /\ sock' = [sock EXCEPT ![b] = None]
    /\ UNCHANGED <<vars, risk, host, up, down, acts, faulty, used>>

Drops(s) ==
    /\ s \in open /\ \A b \in Browser : sock[b] # s
    /\ Disconnect(s)
    /\ up' = [up EXCEPT ![s] = <<>>]
    /\ down' = [down EXCEPT ![s] = <<>>]
    /\ UNCHANGED <<sock, risk, host, acts, faulty, used>>

\* A local write of the document fails, and a later one does not.
Risks(b) ==
    /\ "risk" \in Faults \ faulty
    /\ risk' = [risk EXCEPT ![b] = TRUE]
    /\ faulty' = faulty \cup {"risk"}
    /\ UNCHANGED <<vars, sock, host, up, down, acts, used>>
Recovers(b) ==
    /\ risk[b]
    /\ risk' = [risk EXCEPT ![b] = FALSE]
    /\ UNCHANGED <<vars, sock, host, up, down, acts, faulty, used>>

HostNext ==
    \/ \E b \in Browser :
          \/ Connects(b) \/ Loses(b) \/ Risks(b) \/ Recovers(b)
          \/ /\ \/ Acts(b) \/ Receive(b) \/ Renders(b) \/ Goes(b)
                \/ Returns(b) \/ Asks(b) \/ TimesOut(b) \/ Dies(b)
             /\ UNCHANGED used
    \/ \E s \in Socket : Drops(s) \/ (Handles(s) /\ UNCHANGED used)

\* Frames arrive, promises settle, a command has a time limit, React renders, and the
\* server notices who is gone.  Nobody has to type, and no program has to end.
HostFairness ==
    /\ \A b \in Browser :
          /\ WF_hostVars(Receive(b) /\ UNCHANGED used)
          /\ WF_hostVars(Renders(b) /\ UNCHANGED used)
          /\ WF_hostVars(Goes(b) /\ UNCHANGED used)
          /\ WF_hostVars(TimesOut(b) /\ UNCHANGED used)
    /\ \A s \in Socket : WF_hostVars(Drops(s)) /\ WF_hostVars(Handles(s) /\ UNCHANGED used)

HostSpec == HostInit /\ [][HostNext]_hostVars /\ HostFairness

-----------------------------------------------------------------------------
\* The parts of a browser keep their types, and its runtime executes one command at a
\* time, also when a late Ctrl-C meets the next line.
HostTypeOK ==
    /\ \A b \in Browser :
          /\ sock[b] \in Socket \cup {None} /\ risk[b] \in BOOLEAN
          /\ host[b].tasks \subseteq Task
          /\ {host[b].exec, host[b].intr} \subseteq RunId \cup {None}
          /\ host[b].py.mode \in {"none", "starting", "shell", "repl"}
          /\ Cardinality(Commands(host[b])) <= 1
    /\ acts <= MaxActs /\ faulty \subseteq Faults

\* Handler t of browser b writes its worker's files into the document.
Writes(b, t) ==
    /\ t.awaits = "apply" /\ t.delta
    /\ \E u \in host'[b].tasks : u.run = t.run /\ u.kind = t.kind /\ u.awaits = "flush"

\* A script writes its files before its run ends at the server, unless the server has
\* lost its host: whoever runs next starts from a document with these files.  (A line
\* that leaves Python may write them later: Ctrl-C gives up its run without stopping it.)
FilesOfActiveRun ==
    \A b \in Browser : \A t \in host[b].tasks :
        Writes(b, t) /\ t.kind = "script" => term.run = t.run \/ t.sock \notin open
FilesBelongToTheRun == [][FilesOfActiveRun]_hostVars

\* Once a reconnection is rendered, nothing that was started before it writes files.
FilesOfThisConnection ==
    \A b \in Browser : \A t \in host[b].tasks :
        Writes(b, t) => t.sock = sock[b] \/ host[b].shown # sock[b]
NoFilesAfterReconnect == [][FilesOfThisConnection]_hostVars

\* Ctrl-C or Stop was accepted for the active run.
Stopped == result.effect # None /\ result.effect.type = "interrupt"
\* A run that is stopped ends, whatever its program does, as long as its host keeps its
\* permission and its failures are reported in messages of legal length.  (One run is
\* never followed by another without the terminal being free in between.)
StopEndsRun == Stopped ~> term.run = None \/ faulty \cap {"risk", "long"} # {}

\* What the documentation says of Stop, without these conditions.
StopAlwaysEndsRun == Stopped ~> term.run = None
=============================================================================
