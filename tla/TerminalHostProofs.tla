-------------------------- MODULE TerminalHostProofs --------------------------
(***************************************************************************)
(* Proofs about TerminalHost for any browsers, sockets, runs and faults.   *)
(*                                                                         *)
(* Shared is what the browsers and the server keep between them: sockets   *)
(* are not shared, a valid handler belongs to the connection that is       *)
(* shown, and users have asked for every run that was counted.             *)
(*                                                                         *)
(* FilesInv adds the order of runs (each concerns one socket, and reaches  *)
(* it after the runs before it) and what the server still waits for while  *)
(* a browser executes a script.                                            *)
(*                                                                         *)
(* A handler's step is described once, by GoesOn and EndsHandler, an       *)
(* effect that arrives by Receives, and an action the server handles by    *)
(* RunStep; the invariants are proved of these.                            *)
(***************************************************************************)
EXTENDS TerminalHost, TerminalMachineProofs, FiniteSetTheorems

-----------------------------------------------------------------------------
\* The parts of a browser, and what travels between it and the server.
HostAction ==
    [type : {"invalid", "interrupt", "eof"}]
        \cup [type : {"submit-line"}, line : Line]
        \cup [type : {"start-run"}, test : Test \cup {None}]
        \cup [type : {"host-input-request", "host-failed"}, run : RunId]
        \cup [type : {"host-ready"}, run : RunId, mode : {"shell", "python"},
              test : Test \cup {None}]

\* What the server hands to a browser.
HostEffect ==
    [type : {"execute-line", "start-run", "interrupt", "eof", "submit-input"},
     run : RunId, python : BOOLEAN, test : Test \cup {None}]

\* The Pyodide worker behind a browser's terminal.
Runtime == [mode : {"none", "starting", "shell", "repl"}, interrupted : BOOLEAN,
            asking : BOOLEAN]

\* The refs, handlers and runtime of one page.
HostState == [shown : Socket \cup {None}, readOnly : BOOLEAN,
              exec : RunId \cup {None}, intr : RunId \cup {None},
              py : Runtime, tasks : SUBSET Task]

\* A handler is known by its run and its kind.
Same(t, u) == t.run = u.run /\ t.kind = u.kind

\* What a handler of its kind can wait for.
FitsKind(t) ==
    /\ t.kind = "test" => Test # {}
    /\ t.kind = "eof" => t.awaits \in {"command", "apply", "flush"}
    /\ t.awaits = "ready" => t.kind \in {"line", "exit"}

\* A browser whose runtime executes one command at a time.
Sound(h) ==
    /\ h \in HostState
    /\ \A t \in h.tasks : FitsKind(t)
    /\ \A t, u \in h.tasks : Same(t, u) => t = u
    /\ \A t, u \in Commands(h) : t = u

\* The types of the variables that TerminalHost adds to the machine.
HostTypes ==
    /\ sock \in [Browser -> Socket \cup {None}]
    /\ risk \in [Browser -> BOOLEAN]
    /\ host \in [Browser -> HostState]
    /\ \A b \in Browser : Sound(host[b])
    /\ up \in [Socket -> Seq(HostAction)]
    /\ down \in [Socket -> Seq(HostEffect)]
    /\ used \subseteq Socket
    /\ acts \in Nat /\ acts <= MaxActs
    /\ faulty \subseteq Faults

\* Sockets are used once: each belongs to one browser, and one that is gone carries nothing.
SocketsApart ==
    /\ open \subseteq used
    /\ \A s \in Socket \ open : up[s] = <<>> /\ down[s] = <<>>
    /\ \A b \in Browser :
          /\ sock[b] \in open \cup {None}
          /\ host[b].shown \in used \cup {None}
          /\ \A t \in host[b].tasks : t.sock \in used
    /\ \A b, c \in Browser : b # c =>
          /\ sock[b] # None => sock[b] # sock[c] /\ \A t \in host[c].tasks : t.sock # sock[b]
          /\ \A t \in host[b].tasks, u \in host[c].tasks : t.sock # u.sock

\* Rendering another connection invalidates the handlers of the one before
\* (runtimeGenerationRef in CodeWorkspace.tsx).
LiveHere ==
    \A b \in Browser : \A t \in host[b].tasks : t.live =>
        /\ host[b].shown # None
        /\ t.sock # sock[b] => host[b].shown # sock[b]

\* The actions of users on their way to the server.
Pending == {p \in Socket \X Nat : p[2] \in DOMAIN up[p[1]] /\ up[p[1]][p[2]].type \in UserTypes}

\* Every run was asked for by a user.
RunsAskedFor ==
    /\ IsFiniteSet(Pending)
    /\ Cardinality(Pending) + term.nextRun <= acts + 1

-----------------------------------------------------------------------------
\* No REPL is up, and no command that is running brings one up.
QuietRepl(h) ==
    /\ h.py.mode # "repl"
    /\ \A t \in Commands(h) : t.kind \notin {"line", "repl", "interrupt"} /\ t.awaits # "rewind"

\* A host's report that its run is over.
IsReport(a) == a.type \in {"host-ready", "host-failed"}

\* An effect that starts a run.
IsStart(e) == e.type \in {"execute-line", "start-run"}

\* A report of run r is on its way.
Reported(r, s) == \E i \in DOMAIN up[s] : IsReport(up[s][i]) /\ up[s][i].run = r

\* The server still waits for what socket s reports of its run r, which is not a REPL's.
Holds(r, s) == term.run = r /\ term.host = s /\ ~term.pythonRun /\ ~Reported(r, s)

\* The server has no run r any more, and sends nothing about it.
Over(r, s) == term.run # r /\ \A i \in DOMAIN down[s] : down[s][i].run # r

\* The server has counted run r: it is one of this life of the machine.
Counted(r) == r.epoch = term.epoch /\ r.count < term.nextRun

\* A run is known if this life of the machine, or an earlier one, has counted it.
Numbered(r) == Counted(r) \/ r.epoch < term.epoch

\* Every run that is anywhere is known, and the active one is the last that was counted.
RunsKnown ==
    /\ term.run # None => term.run.count = term.nextRun - 1
    /\ \A s \in Socket : \A i \in DOMAIN down[s] : Counted(down[s][i].run)
    /\ \A b \in Browser : \A t \in host[b].tasks :
          /\ Numbered(t.run)
          /\ t.sock \in open => Counted(t.run)
    /\ \A s \in Socket : \A r \in RunId : Reported(r, s) => Numbered(r)

\* A run concerns one socket: its host's.
OneTarget ==
    /\ \A s \in Socket : \A i \in DOMAIN down[s] :
          /\ down[s][i].run = term.run => s = term.host
          /\ \A z \in Socket : \A j \in DOMAIN down[z] : down[s][i].run = down[z][j].run => s = z
    /\ \A b \in Browser : \A t \in host[b].tasks :
          /\ t.run = term.run => t.sock = term.host
          /\ \A s \in Socket : \A i \in DOMAIN down[s] : t.run = down[s][i].run => t.sock = s

\* Runs reach a socket in the order they were counted, and a run's start before the
\* rest of it.
InOrder ==
    \A s \in Socket : \A j \in DOMAIN down[s] :
        LET e == down[s][j]
        IN  /\ \A i \in 1 .. j - 1 : down[s][i].run.count <= e.run.count
                                    /\ (IsStart(e) => down[s][i].run.count < e.run.count)
            /\ \A b \in Browser : \A t \in host[b].tasks : t.sock = s =>
                    t.run.count <= e.run.count /\ (IsStart(e) => t.run.count < e.run.count)

\* All effects of a run agree on whether a REPL runs it.
EffectsAgree ==
    \A s \in Socket : \A i \in DOMAIN down[s] :
        /\ down[s][i].type = "start-run" => ~down[s][i].python
        /\ down[s][i].run = term.run => down[s][i].python = term.pythonRun
        /\ \A j \in DOMAIN down[s] :
              down[s][i].run = down[s][j].run => down[s][i].python = down[s][j].python

\* A run whose start is on its way is still held by the server.
StartsAwaited ==
    \A s \in Socket : \A i \in DOMAIN down[s] :
        IsStart(down[s][i]) /\ ~down[s][i].python => Holds(down[s][i].run, s)

\* Nothing but its own end of input runs beside a script.
ScriptAlone(b, t) ==
    /\ \A u \in host[b].tasks : u.run = t.run => u.kind \in {"script", "eof"}
    /\ \A i \in DOMAIN down[t.sock] : down[t.sock][i].run = t.run => ~down[t.sock][i].python
    /\ term.run = t.run => ~term.pythonRun

\* The server holds the run of a script that its browser executes.
ScriptHeld(b, t) == host[b].exec = t.run => Holds(t.run, t.sock)

\* A script that its browser no longer executes is over, or still held, or no REPL is left
\* there whose interrupt could make its run the executed one again.
ScriptGivenUp(b, t) ==
    t.sock = sock[b] =>
        \/ Over(t.run, t.sock)
        \/ /\ host[b].exec \in {None, t.run}
           /\ host[b].exec # t.run => Holds(t.run, t.sock) \/ QuietRepl(host[b])
           /\ \A u \in host[b].tasks :
                 u.kind = "eof" /\ u.run = t.run /\ u.runtime # "current" => QuietRepl(host[b])

\* So it is for every valid script whose socket is open.
ScriptsHeld ==
    \A b \in Browser : \A t \in host[b].tasks :
        t.kind = "script" /\ t.live /\ t.sock \in open =>
            ScriptAlone(b, t) /\ ScriptHeld(b, t) /\ ScriptGivenUp(b, t)

-----------------------------------------------------------------------------
\* What one action of a connected socket does to the active run: it keeps it and its
\* host, ends it if the action is the host's report of it, or starts the next one.
KeepsRun ==
    /\ term'.nextRun = term.nextRun /\ term'.run = term.run
    /\ term.run # None => term'.host = term.host /\ term'.pythonRun = term.pythonRun
    /\ result'.effect # None =>
          /\ term.run # None
          /\ result'.effect.run = term.run /\ result'.effect.target = term.host
          /\ ~IsStart(result'.effect)

\* The host's report of the active run ends it.
EndsRun(s, a) ==
    /\ term'.nextRun = term.nextRun /\ term'.run = None /\ result'.effect = None
    /\ IsReport(a) /\ a.run = term.run /\ s = term.host

\* A user's action starts the next run.
StartsRun ==
    /\ term.run = None /\ term'.run = NextRunId /\ term'.nextRun = term.nextRun + 1
    /\ result'.effect # None
    /\ result'.effect.run = NextRunId /\ result'.effect.target = term'.host
    /\ result'.effect.type = "start-run" => ~term'.pythonRun

\* There is nothing else it may do.
RunStep(s, a) ==
    /\ term'.epoch = term.epoch
    /\ \/ KeepsRun
       \/ EndsRun(s, a)
       \/ a.type \in UserTypes /\ StartsRun

\* An effect of the machine is not None, and a change without one has none.
LEMMA EffectFields ==
    ASSUME IInv, NEW next \in MachineState, next.host \in Socket, next.run \in RunId,
           NEW type \in {"execute-line", "start-run", "interrupt", "eof", "submit-input"},
           Changed(next, EffectOn(type, next))
    PROVE  /\ result'.effect = [type |-> type, target |-> next.host, run |-> next.run]
           /\ result'.effect # None
           /\ term'.epoch = next.epoch /\ term'.run = next.run /\ term'.host = next.host
           /\ term'.nextRun = next.nextRun /\ term'.pythonRun = next.pythonRun
<1>1. result'.effect = EffectOn(type, next) /\ term' = [next EXCEPT !.seq = @ + 1]
    BY DEF Changed, Emitted
<1>2. EffectOn(type, next) \in Effect
    BY DEF EffectOn, Effect
<1> QED
    BY <1>1, <1>2, TerminalAssumption DEF EffectOn, MachineState

\* A change without an effect leaves the fields the new state has.
LEMMA ChangedFields ==
    ASSUME NEW next \in MachineState, Changed(next, None)
    PROVE  /\ result'.effect = None
           /\ term'.epoch = next.epoch /\ term'.run = next.run /\ term'.host = next.host
           /\ term'.nextRun = next.nextRun /\ term'.pythonRun = next.pythonRun
BY DEF Changed, Emitted, MachineState

\* An action that changes nothing keeps the run.
LEMMA QuietKeepsRun ==
    ASSUME term' = term, result'.effect = None, NEW s, NEW a
    PROVE  RunStep(s, a)
BY DEF RunStep, KeepsRun

\* So does one that is refused.
LEMMA RefusedKeepsRun ==
    ASSUME Refused \/ Unchanged, NEW s, NEW a
    PROVE  RunStep(s, a)
BY QuietKeepsRun DEF Refused, Unchanged, Emitted

\* The fields of the machine that tell which run is active, and for whom.
Active(m) == <<m.epoch, m.nextRun, m.run, m.host, m.pythonRun>>

\* Clearing the input line leaves the active run alone.
LEMMA ClearedActive ==
    ASSUME IInv
    PROVE  /\ InputCleared(term) \in MachineState
           /\ Active(InputCleared(term)) = Active(term)
BY InputClearedType DEF IInv, TypeOK, Active, InputCleared, MachineState

\* A change without an effect that leaves the active run alone.
LEMMA ChangedKeepsRun ==
    ASSUME NEW next \in MachineState, Changed(next, None), Active(next) = Active(term),
           NEW s, NEW a
    PROVE  RunStep(s, a)
BY ChangedFields DEF RunStep, KeepsRun, Active

\* A change that sends the active run of the machine to its host.
LEMMA EffectKeepsRun ==
    ASSUME IInv, NEW next \in MachineState, Active(next) = Active(term),
           None \notin {term.run, term.host},
           NEW type \in {"interrupt", "eof", "submit-input"},
           Changed(next, EffectOn(type, next)), NEW s, NEW a
    PROVE  RunStep(s, a)
<1>1. next.host \in Socket /\ next.run \in RunId
    BY DEF Active, MachineState
<1>2. /\ result'.effect = [type |-> type, target |-> next.host, run |-> next.run]
      /\ result'.effect # None
      /\ term'.epoch = next.epoch /\ term'.run = next.run /\ term'.host = next.host
      /\ term'.nextRun = next.nextRun /\ term'.pythonRun = next.pythonRun
    BY <1>1, EffectFields
<1>3. /\ next.epoch = term.epoch /\ next.nextRun = term.nextRun /\ next.run = term.run
      /\ next.host = term.host /\ next.pythonRun = term.pythonRun
      /\ ~IsStart(result'.effect)
    BY <1>2 DEF Active, IsStart
<1> QED
    BY <1>2, <1>3 DEF RunStep, KeepsRun

\* A change that starts the next run.
LEMMA EffectStartsRun ==
    ASSUME IInv, NEW m \in MachineState, Active(m) = Active(term), term.run = None,
           term.nextRun <= MaxRun,
           NEW to \in Socket, NEW test \in Test \cup {None}, NEW python \in BOOLEAN,
           NEW next \in MachineState, Active(next) = Active(Running(m, to, test, python)),
           NEW type \in {"execute-line", "start-run", "interrupt", "eof"},
           type = "start-run" => ~python,
           Changed(next, EffectOn(type, next)),
           NEW s, NEW a, a.type \in UserTypes
    PROVE  RunStep(s, a)
<1> DEFINE r == Running(m, to, test, python)
<1>1. /\ r.epoch = m.epoch /\ r.nextRun = m.nextRun + 1
      /\ r.run = NextRunId /\ r.host = to /\ r.pythonRun = python
    BY DEF Running, MachineState
<1>2. next.host = to /\ next.run = NextRunId /\ next.epoch = term.epoch
      /\ next.nextRun = term.nextRun + 1 /\ next.pythonRun = python
    BY <1>1 DEF Active
<1>3. NextRunId \in RunId
    BY NextRunIdType
<1>4. /\ result'.effect = [type |-> type, target |-> next.host, run |-> next.run]
      /\ result'.effect # None
      /\ term'.epoch = next.epoch /\ term'.run = next.run /\ term'.host = next.host
      /\ term'.nextRun = next.nextRun /\ term'.pythonRun = next.pythonRun
    BY <1>2, <1>3, EffectFields
<1> QED
    BY <1>2, <1>4 DEF RunStep, StartsRun

\* A submitted line answers the active run, or starts one when none is active.
LEMMA SubmitLineRun ==
    ASSUME IInv, NEW s \in open, NEW a, a.type = "submit-line", a.line \in Line,
           SubmitLine(s, a.line), term.nextRun <= MaxRun
    PROVE  RunStep(s, a)
<1> DEFINE cleared == InputCleared(term)
<1>1. cleared \in MachineState /\ Active(cleared) = Active(term) /\ term \in MachineState
    BY ClearedActive DEF IInv, TypeOK
<1>2. CASE ClearScreen
    <2> DEFINE opened == [term EXCEPT !.generation = @ + 1]
               next   == InputCleared(opened)
    <2>1. opened \in MachineState /\ Active(opened) = Active(term)
        BY <1>1 DEF MachineState, Active
    <2>2. next \in MachineState /\ next = [opened EXCEPT !.input = "blank", !.owner = None]
        BY <2>1, InputClearedType
    <2>3. Changed(next, None)
        BY <1>2 DEF ClearScreen
    <2> HIDE DEF opened, next
    <2>4. Active(next) = Active(opened)
        BY <2>1, <2>2 DEF MachineState, Active
    <2> QED
        BY <2>1, <2>2, <2>3, <2>4, ChangedKeepsRun
<1>3. CASE Changed(cleared, None)
    BY <1>1, <1>3, ChangedKeepsRun
<1>4. CASE term.mode = "program-input" /\ AnswerInput
    <2> DEFINE resumed == [cleared EXCEPT !.mode = "busy", !.request = FALSE]
    <2>1. Changed(resumed, EffectOn("submit-input", resumed)) /\ None \notin {term.run, term.host}
        BY <1>4 DEF AnswerInput, IInv, ModeCoherent
    <2> HIDE DEF cleared
    <2>2. resumed \in MachineState /\ Active(resumed) = Active(cleared)
        BY <1>1 DEF MachineState, Mode, Active
    <2> HIDE DEF resumed
    <2> QED
        BY <1>1, <2>1, <2>2, EffectKeepsRun
<1>5. ASSUME NEW to \in Socket, NEW python \in BOOLEAN, ExecuteLine(to, python), term.run = None
      PROVE  RunStep(s, a)
    <2> DEFINE next == Running(cleared, to, None, python)
    <2>1. Changed(next, EffectOn("execute-line", next))
        BY <1>5, TerminalAssumption DEF ExecuteLine
    <2> HIDE DEF cleared
    <2>2. next = [cleared EXCEPT !.mode = "busy", !.host = to, !.run = NextRunId,
                     !.runTest = None, !.pythonRun = python, !.request = FALSE,
                     !.nextRun = @ + 1]
        BY DEF Running
    <2>3. None \in Test \cup {None}
        OBVIOUS
    <2> HIDE DEF next
    <2>4. next \in MachineState
        BY <1>1, <2>2, <2>3, RunningType
    <2>5. Active(next) = Active(Running(cleared, to, None, python))
        BY DEF next
    <2> QED
        BY <1>1, <1>5, <2>1, <2>3, <2>4, <2>5, EffectStartsRun DEF UserTypes
<1>6. open \subseteq Socket
    BY DEF IInv, TypeOK
<1>7. CASE term.mode = "shell" /\ ExecuteLine(s, FALSE)
    BY <1>5, <1>6, <1>7 DEF IInv, ModeCoherent
<1>8. CASE term.mode = "python" /\ ExecuteLine(term.host, TRUE)
    <2>1. term.host \in Socket /\ term.run = None
        BY <1>6, <1>8 DEF IInv, ModeCoherent, LeasesConnected
    <2> QED
        BY <1>5, <1>8, <2>1
<1>9. CASE Refused
    BY <1>9, RefusedKeepsRun
<1> QED
    BY <1>2, <1>3, <1>4, <1>7, <1>8, <1>9 DEF SubmitLine

\* A run of the document starts when none is active.
LEMMA StartRunRun ==
    ASSUME IInv, NEW s \in open, NEW a, a.type = "start-run", a.test \in Test \cup {None},
           StartRun(s, a.test), term.nextRun <= MaxRun
    PROVE  RunStep(s, a)
<1> DEFINE cleared == InputCleared(term)
           running == Running(cleared, s, a.test, FALSE)
           next    == [running EXCEPT !.lastTest = None]
<1>1. cleared \in MachineState /\ Active(cleared) = Active(term)
    BY ClearedActive
<1>2. CASE term.mode = "shell" /\ Changed(next, EffectOn("start-run", next))
    <2>1. s \in Socket /\ term.run = None /\ FALSE \in BOOLEAN
        BY <1>2 DEF IInv, TypeOK, ModeCoherent
    <2>2. running = [cleared EXCEPT !.mode = "busy", !.host = s, !.run = NextRunId,
                        !.runTest = a.test, !.pythonRun = FALSE, !.request = FALSE,
                        !.nextRun = @ + 1]
        BY DEF Running
    <2>3. Changed(next, EffectOn("start-run", next))
        BY <1>2
    <2> HIDE DEF cleared, running
    <2>4. running \in MachineState
        BY <1>1, <2>1, <2>2, RunningType
    <2>5. next \in MachineState /\ Active(next) = Active(running)
        BY <2>4 DEF MachineState, Active
    <2>6. Active(next) = Active(Running(cleared, s, a.test, FALSE))
        BY <2>5 DEF running
    <2>7. a.type \in UserTypes
        BY DEF UserTypes
    <2> HIDE DEF next
    <2> QED
        BY <1>1, <2>1, <2>3, <2>5, <2>6, <2>7, EffectStartsRun
<1>3. CASE Refused
    BY <1>3, RefusedKeepsRun
<1> QED
    BY <1>2, <1>3 DEF StartRun

\* Interrupt and end of input either go to the active run or start one of a REPL.
LEMMA SignalRun ==
    ASSUME IInv, NEW s, NEW a, a.type \in {"interrupt", "eof"},
           Signal(a.type), term.nextRun <= MaxRun
    PROVE  RunStep(s, a)
<1> DEFINE prompted == IF a.type = "interrupt" THEN InputCleared(term) ELSE term
           running  == Running(prompted, term.host, None, TRUE)
           request  == IF a.type = "interrupt" THEN FALSE ELSE term.request
           started  == [running EXCEPT !.request = request]
           cleared  == InputCleared(term)
           signaled == [cleared EXCEPT !.mode = "busy", !.request = FALSE]
<1>1. cleared \in MachineState /\ Active(cleared) = Active(term)
      /\ term \in MachineState
    BY ClearedActive DEF IInv, TypeOK
<1>2. CASE term.mode = "python" /\ Changed(started, EffectOn(a.type, started))
    <2>1. prompted \in MachineState /\ Active(prompted) = Active(term)
        BY <1>1
    <2>2. term.host \in Socket /\ term.run = None /\ TRUE \in BOOLEAN /\ None \in Test \cup {None}
        BY <1>1, <1>2 DEF IInv, ModeCoherent, MachineState
    <2>3. running = [prompted EXCEPT !.mode = "busy", !.host = term.host, !.run = NextRunId,
                        !.runTest = None, !.pythonRun = TRUE, !.request = FALSE,
                        !.nextRun = @ + 1]
        BY DEF Running
    <2>4. request \in BOOLEAN
        BY <1>1 DEF MachineState
    <2>5. Changed(started, EffectOn(a.type, started))
        BY <1>2
    <2> HIDE DEF prompted, running, request
    <2>6. running \in MachineState
        BY <2>1, <2>2, <2>3, RunningType
    <2>7. started \in MachineState /\ Active(started) = Active(running)
        BY <2>4, <2>6 DEF MachineState, Active
    <2>8. Active(started) = Active(Running(prompted, term.host, None, TRUE))
        BY <2>7 DEF running
    <2>9. a.type \in UserTypes
        BY DEF UserTypes
    <2> HIDE DEF started
    <2> QED
        BY <2>1, <2>2, <2>5, <2>7, <2>8, <2>9, EffectStartsRun
<1>3. CASE None \notin {term.host, term.run} /\ Changed(signaled, EffectOn(a.type, signaled))
    <2> HIDE DEF cleared
    <2>1. signaled \in MachineState /\ Active(signaled) = Active(cleared)
        BY <1>1 DEF MachineState, Mode, Active
    <2>2. Changed(signaled, EffectOn(a.type, signaled))
        BY <1>3
    <2> HIDE DEF signaled
    <2> QED
        BY <1>1, <1>3, <2>1, <2>2, EffectKeepsRun
<1>4. CASE Refused
    BY <1>4, RefusedKeepsRun
<1> QED
    BY <1>2, <1>3, <1>4 DEF Signal

\* A report of a host ends its own run and no other.
LEMMA HostReportRun ==
    ASSUME IInv, NEW s \in open, NEW a, HasFields(a),
           \/ a.type = "host-output" /\ HostOutput(s, a.run)
           \/ a.type = "host-input-request" /\ HostInputRequest(s, a.run)
           \/ a.type = "host-ready" /\ HostReady(s, a.run, a.mode, a.test)
           \/ a.type = "host-failed" /\ HostFailed(s, a.run)
    PROVE  RunStep(s, a)
<1> DEFINE cleared == InputCleared(term)
<1>1. cleared \in MachineState /\ Active(cleared) = Active(term) /\ term \in MachineState
    BY ClearedActive DEF IInv, TypeOK
<1>2. CASE Refused \/ Unchanged
    BY <1>2, RefusedKeepsRun
<1>3. CASE Changed(term, None)
    BY <1>1, <1>3, ChangedKeepsRun
<1> DEFINE asked == [cleared EXCEPT !.mode = "program-input", !.request = TRUE]
<1>4. CASE Changed(asked, None)
    <2> HIDE DEF cleared
    <2>1. asked \in MachineState /\ Active(asked) = Active(cleared)
        BY <1>1 DEF MachineState, Mode, Active
    <2> HIDE DEF asked
    <2> QED
        BY <1>1, <1>4, <2>1, ChangedKeepsRun
<1> DEFINE ready == [cleared EXCEPT
                        !.lastTest = IF a.test = None THEN @ ELSE a.test,
                        !.run = None, !.runTest = None, !.pythonRun = FALSE,
                        !.request = FALSE, !.mode = a.mode,
                        !.host = IF a.mode = "python" THEN @ ELSE None]
<1>5. CASE a.type = "host-ready" /\ IsCurrentHost(s, a.run) /\ Changed(ready, None)
    <2> HIDE DEF cleared
    <2>1. ready.epoch = cleared.epoch /\ ready.nextRun = cleared.nextRun /\ ready.run = None
        BY <1>1 DEF MachineState
    <2>2. ready \in [DOMAIN cleared -> UNION {{ready[f]} : f \in DOMAIN cleared}]
        OBVIOUS
    <2>3. term' = [ready EXCEPT !.seq = @ + 1] /\ result'.effect = None
        BY <1>5 DEF Changed, Emitted
    <2> HIDE DEF ready
    <2>4. term'.epoch = ready.epoch /\ term'.nextRun = ready.nextRun /\ term'.run = ready.run
        BY <1>1, <2>2, <2>3 DEF MachineState
    <2>5. cleared.epoch = term.epoch /\ cleared.nextRun = term.nextRun
        BY <1>1 DEF Active
    <2> QED
        BY <1>5, <2>1, <2>3, <2>4, <2>5 DEF RunStep, EndsRun, IsCurrentHost, IsReport
<1> DEFINE shell == ToShell(term)
<1>6. CASE a.type = "host-failed" /\ IsCurrentHost(s, a.run) /\ Changed(shell, None)
    <2>1. \A f \in {"epoch", "nextRun", "generation", "seq"} : shell[f] = term[f]
        BY <1>1, ToShellType
    <2>2. shell \in MachineState /\ shell.epoch = term.epoch /\ shell.nextRun = term.nextRun
          /\ shell.run = None
        BY <1>1, <2>1, ToShellType
    <2> HIDE DEF shell
    <2>3. result'.effect = None /\ term'.epoch = term.epoch /\ term'.nextRun = term.nextRun
          /\ term'.run = None
        BY <1>6, <2>2, ChangedFields
    <2> QED
        BY <1>6, <2>3 DEF RunStep, EndsRun, IsCurrentHost, IsReport
<1> QED
    BY <1>2, <1>3, <1>4, <1>5, <1>6
       DEF HostOutput, HostInputRequest, HostReady, HostFailed

\* The lease on the input line has nothing to do with the run.
LEMMA LeaseRun ==
    ASSUME IInv, NEW s \in open, NEW a,
           \/ Claim(s)
           \/ Release(s)
           \/ EditInput(s, a.line) /\ a.line \in Line
    PROVE  RunStep(s, a)
<1>1. term \in MachineState /\ s \in Socket
    BY DEF IInv, TypeOK
<1>2. CASE Refused \/ Unchanged
    BY <1>2, RefusedKeepsRun
<1>3. ASSUME NEW o \in Socket \cup {None}, NEW line \in Line,
             Changed([term EXCEPT !.owner = o, !.input = line], None)
      PROVE  RunStep(s, a)
    <2> DEFINE next == [term EXCEPT !.owner = o, !.input = line]
    <2>1. next \in MachineState /\ Active(next) = Active(term)
        BY <1>1 DEF MachineState, Active
    <2>2. Changed(next, None)
        BY <1>3
    <2> HIDE DEF next
    <2> QED
        BY <2>1, <2>2, ChangedKeepsRun
<1>4. /\ [term EXCEPT !.owner = s] = [term EXCEPT !.owner = s, !.input = term.input]
      /\ [term EXCEPT !.owner = None] = [term EXCEPT !.owner = None, !.input = term.input]
      /\ term.input \in Line
    BY <1>1 DEF MachineState
<1>5. CASE Claim(s)
    <2>1. Refused \/ Unchanged \/ Changed([term EXCEPT !.owner = s, !.input = term.input], None)
        BY <1>4, <1>5 DEF Claim
    <2> QED
        BY <1>1, <1>2, <1>3, <1>4, <2>1
<1>6. CASE Release(s)
    <2>1. Unchanged \/ Changed([term EXCEPT !.owner = None, !.input = term.input], None)
        BY <1>4, <1>6 DEF Release
    <2> QED
        BY <1>2, <1>3, <1>4, <2>1
<1>7. CASE EditInput(s, a.line) /\ a.line \in Line
    <2>1. Refused \/ Unchanged \/ Changed([term EXCEPT !.owner = s, !.input = a.line], None)
        BY <1>7 DEF EditInput
    <2> QED
        BY <1>1, <1>2, <1>3, <1>7, <2>1
<1> QED
    BY <1>5, <1>6, <1>7

\* One of these, whatever the action.
LEMMA ApplyRun ==
    ASSUME IInv, NEW s \in open, NEW a, HasFields(a), Apply(s, a),
           a.type \in UserTypes => term.nextRun <= MaxRun
    PROVE  RunStep(s, a)
<1>1. CASE \/ a.type = "claim" /\ Claim(s)
           \/ a.type = "release" /\ Release(s)
           \/ a.type = "edit-input" /\ EditInput(s, a.line)
    <2>1. a.type = "edit-input" => a.line \in Line
        BY DEF HasFields
    <2>2. Claim(s) \/ Release(s) \/ (EditInput(s, a.line) /\ a.line \in Line)
        BY <1>1, <2>1
    <2> QED
        BY <2>2, LeaseRun
<1>2. CASE a.type = "submit-line" /\ SubmitLine(s, a.line)
    BY <1>2, SubmitLineRun DEF HasFields, UserTypes
<1>3. CASE a.type = "start-run" /\ StartRun(s, a.test)
    BY <1>3, StartRunRun DEF HasFields, UserTypes
<1>4. CASE a.type \in {"interrupt", "eof"} /\ Signal(a.type)
    BY <1>4, SignalRun DEF UserTypes
<1>5. CASE \/ a.type = "host-output" /\ HostOutput(s, a.run)
           \/ a.type = "host-input-request" /\ HostInputRequest(s, a.run)
           \/ a.type = "host-ready" /\ HostReady(s, a.run, a.mode, a.test)
           \/ a.type = "host-failed" /\ HostFailed(s, a.run)
    BY <1>5, HostReportRun
<1> QED
    BY <1>1, <1>2, <1>3, <1>4, <1>5 DEF Apply
-----------------------------------------------------------------------------
\* What a browser's handlers may do to it.  u is what has become of handler v.
From(u, v) == Same(u, v) /\ u.sock = v.sock /\ u.live = v.live

\* No handler that starts a REPL is the one the browser executes.
NoReplActive(h) == \A v \in h.tasks : v.kind = "repl" => v.run # h.exec

\* k is h but for its runtime, its input and its mark of an interrupted run.
Near(h, k) ==
    /\ Sound(k)
    /\ k.shown = h.shown /\ k.readOnly = h.readOnly /\ k.exec = h.exec
    /\ \A u \in k.tasks : \E v \in h.tasks :
          /\ From(u, v) /\ u.awaits = v.awaits
          /\ u.runtime # "current" => QuietRepl(k) \/ v.runtime # "current"
    /\ QuietRepl(h) => QuietRepl(k)

\* What becomes of a browser that starts no handler: files are written only for the
\* active run, and only an active handler makes a REPL.
Evolves(h, g) ==
    /\ Sound(g)
    /\ g.shown = h.shown /\ g.readOnly = h.readOnly
    /\ \A u \in g.tasks : \E v \in h.tasks :
          /\ From(u, v)
          /\ u.awaits = "flush" => v.awaits = "flush" \/ IsActive(h, v)
          /\ u.runtime # "current" /\ NoReplActive(h) =>
                QuietRepl(g) \/ v.runtime # "current"
    /\ QuietRepl(h) /\ NoReplActive(h) => QuietRepl(g)

\* k is h but for its runtime, its mark of an interrupted run and what it executes.
Alike(h, k) ==
    /\ Sound(k)
    /\ k.shown = h.shown /\ k.readOnly = h.readOnly
    /\ \A u \in k.tasks : \E v \in h.tasks :
          /\ From(u, v) /\ u.awaits = v.awaits
          /\ u.runtime # "current" => QuietRepl(k) \/ v.runtime # "current"
    /\ QuietRepl(h) => QuietRepl(k)

\* A sound browser is near itself.
LEMMA NearSelf ==
    ASSUME NEW h, Sound(h)
    PROVE  Near(h, h)
BY DEF Near, From, Same

\* Two changes of the runtime are one.
LEMMA NearNear ==
    ASSUME NEW h, NEW k, NEW l, Near(h, k), Near(k, l)
    PROVE  Near(h, l)
<1>1. ASSUME NEW u \in l.tasks
      PROVE  \E v \in h.tasks :
                /\ From(u, v) /\ u.awaits = v.awaits
                /\ u.runtime # "current" => QuietRepl(l) \/ v.runtime # "current"
    <2>1. PICK w \in k.tasks :
             /\ From(u, w) /\ u.awaits = w.awaits
             /\ u.runtime # "current" => QuietRepl(l) \/ w.runtime # "current"
        BY DEF Near
    <2>2. PICK v \in h.tasks :
             /\ From(w, v) /\ w.awaits = v.awaits
             /\ w.runtime # "current" => QuietRepl(k) \/ v.runtime # "current"
        BY DEF Near
    <2> QED
        BY <2>1, <2>2 DEF Near, From, Same
<1> QED
    BY <1>1 DEF Near

\* Near is the narrowest of the three relations, Evolves the widest.
LEMMA NearAlike ==
    ASSUME NEW h, NEW k
    PROVE  /\ Near(h, k) => Alike(h, k)
           /\ Alike(h, k) => Evolves(h, k)
BY DEF Near, Alike, Evolves

\* A change of what is executed and a change of the runtime are one step of both kinds.
LEMMA AlikeNear ==
    ASSUME NEW h, NEW k, NEW l, Alike(h, k), Near(k, l) \/ Alike(k, l)
    PROVE  Alike(h, l)
<1>1. Alike(k, l)
    BY NearAlike
<1>2. ASSUME NEW u \in l.tasks
      PROVE  \E v \in h.tasks :
                /\ From(u, v) /\ u.awaits = v.awaits
                /\ u.runtime # "current" => QuietRepl(l) \/ v.runtime # "current"
    <2>1. PICK w \in k.tasks :
             /\ From(u, w) /\ u.awaits = w.awaits
             /\ u.runtime # "current" => QuietRepl(l) \/ w.runtime # "current"
        BY <1>1 DEF Alike
    <2>2. PICK v \in h.tasks :
             /\ From(w, v) /\ w.awaits = v.awaits
             /\ w.runtime # "current" => QuietRepl(k) \/ v.runtime # "current"
        BY DEF Alike
    <2> QED
        BY <1>1, <2>1, <2>2 DEF Alike, From, Same
<1> QED
    BY <1>1, <1>2 DEF Alike

\* A change of the runtime is something a handler may do.
LEMMA NearEvolves ==
    ASSUME NEW h, NEW k, Near(h, k)
    PROVE  Evolves(h, k)
BY DEF Near, Evolves

\* It leaves the active handlers active.
LEMMA NearActive ==
    ASSUME NEW h, NEW k, Near(h, k)
    PROVE  /\ NoReplActive(h) => NoReplActive(k)
           /\ \A t, v : From(t, v) => (IsActive(k, t) <=> IsActive(h, v))
BY DEF Near, NoReplActive, From, Same, IsActive, Usable

\* Another runtime, or none, in the place of the browser's.
LEMMA PartedNear ==
    ASSUME NEW h, Sound(h), NEW how \in {"closed", "displaced"}
    PROVE  /\ Near(h, Parted(h, how))
           /\ QuietRepl(Parted(h, how))
           /\ Parted(h, how).py = NoRuntime
           /\ Parted(h, how).intr = h.intr
           /\ Commands(Parted(h, how)) = {}
<1> DEFINE moved(t) == IF t.runtime = "current" THEN [t EXCEPT !.runtime = how] ELSE t
           g == Parted(h, how)
<1>1. h \in HostState /\ \A t \in h.tasks : t \in Task /\ FitsKind(t)
    BY DEF Sound, HostState
<1>2. \A t \in h.tasks : /\ moved(t) \in Task /\ moved(t).runtime # "current"
                         /\ From(moved(t), t) /\ moved(t).awaits = t.awaits
    BY <1>1 DEF Task, From, Same
<1>3. NoRuntime \in Runtime /\ NoRuntime.mode = "none"
    BY DEF NoRuntime, Runtime
<1>4. g = [h EXCEPT !.py = NoRuntime, !.tasks = {moved(t) : t \in h.tasks}]
    BY <1>1 DEF Parted, HostState
<1>5. g.tasks = {moved(t) : t \in h.tasks} /\ g.py = NoRuntime
      /\ g.shown = h.shown /\ g.readOnly = h.readOnly /\ g.exec = h.exec /\ g.intr = h.intr
    BY <1>1, <1>4 DEF HostState
<1> HIDE DEF moved
<1>6. g.tasks \subseteq Task
    BY <1>2, <1>5
<1>7. g \in HostState
    BY <1>1, <1>3, <1>4, <1>5, <1>6 DEF HostState
<1> HIDE DEF g
<1>8. Commands(g) = {}
    BY <1>2, <1>5 DEF Commands
<1>9. Sound(g)
    <2>1. \A t \in g.tasks : FitsKind(t)
        BY <1>1, <1>2, <1>5 DEF FitsKind, From, Same
    <2>2. \A t, u \in g.tasks : Same(t, u) => t = u
        <3> SUFFICES ASSUME NEW t \in h.tasks, NEW u \in h.tasks, Same(moved(t), moved(u))
                     PROVE  moved(t) = moved(u)
            BY <1>5
        <3>1. Same(t, u)
            BY <1>2 DEF From, Same
        <3> QED
            BY <3>1 DEF Sound
    <2> QED
        BY <1>7, <1>8, <2>1, <2>2 DEF Sound
<1>10. QuietRepl(g)
    BY <1>3, <1>5, <1>8 DEF QuietRepl
<1>11. \A u \in g.tasks : \E v \in h.tasks : From(u, v) /\ u.awaits = v.awaits
    BY <1>2, <1>5
<1> QED
    BY <1>5, <1>8, <1>9, <1>10, <1>11 DEF Near, g

\* A browser whose runtime is in another state.
WithRuntime(h, py, intr) == [h EXCEPT !.py = py, !.intr = intr]

\* So is a change of the runtime's state that brings no REPL up.
LEMMA RuntimeNear ==
    ASSUME NEW h, Sound(h), NEW py \in Runtime, NEW intr \in RunId \cup {None},
           QuietRepl(h) => py.mode # "repl"
    PROVE  LET g == WithRuntime(h, py, intr)
           IN  /\ Near(h, g) /\ g.py = py /\ g.intr = intr /\ g.exec = h.exec
               /\ Commands(g) = Commands(h)
<1> DEFINE g == WithRuntime(h, py, intr)
<1>1. h \in HostState
    BY DEF Sound
<1>2. g \in HostState /\ g.tasks = h.tasks /\ g.py = py /\ g.intr = intr
      /\ g.shown = h.shown /\ g.readOnly = h.readOnly /\ g.exec = h.exec
    BY <1>1 DEF HostState, WithRuntime
<1> HIDE DEF g
<1>3. Commands(g) = Commands(h)
    BY <1>2 DEF Commands
<1>4. Sound(g)
    BY <1>2, <1>3 DEF Sound
<1>5. QuietRepl(h) => QuietRepl(g)
    BY <1>2, <1>3 DEF QuietRepl
<1>6. Near(h, g)
    BY <1>2, <1>4, <1>5 DEF Near, From, Same
<1> QED
    BY <1>2, <1>3, <1>6 DEF g

\* A handler goes on to its next await.
Continued(h, t, what) ==
    [h EXCEPT !.tasks = {u \in @ : <<u.run, u.kind>> # <<t.run, t.kind>>}
                           \cup {[t EXCEPT !.awaits = what]}]

\* What a handler waits for.
AwaitKind == {"sync", "prepare", "start", "ready", "test", "command", "rewind", "apply", "flush"}

\* The parts of a browser whose handler goes on.
LEMMA ContinuedFields ==
    ASSUME NEW h \in HostState, NEW t \in Task, NEW what \in AwaitKind
    PROVE  LET g == Continued(h, t, what)
               n == [t EXCEPT !.awaits = what]
           IN  /\ g \in HostState /\ g.shown = h.shown /\ g.readOnly = h.readOnly
               /\ g.exec = h.exec /\ g.intr = h.intr /\ g.py = h.py
               /\ g.tasks = {u \in h.tasks : ~Same(u, t)} \cup {n}
               /\ n \in Task /\ From(n, t) /\ n.runtime = t.runtime /\ n.awaits = what
               /\ n.delta = t.delta
<1> DEFINE g == Continued(h, t, what)
           n == [t EXCEPT !.awaits = what]
           rest == {u \in h.tasks : <<u.run, u.kind>> # <<t.run, t.kind>>}
<1>1. n \in Task /\ From(n, t) /\ n.runtime = t.runtime /\ n.awaits = what /\ n.delta = t.delta
    BY DEF Task, From, Same, AwaitKind
<1>2. rest = {u \in h.tasks : ~Same(u, t)} /\ rest \subseteq Task
    BY DEF Same, HostState
<1>3. g = [h EXCEPT !.tasks = rest \cup {n}]
    BY DEF Continued, HostState
<1> HIDE DEF n, rest
<1>4. g \in HostState /\ g.shown = h.shown /\ g.readOnly = h.readOnly
      /\ g.exec = h.exec /\ g.intr = h.intr /\ g.py = h.py /\ g.tasks = rest \cup {n}
    BY <1>1, <1>2, <1>3 DEF HostState
<1> QED
    BY <1>1, <1>2, <1>4 DEF n

\* With one handler put on, the browser is still sound, if that handler has waited for
\* the runtime to be free.
LEMMA ContinuedSound ==
    ASSUME NEW h, Sound(h), NEW t \in Task, NEW what \in AwaitKind,
           FitsKind([t EXCEPT !.awaits = what]),
           what \in {"command", "rewind"} /\ t.runtime = "current" => ~IsBusy(h, t)
    PROVE  Sound(Continued(h, t, what))
<1> DEFINE g == Continued(h, t, what)
           n == [t EXCEPT !.awaits = what]
<1>1. h \in HostState
    BY DEF Sound
<1>2. /\ g \in HostState /\ g.tasks = {u \in h.tasks : ~Same(u, t)} \cup {n}
      /\ n \in Task /\ From(n, t) /\ n.runtime = t.runtime /\ n.awaits = what
    BY <1>1, ContinuedFields
<1>3. FitsKind(n)
    OBVIOUS
<1> HIDE DEF g, n
<1>4. \A u \in g.tasks : FitsKind(u)
    BY <1>2, <1>3 DEF Sound
<1>5. \A u \in h.tasks : ~Same(u, t) => ~Same(u, n) /\ ~Same(n, u)
    BY <1>2 DEF From, Same
<1>6. \A u, w \in g.tasks : Same(u, w) => u = w
    BY <1>2, <1>5 DEF Sound
<1>7. \A u, w \in Commands(g) : u = w
    <2> SUFFICES ASSUME NEW u \in Commands(g), NEW w \in Commands(g) PROVE u = w
        OBVIOUS
    <2>1. ASSUME NEW x \in Commands(g), x # n
          PROVE  x \in Commands(h) /\ ~Same(x, t)
        BY <1>2, <2>1 DEF Commands
    <2>2. ASSUME NEW x \in Commands(g), x # n
          PROVE  n \notin Commands(g)
        <3>1. x \in Commands(h) /\ <<x.run, x.kind>> # <<t.run, t.kind>>
            BY <2>1, <2>2 DEF Same
        <3>2. IsBusy(h, t)
            BY <3>1 DEF IsBusy
        <3> QED
            BY <1>2, <3>2 DEF Commands
    <2> QED
        BY <2>1, <2>2 DEF Sound
<1> QED
    BY <1>2, <1>4, <1>6, <1>7 DEF Sound, g

\* A handler that goes on is a step of the browser, if it writes files only while active
\* and leaves a REPL only where there was one.
LEMMA ContinuedEvolves ==
    ASSUME NEW h, NEW k, Near(h, k), NEW t \in Task, NEW v \in h.tasks, From(t, v),
           t.runtime # "current" => v.runtime # "current" \/ QuietRepl(k),
           NEW what \in AwaitKind, FitsKind([t EXCEPT !.awaits = what]),
           what \in {"command", "rewind"} /\ t.runtime = "current" => ~IsBusy(k, t),
           what = "flush" => IsActive(h, v),
           QuietRepl(k) /\ NoReplActive(h) /\ t.runtime = "current" =>
              /\ what # "rewind"
              /\ what = "command" => t.kind \notin {"line", "repl", "interrupt"}
    PROVE  Evolves(h, Continued(k, t, what)) /\ Continued(k, t, what).exec = h.exec
<1> DEFINE g == Continued(k, t, what)
           n == [t EXCEPT !.awaits = what]
<1>1. Sound(k) /\ k \in HostState
    BY DEF Near, Sound
<1>2. Sound(g)
    BY <1>1, ContinuedSound
<1>3. /\ g.tasks = {u \in k.tasks : ~Same(u, t)} \cup {n}
      /\ From(n, t) /\ n.runtime = t.runtime /\ n.awaits = what
      /\ g.shown = k.shown /\ g.readOnly = k.readOnly /\ g.exec = k.exec /\ g.py = k.py
    BY <1>1, ContinuedFields
<1> HIDE DEF g, n
<1>5. QuietRepl(k) /\ NoReplActive(h) => QuietRepl(g)
    <2> SUFFICES ASSUME QuietRepl(k), NoReplActive(h), NEW u \in Commands(g)
                 PROVE  u.kind \notin {"line", "repl", "interrupt"} /\ u.awaits # "rewind"
        BY <1>3 DEF QuietRepl
    <2>1. CASE u = n
        BY <1>3, <2>1 DEF Commands, From, Same
    <2>2. CASE u \in Commands(k)
        BY <2>2 DEF QuietRepl
    <2> QED
        BY <1>3, <2>1, <2>2 DEF Commands
<1>6. ASSUME NEW u \in g.tasks
      PROVE  \E w \in h.tasks :
                /\ From(u, w)
                /\ u.awaits = "flush" => w.awaits = "flush" \/ IsActive(h, w)
                /\ u.runtime # "current" /\ NoReplActive(h) =>
                      QuietRepl(g) \/ w.runtime # "current"
    <2>1. CASE u = n
        <3>1. From(u, v)
            BY <1>3, <2>1 DEF From, Same
        <3> QED
            BY <1>3, <1>5, <2>1, <3>1
    <2>2. CASE u \in k.tasks
        <3>1. PICK w \in h.tasks : /\ From(u, w) /\ u.awaits = w.awaits
                                   /\ u.runtime # "current" => QuietRepl(k) \/ w.runtime # "current"
            BY <2>2 DEF Near
        <3> QED
            BY <1>5, <3>1
    <2> QED
        BY <1>3, <2>1, <2>2
<1>7. QuietRepl(h) /\ NoReplActive(h) => QuietRepl(g)
    BY <1>5 DEF Near
<1> QED
    BY <1>2, <1>3, <1>6, <1>7 DEF Evolves, Near, g

\* A handler that has ended is gone, and so is what it executed.
LEMMA EndedEvolves ==
    ASSUME NEW h, NEW k, Near(h, k), NEW t
    PROVE  /\ Evolves(h, Ended(k, t)) /\ Alike(h, Ended(k, t))
           /\ Ended(k, t).exec = IF h.exec = t.run THEN None ELSE h.exec
           /\ \A u \in Ended(k, t).tasks : ~Same(u, t)
           /\ QuietRepl(k) => QuietRepl(Ended(k, t))
<1> DEFINE g == Ended(k, t)
           rest == {u \in k.tasks : <<u.run, u.kind>> # <<t.run, t.kind>>}
<1>1. Sound(k) /\ k \in HostState /\ k.exec = h.exec
    BY DEF Near, Sound
<1>2. rest \subseteq k.tasks /\ \A u \in rest : ~Same(u, t)
    BY DEF Same
<1>3. g = [k EXCEPT !.tasks = rest,
                    !.exec = IF @ = t.run THEN None ELSE @,
                    !.intr = IF @ = t.run THEN None ELSE @]
    BY <1>1 DEF Ended, HostState
<1> HIDE DEF rest
<1>4. /\ g \in HostState /\ g.tasks = rest /\ g.py = k.py
      /\ g.exec = IF k.exec = t.run THEN None ELSE k.exec
      /\ g.shown = k.shown /\ g.readOnly = k.readOnly
    <2> DEFINE x == IF k.exec = t.run THEN None ELSE k.exec
               y == IF k.intr = t.run THEN None ELSE k.intr
    <2>1. x \in RunId \cup {None} /\ y \in RunId \cup {None}
        BY <1>1 DEF HostState
    <2>2. g = [k EXCEPT !.tasks = rest, !.exec = x, !.intr = y]
        BY <1>1, <1>3 DEF HostState
    <2>3. rest \in SUBSET Task
        BY <1>1, <1>2 DEF HostState
    <2> HIDE DEF x, y
    <2>4. /\ g \in HostState /\ g.tasks = rest /\ g.py = k.py /\ g.exec = x
          /\ g.shown = k.shown /\ g.readOnly = k.readOnly
        BY <1>1, <2>1, <2>2, <2>3 DEF HostState
    <2> QED
        BY <2>4 DEF x
<1> HIDE DEF g
<1>5. Commands(g) \subseteq Commands(k)
    BY <1>2, <1>4 DEF Commands
<1>6. Sound(g)
    BY <1>1, <1>2, <1>4, <1>5 DEF Sound
<1>7. QuietRepl(k) => QuietRepl(g)
    BY <1>4, <1>5 DEF QuietRepl
<1>8. \A u \in g.tasks : \E v \in h.tasks :
         /\ From(u, v) /\ u.awaits = v.awaits
         /\ u.runtime # "current" => QuietRepl(g) \/ v.runtime # "current"
    BY <1>2, <1>4, <1>7 DEF Near
<1>9. QuietRepl(h) => QuietRepl(g)
    BY <1>7 DEF Near
<1>10. Alike(h, g) /\ Evolves(h, g)
    <2>1. Alike(h, g)
        BY <1>4, <1>6, <1>8, <1>9 DEF Alike, Near
    <2> QED
        BY <2>1, NearAlike
<1> QED
    BY <1>1, <1>2, <1>4, <1>7, <1>10 DEF g
-----------------------------------------------------------------------------
\* What a step of handler v of browser b may come to: it goes on, or it ends with at most
\* one message, which is a report of no run but its own.
Moves(b, g) == host' = [host EXCEPT ![b] = g] /\ UNCHANGED <<vars, sock, risk, acts>>

\* At most one message of a browser's own goes to the server.
MaySend(b, m) ==
    /\ m \in HostAction /\ m.type \notin UserTypes
    /\ \/ up' = up
       \/ sock[b] # None /\ up' = [up EXCEPT ![sock[b]] = Append(@, m)]

\* No handler ends.
GoesOn(b) ==
    \E g, m :
        /\ Moves(b, g)
        /\ Evolves(host[b], g) /\ g.exec = host[b].exec
        /\ MaySend(b, m) /\ ~IsReport(m)
        /\ faulty' \subseteq Faults

\* Handler v ends, and may report its run.
EndsHandler(b, v) ==
    \E g, m :
        /\ Moves(b, g)
        /\ Evolves(host[b], g)
        /\ g.exec = IF host[b].exec = v.run THEN None ELSE host[b].exec
        /\ \A u \in g.tasks : ~Same(u, v)
        /\ v.kind = "eof" => QuietRepl(g) \/ v.runtime # "current"
        /\ MaySend(b, m) /\ (IsReport(m) => m.run = v.run)
        /\ faulty' \subseteq Faults

\* The code that runs for handler v of browser b: it works on the browser k and the
\* handler t, which its earlier lines have changed.
Handler(b, v, k, t) ==
    /\ v \in host[b].tasks
    /\ Near(host[b], k)
    /\ t \in Task /\ From(t, v) /\ t.awaits = v.awaits
    /\ t.runtime # "current" => v.runtime # "current" \/ QuietRepl(k)

\* The handler is still of its kind, and active if it was.
LEMMA HandlerFits ==
    ASSUME NEW b \in Browser, Sound(host[b]), NEW v, NEW k, NEW t, Handler(b, v, k, t)
    PROVE  /\ FitsKind(t)
           /\ t.run \in RunId /\ t.run = v.run /\ t.kind = v.kind
           /\ Sound(k) /\ k \in HostState
           /\ IsActive(k, t) <=> IsActive(host[b], v)
BY NearActive DEF Handler, FitsKind, From, Same, Task, Near, Sound

\* Its first line finds the browser and the handler as they were.
LEMMA HandlerItself ==
    ASSUME NEW b \in Browser, Sound(host[b]), NEW v \in host[b].tasks
    PROVE  Handler(b, v, host[b], v)
BY NearSelf DEF Handler, From, Same, Sound, HostState

\* It may close its runtime.
LEMMA HandlerClosed ==
    ASSUME NEW b \in Browser, Sound(host[b]), NEW v, NEW k, NEW t, Handler(b, v, k, t)
    PROVE  /\ Handler(b, v, Closed(k), t) /\ QuietRepl(Closed(k))
           /\ Handler(b, v, ClosedBy(k, t), t)
           /\ t.runtime = "current" => QuietRepl(ClosedBy(k, t))
<1>1. Sound(k)
    BY DEF Handler, Near
<1>2. Near(k, Closed(k)) /\ QuietRepl(Closed(k))
    BY <1>1, PartedNear DEF Closed
<1>3. Near(host[b], Closed(k))
    BY <1>2, NearNear DEF Handler
<1> QED
    BY <1>2, <1>3 DEF Handler, ClosedBy

\* A handler that sends its last message ends.
LEMMA DispatchEnds ==
    ASSUME NEW b \in Browser, Sound(host[b]), NEW v, NEW k, NEW t, Handler(b, v, k, t),
           t.kind = "eof" => QuietRepl(k) \/ v.runtime # "current",
           NEW m \in HostAction, m.type \notin UserTypes, IsReport(m) => m.run = t.run,
           Dispatches(b, Ended(k, t), m), faulty' \subseteq Faults
    PROVE  EndsHandler(b, v)
<1> DEFINE g == Ended(k, t)
<1>1. /\ Evolves(host[b], g)
      /\ g.exec = IF host[b].exec = t.run THEN None ELSE host[b].exec
      /\ \A u \in g.tasks : ~Same(u, t)
      /\ QuietRepl(k) => QuietRepl(g)
    BY EndedEvolves DEF Handler
<1>2. Moves(b, g) /\ MaySend(b, m)
    BY DEF Dispatches, Moves, MaySend
<1>3. t.run = v.run /\ t.kind = v.kind
    BY DEF Handler, From, Same
<1> HIDE DEF g
<1>4. \A u \in g.tasks : ~Same(u, v)
    BY <1>1, <1>3 DEF Same
<1> QED
    BY <1>1, <1>2, <1>3, <1>4 DEF EndsHandler

\* So does one that reports a failure.
LEMMA FailsEnds ==
    ASSUME NEW b \in Browser, Sound(host[b]), faulty \subseteq Faults,
           NEW v, NEW k, NEW t, Handler(b, v, k, t),
           Fails(b, k, t)
    PROVE  EndsHandler(b, v)
<1> DEFINE m == [type |-> "host-failed", run |-> t.run]
           c == IF t.kind = "eof" THEN ClosedBy(k, t) ELSE k
<1>1. Dispatches(b, Ended(c, t), m) /\ faulty' \subseteq Faults
    BY DEF Fails
<1>2. m \in HostAction /\ m.type \notin UserTypes /\ m.run = t.run
    BY HandlerFits DEF HostAction, UserTypes
<1>3. Handler(b, v, c, t)
    BY HandlerClosed
<1>4. t.kind = "eof" => QuietRepl(c) \/ v.runtime # "current"
    <2> SUFFICES ASSUME t.kind = "eof" PROVE QuietRepl(c) \/ v.runtime # "current"
        OBVIOUS
    <2>1. CASE t.runtime = "current"
        BY <2>1, HandlerClosed
    <2>2. CASE t.runtime # "current"
        BY <1>3, <2>2 DEF Handler
    <2> QED
        BY <2>1, <2>2
<1> HIDE DEF m, c
<1> QED
    BY <1>1, <1>2, <1>3, <1>4, DispatchEnds

\* And one that reports its run done.
LEMMA ReadyEnds ==
    ASSUME NEW b \in Browser, Sound(host[b]), faulty \subseteq Faults,
           NEW v, NEW k, NEW t, Handler(b, v, k, t),
           t.kind = "eof" => QuietRepl(k) \/ v.runtime # "current",
           NEW mode \in {"shell", "python"}, Ready(b, k, t, mode)
    PROVE  EndsHandler(b, v)
<1> DEFINE test == IF t.kind = "test" THEN CHOOSE x \in Test : TRUE ELSE None
           m    == [type |-> "host-ready", run |-> t.run, mode |-> mode, test |-> test]
<1>1. test \in Test \cup {None}
    BY HandlerFits DEF FitsKind
<1>2. Dispatches(b, Ended(k, t), m) /\ faulty' \subseteq Faults
    BY DEF Ready
<1> HIDE DEF test
<1>3. m \in HostAction /\ m.type \notin UserTypes /\ m.run = t.run
    BY <1>1, HandlerFits DEF HostAction, UserTypes
<1> HIDE DEF m
<1> QED
    BY <1>2, <1>3, DispatchEnds

\* A step that sends nothing and ends nothing.
LEMMA SilentlyGoesOn ==
    ASSUME NEW b, NEW g, Moves(b, g), Evolves(host[b], g), g.exec = host[b].exec,
           up' = up, faulty' \subseteq Faults
    PROVE  GoesOn(b)
<1> DEFINE m == [type |-> "invalid"]
<1>1. m \in HostAction /\ m.type \notin UserTypes /\ ~IsReport(m)
    BY DEF HostAction, UserTypes, IsReport
<1>2. MaySend(b, m)
    BY <1>1 DEF MaySend
<1> QED
    BY <1>1, <1>2 DEF GoesOn

\* A handler that reaches its next await.
LEMMA AwaitsGoesOn ==
    ASSUME NEW b \in Browser, Sound(host[b]), faulty \subseteq Faults,
           NEW v, NEW k, NEW t, Handler(b, v, k, t), NEW what \in AwaitKind,
           t.kind = "eof" => what \in {"command", "apply", "flush"},
           what = "ready" => t.kind \in {"line", "exit"},
           what \in {"command", "rewind"} /\ t.runtime = "current" => ~IsBusy(k, t),
           what = "flush" => IsActive(host[b], v),
           QuietRepl(k) /\ NoReplActive(host[b]) /\ t.runtime = "current" =>
              /\ what # "rewind"
              /\ what = "command" => t.kind \notin {"line", "repl", "interrupt"},
           Awaits(b, k, t, what)
    PROVE  GoesOn(b)
<1> DEFINE g == Continued(k, t, what)
           n == [t EXCEPT !.awaits = what]
<1>1. n.kind = t.kind /\ n.awaits = what
    BY DEF Handler, Task
<1>2. FitsKind(n)
    BY <1>1, HandlerFits DEF FitsKind
<1>3. Evolves(host[b], g) /\ g.exec = host[b].exec
    BY <1>2, ContinuedEvolves DEF Handler
<1>4. Moves(b, g) /\ up' = up /\ faulty' = faulty
    BY DEF Awaits, Becomes, Continued, Moves
<1> QED
    BY <1>3, <1>4, SilentlyGoesOn
-----------------------------------------------------------------------------
\* What comes of the result of a command.
Stepped(b, v) == GoesOn(b) \/ EndsHandler(b, v)

\* Code that works on a browser whose runtime or mark of an interrupted run has changed.
LEMMA HandlerRuntime ==
    ASSUME NEW b \in Browser, Sound(host[b]), NEW v, NEW k, NEW t, Handler(b, v, k, t),
           NEW py \in Runtime, NEW intr \in RunId \cup {None},
           QuietRepl(k) => py.mode # "repl"
    PROVE  LET g == WithRuntime(k, py, intr)
           IN  /\ Handler(b, v, g, t) /\ g.py = py /\ g.intr = intr /\ g.exec = k.exec
               /\ Commands(g) = Commands(k)
<1> DEFINE g == WithRuntime(k, py, intr)
<1>1. Sound(k)
    BY HandlerFits
<1>2. Near(k, g) /\ g.py = py /\ g.intr = intr /\ g.exec = k.exec /\ Commands(g) = Commands(k)
    BY <1>1, RuntimeNear
<1> HIDE DEF g
<1>3. Near(host[b], g)
    BY <1>2, NearNear DEF Handler
<1>4. t.runtime # "current" => v.runtime # "current" \/ QuietRepl(g)
    BY <1>2 DEF Handler, Near
<1>5. Handler(b, v, g, t)
    BY <1>3, <1>4 DEF Handler
<1> QED
    BY <1>2, <1>5 DEF g

\* What a run does with the result of its command.
LEMMA RunResultStep ==
    ASSUME NEW b \in Browser, Sound(host[b]), faulty \subseteq Faults,
           NEW v, NEW k, NEW t, Handler(b, v, k, t),
           t.kind \notin {"interrupt", "eof"},
           NEW status, NEW mode,
           mode = "repl" /\ t.runtime = "current" => k.py.mode = "repl",
           RunResult(b, k, t, status, mode)
    PROVE  Stepped(b, v)
<1> DEFINE g == IF t.awaits = "rewind" THEN [k EXCEPT !.intr = None] ELSE k
           n == [g EXCEPT !.py.interrupted = FALSE]
           rewinds == g.intr = t.run /\ mode = "repl"
<1>1. k \in HostState /\ k.py \in Runtime
    BY HandlerFits DEF HostState
<1>2. Handler(b, v, g, t) /\ g.py = k.py /\ Commands(g) = Commands(k) /\ g \in HostState
    <2>1. CASE t.awaits = "rewind"
        <3>1. QuietRepl(k) => k.py.mode # "repl"
            BY DEF QuietRepl
        <3>2. g = WithRuntime(k, k.py, None)
            BY <1>1, <2>1 DEF HostState, WithRuntime
        <3>3. None \in RunId \cup {None}
            OBVIOUS
        <3> HIDE DEF g
        <3>4. Handler(b, v, g, t) /\ g.py = k.py /\ Commands(g) = Commands(k)
            BY <1>1, <3>1, <3>2, <3>3, HandlerRuntime
        <3> QED
            BY <3>4, HandlerFits
    <2>2. CASE t.awaits # "rewind"
        BY <1>1, <2>2
    <2> QED
        BY <2>1, <2>2
<1>3. /\ \/ ~IsActive(k, t) /\ Fails(b, k, t)
         \/ rewinds /\ ~IsBusy(g, t) /\ Awaits(b, n, t, "rewind")
         \/ rewinds /\ Ready(b, g, t, "python")
         \/ Fails(b, ClosedBy(g, t), t)
         \/ Awaits(b, g, t, "apply")
         \/ Ready(b, g, t, "python")
    BY DEF RunResult
<1> HIDE DEF g
<1>4. CASE Fails(b, k, t)
    BY <1>4, FailsEnds DEF Stepped
<1>5. CASE rewinds /\ ~IsBusy(g, t) /\ Awaits(b, n, t, "rewind")
    <2> DEFINE py == [g.py EXCEPT !.interrupted = FALSE]
    <2>1. py \in Runtime /\ py.mode = g.py.mode /\ n = WithRuntime(g, py, g.intr)
        BY <1>1, <1>2 DEF Runtime, HostState, WithRuntime
    <2>2. g.intr \in RunId \cup {None} /\ (QuietRepl(g) => py.mode # "repl")
        BY <1>2, <2>1 DEF HostState, QuietRepl
    <2> HIDE DEF py, n
    <2>3. Handler(b, v, n, t) /\ n.py = py /\ Commands(n) = Commands(g)
        BY <1>2, <2>1, <2>2, HandlerRuntime
    <2>4. ~IsBusy(n, t)
        BY <1>5, <2>3 DEF IsBusy
    <2>5. ~(QuietRepl(n) /\ t.runtime = "current")
        BY <1>2, <1>5, <2>1, <2>3 DEF QuietRepl
    <2>6. Awaits(b, n, t, "rewind") /\ "rewind" \in AwaitKind
        BY <1>5 DEF AwaitKind, n
    <2>7. GoesOn(b)
        BY <2>3, <2>4, <2>5, <2>6, AwaitsGoesOn
    <2> QED
        BY <2>7 DEF Stepped
<1>6. CASE Ready(b, g, t, "python")
    BY <1>2, <1>6, ReadyEnds DEF Stepped
<1>7. CASE Fails(b, ClosedBy(g, t), t)
    <2>1. Handler(b, v, ClosedBy(g, t), t)
        BY <1>2, HandlerClosed
    <2> QED
        BY <1>7, <2>1, FailsEnds DEF Stepped
<1>8. CASE Awaits(b, g, t, "apply")
    BY <1>2, <1>8, AwaitsGoesOn DEF Stepped, AwaitKind
<1> QED
    BY <1>3, <1>4, <1>5, <1>6, <1>7, <1>8

\* What interrupt and end of input do with theirs.
LEMMA SignalResultStep ==
    ASSUME NEW b \in Browser, Sound(host[b]), faulty \subseteq Faults,
           NEW v, NEW k, NEW t, Handler(b, v, k, t),
           NEW status, NEW mode, SignalResult(b, k, t, status, mode)
    PROVE  Stepped(b, v)
<1>1. CASE Fails(b, k, t)
    BY <1>1, FailsEnds DEF Stepped
<1>2. CASE t.kind = "interrupt" /\ Ready(b, k, t, "python")
    BY <1>2, ReadyEnds DEF Stepped
<1>3. CASE Awaits(b, k, t, "apply")
    BY <1>3, AwaitsGoesOn DEF Stepped, AwaitKind
<1> QED
    BY <1>1, <1>2, <1>3 DEF SignalResult

\* What any handler does with the result of its command.
LEMMA ResultStep ==
    ASSUME NEW b \in Browser, Sound(host[b]), faulty \subseteq Faults,
           NEW v, NEW k, NEW t, Handler(b, v, k, t),
           NEW status, NEW mode,
           mode = "repl" /\ t.runtime = "current" => k.py.mode = "repl",
           Result(b, k, t, status, mode)
    PROVE  Stepped(b, v)
BY RunResultStep, SignalResultStep DEF Result

\* A command is issued, or refused because the runtime is busy or in another mode.
LEMMA IssueStep ==
    ASSUME NEW b \in Browser, Sound(host[b]), faulty \subseteq Faults,
           NEW v, NEW k, NEW t, Handler(b, v, k, t),
           t.kind = "repl" => k.exec = t.run,
           Issue(b, k, t)
    PROVE  Stepped(b, v)
<1> DEFINE n == [t EXCEPT !.runtime = "current"]
           g == [k EXCEPT !.py.interrupted = FALSE]
           py == [k.py EXCEPT !.interrupted = FALSE]
           starts == t.kind \in {"script", "repl"}
<1>1. k \in HostState /\ k.py \in Runtime /\ k.intr \in RunId \cup {None}
    BY HandlerFits DEF HostState
<1>2. /\ n.runtime = "current" /\ n.kind = t.kind /\ n.run = t.run /\ n.awaits = t.awaits
      /\ Handler(b, v, k, n)
    BY DEF Handler, Task, From, Same
<1>3. \/ /\ ~IsBusy(k, t) /\ k.py.mode = (IF starts THEN "shell" ELSE "repl")
         /\ Awaits(b, g, n, "command")
      \/ Result(b, k, n, "other", k.py.mode)
    BY DEF Issue
<1>4. CASE Result(b, k, n, "other", k.py.mode)
    <2> HIDE DEF n
    <2> QED
        BY <1>2, <1>4, ResultStep
<1>5. CASE /\ ~IsBusy(k, t) /\ k.py.mode = (IF starts THEN "shell" ELSE "repl")
           /\ Awaits(b, g, n, "command")
    <2>1. py \in Runtime /\ py.mode = k.py.mode /\ g = WithRuntime(k, py, k.intr)
        BY <1>1 DEF Runtime, HostState, WithRuntime
    <2>2. QuietRepl(k) => py.mode # "repl"
        BY <2>1 DEF QuietRepl
    <2>3. Awaits(b, g, n, "command") /\ "command" \in AwaitKind
        BY <1>5 DEF AwaitKind
    <2> HIDE DEF py, n, g
    <2>4. Handler(b, v, g, n) /\ g.py = py /\ Commands(g) = Commands(k)
        BY <1>1, <1>2, <2>1, <2>2, HandlerRuntime
    <2>5. ~IsBusy(g, n)
        BY <1>2, <1>5, <2>4 DEF IsBusy
    <2>6. t.kind = "repl" => ~NoReplActive(host[b])
        BY DEF Handler, From, Same, Near, NoReplActive
    <2>7. QuietRepl(g) => k.py.mode # "repl"
        BY <2>1, <2>4 DEF QuietRepl
    <2>8. QuietRepl(g) /\ NoReplActive(host[b]) => n.kind \notin {"line", "repl", "interrupt"}
        BY <1>2, <1>5, <2>6, <2>7
    <2>9. GoesOn(b)
        BY <1>2, <2>3, <2>4, <2>5, <2>8, AwaitsGoesOn
    <2> QED
        BY <2>9 DEF Stepped
<1> QED
    BY <1>3, <1>4, <1>5
-----------------------------------------------------------------------------
\* The steps of a handler, and what its worker does.
LEMMA HandlerCurrent ==
    ASSUME NEW b \in Browser, Sound(host[b]), NEW v, NEW k, NEW t, Handler(b, v, k, t)
    PROVE  LET n == [t EXCEPT !.runtime = "current"]
           IN  /\ Handler(b, v, k, n)
               /\ n.kind = t.kind /\ n.run = t.run /\ n.awaits = t.awaits
               /\ n.runtime = "current"
BY DEF Handler, Task, From, Same

\* The document is up to date: the handler looks whether it is still wanted.
LEMMA SyncedStep ==
    ASSUME NEW b \in Browser, Sound(host[b]), faulty \subseteq Faults,
           NEW v \in host[b].tasks, Synced(b, v)
    PROVE  Stepped(b, v)
<1> DEFINE h == host[b]
           n == [v EXCEPT !.runtime = "current"]
           g == [Closed(h) EXCEPT !.intr = None]
<1>1. Handler(b, v, h, v) /\ FitsKind(v) /\ h \in HostState
    BY HandlerItself DEF Sound
<1>2. v.kind # "eof"
    BY <1>1 DEF FitsKind, Synced
<1>3. CASE Fails(b, h, v)
    BY <1>1, <1>3, FailsEnds DEF Stepped
<1>4. CASE Ready(b, h, v, "shell")
    BY <1>1, <1>2, <1>4, ReadyEnds DEF Stepped
<1>5. CASE Awaits(b, h, v, "test")
    BY <1>1, <1>2, <1>5, AwaitsGoesOn DEF Stepped, AwaitKind
<1>6. CASE v.kind \in {"line", "exit"} /\ Awaits(b, h, n, "ready")
    <2>1. Handler(b, v, h, n) /\ n.kind = v.kind
        BY <1>1, HandlerCurrent
    <2> HIDE DEF n, h
    <2> QED
        BY <1>6, <2>1, AwaitsGoesOn DEF Stepped, AwaitKind
<1>7. CASE v.kind \in {"line", "exit"} /\ Issue(b, h, v)
    BY <1>1, <1>7, IssueStep
<1>8. CASE Awaits(b, g, v, "prepare")
    <2>1. Handler(b, v, Closed(h), v) /\ Closed(h).py = NoRuntime /\ NoRuntime \in Runtime
          /\ NoRuntime.mode # "repl"
        BY <1>1, HandlerClosed, PartedNear DEF Closed, NoRuntime, Runtime
    <2>2. Closed(h) \in HostState
        BY <1>1, <2>1, HandlerFits
    <2>3. g = WithRuntime(Closed(h), NoRuntime, None) /\ None \in RunId \cup {None}
        BY <2>1, <2>2 DEF WithRuntime, HostState
    <2> HIDE DEF g, h
    <2>4. Handler(b, v, g, v)
        BY <2>1, <2>3, HandlerRuntime
    <2> QED
        BY <1>2, <1>8, <2>4, AwaitsGoesOn DEF Stepped, AwaitKind
<1> QED
    BY <1>3, <1>4, <1>5, <1>6, <1>7, <1>8 DEF Synced

\* The worker's files are prepared: the handler starts another worker.
LEMMA PreparedStep ==
    ASSUME NEW b \in Browser, Sound(host[b]), faulty \subseteq Faults,
           NEW v \in host[b].tasks, Prepared(b, v)
    PROVE  Stepped(b, v)
<1> DEFINE h == host[b]
           p == Parted(h, "displaced")
           n == [v EXCEPT !.runtime = "current"]
           g == [p EXCEPT !.py.mode = "starting"]
           py == [NoRuntime EXCEPT !.mode = "starting"]
<1>1. Handler(b, v, h, v) /\ FitsKind(v) /\ h \in HostState
    BY HandlerItself DEF Sound
<1>2. v.kind # "eof"
    BY <1>1 DEF FitsKind, Prepared
<1>3. CASE Fails(b, h, v)
    BY <1>1, <1>3, FailsEnds DEF Stepped
<1>4. CASE Awaits(b, g, n, "start")
    <2>1. Near(h, p) /\ QuietRepl(p) /\ p.py = NoRuntime /\ p.intr = h.intr
        BY PartedNear
    <2>2. p \in HostState
        BY <2>1 DEF Near, Sound
    <2>3. py \in Runtime /\ py.mode # "repl"
        BY DEF NoRuntime, Runtime
    <2>4. g = WithRuntime(p, py, p.intr) /\ p.intr \in RunId \cup {None}
        BY <2>1, <2>2 DEF WithRuntime, HostState
    <2>5. Handler(b, v, p, v)
        BY <1>1, <2>1 DEF Handler
    <2>6. Handler(b, v, p, n) /\ n.kind = v.kind
        BY <2>5, HandlerCurrent
    <2> HIDE DEF g, h, py, p, n
    <2>7. Handler(b, v, g, n)
        BY <2>3, <2>4, <2>6, HandlerRuntime
    <2> QED
        BY <1>2, <1>4, <2>6, <2>7, AwaitsGoesOn DEF Stepped, AwaitKind
<1> QED
    BY <1>3, <1>4 DEF Prepared

\* A worker that cannot start makes its handler fail.
LEMMA FailsAtLengthEnds ==
    ASSUME NEW b \in Browser, Sound(host[b]), faulty \subseteq Faults,
           NEW v, NEW k, NEW t, Handler(b, v, k, t), t.kind # "eof",
           FailsAtLength(b, k, t)
    PROVE  EndsHandler(b, v)
<1> DEFINE m == [type |-> "invalid"]
<1>1. m \in HostAction /\ m.type \notin UserTypes /\ ~IsReport(m)
    BY DEF HostAction, UserTypes, IsReport
<1>2. Dispatches(b, Ended(k, t), m) /\ faulty' \subseteq Faults
    BY DEF FailsAtLength
<1> HIDE DEF m
<1> QED
    BY <1>1, <1>2, DispatchEnds

\* A worker that has started gets its first command.
LEMMA StartedStep ==
    ASSUME NEW b \in Browser, Sound(host[b]), faulty \subseteq Faults,
           NEW v \in host[b].tasks, Started(b, v)
    PROVE  Stepped(b, v)
<1> DEFINE h == host[b]
           g == [h EXCEPT !.py.mode = "shell"]
           py == [h.py EXCEPT !.mode = "shell"]
<1>1. Handler(b, v, h, v) /\ FitsKind(v) /\ h \in HostState
    BY HandlerItself DEF Sound
<1>2. v.kind # "eof"
    BY <1>1 DEF FitsKind, Started
<1>3. Handler(b, v, Closed(h), v)
    BY <1>1, HandlerClosed
<1>4. Handler(b, v, g, v) /\ g.exec = h.exec
    <2>1. py \in Runtime /\ py.mode # "repl"
        BY <1>1 DEF Runtime, HostState
    <2>2. g = WithRuntime(h, py, h.intr) /\ h.intr \in RunId \cup {None}
        BY <1>1 DEF WithRuntime, HostState
    <2> HIDE DEF g, py, h
    <2> QED
        BY <1>1, <2>1, <2>2, HandlerRuntime
<1>5. /\ \/ Fails(b, Closed(h), v)
         \/ FailsAtLength(b, Closed(h), v)
         \/ Fails(b, g, v)
         \/ IsActive(h, v) /\ Issue(b, g, v)
    BY DEF Started
<1> HIDE DEF g
<1>6. CASE Fails(b, Closed(h), v)
    BY <1>3, <1>6, FailsEnds DEF Stepped
<1>7. CASE FailsAtLength(b, Closed(h), v)
    BY <1>2, <1>3, <1>7, FailsAtLengthEnds DEF Stepped
<1>8. CASE Fails(b, g, v)
    BY <1>4, <1>8, FailsEnds DEF Stepped
<1>9. CASE IsActive(h, v) /\ Issue(b, g, v)
    BY <1>4, <1>9, IssueStep DEF IsActive
<1> QED
    BY <1>5, <1>6, <1>7, <1>8, <1>9

\* Steps whose code does one thing.
LEMMA PlainSteps ==
    ASSUME NEW b \in Browser, Sound(host[b]), faulty \subseteq Faults,
           NEW v \in host[b].tasks,
           Waited(b, v) \/ Tested(b, v) \/ Lost(b, v) \/ Applied(b, v) \/ Flushed(b, v)
    PROVE  Stepped(b, v)
<1> DEFINE h == host[b]
<1>1. Handler(b, v, h, v) /\ FitsKind(v)
    BY HandlerItself DEF Sound
<1>2. CASE Waited(b, v)
    <2>1. Issue(b, h, v) /\ v.kind # "repl"
        BY <1>1, <1>2 DEF Waited, FitsKind
    <2> QED
        BY <1>1, <2>1, IssueStep
<1>3. CASE Fails(b, h, v)
    BY <1>1, <1>3, FailsEnds DEF Stepped
<1>4. CASE Tested(b, v) /\ Ready(b, h, v, "shell")
    <2>1. v.kind # "eof"
        BY <1>1, <1>4 DEF Tested, FitsKind
    <2> QED
        BY <1>1, <1>4, <2>1, ReadyEnds DEF Stepped
<1>5. CASE IsActive(h, v) /\ Awaits(b, h, v, "flush")
    BY <1>1, <1>5, AwaitsGoesOn DEF Stepped, AwaitKind
<1>6. CASE Ready(b, ClosedBy(h, v), v, "shell")
    <2>1. Handler(b, v, ClosedBy(h, v), v)
          /\ (v.runtime = "current" => QuietRepl(ClosedBy(h, v)))
        BY <1>1, HandlerClosed
    <2> QED
        BY <1>6, <2>1, ReadyEnds DEF Stepped
<1> QED
    BY <1>2, <1>3, <1>4, <1>5, <1>6 DEF Tested, Lost, Applied, Flushed

\* The program of a handler ends; only that of a line, a REPL or a reset prompt leaves
\* the runtime in Python.
LEMMA ReturnedStep ==
    ASSUME NEW b \in Browser, Sound(host[b]), faulty \subseteq Faults,
           NEW v \in host[b].tasks, Returned(b, v)
    PROVE  Stepped(b, v)
<1> DEFINE h == host[b]
           n == [v EXCEPT !.delta = TRUE]
<1>1. Handler(b, v, h, v) /\ h \in HostState
    BY HandlerItself DEF Sound
<1>2. Handler(b, v, h, n) /\ n.runtime = v.runtime
    BY <1>1 DEF Handler, Task, From, Same
<1>3. PICK mode, status :
         /\ mode \in {"shell", "repl"}
         /\ mode = "repl" => v.awaits = "rewind" \/ v.kind \in {"line", "repl", "interrupt"}
         /\ v.awaits \in {"command", "rewind"}
         /\ Result(b, IF v.runtime = "current"
                      THEN [h EXCEPT !.py = [NoRuntime EXCEPT !.mode = mode]] ELSE h,
                   n, status, mode)
    BY DEF Returned
<1>4. CASE v.runtime # "current"
    <2>1. Result(b, h, n, status, mode)
        BY <1>3, <1>4
    <2> HIDE DEF n
    <2> QED
        BY <1>2, <1>4, <2>1, ResultStep
<1>5. CASE v.runtime = "current"
    <2> DEFINE py == [NoRuntime EXCEPT !.mode = mode]
               g  == [h EXCEPT !.py = py]
    <2>1. py \in Runtime /\ py.mode = mode
        BY <1>3 DEF NoRuntime, Runtime
    <2>2. g = WithRuntime(h, py, h.intr) /\ h.intr \in RunId \cup {None}
        BY <1>1 DEF WithRuntime, HostState
    <2>3. v \in Commands(h)
        BY <1>3, <1>5 DEF Commands
    <2>4. QuietRepl(h) => mode # "repl"
        BY <1>3, <2>3 DEF QuietRepl
    <2>5. Result(b, g, n, status, mode)
        BY <1>3, <1>5
    <2> HIDE DEF g, py, h, n
    <2>6. Handler(b, v, g, n) /\ g.py = py
        BY <1>2, <2>1, <2>2, <2>4, HandlerRuntime
    <2> QED
        BY <2>1, <2>5, <2>6, ResultStep
<1> QED
    BY <1>4, <1>5

\* The program of a browser asks, or its time is up, or its idle worker dies.
LEMMA WorkerStep ==
    ASSUME NEW b \in Browser, Sound(host[b]), faulty \subseteq Faults,
           Asks(b) \/ TimesOut(b) \/ Dies(b)
    PROVE  GoesOn(b) \/ \E v \in host[b].tasks : EndsHandler(b, v)
<1> DEFINE h == host[b]
<1>1. h \in HostState
    BY DEF Sound
<1>2. CASE Asks(b)
    <2> DEFINE py == [h.py EXCEPT !.asking = TRUE]
               g  == [h EXCEPT !.py.asking = TRUE]
               m  == [type |-> "host-input-request", run |-> h.exec]
    <2>1. py \in Runtime /\ py.mode = h.py.mode
        BY <1>1 DEF Runtime, HostState
    <2>2. g = WithRuntime(h, py, h.intr) /\ h.intr \in RunId \cup {None}
        BY <1>1 DEF WithRuntime, HostState
    <2>3. \/ h.exec # None /\ Dispatches(b, g, m) /\ faulty' = faulty
          \/ Becomes(b, g)
        BY <1>2 DEF Asks
    <2>4. QuietRepl(h) => py.mode # "repl"
        BY <2>1 DEF QuietRepl
    <2>5. h.exec # None => m \in HostAction /\ m.type \notin UserTypes /\ ~IsReport(m)
        BY <1>1 DEF HostAction, HostState, UserTypes, IsReport
    <2> HIDE DEF g, py, m
    <2>6. Near(h, g) /\ g.exec = h.exec
        BY <2>1, <2>2, <2>4, RuntimeNear
    <2>7. Evolves(h, g)
        BY <2>6, NearEvolves
    <2>8. CASE h.exec # None /\ Dispatches(b, g, m) /\ faulty' = faulty
        <3>1. Moves(b, g) /\ MaySend(b, m)
            BY <2>5, <2>8 DEF Dispatches, Moves, MaySend
        <3> QED
            BY <2>5, <2>6, <2>7, <2>8, <3>1 DEF GoesOn
    <2>9. CASE Becomes(b, g)
        <3>1. Moves(b, g) /\ up' = up /\ faulty' = faulty
            BY <2>9 DEF Becomes, Moves
        <3> QED
            BY <2>6, <2>7, <3>1, SilentlyGoesOn
    <2> QED
        BY <2>3, <2>8, <2>9
<1>3. Near(h, Closed(h)) /\ Closed(h).exec = h.exec
    BY PartedNear DEF Closed, Near
<1>4. Evolves(h, Closed(h))
    BY <1>3, NearEvolves
<1>5. CASE Becomes(b, Closed(h))
    <2>1. Moves(b, Closed(h)) /\ up' = up /\ faulty' = faulty
        BY <1>5 DEF Becomes, Moves
    <2> QED
        BY <1>3, <1>4, <2>1, SilentlyGoesOn
<1>6. CASE Dies(b)
    <2>1. host' = [host EXCEPT ![b] = Closed(h)]
        BY <1>6 DEF Dies
    <2>2. Moves(b, Closed(h)) /\ up' = up /\ faulty' \subseteq Faults
        BY <1>6, <2>1 DEF Dies, Moves
    <2> QED
        BY <1>3, <1>4, <2>2, SilentlyGoesOn
<1>7. CASE \E t \in host[b].tasks :
              t.runtime = "displaced" /\ Result(b, host[b], t, "bad", "closed")
    <2>1. PICK v \in host[b].tasks :
             v.runtime = "displaced" /\ Result(b, host[b], v, "bad", "closed")
        BY <1>7
    <2>2. Handler(b, v, host[b], v)
        BY HandlerItself
    <2>3. Stepped(b, v)
        BY <2>1, <2>2, ResultStep
    <2> QED
        BY <2>3 DEF Stepped
<1> QED
    BY <1>2, <1>5, <1>6, <1>7 DEF TimesOut

\* Every step of a browser's own handlers and worker is one of the two.
LEMMA HandlerStep ==
    ASSUME NEW b \in Browser, Sound(host[b]), faulty \subseteq Faults,
           Goes(b) \/ Returns(b) \/ Asks(b) \/ TimesOut(b) \/ Dies(b)
    PROVE  GoesOn(b) \/ \E v \in host[b].tasks : EndsHandler(b, v)
<1>1. CASE Goes(b)
    <2>1. PICK v \in host[b].tasks :
             \/ Synced(b, v)
             \/ Prepared(b, v)
             \/ Started(b, v)
             \/ Waited(b, v)
             \/ Tested(b, v)
             \/ Lost(b, v)
             \/ Applied(b, v)
             \/ Flushed(b, v)
        BY <1>1 DEF Goes
    <2>2. Stepped(b, v)
        BY <2>1, SyncedStep, PreparedStep, StartedStep, PlainSteps
    <2> QED
        BY <2>2 DEF Stepped
<1>2. CASE Returns(b)
    <2>1. PICK v \in host[b].tasks : Returned(b, v)
        BY <1>2 DEF Returns
    <2>2. Stepped(b, v)
        BY <2>1, ReturnedStep
    <2> QED
        BY <2>2 DEF Stepped
<1>3. CASE Asks(b) \/ TimesOut(b) \/ Dies(b)
    BY <1>3, WorkerStep
<1> QED
    BY <1>1, <1>2, <1>3
-----------------------------------------------------------------------------
\* What comes of an effect e that browser b receives.
Executing(h, r, intr) == [h EXCEPT !.exec = r, !.intr = intr]

\* Noting the run an effect is about changes neither handlers nor runtime.
LEMMA ExecutingAlike ==
    ASSUME NEW h, Sound(h), NEW r \in RunId \cup {None}, NEW intr \in RunId \cup {None}
    PROVE  LET g == Executing(h, r, intr)
           IN  /\ Alike(h, g) /\ g.exec = r /\ g.intr = intr /\ g.py = h.py
               /\ g.tasks = h.tasks /\ Commands(g) = Commands(h)
<1> DEFINE g == Executing(h, r, intr)
<1>1. h \in HostState
    BY DEF Sound
<1>2. g \in HostState /\ g.tasks = h.tasks /\ g.py = h.py /\ g.intr = intr /\ g.exec = r
      /\ g.shown = h.shown /\ g.readOnly = h.readOnly
    BY <1>1 DEF HostState, Executing
<1> HIDE DEF g
<1>3. Commands(g) = Commands(h)
    BY <1>2 DEF Commands
<1>4. Sound(g) /\ (QuietRepl(h) => QuietRepl(g))
    BY <1>2, <1>3 DEF Sound, QuietRepl
<1>5. Alike(h, g)
    BY <1>2, <1>4 DEF Alike, From, Same
<1> QED
    BY <1>2, <1>3, <1>5 DEF g

\* A handler already waits for what it waits for.
LEMMA AwaitsAlready ==
    ASSUME NEW t \in Task
    PROVE  [t EXCEPT !.awaits = t.awaits] = t
BY DEF Task

\* The kinds of handler an effect may start.
Starts(e, kind) ==
    \/ e.type = "start-run" /\ kind = (IF e.test = None THEN "script" ELSE "test")
    \/ e.type = "execute-line" /\ kind \in IF e.python THEN {"line", "exit"}
                                           ELSE {"builtin", "script", "repl"}
    \/ e.type = "interrupt" /\ e.python /\ kind = "interrupt"
    \/ e.type = "eof" /\ kind = "eof"

\* The effect starts handler t.
Begins(b, e, g, t) ==
    /\ Usable(host[b]) /\ Sound(g) /\ t \in g.tasks /\ g.tasks \subseteq host[b].tasks \cup {t}
    /\ g.shown = host[b].shown /\ g.readOnly = host[b].readOnly /\ g.exec = e.run
    /\ t.run = e.run /\ t.sock = sock[b] /\ t.live /\ Starts(e, t.kind)
    /\ t.awaits # "flush"
    /\ IF IsStart(e) THEN t.runtime = "none"
       ELSE t.runtime = "current" /\ ~QuietRepl(host[b]) /\ host[b].exec # e.run
    /\ QuietRepl(host[b]) => QuietRepl(g)

\* Nothing starts: who waits for the run is answered, or gives it up, or goes on.
Heeds(b, e, g, m) ==
    \/ g.exec = host[b].exec /\ ~IsReport(m)
    \/ /\ g.exec = None /\ host[b].exec = e.run /\ ~IsReport(m)
       /\ e.type = "interrupt" /\ ~e.python
    \/ /\ g.exec = host[b].exec /\ e.type = "interrupt" /\ e.python /\ m.run = e.run
    \/ /\ g.exec = None /\ host[b].exec # e.run /\ m.run = e.run
       /\ \/ e.type = "interrupt" /\ e.python
          \/ e.type = "eof" /\ QuietRepl(g)

\* What a browser may do with an effect: it begins a handler, or heeds it on the spot.
Receives(b, e) ==
    \E g, m :
        /\ Moves(b, g) /\ MaySend(b, m) /\ faulty' \subseteq Faults
        /\ \/ \E t : Begins(b, e, g, t) /\ ~IsReport(m)
           \/ Evolves(host[b], g) /\ Heeds(b, e, g, m)

\* Sending nothing is a way of sending no report.
LEMMA SilentMessage ==
    ASSUME NEW b, up' = up
    PROVE  LET m == [type |-> "invalid"] IN MaySend(b, m) /\ ~IsReport(m)
BY DEF MaySend, HostAction, UserTypes, IsReport

\* An effect that is heeded without a message.
LEMMA HeedsSilently ==
    ASSUME NEW b, NEW e, NEW g, Becomes(b, g), faulty \subseteq Faults,
           Alike(host[b], g),
           \/ g.exec = host[b].exec
           \/ g.exec = None /\ host[b].exec = e.run /\ e.type = "interrupt" /\ ~e.python
    PROVE  Receives(b, e)
<1> DEFINE m == [type |-> "invalid"]
<1>1. MaySend(b, m) /\ ~IsReport(m) /\ Moves(b, g) /\ faulty' \subseteq Faults
    BY SilentMessage DEF Becomes, Moves
<1> HIDE DEF m
<1>2. Heeds(b, e, g, m)
    BY <1>1 DEF Heeds
<1> QED
    BY <1>1, <1>2, NearAlike DEF Receives

\* A command of the user's starts a handler that first waits for the document.
LEMMA ReceiveRunStep ==
    ASSUME NEW b \in Browser, Sound(host[b]), faulty \subseteq Faults,
           sock[b] \in Socket, Usable(host[b]),
           NEW e \in HostEffect, IsStart(e), ReceiveRun(b, host[b], e)
    PROVE  Receives(b, e)
<1> DEFINE h == host[b]
           k == [h EXCEPT !.exec = e.run]
<1>1. h \in HostState /\ e.run \in RunId
    BY DEF Sound, HostEffect
<1>2. PICK kind :
         /\ Starts(e, kind)
         /\ Awaits(b, k, [run |-> e.run, kind |-> kind, sock |-> sock[b], live |-> TRUE,
                          runtime |-> "none", awaits |-> "sync", delta |-> FALSE], "sync")
    BY DEF ReceiveRun, StartsHandler, IsStart, Starts
<1> DEFINE t == [run |-> e.run, kind |-> kind, sock |-> sock[b], live |-> TRUE,
                 runtime |-> "none", awaits |-> "sync", delta |-> FALSE]
           g == Continued(k, t, "sync")
           n == [t EXCEPT !.awaits = "sync"]
<1>3. kind \in Kind \ {"eof", "interrupt"} /\ (kind = "test" => Test # {})
    BY <1>2 DEF Starts, Kind, IsStart, HostEffect
<1>4. /\ t \in Task /\ t.run = e.run /\ t.kind = kind /\ t.sock = sock[b] /\ t.live
      /\ t.runtime = "none" /\ t.awaits = "sync"
    BY <1>1, <1>3 DEF Task
<1>5a. n = t
    <2> HIDE DEF t
    <2> QED
        BY <1>4, AwaitsAlready
<1>5. Becomes(b, g)
    BY <1>2 DEF Awaits, Continued
<1>6. k = Executing(h, e.run, h.intr) /\ h.intr \in RunId \cup {None}
    BY <1>1 DEF HostState, Executing
<1> HIDE DEF t, k
<1>7. Alike(h, k) /\ k.exec = e.run /\ k.py = h.py /\ k.tasks = h.tasks /\ Commands(k) = Commands(h)
    BY <1>1, <1>6, ExecutingAlike
<1>8. Sound(k) /\ k \in HostState
    BY <1>7 DEF Alike, Sound
<1>9. FitsKind(n) /\ "sync" \in AwaitKind
    BY <1>3, <1>4, <1>5a DEF FitsKind, AwaitKind
<1>10. Sound(g)
    BY <1>4, <1>8, <1>9, ContinuedSound
<1>11. /\ g.shown = k.shown /\ g.readOnly = k.readOnly /\ g.exec = k.exec /\ g.py = k.py
       /\ g.tasks = {u \in k.tasks : ~Same(u, t)} \cup {n}
    BY <1>4, <1>8, <1>9, ContinuedFields
<1> HIDE DEF g, n
<1>12. Commands(g) \subseteq Commands(h)
    BY <1>4, <1>5a, <1>7, <1>11 DEF Commands
<1>13. QuietRepl(h) => QuietRepl(g)
    BY <1>7, <1>11, <1>12 DEF QuietRepl
<1>14. Begins(b, e, g, t)
    BY <1>2, <1>4, <1>5a, <1>7, <1>10, <1>11, <1>13 DEF Begins, Alike
<1> DEFINE m == [type |-> "invalid"]
<1>15. MaySend(b, m) /\ ~IsReport(m) /\ Moves(b, g) /\ faulty' \subseteq Faults
    BY <1>5, SilentMessage DEF Becomes, Moves
<1> QED
    BY <1>14, <1>15 DEF Receives

\* A signal for an idle Python starts a handler whose command is issued at once.
LEMMA ReceiveSignalStep ==
    ASSUME NEW b \in Browser, Sound(host[b]), faulty \subseteq Faults,
           sock[b] \in Socket, Usable(host[b]),
           NEW e \in HostEffect, NEW kind \in {"interrupt", "eof"},
           e.type = kind, kind = "interrupt" => e.python,
           host[b].py.mode = "repl", host[b].exec # e.run,
           NEW k, NEW intr \in RunId \cup {None}, k = Executing(host[b], e.run, intr),
           LET t == [run |-> e.run, kind |-> kind, sock |-> sock[b], live |-> TRUE,
                     runtime |-> "none", awaits |-> "issue", delta |-> FALSE]
           IN  Issue(b, k, t)
    PROVE  Receives(b, e)
<1> DEFINE h == host[b]
           t == [run |-> e.run, kind |-> kind, sock |-> sock[b], live |-> TRUE,
                 runtime |-> "none", awaits |-> "issue", delta |-> FALSE]
           c == [t EXCEPT !.runtime = "current"]
           p == [k EXCEPT !.py.interrupted = FALSE]
           n == [c EXCEPT !.awaits = "command"]
<1>1. h \in HostState /\ e.run \in RunId /\ Starts(e, kind) /\ ~IsStart(e) /\ ~QuietRepl(h)
    BY DEF Sound, HostEffect, Starts, IsStart, QuietRepl
<1>2. Alike(h, k) /\ k.exec = e.run /\ k.intr = intr /\ k.py = h.py /\ k.tasks = h.tasks
      /\ Commands(k) = Commands(h)
    BY <1>1, ExecutingAlike
<1>3. Sound(k) /\ k \in HostState /\ k.py \in Runtime
    BY <1>2 DEF Alike, Sound, HostState
<1>4. /\ n \in Task /\ n.run = e.run /\ n.kind = kind /\ n.sock = sock[b] /\ n.live
      /\ n.runtime = "current" /\ n.awaits = "command"
      /\ c.run = n.run /\ c.kind = n.kind /\ c.runtime = "current"
    BY <1>1 DEF Task, Kind
<1>5. \/ ~IsBusy(k, t) /\ Awaits(b, p, c, "command")
      \/ Fails(b, k, c)
    BY DEF Issue, Result, SignalResult
<1>6. t.run = n.run /\ t.kind = n.kind /\ [c EXCEPT !.awaits = "command"] = n
    OBVIOUS
<1> HIDE DEF n
<1>6a. [n EXCEPT !.awaits = "command"] = n
    BY <1>4, AwaitsAlready
<1> HIDE DEF t, c
<1>7. CASE ~IsBusy(k, t) /\ Awaits(b, p, c, "command")
    <2> DEFINE py == [k.py EXCEPT !.interrupted = FALSE]
               g  == Continued(p, n, "command")
    <2>1. py \in Runtime /\ p = WithRuntime(k, py, k.intr)
        BY <1>3 DEF Runtime, HostState, WithRuntime
    <2>2. k.intr \in RunId \cup {None} /\ (QuietRepl(k) => py.mode # "repl")
        BY <1>1, <1>2, <1>3 DEF HostState, QuietRepl
    <2>3. Becomes(b, [p EXCEPT !.tasks = {u \in @ : <<u.run, u.kind>> # <<c.run, c.kind>>}
                                          \cup {[c EXCEPT !.awaits = "command"]}])
        BY <1>7 DEF Awaits
    <2> HIDE DEF py, p
    <2>4. Becomes(b, g)
        <3>1. {u \in p.tasks : <<u.run, u.kind>> # <<c.run, c.kind>>}
                 = {u \in p.tasks : <<u.run, u.kind>> # <<n.run, n.kind>>}
            BY <1>4
        <3> QED
            BY <1>6, <1>6a, <2>3, <3>1 DEF Continued
    <2>5. Near(k, p) /\ p.exec = k.exec /\ Commands(p) = Commands(k)
        BY <1>3, <2>1, <2>2, RuntimeNear
    <2>6. Sound(p) /\ p \in HostState /\ p.shown = h.shown /\ p.readOnly = h.readOnly
        BY <1>2, <2>5 DEF Near, Sound, Alike
    <2>7. p.tasks = h.tasks
        BY <1>2, <1>3, <2>1 DEF WithRuntime, HostState
    <2>8. ~IsBusy(p, n)
        BY <1>6, <1>7, <2>5 DEF IsBusy
    <2>9. FitsKind([n EXCEPT !.awaits = "command"]) /\ "command" \in AwaitKind
        BY <1>4, <1>6a DEF FitsKind, AwaitKind
    <2>10. Sound(g)
        BY <1>4, <2>6, <2>8, <2>9, ContinuedSound
    <2>11. /\ g.shown = p.shown /\ g.readOnly = p.readOnly /\ g.exec = p.exec
           /\ g.tasks = {u \in p.tasks : ~Same(u, n)} \cup {n}
        BY <1>4, <1>6a, <2>6, <2>9, ContinuedFields
    <2> HIDE DEF g
    <2>12. Begins(b, e, g, n)
        BY <1>1, <1>2, <1>4, <2>5, <2>6, <2>7, <2>10, <2>11 DEF Begins
    <2> DEFINE m == [type |-> "invalid"]
    <2>13. MaySend(b, m) /\ ~IsReport(m) /\ Moves(b, g) /\ faulty' \subseteq Faults
        BY <2>4, SilentMessage DEF Becomes, Moves
    <2> QED
        BY <2>12, <2>13 DEF Receives
<1>8. CASE Fails(b, k, c)
    <2> DEFINE m == [type |-> "host-failed", run |-> c.run]
               l == IF c.kind = "eof" THEN Closed(k) ELSE k
               g == Ended(l, c)
    <2>1. Dispatches(b, g, m) /\ faulty' \subseteq Faults
        BY <1>4, <1>8 DEF Fails, ClosedBy
    <2>2. m \in HostAction /\ m.type \notin UserTypes /\ m.run = e.run
        BY <1>1, <1>4 DEF HostAction, UserTypes
    <2> HIDE DEF m
    <2>3. Near(k, l) /\ (c.kind = "eof" => QuietRepl(l))
        BY <1>3, PartedNear, NearSelf DEF Closed
    <2> HIDE DEF l
    <2>4. /\ Alike(k, g)
          /\ g.exec = IF k.exec = c.run THEN None ELSE k.exec
          /\ QuietRepl(l) => QuietRepl(g)
        BY <2>3, EndedEvolves
    <2> HIDE DEF g
    <2>5. Alike(h, g)
        BY <1>2, <2>4, AlikeNear
    <2>6. g.exec = None /\ (e.type = "eof" => QuietRepl(g))
        BY <1>2, <1>4, <2>3, <2>4
    <2>7. Moves(b, g) /\ MaySend(b, m)
        BY <2>1, <2>2 DEF Dispatches, Moves, MaySend
    <2>8. Heeds(b, e, g, m)
        BY <2>2, <2>6 DEF Heeds
    <2> QED
        BY <2>1, <2>5, <2>7, <2>8, NearAlike DEF Receives
<1> QED
    BY <1>5, <1>7, <1>8

\* Interrupting the worker changes nothing but the runtime.
LEMMA InterruptedNear ==
    ASSUME NEW h, Sound(h)
    PROVE  Near(h, Interrupted(h))
<1> DEFINE py == [h.py EXCEPT !.interrupted = TRUE, !.asking = FALSE]
<1>1. h \in HostState
    BY DEF Sound
<1>2. py \in Runtime /\ py.mode = h.py.mode
    BY <1>1 DEF Runtime, HostState
<1>3. CASE Commands(h) = {}
    BY <1>3, NearSelf DEF Interrupted
<1>4. CASE Commands(h) # {}
    <2>1. Interrupted(h) = WithRuntime(h, py, h.intr) /\ h.intr \in RunId \cup {None}
        BY <1>1, <1>4 DEF Interrupted, WithRuntime, HostState
    <2>2. QuietRepl(h) => py.mode # "repl"
        BY <1>2 DEF QuietRepl
    <2> HIDE DEF py
    <2> QED
        BY <1>2, <2>1, <2>2, RuntimeNear
<1> QED
    BY <1>3, <1>4

\* A line of input reaches the worker that asked for it.
LEMMA AnsweredStep ==
    ASSUME NEW b \in Browser, Sound(host[b]), faulty \subseteq Faults, NEW e,
           Becomes(b, [host[b] EXCEPT !.py.asking = FALSE])
    PROVE  Receives(b, e)
<1> DEFINE h  == host[b]
           py == [h.py EXCEPT !.asking = FALSE]
           g  == [h EXCEPT !.py.asking = FALSE]
<1>1. h \in HostState
    BY DEF Sound
<1>2. py \in Runtime /\ py.mode = h.py.mode
    BY <1>1 DEF Runtime, HostState
<1>3. g = WithRuntime(h, py, h.intr) /\ h.intr \in RunId \cup {None}
    BY <1>1 DEF WithRuntime, HostState
<1>4. QuietRepl(h) => py.mode # "repl"
    BY <1>2 DEF QuietRepl
<1> HIDE DEF g, py
<1>5. Near(h, g)
    BY <1>2, <1>3, <1>4, RuntimeNear
<1>6. Alike(h, g) /\ g.exec = h.exec
    BY <1>5, NearAlike DEF Near
<1>7. Becomes(b, g)
    BY DEF g
<1> QED
    BY <1>6, <1>7, HeedsSilently

\* A REPL's interrupt begins a handler, or is reported at once.
LEMMA ReceivePythonInterruptStep ==
    ASSUME NEW b \in Browser, Sound(host[b]), faulty \subseteq Faults,
           sock[b] \in Socket, Usable(host[b]),
           NEW e \in HostEffect, e.type = "interrupt", e.python,
           ReceivePythonInterrupt(b, host[b], e)
    PROVE  Receives(b, e)
<1> DEFINE h == host[b]
           g == [h EXCEPT !.intr = e.run]
           k == Executing(h, e.run, e.run)
           m == [type |-> "host-failed", run |-> e.run]
           t == [run |-> e.run, kind |-> "interrupt", sock |-> sock[b], live |-> TRUE,
                 runtime |-> "none", awaits |-> "issue", delta |-> FALSE]
<1>1. h \in HostState /\ e.run \in RunId
    BY DEF Sound, HostEffect
<1>2. CASE Dispatches(b, h, m) /\ faulty' = faulty
    <2>1. m \in HostAction /\ m.type \notin UserTypes /\ m.run = e.run
        BY <1>1 DEF HostAction, UserTypes
    <2> HIDE DEF m
    <2>2. Moves(b, h) /\ MaySend(b, m)
        BY <1>2, <2>1 DEF Dispatches, Moves, MaySend
    <2>3. Evolves(h, h) /\ Heeds(b, e, h, m)
        BY <2>1, NearSelf, NearEvolves DEF Heeds
    <2> QED
        BY <1>2, <2>2, <2>3 DEF Receives
<1>3. CASE Becomes(b, Interrupted(g))
    <2>1. g = WithRuntime(h, h.py, e.run) /\ e.run \in RunId \cup {None} /\ h.py \in Runtime
        BY <1>1 DEF WithRuntime, HostState
    <2>2. QuietRepl(h) => h.py.mode # "repl"
        BY DEF QuietRepl
    <2> HIDE DEF g, h
    <2>3. Near(h, g)
        BY <2>1, <2>2, RuntimeNear DEF h
    <2>4. Near(g, Interrupted(g))
        BY <2>3, InterruptedNear DEF Near
    <2>5. Near(h, Interrupted(g))
        BY <2>3, <2>4, NearNear
    <2>6. Alike(host[b], Interrupted(g)) /\ Interrupted(g).exec = host[b].exec
        BY <2>5, NearAlike DEF Near, h
    <2> QED
        BY <1>3, <2>6, HeedsSilently
<1>4. CASE h.py.mode = "repl" /\ h.exec # e.run /\ StartsHandler(b, g, e, {"interrupt"}, "issue")
    <2>1. [g EXCEPT !.exec = e.run] = k
        BY <1>1 DEF HostState, Executing
    <2>2. Issue(b, [g EXCEPT !.exec = e.run], t)
        BY <1>4 DEF StartsHandler
    <2>3. Issue(b, k, t) /\ e.run \in RunId \cup {None}
        BY <1>1, <2>1, <2>2
    <2> HIDE DEF k
    <2>4. k = Executing(h, e.run, e.run)
        BY DEF k
    <2> QED
        BY <1>4, <2>3, <2>4, ReceiveSignalStep
<1> QED
    BY <1>2, <1>3, <1>4 DEF ReceivePythonInterrupt

\* Another run's interrupt stops its worker.
LEMMA ReceiveInterruptStep ==
    ASSUME NEW b \in Browser, Sound(host[b]), faulty \subseteq Faults,
           sock[b] \in Socket, Usable(host[b]),
           NEW e \in HostEffect, e.type = "interrupt", ~e.python,
           ReceiveInterrupt(b, host[b], e)
    PROVE  Receives(b, e)
<1> DEFINE h == host[b]
           g == [h EXCEPT !.exec = None, !.intr = None]
<1>1. CASE Becomes(b, h)
    BY <1>1, NearSelf, NearAlike, HeedsSilently
<1>2. CASE h.exec = e.run /\ Becomes(b, IF h.py.mode = "starting" THEN Closed(g) ELSE Interrupted(g))
    <2>1. g = Executing(h, None, None)
        BY DEF Executing
    <2> HIDE DEF g
    <2>2. Alike(h, g) /\ g.exec = None
        BY <2>1, ExecutingAlike
    <2>3. ASSUME NEW l, Near(g, l)
          PROVE  Alike(h, l) /\ l.exec = None
        BY <2>2, <2>3, AlikeNear DEF Near
    <2>4. Near(g, Closed(g)) /\ Near(g, Interrupted(g))
        BY <2>2, PartedNear, InterruptedNear DEF Closed, Alike
    <2>5. /\ Alike(h, Closed(g)) /\ Closed(g).exec = None
          /\ Alike(h, Interrupted(g)) /\ Interrupted(g).exec = None
        BY <2>3, <2>4
    <2>6. Becomes(b, Closed(g)) \/ Becomes(b, Interrupted(g))
        BY <1>2
    <2> QED
        BY <1>2, <2>5, <2>6, HeedsSilently
<1> QED
    BY <1>1, <1>2 DEF ReceiveInterrupt

\* So does the end of input, or a REPL ends by it.
LEMMA ReceiveEofStep ==
    ASSUME NEW b \in Browser, Sound(host[b]), faulty \subseteq Faults,
           sock[b] \in Socket, Usable(host[b]),
           NEW e \in HostEffect, e.type = "eof", ReceiveEof(b, host[b], e)
    PROVE  Receives(b, e)
<1> DEFINE h == host[b]
           k == Executing(h, e.run, h.intr)
           t == [run |-> e.run, kind |-> "eof", sock |-> sock[b], live |-> TRUE,
                 runtime |-> "none", awaits |-> "issue", delta |-> FALSE]
<1>1. h \in HostState /\ e.run \in RunId
    BY DEF Sound, HostEffect
<1>2. CASE Becomes(b, h)
    BY <1>2, NearSelf, NearAlike, HeedsSilently
<1>3. CASE Becomes(b, [h EXCEPT !.py.asking = FALSE])
    BY <1>1, <1>3, AnsweredStep
<1>4. CASE h.py.mode = "repl" /\ h.exec # e.run /\ StartsHandler(b, h, e, {"eof"}, "issue")
    <2>1. [h EXCEPT !.exec = e.run] = k /\ h.intr \in RunId \cup {None}
        BY <1>1 DEF HostState, Executing
    <2>2. Issue(b, [h EXCEPT !.exec = e.run], t)
        BY <1>4 DEF StartsHandler
    <2>3. Issue(b, k, t)
        BY <2>1, <2>2
    <2> HIDE DEF k
    <2>4. k = Executing(h, e.run, h.intr)
        BY DEF k
    <2> QED
        BY <1>4, <2>1, <2>3, <2>4, ReceiveSignalStep
<1> QED
    BY <1>2, <1>3, <1>4 DEF ReceiveEof

\* Every effect a browser receives is one of these.
LEMMA ReceiveStep ==
    ASSUME NEW b \in Browser, Sound(host[b]), faulty \subseteq Faults,
           sock[b] \in Socket, NEW e \in HostEffect, e = Head(down[sock[b]]), Receive(b)
    PROVE  Receives(b, e)
<1>1. CASE Becomes(b, host[b])
    BY <1>1, NearSelf, NearAlike, HeedsSilently
<1>2. CASE Usable(host[b]) /\ e.type \in {"start-run", "execute-line"} /\ ReceiveRun(b, host[b], e)
    BY <1>2, ReceiveRunStep DEF IsStart
<1>3. CASE Usable(host[b]) /\ e.type = "interrupt" /\ e.python /\ ReceivePythonInterrupt(b, host[b], e)
    BY <1>3, ReceivePythonInterruptStep
<1>4. CASE Usable(host[b]) /\ e.type = "interrupt" /\ ~e.python /\ ReceiveInterrupt(b, host[b], e)
    BY <1>4, ReceiveInterruptStep
<1>5. CASE Usable(host[b]) /\ e.type = "eof" /\ ReceiveEof(b, host[b], e)
    BY <1>5, ReceiveEofStep
<1>6. CASE Becomes(b, [host[b] EXCEPT !.py.asking = FALSE])
    BY <1>6, AnsweredStep
<1> QED
    BY <1>1, <1>2, <1>3, <1>4, <1>5, <1>6 DEF Receive
-----------------------------------------------------------------------------
\* The invariant that HostTypeOK and NoFilesAfterReconnect rest on.
Shared == IInv /\ HostTypes /\ SocketsApart /\ LiveHere /\ RunsAskedFor

\* A browser that comes from its last state: what lives in it is of its own connection.
Local(b, g) ==
    /\ Sound(g) /\ g.shown \in used \cup {None}
    /\ \A u \in g.tasks :
          /\ \/ sock[b] # None /\ u.sock = sock[b]
             \/ \E v \in host[b].tasks : u.sock = v.sock
          /\ u.live => g.shown # None /\ (u.sock # sock[b] => g.shown # sock[b])

\* What handlers do to their browser stays in it.
LEMMA EvolvesLocal ==
    ASSUME Shared, NEW b \in Browser, NEW g, Evolves(host[b], g)
    PROVE  Local(b, g)
<1>1. Sound(g) /\ g.shown = host[b].shown
    BY DEF Evolves
<1>2. g.shown \in used \cup {None}
    BY <1>1 DEF Shared, SocketsApart
<1>3. ASSUME NEW u \in g.tasks
      PROVE  /\ \E v \in host[b].tasks : u.sock = v.sock
             /\ u.live => g.shown # None /\ (u.sock # sock[b] => g.shown # sock[b])
    <2>1. PICK v \in host[b].tasks : From(u, v)
        BY DEF Evolves
    <2> QED
        BY <1>1, <2>1 DEF From, Shared, LiveHere
<1> QED
    BY <1>1, <1>2, <1>3 DEF Local

\* So does a handler that begins.
LEMMA BeginsLocal ==
    ASSUME Shared, NEW b \in Browser, sock[b] # None, NEW e, NEW g, NEW t, Begins(b, e, g, t)
    PROVE  Local(b, g)
<1>1. Sound(g) /\ g.shown = host[b].shown /\ host[b].shown # None /\ t.sock = sock[b]
      /\ g.tasks \subseteq host[b].tasks \cup {t}
    BY DEF Begins, Usable
<1>2. g.shown \in used \cup {None}
    BY <1>1 DEF Shared, SocketsApart
<1>3. ASSUME NEW u \in g.tasks
      PROVE  /\ \/ u.sock = sock[b]
                \/ \E v \in host[b].tasks : u.sock = v.sock
             /\ u.live => g.shown # None /\ (u.sock # sock[b] => g.shown # sock[b])
    BY <1>1 DEF Shared, LiveHere
<1> QED
    BY <1>1, <1>2, <1>3 DEF Local

\* What a browser sends of itself is nothing a user asked for.
LEMMA SendKeeps ==
    ASSUME HostTypes, SocketsApart, NEW b \in Browser, NEW m, MaySend(b, m)
    PROVE  /\ up' \in [Socket -> Seq(HostAction)]
           /\ \A s \in Socket : s # sock[b] => up'[s] = up[s]
           /\ Pending' = Pending
<1>1. up \in [Socket -> Seq(HostAction)] /\ sock[b] \in Socket \cup {None}
    BY DEF HostTypes
<1>2. CASE up' = up
    BY <1>1, <1>2 DEF Pending
<1>3. CASE sock[b] # None /\ up' = [up EXCEPT ![sock[b]] = Append(@, m)]
    <2>1. sock[b] \in Socket /\ m \in HostAction /\ m.type \notin UserTypes
        BY <1>1, <1>3 DEF MaySend
    <2>2. /\ up' \in [Socket -> Seq(HostAction)]
          /\ \A s \in Socket : up'[s] = IF s = sock[b] THEN Append(up[s], m) ELSE up[s]
        BY <1>1, <1>3, <2>1
    <2>3. ASSUME NEW s \in Socket, NEW i \in Nat
          PROVE  i \in DOMAIN up'[s] /\ up'[s][i].type \in UserTypes
                    <=> i \in DOMAIN up[s] /\ up[s][i].type \in UserTypes
        <3>1. up[s] \in Seq(HostAction) /\ Len(up[s]) \in Nat
            BY <1>1
        <3>2. CASE s # sock[b]
            BY <2>2, <3>2
        <3>3. CASE s = sock[b]
            <4>1. up'[s] = Append(up[s], m)
                BY <2>2, <3>3
            <4>2. CASE i = Len(up[s]) + 1
                <5>1. Append(up[s], m)[i] = m /\ i \notin DOMAIN up[s]
                    BY <3>1, <4>2
                <5> QED
                    BY <2>1, <4>1, <5>1
            <4>3. CASE i # Len(up[s]) + 1
                <5>1. i \in DOMAIN Append(up[s], m) <=> i \in DOMAIN up[s]
                    BY <3>1, <4>3
                <5>2. i \in DOMAIN up[s] => Append(up[s], m)[i] = up[s][i]
                    BY <3>1
                <5> QED
                    BY <4>1, <5>1, <5>2
            <4> QED
                BY <4>2, <4>3
        <3> QED
            BY <3>2, <3>3
    <2>4. Pending' = Pending
        BY <2>3 DEF Pending
    <2> QED
        BY <2>2, <2>4
<1> QED
    BY <1>2, <1>3 DEF MaySend

\* A step of a browser's own keeps what the browsers share.
LEMMA LocalKeeps ==
    ASSUME Shared, NEW b \in Browser, NEW g, NEW m,
           Moves(b, g), MaySend(b, m), Local(b, g), faulty' \subseteq Faults, used' = used,
           \/ down' = down
           \/ /\ sock[b] # None /\ down[sock[b]] # <<>>
              /\ down' = [down EXCEPT ![sock[b]] = Tail(@)]
    PROVE  Shared'
<1>1. HostTypes /\ SocketsApart
    BY DEF Shared
<1>2. /\ UNCHANGED <<vars, sock, risk, acts>>
      /\ host \in [Browser -> HostState] /\ g \in HostState
      /\ host' = [host EXCEPT ![b] = g]
    BY <1>1 DEF Moves, HostTypes, Local, Sound
<1>3. host' \in [Browser -> HostState] /\ \A c \in Browser : host'[c] = IF c = b THEN g ELSE host[c]
    BY <1>2
<1>4. /\ up' \in [Socket -> Seq(HostAction)]
      /\ \A s \in Socket : s # sock[b] => up'[s] = up[s]
      /\ Pending' = Pending
    BY <1>1, SendKeeps
<1>5. /\ down' \in [Socket -> Seq(HostEffect)]
      /\ \A s \in Socket : down[s] = <<>> => down'[s] = <<>>
    <2>1. down \in [Socket -> Seq(HostEffect)] /\ sock[b] \in Socket \cup {None}
        BY <1>1 DEF HostTypes
    <2>2. CASE down' = down
        BY <2>1, <2>2
    <2>3. CASE /\ sock[b] # None /\ down[sock[b]] # <<>>
               /\ down' = [down EXCEPT ![sock[b]] = Tail(@)]
        <3>1. Tail(down[sock[b]]) \in Seq(HostEffect)
            BY <2>1, <2>3
        <3> QED
            BY <2>1, <2>3, <3>1
    <2> QED
        BY <2>2, <2>3
<1>6. IInv'
    BY <1>2, StutterOK DEF Shared
<1>7. HostTypes'
    <2>1. \A c \in Browser : Sound(host'[c])
        BY <1>1, <1>3 DEF HostTypes, Local
    <2>2. \A c \in Browser : Sound(host[c])'
        BY <2>1 DEF Sound, HostState, FitsKind, Same, Commands
    <2> QED
        BY <1>1, <1>2, <1>3, <1>4, <1>5, <2>2 DEF HostTypes
<1>8. SocketsApart'
    <2>1. open' = open /\ sock' = sock /\ used' = used
        BY <1>2 DEF vars
    <2>2. sock[b] \in open \cup {None}
        BY <1>1 DEF SocketsApart
    <2>3. \A s \in Socket \ open : up'[s] = <<>> /\ down'[s] = <<>>
        <3> SUFFICES ASSUME NEW s \in Socket \ open PROVE up'[s] = <<>> /\ down'[s] = <<>>
            OBVIOUS
        <3>1. up[s] = <<>> /\ down[s] = <<>>
            BY <1>1 DEF SocketsApart
        <3>2. s # sock[b]
            BY <2>2, TerminalAssumption
        <3> QED
            BY <1>4, <1>5, <3>1, <3>2
    <2>4. \A u \in g.tasks : u.sock \in used
        BY <1>1, <2>2 DEF Local, SocketsApart
    <2>5. \A c \in Browser :
             /\ host'[c].shown \in used \cup {None}
             /\ \A t \in host'[c].tasks : t.sock \in used
        BY <1>1, <1>3, <2>4 DEF Local, SocketsApart
    <2>6. ASSUME NEW c \in Browser, c # b
          PROVE  /\ \A t \in g.tasks : (sock[c] # None => t.sock # sock[c])
                 /\ \A t \in g.tasks, u \in host[c].tasks : t.sock # u.sock
        BY <1>1, <2>6 DEF Local, SocketsApart
    <2>7. \A c, d \in Browser : c # d =>
             /\ sock[c] # None => sock[c] # sock[d] /\ \A t \in host'[d].tasks : t.sock # sock[c]
             /\ \A t \in host'[c].tasks, u \in host'[d].tasks : t.sock # u.sock
        BY <1>1, <1>3, <2>6 DEF SocketsApart
    <2> QED
        BY <1>1, <2>1, <2>3, <2>5, <2>7 DEF SocketsApart
<1>9. LiveHere'
    <2>1. sock' = sock
        BY <1>2
    <2>2. ASSUME NEW c \in Browser, NEW t \in host'[c].tasks, t.live
          PROVE  host'[c].shown # None /\ (t.sock # sock[c] => host'[c].shown # sock[c])
        BY <1>3, <2>2 DEF Local, Shared, LiveHere
    <2> QED
        BY <2>1, <2>2 DEF LiveHere
<1>10. RunsAskedFor'
    BY <1>2, <1>4 DEF RunsAskedFor, Shared, vars
<1> QED
    BY <1>6, <1>7, <1>8, <1>9, <1>10 DEF Shared

\* Rendering a browser leaves its handlers alone or invalidates all of them.
Rendered(b, g) ==
    \/ /\ g.exec = host[b].exec /\ g.tasks = host[b].tasks
       /\ QuietRepl(host[b]) => QuietRepl(g)
    \/ /\ g.exec = None /\ QuietRepl(g)
       /\ \A u \in g.tasks :
             ~u.live /\ \E v \in host[b].tasks :
                           Same(u, v) /\ u.sock = v.sock /\ u.awaits = v.awaits

\* A rendered connection invalidates the handlers of another one.
LEMMA RendersStep ==
    ASSUME Shared, NEW b \in Browser, Renders(b)
    PROVE  \E g : Moves(b, g) /\ Local(b, g) /\ Rendered(b, g)
<1> DEFINE h    == host[b]
           next == [h EXCEPT !.shown = sock[b], !.readOnly = risk[b]]
           kill == h.shown # sock[b] \/ (Usable(h) /\ ~Usable(next))
           dead == [Closed(next) EXCEPT !.exec = None, !.intr = None,
                       !.tasks = {[t EXCEPT !.live = FALSE] : t \in @}]
<1>1. /\ Sound(h) /\ h \in HostState /\ risk[b] \in BOOLEAN
      /\ sock[b] \in Socket \cup {None} /\ sock[b] \in used \cup {None}
    BY DEF Shared, HostTypes, SocketsApart, Sound
<1>2. /\ next \in HostState /\ next.shown = sock[b] /\ next.tasks = h.tasks /\ next.py = h.py
      /\ next.exec = h.exec
    BY <1>1 DEF HostState
<1>3. Moves(b, IF kill THEN dead ELSE next)
    BY DEF Renders, Moves
<1> HIDE DEF next
<1>4. Commands(next) = Commands(h)
    BY <1>2 DEF Commands
<1>5. Sound(next) /\ (QuietRepl(h) => QuietRepl(next))
    BY <1>1, <1>2, <1>4 DEF Sound, QuietRepl
<1>6. CASE ~kill
    <2>1. Local(b, next)
        BY <1>1, <1>2, <1>5, <1>6 DEF Local, Shared, LiveHere
    <2>2. Rendered(b, next)
        BY <1>2, <1>5 DEF Rendered
    <2> QED
        BY <1>3, <1>6, <2>1, <2>2
<1>7. CASE kill
    <2> DEFINE c == Closed(next)
               off(t) == [t EXCEPT !.live = FALSE]
               tasks == {off(t) : t \in c.tasks}
               g == dead
    <2>1. Near(next, c) /\ QuietRepl(c) /\ Commands(c) = {}
        BY <1>5, PartedNear DEF Closed
    <2> HIDE DEF c
    <2>2. Sound(c) /\ c \in HostState /\ c.shown = sock[b]
        BY <1>2, <2>1 DEF Near, Sound
    <2>3. \A t \in c.tasks : t \in Task /\ FitsKind(t)
        BY <2>2 DEF Sound, HostState
    <2>4. \A t \in c.tasks : /\ off(t) \in Task /\ ~off(t).live /\ Same(off(t), t)
                             /\ off(t).sock = t.sock /\ off(t).awaits = t.awaits
                             /\ off(t).runtime = t.runtime
        BY <2>3 DEF Task, Same
    <2> HIDE DEF off
    <2>5. tasks \in SUBSET Task
        BY <2>4
    <2>6. g = [c EXCEPT !.exec = None, !.intr = None, !.tasks = tasks]
        BY <2>2 DEF c, off, HostState
    <2> HIDE DEF tasks, dead
    <2>7. /\ g \in HostState /\ g.tasks = tasks /\ g.exec = None /\ g.shown = c.shown
          /\ g.py = c.py
        BY <2>2, <2>5, <2>6 DEF HostState
    <2>8. \A u \in g.tasks : \E t \in c.tasks :
             /\ u = off(t) /\ ~u.live /\ Same(u, t) /\ u.sock = t.sock /\ u.awaits = t.awaits
             /\ u.runtime = t.runtime
        BY <2>4, <2>7 DEF tasks
    <2>9. Commands(g) = {}
        BY <2>1, <2>8 DEF Commands
    <2>10. \A u \in g.tasks : FitsKind(u)
        BY <2>3, <2>8 DEF FitsKind, Same
    <2>11. \A u, w \in g.tasks : Same(u, w) => u = w
        <3> SUFFICES ASSUME NEW u \in g.tasks, NEW w \in g.tasks, Same(u, w) PROVE u = w
            OBVIOUS
        <3>1. PICK t \in c.tasks : u = off(t) /\ Same(u, t)
            BY <2>8
        <3>2. PICK x \in c.tasks : w = off(x) /\ Same(w, x)
            BY <2>8
        <3>3. Same(t, x)
            BY <3>1, <3>2 DEF Same
        <3>4. t = x
            BY <2>2, <3>3 DEF Sound
        <3> QED
            BY <3>1, <3>2, <3>4
    <2>12. Sound(g)
        BY <2>7, <2>9, <2>10, <2>11 DEF Sound
    <2>13. QuietRepl(g)
        BY <2>1, <2>7, <2>9 DEF QuietRepl
    <2>14. \A u \in g.tasks :
              ~u.live /\ \E v \in h.tasks : Same(u, v) /\ u.sock = v.sock /\ u.awaits = v.awaits
        <3> SUFFICES ASSUME NEW u \in g.tasks
                     PROVE  ~u.live /\ \E v \in h.tasks :
                               Same(u, v) /\ u.sock = v.sock /\ u.awaits = v.awaits
            OBVIOUS
        <3>1. PICK t \in c.tasks : /\ ~u.live /\ Same(u, t) /\ u.sock = t.sock
                                   /\ u.awaits = t.awaits
            BY <2>8
        <3>2. PICK v \in h.tasks : From(t, v) /\ t.awaits = v.awaits
            BY <1>2, <2>1 DEF Near
        <3> QED
            BY <3>1, <3>2 DEF From, Same
    <2>15. Local(b, g)
        BY <1>1, <2>2, <2>7, <2>12, <2>14 DEF Local
    <2>16. Rendered(b, g)
        BY <2>7, <2>13, <2>14 DEF Rendered
    <2> QED
        BY <1>3, <1>7, <2>15, <2>16
<1> QED
    BY <1>6, <1>7

\* The steps of a browser's own.
LEMMA BrowserKeeps ==
    ASSUME Shared, NEW b \in Browser, used' = used,
           \/ Goes(b) \/ Returns(b) \/ Asks(b) \/ TimesOut(b) \/ Dies(b)
           \/ Receive(b) \/ Renders(b)
    PROVE  Shared'
<1>1. Sound(host[b]) /\ faulty \subseteq Faults
    BY DEF Shared, HostTypes
<1>2. CASE Goes(b) \/ Returns(b) \/ Asks(b) \/ TimesOut(b) \/ Dies(b)
    <2>1. PICK g, m : /\ Moves(b, g) /\ Evolves(host[b], g) /\ MaySend(b, m)
                      /\ faulty' \subseteq Faults
        BY <1>1, <1>2, HandlerStep DEF GoesOn, EndsHandler
    <2>2. down' = down
        BY <1>2 DEF Goes, Returns, Asks, TimesOut, Dies
    <2> QED
        BY <2>1, <2>2, EvolvesLocal, LocalKeeps
<1>3. CASE Receive(b)
    <2> DEFINE e == Head(down[sock[b]])
    <2>1. /\ sock[b] \in Socket /\ sock[b] # None /\ down[sock[b]] # <<>> /\ e \in HostEffect
          /\ down' = [down EXCEPT ![sock[b]] = Tail(@)]
        BY <1>3 DEF Shared, HostTypes, Receive
    <2>2. Receives(b, e)
        BY <1>1, <1>3, <2>1, ReceiveStep
    <2> HIDE DEF e
    <2>3. PICK g, m :
             /\ Moves(b, g) /\ MaySend(b, m) /\ faulty' \subseteq Faults
             /\ (\E t : Begins(b, e, g, t)) \/ Evolves(host[b], g)
        BY <2>2 DEF Receives
    <2>4. Local(b, g)
        BY <2>1, <2>3, EvolvesLocal, BeginsLocal
    <2> QED
        BY <2>1, <2>3, <2>4, LocalKeeps
<1>4. CASE Renders(b)
    <2>1. PICK g : Moves(b, g) /\ Local(b, g)
        BY <1>4, RendersStep
    <2>2. up' = up /\ down' = down /\ faulty' = faulty
        BY <1>4 DEF Renders
    <2> DEFINE m == [type |-> "invalid"]
    <2>3. MaySend(b, m)
        BY <2>2, SilentMessage
    <2> HIDE DEF m
    <2> QED
        BY <1>1, <2>1, <2>2, <2>3, LocalKeeps
<1> QED
    BY <1>2, <1>3, <1>4
-----------------------------------------------------------------------------
\* The steps of users, of the server and of connections.
LEMMA HostInitShared == HostInit => Shared
<1> SUFFICES ASSUME HostInit PROVE Shared
    OBVIOUS
<1>1. IInv
    BY InitOK DEF HostInit
<1>2. Idle \in HostState /\ Idle.tasks = {} /\ Idle.shown = None
    BY DEF Idle, HostState, NoRuntime, Runtime
<1>3. Sound(Idle)
    BY <1>2 DEF Sound, Commands
<1>4. HostTypes
    BY <1>2, <1>3, HostAssumption DEF HostInit, HostTypes
<1>5. SocketsApart /\ LiveHere
    BY <1>2 DEF HostInit, Init, SocketsApart, LiveHere
<1>6. Pending = {}
    BY DEF HostInit, Pending
<1>7. RunsAskedFor
    BY <1>6, FS_EmptySet DEF RunsAskedFor, HostInit, Init, Machine
<1> QED
    BY <1>1, <1>4, <1>5, <1>7 DEF Shared

\* What only concerns rights and faults breaks nothing.
LEMMA SharedParts ==
    ASSUME Shared, UNCHANGED <<vars, sock, host, up, down, used, acts>>,
           risk' \in [Browser -> BOOLEAN], faulty' \subseteq Faults
    PROVE  Shared'
<1>1. IInv'
    BY StutterOK DEF Shared
<1>2. HostTypes'
    BY DEF Shared, HostTypes, Sound, HostState, FitsKind, Same, Commands
<1>3. SocketsApart' /\ LiveHere'
    BY DEF Shared, SocketsApart, LiveHere, vars
<1>4. RunsAskedFor'
    BY DEF Shared, RunsAskedFor, Pending, vars
<1> QED
    BY <1>1, <1>2, <1>3, <1>4 DEF Shared

\* A user's action may start one run.
LEMMA ActsKeeps ==
    ASSUME Shared, NEW b \in Browser, Acts(b), used' = used
    PROVE  Shared'
<1> DEFINE s == sock[b]
           p == <<s, Len(up[s]) + 1>>
<1>1. HostTypes /\ SocketsApart /\ s \in Socket /\ s \in open
    BY DEF Shared, HostTypes, SocketsApart, Acts
<1>2. PICK a : a \in UserActions /\ up' = [up EXCEPT ![s] = Append(@, a)]
    BY DEF Acts
<1>3. a \in HostAction /\ a.type \in UserTypes
    BY <1>2 DEF UserActions, HostAction, UserTypes, Line
<1>4. /\ up \in [Socket -> Seq(HostAction)]
      /\ up' \in [Socket -> Seq(HostAction)]
      /\ \A z \in Socket : up'[z] = IF z = s THEN Append(up[z], a) ELSE up[z]
    BY <1>1, <1>2, <1>3 DEF HostTypes
<1>5. /\ UNCHANGED <<vars, sock, risk, host, down, faulty>>
      /\ acts \in Nat /\ acts < MaxActs /\ acts' = acts + 1
    BY <1>1 DEF Acts, HostTypes
<1>6. acts' \in Nat /\ acts' <= MaxActs
    BY <1>5, HostAssumption
<1>7. IInv'
    BY <1>5, StutterOK DEF Shared
<1>8. HostTypes'
    BY <1>1, <1>4, <1>5, <1>6 DEF HostTypes, Sound, HostState, FitsKind, Same, Commands
<1>9. SocketsApart' /\ LiveHere'
    BY <1>1, <1>4, <1>5 DEF Shared, SocketsApart, LiveHere, vars
<1>10. Pending' = Pending \cup {p}
    <2>1. ASSUME NEW z \in Socket, NEW i \in Nat
          PROVE  i \in DOMAIN up'[z] /\ up'[z][i].type \in UserTypes
                    <=> \/ i \in DOMAIN up[z] /\ up[z][i].type \in UserTypes
                        \/ <<z, i>> = p
        <3>1. up[z] \in Seq(HostAction) /\ Len(up[z]) \in Nat
            BY <1>4
        <3>2. CASE z # s
            BY <1>4, <3>2
        <3>3. CASE z = s
            <4>1. up'[z] = Append(up[z], a)
                BY <1>4, <3>3
            <4>2. CASE i = Len(up[z]) + 1
                <5>1. Append(up[z], a)[i] = a /\ i \in DOMAIN Append(up[z], a)
                    BY <3>1, <4>2
                <5> QED
                    BY <1>3, <3>3, <4>1, <4>2, <5>1
            <4>3. CASE i # Len(up[z]) + 1
                <5>1. i \in DOMAIN Append(up[z], a) <=> i \in DOMAIN up[z]
                    BY <3>1, <4>3
                <5>2. i \in DOMAIN up[z] => Append(up[z], a)[i] = up[z][i]
                    BY <3>1
                <5> QED
                    BY <3>3, <4>1, <4>3, <5>1, <5>2
            <4> QED
                BY <4>2, <4>3
        <3> QED
            BY <3>2, <3>3
    <2>2. p \in Socket \X Nat
        BY <1>1, <1>4
    <2> QED
        BY <2>1, <2>2 DEF Pending
<1>11. RunsAskedFor'
    <2> HIDE DEF p
    <2>1. IsFiniteSet(Pending) /\ Cardinality(Pending) + term.nextRun <= acts + 1
        BY DEF Shared, RunsAskedFor
    <2> DEFINE more == Pending \cup {p}
    <2>2. /\ IsFiniteSet(more)
          /\ Cardinality(more) = IF p \in Pending THEN Cardinality(Pending)
                                  ELSE Cardinality(Pending) + 1
        BY <2>1, FS_AddElement
    <2>3. Cardinality(Pending) \in Nat
        BY <2>1, FS_CardinalityType
    <2>4. IsFiniteSet(Pending') /\ Cardinality(Pending') <= Cardinality(Pending) + 1
          /\ Cardinality(Pending') \in Nat
        <3>1. Pending' = more
            BY <1>10
        <3> HIDE DEF more
        <3> QED
            BY <2>2, <2>3, <3>1
    <2>5. term' = term /\ term.nextRun \in Nat
        BY <1>5 DEF vars, Shared, IInv, TypeOK, MachineState
    <2> QED
        BY <1>5, <2>1, <2>3, <2>4, <2>5 DEF RunsAskedFor
<1> QED
    BY <1>7, <1>8, <1>9, <1>11 DEF Shared

\* What the server hands to a host.
Handed(effect) == [type |-> effect.type, run |-> effect.run, python |-> term'.pythonRun,
                   test |-> term'.runTest]

\* What the server's handler of the next action of socket s does.
LEMMA HandlesStep ==
    ASSUME Shared, NEW s \in Socket, Handles(s)
    PROVE  LET a == Head(up[s])
           IN  /\ a \in HostAction /\ up[s] # <<>> /\ s \in open
               /\ GoodStep /\ RunStep(s, a)
               /\ a.type \in UserTypes => term.nextRun <= MaxRun
<1> DEFINE a == Head(up[s])
<1>1. up[s] \in Seq(HostAction) /\ up[s] # <<>> /\ s \in open /\ UNCHANGED open
    BY DEF Shared, HostTypes, Handles
<1>2. a \in HostAction /\ 1 \in DOMAIN up[s] /\ up[s][1] = a
    BY <1>1
<1>3. IInv
    BY DEF Shared
<1>4. ASSUME a.type \in UserTypes
      PROVE  term.nextRun <= MaxRun
    <2>1. <<s, 1>> \in Pending
        BY <1>2, <1>4 DEF Pending
    <2>2. IsFiniteSet(Pending) /\ Cardinality(Pending) + term.nextRun <= acts + 1
        BY DEF Shared, RunsAskedFor
    <2>3. Cardinality(Pending) \in Nat /\ Cardinality(Pending) # 0
        <3>1. Cardinality(Pending) \in Nat
            BY <2>2, FS_CardinalityType
        <3>2. Cardinality(Pending) = 0 <=> Pending = {}
            BY <2>2, FS_EmptySet
        <3> QED
            BY <2>1, <3>1, <3>2
    <2>4. term.nextRun \in Nat /\ acts \in Nat /\ acts <= MaxActs
        BY DEF Shared, HostTypes, IInv, TypeOK, MachineState
    <2> QED
        BY <2>2, <2>3, <2>4, HostAssumption, TerminalAssumption
<1>5. \/ a.type = "invalid" /\ Refused
      \/ a.type # "invalid" /\ Apply(s, a)
    BY DEF Handles
<1>6. CASE a.type = "invalid" /\ Refused
    <2> HIDE DEF a
    <2>1. RunStep(s, a)
        BY <1>6, RefusedKeepsRun
    <2>2. GoodStep
        BY <1>1, <1>3, <1>6, RefusedStep
    <2> QED
        BY <1>1, <1>2, <1>4, <2>1, <2>2 DEF a
<1>7. CASE a.type # "invalid" /\ Apply(s, a)
    <2> HIDE DEF a
    <2>1. HasFields(a)
        BY <1>2, <1>7 DEF HostAction, HasFields
    <2>2. RunStep(s, a)
        BY <1>1, <1>3, <1>4, <1>7, <2>1, ApplyRun
    <2>3. GoodStep
        BY <1>1, <1>3, <1>4, <1>7, <2>1, ApplyStep
    <2> QED
        BY <1>1, <1>2, <1>4, <2>2, <2>3 DEF a
<1> QED
    BY <1>5, <1>6, <1>7

\* An action that is handled is no longer pending.
LEMMA TailPending ==
    ASSUME HostTypes, NEW s \in Socket, up[s] # <<>>, up' = [up EXCEPT ![s] = Tail(@)],
           IsFiniteSet(Pending)
    PROVE  /\ IsFiniteSet(Pending')
           /\ Cardinality(Pending') <= Cardinality(Pending)
           /\ Head(up[s]).type \in UserTypes => Cardinality(Pending') <= Cardinality(Pending) - 1
           /\ Cardinality(Pending') \in Nat /\ Cardinality(Pending) \in Nat
<1> DEFINE p    == <<s, 1>>
           rest == Pending \ {p}
           f    == [q \in Pending' |-> IF q[1] = s THEN <<s, q[2] + 1>> ELSE q]
<1>1. up \in [Socket -> Seq(HostAction)]
    BY DEF HostTypes
<1>2. /\ up[s] \in Seq(HostAction) /\ Len(up[s]) \in Nat \ {0}
      /\ \A z \in Socket : up'[z] = IF z = s THEN Tail(up[z]) ELSE up[z]
    BY <1>1
<1>3. \A i \in Nat : i \in DOMAIN Tail(up[s]) =>
         i + 1 \in DOMAIN up[s] /\ Tail(up[s])[i] = up[s][i + 1] /\ i # 0
    BY <1>2
<1>4. ASSUME NEW q \in Pending'
      PROVE  f[q] \in rest
    <2>1. PICK z \in Socket, i \in Nat : q = <<z, i>>
        BY DEF Pending
    <2>2. i \in DOMAIN up'[z] /\ up'[z][i].type \in UserTypes
        BY <1>4, <2>1 DEF Pending
    <2>3. CASE z = s
        <3>1. i + 1 \in DOMAIN up[s] /\ up[s][i + 1].type \in UserTypes /\ i # 0
            BY <1>2, <1>3, <2>2, <2>3
        <3>2. f[q] = <<s, i + 1>>
            BY <2>1, <2>3
        <3>3. <<s, i + 1>> \in Pending /\ <<s, i + 1>> # p
            BY <3>1 DEF Pending
        <3> QED
            BY <3>2, <3>3
    <2>4. CASE z # s
        <3>1. <<z, i>> \in Pending /\ <<z, i>> # p
            BY <1>2, <2>2, <2>4 DEF Pending
        <3>2. f[q] = <<z, i>>
            BY <2>1, <2>4
        <3> QED
            BY <3>1, <3>2
    <2> QED
        BY <2>3, <2>4
<1>5. \A q, r \in Pending' : f[q] = f[r] => q = r
    <2> SUFFICES ASSUME NEW q \in Pending', NEW r \in Pending', f[q] = f[r] PROVE q = r
        OBVIOUS
    <2>1. PICK z \in Socket, i \in Nat : q = <<z, i>>
        BY DEF Pending
    <2>2. PICK y \in Socket, j \in Nat : r = <<y, j>>
        BY DEF Pending
    <2>3. f[q] = IF z = s THEN <<s, i + 1>> ELSE <<z, i>>
        BY <2>1
    <2>4. f[r] = IF y = s THEN <<s, j + 1>> ELSE <<y, j>>
        BY <2>2
    <2> HIDE DEF f
    <2>5. f[q][1] = z /\ f[q][2] = IF z = s THEN i + 1 ELSE i
        BY <2>3
    <2>6. f[r][1] = y /\ f[r][2] = IF y = s THEN j + 1 ELSE j
        BY <2>4
    <2>7. z = y
        BY <2>5, <2>6
    <2>8. i = j
        BY <2>5, <2>6, <2>7
    <2> QED
        BY <2>1, <2>2, <2>7, <2>8
<1>6. f \in [Pending' -> rest]
    BY <1>4
<1>7. f \in Injection(Pending', rest)
    <2> HIDE DEF f
    <2> QED
        BY <1>5, <1>6 DEF Injection, IsInjective
<1> HIDE DEF f
<1>8. /\ IsFiniteSet(rest)
      /\ Cardinality(rest) = IF p \in Pending THEN Cardinality(Pending) - 1
                             ELSE Cardinality(Pending)
    BY FS_RemoveElement
<1>9. Cardinality(Pending) \in Nat
    BY FS_CardinalityType
<1> HIDE DEF rest
<1>10. IsFiniteSet(Pending') /\ Cardinality(Pending') <= Cardinality(rest)
    BY <1>7, <1>8, FS_Injection
<1>11. Cardinality(Pending') \in Nat
    BY <1>10, FS_CardinalityType
<1>12. Head(up[s]).type \in UserTypes => p \in Pending
    <2>1. 1 \in DOMAIN up[s] /\ up[s][1] = Head(up[s])
        BY <1>2
    <2> QED
        BY <2>1 DEF Pending
<1> QED
    BY <1>8, <1>9, <1>10, <1>11, <1>12

\* The server keeps what the browsers share.
LEMMA HandlesKeeps ==
    ASSUME Shared, NEW s \in Socket, Handles(s), used' = used
    PROVE  Shared'
<1> DEFINE a == Head(up[s])
           e == result'.effect
<1>1. /\ a \in HostAction /\ up[s] # <<>> /\ s \in open
      /\ GoodStep /\ RunStep(s, a)
      /\ a.type \in UserTypes => term.nextRun <= MaxRun
    BY HandlesStep
<1>2. /\ up' = [up EXCEPT ![s] = Tail(@)]
      /\ down' = IF e = None THEN down ELSE [down EXCEPT ![e.target] = Append(@, Handed(e))]
      /\ UNCHANGED <<open, remembered, sock, risk, host, acts, faulty>>
    BY DEF Handles, Handed
<1>3. IInv'
    BY <1>1, <1>2, GoodStepKeeps DEF Shared, IInv, TypeOK, StepOK
<1>4. e # None => e.target \in open /\ e.target \in Socket /\ Handed(e) \in HostEffect
    <2> SUFFICES ASSUME e # None PROVE e.target \in open /\ e.target \in Socket /\ Handed(e) \in HostEffect
        OBVIOUS
    <2>1. e \in Effect /\ term' \in MachineState
        BY <1>3 DEF IInv, TypeOK, Emission
    <2>2. e.target \in open
        BY <1>2, <1>3 DEF IInv, LeasesConnected
    <2> HIDE DEF e
    <2> QED
        BY <2>1, <2>2 DEF Effect, MachineState, Handed, HostEffect
<1> HIDE DEF e
<1>5. HostTypes /\ SocketsApart
    BY DEF Shared
<1>6. /\ up' \in [Socket -> Seq(HostAction)]
      /\ \A z \in Socket : up[z] = <<>> => up'[z] = <<>>
    BY <1>1, <1>2, <1>5 DEF HostTypes
<1>7. /\ down' \in [Socket -> Seq(HostEffect)]
      /\ \A z \in Socket \ open : down'[z] = down[z]
    <2>1. down \in [Socket -> Seq(HostEffect)]
        BY <1>5 DEF HostTypes
    <2>2. CASE e = None
        BY <1>2, <2>1, <2>2
    <2>3. CASE e # None
        <3>1. down' = [down EXCEPT ![e.target] = Append(@, Handed(e))]
            BY <1>2, <2>3
        <3> QED
            BY <1>4, <2>1, <2>3, <3>1
    <2> QED
        BY <2>2, <2>3
<1>8. HostTypes'
    BY <1>2, <1>5, <1>6, <1>7 DEF HostTypes, Sound, HostState, FitsKind, Same, Commands
<1>9. SocketsApart' /\ LiveHere'
    <2>1. \A z \in Socket \ open : up'[z] = <<>> /\ down'[z] = <<>>
        BY <1>5, <1>6, <1>7 DEF SocketsApart
    <2>2. open' = open /\ sock' = sock /\ host' = host /\ used' = used
        BY <1>2
    <2>3. SocketsApart'
        BY <1>5, <2>1, <2>2 DEF SocketsApart
    <2> QED
        BY <2>2, <2>3 DEF Shared, LiveHere
<1>10. RunsAskedFor'
    <2>1. IsFiniteSet(Pending) /\ Cardinality(Pending) + term.nextRun <= acts + 1
        BY DEF Shared, RunsAskedFor
    <2>2. /\ IsFiniteSet(Pending')
          /\ Cardinality(Pending') <= Cardinality(Pending)
          /\ a.type \in UserTypes => Cardinality(Pending') <= Cardinality(Pending) - 1
          /\ Cardinality(Pending') \in Nat /\ Cardinality(Pending) \in Nat
        BY <1>1, <1>2, <1>5, <2>1, TailPending
    <2>3. \/ term'.nextRun = term.nextRun
          \/ a.type \in UserTypes /\ term'.nextRun = term.nextRun + 1
        BY <1>1 DEF RunStep, KeepsRun, EndsRun, StartsRun
    <2>4. term.nextRun \in Nat /\ acts \in Nat /\ acts' = acts
        BY <1>2, <1>5 DEF HostTypes, Shared, IInv, TypeOK, MachineState
    <2> QED
        BY <2>1, <2>2, <2>3, <2>4 DEF RunsAskedFor
<1> QED
    BY <1>3, <1>8, <1>9, <1>10 DEF Shared

\* A socket that connects has not been used.
LEMMA ConnectsKeeps ==
    ASSUME Shared, NEW b \in Browser, Connects(b)
    PROVE  Shared'
<1> DEFINE s == CHOOSE z \in Socket \ used : TRUE
<1>1. HostTypes /\ SocketsApart /\ LiveHere
    BY DEF Shared
<1>2. s \in Socket \ used
    BY <1>1 DEF Connects, HostTypes
<1>3. /\ Connect(s) /\ sock[b] = None /\ sock' = [sock EXCEPT ![b] = s] /\ used' = used \cup {s}
      /\ UNCHANGED <<risk, host, up, down, acts, faulty>>
    BY DEF Connects
<1> HIDE DEF s
<1>4. StepOK /\ open' = open \cup {s} /\ term' = term
    BY <1>2, <1>3, ConnectOK DEF Shared, Connect
<1>5. IInv'
    BY <1>4 DEF StepOK
<1>6. \A c \in Browser : sock'[c] = IF c = b THEN s ELSE sock[c]
    BY <1>1, <1>3 DEF HostTypes
<1>7. HostTypes'
    BY <1>1, <1>2, <1>3 DEF HostTypes, Sound, HostState, FitsKind, Same, Commands
<1>8. SocketsApart'
    <2>1. \A c \in Browser :
             /\ sock'[c] \in open' \cup {None}
             /\ host[c].shown \in used' \cup {None}
             /\ \A t \in host[c].tasks : t.sock \in used' /\ t.sock # s
        BY <1>1, <1>2, <1>3, <1>4, <1>6 DEF SocketsApart
    <2>2. \A c, d \in Browser : c # d =>
             /\ sock'[c] # None => sock'[c] # sock'[d] /\ \A t \in host[d].tasks : t.sock # sock'[c]
             /\ \A t \in host[c].tasks, u \in host[d].tasks : t.sock # u.sock
        <3> SUFFICES ASSUME NEW c \in Browser, NEW d \in Browser, c # d, sock'[c] # None
                     PROVE  sock'[c] # sock'[d] /\ \A t \in host[d].tasks : t.sock # sock'[c]
            BY <1>1 DEF SocketsApart
        <3>1. s # None /\ sock[c] # s /\ sock[d] # s
            BY <1>1, <1>2, TerminalAssumption DEF SocketsApart
        <3> QED
            BY <1>1, <1>6, <2>1, <3>1 DEF SocketsApart
    <2>3. open' \subseteq used'
        BY <1>1, <1>3, <1>4 DEF SocketsApart
    <2>4. \A z \in Socket \ open' : up'[z] = <<>> /\ down'[z] = <<>>
        BY <1>1, <1>3, <1>4 DEF SocketsApart
    <2>5. host' = host
        BY <1>3
    <2> QED
        BY <2>1, <2>2, <2>3, <2>4, <2>5 DEF SocketsApart
<1>9. LiveHere'
    <2>1. host' = host
        BY <1>3
    <2>2. \A c \in Browser : \A t \in host[c].tasks : t.live =>
             host[c].shown # None /\ (t.sock # sock'[c] => host[c].shown # sock'[c])
        <3> SUFFICES ASSUME NEW c \in Browser, NEW t \in host[c].tasks, t.live
                     PROVE  host[c].shown # None /\ (t.sock # sock'[c] => host[c].shown # sock'[c])
            OBVIOUS
        <3>1. host[c].shown # None /\ (t.sock # sock[c] => host[c].shown # sock[c])
            BY <1>1 DEF LiveHere
        <3>2. host[c].shown # s
            BY <1>1, <1>2, <3>1 DEF SocketsApart
        <3> QED
            BY <1>6, <3>1, <3>2
    <2> QED
        BY <2>1, <2>2 DEF LiveHere
<1>10. RunsAskedFor'
    BY <1>3, <1>4 DEF Shared, RunsAskedFor, Pending
<1> QED
    BY <1>5, <1>7, <1>8, <1>9, <1>10 DEF Shared

\* A browser that notices its connection is gone.
LEMMA LosesKeeps ==
    ASSUME Shared, NEW b \in Browser, Loses(b)
    PROVE  Shared'
<1>1. HostTypes /\ SocketsApart /\ LiveHere
    BY DEF Shared
<1>2. /\ sock' = [sock EXCEPT ![b] = None]
      /\ UNCHANGED <<vars, risk, host, up, down, acts, faulty, used>>
    BY DEF Loses
<1>3. \A c \in Browser : sock'[c] = IF c = b THEN None ELSE sock[c]
    BY <1>1, <1>2 DEF HostTypes
<1>4. IInv'
    BY <1>2, StutterOK DEF Shared
<1>5. HostTypes'
    BY <1>1, <1>2 DEF HostTypes, Sound, HostState, FitsKind, Same, Commands
<1>6. SocketsApart'
    <2>1. \A c, d \in Browser : c # d =>
             /\ sock'[c] # None => sock'[c] # sock'[d] /\ \A t \in host[d].tasks : t.sock # sock'[c]
             /\ \A t \in host[c].tasks, u \in host[d].tasks : t.sock # u.sock
        BY <1>1, <1>3 DEF SocketsApart
    <2>2. \A c \in Browser : sock'[c] \in open \cup {None}
        BY <1>1, <1>3 DEF SocketsApart
    <2>3. UNCHANGED <<open, host, up, down, used>>
        BY <1>2 DEF vars
    <2> QED
        BY <1>1, <2>1, <2>2, <2>3 DEF SocketsApart
<1>7. LiveHere'
    <2>1. host' = host
        BY <1>2
    <2>2. \A c \in Browser : \A t \in host[c].tasks : t.live =>
             host[c].shown # None /\ (t.sock # sock'[c] => host[c].shown # sock'[c])
        BY <1>1, <1>3 DEF LiveHere
    <2> QED
        BY <2>1, <2>2 DEF LiveHere
<1>8. RunsAskedFor'
    BY <1>2 DEF Shared, RunsAskedFor, Pending, vars
<1> QED
    BY <1>4, <1>5, <1>6, <1>7, <1>8 DEF Shared

\* The machine of a socket that is gone: its run ends with its host, and the last one
\* to leave takes the machine along.
LEMMA DisconnectFields ==
    ASSUME IInv, NEW s \in Socket, Disconnect(s)
    PROVE  \/ /\ term'.epoch = term.epoch /\ term'.nextRun = term.nextRun
              /\ term'.run \in {None, term.run}
              /\ term'.run # None =>
                    /\ term'.host = term.host /\ term'.pythonRun = term.pythonRun
                    /\ term'.host # s
              /\ term.host # s => term'.run = term.run
           \/ /\ term'.epoch = term.epoch + 1 /\ term'.nextRun = 1 /\ term'.run = None
              /\ open' = {}
<1> DEFINE unowned == IF term.owner = s THEN [term EXCEPT !.owner = None] ELSE term
           d       == Departed(term, s)
<1>1. /\ unowned \in MachineState
      /\ \A f \in DOMAIN term \ {"owner"} : unowned[f] = term[f]
    BY DEF IInv, TypeOK, MachineState
<1>2. d = IF term.host = s THEN ToShell(unowned) ELSE unowned
    BY DEF Departed
<1> HIDE DEF unowned
<1>3. /\ d \in MachineState
      /\ d.epoch = term.epoch /\ d.nextRun = term.nextRun
      /\ term.host # s => d.run = term.run /\ d.host = term.host /\ d.pythonRun = term.pythonRun
      /\ term.host = s => d.run = None
    <2>1. CASE term.host = s
        <3>1. d = ToShell(unowned)
            BY <1>2, <2>1
        <3> HIDE DEF d
        <3>2. /\ d \in MachineState
              /\ \A f \in {"epoch", "nextRun", "generation", "seq"} : d[f] = unowned[f]
              /\ d.run = None
            BY <1>1, <3>1, ToShellType
        <3> QED
            BY <1>1, <2>1, <3>2 DEF IInv, TypeOK, MachineState
    <2>2. CASE term.host # s
        <3>1. d = unowned
            BY <1>2, <2>2
        <3> HIDE DEF d
        <3> QED
            BY <1>1, <2>2, <3>1 DEF IInv, TypeOK, MachineState
    <2> QED
        BY <2>1, <2>2
<1>4. CASE open' = {}
    <2>1. term' = Machine(term.epoch + 1)
        BY <1>4 DEF Disconnect
    <2> QED
        BY <1>4, <2>1 DEF Machine
<1>5. CASE open' # {} /\ (term' = d \/ term' = [d EXCEPT !.seq = @ + 1])
    <2> HIDE DEF d
    <2>1. /\ term'.epoch = d.epoch /\ term'.nextRun = d.nextRun /\ term'.run = d.run
          /\ term'.host = d.host /\ term'.pythonRun = d.pythonRun
        BY <1>3, <1>5 DEF MachineState
    <2> QED
        BY <1>3, <2>1
<1> QED
    BY <1>4, <1>5 DEF Disconnect

\* A socket that the server drops takes its queues along.
LEMMA DropsKeeps ==
    ASSUME Shared, NEW s \in Socket, Drops(s)
    PROVE  Shared'
<1>1. HostTypes /\ SocketsApart /\ LiveHere /\ IInv
    BY DEF Shared
<1>2. /\ s \in open /\ \A b \in Browser : sock[b] # s
      /\ Disconnect(s)
      /\ up' = [up EXCEPT ![s] = <<>>]
      /\ down' = [down EXCEPT ![s] = <<>>]
      /\ UNCHANGED <<sock, risk, host, acts, faulty, used>>
    BY DEF Drops
<1>3. IInv'
    BY <1>1, <1>2, DisconnectOK DEF StepOK
<1>4. open' = open \ {s}
    BY <1>2 DEF Disconnect
<1>5. /\ up' \in [Socket -> Seq(HostAction)] /\ down' \in [Socket -> Seq(HostEffect)]
      /\ \A z \in Socket : up'[z] = IF z = s THEN <<>> ELSE up[z]
      /\ \A z \in Socket : down'[z] = IF z = s THEN <<>> ELSE down[z]
    BY <1>1, <1>2 DEF HostTypes
<1>6. HostTypes'
    BY <1>1, <1>2, <1>5 DEF HostTypes, Sound, HostState, FitsKind, Same, Commands
<1>7. SocketsApart' /\ LiveHere'
    BY <1>1, <1>2, <1>4, <1>5 DEF SocketsApart, LiveHere
<1>8. RunsAskedFor'
    <2>1. IsFiniteSet(Pending) /\ Cardinality(Pending) + term.nextRun <= acts + 1
        BY DEF Shared, RunsAskedFor
    <2>2. Pending' \subseteq Pending
        BY <1>5 DEF Pending
    <2>3. IsFiniteSet(Pending') /\ Cardinality(Pending') <= Cardinality(Pending)
        BY <2>1, <2>2, FS_Subset
    <2>4. Cardinality(Pending) \in Nat /\ Cardinality(Pending') \in Nat
        BY <2>1, <2>3, FS_CardinalityType
    <2>5. term.nextRun \in Nat \ {0} /\ acts \in Nat /\ acts' = acts
        BY <1>1, <1>2 DEF HostTypes, IInv, TypeOK, MachineState
    <2>6. term'.nextRun = term.nextRun \/ term'.nextRun = 1
        BY <1>1, <1>2, DisconnectFields
    <2> QED
        BY <2>1, <2>3, <2>4, <2>5, <2>6 DEF RunsAskedFor
<1> QED
    BY <1>3, <1>6, <1>7, <1>8 DEF Shared

\* Every step keeps what the browsers share.
LEMMA NextKeepsShared ==
    ASSUME Shared, [HostNext]_hostVars
    PROVE  Shared'
<1>1. ASSUME NEW b \in Browser, Connects(b) PROVE Shared'
    BY <1>1, ConnectsKeeps
<1>2. ASSUME NEW b \in Browser, Loses(b) PROVE Shared'
    BY <1>2, LosesKeeps
<1>3. ASSUME NEW b \in Browser, Risks(b) \/ Recovers(b) PROVE Shared'
    BY <1>3, SharedParts DEF Risks, Recovers, Shared, HostTypes
<1>4. ASSUME NEW b \in Browser, Acts(b), used' = used PROVE Shared'
    BY <1>4, ActsKeeps
<1>5. ASSUME NEW b \in Browser, used' = used,
             \/ Goes(b) \/ Returns(b) \/ Asks(b) \/ TimesOut(b) \/ Dies(b)
             \/ Receive(b) \/ Renders(b)
      PROVE  Shared'
    BY <1>5, BrowserKeeps
<1>6. ASSUME NEW s \in Socket, Drops(s) PROVE Shared'
    BY <1>6, DropsKeeps
<1>7. ASSUME NEW s \in Socket, Handles(s), used' = used PROVE Shared'
    BY <1>7, HandlesKeeps
<1>8. CASE UNCHANGED hostVars
    BY <1>8, SharedParts DEF hostVars, Shared, HostTypes
<1> QED
    BY <1>1, <1>2, <1>3, <1>4, <1>5, <1>6, <1>7, <1>8 DEF HostNext

\* The invariant of the browsers and what lies between them and the server: nothing is
\* addressed to a socket that is gone, sockets are not shared, a handler that is still
\* valid belongs to the connection that is shown, and users have asked for every run.
THEOREM HostInvariant == HostSpec => []Shared
<1>1. HostInit => Shared
    BY HostInitShared
<1>2. Shared /\ [HostNext]_hostVars => Shared'
    BY NextKeepsShared
<1> QED
    BY <1>1, <1>2, PTL DEF HostSpec

\* A browser's refs, handlers and runtime keep their types, and its runtime executes one
\* command at a time (issue in client/pythonTerminal.ts), whatever the browsers, the
\* server and the network do.
THEOREM HostTypesHold == HostSpec => []HostTypeOK
<1>1. ASSUME NEW h, Sound(h)
      PROVE  Cardinality(Commands(h)) <= 1
    <2>1. CASE Commands(h) = {}
        <3>1. Cardinality({}) = 0
            BY FS_EmptySet
        <3> QED
            BY <2>1, <3>1
    <2>2. CASE Commands(h) # {}
        <3>1. PICK t : t \in Commands(h)
            BY <2>2
        <3>2. Commands(h) = {t}
            BY <1>1, <3>1 DEF Sound
        <3>3. Cardinality({t}) = 1
            BY FS_Singleton
        <3> QED
            BY <3>2, <3>3
    <2> QED
        BY <2>1, <2>2
<1>2. Shared => HostTypeOK
    <2> SUFFICES ASSUME Shared PROVE HostTypeOK
        OBVIOUS
    <2>1. HostTypes
        BY DEF Shared
    <2>2. ASSUME NEW b \in Browser
          PROVE  /\ host[b].tasks \subseteq Task
                 /\ {host[b].exec, host[b].intr} \subseteq RunId \cup {None}
                 /\ host[b].py.mode \in {"none", "starting", "shell", "repl"}
                 /\ Cardinality(Commands(host[b])) <= 1
        <3>1. Sound(host[b]) /\ host[b] \in HostState
            BY <2>1 DEF HostTypes
        <3>2. host[b].tasks \subseteq Task /\ host[b].py \in Runtime
              /\ host[b].exec \in RunId \cup {None} /\ host[b].intr \in RunId \cup {None}
            BY <3>1 DEF HostState
        <3> QED
            BY <1>1, <3>1, <3>2 DEF Runtime
    <2> QED
        BY <2>1, <2>2 DEF HostTypes, HostTypeOK
<1> QED
    BY <1>2, HostInvariant, PTL

-----------------------------------------------------------------------------
\* A step changes one browser at most: a handler of it runs, it receives an effect, or
\* it is rendered.
LEMMA HostMoves ==
    ASSUME Shared, [HostNext]_hostVars
    PROVE  \/ host' = host
           \/ \E b \in Browser : \E g :
                 /\ host' = [host EXCEPT ![b] = g]
                 /\ \/ Evolves(host[b], g)
                    \/ \E e, t : Begins(b, e, g, t)
                    \/ Rendered(b, g)
<1>1. HostTypes
    BY DEF Shared
<1>2. ASSUME NEW b \in Browser, Goes(b) \/ Returns(b) \/ Asks(b) \/ TimesOut(b) \/ Dies(b)
      PROVE  \E g : host' = [host EXCEPT ![b] = g] /\ Evolves(host[b], g)
    <2>1. GoesOn(b) \/ \E v \in host[b].tasks : EndsHandler(b, v)
        BY <1>1, <1>2, HandlerStep DEF HostTypes
    <2> QED
        BY <2>1 DEF GoesOn, EndsHandler, Moves
<1>3. ASSUME NEW b \in Browser, Receive(b)
      PROVE  \E g : /\ host' = [host EXCEPT ![b] = g]
                    /\ Evolves(host[b], g) \/ \E e, t : Begins(b, e, g, t)
    <2> DEFINE e == Head(down[sock[b]])
    <2>1. sock[b] \in Socket /\ e \in HostEffect
        BY <1>1, <1>3 DEF HostTypes, Receive
    <2>2. Receives(b, e)
        BY <1>1, <1>3, <2>1, ReceiveStep DEF HostTypes
    <2> HIDE DEF e
    <2> QED
        BY <2>2 DEF Receives, Moves
<1>4. ASSUME NEW b \in Browser, Renders(b)
      PROVE  \E g : host' = [host EXCEPT ![b] = g] /\ Rendered(b, g)
    BY <1>4, RendersStep DEF Moves
<1>5. ASSUME NEW b \in Browser, Connects(b) \/ Loses(b) \/ Risks(b) \/ Recovers(b) \/ Acts(b)
      PROVE  host' = host
    BY <1>5 DEF Connects, Loses, Risks, Recovers, Acts
<1>6. ASSUME NEW s \in Socket, Drops(s) \/ Handles(s)
      PROVE  host' = host
    BY <1>6 DEF Drops, Handles
<1> QED
    BY <1>2, <1>3, <1>4, <1>5, <1>6 DEF HostNext, hostVars

\* Only a handler that is still valid, and whose run the browser executes, writes.
LEMMA WriterIsActive ==
    ASSUME Shared, [HostNext]_hostVars,
           NEW b \in Browser, NEW t \in host[b].tasks, Writes(b, t)
    PROVE  IsActive(host[b], t)
<1>1. PICK u \in host'[b].tasks : Same(u, t) /\ u.awaits = "flush" /\ t.awaits = "apply"
    BY DEF Writes, Same
<1>2. host \in [Browser -> HostState] /\ Sound(host[b])
    BY DEF Shared, HostTypes
<1>3. \A v \in host[b].tasks : Same(u, v) => v = t
    BY <1>1, <1>2 DEF Sound, Same
<1>4. u \notin host[b].tasks
    BY <1>1, <1>3 DEF Same
<1>5. PICK g : /\ host'[b] = g
               /\ \/ Evolves(host[b], g)
                  \/ \E e, x : Begins(b, e, g, x)
                  \/ Rendered(b, g)
    <2>1. host' # host
        BY <1>4
    <2>2. PICK c, g :
             /\ c \in Browser
             /\ host' = [host EXCEPT ![c] = g]
             /\ \/ Evolves(host[c], g)
                \/ \E e, x : Begins(c, e, g, x)
                \/ Rendered(c, g)
        BY <2>1, HostMoves
    <2>3. c = b /\ host'[b] = g
        BY <1>2, <1>4, <2>2
    <2> QED
        BY <2>2, <2>3
<1>6. CASE Evolves(host[b], g)
    <2>1. PICK v \in host[b].tasks : From(u, v) /\ (v.awaits = "flush" \/ IsActive(host[b], v))
        BY <1>1, <1>5, <1>6 DEF Evolves
    <2> QED
        BY <1>1, <1>3, <2>1 DEF From
<1>7. CASE \E e, x : Begins(b, e, g, x)
    BY <1>1, <1>4, <1>5, <1>7 DEF Begins
<1>8. CASE Rendered(b, g)
    BY <1>1, <1>3, <1>4, <1>5, <1>8 DEF Rendered
<1> QED
    BY <1>5, <1>6, <1>7, <1>8

\* Once CodeWorkspace.tsx has rendered a reconnection, no handler that was started over
\* the old connection writes a worker's files into the document.
THEOREM NoLateFiles == HostSpec => NoFilesAfterReconnect
<1>1. Shared /\ [HostNext]_hostVars => FilesOfThisConnection
    <2> SUFFICES ASSUME Shared, [HostNext]_hostVars,
                        NEW b \in Browser, NEW t \in host[b].tasks, Writes(b, t)
                 PROVE  t.sock = sock[b] \/ host[b].shown # sock[b]
        BY DEF FilesOfThisConnection
    <2>1. t.live
        BY WriterIsActive DEF IsActive
    <2> QED
        BY <2>1 DEF Shared, LiveHere
<1>2. Shared /\ [HostNext]_hostVars => [FilesOfThisConnection]_hostVars
    BY <1>1
<1> QED
    BY <1>2, HostInvariant, PTL DEF HostSpec, NoFilesAfterReconnect
-----------------------------------------------------------------------------
\* The order in which runs reach their hosts, for FilesBelongToTheRun.
Order == RunsKnown /\ OneTarget /\ InOrder /\ EffectsAgree

\* What is left on the way to socket z: the front of it has been taken.
Shortened(z) ==
    \E n \in Nat : \A i \in DOMAIN down'[z] :
        i + n \in DOMAIN down[z] /\ down'[z][i] = down[z][i + n]

\* A handler of the effect that socket z has received.
Arrived(u, z) ==
    /\ down[z] # <<>> /\ u.run = down[z][1].run /\ u.sock = z
    /\ \A i \in DOMAIN down'[z] :
          i + 1 \in DOMAIN down[z] /\ down'[z][i] = down[z][i + 1]

\* u is what has become of v, as far as the order of runs goes.
Stays(u, v) == u.run = v.run /\ u.sock = v.sock

\* What the order of runs speaks of exists.
LEMMA KnownRuns ==
    ASSUME Shared, RunsKnown
    PROVE  /\ \A z \in Socket : \A i \in DOMAIN down[z] :
                 down[z][i] \in HostEffect /\ down[z][i].run \in RunId /\ Counted(down[z][i].run)
           /\ \A b \in Browser : \A t \in host[b].tasks :
                 t \in Task /\ t.run \in RunId /\ t.sock \in Socket /\ Numbered(t.run)
           /\ \A z \in Socket : down[z] # <<>> => 1 \in DOMAIN down[z]
           /\ term \in MachineState
<1>1. HostTypes
    BY DEF Shared
<1>2. \A z \in Socket : down[z] \in Seq(HostEffect)
    BY <1>1 DEF HostTypes
<1>3. \A b \in Browser : host[b].tasks \subseteq Task
    BY <1>1 DEF HostTypes, HostState
<1>4. term \in MachineState
    BY DEF Shared, IInv, TypeOK
<1>5. \A z \in Socket : \A i \in DOMAIN down[z] : down[z][i] \in HostEffect
    BY <1>2
<1>6. \A z \in Socket : down[z] # <<>> => 1 \in DOMAIN down[z]
    BY <1>2
<1>7. \A z \in Socket : \A i \in DOMAIN down[z] : down[z][i].run \in RunId
    BY <1>5 DEF HostEffect
<1>8. \A b \in Browser : \A t \in host[b].tasks :
         t \in Task /\ t.run \in RunId /\ t.sock \in Socket
    BY <1>3 DEF Task
<1>9. /\ \A z \in Socket : \A i \in DOMAIN down[z] : Counted(down[z][i].run)
      /\ \A b \in Browser : \A t \in host[b].tasks : Numbered(t.run)
    BY DEF RunsKnown
<1> QED
    BY <1>4, <1>5, <1>6, <1>7, <1>8, <1>9

\* The order is kept by a step that starts no run, whatever it takes off the way.
LEMMA OrderPasses ==
    ASSUME Shared, Shared', Order,
           term'.epoch = term.epoch, term'.nextRun = term.nextRun,
           term'.run # None => /\ term'.run = term.run /\ term'.host = term.host
                               /\ term'.pythonRun = term.pythonRun,
           \A z \in Socket : Shortened(z),
           \A z \in Socket : \A r \in RunId : Reported(r, z)' => Numbered(r),
           \A b \in Browser : \A u \in host'[b].tasks :
              (\E v \in host[b].tasks : Stays(u, v)) \/ \E z \in Socket : Arrived(u, z),
           \A z \in used : z \in open' => z \in open
    PROVE  Order'
<1>1. /\ \A z \in Socket : \A i \in DOMAIN down[z] :
            down[z][i] \in HostEffect /\ down[z][i].run \in RunId /\ Counted(down[z][i].run)
      /\ \A b \in Browser : \A t \in host[b].tasks :
            t \in Task /\ t.run \in RunId /\ t.sock \in Socket /\ Numbered(t.run)
      /\ \A z \in Socket : down[z] # <<>> => 1 \in DOMAIN down[z]
      /\ term \in MachineState
    BY KnownRuns DEF Order
<1>2. \A r : (Counted(r)' <=> Counted(r)) /\ (Numbered(r)' <=> Numbered(r))
    BY DEF Counted, Numbered
<1>3. ASSUME NEW z \in Socket, NEW i \in DOMAIN down'[z]
      PROVE  \E k \in DOMAIN down[z] : down'[z][i] = down[z][k]
    BY <1>3 DEF Shortened
<1>4. ASSUME NEW z \in Socket, NEW u, Arrived(u, z)
      PROVE  u.run \in RunId /\ Counted(u.run) /\ u.sock = z /\ 1 \in DOMAIN down[z]
             /\ u.run = down[z][1].run
    BY <1>1, <1>4 DEF Arrived
<1>5. term.run # None => term.run.count = term.nextRun - 1
    BY DEF Order, RunsKnown
<1>6. RunsKnown'
    <2>1. term'.run # None => term'.run.count = term'.nextRun - 1
        BY <1>5
    <2>2. (\A z \in Socket : \A i \in DOMAIN down[z] : Counted(down[z][i].run))'
        BY <1>1, <1>3 DEF Counted
    <2>3. ASSUME NEW b \in Browser, NEW u \in host'[b].tasks
          PROVE  Numbered(u.run) /\ (u.sock \in open' => Counted(u.run))
        <3>1. CASE \E v \in host[b].tasks : Stays(u, v)
            <4>1. PICK v \in host[b].tasks : Stays(u, v)
                BY <3>1
            <4>2. v.sock \in used
                BY DEF Shared, SocketsApart
            <4> QED
                BY <4>1, <4>2, <1>1 DEF Stays, Order, RunsKnown
        <3>2. CASE \E z \in Socket : Arrived(u, z)
            BY <1>4, <3>2 DEF Numbered
        <3> QED
            BY <2>3, <3>1, <3>2
    <2>4. \A b \in Browser : \A u \in host'[b].tasks :
             Numbered(u.run)' /\ (u.sock \in open' => Counted(u.run)')
        BY <1>2, <2>3
    <2>5. \A z \in Socket : \A r \in RunId : Reported(r, z)' => Numbered(r)'
        BY <1>2
    <2> QED
        BY <2>1, <2>2, <2>4, <2>5 DEF RunsKnown, Counted, Numbered
<1>7. OneTarget'
    <2>1. ASSUME NEW s \in Socket, NEW i \in DOMAIN down'[s]
          PROVE  /\ down'[s][i].run = term'.run => s = term'.host
                 /\ \A z \in Socket : \A j \in DOMAIN down'[z] :
                       down'[s][i].run = down'[z][j].run => s = z
        <3>1. PICK k \in DOMAIN down[s] : down'[s][i] = down[s][k]
            BY <1>3, <2>1
        <3>2. down[s][k].run # None
            BY <1>1, TerminalAssumption
        <3> QED
            BY <1>3, <3>1, <3>2 DEF Order, OneTarget
    <2>2. ASSUME NEW b \in Browser, NEW u \in host'[b].tasks
          PROVE  /\ u.run = term'.run => u.sock = term'.host
                 /\ \A s \in Socket : \A i \in DOMAIN down'[s] :
                       u.run = down'[s][i].run => u.sock = s
        <3>1. CASE \E v \in host[b].tasks : Stays(u, v)
            <4>1. PICK v \in host[b].tasks : Stays(u, v)
                BY <3>1
            <4>2. v.run # None
                BY <1>1, TerminalAssumption
            <4> QED
                BY <1>3, <4>1, <4>2 DEF Stays, Order, OneTarget
        <3>2. CASE \E z \in Socket : Arrived(u, z)
            <4>1. PICK z \in Socket : Arrived(u, z)
                BY <3>2
            <4>2. u.sock = z /\ u.run = down[z][1].run /\ 1 \in DOMAIN down[z] /\ u.run # None
                BY <1>4, <4>1, TerminalAssumption
            <4> QED
                BY <1>3, <4>2 DEF Order, OneTarget
        <3> QED
            BY <2>2, <3>1, <3>2
    <2> QED
        BY <2>1, <2>2 DEF OneTarget
<1>8. InOrder'
    <2> SUFFICES ASSUME NEW s \in Socket, NEW j \in DOMAIN down'[s]
                 PROVE  /\ \A i \in 1 .. j - 1 :
                              /\ down'[s][i].run.count <= down'[s][j].run.count
                              /\ IsStart(down'[s][j]) =>
                                    down'[s][i].run.count < down'[s][j].run.count
                        /\ \A b \in Browser : \A u \in host'[b].tasks : u.sock = s =>
                              /\ u.run.count <= down'[s][j].run.count
                              /\ IsStart(down'[s][j]) => u.run.count < down'[s][j].run.count
        BY DEF InOrder
    <2>1. PICK n \in Nat : \A i \in DOMAIN down'[s] :
             i + n \in DOMAIN down[s] /\ down'[s][i] = down[s][i + n]
        BY DEF Shortened
    <2>2. down'[s] \in Seq(HostEffect)
        BY DEF Shared, HostTypes
    <2>3. j \in Nat \ {0} /\ j <= Len(down'[s]) /\ DOMAIN down'[s] = 1 .. Len(down'[s])
        BY <2>2
    <2> DEFINE e == down[s][j + n]
    <2>4. e = down'[s][j] /\ j + n \in DOMAIN down[s]
        BY <2>1
    <2>5. \A i \in 1 .. (j + n) - 1 :
             down[s][i].run.count <= e.run.count /\ (IsStart(e) => down[s][i].run.count < e.run.count)
        BY <2>4 DEF Order, InOrder
    <2>6. \A b \in Browser : \A t \in host[b].tasks : t.sock = s =>
             t.run.count <= e.run.count /\ (IsStart(e) => t.run.count < e.run.count)
        BY <2>4 DEF Order, InOrder
    <2> HIDE DEF e
    <2>7. ASSUME NEW i \in 1 .. j - 1
          PROVE  down'[s][i].run.count <= e.run.count
                 /\ (IsStart(e) => down'[s][i].run.count < e.run.count)
        <3>1. i \in DOMAIN down'[s]
            BY <2>3
        <3>2. down'[s][i] = down[s][i + n] /\ i + n \in 1 .. (j + n) - 1
            BY <2>1, <2>3, <3>1
        <3> QED
            BY <2>5, <3>2
    <2>8. ASSUME NEW b \in Browser, NEW u \in host'[b].tasks, u.sock = s
          PROVE  u.run.count <= e.run.count /\ (IsStart(e) => u.run.count < e.run.count)
        <3>1. CASE \E v \in host[b].tasks : Stays(u, v)
            BY <2>6, <2>8, <3>1 DEF Stays
        <3>2. CASE \E z \in Socket : Arrived(u, z)
            <4>1. Arrived(u, s)
                BY <2>8, <3>2, <1>4
            <4>2. j + 1 \in DOMAIN down[s] /\ down[s][j + 1] = e /\ u.run = down[s][1].run
                BY <2>4, <4>1 DEF Arrived
            <4>3. 1 \in 1 .. (j + 1) - 1
                BY <2>3
            <4> QED
                BY <4>2, <4>3 DEF Order, InOrder
        <3> QED
            BY <2>8, <3>1, <3>2
    <2> QED
        BY <2>4, <2>7, <2>8
<1>9. EffectsAgree'
    <2> SUFFICES ASSUME NEW s \in Socket, NEW i \in DOMAIN down'[s]
                 PROVE  /\ down'[s][i].type = "start-run" => ~down'[s][i].python
                        /\ down'[s][i].run = term'.run => down'[s][i].python = term'.pythonRun
                        /\ \A j \in DOMAIN down'[s] : down'[s][i].run = down'[s][j].run =>
                              down'[s][i].python = down'[s][j].python
        BY DEF EffectsAgree
    <2>1. PICK k \in DOMAIN down[s] : down'[s][i] = down[s][k]
        BY <1>3
    <2>2. down[s][k].run # None
        BY <1>1, TerminalAssumption
    <2> QED
        BY <1>3, <2>1, <2>2 DEF Order, EffectsAgree
<1> QED
    BY <1>6, <1>7, <1>8, <1>9 DEF Order

\* What the machine's answer x to the next action is about: the run that is active then,
\* which was active before or is a new one.
Answers(x) ==
    /\ term'.epoch = term.epoch
    /\ \/ term'.nextRun = term.nextRun /\ term'.run = None
       \/ /\ term'.nextRun = term.nextRun /\ term.run # None /\ term'.run = term.run
          /\ term'.host = term.host /\ term'.pythonRun = term.pythonRun
       \/ /\ term'.nextRun = term.nextRun + 1 /\ term'.run = NextRunId
    /\ x # None =>
          /\ term'.run # None /\ x.run = term'.run /\ x.target = term'.host
          /\ x.target \in Socket /\ Handed(x) \in HostEffect
          /\ IsStart(x) => term'.run = NextRunId
          /\ x.type = "start-run" => ~term'.pythonRun

\* The queues grow by that effect and nothing else.
Appended(x) ==
    \A z \in Socket :
        /\ down'[z] \in Seq(HostEffect) /\ down[z] \in Seq(HostEffect)
        /\ \A i \in DOMAIN down'[z] :
              \/ i \in DOMAIN down[z] /\ down'[z][i] = down[z][i]
              \/ /\ x # None /\ z = x.target /\ i = Len(down[z]) + 1
                 /\ down'[z][i] = Handed(x)

\* The server's handler in these terms.
LEMMA HandlesFields ==
    ASSUME Shared, Shared', NEW s \in Socket, Handles(s)
    PROVE  /\ Answers(result'.effect) /\ Appended(result'.effect)
           /\ RunStep(s, Head(up[s]))
           /\ UNCHANGED <<open, sock, host>>
           /\ \A z \in Socket : \A r : Reported(r, z)' => Reported(r, z)
           /\ IsReport(Head(up[s])) => Reported(Head(up[s]).run, s)
<1> DEFINE a == Head(up[s])
           x == result'.effect
<1>1. HostTypes /\ HostTypes' /\ IInv /\ IInv'
    BY DEF Shared
<1>2. /\ up \in [Socket -> Seq(HostAction)] /\ down \in [Socket -> Seq(HostEffect)]
      /\ down' \in [Socket -> Seq(HostEffect)]
    BY <1>1 DEF HostTypes
<1>3. /\ up[s] # <<>> /\ up' = [up EXCEPT ![s] = Tail(@)]
      /\ down' = IF x = None THEN down ELSE [down EXCEPT ![x.target] = Append(@, Handed(x))]
      /\ UNCHANGED <<open, sock, host>>
    BY DEF Handles, Handed
<1>4. RunStep(s, a)
    BY HandlesStep
<1>5. x # None => x.target \in Socket /\ x.run # None /\ Handed(x) \in HostEffect
    <2> SUFFICES ASSUME x # None
                 PROVE  x.target \in Socket /\ x.run # None /\ Handed(x) \in HostEffect
        OBVIOUS
    <2>1. x \in Effect /\ term' \in MachineState
        BY <1>1 DEF IInv, TypeOK, Emission
    <2> HIDE DEF x
    <2> QED
        BY <2>1, TerminalAssumption DEF Effect, MachineState, Handed, HostEffect
<1>6. Answers(x)
    <2>1. term'.epoch = term.epoch
        BY <1>4 DEF RunStep
    <2>2. CASE KeepsRun
        <3>1. /\ term'.nextRun = term.nextRun /\ term'.run = term.run
              /\ term.run # None => term'.host = term.host /\ term'.pythonRun = term.pythonRun
              /\ x # None => /\ term.run # None /\ x.run = term.run /\ x.target = term.host
                              /\ ~IsStart(x)
            BY <2>2 DEF KeepsRun
        <3> HIDE DEF x
        <3> QED
            BY <1>5, <2>1, <3>1 DEF Answers, IsStart
    <2>3. CASE EndsRun(s, a)
        BY <2>1, <2>3 DEF EndsRun, Answers
    <2>4. CASE StartsRun
        <3>1. /\ term'.nextRun = term.nextRun + 1 /\ term'.run = NextRunId
              /\ x # None /\ x.run = NextRunId /\ x.target = term'.host
              /\ x.type = "start-run" => ~term'.pythonRun
            BY <2>4 DEF StartsRun
        <3> HIDE DEF x
        <3> QED
            BY <1>5, <2>1, <3>1 DEF Answers
    <2> QED
        BY <1>4, <2>2, <2>3, <2>4 DEF RunStep
<1> HIDE DEF x
<1>7. Appended(x)
    <2> SUFFICES ASSUME NEW z \in Socket, NEW i \in DOMAIN down'[z]
                 PROVE  \/ i \in DOMAIN down[z] /\ down'[z][i] = down[z][i]
                        \/ /\ x # None /\ z = x.target /\ i = Len(down[z]) + 1
                           /\ down'[z][i] = Handed(x)
        BY <1>2 DEF Appended
    <2>1. CASE x = None \/ z # x.target
        <3>1. down'[z] = down[z]
            BY <1>2, <1>3, <1>5, <2>1
        <3> QED
            BY <3>1
    <2>2. CASE x # None /\ z = x.target
        <3>1. down'[z] = Append(down[z], Handed(x)) /\ down[z] \in Seq(HostEffect)
            BY <1>2, <1>3, <1>5, <2>2
        <3> HIDE DEF Handed
        <3> QED
            BY <1>5, <2>2, <3>1
    <2> QED
        BY <2>1, <2>2
<1>8. ASSUME NEW z \in Socket, NEW r, Reported(r, z)'
      PROVE  Reported(r, z)
    <2>1. PICK i \in DOMAIN up'[z] : IsReport(up'[z][i]) /\ up'[z][i].run = r
        BY <1>8 DEF Reported, IsReport
    <2>2. up[z] \in Seq(HostAction) /\ up'[z] = IF z = s THEN Tail(up[z]) ELSE up[z]
        BY <1>2, <1>3
    <2>3. CASE z = s
        <3>1. up[z] # <<>> /\ up'[z] = Tail(up[z]) /\ up[z] \in Seq(HostAction)
            BY <1>3, <2>2, <2>3
        <3>2. i \in 1 .. Len(up[z]) - 1 /\ up'[z][i] = up[z][i + 1]
            BY <3>1
        <3>3. i + 1 \in DOMAIN up[z]
            BY <3>1, <3>2
        <3> QED
            BY <2>1, <3>2, <3>3 DEF Reported
    <2>4. CASE z # s
        BY <2>1, <2>2, <2>4 DEF Reported
    <2> QED
        BY <2>3, <2>4
<1>9. IsReport(a) => Reported(a.run, s)
    <2>1. 1 \in DOMAIN up[s] /\ up[s][1] = a
        BY <1>2, <1>3
    <2> QED
        BY <2>1 DEF Reported
<1> QED
    BY <1>3, <1>4, <1>6, <1>7, <1>8, <1>9 DEF x

\* A new run differs from the runs that are known.
LEMMA NewRun ==
    ASSUME term \in MachineState, NEW r, Numbered(r)
    PROVE  r # NextRunId
BY DEF Numbered, Counted, NextRunId, MachineState

\* The server's handler keeps the order.
LEMMA OrderAnswered ==
    ASSUME Shared, Shared', Order, NEW x, Answers(x), Appended(x),
           UNCHANGED <<open, sock, host>>,
           \A z \in Socket : \A r : Reported(r, z)' => Reported(r, z)
    PROVE  Order'
<1> DEFINE new(z, i) == /\ x # None /\ z = x.target /\ i = Len(down[z]) + 1
                        /\ down'[z][i] = Handed(x)
           old(z, i) == i \in DOMAIN down[z] /\ down'[z][i] = down[z][i]
<1>1. /\ \A z \in Socket : \A i \in DOMAIN down[z] :
            down[z][i].run \in RunId /\ Counted(down[z][i].run)
      /\ \A b \in Browser : \A t \in host[b].tasks :
            t \in Task /\ t.run \in RunId /\ t.sock \in Socket /\ Numbered(t.run)
      /\ term \in MachineState
    BY KnownRuns DEF Order
<1>2. term.run # None => /\ term.run \in RunId /\ term.run.count = term.nextRun - 1
                         /\ term.run.epoch = term.epoch /\ Numbered(term.run)
    <2>1. term.run # None => term.run.epoch = term.epoch /\ term.run.count < term.nextRun
        BY DEF Shared, IInv, RunsAreFresh
    <2> QED
        BY <1>1, <2>1 DEF Order, RunsKnown, MachineState, Numbered, Counted
<1>3. /\ \A z \in Socket : \A i \in DOMAIN down'[z] : old(z, i) \/ new(z, i)
      /\ \A z \in Socket : \A i, j : new(z, i) /\ new(z, j) => i = j
    BY DEF Appended
<1>4. \A z \in Socket : \A i : new(z, i) =>
         /\ down'[z][i].run = term'.run /\ down'[z][i].python = term'.pythonRun
         /\ down'[z][i].type = x.type /\ z = term'.host /\ z \in open /\ z \in open'
         /\ x.type = "start-run" => ~term'.pythonRun
         /\ IsStart(x) => term'.run = NextRunId
         /\ term'.run # None
    <2>1. x # None /\ x.target \in Socket => x.target \in open'
        BY TerminalAssumption DEF Answers, Shared, IInv, LeasesConnected
    <2> QED
        BY <2>1 DEF Answers, Handed
<1>5. \A r : Numbered(r) => r # NextRunId
    BY <1>1, NewRun
<1>6. term.nextRun \in Nat /\ term'.nextRun \in {term.nextRun, term.nextRun + 1}
    BY <1>1 DEF Answers, MachineState
<1>7. term'.run # None =>
         \/ /\ term'.run = NextRunId /\ term'.nextRun = term.nextRun + 1
            /\ NextRunId.count = term.nextRun /\ NextRunId.epoch = term.epoch
         \/ /\ term'.run = term.run /\ term'.host = term.host /\ term'.pythonRun = term.pythonRun
            /\ term'.nextRun = term.nextRun
    BY DEF Answers, NextRunId
<1>8. term'.epoch = term.epoch
    BY DEF Answers
<1> HIDE DEF new, old
<1>9. RunsKnown'
    <2>1. \A r \in RunId : (Counted(r) => Counted(r)') /\ (Numbered(r) => Numbered(r)')
        <3> SUFFICES ASSUME NEW r \in RunId
                     PROVE  (Counted(r) => Counted(r)') /\ (Numbered(r) => Numbered(r)')
            OBVIOUS
        <3>1. r.count \in Nat
            BY DEF RunId
        <3> QED
            BY <1>6, <1>8, <3>1 DEF Counted, Numbered
    <2>2. term'.run # None => /\ term'.run.count = term'.nextRun - 1
                              /\ term'.run.epoch = term'.epoch /\ term'.run.count < term'.nextRun
        BY <1>2, <1>6, <1>7, <1>8
    <2>3. (\A z \in Socket : \A i \in DOMAIN down[z] : Counted(down[z][i].run))'
        <3> SUFFICES ASSUME NEW z \in Socket, NEW i \in DOMAIN down'[z]
                     PROVE  /\ down'[z][i].run.epoch = term'.epoch
                            /\ down'[z][i].run.count < term'.nextRun
            BY DEF Counted
        <3>1. CASE new(z, i)
            BY <1>4, <2>2, <3>1
        <3>2. CASE old(z, i)
            <4>1. down'[z][i] = down[z][i] /\ down[z][i].run \in RunId /\ Counted(down[z][i].run)
                BY <1>1, <3>2 DEF old
            <4>2. down[z][i].run.count \in Nat
                BY <4>1 DEF RunId
            <4> QED
                BY <1>6, <1>8, <4>1, <4>2 DEF Counted
        <3> QED
            BY <1>3, <3>1, <3>2
    <2>4. \A b \in Browser : \A t \in host'[b].tasks :
             Numbered(t.run)' /\ (t.sock \in open' => Counted(t.run)')
        BY <1>1, <2>1 DEF Order, RunsKnown
    <2>5. \A z \in Socket : \A r \in RunId : Reported(r, z)' => Numbered(r)'
        BY <2>1 DEF Order, RunsKnown
    <2> QED
        BY <2>2, <2>3, <2>4, <2>5 DEF RunsKnown, Counted, Numbered
<1>10. OneTarget'
    <2>1. ASSUME NEW s \in Socket, NEW i \in DOMAIN down'[s], down'[s][i].run = term'.run
          PROVE  s = term'.host
        <3>1. CASE new(s, i)
            BY <1>4, <3>1
        <3>2. CASE old(s, i)
            <4>1. i \in DOMAIN down[s] /\ down'[s][i] = down[s][i]
                BY <3>2 DEF old
            <4>2. Numbered(term'.run) /\ term'.run # None
                BY <1>1, <2>1, <4>1, TerminalAssumption DEF Numbered
            <4>3. term'.run = term.run /\ term'.host = term.host
                BY <1>5, <1>7, <4>2
            <4> QED
                BY <2>1, <4>1, <4>3 DEF Order, OneTarget
        <3> QED
            BY <1>3, <2>1, <3>1, <3>2
    <2>2. ASSUME NEW s \in Socket, NEW i \in DOMAIN down'[s],
                 NEW z \in Socket, NEW j \in DOMAIN down'[z], down'[s][i].run = down'[z][j].run
          PROVE  s = z
        <3>1. CASE new(s, i)
            BY <1>4, <2>1, <2>2, <3>1
        <3>2. CASE new(z, j)
            BY <1>4, <2>1, <2>2, <3>2
        <3>3. CASE old(s, i) /\ old(z, j)
            BY <2>2, <3>3 DEF Order, OneTarget, old
        <3> QED
            BY <1>3, <2>2, <3>1, <3>2, <3>3
    <2>3. ASSUME NEW b \in Browser, NEW t \in host'[b].tasks, t.run = term'.run
          PROVE  t.sock = term'.host
        <3>1. Numbered(term'.run) /\ term'.run # None
            BY <1>1, <2>3, TerminalAssumption
        <3>2. term'.run = term.run /\ term'.host = term.host
            BY <1>5, <1>7, <3>1
        <3> QED
            BY <2>3, <3>2 DEF Order, OneTarget
    <2>4. ASSUME NEW b \in Browser, NEW t \in host'[b].tasks,
                 NEW s \in Socket, NEW i \in DOMAIN down'[s], t.run = down'[s][i].run
          PROVE  t.sock = s
        <3>1. CASE new(s, i)
            BY <1>4, <2>3, <2>4, <3>1
        <3>2. CASE old(s, i)
            BY <2>4, <3>2 DEF Order, OneTarget, old
        <3> QED
            BY <1>3, <2>4, <3>1, <3>2
    <2> QED
        BY <2>1, <2>2, <2>3, <2>4 DEF OneTarget
<1>11. InOrder'
    <2> SUFFICES ASSUME NEW s \in Socket, NEW j \in DOMAIN down'[s]
                 PROVE  /\ \A i \in 1 .. j - 1 :
                              /\ down'[s][i].run.count <= down'[s][j].run.count
                              /\ IsStart(down'[s][j]) =>
                                    down'[s][i].run.count < down'[s][j].run.count
                        /\ \A b \in Browser : \A u \in host'[b].tasks : u.sock = s =>
                              /\ u.run.count <= down'[s][j].run.count
                              /\ IsStart(down'[s][j]) => u.run.count < down'[s][j].run.count
        BY DEF InOrder
    <2>1. /\ down[s] \in Seq(HostEffect) /\ down'[s] \in Seq(HostEffect)
          /\ j \in Nat \ {0} /\ 1 .. j - 1 \subseteq DOMAIN down'[s]
        BY DEF Appended
    <2>2. CASE new(s, j)
        <3>1. j = Len(down[s]) + 1 /\ x # None /\ s = x.target
            BY <2>2 DEF new
        <3>2. \A i \in 1 .. j - 1 : i \in DOMAIN down[s] /\ down'[s][i] = down[s][i]
            <4> SUFFICES ASSUME NEW i \in 1 .. j - 1 PROVE old(s, i)
                BY DEF old
            <4>1. ~new(s, i)
                BY <2>1, <3>1 DEF new
            <4> QED
                BY <1>3, <2>1, <4>1
        <3>3. /\ down'[s][j].run = term'.run /\ term'.run # None /\ s \in open
              /\ IsStart(down'[s][j]) => term'.run = NextRunId
            BY <1>4, <2>2 DEF IsStart
        <3>4. ASSUME NEW r, r \in RunId, Counted(r)
              PROVE  /\ r.count <= term'.run.count
                     /\ IsStart(down'[s][j]) => r.count < term'.run.count
            <4>1. r.count \in Nat /\ r.count < term.nextRun
                BY <3>4 DEF RunId, Counted
            <4> QED
                BY <1>2, <1>6, <1>7, <3>3, <4>1 DEF NextRunId
        <3>5. ASSUME NEW b \in Browser, NEW u \in host'[b].tasks, u.sock = s
              PROVE  u.run \in RunId /\ Counted(u.run)
            BY <1>1, <3>3, <3>5 DEF Order, RunsKnown
        <3> QED
            BY <1>1, <3>2, <3>3, <3>4, <3>5
    <2>3. CASE old(s, j)
        <3>1. j \in DOMAIN down[s] /\ down'[s][j] = down[s][j]
            BY <2>3 DEF old
        <3>2. \A i \in 1 .. j - 1 : down'[s][i] = down[s][i]
            <4> SUFFICES ASSUME NEW i \in 1 .. j - 1 PROVE old(s, i)
                BY DEF old
            <4>1. ~new(s, i)
                BY <2>1, <3>1 DEF new
            <4> QED
                BY <1>3, <2>1, <4>1
        <3> QED
            BY <3>1, <3>2 DEF Order, InOrder
    <2> QED
        BY <1>3, <2>2, <2>3
<1>12. EffectsAgree'
    <2>1. ASSUME NEW s \in Socket, NEW i \in DOMAIN down'[s]
          PROVE  /\ down'[s][i].type = "start-run" => ~down'[s][i].python
                 /\ down'[s][i].run = term'.run => down'[s][i].python = term'.pythonRun
        <3>1. CASE new(s, i)
            BY <1>4, <3>1
        <3>2. CASE old(s, i)
            <4>1. i \in DOMAIN down[s] /\ down'[s][i] = down[s][i] /\ Numbered(down[s][i].run)
                  /\ down[s][i].run # None
                BY <1>1, <3>2, TerminalAssumption DEF Numbered, old
            <4>2. down[s][i].run = term'.run =>
                     term'.run = term.run /\ term'.pythonRun = term.pythonRun
                BY <1>5, <1>7, <4>1
            <4> QED
                BY <4>1, <4>2 DEF Order, EffectsAgree
        <3> QED
            BY <1>3, <2>1, <3>1, <3>2
    <2>2. ASSUME NEW s \in Socket, NEW i \in DOMAIN down'[s], NEW j \in DOMAIN down'[s],
                 down'[s][i].run = down'[s][j].run
          PROVE  down'[s][i].python = down'[s][j].python
        <3>1. CASE new(s, i) \/ new(s, j)
            <4>1. down'[s][i].run = term'.run
                BY <1>4, <2>2, <3>1
            <4> QED
                BY <2>1, <2>2, <4>1
        <3>2. CASE old(s, i) /\ old(s, j)
            BY <2>2, <3>2 DEF Order, EffectsAgree, old
        <3> QED
            BY <1>3, <2>2, <3>1, <3>2
    <2> QED
        BY <2>1, <2>2 DEF EffectsAgree
<1> QED
    BY <1>9, <1>10, <1>11, <1>12 DEF Order

\* The last socket to leave takes the machine along, and with it all that was on its way.
LEMMA OrderResets ==
    ASSUME Shared, Shared', Order, UNCHANGED host,
           term'.epoch = term.epoch + 1, term'.run = None, open' = {}
    PROVE  Order'
<1>1. /\ \A b \in Browser : \A t \in host[b].tasks : t.run \in RunId /\ Numbered(t.run)
      /\ term \in MachineState
    BY KnownRuns DEF Order
<1>2. \A z \in Socket : up'[z] = <<>> /\ down'[z] = <<>>
    BY DEF Shared, SocketsApart
<1>3. \A b \in Browser : \A t \in host'[b].tasks : t.run.epoch < term'.epoch /\ t.run # term'.run
    BY <1>1, TerminalAssumption DEF Numbered, Counted, RunId, MachineState
<1>4. RunsKnown'
    BY <1>2, <1>3 DEF RunsKnown, Reported, Numbered
<1>5. OneTarget' /\ InOrder' /\ EffectsAgree'
    BY <1>2, <1>3 DEF OneTarget, InOrder, EffectsAgree
<1> QED
    BY <1>4, <1>5 DEF Order

-----------------------------------------------------------------------------
\* The invariant that FilesBelongToTheRun rests on.
ScriptOK(b, t) == ScriptAlone(b, t) /\ ScriptHeld(b, t) /\ ScriptGivenUp(b, t)

\* The whole of it.
FilesInv == Shared /\ Order /\ StartsAwaited /\ ScriptsHeld

\* A run that its host still holds is held after the server's next action.
LEMMA HoldsAnswered ==
    ASSUME Shared, Shared', NEW s \in Socket, Handles(s),
           NEW r \in RunId, NEW z \in Socket, Holds(r, z)
    PROVE  Holds(r, z)'
<1>1. term.run = r /\ term.host = z /\ ~term.pythonRun /\ ~Reported(r, z) /\ r # None
    BY TerminalAssumption DEF Holds
<1>2. ~Reported(r, z)'
    BY <1>1, HandlesFields
<1>3. RunStep(s, Head(up[s])) /\ (IsReport(Head(up[s])) => Reported(Head(up[s]).run, s))
    BY HandlesFields
<1>4. KeepsRun
    BY <1>1, <1>3 DEF RunStep, EndsRun, StartsRun
<1> QED
    BY <1>1, <1>2, <1>4 DEF KeepsRun, Holds

\* The server's handler keeps what is known of scripts.
LEMMA ScriptsAnswered ==
    ASSUME FilesInv, Shared', NEW s \in Socket, Handles(s)
    PROVE  StartsAwaited' /\ ScriptsHeld'
<1> DEFINE x == result'.effect
           new(z, i) == /\ x # None /\ z = x.target /\ i = Len(down[z]) + 1
                        /\ down'[z][i] = Handed(x)
           old(z, i) == i \in DOMAIN down[z] /\ down'[z][i] = down[z][i]
<1>1. Answers(x) /\ Appended(x) /\ UNCHANGED <<open, sock, host>>
      /\ \A z \in Socket : \A r : Reported(r, z)' => Reported(r, z)
    BY HandlesFields DEF FilesInv
<1>2. /\ \A z \in Socket : \A i \in DOMAIN down[z] : down[z][i].run \in RunId
      /\ \A b \in Browser : \A t \in host[b].tasks :
            t.run \in RunId /\ t.sock \in Socket /\ Numbered(t.run)
      /\ term \in MachineState
    BY KnownRuns DEF FilesInv, Order
<1>3. \A z \in Socket : \A i \in DOMAIN down'[z] :
         (old(z, i) \/ new(z, i)) /\ down'[z][i].run \in RunId
    <2> SUFFICES ASSUME NEW z \in Socket, NEW i \in DOMAIN down'[z]
                 PROVE  (old(z, i) \/ new(z, i)) /\ down'[z][i].run \in RunId
        OBVIOUS
    <2>1. old(z, i) \/ new(z, i)
        BY <1>1 DEF Appended
    <2>2. down'[z] \in Seq(HostEffect)
        BY <1>1 DEF Appended
    <2>3. down'[z][i] \in HostEffect
        BY <2>2
    <2> QED
        BY <2>1, <2>3 DEF HostEffect
<1>4. \A z \in Socket : \A i : new(z, i) =>
         /\ down'[z][i].run = term'.run /\ down'[z][i].python = term'.pythonRun
         /\ z = term'.host
         /\ IsStart(down'[z][i]) => term'.run = NextRunId
    BY <1>1 DEF Answers, Handed, IsStart
<1>5. \A r : Numbered(r) /\ r = term'.run /\ r # None =>
         term.run = r /\ term'.host = term.host /\ term'.pythonRun = term.pythonRun
    <2>1. \A r : Numbered(r) => r # NextRunId
        BY <1>2, NewRun
    <2> QED
        BY <1>1, <2>1 DEF Answers
<1>6. \A r \in RunId : \A z \in Socket : Holds(r, z) => Holds(r, z)'
    BY HoldsAnswered DEF FilesInv
<1> HIDE DEF new, old, x
<1>7. StartsAwaited'
    <2> SUFFICES ASSUME NEW z \in Socket, NEW i \in DOMAIN down'[z], NEW r, r = down'[z][i].run,
                        IsStart(down'[z][i]), ~down'[z][i].python
                 PROVE  Holds(r, z)'
        BY DEF StartsAwaited, Holds, Reported, IsStart, IsReport
    <2>1. CASE new(z, i)
        <3>1. r = NextRunId /\ r = term'.run /\ z = term'.host /\ ~term'.pythonRun /\ r \in RunId
            BY <1>3, <1>4, <2>1
        <3>2. ~Reported(r, z)'
            BY <1>1, <1>2, <3>1, NewRun DEF FilesInv, Order, RunsKnown
        <3> QED
            BY <3>1, <3>2 DEF Holds
    <2>2. CASE old(z, i)
        <3>1. i \in DOMAIN down[z] /\ down'[z][i] = down[z][i]
            BY <2>2 DEF old
        <3>2. Holds(r, z) /\ r \in RunId
            BY <1>2, <3>1 DEF FilesInv, StartsAwaited
        <3> QED
            BY <1>6, <3>2
    <2> QED
        BY <1>3, <2>1, <2>2
<1>8. ScriptsHeld'
    <2> SUFFICES ASSUME NEW b \in Browser, NEW t \in host'[b].tasks,
                        t.kind = "script", t.live, t.sock \in open'
                 PROVE  ScriptOK(b, t)'
        BY DEF ScriptsHeld, ScriptOK
    <2>1. /\ t \in host[b].tasks /\ t.run \in RunId /\ t.sock \in Socket /\ Numbered(t.run)
          /\ t.run # None
          /\ ScriptAlone(b, t) /\ ScriptHeld(b, t) /\ ScriptGivenUp(b, t)
        BY <1>1, <1>2, TerminalAssumption DEF FilesInv, ScriptsHeld
    <2>2. term'.run = t.run => term.run = t.run /\ term'.pythonRun = term.pythonRun
        BY <1>5, <2>1
    <2>3. \A i \in DOMAIN down'[t.sock] :
             \/ i \in DOMAIN down[t.sock] /\ down'[t.sock][i] = down[t.sock][i]
             \/ down'[t.sock][i].run = term'.run /\ down'[t.sock][i].python = term'.pythonRun
        BY <1>3, <1>4, <2>1 DEF old
    <2>4. ScriptAlone(b, t)'
        BY <1>1, <2>1, <2>2, <2>3 DEF ScriptAlone
    <2>5. Holds(t.run, t.sock) => Holds(t.run, t.sock)'
        BY <1>6, <2>1
    <2>6. ScriptHeld(b, t)'
        BY <1>1, <2>1, <2>5 DEF ScriptHeld
    <2>7. Over(t.run, t.sock) => Over(t.run, t.sock)'
        BY <2>2, <2>3 DEF Over
    <2>8. ScriptGivenUp(b, t)'
        BY <1>1, <2>1, <2>5, <2>7 DEF ScriptGivenUp, QuietRepl, Commands
    <2> QED
        BY <2>4, <2>6, <2>8 DEF ScriptOK
<1> QED
    BY <1>7, <1>8

\* Nothing but time has passed for a script: its browser and the machine are as they were,
\* and no report of its run has been sent over its socket.
LEMMA ScriptRests ==
    ASSUME NEW b \in Browser, NEW t, ScriptOK(b, t), NEW z, z = t.sock,
           term' = term, host'[b] = host[b],
           sock'[b] = z => sock[b] = z,
           Reported(t.run, z)' => Reported(t.run, z),
           \A i \in DOMAIN down'[z] : \E k \in DOMAIN down[z] : down'[z][i] = down[z][k]
    PROVE  ScriptOK(b, t)'
<1>1. /\ Holds(t.run, z) => Holds(t.run, z)'
      /\ Over(t.run, z) => Over(t.run, z)'
    BY DEF Holds, Over
<1>2. ScriptAlone(b, t)'
    BY DEF ScriptOK, ScriptAlone
<1>3. ScriptHeld(b, t)'
    BY <1>1 DEF ScriptOK, ScriptHeld
<1>4. ScriptGivenUp(b, t)'
    BY <1>1 DEF ScriptOK, ScriptGivenUp, QuietRepl, Commands
<1> QED
    BY <1>2, <1>3, <1>4 DEF ScriptOK

\* Starts on their way stay awaited when the server rests.
LEMMA StartsRest ==
    ASSUME StartsAwaited, term' = term,
           \A z \in Socket : \A i \in DOMAIN down'[z] :
              \E k \in DOMAIN down[z] : down'[z][i] = down[z][k],
           \A z \in Socket : \A i \in DOMAIN down'[z] : \A r :
              IsStart(down'[z][i]) /\ r = down'[z][i].run /\ Reported(r, z)' => Reported(r, z)
    PROVE  StartsAwaited'
<1> SUFFICES ASSUME NEW z \in Socket, NEW i \in DOMAIN down'[z], NEW r, r = down'[z][i].run,
                    IsStart(down'[z][i]), ~down'[z][i].python
             PROVE  Holds(r, z)'
    BY DEF StartsAwaited, Holds, Reported, IsStart, IsReport
<1>1. Holds(r, z)
    BY DEF StartsAwaited
<1> QED
    BY <1>1 DEF Holds

\* Steps that change neither the machine nor a browser, nor report anything.
LEMMA FilesRest ==
    ASSUME FilesInv, Shared',
           UNCHANGED <<term, host, down>>,
           \A z \in Socket : \A r : Reported(r, z)' => Reported(r, z),
           \A b \in Browser : sock'[b] \in used => sock'[b] = sock[b],
           \A z \in used : z \in open' => z \in open
    PROVE  FilesInv'
<1>1. Shared /\ Order /\ StartsAwaited /\ ScriptsHeld
    BY DEF FilesInv
<1>2. \A b \in Browser : \A t \in host[b].tasks : t.sock \in Socket /\ t.sock \in used /\ t.run \in RunId
    BY <1>1, KnownRuns DEF Order, Shared, SocketsApart
<1>3. \A z \in Socket : Shortened(z)
    <2> SUFFICES ASSUME NEW z \in Socket PROVE Shortened(z)
        OBVIOUS
    <2>1. down[z] \in Seq(HostEffect)
        BY <1>1 DEF Shared, HostTypes
    <2>2. \A i \in DOMAIN down'[z] : i + 0 \in DOMAIN down[z] /\ down'[z][i] = down[z][i + 0]
        BY <2>1
    <2> QED
        BY <2>2 DEF Shortened
<1>4. \A z \in Socket : \A r \in RunId : Reported(r, z)' => Numbered(r)
    BY <1>1 DEF Order, RunsKnown
<1>5. \A b \in Browser : \A u \in host'[b].tasks : \E v \in host[b].tasks : Stays(u, v)
    BY DEF Stays
<1>6. Order'
    BY <1>1, <1>3, <1>4, <1>5, OrderPasses
<1>7. StartsAwaited'
    BY <1>1, StartsRest
<1>8. ScriptsHeld'
    <2> SUFFICES ASSUME NEW b \in Browser, NEW t \in host'[b].tasks,
                        t.kind = "script", t.live, t.sock \in open'
                 PROVE  ScriptOK(b, t)'
        BY DEF ScriptsHeld, ScriptOK
    <2>1. ScriptOK(b, t) /\ t.sock \in Socket /\ t.sock \in used
        BY <1>1, <1>2 DEF ScriptsHeld, ScriptOK
    <2> QED
        BY <2>1, ScriptRests
<1> QED
    BY <1>6, <1>7, <1>8 DEF FilesInv
-----------------------------------------------------------------------------
\* Browser b receives effect e.
Arrives(b, e) ==
    /\ sock[b] \in Socket /\ down[sock[b]] # <<>> /\ e = Head(down[sock[b]])
    /\ down' = [down EXCEPT ![sock[b]] = Tail(@)]

\* The effect was the first of its queue, and the rest moved up.
LEMMA ArrivesFields ==
    ASSUME HostTypes, NEW b \in Browser, NEW e, Arrives(b, e)
    PROVE  /\ 1 \in DOMAIN down[sock[b]] /\ e = down[sock[b]][1] /\ e \in HostEffect
           /\ \A z \in Socket : z # sock[b] => down'[z] = down[z]
           /\ \A i \in DOMAIN down'[sock[b]] :
                 /\ i \in Nat \ {0} /\ i + 1 \in DOMAIN down[sock[b]]
                 /\ down'[sock[b]][i] = down[sock[b]][i + 1]
<1> DEFINE q == down[sock[b]]
<1>1. /\ sock[b] \in Socket /\ q # <<>> /\ e = Head(q) /\ q \in Seq(HostEffect)
      /\ down' = [down EXCEPT ![sock[b]] = Tail(q)] /\ down \in [Socket -> Seq(HostEffect)]
    BY DEF Arrives, HostTypes
<1>2. down'[sock[b]] = Tail(q)
    BY <1>1
<1> HIDE DEF q
<1>3. 1 \in DOMAIN q /\ e = q[1] /\ e \in HostEffect
    BY <1>1
<1>4. \A i \in DOMAIN Tail(q) : i \in Nat \ {0} /\ i + 1 \in DOMAIN q /\ Tail(q)[i] = q[i + 1]
    <2> SUFFICES ASSUME NEW i \in DOMAIN Tail(q)
                 PROVE  i \in Nat \ {0} /\ i + 1 \in DOMAIN q /\ Tail(q)[i] = q[i + 1]
        OBVIOUS
    <2>1. i \in 1 .. Len(q) - 1 /\ Tail(q)[i] = q[i + 1]
        BY <1>1
    <2> QED
        BY <1>1, <2>1
<1> QED
    BY <1>1, <1>2, <1>3, <1>4 DEF q

\* What is reported after a step was reported before, or is the step's message.
LEMMA SendReports ==
    ASSUME HostTypes, NEW b \in Browser, NEW m, MaySend(b, m), NEW z \in Socket, NEW r, Reported(r, z)'
    PROVE  Reported(r, z) \/ (z = sock[b] /\ IsReport(m) /\ r = m.run)
<1>1. up[z] \in Seq(HostAction) /\ up \in [Socket -> Seq(HostAction)]
    BY DEF HostTypes
<1>2. PICK i \in DOMAIN up'[z] : IsReport(up'[z][i]) /\ up'[z][i].run = r
    BY DEF Reported, IsReport
<1>3. CASE up'[z] = up[z]
    BY <1>2, <1>3 DEF Reported
<1>4. CASE up'[z] # up[z]
    <2>1. z = sock[b] /\ up'[z] = Append(up[z], m) /\ m \in HostAction
        BY <1>1, <1>4 DEF MaySend
    <2>2. CASE i = Len(up[z]) + 1
        <3>1. up'[z][i] = m
            BY <1>1, <2>1, <2>2
        <3> QED
            BY <1>2, <2>1, <3>1
    <2>3. CASE i # Len(up[z]) + 1
        <3>1. i \in DOMAIN up[z] /\ up'[z][i] = up[z][i]
            BY <1>1, <1>2, <2>1, <2>3
        <3> QED
            BY <1>2, <3>1 DEF Reported
    <2> QED
        BY <2>2, <2>3
<1> QED
    BY <1>3, <1>4

\* A run that is reported has reached its host: what starts later is another run.
LEMMA ReportedNoStart ==
    ASSUME Shared, Order, NEW b \in Browser, NEW v \in host[b].tasks,
           NEW z \in Socket, NEW j \in DOMAIN down[z], IsStart(down[z][j])
    PROVE  v.run # down[z][j].run
<1> SUFFICES ASSUME v.run = down[z][j].run PROVE FALSE
    OBVIOUS
<1>1. v.sock = z
    BY DEF Order, OneTarget
<1>2. v.run.count < down[z][j].run.count /\ v.run.count \in Nat
    BY <1>1, KnownRuns DEF Order, InOrder, RunId
<1> QED
    BY <1>2

\* Where a step of browser b leaves handler u from, and what it reports.
Arriving(b, r) == \E e : Arrives(b, e) /\ r = e.run

\* A step of a browser keeps the invariant if it does for every valid script: its
\* handlers, and the run it reports, are of old or come from the effect that arrives.
LEMMA FilesStep ==
    ASSUME FilesInv, Shared', NEW b \in Browser, NEW g, NEW m, Moves(b, g), MaySend(b, m),
           down' = down \/ \E e : Arrives(b, e),
           \A u \in g.tasks : \/ \E v \in host[b].tasks : Stays(u, v)
                              \/ u.sock = sock[b] /\ Arriving(b, u.run),
           IsReport(m) => (\E v \in host[b].tasks : v.run = m.run) \/ Arriving(b, m.run),
           \A t \in g.tasks :
              t.kind = "script" /\ t.live /\ t.sock \in open => ScriptOK(b, t)'
    PROVE  FilesInv'
<1>1. Shared /\ Order /\ StartsAwaited /\ ScriptsHeld /\ HostTypes
    BY DEF FilesInv, Shared
<1>2. UNCHANGED <<term, open, sock>> /\ host' = [host EXCEPT ![b] = g] /\ host \in [Browser -> HostState]
    BY <1>1 DEF Moves, vars, HostTypes
<1>3. \A c \in Browser : host'[c] = IF c = b THEN g ELSE host[c]
    BY <1>2
<1>4. /\ \A c \in Browser : \A t \in host[c].tasks :
            t \in Task /\ t.run \in RunId /\ t.sock \in Socket /\ Numbered(t.run)
      /\ \A z \in Socket : \A i \in DOMAIN down[z] :
            down[z][i].run \in RunId /\ Counted(down[z][i].run)
    BY <1>1, KnownRuns DEF Order
<1>5. ASSUME NEW e, Arrives(b, e)
      PROVE  /\ 1 \in DOMAIN down[sock[b]] /\ e = down[sock[b]][1] /\ sock[b] \in Socket
             /\ \A z \in Socket : z # sock[b] => down'[z] = down[z]
             /\ \A i \in DOMAIN down'[sock[b]] :
                   /\ i \in Nat \ {0} /\ i + 1 \in DOMAIN down[sock[b]]
                   /\ down'[sock[b]][i] = down[sock[b]][i + 1]
    BY <1>1, <1>5, ArrivesFields DEF Arrives
<1>6. \A z \in Socket : Shortened(z)
    <2> SUFFICES ASSUME NEW z \in Socket PROVE Shortened(z)
        OBVIOUS
    <2>1. CASE down'[z] = down[z]
        <3>1. down[z] \in Seq(HostEffect)
            BY <1>1 DEF HostTypes
        <3>2. \A i \in DOMAIN down'[z] : i + 0 \in DOMAIN down[z] /\ down'[z][i] = down[z][i + 0]
            BY <2>1, <3>1
        <3> QED
            BY <3>2 DEF Shortened
    <2>2. CASE down'[z] # down[z]
        BY <1>5, <2>2 DEF Shortened
    <2> QED
        BY <2>1, <2>2
<1>7. \A z \in Socket : \A i \in DOMAIN down'[z] : \E k \in DOMAIN down[z] : down'[z][i] = down[z][k]
    BY <1>6 DEF Shortened
<1>8. \A r : Arriving(b, r) => r \in RunId /\ Numbered(r)
    BY <1>4, <1>5 DEF Arriving, Numbered
<1>9. \A z \in Socket : \A r : Reported(r, z)' =>
         Reported(r, z) \/ (z = sock[b] /\ IsReport(m) /\ r = m.run)
    BY <1>1, SendReports
<1>10. Order'
    <2>1. \A z \in Socket : \A r \in RunId : Reported(r, z)' => Numbered(r)
        BY <1>1, <1>4, <1>8, <1>9 DEF Order, RunsKnown
    <2>2. \A c \in Browser : \A u \in host'[c].tasks :
             (\E v \in host[c].tasks : Stays(u, v)) \/ \E z \in Socket : Arrived(u, z)
        <3>1. ASSUME NEW u, u.sock = sock[b], Arriving(b, u.run)
              PROVE  \E z \in Socket : Arrived(u, z)
            <4>1. PICK e : Arrives(b, e) /\ u.run = e.run
                BY <3>1 DEF Arriving
            <4>2. down[sock[b]] # <<>>
                BY <4>1 DEF Arrives
            <4> QED
                BY <1>5, <3>1, <4>1, <4>2 DEF Arrived
        <3>2. \A c \in Browser : \A u \in host[c].tasks : Stays(u, u)
            BY DEF Stays
        <3> QED
            BY <1>3, <3>1, <3>2
    <2> QED
        BY <1>1, <1>2, <1>6, <2>1, <2>2, OrderPasses
<1>11. StartsAwaited'
    <2>1. ASSUME NEW z \in Socket, NEW i \in DOMAIN down'[z], NEW r,
                 IsStart(down'[z][i]), r = down'[z][i].run, Reported(r, z)', ~Reported(r, z)
          PROVE  FALSE
        <3>1. z = sock[b] /\ IsReport(m) /\ r = m.run
            BY <1>9, <2>1
        <3>2. PICK k \in DOMAIN down[z] : down'[z][i] = down[z][k]
            BY <1>7, <2>1
        <3>3. Arriving(b, m.run)
            BY <1>1, <2>1, <3>1, <3>2, ReportedNoStart
        <3>4. PICK e : Arrives(b, e) /\ r = e.run
            BY <3>1, <3>3 DEF Arriving
        <3>5. /\ e = down[z][1] /\ i \in Nat \ {0} /\ i + 1 \in DOMAIN down[z]
              /\ down'[z][i] = down[z][i + 1] /\ 1 \in DOMAIN down[z]
            BY <1>5, <2>1, <3>1, <3>4
        <3>6. 1 \in 1 .. (i + 1) - 1
            BY <3>5
        <3>7. down[z][1].run.count < down[z][i + 1].run.count
            BY <1>1, <2>1, <3>5, <3>6 DEF Order, InOrder
        <3>8. down[z][1].run.count \in Nat
            BY <1>4, <3>5 DEF RunId
        <3>9. down[z][1].run = down[z][i + 1].run
            BY <2>1, <3>4, <3>5
        <3> QED
            BY <3>7, <3>8, <3>9
    <2> QED
        BY <1>1, <1>2, <1>7, <2>1, StartsRest
<1>12. ScriptsHeld'
    <2> SUFFICES ASSUME NEW c \in Browser, NEW t \in host'[c].tasks,
                        t.kind = "script", t.live, t.sock \in open'
                 PROVE  ScriptOK(c, t)'
        BY DEF ScriptsHeld, ScriptOK
    <2>1. CASE c = b
        BY <1>2, <1>3, <2>1
    <2>2. CASE c # b
        <3>1. t \in host[c].tasks /\ t.sock \in Socket /\ t.run \in RunId /\ host'[c] = host[c]
            BY <1>3, <1>4, <2>2
        <3>2. ScriptOK(c, t)
            BY <1>1, <1>2, <3>1 DEF ScriptsHeld, ScriptOK
        <3>3. t.sock # sock[b]
            BY <1>1, <2>2, <3>1, TerminalAssumption DEF Shared, SocketsApart
        <3>4. Reported(t.run, t.sock)' => Reported(t.run, t.sock)
            BY <1>9, <3>1, <3>3
        <3> QED
            BY <1>2, <1>7, <3>1, <3>2, <3>4, ScriptRests
    <2> QED
        BY <2>1, <2>2
<1> QED
    BY <1>10, <1>11, <1>12 DEF FilesInv
-----------------------------------------------------------------------------
\* What a step of browser b is to a script of it.  Nothing new is on its way.
Passes == \A z \in Socket : \A i \in DOMAIN down'[z] : \E k \in DOMAIN down[z] : down'[z][i] = down[z][k]

\* A script was a script before.
LEMMA ScriptSource ==
    ASSUME FilesInv, NEW b \in Browser, NEW g, Evolves(host[b], g),
           NEW t \in g.tasks, t.kind = "script", t.live, t.sock \in open
    PROVE  ScriptOK(b, t) /\ t.run \in RunId /\ t.run # None /\ t.sock \in Socket
<1>1. PICK v \in host[b].tasks : From(t, v)
    BY DEF Evolves
<1>2. v.run = t.run /\ v.kind = t.kind /\ v.sock = t.sock /\ v.live
    BY <1>1 DEF From, Same
<1>3. ScriptOK(b, v) /\ v.run \in RunId /\ v.sock \in Socket
    BY <1>2, KnownRuns DEF FilesInv, Order, ScriptsHeld, ScriptOK
<1>4. ScriptOK(b, t)
    BY <1>2, <1>3 DEF ScriptOK, ScriptAlone, ScriptHeld, ScriptGivenUp
<1> QED
    BY <1>2, <1>3, <1>4, TerminalAssumption

\* A script stays alone if no other handler of its run begins.
LEMMA ScriptStaysAlone ==
    ASSUME FilesInv, NEW b \in Browser, NEW g, Moves(b, g), Passes,
           NEW t, ScriptAlone(b, t), t.sock \in Socket,
           \A u \in g.tasks : u.run = t.run =>
              u.kind = "eof" \/ \E v \in host[b].tasks : Same(u, v)
    PROVE  ScriptAlone(b, t)'
<1>1. term' = term /\ host'[b] = g
    BY DEF Moves, vars, FilesInv, Shared, HostTypes
<1>2. \A u \in host'[b].tasks : u.run = t.run => u.kind \in {"script", "eof"}
    BY <1>1 DEF ScriptAlone, Same
<1> QED
    BY <1>1, <1>2 DEF ScriptAlone, Passes

\* While a script is not given up, no REPL comes up in its browser.
LEMMA ScriptKeepsQuiet ==
    ASSUME FilesInv, NEW b \in Browser, NEW g, Evolves(host[b], g),
           NEW t, ScriptOK(b, t), t.run # None, t.sock = sock[b], ~Over(t.run, t.sock)
    PROVE  /\ host[b].exec \in {None, t.run}
           /\ QuietRepl(host[b]) => QuietRepl(g)
           /\ \A u \in g.tasks : u.kind = "eof" /\ u.run = t.run /\ u.runtime # "current" =>
                 QuietRepl(g)
<1>1. /\ host[b].exec \in {None, t.run}
      /\ \A u \in host[b].tasks :
            u.kind = "eof" /\ u.run = t.run /\ u.runtime # "current" => QuietRepl(host[b])
    BY DEF ScriptOK, ScriptGivenUp
<1>2. NoReplActive(host[b])
    <2>1. \A v \in host[b].tasks : v.run \in RunId
        BY KnownRuns DEF FilesInv, Order
    <2>2. \A v \in host[b].tasks : v.run = t.run => v.kind # "repl"
        BY DEF ScriptOK, ScriptAlone
    <2> QED
        BY <1>1, <2>1, <2>2, TerminalAssumption DEF NoReplActive
<1>3. QuietRepl(host[b]) => QuietRepl(g)
    BY <1>2 DEF Evolves
<1>4. ASSUME NEW u \in g.tasks, u.kind = "eof", u.run = t.run, u.runtime # "current"
      PROVE  QuietRepl(g)
    <2>1. PICK v \in host[b].tasks :
             From(u, v) /\ (QuietRepl(g) \/ v.runtime # "current")
        BY <1>2, <1>4 DEF Evolves
    <2> QED
        BY <1>1, <1>3, <1>4, <2>1 DEF From, Same
<1> QED
    BY <1>1, <1>3, <1>4

\* Others' handlers go on or end, and its own goes on.
LEMMA ScriptGoesOn ==
    ASSUME FilesInv, NEW b \in Browser, NEW g, NEW m, Moves(b, g), MaySend(b, m), Passes,
           Evolves(host[b], g), g.exec \in {None, host[b].exec},
           NEW t \in g.tasks, t.kind = "script", t.live, t.sock \in open,
           IsReport(m) => m.run # t.run
    PROVE  ScriptOK(b, t)'
<1>1. ScriptOK(b, t) /\ t.run \in RunId /\ t.run # None /\ t.sock \in Socket
    BY ScriptSource
<1>2. term' = term /\ host'[b] = g /\ sock' = sock
    BY DEF Moves, vars, FilesInv, Shared, HostTypes
<1>3. Reported(t.run, t.sock)' => Reported(t.run, t.sock)
    BY <1>1, SendReports DEF FilesInv, Shared
<1>4. /\ Holds(t.run, t.sock) => Holds(t.run, t.sock)'
      /\ Over(t.run, t.sock) => Over(t.run, t.sock)'
    BY <1>1, <1>2, <1>3 DEF Holds, Over, Passes
<1>5. ScriptAlone(b, t)'
    BY <1>1, ScriptStaysAlone DEF ScriptOK, Evolves, From
<1>6. ScriptHeld(b, t)'
    BY <1>1, <1>2, <1>4 DEF ScriptOK, ScriptHeld
<1>7. ScriptGivenUp(b, t)'
    <2> SUFFICES ASSUME t.sock = sock[b], ~Over(t.run, t.sock)
                 PROVE  /\ g.exec \in {None, t.run}
                        /\ g.exec # t.run => Holds(t.run, t.sock)' \/ QuietRepl(g)
                        /\ \A u \in g.tasks :
                              u.kind = "eof" /\ u.run = t.run /\ u.runtime # "current" => QuietRepl(g)
        BY <1>2, <1>4 DEF ScriptGivenUp, QuietRepl, Commands
    <2>1. /\ host[b].exec \in {None, t.run}
          /\ QuietRepl(host[b]) => QuietRepl(g)
          /\ \A u \in g.tasks : u.kind = "eof" /\ u.run = t.run /\ u.runtime # "current" =>
                QuietRepl(g)
        BY <1>1, ScriptKeepsQuiet
    <2>2. Holds(t.run, t.sock) \/ QuietRepl(host[b])
        BY <1>1 DEF ScriptOK, ScriptHeld, ScriptGivenUp
    <2> QED
        BY <1>4, <2>1, <2>2
<1> QED
    BY <1>5, <1>6, <1>7 DEF ScriptOK

\* Its run is reported, by another handler of it: no REPL is left.
LEMMA ScriptReported ==
    ASSUME FilesInv, NEW b \in Browser, NEW g, Moves(b, g), Passes,
           Evolves(host[b], g), g.exec \in {None, host[b].exec},
           NEW t \in g.tasks, t.kind = "script", t.live, t.sock \in open,
           g.exec # t.run,
           t.sock = sock[b] /\ ~Over(t.run, t.sock) => QuietRepl(g)
    PROVE  ScriptOK(b, t)'
<1>1. ScriptOK(b, t) /\ t.run \in RunId /\ t.run # None /\ t.sock \in Socket
    BY ScriptSource
<1>2. term' = term /\ host'[b] = g /\ sock' = sock
    BY DEF Moves, vars, FilesInv, Shared, HostTypes
<1>3. Over(t.run, t.sock) => Over(t.run, t.sock)'
    BY <1>1, <1>2 DEF Over, Passes
<1>4. ScriptAlone(b, t)'
    BY <1>1, ScriptStaysAlone DEF ScriptOK, Evolves, From
<1>5. ScriptHeld(b, t)'
    BY <1>2 DEF ScriptHeld
<1>6. ScriptGivenUp(b, t)'
    BY <1>1, <1>2, <1>3 DEF ScriptOK, ScriptGivenUp, QuietRepl, Commands
<1> QED
    BY <1>4, <1>5, <1>6 DEF ScriptOK

\* A step of a browser puts nothing on the way to one.
LEMMA PassesDown ==
    ASSUME HostTypes, NEW b \in Browser, down' = down \/ \E e : Arrives(b, e)
    PROVE  Passes
BY ArrivesFields DEF Passes

\* The steps of a browser's own handlers.
LEMMA GoesOnFiles ==
    ASSUME FilesInv, Shared', NEW b \in Browser, down' = down,
           GoesOn(b) \/ \E v \in host[b].tasks : EndsHandler(b, v)
    PROVE  FilesInv'
<1>1. HostTypes /\ Passes
    BY PassesDown DEF FilesInv, Shared
<1>2. CASE GoesOn(b)
    <2>1. PICK g, m : /\ Moves(b, g) /\ Evolves(host[b], g) /\ g.exec = host[b].exec
                      /\ MaySend(b, m) /\ ~IsReport(m)
        BY <1>2 DEF GoesOn
    <2>2. \A u \in g.tasks : \E v \in host[b].tasks : Stays(u, v)
        BY <2>1 DEF Evolves, From, Same, Stays
    <2>3. \A t \in g.tasks : t.kind = "script" /\ t.live /\ t.sock \in open => ScriptOK(b, t)'
        BY <1>1, <2>1, ScriptGoesOn
    <2> QED
        BY <2>1, <2>2, <2>3, FilesStep
<1>3. ASSUME NEW v \in host[b].tasks, EndsHandler(b, v)
      PROVE  FilesInv'
    <2>1. PICK g, m :
             /\ Moves(b, g) /\ Evolves(host[b], g)
             /\ g.exec = IF host[b].exec = v.run THEN None ELSE host[b].exec
             /\ \A u \in g.tasks : ~Same(u, v)
             /\ v.kind = "eof" => QuietRepl(g) \/ v.runtime # "current"
             /\ MaySend(b, m) /\ (IsReport(m) => m.run = v.run)
        BY <1>3 DEF EndsHandler
    <2>2. \A u \in g.tasks : \E w \in host[b].tasks : Stays(u, w)
        BY <2>1 DEF Evolves, From, Same, Stays
    <2>3. ASSUME NEW t \in g.tasks, t.kind = "script", t.live, t.sock \in open
          PROVE  ScriptOK(b, t)'
        <3>1. ScriptOK(b, t) /\ t.run # None
            BY <2>1, <2>3, ScriptSource
        <3>2. CASE t.run # v.run
            BY <1>1, <2>1, <2>3, <3>2, ScriptGoesOn
        <3>3. CASE t.run = v.run
            <4>1. v.kind = "eof"
                BY <2>1, <2>3, <3>1, <3>3 DEF ScriptOK, ScriptAlone, Same
            <4>2. t.sock = sock[b] /\ ~Over(t.run, t.sock) => QuietRepl(g)
                <5> SUFFICES ASSUME t.sock = sock[b], ~Over(t.run, t.sock), v.runtime # "current"
                             PROVE  QuietRepl(g)
                    BY <2>1, <4>1
                <5>1. QuietRepl(host[b])
                    BY <3>1, <3>3, <4>1 DEF ScriptOK, ScriptGivenUp
                <5> QED
                    BY <2>1, <3>1, <5>1, ScriptKeepsQuiet
            <4>3. g.exec # t.run
                BY <2>1, <3>1, <3>3
            <4> QED
                BY <1>1, <2>1, <2>3, <4>2, <4>3, ScriptReported
        <3> QED
            BY <3>2, <3>3
    <2> QED
        BY <2>1, <2>2, <2>3, FilesStep
<1> QED
    BY <1>2, <1>3

\* A script that is rendered goes on, or it is no longer valid.
LEMMA RendersFiles ==
    ASSUME FilesInv, Shared', NEW b \in Browser, Renders(b)
    PROVE  FilesInv'
<1>1. PICK g : Moves(b, g) /\ Local(b, g) /\ Rendered(b, g)
    BY RendersStep DEF FilesInv
<1> DEFINE m == [type |-> "invalid"]
<1>2. MaySend(b, m) /\ ~IsReport(m) /\ down' = down
    BY SilentMessage DEF Renders
<1> HIDE DEF m
<1>3. \A u \in g.tasks : \E v \in host[b].tasks : Stays(u, v)
    BY <1>1 DEF Rendered, Same, Stays
<1>4. ASSUME NEW t \in g.tasks, t.kind = "script", t.live, t.sock \in open
      PROVE  ScriptOK(b, t)'
    <2>1. /\ g.exec = host[b].exec /\ g.tasks = host[b].tasks
          /\ QuietRepl(host[b]) => QuietRepl(g)
        BY <1>1, <1>4 DEF Rendered
    <2>2. ScriptOK(b, t)
        BY <1>4, <2>1 DEF FilesInv, ScriptsHeld, ScriptOK
    <2>3. term' = term /\ host'[b] = g /\ sock' = sock /\ up' = up
        BY <1>1 DEF Moves, vars, Renders, FilesInv, Shared, HostTypes
    <2>4. /\ Holds(t.run, t.sock) => Holds(t.run, t.sock)'
          /\ Over(t.run, t.sock) => Over(t.run, t.sock)'
        BY <1>2, <2>3 DEF Holds, Reported, Over, IsReport
    <2>5. ScriptAlone(b, t)'
        BY <1>2, <2>1, <2>2, <2>3 DEF ScriptOK, ScriptAlone
    <2>6. ScriptHeld(b, t)'
        BY <2>1, <2>2, <2>3, <2>4 DEF ScriptOK, ScriptHeld
    <2>7. ScriptGivenUp(b, t)'
        BY <2>1, <2>2, <2>3, <2>4 DEF ScriptOK, ScriptGivenUp, QuietRepl, Commands
    <2> QED
        BY <2>5, <2>6, <2>7 DEF ScriptOK
<1> QED
    BY <1>1, <1>2, <1>3, <1>4, FilesStep

\* Where a script is in the order of what its browser receives over the same socket: the
\* effect is about its run, or its run is over.
LEMMA ScriptPassed ==
    ASSUME FilesInv, NEW b \in Browser, NEW e, Arrives(b, e), term' = term,
           NEW t \in host[b].tasks, t.sock = sock[b], t.run # e.run
    PROVE  Over(t.run, t.sock)'
<1>1. Shared /\ Order /\ HostTypes
    BY DEF FilesInv, Shared
<1> DEFINE z == sock[b]
<1>2. /\ 1 \in DOMAIN down[z] /\ e = down[z][1]
      /\ \A i \in DOMAIN down'[z] : /\ i \in Nat \ {0} /\ i + 1 \in DOMAIN down[z]
                                    /\ down'[z][i] = down[z][i + 1]
      /\ z \in Socket
    BY <1>1, ArrivesFields DEF Arrives
<1> HIDE DEF z
<1>3. /\ \A i \in DOMAIN down[z] : down[z][i].run \in RunId /\ Counted(down[z][i].run)
      /\ t.run \in RunId
    BY <1>1, <1>2, KnownRuns DEF Order
<1>4. z \in open
    BY <1>1, <1>2 DEF Shared, SocketsApart
<1>5. Counted(t.run)
    BY <1>1, <1>4 DEF Order, RunsKnown, z
<1>6. t.run.count <= e.run.count
    BY <1>1, <1>2 DEF Order, InOrder, z
<1>7. t.run.count < e.run.count /\ t.run.count \in Nat /\ e.run.count \in Nat
    BY <1>2, <1>3, <1>5, <1>6 DEF Counted, RunId
<1>8. ASSUME NEW i \in DOMAIN down'[z]
      PROVE  down'[z][i].run # t.run
    <2>1. i + 1 \in DOMAIN down[z] /\ 1 \in 1 .. (i + 1) - 1 /\ down'[z][i] = down[z][i + 1]
        BY <1>2
    <2>2. e.run.count <= down[z][i + 1].run.count
        BY <1>1, <1>2, <2>1 DEF Order, InOrder
    <2> QED
        BY <1>7, <2>1, <2>2
<1>9. term.run # t.run
    <2> SUFFICES ASSUME term.run = t.run PROVE FALSE
        OBVIOUS
    <2>1. term.run.count = term.nextRun - 1
        BY <1>1, <1>3, TerminalAssumption DEF Order, RunsKnown
    <2>2. e.run.count < term.nextRun /\ term.nextRun \in Nat
        BY <1>1, <1>2, <1>3 DEF Counted, Shared, IInv, TypeOK, MachineState
    <2> QED
        BY <1>7, <2>1, <2>2
<1> QED
    BY <1>8, <1>9 DEF Over, z

\* The effect starts a handler.
LEMMA BeginsFiles ==
    ASSUME FilesInv, Shared', NEW b \in Browser, NEW e, Arrives(b, e),
           NEW g, NEW m, NEW n, Moves(b, g), MaySend(b, m), ~IsReport(m), Begins(b, e, g, n)
    PROVE  FilesInv'
<1> DEFINE z == sock[b]
<1>1. Shared /\ Order /\ HostTypes /\ StartsAwaited /\ ScriptsHeld /\ Passes
    BY PassesDown DEF FilesInv, Shared
<1>2. /\ 1 \in DOMAIN down[z] /\ e = down[z][1] /\ z \in Socket
      /\ \A i \in DOMAIN down'[z] : i + 1 \in DOMAIN down[z] /\ down'[z][i] = down[z][i + 1]
    BY <1>1, ArrivesFields DEF Arrives
<1>3. /\ e.run \in RunId /\ e.run # None
      /\ \A t \in host[b].tasks : t.run \in RunId /\ t.run # None /\ t.sock \in Socket
    BY <1>1, <1>2, KnownRuns, TerminalAssumption DEF Order
<1>4. /\ g.tasks \subseteq host[b].tasks \cup {n} /\ g.exec = e.run
      /\ n.run = e.run /\ n.sock = z /\ Starts(e, n.kind)
      /\ ~IsStart(e) => n.runtime = "current" /\ ~QuietRepl(host[b]) /\ host[b].exec # e.run
    BY DEF Begins
<1>5. term' = term /\ host'[b] = g /\ sock' = sock
    BY DEF Moves, vars, FilesInv, Shared, HostTypes
<1>6. \A y \in Socket : \A r : Reported(r, y)' => Reported(r, y)
    BY <1>1, SendReports
<1>7. \A y \in Socket : \A r : Holds(r, y) => Holds(r, y)'
    BY <1>5, <1>6 DEF Holds
<1>8. IsStart(e) => \A v \in host[b].tasks : v.run # e.run
    BY <1>1, <1>2, ReportedNoStart
<1>9. ASSUME n.kind = "script"
      PROVE  ScriptOK(b, n)'
    <2>1. IsStart(e) /\ ~e.python
        BY <1>1, <1>2, <1>4, <1>9 DEF Starts, IsStart, Order, EffectsAgree
    <2>2. \A u \in g.tasks : u.run = n.run => u = n
        BY <1>4, <1>8, <2>1
    <2>3. \A i \in DOMAIN down'[z] : down'[z][i].run = e.run => ~down'[z][i].python
        BY <1>1, <1>2, <2>1 DEF Order, EffectsAgree
    <2>4. term'.run = e.run => ~term'.pythonRun
        BY <1>1, <1>2, <1>5, <2>1 DEF Order, EffectsAgree
    <2>5. ScriptAlone(b, n)'
        BY <1>4, <1>5, <1>9, <2>2, <2>3, <2>4 DEF ScriptAlone
    <2>6. Holds(n.run, n.sock)
        BY <1>1, <1>2, <1>4, <2>1 DEF StartsAwaited
    <2>7. Holds(n.run, n.sock)'
        BY <1>2, <1>4, <1>7, <2>6
    <2>8. ScriptHeld(b, n)'
        BY <2>7 DEF ScriptHeld
    <2>9. ScriptGivenUp(b, n)'
        BY <1>4, <1>5, <1>9, <2>2 DEF ScriptGivenUp
    <2> QED
        BY <2>5, <2>8, <2>9 DEF ScriptOK
<1>10. ASSUME NEW t \in host[b].tasks, t.kind = "script", t.live, t.sock \in open
       PROVE  ScriptOK(b, t)'
    <2>1. ScriptOK(b, t)
        BY <1>1, <1>10 DEF ScriptsHeld, ScriptOK
    <2>2. t.run = e.run => t.sock = z /\ ~IsStart(e) /\ ~e.python /\ ~Over(t.run, t.sock)
        BY <1>1, <1>2, <1>8, <2>1 DEF Order, OneTarget, ScriptOK, ScriptAlone, Over
    <2>3. ScriptAlone(b, t)'
        <3>1. \A u \in g.tasks : u.run = t.run =>
                 u.kind = "eof" \/ \E v \in host[b].tasks : Same(u, v)
            BY <1>4, <2>2 DEF Starts, IsStart, Same
        <3> QED
            BY <1>1, <1>3, <2>1, <3>1, ScriptStaysAlone DEF ScriptOK
    <2>4. t.run = e.run => Holds(t.run, t.sock)
        BY <1>4, <2>1, <2>2 DEF ScriptOK, ScriptGivenUp
    <2>5. ScriptHeld(b, t)'
        BY <1>3, <1>4, <1>5, <1>7, <2>4 DEF ScriptHeld
    <2>6. ScriptGivenUp(b, t)'
        <3>1. CASE t.run # e.run
            <4>1. t.sock = sock[b] => Over(t.run, t.sock)'
                BY <1>5, <3>1, ScriptPassed
            <4> QED
                BY <1>5, <4>1 DEF ScriptGivenUp
        <3>2. CASE t.run = e.run
            <4>1. ~QuietRepl(host[b])
                BY <1>4, <2>2, <3>2
            <4>2. \A u \in host[b].tasks : u.kind = "eof" /\ u.run = t.run => u.runtime = "current"
                BY <2>1, <2>2, <3>2, <4>1 DEF ScriptOK, ScriptGivenUp
            <4>3. \A u \in g.tasks : u.kind = "eof" /\ u.run = t.run => u.runtime = "current"
                BY <1>4, <2>2, <3>2, <4>2
            <4> QED
                BY <1>4, <1>5, <3>2, <4>3 DEF ScriptGivenUp
        <3> QED
            BY <3>1, <3>2
    <2> QED
        BY <2>3, <2>5, <2>6 DEF ScriptOK
<1>11. \A u \in g.tasks : \/ \E v \in host[b].tasks : Stays(u, v)
                          \/ u.sock = sock[b] /\ Arriving(b, u.run)
    BY <1>4 DEF Stays, Arriving
<1>12. \A t \in g.tasks : t.kind = "script" /\ t.live /\ t.sock \in open => ScriptOK(b, t)'
    BY <1>4, <1>9, <1>10
<1> QED
    BY <1>11, <1>12, FilesStep

\* An effect arrives.
LEMMA ReceivesFiles ==
    ASSUME FilesInv, Shared', NEW b \in Browser, NEW e, Arrives(b, e), Receives(b, e)
    PROVE  FilesInv'
<1>1. PICK g, m :
         /\ Moves(b, g) /\ MaySend(b, m)
         /\ \/ \E n : Begins(b, e, g, n) /\ ~IsReport(m)
            \/ Evolves(host[b], g) /\ Heeds(b, e, g, m)
    BY DEF Receives
<1>2. CASE \E n : Begins(b, e, g, n) /\ ~IsReport(m)
    BY <1>1, <1>2, BeginsFiles
<1>3. CASE Evolves(host[b], g) /\ Heeds(b, e, g, m)
    <2>1. Shared /\ Order /\ HostTypes /\ Passes
        BY PassesDown DEF FilesInv, Shared
    <2>2. 1 \in DOMAIN down[sock[b]] /\ e = down[sock[b]][1] /\ sock[b] \in Socket
        BY <2>1, ArrivesFields DEF Arrives
    <2>3. \A u \in g.tasks : \E v \in host[b].tasks : Stays(u, v) /\ v.kind = u.kind
        BY <1>3 DEF Evolves, From, Same, Stays
    <2>4. g.exec \in {None, host[b].exec} /\ (IsReport(m) => m.run = e.run)
        BY <1>3 DEF Heeds
    <2>5. ASSUME NEW t \in g.tasks, t.kind = "script", t.live, t.sock \in open
          PROVE  ScriptOK(b, t)'
        <3>1. ScriptOK(b, t) /\ t.run # None
            BY <1>3, <2>5, ScriptSource
        <3>2. CASE t.run # e.run \/ ~IsReport(m)
            BY <1>1, <1>3, <2>1, <2>4, <2>5, <3>2, ScriptGoesOn
        <3>3. CASE t.run = e.run /\ IsReport(m)
            <4>1. t.sock = sock[b]
                BY <2>1, <2>2, <2>3, <3>3 DEF Stays, Order, OneTarget
            <4>2. ~e.python
                BY <2>2, <3>1, <3>3, <4>1 DEF ScriptOK, ScriptAlone
            <4>3. g.exec = None /\ QuietRepl(g)
                BY <1>3, <3>3, <4>2 DEF Heeds
            <4> QED
                BY <1>1, <1>3, <2>1, <2>4, <2>5, <3>1, <4>3, ScriptReported
        <3> QED
            BY <3>2, <3>3
    <2>6. IsReport(m) => Arriving(b, m.run)
        BY <2>4 DEF Arriving
    <2> QED
        BY <1>1, <2>3, <2>5, <2>6, FilesStep
<1> QED
    BY <1>1, <1>2, <1>3
-----------------------------------------------------------------------------
\* The steps of users, of the server and of connections.
LEMMA ActsFiles ==
    ASSUME FilesInv, Shared', NEW b \in Browser, Acts(b), used' = used
    PROVE  FilesInv'
<1>1. PICK a \in UserActions : up' = [up EXCEPT ![sock[b]] = Append(@, a)]
    BY DEF Acts
<1>2. ~IsReport(a)
    BY <1>1 DEF UserActions, IsReport
<1>3. up \in [Socket -> Seq(HostAction)]
    BY DEF FilesInv, Shared, HostTypes
<1>4. ASSUME NEW z \in Socket, NEW r, Reported(r, z)'
      PROVE  Reported(r, z)
    <2>1. PICK i \in DOMAIN up'[z] : IsReport(up'[z][i]) /\ up'[z][i].run = r
        BY <1>4 DEF Reported, IsReport
    <2>2. i \in DOMAIN up[z] /\ up'[z][i] = up[z][i]
        <3>1. CASE up'[z] = up[z]
            BY <3>1
        <3>2. CASE up'[z] # up[z]
            <4>1. up'[z] = Append(up[z], a) /\ up[z] \in Seq(HostAction)
                BY <1>1, <1>3, <3>2
            <4>2. i # Len(up[z]) + 1
                <5> SUFFICES ASSUME i = Len(up[z]) + 1 PROVE FALSE
                    OBVIOUS
                <5>1. up'[z][i] = a
                    BY <4>1
                <5> QED
                    BY <1>2, <2>1, <5>1
            <4> QED
                BY <4>1, <4>2
        <3> QED
            BY <3>1, <3>2
    <2> QED
        BY <2>1, <2>2 DEF Reported
<1>5. UNCHANGED <<term, host, down, sock, open>>
    BY DEF Acts, vars
<1> QED
    BY <1>4, <1>5, FilesRest

\* A browser connects, or notices that its connection is gone.
LEMMA ConnectionFiles ==
    ASSUME FilesInv, Shared', NEW b \in Browser, Connects(b) \/ Loses(b)
    PROVE  FilesInv'
<1>1. HostTypes /\ SocketsApart
    BY DEF FilesInv, Shared
<1>2. UNCHANGED <<term, host, down, up>>
    BY DEF Connects, Loses, Connect, vars
<1>3. \A z \in Socket : \A r : Reported(r, z)' => Reported(r, z)
    BY <1>2 DEF Reported, IsReport
<1>4. CASE Loses(b)
    <2>1. sock' = [sock EXCEPT ![b] = None] /\ open' = open /\ None \notin used
        BY <1>1, <1>4, TerminalAssumption DEF Loses, vars, HostTypes
    <2>2. \A c \in Browser : sock'[c] \in used => sock'[c] = sock[c]
        BY <1>1, <2>1 DEF HostTypes
    <2> QED
        BY <1>2, <1>3, <2>1, <2>2, FilesRest
<1>5. CASE Connects(b)
    <2> DEFINE s == CHOOSE z \in Socket \ used : TRUE
    <2>1. s \in Socket \ used
        BY <1>1, <1>5 DEF Connects, HostTypes
    <2>2. sock' = [sock EXCEPT ![b] = s] /\ open' = open \cup {s}
        BY <1>5 DEF Connects, Connect
    <2> HIDE DEF s
    <2>3. \A c \in Browser : sock'[c] \in used => sock'[c] = sock[c]
        BY <1>1, <2>1, <2>2 DEF HostTypes
    <2>4. \A z \in used : z \in open' => z \in open
        BY <2>1, <2>2
    <2> QED
        BY <1>2, <1>3, <2>3, <2>4, FilesRest
<1> QED
    BY <1>4, <1>5

\* A socket is dropped: its run is over, and with the last socket the machine.
LEMMA DropsFiles ==
    ASSUME FilesInv, Shared', NEW s \in Socket, Drops(s)
    PROVE  FilesInv'
<1>1. Shared /\ Order /\ StartsAwaited /\ ScriptsHeld /\ HostTypes /\ IInv
    BY DEF FilesInv, Shared
<1>2. /\ s \in open /\ Disconnect(s) /\ open' = open \ {s} /\ UNCHANGED <<host, sock>>
      /\ up' = [up EXCEPT ![s] = <<>>] /\ down' = [down EXCEPT ![s] = <<>>]
    BY DEF Drops, Disconnect
<1>3. \A z \in Socket : /\ up'[z] = IF z = s THEN <<>> ELSE up[z]
                        /\ down'[z] = IF z = s THEN <<>> ELSE down[z]
    BY <1>1, <1>2 DEF HostTypes
<1>4. \A z \in Socket : \A r : Reported(r, z)' => Reported(r, z)
    BY <1>3 DEF Reported, IsReport
<1>5. /\ \A b \in Browser : \A t \in host[b].tasks :
            t.run \in RunId /\ t.run # None /\ t.sock \in Socket
      /\ \A z \in Socket : \A i \in DOMAIN down[z] : down[z][i].run # None
    BY <1>1, KnownRuns, TerminalAssumption DEF Order
<1>6. CASE /\ term'.epoch = term.epoch + 1 /\ term'.nextRun = 1 /\ term'.run = None
           /\ open' = {}
    <2>1. Order'
        BY <1>1, <1>2, <1>6, OrderResets
    <2>2. \A z \in Socket : down'[z] = <<>>
        BY <1>6 DEF Shared, SocketsApart
    <2>3. StartsAwaited' /\ ScriptsHeld'
        BY <1>6, <2>2 DEF StartsAwaited, ScriptsHeld
    <2> QED
        BY <2>1, <2>3 DEF FilesInv
<1>7. CASE /\ term'.epoch = term.epoch /\ term'.nextRun = term.nextRun
           /\ term'.run \in {None, term.run}
           /\ term'.run # None =>
                 /\ term'.host = term.host /\ term'.pythonRun = term.pythonRun
                 /\ term'.host # s
           /\ term.host # s => term'.run = term.run
    <2>1. \A z \in Socket : Shortened(z)
        <3> SUFFICES ASSUME NEW z \in Socket PROVE Shortened(z)
            OBVIOUS
        <3>1. down[z] \in Seq(HostEffect)
            BY <1>1 DEF HostTypes
        <3>2. \A i \in DOMAIN down'[z] : i + 0 \in DOMAIN down[z] /\ down'[z][i] = down[z][i + 0]
            BY <1>3, <3>1
        <3> QED
            BY <3>2 DEF Shortened
    <2>2. \A z \in Socket : \A r \in RunId : Reported(r, z)' => Numbered(r)
        BY <1>1, <1>4 DEF Order, RunsKnown
    <2>3. \A b \in Browser : \A u \in host'[b].tasks : \E v \in host[b].tasks : Stays(u, v)
        BY <1>2 DEF Stays
    <2>4. Order'
        BY <1>1, <1>2, <1>7, <2>1, <2>2, <2>3, OrderPasses
    <2>5. \A r, z : z \in Socket /\ z # s /\ r # None /\ Holds(r, z) => Holds(r, z)'
        BY <1>4, <1>7 DEF Holds
    <2>6. StartsAwaited'
        <3> SUFFICES ASSUME NEW z \in Socket, NEW i \in DOMAIN down'[z], NEW r,
                            r = down'[z][i].run, IsStart(down'[z][i]), ~down'[z][i].python
                     PROVE  Holds(r, z)'
            BY DEF StartsAwaited, Holds, Reported, IsStart, IsReport
        <3>1. z # s /\ down'[z] = down[z]
            BY <1>3
        <3>2. Holds(r, z) /\ r # None
            BY <1>1, <1>5, <3>1 DEF StartsAwaited
        <3> QED
            BY <2>5, <3>1, <3>2
    <2>7. ScriptsHeld'
        <3> SUFFICES ASSUME NEW b \in Browser, NEW t \in host'[b].tasks,
                            t.kind = "script", t.live, t.sock \in open'
                     PROVE  ScriptOK(b, t)'
            BY DEF ScriptsHeld, ScriptOK
        <3>1. /\ t \in host[b].tasks /\ t.sock \in open /\ t.sock # s /\ t.sock \in Socket
              /\ t.run # None /\ ScriptOK(b, t)
            BY <1>1, <1>2, <1>5 DEF ScriptsHeld, ScriptOK
        <3>2. down'[t.sock] = down[t.sock]
            BY <1>3, <3>1
        <3>3. /\ Holds(t.run, t.sock) => Holds(t.run, t.sock)'
              /\ Over(t.run, t.sock) => Over(t.run, t.sock)'
            BY <1>7, <2>5, <3>1, <3>2 DEF Over
        <3>4. ScriptAlone(b, t)'
            BY <1>2, <1>7, <3>1, <3>2 DEF ScriptOK, ScriptAlone
        <3>5. ScriptHeld(b, t)'
            BY <1>2, <3>1, <3>3 DEF ScriptOK, ScriptHeld
        <3>6. ScriptGivenUp(b, t)'
            BY <1>2, <3>1, <3>3 DEF ScriptOK, ScriptGivenUp, QuietRepl, Commands
        <3> QED
            BY <3>4, <3>5, <3>6 DEF ScriptOK
    <2> QED
        BY <2>4, <2>6, <2>7 DEF FilesInv
<1> QED
    BY <1>1, <1>2, <1>6, <1>7, DisconnectFields

\* The server handles an action.
LEMMA HandlesFiles ==
    ASSUME FilesInv, Shared', NEW s \in Socket, Handles(s)
    PROVE  FilesInv'
<1>1. Order'
    BY HandlesFields, OrderAnswered DEF FilesInv
<1> QED
    BY <1>1, ScriptsAnswered DEF FilesInv

\* Every step keeps the invariant.
LEMMA NextKeepsFiles ==
    ASSUME FilesInv, [HostNext]_hostVars
    PROVE  FilesInv'
<1>1. Shared'
    BY NextKeepsShared DEF FilesInv
<1>2. ASSUME NEW b \in Browser, Goes(b) \/ Returns(b) \/ Asks(b) \/ TimesOut(b) \/ Dies(b)
      PROVE  FilesInv'
    <2>1. GoesOn(b) \/ \E v \in host[b].tasks : EndsHandler(b, v)
        BY <1>2, HandlerStep DEF FilesInv, Shared, HostTypes
    <2>2. down' = down
        BY <1>2 DEF Goes, Returns, Asks, TimesOut, Dies
    <2> QED
        BY <1>1, <2>1, <2>2, GoesOnFiles
<1>3. ASSUME NEW b \in Browser, Receive(b)
      PROVE  FilesInv'
    <2> DEFINE e == Head(down[sock[b]])
    <2>1. sock[b] \in Socket /\ e \in HostEffect /\ Arrives(b, e)
        BY <1>3 DEF FilesInv, Shared, HostTypes, Receive, Arrives
    <2>2. Receives(b, e)
        BY <1>3, <2>1, ReceiveStep DEF FilesInv, Shared, HostTypes
    <2> HIDE DEF e
    <2> QED
        BY <1>1, <2>1, <2>2, ReceivesFiles
<1>4. ASSUME NEW b \in Browser, Renders(b) PROVE FilesInv'
    BY <1>1, <1>4, RendersFiles
<1>5. ASSUME NEW b \in Browser, Acts(b), used' = used PROVE FilesInv'
    BY <1>1, <1>5, ActsFiles
<1>6. ASSUME NEW b \in Browser, Connects(b) \/ Loses(b) PROVE FilesInv'
    BY <1>1, <1>6, ConnectionFiles
<1>7. CASE UNCHANGED hostVars \/ \E b \in Browser : Risks(b) \/ Recovers(b)
    <2>1. UNCHANGED <<term, host, down, up, sock, open>>
        BY <1>7 DEF Risks, Recovers, hostVars, vars
    <2>2. \A z \in Socket : \A r : Reported(r, z)' => Reported(r, z)
        BY <2>1 DEF Reported, IsReport
    <2> QED
        BY <1>1, <2>1, <2>2, FilesRest
<1>8. ASSUME NEW s \in Socket, Drops(s) PROVE FilesInv'
    BY <1>1, <1>8, DropsFiles
<1>9. ASSUME NEW s \in Socket, Handles(s) PROVE FilesInv'
    BY <1>1, <1>9, HandlesFiles
<1> QED
    BY <1>2, <1>3, <1>4, <1>5, <1>6, <1>7, <1>8, <1>9 DEF HostNext

\* At first nothing runs.
LEMMA HostInitFiles == HostInit => FilesInv
<1> SUFFICES ASSUME HostInit PROVE FilesInv
    OBVIOUS
<1>1. Shared
    BY HostInitShared
<1>2. /\ term.run = None
      /\ \A z \in Socket : down[z] = <<>> /\ up[z] = <<>>
      /\ \A b \in Browser : host[b].tasks = {}
    BY DEF HostInit, Init, Machine, Idle
<1>3. Order
    BY <1>2 DEF Order, RunsKnown, OneTarget, InOrder, EffectsAgree, Reported
<1>4. StartsAwaited /\ ScriptsHeld
    BY <1>2 DEF StartsAwaited, ScriptsHeld
<1> QED
    BY <1>1, <1>3, <1>4 DEF FilesInv

\* A script writes its files (applyTerminalWorkspaceDelta in CodeWorkspace.tsx) before its
\* run ends at the server, unless the server has lost its host: each run is known, is about
\* one socket and reaches it in order, and a script that its browser still executes has not
\* been reported.
THEOREM NoFilesOfAnotherRun == HostSpec => FilesBelongToTheRun
<1>1. HostInit => FilesInv
    BY HostInitFiles
<1>2. FilesInv /\ [HostNext]_hostVars => FilesInv'
    BY NextKeepsFiles
<1>3. FilesInv /\ [HostNext]_hostVars => FilesOfActiveRun
    <2> SUFFICES ASSUME FilesInv, [HostNext]_hostVars,
                        NEW b \in Browser, NEW t \in host[b].tasks,
                        Writes(b, t), t.kind = "script", t.sock \in open
                 PROVE  term.run = t.run
        BY DEF FilesOfActiveRun
    <2>1. t.live /\ host[b].exec = t.run
        BY WriterIsActive DEF IsActive, FilesInv
    <2> QED
        BY <2>1 DEF FilesInv, ScriptsHeld, ScriptHeld, Holds
<1>4. FilesInv /\ [HostNext]_hostVars => [FilesOfActiveRun]_hostVars
    BY <1>3
<1> QED
    BY <1>1, <1>2, <1>4, PTL DEF HostSpec, FilesBelongToTheRun

-----------------------------------------------------------------------------
\* A step of the browsers and connections is a step of the machine, or leaves it alone.
LEMMA MachineStep ==
    ASSUME Shared, [HostNext]_hostVars
    PROVE  /\ ChangeIsPublished /\ RunHandedOver /\ RejectionIsQuiet
           /\ term.run # None => term'.run \in {None, term.run}
<1> DEFINE Goal == /\ ChangeIsPublished /\ RunHandedOver /\ RejectionIsQuiet
                   /\ term.run # None => term'.run \in {None, term.run}
<1>1. IInv
    BY DEF Shared
<1>2. CASE UNCHANGED vars
    <2>1. term' = term
        BY <1>2 DEF vars
    <2> QED
        BY <1>1, <1>2, <2>1, StutterOK DEF RejectionIsQuiet
<1>3. ASSUME NEW s \in Socket, Handles(s)
      PROVE  Goal
    <2>1. GoodStep /\ RunStep(s, Head(up[s]))
        BY <1>3, HandlesStep
    <2> QED
        BY <2>1 DEF GoodStep, RunStep, KeepsRun, EndsRun, StartsRun
<1>4. ASSUME NEW s \in Socket, Drops(s)
      PROVE  Goal
    <2>1. Disconnect(s)
        BY <1>4 DEF Drops
    <2> QED
        BY <1>1, <2>1, DisconnectOK, DisconnectFields DEF StepOK
<1>5. ASSUME NEW b \in Browser, Connects(b)
      PROVE  Goal
    <2>1. PICK s \in Socket : Connect(s)
        <3>1. Socket \ used # {}
            BY <1>5 DEF Connects, Shared, HostTypes
        <3> QED
            BY <1>5, <3>1 DEF Connects
    <2>2. term' = term
        BY <2>1 DEF Connect
    <2> QED
        BY <1>1, <2>1, <2>2, ConnectOK DEF StepOK
<1>6. \/ UNCHANGED vars
      \/ \E s \in Socket : Handles(s) \/ Drops(s)
      \/ \E b \in Browser : Connects(b)
    <2>1. ASSUME NEW b \in Browser,
                 \/ Goes(b) \/ Returns(b) \/ Asks(b) \/ TimesOut(b) \/ Dies(b)
                 \/ Receive(b) \/ Renders(b)
          PROVE  UNCHANGED vars
        <3>1. Sound(host[b]) /\ faulty \subseteq Faults
            BY DEF Shared, HostTypes
        <3>2. CASE Goes(b) \/ Returns(b) \/ Asks(b) \/ TimesOut(b) \/ Dies(b)
            BY <3>1, <3>2, HandlerStep DEF GoesOn, EndsHandler, Moves
        <3>3. CASE Receive(b)
            <4> DEFINE e == Head(down[sock[b]])
            <4>1. sock[b] \in Socket /\ e \in HostEffect
                BY <3>3 DEF Shared, HostTypes, Receive
            <4>2. Receives(b, e)
                BY <3>1, <3>3, <4>1, ReceiveStep
            <4> HIDE DEF e
            <4> QED
                BY <4>2 DEF Receives, Moves
        <3>4. CASE Renders(b)
            BY <3>4 DEF Renders
        <3> QED
            BY <2>1, <3>2, <3>3, <3>4
    <2>2. ASSUME NEW b \in Browser, Loses(b) \/ Risks(b) \/ Recovers(b) \/ Acts(b)
          PROVE  UNCHANGED vars
        BY <2>2 DEF Loses, Risks, Recovers, Acts
    <2> QED
        BY <2>1, <2>2 DEF HostNext, hostVars
<1> QED
    BY <1>2, <1>3, <1>4, <1>5, <1>6

\* Among browsers that execute, lose their connection and report late, the machine
\* keeps what it promises alone (stateMachine.ts): types, coherent modes, leases of
\* connected sockets, fresh run ids; changes are published, a run keeps its host, and a
\* rejection changes nothing.
THEOREM MachineAmongHosts ==
    HostSpec => /\ [](TypeOK /\ ModeCoherent /\ LeasesConnected /\ RunsAreFresh)
                /\ ChangesArePublished
                /\ RunsStayWithTheirHost
                /\ RejectionChangesNothing
<1>1. Shared => TypeOK /\ ModeCoherent /\ LeasesConnected /\ RunsAreFresh
    BY DEF Shared, IInv
<1>2. Shared /\ [HostNext]_hostVars => [ChangeIsPublished]_vars
    BY MachineStep
<1>3. Shared /\ [HostNext]_hostVars => [RunHandedOver]_vars
    BY MachineStep
<1>4. Shared /\ [HostNext]_hostVars => [result'.ack = "rejected" => term' = term]_vars
    BY MachineStep DEF RejectionIsQuiet
<1> QED
    BY <1>1, <1>2, <1>3, <1>4, HostInvariant, PTL
       DEF HostSpec, ChangesArePublished, RunsStayWithTheirHost, RejectionChangesNothing

\* Between two runs the terminal is free, whoever starts the second: so StopEndsRun,
\* which asks that it becomes free, says that the stopped run ends.
RunsApart == term.run # None => term'.run \in {None, term.run}
THEOREM RunsAreApart == HostSpec => [][RunsApart]_hostVars
<1>1. Shared /\ [HostNext]_hostVars => [RunsApart]_hostVars
    BY MachineStep DEF RunsApart
<1> QED
    BY <1>1, HostInvariant, PTL DEF HostSpec
====
