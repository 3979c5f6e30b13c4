--------------------------- MODULE TerminalMachine ---------------------------
(***************************************************************************)
(* The shared terminal of one Code workspace on the server: the state      *)
(* machine of code/terminal/stateMachine.ts and the sockets that           *)
(* server/code-sync/terminalTransport.ts connects to it.  One input lease, *)
(* one browser that executes, one active run.  The machine lives as long   *)
(* as a socket is connected; a later one starts from scratch.              *)
(*                                                                         *)
(* A callback of the server runs to completion, so a dispatched action is  *)
(* one step.  The transcript, the prompt, the cursor and the texts of      *)
(* errors are left out; an input line is one of a few kinds.  A run id is  *)
(* unique, so it is the machine's epoch and a count; a fingerprint is      *)
(* collision-free, so it is the action.                                    *)
(***************************************************************************)
EXTENDS Naturals, Sequences, SequencesExt

CONSTANTS
    Socket,         \* sockets, each connected once
    ActionId,       \* ids clients give their actions
    Test,           \* test cases a run may be for
    None,           \* no socket, no run, no test, no effect
    MaxRemembered,  \* maxRememberedActions
    MaxSeq,         \* bound on the changes of one machine
    MaxEpoch,       \* bound on the machines created one after the other
    MaxRun          \* bound on the runs of one machine

Line == {"blank", "clear", "command"}
Mode == {"shell", "busy", "python", "program-input"}
RunId == [epoch : 1 .. MaxEpoch, count : 1 .. MaxRun]

Action ==
    [id : ActionId, type : {"sync", "claim", "release", "interrupt", "eof"}]
        \cup [id : ActionId, type : {"edit-input", "submit-line"}, line : Line]
        \cup [id : ActionId, type : {"start-run"}, test : Test \cup {None}]
        \cup [id : ActionId, type : {"host-output", "host-input-request", "host-failed"},
              run : RunId]
        \cup [id : ActionId, type : {"host-ready"}, run : RunId,
              mode : {"shell", "python"}, test : Test \cup {None}]

Effect ==
    [type : {"execute-line", "start-run", "interrupt", "eof", "submit-input"},
     target : Socket, run : RunId]

ASSUME TerminalAssumption ==
    /\ None \notin Socket \cup Test
    /\ None \notin RunId
    /\ None \notin Effect
    /\ MaxRemembered \in Nat \ {0}
    /\ MaxSeq \in Nat /\ MaxEpoch \in Nat \ {0} /\ MaxRun \in Nat

VARIABLES
    open,        \* connected sockets
    term,        \* InternalState, and the epoch and run count behind createRunId
    remembered,  \* remembered and rememberedQueue
    result       \* what the last callback made the transport emit

vars == <<open, term, remembered, result>>

\* A new machine.
Machine(epoch) ==
    [epoch      |-> epoch,
     nextRun    |-> 1,
     generation |-> 1,
     seq        |-> 0,
     mode       |-> "shell",
     input      |-> "blank",
     owner      |-> None,
     host       |-> None,
     run        |-> None,
     runTest    |-> None,
     request    |-> FALSE,
     lastTest   |-> None,
     pythonRun  |-> FALSE]

Emitted(ack, publish, effect) == [ack |-> ack, publish |-> publish, effect |-> effect]
Silence == Emitted("none", "none", None)

Init ==
    /\ open = {}
    /\ term = Machine(1)
    /\ remembered = <<>>
    /\ result = Silence

-----------------------------------------------------------------------------
\* packageResult: a change takes the next sequence number and is published, as a
\* snapshot when it opens a generation.
Changed(next, effect) ==
    /\ term' = [next EXCEPT !.seq = @ + 1]
    /\ result' = Emitted("applied",
                         IF next.generation = term.generation THEN "delta" ELSE "snapshot",
                         effect)
Unchanged ==
    /\ term' = term
    /\ result' = Emitted("unchanged", "none", None)
Refused ==
    /\ term' = term
    /\ result' = Emitted("rejected", "none", None)
\* A rejected action that changes the state all the same.
Repaired(next) ==
    /\ term' = [next EXCEPT !.seq = @ + 1]
    /\ result' = Emitted("rejected", "delta", None)

InputCleared(m) == [m EXCEPT !.input = "blank", !.owner = None]
\* Fault: the ended run is still the active one.
ToShellKeepingRun(m) ==
    [InputCleared(m) EXCEPT !.mode = "shell", !.host = None, !.runTest = None,
                            !.pythonRun = FALSE, !.request = FALSE]

ToShell(m) ==
    [InputCleared(m) EXCEPT !.mode = "shell", !.host = None, !.run = None,
                            !.runTest = None, !.pythonRun = FALSE, !.request = FALSE]
NextRunId == [epoch |-> term.epoch, count |-> term.nextRun]
\* Fault: createRunId does not count.
RunningSameId(m, host, test, python) ==
    [m EXCEPT !.mode = "busy", !.host = host, !.run = NextRunId, !.runTest = test,
              !.pythonRun = python, !.request = FALSE]

\* A run starts on host: createRunId and the assignments that follow it.
Running(m, host, test, python) ==
    [m EXCEPT !.mode = "busy", !.host = host, !.run = NextRunId, !.runTest = test,
              !.pythonRun = python, !.request = FALSE, !.nextRun = @ + 1]
EffectOn(type, m) == [type |-> type, target |-> m.host, run |-> m.run]

\* The lease is free or the socket's own.
MayType(s) == term.mode # "busy" /\ term.owner \in {None, s}
IsCurrentHost(s, r) == term.host = s /\ term.run = r /\ r # None

-----------------------------------------------------------------------------
Claim(s) ==
    \/ ~MayType(s) /\ Refused
    \/ MayType(s) /\ term.owner = s /\ Unchanged
    \/ MayType(s) /\ term.owner = None /\ Changed([term EXCEPT !.owner = s], None)

\* Fault: the release is not reported as a change.
ReleaseSilently(s) ==
    /\ term' = IF term.owner = s THEN [term EXCEPT !.owner = None] ELSE term
    /\ result' = Emitted("unchanged", "none", None)

Release(s) ==
    \/ term.owner # s /\ Unchanged
    \/ term.owner = s /\ Changed([term EXCEPT !.owner = None], None)

EditInput(s, line) ==
    LET edited == [term EXCEPT !.owner = s, !.input = line]
    IN  \/ ~MayType(s) /\ Refused
        \/ MayType(s) /\ edited = term /\ Unchanged
        \/ MayType(s) /\ edited # term /\ Changed(edited, None)

\* clear and cls: the only change that opens a generation.
ClearScreen ==
    Changed(InputCleared([term EXCEPT !.generation = @ + 1]), None)

AnswerInput ==
    LET resumed == [InputCleared(term) EXCEPT !.mode = "busy", !.request = FALSE]
    IN  \/ /\ None \notin {term.host, term.run} /\ term.request
           /\ Changed(resumed, EffectOn("submit-input", resumed))
        \/ /\ None \in {term.host, term.run} \/ ~term.request
           /\ Repaired(ToShell(term))

ExecuteLine(host, python) ==
    LET started == Running(InputCleared(term), host, None, python)
    IN  \/ host # None /\ Changed(started, EffectOn("execute-line", started))
        \/ host = None /\ Repaired(ToShell(term))

SubmitLine(s, line) ==
    \/ ~MayType(s) /\ Refused
    \/ /\ MayType(s) /\ term.mode = "shell"
       /\ \/ line = "clear" /\ ClearScreen
          \/ line = "blank" /\ Changed(InputCleared(term), None)
          \/ line = "command" /\ ExecuteLine(s, FALSE)
    \/ MayType(s) /\ term.mode = "program-input" /\ AnswerInput
    \/ MayType(s) /\ term.mode = "python" /\ ExecuteLine(term.host, TRUE)

StartRun(s, test) ==
    LET started == [Running(InputCleared(term), s, test, FALSE) EXCEPT !.lastTest = None]
        free    == term.mode = "shell" /\ term.owner \in {None, s}
    IN  \/ ~free /\ Refused
        \/ free /\ Changed(started, EffectOn("start-run", started))

\* Ctrl-C and Ctrl-D.  At the Python prompt they are runs of their own, and EOF
\* leaves the input line alone; a running command gets them as they are.
Signal(type) ==
    LET atPrompt == term.mode = "python" /\ term.host # None
        running  == term.mode \in {"busy", "program-input"} /\ None \notin {term.host, term.run}
        prompted == IF type = "interrupt" THEN InputCleared(term) ELSE term
        started  == [Running(prompted, term.host, None, TRUE)
                        EXCEPT !.request = IF type = "interrupt" THEN FALSE ELSE term.request]
        signaled == [InputCleared(term) EXCEPT !.mode = "busy", !.request = FALSE]
    IN  \/ atPrompt /\ Changed(started, EffectOn(type, started))
        \/ running /\ Changed(signaled, EffectOn(type, signaled))
        \/ ~atPrompt /\ ~running /\ Refused

HostOutput(s, r) ==
    \/ ~IsCurrentHost(s, r) /\ Refused
    \/ IsCurrentHost(s, r) /\ (Unchanged \/ Changed(term, None))

HostInputRequest(s, r) ==
    LET asked == [InputCleared(term) EXCEPT !.mode = "program-input", !.request = TRUE]
        fits  == IsCurrentHost(s, r) /\ term.mode = "busy"
    IN  \/ ~fits /\ Refused
        \/ fits /\ Changed(asked, None)

HostReady(s, r, mode, test) ==
    LET fits  == IsCurrentHost(s, r) /\ test \in {None, term.runTest}
        ready == [InputCleared(term) EXCEPT
                     !.lastTest = IF test = None THEN @ ELSE test,
                     !.run = None, !.runTest = None, !.pythonRun = FALSE,
                     !.request = FALSE, !.mode = mode,
                     !.host = IF mode = "python" THEN @ ELSE None]
    IN  \/ ~fits /\ Refused
        \/ fits /\ Changed(ready, None)

HostFailed(s, r) ==
    \/ ~IsCurrentHost(s, r) /\ Refused
    \/ IsCurrentHost(s, r) /\ Changed(ToShell(term), None)

Apply(s, a) ==
    \/ a.type = "claim" /\ Claim(s)
    \/ a.type = "release" /\ Release(s)
    \/ a.type = "edit-input" /\ EditInput(s, a.line)
    \/ a.type = "submit-line" /\ SubmitLine(s, a.line)
    \/ a.type = "start-run" /\ StartRun(s, a.test)
    \/ a.type \in {"interrupt", "eof"} /\ Signal(a.type)
    \/ a.type = "host-output" /\ HostOutput(s, a.run)
    \/ a.type = "host-input-request" /\ HostInputRequest(s, a.run)
    \/ a.type = "host-ready" /\ HostReady(s, a.run, a.mode, a.test)
    \/ a.type = "host-failed" /\ HostFailed(s, a.run)

-----------------------------------------------------------------------------
Known(a) == \E i \in DOMAIN remembered : remembered[i].id = a.id
\* Fault: the oldest action is never forgotten.
RememberForever(a) == remembered' = Append(remembered, a)

Remember(a) ==
    remembered' = IF Len(remembered) < MaxRemembered THEN Append(remembered, a)
                  ELSE Append(Tail(remembered), a)

\* dispatch of a remembered id: an exact retry is a duplicate, anything else a
\* conflict; neither executes anything.
Retry(a) ==
    /\ Known(a)
    /\ \/ /\ a \in Range(remembered)
          /\ result' = Emitted("duplicate", IF a.type = "sync" THEN "own" ELSE "none", None)
       \/ /\ a \notin Range(remembered)
          /\ result' = Emitted("rejected", "none", None)
    /\ UNCHANGED <<term, remembered>>

Sync(a) ==
    /\ ~Known(a)
    /\ a.type = "sync"
    /\ Remember(a)
    /\ result' = Emitted("unchanged", "own", None)
    /\ UNCHANGED term

Perform(s, a) ==
    /\ ~Known(a)
    /\ term.seq < MaxSeq /\ term.nextRun <= MaxRun
    /\ Remember(a)
    /\ Apply(s, a)

\* consumeTerminalActionRate refuses a payload the socket has not sent in this
\* window: the action is answered, and neither performed nor remembered.
RateLimited(a) ==
    /\ result' = Emitted("rejected", "none", None)
    /\ UNCHANGED <<term, remembered>>

\* The handler of an action event, from a socket that is still connected.
Dispatch(s, a) ==
    /\ s \in open
    /\ Retry(a) \/ Sync(a) \/ Perform(s, a) \/ RateLimited(a)
    /\ UNCHANGED open

Connect(s) ==
    /\ s \notin open
    /\ open' = open \cup {s}
    /\ result' = Emitted("none", "own", None)
    /\ UNCHANGED <<term, remembered>>

\* Fault: only the input lease ends.
DepartedOwner(m, s) == IF m.owner = s THEN [m EXCEPT !.owner = None] ELSE m

\* Fault: the host and its run go, the mode stays.
DepartedHost(m, s) ==
    IF m.host = s THEN [DepartedOwner(m, s) EXCEPT !.host = None, !.run = None]
                  ELSE DepartedOwner(m, s)

\* Fault: the run goes over to whoever types.
DepartedHandsOver(m, s) ==
    IF m.host = s /\ m.owner \notin {None, s} THEN [m EXCEPT !.host = m.owner]
    ELSE IF m.host = s THEN ToShell(m) ELSE DepartedOwner(m, s)

\* SharedTerminalStateMachine.disconnect
Departed(m, s) ==
    LET unowned == IF m.owner = s THEN [m EXCEPT !.owner = None] ELSE m
    IN  IF m.host = s THEN ToShell(unowned) ELSE unowned

\* The leases of the socket end; with the last socket goes the machine.
Disconnect(s) ==
    /\ s \in open
    /\ open' = open \ {s}
    /\ LET departed == Departed(term, s)
       IN  IF open' = {}
           THEN /\ term.epoch < MaxEpoch
                /\ term' = Machine(term.epoch + 1)
                /\ remembered' = <<>>
                /\ result' = Silence
           ELSE /\ IF departed = term
                   THEN term' = term /\ result' = Silence
                   ELSE /\ term' = [departed EXCEPT !.seq = @ + 1]
                        /\ result' = Emitted("none", "delta", None)
                /\ UNCHANGED remembered

\* updateActor: the profile of a socket that holds a lease has changed.
UpdateActor(s) ==
    /\ s \in open
    /\ s \in {term.owner, term.host}
    /\ term.seq < MaxSeq
    /\ term' = [term EXCEPT !.seq = @ + 1]
    /\ result' = Emitted("none", "delta", None)
    /\ UNCHANGED <<open, remembered>>

Next ==
    \E s \in Socket :
        \/ Connect(s)
        \/ Disconnect(s)
        \/ UpdateActor(s)
        \/ \E a \in Action : Dispatch(s, a)

Spec == Init /\ [][Next]_vars

-----------------------------------------------------------------------------
\* The fields of the machine and the emissions of the transport keep their types,
\* and the memory of actions keeps its limit.
MachineState ==
    [epoch : 1 .. MaxEpoch, nextRun : Nat \ {0}, generation : Nat \ {0}, seq : Nat,
     mode : Mode, input : Line, owner : Socket \cup {None}, host : Socket \cup {None},
     run : RunId \cup {None}, runTest : Test \cup {None}, request : BOOLEAN,
     lastTest : Test \cup {None}, pythonRun : BOOLEAN]

Emission ==
    [ack : {"none", "applied", "unchanged", "duplicate", "rejected"},
     publish : {"none", "delta", "snapshot", "own"},
     effect : Effect \cup {None}]

TypeOK ==
    /\ open \subseteq Socket
    /\ term \in MachineState
    /\ remembered \in Seq(Action) /\ Len(remembered) <= MaxRemembered
    /\ result \in Emission

\* What a terminal shows fits together: a prompt of the shell has nobody
\* executing, a Python prompt has a host and no run, and a run has a host and
\* waits for input exactly when the terminal asks for it.
ModeCoherent ==
    /\ term.mode = "shell" => term.host = None
    /\ term.mode # "shell" => term.host # None
    /\ (term.mode \in {"busy", "program-input"}) <=> (term.run # None)
    /\ term.request <=> term.mode = "program-input"
    /\ term.runTest # None => term.run # None /\ ~term.pythonRun

\* Nobody who has left holds the input lease or the run, and an effect goes to a
\* connected host: a lease nobody can end would block the terminal for everyone.
LeasesConnected ==
    /\ {term.owner, term.host} \subseteq open \cup {None}
    /\ result.effect # None => result.effect.target \in open

\* A new run never gets the id of an earlier one of the machine, so a late report
\* of an earlier run is not taken for one of the active run.
RunsAreFresh ==
    term.run # None => term.run.epoch = term.epoch /\ term.run.count < term.nextRun

\* What a client sees of the machine, its position in the order apart.
Visible(m) ==
    <<m.mode, m.input, m.owner, m.host, m.run, m.runTest, m.request, m.lastTest>>

\* Every visible change takes the next sequence number and is published to the
\* room, as a snapshot exactly when it opens a generation, so a replica that
\* misses nothing stays equal.
ChangeIsPublished ==
    term'.epoch = term.epoch =>
        /\ Visible(term') # Visible(term) => term'.seq = term.seq + 1
        /\ term'.seq # term.seq =>
              result'.publish = IF term'.generation = term.generation THEN "delta"
                                                                      ELSE "snapshot"
ChangesArePublished == [][ChangeIsPublished]_vars

\* A run is given to its host by exactly one effect, under an id no run had, and
\* stays with that host to its end.
RunHandedOver ==
    /\ term'.run \notin {None, term.run} =>
          /\ term'.run.count >= term.nextRun
          /\ result'.effect # None
          /\ result'.effect.run = term'.run /\ result'.effect.target = term'.host
    /\ term'.run # None /\ term'.run = term.run => term'.host = term.host
RunsStayWithTheirHost == [][RunHandedOver]_vars

\* A rejected action changes nothing: the repairs of an inconsistent state are
\* never needed.
RejectionChangesNothing ==
    [][result'.ack = "rejected" => term' = term]_vars
=============================================================================
