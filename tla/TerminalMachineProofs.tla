------------------------ MODULE TerminalMachineProofs ------------------------
(***************************************************************************)
(* Proofs about TerminalMachine for any sockets, actions and limits.       *)
(*                                                                         *)
(* The inductive invariant IInv joins the four invariants: that no         *)
(* rejected action changes the machine needs ModeCoherent, and that runs   *)
(* stay with their host needs RunsAreFresh.  GoodStep says of one          *)
(* dispatched action all that the theorems need; there is one lemma for    *)
(* every kind of action.                                                   *)
(***************************************************************************)
EXTENDS TerminalMachine, TLAPS

IInv == TypeOK /\ ModeCoherent /\ LeasesConnected /\ RunsAreFresh

RejectionIsQuiet == result'.ack = "rejected" => term' = term

GoodStep ==
    /\ term' \in MachineState /\ result' \in Emission
    /\ ModeCoherent' /\ LeasesConnected' /\ RunsAreFresh'
    /\ ChangeIsPublished /\ RunHandedOver /\ RejectionIsQuiet

-----------------------------------------------------------------------------
\* A callback that leaves the machine alone and has no effect is a good step.
LEMMA QuietStep ==
    ASSUME IInv, open \subseteq open',
           term' = term, result' \in Emission, result'.effect = None
    PROVE  GoodStep
BY DEF IInv, TypeOK, ModeCoherent, LeasesConnected, RunsAreFresh, ChangeIsPublished,
       Visible, RunHandedOver, RejectionIsQuiet, GoodStep

LEMMA UnchangedStep ==
    ASSUME IInv, UNCHANGED open, Unchanged
    PROVE  GoodStep
<1>1. result' \in Emission /\ result'.effect = None
  BY DEF Unchanged, Emitted, Emission
<1> QED
  BY <1>1, QuietStep DEF Unchanged

LEMMA RefusedStep ==
    ASSUME IInv, UNCHANGED open, Refused
    PROVE  GoodStep
<1>1. result' \in Emission /\ result'.effect = None
  BY DEF Refused, Emitted, Emission
<1> QED
  BY <1>1, QuietStep DEF Refused

\* A numbered change without effect is a good step if what it leaves is coherent,
\* no lease went to a stranger, and no run started or changed hands.
LEMMA ChangedStep ==
    ASSUME IInv, UNCHANGED open, NEW next \in MachineState, Changed(next, None),
           next.epoch = term.epoch, next.seq = term.seq,
           next.nextRun = term.nextRun,
           next.run \in {None, term.run},
           next.run # None => next.host = term.host,
           {next.owner, next.host} \subseteq open \cup {None},
           next.mode = "shell" => next.host = None,
           next.mode # "shell" => next.host # None,
           next.mode \in {"busy", "program-input"} <=> next.run # None,
           next.request <=> next.mode = "program-input",
           next.runTest # None => next.run # None /\ ~next.pythonRun
    PROVE  GoodStep
<1>1. term' = [next EXCEPT !.seq = @ + 1]
  BY DEF Changed
<1>2. /\ result'.ack = "applied" /\ result'.effect = None
      /\ result'.publish = IF next.generation = term.generation THEN "delta"
                                                                ELSE "snapshot"
      /\ result' \in Emission
  BY DEF Changed, Emitted, Emission
<1>3. term' \in MachineState
  BY <1>1 DEF MachineState
<1>4. ModeCoherent' /\ LeasesConnected' /\ RunsAreFresh'
  BY <1>1, <1>2 DEF MachineState, ModeCoherent, LeasesConnected, RunsAreFresh, IInv
<1>5. ChangeIsPublished /\ RunHandedOver /\ RejectionIsQuiet
  BY <1>1, <1>2 DEF MachineState, ChangeIsPublished, RunHandedOver, RejectionIsQuiet, IInv,
     TypeOK
<1> QED
  BY <1>2, <1>3, <1>4, <1>5 DEF GoodStep

\* A change that hands its run, the old or a new one, to the host by an effect.
LEMMA EffectStep ==
    ASSUME IInv, UNCHANGED open, NEW next \in MachineState,
           NEW type \in {"execute-line", "start-run", "interrupt", "eof", "submit-input"},
           Changed(next, EffectOn(type, next)),
           next.epoch = term.epoch, next.seq = term.seq,
           next.run # None, next.mode = "busy", ~next.request,
           \/ next.run = term.run /\ next.host = term.host /\ next.nextRun = term.nextRun
           \/ next.run = NextRunId /\ next.nextRun = term.nextRun + 1,
           next.host \in open, next.owner \in open \cup {None},
           next.runTest # None => ~next.pythonRun
    PROVE  GoodStep
<1>1. term' = [next EXCEPT !.seq = @ + 1]
  BY DEF Changed
<1> DEFINE effect == EffectOn(type, next)
<1>2. /\ effect \in Effect /\ effect # None
      /\ effect.run = next.run /\ effect.target = next.host
  <2>1. next.host \in Socket /\ next.run \in RunId
    BY DEF IInv, TypeOK, MachineState
  <2> QED
    BY <2>1, TerminalAssumption DEF EffectOn, Effect
<1>3. /\ result'.ack = "applied" /\ result'.effect = effect
      /\ result'.publish = IF next.generation = term.generation THEN "delta"
                                                                ELSE "snapshot"
      /\ result' \in Emission
  BY <1>2 DEF Changed, Emitted, Emission
<1>4. term' \in MachineState
  BY <1>1 DEF MachineState
<1>5. NextRunId.count = term.nextRun /\ NextRunId.epoch = term.epoch
  BY DEF NextRunId
<1>6. None \notin open
  BY TerminalAssumption DEF IInv, TypeOK
<1>7. ModeCoherent' /\ LeasesConnected'
  BY <1>1, <1>2, <1>3, <1>6 DEF MachineState, ModeCoherent, LeasesConnected
<1>8. RunsAreFresh'
  BY <1>1, <1>5 DEF MachineState, RunsAreFresh, IInv, TypeOK
<1>9. ChangeIsPublished /\ RejectionIsQuiet
  BY <1>1, <1>3 DEF MachineState, ChangeIsPublished, RejectionIsQuiet, IInv, TypeOK
<1>10. RunHandedOver
  <2>1. term'.run = next.run /\ term'.host = next.host
    BY <1>1 DEF MachineState
  <2>2. term.nextRun \in Nat
    BY DEF IInv, TypeOK, MachineState
  <2>3. CASE next.run = term.run /\ next.host = term.host
    BY <2>1, <2>3 DEF RunHandedOver
  <2>4. CASE next.run = NextRunId
    <3>1. term.run # NextRunId
      BY <1>5, <2>2, <2>4 DEF IInv, RunsAreFresh, TypeOK, MachineState, RunId
    <3> QED
      BY <1>2, <1>3, <1>5, <2>1, <2>2, <2>4, <3>1 DEF RunHandedOver
  <2> QED
    BY <2>3, <2>4
<1> QED
  BY <1>3, <1>4, <1>7, <1>8, <1>9, <1>10 DEF GoodStep

-----------------------------------------------------------------------------
\* What the helpers return.
LEMMA InputClearedType ==
    ASSUME NEW m \in MachineState
    PROVE  /\ InputCleared(m) \in MachineState
           /\ InputCleared(m) = [m EXCEPT !.input = "blank", !.owner = None]
BY DEF InputCleared, MachineState, Line

LEMMA ToShellType ==
    ASSUME NEW m \in MachineState
    PROVE  /\ ToShell(m) \in MachineState
           /\ \A f \in {"epoch", "nextRun", "generation", "seq"} : ToShell(m)[f] = m[f]
           /\ ToShell(m).mode = "shell" /\ ToShell(m).host = None
           /\ ToShell(m).owner = None /\ ToShell(m).run = None
           /\ ToShell(m).runTest = None /\ ToShell(m).request = FALSE
BY DEF ToShell, InputCleared, MachineState, Mode, Line

\* A new id is in RunId within the bound of the runs.
LEMMA NextRunIdType ==
    ASSUME IInv, term.nextRun <= MaxRun
    PROVE  NextRunId \in RunId /\ NextRunId # None
<1>1. term.nextRun \in Nat \ {0} /\ term.epoch \in 1 .. MaxEpoch
  BY DEF IInv, TypeOK, MachineState
<1>2. term.nextRun \in 1 .. MaxRun
  BY <1>1, TerminalAssumption
<1>3. NextRunId \in RunId
  BY <1>1, <1>2 DEF NextRunId, RunId
<1> QED
  BY <1>3, TerminalAssumption

LEMMA RunningType ==
    ASSUME IInv, term.nextRun <= MaxRun, NEW m \in MachineState,
           NEW host \in Socket, NEW test \in Test \cup {None}, NEW python \in BOOLEAN,
           NEW r,
           r = [m EXCEPT !.mode = "busy", !.host = host, !.run = NextRunId,
                         !.runTest = test, !.pythonRun = python, !.request = FALSE,
                         !.nextRun = @ + 1]
    PROVE  r \in MachineState
<1>1. NextRunId \in RunId
  BY NextRunIdType
<1>2. m.nextRun + 1 \in Nat \ {0} /\ "busy" \in Mode
  BY DEF MachineState, Mode
<1>3. \A k \in Nat \ {0} :
         [m EXCEPT !.mode = "busy", !.host = host, !.run = NextRunId, !.runTest = test,
                   !.pythonRun = python, !.request = FALSE, !.nextRun = k]
             \in MachineState
  BY <1>1, <1>2 DEF MachineState
<1> QED
  BY <1>2, <1>3

-----------------------------------------------------------------------------
\* Each kind of action is a good step.
LEMMA ClaimStep ==
    ASSUME IInv, UNCHANGED open, NEW s \in open, Claim(s)
    PROVE  GoodStep
<1> DEFINE next == [term EXCEPT !.owner = s]
<1>1. CASE Refused
  BY <1>1, RefusedStep
<1>2. CASE Unchanged
  BY <1>2, UnchangedStep
<1>3. CASE Changed(next, None)
  <2>1. next \in MachineState
    BY DEF IInv, TypeOK, MachineState
  <2> QED
    BY <1>3, <2>1, ChangedStep
       DEF IInv, TypeOK, MachineState, ModeCoherent, LeasesConnected
<1> QED
  BY <1>1, <1>2, <1>3 DEF Claim

LEMMA ReleaseStep ==
    ASSUME IInv, UNCHANGED open, NEW s \in open, Release(s)
    PROVE  GoodStep
<1> DEFINE next == [term EXCEPT !.owner = None]
<1>1. CASE Unchanged
  BY <1>1, UnchangedStep
<1>2. CASE Changed(next, None)
  <2>1. next \in MachineState
    BY DEF IInv, TypeOK, MachineState
  <2> QED
    BY <1>2, <2>1, ChangedStep
       DEF IInv, TypeOK, MachineState, ModeCoherent, LeasesConnected
<1> QED
  BY <1>1, <1>2 DEF Release

LEMMA EditInputStep ==
    ASSUME IInv, UNCHANGED open, NEW s \in open, NEW line \in Line, EditInput(s, line)
    PROVE  GoodStep
<1> DEFINE next == [term EXCEPT !.owner = s, !.input = line]
<1>1. CASE Refused
  BY <1>1, RefusedStep
<1>2. CASE Unchanged
  BY <1>2, UnchangedStep
<1>3. CASE Changed(next, None)
  <2>1. next \in MachineState
    BY DEF IInv, TypeOK, MachineState
  <2> QED
    BY <1>3, <2>1, ChangedStep
       DEF IInv, TypeOK, MachineState, ModeCoherent, LeasesConnected
<1> QED
  BY <1>1, <1>2, <1>3 DEF EditInput

LEMMA ClearScreenStep ==
    ASSUME IInv, UNCHANGED open, ClearScreen
    PROVE  GoodStep
<1> DEFINE opened == [term EXCEPT !.generation = @ + 1]
           next   == InputCleared(opened)
<1>1. opened \in MachineState
  BY DEF IInv, TypeOK, MachineState
<1>2. /\ next \in MachineState /\ next.owner = None
      /\ \A f \in DOMAIN term \ {"generation", "input", "owner"} : next[f] = term[f]
  BY <1>1, InputClearedType DEF IInv, TypeOK, MachineState
<1>3. Changed(next, None)
  BY DEF ClearScreen
<1> HIDE DEF next
<1> QED
  BY <1>2, <1>3, ChangedStep
     DEF IInv, TypeOK, MachineState, ModeCoherent, LeasesConnected

\* The repair of AnswerInput needs a state that ModeCoherent excludes.
LEMMA AnswerInputStep ==
    ASSUME IInv, UNCHANGED open, term.mode = "program-input", AnswerInput
    PROVE  GoodStep
<1> DEFINE cleared == InputCleared(term)
           next    == [cleared EXCEPT !.mode = "busy", !.request = FALSE]
<1>1. /\ cleared \in MachineState
      /\ cleared = [term EXCEPT !.input = "blank", !.owner = None]
  BY InputClearedType DEF IInv, TypeOK
<1>2. next \in MachineState
  BY <1>1 DEF MachineState, Mode
<1>3. Changed(next, EffectOn("submit-input", next))
  BY DEF AnswerInput, IInv, ModeCoherent
<1> QED
  BY <1>1, <1>2, <1>3, EffectStep
     DEF IInv, TypeOK, MachineState, ModeCoherent, LeasesConnected

\* So does the repair of ExecuteLine: a Python prompt has a host.
LEMMA ExecuteLineStep ==
    ASSUME IInv, UNCHANGED open, term.nextRun <= MaxRun,
           NEW host \in open, NEW python \in BOOLEAN, ExecuteLine(host, python)
    PROVE  GoodStep
<1> DEFINE cleared == InputCleared(term)
           next    == Running(cleared, host, None, python)
<1>1. cleared \in MachineState
  BY InputClearedType DEF IInv, TypeOK
<1>2. /\ cleared.epoch = term.epoch /\ cleared.seq = term.seq
      /\ cleared.nextRun = term.nextRun /\ cleared.owner = None
  BY DEF InputCleared, IInv, TypeOK, MachineState
<1>3. host \in Socket /\ host # None
  BY TerminalAssumption DEF IInv, TypeOK
<1>4. None \in Test \cup {None}
  OBVIOUS
<1>5. next = [cleared EXCEPT !.mode = "busy", !.host = host, !.run = NextRunId,
                             !.runTest = None, !.pythonRun = python, !.request = FALSE,
                             !.nextRun = @ + 1]
  BY DEF Running
<1>6. Changed(next, EffectOn("execute-line", next))
  BY <1>3 DEF ExecuteLine
<1> HIDE DEF cleared, next
<1>7. next \in MachineState
  BY <1>1, <1>3, <1>4, <1>5, RunningType
<1>8. /\ next.epoch = cleared.epoch /\ next.seq = cleared.seq
      /\ next.nextRun = cleared.nextRun + 1
      /\ next.run = NextRunId /\ next.host = host /\ next.owner = cleared.owner
      /\ next.mode = "busy" /\ ~next.request /\ next.runTest = None
  BY <1>1, <1>5 DEF MachineState
<1>9. NextRunId # None
  BY NextRunIdType
<1> QED
  BY <1>2, <1>6, <1>7, <1>8, <1>9, EffectStep

LEMMA SubmitLineStep ==
    ASSUME IInv, UNCHANGED open, term.nextRun <= MaxRun,
           NEW s \in open, NEW line \in Line, SubmitLine(s, line)
    PROVE  GoodStep
<1>1. CASE Refused
  BY <1>1, RefusedStep
<1>2. CASE ClearScreen
  BY <1>2, ClearScreenStep
<1>3. CASE Changed(InputCleared(term), None)
  <2> DEFINE next == InputCleared(term)
  <2>1. /\ next \in MachineState /\ next.owner = None
        /\ \A f \in DOMAIN term \ {"input", "owner"} : next[f] = term[f]
    <3>1. term \in MachineState
      BY DEF IInv, TypeOK
    <3>2. next \in MachineState /\ next = [term EXCEPT !.input = "blank", !.owner = None]
      BY <3>1, InputClearedType
    <3> HIDE DEF next
    <3> QED
      BY <3>1, <3>2 DEF MachineState
  <2>2. Changed(next, None)
    BY <1>3
  <2> HIDE DEF next
  <2> QED
    BY <2>1, <2>2, ChangedStep
       DEF IInv, TypeOK, MachineState, ModeCoherent, LeasesConnected
<1>4. CASE ExecuteLine(s, FALSE)
  BY <1>4, ExecuteLineStep
<1>5. CASE term.mode = "program-input" /\ AnswerInput
  BY <1>5, AnswerInputStep
<1>6. CASE term.mode = "python" /\ ExecuteLine(term.host, TRUE)
  <2>1. term.host \in open
    BY <1>6 DEF IInv, ModeCoherent, LeasesConnected
  <2> QED
    BY <1>6, <2>1, ExecuteLineStep
<1> QED
  BY <1>1, <1>2, <1>3, <1>4, <1>5, <1>6 DEF SubmitLine

LEMMA StartRunStep ==
    ASSUME IInv, UNCHANGED open, term.nextRun <= MaxRun,
           NEW s \in open, NEW test \in Test \cup {None}, StartRun(s, test)
    PROVE  GoodStep
<1> DEFINE cleared == InputCleared(term)
           running == Running(cleared, s, test, FALSE)
           next    == [running EXCEPT !.lastTest = None]
<1>1. CASE Refused
  BY <1>1, RefusedStep
<1>2. CASE Changed(next, EffectOn("start-run", next))
  <2>1. cleared \in MachineState
    BY InputClearedType DEF IInv, TypeOK
  <2>2. /\ cleared.epoch = term.epoch /\ cleared.seq = term.seq
        /\ cleared.nextRun = term.nextRun /\ cleared.owner = None
    BY DEF InputCleared, IInv, TypeOK, MachineState
  <2>3. s \in Socket
    BY DEF IInv, TypeOK
  <2>4. running = [cleared EXCEPT !.mode = "busy", !.host = s, !.run = NextRunId,
                                  !.runTest = test, !.pythonRun = FALSE,
                                  !.request = FALSE, !.nextRun = @ + 1]
    BY DEF Running
  <2> HIDE DEF cleared, running
  <2>5. FALSE \in BOOLEAN
    OBVIOUS
  <2>6. running \in MachineState
    BY <2>1, <2>3, <2>4, <2>5, RunningType
  <2>7. /\ running.epoch = cleared.epoch /\ running.seq = cleared.seq
        /\ running.nextRun = cleared.nextRun + 1
        /\ running.run = NextRunId /\ running.host = s /\ running.owner = cleared.owner
        /\ running.mode = "busy" /\ ~running.request /\ ~running.pythonRun
    BY <2>1, <2>4 DEF MachineState
  <2>8. /\ next \in MachineState
        /\ \A f \in DOMAIN running \ {"lastTest"} : next[f] = running[f]
    BY <2>6 DEF MachineState
  <2>9. NextRunId # None
    BY NextRunIdType
  <2> HIDE DEF next
  <2> QED
    BY <1>2, <2>2, <2>6, <2>7, <2>8, <2>9, EffectStep DEF MachineState
<1> QED
  BY <1>1, <1>2 DEF StartRun

\* At the prompt a signal starts a run for the same host; otherwise it goes to the
\* active run.
LEMMA SignalStep ==
    ASSUME IInv, UNCHANGED open, term.nextRun <= MaxRun,
           NEW type \in {"interrupt", "eof"}, Signal(type)
    PROVE  GoodStep
<1> DEFINE prompted == IF type = "interrupt" THEN InputCleared(term) ELSE term
           running  == Running(prompted, term.host, None, TRUE)
           request  == IF type = "interrupt" THEN FALSE ELSE term.request
           started  == [running EXCEPT !.request = request]
           cleared  == InputCleared(term)
           signaled == [cleared EXCEPT !.mode = "busy", !.request = FALSE]
<1>1. CASE Refused
  BY <1>1, RefusedStep
<1>2. CASE term.mode = "python" /\ term.host # None /\ Changed(started, EffectOn(type, started))
  <2>1. prompted \in MachineState
    BY InputClearedType DEF IInv, TypeOK
  <2>2. /\ prompted.epoch = term.epoch /\ prompted.seq = term.seq
        /\ prompted.nextRun = term.nextRun /\ prompted.owner \in {None, term.owner}
    BY DEF InputCleared, IInv, TypeOK, MachineState
  <2>3. term.host \in Socket /\ term.host \in open
    BY <1>2 DEF IInv, TypeOK, LeasesConnected
  <2>4. TRUE \in BOOLEAN /\ None \in Test \cup {None}
    OBVIOUS
  <2>5. running = [prompted EXCEPT !.mode = "busy", !.host = term.host, !.run = NextRunId,
                                   !.runTest = None, !.pythonRun = TRUE,
                                   !.request = FALSE, !.nextRun = @ + 1]
    BY DEF Running
  <2>6. request = FALSE
    BY <1>2 DEF IInv, TypeOK, MachineState, ModeCoherent
  <2> HIDE DEF prompted, running, request
  <2>7. running \in MachineState
    BY <2>1, <2>3, <2>4, <2>5, RunningType
  <2>8. /\ running.epoch = prompted.epoch /\ running.seq = prompted.seq
        /\ running.nextRun = prompted.nextRun + 1
        /\ running.run = NextRunId /\ running.host = term.host
        /\ running.owner = prompted.owner
        /\ running.mode = "busy" /\ running.runTest = None
    BY <2>1, <2>5 DEF MachineState
  <2>9. /\ started \in MachineState /\ ~started.request
        /\ \A f \in DOMAIN running \ {"request"} : started[f] = running[f]
    BY <2>6, <2>7 DEF MachineState
  <2>10. NextRunId # None
    BY NextRunIdType
  <2>11. Changed(started, EffectOn(type, started))
    BY <1>2
  <2>12. started.owner \in open \cup {None}
    BY <2>2, <2>7, <2>8, <2>9 DEF MachineState, IInv, LeasesConnected
  <2> HIDE DEF started
  <2> QED
    BY <2>2, <2>3, <2>7, <2>8, <2>9, <2>10, <2>11, <2>12, EffectStep DEF MachineState
<1>3. CASE /\ term.mode \in {"busy", "program-input"} /\ None \notin {term.host, term.run}
           /\ Changed(signaled, EffectOn(type, signaled))
  <2>1. cleared \in MachineState /\ cleared = [term EXCEPT !.input = "blank", !.owner = None]
    BY InputClearedType DEF IInv, TypeOK
  <2> HIDE DEF cleared
  <2>2. signaled \in MachineState
    BY <2>1 DEF MachineState, Mode
  <2>3. /\ signaled.mode = "busy" /\ ~signaled.request /\ signaled.owner = None
        /\ \A f \in DOMAIN term \ {"mode", "request", "input", "owner"} :
              signaled[f] = term[f]
    BY <2>1 DEF IInv, TypeOK, MachineState
  <2>4. Changed(signaled, EffectOn(type, signaled))
    BY <1>3
  <2>5. term.host \in open
    BY <1>3 DEF IInv, LeasesConnected
  <2> HIDE DEF signaled
  <2> QED
    BY <1>3, <2>2, <2>3, <2>4, <2>5, EffectStep
       DEF IInv, TypeOK, MachineState, ModeCoherent
<1> QED
  BY <1>1, <1>2, <1>3 DEF Signal

LEMMA HostOutputStep ==
    ASSUME IInv, UNCHANGED open, NEW s \in open, NEW r \in RunId, HostOutput(s, r)
    PROVE  GoodStep
<1>1. CASE Refused
  BY <1>1, RefusedStep
<1>2. CASE Unchanged
  BY <1>2, UnchangedStep
<1>3. CASE Changed(term, None)
  BY <1>3, ChangedStep DEF IInv, TypeOK, ModeCoherent, LeasesConnected
<1> QED
  BY <1>1, <1>2, <1>3 DEF HostOutput

LEMMA HostInputRequestStep ==
    ASSUME IInv, UNCHANGED open, NEW s \in open, NEW r \in RunId, HostInputRequest(s, r)
    PROVE  GoodStep
<1> DEFINE cleared == InputCleared(term)
           asked   == [cleared EXCEPT !.mode = "program-input", !.request = TRUE]
<1>1. CASE Refused
  BY <1>1, RefusedStep
<1>2. CASE term.mode = "busy" /\ Changed(asked, None)
  <2>1. cleared \in MachineState /\ cleared = [term EXCEPT !.input = "blank", !.owner = None]
    BY InputClearedType DEF IInv, TypeOK
  <2> HIDE DEF cleared
  <2>2. asked \in MachineState
    BY <2>1 DEF MachineState, Mode
  <2>3. /\ asked.mode = "program-input" /\ asked.request /\ asked.owner = None
        /\ \A f \in DOMAIN term \ {"mode", "request", "input", "owner"} :
              asked[f] = term[f]
    BY <2>1 DEF IInv, TypeOK, MachineState
  <2>4. Changed(asked, None)
    BY <1>2
  <2> HIDE DEF asked
  <2> QED
    BY <1>2, <2>2, <2>3, <2>4, ChangedStep
       DEF IInv, TypeOK, MachineState, ModeCoherent, LeasesConnected
<1> QED
  BY <1>1, <1>2 DEF HostInputRequest

LEMMA HostReadyStep ==
    ASSUME IInv, UNCHANGED open, NEW s \in open, NEW r \in RunId,
           NEW mode \in {"shell", "python"}, NEW test \in Test \cup {None},
           HostReady(s, r, mode, test)
    PROVE  GoodStep
<1> DEFINE cleared == InputCleared(term)
           ready   == [cleared EXCEPT
                         !.lastTest = IF test = None THEN @ ELSE test,
                         !.run = None, !.runTest = None, !.pythonRun = FALSE,
                         !.request = FALSE, !.mode = mode,
                         !.host = IF mode = "python" THEN @ ELSE None]
<1>1. CASE Refused
  BY <1>1, RefusedStep
<1>2. CASE IsCurrentHost(s, r) /\ Changed(ready, None)
  <2>1. cleared \in MachineState /\ cleared = [term EXCEPT !.input = "blank", !.owner = None]
    BY InputClearedType DEF IInv, TypeOK
  <2> HIDE DEF cleared
  <2>2. ready \in MachineState
    <3>1. mode \in Mode
      BY DEF Mode
    <3>2. \A t \in Test \cup {None}, h \in Socket \cup {None} :
             [cleared EXCEPT !.lastTest = t, !.run = None, !.runTest = None,
                             !.pythonRun = FALSE, !.request = FALSE, !.mode = mode,
                             !.host = h] \in MachineState
      BY <2>1, <3>1 DEF MachineState
    <3>3. /\ (IF test = None THEN cleared.lastTest ELSE test) \in Test \cup {None}
          /\ (IF mode = "python" THEN cleared.host ELSE None) \in Socket \cup {None}
      BY <2>1 DEF MachineState
    <3> QED
      BY <3>2, <3>3
  <2>3. /\ ready.mode = mode /\ ~ready.request /\ ready.owner = None
        /\ ready.run = None /\ ready.runTest = None
        /\ ready.host = IF mode = "python" THEN term.host ELSE None
        /\ ready.epoch = term.epoch /\ ready.nextRun = term.nextRun
        /\ ready.seq = term.seq
    BY <2>1 DEF IInv, TypeOK, MachineState
  <2>4. Changed(ready, None)
    BY <1>2
  <2>5. term.host # None /\ term.host \in open
    BY <1>2, TerminalAssumption DEF IsCurrentHost, IInv, TypeOK
  <2> HIDE DEF ready
  <2> QED
    BY <2>2, <2>3, <2>4, <2>5, ChangedStep
<1> QED
  BY <1>1, <1>2 DEF HostReady

LEMMA HostFailedStep ==
    ASSUME IInv, UNCHANGED open, NEW s \in open, NEW r \in RunId, HostFailed(s, r)
    PROVE  GoodStep
<1> DEFINE next == ToShell(term)
<1>1. CASE Refused
  BY <1>1, RefusedStep
<1>2. CASE Changed(next, None)
  <2>1. /\ next \in MachineState
        /\ next.epoch = term.epoch /\ next.nextRun = term.nextRun /\ next.seq = term.seq
        /\ next.mode = "shell" /\ next.host = None /\ next.owner = None
        /\ next.run = None /\ next.runTest = None /\ ~next.request
    <3>1. term \in MachineState
      BY DEF IInv, TypeOK
    <3>2. \A f \in {"epoch", "nextRun", "generation", "seq"} : next[f] = term[f]
      BY <3>1, ToShellType
    <3> QED
      BY <3>1, <3>2, ToShellType
  <2> HIDE DEF next
  <2> QED
    BY <1>2, <2>1, ChangedStep
<1> QED
  BY <1>1, <1>2 DEF HostFailed

-----------------------------------------------------------------------------
\* What an action of each type carries.
HasFields(a) ==
    /\ a.type \in {"edit-input", "submit-line"} => a.line \in Line
    /\ a.type = "start-run" => a.test \in Test \cup {None}
    /\ a.type \in {"host-output", "host-input-request", "host-failed", "host-ready"}
          => a.run \in RunId
    /\ a.type = "host-ready" => a.mode \in {"shell", "python"} /\ a.test \in Test \cup {None}

LEMMA ActionFields ==
    ASSUME NEW a \in Action
    PROVE  HasFields(a)
BY DEF Action, HasFields

\* The types of action that may start a run.
UserTypes == {"submit-line", "start-run", "interrupt", "eof"}

LEMMA ApplyStep ==
    ASSUME IInv, UNCHANGED open, NEW s \in open, NEW a, HasFields(a), Apply(s, a),
           a.type \in UserTypes => term.nextRun <= MaxRun
    PROVE  GoodStep
<1>1. CASE a.type = "claim" /\ Claim(s)
  BY <1>1, ClaimStep
<1>2. CASE a.type = "release" /\ Release(s)
  BY <1>2, ReleaseStep
<1>3. CASE a.type = "edit-input" /\ EditInput(s, a.line)
  BY <1>3, EditInputStep DEF HasFields
<1>4. CASE a.type = "submit-line" /\ SubmitLine(s, a.line)
  BY <1>4, SubmitLineStep DEF HasFields, UserTypes
<1>5. CASE a.type = "start-run" /\ StartRun(s, a.test)
  BY <1>5, StartRunStep DEF HasFields, UserTypes
<1>6. CASE a.type \in {"interrupt", "eof"} /\ Signal(a.type)
  BY <1>6, SignalStep DEF UserTypes
<1>7. CASE a.type = "host-output" /\ HostOutput(s, a.run)
  BY <1>7, HostOutputStep DEF HasFields
<1>8. CASE a.type = "host-input-request" /\ HostInputRequest(s, a.run)
  BY <1>8, HostInputRequestStep DEF HasFields
<1>9. CASE a.type = "host-ready" /\ HostReady(s, a.run, a.mode, a.test)
  BY <1>9, HostReadyStep DEF HasFields
<1>10. CASE a.type = "host-failed" /\ HostFailed(s, a.run)
  BY <1>10, HostFailedStep DEF HasFields
<1> QED
  BY <1>1, <1>2, <1>3, <1>4, <1>5, <1>6, <1>7, <1>8, <1>9, <1>10 DEF Apply

\* The memory keeps its limit: the oldest action makes room for a new one.
LEMMA RememberType ==
    ASSUME TypeOK, NEW a \in Action, Remember(a)
    PROVE  remembered' \in Seq(Action) /\ Len(remembered') <= MaxRemembered
<1>1. remembered \in Seq(Action) /\ Len(remembered) \in Nat
  BY DEF TypeOK
<1>2. MaxRemembered \in Nat \ {0}
  BY TerminalAssumption
<1>3. CASE Len(remembered) < MaxRemembered
  BY <1>1, <1>2, <1>3 DEF Remember
<1>4. CASE ~(Len(remembered) < MaxRemembered)
  <2>1. Len(remembered) = MaxRemembered /\ remembered # <<>>
    BY <1>1, <1>2, <1>4 DEF TypeOK
  <2>2. Tail(remembered) \in Seq(Action) /\ Len(Tail(remembered)) = MaxRemembered - 1
    BY <1>1, <1>2, <2>1
  <2> QED
    BY <1>2, <1>4, <2>2 DEF Remember
<1> QED
  BY <1>3, <1>4

-----------------------------------------------------------------------------
\* Every step keeps the invariant and has the action properties.
StepOK == IInv' /\ ChangeIsPublished /\ RunHandedOver /\ RejectionIsQuiet

LEMMA GoodStepKeeps ==
    ASSUME GoodStep, open' \subseteq Socket,
           remembered' \in Seq(Action), Len(remembered') <= MaxRemembered
    PROVE  StepOK
BY DEF GoodStep, StepOK, IInv, TypeOK

LEMMA DispatchOK ==
    ASSUME IInv, NEW s \in Socket, NEW a \in Action, Dispatch(s, a)
    PROVE  StepOK
<1>1. s \in open /\ UNCHANGED open /\ open' \subseteq Socket
  BY DEF Dispatch, IInv, TypeOK
<1>2. CASE UNCHANGED <<term, remembered>> /\ result' \in Emission /\ result'.effect = None
  BY <1>1, <1>2, QuietStep, GoodStepKeeps DEF IInv, TypeOK
<1>3. CASE Retry(a)
  <2>1. result' \in Emission /\ result'.effect = None
    BY <1>3 DEF Retry, Emitted, Emission
  <2> QED
    BY <1>2, <1>3, <2>1 DEF Retry
<1>4. CASE Sync(a)
  <2>1. result' \in Emission /\ result'.effect = None
    BY <1>4 DEF Sync, Emitted, Emission
  <2>2. remembered' \in Seq(Action) /\ Len(remembered') <= MaxRemembered
    BY <1>4, RememberType DEF Sync, IInv
  <2> QED
    BY <1>1, <1>4, <2>1, <2>2, QuietStep, GoodStepKeeps DEF Sync
<1>5. CASE Perform(s, a)
  <2>1. GoodStep
    BY <1>1, <1>5, ActionFields, ApplyStep DEF Perform
  <2>2. remembered' \in Seq(Action) /\ Len(remembered') <= MaxRemembered
    BY <1>5, RememberType DEF Perform, IInv
  <2> QED
    BY <1>1, <2>1, <2>2, GoodStepKeeps
<1>6. CASE RateLimited(a)
  <2>1. result' \in Emission /\ result'.effect = None
    BY <1>6 DEF RateLimited, Emitted, Emission
  <2> QED
    BY <1>2, <1>6, <2>1 DEF RateLimited
<1> QED
  BY <1>3, <1>4, <1>5, <1>6 DEF Dispatch

LEMMA ConnectOK ==
    ASSUME IInv, NEW s \in Socket, Connect(s)
    PROVE  StepOK
<1>1. result' \in Emission /\ result'.effect = None
  BY DEF Connect, Emitted, Emission
<1>2. open \subseteq open' /\ open' \subseteq Socket
  BY DEF Connect, IInv, TypeOK
<1> QED
  BY <1>1, <1>2, QuietStep, GoodStepKeeps DEF Connect, IInv, TypeOK

\* What a machine is like when a socket has left it.
LEMMA DepartedState ==
    ASSUME IInv, NEW s \in Socket
    PROVE  LET d == Departed(term, s)
           IN  /\ d \in MachineState
               /\ d.epoch = term.epoch /\ d.seq = term.seq
               /\ d.nextRun = term.nextRun /\ d.generation = term.generation
               /\ {d.owner, d.host} \subseteq (open \ {s}) \cup {None}
               /\ d.run \in {None, term.run} /\ (d.run # None => d.host = term.host)
               /\ d.mode = "shell" => d.host = None
               /\ d.mode # "shell" => d.host # None
               /\ (d.mode \in {"busy", "program-input"}) <=> (d.run # None)
               /\ d.request <=> d.mode = "program-input"
               /\ d.runTest # None => d.run # None /\ ~d.pythonRun
<1> DEFINE unowned == IF term.owner = s THEN [term EXCEPT !.owner = None] ELSE term
           d       == Departed(term, s)
<1>1. /\ unowned \in MachineState
      /\ unowned.owner \in (open \ {s}) \cup {None}
      /\ \A f \in DOMAIN term \ {"owner"} : unowned[f] = term[f]
  BY DEF IInv, TypeOK, MachineState, LeasesConnected
<1>2. d = IF term.host = s THEN ToShell(unowned) ELSE unowned
  BY DEF Departed
<1> HIDE DEF unowned, d
<1>3. CASE term.host = s
  <2>1. d = ToShell(unowned)
    BY <1>2, <1>3
  <2>2. /\ d \in MachineState
        /\ \A f \in {"epoch", "nextRun", "generation", "seq"} : d[f] = unowned[f]
        /\ d.mode = "shell" /\ d.host = None /\ d.owner = None /\ d.run = None
        /\ d.runTest = None /\ d.request = FALSE
    BY <1>1, <2>1, ToShellType
  <2> QED
    BY <1>1, <2>2 DEF IInv, TypeOK, MachineState, d
<1>4. CASE term.host # s
  <2>1. d = unowned
    BY <1>2, <1>4
  <2> QED
    BY <1>1, <1>4, <2>1 DEF IInv, TypeOK, MachineState, ModeCoherent, LeasesConnected, d
<1> QED
  BY <1>3, <1>4

LEMMA DisconnectOK ==
    ASSUME IInv, NEW s \in Socket, Disconnect(s)
    PROVE  StepOK
<1> DEFINE d == Departed(term, s)
<1>1. open' = open \ {s} /\ open' \subseteq Socket
  BY DEF Disconnect, IInv, TypeOK
<1>2. Silence \in Emission /\ Silence.effect = None /\ Silence.ack = "none"
  BY DEF Silence, Emitted, Emission
<1>3. CASE open' = {}
  <2>1. /\ term.epoch < MaxEpoch /\ term' = Machine(term.epoch + 1)
        /\ remembered' = <<>> /\ result' = Silence
    BY <1>3 DEF Disconnect
  <2>2. term.epoch + 1 \in 1 .. MaxEpoch /\ term.epoch + 1 # term.epoch
    BY <2>1, TerminalAssumption DEF IInv, TypeOK, MachineState
  <2>3. term' \in MachineState
    BY <2>1, <2>2 DEF Machine, MachineState, Mode, Line
  <2>4. ModeCoherent' /\ LeasesConnected' /\ RunsAreFresh'
    BY <1>2, <2>1 DEF Machine, ModeCoherent, LeasesConnected, RunsAreFresh
  <2>5. ChangeIsPublished /\ RunHandedOver /\ RejectionIsQuiet
    BY <1>2, <2>1, <2>2 DEF Machine, ChangeIsPublished, RunHandedOver, RejectionIsQuiet
  <2>6. remembered' \in Seq(Action) /\ Len(remembered') <= MaxRemembered
    BY <2>1, TerminalAssumption
  <2> QED
    BY <1>1, <1>2, <2>1, <2>3, <2>4, <2>5, <2>6 DEF StepOK, IInv, TypeOK
<1>4. CASE open' # {}
  <2>1. remembered' \in Seq(Action) /\ Len(remembered') <= MaxRemembered
    BY <1>4 DEF Disconnect, IInv, TypeOK
  <2>2. CASE d = term /\ term' = term /\ result' = Silence
    <3>1. GoodStep
      BY <1>1, <1>2, <2>2, DepartedState
         DEF IInv, TypeOK, ModeCoherent, LeasesConnected, RunsAreFresh,
             ChangeIsPublished, Visible, RunHandedOver, RejectionIsQuiet, GoodStep
    <3> QED
      BY <1>1, <2>1, <3>1, GoodStepKeeps
  <2>3. CASE term' = [d EXCEPT !.seq = @ + 1] /\ result' = Emitted("none", "delta", None)
    <3>1. result' \in Emission /\ result'.effect = None
          /\ result'.publish = "delta" /\ result'.ack = "none"
      BY <2>3 DEF Emitted, Emission
    <3>2. /\ d \in MachineState
          /\ d.epoch = term.epoch /\ d.seq = term.seq
          /\ d.nextRun = term.nextRun /\ d.generation = term.generation
      BY DepartedState
    <3>3. term' \in MachineState
      BY <2>3, <3>2 DEF MachineState
    <3>4. /\ term'.seq = d.seq + 1
          /\ \A f \in DOMAIN d \ {"seq"} : term'[f] = d[f]
      BY <2>3, <3>2 DEF MachineState
    <3>5. /\ d.run \in {None, term.run} /\ (d.run # None => d.host = term.host)
          /\ {d.owner, d.host} \subseteq (open \ {s}) \cup {None}
      BY DepartedState
    <3>6. /\ d.mode = "shell" => d.host = None
          /\ d.mode # "shell" => d.host # None
          /\ (d.mode \in {"busy", "program-input"}) <=> (d.run # None)
          /\ d.request <=> d.mode = "program-input"
          /\ d.runTest # None => d.run # None /\ ~d.pythonRun
      BY DepartedState
    <3> HIDE DEF d
    <3>7. ModeCoherent'
      BY <3>2, <3>4, <3>6 DEF ModeCoherent, MachineState
    <3>8. LeasesConnected' /\ RunsAreFresh'
      BY <1>1, <3>1, <3>2, <3>4, <3>5
         DEF LeasesConnected, RunsAreFresh, IInv, MachineState
    <3>9. ChangeIsPublished /\ RunHandedOver /\ RejectionIsQuiet
      BY <3>1, <3>2, <3>4, <3>5
         DEF ChangeIsPublished, RunHandedOver, RejectionIsQuiet, MachineState
    <3>10. GoodStep
      BY <3>1, <3>3, <3>7, <3>8, <3>9 DEF GoodStep
    <3> QED
      BY <1>1, <2>1, <3>10, GoodStepKeeps
  <2> QED
    BY <1>4, <2>2, <2>3 DEF Disconnect
<1> QED
  BY <1>3, <1>4

LEMMA UpdateActorOK ==
    ASSUME IInv, NEW s \in Socket, UpdateActor(s)
    PROVE  StepOK
<1>1. /\ open' = open /\ remembered' = remembered
      /\ term' = [term EXCEPT !.seq = @ + 1]
      /\ result' = Emitted("none", "delta", None)
  BY DEF UpdateActor
<1>2. result' \in Emission /\ result'.effect = None
      /\ result'.publish = "delta" /\ result'.ack = "none"
  BY <1>1 DEF Emitted, Emission
<1>3. /\ term' \in MachineState /\ term'.seq = term.seq + 1
      /\ \A f \in DOMAIN term \ {"seq"} : term'[f] = term[f]
  BY <1>1 DEF IInv, TypeOK, MachineState
<1>4. ModeCoherent' /\ LeasesConnected' /\ RunsAreFresh'
  BY <1>1, <1>2, <1>3
     DEF IInv, TypeOK, MachineState, ModeCoherent, LeasesConnected, RunsAreFresh
<1>5. ChangeIsPublished /\ RunHandedOver /\ RejectionIsQuiet
  BY <1>2, <1>3
     DEF IInv, TypeOK, MachineState, ChangeIsPublished, RunHandedOver, RejectionIsQuiet
<1> QED
  BY <1>1, <1>2, <1>3, <1>4, <1>5 DEF StepOK, IInv, TypeOK

LEMMA StutterOK ==
    ASSUME IInv, UNCHANGED vars
    PROVE  IInv' /\ ChangeIsPublished /\ RunHandedOver
BY DEF vars, IInv, TypeOK, ModeCoherent, LeasesConnected, RunsAreFresh,
       ChangeIsPublished, Visible, RunHandedOver

LEMMA InitOK == Init => IInv
<1> SUFFICES ASSUME Init PROVE IInv
  OBVIOUS
<1>1. term \in MachineState
  BY TerminalAssumption DEF Init, Machine, MachineState, Mode, Line
<1>2. remembered \in Seq(Action) /\ Len(remembered) <= MaxRemembered
  BY TerminalAssumption DEF Init
<1>3. result \in Emission /\ result.effect = None
  BY DEF Init, Silence, Emitted, Emission
<1>4. ModeCoherent /\ LeasesConnected /\ RunsAreFresh
  BY <1>3 DEF Init, Machine, ModeCoherent, LeasesConnected, RunsAreFresh
<1> QED
  BY <1>1, <1>2, <1>3, <1>4 DEF IInv, TypeOK, Init

LEMMA NextOK ==
    ASSUME IInv, Next
    PROVE  StepOK
<1>1. ASSUME NEW s \in Socket, Connect(s) PROVE StepOK
  BY <1>1, ConnectOK
<1>2. ASSUME NEW s \in Socket, Disconnect(s) PROVE StepOK
  BY <1>2, DisconnectOK
<1>3. ASSUME NEW s \in Socket, UpdateActor(s) PROVE StepOK
  BY <1>3, UpdateActorOK
<1>4. ASSUME NEW s \in Socket, NEW a \in Action, Dispatch(s, a) PROVE StepOK
  BY <1>4, DispatchOK
<1> QED
  BY <1>1, <1>2, <1>3, <1>4 DEF Next

-----------------------------------------------------------------------------
\* The inductive invariant: types, modes, leases and run ids hold together whatever
\* is dispatched and whoever leaves (stateMachine.ts).
THEOREM TerminalInvariant == Spec => []IInv
<1>1. Init => IInv
  BY InitOK
<1>2. IInv /\ [Next]_vars => IInv'
  BY NextOK, StutterOK DEF StepOK
<1> QED
  BY <1>1, <1>2, PTL DEF Spec

\* The machine, what it emits and its memory of actions keep their types and limits
\* (stateMachine.ts dispatch, remember).
THEOREM TerminalTypeCorrect == Spec => []TypeOK
<1>1. IInv => TypeOK
  BY DEF IInv
<1> QED
  BY <1>1, TerminalInvariant, PTL

\* Mode, host, run and input request always fit together, whoever leaves, signals or
\* reports in whatever order (stateMachine.ts, every handler).
THEOREM ModesFit == Spec => []ModeCoherent
<1>1. IInv => ModeCoherent
  BY DEF IInv
<1> QED
  BY <1>1, TerminalInvariant, PTL

\* A lease or an effect is always a connected socket's: disconnect ends both leases
\* of who leaves (stateMachine.ts disconnect, terminalTransport.ts).
THEOREM LeasesAreConnected == Spec => []LeasesConnected
<1>1. IInv => LeasesConnected
  BY DEF IInv
<1> QED
  BY <1>1, TerminalInvariant, PTL

\* The active run is one that this machine has numbered: the id of an earlier
\* run never comes back (stateMachine.ts createRunId).
THEOREM RunsFresh == Spec => []RunsAreFresh
<1>1. IInv => RunsAreFresh
  BY DEF IInv
<1> QED
  BY <1>1, TerminalInvariant, PTL

\* Every visible change of the machine is numbered and published.
THEOREM EveryChangeIsPublished == Spec => ChangesArePublished
<1>1. IInv /\ [Next]_vars => [ChangeIsPublished]_vars
  BY NextOK DEF StepOK
<1> QED
  BY <1>1, TerminalInvariant, PTL DEF Spec, ChangesArePublished

\* A run is handed to its host once and never changes hands.
THEOREM RunsStay == Spec => RunsStayWithTheirHost
<1>1. IInv /\ [Next]_vars => [RunHandedOver]_vars
  BY NextOK DEF StepOK
<1> QED
  BY <1>1, TerminalInvariant, PTL DEF Spec, RunsStayWithTheirHost

\* A rejected action changes nothing: neither repair is ever taken.
THEOREM RejectionIsHarmless == Spec => RejectionChangesNothing
<1>1. IInv /\ [Next]_vars => [result'.ack = "rejected" => term' = term]_vars
  BY NextOK DEF StepOK, RejectionIsQuiet
<1> QED
  BY <1>1, TerminalInvariant, PTL DEF Spec, RejectionChangesNothing
=============================================================================
