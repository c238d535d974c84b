------------------------------- MODULE SyncUI -------------------------------
(***************************************************************************)
(* reduit sync in a terminal: SyncAll's workers (internal/sync engine.go), *)
(* the two ways they reach the screen -- progress events through a buffer  *)
(* that drops, log records through a writer that waits -- and the start    *)
(* and teardown of the display (internal/cli sync.go, syncui*.go).         *)
(*                                                                         *)
(* The Bubble Tea program is external.  syncui_adapter.go and              *)
(* syncui_run.go say what they count on: its channel has no buffer, Send   *)
(* gives up once the program's context is done, Println never does, and    *)
(* the loop takes nothing after it has stopped.                            *)
(*                                                                         *)
(* What a worker does between two events or records is MailboxSync.        *)
(***************************************************************************)
EXTENDS Integers, Sequences, FiniteSets

CONSTANTS
    Boxes,         \* configured mailboxes
    Concurrency,   \* cfg.Concurrency
    Buffer,        \* capacity of progressAdapter.ch
    WatchModes,    \* the values of --watch explored: on, off or both
    Interrupts,    \* how the operator may interrupt: "signal", "key"
    MaxPasses,     \* bound: passes of the watch loop
    MaxCount,      \* bound: messages of a backfill, batches of a tail
    MaxLogs        \* bound: log records of one mailbox's run

ASSUME SyncUIBounds ==
    /\ IsFiniteSet(Boxes) /\ "none" \notin Boxes
    /\ Concurrency \in Nat \ {0} /\ Buffer \in Nat \ {0}
    /\ WatchModes \subseteq BOOLEAN /\ Interrupts \subseteq {"signal", "key"}
    /\ MaxPasses \in Nat \ {0} /\ MaxCount \in Nat /\ MaxLogs \in Nat

\* The run: runSyncTUI's goroutine and one worker for each mailbox.
VARIABLES
    watch,       \* opts.watch > 0
    active,      \* mailboxes whose row is active
    runner,      \* where the goroutine stands
    pass,        \* passes of the watch loop begun
    todo,        \* mailboxes SyncAll has still to spawn a worker for
    work,        \* each worker's step, "off" when there is none
    phase,       \* what its run is doing
    count,       \* messages applied of the backfill, or batches of the tail
    total,       \* messages the backfill enumerated
    logs,        \* records it has logged
    nth,         \* history: events it has emitted this pass
    summaries,   \* SyncAll's summaries: "ok", "failed", or the zero value "none"
    result       \* runErrCh, "none" while empty

\* The display.
VARIABLES
    mu,          \* holder of syncLogWriter.mu
    ch,          \* progressAdapter.ch
    pump, hand,  \* the pump's step and the event it is sending
    ui,          \* the program's event loop
    header,      \* syncModel.boxes
    keyed,       \* Ctrl-C was pressed as a key
    cancelled,   \* the run's ctx is done
    main,        \* where runSyncTUI stands
    released,    \* cancelProg was called
    closed,      \* syncLogWriter.closed
    stopping,    \* progressAdapter.done is closed
    outcome      \* the error runSyncTUI returned

workerVars == <<work, phase, count, total, logs, nth, summaries>>
runVars == <<watch, active, runner, pass, todo, result, workerVars>>
loopVars == <<ui, header, keyed>>
mainVars == <<main, released, closed, stopping, outcome>>
vars == <<runVars, mu, ch, pump, hand, loopVars, cancelled, mainVars>>

None == "none"
Running == {b \in Boxes : work[b] # "off"}
\* The context the program is bound to, a child of the run's.
ProgramCancelled == cancelled \/ released
\* The loop still receives: until QuitMsg comes round, even after it began to quit.
Receiving == ui # "stopped"

-----------------------------------------------------------------------------
(* Progress events.                                                        *)

Event(kind, b, n, t, ok) ==
    [kind |-> kind, box |-> b, done |-> n, total |-> t, ok |-> ok,
     at |-> <<pass, nth[b] + 1>>]

\* Mutant: an unbounded queue.
NeverDrops(e) ==
    /\ ch' = Append(ch, e)
    /\ nth' = [nth EXCEPT ![e.box] = @ + 1]

\* enqueue: the engine never waits, and a full buffer drops the event.
Emit(e) ==
    /\ ch' = IF Len(ch) < Buffer THEN Append(ch, e) ELSE ch
    /\ nth' = [nth EXCEPT ![e.box] = @ + 1]

NoLine == [phase |-> None, done |-> 0, total |-> 0, ok |-> TRUE, at |-> <<0, 0>>]

\* Mutant: a new enumeration keeps what the last one had done.
KeepsDone(line, e) ==
    CASE e.kind = "enumerated" ->
           [line EXCEPT !.phase = "backfill", !.total = e.total, !.at = e.at]
      [] e.kind = "applied" ->
           [line EXCEPT !.phase = "backfill", !.done = e.done, !.total = e.total,
                        !.at = e.at]
      [] OTHER -> [line EXCEPT !.phase = e.kind, !.at = e.at]

\* syncModel.Update: what an event makes of its mailbox's line.
Shown(line, e) ==
    CASE e.kind \in {"enumerated", "applied"} ->
           [line EXCEPT !.phase = "backfill", !.done = e.done, !.total = e.total,
                        !.at = e.at]
      [] e.kind = "batch" -> [line EXCEPT !.phase = "tail", !.at = e.at]
      [] e.kind = "started" -> [line EXCEPT !.phase = "starting", !.at = e.at]
      [] e.kind = "done" -> [line EXCEPT !.phase = "done", !.ok = e.ok, !.at = e.at]

-----------------------------------------------------------------------------
(* The worker of one mailbox: runIsolated, by what of it can be seen.      *)

WorkerUnchanged ==
    UNCHANGED <<watch, runner, pass, todo, result, pump, hand, loopVars,
                cancelled, mainVars>>

Begin(b) ==
    /\ work[b] = "begin"
    /\ work' = [work EXCEPT ![b] = "sync"]
    /\ Emit(Event("started", b, 0, 0, TRUE))
    /\ UNCHANGED <<active, phase, count, total, logs, summaries, mu>>
    /\ WorkerUnchanged

\* bootstrap, by itself or because a tail met Refresh.
Enumerate(b) ==
    /\ work[b] = "sync" /\ phase[b] \in {"starting", "tail"}
    /\ phase' = [phase EXCEPT ![b] = "backfill"]
    /\ count' = [count EXCEPT ![b] = 0]
    /\ \E n \in 0..MaxCount :
           /\ total' = [total EXCEPT ![b] = n]
           /\ Emit(Event("enumerated", b, 0, n, TRUE))
    /\ UNCHANGED <<active, work, logs, summaries, mu>> /\ WorkerUnchanged

\* A message of the backfill is applied, or skipped with its error.
Apply(b) ==
    /\ work[b] = "sync" /\ phase[b] = "backfill" /\ count[b] < total[b]
    /\ count' = [count EXCEPT ![b] = @ + 1]
    /\ Emit(Event("applied", b, count[b] + 1, total[b], TRUE))
    /\ UNCHANGED <<active, work, phase, total, logs, summaries, mu>>
    /\ WorkerUnchanged

Batch(b) ==
    /\ work[b] = "sync" /\ phase[b] \in {"starting", "tail"}
    /\ count[b] < MaxCount
    /\ phase' = [phase EXCEPT ![b] = "tail"]
    /\ count' = [count EXCEPT ![b] = @ + 1]
    /\ Emit(Event("batch", b, 0, 0, TRUE))
    /\ UNCHANGED <<active, work, total, logs, summaries, mu>> /\ WorkerUnchanged

\* The run ends: a backfill that ends well applied everything.  A failure may
\* be a panic, which is recovered; one of authentication flags the mailbox.
\* The worker gives its place back.
Ends(b, how) ==
    /\ work[b] = "sync"
    /\ how = "ok" /\ phase[b] = "backfill" => count[b] = total[b]
    /\ summaries' = [summaries EXCEPT ![b] = how]
    /\ \/ UNCHANGED active
       \/ how = "failed" /\ ~cancelled /\ active' = active \ {b}
    /\ work' = [work EXCEPT ![b] = "off"]
    /\ phase' = [phase EXCEPT ![b] = "starting"]
    /\ count' = [count EXCEPT ![b] = 0] /\ total' = [total EXCEPT ![b] = 0]
    /\ logs' = [logs EXCEPT ![b] = 0]
    /\ Emit(Event("done", b, 0, 0, how = "ok"))
    /\ UNCHANGED mu /\ WorkerUnchanged
End(b) == \E how \in {"ok", "failed"} : Ends(b, how)

-----------------------------------------------------------------------------
(* Its log records: syncLogWriter.Write.                                   *)

Log(b) ==
    /\ work[b] = "sync" /\ logs[b] < MaxLogs
    /\ work' = [work EXCEPT ![b] = "write"]
    /\ logs' = [logs EXCEPT ![b] = @ + 1]
    /\ UNCHANGED <<active, phase, count, total, nth, summaries, mu, ch>>
    /\ WorkerUnchanged

Dead == closed \/ cancelled

Write(b) ==
    /\ work[b] = "write" /\ mu = None
    /\ \/ Dead /\ work' = [work EXCEPT ![b] = "sync"] /\ UNCHANGED mu
       \/ ~Dead /\ work' = [work EXCEPT ![b] = "println"] /\ mu' = b
    /\ UNCHANGED <<active, phase, count, total, logs, nth, summaries, ch>>
    /\ WorkerUnchanged

\* The loop receives the line.
Println(b) ==
    /\ work[b] = "println" /\ Receiving
    /\ work' = [work EXCEPT ![b] = "sync"] /\ mu' = None
    /\ UNCHANGED <<active, phase, count, total, logs, nth, summaries, ch>>
    /\ WorkerUnchanged

Worker(b) ==
    \/ Begin(b) \/ Enumerate(b) \/ Apply(b) \/ Batch(b) \/ End(b)
    \/ Log(b) \/ Write(b) \/ Println(b)

-----------------------------------------------------------------------------
(* The goroutine that runs the sync: runSync, runSyncOnce, SyncAll.        *)

RunnerUnchanged ==
    UNCHANGED <<watch, active, phase, count, total, logs, mu, ch, pump, hand,
                keyed, cancelled, mainVars>>

\* What a pass came to: a one-shot run's error, or the watch loop goes on.
PassOver(failed) ==
    \/ watch /\ runner' = "timer" /\ UNCHANGED result
    \/ ~watch /\ runner' = "send" /\ result' = IF failed THEN "failed" ELSE "ok"

\* ListMailboxes or ResetSyncCursor fails.
ListFails ==
    /\ runner = "list" /\ PassOver(TRUE)
    /\ UNCHANGED <<pass, todo, work, summaries, nth, ui, header>> /\ RunnerUnchanged

ListMailboxes ==
    /\ runner = "list" /\ ~cancelled
    /\ runner' = "spawn" /\ todo' = active
    /\ summaries' = [b \in Boxes |-> None]
    /\ UNCHANGED <<pass, work, result, nth, ui, header>> /\ RunnerUnchanged

\* The semaphore is taken before the worker is started.
Spawn(b) ==
    /\ runner = "spawn" /\ b \in todo /\ Cardinality(Running) < Concurrency
    /\ todo' = todo \ {b}
    /\ work' = [work EXCEPT ![b] = "begin"]
    /\ UNCHANGED <<runner, pass, summaries, result, nth, ui, header>>
    /\ RunnerUnchanged

\* Mutant: SyncAll returns without waiting for its workers.
NoWait == todo = {}

AllDone == todo = {} /\ Running = {}

SummariesIn ==
    /\ runner = "spawn" /\ AllDone
    /\ PassOver(\E b \in Boxes : summaries[b] = "failed")
    /\ UNCHANGED <<pass, todo, work, summaries, nth, ui, header>> /\ RunnerUnchanged

Timer ==
    /\ runner = "timer" /\ pass < MaxPasses
    /\ runner' = "list" /\ pass' = pass + 1
    /\ nth' = [b \in Boxes |-> 0]
    /\ UNCHANGED <<todo, work, summaries, result, ui, header>> /\ RunnerUnchanged

WatchStops ==
    /\ runner = "timer" /\ cancelled
    /\ runner' = "send" /\ result' = "ok"
    /\ UNCHANGED <<pass, todo, work, summaries, nth, ui, header>> /\ RunnerUnchanged

\* prog.Send(syncDoneMsg{}): the model quits, or Send gives up.
SendDone ==
    /\ runner = "send" /\ runner' = "over"
    /\ \/ Receiving /\ ui' = "quitting"
       \/ ProgramCancelled /\ UNCHANGED ui
    /\ UNCHANGED <<pass, todo, work, summaries, result, nth, header>> /\ RunnerUnchanged

Runner ==
    \/ ListFails \/ ListMailboxes \/ (\E b \in Boxes : Spawn(b)) \/ SummariesIn
    \/ Timer \/ WatchStops \/ SendDone

-----------------------------------------------------------------------------
(* The pump, the event loop and the operator.                              *)

\* Mutant: each event is sent by a goroutine of its own.
Unordered == {i \in 1..Len(ch) : TRUE}

\* Which of the buffered events a receive may return: a channel is a queue.
Oldest == {i \in 1..Len(ch) : i = 1}

PumpTakes ==
    /\ pump = "select"
    /\ \E i \in Oldest :
           /\ hand' = << ch[i] >>
           /\ ch' = [j \in 1..(Len(ch) - 1) |-> IF j < i THEN ch[j] ELSE ch[j + 1]]
    /\ pump' = "send"
    /\ UNCHANGED <<runVars, mu, loopVars, cancelled, mainVars>>

PumpSends ==
    /\ pump = "send"
    /\ \/ /\ Receiving
          /\ header' = [header EXCEPT ![hand[1].box] = Shown(@, hand[1])]
       \/ ProgramCancelled /\ UNCHANGED header
    /\ pump' = "select" /\ hand' = << >>
    /\ UNCHANGED <<runVars, mu, ch, ui, keyed, cancelled, mainVars>>

PumpExits ==
    /\ pump = "select" /\ stopping
    /\ pump' = "exited"
    /\ UNCHANGED <<runVars, mu, ch, hand, loopVars, cancelled, mainVars>>

Pump == PumpTakes \/ PumpSends \/ PumpExits

\* QuitMsg arrives, or the program's context is done.
LoopStops ==
    /\ \/ ui = "quitting"
       \/ Receiving /\ ProgramCancelled
    /\ ui' = "stopped"
    /\ UNCHANGED <<runVars, mu, ch, pump, hand, header, keyed, cancelled, mainVars>>

\* In raw mode Ctrl-C is a key: the model quits.
CtrlC ==
    /\ "key" \in Interrupts /\ ui = "running"
    /\ ui' = "quitting" /\ keyed' = TRUE
    /\ UNCHANGED <<runVars, mu, ch, pump, hand, header, cancelled, mainVars>>

\* SIGINT or SIGTERM: signal.NotifyContext cancels the run's ctx.
Signal ==
    /\ "signal" \in Interrupts /\ ~cancelled /\ main # "returned"
    /\ cancelled' = TRUE
    /\ UNCHANGED <<runVars, mu, ch, pump, hand, loopVars, mainVars>>

-----------------------------------------------------------------------------
(* runSyncTUI, from the return of prog.Run on.                             *)

MainUnchanged ==
    UNCHANGED <<runVars, mu, ch, pump, hand, loopVars, cancelled>>

\* Mutant: the program's context is left alone.
NeverReleased ==
    /\ main = "run" /\ ui = "stopped"
    /\ main' = "close" /\ UNCHANGED <<released, closed, stopping, outcome>>
    /\ MainUnchanged

CancelProgram ==
    /\ main = "run" /\ ui = "stopped"
    /\ released' = TRUE /\ main' = "close"
    /\ UNCHANGED <<closed, stopping, outcome>> /\ MainUnchanged

CloseWriter ==
    /\ main = "close" /\ mu = None
    /\ closed' = TRUE /\ main' = "stop"
    /\ UNCHANGED <<released, stopping, outcome>> /\ MainUnchanged

StopPump ==
    /\ main = "stop"
    /\ stopping' = TRUE /\ main' = "join"
    /\ UNCHANGED <<released, closed, outcome>> /\ MainUnchanged

\* Mutant: Close closes done and does not wait for the pump.
NeverJoined ==
    /\ main = "join"
    /\ main' = "drain"
    /\ UNCHANGED <<released, closed, stopping, outcome>> /\ MainUnchanged

JoinPump ==
    /\ main = "join" /\ pump = "exited"
    /\ main' = "drain"
    /\ UNCHANGED <<released, closed, stopping, outcome>> /\ MainUnchanged

\* The run's error is received, and the buffered summaries are printed.
Return ==
    /\ main = "drain" /\ result # None
    /\ outcome' = result /\ main' = "returned"
    /\ UNCHANGED <<released, closed, stopping>> /\ MainUnchanged

Main == CancelProgram \/ CloseWriter \/ StopPump \/ JoinPump \/ Return

-----------------------------------------------------------------------------

Init ==
    /\ watch \in WatchModes /\ active = Boxes
    /\ runner = "list" /\ pass = 1 /\ todo = {} /\ result = None
    /\ work = [b \in Boxes |-> "off"] /\ phase = [b \in Boxes |-> "starting"]
    /\ count = [b \in Boxes |-> 0] /\ total = [b \in Boxes |-> 0]
    /\ logs = [b \in Boxes |-> 0] /\ nth = [b \in Boxes |-> 0]
    /\ summaries = [b \in Boxes |-> None]
    /\ mu = None /\ ch = << >> /\ pump = "select" /\ hand = << >>
    /\ ui = "running" /\ header = [b \in Boxes |-> NoLine] /\ keyed = FALSE
    /\ cancelled = FALSE
    /\ main = "run" /\ released = FALSE /\ closed = FALSE /\ stopping = FALSE
    /\ outcome = None

Next ==
    \/ \E b \in Boxes : Worker(b)
    \/ Runner \/ Pump \/ LoopStops \/ Main
    \/ CtrlC \/ Signal

Spec == Init /\ [][Next]_vars

\* Every goroutine is scheduled, the event loop among them, and a run is
\* finite: each call to Proton ends.  The operator need not do anything.
FairSpec ==
    /\ Spec
    /\ \A b \in Boxes : WF_vars(Worker(b))
    /\ WF_vars(Runner) /\ WF_vars(Pump) /\ WF_vars(LoopStops) /\ WF_vars(Main)

-----------------------------------------------------------------------------
(* Properties.                                                             *)

Phases == {"starting", "backfill", "tail", "done"}
Verdicts == {None, "ok", "failed"}

RunnerType ==
    /\ watch \in BOOLEAN /\ active \subseteq Boxes /\ todo \subseteq Boxes
    /\ runner \in {"list", "spawn", "timer", "send", "over"}
    /\ pass \in 1..MaxPasses /\ result \in Verdicts
WorkerType ==
    /\ work \in [Boxes -> {"off", "begin", "sync", "write", "println"}]
    /\ Cardinality(Running) <= Concurrency
    /\ phase \in [Boxes -> Phases] /\ summaries \in [Boxes -> Verdicts]
    /\ count \in [Boxes -> 0..MaxCount] /\ total \in [Boxes -> 0..MaxCount]
    /\ logs \in [Boxes -> 0..MaxLogs] /\ nth \in [Boxes -> Nat]
DisplayType ==
    /\ mu \in Boxes \union {None} /\ Len(ch) <= Buffer
    /\ pump \in {"select", "send", "exited"} /\ Len(hand) <= 1
    /\ ui \in {"running", "quitting", "stopped"}
    /\ \A b \in Boxes : header[b].phase \in Phases \union {None}
MainType ==
    /\ main \in {"run", "close", "stop", "join", "drain", "returned"}
    /\ outcome \in Verdicts
    /\ keyed \in BOOLEAN /\ cancelled \in BOOLEAN
    /\ released \in BOOLEAN /\ closed \in BOOLEAN /\ stopping \in BOOLEAN

\* Every variable keeps its type.  No more workers run than the semaphore lets,
\* and the event buffer never holds more than its capacity.
TypeOK == RunnerType /\ WorkerType /\ DisplayType /\ MainType

\* When runSyncTUI returns nothing it started still works for it: no worker,
\* no pump, no event loop, and the writer's lock is free for Flush.  spec.md of
\* sync-progress-ui, 147-149: "no leaked event-loop workers".
NothingLeftRunning ==
    main = "returned" =>
        Running = {} /\ pump = "exited" /\ ui = "stopped" /\ mu = None

\* A one-shot sync ends without an error only if every mailbox that was active
\* when it began has run to its end, whatever became of the display and of the
\* other mailboxes (SyncAll, printSummaries, runSyncTUI's last lines).
CleanExitMeansSynced ==
    main = "returned" /\ outcome = "ok" /\ ~watch =>
        \A b \in Boxes : summaries[b] = "ok"

\* The lines of the header follow the run: events may be dropped, and a line
\* may trail, but it never shows an earlier event after a later one.
Later(s, t) == s[1] < t[1] \/ (s[1] = t[1] /\ s[2] <= t[2])
HeaderNeverGoesBack ==
    [][\A b \in Boxes : Later(header[b].at, header'[b].at)]_vars

\* The bar never passes its end, though the events that would tell it of a new
\* enumeration were dropped (percent, Update).
DoneWithinTotal == \A b \in Boxes : header[b].done <= header[b].total

\* A record passed the dead() check, and the loop stopped before taking it.
Wedged == ui = "stopped" /\ \E b \in Boxes : work[b] = "println"

\* Teardown finishes: a one-shot run always, a watch once it is cancelled, but
\* for one thing, a log record handed to a stopped program.  In particular the
\* pump is always released and joined.
Settles == (~watch \/ cancelled) ~> (main = "returned" \/ Wedged)

\* syncui_adapter.go 157-160: "a record racing teardown never blocks on a
\* stopped program".
NeverBlocksOnStopped == ~Wedged

=============================================================================
