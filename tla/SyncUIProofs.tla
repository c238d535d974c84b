---------------------------- MODULE SyncUIProofs ----------------------------
(* Theorems about SyncUI, for every value of its constants. *)
EXTENDS SyncUI, FiniteSetTheorems, SequenceTheorems, TLAPS

-----------------------------------------------------------------------------
(* Type correctness.  TypeOK says nothing of the events on their way nor of *)
(* the lines they make; the proofs need both.                              *)

Kinds == {"started", "enumerated", "applied", "batch", "done"}
Stamps == Nat \X Nat

\* An event never claims more messages done than there are, nor does a line.
Events ==
    {e \in [kind : Kinds, box : Boxes, done : Nat, total : Nat, ok : BOOLEAN,
            at : Stamps] : e.done <= e.total}
Lines ==
    {l \in [phase : Phases \union {None}, done : Nat, total : Nat, ok : BOOLEAN,
            at : Stamps] : l.done <= l.total}

FlowType ==
    /\ ch \in Seq(Events) /\ hand \in Seq(Events)
    /\ pump = "send" => Len(hand) = 1
    /\ header \in [Boxes -> Lines]

SyncType == TypeOK /\ FlowType

\* What a run's worker puts on an event is an event.
LEMMA EventType ==
  ASSUME SyncType, NEW kind \in Kinds, NEW b \in Boxes, NEW n \in Nat, NEW t \in Nat,
         NEW ok \in BOOLEAN, n <= t
  PROVE  /\ Event(kind, b, n, t, ok) \in Events
         /\ Event(kind, b, n, t, ok).box = b
         /\ Event(kind, b, n, t, ok).at = <<pass, nth[b] + 1>>
<1>1. pass \in Nat /\ nth[b] \in Nat
  BY SyncUIBounds DEF SyncType, TypeOK, RunnerType, WorkerType
<1>2. <<pass, nth[b] + 1>> \in Stamps
  BY <1>1 DEF Stamps
<1> QED BY <1>2 DEF Event, Events

\* In particular an event without counts.
LEMMA BareEvent ==
  ASSUME SyncType, NEW kind \in Kinds, NEW b \in Boxes, NEW ok \in BOOLEAN
  PROVE  /\ Event(kind, b, 0, 0, ok) \in Events
         /\ Event(kind, b, 0, 0, ok).box = b
         /\ Event(kind, b, 0, 0, ok).at = <<pass, nth[b] + 1>>
<1>1. 0 \in Nat /\ 0 <= 0
  OBVIOUS
<1>2. \A n \in Nat, t \in Nat : n <= t =>
        /\ Event(kind, b, n, t, ok) \in Events
        /\ Event(kind, b, n, t, ok).box = b
        /\ Event(kind, b, n, t, ok).at = <<pass, nth[b] + 1>>
  BY EventType
<1> QED BY <1>1, <1>2, Zenon

\* An event makes a line of a line.
LEMMA ShownType ==
  ASSUME NEW line \in Lines, NEW e \in Events
  PROVE  /\ Shown(line, e) \in Lines
         /\ Shown(line, e).at = e.at
<1>1. e.kind \in Kinds
  BY DEF Events
<1>2. CASE e.kind \in {"enumerated", "applied"}
  BY <1>2 DEF Shown, Lines, Events, Phases
<1>3. CASE e.kind = "batch"
  BY <1>3 DEF Shown, Lines, Events, Phases
<1>4. CASE e.kind = "started"
  BY <1>4 DEF Shown, Lines, Events, Phases
<1>5. CASE e.kind = "done"
  BY <1>5 DEF Shown, Lines, Events, Phases
<1> QED BY <1>1, <1>2, <1>3, <1>4, <1>5 DEF Kinds

\* The buffer takes an event or drops it, and stays within its capacity.
LEMMA EmitType ==
  ASSUME SyncType, NEW e \in Events, Emit(e), UNCHANGED <<pump, hand, header>>
  PROVE  /\ FlowType' /\ Len(ch') <= Buffer /\ nth' \in [Boxes -> Nat]
<1>1. ch' \in Seq(Events) /\ Len(ch') <= Buffer
  <2>1. ch \in Seq(Events) /\ Len(ch) <= Buffer /\ Buffer \in Nat
    BY SyncUIBounds DEF SyncType, FlowType, TypeOK, DisplayType
  <2>2. ch' = IF Len(ch) < Buffer THEN Append(ch, e) ELSE ch
    BY DEF Emit
  <2> QED BY <2>1, <2>2, AppendProperties
<1>2. nth' \in [Boxes -> Nat]
  <2>1. nth \in [Boxes -> Nat] /\ nth' = [nth EXCEPT ![e.box] = @ + 1]
    BY DEF Emit, SyncType, TypeOK, WorkerType
  <2>2. e.box \in Boxes
    BY DEF Events
  <2> QED BY <2>1, <2>2
<1> QED BY <1>1, <1>2 DEF SyncType, FlowType

\* A step that lets no new worker run keeps the semaphore's bound.
LEMMA FewerRunning ==
  ASSUME TypeOK, Running' \subseteq Running
  PROVE  Cardinality(Running') <= Concurrency
<1>1. IsFiniteSet(Running) /\ Running \in SUBSET Boxes
  BY SyncUIBounds, FS_Subset DEF Running
<1>2. Cardinality(Running') <= Cardinality(Running)
  BY <1>1, FS_Subset
<1>3. Cardinality(Running) \in Nat /\ Cardinality(Running') \in Nat
  BY <1>1, FS_Subset, FS_CardinalityType
<1> QED BY <1>2, <1>3, SyncUIBounds DEF TypeOK, WorkerType

-----------------------------------------------------------------------------
(* The steps, a goroutine at a time.                                       *)

\* What a worker leaves alone keeps its type.
LEMMA WorkerKeeps ==
  ASSUME SyncType, WorkerUnchanged, active' \subseteq Boxes,
         Running' \subseteq Running,
         work' \in [Boxes -> {"off", "begin", "sync", "write", "println"}],
         phase' \in [Boxes -> Phases], summaries' \in [Boxes -> Verdicts],
         count' \in [Boxes -> 0..MaxCount], total' \in [Boxes -> 0..MaxCount],
         logs' \in [Boxes -> 0..MaxLogs], mu' \in Boxes \union {None},
         FlowType', Len(ch') <= Buffer, nth' \in [Boxes -> Nat]
  PROVE  SyncType'
<1>1. /\ UNCHANGED <<watch, runner, pass, todo, result, pump, hand>>
      /\ UNCHANGED <<ui, header, keyed, cancelled, main, released, closed, stopping, outcome>>
  BY DEF WorkerUnchanged, loopVars, mainVars
<1>2. RunnerType'
  BY <1>1, Zenon DEF SyncType, TypeOK, RunnerType
<1>3. MainType'
  BY <1>1, Zenon DEF SyncType, TypeOK, MainType
<1>4. Cardinality(Running') <= Concurrency
  BY FewerRunning DEF SyncType
<1>5. WorkerType'
  BY <1>4 DEF WorkerType, Running
<1>6. DisplayType'
  BY <1>1 DEF SyncType, TypeOK, DisplayType
<1> QED BY <1>2, <1>3, <1>5, <1>6 DEF SyncType, TypeOK

\* The worker's steps that emit an event.
Emits(b) == Begin(b) \/ Enumerate(b) \/ Apply(b) \/ Batch(b) \/ End(b)

\* They emit one, with the run's next stamp.
LEMMA EmitsOne ==
  ASSUME SyncType, NEW b \in Boxes, Emits(b)
  PROVE  \E e \in Events :
           /\ Emit(e) /\ e.box = b /\ e.at = <<pass, nth[b] + 1>>
           /\ WorkerUnchanged
<1>1. CASE Begin(b)
  <2>1. "started" \in Kinds /\ TRUE \in BOOLEAN
    BY Zenon DEF Kinds
  <2>2. Emit(Event("started", b, 0, 0, TRUE)) /\ WorkerUnchanged
    BY <1>1 DEF Begin
  <2> QED BY <2>1, <2>2, BareEvent, Zenon
<1>2. CASE Batch(b)
  <2>1. "batch" \in Kinds /\ TRUE \in BOOLEAN
    BY Zenon DEF Kinds
  <2>2. Emit(Event("batch", b, 0, 0, TRUE)) /\ WorkerUnchanged
    BY <1>2 DEF Batch
  <2> QED BY <2>1, <2>2, BareEvent, Zenon
<1>3. CASE End(b)
  <2>1. PICK how \in {"ok", "failed"} : Ends(b, how)
    BY <1>3 DEF End
  <2>2. "done" \in Kinds /\ (how = "ok") \in BOOLEAN
    BY Zenon DEF Kinds
  <2>3. Emit(Event("done", b, 0, 0, how = "ok")) /\ WorkerUnchanged
    BY <2>1 DEF Ends
  <2> QED BY <2>2, <2>3, BareEvent, Zenon
<1>4. CASE Enumerate(b)
  <2>1. PICK n \in 0..MaxCount : Emit(Event("enumerated", b, 0, n, TRUE))
    BY <1>4 DEF Enumerate
  <2>2. "enumerated" \in Kinds /\ TRUE \in BOOLEAN
    BY Zenon DEF Kinds
  <2>3. 0 \in Nat /\ n \in Nat /\ 0 <= n
    OBVIOUS
  <2>4. WorkerUnchanged
    BY <1>4 DEF Enumerate
  <2>5. \A k \in Kinds, ok \in BOOLEAN :
           LET e == Event(k, b, 0, n, ok)
           IN  e \in Events /\ e.box = b /\ e.at = <<pass, nth[b] + 1>>
    BY <2>3, EventType
  <2> QED BY <2>1, <2>2, <2>4, <2>5, Zenon
<1>5. CASE Apply(b)
  <2>1. /\ Emit(Event("applied", b, count[b] + 1, total[b], TRUE)) /\ WorkerUnchanged
        /\ count[b] < total[b]
    BY <1>5 DEF Apply
  <2>2. "applied" \in Kinds /\ TRUE \in BOOLEAN
    BY Zenon DEF Kinds
  <2>3. count[b] + 1 \in Nat /\ total[b] \in Nat /\ count[b] + 1 <= total[b]
    BY <2>1 DEF SyncType, TypeOK, WorkerType
  <2>4. \A k \in Kinds, ok \in BOOLEAN :
           LET e == Event(k, b, count[b] + 1, total[b], ok)
           IN  e \in Events /\ e.box = b /\ e.at = <<pass, nth[b] + 1>>
    BY <2>3, EventType
  <2> QED BY <2>1, <2>2, <2>4, Zenon
<1> QED BY <1>1, <1>2, <1>3, <1>4, <1>5 DEF Emits

\* A worker's step keeps the types.
LEMMA WorkerStepType ==
  ASSUME SyncType, NEW b \in Boxes, Worker(b)
  PROVE  SyncType'
<1>1. CASE Emits(b)
  <2>1. PICK e \in Events : Emit(e) /\ WorkerUnchanged
    BY <1>1, EmitsOne
  <2>2. UNCHANGED <<pump, hand, header>>
    BY <2>1 DEF WorkerUnchanged, loopVars
  <2>3. FlowType' /\ Len(ch') <= Buffer /\ nth' \in [Boxes -> Nat]
    BY <2>1, <2>2, EmitType
  <2>4. CASE Begin(b)
    <3>1. /\ work[b] = "begin" /\ work' = [work EXCEPT ![b] = "sync"]
          /\ UNCHANGED <<active, phase, count, total, logs, summaries, mu>>
      BY <2>4 DEF Begin
    <3>2. Running' \subseteq Running
      BY <3>1 DEF Running, SyncType, TypeOK, WorkerType
    <3> QED BY <2>1, <2>3, <3>1, <3>2, WorkerKeeps
            DEF SyncType, TypeOK, RunnerType, WorkerType, DisplayType
  <2>5. CASE Enumerate(b)
    <3>1. PICK n \in 0..MaxCount : total' = [total EXCEPT ![b] = n]
      BY <2>5 DEF Enumerate
    <3>2. /\ phase' = [phase EXCEPT ![b] = "backfill"] /\ count' = [count EXCEPT ![b] = 0]
          /\ UNCHANGED <<active, work, logs, summaries, mu>>
      BY <2>5 DEF Enumerate
    <3>3. Running' \subseteq Running
      BY <3>2 DEF Running
    <3>4. 0 \in 0..MaxCount
      BY SyncUIBounds
    <3> QED BY <2>1, <2>3, <3>1, <3>2, <3>3, <3>4, WorkerKeeps
            DEF SyncType, TypeOK, RunnerType, WorkerType, DisplayType, Phases
  <2>6. CASE Apply(b)
    <3>1. /\ count[b] < total[b] /\ count' = [count EXCEPT ![b] = @ + 1]
          /\ UNCHANGED <<active, work, phase, total, logs, summaries, mu>>
      BY <2>6 DEF Apply
    <3>2. Running' \subseteq Running
      BY <3>1 DEF Running
    <3>3. count' \in [Boxes -> 0..MaxCount]
      BY <3>1, SyncUIBounds DEF SyncType, TypeOK, WorkerType
    <3> QED BY <2>1, <2>3, <3>1, <3>2, <3>3, WorkerKeeps
            DEF SyncType, TypeOK, RunnerType, WorkerType, DisplayType
  <2>7. CASE Batch(b)
    <3>1. /\ count[b] < MaxCount /\ count' = [count EXCEPT ![b] = @ + 1]
          /\ phase' = [phase EXCEPT ![b] = "tail"]
          /\ UNCHANGED <<active, work, total, logs, summaries, mu>>
      BY <2>7 DEF Batch
    <3>2. Running' \subseteq Running
      BY <3>1 DEF Running
    <3>3. count' \in [Boxes -> 0..MaxCount]
      BY <3>1, SyncUIBounds DEF SyncType, TypeOK, WorkerType
    <3> QED BY <2>1, <2>3, <3>1, <3>2, <3>3, WorkerKeeps
            DEF SyncType, TypeOK, RunnerType, WorkerType, DisplayType, Phases
  <2>8. CASE End(b)
    <3>1. PICK how \in {"ok", "failed"} : Ends(b, how)
      BY <2>8 DEF End
    <3>2. /\ summaries' = [summaries EXCEPT ![b] = how]
          /\ active' \subseteq active
          /\ work' = [work EXCEPT ![b] = "off"]
          /\ phase' = [phase EXCEPT ![b] = "starting"]
          /\ count' = [count EXCEPT ![b] = 0] /\ total' = [total EXCEPT ![b] = 0]
          /\ logs' = [logs EXCEPT ![b] = 0]
          /\ UNCHANGED mu
      BY <3>1 DEF Ends
    <3>3. Running' \subseteq Running
      BY <3>2 DEF Running, SyncType, TypeOK, WorkerType
    <3>4. 0 \in 0..MaxCount /\ 0 \in 0..MaxLogs
      BY SyncUIBounds
    <3>5. /\ summaries' \in [Boxes -> Verdicts]
          /\ work' \in [Boxes -> {"off", "begin", "sync", "write", "println"}]
          /\ phase' \in [Boxes -> Phases]
      BY <3>2 DEF SyncType, TypeOK, WorkerType, Verdicts, Phases
    <3>6. /\ count' \in [Boxes -> 0..MaxCount] /\ total' \in [Boxes -> 0..MaxCount]
          /\ logs' \in [Boxes -> 0..MaxLogs]
      BY <3>2, <3>4 DEF SyncType, TypeOK, WorkerType
    <3> QED BY <2>1, <2>3, <3>2, <3>3, <3>5, <3>6, WorkerKeeps
            DEF SyncType, TypeOK, RunnerType, DisplayType
  <2> QED BY <1>1, <2>4, <2>5, <2>6, <2>7, <2>8 DEF Emits
<1>2. CASE Log(b) \/ Write(b) \/ Println(b)
  <2>1. /\ WorkerUnchanged
        /\ UNCHANGED <<active, phase, count, total, nth, summaries, ch>>
    BY <1>2 DEF Log, Write, Println
  <2>2. /\ work[b] # "off"
        /\ \E w \in {"sync", "write", "println"} : work' = [work EXCEPT ![b] = w]
        /\ mu' \in {mu, b, None}
    BY <1>2 DEF Log, Write, Println
  <2>3. logs' \in [Boxes -> 0..MaxLogs]
    <3>1. CASE Log(b)
      <4>1. logs[b] < MaxLogs /\ logs' = [logs EXCEPT ![b] = @ + 1]
        BY <3>1 DEF Log
      <4> QED BY <4>1, SyncUIBounds DEF SyncType, TypeOK, WorkerType
    <3>2. CASE Write(b) \/ Println(b)
      <4>1. UNCHANGED logs
        BY <3>2 DEF Write, Println
      <4> QED BY <4>1 DEF SyncType, TypeOK, WorkerType
    <3> QED BY <1>2, <3>1, <3>2
  <2>4. Running' \subseteq Running
    BY <2>2 DEF Running, SyncType, TypeOK, WorkerType
  <2>5. FlowType' /\ Len(ch') <= Buffer
    BY <2>1 DEF SyncType, FlowType, TypeOK, DisplayType, WorkerUnchanged, loopVars
  <2>6. work' \in [Boxes -> {"off", "begin", "sync", "write", "println"}]
    BY <2>2 DEF SyncType, TypeOK, WorkerType
  <2> QED BY <2>1, <2>2, <2>3, <2>4, <2>5, <2>6, WorkerKeeps
          DEF SyncType, TypeOK, RunnerType, WorkerType, DisplayType
<1> QED BY <1>1, <1>2 DEF Worker, Emits

\* What the goroutine that runs the sync leaves alone keeps its type.
LEMMA RunnerKeeps ==
  ASSUME SyncType, RunnerUnchanged, RunnerType',
         Cardinality(Running') <= Concurrency,
         work' \in [Boxes -> {"off", "begin", "sync", "write", "println"}],
         summaries' \in [Boxes -> Verdicts], nth' \in [Boxes -> Nat],
         ui' \in {"running", "quitting", "stopped"}, header' = header
  PROVE  SyncType'
<1>1. /\ UNCHANGED <<phase, count, total, logs, mu, ch, pump, hand, keyed, cancelled>>
      /\ UNCHANGED <<main, released, closed, stopping, outcome>>
  BY DEF RunnerUnchanged, mainVars
<1>2. WorkerType'
  BY <1>1 DEF SyncType, TypeOK, WorkerType, Running
<1>3. DisplayType'
  BY <1>1 DEF SyncType, TypeOK, DisplayType
<1>4. MainType'
  BY <1>1, Zenon DEF SyncType, TypeOK, MainType
<1>5. FlowType'
  BY <1>1 DEF SyncType, FlowType
<1> QED BY <1>2, <1>3, <1>4, <1>5 DEF SyncType, TypeOK

\* Each of its steps keeps the types.
LEMMA RunnerStepType ==
  ASSUME SyncType, Runner
  PROVE  SyncType'
<1> USE DEF SyncType, TypeOK
<1>1. CASE ListFails \/ SummariesIn \/ WatchStops \/ SendDone
  <2>1. /\ UNCHANGED <<pass, todo, work, summaries, nth, header>>
        /\ RunnerUnchanged
    BY <1>1 DEF ListFails, SummariesIn, WatchStops, SendDone
  <2>2. /\ runner' \in {"list", "spawn", "timer", "send", "over"}
        /\ result' \in Verdicts
        /\ ui' \in {"running", "quitting", "stopped"}
    BY <1>1 DEF ListFails, SummariesIn, WatchStops, SendDone, PassOver, Verdicts,
                RunnerType, DisplayType
  <2>3. RunnerType'
    <3>1. UNCHANGED <<watch, active, pass, todo>>
      BY <2>1 DEF RunnerUnchanged
    <3> QED BY <2>2, <3>1, Zenon DEF RunnerType
  <2>4. Cardinality(Running') <= Concurrency
    BY <2>1 DEF Running, WorkerType
  <2> QED BY <2>1, <2>2, <2>3, <2>4, RunnerKeeps DEF WorkerType
<1>2. CASE ListMailboxes
  <2>1. /\ UNCHANGED <<pass, work, result, nth, ui, header>> /\ RunnerUnchanged
        /\ runner' = "spawn" /\ todo' = active
        /\ summaries' = [b \in Boxes |-> None]
    BY <1>2 DEF ListMailboxes
  <2>2. RunnerType'
    <3>1. UNCHANGED <<watch, active>>
      BY <2>1 DEF RunnerUnchanged
    <3> QED BY <2>1, <3>1, Zenon DEF RunnerType
  <2>3. Cardinality(Running') <= Concurrency
    BY <2>1 DEF Running, WorkerType
  <2>4. summaries' \in [Boxes -> Verdicts]
    BY <2>1 DEF Verdicts
  <2> QED BY <2>1, <2>2, <2>3, <2>4, RunnerKeeps DEF WorkerType, DisplayType
<1>3. ASSUME NEW b \in Boxes, Spawn(b)
      PROVE  SyncType'
  <2>1. /\ UNCHANGED <<runner, pass, summaries, result, nth, ui, header>>
        /\ RunnerUnchanged
        /\ todo' = todo \ {b} /\ work' = [work EXCEPT ![b] = "begin"]
        /\ Cardinality(Running) < Concurrency
    BY <1>3 DEF Spawn
  <2>2. RunnerType'
    <3>1. UNCHANGED <<watch, active>>
      BY <2>1 DEF RunnerUnchanged
    <3>2. todo' \subseteq Boxes
      BY <2>1 DEF RunnerType
    <3> QED BY <2>1, <3>1, <3>2, Zenon DEF RunnerType
  <2>3. Cardinality(Running') <= Concurrency
    <3>1. IsFiniteSet(Running)
      BY SyncUIBounds, FS_Subset DEF Running
    <3>2. Running' = Running \union {b}
      BY <2>1 DEF Running, WorkerType
    <3>3. Cardinality(Running) \in Nat
      BY <3>1, FS_CardinalityType
    <3>4. \/ Cardinality(Running \union {b}) = Cardinality(Running)
          \/ Cardinality(Running \union {b}) = Cardinality(Running) + 1
      BY <3>1, FS_AddElement
    <3> QED BY <2>1, <3>2, <3>3, <3>4, SyncUIBounds
  <2>4. work' \in [Boxes -> {"off", "begin", "sync", "write", "println"}]
    BY <2>1 DEF WorkerType
  <2> QED BY <2>1, <2>2, <2>3, <2>4, RunnerKeeps DEF WorkerType, DisplayType
<1>4. CASE Timer
  <2>1. /\ UNCHANGED <<todo, work, summaries, result, ui, header>> /\ RunnerUnchanged
        /\ runner' = "list" /\ pass < MaxPasses /\ pass' = pass + 1
        /\ nth' = [b \in Boxes |-> 0]
    BY <1>4 DEF Timer
  <2>2. RunnerType'
    <3>1. UNCHANGED <<watch, active>>
      BY <2>1 DEF RunnerUnchanged
    <3>2. pass' \in 1..MaxPasses
      BY <2>1, SyncUIBounds DEF RunnerType
    <3> QED BY <2>1, <3>1, <3>2, Zenon DEF RunnerType
  <2>3. Cardinality(Running') <= Concurrency
    BY <2>1 DEF Running, WorkerType
  <2> QED BY <2>1, <2>2, <2>3, RunnerKeeps DEF WorkerType, DisplayType
<1> QED BY <1>1, <1>2, <1>3, <1>4 DEF Runner

\* The pump moves events without making any.
LEMMA PumpStepType ==
  ASSUME SyncType, Pump
  PROVE  SyncType'
<1> USE DEF SyncType, TypeOK
<1>1. UNCHANGED <<runVars, mu, ui, keyed, cancelled, mainVars>>
  BY DEF Pump, PumpTakes, PumpSends, PumpExits, loopVars
<1>2. RunnerType' /\ MainType'
  BY <1>1, Zenon DEF runVars, mainVars, RunnerType, MainType
<1>3. WorkerType'
  BY <1>1 DEF runVars, workerVars, WorkerType, Running
<1>4. DisplayType' /\ FlowType'
  <2>1. CASE PumpTakes
    <3>1. /\ Len(ch) \in Nat /\ Len(ch) >= 1 /\ ch \in Seq(Events)
          /\ hand' = <<ch[1]>>
          /\ ch' = [j \in 1..(Len(ch) - 1) |-> ch[j + 1]]
          /\ pump' = "send" /\ header' = header
      BY <2>1 DEF PumpTakes, Oldest, FlowType, loopVars
    <3>2. \A j \in 1..Len(ch) : ch[j] \in Events
      BY <3>1
    <3>3. ch' \in Seq(Events) /\ Len(ch') = Len(ch) - 1
      BY <3>1, <3>2
    <3>4. hand' \in Seq(Events) /\ Len(hand') = 1
      BY <3>1, <3>2
    <3> QED BY <1>1, <3>1, <3>3, <3>4, SyncUIBounds DEF DisplayType, FlowType
  <2>2. CASE PumpSends
    <3>1. hand[1] \in Events
      <4>1. hand \in Seq(Events) /\ Len(hand) = 1
        BY <2>2 DEF PumpSends, FlowType
      <4> QED BY <4>1
    <3>2. hand[1].box \in Boxes
      BY <3>1 DEF Events
    <3>3. header' \in [Boxes -> Lines]
      <4>1. CASE UNCHANGED header
        BY <4>1 DEF FlowType
      <4>2. CASE header' = [header EXCEPT ![hand[1].box] = Shown(@, hand[1])]
        <5>1. Shown(header[hand[1].box], hand[1]) \in Lines
          BY <3>1, <3>2, ShownType DEF FlowType
        <5> QED BY <4>2, <5>1 DEF FlowType
      <4> QED BY <2>2, <4>1, <4>2 DEF PumpSends
    <3>4. /\ pump' = "select" /\ hand' = << >> /\ ch' = ch
      BY <2>2 DEF PumpSends
    <3>5. \A b \in Boxes : header'[b].phase \in Phases \union {None}
      BY <3>3 DEF Lines
    <3> QED BY <1>1, <3>3, <3>4, <3>5 DEF DisplayType, FlowType
  <2>3. CASE PumpExits
    BY <1>1, <2>3 DEF PumpExits, DisplayType, FlowType, loopVars
  <2> QED BY <2>1, <2>2, <2>3 DEF Pump
<1> QED BY <1>2, <1>3, <1>4

\* Nor do the loop, the operator and runSyncTUI touch the events.
LEMMA RestStepType ==
  ASSUME SyncType, LoopStops \/ CtrlC \/ Signal \/ Main
  PROVE  SyncType'
<1> USE DEF SyncType, TypeOK
<1>1. UNCHANGED <<runVars, mu, ch, pump, hand, header>>
  BY DEF LoopStops, CtrlC, Signal, Main, CancelProgram, CloseWriter, StopPump, JoinPump,
         Return, MainUnchanged, loopVars
<1>2. RunnerType'
  BY <1>1, Zenon DEF runVars, RunnerType
<1>3. WorkerType'
  BY <1>1 DEF runVars, workerVars, WorkerType, Running
<1>4. DisplayType' /\ FlowType'
  <2>1. ui' \in {"running", "quitting", "stopped"}
    BY DEF LoopStops, CtrlC, Signal, Main, CancelProgram, CloseWriter, StopPump, JoinPump,
           Return, MainUnchanged, loopVars, DisplayType
  <2> QED BY <1>1, <2>1 DEF DisplayType, FlowType
<1>5. MainType'
  <2>1. CASE LoopStops
    BY <2>1, Zenon DEF LoopStops, mainVars, MainType
  <2>2. CASE CtrlC
    <3>1. keyed' = TRUE /\ UNCHANGED <<cancelled, mainVars>>
      BY <2>2, Zenon DEF CtrlC
    <3> QED BY <3>1, Zenon DEF mainVars, MainType
  <2>3. CASE Signal
    <3>1. cancelled' = TRUE /\ UNCHANGED <<keyed, mainVars>>
      BY <2>3, Zenon DEF Signal, loopVars
    <3> QED BY <3>1, Zenon DEF mainVars, MainType
  <2>4. CASE CancelProgram
    <3>1. released' = TRUE /\ main' = "close"
          /\ UNCHANGED <<closed, stopping, outcome, keyed, cancelled>>
      BY <2>4, Zenon DEF CancelProgram, MainUnchanged, loopVars
    <3> QED BY <3>1, Zenon DEF MainType
  <2>5. CASE CloseWriter
    <3>1. closed' = TRUE /\ main' = "stop"
          /\ UNCHANGED <<released, stopping, outcome, keyed, cancelled>>
      BY <2>5, Zenon DEF CloseWriter, MainUnchanged, loopVars
    <3> QED BY <3>1, Zenon DEF MainType
  <2>6. CASE StopPump
    <3>1. stopping' = TRUE /\ main' = "join"
          /\ UNCHANGED <<released, closed, outcome, keyed, cancelled>>
      BY <2>6, Zenon DEF StopPump, MainUnchanged, loopVars
    <3> QED BY <3>1, Zenon DEF MainType
  <2>7. CASE JoinPump
    <3>1. main' = "drain"
          /\ UNCHANGED <<released, closed, stopping, outcome, keyed, cancelled>>
      BY <2>7, Zenon DEF JoinPump, MainUnchanged, loopVars
    <3> QED BY <3>1, Zenon DEF MainType
  <2>8. CASE Return
    <3>1. outcome' = result /\ main' = "returned"
          /\ UNCHANGED <<released, closed, stopping, keyed, cancelled>>
      BY <2>8, Zenon DEF Return, MainUnchanged, loopVars
    <3> QED BY <3>1, Zenon DEF MainType, RunnerType
  <2> QED BY <2>1, <2>2, <2>3, <2>4, <2>5, <2>6, <2>7, <2>8 DEF Main
<1> QED BY <1>2, <1>3, <1>4, <1>5

\* So does a step that changes nothing.
LEMMA NextSyncType ==
  ASSUME SyncType, [Next]_vars
  PROVE  SyncType'
<1>1. CASE Next
  BY <1>1, WorkerStepType, RunnerStepType, PumpStepType, RestStepType DEF Next
<1>2. CASE UNCHANGED vars
  <2>1. /\ UNCHANGED <<watch, active, runner, pass, todo, result>>
        /\ UNCHANGED <<work, phase, count, total, logs, nth, summaries>>
        /\ UNCHANGED <<mu, ch, pump, hand, ui, header, keyed, cancelled>>
        /\ UNCHANGED <<main, released, closed, stopping, outcome>>
    BY <1>2 DEF vars, runVars, workerVars, loopVars, mainVars
  <2>2. RunnerType' /\ MainType'
    BY <2>1, Zenon DEF SyncType, TypeOK, RunnerType, MainType
  <2>3. WorkerType' /\ DisplayType' /\ FlowType'
    BY <2>1 DEF SyncType, TypeOK, WorkerType, Running, DisplayType, FlowType
  <2> QED BY <2>2, <2>3 DEF SyncType, TypeOK
<1> QED BY <1>1, <1>2

\* The types hold before the first step.
LEMMA InitSyncType ==
  ASSUME Init
  PROVE  SyncType
<1>1. RunnerType
  <2>1. watch \in BOOLEAN
    BY SyncUIBounds, Zenon DEF Init
  <2>2. /\ active \subseteq Boxes /\ todo \subseteq Boxes
        /\ runner \in {"list", "spawn", "timer", "send", "over"}
        /\ pass \in 1..MaxPasses /\ result \in Verdicts
    BY SyncUIBounds DEF Init, Verdicts
  <2> QED BY <2>1, <2>2, Zenon DEF RunnerType
<1>2. WorkerType
  <2>1. Running = {}
    BY DEF Init, Running
  <2>2. Cardinality(Running) = 0
    BY <2>1, FS_EmptySet
  <2> QED BY <2>2, SyncUIBounds DEF Init, WorkerType, Phases, Verdicts
<1>3. DisplayType
  BY SyncUIBounds DEF Init, DisplayType, NoLine
<1>4. MainType
  BY Zenon DEF Init, MainType, Verdicts
<1>5. FlowType
  <2>1. NoLine \in Lines
    BY DEF NoLine, Lines, Stamps
  <2> QED BY <2>1 DEF Init, FlowType
<1> QED BY <1>1, <1>2, <1>3, <1>4, <1>5 DEF SyncType, TypeOK

\* Types, with those of the events and of the lines.
LEMMA AlwaysSyncType == Spec => []SyncType
BY InitSyncType, NextSyncType, PTL DEF Spec

\* Every variable keeps its type, no more workers run than cfg.Concurrency and
\* the event buffer keeps within its capacity, for every number of mailboxes.
THEOREM TypeCorrect == Spec => []TypeOK
BY AlwaysSyncType, PTL DEF SyncType

\* The bar of the header never passes its end (syncModel.Update, percent),
\* whichever events the full buffer dropped.
THEOREM BarWithinItsEnd == Spec => []DoneWithinTotal
<1>1. SyncType => DoneWithinTotal
  BY DEF SyncType, FlowType, Lines, DoneWithinTotal
<1> QED BY <1>1, AlwaysSyncType, PTL

-----------------------------------------------------------------------------
(* Teardown leaves nothing running.  What runSyncTUI waits for, the pump and *)
(* the run's error, must vouch for what it does not wait for: the error is   *)
(* sent after SyncAll has joined its workers, and the writer's lock is only  *)
(* ever held by a worker.                                                    *)

\* Workers run while SyncAll does, and the error is sent after it.
JoinedInv ==
    /\ runner # "spawn" => todo = {} /\ Running = {}
    /\ \A b \in todo : work[b] = "off"
    /\ runner \notin {"send", "over"} => result = None

\* The writer's lock is held by a worker inside Println.
LockInv == mu # None => work[mu] = "println"

\* What each of runSyncTUI's last steps has waited for.
WaitInv ==
    /\ main # "run" => ui = "stopped"
    /\ main \in {"drain", "returned"} => pump = "exited"
    /\ main = "returned" => result # None /\ outcome = result

TeardownInv == JoinedInv /\ LockInv /\ WaitInv

\* What a worker's step may change of the run.
LEMMA WorkerMoves ==
  ASSUME SyncType, NEW b \in Boxes, Worker(b)
  PROVE  /\ work[b] # "off"
         /\ \E w \in {"off", "sync", "write", "println"} : work' = [work EXCEPT ![b] = w]
         /\ UNCHANGED <<watch, runner, pass, todo, result, pump, hand, ui, header>>
         /\ UNCHANGED <<main, outcome>>
<1>1. WorkerUnchanged
  BY DEF Worker, Begin, Enumerate, Apply, Batch, End, Ends, Log, Write, Println
<1>2. UNCHANGED <<watch, runner, pass, todo, result, pump, hand, ui, header, main, outcome>>
  BY <1>1 DEF WorkerUnchanged, loopVars, mainVars
<1>3. work \in [Boxes -> {"off", "begin", "sync", "write", "println"}]
  BY DEF SyncType, TypeOK, WorkerType
<1>4. CASE Begin(b) \/ Log(b) \/ Write(b) \/ Println(b)
  BY <1>2, <1>4 DEF Begin, Log, Write, Println
<1>5. CASE Enumerate(b) \/ Apply(b) \/ Batch(b)
  <2>1. work[b] = "sync" /\ work' = work
    BY <1>5 DEF Enumerate, Apply, Batch
  <2>2. work' = [work EXCEPT ![b] = "sync"]
    BY <2>1, <1>3
  <2> QED BY <1>2, <2>1, <2>2
<1>6. CASE End(b)
  BY <1>2, <1>6 DEF End, Ends
<1> QED BY <1>4, <1>5, <1>6 DEF Worker

\* The lock is taken for Println and given back after it.
LEMMA WorkerLock ==
  ASSUME SyncType, NEW b \in Boxes, Worker(b)
  PROVE  \/ UNCHANGED mu /\ work[b] # "println"
         \/ mu' = None
         \/ mu' = b /\ work' = [work EXCEPT ![b] = "println"]
BY DEF Worker, Begin, Enumerate, Apply, Batch, End, Ends, Log, Write, Println

\* A worker that ends leaves the lock and what waits for it as they should be.
LEMMA WorkerTeardown ==
  ASSUME SyncType, TeardownInv, NEW b \in Boxes, Worker(b)
  PROVE  TeardownInv'
<1> work \in [Boxes -> {"off", "begin", "sync", "write", "println"}]
  BY DEF SyncType, TypeOK, WorkerType
<1>1. /\ work[b] # "off"
      /\ UNCHANGED <<runner, todo, result, pump, ui, main, outcome>>
  BY WorkerMoves
<1>2. PICK w : work' = [work EXCEPT ![b] = w]
  BY WorkerMoves
<1>3. b \in Running
  BY <1>1 DEF Running
<1>4. JoinedInv'
  BY <1>1, <1>2, <1>3 DEF TeardownInv, JoinedInv
<1>5. LockInv'
  <2>1. mu \in Boxes \union {None}
    BY DEF SyncType, TypeOK, DisplayType
  <2>2. CASE UNCHANGED mu /\ work[b] # "println"
    BY <1>2, <2>1, <2>2 DEF TeardownInv, LockInv
  <2>3. CASE mu' = None
    BY <2>3 DEF LockInv
  <2>4. CASE mu' = b /\ work' = [work EXCEPT ![b] = "println"]
    BY <2>4 DEF LockInv
  <2> QED BY <2>2, <2>3, <2>4, WorkerLock
<1>6. WaitInv'
  BY <1>1 DEF TeardownInv, WaitInv
<1> QED BY <1>4, <1>5, <1>6 DEF TeardownInv

\* SyncAll joins its workers before it sends the run's error.
LEMMA RunnerTeardown ==
  ASSUME SyncType, TeardownInv, Runner
  PROVE  TeardownInv'
<1> work \in [Boxes -> {"off", "begin", "sync", "write", "println"}]
  BY DEF SyncType, TypeOK, WorkerType
<1>1. UNCHANGED <<watch, active, mu, pump, main, outcome>>
  BY DEF Runner, ListFails, ListMailboxes, Spawn, SummariesIn, Timer, WatchStops, SendDone,
         RunnerUnchanged, mainVars
<1>2. JoinedInv'
  <2>1. CASE ListFails \/ SummariesIn
    BY <2>1 DEF ListFails, SummariesIn, AllDone, PassOver, TeardownInv, JoinedInv, Running
  <2>2. CASE ListMailboxes
    <3>1. /\ runner = "list" /\ runner' = "spawn" /\ todo' = active
          /\ UNCHANGED <<work, result>>
      BY <2>2 DEF ListMailboxes
    <3>2. \A b \in active : work[b] = "off"
      BY <3>1 DEF TeardownInv, JoinedInv, Running, SyncType, TypeOK, RunnerType
    <3> QED BY <3>1, <3>2 DEF TeardownInv, JoinedInv
  <2>3. ASSUME NEW b \in Boxes, Spawn(b) PROVE JoinedInv'
    BY <2>3 DEF Spawn, TeardownInv, JoinedInv, SyncType, TypeOK, RunnerType
  <2>4. CASE Timer \/ WatchStops \/ SendDone
    BY <2>4 DEF Timer, WatchStops, SendDone, TeardownInv, JoinedInv, Running
  <2> QED BY <2>1, <2>2, <2>3, <2>4 DEF Runner
<1>3. LockInv'
  <2>1. ASSUME NEW b \in Boxes, Spawn(b) PROVE LockInv'
    <3>1. work[b] = "off" /\ work' = [work EXCEPT ![b] = "begin"]
      BY <2>1 DEF Spawn, TeardownInv, JoinedInv
    <3>2. mu \in Boxes \union {None}
      BY DEF SyncType, TypeOK, DisplayType
    <3> QED BY <1>1, <3>1, <3>2 DEF TeardownInv, LockInv
  <2>2. CASE ~ \E b \in Boxes : Spawn(b)
    <3>1. UNCHANGED work
      BY <2>2 DEF Runner, ListFails, ListMailboxes, SummariesIn, Timer, WatchStops, SendDone
    <3> QED BY <1>1, <3>1 DEF TeardownInv, LockInv
  <2> QED BY <2>1, <2>2
<1>4. WaitInv'
  <2>1. ui = "stopped" => ui' = "stopped"
    BY DEF Runner, ListFails, ListMailboxes, Spawn, SummariesIn, Timer, WatchStops, SendDone,
           Receiving
  <2>2. result # None => result' = result
    BY DEF Runner, ListFails, ListMailboxes, Spawn, SummariesIn, Timer, WatchStops, SendDone,
           TeardownInv, JoinedInv
  <2> QED BY <1>1, <2>1, <2>2 DEF TeardownInv, WaitInv
<1> QED BY <1>2, <1>3, <1>4 DEF TeardownInv

\* The display's steps start no worker, and runSyncTUI's wait for theirs.
LEMMA RestTeardown ==
  ASSUME SyncType, TeardownInv, Pump \/ LoopStops \/ CtrlC \/ Signal \/ Main
  PROVE  TeardownInv'
<1>1. UNCHANGED <<watch, active, runner, pass, todo, work, summaries, result, mu>>
  BY DEF Pump, PumpTakes, PumpSends, PumpExits, LoopStops, CtrlC, Signal, Main,
         CancelProgram, CloseWriter, StopPump, JoinPump, Return, MainUnchanged, runVars,
         workerVars
<1>2. JoinedInv' /\ LockInv'
  BY <1>1 DEF TeardownInv, JoinedInv, LockInv, Running
<1>3. WaitInv'
  <2>1. CASE Pump
    BY <1>1, <2>1 DEF Pump, PumpTakes, PumpSends, PumpExits, loopVars, mainVars,
                      TeardownInv, WaitInv
  <2>2. CASE LoopStops \/ CtrlC \/ Signal
    BY <1>1, <2>2 DEF LoopStops, CtrlC, Signal, loopVars, mainVars, TeardownInv, WaitInv
  <2>3. CASE Main
    BY <1>1, <2>3 DEF Main, CancelProgram, CloseWriter, StopPump, JoinPump, Return,
                      MainUnchanged, loopVars, TeardownInv, WaitInv
  <2> QED BY <2>1, <2>2, <2>3
<1> QED BY <1>2, <1>3 DEF TeardownInv

\* No step breaks what teardown relies on.
LEMMA NextTeardown ==
  ASSUME SyncType, TeardownInv, [Next]_vars
  PROVE  TeardownInv'
<1>1. CASE Next
  BY <1>1, WorkerTeardown, RunnerTeardown, RestTeardown DEF Next
<1>2. CASE UNCHANGED vars
  BY <1>2 DEF vars, runVars, workerVars, loopVars, mainVars, TeardownInv, JoinedInv, LockInv,
              WaitInv, Running
<1> QED BY <1>1, <1>2

\* When runSyncTUI returns no worker, pump or event loop is left and the
\* writer's lock is free, for every number of mailboxes, every buffer and every
\* way the run and the display may end.
THEOREM NothingLeft == Spec => []NothingLeftRunning
<1>1. Init => TeardownInv
  BY DEF Init, TeardownInv, JoinedInv, LockInv, WaitInv, Running
<1>2. SyncType /\ TeardownInv => NothingLeftRunning
  <2>1. SUFFICES ASSUME SyncType, TeardownInv, main = "returned"
                 PROVE  Running = {} /\ pump = "exited" /\ ui = "stopped" /\ mu = None
    BY DEF NothingLeftRunning
  <2>2. pump = "exited" /\ ui = "stopped" /\ result # None
    BY <2>1 DEF TeardownInv, WaitInv
  <2>3. Running = {}
    BY <2>1, <2>2 DEF TeardownInv, JoinedInv
  <2>4. mu = None
    BY <2>1, <2>3 DEF TeardownInv, LockInv, Running, SyncType, TypeOK, DisplayType
  <2> QED BY <2>2, <2>3, <2>4
<1> QED BY <1>1, <1>2, NextTeardown, AlwaysSyncType, PTL DEF Spec

-----------------------------------------------------------------------------
(* A clean exit means every mailbox was synced.                            *)

\* A one-shot run starts a worker for every mailbox, and none goes without a
\* summary; the verdict is taken from summaries nobody changes any more.
SyncedInv ==
    ~watch =>
        /\ runner # "timer"
        /\ runner = "list" => active = Boxes
        /\ runner = "spawn" =>
               \A b \in Boxes : b \in todo \/ b \in Running \/ summaries[b] # None
        /\ result = "ok" => \A b \in Boxes : summaries[b] = "ok"

\* A worker leaves a summary behind, that of its own mailbox.
LEMMA WorkerVerdict ==
  ASSUME SyncType, NEW b \in Boxes, Worker(b)
  PROVE  \/ UNCHANGED summaries /\ work'[b] # "off"
         \/ /\ \E how \in {"ok", "failed"} : summaries' = [summaries EXCEPT ![b] = how]
            /\ work' = [work EXCEPT ![b] = "off"]
<1> work \in [Boxes -> {"off", "begin", "sync", "write", "println"}]
  BY DEF SyncType, TypeOK, WorkerType
<1>1. CASE End(b)
  BY <1>1 DEF End, Ends
<1>2. CASE Enumerate(b) \/ Apply(b) \/ Batch(b)
  BY <1>2 DEF Enumerate, Apply, Batch
<1>3. CASE Begin(b) \/ Log(b) \/ Write(b) \/ Println(b)
  BY <1>3 DEF Begin, Log, Write, Println
<1> QED BY <1>1, <1>2, <1>3 DEF Worker

\* Every step keeps each mailbox's claim to a worker or a summary.
LEMMA NextSynced ==
  ASSUME SyncType, TeardownInv, SyncedInv, [Next]_vars
  PROVE  SyncedInv'
<1> /\ work \in [Boxes -> {"off", "begin", "sync", "write", "println"}]
    /\ summaries \in [Boxes -> Verdicts]
  BY DEF SyncType, TypeOK, WorkerType
<1> USE DEF SyncedInv
<1>1. ASSUME NEW b \in Boxes, Worker(b)
      PROVE  SyncedInv'
  <2>1. work[b] # "off" /\ UNCHANGED <<watch, runner, todo, result>>
    BY <1>1, WorkerMoves
  <2>2. runner = "spawn" /\ result = None
    BY <2>1 DEF TeardownInv, JoinedInv, Running
  <2>3. PICK w : work' = [work EXCEPT ![b] = w]
    BY <1>1, WorkerMoves
  <2>4. \A c \in Boxes \ {b} : work'[c] = work[c] /\ summaries'[c] = summaries[c]
    BY <1>1, <2>3, WorkerVerdict, ZenonT(60)
  <2>5. b \in Running' \/ summaries'[b] # None
    BY <1>1, WorkerVerdict DEF Running, None
  <2>6. ~watch => \A c \in Boxes : c \in todo' \/ c \in Running' \/ summaries'[c] # None
    BY <2>1, <2>2, <2>4, <2>5 DEF Running
  <2> QED BY <2>1, <2>2, <2>6 DEF None
<1>2. CASE Runner
  <2>1. UNCHANGED <<watch, active>>
    BY <1>2 DEF Runner, ListFails, ListMailboxes, Spawn, SummariesIn, Timer, WatchStops,
                SendDone, RunnerUnchanged
  <2>2. CASE ListFails
    BY <2>1, <2>2 DEF ListFails, PassOver
  <2>3. CASE ListMailboxes
    BY <2>1, <2>3 DEF ListMailboxes, TeardownInv, JoinedInv
  <2>4. ASSUME NEW b \in Boxes, Spawn(b) PROVE SyncedInv'
    BY <2>1, <2>4 DEF Spawn, Running
  <2>5. CASE SummariesIn
    <3>1. /\ runner = "spawn" /\ todo = {} /\ Running = {}
          /\ UNCHANGED <<summaries, work, todo>>
          /\ PassOver(\E b \in Boxes : summaries[b] = "failed")
      BY <2>5 DEF SummariesIn, AllDone
    <3>2. ~watch /\ ~(\E b \in Boxes : summaries[b] = "failed")
            => \A b \in Boxes : summaries[b] = "ok"
      BY <3>1 DEF Verdicts
    <3> QED BY <2>1, <3>1, <3>2 DEF PassOver
  <2>6. CASE Timer \/ WatchStops
    BY <2>1, <2>6 DEF Timer, WatchStops
  <2>7. CASE SendDone
    BY <2>1, <2>7 DEF SendDone
  <2> QED BY <1>2, <2>2, <2>3, <2>4, <2>5, <2>6, <2>7 DEF Runner
<1>3. CASE Pump \/ LoopStops \/ CtrlC \/ Signal \/ Main \/ UNCHANGED vars
  <2>1. UNCHANGED <<watch, active, runner, todo, work, summaries, result>>
    BY <1>3 DEF Pump, PumpTakes, PumpSends, PumpExits, LoopStops, CtrlC, Signal, Main,
           CancelProgram, CloseWriter, StopPump, JoinPump, Return, MainUnchanged, vars,
           runVars, workerVars
  <2> QED BY <2>1 DEF Running
<1> QED BY <1>1, <1>2, <1>3 DEF Next

\* A one-shot sync that ends without an error has synced every mailbox, whatever
\* the display, the signals and the other mailboxes did meanwhile.
THEOREM CleanExit == Spec => []CleanExitMeansSynced
<1>1. Init => TeardownInv /\ SyncedInv
  BY DEF Init, TeardownInv, JoinedInv, LockInv, WaitInv, SyncedInv, Running
<1>2. TeardownInv /\ SyncedInv => CleanExitMeansSynced
  BY DEF TeardownInv, WaitInv, SyncedInv, CleanExitMeansSynced
<1> QED BY <1>1, <1>2, NextTeardown, NextSynced, AlwaysSyncType, PTL DEF Spec

-----------------------------------------------------------------------------
(* The header never goes back.  Stamps number a mailbox's events in the order *)
(* they are emitted; on the way to the header, the buffer, the pump's hand and *)
(* the line hold them in that order.                                          *)

\* Later is a preorder on stamps.
LEMMA LaterReflexive ==
  ASSUME NEW s \in Stamps
  PROVE  Later(s, s)
BY DEF Stamps, Later

\* A stamp later than a later one is later.
LEMMA LaterTransitive ==
  ASSUME NEW r \in Stamps, NEW s \in Stamps, NEW t \in Stamps, Later(r, s), Later(s, t)
  PROVE  Later(r, t)
BY DEF Stamps, Later

\* The stamp of the last event a mailbox's run emitted.
LastAt(b) == <<pass, nth[b]>>

\* No event in the buffer comes before an earlier one of its mailbox.
Queued ==
    /\ \A i \in 1..Len(ch) : Later(ch[i].at, LastAt(ch[i].box))
    /\ \A i, j \in 1..Len(ch) :
           i < j /\ ch[i].box = ch[j].box => Later(ch[i].at, ch[j].at)

\* s is a stamp of b's that what is still in the buffer does not precede.
Ahead(b, s) ==
    /\ Later(s, LastAt(b))
    /\ \A i \in 1..Len(ch) : ch[i].box = b => Later(s, ch[i].at)

InOrder ==
    /\ Queued
    /\ \A i \in 1..Len(hand) :
           /\ Ahead(hand[i].box, hand[i].at)
           /\ Later(header[hand[i].box].at, hand[i].at)
    /\ \A b \in Boxes : Ahead(b, header[b].at)

\* The types of what is compared.
LEMMA StampTypes ==
  ASSUME SyncType
  PROVE  /\ \A b \in Boxes : LastAt(b) \in Stamps /\ header[b].at \in Stamps
         /\ \A i \in 1..Len(ch) : ch[i] \in Events /\ ch[i].box \in Boxes /\ ch[i].at \in Stamps
         /\ \A i \in 1..Len(hand) :
                hand[i] \in Events /\ hand[i].box \in Boxes /\ hand[i].at \in Stamps
         /\ Len(ch) \in Nat /\ ch \in Seq(Events)
         /\ Len(hand) \in Nat /\ hand \in Seq(Events)
<1>1. /\ pass \in Nat /\ nth \in [Boxes -> Nat]
      /\ ch \in Seq(Events) /\ hand \in Seq(Events) /\ header \in [Boxes -> Lines]
  BY SyncUIBounds DEF SyncType, TypeOK, RunnerType, WorkerType, FlowType
<1>2. \A b \in Boxes : LastAt(b) \in Stamps
  BY <1>1 DEF LastAt, Stamps
<1>3. \A e \in Events : e.box \in Boxes /\ e.at \in Stamps
  BY DEF Events
<1>4. \A l \in Lines : l.at \in Stamps
  BY DEF Lines
<1>5. \A i \in 1..Len(ch) : ch[i] \in Events
  BY <1>1
<1>6. \A i \in 1..Len(hand) : hand[i] \in Events
  BY <1>1
<1>7. Len(ch) \in Nat /\ Len(hand) \in Nat
  BY <1>1
<1> QED BY <1>1, <1>2, <1>3, <1>4, <1>5, <1>6, <1>7

\* Stamps only grow: a step that moves them on and leaves the events alone
\* keeps the order.
LEMMA StampsGrow ==
  ASSUME SyncType, SyncType', InOrder, UNCHANGED <<ch, hand, header>>,
         \A b \in Boxes : Later(LastAt(b), LastAt(b)')
  PROVE  InOrder'
<1>1. \A b \in Boxes : LastAt(b)' \in Stamps
  <2>1. pass' \in Nat /\ nth' \in [Boxes -> Nat]
    BY SyncUIBounds DEF SyncType, TypeOK, RunnerType, WorkerType
  <2> QED BY <2>1 DEF LastAt, Stamps
<1>2. Queued'
  <2>1. ASSUME NEW i \in 1..Len(ch)
        PROVE  Later(ch[i].at, LastAt(ch[i].box)')
    <3>1. Later(ch[i].at, LastAt(ch[i].box))
      BY DEF InOrder, Queued
    <3> QED BY <1>1, <3>1, StampTypes, LaterTransitive
  <2> QED BY <2>1 DEF InOrder, Queued, LastAt
<1>3. ASSUME NEW b \in Boxes, NEW s \in Stamps, Ahead(b, s)
      PROVE  Later(s, LastAt(b)') /\ \A i \in 1..Len(ch) : ch[i].box = b => Later(s, ch[i].at)
  BY <1>1, <1>3, StampTypes, LaterTransitive DEF Ahead
<1>4. \A i \in 1..Len(hand) : Ahead(hand[i].box, hand[i].at)'
  BY <1>3, StampTypes DEF InOrder, Ahead, LastAt
<1>5. \A b \in Boxes : Ahead(b, header[b].at)'
  BY <1>3, StampTypes DEF InOrder, Ahead, LastAt
<1> QED BY <1>2, <1>4, <1>5 DEF InOrder

\* An event that is emitted goes behind all the others of its mailbox.
LEMMA EmitOrder ==
  ASSUME SyncType, SyncType', InOrder, NEW e \in Events, Emit(e), e.at = <<pass, nth[e.box] + 1>>,
         UNCHANGED <<pass, hand, header>>
  PROVE  InOrder'
<1>1. /\ nth \in [Boxes -> Nat] /\ nth' = [nth EXCEPT ![e.box] = @ + 1] /\ pass \in Nat
      /\ pass' = pass
  BY SyncUIBounds DEF Emit, SyncType, TypeOK, RunnerType, WorkerType
<1>2. e.box \in Boxes /\ e.at \in Stamps
  BY DEF Events
<1>3. /\ LastAt(e.box)' = e.at
      /\ \A b \in Boxes : Later(LastAt(b), LastAt(b)')
      /\ \A b \in Boxes : LastAt(b)' \in Stamps
  BY <1>1, <1>2 DEF LastAt, Later, Stamps
<1>4. CASE UNCHANGED ch
  BY <1>3, <1>4, StampsGrow
<1>5. CASE ch' = Append(ch, e)
  <2>1. /\ Len(ch') = Len(ch) + 1 /\ ch'[Len(ch) + 1] = e
        /\ \A i \in 1..Len(ch) : ch'[i] = ch[i]
    BY <1>5, StampTypes, AppendProperties
  <2>2. \A b \in Boxes, s \in Stamps :
          Later(s, LastAt(b)) => Later(s, LastAt(b)') /\ (b = e.box => Later(s, e.at))
    BY <1>2, <1>3, StampTypes, LaterTransitive
  <2>3. ASSUME NEW b \in Boxes, NEW s \in Stamps, Ahead(b, s)
        PROVE  Later(s, LastAt(b)') /\ \A i \in 1..Len(ch') : ch'[i].box = b => Later(s, ch'[i].at)
    <3>1. Later(s, LastAt(b)') /\ (b = e.box => Later(s, e.at))
      BY <2>2, <2>3 DEF Ahead
    <3>2. ASSUME NEW i \in 1..Len(ch'), ch'[i].box = b
          PROVE  Later(s, ch'[i].at)
      <4>1. CASE i \in 1..Len(ch)
        BY <2>1, <2>3, <3>2, <4>1 DEF Ahead
      <4>2. CASE i = Len(ch) + 1
        BY <2>1, <3>1, <3>2, <4>2
      <4> QED BY <2>1, <4>1, <4>2, StampTypes
    <3> QED BY <3>1, <3>2
  <2>4. Queued'
    <3>1. ASSUME NEW i \in 1..Len(ch')
          PROVE  Later(ch'[i].at, LastAt(ch[i].box)')
      <4>1. CASE i \in 1..Len(ch)
        BY <2>1, <2>2, <4>1, StampTypes DEF InOrder, Queued
      <4>2. CASE i = Len(ch) + 1
        BY <1>2, <1>3, <2>1, <4>2, LaterReflexive
      <4> QED BY <2>1, <4>1, <4>2, StampTypes
    <3>2. ASSUME NEW i \in 1..Len(ch'), NEW j \in 1..Len(ch'), i < j, ch'[i].box = ch'[j].box
          PROVE  Later(ch'[i].at, ch'[j].at)
      <4>0. i \in 1..Len(ch)
        BY <2>1, <3>2, StampTypes
      <4>1. CASE j \in 1..Len(ch)
        BY <2>1, <3>2, <4>0, <4>1 DEF InOrder, Queued
      <4>2. CASE j = Len(ch) + 1
        <5>1. Later(ch[i].at, LastAt(ch[i].box))
          BY <4>0 DEF InOrder, Queued
        <5> QED BY <2>1, <2>2, <3>2, <4>0, <4>2, <5>1, StampTypes
      <4> QED BY <2>1, <4>1, <4>2, StampTypes
    <3> QED BY <3>1, <3>2 DEF Queued, LastAt
  <2>5. \A i \in 1..Len(hand) : Ahead(hand[i].box, hand[i].at)'
    BY <2>3, StampTypes DEF InOrder, Ahead, LastAt
  <2>6. \A b \in Boxes : Ahead(b, header[b].at)'
    BY <2>3, StampTypes DEF InOrder, Ahead, LastAt
  <2> QED BY <2>4, <2>5, <2>6 DEF InOrder
<1> QED BY <1>4, <1>5 DEF Emit

\* The pump takes the oldest event: those of its mailbox behind it are later.
LEMMA TakeOrder ==
  ASSUME SyncType, InOrder, PumpTakes
  PROVE  InOrder' /\ header' = header
<1>1. /\ Len(ch) \in Nat /\ Len(ch) >= 1 /\ ch \in Seq(Events)
      /\ hand' = <<ch[1]>>
      /\ ch' = [j \in 1..(Len(ch) - 1) |-> ch[j + 1]]
      /\ UNCHANGED <<pass, nth, header>>
  BY DEF PumpTakes, Oldest, SyncType, FlowType, loopVars, runVars, workerVars
<1>2. /\ Len(ch') = Len(ch) - 1
      /\ \A j \in 1..Len(ch') : j + 1 \in 1..Len(ch) /\ ch'[j] = ch[j + 1]
  BY <1>1
<1>3. \A b \in Boxes : LastAt(b)' = LastAt(b)
  BY <1>1 DEF LastAt
<1>4. Len(hand') = 1 /\ hand'[1] = ch[1] /\ 1 \in 1..Len(ch)
  BY <1>1
<1>5. Queued'
  <2>1. ASSUME NEW i \in 1..Len(ch')
        PROVE  Later(ch'[i].at, LastAt(ch[i].box)')
    BY <1>2, <1>3, StampTypes DEF InOrder, Queued
  <2>2. ASSUME NEW i \in 1..Len(ch'), NEW j \in 1..Len(ch'), i < j, ch'[i].box = ch'[j].box
        PROVE  Later(ch'[i].at, ch'[j].at)
    BY <1>1, <1>2, <2>2 DEF InOrder, Queued
  <2> QED BY <2>1, <2>2 DEF Queued, LastAt
<1>6. Ahead(hand[1].box, hand[1].at)'
  <2>1. Later(ch[1].at, LastAt(ch[1].box))
    BY <1>4 DEF InOrder, Queued
  <2>2. \A j \in 1..Len(ch') : ch'[j].box = ch[1].box => Later(ch[1].at, ch'[j].at)
    BY <1>1, <1>2, <1>4 DEF InOrder, Queued
  <2> QED BY <1>3, <1>4, <2>1, <2>2, StampTypes DEF Ahead, LastAt
<1>7. Later(header'[hand'[1].box].at, hand'[1].at)
  BY <1>1, <1>4, StampTypes DEF InOrder, Ahead
<1>8. \A b \in Boxes : Ahead(b, header[b].at)'
  BY <1>1, <1>2, <1>3 DEF InOrder, Ahead, LastAt
<1>9. \A i \in 1..Len(hand') : i = 1
  BY <1>4
<1> QED BY <1>1, <1>5, <1>6, <1>7, <1>8, <1>9 DEF InOrder

\* Showing the event in hand moves its mailbox's line on, or leaves it.
LEMMA SendOrder ==
  ASSUME SyncType, InOrder, PumpSends
  PROVE  InOrder' /\ \A b \in Boxes : Later(header[b].at, header'[b].at)
<1>1. /\ hand \in Seq(Events) /\ Len(hand) = 1 /\ hand' = << >>
      /\ UNCHANGED <<pass, nth, ch>>
  BY DEF PumpSends, SyncType, FlowType, runVars, workerVars
<1>2. /\ 1 \in 1..Len(hand) /\ hand[1] \in Events /\ hand[1].box \in Boxes
      /\ header \in [Boxes -> Lines]
  BY <1>1, StampTypes DEF SyncType, FlowType
<1>3. \A b \in Boxes : \/ header'[b] = header[b]
                       \/ b = hand[1].box /\ header'[b].at = hand[1].at
  <2>1. CASE UNCHANGED header
    BY <2>1
  <2>2. CASE header' = [header EXCEPT ![hand[1].box] = Shown(@, hand[1])]
    <3>1. Shown(header[hand[1].box], hand[1]).at = hand[1].at
      BY <1>2, ShownType
    <3> QED BY <1>2, <2>2, <3>1
  <2> QED BY <2>1, <2>2 DEF PumpSends
<1>4. Ahead(hand[1].box, hand[1].at) /\ Later(header[hand[1].box].at, hand[1].at)
  BY <1>2 DEF InOrder
<1>5. \A b \in Boxes : Later(header[b].at, header'[b].at)
  BY <1>3, <1>4, StampTypes, LaterReflexive
<1>6. \A b \in Boxes : Ahead(b, header'[b].at)
  BY <1>3, <1>4 DEF InOrder
<1>7. Queued' /\ \A b \in Boxes : Ahead(b, header[b].at)'
  BY <1>1, <1>6 DEF InOrder, Queued, Ahead, LastAt
<1>8. Len(hand') = 0
  BY <1>1
<1> QED BY <1>5, <1>7, <1>8 DEF InOrder

\* Every step keeps the order, and no line goes back.
LEMMA NextOrder ==
  ASSUME SyncType, SyncType', InOrder, [Next]_vars
  PROVE  InOrder' /\ \A b \in Boxes : Later(header[b].at, header'[b].at)
<1>1. UNCHANGED header => \A b \in Boxes : Later(header[b].at, header'[b].at)
  BY StampTypes, LaterReflexive
<1>2. UNCHANGED <<ch, hand, header, pass, nth>> => InOrder'
  BY DEF InOrder, Queued, Ahead, LastAt
<1>3. ASSUME NEW b \in Boxes, Worker(b)
      PROVE  InOrder' /\ UNCHANGED header
  <2>1. UNCHANGED <<pass, hand, header>>
    BY <1>3, WorkerMoves
  <2>2. CASE Emits(b)
    <3>1. PICK e \in Events : Emit(e) /\ e.box = b /\ e.at = <<pass, nth[b] + 1>>
      BY <2>2, EmitsOne
    <3> QED BY <2>1, <3>1, EmitOrder
  <2>3. CASE Log(b) \/ Write(b) \/ Println(b)
    <3>1. UNCHANGED <<ch, nth>>
      BY <2>3 DEF Log, Write, Println
    <3> QED BY <1>2, <2>1, <3>1
  <2> QED BY <1>3, <2>1, <2>2, <2>3 DEF Worker, Emits
<1>4. CASE Runner
  <2>1. UNCHANGED <<ch, hand, header>>
    BY <1>4 DEF Runner, ListFails, ListMailboxes, Spawn, SummariesIn, Timer, WatchStops,
                SendDone, RunnerUnchanged
  <2>2. CASE Timer
    <3>1. pass \in Nat /\ pass' = pass + 1 /\ nth \in [Boxes -> Nat] /\ nth' = [b \in Boxes |-> 0]
      BY <2>2, SyncUIBounds DEF Timer, SyncType, TypeOK, RunnerType, WorkerType
    <3>2. \A b \in Boxes : Later(LastAt(b), LastAt(b)')
      BY <3>1 DEF LastAt, Later
    <3> QED BY <1>1, <2>1, <3>2, StampsGrow
  <2>3. CASE ~Timer
    <3>1. UNCHANGED <<pass, nth>>
      BY <1>4, <2>3 DEF Runner, ListFails, ListMailboxes, Spawn, SummariesIn, WatchStops, SendDone
    <3> QED BY <1>1, <1>2, <2>1, <3>1
  <2> QED BY <2>2, <2>3
<1>5. CASE PumpTakes \/ PumpSends
  BY <1>1, <1>5, TakeOrder, SendOrder
<1>6. CASE PumpExits \/ LoopStops \/ CtrlC \/ Signal \/ Main \/ UNCHANGED vars
  <2>1. UNCHANGED <<ch, hand, header, pass, nth>>
    BY <1>6 DEF PumpExits, LoopStops, CtrlC, Signal, Main, CancelProgram, CloseWriter,
           StopPump, JoinPump, Return, MainUnchanged, vars, runVars, workerVars, loopVars
  <2> QED BY <1>1, <1>2, <2>1
<1> QED BY <1>1, <1>3, <1>4, <1>5, <1>6 DEF Next, Pump

\* A line of the header never shows an earlier event after a later one, whatever
\* the buffer dropped and however far the pump trails.
THEOREM NeverBack == Spec => HeaderNeverGoesBack
<1>1. Init => InOrder
  <2>1. SUFFICES ASSUME Init PROVE InOrder
    OBVIOUS
  <2>2. Len(ch) = 0 /\ Len(hand) = 0
    BY <2>1 DEF Init
  <2>3. \A b \in Boxes : Later(header[b].at, LastAt(b))
    BY <2>1 DEF Init, NoLine, Later, LastAt
  <2> QED BY <2>2, <2>3 DEF InOrder, Queued, Ahead
<1>2. SyncType /\ InOrder /\ [Next]_vars
        => InOrder' /\ [\A b \in Boxes : Later(header[b].at, header'[b].at)]_vars
  BY NextOrder, NextSyncType
<1> QED BY <1>1, <1>2, AlwaysSyncType, PTL DEF Spec, HeaderNeverGoesBack

=============================================================================
