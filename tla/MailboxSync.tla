---------------------------- MODULE MailboxSync ----------------------------
(***************************************************************************)
(* One mailbox's sync: internal/sync/mailbox.go with the rows it keeps in  *)
(* internal/store (messages, sync_state, sync_runs), against a Proton      *)
(* server that goes on changing while a run reads it.                      *)
(*                                                                         *)
(* A message's content is its version, a positive natural; 0 means "no     *)
(* such message" on the server and "no such row" in the cache.  A cursor   *)
(* is the number of stream events it has consumed.  Secrets and tokens are *)
(* left out (resuming the session either works or fails), and so are the   *)
(* derived rows of a message, which commit with it.                        *)
(***************************************************************************)
EXTENDS Integers, Sequences, FiniteSets

CONSTANTS
    Msgs,             \* Proton message ids
    Recent,           \* those inside the backfill window
    MaxEvents,        \* bound: length of the event stream
    BatchSize,        \* events one GetEvents returns at most
    MaxAttempts,      \* maxAttempts of the retry policy
    Disturbances,     \* the kinds of failure this instance explores
    MaxDisturbances   \* bound: how many of them happen

DisturbanceKinds ==
    {"net", "busy", "bad", "auth", "abort", "cancel", "crash", "full"}

ASSUME MsgsFinite == IsFiniteSet(Msgs)
ASSUME RecentAssumption == Recent \subseteq Msgs
ASSUME BoundsAssumption ==
    /\ MaxEvents \in Nat
    /\ BatchSize \in Nat \ {0}
    /\ MaxAttempts \in Nat \ {0}
    /\ MaxDisturbances \in Nat
    /\ Disturbances \subseteq DisturbanceKinds

VARIABLES
    srv,         \* Proton: version of each message, 0 when it has none
    log,         \* Proton: the mailbox's event stream
    cache,       \* messages table: version of each cached row, 0 when none
    cursor,      \* sync_state.event_cursor, NoCursor when unset
    pc,          \* where the run stands
    mode,        \* which pass it is in: "bootstrap" or "tail"
    cancelled,   \* the run's ctx is done (SIGINT, SIGTERM)
    attempt,     \* attempt of the Proton call in progress
    cur,         \* bootstrap: startCursor; tail: the loop's cursor
    upto, more,  \* tail: the batch's NextCursor and More
    pend,        \* ids still to decrypt
    doing,       \* the id being decrypted or applied
    writes,      \* decrypted versions not yet stored, 0 when none
    deletes,     \* ids the batch deletes
    skips,       \* ids this pass skipped, each with the error it met
    summary,     \* the RunSummary's counts
    failed       \* RunSummary.Err is set

\* History variables: no guard of the engine reads one.
VARIABLES
    rows0,       \* the cached ids when the run began
    head0,       \* length of the stream when the run began
    stamped,     \* head0 of the last run that stamped last_sync_at
    given,       \* skips of the passes whose cursor is persisted
    boots,       \* bootstraps begun, counted up to 2
    disturbed    \* disturbances so far

serverVars == <<srv, log>>
storeVars == <<cache, cursor>>
passVars == <<mode, attempt, cur, upto, more, pend, doing, writes, deletes, skips>>
runVars == <<pc, cancelled, summary, failed, rows0, head0>>
historyVars == <<stamped, given, boots>>
vars == <<serverVars, storeVars, passVars, runVars, historyVars, disturbed>>

NoCursor == -1
NoWrites == [m \in Msgs |-> 0]
Counts == [added : Nat, updated : Nat, deleted : Nat, errors : Nat]
NoCounts == [added |-> 0, updated |-> 0, deleted |-> 0, errors |-> 0]

Actions == {"create", "update", "delete", "refresh"}
Event == [act : Actions, msg : Msgs]
Errors == {"net", "busy", "bad", "gone", "cancelled"}
Steps == {"idle", "resume", "labels", "head", "list", "backfill", "decrypt",
          "apply", "fetch", "prepare", "record"}

Rows(c) == {m \in Msgs : c[m] # 0}

\* A failure of this kind happens.  One behaviour has MaxDisturbances of them.
Disturb(kind) ==
    /\ kind \in Disturbances
    /\ disturbed < MaxDisturbances
    /\ disturbed' = disturbed + 1

-----------------------------------------------------------------------------
(* The Proton server.  It is external: what the engine relies on.          *)

Log(act, m) == log' = Append(log, [act |-> act, msg |-> m])

Unlogged(m) == \A i \in 1..Len(log) : log[i].msg # m

ServerUnchanged == UNCHANGED <<storeVars, passVars, runVars, historyVars, disturbed>>

\* A message arrives.  Ids are never reused.
Create(m) ==
    /\ m \in Recent /\ srv[m] = 0 /\ Unlogged(m)
    /\ srv' = [srv EXCEPT ![m] = 1]
    /\ Log("create", m)
    /\ ServerUnchanged

Update(m) ==
    /\ srv[m] # 0
    /\ srv' = [srv EXCEPT ![m] = @ + 1]
    /\ Log("update", m)
    /\ ServerUnchanged

Delete(m) ==
    /\ srv[m] # 0
    /\ srv' = [srv EXCEPT ![m] = 0]
    /\ Log("delete", m)
    /\ ServerUnchanged

\* The stream lost a change to m: an event asks for a full resync instead.
\* Its msg is the message concerned, which the event does not carry.
Refresh(m) ==
    /\ srv[m] # 0
    /\ \E v \in {0, srv[m] + 1} : srv' = [srv EXCEPT ![m] = v]
    /\ Log("refresh", m)
    /\ ServerUnchanged

Server ==
    /\ Len(log) < MaxEvents
    /\ \E m \in Msgs : Create(m) \/ Update(m) \/ Delete(m) \/ Refresh(m)

-----------------------------------------------------------------------------
(* What the engine computes.                                               *)

\* errors.go classifyError and mailbox.go isTransient: only a transport
\* failure becomes ErrNetwork.  "busy" is an API error with status 5xx or 429.
Classify(err) == IF err = "net" THEN "ErrNetwork" ELSE "terminal"

NothingTransient(err) == FALSE
Transient(err) == Classify(err) = "ErrNetwork"

\* A store call runs under the run's ctx and refuses a cancelled one.
ContextIgnored == FALSE
StoreRefuses == cancelled

BatchEvents(lo, hi) == {log[i] : i \in (lo + 1)..hi}

\* prepareBatch: a message's final action in the batch decides.
FirstDeletes(lo, hi) ==
    {m \in Msgs : \E i \in (lo + 1)..hi :
        /\ log[i].msg = m /\ log[i].act = "delete"
        /\ \A j \in (lo + 1)..(i - 1) : log[j].msg # m}
FinalDeletes(lo, hi) ==
    {m \in Msgs : \E i \in (lo + 1)..hi :
        /\ log[i].msg = m /\ log[i].act = "delete"
        /\ \A j \in (i + 1)..hi : log[j].msg # m}
FinalWrites(lo, hi) ==
    {e.msg : e \in BatchEvents(lo, hi)} \ FinalDeletes(lo, hi)

\* collectEvents: NextCursor is the id of the last event returned.
HeadAsCursor(last) == Len(log)
OnePastLast(last) == last + 1
NextCursor(last) == last

\* tail goes round again while the server says there is more.
StopAfterBatch(last) == FALSE
More(last) == last < Len(log)

\* bootstrap persists the head it captured before it enumerated.
HeadAfterBackfill == Len(log)
BootstrapCursor == cur

\* DecryptMessage fetches the message as it stands.
Fetched(m) == srv[m]

\* upsertMessage inserts a row or updates the one there is.
AlwaysInserted(m) == TRUE
Inserted(m) == cache[m] = 0

\* What one transaction leaves in the messages table.
Stored(w, d) == [m \in Msgs |-> IF m \in d THEN 0
                                ELSE IF w[m] # 0 THEN w[m] ELSE cache[m]]

\* The summary with one transaction's rows folded in.
Counted(w, d) ==
    LET written == Rows(w) \ d
        new == {m \in written : Inserted(m)}
    IN  [added |-> summary.added + Cardinality(new),
         updated |-> summary.updated + Cardinality(written \ new),
         deleted |-> summary.deleted + Cardinality(d \cap Rows(cache)),
         errors |-> summary.errors]

-----------------------------------------------------------------------------
(* The run.  syncMailbox returns by Return, whatever the cause.            *)

NoPass ==
    /\ mode' = "none" /\ attempt' = 1
    /\ cur' = 0 /\ upto' = 0 /\ more' = FALSE
    /\ pend' = {} /\ doing' = {} /\ writes' = NoWrites
    /\ deletes' = {} /\ skips' = {}

Return(err) ==
    /\ pc' = "record" /\ failed' = err
    /\ NoPass
    /\ UNCHANGED <<serverVars, cancelled, rows0, head0, stamped, boots>>

\* SyncMailbox begins one run of the mailbox.
StartRun ==
    /\ pc = "idle"
    /\ pc' = "resume" /\ cancelled' = FALSE /\ failed' = FALSE
    /\ summary' = NoCounts
    /\ rows0' = Rows(cache) /\ head0' = Len(log)
    /\ UNCHANGED <<serverVars, storeVars, passVars, historyVars, disturbed>>

ResumeClient ==
    /\ pc = "resume" /\ ~cancelled
    /\ pc' = "labels"
    /\ UNCHANGED <<serverVars, storeVars, passVars, historyVars, disturbed,
                   cancelled, summary, failed, rows0, head0>>

ResumeFails ==
    /\ pc = "resume"
    /\ Disturb("auth")
    /\ Return(TRUE)
    /\ UNCHANGED <<storeVars, summary, given>>

\* Labels, then GetSyncState: no cursor means a first sync.
FetchLabels ==
    /\ pc = "labels" /\ ~cancelled
    /\ IF cursor = NoCursor
       THEN pc' = "head" /\ mode' = "bootstrap" /\ UNCHANGED cur
       ELSE pc' = "fetch" /\ mode' = "tail" /\ cur' = cursor
    /\ attempt' = 1
    /\ UNCHANGED <<serverVars, storeVars, historyVars, disturbed, cancelled,
                   summary, failed, rows0, head0, upto, more, pend, doing,
                   writes, deletes, skips>>

\* retry: a call of the run that is not a decrypt fails.
Calls == {"labels", "head", "list", "fetch"}

RetryCall ==
    /\ pc \in Calls /\ ~cancelled
    /\ \E err \in {"net", "busy"} : Transient(err) /\ Disturb(err)
    /\ attempt < MaxAttempts
    /\ attempt' = attempt + 1
    /\ UNCHANGED <<serverVars, storeVars, runVars, historyVars, mode, cur, upto,
                   more, pend, doing, writes, deletes, skips>>

CallFails ==
    /\ pc \in Calls /\ ~cancelled
    /\ \E err \in {"net", "busy"} :
         /\ Disturb(err)
         /\ Transient(err) => attempt = MaxAttempts
    /\ Return(TRUE)
    /\ UNCHANGED <<storeVars, summary, given>>

-----------------------------------------------------------------------------
(* bootstrap.                                                              *)

\* The stream's head, captured before the mailbox is enumerated.
LatestEventID ==
    /\ pc = "head" /\ ~cancelled
    /\ pc' = "list" /\ cur' = Len(log) /\ attempt' = 1
    /\ boots' = IF boots = 2 THEN 2 ELSE boots + 1
    /\ UNCHANGED <<serverVars, storeVars, disturbed, cancelled, summary, failed,
                   rows0, head0, stamped, given, mode, upto, more,
                   pend, doing, writes, deletes, skips>>

\* BackfillMessageIDs: the messages of the window, at one moment.
BackfillMessageIDs ==
    /\ pc = "list" /\ ~cancelled
    /\ pc' = "backfill" /\ attempt' = 1
    /\ pend' = {m \in Recent : srv[m] # 0}
    /\ UNCHANGED <<serverVars, storeVars, historyVars, disturbed, cancelled,
                   summary, failed, rows0, head0, mode, cur, upto, more, doing,
                   writes, deletes, skips>>

NextBackfill ==
    /\ pc = "backfill" /\ pend # {} /\ ~cancelled
    /\ \E m \in pend : doing' = {m} /\ pend' = pend \ {m}
    /\ pc' = "decrypt" /\ attempt' = 1
    /\ UNCHANGED <<serverVars, storeVars, historyVars, disturbed, cancelled,
                   summary, failed, rows0, head0, mode, cur, upto, more, writes,
                   deletes, skips>>

\* ApplyMessage commits one message in a transaction of its own.
ApplyMessage ==
    /\ pc = "apply" /\ ~StoreRefuses
    /\ cache' = Stored(writes, {})
    /\ summary' = Counted(writes, {})
    /\ writes' = NoWrites /\ doing' = {}
    /\ pc' = "backfill"
    /\ UNCHANGED <<serverVars, cursor, historyVars, disturbed, cancelled, failed,
                   rows0, head0, mode, attempt, cur, upto, more, pend, deletes,
                   skips>>

\* UpsertSyncState, when every id of the enumeration is dealt with.
PersistCursor ==
    /\ pc = "backfill" /\ pend = {}
    /\ IF StoreRefuses
       THEN Return(TRUE) /\ UNCHANGED <<cursor, given>>
       ELSE Return(FALSE) /\ cursor' = BootstrapCursor /\ given' = skips
    /\ UNCHANGED <<cache, summary, disturbed>>

-----------------------------------------------------------------------------
(* Decrypting one message, in either pass.                                 *)

AfterDecrypt == IF mode = "bootstrap" THEN "backfill" ELSE "prepare"

DecryptMessage ==
    /\ pc = "decrypt" /\ ~cancelled
    /\ \E m \in doing :
         /\ srv[m] # 0
         /\ writes' = [writes EXCEPT ![m] = Fetched(m)]
    /\ pc' = IF mode = "bootstrap" THEN "apply" ELSE "prepare"
    /\ doing' = IF mode = "bootstrap" THEN doing ELSE {}
    /\ UNCHANGED <<serverVars, storeVars, historyVars, disturbed, cancelled,
                   summary, failed, rows0, head0, mode, attempt, cur, upto, more,
                   pend, deletes, skips>>

\* How the call can fail for m.  Once ctx is done, retry returns its error.
DecryptError(m, err) ==
    \/ err = "cancelled" /\ cancelled /\ UNCHANGED disturbed
    \/ err = "gone" /\ ~cancelled /\ srv[m] = 0 /\ UNCHANGED disturbed
    \/ err \in {"net", "busy"} /\ ~cancelled /\ Disturb(err)
    \/ err = "bad" /\ ~cancelled /\ srv[m] # 0 /\ Disturb(err)

RetryDecrypt ==
    /\ pc = "decrypt" /\ attempt < MaxAttempts
    /\ \E m \in doing, err \in Errors : Transient(err) /\ DecryptError(m, err)
    /\ attempt' = attempt + 1
    /\ UNCHANGED <<serverVars, storeVars, runVars, historyVars, mode, cur, upto,
                   more, pend, doing, writes, deletes, skips>>

\* Retries exhausted: the pass stops before its cursor moves.
DecryptAborts ==
    /\ pc = "decrypt" /\ attempt = MaxAttempts
    /\ \E m \in doing, err \in Errors : Transient(err) /\ DecryptError(m, err)
    /\ Return(TRUE)
    /\ UNCHANGED <<storeVars, summary, given>>

\* A terminal failure skips the message and counts it.
DecryptSkips ==
    /\ pc = "decrypt"
    /\ \E m \in doing, err \in Errors :
         /\ ~Transient(err) /\ DecryptError(m, err)
         /\ skips' = skips \union {<<m, err>>}
    /\ summary' = [summary EXCEPT !.errors = @ + 1]
    /\ doing' = {} /\ pc' = AfterDecrypt
    /\ UNCHANGED <<serverVars, storeVars, historyVars, cancelled, failed, rows0,
                   head0, mode, attempt, cur, upto, more, pend, writes, deletes>>

-----------------------------------------------------------------------------
(* tail.                                                                   *)

\* The stream is drained.
GetEventsEmpty ==
    /\ pc = "fetch" /\ ~cancelled /\ cur = Len(log)
    /\ Return(FALSE)
    /\ UNCHANGED <<storeVars, summary, given, disturbed>>

\* A batch, sorted into deletes and messages to decrypt.  At the head of the
\* stream the server may also answer with an event that carries nothing.
GetEvents ==
    /\ pc = "fetch" /\ ~cancelled
    /\ \E last \in cur..Len(log) :
         /\ last - cur <= BatchSize
         /\ last = cur => cur = Len(log)
         /\ \A e \in BatchEvents(cur, last) : e.act # "refresh"
         /\ upto' = NextCursor(last) /\ more' = More(last)
         /\ deletes' = FinalDeletes(cur, last)
         /\ pend' = FinalWrites(cur, last)
    /\ writes' = NoWrites /\ skips' = {}
    /\ pc' = "prepare" /\ attempt' = 1
    /\ UNCHANGED <<serverVars, storeVars, historyVars, disturbed, cancelled,
                   summary, failed, rows0, head0, mode, cur, doing>>

\* A batch with the refresh flag: the delta is dropped, bootstrap takes over.
GetEventsRefresh ==
    /\ pc = "fetch" /\ ~cancelled
    /\ \E last \in (cur + 1)..Len(log) :
         /\ last - cur \in 1..BatchSize
         /\ \E e \in BatchEvents(cur, last) : e.act = "refresh"
    /\ pc' = "head" /\ mode' = "bootstrap" /\ attempt' = 1
    /\ upto' = 0 /\ more' = FALSE /\ deletes' = {} /\ writes' = NoWrites
    /\ skips' = {}
    /\ UNCHANGED <<serverVars, storeVars, historyVars, disturbed, cancelled,
                   summary, failed, rows0, head0, cur, pend, doing>>

PrepareNext ==
    /\ pc = "prepare" /\ pend # {}
    /\ \E m \in pend : doing' = {m} /\ pend' = pend \ {m}
    /\ pc' = "decrypt" /\ attempt' = 1
    /\ UNCHANGED <<serverVars, storeVars, historyVars, disturbed, cancelled,
                   summary, failed, rows0, head0, mode, cur, upto, more, writes,
                   deletes, skips>>

\* commitBatch: writes, deletes and the cursor in one transaction.
CommitBatch ==
    /\ pc = "prepare" /\ pend = {} /\ ~StoreRefuses
    /\ cache' = Stored(writes, deletes)
    /\ summary' = Counted(writes, deletes)
    /\ cursor' = upto
    /\ given' = {s \in given : s[1] \notin Rows(writes) \union deletes} \union skips
    /\ IF more
       THEN /\ pc' = "fetch" /\ cur' = upto /\ attempt' = 1
            /\ upto' = 0 /\ more' = FALSE /\ deletes' = {}
            /\ writes' = NoWrites /\ skips' = {}
            /\ UNCHANGED <<serverVars, mode, pend, doing, cancelled, failed, rows0,
                           head0, stamped, boots>>
       ELSE Return(FALSE)
    /\ UNCHANGED disturbed

-----------------------------------------------------------------------------
(* The end of a run, and what ends it early.                               *)

\* recordRun, under the run's own ctx: a clean run stamps last_sync_at, and a
\* cancelled one writes nothing, its sync_runs row included.
RecordRun ==
    /\ pc = "record"
    /\ pc' = "idle"
    /\ stamped' = IF StoreRefuses \/ failed THEN stamped ELSE head0
    /\ cancelled' = FALSE /\ failed' = FALSE
    /\ summary' = NoCounts /\ rows0' = {} /\ head0' = 0
    /\ UNCHANGED <<serverVars, storeVars, passVars, given, boots, disturbed>>

\* A store call fails, or the routine panics and runIsolated recovers.
Abort ==
    /\ pc \notin {"idle", "record"}
    /\ Disturb("abort")
    /\ Return(TRUE)
    /\ UNCHANGED <<storeVars, summary, given>>

\* Once ctx is done no call to Proton is begun, the backfill loop stops and
\* the store takes no transaction.
StopCancelled ==
    /\ \/ pc \in Calls \union {"resume"} /\ cancelled
       \/ pc = "backfill" /\ pend # {} /\ cancelled
       \/ pc = "apply" /\ StoreRefuses
       \/ pc = "prepare" /\ pend = {} /\ StoreRefuses
    /\ Return(TRUE)
    /\ UNCHANGED <<storeVars, summary, given, disturbed>>

\* SIGINT or SIGTERM.
Cancel ==
    /\ pc # "idle" /\ ~cancelled
    /\ Disturb("cancel")
    /\ cancelled' = TRUE
    /\ UNCHANGED <<serverVars, storeVars, passVars, historyVars, pc, summary,
                   failed, rows0, head0>>

\* The process dies: only the database is left.
Crash ==
    /\ pc # "idle"
    /\ Disturb("crash")
    /\ pc' = "idle" /\ NoPass
    /\ cancelled' = FALSE /\ failed' = FALSE
    /\ summary' = NoCounts /\ rows0' = {} /\ head0' = 0
    /\ UNCHANGED <<serverVars, storeVars, historyVars>>

\* sync --full: the cursor goes before the run begins.
ResetSyncCursor ==
    /\ pc = "idle"
    /\ Disturb("full")
    /\ cursor' = NoCursor
    /\ UNCHANGED <<serverVars, cache, passVars, runVars, historyVars>>

-----------------------------------------------------------------------------

Init ==
    /\ srv \in [Msgs -> {0, 1}]
    /\ log = << >>
    /\ cache = NoWrites /\ cursor = NoCursor
    /\ pc = "idle" /\ mode = "none" /\ attempt = 1 /\ cancelled = FALSE
    /\ cur = 0 /\ upto = 0 /\ more = FALSE
    /\ pend = {} /\ doing = {} /\ writes = NoWrites /\ deletes = {} /\ skips = {}
    /\ summary = NoCounts /\ failed = FALSE /\ rows0 = {} /\ head0 = 0
    /\ stamped = 0 /\ given = {} /\ boots = 0
    /\ disturbed = 0

\* The steps the engine takes when nothing disturbs it.
Engine ==
    \/ StartRun \/ ResumeClient \/ FetchLabels
    \/ LatestEventID \/ BackfillMessageIDs \/ NextBackfill \/ ApplyMessage
    \/ PersistCursor
    \/ GetEventsEmpty \/ GetEvents \/ GetEventsRefresh \/ PrepareNext
    \/ CommitBatch
    \/ DecryptMessage \/ DecryptSkips
    \/ StopCancelled \/ RecordRun

Disturbance ==
    \/ ResumeFails \/ RetryCall \/ CallFails \/ RetryDecrypt \/ DecryptAborts
    \/ Abort \/ Cancel \/ Crash \/ ResetSyncCursor

Next == Server \/ Engine \/ Disturbance

Spec == Init /\ [][Next]_vars

\* A run that is under way goes on, and another follows it: the watch loop or
\* the operator's timer.  Nothing is assumed of the server.
FairSpec == Spec /\ WF_vars(Engine)

-----------------------------------------------------------------------------
(* Properties.                                                             *)

\* The values the state takes, a group of variables at a time.
ServerType == srv \in [Msgs -> Nat] /\ log \in Seq(Event)
StoreType == cache \in [Msgs -> Nat] /\ cursor \in NoCursor..Len(log)
PassType ==
    /\ mode \in {"none", "bootstrap", "tail"} /\ attempt \in 1..MaxAttempts
    /\ cur \in 0..Len(log) /\ upto \in 0..Len(log)
    /\ pend \subseteq Msgs /\ doing \subseteq Msgs /\ deletes \subseteq Msgs
    /\ writes \in [Msgs -> Nat] /\ skips \subseteq Msgs \X Errors
RunType ==
    /\ pc \in Steps /\ summary \in Counts
    /\ rows0 \subseteq Msgs /\ head0 \in 0..Len(log)
HistoryType ==
    /\ stamped \in 0..Len(log)
    /\ given \subseteq Msgs \X Errors
    /\ boots \in 0..2 /\ disturbed \in 0..MaxDisturbances
FlagType ==
    /\ cancelled \in BOOLEAN /\ failed \in BOOLEAN
    /\ more \in BOOLEAN

\* Every variable keeps its type.  A persisted cursor names an event the stream
\* has had, and a Proton call is attempted MaxAttempts times at most.
TypeOK ==
    /\ ServerType /\ StoreType /\ PassType /\ RunType /\ HistoryType
    /\ FlagType

\* An event after position c concerns m, or asks for a full resync.
Owed(m, c) ==
    \E i \in (c + 1)..Len(log) : log[i].msg = m \/ log[i].act = "refresh"

\* A pass whose cursor is persisted could not decrypt m, or Proton was busy.
GivenUp(m) == \E err \in {"bad", "busy"} : <<m, err>> \in given

\* No message is lost: once a cursor is persisted, every message of the window
\* that Proton holds is cached as it stands, or was skipped with its error
\* counted, or an event still ahead of the cursor will bring it.  The cursor
\* is never ahead of the data, whatever interrupts bootstrap and tail
\* (mailbox.go 317-324, 371-377, 477-482, 516-519).
NoLoss ==
    cursor # NoCursor =>
        \A m \in Recent : srv[m] # 0 =>
            cache[m] = srv[m] \/ GivenUp(m) \/ Owed(m, cursor)

\* Every row whose message is gone from Proton has its delete ahead of the
\* cursor: no ghost stays in the cache.
NoGhost ==
    cursor # NoCursor =>
        \A m \in Msgs : cache[m] # 0 /\ srv[m] = 0 => Owed(m, cursor)

\* Until a second bootstrap begins, the tail misses no delete, however a
\* batch's events on one message collapse and wherever a run stops
\* (prepareBatch, commitBatch).
NoGhostBeforeRebootstrap == boots < 2 => NoGhost

\* The counts of a run account for the rows it inserted and removed, at every
\* moment of it: a rolled-back batch contributes nothing (mailbox.go 519-520).
SummaryMatchesCache ==
    pc # "idle" =>
        Cardinality(Rows(cache)) + summary.deleted
            = Cardinality(rows0) + summary.added

\* last_sync_at is never stamped on a mailbox that has not caught up with the
\* stream as it stood when that run began (recordRun, and tail's loop on More).
StampMeansCaughtUp == cursor # NoCursor => stamped <= cursor

\* Once Proton stops changing and the disturbances end, the cache comes to
\* hold the window as Proton does, but for messages given up with an error.
Converged ==
    /\ cursor # NoCursor
    /\ \A m \in Recent : srv[m] # 0 => cache[m] = srv[m] \/ GivenUp(m)
EventuallyConverges == <>[]Converged

\* What the cache still has to consume: everything while there is no cursor.
OwedMsgs == IF cursor = NoCursor THEN Msgs ELSE {m \in Msgs : Owed(m, cursor)}

Contract == INSTANCE CacheContract
                WITH owed <- OwedMsgs, given <- {m \in Msgs : GivenUp(m)}

\* One mailbox's sync keeps the contract of a mirror: rows change only for
\* messages with something still to consume, and a message stops being owed
\* only when the same transaction has settled it (bootstrap, tail, commitBatch).
ImplementsContract == Contract!Spec

-----------------------------------------------------------------------------
(* Why NoLoss holds: the parts of its inductive invariant.                 *)

\* A deleted message stays deleted, and its id is not reused.
DeletesAreFinal ==
    \A i \in 1..Len(log) : log[i].act = "delete" => srv[log[i].msg] = 0

\* Which pass the run is in at each step, and what it holds there.
PassShape ==
    /\ pc \in {"idle", "resume", "labels", "record"} => mode = "none"
    /\ pc \in {"head", "list", "backfill", "apply"} => mode = "bootstrap"
    /\ pc \in {"fetch", "prepare"} => mode = "tail"
    /\ pc = "decrypt" => mode \in {"bootstrap", "tail"}
    /\ IF pc \in {"decrypt", "apply"} THEN \E m \in Msgs : doing = {m} ELSE doing = {}
    /\ pc = "apply" => \A m \in doing : writes[m] # 0
    /\ pc = "apply" \/ mode = "tail" \/ writes = NoWrites

\* The position the pass will persist.
Mark == IF mode = "bootstrap" THEN cur ELSE upto

\* A decrypted version goes stale only if an event beyond that position says so.
WritesFresh ==
    \A m \in Msgs :
        writes[m] # 0 /\ srv[m] # 0 => writes[m] = srv[m] \/ Owed(m, Mark)

\* Skipped for good; or skipped because ctx was done, and then nothing commits.
Excused(m) ==
    \/ \E err \in {"bad", "busy"} : <<m, err>> \in skips
    \/ cancelled /\ <<m, "cancelled">> \in skips

\* bootstrap has dealt with every message that is not still before it.
BackfillCovers ==
    mode = "bootstrap" /\ pc \in {"backfill", "decrypt", "apply"} =>
        \A m \in Recent : srv[m] # 0 =>
            \/ m \in pend \union doing \/ Excused(m)
            \/ cache[m] = srv[m] \/ Owed(m, cur)

\* While it runs there is no cursor, or a refresh event is ahead of it.
BootstrapOwesAll ==
    mode = "bootstrap" => cursor = NoCursor \/ \A m \in Msgs : Owed(m, cursor)

TailAtCursor == mode = "tail" => cursor # NoCursor /\ cur = cursor

\* The batch in hand covers every message its events concern.
BatchCovers ==
    mode = "tail" /\ pc \in {"prepare", "decrypt"} =>
        /\ \A i \in (cur + 1)..upto :
             /\ log[i].act # "refresh"
             /\ LET m == log[i].msg
                IN  \/ m \in pend \union doing \/ Excused(m)
                    \/ writes[m] # 0 \/ srv[m] = 0
        /\ \A m \in deletes :
             \E i \in 1..Len(log) : log[i].msg = m /\ log[i].act = "delete"

NoLossInv ==
    /\ DeletesAreFinal /\ PassShape /\ WritesFresh /\ BackfillCovers
    /\ BootstrapOwesAll /\ TailAtCursor /\ BatchCovers /\ NoLoss

=============================================================================
