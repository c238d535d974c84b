# Verification of reduit

reduit keeps an offline copy of one or more Proton mailboxes in SQLite. `auth`
opens a Proton session and stores its secrets in the OS keychain, `sync` fills
and follows the copy, `tui` reads it. This directory holds TLA+ models of the
parts in which an interleaving, a failure or a restart can go wrong, the TLC
configurations that check them, and TLAPS proofs of what matters most, for
any instance: the copy never silently loses a message, a sync is a step of the
contract it is for, its counts and stamps are true, a stored token never goes
back, the sync display ends with everything it started, and the tables of the cache hang together
after every transaction, the enumeration misses nothing but for deletions, and the browser
shows every answer under its own name.

## 1. The system

| Part | Code | State it keeps | Operations | Talks to |
|---|---|---|---|---|
| Sync engine, one mailbox | `internal/sync/mailbox.go` | locals of a pass: cursor, ids to decrypt, pending writes and deletes, the `RunSummary` | resume, labels, `bootstrap`, `tail`, `prepareBatch`, `commitBatch`, `retry`, `decrypt` | Proton client, store, keychain, progress reporter |
| Sync engine, runs | `internal/sync/engine.go`, `progress.go` | summaries, semaphore, wait group | `SyncAll`, `SyncMailbox`, `runIsolated`, `recordRun`, `emit*` | the former, store |
| Store | `internal/store/*.go` | tables `mailboxes`, `messages` (+ FTS), `links`, `attachments`, `contacts`, `sync_state`, `sync_runs` | `WithTx`, `ApplyMessage`, `DeleteMessageByProtonID`, cursor, runs, mailbox row | SQLite |
| Keychain | `internal/keychain/keychain.go` | four secrets for each mailbox id | `Get`, `Set`, `Delete`, `DeleteAll` | the OS |
| Proton client | `internal/proton/*.go` | session uid, tokens, keyrings | login, `Resume`, lazy refresh, two unlocks, events, backfill, `DecryptMessage`, error classes | Proton |
| CLI: accounts | `internal/cli/auth.go`, `labels.go` | none between commands | `add`, `refresh`, `remove`, `labels` | client, keychain, store |
| CLI: sync | `internal/cli/sync.go` | `--watch` loop, exit code | `runSync`, `runSyncOnce`, `printSummaries` | engine |
| CLI: sync display | `internal/cli/syncui*.go` | event buffer, pump, log writer, header model | adapter, pump, `Write`, `Update`, teardown | engine, Bubble Tea |
| Message mapping | `internal/sync/map.go` | none | `mapMessage`: folder, correspondents, links, attachments | store |
| Terminal browser | `internal/tui/*.go` | open section, its list, cursor, window, pager; the overlay | a load for each list and detail, key and message handling, resize | store, Bubble Tea |
| llm, mcp, config, stubs | `internal/llm`, `internal/mcp`, `internal/config`, `serve`, `send` | none of their own | -- | -- |

What is hard in each, and what makes it correct:

* **A mailbox's pass.** Proton goes on changing while it is enumerated and while
  messages are decrypted; a run is retried, aborted, cancelled, killed, restarted
  and told to start afresh (`Refresh`, `--full`). Correct when the persisted
  cursor is never ahead of the data, deletes are not missed, counts and stamps
  say what happened, and the copy converges when failures end.
* **Sessions.** Proton spends a refresh token when it is used, so a rotation is
  a write that must not be lost; the row and four secrets are separate writes
  with no transaction over them and no lock between processes. Correct when a
  row that says `active` can sync, nothing secret outlives its row, and success
  is only declared on a session that works.
* **The cache's tables.** One message is a dozen statements over seven tables, a
  batch a hundred; a statement fails, a process dies, another mailbox's sync or an
  `auth remove` comes between two transactions, and foreign keys cover only part of
  what hangs together. Correct when nothing is half there or left behind, and a
  re-sync takes nothing away that later passes derived.
* **The paged enumeration.** Page numbers against a list that others lengthen and
  shorten. Correct as far as the deletions behind it allow.
* **The browser.** Every read is a goroutine whose answer comes back any number of
  keys later, while a sync changes the rows. Correct when a late answer never
  shows under another row's name, tears away what is being read, or leaves a
  section waiting for ever.
* **Runs and their display.** Workers log and report through a UI that may go
  away at any time. Correct when the command always ends, leaves nothing
  running, reports failure when there was one, and the header never lies
  backwards.

Components interact by plain calls, except for: the store and the keychain
(shared by processes), the progress buffer and the log writer (shared by
goroutines), and contexts (a cancellation seen by everyone at once).
`PROJECT.json` lists every component with its status, and every hazard found
with the line where it bites and the properties that cover it.

## 2. The modules

| Module | Models |
|---|---|
| `MailboxSync` | one mailbox's bootstrap and tail, run after run, with the rows they keep and the Proton server |
| `CacheContract` | what that is for: a mirror that trails its source and knows by what |
| `MailboxSyncProofs` | type correctness of `MailboxSync`; that nothing is lost; `last_sync_at` and the counts of a run |
| `MailboxSyncMirror` | the refinement of `CacheContract`, proved, and the rows of deleted messages |
| `CacheContractProofs` | what the contract promises |
| `SessionProofs` | proofs about `Session`: the tokens, however commands overlap; rows, secrets, sessions, `auth refresh` and types, one command at a time |
| `SyncUIProofs` | the safety properties of `SyncUI`, proved |
| `CacheRowsProofs` | every property of `CacheRows`, proved |
| `BackfillProofs` | every property of `Backfill`, proved |
| `TuiProofs` | the safety properties of `Tui`, proved |
| `Session` | mailbox rows, keychain and Proton session under the five commands that touch them, for one or two processes |
| `SyncUI` | `SyncAll`'s workers, the watch loop, the event buffer and pump, the log writer, the event loop, and `runSyncTUI`'s teardown |
| `CacheRows` | the store's tables, written a statement at a time by syncs, `auth remove` and the later passes, and what `map.go` makes of a message |
| `Backfill` | the paged enumeration against a list that changes between pages |
| `Tui` | the terminal browser: keys, commands, answers, and a cache that changes beside it |
| `MCMailboxSync`, `MCSession`, `MCSyncUI`, `MCCacheRows`, `MCBackfill`, `MCTui` | instances for TLC: symmetry, mail, listings |

`MailboxSync` is one worker of `SyncUI` seen from the inside; a sync of
`Session` is one run of `MailboxSync` seen from the keychain. They meet at
`SyncCalls`/`SyncEnds` (Session), `ResumeClient`/`ResumeFails` (MailboxSync) and
`Begin`/`End` (SyncUI). `MailboxSync!Stored` is what a transaction of `CacheRows`
amounts to for one mailbox and one column, which `RowsAreWhole` justifies; its
`BackfillMessageIDs` is `Backfill`'s walk in one step, which
`EachDeletionHidesAtMostOne` says is right but for deletions.

### MailboxSync and the code

A message is its version (0: absent), a cursor the number of stream events
consumed. `cache` and `cursor` are the tables `messages` and `sync_state`; the
variables of `passVars` are locals of `bootstrap`, `tail` and `prepareBatch`;
`pc` is the call the run is about to make. One action stands for one Proton call
or one transaction, so the server, a signal or a crash can come between any two:

* `FetchLabels` picks bootstrap or tail; `LatestEventID`, `BackfillMessageIDs`,
  `NextBackfill`, `DecryptMessage`, `ApplyMessage` and `PersistCursor` are
  `bootstrap` in order -- the head *before* the enumeration.
* `GetEvents` is a batch with `prepareBatch`'s sort into deletes and ids to
  decrypt, `PrepareNext`/`DecryptMessage` its loop, `CommitBatch` the one
  transaction of writes, deletes and cursor. `GetEventsRefresh` drops the delta
  and falls back to bootstrap; `GetEventsEmpty` ends the pass.
* `RetryCall`, `CallFails`, `RetryDecrypt`, `DecryptAborts` and `DecryptSkips` are
  `retry` and what its callers do, with `Classify`/`Transient` as the error classes.
* `StopCancelled`, `Cancel`, `Crash`, `Abort` (a store error, or a panic recovered
  by `runIsolated`), `RecordRun` and `ResetSyncCursor` are how runs end and begin again.

`rows0`, `head0`, `stamped`, `given` and `boots` are history variables for the
properties; no guard reads them. `disturbed` bounds failures: each failing
action says its kind, and an instance allows `MaxDisturbances` in all.

Abstractions: `recordRun`'s two writes are one step; their store errors are only
logged and not modelled; a cancelled call in flight ends as an error, as
`retry` makes it; labels, folder names, derived rows (links, attachments,
contacts, FTS) and attachment counts are left out, for they commit with the
message and are `CacheRows`; the paged enumeration is one step and is `Backfill`.

### Session and the code

`rows` is the `mailboxes` table, `kc` the keychain, `gen`/`expired`/`full`/`keys`
what Proton holds. A token is its session and generation: Proton honours the
latest only, and a lazy refresh (`Reach`) makes the next and reduces the scope. The client learns of it
through `onAuth`; where the answer is lost (`AnswerLost`) the token is spent all the same
and the client keeps the old one. That can happen to each call: those that open the
mailbox (`CallFails`), and those of the run itself (`SyncCallFails`), after which
`persistRotatedSession` sees no change.
A command reads step by step (`ReadRefreshToken` ... `Unlock`), then works
through `plan`, its list of writes; `Write` does the head of it and `WriteFails`
replaces the rest by what the code does after that failure (`AfterFailure`): the
engine goes on and flags, the CLI stops, a failed add cleans up. Ctrl-C is the
context of a sync and kills the other commands (`Crash`): it fails a call, with or without a refresh on the
way, and the flag after it (`Interrupt`), a call of the run, or a row's write, but no
secret's (`WriteFails`). `SetMailboxState` under that context is why a flag is not certain.

Abstractions: Proton never revokes a session; a malformed or empty key pass is
not told apart from a stale or absent one; a login for another account, a wrong
TOTP and no network are all `LoginFails`; `auth list` only prints. `MaxGen`
bounds expiry, not rotation.

### SyncUI and the code

A worker is `runIsolated` seen from outside: its events, its log records, its
end. `ch` is `progressAdapter.ch` (a full buffer drops), `hand` the event the
pump is sending, `mu`/`closed` the log writer's, `ui` the event loop, `main`
the line of `runSyncTUI` after `prog.Run` returns. `Write` (lock and `dead()`)
and `Println` (the bare send, lock still held) are separate steps because the
loop can stop in between.

Bubble Tea is external and modelled by what the code's comments rely on: an
unbuffered channel, `Send` guarded by the program's context, `Println` not
guarded. Its own signal handler and its cancellation of its context when `Run`
returns are not relied upon. Rendering, spinner and window messages are left
out, as are mailbox order, `--mailbox` (one mailbox, no fan-out) and the path
without a terminal, which has none of these parts. A worker may still take a
step after a cancellation: that is the call it had in flight. A store failure
of listing or resetting can come at any time.

### CacheRows and the code

`db` is the committed tables, `tx` the one open transaction: the copy it works on
and the statements it still has to run. SQLite's writer lock and the single-writer
pool make that one transaction at a time for all processes; `Exec` runs one
statement (`Effect`), `Accepts` are the foreign keys, `Commit` and `Fail` end it as
`WithTx` does, a crash being a `Fail`. `SyncWrites` are the transactions of a run
(`ApplyMessage`, a batch of write, deletes and cursor, the cursor alone, a reset,
the run's record), begun whether or not the mailbox is still there;
`RemoveMailbox` is `DeleteMailbox` with its seven statements in their order; `Derive` is what
the embedding and extraction passes write: they are yet to be written, and are taken to
look at the row and write in one transaction. `SyncWrites` begins batches of at most one
write; a larger one is such pieces one after another, which touch different messages. `applyMessage` goes through `map.go`:
`resolve` picks the folder, `contactsOf` and `extractLinks` the rest.

Abstractions: a message's content is a version and `Mail` says what each holds;
addresses are model values with a `Canonical` form, a blank one (`""`) has no contact;
bodies, snippets, hashes and sizes are left out. The counts a statement returns are `MailboxSync`'s. Tables
nothing writes yet (`fact_state`, `denylist`) are left out. Mailbox ids are
UUIDs and never come back, so a removed mailbox stays removed.

### Backfill and the code

`list` is the mailbox in Proton's order, `page` and `kept` the locals of
`collectBackfillIDs`; a step reads one page (`ReadPage`, with the window filter, the
short page that ends the walk, and the sort), and others add or delete between two
pages. A message that only changes its place, an edited draft, is left out: its event is
ahead of the start cursor and brings it. `Retry` is `Engine.retry` around the walk: it starts over. `slips` and
`pushes` count the deletions and arrivals behind the walk, for the properties. The filter
and the stable sort are `InOrder`: the places of a page, or of what was kept, put in order
by a relation (`Earlier`, `Older`). A mailbox lists a message once.

### Tui and the code

`view` is the open section's model, `commands` the `tea.Cmd` goroutines that have
not read the store yet and `messages` their answers, both bags: any may run or be
handled next. `RunCommand` reads the store at that moment: what a sync
changes beside it is that a read may find any part of its listing, in the store's
order, or fail. `Deliver` is `Update` of the root model and, through `SectionUpdate`, of
the section open *then*, which need not be the one that asked. Keys are the actions of
`Keys`, guarded by the overlay and by what captures text. A pager is the pair of
the row its header was drawn from and the row its text was read for.

Abstractions: rows are ids; the menu's cursor row, the pager's own scrolling and all
layout but the list's window are left out; escape stands for every key that backs out.
The SQL of a reader and its FTS quoting are left out: `Listing` is any order.

## 3. What the runs check

| Run | Instance | States | Shows |
|---|---|---|---|
| `mailbox_sync` | 2 messages in the window, 2 events, batches of up to 2, 2 attempts, two disturbances of any of 8 kinds, fair | 1.2 M | `TypeOK`, `NoLoss`, `NoLossInv` (the invariant that is proved), `NoGhostBeforeRebootstrap`, `SummaryMatchesCache`, `StampMeansCaughtUp`, `ImplementsContract`, `EventuallyConverges` |
| `ghost_rows` | 1 message, 1 event, one crash | -- | violation of `NoGhost` |
| `session` | 2 ids, one process, all five commands, 2 sessions, 2 key versions, one failure of any of 6 kinds, fair | 148 k | `TypeOK`, `NoOrphanSecrets`, `ActiveIsOneSession`, `RefreshKeepsItsWord`, `LossComesToLight` |
| `session_overlap` | one added mailbox, two processes that sync or remove it, two failures of the keychain or of the calls that open it | 437 k | `ActiveIsResumable`, `TokensNeverGoBack` |
| `ui_teardown` | 2 mailboxes side by side, one-shot or watched, buffer of 1, one log record each, signal and key, fair | 875 k | `TypeOK`, `NothingLeftRunning`, `CleanExitMeansSynced`, `Settles` |
| `ui_header` | 1 mailbox, two passes of a watch, counts up to 1, buffer of 2 | 806 k | `DoneWithinTotal`, `HeaderNeverGoesBack` |
| `ui_wedge` | 1 mailbox, one record, a signal | -- | violation of `NeverBlocksOnStopped` |
| `cache_rows` | 2 mailboxes, 3 messages, one of them in two versions, 2 links, 1 attachment, 3 spellings of 2 addresses, 2 derivations | 1.1 M | `TypeOK`, `NothingOrphaned`, `IndexIsTheCache`, `RowsAreWhole`, `OneContactEach`, `FolderIsItsOwn`, `DerivedSurvives` |
| `backfill` | 5 messages at first, 2 that arrive, pages of 2, 2 attempts | 445 k | `TypeOK`, `EachDeletionHidesAtMostOne`, `NamedOnceInOrder` |
| `backfill_slips` | the same with 1 attempt | -- | violation of `WindowIsNamed` |
| `tui` | 2 queries, lists of 1 and 2 rows, a body of 1 or 4 lines, 2 commands or answers under way, fair | 248 k | `TypeOK`, `SelectionInRange`, `CursorOnScreen`, `PagerIsOneMessage`, `HitsAreOfTheirQuery`, `HelpNeverOverPrompt`, `ReaderIsNotDisturbed`, `EverythingLoads` |
| `tui_attachment` | the same without searches | -- | violation of `AttachmentIsOneRow` |

Why the bounds are enough for what is asked:

* *MailboxSync.* Two messages let a batch hold events of one and a write of the
  other, and one of two be skipped; two events give a full batch, both events on
  one message inside it, and `More` with an event that came since; two failures of
  any kinds give an interrupted run
  followed by an interrupted recovery. Runs are not bounded. For every property
  here but `EventuallyConverges` the bounds do not matter: they are proved, for
  messages older than the window too, which this instance leaves out.
* *Session.* Two sessions make a re-login; generations up to 3 make a spent
  token and its successor's successor; two key versions make a stale key pass.
  Two ids only matter to show that a removed id is not confused with the next.
  The `session` run has one failure because with two, `auth add` leaves an
  orphan (see *Findings*). `session_overlap` leaves out what loses a token with nothing
  in the code to flag it: an answer lost during the run itself, Ctrl-C, a crash, a row that
  cannot be written. `session` has all of them and
  asks for less: that the loss is noticed in the end.
  `AccountTaken` needs an account with two addresses and is never true in these
  instances. `TokensNeverGoBack` is proved, for all five commands at once and
  with every kind of failure; `ActiveIsResumable` for the commands and failures of
  `session_overlap`, any number of them.
* *SyncUI.* Two workers compete for the lock and the buffer; a buffer of 1 or 2
  is full at once (the code's 1024 only delays it); one record a worker is
  enough for each way of meeting the teardown; two passes show an event of
  the last pass arriving in the next. In `ui_teardown` a watch has one pass and may be
  cancelled in it, or while it waits for the timer. In `ui_header` the one mailbox is enough: a
  line depends on its own events only, and a full buffer does not care whose
  events fill it. The semaphore is below its limit in `ui_teardown` and a bound
  in `TypeOK` (`Cardinality(Running) <= Concurrency`). The four safety properties
  are proved for any number of mailboxes and any buffer.

* *CacheRows.* Two mailboxes share addresses; one message in two versions gives a
  re-sync that drops a link and names an attachment again, a second message of that mailbox a
  batch that writes one and deletes the other. Derivations are bounded at two: a text and an
  embedding, or two of a kind.
* *Backfill.* Seven messages over pages of two make four pages, so a deletion or an
  arrival falls before, on and after a boundary, and several of them add up.
* *Tui.* Two answers under way are the least that race; with three and searches
  alone the properties also held (581 k states). A body of 1 line makes a window
  of one row, one of 4 shows them all. `TuiProofs` proves the safety properties without
  these bounds.

Deadlock is checked in `mailbox_sync` and `session`.
It is off in `session_overlap`, where a removed mailbox leaves no command to run,
in the SyncUI and Tui runs, which end, in `backfill`, whose walk ends, and in
`cache_rows`, where nothing is left to do once both mailboxes are removed.

### The properties

*MailboxSync.* `NoLoss`: once a cursor is persisted, each message of the window
that Proton holds is cached as it stands, was skipped with its error counted, or
has an event still ahead of the cursor. `NoGhostBeforeRebootstrap`: until a
second bootstrap begins, a row whose message is gone has its delete ahead of the
cursor. `SummaryMatchesCache`: rows now + deleted = rows at the start + added, at
every step of a run. `StampMeansCaughtUp`: `last_sync_at` is never stamped with
events of the time before the run still unread. `EventuallyConverges`: with the
failures over and Proton at rest, the cache comes to hold the window.
`ImplementsContract`: every step is a step of `CacheContract` or a stutter, with
`owed` mapped to the messages that events ahead of the cursor concern.

*Session.* `ActiveIsResumable`: an active mailbox at rest has a refresh token
Proton will honour, or none. The code sees to it where a call that opens the mailbox fails, or the
keychain; `labels` does not even then (see *Findings*). `LossComesToLight`: where it
is not so, for any reason, the row does not say active for good: once the access token
expires a sync is refused, and flags it. `TokensNeverGoBack`: two overlapping syncs never restore an
older token. `NoOrphanSecrets`; `ActiveIsOneSession`: tokens and uid of an active
row belong together even after a re-login cut short. `RefreshKeepsItsWord`:
success is declared only on a session Proton serves *at that moment* and keys the
next sync can open. It says no more than that because of one corner: a crash
between the writes of the two tokens leaves a spent refresh token behind a
working access token, which `auth refresh` cannot notice until the access token expires.

*SyncUI.* `NothingLeftRunning`, `CleanExitMeansSynced`, `DoneWithinTotal` and
`HeaderNeverGoesBack` say what their names do. `Settles`: a one-shot run always
ends, a watch ends once it is cancelled, unless the state of `ui_wedge` was reached; in
particular the pump is always released and joined. `NothingLeftRunning` is about workers, pump and
writer; the runner's own last `Send` to a stopped program returns by itself.

*CacheRows.* `NothingOrphaned`: no link, attachment, embedding, cursor or record
outlives its message or mailbox, whoever removed it and whatever failed;
`IndexIsTheCache`; `RowsAreWhole`: a cached message has all that its body names;
`OneContactEach`; `FolderIsItsOwn`; `DerivedSurvives`: a re-sync takes no embedding,
extracted text or contact name away.

*Backfill.* `EachDeletionHidesAtMostOne`: what the walk misses is bounded by the deletions
behind it, so a mailbox nobody deletes from is enumerated whole (`WindowIsNamed` asks
for that of every mailbox, and is violated);
`NamedOnceInOrder`: repeats are bounded by the arrivals behind it, and the answer is oldest first.

*Tui.* `SelectionInRange` and `CursorOnScreen`: no mix of moves, replaced lists and
resizes indexes past the rows or off the screen; `PagerIsOneMessage`,
`HitsAreOfTheirQuery` and `ReaderIsNotDisturbed`: a late answer is shown under its
own name or not at all, and never over a message being read; `HelpNeverOverPrompt`: the overlay, which any key closes,
never takes a character from a query;
`EverythingLoads`: no section stays at "reading".

Each property of a passing run has a mutant in the module it constrains (marked
`Mutant:`), a plausible bug which TLC finds through that property: the head
captured after the enumeration, the first event of a batch deciding, a cursor
one too far, an unordered pump, teardown without `cancelProg()`, and so on.

### Findings

* `ghost_rows`: a row applied by an interrupted bootstrap, whose message is
  deleted before the next bootstrap captures its head, stays for good: no bootstrap removes rows.
* `ui_wedge`: a record between `dead()` and `Println` when the loop stops blocks
  for ever with the lock that teardown needs.
* `backfill_slips`: a deletion on a page already read moves a message onto it, which the walk
  then misses (`backfill.go:56`); its event is behind the start cursor, so the tail does not
  bring it. `MailboxSync` takes the enumeration in one step, so `NoLoss` and its proof do not see
  this; `EachDeletionHidesAtMostOne` bounds it, for any mailbox.
* `tui_attachment`: the text of an attachment comes back without an id and opens under
  the row selected by then; the facts of a contact likewise (`views_insights.go:532-542`).
  The search view compares the hash (`views_search.go:133-147`).

Other disagreements met while modelling. Each is an action of a model as the code
has it; no run is spent on them:

* 5xx and 429 are not mapped to `ErrNetwork` (`errors.go:206`), although the comment on
  `isTransient` (`mailbox.go:606-608`) counts on it; the message is skipped and the cursor
  moves on. `NoLoss` exempts it as skipped.
* A refresh whose answer is lost during a sync spends the token and flags nothing
  (`mailbox.go:264-285`), and Ctrl-C fails a call and the flag after it together
  (`mailbox.go:46`). `LossComesToLight` says what is left.
* `reduit labels` returns on a failed access-token
  write (`labels.go:111`) before the rotated refresh token is stored or the mailbox
  flagged: an active row with a spent token, until a sync flags it (`LossComesToLight`).
  `auth refresh`'s cheap path does the same; the engine goes on (`mailbox.go:265-268`).
* `auth add`'s cleanup (`auth.go:180`) deletes the row although deleting the
  secrets failed: secrets under an id that no row names.
* In raw mode Ctrl-C is a key (`syncui.go:194-197`): the header goes, and under `--watch` nothing
  cancels the run. `Settles` therefore asks for a watch to end once it is cancelled, by the signal.
* A dropped `MailboxDone` (`syncui_adapter.go:90`) leaves the line at its last count
  until the header goes.
* `recordRun` uses the run's ctx (`engine.go:252`), so an interrupted run is not
  recorded, although `engine.go:200-201` says every outcome is.
* `mailbox.go:321-323` and `363` speak of a backfill that resumes forward; it
  enumerates and decrypts everything again.
* Links and attachments a changed body no longer has stay (`links.go:30`,
  `attachments.go`), and a renamed label leaves the old folder name until the message changes. SPEC-0002 (`sync-cache/spec.md:167-172`) says
  the link set of a message whose hash is unchanged "SHALL NOT grow"; the hash is of its ids, so a
  changed body makes it grow.
  `RowsAreWhole` therefore asks for what the body names, not for nothing else.
* The browser keeps only the first of the stats section's three read errors
  (`views_insights.go:206-209`), and shows no error of the menu's totals
  (`model.go:105-106`).

## 4. Fairness

* `MailboxSync!FairSpec`: weak fairness of `Engine`, the steps the code takes
  when nothing disturbs it. The run is sequential code, each call returns
  (timeouts, contexts), and the watch loop or the operator's timer starts the
  next. Nothing is assumed of the server or of disturbances; only their number
  is bounded, which is what "once failures end" means.
* `SyncUI!FairSpec`: weak fairness of each goroutine and of the event loop (the
  Go scheduler, and Bubble Tea's goroutine). The operator is not fair: no
  signal or key need come. A worker's run is finite (`MaxCount`, `MaxLogs`).
  The choice between timer and `ctx.Done()` in the watch loop is bounded by
  `MaxPasses`.
* `Tui!FairSpec`: weak fairness of each command's goroutine and of the handling of
  each message it queued, list by list (the Go scheduler; Bubble Tea's loop reads
  its channel until the program ends). The operator owes nothing: no key need come.
* `Session!FairSpec`: weak fairness of each command under way, which is sequential code whose
  calls return, and strong fairness of starting a sync, as other commands may keep the
  process busy each time the timer of `--watch`, or the operator's, comes round. The
  operator at a prompt answers or gives up. Expiry and failures owe nothing.
* `CacheRows` and `Backfill` have safety properties only.

## 5. What is proved

About 18500 obligations in eight modules. Every theorem is for all values of the
constants that satisfy the named assumptions of its module.

### MailboxSync

For all finite `Msgs`, all `Recent`, all stream lengths, batch sizes, numbers of
attempts and sets and numbers of disturbances (`MsgsFinite`, `RecentAssumption`,
`BoundsAssumption`).

* `TypeCorrect == Spec => []TypeOK`. `TypeOK` is inductive. It bounds the cursor
  and the pass's position by the length of the stream and the attempts by `MaxAttempts`.
* `NoLossInvariant == Spec => []NoLossInv` and `NothingLost == Spec => []NoLoss`.
* `StampHonest` and `CountsHonest`: `StampMeansCaughtUp` and `SummaryMatchesCache`.
* `KeepsContract == Spec => ImplementsContract`, the refinement, and `NoGhostEarly`
  for `NoGhostBeforeRebootstrap`.

`TypeOK` and, given it, `SummaryMatchesCache` are inductive; the others say nothing
of a pass half way.
`NoLossInv` adds what the pass owes at each step:

* `WritesFresh`: a version decrypted but not stored is current, or an event
  beyond the position to be persisted (`Mark`) says otherwise;
* `BackfillCovers`: during bootstrap each message is still to be done, excused,
  cached as it stands, or has an event beyond the captured head;
* `BootstrapOwesAll`: while bootstrap runs there is no cursor, or a refresh
  event is ahead of it -- so the old cursor stays safe until replaced;
* `TailAtCursor`, `BatchCovers`: the tail reads from the persisted cursor, and
  each event of the batch is pending, decrypted, excused or of a message that is gone;
* `Excused`: a skip is for good, *or* it happened because ctx was done -- and
  then ctx is still done, so the store refuses the commit. This is why a
  cancellation that makes a decrypt "skip" does not lose the message;
* `DeletesAreFinal`, `PassShape`: ids are not reused; what each step holds.

The proof goes step by step over `Next`, with a lemma for each way of leaving a
pass (`LeaveInv`, `PlainReturnInv`), for the server (`ServerOwes`, `ServerInv`),
and for the two tables.

`StampInv` follows the head at the start of a run through the pass:
the batch, or the head a bootstrap captured, reaches it before a run can end
clean (`BatchReaches`, `BootstrapReaches`, `CleanRunReaches`). For the counts,
`StoredRows` and `CountedBalance` compare cardinalities before and after a transaction.

The refinement needs, besides `NoLossInv`, that what a batch writes is no older than
the row it replaces and what it deletes is gone (`MirrorInv`: `StreamTells`,
`VersionsGrow`, `WritesCurrent`, `BatchDeletes`, `HeldIsOwed`): a write moves no row
back only because the events of its message are all still owed. `GhostInv` adds the one
clean bootstrap (`FirstBootstrapClean`, `NothingYet`), which is what a second one
lacks and why `ghost_rows` is a violation.

### CacheContract

`ContractPromises == Spec => []Promise`: of the window, a message that is not owed is
cached as its source holds it, or was given up with its error counted. With `KeepsContract` this is the promise of
the whole mailbox sync.

### Session

`NeverOlder == Spec => TokensNeverGoBack`, for any number of processes, mailboxes
and sessions, all five commands and all failures, crashes included. Nothing locks
the keychain; what orders the writes is Proton. `TokenInv` says how: every token
held anywhere was minted (`Minted`), and a process that will still store a token
newer than the one it read (`WillStore`) is the only one that holds it, and holds
the latest of its session (`Sole`). Spending a token needs the latest, so no other
process can be about to store one of that session (`RotatesAlone`), and a plan stores at
most one token (`OnceOnly`). Types are in `SessionType`, which, unlike
`TypeOK`, does not bound generations: that two overlapping commands rotate a
session no oftener than `TypeOK` says is not needed here, and not shown.

`RestIsResumable == ASSUME SyncsAndRemovals PROVE Spec => []ActiveIsResumable`: for any
number of processes and of failures, of the commands and kinds of failure that
`session_overlap` runs (`SyncsAndRemovals`). Those are failures of the keychain, and of the calls
that open a mailbox, with or without a refresh whose answer is lost. The rest is assumed away because the code
does not handle it: an answer lost during the run, Ctrl-C, a crash, or a row that
cannot be written loses a rotated token unflagged; `labels` fails without
flagging; a second command may set the row active again. `LossComesToLight`, which is
only model-checked, is about those too. `ResumeInv` adds to `TokenInv`
what each process is at (`Shaped`), that one session serves one mailbox (`OneMailbox`), and that a
mailbox whose stored token is spent has a process that `Settles` it: it holds the new
token and has yet to store it, or it is on its way to the flag (`Settled`).

Four theorems are about commands that run one at a time (`OneAtATime`: there is at
most one process), for any mailboxes, sessions and kinds of failure, crashes
included, and, the last apart, for any number of failures. The code takes no lock on the store or the keychain, so the
hypothesis is the operator's to keep; with two commands the properties fail (a removal
between an add's writes leaves its secrets behind).

* `SecretsHaveRows` (`NoOrphanSecrets`) needs `CleanupWorks` too: a second keychain failure, in
  what undoes a failed add, leaves the orphan of *Findings*, so where `add` is run and
  the keychain can fail, there is at most one failure.
* `RefreshIsAsSaid` (`RefreshKeepsItsWord`): for any number of failures.
* `TypesAreKept` (`TypeOK`): a session is rotated no oftener than `MaxGen` and the failures
  allow, which is what keeps the generations of the instances finite.
* `TokensAreOfTheSession` (`ActiveIsOneSession`) needs `OneFailure`, as with two it is false:
  `auth refresh` goes on to the login when the flag cannot be written, and a failure of the
  re-login's second write then leaves an active mailbox with tokens of two sessions. Crashes alone
  do it too: `auth refresh` after a removal died half-way, itself killed after its
  first write, leaves a token that the next `auth refresh` resumes.

What no overlap disturbs is that the store is as the command read it. `PlaceInv` says for
each step which command may be at it, that its row is still there, and which end of
which list of writes is left (`Placed`, `Left`): the count of writes left then says what is
stored by now. Without the list nothing would tell an add that has yet to write its key pass from
one that failed to. `CarryInv` adds that the client's tokens are the stored ones or
their successors (`Carried`), and what a list makes of the store once it is written (`Writing`:
`Persists`, `Enters`), so that what `auth refresh` served and opened at its last call is what
its writes leave stored. `RotationInv` counts: a stored refresh token goes with an access token of its
own generation (`Paired`), which works until it expires, so a token is only rotated again
after an expiry, of which `MaxGen` allows so many, or after a failure lost the newest
(`Rotations`), and between its two halves a write has room for one failure more (`HalfWay`). They
assume `MaxGen` and `MaxKeys` at least 1 (`SessionBounds`), as a login mints generation 1.
`SplitInv` is about tokens of two sessions (`Split`). While the failure is to come, `auth refresh`
gives a session up (`Relogs`) only where no call gets through or no keys open (`Barren`): what it
leaves if the failure then cuts it short is flagged and as barren (`Leftover`), and neither a
resumption nor expiry changes that, so the mailbox is never declared active on it (`Confirms`).

### SyncUI

For all finite sets of mailboxes, all limits, buffers, counts and passes:
`TypeCorrect`, `BarWithinItsEnd` (`DoneWithinTotal`), `NothingLeft` (`NothingLeftRunning`),
`CleanExit` (`CleanExitMeansSynced`) and `NeverBack` (`HeaderNeverGoesBack`).
`FlowType` types what flows from worker to header; `TeardownInv` ties each line of
`runSyncTUI` to what has been joined by then (`JoinedInv`), to who can hold the log writer's
mutex (`LockInv`) and to what each wait is for (`WaitInv`); `SyncedInv` carries a
worker's failure to the exit code; `InOrder` says that what is in a worker's hands, in the
buffer, in the pump's hand and on the screen is one increasing sequence of a mailbox's
counts (`Queued`, `Ahead`, `LastAt`), whatever the full buffer dropped.

### Tui

For any listings of any length, all sizes, all numbers of commands under way
(`TuiConstants`): `TypeCorrect`, `AlwaysInRange` (`SelectionInRange`), `AlwaysOnScreen`
(`CursorOnScreen`), `OneMessage` (`PagerIsOneMessage`), `TheirQuery`
(`HitsAreOfTheirQuery`), `NoHelpOverPrompt` (`HelpNeverOverPrompt`) and `NobodyDisturbed`
(`ReaderIsNotDisturbed`). `TuiInv` is what every handler keeps: a view is `Good` (its
cursor `InRange`, its window `OnScreen`, its rows and page `Named`), and every answer under way holds
rows of the list it names (`Told`), since a read gives a part of that list
(`RowsAre`). `OnScreen` needs each handler that moves the cursor, replaces the rows or
changes the mode or the size to end in `clampWindow` (`ClampGood`); `Named` needs an
answer checked against what is selected *now* (`PagerGood`). The last theorem is about steps: `Safely`
says that one from `TuiInv` reaches `TuiInv` without replacing a page being read.

### CacheRows

For any mailboxes, finite set of messages, versions, labels, links, attachments and
correspondents, and any `Mail` of them (`CacheRowsConstants`: a canonical address is its own
canonical form, as `normalizeAddress` makes it): `CacheTypes` (`TypeOK`), `NothingIsOrphaned`,
`TheIndexIsTheCache`, `MessagesAreWhole` (`RowsAreWhole`), `ContactsAreOne`, `FoldersAreTheirOwn`
and `DerivationsSurvive`.

No property but `CacheInv` speaks of an open transaction, where all of them are false for a
moment. `TxInv` says of its tables and of the statements still to run what makes them
true by the commit: `MailPlan` (what hangs off a row comes after it, what hangs off a
row that goes has gone before it, and no message is both stored and removed) or
`BoxPlan` (how far `DeleteMailbox` is); `Whole` (what a row still lacks is a statement to come,
or the row is doomed); `Keeping` (what the committed tables had derived is
there, or its message goes); and `Unorphaned`, `Indexed` and `Owned`, which every
statement keeps. `ExecKeeps` has a lemma per kind of statement. A batch is shown
to be a plan piece by piece (`Piece`): one message's writes plan for themselves, and so do
two pieces in a row. `messages_au`, the update trigger, is why `Indexed` holds through a
re-sync, and `ON CONFLICT` keeping its row why `Keeping` does.

### Backfill

For any mailbox, any times, window, page size, retries and any number of arrivals and
deletions (`BackfillConstants`): `WalkTyped` (`TypeOK`), `DeletionsBoundMisses`
(`EachDeletionHidesAtMostOne`) and `ArrivalsBoundRepeats` (`NamedOnceInOrder`).
`WalkInv` is a balance kept at every page: messages owed and `Hidden`, standing on pages already
read without having been kept, are no more than the deletions behind the walk; ids kept twice
(`Extra`) and those that will be (`Again`, kept but standing ahead) are together no more than the
arrivals behind it. A deletion behind moves one message back over the page
boundary (`DeletionMoves`), an arrival one forward (`ArrivalMoves`), and reading a page
settles what stands on it (`PageKeeps`, `NamingBalance`). The filter and the sort are ranks in an
order (`InOrderIs`): a place is where as many come before it, which is a bijection
because the order is strict and total.

### Only model-checked

* `EventuallyConverges`, `LossComesToLight`, `Settles` and `EverythingLoads`: liveness under fairness is
  beyond the proof system.

## 6. Not modelled

* Goose and the migrations' order, pragmas but the foreign keys, the read pool; the SQL of
  the readers: no state, or I/O.
* `send.go` (no caller yet), `llm` (an HTTP client), `mcp`, `serve` and `send` (stubs),
  `config`: pure functions, no state of their own.
* What `map.go` does to HTML and to the wording of an address; rendering.
* Two processes that sync one mailbox (`engine.go:189`), beyond their tokens.

## 7. Plan

1. `OverlappingRuns`: two processes syncing one mailbox: commits of a stale cursor
   over a fresh one; a sync beside a re-login or a removal.
2. When `send` and the MCP tools stop being stubs: their modules.
