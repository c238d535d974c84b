-------------------------------- MODULE Tui --------------------------------
(***************************************************************************)
(* The terminal browser: the root model and the section views of           *)
(* internal/tui over the read-only store facade (internal/tui/store and    *)
(* the readers in internal/store), while a sync changes the cache beside   *)
(* it: two reads of one list may find any rows.                            *)
(*                                                                         *)
(* Bubble Tea runs every command in a goroutine of its own and hands its   *)
(* answer back as a message, so answers arrive in any order and any number *)
(* of keys later.  Keys and messages are handled one at a time.            *)
(*                                                                         *)
(* A row is the id of what it shows.  What a pager shows is a pair: the    *)
(* row its header was drawn from and the row its text was read for.        *)
(***************************************************************************)
EXTENDS Integers, Sequences, FiniteSets, Bags

CONSTANTS
    Queries,       \* what the operator types at the prompt
    Listing,       \* rows of each list in the order the store returns them
    Sizes,         \* body heights the terminal is resized to
    MaxInFlight    \* bound: commands and messages under way

SearchSections == {"search"}
IndexSections == {"attachments", "contacts"}
ReportSections == {"metadata", "stats"}
SectionIds == SearchSections \cup IndexSections \cup ReportSections

Lists == Queries \cup IndexSections \cup ReportSections
RowIds == UNION {{Listing[x][i] : i \in 1..Len(Listing[x])} : x \in Lists}

\* A search has a query of its own; every other section names its one list.
ASSUME TuiConstants ==
    /\ Queries \cap SectionIds = {} /\ "" \notin Queries
    /\ IsFiniteSet(Queries)
    /\ DOMAIN Listing = Lists
    /\ \A x \in Lists : Listing[x] \in Seq(RowIds)
    /\ Sizes \subseteq Nat
    /\ MaxInFlight \in Nat \ {0}

VARIABLES
    size,       \* height of the body, as sectionSize gives it
    view,       \* the open section's view, or Closed
    showHelp,   \* the help overlay is up
    summary,    \* "reading" or "shown": the totals or the error of their read
    commands,   \* bag of commands whose goroutine has not read the store yet
    messages,   \* bag of answers not handled yet
    quit        \* the program has ended

screenVars == <<size, view, showHelp, summary>>
flightVars == <<commands, messages>>
vars == <<screenVars, flightVars, quit>>

NoPage == [head |-> "", text |-> ""]
Pages == {NoPage} \cup [head : RowIds, text : RowIds]
Closed == [sec |-> "menu"]

\* loaded is the search view's searched; detail is mode "pager".
Views ==
    [sec : SectionIds, mode : {"prompt", "list", "pager"},
     typed : Queries \cup {""}, loaded : BOOLEAN, asked : Lists \cup {""},
     rows : Seq(RowIds), err : BOOLEAN, cursor : Nat, top : Nat, page : Pages]

Commands ==
    [do : {"summary"}] \cup [do : {"list"}, of : Lists]
    \cup [do : {"detail"}, sec : SearchSections \cup IndexSections, id : RowIds]

\* A detail answer carries its id only in the search view (hash); in the
\* index views the id names the text, and no guard may read it.
Messages ==
    [is : {"summary", "exit"}]
    \cup [is : {"rows"}, of : Lists, rows : Seq(RowIds), err : BOOLEAN]
    \cup [is : {"detail"}, sec : SearchSections \cup IndexSections, id : RowIds]

InFlight == BagCardinality(commands) + BagCardinality(messages)

TypeOK ==
    /\ size \in Nat \ {0}
    /\ view \in Views \cup {Closed} /\ showHelp \in BOOLEAN
    /\ summary \in {"reading", "shown"}
    /\ IsABag(commands) /\ BagToSet(commands) \subseteq Commands
    /\ IsABag(messages) /\ BagToSet(messages) \subseteq Messages
    /\ quit \in BOOLEAN

-----------------------------------------------------------------------------
(* Reads through the facade.                                               *)

\* A list read is one query, in the store's order, of the rows the cache holds
\* by then, cut at the store's limit: any rows of its listing.  One that fails
\* carries its error and no rows.
Rows(x) ==
    LET n == Len(Listing[x])
        picks == UNION {[1..k -> 1..n] : k \in 0..n}
    IN  {[i \in DOMAIN p |-> Listing[x][p[i]]] :
            p \in {f \in picks : \A i, j \in DOMAIN f : i < j => f[i] < f[j]}}

Reads(x) ==
    {[is |-> "rows", of |-> x, rows |-> found, err |-> FALSE] : found \in Rows(x)}
    \cup {[is |-> "rows", of |-> x, rows |-> <<>>, err |-> TRUE]}

SearchMessages(q) == Reads(q)
ListAttachments == Reads("attachments")
ListContacts == Reads("contacts")
MailboxStats == Reads("metadata")

\* The stats view's command reads the totals, the roster and each mailbox's
\* last run; only the totals' error is kept.
StatsInit == Reads("stats")

RowsAnswers(x) ==
    CASE x \in Queries -> SearchMessages(x)
      [] x = "attachments" -> ListAttachments
      [] x = "contacts" -> ListContacts
      [] x = "metadata" -> MailboxStats
      [] OTHER -> StatsInit

\* What one detail read answers: found, gone and failed all name its row.
GetMessage(id) == [is |-> "detail", sec |-> "search", id |-> id]
AttachmentText(id) == [is |-> "detail", sec |-> "attachments", id |-> id]
ContactFacts(id) == [is |-> "detail", sec |-> "contacts", id |-> id]

DetailAnswer(c) ==
    CASE c.sec = "search" -> GetMessage(c.id)
      [] c.sec = "attachments" -> AttachmentText(c.id)
      [] OTHER -> ContactFacts(c.id)

loadSummary == {[is |-> "summary"]}

Answers(c) ==
    CASE c.do = "summary" -> loadSummary
      [] c.do = "list" -> RowsAnswers(c.of)
      [] OTHER -> {DetailAnswer(c)}

exitSection == [is |-> "exit"]

-----------------------------------------------------------------------------
(* The index list: a cursor and a window of visible rows.                  *)

floorOne(n) == IF n < 1 THEN 1 ELSE n
Room(sec, h) == floorOne(h - (IF sec = "search" THEN 3 ELSE 2))

NoClamp(v, h) == v

clampWindow(v, h) ==
    LET room == Room(v.sec, h)
    IN  [v EXCEPT !.top = IF v.cursor < @ THEN v.cursor
                          ELSE IF v.cursor >= @ + room THEN v.cursor - room + 1
                          ELSE @]

CursorKept(v, rows) == [v EXCEPT !.rows = rows]

SetRows(v, rows) ==
    LET last == IF rows = <<>> THEN 0 ELSE Len(rows) - 1
    IN  clampWindow([v EXCEPT !.rows = rows,
                              !.cursor = IF @ > last THEN last ELSE @], size)

MovePastTop(v) == clampWindow([v EXCEPT !.cursor = @ - 1], size)

MoveUp(v) ==
    IF v.cursor > 0 THEN clampWindow([v EXCEPT !.cursor = @ - 1], size) ELSE v

MoveDown(v) ==
    IF v.cursor < Len(v.rows) - 1
    THEN clampWindow([v EXCEPT !.cursor = @ + 1], size)
    ELSE v

Selected(v) == v.rows[v.cursor + 1]

-----------------------------------------------------------------------------
(* Keys.  Escape stands for every key that backs out.                      *)

Issue(c) ==
    /\ InFlight < MaxInFlight
    /\ commands' = commands (+) SetToBag({c})
    /\ UNCHANGED messages

Post(m) ==
    /\ InFlight < MaxInFlight
    /\ messages' = messages (+) SetToBag({m})
    /\ UNCHANGED commands

newSectionView(sec) ==
    clampWindow([sec |-> sec, mode |-> IF sec = "search" THEN "prompt" ELSE "list",
                 typed |-> "", loaded |-> FALSE, asked |-> "", rows |-> <<>>,
                 err |-> FALSE, cursor |-> 0, top |-> 0, page |-> NoPage], size)

\* The view is built and sized, and its Init reads its list; the prompt's
\* reads nothing.
openSection(sec) ==
    /\ view' = newSectionView(sec)
    /\ IF sec = "search" THEN UNCHANGED flightVars
                         ELSE Issue([do |-> "list", of |-> sec])
    /\ UNCHANGED <<size, showHelp, summary, quit>>

NothingCaptured == FALSE
sectionCapturesText == view.sec = "search" /\ view.mode = "prompt"

\* The process ends: its screen and its goroutines go with it.
Quit ==
    /\ ~quit /\ quit' = TRUE
    /\ view' = Closed /\ showHelp' = FALSE
    /\ commands' = EmptyBag /\ messages' = EmptyBag
    /\ UNCHANGED <<size, summary>>

ToggleHelp ==
    /\ ~quit /\ ~(view # Closed /\ sectionCapturesText)
    /\ showHelp' = ~showHelp
    /\ UNCHANGED <<size, view, summary, flightVars, quit>>

\* The overlay swallows every other key.
CloseHelp ==
    /\ ~quit /\ showHelp
    /\ showHelp' = FALSE
    /\ UNCHANGED <<size, view, summary, flightVars, quit>>

MenuKeys == ~quit /\ ~showHelp /\ view = Closed

\* The menu cursor moves to any entry and opens it.
MenuOpen == MenuKeys /\ \E sec \in SectionIds : openSection(sec)
MenuSearch == MenuKeys /\ openSection("search")
MenuBack == MenuKeys /\ Quit

SectionKeys(sections, mode) ==
    /\ ~quit /\ ~showHelp
    /\ view.sec \in sections /\ view.mode = mode

\* A key that only changes the view.
Show(v) ==
    /\ view' = v
    /\ UNCHANGED <<size, showHelp, summary, flightVars, quit>>

\* A key that only starts a command or posts a message.
Emit(step) == step /\ UNCHANGED <<screenVars, quit>>

Type ==
    /\ SectionKeys(SearchSections, "prompt")
    /\ \E q \in Queries : Show([view EXCEPT !.typed = q])

Submit ==
    /\ SectionKeys(SearchSections, "prompt") /\ view.typed # ""
    /\ Emit(Issue([do |-> "list", of |-> view.typed]))

PromptBack ==
    /\ SectionKeys(SearchSections, "prompt")
    /\ IF view.loaded THEN Show([view EXCEPT !.mode = "list"])
                      ELSE Emit(Post(exitSection))

\* "/" among the results opens the prompt afresh.
NewSearch ==
    /\ SectionKeys(SearchSections, "list")
    /\ Show([view EXCEPT !.mode = "prompt", !.typed = ""])

PagerBack(sections) ==
    /\ SectionKeys(sections, "pager")
    /\ Show([view EXCEPT !.mode = "list"])

ListBack(sections) == SectionKeys(sections, "list") /\ Emit(Post(exitSection))

ListMove(sections) ==
    /\ SectionKeys(sections, "list")
    /\ Show(MoveUp(view)) \/ Show(MoveDown(view))

\* Enter: read the selected row's detail.
ListOpen(sections) ==
    /\ SectionKeys(sections, "list") /\ view.rows # <<>>
    /\ Emit(Issue([do |-> "detail", sec |-> view.sec, id |-> Selected(view)]))

SearchKeys ==
    \/ Type \/ Submit \/ PromptBack \/ NewSearch
    \/ PagerBack(SearchSections) \/ ListBack(SearchSections)
    \/ ListMove(SearchSections) \/ ListOpen(SearchSections)

IndexKeys(sec) ==
    \/ PagerBack({sec}) \/ ListBack({sec}) \/ ListMove({sec}) \/ ListOpen({sec})

AttachmentKeys == IndexKeys("attachments")
FactsKeys == IndexKeys("contacts")
MetadataKeys == ListBack({"metadata"})
StatsKeys == ListBack({"stats"})

-----------------------------------------------------------------------------
(* Commands and messages.                                                  *)

\* A command's goroutine reads the store and queues its answer.
RunCommand(c) ==
    /\ ~quit /\ BagIn(c, commands)
    /\ commands' = commands (-) SetToBag({c})
    /\ \E m \in Answers(c) : messages' = messages (+) SetToBag({m})
    /\ UNCHANGED <<screenVars, quit>>

Listed(v, m) == SetRows([v EXCEPT !.loaded = TRUE, !.asked = m.of, !.err = m.err], m.rows)

TornFromPager(v, m) == [Listed(v, m) EXCEPT !.mode = "list"]

NamedByPrompt(v, m) ==
    IF v.mode = "pager" THEN v
    ELSE [Listed(v, m) EXCEPT !.mode = "list",
                              !.asked = IF v.typed = "" THEN m.of ELSE v.typed]

\* searchDoneMsg: ignored in the pager, shown everywhere else.
ShowResults(v, m) ==
    IF v.mode = "pager" THEN v ELSE [Listed(v, m) EXCEPT !.mode = "list"]

\* A page has the header of the row selected now and the text of its message.
renderMessage(v, m) == [head |-> Selected(v), text |-> m.id]
renderText(v, m) == [head |-> Selected(v), text |-> m.id]
renderFacts(v, m) == [head |-> Selected(v), text |-> m.id]

Pager(v, page) == [v EXCEPT !.mode = "pager", !.page = page]

AnyHit(v, m) ==
    IF v.mode # "list" \/ v.rows = <<>> THEN v ELSE Pager(v, renderMessage(v, m))

\* messageLoadedMsg: only from the results, only for the selected hit.
ShowMessage(v, m) ==
    IF v.mode # "list" \/ v.rows = <<>> \/ m.id # Selected(v) THEN v
    ELSE Pager(v, renderMessage(v, m))

SearchUpdate(v, m) ==
    CASE m.is = "rows" /\ m.of \in Queries -> ShowResults(v, m)
      [] m.is = "detail" /\ m.sec = "search" -> ShowMessage(v, m)
      [] OTHER -> v

\* attachmentsLoadedMsg leaves an open pager as it is; attachmentTextMsg
\* carries no id to compare.
AttachmentsUpdate(v, m) ==
    CASE m.is = "rows" /\ m.of = v.sec -> Listed(v, m)
      [] m.is = "detail" /\ m.sec = v.sec /\ v.rows # <<>> -> Pager(v, renderText(v, m))
      [] OTHER -> v

FactsUpdate(v, m) ==
    CASE m.is = "rows" /\ m.of = v.sec -> Listed(v, m)
      [] m.is = "detail" /\ m.sec = v.sec /\ v.rows # <<>> -> Pager(v, renderFacts(v, m))
      [] OTHER -> v

Report(v, m) ==
    IF m.is = "rows" /\ m.of = v.sec
    THEN [v EXCEPT !.loaded = TRUE, !.asked = m.of, !.err = m.err]
    ELSE v

MetadataUpdate(v, m) == Report(v, m)
StatsUpdate(v, m) == Report(v, m)

SectionUpdate(v, m) ==
    CASE v.sec = "search" -> SearchUpdate(v, m)
      [] v.sec = "attachments" -> AttachmentsUpdate(v, m)
      [] v.sec = "contacts" -> FactsUpdate(v, m)
      [] v.sec = "metadata" -> MetadataUpdate(v, m)
      [] OTHER -> StatsUpdate(v, m)

ShowSummary(m) == summary' = IF m.is = "summary" THEN "shown" ELSE summary

SwallowedByHelp(m) ==
    /\ ShowSummary(m)
    /\ view' = IF m.is = "exit" THEN Closed
               ELSE IF view = Closed \/ m.is = "summary" \/ showHelp THEN view
               ELSE SectionUpdate(view, m)

\* Everything but the summary and an exit goes to the open section.
Update(m) ==
    /\ ShowSummary(m)
    /\ view' = IF m.is = "exit" THEN Closed
               ELSE IF view = Closed \/ m.is = "summary" THEN view
               ELSE SectionUpdate(view, m)

Deliver(m) ==
    /\ ~quit /\ BagIn(m, messages)
    /\ messages' = messages (-) SetToBag({m})
    /\ Update(m)
    /\ UNCHANGED <<size, showHelp, commands, quit>>

Resize ==
    /\ ~quit
    /\ size' \in {floorOne(h) : h \in Sizes}
    /\ view' = IF view = Closed THEN view ELSE clampWindow(view, size')
    /\ UNCHANGED <<showHelp, summary, flightVars, quit>>

-----------------------------------------------------------------------------
Init ==
    /\ size = floorOne(0) /\ view = Closed /\ showHelp = FALSE
    /\ summary = "reading"
    /\ commands = SetToBag({[do |-> "summary"]}) /\ messages = EmptyBag
    /\ quit = FALSE

Keys ==
    \/ Quit \/ ToggleHelp \/ CloseHelp
    \/ MenuOpen \/ MenuSearch \/ MenuBack
    \/ SearchKeys \/ AttachmentKeys \/ FactsKeys \/ MetadataKeys \/ StatsKeys

Answering ==
    \/ \E c \in BagToSet(commands) : RunCommand(c)
    \/ \E m \in BagToSet(messages) : Deliver(m)

Next == Keys \/ Answering \/ Resize

Spec == Init /\ [][Next]_vars

\* Every goroutine runs and every message it queued is handled; the operator
\* owes nothing.
RunList(x) == \E c \in BagToSet(commands) : c.do = "list" /\ c.of = x /\ RunCommand(c)
DeliverRows(x) == \E m \in BagToSet(messages) : m.is = "rows" /\ m.of = x /\ Deliver(m)
RunSummary == \E c \in BagToSet(commands) : c.do = "summary" /\ RunCommand(c)
DeliverSummary == \E m \in BagToSet(messages) : m.is = "summary" /\ Deliver(m)

Fairness ==
    /\ WF_vars(RunSummary) /\ WF_vars(DeliverSummary)
    /\ \A x \in IndexSections \cup ReportSections :
        WF_vars(RunList(x)) /\ WF_vars(DeliverRows(x))

FairSpec == Spec /\ Fairness

-----------------------------------------------------------------------------
(* What is on the screen.                                                  *)

Open(sections) == view.sec \in sections

SearchBody(v) ==
    CASE v.mode = "prompt" -> "prompt"
      [] v.mode = "pager" -> "pager"
      [] OTHER -> IF v.rows = <<>> THEN "empty" ELSE "list"

AttachmentsBody(v) ==
    CASE ~v.loaded -> "reading"
      [] v.err -> "unreadable"
      [] v.mode = "pager" -> "pager"
      [] OTHER -> IF v.rows = <<>> THEN "empty" ELSE "list"

FactsBody(v) ==
    CASE ~v.loaded -> "reading"
      [] v.err -> "unreadable"
      [] v.mode = "pager" -> "pager"
      [] OTHER -> IF v.rows = <<>> THEN "empty" ELSE "list"

MetadataBody(v) ==
    CASE ~v.loaded -> "reading" [] v.err -> "unreadable" [] OTHER -> "report"

StatsBody(v) ==
    CASE ~v.loaded -> "reading" [] v.err -> "unreadable" [] OTHER -> "report"

\* What the body shows of the open section.
SectionBody(v) ==
    CASE v.sec = "search" -> SearchBody(v)
      [] v.sec = "attachments" -> AttachmentsBody(v)
      [] v.sec = "contacts" -> FactsBody(v)
      [] v.sec = "metadata" -> MetadataBody(v)
      [] OTHER -> StatsBody(v)

\* The overlay covers the section, the section covers the menu.
Screen == IF showHelp THEN "help" ELSE IF view = Closed THEN "menu" ELSE SectionBody(view)

Paging == Open(SearchSections) /\ SectionBody(view) = "pager"

-----------------------------------------------------------------------------
(* Properties.                                                             *)

\* No key and no message indexes past the rows: the cursor is on a row
\* whenever there is one, whatever lists replaced the one it moved in.
SelectionInRange ==
    view # Closed =>
        /\ view.rows = <<>> => view.cursor = 0
        /\ view.rows # <<>> => view.cursor < Len(view.rows)

\* The active row is always among the rows on screen, after any mix of
\* moves, shorter and longer lists and resizes.
CursorOnScreen ==
    view # Closed =>
        /\ view.top <= view.cursor
        /\ view.cursor < view.top + Room(view.sec, size)

\* The search pager never shows one message's header over another's body,
\* however many loads and searches were under way.
PagerIsOneMessage == Paging => view.page.head = view.page.text

\* The status line names the search the listed hits came from.
HitsAreOfTheirQuery ==
    Open(SearchSections) /\ view.rows # <<>> =>
        \A i \in 1..Len(view.rows) :
            \E j \in 1..Len(Listing[view.asked]) : Listing[view.asked][j] = view.rows[i]

\* The overlay is never up over a focused prompt, where "?" belongs to the
\* query: it would swallow the characters typed (handleKey, model.go 172-186).
HelpNeverOverPrompt ==
    Screen = "help" /\ Open(SearchSections) => SectionBody(view) # "prompt"

\* A message someone reads stays on the screen until a key or a closing
\* section takes it away, and a load opens the pager from the results alone.
ReaderIsNotDisturbed ==
    [][/\ Paging /\ Paging' => view'.page = view.page
       /\ Paging /\ messages' # messages => Paging' \/ view' = Closed
       /\ ~Paging /\ Paging' => Open(SearchSections) /\ SectionBody(view) = "list"]_vars

\* The menu stops saying "reading the cache", and so does every section left
\* open.
EverythingLoads ==
    /\ <>(summary # "reading" \/ quit)
    /\ \A s \in IndexSections \cup ReportSections :
        (Open({s}) /\ SectionBody(view) = "reading")
            ~> (quit \/ ~Open({s}) \/ SectionBody(view) # "reading")

\* SPEC-0005 of an attachment the operator opens: the TUI shows its metadata
\* and its text.  The text message names no attachment.
AttachmentIsOneRow ==
    Open({"attachments"}) /\ Screen = "pager" => view.page.head = view.page.text

=============================================================================
