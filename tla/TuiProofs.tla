------------------------------ MODULE TuiProofs ------------------------------
(* Theorems about Tui, for any listings, queries, terminal sizes and       *)
(* numbers of commands under way: what the browser shows stays in range,   *)
(* on the screen and under its own name, in whatever order answers come.   *)
EXTENDS Tui, TLAPS

-----------------------------------------------------------------------------
(* The inductive invariant.                                                *)

\* r is a row of list x.
RowOf(x, r) == \E j \in 1..Len(Listing[x]) : Listing[x][j] = r

\* A view with its cursor on a row and its window around the cursor, that
\* shows what it says it shows.
InRange(v) ==
    /\ v.rows = <<>> => v.cursor = 0
    /\ v.rows # <<>> => v.cursor < Len(v.rows)
OnScreen(v, h) == v.top <= v.cursor /\ v.cursor < v.top + Room(v.sec, h)
Named(v) ==
    v.sec = "search" =>
        /\ v.mode = "pager" => v.page.head = v.page.text
        /\ \A i \in 1..Len(v.rows) : v.asked \in Queries /\ RowOf(v.asked, v.rows[i])
Good(v, h) == v \in Views /\ InRange(v) /\ OnScreen(v, h) /\ Named(v)

\* An answer holds rows of the list it names.
Told(m) == m.is = "rows" => \A i \in 1..Len(m.rows) : RowOf(m.of, m.rows[i])

ScreenInv ==
    /\ size \in Nat \ {0} /\ showHelp \in BOOLEAN
    /\ summary \in {"reading", "shown"} /\ quit \in BOOLEAN
    /\ view = Closed \/ Good(view, size)
    /\ ~(showHelp /\ view.sec = "search" /\ view.mode = "prompt")
FlightInv ==
    /\ IsABag(commands) /\ BagToSet(commands) \subseteq Commands
    /\ IsABag(messages) /\ BagToSet(messages) \subseteq Messages
    /\ \A m \in BagToSet(messages) : Told(m)
TuiInv == ScreenInv /\ FlightInv

\* A message on the screen, to be read.
Reading(v) == v.sec = "search" /\ v.mode = "pager"

\* A page that is read is not replaced, and a pager opens from results alone.
Undisturbed(v, w) ==
    /\ Reading(v) /\ Reading(w) => w.page = v.page
    /\ ~Reading(v) /\ Reading(w) => v.sec = "search" /\ v.mode = "list" /\ v.rows # <<>>

-----------------------------------------------------------------------------
(* Bags, lists and answers.                                                *)

\* One more in a bag, or one less.
LEMMA BagStep ==
  ASSUME NEW B, IsABag(B), NEW e
  PROVE  /\ IsABag(B (+) SetToBag({e})) /\ IsABag(B (-) SetToBag({e}))
         /\ BagToSet(B (+) SetToBag({e})) = BagToSet(B) \cup {e}
         /\ BagToSet(B (-) SetToBag({e})) \subseteq BagToSet(B)
<1>1. IsABag(B (+) SetToBag({e})) /\ BagToSet(B (+) SetToBag({e})) = BagToSet(B) \cup {e}
  BY DEF IsABag, BagToSet, SetToBag, (+)
<1>2. IsABag(B (-) SetToBag({e})) /\ BagToSet(B (-) SetToBag({e})) \subseteq BagToSet(B)
  BY DEF IsABag, BagToSet, SetToBag, (-)
<1> QED BY <1>1, <1>2

LEMMA EmptyBagIs == IsABag(EmptyBag) /\ BagToSet(EmptyBag) = {}
BY DEF IsABag, BagToSet, EmptyBag, SetToBag

\* What a read of a list finds are rows of it.
LEMMA RowsAre ==
  ASSUME NEW x \in Lists, NEW found \in Rows(x)
  PROVE  found \in Seq(RowIds) /\ \A i \in 1..Len(found) : RowOf(x, found[i])
<1> DEFINE s == Listing[x]  n == Len(s)
<1>1. s \in Seq(RowIds) /\ n \in Nat
  <2>1. s \in Seq(RowIds)
    BY TuiConstants, Zenon
  <2> HIDE DEF s
  <2> QED BY <2>1
<1>2. PICK k \in 0..n : \E g \in [1..k -> 1..n] : found = [i \in DOMAIN g |-> s[g[i]]]
  <2> DEFINE picks == UNION {[1..k -> 1..n] : k \in 0..n}
  <2>1. PICK g \in picks : found = [i \in DOMAIN g |-> s[g[i]]]
    BY DEF Rows
  <2>2. PICK k \in 0..n : g \in [1..k -> 1..n]
    BY <2>1
  <2> QED BY <2>1, <2>2
<1> PICK f \in [1..k -> 1..n] : found = [i \in DOMAIN f |-> s[f[i]]]
  BY <1>2
<1>3. \A i \in 1..k : f[i] \in 1..n /\ found[i] = s[f[i]] /\ s[f[i]] \in RowIds
  BY <1>1, <1>2
<1>4. found \in [1..k -> RowIds] /\ k \in Nat
  BY <1>1, <1>2, <1>3
<1>5. found \in Seq(RowIds) /\ Len(found) = k
  BY <1>4
<1> QED BY <1>3, <1>5 DEF RowOf

LEMMA ReadsAre ==
  ASSUME NEW x \in Lists, NEW m \in Reads(x)
  PROVE  m \in Messages /\ Told(m) /\ m.is = "rows" /\ m.of = x
<1>1. CASE m = [is |-> "rows", of |-> x, rows |-> <<>>, err |-> TRUE]
  <2>1. <<>> \in Seq(RowIds) /\ TRUE \in BOOLEAN
    OBVIOUS
  <2> QED BY <1>1, <2>1 DEF Messages, Told
<1>2. ASSUME NEW found \in Rows(x), m = [is |-> "rows", of |-> x, rows |-> found, err |-> FALSE]
      PROVE  m \in Messages /\ Told(m) /\ m.is = "rows" /\ m.of = x
  <2>1. FALSE \in BOOLEAN
    OBVIOUS
  <2> QED BY <1>2, <2>1, RowsAre DEF Messages, Told
<1> QED BY <1>1, <1>2 DEF Reads

\* Every command's answer is a message that holds what it says.
LEMMA AnswersAre ==
  ASSUME NEW c \in Commands, NEW m \in Answers(c)
  PROVE  m \in Messages /\ Told(m)
<1>1. CASE c.do = "summary"
  BY <1>1 DEF Answers, loadSummary, Messages, Told
<1>2. CASE c.do = "list"
  <2>1. c.of \in Lists
    BY <1>2 DEF Commands
  <2>2. RowsAnswers(c.of) = Reads(c.of)
    BY <2>1 DEF RowsAnswers, SearchMessages, ListAttachments, ListContacts, MailboxStats,
                StatsInit, Lists, IndexSections, ReportSections
  <2>3. m \in Reads(c.of)
    BY <1>2, <2>2 DEF Answers
  <2> QED BY <2>1, <2>3, ReadsAre
<1>3. CASE c.do = "detail"
  <2>1. c.sec \in SearchSections \cup IndexSections /\ c.id \in RowIds
    BY <1>3 DEF Commands
  <2>2. m = DetailAnswer(c)
    BY <1>3 DEF Answers
  <2>3. m = [is |-> "detail", sec |-> c.sec, id |-> c.id]
    BY <2>1, <2>2 DEF DetailAnswer, GetMessage, AttachmentText, ContactFacts,
                      SearchSections, IndexSections
  <2> QED BY <2>1, <2>3 DEF Messages, Told
<1> QED BY <1>1, <1>2, <1>3 DEF Commands

-----------------------------------------------------------------------------
(* Views.                                                                  *)

LEMMA ViewFields ==
  ASSUME NEW v \in Views
  PROVE  /\ v.sec \in SectionIds /\ v.mode \in {"prompt", "list", "pager"}
         /\ v.typed \in Queries \cup {""} /\ v.loaded \in BOOLEAN /\ v.asked \in Lists \cup {""}
         /\ v.rows \in Seq(RowIds) /\ Len(v.rows) \in Nat /\ v.err \in BOOLEAN
         /\ v.cursor \in Nat /\ v.top \in Nat /\ v.page \in Pages
<1>1. /\ v.sec \in SectionIds /\ v.mode \in {"prompt", "list", "pager"}
      /\ v.typed \in Queries \cup {""} /\ v.asked \in Lists \cup {""}
      /\ v.rows \in Seq(RowIds) /\ v.cursor \in Nat /\ v.top \in Nat /\ v.page \in Pages
  BY DEF Views
<1>2. v.loaded \in BOOLEAN /\ v.err \in BOOLEAN
  BY Zenon DEF Views
<1>3. \A r \in Seq(RowIds) : Len(r) \in Nat
  OBVIOUS
<1> QED BY <1>1, <1>2, <1>3

\* The menu is no view.
LEMMA MenuIsClosed ==
  /\ Closed.sec = "menu" /\ "menu" \notin SectionIds /\ Closed \notin Views
  /\ "search" \in SectionIds /\ SearchSections = {"search"}
  /\ "search" \notin IndexSections \cup ReportSections
<1>1. Closed.sec = "menu"
  BY DEF Closed
<1>2. "menu" \notin SectionIds /\ "search" \in SectionIds /\ SearchSections = {"search"}
      /\ "search" \notin IndexSections \cup ReportSections
  BY DEF SectionIds, SearchSections, IndexSections, ReportSections
<1>3. Closed \notin Views
  BY <1>1, <1>2, ViewFields
<1> QED BY <1>1, <1>2, <1>3

\* Moving the window changes nothing else, and brings the cursor into it.
LEMMA ClampGood ==
  ASSUME NEW v \in Views, NEW h \in Nat
  PROVE  LET w == clampWindow(v, h)
         IN  /\ w \in Views /\ w.sec = v.sec /\ w.mode = v.mode /\ w.typed = v.typed
             /\ w.loaded = v.loaded /\ w.asked = v.asked /\ w.rows = v.rows /\ w.err = v.err
             /\ w.cursor = v.cursor /\ w.page = v.page
             /\ OnScreen(w, h)
<1> DEFINE room == Room(v.sec, h)
           top == IF v.cursor < v.top THEN v.cursor
                  ELSE IF v.cursor >= v.top + room THEN v.cursor - room + 1 ELSE v.top
           w == [v EXCEPT !.top = top]
<1>1. room \in Nat \ {0}
  BY DEF Room, floorOne
<1>2. v.cursor \in Nat /\ v.top \in Nat
  BY ViewFields
<1>3. top \in Nat /\ top <= v.cursor /\ v.cursor < top + room
  BY <1>1, <1>2
<1>4. clampWindow(v, h) = w
  BY DEF clampWindow
<1> HIDE DEF top, room
<1>5. /\ w \in Views /\ w.sec = v.sec /\ w.mode = v.mode /\ w.typed = v.typed
      /\ w.loaded = v.loaded /\ w.asked = v.asked /\ w.rows = v.rows /\ w.err = v.err
      /\ w.cursor = v.cursor /\ w.page = v.page /\ w.top = top
  BY <1>3 DEF Views
<1>6. OnScreen(w, h)
  BY <1>3, <1>5 DEF OnScreen, room
<1> HIDE DEF w
<1> QED BY <1>4, <1>5, <1>6

\* A list replaced puts the cursor on one of its rows.
LEMMA SetRowsGood ==
  ASSUME NEW v \in Views, NEW rows \in Seq(RowIds), size \in Nat
  PROVE  LET w == SetRows(v, rows)
         IN  /\ w \in Views /\ w.sec = v.sec /\ w.mode = v.mode /\ w.typed = v.typed
             /\ w.loaded = v.loaded /\ w.asked = v.asked /\ w.rows = rows /\ w.err = v.err
             /\ w.page = v.page /\ InRange(w) /\ OnScreen(w, size)
<1> DEFINE last == IF rows = <<>> THEN 0 ELSE Len(rows) - 1
           cur == IF v.cursor > last THEN last ELSE v.cursor
           u == [v EXCEPT !.rows = rows, !.cursor = cur]
<1>1. last \in Nat /\ cur \in Nat /\ cur <= last
  <2>1. v.cursor \in Nat
    BY ViewFields
  <2>2. Len(rows) \in Nat /\ (rows # <<>> => Len(rows) # 0)
    OBVIOUS
  <2>3. last \in Nat
    BY <2>2
  <2> HIDE DEF last
  <2> QED BY <2>1, <2>3
<1>2. (rows = <<>> => cur = 0) /\ (rows # <<>> => cur < Len(rows))
  BY <1>1
<1> HIDE DEF cur
<1>3. /\ u \in Views /\ u.sec = v.sec /\ u.mode = v.mode /\ u.typed = v.typed
      /\ u.loaded = v.loaded /\ u.asked = v.asked /\ u.rows = rows /\ u.err = v.err
      /\ u.cursor = cur /\ u.page = v.page
  BY <1>1 DEF Views
<1>4. SetRows(v, rows) = clampWindow(u, size)
  BY DEF SetRows, cur
<1> HIDE DEF u
<1> DEFINE w == clampWindow(u, size)
<1>5. /\ w \in Views /\ w.sec = v.sec /\ w.mode = v.mode /\ w.typed = v.typed
      /\ w.loaded = v.loaded /\ w.asked = v.asked /\ w.rows = rows /\ w.err = v.err
      /\ w.cursor = cur /\ w.page = v.page /\ OnScreen(w, size)
  BY <1>3, ClampGood
<1> HIDE DEF w
<1>6. InRange(w)
  BY <1>2, <1>5 DEF InRange
<1> QED BY <1>4, <1>5, <1>6 DEF w

\* A list that is shown is the list that answered.
LEMMA ListedGood ==
  ASSUME NEW v \in Views, NEW m \in Messages, m.is = "rows", size \in Nat
  PROVE  LET w == Listed(v, m)
         IN  /\ w \in Views /\ w.sec = v.sec /\ w.mode = v.mode /\ w.typed = v.typed
             /\ w.asked = m.of /\ w.rows = m.rows
             /\ w.page = v.page /\ InRange(w) /\ OnScreen(w, size)
<1> DEFINE u == [v EXCEPT !.loaded = TRUE, !.asked = m.of, !.err = m.err]
<1>1. m.of \in Lists /\ m.rows \in Seq(RowIds) /\ m.err \in BOOLEAN
  BY DEF Messages
<1>2. TRUE \in BOOLEAN
  OBVIOUS
<1>3. u \in Views /\ u.sec = v.sec /\ u.mode = v.mode /\ u.typed = v.typed /\ u.asked = m.of
      /\ u.page = v.page
  BY <1>1, <1>2 DEF Views
<1>4. Listed(v, m) = SetRows(u, m.rows)
  BY DEF Listed
<1> HIDE DEF u
<1> QED BY <1>1, <1>3, <1>4, SetRowsGood

\* A step up or down stays on the rows.
LEMMA MoveGood ==
  ASSUME NEW v, Good(v, size), size \in Nat
  PROVE  /\ Good(MoveUp(v), size) /\ MoveUp(v).sec = v.sec /\ MoveUp(v).mode = v.mode
         /\ Good(MoveDown(v), size) /\ MoveDown(v).sec = v.sec /\ MoveDown(v).mode = v.mode
<1>1. v \in Views /\ v.cursor \in Nat /\ Len(v.rows) \in Nat
  BY ViewFields DEF Good
<1>2. ASSUME NEW cur \in Nat, (v.rows = <<>> => cur = 0), (v.rows # <<>> => cur < Len(v.rows))
      PROVE  LET w == clampWindow([v EXCEPT !.cursor = cur], size)
             IN  Good(w, size) /\ w.sec = v.sec /\ w.mode = v.mode
  <2> DEFINE u == [v EXCEPT !.cursor = cur]
  <2>1. /\ u \in Views /\ u.sec = v.sec /\ u.mode = v.mode /\ u.asked = v.asked
        /\ u.rows = v.rows /\ u.cursor = cur /\ u.page = v.page
    BY <1>1 DEF Views
  <2> HIDE DEF u
  <2>2. LET w == clampWindow(u, size)
        IN  /\ w \in Views /\ w.sec = v.sec /\ w.mode = v.mode /\ w.asked = v.asked
            /\ w.rows = v.rows /\ w.cursor = cur /\ w.page = v.page /\ OnScreen(w, size)
    BY <2>1, ClampGood
  <2>3. Good(clampWindow(u, size), size)
    BY <1>2, <2>2 DEF Good, InRange, Named
  <2> QED BY <2>2, <2>3 DEF u
<1>3. Good(MoveUp(v), size) /\ MoveUp(v).sec = v.sec /\ MoveUp(v).mode = v.mode
  <2>1. CASE v.cursor > 0
    <3>1. v.cursor - 1 \in Nat /\ (v.rows = <<>> => v.cursor - 1 = 0)
          /\ (v.rows # <<>> => v.cursor - 1 < Len(v.rows))
      BY <1>1, <2>1 DEF Good, InRange
    <3>2. MoveUp(v) = clampWindow([v EXCEPT !.cursor = v.cursor - 1], size)
      BY <2>1 DEF MoveUp
    <3> QED BY <1>2, <3>1, <3>2
  <2>2. CASE ~(v.cursor > 0)
    BY <2>2 DEF MoveUp
  <2> QED BY <2>1, <2>2
<1>4. Good(MoveDown(v), size) /\ MoveDown(v).sec = v.sec /\ MoveDown(v).mode = v.mode
  <2>1. CASE v.cursor < Len(v.rows) - 1
    <3>1. v.cursor + 1 \in Nat /\ v.rows # <<>> /\ v.cursor + 1 < Len(v.rows)
      BY <1>1, <2>1
    <3>2. MoveDown(v) = clampWindow([v EXCEPT !.cursor = v.cursor + 1], size)
      BY <2>1 DEF MoveDown
    <3> QED BY <1>2, <3>1, <3>2
  <2>2. CASE ~(v.cursor < Len(v.rows) - 1)
    BY <2>2 DEF MoveDown
  <2> QED BY <2>1, <2>2
<1> QED BY <1>3, <1>4

\* Prompt and list show no page.
LEMMA ModeGood ==
  ASSUME NEW v, NEW h, Good(v, h), NEW md \in {"prompt", "list"}
  PROVE  LET w == [v EXCEPT !.mode = md]
         IN  Good(w, h) /\ w.sec = v.sec /\ w.mode = md
<1> DEFINE w == [v EXCEPT !.mode = md]
<1>1. /\ w \in Views /\ w.sec = v.sec /\ w.mode = md /\ w.asked = v.asked /\ w.rows = v.rows
      /\ w.cursor = v.cursor /\ w.top = v.top
  BY DEF Good, Views
<1>2. w.mode # "pager"
  BY <1>1
<1> HIDE DEF w
<1>3. Good(w, h)
  BY <1>1, <1>2 DEF Good, InRange, OnScreen, Named
<1> QED BY <1>1, <1>3 DEF w

\* Typing changes nothing else.
LEMMA TypedGood ==
  ASSUME NEW v, NEW h, Good(v, h), NEW q \in Queries \cup {""}
  PROVE  LET w == [v EXCEPT !.typed = q]
         IN  Good(w, h) /\ w.sec = v.sec /\ w.mode = v.mode
<1> DEFINE w == [v EXCEPT !.typed = q]
<1>1. /\ w \in Views /\ w.sec = v.sec /\ w.mode = v.mode /\ w.asked = v.asked /\ w.rows = v.rows
      /\ w.cursor = v.cursor /\ w.top = v.top /\ w.page = v.page
  BY DEF Good, Views
<1> HIDE DEF w
<1>2. Good(w, h)
  BY <1>1 DEF Good, InRange, OnScreen, Named
<1> QED BY <1>1, <1>2 DEF w

\* The selected row is a row.
LEMMA SelectedIs ==
  ASSUME NEW v, NEW h, Good(v, h), v.rows # <<>>
  PROVE  Selected(v) \in RowIds
<1>1. v.rows \in Seq(RowIds) /\ v.cursor \in Nat /\ v.cursor < Len(v.rows)
  BY ViewFields DEF Good, InRange
<1>2. v.cursor + 1 \in 1..Len(v.rows)
  BY <1>1
<1>3. \A r \in Seq(RowIds) : \A i \in 1..Len(r) : r[i] \in RowIds
  OBVIOUS
<1> QED BY <1>1, <1>2, <1>3 DEF Selected

\* A page goes over the list; the search's has one message's header and text.
LEMMA PagerGood ==
  ASSUME NEW v, NEW h, Good(v, h), v.rows # <<>>, NEW id \in RowIds,
         v.sec = "search" => id = Selected(v)
  PROVE  LET w == Pager(v, [head |-> Selected(v), text |-> id])
         IN  Good(w, h) /\ w.sec = v.sec /\ w.mode = "pager"
<1> DEFINE pg == [head |-> Selected(v), text |-> id]
           w == [v EXCEPT !.mode = "pager", !.page = pg]
<1>1. pg \in Pages /\ pg.head = Selected(v) /\ pg.text = id
  BY SelectedIs DEF Pages
<1> HIDE DEF pg
<1>2. /\ w \in Views /\ w.sec = v.sec /\ w.mode = "pager" /\ w.asked = v.asked
      /\ w.rows = v.rows /\ w.cursor = v.cursor /\ w.top = v.top /\ w.page = pg
  BY <1>1 DEF Good, Views
<1>3. Pager(v, pg) = w
  BY DEF Pager
<1> HIDE DEF w
<1>4. Good(w, h)
  BY <1>1, <1>2 DEF Good, InRange, OnScreen, Named
<1> QED BY <1>2, <1>3, <1>4 DEF pg

\* The list that answered, with the view out of the pager and out of the prompt
\* or as it was.
LEMMA ShownGood ==
  ASSUME NEW v, Good(v, size), NEW m \in Messages, m.is = "rows", Told(m), size \in Nat
  PROVE  /\ v.sec # "search" => Good(Listed(v, m), size) /\ Listed(v, m).sec = v.sec
         /\ m.of \in Queries =>
              LET w == [Listed(v, m) EXCEPT !.mode = "list"]
              IN  Good(w, size) /\ w.sec = v.sec /\ w.mode = "list"
<1> DEFINE u == Listed(v, m)
<1>1. /\ u \in Views /\ u.sec = v.sec /\ u.mode = v.mode /\ u.asked = m.of /\ u.rows = m.rows
      /\ InRange(u) /\ OnScreen(u, size)
  BY ListedGood DEF Good
<1> HIDE DEF u
<1>2. v.sec # "search" => Good(u, size)
  BY <1>1 DEF Good, Named
<1>3. ASSUME m.of \in Queries
      PROVE  LET w == [u EXCEPT !.mode = "list"]
             IN  Good(w, size) /\ w.sec = v.sec /\ w.mode = "list"
  <2> DEFINE w == [u EXCEPT !.mode = "list"]
  <2>1. /\ w \in Views /\ w.sec = v.sec /\ w.mode = "list" /\ w.asked = m.of /\ w.rows = m.rows
        /\ w.cursor = u.cursor /\ w.top = u.top
    BY <1>1 DEF Views
  <2> HIDE DEF w
  <2>2. Good(w, size)
    BY <1>1, <1>3, <2>1 DEF Good, InRange, OnScreen, Named, Told
  <2> QED BY <2>1, <2>2 DEF w
<1> QED BY <1>1, <1>2, <1>3 DEF u

\* What a message makes of the open section.
Shows(v, w) ==
    /\ Good(w, size) /\ w.sec = v.sec /\ Undisturbed(v, w)
    /\ Reading(v) => w = v
    /\ w = v \/ ~(w.sec = "search" /\ w.mode = "prompt")

LEMMA SectionShows ==
  ASSUME NEW v, Good(v, size), NEW m \in Messages, Told(m), size \in Nat
  PROVE  Shows(v, SectionUpdate(v, m))
<1> DEFINE w == SectionUpdate(v, m)
<1> SUFFICES Shows(v, w)
  OBVIOUS
<1>1. CASE w = v
  BY <1>1 DEF Shows, Undisturbed
<1>2. CASE v.sec = "search" /\ m.is = "rows" /\ m.of \in Queries
           /\ v.mode # "pager" /\ w = [Listed(v, m) EXCEPT !.mode = "list"]
  <2>1. Good(w, size) /\ w.sec = v.sec /\ w.mode = "list"
    BY <1>2, ShownGood
  <2> HIDE DEF w
  <2> QED BY <1>2, <2>1 DEF Shows, Undisturbed, Reading
<1>3. CASE v.sec = "search" /\ m.is = "detail" /\ v.mode = "list" /\ v.rows # <<>>
           /\ m.id = Selected(v) /\ w = Pager(v, [head |-> Selected(v), text |-> m.id])
  <2>1. m.id \in RowIds
    BY <1>3, SelectedIs
  <2>2. Good(w, size) /\ w.sec = v.sec /\ w.mode = "pager"
    BY <1>3, <2>1, PagerGood
  <2> HIDE DEF w
  <2> QED BY <1>3, <2>2 DEF Shows, Undisturbed, Reading
<1>4. CASE v.sec # "search" /\ m.is = "rows" /\ w = Listed(v, m)
  <2>1. Good(w, size) /\ w.sec = v.sec
    BY <1>4, ShownGood
  <2> HIDE DEF w
  <2> QED BY <1>4, <2>1 DEF Shows, Undisturbed, Reading
<1>5. CASE v.sec # "search" /\ m.is = "detail" /\ v.rows # <<>>
           /\ w = Pager(v, [head |-> Selected(v), text |-> m.id])
  <2>1. m.id \in RowIds
    BY <1>5 DEF Messages
  <2>2. Good(w, size) /\ w.sec = v.sec
    BY <1>5, <2>1, PagerGood
  <2> HIDE DEF w
  <2> QED BY <1>5, <2>2 DEF Shows, Undisturbed, Reading
<1>6. CASE v.sec # "search" /\ m.is = "rows"
           /\ w = [v EXCEPT !.loaded = TRUE, !.asked = m.of, !.err = m.err]
  <2>1. m.of \in Lists /\ m.err \in BOOLEAN /\ TRUE \in BOOLEAN
    BY <1>6 DEF Messages
  <2>2. /\ w \in Views /\ w.sec = v.sec /\ w.rows = v.rows /\ w.cursor = v.cursor
        /\ w.top = v.top
    BY <1>6, <2>1 DEF Good, Views
  <2> HIDE DEF w
  <2> QED BY <1>6, <2>2 DEF Shows, Undisturbed, Reading, Good, InRange, OnScreen, Named
<1> HIDE DEF w
<1>7. CASE v.sec = "search"
  <2>1. w = SearchUpdate(v, m)
    BY <1>7 DEF w, SectionUpdate
  <2> QED BY <1>1, <1>2, <1>3, <1>7, <2>1 DEF SearchUpdate, ShowResults, ShowMessage, renderMessage
<1>8. CASE v.sec = "attachments"
  <2>1. w = AttachmentsUpdate(v, m)
    BY <1>8 DEF w, SectionUpdate
  <2> QED BY <1>1, <1>4, <1>5, <1>8, <2>1 DEF AttachmentsUpdate, renderText
<1>9. CASE v.sec = "contacts"
  <2>1. w = FactsUpdate(v, m)
    BY <1>9 DEF w, SectionUpdate
  <2> QED BY <1>1, <1>4, <1>5, <1>9, <2>1 DEF FactsUpdate, renderFacts
<1>10. CASE v.sec \in ReportSections
  <2>1. w = Report(v, m) /\ v.sec # "search"
    BY <1>10 DEF w, SectionUpdate, MetadataUpdate, StatsUpdate, ReportSections
  <2> QED BY <1>1, <1>6, <2>1 DEF Report
<1>11. v.sec \in SectionIds
  BY ViewFields DEF Good
<1> QED BY <1>7, <1>8, <1>9, <1>10, <1>11
     DEF SectionIds, SearchSections, IndexSections, w

-----------------------------------------------------------------------------
(* Steps.                                                                  *)

\* What every step has to show: besides the invariant, that only a key or a
\* closing section ends the reading of a message.
Untorn == Reading(view) /\ messages' # messages => Reading(view') \/ view' = Closed
Safely == TuiInv' /\ Undisturbed(view, view') /\ Untorn

LEMMA FlightKept ==
  ASSUME FlightInv
  PROVE  /\ UNCHANGED flightVars => FlightInv'
         /\ \A c \in Commands : Issue(c) => FlightInv' /\ messages' = messages
         /\ \A m \in Messages : Told(m) /\ Post(m) => FlightInv'
<1>1. UNCHANGED flightVars => FlightInv'
  BY DEF FlightInv, flightVars
<1>2. ASSUME NEW c \in Commands, Issue(c)
      PROVE  FlightInv' /\ messages' = messages
  <2>1. IsABag(commands') /\ BagToSet(commands') = BagToSet(commands) \cup {c}
    BY <1>2, BagStep DEF FlightInv, Issue
  <2> QED BY <1>2, <2>1 DEF FlightInv, Issue
<1>3. ASSUME NEW m \in Messages, Told(m), Post(m)
      PROVE  FlightInv'
  <2>1. IsABag(messages') /\ BagToSet(messages') = BagToSet(messages) \cup {m}
    BY <1>3, BagStep DEF FlightInv, Post
  <2> QED BY <1>3, <2>1 DEF FlightInv, Post
<1> QED BY <1>1, <1>2, <1>3

\* The view under a section's keys.
LEMMA KeysView ==
  ASSUME ScreenInv, NEW sections \in SUBSET SectionIds, NEW md, SectionKeys(sections, md)
  PROVE  /\ Good(view, size) /\ view # Closed /\ size \in Nat /\ showHelp = FALSE
         /\ view.sec \in sections /\ view.mode = md
BY MenuIsClosed DEF ScreenInv, SectionKeys

\* A key that changes the open section's view.
LEMMA ShowSafe ==
  ASSUME TuiInv, NEW w, Show(w), Good(w, size), showHelp = FALSE, Undisturbed(view, w)
  PROVE  Safely
<1>1. /\ view' = w /\ UNCHANGED <<size, showHelp, summary, commands, messages, quit>>
  BY DEF Show, flightVars
<1>2. ScreenInv'
  BY <1>1 DEF TuiInv, ScreenInv, Good, InRange, OnScreen, Named
<1>3. FlightInv'
  BY <1>1, FlightKept DEF TuiInv, flightVars
<1> QED BY <1>1, <1>2, <1>3 DEF TuiInv, Safely, Untorn

\* A step that leaves the screen as it is.
LEMMA ScreenKept ==
  ASSUME TuiInv, UNCHANGED <<screenVars, quit>>, FlightInv'
  PROVE  Safely
<1>1. UNCHANGED <<size, view, showHelp, summary, quit>>
  BY DEF screenVars
<1>2. ScreenInv'
  BY <1>1 DEF TuiInv, ScreenInv
<1>3. Undisturbed(view, view') /\ Untorn
  BY <1>1 DEF Undisturbed, Untorn
<1> QED BY <1>2, <1>3 DEF TuiInv, Safely

\* The program ends.
LEMMA QuitSafe == TuiInv /\ Quit => Safely
<1> SUFFICES ASSUME TuiInv, Quit
             PROVE  Safely
  OBVIOUS
<1>1. ScreenInv'
  BY MenuIsClosed DEF Quit, TuiInv, ScreenInv
<1>2. FlightInv'
  BY EmptyBagIs DEF Quit, FlightInv
<1>3. Undisturbed(view, view') /\ Untorn
  BY MenuIsClosed DEF Quit, Undisturbed, Untorn, Reading
<1> QED BY <1>1, <1>2, <1>3 DEF TuiInv, Safely

\* The overlay comes and goes, but not over a prompt.
LEMMA HelpSafe == TuiInv /\ (ToggleHelp \/ CloseHelp) => Safely
<1> SUFFICES ASSUME TuiInv, ToggleHelp \/ CloseHelp
             PROVE  Safely
  OBVIOUS
<1>1. UNCHANGED <<size, view, summary, flightVars, quit>>
  BY DEF ToggleHelp, CloseHelp
<1>2. showHelp' \in BOOLEAN /\ ~(showHelp' /\ view.sec = "search" /\ view.mode = "prompt")
  <2>1. CASE ToggleHelp
    <3>1. view = Closed \/ ~(view.sec = "search" /\ view.mode = "prompt")
      BY <2>1 DEF ToggleHelp, sectionCapturesText
    <3>2. showHelp' \in BOOLEAN
      BY <2>1, Zenon DEF ToggleHelp, TuiInv, ScreenInv
    <3> QED BY <3>1, <3>2, MenuIsClosed
  <2>2. CASE CloseHelp
    <3>1. showHelp' = FALSE
      BY <2>2 DEF CloseHelp
    <3> QED BY <3>1
  <2> QED BY <2>1, <2>2
<1>3. ScreenInv'
  BY <1>1, <1>2 DEF TuiInv, ScreenInv
<1>4. FlightInv'
  BY <1>1, FlightKept DEF TuiInv
<1>5. Undisturbed(view, view') /\ Untorn
  BY <1>1 DEF Undisturbed, Untorn
<1> QED BY <1>3, <1>4, <1>5 DEF TuiInv, Safely

\* A section opens on an empty list, and reads its own.
LEMMA OpenSafe ==
  ASSUME TuiInv, MenuKeys, NEW sec \in SectionIds, openSection(sec)
  PROVE  Safely
<1> DEFINE v == [sec |-> sec, mode |-> IF sec = "search" THEN "prompt" ELSE "list",
                 typed |-> "", loaded |-> FALSE, asked |-> "", rows |-> <<>>,
                 err |-> FALSE, cursor |-> 0, top |-> 0, page |-> NoPage]
           w == clampWindow(v, size)
<1>1. size \in Nat /\ ~showHelp /\ view = Closed
  BY DEF TuiInv, ScreenInv, MenuKeys
<1>2. v \in Views /\ v.rows = <<>> /\ v.cursor = 0 /\ v.mode # "pager" /\ v.sec = sec
  <2>1. <<>> \in Seq(RowIds) /\ FALSE \in BOOLEAN /\ NoPage \in Pages
    BY DEF Pages
  <2>2. v.mode \in {"prompt", "list", "pager"}
    OBVIOUS
  <2> QED BY <2>1, <2>2 DEF Views
<1> HIDE DEF v
<1>3. /\ w \in Views /\ w.rows = <<>> /\ w.cursor = 0 /\ w.mode # "pager" /\ w.sec = sec
      /\ OnScreen(w, size)
  <2>1. /\ w \in Views /\ w.sec = v.sec /\ w.mode = v.mode /\ w.rows = v.rows
        /\ w.cursor = v.cursor /\ OnScreen(w, size)
    BY <1>1, <1>2, ClampGood
  <2> QED BY <1>2, <2>1
<1>4. view' = w /\ UNCHANGED <<size, showHelp, summary, quit>>
  BY DEF openSection, newSectionView, v
<1> HIDE DEF w
<1>5. Good(w, size)
  BY <1>3 DEF Good, InRange, Named
<1>6. FlightInv'
  <2>1. CASE sec = "search"
    BY <2>1, FlightKept DEF openSection, TuiInv
  <2>2. CASE sec # "search"
    <3>1. [do |-> "list", of |-> sec] \in Commands
      BY <2>2 DEF Commands, SectionIds, SearchSections, Lists
    <3> QED BY <2>2, <3>1, FlightKept DEF openSection, TuiInv
  <2> QED BY <2>1, <2>2
<1>7. ScreenInv'
  BY <1>1, <1>4, <1>5 DEF TuiInv, ScreenInv, Good, InRange, OnScreen, Named
<1>8. Undisturbed(view, view') /\ Untorn
  BY <1>1, <1>3, <1>4, MenuIsClosed DEF Undisturbed, Untorn, Reading
<1> QED BY <1>6, <1>7, <1>8 DEF TuiInv, Safely

\* The prompt.
LEMMA PromptSafe ==
  ASSUME TuiInv, Type \/ Submit \/ PromptBack
  PROVE  Safely
<1>1. SectionKeys(SearchSections, "prompt") /\ SearchSections \in SUBSET SectionIds
  BY DEF Type, Submit, PromptBack, SectionIds
<1>2. /\ Good(view, size) /\ view # Closed /\ size \in Nat /\ showHelp = FALSE
      /\ view.sec = "search" /\ view.mode = "prompt"
  BY <1>1, MenuIsClosed, KeysView DEF TuiInv
<1>3. ASSUME NEW q \in Queries, Show([view EXCEPT !.typed = q])
      PROVE  Safely
  <2> DEFINE w == [view EXCEPT !.typed = q]
  <2>1. Good(w, size) /\ w.mode = "prompt"
    BY <1>2, TypedGood
  <2> HIDE DEF w
  <2>2. Undisturbed(view, w)
    BY <1>2, <2>1 DEF Undisturbed, Reading
  <2>3. Show(w)
    BY <1>3 DEF w
  <2> QED BY <1>2, <2>1, <2>2, <2>3, ShowSafe
<1>4. CASE Submit
  <2>1. view.typed \in Queries
    BY <1>2, <1>4, ViewFields DEF Submit, Good
  <2>2. [do |-> "list", of |-> view.typed] \in Commands
    BY <2>1 DEF Commands, Lists
  <2>3. FlightInv'
    BY <1>4, <2>2, FlightKept DEF Submit, Emit, TuiInv
  <2> QED BY <1>4, <2>3, ScreenKept DEF Submit, Emit
<1>5. CASE Show([view EXCEPT !.mode = "list"])
  <2> DEFINE w == [view EXCEPT !.mode = "list"]
  <2>1. Good(w, size) /\ w.mode = "list"
    BY <1>2, ModeGood
  <2> HIDE DEF w
  <2>2. Undisturbed(view, w)
    BY <2>1 DEF Undisturbed, Reading
  <2>3. Show(w)
    BY <1>5 DEF w
  <2> QED BY <1>2, <2>1, <2>2, <2>3, ShowSafe
<1>6. CASE Emit(Post(exitSection))
  <2>1. exitSection \in Messages /\ Told(exitSection)
    BY DEF exitSection, Messages, Told
  <2>2. FlightInv'
    BY <1>6, <2>1, FlightKept DEF Emit, TuiInv
  <2> QED BY <1>6, <2>2, ScreenKept DEF Emit
<1> QED BY <1>3, <1>4, <1>5, <1>6 DEF Type, PromptBack

\* Keys of the list and of the pager.
LEMMA ListSafe ==
  ASSUME TuiInv, NEW sections \in SUBSET SectionIds,
         PagerBack(sections) \/ ListBack(sections) \/ ListMove(sections)
  PROVE  Safely
<1>1. \E md \in {"list", "pager"} : SectionKeys(sections, md)
  BY DEF PagerBack, ListBack, ListMove
<1>2. /\ Good(view, size) /\ view # Closed /\ size \in Nat /\ showHelp = FALSE
      /\ view.mode \in {"list", "pager"}
  BY <1>1, KeysView DEF TuiInv
<1>3. CASE PagerBack(sections)
  <2> DEFINE w == [view EXCEPT !.mode = "list"]
  <2>1. Good(w, size) /\ w.mode = "list"
    BY <1>2, ModeGood
  <2> HIDE DEF w
  <2>2. Undisturbed(view, w)
    BY <2>1 DEF Undisturbed, Reading
  <2>3. Show(w)
    BY <1>3 DEF PagerBack, w
  <2> QED BY <1>2, <2>1, <2>2, <2>3, ShowSafe
<1>4. CASE ListBack(sections)
  <2>1. exitSection \in Messages /\ Told(exitSection)
    BY DEF exitSection, Messages, Told
  <2>2. FlightInv'
    BY <1>4, <2>1, FlightKept DEF ListBack, Emit, TuiInv
  <2> QED BY <1>4, <2>2, ScreenKept DEF ListBack, Emit
<1>5. CASE ListMove(sections)
  <2>1. view.mode = "list"
    BY <1>5, KeysView DEF ListMove, TuiInv
  <2>2. ASSUME NEW w \in {MoveUp(view), MoveDown(view)}, Show(w)
        PROVE  Safely
    <3>1. Good(w, size) /\ w.mode = "list"
      BY <1>2, <2>1, <2>2, MoveGood
    <3>2. Undisturbed(view, w)
      BY <3>1 DEF Undisturbed, Reading
    <3> QED BY <1>2, <2>2, <3>1, <3>2, ShowSafe
  <2> QED BY <1>5, <2>2 DEF ListMove
<1> QED BY <1>3, <1>4, <1>5

\* Enter asks for the detail of the selected row; "/" goes back to the prompt.
LEMMA EnterSafe ==
  ASSUME TuiInv, NEW sections \in SUBSET (SearchSections \cup IndexSections), ListOpen(sections)
  PROVE  Safely
<1>1. sections \in SUBSET SectionIds
  BY DEF SectionIds
<1>2. Good(view, size) /\ view.sec \in SearchSections \cup IndexSections
  BY <1>1, KeysView DEF TuiInv, ListOpen
<1>3. Selected(view) \in RowIds
  BY <1>2, SelectedIs DEF ListOpen
<1>4. [do |-> "detail", sec |-> view.sec, id |-> Selected(view)] \in Commands
  BY <1>2, <1>3 DEF Commands
<1>5. FlightInv'
  BY <1>4, FlightKept DEF ListOpen, Emit, TuiInv
<1> QED BY <1>5, ScreenKept DEF ListOpen, Emit

LEMMA NewSearchSafe == TuiInv /\ NewSearch => Safely
<1> SUFFICES ASSUME TuiInv, NewSearch
             PROVE  Safely
  OBVIOUS
<1>1. Good(view, size) /\ showHelp = FALSE /\ view.mode = "list"
  BY MenuIsClosed, KeysView DEF NewSearch, TuiInv
<1> DEFINE u == [view EXCEPT !.mode = "prompt"]  w == [u EXCEPT !.typed = ""]
<1>2. Good(u, size) /\ u.mode = "prompt"
  BY <1>1, ModeGood
<1>3. Show(w)
  BY DEF NewSearch
<1> HIDE DEF u
<1>4. Good(w, size) /\ w.mode = "prompt"
  BY <1>2, TypedGood
<1> HIDE DEF w
<1>5. Undisturbed(view, w)
  BY <1>1, <1>4 DEF Undisturbed, Reading
<1> QED BY <1>1, <1>3, <1>4, <1>5, ShowSafe

\* An answer joins the messages as it was read.
LEMMA RunSafe ==
  ASSUME TuiInv, NEW c \in BagToSet(commands), RunCommand(c)
  PROVE  Safely
<1>1. PICK m \in Answers(c) : messages' = messages (+) SetToBag({m})
  BY DEF RunCommand
<1>2. c \in Commands
  BY DEF TuiInv, FlightInv
<1>3. m \in Messages /\ Told(m)
  BY <1>2, AnswersAre
<1>4. IsABag(commands') /\ BagToSet(commands') \subseteq BagToSet(commands)
  BY BagStep DEF RunCommand, TuiInv, FlightInv
<1>5. IsABag(messages') /\ BagToSet(messages') = BagToSet(messages) \cup {m}
  BY <1>1, BagStep DEF TuiInv, FlightInv
<1>6. FlightInv'
  BY <1>3, <1>4, <1>5 DEF TuiInv, FlightInv
<1> QED BY <1>6, ScreenKept DEF RunCommand

\* An answer goes to the section that is open when it arrives.
LEMMA DeliverSafe ==
  ASSUME TuiInv, NEW m \in BagToSet(messages), Deliver(m)
  PROVE  Safely
<1>1. m \in Messages /\ Told(m) /\ UNCHANGED <<size, showHelp, commands, quit>>
  BY DEF TuiInv, FlightInv, Deliver
<1>2. IsABag(messages') /\ BagToSet(messages') \subseteq BagToSet(messages)
  BY BagStep DEF Deliver, TuiInv, FlightInv
<1>3. FlightInv'
  BY <1>1, <1>2 DEF TuiInv, FlightInv
<1>4. summary' \in {"reading", "shown"}
  BY DEF Deliver, Update, ShowSummary, TuiInv, ScreenInv
<1>5. CASE view' = Closed
  <2>1. ScreenInv'
    BY <1>1, <1>4, <1>5, MenuIsClosed DEF TuiInv, ScreenInv
  <2> QED BY <1>3, <1>5, <2>1, MenuIsClosed DEF TuiInv, Safely, Undisturbed, Untorn, Reading
<1>6. CASE view' = view
  <2>1. ScreenInv'
    BY <1>1, <1>4, <1>6 DEF TuiInv, ScreenInv
  <2> QED BY <1>3, <1>6, <2>1 DEF TuiInv, Safely, Undisturbed, Untorn
<1>7. CASE view # Closed /\ view' = SectionUpdate(view, m)
  <2>1. Good(view, size) /\ size \in Nat
    BY <1>7 DEF TuiInv, ScreenInv
  <2>2. Shows(view, view')
    BY <1>1, <1>7, <2>1, SectionShows
  <2>3. Good(view', size')
    BY <1>1, <2>2 DEF Shows
  <2>4. ~(showHelp' /\ view'.sec = "search" /\ view'.mode = "prompt")
    BY <1>1, <2>2 DEF Shows, TuiInv, ScreenInv
  <2>5. ScreenInv'
    BY <1>1, <1>4, <2>3, <2>4 DEF TuiInv, ScreenInv, Good, InRange, OnScreen, Named
  <2> QED BY <1>3, <2>2, <2>5 DEF TuiInv, Safely, Shows, Untorn
<1> QED BY <1>5, <1>6, <1>7 DEF Deliver, Update

\* The window follows the terminal's size.
LEMMA ResizeSafe == TuiInv /\ Resize => Safely
<1> SUFFICES ASSUME TuiInv, Resize
             PROVE  Safely
  OBVIOUS
<1>1. size' \in Nat \ {0} /\ UNCHANGED <<showHelp, summary, flightVars, quit>>
  <2>1. size' \in {floorOne(h) : h \in Sizes}
    BY DEF Resize
  <2>2. PICK h \in Sizes : size' = floorOne(h)
    BY <2>1, Zenon
  <2>3. h \in Nat
    BY TuiConstants, Zenon
  <2>4. size' \in Nat \ {0}
    BY <2>2, <2>3 DEF floorOne
  <2>5. UNCHANGED <<showHelp, summary, flightVars, quit>>
    BY DEF Resize
  <2> QED BY <2>4, <2>5
<1>2. FlightInv'
  BY <1>1, FlightKept DEF TuiInv
<1>3. CASE view = Closed
  <2>1. view' = view
    BY <1>3 DEF Resize
  <2>2. ScreenInv'
    BY <1>1, <1>3, <2>1 DEF TuiInv, ScreenInv
  <2> QED BY <1>2, <2>1, <2>2 DEF TuiInv, Safely, Undisturbed, Untorn
<1>4. CASE view # Closed
  <2>1. Good(view, size) /\ view' = clampWindow(view, size')
    BY <1>4 DEF TuiInv, ScreenInv, Resize
  <2>2. /\ view' \in Views /\ view'.sec = view.sec /\ view'.mode = view.mode
        /\ view'.asked = view.asked /\ view'.rows = view.rows /\ view'.cursor = view.cursor
        /\ view'.page = view.page /\ OnScreen(view', size')
    BY <1>1, <2>1, ClampGood DEF Good
  <2>3. Good(view', size')
    BY <2>1, <2>2 DEF Good, InRange, Named
  <2>4. ScreenInv'
    BY <1>1, <2>2, <2>3 DEF TuiInv, ScreenInv, Good, InRange, OnScreen, Named
  <2> QED BY <1>1, <1>2, <2>2, <2>4 DEF TuiInv, Safely, Undisturbed, Untorn, Reading
<1> QED BY <1>3, <1>4

LEMMA InitTui == Init => TuiInv
<1> SUFFICES ASSUME Init
             PROVE  TuiInv
  OBVIOUS
<1>1. size \in Nat \ {0} /\ showHelp \in BOOLEAN /\ quit \in BOOLEAN
  <2>1. floorOne(0) = 1
    BY DEF floorOne
  <2>2. size = 1
    BY <2>1, Zenon DEF Init
  <2>3. showHelp \in BOOLEAN /\ quit \in BOOLEAN
    BY Zenon DEF Init
  <2> QED BY <2>2, <2>3
<1>2. IsABag(commands) /\ BagToSet(commands) \subseteq Commands
  BY DEF Init, IsABag, BagToSet, SetToBag, Commands
<1>3. ScreenInv
  BY <1>1, MenuIsClosed DEF Init, ScreenInv
<1> QED BY <1>2, <1>3, EmptyBagIs DEF Init, TuiInv, FlightInv

\* Whatever the key, the read, the answer or the size.
LEMMA NextTui == TuiInv /\ [Next]_vars => Safely
<1> SUFFICES ASSUME TuiInv, [Next]_vars
             PROVE  Safely
  OBVIOUS
<1>1. CASE Quit \/ MenuBack
  BY <1>1, QuitSafe DEF MenuBack
<1>2. CASE ToggleHelp \/ CloseHelp
  BY <1>2, HelpSafe
<1>3. CASE MenuOpen \/ MenuSearch
  BY <1>3, OpenSafe, MenuIsClosed DEF MenuOpen, MenuSearch
<1>4. /\ SearchSections \in SUBSET SectionIds /\ {"attachments"} \in SUBSET SectionIds
      /\ {"contacts"} \in SUBSET SectionIds /\ {"metadata"} \in SUBSET SectionIds
      /\ {"stats"} \in SUBSET SectionIds
      /\ SearchSections \in SUBSET (SearchSections \cup IndexSections)
      /\ {"attachments"} \in SUBSET (SearchSections \cup IndexSections)
      /\ {"contacts"} \in SUBSET (SearchSections \cup IndexSections)
  BY DEF SectionIds, SearchSections, IndexSections, ReportSections
<1>5. CASE SearchKeys
  BY <1>4, <1>5, PromptSafe, NewSearchSafe, ListSafe, EnterSafe DEF SearchKeys
<1>6. CASE AttachmentKeys \/ FactsKeys
  BY <1>4, <1>6, ListSafe, EnterSafe DEF AttachmentKeys, FactsKeys, IndexKeys
<1>7. CASE MetadataKeys \/ StatsKeys
  BY <1>4, <1>7, ListSafe DEF MetadataKeys, StatsKeys
<1>8. CASE Answering
  BY <1>8, RunSafe, DeliverSafe DEF Answering
<1>9. CASE Resize
  BY <1>9, ResizeSafe
<1>10. CASE UNCHANGED vars
  <2>1. FlightInv'
    BY <1>10, FlightKept DEF vars, TuiInv
  <2> QED BY <1>10, <2>1, ScreenKept DEF vars
<1> QED BY <1>1, <1>2, <1>3, <1>5, <1>6, <1>7, <1>8, <1>9, <1>10 DEF Next, Keys

LEMMA TuiAlways == Spec => []TuiInv
<1>1. TuiInv /\ [Next]_vars => TuiInv'
  BY NextTui DEF Safely
<1> QED BY InitTui, <1>1, PTL DEF Spec

-----------------------------------------------------------------------------
(* The properties.                                                         *)

\* Every variable keeps its type.
THEOREM TypeCorrect == Spec => []TypeOK
<1>1. TuiInv => TypeOK
  BY DEF TuiInv, ScreenInv, FlightInv, Good, TypeOK
<1> QED BY TuiAlways, <1>1, PTL

\* The cursor is on a row whenever there is one, whatever lists replaced the
\* one it moved in.
THEOREM AlwaysInRange == Spec => []SelectionInRange
<1>1. TuiInv => SelectionInRange
  BY DEF TuiInv, ScreenInv, Good, InRange, SelectionInRange
<1> QED BY TuiAlways, <1>1, PTL

\* The active row is among those on screen, after any mix of moves, lists and
\* resizes.
THEOREM AlwaysOnScreen == Spec => []CursorOnScreen
<1>1. TuiInv => CursorOnScreen
  BY DEF TuiInv, ScreenInv, Good, OnScreen, CursorOnScreen
<1> QED BY TuiAlways, <1>1, PTL

\* What the body shows of the search.
LEMMA PagingIs ==
  ASSUME NEW v, v = Closed \/ v \in Views
  PROVE  /\ v.sec \in SearchSections /\ SectionBody(v) = "pager" <=> Reading(v)
         /\ v.sec = "search" =>
              /\ SectionBody(v) = "prompt" <=> v.mode = "prompt"
              /\ SectionBody(v) = "list" <=> v.mode = "list" /\ v.rows # <<>>
<1>1. CASE v.sec # "search"
  BY <1>1, MenuIsClosed DEF Reading
<1>2. CASE v.sec = "search"
  <2>1. v.mode \in {"prompt", "list", "pager"}
    BY <1>2, MenuIsClosed, ViewFields
  <2>2. SectionBody(v) = SearchBody(v)
    BY <1>2 DEF SectionBody
  <2> QED BY <1>2, <2>1, <2>2, MenuIsClosed DEF SearchBody, Reading
<1> QED BY <1>1, <1>2

\* The search pager never shows one message's header over another's body, in
\* whatever order loads and searches are answered.
THEOREM OneMessage == Spec => []PagerIsOneMessage
<1>1. TuiInv => PagerIsOneMessage
  <2> SUFFICES ASSUME TuiInv, Paging
               PROVE  view.page.head = view.page.text
    BY DEF PagerIsOneMessage
  <2>1. view = Closed \/ Good(view, size)
    BY DEF TuiInv, ScreenInv
  <2>2. Reading(view)
    BY <2>1, PagingIs DEF Paging, Open, Good
  <2> QED BY <2>1, <2>2, MenuIsClosed DEF Reading, Good, Named
<1> QED BY TuiAlways, <1>1, PTL

\* The status line names the search the listed hits came from.
THEOREM TheirQuery == Spec => []HitsAreOfTheirQuery
<1>1. TuiInv => HitsAreOfTheirQuery
  BY MenuIsClosed DEF TuiInv, ScreenInv, Good, Named, RowOf, HitsAreOfTheirQuery, Open
<1> QED BY TuiAlways, <1>1, PTL

\* The help overlay is never up over a focused prompt, of whose query it would
\* swallow a character (handleKey, model.go 172-186).
THEOREM NoHelpOverPrompt == Spec => []HelpNeverOverPrompt
<1>1. TuiInv => HelpNeverOverPrompt
  <2> SUFFICES ASSUME TuiInv, Screen = "help", view.sec \in SearchSections,
                      SectionBody(view) = "prompt"
               PROVE  FALSE
    BY DEF HelpNeverOverPrompt, Open
  <2>1. (view = Closed \/ view \in Views) /\ view # Closed /\ view.sec = "search"
    BY MenuIsClosed DEF TuiInv, ScreenInv, Good
  <2>2. view.mode = "prompt"
    BY <2>1, PagingIs
  <2>3. showHelp
    <3>1. CASE ~showHelp
      <4>1. Screen = SectionBody(view)
        BY <2>1, <3>1 DEF Screen
      <4> QED BY <4>1
    <3> QED BY <3>1
  <2> QED BY <2>1, <2>2, <2>3 DEF TuiInv, ScreenInv
<1> QED BY TuiAlways, <1>1, PTL

\* A message someone reads stays until a key or a closing section takes it
\* away, and no answer opens a pager over anything but the results.
THEOREM NobodyDisturbed == Spec => ReaderIsNotDisturbed
<1> DEFINE Left ==
      /\ Paging /\ Paging' => view'.page = view.page
      /\ Paging /\ messages' # messages => Paging' \/ view' = Closed
      /\ ~Paging /\ Paging' => Open(SearchSections) /\ SectionBody(view) = "list"
<1>1. TuiInv /\ [Next]_vars => [Left]_vars
  <2> SUFFICES ASSUME TuiInv, [Next]_vars
               PROVE  Left
    OBVIOUS
  <2>1. Safely
    BY NextTui
  <2>2. /\ view = Closed \/ view \in Views
        /\ view' = Closed \/ view' \in Views
    BY <2>1 DEF Safely, TuiInv, ScreenInv, Good
  <2>3. Paging <=> Reading(view)
    BY <2>2, PagingIs DEF Paging, Open
  <2>4. Paging' <=> Reading(view')
    BY <2>2, PagingIs DEF Paging, Open
  <2>5. view.sec = "search" /\ view.mode = "list" /\ view.rows # <<>>
          => Open(SearchSections) /\ SectionBody(view) = "list"
    BY <2>2, PagingIs, MenuIsClosed DEF Open
  <2> QED BY <2>1, <2>3, <2>4, <2>5 DEF Safely, Untorn, Undisturbed
<1>2. ReaderIsNotDisturbed <=> [][Left]_vars
  BY DEF ReaderIsNotDisturbed
<1> HIDE DEF Left
<1> QED BY <1>1, <1>2, TuiAlways, PTL DEF Spec

=============================================================================
