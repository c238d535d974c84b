------------------------------ MODULE Backfill ------------------------------
(***************************************************************************)
(* collectBackfillIDs in internal/proton/backfill.go: the first sync lists *)
(* the mailbox page by page, by page number, while other clients of the    *)
(* account add and delete messages, so a page may start elsewhere than     *)
(* where the one before it ended.  A message that only changes its place,  *)
(* an edited draft, is left out: its event is ahead of the start cursor.   *)
(*                                                                         *)
(* MailboxSync takes the enumeration as one look at the mailbox; this      *)
(* module says how far the walk is from that.                              *)
(***************************************************************************)
EXTENDS Integers, Sequences, FiniteSets, SequencesExt

CONSTANTS
    Msgs,            \* message ids, as numbers: ties are broken by id
    Time,            \* each message's timestamp
    Since,           \* start of the window
    PageSize,        \* backfillPageSize
    Initial,         \* the mailbox when the start cursor was taken
    MaxAttempts      \* maxAttempts of Engine.retry

ASSUME BackfillConstants ==
    /\ Msgs \subseteq Nat /\ Time \in [Msgs -> Nat] /\ Since \in Nat
    /\ PageSize \in Nat \ {0} /\ MaxAttempts \in Nat \ {0}
    /\ Initial \in Seq(Msgs) /\ IsInjective(Initial)

VARIABLES
    list,      \* the mailbox's messages in Proton's order
    known,     \* messages the mailbox has ever had
    page,      \* pages read in this attempt
    kept,      \* ids kept so far; the answer once the walk is done
    attempt,
    walk,      \* "reading", "done" or "failed"
    slips,     \* deletions behind the walk in this attempt
    pushes     \* arrivals behind the walk in this attempt

walkVars == <<page, kept, attempt, walk>>
vars == <<list, known, walkVars, slips, pushes>>

InWindow(m) == Time[m] >= Since

TypeOK ==
    /\ list \in Seq(Msgs) /\ known \subseteq Msgs
    /\ page \in Nat /\ kept \in Seq({m \in Msgs : InWindow(m)})
    /\ attempt \in 1..MaxAttempts /\ walk \in {"reading", "done", "failed"}
    /\ slips \in Nat /\ pushes \in Nat

Smaller(a, b) == IF a < b THEN a ELSE b

\* A page is whatever stands at its places now.
GetMessageMetadataPage(p) ==
    SubSeq(list, p * PageSize + 1, Smaller((p + 1) * PageSize, Len(list)))

\* The elements of a finite set in the order a relation puts them.
InOrder(S, before) ==
    [k \in 1..Cardinality(S) |->
        CHOOSE i \in S : Cardinality({j \in S : <<j, i>> \in before}) = k - 1]

AtPlaces(s, places) == [k \in DOMAIN places |-> s[places[k]]]

Unfiltered(metas) == metas

\* Those of the window, in the page's order.
Earlier(s) == {e \in (DOMAIN s) \X (DOMAIN s) : e[1] < e[2]}
Retained(metas) ==
    AtPlaces(metas, InOrder({i \in DOMAIN metas : InWindow(metas[i])}, Earlier(metas)))

\* Oldest first, equal times by id; the sort is stable.
Older(s) ==
    {e \in (DOMAIN s) \X (DOMAIN s) :
        LET a == s[e[1]]
            b == s[e[2]]
        IN  \/ Time[a] < Time[b]
            \/ Time[a] = Time[b] /\ a < b
            \/ a = b /\ e[1] < e[2]}
Sorted(ids) == AtPlaces(ids, InOrder(DOMAIN ids, Older(ids)))

FullPageEnds(metas) == Len(metas) <= PageSize

\* A short or empty page is the last one.
LastPage(metas) == Len(metas) < PageSize

ReadPage ==
    /\ walk = "reading"
    /\ LET metas == GetMessageMetadataPage(page)
           all == kept \o Retained(metas)
       IN  IF LastPage(metas)
           THEN kept' = Sorted(all) /\ walk' = "done"
           ELSE kept' = all /\ UNCHANGED walk
    /\ page' = page + 1
    /\ UNCHANGED <<list, known, attempt, slips, pushes>>

KeepsWhatItRead == page' = 0 /\ UNCHANGED kept

\* Nothing of a failed attempt is kept.
StartOver == page' = 0 /\ kept' = <<>>

\* A transient failure of a page is retried from the first page.
Retry ==
    /\ walk = "reading" /\ attempt < MaxAttempts
    /\ StartOver
    /\ attempt' = attempt + 1
    /\ slips' = 0 /\ pushes' = 0
    /\ UNCHANGED <<list, known, walk>>

\* Attempts are used up, the failure is terminal, or the run is cancelled.
Fail ==
    /\ walk = "reading"
    /\ walk' = "failed" /\ kept' = <<>>
    /\ UNCHANGED <<list, known, page, attempt, slips, pushes>>

Behind(i) == i <= page * PageSize

Arrive ==
    /\ walk = "reading"
    /\ \E m \in Msgs \ known, i \in 1..(Len(list) + 1) :
        /\ list' = InsertAt(list, i, m)
        /\ known' = known \cup {m}
        /\ pushes' = IF Behind(i) THEN pushes + 1 ELSE pushes
    /\ UNCHANGED <<walkVars, slips>>

Delete ==
    /\ walk = "reading"
    /\ \E i \in 1..Len(list) :
        /\ list' = RemoveAt(list, i)
        /\ slips' = IF Behind(i) THEN slips + 1 ELSE slips
    /\ UNCHANGED <<known, walkVars, pushes>>

Init ==
    /\ list = Initial /\ known = ToSet(Initial)
    /\ page = 0 /\ kept = <<>> /\ attempt = 1 /\ walk = "reading"
    /\ slips = 0 /\ pushes = 0

Next == ReadPage \/ Retry \/ Fail \/ Arrive \/ Delete

Spec == Init /\ [][Next]_vars

-----------------------------------------------------------------------------
\* Messages the backfill owes and did not name.  Those that arrived after the
\* start cursor are the tail's.
Missed == {m \in ToSet(list) \cap ToSet(Initial) : InWindow(m)} \ ToSet(kept)

\* The walk misses a message only where a deletion moved it onto a page read
\* before, one at most for each such deletion: a mailbox nobody deletes from
\* is enumerated whole, whatever arrives meanwhile.
EachDeletionHidesAtMostOne == walk = "done" => Cardinality(Missed) <= slips

\* "The system SHALL backfill historical messages over the configured window"
\* (openspec/specs/sync-cache/spec.md 71-74): what was there when the start
\* cursor was taken, and still is, is named.
WindowIsNamed == walk = "done" => Missed = {}

\* An id comes twice only where an arrival moved it onto a page still to come,
\* one at most for each such arrival, and the answer is oldest first, so that
\* an interrupted backfill has imported the oldest messages.
NamedOnceInOrder ==
    walk = "done" =>
        /\ Len(kept) - Cardinality(ToSet(kept)) <= pushes
        /\ \A i \in 1..(Len(kept) - 1) : Time[kept[i]] <= Time[kept[i + 1]]

=============================================================================
