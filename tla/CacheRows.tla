----------------------------- MODULE CacheRows -----------------------------
(***************************************************************************)
(* The tables of internal/store that hold a mailbox's mail and everything  *)
(* derived from it, written one SQL statement at a time: a message's row   *)
(* and its search index, links, attachments, embeddings, contacts, folder, *)
(* cursor and run history.  internal/sync/map.go turns a message into the  *)
(* statements that store it.                                               *)
(*                                                                         *)
(* SQLite admits one writer at a time, over all connections and processes: *)
(* a transaction works on a copy nobody else sees.  Between two of them    *)
(* any writer may come: a sync of another mailbox, an auth remove, a later *)
(* embed or facts pass.  A statement may fail and a process may die at any *)
(* point of its transaction.                                               *)
(***************************************************************************)
EXTENDS Integers, Sequences, FiniteSets, SequencesExt

CONSTANTS
    Boxes,         \* mailbox ids
    Msgs,          \* Proton message ids
    MaxVersion,    \* bound: versions of one message
    Mail,          \* what the versions of a mailbox's messages hold
    Canonical,     \* each spelling of an address to its canonical one
    Labels,        \* the mailbox's labels, by id
    MaxDerived     \* bound: derivations by the later passes

Versions == 1..MaxVersion
Folders == {Labels[l].name : l \in DOMAIN Labels} \cup {""}
Emails == DOMAIN Canonical
Urls == UNION {ToSet(Mail[k].urls) : k \in DOMAIN Mail}
Atts == UNION {ToSet(Mail[k].atts) : k \in DOMAIN Mail}
VersionsOf(b, m) == {v \in Versions : <<b, m, v>> \in DOMAIN Mail}
People == [email : Emails, name : STRING]

ASSUME CacheRowsConstants ==
    /\ MaxVersion \in Nat \ {0} /\ MaxDerived \in Nat
    /\ IsFiniteSet(Msgs)
    /\ "" \in Emails /\ Canonical[""] = ""
    /\ \A e \in Emails : Canonical[e] \in Emails /\ Canonical[Canonical[e]] = Canonical[e]
    /\ DOMAIN Mail \subseteq Boxes \X Msgs \X Versions
    /\ \A k \in DOMAIN Mail :
        Mail[k] \in [sender : People, recipients : Seq(People), urls : Seq(Urls),
                     atts : Seq(Atts), labels : Seq(STRING)]
    /\ \A l \in DOMAIN Labels : Labels[l].class \in {"system", "folder", "label"}

VARIABLES
    db,        \* the committed tables
    tx,        \* the open transaction: its copy and its statements, or NoTx
    derived    \* derivations so far

vars == <<db, tx, derived>>

NoRow == [v |-> 0, folder |-> ""]
NoTx == [todo |-> <<>>, db |-> <<>>]

\* The stable identity of a message, the key of everything derived from it.
MessageHash(b, m) == <<b, m>>
Ids == {MessageHash(b, m) : b \in Boxes, m \in Msgs}
IdsOf(d, b) == {i \in Ids : d.rows[i] # NoRow /\ d.box[i] = b}

\* The tables.  A contact's id is its place in names; box is a row's
\* mailbox_id column.
Tables ==
    [boxes : SUBSET Boxes,
     rows : [Ids -> {NoRow} \cup [v : Versions, folder : Folders]],
     box : [Ids -> Boxes \cup {""}],
     fts : SUBSET (Ids \X Versions),
     links : SUBSET (Ids \X Urls),
     atts : SUBSET (Ids \X Atts),
     texts : SUBSET (Ids \X Atts),
     vecs : SUBSET Ids,
     names : Seq(STRING),
     owner : SUBSET (Emails \X Nat),
     cursor : SUBSET Boxes,
     runs : SUBSET Boxes]

TypeOK ==
    /\ db \in Tables
    /\ tx # NoTx => tx.db \in Tables
    /\ derived \in 0..MaxDerived

-----------------------------------------------------------------------------
(* map.go: from a message to what is stored for it.                        *)

\* The first of a sequence's labels that are in a set of labels.
FirstLabel(labelIds, among) ==
    labelIds[CHOOSE j \in DOMAIN labelIds :
                labelIds[j] \in among /\ \A i \in 1..(j - 1) : labelIds[i] \notin among]

FolderLabels == {l \in DOMAIN Labels : Labels[l].class \in {"system", "folder"}}

AnyLabel(labelIds) ==
    IF ToSet(labelIds) \cap DOMAIN Labels = {} THEN ""
    ELSE Labels[FirstLabel(labelIds, DOMAIN Labels)].name

LabelId(labelIds) ==
    IF ToSet(labelIds) \cap FolderLabels = {} THEN ""
    ELSE FirstLabel(labelIds, FolderLabels)

\* The first label of a folder class names the folder.
resolve(labelIds) ==
    IF ToSet(labelIds) \cap FolderLabels = {} THEN ""
    ELSE Labels[FirstLabel(labelIds, FolderLabels)].name

\* Everyone the message names: its sender, then its recipients.  Blank addresses
\* are passed over here and once more in the store, where the model does it.
contactsOf(mail) == <<mail.sender>> \o mail.recipients

\* Each URL once.  In what order they are stored shows nowhere.
extractLinks(urls) == SetToSeq(ToSet(urls))

attachmentsOf(mail) == mail.atts

-----------------------------------------------------------------------------
(* Statements.  Each takes the tables and returns them changed.            *)

\* The triggers that keep messages_fts: the old entry goes, the new one comes.
messages_au_adds(d, id, v) == d.fts \cup {<<id, v>>}

messages_au(d, id, v) == {e \in d.fts : e[1] # id} \cup {<<id, v>>}

messages_ad(d, ids) == {e \in d.fts : e[1] \notin ids}

\* A row keeps its mailbox; only the mutable columns are overwritten.
upsertMessage(d, s) ==
    [d EXCEPT !.rows[s.id] = [v |-> s.v, folder |-> s.folder],
              !.box[s.id] = IF d.rows[s.id] = NoRow THEN s.box ELSE @,
              !.fts = messages_au(d, s.id, s.v)]

RawAddress(email) == email
normalizeAddress(email) == Canonical[email]

\* A known address keeps its contact, whose name is filled in only when it is
\* empty; a new one mints a contact; a blank one is passed over.
upsertContactIdentifier(d, s) ==
    LET addr == normalizeAddress(s.email)
        known == {o \in d.owner : o[1] = addr}
    IN  IF addr = "" THEN d
        ELSE IF known = {}
        THEN [d EXCEPT !.names = Append(@, s.name),
                       !.owner = @ \cup {<<addr, Len(d.names) + 1>>}]
        ELSE LET c == (CHOOSE o \in known : TRUE)[2]
             IN  [d EXCEPT !.names[c] = IF @ = "" THEN s.name ELSE @]

upsertLink(d, s) == [d EXCEPT !.links = @ \cup {<<s.id, s.url>>}]

Replaced(d, s) ==
    [d EXCEPT !.atts = @ \cup {<<s.id, s.att>>}, !.texts = @ \ {<<s.id, s.att>>}]

\* extracted_text is left alone.
upsertAttachment(d, s) == [d EXCEPT !.atts = @ \cup {<<s.id, s.att>>}]

WithoutLinks(d, ids) == [d EXCEPT !.links = {l \in @ : l[1] \notin ids}]
WithoutAtts(d, ids) ==
    [d EXCEPT !.atts = {a \in @ : a[1] \notin ids}, !.texts = {a \in @ : a[1] \notin ids}]
WithoutVecs(d, ids) == [d EXCEPT !.vecs = @ \ ids]
WithoutRows(d, ids) ==
    [d EXCEPT !.rows = [i \in Ids |-> IF i \in ids THEN NoRow ELSE @[i]],
              !.box = [i \in Ids |-> IF i \in ids THEN "" ELSE @[i]],
              !.fts = messages_ad(d, ids)]

upsertSyncState(d, b) == [d EXCEPT !.cursor = @ \cup {b}]
ResetSyncCursor(d, b) == [d EXCEPT !.cursor = @ \ {b}]
RecordSyncRun(d, b) == [d EXCEPT !.runs = @ \cup {b}]

\* foreign_keys(ON): a row needs its mailbox, and a mailbox goes last.
Accepts(d) ==
    /\ \A i \in Ids : d.rows[i] # NoRow => d.box[i] \in d.boxes
    /\ d.cursor \subseteq d.boxes /\ d.runs \subseteq d.boxes

Effect(d, s) ==
    CASE s.do = "row" -> upsertMessage(d, s)
      [] s.do = "contact" -> upsertContactIdentifier(d, s)
      [] s.do = "link" -> upsertLink(d, s)
      [] s.do = "att" -> upsertAttachment(d, s)
      [] s.do = "unlink" -> WithoutLinks(d, {s.id})
      [] s.do = "unatt" -> WithoutAtts(d, {s.id})
      [] s.do = "unvec" -> WithoutVecs(d, {s.id})
      [] s.do = "unrow" -> WithoutRows(d, {s.id})
      [] s.do = "cursor" -> upsertSyncState(d, s.box)
      [] s.do = "uncursor" -> ResetSyncCursor(d, s.box)
      [] s.do = "run" -> RecordSyncRun(d, s.box)
      [] s.do = "unlinkbox" -> WithoutLinks(d, IdsOf(d, s.box))
      [] s.do = "unattbox" -> WithoutAtts(d, IdsOf(d, s.box))
      [] s.do = "unvecbox" -> WithoutVecs(d, IdsOf(d, s.box))
      [] s.do = "unrowbox" -> WithoutRows(d, IdsOf(d, s.box))
      [] s.do = "unrunbox" -> [d EXCEPT !.runs = @ \ {s.box}]
      [] s.do = "unbox" -> [d EXCEPT !.boxes = @ \ {s.box}]

-----------------------------------------------------------------------------
(* What each writer does in one transaction.                               *)

\* mapMessage and applyMessage: the row, the correspondents, the links and
\* the attachments, in that order.
applyMessage(b, m, v) ==
    LET id == MessageHash(b, m)
        mail == Mail[<<b, m, v>>]
        people == contactsOf(mail)
        urls == extractLinks(mail.urls)
        atts == attachmentsOf(mail)
    IN  <<[do |-> "row", id |-> id, box |-> b, v |-> v, folder |-> resolve(mail.labels)]>>
        \o [i \in DOMAIN people |->
              [do |-> "contact", email |-> people[i].email, name |-> people[i].name]]
        \o [i \in DOMAIN urls |-> [do |-> "link", id |-> id, url |-> urls[i]]]
        \o [i \in DOMAIN atts |-> [do |-> "att", id |-> id, att |-> atts[i]]]

deleteMessageByProtonID(b, m) ==
    LET id == MessageHash(b, m)
    IN  <<[do |-> "unlink", id |-> id], [do |-> "unatt", id |-> id],
          [do |-> "unvec", id |-> id], [do |-> "unrow", id |-> id]>>

VectorsLeft(b) ==
    <<[do |-> "unlinkbox", box |-> b], [do |-> "unattbox", box |-> b],
      [do |-> "unrowbox", box |-> b], [do |-> "unrunbox", box |-> b],
      [do |-> "uncursor", box |-> b], [do |-> "unbox", box |-> b]>>

DeleteMailbox(b) ==
    <<[do |-> "unlinkbox", box |-> b], [do |-> "unattbox", box |-> b],
      [do |-> "unvecbox", box |-> b], [do |-> "unrowbox", box |-> b],
      [do |-> "unrunbox", box |-> b], [do |-> "uncursor", box |-> b],
      [do |-> "unbox", box |-> b]>>

\* One batch of the tail: writes, then deletes, then the cursor.
Batch(b, writes, gone) ==
    FlattenSeq([i \in DOMAIN writes |-> applyMessage(b, writes[i].msg, writes[i].v)])
    \o FlattenSeq([i \in DOMAIN gone |-> deleteMessageByProtonID(b, gone[i])])
    \o <<[do |-> "cursor", box |-> b]>>

Begin(todo) ==
    /\ tx = NoTx
    /\ tx' = [todo |-> todo, db |-> db]
    /\ UNCHANGED <<db, derived>>

\* The sync's writes: a backfilled message, a batch, the first cursor, a reset
\* and the run's record.  It read the mailbox earlier, which may be gone.
SyncWrites(b) ==
    \/ \E m \in Msgs : \E v \in VersionsOf(b, m) : Begin(applyMessage(b, m, v))
    \/ \E m \in Msgs : \E v \in VersionsOf(b, m), gone \in SUBSET (Msgs \ {m}) :
        Begin(Batch(b, <<[msg |-> m, v |-> v]>>, SetToSeq(gone)))
    \/ \E m \in Msgs : Begin(Batch(b, <<>>, <<m>>))
    \/ Begin(<<[do |-> "cursor", box |-> b]>>)
    \/ Begin(<<[do |-> "uncursor", box |-> b]>>)
    \/ Begin(<<[do |-> "run", box |-> b]>>)

RemoveMailbox(b) == b \in db.boxes /\ Begin(DeleteMailbox(b))

\* The passes that embed messages and extract text come after a sync.
Derive ==
    /\ tx = NoTx /\ derived < MaxDerived
    /\ \/ \E i \in Ids : db.rows[i] # NoRow /\ db' = [db EXCEPT !.vecs = @ \cup {i}]
       \/ \E a \in db.atts : db' = [db EXCEPT !.texts = @ \cup {a}]
    /\ derived' = derived + 1
    /\ UNCHANGED tx

\* One statement runs, if the database takes it.
Exec ==
    /\ tx # NoTx /\ tx.todo # <<>>
    /\ LET d == Effect(tx.db, Head(tx.todo))
       IN  /\ Accepts(d)
           /\ tx' = [todo |-> Tail(tx.todo), db |-> d]
    /\ UNCHANGED <<db, derived>>

\* WithTx: everything succeeded.
Commit ==
    /\ tx # NoTx /\ tx.todo = <<>>
    /\ db' = tx.db /\ tx' = NoTx
    /\ UNCHANGED derived

CommitsAnyway == db' = tx.db /\ tx' = NoTx /\ UNCHANGED derived

\* WithTx: a statement or the commit failed, the function panicked, or the
\* process died.
Rollback == tx' = NoTx /\ UNCHANGED <<db, derived>>

Fail == tx # NoTx /\ Rollback

EmptyCache ==
    [boxes |-> Boxes, rows |-> [i \in Ids |-> NoRow], box |-> [i \in Ids |-> ""],
     fts |-> {}, links |-> {}, atts |-> {}, texts |-> {}, vecs |-> {},
     names |-> <<>>, owner |-> {}, cursor |-> {}, runs |-> {}]

Init == db = EmptyCache /\ tx = NoTx /\ derived = 0

Next ==
    \/ \E b \in Boxes : SyncWrites(b) \/ RemoveMailbox(b)
    \/ Derive \/ Exec \/ Commit \/ Fail

Spec == Init /\ [][Next]_vars

-----------------------------------------------------------------------------
(* Properties of the committed tables.                                     *)

Cached == {i \in Ids : db.rows[i] # NoRow}
MailOf(i) == Mail[<<i[1], i[2], db.rows[i].v>>]

\* Nothing outlives what it hangs off: no link, attachment or embedding of a
\* message that is gone, no row of a mailbox that is gone, whichever writer
\* removed it and whatever failed.
NothingOrphaned ==
    /\ {l[1] : l \in db.links} \subseteq Cached
    /\ {a[1] : a \in db.atts} \subseteq Cached /\ db.texts \subseteq db.atts
    /\ db.vecs \subseteq Cached
    /\ {db.box[i] : i \in Cached} \cup db.cursor \cup db.runs \subseteq db.boxes

\* Searching finds exactly the bodies that are cached, each once.
IndexIsTheCache == db.fts = {<<i, db.rows[i].v>> : i \in Cached}

\* A cached message has all that its body names: no reader sees one whose
\* links, attachments or correspondents are still to come.
RowsAreWhole ==
    \A i \in Cached :
        /\ \A j \in DOMAIN MailOf(i).urls : <<i, MailOf(i).urls[j]>> \in db.links
        /\ \A j \in DOMAIN MailOf(i).atts : <<i, MailOf(i).atts[j]>> \in db.atts
        /\ LET people == contactsOf(MailOf(i))
           IN  \A j \in DOMAIN people : Canonical[people[j].email] # "" =>
                \E o \in db.owner : Canonical[o[1]] = Canonical[people[j].email]

\* However an address is spelt, and whichever mailboxes saw it, it has one
\* contact, and every contact has one address.
OneContactEach ==
    /\ \A o, p \in db.owner : Canonical[o[1]] = Canonical[p[1]] => o = p
    /\ \A c \in 1..Len(db.names) : \E o \in db.owner : o[2] = c
    /\ \A o, p \in db.owner : o[2] = p[2] => o = p

\* A message's folder is the name of one of its own folders.
FolderIsItsOwn ==
    \A i \in Cached : db.rows[i].folder # "" =>
        \E j \in DOMAIN MailOf(i).labels :
            LET l == MailOf(i).labels[j]
            IN  /\ l \in DOMAIN Labels /\ Labels[l].name = db.rows[i].folder
                /\ Labels[l].class # "label"

\* The message stays, whatever version of it.
Kept(i) == db.rows[i] # NoRow /\ db'.rows[i] # NoRow

\* What was derived from a message stays as long as the message does, through
\* any number of re-syncs; a contact and its name stay for good.
DerivedSurvives ==
    [][/\ \A i \in db.vecs : Kept(i) => i \in db'.vecs
       /\ \A a \in db.texts : Kept(a[1]) => a \in db'.texts
       /\ db.owner \subseteq db'.owner
       /\ \A c \in 1..Len(db.names) : db.names[c] # "" => db'.names[c] = db.names[c]]_vars

=============================================================================
