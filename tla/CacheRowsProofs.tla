--------------------------- MODULE CacheRowsProofs ---------------------------
(* Theorems about CacheRows: what a reader of the committed tables finds,   *)
(* for all sets of mailboxes and messages and whatever their versions hold. *)
EXTENDS CacheRows, FiniteSetTheorems, SequenceTheorems, TLAPS

-----------------------------------------------------------------------------
(* Sequences.                                                              *)

\* A finite set in some order: a sequence of it, with every element.
LEMMA SetToSeqIs ==
  ASSUME NEW T, IsFiniteSet(T)
  PROVE  SetToSeq(T) \in Seq(T) /\ ToSet(SetToSeq(T)) = T
<1>1. \E f \in [1..Cardinality(T) -> T] : IsInjective(f)
  BY FS_CardinalityType DEF IsInjective, ExistsBijection, Bijection, Injection
<1> DEFINE f == SetToSeq(T)
<1>2. f \in [1..Cardinality(T) -> T] /\ IsInjective(f)
  BY <1>1, Zenon DEF SetToSeq
<1> HIDE DEF f
<1>3. f \in Injection(1..Cardinality(T), T)
  BY <1>2 DEF IsInjective, Injection
<1>4. Cardinality(1..Cardinality(T)) = Cardinality(T) /\ Cardinality(T) \in Nat
  BY FS_CardinalityType, FS_Interval
<1>5. f \in Surjection(1..Cardinality(T), T)
  BY <1>3, <1>4, FS_Injection, Zenon
<1>6. f \in Seq(T) /\ DOMAIN f = 1..Cardinality(T)
  BY <1>2, <1>4
<1>7. T = {f[i] : i \in DOMAIN f}
  BY <1>2, <1>5, <1>6 DEF Surjection
<1> QED BY <1>6, <1>7 DEF f, ToSet

\* A nonempty set of naturals has a least element.
LEMMA LeastOf ==
  ASSUME NEW S \in SUBSET Nat, S # {}
  PROVE  \E n \in S : \A m \in S : n <= m
<1> DEFINE R == {p \in Nat \X Nat : p[1] < p[2]}
<1>1. IsWellFoundedOn(R, Nat)
  BY NatLessThanWellFounded, Zenon DEF OpToRel
<1>2. PICK n \in S : \A m \in S : <<m, n>> \notin R
  <2> HIDE DEF R
  <2> QED BY <1>1, WFMin, Zenon
<1>3. ASSUME NEW m \in S PROVE n <= m
  <2>1. m \in Nat /\ n \in Nat
    OBVIOUS
  <2>2. m < n => <<m, n>> \in R
    BY <2>1
  <2> HIDE DEF R
  <2> QED BY <1>2, <2>1, <2>2
<1> QED BY <1>3

\* Each element of a flattened sequence lies in a block that is one of the
\* sequences flattened.
BlockAt(s, F, k) ==
    \E o \in Nat : /\ k \in (o + 1)..(o + Len(s)) /\ o + Len(s) <= Len(F)
                   /\ \A j \in 1..Len(s) : F[o + j] = s[j]

LEMMA BlocksOfConcat ==
  ASSUME NEW T, NEW s \in Seq(T), NEW F \in Seq(T), NEW G \in Seq(T), NEW k \in 1..Len(F),
         BlockAt(s, F, k)
  PROVE  BlockAt(s, F \o G, k)
<1>1. PICK o \in Nat : /\ k \in (o + 1)..(o + Len(s)) /\ o + Len(s) <= Len(F)
                       /\ \A j \in 1..Len(s) : F[o + j] = s[j]
  BY DEF BlockAt
<1>2. /\ Len(F \o G) = Len(F) + Len(G) /\ Len(F) \in Nat /\ Len(G) \in Nat /\ Len(s) \in Nat
      /\ \A i \in 1..Len(F) : (F \o G)[i] = F[i]
  BY ConcatProperties
<1>3. \A j \in 1..Len(s) : (F \o G)[o + j] = s[j]
  BY <1>1, <1>2
<1>4. o + Len(s) <= Len(F \o G)
  BY <1>1, <1>2
<1> DEFINE H == F \o G
<1> HIDE DEF H
<1>5. /\ k \in (o + 1)..(o + Len(s)) /\ o + Len(s) <= Len(H)
      /\ \A j \in 1..Len(s) : H[o + j] = s[j]
  BY <1>1, <1>3, <1>4 DEF H
<1>6. BlockAt(s, H, k)
  BY <1>5, Zenon DEF BlockAt
<1> QED BY <1>6 DEF H

LEMMA LastBlock ==
  ASSUME NEW T, NEW F \in Seq(T), NEW G \in Seq(T), NEW k \in 1..(Len(F) + Len(G)), k > Len(F)
  PROVE  BlockAt(G, F \o G, k)
<1>1. Len(F) \in Nat /\ Len(F \o G) = Len(F) + Len(G)
      /\ \A j \in 1..Len(G) : (F \o G)[Len(F) + j] = G[j]
  BY ConcatProperties
<1> QED BY <1>1 DEF BlockAt

LEMMA FlattenBlocks ==
  ASSUME NEW T, NEW ss \in Seq(Seq(T))
  PROVE  /\ FlattenSeq(ss) \in Seq(T)
         /\ \A k \in 1..Len(FlattenSeq(ss)) : \E i \in 1..Len(ss) : BlockAt(ss[i], FlattenSeq(ss), k)
<1> DEFINE N == Len(ss)
           Flat(f, n) ==
             f = [i \in 1..n |-> IF i = 1 THEN ss[i] ELSE f[i - 1] \o ss[i]]
<1>0. N \in Nat /\ \A i \in 1..N : ss[i] \in Seq(T)
  OBVIOUS
<1>1. CASE ss = <<>>
  <2>1. FlattenSeq(ss) = <<>>
    BY <1>1 DEF FlattenSeq
  <2> QED BY <2>1
<1>2. CASE ss # <<>>
  <2>1. \A n \in 1..N : \E f : Flat(f, n)
    <3> DEFINE Bad == {n \in 1..N : ~\E f : Flat(f, n)}
    <3> SUFFICES ASSUME Bad # {} PROVE FALSE
      OBVIOUS
    <3>1. PICK n \in Bad : \A m \in Bad : n <= m
      <4>1. Bad \in SUBSET Nat
        <5> HIDE DEF Flat
        <5> QED BY <1>0
      <4> HIDE DEF Bad
      <4> QED BY <4>1, LeastOf, Zenon
    <3>2. n \in 1..N /\ ~\E f : Flat(f, n)
      BY <3>1
    <3>3. CASE n = 1
      <4> DEFINE g == [i \in 1..1 |-> ss[i]]
      <4>1. Flat(g, 1)
        <5>1. \A i \in 1..1 : g[i] = IF i = 1 THEN ss[i] ELSE g[i - 1] \o ss[i]
          OBVIOUS
        <5> HIDE DEF g
        <5>2. g = [i \in 1..1 |-> g[i]]
          BY DEF g
        <5> QED BY <5>1, <5>2
      <4> HIDE DEF g, Flat
      <4> QED BY <3>2, <3>3, <4>1
    <3>4. CASE n # 1
      <4>1. n - 1 \in 1..N /\ n - 1 \notin Bad
        <5> HIDE DEF Flat
        <5>1. n - 1 \in 1..N /\ ~(n <= n - 1)
          BY <1>0, <3>2, <3>4
        <5> QED BY <3>1, <5>1
      <4>2. PICK f : Flat(f, n - 1)
        BY <4>1
      <4> DEFINE g == [i \in 1..n |-> IF i = n THEN f[n - 1] \o ss[n] ELSE f[i]]
      <4>3. Flat(g, n)
        <5>1. ASSUME NEW i \in 1..n
              PROVE  g[i] = IF i = 1 THEN ss[i] ELSE g[i - 1] \o ss[i]
          <6>1. CASE i = n
            <7>1. n - 1 \in 1..n /\ n - 1 # n
              BY <1>0, <3>2, <3>4
            <7>2. n \in 1..n
              BY <1>0, <3>2
            <7>3. g[n - 1] = f[n - 1] /\ g[n] = f[n - 1] \o ss[n]
              BY <7>1, <7>2
            <7> QED BY <3>4, <6>1, <7>3
          <6>2. CASE i # n
            <7>1. i \in 1..(n - 1) /\ g[i] = f[i]
              BY <3>2, <6>2, <1>0
            <7>2. f[i] = IF i = 1 THEN ss[i] ELSE f[i - 1] \o ss[i]
              BY <4>2, <7>1
            <7>3. i # 1 => g[i - 1] = f[i - 1]
              BY <3>2, <6>2, <1>0
            <7> QED BY <7>1, <7>2, <7>3
          <6> QED BY <6>1, <6>2
        <5> HIDE DEF g
        <5>2. g = [i \in 1..n |-> g[i]]
          BY DEF g
        <5> QED BY <5>1, <5>2
      <4> HIDE DEF g, Flat
      <4> QED BY <3>2, <4>3
    <3> QED BY <3>3, <3>4
  <2>2. N \in 1..N
    BY <1>0, <1>2, EmptySeq
  <2> DEFINE F == CHOOSE f : Flat(f, N)
  <2>3. Flat(F, N)
    <3> HIDE DEF Flat
    <3> QED BY <2>1, <2>2
  <2>4. FlattenSeq(ss) = F[N]
    BY <1>0, <1>2, <2>2 DEF FlattenSeq
  <2> HIDE DEF F
  <2>5. /\ F[1] = ss[1]
        /\ \A i \in 1..N : i # 1 => F[i] = F[i - 1] \o ss[i]
    <3>1. \A i \in 1..N : F[i] = IF i = 1 THEN ss[i] ELSE F[i - 1] \o ss[i]
      BY <2>3, Zenon
    <3>2. 1 \in 1..N
      BY <1>0, <2>2
    <3> QED BY <3>1, <3>2
  <2> DEFINE Good(n) ==
               /\ F[n] \in Seq(T)
               /\ \A k \in 1..Len(F[n]) : \E i \in 1..N : BlockAt(ss[i], F[n], k)
  <2>6. \A n \in 1..N : Good(n)
    <3> DEFINE Bad == {n \in 1..N : ~Good(n)}
    <3> SUFFICES ASSUME Bad # {} PROVE FALSE
      OBVIOUS
    <3>1. PICK n \in Bad : \A m \in Bad : n <= m
      <4>1. Bad \in SUBSET Nat
        BY <1>0
      <4> HIDE DEF Bad
      <4> QED BY <4>1, LeastOf, Zenon
    <3>2. n \in 1..N /\ ~Good(n)
      BY <3>1
    <3>3. CASE n = 1
      <4>1. F[n] = ss[1] /\ ss[1] \in Seq(T) /\ 1 \in 1..N
        BY <1>0, <2>2, <2>5, <3>3
      <4>2. ASSUME NEW k \in 1..Len(F[n]) PROVE BlockAt(ss[1], F[n], k)
        <5>1. k \in (0 + 1)..(0 + Len(ss[1])) /\ 0 + Len(ss[1]) <= Len(F[n])
              /\ \A j \in 1..Len(ss[1]) : F[n][0 + j] = ss[1][j]
          BY <4>1
        <5> QED BY <5>1 DEF BlockAt
      <4> QED BY <3>2, <4>1, <4>2
    <3>4. CASE n # 1
      <4>1. n - 1 \in 1..N /\ Good(n - 1)
        BY <1>0, <3>1, <3>2, <3>4
      <4>2. F[n] = F[n - 1] \o ss[n] /\ F[n - 1] \in Seq(T) /\ ss[n] \in Seq(T)
        BY <1>0, <2>5, <3>2, <3>4, <4>1
      <4>3. ASSUME NEW k \in 1..Len(F[n])
            PROVE  \E i \in 1..N : BlockAt(ss[i], F[n], k)
        <5>1. k \in 1..(Len(F[n - 1]) + Len(ss[n]))
          BY <4>2, ConcatProperties, ZenonT(60)
        <5>2. CASE k > Len(F[n - 1])
          <6>1. BlockAt(ss[n], F[n], k)
            BY <4>2, <5>1, <5>2, LastBlock
          <6> QED BY <3>2, <6>1
        <5>3. CASE ~(k > Len(F[n - 1]))
          <6>1. k \in 1..Len(F[n - 1])
            BY <4>2, <5>1, <5>3
          <6>2. PICK i \in 1..N : BlockAt(ss[i], F[n - 1], k)
            BY <4>1, <6>1
          <6>3. BlockAt(ss[i], F[n], k)
            BY <1>0, <4>2, <6>1, <6>2, BlocksOfConcat
          <6> QED BY <6>3
        <5> QED BY <5>2, <5>3
      <4>4. F[n] \in Seq(T)
        BY <4>2
      <4> QED BY <3>2, <4>3, <4>4
    <3> QED BY <3>3, <3>4
  <2> QED BY <2>2, <2>4, <2>6
<1> QED BY <1>1, <1>2

\* What is left of a sequence, place by place.
LEMMA TailPlaces ==
  ASSUME NEW T, NEW s \in Seq(T), s # <<>>
  PROVE  /\ Head(s) = s[1] /\ 1 \in 1..Len(s) /\ s[1] \in T
         /\ Tail(s) \in Seq(T) /\ Len(Tail(s)) = Len(s) - 1 /\ Len(s) \in Nat
         /\ \A k \in 1..Len(Tail(s)) : k + 1 \in 1..Len(s) /\ Tail(s)[k] = s[k + 1]
         /\ \A k \in 1..Len(s) : k = 1 \/ (k - 1 \in 1..Len(Tail(s)) /\ Tail(s)[k - 1] = s[k])
<1>1. Len(s) \in Nat \ {0} /\ Head(s) = s[1] /\ Tail(s) \in Seq(T) /\ Len(Tail(s)) = Len(s) - 1
      /\ \A k \in 1..Len(Tail(s)) : Tail(s)[k] = s[k + 1]
  BY HeadTailProperties, EmptySeq
<1> QED BY <1>1

-----------------------------------------------------------------------------
(* Statements and what they change.                                        *)

IdKinds == {"unlink", "unatt", "unvec", "unrow"}
BoxKinds == {"unlinkbox", "unattbox", "unvecbox", "unrowbox"}

Statements ==
    [do : {"row"}, id : Ids, box : Boxes, v : Versions, folder : Folders]
    \cup [do : {"contact"}, email : Emails, name : STRING]
    \cup [do : {"link"}, id : Ids, url : Urls]
    \cup [do : {"att"}, id : Ids, att : Atts]
    \cup [do : IdKinds, id : Ids]
    \cup [do : BoxKinds \cup {"cursor", "uncursor", "run", "unrunbox", "unbox"}, box : Boxes]

HasRow(d, i) == d.rows[i] # NoRow

\* The message is among those the statement is about.
Reaches(d, s, i) ==
    \/ s.do \in IdKinds /\ s.id = i
    \/ s.do \in BoxKinds /\ HasRow(d, i) /\ d.box[i] = s.box

LEMMA StatementShape ==
  ASSUME NEW s \in Statements
  PROVE  /\ s.do \in {"row", "contact", "link", "att", "cursor", "uncursor", "run", "unrunbox",
                      "unbox"} \cup IdKinds \cup BoxKinds
         /\ s.do = "row" => s.id \in Ids /\ s.box \in Boxes /\ s.v \in Versions /\ s.folder \in Folders
         /\ s.do = "contact" => s.email \in Emails /\ s.name \in STRING
         /\ s.do = "link" => s.id \in Ids /\ s.url \in Urls
         /\ s.do = "att" => s.id \in Ids /\ s.att \in Atts
         /\ s.do \in IdKinds => s.id \in Ids
         /\ s.do \in BoxKinds \cup {"cursor", "uncursor", "run", "unrunbox", "unbox"} => s.box \in Boxes
  BY DEF Statements, IdKinds, BoxKinds

LEMMA TableFields ==
  ASSUME NEW d \in Tables
  PROVE  /\ d.boxes \subseteq Boxes
         /\ d.rows \in [Ids -> {NoRow} \cup [v : Versions, folder : Folders]]
         /\ d.box \in [Ids -> Boxes \cup {""}]
         /\ d.fts \subseteq Ids \X Versions /\ d.links \subseteq Ids \X Urls
         /\ d.atts \subseteq Ids \X Atts /\ d.texts \subseteq Ids \X Atts /\ d.vecs \subseteq Ids
         /\ d.names \in Seq(STRING) /\ d.owner \subseteq Emails \X Nat
         /\ d.cursor \subseteq Boxes /\ d.runs \subseteq Boxes
  BY DEF Tables

\* The effect of each statement on each table.
LEMMA EffectIs ==
  ASSUME NEW d \in Tables, NEW s \in Statements
  PROVE  /\ s.do = "row" => Effect(d, s) = upsertMessage(d, s)
         /\ s.do = "contact" => Effect(d, s) = upsertContactIdentifier(d, s)
         /\ s.do = "link" => Effect(d, s) = upsertLink(d, s)
         /\ s.do = "att" => Effect(d, s) = upsertAttachment(d, s)
         /\ s.do = "unlink" => Effect(d, s) = WithoutLinks(d, {s.id})
         /\ s.do = "unatt" => Effect(d, s) = WithoutAtts(d, {s.id})
         /\ s.do = "unvec" => Effect(d, s) = WithoutVecs(d, {s.id})
         /\ s.do = "unrow" => Effect(d, s) = WithoutRows(d, {s.id})
         /\ s.do = "cursor" => Effect(d, s) = upsertSyncState(d, s.box)
         /\ s.do = "uncursor" => Effect(d, s) = ResetSyncCursor(d, s.box)
         /\ s.do = "run" => Effect(d, s) = RecordSyncRun(d, s.box)
         /\ s.do = "unlinkbox" => Effect(d, s) = WithoutLinks(d, IdsOf(d, s.box))
         /\ s.do = "unattbox" => Effect(d, s) = WithoutAtts(d, IdsOf(d, s.box))
         /\ s.do = "unvecbox" => Effect(d, s) = WithoutVecs(d, IdsOf(d, s.box))
         /\ s.do = "unrowbox" => Effect(d, s) = WithoutRows(d, IdsOf(d, s.box))
         /\ s.do = "unrunbox" => Effect(d, s) = [d EXCEPT !.runs = @ \ {s.box}]
         /\ s.do = "unbox" => Effect(d, s) = [d EXCEPT !.boxes = @ \ {s.box}]
  BY DEF Effect

Reached(d, s) == {i \in Ids : Reaches(d, s, i)}

LEMMA ReachedIs ==
  ASSUME NEW d \in Tables, NEW s \in Statements
  PROVE  /\ s.do \in IdKinds => Reached(d, s) = {s.id}
         /\ s.do \in BoxKinds => Reached(d, s) = IdsOf(d, s.box)
  BY StatementShape DEF Reached, Reaches, IdsOf, HasRow, IdKinds, BoxKinds

\* A statement that removes, of a message or of a mailbox's.
LEMMA EffectRemoves ==
  ASSUME NEW d \in Tables, NEW s \in Statements
  PROVE  /\ s.do \in {"unlink", "unlinkbox"} => Effect(d, s) = WithoutLinks(d, Reached(d, s))
         /\ s.do \in {"unatt", "unattbox"} => Effect(d, s) = WithoutAtts(d, Reached(d, s))
         /\ s.do \in {"unvec", "unvecbox"} => Effect(d, s) = WithoutVecs(d, Reached(d, s))
         /\ s.do \in {"unrow", "unrowbox"} => Effect(d, s) = WithoutRows(d, Reached(d, s))
<1>1. /\ s.do \in {"unlink", "unatt", "unvec", "unrow"} => Reached(d, s) = {s.id}
      /\ s.do \in {"unlinkbox", "unattbox", "unvecbox", "unrowbox"} =>
            Reached(d, s) = IdsOf(d, s.box)
  BY ReachedIs DEF IdKinds, BoxKinds
<1>2. s.do \in {"unlink", "unlinkbox"} => Effect(d, s) = WithoutLinks(d, Reached(d, s))
  BY <1>1, EffectIs
<1>3. s.do \in {"unatt", "unattbox"} => Effect(d, s) = WithoutAtts(d, Reached(d, s))
  BY <1>1, EffectIs
<1>4. s.do \in {"unvec", "unvecbox"} => Effect(d, s) = WithoutVecs(d, Reached(d, s))
  BY <1>1, EffectIs
<1>5. s.do \in {"unrow", "unrowbox"} => Effect(d, s) = WithoutRows(d, Reached(d, s))
  BY <1>1, EffectIs
<1> QED BY <1>2, <1>3, <1>4, <1>5

RowKinds == {"row", "unrow", "unrowbox"}
LinkKinds == {"link", "unlink", "unlinkbox"}
AttKinds == {"att", "unatt", "unattbox"}
VecKinds == {"unvec", "unvecbox"}

\* Each statement leaves all tables but its own alone.
LEMMA EffectLeaves ==
  ASSUME NEW d \in Tables, NEW s \in Statements
  PROVE  LET e == Effect(d, s)
         IN  /\ s.do \notin RowKinds => e.rows = d.rows /\ e.box = d.box /\ e.fts = d.fts
             /\ s.do \notin LinkKinds => e.links = d.links
             /\ s.do \notin AttKinds => e.atts = d.atts /\ e.texts = d.texts
             /\ s.do \notin VecKinds => e.vecs = d.vecs
             /\ s.do # "contact" => e.names = d.names /\ e.owner = d.owner
             /\ s.do # "unbox" => e.boxes = d.boxes
<1> DEFINE e == Effect(d, s)
<1> USE DEF Tables, RowKinds, LinkKinds, AttKinds, VecKinds
<1>1. CASE s.do = "row"
  <2>1. e = upsertMessage(d, s)
    BY <1>1, EffectIs
  <2> HIDE DEF e
  <2>2. /\ e.links = d.links /\ e.atts = d.atts /\ e.texts = d.texts /\ e.vecs = d.vecs /\ e.names = d.names
        /\ e.owner = d.owner /\ e.boxes = d.boxes
    BY <2>1 DEF upsertMessage
  <2> QED BY <1>1, <2>2 DEF e
<1>2. CASE s.do = "contact"
  <2>1. e = upsertContactIdentifier(d, s)
    BY <1>2, EffectIs
  <2> HIDE DEF e
  <2>2. /\ e.rows = d.rows /\ e.box = d.box /\ e.fts = d.fts /\ e.links = d.links /\ e.atts = d.atts
        /\ e.texts = d.texts /\ e.vecs = d.vecs /\ e.boxes = d.boxes
    BY <2>1 DEF upsertContactIdentifier
  <2> QED BY <1>2, <2>2 DEF e
<1>3. CASE s.do = "link"
  <2>1. e = upsertLink(d, s)
    BY <1>3, EffectIs
  <2> HIDE DEF e
  <2>2. /\ e.rows = d.rows /\ e.box = d.box /\ e.fts = d.fts /\ e.atts = d.atts /\ e.texts = d.texts
        /\ e.vecs = d.vecs /\ e.names = d.names /\ e.owner = d.owner /\ e.boxes = d.boxes
    BY <2>1 DEF upsertLink
  <2> QED BY <1>3, <2>2 DEF e
<1>4. CASE s.do = "att"
  <2>1. e = upsertAttachment(d, s)
    BY <1>4, EffectIs
  <2> HIDE DEF e
  <2>2. /\ e.rows = d.rows /\ e.box = d.box /\ e.fts = d.fts /\ e.links = d.links /\ e.vecs = d.vecs
        /\ e.names = d.names /\ e.owner = d.owner /\ e.boxes = d.boxes
    BY <2>1 DEF upsertAttachment
  <2> QED BY <1>4, <2>2 DEF e
<1>5. CASE s.do \in {"unlink", "unlinkbox"}
  <2>1. e = WithoutLinks(d, Reached(d, s))
    BY <1>5, EffectRemoves
  <2> HIDE DEF e
  <2>2. /\ e.rows = d.rows /\ e.box = d.box /\ e.fts = d.fts /\ e.atts = d.atts /\ e.texts = d.texts
        /\ e.vecs = d.vecs /\ e.names = d.names /\ e.owner = d.owner /\ e.boxes = d.boxes
    BY <2>1 DEF WithoutLinks
  <2> QED BY <1>5, <2>2 DEF e
<1>6. CASE s.do \in {"unatt", "unattbox"}
  <2>1. e = WithoutAtts(d, Reached(d, s))
    BY <1>6, EffectRemoves
  <2> HIDE DEF e
  <2>2. /\ e.rows = d.rows /\ e.box = d.box /\ e.fts = d.fts /\ e.links = d.links /\ e.vecs = d.vecs
        /\ e.names = d.names /\ e.owner = d.owner /\ e.boxes = d.boxes
    BY <2>1 DEF WithoutAtts
  <2> QED BY <1>6, <2>2 DEF e
<1>7. CASE s.do \in {"unvec", "unvecbox"}
  <2>1. e = WithoutVecs(d, Reached(d, s))
    BY <1>7, EffectRemoves
  <2> HIDE DEF e
  <2>2. /\ e.rows = d.rows /\ e.box = d.box /\ e.fts = d.fts /\ e.links = d.links /\ e.atts = d.atts
        /\ e.texts = d.texts /\ e.names = d.names /\ e.owner = d.owner /\ e.boxes = d.boxes
    BY <2>1 DEF WithoutVecs
  <2> QED BY <1>7, <2>2 DEF e
<1>8. CASE s.do \in {"unrow", "unrowbox"}
  <2>1. e = WithoutRows(d, Reached(d, s))
    BY <1>8, EffectRemoves
  <2> HIDE DEF e
  <2>2. /\ e.links = d.links /\ e.atts = d.atts /\ e.texts = d.texts /\ e.vecs = d.vecs /\ e.names = d.names
        /\ e.owner = d.owner /\ e.boxes = d.boxes
    BY <2>1 DEF WithoutRows
  <2> QED BY <1>8, <2>2 DEF e
<1>9. CASE s.do \in {"cursor", "uncursor", "run", "unrunbox", "unbox"}
  <2>1. CASE s.do = "cursor"
    <3>1. e = upsertSyncState(d, s.box)
      BY <2>1, EffectIs
    <3> HIDE DEF e
    <3>2. /\ e.rows = d.rows /\ e.box = d.box /\ e.fts = d.fts /\ e.links = d.links /\ e.atts = d.atts
          /\ e.texts = d.texts /\ e.vecs = d.vecs /\ e.names = d.names /\ e.owner = d.owner /\ e.boxes = d.boxes
      BY <3>1 DEF upsertSyncState
    <3> QED BY <2>1, <3>2 DEF e
  <2>2. CASE s.do = "uncursor"
    <3>1. e = ResetSyncCursor(d, s.box)
      BY <2>2, EffectIs
    <3> HIDE DEF e
    <3>2. /\ e.rows = d.rows /\ e.box = d.box /\ e.fts = d.fts /\ e.links = d.links /\ e.atts = d.atts
          /\ e.texts = d.texts /\ e.vecs = d.vecs /\ e.names = d.names /\ e.owner = d.owner /\ e.boxes = d.boxes
      BY <3>1 DEF ResetSyncCursor
    <3> QED BY <2>2, <3>2 DEF e
  <2>3. CASE s.do = "run"
    <3>1. e = RecordSyncRun(d, s.box)
      BY <2>3, EffectIs
    <3> HIDE DEF e
    <3>2. /\ e.rows = d.rows /\ e.box = d.box /\ e.fts = d.fts /\ e.links = d.links /\ e.atts = d.atts
          /\ e.texts = d.texts /\ e.vecs = d.vecs /\ e.names = d.names /\ e.owner = d.owner /\ e.boxes = d.boxes
      BY <3>1 DEF RecordSyncRun
    <3> QED BY <2>3, <3>2 DEF e
  <2>4. CASE s.do = "unrunbox"
    <3>1. e = [d EXCEPT !.runs = @ \ {s.box}]
      BY <2>4, EffectIs
    <3> HIDE DEF e
    <3>2. /\ e.rows = d.rows /\ e.box = d.box /\ e.fts = d.fts /\ e.links = d.links /\ e.atts = d.atts
          /\ e.texts = d.texts /\ e.vecs = d.vecs /\ e.names = d.names /\ e.owner = d.owner /\ e.boxes = d.boxes
      BY <3>1
    <3> QED BY <2>4, <3>2 DEF e
  <2>5. CASE s.do = "unbox"
    <3>1. e = [d EXCEPT !.boxes = @ \ {s.box}]
      BY <2>5, EffectIs
    <3> HIDE DEF e
    <3>2. /\ e.rows = d.rows /\ e.box = d.box /\ e.fts = d.fts /\ e.links = d.links /\ e.atts = d.atts
          /\ e.texts = d.texts /\ e.vecs = d.vecs /\ e.names = d.names /\ e.owner = d.owner
      BY <3>1
    <3> QED BY <2>5, <3>2 DEF e
  <2> QED BY <1>9, <2>1, <2>2, <2>3, <2>4, <2>5
<1> QED BY <1>1, <1>2, <1>3, <1>4, <1>5, <1>6, <1>7, <1>8, <1>9, StatementShape DEF IdKinds, BoxKinds

LEMMA UpdatedFields ==
  ASSUME NEW d \in Tables, NEW s
  PROVE  /\ upsertLink(d, s).links = d.links \cup {<<s.id, s.url>>}
         /\ upsertAttachment(d, s).atts = d.atts \cup {<<s.id, s.att>>}
         /\ upsertAttachment(d, s).texts = d.texts
  BY DEF Tables, upsertLink, upsertAttachment

LEMMA WithoutFields ==
  ASSUME NEW d \in Tables, NEW ids
  PROVE  /\ WithoutLinks(d, ids).links = {l \in d.links : l[1] \notin ids}
         /\ WithoutAtts(d, ids).atts = {a \in d.atts : a[1] \notin ids}
         /\ WithoutAtts(d, ids).texts = {a \in d.texts : a[1] \notin ids}
         /\ WithoutVecs(d, ids).vecs = d.vecs \ ids
<1> USE DEF Tables
<1>1. WithoutLinks(d, ids).links = {l \in d.links : l[1] \notin ids}
  BY DEF WithoutLinks
<1>2. /\ WithoutAtts(d, ids).atts = {a \in d.atts : a[1] \notin ids}
      /\ WithoutAtts(d, ids).texts = {a \in d.texts : a[1] \notin ids}
  BY DEF WithoutAtts
<1>3. WithoutVecs(d, ids).vecs = d.vecs \ ids
  BY DEF WithoutVecs
<1> QED BY <1>1, <1>2, <1>3

\* A message's row, and its entry in the index.
LEMMA RowEffect ==
  ASSUME NEW d \in Tables, NEW s \in Statements, s.do = "row"
  PROVE  LET e == Effect(d, s)
         IN  /\ e.rows = [d.rows EXCEPT ![s.id] = [v |-> s.v, folder |-> s.folder]]
             /\ e.box = [d.box EXCEPT ![s.id] = IF HasRow(d, s.id) THEN @ ELSE s.box]
             /\ e.fts = {x \in d.fts : x[1] # s.id} \cup {<<s.id, s.v>>}
<1> DEFINE e == Effect(d, s)
<1>1. e = upsertMessage(d, s)
  BY EffectIs
<1>2. e = [d EXCEPT !.rows = [d.rows EXCEPT ![s.id] = [v |-> s.v, folder |-> s.folder]],
                    !.box = [d.box EXCEPT ![s.id] = IF HasRow(d, s.id) THEN @ ELSE s.box],
                    !.fts = messages_au(d, s.id, s.v)]
  BY <1>1 DEF upsertMessage, HasRow, Tables
<1> HIDE DEF e
<1>3. e.rows = [d.rows EXCEPT ![s.id] = [v |-> s.v, folder |-> s.folder]]
  BY <1>2 DEF Tables
<1>4. e.box = [d.box EXCEPT ![s.id] = IF HasRow(d, s.id) THEN @ ELSE s.box]
  BY <1>2 DEF Tables
<1>5. e.fts = messages_au(d, s.id, s.v)
  BY <1>2 DEF Tables
<1> QED BY <1>3, <1>4, <1>5 DEF e, messages_au

LEMMA UnrowEffect ==
  ASSUME NEW d \in Tables, NEW s \in Statements, s.do \in {"unrow", "unrowbox"}
  PROVE  LET e == Effect(d, s)
         IN  /\ e.rows = [i \in Ids |-> IF Reaches(d, s, i) THEN NoRow ELSE d.rows[i]]
             /\ e.box = [i \in Ids |-> IF Reaches(d, s, i) THEN "" ELSE d.box[i]]
             /\ e.fts = {x \in d.fts : ~Reaches(d, s, x[1])}
<1> DEFINE e == Effect(d, s)
<1>1. e = WithoutRows(d, Reached(d, s))
  BY EffectRemoves
<1>2. \A i \in Ids : i \in Reached(d, s) <=> Reaches(d, s, i)
  BY DEF Reached
<1>3. /\ e.rows = [i \in Ids |-> IF i \in Reached(d, s) THEN NoRow ELSE d.rows[i]]
      /\ e.box = [i \in Ids |-> IF i \in Reached(d, s) THEN "" ELSE d.box[i]]
      /\ e.fts = messages_ad(d, Reached(d, s))
  BY <1>1 DEF WithoutRows, Tables
<1>4. \A x \in d.fts : x[1] \in Ids
  BY TableFields
<1>5. e.fts = {x \in d.fts : ~Reaches(d, s, x[1])}
  BY <1>2, <1>3, <1>4 DEF messages_ad
<1> QED BY <1>2, <1>3, <1>5

LEMMA LinkEffect ==
  ASSUME NEW d \in Tables, NEW s \in Statements
  PROVE  /\ s.do = "link" => Effect(d, s).links = d.links \cup {<<s.id, s.url>>}
         /\ s.do \in {"unlink", "unlinkbox"} =>
              Effect(d, s).links = {l \in d.links : ~Reaches(d, s, l[1])}
<1>1. ASSUME s.do = "link"
      PROVE  Effect(d, s).links = d.links \cup {<<s.id, s.url>>}
  <2>1. Effect(d, s) = upsertLink(d, s)
    BY <1>1, EffectIs
  <2> QED BY <2>1, UpdatedFields
<1>2. ASSUME s.do \in {"unlink", "unlinkbox"}
      PROVE  Effect(d, s).links = {l \in d.links : ~Reaches(d, s, l[1])}
  <2>1. Effect(d, s) = WithoutLinks(d, Reached(d, s))
    BY <1>2, EffectRemoves
  <2>2. Effect(d, s).links = {l \in d.links : l[1] \notin Reached(d, s)}
    BY <2>1, WithoutFields
  <2>3. \A l \in d.links : l[1] \in Ids
    BY TableFields
  <2> QED BY <2>2, <2>3 DEF Reached
<1> QED BY <1>1, <1>2

LEMMA AttEffect ==
  ASSUME NEW d \in Tables, NEW s \in Statements
  PROVE  /\ s.do = "att" => /\ Effect(d, s).atts = d.atts \cup {<<s.id, s.att>>}
                            /\ Effect(d, s).texts = d.texts
         /\ s.do \in {"unatt", "unattbox"} =>
              /\ Effect(d, s).atts = {a \in d.atts : ~Reaches(d, s, a[1])}
              /\ Effect(d, s).texts = {a \in d.texts : ~Reaches(d, s, a[1])}
<1>1. ASSUME s.do = "att"
      PROVE  /\ Effect(d, s).atts = d.atts \cup {<<s.id, s.att>>}
             /\ Effect(d, s).texts = d.texts
  <2>1. Effect(d, s) = upsertAttachment(d, s)
    BY <1>1, EffectIs
  <2> QED BY <2>1, UpdatedFields, SMTT(30)
<1>2. ASSUME s.do \in {"unatt", "unattbox"}
      PROVE  /\ Effect(d, s).atts = {a \in d.atts : ~Reaches(d, s, a[1])}
             /\ Effect(d, s).texts = {a \in d.texts : ~Reaches(d, s, a[1])}
  <2>1. Effect(d, s) = WithoutAtts(d, Reached(d, s))
    BY <1>2, EffectRemoves
  <2>2. /\ Effect(d, s).atts = {a \in d.atts : a[1] \notin Reached(d, s)}
        /\ Effect(d, s).texts = {a \in d.texts : a[1] \notin Reached(d, s)}
    BY <2>1, WithoutFields
  <2>3. (\A a \in d.atts : a[1] \in Ids) /\ (\A a \in d.texts : a[1] \in Ids)
    BY TableFields
  <2> QED BY <2>2, <2>3 DEF Reached
<1> QED BY <1>1, <1>2

LEMMA VecEffect ==
  ASSUME NEW d \in Tables, NEW s \in Statements, s.do \in VecKinds
  PROVE  Effect(d, s).vecs = {i \in d.vecs : ~Reaches(d, s, i)}
<1>1. Effect(d, s).vecs = d.vecs \ Reached(d, s)
  <2>1. Effect(d, s) = WithoutVecs(d, Reached(d, s))
    BY EffectRemoves DEF VecKinds
  <2> QED BY <2>1, WithoutFields
<1>2. d.vecs \subseteq Ids
  BY TableFields
<1> QED BY <1>1, <1>2 DEF Reached

-----------------------------------------------------------------------------
(* The inductive invariant.  Between two statements a transaction's tables  *)
(* are not whole: what is still to run says what they lack.                *)

Is(s, kind, i) == s.do = kind /\ s.id = i
Before(todo, k, kind, i) == \E j \in 1..(k - 1) : Is(todo[j], kind, i)
After(todo, k, kind, i) == \E j \in (k + 1)..Len(todo) : Is(todo[j], kind, i)

MailAt(i, v) == Mail[<<i[1], i[2], v>>]
Adds(s, x) == s.do = "contact" /\ Canonical[s.email] = x
AddsLink(s, i, u) == Is(s, "link", i) /\ s.url = u
AddsAtt(s, i, a) == Is(s, "att", i) /\ s.att = a

\* A row is of a version the mailbox has had, in that version's folder.
Honest(i, v, folder) == v \in VersionsOf(i[1], i[2]) /\ folder = resolve(MailAt(i, v).labels)

\* The statements after place k store all that the body of version v names.
Follows(todo, k, i, v) ==
    /\ \A u \in ToSet(MailAt(i, v).urls) : \E j \in (k + 1)..Len(todo) : AddsLink(todo[j], i, u)
    /\ \A a \in ToSet(MailAt(i, v).atts) : \E j \in (k + 1)..Len(todo) : AddsAtt(todo[j], i, a)
    /\ \A p \in ToSet(contactsOf(MailAt(i, v))) : \E j \in (k + 1)..Len(todo) :
        Adds(todo[j], Canonical[p.email])

\* What a sync leaves to run.  A row is followed by all that hangs off it; what
\* hangs off a row that goes has gone before it, and what has gone is followed
\* by the row; and no message is both stored and removed.
MailPlan(todo, d) ==
    /\ \A k \in 1..Len(todo) : todo[k].do \notin BoxKinds
    /\ \A j, k \in 1..Len(todo) :
        todo[j].do = "unrow" /\ todo[k].do \in {"row", "link", "att"} => todo[j].id # todo[k].id
    /\ \A k \in 1..Len(todo) : todo[k].do = "row" =>
        /\ Honest(todo[k].id, todo[k].v, todo[k].folder)
        /\ Follows(todo, k, todo[k].id, todo[k].v)
    /\ \A k \in 1..Len(todo) : todo[k].do \in {"link", "att"} =>
        HasRow(d, todo[k].id) \/ Before(todo, k, "row", todo[k].id)
    /\ \A k \in 1..Len(todo) : todo[k].do \in {"unlink", "unatt", "unvec"} =>
        After(todo, k, "unrow", todo[k].id)
    /\ \A k \in 1..Len(todo) : todo[k].do = "unrow" =>
        /\ (\A l \in d.links : l[1] # todo[k].id) \/ Before(todo, k, "unlink", todo[k].id)
        /\ (\A a \in d.atts : a[1] # todo[k].id) \/ Before(todo, k, "unatt", todo[k].id)
        /\ todo[k].id \notin d.vecs \/ Before(todo, k, "unvec", todo[k].id)

\* What DeleteMailbox leaves to run after its first n statements.
BoxPlan(todo, d) ==
    \E b \in Boxes, n \in 0..7 :
        /\ Len(todo) = 7 - n
        /\ \A k \in 1..Len(todo) : todo[k] = DeleteMailbox(b)[n + k]
        /\ n \in 1..3 => \A l \in d.links : l[1] \notin IdsOf(d, b)
        /\ n \in 2..3 => \A a \in d.atts : a[1] \notin IdsOf(d, b)
        /\ n = 3 => d.vecs \cap IdsOf(d, b) = {}

\* The message's row is to go; or it is gone and is not to come back.
Doomed(todo, d, i) ==
    \E k \in 1..Len(todo) : todo[k].do \in {"unrow", "unrowbox"} /\ Reaches(d, todo[k], i)
Gone(todo, d, i) == ~HasRow(d, i) /\ \A k \in 1..Len(todo) : ~Is(todo[k], "row", i)

Unorphaned(d) ==
    /\ \A l \in d.links : HasRow(d, l[1])
    /\ \A a \in d.atts : HasRow(d, a[1])
    /\ \A i \in d.vecs : HasRow(d, i)
    /\ d.texts \subseteq d.atts

Indexed(d) == d.fts = {<<i, d.rows[i].v>> : i \in {j \in Ids : HasRow(d, j)}}

Owned(d) ==
    /\ \A o \in d.owner : Canonical[o[1]] = o[1] /\ o[2] \in 1..Len(d.names)
    /\ \A o, p \in d.owner : o[1] = p[1] \/ o[2] = p[2] => o = p
    /\ \A c \in 1..Len(d.names) : \E o \in d.owner : o[2] = c

Whole(todo, d) ==
    \A i \in Ids : HasRow(d, i) =>
        /\ Honest(i, d.rows[i].v, d.rows[i].folder)
        /\ \/ Doomed(todo, d, i)
           \/ /\ \A u \in ToSet(MailAt(i, d.rows[i].v).urls) :
                    <<i, u>> \in d.links \/ \E k \in 1..Len(todo) : AddsLink(todo[k], i, u)
              /\ \A a \in ToSet(MailAt(i, d.rows[i].v).atts) :
                    <<i, a>> \in d.atts \/ \E k \in 1..Len(todo) : AddsAtt(todo[k], i, a)
              /\ \A p \in ToSet(contactsOf(MailAt(i, d.rows[i].v))) : 
                    \/ Canonical[p.email] = ""
                    \/ \E o \in d.owner : o[1] = Canonical[p.email]
                    \/ \E k \in 1..Len(todo) : Adds(todo[k], Canonical[p.email])

Keeping(c, todo, d) ==
    /\ \A i \in c.vecs : i \in d.vecs \/ Doomed(todo, d, i) \/ Gone(todo, d, i)
    /\ \A a \in c.texts : a \in d.texts \/ Doomed(todo, d, a[1]) \/ Gone(todo, d, a[1])
    /\ c.owner \subseteq d.owner /\ Len(c.names) <= Len(d.names)
    /\ \A n \in 1..Len(c.names) : c.names[n] # "" => d.names[n] = c.names[n]

TxInv(c, todo, d) ==
    /\ c \in Tables /\ d \in Tables /\ todo \in Seq(Statements)
    /\ MailPlan(todo, d) \/ BoxPlan(todo, d)
    /\ Accepts(d) /\ Unorphaned(d) /\ Indexed(d) /\ Owned(d)
    /\ Whole(todo, d)
    /\ Keeping(c, todo, d)

CacheInv ==
    /\ derived \in 0..MaxDerived
    /\ TxInv(db, <<>>, db)
    /\ tx # NoTx => TxInv(db, tx.todo, tx.db)

-----------------------------------------------------------------------------
(* One statement.                                                          *)

LEMMA Overwritten ==
  ASSUME NEW T, NEW q \in Seq(T), NEW c \in 1..Len(q), NEW x \in T, NEW r,
         r = [q EXCEPT ![c] = x]
  PROVE  /\ r \in Seq(T) /\ Len(r) = Len(q)
         /\ \A n \in 1..Len(q) : n # c => r[n] = q[n]
         /\ r[c] = x
  BY ExceptSeq

\* A correspondent: the address has a contact afterwards, no contact loses its
\* address, and only an empty name is filled in.
LEMMA ContactEffect ==
  ASSUME NEW d \in Tables, NEW s \in Statements, s.do = "contact", Owned(d)
  PROVE  LET e == Effect(d, s)
         IN  /\ Owned(e)
             /\ d.owner \subseteq e.owner /\ Len(d.names) <= Len(e.names)
             /\ \A n \in 1..Len(d.names) : d.names[n] # "" => e.names[n] = d.names[n]
             /\ Canonical[s.email] # "" => \E o \in e.owner : o[1] = Canonical[s.email]
             /\ e.names \in Seq(STRING) /\ e.owner \subseteq Emails \X Nat
<1> DEFINE e == Effect(d, s)
           addr == Canonical[s.email]
           known == {o \in d.owner : o[1] = addr}
<1>1. e = upsertContactIdentifier(d, s)
  BY EffectIs
<1>2. /\ d.names \in Seq(STRING) /\ d.owner \subseteq Emails \X Nat /\ Len(d.names) \in Nat
      /\ s.email \in Emails /\ s.name \in STRING
  <2>1. d.names \in Seq(STRING) /\ d.owner \subseteq Emails \X Nat
    BY TableFields
  <2>2. s.email \in Emails /\ s.name \in STRING
    BY StatementShape
  <2>3. Len(d.names) \in Nat
    BY <2>1, LenProperties
  <2> QED BY <2>1, <2>2, <2>3
<1>3. addr \in Emails /\ Canonical[addr] = addr
  BY <1>2, CacheRowsConstants
<1>4. /\ \A o \in d.owner : Canonical[o[1]] = o[1] /\ o[2] \in 1..Len(d.names)
      /\ \A o, p \in d.owner : o[1] = p[1] \/ o[2] = p[2] => o = p
      /\ \A c \in 1..Len(d.names) : \E o \in d.owner : o[2] = c
  BY DEF Owned
<1>5. CASE addr = ""
  <2>1. e = d
    BY <1>1, <1>5 DEF upsertContactIdentifier, normalizeAddress
  <2>2. Len(d.names) <= Len(d.names)
    BY <1>2
  <2> HIDE DEF e, addr
  <2> QED BY <1>2, <1>5, <2>1, <2>2 DEF e, addr
<1>6. CASE addr # "" /\ known = {}
  <2> DEFINE L == Len(d.names)
  <2>1. e = [d EXCEPT !.names = Append(@, s.name), !.owner = @ \cup {<<addr, L + 1>>}]
    BY <1>1, <1>6 DEF upsertContactIdentifier, normalizeAddress
  <2> HIDE DEF e, addr, known
  <2>2. e.names = Append(d.names, s.name) /\ e.owner = d.owner \cup {<<addr, L + 1>>}
    BY <2>1 DEF Tables
  <2>3. /\ Len(e.names) = L + 1 /\ e.names \in Seq(STRING)
        /\ \A n \in 1..L : e.names[n] = d.names[n]
    BY <1>2, <2>2
  <2>4. e.owner \subseteq Emails \X Nat
    BY <1>2, <1>3, <2>2
  <2>5. \A o \in d.owner : o[1] # addr
    BY <1>6 DEF known
  <2>6. Owned(e)
    <3>1. \A o \in e.owner : Canonical[o[1]] = o[1] /\ o[2] \in 1..Len(e.names)
      BY <1>2, <1>3, <1>4, <2>2, <2>3
    <3>2. ASSUME NEW o \in e.owner, NEW p \in e.owner, o[1] = p[1] \/ o[2] = p[2] PROVE o = p
      <4>1. \A q \in d.owner : q[2] # L + 1
        BY <1>2, <1>4
      <4>2. CASE o \in d.owner /\ p \in d.owner
        BY <1>4, <3>2, <4>2
      <4>3. CASE o \notin d.owner /\ p \in d.owner
        <5>1. o = <<addr, L + 1>>
          BY <2>2, <4>3
        <5> QED BY <2>5, <3>2, <4>1, <4>3, <5>1
      <4>4. CASE o \in d.owner /\ p \notin d.owner
        <5>1. p = <<addr, L + 1>>
          BY <2>2, <4>4
        <5> QED BY <2>5, <3>2, <4>1, <4>4, <5>1
      <4>5. CASE o \notin d.owner /\ p \notin d.owner
        BY <2>2, <4>5
      <4> QED BY <4>2, <4>3, <4>4, <4>5
    <3>3. ASSUME NEW c \in 1..Len(e.names) PROVE \E o \in e.owner : o[2] = c
      <4>1. CASE c = L + 1
        <5>1. <<addr, L + 1>> \in e.owner /\ <<addr, L + 1>>[2] = c
          BY <2>2, <4>1
        <5> QED BY <5>1
      <4>2. CASE c # L + 1
        <5>1. c \in 1..L
          BY <1>2, <2>3, <4>2
        <5> QED BY <1>4, <2>2, <5>1
      <4> QED BY <4>1, <4>2
    <3> QED BY <3>1, <3>2, <3>3 DEF Owned
  <2>7. \E o \in e.owner : o[1] = addr
    <3>1. <<addr, L + 1>> \in e.owner /\ <<addr, L + 1>>[1] = addr
      BY <2>2
    <3> QED BY <3>1
  <2>8. /\ Owned(e)
        /\ d.owner \subseteq e.owner /\ Len(d.names) <= Len(e.names)
        /\ \A n \in 1..Len(d.names) : d.names[n] # "" => e.names[n] = d.names[n]
        /\ \E o \in e.owner : o[1] = addr
        /\ e.names \in Seq(STRING) /\ e.owner \subseteq Emails \X Nat
    <3>1. d.owner \subseteq e.owner
      BY <2>2
    <3>2. Len(d.names) <= Len(e.names)
      BY <1>2, <2>3
    <3> QED BY <2>3, <2>4, <2>6, <2>7, <3>1, <3>2
  <2> QED BY <2>8 DEF e, addr
<1>7. CASE addr # "" /\ known # {}
  <2> DEFINE c == (CHOOSE o \in known : TRUE)[2]
  <2>1. e = [d EXCEPT !.names = [d.names EXCEPT ![c] = IF @ = "" THEN s.name ELSE @]]
    BY <1>1, <1>7 DEF upsertContactIdentifier, normalizeAddress
  <2>2. PICK o \in known : c = o[2]
    BY <1>7
  <2> HIDE DEF e, c
  <2>3. e.names = [d.names EXCEPT ![c] = IF @ = "" THEN s.name ELSE @] /\ e.owner = d.owner
    BY <2>1 DEF Tables
  <2>4. o \in d.owner /\ o[1] = addr /\ c \in 1..Len(d.names)
    BY <1>4, <2>2
  <2>5. /\ Len(e.names) = Len(d.names) /\ e.names \in Seq(STRING)
        /\ \A n \in 1..Len(d.names) : d.names[n] # "" => e.names[n] = d.names[n]
    <3> DEFINE x == IF d.names[c] = "" THEN s.name ELSE d.names[c]
    <3>1. d.names[c] \in STRING
      BY <1>2, <2>4, ElementOfSeq
    <3>2. e.names = [d.names EXCEPT ![c] = x]
      BY <2>3
    <3>3. c \in 1..Len(d.names) /\ x \in STRING /\ (d.names[c] # "" => x = d.names[c])
      BY <1>2, <2>4, <3>1
    <3> HIDE DEF x
    <3>4. /\ e.names \in Seq(STRING) /\ Len(e.names) = Len(d.names)
          /\ \A n \in 1..Len(d.names) : n # c => e.names[n] = d.names[n]
          /\ e.names[c] = x
      <4> DEFINE q == d.names
                 r == e.names
      <4>1. q \in Seq(STRING) /\ c \in 1..Len(q) /\ x \in STRING /\ r = [q EXCEPT ![c] = x]
        BY <1>2, <3>2, <3>3
      <4> HIDE DEF q, r, c
      <4> QED BY <4>1, Overwritten DEF q, r
    <3> QED BY <3>3, <3>4
  <2>6. Owned(e)
    BY <1>4, <2>3, <2>5 DEF Owned
  <2>7. \E p \in e.owner : p[1] = addr
    BY <2>3, <2>4
  <2>8. d.owner \subseteq e.owner /\ e.owner \subseteq Emails \X Nat
    BY <1>2, <2>3
  <2>9. Len(d.names) <= Len(e.names)
    <3>1. Len(e.names) = Len(d.names) /\ Len(d.names) \in Nat
      BY <1>2, <2>5
    <3> QED BY <3>1
  <2> HIDE DEF addr
  <2> QED BY <2>5, <2>6, <2>7, <2>8, <2>9 DEF e, addr
<1> QED BY <1>5, <1>6, <1>7

\* The tables stay tables.
LEMMA EffectTyped ==
  ASSUME NEW d \in Tables, NEW s \in Statements, Owned(d)
  PROVE  Effect(d, s) \in Tables
<1> DEFINE e == Effect(d, s)
<1>1. CASE s.do = "row"
  <2>1. e = upsertMessage(d, s)
    BY <1>1, EffectIs
  <2>2. s.id \in Ids /\ s.box \in Boxes /\ s.v \in Versions /\ s.folder \in Folders
    BY <1>1, StatementShape
  <2>3. messages_au(d, s.id, s.v) \subseteq Ids \X Versions
    <3>1. <<s.id, s.v>> \in Ids \X Versions /\ d.fts \subseteq Ids \X Versions
      BY <2>2, TableFields
    <3> QED BY <3>1, Zenon DEF messages_au
  <2> DEFINE rows == [d.rows EXCEPT ![s.id] = [v |-> s.v, folder |-> s.folder]]
             box == [d.box EXCEPT ![s.id] = IF d.rows[s.id] = NoRow THEN s.box ELSE @]
             fts == messages_au(d, s.id, s.v)
  <2>4. /\ rows \in [Ids -> {NoRow} \cup [v : Versions, folder : Folders]]
        /\ box \in [Ids -> Boxes \cup {""}]
    BY <2>2, TableFields
  <2>5. e = [d EXCEPT !.rows = rows, !.box = box, !.fts = fts]
    BY <2>1 DEF upsertMessage, Tables
  <2> HIDE DEF e, rows, box, fts
  <2>6. e \in Tables
    BY <2>3, <2>4, <2>5 DEF Tables, fts
  <2> QED BY <2>6 DEF e
<1>2. CASE s.do = "contact"
  <2>1. e = upsertContactIdentifier(d, s)
    BY <1>2, EffectIs
  <2>2. \E names, owner : e = [d EXCEPT !.names = names, !.owner = owner]
    <3> DEFINE addr == normalizeAddress(s.email)
               known == {o \in d.owner : o[1] = addr}
               c == (CHOOSE o \in known : TRUE)[2]
    <3>1. CASE addr = ""
      <4>1. e = d
        BY <2>1, <3>1 DEF upsertContactIdentifier
      <4>2. d = [d EXCEPT !.names = d.names, !.owner = d.owner]
        BY DEF Tables
      <4> HIDE DEF e
      <4> QED BY <4>1, <4>2
    <3>2. CASE addr # "" /\ known = {}
      <4>1. e = [d EXCEPT !.names = Append(@, s.name),
                          !.owner = @ \cup {<<addr, Len(d.names) + 1>>}]
        BY <2>1, <3>2 DEF upsertContactIdentifier
      <4> HIDE DEF e
      <4> QED BY <4>1
    <3>3. CASE addr # "" /\ known # {}
      <4> DEFINE names == [d.names EXCEPT ![c] = IF @ = "" THEN s.name ELSE @]
      <4>1. e = [d EXCEPT !.names = names]
        BY <2>1, <3>3 DEF upsertContactIdentifier
      <4> HIDE DEF e, names
      <4>2. e = [d EXCEPT !.names = names, !.owner = d.owner]
        BY <4>1 DEF Tables
      <4> QED BY <4>2
    <3> QED BY <3>1, <3>2, <3>3
  <2>3. e.names \in Seq(STRING) /\ e.owner \subseteq Emails \X Nat
    BY <1>2, ContactEffect
  <2> HIDE DEF e
  <2>4. PICK names, owner : e = [d EXCEPT !.names = names, !.owner = owner]
    BY <2>2
  <2>5. e.names = names /\ e.owner = owner
    BY <2>4 DEF Tables
  <2>6. e \in Tables
    BY <2>3, <2>4, <2>5 DEF Tables
  <2> QED BY <2>6 DEF e
<1>3. CASE s.do = "link"
  <2>1. e = [d EXCEPT !.links = @ \cup {<<s.id, s.url>>}]
    BY <1>3, EffectIs DEF upsertLink
  <2>2. <<s.id, s.url>> \in Ids \X Urls
    BY <1>3, StatementShape
  <2> HIDE DEF e
  <2>3. e \in Tables
    BY <2>1, <2>2 DEF Tables
  <2> QED BY <2>3 DEF e
<1>4. CASE s.do = "att"
  <2>1. e = [d EXCEPT !.atts = @ \cup {<<s.id, s.att>>}]
    BY <1>4, EffectIs DEF upsertAttachment
  <2>2. <<s.id, s.att>> \in Ids \X Atts
    BY <1>4, StatementShape
  <2> HIDE DEF e
  <2>3. e \in Tables
    BY <2>1, <2>2 DEF Tables
  <2> QED BY <2>3 DEF e
<1>5. CASE s.do \in {"unlink", "unlinkbox"}
  <2>1. e = WithoutLinks(d, Reached(d, s))
    BY <1>5, EffectRemoves
  <2> HIDE DEF e
  <2>2. e \in Tables
    BY <2>1 DEF Tables, WithoutLinks
  <2> QED BY <2>2 DEF e
<1>6. CASE s.do \in {"unatt", "unattbox"}
  <2>1. e = WithoutAtts(d, Reached(d, s))
    BY <1>6, EffectRemoves
  <2> HIDE DEF e
  <2>2. e \in Tables
    BY <2>1 DEF Tables, WithoutAtts
  <2> QED BY <2>2 DEF e
<1>7. CASE s.do \in {"unvec", "unvecbox"}
  <2>1. e = WithoutVecs(d, Reached(d, s))
    BY <1>7, EffectRemoves
  <2> HIDE DEF e
  <2>2. e \in Tables
    BY <2>1 DEF Tables, WithoutVecs
  <2> QED BY <2>2 DEF e
<1>8. CASE s.do \in {"unrow", "unrowbox"}
  <2> DEFINE ids == Reached(d, s)
             rows == [i \in Ids |-> IF i \in ids THEN NoRow ELSE d.rows[i]]
             box == [i \in Ids |-> IF i \in ids THEN "" ELSE d.box[i]]
             fts == messages_ad(d, ids)
  <2>1. e = WithoutRows(d, ids)
    BY <1>8, EffectRemoves
  <2>2. /\ rows \in [Ids -> {NoRow} \cup [v : Versions, folder : Folders]]
        /\ box \in [Ids -> Boxes \cup {""}]
        /\ fts \subseteq Ids \X Versions
    BY TableFields DEF messages_ad
  <2>3. e = [d EXCEPT !.rows = rows, !.box = box, !.fts = fts]
    BY <2>1 DEF WithoutRows, Tables
  <2> HIDE DEF e, rows, box, fts
  <2>4. e \in Tables
    BY <2>2, <2>3 DEF Tables
  <2> QED BY <2>4 DEF e
<1>9. CASE s.do \in {"cursor", "uncursor", "run", "unrunbox", "unbox"}
  <2>1. s.box \in Boxes
    BY <1>9, StatementShape
  <2>2. CASE s.do = "cursor"
    <3>1. e = [d EXCEPT !.cursor = @ \cup {s.box}]
      BY <2>2, EffectIs DEF upsertSyncState
    <3> HIDE DEF e
    <3>2. e \in Tables
      BY <2>1, <3>1 DEF Tables
    <3> QED BY <3>2 DEF e
  <2>3. CASE s.do = "uncursor"
    <3>1. e = [d EXCEPT !.cursor = @ \ {s.box}]
      BY <2>3, EffectIs DEF ResetSyncCursor
    <3> HIDE DEF e
    <3>2. e \in Tables
      BY <2>1, <3>1 DEF Tables
    <3> QED BY <3>2 DEF e
  <2>4. CASE s.do = "run"
    <3> DEFINE runs == d.runs \cup {s.box}
    <3>1. e = [d EXCEPT !.runs = runs]
      BY <2>4, EffectIs DEF RecordSyncRun
    <3>2. runs \subseteq Boxes
      BY <2>1, TableFields
    <3> HIDE DEF e, runs
    <3>3. e \in Tables
      BY <3>1, <3>2 DEF Tables
    <3> QED BY <3>3 DEF e
  <2>5. CASE s.do = "unrunbox"
    <3> DEFINE runs == d.runs \ {s.box}
    <3>1. e = [d EXCEPT !.runs = runs]
      BY <2>5, EffectIs
    <3>2. runs \subseteq Boxes
      BY TableFields
    <3> HIDE DEF e, runs
    <3>3. e \in Tables
      BY <3>1, <3>2 DEF Tables
    <3> QED BY <3>3 DEF e
  <2>6. CASE s.do = "unbox"
    <3> DEFINE boxes == d.boxes \ {s.box}
    <3>1. e = [d EXCEPT !.boxes = boxes]
      BY <2>6, EffectIs
    <3>2. boxes \subseteq Boxes
      BY TableFields
    <3> HIDE DEF e, boxes
    <3>3. e \in Tables
      BY <3>1, <3>2 DEF Tables
    <3> QED BY <3>3 DEF e
  <2> QED BY <1>9, <2>2, <2>3, <2>4, <2>5, <2>6
<1> QED BY <1>1, <1>2, <1>3, <1>4, <1>5, <1>6, <1>7, <1>8, <1>9, StatementShape DEF IdKinds, BoxKinds

\* What a statement does to one message.
LEMMA RowsNext ==
  ASSUME NEW d \in Tables, NEW s \in Statements, NEW i \in Ids
  PROVE  LET e == Effect(d, s)
         IN  /\ Is(s, "row", i) =>
                  HasRow(e, i) /\ e.rows[i] = [v |-> s.v, folder |-> s.folder]
             /\ s.do \in {"unrow", "unrowbox"} /\ Reaches(d, s, i) => ~HasRow(e, i)
             /\ ~Is(s, "row", i) /\ ~(s.do \in {"unrow", "unrowbox"} /\ Reaches(d, s, i)) =>
                  e.rows[i] = d.rows[i] /\ e.box[i] = d.box[i]
<1> DEFINE e == Effect(d, s)
<1>1. /\ d.rows \in [Ids -> {NoRow} \cup [v : Versions, folder : Folders]]
      /\ d.box \in [Ids -> Boxes \cup {""}]
  BY TableFields
<1>2. CASE s.do = "row"
  <2>1. /\ e.rows = [d.rows EXCEPT ![s.id] = [v |-> s.v, folder |-> s.folder]]
        /\ e.box = [d.box EXCEPT ![s.id] = IF HasRow(d, s.id) THEN @ ELSE s.box]
    BY <1>2, RowEffect
  <2>2. s.v \in Versions /\ s.id \in Ids /\ 0 \notin Versions
    BY <1>2, StatementShape DEF Versions
  <2> HIDE DEF e
  <2>3. s.id = i => e.rows[i] = [v |-> s.v, folder |-> s.folder] /\ HasRow(e, i)
    <3>1. ASSUME s.id = i PROVE e.rows[i] = [v |-> s.v, folder |-> s.folder]
      BY <1>1, <2>1, <3>1
    <3>2. [v |-> s.v, folder |-> s.folder] # NoRow
      BY <2>2 DEF NoRow
    <3> QED BY <3>1, <3>2 DEF HasRow
  <2>4. s.id # i => e.rows[i] = d.rows[i] /\ e.box[i] = d.box[i]
    BY <1>1, <2>1
  <2> QED BY <1>2, <2>3, <2>4 DEF Is, e
<1>3. CASE s.do \in {"unrow", "unrowbox"}
  <2>1. /\ e.rows = [j \in Ids |-> IF Reaches(d, s, j) THEN NoRow ELSE d.rows[j]]
        /\ e.box = [j \in Ids |-> IF Reaches(d, s, j) THEN "" ELSE d.box[j]]
    BY <1>3, UnrowEffect
  <2> HIDE DEF e
  <2>2. /\ Reaches(d, s, i) => ~HasRow(e, i)
        /\ ~Reaches(d, s, i) => e.rows[i] = d.rows[i] /\ e.box[i] = d.box[i]
    BY <2>1 DEF HasRow
  <2> QED BY <1>3, <2>2 DEF Is, e
<1>4. CASE s.do \notin RowKinds
  <2>1. e.rows = d.rows /\ e.box = d.box
    BY <1>4, EffectLeaves
  <2> HIDE DEF e
  <2> QED BY <1>4, <2>1 DEF Is, RowKinds, e
<1> QED BY <1>2, <1>3, <1>4 DEF RowKinds

LEMMA RowStays ==
  ASSUME NEW d \in Tables, NEW s \in Statements, NEW i \in Ids, ~Is(s, "row", i),
         ~(s.do \in {"unrow", "unrowbox"} /\ Reaches(d, s, i))
  PROVE  /\ Effect(d, s).rows[i] = d.rows[i] /\ Effect(d, s).box[i] = d.box[i]
         /\ HasRow(Effect(d, s), i) <=> HasRow(d, i)
  BY RowsNext DEF HasRow

LEMMA LinksNext ==
  ASSUME NEW d \in Tables, NEW s \in Statements
  PROVE  LET e == Effect(d, s)
         IN  /\ s.do = "link" => <<s.id, s.url>> \in e.links
             /\ \A l \in e.links : l \in d.links \/ (s.do = "link" /\ l[1] = s.id)
             /\ \A l \in d.links :
                  l \in e.links \/ (s.do \in {"unlink", "unlinkbox"} /\ Reaches(d, s, l[1]))
             /\ s.do \in {"unlink", "unlinkbox"} => \A l \in e.links : ~Reaches(d, s, l[1])
<1> DEFINE e == Effect(d, s)
<1>1. CASE s.do = "link"
  <2>1. e.links = d.links \cup {<<s.id, s.url>>} /\ <<s.id, s.url>>[1] = s.id
    BY <1>1, LinkEffect
  <2> HIDE DEF e
  <2> QED BY <1>1, <2>1 DEF e
<1>2. CASE s.do \in {"unlink", "unlinkbox"}
  <2>1. e.links = {x \in d.links : ~Reaches(d, s, x[1])}
    BY <1>2, LinkEffect
  <2> HIDE DEF e
  <2> QED BY <1>2, <2>1 DEF e
<1>3. CASE s.do \notin LinkKinds
  <2>1. e.links = d.links
    BY <1>3, EffectLeaves
  <2> HIDE DEF e
  <2> QED BY <1>3, <2>1 DEF LinkKinds, e
<1> QED BY <1>1, <1>2, <1>3 DEF LinkKinds

LEMMA AttsNext ==
  ASSUME NEW d \in Tables, NEW s \in Statements
  PROVE  LET e == Effect(d, s)
         IN  /\ s.do = "att" => <<s.id, s.att>> \in e.atts
             /\ \A a \in e.atts : a \in d.atts \/ (s.do = "att" /\ a[1] = s.id)
             /\ \A a \in d.atts :
                  a \in e.atts \/ (s.do \in {"unatt", "unattbox"} /\ Reaches(d, s, a[1]))
             /\ s.do \in {"unatt", "unattbox"} => \A a \in e.atts : ~Reaches(d, s, a[1])
<1> DEFINE e == Effect(d, s)
<1>1. CASE s.do = "att"
  <2>1. e.atts = d.atts \cup {<<s.id, s.att>>} /\ <<s.id, s.att>>[1] = s.id
    BY <1>1, AttEffect
  <2> HIDE DEF e
  <2> QED BY <1>1, <2>1 DEF e
<1>2. CASE s.do \in {"unatt", "unattbox"}
  <2>1. e.atts = {x \in d.atts : ~Reaches(d, s, x[1])}
    BY <1>2, AttEffect
  <2> HIDE DEF e
  <2> QED BY <1>2, <2>1 DEF e
<1>3. CASE s.do \notin AttKinds
  <2>1. e.atts = d.atts
    BY <1>3, EffectLeaves
  <2> HIDE DEF e
  <2> QED BY <1>3, <2>1 DEF AttKinds, e
<1> QED BY <1>1, <1>2, <1>3 DEF AttKinds

LEMMA TextsNext ==
  ASSUME NEW d \in Tables, NEW s \in Statements
  PROVE  LET e == Effect(d, s)
         IN  /\ e.texts \subseteq d.texts
             /\ \A a \in d.texts :
                  a \in e.texts \/ (s.do \in {"unatt", "unattbox"} /\ Reaches(d, s, a[1]))
             /\ s.do \in {"unatt", "unattbox"} => \A a \in e.texts : ~Reaches(d, s, a[1])
<1> DEFINE e == Effect(d, s)
<1>1. CASE s.do \notin {"unatt", "unattbox"}
  <2>1. e.texts = d.texts
    <3>1. CASE s.do = "att"
      BY <3>1, AttEffect
    <3>2. CASE s.do # "att"
      BY <1>1, <3>2, EffectLeaves DEF AttKinds
    <3> QED BY <3>1, <3>2
  <2> HIDE DEF e
  <2> QED BY <1>1, <2>1 DEF e
<1>2. CASE s.do \in {"unatt", "unattbox"}
  <2>1. e.texts = {x \in d.texts : ~Reaches(d, s, x[1])}
    BY <1>2, AttEffect
  <2> HIDE DEF e
  <2> QED BY <1>2, <2>1 DEF e
<1> QED BY <1>1, <1>2

LEMMA VecsNext ==
  ASSUME NEW d \in Tables, NEW s \in Statements
  PROVE  LET e == Effect(d, s)
         IN  /\ e.vecs \subseteq d.vecs
             /\ \A i \in d.vecs : i \in e.vecs \/ (s.do \in VecKinds /\ Reaches(d, s, i))
             /\ s.do \in VecKinds => \A i \in e.vecs : ~Reaches(d, s, i)
<1> DEFINE e == Effect(d, s)
<1>1. CASE s.do \in VecKinds
  <2>1. e.vecs = {x \in d.vecs : ~Reaches(d, s, x)}
    BY <1>1, VecEffect
  <2> HIDE DEF e
  <2> QED BY <1>1, <2>1 DEF e
<1>2. CASE s.do \notin VecKinds
  <2>1. e.vecs = d.vecs
    BY <1>2, EffectLeaves
  <2> HIDE DEF e
  <2> QED BY <1>2, <2>1 DEF e
<1> QED BY <1>1, <1>2

-----------------------------------------------------------------------------
(* One statement later the plan is still a plan.                           *)

\* A statement and what is left behind it.
Splits(todo, s, rest) ==
    /\ todo \in Seq(Statements) /\ todo # <<>>
    /\ s = todo[1] /\ rest = Tail(todo)

LEMMA SplitPlaces ==
  ASSUME NEW todo, NEW s, NEW rest, Splits(todo, s, rest)
  PROVE  /\ s \in Statements /\ rest \in Seq(Statements) /\ Head(todo) = s
         /\ Len(todo) \in Nat /\ Len(rest) \in Nat /\ Len(todo) = Len(rest) + 1
         /\ 1 \in 1..Len(todo) /\ todo[1] = s
         /\ \A k \in 1..Len(rest) : k + 1 \in 1..Len(todo) /\ rest[k] = todo[k + 1]
         /\ \A k \in 1..Len(rest) : rest[k] \in Statements
         /\ \A k \in 1..Len(todo) : k = 1 \/ (k - 1 \in 1..Len(rest) /\ rest[k - 1] = todo[k])
<1>1. /\ Head(todo) = todo[1] /\ 1 \in 1..Len(todo) /\ todo[1] \in Statements
      /\ rest \in Seq(Statements) /\ Len(rest) = Len(todo) - 1 /\ Len(todo) \in Nat
      /\ \A k \in 1..Len(rest) : k + 1 \in 1..Len(todo) /\ rest[k] = todo[k + 1]
      /\ \A k \in 1..Len(todo) : k = 1 \/ (k - 1 \in 1..Len(rest) /\ rest[k - 1] = todo[k])
  BY TailPlaces DEF Splits
<1>2. Len(rest) \in Nat
  BY <1>1, LenProperties
<1>3. \A k \in 1..Len(rest) : rest[k] \in Statements
  BY <1>1, ElementOfSeq
<1>4. s = todo[1]
  BY DEF Splits
<1>5. Len(todo) = Len(rest) + 1
  BY <1>1, <1>2
<1> QED BY <1>1, <1>2, <1>3, <1>4, <1>5

LEMMA BeforeTail ==
  ASSUME NEW todo, NEW s, NEW rest, Splits(todo, s, rest), NEW k \in 1..Len(rest), NEW kind, NEW i,
         Before(todo, k + 1, kind, i), ~Is(s, kind, i)
  PROVE  Before(rest, k, kind, i)
<1>1. PICK j \in 1..k : Is(todo[j], kind, i)
  BY SplitPlaces DEF Before
<1>2. j # 1 /\ j \in 1..Len(todo)
  BY <1>1, SplitPlaces
<1>3. j - 1 \in 1..(k - 1) /\ rest[j - 1] = todo[j]
  BY <1>2, SplitPlaces
<1> QED BY <1>1, <1>3 DEF Before

LEMMA AfterTail ==
  ASSUME NEW todo, NEW s, NEW rest, Splits(todo, s, rest), NEW k \in 0..Len(rest), NEW kind, NEW i,
         After(todo, k + 1, kind, i)
  PROVE  After(rest, k, kind, i)
<1>1. PICK j \in (k + 2)..Len(todo) : Is(todo[j], kind, i)
  BY SplitPlaces DEF After
<1>2. j - 1 \in (k + 1)..Len(rest) /\ rest[j - 1] = todo[j]
  BY <1>1, SplitPlaces
<1> QED BY <1>1, <1>2 DEF After

LEMMA FollowsTail ==
  ASSUME NEW todo, NEW s, NEW rest, Splits(todo, s, rest), NEW k \in 0..Len(rest), NEW i, NEW v,
         Follows(todo, k + 1, i, v)
  PROVE  Follows(rest, k, i, v)
<1>1. \A j \in (k + 1 + 1)..Len(todo) : j - 1 \in (k + 1)..Len(rest) /\ rest[j - 1] = todo[j]
  BY SplitPlaces
<1>2. \A u \in ToSet(MailAt(i, v).urls) : \E j \in (k + 1)..Len(rest) : AddsLink(rest[j], i, u)
  <2> TAKE u \in ToSet(MailAt(i, v).urls)
  <2>1. PICK j \in (k + 1 + 1)..Len(todo) : AddsLink(todo[j], i, u)
    BY DEF Follows
  <2> QED BY <1>1, <2>1
<1>3. \A a \in ToSet(MailAt(i, v).atts) : \E j \in (k + 1)..Len(rest) : AddsAtt(rest[j], i, a)
  <2> TAKE a \in ToSet(MailAt(i, v).atts)
  <2>1. PICK j \in (k + 1 + 1)..Len(todo) : AddsAtt(todo[j], i, a)
    BY DEF Follows
  <2> QED BY <1>1, <2>1
<1>4. \A p \in ToSet(contactsOf(MailAt(i, v))) : \E j \in (k + 1)..Len(rest) :
        Adds(rest[j], Canonical[p.email])
  <2> TAKE p \in ToSet(contactsOf(MailAt(i, v)))
  <2>1. PICK j \in (k + 1 + 1)..Len(todo) : Adds(todo[j], Canonical[p.email])
    BY DEF Follows
  <2> QED BY <1>1, <2>1
<1> QED BY <1>2, <1>3, <1>4 DEF Follows

LEMMA MailStep ==
  ASSUME NEW todo, NEW s, NEW rest, Splits(todo, s, rest), NEW d \in Tables, MailPlan(todo, d)
  PROVE  MailPlan(rest, Effect(d, s))
<1> DEFINE e == Effect(d, s)
<1>0. /\ s \in Statements /\ 1 \in 1..Len(todo) /\ todo[1] = s
      /\ \A k \in 1..Len(rest) : k + 1 \in 1..Len(todo) /\ rest[k] = todo[k + 1]
      /\ \A k \in 1..Len(rest) : rest[k] \in Statements
  BY SplitPlaces
<1>a. /\ \A k \in 1..Len(todo) : todo[k].do \notin BoxKinds
      /\ \A j, k \in 1..Len(todo) :
          todo[j].do = "unrow" /\ todo[k].do \in {"row", "link", "att"} => todo[j].id # todo[k].id
      /\ \A k \in 1..Len(todo) : todo[k].do = "row" =>
          /\ Honest(todo[k].id, todo[k].v, todo[k].folder)
          /\ Follows(todo, k, todo[k].id, todo[k].v)
      /\ \A k \in 1..Len(todo) : todo[k].do \in {"link", "att"} =>
          HasRow(d, todo[k].id) \/ Before(todo, k, "row", todo[k].id)
      /\ \A k \in 1..Len(todo) : todo[k].do \in {"unlink", "unatt", "unvec"} =>
          After(todo, k, "unrow", todo[k].id)
      /\ \A k \in 1..Len(todo) : todo[k].do = "unrow" =>
          /\ (\A l \in d.links : l[1] # todo[k].id) \/ Before(todo, k, "unlink", todo[k].id)
          /\ (\A a \in d.atts : a[1] # todo[k].id) \/ Before(todo, k, "unatt", todo[k].id)
          /\ todo[k].id \notin d.vecs \/ Before(todo, k, "unvec", todo[k].id)
  BY DEF MailPlan
<1>b. s.do \notin BoxKinds
  BY <1>0, <1>a
<1>1. \A k \in 1..Len(rest) : rest[k].do \notin BoxKinds
  BY <1>0, <1>a
<1>2. \A j, k \in 1..Len(rest) :
        rest[j].do = "unrow" /\ rest[k].do \in {"row", "link", "att"} => rest[j].id # rest[k].id
  BY <1>0, <1>a, SMTT(30)
<1>3. ASSUME NEW k \in 1..Len(rest), rest[k].do = "row"
      PROVE  /\ Honest(rest[k].id, rest[k].v, rest[k].folder)
             /\ Follows(rest, k, rest[k].id, rest[k].v)
  <2>1. k + 1 \in 1..Len(todo) /\ rest[k] = todo[k + 1]
    BY <1>0
  <2>2. /\ Honest(rest[k].id, rest[k].v, rest[k].folder)
        /\ Follows(todo, k + 1, rest[k].id, rest[k].v)
    BY <1>3, <1>a, <2>1
  <2>3. k \in 0..Len(rest)
    BY SplitPlaces
  <2> QED BY <2>2, <2>3, FollowsTail
<1>4. ASSUME NEW k \in 1..Len(rest), rest[k].do \in {"link", "att"}
      PROVE  HasRow(e, rest[k].id) \/ Before(rest, k, "row", rest[k].id)
  <2> DEFINE i == rest[k].id
  <2>1. k + 1 \in 1..Len(todo) /\ rest[k] = todo[k + 1] /\ i \in Ids
    BY <1>0, <1>4, StatementShape
  <2>2. CASE Is(s, "row", i)
    BY <1>0, <2>1, <2>2, RowsNext
  <2>3. CASE HasRow(d, i) /\ ~Is(s, "row", i)
    <3>1. s.do = "unrow" => s.id # i
      BY <1>0, <1>4, <1>a, <2>1
    <3>2. ~(s.do \in {"unrow", "unrowbox"} /\ Reaches(d, s, i))
      BY <1>b, <3>1 DEF Reaches, BoxKinds
    <3> QED BY <1>0, <2>1, <2>3, <3>2, RowStays
  <2>4. CASE Before(todo, k + 1, "row", i) /\ ~Is(s, "row", i)
    BY <2>4, BeforeTail
  <2> QED BY <1>4, <1>a, <2>1, <2>2, <2>3, <2>4
<1>5. ASSUME NEW k \in 1..Len(rest), rest[k].do \in {"unlink", "unatt", "unvec"}
      PROVE  After(rest, k, "unrow", rest[k].id)
  <2>1. k + 1 \in 1..Len(todo) /\ rest[k] = todo[k + 1] /\ k \in 0..Len(rest)
    BY SplitPlaces
  <2>2. After(todo, k + 1, "unrow", rest[k].id)
    BY <1>5, <1>a, <2>1
  <2> QED BY <2>1, <2>2, AfterTail
<1>6. ASSUME NEW k \in 1..Len(rest), rest[k].do = "unrow"
      PROVE  /\ (\A l \in e.links : l[1] # rest[k].id) \/ Before(rest, k, "unlink", rest[k].id)
             /\ (\A a \in e.atts : a[1] # rest[k].id) \/ Before(rest, k, "unatt", rest[k].id)
             /\ rest[k].id \notin e.vecs \/ Before(rest, k, "unvec", rest[k].id)
  <2> DEFINE i == rest[k].id
  <2>1. k + 1 \in 1..Len(todo) /\ rest[k] = todo[k + 1]
    BY <1>0
  <2>2. /\ (\A l \in d.links : l[1] # i) \/ Before(todo, k + 1, "unlink", i)
        /\ (\A a \in d.atts : a[1] # i) \/ Before(todo, k + 1, "unatt", i)
        /\ i \notin d.vecs \/ Before(todo, k + 1, "unvec", i)
    BY <1>6, <1>a, <2>1
  <2>3. s.do \in {"link", "att"} => s.id # i
    BY <1>0, <1>6, <1>a, <2>1
  <2>4. (\A l \in e.links : l[1] # i) \/ Before(rest, k, "unlink", i)
    <3>1. CASE Is(s, "unlink", i)
      <4>1. s.do \in {"unlink", "unlinkbox"} /\ Reaches(d, s, i)
        BY <3>1 DEF Is, Reaches, IdKinds
      <4> QED BY <1>0, <4>1, LinksNext
    <3>2. CASE ~Is(s, "unlink", i) /\ Before(todo, k + 1, "unlink", i)
      BY <3>2, BeforeTail
    <3>3. CASE \A l \in d.links : l[1] # i
      <4>1. ASSUME NEW l \in e.links PROVE l[1] # i
        <5>1. l \in d.links \/ (s.do = "link" /\ l[1] = s.id)
          BY <1>0, LinksNext
        <5> QED BY <2>3, <3>3, <5>1
      <4> QED BY <4>1
    <3> QED BY <2>2, <3>1, <3>2, <3>3
  <2>5. (\A a \in e.atts : a[1] # i) \/ Before(rest, k, "unatt", i)
    <3>1. CASE Is(s, "unatt", i)
      <4>1. s.do \in {"unatt", "unattbox"} /\ Reaches(d, s, i)
        BY <3>1 DEF Is, Reaches, IdKinds
      <4> QED BY <1>0, <4>1, AttsNext
    <3>2. CASE ~Is(s, "unatt", i) /\ Before(todo, k + 1, "unatt", i)
      BY <3>2, BeforeTail
    <3>3. CASE \A a \in d.atts : a[1] # i
      <4>1. ASSUME NEW a \in e.atts PROVE a[1] # i
        <5>1. a \in d.atts \/ (s.do = "att" /\ a[1] = s.id)
          BY <1>0, AttsNext
        <5> QED BY <2>3, <3>3, <5>1
      <4> QED BY <4>1
    <3> QED BY <2>2, <3>1, <3>2, <3>3
  <2>6. i \notin e.vecs \/ Before(rest, k, "unvec", i)
    <3>1. CASE Is(s, "unvec", i)
      <4>1. s.do \in VecKinds /\ Reaches(d, s, i)
        BY <3>1 DEF Is, Reaches, IdKinds, VecKinds
      <4> QED BY <1>0, <4>1, VecsNext
    <3>2. CASE ~Is(s, "unvec", i) /\ Before(todo, k + 1, "unvec", i)
      BY <3>2, BeforeTail
    <3>3. CASE i \notin d.vecs
      BY <1>0, <3>3, VecsNext
    <3> QED BY <2>2, <3>1, <3>2, <3>3
  <2> QED BY <2>4, <2>5, <2>6
<1> HIDE DEF e
<1>7. MailPlan(rest, e)
  BY <1>1, <1>2, <1>3, <1>4, <1>5, <1>6 DEF MailPlan
<1> QED BY <1>7 DEF e

\* What the plan promises of the statement that is next: what goes with a row has
\* gone, what goes is followed by its row, what hangs off a row finds it, a row
\* is followed by what hangs off it, and what was to go still is, or is gone.
Ready(s, rest, d, e) ==
    /\ s.do \in {"unrow", "unrowbox"} => \A i \in Ids : Reaches(d, s, i) =>
        (\A l \in d.links : l[1] # i) /\ (\A a \in d.atts : a[1] # i) /\ i \notin d.vecs
    /\ s.do \in {"unlink", "unatt", "unvec", "unlinkbox", "unattbox", "unvecbox"} =>
        \A i \in Ids : Reaches(d, s, i) => Doomed(rest, e, i)
    /\ s.do \in {"link", "att"} => HasRow(d, s.id)
    /\ s.do = "row" => Honest(s.id, s.v, s.folder) /\ Follows(rest, 0, s.id, s.v)

StillGoing(todo, rest, d, e) ==
    \A i \in Ids : Doomed(todo, d, i) => Doomed(rest, e, i) \/ Gone(rest, e, i)

LEMMA MailReady ==
  ASSUME NEW todo, NEW s, NEW rest, Splits(todo, s, rest), NEW d \in Tables, MailPlan(todo, d)
  PROVE  Ready(s, rest, d, Effect(d, s))
<1> DEFINE e == Effect(d, s)
<1>0. s \in Statements /\ 1 \in 1..Len(todo) /\ todo[1] = s /\ Len(rest) \in Nat
  BY SplitPlaces
<1>1. /\ s.do \notin BoxKinds
      /\ s.do = "row" => Honest(s.id, s.v, s.folder) /\ Follows(todo, 1, s.id, s.v)
      /\ s.do \in {"link", "att"} => HasRow(d, s.id) \/ Before(todo, 1, "row", s.id)
      /\ s.do \in {"unlink", "unatt", "unvec"} => After(todo, 1, "unrow", s.id)
      /\ s.do = "unrow" =>
          /\ (\A l \in d.links : l[1] # s.id) \/ Before(todo, 1, "unlink", s.id)
          /\ (\A a \in d.atts : a[1] # s.id) \/ Before(todo, 1, "unatt", s.id)
          /\ s.id \notin d.vecs \/ Before(todo, 1, "unvec", s.id)
  BY <1>0 DEF MailPlan
<1>2. \A kind, i : ~Before(todo, 1, kind, i)
  BY DEF Before
<1>3. 0 \in 0..Len(rest) /\ 0 + 1 = 1
  BY <1>0
<1>4. s.do \in {"unrow", "unrowbox"} => \A i \in Ids : Reaches(d, s, i) =>
        (\A l \in d.links : l[1] # i) /\ (\A a \in d.atts : a[1] # i) /\ i \notin d.vecs
  BY <1>1, <1>2 DEF Reaches, BoxKinds, IdKinds
<1>5. ASSUME s.do \in {"unlink", "unatt", "unvec", "unlinkbox", "unattbox", "unvecbox"},
             NEW i \in Ids, Reaches(d, s, i)
      PROVE  Doomed(rest, e, i)
  <2>1. s.do \in {"unlink", "unatt", "unvec"} /\ s.id = i
    BY <1>1, <1>5 DEF Reaches, BoxKinds
  <2>2. After(todo, 0 + 1, "unrow", i)
    BY <1>1, <1>3, <2>1
  <2>3. After(rest, 0, "unrow", i)
    BY <1>3, <2>2, AfterTail
  <2>4. PICK k \in 1..Len(rest) : rest[k].do = "unrow" /\ rest[k].id = i
    BY <1>3, <2>3 DEF After, Is
  <2> QED BY <2>4 DEF Doomed, Reaches, IdKinds
<1>6. s.do \in {"link", "att"} => HasRow(d, s.id)
  BY <1>1, <1>2
<1>7. ASSUME s.do = "row" PROVE Honest(s.id, s.v, s.folder) /\ Follows(rest, 0, s.id, s.v)
  <2>1. Follows(todo, 0 + 1, s.id, s.v)
    BY <1>1, <1>3, <1>7
  <2> QED BY <1>1, <1>3, <1>7, <2>1, FollowsTail
<1> HIDE DEF e
<1>8. Ready(s, rest, d, e)
  BY <1>4, <1>5, <1>6, <1>7 DEF Ready
<1> QED BY <1>8 DEF e

LEMMA MailGoing ==
  ASSUME NEW todo, NEW s, NEW rest, Splits(todo, s, rest), NEW d \in Tables, MailPlan(todo, d)
  PROVE  StillGoing(todo, rest, d, Effect(d, s))
<1> DEFINE e == Effect(d, s)
<1>0. /\ s \in Statements /\ 1 \in 1..Len(todo) /\ todo[1] = s
      /\ \A k \in 1..Len(rest) : k + 1 \in 1..Len(todo) /\ rest[k] = todo[k + 1]
      /\ \A k \in 1..Len(todo) : k = 1 \/ (k - 1 \in 1..Len(rest) /\ rest[k - 1] = todo[k])
  BY SplitPlaces
<1> SUFFICES ASSUME NEW i \in Ids, Doomed(todo, d, i)
             PROVE  Doomed(rest, e, i) \/ Gone(rest, e, i)
  BY DEF StillGoing
<1>1. PICK k \in 1..Len(todo) : todo[k].do \in {"unrow", "unrowbox"} /\ Reaches(d, todo[k], i)
  BY DEF Doomed
<1>2. /\ \A j \in 1..Len(todo) : todo[j].do \notin BoxKinds
      /\ \A j, n \in 1..Len(todo) :
          todo[j].do = "unrow" /\ todo[n].do \in {"row", "link", "att"} => todo[j].id # todo[n].id
  BY DEF MailPlan
<1>3. todo[k].do = "unrow" /\ todo[k].id = i
  BY <1>1, <1>2 DEF Reaches, BoxKinds
<1>4. CASE k = 1
  <2>1. ~HasRow(e, i)
    BY <1>0, <1>1, <1>4, RowsNext
  <2>2. ASSUME NEW n \in 1..Len(rest) PROVE ~Is(rest[n], "row", i)
    <3>1. n + 1 \in 1..Len(todo) /\ rest[n] = todo[n + 1]
      BY <1>0
    <3>2. todo[n + 1].do = "row" => todo[n + 1].id # i
      BY <1>2, <1>3, <3>1
    <3> QED BY <3>1, <3>2 DEF Is
  <2> QED BY <2>1, <2>2 DEF Gone
<1>5. CASE k # 1
  <2>1. k - 1 \in 1..Len(rest) /\ rest[k - 1] = todo[k]
    BY <1>0, <1>5
  <2>2. Reaches(e, rest[k - 1], i)
    BY <1>3, <2>1 DEF Reaches, IdKinds
  <2> QED BY <1>3, <2>1, <2>2 DEF Doomed
<1> QED BY <1>4, <1>5

\* The statements of DeleteMailbox.
LEMMA DeletePlaces ==
  ASSUME NEW b \in Boxes
  PROVE  LET q == DeleteMailbox(b)
         IN  /\ q[1].do = "unlinkbox" /\ q[2].do = "unattbox" /\ q[3].do = "unvecbox"
             /\ q[4].do = "unrowbox" /\ q[5].do = "unrunbox" /\ q[6].do = "uncursor"
             /\ q[7].do = "unbox"
             /\ \A k \in 1..7 : q[k].box = b
             /\ q \in Seq(Statements) /\ Len(q) = 7
<1> DEFINE q == DeleteMailbox(b)
<1>1. /\ q[1] = [do |-> "unlinkbox", box |-> b] /\ q[2] = [do |-> "unattbox", box |-> b]
      /\ q[3] = [do |-> "unvecbox", box |-> b] /\ q[4] = [do |-> "unrowbox", box |-> b]
      /\ q[5] = [do |-> "unrunbox", box |-> b] /\ q[6] = [do |-> "uncursor", box |-> b]
      /\ q[7] = [do |-> "unbox", box |-> b]
      /\ Len(q) = 7
  BY DEF DeleteMailbox
<1>2. \A kind \in BoxKinds \cup {"cursor", "uncursor", "run", "unrunbox", "unbox"} :
        [do |-> kind, box |-> b] \in Statements
  BY DEF Statements
<1>3. /\ [do |-> "unlinkbox", box |-> b] \in Statements
      /\ [do |-> "unattbox", box |-> b] \in Statements
      /\ [do |-> "unvecbox", box |-> b] \in Statements
      /\ [do |-> "unrowbox", box |-> b] \in Statements
      /\ [do |-> "unrunbox", box |-> b] \in Statements
      /\ [do |-> "uncursor", box |-> b] \in Statements
      /\ [do |-> "unbox", box |-> b] \in Statements
  BY <1>2 DEF BoxKinds
<1>4. q \in Seq(Statements)
  BY <1>3 DEF DeleteMailbox
<1> HIDE DEF q
<1>5. \A k \in 1..7 : q[k].box = b
  <2>1. \A k \in 1..7 : k = 1 \/ k = 2 \/ k = 3 \/ k = 4 \/ k = 5 \/ k = 6 \/ k = 7
    OBVIOUS
  <2> QED BY <1>1, <2>1
<1>6. /\ q[1].do = "unlinkbox" /\ q[2].do = "unattbox" /\ q[3].do = "unvecbox"
      /\ q[4].do = "unrowbox" /\ q[5].do = "unrunbox" /\ q[6].do = "uncursor"
      /\ q[7].do = "unbox"
  BY <1>1
<1> QED BY <1>1, <1>4, <1>5, <1>6 DEF q

LEMMA BoxStep ==
  ASSUME NEW todo, NEW s, NEW rest, Splits(todo, s, rest), NEW d \in Tables, BoxPlan(todo, d)
  PROVE  LET e == Effect(d, s)
         IN  BoxPlan(rest, e) /\ Ready(s, rest, d, e) /\ StillGoing(todo, rest, d, e)
<1> DEFINE e == Effect(d, s)
<1>0. /\ s \in Statements /\ 1 \in 1..Len(todo) /\ todo[1] = s
      /\ Len(todo) \in Nat /\ Len(rest) \in Nat /\ Len(todo) = Len(rest) + 1
      /\ \A k \in 1..Len(rest) : k + 1 \in 1..Len(todo) /\ rest[k] = todo[k + 1]
      /\ \A k \in 1..Len(todo) : k = 1 \/ (k - 1 \in 1..Len(rest) /\ rest[k - 1] = todo[k])
  BY SplitPlaces
<1>1. PICK b \in Boxes, n \in 0..7 :
        /\ Len(todo) = 7 - n
        /\ \A k \in 1..Len(todo) : todo[k] = DeleteMailbox(b)[n + k]
        /\ n \in 1..3 => \A l \in d.links : l[1] \notin IdsOf(d, b)
        /\ n \in 2..3 => \A a \in d.atts : a[1] \notin IdsOf(d, b)
        /\ n = 3 => d.vecs \cap IdsOf(d, b) = {}
  BY DEF BoxPlan
<1> DEFINE q == DeleteMailbox(b)
<1>2. /\ q[1].do = "unlinkbox" /\ q[2].do = "unattbox" /\ q[3].do = "unvecbox"
      /\ q[4].do = "unrowbox" /\ q[5].do = "unrunbox" /\ q[6].do = "uncursor"
      /\ q[7].do = "unbox"
      /\ \A k \in 1..7 : q[k].box = b
  BY DeletePlaces
<1>3. n \in 0..6 /\ n + 1 \in 1..7 /\ s = q[n + 1] /\ Len(rest) = 7 - (n + 1) /\ s.box = b
  BY <1>0, <1>1, <1>2
<1>4. \A k \in 1..Len(rest) : rest[k] = q[n + 1 + k] /\ n + 1 + k \in 1..7
  BY <1>0, <1>1
<1> HIDE DEF q
<1>5. /\ n = 0 => s.do = "unlinkbox"
      /\ n = 1 => s.do = "unattbox"
      /\ n = 2 => s.do = "unvecbox"
      /\ n = 3 => s.do = "unrowbox"
      /\ n \in 4..6 => s.do \in {"unrunbox", "uncursor", "unbox"}
  BY <1>2, <1>3
<1>6. \A i \in Ids : s.do \in BoxKinds => (Reaches(d, s, i) <=> i \in IdsOf(d, b))
  BY <1>3 DEF Reaches, IdsOf, HasRow, BoxKinds, IdKinds
<1>7. n # 3 => e.rows = d.rows /\ e.box = d.box
  BY <1>0, <1>3, <1>5, EffectLeaves, SMTT(30) DEF RowKinds
<1>8. n # 3 => IdsOf(e, b) = IdsOf(d, b)
  BY <1>7 DEF IdsOf
<1>9. \A l \in d.links : l[1] \in Ids
  BY TableFields
<1>10. \A a \in d.atts : a[1] \in Ids
  BY TableFields
<1>11. BoxPlan(rest, e)
  <2>1. n + 1 \in 1..3 => \A l \in e.links : l[1] \notin IdsOf(e, b)
    <3>1. CASE n = 0
      <4>1. e.links \subseteq d.links /\ \A l \in e.links : ~Reaches(d, s, l[1])
        BY <1>0, <1>5, <3>1, LinksNext
      <4> QED BY <1>5, <1>6, <1>8, <1>9, <3>1, <4>1 DEF BoxKinds
    <3>2. CASE n \in 1..2
      <4>1. e.links = d.links
        BY <1>0, <1>5, <3>2, EffectLeaves DEF LinkKinds
      <4> QED BY <1>1, <1>8, <3>2, <4>1
    <3> QED BY <1>3, <3>1, <3>2
  <2>2. n + 1 \in 2..3 => \A a \in e.atts : a[1] \notin IdsOf(e, b)
    <3>1. CASE n = 1
      <4>1. e.atts \subseteq d.atts /\ \A a \in e.atts : ~Reaches(d, s, a[1])
        BY <1>0, <1>5, <3>1, AttsNext
      <4> QED BY <1>5, <1>6, <1>8, <1>10, <3>1, <4>1 DEF BoxKinds
    <3>2. CASE n = 2
      <4>1. e.atts = d.atts
        BY <1>0, <1>5, <3>2, EffectLeaves DEF AttKinds
      <4> QED BY <1>1, <1>8, <3>2, <4>1
    <3> QED BY <1>3, <3>1, <3>2
  <2>3. n + 1 = 3 => e.vecs \cap IdsOf(e, b) = {}
    <3>1. CASE n = 2
      <4>1. \A i \in e.vecs : ~Reaches(d, s, i)
        BY <1>0, <1>5, <3>1, VecsNext DEF VecKinds
      <4>2. IdsOf(e, b) \subseteq Ids /\ s.do \in BoxKinds
        BY <1>5, <3>1 DEF IdsOf, BoxKinds
      <4> QED BY <1>6, <1>8, <3>1, <4>1, <4>2
    <3> QED BY <1>3, <3>1
  <2>4. n + 1 \in 0..7
    BY <1>3
  <2> HIDE DEF e
  <2> QED BY <1>3, <1>4, <2>1, <2>2, <2>3, <2>4, SMTT(30) DEF BoxPlan, q
<1>12. n \in 0..2 => 3 - n \in 1..Len(rest) /\ rest[3 - n].do = "unrowbox" /\ rest[3 - n].box = b
  BY <1>2, <1>3, <1>4
<1>13. \A i \in IdsOf(d, b) : n \in 0..2 => Doomed(rest, e, i)
  <2> SUFFICES ASSUME NEW i \in IdsOf(d, b), n \in 0..2 PROVE Doomed(rest, e, i)
    OBVIOUS
  <2>1. HasRow(e, i) /\ e.box[i] = b
    BY <1>7 DEF IdsOf, HasRow
  <2>2. Reaches(e, rest[3 - n], i)
    BY <1>12, <2>1 DEF Reaches, BoxKinds
  <2> QED BY <1>12, <2>2 DEF Doomed
<1>14. Ready(s, rest, d, e)
  <2>1. s.do \in {"unrow", "unrowbox"} => \A i \in Ids : Reaches(d, s, i) =>
          (\A l \in d.links : l[1] # i) /\ (\A a \in d.atts : a[1] # i) /\ i \notin d.vecs
    <3>1. s.do \in {"unrow", "unrowbox"} => n = 3
      BY <1>3, <1>5
    <3>2. n = 3 => s.do \in BoxKinds
      BY <1>5 DEF BoxKinds
    <3>3. n = 3 => n \in 1..3 /\ n \in 2..3
      OBVIOUS
    <3> QED BY <1>1, <1>6, <3>1, <3>2, <3>3
  <2>2. s.do \in {"unlink", "unatt", "unvec", "unlinkbox", "unattbox", "unvecbox"} =>
          \A i \in Ids : Reaches(d, s, i) => Doomed(rest, e, i)
    <3>1. s.do \in {"unlink", "unatt", "unvec", "unlinkbox", "unattbox", "unvecbox"} =>
            n \in 0..2 /\ s.do \in BoxKinds
      BY <1>3, <1>5 DEF BoxKinds
    <3> HIDE DEF e
    <3> QED BY <1>6, <1>13, <3>1
  <2>3. s.do \notin {"link", "att", "row"}
    BY <1>3, <1>5
  <2> HIDE DEF e
  <2> QED BY <2>1, <2>2, <2>3 DEF Ready
<1>15. StillGoing(todo, rest, d, e)
  <2> SUFFICES ASSUME NEW i \in Ids, Doomed(todo, d, i)
               PROVE  Doomed(rest, e, i) \/ Gone(rest, e, i)
    BY DEF StillGoing
  <2>1. PICK k \in 1..Len(todo) : todo[k].do \in {"unrow", "unrowbox"} /\ Reaches(d, todo[k], i)
    BY DEF Doomed
  <2>2. todo[k] = q[n + k] /\ n + k \in 1..7
    BY <1>1 DEF q
  <2>3. n + k = 4 /\ todo[k].box = b /\ todo[k].do = "unrowbox"
    BY <1>2, <2>1, <2>2
  <2>4. i \in IdsOf(d, b)
    BY <2>1, <2>3 DEF Reaches, IdKinds, IdsOf, HasRow
  <2>5. CASE n = 3
    <3>1. s.do = "unrowbox" /\ Reaches(d, s, i)
      BY <1>5, <1>6, <2>4, <2>5 DEF BoxKinds
    <3>2. ~HasRow(e, i)
      BY <1>0, <3>1, RowsNext
    <3>3. \A j \in 1..7 : q[j].do # "row"
      <4>1. \A j \in 1..7 : j = 1 \/ j = 2 \/ j = 3 \/ j = 4 \/ j = 5 \/ j = 6 \/ j = 7
        OBVIOUS
      <4> QED BY <1>2, <4>1
    <3>4. \A j \in 1..Len(rest) : rest[j].do # "row"
      BY <1>4, <3>3 DEF q
    <3> QED BY <3>2, <3>4 DEF Gone, Is
  <2>6. CASE n # 3
    <3>1. n \in 0..2
      BY <1>3, <2>3, <2>6
    <3> QED BY <1>13, <2>4, <3>1
  <2> QED BY <2>5, <2>6
<1> HIDE DEF e
<1>16. BoxPlan(rest, e) /\ Ready(s, rest, d, e) /\ StillGoing(todo, rest, d, e)
  BY <1>11, <1>14, <1>15
<1> QED BY <1>16 DEF e

-----------------------------------------------------------------------------
(* One statement later the tables lack no more than what is still to run.  *)

LEMMA UnorphanedNext ==
  ASSUME NEW d \in Tables, NEW s \in Statements, NEW rest, Ready(s, rest, d, Effect(d, s)),
         Unorphaned(d)
  PROVE  Unorphaned(Effect(d, s))
<1> DEFINE e == Effect(d, s)
<1>1. /\ \A l \in d.links : l[1] \in Ids /\ HasRow(d, l[1])
      /\ \A a \in d.atts : a[1] \in Ids /\ HasRow(d, a[1])
      /\ \A i \in d.vecs : i \in Ids /\ HasRow(d, i)
      /\ d.texts \subseteq d.atts
  BY TableFields DEF Unorphaned
<1>2. s.do \in {"unrow", "unrowbox"} => \A i \in Ids : Reaches(d, s, i) =>
        (\A l \in d.links : l[1] # i) /\ (\A a \in d.atts : a[1] # i) /\ i \notin d.vecs
  BY DEF Ready
<1>3. s.do \in {"link", "att"} => s.id \in Ids /\ HasRow(d, s.id)
  BY StatementShape DEF Ready
<1>4. ASSUME NEW i \in Ids, HasRow(d, i), ~(s.do \in {"unrow", "unrowbox"} /\ Reaches(d, s, i))
      PROVE  HasRow(e, i)
  <2>1. CASE Is(s, "row", i)
    BY <2>1, RowsNext
  <2>2. CASE ~Is(s, "row", i)
    BY <1>4, <2>2, RowStays
  <2> QED BY <2>1, <2>2
<1>5. ASSUME NEW l \in e.links PROVE HasRow(e, l[1])
  <2>1. l \in d.links \/ (s.do = "link" /\ l[1] = s.id)
    BY LinksNext
  <2> HIDE DEF e
  <2>2. CASE l \in d.links
    BY <1>1, <1>2, <1>4, <2>2
  <2>3. CASE s.do = "link" /\ l[1] = s.id
    BY <1>3, <1>4, <2>3
  <2> QED BY <2>1, <2>2, <2>3
<1>6. ASSUME NEW a \in e.atts PROVE HasRow(e, a[1])
  <2>1. a \in d.atts \/ (s.do = "att" /\ a[1] = s.id)
    BY AttsNext
  <2> HIDE DEF e
  <2>2. CASE a \in d.atts
    BY <1>1, <1>2, <1>4, <2>2
  <2>3. CASE s.do = "att" /\ a[1] = s.id
    BY <1>3, <1>4, <2>3
  <2> QED BY <2>1, <2>2, <2>3
<1>7. ASSUME NEW i \in e.vecs PROVE HasRow(e, i)
  <2>1. i \in d.vecs
    BY VecsNext
  <2> HIDE DEF e
  <2> QED BY <1>1, <1>2, <1>4, <2>1
<1>8. e.texts \subseteq e.atts
  <2> SUFFICES ASSUME NEW a \in e.texts PROVE a \in e.atts
    OBVIOUS
  <2>1. a \in d.texts /\ a \in d.atts
    BY <1>1, TextsNext
  <2>2. ~(s.do \in {"unatt", "unattbox"} /\ Reaches(d, s, a[1]))
    BY TextsNext
  <2>3. a \in e.atts \/ (s.do \in {"unatt", "unattbox"} /\ Reaches(d, s, a[1]))
    BY <2>1, AttsNext
  <2> QED BY <2>2, <2>3
<1> HIDE DEF e
<1>9. Unorphaned(e)
  BY <1>5, <1>6, <1>7, <1>8 DEF Unorphaned
<1> QED BY <1>9 DEF e

LEMMA IndexedNext ==
  ASSUME NEW d \in Tables, NEW s \in Statements, Indexed(d)
  PROVE  Indexed(Effect(d, s))
<1> DEFINE e == Effect(d, s)
<1>1. \A x : x \in d.fts <=> \E i \in Ids : HasRow(d, i) /\ x = <<i, d.rows[i].v>>
  BY DEF Indexed
<1>2. CASE s.do = "row"
  <2>1. e.fts = {x \in d.fts : x[1] # s.id} \cup {<<s.id, s.v>>} /\ s.id \in Ids
    BY <1>2, RowEffect, StatementShape
  <2>2. HasRow(e, s.id) /\ e.rows[s.id].v = s.v
    <3>1. HasRow(e, s.id) /\ e.rows[s.id] = [v |-> s.v, folder |-> s.folder]
      BY <1>2, <2>1, RowsNext DEF Is
    <3> QED BY <3>1
  <2>3. ASSUME NEW i \in Ids, i # s.id
        PROVE  e.rows[i] = d.rows[i] /\ (HasRow(e, i) <=> HasRow(d, i))
    BY <1>2, <2>3, RowStays DEF Is
  <2> HIDE DEF e
  <2>4. ASSUME NEW x \in e.fts PROVE \E i \in Ids : HasRow(e, i) /\ x = <<i, e.rows[i].v>>
    <3>1. CASE x = <<s.id, s.v>>
      BY <2>1, <2>2, <3>1
    <3>2. CASE x \in d.fts /\ x[1] # s.id
      <4>1. PICK i \in Ids : HasRow(d, i) /\ x = <<i, d.rows[i].v>>
        BY <1>1, <3>2
      <4>2. i # s.id
        BY <3>2, <4>1
      <4> QED BY <2>3, <4>1, <4>2
    <3> QED BY <2>1, <2>4, <3>1, <3>2
  <2>5. ASSUME NEW i \in Ids, HasRow(e, i) PROVE <<i, e.rows[i].v>> \in e.fts
    <3>1. CASE i = s.id
      BY <2>1, <2>2, <3>1
    <3>2. CASE i # s.id
      <4>1. <<i, d.rows[i].v>> \in d.fts /\ <<i, d.rows[i].v>>[1] = i
        BY <1>1, <2>3, <2>5, <3>2
      <4> QED BY <2>1, <2>3, <3>2, <4>1
    <3> QED BY <3>1, <3>2
  <2>6. Indexed(e)
    BY <2>4, <2>5 DEF Indexed
  <2> QED BY <2>6 DEF e
<1>3. CASE s.do \in {"unrow", "unrowbox"}
  <2>1. e.fts = {x \in d.fts : ~Reaches(d, s, x[1])}
    BY <1>3, UnrowEffect
  <2>2. ASSUME NEW i \in Ids
        PROVE  /\ Reaches(d, s, i) => ~HasRow(e, i)
               /\ ~Reaches(d, s, i) => e.rows[i] = d.rows[i] /\ (HasRow(e, i) <=> HasRow(d, i))
    <3>1. ~Is(s, "row", i)
      BY <1>3 DEF Is
    <3>2. Reaches(d, s, i) => ~HasRow(e, i)
      BY <1>3, RowsNext
    <3> QED BY <3>1, <3>2, RowStays
  <2> HIDE DEF e
  <2>3. ASSUME NEW x \in e.fts PROVE \E i \in Ids : HasRow(e, i) /\ x = <<i, e.rows[i].v>>
    <3>1. PICK i \in Ids : HasRow(d, i) /\ x = <<i, d.rows[i].v>>
      BY <1>1, <2>1
    <3>2. ~Reaches(d, s, i)
      BY <2>1, <3>1
    <3> QED BY <2>2, <3>1, <3>2
  <2>4. ASSUME NEW i \in Ids, HasRow(e, i) PROVE <<i, e.rows[i].v>> \in e.fts
    <3>1. ~Reaches(d, s, i) /\ HasRow(d, i) /\ e.rows[i] = d.rows[i]
      BY <2>2, <2>4
    <3>2. <<i, d.rows[i].v>> \in d.fts /\ <<i, d.rows[i].v>>[1] = i
      BY <1>1, <3>1
    <3> QED BY <2>1, <3>1, <3>2
  <2>5. Indexed(e)
    BY <2>3, <2>4 DEF Indexed
  <2> QED BY <2>5 DEF e
<1>4. CASE s.do \notin RowKinds
  <2>1. e.rows = d.rows /\ e.fts = d.fts
    BY <1>4, EffectLeaves
  <2> HIDE DEF e
  <2>2. Indexed(e)
    BY <2>1 DEF Indexed, HasRow
  <2> QED BY <2>2 DEF e
<1> QED BY <1>2, <1>3, <1>4 DEF RowKinds

LEMMA OwnedNext ==
  ASSUME NEW d \in Tables, NEW s \in Statements, Owned(d)
  PROVE  LET e == Effect(d, s)
         IN  /\ Owned(e)
             /\ d.owner \subseteq e.owner /\ Len(d.names) <= Len(e.names)
             /\ \A n \in 1..Len(d.names) : d.names[n] # "" => e.names[n] = d.names[n]
<1> DEFINE e == Effect(d, s)
<1>1. CASE s.do = "contact"
  BY <1>1, ContactEffect
<1>2. CASE s.do # "contact"
  <2>1. e.names = d.names /\ e.owner = d.owner
    BY <1>2, EffectLeaves
  <2>2. Len(d.names) \in Nat
    BY TableFields, LenProperties
  <2> HIDE DEF e
  <2>3. /\ Owned(e)
        /\ d.owner \subseteq e.owner /\ Len(d.names) <= Len(e.names)
        /\ \A n \in 1..Len(d.names) : d.names[n] # "" => e.names[n] = d.names[n]
    BY <2>1, <2>2 DEF Owned
  <2> QED BY <2>3 DEF e
<1> QED BY <1>1, <1>2

LEMMA WholeNext ==
  ASSUME NEW todo, NEW s, NEW rest, Splits(todo, s, rest), NEW d \in Tables,
         Ready(s, rest, d, Effect(d, s)), StillGoing(todo, rest, d, Effect(d, s)),
         Owned(d), Whole(todo, d)
  PROVE  Whole(rest, Effect(d, s))
<1> DEFINE e == Effect(d, s)
           v(i) == e.rows[i].v
           Linked(i) == \A u \in ToSet(MailAt(i, v(i)).urls) :
                          <<i, u>> \in e.links \/ \E k \in 1..Len(rest) : AddsLink(rest[k], i, u)
           Attached(i) == \A a \in ToSet(MailAt(i, v(i)).atts) :
                            <<i, a>> \in e.atts \/ \E k \in 1..Len(rest) : AddsAtt(rest[k], i, a)
           Known(i) == \A p \in ToSet(contactsOf(MailAt(i, v(i)))) :
                         \/ Canonical[p.email] = ""
                         \/ \E o \in e.owner : o[1] = Canonical[p.email]
                         \/ \E k \in 1..Len(rest) : Adds(rest[k], Canonical[p.email])
<1>0. /\ s \in Statements /\ 1 \in 1..Len(todo) /\ todo[1] = s
      /\ \A k \in 1..Len(todo) : k = 1 \/ (k - 1 \in 1..Len(rest) /\ rest[k - 1] = todo[k])
  BY SplitPlaces
<1>1. ASSUME NEW i \in Ids, HasRow(e, i)
      PROVE  /\ Honest(i, v(i), e.rows[i].folder)
             /\ Doomed(rest, e, i) \/ (Linked(i) /\ Attached(i) /\ Known(i))
  <2>1. CASE Is(s, "row", i)
    <3>1. e.rows[i] = [v |-> s.v, folder |-> s.folder] /\ s.id = i /\ s.do = "row"
      BY <1>0, <2>1, RowsNext DEF Is
    <3>2. Honest(i, s.v, s.folder) /\ Follows(rest, 0, i, s.v)
      BY <3>1 DEF Ready
    <3>3. v(i) = s.v /\ e.rows[i].folder = s.folder
      BY <3>1
    <3> DEFINE w == v(i)
    <3>a. Follows(rest, 0, i, w)
      BY <3>2, <3>3
    <3>b. \A k \in (0 + 1)..Len(rest) : k \in 1..Len(rest)
      OBVIOUS
    <3> HIDE DEF w
    <3>c. /\ \A u \in ToSet(MailAt(i, w).urls) : \E k \in 1..Len(rest) : AddsLink(rest[k], i, u)
          /\ \A a \in ToSet(MailAt(i, w).atts) : \E k \in 1..Len(rest) : AddsAtt(rest[k], i, a)
          /\ \A p \in ToSet(contactsOf(MailAt(i, w))) : \E k \in 1..Len(rest) :
                Adds(rest[k], Canonical[p.email])
      BY <3>a, <3>b, Zenon DEF Follows
    <3>4. Linked(i)
      BY <3>c, Zenon DEF w
    <3>5. Attached(i)
      BY <3>c, Zenon DEF w
    <3>6. Known(i)
      BY <3>c, Zenon DEF w
    <3> QED BY <3>2, <3>3, <3>4, <3>5, <3>6
  <2>2. CASE ~Is(s, "row", i)
    <3>1. ~(s.do \in {"unrow", "unrowbox"} /\ Reaches(d, s, i))
      BY <1>0, <1>1, RowsNext
    <3>2. e.rows[i] = d.rows[i] /\ HasRow(d, i)
      BY <1>0, <1>1, <2>2, <3>1, RowStays
    <3>3. Honest(i, v(i), e.rows[i].folder)
      BY <3>2 DEF Whole
    <3>4. CASE Doomed(todo, d, i)
      <4>1. Doomed(rest, e, i) \/ Gone(rest, e, i)
        BY <3>4 DEF StillGoing
      <4> QED BY <1>1, <3>3, <4>1 DEF Gone
    <3>5. CASE Doomed(rest, e, i)
      BY <3>3, <3>5
    <3>6. CASE ~Doomed(todo, d, i) /\ ~Doomed(rest, e, i)
      <4>1. /\ \A u \in ToSet(MailAt(i, v(i)).urls) :
                  <<i, u>> \in d.links \/ \E k \in 1..Len(todo) : AddsLink(todo[k], i, u)
            /\ \A a \in ToSet(MailAt(i, v(i)).atts) :
                  <<i, a>> \in d.atts \/ \E k \in 1..Len(todo) : AddsAtt(todo[k], i, a)
            /\ \A p \in ToSet(contactsOf(MailAt(i, v(i)))) :
                  \/ Canonical[p.email] = ""
                  \/ \E o \in d.owner : o[1] = Canonical[p.email]
                  \/ \E k \in 1..Len(todo) : Adds(todo[k], Canonical[p.email])
        BY <3>2, <3>6 DEF Whole
      <4>2. s.do \notin {"unlink", "unatt", "unlinkbox", "unattbox"} \/ ~Reaches(d, s, i)
        BY <3>6 DEF Ready
      <4> HIDE DEF v
      <4>3. ASSUME NEW u \in ToSet(MailAt(i, v(i)).urls)
            PROVE  <<i, u>> \in e.links \/ \E k \in 1..Len(rest) : AddsLink(rest[k], i, u)
        <5>1. CASE <<i, u>> \in d.links
          <6>1. \/ <<i, u>> \in e.links
                \/ s.do \in {"unlink", "unlinkbox"} /\ Reaches(d, s, <<i, u>>[1])
            BY <1>0, <5>1, LinksNext
          <6> QED BY <4>2, <6>1
        <5>2. CASE AddsLink(s, i, u)
          <6>1. s.do = "link" /\ s.id = i /\ s.url = u
            BY <5>2 DEF AddsLink, Is
          <6> QED BY <1>0, <6>1, LinksNext
        <5>3. CASE \E k \in 1..Len(todo) : AddsLink(todo[k], i, u) /\ k # 1
          BY <1>0, <5>3
        <5> QED BY <1>0, <4>1, <5>1, <5>2, <5>3
      <4>4. ASSUME NEW a \in ToSet(MailAt(i, v(i)).atts)
            PROVE  <<i, a>> \in e.atts \/ \E k \in 1..Len(rest) : AddsAtt(rest[k], i, a)
        <5>1. CASE <<i, a>> \in d.atts
          <6>1. \/ <<i, a>> \in e.atts
                \/ s.do \in {"unatt", "unattbox"} /\ Reaches(d, s, <<i, a>>[1])
            BY <1>0, <5>1, AttsNext
          <6> QED BY <4>2, <6>1
        <5>2. CASE AddsAtt(s, i, a)
          <6>1. s.do = "att" /\ s.id = i /\ s.att = a
            BY <5>2 DEF AddsAtt, Is
          <6> QED BY <1>0, <6>1, AttsNext
        <5>3. CASE \E k \in 1..Len(todo) : AddsAtt(todo[k], i, a) /\ k # 1
          BY <1>0, <5>3
        <5> QED BY <1>0, <4>1, <5>1, <5>2, <5>3
      <4>5. ASSUME NEW p \in ToSet(contactsOf(MailAt(i, v(i))))
            PROVE  \/ Canonical[p.email] = ""
                   \/ \E o \in e.owner : o[1] = Canonical[p.email]
                   \/ \E k \in 1..Len(rest) : Adds(rest[k], Canonical[p.email])
        <5>1. CASE \E o \in d.owner : o[1] = Canonical[p.email]
          BY <1>0, <5>1, OwnedNext
        <5>2. CASE Adds(s, Canonical[p.email])
          <6>1. s.do = "contact" /\ Canonical[s.email] = Canonical[p.email]
            BY <5>2 DEF Adds
          <6>2. Canonical[s.email] # "" => \E o \in e.owner : o[1] = Canonical[s.email]
            BY <1>0, <6>1, ContactEffect
          <6> HIDE DEF e
          <6> QED BY <6>1, <6>2
        <5>3. CASE \E k \in 1..Len(todo) : Adds(todo[k], Canonical[p.email]) /\ k # 1
          BY <1>0, <5>3
        <5> QED BY <1>0, <4>1, <5>1, <5>2, <5>3
      <4> QED BY <3>3, <4>3, <4>4, <4>5
    <3> QED BY <3>4, <3>5, <3>6
  <2> QED BY <2>1, <2>2
<1> HIDE DEF e
<1>2. Whole(rest, e)
  BY <1>1 DEF Whole
<1> QED BY <1>2 DEF e

LEMMA KeepingNext ==
  ASSUME NEW todo, NEW s, NEW rest, Splits(todo, s, rest), NEW c \in Tables, NEW d \in Tables,
         Ready(s, rest, d, Effect(d, s)), StillGoing(todo, rest, d, Effect(d, s)),
         Owned(d), Effect(d, s) \in Tables, Keeping(c, todo, d)
  PROVE  Keeping(c, rest, Effect(d, s))
<1> DEFINE e == Effect(d, s)
<1>0. /\ s \in Statements /\ 1 \in 1..Len(todo) /\ todo[1] = s
      /\ \A k \in 1..Len(rest) : k + 1 \in 1..Len(todo) /\ rest[k] = todo[k + 1]
  BY SplitPlaces
<1>1. ASSUME NEW i \in Ids, Doomed(todo, d, i) \/ Gone(todo, d, i)
      PROVE  Doomed(rest, e, i) \/ Gone(rest, e, i)
  <2>1. CASE Doomed(todo, d, i)
    BY <2>1 DEF StillGoing
  <2>2. CASE Gone(todo, d, i)
    <3>1. ~HasRow(d, i) /\ ~Is(s, "row", i)
      BY <1>0, <2>2 DEF Gone
    <3>2. ~HasRow(e, i)
      <4>1. CASE s.do \in {"unrow", "unrowbox"} /\ Reaches(d, s, i)
        BY <1>0, <4>1, RowsNext
      <4>2. CASE ~(s.do \in {"unrow", "unrowbox"} /\ Reaches(d, s, i))
        BY <1>0, <3>1, <4>2, RowStays
      <4> QED BY <4>1, <4>2
    <3> HIDE DEF e
    <3> QED BY <1>0, <2>2, <3>2 DEF Gone
  <2> QED BY <1>1, <2>1, <2>2
<1>2. ASSUME NEW i \in c.vecs PROVE i \in e.vecs \/ Doomed(rest, e, i) \/ Gone(rest, e, i)
  <2>1. i \in Ids
    BY TableFields
  <2>2. i \in d.vecs \/ Doomed(todo, d, i) \/ Gone(todo, d, i)
    BY DEF Keeping
  <2>3. CASE i \in d.vecs
    <3>1. i \in e.vecs \/ (s.do \in VecKinds /\ Reaches(d, s, i))
      BY <1>0, <2>3, VecsNext
    <3>2. s.do \in VecKinds /\ Reaches(d, s, i) => Doomed(rest, e, i)
      BY <2>1 DEF Ready, VecKinds
    <3> QED BY <3>1, <3>2
  <2> QED BY <1>1, <2>1, <2>2, <2>3
<1>3. ASSUME NEW a \in c.texts PROVE a \in e.texts \/ Doomed(rest, e, a[1]) \/ Gone(rest, e, a[1])
  <2>1. a[1] \in Ids
    BY TableFields
  <2>2. a \in d.texts \/ Doomed(todo, d, a[1]) \/ Gone(todo, d, a[1])
    BY DEF Keeping
  <2>3. CASE a \in d.texts
    <3>1. a \in e.texts \/ (s.do \in {"unatt", "unattbox"} /\ Reaches(d, s, a[1]))
      BY <1>0, <2>3, TextsNext
    <3>2. s.do \in {"unatt", "unattbox"} /\ Reaches(d, s, a[1]) => Doomed(rest, e, a[1])
      BY <2>1 DEF Ready
    <3> QED BY <3>1, <3>2
  <2> QED BY <1>1, <2>1, <2>2, <2>3
<1>4. /\ d.owner \subseteq e.owner /\ Len(d.names) <= Len(e.names)
      /\ \A n \in 1..Len(d.names) : d.names[n] # "" => e.names[n] = d.names[n]
  BY <1>0, OwnedNext
<1>5. /\ c.owner \subseteq d.owner /\ Len(c.names) <= Len(d.names)
      /\ \A n \in 1..Len(c.names) : c.names[n] # "" => d.names[n] = c.names[n]
  BY DEF Keeping
<1>6. Len(c.names) \in Nat /\ Len(d.names) \in Nat /\ Len(e.names) \in Nat
  BY TableFields, LenProperties
<1> HIDE DEF e
<1>a. c.owner \subseteq d.owner /\ d.owner \subseteq e.owner
  BY <1>4, <1>5
<1>b. Len(c.names) <= Len(d.names) /\ Len(d.names) <= Len(e.names)
  BY <1>4, <1>5
<1> DEFINE lc == Len(c.names)
           ld == Len(d.names)
           le == Len(e.names)
<1>c. lc \in Nat /\ ld \in Nat /\ le \in Nat /\ lc <= ld /\ ld <= le
  BY <1>6, <1>b
<1>7. c.owner \subseteq e.owner /\ lc <= le /\ \A n \in 1..lc : n \in 1..ld
  <2> HIDE DEF lc, ld, le
  <2> QED BY <1>a, <1>c
<1>8. ASSUME NEW n \in 1..Len(c.names), c.names[n] # "" PROVE e.names[n] = c.names[n]
  <2>1. n \in 1..Len(d.names)
    BY <1>7
  <2>2. d.names[n] = c.names[n]
    BY <1>5, <1>8
  <2>3. e.names[n] = d.names[n]
    BY <1>4, <1>8, <2>1, <2>2
  <2> QED BY <2>2, <2>3
<1>9. Keeping(c, rest, e)
  BY <1>2, <1>3, <1>7, <1>8 DEF Keeping
<1> QED BY <1>9 DEF e

\* A statement the database takes keeps the invariant.
LEMMA ExecKeeps ==
  ASSUME NEW c, NEW todo, NEW d, TxInv(c, todo, d), todo # <<>>,
         Accepts(Effect(d, Head(todo)))
  PROVE  TxInv(c, Tail(todo), Effect(d, Head(todo)))
<1> DEFINE s == todo[1]
           rest == Tail(todo)
           e == Effect(d, s)
<1>1. /\ c \in Tables /\ d \in Tables /\ todo \in Seq(Statements)
      /\ MailPlan(todo, d) \/ BoxPlan(todo, d)
      /\ Unorphaned(d) /\ Indexed(d) /\ Owned(d) /\ Whole(todo, d) /\ Keeping(c, todo, d)
  BY DEF TxInv
<1>2. Splits(todo, s, rest)
  BY <1>1 DEF Splits
<1> HIDE DEF s, rest
<1>3. s \in Statements /\ rest \in Seq(Statements) /\ Head(todo) = s
  BY <1>2, SplitPlaces
<1>4. /\ MailPlan(rest, e) \/ BoxPlan(rest, e)
      /\ Ready(s, rest, d, e) /\ StillGoing(todo, rest, d, e)
  <2>1. CASE MailPlan(todo, d)
    BY <1>1, <1>2, <2>1, MailStep, MailReady, MailGoing
  <2>2. CASE BoxPlan(todo, d)
    BY <1>1, <1>2, <2>2, BoxStep
  <2> QED BY <1>1, <2>1, <2>2
<1>5. e \in Tables
  BY <1>1, <1>3, EffectTyped
<1>6. Unorphaned(e)
  BY <1>1, <1>3, <1>4, UnorphanedNext
<1>7. Indexed(e)
  BY <1>1, <1>3, IndexedNext
<1>8. Owned(e)
  BY <1>1, <1>3, OwnedNext
<1>9. Whole(rest, e)
  BY <1>1, <1>2, <1>4, WholeNext
<1>10. Keeping(c, rest, e)
  BY <1>1, <1>2, <1>4, <1>5, KeepingNext
<1>11. Accepts(e)
  BY <1>3
<1> HIDE DEF e
<1>12. TxInv(c, rest, e)
  BY <1>1, <1>3, <1>4, <1>5, <1>6, <1>7, <1>8, <1>9, <1>10, <1>11 DEF TxInv
<1> QED BY <1>3, <1>12 DEF e, rest

-----------------------------------------------------------------------------
(* What the writers begin with is a plan.                                  *)

\* A folder is the name of one of the message's own folder labels.
LEMMA ResolveIs ==
  ASSUME NEW T, NEW labels \in Seq(T), ToSet(labels) \cap FolderLabels # {}
  PROVE  \E j \in DOMAIN labels :
            labels[j] \in FolderLabels /\ Labels[labels[j]].name = resolve(labels)
<1> DEFINE S == {j \in DOMAIN labels : labels[j] \in FolderLabels}
           First(j) == labels[j] \in FolderLabels /\ \A i \in 1..(j - 1) : labels[i] \notin FolderLabels
<1>2. S # {}
  BY DEF ToSet
<1>3. DOMAIN labels = 1..Len(labels) /\ Len(labels) \in Nat
  BY LenProperties
<1>4. S \in SUBSET Nat
  <2>1. S \subseteq DOMAIN labels
    OBVIOUS
  <2>2. \A N \in Nat : 1..N \subseteq Nat
    OBVIOUS
  <2> HIDE DEF S
  <2> QED BY <1>3, <2>1, <2>2, Zenon
<1>5. PICK n \in S : \A m \in S : n <= m
  <2> HIDE DEF S
  <2> QED BY <1>2, <1>4, LeastOf, Zenon
<1>6. n \in DOMAIN labels /\ First(n)
  <2>1. n \in DOMAIN labels /\ labels[n] \in FolderLabels
    OBVIOUS
  <2>2. ASSUME NEW i \in 1..(n - 1) PROVE labels[i] \notin FolderLabels
    <3>1. \A N \in Nat : n \in 1..N => i \in 1..N /\ ~(n <= i)
      OBVIOUS
    <3>2. i \in DOMAIN labels /\ ~(n <= i)
      BY <1>3, <2>1, <3>1, Zenon
    <3> QED BY <1>5, <3>2
  <2> QED BY <2>1, <2>2
<1> DEFINE f == CHOOSE j \in DOMAIN labels : First(j)
<1>7. f \in DOMAIN labels /\ First(f)
  <2> HIDE DEF First
  <2> QED BY <1>6
<1>8. FirstLabel(labels, FolderLabels) = labels[f]
  BY DEF FirstLabel
<1>9. resolve(labels) = Labels[labels[f]].name
  BY <1>8 DEF resolve
<1> QED BY <1>7, <1>9

LEMMA ResolveInFolders ==
  ASSUME NEW T, NEW labels \in Seq(T)
  PROVE  resolve(labels) \in Folders
<1>1. CASE ToSet(labels) \cap FolderLabels = {}
  BY <1>1 DEF Folders, resolve
<1>2. CASE ToSet(labels) \cap FolderLabels # {}
  <2>1. PICK j \in DOMAIN labels :
          labels[j] \in FolderLabels /\ Labels[labels[j]].name = resolve(labels)
    BY <1>2, ResolveIs
  <2> QED BY <2>1 DEF Folders, FolderLabels
<1> QED BY <1>1, <1>2

LEMMA ConcatPlaces ==
  ASSUME NEW T, NEW X \in Seq(T), NEW Y \in Seq(T)
  PROVE  /\ X \o Y \in Seq(T) /\ Len(X \o Y) = Len(X) + Len(Y)
         /\ Len(X) \in Nat /\ Len(Y) \in Nat
         /\ \A k \in 1..Len(X) : (X \o Y)[k] = X[k]
         /\ \A k \in 1..Len(Y) : (X \o Y)[Len(X) + k] = Y[k]
  BY ConcatProperties

\* One statement for each element of a sequence.
LEMMA MapPlaces ==
  ASSUME NEW T, NEW U, NEW q \in Seq(T), NEW r, DOMAIN r = DOMAIN q, r = [n \in DOMAIN q |-> r[n]],
         \A n \in DOMAIN q : r[n] \in U
  PROVE  r \in Seq(U) /\ Len(r) = Len(q)
<1>1. DOMAIN q = 1..Len(q) /\ Len(q) \in Nat
  BY LenProperties
<1>2. r \in [1..Len(q) -> U]
  BY <1>1
<1>3. r \in Seq(U)
  BY <1>1, <1>2
<1>4. DOMAIN r = 1..Len(r) /\ Len(r) \in Nat
  BY <1>3, LenProperties
<1>5. Len(r) = Len(q)
  BY <1>1, <1>4
<1> QED BY <1>3, <1>5

\* What a message's versions hold.
LEMMA MailIs ==
  ASSUME NEW b \in Boxes, NEW m \in Msgs, NEW v \in VersionsOf(b, m)
  PROVE  LET mail == Mail[<<b, m, v>>]
         IN  /\ contactsOf(mail) \in Seq(People)
             /\ extractLinks(mail.urls) \in Seq(Urls)
             /\ ToSet(extractLinks(mail.urls)) = ToSet(mail.urls)
             /\ mail.atts \in Seq(Atts)
             /\ mail.labels \in Seq(STRING)
             /\ resolve(mail.labels) \in Folders
             /\ v \in Versions
<1> DEFINE mail == Mail[<<b, m, v>>]
<1>1. v \in Versions /\ <<b, m, v>> \in DOMAIN Mail
  BY DEF VersionsOf
<1>2. mail \in [sender : People, recipients : Seq(People), urls : Seq(Urls),
                atts : Seq(Atts), labels : Seq(STRING)]
  BY <1>1, CacheRowsConstants
<1> HIDE DEF mail
<1>3. /\ mail.sender \in People /\ mail.recipients \in Seq(People) /\ mail.urls \in Seq(Urls)
      /\ mail.atts \in Seq(Atts) /\ mail.labels \in Seq(STRING)
  BY <1>2
<1>4. contactsOf(mail) \in Seq(People)
  <2>1. <<mail.sender>> \in Seq(People)
    BY <1>3
  <2> QED BY <1>3, <2>1, ConcatPlaces DEF contactsOf
<1>5. IsFiniteSet(ToSet(mail.urls)) /\ ToSet(mail.urls) \subseteq Urls
  <2> DEFINE q == mail.urls
  <2>1. q \in Seq(Urls) /\ DOMAIN q = 1..Len(q) /\ Len(q) \in Nat
    BY <1>3, LenProperties
  <2> HIDE DEF q
  <2>2. IsFiniteSet(DOMAIN q)
    BY <2>1, FS_Interval
  <2>3. q \in Surjection(DOMAIN q, ToSet(q))
    BY <2>1 DEF Surjection, ToSet
  <2>4. IsFiniteSet(ToSet(q))
    BY <2>2, <2>3, FS_Surjection
  <2>5. ToSet(q) \subseteq Urls
    BY <2>1, ElementOfSeq DEF ToSet
  <2> QED BY <2>4, <2>5 DEF q
<1>6. /\ extractLinks(mail.urls) \in Seq(ToSet(mail.urls))
      /\ ToSet(extractLinks(mail.urls)) = ToSet(mail.urls)
  BY <1>5, SetToSeqIs DEF extractLinks
<1>7. extractLinks(mail.urls) \in Seq(Urls)
  BY <1>5, <1>6, SeqMonotonic
<1>8. resolve(mail.labels) \in Folders
  BY <1>3, ResolveInFolders
<1> QED BY <1>1, <1>3, <1>4, <1>6, <1>7, <1>8 DEF mail

\* A run of statements that plans for itself: it removes only messages of G, and
\* stores none of them.
Piece(F, G) ==
    /\ F \in Seq(Statements)
    /\ \A k \in 1..Len(F) :
        /\ F[k].do \notin BoxKinds
        /\ F[k].do = "unrow" => F[k].id \in G
        /\ F[k].do \in {"row", "link", "att"} => F[k].id \notin G
        /\ F[k].do = "row" =>
            Honest(F[k].id, F[k].v, F[k].folder) /\ Follows(F, k, F[k].id, F[k].v)
        /\ F[k].do \in {"link", "att"} => Before(F, k, "row", F[k].id)
        /\ F[k].do \in {"unlink", "unatt", "unvec"} => After(F, k, "unrow", F[k].id)
        /\ F[k].do = "unrow" =>
            /\ Before(F, k, "unlink", F[k].id) /\ Before(F, k, "unatt", F[k].id)
            /\ Before(F, k, "unvec", F[k].id)

LEMMA PieceIsPlan ==
  ASSUME NEW F, NEW G, Piece(F, G), NEW d
  PROVE  MailPlan(F, d)
<1>1. \A j, k \in 1..Len(F) :
        F[j].do = "unrow" /\ F[k].do \in {"row", "link", "att"} => F[j].id # F[k].id
  BY DEF Piece
<1> QED BY <1>1 DEF Piece, MailPlan

\* A place in a block, and what comes before and after it there.
LEMMA BlockPlaces ==
  ASSUME NEW T, NEW p \in Seq(T), NEW F \in Seq(T), NEW k \in 1..Len(F), BlockAt(p, F, k)
  PROVE  \E n \in 1..Len(p) :
            /\ F[k] = p[n]
            /\ \A kind, i : Before(p, n, kind, i) => Before(F, k, kind, i)
            /\ \A kind, i : After(p, n, kind, i) => After(F, k, kind, i)
            /\ \A i, v : Follows(p, n, i, v) => Follows(F, k, i, v)
<1>1. PICK o \in Nat : /\ k \in (o + 1)..(o + Len(p)) /\ o + Len(p) <= Len(F)
                       /\ \A j \in 1..Len(p) : F[o + j] = p[j]
  BY DEF BlockAt
<1>2. Len(p) \in Nat /\ Len(F) \in Nat
  BY LenProperties
<1>3. k - o \in 1..Len(p) /\ o + (k - o) = k
  BY <1>1, <1>2
<1> DEFINE n == k - o
<1>4. F[k] = p[n]
  BY <1>1, <1>3
<1>5. \A j \in 1..(n - 1) : o + j \in 1..(k - 1) /\ F[o + j] = p[j]
  BY <1>1, <1>2, <1>3
<1>6. \A j \in (n + 1)..Len(p) : o + j \in (k + 1)..Len(F) /\ F[o + j] = p[j]
  BY <1>1, <1>2, <1>3
<1> HIDE DEF n
<1>7. ASSUME NEW kind, NEW i, Before(p, n, kind, i) PROVE Before(F, k, kind, i)
  <2>1. PICK j \in 1..(n - 1) : Is(p[j], kind, i)
    BY <1>7 DEF Before
  <2>2. o + j \in 1..(k - 1) /\ Is(F[o + j], kind, i)
    BY <1>5, <2>1
  <2> QED BY <2>2, Zenon DEF Before
<1>8. ASSUME NEW kind, NEW i, After(p, n, kind, i) PROVE After(F, k, kind, i)
  <2>1. PICK j \in (n + 1)..Len(p) : Is(p[j], kind, i)
    BY <1>8 DEF After
  <2>2. o + j \in (k + 1)..Len(F) /\ Is(F[o + j], kind, i)
    BY <1>6, <2>1
  <2> QED BY <2>2, Zenon DEF After
<1>9. ASSUME NEW i, NEW v, Follows(p, n, i, v) PROVE Follows(F, k, i, v)
  <2>1. ASSUME NEW u \in ToSet(MailAt(i, v).urls)
        PROVE  \E j \in (k + 1)..Len(F) : AddsLink(F[j], i, u)
    <3>1. PICK j \in (n + 1)..Len(p) : AddsLink(p[j], i, u)
      BY <1>9 DEF Follows
    <3>2. o + j \in (k + 1)..Len(F) /\ AddsLink(F[o + j], i, u)
      BY <1>6, <3>1
    <3> QED BY <3>2, Zenon
  <2>2. ASSUME NEW a \in ToSet(MailAt(i, v).atts)
        PROVE  \E j \in (k + 1)..Len(F) : AddsAtt(F[j], i, a)
    <3>1. PICK j \in (n + 1)..Len(p) : AddsAtt(p[j], i, a)
      BY <1>9 DEF Follows
    <3>2. o + j \in (k + 1)..Len(F) /\ AddsAtt(F[o + j], i, a)
      BY <1>6, <3>1
    <3> QED BY <3>2, Zenon
  <2>3. ASSUME NEW x \in ToSet(contactsOf(MailAt(i, v)))
        PROVE  \E j \in (k + 1)..Len(F) : Adds(F[j], Canonical[x.email])
    <3>1. PICK j \in (n + 1)..Len(p) : Adds(p[j], Canonical[x.email])
      BY <1>9 DEF Follows
    <3>2. o + j \in (k + 1)..Len(F) /\ Adds(F[o + j], Canonical[x.email])
      BY <1>6, <3>1
    <3> QED BY <3>2, Zenon
  <2> QED BY <2>1, <2>2, <2>3 DEF Follows
<1>10. n \in 1..Len(p)
  BY <1>3 DEF n
<1> QED BY <1>4, <1>7, <1>8, <1>9, <1>10

\* Pieces laid end to end are a piece.
LEMMA MadeOfPieces ==
  ASSUME NEW F \in Seq(Statements), NEW G,
         \A k \in 1..Len(F) : \E p : Piece(p, G) /\ BlockAt(p, F, k)
  PROVE  Piece(F, G)
<1> SUFFICES ASSUME NEW k \in 1..Len(F)
             PROVE  /\ F[k].do \notin BoxKinds
                    /\ F[k].do = "unrow" => F[k].id \in G
                    /\ F[k].do \in {"row", "link", "att"} => F[k].id \notin G
                    /\ F[k].do = "row" =>
                        Honest(F[k].id, F[k].v, F[k].folder) /\ Follows(F, k, F[k].id, F[k].v)
                    /\ F[k].do \in {"link", "att"} => Before(F, k, "row", F[k].id)
                    /\ F[k].do \in {"unlink", "unatt", "unvec"} => After(F, k, "unrow", F[k].id)
                    /\ F[k].do = "unrow" =>
                        /\ Before(F, k, "unlink", F[k].id) /\ Before(F, k, "unatt", F[k].id)
                        /\ Before(F, k, "unvec", F[k].id)
  BY DEF Piece
<1>1. PICK p : Piece(p, G) /\ BlockAt(p, F, k)
  OBVIOUS
<1>2. p \in Seq(Statements)
  BY <1>1 DEF Piece
<1>3. PICK n \in 1..Len(p) :
        /\ F[k] = p[n]
        /\ \A kind, i : Before(p, n, kind, i) => Before(F, k, kind, i)
        /\ \A kind, i : After(p, n, kind, i) => After(F, k, kind, i)
        /\ \A i, v : Follows(p, n, i, v) => Follows(F, k, i, v)
  BY <1>1, <1>2, BlockPlaces
<1> DEFINE x == p[n]
<1>4. /\ x.do \notin BoxKinds
      /\ x.do = "unrow" => x.id \in G
      /\ x.do \in {"row", "link", "att"} => x.id \notin G
      /\ x.do = "row" => Honest(x.id, x.v, x.folder) /\ Follows(p, n, x.id, x.v)
      /\ x.do \in {"link", "att"} => Before(p, n, "row", x.id)
      /\ x.do \in {"unlink", "unatt", "unvec"} => After(p, n, "unrow", x.id)
      /\ x.do = "unrow" =>
          /\ Before(p, n, "unlink", x.id) /\ Before(p, n, "unatt", x.id)
          /\ Before(p, n, "unvec", x.id)
  BY <1>1, <1>3 DEF Piece
<1>5. F[k] = x
  BY <1>3
<1> HIDE DEF x
<1> QED BY <1>3, <1>4, <1>5

LEMMA Joined ==
  ASSUME NEW F, NEW H, NEW G, Piece(F, G), Piece(H, G)
  PROVE  Piece(F \o H, G)
<1>1. F \in Seq(Statements) /\ H \in Seq(Statements)
  BY DEF Piece
<1>2. /\ F \o H \in Seq(Statements) /\ Len(F \o H) = Len(F) + Len(H)
      /\ Len(F) \in Nat /\ Len(H) \in Nat
      /\ \A k \in 1..Len(F) : (F \o H)[k] = F[k]
  BY <1>1, ConcatPlaces
<1>3. ASSUME NEW k \in 1..Len(F \o H) PROVE \E p : Piece(p, G) /\ BlockAt(p, F \o H, k)
  <2>1. k \in 1..(Len(F) + Len(H))
    BY <1>2
  <2>2. CASE k > Len(F)
    <3>1. BlockAt(H, F \o H, k)
      BY <1>1, <2>1, <2>2, LastBlock
    <3> QED BY <3>1
  <2>3. CASE ~(k > Len(F))
    <3>1. k \in 1..Len(F)
      BY <1>2, <2>1, <2>3
    <3>2. BlockAt(F, F, k)
      <4>1. /\ 0 \in Nat /\ k \in (0 + 1)..(0 + Len(F)) /\ 0 + Len(F) <= Len(F)
            /\ \A j \in 1..Len(F) : 0 + j = j
        BY <1>2, <3>1
      <4>2. \A j \in 1..Len(F) : F[0 + j] = F[j]
        BY <4>1
      <4> QED BY <4>1, <4>2, Zenon DEF BlockAt
    <3>3. BlockAt(F, F \o H, k)
      BY <1>1, <3>1, <3>2, BlocksOfConcat
    <3> QED BY <3>3
  <2> QED BY <2>2, <2>3
<1> QED BY <1>2, <1>3, MadeOfPieces

LEMMA Flattened ==
  ASSUME NEW ss \in Seq(Seq(Statements)), NEW G, \A i \in 1..Len(ss) : Piece(ss[i], G)
  PROVE  Piece(FlattenSeq(ss), G)
<1>1. /\ FlattenSeq(ss) \in Seq(Statements)
      /\ \A k \in 1..Len(FlattenSeq(ss)) : \E i \in 1..Len(ss) : BlockAt(ss[i], FlattenSeq(ss), k)
  BY FlattenBlocks
<1> QED BY <1>1, MadeOfPieces

\* The statements of applyMessage, place by place.
LEMMA AppliedPlaces ==
  ASSUME NEW b \in Boxes, NEW m \in Msgs, NEW v \in VersionsOf(b, m)
  PROVE  LET q == applyMessage(b, m, v)
             id == MessageHash(b, m)
             mail == Mail[<<b, m, v>>]
             people == contactsOf(mail)
             urls == extractLinks(mail.urls)
             atts == mail.atts
             np == Len(people)
             nu == Len(urls)
             na == Len(atts)
         IN  /\ q \in Seq(Statements) /\ Len(q) = 1 + np + nu + na
             /\ np \in Nat /\ nu \in Nat /\ na \in Nat
             /\ q[1] = [do |-> "row", id |-> id, box |-> b, v |-> v, folder |-> resolve(mail.labels)]
             /\ \A k \in 1..np : q[1 + k] =
                  [do |-> "contact", email |-> people[k].email, name |-> people[k].name]
             /\ \A k \in 1..nu : q[1 + np + k] = [do |-> "link", id |-> id, url |-> urls[k]]
             /\ \A k \in 1..na : q[1 + np + nu + k] = [do |-> "att", id |-> id, att |-> atts[k]]
<1> DEFINE q == applyMessage(b, m, v)
           id == MessageHash(b, m)
           mail == Mail[<<b, m, v>>]
           people == contactsOf(mail)
           urls == extractLinks(mail.urls)
           atts == mail.atts
           np == Len(people)
           nu == Len(urls)
           na == Len(atts)
           row == [do |-> "row", id |-> id, box |-> b, v |-> v, folder |-> resolve(mail.labels)]
           A == <<row>>
           B == [i \in DOMAIN people |->
                  [do |-> "contact", email |-> people[i].email, name |-> people[i].name]]
           C == [i \in DOMAIN urls |-> [do |-> "link", id |-> id, url |-> urls[i]]]
           D == [i \in DOMAIN atts |-> [do |-> "att", id |-> id, att |-> atts[i]]]
<1>1. /\ people \in Seq(People) /\ urls \in Seq(Urls) /\ atts \in Seq(Atts)
      /\ resolve(mail.labels) \in Folders /\ v \in Versions
  BY MailIs
<1>2. id \in Ids
  BY DEF Ids
<1>3. q = ((A \o B) \o C) \o D
  BY DEF applyMessage, attachmentsOf
<1> HIDE DEF id, mail, people, urls, atts, q
<1>4. A \in Seq(Statements) /\ Len(A) = 1 /\ A[1] = row
  <2>1. row \in Statements
    BY <1>1, <1>2 DEF Statements
  <2> HIDE DEF row
  <2> QED BY <2>1
<1>5. B \in Seq(Statements) /\ Len(B) = np
  <2>1. \A n \in DOMAIN people : B[n] \in Statements
    <3> SUFFICES ASSUME NEW n \in DOMAIN people PROVE B[n] \in Statements
      OBVIOUS
    <3>1. people[n] \in People
      BY <1>1, ElementOfSeq, LenProperties
    <3>2. people[n].email \in Emails /\ people[n].name \in STRING
      BY <3>1 DEF People
    <3>3. [do |-> "contact", email |-> people[n].email, name |-> people[n].name]
            \in [do : {"contact"}, email : Emails, name : STRING]
      BY <3>2
    <3> QED BY <3>3 DEF Statements
  <2>2. DOMAIN B = DOMAIN people /\ B = [n \in DOMAIN people |-> B[n]]
    OBVIOUS
  <2> HIDE DEF B
  <2> QED BY <1>1, <2>1, <2>2, MapPlaces
<1>6. C \in Seq(Statements) /\ Len(C) = nu
  <2>1. \A n \in DOMAIN urls : C[n] \in Statements
    <3> SUFFICES ASSUME NEW n \in DOMAIN urls PROVE C[n] \in Statements
      OBVIOUS
    <3>1. urls[n] \in Urls
      BY <1>1, ElementOfSeq, LenProperties
    <3>2. [do |-> "link", id |-> id, url |-> urls[n]] \in [do : {"link"}, id : Ids, url : Urls]
      BY <1>2, <3>1
    <3> QED BY <3>2 DEF Statements
  <2>2. DOMAIN C = DOMAIN urls /\ C = [n \in DOMAIN urls |-> C[n]]
    OBVIOUS
  <2> HIDE DEF C
  <2> QED BY <1>1, <2>1, <2>2, MapPlaces
<1>7. D \in Seq(Statements) /\ Len(D) = na
  <2>1. \A n \in DOMAIN atts : D[n] \in Statements
    <3> SUFFICES ASSUME NEW n \in DOMAIN atts PROVE D[n] \in Statements
      OBVIOUS
    <3>1. atts[n] \in Atts
      BY <1>1, ElementOfSeq, LenProperties
    <3>2. [do |-> "att", id |-> id, att |-> atts[n]] \in [do : {"att"}, id : Ids, att : Atts]
      BY <1>2, <3>1
    <3> QED BY <3>2 DEF Statements
  <2>2. DOMAIN D = DOMAIN atts /\ D = [n \in DOMAIN atts |-> D[n]]
    OBVIOUS
  <2> HIDE DEF D
  <2> QED BY <1>1, <2>1, <2>2, MapPlaces
<1>8. /\ DOMAIN people = 1..np /\ np \in Nat /\ DOMAIN urls = 1..nu /\ nu \in Nat
      /\ DOMAIN atts = 1..na /\ na \in Nat
  BY <1>1, LenProperties
<1>9. /\ \A k \in 1..np : B[k] =
            [do |-> "contact", email |-> people[k].email, name |-> people[k].name]
      /\ \A k \in 1..nu : C[k] = [do |-> "link", id |-> id, url |-> urls[k]]
      /\ \A k \in 1..na : D[k] = [do |-> "att", id |-> id, att |-> atts[k]]
  BY <1>8
<1> HIDE DEF A, B, C, D, np, nu, na, row
<1>s. A \in Seq(Statements) /\ B \in Seq(Statements)
  BY <1>4, <1>5
<1> DEFINE AB == A \o B
           ABC == AB \o C
<1>10. /\ AB \in Seq(Statements) /\ Len(AB) = 1 + np
       /\ \A k \in 1..1 : AB[k] = A[k]
       /\ \A k \in 1..np : AB[1 + k] = B[k]
  <2>1. /\ A \o B \in Seq(Statements) /\ Len(A \o B) = Len(A) + Len(B)
        /\ \A k \in 1..Len(A) : (A \o B)[k] = A[k]
        /\ \A k \in 1..Len(B) : (A \o B)[Len(A) + k] = B[k]
    BY <1>s, ConcatPlaces
  <2>2. AB = A \o B
    OBVIOUS
  <2> HIDE DEF AB
  <2> QED BY <1>4, <1>5, <2>1, <2>2
<1> HIDE DEF AB
<1>11. /\ ABC \in Seq(Statements) /\ Len(ABC) = 1 + np + nu
       /\ \A k \in 1..(1 + np) : ABC[k] = AB[k]
       /\ \A k \in 1..nu : ABC[1 + np + k] = C[k]
  <2>s. AB \in Seq(Statements) /\ C \in Seq(Statements)
    BY <1>6, <1>10
  <2>1. /\ AB \o C \in Seq(Statements) /\ Len(AB \o C) = Len(AB) + Len(C)
        /\ \A k \in 1..Len(AB) : (AB \o C)[k] = AB[k]
        /\ \A k \in 1..Len(C) : (AB \o C)[Len(AB) + k] = C[k]
    BY <2>s, ConcatPlaces
  <2>2. ABC = AB \o C
    OBVIOUS
  <2> HIDE DEF ABC
  <2> QED BY <1>10, <1>6, <2>1, <2>2
<1> HIDE DEF ABC
<1>12. q = ABC \o D
  BY <1>3 DEF AB, ABC
<1>13. /\ q \in Seq(Statements) /\ Len(q) = 1 + np + nu + na
       /\ \A k \in 1..(1 + np + nu) : q[k] = ABC[k]
       /\ \A k \in 1..na : q[1 + np + nu + k] = D[k]
  <2>s. ABC \in Seq(Statements) /\ D \in Seq(Statements)
    BY <1>7, <1>11
  <2>1. /\ ABC \o D \in Seq(Statements) /\ Len(ABC \o D) = Len(ABC) + Len(D)
        /\ \A k \in 1..Len(ABC) : (ABC \o D)[k] = ABC[k]
        /\ \A k \in 1..Len(D) : (ABC \o D)[Len(ABC) + k] = D[k]
    BY <2>s, ConcatPlaces
  <2>2. q = ABC \o D
    BY <1>12
  <2> QED BY <1>11, <1>7, <2>1, <2>2
<1>14. q[1] = row
  <2>1. 1 \in 1..(1 + np + nu) /\ 1 \in 1..(1 + np) /\ 1 \in 1..1
    BY <1>8
  <2>2. q[1] = ABC[1]
    BY <1>13, <2>1
  <2>3. ABC[1] = AB[1]
    BY <1>11, <2>1
  <2>4. AB[1] = A[1]
    BY <1>4, <1>10, <2>1
  <2> QED BY <1>4, <2>2, <2>3, <2>4
<1>15. ASSUME NEW k \in 1..np PROVE q[1 + k] = B[k]
  <2>1. 1 + k \in 1..(1 + np + nu) /\ 1 + k \in 1..(1 + np)
    BY <1>8
  <2> QED BY <1>10, <1>11, <1>13, <2>1
<1>16. ASSUME NEW k \in 1..nu PROVE q[1 + np + k] = C[k]
  <2>1. 1 + np + k \in 1..(1 + np + nu)
    BY <1>8
  <2> QED BY <1>11, <1>13, <2>1
<1> QED BY <1>8, <1>9, <1>13, <1>14, <1>15, <1>16 DEF q, id, mail, people, urls, atts, np, nu, na, row

LEMMA AppliedPiece ==
  ASSUME NEW b \in Boxes, NEW m \in Msgs, NEW v \in VersionsOf(b, m), NEW G,
         MessageHash(b, m) \notin G
  PROVE  Piece(applyMessage(b, m, v), G)
<1> DEFINE q == applyMessage(b, m, v)
           id == MessageHash(b, m)
           mail == Mail[<<b, m, v>>]
           people == contactsOf(mail)
           urls == extractLinks(mail.urls)
           atts == mail.atts
           np == Len(people)
           nu == Len(urls)
           na == Len(atts)
           row == [do |-> "row", id |-> id, box |-> b, v |-> v, folder |-> resolve(mail.labels)]
<1>1. /\ q \in Seq(Statements) /\ Len(q) = 1 + np + nu + na
      /\ np \in Nat /\ nu \in Nat /\ na \in Nat
      /\ q[1] = row
      /\ \A k \in 1..np : q[1 + k] =
            [do |-> "contact", email |-> people[k].email, name |-> people[k].name]
      /\ \A k \in 1..nu : q[1 + np + k] = [do |-> "link", id |-> id, url |-> urls[k]]
      /\ \A k \in 1..na : q[1 + np + nu + k] = [do |-> "att", id |-> id, att |-> atts[k]]
  BY AppliedPlaces
<1>2. MailAt(id, v) = mail
  BY DEF MailAt, MessageHash
<1>3. Honest(id, v, resolve(mail.labels))
  BY <1>2 DEF Honest, MessageHash
<1>4. /\ people \in Seq(People) /\ urls \in Seq(Urls) /\ atts \in Seq(Atts)
      /\ ToSet(urls) = ToSet(mail.urls)
  BY MailIs
<1>5. DOMAIN people = 1..np /\ DOMAIN urls = 1..nu /\ DOMAIN atts = 1..na
  BY <1>4, LenProperties
<1>6. id \notin G
  OBVIOUS
<1> HIDE DEF q, id
<1>7. Follows(q, 1, id, v)
  <2>1. ASSUME NEW u \in ToSet(mail.urls) PROVE \E j \in 2..Len(q) : AddsLink(q[j], id, u)
    <3>1. PICK k \in 1..nu : urls[k] = u
      BY <1>4, <1>5 DEF ToSet
    <3> DEFINE j == 1 + np + k
    <3> HIDE DEF np, nu, na, urls, mail
    <3>2. j \in 2..Len(q)
      BY <1>1
    <3>3. q[j] = [do |-> "link", id |-> id, url |-> u]
      BY <1>1, <3>1
    <3>4. AddsLink(q[j], id, u)
      BY <3>3 DEF AddsLink, Is
    <3> HIDE DEF j
    <3> QED BY <3>2, <3>4
  <2>2. ASSUME NEW a \in ToSet(atts) PROVE \E j \in 2..Len(q) : AddsAtt(q[j], id, a)
    <3>1. PICK k \in 1..na : atts[k] = a
      BY <1>5 DEF ToSet
    <3> DEFINE j == 1 + np + nu + k
    <3> HIDE DEF np, nu, na, atts
    <3>2. j \in 2..Len(q)
      BY <1>1
    <3>3. q[j] = [do |-> "att", id |-> id, att |-> a]
      BY <1>1, <3>1
    <3>4. AddsAtt(q[j], id, a)
      BY <3>3 DEF AddsAtt, Is
    <3> HIDE DEF j
    <3> QED BY <3>2, <3>4
  <2>3. ASSUME NEW p \in ToSet(people) PROVE \E j \in 2..Len(q) : Adds(q[j], Canonical[p.email])
    <3>1. PICK k \in 1..np : people[k] = p
      BY <1>5 DEF ToSet
    <3> DEFINE j == 1 + k
    <3> HIDE DEF np, nu, na, people
    <3>2. j \in 2..Len(q)
      BY <1>1
    <3>3. q[j] = [do |-> "contact", email |-> p.email, name |-> p.name]
      BY <1>1, <3>1
    <3>4. q[j].do = "contact" /\ q[j].email = p.email
      BY <3>3
    <3>5. Adds(q[j], Canonical[p.email])
      BY <3>4, Zenon DEF Adds
    <3> HIDE DEF j
    <3> QED BY <3>2, <3>5
  <2>4. 1 + 1 = 2
    OBVIOUS
  <2> HIDE DEF people, atts, mail, urls, np, nu, na
  <2> QED BY <1>2, <2>1, <2>2, <2>3, <2>4, Zenon DEF Follows, people, atts
<1>8. ASSUME NEW k \in 1..Len(q), k # 1
      PROVE  /\ q[k].do \in {"contact", "link", "att"}
             /\ q[k].do \in {"link", "att"} => q[k].id = id
  <2> HIDE DEF people, atts, mail, urls, np, nu, na
  <2>1. \/ k - 1 \in 1..np /\ k = 1 + (k - 1)
        \/ k - 1 - np \in 1..nu /\ k = 1 + np + (k - 1 - np)
        \/ k - 1 - np - nu \in 1..na /\ k = 1 + np + nu + (k - 1 - np - nu)
    BY <1>1, <1>8
  <2>2. CASE k - 1 \in 1..np /\ k = 1 + (k - 1)
    <3>1. q[k] = [do |-> "contact", email |-> people[k - 1].email, name |-> people[k - 1].name]
      BY <1>1, <2>2
    <3> QED BY <3>1
  <2>3. CASE k - 1 - np \in 1..nu /\ k = 1 + np + (k - 1 - np)
    <3>1. q[k] = [do |-> "link", id |-> id, url |-> urls[k - 1 - np]]
      BY <1>1, <2>3
    <3> QED BY <3>1
  <2>4. CASE k - 1 - np - nu \in 1..na /\ k = 1 + np + nu + (k - 1 - np - nu)
    <3>1. q[k] = [do |-> "att", id |-> id, att |-> atts[k - 1 - np - nu]]
      BY <1>1, <2>4, ZenonT(60)
    <3> QED BY <3>1
  <2> QED BY <2>1, <2>2, <2>3, <2>4
<1>9. /\ q[1].do = "row" /\ q[1].id = id /\ q[1].v = v
      /\ Honest(q[1].id, q[1].v, q[1].folder)
  <2>1. q[1].do = "row" /\ q[1].id = id /\ q[1].v = v /\ q[1].folder = resolve(mail.labels)
    BY <1>1
  <2> HIDE DEF mail
  <2> QED BY <1>3, <2>1
<1> HIDE DEF people, atts, mail, urls, np, nu, na, row
<1>10. ASSUME NEW k \in 1..Len(q), k # 1 PROVE Before(q, k, "row", id)
  <2>1. 1 \in 1..(k - 1)
    BY <1>1, <1>10
  <2> QED BY <1>9, <2>1 DEF Before, Is
<1>11. ASSUME NEW k \in 1..Len(q)
       PROVE  /\ q[k].do \notin BoxKinds
              /\ q[k].do = "unrow" => q[k].id \in G
              /\ q[k].do \in {"row", "link", "att"} => q[k].id \notin G
              /\ q[k].do = "row" =>
                  Honest(q[k].id, q[k].v, q[k].folder) /\ Follows(q, k, q[k].id, q[k].v)
              /\ q[k].do \in {"link", "att"} => Before(q, k, "row", q[k].id)
              /\ q[k].do \in {"unlink", "unatt", "unvec"} => After(q, k, "unrow", q[k].id)
              /\ q[k].do = "unrow" =>
                  /\ Before(q, k, "unlink", q[k].id) /\ Before(q, k, "unatt", q[k].id)
                  /\ Before(q, k, "unvec", q[k].id)
  <2>1. CASE k = 1
    BY <1>6, <1>7, <1>9, <2>1 DEF BoxKinds
  <2>2. CASE k # 1
    BY <1>6, <1>8, <1>10, <2>2 DEF BoxKinds
  <2> QED BY <2>1, <2>2
<1>12. q \in Seq(Statements)
  BY <1>1
<1>13. Piece(q, G)
  BY <1>11, <1>12 DEF Piece
<1> QED BY <1>13 DEF q

LEMMA RemovedPiece ==
  ASSUME NEW b \in Boxes, NEW m \in Msgs, NEW G, MessageHash(b, m) \in G
  PROVE  Piece(deleteMessageByProtonID(b, m), G)
<1> DEFINE q == deleteMessageByProtonID(b, m)
           id == MessageHash(b, m)
<1>1. id \in Ids /\ id \in G
  BY DEF Ids
<1> HIDE DEF id
<1>2. /\ [do |-> "unlink", id |-> id] \in Statements
      /\ [do |-> "unatt", id |-> id] \in Statements
      /\ [do |-> "unvec", id |-> id] \in Statements
      /\ [do |-> "unrow", id |-> id] \in Statements
  <2>1. \A kind \in IdKinds : [do |-> kind, id |-> id] \in Statements
    BY <1>1 DEF Statements
  <2> QED BY <2>1 DEF IdKinds
<1>3. /\ q \in Seq(Statements) /\ Len(q) = 4
      /\ q[1] = [do |-> "unlink", id |-> id] /\ q[2] = [do |-> "unatt", id |-> id]
      /\ q[3] = [do |-> "unvec", id |-> id] /\ q[4] = [do |-> "unrow", id |-> id]
  <2>1. q = <<[do |-> "unlink", id |-> id], [do |-> "unatt", id |-> id],
              [do |-> "unvec", id |-> id], [do |-> "unrow", id |-> id]>>
    BY DEF deleteMessageByProtonID, id
  <2> HIDE DEF q
  <2> QED BY <1>2, <2>1
<1> HIDE DEF q
<1>4. /\ Is(q[1], "unlink", id) /\ Is(q[2], "unatt", id) /\ Is(q[3], "unvec", id)
      /\ Is(q[4], "unrow", id)
  BY <1>3 DEF Is
<1>5. \A k \in 1..4 : k = 4 \/ (k \in 1..3 /\ 4 \in (k + 1)..Len(q))
  BY <1>3
<1>6. \A k \in 1..3 : k = 1 \/ k = 2 \/ k = 3
  OBVIOUS
<1>7. 1 \in 1..(4 - 1) /\ 2 \in 1..(4 - 1) /\ 3 \in 1..(4 - 1)
  OBVIOUS
<1>8. Before(q, 4, "unlink", id) /\ Before(q, 4, "unatt", id) /\ Before(q, 4, "unvec", id)
  BY <1>4, <1>7, Zenon DEF Before
<1>9. ASSUME NEW k \in 1..3
      PROVE  After(q, k, "unrow", id) /\ q[k].do \in {"unlink", "unatt", "unvec"} /\ q[k].id = id
  <2>1. 4 \in (k + 1)..Len(q)
    BY <1>5, <1>3
  <2>2. After(q, k, "unrow", id)
    BY <1>4, <2>1, Zenon DEF After
  <2>3. q[k].do \in {"unlink", "unatt", "unvec"} /\ q[k].id = id
    BY <1>4, <1>6 DEF Is
  <2> QED BY <2>2, <2>3
<1>10. ASSUME NEW k \in 1..Len(q)
       PROVE  /\ q[k].do \notin BoxKinds
              /\ q[k].do = "unrow" => q[k].id \in G
              /\ q[k].do \notin {"row", "link", "att"}
              /\ q[k].do \in {"unlink", "unatt", "unvec"} => After(q, k, "unrow", q[k].id)
              /\ q[k].do = "unrow" =>
                  /\ Before(q, k, "unlink", q[k].id) /\ Before(q, k, "unatt", q[k].id)
                  /\ Before(q, k, "unvec", q[k].id)
  <2>1. CASE k = 4
    <3>1. q[k].do = "unrow" /\ q[k].id = id
      BY <1>4, <2>1 DEF Is
    <3> QED BY <1>1, <1>8, <2>1, <3>1 DEF BoxKinds
  <2>2. CASE k \in 1..3
    BY <1>9, <2>2 DEF BoxKinds
  <2> QED BY <1>3, <1>5, <2>1, <2>2
<1>11. Piece(q, G)
  BY <1>3, <1>10 DEF Piece
<1> QED BY <1>11 DEF q

\* The statements that touch only the sync's own rows.
LEMMA BookkeepingPiece ==
  ASSUME NEW b \in Boxes, NEW kind \in {"cursor", "uncursor", "run"}, NEW G
  PROVE  Piece(<<[do |-> kind, box |-> b]>>, G)
<1> DEFINE s == [do |-> kind, box |-> b]
           q == <<s>>
<1>1. s \in Statements
  BY DEF Statements
<1>2. s.do \in {"cursor", "uncursor", "run"}
  OBVIOUS
<1> HIDE DEF s
<1>3. q \in Seq(Statements) /\ \A k \in 1..Len(q) : q[k] = s
  BY <1>1
<1> HIDE DEF q
<1>4. \A k \in 1..Len(q) : q[k].do \in {"cursor", "uncursor", "run"}
  BY <1>2, <1>3
<1>5. Piece(q, G)
  BY <1>3, <1>4 DEF Piece, BoxKinds
<1> QED BY <1>5 DEF q, s

LEMMA OneElement ==
  ASSUME NEW T, NEW q \in T
  PROVE  LET r == [i \in {1} |-> q] IN r \in Seq(T) /\ \A i \in 1..Len(r) : r[i] = q
<1> DEFINE r == [i \in {1} |-> q]
<1>1. 1..1 = {1} /\ 1 \in Nat
  OBVIOUS
<1>2. r \in [1..1 -> T]
  BY <1>1
<1>3. r \in Seq(T)
  <2> HIDE DEF r
  <2>1. \A n \in Nat : \A f \in [1..n -> T] : f \in Seq(T)
    OBVIOUS
  <2> QED BY <1>1, <1>2, <2>1, Zenon
<1>4. DOMAIN r = 1..Len(r) /\ DOMAIN r = {1}
  BY <1>3, LenProperties
<1>5. \A i \in DOMAIN r : r[i] = q
  OBVIOUS
<1> QED BY <1>3, <1>4, <1>5

\* A batch of one write and any deletions of other messages, or of deletions only.
LEMMA BatchPiece ==
  ASSUME NEW b \in Boxes, NEW m \in Msgs, NEW v \in VersionsOf(b, m), NEW gone \in SUBSET (Msgs \ {m})
  PROVE  Piece(Batch(b, <<[msg |-> m, v |-> v]>>, SetToSeq(gone)), {<<b, g>> : g \in gone})
<1> DEFINE G == {<<b, g>> : g \in gone}
           writes == <<[msg |-> m, v |-> v]>>
           gs == SetToSeq(gone)
           stored == [i \in DOMAIN writes |-> applyMessage(b, writes[i].msg, writes[i].v)]
           removed == [i \in DOMAIN gs |-> deleteMessageByProtonID(b, gs[i])]
<1>1. gs \in Seq(gone)
  <2>1. IsFiniteSet(gone)
    BY CacheRowsConstants, FS_Subset
  <2> QED BY <2>1, SetToSeqIs
<1>2. Piece(applyMessage(b, m, v), G)
  <2>1. MessageHash(b, m) \notin G
    BY DEF MessageHash
  <2> HIDE DEF G
  <2> QED BY <2>1, AppliedPiece
<1>3. stored \in Seq(Seq(Statements)) /\ \A i \in 1..Len(stored) : Piece(stored[i], G)
  <2>1. DOMAIN writes = {1} /\ writes[1].msg = m /\ writes[1].v = v
    OBVIOUS
  <2> DEFINE q == applyMessage(b, m, v)
  <2> HIDE DEF writes, G
  <2>2. \A i \in {1} : applyMessage(b, writes[i].msg, writes[i].v) = q
    BY <2>1
  <2>3. stored = [i \in {1} |-> q]
    BY <2>1, <2>2
  <2>4. q \in Seq(Statements)
    BY <1>2 DEF Piece
  <2> HIDE DEF stored, q
  <2>5. stored \in Seq(Seq(Statements)) /\ \A i \in 1..Len(stored) : stored[i] = q
    BY <2>3, <2>4, OneElement
  <2> QED BY <1>2, <2>5 DEF q
<1>4. removed \in Seq(Seq(Statements)) /\ \A i \in 1..Len(removed) : Piece(removed[i], G)
  <2>1. DOMAIN gs = 1..Len(gs) /\ Len(gs) \in Nat /\ \A i \in 1..Len(gs) : gs[i] \in gone
    BY <1>1, LenProperties, ElementOfSeq
  <2> HIDE DEF gs
  <2>2. ASSUME NEW i \in DOMAIN gs
        PROVE  removed[i] = deleteMessageByProtonID(b, gs[i]) /\ Piece(removed[i], G)
    <3>1. gs[i] \in gone
      BY <2>1
    <3>2. gs[i] \in Msgs /\ MessageHash(b, gs[i]) \in G
      BY <3>1 DEF MessageHash
    <3> HIDE DEF G
    <3> QED BY <3>2, RemovedPiece
  <2>3. DOMAIN removed = DOMAIN gs /\ removed = [i \in DOMAIN gs |-> removed[i]]
    OBVIOUS
  <2> HIDE DEF removed, G
  <2>4. \A i \in DOMAIN gs : removed[i] \in Seq(Statements)
    BY <2>2 DEF Piece
  <2>5. removed \in Seq(Seq(Statements)) /\ Len(removed) = Len(gs)
    BY <1>1, <2>3, <2>4, MapPlaces DEF gs
  <2> QED BY <2>1, <2>2, <2>5
<1> HIDE DEF stored, removed, G
<1>5. Piece(FlattenSeq(stored), G) /\ Piece(FlattenSeq(removed), G)
  BY <1>3, <1>4, Flattened
<1>6. Piece(<<[do |-> "cursor", box |-> b]>>, G)
  BY BookkeepingPiece
<1>7. Piece(FlattenSeq(stored) \o FlattenSeq(removed) \o <<[do |-> "cursor", box |-> b]>>, G)
  BY <1>5, <1>6, Joined
<1> QED BY <1>7 DEF Batch, stored, removed, G

LEMMA DeletionsPiece ==
  ASSUME NEW b \in Boxes, NEW m \in Msgs
  PROVE  Piece(Batch(b, <<>>, <<m>>), {<<b, m>>})
<1> DEFINE G == {<<b, m>>}
           stored == [i \in DOMAIN <<>> |-> applyMessage(b, <<>>[i].msg, <<>>[i].v)]
           gs == <<m>>
           removed == [i \in DOMAIN gs |-> deleteMessageByProtonID(b, gs[i])]
           q == deleteMessageByProtonID(b, m)
<1>1. Piece(q, G)
  BY RemovedPiece DEF MessageHash
<1>2. removed \in Seq(Seq(Statements)) /\ \A i \in 1..Len(removed) : Piece(removed[i], G)
  <2>1. DOMAIN gs = {1} /\ gs[1] = m
    OBVIOUS
  <2> HIDE DEF gs, G
  <2>2. \A i \in {1} : deleteMessageByProtonID(b, gs[i]) = q
    BY <2>1
  <2>3. removed = [i \in {1} |-> q]
    BY <2>1, <2>2
  <2>4. q \in Seq(Statements)
    BY <1>1 DEF Piece
  <2> HIDE DEF removed, q
  <2>5. removed \in Seq(Seq(Statements)) /\ \A i \in 1..Len(removed) : removed[i] = q
    BY <2>3, <2>4, OneElement
  <2> QED BY <1>1, <2>5
<1>3. stored \in Seq(Seq(Statements)) /\ Len(stored) = 0
  <2>1. stored = <<>>
    OBVIOUS
  <2> HIDE DEF stored
  <2> QED BY <2>1
<1> HIDE DEF stored, removed, G
<1>4. Piece(FlattenSeq(stored), G)
  <2>1. \A i \in 1..Len(stored) : Piece(stored[i], G)
    BY <1>3
  <2> QED BY <1>3, <2>1, Flattened
<1>5. Piece(FlattenSeq(removed), G)
  BY <1>2, Flattened
<1>6. Piece(<<[do |-> "cursor", box |-> b]>>, G)
  BY BookkeepingPiece
<1>7. Piece(FlattenSeq(stored) \o FlattenSeq(removed) \o <<[do |-> "cursor", box |-> b]>>, G)
  BY <1>4, <1>5, <1>6, Joined
<1> QED BY <1>7 DEF Batch, stored, removed, G, gs

-----------------------------------------------------------------------------
(* Between transactions.                                                   *)

\* The tables as every reader finds them.
Settled(d) ==
    /\ d \in Tables /\ Accepts(d) /\ Unorphaned(d) /\ Indexed(d) /\ Owned(d)
    /\ Whole(<<>>, d)

LEMMA NothingToDo ==
  ASSUME NEW d
  PROVE  /\ <<>> \in Seq(Statements) /\ Len(<<>>) = 0
         /\ \A k \in 1..Len(<<>>) : FALSE
         /\ MailPlan(<<>>, d)
         /\ \A i : ~Doomed(<<>>, d, i)
<1>1. <<>> \in Seq(Statements) /\ Len(<<>>) = 0 /\ \A k \in 1..Len(<<>>) : FALSE
  OBVIOUS
<1> QED BY <1>1, Zenon DEF MailPlan, Doomed

LEMMA KeepsItself ==
  ASSUME NEW d \in Tables, NEW todo
  PROVE  Keeping(d, todo, d)
<1>1. Len(d.names) \in Nat
  BY TableFields, LenProperties
<1> QED BY <1>1 DEF Keeping

LEMMA SettledIs ==
  ASSUME NEW d
  PROVE  TxInv(d, <<>>, d) <=> Settled(d)
<1>1. TxInv(d, <<>>, d) => Settled(d)
  BY DEF TxInv, Settled
<1>2. Settled(d) => TxInv(d, <<>>, d)
  BY NothingToDo, KeepsItself DEF TxInv, Settled
<1> QED BY <1>1, <1>2

LEMMA IdParts ==
  ASSUME NEW i \in Ids
  PROVE  i[1] \in Boxes /\ i[2] \in Msgs
<1>1. PICK b \in Boxes, m \in Msgs : i = <<b, m>>
  BY DEF Ids, MessageHash
<1> QED BY <1>1

\* A settled message has all that it names.
LEMMA WholeIs ==
  ASSUME NEW d
  PROVE  Whole(<<>>, d) <=>
           \A i \in Ids : HasRow(d, i) =>
             /\ Honest(i, d.rows[i].v, d.rows[i].folder)
             /\ \A u \in ToSet(MailAt(i, d.rows[i].v).urls) : <<i, u>> \in d.links
             /\ \A a \in ToSet(MailAt(i, d.rows[i].v).atts) : <<i, a>> \in d.atts
             /\ \A p \in ToSet(contactsOf(MailAt(i, d.rows[i].v))) :
                  Canonical[p.email] = "" \/ \E o \in d.owner : o[1] = Canonical[p.email]
  BY NothingToDo, Zenon DEF Whole

LEMMA BeginKeeps ==
  ASSUME NEW d, Settled(d), NEW todo \in Seq(Statements), MailPlan(todo, d) \/ BoxPlan(todo, d)
  PROVE  TxInv(d, todo, d)
<1>1. Keeping(d, todo, d)
  BY KeepsItself DEF Settled
<1>2. Whole(todo, d)
  BY WholeIs, Zenon DEF Whole, Settled
<1> QED BY <1>1, <1>2 DEF TxInv, Settled

LEMMA PieceBegins ==
  ASSUME NEW d, Settled(d), NEW todo, NEW G, Piece(todo, G)
  PROVE  TxInv(d, todo, d)
<1>1. MailPlan(todo, d)
  BY PieceIsPlan
<1>2. todo \in Seq(Statements)
  BY DEF Piece
<1> QED BY <1>1, <1>2, BeginKeeps

LEMMA DeleteBegins ==
  ASSUME NEW d, Settled(d), NEW b \in Boxes
  PROVE  TxInv(d, DeleteMailbox(b), d)
<1> DEFINE q == DeleteMailbox(b)
<1>1. q \in Seq(Statements) /\ Len(q) = 7
  BY DeletePlaces
<1> HIDE DEF q
<1>2. BoxPlan(q, d)
  <2>1. \A k \in 1..Len(q) : 0 + k = k
    BY <1>1
  <2>2. \A k \in 1..Len(q) : q[k] = q[0 + k]
    BY <2>1
  <2>3. 0 \in 0..7 /\ Len(q) = 7 - 0 /\ 0 \notin 1..3 /\ 0 \notin 2..3 /\ 0 # 3
    BY <1>1
  <2> QED BY <2>2, <2>3, Zenon DEF BoxPlan, q
<1>3. TxInv(d, q, d)
  BY <1>1, <1>2, BeginKeeps
<1> QED BY <1>3 DEF q

LEMMA CommitKeeps ==
  ASSUME NEW c, NEW d, TxInv(c, <<>>, d)
  PROVE  Settled(d)
  BY DEF TxInv, Settled

\* A later pass adds to what hangs off messages that are there.
LEMMA DeriveKeeps ==
  ASSUME NEW d, Settled(d), NEW e,
         \/ \E i \in Ids : HasRow(d, i) /\ e = [d EXCEPT !.vecs = @ \cup {i}]
         \/ \E a \in d.atts : e = [d EXCEPT !.texts = @ \cup {a}]
  PROVE  /\ Settled(e) /\ e.owner = d.owner /\ e.names = d.names
         /\ d.vecs \subseteq e.vecs /\ d.texts \subseteq e.texts
<1>1. d \in Tables
  BY DEF Settled
<1>2. /\ e \in Tables
      /\ e.boxes = d.boxes /\ e.rows = d.rows /\ e.box = d.box /\ e.fts = d.fts
      /\ e.links = d.links /\ e.atts = d.atts /\ e.names = d.names /\ e.owner = d.owner
      /\ e.cursor = d.cursor /\ e.runs = d.runs
      /\ d.vecs \subseteq e.vecs /\ d.texts \subseteq e.texts
      /\ \A i \in e.vecs : i \in d.vecs \/ HasRow(d, i)
      /\ \A a \in e.texts : a \in d.texts \/ a \in d.atts
  <2>1. CASE \E i \in Ids : HasRow(d, i) /\ e = [d EXCEPT !.vecs = @ \cup {i}]
    <3>1. PICK i \in Ids : HasRow(d, i) /\ e = [d EXCEPT !.vecs = @ \cup {i}]
      BY <2>1
    <3>2. d.vecs \cup {i} \subseteq Ids
      BY <1>1, TableFields
    <3>3. e \in Tables
      BY <1>1, <3>1, <3>2 DEF Tables
    <3>4. /\ e.boxes = d.boxes /\ e.rows = d.rows /\ e.box = d.box /\ e.fts = d.fts
          /\ e.links = d.links /\ e.atts = d.atts /\ e.names = d.names /\ e.owner = d.owner
          /\ e.cursor = d.cursor /\ e.runs = d.runs
          /\ e.vecs = d.vecs \cup {i} /\ e.texts = d.texts
      BY <1>1, <3>1 DEF Tables
    <3> QED BY <3>1, <3>3, <3>4
  <2>2. CASE \E a \in d.atts : e = [d EXCEPT !.texts = @ \cup {a}]
    <3>1. PICK a \in d.atts : e = [d EXCEPT !.texts = @ \cup {a}]
      BY <2>2
    <3>2. d.texts \cup {a} \subseteq Ids \X Atts
      BY <1>1, TableFields
    <3>3. e \in Tables
      BY <1>1, <3>1, <3>2 DEF Tables
    <3>4. /\ e.boxes = d.boxes /\ e.rows = d.rows /\ e.box = d.box /\ e.fts = d.fts
          /\ e.links = d.links /\ e.atts = d.atts /\ e.names = d.names /\ e.owner = d.owner
          /\ e.cursor = d.cursor /\ e.runs = d.runs
          /\ e.texts = d.texts \cup {a} /\ e.vecs = d.vecs
      BY <1>1, <3>1 DEF Tables
    <3> QED BY <3>1, <3>3, <3>4
  <2> QED BY <2>1, <2>2
<1>3. \A i : HasRow(e, i) <=> HasRow(d, i)
  BY <1>2 DEF HasRow
<1>4. Unorphaned(e)
  BY <1>2, <1>3 DEF Settled, Unorphaned
<1>5. Indexed(e)
  BY <1>2 DEF Settled, Indexed, HasRow
<1>6. Owned(e)
  BY <1>2 DEF Settled, Owned
<1>7. Whole(<<>>, e)
  <2>1. Whole(<<>>, d)
    BY DEF Settled
  <2>2. e.rows = d.rows /\ e.links = d.links /\ e.atts = d.atts /\ e.owner = d.owner
    BY <1>2
  <2> QED BY <1>3, <2>1, <2>2, WholeIs, ZenonT(60)
<1>8. Accepts(e)
  BY <1>2 DEF Settled, Accepts
<1> QED BY <1>2, <1>4, <1>5, <1>6, <1>7, <1>8 DEF Settled

LEMMA EmptySettled == Settled(EmptyCache)
<1> DEFINE d == EmptyCache
<1>1. /\ d.boxes = Boxes /\ d.rows = [i \in Ids |-> NoRow] /\ d.box = [i \in Ids |-> ""]
      /\ d.fts = {} /\ d.links = {} /\ d.atts = {} /\ d.texts = {} /\ d.vecs = {}
      /\ d.names = <<>> /\ d.owner = {} /\ d.cursor = {} /\ d.runs = {}
  BY DEF EmptyCache
<1>2. d \in Tables
  BY DEF EmptyCache, Tables
<1> HIDE DEF d
<1>3. \A i \in Ids : ~HasRow(d, i)
  BY <1>1 DEF HasRow
<1>4. Accepts(d)
  BY <1>1, <1>3 DEF Accepts, HasRow
<1>5. Unorphaned(d)
  BY <1>1 DEF Unorphaned
<1>6. Indexed(d)
  BY <1>1, <1>3 DEF Indexed
<1>7. Owned(d)
  <2>1. d.owner = {} /\ d.names = <<>>
    BY <1>1
  <2>2. Len(<<>>) = 0 /\ \A c \in 1..0 : FALSE
    OBVIOUS
  <2>3. \A c \in 1..Len(d.names) : FALSE
    BY <2>1, <2>2
  <2> QED BY <2>1, <2>3, Zenon DEF Owned
<1>8. Whole(<<>>, d)
  BY <1>3 DEF Whole
<1> QED BY <1>2, <1>4, <1>5, <1>6, <1>7, <1>8 DEF Settled, d

-----------------------------------------------------------------------------
(* The invariant holds.                                                    *)

LEMMA WriterBegins ==
  ASSUME CacheInv, NEW todo, Begin(todo), TxInv(db, todo, db)
  PROVE  CacheInv'
<1>1. tx' = [todo |-> todo, db |-> db] /\ db' = db /\ derived' = derived
  BY DEF Begin
<1>2. tx'.todo = todo /\ tx'.db = db
  BY <1>1
<1>3. derived' \in 0..MaxDerived /\ TxInv(db', <<>>, db')
  BY <1>1 DEF CacheInv
<1>4. TxInv(db', tx'.todo, tx'.db)
  BY <1>1, <1>2
<1> QED BY <1>3, <1>4 DEF CacheInv

LEMMA SyncKeeps ==
  ASSUME CacheInv, NEW b \in Boxes, SyncWrites(b)
  PROVE  CacheInv'
<1>1. Settled(db)
  BY SettledIs DEF CacheInv
<1>2. ASSUME NEW m \in Msgs, NEW v \in VersionsOf(b, m), Begin(applyMessage(b, m, v))
      PROVE  CacheInv'
  <2>1. Piece(applyMessage(b, m, v), {})
    BY AppliedPiece
  <2> QED BY <1>1, <1>2, <2>1, PieceBegins, WriterBegins
<1>3. ASSUME NEW m \in Msgs, NEW v \in VersionsOf(b, m), NEW gone \in SUBSET (Msgs \ {m}),
             Begin(Batch(b, <<[msg |-> m, v |-> v]>>, SetToSeq(gone)))
      PROVE  CacheInv'
  <2> DEFINE q == Batch(b, <<[msg |-> m, v |-> v]>>, SetToSeq(gone))
             G == {<<b, g>> : g \in gone}
  <2>1. Piece(q, G)
    BY BatchPiece
  <2>2. Begin(q)
    BY <1>3
  <2> HIDE DEF q, G
  <2> QED BY <1>1, <2>1, <2>2, PieceBegins, WriterBegins
<1>4. ASSUME NEW m \in Msgs, Begin(Batch(b, <<>>, <<m>>))
      PROVE  CacheInv'
  <2> DEFINE q == Batch(b, <<>>, <<m>>)
             G == {<<b, m>>}
  <2>1. Piece(q, G)
    BY DeletionsPiece
  <2>2. Begin(q)
    BY <1>4
  <2> HIDE DEF q, G
  <2> QED BY <1>1, <2>1, <2>2, PieceBegins, WriterBegins
<1>5. ASSUME NEW kind \in {"cursor", "uncursor", "run"}, Begin(<<[do |-> kind, box |-> b]>>)
      PROVE  CacheInv'
  <2> DEFINE q == <<[do |-> kind, box |-> b]>>
  <2>1. Piece(q, {})
    BY BookkeepingPiece
  <2>2. Begin(q)
    BY <1>5
  <2> HIDE DEF q
  <2> QED BY <1>1, <2>1, <2>2, PieceBegins, WriterBegins
<1> QED BY <1>2, <1>3, <1>4, <1>5 DEF SyncWrites

LEMMA CacheInvInit == Init => CacheInv
<1> SUFFICES ASSUME Init PROVE CacheInv
  OBVIOUS
<1>1. 0 \in 0..MaxDerived
  <2>1. MaxDerived \in Nat
    BY CacheRowsConstants, Zenon
  <2> QED BY <2>1
<1>2. TxInv(db, <<>>, db)
  BY EmptySettled, SettledIs DEF Init
<1> QED BY <1>1, <1>2 DEF Init, CacheInv

LEMMA CacheInvNext == CacheInv /\ [Next]_vars => CacheInv'
<1> SUFFICES ASSUME CacheInv, [Next]_vars PROVE CacheInv'
  OBVIOUS
<1>0. Settled(db) /\ derived \in 0..MaxDerived
  BY SettledIs DEF CacheInv
<1>1. ASSUME NEW b \in Boxes, SyncWrites(b) PROVE CacheInv'
  BY <1>1, SyncKeeps
<1>2. ASSUME NEW b \in Boxes, RemoveMailbox(b) PROVE CacheInv'
  <2>1. TxInv(db, DeleteMailbox(b), db)
    BY <1>0, DeleteBegins
  <2>2. Begin(DeleteMailbox(b))
    BY <1>2 DEF RemoveMailbox
  <2> QED BY <2>1, <2>2, WriterBegins
<1>3. CASE Derive
  <2>1. tx' = NoTx /\ derived' \in 0..MaxDerived
    <3>1. tx' = NoTx /\ derived < MaxDerived /\ derived' = derived + 1
      BY <1>3, Zenon DEF Derive
    <3>2. MaxDerived \in Nat
      BY CacheRowsConstants, Zenon
    <3> QED BY <1>0, <3>1, <3>2
  <2>2. Settled(db')
    BY <1>0, <1>3, DeriveKeeps DEF Derive, HasRow
  <2>3. TxInv(db', <<>>, db')
    BY <2>2, SettledIs
  <2> QED BY <2>1, <2>3 DEF CacheInv
<1>4. CASE Exec
  <2> DEFINE todo == tx.todo
             d == tx.db
             e == Effect(d, Head(todo))
  <2>1. TxInv(db, todo, d) /\ todo # <<>> /\ Accepts(e)
    BY <1>4 DEF Exec, CacheInv
  <2>2. TxInv(db, Tail(todo), e)
    BY <2>1, ExecKeeps
  <2>3. tx' = [todo |-> Tail(todo), db |-> e] /\ db' = db /\ derived' = derived
    BY <1>4 DEF Exec
  <2> HIDE DEF todo, d, e
  <2>4. tx'.todo = Tail(todo) /\ tx'.db = e
    BY <2>3
  <2>5. TxInv(db', tx'.todo, tx'.db)
    BY <2>2, <2>3, <2>4
  <2>6. TxInv(db', <<>>, db')
    BY <2>3 DEF CacheInv
  <2> QED BY <1>0, <2>3, <2>5, <2>6 DEF CacheInv
<1>5. CASE Commit
  <2>1. TxInv(db, <<>>, tx.db) /\ db' = tx.db /\ tx' = NoTx /\ derived' = derived
    BY <1>5 DEF Commit, CacheInv
  <2>2. TxInv(db', <<>>, db')
    BY <2>1, CommitKeeps, SettledIs
  <2> QED BY <1>0, <2>1, <2>2 DEF CacheInv
<1>6. CASE Fail
  <2>1. tx' = NoTx /\ db' = db /\ derived' = derived
    BY <1>6 DEF Fail, Rollback
  <2>2. TxInv(db', <<>>, db')
    BY <2>1 DEF CacheInv
  <2> QED BY <1>0, <2>1, <2>2 DEF CacheInv
<1>7. CASE UNCHANGED vars
  <2>1. tx' = tx /\ db' = db /\ derived' = derived
    BY <1>7 DEF vars
  <2> QED BY <2>1 DEF CacheInv
<1> QED BY <1>1, <1>2, <1>3, <1>4, <1>5, <1>6, <1>7 DEF Next

\* The invariant that everything below rests on: each transaction has yet to run
\* just the statements its tables still lack.
THEOREM CacheInvHolds == Spec => []CacheInv
<1> QED BY CacheInvInit, CacheInvNext, PTL DEF Spec

-----------------------------------------------------------------------------
(* What the invariant says of the committed tables.                        *)

\* Every table keeps its columns' types through each writer of internal/store,
\* inside an open transaction too.
THEOREM CacheTypes == Spec => []TypeOK
<1>1. CacheInv => TypeOK
  BY DEF CacheInv, TxInv, TypeOK
<1> QED BY <1>1, CacheInvHolds, PTL

\* No link, attachment, text or embedding is left of a message that is gone, and
\* no row of a mailbox that is gone: the explicit deletes of
\* deleteMessageByProtonID and DeleteMailbox, in their order, are enough.
THEOREM NothingIsOrphaned == Spec => []NothingOrphaned
<1>1. CacheInv => NothingOrphaned
  <2> SUFFICES ASSUME CacheInv PROVE NothingOrphaned
    OBVIOUS
  <2>1. db \in Tables /\ Accepts(db) /\ Unorphaned(db)
    BY SettledIs DEF CacheInv, Settled
  <2>2. /\ \A l \in db.links : l[1] \in Ids /\ HasRow(db, l[1])
        /\ \A a \in db.atts : a[1] \in Ids /\ HasRow(db, a[1])
        /\ \A i \in db.vecs : i \in Ids /\ HasRow(db, i)
        /\ db.texts \subseteq db.atts
    BY <2>1, TableFields DEF Unorphaned
  <2>3. {db.box[i] : i \in Cached} \cup db.cursor \cup db.runs \subseteq db.boxes
    BY <2>1 DEF Accepts, Cached
  <2> QED BY <2>2, <2>3 DEF NothingOrphaned, Cached, HasRow
<1> QED BY <1>1, CacheInvHolds, PTL

\* messages_fts is the cached bodies, each once: the triggers of the schema keep
\* it through inserts, updates and both kinds of delete.
THEOREM TheIndexIsTheCache == Spec => []IndexIsTheCache
<1>1. CacheInv => IndexIsTheCache
  BY SettledIs DEF CacheInv, Settled, Indexed, IndexIsTheCache, Cached, HasRow
<1> QED BY <1>1, CacheInvHolds, PTL

\* A reader that sees a message sees its links, attachments and correspondents:
\* applyMessage stores them in the transaction that stores the row.
THEOREM MessagesAreWhole == Spec => []RowsAreWhole
<1>1. CacheInv => RowsAreWhole
  <2> SUFFICES ASSUME CacheInv, NEW i \in Cached
               PROVE  /\ \A j \in DOMAIN MailOf(i).urls : <<i, MailOf(i).urls[j]>> \in db.links
                      /\ \A j \in DOMAIN MailOf(i).atts : <<i, MailOf(i).atts[j]>> \in db.atts
                      /\ LET people == contactsOf(MailOf(i))
                         IN  \A j \in DOMAIN people : Canonical[people[j].email] # "" =>
                              \E o \in db.owner : Canonical[o[1]] = Canonical[people[j].email]
    BY DEF RowsAreWhole
  <2>1. Owned(db) /\ Whole(<<>>, db) /\ i \in Ids /\ HasRow(db, i)
    BY SettledIs DEF CacheInv, Settled, Cached, HasRow
  <2>2. MailOf(i) = MailAt(i, db.rows[i].v)
    BY DEF MailOf, MailAt
  <2> DEFINE mail == MailOf(i)
             people == contactsOf(mail)
  <2>3. /\ \A u \in ToSet(mail.urls) : <<i, u>> \in db.links
        /\ \A a \in ToSet(mail.atts) : <<i, a>> \in db.atts
        /\ \A p \in ToSet(people) :
             Canonical[p.email] = "" \/ \E o \in db.owner : o[1] = Canonical[p.email]
    BY <2>1, <2>2, WholeIs
  <2>4. \A q : \A j \in DOMAIN q : q[j] \in ToSet(q)
    BY DEF ToSet
  <2>5. \A o \in db.owner : Canonical[o[1]] = o[1]
    BY <2>1 DEF Owned
  <2> HIDE DEF mail, people
  <2>6. \A j \in DOMAIN mail.urls : <<i, mail.urls[j]>> \in db.links
    BY <2>3, <2>4
  <2>7. \A j \in DOMAIN mail.atts : <<i, mail.atts[j]>> \in db.atts
    BY <2>3, <2>4
  <2>8. ASSUME NEW j \in DOMAIN people, Canonical[people[j].email] # ""
        PROVE  \E o \in db.owner : Canonical[o[1]] = Canonical[people[j].email]
    <3>1. people[j] \in ToSet(people)
      BY <2>4
    <3> QED BY <2>3, <2>5, <2>8, <3>1, Zenon
  <2> QED BY <2>6, <2>7, <2>8, Zenon DEF mail, people
<1> QED BY <1>1, CacheInvHolds, PTL

\* However an address is spelt, upsertContactIdentifier finds the one contact it
\* has, and no contact is left without an address or with two.
THEOREM ContactsAreOne == Spec => []OneContactEach
<1>1. CacheInv => OneContactEach
  <2> SUFFICES ASSUME CacheInv PROVE OneContactEach
    OBVIOUS
  <2>1. Owned(db)
    BY SettledIs DEF CacheInv, Settled
  <2> QED BY <2>1, Zenon DEF Owned, OneContactEach
<1> QED BY <1>1, CacheInvHolds, PTL

\* The folder stored with a message is the name of one of its own folder labels,
\* never of a label that is not a folder, and of the version that is stored.
THEOREM FoldersAreTheirOwn == Spec => []FolderIsItsOwn
<1>1. CacheInv => FolderIsItsOwn
  <2> SUFFICES ASSUME CacheInv, NEW i \in Cached, db.rows[i].folder # ""
               PROVE  \E j \in DOMAIN MailOf(i).labels :
                        LET l == MailOf(i).labels[j]
                        IN  /\ l \in DOMAIN Labels /\ Labels[l].name = db.rows[i].folder
                            /\ Labels[l].class # "label"
    BY DEF FolderIsItsOwn
  <2> DEFINE v == db.rows[i].v
             folder == db.rows[i].folder
             labels == MailOf(i).labels
  <2>1. /\ i \in Ids /\ MailOf(i) = MailAt(i, v)
        /\ v \in VersionsOf(i[1], i[2]) /\ folder = resolve(labels)
    <3>1. i \in Ids /\ HasRow(db, i) /\ Whole(<<>>, db)
      BY SettledIs DEF CacheInv, Settled, Cached, HasRow
    <3>2. MailOf(i) = MailAt(i, v)
      BY DEF MailOf, MailAt
    <3>3. Honest(i, v, folder)
      BY <3>1, WholeIs
    <3> QED BY <3>1, <3>2, <3>3 DEF Honest
  <2>2. i[1] \in Boxes /\ i[2] \in Msgs
    BY <2>1, IdParts, Zenon
  <2>3. labels \in Seq(STRING)
    BY <2>1, <2>2, MailIs, Zenon DEF MailAt
  <2> HIDE DEF labels
  <2>4. ToSet(labels) \cap FolderLabels # {}
    BY <2>1, Zenon DEF resolve
  <2>5. PICK j \in DOMAIN labels :
          labels[j] \in FolderLabels /\ Labels[labels[j]].name = resolve(labels)
    BY <2>3, <2>4, ResolveIs, Zenon
  <2>6. labels[j] \in DOMAIN Labels /\ Labels[labels[j]].class # "label"
    <3>1. labels[j] \in FolderLabels
      BY <2>5
    <3> QED BY <3>1 DEF FolderLabels
  <2>7. Labels[labels[j]].name = db.rows[i].folder
    BY <2>1, <2>5
  <2> QED BY <2>6, <2>7, Zenon DEF labels
<1> QED BY <1>1, CacheInvHolds, PTL

\* Embeddings and extracted texts outlive any number of re-syncs of their
\* message, and a contact's name is never overwritten: the upserts leave those
\* columns alone, whatever else a transaction does before it commits.
THEOREM DerivationsSurvive == Spec => DerivedSurvives
<1> DEFINE Survives ==
      /\ \A i \in db.vecs : Kept(i) => i \in db'.vecs
      /\ \A a \in db.texts : Kept(a[1]) => a \in db'.texts
      /\ db.owner \subseteq db'.owner
      /\ \A c \in 1..Len(db.names) : db.names[c] # "" => db'.names[c] = db.names[c]
<1>1. CacheInv /\ [Next]_vars => [Survives]_vars
  <2> SUFFICES ASSUME CacheInv, [Next]_vars PROVE [Survives]_vars
    OBVIOUS
  <2>0. Settled(db)
    BY SettledIs DEF CacheInv
  <2>1. CASE UNCHANGED vars
    BY <2>1
  <2>2. CASE UNCHANGED db
    BY <2>2
  <2>3. CASE Derive
    <3>1. /\ db'.owner = db.owner /\ db'.names = db.names
          /\ db.vecs \subseteq db'.vecs /\ db.texts \subseteq db'.texts
      BY <2>0, <2>3, DeriveKeeps DEF Derive, HasRow
    <3> QED BY <3>1
  <2>4. CASE Commit
    <3>1. Keeping(db, <<>>, db')
      BY <2>4 DEF Commit, CacheInv, TxInv
    <3>2. \A i : Gone(<<>>, db', i) => ~Kept(i)
      BY DEF Gone, Kept, HasRow
    <3>3. \A i \in db.vecs : Kept(i) => i \in db'.vecs
      BY <3>1, <3>2, NothingToDo, Zenon DEF Keeping
    <3>4. \A a \in db.texts : Kept(a[1]) => a \in db'.texts
      BY <3>1, <3>2, NothingToDo, Zenon DEF Keeping
    <3> QED BY <3>1, <3>3, <3>4, Zenon DEF Keeping
  <2>5. Derive \/ Commit \/ UNCHANGED db \/ UNCHANGED vars
    <3>1. \A b \in Boxes : SyncWrites(b) \/ RemoveMailbox(b) => UNCHANGED db
      BY DEF SyncWrites, RemoveMailbox, Begin
    <3>2. Exec \/ Fail => UNCHANGED db
      BY DEF Exec, Fail, Rollback
    <3> QED BY <3>1, <3>2 DEF Next
  <2> QED BY <2>1, <2>2, <2>3, <2>4, <2>5
<1> QED BY <1>1, CacheInvHolds, PTL DEF Spec, DerivedSurvives

=============================================================================
