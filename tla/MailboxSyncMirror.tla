-------------------------- MODULE MailboxSyncMirror --------------------------
(* The cache is a mirror: MailboxSync implements CacheContract, and keeps no *)
(* row of a deleted message before it has to bootstrap again.                *)
EXTENDS MailboxSyncProofs, WellFoundedInduction

-----------------------------------------------------------------------------
(* What NoLossInv leaves open: it speaks of messages Proton still holds.   *)

\* A message that is gone has a later event than those that say it is there.
StreamTells ==
    \A i \in 1..Len(log) :
        log[i].act \in {"create", "update"} =>
            \/ srv[log[i].msg] # 0
            \/ \E j \in (i + 1)..Len(log) : log[j].msg = log[i].msg

\* A decrypted version is current or has an event beyond the pass's position,
\* a message that is gone by now included.
WritesCurrent ==
    \A m \in Msgs : writes[m] # 0 => writes[m] = srv[m] \/ Owed(m, Mark)

\* Versions only go forward: a row is no newer than the write that replaces it,
\* nor a write than what Proton holds.
VersionsGrow ==
    \A m \in Msgs :
        /\ srv[m] # 0 => cache[m] <= srv[m] /\ writes[m] <= srv[m]
        /\ writes[m] # 0 => cache[m] <= writes[m]
        /\ srv[m] = 0 /\ Unlogged(m) => cache[m] = 0 /\ writes[m] = 0

\* What the pass has in hand for m.
Held(m) ==
    \/ m \in deletes \union pend \union doing \/ writes[m] # 0
    \/ \E err \in Errors : <<m, err>> \in skips

\* A batch touches no message without an event ahead of the cursor, and
\* between passes nothing is in hand.
HeldIsOwed ==
    /\ mode = "tail" => \A m \in Msgs : Held(m) => Owed(m, cur)
    /\ mode = "none" => \A m \in Msgs : ~Held(m)

\* A message of the batch that is gone is deleted with it, or by a later one.
BatchDeletes ==
    mode = "tail" /\ pc \in {"prepare", "decrypt"} =>
        \A i \in (cur + 1)..upto :
            srv[log[i].msg] = 0 => log[i].msg \in deletes \/ Owed(log[i].msg, upto)

MirrorInv == StreamTells /\ WritesCurrent /\ VersionsGrow /\ HeldIsOwed /\ BatchDeletes

-----------------------------------------------------------------------------
(* The server's step, once more in detail.                                 *)

\* A change gives the message a new version or none, and the event says which.
LEMMA ServerChange ==
  ASSUME TypeOK, Server
  PROVE  \E m \in Msgs, act \in Actions :
           /\ log' = Append(log, [act |-> act, msg |-> m])
           /\ \A n \in Msgs \ {m} : srv'[n] = srv[n]
           /\ srv'[m] \in Nat /\ (srv'[m] = 0 \/ srv'[m] > srv[m])
           /\ srv'[m] # srv[m]
           /\ act \in {"create", "update"} => srv'[m] # 0
           /\ srv[m] = 0 => Unlogged(m)
           /\ ServerUnchanged
<1>1. PICK m \in Msgs : Create(m) \/ Update(m) \/ Delete(m) \/ Refresh(m)
  BY DEF Server
<1>2. srv[m] \in Nat /\ srv \in [Msgs -> Nat]
  BY DEF TypeOK, ServerType
<1>3. CASE Create(m)
  <2>1. log' = Append(log, [act |-> "create", msg |-> m]) /\ "create" \in Actions
    BY <1>3 DEF Create, Log, Actions
  <2>2. srv[m] = 0 /\ srv'[m] = 1 /\ \A n \in Msgs \ {m} : srv'[n] = srv[n]
    BY <1>2, <1>3 DEF Create
  <2>3. Unlogged(m) /\ ServerUnchanged
    BY <1>3 DEF Create
  <2>4. srv'[m] \in Nat /\ srv'[m] > srv[m] /\ srv'[m] # srv[m] /\ srv'[m] # 0
    BY <2>2
  <2> QED BY <2>1, <2>2, <2>3, <2>4, Zenon
<1>4. CASE Update(m)
  <2>1. log' = Append(log, [act |-> "update", msg |-> m]) /\ "update" \in Actions
    BY <1>4 DEF Update, Log, Actions
  <2>2. /\ srv[m] # 0 /\ srv'[m] = srv[m] + 1
        /\ \A n \in Msgs \ {m} : srv'[n] = srv[n]
    BY <1>2, <1>4 DEF Update
  <2>3. ServerUnchanged
    BY <1>4 DEF Update
  <2>4. srv'[m] \in Nat /\ srv'[m] > srv[m] /\ srv'[m] # srv[m] /\ srv'[m] # 0
    BY <1>2, <2>2
  <2> QED BY <2>1, <2>2, <2>3, <2>4, Zenon
<1>5. CASE Delete(m)
  <2>1. log' = Append(log, [act |-> "delete", msg |-> m]) /\ "delete" \in Actions
    BY <1>5 DEF Delete, Log, Actions
  <2>2. /\ srv[m] # 0 /\ srv'[m] = 0
        /\ \A n \in Msgs \ {m} : srv'[n] = srv[n]
    BY <1>2, <1>5 DEF Delete
  <2>3. ServerUnchanged
    BY <1>5 DEF Delete
  <2>4. srv'[m] \in Nat /\ srv'[m] # srv[m] /\ "delete" \notin {"create", "update"}
    BY <2>2
  <2> QED BY <2>1, <2>2, <2>3, <2>4, Zenon
<1>6. CASE Refresh(m)
  <2>1. log' = Append(log, [act |-> "refresh", msg |-> m]) /\ "refresh" \in Actions
    BY <1>6 DEF Refresh, Log, Actions
  <2>2. /\ srv[m] # 0 /\ srv'[m] \in {0, srv[m] + 1}
        /\ \A n \in Msgs \ {m} : srv'[n] = srv[n]
    BY <1>2, <1>6 DEF Refresh
  <2>3. ServerUnchanged
    BY <1>6 DEF Refresh
  <2>4. /\ srv'[m] \in Nat /\ (srv'[m] = 0 \/ srv'[m] > srv[m]) /\ srv'[m] # srv[m]
        /\ "refresh" \notin {"create", "update"}
    BY <1>2, <2>2
  <2> QED BY <2>1, <2>2, <2>3, <2>4, Zenon
<1> QED BY <1>1, <1>3, <1>4, <1>5, <1>6

\* The server's step keeps the mirror's invariant.
LEMMA ServerMirror ==
  ASSUME TypeOK, MirrorInv, Server
  PROVE  MirrorInv'
<1>1. PICK m \in Msgs, act \in Actions :
        /\ log' = Append(log, [act |-> act, msg |-> m])
        /\ \A n \in Msgs \ {m} : srv'[n] = srv[n]
        /\ srv'[m] \in Nat /\ (srv'[m] = 0 \/ srv'[m] > srv[m])
        /\ srv'[m] # srv[m]
        /\ act \in {"create", "update"} => srv'[m] # 0
        /\ srv[m] = 0 => Unlogged(m)
        /\ ServerUnchanged
  BY ServerChange
<1>2. /\ Len(log) \in Nat /\ Len(log') = Len(log) + 1
      /\ log'[Len(log) + 1] = [act |-> act, msg |-> m]
      /\ \A i \in 1..Len(log) : log'[i] = log[i] /\ log[i].msg \in Msgs
  BY <1>1, EventMsgs DEF TypeOK, ServerType
<1>3. UNCHANGED <<cache, mode, cur, upto, pend, doing, writes, deletes, skips, pc>>
  BY <1>1 DEF ServerUnchanged, storeVars, passVars, runVars
<1>4. \A c \in 0..Len(log) :
        Owed(m, c)' /\ \A n \in Msgs : Owed(n, c) => Owed(n, c)'
  BY <1>1, ServerOwes
<1>5. /\ cur \in 0..Len(log) /\ upto \in 0..Len(log)
      /\ srv \in [Msgs -> Nat] /\ cache \in [Msgs -> Nat] /\ writes \in [Msgs -> Nat]
  BY DEF TypeOK, PassType, ServerType, StoreType
<1>6. StreamTells'
  <2> SUFFICES ASSUME NEW i \in 1..Len(log'), log'[i].act \in {"create", "update"}
               PROVE  \/ srv'[log'[i].msg] # 0
                      \/ \E j \in (i + 1)..Len(log') : log'[j].msg = log'[i].msg
    BY DEF StreamTells
  <2>1. CASE i = Len(log) + 1
    BY <1>1, <1>2, <2>1
  <2>2. CASE i \in 1..Len(log)
    <3>1. /\ log'[i] = log[i] /\ log[i].msg \in Msgs
          /\ \/ srv[log[i].msg] # 0
             \/ \E j \in (i + 1)..Len(log) : log[j].msg = log[i].msg
      BY <1>2, <2>2 DEF MirrorInv, StreamTells
    <3>2. CASE log[i].msg = m
      <4>1. Len(log) + 1 \in (i + 1)..Len(log') /\ log'[Len(log) + 1].msg = log'[i].msg
        BY <1>2, <2>2, <3>1, <3>2
      <4> QED BY <4>1
    <3>3. CASE log[i].msg # m
      BY <1>1, <1>2, <2>2, <3>1, <3>3
    <3> QED BY <3>2, <3>3
  <2> QED BY <1>2, <2>1, <2>2
<1>7. WritesCurrent'
  <2>1. Mark' = Mark /\ Mark \in 0..Len(log)
    BY <1>3, <1>5 DEF Mark
  <2> SUFFICES ASSUME NEW n \in Msgs, writes[n] # 0
               PROVE  writes[n] = srv'[n] \/ Owed(n, Mark)'
    BY <1>3 DEF WritesCurrent
  <2>2. CASE n = m
    BY <1>2, <2>1, <2>2 DEF Owed
  <2>3. CASE n # m
    <3>1. srv'[n] = srv[n]
      BY <1>1, <2>3
    <3>2. writes[n] = srv[n] \/ Owed(n, Mark)
      BY DEF MirrorInv, WritesCurrent
    <3> QED BY <1>2, <2>1, <3>1, <3>2 DEF Owed
  <2> QED BY <2>2, <2>3
<1>8. VersionsGrow'
  <2> SUFFICES ASSUME NEW n \in Msgs
               PROVE  /\ srv'[n] # 0 => cache[n] <= srv'[n] /\ writes[n] <= srv'[n]
                      /\ writes[n] # 0 => cache[n] <= writes[n]
                      /\ srv'[n] = 0 /\ Unlogged(n)' => cache[n] = 0 /\ writes[n] = 0
    BY <1>3 DEF VersionsGrow
  <2>1. /\ srv[n] # 0 => cache[n] <= srv[n] /\ writes[n] <= srv[n]
        /\ writes[n] # 0 => cache[n] <= writes[n]
        /\ srv[n] = 0 /\ Unlogged(n) => cache[n] = 0 /\ writes[n] = 0
        /\ srv[n] \in Nat /\ cache[n] \in Nat /\ writes[n] \in Nat
    BY <1>5 DEF MirrorInv, VersionsGrow
  <2>2. CASE n = m
    <3>1. ~Unlogged(n)'
      BY <1>2, <2>2 DEF Unlogged
    <3>2. srv'[n] # 0 => cache[n] <= srv'[n] /\ writes[n] <= srv'[n]
      BY <1>1, <2>1, <2>2
    <3> QED BY <2>1, <3>1, <3>2
  <2>3. CASE n # m
    <3>1. srv'[n] = srv[n]
      BY <1>1, <2>3
    <3>2. Unlogged(n)' => Unlogged(n)
      BY <1>2 DEF Unlogged
    <3> QED BY <2>1, <3>1, <3>2
  <2> QED BY <2>2, <2>3
<1>9. HeldIsOwed'
  <2>1. \A n \in Msgs : Held(n)' <=> Held(n)
    BY <1>3 DEF Held
  <2> QED BY <1>3, <1>4, <1>5, <2>1 DEF MirrorInv, HeldIsOwed, Owed
<1>10. BatchDeletes'
  <2> SUFFICES ASSUME mode = "tail", pc \in {"prepare", "decrypt"},
                      NEW i \in (cur + 1)..upto, srv'[log'[i].msg] = 0
               PROVE  \/ log'[i].msg \in deletes
                      \/ \E k \in (upto + 1)..Len(log') :
                            log'[k].msg = log'[i].msg \/ log'[k].act = "refresh"
    BY <1>3 DEF BatchDeletes, Owed
  <2>1. log'[i] = log[i] /\ log[i].msg \in Msgs
    BY <1>2, <1>5
  <2>2. CASE log[i].msg = m
    BY <1>2, <1>5, <2>1, <2>2
  <2>3. CASE log[i].msg # m
    <3>1. srv[log[i].msg] = 0
      BY <1>1, <2>1, <2>3
    <3>2. log[i].msg \in deletes \/ Owed(log[i].msg, upto)
      BY <3>1 DEF MirrorInv, BatchDeletes
    <3> QED BY <1>2, <1>5, <2>1, <3>2 DEF Owed
  <2> QED BY <2>2, <2>3
<1> QED BY <1>6, <1>7, <1>8, <1>9, <1>10 DEF MirrorInv

-----------------------------------------------------------------------------
(* What a batch decides of a message.                                      *)

\* A set of positions within bounds has a last one.
LEMMA LastOf ==
  ASSUME NEW lo \in Nat, NEW hi \in Nat, NEW S \in SUBSET ((lo + 1)..hi), S # {}
  PROVE  \E k \in S : \A j \in S : j <= k
<1> DEFINE R == {p \in Nat \X Nat : p[1] < p[2]}
           T == {n \in Nat : hi - n \in S}
<1>1. IsWellFoundedOn(R, Nat)
  BY NatLessThanWellFounded, Zenon DEF OpToRel
<1>2. T \subseteq Nat /\ T # {}
  <2>1. PICK i \in S : TRUE
    OBVIOUS
  <2>2. hi - i \in Nat /\ hi - (hi - i) = i
    OBVIOUS
  <2> QED BY <2>1, <2>2
<1> HIDE DEF R
<1>3. PICK n \in T : \A o \in T : <<o, n>> \notin R
  BY <1>1, <1>2, WFMin, Zenon
<1>4. \A j \in S : j <= hi - n
  <2> SUFFICES ASSUME NEW j \in S, ~(j <= hi - n) PROVE FALSE
    OBVIOUS
  <2>1. hi - j \in T /\ hi - j < n
    OBVIOUS
  <2> QED BY <1>3, <2>1 DEF R
<1> QED BY <1>4

\* A message of a batch without refresh events, gone by now, is among the
\* batch's deletes or has an event beyond the batch.
LEMMA GoneInBatch ==
  ASSUME TypeOK, StreamTells, NEW lo \in Nat, NEW hi \in Nat, hi <= Len(log),
         NEW i \in (lo + 1)..hi, srv[log[i].msg] = 0,
         \A e \in BatchEvents(lo, hi) : e.act # "refresh"
  PROVE  log[i].msg \in FinalDeletes(lo, hi) \/ Owed(log[i].msg, hi)
<1> DEFINE m == log[i].msg
           S == {k \in (lo + 1)..hi : log[k].msg = m}
<1>1. Len(log) \in Nat /\ m \in Msgs /\ i \in S
  BY EventMsgs DEF TypeOK, ServerType
<1>2. PICK k \in S : \A j \in S : j <= k
  BY <1>1, LastOf
<1>3. k \in 1..Len(log) /\ log[k].msg = m /\ log[k] \in Event
  BY <1>1, EventMsgs
<1>4. log[k].act # "refresh"
  BY DEF BatchEvents
<1>5. CASE log[k].act = "delete"
  <2>1. \A j \in (k + 1)..hi : log[j].msg # m
    BY <1>2
  <2> QED BY <1>1, <1>3, <1>5, <2>1 DEF FinalDeletes
<1>6. CASE log[k].act \in {"create", "update"}
  <2>1. PICK j \in (k + 1)..Len(log) : log[j].msg = m
    BY <1>3, <1>6 DEF StreamTells
  <2>2. j \in (hi + 1)..Len(log)
    BY <1>2, <2>1
  <2> QED BY <2>1, <2>2 DEF Owed
<1> QED BY <1>3, <1>4, <1>5, <1>6 DEF Event, Actions

-----------------------------------------------------------------------------
(* Steps that leave most of the mirror's invariant alone.                  *)

\* A step of a pass that neither takes anything new in hand nor stores anything.
LEMMA QuietMirror ==
  ASSUME MirrorInv, UNCHANGED <<srv, log, cache, mode, upto, writes, deletes, skips>>,
         cur' = cur \/ (mode = "bootstrap" /\ writes = NoWrites),
         mode = "bootstrap" \/ pend' \union doing' \subseteq pend \union doing,
         mode = "tail" /\ pc' \in {"prepare", "decrypt"} => pc \in {"prepare", "decrypt"}
  PROVE  MirrorInv'
<1>1. StreamTells' /\ VersionsGrow'
  BY DEF MirrorInv, StreamTells, VersionsGrow, Unlogged
<1>2. WritesCurrent'
  <2>1. CASE cur' = cur
    BY <2>1 DEF MirrorInv, WritesCurrent, Mark, Owed
  <2>2. CASE writes = NoWrites
    BY <2>2 DEF WritesCurrent, NoWrites
  <2> QED BY <2>1, <2>2
<1>3. HeldIsOwed'
  <2>1. CASE mode = "bootstrap"
    BY <2>1 DEF HeldIsOwed
  <2>2. CASE mode # "bootstrap"
    <3>1. \A m \in Msgs : Held(m)' => Held(m)
      BY <2>2 DEF Held
    <3>2. cur' = cur
      BY <2>2
    <3> QED BY <3>1, <3>2 DEF MirrorInv, HeldIsOwed, Owed
  <2> QED BY <2>1, <2>2
<1>4. BatchDeletes'
  <2>1. mode = "tail" => cur' = cur
    OBVIOUS
  <2> QED BY <2>1 DEF MirrorInv, BatchDeletes, Owed
<1> QED BY <1>1, <1>2, <1>3, <1>4 DEF MirrorInv

\* What a transaction stores goes forward: a write is no older than its row.
LEMMA StoredGrows ==
  ASSUME TypeOK, MirrorInv, NEW d \in SUBSET Msgs, cache' = Stored(writes, d),
         writes' = NoWrites, UNCHANGED <<srv, log>>
  PROVE  VersionsGrow'
<1> SUFFICES ASSUME NEW m \in Msgs
             PROVE  /\ srv[m] # 0 => cache'[m] <= srv[m] /\ writes'[m] <= srv[m]
                    /\ writes'[m] # 0 => cache'[m] <= writes'[m]
                    /\ srv[m] = 0 /\ Unlogged(m) => cache'[m] = 0 /\ writes'[m] = 0
  BY DEF VersionsGrow, Unlogged
<1>1. cache'[m] \in {0, writes[m], cache[m]} /\ writes'[m] = 0
  BY DEF Stored, NoWrites
<1>2. /\ srv[m] # 0 => cache[m] <= srv[m] /\ writes[m] <= srv[m]
      /\ srv[m] = 0 /\ Unlogged(m) => cache[m] = 0 /\ writes[m] = 0
  BY DEF MirrorInv, VersionsGrow
<1>3. srv[m] \in Nat
  BY DEF TypeOK, ServerType
<1> QED BY <1>1, <1>2, <1>3

\* A run that returns or dies has nothing in hand.
LEMMA LeaveMirror ==
  ASSUME MirrorInv, NoPass, UNCHANGED <<srv, log>>, VersionsGrow' \/ UNCHANGED cache,
         TypeOK
  PROVE  MirrorInv'
<1>1. StreamTells' /\ WritesCurrent' /\ BatchDeletes'
  BY DEF MirrorInv, StreamTells, NoPass, NoWrites, WritesCurrent, BatchDeletes
<1>2. HeldIsOwed'
  BY DEF HeldIsOwed, Held, NoPass, NoWrites
<1>3. VersionsGrow'
  <2> SUFFICES ASSUME UNCHANGED cache PROVE VersionsGrow'
    OBVIOUS
  <2>1. \A m \in Msgs : writes'[m] = 0 /\ srv[m] \in Nat
    BY DEF NoPass, NoWrites, TypeOK, ServerType
  <2> QED BY <2>1 DEF MirrorInv, VersionsGrow, Unlogged
<1> QED BY <1>1, <1>2, <1>3 DEF MirrorInv

-----------------------------------------------------------------------------
(* The run's steps.                                                        *)

LEMMA InitMirror == Init => MirrorInv
<1> SUFFICES ASSUME Init PROVE MirrorInv
  OBVIOUS
<1>1. /\ log = << >> /\ cache = NoWrites /\ writes = NoWrites /\ mode = "none"
      /\ deletes = {} /\ pend = {} /\ doing = {} /\ skips = {}
      /\ srv \in [Msgs -> {0, 1}]
  BY DEF Init
<1>2. StreamTells /\ BatchDeletes /\ HeldIsOwed
  BY <1>1 DEF StreamTells, BatchDeletes, HeldIsOwed, Held, NoWrites
<1>3. WritesCurrent /\ VersionsGrow
  BY <1>1 DEF WritesCurrent, VersionsGrow, NoWrites
<1> QED BY <1>2, <1>3 DEF MirrorInv

\* What is fetched is current, and in the batch already.
LEMMA DecryptMirror ==
  ASSUME TypeOK, NoLossInv, MirrorInv, DecryptMessage
  PROVE  MirrorInv'
<1>1. PICK m \in Msgs : /\ doing = {m} /\ srv[m] # 0
                        /\ writes' = [writes EXCEPT ![m] = srv[m]]
  BY DEF DecryptMessage, Fetched, NoLossInv, PassShape
<1>2. /\ pc = "decrypt" /\ doing' \subseteq doing
      /\ UNCHANGED <<srv, log, cache, mode, cur, upto, pend, deletes, skips>>
  BY DEF DecryptMessage, serverVars, storeVars, historyVars
<1>3. writes'[m] = srv[m] /\ \A n \in Msgs \ {m} : writes'[n] = writes[n]
  BY <1>1 DEF TypeOK, PassType
<1>4. StreamTells'
  BY <1>2 DEF MirrorInv, StreamTells
<1>5. WritesCurrent'
  BY <1>2, <1>3 DEF MirrorInv, WritesCurrent, Mark, Owed
<1>6. VersionsGrow'
  <2> SUFFICES ASSUME NEW n \in Msgs
               PROVE  /\ srv[n] # 0 => cache[n] <= srv[n] /\ writes'[n] <= srv[n]
                      /\ writes'[n] # 0 => cache[n] <= writes'[n]
                      /\ srv[n] = 0 /\ Unlogged(n) => cache[n] = 0 /\ writes'[n] = 0
    BY <1>2 DEF VersionsGrow, Unlogged
  <2>1. /\ srv[n] # 0 => cache[n] <= srv[n] /\ writes[n] <= srv[n]
        /\ writes[n] # 0 => cache[n] <= writes[n]
        /\ srv[n] = 0 /\ Unlogged(n) => cache[n] = 0 /\ writes[n] = 0
        /\ srv[n] \in Nat
    BY DEF MirrorInv, VersionsGrow, TypeOK, ServerType
  <2> QED BY <1>1, <1>3, <2>1
<1>7. HeldIsOwed'
  <2>1. \A n \in Msgs : Held(n)' => Held(n)
    BY <1>1, <1>2, <1>3 DEF Held
  <2> QED BY <1>2, <2>1 DEF MirrorInv, HeldIsOwed, Owed
<1>8. BatchDeletes'
  BY <1>2 DEF MirrorInv, BatchDeletes, Owed
<1> QED BY <1>4, <1>5, <1>6, <1>7, <1>8 DEF MirrorInv

\* A skipped message was in hand already.
LEMMA SkipMirror ==
  ASSUME NoLossInv, MirrorInv, DecryptSkips
  PROVE  MirrorInv'
<1>1. PICK m \in doing, err \in Errors : skips' = skips \union {<<m, err>>}
  BY DEF DecryptSkips
<1>2. /\ pc = "decrypt" /\ doing' = {}
      /\ UNCHANGED <<srv, log, cache, mode, cur, upto, pend, writes, deletes>>
  BY DEF DecryptSkips, serverVars, storeVars, historyVars
<1>3. StreamTells' /\ WritesCurrent' /\ VersionsGrow' /\ BatchDeletes'
  BY <1>2 DEF MirrorInv, StreamTells, WritesCurrent, VersionsGrow, BatchDeletes, Mark,
              Owed, Unlogged
<1>4. HeldIsOwed'
  <2>1. \A n \in Msgs : Held(n)' => Held(n)
    BY <1>1, <1>2 DEF Held
  <2> QED BY <1>2, <2>1 DEF MirrorInv, HeldIsOwed, Owed
<1> QED BY <1>3, <1>4 DEF MirrorInv

\* A batch takes in hand the messages of its events, and nothing else.
LEMMA GetEventsMirror ==
  ASSUME TypeOK, NoLossInv, MirrorInv, GetEvents
  PROVE  MirrorInv'
<1>1. PICK last \in cur..Len(log) :
        /\ \A e \in BatchEvents(cur, last) : e.act # "refresh"
        /\ upto' = last /\ deletes' = FinalDeletes(cur, last)
        /\ pend' = FinalWrites(cur, last)
  BY DEF GetEvents, NextCursor
<1>2. /\ mode = "tail" /\ doing = {} /\ pc' = "prepare"
      /\ writes' = NoWrites /\ skips' = {}
      /\ UNCHANGED <<srv, log, cache, mode, cur, doing>>
  BY DEF GetEvents, NoLossInv, PassShape, serverVars, storeVars, historyVars
<1>3. cur \in Nat /\ Len(log) \in Nat /\ last \in Nat
  BY DEF TypeOK, ServerType, PassType
<1>4. StreamTells' /\ WritesCurrent'
  BY <1>2 DEF MirrorInv, StreamTells, WritesCurrent, NoWrites
<1>5. VersionsGrow'
  <2>1. \A m \in Msgs : writes'[m] = 0 /\ srv[m] \in Nat
    BY <1>2 DEF NoWrites, TypeOK, ServerType
  <2> QED BY <1>2, <2>1 DEF MirrorInv, VersionsGrow, Unlogged
<1>6. HeldIsOwed'
  <2>1. \A m \in Msgs : m \in deletes' \union pend' => Owed(m, cur)
    BY <1>1, <1>3 DEF FinalDeletes, FinalWrites, BatchEvents, Owed
  <2>2. \A m \in Msgs : Held(m)' => Owed(m, cur)
    BY <1>2, <2>1 DEF Held, NoWrites
  <2> QED BY <1>2, <2>2 DEF HeldIsOwed, Owed
<1>7. BatchDeletes'
  <2>1. \A i \in (cur + 1)..last :
          srv[log[i].msg] = 0 =>
            log[i].msg \in FinalDeletes(cur, last) \/ Owed(log[i].msg, last)
    BY <1>1, <1>3, GoneInBatch DEF MirrorInv
  <2> QED BY <1>1, <1>2, <2>1 DEF BatchDeletes, Owed
<1> QED BY <1>4, <1>5, <1>6, <1>7 DEF MirrorInv

\* A refresh drops what the batch had in hand.
LEMMA RefreshMirror ==
  ASSUME TypeOK, NoLossInv, MirrorInv, GetEventsRefresh
  PROVE  MirrorInv'
<1>1. mode' = "bootstrap" /\ writes' = NoWrites /\ UNCHANGED <<srv, log, cache>>
  BY DEF GetEventsRefresh, serverVars, storeVars
<1>2. StreamTells' /\ WritesCurrent' /\ HeldIsOwed' /\ BatchDeletes'
  BY <1>1 DEF MirrorInv, StreamTells, WritesCurrent, NoWrites, HeldIsOwed, BatchDeletes
<1>3. VersionsGrow'
  <2>1. \A m \in Msgs : writes'[m] = 0 /\ srv[m] \in Nat
    BY <1>1 DEF NoWrites, TypeOK, ServerType
  <2> QED BY <1>1, <2>1 DEF MirrorInv, VersionsGrow, Unlogged
<1> QED BY <1>2, <1>3 DEF MirrorInv

\* The two transactions that store messages.
LEMMA StoreMirror ==
  ASSUME TypeOK, NoLossInv, MirrorInv, ApplyMessage \/ CommitBatch
  PROVE  MirrorInv'
<1>1. CASE ApplyMessage
  <2>1. /\ mode = "bootstrap" /\ cache' = Stored(writes, {}) /\ writes' = NoWrites
        /\ UNCHANGED <<srv, log, mode>>
    BY <1>1 DEF ApplyMessage, NoLossInv, PassShape, serverVars, historyVars
  <2>2. VersionsGrow'
    BY <2>1, StoredGrows
  <2> QED BY <2>1, <2>2 DEF MirrorInv, StreamTells, WritesCurrent, NoWrites, HeldIsOwed,
                            BatchDeletes
<1>2. CASE CommitBatch
  <2>1. /\ mode = "tail" /\ pend = {} /\ doing = {}
        /\ cache' = Stored(writes, deletes) /\ UNCHANGED <<srv, log>>
    BY <1>2 DEF CommitBatch, Return, NoLossInv, PassShape, serverVars
  <2>2. writes' = NoWrites
    BY <1>2 DEF CommitBatch, Return, NoPass
  <2>3. VersionsGrow'
    BY <2>1, <2>2, StoredGrows DEF TypeOK, PassType
  <2>4. CASE more
    <3>1. /\ pc' = "fetch" /\ deletes' = {} /\ skips' = {}
          /\ UNCHANGED <<mode, pend, doing>>
      BY <1>2, <2>4 DEF CommitBatch
    <3>2. HeldIsOwed'
      BY <2>1, <2>2, <3>1 DEF HeldIsOwed, Held, NoWrites
    <3> QED BY <2>1, <2>2, <2>3, <3>1, <3>2
            DEF MirrorInv, StreamTells, WritesCurrent, NoWrites, BatchDeletes
  <2>5. CASE ~more
    <3>1. NoPass
      BY <1>2, <2>5 DEF CommitBatch, Return
    <3> QED BY <2>1, <2>3, <3>1, LeaveMirror
  <2> QED BY <2>4, <2>5
<1> QED BY <1>1, <1>2

\* A pass begins with nothing in hand.
LEMMA BeginMirror ==
  ASSUME TypeOK, NoLossInv, MirrorInv, FetchLabels
  PROVE  MirrorInv'
<1>1. /\ mode = "none" /\ writes = NoWrites /\ pc' \in {"head", "fetch"}
      /\ UNCHANGED <<srv, log, cache, writes, pend, doing, deletes, skips>>
  BY DEF FetchLabels, NoLossInv, PassShape, serverVars, storeVars
<1>2. StreamTells' /\ WritesCurrent' /\ VersionsGrow'
  BY <1>1 DEF MirrorInv, StreamTells, WritesCurrent, NoWrites, VersionsGrow, Unlogged
<1>3. HeldIsOwed'
  <2>1. \A m \in Msgs : ~Held(m)'
    BY <1>1 DEF MirrorInv, HeldIsOwed, Held
  <2> QED BY <2>1 DEF HeldIsOwed
<1>4. BatchDeletes'
  BY <1>1 DEF BatchDeletes
<1> QED BY <1>2, <1>3, <1>4 DEF MirrorInv

\* Every step keeps the mirror's invariant.
LEMMA NextMirror == TypeOK /\ NoLossInv /\ MirrorInv /\ [Next]_vars => MirrorInv'
<1> SUFFICES ASSUME TypeOK, NoLossInv, MirrorInv, [Next]_vars PROVE MirrorInv'
  OBVIOUS
<1> USE DEF serverVars, storeVars, passVars, runVars, historyVars
<1>1. CASE StartRun \/ ResumeClient \/ RetryCall \/ RetryDecrypt \/ RecordRun \/ Cancel
             \/ ResetSyncCursor \/ UNCHANGED vars
  <2>1. /\ UNCHANGED <<srv, log, cache, mode, upto, writes, deletes, skips>>
        /\ UNCHANGED <<cur, pend, doing>>
    BY <1>1 DEF StartRun, ResumeClient, RetryCall, RetryDecrypt, RecordRun, Cancel,
                ResetSyncCursor, vars
  <2>2. pc' \in {"prepare", "decrypt"} => pc \in {"prepare", "decrypt"}
    BY <1>1 DEF StartRun, ResumeClient, RetryCall, RetryDecrypt, RecordRun, Cancel,
                ResetSyncCursor, vars
  <2>3. cur' = cur /\ pend' \union doing' \subseteq pend \union doing
    BY <2>1
  <2> QED BY <2>1, <2>2, <2>3, QuietMirror
<1>2. CASE LatestEventID
  <2>1. /\ mode = "bootstrap" /\ writes = NoWrites
        /\ UNCHANGED <<srv, log, cache, mode, upto, writes, deletes, skips>>
    BY <1>2 DEF LatestEventID, NoLossInv, PassShape
  <2> QED BY <2>1, QuietMirror
<1>3. CASE BackfillMessageIDs \/ NextBackfill
  <2>1. /\ mode = "bootstrap" /\ cur' = cur
        /\ UNCHANGED <<srv, log, cache, mode, upto, writes, deletes, skips>>
    BY <1>3 DEF BackfillMessageIDs, NextBackfill, NoLossInv, PassShape
  <2> QED BY <2>1, QuietMirror
<1>4. CASE PrepareNext
  <2>1. /\ pc = "prepare" /\ cur' = cur
        /\ pend' \union doing' \subseteq pend \union doing
        /\ UNCHANGED <<srv, log, cache, mode, upto, writes, deletes, skips>>
    BY <1>4 DEF PrepareNext
  <2> QED BY <2>1, QuietMirror
<1>5. CASE FetchLabels
  BY <1>5, BeginMirror
<1>6. CASE DecryptMessage
  BY <1>6, DecryptMirror
<1>7. CASE DecryptSkips
  BY <1>7, SkipMirror
<1>8. CASE GetEvents
  BY <1>8, GetEventsMirror
<1>9. CASE GetEventsRefresh
  BY <1>9, RefreshMirror
<1>10. CASE ApplyMessage \/ CommitBatch
  BY <1>10, StoreMirror
<1>11. CASE ResumeFails \/ CallFails \/ DecryptAborts \/ GetEventsEmpty \/ Abort
              \/ StopCancelled
  <2>1. NoPass /\ UNCHANGED <<srv, log, cache>>
    BY <1>11 DEF ResumeFails, CallFails, DecryptAborts, GetEventsEmpty, Abort,
                 StopCancelled, Return
  <2> QED BY <2>1, LeaveMirror
<1>12. CASE PersistCursor \/ Crash
  <2>1. NoPass /\ UNCHANGED <<srv, log, cache>>
    BY <1>12 DEF PersistCursor, Crash, Return
  <2> QED BY <2>1, LeaveMirror
<1>13. CASE Server
  BY <1>13, ServerMirror
<1> QED BY <1>1, <1>2, <1>3, <1>4, <1>5, <1>6, <1>7, <1>8, <1>9, <1>10, <1>11, <1>12,
  <1>13
  DEF Next, Engine, Disturbance

\* What the proofs below share: four invariants, each inductive with those
\* before it.
SyncInv == TypeOK /\ NoLossInv /\ StampInv /\ MirrorInv

LEMMA SyncInvariant == Spec => []SyncInv
<1>1. Init => SyncInv
  BY InitType, InitInv, InitStamp, InitMirror DEF SyncInv
<1>2. SyncInv /\ [Next]_vars => SyncInv'
  BY NextType, NextInv, NextStamp, NextMirror DEF SyncInv
<1> QED BY <1>1, <1>2, PTL DEF Spec

-----------------------------------------------------------------------------
(* MailboxSync implements CacheContract, step by step.                     *)

\* A step that leaves the server, the tables and what was given up is a stutter.
LEMMA StutterStep ==
  ASSUME UNCHANGED <<srv, log, cache, cursor, given>>
  PROVE  UNCHANGED Contract!vars
<1>1. OwedMsgs' = OwedMsgs
  BY DEF OwedMsgs, Owed
<1>2. {m \in Msgs : GivenUp(m)}' = {m \in Msgs : GivenUp(m)}
  BY DEF GivenUp
<1> QED BY <1>1, <1>2 DEF Contract!vars

\* The server's event makes one message owed, or all of them.
LEMMA ChangeStep ==
  ASSUME TypeOK, Server
  PROVE  Contract!Next
<1>1. PICK m \in Msgs, act \in Actions :
        /\ log' = Append(log, [act |-> act, msg |-> m])
        /\ \A n \in Msgs \ {m} : srv'[n] = srv[n]
        /\ srv'[m] # srv[m]
        /\ ServerUnchanged
  BY ServerChange
<1>2. /\ Len(log) \in Nat /\ Len(log') = Len(log) + 1
      /\ log'[Len(log) + 1] = [act |-> act, msg |-> m]
      /\ \A i \in 1..Len(log) : log'[i] = log[i]
  BY <1>1 DEF TypeOK, ServerType
<1>3. UNCHANGED <<cache, cursor, given>>
  BY <1>1 DEF ServerUnchanged, storeVars, historyVars
<1>4. OwedMsgs' = OwedMsgs \union {m} \/ OwedMsgs' = Msgs
  <2>1. CASE cursor = NoCursor
    BY <1>3, <2>1 DEF OwedMsgs
  <2>2. CASE cursor # NoCursor
    <3>1. cursor \in 0..Len(log)
      BY <2>2 DEF TypeOK, StoreType, NoCursor
    <3>2. \A n \in Msgs :
            Owed(n, cursor)' <=> Owed(n, cursor) \/ n = m \/ act = "refresh"
      BY <1>2, <1>3, <3>1 DEF Owed
    <3> QED BY <1>3, <2>2, <3>2 DEF OwedMsgs
  <2> QED BY <2>1, <2>2
<1>5. {n \in Msgs : GivenUp(n)}' = {n \in Msgs : GivenUp(n)}
  BY <1>3 DEF GivenUp
<1>6. Contract!Change(m)
  BY <1>1, <1>3, <1>4, <1>5 DEF Contract!Change
<1> QED BY <1>6 DEF Contract!Next

\* A row goes forward or goes away, whichever transaction stores it.
LEMMA RowsGoForward ==
  ASSUME TypeOK, MirrorInv, NEW d, cache' = Stored(writes, d), NEW m \in Msgs
  PROVE  cache'[m] = 0 \/ cache'[m] >= cache[m]
<1>1. cache[m] \in Nat /\ writes[m] \in Nat /\ (writes[m] # 0 => cache[m] <= writes[m])
  BY DEF TypeOK, StoreType, PassType, MirrorInv, VersionsGrow
<1>2. cache'[m] \in {0, cache[m]} \/ (writes[m] # 0 /\ cache'[m] = writes[m])
  BY DEF Stored
<1> QED BY <1>1, <1>2

\* While bootstrap runs everything is owed.
LEMMA BootstrapOwed ==
  ASSUME NoLossInv, mode = "bootstrap"
  PROVE  OwedMsgs = Msgs
  BY DEF NoLossInv, BootstrapOwesAll, OwedMsgs

\* ApplyMessage works on what is owed, and settles nothing yet.
LEMMA ApplyStep ==
  ASSUME TypeOK, NoLossInv, MirrorInv, ApplyMessage
  PROVE  Contract!Next
<1>1. /\ mode = "bootstrap" /\ mode' = mode /\ cache' = Stored(writes, {})
      /\ UNCHANGED <<srv, log, cursor, given>>
  BY DEF ApplyMessage, NoLossInv, PassShape, serverVars, historyVars
<1>2. OwedMsgs = Msgs /\ OwedMsgs' = OwedMsgs
  BY <1>1, BootstrapOwed DEF OwedMsgs, Owed
<1>3. Contract!OnlyOwed
  BY <1>1, <1>2, RowsGoForward DEF Contract!OnlyOwed
<1> QED BY <1>2, <1>3 DEF Contract!Deliver, Contract!Next

\* PersistCursor takes the window as settled, whatever came meanwhile owed.
LEMMA ResyncStep ==
  ASSUME TypeOK, NoLossInv, PersistCursor, ~StoreRefuses
  PROVE  Contract!Next
<1>1. /\ pc = "backfill" /\ pend = {} /\ ~cancelled
      /\ cursor' = cur /\ given' = skips /\ UNCHANGED <<srv, log, cache>>
  BY DEF PersistCursor, Return, StoreRefuses, BootstrapCursor, serverVars
<1>2. mode = "bootstrap" /\ doing = {} /\ cur # NoCursor
  BY <1>1 DEF NoLossInv, PassShape, TypeOK, PassType, NoCursor
<1>3. OwedMsgs = Msgs /\ OwedMsgs' = {m \in Msgs : Owed(m, cur)}
  BY <1>1, <1>2, BootstrapOwed DEF OwedMsgs, Owed
<1>4. Contract!OnlyOwed
  <2>1. \A m \in Msgs : cache'[m] >= cache[m]
    BY <1>1 DEF TypeOK, StoreType
  <2> QED BY <1>1, <1>3, <2>1 DEF Contract!OnlyOwed
<1>5. \A m \in Recent \ OwedMsgs' : srv[m] # 0 => Contract!Settled(m)
  <2> SUFFICES ASSUME NEW m \in Recent, m \notin OwedMsgs', srv[m] # 0
               PROVE  cache'[m] = srv[m] \/ m \in {n \in Msgs : GivenUp(n)}'
    BY DEF Contract!Settled
  <2>1. m \in Msgs /\ ~Owed(m, cur)
    BY <1>3, RecentAssumption
  <2>2. cache[m] = srv[m] \/ Excused(m)
    BY <1>1, <1>2, <2>1 DEF NoLossInv, BackfillCovers
  <2>3. Excused(m) => GivenUp(m)'
    BY <1>1 DEF Excused, GivenUp
  <2> QED BY <1>1, <2>1, <2>2, <2>3
<1> QED BY <1>3, <1>4, <1>5 DEF Contract!Resync, Contract!Next

\* A message with an event beyond the cursor but none beyond the batch has one of
\* its own in the batch: a batch that commits holds no refresh.
LEMMA ConsumedEvent ==
  ASSUME SyncInv, mode = "tail", pc = "prepare", NEW m \in Msgs,
         Owed(m, cur), ~Owed(m, upto)
  PROVE  \E i \in (cur + 1)..upto : log[i].msg = m
<1>1. PICK i \in (cur + 1)..Len(log) : log[i].msg = m \/ log[i].act = "refresh"
  BY DEF Owed
<1>2. i \in (cur + 1)..upto
  BY <1>1 DEF Owed, SyncInv, TypeOK, ServerType, PassType
<1>3. log[i].act # "refresh"
  BY <1>2 DEF SyncInv, NoLossInv, BatchCovers
<1> QED BY <1>1, <1>2, <1>3

\* A message whose events the batch consumed, and that has none beyond it, is
\* cached as it stands or given up when the batch commits.
LEMMA BatchSettles ==
  ASSUME SyncInv, CommitBatch, NEW m \in Msgs, Owed(m, cur), ~Owed(m, upto)
  PROVE  cache'[m] = srv[m] \/ GivenUp(m)'
<1>1. /\ pc = "prepare" /\ mode = "tail" /\ pend = {} /\ doing = {} /\ ~cancelled
      /\ cache' = Stored(writes, deletes)
      /\ given' = {s \in given : s[1] \notin Rows(writes) \union deletes} \union skips
  BY DEF CommitBatch, StoreRefuses, Return, SyncInv, NoLossInv, PassShape
<1>2. PICK i \in (cur + 1)..upto : log[i].msg = m
  BY <1>1, ConsumedEvent
<1>3. CASE srv[m] = 0
  <2>1. m \in deletes
    BY <1>1, <1>2, <1>3 DEF SyncInv, MirrorInv, BatchDeletes
  <2> QED BY <1>1, <1>3, <2>1 DEF Stored
<1>4. CASE srv[m] # 0
  <2>1. m \notin deletes
    BY <1>1, <1>4 DEF SyncInv, NoLossInv, BatchCovers, DeletesAreFinal
  <2>2. Excused(m) \/ writes[m] # 0
    BY <1>1, <1>2, <1>4 DEF SyncInv, NoLossInv, BatchCovers
  <2>3. CASE Excused(m)
    BY <1>1, <2>3 DEF Excused, GivenUp
  <2>4. CASE writes[m] # 0
    <3>1. writes[m] = srv[m]
      BY <1>1, <2>4 DEF SyncInv, MirrorInv, WritesCurrent, Mark
    <3> QED BY <1>1, <2>1, <2>4, <3>1 DEF Stored
  <2> QED BY <2>2, <2>3, <2>4
<1> QED BY <1>3, <1>4

\* commitBatch works on the messages of its batch, and settles those that have
\* no event beyond it.
LEMMA CommitStep ==
  ASSUME SyncInv, CommitBatch
  PROVE  Contract!Next
<1>1. /\ mode = "tail" /\ cache' = Stored(writes, deletes) /\ cursor' = upto
      /\ given' = {s \in given : s[1] \notin Rows(writes) \union deletes} \union skips
      /\ UNCHANGED <<srv, log>>
  BY DEF CommitBatch, Return, SyncInv, NoLossInv, PassShape, serverVars
<1>2. cursor = cur /\ cursor # NoCursor /\ cur <= upto
  <2>1. pc = "prepare"
    BY DEF CommitBatch
  <2> QED BY <1>1, <2>1, Zenon
          DEF SyncInv, NoLossInv, TailAtCursor, StampInv, BatchReaches
<1>3. /\ OwedMsgs = {m \in Msgs : Owed(m, cur)}
      /\ OwedMsgs' = {m \in Msgs : Owed(m, upto)}
  <2>1. upto # NoCursor
    BY DEF SyncInv, TypeOK, PassType, NoCursor
  <2> QED BY <1>1, <1>2, <2>1 DEF OwedMsgs, Owed
<1>4. OwedMsgs' \subseteq OwedMsgs
  <2>1. cur \in Nat /\ upto \in Nat /\ Len(log) \in Nat
    BY DEF SyncInv, TypeOK, ServerType, PassType
  <2>2. \A m \in Msgs : Owed(m, upto) => Owed(m, cur)
    BY <1>2, <2>1 DEF Owed
  <2> QED BY <1>3, <2>2
<1>5. \A m \in Msgs \ OwedMsgs :
        cache'[m] = cache[m] /\ (GivenUp(m)' <=> GivenUp(m))
  <2> SUFFICES ASSUME NEW m \in Msgs, m \notin OwedMsgs
               PROVE  cache'[m] = cache[m] /\ (GivenUp(m)' <=> GivenUp(m))
    OBVIOUS
  <2>1. ~Held(m)
    BY <1>1, <1>3 DEF SyncInv, MirrorInv, HeldIsOwed
  <2>2. m \notin deletes /\ writes[m] = 0 /\ \A err \in Errors : <<m, err>> \notin skips
    BY <2>1 DEF Held
  <2>3. m \notin Rows(writes) \union deletes
    BY <2>2 DEF Rows
  <2>4. GivenUp(m)' <=> GivenUp(m)
    BY <1>1, <2>2, <2>3 DEF GivenUp, Errors
  <2> QED BY <1>1, <2>2, <2>4 DEF Stored
<1>6. Contract!OnlyOwed
  <2>1. \A m \in OwedMsgs : cache'[m] = 0 \/ cache'[m] >= cache[m]
    BY <1>1, <1>3, RowsGoForward DEF SyncInv
  <2>2. \A m \in Msgs \ OwedMsgs :
          /\ cache'[m] = cache[m]
          /\ m \in {n \in Msgs : GivenUp(n)}' <=> m \in {n \in Msgs : GivenUp(n)}
    BY <1>5
  <2> QED BY <1>1, <1>4, <2>1, <2>2 DEF Contract!OnlyOwed
<1>7. \A m \in OwedMsgs \ OwedMsgs' : Contract!Settled(m)
  BY <1>3, BatchSettles DEF Contract!Settled
<1> QED BY <1>6, <1>7 DEF Contract!Deliver, Contract!Next

\* Every step of the sync is a step of the mirror, or none.
LEMMA ContractStep == SyncInv /\ [Next]_vars => [Contract!Next]_(Contract!vars)
<1> SUFFICES ASSUME SyncInv, [Next]_vars PROVE [Contract!Next]_(Contract!vars)
  OBVIOUS
<1> USE DEF serverVars, storeVars, passVars, runVars, historyVars
<1>1. CASE StartRun \/ ResumeClient \/ FetchLabels \/ RetryCall \/ LatestEventID
             \/ BackfillMessageIDs \/ NextBackfill \/ DecryptMessage \/ RetryDecrypt
             \/ DecryptSkips
  <2>1. UNCHANGED <<srv, log, cache, cursor, given>>
    BY <1>1 DEF StartRun, ResumeClient, FetchLabels, RetryCall, LatestEventID,
                BackfillMessageIDs, NextBackfill, DecryptMessage, RetryDecrypt,
                DecryptSkips
  <2> QED BY <2>1, StutterStep
<1>2. CASE GetEvents \/ GetEventsRefresh \/ PrepareNext \/ RecordRun \/ Cancel \/ Crash
             \/ UNCHANGED vars
  <2>1. UNCHANGED <<srv, log, cache, cursor, given>>
    BY <1>2 DEF GetEvents, GetEventsRefresh, PrepareNext, RecordRun, Cancel, Crash, vars
  <2> QED BY <2>1, StutterStep
<1>3. CASE ResumeFails \/ CallFails \/ DecryptAborts \/ GetEventsEmpty \/ Abort
             \/ StopCancelled
  <2>1. UNCHANGED <<srv, log, cache, cursor, given>>
    BY <1>3 DEF ResumeFails, CallFails, DecryptAborts, GetEventsEmpty, Abort,
                StopCancelled, Return
  <2> QED BY <2>1, StutterStep
<1>4. CASE Server
  BY <1>4, ChangeStep DEF SyncInv
<1>5. CASE ApplyMessage
  BY <1>5, ApplyStep DEF SyncInv
<1>6. CASE PersistCursor
  <2>1. CASE StoreRefuses
    <3>1. UNCHANGED <<srv, log, cache, cursor, given>>
      BY <1>6, <2>1 DEF PersistCursor, Return
    <3> QED BY <3>1, StutterStep
  <2>2. CASE ~StoreRefuses
    BY <1>6, <2>2, ResyncStep DEF SyncInv
  <2> QED BY <2>1, <2>2
<1>7. CASE CommitBatch
  BY <1>7, CommitStep
<1>8. CASE ResetSyncCursor
  <2>1. cursor' = NoCursor /\ UNCHANGED <<srv, cache, given>>
    BY <1>8 DEF ResetSyncCursor
  <2>2. OwedMsgs' = Msgs /\ {m \in Msgs : GivenUp(m)}' = {m \in Msgs : GivenUp(m)}
    BY <2>1 DEF OwedMsgs, GivenUp
  <2> QED BY <2>1, <2>2 DEF Contract!Forget, Contract!Next
<1> QED BY <1>1, <1>2, <1>3, <1>4, <1>5, <1>6, <1>7, <1>8
  DEF Next, Engine, Disturbance

\* One mailbox's sync keeps the contract of a mirror, for any number of messages,
\* events, batches, attempts and failures: a transaction stores nothing but
\* messages with an event ahead of the cursor, moves no row back to an older
\* version, and moves the cursor past a message only when it has settled it.
THEOREM KeepsContract == Spec => ImplementsContract
<1>1. Init => Contract!Init
  <2> SUFFICES ASSUME Init PROVE Contract!Init
    OBVIOUS
  <2>1. cursor = NoCursor /\ given = {} /\ cache = NoWrites /\ srv \in [Msgs -> {0, 1}]
    BY DEF Init
  <2>2. OwedMsgs = Msgs /\ {m \in Msgs : GivenUp(m)} = {}
    BY <2>1 DEF OwedMsgs, GivenUp
  <2> QED BY <2>1, <2>2 DEF Contract!Init, NoWrites
<1> QED BY <1>1, SyncInvariant, ContractStep, PTL DEF Spec, ImplementsContract, Contract!Spec

-----------------------------------------------------------------------------
(* No ghost before a second bootstrap.                                     *)

\* Before the first bootstrap there is neither cursor nor row.
NothingYet == boots = 0 => cursor = NoCursor /\ \A m \in Msgs : cache[m] = 0

\* The first bootstrap stores no ghost: a row it stored whose message is gone by
\* now has its delete beyond the head it captured.
FirstBootstrapClean ==
    mode = "bootstrap" /\ pc \in {"list", "backfill", "decrypt", "apply"} =>
        /\ boots # 0
        /\ boots < 2 =>
             \A m \in Msgs : cache[m] # 0 /\ srv[m] = 0 => Owed(m, cur)

GhostInv == NoGhostBeforeRebootstrap /\ NothingYet /\ FirstBootstrapClean

\* A step that stores nothing and leaves the bootstrap's position alone.
LEMMA QuietGhost ==
  ASSUME GhostInv, UNCHANGED <<srv, log, cache, cursor, boots>>,
         mode' = "bootstrap" /\ pc' \in {"list", "backfill", "decrypt", "apply"} =>
            /\ mode = "bootstrap" /\ pc \in {"list", "backfill", "decrypt", "apply"}
            /\ cur' = cur
  PROVE  GhostInv'
<1>1. NoGhostBeforeRebootstrap'
  BY DEF GhostInv, NoGhostBeforeRebootstrap, NoGhost, Owed
<1>2. NothingYet'
  BY DEF GhostInv, NothingYet
<1>3. FirstBootstrapClean'
  BY DEF GhostInv, FirstBootstrapClean, Owed
<1> QED BY <1>1, <1>2, <1>3 DEF GhostInv

\* A message that goes has its delete, or a refresh, ahead of every position.
LEMMA ServerGhost ==
  ASSUME TypeOK, GhostInv, Server
  PROVE  GhostInv'
<1>1. PICK m \in Msgs, act \in Actions :
        /\ log' = Append(log, [act |-> act, msg |-> m])
        /\ \A n \in Msgs \ {m} : srv'[n] = srv[n]
        /\ ServerUnchanged
  BY ServerChange
<1>2. \A c \in 0..Len(log) :
        Owed(m, c)' /\ \A n \in Msgs : Owed(n, c) => Owed(n, c)'
  BY <1>1, ServerOwes
<1>3. UNCHANGED <<cache, cursor, mode, pc, cur, boots>>
  BY <1>1 DEF ServerUnchanged, storeVars, passVars, runVars, historyVars
<1>4. cur \in 0..Len(log) /\ (cursor # NoCursor => cursor \in 0..Len(log))
  BY DEF TypeOK, PassType, StoreType, NoCursor
<1>5. NoGhostBeforeRebootstrap'
  <2> SUFFICES ASSUME boots < 2, cursor # NoCursor, NEW n \in Msgs,
                      cache[n] # 0, srv'[n] = 0
               PROVE  Owed(n, cursor)'
    BY <1>3 DEF NoGhostBeforeRebootstrap, NoGhost
  <2>1. CASE n = m
    BY <1>2, <1>3, <1>4, <2>1 DEF Owed
  <2>2. CASE n # m
    <3>1. Owed(n, cursor)
      BY <1>1, <2>2 DEF GhostInv, NoGhostBeforeRebootstrap, NoGhost
    <3> QED BY <1>2, <1>3, <1>4, <3>1 DEF Owed
  <2> QED BY <2>1, <2>2
<1>6. NothingYet'
  BY <1>3 DEF GhostInv, NothingYet
<1>7. FirstBootstrapClean'
  <2> SUFFICES ASSUME mode = "bootstrap", pc \in {"list", "backfill", "decrypt", "apply"}
               PROVE  /\ boots # 0
                      /\ boots < 2 =>
                           \A n \in Msgs : cache[n] # 0 /\ srv'[n] = 0 => Owed(n, cur)'
    BY <1>3 DEF FirstBootstrapClean
  <2>1. boots # 0
    BY DEF GhostInv, FirstBootstrapClean
  <2> SUFFICES ASSUME boots < 2, NEW n \in Msgs, cache[n] # 0, srv'[n] = 0
               PROVE  Owed(n, cur)'
    BY <2>1
  <2>2. CASE n = m
    BY <1>2, <1>3, <1>4, <2>2 DEF Owed
  <2>3. CASE n # m
    <3>1. Owed(n, cur)
      BY <1>1, <2>3 DEF GhostInv, FirstBootstrapClean
    <3> QED BY <1>2, <1>3, <1>4, <3>1 DEF Owed
  <2> QED BY <2>2, <2>3
<1> QED BY <1>5, <1>6, <1>7 DEF GhostInv

\* A message bootstrap stores is there, or its delete is beyond the head.
LEMMA ApplyGhost ==
  ASSUME SyncInv, GhostInv, ApplyMessage
  PROVE  GhostInv'
<1>1. /\ mode = "bootstrap" /\ pc = "apply" /\ mode' = mode /\ pc' = "backfill"
      /\ cache' = Stored(writes, {}) /\ UNCHANGED <<srv, log, cursor, boots, cur>>
  BY DEF ApplyMessage, SyncInv, NoLossInv, PassShape, serverVars, historyVars
<1>2. boots # 0
  BY <1>1 DEF GhostInv, FirstBootstrapClean
<1>3. NoGhostBeforeRebootstrap'
  <2>1. cursor # NoCursor => \A m \in Msgs : Owed(m, cursor)
    BY <1>1 DEF SyncInv, NoLossInv, BootstrapOwesAll
  <2> QED BY <1>1, <2>1 DEF NoGhostBeforeRebootstrap, NoGhost, Owed
<1>4. FirstBootstrapClean'
  <2> SUFFICES ASSUME boots < 2, NEW m \in Msgs, cache'[m] # 0, srv[m] = 0
               PROVE  Owed(m, cur)
    BY <1>1, <1>2 DEF FirstBootstrapClean, Owed
  <2>1. CASE writes[m] # 0
    BY <1>1, <2>1 DEF SyncInv, MirrorInv, WritesCurrent, Mark
  <2>2. CASE writes[m] = 0
    <3>1. cache[m] # 0
      BY <1>1, <2>2 DEF Stored
    <3> QED BY <1>1, <3>1 DEF GhostInv, FirstBootstrapClean
  <2> QED BY <2>1, <2>2
<1> QED BY <1>1, <1>2, <1>3, <1>4 DEF GhostInv, NothingYet

\* A batch leaves no row of a message whose last event it consumed.
LEMMA CommitGhost ==
  ASSUME SyncInv, GhostInv, CommitBatch
  PROVE  GhostInv'
<1>1. /\ mode = "tail" /\ pc = "prepare" /\ cache' = Stored(writes, deletes)
      /\ cursor' = upto /\ UNCHANGED <<srv, log, boots>>
  BY DEF CommitBatch, Return, SyncInv, NoLossInv, PassShape, serverVars
<1>2. mode' # "bootstrap"
  BY <1>1 DEF CommitBatch, Return, NoPass
<1>3. cursor # NoCursor /\ cur = cursor
  BY <1>1 DEF SyncInv, NoLossInv, TailAtCursor
<1>4. boots # 0
  BY <1>3 DEF GhostInv, NothingYet
<1>5. NoGhostBeforeRebootstrap'
  <2> SUFFICES ASSUME boots < 2, NEW m \in Msgs, cache'[m] # 0, srv[m] = 0,
                      ~Owed(m, upto)
               PROVE  FALSE
    BY <1>1 DEF NoGhostBeforeRebootstrap, NoGhost, Owed
  <2>1. writes[m] = 0
    BY <1>1 DEF SyncInv, MirrorInv, WritesCurrent, Mark
  <2>2. m \notin deletes /\ cache[m] # 0
    BY <1>1, <2>1 DEF Stored
  <2>3. Owed(m, cur)
    BY <1>3, <2>2 DEF GhostInv, NoGhostBeforeRebootstrap, NoGhost
  <2>4. PICK i \in (cur + 1)..upto : log[i].msg = m
    BY <1>1, <2>3, ConsumedEvent
  <2> QED BY <1>1, <2>2, <2>4 DEF SyncInv, MirrorInv, BatchDeletes
<1> QED BY <1>1, <1>2, <1>4, <1>5 DEF GhostInv, NothingYet, FirstBootstrapClean

\* Every step keeps the ghosts out.
LEMMA NextGhost == SyncInv /\ GhostInv /\ [Next]_vars => GhostInv'
<1> SUFFICES ASSUME SyncInv, GhostInv, [Next]_vars PROVE GhostInv'
  OBVIOUS
<1> USE DEF serverVars, storeVars, passVars, runVars, historyVars
<1>1. CASE StartRun \/ ResumeClient \/ FetchLabels \/ GetEvents \/ GetEventsRefresh
             \/ PrepareNext \/ RecordRun
  <2>1. UNCHANGED <<srv, log, cache, cursor, boots>>
    BY <1>1 DEF StartRun, ResumeClient, FetchLabels, GetEvents, GetEventsRefresh,
                PrepareNext, RecordRun
  <2>2. mode' # "bootstrap" \/ pc' \notin {"list", "backfill", "decrypt", "apply"}
    BY <1>1 DEF StartRun, ResumeClient, FetchLabels, GetEvents, GetEventsRefresh,
                PrepareNext, RecordRun, SyncInv, NoLossInv, PassShape
  <2> QED BY <2>1, <2>2, QuietGhost
<1>2. CASE BackfillMessageIDs \/ NextBackfill \/ DecryptMessage \/ DecryptSkips
  <2>1. UNCHANGED <<srv, log, cache, cursor, boots>> /\ mode' = mode /\ cur' = cur
    BY <1>2 DEF BackfillMessageIDs, NextBackfill, DecryptMessage, DecryptSkips
  <2>2. pc \in {"list", "backfill", "decrypt", "apply"}
    BY <1>2 DEF BackfillMessageIDs, NextBackfill, DecryptMessage, DecryptSkips
  <2> QED BY <2>1, <2>2, QuietGhost
<1>3. CASE RetryCall \/ RetryDecrypt \/ Cancel \/ UNCHANGED vars
  <2>1. /\ UNCHANGED <<srv, log, cache, cursor, boots>>
        /\ mode' = mode /\ cur' = cur /\ pc' = pc
    BY <1>3 DEF RetryCall, RetryDecrypt, Cancel, vars
  <2> QED BY <2>1, QuietGhost
<1>4. CASE ResumeFails \/ CallFails \/ DecryptAborts \/ GetEventsEmpty \/ Abort
             \/ StopCancelled \/ Crash
  <2>1. UNCHANGED <<srv, log, cache, cursor, boots>> /\ mode' = "none"
    BY <1>4 DEF ResumeFails, CallFails, DecryptAborts, GetEventsEmpty, Abort,
                StopCancelled, Crash, Return, NoPass
  <2> QED BY <2>1, QuietGhost
<1>5. CASE LatestEventID
  <2>1. /\ pc = "head" /\ UNCHANGED <<srv, log, cache, cursor>>
        /\ boots' = IF boots = 2 THEN 2 ELSE boots + 1
    BY <1>5 DEF LatestEventID
  <2>2. boots \in 0..2 /\ (boots' < 2 => boots = 0)
    BY <2>1 DEF SyncInv, TypeOK, HistoryType
  <2>3. boots' # 0
    BY <2>1, <2>2
  <2>4. boots' < 2 => cursor = NoCursor /\ \A m \in Msgs : cache[m] = 0
    BY <2>2 DEF GhostInv, NothingYet
  <2> QED BY <2>1, <2>3, <2>4 DEF GhostInv, NoGhostBeforeRebootstrap, NoGhost, NothingYet,
                                  FirstBootstrapClean
<1>6. CASE PersistCursor
  <2>1. mode' = "none" /\ UNCHANGED <<srv, log, cache, boots>>
    BY <1>6 DEF PersistCursor, Return, NoPass
  <2>2. CASE StoreRefuses
    <3>1. UNCHANGED cursor
      BY <1>6, <2>2 DEF PersistCursor
    <3> QED BY <2>1, <3>1, QuietGhost
  <2>3. CASE ~StoreRefuses
    <3>1. cursor' = cur /\ pc = "backfill"
      BY <1>6, <2>3 DEF PersistCursor, BootstrapCursor
    <3>2. mode = "bootstrap"
      BY <3>1 DEF SyncInv, NoLossInv, PassShape
    <3>3. /\ boots # 0
          /\ boots < 2 =>
               \A m \in Msgs : cache[m] # 0 /\ srv[m] = 0 => Owed(m, cur)
      BY <3>1, <3>2 DEF GhostInv, FirstBootstrapClean
    <3> QED BY <2>1, <3>1, <3>3 DEF GhostInv, NoGhostBeforeRebootstrap, NoGhost, NothingYet,
                                    FirstBootstrapClean, Owed
  <2> QED BY <2>2, <2>3
<1>7. CASE ResetSyncCursor
  <2>1. /\ cursor' = NoCursor /\ UNCHANGED <<srv, log, cache, boots, mode>>
        /\ pc = "idle"
    BY <1>7 DEF ResetSyncCursor
  <2>2. mode = "none"
    BY <2>1 DEF SyncInv, NoLossInv, PassShape
  <2> QED BY <2>1, <2>2 DEF GhostInv, NoGhostBeforeRebootstrap, NoGhost, NothingYet,
                            FirstBootstrapClean
<1>8. CASE ApplyMessage
  BY <1>8, ApplyGhost
<1>9. CASE CommitBatch
  BY <1>9, CommitGhost
<1>10. CASE Server
  BY <1>10, ServerGhost DEF SyncInv
<1> QED BY <1>1, <1>2, <1>3, <1>4, <1>5, <1>6, <1>7, <1>8, <1>9, <1>10
  DEF Next, Engine, Disturbance

\* The tail misses no delete, however a batch's events on one message collapse
\* (prepareBatch) and wherever a run stops: until a second bootstrap begins, a
\* row whose message is gone has its delete, or a refresh, ahead of the cursor.
THEOREM NoGhostEarly == Spec => []NoGhostBeforeRebootstrap
<1>1. Init => GhostInv
  BY DEF Init, GhostInv, NoGhostBeforeRebootstrap, NoGhost, NothingYet,
         FirstBootstrapClean, NoWrites
<1>2. SyncInv /\ SyncInv' /\ GhostInv /\ [Next]_vars => GhostInv'
  BY NextGhost
<1>3. GhostInv => NoGhostBeforeRebootstrap
  BY DEF GhostInv
<1> QED BY <1>1, <1>2, <1>3, SyncInvariant, PTL DEF Spec

=============================================================================
