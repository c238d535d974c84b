------------------------- MODULE MailboxSyncProofs -------------------------
(* Theorems about MailboxSync, for every value of its constants: its types, *)
(* that no message is ever lost, and that what a run says of itself is true. *)
EXTENDS MailboxSync, FiniteSetTheorems, TLAPS

-----------------------------------------------------------------------------
(* The stream and the counts.                                              *)

\* A set of messages has a size.
LEMMA CountType == \A S \in SUBSET Msgs : IsFiniteSet(S) /\ Cardinality(S) \in Nat
  BY MsgsFinite, FS_Subset, FS_CardinalityType

\* Four naturals make a summary's counts.
LEMMA MakeCounts ==
  \A a, u, d, e \in Nat :
    [added |-> a, updated |-> u, deleted |-> d, errors |-> e] \in Counts
  BY DEF Counts

\* What folding a transaction into the summary yields is a summary.
LEMMA CountedType ==
  ASSUME TypeOK, NEW w \in [Msgs -> Nat], NEW d \in SUBSET Msgs
  PROVE  Counted(w, d) \in Counts
<1> DEFINE written == Rows(w) \ d
           new == {m \in written : Inserted(m)}
<1>1. /\ Cardinality(new) \in Nat /\ Cardinality(written \ new) \in Nat
      /\ Cardinality(d \cap Rows(cache)) \in Nat
  <2>1. /\ new \in SUBSET Msgs /\ written \ new \in SUBSET Msgs
        /\ d \cap Rows(cache) \in SUBSET Msgs
    BY DEF Rows
  <2> QED BY <2>1, CountType
<1>2. summary \in Counts
  BY DEF TypeOK, RunType
<1> HIDE DEF written, new
<1>3. /\ summary.added + Cardinality(new) \in Nat
      /\ summary.updated + Cardinality(written \ new) \in Nat
      /\ summary.deleted + Cardinality(d \cap Rows(cache)) \in Nat
      /\ summary.errors \in Nat
  BY <1>1, <1>2 DEF Counts
<1>4. Counted(w, d) =
        [added |-> summary.added + Cardinality(new),
         updated |-> summary.updated + Cardinality(written \ new),
         deleted |-> summary.deleted + Cardinality(d \cap Rows(cache)),
         errors |-> summary.errors]
  BY Zenon DEF Counted, new, written
<1> QED BY <1>3, <1>4, MakeCounts, ZenonT(60)

\* A transaction leaves versions in the table.
LEMMA StoredType ==
  ASSUME TypeOK, NEW w \in [Msgs -> Nat], NEW d \in SUBSET Msgs
  PROVE  Stored(w, d) \in [Msgs -> Nat]
  BY DEF Stored, TypeOK, StoreType

\* The stream only grows, by one event of the message the server changed.
LEMMA ServerStep ==
  ASSUME TypeOK, Server
  PROVE  \E m \in Msgs, act \in Actions :
           /\ log' = Append(log, [act |-> act, msg |-> m])
           /\ srv' \in [Msgs -> Nat]
           /\ \A n \in Msgs \ {m} : srv'[n] = srv[n]
           /\ srv[m] = 0 => Unlogged(m)
           /\ act = "delete" => srv'[m] = 0
           /\ ServerUnchanged
<1>1. PICK m \in Msgs : Create(m) \/ Update(m) \/ Delete(m) \/ Refresh(m)
  BY DEF Server
<1>2. CASE Create(m)
  <2>1. log' = Append(log, [act |-> "create", msg |-> m]) /\ "create" \in Actions
    BY <1>2 DEF Create, Log, Actions
  <2>2. srv' \in [Msgs -> Nat] /\ \A n \in Msgs \ {m} : srv'[n] = srv[n]
    BY <1>2 DEF Create, TypeOK, ServerType
  <2>3. Unlogged(m) /\ ServerUnchanged
    BY <1>2 DEF Create
  <2> QED BY <2>1, <2>2, <2>3, Zenon
<1>3. CASE Update(m)
  <2>1. log' = Append(log, [act |-> "update", msg |-> m]) /\ "update" \in Actions
    BY <1>3 DEF Update, Log, Actions
  <2>2. srv' \in [Msgs -> Nat] /\ \A n \in Msgs \ {m} : srv'[n] = srv[n]
    BY <1>3 DEF Update, TypeOK, ServerType
  <2>3. srv[m] # 0 /\ ServerUnchanged
    BY <1>3 DEF Update
  <2> QED BY <2>1, <2>2, <2>3, Zenon
<1>4. CASE Delete(m)
  <2>1. log' = Append(log, [act |-> "delete", msg |-> m]) /\ "delete" \in Actions
    BY <1>4 DEF Delete, Log, Actions
  <2>2. srv' \in [Msgs -> Nat] /\ \A n \in Msgs \ {m} : srv'[n] = srv[n]
    BY <1>4 DEF Delete, TypeOK, ServerType
  <2>3. srv[m] # 0 /\ srv'[m] = 0 /\ ServerUnchanged
    BY <1>4 DEF Delete, TypeOK, ServerType
  <2> QED BY <2>1, <2>2, <2>3, Zenon
<1>5. CASE Refresh(m)
  <2>1. log' = Append(log, [act |-> "refresh", msg |-> m]) /\ "refresh" \in Actions
    BY <1>5 DEF Refresh, Log, Actions
  <2>2. srv' \in [Msgs -> Nat] /\ \A n \in Msgs \ {m} : srv'[n] = srv[n]
    BY <1>5 DEF Refresh, TypeOK, ServerType
  <2>3. srv[m] # 0 /\ ServerUnchanged
    BY <1>5 DEF Refresh
  <2> QED BY <2>1, <2>2, <2>3, Zenon
<1> QED BY <1>1, <1>2, <1>3, <1>4, <1>5

-----------------------------------------------------------------------------
(* Type correctness.                                                       *)

LEMMA InitType == Init => TypeOK
<1> SUFFICES ASSUME Init PROVE TypeOK
  OBVIOUS
<1>1. log \in Seq(Event) /\ Len(log) = 0
  BY DEF Init
<1>2. NoWrites \in [Msgs -> Nat]
  BY DEF NoWrites
<1>3. NoCounts \in Counts
  BY DEF NoCounts, Counts
<1>4. ServerType
  BY <1>1 DEF Init, ServerType
<1>5. StoreType
  <2>1. cache = NoWrites /\ cursor = NoCursor
    BY DEF Init
  <2> QED BY <1>1, <1>2, <2>1 DEF StoreType, NoCursor
<1>6. PassType
  <2>1. /\ mode = "none" /\ attempt = 1 /\ cur = 0 /\ upto = 0
        /\ pend = {} /\ doing = {} /\ writes = NoWrites /\ deletes = {} /\ skips = {}
    BY DEF Init
  <2> QED BY <1>1, <1>2, <2>1, BoundsAssumption DEF PassType
<1>7. RunType
  <2>1. pc = "idle" /\ summary = NoCounts /\ rows0 = {} /\ head0 = 0
    BY DEF Init
  <2> QED BY <1>1, <1>3, <2>1 DEF RunType, Steps
<1>8. HistoryType
  <2>1. stamped = 0 /\ given = {} /\ boots = 0 /\ disturbed = 0
    BY DEF Init
  <2> QED BY <1>1, <2>1, BoundsAssumption DEF HistoryType
<1>9. FlagType
  BY Zenon DEF Init, FlagType
<1> QED BY <1>4, <1>5, <1>6, <1>7, <1>8, <1>9 DEF TypeOK

\* Leaving the pass, and the summary's error, in the state a return leaves them.
LEMMA NoPassType ==
  ASSUME NoPass, log' \in Seq(Event)
  PROVE  PassType' /\ more' \in BOOLEAN
<1>1. Len(log') \in Nat
  OBVIOUS
<1>2. writes' \in [Msgs -> Nat]
  BY DEF NoPass, NoWrites
<1>3. more' \in BOOLEAN
  BY Zenon DEF NoPass
<1>4. /\ mode' = "none" /\ attempt' = 1 /\ cur' = 0 /\ upto' = 0
      /\ pend' = {} /\ doing' = {} /\ deletes' = {} /\ skips' = {}
  BY DEF NoPass
<1> QED BY <1>1, <1>2, <1>3, <1>4, BoundsAssumption DEF PassType

LEMMA ReturnType ==
  ASSUME TypeOK, NEW err \in BOOLEAN, Return(err)
  PROVE  /\ UNCHANGED log /\ ServerType' /\ PassType' /\ FlagType'
         /\ summary' \in Counts => RunType'
         /\ given' \subseteq Msgs \X Errors /\ disturbed' \in 0..MaxDisturbances
              => HistoryType'
<1>1. UNCHANGED <<srv, log>> /\ NoPass /\ failed' = err
      /\ UNCHANGED cancelled
  BY DEF Return, serverVars
<1>2. ServerType' /\ log' \in Seq(Event)
  BY <1>1 DEF TypeOK, ServerType
<1>3. FlagType'
  BY <1>1, <1>2, NoPassType, Zenon DEF TypeOK, FlagType
<1>4. pc' \in Steps /\ UNCHANGED <<rows0, head0, stamped, boots>>
  BY DEF Return, Steps
<1>5. summary' \in Counts => RunType'
  BY <1>1, <1>4 DEF TypeOK, RunType
<1>6. given' \subseteq Msgs \X Errors /\ disturbed' \in 0..MaxDisturbances => HistoryType'
  BY <1>1, <1>4 DEF TypeOK, HistoryType
<1> QED BY <1>1, <1>2, <1>3, <1>5, <1>6, NoPassType

LEMMA DisturbType ==
  ASSUME TypeOK, NEW kind, Disturb(kind)
  PROVE  disturbed' \in 0..MaxDisturbances
  BY BoundsAssumption DEF Disturb, TypeOK, HistoryType

\* A return that leaves the tables and the counts alone.
LEMMA PlainReturnType ==
  ASSUME TypeOK, NEW err \in BOOLEAN, Return(err),
         UNCHANGED <<storeVars, summary, given>>,
         UNCHANGED disturbed \/ \E kind : Disturb(kind)
  PROVE  TypeOK'
<1>1. disturbed' \in 0..MaxDisturbances
  BY DisturbType DEF TypeOK, HistoryType
<1>2. summary' \in Counts /\ given' \subseteq Msgs \X Errors
  BY DEF TypeOK, RunType, HistoryType
<1>3. StoreType'
  BY ReturnType DEF TypeOK, StoreType, storeVars
<1> QED BY <1>1, <1>2, <1>3, ReturnType, Zenon DEF TypeOK

\* A group of variables a step leaves alone keeps its type.
LEMMA KeptType ==
  ASSUME TypeOK, UNCHANGED log
  PROVE  /\ UNCHANGED serverVars => ServerType'
         /\ UNCHANGED storeVars => StoreType'
         /\ UNCHANGED passVars => PassType'
         /\ UNCHANGED <<pc, summary, rows0, head0>> => RunType'
         /\ UNCHANGED <<stamped, given, boots, disturbed>> => HistoryType'
         /\ UNCHANGED <<cancelled, failed, more>> => FlagType'
<1>1. UNCHANGED serverVars => ServerType'
  BY DEF TypeOK, ServerType, serverVars
<1>2. UNCHANGED storeVars => StoreType'
  BY DEF TypeOK, StoreType, storeVars
<1>3. UNCHANGED passVars => PassType'
  BY DEF TypeOK, PassType, passVars
<1>4. UNCHANGED <<pc, summary, rows0, head0>> => RunType'
  BY DEF TypeOK, RunType
<1>5. UNCHANGED <<stamped, given, boots, disturbed>> => HistoryType'
  BY DEF TypeOK, HistoryType
<1>6. UNCHANGED <<cancelled, failed, more>> => FlagType'
  BY Zenon DEF TypeOK, FlagType
<1> QED BY <1>1, <1>2, <1>3, <1>4, <1>5, <1>6

LEMMA NoWritesType == NoWrites \in [Msgs -> Nat]
  BY DEF NoWrites

LEMMA NoCountsType == NoCounts \in Counts
  BY DEF NoCounts, Counts

LEMMA DecryptErrorType ==
  ASSUME TypeOK, NEW m \in Msgs, NEW err \in Errors, DecryptError(m, err)
  PROVE  disturbed' \in 0..MaxDisturbances
  BY DisturbType DEF DecryptError, TypeOK, HistoryType

\* What a batch sorts into are message ids.
LEMMA BatchType ==
  ASSUME TypeOK, NEW last \in 0..Len(log)
  PROVE  FinalDeletes(cur, last) \subseteq Msgs /\ FinalWrites(cur, last) \subseteq Msgs
<1>1. \A i \in (cur + 1)..last : log[i] \in Event
  BY DEF TypeOK, ServerType, PassType
<1> QED BY <1>1 DEF FinalDeletes, FinalWrites, BatchEvents, Event

\* Every step keeps the types.
LEMMA NextType == TypeOK /\ [Next]_vars => TypeOK'
<1> SUFFICES ASSUME TypeOK, [Next]_vars PROVE TypeOK'
  OBVIOUS
<1>1. CASE StartRun
  <2>1. UNCHANGED log /\ ServerType' /\ StoreType' /\ PassType' /\ HistoryType'
    BY <1>1, KeptType DEF StartRun, serverVars, storeVars, passVars, runVars, historyVars
  <2>2. RunType'
    <3>1. pc' \in Steps /\ summary' = NoCounts /\ rows0' = Rows(cache) /\ head0' = Len(log)
      BY <1>1 DEF StartRun, Steps
    <3> QED
      BY <3>1, <2>1, NoCountsType DEF RunType, Rows, TypeOK, ServerType
  <2>3. FlagType'
    <3>1. cancelled' = FALSE /\ failed' = FALSE /\ UNCHANGED more
      BY <1>1 DEF StartRun, passVars, historyVars
    <3> QED
      BY <3>1, Zenon DEF TypeOK, FlagType
  <2> QED BY <2>1, <2>2, <2>3 DEF TypeOK
<1>2. CASE ResumeClient
  <2>1. UNCHANGED log /\ ServerType' /\ StoreType' /\ PassType' /\ HistoryType' /\ FlagType'
    BY <1>2, KeptType DEF ResumeClient, serverVars, storeVars, passVars, runVars, historyVars
  <2>2. RunType'
    BY <1>2, <2>1 DEF ResumeClient, TypeOK, RunType, Steps
  <2> QED BY <2>1, <2>2 DEF TypeOK
<1>3. CASE FetchLabels
  <2>1. UNCHANGED log /\ ServerType' /\ StoreType' /\ HistoryType' /\ FlagType'
    BY <1>3, KeptType DEF FetchLabels, serverVars, storeVars, passVars, runVars, historyVars
  <2>2. PassType'
    <3>1. /\ mode' \in {"bootstrap", "tail"} /\ attempt' = 1
           /\ cur' \in 0..Len(log)
           /\ UNCHANGED <<upto, pend, doing, deletes, writes, skips>>
      BY <1>3, BoundsAssumption DEF FetchLabels, TypeOK, StoreType, PassType, NoCursor
    <3> QED
      BY <3>1, <2>1, BoundsAssumption DEF TypeOK, ServerType, PassType
  <2>3. RunType'
    BY <1>3, <2>1 DEF FetchLabels, TypeOK, RunType, Steps
  <2> QED BY <2>1, <2>2, <2>3 DEF TypeOK
<1>4. CASE RetryCall
  <2>1. UNCHANGED log /\ ServerType' /\ StoreType' /\ RunType' /\ FlagType'
    BY <1>4, KeptType DEF RetryCall, serverVars, storeVars, passVars, runVars, historyVars
  <2>2. PassType'
    BY <1>4, <2>1, BoundsAssumption DEF RetryCall, TypeOK, ServerType, PassType
  <2>3. HistoryType'
    <3>1. disturbed' \in 0..MaxDisturbances /\ UNCHANGED <<stamped, given, boots>>
      BY <1>4, DisturbType DEF RetryCall, historyVars
    <3> QED
      BY <3>1, <2>1 DEF TypeOK, HistoryType
  <2> QED BY <2>1, <2>2, <2>3 DEF TypeOK
<1>5. CASE LatestEventID
  <2>1. UNCHANGED log /\ ServerType' /\ StoreType' /\ FlagType'
    BY <1>5, KeptType DEF LatestEventID, serverVars, storeVars, passVars, runVars, historyVars
  <2>2. PassType'
    BY <1>5, <2>1, BoundsAssumption DEF LatestEventID, TypeOK, ServerType, PassType
  <2>3. RunType'
    BY <1>5, <2>1 DEF LatestEventID, TypeOK, RunType, Steps
  <2>4. HistoryType'
    BY <1>5, <2>1, BoundsAssumption DEF LatestEventID, TypeOK, HistoryType
  <2> QED BY <2>1, <2>2, <2>3, <2>4 DEF TypeOK
<1>6. CASE BackfillMessageIDs
  <2>1. UNCHANGED log /\ ServerType' /\ StoreType' /\ HistoryType' /\ FlagType'
    BY <1>6, KeptType DEF BackfillMessageIDs, serverVars, storeVars, passVars, runVars, historyVars
  <2>2. PassType'
    <3>1. /\ attempt' = 1 /\ pend' \subseteq Msgs
           /\ UNCHANGED <<mode, cur, upto, doing, deletes, writes, skips>>
      BY <1>6, RecentAssumption DEF BackfillMessageIDs
    <3> QED
      BY <3>1, <2>1, BoundsAssumption DEF TypeOK, ServerType, PassType
  <2>3. RunType'
    BY <1>6, <2>1 DEF BackfillMessageIDs, TypeOK, RunType, Steps
  <2> QED BY <2>1, <2>2, <2>3 DEF TypeOK
<1>7. CASE NextBackfill
  <2>1. UNCHANGED log /\ ServerType' /\ StoreType' /\ HistoryType' /\ FlagType'
    BY <1>7, KeptType DEF NextBackfill, serverVars, storeVars, passVars, runVars, historyVars
  <2>2. PassType'
    BY <1>7, <2>1, BoundsAssumption DEF NextBackfill, TypeOK, ServerType, PassType
  <2>3. RunType'
    BY <1>7, <2>1 DEF NextBackfill, TypeOK, RunType, Steps
  <2> QED BY <2>1, <2>2, <2>3 DEF TypeOK
<1>8. CASE ApplyMessage
  <2>1. UNCHANGED log /\ ServerType' /\ HistoryType' /\ FlagType'
    BY <1>8, KeptType DEF ApplyMessage, serverVars, storeVars, passVars, runVars, historyVars
  <2>2. StoreType'
    BY <1>8, <2>1, StoredType DEF ApplyMessage, TypeOK, StoreType, PassType
  <2>3. PassType'
    <3>1. /\ writes' \in [Msgs -> Nat] /\ doing' = {}
           /\ UNCHANGED <<mode, attempt, cur, upto, pend, deletes, skips>>
      BY <1>8 DEF ApplyMessage, NoWrites
    <3> QED
      BY <3>1, <2>1, BoundsAssumption DEF TypeOK, ServerType, PassType
  <2>4. RunType'
    <3>1. pc' \in Steps /\ summary' \in Counts /\ UNCHANGED <<rows0, head0>>
      BY <1>8, CountedType DEF ApplyMessage, TypeOK, PassType, Steps
    <3> QED
      BY <3>1, <2>1 DEF TypeOK, RunType
  <2> QED BY <2>1, <2>2, <2>3, <2>4 DEF TypeOK
<1>9. CASE PersistCursor
  <2>1. CASE StoreRefuses
    BY <1>9, <2>1, PlainReturnType DEF PersistCursor, storeVars
  <2>2. CASE ~StoreRefuses
    <3>1. /\ Return(FALSE) /\ UNCHANGED <<cache, summary, disturbed>>
          /\ cursor' = cur /\ given' = skips
      BY <1>9, <2>2 DEF PersistCursor, BootstrapCursor
    <3>2. StoreType'
      <4>1. UNCHANGED log
        BY <3>1, ReturnType, Zenon
      <4> QED BY <3>1, <4>1 DEF TypeOK, ServerType, StoreType, PassType, NoCursor
    <3>3. summary' \in Counts /\ given' \subseteq Msgs \X Errors
      BY <3>1 DEF TypeOK, PassType, RunType
    <3>4. disturbed' \in 0..MaxDisturbances
      BY <3>1 DEF TypeOK, HistoryType
    <3> QED BY <3>1, <3>2, <3>3, <3>4, ReturnType, Zenon DEF TypeOK
  <2> QED BY <2>1, <2>2
<1>10. CASE DecryptMessage
  <2>1. UNCHANGED log /\ ServerType' /\ StoreType' /\ HistoryType' /\ FlagType'
    BY <1>10, KeptType DEF DecryptMessage, serverVars, storeVars, passVars, runVars, historyVars
  <2>2. PassType'
    <3>1. /\ writes' \in [Msgs -> Nat] /\ doing' \subseteq doing
           /\ UNCHANGED <<mode, attempt, cur, upto, pend, deletes, skips>>
      BY <1>10 DEF DecryptMessage, Fetched, TypeOK, ServerType, PassType
    <3> QED
      BY <3>1, <2>1, BoundsAssumption DEF TypeOK, ServerType, PassType
  <2>3. RunType'
    BY <1>10, <2>1 DEF DecryptMessage, TypeOK, RunType, Steps
  <2> QED BY <2>1, <2>2, <2>3 DEF TypeOK
<1>11. CASE RetryDecrypt
  <2>1. UNCHANGED log /\ ServerType' /\ StoreType' /\ RunType' /\ FlagType'
    BY <1>11, KeptType DEF RetryDecrypt, serverVars, storeVars, passVars, runVars, historyVars
  <2>2. PassType'
    BY <1>11, <2>1, BoundsAssumption DEF RetryDecrypt, TypeOK, ServerType, PassType
  <2>3. HistoryType'
    <3>1. disturbed' \in 0..MaxDisturbances /\ UNCHANGED <<stamped, given, boots>>
      BY <1>11, DecryptErrorType DEF RetryDecrypt, historyVars, TypeOK, PassType
    <3> QED
      BY <3>1, <2>1 DEF TypeOK, HistoryType
  <2> QED BY <2>1, <2>2, <2>3 DEF TypeOK
<1>12. CASE DecryptSkips
  <2>1. UNCHANGED log /\ ServerType' /\ StoreType' /\ FlagType'
    BY <1>12, KeptType DEF DecryptSkips, serverVars, storeVars, passVars, runVars, historyVars
  <2>2. PassType'
    BY <1>12, <2>1, BoundsAssumption, SMTT(30) DEF DecryptSkips, TypeOK, ServerType, PassType
  <2>3. RunType'
    <3>1. pc' \in Steps /\ summary' = [summary EXCEPT !.errors = @ + 1]
           /\ UNCHANGED <<rows0, head0>>
      BY <1>12 DEF DecryptSkips, AfterDecrypt, Steps
    <3>2. summary' \in Counts
      BY <3>1 DEF TypeOK, RunType, Counts
    <3> QED
      BY <3>1, <3>2, <2>1 DEF TypeOK, RunType
  <2>4. HistoryType'
    <3>1. disturbed' \in 0..MaxDisturbances /\ UNCHANGED <<stamped, given, boots>>
      BY <1>12, DecryptErrorType DEF DecryptSkips, historyVars, TypeOK, PassType
    <3> QED
      BY <3>1, <2>1 DEF TypeOK, HistoryType
  <2> QED BY <2>1, <2>2, <2>3, <2>4 DEF TypeOK
<1>13. CASE GetEvents
  <2>1. UNCHANGED log /\ ServerType' /\ StoreType' /\ HistoryType'
    BY <1>13, KeptType DEF GetEvents, serverVars, storeVars, passVars, runVars, historyVars
  <2>2. PassType'
    <3>1. /\ upto' \in 0..Len(log) /\ attempt' = 1
           /\ pend' \subseteq Msgs /\ deletes' \subseteq Msgs
           /\ writes' = NoWrites /\ skips' = {}
           /\ UNCHANGED <<mode, cur, doing>>
      BY <1>13, BatchType DEF GetEvents, NextCursor, TypeOK, ServerType, PassType
    <3> QED
      BY <3>1, <2>1, NoWritesType, BoundsAssumption DEF TypeOK, ServerType, PassType
  <2>3. RunType'
    BY <1>13, <2>1 DEF GetEvents, TypeOK, RunType, Steps
  <2>4. FlagType'
    <3>1. more' \in BOOLEAN /\ UNCHANGED <<cancelled, failed>>
      BY <1>13 DEF GetEvents, More, historyVars
    <3> QED
      BY <3>1, Zenon DEF TypeOK, FlagType
  <2> QED BY <2>1, <2>2, <2>3, <2>4 DEF TypeOK
<1>14. CASE GetEventsRefresh
  <2>1. UNCHANGED log /\ ServerType' /\ StoreType' /\ HistoryType'
    BY <1>14, KeptType DEF GetEventsRefresh, serverVars, storeVars, passVars, runVars, historyVars
  <2>2. PassType'
    <3>1. /\ mode' = "bootstrap" /\ attempt' = 1 /\ upto' = 0
           /\ deletes' = {} /\ writes' = NoWrites /\ skips' = {}
           /\ UNCHANGED <<cur, pend, doing>>
      BY <1>14 DEF GetEventsRefresh
    <3> QED
      BY <3>1, <2>1, NoWritesType, BoundsAssumption DEF TypeOK, ServerType, PassType
  <2>3. RunType'
    BY <1>14, <2>1 DEF GetEventsRefresh, TypeOK, RunType, Steps
  <2>4. FlagType'
    <3>1. more' = FALSE /\ UNCHANGED <<cancelled, failed>>
      BY <1>14 DEF GetEventsRefresh, passVars, historyVars
    <3> QED
      BY <3>1, Zenon DEF TypeOK, FlagType
  <2> QED BY <2>1, <2>2, <2>3, <2>4 DEF TypeOK
<1>15. CASE PrepareNext
  <2>1. UNCHANGED log /\ ServerType' /\ StoreType' /\ HistoryType' /\ FlagType'
    BY <1>15, KeptType DEF PrepareNext, serverVars, storeVars, passVars, runVars, historyVars
  <2>2. PassType'
    BY <1>15, <2>1, BoundsAssumption DEF PrepareNext, TypeOK, ServerType, PassType
  <2>3. RunType'
    BY <1>15, <2>1 DEF PrepareNext, TypeOK, RunType, Steps
  <2> QED BY <2>1, <2>2, <2>3 DEF TypeOK
<1>16. CASE CommitBatch
  <2>1. /\ cache' \in [Msgs -> Nat] /\ summary' \in Counts
        /\ cursor' = upto /\ UNCHANGED disturbed
    BY <1>16, StoredType, CountedType DEF CommitBatch, TypeOK, PassType
  <2>2. given' \subseteq Msgs \X Errors
    BY <1>16 DEF CommitBatch, TypeOK, PassType, HistoryType
  <2>3. disturbed' \in 0..MaxDisturbances
    BY <2>1 DEF TypeOK, HistoryType
  <2>4. CASE more
    <3>1. /\ UNCHANGED <<serverVars, mode, pend, doing, rows0, head0, stamped, boots>>
          /\ pc' = "fetch" /\ attempt' = 1 /\ cur' = upto /\ upto' = 0
          /\ deletes' = {} /\ writes' = NoWrites /\ skips' = {}
      BY <1>16, <2>4 DEF CommitBatch
    <3>2. UNCHANGED <<srv, log>>
      BY <3>1 DEF serverVars
    <3>3. ServerType' /\ StoreType'
      BY <2>1, <3>2 DEF TypeOK, ServerType, StoreType, PassType, NoCursor
    <3>4. PassType'
      BY <3>1, <3>2, NoWritesType, BoundsAssumption DEF TypeOK, ServerType, PassType
    <3>5. RunType'
      BY <2>1, <3>1, <3>2 DEF TypeOK, RunType, Steps
    <3>6. HistoryType'
      BY <2>2, <2>3, <3>1, <3>2 DEF TypeOK, HistoryType
    <3>7. more' = FALSE /\ UNCHANGED <<cancelled, failed>>
      BY <1>16, <2>4 DEF CommitBatch
    <3>8. FlagType'
      BY <3>7, Zenon DEF TypeOK, FlagType
    <3> QED BY <3>3, <3>4, <3>5, <3>6, <3>8 DEF TypeOK
  <2>5. CASE ~more
    <3>1. Return(FALSE)
      BY <1>16, <2>5 DEF CommitBatch
    <3>2. StoreType'
      <4>1. UNCHANGED log
        BY <3>1, ReturnType, Zenon
      <4> QED BY <2>1, <4>1 DEF TypeOK, ServerType, StoreType, PassType, NoCursor
    <3> QED BY <2>1, <2>2, <2>3, <3>1, <3>2, ReturnType, Zenon DEF TypeOK
  <2> QED BY <2>4, <2>5
<1>17. CASE RecordRun
  <2>1. UNCHANGED log /\ ServerType' /\ StoreType' /\ PassType'
    BY <1>17, KeptType DEF RecordRun, serverVars, storeVars, passVars, runVars, historyVars
  <2>2. RunType'
    <3>1. pc' \in Steps /\ summary' = NoCounts /\ rows0' = {} /\ head0' = 0
      BY <1>17 DEF RecordRun, Steps
    <3> QED
      BY <3>1, <2>1, NoCountsType DEF TypeOK, ServerType, RunType
  <2>3. HistoryType'
    <3>1. stamped' \in {stamped, head0} /\ UNCHANGED <<given, boots, disturbed>>
      BY <1>17 DEF RecordRun
    <3> QED
      BY <3>1, <2>1 DEF TypeOK, RunType, HistoryType
  <2>4. FlagType'
    <3>1. /\ cancelled' = FALSE /\ failed' = FALSE
           /\ UNCHANGED more
      BY <1>17 DEF RecordRun, StoreRefuses, passVars
    <3> QED
      BY <3>1, Zenon DEF TypeOK, FlagType
  <2> QED BY <2>1, <2>2, <2>3, <2>4 DEF TypeOK
<1>18. CASE Cancel
  <2>1. UNCHANGED log /\ ServerType' /\ StoreType' /\ PassType' /\ RunType'
    BY <1>18, KeptType DEF Cancel, serverVars, storeVars, passVars, runVars, historyVars
  <2>2. HistoryType'
    <3>1. disturbed' \in 0..MaxDisturbances /\ UNCHANGED <<stamped, given, boots>>
      BY <1>18, DisturbType DEF Cancel, historyVars
    <3> QED
      BY <3>1, <2>1 DEF TypeOK, HistoryType
  <2>3. FlagType'
    <3>1. cancelled' = TRUE /\ UNCHANGED <<failed, more>>
      BY <1>18 DEF Cancel, passVars, historyVars
    <3> QED
      BY <3>1, Zenon DEF TypeOK, FlagType
  <2> QED BY <2>1, <2>2, <2>3 DEF TypeOK
<1>19. CASE Crash
  <2>1. UNCHANGED log /\ ServerType' /\ StoreType'
    BY <1>19, KeptType DEF Crash, serverVars, storeVars, passVars, runVars, historyVars
  <2>2. PassType'
    BY <1>19, <2>1, NoPassType DEF Crash, TypeOK, ServerType
  <2>3. RunType'
    <3>1. pc' \in Steps /\ summary' = NoCounts /\ rows0' = {} /\ head0' = 0
      BY <1>19 DEF Crash, Steps
    <3> QED
      BY <3>1, <2>1, NoCountsType DEF TypeOK, ServerType, RunType
  <2>4. HistoryType'
    <3>1. disturbed' \in 0..MaxDisturbances /\ UNCHANGED <<stamped, given, boots>>
      BY <1>19, DisturbType DEF Crash, historyVars
    <3> QED
      BY <3>1, <2>1 DEF TypeOK, HistoryType
  <2>5. FlagType'
    <3>1. /\ cancelled' = FALSE /\ failed' = FALSE /\ more' = FALSE
      BY <1>19 DEF Crash, NoPass, historyVars
    <3> QED
      BY <3>1, Zenon DEF TypeOK, FlagType
  <2> QED BY <2>1, <2>2, <2>3, <2>4, <2>5 DEF TypeOK
<1>20. CASE ResetSyncCursor
  <2>1. UNCHANGED log /\ ServerType' /\ PassType' /\ RunType' /\ FlagType'
    BY <1>20, KeptType DEF ResetSyncCursor, serverVars, storeVars, passVars, runVars, historyVars
  <2>2. StoreType'
    <3>1. cursor' = NoCursor /\ UNCHANGED cache
      BY <1>20 DEF ResetSyncCursor
    <3> QED
      BY <3>1, <2>1 DEF TypeOK, ServerType, StoreType, NoCursor
  <2>3. HistoryType'
    <3>1. disturbed' \in 0..MaxDisturbances /\ UNCHANGED <<stamped, given, boots>>
      BY <1>20, DisturbType DEF ResetSyncCursor, historyVars
    <3> QED
      BY <3>1, <2>1 DEF TypeOK, HistoryType
  <2> QED BY <2>1, <2>2, <2>3 DEF TypeOK
<1>21. CASE ResumeFails
  BY <1>21, PlainReturnType, Zenon DEF ResumeFails
<1>22. CASE CallFails
  BY <1>22, PlainReturnType, Zenon DEF CallFails
<1>23. CASE DecryptAborts
  <2>1. Return(TRUE) /\ UNCHANGED <<storeVars, summary, given>>
    BY <1>23 DEF DecryptAborts
  <2>2. UNCHANGED disturbed \/ \E kind : Disturb(kind)
    BY <1>23 DEF DecryptAborts, DecryptError
  <2> QED BY <2>1, <2>2, PlainReturnType
<1>24. CASE GetEventsEmpty
  BY <1>24, PlainReturnType, Zenon DEF GetEventsEmpty
<1>25. CASE Abort
  BY <1>25, PlainReturnType, Zenon DEF Abort
<1>26. CASE StopCancelled
  BY <1>26, PlainReturnType, Zenon DEF StopCancelled
<1>27. CASE Server
  <2>1. PICK m \in Msgs, act \in Actions :
          /\ log' = Append(log, [act |-> act, msg |-> m])
          /\ srv' \in [Msgs -> Nat] /\ ServerUnchanged
    BY <1>27, ServerStep
  <2>2. /\ log' \in Seq(Event) /\ Len(log') = Len(log) + 1 /\ Len(log) \in Nat
    <3>1. [act |-> act, msg |-> m] \in Event
      BY DEF Event
    <3> QED BY <2>1, <3>1 DEF TypeOK, ServerType
  <2>3. UNCHANGED <<cache, cursor, mode, attempt, cur, upto, more, pend, doing, writes,
                    deletes, skips, pc, cancelled, summary, failed, rows0, head0, stamped,
                    given, boots, disturbed>>
    BY <2>1 DEF ServerUnchanged, serverVars, storeVars, passVars, runVars, historyVars
  <2>4. ServerType' /\ StoreType'
    BY <2>1, <2>2, <2>3 DEF TypeOK, ServerType, StoreType, NoCursor
  <2>5. PassType'
    BY <2>2, <2>3 DEF TypeOK, PassType
  <2>6. RunType' /\ HistoryType'
    BY <2>2, <2>3 DEF TypeOK, RunType, HistoryType
  <2>7. FlagType'
    BY <2>3, Zenon DEF TypeOK, FlagType
  <2> QED BY <2>4, <2>5, <2>6, <2>7 DEF TypeOK
<1>28. CASE UNCHANGED vars
  BY <1>28, KeptType DEF vars, serverVars, storeVars, passVars, runVars, historyVars, TypeOK
<1> QED BY <1>1, <1>2, <1>3, <1>4, <1>5, <1>6, <1>7, <1>8, <1>9, <1>10, <1>11, <1>12, <1>13, <1>14, <1>15, <1>16, <1>17, <1>18, <1>19, <1>20, <1>21, <1>22, <1>23, <1>24, <1>25, <1>26, <1>27, <1>28
  DEF Next, Engine, Disturbance

\* Every reachable state has its type: in particular a persisted cursor never
\* points beyond the stream, and no call outlives the retry policy.
THEOREM TypeCorrect == Spec => []TypeOK
<1>1. Init => TypeOK
  BY InitType
<1>2. TypeOK /\ [Next]_vars => TypeOK'
  BY NextType
<1> QED BY <1>1, <1>2, PTL DEF Spec

-----------------------------------------------------------------------------
(* Steps that leave most of the invariant alone.                           *)

\* While the server and the tables stand still, NoLoss does too.
LEMMA KeptNoLoss ==
  ASSUME NoLossInv, UNCHANGED <<srv, log, cache, cursor, given>>
  PROVE  DeletesAreFinal' /\ NoLoss'
  BY DEF NoLossInv, DeletesAreFinal, NoLoss, Owed, GivenUp

\* A run that returns or dies holds nothing: what it leaves must satisfy NoLoss.
LEMMA LeaveInv ==
  ASSUME NoLossInv, NoPass, pc' \in {"idle", "record"}, UNCHANGED <<srv, log>>, NoLoss'
  PROVE  NoLossInv'
<1>1. DeletesAreFinal'
  BY DEF NoLossInv, DeletesAreFinal
<1>2. PassShape'
  BY DEF NoPass, PassShape
<1>3. WritesFresh'
  BY DEF NoPass, NoWrites, WritesFresh
<1>4. BackfillCovers' /\ BootstrapOwesAll' /\ TailAtCursor' /\ BatchCovers'
  BY DEF NoPass, BackfillCovers, BootstrapOwesAll, TailAtCursor, BatchCovers
<1> QED BY <1>1, <1>2, <1>3, <1>4 DEF NoLossInv

\* In particular a return that leaves the tables alone.
LEMMA PlainReturnInv ==
  ASSUME NoLossInv, NEW err, Return(err), UNCHANGED <<storeVars, given>>
  PROVE  NoLossInv'
<1>1. NoPass /\ pc' = "record" /\ UNCHANGED <<srv, log, cache, cursor, given>>
  BY DEF Return, serverVars, storeVars
<1>2. NoLoss'
  BY <1>1, KeptNoLoss
<1> QED BY <1>1, <1>2, LeaveInv

\* Every event names a message.
LEMMA EventMsgs ==
  ASSUME TypeOK
  PROVE  \A i \in 1..Len(log) : log[i] \in Event /\ log[i].msg \in Msgs
<1>1. \A i \in 1..Len(log) : log[i] \in Event
  BY DEF TypeOK, ServerType
<1> QED BY <1>1 DEF Event

\* The server's next event concerns the message it changed, and takes nothing
\* away from what the stream said before.
LEMMA ServerOwes ==
  ASSUME TypeOK, NEW m \in Msgs, NEW act \in Actions,
         log' = Append(log, [act |-> act, msg |-> m])
  PROVE  \A c \in 0..Len(log) :
           Owed(m, c)' /\ \A n \in Msgs : Owed(n, c) => Owed(n, c)'
<1>1. /\ Len(log) \in Nat /\ Len(log') = Len(log) + 1
      /\ log'[Len(log) + 1] = [act |-> act, msg |-> m]
      /\ \A i \in 1..Len(log) : log'[i] = log[i]
  BY DEF TypeOK, ServerType
<1> QED BY <1>1 DEF Owed

-----------------------------------------------------------------------------
(* The server's step.                                                      *)

LEMMA ServerInv ==
  ASSUME TypeOK, NoLossInv, Server
  PROVE  NoLossInv'
<1>1. PICK m \in Msgs, act \in Actions :
        /\ log' = Append(log, [act |-> act, msg |-> m])
        /\ srv' \in [Msgs -> Nat]
        /\ \A n \in Msgs \ {m} : srv'[n] = srv[n]
        /\ srv[m] = 0 => Unlogged(m)
        /\ act = "delete" => srv'[m] = 0
        /\ ServerUnchanged
  BY ServerStep
<1>2. /\ Len(log) \in Nat /\ Len(log') = Len(log) + 1
      /\ log'[Len(log) + 1] = [act |-> act, msg |-> m]
      /\ \A i \in 1..Len(log) : log'[i] = log[i] /\ log[i].msg \in Msgs
  BY <1>1, EventMsgs DEF TypeOK, ServerType
<1>3. UNCHANGED <<cache, cursor, mode, cur, upto, pend, doing, writes, deletes, skips,
                  pc, cancelled, given>>
  BY <1>1 DEF ServerUnchanged, storeVars, passVars, runVars, historyVars
<1>4. \A c \in 0..Len(log) :
        Owed(m, c)' /\ \A n \in Msgs : Owed(n, c) => Owed(n, c)'
  BY <1>1, ServerOwes
<1>5. cur \in 0..Len(log) /\ upto \in 0..Len(log) /\ cursor \in NoCursor..Len(log)
  BY DEF TypeOK, PassType, StoreType
<1>6. DeletesAreFinal'
  <2> SUFFICES ASSUME NEW i \in 1..Len(log'), log'[i].act = "delete"
               PROVE  srv'[log'[i].msg] = 0
    BY DEF DeletesAreFinal
  <2>1. CASE i = Len(log) + 1
    BY <1>1, <1>2, <2>1
  <2>2. CASE i \in 1..Len(log)
    <3>1. srv[log[i].msg] = 0 /\ log'[i] = log[i] /\ log[i].msg \in Msgs
      BY <1>2, <2>2 DEF NoLossInv, DeletesAreFinal
    <3>2. log[i].msg # m
      BY <1>1, <2>2, <3>1 DEF Unlogged
    <3> QED BY <1>1, <3>1, <3>2
  <2> QED BY <1>2, <2>1, <2>2
<1>7. PassShape'
  BY <1>3 DEF NoLossInv, PassShape, NoWrites
<1>8. WritesFresh'
  <2>1. Mark' = Mark /\ Mark \in 0..Len(log)
    BY <1>3, <1>5 DEF Mark
  <2> SUFFICES ASSUME NEW n \in Msgs, writes[n] # 0, srv'[n] # 0
               PROVE  writes[n] = srv'[n] \/ Owed(n, Mark)'
    BY <1>3 DEF WritesFresh
  <2>2. CASE n = m
    BY <1>2, <2>1, <2>2 DEF Owed
  <2>3. CASE n # m
    <3>1. srv'[n] = srv[n]
      BY <1>1, <2>3
    <3>2. writes[n] = srv[n] \/ Owed(n, Mark)
      BY <3>1 DEF NoLossInv, WritesFresh
    <3> QED BY <1>2, <2>1, <3>1, <3>2 DEF Owed
  <2> QED BY <2>2, <2>3
<1>9. BackfillCovers'
  <2> SUFFICES ASSUME mode = "bootstrap", pc \in {"backfill", "decrypt", "apply"},
                      NEW n \in Recent, srv'[n] # 0
               PROVE  \/ n \in pend \union doing \/ Excused(n)
                      \/ cache[n] = srv'[n] \/ Owed(n, cur)'
    BY <1>3 DEF BackfillCovers, Excused
  <2>1. CASE n = m
    BY <1>2, <1>3, <1>5, <2>1 DEF Owed
  <2>2. CASE n # m
    <3>1. srv'[n] = srv[n]
      BY <1>1, <2>2, RecentAssumption
    <3>2. \/ n \in pend \union doing \/ Excused(n)
          \/ cache[n] = srv[n] \/ Owed(n, cur)
      BY <3>1 DEF NoLossInv, BackfillCovers
    <3> QED BY <1>2, <1>3, <1>5, <3>1, <3>2 DEF Owed
  <2> QED BY <2>1, <2>2
<1>10. BootstrapOwesAll'
  <2> SUFFICES ASSUME mode = "bootstrap", cursor # NoCursor, NEW n \in Msgs
               PROVE  Owed(n, cursor)'
    BY <1>3 DEF BootstrapOwesAll
  <2>1. Owed(n, cursor)
    BY DEF NoLossInv, BootstrapOwesAll
  <2> QED BY <1>2, <1>3, <1>5, <2>1 DEF Owed, NoCursor
<1>11. TailAtCursor'
  BY <1>3 DEF NoLossInv, TailAtCursor
<1>12. BatchCovers'
  <2> SUFFICES ASSUME mode = "tail", pc \in {"prepare", "decrypt"}
               PROVE  BatchCovers'
    BY <1>3 DEF BatchCovers
  <2>1. \A i \in (cur + 1)..upto :
          /\ log'[i].act # "refresh"
          /\ \/ log'[i].msg \in pend \union doing \/ Excused(log'[i].msg)
             \/ writes[log'[i].msg] # 0 \/ srv'[log'[i].msg] = 0
    <3> SUFFICES ASSUME NEW i \in (cur + 1)..upto
                 PROVE  /\ log'[i].act # "refresh"
                        /\ \/ log'[i].msg \in pend \union doing \/ Excused(log'[i].msg)
                           \/ writes[log'[i].msg] # 0 \/ srv'[log'[i].msg] = 0
      OBVIOUS
    <3>1. i \in 1..Len(log) /\ log'[i] = log[i] /\ log[i].msg \in Msgs
      BY <1>2, <1>5
    <3>2. /\ log[i].act # "refresh"
          /\ \/ log[i].msg \in pend \union doing \/ Excused(log[i].msg)
             \/ writes[log[i].msg] # 0 \/ srv[log[i].msg] = 0
      BY DEF NoLossInv, BatchCovers
    <3>3. srv[log[i].msg] = 0 => srv'[log[i].msg] = 0
      BY <1>1, <3>1 DEF Unlogged
    <3> QED BY <3>1, <3>2, <3>3
  <2>2. \A n \in deletes :
          \E i \in 1..Len(log') : log'[i].msg = n /\ log'[i].act = "delete"
    BY <1>2 DEF NoLossInv, BatchCovers
  <2> QED BY <1>3, <2>1, <2>2 DEF BatchCovers, Excused
<1>13. NoLoss'
  <2> SUFFICES ASSUME cursor # NoCursor, NEW n \in Recent, srv'[n] # 0
               PROVE  cache[n] = srv'[n] \/ GivenUp(n) \/ Owed(n, cursor)'
    BY <1>3 DEF NoLoss, GivenUp
  <2>1. cursor \in 0..Len(log) /\ n \in Msgs
    BY <1>5, RecentAssumption DEF NoCursor
  <2>2. CASE n = m
    BY <1>2, <1>3, <2>1, <2>2 DEF Owed
  <2>3. CASE n # m
    <3>1. srv'[n] = srv[n]
      BY <1>1, <2>1, <2>3
    <3>2. cache[n] = srv[n] \/ GivenUp(n) \/ Owed(n, cursor)
      BY <3>1 DEF NoLossInv, NoLoss
    <3> QED BY <1>2, <1>3, <2>1, <3>1, <3>2 DEF Owed
  <2> QED BY <2>2, <2>3
<1> QED BY <1>6, <1>7, <1>8, <1>9, <1>10, <1>11, <1>12, <1>13 DEF NoLossInv

-----------------------------------------------------------------------------
(* The run's steps.                                                        *)

\* Every step keeps the invariant.
LEMMA NextInv == TypeOK /\ NoLossInv /\ [Next]_vars => NoLossInv'
<1> SUFFICES ASSUME TypeOK, NoLossInv, [Next]_vars PROVE NoLossInv'
  OBVIOUS
<1>1. CASE StartRun
  <2>1. UNCHANGED <<srv, log, cache, cursor, given>>
    BY <1>1 DEF StartRun, serverVars, storeVars, passVars, runVars, historyVars
  <2>2. PassShape'
    BY <1>1 DEF StartRun, NoLossInv, PassShape, NoWrites, serverVars, storeVars, passVars, runVars, historyVars
  <2>3. WritesFresh'
    BY <1>1 DEF StartRun, NoLossInv, WritesFresh, Mark, Owed, PassShape, NoWrites, serverVars, storeVars, passVars, runVars, historyVars
  <2>4. BackfillCovers'
    BY <1>1 DEF StartRun, NoLossInv, BackfillCovers, Excused, Owed, PassShape, serverVars, storeVars, passVars, runVars, historyVars
  <2>5. BootstrapOwesAll'
    BY <1>1 DEF StartRun, NoLossInv, BootstrapOwesAll, Owed, PassShape, serverVars, storeVars, passVars, runVars, historyVars
  <2>6. TailAtCursor'
    BY <1>1 DEF StartRun, NoLossInv, TailAtCursor, PassShape, serverVars, storeVars, passVars, runVars, historyVars
  <2>7. BatchCovers'
    BY <1>1 DEF StartRun, NoLossInv, BatchCovers, PassShape, Excused, NoWrites, serverVars, storeVars, passVars, runVars, historyVars
  <2> QED BY <2>1, <2>2, <2>3, <2>4, <2>5, <2>6, <2>7, KeptNoLoss DEF NoLossInv
<1>2. CASE ResumeClient
  <2>1. UNCHANGED <<srv, log, cache, cursor, given>>
    BY <1>2 DEF ResumeClient, serverVars, storeVars, passVars, runVars, historyVars
  <2>2. PassShape'
    BY <1>2 DEF ResumeClient, NoLossInv, PassShape, NoWrites, serverVars, storeVars, passVars, runVars, historyVars
  <2>3. WritesFresh'
    BY <1>2 DEF ResumeClient, NoLossInv, WritesFresh, Mark, Owed, PassShape, NoWrites, serverVars, storeVars, passVars, runVars, historyVars
  <2>4. BackfillCovers'
    BY <1>2 DEF ResumeClient, NoLossInv, BackfillCovers, Excused, Owed, PassShape, serverVars, storeVars, passVars, runVars, historyVars
  <2>5. BootstrapOwesAll'
    BY <1>2 DEF ResumeClient, NoLossInv, BootstrapOwesAll, Owed, PassShape, serverVars, storeVars, passVars, runVars, historyVars
  <2>6. TailAtCursor'
    BY <1>2 DEF ResumeClient, NoLossInv, TailAtCursor, PassShape, serverVars, storeVars, passVars, runVars, historyVars
  <2>7. BatchCovers'
    BY <1>2 DEF ResumeClient, NoLossInv, BatchCovers, PassShape, Excused, NoWrites, serverVars, storeVars, passVars, runVars, historyVars
  <2> QED BY <2>1, <2>2, <2>3, <2>4, <2>5, <2>6, <2>7, KeptNoLoss DEF NoLossInv
<1>3. CASE FetchLabels
  <2>1. UNCHANGED <<srv, log, cache, cursor, given>>
    BY <1>3 DEF FetchLabels, serverVars, storeVars, passVars, runVars, historyVars
  <2>2. PassShape'
    BY <1>3 DEF FetchLabels, NoLossInv, PassShape, NoWrites, serverVars, storeVars, passVars, runVars, historyVars
  <2>3. WritesFresh'
    BY <1>3 DEF FetchLabels, NoLossInv, WritesFresh, Mark, Owed, PassShape, NoWrites, serverVars, storeVars, passVars, runVars, historyVars
  <2>4. BackfillCovers'
    BY <1>3 DEF FetchLabels, NoLossInv, BackfillCovers, Excused, Owed, PassShape, serverVars, storeVars, passVars, runVars, historyVars
  <2>5. BootstrapOwesAll'
    BY <1>3 DEF FetchLabels, NoLossInv, BootstrapOwesAll, Owed, PassShape, serverVars, storeVars, passVars, runVars, historyVars
  <2>6. TailAtCursor'
    BY <1>3 DEF FetchLabels, NoLossInv, TailAtCursor, PassShape, serverVars, storeVars, passVars, runVars, historyVars
  <2>7. BatchCovers'
    BY <1>3 DEF FetchLabels, NoLossInv, BatchCovers, PassShape, Excused, NoWrites, serverVars, storeVars, passVars, runVars, historyVars
  <2> QED BY <2>1, <2>2, <2>3, <2>4, <2>5, <2>6, <2>7, KeptNoLoss DEF NoLossInv
<1>4. CASE RetryCall
  <2>1. UNCHANGED <<srv, log, cache, cursor, given>>
    BY <1>4 DEF RetryCall, serverVars, storeVars, passVars, runVars, historyVars
  <2>2. PassShape'
    BY <1>4 DEF RetryCall, NoLossInv, PassShape, NoWrites, serverVars, storeVars, passVars, runVars, historyVars
  <2>3. WritesFresh'
    BY <1>4 DEF RetryCall, NoLossInv, WritesFresh, Mark, Owed, PassShape, NoWrites, serverVars, storeVars, passVars, runVars, historyVars
  <2>4. BackfillCovers'
    BY <1>4 DEF RetryCall, NoLossInv, BackfillCovers, Excused, Owed, PassShape, serverVars, storeVars, passVars, runVars, historyVars
  <2>5. BootstrapOwesAll'
    BY <1>4 DEF RetryCall, NoLossInv, BootstrapOwesAll, Owed, PassShape, serverVars, storeVars, passVars, runVars, historyVars
  <2>6. TailAtCursor'
    BY <1>4 DEF RetryCall, NoLossInv, TailAtCursor, PassShape, serverVars, storeVars, passVars, runVars, historyVars
  <2>7. BatchCovers'
    BY <1>4 DEF RetryCall, NoLossInv, BatchCovers, PassShape, Excused, NoWrites, serverVars, storeVars, passVars, runVars, historyVars
  <2> QED BY <2>1, <2>2, <2>3, <2>4, <2>5, <2>6, <2>7, KeptNoLoss DEF NoLossInv
<1>5. CASE LatestEventID
  <2>1. UNCHANGED <<srv, log, cache, cursor, given>>
    BY <1>5 DEF LatestEventID, serverVars, storeVars, passVars, runVars, historyVars
  <2>2. PassShape'
    BY <1>5 DEF LatestEventID, NoLossInv, PassShape, NoWrites, serverVars, storeVars, passVars, runVars, historyVars
  <2>3. WritesFresh'
    BY <1>5 DEF LatestEventID, NoLossInv, WritesFresh, Mark, Owed, PassShape, NoWrites, serverVars, storeVars, passVars, runVars, historyVars
  <2>4. BackfillCovers'
    BY <1>5 DEF LatestEventID, NoLossInv, BackfillCovers, Excused, Owed, PassShape, serverVars, storeVars, passVars, runVars, historyVars
  <2>5. BootstrapOwesAll'
    BY <1>5 DEF LatestEventID, NoLossInv, BootstrapOwesAll, Owed, PassShape, serverVars, storeVars, passVars, runVars, historyVars
  <2>6. TailAtCursor'
    BY <1>5 DEF LatestEventID, NoLossInv, TailAtCursor, PassShape, serverVars, storeVars, passVars, runVars, historyVars
  <2>7. BatchCovers'
    BY <1>5 DEF LatestEventID, NoLossInv, BatchCovers, PassShape, Excused, NoWrites, serverVars, storeVars, passVars, runVars, historyVars
  <2> QED BY <2>1, <2>2, <2>3, <2>4, <2>5, <2>6, <2>7, KeptNoLoss DEF NoLossInv
<1>6. CASE BackfillMessageIDs
  <2>1. UNCHANGED <<srv, log, cache, cursor, given>>
    BY <1>6 DEF BackfillMessageIDs, serverVars, storeVars, passVars, runVars, historyVars
  <2>2. PassShape'
    BY <1>6 DEF BackfillMessageIDs, NoLossInv, PassShape, NoWrites, serverVars, storeVars, passVars, runVars, historyVars
  <2>3. WritesFresh'
    BY <1>6 DEF BackfillMessageIDs, NoLossInv, WritesFresh, Mark, Owed, PassShape, NoWrites, serverVars, storeVars, passVars, runVars, historyVars
  <2>4. BackfillCovers'
    BY <1>6 DEF BackfillMessageIDs, NoLossInv, BackfillCovers, Excused, Owed, PassShape, serverVars, storeVars, passVars, runVars, historyVars
  <2>5. BootstrapOwesAll'
    BY <1>6 DEF BackfillMessageIDs, NoLossInv, BootstrapOwesAll, Owed, PassShape, serverVars, storeVars, passVars, runVars, historyVars
  <2>6. TailAtCursor'
    BY <1>6 DEF BackfillMessageIDs, NoLossInv, TailAtCursor, PassShape, serverVars, storeVars, passVars, runVars, historyVars
  <2>7. BatchCovers'
    BY <1>6 DEF BackfillMessageIDs, NoLossInv, BatchCovers, PassShape, Excused, NoWrites, serverVars, storeVars, passVars, runVars, historyVars
  <2> QED BY <2>1, <2>2, <2>3, <2>4, <2>5, <2>6, <2>7, KeptNoLoss DEF NoLossInv
<1>7. CASE NextBackfill
  <2>1. UNCHANGED <<srv, log, cache, cursor, given>>
    BY <1>7 DEF NextBackfill, serverVars, storeVars, passVars, runVars, historyVars
  <2>2. PassShape'
    BY <1>7 DEF NextBackfill, NoLossInv, PassShape, NoWrites, TypeOK, PassType, serverVars, storeVars, passVars, runVars, historyVars
  <2>3. WritesFresh'
    BY <1>7 DEF NextBackfill, NoLossInv, WritesFresh, Mark, Owed, PassShape, NoWrites, serverVars, storeVars, passVars, runVars, historyVars
  <2>4. BackfillCovers'
    BY <1>7 DEF NextBackfill, NoLossInv, BackfillCovers, Excused, Owed, PassShape, serverVars, storeVars, passVars, runVars, historyVars
  <2>5. BootstrapOwesAll'
    BY <1>7 DEF NextBackfill, NoLossInv, BootstrapOwesAll, Owed, PassShape, serverVars, storeVars, passVars, runVars, historyVars
  <2>6. TailAtCursor'
    BY <1>7 DEF NextBackfill, NoLossInv, TailAtCursor, PassShape, serverVars, storeVars, passVars, runVars, historyVars
  <2>7. BatchCovers'
    BY <1>7 DEF NextBackfill, NoLossInv, BatchCovers, PassShape, Excused, NoWrites, serverVars, storeVars, passVars, runVars, historyVars
  <2> QED BY <2>1, <2>2, <2>3, <2>4, <2>5, <2>6, <2>7, KeptNoLoss DEF NoLossInv
<1>8. CASE RetryDecrypt
  <2>1. UNCHANGED <<srv, log, cache, cursor, given>>
    BY <1>8 DEF RetryDecrypt, serverVars, storeVars, passVars, runVars, historyVars
  <2>2. PassShape'
    BY <1>8 DEF RetryDecrypt, NoLossInv, PassShape, NoWrites, serverVars, storeVars, passVars, runVars, historyVars
  <2>3. WritesFresh'
    BY <1>8 DEF RetryDecrypt, NoLossInv, WritesFresh, Mark, Owed, PassShape, NoWrites, serverVars, storeVars, passVars, runVars, historyVars
  <2>4. BackfillCovers'
    BY <1>8 DEF RetryDecrypt, NoLossInv, BackfillCovers, Excused, Owed, PassShape, serverVars, storeVars, passVars, runVars, historyVars
  <2>5. BootstrapOwesAll'
    BY <1>8 DEF RetryDecrypt, NoLossInv, BootstrapOwesAll, Owed, PassShape, serverVars, storeVars, passVars, runVars, historyVars
  <2>6. TailAtCursor'
    BY <1>8 DEF RetryDecrypt, NoLossInv, TailAtCursor, PassShape, serverVars, storeVars, passVars, runVars, historyVars
  <2>7. BatchCovers'
    BY <1>8 DEF RetryDecrypt, NoLossInv, BatchCovers, PassShape, Excused, NoWrites, serverVars, storeVars, passVars, runVars, historyVars
  <2> QED BY <2>1, <2>2, <2>3, <2>4, <2>5, <2>6, <2>7, KeptNoLoss DEF NoLossInv
<1>9. CASE PrepareNext
  <2>1. UNCHANGED <<srv, log, cache, cursor, given>>
    BY <1>9 DEF PrepareNext, serverVars, storeVars, passVars, runVars, historyVars
  <2>2. PassShape'
    BY <1>9 DEF PrepareNext, NoLossInv, PassShape, NoWrites, TypeOK, PassType, serverVars, storeVars, passVars, runVars, historyVars
  <2>3. WritesFresh'
    BY <1>9 DEF PrepareNext, NoLossInv, WritesFresh, Mark, Owed, PassShape, NoWrites, serverVars, storeVars, passVars, runVars, historyVars
  <2>4. BackfillCovers'
    BY <1>9 DEF PrepareNext, NoLossInv, BackfillCovers, Excused, Owed, PassShape, serverVars, storeVars, passVars, runVars, historyVars
  <2>5. BootstrapOwesAll'
    BY <1>9 DEF PrepareNext, NoLossInv, BootstrapOwesAll, Owed, PassShape, serverVars, storeVars, passVars, runVars, historyVars
  <2>6. TailAtCursor'
    BY <1>9 DEF PrepareNext, NoLossInv, TailAtCursor, PassShape, serverVars, storeVars, passVars, runVars, historyVars
  <2>7. BatchCovers'
    BY <1>9 DEF PrepareNext, NoLossInv, BatchCovers, PassShape, Excused, NoWrites, serverVars, storeVars, passVars, runVars, historyVars
  <2> QED BY <2>1, <2>2, <2>3, <2>4, <2>5, <2>6, <2>7, KeptNoLoss DEF NoLossInv
<1>10. CASE Cancel
  <2>1. UNCHANGED <<srv, log, cache, cursor, given>>
    BY <1>10 DEF Cancel, serverVars, storeVars, passVars, runVars, historyVars
  <2>2. PassShape'
    BY <1>10 DEF Cancel, NoLossInv, PassShape, NoWrites, serverVars, storeVars, passVars, runVars, historyVars
  <2>3. WritesFresh'
    BY <1>10 DEF Cancel, NoLossInv, WritesFresh, Mark, Owed, PassShape, NoWrites, serverVars, storeVars, passVars, runVars, historyVars
  <2>4. BackfillCovers'
    BY <1>10 DEF Cancel, NoLossInv, BackfillCovers, Excused, Owed, PassShape, serverVars, storeVars, passVars, runVars, historyVars
  <2>5. BootstrapOwesAll'
    BY <1>10 DEF Cancel, NoLossInv, BootstrapOwesAll, Owed, PassShape, serverVars, storeVars, passVars, runVars, historyVars
  <2>6. TailAtCursor'
    BY <1>10 DEF Cancel, NoLossInv, TailAtCursor, PassShape, serverVars, storeVars, passVars, runVars, historyVars
  <2>7. BatchCovers'
    BY <1>10 DEF Cancel, NoLossInv, BatchCovers, PassShape, Excused, NoWrites, serverVars, storeVars, passVars, runVars, historyVars
  <2> QED BY <2>1, <2>2, <2>3, <2>4, <2>5, <2>6, <2>7, KeptNoLoss DEF NoLossInv
<1>11. CASE ApplyMessage
  <2>1. /\ pc = "apply" /\ mode = "bootstrap" /\ pc' = "backfill"
        /\ cache' = Stored(writes, {}) /\ writes' = NoWrites /\ doing' = {}
        /\ UNCHANGED <<srv, log, cursor, given, mode, cancelled, cur, upto, pend,
                       deletes, skips>>
    BY <1>11 DEF ApplyMessage, NoLossInv, PassShape, serverVars, storeVars, passVars, runVars, historyVars
  <2>2. \A m \in Msgs : cache'[m] = IF writes[m] # 0 THEN writes[m] ELSE cache[m]
    BY <2>1 DEF Stored
  <2>3. DeletesAreFinal' /\ PassShape' /\ WritesFresh'
    BY <2>1 DEF NoLossInv, DeletesAreFinal, PassShape, WritesFresh, NoWrites
  <2>4. BackfillCovers'
    <3> SUFFICES ASSUME NEW m \in Recent, srv[m] # 0
                 PROVE  m \in pend \/ Excused(m) \/ cache'[m] = srv[m] \/ Owed(m, cur)
      BY <2>1 DEF BackfillCovers, Excused, Owed
    <3>1. m \in Msgs
      BY RecentAssumption
    <3>2. CASE writes[m] # 0
      BY <2>1, <2>2, <3>1, <3>2 DEF NoLossInv, WritesFresh, Mark
    <3>3. CASE writes[m] = 0
      <4>1. cache'[m] = cache[m] /\ m \notin doing
        BY <2>1, <2>2, <3>1, <3>3 DEF NoLossInv, PassShape
      <4> QED BY <2>1, <4>1 DEF NoLossInv, BackfillCovers
    <3> QED BY <3>2, <3>3
  <2>5. BootstrapOwesAll' /\ TailAtCursor' /\ BatchCovers'
    BY <2>1 DEF NoLossInv, BootstrapOwesAll, TailAtCursor, BatchCovers, Owed
  <2>6. NoLoss'
    BY <2>1, RecentAssumption DEF NoLossInv, BootstrapOwesAll, NoLoss, Owed
  <2> QED BY <2>3, <2>4, <2>5, <2>6 DEF NoLossInv
<1>12. CASE PersistCursor
  <2>1. CASE StoreRefuses
    BY <1>12, <2>1, PlainReturnInv DEF PersistCursor, storeVars
  <2>2. CASE ~StoreRefuses
    <3>1. /\ pc = "backfill" /\ pend = {} /\ ~cancelled /\ NoPass /\ pc' = "record"
          /\ cursor' = cur /\ given' = skips /\ UNCHANGED <<srv, log, cache>>
      BY <1>12, <2>2 DEF PersistCursor, Return, StoreRefuses, BootstrapCursor, serverVars
    <3>2. mode = "bootstrap" /\ doing = {}
      BY <3>1 DEF NoLossInv, PassShape
    <3>3. \A m \in Recent : srv[m] # 0 => cache[m] = srv[m] \/ Excused(m) \/ Owed(m, cur)
      BY <3>1, <3>2 DEF NoLossInv, BackfillCovers
    <3>4. NoLoss'
      BY <3>1, <3>3 DEF NoLoss, Excused, GivenUp, Owed
    <3> QED BY <3>1, <3>4, LeaveInv
  <2> QED BY <2>1, <2>2
<1>13. CASE DecryptMessage
  <2>1. PICK m \in Msgs : /\ doing = {m} /\ srv[m] # 0
                          /\ writes' = [writes EXCEPT ![m] = srv[m]]
    BY <1>13 DEF DecryptMessage, Fetched, NoLossInv, PassShape
  <2>2. /\ pc = "decrypt" /\ mode \in {"bootstrap", "tail"}
        /\ pc' = IF mode = "bootstrap" THEN "apply" ELSE "prepare"
        /\ doing' = IF mode = "bootstrap" THEN doing ELSE {}
        /\ UNCHANGED <<srv, log, cache, cursor, given, mode, cancelled, cur, upto,
                       pend, deletes, skips>>
    BY <1>13 DEF DecryptMessage, NoLossInv, PassShape, serverVars, storeVars, passVars, runVars, historyVars
  <2>3. writes'[m] = srv[m] /\ \A x \in Msgs \ {m} : writes'[x] = writes[x]
    BY <2>1 DEF TypeOK, PassType
  <2>4. PassShape'
    BY <2>1, <2>2, <2>3 DEF NoLossInv, PassShape
  <2>5. WritesFresh'
    BY <2>1, <2>2, <2>3 DEF NoLossInv, WritesFresh, Mark, Owed
  <2>6. BackfillCovers'
    BY <2>2 DEF NoLossInv, BackfillCovers, Excused, Owed
  <2>7. BootstrapOwesAll' /\ TailAtCursor'
    BY <2>2 DEF NoLossInv, BootstrapOwesAll, TailAtCursor, Owed
  <2>8. BatchCovers'
    <3> SUFFICES ASSUME mode = "tail" PROVE BatchCovers'
      BY <2>2 DEF BatchCovers
    <3>1. \A x \in Msgs : x \in doing \/ writes[x] # 0 => writes'[x] # 0
      BY <2>1, <2>3
    <3>2. \A i \in (cur + 1)..upto : log[i].msg \in Msgs
      BY EventMsgs DEF TypeOK, ServerType, PassType
    <3>3. pc' = "prepare" /\ doing' = {}
      BY <2>2
    <3> QED BY <2>2, <3>1, <3>2, <3>3 DEF NoLossInv, BatchCovers, Excused
  <2> QED BY <2>2, <2>4, <2>5, <2>6, <2>7, <2>8, KeptNoLoss DEF NoLossInv
<1>14. CASE DecryptSkips
  <2>1. PICK m \in Msgs, err \in Errors :
          /\ doing = {m} /\ ~Transient(err) /\ DecryptError(m, err)
          /\ skips' = skips \union {<<m, err>>}
    BY <1>14 DEF DecryptSkips, NoLossInv, PassShape
  <2>2. /\ pc = "decrypt" /\ mode \in {"bootstrap", "tail"}
        /\ pc' = IF mode = "bootstrap" THEN "backfill" ELSE "prepare"
        /\ doing' = {}
        /\ UNCHANGED <<srv, log, cache, cursor, given, mode, cancelled, cur, upto,
                       pend, writes, deletes>>
    BY <1>14 DEF DecryptSkips, AfterDecrypt, NoLossInv, PassShape, serverVars, storeVars, passVars, runVars, historyVars
  <2>3. srv[m] = 0 \/ Excused(m)'
    <3>1. err \in {"busy", "bad", "gone", "cancelled"}
      BY <2>1 DEF Errors, Transient, Classify
    <3>2. err = "gone" => srv[m] = 0
      BY <2>1 DEF DecryptError
    <3>3. err = "cancelled" => cancelled
      BY <2>1 DEF DecryptError
    <3> QED BY <2>1, <2>2, <3>1, <3>2, <3>3 DEF Excused
  <2>4. \A x \in Msgs : Excused(x) => Excused(x)'
    BY <2>1, <2>2 DEF Excused
  <2>5. PassShape'
    BY <2>2 DEF NoLossInv, PassShape, NoWrites
  <2>6. WritesFresh'
    BY <2>2 DEF NoLossInv, WritesFresh, Mark, Owed
  <2>7. BackfillCovers'
    <3> SUFFICES ASSUME mode = "bootstrap", NEW x \in Recent, srv[x] # 0
                 PROVE  x \in pend \/ Excused(x)' \/ cache[x] = srv[x] \/ Owed(x, cur)
      BY <2>2 DEF BackfillCovers, Owed
    <3>1. \/ x \in pend \union doing \/ Excused(x)
          \/ cache[x] = srv[x] \/ Owed(x, cur)
      BY <2>2 DEF NoLossInv, BackfillCovers
    <3> QED BY <2>1, <2>3, <2>4, <3>1, RecentAssumption
  <2>8. BootstrapOwesAll' /\ TailAtCursor'
    BY <2>2 DEF NoLossInv, BootstrapOwesAll, TailAtCursor, Owed
  <2>9. BatchCovers'
    <3> SUFFICES ASSUME mode = "tail" PROVE BatchCovers'
      BY <2>2 DEF BatchCovers
    <3>1. \A i \in (cur + 1)..upto : log[i].msg \in Msgs
      BY EventMsgs DEF TypeOK, ServerType, PassType
    <3>2. \A i \in (cur + 1)..upto :
            /\ log[i].act # "refresh"
            /\ \/ log[i].msg \in pend \/ Excused(log[i].msg)'
               \/ writes[log[i].msg] # 0 \/ srv[log[i].msg] = 0
      <4> SUFFICES ASSUME NEW i \in (cur + 1)..upto
                   PROVE  /\ log[i].act # "refresh"
                          /\ \/ log[i].msg \in pend \/ Excused(log[i].msg)'
                             \/ writes[log[i].msg] # 0 \/ srv[log[i].msg] = 0
        OBVIOUS
      <4>1. /\ log[i].act # "refresh"
            /\ \/ log[i].msg \in pend \union doing \/ Excused(log[i].msg)
               \/ writes[log[i].msg] # 0 \/ srv[log[i].msg] = 0
        BY <2>2 DEF NoLossInv, BatchCovers
      <4>2. Excused(log[i].msg) => Excused(log[i].msg)'
        BY <2>1, <2>2 DEF Excused
      <4>3. log[i].msg = m => srv[log[i].msg] = 0 \/ Excused(log[i].msg)'
        BY <2>2, <2>3 DEF Excused
      <4> QED BY <2>1, <4>1, <4>2, <4>3
    <3>3. \A x \in deletes :
            \E i \in 1..Len(log) : log[i].msg = x /\ log[i].act = "delete"
      BY <2>2 DEF NoLossInv, BatchCovers
    <3> QED BY <2>2, <3>2, <3>3 DEF BatchCovers, Excused
  <2> QED BY <2>2, <2>5, <2>6, <2>7, <2>8, <2>9, KeptNoLoss DEF NoLossInv
<1>15. CASE GetEvents
  <2>1. PICK last \in cur..Len(log) :
          /\ \A e \in BatchEvents(cur, last) : e.act # "refresh"
          /\ upto' = last /\ deletes' = FinalDeletes(cur, last)
          /\ pend' = FinalWrites(cur, last)
    BY <1>15 DEF GetEvents, NextCursor
  <2>2. /\ mode = "tail" /\ doing = {} /\ pc' = "prepare"
        /\ writes' = NoWrites /\ skips' = {}
        /\ UNCHANGED <<srv, log, cache, cursor, given, mode, cancelled, cur, doing>>
    BY <1>15 DEF GetEvents, NoLossInv, PassShape, serverVars, storeVars, passVars, runVars, historyVars
  <2>3. PassShape' /\ WritesFresh'
    BY <2>2 DEF PassShape, WritesFresh, NoWrites
  <2>4. BackfillCovers' /\ BootstrapOwesAll' /\ TailAtCursor'
    BY <2>2 DEF NoLossInv, BackfillCovers, BootstrapOwesAll, TailAtCursor
  <2>5. BatchCovers'
    <3>1. cur \in Nat /\ \A i \in (cur + 1)..last : i \in 1..Len(log) /\ log[i] \in Event
      BY DEF TypeOK, ServerType, PassType
    <3>2. \A x \in FinalDeletes(cur, last) :
            \E i \in 1..Len(log) : log[i].msg = x /\ log[i].act = "delete"
      BY <3>1 DEF FinalDeletes
    <3>3. \A x \in FinalDeletes(cur, last) : srv[x] = 0
      BY <3>2 DEF NoLossInv, DeletesAreFinal
    <3>4. \A i \in (cur + 1)..last :
            /\ log[i].act # "refresh"
            /\ log[i].msg \in FinalWrites(cur, last) \/ srv[log[i].msg] = 0
      BY <2>1, <3>3 DEF BatchEvents, FinalWrites
    <3> QED BY <2>1, <2>2, <3>2, <3>4 DEF BatchCovers
  <2> QED BY <2>2, <2>3, <2>4, <2>5, KeptNoLoss DEF NoLossInv
<1>16. CASE GetEventsRefresh
  <2>1. PICK last \in (cur + 1)..Len(log) :
          \E e \in BatchEvents(cur, last) : e.act = "refresh"
    BY <1>16 DEF GetEventsRefresh
  <2>2. /\ mode = "tail" /\ doing = {} /\ pc' = "head" /\ mode' = "bootstrap"
        /\ writes' = NoWrites
        /\ UNCHANGED <<srv, log, cache, cursor, given, doing>>
    BY <1>16 DEF GetEventsRefresh, NoLossInv, PassShape, serverVars, storeVars, passVars, runVars, historyVars
  <2>3. cur = cursor /\ cur \in Nat
    BY <2>2 DEF NoLossInv, TailAtCursor, TypeOK, ServerType, PassType
  <2>4. PassShape' /\ WritesFresh'
    BY <2>2 DEF PassShape, WritesFresh, NoWrites
  <2>5. BootstrapOwesAll'
    BY <2>1, <2>2, <2>3 DEF BootstrapOwesAll, BatchEvents, Owed
  <2>6. BackfillCovers' /\ TailAtCursor' /\ BatchCovers'
    BY <2>2 DEF BackfillCovers, TailAtCursor, BatchCovers
  <2> QED BY <2>2, <2>4, <2>5, <2>6, KeptNoLoss DEF NoLossInv
<1>17. CASE CommitBatch
  <2>1. /\ pc = "prepare" /\ mode = "tail" /\ pend = {} /\ doing = {} /\ ~cancelled
        /\ cache' = Stored(writes, deletes) /\ cursor' = upto
        /\ given' = {s \in given : s[1] \notin Rows(writes) \union deletes} \union skips
        /\ UNCHANGED <<srv, log>>
    BY <1>17 DEF CommitBatch, StoreRefuses, Return, NoLossInv, PassShape, serverVars
  <2>2. cursor # NoCursor /\ cur = cursor /\ upto \in Nat /\ cur \in Nat
    BY <2>1 DEF NoLossInv, TailAtCursor, TypeOK, ServerType, PassType
  <2>3. NoLoss'
    <3> SUFFICES ASSUME NEW m \in Recent, srv[m] # 0
                 PROVE  cache'[m] = srv[m] \/ GivenUp(m)' \/ Owed(m, upto)
      BY <2>1 DEF NoLoss, Owed
    <3>1. m \in Msgs /\ m \notin deletes
      BY <2>1, RecentAssumption DEF NoLossInv, BatchCovers, DeletesAreFinal
    <3>2. cache'[m] = IF writes[m] # 0 THEN writes[m] ELSE cache[m]
      BY <2>1, <3>1 DEF Stored
    <3>3. CASE writes[m] # 0
      BY <2>1, <3>1, <3>2, <3>3 DEF NoLossInv, WritesFresh, Mark
    <3>4. CASE writes[m] = 0
      <4>1. m \notin Rows(writes) \union deletes
        BY <3>1, <3>4 DEF Rows
      <4>2. GivenUp(m) => GivenUp(m)'
        BY <2>1, <4>1 DEF GivenUp
      <4>3. Owed(m, cur) => Owed(m, upto) \/ GivenUp(m)'
        <5> SUFFICES ASSUME NEW i \in (cur + 1)..Len(log),
                            log[i].msg = m \/ log[i].act = "refresh",
                            ~Owed(m, upto)
                     PROVE  GivenUp(m)'
          BY DEF Owed
        <5>1. i \in (cur + 1)..upto
          BY <2>2 DEF Owed, TypeOK, ServerType
        <5>2. log[i].msg = m /\ Excused(m)
          BY <2>1, <3>4, <5>1 DEF NoLossInv, BatchCovers
        <5> QED BY <2>1, <5>2 DEF Excused, GivenUp
      <4> QED BY <2>2, <3>2, <3>4, <4>2, <4>3 DEF NoLossInv, NoLoss
    <3> QED BY <3>3, <3>4
  <2>4. CASE more
    <3>1. /\ pc' = "fetch" /\ cur' = upto /\ writes' = NoWrites
          /\ UNCHANGED <<mode, doing>>
      BY <1>17, <2>4 DEF CommitBatch
    <3>2. DeletesAreFinal'
      BY <2>1 DEF NoLossInv, DeletesAreFinal
    <3>3. PassShape' /\ WritesFresh' /\ BackfillCovers' /\ BootstrapOwesAll'
      BY <2>1, <3>1 DEF PassShape, WritesFresh, NoWrites, BackfillCovers, BootstrapOwesAll
    <3>4. TailAtCursor' /\ BatchCovers'
      BY <2>1, <2>2, <3>1 DEF TailAtCursor, BatchCovers, NoCursor
    <3> QED BY <2>3, <3>2, <3>3, <3>4 DEF NoLossInv
  <2>5. CASE ~more
    BY <1>17, <2>1, <2>3, <2>5, LeaveInv DEF CommitBatch, Return
  <2> QED BY <2>4, <2>5
<1>18. CASE RecordRun
  <2>1. /\ UNCHANGED <<srv, log, cache, cursor, given, mode, doing, writes>>
        /\ pc = "record" /\ pc' = "idle"
    BY <1>18 DEF RecordRun, serverVars, storeVars, passVars, runVars, historyVars
  <2>2. mode = "none" /\ doing = {} /\ writes = NoWrites
    BY <2>1 DEF NoLossInv, PassShape
  <2>3. PassShape' /\ WritesFresh' /\ BackfillCovers'
    BY <2>1, <2>2 DEF PassShape, WritesFresh, BackfillCovers, NoWrites
  <2>4. BootstrapOwesAll' /\ TailAtCursor' /\ BatchCovers'
    BY <2>1, <2>2 DEF BootstrapOwesAll, TailAtCursor, BatchCovers
  <2> QED BY <2>1, <2>3, <2>4, KeptNoLoss DEF NoLossInv
<1>19. CASE ResetSyncCursor
  <2>1. /\ UNCHANGED <<srv, log, pc, mode, doing, writes>>
        /\ cursor' = NoCursor /\ pc = "idle"
    BY <1>19 DEF ResetSyncCursor, serverVars, storeVars, passVars, runVars, historyVars
  <2>2. mode = "none" /\ doing = {} /\ writes = NoWrites
    BY <2>1 DEF NoLossInv, PassShape
  <2>3. DeletesAreFinal' /\ NoLoss'
    BY <2>1 DEF NoLossInv, DeletesAreFinal, NoLoss
  <2>4. PassShape' /\ WritesFresh' /\ BackfillCovers'
    BY <2>1, <2>2 DEF PassShape, WritesFresh, BackfillCovers, NoWrites
  <2>5. BootstrapOwesAll' /\ TailAtCursor' /\ BatchCovers'
    BY <2>1, <2>2 DEF BootstrapOwesAll, TailAtCursor, BatchCovers
  <2> QED BY <2>3, <2>4, <2>5 DEF NoLossInv
<1>20. CASE Crash
  <2>1. NoPass /\ pc' = "idle" /\ UNCHANGED <<srv, log, cache, cursor, given>>
    BY <1>20 DEF Crash, serverVars, storeVars, passVars, runVars, historyVars
  <2> QED BY <2>1, KeptNoLoss, LeaveInv
<1>21. CASE ResumeFails
  BY <1>21, PlainReturnInv DEF ResumeFails
<1>22. CASE CallFails
  BY <1>22, PlainReturnInv DEF CallFails
<1>23. CASE DecryptAborts
  BY <1>23, PlainReturnInv DEF DecryptAborts
<1>24. CASE GetEventsEmpty
  BY <1>24, PlainReturnInv DEF GetEventsEmpty
<1>25. CASE Abort
  BY <1>25, PlainReturnInv DEF Abort
<1>26. CASE StopCancelled
  BY <1>26, PlainReturnInv DEF StopCancelled
<1>27. CASE Server
  BY <1>27, ServerInv
<1>28. CASE UNCHANGED vars
  <2>1. UNCHANGED <<srv, log, cache, cursor, given, pc, mode, cancelled, cur, upto, pend,
                    doing, writes, deletes, skips>>
    BY <1>28 DEF vars, serverVars, storeVars, passVars, runVars, historyVars
  <2>2. PassShape' /\ WritesFresh' /\ BackfillCovers'
    BY <2>1 DEF NoLossInv, PassShape, WritesFresh, BackfillCovers, Mark, Owed, Excused
  <2>3. BootstrapOwesAll' /\ TailAtCursor' /\ BatchCovers'
    BY <2>1 DEF NoLossInv, BootstrapOwesAll, TailAtCursor, BatchCovers, Owed, Excused
  <2> QED BY <2>1, <2>2, <2>3, KeptNoLoss DEF NoLossInv
<1> QED BY <1>1, <1>2, <1>3, <1>4, <1>5, <1>6, <1>7, <1>8, <1>9, <1>10, <1>11, <1>12,
  <1>13, <1>14, <1>15, <1>16, <1>17, <1>18, <1>19, <1>20, <1>21, <1>22, <1>23, <1>24,
  <1>25, <1>26, <1>27, <1>28
  DEF Next, Engine, Disturbance

\* Before the first sync there is no cursor, and nothing to lose.
LEMMA InitInv == Init => NoLossInv
<1> SUFFICES ASSUME Init PROVE NoLossInv
  OBVIOUS
<1>1. /\ log = << >> /\ cursor = NoCursor /\ pc = "idle" /\ mode = "none"
      /\ doing = {} /\ writes = NoWrites
  BY DEF Init
<1>2. DeletesAreFinal /\ NoLoss
  BY <1>1 DEF DeletesAreFinal, NoLoss
<1>3. PassShape /\ WritesFresh
  BY <1>1 DEF PassShape, WritesFresh, NoWrites
<1>4. BackfillCovers /\ BootstrapOwesAll /\ TailAtCursor /\ BatchCovers
  BY <1>1 DEF BackfillCovers, BootstrapOwesAll, TailAtCursor, BatchCovers
<1> QED BY <1>2, <1>3, <1>4 DEF NoLossInv

\* The parts of NoLossInv hold together in every reachable state.
THEOREM NoLossInvariant == Spec => []NoLossInv
<1>1. Init => TypeOK /\ NoLossInv
  BY InitType, InitInv
<1>2. (TypeOK /\ NoLossInv) /\ [Next]_vars => (TypeOK /\ NoLossInv)'
  BY NextType, NextInv
<1> QED BY <1>1, <1>2, PTL DEF Spec

\* No message is lost, whatever Proton does meanwhile and wherever a run is
\* interrupted: the persisted cursor is never ahead of the data (bootstrap's
\* head-before-backfill, commitBatch's one transaction, and the aborts on
\* transient failures and on a done ctx).
THEOREM NothingLost == Spec => []NoLoss
<1>1. NoLossInv => NoLoss
  BY DEF NoLossInv
<1> QED BY <1>1, NoLossInvariant, PTL

-----------------------------------------------------------------------------
(* The stamp.  Beside StampMeansCaughtUp itself, a pass knows at each step *)
(* how far the position it will persist is.                                *)

\* A batch goes forward, and the last one reaches the head the run began with.
BatchReaches ==
    mode = "tail" /\ pc \in {"prepare", "decrypt"} =>
        /\ cur <= upto
        /\ more \/ head0 <= upto

\* The head bootstrap captured is no older than the run or the last stamp.
BootstrapReaches ==
    mode = "bootstrap" /\ pc \in {"list", "backfill", "decrypt", "apply"} =>
        head0 <= cur /\ stamped <= cur

\* A run about to be recorded as clean has consumed all there was when it began.
CleanRunReaches ==
    pc = "record" /\ ~failed => cursor # NoCursor /\ head0 <= cursor

StampInv ==
    StampMeansCaughtUp /\ BatchReaches /\ BootstrapReaches /\ CleanRunReaches

\* A step that moves none of the positions.
LEMMA KeptStamp ==
  ASSUME StampInv,
         UNCHANGED <<cursor, stamped, head0, pc, mode, cur, upto, more, failed>>
  PROVE  StampInv'
  BY DEF StampInv, StampMeansCaughtUp, BatchReaches, BootstrapReaches, CleanRunReaches

\* A run outside a pass has only its stamp and its end to answer for.
LEMMA OutsideStamp ==
  ASSUME StampMeansCaughtUp', mode' = "none",
         pc' = "record" /\ ~failed' => cursor' # NoCursor /\ head0' <= cursor'
  PROVE  StampInv'
  BY DEF StampInv, BatchReaches, BootstrapReaches, CleanRunReaches

\* A return on a failure claims nothing.
LEMMA FailedReturnStamp ==
  ASSUME StampInv, Return(TRUE), UNCHANGED cursor
  PROVE  StampInv'
<1>1. mode' = "none" /\ failed' = TRUE /\ UNCHANGED stamped
  BY DEF Return, NoPass
<1>2. StampMeansCaughtUp'
  BY <1>1 DEF StampInv, StampMeansCaughtUp
<1> QED BY <1>1, <1>2, OutsideStamp

\* Every position is a place in the stream.
LEMMA Positions ==
  ASSUME TypeOK
  PROVE  /\ Len(log) \in Nat /\ cur \in 0..Len(log) /\ upto \in 0..Len(log)
         /\ head0 \in 0..Len(log) /\ stamped \in 0..Len(log)
         /\ cursor \in Int /\ cursor <= Len(log)
  BY DEF TypeOK, ServerType, StoreType, PassType, RunType, HistoryType, NoCursor

LEMMA InitStamp == Init => StampInv
  BY DEF Init, StampInv, StampMeansCaughtUp, BatchReaches, BootstrapReaches,
         CleanRunReaches

\* Every step keeps the stamp honest.
LEMMA NextStamp == TypeOK /\ NoLossInv /\ StampInv /\ [Next]_vars => StampInv'
<1> SUFFICES ASSUME TypeOK, NoLossInv, StampInv, [Next]_vars PROVE StampInv'
  OBVIOUS
<1> USE DEF serverVars, storeVars, passVars, runVars, historyVars
<1>1. CASE StartRun
  <2>1. UNCHANGED <<cursor, stamped, mode>> /\ pc' = "resume" /\ mode = "none"
    BY <1>1 DEF StartRun, NoLossInv, PassShape
  <2> QED BY <2>1, OutsideStamp DEF StampInv, StampMeansCaughtUp
<1>2. CASE ResumeClient
  <2>1. UNCHANGED <<cursor, stamped, mode>> /\ pc' = "labels" /\ mode = "none"
    BY <1>2 DEF ResumeClient, NoLossInv, PassShape
  <2> QED BY <2>1, OutsideStamp DEF StampInv, StampMeansCaughtUp
<1>3. CASE FetchLabels
  <2>1. UNCHANGED <<cursor, stamped>> /\ pc' \in {"head", "fetch"}
    BY <1>3 DEF FetchLabels
  <2> QED BY <2>1 DEF StampInv, StampMeansCaughtUp, BatchReaches, BootstrapReaches,
                      CleanRunReaches
<1>4. CASE RetryCall
  BY <1>4, KeptStamp DEF RetryCall
<1>5. CASE LatestEventID
  <2>1. /\ UNCHANGED <<cursor, stamped, head0, mode>>
        /\ pc = "head" /\ pc' = "list" /\ cur' = Len(log)
    BY <1>5 DEF LatestEventID
  <2>2. mode = "bootstrap"
    BY <2>1 DEF NoLossInv, PassShape
  <2> QED BY <2>1, <2>2, Positions DEF StampInv, StampMeansCaughtUp, BatchReaches,
                                       BootstrapReaches, CleanRunReaches
<1>6. CASE BackfillMessageIDs
  <2>1. /\ UNCHANGED <<cursor, stamped, head0, mode, cur, upto, more>>
        /\ pc = "list" /\ pc' = "backfill"
    BY <1>6 DEF BackfillMessageIDs
  <2> QED BY <2>1 DEF StampInv, StampMeansCaughtUp, BatchReaches, BootstrapReaches,
                      CleanRunReaches
<1>7. CASE NextBackfill
  <2>1. /\ UNCHANGED <<cursor, stamped, head0, mode, cur, upto, more>>
        /\ pc = "backfill" /\ pc' = "decrypt"
    BY <1>7 DEF NextBackfill
  <2>2. mode = "bootstrap"
    BY <2>1 DEF NoLossInv, PassShape
  <2> QED BY <2>1, <2>2 DEF StampInv, StampMeansCaughtUp, BatchReaches,
                            BootstrapReaches, CleanRunReaches
<1>8. CASE ApplyMessage
  <2>1. /\ UNCHANGED <<cursor, stamped, head0, mode, cur, upto, more>>
        /\ pc = "apply" /\ pc' = "backfill"
    BY <1>8 DEF ApplyMessage
  <2> QED BY <2>1 DEF StampInv, StampMeansCaughtUp, BatchReaches, BootstrapReaches,
                      CleanRunReaches
<1>9. CASE PersistCursor
  <2>1. CASE StoreRefuses
    BY <1>9, <2>1, FailedReturnStamp DEF PersistCursor
  <2>2. CASE ~StoreRefuses
    <3>1. /\ mode' = "none" /\ cursor' = cur /\ UNCHANGED <<stamped, head0>>
          /\ pc = "backfill"
      BY <1>9, <2>2 DEF PersistCursor, Return, NoPass, BootstrapCursor
    <3>2. head0 <= cur /\ stamped <= cur
      BY <3>1 DEF NoLossInv, PassShape, StampInv, BootstrapReaches
    <3>3. cur # NoCursor
      BY Positions DEF NoCursor
    <3> QED BY <3>1, <3>2, <3>3, OutsideStamp DEF StampMeansCaughtUp
  <2> QED BY <2>1, <2>2
<1>10. CASE DecryptMessage \/ DecryptSkips
  <2>1. /\ UNCHANGED <<cursor, stamped, head0, mode, cur, upto, more>>
        /\ pc = "decrypt" /\ pc' \in {"backfill", "apply", "prepare"}
    BY <1>10 DEF DecryptMessage, DecryptSkips, AfterDecrypt
  <2> QED BY <2>1 DEF StampInv, StampMeansCaughtUp, BatchReaches, BootstrapReaches,
                      CleanRunReaches
<1>11. CASE RetryDecrypt
  BY <1>11, KeptStamp DEF RetryDecrypt
<1>12. CASE GetEventsEmpty
  <2>1. /\ mode' = "none" /\ UNCHANGED <<cursor, stamped, head0>>
        /\ pc = "fetch" /\ cur = Len(log)
    BY <1>12 DEF GetEventsEmpty, Return, NoPass
  <2>2. cursor # NoCursor /\ cursor = cur
    BY <2>1 DEF NoLossInv, PassShape, TailAtCursor
  <2> QED BY <2>1, <2>2, Positions, OutsideStamp DEF StampInv, StampMeansCaughtUp
<1>13. CASE GetEvents
  <2>1. PICK last \in cur..Len(log) : upto' = last /\ more' = (last < Len(log))
    BY <1>13 DEF GetEvents, NextCursor, More
  <2>2. /\ UNCHANGED <<cursor, stamped, head0, mode, cur>>
        /\ pc = "fetch" /\ pc' = "prepare"
    BY <1>13 DEF GetEvents
  <2>3. mode = "tail"
    BY <2>2 DEF NoLossInv, PassShape
  <2>4. cur <= last /\ (last < Len(log) \/ head0 <= last)
    BY Positions
  <2>5. BatchReaches'
    BY <2>1, <2>2, <2>4, Zenon DEF BatchReaches
  <2> QED BY <2>2, <2>3, <2>5 DEF StampInv, StampMeansCaughtUp, BootstrapReaches,
                                  CleanRunReaches
<1>14. CASE GetEventsRefresh
  <2>1. UNCHANGED <<cursor, stamped>> /\ pc' = "head"
    BY <1>14 DEF GetEventsRefresh
  <2> QED BY <2>1 DEF StampInv, StampMeansCaughtUp, BatchReaches, BootstrapReaches,
                      CleanRunReaches
<1>15. CASE PrepareNext
  <2>1. /\ UNCHANGED <<cursor, stamped, head0, mode, cur, upto, more>>
        /\ pc = "prepare" /\ pc' = "decrypt"
    BY <1>15 DEF PrepareNext
  <2>2. mode = "tail"
    BY <2>1 DEF NoLossInv, PassShape
  <2> QED BY <2>1, <2>2 DEF StampInv, StampMeansCaughtUp, BatchReaches,
                            BootstrapReaches, CleanRunReaches
<1>16. CASE CommitBatch
  <2>1. pc = "prepare" /\ cursor' = upto /\ UNCHANGED <<stamped, head0>>
    BY <1>16 DEF CommitBatch, Return
  <2>2. cursor = cur /\ cursor # NoCursor /\ cur <= upto /\ (more \/ head0 <= upto)
    BY <2>1, Zenon DEF NoLossInv, PassShape, TailAtCursor, StampInv, BatchReaches
  <2>3. StampMeansCaughtUp'
    <3>1. stamped <= cur
      BY <2>2 DEF StampInv, StampMeansCaughtUp
    <3>2. stamped <= upto
      BY <2>2, <3>1, Positions
    <3> QED BY <2>1, <3>2 DEF StampMeansCaughtUp
  <2>4. CASE more
    <3>1. pc' = "fetch"
      BY <1>16, <2>4 DEF CommitBatch
    <3> QED BY <2>3, <3>1 DEF StampInv, BatchReaches, BootstrapReaches, CleanRunReaches
  <2>5. CASE ~more
    <3>1. mode' = "none"
      BY <1>16, <2>5 DEF CommitBatch, Return, NoPass
    <3>2. upto # NoCursor
      BY Positions DEF NoCursor
    <3> QED BY <2>1, <2>2, <2>3, <2>5, <3>1, <3>2, OutsideStamp
  <2> QED BY <2>4, <2>5
<1>17. CASE RecordRun
  <2>1. /\ pc = "record" /\ pc' = "idle" /\ UNCHANGED <<cursor, mode>>
        /\ stamped' = IF StoreRefuses \/ failed THEN stamped ELSE head0
    BY <1>17 DEF RecordRun
  <2>2. mode = "none"
    BY <2>1 DEF NoLossInv, PassShape
  <2>3. StampMeansCaughtUp'
    BY <2>1 DEF StampInv, StampMeansCaughtUp, CleanRunReaches
  <2> QED BY <2>1, <2>2, <2>3, OutsideStamp
<1>18. CASE Cancel
  BY <1>18, KeptStamp DEF Cancel
<1>19. CASE Crash
  <2>1. pc' = "idle" /\ mode' = "none" /\ UNCHANGED <<cursor, stamped>>
    BY <1>19 DEF Crash, NoPass
  <2> QED BY <2>1, OutsideStamp DEF StampInv, StampMeansCaughtUp
<1>20. CASE ResetSyncCursor
  <2>1. cursor' = NoCursor /\ pc = "idle" /\ UNCHANGED <<pc, mode>>
    BY <1>20 DEF ResetSyncCursor
  <2>2. mode = "none"
    BY <2>1 DEF NoLossInv, PassShape
  <2> QED BY <2>1, <2>2, OutsideStamp DEF StampMeansCaughtUp
<1>21. CASE ResumeFails \/ CallFails \/ DecryptAborts \/ Abort \/ StopCancelled
  BY <1>21, FailedReturnStamp
     DEF ResumeFails, CallFails, DecryptAborts, Abort, StopCancelled
<1>22. CASE Server
  <2>1. ServerUnchanged
    BY <1>22, ServerStep
  <2> QED BY <2>1, KeptStamp DEF ServerUnchanged
<1>23. CASE UNCHANGED vars
  BY <1>23, KeptStamp DEF vars
<1> QED BY <1>1, <1>2, <1>3, <1>4, <1>5, <1>6, <1>7, <1>8, <1>9, <1>10, <1>11, <1>12,
  <1>13, <1>14, <1>15, <1>16, <1>17, <1>18, <1>19, <1>20, <1>21, <1>22, <1>23
  DEF Next, Engine, Disturbance

\* last_sync_at is never stamped on a mailbox with events of the time before
\* that run still unread: recordRun stamps a clean run only, and tail returns
\* cleanly only at a batch that reaches the head, whatever comes meanwhile.
THEOREM StampHonest == Spec => []StampMeansCaughtUp
<1>1. Init => TypeOK /\ NoLossInv /\ StampInv
  BY InitType, InitInv, InitStamp
<1>2. (TypeOK /\ NoLossInv /\ StampInv) /\ [Next]_vars
        => (TypeOK /\ NoLossInv /\ StampInv)'
  BY NextType, NextInv, NextStamp
<1>3. StampInv => StampMeansCaughtUp
  BY DEF StampInv
<1> QED BY <1>1, <1>2, <1>3, PTL DEF Spec

-----------------------------------------------------------------------------
(* The counts.                                                             *)

\* What a transaction adds to the table and takes from it: the rows before it,
\* less those it deletes, plus those it inserts.
LEMMA StoredRows ==
  ASSUME TypeOK, NEW w \in [Msgs -> Nat], NEW d \in SUBSET Msgs
  PROVE  LET new == {m \in Rows(w) \ d : Inserted(m)}
         IN  Cardinality(Rows(Stored(w, d))) + Cardinality(d \cap Rows(cache))
               = Cardinality(Rows(cache)) + Cardinality(new)
<1> DEFINE new == {m \in Rows(w) \ d : Inserted(m)}
           kept == Rows(cache) \ d
<1>1. /\ Rows(cache) \in SUBSET Msgs /\ new \in SUBSET Msgs /\ kept \in SUBSET Msgs
      /\ d \cap Rows(cache) \in SUBSET Msgs
  BY DEF Rows
<1>2. Rows(Stored(w, d)) = kept \cup new
  BY DEF Rows, Stored, Inserted
<1>3. kept \cap new = {}
  BY DEF Rows, Inserted
<1>4. Rows(cache) \cap d = d \cap Rows(cache)
  OBVIOUS
<1> HIDE DEF kept, new
<1>5. /\ IsFiniteSet(kept) /\ IsFiniteSet(new) /\ IsFiniteSet(Rows(cache))
      /\ Cardinality(kept) \in Nat /\ Cardinality(new) \in Nat
      /\ Cardinality(Rows(cache)) \in Nat
      /\ Cardinality(d \cap Rows(cache)) \in Nat
  BY <1>1, CountType
<1>6. Cardinality(kept \cup new) = Cardinality(kept) + Cardinality(new)
  <2>1. Cardinality(kept \cup new)
          = Cardinality(kept) + Cardinality(new) - Cardinality(kept \cap new)
    BY <1>5, FS_Union
  <2>2. Cardinality(kept \cap new) = 0
    BY <1>3, FS_EmptySet
  <2> QED BY <1>5, <2>1, <2>2
<1>7. Cardinality(kept) = Cardinality(Rows(cache)) - Cardinality(d \cap Rows(cache))
  BY <1>4, <1>5, FS_Difference, ZenonT(60) DEF kept
<1>8. Cardinality(Rows(Stored(w, d))) + Cardinality(d \cap Rows(cache))
        = Cardinality(Rows(cache)) + Cardinality(new)
  BY <1>2, <1>5, <1>6, <1>7
<1> QED BY <1>8 DEF new

\* Folding a transaction into the summary keeps the balance.
LEMMA CountedBalance ==
  ASSUME TypeOK, SummaryMatchesCache, pc # "idle", UNCHANGED rows0,
         NEW w \in [Msgs -> Nat], NEW d \in SUBSET Msgs,
         cache' = Stored(w, d), summary' = Counted(w, d)
  PROVE  SummaryMatchesCache'
<1> DEFINE new == {m \in Rows(w) \ d : Inserted(m)}
<1>1. /\ summary'.added = summary.added + Cardinality(new)
      /\ summary'.deleted = summary.deleted + Cardinality(d \cap Rows(cache))
  <2>1. PICK u, e : Counted(w, d) = [added |-> summary.added + Cardinality(new),
                                     updated |-> u,
                                     deleted |-> summary.deleted + Cardinality(d \cap Rows(cache)),
                                     errors |-> e]
    BY Zenon DEF Counted
  <2> HIDE DEF new
  <2> QED BY <2>1
<1>2. Cardinality(Rows(cache')) + Cardinality(d \cap Rows(cache))
        = Cardinality(Rows(cache)) + Cardinality(new)
  BY StoredRows
<1>3. /\ Rows(cache) \in SUBSET Msgs /\ Rows(cache') \in SUBSET Msgs
      /\ new \in SUBSET Msgs /\ rows0 \in SUBSET Msgs
      /\ d \cap Rows(cache) \in SUBSET Msgs
  BY DEF Rows, TypeOK, RunType
<1> HIDE DEF new
<1>4. /\ Cardinality(Rows(cache)) \in Nat /\ Cardinality(Rows(cache')) \in Nat
      /\ Cardinality(new) \in Nat /\ Cardinality(rows0) \in Nat
      /\ Cardinality(d \cap Rows(cache)) \in Nat
  BY <1>3, CountType
<1>5. summary.added \in Nat /\ summary.deleted \in Nat
  BY DEF TypeOK, RunType, Counts
<1>6. Cardinality(Rows(cache)) + summary.deleted = Cardinality(rows0) + summary.added
  BY DEF SummaryMatchesCache
<1>7. Cardinality(Rows(cache')) + summary'.deleted = Cardinality(rows0) + summary'.added
  BY <1>1, <1>2, <1>4, <1>5, <1>6
<1> QED BY <1>7 DEF SummaryMatchesCache, Rows

\* A step of a run that leaves the table and its two counts alone.
LEMMA KeptBalance ==
  ASSUME SummaryMatchesCache, pc # "idle" \/ pc' = "idle",
         UNCHANGED <<cache, rows0>> \/ pc' = "idle",
         \/ summary'.added = summary.added /\ summary'.deleted = summary.deleted
         \/ pc' = "idle"
  PROVE  SummaryMatchesCache'
  BY DEF SummaryMatchesCache, Rows

\* Every step keeps the balance.
LEMMA NextBalance == TypeOK /\ SummaryMatchesCache /\ [Next]_vars => SummaryMatchesCache'
<1> SUFFICES ASSUME TypeOK, SummaryMatchesCache, [Next]_vars
             PROVE  SummaryMatchesCache'
  OBVIOUS
<1> USE DEF serverVars, storeVars, passVars, runVars, historyVars
<1>1. CASE StartRun
  <2>1. rows0' = Rows(cache) /\ UNCHANGED cache /\ summary' = NoCounts
    BY <1>1 DEF StartRun
  <2>2. Rows(cache) \in SUBSET Msgs /\ Rows(cache') = Rows(cache)
    BY <2>1 DEF Rows
  <2>3. Cardinality(Rows(cache)) \in Nat
    BY <2>2, CountType
  <2> QED BY <2>1, <2>2, <2>3 DEF SummaryMatchesCache, NoCounts
<1>2. CASE ResumeClient \/ FetchLabels \/ RetryCall \/ LatestEventID \/ BackfillMessageIDs
  BY <1>2, KeptBalance DEF ResumeClient, FetchLabels, RetryCall, Calls, LatestEventID,
                          BackfillMessageIDs
<1>3. CASE NextBackfill \/ DecryptMessage \/ RetryDecrypt \/ GetEvents \/ GetEventsRefresh
             \/ PrepareNext
  BY <1>3, KeptBalance DEF NextBackfill, DecryptMessage, RetryDecrypt, GetEvents,
                          GetEventsRefresh, PrepareNext
<1>4. CASE ResumeFails \/ CallFails \/ DecryptAborts \/ GetEventsEmpty \/ Abort
             \/ StopCancelled
  BY <1>4, KeptBalance DEF ResumeFails, CallFails, DecryptAborts, GetEventsEmpty, Abort,
                          StopCancelled, Return, Calls
<1>5. CASE DecryptSkips
  <2>1. /\ pc = "decrypt" /\ UNCHANGED <<cache, rows0>>
        /\ summary' = [summary EXCEPT !.errors = @ + 1]
    BY <1>5 DEF DecryptSkips
  <2>2. summary'.added = summary.added /\ summary'.deleted = summary.deleted
    BY <2>1 DEF TypeOK, RunType, Counts
  <2> QED BY <2>1, <2>2, KeptBalance
<1>6. CASE ApplyMessage
  <2>1. /\ pc = "apply" /\ UNCHANGED rows0
        /\ cache' = Stored(writes, {}) /\ summary' = Counted(writes, {})
    BY <1>6 DEF ApplyMessage
  <2> QED BY <2>1, CountedBalance DEF TypeOK, PassType
<1>7. CASE PersistCursor
  <2>1. pc = "backfill" /\ UNCHANGED <<cache, summary, rows0>>
    BY <1>7 DEF PersistCursor, Return
  <2> QED BY <2>1, KeptBalance
<1>8. CASE CommitBatch
  <2>1. /\ pc = "prepare" /\ UNCHANGED rows0
        /\ cache' = Stored(writes, deletes) /\ summary' = Counted(writes, deletes)
    BY <1>8 DEF CommitBatch, Return
  <2> QED BY <2>1, CountedBalance DEF TypeOK, PassType
<1>9. CASE RecordRun \/ Crash \/ ResetSyncCursor
  BY <1>9, KeptBalance DEF RecordRun, Crash, ResetSyncCursor
<1>10. CASE Cancel
  BY <1>10, KeptBalance DEF Cancel
<1>11. CASE Server
  <2>1. UNCHANGED <<pc, cache, summary, rows0>>
    BY <1>11, ServerStep DEF ServerUnchanged
  <2> QED BY <2>1, KeptBalance DEF SummaryMatchesCache
<1>12. CASE UNCHANGED vars
  BY <1>12, KeptBalance DEF vars, SummaryMatchesCache
<1> QED BY <1>1, <1>2, <1>3, <1>4, <1>5, <1>6, <1>7, <1>8, <1>9, <1>10, <1>11, <1>12
  DEF Next, Engine, Disturbance

\* At every moment of a run its counts account for the rows: what a rolled-back
\* batch would have written is not counted, a re-read message is not counted as
\* new, and a delete of a message that was never cached counts nothing.
THEOREM CountsHonest == Spec => []SummaryMatchesCache
<1>1. Init => TypeOK /\ SummaryMatchesCache
  BY InitType DEF Init, SummaryMatchesCache
<1>2. (TypeOK /\ SummaryMatchesCache) /\ [Next]_vars => (TypeOK /\ SummaryMatchesCache)'
  BY NextType, NextBalance
<1> QED BY <1>1, <1>2, PTL DEF Spec

=============================================================================
