--------------------------- MODULE SessionProofs ---------------------------
(* Theorems about Session, for any number of processes, mailboxes, sessions *)
(* and failures.                                                           *)
(*                                                                         *)
(* Nothing locks the secrets while a command runs.  What keeps a stored    *)
(* refresh token from being replaced by an older one is that Proton lets a *)
(* token be spent once: of all processes only one can hold a newer token   *)
(* than the keychain does.                                                 *)
(* From that, where a rotated token cannot be lost to a crash or to the    *)
(* database, follows that what rests can be resumed.                       *)
(*                                                                         *)
(* The second half is about commands that run one at a time: the store is  *)
(* as a command read it when it comes to write, so the list of writes it   *)
(* has left, set against what is stored, says how far it is.  From that    *)
(* follow the rows behind the secrets, the word of auth refresh and types, *)
(* and, with one failure, one session for the tokens of each mailbox.      *)
EXTENDS Session, SequenceTheorems, TLAPS

-----------------------------------------------------------------------------
(* Types.  TypeOK bounds the generations by the failures of the instances  *)
(* that are checked; the proofs only need them to be numbers.              *)

Uids == 0..MaxSessions
AnyToken == [sess : Uids, gen : Nat]
Secrets == [refresh : AnyToken, access : AnyToken, passphrase : Nat, keypass : Nat]
Held == [uid : Uids, refresh : AnyToken, access : AnyToken,
         passphrase : Nat, keypass : Nat, unlocked : Nat]
Ops ==
    ({"set", "delete"} \X Kinds) \union ({"rotate"} \X {"access", "refresh", "uid"})
    \union ({"row"} \X {"insert", "user", "uid", "active", "needs_reauth", "drop"})
States == {"none", "pending_auth", "active", "needs_reauth"}

ProtonType ==
    /\ gen \in [Sessions -> Nat]
    /\ keys \in [passphrase : Nat, keypass : Nat]
StoreType ==
    /\ rows \in [Ids -> [state : States, user : BOOLEAN, uid : Uids]]
    /\ kc \in [Ids -> Secrets]
ProcType ==
    /\ pc \in [Procs -> Steps]
    /\ cmd \in [Procs -> Commands \union {"none", "cleanup"}]
    /\ box \in [Procs -> Ids \union {"none"}]
    /\ seed \in [Procs -> Held] /\ client \in [Procs -> Held]
    /\ plan \in [Procs -> Seq(Ops)]
    /\ \A p \in Procs : pc[p] # "idle" => box[p] \in Ids
    /\ \A p \in Procs : pc[p] = "write" => plan[p] # << >>

SessionType == ProtonType /\ StoreType /\ ProcType

-----------------------------------------------------------------------------
(* Tokens.                                                                 *)

\* A token Proton has minted, or none.
Minted(t) == t = NoToken \/ (t.sess \in Sessions /\ t.gen \in 1..gen[t.sess])

MintedInv ==
    /\ \A id \in Ids : Minted(kc[id].refresh)
    /\ \A p \in Procs : Minted(seed[p].refresh) /\ Minted(client[p].refresh)

\* The write stores a refresh token.
StoresRefresh(op) == op \in {<<"set", "refresh">>, <<"rotate", "refresh">>}
OnceOnly(ops) ==
    \A i, j \in 1..Len(ops) : StoresRefresh(ops[i]) /\ StoresRefresh(ops[j]) => i = j

\* The steps in which a client that has rotated its token has yet to store it.
Using == {"probe", "readKeyPass", "readPassphrase", "callForKeys", "callForSalts",
          "open", "derive", "heal", "sync"}

\* p has a refresh token that is newer than the one it read, and will store it.
WillStore(p) ==
    \/ pc[p] \in Using /\ client[p].refresh # seed[p].refresh
    \/ /\ pc[p] = "write"
       /\ \E i \in 1..Len(plan[p]) :
              \/ plan[p][i] = <<"set", "refresh">>
              \/ plan[p][i] = <<"rotate", "refresh">> /\ client[p].refresh # seed[p].refresh

Below(t, u) == t.sess = u.sess => t.gen < u.gen

\* No run goes on after the answer to a refresh was lost in it.
NoneLost == Disturbances \intersect {"lost", "cancel"} = {}

\* Nobody else has a token of its session that is as new: it is the latest,
\* unless the answer that brought the latest was lost.
Sole(p) ==
    LET t == client[p].refresh
    IN  /\ t.sess \in Sessions /\ (NoneLost => t.gen = gen[t.sess])
        /\ \A id \in Ids : Below(kc[id].refresh, t)
        /\ \A q \in Procs \ {p} : Below(seed[q].refresh, t) /\ Below(client[q].refresh, t)

SoleInv == \A p \in Procs : OnceOnly(plan[p]) /\ (WillStore(p) => Sole(p))

TokenInv == SessionType /\ MintedInv /\ SoleInv

-----------------------------------------------------------------------------
(* The plans.                                                              *)

NeverStores(ops) == \A i \in 1..Len(ops) : ~StoresRefresh(ops[i])

\* A plan that stores no refresh token, then one that does so at most once.
LEMMA OnceAfter ==
  ASSUME NEW s \in Seq(Ops), NEW t \in Seq(Ops)
  PROVE  /\ s \o t \in Seq(Ops)
         /\ NeverStores(s) /\ OnceOnly(t) => OnceOnly(s \o t)
         /\ OnceOnly(s) /\ NeverStores(t) => OnceOnly(s \o t)
<1>1. /\ s \o t \in Seq(Ops) /\ Len(s \o t) = Len(s) + Len(t)
      /\ \A i \in 1..Len(s) + Len(t) :
             (s \o t)[i] = IF i <= Len(s) THEN s[i] ELSE t[i - Len(s)]
  BY ConcatProperties
<1>2. Len(s) \in Nat /\ Len(t) \in Nat
  OBVIOUS
<1>3. \A i \in 1..Len(s) + Len(t) :
          i \in 1..Len(s) \/ (i > Len(s) /\ i - Len(s) \in 1..Len(t))
  BY <1>2
<1>4. ASSUME NeverStores(s), OnceOnly(t)
      PROVE  OnceOnly(s \o t)
  BY <1>1, <1>2, <1>3, <1>4 DEF NeverStores, OnceOnly
<1>5. ASSUME OnceOnly(s), NeverStores(t)
      PROVE  OnceOnly(s \o t)
  BY <1>1, <1>2, <1>3, <1>5 DEF NeverStores, OnceOnly
<1> QED BY <1>1, <1>4, <1>5

\* Four secrets, one write each.
LEMMA EachOnce ==
  ASSUME NEW verb \in {"set", "delete"}
  PROVE  /\ Each(verb) \in Seq(Ops) /\ Len(Each(verb)) = 4
         /\ OnceOnly(Each(verb))
         /\ verb = "delete" => NeverStores(Each(verb))
<1>1. /\ AllKinds[1] = "refresh" /\ AllKinds[2] = "access"
      /\ AllKinds[3] = "passphrase" /\ AllKinds[4] = "keypass"
  BY DEF AllKinds
<1>2. \A i \in 1..4 : AllKinds[i] \in Kinds /\ (AllKinds[i] = "refresh" => i = 1)
  BY <1>1 DEF Kinds
<1>3. \A i \in 1..4 : <<verb, AllKinds[i]>> \in Ops
  BY <1>2 DEF Ops
<1>4. Each(verb) \in Seq(Ops) /\ Len(Each(verb)) = 4
  BY <1>3 DEF Each
<1>5. \A i \in 1..4 : Each(verb)[i] = <<verb, AllKinds[i]>>
  BY DEF Each
<1>6. \A i \in 1..4 : StoresRefresh(Each(verb)[i]) => i = 1 /\ verb = "set"
  BY <1>2, <1>5 DEF StoresRefresh
<1> QED BY <1>4, <1>6 DEF OnceOnly, NeverStores

Fit(ops) == ops \in Seq(Ops) /\ ops # << >> /\ OnceOnly(ops)

\* Every plan a command may follow stores the refresh token at most once.
LEMMA PlansFit ==
  Fit(WriteSecrets) /\ Fit(AddPlan) /\ Fit(RemovePlan) /\ Fit(PersistPlan) /\ Fit(RefreshPlan)
<1> DEFINE uid == <<"row", "uid">>  act == <<"row", "active">>  drop == <<"row", "drop">>
           new == << <<"row", "insert">>, <<"row", "user">> >>
<1>1. uid \in Ops /\ act \in Ops /\ drop \in Ops
  BY DEF Ops
<1>2. ~StoresRefresh(uid) /\ ~StoresRefresh(act) /\ ~StoresRefresh(drop)
  BY DEF StoresRefresh
<1>3. << uid, act >> \in Seq(Ops) /\ NeverStores(<< uid, act >>)
  BY <1>1, <1>2 DEF NeverStores
<1>4. new \in Seq(Ops) /\ NeverStores(new) /\ Len(new) = 2
  <2>1. <<"row", "insert">> \in Ops /\ <<"row", "user">> \in Ops
    BY DEF Ops
  <2>2. ~StoresRefresh(<<"row", "insert">>) /\ ~StoresRefresh(<<"row", "user">>)
    BY DEF StoresRefresh
  <2> QED BY <2>1, <2>2 DEF NeverStores
<1>5. Fit(WriteSecrets)
  <2>1. WriteSecrets \in Seq(Ops) /\ OnceOnly(WriteSecrets)
    BY <1>3, EachOnce, OnceAfter DEF WriteSecrets
  <2>2. Len(WriteSecrets) # 0
    BY <1>3, EachOnce, ConcatProperties DEF WriteSecrets
  <2> QED BY <2>1, <2>2 DEF Fit
<1>6. Fit(AddPlan)
  <2>1. AddPlan \in Seq(Ops) /\ OnceOnly(AddPlan)
    BY <1>4, <1>5, OnceAfter DEF AddPlan, Fit
  <2>2. Len(AddPlan) # 0
    BY <1>4, <1>5, ConcatProperties DEF AddPlan, Fit
  <2> QED BY <2>1, <2>2 DEF Fit
<1>7. Fit(RemovePlan)
  <2>1. << drop >> \in Seq(Ops) /\ OnceOnly(<< drop >>)
    BY <1>1, <1>2 DEF OnceOnly
  <2>2. RemovePlan = Each("delete") \o << drop >>
    BY <1>1, EachOnce, AppendIsConcat DEF RemovePlan
  <2>3. RemovePlan \in Seq(Ops) /\ OnceOnly(RemovePlan)
    BY <2>1, <2>2, EachOnce, OnceAfter
  <2>4. Len(RemovePlan) # 0
    BY <2>1, <2>2, EachOnce, ConcatProperties
  <2> QED BY <2>3, <2>4 DEF Fit
<1>8. Fit(PersistPlan)
  <2>1. /\ <<"rotate", "access">> \in Ops /\ <<"rotate", "refresh">> \in Ops
        /\ <<"rotate", "uid">> \in Ops
    BY DEF Ops
  <2>2. ~StoresRefresh(<<"rotate", "access">>) /\ ~StoresRefresh(<<"rotate", "uid">>)
    BY DEF StoresRefresh
  <2>3. \A i \in 1..3 : StoresRefresh(PersistPlan[i]) => i = 2
    BY <2>2 DEF PersistPlan
  <2> QED BY <2>1, <2>3 DEF PersistPlan, Fit, OnceOnly
<1>9. Fit(RefreshPlan)
  <2>1. << act >> \in Seq(Ops) /\ NeverStores(<< act >>)
    BY <1>1, <1>2 DEF NeverStores
  <2>2. RefreshPlan = PersistPlan \o << act >>
    BY <1>8 DEF RefreshPlan, Fit
  <2>3. RefreshPlan \in Seq(Ops) /\ OnceOnly(RefreshPlan)
    BY <1>8, <2>1, <2>2, OnceAfter DEF Fit
  <2>4. Len(RefreshPlan) # 0
    BY <1>8, <2>1, <2>2, ConcatProperties DEF Fit
  <2> QED BY <2>3, <2>4 DEF Fit
<1> QED BY <1>5, <1>6, <1>7, <1>8, <1>9

-----------------------------------------------------------------------------
(* Types are kept.                                                         *)

\* A process moves on with credentials and a plan of the right types.
LEMMA MoveType ==
  ASSUME ProcType, NEW p \in Procs, NEW step \in Steps,
         NEW c \in Commands \union {"none", "cleanup"},
         NEW id \in Ids \union {"none"}, NEW sd \in Held, NEW cl \in Held, NEW ops \in Seq(Ops),
         step # "idle" => id \in Ids, step = "write" => ops # << >>,
         pc' = [pc EXCEPT ![p] = step], cmd' = [cmd EXCEPT ![p] = c],
         box' = [box EXCEPT ![p] = id], seed' = [seed EXCEPT ![p] = sd],
         client' = [client EXCEPT ![p] = cl], plan' = [plan EXCEPT ![p] = ops]
  PROVE  ProcType'
BY DEF ProcType

\* What is kept of p is set to itself.
LEMMA KeepSame ==
  ASSUME ProcType, NEW p \in Procs
  PROVE  /\ pc = [pc EXCEPT ![p] = pc[p]] /\ cmd = [cmd EXCEPT ![p] = cmd[p]]
         /\ box = [box EXCEPT ![p] = box[p]] /\ seed = [seed EXCEPT ![p] = seed[p]]
         /\ client = [client EXCEPT ![p] = client[p]] /\ plan = [plan EXCEPT ![p] = plan[p]]
         /\ pc[p] \in Steps /\ cmd[p] \in Commands \union {"none", "cleanup"}
         /\ box[p] \in Ids \union {"none"} /\ seed[p] \in Held /\ client[p] \in Held
         /\ plan[p] \in Seq(Ops)
         /\ pc[p] # "idle" => box[p] \in Ids
         /\ pc[p] = "write" => plan[p] # << >>
BY DEF ProcType

\* Credentials nobody holds.
LEMMA EmptyTypes ==
  /\ NoToken \in AnyToken /\ NoClient \in Held /\ NoSecrets \in Secrets
  /\ NoClient.refresh = NoToken /\ NoSecrets.refresh = NoToken
  /\ NoRow \in [state : States, user : BOOLEAN, uid : Uids]
<1>1. 0 \in Uids /\ NoToken \in AnyToken
  BY SessionBounds DEF NoToken, AnyToken, Uids
<1>2. NoRow \in [state : States, user : BOOLEAN, uid : Uids]
  <2>1. FALSE \in BOOLEAN /\ "none" \in States
    BY Zenon DEF States
  <2> QED BY <1>1, <2>1, Zenon DEF NoRow
<1> QED BY <1>1, <1>2 DEF NoClient, NoSecrets, Held, Secrets

LEMMA EndType ==
  ASSUME ProcType, NEW p \in Procs, EndCommand(p)
  PROVE  ProcType'
<1>1. "idle" \in Steps
  BY DEF Steps
<1>2. << >> \in Seq(Ops)
  OBVIOUS
<1> QED BY <1>1, <1>2, MoveType, EmptyTypes DEF EndCommand

LEMMA ProceedType ==
  ASSUME ProcType, NEW p \in Procs, NEW step \in Steps \ {"write"}, Proceed(p, step),
         pc[p] # "idle"
  PROVE  ProcType'
<1>1. /\ pc' = [pc EXCEPT ![p] = step] /\ cmd' = [cmd EXCEPT ![p] = cmd[p]]
      /\ box' = [box EXCEPT ![p] = box[p]] /\ seed' = [seed EXCEPT ![p] = seed[p]]
      /\ client' = [client EXCEPT ![p] = client[p]] /\ plan' = [plan EXCEPT ![p] = plan[p]]
  BY KeepSame DEF Proceed
<1>2. step \in Steps /\ step # "write"
  OBVIOUS
<1> QED BY <1>1, <1>2, KeepSame, MoveType

LEMMA GiveUpType ==
  ASSUME ProcType, NEW p \in Procs, GiveUp(p), pc[p] # "idle"
  PROVE  ProcType'
<1>1. "flag" \in Steps \ {"write"}
  BY DEF Steps
<1> QED BY <1>1, EndType, ProceedType DEF GiveUp, AfterRefusal

LEMMA WritesType ==
  ASSUME ProcType, NEW p \in Procs, NEW ops, Fit(ops), BeginWrites(p, ops), pc[p] # "idle",
         NEW cl \in Held, client' = [client EXCEPT ![p] = cl]
  PROVE  ProcType'
<1>1. "write" \in Steps
  BY DEF Steps
<1>2. /\ pc' = [pc EXCEPT ![p] = "write"] /\ cmd' = [cmd EXCEPT ![p] = cmd[p]]
      /\ box' = [box EXCEPT ![p] = box[p]] /\ seed' = [seed EXCEPT ![p] = seed[p]]
      /\ plan' = [plan EXCEPT ![p] = ops]
  BY KeepSame DEF BeginWrites
<1>3. ops \in Seq(Ops) /\ ops # << >>
  BY DEF Fit
<1> QED BY <1>1, <1>2, <1>3, KeepSame, MoveType

-----------------------------------------------------------------------------
(* How tokens move.                                                        *)

\* Other processes are left alone.
OnlyMoves(p) ==
    \A q \in Procs \ {p} :
        pc'[q] = pc[q] /\ seed'[q] = seed[q] /\ client'[q] = client[q] /\ plan'[q] = plan[q]

\* No mailbox's stored refresh token goes back.
Forward ==
    \A id \in Ids :
        kc'[id].refresh.sess = kc[id].refresh.sess
            => kc'[id].refresh.gen >= kc[id].refresh.gen

LEMMA TokenTypes ==
  ASSUME SessionType
  PROVE  /\ \A id \in Ids : kc[id].refresh \in AnyToken
         /\ \A p \in Procs : seed[p].refresh \in AnyToken /\ client[p].refresh \in AnyToken
         /\ gen \in [Sessions -> Nat] /\ Sessions \subseteq Uids
         /\ NoToken.sess = 0 /\ NoToken.gen = 0 /\ 0 \notin Sessions
         /\ \A t \in AnyToken : t.sess \in Uids /\ t.gen \in Nat
         /\ \A t, u \in AnyToken : t = u <=> t.sess = u.sess /\ t.gen = u.gen
<1>1. /\ \A id \in Ids : kc[id] \in Secrets
      /\ \A p \in Procs : seed[p] \in Held /\ client[p] \in Held
      /\ gen \in [Sessions -> Nat]
  BY DEF SessionType, ProtonType, StoreType, ProcType
<1>2. \A r \in Secrets : r.refresh \in AnyToken
  BY DEF Secrets
<1>3. \A r \in Held : r.refresh \in AnyToken
  BY DEF Held
<1>4. Sessions \subseteq Uids /\ 0 \notin Sessions
  BY SessionBounds DEF Sessions, Uids
<1>5. NoToken.sess = 0 /\ NoToken.gen = 0
  BY DEF NoToken
<1>6. \A t \in AnyToken : t.sess \in Uids /\ t.gen \in Nat
  BY DEF AnyToken
<1>7. \A t, u \in AnyToken : t = u <=> t.sess = u.sess /\ t.gen = u.gen
  BY DEF AnyToken
<1> QED BY <1>1, <1>2, <1>3, <1>4, <1>5, <1>6, <1>7

\* What the others will store is what they would have stored.
LEMMA OthersStore ==
  ASSUME NEW p \in Procs, OnlyMoves(p), NEW q \in Procs \ {p}
  PROVE  WillStore(q)' <=> WillStore(q)
BY DEF OnlyMoves, WillStore

\* Tokens are copied or dropped, and none is minted.
LEMMA Copies ==
  ASSUME TokenInv, NEW p \in Procs, SessionType', OnlyMoves(p), gen' = gen,
         seed'[p].refresh \in {seed[p].refresh, NoToken} \union {kc[id].refresh : id \in Ids},
         client'[p].refresh \in {client[p].refresh, seed[p].refresh, NoToken},
         \A id \in Ids : kc'[id].refresh \in {kc[id].refresh, NoToken},
         OnceOnly(plan'[p]),
         WillStore(p)' => WillStore(p) /\ client'[p].refresh = client[p].refresh
  PROVE  MintedInv' /\ SoleInv' /\ Forward
<1> USE DEF TokenInv
<1>1. MintedInv'
  <2>1. \A t : Minted(t)' <=> Minted(t)
    BY DEF Minted
  <2> QED BY <2>1 DEF MintedInv, OnlyMoves, Minted
<1>2. \A q \in Procs : WillStore(q)' => WillStore(q) /\ client'[q].refresh = client[q].refresh
  BY OthersStore DEF OnlyMoves
<1>3. ASSUME NEW q \in Procs, WillStore(q)'
      PROVE  Sole(q)'
  <2> DEFINE t == client[q].refresh
  <2>1. Sole(q) /\ client'[q].refresh = t
    BY <1>2, <1>3 DEF SoleInv
  <2>2. t.sess \in Sessions /\ Below(NoToken, t)
    BY <2>1, TokenTypes DEF Sole, Below
  <2>3. \A id \in Ids : Below(kc'[id].refresh, t)
    BY <2>1, <2>2 DEF Sole
  <2>4. ASSUME NEW r \in Procs \ {q}
        PROVE  Below(seed'[r].refresh, t) /\ Below(client'[r].refresh, t)
    BY <2>1, <2>2 DEF Sole, OnlyMoves
  <2>5. t.sess \in Sessions /\ (NoneLost => t.gen = gen'[t.sess])
    BY <2>1 DEF Sole
  <2> QED BY <2>1, <2>3, <2>4, <2>5 DEF Sole
<1>4. Forward
  <2>1. ASSUME NEW id \in Ids
        PROVE  kc'[id].refresh.sess = kc[id].refresh.sess
                 => kc'[id].refresh.gen >= kc[id].refresh.gen
    <3>1. /\ kc[id].refresh \in AnyToken /\ Minted(kc[id].refresh)
          /\ kc'[id].refresh \in {kc[id].refresh, NoToken}
      BY TokenTypes DEF MintedInv
    <3> QED BY <3>1, TokenTypes DEF Minted
  <2> QED BY <2>1 DEF Forward
<1>5. \A q \in Procs : OnceOnly(plan'[q])
  BY DEF OnlyMoves, SoleInv
<1> QED BY <1>1, <1>3, <1>4, <1>5 DEF SoleInv

\* A token is minted of a session that no other process is about to store a
\* token of; p takes it, or the command ends.
LEMMA Mints ==
  ASSUME TokenInv, NEW p \in Procs, SessionType', OnlyMoves(p), NEW s \in Sessions,
         gen' = [gen EXCEPT ![s] = @ + 1],
         \A q \in Procs \ {p} : WillStore(q) => client[q].refresh.sess # s,
         seed'[p].refresh \in {seed[p].refresh, NoToken}, UNCHANGED kc,
         OnceOnly(plan'[p]),
         \/ client'[p].refresh = NextToken(s)
         \/ ~WillStore(p)' /\ client'[p].refresh \in {client[p].refresh, NoToken}
         \/ /\ ~NoneLost /\ (WillStore(p)' => WillStore(p))
            /\ client'[p].refresh = client[p].refresh
  PROVE  MintedInv' /\ SoleInv' /\ Forward
<1> USE DEF TokenInv
<1>0. gen[s] \in Nat /\ gen' \in [Sessions -> Nat] /\ gen'[s] = gen[s] + 1
      /\ \A r \in Sessions \ {s} : gen'[r] = gen[r]
  BY TokenTypes
<1>1. \A t \in AnyToken : Minted(t) => Minted(t)'
  BY <1>0, TokenTypes DEF Minted
<1>2. /\ NextToken(s).sess = s /\ NextToken(s).gen = gen[s] + 1 /\ NextToken(s) \in AnyToken
      /\ \A t : t = NextToken(s) => Minted(t)'
  BY <1>0, TokenTypes DEF NextToken, Minted, AnyToken
<1>3. \A t \in AnyToken : Minted(t) => Below(t, NextToken(s))
  BY <1>0, <1>2, TokenTypes DEF Minted, Below
<1>4. MintedInv'
  <2>0. \A t : (t \in AnyToken /\ Minted(t)) \/ t = NoToken \/ t = NextToken(s) => Minted(t)'
    BY <1>1, <1>2 DEF Minted
  <2>1. \A id \in Ids : Minted(kc[id].refresh)'
    BY <2>0, TokenTypes DEF MintedInv
  <2>2. \A q \in Procs \ {p} : Minted(seed[q].refresh)' /\ Minted(client[q].refresh)'
    BY <2>0, TokenTypes DEF MintedInv, OnlyMoves
  <2>4. Minted(seed[p].refresh)' /\ Minted(client[p].refresh)'
    BY <2>0, TokenTypes DEF MintedInv
  <2> QED BY <2>1, <2>2, <2>4 DEF MintedInv
<1>5. ASSUME NEW q \in Procs \ {p}, WillStore(q)'
      PROVE  Sole(q)'
  <2> DEFINE t == client[q].refresh
  <2>1. WillStore(q) /\ client'[q].refresh = t
    BY <1>5, OthersStore DEF OnlyMoves
  <2>2. Sole(q) /\ t.sess # s
    BY <2>1 DEF SoleInv
  <2>3. t.sess \in Sessions /\ Below(NoToken, t) /\ Below(NextToken(s), t)
    BY <1>2, <2>2, TokenTypes DEF Sole, Below
  <2>4. ASSUME NEW r \in Procs \ {q}
        PROVE  Below(seed'[r].refresh, t) /\ Below(client'[r].refresh, t)
    BY <2>2, <2>3 DEF Sole, OnlyMoves
  <2>5. NoneLost => t.gen = gen'[t.sess]
    BY <1>0, <2>2 DEF Sole
  <2> QED BY <2>1, <2>2, <2>3, <2>4, <2>5 DEF Sole
<1>6. ASSUME WillStore(p)'
      PROVE  Sole(p)'
  <2>1. CASE client'[p].refresh = NextToken(s)
    <3>1. /\ \A id \in Ids : Below(kc'[id].refresh, NextToken(s))
          /\ \A r \in Procs \ {p} :
                 /\ Below(seed'[r].refresh, NextToken(s))
                 /\ Below(client'[r].refresh, NextToken(s))
      BY <1>3, TokenTypes DEF MintedInv, OnlyMoves
    <3> QED BY <1>0, <1>2, <2>1, <3>1 DEF Sole
  <2>2. CASE ~NoneLost /\ WillStore(p) /\ client'[p].refresh = client[p].refresh
    <3>1. Sole(p)
      BY <2>2 DEF SoleInv
    <3> QED BY <2>2, <3>1 DEF Sole, OnlyMoves
  <2> QED BY <1>6, <2>1, <2>2
<1>7. Forward
  BY TokenTypes DEF Forward
<1>8. \A q \in Procs : OnceOnly(plan'[q])
  BY DEF OnlyMoves, SoleInv
<1> QED BY <1>4, <1>5, <1>6, <1>7, <1>8 DEF SoleInv

\* The holder of the latest token stores it.
LEMMA Stored ==
  ASSUME TokenInv, NEW p \in Procs, SessionType', OnlyMoves(p), gen' = gen,
         WillStore(p), ~WillStore(p)', NEW b \in Ids,
         \A id \in Ids : kc'[id].refresh = IF id = b THEN client[p].refresh ELSE kc[id].refresh,
         seed'[p].refresh \in {seed[p].refresh, NoToken},
         client'[p].refresh \in {client[p].refresh, NoToken},
         OnceOnly(plan'[p])
  PROVE  MintedInv' /\ SoleInv' /\ Forward
<1> USE DEF TokenInv
<1>1. MintedInv'
  <2>1. \A t : Minted(t)' <=> Minted(t)
    BY DEF Minted
  <2> QED BY <2>1 DEF MintedInv, OnlyMoves, Minted
<1>2. ASSUME NEW q \in Procs, WillStore(q)'
      PROVE  Sole(q)'
  <2> DEFINE t == client[q].refresh
  <2>1. q # p /\ WillStore(q) /\ client'[q].refresh = t
    BY <1>2, OthersStore DEF OnlyMoves
  <2>2. Sole(q)
    BY <2>1 DEF SoleInv
  <2>3. t.sess \in Sessions /\ Below(NoToken, t) /\ Below(client[p].refresh, t)
    BY <2>1, <2>2, TokenTypes DEF Sole, Below
  <2>4. ASSUME NEW r \in Procs \ {q}
        PROVE  Below(seed'[r].refresh, t) /\ Below(client'[r].refresh, t)
    BY <2>2, <2>3 DEF Sole, OnlyMoves
  <2>5. \A id \in Ids : Below(kc'[id].refresh, t)
    BY <2>2, <2>3 DEF Sole
  <2>6. NoneLost => t.gen = gen'[t.sess]
    BY <2>2 DEF Sole
  <2> QED BY <2>1, <2>3, <2>4, <2>5, <2>6 DEF Sole
<1>3. Forward
  <2>1. Sole(p)
    BY DEF SoleInv
  <2>2. \A id \in Ids : Minted(kc[id].refresh)
    BY DEF MintedInv
  <2> QED BY <2>1, <2>2, TokenTypes DEF Forward, Sole, Below, Minted
<1>4. \A q \in Procs : OnceOnly(plan'[q])
  BY DEF OnlyMoves, SoleInv
<1> QED BY <1>1, <1>2, <1>3, <1>4 DEF SoleInv

-----------------------------------------------------------------------------
(* The ways a step ends.                                                   *)

\* What every step has to show.
Safely == TokenInv' /\ Forward

\* Each of a process's variables has a value for every process.
LEMMA Domains ==
  ASSUME ProcType
  PROVE  /\ DOMAIN pc = Procs /\ DOMAIN seed = Procs /\ DOMAIN client = Procs
         /\ DOMAIN plan = Procs
BY DEF ProcType

\* A command that ends takes its credentials with it.
LEMMA EndSafe ==
  ASSUME TokenInv, NEW p \in Procs, EndCommand(p), ProtonType', StoreType', gen' = gen,
         \A id \in Ids : kc'[id].refresh \in {kc[id].refresh, NoToken}
  PROVE  Safely
<1> USE DEF TokenInv
<1>1. ProcType /\ ProcType'
  BY EndType DEF SessionType
<1>2. OnlyMoves(p) /\ pc'[p] = "idle" /\ seed'[p] = NoClient /\ client'[p] = NoClient
      /\ plan'[p] = << >>
  BY <1>1, Domains DEF EndCommand, OnlyMoves
<1>3. ~WillStore(p)'
  BY <1>2 DEF WillStore, Using
<1>4. OnceOnly(plan'[p])
  BY <1>2 DEF OnceOnly
<1>5. SessionType'
  BY <1>1 DEF SessionType
<1> QED BY <1>2, <1>3, <1>4, <1>5, Copies, EmptyTypes DEF Safely

\* A step that leaves the credentials alone, and does not begin to use them.
LEMMA ProceedSafe ==
  ASSUME TokenInv, NEW p \in Procs, NEW step \in Steps \ {"write"}, Proceed(p, step),
         pc[p] # "idle", step \in Using => pc[p] \in Using,
         ProtonType', StoreType', gen' = gen,
         \A id \in Ids : kc'[id].refresh \in {kc[id].refresh, NoToken}
  PROVE  Safely
<1> USE DEF TokenInv
<1>1. ProcType /\ ProcType'
  BY ProceedType DEF SessionType
<1>2. /\ OnlyMoves(p) /\ pc'[p] = step
      /\ seed'[p] = seed[p] /\ client'[p] = client[p] /\ plan'[p] = plan[p]
  BY <1>1, Domains DEF Proceed, OnlyMoves
<1>3. WillStore(p)' => WillStore(p)
  BY <1>2 DEF WillStore
<1>4. OnceOnly(plan'[p])
  BY <1>2 DEF SoleInv
<1>5. SessionType'
  BY <1>1 DEF SessionType
<1> QED BY <1>2, <1>3, <1>4, <1>5, Copies DEF Safely

LEMMA GiveUpSafe ==
  ASSUME TokenInv, NEW p \in Procs, GiveUp(p), pc[p] # "idle",
         ProtonType', StoreType', gen' = gen,
         \A id \in Ids : kc'[id].refresh \in {kc[id].refresh, NoToken}
  PROVE  Safely
<1>1. "flag" \in Steps \ {"write"} /\ "flag" \notin Using
  BY DEF Steps, Using
<1> QED BY <1>1, EndSafe, ProceedSafe DEF GiveUp, AfterRefusal

\* The secrets, and then the row.
LEMMA RemovePlanIs ==
  /\ Len(RemovePlan) = 5 /\ \A i \in 1..4 : RemovePlan[i] = Each("delete")[i]
  /\ RemovePlan[5] = <<"row", "drop">>
<1>1. Each("delete") \in Seq(Ops) /\ Len(Each("delete")) = 4 /\ <<"row", "drop">> \in Ops
  BY EachOnce DEF Ops
<1>2. \A q \in Seq(Ops), op \in Ops :
          /\ Len(Append(q, op)) = Len(q) + 1
          /\ \A i \in 1..Len(q) : Append(q, op)[i] = q[i]
          /\ Append(q, op)[Len(q) + 1] = op
  BY AppendProperties
<1>3. /\ Len(RemovePlan) = Len(Each("delete")) + 1
      /\ \A i \in 1..Len(Each("delete")) : RemovePlan[i] = Each("delete")[i]
      /\ RemovePlan[Len(Each("delete")) + 1] = <<"row", "drop">>
  BY <1>1, <1>2, Zenon DEF RemovePlan
<1> QED BY <1>1, <1>3

\* The plans of those that did not log in store a rotated token only.
NoSets(ops) == \A i \in 1..Len(ops) : ops[i] # <<"set", "refresh">>

LEMMA NoSetPlans == NoSets(PersistPlan) /\ NoSets(RefreshPlan) /\ NeverStores(RemovePlan)
<1>1. /\ Len(PersistPlan) = 3 /\ PersistPlan[1] = <<"rotate", "access">>
      /\ PersistPlan[2] = <<"rotate", "refresh">> /\ PersistPlan[3] = <<"rotate", "uid">>
  BY DEF PersistPlan
<1>2. NoSets(PersistPlan)
  BY <1>1 DEF NoSets
<1>3. /\ Len(RefreshPlan) = 4 /\ \A i \in 1..3 : RefreshPlan[i] = PersistPlan[i]
      /\ RefreshPlan[4] = <<"row", "active">>
  <2>1. PersistPlan \in Seq(Ops)
    BY PlansFit DEF Fit
  <2>2. <<"row", "active">> \in Ops
    BY DEF Ops
  <2>3. /\ Len(RefreshPlan) = Len(PersistPlan) + 1
        /\ \A i \in 1..Len(PersistPlan) : RefreshPlan[i] = PersistPlan[i]
        /\ RefreshPlan[Len(PersistPlan) + 1] = <<"row", "active">>
    <3>1. \A q \in Seq(Ops), op \in Ops :
              /\ Len(Append(q, op)) = Len(q) + 1
              /\ \A i \in 1..Len(q) : Append(q, op)[i] = q[i]
              /\ Append(q, op)[Len(q) + 1] = op
      BY AppendProperties
    <3> QED BY <2>1, <2>2, <3>1, Zenon DEF RefreshPlan
  <2> QED BY <1>1, <2>3
<1>4. NoSets(RefreshPlan)
  BY <1>1, <1>3 DEF NoSets
<1>5. NeverStores(RemovePlan)
  <2>1. \A i \in 1..4 : ~StoresRefresh(Each("delete")[i])
    BY EachOnce DEF NeverStores
  <2>2. ~StoresRefresh(<<"row", "drop">>)
    BY DEF StoresRefresh
  <2> QED BY <2>1, <2>2, RemovePlanIs DEF NeverStores
<1> QED BY <1>2, <1>4, <1>5

\* A client in use whose token stays as it is begins to write.
LEMMA WritesSafe ==
  ASSUME TokenInv, NEW p \in Procs, NEW ops, Fit(ops), NoSets(ops), BeginWrites(p, ops),
         pc[p] \in Using, NEW cl \in Held, client' = [client EXCEPT ![p] = cl],
         cl.refresh = client[p].refresh,
         ProtonType', StoreType', gen' = gen,
         \A id \in Ids : kc'[id].refresh \in {kc[id].refresh, NoToken}
  PROVE  Safely
<1> USE DEF TokenInv
<1>0. pc[p] # "idle"
  BY DEF Using
<1>1. ProcType /\ ProcType'
  BY <1>0, WritesType DEF SessionType
<1>2. /\ OnlyMoves(p) /\ pc'[p] = "write"
      /\ seed'[p] = seed[p] /\ client'[p] = cl /\ plan'[p] = ops
  BY <1>1, Domains DEF BeginWrites, OnlyMoves
<1>3. WillStore(p)' => WillStore(p)
  BY <1>2 DEF WillStore, Using, NoSets
<1>4. OnceOnly(plan'[p])
  BY <1>2 DEF Fit
<1>5. SessionType'
  BY <1>1 DEF SessionType
<1> QED BY <1>2, <1>3, <1>4, <1>5, Copies DEF Safely

\* A token is spent by its use: who can rotate has the latest, so nobody else is
\* about to store it.
LEMMA RotatesAlone ==
  ASSUME TokenInv, NEW p \in Procs, CanRotate(p)
  PROVE  /\ client[p].uid \in Sessions
         /\ \A q \in Procs \ {p} : WillStore(q) => client[q].refresh.sess # client[p].uid
<1>1. /\ client[p].uid \in Sessions /\ client[p].refresh.sess = client[p].uid
      /\ client[p].refresh.gen = gen[client[p].uid]
  BY DEF CanRotate, Honoured
<1>2. ASSUME NEW q \in Procs \ {p}, WillStore(q), client[q].refresh.sess = client[p].uid
      PROVE  FALSE
  <2>1. Below(client[p].refresh, client[q].refresh)
    BY <1>2 DEF TokenInv, SoleInv, Sole
  <2>2. client[q].refresh.gen \in 1..gen[client[p].uid]
    BY <1>1, <1>2, TokenTypes DEF TokenInv, MintedInv, Minted
  <2> QED BY <1>1, <1>2, <2>1, <2>2, TokenTypes DEF Below, TokenInv
<1> QED BY <1>1, <1>2

\* Minting keeps the types of Proton's state.
LEMMA MintType ==
  ASSUME ProtonType, NEW s \in Sessions, gen' = [gen EXCEPT ![s] = @ + 1], keys' = keys
  PROVE  ProtonType' /\ NextToken(s) \in AnyToken
<1>1. gen \in [Sessions -> Nat] /\ Sessions \subseteq Uids
  BY SessionBounds DEF ProtonType, Sessions, Uids
<1>2. NextToken(s) \in AnyToken
  BY <1>1 DEF NextToken, AnyToken
<1> QED BY <1>1, <1>2 DEF ProtonType

\* A call that gets through has at most rotated the client's tokens.
LEMMA ReachType ==
  ASSUME SessionType, NEW p \in Procs, Reach(p), keys' = keys
  PROVE  /\ ProtonType'
         /\ \E cl \in Held : client' = [client EXCEPT ![p] = cl]
<1>1. client \in [Procs -> Held]
  BY DEF SessionType, ProcType
<1>2. CASE Authorized(p) /\ UNCHANGED <<gen, client>>
  BY <1>1, <1>2 DEF SessionType, ProtonType
<1>3. CASE CanRotate(p) /\ gen' = [gen EXCEPT ![client[p].uid] = @ + 1]
           /\ client' = [client EXCEPT ![p].refresh = NextToken(client[p].uid),
                                       ![p].access = NextToken(client[p].uid)]
  <2>1. client[p].uid \in Sessions
    BY <1>3 DEF CanRotate, Honoured
  <2>2. ProtonType' /\ NextToken(client[p].uid) \in AnyToken
    BY <1>3, <2>1, MintType DEF SessionType
  <2>3. [client[p] EXCEPT !.refresh = NextToken(client[p].uid),
                          !.access = NextToken(client[p].uid)] \in Held
    BY <1>1, <2>2 DEF Held
  <2> QED BY <1>1, <1>3, <2>2, <2>3
<1> QED BY <1>2, <1>3 DEF Reach

\* Such a call, in the hands of a client in use.
LEMMA ReachSafe ==
  ASSUME TokenInv, NEW p \in Procs, Reach(p), pc[p] \in Using, keys' = keys,
         UNCHANGED <<rows, kc, seed>>, ProcType',
         \A q \in Procs \ {p} : pc'[q] = pc[q] /\ plan'[q] = plan[q],
         OnceOnly(plan'[p]), NoSets(plan'[p]) \/ pc'[p] # "write"
  PROVE  Safely
<1> USE DEF TokenInv
<1>1. SessionType'
  BY ReachType DEF SessionType, StoreType
<1>2. PICK cl \in Held : client' = [client EXCEPT ![p] = cl]
  BY ReachType
<1>3. OnlyMoves(p)
  BY <1>2, Domains DEF OnlyMoves, SessionType
<1>4. CASE Authorized(p) /\ UNCHANGED <<gen, client>>
  <2>1. WillStore(p)' => WillStore(p)
    BY <1>4 DEF WillStore, NoSets
  <2> QED BY <1>1, <1>3, <1>4, <2>1, Copies DEF Safely
<1>5. CASE CanRotate(p) /\ gen' = [gen EXCEPT ![client[p].uid] = @ + 1]
           /\ client' = [client EXCEPT ![p].refresh = NextToken(client[p].uid),
                                       ![p].access = NextToken(client[p].uid)]
  <2>1. client \in [Procs -> Held]
    BY DEF SessionType, ProcType
  <2>2. client'[p].refresh = NextToken(client[p].uid)
    BY <1>5, <2>1 DEF Held
  <2> QED BY <1>1, <1>3, <1>5, <2>2, RotatesAlone, Mints DEF Safely
<1> QED BY <1>4, <1>5 DEF Reach

-----------------------------------------------------------------------------
(* The steps of a command.                                                 *)

\* Commands begin without credentials of their own.
LEMMA StartSafe ==
  ASSUME TokenInv, NEW p \in Procs, StartAdd(p) \/ StartRemove(p) \/ StartResume(p)
  PROVE  Safely
<1> USE DEF TokenInv
<1>1. /\ UNCHANGED <<gen, keys, rows, kc, client>>
      /\ pc[p] = "idle"
      /\ \E step \in {"login", "write", "readRefresh", "flag"} : pc' = [pc EXCEPT ![p] = step]
      /\ \E c \in Commands : cmd' = [cmd EXCEPT ![p] = c]
      /\ \E id \in Ids : box' = [box EXCEPT ![p] = id]
  BY DEF StartAdd, StartRemove, StartResume, Begin, proton
<1>2. /\ pc' = [pc EXCEPT ![p] = "write"] => plan' = [plan EXCEPT ![p] = RemovePlan]
      /\ plan' = plan \/ plan' = [plan EXCEPT ![p] = RemovePlan]
      /\ seed' = seed \/ \E id \in Ids : seed' = [seed EXCEPT ![p].uid = rows[id].uid]
  BY Domains DEF StartAdd, StartRemove, StartResume, Begin, SessionType
<1>3. ProtonType' /\ StoreType'
  BY <1>1 DEF SessionType, ProtonType, StoreType
<1>4. seed' \in [Procs -> Held] /\ seed'[p].refresh = seed[p].refresh
      /\ \A q \in Procs \ {p} : seed'[q] = seed[q]
  <2>1. seed \in [Procs -> Held] /\ \A id \in Ids : rows[id].uid \in Uids
    BY DEF SessionType, ProcType, StoreType
  <2> QED BY <1>2, <2>1 DEF Held
<1>5. plan' \in [Procs -> Seq(Ops)] /\ (plan'[p] = plan[p] \/ plan'[p] = RemovePlan)
      /\ \A q \in Procs \ {p} : plan'[q] = plan[q]
  <2>1. plan \in [Procs -> Seq(Ops)] /\ RemovePlan \in Seq(Ops)
    BY PlansFit DEF SessionType, ProcType, Fit
  <2> QED BY <1>2, <2>1
<1>6. /\ pc'[p] \in {"login", "write", "readRefresh", "flag"}
      /\ pc'[p] = "write" => plan'[p] = RemovePlan
      /\ \A q \in Procs \ {p} : pc'[q] = pc[q] /\ box'[q] = box[q]
      /\ box'[p] \in Ids
  <2>1. pc \in [Procs -> Steps] /\ box \in [Procs -> Ids \union {"none"}]
        /\ plan \in [Procs -> Seq(Ops)]
    BY DEF SessionType, ProcType
  <2> QED BY <1>1, <1>2, <2>1
<1>7. ProcType'
  <2>1. pc' \in [Procs -> Steps] /\ cmd' \in [Procs -> Commands \union {"none", "cleanup"}]
        /\ box' \in [Procs -> Ids \union {"none"}] /\ client' \in [Procs -> Held]
    BY <1>1 DEF SessionType, ProcType, Steps
  <2>2. RemovePlan # << >>
    BY PlansFit DEF Fit
  <2>3. /\ \A q \in Procs : pc[q] # "idle" => box[q] \in Ids
        /\ \A q \in Procs : pc[q] = "write" => plan[q] # << >>
    BY DEF SessionType, ProcType
  <2>4. \A q \in Procs : pc'[q] # "idle" => box'[q] \in Ids
    BY <1>6, <2>3
  <2>5. \A q \in Procs : pc'[q] = "write" => plan'[q] # << >>
    BY <1>5, <1>6, <2>2, <2>3
  <2> QED BY <1>4, <1>5, <2>1, <2>4, <2>5 DEF ProcType
<1>8. ~WillStore(p)'
  BY <1>6, NoSetPlans DEF WillStore, Using, NeverStores, StoresRefresh
<1>9. OnceOnly(plan'[p])
  BY <1>5, PlansFit DEF Fit, SoleInv
<1>10. OnlyMoves(p)
  BY <1>1, <1>4, <1>5, <1>6 DEF OnlyMoves
<1>11. SessionType'
  BY <1>3, <1>7 DEF SessionType
<1> QED BY <1>1, <1>4, <1>8, <1>9, <1>10, <1>11, Copies DEF Safely

\* Steps that leave Proton, or the row and its secrets, alone.
LEMMA Quiet ==
  ASSUME SessionType
  PROVE  /\ UNCHANGED <<gen, keys>> => ProtonType'
         /\ UNCHANGED <<rows, kc>> =>
                StoreType' /\ \A id \in Ids : kc'[id].refresh \in {kc[id].refresh, NoToken}
BY DEF SessionType, ProtonType, StoreType

\* A refresh token that is read is not used before the client is built with it.
LEMMA ReadSafe ==
  ASSUME TokenInv, NEW p \in Procs, NEW kind \in Kinds, NEW step \in Steps \ {"write"},
         Read(p, kind, step), box[p] \in Ids,
         kind = "refresh" => step \notin Using, step \in Using => pc[p] \in Using,
         UNCHANGED <<gen, keys, rows, kc>>
  PROVE  Safely
<1> USE DEF TokenInv
<1> DEFINE sd == [seed[p] EXCEPT ![kind] = kc[box[p]][kind]]
<1>1. seed[p] \in Held /\ kc[box[p]] \in Secrets
  BY DEF SessionType, ProcType, StoreType
<1>2. sd \in Held
  BY <1>1 DEF Held, Secrets, Kinds
<1>3. sd.refresh = IF kind = "refresh" THEN kc[box[p]].refresh ELSE seed[p].refresh
  BY <1>1 DEF Held, Kinds
<1>4. ProcType'
  <2>1. /\ pc' = [pc EXCEPT ![p] = step] /\ cmd' = [cmd EXCEPT ![p] = cmd[p]]
        /\ box' = [box EXCEPT ![p] = box[p]] /\ seed' = [seed EXCEPT ![p] = sd]
        /\ client' = [client EXCEPT ![p] = client[p]] /\ plan' = [plan EXCEPT ![p] = plan[p]]
    BY KeepSame DEF Read, SessionType
  <2>2. step \in Steps /\ step # "write" /\ ProcType
    BY DEF SessionType
  <2> QED BY <1>2, <2>1, <2>2, KeepSame, MoveType
<1>5. /\ OnlyMoves(p) /\ pc'[p] = step /\ step # "write" /\ seed'[p] = sd
      /\ client'[p] = client[p] /\ plan'[p] = plan[p]
  BY Domains DEF SessionType, Read, OnlyMoves
<1>6. WillStore(p)' => WillStore(p)
  BY <1>3, <1>5 DEF WillStore
<1>7. OnceOnly(plan'[p])
  BY <1>5 DEF SoleInv
<1>8. SessionType'
  BY <1>4, Quiet DEF SessionType
<1> QED BY <1>3, <1>5, <1>6, <1>7, <1>8, Copies, ZenonT(60) DEF Safely

\* sync, labels and auth refresh read what the keychain holds.
LEMMA ReadsSafe ==
  ASSUME TokenInv, NEW p \in Procs,
         \/ ReadRefreshToken(p) \/ ReadAccessToken(p) \/ ReadKeyPass(p)
         \/ ReadPassphrase(p) \/ ReadFails(p)
  PROVE  Safely
<1>0. /\ UNCHANGED <<gen, keys, rows, kc>>
      /\ pc[p] \in {"readRefresh", "readAccess", "readKeyPass", "readPassphrase"}
  BY DEF ReadRefreshToken, ReadAccessToken, ReadKeyPass, ReadPassphrase, ReadFails, proton
<1>1. SessionType /\ pc[p] # "idle" /\ box[p] \in Ids
  BY <1>0 DEF TokenInv, SessionType, ProcType
<1>2. /\ ProtonType' /\ StoreType' /\ gen' = gen
      /\ \A id \in Ids : kc'[id].refresh \in {kc[id].refresh, NoToken}
  BY <1>0, <1>1, Quiet
<1>3. CASE GiveUp(p) \/ EndCommand(p)
  BY <1>1, <1>2, <1>3, GiveUpSafe, EndSafe
<1>4. /\ "readAccess" \in Steps \ {"write"} /\ "resume" \in Steps \ {"write"}
      /\ "readPassphrase" \in Steps \ {"write"} /\ "callForKeys" \in Steps \ {"write"}
      /\ "callForSalts" \in Steps \ {"write"}
      /\ "readAccess" \notin Using /\ "resume" \notin Using
      /\ "readKeyPass" \in Using /\ "readPassphrase" \in Using
  BY DEF Steps, Using
<1>5. /\ "refresh" \in Kinds /\ "access" \in Kinds /\ "keypass" \in Kinds
      /\ "passphrase" \in Kinds
  BY DEF Kinds
<1>6. CASE Read(p, "refresh", "readAccess")
  BY <1>0, <1>1, <1>4, <1>5, <1>6, ReadSafe
<1>7. CASE Read(p, "access", "resume")
  BY <1>0, <1>1, <1>4, <1>5, <1>7, ReadSafe
<1>8. CASE pc[p] = "readKeyPass"
           /\ \E step \in {"readPassphrase", "callForKeys"} : Read(p, "keypass", step)
  BY <1>0, <1>1, <1>4, <1>5, <1>8, ReadSafe
<1>9. CASE pc[p] = "readPassphrase" /\ Read(p, "passphrase", "callForSalts")
  BY <1>0, <1>1, <1>4, <1>5, <1>9, ReadSafe
<1> QED
  BY <1>3, <1>6, <1>7, <1>8, <1>9
  DEF ReadRefreshToken, ReadAccessToken, ReadKeyPass, ReadPassphrase, ReadFails

\* A client begins with the token that was read, so has none to store.
LEMMA ResumeSafe ==
  ASSUME TokenInv, NEW p \in Procs, Resume(p)
  PROVE  Safely
<1> USE DEF TokenInv
<1> DEFINE step == IF cmd[p] = "sync" THEN "readKeyPass" ELSE "probe"
<1>1. step \in Steps /\ step # "write" /\ pc[p] # "idle"
  BY DEF Resume, Steps
<1>2. ProcType'
  <2>1. /\ pc' = [pc EXCEPT ![p] = step] /\ cmd' = [cmd EXCEPT ![p] = cmd[p]]
        /\ box' = [box EXCEPT ![p] = box[p]] /\ seed' = [seed EXCEPT ![p] = seed[p]]
        /\ client' = [client EXCEPT ![p] = seed[p]] /\ plan' = [plan EXCEPT ![p] = plan[p]]
    BY KeepSame DEF Resume, SessionType
  <2>2. ProcType
    BY DEF SessionType
  <2> HIDE DEF step
  <2> QED BY <1>1, <2>1, <2>2, KeepSame, MoveType
<1>3. /\ OnlyMoves(p) /\ pc'[p] = step /\ seed'[p] = seed[p] /\ client'[p] = seed[p]
      /\ plan'[p] = plan[p] /\ gen' = gen
  BY Domains DEF SessionType, Resume, OnlyMoves, proton
<1>4. ~WillStore(p)'
  BY <1>1, <1>3 DEF WillStore
<1>5. OnceOnly(plan'[p])
  BY <1>3 DEF SoleInv
<1>6. UNCHANGED <<gen, keys, rows, kc>>
  BY DEF Resume, proton
<1>7. SessionType'
  BY <1>2, <1>6, Quiet DEF SessionType
<1> QED BY <1>3, <1>4, <1>5, <1>6, <1>7, Copies DEF Safely

\* The calls that get through: the Labels probe, those for the keys, and those
\* of the run itself.
LEMMA CallsSafe ==
  ASSUME TokenInv, NEW p \in Procs, Probe(p) \/ CallForKeys(p) \/ SyncCalls(p)
  PROVE  Safely
<1> USE DEF TokenInv
<1> DEFINE kept == plan'[p] = plan[p] /\ pc'[p] # "write"
           given == plan'[p] \in {<< >>, PersistPlan, RefreshPlan}
                    /\ (pc'[p] = "write" => plan'[p] # << >>)
<1>1. /\ Reach(p) /\ pc[p] \in Using /\ keys' = keys /\ UNCHANGED <<rows, kc, cmd, box, seed>>
      /\ \A q \in Procs \ {p} : pc'[q] = pc[q] /\ plan'[q] = plan[q]
  BY Domains DEF Probe, CallForKeys, SyncCalls, Using, SessionType
<1>2. PICK cl \in Held : client' = [client EXCEPT ![p] = cl]
  BY <1>1, ReachType
<1>3. /\ \E step \in Steps : pc' = [pc EXCEPT ![p] = step] /\ step # "idle"
      /\ \E ops \in {plan[p], << >>, PersistPlan, RefreshPlan} : plan' = [plan EXCEPT ![p] = ops]
      /\ kept \/ given
  <2>1. CASE Probe(p)
    <3>1. AfterProbe(cmd[p]) \in {"write", "readKeyPass"}
      BY DEF AfterProbe
    <3>2. \E step \in {"write", "readKeyPass"} :
              pc' = [pc EXCEPT ![p] = step] /\ (step = "write" <=> AfterProbe(cmd[p]) = "write")
      BY <2>1, <3>1 DEF Probe
    <3>3. \E ops \in {<< >>, PersistPlan, RefreshPlan} :
              /\ plan' = [plan EXCEPT ![p] = ops]
              /\ AfterProbe(cmd[p]) = "write" => ops \in {PersistPlan, RefreshPlan}
      <4> DEFINE ops == CASE AfterProbe(cmd[p]) # "write" -> << >>
                          [] cmd[p] = "labels" -> PersistPlan
                          [] OTHER -> RefreshPlan
      <4>1. plan' = [plan EXCEPT ![p] = ops]
        BY <2>1 DEF Probe
      <4>2. ops \in {<< >>, PersistPlan, RefreshPlan}
            /\ (AfterProbe(cmd[p]) = "write" => ops \in {PersistPlan, RefreshPlan})
        <5>1. CASE AfterProbe(cmd[p]) # "write"
          BY <5>1, <3>1 DEF AfterProbe
        <5>2. CASE cmd[p] = "labels"
          BY <5>2 DEF AfterProbe
        <5>3. CASE AfterProbe(cmd[p]) = "write" /\ cmd[p] # "labels"
          BY <5>3
        <5> QED BY <5>1, <5>2, <5>3
      <4> HIDE DEF ops
      <4> QED BY <4>1, <4>2
    <3>4. given
      BY <3>2, <3>3, Domains, PlansFit DEF SessionType, Fit
    <3>5. {"write", "readKeyPass"} \subseteq Steps \ {"idle"}
      BY DEF Steps
    <3> QED BY <3>2, <3>3, <3>4, <3>5
  <2>2. CASE CallForKeys(p)
    <3>1. plan' = [plan EXCEPT ![p] = plan[p]]
      BY <2>2, KeepSame DEF CallForKeys, SessionType
    <3> QED BY <2>2, <3>1, Domains DEF CallForKeys, SessionType, Steps
  <2>3. CASE SyncCalls(p)
    <3>1. plan' = [plan EXCEPT ![p] = plan[p]] /\ pc' = [pc EXCEPT ![p] = pc[p]]
      BY <2>3, KeepSame DEF SyncCalls, SessionType
    <3> QED BY <2>3, <3>1, Domains DEF SyncCalls, SessionType, Steps
  <2> QED BY <2>1, <2>2, <2>3
<1>4. plan'[p] \in Seq(Ops) /\ OnceOnly(plan'[p]) /\ (pc'[p] = "write" => plan'[p] # << >>)
  <2>1. << >> \in Seq(Ops) /\ OnceOnly(<< >>)
    BY DEF OnceOnly
  <2>2. plan[p] \in Seq(Ops) /\ OnceOnly(plan[p])
    BY DEF SessionType, ProcType, SoleInv
  <2> QED BY <1>3, <2>1, <2>2, PlansFit DEF Fit
<1>5. ProcType'
  <2>1. PICK step \in Steps : pc' = [pc EXCEPT ![p] = step] /\ step # "idle"
    BY <1>3
  <2>2. PICK ops \in Seq(Ops) : plan' = [plan EXCEPT ![p] = ops]
    BY <1>3, <1>4, Domains DEF SessionType
  <2>3. pc'[p] = step /\ plan'[p] = ops /\ pc[p] # "idle"
    BY <1>1, <2>1, <2>2, Domains DEF SessionType, Using
  <2>4. /\ cmd' = [cmd EXCEPT ![p] = cmd[p]] /\ box' = [box EXCEPT ![p] = box[p]]
        /\ seed' = [seed EXCEPT ![p] = seed[p]]
    BY <1>1, KeepSame DEF SessionType
  <2>5. ProcType /\ (step = "write" => ops # << >>) /\ box[p] \in Ids
    BY <1>4, <2>3 DEF SessionType, ProcType
  <2> QED BY <1>2, <2>1, <2>2, <2>4, <2>5, KeepSame, MoveType
<1>6. CASE given
  <2>1. NoSets(plan'[p])
    BY <1>6, NoSetPlans DEF NoSets
  <2> QED BY <1>1, <1>4, <1>5, <2>1, ReachSafe
<1>7. CASE kept
  BY <1>1, <1>4, <1>5, <1>7, ReachSafe
<1> QED BY <1>3, <1>6, <1>7

\* A call that fails may have minted a token that nobody then holds.
LEMMA CallFailsSafe ==
  ASSUME TokenInv, NEW p \in Procs, CallForKeysFails(p) \/ Interrupt(p)
  PROVE  Safely
<1> USE DEF TokenInv
<1>1. /\ UNCHANGED <<keys, rows, kc>> /\ (GiveUp(p) \/ EndCommand(p)) /\ pc[p] # "idle"
      /\ gen' = gen \/ AnswerLost(p)
  BY DEF CallForKeysFails, CallFails, Interrupt
<1>2. ProcType' /\ StoreType'
  BY <1>1, GiveUpType, EndType, Quiet DEF SessionType
<1>3. CASE gen' = gen
  BY <1>1, <1>2, <1>3, Quiet, GiveUpSafe, EndSafe
<1>4. CASE CanRotate(p) /\ gen' = [gen EXCEPT ![client[p].uid] = @ + 1]
  <2> DEFINE s == client[p].uid
  <2>1. s \in Sessions /\ \A q \in Procs \ {p} : WillStore(q) => client[q].refresh.sess # s
    BY <1>4, RotatesAlone
  <2>2. SessionType'
    BY <1>1, <1>2, <1>4, <2>1, MintType DEF SessionType
  <2>3. /\ OnlyMoves(p) /\ pc'[p] \in {"idle", "flag"}
        /\ seed'[p].refresh \in {seed[p].refresh, NoToken}
        /\ client'[p].refresh \in {client[p].refresh, NoToken}
        /\ plan'[p] \in {plan[p], << >>}
    BY <1>1, Domains, EmptyTypes
    DEF SessionType, GiveUp, AfterRefusal, EndCommand, Proceed, OnlyMoves
  <2>4. ~WillStore(p)'
    BY <2>3 DEF WillStore, Using
  <2>5. OnceOnly(plan'[p])
    BY <2>3 DEF SoleInv, OnceOnly
  <2> QED BY <1>1, <1>4, <2>1, <2>2, <2>3, <2>4, <2>5, Mints DEF Safely
<1> QED BY <1>1, <1>3, <1>4 DEF AnswerLost

\* So may one of the run itself, and the client goes on with what it had.
LEMMA SyncCallFailsSafe ==
  ASSUME TokenInv, NEW p \in Procs, SyncCallFails(p)
  PROVE  Safely
<1> USE DEF TokenInv
<1> DEFINE s == client[p].uid
<1>1. /\ UNCHANGED <<keys, rows, kc, procs>>
      /\ CanRotate(p) /\ gen' = [gen EXCEPT ![s] = @ + 1]
  BY DEF SyncCallFails, AnswerLost
<1>2. s \in Sessions /\ \A q \in Procs \ {p} : WillStore(q) => client[q].refresh.sess # s
  BY <1>1, RotatesAlone
<1>3. SessionType'
  BY <1>1, <1>2, MintType, Quiet DEF SessionType, ProcType, procs
<1>4. ~NoneLost /\ OnlyMoves(p) /\ (WillStore(p)' => WillStore(p)) /\ OnceOnly(plan'[p])
  BY <1>1 DEF SyncCallFails, Disturb, NoneLost, OnlyMoves, WillStore, SoleInv, procs
<1>5. seed'[p] = seed[p] /\ client'[p] = client[p] /\ kc' = kc
  BY <1>1 DEF procs
<1> QED BY <1>1, <1>2, <1>3, <1>4, <1>5, Mints DEF Safely

\* A client in use gets other credentials.
LEMMA KeyedType ==
  ASSUME ProcType, NEW p \in Procs, pc[p] # "idle", NEW step \in Steps \ {"write"},
         NEW cl \in Held, pc' = [pc EXCEPT ![p] = step], UNCHANGED <<cmd, box, seed, plan>>,
         client' = [client EXCEPT ![p] = cl]
  PROVE  ProcType'
<1>1. step \in Steps /\ step # "write"
  OBVIOUS
<1>2. /\ cmd[p] \in Commands \union {"none", "cleanup"} /\ box[p] \in Ids /\ seed[p] \in Held
      /\ plan[p] \in Seq(Ops)
  BY KeepSame
<1> QED BY <1>1, <1>2 DEF ProcType

\* Opening the keyrings does not touch the tokens.
LEMMA AfterUnlockSafe ==
  ASSUME TokenInv, NEW p \in Procs, AfterUnlock(p), pc[p] \in Using,
         NEW cl \in Held, client' = [client EXCEPT ![p] = cl], cl.refresh = client[p].refresh,
         ProtonType', StoreType', gen' = gen,
         \A id \in Ids : kc'[id].refresh \in {kc[id].refresh, NoToken}
  PROVE  Safely
<1> USE DEF TokenInv
<1>1. CASE BeginWrites(p, RefreshPlan)
  BY <1>1, PlansFit, NoSetPlans, WritesSafe
<1>2. CASE pc' = [pc EXCEPT ![p] = "sync"] /\ UNCHANGED <<cmd, box, seed, plan>>
  <2>1. "sync" \in Steps /\ "sync" \in Using /\ pc[p] # "idle"
    BY DEF Steps, Using
  <2>2. ProcType'
    <3>1. "sync" \in Steps \ {"write"}
      BY DEF Steps
    <3> QED BY <1>2, <2>1, <3>1, KeyedType DEF SessionType
  <2>3. /\ OnlyMoves(p) /\ pc'[p] = "sync" /\ seed'[p] = seed[p] /\ client'[p] = cl
        /\ plan'[p] = plan[p]
    BY <1>2, Domains DEF SessionType, OnlyMoves
  <2>4. WillStore(p)' => WillStore(p)
    BY <2>3 DEF WillStore
  <2>5. OnceOnly(plan'[p])
    BY <2>3 DEF SoleInv
  <2>6. SessionType'
    BY <2>2 DEF SessionType
  <2> QED BY <2>3, <2>4, <2>5, <2>6, Copies DEF Safely
<1> QED BY <1>1, <1>2 DEF AfterUnlock

\* A client's key passes are versions of the account's keys.
LEMMA UnlockedType ==
  ASSUME SessionType, NEW p \in Procs, Unlocked(p)
  PROVE  \E cl \in Held :
            client' = [client EXCEPT ![p] = cl] /\ cl.refresh = client[p].refresh
<1> DEFINE cl == [client[p] EXCEPT !.keypass = keys.keypass, !.unlocked = keys.keypass]
<1>1. client[p] \in Held /\ keys.keypass \in Nat
  BY DEF SessionType, ProcType, ProtonType
<1>2. cl \in Held /\ cl.refresh = client[p].refresh
  BY <1>1 DEF Held
<1>3. client' = [client EXCEPT ![p] = cl]
  BY DEF Unlocked
<1> QED BY <1>2, <1>3

\* sync and auth refresh unlock, with the stored key pass or the passphrase.
LEMMA UnlocksSafe ==
  ASSUME TokenInv, NEW p \in Procs, UnlockWithKeyPass(p) \/ Unlock(p) \/ StoreKeyPass(p)
  PROVE  Safely
<1> USE DEF TokenInv
<1>1. /\ pc[p] \in Using /\ pc[p] # "idle" /\ UNCHANGED <<gen, keys, rows>>
      /\ "readPassphrase" \in Steps \ {"write"} /\ "heal" \in Steps /\ "heal" \in Using
  BY DEF UnlockWithKeyPass, Unlock, StoreKeyPass, Using, Steps, proton
<1>2. ProtonType'
  BY <1>1, Quiet
<1>3. CASE kc' = kc /\ (GiveUp(p) \/ Proceed(p, "readPassphrase"))
  BY <1>1, <1>2, <1>3, Quiet, GiveUpSafe, ProceedSafe
<1>4. CASE kc' = kc /\ Unlocked(p) /\ AfterUnlock(p)
  BY <1>1, <1>2, <1>4, Quiet, UnlockedType, AfterUnlockSafe
<1>5. CASE kc' = kc /\ Unlocked(p) /\ pc' = [pc EXCEPT ![p] = "heal"]
           /\ UNCHANGED <<cmd, box, seed, plan>>
  <2>1. PICK cl \in Held :
            client' = [client EXCEPT ![p] = cl] /\ cl.refresh = client[p].refresh
    BY <1>5, UnlockedType
  <2>2. ProcType'
    <3>1. "heal" \in Steps \ {"write"}
      BY DEF Steps
    <3> QED BY <1>1, <1>5, <2>1, <3>1, KeyedType DEF SessionType
  <2>3. /\ OnlyMoves(p) /\ pc'[p] = "heal" /\ seed'[p] = seed[p] /\ client'[p] = cl
        /\ plan'[p] = plan[p]
    BY <1>5, <2>1, Domains DEF SessionType, OnlyMoves
  <2>4. WillStore(p)' => WillStore(p)
    BY <1>1, <2>1, <2>3 DEF WillStore
  <2>5. OnceOnly(plan'[p])
    BY <2>3 DEF SoleInv
  <2>6. SessionType'
    BY <1>1, <1>5, <2>2, Quiet DEF SessionType
  <2> QED BY <1>1, <1>5, <2>1, <2>3, <2>4, <2>5, <2>6, Copies DEF Safely
<1>6. CASE StoreKeyPass(p)
  <2>1. client[p] \in Held /\ client' = [client EXCEPT ![p] = client[p]] /\ box[p] \in Ids
    BY <1>1, <1>6, KeepSame DEF StoreKeyPass, SessionType
  <2>2. StoreType' /\ \A id \in Ids : kc'[id].refresh = kc[id].refresh
    <3>1. client[p].keypass \in Nat /\ kc \in [Ids -> Secrets]
      BY <2>1 DEF Held, SessionType, StoreType
    <3>2. kc' = kc \/ kc' = [kc EXCEPT ![box[p]].keypass = client[p].keypass]
      BY <1>6 DEF StoreKeyPass
    <3>3. kc' \in [Ids -> Secrets] /\ \A id \in Ids : kc'[id].refresh = kc[id].refresh
      BY <2>1, <3>1, <3>2 DEF Secrets
    <3> QED BY <1>1, <3>3 DEF SessionType, StoreType
  <2>3. AfterUnlock(p)
    BY <1>6 DEF StoreKeyPass
  <2> QED BY <1>1, <1>2, <2>1, <2>2, <2>3, AfterUnlockSafe
<1> QED BY <1>3, <1>4, <1>5, <1>6 DEF UnlockWithKeyPass, Unlock

\* A run that ends writes what it rotated.
LEMMA SyncEndsSafe ==
  ASSUME TokenInv, NEW p \in Procs, SyncEnds(p)
  PROVE  Safely
<1> USE DEF TokenInv
<1>1. /\ UNCHANGED <<gen, keys, rows, kc, client>> /\ BeginWrites(p, PersistPlan)
      /\ pc[p] \in Using
  BY DEF SyncEnds, proton, Using
<1>2. client[p] \in Held /\ client' = [client EXCEPT ![p] = client[p]]
  BY <1>1, KeepSame DEF SessionType
<1> QED BY <1>1, <1>2, Quiet, PlansFit, NoSetPlans, WritesSafe

\* A login mints a new session's first token, which is written back later.
LEMMA LoginSafe ==
  ASSUME TokenInv, NEW p \in Procs, Login(p)
  PROVE  Safely
<1> USE DEF TokenInv
<1>1. PICK s \in Sessions :
        /\ gen[s] = 0 /\ gen' = [gen EXCEPT ![s] = 1]
        /\ \/ EndCommand(p)
           \/ /\ client' = [client EXCEPT ![p] =
                    [uid |-> s, refresh |-> [sess |-> s, gen |-> 1],
                     access |-> [sess |-> s, gen |-> 1], passphrase |-> keys.passphrase,
                     keypass |-> keys.keypass, unlocked |-> keys.keypass]]
              /\ BeginWrites(p, IF cmd[p] = "add" THEN AddPlan ELSE WriteSecrets)
  BY DEF Login
<1>2. /\ UNCHANGED <<keys, rows, kc>> /\ pc[p] # "idle" /\ pc[p] = "login"
      /\ gen' = [gen EXCEPT ![s] = @ + 1] /\ NextToken(s) = [sess |-> s, gen |-> 1]
  <2>1. UNCHANGED <<keys, rows, kc>> /\ pc[p] = "login"
    BY DEF Login
  <2>2. gen[s] + 1 = 1
    BY <1>1
  <2>3. gen' = [gen EXCEPT ![s] = gen[s] + 1] /\ NextToken(s) = [sess |-> s, gen |-> 1]
    BY <1>1, <2>2 DEF NextToken
  <2> QED BY <2>1, <2>3
<1>3. ProtonType' /\ StoreType' /\ NextToken(s) \in AnyToken /\ ProcType
  BY <1>2, MintType, Quiet DEF SessionType
<1>4. \A q \in Procs \ {p} : WillStore(q) => client[q].refresh.sess # s
  <2>1. \A q \in Procs : WillStore(q) => Sole(q)
    BY DEF SoleInv
  <2>2. \A q \in Procs : Minted(client[q].refresh) /\ client[q].refresh \in AnyToken
    BY TokenTypes DEF MintedInv
  <2>3. ASSUME NEW q \in Procs \ {p}, WillStore(q), client[q].refresh.sess = s
        PROVE  FALSE
    <3>1. client[q].refresh # NoToken
      BY <2>1, <2>3, TokenTypes DEF Sole
    <3>2. client[q].refresh.gen \in 1..gen[s]
      BY <2>2, <2>3, <3>1 DEF Minted
    <3> QED BY <1>1, <3>2
  <2> QED BY <2>3
<1>5. CASE EndCommand(p)
  <2>1. ProcType'
    BY <1>3, <1>5, EndType
  <2>2. /\ OnlyMoves(p) /\ pc'[p] = "idle" /\ seed'[p] = NoClient /\ client'[p] = NoClient
        /\ plan'[p] = << >>
    BY <1>3, <1>5, Domains DEF EndCommand, OnlyMoves
  <2>3. ~WillStore(p)'
    BY <2>2 DEF WillStore, Using
  <2>4. OnceOnly(plan'[p])
    BY <2>2 DEF OnceOnly
  <2>5. SessionType'
    BY <1>3, <2>1 DEF SessionType
  <2> QED BY <1>2, <1>4, <2>2, <2>3, <2>4, <2>5, EmptyTypes, Mints DEF Safely
<1>6. ASSUME NEW ops \in {AddPlan, WriteSecrets}, BeginWrites(p, ops),
             NEW cl, client' = [client EXCEPT ![p] = cl],
             cl = [uid |-> s, refresh |-> [sess |-> s, gen |-> 1],
                   access |-> [sess |-> s, gen |-> 1], passphrase |-> keys.passphrase,
                   keypass |-> keys.keypass, unlocked |-> keys.keypass]
      PROVE  Safely
  <2>1. cl \in Held /\ cl.refresh = NextToken(s)
    <3>1. s \in Uids /\ keys.passphrase \in Nat /\ keys.keypass \in Nat
      BY TokenTypes DEF SessionType, ProtonType
    <3> QED BY <1>2, <1>3, <1>6, <3>1 DEF Held
  <2>2. Fit(ops)
    BY PlansFit
  <2>3. ProcType'
    BY <1>2, <1>3, <1>6, <2>1, <2>2, WritesType
  <2>4. /\ OnlyMoves(p) /\ seed'[p] = seed[p] /\ client'[p] = cl /\ plan'[p] = ops
    BY <1>3, <1>6, Domains DEF BeginWrites, OnlyMoves
  <2>5. OnceOnly(plan'[p])
    BY <2>2, <2>4 DEF Fit
  <2>6. SessionType'
    BY <1>3, <2>3 DEF SessionType
  <2> QED BY <1>2, <1>4, <2>1, <2>4, <2>5, <2>6, Mints DEF Safely
<1> QED BY <1>1, <1>5, <1>6

\* Flagging the mailbox ends the command, or sends the operator to log in.
LEMMA FlagSafe ==
  ASSUME TokenInv, NEW p \in Procs, Flag(p)
  PROVE  Safely
<1> USE DEF TokenInv
<1>1. /\ UNCHANGED <<gen, keys, kc>> /\ pc[p] # "idle" /\ SessionType
      /\ Proceed(p, "login") \/ EndCommand(p)
      /\ rows' = rows \/ rows' = [rows EXCEPT ![box[p]].state = "needs_reauth"]
  BY DEF Flag, proton
<1>2. StoreType'
  <2>1. box[p] \in Ids /\ rows \in [Ids -> [state : States, user : BOOLEAN, uid : Uids]]
    BY <1>1 DEF SessionType, ProcType, StoreType
  <2>2. "needs_reauth" \in States
    BY DEF States
  <2>3. \A r \in [state : States, user : BOOLEAN, uid : Uids] :
            [r EXCEPT !.state = "needs_reauth"] \in [state : States, user : BOOLEAN, uid : Uids]
    BY <2>2
  <2>4. rows' \in [Ids -> [state : States, user : BOOLEAN, uid : Uids]]
    BY <1>1, <2>1, <2>3
  <2> QED BY <1>1, <2>4 DEF SessionType, StoreType
<1>3. "login" \in Steps \ {"write"} /\ "login" \notin Using
  BY DEF Steps, Using
<1> QED BY <1>1, <1>2, <1>3, Quiet, EndSafe, ProceedSafe

\* The command stops.
LEMMA StopsSafe ==
  ASSUME TokenInv, NEW p \in Procs, LoginFails(p) \/ Crash(p)
  PROVE  Safely
<1>1. UNCHANGED <<gen, keys, rows, kc>> /\ EndCommand(p) /\ SessionType
  BY DEF LoginFails, Crash, proton, TokenInv
<1> QED BY <1>1, Quiet, EndSafe

\* Proton and the operator leave every copy of a token where it is.
LEMMA OutsideSafe ==
  ASSUME TokenInv, UNCHANGED <<gen, rows, kc, procs>>,
         keys' = keys \/ keys' \in [passphrase : Nat, keypass : Nat]
  PROVE  Safely
<1> USE DEF TokenInv
<1>1. UNCHANGED <<gen, rows, kc, pc, cmd, box, seed, client, plan>>
  BY DEF procs
<1>2. SessionType'
  BY <1>1 DEF SessionType, ProtonType, StoreType, ProcType
<1>3. MintedInv'
  BY <1>1 DEF MintedInv, Minted
<1>4. SoleInv'
  BY <1>1 DEF SoleInv, OnceOnly, WillStore, Sole
<1>5. Forward
  BY <1>1, TokenTypes DEF Forward
<1> QED BY <1>2, <1>3, <1>4, <1>5 DEF Safely

-----------------------------------------------------------------------------
(* The writes.                                                             *)

\* What is left of a plan after its first write.
LEMMA Rest ==
  ASSUME NEW s \in Seq(Ops), s # << >>
  PROVE  /\ Head(s) = s[1] /\ Head(s) \in Ops /\ Tail(s) \in Seq(Ops) /\ 1 \in 1..Len(s)
         /\ \A i \in 1..Len(Tail(s)) : i + 1 \in 1..Len(s) /\ Tail(s)[i] = s[i + 1]
         /\ OnceOnly(s) => OnceOnly(Tail(s))
         /\ OnceOnly(s) /\ StoresRefresh(Head(s)) => NeverStores(Tail(s))
<1>1. /\ Head(s) = s[1] /\ Head(s) \in Ops /\ Tail(s) \in Seq(Ops) /\ 1 \in 1..Len(s)
      /\ Len(Tail(s)) = Len(s) - 1 /\ Len(s) \in Nat
  OBVIOUS
<1>2. \A i \in 1..Len(Tail(s)) : i + 1 \in 1..Len(s) /\ Tail(s)[i] = s[i + 1] /\ i + 1 # 1
  BY <1>1
<1>3. ASSUME OnceOnly(s)
      PROVE  OnceOnly(Tail(s))
  <2>1. ASSUME NEW i \in 1..Len(Tail(s)), NEW j \in 1..Len(Tail(s)),
               StoresRefresh(Tail(s)[i]), StoresRefresh(Tail(s)[j])
        PROVE  i = j
    <3>1. i + 1 = j + 1
      BY <1>2, <1>3, <2>1 DEF OnceOnly
    <3> QED BY <3>1
  <2> QED BY <2>1 DEF OnceOnly
<1>4. ASSUME OnceOnly(s), StoresRefresh(Head(s)), NEW i \in 1..Len(Tail(s))
      PROVE  ~StoresRefresh(Tail(s)[i])
  BY <1>1, <1>2, <1>4 DEF OnceOnly
<1> QED BY <1>1, <1>2, <1>3, <1>4 DEF NeverStores

\* ops stores no token that p's plan would not have stored.
LeftOver(p, ops) ==
    \A i \in 1..Len(ops) :
        StoresRefresh(ops[i]) => \E j \in 1..Len(plan[p]) : plan[p][j] = ops[i]

LEMMA ContinueType ==
  ASSUME ProcType, NEW p \in Procs, pc[p] = "write", NEW c \in Commands \union {"none", "cleanup"},
         NEW ops \in Seq(Ops), ContinueWith(p, c, ops)
  PROVE  /\ ProcType' /\ OnlyMoves(p)
         /\ \/ EndCommand(p)
            \/ /\ pc'[p] = "write" /\ plan'[p] = ops
               /\ seed'[p] = seed[p] /\ client'[p] = client[p]
<1>1. CASE EndCommand(p)
  <2>1. OnlyMoves(p)
    BY <1>1, Domains DEF EndCommand, OnlyMoves
  <2> QED BY <1>1, <2>1, EndType
<1>2. CASE /\ ops # << >> /\ plan' = [plan EXCEPT ![p] = ops]
           /\ cmd' = [cmd EXCEPT ![p] = c] /\ UNCHANGED <<pc, box, seed, client>>
  <2>1. ProcType'
    BY <1>2 DEF ProcType
  <2>2. /\ OnlyMoves(p) /\ pc'[p] = "write" /\ plan'[p] = ops
        /\ seed'[p] = seed[p] /\ client'[p] = client[p]
    BY <1>2, Domains DEF OnlyMoves
  <2> QED BY <2>1, <2>2
<1> QED BY <1>1, <1>2 DEF ContinueWith

\* Writes go on, and no token was stored.
LEMMA ContinueSafe ==
  ASSUME TokenInv, NEW p \in Procs, pc[p] = "write", NEW c \in Commands \union {"none", "cleanup"},
         NEW ops \in Seq(Ops), OnceOnly(ops), LeftOver(p, ops), ContinueWith(p, c, ops),
         ProtonType', StoreType', gen' = gen,
         \A id \in Ids : kc'[id].refresh \in {kc[id].refresh, NoToken}
  PROVE  Safely
<1> USE DEF TokenInv
<1>1. ProcType' /\ OnlyMoves(p) /\ SessionType'
  BY ContinueType DEF SessionType
<1>2. CASE EndCommand(p)
  BY <1>2, EndSafe
<1>3. CASE /\ pc'[p] = "write" /\ plan'[p] = ops
           /\ seed'[p] = seed[p] /\ client'[p] = client[p]
  <2>1. WillStore(p)' => WillStore(p)
    <3>1. ASSUME WillStore(p)'
          PROVE  WillStore(p)
      <4>1. PICK i \in 1..Len(ops) :
              \/ ops[i] = <<"set", "refresh">>
              \/ ops[i] = <<"rotate", "refresh">> /\ client[p].refresh # seed[p].refresh
        BY <1>3, <3>1 DEF WillStore, Using
      <4>2. PICK j \in 1..Len(plan[p]) : plan[p][j] = ops[i]
        BY <4>1 DEF LeftOver, StoresRefresh
      <4> QED BY <4>1, <4>2 DEF WillStore
    <3> QED BY <3>1
  <2>2. OnceOnly(plan'[p])
    BY <1>3
  <2> QED BY <1>1, <1>3, <2>1, <2>2, Copies DEF Safely
<1> QED BY <1>2, <1>3, ContinueType DEF SessionType

\* Whatever a failed write leaves to do, it stores no other token.
LEMMA AfterFailureFits ==
  ASSUME SessionType, NEW p \in Procs, plan[p] # << >>, OnceOnly(plan[p]), NEW c
  PROVE  LET ops == AfterFailure(c, Head(plan[p]), Tail(plan[p]))
         IN  ops \in Seq(Ops) /\ OnceOnly(ops) /\ LeftOver(p, ops)
<1> DEFINE rest == Tail(plan[p])  mark == << <<"row", "needs_reauth">> >>
           drop == << <<"row", "drop">> >>
           Good(ops) == ops \in Seq(Ops) /\ OnceOnly(ops) /\ LeftOver(p, ops)
<1>1. plan[p] \in Seq(Ops)
  BY DEF SessionType, ProcType
<1>2. Good(rest)
  <2>1. rest \in Seq(Ops) /\ OnceOnly(rest)
    BY <1>1, Rest
  <2>2. LeftOver(p, rest)
    BY <1>1, Rest DEF LeftOver
  <2> QED BY <2>1, <2>2
<1>3. \A ops \in Seq(Ops) : NeverStores(ops) => Good(ops)
  BY DEF NeverStores, OnceOnly, LeftOver
<1>4. mark \in Seq(Ops) /\ NeverStores(mark) /\ drop \in Seq(Ops) /\ NeverStores(drop)
      /\ << >> \in Seq(Ops) /\ NeverStores(<< >>)
  <2>1. <<"row", "needs_reauth">> \in Ops /\ <<"row", "drop">> \in Ops
    BY DEF Ops
  <2>2. ~StoresRefresh(<<"row", "needs_reauth">>) /\ ~StoresRefresh(<<"row", "drop">>)
    BY DEF StoresRefresh
  <2> QED BY <2>1, <2>2 DEF NeverStores
<1>5. Good(mark \o rest)
  <2>1. mark \o rest \in Seq(Ops) /\ OnceOnly(mark \o rest)
    BY <1>2, <1>4, OnceAfter
  <2>2. /\ Len(mark \o rest) = Len(rest) + 1
        /\ \A i \in 1..Len(mark \o rest) :
               (mark \o rest)[i] = IF i <= 1 THEN mark[1] ELSE rest[i - 1]
    <3>1. Len(mark) = 1 /\ Len(rest) \in Nat
      BY <1>2
    <3>2. /\ Len(mark \o rest) = Len(mark) + Len(rest)
          /\ \A i \in 1..Len(mark) + Len(rest) :
                 (mark \o rest)[i] = IF i <= Len(mark) THEN mark[i] ELSE rest[i - Len(mark)]
      BY <1>2, <1>4, ConcatProperties
    <3> QED BY <3>1, <3>2
  <2>3. ~StoresRefresh(mark[1])
    BY <1>4 DEF NeverStores
  <2>4. ASSUME NEW i \in 1..Len(mark \o rest), StoresRefresh((mark \o rest)[i])
        PROVE  \E j \in 1..Len(plan[p]) : plan[p][j] = (mark \o rest)[i]
    <3>1. i > 1 /\ (mark \o rest)[i] = rest[i - 1] /\ i - 1 \in 1..Len(rest)
      BY <1>2, <2>2, <2>3, <2>4
    <3> QED BY <1>2, <2>4, <3>1 DEF LeftOver
  <2> QED BY <2>1, <2>4 DEF LeftOver
<1>6. Good(RemovePlan) /\ Good(mark) /\ Good(drop) /\ Good(<< >>)
  <2>1. RemovePlan \in Seq(Ops)
    BY PlansFit DEF Fit
  <2> QED BY <1>3, <1>4, <2>1, NoSetPlans
<1>7. AfterFailure(c, Head(plan[p]), rest) \in {rest, mark \o rest, RemovePlan, mark, drop, << >>}
  BY DEF AfterFailure
<1> HIDE DEF rest, mark, drop
<1> QED BY <1>2, <1>5, <1>6, <1>7 DEF rest

\* A failed write leaves what is stored as it was.
LEMMA WriteFailsSafe ==
  ASSUME TokenInv, NEW p \in Procs, WriteFails(p)
  PROVE  Safely
<1> DEFINE op == Head(plan[p])  c == CommandAfterFailure(cmd[p], op)
           ops == AfterFailure(cmd[p], op, Tail(plan[p]))
<1>1. /\ pc[p] = "write" /\ ContinueWith(p, c, ops) /\ UNCHANGED <<gen, keys, rows, kc>>
  BY DEF WriteFails, proton
<1>2. SessionType /\ plan[p] # << >> /\ OnceOnly(plan[p])
  BY <1>1 DEF TokenInv, SessionType, ProcType, SoleInv
<1>3. ops \in Seq(Ops) /\ OnceOnly(ops) /\ LeftOver(p, ops)
  BY <1>2, AfterFailureFits
<1>4. c \in Commands \union {"none", "cleanup"}
  BY <1>2 DEF CommandAfterFailure, SessionType, ProcType
<1> HIDE DEF c, ops
<1> QED BY <1>1, <1>2, <1>3, <1>4, Quiet, ContinueSafe

\* What a write makes of the row.
LEMMA RowType ==
  ASSUME SessionType, NEW p \in Procs, box[p] \in Ids, NEW op \in Ops, Stores(p, op)
  PROVE  RowAfter(p, op) \in [state : States, user : BOOLEAN, uid : Uids]
<1> DEFINE Row == [state : States, user : BOOLEAN, uid : Uids]  r == rows[box[p]]
<1>1. r \in Row /\ client[p].uid \in Uids /\ NoRow \in Row
  BY EmptyTypes DEF SessionType, StoreType, ProcType, Held
<1>2. op[2] \in {"insert", "user", "uid", "active", "needs_reauth", "drop"}
  BY DEF Stores, Ops, Kinds
<1>3. /\ "active" \in States /\ "needs_reauth" \in States /\ "pending_auth" \in States
      /\ TRUE \in BOOLEAN
  BY Zenon DEF States
<1>4. /\ \A st \in States : [NoRow EXCEPT !.state = st] \in Row /\ [r EXCEPT !.state = st] \in Row
      /\ \A u \in Uids : [r EXCEPT !.uid = u] \in Row
      /\ [r EXCEPT !.user = TRUE, !.state = "active"] \in Row
  BY <1>1, <1>3
<1> SUFFICES RowAfter(p, op) \in Row
  OBVIOUS
<1> HIDE DEF Row
<1>5. CASE op[2] = "insert"
  BY <1>3, <1>4, <1>5 DEF RowAfter
<1>6. CASE op[2] = "user"
  BY <1>4, <1>6 DEF RowAfter
<1>7. CASE op[2] = "uid"
  BY <1>1, <1>4, <1>7 DEF RowAfter
<1>8. CASE op[2] \in {"active", "needs_reauth"}
  BY <1>3, <1>4, <1>8 DEF RowAfter
<1>9. CASE op[2] = "drop"
  BY <1>1, <1>9 DEF RowAfter
<1> QED BY <1>2, <1>5, <1>6, <1>7, <1>8, <1>9

\* What a write makes of a secret: the client's, or none.
LEMMA SecretType ==
  ASSUME SessionType, NEW p \in Procs, NEW op \in Ops, UsesKeychain(p, op), NEW r \in Secrets
  PROVE  /\ [r EXCEPT ![op[2]] = SecretAfter(p, op)] \in Secrets
         /\ [r EXCEPT ![op[2]] = SecretAfter(p, op)].refresh =
                IF op = <<"delete", "refresh">> THEN NoToken
                ELSE IF op[2] = "refresh" THEN client[p].refresh ELSE r.refresh
         /\ op[2] = "refresh" => op \in {<<"delete", "refresh">>, <<"set", "refresh">>}
                \/ (op = <<"rotate", "refresh">> /\ client[p].refresh # seed[p].refresh)
<1>1. op[2] \in Kinds /\ op[1] \in {"set", "delete", "rotate"} /\ op = <<op[1], op[2]>>
  BY DEF UsesKeychain, Ops, Kinds
<1>2. /\ client[p].refresh \in AnyToken /\ client[p].access \in AnyToken
      /\ client[p].passphrase \in Nat /\ client[p].keypass \in Nat
      /\ NoSecrets.refresh = NoToken /\ NoSecrets.access = NoToken
      /\ NoSecrets.passphrase = 0 /\ NoSecrets.keypass = 0 /\ NoToken \in AnyToken
  BY EmptyTypes DEF SessionType, ProcType, Held, NoSecrets
<1>3. CASE op[2] = "refresh"
  BY <1>1, <1>2, <1>3 DEF SecretAfter, Secrets, UsesKeychain, Rotated
<1>4. CASE op[2] = "access"
  BY <1>1, <1>2, <1>4 DEF SecretAfter, Secrets
<1>5. CASE op[2] = "passphrase"
  BY <1>1, <1>2, <1>5 DEF SecretAfter, Secrets
<1>6. CASE op[2] = "keypass"
  BY <1>1, <1>2, <1>6 DEF SecretAfter, Secrets
<1> QED BY <1>1, <1>3, <1>4, <1>5, <1>6 DEF Kinds

\* A write stores the latest token of a session, once, or leaves tokens alone.
LEMMA WriteSafe ==
  ASSUME TokenInv, NEW p \in Procs, Write(p)
  PROVE  Safely
<1> USE DEF TokenInv
<1> DEFINE op == Head(plan[p])  rest == Tail(plan[p])  b == box[p]
<1>1. /\ pc[p] = "write" /\ ContinueWith(p, cmd[p], rest) /\ UNCHANGED <<gen, keys>>
      /\ rows' = IF Stores(p, op) THEN [rows EXCEPT ![b] = RowAfter(p, op)] ELSE rows
      /\ kc' = IF UsesKeychain(p, op) THEN [kc EXCEPT ![b][op[2]] = SecretAfter(p, op)] ELSE kc
  BY DEF Write, proton
<1>2. /\ SessionType /\ ProcType /\ plan[p] # << >> /\ plan[p] \in Seq(Ops) /\ OnceOnly(plan[p])
      /\ b \in Ids /\ cmd[p] \in Commands \union {"none", "cleanup"}
      /\ kc \in [Ids -> Secrets]
  BY <1>1 DEF SessionType, ProcType, StoreType, SoleInv
<1>3. op \in Ops /\ rest \in Seq(Ops) /\ OnceOnly(rest)
  BY <1>2, Rest
<1>4. LeftOver(p, rest)
  BY <1>2, Rest DEF LeftOver
<1>5. ProtonType'
  BY <1>1, <1>2, Quiet
<1> HIDE DEF op, rest, b
<1>6. StoreType'
  <2>1. rows' \in [Ids -> [state : States, user : BOOLEAN, uid : Uids]]
    BY <1>1, <1>2, <1>3, RowType DEF StoreType, SessionType, b
  <2>2. kc' \in [Ids -> Secrets]
    BY <1>1, <1>2, <1>3, SecretType
  <2> QED BY <2>1, <2>2 DEF StoreType
<1>7. CASE ~(UsesKeychain(p, op) /\ op[2] = "refresh") \/ op = <<"delete", "refresh">>
  <2>1. \A id \in Ids : kc'[id].refresh \in {kc[id].refresh, NoToken}
    BY <1>1, <1>2, <1>3, <1>7, SecretType
  <2> QED BY <1>1, <1>2, <1>3, <1>4, <1>5, <1>6, <2>1, ContinueSafe
<1>8. CASE UsesKeychain(p, op) /\ op[2] = "refresh" /\ op # <<"delete", "refresh">>
  <2>1. \/ op = <<"set", "refresh">>
        \/ op = <<"rotate", "refresh">> /\ client[p].refresh # seed[p].refresh
    BY <1>2, <1>3, <1>8, SecretType
  <2>2. StoresRefresh(op)
    BY <2>1 DEF StoresRefresh
  <2>3. WillStore(p)
    BY <1>1, <1>2, <2>1, Rest DEF WillStore, op
  <2>4. NeverStores(rest)
    BY <1>2, <2>2, Rest DEF op, rest
  <2>5. /\ ProcType' /\ OnlyMoves(p)
        /\ \/ EndCommand(p)
           \/ /\ pc'[p] = "write" /\ plan'[p] = rest
              /\ seed'[p] = seed[p] /\ client'[p] = client[p]
    BY <1>1, <1>2, <1>3, ContinueType
  <2>6. \/ pc'[p] = "idle" /\ seed'[p] = NoClient /\ client'[p] = NoClient /\ plan'[p] = << >>
        \/ pc'[p] = "write" /\ plan'[p] = rest /\ seed'[p] = seed[p] /\ client'[p] = client[p]
    BY <1>2, <2>5, Domains DEF EndCommand
  <2>7. ~WillStore(p)'
    BY <2>4, <2>6 DEF WillStore, Using, NeverStores, StoresRefresh
  <2>8. OnceOnly(plan'[p])
    BY <1>3, <2>6 DEF OnceOnly
  <2>9. /\ seed'[p].refresh \in {seed[p].refresh, NoToken}
        /\ client'[p].refresh \in {client[p].refresh, NoToken}
    BY <2>6, EmptyTypes
  <2>10. \A id \in Ids : kc'[id].refresh = IF id = b THEN client[p].refresh ELSE kc[id].refresh
    BY <1>1, <1>2, <1>3, <1>8, SecretType
  <2>11. SessionType'
    BY <1>5, <1>6, <2>5 DEF SessionType
  <2> QED BY <1>1, <1>2, <2>3, <2>5, <2>7, <2>8, <2>9, <2>10, <2>11, Stored DEF Safely
<1> QED BY <1>7, <1>8

-----------------------------------------------------------------------------

\* A mailbox added before the first step holds its session's only token.
LEMMA InitTokens == Init => TokenInv
<1> SUFFICES ASSUME Init
             PROVE  TokenInv
  OBVIOUS
<1>1. /\ gen = [s \in Sessions |-> IF s = 1 /\ Added # {} THEN 1 ELSE 0]
      /\ keys = [passphrase |-> 1, keypass |-> 1]
      /\ rows = [id \in Ids |-> IF id \in Added THEN AddedRow ELSE NoRow]
      /\ kc = [id \in Ids |-> IF id \in Added THEN AddedSecrets ELSE NoSecrets]
      /\ pc = [p \in Procs |-> "idle"] /\ cmd = [p \in Procs |-> "none"]
      /\ box = [p \in Procs |-> "none"] /\ seed = [p \in Procs |-> NoClient]
      /\ client = [p \in Procs |-> NoClient] /\ plan = [p \in Procs |-> << >>]
  BY DEF Init
<1>2. ProtonType /\ ProcType
  <2>1. "idle" \in Steps /\ << >> \in Seq(Ops)
    BY DEF Steps
  <2> QED BY <1>1, <2>1, EmptyTypes DEF ProtonType, ProcType
<1>3. Added # {} => 1 \in Sessions /\ 1 \in Uids /\ gen[1] = 1
  BY <1>1, SessionBounds DEF Sessions, Uids
<1>4. ASSUME Added # {}
      PROVE  /\ AddedSecrets \in Secrets /\ Minted(AddedSecrets.refresh)
             /\ AddedRow \in [state : States, user : BOOLEAN, uid : Uids]
  <2>1. [sess |-> 1, gen |-> 1] \in AnyToken
    BY <1>3, <1>4 DEF AnyToken
  <2>2. AddedSecrets \in Secrets /\ AddedSecrets.refresh = [sess |-> 1, gen |-> 1]
    BY <2>1 DEF AddedSecrets, Secrets
  <2>3. Minted(AddedSecrets.refresh)
    BY <1>3, <1>4, <2>2 DEF Minted
  <2>4. TRUE \in BOOLEAN /\ "active" \in States
    BY Zenon DEF States
  <2>5. AddedRow \in [state : States, user : BOOLEAN, uid : Uids]
    BY <1>3, <1>4, <2>4, Zenon DEF AddedRow
  <2> QED BY <2>2, <2>3, <2>5
<1>5. StoreType
  BY <1>1, <1>4, EmptyTypes DEF StoreType
<1>6. MintedInv
  <2>1. Minted(NoToken)
    BY DEF Minted
  <2>2. \A id \in Ids : Minted(kc[id].refresh)
    BY <1>1, <1>4, <2>1, EmptyTypes
  <2>3. \A p \in Procs : Minted(seed[p].refresh) /\ Minted(client[p].refresh)
    BY <1>1, <2>1, EmptyTypes
  <2> QED BY <2>2, <2>3 DEF MintedInv
<1>7. SoleInv
  BY <1>1 DEF SoleInv, OnceOnly, WillStore, Using
<1> QED BY <1>2, <1>5, <1>6, <1>7 DEF TokenInv, SessionType

\* Every step keeps the invariant, and no stored token goes back in it.
LEMMA NextTokens == TokenInv /\ [Next]_vars => Safely
<1> SUFFICES ASSUME TokenInv, [Next]_vars
             PROVE  Safely
  OBVIOUS
<1>1. CASE Expire
  <2>1. UNCHANGED <<gen, rows, kc, procs>> /\ keys' = keys
    BY <1>1 DEF Expire
  <2> QED BY <2>1, OutsideSafe
<1>2. CASE ChangeKeys
  <2>1. UNCHANGED <<gen, rows, kc, procs>>
    BY <1>2 DEF ChangeKeys
  <2>2. keys.passphrase \in Nat /\ keys.keypass \in Nat
    BY DEF TokenInv, SessionType, ProtonType
  <2>3. keys' \in [passphrase : Nat, keypass : Nat]
    BY <1>2, <2>2 DEF ChangeKeys
  <2> QED BY <2>1, <2>3, OutsideSafe
<1>3. ASSUME NEW p \in Procs, Step(p)
      PROVE  Safely
  <2>1. CASE StartAdd(p) \/ StartRemove(p) \/ StartResume(p)
    BY <2>1, StartSafe
  <2>2. CASE \/ ReadRefreshToken(p) \/ ReadAccessToken(p) \/ ReadKeyPass(p)
             \/ ReadPassphrase(p) \/ ReadFails(p)
    BY <2>2, ReadsSafe
  <2>3. CASE Resume(p)
    BY <2>3, ResumeSafe
  <2>4. CASE Probe(p) \/ CallForKeys(p) \/ SyncCalls(p)
    BY <2>4, CallsSafe
  <2>5. CASE CallForKeysFails(p) \/ Interrupt(p) \/ SyncCallFails(p)
    BY <2>5, CallFailsSafe, SyncCallFailsSafe
  <2>6. CASE UnlockWithKeyPass(p) \/ Unlock(p) \/ StoreKeyPass(p)
    BY <2>6, UnlocksSafe
  <2>7. CASE SyncEnds(p)
    BY <2>7, SyncEndsSafe
  <2>8. CASE Login(p)
    BY <2>8, LoginSafe
  <2>9. CASE Flag(p)
    BY <2>9, FlagSafe
  <2>10. CASE Write(p)
    BY <2>10, WriteSafe
  <2>11. CASE WriteFails(p)
    BY <2>11, WriteFailsSafe
  <2>12. CASE LoginFails(p) \/ Crash(p)
    BY <2>12, StopsSafe
  <2> QED
    BY <1>3, <2>1, <2>2, <2>3, <2>4, <2>5, <2>6, <2>7, <2>8, <2>9, <2>10, <2>11, <2>12
    DEF Step
<1>4. CASE UNCHANGED vars
  <2>1. UNCHANGED <<gen, rows, kc, procs>> /\ keys' = keys
    BY <1>4 DEF vars, proton
  <2> QED BY <2>1, OutsideSafe
<1> QED BY <1>1, <1>2, <1>3, <1>4 DEF Next

LEMMA TokensAlways == Spec => []TokenInv
<1>1. TokenInv /\ [Next]_vars => TokenInv'
  BY NextTokens DEF Safely
<1> QED BY InitTokens, <1>1, PTL DEF Spec

\* Whatever commands overlap on a mailbox, and wherever they fail or die, its
\* stored refresh token is never replaced by an older one of its session.
THEOREM NeverOlder == Spec => TokensNeverGoBack
<1> DEFINE NewerOnly ==
      \A id \in Ids :
          LET old == kc[id].refresh  new == kc'[id].refresh
          IN  new.sess = old.sess => new.gen >= old.gen
<1>1. TokenInv /\ [Next]_vars => [NewerOnly]_vars
  <2>1. Safely => NewerOnly
    BY DEF Safely, Forward
  <2> QED BY NextTokens, <2>1
<1>2. TokensNeverGoBack <=> [][NewerOnly]_vars
  BY DEF TokensNeverGoBack
<1> HIDE DEF NewerOnly
<1> QED BY <1>1, <1>2, TokensAlways, PTL DEF Spec

-----------------------------------------------------------------------------
(* What rests is resumable.                                                *)

\* The instance of the second theorem: syncs and removals of the one mailbox
\* that was added, whose failures are of the keychain and of the calls that open
\* the mailbox.  A crash, a refused write of the row, Ctrl-C and an answer lost
\* during the run itself can each lose a rotated token unflagged.
SyncsAndRemovals ==
    /\ Commands \subseteq {"sync", "remove"}
    /\ Disturbances \subseteq {"net", "keychain"}

SyncOps == {<<"rotate", "access">>, <<"rotate", "refresh">>, <<"rotate", "uid">>,
            <<"row", "needs_reauth">>}
RemoveOps == ({"delete"} \X Kinds) \union {<<"row", "drop">>}
Within(ops, S) == \A i \in 1..Len(ops) : ops[i] \in S

\* One session was ever opened, and one mailbox has its uid.
OneMailbox ==
    /\ \A s \in Sessions : s # 1 => gen[s] = 0
    /\ \A id \in Ids : rows[id] = NoRow \/ (id \in Added /\ rows[id].uid = 1)
    /\ \A p \in Procs : pc[p] # "idle" => box[p] \in Added

\* What a process of such an instance is at.
Shaped(p) ==
    \/ pc[p] = "idle" /\ cmd[p] = "none" /\ plan[p] = << >>
    \/ cmd[p] = "remove" /\ pc[p] = "write" /\ Within(plan[p], RemoveOps)
    \/ /\ cmd[p] = "sync" /\ pc[p] \notin {"idle", "probe", "login"}
       /\ Within(plan[p], SyncOps)
       /\ pc[p] \in Using \union {"write"} => client[p].uid = seed[p].uid

\* p has the token that the keychain lacks, or is about to flag the mailbox.
Settles(p) ==
    /\ cmd[p] = "sync"
    /\ \/ WillStore(p)
       \/ pc[p] = "flag"
       \/ /\ pc[p] = "write"
          /\ \E i \in 1..Len(plan[p]) : plan[p][i] = <<"row", "needs_reauth">>

Settled ==
    \A id \in Ids : rows[id].state = "active" /\ kc[id].refresh # NoToken =>
        Honoured(kc[id].refresh, rows[id].uid) \/ \E p \in Procs : Settles(p)

ResumeInv == OneMailbox /\ (\A p \in Procs : Shaped(p)) /\ Settled

\* A step of p, and of nobody else.
Alone(p) ==
    OnlyMoves(p) /\ \A q \in Procs \ {p} : cmd'[q] = cmd[q] /\ box'[q] = box[q]

\* The invariant after a step of p, from what it did to p and to the stores.
LEMMA StepKeeps ==
  ASSUME ResumeInv, NEW p \in Procs, Alone(p), Shaped(p)',
         pc'[p] # "idle" => box'[p] \in Added,
         \A s \in Sessions : s # 1 => gen'[s] = 0,
         \A id \in Ids : \/ rows'[id] = rows[id] \/ rows'[id] = NoRow
                         \/ rows[id] # NoRow /\ rows'[id].uid = rows[id].uid,
         \/ Settles(p)'
         \/ \A id \in Ids : rows'[id].state # "active"
         \/ \A id \in Ids : rows'[id].state = "active" => Honoured(kc[id].refresh, rows[id].uid)'
         \/ /\ gen' = gen /\ (Settles(p) => Settles(p)')
            /\ \A id \in Ids : /\ rows'[id] = rows[id] \/ rows'[id].state # "active"
                               /\ kc'[id].refresh \in {kc[id].refresh, NoToken}
  PROVE  ResumeInv'
<1>1. ASSUME NEW q \in Procs \ {p}
      PROVE  Shaped(q)' /\ (Settles(q) => Settles(q)')
  <2>1. Shaped(q)
    BY DEF ResumeInv
  <2>2. /\ pc'[q] = pc[q] /\ cmd'[q] = cmd[q] /\ plan'[q] = plan[q]
        /\ seed'[q] = seed[q] /\ client'[q] = client[q]
    BY DEF Alone, OnlyMoves
  <2>3. Shaped(q)'
    BY <2>1, <2>2 DEF Shaped, Within
  <2>4. Settles(q) => Settles(q)'
    BY <2>2 DEF Settles, WillStore
  <2> QED BY <2>3, <2>4
<1>2. OneMailbox'
  <2>1. \A id \in Ids : rows'[id] = NoRow \/ (id \in Added /\ rows'[id].uid = 1)
    BY DEF ResumeInv, OneMailbox
  <2>2. \A q \in Procs : pc'[q] # "idle" => box'[q] \in Added
    BY DEF ResumeInv, OneMailbox, Alone, OnlyMoves
  <2> QED BY <2>1, <2>2 DEF OneMailbox
<1>3. Settled'
  <2>1. CASE Settles(p)'
    BY <2>1 DEF Settled
  <2>2. CASE \A id \in Ids : rows'[id].state # "active"
    BY <2>2 DEF Settled
  <2>3. CASE \A id \in Ids :
                 rows'[id].state = "active" => Honoured(kc[id].refresh, rows[id].uid)'
    BY <2>3 DEF Settled
  <2>4. CASE /\ gen' = gen /\ (Settles(p) => Settles(p)')
             /\ \A id \in Ids : /\ rows'[id] = rows[id] \/ rows'[id].state # "active"
                                /\ kc'[id].refresh \in {kc[id].refresh, NoToken}
    <3>1. ASSUME NEW id \in Ids, rows'[id].state = "active", kc'[id].refresh # NoToken
          PROVE  Honoured(kc[id].refresh, rows[id].uid)' \/ \E q \in Procs : Settles(q)'
      <4>1. rows'[id] = rows[id] /\ kc'[id].refresh = kc[id].refresh
        BY <2>4, <3>1
      <4>2. Honoured(kc[id].refresh, rows[id].uid) \/ \E q \in Procs : Settles(q)
        BY <3>1, <4>1 DEF ResumeInv, Settled
      <4>3. CASE Honoured(kc[id].refresh, rows[id].uid)
        BY <2>4, <4>1, <4>3 DEF Honoured
      <4>4. CASE \E q \in Procs : Settles(q)
        BY <1>1, <2>4, <4>4
      <4> QED BY <4>2, <4>3, <4>4
    <3> QED BY <3>1 DEF Settled
  <2> QED BY <2>1, <2>2, <2>3, <2>4
<1> QED BY <1>1, <1>2, <1>3 DEF ResumeInv

\* p's own variables after a step that moves it on with the command it runs.
LEMMA Moves ==
  ASSUME ProcType, NEW p \in Procs, NEW step, pc' = [pc EXCEPT ![p] = step],
         UNCHANGED <<cmd, box>>,
         \A q \in Procs \ {p} : seed'[q] = seed[q] /\ client'[q] = client[q] /\ plan'[q] = plan[q]
  PROVE  Alone(p) /\ pc'[p] = step /\ cmd'[p] = cmd[p] /\ box'[p] = box[p]
BY Domains DEF Alone, OnlyMoves

\* Between its start and its writes, a process is one that syncs.
LEMMA IsSync ==
  ASSUME ResumeInv, NEW p \in Procs, pc[p] \notin {"idle", "write"}
  PROVE  /\ cmd[p] = "sync" /\ pc[p] \notin {"probe", "login"} /\ Within(plan[p], SyncOps)
         /\ pc[p] \in Using => client[p].uid = seed[p].uid
         /\ box[p] \in Added /\ Shaped(p)
BY DEF ResumeInv, OneMailbox, Shaped

\* A command that ends leaves an idle process.
LEMMA Ends ==
  ASSUME ProcType, NEW p \in Procs, EndCommand(p)
  PROVE  Alone(p) /\ pc'[p] = "idle" /\ Shaped(p)'
<1>1. /\ Alone(p) /\ pc'[p] = "idle" /\ cmd'[p] = "none" /\ plan'[p] = << >>
  BY DEF EndCommand, ProcType, Alone, OnlyMoves
<1> QED BY <1>1 DEF Shaped

\* A command that ends settles nothing, and had nothing to.
LEMMA EndKeeps ==
  ASSUME ResumeInv, TokenInv, NEW p \in Procs, EndCommand(p), ~Settles(p), gen' = gen,
         \A id \in Ids : /\ rows'[id] = rows[id] \/ rows'[id] = NoRow
                         /\ kc'[id].refresh \in {kc[id].refresh, NoToken}
  PROVE  ResumeInv'
<1>1. Alone(p) /\ pc'[p] = "idle" /\ Shaped(p)'
  BY Ends DEF TokenInv, SessionType
<1>2. NoRow.state # "active"
  BY DEF NoRow
<1>3. \A s \in Sessions : s # 1 => gen'[s] = 0
  BY DEF ResumeInv, OneMailbox
<1> QED BY <1>1, <1>2, <1>3, StepKeeps

\* A sync that gives up goes on to flag its mailbox.
LEMMA GiveUpKeeps ==
  ASSUME ResumeInv, TokenInv, NEW p \in Procs, GiveUp(p), pc[p] \notin {"idle", "write"},
         \A s \in Sessions : s # 1 => gen'[s] = 0, rows' = rows
  PROVE  ResumeInv'
<1>1. Proceed(p, "flag")
  BY IsSync DEF GiveUp, AfterRefusal
<1>2. /\ Alone(p) /\ pc'[p] = "flag" /\ cmd'[p] = "sync" /\ box'[p] \in Added
      /\ plan'[p] = plan[p]
  <2>1. ProcType
    BY DEF TokenInv, SessionType
  <2> QED BY <1>1, <2>1, IsSync, Moves DEF Proceed
<1>3. Shaped(p)' /\ Settles(p)'
  <2>1. Within(plan'[p], SyncOps)
    BY <1>2, IsSync
  <2>2. "flag" \notin Using \union {"write"} /\ "flag" \notin {"idle", "probe", "login"}
    BY DEF Using
  <2> QED BY <1>2, <2>1, <2>2 DEF Shaped, Settles
<1> QED BY <1>2, <1>3, StepKeeps

\* A sync moves on, with the token it had to store if it had one.
LEMMA SyncKeeps ==
  ASSUME ResumeInv, NEW p \in Procs, pc[p] \notin {"idle", "write"}, Alone(p),
         NEW step, step \notin {"idle", "probe", "login", "write"},
         pc'[p] = step, cmd'[p] = cmd[p], box'[p] = box[p], plan'[p] = plan[p],
         step \in Using => client'[p].uid = seed'[p].uid,
         Settles(p) => Settles(p)', gen' = gen, rows' = rows,
         \A id \in Ids : kc'[id].refresh \in {kc[id].refresh, NoToken}
  PROVE  ResumeInv'
<1>1. Shaped(p)'
  <2>1. Within(plan'[p], SyncOps) /\ cmd'[p] = "sync"
    BY IsSync
  <2> QED BY <2>1 DEF Shaped
<1>2. \A s \in Sessions : s # 1 => gen'[s] = 0
  BY DEF ResumeInv, OneMailbox
<1>3. box'[p] \in Added
  BY IsSync
<1> QED BY <1>1, <1>2, <1>3, StepKeeps

\* What it reads is no uid, and no refresh token once it has a client.
LEMMA ReadKeeps ==
  ASSUME ResumeInv, TokenInv, NEW p \in Procs, NEW kind \in Kinds, NEW step, Read(p, kind, step),
         \/ /\ pc[p] \in {"readRefresh", "readAccess"}
            /\ step \in {"readAccess", "resume"}
         \/ /\ pc[p] \in {"readKeyPass", "readPassphrase"} /\ kind # "refresh"
            /\ step \in {"readPassphrase", "callForKeys", "callForSalts"},
         UNCHANGED <<gen, rows, kc>>
  PROVE  ResumeInv'
<1> DEFINE sd == [seed[p] EXCEPT ![kind] = kc[box[p]][kind]]
<1>1. seed[p] \in Held /\ ProcType
  BY DEF TokenInv, SessionType, ProcType
<1>2. sd.uid = seed[p].uid /\ (kind # "refresh" => sd.refresh = seed[p].refresh)
  BY <1>1 DEF Held, Kinds
<1>3. /\ Alone(p) /\ pc'[p] = step /\ cmd'[p] = cmd[p] /\ box'[p] = box[p]
      /\ seed'[p] = sd /\ client'[p] = client[p] /\ plan'[p] = plan[p]
  <2>1. DOMAIN seed = Procs
    BY <1>1, Domains
  <2> QED BY <1>1, <2>1, Moves DEF Read
<1> HIDE DEF sd
<1>4. pc[p] \notin {"idle", "write"} /\ step \notin {"idle", "probe", "login", "write"}
  OBVIOUS
<1>5. CASE pc[p] \in {"readRefresh", "readAccess"} /\ step \in {"readAccess", "resume"}
  <2>1. step \notin Using /\ ~Settles(p)
    BY <1>5 DEF Using, Settles, WillStore
  <2> QED BY <1>3, <1>4, <2>1, SyncKeeps
<1>6. CASE /\ pc[p] \in {"readKeyPass", "readPassphrase"} /\ kind # "refresh"
           /\ step \in {"readPassphrase", "callForKeys", "callForSalts"}
  <2>1. pc[p] \in Using /\ step \in Using
    BY <1>6 DEF Using
  <2>2. client'[p].uid = seed'[p].uid
    BY <1>2, <1>3, <1>4, <2>1, IsSync
  <2>3. Settles(p) => Settles(p)'
    BY <1>2, <1>3, <1>6, <2>1 DEF Settles, WillStore
  <2> QED BY <1>3, <1>4, <2>2, <2>3, SyncKeeps
<1> QED BY <1>5, <1>6

LEMMA ReadsKeep ==
  ASSUME ResumeInv, TokenInv, NEW p \in Procs,
         \/ ReadRefreshToken(p) \/ ReadAccessToken(p) \/ ReadKeyPass(p)
         \/ ReadPassphrase(p) \/ ReadFails(p)
  PROVE  ResumeInv'
<1>1. /\ UNCHANGED <<gen, rows, kc>>
      /\ pc[p] \in {"readRefresh", "readAccess", "readKeyPass", "readPassphrase"}
  BY DEF ReadRefreshToken, ReadAccessToken, ReadKeyPass, ReadPassphrase, ReadFails, proton
<1>2. pc[p] \notin {"idle", "write"} /\ \A s \in Sessions : s # 1 => gen'[s] = 0
  BY <1>1 DEF ResumeInv, OneMailbox
<1>3. /\ "refresh" \in Kinds /\ "access" \in Kinds /\ "keypass" \in Kinds
      /\ "passphrase" \in Kinds
  BY DEF Kinds
<1>4. CASE GiveUp(p)
  BY <1>1, <1>2, <1>4, GiveUpKeeps
<1>5. CASE EndCommand(p) /\ pc[p] \in {"readRefresh", "readAccess"}
  <2>1. ~Settles(p)
    BY <1>5 DEF Settles, WillStore, Using
  <2> QED BY <1>1, <1>5, <2>1, EndKeeps
<1>6. CASE pc[p] = "readRefresh" /\ Read(p, "refresh", "readAccess")
  BY <1>1, <1>3, <1>6, ReadKeeps
<1>7. CASE pc[p] = "readAccess" /\ Read(p, "access", "resume")
  BY <1>1, <1>3, <1>7, ReadKeeps
<1>8. CASE pc[p] = "readKeyPass"
           /\ \E step \in {"readPassphrase", "callForKeys"} : Read(p, "keypass", step)
  BY <1>1, <1>3, <1>8, ReadKeeps
<1>9. CASE pc[p] = "readPassphrase" /\ Read(p, "passphrase", "callForSalts")
  BY <1>1, <1>3, <1>9, ReadKeeps
<1>10. cmd[p] = "sync"
  BY <1>2, IsSync
<1> QED
  BY <1>4, <1>5, <1>6, <1>7, <1>8, <1>9, <1>10
  DEF ReadRefreshToken, ReadAccessToken, ReadKeyPass, ReadPassphrase, ReadFails

LEMMA ResumeKeeps ==
  ASSUME ResumeInv, TokenInv, NEW p \in Procs, Resume(p)
  PROVE  ResumeInv'
<1>1. pc[p] = "resume" /\ cmd[p] = "sync" /\ UNCHANGED <<gen, rows, kc>>
  BY IsSync DEF Resume, proton
<1>2. /\ Alone(p) /\ pc'[p] = "readKeyPass" /\ cmd'[p] = cmd[p] /\ box'[p] = box[p]
      /\ plan'[p] = plan[p] /\ seed'[p] = seed[p] /\ client'[p] = seed[p]
  <2>1. ProcType /\ DOMAIN client = Procs
    BY Domains DEF TokenInv, SessionType
  <2> QED BY <1>1, <2>1, Moves DEF Resume
<1>3. ~Settles(p)
  BY <1>1 DEF Settles, WillStore, Using
<1> QED BY <1>1, <1>2, <1>3, SyncKeeps

\* Only tokens of the one session are ever spent.
LEMMA SpendsOne ==
  ASSUME ResumeInv, TokenInv, NEW p \in Procs, CanRotate(p)
  PROVE  /\ client[p].uid = 1 /\ 1 \in Sessions
         /\ \A g : g = [gen EXCEPT ![1] = @ + 1] => \A s \in Sessions : s # 1 => g[s] = 0
         /\ NextToken(1) # seed[p].refresh
<1> DEFINE t == client[p].refresh  u == client[p].uid
<1>1. t.sess = u /\ u \in Sessions /\ t.gen = gen[u]
  BY DEF CanRotate, Honoured
<1>2. Minted(t) /\ Minted(seed[p].refresh) /\ gen \in [Sessions -> Nat]
  BY DEF TokenInv, MintedInv, SessionType, ProtonType
<1>3. t.gen \in 1..gen[u]
  BY <1>1, <1>2, TokenTypes DEF Minted, TokenInv
<1>4. u = 1
  BY <1>1, <1>2, <1>3 DEF ResumeInv, OneMailbox
<1>5. NextToken(1) # seed[p].refresh
  <2>1. NextToken(1).sess = 1 /\ NextToken(1).gen = gen[1] + 1
    BY DEF NextToken
  <2>2. NoToken.sess = 0
    BY DEF NoToken
  <2> QED BY <1>1, <1>2, <1>4, <2>1, <2>2 DEF Minted
<1>6. ASSUME NEW g, g = [gen EXCEPT ![1] = @ + 1], NEW s \in Sessions, s # 1
      PROVE  g[s] = 0
  BY <1>2, <1>6 DEF ResumeInv, OneMailbox
<1> QED BY <1>1, <1>4, <1>5, <1>6

\* Its calls go on with the same token, or with one it has to store.
LEMMA CallsKeep ==
  ASSUME ResumeInv, TokenInv, NEW p \in Procs, Probe(p) \/ CallForKeys(p) \/ SyncCalls(p)
  PROVE  ResumeInv'
<1>1. /\ pc[p] \in Using /\ pc[p] \notin {"idle", "write"}
      /\ UNCHANGED <<rows, kc, cmd, box, seed>>
  BY DEF Probe, CallForKeys, SyncCalls, Using
<1>2. pc[p] # "probe" /\ cmd[p] = "sync" /\ client[p].uid = seed[p].uid /\ box[p] \in Added
  BY <1>1, IsSync
<1>3. /\ ProcType /\ DOMAIN client = Procs /\ client[p] \in Held
      /\ pc = [pc EXCEPT ![p] = pc[p]]
  BY Domains, KeepSame DEF TokenInv, SessionType
<1>4. /\ Reach(p) /\ plan' = plan
      /\ \E step \in {"open", "derive", "sync"} : pc' = [pc EXCEPT ![p] = step]
  BY <1>2, <1>3 DEF Probe, CallForKeys, SyncCalls
<1>5. PICK step \in {"open", "derive", "sync"} : pc' = [pc EXCEPT ![p] = step]
  BY <1>4
<1>6. step \in Using /\ step \notin {"idle", "probe", "login", "write"}
  BY DEF Using
<1>7. CASE Authorized(p) /\ UNCHANGED <<gen, client>>
  <2>1. Alone(p) /\ pc'[p] = step /\ cmd'[p] = cmd[p] /\ box'[p] = box[p]
    BY <1>1, <1>3, <1>4, <1>5, <1>7, Moves
  <2>2. Settles(p) => Settles(p)'
    BY <1>1, <1>2, <1>6, <1>7, <2>1 DEF Settles, WillStore, Using
  <2> QED BY <1>1, <1>2, <1>4, <1>6, <1>7, <2>1, <2>2, SyncKeeps
<1>8. CASE CanRotate(p) /\ gen' = [gen EXCEPT ![client[p].uid] = @ + 1]
           /\ client' = [client EXCEPT ![p].refresh = NextToken(client[p].uid),
                                       ![p].access = NextToken(client[p].uid)]
  <2>1. /\ client[p].uid = 1 /\ NextToken(1) # seed[p].refresh
        /\ \A s \in Sessions : s # 1 => gen'[s] = 0
    BY <1>8, SpendsOne
  <2>2. client'[p].refresh = NextToken(1) /\ client'[p].uid = client[p].uid
    BY <1>3, <1>8, <2>1 DEF Held
  <2>3. Alone(p) /\ pc'[p] = step /\ cmd'[p] = cmd[p] /\ box'[p] = box[p]
    <3>1. \A q \in Procs \ {p} : client'[q] = client[q]
      BY <1>3, <1>8
    <3> QED BY <1>1, <1>3, <1>4, <1>5, <3>1, Moves
  <2>4. Settles(p)'
    BY <1>1, <1>2, <1>6, <2>1, <2>2, <2>3 DEF Settles, WillStore
  <2>5. Shaped(p)'
    <3>1. Within(plan'[p], SyncOps)
      BY <1>1, <1>4, IsSync
    <3> QED BY <1>1, <1>2, <1>6, <2>2, <2>3, <3>1 DEF Shaped
  <2> QED BY <1>1, <1>2, <2>1, <2>3, <2>4, <2>5, StepKeeps
<1> QED BY <1>4, <1>7, <1>8 DEF Reach

\* One that fails leads to the flag, whatever it lost.
LEMMA CallFailsKeep ==
  ASSUME ResumeInv, TokenInv, NEW p \in Procs, CallForKeysFails(p)
  PROVE  ResumeInv'
<1>1. /\ GiveUp(p) /\ pc[p] \notin {"idle", "write"} /\ rows' = rows
      /\ gen' = gen \/ (CanRotate(p) /\ gen' = [gen EXCEPT ![client[p].uid] = @ + 1])
  BY DEF CallForKeysFails, CallFails, AnswerLost
<1>2. \A s \in Sessions : s # 1 => gen'[s] = 0
  BY <1>1, SpendsOne DEF ResumeInv, OneMailbox
<1> QED BY <1>1, <1>2, GiveUpKeeps

\* Unlocking leaves the tokens alone.
LEMMA UnlocksKeep ==
  ASSUME ResumeInv, TokenInv, NEW p \in Procs, UnlockWithKeyPass(p) \/ Unlock(p) \/ StoreKeyPass(p)
  PROVE  ResumeInv'
<1>1. pc[p] \in Using /\ pc[p] \notin {"idle", "write"} /\ UNCHANGED <<gen, rows>>
  BY DEF UnlockWithKeyPass, Unlock, StoreKeyPass, Using, proton
<1>2. cmd[p] = "sync" /\ client[p].uid = seed[p].uid /\ box[p] \in Added
  BY <1>1, IsSync
<1>3. CASE GiveUp(p)
  <2>1. \A s \in Sessions : s # 1 => gen'[s] = 0
    BY <1>1 DEF ResumeInv, OneMailbox
  <2> QED BY <1>1, <1>3, <2>1, GiveUpKeeps
<1>4. CASE ~GiveUp(p)
  <2>1. /\ UNCHANGED <<cmd, box, seed, plan>>
        /\ client' = client \/ Unlocked(p)
        /\ \E step \in {"readPassphrase", "heal", "sync"} : pc' = [pc EXCEPT ![p] = step]
        /\ kc' = kc \/ kc' = [kc EXCEPT ![box[p]].keypass = client[p].keypass]
    BY <1>2, <1>4 DEF UnlockWithKeyPass, Unlock, StoreKeyPass, AfterUnlock, Proceed
  <2>2. PICK step \in {"readPassphrase", "heal", "sync"} : pc' = [pc EXCEPT ![p] = step]
    BY <2>1
  <2>3. step \in Using /\ step \notin {"idle", "probe", "login", "write"}
    BY DEF Using
  <2>4. /\ client'[p].refresh = client[p].refresh /\ client'[p].uid = client[p].uid
        /\ \A q \in Procs \ {p} : client'[q] = client[q]
    <3>1. client \in [Procs -> Held]
      BY DEF TokenInv, SessionType, ProcType
    <3> QED BY <2>1, <3>1 DEF Unlocked, Held
  <2>5. \A id \in Ids : kc'[id].refresh = kc[id].refresh
    <3>1. kc \in [Ids -> Secrets]
      BY DEF TokenInv, SessionType, StoreType
    <3> QED BY <2>1, <3>1 DEF Secrets
  <2>6. Alone(p) /\ pc'[p] = step /\ cmd'[p] = cmd[p] /\ box'[p] = box[p]
    <3>1. ProcType
      BY DEF TokenInv, SessionType
    <3> QED BY <2>1, <2>2, <2>4, <3>1, Moves
  <2>7. Settles(p) => Settles(p)'
    BY <1>1, <1>2, <2>1, <2>3, <2>4, <2>6 DEF Settles, WillStore, Using
  <2> QED BY <1>1, <1>2, <2>1, <2>3, <2>4, <2>5, <2>6, <2>7, SyncKeeps
<1> QED BY <1>3, <1>4

\* A run that ends still has its token to store.
LEMMA SyncEndsKeep ==
  ASSUME ResumeInv, TokenInv, NEW p \in Procs, SyncEnds(p)
  PROVE  ResumeInv'
<1>1. /\ pc[p] = "sync" /\ UNCHANGED <<gen, rows, kc, client, cmd, box, seed>>
      /\ pc' = [pc EXCEPT ![p] = "write"] /\ plan' = [plan EXCEPT ![p] = PersistPlan]
  BY DEF SyncEnds, BeginWrites, proton
<1>2. pc[p] \in Using /\ pc[p] \notin {"idle", "write"}
  BY <1>1 DEF Using
<1>3. cmd[p] = "sync" /\ client[p].uid = seed[p].uid /\ box[p] \in Added
  BY <1>2, IsSync
<1>4. Alone(p) /\ pc'[p] = "write" /\ cmd'[p] = cmd[p] /\ box'[p] = box[p] /\ plan'[p] = PersistPlan
  <2>1. ProcType /\ DOMAIN plan = Procs
    BY Domains DEF TokenInv, SessionType
  <2> QED BY <1>1, <2>1, Moves
<1>5. /\ Len(PersistPlan) = 3 /\ PersistPlan[1] = <<"rotate", "access">>
      /\ PersistPlan[2] = <<"rotate", "refresh">> /\ PersistPlan[3] = <<"rotate", "uid">>
  BY DEF PersistPlan
<1>6. Within(PersistPlan, SyncOps) /\ 2 \in 1..Len(PersistPlan)
  BY <1>5 DEF Within, SyncOps
<1>7. Shaped(p)'
  BY <1>1, <1>3, <1>4, <1>6 DEF Shaped
<1>8. Settles(p) => Settles(p)'
  BY <1>1, <1>3, <1>4, <1>5, <1>6 DEF Settles, WillStore, Using
<1>9. \A s \in Sessions : s # 1 => gen'[s] = 0
  BY <1>1 DEF ResumeInv, OneMailbox
<1> QED BY <1>1, <1>3, <1>4, <1>7, <1>8, <1>9, StepKeeps

\* Where no other mailbox has a row, what is done to this one's is all.
LEMMA OnlyRow ==
  ASSUME ResumeInv, NEW b \in Added, NEW id \in Ids, id # b
  PROVE  rows[id] = NoRow
BY SessionBounds DEF ResumeInv, OneMailbox

\* The flag is what settles: no row is active then.
LEMMA FlagKeeps ==
  ASSUME SyncsAndRemovals, ResumeInv, TokenInv, NEW p \in Procs, Flag(p)
  PROVE  ResumeInv'
<1>1. pc[p] = "flag" /\ cmd[p] = "sync" /\ box[p] \in Added /\ gen' = gen
  BY IsSync DEF Flag, proton
<1>2. /\ EndCommand(p)
      /\ \/ rows[box[p]] # NoRow /\ rows' = [rows EXCEPT ![box[p]].state = "needs_reauth"]
         \/ rows[box[p]] = NoRow /\ rows' = rows
  BY <1>1 DEF Flag, SyncsAndRemovals, Disturb
<1>3. Alone(p) /\ pc'[p] = "idle" /\ Shaped(p)'
  BY <1>2, Ends DEF TokenInv, SessionType
<1>4. /\ \A id \in Ids : rows'[id].state # "active"
      /\ \A id \in Ids : rows'[id] = rows[id] \/ (rows[id] # NoRow /\ rows'[id].uid = rows[id].uid)
  <2>1. rows \in [Ids -> [state : States, user : BOOLEAN, uid : Uids]] /\ NoRow.state # "active"
    BY DEF TokenInv, SessionType, StoreType, NoRow
  <2>2. \A id \in Ids : id # box[p] => rows[id] = NoRow
    BY <1>1, OnlyRow
  <2> QED BY <1>2, <2>1, <2>2
<1>5. \A s \in Sessions : s # 1 => gen'[s] = 0
  BY <1>1 DEF ResumeInv, OneMailbox
<1> QED BY <1>3, <1>4, <1>5, StepKeeps

\* Commands begin with nothing to settle.
LEMMA StartKeeps ==
  ASSUME SyncsAndRemovals, ResumeInv, TokenInv, NEW p \in Procs,
         StartAdd(p) \/ StartRemove(p) \/ StartResume(p)
  PROVE  ResumeInv'
<1>1. ProcType /\ DOMAIN seed = Procs /\ DOMAIN plan = Procs
  BY Domains DEF TokenInv, SessionType
<1>2. /\ pc[p] = "idle" /\ UNCHANGED <<gen, rows, kc, client>>
  BY DEF StartAdd, StartRemove, StartResume, Begin, proton
<1>3. Shaped(p) /\ ~Settles(p) /\ cmd[p] = "none" /\ plan[p] = << >>
  BY <1>2 DEF ResumeInv, Shaped, Settles
<1>4. PICK id \in Ids, c \in {"sync", "remove"}, step \in {"write", "readRefresh", "flag"} :
        /\ rows[id] # NoRow /\ Begin(p, c, id, step)
        /\ \/ c = "sync" /\ step # "write" /\ plan' = plan
              /\ seed' = [seed EXCEPT ![p].uid = rows[id].uid]
           \/ c = "remove" /\ step = "write" /\ plan' = [plan EXCEPT ![p] = RemovePlan]
              /\ seed' = seed
  <2>1. CASE StartAdd(p)
    BY <2>1 DEF StartAdd, Begin, SyncsAndRemovals
  <2>2. CASE StartRemove(p)
    BY <2>2 DEF StartRemove
  <2>3. CASE StartResume(p)
    BY <2>3 DEF StartResume, Begin, SyncsAndRemovals
  <2> QED BY <2>1, <2>2, <2>3
<1>5. /\ Alone(p) /\ pc'[p] = step /\ cmd'[p] = c /\ box'[p] = id
      /\ plan'[p] = IF c = "remove" THEN RemovePlan ELSE << >>
  <2>1. /\ pc' = [pc EXCEPT ![p] = step] /\ cmd' = [cmd EXCEPT ![p] = c]
        /\ box' = [box EXCEPT ![p] = id]
    BY <1>4 DEF Begin
  <2>2. \A q \in Procs \ {p} : seed'[q] = seed[q] /\ plan'[q] = plan[q]
    BY <1>1, <1>4
  <2>3. plan'[p] = IF c = "remove" THEN RemovePlan ELSE << >>
    BY <1>1, <1>3, <1>4
  <2> QED BY <1>1, <1>2, <2>1, <2>2, <2>3 DEF ProcType, Alone, OnlyMoves
<1>6. id \in Added
  BY <1>4 DEF ResumeInv, OneMailbox
<1>7. Within(RemovePlan, RemoveOps)
  <2>1. \A i \in 1..4 : Each("delete")[i] \in {"delete"} \X Kinds
    BY DEF Each, AllKinds, Kinds
  <2> QED BY <2>1, RemovePlanIs DEF Within, RemoveOps
<1>8. Shaped(p)'
  <2>1. CASE c = "remove"
    BY <1>4, <1>5, <1>7, <2>1 DEF Shaped
  <2>2. CASE c = "sync"
    BY <1>4, <1>5, <2>2 DEF Shaped, Within, Using
  <2> QED BY <2>1, <2>2
<1>9. \A s \in Sessions : s # 1 => gen'[s] = 0
  BY <1>2 DEF ResumeInv, OneMailbox
<1> QED BY <1>2, <1>3, <1>5, <1>6, <1>8, <1>9, StepKeeps

\* What is left to write still settles.
Owes(p, ops) ==
    \E i \in 1..Len(ops) :
        \/ ops[i] = <<"row", "needs_reauth">>
        \/ ops[i] = <<"rotate", "refresh">> /\ client[p].refresh # seed[p].refresh

LEMMA IsWriting ==
  ASSUME ResumeInv, TokenInv, NEW p \in Procs, pc[p] = "write"
  PROVE  /\ plan[p] \in Seq(Ops) /\ plan[p] # << >> /\ box[p] \in Added
         /\ \/ cmd[p] = "remove" /\ Within(plan[p], RemoveOps) /\ ~Settles(p)
            \/ /\ cmd[p] = "sync" /\ Within(plan[p], SyncOps) /\ client[p].uid = seed[p].uid
               /\ Settles(p) <=> Owes(p, plan[p])
<1>1. plan[p] \in Seq(Ops) /\ plan[p] # << >> /\ box[p] \in Added
  BY DEF TokenInv, SessionType, ProcType, ResumeInv, OneMailbox
<1>2. CASE cmd[p] = "remove" /\ Within(plan[p], RemoveOps)
  BY <1>1, <1>2 DEF Settles
<1>3. CASE cmd[p] = "sync" /\ Within(plan[p], SyncOps) /\ client[p].uid = seed[p].uid
  <2>1. \A i \in 1..Len(plan[p]) : plan[p][i] # <<"set", "refresh">>
    BY <1>3 DEF Within, SyncOps
  <2> QED BY <1>1, <1>3, <2>1 DEF Settles, WillStore, Owes, Using
<1> QED BY <1>1, <1>2, <1>3 DEF ResumeInv, Shaped

\* Writes go on, or end.
LEMMA ContinueKeeps ==
  ASSUME ResumeInv, TokenInv, NEW p \in Procs, pc[p] = "write", NEW ops \in Seq(Ops),
         ContinueWith(p, cmd[p], ops), gen' = gen,
         cmd[p] = "remove" => Within(ops, RemoveOps),
         cmd[p] = "sync" => Within(ops, SyncOps),
         \A id \in Ids : \/ rows'[id] = rows[id] \/ rows'[id] = NoRow
                         \/ rows[id] # NoRow /\ rows'[id].uid = rows[id].uid,
         \/ cmd[p] = "sync" /\ Owes(p, ops)
         \/ \A id \in Ids : rows'[id].state # "active"
         \/ \A id \in Ids : rows'[id].state = "active" => Honoured(kc[id].refresh, rows[id].uid)'
         \/ /\ Settles(p) => Owes(p, ops)
            /\ \A id \in Ids : /\ rows'[id] = rows[id] \/ rows'[id].state # "active"
                               /\ kc'[id].refresh \in {kc[id].refresh, NoToken}
  PROVE  ResumeInv'
<1>0. \A s \in Sessions : s # 1 => gen'[s] = 0
  BY DEF ResumeInv, OneMailbox
<1>1. CASE ops = << >>
  <2>1. EndCommand(p) /\ ~Owes(p, ops)
    BY <1>1 DEF ContinueWith, Owes
  <2>2. Alone(p) /\ pc'[p] = "idle" /\ Shaped(p)'
    BY <2>1, Ends DEF TokenInv, SessionType
  <2> QED BY <1>0, <2>1, <2>2, StepKeeps
<1>2. CASE ops # << >>
  <2>1. /\ plan' = [plan EXCEPT ![p] = ops] /\ cmd' = [cmd EXCEPT ![p] = cmd[p]]
        /\ UNCHANGED <<pc, box, seed, client>>
    BY <1>2 DEF ContinueWith
  <2>2. /\ Alone(p) /\ pc'[p] = "write" /\ cmd'[p] = cmd[p] /\ box'[p] = box[p] /\ plan'[p] = ops
    BY <2>1 DEF TokenInv, SessionType, ProcType, Alone, OnlyMoves
  <2>3. Shaped(p)'
    BY <2>1, <2>2, IsWriting DEF Shaped
  <2>4. cmd[p] = "sync" /\ Owes(p, ops) => Settles(p)'
    BY <2>1, <2>2 DEF Owes, Settles, WillStore
  <2>5. Settles(p) => cmd[p] = "sync"
    BY DEF Settles
  <2>6. box'[p] \in Added
    BY <2>2, IsWriting
  <2> QED BY <1>0, <2>2, <2>3, <2>4, <2>5, <2>6, StepKeeps
<1> QED BY <1>1, <1>2

LEMMA RestWithin ==
  ASSUME NEW ops \in Seq(Ops), ops # << >>, NEW S, Within(ops, S)
  PROVE  Head(ops) \in S /\ Within(Tail(ops), S)
BY Rest DEF Within

\* A write that is not the one that settles leaves that one to do.
LEMMA RestOwes ==
  ASSUME NEW p \in Procs, plan[p] \in Seq(Ops), plan[p] # << >>, Owes(p, plan[p]),
         Head(plan[p]) # <<"row", "needs_reauth">>,
         ~(Head(plan[p]) = <<"rotate", "refresh">> /\ client[p].refresh # seed[p].refresh)
  PROVE  Owes(p, Tail(plan[p]))
<1> DEFINE ops == plan[p]
<1>1. PICK i \in 1..Len(ops) :
        \/ ops[i] = <<"row", "needs_reauth">>
        \/ ops[i] = <<"rotate", "refresh">> /\ client[p].refresh # seed[p].refresh
  BY DEF Owes
<1>2. i # 1
  BY <1>1, Rest
<1>3. i - 1 \in 1..Len(Tail(ops)) /\ Tail(ops)[i - 1] = ops[i]
  <2>1. \A s \in Seq(Ops) : s # << >> =>
            /\ Len(Tail(s)) = Len(s) - 1 /\ Len(s) \in Nat
            /\ \A k \in 1..Len(s) - 1 : Tail(s)[k] = s[k + 1]
    OBVIOUS
  <2>2. i \in Int /\ 1 <= i /\ i <= Len(ops) /\ Len(Tail(ops)) = Len(ops) - 1 /\ Len(ops) \in Nat
    BY <2>1
  <2>3. i - 1 \in 1..Len(ops) - 1 /\ (i - 1) + 1 = i
    BY <1>2, <2>2
  <2> QED BY <2>1, <2>2, <2>3
<1> QED BY <1>1, <1>3 DEF Owes

\* The token to be stored is one Proton honours.
LEMMA OwedIsHonoured ==
  ASSUME SyncsAndRemovals, ResumeInv, TokenInv, NEW p \in Procs, WillStore(p)
  PROVE  Honoured(client[p].refresh, 1)
<1> DEFINE t == client[p].refresh
<1>1. Sole(p) /\ Minted(t)
  BY DEF TokenInv, SoleInv, MintedInv
<1>2. t.sess \in Sessions /\ t.gen = gen[t.sess] /\ gen \in [Sessions -> Nat]
  BY <1>1 DEF SyncsAndRemovals, NoneLost, Sole, TokenInv, SessionType, ProtonType
<1>3. t.gen \in 1..gen[t.sess]
  BY <1>1, <1>2, TokenTypes DEF Minted, TokenInv
<1>4. t.sess = 1
  BY <1>2, <1>3 DEF ResumeInv, OneMailbox
<1> QED BY <1>2, <1>4 DEF Honoured

\* A sync stores the token it owes, or the flag, or neither.
LEMMA SyncWriteKeeps ==
  ASSUME SyncsAndRemovals, ResumeInv, TokenInv, NEW p \in Procs, Write(p), cmd[p] = "sync"
  PROVE  ResumeInv'
<1> DEFINE op == Head(plan[p])  rest == Tail(plan[p])  b == box[p]
<1>1. /\ pc[p] = "write" /\ ContinueWith(p, cmd[p], rest) /\ gen' = gen /\ ~Refused(p, op)
      /\ rows' = IF Stores(p, op) THEN [rows EXCEPT ![b] = RowAfter(p, op)] ELSE rows
      /\ kc' = IF UsesKeychain(p, op) THEN [kc EXCEPT ![b][op[2]] = SecretAfter(p, op)] ELSE kc
  BY DEF Write, proton
<1>2. /\ plan[p] \in Seq(Ops) /\ plan[p] # << >> /\ b \in Added /\ b \in Ids
      /\ Within(plan[p], SyncOps) /\ client[p].uid = seed[p].uid
      /\ Settles(p) <=> Owes(p, plan[p])
  BY <1>1, IsWriting, SessionBounds
<1>3. op \in SyncOps /\ Within(rest, SyncOps) /\ rest \in Seq(Ops) /\ op \in Ops
  BY <1>2, RestWithin, Rest
<1>4. /\ SessionType /\ kc \in [Ids -> Secrets]
      /\ rows \in [Ids -> [state : States, user : BOOLEAN, uid : Uids]]
  BY DEF TokenInv, SessionType, StoreType
<1>5. CASE op = <<"row", "needs_reauth">>
  <2>1. rows[b] # NoRow /\ rows' = [rows EXCEPT ![b] = [rows[b] EXCEPT !.state = "needs_reauth"]]
    <3>1. op[1] = "row" /\ op[2] = "needs_reauth"
      BY <1>5
    <3>2. Stores(p, op)
      BY <3>1 DEF Stores
    <3> HIDE DEF op
    <3>3. rows[b] # NoRow
      BY <1>1, <1>5, <3>2 DEF Refused
    <3>4. RowAfter(p, op) = [rows[b] EXCEPT !.state = "needs_reauth"]
      BY <3>1 DEF RowAfter
    <3> QED BY <1>1, <3>2, <3>3, <3>4
  <2>2. /\ \A id \in Ids : id # b => rows'[id] = NoRow /\ rows'[id] = rows[id]
        /\ rows'[b].state = "needs_reauth" /\ rows'[b].uid = rows[b].uid
    BY <1>2, <1>4, <2>1, OnlyRow
  <2>3. NoRow.state # "active"
    BY DEF NoRow
  <2>4. \A id \in Ids : rows'[id].state # "active"
    BY <2>2, <2>3
  <2>5. \A id \in Ids : rows'[id] = rows[id] \/ (rows[id] # NoRow /\ rows'[id].uid = rows[id].uid)
    BY <2>1, <2>2
  <2> HIDE DEF op, rest, b
  <2> QED BY <1>1, <1>3, <2>4, <2>5, ContinueKeeps
<1>6. CASE op # <<"row", "needs_reauth">>
  <2>1. rows' = rows
    BY <1>1, <1>2, <1>3, <1>6 DEF Stores, SyncOps, Rotated
  <2>2. CASE op = <<"rotate", "refresh">> /\ client[p].refresh # seed[p].refresh
    <3>1. WillStore(p)
      <4>1. Owes(p, plan[p])
        BY <1>2, <2>2, Rest DEF Owes
      <4> QED BY <1>1, <1>2, <2>2, Rest DEF WillStore
    <3>2. kc'[b].refresh = client[p].refresh
      <4>1. UsesKeychain(p, op)
        BY <2>2 DEF UsesKeychain, Rotated
      <4> HIDE DEF op
      <4> QED BY <1>1, <1>2, <1>3, <1>4, <2>2, <4>1, SecretType
    <3>3. \A id \in Ids : rows'[id].state = "active" => id = b /\ rows[id].uid = 1
      <4>1. NoRow.state # "active"
        BY DEF NoRow
      <4> QED BY <1>2, <2>1, <4>1, OnlyRow DEF ResumeInv, OneMailbox
    <3>4. \A id \in Ids : rows'[id].state = "active" => Honoured(kc[id].refresh, rows[id].uid)'
      BY <1>1, <2>1, <3>1, <3>2, <3>3, OwedIsHonoured DEF Honoured
    <3> HIDE DEF op, rest, b
    <3> QED BY <1>1, <1>3, <2>1, <3>4, ContinueKeeps
  <2>3. CASE ~(op = <<"rotate", "refresh">> /\ client[p].refresh # seed[p].refresh)
    <3>1. \A id \in Ids : kc'[id].refresh \in {kc[id].refresh, NoToken}
      <4>1. UsesKeychain(p, op) => op = <<"rotate", "access">>
        BY <1>3, <2>3 DEF UsesKeychain, Rotated, SyncOps
      <4> HIDE DEF op
      <4> QED BY <1>1, <1>2, <1>3, <1>4, <4>1, SecretType
    <3>2. Settles(p) => Owes(p, rest)
      BY <1>2, <1>6, <2>3, RestOwes
    <3> HIDE DEF op, rest, b
    <3> QED BY <1>1, <1>3, <2>1, <3>1, <3>2, ContinueKeeps
  <2> QED BY <2>2, <2>3
<1> QED BY <1>5, <1>6

\* A removal takes secrets away, and then the row.
LEMMA RemoveWriteKeeps ==
  ASSUME ResumeInv, TokenInv, NEW p \in Procs, Write(p), cmd[p] = "remove"
  PROVE  ResumeInv'
<1> DEFINE op == Head(plan[p])  rest == Tail(plan[p])  b == box[p]
<1>1. /\ pc[p] = "write" /\ ContinueWith(p, cmd[p], rest) /\ gen' = gen
      /\ rows' = IF Stores(p, op) THEN [rows EXCEPT ![b] = RowAfter(p, op)] ELSE rows
      /\ kc' = IF UsesKeychain(p, op) THEN [kc EXCEPT ![b][op[2]] = SecretAfter(p, op)] ELSE kc
  BY DEF Write, proton
<1>2. /\ plan[p] \in Seq(Ops) /\ plan[p] # << >> /\ b \in Ids
      /\ Within(plan[p], RemoveOps) /\ ~Settles(p)
  BY <1>1, IsWriting, SessionBounds
<1>3. op \in RemoveOps /\ Within(rest, RemoveOps) /\ rest \in Seq(Ops) /\ op \in Ops
  BY <1>2, RestWithin, Rest
<1>4. /\ SessionType /\ kc \in [Ids -> Secrets]
      /\ rows \in [Ids -> [state : States, user : BOOLEAN, uid : Uids]]
  BY DEF TokenInv, SessionType, StoreType
<1> HIDE DEF op
<1>5. \A id \in Ids : rows'[id] = rows[id] \/ rows'[id] = NoRow
  <2>1. Stores(p, op) => op = <<"row", "drop">>
    BY <1>3 DEF Stores, RemoveOps
  <2>2. op = <<"row", "drop">> => RowAfter(p, op) = NoRow
    BY DEF RowAfter
  <2> QED BY <1>1, <1>2, <1>4, <2>1, <2>2
<1>6. \A id \in Ids : kc'[id].refresh \in {kc[id].refresh, NoToken}
  <2>1. op # <<"set", "refresh">> /\ op # <<"rotate", "refresh">>
    BY <1>3 DEF RemoveOps
  <2> QED BY <1>1, <1>2, <1>3, <1>4, <2>1, SecretType
<1>7. NoRow.state # "active"
  BY DEF NoRow
<1> HIDE DEF rest, b
<1> QED BY <1>1, <1>2, <1>3, <1>5, <1>6, <1>7, ContinueKeeps

\* A refresh token that cannot be stored becomes a flag to write.
LEMMA WriteFailsKeep ==
  ASSUME SyncsAndRemovals, ResumeInv, TokenInv, NEW p \in Procs, WriteFails(p)
  PROVE  ResumeInv'
<1> DEFINE op == Head(plan[p])  rest == Tail(plan[p])
           ops == AfterFailure(cmd[p], op, rest)
<1>1. /\ pc[p] = "write" /\ UNCHANGED <<gen, rows, kc>>
      /\ Refused(p, op) \/ UsesKeychain(p, op)
      /\ ContinueWith(p, CommandAfterFailure(cmd[p], op), ops)
  BY DEF WriteFails, proton, SyncsAndRemovals, Disturb
<1>2. plan[p] \in Seq(Ops) /\ plan[p] # << >> /\ box[p] \in Added
  BY <1>1, IsWriting
<1>3. CASE cmd[p] = "remove"
  <2>1. ops = << >> /\ CommandAfterFailure(cmd[p], op) = cmd[p]
    BY <1>3 DEF AfterFailure, CommandAfterFailure
  <2>2. EndCommand(p) /\ ~Settles(p)
    BY <1>1, <1>3, <2>1, IsWriting DEF ContinueWith
  <2> QED BY <1>1, <2>2, EndKeeps
<1>4. CASE cmd[p] = "sync"
  <2>1. /\ Within(plan[p], SyncOps) /\ client[p].uid = seed[p].uid
        /\ Settles(p) <=> Owes(p, plan[p])
    BY <1>1, <1>4, IsWriting
  <2>2. op \in SyncOps /\ Within(rest, SyncOps) /\ rest \in Seq(Ops)
    BY <1>2, <2>1, RestWithin, Rest
  <2>3. CommandAfterFailure(cmd[p], op) = cmd[p]
    BY <1>4 DEF CommandAfterFailure
  <2>4. CASE op = <<"rotate", "refresh">>
    <3> DEFINE mark == << <<"row", "needs_reauth">> >>
    <3>1. ops = mark \o rest
      BY <1>4, <2>4 DEF AfterFailure
    <3>2. mark \in Seq(Ops) /\ Len(mark) = 1 /\ mark[1] = <<"row", "needs_reauth">>
      BY DEF Ops
    <3> HIDE DEF mark, rest, ops
    <3>3. /\ ops \in Seq(Ops) /\ Len(ops) = Len(rest) + 1 /\ Len(rest) \in Nat
          /\ \A i \in 1..Len(ops) : ops[i] = IF i <= 1 THEN mark[1] ELSE rest[i - 1]
      <4>1. /\ mark \o rest \in Seq(Ops) /\ Len(mark \o rest) = Len(mark) + Len(rest)
            /\ \A i \in 1..Len(mark) + Len(rest) :
                  (mark \o rest)[i] = IF i <= Len(mark) THEN mark[i] ELSE rest[i - Len(mark)]
        BY <2>2, <3>2, ConcatProperties
      <4>2. Len(rest) \in Nat
        BY <2>2
      <4>3. Len(ops) = Len(rest) + 1 /\ ops \in Seq(Ops)
        BY <3>1, <3>2, <4>1, <4>2
      <4>4. ASSUME NEW i \in 1..Len(ops)
            PROVE  ops[i] = IF i <= 1 THEN mark[1] ELSE rest[i - 1]
        <5>1. i \in 1..1 + Len(rest) /\ (i <= 1 => i = 1)
          BY <4>2, <4>3
        <5>2. ops[i] = IF i <= 1 THEN mark[i] ELSE rest[i - 1]
          BY <3>1, <3>2, <4>1, <5>1
        <5> QED BY <5>1, <5>2
      <4> QED BY <4>2, <4>3, <4>4
    <3>4. Owes(p, ops)
      <4>1. 1 \in 1..Len(ops) /\ ops[1] = <<"row", "needs_reauth">>
        BY <3>2, <3>3
      <4> QED BY <4>1 DEF Owes
    <3>5. Within(ops, SyncOps)
      <4>1. <<"row", "needs_reauth">> \in SyncOps
        BY DEF SyncOps
      <4>2. \A i \in 1..Len(ops) : i <= 1 \/ i - 1 \in 1..Len(rest)
        BY <3>3
      <4> QED BY <2>2, <3>2, <3>3, <4>1, <4>2 DEF Within
    <3> QED BY <1>1, <1>4, <2>3, <3>3, <3>4, <3>5, ContinueKeeps
  <2>5. CASE op # <<"rotate", "refresh">>
    <3>1. ops = rest
      BY <1>4, <2>5 DEF AfterFailure
    <3> HIDE DEF ops
    <3>2. CASE op = <<"row", "needs_reauth">>
      <4>1. rows[box[p]] = NoRow
        BY <1>1, <3>2 DEF Refused, UsesKeychain
      <4>2. NoRow.state # "active"
        BY DEF NoRow
      <4>3. \A id \in Ids : rows'[id].state # "active"
        BY <1>1, <1>2, <4>1, <4>2, OnlyRow
      <4> HIDE DEF rest
      <4> QED BY <1>1, <1>4, <2>2, <2>3, <3>1, <4>3, ContinueKeeps
    <3>3. CASE op # <<"row", "needs_reauth">>
      <4>1. Settles(p) => Owes(p, rest)
        BY <1>2, <2>1, <2>5, <3>3, RestOwes
      <4> HIDE DEF rest
      <4> QED BY <1>1, <1>4, <2>2, <2>3, <3>1, <4>1, ContinueKeeps
    <3> QED BY <3>2, <3>3
  <2> QED BY <2>4, <2>5
<1> QED BY <1>1, <1>3, <1>4, IsWriting

LEMMA NextResume == SyncsAndRemovals /\ TokenInv /\ ResumeInv /\ [Next]_vars => ResumeInv'
<1> SUFFICES ASSUME SyncsAndRemovals, TokenInv, ResumeInv, [Next]_vars
             PROVE  ResumeInv'
  OBVIOUS
<1>1. CASE UNCHANGED <<gen, rows, kc, procs>>
  BY <1>1 DEF procs, ResumeInv, OneMailbox, Shaped, Within, Settled, Settles, WillStore, Honoured
<1>2. CASE Expire \/ ChangeKeys \/ UNCHANGED vars
  BY <1>1, <1>2 DEF Expire, ChangeKeys, vars, proton
<1>3. ASSUME NEW p \in Procs, Step(p)
      PROVE  ResumeInv'
  <2>1. CASE StartAdd(p) \/ StartRemove(p) \/ StartResume(p)
    BY <2>1, StartKeeps
  <2>2. CASE \/ ReadRefreshToken(p) \/ ReadAccessToken(p) \/ ReadKeyPass(p)
             \/ ReadPassphrase(p) \/ ReadFails(p)
    BY <2>2, ReadsKeep
  <2>3. CASE Resume(p)
    BY <2>3, ResumeKeeps
  <2>4. CASE Probe(p) \/ CallForKeys(p) \/ SyncCalls(p)
    BY <2>4, CallsKeep
  <2>5. CASE CallForKeysFails(p) \/ Interrupt(p) \/ SyncCallFails(p)
    BY <2>5, CallFailsKeep DEF Interrupt, SyncCallFails, Disturb, SyncsAndRemovals
  <2>6. CASE UnlockWithKeyPass(p) \/ Unlock(p) \/ StoreKeyPass(p)
    BY <2>6, UnlocksKeep
  <2>7. CASE SyncEnds(p)
    BY <2>7, SyncEndsKeep
  <2>8. CASE Login(p) \/ LoginFails(p) \/ Crash(p)
    <3>1. CASE Login(p) \/ LoginFails(p)
      BY <3>1, IsSync DEF Login, LoginFails
    <3>2. CASE Crash(p)
      BY <3>2 DEF Crash, Disturb, SyncsAndRemovals
    <3> QED BY <2>8, <3>1, <3>2
  <2>9. CASE Flag(p)
    BY <2>9, FlagKeeps
  <2>10. CASE Write(p)
    BY <2>10, IsWriting, SyncWriteKeeps, RemoveWriteKeeps DEF Write
  <2>11. CASE WriteFails(p)
    BY <2>11, WriteFailsKeep
  <2> QED
    BY <1>3, <2>1, <2>2, <2>3, <2>4, <2>5, <2>6, <2>7, <2>8, <2>9, <2>10, <2>11 DEF Step
<1> QED BY <1>2, <1>3 DEF Next

LEMMA InitResume == Init => ResumeInv
<1> SUFFICES ASSUME Init
             PROVE  ResumeInv
  OBVIOUS
<1>1. /\ gen = [s \in Sessions |-> IF s = 1 /\ Added # {} THEN 1 ELSE 0]
      /\ rows = [id \in Ids |-> IF id \in Added THEN AddedRow ELSE NoRow]
      /\ kc = [id \in Ids |-> IF id \in Added THEN AddedSecrets ELSE NoSecrets]
      /\ pc = [p \in Procs |-> "idle"] /\ cmd = [p \in Procs |-> "none"]
      /\ plan = [p \in Procs |-> << >>]
  BY DEF Init
<1>2. AddedRow.uid = 1 /\ NoRow.state # "active"
  BY DEF AddedRow, NoRow
<1>3. OneMailbox
  BY <1>1, <1>2 DEF OneMailbox
<1>4. \A p \in Procs : Shaped(p)
  BY <1>1 DEF Shaped
<1>5. ASSUME NEW id \in Ids, id \in Added
      PROVE  Honoured(kc[id].refresh, rows[id].uid)
  <2>1. 1 \in Sessions /\ gen[1] = 1
    BY <1>1, <1>5, SessionBounds DEF Sessions
  <2>2. kc[id].refresh.sess = 1 /\ kc[id].refresh.gen = 1 /\ rows[id].uid = 1
    BY <1>1, <1>2, <1>5 DEF AddedSecrets
  <2> QED BY <2>1, <2>2 DEF Honoured
<1>6. Settled
  BY <1>1, <1>2, <1>5 DEF Settled
<1> QED BY <1>3, <1>4, <1>6 DEF ResumeInv

\* However syncs and removals of a mailbox overlap, whatever secrets cannot be
\* read or stored, and whichever of the calls that open the mailbox fail, a
\* mailbox at rest that is listed as active has a refresh token that Proton
\* honours, or none: one that was spent and not stored has flagged it.  That no
\* refresh loses its answer later in the run, and that no run is cancelled,
\* killed or refused by the store, is assumed: the code flags none of these.
THEOREM RestIsResumable ==
  ASSUME SyncsAndRemovals
  PROVE  Spec => []ActiveIsResumable
<1>1. TokenInv /\ ResumeInv /\ [Next]_vars => ResumeInv'
  BY NextResume
<1>2. ResumeInv => ActiveIsResumable
  <2> SUFFICES ASSUME ResumeInv, NEW id \in Ids, rows[id].state = "active", ~InUse(id),
                      kc[id].refresh # NoToken
               PROVE  Honoured(kc[id].refresh, rows[id].uid)
    BY DEF ActiveIsResumable
  <2>1. ASSUME NEW p \in Procs, Settles(p)
        PROVE  FALSE
    <3>1. pc[p] # "idle"
      BY <2>1 DEF Settles, WillStore, Using
    <3>2. box[p] \in Added /\ box[p] # id
      BY <3>1 DEF ResumeInv, OneMailbox, InUse
    <3>3. rows[id] = NoRow
      BY <3>2, OnlyRow
    <3> QED BY <3>3 DEF NoRow
  <2> QED BY <2>1 DEF ResumeInv, Settled
<1> QED BY <1>1, <1>2, InitResume, TokensAlways, PTL DEF Spec

-----------------------------------------------------------------------------
(* Commands one at a time.                                                 *)
(*                                                                         *)
(* What no overlap disturbs: a command reads the row and its secrets, and  *)
(* finds them as it read them when it comes to write.  Each step is tied   *)
(* to what the store holds at that moment, and each list of writes to what *)
(* it has stored so far.                                                   *)

OneAtATime == \A p, q \in Procs : p = q

HasRow(id) == rows[id].state # "none"

\* What is left of p's writes is the end of the list P, of which so many are done.
Left(p, P) ==
    /\ Len(plan[p]) \in 1..Len(P)
    /\ \A i \in 1..Len(plan[p]) : plan[p][i] = P[(Len(P) - Len(plan[p])) + i]
Done(p, P) == Len(P) - Len(plan[p])

FlagOnly == << <<"row", "needs_reauth">> >>
FlagThenUid == << <<"row", "needs_reauth">>, <<"rotate", "uid">> >>

\* The steps before there is a client.
Reading == {"readRefresh", "readAccess", "resume"}

\* An add has inserted its row, the only one, before it stores a secret.
AddsRow(p) ==
    LET b == box[p]  n == Done(p, AddPlan)
    IN  /\ Left(p, AddPlan)
        /\ \A id \in Ids \ {b} : rows[id] = NoRow
        /\ n = 0 <=> rows[b] = NoRow
        /\ n <= 2 => kc[b] = NoSecrets

\* A second failure, in what undoes a failed add, leaves secrets.
Botched(p) ==
    /\ cmd[p] = "cleanup" /\ "add" \in Commands
    /\ "keychain" \in Disturbances /\ disturbed >= 2

\* A removal has deleted so many secrets.
Removes(p) ==
    LET s == kc[box[p]]  n == Done(p, RemovePlan)
    IN  /\ Left(p, RemovePlan) /\ HasRow(box[p])
        /\ cmd[p] = "cleanup" => disturbed >= 1 /\ "add" \in Commands
        /\ \/ Botched(p)
           \/ /\ n >= 1 => s.refresh = NoToken
              /\ n >= 2 => s.access = NoToken
              /\ n >= 3 => s.passphrase = 0
              /\ n >= 4 => s.keypass = 0

\* The writes that do not add or remove a row.
Updates(p) ==
    /\ HasRow(box[p])
    /\ \/ cmd[p] = "sync" /\ (Left(p, PersistPlan) \/ Left(p, FlagThenUid))
       \/ cmd[p] = "labels" /\ (Left(p, PersistPlan) \/ Left(p, FlagOnly))
       \/ cmd[p] = "refresh" /\ (Left(p, RefreshPlan) \/ Left(p, WriteSecrets)
                                 \/ Left(p, FlagOnly))

Placed(p) ==
    /\ pc[p] # "write" => plan[p] = << >>
    /\ pc[p] \in Reading \union Using =>
        cmd[p] \in {"sync", "labels", "refresh"} /\ HasRow(box[p])
    /\ pc[p] = "probe" => cmd[p] # "sync"
    /\ pc[p] \in Using \ {"probe"} => cmd[p] # "labels"
    /\ pc[p] = "sync" => cmd[p] = "sync"
    /\ pc[p] = "flag" => cmd[p] \in {"sync", "refresh"} /\ HasRow(box[p])
    /\ pc[p] = "login" =>
        \/ cmd[p] = "refresh" /\ HasRow(box[p])
        \/ cmd[p] = "add" /\ kc[box[p]] = NoSecrets /\ \A id \in Ids : rows[id] = NoRow
    /\ pc[p] = "write" =>
        \/ cmd[p] = "add" /\ AddsRow(p)
        \/ cmd[p] \in {"remove", "cleanup"} /\ Removes(p)
        \/ Updates(p)

\* A row is there whole or not at all.
RowsWhole == \A id \in Ids : rows[id].state = "none" => rows[id] = NoRow

PlaceInv ==
    /\ disturbed \in 0..MaxDisturbances /\ RowsWhole
    /\ \A p \in Procs : Placed(p)

-----------------------------------------------------------------------------
(* The lists of writes, one by one.                                        *)

LEMMA EachIs ==
  ASSUME NEW verb
  PROVE  /\ Each(verb)[1] = <<verb, "refresh">> /\ Each(verb)[2] = <<verb, "access">>
         /\ Each(verb)[3] = <<verb, "passphrase">> /\ Each(verb)[4] = <<verb, "keypass">>
<1>1. /\ AllKinds[1] = "refresh" /\ AllKinds[2] = "access"
      /\ AllKinds[3] = "passphrase" /\ AllKinds[4] = "keypass"
  BY DEF AllKinds
<1>2. \A i \in 1..4 : Each(verb)[i] = <<verb, AllKinds[i]>>
  BY DEF Each
<1> QED BY <1>1, <1>2

LEMMA PersistPlanIs ==
  /\ Len(PersistPlan) = 3 /\ PersistPlan[1] = <<"rotate", "access">>
  /\ PersistPlan[2] = <<"rotate", "refresh">> /\ PersistPlan[3] = <<"rotate", "uid">>
BY DEF PersistPlan

LEMMA RefreshPlanIs ==
  /\ Len(RefreshPlan) = 4 /\ RefreshPlan[1] = <<"rotate", "access">>
  /\ RefreshPlan[2] = <<"rotate", "refresh">> /\ RefreshPlan[3] = <<"rotate", "uid">>
  /\ RefreshPlan[4] = <<"row", "active">>
<1>1. PersistPlan \in Seq(Ops) /\ <<"row", "active">> \in Ops
  <2>1. PersistPlan \in Seq(Ops)
    BY PlansFit DEF Fit
  <2> QED BY <2>1 DEF Ops
<1>2. \A q \in Seq(Ops), op \in Ops :
          /\ Len(Append(q, op)) = Len(q) + 1
          /\ \A i \in 1..Len(q) : Append(q, op)[i] = q[i]
          /\ Append(q, op)[Len(q) + 1] = op
  BY AppendProperties
<1>3. /\ Len(RefreshPlan) = Len(PersistPlan) + 1
      /\ \A i \in 1..Len(PersistPlan) : RefreshPlan[i] = PersistPlan[i]
      /\ RefreshPlan[Len(PersistPlan) + 1] = <<"row", "active">>
  BY <1>1, <1>2, Zenon DEF RefreshPlan
<1> QED BY <1>3, PersistPlanIs

LEMMA RemovalIs ==
  /\ Len(RemovePlan) = 5
  /\ RemovePlan[1] = <<"delete", "refresh">> /\ RemovePlan[2] = <<"delete", "access">>
  /\ RemovePlan[3] = <<"delete", "passphrase">> /\ RemovePlan[4] = <<"delete", "keypass">>
  /\ RemovePlan[5] = <<"row", "drop">>
BY RemovePlanIs, EachIs

LEMMA FlagPlansAre ==
  /\ Fit(FlagOnly) /\ Fit(FlagThenUid) /\ Len(FlagOnly) = 1 /\ Len(FlagThenUid) = 2
  /\ FlagOnly[1] = <<"row", "needs_reauth">> /\ FlagThenUid[1] = <<"row", "needs_reauth">>
  /\ FlagThenUid[2] = <<"rotate", "uid">>
<1>1. <<"row", "needs_reauth">> \in Ops /\ <<"rotate", "uid">> \in Ops
  BY DEF Ops
<1>2. ~StoresRefresh(<<"row", "needs_reauth">>) /\ ~StoresRefresh(<<"rotate", "uid">>)
  BY DEF StoresRefresh
<1>3. FlagOnly \in Seq(Ops) /\ FlagThenUid \in Seq(Ops)
  BY <1>1 DEF FlagOnly, FlagThenUid
<1>4. NeverStores(FlagOnly) /\ NeverStores(FlagThenUid)
  BY <1>2 DEF NeverStores, FlagOnly, FlagThenUid
<1>5. OnceOnly(FlagOnly) /\ OnceOnly(FlagThenUid)
  BY <1>4 DEF OnceOnly, NeverStores
<1> QED BY <1>3, <1>5 DEF Fit, FlagOnly, FlagThenUid

\* One list after another, by index.
LEMMA ConcatIs ==
  ASSUME NEW s \in Seq(Ops), NEW t \in Seq(Ops), NEW k \in Nat, NEW m \in Nat,
         Len(s) = k, Len(t) = m
  PROVE  /\ Len(s \o t) = k + m
         /\ \A i \in 1..k : (s \o t)[i] = s[i]
         /\ \A i \in 1..m : (s \o t)[k + i] = t[i]
<1>1. /\ Len(s \o t) = k + m
      /\ \A i \in 1..k + m : (s \o t)[i] = IF i <= k THEN s[i] ELSE t[i - k]
  BY ConcatProperties
<1>2. \A i \in 1..k : i \in 1..k + m /\ i <= k
  OBVIOUS
<1>3. \A i \in 1..m : k + i \in 1..k + m /\ ~(k + i <= k) /\ (k + i) - k = i
  OBVIOUS
<1> QED BY <1>1, <1>2, <1>3

LEMMA WriteSecretsIs ==
  /\ Len(WriteSecrets) = 6
  /\ WriteSecrets[1] = <<"set", "refresh">> /\ WriteSecrets[2] = <<"set", "access">>
  /\ WriteSecrets[3] = <<"set", "passphrase">> /\ WriteSecrets[4] = <<"set", "keypass">>
  /\ WriteSecrets[5] = <<"row", "uid">> /\ WriteSecrets[6] = <<"row", "active">>
<1> DEFINE end == << <<"row", "uid">>, <<"row", "active">> >>
           s == Each("set")
<1>1. s \in Seq(Ops) /\ Len(s) = 4
  BY EachOnce
<1>2. end \in Seq(Ops) /\ Len(end) = 2 /\ end[1] = <<"row", "uid">> /\ end[2] = <<"row", "active">>
  <2>1. <<"row", "uid">> \in Ops /\ <<"row", "active">> \in Ops
    BY DEF Ops
  <2> QED BY <2>1
<1>3. WriteSecrets = s \o end
  BY DEF WriteSecrets
<1>6. /\ s[1] = <<"set", "refresh">> /\ s[2] = <<"set", "access">>
      /\ s[3] = <<"set", "passphrase">> /\ s[4] = <<"set", "keypass">>
  BY EachIs DEF s
<1> HIDE DEF s, end
<1>4. /\ Len(s \o end) = 4 + 2
      /\ \A i \in 1..4 : (s \o end)[i] = s[i]
      /\ \A i \in 1..2 : (s \o end)[4 + i] = end[i]
  <2>1. 4 \in Nat /\ 2 \in Nat
    OBVIOUS
  <2> QED BY <1>1, <1>2, <2>1, ConcatIs, ZenonT(30)
<1>5. /\ WriteSecrets[1] = s[1] /\ WriteSecrets[2] = s[2] /\ WriteSecrets[3] = s[3]
      /\ WriteSecrets[4] = s[4] /\ WriteSecrets[5] = end[1] /\ WriteSecrets[6] = end[2]
  BY <1>3, <1>4
<1> QED BY <1>2, <1>3, <1>4, <1>5, <1>6

LEMMA AddPlanIs ==
  /\ Len(AddPlan) = 8
  /\ AddPlan[1] = <<"row", "insert">> /\ AddPlan[2] = <<"row", "user">>
  /\ AddPlan[3] = <<"set", "refresh">> /\ AddPlan[4] = <<"set", "access">>
  /\ AddPlan[5] = <<"set", "passphrase">> /\ AddPlan[6] = <<"set", "keypass">>
  /\ AddPlan[7] = <<"row", "uid">> /\ AddPlan[8] = <<"row", "active">>
<1> DEFINE new == << <<"row", "insert">>, <<"row", "user">> >>
<1>1. new \in Seq(Ops) /\ Len(new) = 2 /\ new[1] = <<"row", "insert">> /\ new[2] = <<"row", "user">>
  <2>1. <<"row", "insert">> \in Ops /\ <<"row", "user">> \in Ops
    BY DEF Ops
  <2> QED BY <2>1
<1>2. WriteSecrets \in Seq(Ops) /\ Len(WriteSecrets) = 6
  BY PlansFit, WriteSecretsIs DEF Fit
<1>3. AddPlan = new \o WriteSecrets
  BY DEF AddPlan
<1> HIDE DEF new
<1>4. /\ Len(new \o WriteSecrets) = 2 + 6
      /\ \A i \in 1..2 : (new \o WriteSecrets)[i] = new[i]
      /\ \A i \in 1..6 : (new \o WriteSecrets)[2 + i] = WriteSecrets[i]
  <2>1. 2 \in Nat /\ 6 \in Nat
    OBVIOUS
  <2> QED BY <1>1, <1>2, <2>1, ConcatIs, ZenonT(30)
<1>5. Len(AddPlan) = 8 /\ AddPlan[1] = new[1] /\ AddPlan[2] = new[2]
  BY <1>3, <1>4
<1>6. /\ AddPlan[3] = WriteSecrets[1] /\ AddPlan[4] = WriteSecrets[2]
      /\ AddPlan[5] = WriteSecrets[3] /\ AddPlan[6] = WriteSecrets[4]
      /\ AddPlan[7] = WriteSecrets[5] /\ AddPlan[8] = WriteSecrets[6]
  BY <1>3, <1>4
<1> QED BY <1>1, <1>5, <1>6, WriteSecretsIs

LEMMA TailIs ==
  ASSUME NEW s \in Seq(Ops), s # << >>
  PROVE  /\ Len(s) \in Nat /\ Len(Tail(s)) = Len(s) - 1 /\ Tail(s) \in Seq(Ops)
         /\ Tail(s) = << >> <=> Len(s) = 1
<1>1. Len(s) \in Nat /\ Len(Tail(s)) = Len(s) - 1 /\ Tail(s) \in Seq(Ops)
  OBVIOUS
<1>2. \A t \in Seq(Ops) : t = << >> <=> Len(t) = 0
  BY EmptySeq
<1>3. Tail(s) = << >> <=> Len(Tail(s)) = 0
  BY <1>1, <1>2
<1>4. Len(Tail(s)) = 0 <=> Len(s) = 1
  BY <1>1
<1> QED BY <1>1, <1>3, <1>4

\* The next write of what is left, and what is left then.
LEMMA LeftGoesOn ==
  ASSUME NEW P \in Seq(Ops), NEW p \in Procs, plan[p] \in Seq(Ops), Left(p, P)
  PROVE  /\ Len(P) \in Nat /\ Done(p, P) \in 0..(Len(P) - 1)
         /\ Head(plan[p]) = P[Done(p, P) + 1] /\ plan[p] # << >>
         /\ Tail(plan[p]) = << >> <=> Done(p, P) = Len(P) - 1
         /\ plan'[p] = Tail(plan[p]) /\ Tail(plan[p]) # << >> =>
                Left(p, P)' /\ Done(p, P)' = Done(p, P) + 1
<1> DEFINE s == plan[p]
<1>1. Len(P) \in Nat
  OBVIOUS
<1>2. s \in Seq(Ops) /\ Len(s) \in 1..Len(P) /\ s # << >>
  <2>1. Len(s) \in 1..Len(P)
    BY DEF Left
  <2> QED BY <2>1
<1>3. \A i \in 1..Len(s) : s[i] = P[(Len(P) - Len(s)) + i]
  BY DEF Left
<1>4. Done(p, P) = Len(P) - Len(s)
  BY DEF Done
<1> HIDE DEF s
<1>5. /\ Head(s) = s[1] /\ Tail(s) \in Seq(Ops) /\ 1 \in 1..Len(s)
      /\ \A i \in 1..Len(Tail(s)) : i + 1 \in 1..Len(s) /\ Tail(s)[i] = s[i + 1]
  BY <1>2, Rest
<1>6. Len(s) \in Nat /\ Len(Tail(s)) = Len(s) - 1 /\ (Tail(s) = << >> <=> Len(s) = 1)
  BY <1>2, TailIs
<1>7. Head(s) = P[Done(p, P) + 1]
  BY <1>3, <1>4, <1>5
<1>8. Done(p, P) \in 0..(Len(P) - 1) /\ (Tail(s) = << >> <=> Done(p, P) = Len(P) - 1)
  BY <1>1, <1>2, <1>4, <1>6
<1>9. ASSUME plan'[p] = Tail(s), Tail(s) # << >>
      PROVE  Left(p, P)' /\ Done(p, P)' = Done(p, P) + 1
  <2>1. Len(plan'[p]) = Len(s) - 1 /\ Len(s) - 1 \in 1..Len(P)
    BY <1>1, <1>2, <1>6, <1>9
  <2>2. ASSUME NEW i \in 1..Len(plan'[p])
        PROVE  plan'[p][i] = P[(Len(P) - Len(plan'[p])) + i]
    <3>1. i + 1 \in 1..Len(s) /\ plan'[p][i] = s[i + 1]
      BY <1>5, <1>9, <2>2
    <3>2. (Len(P) - Len(s)) + (i + 1) = (Len(P) - Len(plan'[p])) + i
      BY <1>1, <1>6, <2>1, <2>2
    <3> QED BY <1>3, <3>1, <3>2
  <2>3. Done(p, P)' = Done(p, P) + 1
    <3>1. Done(p, P)' = Len(P) - Len(plan'[p])
      BY DEF Done
    <3> QED BY <1>1, <1>4, <1>6, <2>1, <3>1
  <2> QED BY <2>1, <2>2, <2>3 DEF Left
<1> QED BY <1>1, <1>2, <1>7, <1>8, <1>9 DEF s

LEMMA LeftBegins ==
  ASSUME NEW P, Fit(P), NEW p \in Procs, plan'[p] = P
  PROVE  Left(p, P)' /\ Done(p, P)' = 0
<1>1. P \in Seq(Ops) /\ P # << >>
  BY DEF Fit
<1>2. Len(P) \in Nat /\ Len(P) # 0
  BY <1>1
<1>3. Len(P) \in 1..Len(P) /\ Len(P) - Len(P) = 0 /\ \A i \in 1..Len(P) : 0 + i = i
  BY <1>2
<1>4. \A i \in 1..Len(P) : P[i] = P[(Len(P) - Len(P)) + i]
  BY <1>3
<1> QED BY <1>3, <1>4 DEF Left, Done

-----------------------------------------------------------------------------
(* Where a command is.                                                     *)

LEMMA RowsAre ==
  ASSUME RowsWhole, NEW id \in Ids
  PROVE  rows[id] = NoRow <=> ~HasRow(id)
BY DEF RowsWhole, HasRow, NoRow

\* What a command that ends leaves.
LEMMA EndIs ==
  ASSUME ProcType, NEW p \in Procs, EndCommand(p)
  PROVE  /\ pc'[p] = "idle" /\ cmd'[p] = "none" /\ plan'[p] = << >>
         /\ seed'[p] = NoClient /\ client'[p] = NoClient
BY DEF EndCommand, ProcType

LEMMA EndPlaced ==
  ASSUME ProcType, NEW p \in Procs, EndCommand(p)
  PROVE  Placed(p)'
<1>1. pc'[p] = "idle" /\ plan'[p] = << >>
  BY EndIs
<1> QED BY <1>1 DEF Placed, Reading, Using

\* The steps from the first read to the writes.
Works(p) ==
    \/ ReadRefreshToken(p) \/ ReadAccessToken(p) \/ Resume(p) \/ ReadKeyPass(p)
    \/ ReadPassphrase(p) \/ ReadFails(p) \/ Probe(p) \/ CallForKeys(p)
    \/ CallForKeysFails(p) \/ UnlockWithKeyPass(p) \/ Unlock(p) \/ StoreKeyPass(p)
    \/ SyncCalls(p) \/ SyncCallFails(p) \/ SyncEnds(p)

\* Where they lead.
LEMMA WorksMove ==
  ASSUME ProcType, NEW p \in Procs, Placed(p), Works(p)
  PROVE  /\ pc[p] \in Reading \union Using /\ rows' = rows
         /\ \/ EndCommand(p)
            \/ /\ cmd'[p] = cmd[p] /\ box'[p] = box[p]
               /\ \/ /\ plan'[p] = << >> /\ pc'[p] \in Reading \union Using
                     /\ pc'[p] = "probe" => cmd[p] # "sync"
                     /\ pc'[p] \in Using \ {"probe"} => cmd[p] # "labels"
                     /\ pc'[p] = "sync" => cmd[p] = "sync"
                  \/ plan'[p] = << >> /\ pc'[p] = "flag" /\ cmd[p] # "labels"
                  \/ plan'[p] = PersistPlan /\ pc'[p] = "write" /\ cmd[p] \in {"sync", "labels"}
                  \/ plan'[p] = RefreshPlan /\ pc'[p] = "write" /\ cmd[p] = "refresh"
<1> DEFINE Goes(step) == pc'[p] = step /\ cmd'[p] = cmd[p] /\ box'[p] = box[p]
<1>1. /\ pc[p] \in Reading \union Using /\ rows' = rows
  <2>1. CASE \/ ReadRefreshToken(p) \/ ReadAccessToken(p) \/ Resume(p) \/ ReadKeyPass(p)
             \/ ReadPassphrase(p) \/ ReadFails(p)
    BY <2>1 DEF ReadRefreshToken, ReadAccessToken, Resume, ReadKeyPass, ReadPassphrase,
                ReadFails, Reading, Using
  <2>2. CASE \/ Probe(p) \/ CallForKeys(p) \/ CallForKeysFails(p)
             \/ SyncCalls(p) \/ SyncCallFails(p) \/ SyncEnds(p)
    BY <2>2 DEF Probe, CallForKeys, CallForKeysFails, SyncCalls, SyncCallFails, SyncEnds, Using
  <2>3. CASE UnlockWithKeyPass(p) \/ Unlock(p) \/ StoreKeyPass(p)
    BY <2>3 DEF UnlockWithKeyPass, Unlock, StoreKeyPass, Using
  <2> QED BY <2>1, <2>2, <2>3 DEF Works
<1>2. /\ cmd[p] \in {"sync", "labels", "refresh"} /\ plan[p] = << >>
      /\ pc[p] = "probe" => cmd[p] # "sync"
      /\ pc[p] \in Using \ {"probe"} => cmd[p] # "labels"
      /\ pc[p] = "sync" => cmd[p] = "sync"
  BY <1>1 DEF Placed, Reading, Using
<1>3. /\ DOMAIN pc = Procs /\ DOMAIN plan = Procs
  BY Domains
<1>4. ASSUME NEW step, Proceed(p, step)
      PROVE  Goes(step) /\ plan'[p] = << >>
  BY <1>2, <1>3, <1>4 DEF Proceed
<1>5. ASSUME NEW kind, NEW step, Read(p, kind, step)
      PROVE  Goes(step) /\ plan'[p] = << >>
  BY <1>2, <1>3, <1>5 DEF Read
<1>6. ASSUME NEW ops, BeginWrites(p, ops)
      PROVE  Goes("write") /\ plan'[p] = ops
  BY <1>3, <1>6 DEF BeginWrites
<1>7. CASE GiveUp(p)
  BY <1>1, <1>4, <1>7 DEF GiveUp, AfterRefusal
<1>8. ASSUME AfterUnlock(p), pc[p] \in {"open", "heal"}
      PROVE  \/ plan'[p] = << >> /\ Goes("sync") /\ cmd[p] = "sync"
             \/ plan'[p] = RefreshPlan /\ Goes("write") /\ cmd[p] = "refresh"
  <2>1. cmd[p] # "labels"
    BY <1>2, <1>8 DEF Using
  <2>2. CASE cmd[p] = "sync"
    BY <1>2, <1>3, <1>8, <2>2 DEF AfterUnlock
  <2>3. CASE cmd[p] # "sync"
    BY <1>2, <1>6, <1>8, <2>1, <2>3 DEF AfterUnlock
  <2> QED BY <2>2, <2>3
<1>9. CASE \/ ReadRefreshToken(p) \/ ReadAccessToken(p) \/ ReadKeyPass(p) \/ ReadPassphrase(p)
           \/ ReadFails(p)
  <2>1. CASE ReadRefreshToken(p)
    <3>1. GiveUp(p) \/ Read(p, "refresh", "readAccess")
      BY <2>1 DEF ReadRefreshToken
    <3> QED BY <1>1, <1>5, <1>7, <3>1 DEF Reading, Using
  <2>2. CASE ReadAccessToken(p)
    <3>1. GiveUp(p) \/ Read(p, "access", "resume")
      BY <2>2 DEF ReadAccessToken
    <3> QED BY <1>1, <1>5, <1>7, <3>1 DEF Reading, Using
  <2>3. CASE ReadKeyPass(p)
    <3>1. /\ Goes("readPassphrase") \/ Goes("callForKeys")
          /\ plan'[p] = << >> /\ pc[p] = "readKeyPass"
      BY <1>5, <2>3 DEF ReadKeyPass
    <3> QED BY <1>1, <1>2, <3>1 DEF Reading, Using
  <2>4. CASE ReadPassphrase(p)
    <3>1. pc[p] = "readPassphrase" /\ (GiveUp(p) \/ Read(p, "passphrase", "callForSalts"))
      BY <2>4 DEF ReadPassphrase
    <3> QED BY <1>1, <1>2, <1>5, <1>7, <3>1 DEF Reading, Using
  <2>5. CASE ReadFails(p)
    <3>1. GiveUp(p) \/ EndCommand(p)
      BY <2>5 DEF ReadFails
    <3> QED BY <1>1, <1>7, <3>1
  <2> QED BY <1>9, <2>1, <2>2, <2>3, <2>4, <2>5
<1>10. CASE Resume(p)
  <2>1. /\ Goes(IF cmd[p] = "sync" THEN "readKeyPass" ELSE "probe") /\ plan'[p] = << >>
        /\ pc[p] = "resume"
    BY <1>2, <1>3, <1>10 DEF Resume
  <2> QED BY <1>1, <1>2, <2>1 DEF Reading, Using
<1>11. CASE Probe(p)
  <2>1. pc[p] = "probe" /\ Goes(AfterProbe(cmd[p])) /\ cmd[p] # "sync"
    BY <1>2, <1>3, <1>11 DEF Probe
  <2>2. CASE cmd[p] = "labels"
    <3>1. AfterProbe(cmd[p]) = "write"
      BY <2>2 DEF AfterProbe
    <3>2. plan'[p] = PersistPlan
      BY <1>3, <1>11, <2>2, <3>1 DEF Probe
    <3> QED BY <1>1, <2>1, <2>2, <3>1, <3>2
  <2>3. CASE cmd[p] # "labels"
    <3>1. AfterProbe(cmd[p]) = "readKeyPass"
      BY <2>3 DEF AfterProbe
    <3>2. plan'[p] = << >>
      BY <1>3, <1>11, <2>3, <3>1 DEF Probe
    <3> QED BY <1>1, <2>1, <2>3, <3>1, <3>2 DEF Using
  <2> QED BY <2>2, <2>3
<1>12. CASE CallForKeys(p)
  <2>1. /\ pc[p] \in {"callForKeys", "callForSalts"} /\ plan'[p] = << >>
        /\ Goes("open") \/ Goes("derive")
    BY <1>2, <1>3, <1>12 DEF CallForKeys
  <2> QED BY <1>1, <1>2, <2>1 DEF Using
<1>13. CASE CallForKeysFails(p)
  BY <1>1, <1>7, <1>13 DEF CallForKeysFails
<1>14. CASE UnlockWithKeyPass(p)
  <2>1. pc[p] = "open" /\ (AfterUnlock(p) \/ Proceed(p, "readPassphrase"))
    BY <1>14 DEF UnlockWithKeyPass
  <2> QED BY <1>1, <1>2, <1>4, <1>8, <2>1 DEF Using
<1>15. CASE Unlock(p)
  <2>1. /\ pc[p] = "derive"
        /\ \/ GiveUp(p)
           \/ pc' = [pc EXCEPT ![p] = "heal"] /\ UNCHANGED <<cmd, box, plan>>
    BY <1>15 DEF Unlock
  <2> QED BY <1>1, <1>2, <1>3, <1>7, <2>1 DEF Using
<1>16. CASE StoreKeyPass(p)
  <2>1. pc[p] = "heal" /\ AfterUnlock(p)
    BY <1>16 DEF StoreKeyPass
  <2> QED BY <1>1, <1>2, <1>8, <2>1 DEF Using
<1>17. CASE SyncCalls(p) \/ SyncCallFails(p)
  <2>1. pc[p] = "sync" /\ Goes("sync") /\ plan'[p] = << >>
    BY <1>2, <1>3, <1>17 DEF SyncCalls, SyncCallFails, procs
  <2> QED BY <1>1, <1>2, <2>1
<1>18. CASE SyncEnds(p)
  <2>1. pc[p] = "sync" /\ Goes("write") /\ plan'[p] = PersistPlan
    BY <1>6, <1>18 DEF SyncEnds
  <2> QED BY <1>1, <1>2, <2>1
<1> QED
  BY <1>9, <1>10, <1>11, <1>12, <1>13, <1>14, <1>15, <1>16, <1>17, <1>18 DEF Works

LEMMA WorksPlaced ==
  ASSUME ProcType, RowsWhole, NEW p \in Procs, Placed(p), Works(p)
  PROVE  Placed(p)' /\ RowsWhole'
<1>1. /\ pc[p] \in Reading \union Using /\ rows' = rows
      /\ HasRow(box[p]) /\ cmd[p] \in {"sync", "labels", "refresh"}
  <2>1. pc[p] \in Reading \union Using /\ rows' = rows
    BY WorksMove
  <2> QED BY <2>1 DEF Placed
<1>2. RowsWhole'
  BY <1>1 DEF RowsWhole
<1>3. CASE EndCommand(p)
  BY <1>2, <1>3, EndPlaced
<1>4. CASE ~EndCommand(p)
  <2>1. cmd'[p] = cmd[p] /\ box'[p] = box[p] /\ HasRow(box[p])'
    <3>1. cmd'[p] = cmd[p] /\ box'[p] = box[p]
      BY <1>4, WorksMove
    <3> QED BY <1>1, <3>1 DEF HasRow
  <2>2. CASE /\ plan'[p] = << >> /\ pc'[p] \in Reading \union Using
             /\ pc'[p] = "probe" => cmd[p] # "sync"
             /\ pc'[p] \in Using \ {"probe"} => cmd[p] # "labels"
             /\ pc'[p] = "sync" => cmd[p] = "sync"
    BY <1>1, <1>2, <2>1, <2>2 DEF Placed, Reading, Using
  <2>3. CASE plan'[p] = << >> /\ pc'[p] = "flag" /\ cmd[p] # "labels"
    BY <1>1, <1>2, <2>1, <2>3 DEF Placed, Reading, Using
  <2>4. CASE plan'[p] = PersistPlan /\ pc'[p] = "write" /\ cmd[p] \in {"sync", "labels"}
    <3>1. Left(p, PersistPlan)'
      BY <2>4, PlansFit, LeftBegins
    <3>2. Updates(p)'
      BY <2>1, <2>4, <3>1 DEF Updates
    <3> QED BY <1>2, <2>1, <2>4, <3>2 DEF Placed, Reading, Using
  <2>5. CASE plan'[p] = RefreshPlan /\ pc'[p] = "write" /\ cmd[p] = "refresh"
    <3>1. Left(p, RefreshPlan)'
      BY <2>5, PlansFit, LeftBegins
    <3>2. Updates(p)'
      BY <2>1, <2>5, <3>1 DEF Updates
    <3> QED BY <1>2, <2>1, <2>5, <3>2 DEF Placed, Reading, Using
  <2> QED BY <1>2, <1>4, <2>2, <2>3, <2>4, <2>5, WorksMove
<1> QED BY <1>3, <1>4

\* Commands begin, log in, flag, or stop.
LEMMA StartPlaced ==
  ASSUME ProcType, RowsWhole, NEW p \in Procs, Placed(p),
         StartAdd(p) \/ StartRemove(p) \/ StartResume(p)
  PROVE  Placed(p)' /\ RowsWhole'
<1>1. pc[p] = "idle" /\ rows' = rows /\ kc' = kc
  BY DEF StartAdd, StartRemove, StartResume, Begin
<1>2. plan[p] = << >>
  BY <1>1 DEF Placed
<1>3. RowsWhole'
  BY <1>1 DEF RowsWhole
<1>4. \A c, id, step : Begin(p, c, id, step) => pc'[p] = step /\ cmd'[p] = c /\ box'[p] = id
  BY DEF Begin, ProcType
<1>5. \A id \in Ids : rows[id] # NoRow => HasRow(id)'
  BY <1>1, RowsAre DEF HasRow
<1>6. CASE StartAdd(p)
  <2>1. PICK id \in Ids : /\ \A i \in Ids : rows[i] = NoRow
                          /\ kc[id] = NoSecrets /\ Begin(p, "add", id, "login") /\ plan' = plan
    BY <1>6 DEF StartAdd
  <2> QED BY <1>1, <1>2, <1>3, <1>4, <2>1 DEF Placed, Reading, Using
<1>7. CASE StartRemove(p)
  <2>1. PICK id \in Ids : /\ rows[id] # NoRow /\ Begin(p, "remove", id, "write")
                          /\ plan' = [plan EXCEPT ![p] = RemovePlan]
    BY <1>7 DEF StartRemove
  <2>2. /\ pc'[p] = "write" /\ cmd'[p] = "remove" /\ box'[p] = id /\ plan'[p] = RemovePlan
        /\ HasRow(id)'
    BY <1>4, <1>5, <2>1, Domains
  <2>3. Left(p, RemovePlan)' /\ Done(p, RemovePlan)' = 0
    BY <2>2, PlansFit, LeftBegins
  <2>4. Removes(p)'
    BY <2>2, <2>3 DEF Removes
  <2> QED BY <1>3, <2>2, <2>4 DEF Placed, Reading, Using
<1>8. CASE StartResume(p)
  <2>1. PICK id \in Ids, c \in {"sync", "labels", "refresh"} :
            /\ rows[id] # NoRow /\ (rows[id].user \/ c = "sync") /\ plan' = plan
            /\ Begin(p, c, id, IF rows[id].user THEN "readRefresh" ELSE "flag")
    BY <1>8 DEF StartResume
  <2>2. /\ pc'[p] = "readRefresh" \/ (pc'[p] = "flag" /\ c = "sync")
        /\ cmd'[p] = c /\ box'[p] = id /\ plan'[p] = << >> /\ HasRow(id)'
    BY <1>2, <1>4, <1>5, <2>1
  <2> QED BY <1>3, <2>2 DEF Placed, Reading, Using
<1> QED BY <1>6, <1>7, <1>8

LEMMA LoginPlaced ==
  ASSUME ProcType, RowsWhole, NEW p \in Procs, Placed(p), Login(p)
  PROVE  Placed(p)' /\ RowsWhole'
<1>1. pc[p] = "login" /\ rows' = rows /\ kc' = kc
  BY DEF Login
<1>2. RowsWhole'
  BY <1>1 DEF RowsWhole
<1>3. CASE EndCommand(p)
  BY <1>2, <1>3, EndPlaced
<1>4. CASE BeginWrites(p, IF cmd[p] = "add" THEN AddPlan ELSE WriteSecrets)
  <2>1. /\ pc'[p] = "write" /\ cmd'[p] = cmd[p] /\ box'[p] = box[p]
        /\ plan'[p] = IF cmd[p] = "add" THEN AddPlan ELSE WriteSecrets
    BY <1>4, Domains DEF BeginWrites
  <2>2. CASE cmd[p] = "add"
    <3>1. Left(p, AddPlan)' /\ Done(p, AddPlan)' = 0
      BY <2>1, <2>2, PlansFit, LeftBegins
    <3>2. kc[box[p]] = NoSecrets /\ (\A id \in Ids : rows[id] = NoRow) /\ box[p] \in Ids
      BY <1>1, <2>2 DEF Placed, ProcType
    <3>3. AddsRow(p)'
      BY <1>1, <2>1, <3>1, <3>2 DEF AddsRow
    <3> QED BY <1>2, <2>1, <2>2, <3>3 DEF Placed, Reading, Using
  <2>3. CASE cmd[p] = "refresh"
    <3>1. Left(p, WriteSecrets)'
      BY <2>1, <2>3, PlansFit, LeftBegins
    <3>2. HasRow(box[p])'
      BY <1>1, <2>1, <2>3 DEF Placed, HasRow
    <3>3. Updates(p)'
      BY <2>1, <2>3, <3>1, <3>2 DEF Updates
    <3> QED BY <1>2, <2>1, <2>3, <3>3 DEF Placed, Reading, Using
  <2> QED BY <1>1, <2>2, <2>3 DEF Placed
<1> QED BY <1>3, <1>4 DEF Login

\* A row keeps its place when its state is set.
LEMMA FlagRow ==
  ASSUME SessionType, RowsWhole, NEW p \in Procs, Flag(p)
  PROVE  RowsWhole' /\ \A id \in Ids : HasRow(id)' <=> HasRow(id)
<1>1. rows \in [Ids -> [state : States, user : BOOLEAN, uid : Uids]]
  BY DEF SessionType, StoreType
<1>2. CASE rows' = rows
  BY <1>2 DEF RowsWhole, HasRow
<1>3. CASE rows[box[p]] # NoRow /\ rows' = [rows EXCEPT ![box[p]].state = "needs_reauth"]
  <2>1. \A id \in Ids : id # box[p] => rows'[id] = rows[id]
    BY <1>1, <1>3
  <2>2. box[p] \in Ids => HasRow(box[p]) /\ rows'[box[p]].state = "needs_reauth"
    BY <1>1, <1>3, RowsAre
  <2> QED BY <2>1, <2>2 DEF RowsWhole, HasRow
<1> QED BY <1>2, <1>3 DEF Flag

LEMMA FlagPlaced ==
  ASSUME SessionType, RowsWhole, NEW p \in Procs, Placed(p), Flag(p)
  PROVE  Placed(p)' /\ RowsWhole'
<1>1. /\ pc[p] = "flag" /\ HasRow(box[p]) /\ box[p] \in Ids /\ plan[p] = << >>
      /\ ProcType
  BY DEF Flag, Placed, SessionType, ProcType
<1>2. CASE EndCommand(p)
  BY <1>1, <1>2, EndPlaced, FlagRow
<1>3. CASE cmd[p] = "refresh" /\ Proceed(p, "login")
  <2>1. /\ pc'[p] = "login" /\ cmd'[p] = "refresh" /\ box'[p] = box[p] /\ plan'[p] = << >>
    BY <1>1, <1>3, Domains DEF Proceed
  <2>2. HasRow(box[p])'
    <3>1. \A id \in Ids : HasRow(id)' <=> HasRow(id)
      BY FlagRow
    <3> QED BY <1>1, <2>1, <3>1 DEF HasRow
  <2> QED BY <2>1, <2>2, FlagRow DEF Placed, Reading, Using
<1> QED BY <1>2, <1>3 DEF Flag

-----------------------------------------------------------------------------
(* What a write does.                                                      *)

\* An operation is a secret's or a row's.
LEMMA OpsAre ==
  ASSUME NEW p \in Procs, NEW op
  PROVE  /\ op[1] = "row" => Stores(p, op)
         /\ op[1] \in {"set", "delete"} => UsesKeychain(p, op)
         /\ Stores(p, op) => op[1] = "row" \/ op = <<"rotate", "uid">>
         /\ UsesKeychain(p, op) => op[1] \in {"set", "delete"} \/ op = <<"rotate", "access">>
                                   \/ op = <<"rotate", "refresh">>
BY DEF Stores, UsesKeychain

\* The row after a write that is not its removal.
LEMMA RowWritten ==
  ASSUME SessionType, RowsWhole, NEW p \in Procs, Write(p), NEW op, op = Head(plan[p]), op \in Ops,
         box[p] \in Ids
  PROVE  /\ \A id \in Ids \ {box[p]} : rows'[id] = rows[id] /\ kc'[id] = kc[id]
         /\ op # <<"row", "drop">> =>
              /\ RowsWhole'
              /\ HasRow(box[p]) \/ op = <<"row", "insert">> => rows'[box[p]].state # "none"
         /\ op = <<"row", "drop">> => RowsWhole' /\ rows'[box[p]] = NoRow
<1> DEFINE b == box[p]
<1>1. /\ rows \in [Ids -> [state : States, user : BOOLEAN, uid : Uids]] /\ kc \in [Ids -> Secrets]
  BY DEF SessionType, StoreType
<1>2. /\ rows' = IF Stores(p, op) THEN [rows EXCEPT ![b] = RowAfter(p, op)] ELSE rows
      /\ kc' = IF UsesKeychain(p, op) THEN [kc EXCEPT ![b][op[2]] = SecretAfter(p, op)] ELSE kc
      /\ ~Refused(p, op)
  BY DEF Write
<1>3. \A id \in Ids \ {b} : rows'[id] = rows[id] /\ kc'[id] = kc[id]
  BY <1>1, <1>2
<1>4. CASE ~Stores(p, op)
  <2>1. rows' = rows /\ op[1] # "row"
    BY <1>2, <1>4 DEF Stores
  <2> QED BY <1>3, <2>1 DEF RowsWhole, HasRow
<1>5. CASE Stores(p, op)
  <2>1. rows'[b] = RowAfter(p, op)
    BY <1>1, <1>2, <1>5
  <2>2. /\ op[1] \in {"row", "rotate"}
        /\ op[2] \in {"insert", "user", "uid", "active", "needs_reauth", "drop"}
        /\ op = <<op[1], op[2]>> /\ (op[1] = "rotate" => op[2] = "uid")
    BY <1>5 DEF Stores, Ops, Kinds
  <2>3. CASE op[2] = "drop"
    <3>1. rows'[b] = NoRow
      BY <2>1, <2>3 DEF RowAfter
    <3>2. op = <<"row", "drop">>
      BY <2>2, <2>3
    <3> QED BY <1>3, <3>1, <3>2 DEF RowsWhole, NoRow
  <2>4. CASE op[2] = "insert"
    <3>1. rows'[b].state = "pending_auth"
      BY <2>1, <2>4 DEF RowAfter, NoRow
    <3>2. op # <<"row", "drop">>
      BY <2>4
    <3> QED BY <1>3, <3>1, <3>2 DEF RowsWhole
  <2>5. CASE op[2] \in {"user", "uid", "active", "needs_reauth"}
    <3>1. rows[b] # NoRow
      BY <1>2, <1>5, <2>2, <2>5 DEF Refused
    <3>2. rows[b].state # "none"
      BY <3>1, RowsAre DEF HasRow
    <3>3. rows'[b].state # "none"
      <4>1. rows[b] \in [state : States, user : BOOLEAN, uid : Uids]
        BY <1>1
      <4> QED BY <2>1, <2>5, <3>2, <4>1 DEF RowAfter
    <3>4. op # <<"row", "drop">>
      BY <2>5
    <3> QED BY <1>3, <3>3, <3>4 DEF RowsWhole
  <2> QED BY <2>2, <2>3, <2>4, <2>5
<1> QED BY <1>3, <1>4, <1>5

\* A secret is stored or deleted alone.
LEMMA SecretWritten ==
  ASSUME SessionType, NEW p \in Procs, Write(p), NEW op, op = Head(plan[p]), op \in Ops,
         box[p] \in Ids
  PROVE  /\ op[1] = "row" => kc' = kc
         /\ op[1] \in {"set", "delete"} =>
              kc'[box[p]] = [kc[box[p]] EXCEPT ![op[2]] = SecretAfter(p, op)]
         /\ op[1] \in {"set", "delete", "rotate"} /\ op # <<"rotate", "uid">> => rows' = rows
<1>1. /\ rows' = IF Stores(p, op) THEN [rows EXCEPT ![box[p]] = RowAfter(p, op)] ELSE rows
      /\ kc' = IF UsesKeychain(p, op) THEN [kc EXCEPT ![box[p]][op[2]] = SecretAfter(p, op)] ELSE kc
  BY DEF Write
<1>2. kc \in [Ids -> Secrets]
  BY DEF SessionType, StoreType
<1>3. CASE op[1] = "row"
  <2>1. ~UsesKeychain(p, op)
    BY <1>3 DEF UsesKeychain
  <2> QED BY <1>1, <1>3, <2>1
<1>4. CASE op[1] # "row"
  <2>1. op # <<"rotate", "uid">> => ~Stores(p, op)
    BY <1>4 DEF Stores
  <2>2. op[1] \in {"set", "delete"} => UsesKeychain(p, op)
    BY DEF UsesKeychain
  <2> QED BY <1>1, <1>2, <1>4, <2>1, <2>2
<1> QED BY <1>3, <1>4

\* What a deletion leaves.
LEMMA Deleted ==
  ASSUME SessionType, NEW p \in Procs, NEW op, op[1] = "delete", op[2] \in Kinds, NEW r \in Secrets
  PROVE  LET s == [r EXCEPT ![op[2]] = SecretAfter(p, op)]
         IN  /\ op[2] = "refresh" \/ r.refresh = NoToken => s.refresh = NoToken
             /\ op[2] = "access" \/ r.access = NoToken => s.access = NoToken
             /\ op[2] = "passphrase" \/ r.passphrase = 0 => s.passphrase = 0
             /\ op[2] = "keypass" \/ r.keypass = 0 => s.keypass = 0
<1>1. SecretAfter(p, op) = NoSecrets[op[2]]
  BY DEF SecretAfter
<1>2. /\ NoSecrets.refresh = NoToken /\ NoSecrets.access = NoToken
      /\ NoSecrets.passphrase = 0 /\ NoSecrets.keypass = 0
  BY DEF NoSecrets
<1>3. CASE op[2] = "refresh"
  BY <1>1, <1>2, <1>3 DEF Secrets
<1>4. CASE op[2] = "access"
  BY <1>1, <1>2, <1>4 DEF Secrets
<1>5. CASE op[2] = "passphrase"
  BY <1>1, <1>2, <1>5 DEF Secrets
<1>6. CASE op[2] = "keypass"
  BY <1>1, <1>2, <1>6 DEF Secrets
<1> QED BY <1>3, <1>4, <1>5, <1>6 DEF Kinds

LEMMA Bare ==
  ASSUME NEW r \in Secrets, r.refresh = NoToken, r.access = NoToken, r.passphrase = 0, r.keypass = 0
  PROVE  r = NoSecrets
BY DEF Secrets, NoSecrets

LEMMA ContinueIs ==
  ASSUME ProcType, NEW p \in Procs, pc[p] = "write", NEW c, NEW ops, ContinueWith(p, c, ops)
  PROVE  \/ EndCommand(p) /\ ops = << >>
         \/ /\ ops # << >> /\ pc'[p] = "write" /\ plan'[p] = ops /\ cmd'[p] = c
            /\ box'[p] = box[p] /\ seed'[p] = seed[p] /\ client'[p] = client[p]
BY DEF ContinueWith, ProcType

\* Where the first write of a list is made, the row is kept or removed.
KeepsRow(p) == box[p] \in Ids /\ rows'[box[p]].state # "none"

LEMMA AddWritePlaced ==
  ASSUME SessionType, RowsWhole, NEW p \in Procs, Write(p), cmd[p] = "add", AddsRow(p)
  PROVE  Placed(p)' /\ RowsWhole' /\ KeepsRow(p)
<1> DEFINE b == box[p]  n == Done(p, AddPlan)  op == Head(plan[p])
<1>1. /\ ProcType /\ pc[p] = "write" /\ b \in Ids /\ plan[p] \in Seq(Ops)
      /\ ContinueWith(p, cmd[p], Tail(plan[p]))
  BY DEF Write, SessionType, ProcType
<1>2. AddPlan \in Seq(Ops) /\ Left(p, AddPlan) /\ Len(AddPlan) = 8
  BY PlansFit, AddPlanIs DEF Fit, AddsRow
<1>3. /\ n \in 0..7 /\ op = AddPlan[n + 1] /\ plan[p] # << >>
      /\ plan'[p] = Tail(plan[p]) /\ Tail(plan[p]) # << >> =>
                Left(p, AddPlan)' /\ Done(p, AddPlan)' = n + 1
  BY <1>1, <1>2, LeftGoesOn, SMTT(30)
<1>4. /\ n = 0 => op = <<"row", "insert">>
      /\ n = 1 => op = <<"row", "user">>
      /\ op # <<"row", "drop">> /\ op \in Ops
  <2>1. op \in Ops
    BY <1>1, <1>3, Rest
  <2>2. n = 0 \/ n = 1 \/ n = 2 \/ n = 3 \/ n = 4 \/ n = 5 \/ n = 6 \/ n = 7
    BY <1>3
  <2>3. /\ n = 0 => op = AddPlan[1]
        /\ n = 1 => op = AddPlan[2]
        /\ n = 2 => op = AddPlan[3]
        /\ n = 3 => op = AddPlan[4]
        /\ n = 4 => op = AddPlan[5]
        /\ n = 5 => op = AddPlan[6]
        /\ n = 6 => op = AddPlan[7]
        /\ n = 7 => op = AddPlan[8]
    BY <1>3
  <2>4. op # <<"row", "drop">>
    BY <2>2, <2>3, AddPlanIs
  <2> QED BY <2>1, <2>3, <2>4, AddPlanIs
<1> HIDE DEF op
<1>5. /\ \A id \in Ids \ {b} : rows[id] = NoRow
      /\ n = 0 <=> rows[b] = NoRow
      /\ n <= 2 => kc[b] = NoSecrets
  BY DEF AddsRow
<1> HIDE DEF n, b
<1>6. HasRow(b) \/ op = <<"row", "insert">>
  BY <1>1, <1>3, <1>4, <1>5, RowsAre DEF b
<1>7. /\ \A id \in Ids \ {b} : rows'[id] = NoRow
      /\ rows'[b].state # "none" /\ RowsWhole'
  BY <1>1, <1>4, <1>5, <1>6, RowWritten DEF op, b
<1>8. n <= 1 => kc'[b] = NoSecrets
  <2>1. ASSUME n <= 1
        PROVE  kc' = kc
    <3>1. op[1] = "row"
      BY <1>3, <1>4, <2>1
    <3> QED BY <1>1, <1>4, <3>1, SecretWritten DEF op, b
  <2> QED BY <1>3, <1>5, <2>1
<1>9. CASE EndCommand(p)
  BY <1>1, <1>7, <1>9, EndPlaced DEF KeepsRow, b
<1>10. CASE /\ Tail(plan[p]) # << >> /\ pc'[p] = "write" /\ plan'[p] = Tail(plan[p])
            /\ cmd'[p] = cmd[p] /\ box'[p] = box[p]
  <2>1. Left(p, AddPlan)' /\ Done(p, AddPlan)' = n + 1
    BY <1>3, <1>10
  <2>2. AddsRow(p)'
    <3>1. n + 1 # 0 /\ rows'[b] # NoRow /\ (n + 1 <= 2 => n <= 1)
      BY <1>3, <1>7 DEF NoRow
    <3> QED BY <1>7, <1>8, <1>10, <2>1, <3>1 DEF AddsRow, b
  <2> QED BY <1>1, <1>7, <1>10, <2>2 DEF Placed, Reading, Using, KeepsRow, b
<1> QED BY <1>1, <1>9, <1>10, ContinueIs, ZenonT(60)

LEMMA RemoveWritePlaced ==
  ASSUME SessionType, RowsWhole, NEW p \in Procs, Write(p), cmd[p] \in {"remove", "cleanup"},
         Removes(p)
  PROVE  /\ Placed(p)' /\ RowsWhole'
         /\ KeepsRow(p) \/ Botched(p) \/ (kc'[box[p]] = NoSecrets /\ box[p] \in Ids)
<1> DEFINE b == box[p]  n == Done(p, RemovePlan)  op == Head(plan[p])
           Gone(s, m) == /\ m >= 1 => s.refresh = NoToken
                         /\ m >= 2 => s.access = NoToken
                         /\ m >= 3 => s.passphrase = 0
                         /\ m >= 4 => s.keypass = 0
<1>1. /\ ProcType /\ pc[p] = "write" /\ b \in Ids /\ plan[p] \in Seq(Ops)
      /\ ContinueWith(p, cmd[p], Tail(plan[p])) /\ disturbed' = disturbed
      /\ kc[b] \in Secrets
  BY DEF Write, SessionType, StoreType, ProcType
<1>2. RemovePlan \in Seq(Ops) /\ Left(p, RemovePlan) /\ Len(RemovePlan) = 5
  BY PlansFit, RemovalIs DEF Fit, Removes
<1>3. /\ n \in 0..4 /\ op = RemovePlan[n + 1] /\ plan[p] # << >>
      /\ plan'[p] = Tail(plan[p]) /\ Tail(plan[p]) # << >> =>
                Left(p, RemovePlan)' /\ Done(p, RemovePlan)' = n + 1
      /\ Tail(plan[p]) = << >> <=> n = 4
  <2>1. n \in 0..(5 - 1) /\ op = RemovePlan[n + 1] /\ plan[p] # << >>
    BY <1>1, <1>2, LeftGoesOn
  <2>2. plan'[p] = Tail(plan[p]) /\ Tail(plan[p]) # << >> =>
                Left(p, RemovePlan)' /\ Done(p, RemovePlan)' = n + 1
    BY <1>1, <1>2, LeftGoesOn
  <2>3. Tail(plan[p]) = << >> <=> n = 5 - 1
    BY <1>1, <1>2, LeftGoesOn
  <2> QED BY <2>1, <2>2, <2>3
<1>4. /\ n = 0 => op = <<"delete", "refresh">>
      /\ n = 1 => op = <<"delete", "access">>
      /\ n = 2 => op = <<"delete", "passphrase">>
      /\ n = 3 => op = <<"delete", "keypass">>
      /\ n = 4 => op = <<"row", "drop">>
      /\ op \in Ops
  <2>1. op \in Ops
    BY <1>1, <1>3, Rest
  <2>2. /\ n = 0 => op = RemovePlan[1]
        /\ n = 1 => op = RemovePlan[2]
        /\ n = 2 => op = RemovePlan[3]
        /\ n = 3 => op = RemovePlan[4]
        /\ n = 4 => op = RemovePlan[5]
    BY <1>3
  <2> QED BY <2>1, <2>2, RemovalIs
<1> HIDE DEF op
<1>5. HasRow(b) /\ (Botched(p) \/ Gone(kc[b], n))
      /\ (cmd[p] = "cleanup" => disturbed >= 1 /\ "add" \in Commands)
  BY DEF Removes
<1> HIDE DEF n, b
<1>6. CASE n = 4
  <2>1. op = <<"row", "drop">> /\ op[1] = "row"
    BY <1>4, <1>6
  <2>2. RowsWhole' /\ kc' = kc
    BY <1>1, <1>4, <2>1, RowWritten, SecretWritten DEF op, b
  <2>3. EndCommand(p)
    BY <1>1, <1>3, <1>6 DEF ContinueWith
  <2>4. Botched(p) \/ kc[b] = NoSecrets
    <3>1. Gone(kc[b], n) => kc[b].refresh = NoToken /\ kc[b].access = NoToken
                            /\ kc[b].passphrase = 0 /\ kc[b].keypass = 0
      BY <1>6
    <3> QED BY <1>1, <1>5, <3>1, Bare
  <2> QED BY <1>1, <2>2, <2>3, <2>4, EndPlaced DEF b
<1>7. CASE n # 4
  <2>1. op[1] = "delete" /\ op[2] \in Kinds /\ op # <<"row", "drop">> /\ op # <<"rotate", "uid">>
    BY <1>3, <1>4, <1>7 DEF Kinds
  <2>2. RowsWhole' /\ rows'[b].state # "none"
    BY <1>1, <1>4, <1>5, <2>1, RowWritten DEF op, b
  <2>3. kc'[b] = [kc[b] EXCEPT ![op[2]] = SecretAfter(p, op)]
    BY <1>1, <1>4, <2>1, SecretWritten DEF op, b
  <2>4. /\ op[2] = "refresh" \/ kc[b].refresh = NoToken => kc'[b].refresh = NoToken
        /\ op[2] = "access" \/ kc[b].access = NoToken => kc'[b].access = NoToken
        /\ op[2] = "passphrase" \/ kc[b].passphrase = 0 => kc'[b].passphrase = 0
        /\ op[2] = "keypass" \/ kc[b].keypass = 0 => kc'[b].keypass = 0
    BY <1>1, <2>1, <2>3, Deleted
  <2>5. Gone(kc[b], n) => Gone(kc'[b], n + 1)
    <3>1. n = 0 \/ n = 1 \/ n = 2 \/ n = 3
      BY <1>3, <1>7
    <3>2. /\ n = 0 => op[2] = "refresh"
          /\ n = 1 => op[2] = "access"
          /\ n = 2 => op[2] = "passphrase"
          /\ n = 3 => op[2] = "keypass"
      BY <1>4
    <3> HIDE DEF op
    <3> QED BY <2>4, <3>1, <3>2
  <2>6. /\ Tail(plan[p]) # << >> /\ pc'[p] = "write" /\ plan'[p] = Tail(plan[p])
        /\ cmd'[p] = cmd[p] /\ box'[p] = box[p]
    <3>1. Tail(plan[p]) # << >>
      BY <1>3, <1>7
    <3> QED BY <1>1, <3>1, ContinueIs, ZenonT(60)
  <2>7. Left(p, RemovePlan)' /\ Done(p, RemovePlan)' = n + 1
    BY <1>3, <2>6
  <2>8. Botched(p) => Botched(p)'
    BY <1>1, <2>6 DEF Botched
  <2>9. Removes(p)'
    <3>1. HasRow(box[p])'
      BY <2>2, <2>6 DEF HasRow, b
    <3>2. Botched(p)' \/ Gone(kc'[box'[p]], n + 1)
      BY <1>5, <2>5, <2>6, <2>8 DEF b
    <3>3. cmd'[p] = "cleanup" => disturbed' >= 1 /\ "add" \in Commands
      BY <1>1, <1>5, <2>6
    <3> QED BY <2>7, <3>1, <3>2, <3>3 DEF Removes
  <2> QED BY <1>1, <2>2, <2>6, <2>9 DEF Placed, Reading, Using, KeepsRow, b
<1> QED BY <1>6, <1>7

\* A sync that could not store a rotated refresh token has the flag and the
\* uid left to write.
LEMMA FlagIsNext ==
  ASSUME NEW p \in Procs, plan[p] \in Seq(Ops), Left(p, PersistPlan) \/ Left(p, FlagThenUid),
         Head(plan[p]) = <<"rotate", "refresh">>,
         plan'[p] = << <<"row", "needs_reauth">> >> \o Tail(plan[p])
  PROVE  /\ Left(p, FlagThenUid)' /\ Done(p, FlagThenUid)' = 0
         /\ Left(p, PersistPlan) /\ Done(p, PersistPlan) = 1
<1> DEFINE s == plan[p]  mark == << <<"row", "needs_reauth">> >>
<1>1. ASSUME Left(p, FlagThenUid)
      PROVE  FALSE
  <2>1. FlagThenUid \in Seq(Ops) /\ Len(FlagThenUid) = 2
    BY FlagPlansAre DEF Fit
  <2>2. Done(p, FlagThenUid) \in 0..(2 - 1) /\ Head(s) = FlagThenUid[Done(p, FlagThenUid) + 1]
    BY <1>1, <2>1, LeftGoesOn
  <2> QED BY <2>2, FlagPlansAre
<1>2. PersistPlan \in Seq(Ops) /\ Len(PersistPlan) = 3 /\ Left(p, PersistPlan)
  BY <1>1, PlansFit, PersistPlanIs DEF Fit
<1>3. /\ Done(p, PersistPlan) \in 0..(3 - 1) /\ Head(s) = PersistPlan[Done(p, PersistPlan) + 1]
      /\ s # << >>
  BY <1>2, LeftGoesOn
<1>4. Done(p, PersistPlan) = 1
  BY <1>3, PersistPlanIs
<1>5. Len(s) = 2 /\ s[2] = PersistPlan[3]
  <2>1. Len(s) \in 1..3 /\ \A i \in 1..Len(s) : s[i] = PersistPlan[(3 - Len(s)) + i]
    BY <1>2 DEF Left
  <2>2. 3 - Len(s) = 1
    BY <1>2, <1>4 DEF Done
  <2>3. Len(s) = 2
    BY <2>1, <2>2
  <2> QED BY <2>1, <2>2, <2>3
<1>6. Tail(s) \in Seq(Ops) /\ Len(Tail(s)) = 1 /\ Tail(s)[1] = <<"rotate", "uid">>
  <2>1. Tail(s) \in Seq(Ops) /\ Len(Tail(s)) = Len(s) - 1
    BY <1>3, TailIs
  <2>2. \A i \in 1..Len(Tail(s)) : Tail(s)[i] = s[i + 1]
    BY <1>3, Rest
  <2> QED BY <1>5, <2>1, <2>2, PersistPlanIs
<1>7. mark \in Seq(Ops) /\ Len(mark) = 1 /\ mark[1] = <<"row", "needs_reauth">>
  BY FlagPlansAre DEF Fit, FlagOnly
<1> HIDE DEF s, mark
<1>8. /\ Len(mark \o Tail(s)) = 1 + 1
      /\ \A i \in 1..1 : (mark \o Tail(s))[i] = mark[i]
      /\ \A i \in 1..1 : (mark \o Tail(s))[1 + i] = Tail(s)[i]
  <2>1. 1 \in Nat
    OBVIOUS
  <2> QED BY <1>6, <1>7, <2>1, ConcatIs, ZenonT(30)
<1>9. /\ Len(plan'[p]) = 2 /\ plan'[p][1] = FlagThenUid[1] /\ plan'[p][2] = FlagThenUid[2]
  BY <1>6, <1>7, <1>8, FlagPlansAre DEF s, mark
<1>10. Left(p, FlagThenUid)' /\ Done(p, FlagThenUid)' = 0
  <2>1. Len(FlagThenUid) = 2 /\ Len(plan'[p]) = 2 /\ 2 \in 1..2
    BY <1>9, FlagPlansAre
  <2>2. ASSUME NEW i \in 1..2
        PROVE  plan'[p][i] = FlagThenUid[(2 - 2) + i]
    <3>1. (i = 1 \/ i = 2) /\ (2 - 2) + i = i
      OBVIOUS
    <3> QED BY <1>9, <3>1
  <2>3. Done(p, FlagThenUid)' = 2 - 2
    BY <2>1 DEF Done
  <2>4. ASSUME NEW i \in 1..Len(plan'[p])
        PROVE  plan'[p][i] = FlagThenUid[(Len(FlagThenUid) - Len(plan'[p])) + i]
    BY <2>1, <2>2, <2>4
  <2>5. Left(p, FlagThenUid)'
    BY <2>1, <2>4 DEF Left
  <2>6. 2 - 2 = 0
    OBVIOUS
  <2> QED BY <2>3, <2>5, <2>6
<1> QED BY <1>2, <1>4, <1>10

\* The writes that leave the row in place go on with what is left of their list.
LEMMA UpdateWritePlaced ==
  ASSUME SessionType, RowsWhole, NEW p \in Procs, Write(p), Updates(p)
  PROVE  Placed(p)' /\ RowsWhole' /\ KeepsRow(p)
<1> DEFINE op == Head(plan[p])
           Plans == {PersistPlan, FlagThenUid, FlagOnly, RefreshPlan, WriteSecrets}
<1>1. /\ ProcType /\ pc[p] = "write" /\ box[p] \in Ids /\ plan[p] \in Seq(Ops)
      /\ ContinueWith(p, cmd[p], Tail(plan[p])) /\ HasRow(box[p])
      /\ cmd[p] \in {"sync", "labels", "refresh"}
  BY DEF Write, Updates, SessionType, ProcType
<1>2. \A P \in Plans : P \in Seq(Ops)
  BY PlansFit, FlagPlansAre DEF Fit
<1>3. ASSUME NEW P \in Plans, Left(p, P)
      PROVE  /\ op \in Ops /\ op # <<"row", "drop">>
             /\ plan'[p] = Tail(plan[p]) /\ Tail(plan[p]) # << >> => Left(p, P)'
  <2>1. /\ Done(p, P) \in 0..(Len(P) - 1) /\ op = P[Done(p, P) + 1] /\ plan[p] # << >>
        /\ Len(P) \in Nat
    BY <1>1, <1>2, <1>3, LeftGoesOn
  <2>2. op \in Ops
    BY <1>1, <2>1, Rest
  <2>3. Done(p, P) + 1 \in 1..Len(P)
    BY <2>1
  <2>4. \A i \in 1..Len(P) : P[i] # <<"row", "drop">>
    <3>1. CASE P = PersistPlan
      BY <3>1, PersistPlanIs
    <3>2. CASE P = FlagThenUid
      BY <3>2, FlagPlansAre
    <3>3. CASE P = FlagOnly
      BY <3>3, FlagPlansAre
    <3>4. CASE P = RefreshPlan
      BY <3>4, RefreshPlanIs
    <3>5. CASE P = WriteSecrets
      BY <3>5, WriteSecretsIs
    <3> QED BY <3>1, <3>2, <3>3, <3>4, <3>5
  <2>5. plan'[p] = Tail(plan[p]) /\ Tail(plan[p]) # << >> => Left(p, P)'
    BY <1>1, <1>2, <1>3, LeftGoesOn
  <2> QED BY <2>1, <2>2, <2>3, <2>4, <2>5
<1>4. PICK P \in Plans :
        /\ Left(p, P)
        /\ \/ cmd[p] = "sync" /\ P \in {PersistPlan, FlagThenUid}
           \/ cmd[p] = "labels" /\ P \in {PersistPlan, FlagOnly}
           \/ cmd[p] = "refresh" /\ P \in {RefreshPlan, WriteSecrets, FlagOnly}
  BY DEF Updates
<1>5. /\ op \in Ops /\ op # <<"row", "drop">>
      /\ plan'[p] = Tail(plan[p]) /\ Tail(plan[p]) # << >> => Left(p, P)'
  BY <1>3, <1>4
<1> HIDE DEF op
<1>6. RowsWhole' /\ KeepsRow(p)
  BY <1>1, <1>5, RowWritten DEF op, KeepsRow
<1>7. CASE EndCommand(p)
  BY <1>1, <1>6, <1>7, EndPlaced
<1>8. CASE /\ Tail(plan[p]) # << >> /\ pc'[p] = "write" /\ plan'[p] = Tail(plan[p])
           /\ cmd'[p] = cmd[p] /\ box'[p] = box[p]
  <2>1. HasRow(box[p])'
    BY <1>6, <1>8 DEF KeepsRow, HasRow
  <2>2. Left(p, P)'
    BY <1>5, <1>8
  <2>3. Updates(p)'
    BY <1>4, <1>8, <2>1, <2>2 DEF Updates
  <2> QED BY <1>1, <1>6, <1>8, <2>3 DEF Placed, Reading, Using
<1> QED BY <1>1, <1>7, <1>8, ContinueIs, ZenonT(60)

\* What undoes a failed add, and what a failed command leaves to write.
LEMMA FailurePlaced ==
  ASSUME SessionType, RowsWhole, disturbed \in Nat, NEW p \in Procs, Placed(p), WriteFails(p)
  PROVE  Placed(p)' /\ RowsWhole'
<1> DEFINE op == Head(plan[p])  c == CommandAfterFailure(cmd[p], op)
           ops == AfterFailure(cmd[p], op, Tail(plan[p]))
<1>1. /\ ProcType /\ pc[p] = "write" /\ box[p] \in Ids /\ plan[p] \in Seq(Ops)
      /\ ContinueWith(p, c, ops) /\ rows' = rows /\ kc' = kc
      /\ disturbed' = disturbed \/ disturbed' = disturbed + 1
  BY DEF WriteFails, Disturb, SessionType, ProcType
<1>2. RowsWhole'
  BY <1>1 DEF RowsWhole
<1>3. CASE EndCommand(p)
  BY <1>1, <1>2, <1>3, EndPlaced
<1>4. CASE /\ ops # << >> /\ pc'[p] = "write" /\ plan'[p] = ops
           /\ cmd'[p] = c /\ box'[p] = box[p]
  <2>1. CASE cmd[p] = "add" /\ AddsRow(p)
    <3>1. /\ Done(p, AddPlan) \in 0..7 /\ op = AddPlan[Done(p, AddPlan) + 1]
      <4>1. AddPlan \in Seq(Ops) /\ Left(p, AddPlan) /\ Len(AddPlan) = 8
        BY <2>1, PlansFit, AddPlanIs DEF Fit, AddsRow
      <4>2. Done(p, AddPlan) \in 0..(8 - 1) /\ op = AddPlan[Done(p, AddPlan) + 1]
        BY <1>1, <4>1, LeftGoesOn
      <4> QED BY <4>2
    <3>2. op # <<"row", "insert">> /\ c = "cleanup" /\ ops = RemovePlan
      <4>1. op = <<"row", "insert">> => ops = << >>
        BY <2>1 DEF AfterFailure
      <4> QED BY <1>4, <2>1, <4>1 DEF AfterFailure, CommandAfterFailure
    <3>3. Done(p, AddPlan) # 0 /\ rows[box[p]] # NoRow
      BY <2>1, <3>1, <3>2, AddPlanIs DEF AddsRow
    <3>4. HasRow(box[p])'
      BY <1>1, <1>4, <3>3, RowsAre DEF HasRow
    <3>5. Left(p, RemovePlan)' /\ Done(p, RemovePlan)' = 0
      BY <1>4, <3>2, PlansFit, LeftBegins
    <3>6. ~Refused(p, op)
      <4>1. \A i \in Ids \ {box[p]} : ~rows[i].user
        BY <2>1 DEF AddsRow, NoRow
      <4> QED BY <3>3, <4>1 DEF Refused, AccountTaken
    <3>7. disturbed' >= 1 /\ "add" \in Commands
      <4>1. disturbed' = disturbed + 1
        BY <3>6 DEF WriteFails, Disturb
      <4>2. "add" \in Commands
        BY <2>1 DEF SessionType, ProcType
      <4> QED BY <4>1, <4>2
    <3>8. Removes(p)'
      BY <3>4, <3>5, <3>7 DEF Removes
    <3> QED BY <1>2, <1>4, <3>2, <3>8 DEF Placed, Reading, Using
  <2>2. CASE cmd[p] \in {"remove", "cleanup"} /\ Removes(p)
    <3>1. cmd[p] = "cleanup" /\ op[1] = "delete" /\ ops = << <<"row", "drop">> >> /\ c = "cleanup"
      BY <1>4, <2>2 DEF AfterFailure, CommandAfterFailure
    <3>2. HasRow(box[p])' /\ disturbed >= 1 /\ "add" \in Commands
      BY <1>1, <1>4, <2>2, <3>1 DEF Removes, HasRow
    <3>3. disturbed' = disturbed + 1 /\ "keychain" \in Disturbances
      <4>1. ~Refused(p, op) /\ ~Stores(p, op)
        BY <3>1 DEF Refused, Stores
      <4> QED BY <4>1 DEF WriteFails, Disturb
    <3>4. Botched(p)'
      BY <1>4, <3>1, <3>2, <3>3 DEF Botched
    <3>5. Left(p, RemovePlan)'
      <4>1. /\ Len(RemovePlan) = 5 /\ RemovePlan[5] = <<"row", "drop">>
            /\ Len(plan'[p]) = 1 /\ plan'[p][1] = <<"row", "drop">>
        BY <1>4, <3>1, RemovalIs
      <4>2. \A i \in 1..1 : (5 - 1) + i = 5 /\ i = 1
        OBVIOUS
      <4>3. 1 \in 1..5
        OBVIOUS
      <4> QED BY <4>1, <4>2, <4>3 DEF Left
    <3>6. Removes(p)'
      BY <1>4, <3>1, <3>2, <3>3, <3>4, <3>5 DEF Removes
    <3> QED BY <1>2, <1>4, <3>1, <3>6 DEF Placed, Reading, Using
  <2>3. CASE Updates(p)
    <3>1. c = cmd[p] /\ cmd[p] \in {"sync", "labels", "refresh"} /\ HasRow(box[p])'
      BY <1>1, <1>4, <2>3 DEF Updates, CommandAfterFailure, HasRow
    <3>2. CASE cmd[p] # "sync"
      <4>1. ops = FlagOnly
        BY <1>4, <3>1, <3>2 DEF AfterFailure, FlagOnly
      <4>2. Left(p, FlagOnly)'
        BY <1>4, <4>1, FlagPlansAre, LeftBegins
      <4>3. Updates(p)'
        BY <1>4, <3>1, <3>2, <4>2 DEF Updates
      <4> QED BY <1>2, <1>4, <3>1, <4>3 DEF Placed, Reading, Using
    <3>3. CASE cmd[p] = "sync" /\ op # <<"rotate", "refresh">>
      <4>1. ops = Tail(plan[p])
        BY <3>3 DEF AfterFailure
      <4>2. PICK P \in {PersistPlan, FlagThenUid} : Left(p, P)
        BY <2>3, <3>3 DEF Updates
      <4>3. P \in Seq(Ops)
        BY <4>2, PlansFit, FlagPlansAre DEF Fit
      <4>4. Left(p, P)'
        BY <1>1, <1>4, <4>1, <4>2, <4>3, LeftGoesOn
      <4>5. Updates(p)'
        BY <1>4, <3>1, <3>3, <4>2, <4>4 DEF Updates
      <4> QED BY <1>2, <1>4, <3>1, <4>5 DEF Placed, Reading, Using
    <3>4. CASE cmd[p] = "sync" /\ op = <<"rotate", "refresh">>
      <4>1. ops = << <<"row", "needs_reauth">> >> \o Tail(plan[p])
        BY <3>4 DEF AfterFailure
      <4>2. Left(p, FlagThenUid)'
        <5>1. Left(p, PersistPlan) \/ Left(p, FlagThenUid)
          BY <2>3, <3>4 DEF Updates
        <5>2. plan'[p] = << <<"row", "needs_reauth">> >> \o Tail(plan[p])
          BY <1>4, <4>1
        <5>3. Head(plan[p]) = <<"rotate", "refresh">>
          BY <3>4
        <5> QED BY <1>1, <5>1, <5>2, <5>3, FlagIsNext
      <4>3. Updates(p)'
        BY <1>4, <3>1, <3>4, <4>2 DEF Updates
      <4> QED BY <1>2, <1>4, <3>1, <4>3 DEF Placed, Reading, Using
    <3> QED BY <3>1, <3>2, <3>3, <3>4
  <2> QED BY <1>1, <2>1, <2>2, <2>3 DEF Placed
<1> HIDE DEF c, ops
<1> QED BY <1>1, <1>3, <1>4, ContinueIs

\* Failures are counted, and their number is bounded.
LEMMA DisturbedGrows ==
  ASSUME [Next]_vars
  PROVE  disturbed' = disturbed \/ (disturbed < MaxDisturbances /\ disturbed' = disturbed + 1)
<1>1. ASSUME NEW p \in Procs, Step(p)
      PROVE  disturbed' = disturbed \/ (disturbed < MaxDisturbances /\ disturbed' = disturbed + 1)
  <2>1. CASE \/ StartAdd(p) \/ StartRemove(p) \/ StartResume(p)
             \/ Login(p) \/ LoginFails(p) \/ Crash(p)
    BY <2>1 DEF StartAdd, StartRemove, StartResume, Begin, Login, LoginFails, Crash, Disturb
  <2>2. CASE ReadRefreshToken(p) \/ ReadAccessToken(p) \/ ReadKeyPass(p) \/ ReadPassphrase(p)
             \/ ReadFails(p) \/ Resume(p)
    BY <2>2 DEF ReadRefreshToken, ReadAccessToken, ReadKeyPass, ReadPassphrase, ReadFails,
                Resume, Disturb
  <2>3. CASE \/ Probe(p) \/ CallForKeys(p) \/ CallForKeysFails(p) \/ Interrupt(p)
             \/ SyncCalls(p) \/ SyncCallFails(p) \/ SyncEnds(p)
    BY <2>3 DEF Probe, CallForKeys, CallForKeysFails, CallFails, Interrupt, SyncCalls,
                SyncCallFails, SyncEnds, Disturb
  <2>4. CASE UnlockWithKeyPass(p) \/ Unlock(p) \/ StoreKeyPass(p)
    BY <2>4 DEF UnlockWithKeyPass, Unlock, StoreKeyPass, Disturb
  <2>5. CASE Flag(p) \/ Write(p) \/ WriteFails(p)
    BY <2>5 DEF Flag, Write, WriteFails, Disturb
  <2> QED BY <1>1, <2>1, <2>2, <2>3, <2>4, <2>5 DEF Step
<1> QED BY <1>1 DEF Next, Expire, ChangeKeys, vars

-----------------------------------------------------------------------------

\* Every step leaves each command in its place.
LEMMA NextPlaced == OneAtATime /\ SessionType /\ PlaceInv /\ [Next]_vars => PlaceInv'
<1> SUFFICES ASSUME OneAtATime, SessionType, PlaceInv, [Next]_vars
             PROVE  PlaceInv'
  OBVIOUS
<1>1. ProcType /\ RowsWhole /\ disturbed \in 0..MaxDisturbances
  BY DEF SessionType, PlaceInv
<1>2. disturbed' \in 0..MaxDisturbances
  <2>1. disturbed' = disturbed \/ (disturbed < MaxDisturbances /\ disturbed' = disturbed + 1)
    BY DisturbedGrows
  <2> QED BY <1>1, <2>1, SessionBounds
<1>3. ASSUME NEW p \in Procs, Step(p)
      PROVE  PlaceInv'
  <2>1. Placed(p) /\ \A q \in Procs : q = p
    BY DEF PlaceInv, OneAtATime
  <2>2. Placed(p)' /\ RowsWhole'
    <3>1. CASE StartAdd(p) \/ StartRemove(p) \/ StartResume(p)
      BY <1>1, <2>1, <3>1, StartPlaced
    <3>2. CASE Works(p)
      BY <1>1, <2>1, <3>2, WorksPlaced
    <3>3. CASE Login(p)
      BY <1>1, <2>1, <3>3, LoginPlaced
    <3>4. CASE Flag(p)
      BY <1>1, <2>1, <3>4, FlagPlaced
    <3>5. CASE Write(p)
      <4>1. pc[p] = "write"
        BY <3>5 DEF Write
      <4>2. CASE cmd[p] = "add" /\ AddsRow(p)
        BY <1>1, <3>5, <4>2, AddWritePlaced
      <4>3. CASE cmd[p] \in {"remove", "cleanup"} /\ Removes(p)
        BY <1>1, <3>5, <4>3, RemoveWritePlaced
      <4>4. CASE Updates(p)
        BY <1>1, <3>5, <4>4, UpdateWritePlaced
      <4> QED BY <2>1, <4>1, <4>2, <4>3, <4>4 DEF Placed
    <3>6. CASE WriteFails(p)
      <4>1. disturbed \in Nat
        BY <1>1
      <4> QED BY <1>1, <2>1, <3>6, <4>1, FailurePlaced
    <3>7. CASE LoginFails(p) \/ Crash(p) \/ Interrupt(p)
      <4>1. EndCommand(p) /\ rows' = rows
        BY <3>7 DEF LoginFails, Crash, Interrupt
      <4>2. RowsWhole'
        BY <1>1, <4>1 DEF RowsWhole
      <4> QED BY <1>1, <4>1, <4>2, EndPlaced
    <3> QED BY <1>3, <3>1, <3>2, <3>3, <3>4, <3>5, <3>6, <3>7 DEF Step, Works
  <2> QED BY <1>2, <2>1, <2>2 DEF PlaceInv
<1>4. CASE UNCHANGED <<rows, kc, procs, disturbed>>
  <2>1. \A p \in Procs : Placed(p)'
    <3> SUFFICES ASSUME NEW p \in Procs
                 PROVE  Placed(p)'
      OBVIOUS
    <3>1. Placed(p)
      BY DEF PlaceInv
    <3> QED BY <1>4, <3>1, ZenonT(60) DEF procs, Placed, AddsRow, Removes, Botched, Updates, Left,
    Done, HasRow
  <2> QED BY <1>1, <1>2, <1>4, <2>1 DEF PlaceInv, RowsWhole
<1> QED BY <1>3, <1>4 DEF Next, Expire, ChangeKeys, vars

LEMMA InitPlaced == Init => PlaceInv
<1> SUFFICES ASSUME Init
             PROVE  PlaceInv
  OBVIOUS
<1>1. disturbed \in 0..MaxDisturbances
  BY SessionBounds DEF Init
<1>2. RowsWhole
  <2>1. AddedRow.state # "none"
    BY DEF AddedRow
  <2> QED BY <2>1 DEF Init, RowsWhole
<1>3. \A p \in Procs : Placed(p)
  BY DEF Init, Placed, Reading, Using
<1> QED BY <1>1, <1>2, <1>3 DEF PlaceInv

LEMMA PlacedAlways == OneAtATime /\ Spec => [](TokenInv /\ PlaceInv)
<1> SUFFICES ASSUME OneAtATime
             PROVE  Spec => [](TokenInv /\ PlaceInv)
  OBVIOUS
<1>1. TokenInv /\ PlaceInv /\ [Next]_vars => PlaceInv'
  BY NextPlaced DEF TokenInv
<1> QED BY InitPlaced, TokensAlways, <1>1, PTL DEF Spec

-----------------------------------------------------------------------------
(* No secret without a row.                                                *)

\* The keychain does not fail again in what undoes a failed add.
CleanupWorks ==
    "add" \in Commands /\ "keychain" \in Disturbances => MaxDisturbances <= 1

LEMMA NextOrphans ==
  ASSUME OneAtATime, CleanupWorks, SessionType, PlaceInv, NoOrphanSecrets, [Next]_vars
  PROVE  NoOrphanSecrets'
<1>1. /\ ProcType /\ RowsWhole /\ disturbed \in 0..MaxDisturbances
      /\ rows \in [Ids -> [state : States, user : BOOLEAN, uid : Uids]] /\ kc \in [Ids -> Secrets]
  BY DEF SessionType, StoreType, PlaceInv
<1>2. CASE kc' = kc /\ rows' = rows
  BY <1>2 DEF NoOrphanSecrets
<1>3. ASSUME NEW p \in Procs, StoreKeyPass(p)
      PROVE  NoOrphanSecrets'
  <2>1. Placed(p) /\ pc[p] = "heal" /\ rows' = rows
    BY <1>3 DEF PlaceInv, StoreKeyPass
  <2>2. HasRow(box[p]) /\ box[p] \in Ids
    BY <1>1, <2>1 DEF Placed, Using, ProcType
  <2>3. \A id \in Ids : kc'[id] = kc[id] \/ id = box[p]
    BY <1>1, <1>3 DEF StoreKeyPass
  <2> QED BY <1>1, <2>1, <2>2, <2>3, RowsAre DEF NoOrphanSecrets
<1>4. ASSUME NEW p \in Procs, Flag(p)
      PROVE  NoOrphanSecrets'
  <2>1. kc' = kc /\ RowsWhole' /\ \A id \in Ids : HasRow(id)' <=> HasRow(id)
    BY <1>1, <1>4, FlagRow DEF Flag
  <2>2. \A id \in Ids : HasRow(id)' => rows'[id] # NoRow
    BY DEF HasRow, NoRow
  <2> QED BY <1>1, <2>1, <2>2, RowsAre DEF NoOrphanSecrets
<1>5. ASSUME NEW p \in Procs, Write(p)
      PROVE  NoOrphanSecrets'
  <2>1. Placed(p) /\ pc[p] = "write" /\ box[p] \in Ids /\ plan[p] \in Seq(Ops) /\ plan[p] # << >>
    BY <1>1, <1>5 DEF PlaceInv, Write, ProcType
  <2>2. \A id \in Ids \ {box[p]} : rows'[id] = rows[id] /\ kc'[id] = kc[id]
    BY <1>1, <1>5, <2>1, RowWritten, Rest
  <2>3. ~Botched(p)
    <3>1. Botched(p) => 2 <= MaxDisturbances /\ "add" \in Commands /\ "keychain" \in Disturbances
      BY <1>1, SessionBounds DEF Botched
    <3>2. MaxDisturbances <= 1 => ~(2 <= MaxDisturbances)
      BY SessionBounds
    <3> QED BY <3>1, <3>2 DEF CleanupWorks
  <2>4. KeepsRow(p) \/ kc'[box[p]] = NoSecrets
    <3>2. CASE cmd[p] = "add" /\ AddsRow(p)
      BY <1>1, <1>5, <3>2, AddWritePlaced
    <3>3. CASE cmd[p] \in {"remove", "cleanup"} /\ Removes(p)
      BY <1>1, <1>5, <2>3, <3>3, RemoveWritePlaced
    <3>4. CASE Updates(p)
      BY <1>1, <1>5, <3>4, UpdateWritePlaced
    <3> QED BY <2>1, <3>2, <3>3, <3>4 DEF Placed
  <2>5. KeepsRow(p) => rows'[box[p]] # NoRow
    BY DEF KeepsRow, NoRow
  <2> QED BY <2>2, <2>4, <2>5 DEF NoOrphanSecrets
<1>6. ASSUME NEW p \in Procs, Step(p), ~StoreKeyPass(p), ~Flag(p), ~Write(p)
      PROVE  kc' = kc /\ rows' = rows
  BY <1>6 DEF Step, StartAdd, StartRemove, StartResume, Begin, ReadRefreshToken, ReadAccessToken,
       Resume, ReadKeyPass, ReadPassphrase, ReadFails, Probe, CallForKeys, CallForKeysFails,
       UnlockWithKeyPass, Unlock, SyncCalls, SyncCallFails, Interrupt, SyncEnds, Login,
       LoginFails, WriteFails, Crash
<1> QED BY <1>2, <1>3, <1>4, <1>5, <1>6 DEF Next, Expire, ChangeKeys, vars

\* Where commands run one at a time, no secret outlives its mailbox's row,
\* wherever a command fails or dies: a removal keeps its row until the last
\* secret is gone, and an add has inserted it before the first.  Only a
\* keychain that fails a second time, in what undoes a failed add, can leave
\* one behind.
THEOREM SecretsHaveRows == OneAtATime /\ CleanupWorks /\ Spec => []NoOrphanSecrets
<1> SUFFICES ASSUME OneAtATime, CleanupWorks
             PROVE  Spec => []NoOrphanSecrets
  OBVIOUS
<1>1. Init => NoOrphanSecrets
  <2>1. AddedRow # NoRow
    BY DEF AddedRow, NoRow
  <2> QED BY <2>1 DEF Init, NoOrphanSecrets
<1>2. TokenInv /\ PlaceInv /\ NoOrphanSecrets /\ [Next]_vars => NoOrphanSecrets'
  BY NextOrphans DEF TokenInv
<1> QED BY <1>1, <1>2, PlacedAlways, PTL DEF Spec

-----------------------------------------------------------------------------
(* What a command carries from its reads to its writes.                    *)

\* The client has the tokens that were read, or the session's latest; or a sync
\* spent those, and lost the answer.
Carries(p) ==
    LET s == seed[p]  c == client[p]
    IN  /\ c.uid = s.uid
        /\ \/ c.refresh = s.refresh /\ c.access = s.access
           \/ /\ c.refresh = c.access /\ c.access.sess = c.uid /\ c.uid \in Sessions
              /\ s.refresh.sess = c.uid /\ s.refresh.gen < c.refresh.gen
              /\ cmd[p] = "sync" \/ Honoured(c.access, c.uid)

\* auth refresh has a session that Proton serves.
Serves(p) == cmd[p] = "refresh" => Honoured(client[p].access, client[p].uid)

\* The steps after a secret was read in which it is as it was read.
WithKeyPass == {"callForKeys", "open"}
WithPassphrase == {"callForSalts", "derive", "heal"}

\* The keys it opened are the passphrase's, if they are still the account's.
Heals(p) ==
    LET s == seed[p]  c == client[p]
    IN  /\ c.unlocked = c.keypass /\ c.unlocked # 0 /\ c.uid \in full
        /\ c.unlocked = keys.keypass => s.passphrase = keys.passphrase

Carried(p) ==
    LET b == box[p]  s == seed[p]
    IN  /\ pc[p] \in Reading \union Using => s.uid = rows[b].uid
        /\ pc[p] \in {"readAccess", "resume"} \union Using => s.refresh = kc[b].refresh
        /\ pc[p] \in {"resume"} \union Using => s.access = kc[b].access
        /\ pc[p] \in Using => Carries(p)
        /\ pc[p] \in Using \ {"probe"} => Serves(p)
        /\ pc[p] \in WithKeyPass => s.keypass = kc[b].keypass
        /\ pc[p] \in WithPassphrase => s.passphrase = kc[b].passphrase
        /\ pc[p] = "heal" => Heals(p)

\* The keychain keeps the tokens read until those of the client replace them,
\* n writes on; only a sync goes on when it cannot store one.
Persists(p, n) ==
    LET b == box[p]  s == seed[p]  c == client[p]
    IN  /\ rows[b].uid = s.uid /\ Carries(p) /\ Serves(p)
        /\ n <= 1 => kc[b].refresh = s.refresh
        /\ n = 0 => kc[b].access = s.access
        /\ n >= 1 => kc[b].access = c.access \/ cmd[p] = "sync"
        /\ cmd[p] = "refresh" =>
             c.unlocked # 0 /\ (c.unlocked = keys.keypass => Unlockable(b))

\* A login's credentials, of which n are stored; the uid comes after them.
Enters(p, n) ==
    LET b == box[p]  c == client[p]
    IN  /\ c.uid \in Sessions /\ gen[c.uid] = 1
        /\ c.refresh = [sess |-> c.uid, gen |-> 1] /\ c.access = c.refresh
        /\ c.unlocked = c.keypass /\ c.unlocked # 0
        /\ n >= 1 => kc[b].refresh = c.refresh
        /\ n >= 2 => kc[b].access = c.access
        /\ n >= 3 => kc[b].passphrase = c.passphrase
        /\ n >= 4 => kc[b].keypass = c.keypass
        /\ n >= 5 => rows[b].uid = c.uid
        /\ n < 5 => \A id \in Ids : rows[id].uid # c.uid

Writing(p) ==
    \/ cmd[p] = "add" /\ Left(p, AddPlan) /\ Enters(p, Done(p, AddPlan) - 2)
    \/ cmd[p] \in {"remove", "cleanup"}
    \/ /\ cmd[p] \in {"sync", "labels"} /\ Left(p, PersistPlan)
       /\ Persists(p, Done(p, PersistPlan))
    \/ cmd[p] = "refresh" /\ Left(p, RefreshPlan) /\ Persists(p, Done(p, RefreshPlan))
    \/ cmd[p] = "refresh" /\ Left(p, WriteSecrets) /\ Enters(p, Done(p, WriteSecrets))
    \/ cmd[p] \in {"labels", "refresh"} /\ plan[p] = FlagOnly
    \/ /\ cmd[p] = "sync" /\ Left(p, FlagThenUid) /\ Done(p, FlagThenUid) = 0
       /\ rows[box[p]].uid = seed[p].uid /\ Carries(p)

\* The session a row names was opened.
UidsOpened == \A id \in Ids : rows[id].uid # 0 => rows[id].uid \in Sessions /\ gen[rows[id].uid] # 0

\* No keys were opened that are still to come.
KeysOpened ==
    /\ 1 <= keys.keypass
    /\ \A p \in Procs : seed[p].unlocked <= keys.keypass /\ client[p].unlocked <= keys.keypass

CarryInv ==
    /\ UidsOpened /\ KeysOpened
    /\ \A p \in Procs : Carried(p) /\ (pc[p] = "write" => Writing(p))

\* What has to be shown of a step of p.
Carrying(p) == UidsOpened' /\ Carried(p)' /\ (pc'[p] = "write" => Writing(p)')

-----------------------------------------------------------------------------
(* Keys opened.                                                            *)

LEMMA KeysKeep ==
  ASSUME OneAtATime, SessionType, KeysOpened, [Next]_vars
  PROVE  KeysOpened'
<1>1. /\ ProcType /\ keys \in [passphrase : Nat, keypass : Nat]
      /\ \A p \in Procs : seed[p] \in Held /\ client[p] \in Held
  BY DEF SessionType, ProtonType, ProcType
<1>2. \A p \in Procs : seed[p].unlocked \in Nat /\ client[p].unlocked \in Nat
  BY <1>1 DEF Held
<1>3. NoClient.unlocked = 0
  BY DEF NoClient
<1>4. ASSUME NEW p \in Procs, keys' = keys,
             seed'[p].unlocked \in {seed[p].unlocked, 0},
             client'[p].unlocked \in {client[p].unlocked, seed[p].unlocked, 0, keys.keypass}
      PROVE  KeysOpened'
  <2>1. \A q \in Procs : q = p
    BY DEF OneAtATime
  <2>2. 0 <= keys.keypass /\ keys.keypass <= keys.keypass
    BY <1>1
  <2> QED BY <1>4, <2>1, <2>2 DEF KeysOpened
<1>5. ASSUME NEW p \in Procs, EndCommand(p), keys' = keys
      PROVE  KeysOpened'
  BY <1>1, <1>3, <1>4, <1>5, EndIs
<1>6. ASSUME NEW p \in Procs, seed' = seed, client' = client, keys' = keys
      PROVE  KeysOpened'
  BY <1>4, <1>6
<1>7. ASSUME NEW p \in Procs, Step(p)
      PROVE  KeysOpened'
  <2>1. keys' = keys
    BY <1>7 DEF Step, StartAdd, StartRemove, StartResume, Begin, ReadRefreshToken,
         ReadAccessToken, Resume, ReadKeyPass, ReadPassphrase, ReadFails, Probe, CallForKeys,
         CallForKeysFails, UnlockWithKeyPass, Unlock, StoreKeyPass, SyncCalls, SyncCallFails,
         Interrupt, SyncEnds, Login,
         LoginFails, Flag, Write, WriteFails, Crash, proton
  <2>2. CASE StartAdd(p) \/ StartRemove(p) \/ StartResume(p)
    <3>1. client' = client /\ (seed' = seed \/ \E id \in Ids : seed' = [seed EXCEPT ![p].uid = rows[id].uid])
      BY <2>2 DEF StartAdd, StartRemove, StartResume, Begin
    <3>2. seed'[p].unlocked = seed[p].unlocked
      BY <1>1, <3>1 DEF ProcType, Held
    <3> QED BY <1>4, <2>1, <3>1, <3>2
  <2>3. ASSUME NEW kind \in Kinds, NEW step, Read(p, kind, step)
        PROVE  KeysOpened'
    <3>1. seed'[p].unlocked = seed[p].unlocked /\ client' = client
      BY <1>1, <2>3 DEF Read, ProcType, Held, Kinds
    <3> QED BY <1>4, <2>1, <3>1
  <2>4. ASSUME GiveUp(p)
        PROVE  KeysOpened'
    BY <1>5, <1>6, <2>1, <2>4 DEF GiveUp, Proceed
  <2>5. CASE \/ ReadRefreshToken(p) \/ ReadAccessToken(p) \/ ReadKeyPass(p) \/ ReadPassphrase(p)
             \/ ReadFails(p) \/ CallForKeysFails(p)
    <3>1. /\ "refresh" \in Kinds /\ "access" \in Kinds /\ "keypass" \in Kinds
          /\ "passphrase" \in Kinds
      BY DEF Kinds
    <3>2. GiveUp(p) \/ EndCommand(p) \/ \E kind \in Kinds : \E step \in Steps : Read(p, kind, step)
      <4>1. /\ "readAccess" \in Steps /\ "resume" \in Steps /\ "readPassphrase" \in Steps
            /\ "callForKeys" \in Steps /\ "callForSalts" \in Steps
        BY DEF Steps
      <4> QED BY <2>5, <3>1, <4>1 DEF ReadRefreshToken, ReadAccessToken, ReadKeyPass,
                                      ReadPassphrase, ReadFails, CallForKeysFails
    <3> QED BY <1>5, <2>1, <2>3, <2>4, <3>2
  <2>6. CASE Resume(p)
    <3>1. seed' = seed /\ client'[p] = seed[p]
      BY <1>1, <2>6 DEF Resume, ProcType
    <3> QED BY <1>4, <2>1, <3>1
  <2>7. CASE Probe(p) \/ CallForKeys(p) \/ SyncCalls(p)
    <3>1. seed' = seed /\ Reach(p)
      BY <2>7 DEF Probe, CallForKeys, SyncCalls
    <3>2. client'[p].unlocked = client[p].unlocked
      BY <1>1, <3>1 DEF Reach, ProcType, Held
    <3> QED BY <1>4, <2>1, <3>1, <3>2
  <2>8. CASE UnlockWithKeyPass(p) \/ Unlock(p) \/ StoreKeyPass(p)
    <3>1. CASE Unlocked(p) /\ seed' = seed
      <4>1. client'[p].unlocked = keys.keypass
        BY <1>1, <3>1 DEF Unlocked, ProcType, Held
      <4> QED BY <1>4, <2>1, <3>1, <4>1
    <3>2. GiveUp(p) \/ (seed' = seed /\ (client' = client \/ Unlocked(p)))
      BY <2>8 DEF UnlockWithKeyPass, Unlock, StoreKeyPass, AfterUnlock, BeginWrites, Proceed
    <3> QED BY <1>6, <2>1, <2>4, <3>1, <3>2
  <2>9. CASE SyncEnds(p)
    BY <1>6, <2>1, <2>9 DEF SyncEnds, BeginWrites
  <2>10. CASE Login(p)
    <3>1. CASE EndCommand(p)
      BY <1>5, <2>1, <3>1
    <3>2. CASE ~EndCommand(p)
      <4>1. seed' = seed /\ client'[p].unlocked = keys.keypass
        BY <1>1, <2>10, <3>2 DEF Login, BeginWrites, ProcType
      <4> QED BY <1>4, <2>1, <4>1
    <3> QED BY <3>1, <3>2
  <2>11. CASE \/ Flag(p) \/ Write(p) \/ WriteFails(p) \/ LoginFails(p) \/ Crash(p)
              \/ Interrupt(p) \/ SyncCallFails(p)
    <3>1. EndCommand(p) \/ (seed' = seed /\ client' = client)
      BY <2>11 DEF Flag, Write, WriteFails, LoginFails, Crash, Interrupt, SyncCallFails, Proceed,
                   ContinueWith, procs
    <3> QED BY <1>5, <1>6, <2>1, <3>1
  <2> QED BY <1>7, <2>2, <2>5, <2>6, <2>7, <2>8, <2>9, <2>10, <2>11 DEF Step
<1>8. CASE ChangeKeys
  <2>1. keys'.keypass = keys.keypass + 1 /\ UNCHANGED <<seed, client>>
    BY <1>8 DEF ChangeKeys, procs
  <2> QED BY <1>1, <1>2, <2>1 DEF KeysOpened
<1>9. CASE Expire \/ UNCHANGED vars
  <2>1. UNCHANGED <<keys, seed, client>>
    BY <1>9 DEF Expire, vars, procs, proton
  <2> QED BY <2>1 DEF KeysOpened
<1> QED BY <1>7, <1>8, <1>9 DEF Next

-----------------------------------------------------------------------------
(* What is carried is carried on.                                          *)

\* Sessions once opened stay open.
LEMMA GenKeeps ==
  ASSUME SessionType, NEW p \in Procs, Step(p)
  PROVE  \A s \in Sessions : gen[s] # 0 => gen'[s] # 0
<1>1. gen \in [Sessions -> Nat]
  BY DEF SessionType, ProtonType
<1>2. ASSUME NEW s \in Sessions, gen' = [gen EXCEPT ![s] = @ + 1] \/ gen' = [gen EXCEPT ![s] = 1]
      PROVE  \A t \in Sessions : gen[t] # 0 => gen'[t] # 0
  <2>1. ASSUME NEW t \in Sessions, gen[t] # 0
        PROVE  gen'[t] # 0
    BY <1>1, <1>2, <2>1
  <2> QED BY <2>1
<1>3. CASE gen' = gen
  BY <1>3
<1>4. CASE Reach(p) \/ AnswerLost(p)
  <2>1. ASSUME CanRotate(p)
        PROVE  client[p].uid \in Sessions
    BY <2>1 DEF CanRotate, Honoured
  <2>2. \/ gen' = gen
        \/ client[p].uid \in Sessions /\ gen' = [gen EXCEPT ![client[p].uid] = @ + 1]
    BY <1>4, <2>1 DEF Reach, AnswerLost
  <2> QED BY <1>2, <1>3, <2>2
<1>5. CASE Login(p)
  <2>1. PICK s \in Sessions : gen' = [gen EXCEPT ![s] = 1]
    BY <1>5 DEF Login
  <2> QED BY <1>2, <2>1
<1>6. gen' = gen \/ Reach(p) \/ AnswerLost(p) \/ Login(p)
  BY DEF Step, StartAdd, StartRemove, StartResume, Begin, ReadRefreshToken,
         ReadAccessToken, Resume, ReadKeyPass, ReadPassphrase, ReadFails, Probe, CallForKeys,
         CallForKeysFails, CallFails, UnlockWithKeyPass, Unlock, StoreKeyPass, SyncCalls,
         SyncCallFails, Interrupt, SyncEnds,
         LoginFails, Flag, Write, WriteFails, Crash, proton
<1> QED BY <1>3, <1>4, <1>5, <1>6

LEMMA UidsKeep ==
  ASSUME UidsOpened, \A id \in Ids : rows'[id].uid = rows[id].uid \/ rows'[id].uid = 0,
         \A s \in Sessions : gen[s] # 0 => gen'[s] # 0
  PROVE  UidsOpened'
BY DEF UidsOpened

\* Nothing is carried where nothing is held.
LEMMA CarryNothing ==
  ASSUME NEW p \in Procs, pc'[p] \in {"idle", "flag", "login"}
  PROVE  Carried(p)' /\ (pc'[p] = "write" => Writing(p)')
BY DEF Carried, Reading, Using, WithKeyPass, WithPassphrase

LEMMA GiveUpCarries ==
  ASSUME ProcType, NEW p \in Procs, GiveUp(p) \/ EndCommand(p)
  PROVE  Carried(p)' /\ (pc'[p] = "write" => Writing(p)')
<1>1. pc'[p] \in {"idle", "flag"}
  BY EndIs DEF GiveUp, Proceed, AfterRefusal, ProcType
<1> QED BY <1>1, CarryNothing

LEMMA CarriesSame ==
  ASSUME NEW p \in Procs, Carries(p), gen' = gen, cmd'[p] = cmd[p],
         seed'[p].uid = seed[p].uid, seed'[p].refresh = seed[p].refresh,
         seed'[p].access = seed[p].access, client'[p].uid = client[p].uid,
         client'[p].refresh = client[p].refresh, client'[p].access = client[p].access
  PROVE  Carries(p)'
BY DEF Carries, Honoured

LEMMA ServesSame ==
  ASSUME NEW p \in Procs, Serves(p), gen' = gen, cmd'[p] = cmd[p],
         client'[p].uid = client[p].uid, client'[p].access = client[p].access
  PROVE  Serves(p)'
BY DEF Serves, Honoured

\* A call that gets through leaves a session that Proton serves.
LEMMA ReachCarries ==
  ASSUME SessionType, NEW p \in Procs, Carries(p), Reach(p), seed' = seed
  PROVE  /\ Carries(p)' /\ Serves(p)' /\ client'[p].uid = client[p].uid
         /\ client'[p].unlocked = client[p].unlocked
<1>1. gen \in [Sessions -> Nat] /\ client \in [Procs -> Held]
  BY DEF SessionType, ProtonType, ProcType
<1> DEFINE u == client[p].uid
<1>2. CASE Authorized(p) /\ UNCHANGED <<gen, client>>
  BY <1>2 DEF Carries, Serves, Authorized, Honoured
<1>3. CASE /\ CanRotate(p) /\ gen' = [gen EXCEPT ![u] = @ + 1]
           /\ client' = [client EXCEPT ![p].refresh = NextToken(u), ![p].access = NextToken(u)]
  <2>1. u \in Sessions /\ client[p].refresh.sess = u
    BY <1>3 DEF CanRotate, Honoured
  <2>2. gen'[u] = gen[u] + 1
    BY <1>1, <1>3, <2>1
  <2>3. /\ client'[p].uid = u /\ client'[p].refresh = NextToken(u)
        /\ client'[p].access = NextToken(u) /\ client'[p].unlocked = client[p].unlocked
    BY <1>1, <1>3 DEF Held
  <2>4. NextToken(u).sess = u /\ NextToken(u).gen = gen[u] + 1
    BY DEF NextToken
  <2> HIDE DEF u
  <2>5. Honoured(client[p].access, client[p].uid)'
    BY <2>1, <2>2, <2>3, <2>4 DEF Honoured
  <2>6. /\ u = seed[p].uid /\ seed[p].refresh.sess = u
        /\ seed[p].refresh.gen < gen[u] + 1
    <3>1. /\ u = seed[p].uid /\ seed[p].refresh.sess = u
          /\ \/ seed[p].refresh.gen = gen[u]
             \/ seed[p].refresh.gen < gen[u] /\ seed[p].refresh.gen \in Nat
      <4>1. client[p].refresh.gen = gen[u]
        BY <1>3 DEF CanRotate, Honoured, u
      <4>2. seed[p].refresh.gen \in Nat
        BY DEF SessionType, ProcType, Held, AnyToken
      <4> QED BY <2>1, <4>1, <4>2 DEF Carries, u
    <3>2. gen[u] \in Nat
      BY <1>1, <2>1
    <3> QED BY <3>1, <3>2
  <2> QED BY <2>1, <2>3, <2>4, <2>5, <2>6 DEF Carries, Serves, u
<1> QED BY <1>2, <1>3 DEF Reach

LEMMA StartCarries ==
  ASSUME SessionType, UidsOpened, NEW p \in Procs, StartAdd(p) \/ StartRemove(p) \/ StartResume(p)
  PROVE  Carrying(p)
<1>1. ProcType /\ gen' = gen /\ rows' = rows
  BY DEF SessionType, StartAdd, StartRemove, StartResume, Begin, proton
<1>2. UidsOpened'
  BY <1>1, UidsKeep
<1>3. \A c, id, step : Begin(p, c, id, step) => pc'[p] = step /\ cmd'[p] = c /\ box'[p] = id
  BY <1>1 DEF Begin, ProcType
<1>4. CASE StartAdd(p)
  <2>1. pc'[p] = "login"
    BY <1>3, <1>4 DEF StartAdd
  <2> QED BY <1>2, <2>1, CarryNothing DEF Carrying
<1>5. CASE StartRemove(p)
  <2>1. pc'[p] = "write" /\ cmd'[p] = "remove"
    BY <1>3, <1>5 DEF StartRemove
  <2> QED BY <1>2, <2>1 DEF Carrying, Carried, Writing, Reading, Using, WithKeyPass, WithPassphrase
<1>6. CASE StartResume(p)
  <2>1. PICK id \in Ids, c \in {"sync", "labels", "refresh"} :
            /\ seed' = [seed EXCEPT ![p].uid = rows[id].uid]
            /\ Begin(p, c, id, IF rows[id].user THEN "readRefresh" ELSE "flag")
    BY <1>6 DEF StartResume
  <2>2. /\ pc'[p] \in {"readRefresh", "flag"} /\ box'[p] = id
        /\ seed'[p].uid = rows[id].uid
    BY <1>1, <1>3, <2>1 DEF ProcType, Held
  <2> QED BY <1>1, <1>2, <2>2 DEF Carrying, Carried, Reading, Using, WithKeyPass, WithPassphrase
<1> QED BY <1>4, <1>5, <1>6

-----------------------------------------------------------------------------
(* From the reads to the writes.                                           *)

LEMMA ReadsCarry ==
  ASSUME SessionType, NEW p \in Procs, Carried(p),
         \/ ReadRefreshToken(p) \/ ReadAccessToken(p) \/ ReadKeyPass(p)
         \/ ReadPassphrase(p) \/ ReadFails(p)
  PROVE  Carried(p)' /\ (pc'[p] = "write" => Writing(p)')
<1> DEFINE b == box[p]
<1>1. /\ ProcType /\ rows' = rows /\ kc' = kc /\ gen' = gen
      /\ seed \in [Procs -> Held] /\ pc \in [Procs -> Steps]
  BY DEF SessionType, ProcType, ReadRefreshToken, ReadAccessToken, ReadKeyPass, ReadPassphrase,
         ReadFails, proton
<1>2. CASE GiveUp(p) \/ EndCommand(p)
  BY <1>1, <1>2, GiveUpCarries
<1>3. ASSUME NEW kind \in Kinds, NEW step, Read(p, kind, step)
      PROVE  /\ pc'[p] = step /\ box'[p] = b /\ cmd'[p] = cmd[p] /\ client'[p] = client[p]
             /\ seed'[p].uid = seed[p].uid /\ seed'[p][kind] = kc[b][kind]
             /\ kind # "refresh" => seed'[p].refresh = seed[p].refresh
             /\ kind # "access" => seed'[p].access = seed[p].access
  BY <1>1, <1>3 DEF Read, Held, Kinds
<1>4. CASE Read(p, "refresh", "readAccess") /\ pc[p] = "readRefresh"
  <2>1. /\ pc'[p] = "readAccess" /\ box'[p] = b /\ seed'[p].uid = seed[p].uid
        /\ seed'[p].refresh = kc[b].refresh
    BY <1>3, <1>4 DEF Kinds
  <2> QED BY <1>1, <1>4, <2>1 DEF Carried, Reading, Using, WithKeyPass, WithPassphrase
<1>5. CASE Read(p, "access", "resume") /\ pc[p] = "readAccess"
  <2>1. /\ pc'[p] = "resume" /\ box'[p] = b /\ seed'[p].uid = seed[p].uid
        /\ seed'[p].refresh = seed[p].refresh /\ seed'[p].access = kc[b].access
    BY <1>3, <1>5 DEF Kinds
  <2> QED BY <1>1, <1>5, <2>1 DEF Carried, Reading, Using, WithKeyPass, WithPassphrase
<1>6. ASSUME NEW kind \in {"keypass", "passphrase"}, NEW step \in Using \ {"probe", "heal"},
             Read(p, kind, step), pc[p] \in {"readKeyPass", "readPassphrase"},
             step \in WithKeyPass => kind = "keypass",
             step \in WithPassphrase => kind = "passphrase"
      PROVE  Carried(p)' /\ pc'[p] # "write"
  <2>1. /\ pc'[p] = step /\ box'[p] = b /\ cmd'[p] = cmd[p] /\ client'[p] = client[p]
        /\ seed'[p].uid = seed[p].uid /\ seed'[p][kind] = kc[b][kind]
        /\ seed'[p].refresh = seed[p].refresh /\ seed'[p].access = seed[p].access
    BY <1>3, <1>6 DEF Kinds
  <2>2. /\ seed[p].uid = rows[b].uid /\ seed[p].refresh = kc[b].refresh
        /\ seed[p].access = kc[b].access /\ Carries(p) /\ Serves(p)
    BY <1>6 DEF Carried, Using
  <2>3. Carries(p)' /\ Serves(p)'
    BY <1>1, <2>1, <2>2, CarriesSame, ServesSame
  <2> QED BY <1>1, <1>6, <2>1, <2>2, <2>3 DEF Carried, Reading, Using
<1>7. CASE ReadKeyPass(p)
  <2>1. PICK step \in {"readPassphrase", "callForKeys"} : Read(p, "keypass", step)
    BY <1>7 DEF ReadKeyPass
  <2>2. pc[p] = "readKeyPass"
    BY <1>7 DEF ReadKeyPass
  <2> QED BY <1>6, <2>1, <2>2 DEF Using, WithKeyPass, WithPassphrase
<1>8. CASE ReadPassphrase(p)
  <2>1. GiveUp(p) \/ Read(p, "passphrase", "callForSalts")
    BY <1>8 DEF ReadPassphrase
  <2>2. pc[p] = "readPassphrase"
    BY <1>8 DEF ReadPassphrase
  <2> QED BY <1>2, <1>6, <2>1, <2>2 DEF Using, WithKeyPass, WithPassphrase
<1>9. CASE ReadRefreshToken(p) \/ ReadAccessToken(p) \/ ReadFails(p)
  BY <1>2, <1>4, <1>5, <1>9 DEF ReadRefreshToken, ReadAccessToken, ReadFails
<1> QED BY <1>7, <1>8, <1>9

LEMMA ResumeCarries ==
  ASSUME SessionType, NEW p \in Procs, Placed(p), Carried(p), Resume(p)
  PROVE  Carried(p)' /\ pc'[p] # "write"
<1>1. /\ pc[p] = "resume" /\ pc'[p] \in {"readKeyPass", "probe"} /\ client'[p] = seed[p]
      /\ box'[p] = box[p] /\ cmd'[p] = cmd[p] /\ seed' = seed /\ rows' = rows /\ kc' = kc
      /\ pc'[p] = "readKeyPass" => cmd[p] = "sync"
  BY DEF Resume, SessionType, ProcType
<1>2. /\ seed[p].uid = rows[box[p]].uid /\ seed[p].refresh = kc[box[p]].refresh
      /\ seed[p].access = kc[box[p]].access
  BY <1>1 DEF Carried, Reading
<1>3. Carries(p)' /\ (pc'[p] # "probe" => Serves(p)')
  BY <1>1 DEF Carries, Serves
<1> QED BY <1>1, <1>2, <1>3 DEF Carried, Reading, Using, WithKeyPass, WithPassphrase

\* What is written is what was carried.
LEMMA PersistBegins ==
  ASSUME SessionType, KeysOpened, NEW p \in Procs, Carries(p)', Serves(p)',
         pc'[p] = "write", box'[p] = box[p], seed'[p] = seed[p], rows' = rows,
         kc'[box[p]].refresh = kc[box[p]].refresh, kc'[box[p]].access = kc[box[p]].access,
         seed[p].uid = rows[box[p]].uid, seed[p].refresh = kc[box[p]].refresh,
         seed[p].access = kc[box[p]].access,
         \/ cmd'[p] \in {"sync", "labels"} /\ plan'[p] = PersistPlan
         \/ /\ cmd'[p] = "refresh" /\ plan'[p] = RefreshPlan
            /\ client'[p].unlocked # 0
            /\ client'[p].unlocked = keys'.keypass => Unlockable(box[p])'
  PROVE  Carried(p)' /\ Writing(p)'
<1>1. Carried(p)'
  BY DEF Carried, Reading, Using, WithKeyPass, WithPassphrase
<1>2. CASE cmd'[p] \in {"sync", "labels"} /\ plan'[p] = PersistPlan
  <2>1. Left(p, PersistPlan)' /\ Done(p, PersistPlan)' = 0
    BY <1>2, PlansFit, LeftBegins
  <2>2. Persists(p, 0)'
    BY <1>2 DEF Persists
  <2>3. Persists(p, Done(p, PersistPlan))'
    BY <2>1, <2>2
  <2> QED BY <1>1, <1>2, <2>1, <2>3 DEF Writing
<1>3. CASE /\ cmd'[p] = "refresh" /\ plan'[p] = RefreshPlan
           /\ client'[p].unlocked # 0
           /\ client'[p].unlocked = keys'.keypass => Unlockable(box[p])'
  <2>1. Left(p, RefreshPlan)' /\ Done(p, RefreshPlan)' = 0
    BY <1>3, PlansFit, LeftBegins
  <2>2. Persists(p, 0)'
    BY <1>3 DEF Persists, Unlockable
  <2>3. Persists(p, Done(p, RefreshPlan))'
    BY <2>1, <2>2
  <2> QED BY <1>1, <1>3, <2>1, <2>3 DEF Writing
<1> QED BY <1>2, <1>3

LEMMA CallsCarry ==
  ASSUME SessionType, KeysOpened, NEW p \in Procs, Placed(p), Carried(p),
         Probe(p) \/ CallForKeys(p) \/ SyncCalls(p)
  PROVE  Carried(p)' /\ (pc'[p] = "write" => Writing(p)')
<1> DEFINE b == box[p]
<1>1. /\ ProcType /\ Reach(p) /\ pc[p] \in Using /\ pc[p] # "heal"
      /\ rows' = rows /\ kc' = kc /\ seed' = seed /\ cmd' = cmd /\ box' = box
  BY DEF SessionType, Probe, CallForKeys, SyncCalls, Using
<1>2. /\ seed[p].uid = rows[b].uid /\ seed[p].refresh = kc[b].refresh
      /\ seed[p].access = kc[b].access /\ Carries(p)
  BY <1>1 DEF Carried
<1>3. Carries(p)' /\ Serves(p)'
  BY <1>1, <1>2, ReachCarries
<1>4. /\ pc[p] \in WithKeyPass => seed[p].keypass = kc[b].keypass
      /\ pc[p] \in WithPassphrase => seed[p].passphrase = kc[b].passphrase
  BY DEF Carried
<1>5. ASSUME NEW step \in Using \ {"heal"}, pc'[p] = step,
             step \in WithKeyPass => pc[p] \in WithKeyPass,
             step \in WithPassphrase => pc[p] \in WithPassphrase
      PROVE  Carried(p)' /\ pc'[p] # "write"
  BY <1>1, <1>2, <1>3, <1>4, <1>5 DEF Carried, Reading, Using, WithKeyPass, WithPassphrase
<1>6. CASE SyncCalls(p)
  <2>1. pc'[p] = "sync"
    BY <1>6 DEF SyncCalls
  <2> QED BY <1>5, <2>1 DEF Using, WithKeyPass, WithPassphrase
<1>7. CASE CallForKeys(p)
  <2>1. \/ pc[p] = "callForKeys" /\ pc'[p] = "open"
        \/ pc[p] = "callForSalts" /\ pc'[p] = "derive"
    BY <1>1, <1>7 DEF CallForKeys, ProcType
  <2> QED BY <1>5, <2>1 DEF Using, WithKeyPass, WithPassphrase
<1>8. CASE Probe(p) /\ cmd[p] = "labels"
  <2>1. AfterProbe(cmd[p]) = "write"
    BY <1>8 DEF AfterProbe
  <2>2. pc'[p] = "write" /\ plan'[p] = PersistPlan
    BY <1>1, <1>8, <2>1 DEF Probe, ProcType
  <2> QED BY <1>1, <1>2, <1>3, <1>8, <2>2, PersistBegins
<1>9. CASE Probe(p) /\ cmd[p] # "labels"
  <2>1. pc'[p] = "readKeyPass"
    BY <1>1, <1>9 DEF Probe, AfterProbe, ProcType
  <2> QED BY <1>5, <2>1 DEF Using, WithKeyPass, WithPassphrase
<1> QED BY <1>6, <1>7, <1>8, <1>9

\* A sync goes on; auth refresh writes, its keys opened by what is stored.
LEMMA AfterUnlockCarries ==
  ASSUME SessionType, KeysOpened, NEW p \in Procs, pc[p] \in {"open", "heal"}, Placed(p),
         AfterUnlock(p), Carries(p), Serves(p), UNCHANGED <<gen, rows>>,
         client'[p].uid = client[p].uid, client'[p].refresh = client[p].refresh,
         client'[p].access = client[p].access, client'[p].unlocked # 0,
         kc'[box[p]].refresh = kc[box[p]].refresh, kc'[box[p]].access = kc[box[p]].access,
         seed[p].uid = rows[box[p]].uid, seed[p].refresh = kc[box[p]].refresh,
         seed[p].access = kc[box[p]].access,
         client'[p].unlocked = keys'.keypass => Unlockable(box[p])'
  PROVE  Carried(p)' /\ (pc'[p] = "write" => Writing(p)')
<1>1. ProcType /\ cmd' = cmd /\ box' = box /\ seed' = seed
  BY DEF SessionType, AfterUnlock, BeginWrites
<1>2. Carries(p)' /\ Serves(p)'
  BY <1>1, CarriesSame, ServesSame
<1>3. CASE cmd[p] = "sync"
  <2>1. pc'[p] = "sync"
    BY <1>1, <1>3 DEF AfterUnlock, ProcType
  <2> QED BY <1>1, <1>2, <2>1 DEF Carried, Reading, Using, WithKeyPass, WithPassphrase
<1>4. CASE cmd[p] # "sync"
  <2>1. cmd[p] = "refresh"
    BY <1>4 DEF Placed, Using
  <2>2. pc'[p] = "write" /\ plan'[p] = RefreshPlan
    BY <1>1, <1>4 DEF AfterUnlock, BeginWrites, ProcType
  <2> QED BY <1>1, <1>2, <2>1, <2>2, PersistBegins
<1> QED BY <1>3, <1>4

LEMMA UnlocksCarry ==
  ASSUME SessionType, KeysOpened, NEW p \in Procs, Placed(p), Carried(p),
         UnlockWithKeyPass(p) \/ Unlock(p) \/ StoreKeyPass(p)
  PROVE  Carried(p)' /\ (pc'[p] = "write" => Writing(p)')
<1> DEFINE b == box[p]
<1>1. /\ ProcType /\ UNCHANGED <<gen, full, rows, keys>>
      /\ pc[p] \in {"open", "derive", "heal"} /\ b \in Ids
      /\ client \in [Procs -> Held] /\ kc \in [Ids -> Secrets] /\ keys.keypass \in Nat
  BY DEF SessionType, ProtonType, StoreType, ProcType, UnlockWithKeyPass, Unlock, StoreKeyPass,
       proton
<1>2. /\ seed[p].uid = rows[b].uid /\ seed[p].refresh = kc[b].refresh
      /\ seed[p].access = kc[b].access /\ Carries(p) /\ Serves(p)
  BY <1>1 DEF Carried, Using
<1>3. ASSUME Unlocked(p)
      PROVE  /\ client'[p].uid = client[p].uid /\ client'[p].refresh = client[p].refresh
             /\ client'[p].access = client[p].access
             /\ client'[p].unlocked = keys.keypass /\ client'[p].keypass = keys.keypass
             /\ keys.keypass # 0
  <2>1. keys.keypass # 0
    BY <1>1 DEF KeysOpened
  <2> QED BY <1>1, <1>3, <2>1 DEF Unlocked, Held
<1>4. CASE UnlockWithKeyPass(p)
  <2>1. pc[p] = "open" /\ kc' = kc /\ seed[p].keypass = kc[b].keypass
    BY <1>4 DEF UnlockWithKeyPass, Carried, WithKeyPass
  <2>2. CASE seed[p].keypass = keys.keypass
    <3>1. Unlocked(p) /\ AfterUnlock(p)
      BY <1>4, <2>2 DEF UnlockWithKeyPass
    <3>2. Unlockable(b)'
      <4>1. box'[p] = b
        BY <3>1 DEF AfterUnlock, BeginWrites
      <4> QED BY <1>1, <2>1, <2>2, <4>1 DEF Unlockable
    <3> QED BY <1>1, <1>2, <1>3, <2>1, <3>1, <3>2, AfterUnlockCarries
  <2>3. CASE seed[p].keypass # keys.keypass
    <3>1. Proceed(p, "readPassphrase")
      BY <1>4, <2>3 DEF UnlockWithKeyPass
    <3>2. pc'[p] = "readPassphrase" /\ box' = box /\ seed' = seed /\ client' = client /\ cmd' = cmd
      BY <1>1, <3>1 DEF Proceed, ProcType
    <3>3. Carries(p)' /\ Serves(p)'
      BY <1>1, <1>2, <3>2, CarriesSame, ServesSame
    <3> QED BY <1>1, <1>2, <2>1, <3>2, <3>3 DEF Carried, Reading, Using, WithKeyPass, WithPassphrase
  <2> QED BY <2>2, <2>3
<1>5. CASE Unlock(p)
  <2>1. pc[p] = "derive" /\ kc' = kc /\ seed[p].passphrase = kc[b].passphrase
    BY <1>5 DEF Unlock, Carried, WithPassphrase
  <2>2. CASE GiveUp(p)
    BY <1>1, <2>2, GiveUpCarries
  <2>3. CASE /\ client[p].uid \in full /\ seed[p].passphrase = keys.passphrase
             /\ Unlocked(p) /\ pc' = [pc EXCEPT ![p] = "heal"] /\ UNCHANGED <<cmd, box, seed>>
    <3>1. pc'[p] = "heal"
      BY <1>1, <2>3 DEF ProcType
    <3>2. Carries(p)' /\ Serves(p)'
      BY <1>1, <1>2, <1>3, <2>3, CarriesSame, ServesSame
    <3>3. Heals(p)'
      BY <1>1, <1>3, <2>3 DEF Heals
    <3> QED BY <1>1, <1>2, <2>1, <2>3, <3>1, <3>2, <3>3 DEF Carried, Reading, Using, WithKeyPass,
    WithPassphrase
  <2> QED BY <1>5, <2>2, <2>3 DEF Unlock
<1>6. CASE StoreKeyPass(p)
  <2>1. /\ pc[p] = "heal" /\ seed[p].passphrase = kc[b].passphrase /\ Heals(p)
        /\ client' = client /\ AfterUnlock(p)
    BY <1>6 DEF StoreKeyPass, Carried, WithPassphrase
  <2>2. /\ kc'[b].refresh = kc[b].refresh /\ kc'[b].access = kc[b].access
        /\ kc'[b].passphrase = kc[b].passphrase
        /\ kc'[b].keypass = client[p].keypass \/ kc' = kc
    BY <1>1, <1>6 DEF StoreKeyPass, Secrets
  <2>3. client[p].unlocked = keys.keypass => Unlockable(b)'
    <3>1. box'[p] = b
      BY <2>1 DEF AfterUnlock, BeginWrites
    <3>2. ASSUME client[p].unlocked = keys.keypass
          PROVE  /\ client[p].keypass = keys.keypass
                 /\ kc[b].passphrase = keys.passphrase /\ rows[b].uid \in full
      BY <1>2, <2>1, <3>2 DEF Heals, Carries
    <3> QED BY <1>1, <2>2, <3>1, <3>2 DEF Unlockable
  <2>4. client[p].unlocked # 0
    BY <2>1 DEF Heals
  <2> QED BY <1>1, <1>2, <2>1, <2>2, <2>3, <2>4, AfterUnlockCarries
<1> QED BY <1>4, <1>5, <1>6

LEMMA SyncEndsCarries ==
  ASSUME SessionType, KeysOpened, NEW p \in Procs, Placed(p), Carried(p), SyncEnds(p)
  PROVE  Carried(p)' /\ Writing(p)'
<1>1. /\ pc[p] = "sync" /\ cmd[p] = "sync" /\ rows' = rows /\ kc' = kc /\ gen' = gen
      /\ client' = client /\ cmd' = cmd /\ box' = box /\ seed' = seed
      /\ pc'[p] = "write" /\ plan'[p] = PersistPlan
  BY Domains DEF SyncEnds, BeginWrites, Placed, SessionType, proton
<1>2. /\ seed[p].uid = rows[box[p]].uid /\ seed[p].refresh = kc[box[p]].refresh
      /\ seed[p].access = kc[box[p]].access /\ Carries(p) /\ Serves(p)
  BY <1>1 DEF Carried, Using
<1>3. Carries(p)' /\ Serves(p)'
  BY <1>1, <1>2, CarriesSame, ServesSame
<1> QED BY <1>1, <1>2, <1>3, PersistBegins

\* The tokens that an answer lost in the run has spent are carried all the same.
LEMMA LossCarries ==
  ASSUME NEW p \in Procs, Placed(p), Carried(p), SyncCallFails(p)
  PROVE  Carried(p)' /\ pc'[p] # "write"
<1>1. /\ pc[p] = "sync" /\ cmd[p] = "sync"
      /\ UNCHANGED <<keys, rows, kc, pc, cmd, box, seed, client>>
  BY DEF SyncCallFails, Placed, procs
<1>2. Carries(p)' /\ Serves(p)'
  BY <1>1 DEF Carried, Carries, Serves, Using
<1> QED BY <1>1, <1>2 DEF Carried, Reading, Using, WithKeyPass, WithPassphrase

LEMMA WorksCarry ==
  ASSUME SessionType, UidsOpened, KeysOpened, NEW p \in Procs, Placed(p), Carried(p), Works(p)
  PROVE  Carrying(p)
<1>1. UidsOpened'
  <2>1. Step(p) /\ rows' = rows
    BY WorksMove DEF Works, Step, SessionType
  <2> QED BY <2>1, GenKeeps, UidsKeep
<1>2. CASE CallForKeysFails(p)
  BY <1>1, <1>2, GiveUpCarries DEF CallForKeysFails, Carrying, SessionType
<1>3. CASE SyncCallFails(p)
  BY <1>1, <1>3, LossCarries DEF Carrying
<1>4. CASE ~CallForKeysFails(p) /\ ~SyncCallFails(p)
  BY <1>1, <1>4, ReadsCarry, ResumeCarries, CallsCarry, UnlocksCarry, SyncEndsCarries
     DEF Works, Carrying
<1> QED BY <1>2, <1>3, <1>4

\* A login's session is a new one.
LEMMA LoginCarries ==
  ASSUME SessionType, UidsOpened, KeysOpened, NEW p \in Procs, Placed(p), Login(p)
  PROVE  Carrying(p)
<1>1. /\ ProcType /\ pc[p] = "login" /\ rows' = rows /\ kc' = kc /\ keys' = keys
      /\ gen \in [Sessions -> Nat] /\ keys.keypass \in Nat
  BY DEF SessionType, ProtonType, Login
<1>2. UidsOpened'
  <2>1. Step(p)
    BY DEF Step
  <2> QED BY <1>1, <2>1, GenKeeps, UidsKeep
<1>3. CASE EndCommand(p)
  BY <1>1, <1>2, <1>3, GiveUpCarries DEF Carrying
<1>4. CASE ~EndCommand(p)
  <2>1. PICK s \in Sessions :
          /\ gen[s] = 0 /\ gen' = [gen EXCEPT ![s] = 1]
          /\ client' = [client EXCEPT ![p] =
                 [uid |-> s, refresh |-> [sess |-> s, gen |-> 1],
                  access |-> [sess |-> s, gen |-> 1],
                  passphrase |-> keys.passphrase,
                  keypass |-> keys.keypass, unlocked |-> keys.keypass]]
          /\ BeginWrites(p, IF cmd[p] = "add" THEN AddPlan ELSE WriteSecrets)
    BY <1>4 DEF Login
  <2>2. /\ pc'[p] = "write" /\ cmd'[p] = cmd[p] /\ box' = box
        /\ plan'[p] = IF cmd[p] = "add" THEN AddPlan ELSE WriteSecrets
    BY <1>1, <2>1 DEF BeginWrites, ProcType
  <2>3. /\ client'[p].uid = s /\ client'[p].refresh = [sess |-> s, gen |-> 1]
        /\ client'[p].access = [sess |-> s, gen |-> 1]
        /\ client'[p].keypass = keys.keypass /\ client'[p].unlocked = keys.keypass
    BY <1>1, <2>1 DEF ProcType
  <2>4. \A id \in Ids : rows'[id].uid # s
    BY <1>1, <2>1 DEF UidsOpened, Sessions
  <2>5. keys.keypass # 0 /\ gen'[s] = 1
    BY <1>1, <2>1 DEF KeysOpened
  <2>6. Enters(p, 0)' /\ Enters(p, 0 - 2)'
    BY <2>3, <2>4, <2>5 DEF Enters
  <2>7. Carried(p)'
    BY <2>2 DEF Carried, Reading, Using, WithKeyPass, WithPassphrase
  <2>8. CASE cmd[p] = "add"
    <3>1. Left(p, AddPlan)' /\ Done(p, AddPlan)' = 0
      BY <2>2, <2>8, PlansFit, LeftBegins
    <3>2. Enters(p, Done(p, AddPlan) - 2)'
      BY <2>6, <3>1
    <3> QED BY <1>2, <2>2, <2>7, <2>8, <3>1, <3>2 DEF Carrying, Writing
  <2>9. CASE cmd[p] # "add"
    <3>1. cmd[p] = "refresh" /\ plan'[p] = WriteSecrets
      BY <1>1, <2>2, <2>9 DEF Placed
    <3>2. Left(p, WriteSecrets)' /\ Done(p, WriteSecrets)' = 0
      BY <3>1, PlansFit, LeftBegins
    <3>3. Enters(p, Done(p, WriteSecrets))'
      BY <2>6, <3>2
    <3> QED BY <1>2, <2>2, <2>7, <3>1, <3>2, <3>3 DEF Carrying, Writing
  <2> QED BY <2>8, <2>9
<1> QED BY <1>3, <1>4

LEMMA FlagCarries ==
  ASSUME SessionType, UidsOpened, NEW p \in Procs, Flag(p)
  PROVE  Carrying(p)
<1>1. /\ ProcType /\ rows \in [Ids -> [state : States, user : BOOLEAN, uid : Uids]]
      /\ gen' = gen
  BY DEF SessionType, StoreType, Flag, proton
<1>2. \A id \in Ids : rows'[id].uid = rows[id].uid
  <2>1. rows' = rows \/ rows' = [rows EXCEPT ![box[p]].state = "needs_reauth"]
    BY DEF Flag
  <2> QED BY <1>1, <2>1
<1>3. UidsOpened'
  BY <1>1, <1>2, UidsKeep
<1>4. EndCommand(p) \/ pc'[p] = "login"
  BY <1>1 DEF Flag, Proceed, ProcType
<1> QED BY <1>1, <1>3, <1>4, GiveUpCarries, CarryNothing DEF Carrying

LEMMA StopCarries ==
  ASSUME SessionType, UidsOpened, NEW p \in Procs, LoginFails(p) \/ Crash(p) \/ Interrupt(p)
  PROVE  Carrying(p)
<1>1. ProcType /\ EndCommand(p) /\ rows' = rows /\ Step(p)
  BY DEF SessionType, LoginFails, Crash, Interrupt, Step
<1>2. UidsOpened'
  BY <1>1, GenKeeps, UidsKeep
<1> QED BY <1>1, <1>2, GiveUpCarries DEF Carrying

-----------------------------------------------------------------------------
(* The writes, field by field.                                             *)

\* The session uid a write leaves in the row.
LEMMA UidWritten ==
  ASSUME SessionType, NEW p \in Procs, Write(p), NEW op, op = Head(plan[p]), op \in Ops,
         box[p] \in Ids
  PROVE  /\ op[1] = "row" /\ op[2] \in {"user", "active", "needs_reauth"} =>
                rows'[box[p]].uid = rows[box[p]].uid
         /\ op[1] = "row" /\ op[2] \in {"insert", "drop"} => rows'[box[p]].uid = 0
         /\ op = <<"row", "uid">> => rows'[box[p]].uid = client[p].uid
         /\ op = <<"rotate", "uid">> =>
                \/ rows'[box[p]].uid = client[p].uid
                \/ rows' = rows /\ client[p].uid = seed[p].uid
         /\ op[1] # "row" /\ op # <<"rotate", "uid">> => rows' = rows
<1> DEFINE b == box[p]
<1>1. /\ rows \in [Ids -> [state : States, user : BOOLEAN, uid : Uids]] /\ b \in Ids
      /\ rows' = IF Stores(p, op) THEN [rows EXCEPT ![b] = RowAfter(p, op)] ELSE rows
  BY DEF SessionType, StoreType, Write
<1>2. Stores(p, op) => rows'[b] = RowAfter(p, op)
  BY <1>1
<1>3. ASSUME op[1] = "row", op[2] \in {"user", "active", "needs_reauth"}
      PROVE  rows'[b].uid = rows[b].uid
  <2>1. rows[b] \in [state : States, user : BOOLEAN, uid : Uids]
    BY <1>1
  <2>2. RowAfter(p, op).uid = rows[b].uid
    BY <1>3, <2>1 DEF RowAfter
  <2> QED BY <1>2, <1>3, <2>2 DEF Stores
<1>4. ASSUME op[1] = "row", op[2] \in {"insert", "drop"}
      PROVE  rows'[b].uid = 0
  <2>1. RowAfter(p, op).uid = 0
    BY <1>4 DEF RowAfter, NoRow
  <2> QED BY <1>2, <1>4, <2>1 DEF Stores
<1>5. op[2] = "uid" => RowAfter(p, op).uid = client[p].uid
  <2>1. rows[b] \in [state : States, user : BOOLEAN, uid : Uids]
    BY <1>1
  <2> QED BY <2>1 DEF RowAfter
<1>6. op = <<"row", "uid">> => rows'[b].uid = client[p].uid
  <2>1. op = <<"row", "uid">> => op[1] = "row" /\ op[2] = "uid"
    OBVIOUS
  <2> QED BY <1>2, <1>5, <2>1 DEF Stores
<1>7. op = <<"rotate", "uid">> => \/ rows'[b].uid = client[p].uid
                                  \/ rows' = rows /\ client[p].uid = seed[p].uid
  <2>1. ASSUME op = <<"rotate", "uid">>, ~Stores(p, op)
        PROVE  rows' = rows /\ client[p].uid = seed[p].uid
    BY <1>1, <2>1 DEF Stores, Rotated
  <2>2. op = <<"rotate", "uid">> => op[2] = "uid"
    OBVIOUS
  <2> QED BY <1>2, <1>5, <2>1, <2>2
<1>8. op[1] # "row" /\ op # <<"rotate", "uid">> => rows' = rows
  BY <1>1 DEF Stores
<1> QED BY <1>3, <1>4, <1>6, <1>7, <1>8

\* The secrets a write leaves.
LEMMA KcWritten ==
  ASSUME SessionType, NEW p \in Procs, Write(p), NEW op, op = Head(plan[p]), op \in Ops,
         box[p] \in Ids
  PROVE  LET s == kc[box[p]]  t == kc'[box[p]]
         IN  /\ \A k \in Kinds \ {op[2]} : t[k] = s[k]
             /\ op[1] = "row" \/ op[2] = "uid" => kc' = kc
             /\ op[1] = "set" => t[op[2]] = client[p][op[2]]
             /\ op[1] = "rotate" /\ op[2] \in {"access", "refresh"} =>
                    t[op[2]] = client[p][op[2]]
                    \/ (t[op[2]] = s[op[2]] /\ client[p][op[2]] = seed[p][op[2]])
<1> DEFINE b == box[p]
<1>1. /\ kc \in [Ids -> Secrets] /\ b \in Ids
      /\ kc' = IF UsesKeychain(p, op) THEN [kc EXCEPT ![b][op[2]] = SecretAfter(p, op)] ELSE kc
  BY DEF SessionType, StoreType, Write
<1>2. CASE ~UsesKeychain(p, op)
  <2>1. kc' = kc /\ op[1] # "set"
    BY <1>1, <1>2 DEF UsesKeychain
  <2>2. ASSUME op[1] = "rotate", op[2] \in {"access", "refresh"}
        PROVE  client[p][op[2]] = seed[p][op[2]]
    <3>1. op \in {<<"rotate", "access">>, <<"rotate", "refresh">>}
      BY <2>2 DEF Ops, Kinds
    <3> QED BY <1>2, <3>1 DEF UsesKeychain, Rotated
  <2> QED BY <2>1, <2>2
<1>3. CASE UsesKeychain(p, op)
  <2>1. kc'[b] = [kc[b] EXCEPT ![op[2]] = SecretAfter(p, op)]
    BY <1>1, <1>3
  <2>2. op[2] \in Kinds /\ op[1] # "row" /\ op[2] # "uid"
    BY <1>3 DEF UsesKeychain, Ops, Kinds
  <2>3. \A k \in Kinds \ {op[2]} : kc'[b][k] = kc[b][k]
    BY <1>1, <2>1, <2>2 DEF Kinds, Secrets
  <2>4. kc'[b][op[2]] = SecretAfter(p, op)
    BY <1>1, <2>1, <2>2 DEF Kinds, Secrets
  <2>5. op[1] \in {"set", "rotate"} => SecretAfter(p, op) = client[p][op[2]]
    BY DEF SecretAfter
  <2> QED BY <2>2, <2>3, <2>4, <2>5
<1> QED BY <1>2, <1>3

\* A command that goes on writing has its credentials still.
Continues(p) ==
    /\ pc'[p] = "write" /\ cmd'[p] = cmd[p] /\ box'[p] = box[p]
    /\ seed'[p] = seed[p] /\ client'[p] = client[p] /\ gen' = gen /\ keys' = keys /\ full' = full

\* A write of the session that was read.
LEMMA PersistWrites ==
  ASSUME SessionType, NEW p \in Procs, NEW n \in 0..3, NEW op, op = Head(plan[p]), op \in Ops,
         box[p] \in Ids, Write(p), Persists(p, n),
         n = 0 => op = <<"rotate", "access">>, n = 1 => op = <<"rotate", "refresh">>,
         n = 2 => op = <<"rotate", "uid">>, n = 3 => op = <<"row", "active">>
  PROVE  /\ rows'[box[p]].uid = rows[box[p]].uid
         /\ Continues(p) => Persists(p, n + 1)'
<1> DEFINE b == box[p]  s == kc[b]  t == kc'[b]
<1>1. /\ rows[b].uid = seed[p].uid /\ Carries(p) /\ Serves(p)
      /\ n <= 1 => s.refresh = seed[p].refresh
      /\ n = 0 => s.access = seed[p].access
      /\ n >= 1 => s.access = client[p].access \/ cmd[p] = "sync"
      /\ cmd[p] = "refresh" =>
           client[p].unlocked # 0 /\ (client[p].unlocked = keys.keypass => Unlockable(b))
  BY DEF Persists
<1>2. n = 0 \/ n = 1 \/ n = 2 \/ n = 3
  OBVIOUS
<1>3. client[p].uid = seed[p].uid
  BY <1>1 DEF Carries
<1>4. rows'[b].uid = rows[b].uid
  <2>1. CASE n = 0 \/ n = 1
    <3>1. op[1] # "row" /\ op # <<"rotate", "uid">>
      BY <2>1
    <3> QED BY <3>1, UidWritten
  <2>2. CASE n = 2
    BY <1>1, <1>3, <2>2, UidWritten
  <2>3. CASE n = 3
    <3>1. op[1] = "row" /\ op[2] = "active"
      BY <2>3
    <3> QED BY <3>1, UidWritten
  <2> QED BY <1>2, <2>1, <2>2, <2>3
<1>5. /\ t.passphrase = s.passphrase /\ t.keypass = s.keypass
      /\ n = 0 => t.refresh = s.refresh
      /\ n >= 1 => t.access = s.access
      /\ n = 0 => t.access = client[p].access
  <2>1. /\ \A k \in Kinds \ {op[2]} : t[k] = s[k]
        /\ op[1] = "row" \/ op[2] = "uid" => kc' = kc
        /\ op[1] = "rotate" /\ op[2] \in {"access", "refresh"} =>
             t[op[2]] = client[p][op[2]]
             \/ (t[op[2]] = s[op[2]] /\ client[p][op[2]] = seed[p][op[2]])
    BY KcWritten
  <2>2. CASE n = 0
    <3>1. op[1] = "rotate" /\ op[2] = "access"
      BY <2>2
    <3>2. t.refresh = s.refresh /\ t.passphrase = s.passphrase /\ t.keypass = s.keypass
      BY <2>1, <3>1 DEF Kinds
    <3>3. t.access = client[p].access
      BY <1>1, <2>1, <2>2, <3>1
    <3> QED BY <2>2, <3>2, <3>3
  <2>3. CASE n = 1
    <3>1. op[1] = "rotate" /\ op[2] = "refresh"
      BY <2>3
    <3>2. t.access = s.access /\ t.passphrase = s.passphrase /\ t.keypass = s.keypass
      BY <2>1, <3>1 DEF Kinds
    <3> QED BY <2>3, <3>2
  <2>4. CASE n = 2 \/ n = 3
    <3>1. op[1] = "row" \/ op[2] = "uid"
      BY <2>4
    <3>2. kc' = kc
      BY <2>1, <3>1
    <3> QED BY <2>4, <3>2
  <2> QED BY <1>2, <2>2, <2>3, <2>4
<1>6. ASSUME Continues(p)
      PROVE  Persists(p, n + 1)'
  <2>1. Carries(p)' /\ Serves(p)'
    BY <1>1, <1>6, CarriesSame, ServesSame DEF Continues
  <2>2. Unlockable(b) => Unlockable(b)'
    <3>1. box'[p] = b /\ keys' = keys /\ full' = full
      BY <1>6 DEF Continues
    <3> QED BY <1>4, <1>5, <3>1 DEF Unlockable
  <2>3. /\ n + 1 <= 1 => t.refresh = seed[p].refresh
        /\ n + 1 # 0
        /\ t.access = client[p].access \/ cmd[p] = "sync"
    <3>1. n = 0 \/ n >= 1
      BY <1>2
    <3> QED BY <1>1, <1>2, <1>5, <3>1
  <2>4. Unlockable(b)' => Unlockable(box[p])'
    BY <1>6 DEF Continues, Unlockable
  <2> QED BY <1>1, <1>4, <1>6, <2>1, <2>2, <2>3, <2>4 DEF Persists, Continues
<1> QED BY <1>4, <1>6

\* A write of the session of a login.
LEMMA EnterWrites ==
  ASSUME SessionType, NEW p \in Procs, NEW n \in Int, n \in -2..5, NEW op, op = Head(plan[p]),
         op \in Ops, box[p] \in Ids, Write(p), Enters(p, n),
         n = -2 => op = <<"row", "insert">>, n = -1 => op = <<"row", "user">>,
         n = 0 => op = <<"set", "refresh">>, n = 1 => op = <<"set", "access">>,
         n = 2 => op = <<"set", "passphrase">>, n = 3 => op = <<"set", "keypass">>,
         n = 4 => op = <<"row", "uid">>, n = 5 => op = <<"row", "active">>
  PROVE  /\ rows'[box[p]].uid \in {0, rows[box[p]].uid, client[p].uid}
         /\ Continues(p) => Enters(p, n + 1)'
<1> DEFINE b == box[p]  c == client[p]  s == kc[b]  t == kc'[b]
<1>1. /\ c.uid \in Sessions /\ gen[c.uid] = 1
      /\ c.refresh = [sess |-> c.uid, gen |-> 1] /\ c.access = c.refresh
      /\ c.unlocked = c.keypass /\ c.unlocked # 0
      /\ n >= 1 => s.refresh = c.refresh
      /\ n >= 2 => s.access = c.access
      /\ n >= 3 => s.passphrase = c.passphrase
      /\ n >= 4 => s.keypass = c.keypass
      /\ n >= 5 => rows[b].uid = c.uid
      /\ n < 5 => \A id \in Ids : rows[id].uid # c.uid
  BY DEF Enters
<1>2. n = -2 \/ n = -1 \/ n = 0 \/ n = 1 \/ n = 2 \/ n = 3 \/ n = 4 \/ n = 5
  OBVIOUS
<1>3. /\ n = -2 => rows'[b].uid = 0
      /\ n = 4 => rows'[b].uid = c.uid
      /\ n # -2 /\ n # 4 => rows'[b].uid = rows[b].uid
  <2>1. CASE n = -2
    <3>1. op[1] = "row" /\ op[2] = "insert"
      BY <2>1
    <3> QED BY <2>1, <3>1, UidWritten
  <2>2. CASE n = 4
    <3>1. op = <<"row", "uid">>
      BY <2>2
    <3>2. rows'[b].uid = c.uid
      BY <3>1, UidWritten
    <3> QED BY <2>2, <3>2
  <2>3. CASE n = -1 \/ n = 5
    <3>1. op[1] = "row" /\ op[2] \in {"user", "active"}
      BY <2>3
    <3> QED BY <2>3, <3>1, UidWritten
  <2>4. CASE n = 0 \/ n = 1 \/ n = 2 \/ n = 3
    <3>1. op[1] # "row" /\ op # <<"rotate", "uid">>
      BY <2>4
    <3> QED BY <2>4, <3>1, UidWritten
  <2> QED BY <1>2, <2>1, <2>2, <2>3, <2>4
<1>4. /\ n >= 0 => t.refresh = c.refresh
      /\ n >= 1 => t.access = c.access
      /\ n >= 2 => t.passphrase = c.passphrase
      /\ n >= 3 => t.keypass = c.keypass
  <2>1. /\ \A k \in Kinds \ {op[2]} : t[k] = s[k]
        /\ op[1] = "row" \/ op[2] = "uid" => kc' = kc
        /\ op[1] = "set" => t[op[2]] = client[p][op[2]]
    BY KcWritten
  <2>2. CASE n = -2 \/ n = -1 \/ n = 4 \/ n = 5
    <3>1. op[1] = "row"
      BY <2>2
    <3>2. t = s
      BY <2>1, <3>1
    <3> QED BY <1>1, <2>2, <3>2
  <2>3. CASE n = 0
    <3>1. op[1] = "set" /\ op[2] = "refresh"
      BY <2>3
    <3> QED BY <2>1, <2>3, <3>1
  <2>4. CASE n = 1
    <3>1. op[1] = "set" /\ op[2] = "access"
      BY <2>4
    <3>2. t.refresh = s.refresh
      BY <2>1, <3>1 DEF Kinds
    <3> QED BY <1>1, <2>1, <2>4, <3>1, <3>2
  <2>5. CASE n = 2
    <3>1. op[1] = "set" /\ op[2] = "passphrase"
      BY <2>5
    <3>2. t.refresh = s.refresh /\ t.access = s.access
      BY <2>1, <3>1 DEF Kinds
    <3> QED BY <1>1, <2>1, <2>5, <3>1, <3>2
  <2>6. CASE n = 3
    <3>1. op[1] = "set" /\ op[2] = "keypass"
      BY <2>6
    <3>2. t.refresh = s.refresh /\ t.access = s.access /\ t.passphrase = s.passphrase
      BY <2>1, <3>1 DEF Kinds
    <3> QED BY <1>1, <2>1, <2>6, <3>1, <3>2
  <2> QED BY <1>2, <2>2, <2>3, <2>4, <2>5, <2>6
<1>5. n < 4 => \A id \in Ids : rows'[id].uid # c.uid
  <2>1. \A id \in Ids \ {b} : rows'[id] = rows[id]
    BY DEF Write, SessionType, StoreType
  <2>2. c.uid # 0
    BY <1>1 DEF Sessions
  <2> QED BY <1>1, <1>3, <2>1, <2>2
<1>6. ASSUME Continues(p)
      PROVE  Enters(p, n + 1)'
  <2>1. /\ n + 1 >= 1 => n >= 0
        /\ n + 1 >= 2 => n >= 1
        /\ n + 1 >= 3 => n >= 2
        /\ n + 1 >= 4 => n >= 3
        /\ n + 1 >= 5 => n = 4 \/ n = 5
        /\ n + 1 < 5 => n < 4
    BY <1>2
  <2>2. n + 1 >= 5 => rows'[b].uid = c.uid
    BY <1>1, <1>3, <2>1
  <2> QED BY <1>1, <1>4, <1>5, <1>6, <2>1, <2>2 DEF Enters, Continues
<1> QED BY <1>3, <1>6

LEMMA OpIs ==
  ASSUME SessionType, NEW p \in Procs, pc[p] = "write"
  PROVE  Head(plan[p]) \in Ops /\ plan[p] \in Seq(Ops) /\ plan[p] # << >> /\ box[p] \in Ids
<1>1. plan[p] \in Seq(Ops) /\ plan[p] # << >> /\ box[p] \in Ids
  BY DEF SessionType, ProcType
<1> QED BY <1>1, Rest

\* Where p's writes of the list P stand.
LEMMA Stands ==
  ASSUME SessionType, NEW p \in Procs, pc[p] = "write", NEW P \in Seq(Ops), Left(p, P),
         NEW l \in Nat, Len(P) = l
  PROVE  /\ Done(p, P) \in 0..(l - 1) /\ Head(plan[p]) = P[Done(p, P) + 1]
         /\ Tail(plan[p]) = << >> <=> Done(p, P) = l - 1
         /\ plan'[p] = Tail(plan[p]) /\ Tail(plan[p]) # << >> =>
                Left(p, P)' /\ Done(p, P)' = Done(p, P) + 1
<1>1. plan[p] \in Seq(Ops)
  BY OpIs
<1>2. Done(p, P) \in 0..(l - 1) /\ Head(plan[p]) = P[Done(p, P) + 1]
  BY <1>1, LeftGoesOn
<1>3. Tail(plan[p]) = << >> <=> Done(p, P) = l - 1
  BY <1>1, LeftGoesOn
<1>4. plan'[p] = Tail(plan[p]) /\ Tail(plan[p]) # << >> =>
                Left(p, P)' /\ Done(p, P)' = Done(p, P) + 1
  BY <1>1, LeftGoesOn
<1> QED BY <1>2, <1>3, <1>4

LEMMA PlanOps ==
  /\ PersistPlan \in Seq(Ops) /\ RefreshPlan \in Seq(Ops) /\ WriteSecrets \in Seq(Ops)
  /\ AddPlan \in Seq(Ops) /\ FlagThenUid \in Seq(Ops) /\ FlagOnly \in Seq(Ops)
  /\ Len(PersistPlan) = 3 /\ Len(RefreshPlan) = 4 /\ Len(WriteSecrets) = 6
  /\ Len(AddPlan) = 8 /\ Len(FlagThenUid) = 2 /\ Len(FlagOnly) = 1
BY PlansFit, PersistPlanIs, RefreshPlanIs, WriteSecretsIs, AddPlanIs, FlagPlansAre DEF Fit

LEMMA PersistOps ==
  ASSUME NEW n \in Nat, NEW op,
         (n \in 0..2 /\ op = PersistPlan[n + 1]) \/ op = RefreshPlan[n + 1]
  PROVE  /\ n = 0 => op = <<"rotate", "access">>
         /\ n = 1 => op = <<"rotate", "refresh">>
         /\ n = 2 => op = <<"rotate", "uid">>
         /\ n = 3 => op = <<"row", "active">>
<1>1. /\ n = 0 => op = PersistPlan[1] \/ op = RefreshPlan[1]
      /\ n = 1 => op = PersistPlan[2] \/ op = RefreshPlan[2]
      /\ n = 2 => op = PersistPlan[3] \/ op = RefreshPlan[3]
      /\ n = 3 => op = RefreshPlan[4]
  OBVIOUS
<1> QED BY <1>1, PersistPlanIs, RefreshPlanIs

LEMMA EnterOps ==
  ASSUME NEW m \in 0..7, NEW op,
         op = AddPlan[m + 1] \/ (m >= 2 /\ op = WriteSecrets[m - 1])
  PROVE  /\ m = 0 => op = <<"row", "insert">>
         /\ m = 1 => op = <<"row", "user">>
         /\ m = 2 => op = <<"set", "refresh">>
         /\ m = 3 => op = <<"set", "access">>
         /\ m = 4 => op = <<"set", "passphrase">>
         /\ m = 5 => op = <<"set", "keypass">>
         /\ m = 6 => op = <<"row", "uid">>
         /\ m = 7 => op = <<"row", "active">>
<1>1. /\ m = 0 => op = AddPlan[1]
      /\ m = 1 => op = AddPlan[2]
      /\ m = 2 => op = AddPlan[3] \/ op = WriteSecrets[1]
      /\ m = 3 => op = AddPlan[4] \/ op = WriteSecrets[2]
      /\ m = 4 => op = AddPlan[5] \/ op = WriteSecrets[3]
      /\ m = 5 => op = AddPlan[6] \/ op = WriteSecrets[4]
      /\ m = 6 => op = AddPlan[7] \/ op = WriteSecrets[5]
      /\ m = 7 => op = AddPlan[8] \/ op = WriteSecrets[6]
  OBVIOUS
<1> QED BY <1>1, AddPlanIs, WriteSecretsIs

\* A list that ends is followed by nothing; one that goes on, goes on with the
\* same credentials.
LEMMA WriteGoesOn ==
  ASSUME SessionType, NEW p \in Procs, Write(p)
  PROVE  \/ EndCommand(p) /\ Tail(plan[p]) = << >>
         \/ Continues(p) /\ plan'[p] = Tail(plan[p]) /\ Tail(plan[p]) # << >>
<1>1. /\ ProcType /\ pc[p] = "write" /\ ContinueWith(p, cmd[p], Tail(plan[p]))
      /\ gen' = gen /\ keys' = keys /\ full' = full
  BY DEF SessionType, Write, proton
<1> QED BY <1>1, ContinueIs, ZenonT(60) DEF Continues

\* Only the row of the command is written, with a session that was opened.
LEMMA UidsStay ==
  ASSUME SessionType, UidsOpened, NEW p \in Procs, Write(p), box[p] \in Ids,
         \/ rows'[box[p]].uid \in {0, rows[box[p]].uid}
         \/ /\ rows'[box[p]].uid = client[p].uid /\ client[p].uid \in Sessions
            /\ gen[client[p].uid] = 1
  PROVE  UidsOpened'
<1>1. \A id \in Ids \ {box[p]} : rows'[id] = rows[id]
  BY DEF Write, SessionType, StoreType
<1>2. gen' = gen
  BY DEF Write, proton
<1> QED BY <1>1, <1>2 DEF UidsOpened

\* After the flag only the uid is left to write, as in a sync that stored all.
LEMMA UidIsLeft ==
  ASSUME NEW p \in Procs, plan[p] \in Seq(Ops), Left(p, FlagThenUid), Done(p, FlagThenUid) = 0,
         plan'[p] = Tail(plan[p])
  PROVE  Left(p, PersistPlan)' /\ Done(p, PersistPlan)' = 2
<1>1. Len(plan[p]) = 2 /\ plan[p][2] = <<"rotate", "uid">> /\ plan[p] # << >>
  <2>1. /\ Len(plan[p]) \in 1..2 /\ 2 - Len(plan[p]) = 0
        /\ \A i \in 1..Len(plan[p]) : plan[p][i] = FlagThenUid[(2 - Len(plan[p])) + i]
    BY FlagPlansAre DEF Left, Done
  <2>2. Len(plan[p]) = 2
    BY <2>1
  <2>3. plan[p][2] = FlagThenUid[2]
    BY <2>1, <2>2
  <2> QED BY <2>2, <2>3, FlagPlansAre
<1>2. Len(plan'[p]) = 1 /\ plan'[p][1] = <<"rotate", "uid">>
  <2>1. Len(plan'[p]) = Len(plan[p]) - 1
    BY <1>1, TailIs
  <2>2. \A i \in 1..Len(plan'[p]) : plan'[p][i] = plan[p][i + 1]
    BY <1>1, Rest
  <2> QED BY <1>1, <2>1, <2>2
<1>3. \A i \in 1..1 : plan'[p][i] = PersistPlan[(3 - 1) + i]
  <2>1. \A i \in 1..1 : i = 1 /\ (3 - 1) + i = 3
    OBVIOUS
  <2> QED BY <1>2, <2>1, PersistPlanIs
<1>4. 1 \in 1..3 /\ 3 - 1 = 2
  OBVIOUS
<1> QED BY <1>2, <1>3, <1>4, PersistPlanIs DEF Left, Done

LEMMA WriteCarries ==
  ASSUME SessionType, UidsOpened, NEW p \in Procs, Write(p), Placed(p), Writing(p)
  PROVE  Carrying(p)
<1> DEFINE op == Head(plan[p])
<1>1. /\ ProcType /\ pc[p] = "write" /\ op \in Ops /\ box[p] \in Ids
      /\ plan[p] \in Seq(Ops) /\ plan[p] # << >>
  BY OpIs DEF Write, SessionType
<1>2. ASSUME UidsOpened', EndCommand(p) \/ (Continues(p) /\ Writing(p)')
      PROVE  Carrying(p)
  <2>1. CASE EndCommand(p)
    BY <1>1, <1>2, <2>1, GiveUpCarries DEF Carrying
  <2>2. CASE Continues(p) /\ Writing(p)'
    BY <1>2, <2>2 DEF Carrying, Continues, Carried, Reading, Using, WithKeyPass, WithPassphrase
  <2> QED BY <1>2, <2>1, <2>2
<1>3. ASSUME NEW P \in {PersistPlan, RefreshPlan}, Left(p, P), Persists(p, Done(p, P))
      PROVE  /\ UidsOpened'
             /\ EndCommand(p) \/ (Continues(p) /\ Left(p, P)' /\ Persists(p, Done(p, P))')
  <2>1. PICK n \in 0..3 :
          /\ n = Done(p, P) /\ (P = PersistPlan => n \in 0..2) /\ op = P[n + 1]
          /\ plan'[p] = Tail(plan[p]) /\ Tail(plan[p]) # << >> =>
                 Left(p, P)' /\ Done(p, P)' = n + 1
    <3>1. PICK l \in {3, 4} : Len(P) = l /\ P \in Seq(Ops) /\ (P = PersistPlan => l = 3)
      BY <1>3, PlanOps
    <3>2. l \in Nat
      OBVIOUS
    <3>3. Done(p, P) \in 0..(l - 1) /\ op = P[Done(p, P) + 1]
      BY <1>1, <1>3, <3>1, <3>2, Stands
    <3>4. plan'[p] = Tail(plan[p]) /\ Tail(plan[p]) # << >> =>
              Left(p, P)' /\ Done(p, P)' = Done(p, P) + 1
      BY <1>1, <1>3, <3>1, <3>2, Stands
    <3>5. Done(p, P) \in 0..3 /\ (P = PersistPlan => Done(p, P) \in 0..2)
      BY <3>1, <3>3
    <3> QED BY <3>3, <3>4, <3>5
  <2>2. n \in Nat /\ ((n \in 0..2 /\ op = PersistPlan[n + 1]) \/ op = RefreshPlan[n + 1])
    <3> HIDE DEF op
    <3>1. CASE P = PersistPlan
      <4>1. n \in 0..2 /\ op = PersistPlan[n + 1]
        BY <2>1, <3>1
      <4> QED BY <4>1
    <3>2. CASE P = RefreshPlan
      BY <2>1, <3>2
    <3> QED BY <1>3, <3>1, <3>2
  <2>3. /\ n = 0 => op = <<"rotate", "access">>
        /\ n = 1 => op = <<"rotate", "refresh">>
        /\ n = 2 => op = <<"rotate", "uid">>
        /\ n = 3 => op = <<"row", "active">>
    BY <2>2, PersistOps
  <2>4. Persists(p, n)
    BY <1>3, <2>1
  <2>5. /\ rows'[box[p]].uid = rows[box[p]].uid
        /\ Continues(p) => Persists(p, n + 1)'
    BY <1>1, <2>3, <2>4, PersistWrites
  <2>6. UidsOpened'
    BY <1>1, <2>5, UidsStay
  <2>7. ASSUME Continues(p), plan'[p] = Tail(plan[p]), Tail(plan[p]) # << >>
        PROVE  Left(p, P)' /\ Persists(p, Done(p, P))'
    <3>1. Left(p, P)' /\ Done(p, P)' = n + 1
      BY <2>1, <2>7
    <3>2. Persists(p, n + 1)'
      BY <2>5, <2>7
    <3> QED BY <3>1, <3>2
  <2> QED BY <2>6, <2>7, WriteGoesOn
<1>4. ASSUME NEW P \in {AddPlan, WriteSecrets}, Left(p, P),
             NEW off \in {0, 2}, off = 2 <=> P = AddPlan, off = 0 <=> P = WriteSecrets,
             Enters(p, Done(p, P) - off)
      PROVE  /\ UidsOpened'
             /\ EndCommand(p) \/ (Continues(p) /\ Left(p, P)' /\ Enters(p, Done(p, P) - off)')
  <2>1. PICK m \in 0..7 :
          /\ m - 2 = Done(p, P) - off
          /\ op = AddPlan[m + 1] \/ (m >= 2 /\ op = WriteSecrets[m - 1])
          /\ plan'[p] = Tail(plan[p]) /\ Tail(plan[p]) # << >> =>
                 Left(p, P)' /\ Done(p, P)' - off = (m - 2) + 1
    <3>1. CASE P = AddPlan
      <4>1. Len(P) = 8 /\ P \in Seq(Ops) /\ 8 \in Nat
        BY <3>1, PlanOps
      <4>2. Done(p, P) \in 0..(8 - 1) /\ op = P[Done(p, P) + 1]
        BY <1>1, <1>4, <4>1, Stands
      <4>3. plan'[p] = Tail(plan[p]) /\ Tail(plan[p]) # << >> =>
                Left(p, P)' /\ Done(p, P)' = Done(p, P) + 1
        BY <1>1, <1>4, <4>1, Stands
      <4>4. off = 2 /\ Done(p, P) \in 0..7
        BY <1>4, <3>1, <4>2
      <4>5. op = AddPlan[Done(p, P) + 1]
        BY <3>1, <4>2
      <4> HIDE DEF op
      <4>6. (Done(p, P) + 1) - off = (Done(p, P) - 2) + 1
        BY <4>4
      <4> QED BY <4>3, <4>4, <4>5, <4>6
    <3>2. CASE P = WriteSecrets
      <4>1. Len(P) = 6 /\ P \in Seq(Ops) /\ 6 \in Nat
        BY <3>2, PlanOps
      <4>2. Done(p, P) \in 0..(6 - 1) /\ op = P[Done(p, P) + 1]
        BY <1>1, <1>4, <4>1, Stands
      <4>3. plan'[p] = Tail(plan[p]) /\ Tail(plan[p]) # << >> =>
                Left(p, P)' /\ Done(p, P)' = Done(p, P) + 1
        BY <1>1, <1>4, <4>1, Stands
      <4> DEFINE m == Done(p, P) + 2
      <4>4. /\ off = 0 /\ m \in 0..7 /\ m >= 2 /\ m - 1 = Done(p, P) + 1
            /\ m - 2 = Done(p, P) - off /\ (Done(p, P) + 1) - off = (m - 2) + 1
        BY <1>4, <3>2, <4>2
      <4>5. op = WriteSecrets[m - 1]
        BY <3>2, <4>2, <4>4
      <4> HIDE DEF op, m
      <4> QED BY <4>3, <4>4, <4>5
    <3> QED BY <1>4, <3>1, <3>2
  <2>2. /\ m = 0 => op = <<"row", "insert">>
        /\ m = 1 => op = <<"row", "user">>
        /\ m = 2 => op = <<"set", "refresh">>
        /\ m = 3 => op = <<"set", "access">>
        /\ m = 4 => op = <<"set", "passphrase">>
        /\ m = 5 => op = <<"set", "keypass">>
        /\ m = 6 => op = <<"row", "uid">>
        /\ m = 7 => op = <<"row", "active">>
    BY <2>1, EnterOps
  <2>3. Enters(p, m - 2)
    BY <1>4, <2>1
  <2>4. PICK n \in -2..5 : n = m - 2 /\ n \in Int
    OBVIOUS
  <2>5. /\ n = -2 => op = <<"row", "insert">>
        /\ n = -1 => op = <<"row", "user">>
        /\ n = 0 => op = <<"set", "refresh">>
        /\ n = 1 => op = <<"set", "access">>
        /\ n = 2 => op = <<"set", "passphrase">>
        /\ n = 3 => op = <<"set", "keypass">>
        /\ n = 4 => op = <<"row", "uid">>
        /\ n = 5 => op = <<"row", "active">>
    <3> HIDE DEF op
    <3> QED BY <2>2, <2>4
  <2>6. Enters(p, n)
    BY <2>3, <2>4
  <2>7. /\ rows'[box[p]].uid \in {0, rows[box[p]].uid, client[p].uid}
        /\ Continues(p) => Enters(p, n + 1)'
    BY <1>1, <2>4, <2>5, <2>6, EnterWrites, ZenonT(60)
  <2>8. UidsOpened'
    BY <1>1, <2>6, <2>7, UidsStay DEF Enters
  <2>9. ASSUME Continues(p), plan'[p] = Tail(plan[p]), Tail(plan[p]) # << >>
        PROVE  Left(p, P)' /\ Enters(p, Done(p, P) - off)'
    <3>1. Left(p, P)' /\ (Done(p, P) - off)' = n + 1
      BY <2>1, <2>4, <2>9
    <3>2. Enters(p, n + 1)'
      BY <2>7, <2>9
    <3> QED BY <3>1, <3>2
  <2> QED BY <2>8, <2>9, WriteGoesOn
<1>5. CASE cmd[p] = "add" /\ Left(p, AddPlan) /\ Enters(p, Done(p, AddPlan) - 2)
  <2>1. AddPlan # WriteSecrets
    <3>1. Len(AddPlan) # Len(WriteSecrets)
      BY PlanOps
    <3> QED BY <3>1
  <2>2. /\ UidsOpened'
        /\ \/ EndCommand(p)
           \/ Continues(p) /\ Left(p, AddPlan)' /\ Enters(p, Done(p, AddPlan) - 2)'
    BY <1>4, <1>5, <2>1
  <2>3. Continues(p) => cmd'[p] = "add"
    BY <1>5 DEF Continues
  <2> QED BY <1>2, <2>2, <2>3 DEF Writing
<1>6. CASE cmd[p] \in {"remove", "cleanup"}
  <2>1. UidsOpened'
    <3>1. Left(p, RemovePlan) /\ RemovePlan \in Seq(Ops) /\ Len(RemovePlan) = 5 /\ 5 \in Nat
      BY <1>1, <1>6, PlansFit, RemovalIs DEF Placed, Removes, Updates, Fit
    <3>2. Done(p, RemovePlan) \in 0..(5 - 1) /\ op = RemovePlan[Done(p, RemovePlan) + 1]
      BY <1>1, <3>1, Stands
    <3>3. op[1] = "delete" \/ (op[1] = "row" /\ op[2] = "drop")
      <4>1. \A i \in 1..5 : RemovePlan[i][1] = "delete"
                             \/ (RemovePlan[i][1] = "row" /\ RemovePlan[i][2] = "drop")
        BY RemovalIs
      <4> HIDE DEF op
      <4> QED BY <3>2, <4>1
    <3>4. rows'[box[p]].uid \in {0, rows[box[p]].uid}
      BY <1>1, <3>3, UidWritten
    <3> QED BY <1>1, <3>4, UidsStay
  <2> QED BY <1>2, <1>6, <2>1, WriteGoesOn DEF Writing, Continues
<1>7. CASE /\ cmd[p] \in {"sync", "labels"} /\ Left(p, PersistPlan)
           /\ Persists(p, Done(p, PersistPlan))
  <2>1. Continues(p) => cmd'[p] \in {"sync", "labels"}
    BY <1>7 DEF Continues
  <2> QED BY <1>2, <1>3, <1>7, <2>1 DEF Writing
<1>8. CASE /\ cmd[p] = "refresh" /\ Left(p, RefreshPlan)
           /\ Persists(p, Done(p, RefreshPlan))
  <2>1. Continues(p) => cmd'[p] = "refresh"
    BY <1>8 DEF Continues
  <2> QED BY <1>2, <1>3, <1>8, <2>1 DEF Writing
<1>9. CASE cmd[p] = "refresh" /\ Left(p, WriteSecrets) /\ Enters(p, Done(p, WriteSecrets))
  <2>1. AddPlan # WriteSecrets
    <3>1. Len(AddPlan) # Len(WriteSecrets)
      BY PlanOps
    <3> QED BY <3>1
  <2>2. Done(p, WriteSecrets) \in Int
    <3>1. Len(WriteSecrets) \in Nat /\ Len(plan[p]) \in Nat
      BY <1>1, PlanOps
    <3> QED BY <3>1 DEF Done
  <2>3. Done(p, WriteSecrets) - 0 = Done(p, WriteSecrets)
    BY <2>2
  <2>4. /\ UidsOpened'
        /\ \/ EndCommand(p)
           \/ Continues(p) /\ Left(p, WriteSecrets)' /\ Enters(p, Done(p, WriteSecrets) - 0)'
    BY <1>4, <1>9, <2>1, <2>3
  <2>5. ASSUME Continues(p), Left(p, WriteSecrets)', Enters(p, Done(p, WriteSecrets) - 0)'
        PROVE  Enters(p, Done(p, WriteSecrets))' /\ cmd'[p] = "refresh"
    <3>1. Done(p, WriteSecrets)' \in Int
      <4>1. Len(plan'[p]) \in Int /\ Len(WriteSecrets) \in Int
        BY <2>5, PlanOps DEF Left
      <4> QED BY <4>1 DEF Done
    <3>2. (Done(p, WriteSecrets) - 0)' = Done(p, WriteSecrets)'
      BY <3>1
    <3> QED BY <1>9, <2>5, <3>2 DEF Continues
  <2> QED BY <1>2, <2>4, <2>5 DEF Writing
<1>10. CASE cmd[p] \in {"labels", "refresh"} /\ plan[p] = FlagOnly
  <2>1. op = <<"row", "needs_reauth">> /\ Tail(plan[p]) = << >>
    BY <1>10 DEF FlagOnly
  <2>2. op[1] = "row" /\ op[2] = "needs_reauth"
    BY <2>1
  <2>3. rows'[box[p]].uid = rows[box[p]].uid
    BY <1>1, <2>2, UidWritten
  <2>4. UidsOpened'
    BY <1>1, <2>3, UidsStay
  <2> QED BY <1>2, <2>1, <2>4, WriteGoesOn
<1>11. CASE /\ cmd[p] = "sync" /\ Left(p, FlagThenUid) /\ Done(p, FlagThenUid) = 0
            /\ rows[box[p]].uid = seed[p].uid /\ Carries(p)
  <2>1. FlagThenUid \in Seq(Ops) /\ Len(FlagThenUid) = 2 /\ 2 \in Nat
    BY PlanOps
  <2>2. op = <<"row", "needs_reauth">>
    <3>1. op = FlagThenUid[Done(p, FlagThenUid) + 1]
      BY <1>1, <1>11, <2>1, Stands
    <3> QED BY <1>11, <3>1, FlagPlansAre
  <2>3. op[1] = "row" /\ op[2] = "needs_reauth"
    BY <2>2
  <2>4. rows'[box[p]].uid = rows[box[p]].uid
    BY <1>1, <2>3, UidWritten
  <2>5. UidsOpened'
    BY <1>1, <2>4, UidsStay
  <2>6. ASSUME Continues(p), plan'[p] = Tail(plan[p]), Tail(plan[p]) # << >>
        PROVE  Writing(p)'
    <3>1. Left(p, PersistPlan)' /\ Done(p, PersistPlan)' = 2
      BY <1>1, <1>11, <2>6, UidIsLeft
    <3>2. Persists(p, 2)'
      <4>1. Carries(p)'
        BY <1>11, <2>6, CarriesSame DEF Continues
      <4> QED BY <1>11, <2>4, <2>6, <4>1 DEF Persists, Serves, Continues
    <3>3. Persists(p, Done(p, PersistPlan))'
      BY <3>1, <3>2
    <3> QED BY <1>11, <2>6, <3>1, <3>3 DEF Writing, Continues
  <2> QED BY <1>2, <2>5, <2>6, WriteGoesOn
<1> QED BY <1>5, <1>6, <1>7, <1>8, <1>9, <1>10, <1>11 DEF Writing

\* A write that fails leaves what was stored, and less to write.
LEMMA FailureCarries ==
  ASSUME SessionType, UidsOpened, NEW p \in Procs, Placed(p), WriteFails(p), Writing(p)
  PROVE  Carrying(p)
<1> DEFINE op == Head(plan[p])  c == CommandAfterFailure(cmd[p], op)
           ops == AfterFailure(cmd[p], op, Tail(plan[p]))
<1>1. /\ ProcType /\ pc[p] = "write" /\ op \in Ops /\ box[p] \in Ids
      /\ plan[p] \in Seq(Ops) /\ plan[p] # << >>
      /\ ContinueWith(p, c, ops) /\ rows' = rows /\ kc' = kc
      /\ gen' = gen /\ keys' = keys /\ full' = full
  BY OpIs DEF WriteFails, SessionType, proton
<1>2. UidsOpened'
  BY <1>1, UidsKeep
<1>3. CASE EndCommand(p)
  BY <1>1, <1>2, <1>3, GiveUpCarries DEF Carrying
<1>4. CASE /\ ops # << >> /\ pc'[p] = "write" /\ plan'[p] = ops /\ cmd'[p] = c
           /\ box'[p] = box[p] /\ seed'[p] = seed[p] /\ client'[p] = client[p]
  <2>1. ASSUME Writing(p)'
        PROVE  Carrying(p)
    BY <1>2, <1>4, <2>1 DEF Carrying, Carried, Reading, Using, WithKeyPass, WithPassphrase
  <2>2. CASE cmd[p] \in {"add", "remove", "cleanup"}
    <3>1. cmd'[p] \in {"remove", "cleanup"}
      <4>1. CASE cmd[p] = "add"
        <5>1. op # <<"row", "insert">>
          BY <1>4, <4>1 DEF AfterFailure
        <5> QED BY <1>4, <4>1, <5>1 DEF CommandAfterFailure
      <4>2. CASE cmd[p] \in {"remove", "cleanup"}
        BY <1>4, <4>2 DEF CommandAfterFailure
      <4> QED BY <2>2, <4>1, <4>2
    <3> QED BY <2>1, <3>1 DEF Writing
  <2>3. CASE cmd[p] \in {"labels", "refresh"}
    <3>1. ops = FlagOnly
      BY <1>4, <2>3 DEF AfterFailure, FlagOnly
    <3>2. cmd'[p] = cmd[p]
      BY <1>4, <2>3 DEF CommandAfterFailure
    <3>3. Writing(p)'
      BY <1>4, <2>3, <3>1, <3>2 DEF Writing
    <3> QED BY <2>1, <3>3
  <2>4. ASSUME cmd[p] = "sync", Carries(p), rows[box[p]].uid = seed[p].uid
        PROVE  cmd'[p] = "sync" /\ Carries(p)' /\ Serves(p)'
    <3>1. cmd'[p] = "sync"
      BY <1>4, <2>4 DEF CommandAfterFailure
    <3>2. Carries(p)'
      BY <1>1, <1>4, <2>4, <3>1, CarriesSame
    <3> QED BY <3>1, <3>2 DEF Serves
  <2>5. CASE cmd[p] = "sync" /\ op # <<"rotate", "refresh">>
    <3>1. ops = Tail(plan[p]) /\ plan'[p] = Tail(plan[p]) /\ Tail(plan[p]) # << >>
      BY <1>4, <2>5 DEF AfterFailure
    <3>2. CASE Left(p, PersistPlan) /\ Persists(p, Done(p, PersistPlan))
      <4>1. PersistPlan \in Seq(Ops) /\ Len(PersistPlan) = 3 /\ 3 \in Nat
        BY PlanOps
      <4>2. Done(p, PersistPlan) \in 0..(3 - 1) /\ op = PersistPlan[Done(p, PersistPlan) + 1]
        BY <1>1, <3>2, <4>1, Stands
      <4>3. Left(p, PersistPlan)' /\ Done(p, PersistPlan)' = Done(p, PersistPlan) + 1
        BY <1>1, <3>1, <3>2, <4>1, Stands
      <4>4. PICK n \in 0..2 : n = Done(p, PersistPlan) /\ op = PersistPlan[n + 1]
        BY <4>2
      <4>5. Persists(p, n)
        BY <3>2, <4>4
      <4>6. n # 1
        BY <2>5, <4>4, PersistPlanIs
      <4>7. Persists(p, n + 1)'
        <5>1. Carries(p)' /\ Serves(p)' /\ cmd'[p] = "sync"
          BY <2>4, <2>5, <4>5 DEF Persists
        <5>2. n + 1 <= 1 => n <= 1
          OBVIOUS
        <5>3. n + 1 # 0
          OBVIOUS
        <5> QED BY <1>1, <1>4, <4>5, <5>1, <5>2, <5>3 DEF Persists
      <4>8. Persists(p, Done(p, PersistPlan))'
        BY <4>3, <4>4, <4>7
      <4>9. Writing(p)'
        <5>1. cmd'[p] = "sync"
          BY <2>4, <2>5, <4>5 DEF Persists
        <5> QED BY <4>3, <4>8, <5>1 DEF Writing
      <4> QED BY <2>1, <4>9
    <3>3. CASE /\ Left(p, FlagThenUid) /\ Done(p, FlagThenUid) = 0
               /\ rows[box[p]].uid = seed[p].uid /\ Carries(p)
      <4>1. Left(p, PersistPlan)' /\ Done(p, PersistPlan)' = 2
        BY <1>1, <3>1, <3>3, UidIsLeft
      <4>2. cmd'[p] = "sync" /\ Carries(p)' /\ Serves(p)'
        BY <2>4, <2>5, <3>3
      <4>3. Persists(p, 2)'
        BY <1>1, <1>4, <3>3, <4>2 DEF Persists
      <4>4. Persists(p, Done(p, PersistPlan))'
        BY <4>1, <4>3
      <4>5. Writing(p)'
        BY <4>1, <4>2, <4>4 DEF Writing
      <4> QED BY <2>1, <4>5
    <3> QED BY <2>5, <3>2, <3>3 DEF Writing
  <2>6. CASE cmd[p] = "sync" /\ op = <<"rotate", "refresh">>
    <3>1. plan'[p] = << <<"row", "needs_reauth">> >> \o Tail(plan[p])
      <4>1. ops = << <<"row", "needs_reauth">> >> \o Tail(plan[p])
        BY <2>6 DEF AfterFailure
      <4> QED BY <1>4, <4>1
    <3>2. Left(p, PersistPlan) \/ Left(p, FlagThenUid)
      BY <2>6 DEF Writing
    <3>3. Head(plan[p]) = <<"rotate", "refresh">>
      BY <2>6
    <3>4. Left(p, FlagThenUid)' /\ Done(p, FlagThenUid)' = 0
      BY <1>1, <3>1, <3>2, <3>3, FlagIsNext
    <3>5. rows[box[p]].uid = seed[p].uid /\ Carries(p)
      BY <2>6 DEF Writing, Persists
    <3>6. cmd'[p] = "sync" /\ Carries(p)'
      BY <2>4, <2>6, <3>5
    <3>7. Writing(p)'
      BY <1>1, <1>4, <3>4, <3>5, <3>6 DEF Writing
    <3> QED BY <2>1, <3>7
  <2> QED BY <2>2, <2>3, <2>5, <2>6 DEF Writing
<1> HIDE DEF c, ops
<1> QED BY <1>1, <1>3, <1>4, ContinueIs

-----------------------------------------------------------------------------
(* The invariant.                                                          *)

LEMMA StepCarries ==
  ASSUME SessionType, PlaceInv, CarryInv, NEW p \in Procs, Step(p)
  PROVE  Carrying(p)
<1>1. /\ UidsOpened /\ KeysOpened /\ Placed(p) /\ Carried(p)
      /\ pc[p] = "write" => Writing(p)
  BY DEF CarryInv, PlaceInv
<1>2. CASE StartAdd(p) \/ StartRemove(p) \/ StartResume(p)
  BY <1>1, <1>2, StartCarries
<1>3. CASE Works(p)
  BY <1>1, <1>3, WorksCarry
<1>4. CASE Login(p)
  BY <1>1, <1>4, LoginCarries
<1>5. CASE Flag(p)
  BY <1>1, <1>5, FlagCarries
<1>6. CASE LoginFails(p) \/ Crash(p) \/ Interrupt(p)
  BY <1>1, <1>6, StopCarries
<1>7. CASE Write(p)
  <2>1. pc[p] = "write"
    BY <1>7 DEF Write
  <2> QED BY <1>1, <1>7, <2>1, WriteCarries
<1>8. CASE WriteFails(p)
  <2>1. pc[p] = "write"
    BY <1>8 DEF WriteFails
  <2> QED BY <1>1, <1>8, <2>1, FailureCarries
<1> QED BY <1>2, <1>3, <1>4, <1>5, <1>6, <1>7, <1>8 DEF Step, Works

\* Keys that change are no longer those that were opened.
LEMMA OutsideCarries ==
  ASSUME SessionType, CarryInv, NEW p \in Procs, Expire \/ ChangeKeys \/ UNCHANGED vars
  PROVE  Carrying(p)
<1>1. /\ UidsOpened /\ KeysOpened /\ Carried(p) /\ (pc[p] = "write" => Writing(p))
      /\ keys.keypass \in Nat /\ client[p].unlocked \in Nat
  BY DEF CarryInv, SessionType, ProtonType, ProcType, Held
<1>2. /\ gen' = gen /\ full' = full /\ rows' = rows /\ kc' = kc /\ pc' = pc /\ cmd' = cmd
      /\ box' = box /\ seed' = seed /\ client' = client /\ plan' = plan
      /\ keys' = keys \/ keys'.keypass = keys.keypass + 1
  BY DEF Expire, ChangeKeys, vars, procs, proton
<1>3. client[p].unlocked = keys'.keypass => keys' = keys
  BY <1>1, <1>2 DEF KeysOpened
<1>4. UidsOpened'
  BY <1>1, <1>2, UidsKeep
<1>5. (Carries(p) => Carries(p)') /\ (Serves(p) => Serves(p)')
  BY <1>2, CarriesSame, ServesSame
<1>6. Heals(p) => Heals(p)'
  BY <1>2, <1>3 DEF Heals
<1>7. Carried(p)'
  BY <1>1, <1>2, <1>5, <1>6 DEF Carried
<1>8. \A n : Persists(p, n) => Persists(p, n)'
  BY <1>2, <1>3, <1>5 DEF Persists, Unlockable
<1>9. \A n : Enters(p, n) => Enters(p, n)'
  BY <1>2 DEF Enters
<1>10. \A P : Left(p, P)' = Left(p, P) /\ Done(p, P)' = Done(p, P)
  BY <1>2 DEF Left, Done
<1>11. Writing(p) => Writing(p)'
  <2>1. ASSUME NEW P, Persists(p, Done(p, P))
        PROVE  Persists(p, Done(p, P))'
    <3>1. PICK n : n = Done(p, P)
      OBVIOUS
    <3> QED BY <1>8, <1>10, <2>1, <3>1
  <2>2. ASSUME NEW P, NEW off, Enters(p, Done(p, P) - off)
        PROVE  Enters(p, Done(p, P) - off)'
    <3>1. PICK n : n = Done(p, P) - off
      OBVIOUS
    <3> QED BY <1>9, <1>10, <2>2, <3>1
  <2>3. Enters(p, Done(p, WriteSecrets)) => Enters(p, Done(p, WriteSecrets))'
    <3>1. PICK n : n = Done(p, WriteSecrets)
      OBVIOUS
    <3> QED BY <1>9, <1>10, <3>1
  <2> QED BY <1>2, <1>5, <1>10, <2>1, <2>2, <2>3 DEF Writing
<1> QED BY <1>1, <1>2, <1>4, <1>7, <1>11 DEF Carrying

LEMMA NextCarries ==
  OneAtATime /\ SessionType /\ PlaceInv /\ CarryInv /\ [Next]_vars => CarryInv'
<1> SUFFICES ASSUME OneAtATime, SessionType, PlaceInv, CarryInv, [Next]_vars
             PROVE  CarryInv'
  OBVIOUS
<1>1. KeysOpened'
  BY KeysKeep DEF CarryInv
<1>2. ASSUME NEW p \in Procs
      PROVE  Carrying(p)
  <2>1. ASSUME NEW q \in Procs, Step(q)
        PROVE  Carrying(p)
    BY <2>1, StepCarries DEF OneAtATime
  <2> QED BY <2>1, OutsideCarries DEF Next
<1>3. UidsOpened'
  <2>1. CASE \E p \in Procs : Step(p)
    BY <1>2, <2>1 DEF Carrying
  <2>2. CASE Expire \/ ChangeKeys \/ UNCHANGED vars
    <3>1. rows' = rows /\ gen' = gen
      BY <2>2 DEF Expire, ChangeKeys, vars, proton
    <3> QED BY <3>1, UidsKeep DEF CarryInv
  <2> QED BY <2>1, <2>2 DEF Next
<1> QED BY <1>1, <1>2, <1>3 DEF CarryInv, Carrying

LEMMA InitCarries == Init => CarryInv
<1> SUFFICES ASSUME Init
             PROVE  CarryInv
  OBVIOUS
<1>1. KeysOpened
  BY DEF Init, KeysOpened, NoClient
<1>2. UidsOpened
  <2>1. \A id \in Ids : rows[id] = IF id \in Added THEN AddedRow ELSE NoRow
    BY DEF Init
  <2>2. AddedRow.uid = 1 /\ NoRow.uid = 0
    BY DEF AddedRow, NoRow
  <2>3. Added # {} => 1 \in Sessions /\ gen[1] = 1
    BY SessionBounds DEF Init, Sessions
  <2> QED BY <2>1, <2>2, <2>3 DEF UidsOpened
<1>3. \A p \in Procs : Carried(p) /\ pc[p] # "write"
  BY DEF Init, Carried, Reading, Using, WithKeyPass, WithPassphrase
<1> QED BY <1>1, <1>2, <1>3 DEF CarryInv

LEMMA CarriedAlways == OneAtATime /\ Spec => [](TokenInv /\ PlaceInv /\ CarryInv)
<1> SUFFICES ASSUME OneAtATime
             PROVE  Spec => [](TokenInv /\ PlaceInv /\ CarryInv)
  OBVIOUS
<1>1. TokenInv /\ PlaceInv /\ CarryInv /\ [Next]_vars => CarryInv'
  BY NextCarries DEF TokenInv
<1> QED BY <1>1, InitCarries, PlacedAlways, PTL DEF Spec

-----------------------------------------------------------------------------
(* What auth refresh says.                                                 *)

\* The write that ends an auth refresh is of its mailbox's row alone, and is not
\* refused.
LEMMA VouchesIs ==
  ASSUME OneAtATime, SessionType, PlaceInv, [Next]_vars, NEW p \in Procs, Vouches(p)
  PROVE  Write(p)
<1>1. /\ pc[p] = "write" /\ cmd[p] = "refresh" /\ plan[p] = << <<"row", "active">> >>
      /\ pc'[p] = "idle" /\ disturbed' = disturbed /\ disturbed \in Nat
  BY SessionBounds DEF Vouches, PlaceInv
<1>2. Step(p)
  <2>1. pc' # pc
    BY <1>1
  <2>2. ~(Expire \/ ChangeKeys \/ UNCHANGED vars)
    BY <2>1 DEF Expire, ChangeKeys, vars, procs
  <2> QED BY <2>2 DEF Next, OneAtATime
<1>3. Write(p) \/ WriteFails(p) \/ Crash(p)
  BY <1>1, <1>2 DEF Step, StartAdd, StartRemove, StartResume, Begin, ReadRefreshToken,
         ReadAccessToken, Resume, ReadKeyPass, ReadPassphrase, ReadFails, Probe, CallForKeys,
         CallForKeysFails, UnlockWithKeyPass, Unlock, StoreKeyPass, SyncCalls, SyncCallFails,
         Interrupt, SyncEnds, Login,
         LoginFails, Flag
<1>4. ~Crash(p)
  BY <1>1 DEF Crash, Disturb
<1>5. ~WriteFails(p)
  <2>1. HasRow(box[p]) /\ box[p] \in Ids /\ RowsWhole
    BY <1>1 DEF PlaceInv, Placed, Updates, SessionType, ProcType
  <2>2. Head(plan[p]) = <<"row", "active">>
    BY <1>1
  <2>3. ~Refused(p, Head(plan[p]))
    BY <2>1, <2>2, RowsAre DEF Refused
  <2> QED BY <1>1, <2>3 DEF WriteFails, Disturb
<1> QED BY <1>3, <1>4, <1>5

LEMMA WordKept ==
  ASSUME OneAtATime, SessionType, PlaceInv, CarryInv, [Next]_vars, NEW p \in Procs, Vouches(p)
  PROVE  \E id \in Ids : id = box[p] /\ Served(id)' /\ Unlockable(id)'
<1> DEFINE b == box[p]  op == <<"row", "active">>
<1>1. /\ pc[p] = "write" /\ cmd[p] = "refresh" /\ plan[p] = <<op>> /\ Write(p)
      /\ client[p].unlocked \in {0, keys.keypass} /\ Writing(p)
  BY VouchesIs DEF Vouches, CarryInv
<1>2. /\ op = Head(plan[p]) /\ op \in Ops /\ b \in Ids /\ Len(plan[p]) = 1
      /\ op[1] = "row" /\ op[2] = "active"
  BY <1>1, OpIs
<1>3. /\ rows'[b].uid = rows[b].uid /\ kc' = kc
      /\ gen' = gen /\ keys' = keys /\ full' = full
  <2>1. rows'[b].uid = rows[b].uid
    BY <1>1, <1>2, UidWritten
  <2>2. kc' = kc
    BY <1>1, <1>2, KcWritten
  <2> QED BY <1>1, <2>1, <2>2 DEF Write, proton
<1>4. CASE Left(p, RefreshPlan) /\ Persists(p, Done(p, RefreshPlan))
  <2>1. Done(p, RefreshPlan) = 3
    BY <1>2, PlanOps DEF Done
  <2>2. /\ kc[b].access = client[p].access /\ rows[b].uid = client[p].uid
        /\ Honoured(client[p].access, client[p].uid)
        /\ client[p].unlocked = keys.keypass /\ Unlockable(b)
    BY <1>1, <1>4, <2>1 DEF Persists, Carries, Serves
  <2>3. /\ Honoured(kc[b].access, rows[b].uid)
    BY <2>2
  <2> QED BY <1>2, <1>3, <2>2, <2>3 DEF Served, Unlockable, Honoured
<1>5. CASE Left(p, WriteSecrets) /\ Enters(p, Done(p, WriteSecrets))
  <2>1. Done(p, WriteSecrets) = 5
    BY <1>2, PlanOps DEF Done
  <2>2. /\ client[p].uid \in Sessions /\ gen[client[p].uid] = 1
        /\ kc[b].refresh = [sess |-> client[p].uid, gen |-> 1]
        /\ rows[b].uid = client[p].uid
        /\ kc[b].keypass = keys.keypass
    BY <1>1, <1>5, <2>1 DEF Enters
  <2>3. Honoured(kc[b].refresh, rows[b].uid)
    BY <2>2 DEF Honoured
  <2> QED BY <1>2, <1>3, <2>2, <2>3 DEF Served, Unlockable, Honoured
<1>6. plan[p] # FlagOnly
  BY <1>1, <1>2, FlagPlansAre
<1> QED BY <1>1, <1>4, <1>5, <1>6 DEF Writing

\* When auth refresh says that a mailbox is refreshed or re-authenticated, its
\* stored session is one that Proton serves and its stored secrets open the
\* account's keys, unless they changed meanwhile; for any failures, as long as
\* no other command runs at the same time.
THEOREM RefreshIsAsSaid == OneAtATime /\ Spec => RefreshKeepsItsWord
<1> SUFFICES ASSUME OneAtATime
             PROVE  Spec => RefreshKeepsItsWord
  OBVIOUS
<1> DEFINE Word == \A p \in Procs : Vouches(p) =>
                      \E id \in Ids : id = box[p] /\ Served(id)' /\ Unlockable(id)'
<1>1. TokenInv /\ PlaceInv /\ CarryInv /\ [Next]_vars => [Word]_vars
  BY WordKept DEF TokenInv
<1> QED BY <1>1, CarriedAlways, PTL DEF Spec, RefreshKeepsItsWord

-----------------------------------------------------------------------------
(* How often a session is rotated.                                         *)

AccessMinted ==
    /\ \A id \in Ids : Minted(kc[id].access)
    /\ \A p \in Procs : Minted(seed[p].access) /\ Minted(client[p].access)

\* No secret is of keys that are still to come.
Known(c) == c.passphrase <= keys.passphrase /\ c.keypass <= keys.keypass
KnownInv ==
    /\ 1 <= keys.passphrase /\ keys.passphrase <= keys.keypass /\ keys.keypass <= MaxKeys
    /\ \A id \in Ids : Known(kc[id])
    /\ \A p \in Procs : Known(seed[p]) /\ Known(client[p])

\* A failure left the session a rotation it would not have made.
Slack(u) == gen[u] < MaxGen + disturbed

\* A stored refresh token goes with an access token that works until it
\* expires, or a failure has lost that one.
Paired(id) ==
    Honoured(kc[id].refresh, rows[id].uid) =>
        Honoured(kc[id].access, rows[id].uid) \/ Slack(rows[id].uid)

\* Between the writes of two tokens.
HalfWay(p) ==
    /\ cmd[p] = "sync" /\ Left(p, PersistPlan) /\ Done(p, PersistPlan) = 1 =>
        \/ kc[box[p]].access = client[p].access
        \/ client[p].uid \in Sessions => Slack(client[p].uid)
    /\ cmd[p] \in {"remove", "cleanup"} /\ Left(p, RemovePlan) /\ Done(p, RemovePlan) = 1 =>
        kc[box[p]].refresh = NoToken

\* A rotation is of an access token that has expired, or that a failure lost.
Rotations ==
    /\ expired \subseteq Sessions /\ full \subseteq Sessions
    /\ \A s \in Sessions : gen[s] <= MaxGen + disturbed
    /\ \A s \in expired : gen[s] \in 1..(MaxGen - 1)

RotationInv ==
    /\ Rotations
    /\ \A id \in Ids : Paired(id)
    /\ \A p \in Procs : pc[p] = "write" => HalfWay(p)

\* Secrets are copied, deleted, minted or opened.
LEMMA Flows ==
  ASSUME SessionType, NEW p \in Procs, Step(p), NEW k \in Kinds
  PROVE  /\ \A id \in Ids : kc'[id][k] \in {kc[id][k], client[p][k], NoSecrets[k]}
         /\ seed'[p][k] \in {seed[p][k], NoSecrets[k]} \union {kc[id][k] : id \in Ids}
         /\ \/ client'[p][k] \in {client[p][k], seed[p][k], NoSecrets[k]}
            \/ k = "passphrase" /\ client'[p][k] = keys.passphrase
            \/ k = "keypass" /\ client'[p][k] = keys.keypass
            \/ /\ k \in {"refresh", "access"} /\ client'[p][k].sess \in Sessions
               /\ client'[p][k].gen = gen'[client'[p][k].sess] /\ client'[p][k].gen >= 1
<1>1. /\ ProcType /\ kc \in [Ids -> Secrets] /\ gen \in [Sessions -> Nat]
      /\ seed \in [Procs -> Held] /\ client \in [Procs -> Held]
      /\ \A id \in Ids : kc[id] \in Secrets
      /\ seed[p] \in Held /\ client[p] \in Held
  BY DEF SessionType, ProtonType, StoreType, ProcType
<1>2. k = "refresh" \/ k = "access" \/ k = "passphrase" \/ k = "keypass"
  BY DEF Kinds
<1>3. NoClient[k] = NoSecrets[k]
  BY <1>2 DEF NoClient, NoSecrets
<1>4. ASSUME EndCommand(p)
      PROVE  seed'[p][k] = NoSecrets[k] /\ client'[p][k] = NoSecrets[k]
  BY <1>1, <1>3, <1>4, EndIs
<1>5. \A id \in Ids : kc'[id][k] \in {kc[id][k], client[p][k], NoSecrets[k]}
  <2>1. CASE kc' = kc
    BY <2>1
  <2>2. CASE StoreKeyPass(p)
    <3>1. kc' = kc \/ kc' = [kc EXCEPT ![box[p]].keypass = client[p].keypass]
      BY <2>2 DEF StoreKeyPass
    <3>2. ASSUME NEW id \in Ids, kc' = [kc EXCEPT ![box[p]].keypass = client[p].keypass]
          PROVE  kc'[id][k] \in {kc[id][k], client[p][k], NoSecrets[k]}
      BY <1>1, <1>2, <3>2 DEF Secrets
    <3> QED BY <3>1, <3>2
  <2>3. CASE Write(p)
    <3> DEFINE op == Head(plan[p])
    <3>1. \/ kc' = kc
          \/ kc' = [kc EXCEPT ![box[p]][op[2]] = SecretAfter(p, op)] /\ UsesKeychain(p, op)
      BY <2>3 DEF Write
    <3>2. op \in Ops
      BY <2>3, OpIs DEF Write
    <3> HIDE DEF op
    <3>3. ASSUME NEW id \in Ids, UsesKeychain(p, op),
                 kc' = [kc EXCEPT ![box[p]][op[2]] = SecretAfter(p, op)]
          PROVE  kc'[id][k] \in {kc[id][k], client[p][k], NoSecrets[k]}
      <4>1. op[2] \in Kinds
        BY <3>2, <3>3 DEF UsesKeychain, Ops, Kinds
      <4>2. SecretAfter(p, op) \in {client[p][op[2]], NoSecrets[op[2]]}
        BY DEF SecretAfter
      <4>3. kc'[id] = kc[id] \/ kc'[id] = [kc[id] EXCEPT ![op[2]] = SecretAfter(p, op)]
        BY <1>1, <3>3
      <4>4. ASSUME kc'[id] = [kc[id] EXCEPT ![op[2]] = SecretAfter(p, op)]
            PROVE  kc'[id][k] \in {kc[id][k], SecretAfter(p, op)} /\
                   (k # op[2] => kc'[id][k] = kc[id][k])
        BY <1>1, <1>2, <4>1, <4>4 DEF Secrets, Kinds
      <4> QED BY <4>2, <4>3, <4>4
    <3> QED BY <3>1, <3>3
  <2>4. kc' = kc \/ StoreKeyPass(p) \/ Write(p)
    BY DEF Step, StartAdd, StartRemove, StartResume, Begin, ReadRefreshToken,
         ReadAccessToken, Resume, ReadKeyPass, ReadPassphrase, ReadFails, Probe, CallForKeys,
         CallForKeysFails, UnlockWithKeyPass, Unlock, SyncCalls, SyncCallFails, Interrupt,
         SyncEnds, Login,
         LoginFails, Flag, WriteFails, Crash
  <2> QED BY <2>1, <2>2, <2>3, <2>4
<1>6. seed'[p][k] \in {seed[p][k], NoSecrets[k]} \union {kc[id][k] : id \in Ids}
  <2>1. CASE seed' = seed \/ EndCommand(p)
    BY <1>4, <2>1
  <2>2. CASE StartResume(p)
    <3>1. PICK id \in Ids : seed' = [seed EXCEPT ![p].uid = rows[id].uid]
      BY <2>2 DEF StartResume
    <3> QED BY <1>1, <1>2, <3>1 DEF Held
  <2>3. ASSUME NEW kind \in Kinds, NEW step, Read(p, kind, step), box[p] \in Ids
        PROVE  seed'[p][k] \in {seed[p][k], NoSecrets[k]} \union {kc[id][k] : id \in Ids}
    <3>1. k = kind => seed'[p][k] = kc[box[p]][k]
      BY <1>1, <1>2, <2>3 DEF Read, Held, Kinds
    <3>2. k # kind => seed'[p][k] = seed[p][k]
      BY <1>1, <1>2, <2>3 DEF Read, Held, Kinds
    <3> QED BY <2>3, <3>1, <3>2
  <2>4. \/ seed' = seed \/ EndCommand(p) \/ StartResume(p)
        \/ pc[p] # "idle" /\ \E kind \in Kinds : \E step \in Steps : Read(p, kind, step)
    <3>1. /\ "refresh" \in Kinds /\ "access" \in Kinds /\ "keypass" \in Kinds
          /\ "passphrase" \in Kinds
          /\ "readAccess" \in Steps /\ "resume" \in Steps /\ "readPassphrase" \in Steps
          /\ "callForKeys" \in Steps /\ "callForSalts" \in Steps
      BY DEF Kinds, Steps
    <3>2. CASE ReadRefreshToken(p) \/ ReadAccessToken(p) \/ ReadKeyPass(p) \/ ReadPassphrase(p)
      BY <3>1, <3>2 DEF ReadRefreshToken, ReadAccessToken, ReadKeyPass, ReadPassphrase, GiveUp,
                   Proceed
    <3>3. CASE ~(ReadRefreshToken(p) \/ ReadAccessToken(p) \/ ReadKeyPass(p) \/ ReadPassphrase(p))
      BY <3>3 DEF Step, StartAdd, StartRemove, Begin, Resume, ReadFails, Probe, CallForKeys,
         CallForKeysFails, UnlockWithKeyPass, Unlock, StoreKeyPass, SyncCalls, SyncCallFails,
         Interrupt, SyncEnds, Login,
         LoginFails, Flag, Write, WriteFails, Crash, GiveUp, Proceed, AfterUnlock, BeginWrites,
         ContinueWith, procs
    <3> QED BY <3>2, <3>3
  <2> QED BY <1>1, <2>1, <2>2, <2>3, <2>4 DEF ProcType
<1>7. \/ client'[p][k] \in {client[p][k], seed[p][k], NoSecrets[k]}
      \/ k = "passphrase" /\ client'[p][k] = keys.passphrase
      \/ k = "keypass" /\ client'[p][k] = keys.keypass
      \/ /\ k \in {"refresh", "access"} /\ client'[p][k].sess \in Sessions
         /\ client'[p][k].gen = gen'[client'[p][k].sess] /\ client'[p][k].gen >= 1
  <2>1. CASE client' = client \/ EndCommand(p)
    BY <1>4, <2>1
  <2>2. CASE Resume(p)
    BY <1>1, <2>2 DEF Resume
  <2>3. CASE Reach(p)
    <3>1. CASE client' = client
      BY <3>1
    <3>2. CASE /\ CanRotate(p) /\ gen' = [gen EXCEPT ![client[p].uid] = @ + 1]
               /\ client' = [client EXCEPT ![p].refresh = NextToken(client[p].uid),
                                           ![p].access = NextToken(client[p].uid)]
      <4> DEFINE u == client[p].uid
      <4>1. u \in Sessions /\ gen'[u] = gen[u] + 1 /\ gen[u] \in Nat
        BY <1>1, <3>2 DEF CanRotate, Honoured
      <4>2. /\ client'[p].refresh = NextToken(u) /\ client'[p].access = NextToken(u)
            /\ client'[p].passphrase = client[p].passphrase
            /\ client'[p].keypass = client[p].keypass
        BY <1>1, <3>2 DEF Held
      <4>3. NextToken(u).sess = u /\ NextToken(u).gen = gen[u] + 1
        BY DEF NextToken
      <4> HIDE DEF u
      <4> QED BY <1>2, <4>1, <4>2, <4>3
    <3> QED BY <2>3, <3>1, <3>2 DEF Reach
  <2>4. CASE Unlocked(p)
    <3>1. /\ client'[p].keypass = keys.keypass /\ client'[p].refresh = client[p].refresh
          /\ client'[p].access = client[p].access /\ client'[p].passphrase = client[p].passphrase
      BY <1>1, <2>4 DEF Unlocked, Held
    <3> QED BY <1>2, <3>1
  <2>5. CASE Login(p) /\ ~EndCommand(p)
    <3>1. PICK s \in Sessions :
          /\ gen' = [gen EXCEPT ![s] = 1]
          /\ client' = [client EXCEPT ![p] =
                 [uid |-> s, refresh |-> [sess |-> s, gen |-> 1],
                  access |-> [sess |-> s, gen |-> 1],
                  passphrase |-> keys.passphrase,
                  keypass |-> keys.keypass, unlocked |-> keys.keypass]]
      BY <2>5 DEF Login
    <3>2. /\ client'[p].refresh = [sess |-> s, gen |-> 1]
          /\ client'[p].access = [sess |-> s, gen |-> 1]
          /\ client'[p].passphrase = keys.passphrase /\ client'[p].keypass = keys.keypass
          /\ gen'[s] = 1
      BY <1>1, <3>1
    <3> QED BY <1>2, <3>2
  <2>6. \/ client' = client \/ EndCommand(p) \/ Resume(p) \/ Reach(p) \/ Unlocked(p) \/ Login(p)
    BY DEF Step, StartAdd, StartRemove, StartResume, Begin, ReadRefreshToken,
         ReadAccessToken, ReadKeyPass, ReadPassphrase, ReadFails, Probe, CallForKeys,
         CallForKeysFails, UnlockWithKeyPass, Unlock, StoreKeyPass, SyncCalls, SyncCallFails,
         Interrupt, SyncEnds,
         LoginFails, Flag, Write, WriteFails, Crash, Read, GiveUp, Proceed, ContinueWith, procs
  <2> QED BY <2>1, <2>2, <2>3, <2>4, <2>5, <2>6
<1> QED BY <1>5, <1>6, <1>7

\* How a step moves Proton's generations on: a client rotates its session's
\* tokens, or a login opens a session.
LEMMA GenMoves ==
  ASSUME SessionType, NEW p \in Procs, Step(p)
  PROVE  \/ gen' = gen
         \/ \E u \in Sessions : /\ gen' = [gen EXCEPT ![u] = @ + 1]
                                /\ \/ CanRotate(p) /\ u = client[p].uid /\ pc[p] \in Using
                                   \/ gen[u] = 0 /\ Login(p)
<1>1. gen \in [Sessions -> Nat]
  BY DEF SessionType, ProtonType
<1>2. ASSUME CanRotate(p)
      PROVE  client[p].uid \in Sessions
  BY <1>2 DEF CanRotate, Honoured
<1>3. CASE pc[p] \in Using /\ (Reach(p) \/ AnswerLost(p))
  <2>1. gen' = gen \/ (CanRotate(p) /\ gen' = [gen EXCEPT ![client[p].uid] = @ + 1])
    BY <1>3 DEF Reach, AnswerLost
  <2> QED BY <1>2, <1>3, <2>1
<1>4. CASE Login(p)
  <2>1. PICK s \in Sessions : gen[s] = 0 /\ gen' = [gen EXCEPT ![s] = 1]
    BY <1>4 DEF Login
  <2>2. gen' = [gen EXCEPT ![s] = @ + 1]
    BY <1>1, <2>1
  <2> QED BY <1>4, <2>1, <2>2
<1>5. gen' = gen \/ (pc[p] \in Using /\ (Reach(p) \/ AnswerLost(p))) \/ Login(p)
  BY DEF Step, StartAdd, StartRemove, StartResume, Begin, ReadRefreshToken,
         ReadAccessToken, Resume, ReadKeyPass, ReadPassphrase, ReadFails, Probe, CallForKeys,
         CallForKeysFails, CallFails, UnlockWithKeyPass, Unlock, StoreKeyPass, SyncCalls,
         SyncCallFails, Interrupt, SyncEnds,
         LoginFails, Flag, Write, WriteFails, Crash, proton, Using
<1> QED BY <1>3, <1>4, <1>5

LEMMA GenGrows ==
  ASSUME SessionType, [Next]_vars
  PROVE  \A s \in Sessions : gen'[s] \in Nat /\ gen'[s] >= gen[s]
<1>1. gen \in [Sessions -> Nat]
  BY DEF SessionType, ProtonType
<1>2. ASSUME NEW p \in Procs, Step(p)
      PROVE  \A s \in Sessions : gen'[s] \in Nat /\ gen'[s] >= gen[s]
  BY <1>1, <1>2, GenMoves
<1>3. CASE gen' = gen
  BY <1>1, <1>3
<1> QED BY <1>2, <1>3 DEF Next, Expire, ChangeKeys, vars, proton

LEMMA AccessKeeps ==
  ASSUME OneAtATime, SessionType, AccessMinted, [Next]_vars
  PROVE  AccessMinted'
<1>1. \A t : Minted(t) => Minted(t)'
  <2>1. \A s \in Sessions : gen[s] \in Nat /\ gen'[s] \in Nat /\ gen'[s] >= gen[s]
    BY GenGrows DEF SessionType, ProtonType
  <2>2. ASSUME NEW t, Minted(t)
        PROVE  Minted(t)'
    <3>1. CASE t = NoToken
      BY <3>1 DEF Minted
    <3>2. CASE t.sess \in Sessions /\ t.gen \in 1..gen[t.sess]
      BY <2>1, <3>2 DEF Minted
    <3> QED BY <2>2, <3>1, <3>2 DEF Minted
  <2> QED BY <2>2
<1>2. ASSUME NEW p \in Procs, Step(p)
      PROVE  AccessMinted'
  <2>1. /\ "access" \in Kinds /\ NoSecrets["access"] = NoToken /\ Minted(NoToken)
        /\ \A q \in Procs : q = p
    BY DEF Kinds, NoSecrets, Minted, OneAtATime
  <2>2. ASSUME NEW id \in Ids
        PROVE  Minted(kc[id].access)'
    <3>1. kc'[id].access \in {kc[id].access, client[p].access, NoToken}
      BY <1>2, <2>1, Flows
    <3>2. \A t : t \in {kc[id].access, client[p].access, NoToken} => Minted(t)'
      BY <1>1, <2>1 DEF AccessMinted
    <3> QED BY <3>1, <3>2
  <2>3. Minted(seed[p].access)'
    <3>1. seed'[p].access \in {seed[p].access, NoToken} \union {kc[id].access : id \in Ids}
      BY <1>2, <2>1, Flows
    <3>2. \A t : t \in {seed[p].access, NoToken} \union {kc[id].access : id \in Ids} => Minted(t)'
      BY <1>1, <2>1 DEF AccessMinted
    <3> QED BY <3>1, <3>2
  <2>4. Minted(client[p].access)'
    <3>1. \/ client'[p].access \in {client[p].access, seed[p].access, NoToken}
          \/ /\ client'[p].access.sess \in Sessions
             /\ client'[p].access.gen = gen'[client'[p].access.sess]
             /\ client'[p].access.gen >= 1
      BY <1>2, <2>1, Flows
    <3>2. \A t : t \in {client[p].access, seed[p].access, NoToken} => Minted(t)'
      BY <1>1, <2>1 DEF AccessMinted
    <3>3. ASSUME /\ client'[p].access.sess \in Sessions
                 /\ client'[p].access.gen = gen'[client'[p].access.sess]
                 /\ client'[p].access.gen >= 1
          PROVE  Minted(client[p].access)'
      <4>1. gen'[client'[p].access.sess] \in Nat
        BY <3>3, GenGrows
      <4> QED BY <3>3, <4>1 DEF Minted
    <3> QED BY <3>1, <3>2, <3>3
  <2> QED BY <2>1, <2>2, <2>3, <2>4 DEF AccessMinted
<1>3. CASE Expire \/ ChangeKeys \/ UNCHANGED vars
  <2>1. kc' = kc /\ seed' = seed /\ client' = client
    BY <1>3 DEF Expire, ChangeKeys, vars, procs
  <2>2. \A q \in Procs : Minted(seed[q].access) /\ Minted(client[q].access)
    BY DEF AccessMinted
  <2>3. \A id \in Ids : Minted(kc[id].access)
    BY DEF AccessMinted
  <2>4. \A id \in Ids : Minted(kc[id].access)'
    BY <1>1, <2>1, <2>3
  <2>5. \A q \in Procs : Minted(seed[q].access)' /\ Minted(client[q].access)'
    BY <1>1, <2>1, <2>2
  <2> QED BY <2>4, <2>5 DEF AccessMinted
<1> QED BY <1>2, <1>3 DEF Next

LEMMA KnownKeeps ==
  ASSUME OneAtATime, SessionType, KnownInv, [Next]_vars
  PROVE  KnownInv'
<1>1. /\ keys \in [passphrase : Nat, keypass : Nat] /\ MaxKeys \in Nat
      /\ \A id \in Ids : kc[id].passphrase \in Nat /\ kc[id].keypass \in Nat
      /\ \A p \in Procs : /\ seed[p].passphrase \in Nat /\ seed[p].keypass \in Nat
                          /\ client[p].passphrase \in Nat /\ client[p].keypass \in Nat
  BY SessionBounds DEF SessionType, ProtonType, StoreType, ProcType, Secrets, Held
<1>2. ASSUME NEW p \in Procs, Step(p)
      PROVE  KnownInv'
  <2>1. keys' = keys
    BY <1>2 DEF Step, StartAdd, StartRemove, StartResume, Begin, ReadRefreshToken,
         ReadAccessToken, Resume, ReadKeyPass, ReadPassphrase, ReadFails, Probe, CallForKeys,
         CallForKeysFails, UnlockWithKeyPass, Unlock, StoreKeyPass, SyncCalls, SyncCallFails,
         Interrupt, SyncEnds, Login,
         LoginFails, Flag, Write, WriteFails, Crash, proton
  <2>2. /\ \A q \in Procs : q = p
        /\ 0 <= keys.passphrase /\ 0 <= keys.keypass
        /\ keys.passphrase <= keys.passphrase /\ keys.keypass <= keys.keypass
    BY <1>1 DEF OneAtATime
  <2>3. ASSUME NEW k \in {"passphrase", "keypass"}
        PROVE  /\ \A id \in Ids : kc'[id][k] <= keys[k]
               /\ seed'[p][k] <= keys[k] /\ client'[p][k] <= keys[k]
    <3>1. /\ k \in Kinds /\ NoSecrets[k] = 0 /\ k # "refresh" /\ k # "access"
          /\ keys[k] <= keys[k] /\ 0 <= keys[k]
      BY <2>2 DEF Kinds, NoSecrets
    <3>2. /\ \A id \in Ids : kc[id][k] <= keys[k]
          /\ seed[p][k] <= keys[k] /\ client[p][k] <= keys[k]
      BY DEF KnownInv, Known
    <3>3. \A id \in Ids : kc'[id][k] \in {kc[id][k], client[p][k], 0}
      BY <1>2, <3>1, Flows
    <3>4. seed'[p][k] \in {seed[p][k], 0} \union {kc[id][k] : id \in Ids}
      BY <1>2, <3>1, Flows
    <3>5. client'[p][k] \in {client[p][k], seed[p][k], 0, keys[k]}
      BY <1>2, <3>1, Flows
    <3> QED BY <3>1, <3>2, <3>3, <3>4, <3>5
  <2>4. \A id \in Ids : Known(kc[id])'
    BY <2>1, <2>3 DEF Known
  <2>5. Known(seed[p])' /\ Known(client[p])'
    BY <2>1, <2>3 DEF Known
  <2> QED BY <2>1, <2>2, <2>4, <2>5 DEF KnownInv
<1>3. CASE ChangeKeys
  <2>1. /\ keys'.keypass = keys.keypass + 1 /\ keys.keypass < MaxKeys
        /\ keys'.passphrase \in {keys.passphrase, keys.keypass + 1}
        /\ kc' = kc /\ seed' = seed /\ client' = client
    BY <1>3 DEF ChangeKeys, procs
  <2>2. /\ 1 <= keys.passphrase /\ keys.passphrase <= keys.keypass
    BY DEF KnownInv
  <2>3. /\ keys.passphrase <= keys'.passphrase /\ keys.keypass <= keys'.keypass
        /\ 1 <= keys'.passphrase /\ keys'.passphrase <= keys'.keypass
        /\ keys'.keypass <= MaxKeys /\ keys'.passphrase \in Nat /\ keys'.keypass \in Nat
    BY <1>1, <2>1, <2>2
  <2>4. \A id \in Ids : Known(kc[id])'
    BY <1>1, <2>1, <2>3 DEF KnownInv, Known
  <2>5. \A p \in Procs : Known(seed[p])' /\ Known(client[p])'
    BY <1>1, <2>1, <2>3 DEF KnownInv, Known
  <2> QED BY <2>3, <2>4, <2>5 DEF KnownInv
<1>4. CASE Expire \/ UNCHANGED vars
  <2>1. UNCHANGED <<keys, kc, seed, client>>
    BY <1>4 DEF Expire, vars, procs, proton
  <2> QED BY <2>1 DEF KnownInv, Known
<1> QED BY <1>2, <1>3, <1>4 DEF Next

\* A client rotates late: its access token has expired, or a failure lost the
\* one that went with its refresh token.
LEMMA RotatesLate ==
  ASSUME SessionType, PlaceInv, CarryInv, RotationInv, NEW p \in Procs, CanRotate(p),
         pc[p] \in Using
  PROVE  client[p].uid \in Sessions /\ Slack(client[p].uid)
<1> DEFINE u == client[p].uid  b == box[p]
<1>1. /\ u \in Sessions /\ Honoured(client[p].refresh, u)
      /\ ~(Honoured(client[p].access, u) /\ u \notin expired)
  BY DEF CanRotate, Authorized, Honoured
<1>2. b \in Ids /\ Paired(b)
  BY DEF SessionType, ProcType, Using, RotationInv
<1>3. /\ seed[p].uid = rows[b].uid /\ seed[p].refresh = kc[b].refresh
      /\ seed[p].access = kc[b].access /\ Carries(p)
  BY DEF CarryInv, Carried
<1>4. CASE u \in expired
  <2>1. gen[u] \in 1..(MaxGen - 1)
    BY <1>4 DEF RotationInv, Rotations
  <2>2. disturbed \in Nat /\ MaxGen \in Nat
    BY SessionBounds DEF PlaceInv
  <2> QED BY <1>1, <2>1, <2>2 DEF Slack
<1>5. CASE ~Honoured(client[p].access, u)
  <2>1. u = rows[b].uid /\ client[p].refresh = kc[b].refresh /\ client[p].access = kc[b].access
    BY <1>1, <1>3, <1>5 DEF Carries
  <2> QED BY <1>1, <1>2, <1>5, <2>1 DEF Paired
<1> QED BY <1>1, <1>4, <1>5

LEMMA StepRotates ==
  ASSUME SessionType, PlaceInv, CarryInv, RotationInv, NEW p \in Procs, Step(p)
  PROVE  Rotations'
<1>1. /\ gen \in [Sessions -> Nat] /\ MaxGen \in Nat \ {0} /\ disturbed \in Nat
      /\ Rotations
  BY SessionBounds DEF SessionType, ProtonType, PlaceInv, RotationInv
<1>2. disturbed' \in Nat /\ disturbed' >= disturbed
  BY <1>1, DisturbedGrows DEF Next
<1>3. /\ expired' \subseteq expired /\ full' \subseteq Sessions
      /\ \A s \in Sessions : gen'[s] # gen[s] /\ gen[s] # 0 => s \notin expired'
  <2>1. CASE Reach(p) \/ AnswerLost(p)
    <3>1. \/ gen' = gen /\ expired' = expired /\ full' = full
          \/ \E s \in Sessions : /\ gen' = [gen EXCEPT ![s] = @ + 1]
                                 /\ expired' = expired \ {s} /\ full' = full \ {s}
      BY <2>1 DEF Reach, AnswerLost, CanRotate, Honoured
    <3> QED BY <1>1, <3>1 DEF Rotations
  <2>2. CASE Login(p)
    <3>1. PICK s \in Sessions : /\ gen[s] = 0 /\ gen' = [gen EXCEPT ![s] = 1]
                                /\ expired' = expired /\ full' = full \union {s}
      BY <2>2 DEF Login
    <3> QED BY <1>1, <3>1 DEF Rotations
  <2>3. CASE gen' = gen /\ expired' = expired /\ full' = full
    BY <1>1, <2>3 DEF Rotations
  <2>4. \/ Reach(p) \/ AnswerLost(p) \/ Login(p)
        \/ gen' = gen /\ expired' = expired /\ full' = full
    BY DEF Step, StartAdd, StartRemove, StartResume, Begin, ReadRefreshToken,
         ReadAccessToken, Resume, ReadKeyPass, ReadPassphrase, ReadFails, Probe, CallForKeys,
         CallForKeysFails, CallFails, UnlockWithKeyPass, Unlock, StoreKeyPass, SyncCalls,
         SyncCallFails, Interrupt, SyncEnds,
         LoginFails, Flag, Write, WriteFails, Crash, proton
  <2> QED BY <2>1, <2>2, <2>3, <2>4
<1>4. \A s \in Sessions : gen'[s] <= MaxGen + disturbed'
  <2>1. CASE gen' = gen
    <3>1. \A s \in Sessions : gen[s] \in Nat /\ gen[s] <= MaxGen + disturbed
      BY <1>1 DEF Rotations
    <3> QED BY <1>1, <1>2, <2>1, <3>1
  <2>2. ASSUME NEW u \in Sessions, gen' = [gen EXCEPT ![u] = @ + 1],
               (CanRotate(p) /\ u = client[p].uid /\ pc[p] \in Using) \/ gen[u] = 0
        PROVE  \A s \in Sessions : gen'[s] <= MaxGen + disturbed'
    <3>1. gen[u] < MaxGen + disturbed
      BY <1>1, <2>2, RotatesLate DEF Slack
    <3>2. \A s \in Sessions : gen[s] \in Nat /\ gen[s] <= MaxGen + disturbed
      BY <1>1 DEF Rotations
    <3> QED BY <1>1, <1>2, <2>2, <3>1, <3>2
  <2> QED BY <2>1, <2>2, GenMoves
<1>5. \A s \in expired' : gen'[s] \in 1..(MaxGen - 1)
  <2>1. ASSUME NEW s \in expired'
        PROVE  gen'[s] \in 1..(MaxGen - 1)
    <3>1. s \in Sessions /\ gen[s] \in 1..(MaxGen - 1)
      BY <1>1, <1>3 DEF Rotations
    <3>2. gen'[s] = gen[s]
      BY <1>3, <3>1
    <3> QED BY <3>1, <3>2
  <2> QED BY <2>1
<1> QED BY <1>1, <1>3, <1>4, <1>5 DEF Rotations

LEMMA NextRotates ==
  ASSUME SessionType, PlaceInv, CarryInv, RotationInv, [Next]_vars
  PROVE  Rotations'
<1>1. CASE Expire
  <2>1. PICK s \in Sessions : gen[s] \in 1..(MaxGen - 1) /\ expired' = expired \union {s}
    BY <1>1 DEF Expire
  <2>2. gen' = gen /\ full' = full /\ disturbed' = disturbed
    BY <1>1 DEF Expire
  <2> QED BY <2>1, <2>2 DEF RotationInv, Rotations
<1>2. CASE ChangeKeys \/ UNCHANGED vars
  <2>1. gen' = gen /\ full' = full /\ disturbed' = disturbed /\ expired' = expired
    BY <1>2 DEF ChangeKeys, vars, proton
  <2> QED BY <2>1 DEF RotationInv, Rotations
<1> QED BY <1>1, <1>2, StepRotates DEF Next

-----------------------------------------------------------------------------
(* Stored tokens that go together.                                         *)

LEMMA SlackKeeps ==
  ASSUME SessionType, PlaceInv, [Next]_vars, NEW u \in Sessions, Slack(u), gen'[u] = gen[u]
  PROVE  Slack(u)'
<1>1. disturbed \in Nat /\ disturbed' \in Nat /\ disturbed' >= disturbed /\ MaxGen \in Nat
      /\ gen[u] \in Nat
  BY DisturbedGrows, SessionBounds DEF PlaceInv, SessionType, ProtonType
<1> QED BY <1>1 DEF Slack

\* They still do when they stand: a rotation spends the stored refresh token.
LEMMA PairedStands ==
  ASSUME SessionType, MintedInv, PlaceInv, [Next]_vars, NEW id \in Ids, Paired(id),
         kc'[id].refresh = kc[id].refresh, kc'[id].access = kc[id].access,
         rows'[id].uid = rows[id].uid
  PROVE  Paired(id)'
<1> DEFINE u == rows[id].uid  r == kc[id].refresh
<1>1. CASE u \in Sessions /\ gen'[u] = gen[u]
  <2>1. \A t : Honoured(t, u)' = Honoured(t, u)
    BY <1>1 DEF Honoured
  <2>2. Slack(u) => Slack(u)'
    BY <1>1, SlackKeeps
  <2>3. /\ Honoured(kc[id].refresh, rows[id].uid)' = Honoured(kc[id].refresh, rows[id].uid)
        /\ Honoured(kc[id].access, rows[id].uid)' = Honoured(kc[id].access, rows[id].uid)
    BY <1>1 DEF Honoured
  <2>4. Slack(rows[id].uid)' = Slack(u)'
    BY DEF Slack
  <2> QED BY <2>2, <2>3, <2>4 DEF Paired
<1>2. CASE u \in Sessions /\ gen'[u] # gen[u]
  <2>1. gen[u] \in Nat /\ gen'[u] \in Nat /\ gen'[u] > gen[u]
    BY <1>2, GenGrows DEF SessionType, ProtonType
  <2>2. Minted(r)
    BY DEF MintedInv
  <2>3. ~(r.sess = u /\ r.gen = gen'[u])
    <3>1. CASE r = NoToken
      BY <1>2, <3>1 DEF NoToken, Sessions
    <3>2. CASE r.sess \in Sessions /\ r.gen \in 1..gen[r.sess]
      BY <2>1, <3>2
    <3> QED BY <2>2, <3>1, <3>2 DEF Minted
  <2>4. ~Honoured(kc[id].refresh, rows[id].uid)'
    BY <2>3 DEF Honoured
  <2> QED BY <2>4 DEF Paired
<1>3. CASE u \notin Sessions
  <2>1. ~Honoured(kc[id].refresh, rows[id].uid)'
    BY <1>3 DEF Honoured
  <2> QED BY <2>1 DEF Paired
<1> QED BY <1>1, <1>2, <1>3

\* Tokens and session uids are written by the writes alone.
LEMMA TokensStand ==
  ASSUME SessionType, NEW p \in Procs,
         (Step(p) /\ ~Write(p)) \/ Expire \/ ChangeKeys \/ UNCHANGED vars, NEW id \in Ids
  PROVE  /\ kc'[id].refresh = kc[id].refresh /\ kc'[id].access = kc[id].access
         /\ rows'[id].uid = rows[id].uid
<1>1. /\ rows \in [Ids -> [state : States, user : BOOLEAN, uid : Uids]] /\ kc \in [Ids -> Secrets]
      /\ rows[id] \in [state : States, user : BOOLEAN, uid : Uids] /\ kc[id] \in Secrets
  BY DEF SessionType, StoreType
<1>2. CASE Flag(p)
  <2>1. kc' = kc /\ (rows' = rows \/ rows' = [rows EXCEPT ![box[p]].state = "needs_reauth"])
    BY <1>2 DEF Flag
  <2> QED BY <1>1, <2>1
<1>3. CASE StoreKeyPass(p)
  <2>1. rows' = rows /\ (kc' = kc \/ kc' = [kc EXCEPT ![box[p]].keypass = client[p].keypass])
    BY <1>3 DEF StoreKeyPass
  <2> QED BY <1>1, <2>1 DEF Secrets
<1>4. (rows' = rows /\ kc' = kc) \/ Flag(p) \/ StoreKeyPass(p)
  BY DEF Step, StartAdd, StartRemove, StartResume, Begin, ReadRefreshToken,
         ReadAccessToken, Resume, ReadKeyPass, ReadPassphrase, ReadFails, Probe, CallForKeys,
         CallForKeysFails, UnlockWithKeyPass, Unlock, SyncCalls, SyncCallFails, Interrupt,
         SyncEnds, Login,
         LoginFails, WriteFails, Crash, Expire, ChangeKeys, vars
<1> QED BY <1>2, <1>3, <1>4

-----------------------------------------------------------------------------
(* The writes, where they stand.                                           *)

LEMMA PersistAt ==
  ASSUME SessionType, NEW p \in Procs, pc[p] = "write", NEW P \in {PersistPlan, RefreshPlan},
         Left(p, P)
  PROVE  /\ Done(p, P) \in 0..3 /\ (P = PersistPlan => Done(p, P) \in 0..2)
         /\ Done(p, P) = 0 => Head(plan[p]) = <<"rotate", "access">>
         /\ Done(p, P) = 1 => Head(plan[p]) = <<"rotate", "refresh">>
         /\ Done(p, P) = 2 => Head(plan[p]) = <<"rotate", "uid">>
         /\ Done(p, P) = 3 => Head(plan[p]) = <<"row", "active">>
<1>1. PICK l \in {3, 4} : /\ Len(P) = l /\ P \in Seq(Ops)
                          /\ P = PersistPlan => l = 3
  BY PlanOps
<1>2. l \in Nat
  OBVIOUS
<1>3. Done(p, P) \in 0..(l - 1) /\ Head(plan[p]) = P[Done(p, P) + 1]
  BY <1>1, <1>2, Stands
<1>4. PICK n \in 0..3 : n = Done(p, P) /\ (P = PersistPlan => n \in 0..2)
  BY <1>1, <1>3
<1>5. PICK op : op = Head(plan[p]) /\ op = P[n + 1]
  BY <1>3, <1>4
<1>6. n \in Nat /\ ((n \in 0..2 /\ op = PersistPlan[n + 1]) \/ op = RefreshPlan[n + 1])
  BY <1>4, <1>5
<1>7. /\ n = 0 => op = <<"rotate", "access">>
      /\ n = 1 => op = <<"rotate", "refresh">>
      /\ n = 2 => op = <<"rotate", "uid">>
      /\ n = 3 => op = <<"row", "active">>
  BY <1>6, PersistOps
<1> QED BY <1>4, <1>5, <1>7

LEMMA AddAt ==
  ASSUME SessionType, NEW p \in Procs, pc[p] = "write", Left(p, AddPlan)
  PROVE  \E m \in 0..7 : m - 2 = Done(p, AddPlan) - 2 /\ Head(plan[p]) = AddPlan[m + 1]
<1>1. AddPlan \in Seq(Ops) /\ Len(AddPlan) = 8 /\ 8 \in Nat
  BY PlanOps
<1>2. Done(p, AddPlan) \in 0..(8 - 1) /\ Head(plan[p]) = AddPlan[Done(p, AddPlan) + 1]
  BY <1>1, Stands
<1> QED BY <1>2

LEMMA SecretsAt ==
  ASSUME SessionType, NEW p \in Procs, pc[p] = "write", Left(p, WriteSecrets)
  PROVE  \E m \in 2..7 : m - 2 = Done(p, WriteSecrets) /\ Head(plan[p]) = WriteSecrets[m - 1]
<1>1. WriteSecrets \in Seq(Ops) /\ Len(WriteSecrets) = 6 /\ 6 \in Nat
  BY PlanOps
<1>2. Done(p, WriteSecrets) \in 0..(6 - 1)
      /\ Head(plan[p]) = WriteSecrets[Done(p, WriteSecrets) + 1]
  BY <1>1, Stands
<1>3. PICK m \in 2..7 : m = Done(p, WriteSecrets) + 2
  BY <1>2
<1>4. m - 2 = Done(p, WriteSecrets) /\ m - 1 = Done(p, WriteSecrets) + 1
  BY <1>2, <1>3
<1> QED BY <1>2, <1>4

\* The write to make when n of a login's secrets are stored, or before the first.
EnterOp(n, op) ==
    /\ n = -2 => op = <<"row", "insert">>
    /\ n = -1 => op = <<"row", "user">>
    /\ n = 0 => op = <<"set", "refresh">>
    /\ n = 1 => op = <<"set", "access">>
    /\ n = 2 => op = <<"set", "passphrase">>
    /\ n = 3 => op = <<"set", "keypass">>
    /\ n = 4 => op = <<"row", "uid">>
    /\ n = 5 => op = <<"row", "active">>

\* A login's credentials are of one session, of which the row names another
\* until they are all stored.
LEMMA EntersPaired ==
  ASSUME SessionType, NEW p \in Procs, Write(p), NEW b \in Ids, b = box[p], NEW n \in -2..5,
         NEW op, op = Head(plan[p]), op \in Ops, Enters(p, n), MintedInv, PlaceInv, [Next]_vars,
         Paired(b), EnterOp(n, op)
  PROVE  Paired(b)'
<1> DEFINE s == kc[b]  t == kc'[b]  c == client[p]
<1>1. /\ c.uid \in Sessions
      /\ c.refresh = [sess |-> c.uid, gen |-> 1] /\ c.access = c.refresh
      /\ n >= 1 => s.refresh = c.refresh
      /\ n >= 2 => s.access = c.access
      /\ n < 5 => rows[b].uid # c.uid
  BY DEF Enters
<1>2. /\ \A k \in Kinds \ {op[2]} : t[k] = s[k]
      /\ op[1] = "row" \/ op[2] = "uid" => kc' = kc
      /\ op[1] = "set" => t[op[2]] = c[op[2]]
  BY KcWritten
<1>3. "refresh" \in Kinds /\ "access" \in Kinds
  BY DEF Kinds
<1>4. CASE n = -2
  <2>1. op[1] = "row" /\ op[2] = "insert"
    BY <1>4 DEF EnterOp
  <2>2. rows'[b].uid = 0
    BY <2>1, UidWritten
  <2>3. 0 \notin Sessions
    BY DEF Sessions
  <2> QED BY <2>2, <2>3 DEF Paired, Honoured
<1>5. CASE n = -1 \/ n = 5
  <2>1. op[1] = "row" /\ op[2] \in {"user", "active"}
    BY <1>5 DEF EnterOp
  <2>2. rows'[b].uid = rows[b].uid
    BY <2>1, UidWritten
  <2>3. kc' = kc
    BY <1>2, <2>1
  <2> QED BY <2>2, <2>3, PairedStands
<1>6. CASE n \in 0..3
  <2>1. op[1] = "set" /\ op # <<"rotate", "uid">> /\ op[1] # "row"
    BY <1>6 DEF EnterOp
  <2>2. rows' = rows
    BY <2>1, UidWritten
  <2>3. t.refresh = c.refresh
    <3>1. CASE n = 0
      <4>1. op[2] = "refresh"
        BY <1>6, <3>1 DEF EnterOp
      <4> QED BY <1>2, <2>1, <4>1
    <3>2. CASE n \in 1..3
      <4>1. op[2] # "refresh"
        BY <1>6, <3>2 DEF EnterOp
      <4> QED BY <1>1, <1>2, <1>3, <3>2, <4>1
    <3> QED BY <1>6, <3>1, <3>2
  <2>4. c.refresh.sess = c.uid /\ rows[b].uid # c.uid
    BY <1>1, <1>6
  <2>5. ~Honoured(kc[b].refresh, rows[b].uid)'
    BY <2>2, <2>3, <2>4 DEF Honoured
  <2> QED BY <2>5 DEF Paired
<1>7. CASE n = 4
  <2>1. op = <<"row", "uid">> /\ op[1] = "row"
    BY <1>7 DEF EnterOp
  <2>2. kc' = kc /\ s.refresh = s.access
    BY <1>1, <1>2, <1>7, <2>1
  <2> QED BY <2>2 DEF Paired
<1>8. n = -2 \/ n = -1 \/ n \in 0..3 \/ n = 4 \/ n = 5
  OBVIOUS
<1> QED BY <1>4, <1>5, <1>6, <1>7, <1>8

\* Tokens are written back in pairs, the access token first.
LEMMA PersistsPaired ==
  ASSUME SessionType, NEW p \in Procs, Write(p), NEW b \in Ids, b = box[p], NEW n \in 0..3,
         NEW op, op = Head(plan[p]), op \in Ops, Persists(p, n), MintedInv, PlaceInv, [Next]_vars,
         Paired(b),
         n = 1 /\ cmd[p] = "sync" =>
            \/ kc[b].access = client[p].access
            \/ client[p].uid \in Sessions => Slack(client[p].uid),
         n = 0 => op = <<"rotate", "access">>, n = 1 => op = <<"rotate", "refresh">>,
         n = 2 => op = <<"rotate", "uid">>, n = 3 => op = <<"row", "active">>
  PROVE  /\ Paired(b)'
         /\ n = 0 => kc'[b].access = client[p].access
<1> DEFINE s == kc[b]  t == kc'[b]  c == client[p]
<1>0. PICK u : u = rows[b].uid
  OBVIOUS
<1>1. /\ u = seed[p].uid /\ Carries(p)
      /\ n <= 1 => s.refresh = seed[p].refresh
      /\ n = 0 => s.access = seed[p].access
      /\ n >= 1 => s.access = c.access \/ cmd[p] = "sync"
  BY <1>0 DEF Persists
<1>2. /\ c.uid = u
      /\ \/ c.refresh = seed[p].refresh /\ c.access = seed[p].access
         \/ c.refresh = c.access /\ u \in Sessions /\ ~Honoured(seed[p].refresh, u)
  <2>1. CASE c.refresh = seed[p].refresh /\ c.access = seed[p].access
    BY <1>1, <2>1 DEF Carries
  <2>2. CASE /\ c.uid = u /\ c.refresh = c.access /\ c.refresh.sess = u /\ u \in Sessions
             /\ seed[p].refresh.gen < c.refresh.gen
    <3>1. /\ gen[u] \in Nat /\ seed[p].refresh.gen \in Nat
          /\ c.refresh.gen \in Nat
      BY <2>2 DEF SessionType, ProtonType, ProcType, Held, AnyToken
    <3>2. c.refresh.gen <= gen[u]
      <4>1. Minted(c.refresh) /\ u # 0
        BY <2>2 DEF MintedInv, Sessions
      <4> QED BY <2>2, <3>1, <4>1 DEF Minted, NoToken
    <3> QED BY <2>2, <3>1, <3>2 DEF Honoured
  <2> QED BY <1>1, <2>1, <2>2 DEF Carries
<1>3. /\ \A k \in Kinds \ {op[2]} : t[k] = s[k]
      /\ op[1] = "row" \/ op[2] = "uid" => kc' = kc
      /\ op[1] = "rotate" /\ op[2] \in {"access", "refresh"} =>
           t[op[2]] = c[op[2]] \/ (t[op[2]] = s[op[2]] /\ c[op[2]] = seed[p][op[2]])
  BY KcWritten
<1>4. "refresh" \in Kinds /\ "access" \in Kinds
  BY DEF Kinds
<1>5. rows'[b].uid = u
  <2>1. /\ n = 0 => op = <<"rotate", "access">>
        /\ n = 1 => op = <<"rotate", "refresh">>
        /\ n = 2 => op = <<"rotate", "uid">>
        /\ n = 3 => op = <<"row", "active">>
    OBVIOUS
  <2>2. box[p] \in Ids
    OBVIOUS
  <2>3. rows'[box[p]].uid = rows[box[p]].uid
    BY <2>1, <2>2, PersistWrites
  <2> QED BY <1>0, <2>3
<1>6. gen' = gen
  BY DEF Write, proton
<1>8. ASSUME t.refresh = s.refresh, t.access = s.access
      PROVE  Paired(b)'
  BY <1>0, <1>5, <1>8, PairedStands
<1>9. CASE n = 0
  <2>1. op[1] = "rotate" /\ op[2] = "access"
    BY <1>9
  <2>2. t.access = c.access
    BY <1>1, <1>3, <1>9, <2>1
  <2>3. t.refresh = s.refresh
    BY <1>3, <1>4, <2>1
  <2>4. CASE c.access = seed[p].access
    BY <1>1, <1>8, <1>9, <2>2, <2>3, <2>4
  <2>5. CASE ~Honoured(seed[p].refresh, u)
    <3>1. ~Honoured(kc[b].refresh, rows[b].uid)'
      BY <1>1, <1>5, <1>6, <1>9, <2>3, <2>5 DEF Honoured
    <3> QED BY <2>2, <3>1 DEF Paired
  <2> QED BY <1>2, <2>2, <2>4, <2>5
<1>10. CASE n = 1
  <2>1. op[1] = "rotate" /\ op[2] = "refresh"
    BY <1>10
  <2>2. t.refresh = c.refresh /\ t.access = s.access
    BY <1>1, <1>3, <1>4, <1>10, <2>1
  <2>3. CASE c.refresh = seed[p].refresh
    BY <1>1, <1>8, <1>10, <2>2, <2>3
  <2>4. CASE c.refresh = c.access /\ u \in Sessions
    <3>2. s.access = c.access \/ Slack(u)
      BY <1>1, <1>2, <1>10, <2>4
    <3>3. CASE s.access = c.access
      <4>1. kc'[b].access = kc'[b].refresh
        BY <2>2, <2>4, <3>3
      <4> QED BY <1>10, <4>1 DEF Paired
    <3>4. CASE Slack(u)
      <4>1. Slack(u)'
        BY <1>6, <2>4, <3>4, SlackKeeps
      <4>2. Slack(rows[b].uid)'
        BY <1>5, <4>1 DEF Slack
      <4> QED BY <1>10, <4>2 DEF Paired
    <3> QED BY <3>2, <3>3, <3>4
  <2> QED BY <1>2, <1>10, <2>3, <2>4
<1>11. CASE n = 2 \/ n = 3
  <2>1. op[1] = "row" \/ op[2] = "uid"
    BY <1>11
  <2>2. kc' = kc
    BY <1>3, <2>1
  <2> QED BY <1>8, <1>11, <2>2
<1>12. n = 0 \/ n = 1 \/ n = 2 \/ n = 3
  OBVIOUS
<1> QED BY <1>9, <1>10, <1>11, <1>12

LEMMA RemoveAt ==
  ASSUME SessionType, NEW p \in Procs, pc[p] = "write", Left(p, RemovePlan)
  PROVE  /\ Done(p, RemovePlan) \in 0..4
         /\ Done(p, RemovePlan) = 0 => Head(plan[p]) = <<"delete", "refresh">>
         /\ Done(p, RemovePlan) = 1 => Head(plan[p]) = <<"delete", "access">>
         /\ Done(p, RemovePlan) = 2 => Head(plan[p]) = <<"delete", "passphrase">>
         /\ Done(p, RemovePlan) = 3 => Head(plan[p]) = <<"delete", "keypass">>
         /\ Done(p, RemovePlan) = 4 => Head(plan[p]) = <<"row", "drop">>
<1>1. RemovePlan \in Seq(Ops) /\ Len(RemovePlan) = 5 /\ 5 \in Nat
  BY PlansFit, RemovalIs DEF Fit
<1>2. Done(p, RemovePlan) \in 0..(5 - 1) /\ Head(plan[p]) = RemovePlan[Done(p, RemovePlan) + 1]
  BY <1>1, Stands
<1>3. PICK n \in 0..4 : n = Done(p, RemovePlan)
  BY <1>2
<1>4. PICK op : op = Head(plan[p]) /\ op = RemovePlan[n + 1]
  BY <1>2, <1>3
<1>5. /\ n = 0 => op = RemovePlan[1]
      /\ n = 1 => op = RemovePlan[2]
      /\ n = 2 => op = RemovePlan[3]
      /\ n = 3 => op = RemovePlan[4]
      /\ n = 4 => op = RemovePlan[5]
  BY <1>4
<1> QED BY <1>3, <1>4, <1>5, RemovalIs

\* A removal deletes the refresh token first.
LEMMA RemovesPaired ==
  ASSUME SessionType, NEW p \in Procs, Write(p), NEW b \in Ids, b = box[p], Left(p, RemovePlan),
         MintedInv, PlaceInv, [Next]_vars, Paired(b),
         Done(p, RemovePlan) = 1 => kc[b].refresh = NoToken
  PROVE  /\ Paired(b)'
         /\ Done(p, RemovePlan) = 0 => kc'[b].refresh = NoToken
<1> DEFINE s == kc[b]  t == kc'[b]
<1>1. pc[p] = "write" /\ s \in Secrets /\ box[p] \in Ids
  BY DEF Write, SessionType, StoreType
<1>2. PICK n \in 0..4 :
          /\ n = Done(p, RemovePlan)
          /\ n = 0 => Head(plan[p]) = <<"delete", "refresh">>
          /\ n = 1 => Head(plan[p]) = <<"delete", "access">>
          /\ n = 2 => Head(plan[p]) = <<"delete", "passphrase">>
          /\ n = 3 => Head(plan[p]) = <<"delete", "keypass">>
          /\ n = 4 => Head(plan[p]) = <<"row", "drop">>
  BY <1>1, RemoveAt
<1>3. PICK op \in Ops : op = Head(plan[p])
  BY <1>1, OpIs
<1>4. 0 \notin Sessions /\ NoToken.sess = 0
  BY DEF Sessions, NoToken
<1>5. ASSUME t.refresh = NoToken
      PROVE  Paired(b)'
  <2>1. ~Honoured(kc[b].refresh, rows[b].uid)'
    BY <1>4, <1>5 DEF Honoured
  <2> QED BY <2>1 DEF Paired
<1>6. CASE n = 4
  <2>1. op[1] = "row" /\ op[2] = "drop"
    BY <1>2, <1>3, <1>6
  <2>2. rows'[box[p]].uid = 0
    BY <1>1, <1>3, <2>1, UidWritten
  <2>3. ~Honoured(kc[b].refresh, rows[b].uid)'
    BY <1>4, <2>2 DEF Honoured
  <2> QED BY <1>2, <1>6, <2>3 DEF Paired
<1>7. CASE n # 4
  <2>1. /\ op[1] = "delete" /\ op[2] \in Kinds
        /\ n = 0 => op[2] = "refresh"
        /\ n = 1 => op[2] = "access"
        /\ n >= 2 => op[2] # "refresh" /\ op[2] # "access"
    <3>1. n = 0 \/ n = 1 \/ n = 2 \/ n = 3
      BY <1>7
    <3> QED BY <1>2, <1>3, <3>1 DEF Kinds
  <2>2. t = [s EXCEPT ![op[2]] = SecretAfter(p, op)]
    BY <1>1, <1>3, <2>1, SecretWritten
  <2>3. op[2] = "refresh" \/ s.refresh = NoToken => t.refresh = NoToken
    BY <1>1, <2>1, <2>2, Deleted
  <2>4. op # <<"rotate", "uid">> /\ op[1] # "row"
    BY <2>1
  <2>5. rows' = rows
    BY <1>1, <1>3, <2>4, UidWritten
  <2>6. \A k \in Kinds \ {op[2]} : t[k] = s[k]
    BY <1>1, <1>3, KcWritten
  <2>7. CASE n = 0 \/ n = 1
    BY <1>2, <1>5, <2>1, <2>3, <2>7
  <2>8. CASE n >= 2
    <3>1. t.refresh = s.refresh /\ t.access = s.access
      BY <2>1, <2>6, <2>8 DEF Kinds
    <3>2. Paired(b)'
      BY <2>5, <3>1, PairedStands
    <3> QED BY <1>2, <2>8, <3>2
  <2>9. n = 0 \/ n = 1 \/ n >= 2
    OBVIOUS
  <2> QED BY <2>7, <2>8, <2>9
<1> QED BY <1>6, <1>7

\* What is left of a list after its first write began with the whole list.
LEMMA FirstDone ==
  ASSUME NEW p \in Procs, NEW P \in Seq(Ops), NEW Q \in Seq(Ops), Left(p, Q),
         plan[p] \in Seq(Ops), plan'[p] = Tail(plan[p]), Left(p, P)', Done(p, P)' = 1
  PROVE  Len(plan[p]) = Len(P)
<1>1. Len(plan[p]) \in 1..Len(Q) /\ Len(Q) \in Nat /\ Len(P) \in Nat
  BY DEF Left
<1>2. plan[p] # << >>
  BY <1>1
<1>3. Len(Tail(plan[p])) = Len(plan[p]) - 1 /\ Len(plan[p]) \in Nat
  BY <1>2, TailIs
<1>4. Len(P) - Len(plan'[p]) = 1
  BY DEF Done
<1> QED BY <1>1, <1>3, <1>4

LEMMA WriteRotates ==
  ASSUME SessionType, MintedInv, PlaceInv, CarryInv, RotationInv, NEW p \in Procs, Write(p),
         [Next]_vars
  PROVE  (\A id \in Ids : Paired(id)') /\ (pc'[p] = "write" => HalfWay(p)')
<1>1. /\ ProcType /\ pc[p] = "write" /\ box[p] \in Ids /\ Head(plan[p]) \in Ops
      /\ plan[p] \in Seq(Ops) /\ plan[p] # << >>
      /\ Placed(p) /\ Writing(p) /\ HalfWay(p) /\ \A id \in Ids : Paired(id)
  <2>1. pc[p] = "write"
    BY DEF Write
  <2> QED BY <2>1, OpIs DEF SessionType, PlaceInv, CarryInv, RotationInv
<1>2. PICK b \in Ids : b = box[p]
  BY <1>1
<1>3. PICK op \in Ops : op = Head(plan[p])
  BY <1>1
<1>4. ASSUME Paired(b)',
             Continues(p) /\ plan'[p] = Tail(plan[p]) => HalfWay(p)'
      PROVE  (\A id \in Ids : Paired(id)') /\ (pc'[p] = "write" => HalfWay(p)')
  <2>1. ASSUME NEW id \in Ids, id # b
        PROVE  Paired(id)'
    <3>1. rows'[id] = rows[id] /\ kc'[id] = kc[id]
      BY <1>2, <2>1 DEF Write, SessionType, StoreType
    <3> QED BY <1>1, <3>1, PairedStands
  <2>2. EndCommand(p) => pc'[p] = "idle"
    BY <1>1, EndIs
  <2> QED BY <1>4, <2>1, <2>2, WriteGoesOn
<1>5. ASSUME op[1] = "row", op[2] = "needs_reauth"
      PROVE  Paired(b)'
  <2>1. rows'[b].uid = rows[b].uid
    BY <1>2, <1>3, <1>5, UidWritten
  <2>2. kc' = kc
    BY <1>2, <1>3, <1>5, KcWritten
  <2> QED BY <1>1, <2>1, <2>2, PairedStands
<1>6. ASSUME NEW m \in 0..7, op = AddPlan[m + 1] \/ (m >= 2 /\ op = WriteSecrets[m - 1]),
             Enters(p, m - 2)
      PROVE  Paired(b)'
  <2>1. /\ m = 0 => op = <<"row", "insert">>
        /\ m = 1 => op = <<"row", "user">>
        /\ m = 2 => op = <<"set", "refresh">>
        /\ m = 3 => op = <<"set", "access">>
        /\ m = 4 => op = <<"set", "passphrase">>
        /\ m = 5 => op = <<"set", "keypass">>
        /\ m = 6 => op = <<"row", "uid">>
        /\ m = 7 => op = <<"row", "active">>
    BY <1>6, EnterOps
  <2>2. PICK n \in -2..5 : n = m - 2
    OBVIOUS
  <2>3. EnterOp(n, op)
    BY <2>1, <2>2 DEF EnterOp
  <2>4. Enters(p, n) /\ Paired(b)
    BY <1>1, <1>6, <2>2
  <2> QED BY <1>2, <1>3, <2>3, <2>4, EntersPaired
<1>7. CASE cmd[p] = "add" /\ Left(p, AddPlan) /\ Enters(p, Done(p, AddPlan) - 2)
  <2>1. PICK m \in 0..7 : m - 2 = Done(p, AddPlan) - 2 /\ op = AddPlan[m + 1]
    BY <1>1, <1>3, <1>7, AddAt
  <2>2. Enters(p, m - 2)
    BY <1>7, <2>1
  <2>3. Paired(b)'
    BY <1>6, <2>1, <2>2
  <2>4. Continues(p) => HalfWay(p)'
    BY <1>7 DEF Continues, HalfWay
  <2> QED BY <1>4, <2>3, <2>4
<1>8. CASE cmd[p] \in {"remove", "cleanup"}
  <2>1. Left(p, RemovePlan)
    BY <1>1, <1>8 DEF Placed, Removes, Updates
  <2>2. Done(p, RemovePlan) = 1 => kc[b].refresh = NoToken
    BY <1>1, <1>2, <1>8, <2>1 DEF HalfWay
  <2>3. /\ Paired(b)'
        /\ Done(p, RemovePlan) = 0 => kc'[b].refresh = NoToken
    BY <1>1, <1>2, <2>1, <2>2, RemovesPaired
  <2>4. ASSUME Continues(p), plan'[p] = Tail(plan[p])
        PROVE  HalfWay(p)'
    <3>1. ASSUME Left(p, RemovePlan)', Done(p, RemovePlan)' = 1
          PROVE  kc'[box'[p]].refresh = NoToken
      <4>1. RemovePlan \in Seq(Ops) /\ Len(RemovePlan) = 5
        BY PlansFit, RemovalIs DEF Fit
      <4>2. Len(plan[p]) = 5
        BY <1>1, <2>1, <2>4, <3>1, <4>1, FirstDone
      <4>3. Done(p, RemovePlan) = 0
        BY <4>1, <4>2 DEF Done
      <4> QED BY <1>2, <2>3, <2>4, <4>3 DEF Continues
    <3>2. cmd'[p] # "sync"
      BY <1>8, <2>4 DEF Continues
    <3> QED BY <3>1, <3>2 DEF HalfWay
  <2> QED BY <1>4, <2>3, <2>4
<1>9. ASSUME NEW P \in {PersistPlan, RefreshPlan}, Left(p, P), Persists(p, Done(p, P)),
             cmd[p] = "sync" => P = PersistPlan
      PROVE  /\ Paired(b)'
             /\ Done(p, P) = 0 => kc'[b].access = client[p].access
  <2>1. PICK n \in 0..3 :
          /\ n = Done(p, P)
          /\ n = 0 => op = <<"rotate", "access">>
          /\ n = 1 => op = <<"rotate", "refresh">>
          /\ n = 2 => op = <<"rotate", "uid">>
          /\ n = 3 => op = <<"row", "active">>
    <3>1. /\ Done(p, P) \in 0..3
          /\ Done(p, P) = 0 => Head(plan[p]) = <<"rotate", "access">>
          /\ Done(p, P) = 1 => Head(plan[p]) = <<"rotate", "refresh">>
          /\ Done(p, P) = 2 => Head(plan[p]) = <<"rotate", "uid">>
          /\ Done(p, P) = 3 => Head(plan[p]) = <<"row", "active">>
      BY <1>1, <1>9, PersistAt
    <3> QED BY <1>3, <3>1
  <2>2. Persists(p, n) /\ Paired(b)
    BY <1>1, <1>9, <2>1
  <2>3. n = 1 /\ cmd[p] = "sync" =>
            \/ kc[b].access = client[p].access
            \/ client[p].uid \in Sessions => Slack(client[p].uid)
    <3>1. ASSUME n = 1, cmd[p] = "sync"
          PROVE  Left(p, PersistPlan) /\ Done(p, PersistPlan) = 1
      BY <1>9, <2>1, <3>1
    <3> QED BY <1>1, <1>2, <3>1 DEF HalfWay
  <2>4. Paired(b)'
    BY <1>2, <1>3, <2>1, <2>2, <2>3, PersistsPaired
  <2>5. n = 0 => kc'[b].access = client[p].access
    BY <1>2, <1>3, <2>1, <2>2, <2>3, PersistsPaired
  <2> QED BY <2>1, <2>4, <2>5
<1>10. CASE /\ cmd[p] \in {"sync", "labels"} /\ Left(p, PersistPlan)
            /\ Persists(p, Done(p, PersistPlan))
  <2>1. /\ Paired(b)'
        /\ Done(p, PersistPlan) = 0 => kc'[b].access = client[p].access
    BY <1>9, <1>10
  <2>2. ASSUME Continues(p), plan'[p] = Tail(plan[p])
        PROVE  HalfWay(p)'
    <3>1. ASSUME Left(p, PersistPlan)', Done(p, PersistPlan)' = 1
          PROVE  kc'[box'[p]].access = client'[p].access
      <4>1. PersistPlan \in Seq(Ops) /\ Len(PersistPlan) = 3
        BY PlanOps
      <4>2. Len(plan[p]) = 3
        BY <1>1, <1>10, <2>2, <3>1, <4>1, FirstDone
      <4>3. Done(p, PersistPlan) = 0
        BY <4>1, <4>2 DEF Done
      <4> QED BY <1>2, <2>1, <2>2, <4>3 DEF Continues
    <3>2. cmd'[p] \notin {"remove", "cleanup"}
      BY <1>10, <2>2 DEF Continues
    <3> QED BY <3>1, <3>2 DEF HalfWay
  <2> QED BY <1>4, <2>1, <2>2
<1>11. CASE /\ cmd[p] = "refresh" /\ Left(p, RefreshPlan)
            /\ Persists(p, Done(p, RefreshPlan))
  <2>1. Paired(b)'
    BY <1>9, <1>11
  <2>2. Continues(p) => HalfWay(p)'
    BY <1>11 DEF Continues, HalfWay
  <2> QED BY <1>4, <2>1, <2>2
<1>12. CASE cmd[p] = "refresh" /\ Left(p, WriteSecrets) /\ Enters(p, Done(p, WriteSecrets))
  <2>1. PICK m \in 2..7 : m - 2 = Done(p, WriteSecrets) /\ op = WriteSecrets[m - 1]
    BY <1>1, <1>3, <1>12, SecretsAt
  <2>2. Enters(p, m - 2) /\ m \in 0..7 /\ m >= 2
    BY <1>12, <2>1
  <2>3. Paired(b)'
    BY <1>6, <2>1, <2>2
  <2>4. Continues(p) => HalfWay(p)'
    BY <1>12 DEF Continues, HalfWay
  <2> QED BY <1>4, <2>3, <2>4
<1>13. CASE cmd[p] \in {"labels", "refresh"} /\ plan[p] = FlagOnly
  <2>1. op = <<"row", "needs_reauth">>
    BY <1>3, <1>13 DEF FlagOnly
  <2>2. op[1] = "row" /\ op[2] = "needs_reauth"
    BY <2>1
  <2>3. Continues(p) => HalfWay(p)'
    BY <1>13 DEF Continues, HalfWay
  <2> QED BY <1>4, <1>5, <2>2, <2>3
<1>14. CASE /\ cmd[p] = "sync" /\ Left(p, FlagThenUid) /\ Done(p, FlagThenUid) = 0
            /\ rows[box[p]].uid = seed[p].uid /\ Carries(p)
  <2>1. FlagThenUid \in Seq(Ops) /\ Len(FlagThenUid) = 2 /\ 2 \in Nat
    BY PlanOps
  <2>2. op = <<"row", "needs_reauth">>
    <3>1. op = FlagThenUid[Done(p, FlagThenUid) + 1]
      BY <1>1, <1>3, <1>14, <2>1, Stands
    <3> QED BY <1>14, <3>1, FlagPlansAre
  <2>3. op[1] = "row" /\ op[2] = "needs_reauth"
    BY <2>2
  <2>4. ASSUME Continues(p), plan'[p] = Tail(plan[p])
        PROVE  HalfWay(p)'
    <3>1. Left(p, PersistPlan)' /\ Done(p, PersistPlan)' = 2
      BY <1>1, <1>14, <2>4, UidIsLeft
    <3>2. cmd'[p] = "sync"
      BY <1>14, <2>4 DEF Continues
    <3> QED BY <3>1, <3>2 DEF HalfWay
  <2> QED BY <1>4, <1>5, <2>3, <2>4
<1> QED BY <1>1, <1>7, <1>8, <1>10, <1>11, <1>12, <1>13, <1>14 DEF Writing

LEMMA RemovalGoesOn ==
  ASSUME NEW p \in Procs, Left(p, RemovePlan)', Done(p, RemovePlan)' = 1
  PROVE  Len(plan'[p]) # 5 /\ Len(plan'[p]) # 1
<1>1. PICK n : n = Len(plan'[p])
  OBVIOUS
<1>2. n \in 1..5 /\ 5 - n = 1
  BY <1>1, RemovalIs DEF Left, Done
<1>3. \A k \in 1..5 : 5 - k = 1 => k # 5 /\ k # 1
  OBVIOUS
<1> QED BY <1>1, <1>2, <1>3, Zenon

\* A write that fails is a failure, but for one the rows do not allow.
LEMMA FailureRotates ==
  ASSUME SessionType, PlaceInv, CarryInv, RotationInv, NEW p \in Procs, WriteFails(p),
         pc'[p] = "write"
  PROVE  HalfWay(p)'
<1> DEFINE op == Head(plan[p])  c == CommandAfterFailure(cmd[p], op)
           ops == AfterFailure(cmd[p], op, Tail(plan[p]))
<1>1. /\ ProcType /\ pc[p] = "write" /\ op \in Ops
      /\ plan[p] \in Seq(Ops) /\ plan[p] # << >>
      /\ ContinueWith(p, c, ops) /\ gen' = gen
      /\ Writing(p)
      /\ Refused(p, op) \/ (disturbed' = disturbed + 1)
  <2>1. pc[p] = "write"
    BY DEF WriteFails
  <2> QED BY <2>1, OpIs DEF WriteFails, SessionType, proton, CarryInv, Disturb
<1> HIDE DEF op, c, ops
<1>2. /\ ops # << >> /\ plan'[p] = ops /\ cmd'[p] = c
      /\ box'[p] = box[p] /\ client'[p] = client[p]
  <2>1. ~EndCommand(p)
    BY <1>1, EndIs
  <2> QED BY <1>1, <2>1, ContinueIs
<1>3. ASSUME disturbed' = disturbed + 1
      PROVE  client'[p].uid \in Sessions => Slack(client[p].uid)'
  <2>1. MaxGen \in Nat /\ disturbed \in Nat
    BY SessionBounds DEF PlaceInv
  <2>2. \A s \in Sessions : gen'[s] \in Nat /\ gen'[s] <= MaxGen + disturbed
    BY <1>1 DEF RotationInv, Rotations, SessionType, ProtonType
  <2>3. \A s \in Sessions : gen'[s] < MaxGen + disturbed'
    BY <1>3, <2>1, <2>2
  <2> QED BY <2>3 DEF Slack
<1>4. ASSUME cmd'[p] = "sync", Left(p, PersistPlan)', Done(p, PersistPlan)' = 1
      PROVE  disturbed' = disturbed + 1
  <2>1. cmd[p] = "sync"
    BY <1>2, <1>4 DEF c, CommandAfterFailure
  <2>2. SUFFICES ASSUME Refused(p, op)
                 PROVE  FALSE
    BY <1>1
  <2>3. op # <<"rotate", "refresh">> /\ op # <<"rotate", "access">>
    BY <2>2 DEF Refused
  <2>4. plan'[p] = Tail(plan[p]) /\ Tail(plan[p]) # << >>
    BY <1>2, <2>1, <2>3 DEF ops, AfterFailure
  <2>5. PersistPlan \in Seq(Ops) /\ Len(PersistPlan) = 3
    BY PlanOps
  <2>6. CASE Left(p, PersistPlan)
    <3>1. Len(plan[p]) = 3
      BY <1>1, <1>4, <2>4, <2>5, <2>6, FirstDone
    <3>2. Done(p, PersistPlan) = 0
      BY <2>5, <3>1 DEF Done
    <3>3. op = <<"rotate", "access">>
      BY <1>1, <2>6, <3>2, PersistAt DEF op
    <3> QED BY <2>3, <3>3
  <2>7. CASE Left(p, FlagThenUid) /\ Done(p, FlagThenUid) = 0
    <3>1. Done(p, PersistPlan)' = 2
      BY <1>1, <2>4, <2>7, UidIsLeft
    <3> QED BY <1>4, <3>1
  <2> QED BY <1>1, <2>1, <2>6, <2>7 DEF Writing
<1>5. ASSUME cmd'[p] \in {"remove", "cleanup"}, Left(p, RemovePlan)', Done(p, RemovePlan)' = 1
      PROVE  FALSE
  <2>1. Len(plan'[p]) # 5 /\ Len(plan'[p]) # 1
    BY <1>5, RemovalGoesOn
  <2>2. ops = RemovePlan \/ ops = << <<"row", "drop">> >>
    <3>1. cmd[p] \in {"add", "remove", "cleanup"}
      BY <1>2, <1>5 DEF c, CommandAfterFailure
    <3> QED BY <1>2, <3>1 DEF ops, AfterFailure
  <2>3. Len(<< <<"row", "drop">> >>) = 1 /\ Len(RemovePlan) = 5
    BY RemovalIs
  <2> QED BY <1>2, <2>1, <2>2, <2>3
<1> QED BY <1>3, <1>4, <1>5 DEF HalfWay

\* Before its first write a list is whole.
LEMMA BeginRotates ==
  ASSUME SessionType, PlaceInv, NEW p \in Procs, Step(p), ~Write(p), ~WriteFails(p),
         pc'[p] = "write"
  PROVE  HalfWay(p)'
<1>1. ProcType /\ Placed(p)
  BY DEF SessionType, PlaceInv
<1>0. PersistPlan # RemovePlan
  <2>1. Len(PersistPlan) = 3 /\ Len(RemovePlan) = 5
    BY PlanOps, RemovalIs
  <2> QED BY <2>1
<1>2. ~EndCommand(p)
  BY <1>1, EndIs
<1>3. ASSUME NEW P \in {RemovePlan, PersistPlan}, plan'[p] = P,
             P = RemovePlan => cmd'[p] # "sync",
             P = PersistPlan => cmd'[p] \notin {"remove", "cleanup"}
      PROVE  HalfWay(p)'
  <2>1. Done(p, P)' = 0
    BY <1>3, PlansFit, LeftBegins
  <2> QED BY <1>3, <2>1 DEF HalfWay
<1>4. CASE StartRemove(p)
  <2>1. plan'[p] = RemovePlan /\ cmd'[p] = "remove"
    BY <1>1, <1>4 DEF StartRemove, Begin, ProcType
  <2> QED BY <1>0, <1>3, <2>1
<1>5. CASE Works(p)
  <2>1. CASE plan'[p] = PersistPlan /\ cmd[p] \in {"sync", "labels"} /\ cmd'[p] = cmd[p]
    BY <1>0, <1>3, <2>1
  <2>2. CASE cmd[p] = "refresh" /\ cmd'[p] = cmd[p]
    BY <2>2 DEF HalfWay
  <2> QED BY <1>1, <1>2, <1>5, <2>1, <2>2, WorksMove DEF Reading, Using
<1>6. CASE Login(p)
  <2>1. cmd'[p] = cmd[p] /\ pc[p] = "login"
    BY <1>2, <1>6 DEF Login, BeginWrites
  <2>2. cmd'[p] \in {"refresh", "add"}
    BY <1>1, <2>1 DEF Placed
  <2> QED BY <2>2 DEF HalfWay
<1>7. CASE StartAdd(p) \/ StartResume(p)
  <2>1. pc'[p] # "write"
    BY <1>1, <1>7 DEF StartAdd, StartResume, Begin, ProcType
  <2> QED BY <2>1
<1>8. CASE Flag(p)
  <2>1. pc'[p] # "write"
    BY <1>1, <1>2, <1>8 DEF Flag, Proceed, ProcType
  <2> QED BY <2>1
<1>9. ~LoginFails(p) /\ ~Crash(p) /\ ~Interrupt(p)
  BY <1>2 DEF LoginFails, Crash, Interrupt
<1> QED BY <1>4, <1>5, <1>6, <1>7, <1>8, <1>9 DEF Step, Works

LEMMA NextRotation ==
  OneAtATime /\ SessionType /\ MintedInv /\ PlaceInv /\ CarryInv /\ RotationInv /\ [Next]_vars
     => RotationInv'
<1> SUFFICES ASSUME OneAtATime, SessionType, MintedInv, PlaceInv, CarryInv, RotationInv,
                    [Next]_vars
             PROVE  RotationInv'
  OBVIOUS
<1>1. Rotations'
  BY NextRotates
<1>2. \A id \in Ids : Paired(id)
  BY DEF RotationInv
<1>3. ASSUME NEW p \in Procs, Write(p)
      PROVE  RotationInv'
  <2>1. (\A id \in Ids : Paired(id)') /\ (pc'[p] = "write" => HalfWay(p)')
    BY <1>3, WriteRotates
  <2> QED BY <1>1, <2>1 DEF RotationInv, OneAtATime
<1>4. ASSUME NEW p \in Procs, Step(p), ~Write(p)
      PROVE  RotationInv'
  <2>1. \A id \in Ids : Paired(id)'
    <3>1. ASSUME NEW id \in Ids
          PROVE  Paired(id)'
      <4>1. /\ kc'[id].refresh = kc[id].refresh /\ kc'[id].access = kc[id].access
            /\ rows'[id].uid = rows[id].uid
        BY <1>4, TokensStand
      <4> QED BY <1>2, <4>1, PairedStands
    <3> QED BY <3>1
  <2>2. pc'[p] = "write" => HalfWay(p)'
    BY <1>4, FailureRotates, BeginRotates
  <2> QED BY <1>1, <2>1, <2>2 DEF RotationInv, OneAtATime
<1>5. CASE Expire \/ ChangeKeys \/ UNCHANGED vars
  <2>1. \A id \in Ids : Paired(id)'
    <3>1. ASSUME NEW id \in Ids
          PROVE  Paired(id)'
      <4>1. rows' = rows /\ kc' = kc
        BY <1>5 DEF Expire, ChangeKeys, vars
      <4> QED BY <1>2, <4>1, PairedStands
    <3> QED BY <3>1
  <2>2. ASSUME NEW p \in Procs, pc'[p] = "write"
        PROVE  HalfWay(p)'
    <3>1. /\ pc' = pc /\ cmd' = cmd /\ box' = box /\ client' = client /\ plan' = plan
          /\ kc' = kc /\ gen' = gen /\ disturbed' = disturbed
      BY <1>5 DEF Expire, ChangeKeys, vars, procs, proton
    <3>2. HalfWay(p)
      BY <2>2, <3>1 DEF RotationInv
    <3> QED BY <3>1, <3>2 DEF HalfWay, Left, Done, Slack
  <2> QED BY <1>1, <2>1, <2>2 DEF RotationInv
<1> QED BY <1>3, <1>4, <1>5 DEF Next

LEMMA InitRotation == Init => RotationInv /\ KnownInv /\ AccessMinted
<1> SUFFICES ASSUME Init
             PROVE  RotationInv /\ KnownInv /\ AccessMinted
  OBVIOUS
<1>1. /\ gen = [s \in Sessions |-> IF s = 1 /\ Added # {} THEN 1 ELSE 0]
      /\ expired = {} /\ full = {s \in Sessions : gen[s] = 1}
      /\ keys = [passphrase |-> 1, keypass |-> 1]
      /\ rows = [id \in Ids |-> IF id \in Added THEN AddedRow ELSE NoRow]
      /\ kc = [id \in Ids |-> IF id \in Added THEN AddedSecrets ELSE NoSecrets]
      /\ pc = [p \in Procs |-> "idle"] /\ seed = [p \in Procs |-> NoClient]
      /\ client = [p \in Procs |-> NoClient] /\ disturbed = 0
  BY DEF Init
<1>2. MaxGen \in Nat \ {0} /\ MaxKeys \in Nat \ {0} /\ (Added # {} => 1 \in Sessions)
  BY SessionBounds DEF Sessions
<1>3. /\ AddedSecrets.refresh = AddedSecrets.access
      /\ AddedSecrets.access = [sess |-> 1, gen |-> 1]
      /\ AddedSecrets.passphrase = 1 /\ AddedSecrets.keypass = 1
      /\ NoSecrets.refresh = NoSecrets.access /\ NoSecrets.access = NoToken
      /\ NoSecrets.passphrase = 0 /\ NoSecrets.keypass = 0
      /\ NoClient.access = NoToken /\ NoClient.passphrase = 0 /\ NoClient.keypass = 0
  BY DEF AddedSecrets, NoSecrets, NoClient
<1>4. \A s \in Sessions : gen[s] \in 0..1 /\ (Added # {} => gen[1] = 1)
  BY <1>1, <1>2
<1>5. RotationInv
  <2>1. Rotations
    BY <1>1, <1>2, <1>4 DEF Rotations
  <2>2. \A id \in Ids : kc[id].refresh = kc[id].access
    BY <1>1, <1>3
  <2>3. \A id \in Ids : Paired(id)
    BY <2>2 DEF Paired
  <2>4. \A p \in Procs : pc[p] # "write"
    BY <1>1
  <2> QED BY <2>1, <2>3, <2>4 DEF RotationInv
<1>6. KnownInv
  <2>1. keys.passphrase = 1 /\ keys.keypass = 1
    BY <1>1
  <2>2. \A id \in Ids : Known(kc[id])
    BY <1>1, <1>3, <2>1 DEF Known
  <2>3. \A p \in Procs : Known(seed[p]) /\ Known(client[p])
    BY <1>1, <1>3, <2>1 DEF Known
  <2>4. 1 <= 1 /\ 1 <= MaxKeys
    BY <1>2
  <2> QED BY <2>1, <2>2, <2>3, <2>4 DEF KnownInv
<1>7. AccessMinted
  <2>1. Minted(NoToken)
    BY DEF Minted
  <2>2. Added # {} => Minted(AddedSecrets.access)
    BY <1>2, <1>3, <1>4 DEF Minted
  <2> QED BY <1>1, <1>3, <2>1, <2>2 DEF AccessMinted
<1> QED BY <1>5, <1>6, <1>7

SoloInv ==
    /\ TokenInv /\ PlaceInv /\ CarryInv
    /\ RotationInv /\ KnownInv /\ AccessMinted

LEMMA SoloAlways == OneAtATime /\ Spec => []SoloInv
<1> SUFFICES ASSUME OneAtATime
             PROVE  Spec => []SoloInv
  OBVIOUS
<1> DEFINE Base == TokenInv /\ PlaceInv /\ CarryInv
           More == RotationInv /\ KnownInv /\ AccessMinted
<1>1. Base /\ More /\ [Next]_vars => More'
  BY NextRotation, KnownKeeps, AccessKeeps DEF TokenInv
<1>2. Base /\ More => SoloInv
  BY DEF SoloInv
<1>3. Init => More
  BY InitRotation
<1>4. Spec => []Base
  BY CarriedAlways
<1> HIDE DEF Base, More
<1> QED BY <1>1, <1>2, <1>3, <1>4, PTL DEF Spec

LEMMA TypesFollow == SoloInv => TypeOK
<1> SUFFICES ASSUME SoloInv
             PROVE  TypeOK
  OBVIOUS
<1>1. /\ ProtonType /\ StoreType /\ ProcType /\ MintedInv /\ AccessMinted /\ KnownInv
      /\ KeysOpened /\ Rotations /\ disturbed \in 0..MaxDisturbances
      /\ \A p \in Procs : Placed(p)
  BY DEF SoloInv, TokenInv, SessionType, CarryInv, PlaceInv, RotationInv
<1>2. /\ MaxGen \in Nat /\ MaxKeys \in Nat /\ MaxDisturbances \in Nat /\ MaxSessions \in Nat
  BY SessionBounds
<1>3. \A s \in Sessions : gen[s] \in Nat /\ gen[s] <= MaxGen + disturbed
  BY <1>1 DEF ProtonType, Rotations
<1>4. \A s \in Sessions : gen[s] \in Gens /\ \A g \in 1..gen[s] : g \in Gens
  BY <1>1, <1>2, <1>3 DEF Gens
<1>5. gen \in [Sessions -> Gens]
  BY <1>1, <1>4 DEF ProtonType
<1>6. ASSUME NEW t \in AnyToken, Minted(t)
      PROVE  t \in Token
  <2>1. t.gen \in Gens
    <3>1. CASE t = NoToken
      BY <1>2, <3>1 DEF NoToken, Gens
    <3>2. CASE t.sess \in Sessions /\ t.gen \in 1..gen[t.sess]
      BY <1>4, <3>2
    <3> QED BY <1>6, <3>1, <3>2 DEF Minted
  <2> QED BY <2>1 DEF AnyToken, Token, Uids
<1>7. /\ keys.passphrase \in 1..MaxKeys /\ keys.keypass \in 1..MaxKeys
      /\ keys \in [passphrase : Nat, keypass : Nat]
  BY <1>1, <1>2 DEF ProtonType, KnownInv
<1>8. keys \in [passphrase : 1..MaxKeys, keypass : 1..MaxKeys]
  BY <1>7
<1>9. rows \in [Ids -> [state : {"none", "pending_auth", "active", "needs_reauth"},
                        user : BOOLEAN, uid : 0..MaxSessions]]
  BY <1>1 DEF StoreType, States, Uids
<1>10. kc \in [Ids -> [refresh : Token, access : Token,
                       passphrase : 0..MaxKeys, keypass : 0..MaxKeys]]
  <2>1. ASSUME NEW id \in Ids
        PROVE  kc[id] \in [refresh : Token, access : Token,
                           passphrase : 0..MaxKeys, keypass : 0..MaxKeys]
    <3>1. /\ kc[id] \in Secrets /\ kc[id].refresh \in AnyToken /\ kc[id].access \in AnyToken
          /\ kc[id].passphrase \in Nat /\ kc[id].keypass \in Nat
      BY <1>1 DEF StoreType, Secrets
    <3>2. kc[id].refresh \in Token /\ kc[id].access \in Token
      BY <1>1, <1>6, <3>1 DEF MintedInv, AccessMinted
    <3>3. kc[id].passphrase <= keys.passphrase /\ kc[id].keypass <= keys.keypass
      BY <1>1 DEF KnownInv, Known
    <3>4. kc[id].passphrase \in 0..MaxKeys /\ kc[id].keypass \in 0..MaxKeys
      BY <1>2, <1>7, <3>1, <3>3
    <3> QED BY <3>1, <3>2, <3>4 DEF Secrets
  <2> QED BY <1>1, <2>1 DEF StoreType
<1>11. ASSUME NEW c \in Held, Minted(c.refresh), Minted(c.access), Known(c),
              c.unlocked <= keys.keypass
       PROVE  c \in Credentials
  <2>1. /\ c.refresh \in AnyToken /\ c.access \in AnyToken /\ c.uid \in 0..MaxSessions
        /\ c.passphrase \in Nat /\ c.keypass \in Nat /\ c.unlocked \in Nat
    BY DEF Held, Uids
  <2>2. c.refresh \in Token /\ c.access \in Token
    BY <1>6, <1>11, <2>1
  <2>3. c.passphrase <= keys.passphrase /\ c.keypass <= keys.keypass
    BY <1>11 DEF Known
  <2>4. /\ c.passphrase \in 0..MaxKeys /\ c.keypass \in 0..MaxKeys
        /\ c.unlocked \in 0..MaxKeys
    BY <1>2, <1>7, <1>11, <2>1, <2>3
  <2> QED BY <2>1, <2>2, <2>4 DEF Held, Credentials
<1>12. seed \in [Procs -> Credentials] /\ client \in [Procs -> Credentials]
  <2>1. \A p \in Procs : seed[p] \in Credentials
    BY <1>1, <1>11 DEF ProcType, MintedInv, AccessMinted, KnownInv, KeysOpened
  <2>2. \A p \in Procs : client[p] \in Credentials
    BY <1>1, <1>11 DEF ProcType, MintedInv, AccessMinted, KnownInv, KeysOpened
  <2> QED BY <1>1, <2>1, <2>2 DEF ProcType
<1>13. \A p \in Procs : plan[p] = << >> <=> pc[p] # "write"
  BY <1>1 DEF Placed, ProcType
<1>14. /\ pc \in [Procs -> Steps]
       /\ cmd \in [Procs -> Commands \union {"none", "cleanup"}]
       /\ box \in [Procs -> Ids \union {"none"}]
  BY <1>1 DEF ProcType
<1>15. expired \subseteq Sessions /\ full \subseteq Sessions
  BY <1>1 DEF Rotations
<1> QED BY <1>1, <1>5, <1>8, <1>9, <1>10, <1>12, <1>13, <1>14, <1>15 DEF TypeOK

\* With one command at a time every variable keeps its type, for any failures:
\* a session's tokens are rotated no oftener than its access tokens expire and
\* failures lose the newest, since a stored refresh token goes with an access
\* token that works until it expires (Reach, persistRotatedSession, authRefresh).
THEOREM TypesAreKept == OneAtATime /\ Spec => []TypeOK
<1> SUFFICES ASSUME OneAtATime
             PROVE  Spec => []TypeOK
  OBVIOUS
<1> QED BY SoloAlways, TypesFollow, PTL

-----------------------------------------------------------------------------
(* One session for each mailbox.                                           *)
(*                                                                         *)
(* A re-login cut short leaves tokens of two sessions.  Until a failure    *)
(* happens auth refresh asks for a login only where nothing it has will    *)
(* do; the one failure that may then cut it short leaves a mailbox that is *)
(* flagged, and that no command can resume until it is logged in again.    *)

\* No failure is left to happen.
Spent == disturbed >= MaxDisturbances

Split(id) ==
    /\ rows[id].uid # 0
    /\ \/ kc[id].refresh.sess \notin {0, rows[id].uid}
       \/ kc[id].access.sess \notin {0, rows[id].uid}

\* No call gets through, or none will once the access token has expired.
Cold(id) ==
    /\ ~Honoured(kc[id].refresh, rows[id].uid)
    /\ Honoured(kc[id].access, rows[id].uid) => rows[id].uid \in expired
\* The stored secrets open no keys.
Shut(id) ==
    /\ kc[id].keypass # keys.keypass
    /\ kc[id].passphrase # keys.passphrase \/ rows[id].uid \notin full
Barren(id) == rows[id].uid = 0 \/ Cold(id) \/ Shut(id)

\* What a re-login that was cut short leaves.
Leftover(id) ==
    /\ rows[id].state # "active" /\ Barren(id)
    /\ kc[id].refresh.sess # rows[id].uid

\* auth refresh has given the stored session up, and has not stored another yet.
Reenters(p) ==
    /\ cmd[p] = "refresh" /\ pc[p] = "write"
    /\ Left(p, WriteSecrets) /\ Done(p, WriteSecrets) <= 4
Relogs(p) == (cmd[p] = "refresh" /\ pc[p] \in {"flag", "login"}) \/ Reenters(p)

\* auth refresh is about to declare the mailbox active, on the stored session.
Confirms(p) ==
    \/ pc[p] = "heal"
    \/ /\ cmd[p] = "refresh" /\ pc[p] = "write" /\ Left(p, RefreshPlan)

SplitAt(id) ==
    /\ Split(id) => Leftover(id) \/ (Spent /\ \E p \in Procs : box[p] = id /\ Reenters(p))
    /\ \/ Spent \/ rows[id].uid = 0
       \/ kc[id].refresh # NoToken /\ kc[id].access # NoToken
       \/ \E p \in Procs : box[p] = id /\ pc[p] = "write" /\ cmd[p] = "remove"

Barred(p) ==
    LET b == box[p]
    IN  /\ cmd[p] = "add" /\ pc[p] = "write" /\ Done(p, AddPlan) <= 6 => rows[b].uid = 0
        /\ Relogs(p) => Spent \/ (Barren(b) /\ (pc[p] # "flag" => rows[b].state # "active"))
        /\ pc[p] \in {"open", "derive"} /\ Split(b) => Shut(b)
        /\ pc[p] \in {"readPassphrase", "callForSalts", "derive"} => kc[b].keypass # keys.keypass
        /\ Confirms(p) => ~Split(b)

SplitInv ==
    /\ \A id \in Ids : SplitAt(id)
    /\ \A p \in Procs : Barred(p)

\* Who could be the reason that a mailbox is as it is.
Aside(id) ==
    \/ UNCHANGED <<pc, cmd, box, plan>> \/ disturbed' # disturbed
    \/ \A p \in Procs : box[p] = id => pc[p] # "write"

-----------------------------------------------------------------------------
(* What stays as it is.                                                    *)

OneFailure == MaxDisturbances <= 1

LEMMA SpentIs ==
  ASSUME OneFailure, disturbed \in 0..MaxDisturbances, [Next]_vars
  PROVE  /\ Spent => Spent' /\ disturbed' = disturbed
         /\ disturbed' # disturbed => ~Spent /\ Spent'
         /\ disturbed >= 1 => Spent
<1>1. disturbed' = disturbed \/ (disturbed < MaxDisturbances /\ disturbed' = disturbed + 1)
  BY DisturbedGrows
<1> QED BY <1>1, SessionBounds DEF Spent, OneFailure

LEMMA ProtonMoves ==
  ASSUME SessionType, [Next]_vars
  PROVE  /\ \A s \in Sessions : gen[s] # 0 =>
              \/ gen'[s] = gen[s] /\ (s \in expired => s \in expired')
              \/ gen'[s] = gen[s] + 1
         /\ \A s \in Sessions : gen[s] # 0 /\ s \notin full => s \notin full'
         /\ \/ keys' = keys
            \/ /\ keys'.keypass = keys.keypass + 1
               /\ keys'.passphrase \in {keys.passphrase, keys.keypass + 1}
<1>1. gen \in [Sessions -> Nat] /\ \A p \in Procs : client[p] \in Held
  BY DEF SessionType, ProtonType, ProcType
<1> DEFINE Grows == \A s \in Sessions : gen[s] # 0 =>
                      \/ gen'[s] = gen[s] /\ (s \in expired => s \in expired')
                      \/ gen'[s] = gen[s] + 1
           Shrinks == \A s \in Sessions : gen[s] # 0 /\ s \notin full => s \notin full'
<1>2. CASE UNCHANGED vars
  BY <1>2 DEF vars, proton
<1>3. CASE Expire
  BY <1>3 DEF Expire
<1>4. CASE ChangeKeys
  BY <1>4 DEF ChangeKeys
<1>5. ASSUME NEW p \in Procs, Step(p)
      PROVE  keys' = keys /\ Grows /\ Shrinks
  <2>1. ASSUME NEW u, u \in Sessions, gen' = [gen EXCEPT ![u] = @ + 1],
               expired' = expired \ {u}, full' = full \ {u}
        PROVE  Grows /\ Shrinks
    BY <1>1, <2>1
  <2>2. ASSUME UNCHANGED <<gen, expired, full>>
        PROVE  Grows /\ Shrinks
    BY <2>2
  <2>3. Reach(p) => Grows /\ Shrinks
    BY <2>1, <2>2 DEF Reach, CanRotate, Honoured
  <2>4. AnswerLost(p) => Grows /\ Shrinks
    BY <2>1, <2>2 DEF AnswerLost, CanRotate, Honoured
  <2>5. CASE \/ Probe(p) \/ CallForKeys(p) \/ SyncCalls(p)
             \/ CallForKeysFails(p) \/ SyncCallFails(p) \/ Interrupt(p)
    BY <2>2, <2>3, <2>4, <2>5 DEF Probe, CallForKeys, SyncCalls, CallForKeysFails, CallFails,
         SyncCallFails, Interrupt
  <2>6. CASE Login(p)
    <3>1. /\ keys' = keys /\ expired' = expired
          /\ \E s \in Sessions : /\ gen[s] = 0 /\ gen' = [gen EXCEPT ![s] = 1]
                                 /\ full' = full \union {s}
      BY <2>6 DEF Login
    <3> QED BY <1>1, <3>1
  <2>7. CASE ~(\/ Probe(p) \/ CallForKeys(p) \/ SyncCalls(p) \/ CallForKeysFails(p)
               \/ SyncCallFails(p) \/ Interrupt(p) \/ Login(p))
    <3>1. UNCHANGED <<gen, expired, full, keys>>
      BY <1>5, <2>7 DEF Step, StartAdd, StartRemove, StartResume, Begin, ReadRefreshToken,
         ReadAccessToken, Resume, ReadKeyPass, ReadPassphrase, ReadFails,
         UnlockWithKeyPass, Unlock, StoreKeyPass, SyncEnds,
         LoginFails, Flag, Write, WriteFails, Crash, proton
    <3> QED BY <2>2, <3>1
  <2> QED BY <2>5, <2>6, <2>7
<1> QED BY <1>2, <1>3, <1>4, <1>5 DEF Next

\* What is known of a mailbox's row and secrets.
LEMMA KnownOf ==
  ASSUME SoloInv, NEW id \in Ids
  PROVE  /\ rows[id].uid \in Nat /\ rows[id].state \in States
         /\ rows[id].uid # 0 => rows[id].uid \in Sessions /\ gen[rows[id].uid] # 0
         /\ kc[id].refresh \in AnyToken /\ kc[id].access \in AnyToken
         /\ kc[id].refresh.sess \in Nat /\ kc[id].access.sess \in Nat
         /\ kc[id].passphrase \in Nat /\ kc[id].keypass \in Nat
         /\ Minted(kc[id].refresh) /\ Minted(kc[id].access)
         /\ kc[id].passphrase <= keys.passphrase /\ kc[id].keypass <= keys.keypass
         /\ keys.passphrase \in Nat /\ keys.keypass \in Nat
         /\ 1 <= keys.passphrase /\ keys.passphrase <= keys.keypass
<1>1. /\ SessionType /\ MintedInv /\ AccessMinted /\ KnownInv /\ UidsOpened
  BY DEF SoloInv, TokenInv, CarryInv
<1>2. /\ rows[id].uid \in Uids /\ rows[id].state \in States /\ kc[id] \in Secrets
      /\ keys.passphrase \in Nat /\ keys.keypass \in Nat
  BY <1>1 DEF SessionType, StoreType, ProtonType
<1>3. /\ kc[id].refresh \in AnyToken /\ kc[id].access \in AnyToken
      /\ kc[id].passphrase \in Nat /\ kc[id].keypass \in Nat
  BY <1>2 DEF Secrets
<1>4. /\ kc[id].refresh.sess \in Nat /\ kc[id].access.sess \in Nat /\ rows[id].uid \in Nat
  BY <1>2, <1>3, SessionBounds DEF AnyToken, Uids
<1> QED BY <1>1, <1>2, <1>3, <1>4 DEF MintedInv, AccessMinted, KnownInv, Known, UidsOpened

LEMMA ColdKeeps ==
  ASSUME SoloInv, [Next]_vars, NEW id \in Ids, Cold(id), kc'[id].refresh = kc[id].refresh,
         kc'[id].access = kc[id].access, rows'[id].uid = rows[id].uid
  PROVE  Cold(id)'
<1>1. PICK r, a \in AnyToken : r = kc[id].refresh /\ a = kc[id].access
  BY KnownOf
<1>2. PICK u : u = rows[id].uid
  OBVIOUS
<1>3. /\ u # 0 => u \in Sessions /\ gen[u] # 0
      /\ Minted(r) /\ Minted(a) /\ 0 \notin Sessions
  BY <1>1, <1>2, KnownOf DEF Sessions
<1>4. /\ ~(r.sess = u /\ u \in Sessions /\ r.gen = gen[u])
      /\ a.sess = u /\ u \in Sessions /\ a.gen = gen[u] => u \in expired
  BY <1>1, <1>2 DEF Cold, Honoured
<1>5. \A s \in Sessions : gen[s] \in Nat
  BY DEF SoloInv, TokenInv, SessionType, ProtonType
<1>6. u \in Sessions => \/ gen'[u] = gen[u] /\ (u \in expired => u \in expired')
                        \/ gen'[u] = gen[u] + 1
  BY <1>3, ProtonMoves DEF SoloInv, TokenInv
<1>7. ASSUME NEW t \in AnyToken, Minted(t), t.sess = u, u \in Sessions
      PROVE  t.gen <= gen[u] /\ t.gen \in Nat
  BY <1>3, <1>5, <1>7 DEF Minted, AnyToken, NoToken
<1>8. /\ ~(r.sess = u /\ u \in Sessions /\ r.gen = gen'[u])
      /\ a.sess = u /\ u \in Sessions /\ a.gen = gen'[u] => u \in expired'
  <2>1. ASSUME u \in Sessions, gen'[u] = gen[u] + 1, NEW t \in AnyToken, Minted(t), t.sess = u
        PROVE  t.gen # gen'[u]
    BY <1>5, <1>7, <2>1
  <2> QED BY <1>3, <1>4, <1>6, <2>1
<1> QED BY <1>1, <1>2, <1>8 DEF Cold, Honoured

LEMMA ShutKeeps ==
  ASSUME SoloInv, [Next]_vars, NEW id \in Ids, Shut(id), rows[id].uid # 0,
         kc'[id].passphrase = kc[id].passphrase, kc'[id].keypass = kc[id].keypass,
         rows'[id].uid = rows[id].uid
  PROVE  Shut(id)'
<1>1. /\ kc[id].keypass # keys.keypass
      /\ kc[id].passphrase # keys.passphrase \/ rows[id].uid \notin full
  BY DEF Shut
<1>2. rows[id].uid \notin full => rows[id].uid \notin full'
  BY KnownOf, ProtonMoves DEF SoloInv, TokenInv
<1>3. \/ keys' = keys
      \/ /\ keys'.keypass = keys.keypass + 1
         /\ keys'.passphrase \in {keys.passphrase, keys.keypass + 1}
  BY ProtonMoves DEF SoloInv, TokenInv
<1>4. kc[id].keypass # keys'.keypass
  BY <1>1, <1>3, KnownOf
<1>5. kc[id].passphrase # keys.passphrase => kc[id].passphrase # keys'.passphrase
  BY <1>3, KnownOf
<1> QED BY <1>1, <1>2, <1>4, <1>5 DEF Shut

LEMMA BarrenKeeps ==
  ASSUME SoloInv, [Next]_vars, NEW id \in Ids, Barren(id), rows'[id].uid = rows[id].uid,
         \A k \in Kinds : kc'[id][k] = kc[id][k]
  PROVE  Barren(id)'
<1>1. /\ kc'[id].refresh = kc[id].refresh /\ kc'[id].access = kc[id].access
      /\ kc'[id].passphrase = kc[id].passphrase /\ kc'[id].keypass = kc[id].keypass
  BY DEF Kinds
<1> QED BY <1>1, ColdKeeps, ShutKeeps DEF Barren

LEMMA SplitKeeps ==
  ASSUME OneFailure, SoloInv, [Next]_vars, NEW id \in Ids, SplitAt(id), Aside(id),
         Split(id) => kc'[id] = kc[id],
         kc'[id].refresh = kc[id].refresh, kc'[id].access = kc[id].access,
         rows'[id].uid = rows[id].uid,
         rows'[id].state \in {rows[id].state, "needs_reauth"}
  PROVE  SplitAt(id)' /\ (Split(id)' <=> Split(id))
<1>1. disturbed \in 0..MaxDisturbances
  BY DEF SoloInv, PlaceInv
<1>2. Split(id)' <=> Split(id)
  BY DEF Split
<1>3. Leftover(id) /\ Split(id) => Leftover(id)'
  <2>1. ASSUME Leftover(id), Split(id)
        PROVE  Barren(id)'
    BY <2>1, BarrenKeeps DEF Leftover
  <2> QED BY <2>1 DEF Leftover
<1>4. ASSUME Split(id)
      PROVE  Leftover(id)' \/ (Spent' /\ \E p \in Procs : (box[p] = id /\ Reenters(p))')
  <2>1. CASE Leftover(id)
    BY <1>3, <1>4, <2>1
  <2>2. CASE Spent /\ \E p \in Procs : box[p] = id /\ Reenters(p)
    <3>1. PICK p \in Procs : box[p] = id /\ Reenters(p)
      BY <2>2
    <3>2. Spent' /\ disturbed' = disturbed /\ pc[p] = "write"
      BY <1>1, <2>2, <3>1, SpentIs DEF Reenters
    <3>3. UNCHANGED <<pc, cmd, box, plan>>
      BY <3>1, <3>2 DEF Aside
    <3>4. box'[p] = id /\ Reenters(p)'
      BY <3>1, <3>3 DEF Reenters, Left, Done
    <3> QED BY <3>2, <3>4
  <2> QED BY <1>4, <2>1, <2>2 DEF SplitAt
<1>5. \/ Spent' \/ rows'[id].uid = 0
      \/ kc'[id].refresh # NoToken /\ kc'[id].access # NoToken
      \/ \E p \in Procs : box'[p] = id /\ pc'[p] = "write" /\ cmd'[p] = "remove"
  <2>1. CASE Spent
    BY <1>1, <2>1, SpentIs
  <2>2. CASE \E p \in Procs : box[p] = id /\ pc[p] = "write" /\ cmd[p] = "remove"
    BY <1>1, <2>2, SpentIs DEF Aside
  <2> QED BY <2>1, <2>2 DEF SplitAt
<1> QED BY <1>2, <1>4, <1>5 DEF SplitAt

-----------------------------------------------------------------------------
(* The steps that write nothing.                                           *)

LEMMA OutsideSplits ==
  ASSUME OneFailure, SoloInv, SplitInv, [Next]_vars, Expire \/ ChangeKeys \/ UNCHANGED vars
  PROVE  SplitInv'
<1>1. UNCHANGED <<rows, kc, pc, cmd, box, seed, client, plan, disturbed>>
  BY DEF Expire, ChangeKeys, vars, procs
<1>2. \A id \in Ids : SplitAt(id)' /\ (Split(id)' <=> Split(id))
  <2>1. \A id \in Ids : SplitAt(id) /\ Aside(id) /\ kc'[id] = kc[id] /\ rows'[id] = rows[id]
    BY <1>1 DEF SplitInv, Aside
  <2> QED BY <2>1, SplitKeeps
<1>3. ASSUME NEW p \in Procs, pc[p] # "idle"
      PROVE  Barred(p)'
  <2> DEFINE b == box[p]
  <2>1. b \in Ids /\ box'[p] = b
    BY <1>1, <1>3 DEF SoloInv, TokenInv, SessionType, ProcType
  <2>2. Barred(p) /\ rows'[b] = rows[b] /\ kc'[b] = kc[b]
    BY <1>1 DEF SplitInv
  <2>3. Relogs(p)' <=> Relogs(p)
    BY <1>1 DEF Relogs, Reenters, Left, Done
  <2>4. Confirms(p)' <=> Confirms(p)
    BY <1>1 DEF Confirms, Left
  <2>5. Done(p, AddPlan)' = Done(p, AddPlan) /\ (Spent' <=> Spent)
    BY <1>1 DEF Done, Spent
  <2>6. Barren(b) => Barren(b)'
    BY <2>1, <2>2, BarrenKeeps
  <2>7. Split(b)' <=> Split(b)
    BY <1>2, <2>1
  <2>8. Split(b) /\ Shut(b) => Shut(b)'
    BY <2>1, <2>2, ShutKeeps DEF Split
  <2>9. kc[b].keypass # keys.keypass => kc'[b].keypass # keys'.keypass
    <3>1. keys' = keys \/ keys'.keypass = keys.keypass + 1
      BY ProtonMoves DEF SoloInv, TokenInv
    <3> QED BY <2>1, <2>2, <3>1, KnownOf
  <2> HIDE DEF b
  <2>10. /\ cmd'[p] = cmd[p] /\ pc'[p] = pc[p]
    BY <1>1
  <2> QED BY <2>1, <2>2, <2>3, <2>4, <2>5, <2>6, <2>7, <2>8, <2>9, <2>10 DEF Barred, b
<1>4. ASSUME NEW p \in Procs, pc[p] = "idle"
      PROVE  Barred(p)'
  BY <1>1, <1>4 DEF Barred, Relogs, Reenters, Confirms
<1> QED BY <1>2, <1>3, <1>4 DEF SplitInv

\* What a command that uses a session knows of the mailbox.
LEMMA UsesAs ==
  ASSUME SoloInv, NEW p \in Procs, pc[p] \in Using
  PROVE  /\ box[p] \in Ids /\ Carries(p)
         /\ seed[p].uid = rows[box[p]].uid /\ client[p].uid = rows[box[p]].uid
         /\ seed[p].refresh = kc[box[p]].refresh /\ seed[p].access = kc[box[p]].access
<1>1. Carried(p) /\ (pc[p] # "idle" => box[p] \in Ids)
  BY DEF SoloInv, CarryInv, TokenInv, SessionType, ProcType
<1> QED BY <1>1 DEF Carried, Carries, Using

LEMMA OnlyLeftovers ==
  ASSUME OneAtATime, SplitInv, NEW p \in Procs, ~Reenters(p), NEW id \in Ids, Split(id)
  PROVE  Leftover(id)
BY DEF OneAtATime, SplitInv, SplitAt

LEMMA ReachTells ==
  ASSUME OneAtATime, SoloInv, SplitInv, NEW p \in Procs, pc[p] \in Using, Reach(p),
         Split(box[p])
  PROVE  Shut(box[p])
<1> DEFINE b == box[p]
<1>1. /\ b \in Ids /\ Carries(p) /\ seed[p].uid = rows[b].uid /\ client[p].uid = rows[b].uid
      /\ seed[p].refresh = kc[b].refresh /\ seed[p].access = kc[b].access
  BY UsesAs
<1>2. Leftover(b) /\ rows[b].uid # 0
  <2>1. ~Reenters(p)
    BY DEF Reenters, Using
  <2> QED BY <1>1, <2>1, OnlyLeftovers DEF Split
<1>3. Authorized(p) \/ CanRotate(p)
  BY DEF Reach
<1>4. client[p].refresh = kc[b].refresh /\ client[p].access = kc[b].access
  BY <1>1, <1>2 DEF Carries, Leftover
<1>5. ~Cold(b)
  BY <1>1, <1>3, <1>4 DEF Cold, Authorized, CanRotate
<1> QED BY <1>2, <1>5 DEF Leftover, Barren

LEMMA GivesUp ==
  ASSUME OneAtATime, OneFailure, SoloInv, SplitInv, [Next]_vars, NEW p \in Procs,
         Works(p), pc'[p] = "flag", cmd[p] = "refresh"
  PROVE  Spent' \/ Barren(box[p])
<1> DEFINE b == box[p]
<1>1. /\ disturbed \in 0..MaxDisturbances /\ ProcType /\ SessionType /\ Placed(p) /\ Carried(p)
      /\ Barred(p) /\ DOMAIN pc = Procs
  BY Domains DEF SoloInv, TokenInv, SessionType, PlaceInv, CarryInv, SplitInv
<1>2. b \in Ids /\ pc[p] \in Reading \union Using
  <2>1. pc[p] \in Reading \union Using
    BY <1>1, WorksMove
  <2> QED BY <1>1, <2>1 DEF ProcType, Reading, Using
<1>3. ASSUME NEW kind, Disturb(kind)
      PROVE  Spent'
  <2>1. disturbed' # disturbed
    BY <1>1, <1>3, SessionBounds DEF Disturb
  <2> QED BY <1>1, <2>1, SpentIs
<1>4. SplitAt(b) /\ (pc[p] # "write" => ~\E q \in Procs : pc[q] = "write")
  BY <1>2 DEF SplitInv, OneAtATime
<1>5. seed[p].uid = rows[b].uid
  BY <1>1, <1>2 DEF Carried
<1>6. Spent \/ rows[b].uid = 0 \/ (kc[b].refresh # NoToken /\ kc[b].access # NoToken)
  BY <1>2, <1>4 DEF SplitAt, Reading, Using
<1>7. Spent => Spent'
  BY <1>1, SpentIs
<1>8. CASE ReadRefreshToken(p)
  <2>1. kc[b].refresh = NoToken \/ seed[p].uid = 0
    BY <1>1, <1>8 DEF ReadRefreshToken, Read
  <2> QED BY <1>5, <1>6, <1>7, <2>1 DEF Barren
<1>9. CASE ReadAccessToken(p)
  <2>1. kc[b].access = NoToken
    BY <1>1, <1>9 DEF ReadAccessToken, Read
  <2> QED BY <1>5, <1>6, <1>7, <2>1 DEF Barren
<1>10. CASE ReadPassphrase(p)
  <2>1. kc[b].passphrase = 0 /\ pc[p] = "readPassphrase"
    BY <1>1, <1>10 DEF ReadPassphrase, Read
  <2>2. kc[b].keypass # keys.keypass /\ 1 <= keys.passphrase
    BY <1>1, <1>2, <2>1, KnownOf DEF Barred
  <2> QED BY <2>1, <2>2 DEF Barren, Shut
<1>11. CASE ReadFails(p)
  BY <1>3, <1>11 DEF ReadFails
<1>12. CASE CallForKeysFails(p)
  <2>1. pc[p] \in Using /\ CallFails(p)
    BY <1>12 DEF CallForKeysFails, Using
  <2>2. /\ Carries(p) /\ client[p].uid = rows[b].uid
        /\ seed[p].refresh = kc[b].refresh /\ seed[p].access = kc[b].access
    BY <2>1, UsesAs
  <2>3. CASE ~Authorized(p) /\ ~CanRotate(p)
    <3>1. ~Honoured(client[p].refresh, rows[b].uid)
      BY <2>2, <2>3 DEF CanRotate
    <3>2. Honoured(client[p].access, rows[b].uid) => rows[b].uid \in expired
      BY <2>2, <2>3 DEF Authorized
    <3>3. CASE client[p].refresh = kc[b].refresh /\ client[p].access = kc[b].access
      BY <3>1, <3>2, <3>3 DEF Cold, Barren
    <3>4. CASE client[p].refresh = client[p].access /\ Honoured(client[p].access, client[p].uid)
      BY <2>2, <3>1, <3>4
    <3> QED BY <2>2, <3>3, <3>4 DEF Carries
  <2> QED BY <1>3, <2>1, <2>3 DEF CallFails
<1>13. CASE Unlock(p)
  <2>1. pc[p] = "derive" /\ ~(client[p].uid \in full /\ seed[p].passphrase = keys.passphrase)
    BY <1>1, <1>13 DEF Unlock
  <2>2. client[p].uid = rows[b].uid /\ seed[p].passphrase = kc[b].passphrase
    BY <1>1, <2>1, UsesAs DEF Carried, Using, WithPassphrase
  <2>3. kc[b].keypass # keys.keypass
    BY <1>1, <2>1 DEF Barred
  <2> QED BY <2>1, <2>2, <2>3 DEF Shut, Barren
<1>14. CASE \/ Resume(p) \/ ReadKeyPass(p) \/ Probe(p) \/ CallForKeys(p)
            \/ UnlockWithKeyPass(p) \/ StoreKeyPass(p) \/ SyncCalls(p) \/ SyncCallFails(p)
            \/ SyncEnds(p)
  <2>1. pc[p] # "flag"
    BY <1>2 DEF Reading, Using
  <2> QED BY <1>1, <1>14, <2>1 DEF Resume, ReadKeyPass, Read, Probe, AfterProbe, CallForKeys,
         UnlockWithKeyPass, StoreKeyPass, SyncCalls, SyncCallFails, SyncEnds, Proceed,
         AfterUnlock, BeginWrites, procs
<1> QED BY <1>8, <1>9, <1>10, <1>11, <1>12, <1>13, <1>14 DEF Works

LEMMA NotReentering ==
  ASSUME NEW p \in Procs, plan'[p] = RefreshPlan
  PROVE  ~Reenters(p)'
<1> SUFFICES ASSUME Left(p, WriteSecrets)'
             PROVE  FALSE
  BY DEF Reenters
<1>1. Len(plan'[p]) = 4 /\ plan'[p][1] = <<"rotate", "access">>
  BY RefreshPlanIs
<1>2. plan'[p][1] = WriteSecrets[(6 - 4) + 1]
  BY <1>1, WriteSecretsIs DEF Left
<1>3. WriteSecrets[3] = <<"set", "passphrase">>
  BY WriteSecretsIs
<1> QED BY <1>1, <1>2, <1>3

LEMMA WorksSplit ==
  ASSUME OneAtATime, OneFailure, SoloInv, SplitInv, [Next]_vars, NEW p \in Procs, Step(p),
         Works(p)
  PROVE  SplitInv'
<1>0. PICK b : b = box[p]
  OBVIOUS
<1>1. /\ disturbed \in 0..MaxDisturbances /\ ProcType /\ SessionType /\ Placed(p) /\ Carried(p)
      /\ Barred(p) /\ DOMAIN pc = Procs /\ \A q \in Procs : q = p /\ b = box[p]
  BY <1>0, Domains DEF SoloInv, TokenInv, SessionType, PlaceInv, CarryInv, SplitInv, OneAtATime
<1>2. b \in Ids /\ pc[p] \in Reading \union Using /\ rows' = rows /\ pc[p] # "write"
  <2>1. pc[p] \in Reading \union Using /\ rows' = rows
    BY <1>1, WorksMove
  <2> QED BY <1>1, <2>1 DEF ProcType, Reading, Using
<1>3. \/ kc' = kc
      \/ StoreKeyPass(p) /\ pc[p] = "heal" /\ \A id \in Ids \ {b} : kc'[id] = kc[id]
  <2>1. CASE StoreKeyPass(p)
    <3>1. pc[p] = "heal" /\ (kc' = kc \/ kc' = [kc EXCEPT ![b].keypass = client[p].keypass])
      BY <1>0, <2>1 DEF StoreKeyPass
    <3> QED BY <1>1, <2>1, <3>1 DEF SessionType, StoreType
  <2>2. CASE ~StoreKeyPass(p)
    BY <2>2 DEF Works, ReadRefreshToken, ReadAccessToken, Resume, ReadKeyPass, ReadPassphrase,
       ReadFails, Probe, CallForKeys, CallForKeysFails, UnlockWithKeyPass, Unlock, SyncCalls,
       SyncCallFails, SyncEnds
  <2> QED BY <2>1, <2>2
<1>4. \A id \in Ids : SplitAt(id)' /\ (Split(id)' <=> Split(id))
  <2>1. ASSUME NEW id \in Ids
        PROVE  SplitAt(id)' /\ (Split(id)' <=> Split(id))
    <3>1. SplitAt(id) /\ Aside(id)
      BY <1>1, <1>2 DEF SplitInv, Aside
    <3>2. Split(id) => kc'[id] = kc[id]
      BY <1>1, <1>3 DEF Barred, Confirms
    <3>3. ~Write(p)
      BY <1>2 DEF Write
    <3>4. kc'[id].refresh = kc[id].refresh /\ kc'[id].access = kc[id].access
      BY <1>1, <3>3, TokensStand
    <3> QED BY <1>2, <3>1, <3>2, <3>4, SplitKeeps
  <2> QED BY <2>1
<1>5. \/ pc'[p] = "idle" /\ cmd'[p] = "none"
      \/ /\ cmd'[p] = cmd[p] /\ box'[p] = b /\ cmd[p] \in {"sync", "labels", "refresh"}
         /\ pc'[p] = "write" => \/ cmd[p] = "refresh" /\ plan'[p] = RefreshPlan
                                \/ cmd[p] # "refresh"
         /\ pc'[p] # "login"
  <2>1. cmd[p] \in {"sync", "labels", "refresh"}
    BY <1>1, <1>2 DEF Placed
  <2>2. CASE EndCommand(p)
    BY <1>1, <2>2, EndIs
  <2>3. CASE ~EndCommand(p)
    BY <1>1, <2>1, <2>3, WorksMove DEF Reading, Using
  <2> QED BY <2>2, <2>3
<1>6. ASSUME pc'[p] = "flag", cmd[p] = "refresh"
      PROVE  Spent' \/ Barren(b)'
  <2>1. Spent' \/ Barren(b)
    BY <1>0, <1>6, GivesUp
  <2>2. kc' = kc
    <3>1. StoreKeyPass(p) => pc'[p] # "flag"
      BY <1>1 DEF StoreKeyPass, AfterUnlock, BeginWrites
    <3> QED BY <1>3, <1>6, <3>1
  <2> QED BY <1>2, <2>1, <2>2, BarrenKeeps
<1>7. ASSUME pc'[p] \in {"open", "derive"}, Split(b)
      PROVE  Shut(b)'
  <2>1. CallForKeys(p)
    BY <1>1, <1>7 DEF Works, ReadRefreshToken, ReadAccessToken, Resume, ReadKeyPass, ReadPassphrase,
       ReadFails, Probe, CallForKeysFails, UnlockWithKeyPass, Unlock, StoreKeyPass, SyncCalls,
       SyncCallFails,
       SyncEnds, GiveUp, AfterRefusal, Read, Proceed, EndCommand, AfterProbe, AfterUnlock,
       BeginWrites, Using, procs
  <2>2. pc[p] \in Using /\ Reach(p) /\ kc' = kc
    BY <2>1 DEF CallForKeys, Using
  <2>3. Shut(b) /\ rows[b].uid # 0
    BY <1>0, <1>7, <2>2, ReachTells DEF Split
  <2> QED BY <1>2, <2>2, <2>3, ShutKeeps
<1>8. ASSUME pc'[p] \in {"readPassphrase", "callForSalts", "derive"}
      PROVE  kc'[b].keypass # keys'.keypass
  <2>1. ReadKeyPass(p) \/ ReadPassphrase(p) \/ CallForKeys(p) \/ UnlockWithKeyPass(p)
    BY <1>1, <1>8 DEF Works, ReadRefreshToken, ReadAccessToken, Resume,
       ReadFails, Probe, CallForKeysFails, Unlock, StoreKeyPass, SyncCalls, SyncCallFails,
       SyncEnds, GiveUp, AfterRefusal, Read, Proceed, EndCommand, AfterProbe, AfterUnlock,
       BeginWrites, Using, procs
  <2>2. kc' = kc /\ keys' = keys
    BY <2>1 DEF ReadKeyPass, ReadPassphrase, CallForKeys, UnlockWithKeyPass, proton
  <2>3. kc[b].keypass # keys.keypass
    <3>1. CASE ReadKeyPass(p)
      <4>1. kc[b].keypass = 0
        BY <1>1, <1>8, <3>1 DEF ReadKeyPass, Read
      <4>2. 1 <= keys.passphrase /\ keys.passphrase <= keys.keypass /\ keys.passphrase \in Nat
            /\ keys.keypass \in Nat
        BY <1>2, KnownOf
      <4> QED BY <4>1, <4>2
    <3>2. CASE ReadPassphrase(p)
      BY <1>1, <3>2 DEF ReadPassphrase, Barred
    <3>3. CASE CallForKeys(p)
      <4>1. pc[p] = "callForSalts"
        BY <1>1, <1>8, <3>3 DEF CallForKeys
      <4> QED BY <1>1, <4>1 DEF Barred
    <3>4. CASE UnlockWithKeyPass(p)
      <4>1. pc[p] = "open" /\ seed[p].keypass # keys.keypass
        BY <1>1, <1>8, <3>4 DEF UnlockWithKeyPass, AfterUnlock, BeginWrites
      <4> QED BY <1>1, <4>1 DEF Carried, WithKeyPass
    <3> QED BY <2>1, <3>1, <3>2, <3>3, <3>4
  <2> QED BY <2>2, <2>3
<1>9. ASSUME pc'[p] = "heal" \/ (pc'[p] = "write" /\ cmd[p] = "refresh")
      PROVE  ~Split(b)
  <2>1. Unlock(p) \/ UnlockWithKeyPass(p) \/ StoreKeyPass(p)
    <3>1. GiveUp(p) \/ EndCommand(p) => pc'[p] \in {"idle", "flag"}
      BY <1>1 DEF GiveUp, AfterRefusal, Proceed, EndCommand
    <3>2. ASSUME NEW kind, NEW step, step \notin {"heal", "write"}, Read(p, kind, step)
          PROVE  pc'[p] \notin {"heal", "write"}
      BY <1>1, <3>2 DEF Read
    <3>3. /\ ~ReadRefreshToken(p) /\ ~ReadAccessToken(p) /\ ~ReadPassphrase(p)
          /\ ~ReadFails(p) /\ ~CallForKeysFails(p)
      BY <1>9, <3>1, <3>2 DEF ReadRefreshToken, ReadAccessToken, ReadPassphrase,
         ReadFails, CallForKeysFails
    <3>4. ~ReadKeyPass(p)
      BY <1>9, <3>2 DEF ReadKeyPass
    <3>5. ~Resume(p) /\ ~CallForKeys(p)
      BY <1>1, <1>9 DEF Resume, CallForKeys
    <3>6. ~SyncCalls(p) /\ ~SyncCallFails(p) /\ ~SyncEnds(p)
      <4>1. pc[p] = "sync" => cmd[p] = "sync"
        BY <1>1 DEF Placed
      <4> QED BY <1>1, <1>9, <4>1 DEF SyncCalls, SyncCallFails, SyncEnds, BeginWrites, procs
    <3>7. ~Probe(p)
      BY <1>1, <1>9 DEF Probe, AfterProbe
    <3> QED BY <3>3, <3>4, <3>5, <3>6, <3>7 DEF Works
  <2>2. CASE Unlock(p)
    <3>1. /\ pc[p] = "derive" /\ client[p].uid \in full
          /\ seed[p].passphrase = keys.passphrase
      BY <1>1, <1>9, <2>2 DEF Unlock, GiveUp, AfterRefusal, Proceed, EndCommand
    <3>2. client[p].uid = rows[b].uid /\ seed[p].passphrase = kc[b].passphrase
      BY <1>1, <3>1, UsesAs DEF Carried, Using, WithPassphrase
    <3> QED BY <1>1, <3>1, <3>2 DEF Barred, Shut
  <2>3. CASE UnlockWithKeyPass(p)
    <3>1. pc[p] = "open" /\ seed[p].keypass = keys.keypass
      BY <1>1, <1>9, <2>3 DEF UnlockWithKeyPass, Proceed
    <3>2. kc[b].keypass = keys.keypass
      BY <1>1, <3>1 DEF Carried, WithKeyPass
    <3> QED BY <1>1, <3>1, <3>2 DEF Barred, Shut
  <2>4. CASE StoreKeyPass(p)
    BY <1>1, <2>4 DEF StoreKeyPass, Barred, Confirms
  <2> QED BY <2>1, <2>2, <2>3, <2>4
<1>10. Barred(p)'
  <2>1. CASE pc'[p] = "idle"
    BY <2>1 DEF Barred, Relogs, Reenters, Confirms
  <2>2. CASE pc'[p] # "idle"
    <3>1. /\ cmd'[p] = cmd[p] /\ box'[p] = b /\ cmd[p] # "add"
          /\ pc'[p] = "write" /\ cmd[p] = "refresh" => plan'[p] = RefreshPlan
          /\ pc'[p] # "login"
      BY <1>5, <2>2
    <3>2. Relogs(p)' => pc'[p] = "flag" /\ cmd[p] = "refresh"
      BY <3>1, NotReentering DEF Relogs, Reenters
    <3>3. Confirms(p)' => ~Split(b)
      BY <1>9, <3>1 DEF Confirms
    <3>4. Split(b)' <=> Split(b)
      BY <1>2, <1>4
    <3> QED BY <1>6, <1>7, <1>8, <3>4, <3>1, <3>2, <3>3, <3>4 DEF Barred
  <2> QED BY <1>5, <2>1, <2>2
<1> QED BY <1>1, <1>4, <1>10 DEF SplitInv

LEMMA StartSplits ==
  ASSUME OneAtATime, OneFailure, SoloInv, SplitInv, [Next]_vars, NEW p \in Procs,
         StartAdd(p) \/ StartRemove(p) \/ StartResume(p)
  PROVE  SplitInv'
<1>1. DOMAIN pc = Procs /\ DOMAIN cmd = Procs /\ \A q \in Procs : q = p
  BY Domains DEF SoloInv, TokenInv, SessionType, ProcType, OneAtATime
<1>2. rows' = rows /\ kc' = kc /\ pc[p] = "idle"
  BY DEF StartAdd, StartRemove, StartResume, Begin
<1>3. ASSUME NEW id \in Ids
      PROVE  SplitAt(id)'
  <2>1. SplitAt(id) /\ Aside(id)
    BY <1>1, <1>2 DEF SplitInv, Aside
  <2> QED BY <1>2, <2>1, SplitKeeps
<1>4. \/ cmd'[p] = "add" /\ pc'[p] = "login"
      \/ cmd'[p] = "remove" /\ pc'[p] = "write"
      \/ cmd'[p] \in {"sync", "labels", "refresh"} /\ pc'[p] = "readRefresh"
      \/ cmd'[p] = "sync" /\ pc'[p] = "flag"
  <2>1. StartAdd(p) => cmd'[p] = "add" /\ pc'[p] = "login"
    BY <1>1 DEF StartAdd, Begin
  <2>2. StartRemove(p) => cmd'[p] = "remove" /\ pc'[p] = "write"
    BY <1>1 DEF StartRemove, Begin
  <2>3. ASSUME NEW c, NEW id, NEW step, Begin(p, c, id, step)
        PROVE  cmd'[p] = c /\ pc'[p] = step
    BY <1>1, <2>3 DEF Begin
  <2>4. ASSUME StartResume(p)
        PROVE  \E c \in {"sync", "labels", "refresh"} : cmd'[p] = c /\
                   (pc'[p] = "readRefresh" \/ (pc'[p] = "flag" /\ c = "sync"))
    <3>1. PICK id \in Ids, c \in {"sync", "labels", "refresh"} :
              /\ rows[id].user \/ c = "sync"
              /\ Begin(p, c, id, IF rows[id].user THEN "readRefresh" ELSE "flag")
      BY <2>4 DEF StartResume
    <3> QED BY <2>3, <3>1
  <2> QED BY <2>1, <2>2, <2>4
<1>5. Barred(p)'
  BY <1>4 DEF Barred, Relogs, Reenters, Confirms
<1> QED BY <1>1, <1>3, <1>5 DEF SplitInv

LEMMA FlagSplits ==
  ASSUME OneAtATime, OneFailure, SoloInv, SplitInv, [Next]_vars, NEW p \in Procs, Flag(p)
  PROVE  SplitInv'
<1>1. PICK b : b = box[p]
  OBVIOUS
<1>2. /\ disturbed \in 0..MaxDisturbances /\ ProcType /\ SessionType /\ Placed(p) /\ RowsWhole
      /\ Barred(p) /\ DOMAIN pc = Procs /\ \A q \in Procs : q = p
  BY Domains DEF SoloInv, TokenInv, SessionType, PlaceInv, SplitInv, OneAtATime
<1>3. pc[p] = "flag" /\ kc' = kc /\ b \in Ids
  BY <1>1, <1>2 DEF Flag, ProcType
<1>4. HasRow(b) /\ rows[b] # NoRow
  BY <1>1, <1>2, <1>3, RowsAre DEF Placed
<1>5. \/ rows' = [rows EXCEPT ![b].state = "needs_reauth"]
      \/ rows' = rows /\ disturbed' # disturbed
  <2>1. ASSUME NEW kind, Disturb(kind)
        PROVE  disturbed' # disturbed
    BY <1>2, <2>1, SessionBounds DEF Disturb
  <2> QED BY <1>1, <1>4, <2>1 DEF Flag
<1>6. /\ \A id \in Ids : /\ rows'[id].uid = rows[id].uid
                         /\ rows'[id].state \in {rows[id].state, "needs_reauth"}
      /\ disturbed' # disturbed \/ rows'[b].state # "active"
  BY <1>2, <1>3, <1>5 DEF SessionType, StoreType
<1>7. ASSUME NEW id \in Ids
      PROVE  SplitAt(id)'
  <2>1. SplitAt(id) /\ Aside(id)
    BY <1>2, <1>3 DEF SplitInv, Aside
  <2> QED BY <1>3, <1>6, <2>1, SplitKeeps
<1>8. Barred(p)'
  <2>1. CASE cmd[p] = "refresh"
    <3>1. pc'[p] = "login" /\ cmd'[p] = "refresh" /\ box'[p] = b
      BY <1>1, <1>2, <2>1 DEF Flag, Proceed
    <3>2. Spent \/ Barren(b)
      BY <1>1, <1>2, <1>3, <2>1 DEF Barred, Relogs
    <3>3. Spent' \/ (Barren(b)' /\ rows'[b].state # "active")
      <4>1. Barren(b) => Barren(b)'
        BY <1>3, <1>6, BarrenKeeps
      <4> QED BY <1>2, <1>6, <3>2, <4>1, SpentIs
    <3> QED BY <3>1, <3>3 DEF Barred, Confirms
  <2>2. CASE cmd[p] # "refresh"
    <3>1. pc'[p] = "idle"
      BY <1>2, <2>2 DEF Flag, EndCommand
    <3> QED BY <3>1 DEF Barred, Relogs, Reenters, Confirms
  <2> QED BY <2>1, <2>2
<1> QED BY <1>2, <1>7, <1>8 DEF SplitInv

LEMMA LoginSplits ==
  ASSUME OneAtATime, OneFailure, SoloInv, SplitInv, [Next]_vars, NEW p \in Procs, Login(p)
  PROVE  SplitInv'
<1>1. PICK b : b = box[p]
  OBVIOUS
<1>2. /\ disturbed \in 0..MaxDisturbances /\ ProcType /\ SessionType /\ Placed(p)
      /\ Barred(p) /\ DOMAIN pc = Procs /\ DOMAIN plan = Procs /\ \A q \in Procs : q = p
  BY Domains DEF SoloInv, TokenInv, SessionType, PlaceInv, SplitInv, OneAtATime
<1>3. pc[p] = "login" /\ kc' = kc /\ rows' = rows /\ b \in Ids
  BY <1>1, <1>2 DEF Login, ProcType
<1>4. ASSUME NEW id \in Ids
      PROVE  SplitAt(id)'
  <2>1. SplitAt(id) /\ Aside(id)
    BY <1>2, <1>3 DEF SplitInv, Aside
  <2> QED BY <1>3, <2>1, SplitKeeps
<1>5. \/ pc'[p] = "idle"
      \/ /\ pc'[p] = "write" /\ cmd'[p] = cmd[p] /\ box'[p] = b
         /\ plan'[p] = IF cmd[p] = "add" THEN AddPlan ELSE WriteSecrets
  BY <1>1, <1>2 DEF Login, EndCommand, BeginWrites
<1>6. Barred(p)'
  <2>1. CASE pc'[p] = "idle"
    BY <2>1 DEF Barred, Relogs, Reenters, Confirms
  <2>2. CASE pc'[p] # "idle" /\ cmd[p] = "add"
    <3>1. rows[b] = NoRow
      BY <1>1, <1>2, <1>3, <2>2 DEF Placed
    <3>2. rows'[b].uid = 0
      BY <1>3, <3>1 DEF NoRow
    <3> QED BY <1>5, <2>2, <3>2 DEF Barred, Relogs, Reenters, Confirms
  <2>3. CASE pc'[p] # "idle" /\ cmd[p] # "add"
    <3>1. /\ cmd[p] = "refresh" /\ pc'[p] = "write" /\ cmd'[p] = "refresh" /\ box'[p] = b
          /\ plan'[p] = WriteSecrets
      BY <1>2, <1>3, <1>5, <2>3 DEF Placed
    <3>2. Spent' \/ (Barren(b)' /\ rows'[b].state # "active")
      <4>1. Spent \/ (Barren(b) /\ rows[b].state # "active")
        BY <1>1, <1>2, <1>3, <3>1 DEF Barred, Relogs
      <4>2. Barren(b) => Barren(b)'
        BY <1>3, BarrenKeeps
      <4> QED BY <1>2, <1>3, <4>1, <4>2, SpentIs
    <3>3. ~Confirms(p)'
      BY <3>1, WriteSecretsIs, RefreshPlanIs DEF Confirms, Left
    <3> QED BY <3>1, <3>2, <3>3 DEF Barred
  <2> QED BY <2>1, <2>2, <2>3
<1> QED BY <1>2, <1>4, <1>6 DEF SplitInv

-----------------------------------------------------------------------------
(* What is cut short.                                                      *)

LEMMA NeverRefused ==
  ASSUME OneAtATime, SoloInv, NEW p \in Procs, pc[p] = "write"
  PROVE  ~Refused(p, Head(plan[p]))
<1>1. /\ SessionType /\ RowsWhole /\ Placed(p)
  BY DEF SoloInv, TokenInv, PlaceInv
<1>2. PICK op : op = Head(plan[p])
  OBVIOUS
<1>3. op \in Ops /\ plan[p] \in Seq(Ops) /\ box[p] \in Ids
  BY <1>1, <1>2, OpIs
<1>4. HasRow(box[p]) => rows[box[p]] # NoRow
  BY <1>1, <1>3, RowsAre
<1>5. CASE cmd[p] = "add" /\ AddsRow(p)
  <2>1. ~AccountTaken(box[p])
    BY <1>5 DEF AddsRow, AccountTaken, NoRow
  <2>2. PICK m \in 0..7 : m - 2 = Done(p, AddPlan) - 2 /\ op = AddPlan[m + 1]
    BY <1>1, <1>2, <1>5, AddAt DEF AddsRow
  <2>3. CASE m = 0
    <3>1. op = <<"row", "insert">>
      BY <2>2, <2>3, EnterOps
    <3> QED BY <1>2, <3>1 DEF Refused
  <2>4. CASE m # 0
    <3>1. Done(p, AddPlan) # 0
      <4>1. Done(p, AddPlan) \in Int
        BY <1>1, <1>5, Stands, PlanOps DEF AddsRow
      <4> QED BY <2>2, <2>4, <4>1
    <3>2. rows[box[p]] # NoRow
      BY <1>5, <3>1 DEF AddsRow
    <3> QED BY <1>2, <2>1, <3>2 DEF Refused
  <2> QED BY <2>3, <2>4
<1>6. CASE cmd[p] \in {"remove", "cleanup"} /\ Removes(p)
  <2>1. op # <<"row", "user">>
    BY <1>1, <1>2, <1>6, RemoveAt DEF Removes
  <2>2. rows[box[p]] # NoRow
    BY <1>4, <1>6 DEF Removes
  <2> QED BY <1>2, <2>1, <2>2 DEF Refused
<1>7. CASE Updates(p)
  <2>1. rows[box[p]] # NoRow
    BY <1>4, <1>7 DEF Updates
  <2>2. ASSUME NEW P \in {PersistPlan, RefreshPlan}, Left(p, P)
        PROVE  op # <<"row", "user">>
    BY <1>1, <1>2, <2>2, PersistAt
  <2>3. ASSUME Left(p, WriteSecrets)
        PROVE  op # <<"row", "user">>
    <3>1. PICK m \in 2..7 : op = WriteSecrets[m - 1]
      BY <1>1, <1>2, <2>3, SecretsAt
    <3> QED BY <3>1, EnterOps
  <2>4. ASSUME NEW P \in {FlagOnly, FlagThenUid}, Left(p, P)
        PROVE  op # <<"row", "user">>
    <3>1. \E k \in 1..Len(P) : op = P[k]
      <4>1. Done(p, P) \in 0..(Len(P) - 1) /\ op = P[Done(p, P) + 1] /\ Len(P) \in {1, 2}
        BY <1>2, <1>3, <2>4, LeftGoesOn, PlanOps
      <4>2. \A d \in 0..(Len(P) - 1) : d + 1 \in 1..Len(P)
        BY <4>1
      <4> HIDE DEF Done
      <4> QED BY <4>1, <4>2
    <3>2. /\ Len(FlagOnly) = 1 /\ FlagOnly[1] # <<"row", "user">> /\ Len(FlagThenUid) = 2
          /\ FlagThenUid[1] # <<"row", "user">> /\ FlagThenUid[2] # <<"row", "user">>
      BY DEF FlagOnly, FlagThenUid
    <3> QED BY <3>1, <3>2
  <2>5. op # <<"row", "user">>
    BY <1>7, <2>2, <2>3, <2>4 DEF Updates
  <2> QED BY <1>2, <2>1, <2>5 DEF Refused
<1> QED BY <1>1, <1>5, <1>6, <1>7 DEF Placed

LEMMA StopsSplit ==
  ASSUME OneAtATime, OneFailure, SoloInv, SplitInv, [Next]_vars, NEW p \in Procs,
         WriteFails(p) \/ Crash(p) \/ LoginFails(p) \/ Interrupt(p)
  PROVE  SplitInv'
<1>1. /\ disturbed \in 0..MaxDisturbances /\ ProcType /\ SessionType /\ Placed(p)
      /\ DOMAIN pc = Procs /\ \A q \in Procs : q = p
  BY Domains DEF SoloInv, TokenInv, SessionType, PlaceInv, OneAtATime
<1>2. kc' = kc /\ rows' = rows
  BY DEF WriteFails, Crash, LoginFails, Interrupt
<1>3. ASSUME NEW kind, Disturb(kind)
      PROVE  disturbed' # disturbed
  BY <1>1, <1>3, SessionBounds DEF Disturb
<1>4. WriteFails(p) => pc[p] = "write" /\ disturbed' # disturbed
  BY <1>3, NeverRefused DEF WriteFails
<1>5. Crash(p) \/ Interrupt(p) => disturbed' # disturbed
  BY <1>3 DEF Crash, Interrupt
<1>6. ASSUME NEW id \in Ids
      PROVE  SplitAt(id)'
  <2>1. SplitAt(id)
    BY DEF SplitInv
  <2>2. Aside(id)
    BY <1>1, <1>4, <1>5 DEF Aside, LoginFails
  <2> QED BY <1>2, <2>1, <2>2, SplitKeeps
<1>7. Barred(p)'
  <2>1. CASE EndCommand(p)
    <3>1. pc'[p] = "idle"
      BY <1>1, <2>1, EndIs
    <3> QED BY <3>1 DEF Barred, Relogs, Reenters, Confirms
  <2>2. CASE ~EndCommand(p)
    <3>1. PICK op : op = Head(plan[p])
      OBVIOUS
    <3>2. /\ WriteFails(p) /\ pc[p] = "write" /\ Spent'
          /\ ContinueWith(p, CommandAfterFailure(cmd[p], op),
                             AfterFailure(cmd[p], op, Tail(plan[p])))
      BY <1>1, <1>4, <2>2, <3>1, SpentIs DEF WriteFails, Crash, LoginFails, Interrupt
    <3>3. /\ pc'[p] = "write" /\ cmd'[p] = CommandAfterFailure(cmd[p], op)
          /\ plan'[p] = AfterFailure(cmd[p], op, Tail(plan[p])) /\ plan'[p] # << >>
      BY <1>1, <2>2, <3>2, ContinueIs
    <3>4. cmd'[p] # "add"
      BY <3>3 DEF CommandAfterFailure, AfterFailure
    <3>5. cmd'[p] = "refresh" => plan'[p] = FlagOnly
      BY <3>3 DEF CommandAfterFailure, AfterFailure, FlagOnly
    <3>6. ~Confirms(p)'
      <4>1. RefreshPlan[(4 - 1) + 1] = <<"row", "active">> /\ Len(RefreshPlan) = 4
        BY RefreshPlanIs
      <4>2. Len(FlagOnly) = 1 /\ FlagOnly[1] = <<"row", "needs_reauth">>
        BY DEF FlagOnly
      <4> QED BY <3>3, <3>5, <4>1, <4>2 DEF Confirms, Left
    <3> QED BY <3>2, <3>3, <3>4, <3>6 DEF Barred
  <2> QED BY <2>1, <2>2
<1> QED BY <1>1, <1>6, <1>7 DEF SplitInv

-----------------------------------------------------------------------------
(* What is written.                                                        *)

\* What every write of p, on mailbox b, goes by.
LEMMA WriteGoes ==
  ASSUME OneAtATime, OneFailure, SoloInv, SplitInv, [Next]_vars, NEW p \in Procs, Write(p),
         NEW b, b = box[p], NEW op, op = Head(plan[p])
  PROVE  /\ b \in Ids /\ op \in Ops /\ plan[p] \in Seq(Ops) /\ pc[p] = "write"
         /\ disturbed' = disturbed /\ disturbed \in Nat /\ (Spent' <=> Spent)
         /\ \/ pc'[p] = "idle" /\ Tail(plan[p]) = << >>
            \/ /\ pc'[p] = "write" /\ cmd'[p] = cmd[p] /\ box'[p] = b
               /\ client'[p] = client[p] /\ seed'[p] = seed[p]
               /\ plan'[p] = Tail(plan[p]) /\ Tail(plan[p]) # << >>
         /\ Split(b) => Leftover(b) \/ (Spent /\ Reenters(p))
         /\ \/ Spent \/ rows[b].uid = 0 \/ (kc[b].refresh # NoToken /\ kc[b].access # NoToken)
            \/ cmd[p] = "remove"
         /\ \A id \in Ids \ {b} : SplitAt(id)'
<1>1. /\ disturbed \in 0..MaxDisturbances /\ SessionType /\ ProcType /\ RowsWhole
      /\ \A q \in Procs : q = p
  BY DEF SoloInv, TokenInv, SessionType, PlaceInv, OneAtATime
<1>2. pc[p] = "write" /\ disturbed' = disturbed
  BY DEF Write
<1>3. b \in Ids /\ op \in Ops /\ plan[p] \in Seq(Ops)
  BY <1>1, <1>2, OpIs
<1>4. Spent' <=> Spent
  BY <1>2 DEF Spent
<1>5. \/ pc'[p] = "idle" /\ Tail(plan[p]) = << >>
      \/ /\ pc'[p] = "write" /\ cmd'[p] = cmd[p] /\ box'[p] = b
         /\ client'[p] = client[p] /\ seed'[p] = seed[p]
         /\ plan'[p] = Tail(plan[p]) /\ Tail(plan[p]) # << >>
  <2>1. ContinueWith(p, cmd[p], Tail(plan[p]))
    BY DEF Write
  <2>2. EndCommand(p) => pc'[p] = "idle"
    BY <1>1, EndIs
  <2>3. ProcType
    BY <1>1
  <2>4. \/ EndCommand(p) /\ Tail(plan[p]) = << >>
        \/ /\ Tail(plan[p]) # << >> /\ pc'[p] = "write" /\ plan'[p] = Tail(plan[p])
           /\ cmd'[p] = cmd[p] /\ box'[p] = box[p] /\ seed'[p] = seed[p]
           /\ client'[p] = client[p]
    BY <1>2, <2>1, <2>3 DEF ContinueWith, ProcType
  <2> QED BY <2>2, <2>4
<1>6. SplitAt(b)
  BY <1>3 DEF SplitInv
<1>7. ASSUME NEW id \in Ids \ {b}
      PROVE  SplitAt(id)'
  <2>1. SplitAt(id) /\ Aside(id)
    BY <1>1 DEF SplitInv, Aside
  <2>2. rows'[id] = rows[id] /\ kc'[id] = kc[id]
    BY <1>1, <1>3, RowWritten
  <2> QED BY <2>1, <2>2, SplitKeeps
<1>8. Split(b) => Leftover(b) \/ (Spent /\ Reenters(p))
  BY <1>1, <1>6 DEF SplitAt
<1>9. \/ Spent \/ rows[b].uid = 0 \/ (kc[b].refresh # NoToken /\ kc[b].access # NoToken)
      \/ cmd[p] = "remove"
  BY <1>1, <1>6 DEF SplitAt
<1> QED BY <1>1, <1>2, <1>3, <1>4, <1>5, <1>7, <1>8, <1>9

\* What is left to show of it.
LEMMA WriteShows ==
  ASSUME OneAtATime, OneFailure, SoloInv, SplitInv, [Next]_vars, NEW p \in Procs, Write(p),
         NEW b, b = box[p], SplitAt(b)',
         pc'[p] = "write" => Barred(p)'
  PROVE  SplitInv'
<1>1. PICK op : op = Head(plan[p])
  OBVIOUS
<1>2. \A id \in Ids : SplitAt(id)'
  BY <1>1, WriteGoes
<1>3. pc'[p] = "idle" => Barred(p)'
  BY DEF Barred, Relogs, Reenters, Confirms
<1>4. \A q \in Procs : q = p
  BY DEF OneAtATime
<1> QED BY <1>1, <1>2, <1>3, <1>4, WriteGoes DEF SplitInv

\* A login's tokens, once stored under its uid, are of one session.
LEMMA EntersOne ==
  ASSUME SoloInv, NEW p \in Procs, NEW b, b = box[p], NEW n \in 4..5, Enters(p, n),
         kc' = kc, rows'[b].uid = client[p].uid
  PROVE  ~Split(b)' /\ kc'[b].refresh # NoToken /\ kc'[b].access # NoToken
<1>1. /\ kc[b].refresh = client[p].refresh /\ kc[b].access = client[p].refresh
      /\ client[p].refresh = [sess |-> client[p].uid, gen |-> 1]
  BY DEF Enters
<1> QED BY <1>1 DEF Split, NoToken

LEMMA AddSplits ==
  ASSUME OneAtATime, OneFailure, SoloInv, SplitInv, [Next]_vars, NEW p \in Procs, Write(p),
         cmd[p] = "add", Left(p, AddPlan), Enters(p, Done(p, AddPlan) - 2)
  PROVE  SplitInv'
<1>1. PICK b, op : b = box[p] /\ op = Head(plan[p])
  OBVIOUS
<1>2. /\ b \in Ids /\ op \in Ops /\ pc[p] = "write" /\ plan[p] \in Seq(Ops) /\ SessionType
      /\ \/ pc'[p] = "idle"
         \/ /\ pc'[p] = "write" /\ cmd'[p] = cmd[p] /\ box'[p] = b
            /\ plan'[p] = Tail(plan[p]) /\ Tail(plan[p]) # << >>
  BY <1>1, WriteGoes DEF SoloInv, TokenInv
<1>3. /\ Done(p, AddPlan) \in 0..7 /\ op = AddPlan[Done(p, AddPlan) + 1]
      /\ Tail(plan[p]) = << >> <=> Done(p, AddPlan) = 7
      /\ plan'[p] = Tail(plan[p]) /\ Tail(plan[p]) # << >> =>
            Done(p, AddPlan)' = Done(p, AddPlan) + 1
  <2>1. AddPlan \in Seq(Ops) /\ Len(AddPlan) = 8 /\ 8 \in Nat /\ 8 - 1 = 7
    BY PlanOps
  <2>2. Done(p, AddPlan) \in 0..(8 - 1) /\ op = AddPlan[Done(p, AddPlan) + 1]
    BY <1>1, <1>2, <2>1, Stands
  <2>3. Tail(plan[p]) = << >> <=> Done(p, AddPlan) = 8 - 1
    BY <1>1, <1>2, <2>1, Stands
  <2>4. plan'[p] = Tail(plan[p]) /\ Tail(plan[p]) # << >> =>
            Done(p, AddPlan)' = Done(p, AddPlan) + 1
    BY <1>1, <1>2, <2>1, Stands
  <2> HIDE DEF Done
  <2> QED BY <2>1, <2>2, <2>3, <2>4
<1>4. PICK m \in 0..7 : m = Done(p, AddPlan)
  BY <1>3
<1>5. /\ m = 0 => op = <<"row", "insert">>
      /\ m = 1 => op = <<"row", "user">>
      /\ m = 2 => op = <<"set", "refresh">>
      /\ m = 3 => op = <<"set", "access">>
      /\ m = 4 => op = <<"set", "passphrase">>
      /\ m = 5 => op = <<"set", "keypass">>
      /\ m = 6 => op = <<"row", "uid">>
      /\ m = 7 => op = <<"row", "active">>
  BY <1>3, <1>4, EnterOps
<1>6. m <= 6 => rows[b].uid = 0
  <2>1. Barred(p)
    BY DEF SplitInv
  <2> QED BY <1>1, <1>2, <1>4, <2>1 DEF Barred
<1>7. CASE m <= 5
  <2>1. rows'[b].uid = 0
    <3>1. CASE m = 0 \/ m = 1
      BY <1>1, <1>2, <1>5, <1>6, <3>1, UidWritten
    <3>2. CASE m \in 2..5
      <4>1. op[1] = "set"
        BY <1>5, <3>2
      <4>2. rows' = rows
        BY <1>1, <1>2, <4>1, UidWritten
      <4> QED BY <1>6, <3>2, <4>2
    <3> QED BY <1>7, <3>1, <3>2
  <2>2. SplitAt(b)'
    BY <2>1 DEF SplitAt, Split
  <2>3. ASSUME pc'[p] = "write"
        PROVE  Barred(p)'
    <3>1. cmd'[p] = "add" /\ box'[p] = b
      BY <1>2, <2>3
    <3> QED BY <2>1, <2>3, <3>1 DEF Barred, Relogs, Reenters, Confirms
  <2> QED BY <1>1, <2>2, <2>3, WriteShows
<1>8. CASE m > 5
  <2>1. PICK n \in 4..5 : n = m - 2
    BY <1>8
  <2>2. Enters(p, n)
    BY <1>4, <2>1
  <2>3. op[1] = "row" /\ (m = 6 => op = <<"row", "uid">>) /\ (m = 7 => op[2] = "active")
    BY <1>5, <1>8
  <2>4. kc' = kc
    BY <1>1, <1>2, <2>3, KcWritten
  <2>5. rows'[b].uid = client[p].uid
    <3>1. CASE m = 6
      BY <1>1, <1>2, <2>3, <3>1, UidWritten
    <3>2. CASE m = 7
      <4>1. rows'[b].uid = rows[b].uid
        BY <1>1, <1>2, <2>3, <3>2, UidWritten
      <4>2. rows[b].uid = client[p].uid
        BY <1>1, <2>1, <2>2, <3>2 DEF Enters
      <4> QED BY <4>1, <4>2
    <3> QED BY <1>8, <3>1, <3>2
  <2>6. SplitAt(b)'
    BY <1>1, <2>2, <2>4, <2>5, EntersOne DEF SplitAt
  <2>7. ASSUME pc'[p] = "write"
        PROVE  Barred(p)'
    <3>1. cmd'[p] = "add" /\ box'[p] = b /\ Done(p, AddPlan)' = Done(p, AddPlan) + 1
      BY <1>2, <1>3, <2>7
    <3>2. ~(Done(p, AddPlan)' <= 6)
      BY <1>4, <1>8, <3>1
    <3> QED BY <2>7, <3>1, <3>2 DEF Barred, Relogs, Reenters, Confirms
  <2> QED BY <1>1, <2>6, <2>7, WriteShows
<1> QED BY <1>7, <1>8

LEMMA RemoveSplits ==
  ASSUME OneAtATime, OneFailure, SoloInv, SplitInv, [Next]_vars, NEW p \in Procs, Write(p),
         cmd[p] \in {"remove", "cleanup"}, Removes(p)
  PROVE  SplitInv'
<1>1. PICK b, op : b = box[p] /\ op = Head(plan[p])
  OBVIOUS
<1>2. /\ b \in Ids /\ op \in Ops /\ pc[p] = "write" /\ SessionType
      /\ disturbed \in 0..MaxDisturbances /\ (Spent' <=> Spent)
      /\ \/ pc'[p] = "idle" /\ Tail(plan[p]) = << >>
         \/ pc'[p] = "write" /\ cmd'[p] = cmd[p] /\ box'[p] = b
      /\ Split(b) => Leftover(b)
  <2>1. ~Reenters(p)
    BY DEF Reenters
  <2> QED BY <1>1, <2>1, WriteGoes DEF SoloInv, TokenInv, PlaceInv
<1>3. /\ Left(p, RemovePlan) /\ (cmd[p] = "cleanup" => Spent) /\ ~Botched(p)
  <2>1. ~Botched(p)
    BY <1>2, SessionBounds DEF Botched, OneFailure
  <2> QED BY <1>2, <2>1, SpentIs DEF Removes
<1>4. PICK d \in 0..4 : d = Done(p, RemovePlan)
  BY <1>2, <1>3, RemoveAt
<1>5. /\ d = 0 => op = <<"delete", "refresh">>
      /\ d = 1 => op = <<"delete", "access">>
      /\ d = 2 => op = <<"delete", "passphrase">>
      /\ d = 3 => op = <<"delete", "keypass">>
      /\ d = 4 => op = <<"row", "drop">>
  BY <1>1, <1>2, <1>3, <1>4, RemoveAt
<1>6. /\ d >= 1 => kc[b].refresh = NoToken
      /\ d >= 2 => kc[b].access = NoToken
  BY <1>1, <1>3, <1>4 DEF Removes
<1>7. kc[b] \in Secrets /\ rows[b].uid \in Nat
  BY <1>2, KnownOf DEF SessionType, StoreType
<1>8. Split(b)' => ~(kc'[b].refresh = NoToken /\ kc'[b].access = NoToken)
  BY DEF Split, NoToken
<1>9. ASSUME d \in 0..3
      PROVE  SplitAt(b)'
  <2>1. rows' = rows
    <3>1. op[1] = "delete"
      BY <1>5, <1>9
    <3> QED BY <1>1, <1>2, <3>1, UidWritten
  <2>2. /\ \A k \in Kinds \ {op[2]} : kc'[b][k] = kc[b][k]
        /\ kc'[b][op[2]] = NoSecrets[op[2]]
    <3>1. op[1] = "delete" /\ op[2] \in Kinds
      BY <1>5, <1>9 DEF Kinds
    <3>2. \A k \in Kinds \ {op[2]} : kc'[b][k] = kc[b][k]
      BY <1>1, <1>2, KcWritten
    <3>3. kc'[b] = [kc[b] EXCEPT ![op[2]] = SecretAfter(p, op)]
      BY <1>1, <1>2, <3>1, SecretWritten
    <3>4. SecretAfter(p, op) = NoSecrets[op[2]]
      BY <3>1 DEF SecretAfter
    <3>5. op[2] \in DOMAIN kc[b]
      BY <1>7, <3>1 DEF Secrets, Kinds
    <3> QED BY <3>2, <3>3, <3>4, <3>5
  <2>3. /\ "refresh" \in Kinds /\ "access" \in Kinds
        /\ NoSecrets["refresh"] = NoToken /\ NoSecrets["access"] = NoToken
    BY DEF Kinds, NoSecrets
  <2>4. kc'[b].refresh = NoToken
    <3>1. CASE d = 0
      BY <1>5, <2>2, <2>3, <3>1
    <3>2. CASE d # 0
      <4>1. op[2] # "refresh"
        BY <1>5, <1>9, <3>2
      <4> QED BY <1>6, <1>9, <2>2, <2>3, <3>2, <4>1
    <3> QED BY <3>1, <3>2
  <2>5. Split(b)' => Leftover(b)'
    <3>1. CASE d = 0
      <4>1. kc'[b].access = kc[b].access
        BY <1>5, <2>2, <2>3, <3>1
      <4>2. Split(b)' => Split(b) /\ rows[b].uid # 0 /\ kc[b].access.sess # rows[b].uid
        BY <2>1, <2>4, <4>1 DEF Split, NoToken
      <4>3. ASSUME Split(b)'
            PROVE  Cold(b)'
        BY <2>1, <2>4, <4>1, <4>2, <4>3 DEF Cold, Honoured, NoToken
      <4> QED BY <1>2, <2>1, <2>4, <4>2, <4>3 DEF Leftover, Barren, NoToken
    <3>2. CASE d = 1
      <4>1. kc'[b].access = NoToken
        BY <1>5, <2>2, <2>3, <3>2
      <4> QED BY <1>8, <2>4, <4>1
    <3>3. CASE d \in 2..3
      <4>1. op[2] # "access"
        BY <1>5, <3>3
      <4>2. kc'[b].access = NoToken
        BY <1>6, <2>2, <2>3, <3>3, <4>1
      <4> QED BY <1>8, <2>4, <4>2
    <3> QED BY <1>9, <3>1, <3>2, <3>3
  <2>6. Spent' \/ (box'[p] = b /\ pc'[p] = "write" /\ cmd'[p] = "remove")
    <3>1. Tail(plan[p]) # << >>
      <4>1. RemovePlan \in Seq(Ops) /\ Len(RemovePlan) = 5 /\ 5 \in Nat
        BY RemovePlanIs, PlansFit DEF Fit
      <4>2. Tail(plan[p]) = << >> <=> Done(p, RemovePlan) = 5 - 1
        BY <1>2, <1>3, <4>1, Stands
      <4> QED BY <1>4, <1>9, <4>2
    <3> QED BY <1>2, <1>3, <3>1
  <2> QED BY <2>5, <2>6 DEF SplitAt
<1>10. ASSUME d = 4
       PROVE  SplitAt(b)'
  <2>1. rows'[b].uid = 0
    BY <1>1, <1>2, <1>5, <1>10, UidWritten
  <2> QED BY <2>1 DEF SplitAt, Split
<1>11. ASSUME pc'[p] = "write"
       PROVE  Barred(p)'
  BY <1>2, <1>11 DEF Barred, Relogs, Reenters, Confirms
<1> QED BY <1>1, <1>9, <1>10, <1>11, WriteShows

\* The write to make when n of the rotated tokens are stored.
PersistOp(n, op) ==
    /\ n = 0 => op = <<"rotate", "access">>
    /\ n = 1 => op = <<"rotate", "refresh">>
    /\ n = 2 => op = <<"rotate", "uid">>
    /\ n = 3 => op = <<"row", "active">>

\* A token is replaced by one of the mailbox's session, if that is what it was of.
LEMMA PersistTokens ==
  ASSUME SoloInv, NEW p \in Procs, Write(p), NEW b \in Ids, b = box[p], NEW n \in 0..3,
         NEW op, op = Head(plan[p]), op \in Ops, Persists(p, n),
         PersistOp(n, op)
  PROVE  /\ rows'[b].uid = rows[b].uid
         /\ \A k \in Kinds : kc'[b][k] = kc[b][k] \/
               (/\ k \in {"refresh", "access"} /\ kc[b].refresh.sess = rows[b].uid
                /\ kc'[b][k].sess = rows[b].uid /\ kc'[b][k] # NoToken)
<1>1. SessionType
  BY DEF SoloInv, TokenInv
<1>2. rows'[b].uid = rows[b].uid
  <2>1. /\ n = 0 => op = <<"rotate", "access">>
        /\ n = 1 => op = <<"rotate", "refresh">>
        /\ n = 2 => op = <<"rotate", "uid">>
        /\ n = 3 => op = <<"row", "active">>
    BY DEF PersistOp
  <2> QED BY <1>1, <2>1, PersistWrites
<1>3. /\ rows[b].uid = seed[p].uid /\ Carries(p)
      /\ n <= 1 => kc[b].refresh = seed[p].refresh
      /\ n = 0 => kc[b].access = seed[p].access
  BY DEF Persists
<1>4. ASSUME n <= 1, NEW k \in {"refresh", "access"}, client[p][k] # seed[p][k]
      PROVE  /\ kc[b].refresh.sess = rows[b].uid
             /\ client[p][k].sess = rows[b].uid /\ client[p][k] # NoToken
  <2>1. /\ client[p].uid = seed[p].uid /\ client[p].refresh = client[p].access
        /\ client[p].access.sess = client[p].uid /\ client[p].uid \in Sessions
        /\ seed[p].refresh.sess = client[p].uid
    BY <1>3, <1>4 DEF Carries
  <2>2. client[p][k] = client[p].access
    BY <2>1
  <2>3. client[p].access # NoToken
    BY <2>1 DEF Sessions, NoToken
  <2> QED BY <1>3, <1>4, <2>1, <2>2, <2>3
<1>5. CASE n >= 2
  <2>1. op[1] = "row" \/ op[2] = "uid"
    BY <1>5 DEF PersistOp
  <2>2. kc' = kc
    BY <1>1, <2>1, KcWritten
  <2> QED BY <1>2, <2>2
<1>6. CASE n <= 1
  <2>1. PICK k \in {"refresh", "access"} : op = <<"rotate", k>> /\ (n = 0 <=> k = "access")
    BY <1>6 DEF PersistOp
  <2>2. op[1] = "rotate" /\ op[2] = k
    BY <2>1
  <2>3. \A j \in Kinds \ {k} : kc'[b][j] = kc[b][j]
    BY <1>1, <2>2, KcWritten
  <2>4. kc'[b][k] = client[p][k] \/ (kc'[b][k] = kc[b][k] /\ client[p][k] = seed[p][k])
    BY <1>1, <2>2, KcWritten
  <2>5. kc[b][k] = seed[p][k]
    BY <1>3, <1>6, <2>1
  <2>6. ASSUME kc'[b][k] # kc[b][k]
        PROVE  kc'[b][k] = client[p][k] /\ client[p][k] # seed[p][k]
    BY <2>4, <2>5, <2>6
  <2> QED BY <1>2, <1>4, <1>6, <2>3, <2>6
<1> QED BY <1>5, <1>6

\* What is left of one list is not the end of the other, but for its last write.
LEMMA NotBoth ==
  ASSUME NEW q, Len(q) \in 2..4,
         \A i \in 1..Len(q) : q[i] = RefreshPlan[(Len(RefreshPlan) - Len(q)) + i],
         \A i \in 1..Len(q) : q[i] = WriteSecrets[(Len(WriteSecrets) - Len(q)) + i]
  PROVE  FALSE
<1>1. /\ Len(RefreshPlan) = 4 /\ Len(WriteSecrets) = 6
      /\ RefreshPlan[3] = <<"rotate", "uid">> /\ WriteSecrets[5] = <<"row", "uid">>
  BY RefreshPlanIs, WriteSecretsIs
<1>2. PICK l \in 2..4 : l = Len(q)
  OBVIOUS
<1>3. (4 - l) + (l - 1) = 3 /\ (6 - l) + (l - 1) = 5 /\ l - 1 \in 1..l
  OBVIOUS
<1>4. q[l - 1] = RefreshPlan[3] /\ q[l - 1] = WriteSecrets[5]
  BY <1>1, <1>2, <1>3
<1> QED BY <1>1, <1>4

LEMMA LeftOfOne ==
  ASSUME NEW p \in Procs
  PROVE  /\ Left(p, RefreshPlan) => ~Reenters(p)
         /\ (Left(p, RefreshPlan) => ~Reenters(p))'
<1>1. Len(WriteSecrets) = 6 /\ Len(RefreshPlan) = 4
  BY RefreshPlanIs, WriteSecretsIs
<1>2. ASSUME NEW q, Len(q) \in 1..4, 6 - Len(q) <= 4
      PROVE  Len(q) \in 2..4
  BY <1>2
<1>3. ASSUME Left(p, RefreshPlan), Reenters(p)
      PROVE  FALSE
  <2>1. PICK q : q = plan[p]
    OBVIOUS
  <2>2. Len(q) \in 2..4
    BY <1>1, <1>2, <1>3, <2>1 DEF Left, Reenters, Done
  <2> QED BY <1>3, <2>1, <2>2, NotBoth DEF Left, Reenters
<1>4. ASSUME Left(p, RefreshPlan)', Reenters(p)'
      PROVE  FALSE
  <2>1. PICK q : q = plan'[p]
    OBVIOUS
  <2>2. Len(q) \in 2..4
    BY <1>1, <1>2, <1>4, <2>1 DEF Left, Reenters, Done
  <2> QED BY <1>4, <2>1, <2>2, NotBoth DEF Left, Reenters
<1> QED BY <1>3, <1>4

LEMMA PersistSplits ==
  ASSUME OneAtATime, OneFailure, SoloInv, SplitInv, [Next]_vars, NEW p \in Procs, Write(p),
         NEW P, Left(p, P), Persists(p, Done(p, P)),
         \/ P = PersistPlan /\ cmd[p] \in {"sync", "labels"}
         \/ P = RefreshPlan /\ cmd[p] = "refresh"
  PROVE  SplitInv'
<1>1. PICK b, op : b = box[p] /\ op = Head(plan[p])
  OBVIOUS
<1>2. /\ b \in Ids /\ op \in Ops /\ pc[p] = "write" /\ plan[p] \in Seq(Ops) /\ SessionType
      /\ (Spent' <=> Spent)
      /\ \/ pc'[p] = "idle"
         \/ /\ pc'[p] = "write" /\ cmd'[p] = cmd[p] /\ box'[p] = b
            /\ plan'[p] = Tail(plan[p]) /\ Tail(plan[p]) # << >>
      /\ Spent \/ rows[b].uid = 0 \/ (kc[b].refresh # NoToken /\ kc[b].access # NoToken)
  BY <1>1, WriteGoes DEF SoloInv, TokenInv
<1>3. ~Reenters(p)
  BY LeftOfOne DEF Reenters
<1>4. PICK n \in 0..3 : n = Done(p, P)
  BY <1>2, PersistAt
<1>5. /\ n = 0 => op = <<"rotate", "access">>
      /\ n = 1 => op = <<"rotate", "refresh">>
      /\ n = 2 => op = <<"rotate", "uid">>
      /\ n = 3 => op = <<"row", "active">>
      /\ n = 3 => P = RefreshPlan
  <2>1. P \in {PersistPlan, RefreshPlan}
    OBVIOUS
  <2>2. /\ Done(p, P) = 0 => Head(plan[p]) = <<"rotate", "access">>
        /\ Done(p, P) = 1 => Head(plan[p]) = <<"rotate", "refresh">>
        /\ Done(p, P) = 2 => Head(plan[p]) = <<"rotate", "uid">>
        /\ Done(p, P) = 3 => Head(plan[p]) = <<"row", "active">>
    BY <1>2, <2>1, PersistAt
  <2>3. P = PersistPlan => Done(p, P) \in 0..2
    BY <1>2, <2>1, PersistAt
  <2> QED BY <1>1, <1>4, <2>1, <2>2, <2>3
<1>6. /\ rows'[b].uid = rows[b].uid
      /\ \A k \in Kinds : kc'[b][k] = kc[b][k] \/
            (/\ k \in {"refresh", "access"} /\ kc[b].refresh.sess = rows[b].uid
             /\ kc'[b][k].sess = rows[b].uid /\ kc'[b][k] # NoToken)
  <2>1. Persists(p, n)
    BY <1>4
  <2>2. PersistOp(n, op)
    BY <1>5 DEF PersistOp
  <2> QED BY <1>1, <1>2, <2>1, <2>2, PersistTokens
<1>7. "refresh" \in Kinds /\ "access" \in Kinds
  BY DEF Kinds
<1>8. Split(b)' => Split(b)
  BY <1>6, <1>7 DEF Split
<1>9. cmd[p] = "refresh" => ~Split(b)
  <2>1. Barred(p)
    BY DEF SplitInv
  <2> QED BY <1>1, <1>2, <2>1 DEF Barred, Confirms
<1>10. Split(b)' => Leftover(b)'
  <2> SUFFICES ASSUME Split(b)'
               PROVE  Leftover(b)'
    OBVIOUS
  <2>1. Split(b) /\ Leftover(b) /\ cmd[p] # "refresh"
    BY <1>1, <1>3, <1>8, <1>9, WriteGoes
  <2>2. \A k \in Kinds : kc'[b][k] = kc[b][k]
    BY <1>6, <2>1 DEF Leftover
  <2>3. rows' = rows
    <3>1. n # 3
      BY <1>5, <2>1, PersistPlanIs, RefreshPlanIs
    <3>2. op[1] = "rotate" /\ (op # <<"rotate", "uid">> => op[2] # "uid")
      BY <1>5, <3>1
    <3>3. CASE op = <<"rotate", "uid">>
      <4>1. ~Rotated(p, "uid")
        BY DEF Persists, Carries, Rotated
      <4>2. ~Stores(p, op)
        BY <3>3, <4>1 DEF Stores
      <4> QED BY <1>1, <4>2 DEF Write
    <3>4. CASE op # <<"rotate", "uid">>
      BY <1>1, <1>2, <3>2, <3>4, UidWritten
    <3> QED BY <3>3, <3>4
  <2>4. Barren(b)'
    BY <1>2, <2>1, <2>2, <2>3, BarrenKeeps DEF Leftover
  <2> QED BY <1>7, <2>1, <2>2, <2>3, <2>4 DEF Leftover
<1>11. SplitAt(b)'
  BY <1>2, <1>6, <1>7, <1>10 DEF SplitAt
<1>12. ASSUME pc'[p] = "write"
       PROVE  Barred(p)'
  <2>1. cmd'[p] = cmd[p] /\ box'[p] = b /\ cmd[p] # "add" /\ plan'[p] = Tail(plan[p])
        /\ Tail(plan[p]) # << >>
    BY <1>2, <1>12
  <2>2. CASE cmd[p] = "refresh"
    <3>1. Left(p, RefreshPlan)'
      <4>1. RefreshPlan \in Seq(Ops) /\ Len(RefreshPlan) = 4 /\ 4 \in Nat
        BY PlanOps
      <4>2. Left(p, RefreshPlan)
        BY <2>2
      <4> QED BY <1>2, <2>1, <4>1, <4>2, Stands
    <3>2. ~Reenters(p)'
      BY <3>1, LeftOfOne
    <3> QED BY <1>8, <1>9, <1>12, <2>1, <2>2, <3>2 DEF Barred, Relogs
  <2>3. CASE cmd[p] # "refresh"
    BY <1>12, <2>1, <2>3 DEF Barred, Relogs, Reenters, Confirms
  <2> QED BY <2>2, <2>3
<1> QED BY <1>1, <1>11, <1>12, WriteShows

\* A secret of a login is stored over one of the session that is given up.
LEMMA SecretSplits ==
  ASSUME OneAtATime, OneFailure, SoloInv, SplitInv, [Next]_vars, NEW p \in Procs, Write(p),
         cmd[p] = "refresh", Left(p, WriteSecrets), NEW n \in 0..3, n = Done(p, WriteSecrets),
         Enters(p, n), NEW b, b = box[p], NEW op, op = Head(plan[p]), NEW k \in Kinds,
         op = <<"set", k>>,
         \/ n = 0 /\ k = "refresh"
         \/ n = 1 /\ k = "access"
         \/ n >= 2 /\ k \notin {"refresh", "access"},
         pc'[p] = "write", cmd'[p] = "refresh", box'[p] = b, Left(p, WriteSecrets)',
         Done(p, WriteSecrets)' = n + 1
  PROVE  SplitInv'
<1>1. /\ b \in Ids /\ op \in Ops /\ pc[p] = "write" /\ SessionType
      /\ (Spent' <=> Spent)
      /\ Spent \/ rows[b].uid = 0 \/ (kc[b].refresh # NoToken /\ kc[b].access # NoToken)
  BY WriteGoes DEF SoloInv, TokenInv
<1>2. /\ Barred(p) /\ Reenters(p) /\ Reenters(p)'
  BY <1>1 DEF SplitInv, Reenters
<1>3. Spent \/ (Barren(b) /\ rows[b].state # "active")
  BY <1>1, <1>2 DEF Barred, Relogs
<1>4. /\ rows' = rows /\ UNCHANGED <<gen, expired, full, keys>>
      /\ kc'[b][k] = client[p][k] /\ \A j \in Kinds \ {k} : kc'[b][j] = kc[b][j]
  <2>1. op[1] = "set" /\ op[2] = k
    OBVIOUS
  <2>2. rows' = rows
    BY <1>1, <2>1, UidWritten
  <2>3. kc'[b][k] = client[p][k] /\ \A j \in Kinds \ {k} : kc'[b][j] = kc[b][j]
    BY <1>1, <2>1, KcWritten
  <2> QED BY <2>2, <2>3 DEF Write, proton
<1>5. PICK t, u : t = client[p].refresh /\ u = client[p].uid
  OBVIOUS
<1>6. /\ t = client[p].access /\ t.sess = u /\ t # NoToken
      /\ rows[b].uid # u
      /\ n >= 1 => kc[b].refresh = t
      /\ n >= 2 => kc[b].access = t
  <2>1. /\ t = [sess |-> u, gen |-> 1] /\ client[p].access = t /\ rows[b].uid # u
        /\ n >= 1 => kc[b].refresh = t
        /\ n >= 2 => kc[b].access = t
    BY <1>1, <1>5 DEF Enters
  <2> QED BY <2>1 DEF NoToken
<1>7. /\ kc'[b].refresh = t
      /\ kc'[b].access = IF n = 0 THEN kc[b].access ELSE t
      /\ n <= 1 => kc'[b].passphrase = kc[b].passphrase /\ kc'[b].keypass = kc[b].keypass
  <2>1. {"refresh", "access", "passphrase", "keypass"} = Kinds
    BY DEF Kinds
  <2>2. CASE k = "refresh"
    BY <1>4, <1>5, <2>1, <2>2
  <2>3. CASE k = "access"
    BY <1>4, <1>6, <2>1, <2>3
  <2>4. CASE k \notin {"refresh", "access"}
    <3>1. n >= 2
      BY <2>4
    <3>2. kc'[b].refresh = kc[b].refresh /\ kc'[b].access = kc[b].access
      BY <1>4, <2>1, <2>4
    <3> HIDE DEF Done
    <3> QED BY <1>6, <3>1, <3>2
  <2> QED BY <2>2, <2>3, <2>4
<1>8. Barren(b) => Barren(b)'
  <2>1. rows'[b].uid = rows[b].uid /\ t.sess # rows[b].uid
    BY <1>4, <1>6
  <2>2. CASE n = 0
    <3>1. Cold(b) => Cold(b)'
      BY <1>4, <1>7, <2>1, <2>2 DEF Cold, Honoured
    <3>2. Shut(b) => Shut(b)'
      BY <1>4, <1>7, <2>2 DEF Shut
    <3> QED BY <1>4, <3>1, <3>2 DEF Barren
  <2>3. CASE n # 0
    <3>1. Cold(b)'
      BY <1>4, <1>6, <1>7, <2>1, <2>3 DEF Cold, Honoured
    <3> QED BY <3>1 DEF Barren
  <2> QED BY <2>2, <2>3
<1>9. Spent' \/ (Barren(b)' /\ rows'[b].state # "active")
  BY <1>1, <1>3, <1>4, <1>8
<1>10. SplitAt(b)'
  <2>1. kc'[b].refresh.sess # rows'[b].uid
    BY <1>4, <1>6, <1>7
  <2>2. Leftover(b)' \/ (Spent' /\ \E q \in Procs : (box[q] = b /\ Reenters(q))')
    BY <1>2, <1>9, <2>1 DEF Leftover
  <2>3. Spent' \/ rows'[b].uid = 0 \/ (kc'[b].refresh # NoToken /\ kc'[b].access # NoToken)
    BY <1>1, <1>4, <1>6, <1>7
  <2> QED BY <2>2, <2>3 DEF SplitAt
<1>11. Barred(p)'
  <2>1. ~Confirms(p)'
    BY <1>2, LeftOfOne DEF Confirms
  <2> QED BY <1>9, <2>1 DEF Barred
<1> QED BY <1>10, <1>11, WriteShows

LEMMA EnterSplits ==
  ASSUME OneAtATime, OneFailure, SoloInv, SplitInv, [Next]_vars, NEW p \in Procs, Write(p),
         cmd[p] = "refresh", Left(p, WriteSecrets), Enters(p, Done(p, WriteSecrets))
  PROVE  SplitInv'
<1>1. PICK b, op : b = box[p] /\ op = Head(plan[p])
  OBVIOUS
<1>2. /\ b \in Ids /\ op \in Ops /\ pc[p] = "write" /\ plan[p] \in Seq(Ops) /\ SessionType
      /\ \/ pc'[p] = "idle" /\ Tail(plan[p]) = << >>
         \/ /\ pc'[p] = "write" /\ cmd'[p] = cmd[p] /\ box'[p] = b
            /\ plan'[p] = Tail(plan[p]) /\ Tail(plan[p]) # << >>
  BY <1>1, WriteGoes DEF SoloInv, TokenInv
<1>3. /\ Done(p, WriteSecrets) \in 0..5 /\ op = WriteSecrets[Done(p, WriteSecrets) + 1]
      /\ Tail(plan[p]) = << >> <=> Done(p, WriteSecrets) = 5
      /\ plan'[p] = Tail(plan[p]) /\ Tail(plan[p]) # << >> =>
            Left(p, WriteSecrets)' /\ Done(p, WriteSecrets)' = Done(p, WriteSecrets) + 1
  <2>1. WriteSecrets \in Seq(Ops) /\ Len(WriteSecrets) = 6 /\ 6 \in Nat /\ 6 - 1 = 5
    BY PlanOps
  <2>2. Done(p, WriteSecrets) \in 0..(6 - 1) /\ op = WriteSecrets[Done(p, WriteSecrets) + 1]
    BY <1>1, <1>2, <2>1, Stands
  <2>3. Tail(plan[p]) = << >> <=> Done(p, WriteSecrets) = 6 - 1
    BY <1>1, <1>2, <2>1, Stands
  <2>4. plan'[p] = Tail(plan[p]) /\ Tail(plan[p]) # << >> =>
            Left(p, WriteSecrets)' /\ Done(p, WriteSecrets)' = Done(p, WriteSecrets) + 1
    BY <1>1, <1>2, <2>1, Stands
  <2> HIDE DEF Done
  <2> QED BY <2>1, <2>2, <2>3, <2>4
<1>4. PICK n \in 0..5 : n = Done(p, WriteSecrets)
  BY <1>3
<1>5. /\ n = 0 => op = <<"set", "refresh">>
      /\ n = 1 => op = <<"set", "access">>
      /\ n = 2 => op = <<"set", "passphrase">>
      /\ n = 3 => op = <<"set", "keypass">>
      /\ n = 4 => op = <<"row", "uid">>
      /\ n = 5 => op = <<"row", "active">>
  BY <1>3, <1>4, WriteSecretsIs
<1>6. Enters(p, n)
  BY <1>4
<1>7. CASE n <= 3
  <2>1. /\ pc'[p] = "write" /\ cmd'[p] = "refresh" /\ box'[p] = b
        /\ Left(p, WriteSecrets)' /\ Done(p, WriteSecrets)' = n + 1
    BY <1>2, <1>3, <1>4, <1>7
  <2>2. PICK k \in Kinds :
            /\ op = <<"set", k>>
            /\ \/ n = 0 /\ k = "refresh"
               \/ n = 1 /\ k = "access"
               \/ n >= 2 /\ k \notin {"refresh", "access"}
    BY <1>5, <1>7 DEF Kinds
  <2>3. n \in 0..3
    BY <1>7
  <2> QED BY <1>1, <1>4, <1>6, <2>1, <2>2, <2>3, SecretSplits
<1>8. CASE n > 3
  <2>1. /\ n \in 4..5 /\ op[1] = "row"
        /\ n = 4 => op = <<"row", "uid">>
        /\ n = 5 => op[2] = "active"
    BY <1>5, <1>8
  <2>2. kc' = kc
    BY <1>1, <1>2, <2>1, KcWritten
  <2>3. rows'[b].uid = client[p].uid
    <3>1. CASE n = 4
      BY <1>1, <1>2, <2>1, <3>1, UidWritten
    <3>2. CASE n = 5
      <4>1. rows'[b].uid = rows[b].uid
        BY <1>1, <1>2, <2>1, <3>2, UidWritten
      <4> QED BY <1>1, <1>6, <3>2, <4>1 DEF Enters
    <3> QED BY <2>1, <3>1, <3>2
  <2>4. ~Split(b)' /\ kc'[b].refresh # NoToken /\ kc'[b].access # NoToken
    BY <1>1, <1>6, <2>1, <2>2, <2>3, EntersOne
  <2>5. SplitAt(b)'
    BY <2>4 DEF SplitAt
  <2>6. ASSUME pc'[p] = "write"
        PROVE  Barred(p)'
    <3>1. /\ cmd'[p] = "refresh" /\ box'[p] = b /\ Done(p, WriteSecrets)' = n + 1
      BY <1>2, <1>3, <1>4, <2>6
    <3>2. ~Reenters(p)'
      BY <1>8, <3>1 DEF Reenters
    <3> QED BY <2>4, <2>6, <3>1, <3>2 DEF Barred, Relogs
  <2> QED BY <1>1, <2>5, <2>6, WriteShows
<1> QED BY <1>7, <1>8

LEMMA FlagsSplit ==
  ASSUME OneAtATime, OneFailure, SoloInv, SplitInv, [Next]_vars, NEW p \in Procs, Write(p),
         \/ cmd[p] \in {"labels", "refresh"} /\ plan[p] = FlagOnly
         \/ cmd[p] = "sync" /\ Left(p, FlagThenUid) /\ Done(p, FlagThenUid) = 0
  PROVE  SplitInv'
<1>1. PICK b, op : b = box[p] /\ op = Head(plan[p])
  OBVIOUS
<1>2. /\ b \in Ids /\ op \in Ops /\ plan[p] \in Seq(Ops) /\ SessionType /\ (Spent' <=> Spent)
      /\ \/ pc'[p] = "idle" /\ Tail(plan[p]) = << >>
         \/ pc'[p] = "write" /\ cmd'[p] = cmd[p] /\ Tail(plan[p]) # << >>
      /\ Spent \/ rows[b].uid = 0 \/ (kc[b].refresh # NoToken /\ kc[b].access # NoToken)
  BY <1>1, WriteGoes DEF SoloInv, TokenInv
<1>3. op = <<"row", "needs_reauth">> /\ (plan[p] = FlagOnly => Tail(plan[p]) = << >>)
  <2>1. CASE plan[p] = FlagOnly
    BY <1>1, <2>1 DEF FlagOnly
  <2>2. CASE plan[p] # FlagOnly
    <3>1. op = FlagThenUid[0 + 1]
      BY <1>1, <1>2, <2>2, LeftGoesOn, PlanOps
    <3> QED BY <2>2, <3>1 DEF FlagThenUid
  <2> QED BY <2>1, <2>2
<1>4. op[1] = "row" /\ op[2] = "needs_reauth"
  BY <1>3
<1>5. kc' = kc /\ rows'[b].uid = rows[b].uid /\ rows'[b].state = "needs_reauth"
  <2>1. kc' = kc
    BY <1>1, <1>2, <1>4, KcWritten
  <2>2. rows'[b].uid = rows[b].uid
    BY <1>1, <1>2, <1>4, UidWritten
  <2>3. rows' = [rows EXCEPT ![b] = RowAfter(p, op)]
    BY <1>1, <1>4 DEF Write, Stores
  <2>4. rows[b] \in [state : States, user : BOOLEAN, uid : Uids] /\ b \in DOMAIN rows
    BY <1>2 DEF SessionType, StoreType
  <2>5. RowAfter(p, op).state = "needs_reauth"
    BY <1>1, <1>4, <2>4 DEF RowAfter
  <2> QED BY <2>1, <2>2, <2>3, <2>4, <2>5
<1>6. ~Reenters(p)
  <2>1. ASSUME plan[p] = FlagOnly, Reenters(p)
        PROVE  FALSE
    <3>1. Len(plan[p]) = 1
      BY <2>1 DEF FlagOnly
    <3>2. Done(p, WriteSecrets) = 5
      BY <3>1, WriteSecretsIs DEF Done
    <3> QED BY <2>1, <3>2 DEF Reenters
  <2> QED BY <2>1 DEF Reenters
<1>7. Split(b)' => Leftover(b)'
  <2> SUFFICES ASSUME Split(b)'
               PROVE  Leftover(b)'
    OBVIOUS
  <2>1. Split(b)
    BY <1>5 DEF Split
  <2>2. Leftover(b)
    BY <1>1, <1>6, <2>1, WriteGoes
  <2>3. Barren(b)'
    BY <1>2, <1>5, <2>2, BarrenKeeps DEF Leftover
  <2> QED BY <1>5, <2>2, <2>3 DEF Leftover
<1>8. SplitAt(b)'
  BY <1>2, <1>5, <1>7 DEF SplitAt
<1>9. ASSUME pc'[p] = "write"
      PROVE  Barred(p)'
  <2>1. cmd'[p] = "sync"
    BY <1>2, <1>3, <1>9
  <2> QED BY <1>9, <2>1 DEF Barred, Relogs, Reenters, Confirms
<1> QED BY <1>1, <1>8, <1>9, WriteShows

LEMMA WriteSplits ==
  ASSUME OneAtATime, OneFailure, SoloInv, SplitInv, [Next]_vars, NEW p \in Procs, Write(p)
  PROVE  SplitInv'
<1>1. pc[p] = "write"
  BY DEF Write
<1>2. Writing(p) /\ Placed(p)
  BY <1>1 DEF SoloInv, CarryInv, PlaceInv
<1>3. CASE cmd[p] \in {"remove", "cleanup"}
  <2>1. Removes(p)
    BY <1>1, <1>2, <1>3 DEF Placed, Updates
  <2> QED BY <1>3, <2>1, RemoveSplits
<1>4. CASE cmd[p] \notin {"remove", "cleanup"}
  <2>1. CASE cmd[p] = "add" /\ Left(p, AddPlan) /\ Enters(p, Done(p, AddPlan) - 2)
    BY <2>1, AddSplits
  <2>2. CASE /\ cmd[p] \in {"sync", "labels"} /\ Left(p, PersistPlan)
             /\ Persists(p, Done(p, PersistPlan))
    BY <2>2, PersistSplits
  <2>3. CASE cmd[p] = "refresh" /\ Left(p, RefreshPlan) /\ Persists(p, Done(p, RefreshPlan))
    BY <2>3, PersistSplits
  <2>4. CASE cmd[p] = "refresh" /\ Left(p, WriteSecrets) /\ Enters(p, Done(p, WriteSecrets))
    BY <2>4, EnterSplits
  <2>5. CASE \/ cmd[p] \in {"labels", "refresh"} /\ plan[p] = FlagOnly
             \/ cmd[p] = "sync" /\ Left(p, FlagThenUid) /\ Done(p, FlagThenUid) = 0
    BY <2>5, FlagsSplit
  <2> QED BY <1>2, <1>4, <2>1, <2>2, <2>3, <2>4, <2>5 DEF Writing
<1> QED BY <1>3, <1>4

LEMMA NextSplits ==
  OneAtATime /\ OneFailure /\ SoloInv /\ SplitInv /\ [Next]_vars => SplitInv'
<1> SUFFICES ASSUME OneAtATime, OneFailure, SoloInv, SplitInv, [Next]_vars
             PROVE  SplitInv'
  OBVIOUS
<1>1. CASE Expire \/ ChangeKeys \/ UNCHANGED vars
  BY <1>1, OutsideSplits
<1>2. ASSUME NEW p \in Procs, Step(p)
      PROVE  SplitInv'
  <2>1. CASE StartAdd(p) \/ StartRemove(p) \/ StartResume(p)
    BY <2>1, StartSplits
  <2>2. CASE Works(p)
    BY <1>2, <2>2, WorksSplit
  <2>3. CASE Login(p)
    BY <2>3, LoginSplits
  <2>4. CASE Flag(p)
    BY <2>4, FlagSplits
  <2>5. CASE Write(p)
    BY <2>5, WriteSplits
  <2>6. CASE WriteFails(p) \/ Crash(p) \/ LoginFails(p) \/ Interrupt(p)
    BY <2>6, StopsSplit
  <2> QED BY <1>2, <2>1, <2>2, <2>3, <2>4, <2>5, <2>6 DEF Step, Works
<1> QED BY <1>1, <1>2 DEF Next

LEMMA InitSplits == Init => SplitInv
<1> SUFFICES ASSUME Init
             PROVE  SplitInv
  OBVIOUS
<1>1. /\ kc = [id \in Ids |-> IF id \in Added THEN AddedSecrets ELSE NoSecrets]
      /\ rows = [id \in Ids |-> IF id \in Added THEN AddedRow ELSE NoRow]
      /\ \A p \in Procs : pc[p] = "idle"
  BY DEF Init
<1>2. ASSUME NEW id \in Ids
      PROVE  SplitAt(id)
  <2>1. CASE id \in Added
    BY <1>1, <2>1 DEF SplitAt, Split, AddedSecrets, AddedRow, NoToken
  <2>2. CASE id \notin Added
    BY <1>1, <2>2 DEF SplitAt, Split, NoSecrets, NoRow
  <2> QED BY <2>1, <2>2
<1>3. ASSUME NEW p \in Procs
      PROVE  Barred(p)
  BY <1>1 DEF Barred, Relogs, Reenters, Confirms
<1> QED BY <1>2, <1>3 DEF SplitInv

LEMMA SplitTells ==
  ASSUME OneAtATime, SoloInv, SplitInv
  PROVE  ActiveIsOneSession
<1> SUFFICES ASSUME NEW id \in Ids, rows[id].state = "active", rows[id].uid # 0, ~InUse(id)
             PROVE  ~Split(id)
  BY DEF ActiveIsOneSession, Split
<1>1. ~\E p \in Procs : box[p] = id /\ Reenters(p)
  BY DEF InUse, Reenters
<1> QED BY <1>1 DEF SplitInv, SplitAt, Leftover

\* Where commands run one at a time and one thing fails, an active mailbox that
\* no command is using has its tokens of the session that its row names, though a
\* re-login was cut short: auth refresh flags the mailbox before it asks for a
\* login, and what it then leaves half stored no later command can resume and
\* declare active (authRefresh, tryCheapResume, writeMailboxSecrets).
THEOREM TokensAreOfTheSession == OneAtATime /\ OneFailure /\ Spec => []ActiveIsOneSession
<1> SUFFICES ASSUME OneAtATime, OneFailure
             PROVE  Spec => []ActiveIsOneSession
  OBVIOUS
<1>1. SoloInv /\ SplitInv /\ [Next]_vars => SplitInv'
  BY NextSplits
<1>2. SoloInv /\ SplitInv => ActiveIsOneSession
  BY SplitTells
<1>3. Spec => []SoloInv
  BY SoloAlways
<1> QED BY <1>1, <1>2, <1>3, InitSplits, PTL DEF Spec

=============================================================================
