------------------------------ MODULE Session ------------------------------
(***************************************************************************)
(* What lets a mailbox sync: its row (internal/store/mailboxes.go), its    *)
(* secrets in the OS keychain (internal/keychain) and the Proton session   *)
(* they name, as the commands read, use, rotate and write them             *)
(* (internal/cli auth.go and labels.go, internal/sync mailbox.go,          *)
(* internal/proton gpa_client.go).  Each command is a process of its own,  *)
(* and nothing locks the row or the secrets while one runs.                *)
(*                                                                         *)
(* A token is the session that minted it and its generation in it: Proton  *)
(* honours the latest only.  A passphrase, or key pass, is the version of  *)
(* the account's keys it opens.  0 stands for an absent value throughout.  *)
(* What a sync does with an unlocked client is module MailboxSync.         *)
(***************************************************************************)
EXTENDS Integers, Sequences, FiniteSets

CONSTANTS
    Ids,              \* mailbox ids that authAdd may generate
    Added,            \* the mailbox added before the first step, if any
    Procs,            \* processes that may run a command at a time
    Commands,         \* the commands this instance runs
    MaxSessions,      \* bound: sessions opened at Proton
    MaxGen,           \* bound: access tokens of later generations do not expire
    MaxKeys,          \* bound: versions of the account's keys
    Disturbances,     \* the kinds of failure this instance explores
    MaxDisturbances   \* bound: how many of them happen

ASSUME SessionBounds ==
    /\ Added \subseteq Ids /\ \A i, j \in Added : i = j
    /\ Commands \subseteq {"add", "remove", "sync", "labels", "refresh"}
    /\ Disturbances \subseteq {"net", "lost", "cancel", "keychain", "store", "crash"}
    /\ MaxSessions \in Nat /\ MaxGen \in Nat \ {0} /\ MaxKeys \in Nat \ {0}
    /\ MaxDisturbances \in Nat /\ (Added # {} => MaxSessions > 0)

VARIABLES
    gen,        \* Proton: each session's current generation, 0 if not opened
    expired,    \* Proton: sessions whose current access token has expired
    full,       \* Proton: sessions that still have the 2FA-elevated scope
    keys,       \* Proton: versions of the passphrase and the salted key pass
    rows,       \* the mailboxes table
    kc,         \* the OS keychain: the secrets under each mailbox id
    pc, cmd,    \* per process: its step and its command
    box,        \* per process: the mailbox id it works on
    seed,       \* per process: the credentials it read
    client,     \* per process: its Proton client's credentials
    plan,       \* per process: the writes it still has to do
    disturbed   \* failures so far

proton == <<gen, expired, full, keys>>
procs == <<pc, cmd, box, seed, client, plan>>
vars == <<proton, rows, kc, procs, disturbed>>

Sessions == 1..MaxSessions
NoToken == [sess |-> 0, gen |-> 0]
Kinds == {"refresh", "access", "passphrase", "keypass"}
NoSecrets ==
    [refresh |-> NoToken, access |-> NoToken, passphrase |-> 0, keypass |-> 0]
NoRow == [state |-> "none", user |-> FALSE, uid |-> 0]
\* A client's session uid and secrets, and the keys its keyrings opened with.
NoClient == [uid |-> 0, refresh |-> NoToken, access |-> NoToken,
             passphrase |-> 0, keypass |-> 0, unlocked |-> 0]

Disturb(kind) ==
    /\ kind \in Disturbances /\ disturbed < MaxDisturbances
    /\ disturbed' = disturbed + 1

-----------------------------------------------------------------------------
(* Writes.  A command ends with a list of them, each a step of its own.    *)

\* The order of keychain.allKinds, and of writeMailboxSecrets.
AllKinds == <<"refresh", "access", "passphrase", "keypass">>
Each(verb) == [i \in 1..4 |-> <<verb, AllKinds[i]>>]
WriteSecrets ==
    Each("set") \o << <<"row", "uid">>, <<"row", "active">> >>
AddPlan == << <<"row", "insert">>, <<"row", "user">> >> \o WriteSecrets
\* Mutant: the row goes before its secrets.
RowDropsFirst == << <<"row", "drop">> >> \o Each("delete")
RemovePlan == Append(Each("delete"), <<"row", "drop">>)
PersistPlan ==
    << <<"rotate", "access">>, <<"rotate", "refresh">>, <<"rotate", "uid">> >>
RefreshPlan == Append(PersistPlan, <<"row", "active">>)

\* Mutant: whatever the client holds is written back.
AlwaysRotated(p, what) == TRUE

\* A value is written back only when the client holds another than was read.
Rotated(p, what) == client[p][what] # seed[p][what]

Stores(p, op) ==
    \/ op[1] = "row"
    \/ op = <<"rotate", "uid">> /\ Rotated(p, "uid")
\* Mutant: the rotated access token is not stored.
ForgetsAccess(p, op) ==
    \/ op[1] \in {"set", "delete"}
    \/ op = <<"rotate", "refresh">> /\ Rotated(p, "refresh")
UsesKeychain(p, op) ==
    \/ op[1] \in {"set", "delete"}
    \/ op \in {<<"rotate", "access">>, <<"rotate", "refresh">>} /\ Rotated(p, op[2])

\* Another row holds the Proton account: proton_user_id is UNIQUE.
AccountTaken(id) == \E i \in Ids \ {id} : rows[i].user

\* The write cannot be done on the rows as they are.
Refused(p, op) ==
    \/ op = <<"row", "user">> /\ AccountTaken(box[p])
    \/ /\ op \in {<<"row", "user">>, <<"row", "uid">>, <<"row", "active">>,
                  <<"row", "needs_reauth">>, <<"rotate", "uid">>}
       /\ Stores(p, op) /\ rows[box[p]] = NoRow

RowAfter(p, op) ==
    CASE op[2] = "insert" -> [NoRow EXCEPT !.state = "pending_auth"]
      [] op[2] = "user" -> [rows[box[p]] EXCEPT !.user = TRUE, !.state = "active"]
      [] op[2] = "uid" -> [rows[box[p]] EXCEPT !.uid = client[p].uid]
      [] op[2] \in {"active", "needs_reauth"} -> [rows[box[p]] EXCEPT !.state = op[2]]
      [] op[2] = "drop" -> NoRow

SecretAfter(p, op) ==
    IF op[1] = "delete" THEN NoSecrets[op[2]] ELSE client[p][op[2]]

\* Mutant: a refresh token that could not be stored is only logged.
NeverFlags(c, op, rest) ==
    CASE c = "sync" -> rest
      [] c = "add" /\ op # <<"row", "insert">> -> RemovePlan
      [] c = "cleanup" /\ op[1] = "delete" -> << <<"row", "drop">> >>
      [] OTHER -> << >>

\* What is left to do when a write fails: the engine goes on, and flags the
\* mailbox if the new refresh token is lost; the CLI stops at the first error,
\* and flags it in that same case; a failed add undoes what it did.
AfterFailure(c, op, rest) ==
    CASE c = "sync" /\ op = <<"rotate", "refresh">> ->
           << <<"row", "needs_reauth">> >> \o rest
      [] c = "sync" /\ op # <<"rotate", "refresh">> -> rest
      [] c \in {"labels", "refresh"} /\ op = <<"rotate", "refresh">> ->
           << <<"row", "needs_reauth">> >>
      [] c = "add" /\ op # <<"row", "insert">> -> RemovePlan
      [] c = "cleanup" /\ op[1] = "delete" -> << <<"row", "drop">> >>
      [] OTHER -> << >>

CommandAfterFailure(c, op) ==
    IF c = "add" /\ op # <<"row", "insert">> THEN "cleanup" ELSE c

-----------------------------------------------------------------------------
(* The end of a command.                                                   *)

\* p's command is over; a client's credentials die with it.
EndCommand(p) ==
    /\ pc' = [pc EXCEPT ![p] = "idle"]
    /\ cmd' = [cmd EXCEPT ![p] = "none"]
    /\ box' = [box EXCEPT ![p] = "none"]
    /\ seed' = [seed EXCEPT ![p] = NoClient]
    /\ client' = [client EXCEPT ![p] = NoClient]
    /\ plan' = [plan EXCEPT ![p] = << >>]

Proceed(p, step) ==
    /\ pc' = [pc EXCEPT ![p] = step]
    /\ UNCHANGED <<cmd, box, seed, client, plan>>

BeginWrites(p, ops) ==
    /\ pc' = [pc EXCEPT ![p] = "write"]
    /\ plan' = [plan EXCEPT ![p] = ops]
    /\ UNCHANGED <<cmd, box, seed>>

ContinueWith(p, c, ops) ==
    IF ops = << >>
    THEN EndCommand(p)
    ELSE /\ plan' = [plan EXCEPT ![p] = ops]
         /\ cmd' = [cmd EXCEPT ![p] = c]
         /\ UNCHANGED <<pc, box, seed, client>>

Write(p) ==
    /\ pc[p] = "write"
    /\ LET op == Head(plan[p])
       IN  /\ ~Refused(p, op)
           /\ rows' = IF Stores(p, op)
                      THEN [rows EXCEPT ![box[p]] = RowAfter(p, op)] ELSE rows
           /\ kc' = IF UsesKeychain(p, op)
                    THEN [kc EXCEPT ![box[p]][op[2]] = SecretAfter(p, op)] ELSE kc
    /\ ContinueWith(p, cmd[p], Tail(plan[p]))
    /\ UNCHANGED <<proton, disturbed>>

\* A row is written under the context of the run, which Ctrl-C cancels in a
\* sync; a secret is not.
WriteFails(p) ==
    /\ pc[p] = "write"
    /\ LET op == Head(plan[p])
       IN  /\ \/ Refused(p, op) /\ UNCHANGED disturbed
              \/ Stores(p, op) /\ ~Refused(p, op) /\ Disturb("store")
              \/ Stores(p, op) /\ cmd[p] = "sync" /\ Disturb("cancel")
              \/ UsesKeychain(p, op) /\ Disturb("keychain")
           /\ ContinueWith(p, CommandAfterFailure(cmd[p], op),
                           AfterFailure(cmd[p], op, Tail(plan[p])))
    /\ UNCHANGED <<proton, rows, kc>>

\* Mutant: no command flags what it found dead.
RefusalUnflagged(c) == IF c = "refresh" THEN "login" ELSE "end"

\* Mutant: auth refresh asks for a login while the mailbox is still active.
LoginUnflagged(c) ==
    CASE c = "labels" -> "end" [] c = "refresh" -> "login" [] OTHER -> "flag"

\* The credentials will not do.  sync flags the mailbox and ends; auth refresh
\* flags it and asks for a login; labels just fails.
AfterRefusal(c) == IF c = "labels" THEN "end" ELSE "flag"

GiveUp(p) ==
    IF AfterRefusal(cmd[p]) = "end"
    THEN EndCommand(p) ELSE Proceed(p, AfterRefusal(cmd[p]))

\* SetMailboxState(needs_reauth): its error is logged, or ignored.
Flag(p) ==
    /\ pc[p] = "flag"
    /\ \/ /\ rows[box[p]] # NoRow /\ UNCHANGED disturbed
          /\ rows' = [rows EXCEPT ![box[p]].state = "needs_reauth"]
       \/ /\ rows[box[p]] = NoRow /\ UNCHANGED <<rows, disturbed>>
       \/ Disturb("store") /\ UNCHANGED rows
    /\ IF cmd[p] = "refresh" THEN Proceed(p, "login") ELSE EndCommand(p)
    /\ UNCHANGED <<proton, kc>>

-----------------------------------------------------------------------------
(* One authenticated call to Proton, by the client of process p.           *)

Honoured(token, uid) ==
    token.sess = uid /\ uid \in Sessions /\ token.gen = gen[uid]

Authorized(p) ==
    Honoured(client[p].access, client[p].uid) /\ client[p].uid \notin expired
CanRotate(p) == ~Authorized(p) /\ Honoured(client[p].refresh, client[p].uid)

NextToken(s) == [sess |-> s, gen |-> gen[s] + 1]

\* The call gets through, after a lazy refresh if its access token no longer
\* works: onAuth then holds the new tokens, and the session's scope is reduced.
Reach(p) ==
    \/ Authorized(p) /\ UNCHANGED <<gen, expired, full, client>>
    \/ /\ CanRotate(p)
       /\ LET s == client[p].uid
          IN  /\ gen' = [gen EXCEPT ![s] = @ + 1]
              /\ expired' = expired \ {s} /\ full' = full \ {s}
              /\ client' = [client EXCEPT ![p].refresh = NextToken(s),
                                          ![p].access = NextToken(s)]

\* A lazy refresh spends the refresh token at Proton, and the new tokens do not
\* get back to the client, which keeps the old ones.
AnswerLost(p) ==
    /\ CanRotate(p)
    /\ LET s == client[p].uid
       IN  /\ gen' = [gen EXCEPT ![s] = @ + 1]
           /\ expired' = expired \ {s} /\ full' = full \ {s}

\* The call fails: before or after a lazy refresh, or for want of a session.
CallFails(p) ==
    \/ Disturb("net") /\ (UNCHANGED <<gen, expired, full>> \/ AnswerLost(p))
    \/ /\ ~Authorized(p) /\ ~CanRotate(p)
       /\ UNCHANGED <<gen, expired, full, disturbed>>

-----------------------------------------------------------------------------
(* Commands begin.                                                         *)

Begin(p, c, id, step) ==
    /\ pc[p] = "idle" /\ c \in Commands
    /\ pc' = [pc EXCEPT ![p] = step] /\ cmd' = [cmd EXCEPT ![p] = c]
    /\ box' = [box EXCEPT ![p] = id]
    /\ UNCHANGED <<proton, rows, kc, client, disturbed>>

\* authAdd: the address is not configured; the id it will use is a new one.
StartAdd(p) ==
    \E id \in Ids :
        /\ \A i \in Ids : rows[i] = NoRow
        /\ kc[id] = NoSecrets /\ \A q \in Procs : box[q] # id
        /\ Begin(p, "add", id, "login")
        /\ UNCHANGED <<seed, plan>>

\* authRemove.
StartRemove(p) ==
    \E id \in Ids :
        /\ rows[id] # NoRow
        /\ Begin(p, "remove", id, "write")
        /\ plan' = [plan EXCEPT ![p] = RemovePlan]
        /\ UNCHANGED seed

\* sync, labels and auth refresh read the row first.  One that has never
\* authenticated is refused, and flagged by sync.
StartResume(p) ==
    \E id \in Ids, c \in {"sync", "labels", "refresh"} :
        /\ rows[id] # NoRow /\ (rows[id].user \/ c = "sync")
        /\ Begin(p, c, id, IF rows[id].user THEN "readRefresh" ELSE "flag")
        /\ seed' = [seed EXCEPT ![p].uid = rows[id].uid]
        /\ UNCHANGED plan

Read(p, kind, step) ==
    /\ seed' = [seed EXCEPT ![p][kind] = kc[box[p]][kind]]
    /\ pc' = [pc EXCEPT ![p] = step]
    /\ UNCHANGED <<cmd, box, client, plan>>

\* No refresh token, or no session uid to go with it.
ReadRefreshToken(p) ==
    /\ pc[p] = "readRefresh"
    /\ IF kc[box[p]].refresh = NoToken \/ seed[p].uid = 0
       THEN GiveUp(p) ELSE Read(p, "refresh", "readAccess")
    /\ UNCHANGED <<proton, rows, kc, disturbed>>

ReadAccessToken(p) ==
    /\ pc[p] = "readAccess"
    /\ IF kc[box[p]].access = NoToken
       THEN GiveUp(p) ELSE Read(p, "access", "resume")
    /\ UNCHANGED <<proton, rows, kc, disturbed>>

\* Resume reuses the session as it was stored, and calls nobody.
Resume(p) ==
    /\ pc[p] = "resume"
    /\ client' = [client EXCEPT ![p] = seed[p]]
    /\ pc' = [pc EXCEPT ![p] = IF cmd[p] = "sync" THEN "readKeyPass" ELSE "probe"]
    /\ UNCHANGED <<proton, rows, kc, cmd, box, seed, plan, disturbed>>

ReadKeyPass(p) ==
    /\ pc[p] = "readKeyPass"
    /\ Read(p, "keypass", IF kc[box[p]].keypass = 0
                          THEN "readPassphrase" ELSE "callForKeys")
    /\ UNCHANGED <<proton, rows, kc, disturbed>>

ReadPassphrase(p) ==
    /\ pc[p] = "readPassphrase"
    /\ IF kc[box[p]].passphrase = 0
       THEN GiveUp(p) ELSE Read(p, "passphrase", "callForSalts")
    /\ UNCHANGED <<proton, rows, kc, disturbed>>

\* The keychain cannot be reached: an error of the environment, that flags
\* nothing unless sync is already unlocking.
ReadFails(p) ==
    /\ pc[p] \in {"readRefresh", "readAccess", "readKeyPass", "readPassphrase"}
    /\ Disturb("keychain")
    /\ IF cmd[p] = "sync" /\ pc[p] \in {"readKeyPass", "readPassphrase"}
       THEN GiveUp(p) ELSE EndCommand(p)
    /\ UNCHANGED <<proton, rows, kc>>

-----------------------------------------------------------------------------
(* Using the session.                                                      *)

\* Mutant: a Labels call that gets through is proof enough.
ProbeIsEnough(c) == "write"

\* What labels and auth refresh do once the Labels call has got through.
AfterProbe(c) == IF c = "labels" THEN "write" ELSE "readKeyPass"

Probe(p) ==
    /\ pc[p] = "probe"
    /\ Reach(p)
    /\ pc' = [pc EXCEPT ![p] = AfterProbe(cmd[p])]
    /\ plan' = [plan EXCEPT ![p] =
                    CASE AfterProbe(cmd[p]) # "write" -> << >>
                      [] cmd[p] = "labels" -> PersistPlan
                      [] OTHER -> RefreshPlan]
    /\ UNCHANGED <<keys, rows, kc, cmd, box, seed, disturbed>>

\* GetUser and GetAddresses, before either unlock, and GetSalts.
CallForKeys(p) ==
    /\ pc[p] \in {"callForKeys", "callForSalts"}
    /\ Reach(p)
    /\ pc' = [pc EXCEPT ![p] = IF @ = "callForKeys" THEN "open" ELSE "derive"]
    /\ UNCHANGED <<keys, rows, kc, cmd, box, seed, plan, disturbed>>

\* Whatever the command, a failed call drops the tokens a lazy refresh rotated
\* on the way.
CallForKeysFails(p) ==
    /\ pc[p] \in {"probe", "callForKeys", "callForSalts"}
    /\ CallFails(p)
    /\ GiveUp(p)
    /\ UNCHANGED <<keys, rows, kc>>

\* Ctrl-C cancels the context of a sync: the call under way fails, and the
\* flag that should follow, or the flag alone.  (It kills any other command.)
Interrupt(p) ==
    /\ cmd[p] = "sync" /\ pc[p] \in {"callForKeys", "callForSalts", "flag"}
    /\ Disturb("cancel")
    /\ \/ UNCHANGED <<gen, expired, full>>
       \/ pc[p] # "flag" /\ AnswerLost(p)
    /\ EndCommand(p)
    /\ UNCHANGED <<keys, rows, kc>>

Unlocked(p) ==
    client' = [client EXCEPT ![p].keypass = keys.keypass,
                             ![p].unlocked = keys.keypass]

AfterUnlock(p) ==
    IF cmd[p] = "sync"
    THEN /\ pc' = [pc EXCEPT ![p] = "sync"]
         /\ UNCHANGED <<cmd, box, seed, plan>>
    ELSE BeginWrites(p, RefreshPlan)

\* gpa.Unlock with the stored key pass; a stale one leads to the passphrase.
UnlockWithKeyPass(p) ==
    /\ pc[p] = "open"
    /\ IF seed[p].keypass = keys.keypass
       THEN Unlocked(p) /\ AfterUnlock(p)
       ELSE Proceed(p, "readPassphrase")
    /\ UNCHANGED <<proton, rows, kc, disturbed>>

\* The salts need the elevated scope, and then the passphrase must be right.
Unlock(p) ==
    /\ pc[p] = "derive"
    /\ IF client[p].uid \in full /\ seed[p].passphrase = keys.passphrase
       THEN /\ Unlocked(p)
            /\ pc' = [pc EXCEPT ![p] = "heal"]
            /\ UNCHANGED <<cmd, box, seed, plan>>
       ELSE GiveUp(p)
    /\ UNCHANGED <<proton, rows, kc, disturbed>>

\* The key pass just derived is stored, so that the next resume needs no
\* salts; a failed write is only logged.
StoreKeyPass(p) ==
    /\ pc[p] = "heal"
    /\ \/ /\ kc' = [kc EXCEPT ![box[p]].keypass = client[p].keypass]
          /\ UNCHANGED disturbed
       \/ Disturb("keychain") /\ UNCHANGED kc
    /\ AfterUnlock(p)
    /\ UNCHANGED <<proton, rows, client>>

\* The run of module MailboxSync: its calls rotate the tokens at most.
SyncCalls(p) ==
    /\ pc[p] = "sync" /\ CanRotate(p)
    /\ Reach(p)
    /\ UNCHANGED <<keys, rows, kc, pc, cmd, box, seed, plan, disturbed>>

\* A refresh on the way loses its answer, to the network or to Ctrl-C; the run
\* fails by itself.  A call that fails otherwise changes nothing here.
SyncCallFails(p) ==
    /\ pc[p] = "sync" /\ (Disturb("lost") \/ Disturb("cancel"))
    /\ AnswerLost(p)
    /\ UNCHANGED <<keys, rows, kc, procs>>

\* However it ended, persistRotatedSession is deferred: it sees only tokens the
\* client got.
SyncEnds(p) ==
    /\ pc[p] = "sync"
    /\ BeginWrites(p, PersistPlan)
    /\ UNCHANGED <<proton, rows, kc, client, disturbed>>

\* interactiveAuth: a new session with the elevated scope, and keys the typed
\* passphrase opens.  An add then rejects an account that has a row.
Login(p) ==
    /\ pc[p] = "login"
    /\ \E s \in Sessions :
         /\ gen[s] = 0 /\ \A t \in 1..(s - 1) : gen[t] # 0
         /\ gen' = [gen EXCEPT ![s] = 1] /\ full' = full \union {s}
         /\ LET token == [sess |-> s, gen |-> 1]
            IN  IF cmd[p] = "add" /\ AccountTaken(box[p])
                THEN EndCommand(p)
                ELSE /\ client' = [client EXCEPT ![p] =
                            [uid |-> s, refresh |-> token, access |-> token,
                             passphrase |-> keys.passphrase,
                             keypass |-> keys.keypass, unlocked |-> keys.keypass]]
                     /\ BeginWrites(p, IF cmd[p] = "add" THEN AddPlan ELSE WriteSecrets)
    /\ UNCHANGED <<expired, keys, rows, kc, disturbed>>

\* A wrong answer, the operator's Ctrl-C, no network, or another account.
LoginFails(p) ==
    /\ pc[p] = "login"
    /\ EndCommand(p)
    /\ UNCHANGED <<proton, rows, kc, disturbed>>

\* The process dies.
Crash(p) ==
    /\ pc[p] # "idle"
    /\ Disturb("crash")
    /\ EndCommand(p)
    /\ UNCHANGED <<proton, rows, kc>>

-----------------------------------------------------------------------------
(* Proton.                                                                 *)

Expire ==
    /\ \E s \in Sessions \ expired :
         /\ gen[s] \in 1..(MaxGen - 1)
         /\ expired' = expired \union {s}
    /\ UNCHANGED <<gen, full, keys, rows, kc, procs, disturbed>>

\* The operator changes the password, or the key's salt only.
ChangeKeys ==
    /\ keys.keypass < MaxKeys
    /\ \E v \in {keys.passphrase, keys.keypass + 1} :
         keys' = [passphrase |-> v, keypass |-> keys.keypass + 1]
    /\ UNCHANGED <<gen, expired, full, rows, kc, procs, disturbed>>

-----------------------------------------------------------------------------

\* What a completed add leaves.
AddedRow == [state |-> "active", user |-> TRUE, uid |-> 1]
AddedSecrets == [refresh |-> [sess |-> 1, gen |-> 1], access |-> [sess |-> 1, gen |-> 1],
                 passphrase |-> 1, keypass |-> 1]

Init ==
    /\ gen = [s \in Sessions |-> IF s = 1 /\ Added # {} THEN 1 ELSE 0]
    /\ expired = {} /\ full = {s \in Sessions : gen[s] = 1}
    /\ keys = [passphrase |-> 1, keypass |-> 1]
    /\ rows = [id \in Ids |-> IF id \in Added THEN AddedRow ELSE NoRow]
    /\ kc = [id \in Ids |-> IF id \in Added THEN AddedSecrets ELSE NoSecrets]
    /\ pc = [p \in Procs |-> "idle"] /\ cmd = [p \in Procs |-> "none"]
    /\ box = [p \in Procs |-> "none"] /\ seed = [p \in Procs |-> NoClient]
    /\ client = [p \in Procs |-> NoClient] /\ plan = [p \in Procs |-> << >>]
    /\ disturbed = 0

Step(p) ==
    \/ StartAdd(p) \/ StartRemove(p) \/ StartResume(p)
    \/ ReadRefreshToken(p) \/ ReadAccessToken(p) \/ Resume(p)
    \/ ReadKeyPass(p) \/ ReadPassphrase(p) \/ ReadFails(p)
    \/ Probe(p) \/ CallForKeys(p) \/ CallForKeysFails(p) \/ Interrupt(p)
    \/ UnlockWithKeyPass(p) \/ Unlock(p) \/ StoreKeyPass(p)
    \/ SyncCalls(p) \/ SyncCallFails(p) \/ SyncEnds(p) \/ Login(p) \/ LoginFails(p)
    \/ Flag(p) \/ Write(p) \/ WriteFails(p) \/ Crash(p)

Next == Expire \/ ChangeKeys \/ \E p \in Procs : Step(p)

Spec == Init /\ [][Next]_vars

\* What a command does of itself, the operator at its prompt included.
Advance(p) ==
    \/ ReadRefreshToken(p) \/ ReadAccessToken(p) \/ Resume(p)
    \/ ReadKeyPass(p) \/ ReadPassphrase(p)
    \/ Probe(p) \/ CallForKeys(p) \/ CallForKeysFails(p)
    \/ UnlockWithKeyPass(p) \/ Unlock(p) \/ StoreKeyPass(p)
    \/ SyncEnds(p) \/ Login(p) \/ LoginFails(p)
    \/ Flag(p) \/ Write(p) \/ WriteFails(p)
SyncAgain(p) == StartResume(p) /\ cmd'[p] = "sync"

\* A command under way goes on, and the mailbox is synced again and again,
\* whatever else is run in between: sync --watch, or a timer.
FairSpec ==
    /\ Spec
    /\ \A p \in Procs : WF_vars(Advance(p)) /\ SF_vars(SyncAgain(p))

-----------------------------------------------------------------------------
(* Properties.                                                             *)

Gens == 0..(MaxGen + MaxDisturbances)
Token == [sess : 0..MaxSessions, gen : Gens]
Credentials ==
    [uid : 0..MaxSessions, refresh : Token, access : Token,
     passphrase : 0..MaxKeys, keypass : 0..MaxKeys, unlocked : 0..MaxKeys]
Steps == {"idle", "readRefresh", "readAccess", "resume", "probe", "readKeyPass",
          "readPassphrase", "callForKeys", "callForSalts", "open", "derive",
          "heal", "sync", "login", "flag", "write"}

\* Every variable keeps its type.  A session's tokens are rotated only when the
\* access token has expired, or a failure lost it.
TypeOK ==
    /\ gen \in [Sessions -> Gens]
    /\ expired \subseteq Sessions /\ full \subseteq Sessions
    /\ keys \in [passphrase : 1..MaxKeys, keypass : 1..MaxKeys]
    /\ rows \in [Ids -> [state : {"none", "pending_auth", "active", "needs_reauth"},
                         user : BOOLEAN, uid : 0..MaxSessions]]
    /\ kc \in [Ids -> [refresh : Token, access : Token,
                       passphrase : 0..MaxKeys, keypass : 0..MaxKeys]]
    /\ pc \in [Procs -> Steps]
    /\ cmd \in [Procs -> Commands \union {"none", "cleanup"}]
    /\ box \in [Procs -> Ids \union {"none"}]
    /\ seed \in [Procs -> Credentials] /\ client \in [Procs -> Credentials]
    /\ \A p \in Procs : plan[p] = << >> <=> pc[p] # "write"
    /\ disturbed \in 0..MaxDisturbances

\* The stored session is one that Proton will go on serving.
Resumable(id) ==
    /\ Honoured(kc[id].refresh, rows[id].uid)
    /\ kc[id].access.sess = rows[id].uid

\* The stored secrets open the account's keys.
Unlockable(id) ==
    \/ kc[id].keypass = keys.keypass
    \/ kc[id].passphrase = keys.passphrase /\ rows[id].uid \in full

InUse(id) == \E p \in Procs : box[p] = id

\* A mailbox listed as active, at rest, with a refresh token, has one that the
\* next sync can use.  Proton's refresh tokens are spent by their use, so a
\* token rotated but not stored must have flagged the mailbox
\* (persistRotatedSession; persistRotatedTokenOrFlag, auth.go 532-536).  The
\* code does that for the calls that open a mailbox and for the keychain; no
\* more, so this is asked where no refresh answer is lost during the run itself
\* and no run is cancelled, killed or refused by the store: then
\* LossComesToLight says what is left of it.
ActiveIsResumable ==
    \A id \in Ids :
        rows[id].state = "active" /\ ~InUse(id) /\ kc[id].refresh # NoToken =>
            Honoured(kc[id].refresh, rows[id].uid)

\* Proton no longer serves the session a mailbox stores, and its row says active.
Unnoticed(id) ==
    /\ rows[id].state = "active" /\ kc[id].refresh # NoToken
    /\ ~Honoured(kc[id].refresh, rows[id].uid)
    /\ Honoured(kc[id].access, rows[id].uid) => rows[id].uid \in expired

\* A spent session does not stay listed as active for good.  Whatever lost the
\* new tokens (an answer lost during the run, where persistRotatedSession sees
\* no change; Ctrl-C, that fails the call and the flag together; a crash before
\* the tokens are stored), the calls of some later sync are refused, and it
\* flags the mailbox (mailbox.go 36-51).
LossComesToLight == \A id \in Ids : Unnoticed(id) ~> ~Unnoticed(id)

\* However two syncs of a mailbox overlap, the stored refresh token is never
\* replaced by an older one of its session (persistRotatedToken's comparison
\* with the token the run started from).
TokensNeverGoBack ==
    [][\A id \in Ids :
           LET old == kc[id].refresh  new == kc'[id].refresh
           IN  new.sess = old.sess => new.gen >= old.gen]_vars

\* No secret outlives its mailbox's row, wherever a command stops: an add
\* writes the row first, a removal deletes it last.
NoOrphanSecrets == \A id \in Ids : kc[id] # NoSecrets => rows[id] # NoRow

\* A mailbox at rest never goes with tokens of another session than its uid
\* names, though a re-login was cut short: Proton would refuse them at the first
\* refresh (gpa_client.go 110-118).
ActiveIsOneSession ==
    \A id \in Ids : rows[id].state = "active" /\ rows[id].uid # 0 /\ ~InUse(id) =>
        /\ kc[id].refresh.sess \in {0, rows[id].uid}
        /\ kc[id].access.sess \in {0, rows[id].uid}

\* "Refreshed mailbox" and "Re-authenticated mailbox" are said of one whose
\* session Proton still serves and whose keys the next sync can open, unless
\* they have changed since the command opened them, if it did (tryCheapResume,
\* verifyResumedUnlock, authRefresh).
Vouches(p) ==
    /\ pc[p] = "write" /\ cmd[p] = "refresh" /\ plan[p] = << <<"row", "active">> >>
    /\ pc'[p] = "idle" /\ disturbed' = disturbed
    /\ client[p].unlocked \in {0, keys.keypass}
Served(id) ==
    Honoured(kc[id].access, rows[id].uid) \/ Honoured(kc[id].refresh, rows[id].uid)
RefreshKeepsItsWord ==
    [][\A p \in Procs : Vouches(p) =>
           \E id \in Ids : id = box[p] /\ Served(id)' /\ Unlockable(id)']_vars

=============================================================================
