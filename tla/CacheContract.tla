--------------------------- MODULE CacheContract ---------------------------
(***************************************************************************)
(* What the offline cache promises of one mailbox, without saying how: a   *)
(* mirror that trails its source, and always knows what it trails by.      *)
(* internal/sync keeps the promise with a cursor into Proton's stream; the *)
(* refinement is at the end of MailboxSync.                                *)
(***************************************************************************)
EXTENDS Integers

CONSTANTS
    Msgs,     \* message ids
    Recent    \* those the mirror must hold even after a full resync

VARIABLES
    srv,      \* the source: version of each message, 0 when it has none
    cache,    \* the mirror: version of each row, 0 when none
    owed,     \* messages with a change the mirror has yet to consume
    given     \* messages the mirror gave up on, counting the error

vars == <<srv, cache, owed, given>>

Settled(m) == cache'[m] = srv[m] \/ m \in given'

Init ==
    /\ srv \in [Msgs -> {0, 1}]
    /\ cache = [m \in Msgs |-> 0]
    /\ owed = Msgs /\ given = {}

\* The source changes one message.  The mirror owes it, and owes everything
\* when the source lost track of what it changed.
Change(m) ==
    /\ srv'[m] # srv[m]
    /\ \A n \in Msgs \ {m} : srv'[n] = srv[n]
    /\ owed' = owed \union {m} \/ owed' = Msgs
    /\ UNCHANGED <<cache, given>>

\* The mirror works on what it owes, and on nothing else: a row goes forward
\* or goes away, and no message becomes owed.
OnlyOwed ==
    /\ UNCHANGED srv
    /\ owed' \subseteq owed
    /\ \A m \in Msgs \ owed : cache'[m] = cache[m] /\ (m \in given' <=> m \in given)
    /\ \A m \in owed : cache'[m] = 0 \/ cache'[m] >= cache[m]

\* Changes are consumed one by one: what is no longer owed is settled.
Deliver ==
    /\ OnlyOwed
    /\ \A m \in owed \ owed' : Settled(m)

\* Everything was owed and the mirror took the window afresh: the messages
\* outside it, and the rows of those that are gone, are not looked at.
Resync ==
    /\ owed = Msgs /\ OnlyOwed
    /\ \A m \in Recent \ owed' : srv[m] # 0 => Settled(m)

\* The operator asks for a full resync.
Forget == owed' = Msgs /\ UNCHANGED <<srv, cache, given>>

Next == (\E m \in Msgs : Change(m)) \/ Deliver \/ Resync \/ Forget

Spec == Init /\ [][Next]_vars

-----------------------------------------------------------------------------
\* The promise: of what the mirror must hold, and does not owe, it has the
\* version the source has, or gave it up and counted the error.
Promise ==
    \A m \in Msgs :
        m \in Recent \ owed /\ srv[m] # 0 => cache[m] = srv[m] \/ m \in given

=============================================================================
