---------------------------- MODULE MCCacheRows ----------------------------
EXTENDS CacheRows, TLC

CONSTANTS b1, b2, p1, p2

\* Two spellings of one address, a nameless sender who later has a name, a
\* header without an address, and a body whose links change.
MCCanonical ==
    ("joe" :> "joe") @@ ("Joe" :> "joe") @@ ("ann" :> "ann") @@ ("" :> "")

Person(email, name) == [email |-> email, name |-> name]

First ==
    [sender |-> Person("joe", ""), recipients |-> <<Person("ann", "Ann")>>,
     urls |-> <<"u", "u">>, atts |-> <<"a">>, labels |-> <<"star", "inbox">>]

Second ==
    [sender |-> Person("Joe", "Joe"), recipients |-> <<Person("", "Undisclosed")>>,
     urls |-> <<"w">>, atts |-> <<"a">>, labels |-> <<"star", "lost">>]

Short ==
    [sender |-> Person("Joe", "J"), recipients |-> <<>>,
     urls |-> <<"u">>, atts |-> <<>>, labels |-> <<"inbox">>]

\* One mailbox holds a message that changes and another; the other mailbox
\* received a copy of the first.
MCMail ==
    (<<b1, p1, 1>> :> First) @@ (<<b1, p1, 2>> :> Second)
    @@ (<<b1, p2, 1>> :> Short) @@ (<<b2, p1, 1>> :> Short)

MCLabels ==
    ("star" :> [name |-> "Star", class |-> "label"])
    @@ ("inbox" :> [name |-> "Inbox", class |-> "system"])

=============================================================================
