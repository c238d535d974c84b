------------------------------- MODULE MCTui -------------------------------
EXTENDS Tui, TLC

CONSTANTS q1, q2, m1, m2, a1, a2, c1

\* One search finds a message the other finds too, in another place.
MCListing ==
    [x \in Lists |->
        CASE x = q1 -> <<m1, m2>>
          [] x = q2 -> <<m2>>
          [] x = "attachments" -> <<a1, a2>>
          [] x = "contacts" -> <<c1>>
          [] OTHER -> <<>>]

=============================================================================
