----------------------------- MODULE MCBackfill -----------------------------
EXTENDS Backfill

\* Message 1 is older than the window, 3 and 4 are of one second, and the
\* list is not in time's order.
MCTime == <<1, 3, 2, 2, 4, 3, 1>>
MCInitial == <<3, 1, 4, 2, 5>>

=============================================================================
