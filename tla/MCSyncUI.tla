------------------------------ MODULE MCSyncUI ------------------------------
(* SyncUI on small sets of mailboxes.                                      *)
EXTENDS SyncUI

=============================================================================
