--------------------------- MODULE MCMailboxSync ---------------------------
(* MailboxSync on small sets of messages.                                  *)
EXTENDS MailboxSync

=============================================================================
