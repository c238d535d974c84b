----------------------------- MODULE MCSession -----------------------------
(* Session on small sets of mailbox ids and processes.                     *)
EXTENDS Session, TLC

Symmetric == Permutations(Ids) \union Permutations(Procs)
=============================================================================
