------------------------ MODULE CacheContractProofs ------------------------
(* What CacheContract promises follows from its steps, for every set of    *)
(* messages.  MailboxSyncMirror shows that the engine keeps the contract.  *)
EXTENDS CacheContract, TLAPS

OwesMessages == owed \subseteq Msgs

\* A message that stays settled stays as it was; one that becomes settled does so
\* in a step that had to settle it.
LEMMA NextPromise ==
  ASSUME OwesMessages, Promise, [Next]_vars
  PROVE  OwesMessages' /\ Promise'
<1> USE DEF OwesMessages
<1>1. ASSUME NEW m \in Msgs, Change(m)
      PROVE  OwesMessages' /\ Promise'
  BY <1>1 DEF Change, Promise
<1>2. CASE Deliver
  <2>1. \A m \in Msgs : m \in Recent \ owed' => m \in Recent \ owed \/ Settled(m)
    BY <1>2 DEF Deliver, OnlyOwed
  <2> QED BY <1>2, <2>1 DEF Deliver, OnlyOwed, Settled, Promise
<1>3. CASE Resync
  BY <1>3 DEF Resync, OnlyOwed, Settled, Promise
<1>4. CASE Forget
  BY <1>4 DEF Forget, Promise
<1>5. CASE UNCHANGED vars
  BY <1>5 DEF vars, Promise
<1> QED BY <1>1, <1>2, <1>3, <1>4, <1>5 DEF Next

\* A mirror that keeps the contract has every recent message it does not owe:
\* what MailboxSync!NoLoss says of the engine, said of the contract.
THEOREM ContractPromises == Spec => []Promise
<1>1. Init => OwesMessages /\ Promise
  BY DEF Init, Promise, OwesMessages
<1>2. OwesMessages /\ Promise /\ [Next]_vars => OwesMessages' /\ Promise'
  BY NextPromise
<1> QED BY <1>1, <1>2, PTL DEF Spec

=============================================================================
