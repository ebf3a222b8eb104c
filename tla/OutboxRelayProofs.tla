-------------------------- MODULE OutboxRelayProofs --------------------------
(***************************************************************************)
(* Proofs about OutboxRelay, for any number of events and relays, any      *)
(* batch size and any number of faults.                                    *)
(***************************************************************************)
EXTENDS OutboxRelay, TLAPS

(* The type invariant: every row state, transaction and counter keeps its  *)
(* type through every handler.                                             *)
THEOREM RelayTypeCorrect == Spec => []RelayTypeOK
<1>1. Init => RelayTypeOK
  BY DEF Init, RelayInit, RelayTypeOK, RowStates
<1>2. RelayTypeOK /\ [RelayNext]_vars => RelayTypeOK'
  <2> SUFFICES ASSUME RelayTypeOK, [RelayNext]_vars
               PROVE  RelayTypeOK'
    OBVIOUS
  <2> USE DEF RelayTypeOK, RowStates
  <2>1. CASE \E e \in Events : Enqueue(e) \/ BackoffElapses(e)
    BY <2>1 DEF Enqueue, BackoffElapses
  <2>2. ASSUME NEW r \in Relays, Poll(r)  PROVE RelayTypeOK'
    BY <2>2 DEF Poll, Due
  <2>3. ASSUME NEW r \in Relays, NEW e \in Events, Send(r, e)  PROVE RelayTypeOK'
    BY <2>3 DEF Send
  <2>4. ASSUME NEW r \in Relays, NEW e \in Events, SendFails(r, e)  PROVE RelayTypeOK'
    BY <2>4 DEF SendFails
  <2>5. ASSUME NEW r \in Relays, Commit(r)  PROVE RelayTypeOK'
    BY <2>5 DEF Commit
  <2>6. ASSUME NEW r \in Relays, Rollback(r)  PROVE RelayTypeOK'
    BY <2>6 DEF Rollback, Forget
  <2>7. CASE Cleanup
    BY <2>7 DEF Cleanup
  <2>8. CASE UNCHANGED vars
    BY <2>8 DEF vars
  <2>9. QED
    BY <2>1, <2>2, <2>3, <2>4, <2>5, <2>6, <2>7, <2>8 DEF RelayNext, RelayStep
<1>3. QED
  BY <1>1, <1>2, PTL DEF Spec

-----------------------------------------------------------------------------
\* Within one transaction a row is either still to try, sent or failed.
TransactionParts ==
    \A r \in Relays : /\ batch[r] \cap sent[r] = {}
                      /\ batch[r] \cap failed[r] = {}
                      /\ sent[r] \cap failed[r] = {}

LockInv == RelayTypeOK /\ LocksExclusive /\ TransactionParts

(* SKIP LOCKED and marking inside the transaction keep every row in at     *)
(* most one relay's transaction, and committed as pending meanwhile.       *)
LEMMA LockInvariant == Spec => []LockInv
<1>1. Init => LockInv
  BY DEF Init, RelayInit, RelayTypeOK, RowStates, LockInv, LocksExclusive,
         TransactionParts, Held
<1>2. LockInv /\ RelayTypeOK' /\ [RelayNext]_vars => LockInv'
  <2> SUFFICES ASSUME LockInv, RelayTypeOK', [RelayNext]_vars
               PROVE  LockInv'
    OBVIOUS
  <2> USE DEF LockInv, LocksExclusive, TransactionParts, Held, RelayTypeOK
  <2>1. CASE \E e \in Events : Enqueue(e) \/ BackoffElapses(e)
    BY <2>1 DEF Enqueue, BackoffElapses
  <2>2. ASSUME NEW r \in Relays, Poll(r)  PROVE LockInv'
    BY <2>2 DEF Poll, Due
  <2>3. ASSUME NEW r \in Relays, NEW e \in Events, Send(r, e)  PROVE LockInv'
    BY <2>3 DEF Send
  <2>4. ASSUME NEW r \in Relays, NEW e \in Events, SendFails(r, e)  PROVE LockInv'
    BY <2>4 DEF SendFails
  <2>5. ASSUME NEW r \in Relays, Commit(r)  PROVE LockInv'
    BY <2>5 DEF Commit
  <2>6. ASSUME NEW r \in Relays, Rollback(r)  PROVE LockInv'
    BY <2>6 DEF Rollback, Forget
  <2>7. CASE Cleanup
    BY <2>7 DEF Cleanup
  <2>8. CASE UNCHANGED vars
    BY <2>8 DEF vars
  <2>9. QED
    BY <2>1, <2>2, <2>3, <2>4, <2>5, <2>6, <2>7, <2>8 DEF RelayNext, RelayStep
<1>3. QED
  BY <1>1, <1>2, RelayTypeCorrect, PTL DEF Spec

(* Two relays never hold one outbox row.                                   *)
THEOREM RelayLocksExclusive == Spec => []LocksExclusive
<1>1. LockInv => LocksExclusive
  BY DEF LockInv
<1>2. QED
  BY <1>1, LockInvariant, PTL

-----------------------------------------------------------------------------
\* The event's copy in the log is, or is about to be, marked as published.
Marked(e) ==
    outbox[e] \in {"published", "deleted"} \/ \E r \in Relays : e \in sent[r]

\* Copies in the log are accounted for by the mark and by faults.
CopiesAccounted ==
    \A e \in Events : /\ Marked(e) => copies[e] > 0
                      /\ Marked(e) => copies[e] <= 1 + relayFaults
                      /\ ~Marked(e) => copies[e] <= relayFaults

(* A row that lost its mark to a rollback cost a fault, and a marked row   *)
(* is not sent again: the accounting is inductive.                         *)
LEMMA CopiesInvariant == Spec => []CopiesAccounted
<1>1. Init => CopiesAccounted
  BY DEF Init, RelayInit, CopiesAccounted, Marked
<1>2. LockInv /\ LockInv' /\ CopiesAccounted /\ [RelayNext]_vars => CopiesAccounted'
  <2> SUFFICES ASSUME LockInv, LockInv', CopiesAccounted, [RelayNext]_vars,
                      NEW x \in Events
               PROVE  /\ Marked(x)' => copies'[x] > 0
                      /\ Marked(x)' => copies'[x] <= 1 + relayFaults'
                      /\ ~Marked(x)' => copies'[x] <= relayFaults'
    BY DEF CopiesAccounted
  <2>0. /\ copies[x] \in Nat /\ relayFaults \in Nat
        /\ Marked(x) => copies[x] > 0 /\ copies[x] <= 1 + relayFaults
        /\ ~Marked(x) => copies[x] <= relayFaults
    BY DEF LockInv, RelayTypeOK, CopiesAccounted
  <2> USE DEF LockInv, LocksExclusive, TransactionParts, Held, RelayTypeOK
  <2>1. CASE \E e \in Events : Enqueue(e) \/ BackoffElapses(e)
    <3>1. Marked(x)' <=> Marked(x)
      BY <2>1 DEF Enqueue, BackoffElapses, Marked
    <3>2. copies'[x] = copies[x] /\ relayFaults' = relayFaults
      BY <2>1 DEF Enqueue, BackoffElapses
    <3>3. QED
      BY <3>1, <3>2, <2>0
  <2>2. ASSUME NEW r \in Relays, Poll(r)
        PROVE  /\ Marked(x)' <=> Marked(x)
               /\ copies'[x] = copies[x] /\ relayFaults' = relayFaults
    BY <2>2 DEF Poll, Marked
  <2>3. ASSUME NEW r \in Relays, NEW e \in Events, Send(r, e)
        PROVE  /\ Marked(x)' => copies'[x] > 0
               /\ Marked(x)' => copies'[x] <= 1 + relayFaults'
               /\ ~Marked(x)' => copies'[x] <= relayFaults'
    <3>1. CASE x = e
      <4>1. ~Marked(x)
        BY <2>3, <3>1 DEF Send, Marked
      <4>2. Marked(x)'
        BY <2>3, <3>1 DEF Send, Marked
      <4>3. copies'[x] = copies[x] + 1 /\ relayFaults' = relayFaults
        BY <2>3, <3>1 DEF Send
      <4>4. QED
        BY <4>1, <4>2, <4>3, <2>0
    <3>2. CASE x # e
      <4>1. Marked(x)' <=> Marked(x)
        BY <2>3, <3>2 DEF Send, Marked
      <4>2. copies'[x] = copies[x] /\ relayFaults' = relayFaults
        BY <2>3, <3>2 DEF Send
      <4>3. QED
        BY <4>1, <4>2, <2>0
    <3>3. QED
      BY <3>1, <3>2
  <2>4. ASSUME NEW r \in Relays, NEW e \in Events, SendFails(r, e)
        PROVE  /\ Marked(x)' => copies'[x] > 0
               /\ Marked(x)' => copies'[x] <= 1 + relayFaults'
               /\ ~Marked(x)' => copies'[x] <= relayFaults'
    <3>1. Marked(x)' <=> Marked(x)
      BY <2>4 DEF SendFails, Marked
    <3>2. /\ copies'[x] \in {copies[x], copies[x] + 1}
          /\ relayFaults' = relayFaults + 1
      BY <2>4 DEF SendFails
    <3>3. QED
      BY <3>1, <3>2, <2>0
  <2>5. ASSUME NEW r \in Relays, Commit(r)
        PROVE  /\ Marked(x)' <=> Marked(x)
               /\ copies'[x] = copies[x] /\ relayFaults' = relayFaults
    <3>1. copies'[x] = copies[x] /\ relayFaults' = relayFaults
      BY <2>5 DEF Commit
    <3>2. CASE x \in sent[r]
      BY <2>5, <3>2 DEF Commit, Marked
    <3>3. CASE x \notin sent[r]
      <4>1. \A q \in Relays : x \in sent'[q] <=> x \in sent[q]
        BY <2>5, <3>3 DEF Commit
      <4>2. outbox'[x] \in {"published", "deleted"} <=> outbox[x] \in {"published", "deleted"}
        BY <2>5, <3>3 DEF Commit
      <4>3. QED
        BY <4>1, <4>2, <3>1 DEF Marked
    <3>4. QED
      BY <3>1, <3>2, <3>3
  <2>6. ASSUME NEW r \in Relays, Rollback(r)
        PROVE  /\ Marked(x)' => Marked(x)
               /\ copies'[x] = copies[x] /\ relayFaults' = relayFaults + 1
    BY <2>6 DEF Rollback, Forget, Marked
  <2>7. ASSUME Cleanup
        PROVE  /\ Marked(x)' <=> Marked(x)
               /\ copies'[x] = copies[x] /\ relayFaults' = relayFaults
    BY <2>7 DEF Cleanup, Marked
  <2>8. CASE UNCHANGED vars
    BY <2>8, <2>0 DEF vars, Marked
  <2>9. QED
    BY <2>0, <2>1, <2>2, <2>3, <2>4, <2>5, <2>6, <2>7, <2>8 DEF RelayNext, RelayStep
<1>3. QED
  BY <1>1, <1>2, LockInvariant, PTL DEF Spec

(* An event marked published is in the broker's log.                       *)
THEOREM RelayLosesNothing == Spec => []PublishedIsInLog
<1>1. CopiesAccounted => PublishedIsInLog
  BY DEF CopiesAccounted, Marked, PublishedIsInLog
<1>2. QED
  BY <1>1, CopiesInvariant, PTL

(* Each copy beyond the first costs a publish error, a rollback or a crash.*)
THEOREM RelayDuplicatesNeedFaults == Spec => []DuplicatesNeedFaults
<1>1. RelayTypeOK /\ CopiesAccounted => DuplicatesNeedFaults
  BY DEF CopiesAccounted, DuplicatesNeedFaults, RelayTypeOK
<1>2. QED
  BY <1>1, RelayTypeCorrect, CopiesInvariant, PTL
=============================================================================
