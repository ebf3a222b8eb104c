---------------------------- MODULE OutboxRelay ----------------------------
(***************************************************************************)
(* The transactional outbox of apps/api/src/modules/events/outbox and the  *)
(* relays that drain it.  Every API process runs one relay.  A poll is one *)
(* database transaction: it locks a batch of due rows (FOR UPDATE SKIP     *)
(* LOCKED), publishes them one after the other, marks each published or    *)
(* reschedules it, and commits.  What a transaction has written is kept in *)
(* batch / sent / failed until it commits; a rollback forgets all of it,   *)
(* but not the copies already in the broker's log.                         *)
(*                                                                         *)
(* Abstracted: a row is named by its event (event ids are deterministic,   *)
(* one row per source document); time, so a rescheduled row is due again   *)
(* whenever BackoffElapses; created_at, so a poll may take any due rows.   *)
(***************************************************************************)
EXTENDS Naturals, FiniteSets

CONSTANTS
    Events,          \* the events some business transaction may enqueue
    Relays,          \* the API processes, each polling with its own relay
    BatchSize,       \* OUTBOX_BATCH_SIZE
    MaxCopies,       \* bound: copies of one event in the broker's log
    MaxRelayFaults   \* bound: publish errors, rollbacks and crashes

ASSUME RelayAssumption ==
    /\ BatchSize \in Nat \ {0}
    /\ MaxCopies \in Nat \ {0}
    /\ MaxRelayFaults \in Nat
    /\ IsFiniteSet(Events)

VARIABLES
    outbox,       \* committed state of each event's outbox row
    batch,        \* rows a relay's open transaction locked and has yet to try
    sent,         \* rows it published and marked, not committed yet
    failed,       \* rows it rescheduled, not committed yet
    copies,       \* copies of each event in the broker's log
    relayFaults   \* faults so far

relayVars == <<outbox, batch, sent, failed, relayFaults>>
vars == <<outbox, batch, sent, failed, copies, relayFaults>>

RowStates == {"none", "pending", "backoff", "published", "deleted"}

RelayTypeOK ==
    /\ outbox \in [Events -> RowStates]
    /\ batch \in [Relays -> SUBSET Events]
    /\ sent \in [Relays -> SUBSET Events]
    /\ failed \in [Relays -> SUBSET Events]
    /\ copies \in [Events -> Nat]
    /\ relayFaults \in Nat

RelayInit ==
    /\ outbox = [e \in Events |-> "none"]
    /\ batch = [r \in Relays |-> {}]
    /\ sent = [r \in Relays |-> {}]
    /\ failed = [r \in Relays |-> {}]
    /\ relayFaults = 0

\* The rows relay r's transaction holds locked.
Held(r) == batch[r] \cup sent[r] \cup failed[r]

\* Mutant of Due: a plain SELECT, which does not skip locked rows.
DueUnlocked == {e \in Events : outbox[e] = "pending"}

\* Rows a poll may take: due, and locked by nobody (SKIP LOCKED).
Due == {e \in Events : outbox[e] = "pending" /\ \A r \in Relays : e \notin Held(r)}

-----------------------------------------------------------------------------
(* A business transaction commits, and its outbox row with it.             *)
Enqueue(e) ==
    /\ outbox[e] = "none"
    /\ outbox' = [outbox EXCEPT ![e] = "pending"]
    /\ UNCHANGED <<batch, sent, failed, copies, relayFaults>>

(* pollOnce opens its transaction, unless this process is already polling; *)
(* LIMIT BATCH_SIZE.                                                       *)
Poll(r) ==
    /\ Held(r) = {}
    /\ \E rows \in (SUBSET Due) \ {{}} :
          /\ \/ Cardinality(rows) = BatchSize
             \/ rows = Due /\ Cardinality(rows) < BatchSize
          /\ batch' = [batch EXCEPT ![r] = rows]
    /\ UNCHANGED <<outbox, sent, failed, copies, relayFaults>>

(* One row of the batch is acknowledged by the broker and marked.          *)
Send(r, e) ==
    /\ e \in batch[r]
    /\ copies[e] < MaxCopies
    /\ copies' = [copies EXCEPT ![e] = @ + 1]
    /\ batch' = [batch EXCEPT ![r] = @ \ {e}]
    /\ sent' = [sent EXCEPT ![r] = @ \cup {e}]
    /\ UNCHANGED <<outbox, failed, relayFaults>>

\* Mutant of SendFails: the error is swallowed and the row marked.
SendErrorSwallowed(r, e) ==
    /\ e \in batch[r]
    /\ relayFaults < MaxRelayFaults
    /\ batch' = [batch EXCEPT ![r] = @ \ {e}]
    /\ sent' = [sent EXCEPT ![r] = @ \cup {e}]
    /\ relayFaults' = relayFaults + 1
    /\ UNCHANGED <<outbox, failed, copies>>

(* Publishing throws, the broker having kept the message or not: the row   *)
(* is rescheduled and the loop goes on.                                    *)
SendFails(r, e) ==
    /\ e \in batch[r]
    /\ relayFaults < MaxRelayFaults
    /\ \/ copies' = copies
       \/ copies[e] < MaxCopies /\ copies' = [copies EXCEPT ![e] = @ + 1]
    /\ batch' = [batch EXCEPT ![r] = @ \ {e}]
    /\ failed' = [failed EXCEPT ![r] = @ \cup {e}]
    /\ relayFaults' = relayFaults + 1
    /\ UNCHANGED <<outbox, sent>>

\* Mutant of Commit: a rescheduled row gets a state the poll does not know.
CommitErrorState(r) ==
    /\ batch[r] = {}
    /\ Held(r) # {}
    /\ outbox' = [e \in Events |-> IF e \in sent[r] THEN "published"
                                   ELSE IF e \in failed[r] THEN "error"
                                   ELSE outbox[e]]
    /\ sent' = [sent EXCEPT ![r] = {}]
    /\ failed' = [failed EXCEPT ![r] = {}]
    /\ UNCHANGED <<batch, copies, relayFaults>>

\* Mutant of Commit: a rescheduled row gets its backoff, a sent row no mark.
CommitUnmarked(r) ==
    /\ batch[r] = {}
    /\ Held(r) # {}
    /\ outbox' = [e \in Events |-> IF e \in failed[r] THEN "backoff" ELSE outbox[e]]
    /\ sent' = [sent EXCEPT ![r] = {}]
    /\ failed' = [failed EXCEPT ![r] = {}]
    /\ UNCHANGED <<batch, copies, relayFaults>>

(* The batch is done and the transaction commits.                          *)
Commit(r) ==
    /\ batch[r] = {}
    /\ Held(r) # {}
    /\ outbox' = [e \in Events |-> IF e \in sent[r] THEN "published"
                                   ELSE IF e \in failed[r] THEN "backoff"
                                   ELSE outbox[e]]
    /\ sent' = [sent EXCEPT ![r] = {}]
    /\ failed' = [failed EXCEPT ![r] = {}]
    /\ UNCHANGED <<batch, copies, relayFaults>>

\* The transaction of r is gone: its locks are free, its marks undone.
Forget(r) ==
    /\ batch' = [batch EXCEPT ![r] = {}]
    /\ sent' = [sent EXCEPT ![r] = {}]
    /\ failed' = [failed EXCEPT ![r] = {}]

(* An error of the database, or the death of the process, rolls it back.   *)
Rollback(r) ==
    /\ Held(r) # {}
    /\ relayFaults < MaxRelayFaults
    /\ Forget(r)
    /\ relayFaults' = relayFaults + 1
    /\ UNCHANGED <<outbox, copies>>

\* Mutant of BackoffElapses: a row that failed is left for an operator.
BackoffGivesUp(e) ==
    /\ outbox[e] = "backoff"
    /\ relayFaults = 0
    /\ outbox' = [outbox EXCEPT ![e] = "pending"]
    /\ UNCHANGED <<batch, sent, failed, copies, relayFaults>>

(* next_attempt_at of a rescheduled row passes.                            *)
BackoffElapses(e) ==
    /\ outbox[e] = "backoff"
    /\ outbox' = [outbox EXCEPT ![e] = "pending"]
    /\ UNCHANGED <<batch, sent, failed, copies, relayFaults>>

(* cleanup deletes the published rows past their retention.                *)
Cleanup ==
    /\ \E old \in (SUBSET {e \in Events : outbox[e] = "published"}) \ {{}} :
          outbox' = [e \in Events |-> IF e \in old THEN "deleted" ELSE outbox[e]]
    /\ UNCHANGED <<batch, sent, failed, copies, relayFaults>>

RelayStep(r) ==
    \/ Poll(r)
    \/ \E e \in Events : Send(r, e)
    \/ Commit(r)

RelayNext ==
    \/ \E e \in Events : Enqueue(e) \/ BackoffElapses(e)
    \/ \E r \in Relays :
          \/ RelayStep(r)
          \/ \E e \in Events : SendFails(r, e)
          \/ Rollback(r)
    \/ Cleanup

Init == RelayInit /\ copies = [e \in Events |-> 0]

Spec == Init /\ [][RelayNext]_vars

(* The poll timer fires every OUTBOX_POLL_MS in every process, an await    *)
(* returns, and a backoff of at most five minutes ends.                    *)
FairSpec ==
    /\ Spec
    /\ \A r \in Relays : WF_vars(RelayStep(r))
    /\ \A e \in Events : WF_vars(BackoffElapses(e))

-----------------------------------------------------------------------------
(* Two relays never hold the same row, and a row held is committed as      *)
(* pending: SKIP LOCKED and the marks inside the transaction agree.        *)
LocksExclusive ==
    \A e \in Events : \A r \in Relays :
        e \in Held(r) => /\ outbox[e] = "pending"
                         /\ \A q \in Relays \ {r} : e \notin Held(q)

(* A row says published, for good or inside a transaction, only when the   *)
(* event is in the log: no order of crash, rollback, retry and cleanup     *)
(* loses an event that was committed with its source document.             *)
PublishedIsInLog ==
    \A e \in Events :
        (outbox[e] \in {"published", "deleted"} \/ \E r \in Relays : e \in sent[r])
            => copies[e] > 0

(* The relays of several processes never duplicate an event by themselves: *)
(* every extra copy in the log is paid for by a publish error, a rollback  *)
(* or a crash.                                                             *)
DuplicatesNeedFaults ==
    \A e \in Events : copies[e] <= 1 + relayFaults

(* At least once: an event committed with its business transaction is      *)
(* eventually in the broker's log and marked, however the faults fall.     *)
EventuallyPublished ==
    \A e \in Events : outbox[e] = "pending" ~> outbox[e] \in {"published", "deleted"}
=============================================================================
