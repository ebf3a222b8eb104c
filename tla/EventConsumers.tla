--------------------------- MODULE EventConsumers ---------------------------
(***************************************************************************)
(* The consuming side of the event bus: what event-consumer.service.ts     *)
(* wraps around every @OnDomainEvent handler (claim, handler, release,     *)
(* retry, dead-letter topic), the dead-letter recorder, and the operator's *)
(* replay and ignore of dead_letter_events.                                *)
(*                                                                         *)
(* A subscription is one consumer group's interest in one event.  The log  *)
(* may hold several copies of an event (the relay re-sends, an operator    *)
(* replays); <<s, i>> is the delivery of copy i to subscription s, and     *)
(* <<n, s, i>> the worker of process n on it.                             *)
(*                                                                         *)
(* Abstracted: partitions.  A copy is read, retried and committed on its   *)
(* own, so copies of an event may be in work at once, as they are when a   *)
(* replay (keyed by the event id) lands in another partition than the      *)
(* original, or when a rebalance hands a partition on while the old member *)
(* is still busy.  Offsets are then a set of acknowledged deliveries.      *)
(***************************************************************************)
EXTENDS Naturals, Sequences, FiniteSets

CONSTANTS
    Nodes,            \* API processes; each has a member in every group
    Operators,        \* people replaying and ignoring dead letters
    Subs,             \* subscriptions
    Events,
    EventOf,          \* the event of a subscription
    MaxCopies,        \* bound: copies of one event in the log
    MaxPublished,     \* bound: those a producer may append, replays apart
    MaxRetries,       \* calls after the first one before the dead-letter topic
    FaultKinds,       \* which faults may happen (see AllFaults)
    MaxFaults,        \* bound: faults in a behaviour
    NoNode

AllFaults == {"crash", "rebalance", "claim", "release", "dlq", "recorder"}

ASSUME ConsumerAssumption ==
    /\ EventOf \in [Subs -> Events]
    /\ MaxCopies \in Nat \ {0}
    /\ MaxPublished \in 1 .. MaxCopies
    /\ MaxRetries \in Nat
    /\ MaxFaults \in Nat
    /\ FaultKinds \subseteq AllFaults
    /\ NoNode \notin Nodes

Copies == 1 .. MaxCopies
Deliveries == Subs \X Copies
Workers == Nodes \X Subs \X Copies

Node(w) == w[1]
Sub(w) == w[2]
Delivery(w) == <<w[2], w[3]>>

VARIABLES
    copies,     \* copies of each event in the log
    pc,         \* where each worker is
    tries,      \* failed calls of the worker's current delivery
    reader,     \* the member a delivery is assigned to, when it is being read
    acked,      \* deliveries behind the committed offset
    claims,     \* processed_events: subscriptions claimed
    effect,     \* times the handler's own transaction took effect
    letters,    \* dead letters: dlq topic and dead_letter_events in one
    request,    \* the request of each operator being served
    faults,     \* faults so far
    stranded    \* history: subscriptions a worker failed without its partition

consumerVars == <<pc, tries, reader, acked, claims, effect, letters, request, faults, stranded>>
vars == <<copies, consumerVars>>

WorkerStates == {"idle", "claim", "guard", "apply", "post", "release", "toDlq", "resolved"}

(* A letter is in the dlq topic, then a row of dead_letter_events, or lost *)
(* to an error of the recorder.  The subscription is not stored in the     *)
(* code: the row names the topic and the event only.                       *)
LetterStates == {"inTopic", "PENDING", "RESOLVED", "IGNORED", "dropped"}
Letters == [sub : Subs, status : LetterStates]

NoRequest == [kind |-> "none", letter |-> 0]
Requests == [kind : {"none", "publish", "resolve", "ignore"}, letter : Nat]

ConsumerTypeOK ==
    /\ copies \in [Events -> Nat]
    /\ pc \in [Workers -> WorkerStates]
    /\ tries \in [Workers -> 0 .. MaxRetries]
    /\ reader \in [Deliveries -> Nodes \cup {NoNode}]
    /\ acked \subseteq Deliveries
    /\ claims \subseteq Subs
    /\ effect \in [Subs -> Nat]
    /\ letters \in Seq(Letters)
    /\ request \in [Operators -> Requests]
    /\ faults \in Nat
    /\ stranded \subseteq Subs

ConsumerInit ==
    /\ pc = [w \in Workers |-> "idle"]
    /\ tries = [w \in Workers |-> 0]
    /\ reader = [d \in Deliveries |-> NoNode]
    /\ acked = {}
    /\ claims = {}
    /\ effect = [s \in Subs |-> 0]
    /\ letters = <<>>
    /\ request = [o \in Operators |-> NoRequest]
    /\ faults = 0
    /\ stranded = {}

Fault(kind) ==
    /\ kind \in FaultKinds
    /\ faults < MaxFaults
    /\ faults' = faults + 1

\* Mutant of NextTry: one retry too many.
NextTryOffByOne(w) ==
    IF tries[w] <= MaxRetries
    THEN /\ pc' = [pc EXCEPT ![w] = "claim"]
         /\ tries' = [tries EXCEPT ![w] = @ + 1]
    ELSE /\ pc' = [pc EXCEPT ![w] = "toDlq"]
         /\ UNCHANGED tries

(* withRetry: another call while retries are left, else the dead-letter    *)
(* topic.                                                                  *)
NextTry(w) ==
    IF tries[w] < MaxRetries
    THEN /\ pc' = [pc EXCEPT ![w] = "claim"]
         /\ tries' = [tries EXCEPT ![w] = @ + 1]
    ELSE /\ pc' = [pc EXCEPT ![w] = "toDlq"]
         /\ UNCHANGED tries

-----------------------------------------------------------------------------
(* The worker of a process on one delivery.                               *)

(* The member the partition is assigned to reads the next message.         *)
Receive(w) ==
    /\ w[3] <= copies[EventOf[Sub(w)]]
    /\ Delivery(w) \notin acked
    /\ reader[Delivery(w)] = NoNode
    /\ pc[w] = "idle"
    /\ reader' = [reader EXCEPT ![Delivery(w)] = Node(w)]
    /\ pc' = [pc EXCEPT ![w] = "claim"]
    /\ UNCHANGED <<copies, tries, acked, claims, effect, letters, request, faults, stranded>>

\* Mutant of TryClaim: the INSERT's conflict is not looked at.
ClaimAlways(w) ==
    /\ pc[w] = "claim"
    /\ pc' = [pc EXCEPT ![w] = "guard"]
    /\ claims' = claims \cup {Sub(w)}
    /\ UNCHANGED <<copies, tries, reader, acked, effect, letters, request, faults, stranded>>

(* tryClaim inserts the claim; when it exists the delivery is skipped.     *)
TryClaim(w) ==
    /\ pc[w] = "claim"
    /\ pc' = [pc EXCEPT ![w] = IF Sub(w) \in claims THEN "resolved" ELSE "guard"]
    /\ claims' = claims \cup {Sub(w)}
    /\ UNCHANGED <<copies, tries, reader, acked, effect, letters, request, faults, stranded>>

(* tryClaim throws, before its INSERT took effect or (a fault) after: no   *)
(* release follows.                                                        *)
ClaimFails(w) ==
    /\ pc[w] = "claim"
    /\ \/ UNCHANGED <<claims, faults>>
       \/ Fault("claim") /\ claims' = claims \cup {Sub(w)}
    /\ NextTry(w)
    /\ UNCHANGED <<copies, reader, acked, effect, letters, request, stranded>>

\* Mutant of CheckGuard: a handler that relies on the claim alone.
NoGuard(w) ==
    /\ pc[w] = "guard"
    /\ pc' = [pc EXCEPT ![w] = "apply"]
    /\ UNCHANGED <<copies, tries, reader, acked, claims, effect, letters, request, faults, stranded>>

(* The handler looks for the effect of an earlier delivery.                *)
CheckGuard(w) ==
    /\ pc[w] = "guard"
    /\ pc' = [pc EXCEPT ![w] = IF effect[Sub(w)] > 0 THEN "post" ELSE "apply"]
    /\ UNCHANGED <<copies, tries, reader, acked, claims, effect, letters, request, faults, stranded>>

(* It commits its own transaction.                                         *)
Apply(w) ==
    /\ pc[w] = "apply"
    /\ effect' = [effect EXCEPT ![Sub(w)] = @ + 1]
    /\ pc' = [pc EXCEPT ![w] = "post"]
    /\ UNCHANGED <<copies, tries, reader, acked, claims, letters, request, faults, stranded>>

(* What follows the commit (a further publish) is done: it returns.        *)
HandlerReturns(w) ==
    /\ pc[w] = "post"
    /\ pc' = [pc EXCEPT ![w] = "resolved"]
    /\ UNCHANGED <<copies, tries, reader, acked, claims, effect, letters, request, faults, stranded>>

(* The handler throws, before or after its transaction committed.          *)
HandlerThrows(w) ==
    /\ pc[w] \in {"guard", "apply", "post"}
    /\ pc' = [pc EXCEPT ![w] = "release"]
    /\ UNCHANGED <<copies, tries, reader, acked, claims, effect, letters, request, faults, stranded>>

(* release deletes the claim and the error goes on to withRetry; the       *)
(* DELETE itself may fail, and the claim stays.                            *)
Release(w) ==
    /\ pc[w] = "release"
    /\ \/ claims' = claims \ {Sub(w)} /\ UNCHANGED faults
       \/ Fault("release") /\ UNCHANGED claims
    /\ NextTry(w)
    /\ UNCHANGED <<copies, reader, acked, effect, letters, request, stranded>>

(* Retries are used up: the message goes to the topic's .dlq, and counts   *)
(* as handled.                                                             *)
SendToDlq(w) ==
    /\ pc[w] = "toDlq"
    /\ letters' = Append(letters, [sub |-> Sub(w), status |-> "inTopic"])
    /\ pc' = [pc EXCEPT ![w] = "resolved"]
    /\ UNCHANGED <<copies, tries, reader, acked, claims, effect, request, faults, stranded>>

\* The worker is done with the message, and no longer its reader if it was.
LetGo(w) ==
    /\ pc' = [pc EXCEPT ![w] = "idle"]
    /\ tries' = [tries EXCEPT ![w] = 0]
    /\ reader' = IF reader[Delivery(w)] = Node(w) THEN [reader EXCEPT ![Delivery(w)] = NoNode] ELSE reader

Busy == {"claim", "guard", "apply", "post", "release", "toDlq"}

\* History: those of the workers ws that fail busy with a delivery that is no
\* longer theirs.  Another member may have skipped it over the claim they had.
Strand(ws) ==
    stranded' = stranded \cup
        {Sub(w) : w \in {v \in ws : pc[v] \in Busy /\ reader[Delivery(v)] # Node(v)}}

\* Mutant of DlqFails: the error is swallowed and the offset committed.
DlqErrorSwallowed(w) ==
    /\ pc[w] = "toDlq"
    /\ Fault("dlq")
    /\ pc' = [pc EXCEPT ![w] = "resolved"]
    /\ UNCHANGED <<copies, tries, reader, acked, claims, effect, letters, request, stranded>>

(* Sending to the .dlq throws: eachMessage throws, nothing is committed    *)
(* and the message will be read again.                                     *)
DlqFails(w) ==
    /\ pc[w] = "toDlq"
    /\ Fault("dlq")
    /\ \/ UNCHANGED letters
       \/ letters' = Append(letters, [sub |-> Sub(w), status |-> "inTopic"])
    /\ LetGo(w)
    /\ Strand({w})
    /\ UNCHANGED <<copies, acked, claims, effect, request>>

(* autoCommit: the offset of a resolved message is committed; the broker   *)
(* refuses it from a member the partition was taken away from.             *)
CommitOffset(w) ==
    /\ pc[w] = "resolved"
    /\ acked' = IF reader[Delivery(w)] = Node(w) THEN acked \cup {Delivery(w)} ELSE acked
    /\ LetGo(w)
    /\ UNCHANGED <<copies, claims, effect, letters, request, faults, stranded>>

(* The session of a busy member times out: its partition is reassigned     *)
(* while it goes on, unaware.                                              *)
Rebalance(d) ==
    /\ reader[d] # NoNode
    /\ Fault("rebalance")
    /\ reader' = [reader EXCEPT ![d] = NoNode]
    /\ UNCHANGED <<copies, pc, tries, acked, claims, effect, letters, request, stranded>>

-----------------------------------------------------------------------------
(* The recorder of the .dlq topics inserts the dead_letter_events row; an  *)
(* error of the insert is logged and the message is past all the same.     *)
Record(k) ==
    /\ k \in 1 .. Len(letters)
    /\ letters[k].status = "inTopic"
    /\ \/ letters' = [letters EXCEPT ![k].status = "PENDING"] /\ UNCHANGED faults
       \/ letters' = [letters EXCEPT ![k].status = "dropped"] /\ Fault("recorder")
    /\ UNCHANGED <<copies, pc, tries, reader, acked, claims, effect, request, stranded>>

\* Mutant of BeginReplay: the row is saved before the event is published.
ResolveFirst(o, k) ==
    /\ request[o] = NoRequest
    /\ k \in 1 .. Len(letters)
    /\ letters[k].status = "PENDING"
    /\ request' = [request EXCEPT ![o] = [kind |-> "publish", letter |-> k]]
    /\ letters' = [letters EXCEPT ![k].status = "RESOLVED"]
    /\ UNCHANGED <<copies, pc, tries, reader, acked, claims, effect, faults, stranded>>

(* replay reads the row and refuses it unless PENDING.                     *)
BeginReplay(o, k) ==
    /\ request[o] = NoRequest
    /\ k \in 1 .. Len(letters)
    /\ letters[k].status = "PENDING"
    /\ request' = [request EXCEPT ![o] = [kind |-> "publish", letter |-> k]]
    /\ UNCHANGED <<copies, pc, tries, reader, acked, claims, effect, letters, faults, stranded>>

(* It publishes the event on its own topic, for every group of the topic.  *)
ReplayPublish(o) ==
    /\ request[o].kind = "publish"
    /\ LET e == EventOf[letters[request[o].letter].sub] IN
          /\ copies[e] < MaxCopies
          /\ copies' = [copies EXCEPT ![e] = @ + 1]
    /\ request' = [request EXCEPT ![o].kind = "resolve"]
    /\ UNCHANGED <<pc, tries, reader, acked, claims, effect, letters, faults, stranded>>

(* Publishing throws: the request fails and the row stays PENDING.         *)
ReplayThrows(o) ==
    /\ request[o].kind = "publish"
    /\ request' = [request EXCEPT ![o] = NoRequest]
    /\ UNCHANGED <<copies, pc, tries, reader, acked, claims, effect, letters, faults, stranded>>

(* ignore reads the row and refuses it unless PENDING.                     *)
BeginIgnore(o, k) ==
    /\ request[o] = NoRequest
    /\ k \in 1 .. Len(letters)
    /\ letters[k].status = "PENDING"
    /\ request' = [request EXCEPT ![o] = [kind |-> "ignore", letter |-> k]]
    /\ UNCHANGED <<copies, pc, tries, reader, acked, claims, effect, letters, faults, stranded>>

(* Either saves the row it read, whatever became of it since.              *)
SaveRow(o) ==
    /\ request[o].kind \in {"resolve", "ignore"}
    /\ letters' = [letters EXCEPT ![request[o].letter].status =
                      IF request[o].kind = "resolve" THEN "RESOLVED" ELSE "IGNORED"]
    /\ request' = [request EXCEPT ![o] = NoRequest]
    /\ UNCHANGED <<copies, pc, tries, reader, acked, claims, effect, faults, stranded>>

(* The process serving the request dies.                                   *)
RequestDies(o) ==
    /\ request[o] # NoRequest
    /\ Fault("crash")
    /\ request' = [request EXCEPT ![o] = NoRequest]
    /\ UNCHANGED <<copies, pc, tries, reader, acked, claims, effect, letters, stranded>>

-----------------------------------------------------------------------------
\* Everything process n holds in memory is gone; its messages are unread.
Restart(n) ==
    /\ pc' = [w \in Workers |-> IF Node(w) = n THEN "idle" ELSE pc[w]]
    /\ tries' = [w \in Workers |-> IF Node(w) = n THEN 0 ELSE tries[w]]
    /\ reader' = [d \in Deliveries |-> IF reader[d] = n THEN NoNode ELSE reader[d]]

(* Process n dies and comes back.                                          *)
Crash(n) ==
    /\ Fault("crash")
    /\ Restart(n)
    /\ Strand({w \in Workers : Node(w) = n})
    /\ UNCHANGED <<copies, acked, claims, effect, letters, request>>

(* A producer outside this module appends a copy of the event to the log.  *)
Publish(e) ==
    /\ copies[e] < MaxPublished
    /\ copies' = [copies EXCEPT ![e] = @ + 1]
    /\ UNCHANGED consumerVars

WorkerStep(w) ==
    \/ TryClaim(w)
    \/ ClaimFails(w)
    \/ CheckGuard(w)
    \/ Apply(w)
    \/ HandlerReturns(w)
    \/ HandlerThrows(w)
    \/ Release(w)
    \/ SendToDlq(w)
    \/ CommitOffset(w)

OperatorStep(o) ==
    \/ \E k \in 1 .. Len(letters) : BeginReplay(o, k) \/ BeginIgnore(o, k)
    \/ ReplayPublish(o)
    \/ ReplayThrows(o)
    \/ SaveRow(o)
    \/ RequestDies(o)

ConsumerNext ==
    \/ \E w \in Workers : Receive(w) \/ WorkerStep(w) \/ DlqFails(w)
    \/ \E d \in Deliveries : Rebalance(d)
    \/ \E k \in 1 .. Len(letters) : Record(k)
    \/ \E o \in Operators : OperatorStep(o)

Init == ConsumerInit /\ copies = [e \in Events |-> 0]

Next ==
    \/ ConsumerNext
    \/ \E n \in Nodes : Crash(n)
    \/ \E e \in Events : Publish(e)

Spec == Init /\ [][Next]_vars

-----------------------------------------------------------------------------
Handling == {"guard", "apply", "post", "release"}

(* At most one worker is between a claim and its outcome, over all         *)
(* processes and copies: what makes the handlers' look-then-write guards   *)
(* (no lock, no unique index in most of them) sound.                       *)
OneHandlerAtATime ==
    \A v, w \in Workers :
        /\ Sub(v) = Sub(w)
        /\ pc[v] \in Handling
        /\ pc[w] \in Handling
        => v = w

(* A handler's transaction takes effect at most once, however many copies, *)
(* retries, replays, rebalances, failed releases and crashes there are.    *)
EffectAtMostOnce == \A s \in Subs : effect[s] <= 1

\* A dead letter an operator can still act on, or has chosen to ignore.
Parked(s) ==
    \E k \in 1 .. Len(letters) :
        letters[k].sub = s /\ letters[k].status \in {"inTopic", "PENDING", "IGNORED"}

Settled(s) == effect[s] > 0 \/ Parked(s)

\* Every copy in the log is behind the committed offset, and nobody works.
Consumed(s) ==
    /\ copies[EventOf[s]] > 0
    /\ \A i \in 1 .. copies[EventOf[s]] : <<s, i>> \in acked
    /\ \A w \in Workers : Sub(w) = s => pc[w] = "idle"

\* A claim without an effect and with nobody to release it: what a process
\* that dies inside a handler, or a DELETE that is lost, leaves behind.
Orphaned(s) ==
    /\ s \in claims
    /\ effect[s] = 0
    /\ \A w \in Workers : Sub(w) = s => pc[w] \notin Handling

\* Its dead letter was lost to an error of the recorder.
Dropped(s) ==
    \E k \in 1 .. Len(letters) : letters[k].sub = s /\ letters[k].status = "dropped"

\* The ways the code has to lose an event.
Lost(s) == Orphaned(s) \/ Dropped(s) \/ s \in stranded

(* No event is lost in any other way: when a group has consumed all there  *)
(* is of it, the effect or a dead letter is there, whatever the retries,   *)
(* replays, crashes, rebalances and errors of the broker, unless its claim *)
(* is orphaned, its dead letter dropped, or a worker failed it after a     *)
(* rebalance had given it to another, who skipped it.                      *)
NothingLost ==
    \A s \in Subs : Consumed(s) => Settled(s) \/ Lost(s)

(* A RESOLVED row really went back to its topic: the log holds a copy more *)
(* than the resolved letters of the event.                                 *)
ResolvedWasReplayed ==
    \A e \in Events :
        LET resolved == {k \in 1 .. Len(letters) :
                            /\ EventOf[letters[k].sub] = e
                            /\ letters[k].status = "RESOLVED"}
        IN  resolved # {} => Cardinality(resolved) < copies[e]
=============================================================================
