---------------------------- MODULE EventPipeline ----------------------------
(***************************************************************************)
(* The outbox relays and the event consumers composed: they share the      *)
(* broker's log (copies), and a process runs one relay and one member of   *)
(* every consumer group, so that its death takes both with it.             *)
(***************************************************************************)
EXTENDS EventConsumers

CONSTANTS BatchSize, MaxRelayFaults

\* The producer is the relay, bounded by the log only.
ASSUME PipelineAssumption == MaxPublished = MaxCopies

VARIABLES
    outbox, batch, sent, failed, relayFaults

Relay == INSTANCE OutboxRelay WITH Relays <- Nodes

relayVars == <<outbox, batch, sent, failed, relayFaults>>
pipelineVars == <<relayVars, vars>>

PipelineInit == Relay!RelayInit /\ Init

(* A process dies: its relay's transaction is rolled back, its consumers'  *)
(* work is gone, and its members read again from the committed offsets.    *)
NodeCrash(n) ==
    /\ IF Relay!Held(n) = {} THEN UNCHANGED relayVars ELSE Relay!Rollback(n)
    /\ Crash(n)

PipelineNext ==
    \/ Relay!RelayNext /\ UNCHANGED consumerVars
    \/ ConsumerNext /\ UNCHANGED relayVars
    \/ \E n \in Nodes : NodeCrash(n)

PipelineSpec == PipelineInit /\ [][PipelineNext]_pipelineVars

(* The relay's timer fires, a backoff ends, a member polls its partitions  *)
(* and an await returns; operators and faults are not relied on.           *)
PipelineFairness ==
    /\ \A n \in Nodes : WF_pipelineVars(Relay!RelayStep(n) /\ UNCHANGED consumerVars)
    /\ \A e \in Events : WF_pipelineVars(Relay!BackoffElapses(e) /\ UNCHANGED consumerVars)
    /\ \A d \in Deliveries :
          WF_pipelineVars((\E w \in Workers : Delivery(w) = d /\ Receive(w)) /\ UNCHANGED relayVars)
    /\ \A w \in Workers : WF_pipelineVars(WorkerStep(w) /\ UNCHANGED relayVars)

PipelineFairSpec == PipelineSpec /\ PipelineFairness

-----------------------------------------------------------------------------
\* A row exists from the commit of its source document on, and cleanup
\* deletes no row that was not published.
Contract == INSTANCE EventContract WITH
                committed <- {e \in Events : outbox[e] # "none"}

(* The pipeline, with every crash, retry, duplicate and replay, implements *)
(* the contract: no handler takes effect twice, or for an event whose      *)
(* source document did not commit.                                         *)
ImplementsContract == Contract!Spec

(* End to end: once a source document has committed, every subscribed      *)
(* handler takes effect or leaves a dead letter, for good, but for the     *)
(* ways to lose an event that NothingLost of EventConsumers names.         *)
EndToEnd ==
    \A s \in Subs :
        outbox[EventOf[s]] # "none" ~> [](Settled(s) \/ Lost(s))

(* Housekeeping never outruns delivery: a row is published or deleted only *)
(* after the event reached the log its groups read.                        *)
MarkedAfterDelivery ==
    \A s \in Subs :
        effect[s] > 0 \/ outbox[EventOf[s]] \in {"published", "deleted"}
            => copies[EventOf[s]] > 0
=============================================================================
