------------------------ MODULE EventPipelineProofs ------------------------
(***************************************************************************)
(* Proofs about the event pipeline, for any processes, subscriptions,      *)
(* copies, retries and faults of every kind: first about the consumers     *)
(* alone (EventConsumers, whatever a producer publishes), then about the   *)
(* consumers composed with the relays (EventPipeline).                     *)
(***************************************************************************)
EXTENDS EventPipeline, FiniteSetTheorems, TLAPS

-----------------------------------------------------------------------------
(* The retry counter of a worker stays within 0 .. MaxRetries.             *)
LEMMA NextTryType ==
    ASSUME ConsumerTypeOK, NEW w \in Workers, NextTry(w)
    PROVE  /\ pc' \in [Workers -> WorkerStates]
           /\ tries' \in [Workers -> 0 .. MaxRetries]
<1>1. pc \in [Workers -> WorkerStates] /\ tries \in [Workers -> 0 .. MaxRetries]
  BY DEF ConsumerTypeOK
<1>2. MaxRetries \in Nat
  BY ConsumerAssumption
<1>3. CASE tries[w] < MaxRetries
  <2>1. tries[w] + 1 \in 0 .. MaxRetries
    BY <1>1, <1>2, <1>3
  <2>2. QED
    BY <1>1, <1>3, <2>1 DEF NextTry, WorkerStates
<1>4. CASE ~(tries[w] < MaxRetries)
  BY <1>1, <1>4 DEF NextTry, WorkerStates
<1>5. QED
  BY <1>3, <1>4

(* A worker that lets go of its delivery leaves well-typed state behind.   *)
LEMMA LetGoType ==
    ASSUME ConsumerTypeOK, NEW w \in Workers, LetGo(w)
    PROVE  /\ pc' \in [Workers -> WorkerStates]
           /\ tries' \in [Workers -> 0 .. MaxRetries]
           /\ reader' \in [Deliveries -> Nodes \cup {NoNode}]
<1>1. MaxRetries \in Nat
  BY ConsumerAssumption
<1>2. 0 \in 0 .. MaxRetries
  BY <1>1
<1>3. QED
  BY <1>2 DEF ConsumerTypeOK, LetGo, WorkerStates

(* A fault is counted.                                                     *)
LEMMA FaultType ==
    ASSUME faults \in Nat, NEW kind, Fault(kind)
    PROVE  faults' \in Nat
  BY DEF Fault

(* Only subscriptions are ever stranded.                                   *)
LEMMA StrandType ==
    ASSUME stranded \subseteq Subs, NEW ws \in SUBSET Workers, Strand(ws)
    PROVE  stranded' \subseteq Subs
<1>1. \A w \in Workers : Sub(w) \in Subs
  BY DEF Workers, Sub
<1>2. QED
  BY <1>1 DEF Strand

(* A new dead letter is one.                                               *)
LEMMA LetterType ==
    ASSUME letters \in Seq(Letters), NEW s \in Subs
    PROVE  Append(letters, [sub |-> s, status |-> "inTopic"]) \in Seq(Letters)
<1>1. [sub |-> s, status |-> "inTopic"] \in Letters
  BY DEF Letters, LetterStates
<1>2. QED
  BY <1>1

(* Changing the status of a letter leaves a sequence of letters.           *)
LEMMA StatusType ==
    ASSUME letters \in Seq(Letters), NEW k, NEW st \in LetterStates
    PROVE  [letters EXCEPT ![k].status = st] \in Seq(Letters)
<1>1. CASE k \in 1 .. Len(letters)
  <2>1. letters[k] \in Letters
    BY <1>1
  <2>2. [letters[k] EXCEPT !.status = st] \in Letters
    BY <2>1 DEF Letters
  <2>3. [letters EXCEPT ![k] = [letters[k] EXCEPT !.status = st]] \in Seq(Letters)
    BY <1>1, <2>2
  <2>4. QED
    BY <2>3
<1>2. CASE k \notin 1 .. Len(letters)
  <2>1. DOMAIN letters = 1 .. Len(letters) /\ letters = [j \in DOMAIN letters |-> letters[j]]
    OBVIOUS
  <2>2. [letters EXCEPT ![k].status = st] = letters
    BY <1>2, <2>1
  <2>3. QED
    BY <2>2
<1>3. QED
  BY <1>1, <1>2

(* One more copy of an event.                                              *)
LEMMA CopiesType ==
    ASSUME copies \in [Events -> Nat], NEW e
    PROVE  [copies EXCEPT ![e] = @ + 1] \in [Events -> Nat]
<1>1. CASE e \in Events
  BY <1>1
<1>2. CASE e \notin Events
  <2>1. [copies EXCEPT ![e] = @ + 1] = copies
    BY <1>2
  <2>2. QED
    BY <2>1
<1>3. QED
  BY <1>1, <1>2

(* A request, once it is one, keeps the operators' requests well-typed.    *)
LEMMA RequestType ==
    ASSUME request \in [Operators -> Requests], NEW o \in Operators,
           NEW q \in Requests, request' = [request EXCEPT ![o] = q]
    PROVE  request' \in [Operators -> Requests]
  OBVIOUS

(* One worker's action keeps the types.                                    *)
LEMMA WorkerTypeStep ==
    ASSUME ConsumerTypeOK, NEW w \in Workers,
           Receive(w) \/ WorkerStep(w) \/ DlqFails(w)
    PROVE  ConsumerTypeOK'
<1>0. Sub(w) \in Subs /\ Node(w) \in Nodes /\ Delivery(w) \in Deliveries
  BY DEF Workers, Deliveries, Sub, Node, Delivery
<1>1. CASE Receive(w)
  BY <1>0, <1>1 DEF Receive, ConsumerTypeOK, WorkerStates
<1>2. CASE TryClaim(w)
  BY <1>0, <1>2 DEF TryClaim, ConsumerTypeOK, WorkerStates
<1>3. CASE ClaimFails(w)
  <2>1. claims' \subseteq Subs /\ faults' \in Nat
    BY <1>0, <1>3, FaultType DEF ClaimFails, ConsumerTypeOK
  <2>2. NextTry(w) /\ UNCHANGED <<copies, reader, acked, effect, letters, request, stranded>>
    BY <1>3 DEF ClaimFails
  <2>3. QED
    BY <2>1, <2>2, NextTryType DEF ConsumerTypeOK
<1>4. CASE CheckGuard(w)
  BY <1>4 DEF CheckGuard, ConsumerTypeOK, WorkerStates
<1>5. CASE Apply(w)
  BY <1>0, <1>5 DEF Apply, ConsumerTypeOK, WorkerStates
<1>6. CASE HandlerReturns(w)
  BY <1>6 DEF HandlerReturns, ConsumerTypeOK, WorkerStates
<1>7. CASE HandlerThrows(w)
  BY <1>7 DEF HandlerThrows, ConsumerTypeOK, WorkerStates
<1>8. CASE Release(w)
  <2>1. claims' \subseteq Subs /\ faults' \in Nat
    BY <1>0, <1>8, FaultType DEF Release, ConsumerTypeOK
  <2>2. NextTry(w) /\ UNCHANGED <<copies, reader, acked, effect, letters, request, stranded>>
    BY <1>8 DEF Release
  <2>3. QED
    BY <2>1, <2>2, NextTryType DEF ConsumerTypeOK
<1>9. CASE SendToDlq(w)
  <2>1. letters' \in Seq(Letters)
    BY <1>0, <1>9, LetterType DEF SendToDlq, ConsumerTypeOK
  <2>2. QED
    BY <1>9, <2>1 DEF SendToDlq, ConsumerTypeOK, WorkerStates
<1>10. CASE CommitOffset(w)
  <2>1. acked' \subseteq Deliveries
    BY <1>0, <1>10 DEF CommitOffset, ConsumerTypeOK
  <2>2. LetGo(w) /\ UNCHANGED <<copies, claims, effect, letters, request, faults, stranded>>
    BY <1>10 DEF CommitOffset
  <2>3. QED
    BY <2>1, <2>2, LetGoType DEF ConsumerTypeOK
<1>11. CASE DlqFails(w)
  <2>1. letters' \in Seq(Letters) /\ faults' \in Nat
    BY <1>0, <1>11, LetterType, FaultType DEF DlqFails, ConsumerTypeOK
  <2>2. LetGo(w) /\ UNCHANGED <<copies, acked, claims, effect, request>>
    BY <1>11 DEF DlqFails
  <2>3. stranded' \subseteq Subs
    BY <1>11, StrandType DEF DlqFails, ConsumerTypeOK
  <2>4. QED
    BY <2>1, <2>2, <2>3, LetGoType DEF ConsumerTypeOK
<1>12. QED
  BY <1>1, <1>2, <1>3, <1>4, <1>5, <1>6, <1>7, <1>8, <1>9, <1>10, <1>11 DEF WorkerStep

(* An operator's action keeps the types.                                   *)
LEMMA OperatorTypeStep ==
    ASSUME ConsumerTypeOK, NEW o \in Operators, OperatorStep(o)
    PROVE  ConsumerTypeOK'
<1>0. NoRequest \in Requests
  BY DEF NoRequest, Requests
<1>1. ASSUME NEW k \in 1 .. Len(letters), BeginReplay(o, k) \/ BeginIgnore(o, k)
      PROVE  ConsumerTypeOK'
  <2>1. k \in Nat
    BY DEF ConsumerTypeOK
  <2>2. /\ [kind |-> "publish", letter |-> k] \in Requests
        /\ [kind |-> "ignore", letter |-> k] \in Requests
    BY <2>1 DEF Requests
  <2>3. request' \in [Operators -> Requests]
    BY <1>1, <2>2, RequestType DEF BeginReplay, BeginIgnore, ConsumerTypeOK
  <2>4. QED
    BY <1>1, <2>3 DEF BeginReplay, BeginIgnore, ConsumerTypeOK
<1>2. CASE ReplayPublish(o)
  <2>1. request[o] \in Requests
    BY DEF ConsumerTypeOK
  <2>2. [request[o] EXCEPT !.kind = "resolve"] \in Requests
    BY <2>1 DEF Requests
  <2>3. request' = [request EXCEPT ![o] = [request[o] EXCEPT !.kind = "resolve"]]
    BY <1>2 DEF ReplayPublish
  <2>4. request' \in [Operators -> Requests]
    BY <2>2, <2>3, RequestType DEF ConsumerTypeOK
  <2>5. copies' \in [Events -> Nat]
    BY <1>2, CopiesType DEF ReplayPublish, ConsumerTypeOK
  <2>6. QED
    BY <1>2, <2>4, <2>5 DEF ReplayPublish, ConsumerTypeOK
<1>3. CASE ReplayThrows(o) \/ RequestDies(o)
  <2>1. request' \in [Operators -> Requests]
    BY <1>0, <1>3, RequestType DEF ReplayThrows, RequestDies, ConsumerTypeOK
  <2>2. faults' \in Nat
    BY <1>3, FaultType DEF ReplayThrows, RequestDies, ConsumerTypeOK
  <2>3. QED
    BY <1>3, <2>1, <2>2 DEF ReplayThrows, RequestDies, ConsumerTypeOK
<1>4. CASE SaveRow(o)
  <2>1. request' \in [Operators -> Requests]
    BY <1>0, <1>4, RequestType DEF SaveRow, ConsumerTypeOK
  <2>2. letters' \in Seq(Letters)
    BY <1>4, StatusType DEF SaveRow, ConsumerTypeOK, LetterStates
  <2>3. QED
    BY <1>4, <2>1, <2>2 DEF SaveRow, ConsumerTypeOK
<1>5. QED
  BY <1>1, <1>2, <1>3, <1>4 DEF OperatorStep

(* The type invariant of the consuming side.                               *)
THEOREM ConsumerTypeCorrect == Spec => []ConsumerTypeOK
<1>1. Init => ConsumerTypeOK
  BY ConsumerAssumption DEF Init, ConsumerInit, ConsumerTypeOK, WorkerStates, Requests,
     NoRequest, Letters
<1>2. ConsumerTypeOK /\ [Next]_vars => ConsumerTypeOK'
  <2> SUFFICES ASSUME ConsumerTypeOK, [Next]_vars
               PROVE  ConsumerTypeOK'
    OBVIOUS
  <2>1. ASSUME NEW d \in Deliveries, Rebalance(d)  PROVE ConsumerTypeOK'
    BY <2>1 DEF Rebalance, ConsumerTypeOK, Fault
  <2>2. ASSUME NEW k \in 1 .. Len(letters), Record(k)  PROVE ConsumerTypeOK'
    <3>1. letters' \in Seq(Letters)
      BY <2>2, StatusType DEF Record, ConsumerTypeOK, LetterStates
    <3>2. faults' \in Nat
      BY <2>2, FaultType DEF Record, ConsumerTypeOK
    <3>3. QED
      BY <2>2, <3>1, <3>2 DEF Record, ConsumerTypeOK
  <2>3. ASSUME NEW n \in Nodes, Crash(n)  PROVE ConsumerTypeOK'
    <3>1. stranded' \subseteq Subs
      BY <2>3, StrandType DEF Crash, ConsumerTypeOK
    <3>2. QED
      BY <2>3, <3>1, ConsumerAssumption DEF Crash, Restart, ConsumerTypeOK, Fault, WorkerStates
  <2>4. ASSUME NEW e \in Events, Publish(e)  PROVE ConsumerTypeOK'
    BY <2>4 DEF Publish, ConsumerTypeOK, consumerVars
  <2>5. CASE UNCHANGED vars
    BY <2>5 DEF vars, consumerVars, ConsumerTypeOK
  <2>6. QED
    BY <2>1, <2>2, <2>3, <2>4, <2>5, WorkerTypeStep, OperatorTypeStep
       DEF Next, ConsumerNext
<1>3. QED
  BY <1>1, <1>2, PTL DEF Spec

-----------------------------------------------------------------------------
(* What the at-most-once argument says of the workers.  A worker between   *)
(* claim and outcome is alone with its subscription and the claim is in    *)
(* the table, so that nobody else can start; it reaches "apply" only after *)
(* it saw no effect, and nobody can have added one since.                  *)
ClaimHeld ==
    \A w \in Workers : pc[w] \in Handling => Sub(w) \in claims

GuardStillTrue ==
    \A w \in Workers : pc[w] = "apply" => effect[Sub(w)] = 0

\* The types the argument needs.
WorkerTypes ==
    /\ pc \in [Workers -> WorkerStates]
    /\ effect \in [Subs -> Nat]

EffectInv ==
    /\ WorkerTypes
    /\ OneHandlerAtATime
    /\ ClaimHeld
    /\ GuardStillTrue
    /\ EffectAtMostOnce

-----------------------------------------------------------------------------
\* A worker leaves the states in which it handles anything.
StopsOnly(w) ==
    /\ pc' \in [Workers -> WorkerStates]
    /\ \A v \in Workers \ {w} : pc'[v] = pc[v]
    /\ pc'[w] \notin Handling

(* The retry decision takes a worker to its next call or to the dlq.       *)
LEMMA NextTryStops ==
    ASSUME WorkerTypes, NEW w \in Workers, NextTry(w)
    PROVE  StopsOnly(w)
  BY DEF WorkerTypes, NextTry, StopsOnly, Handling, WorkerStates

(* A worker that stops, keeping every claim, disturbs nothing.             *)
LEMMA StopPreserves ==
    ASSUME EffectInv, NEW w \in Workers, StopsOnly(w),
           claims \subseteq claims', effect' = effect
    PROVE  EffectInv'
  BY DEF EffectInv, WorkerTypes, StopsOnly, OneHandlerAtATime, ClaimHeld,
         GuardStillTrue, EffectAtMostOnce, Handling

(* A worker that was handling may go on within the handler.                *)
LEMMA GoOnPreserves ==
    ASSUME EffectInv, NEW w \in Workers, NEW st \in Handling \ {"apply"},
           pc[w] \in Handling, pc' = [pc EXCEPT ![w] = st],
           claims' = claims, effect' = effect
    PROVE  EffectInv'
  BY DEF EffectInv, WorkerTypes, OneHandlerAtATime, ClaimHeld, GuardStillTrue,
         EffectAtMostOnce, Handling, WorkerStates

-----------------------------------------------------------------------------
(* No delivery, retry, replay or fault breaks the invariant.               *)
LEMMA EffectInvStep == EffectInv /\ [Next]_vars => EffectInv'
<1> SUFFICES ASSUME EffectInv, [Next]_vars
             PROVE  EffectInv'
  OBVIOUS
<1>0. WorkerTypes
  BY DEF EffectInv
<1>1. ASSUME NEW w \in Workers, Receive(w) \/ WorkerStep(w) \/ DlqFails(w)
      PROVE  EffectInv'
  <2> DEFINE s == Sub(w)
  <2>0. s \in Subs
    BY DEF Workers, Sub
  <2>1. CASE Receive(w) \/ SendToDlq(w)
    <3>1. StopsOnly(w)
      BY <1>0, <2>0, <2>1
         DEF Receive, SendToDlq, StopsOnly, WorkerTypes, Handling, WorkerStates
    <3>2. claims' = claims /\ effect' = effect
      BY <2>1 DEF Receive, SendToDlq
    <3>3. QED
      BY <2>0, <3>1, <3>2, StopPreserves
  <2>2. CASE DlqFails(w) \/ CommitOffset(w)
    <3>1. StopsOnly(w)
      BY <1>0, <2>0, <2>2
         DEF DlqFails, CommitOffset, LetGo, StopsOnly, WorkerTypes, Handling, WorkerStates
    <3>2. claims' = claims /\ effect' = effect
      BY <2>2 DEF DlqFails, CommitOffset
    <3>3. QED
      BY <2>0, <3>1, <3>2, StopPreserves
  <2>3. CASE TryClaim(w)
    <3>1. CASE s \in claims
      <4>1. StopsOnly(w)
        BY <1>0, <2>0, <2>3, <3>1
           DEF TryClaim, StopsOnly, WorkerTypes, Handling, WorkerStates
      <4>2. claims \subseteq claims' /\ effect' = effect
        BY <2>3 DEF TryClaim
      <4>3. QED
        BY <2>0, <4>1, <4>2, StopPreserves
    <3>2. CASE s \notin claims
      <4>1. \A v \in Workers : Sub(v) = Sub(w) => pc[v] \notin Handling
        BY <3>2 DEF EffectInv, ClaimHeld
      <4>2. /\ pc' = [pc EXCEPT ![w] = "guard"]
            /\ claims' = claims \cup {s}
            /\ effect' = effect
        BY <2>3, <3>2 DEF TryClaim
      <4>3. QED
        BY <2>0, <4>1, <4>2
           DEF EffectInv, WorkerTypes, OneHandlerAtATime, ClaimHeld,
               GuardStillTrue, EffectAtMostOnce, Handling, WorkerStates
    <3>3. QED
      BY <3>1, <3>2
  <2>4. CASE ClaimFails(w)
    <3>1. NextTry(w) /\ claims \subseteq claims' /\ effect' = effect
      BY <2>4 DEF ClaimFails
    <3>2. QED
      BY <1>0, <2>0, <3>1, NextTryStops, StopPreserves
  <2>5. CASE CheckGuard(w)
    <3>1. CASE effect[s] > 0
      BY <2>0, <2>5, <3>1, GoOnPreserves DEF CheckGuard, Handling
    <3>2. CASE ~(effect[s] > 0)
      <4>1. effect[s] = 0
        BY <1>0, <2>0, <3>2 DEF WorkerTypes
      <4>2. /\ pc[w] = "guard"
            /\ pc' = [pc EXCEPT ![w] = "apply"]
            /\ claims' = claims
            /\ effect' = effect
        BY <2>5, <3>2 DEF CheckGuard
      <4>3. QED
        BY <2>0, <4>1, <4>2
           DEF EffectInv, WorkerTypes, OneHandlerAtATime, ClaimHeld,
               GuardStillTrue, EffectAtMostOnce, Handling, WorkerStates
    <3>3. QED
      BY <3>1, <3>2
  <2>6. CASE Apply(w)
    <3>1. /\ pc[w] = "apply"
          /\ pc' = [pc EXCEPT ![w] = "post"]
          /\ effect' = [effect EXCEPT ![s] = @ + 1]
          /\ claims' = claims
      BY <2>6 DEF Apply
    <3>2. effect[s] = 0 /\ effect'[s] = 1
      BY <1>0, <2>0, <3>1 DEF EffectInv, GuardStillTrue, WorkerTypes
    <3>3. \A v \in Workers \ {w} : Sub(v) = Sub(w) => pc[v] # "apply"
      BY <2>0, <3>1 DEF EffectInv, OneHandlerAtATime, Handling
    <3>4. WorkerTypes' /\ OneHandlerAtATime' /\ ClaimHeld'
      BY <2>0, <3>1
         DEF EffectInv, WorkerTypes, OneHandlerAtATime, ClaimHeld, Handling, WorkerStates
    <3>5. GuardStillTrue'
      BY <2>0, <3>1, <3>3, <1>0 DEF EffectInv, GuardStillTrue, WorkerTypes, Workers
    <3>6. EffectAtMostOnce'
      BY <3>1, <3>2, <1>0 DEF EffectInv, EffectAtMostOnce, WorkerTypes
    <3>7. QED
      BY <3>4, <3>5, <3>6 DEF EffectInv
  <2>7. CASE HandlerReturns(w)
    <3>1. StopsOnly(w) /\ claims' = claims /\ effect' = effect
      BY <1>0, <2>0, <2>7
         DEF HandlerReturns, StopsOnly, WorkerTypes, Handling, WorkerStates
    <3>2. QED
      BY <2>0, <3>1, StopPreserves
  <2>8. CASE HandlerThrows(w)
    BY <2>0, <2>8, GoOnPreserves DEF HandlerThrows, Handling
  <2>9. CASE Release(w)
    <3>1. StopsOnly(w) /\ effect' = effect /\ claims \ {s} \subseteq claims'
      BY <1>0, <2>0, <2>9, NextTryStops DEF Release
    <3>2. \A v \in Workers \ {w} : Sub(v) = Sub(w) => pc[v] \notin Handling
      BY <2>0, <2>9 DEF Release, EffectInv, OneHandlerAtATime, Handling
    <3>3. QED
      BY <2>0, <3>1, <3>2
         DEF EffectInv, WorkerTypes, StopsOnly, OneHandlerAtATime, ClaimHeld,
             GuardStillTrue, EffectAtMostOnce, Handling
  <2>10. QED
    BY <1>1, <2>1, <2>2, <2>3, <2>4, <2>5, <2>6, <2>7, <2>8, <2>9 DEF WorkerStep
<1>2. ASSUME NEW n \in Nodes, Crash(n)
      PROVE  EffectInv'
  <2>1. /\ pc' = [w \in Workers |-> IF Node(w) = n THEN "idle" ELSE pc[w]]
        /\ claims' = claims
        /\ effect' = effect
    BY <1>2 DEF Crash, Restart
  <2>2. \A w \in Workers : pc'[w] = pc[w] \/ pc'[w] = "idle"
    BY <2>1
  <2>3. WorkerTypes'
    BY <1>0, <2>1 DEF WorkerTypes, WorkerStates
  <2>4. QED
    BY <2>1, <2>2, <2>3
       DEF EffectInv, OneHandlerAtATime, ClaimHeld, GuardStillTrue,
           EffectAtMostOnce, Handling
<1>3. CASE UNCHANGED <<pc, claims, effect>>
  BY <1>3 DEF EffectInv, WorkerTypes, OneHandlerAtATime, ClaimHeld,
              GuardStillTrue, EffectAtMostOnce
<1>4. ASSUME NEW o \in Operators, OperatorStep(o)
      PROVE  UNCHANGED <<pc, claims, effect>>
  BY <1>4 DEF OperatorStep, BeginReplay, BeginIgnore, ReplayPublish, ReplayThrows,
              SaveRow, RequestDies
<1>5. ASSUME NEW d \in Deliveries, Rebalance(d)
      PROVE  UNCHANGED <<pc, claims, effect>>
  BY <1>5 DEF Rebalance
<1>6. ASSUME NEW k \in 1 .. Len(letters), Record(k)
      PROVE  UNCHANGED <<pc, claims, effect>>
  BY <1>6 DEF Record
<1>7. ASSUME NEW e \in Events, Publish(e)
      PROVE  UNCHANGED <<pc, claims, effect>>
  BY <1>7 DEF Publish, consumerVars
<1>8. CASE UNCHANGED vars
  BY <1>3, <1>8 DEF vars, consumerVars
<1>9. QED
  BY <1>1, <1>2, <1>3, <1>4, <1>5, <1>6, <1>7, <1>8 DEF Next, ConsumerNext

(* The invariant holds from the start on.                                  *)
LEMMA EffectInvariant == Spec => []EffectInv
<1>1. Init => EffectInv
  BY DEF Init, ConsumerInit, EffectInv, WorkerTypes, WorkerStates, OneHandlerAtATime,
         ClaimHeld, GuardStillTrue, EffectAtMostOnce, Handling
<1>2. QED
  BY <1>1, EffectInvStep, PTL DEF Spec

(* Claims make handlers exclusive: over all processes and copies of an     *)
(* event, one worker per group is between claim and outcome.               *)
THEOREM HandlersExclusive == Spec => []OneHandlerAtATime
<1>1. EffectInv => OneHandlerAtATime
  BY DEF EffectInv
<1>2. QED
  BY <1>1, EffectInvariant, PTL

(* Claim plus guard: no event takes effect twice in one group, whatever    *)
(* crashes, rebalances, re-sends, retries and replays happen.              *)
THEOREM EffectsHappenOnce == Spec => []EffectAtMostOnce
<1>1. EffectInv => EffectAtMostOnce
  BY DEF EffectInv
<1>2. QED
  BY <1>1, EffectInvariant, PTL

-----------------------------------------------------------------------------
\* What a worker works on, and what was acknowledged, is in the log; a delivery
\* that is being read was not acknowledged; a letter's event is in the log; an
\* operator's request is about a recorded letter; and after its transaction a
\* handler has taken effect.
InLog(s, i) == i <= copies[EventOf[s]]

DeliveriesKnown ==
    /\ \A w \in Workers : pc[w] # "idle" => InLog(Sub(w), w[3])
    /\ \A d \in acked : InLog(d[1], d[2])
    /\ \A d \in Deliveries : reader[d] # NoNode => d \notin acked

LettersKnown ==
    /\ \A k \in 1 .. Len(letters) : copies[EventOf[letters[k].sub]] > 0
    /\ \A o \in Operators : request[o].kind # "none" =>
          /\ request[o].letter \in 1 .. Len(letters)
          /\ letters[request[o].letter].status \notin {"inTopic", "dropped"}

PostDone == \A w \in Workers : pc[w] = "post" => effect[Sub(w)] > 0

DeliveryInv == ConsumerTypeOK /\ DeliveriesKnown /\ LettersKnown /\ PostDone

(* The parts of a worker and of a delivery.                                *)
LEMMA WorkerParts ==
    /\ \A w \in Workers : /\ Sub(w) \in Subs /\ Node(w) \in Nodes /\ w[3] \in Copies
                          /\ EventOf[Sub(w)] \in Events
                          /\ Delivery(w) \in Deliveries /\ Delivery(w) = <<Sub(w), w[3]>>
                          /\ Delivery(w)[1] = Sub(w) /\ Delivery(w)[2] = w[3]
                          /\ w = <<Node(w), Sub(w), w[3]>>
    /\ \A d \in Deliveries : d[1] \in Subs /\ d[2] \in Copies /\ d = <<d[1], d[2]>>
    /\ \A s \in Subs : EventOf[s] \in Events
    /\ NoNode \notin Nodes
  BY ConsumerAssumption DEF ConsumerAssumption, Workers, Deliveries, Sub, Node, Delivery

(* One letter changes its status.                                          *)
LEMMA StatusChanged ==
    ASSUME letters \in Seq(Letters), NEW k \in 1 .. Len(letters), NEW st \in LetterStates,
           letters' = [letters EXCEPT ![k].status = st]
    PROVE  /\ Len(letters') = Len(letters)
           /\ letters'[k].status = st
           /\ \A j \in 1 .. Len(letters) : letters'[j].sub = letters[j].sub
           /\ \A j \in 1 .. Len(letters) : j # k => letters'[j] = letters[j]
<1>1. DOMAIN letters = 1 .. Len(letters) /\ DOMAIN letters' = DOMAIN letters
  OBVIOUS
<1>2. letters[k] \in Letters
  OBVIOUS
<1>3. letters'[k] = [letters[k] EXCEPT !.status = st]
  BY <1>1
<1>4. letters'[k].status = st /\ letters'[k].sub = letters[k].sub
  BY <1>2, <1>3 DEF Letters
<1>5. \A j \in 1 .. Len(letters) : j # k => letters'[j] = letters[j]
  BY <1>1
<1>6. letters' \in Seq(Letters)
  BY StatusType
<1>7. Len(letters') = Len(letters)
  <2>1. DOMAIN letters' = 1 .. Len(letters') /\ Len(letters') \in Nat /\ Len(letters) \in Nat
    BY <1>6
  <2> QED
    BY <1>1, <2>1
<1> QED
  BY <1>4, <1>5, <1>7

(* A new letter is the last.                                               *)
LEMMA LetterAdded ==
    ASSUME letters \in Seq(Letters), NEW s, letters' = Append(letters, [sub |-> s, status |-> "inTopic"])
    PROVE  /\ Len(letters') = Len(letters) + 1 /\ Len(letters) \in Nat
           /\ letters'[Len(letters) + 1].sub = s
           /\ letters'[Len(letters) + 1].status = "inTopic"
           /\ \A j \in 1 .. Len(letters) : letters'[j] = letters[j]
  OBVIOUS

(* A worker's step keeps all this.                                         *)
LEMMA WorkerKeepsDeliveries ==
    ASSUME DeliveryInv, ConsumerTypeOK', NEW w \in Workers,
           Receive(w) \/ WorkerStep(w) \/ DlqFails(w)
    PROVE  DeliveryInv'
<1> DEFINE s == Sub(w)
           d == Delivery(w)
<1>0. UNCHANGED <<copies, request>> /\ \A v \in Workers : v # w => pc'[v] = pc[v]
  BY DEF DeliveryInv, ConsumerTypeOK, Receive, WorkerStep, DlqFails, TryClaim, ClaimFails, CheckGuard, Apply,
         HandlerReturns, HandlerThrows, Release, SendToDlq, CommitOffset, NextTry, LetGo
<1>1. pc'[w] # "idle" => InLog(s, w[3])
  <2>1. CASE Receive(w)
    BY <2>1 DEF Receive, InLog
  <2>2. CASE WorkerStep(w) \/ DlqFails(w)
    <3>1. pc[w] # "idle"
      BY <2>2 DEF DlqFails, WorkerStep, TryClaim, ClaimFails, CheckGuard, Apply,
                  HandlerReturns, HandlerThrows, Release, SendToDlq, CommitOffset
    <3> QED
      BY <3>1 DEF DeliveryInv, DeliveriesKnown
  <2> QED
    BY <2>1, <2>2
<1>2. \/ Receive(w) /\ acked' = acked /\ d \notin acked /\ reader' = [reader EXCEPT ![d] = Node(w)]
      \/ acked' = acked /\ (reader' = reader \/ reader' = [reader EXCEPT ![d] = NoNode])
      \/ acked' = acked \cup {d} /\ reader' = [reader EXCEPT ![d] = NoNode] /\ pc[w] # "idle"
  BY DEF Receive, WorkerStep, DlqFails, TryClaim, ClaimFails, CheckGuard, Apply,
         HandlerReturns, HandlerThrows, Release, SendToDlq, CommitOffset, LetGo
<1>3. DeliveriesKnown'
  <2>1. \A v \in Workers : pc'[v] # "idle" => InLog(Sub(v), v[3])'
    BY <1>0, <1>1 DEF DeliveryInv, DeliveriesKnown, InLog
  <2>2. \A x \in acked' : InLog(x[1], x[2])'
    BY <1>0, <1>2, WorkerParts DEF DeliveryInv, DeliveriesKnown, InLog
  <2>3. \A x \in Deliveries : reader'[x] # NoNode => x \notin acked'
    BY <1>2, WorkerParts DEF DeliveryInv, DeliveriesKnown, ConsumerTypeOK
  <2> QED
    BY <2>1, <2>2, <2>3 DEF DeliveriesKnown
<1>4. LettersKnown'
  <2>1. CASE UNCHANGED letters
    BY <1>0, <2>1 DEF DeliveryInv, LettersKnown
  <2>2. CASE letters' = Append(letters, [sub |-> s, status |-> "inTopic"]) /\ pc[w] = "toDlq"
    <3>1. letters \in Seq(Letters)
      BY DEF DeliveryInv, ConsumerTypeOK
    <3>2. copies[EventOf[s]] > 0
      <4>1. InLog(s, w[3]) /\ w[3] \in Nat \ {0} /\ copies[EventOf[s]] \in Nat
        BY <2>2, WorkerParts DEF DeliveryInv, DeliveriesKnown, ConsumerTypeOK, Copies
      <4> QED
        BY <4>1 DEF InLog
    <3> QED
      BY <1>0, <2>2, <3>1, <3>2, LetterAdded DEF DeliveryInv, LettersKnown
  <2> QED
    BY <2>1, <2>2 DEF Receive, WorkerStep, DlqFails, TryClaim, ClaimFails, CheckGuard, Apply,
         HandlerReturns, HandlerThrows, Release, SendToDlq, CommitOffset
<1>5. PostDone'
  <2>1. \A v \in Workers : effect[Sub(v)] > 0 => effect'[Sub(v)] > 0
    <3>1. effect' = effect \/ effect' = [effect EXCEPT ![s] = @ + 1]
      BY DEF Receive, WorkerStep, DlqFails, TryClaim, ClaimFails, CheckGuard, Apply,
             HandlerReturns, HandlerThrows, Release, SendToDlq, CommitOffset
    <3>2. effect \in [Subs -> Nat] /\ s \in Subs
      BY WorkerParts DEF DeliveryInv, ConsumerTypeOK
    <3> QED
      BY <3>1, <3>2, WorkerParts
  <2>2. pc'[w] = "post" => effect'[s] > 0
    BY WorkerParts DEF DeliveryInv, ConsumerTypeOK, Receive, WorkerStep, DlqFails, TryClaim, ClaimFails,
         CheckGuard, Apply, HandlerReturns, HandlerThrows, Release, SendToDlq, CommitOffset, NextTry, LetGo
  <2> QED
    BY <1>0, <2>1, <2>2 DEF DeliveryInv, PostDone
<1> QED
  BY <1>3, <1>4, <1>5 DEF DeliveryInv

(* So does an operator's.                                                  *)
LEMMA OperatorKeepsDeliveries ==
    ASSUME DeliveryInv, ConsumerTypeOK', NEW o \in Operators, OperatorStep(o)
    PROVE  DeliveryInv'
<1>1. UNCHANGED <<pc, reader, acked, effect>>
  BY DEF OperatorStep, BeginReplay, BeginIgnore, ReplayPublish, ReplayThrows, SaveRow, RequestDies
<1>2. \A e \in Events : copies'[e] \in Nat /\ copies[e] \in Nat /\ copies'[e] >= copies[e]
  <2>1. copies' = copies \/ \E e : copies' = [copies EXCEPT ![e] = @ + 1]
    BY DEF OperatorStep, BeginReplay, BeginIgnore, ReplayPublish, ReplayThrows, SaveRow, RequestDies
  <2>2. copies \in [Events -> Nat]
    BY DEF DeliveryInv, ConsumerTypeOK
  <2> QED
    BY <2>1, <2>2
<1>3. DeliveriesKnown'
  <2>1. \A s \in Subs, i \in Copies : InLog(s, i) => InLog(s, i)'
    BY <1>2, WorkerParts DEF InLog, Copies
  <2> QED
    BY <1>1, <2>1, WorkerParts DEF DeliveryInv, DeliveriesKnown, ConsumerTypeOK
<1>4. LettersKnown'
  <2>0. /\ letters \in Seq(Letters) /\ request \in [Operators -> Requests]
        /\ \A k \in 1 .. Len(letters) : EventOf[letters[k].sub] \in Events
    <3>1. \A k \in 1 .. Len(letters) : letters[k] \in Letters
      BY DEF DeliveryInv, ConsumerTypeOK
    <3> QED
      BY <3>1, WorkerParts DEF DeliveryInv, ConsumerTypeOK, Letters
  <2>1. ASSUME NEW k \in 1 .. Len(letters), BeginReplay(o, k) \/ BeginIgnore(o, k)
        PROVE  LettersKnown'
    BY <2>0, <2>1 DEF BeginReplay, BeginIgnore, DeliveryInv, LettersKnown
  <2>2. CASE ReplayPublish(o)
    <3>1. /\ letters' = letters
          /\ \A p \in Operators : request'[p].letter = request[p].letter
          /\ \A p \in Operators : request'[p].kind # "none" => request[p].kind # "none"
      BY <2>0, <2>2 DEF ReplayPublish, Requests
    <3> QED
      BY <1>2, <2>0, <3>1 DEF DeliveryInv, LettersKnown
  <2>3. CASE ReplayThrows(o) \/ RequestDies(o)
    <3>1. /\ UNCHANGED <<copies, letters>>
          /\ \A p \in Operators : request'[p] = request[p] \/ request'[p].kind = "none"
      BY <2>0, <2>3 DEF ReplayThrows, RequestDies, NoRequest
    <3> QED
      BY <3>1 DEF DeliveryInv, LettersKnown
  <2>4. CASE SaveRow(o)
    <3> DEFINE k == request[o].letter
               st == IF request[o].kind = "resolve" THEN "RESOLVED" ELSE "IGNORED"
    <3>1. k \in 1 .. Len(letters) /\ letters' = [letters EXCEPT ![k].status = st] /\ copies' = copies
      BY <2>4 DEF SaveRow, DeliveryInv, LettersKnown
    <3>2. st \in LetterStates \ {"inTopic", "dropped"}
      BY DEF LetterStates
    <3>3. \A p \in Operators : request'[p] = request[p] \/ request'[p].kind = "none"
      BY <2>0, <2>4 DEF SaveRow, NoRequest
    <3> HIDE DEF k, st
    <3>4. /\ Len(letters') = Len(letters)
          /\ letters'[k].status = st
          /\ \A j \in 1 .. Len(letters) : letters'[j].sub = letters[j].sub
          /\ \A j \in 1 .. Len(letters) : j # k => letters'[j] = letters[j]
      BY <2>0, <3>1, StatusChanged
    <3> QED
      BY <3>1, <3>2, <3>3, <3>4 DEF DeliveryInv, LettersKnown
  <2> QED
    BY <2>1, <2>2, <2>3, <2>4 DEF OperatorStep
<1> QED
  BY <1>1, <1>3, <1>4 DEF DeliveryInv, PostDone

(* And so do rebalances, crashes, the recorder and the producers.          *)
LEMMA DeliveryInvStep ==
    ASSUME DeliveryInv, ConsumerTypeOK', [Next]_vars
    PROVE  DeliveryInv'
<1>1. ASSUME NEW d \in Deliveries, Rebalance(d) PROVE DeliveryInv'
  <2>1. UNCHANGED <<copies, pc, acked, effect, letters, request>> /\ reader' = [reader EXCEPT ![d] = NoNode]
    BY <1>1 DEF Rebalance
  <2> QED
    BY <2>1 DEF DeliveryInv, DeliveriesKnown, LettersKnown, PostDone, InLog, ConsumerTypeOK
<1>2. ASSUME NEW k \in 1 .. Len(letters), Record(k) PROVE DeliveryInv'
  <2>1. /\ UNCHANGED <<copies, pc, reader, acked, effect, request>> /\ letters \in Seq(Letters)
        /\ letters[k].status = "inTopic"
        /\ \E st \in {"PENDING", "dropped"} : letters' = [letters EXCEPT ![k].status = st]
    BY <1>2 DEF Record, DeliveryInv, ConsumerTypeOK
  <2>a. {"PENDING", "dropped"} \subseteq LetterStates
    BY DEF LetterStates
  <2>2. /\ Len(letters') = Len(letters)
        /\ \A j \in 1 .. Len(letters) : letters'[j].sub = letters[j].sub
        /\ \A j \in 1 .. Len(letters) : j # k => letters'[j] = letters[j]
    BY <2>1, <2>a, StatusChanged
  <2>3. LettersKnown'
    BY <2>1, <2>2 DEF DeliveryInv, LettersKnown
  <2> QED
    BY <2>1, <2>3 DEF DeliveryInv, DeliveriesKnown, PostDone, InLog
<1>3. ASSUME NEW n \in Nodes, Crash(n) PROVE DeliveryInv'
  <2>1. /\ UNCHANGED <<copies, acked, effect, letters, request>>
        /\ \A w \in Workers : pc'[w] = pc[w] \/ pc'[w] = "idle"
        /\ \A d \in Deliveries : reader'[d] = reader[d] \/ reader'[d] = NoNode
    BY <1>3 DEF Crash, Restart
  <2> QED
    BY <2>1 DEF DeliveryInv, DeliveriesKnown, LettersKnown, PostDone, InLog
<1>4. ASSUME NEW e \in Events, Publish(e) PROVE DeliveryInv'
  <2>1. /\ UNCHANGED consumerVars
        /\ \A x \in Events : copies'[x] \in Nat /\ copies[x] \in Nat /\ copies'[x] >= copies[x]
    BY <1>4 DEF Publish, DeliveryInv, ConsumerTypeOK
  <2>2. \A s \in Subs, i \in Copies : InLog(s, i) => InLog(s, i)'
    BY <2>1, WorkerParts DEF InLog, Copies
  <2>3. DeliveriesKnown'
    BY <2>1, <2>2, WorkerParts DEF DeliveryInv, DeliveriesKnown, ConsumerTypeOK, consumerVars
  <2>4. \A k \in 1 .. Len(letters) : letters[k] \in Letters
    BY DEF DeliveryInv, ConsumerTypeOK
  <2>5. \A k \in 1 .. Len(letters) : EventOf[letters[k].sub] \in Events
    BY <2>4, WorkerParts DEF Letters
  <2>6. LettersKnown'
    BY <2>1, <2>5 DEF DeliveryInv, LettersKnown, consumerVars
  <2> QED
    BY <2>1, <2>3, <2>6 DEF DeliveryInv, PostDone, consumerVars
<1>5. CASE UNCHANGED vars
  BY <1>5 DEF vars, consumerVars, DeliveryInv, DeliveriesKnown, LettersKnown, PostDone, InLog
<1> QED
  BY <1>1, <1>2, <1>3, <1>4, <1>5, WorkerKeepsDeliveries, OperatorKeepsDeliveries DEF Next, ConsumerNext

-----------------------------------------------------------------------------
\* What keeps an event alive for subscription s: a dead letter that no operator
\* is about to resolve, a worker busy with it, or a copy that is neither
\* acknowledged nor about to be.
BeingResolved(k) ==
    \E o \in Operators : request[o].kind = "resolve" /\ request[o].letter = k

Firm(s) ==
    \E k \in 1 .. Len(letters) :
        /\ letters[k].sub = s
        /\ letters[k].status \in {"inTopic", "PENDING", "IGNORED"}
        /\ ~ BeingResolved(k)

Working(s) == \E w \in Workers : Sub(w) = s /\ pc[w] \in Busy

Ending(d) == \E w \in Workers : Delivery(w) = d /\ pc[w] = "resolved" /\ reader[d] = Node(w)

Open(s) == \E i \in Copies : InLog(s, i) /\ <<s, i>> \notin acked /\ ~ Ending(<<s, i>>)

Accounted(s) ==
    \/ copies[EventOf[s]] = 0
    \/ effect[s] > 0
    \/ Firm(s)
    \/ Dropped(s)
    \/ s \in claims
    \/ s \in stranded
    \/ Working(s)
    \/ Open(s)

AllAccounted == \A s \in Subs : Accounted(s)

(* When nothing is left to consume, what is left of the reasons are those  *)
(* that NothingLost names.                                                 *)
LEMMA AccountedIsNotLost ==
    ASSUME DeliveryInv, AllAccounted
    PROVE  NothingLost
<1> SUFFICES ASSUME NEW s \in Subs, Consumed(s)
             PROVE  Settled(s) \/ Lost(s)
  BY DEF NothingLost
<1>1. ~ Working(s) /\ \A w \in Workers : Sub(w) = s => pc[w] \notin Handling
  BY DEF Consumed, Working, Busy, Handling
<1>2. ~ Open(s) /\ copies[EventOf[s]] # 0
  <2>1. copies[EventOf[s]] \in Nat /\ Copies \subseteq Nat \ {0}
    BY WorkerParts DEF Copies, DeliveryInv, ConsumerTypeOK
  <2>2. \A i \in Copies : InLog(s, i) => i \in 1 .. copies[EventOf[s]]
    BY <2>1 DEF InLog
  <2>3. copies[EventOf[s]] > 0 /\ \A i \in 1 .. copies[EventOf[s]] : <<s, i>> \in acked
    BY DEF Consumed
  <2>4. copies[EventOf[s]] # 0
    BY <2>1, <2>3
  <2>5. ~ Open(s)
    BY <2>2, <2>3, Zenon DEF Open
  <2> QED
    BY <2>4, <2>5
<1>3. Firm(s) => Parked(s)
  BY DEF Firm, Parked
<1>4. effect[s] > 0 \/ effect[s] = 0
  BY DEF DeliveryInv, ConsumerTypeOK
<1> QED
  BY <1>1, <1>2, <1>3, <1>4 DEF AllAccounted, Accounted, Settled, Lost, Orphaned

(* What is known of a subscription a step does not touch.                  *)
LEMMA LettersStay ==
    ASSUME letters \in Seq(Letters), UNCHANGED request,
           UNCHANGED letters \/ \E u : letters' = Append(letters, [sub |-> u, status |-> "inTopic"]),
           NEW s \in Subs
    PROVE  (Firm(s) => Firm(s)') /\ (Dropped(s) => Dropped(s)')
<1>1. CASE UNCHANGED letters
  BY <1>1 DEF Firm, Dropped, BeingResolved
<1>2. CASE \E u : letters' = Append(letters, [sub |-> u, status |-> "inTopic"])
  <2>1. /\ Len(letters') = Len(letters) + 1 /\ Len(letters) \in Nat
        /\ \A j \in 1 .. Len(letters) : letters'[j] = letters[j]
    BY <1>2, LetterAdded
  <2>2. \A j \in 1 .. Len(letters) : j \in 1 .. Len(letters')
    <3> DEFINE n == Len(letters)
               m == Len(letters')
    <3>1. n \in Nat /\ m = n + 1
      BY <2>1
    <3> HIDE DEF n, m
    <3>2. \A j \in 1 .. n : j \in 1 .. m
      BY <3>1
    <3> QED
      BY <3>2 DEF n, m
  <2>3. Firm(s) => Firm(s)'
    BY <2>1, <2>2 DEF Firm, BeingResolved
  <2>4. Dropped(s) => Dropped(s)'
    BY <2>1, <2>2 DEF Dropped
  <2> QED
    BY <2>3, <2>4
<1> QED
  BY <1>1, <1>2

(* A worker's step accounts for its own subscription anew, and leaves the  *)
(* others as they were.                                                    *)
LEMMA WorkerKeepsAccounted ==
    ASSUME DeliveryInv, ConsumerTypeOK', AllAccounted, NEW w \in Workers,
           Receive(w) \/ WorkerStep(w) \/ DlqFails(w)
    PROVE  AllAccounted'
<1> DEFINE s == Sub(w)
           d == Delivery(w)
<1>0. /\ UNCHANGED <<copies, request>> /\ \A v \in Workers : v # w => pc'[v] = pc[v]
      /\ letters \in Seq(Letters) /\ stranded \subseteq stranded'
      /\ UNCHANGED letters \/ letters' = Append(letters, [sub |-> s, status |-> "inTopic"])
  BY DEF DeliveryInv, ConsumerTypeOK, Receive, WorkerStep, DlqFails, TryClaim, ClaimFails, CheckGuard, Apply,
         HandlerReturns, HandlerThrows, Release, SendToDlq, CommitOffset, NextTry, LetGo, Strand
<1>1. \/ acked' = acked /\ (reader' = reader \/ \E n \in Nodes \cup {NoNode} : reader' = [reader EXCEPT ![d] = n])
      \/ acked' = acked \cup {d} /\ reader' = [reader EXCEPT ![d] = NoNode]
  BY WorkerParts DEF Receive, WorkerStep, DlqFails, TryClaim, ClaimFails, CheckGuard, Apply,
         HandlerReturns, HandlerThrows, Release, SendToDlq, CommitOffset, LetGo
<1>2. /\ effect' = effect \/ effect' = [effect EXCEPT ![s] = @ + 1]
      /\ claims' = claims \/ claims' = claims \cup {s} \/ claims' = claims \ {s}
  BY DEF Receive, WorkerStep, DlqFails, TryClaim, ClaimFails, CheckGuard, Apply,
         HandlerReturns, HandlerThrows, Release, SendToDlq, CommitOffset
<1>3. ASSUME NEW u \in Subs, u # s
      PROVE  Accounted(u)'
  <2>1. effect'[u] = effect[u] /\ (u \in claims => u \in claims')
    BY <1>2, <1>3 DEF DeliveryInv, ConsumerTypeOK
  <2>2. (Firm(u) => Firm(u)') /\ (Dropped(u) => Dropped(u)')
    BY <1>0, LettersStay
  <2>3. Working(u) => Working(u)'
    BY <1>0, <1>3 DEF Working
  <2>4. \A i \in Copies : reader'[<<u, i>>] = reader[<<u, i>>] /\ (<<u, i>> \in acked' => <<u, i>> \in acked)
    BY <1>1, <1>3, WorkerParts DEF DeliveryInv, ConsumerTypeOK, Deliveries
  <2>5. \A i \in Copies : Ending(<<u, i>>)' => Ending(<<u, i>>)
    BY <1>0, <1>3, <2>4, WorkerParts DEF Ending
  <2>6. Open(u) => Open(u)'
    BY <1>0, <2>4, <2>5 DEF Open, InLog
  <2> QED
    BY <1>0, <2>1, <2>2, <2>3, <2>6 DEF AllAccounted, Accounted
<1>4. Accounted(s)'
  <2>1. CASE pc'[w] \in Busy
    BY <2>1 DEF Accounted, Working
  <2>2. CASE TryClaim(w)
    <3>1. s \in claims'
      BY <2>2 DEF TryClaim
    <3> QED
      BY <3>1 DEF Accounted
  <2>3. CASE HandlerReturns(w)
    <3>1. effect'[s] > 0
      BY <2>3 DEF HandlerReturns, DeliveryInv, PostDone
    <3> QED
      BY <3>1 DEF Accounted
  <2>4. CASE SendToDlq(w)
    <3> DEFINE n == Len(letters)
               m == Len(letters')
    <3>1. PICK k : k = n + 1
      OBVIOUS
    <3>2. /\ m = n + 1 /\ n \in Nat
          /\ letters'[k].sub = s
          /\ letters'[k].status = "inTopic"
      BY <1>0, <2>4, <3>1, LetterAdded DEF SendToDlq
    <3>3. \A o \in Operators : request[o].kind = "resolve" => request[o].letter \in 1 .. n
      BY DEF DeliveryInv, LettersKnown
    <3>4. ~ BeingResolved(k)'
      <4> HIDE DEF n, m
      <4>1. \A o \in Operators : request[o].kind = "resolve" => request[o].letter # k
        BY <3>1, <3>2, <3>3
      <4> QED
        BY <1>0, <4>1 DEF BeingResolved
    <3>5. k \in 1 .. m
      <4> HIDE DEF n, m
      <4> QED
        BY <3>1, <3>2
    <3>6. Firm(s)'
      BY <3>2, <3>4, <3>5 DEF Firm
    <3> QED
      BY <3>6 DEF Accounted
  <2>5. CASE DlqFails(w)
    <3>1. CASE reader[d] = Node(w)
      <4>1. d \notin acked /\ reader'[d] = NoNode /\ acked' = acked /\ InLog(s, w[3])
        BY <2>5, <3>1, WorkerParts DEF DlqFails, LetGo, DeliveryInv, DeliveriesKnown, ConsumerTypeOK
      <4>2. ~ Ending(d)'
        BY <4>1, WorkerParts DEF Ending
      <4>3. d = <<s, w[3]>> /\ w[3] \in Copies
        BY WorkerParts
      <4> HIDE DEF d
      <4>5. ~ Ending(<<s, w[3]>>)' /\ <<s, w[3]>> \notin acked' /\ InLog(s, w[3])'
        BY <1>0, <4>1, <4>2, <4>3 DEF InLog
      <4>6. Open(s)'
        BY <4>3, <4>5 DEF Open
      <4> QED
        BY <4>6 DEF Accounted
    <3>2. CASE reader[d] # Node(w)
      <4>1. s \in stranded'
        BY <2>5, <3>2 DEF DlqFails, Strand, Busy
      <4> QED
        BY <4>1 DEF Accounted
    <3> QED
      BY <3>1, <3>2
  <2>6. CASE CommitOffset(w)
    <3>0. pc[w] = "resolved" /\ pc'[w] = "idle" /\ UNCHANGED <<copies, claims, effect, letters, request, stranded>>
      BY <2>6 DEF CommitOffset, LetGo, DeliveryInv, ConsumerTypeOK
    <3>1. Working(s) => Working(s)'
      BY <1>0, <3>0 DEF Working, Busy
    <3>2. Open(s) => Open(s)'
      <4> SUFFICES ASSUME NEW i \in Copies, InLog(s, i), <<s, i>> \notin acked, ~ Ending(<<s, i>>)
                   PROVE  Open(s)'
        BY DEF Open
      <4>1. /\ reader[d] = Node(w) => <<s, i>> # d /\ acked' = acked \cup {d} /\ reader' = [reader EXCEPT ![d] = NoNode]
            /\ reader[d] # Node(w) => acked' = acked /\ reader' = reader
        BY <2>6, <3>0, WorkerParts DEF CommitOffset, LetGo, Ending
      <4>2. <<s, i>> \notin acked' /\ reader'[<<s, i>>] = reader[<<s, i>>]
        BY <4>1, WorkerParts DEF DeliveryInv, ConsumerTypeOK, Deliveries
      <4>3. ~ Ending(<<s, i>>)'
        BY <1>0, <3>0, <4>2 DEF Ending
      <4> QED
        BY <1>0, <4>2, <4>3 DEF Open, InLog
    <3>3. (Firm(s) => Firm(s)') /\ (Dropped(s) => Dropped(s)')
      BY <3>0 DEF Firm, Dropped, BeingResolved
    <3>4. Accounted(s)
      BY WorkerParts DEF AllAccounted
    <3> QED
      BY <3>0, <3>1, <3>2, <3>3, <3>4 DEF Accounted
  <2>7. pc'[w] \in Busy \/ TryClaim(w) \/ HandlerReturns(w) \/ SendToDlq(w) \/ DlqFails(w) \/ CommitOffset(w)
    <3>1. pc \in [Workers -> WorkerStates]
      BY DEF DeliveryInv, ConsumerTypeOK
    <3> QED
      BY <3>1 DEF Receive, WorkerStep, ClaimFails, CheckGuard, Apply, HandlerThrows, Release, NextTry, Busy
  <2> QED
    BY <2>1, <2>2, <2>3, <2>4, <2>5, <2>6, <2>7
<1> QED
  BY <1>3, <1>4 DEF AllAccounted

(* A new copy of its event accounts for a subscription.                    *)
LEMMA NewCopyAccounts ==
    ASSUME DeliveryInv, ConsumerTypeOK', NEW e \in Events, copies[e] < MaxCopies,
           copies' = [copies EXCEPT ![e] = @ + 1],
           UNCHANGED <<pc, reader, acked>>,
           NEW s \in Subs, EventOf[s] = e
    PROVE  Accounted(s)'
<1> DEFINE c == copies[e]
<1>1. c \in Nat /\ copies'[e] = c + 1 /\ MaxCopies \in Nat /\ c < MaxCopies
  BY ConsumerAssumption DEF ConsumerAssumption, DeliveryInv, ConsumerTypeOK
<1>2. PICK i : i = c + 1
  OBVIOUS
<1>3. i \in Copies /\ ~ (i <= c) /\ i <= copies'[e]
  <2> HIDE DEF c
  <2> QED
    BY <1>1, <1>2 DEF Copies
<1>4. <<s, i>> \notin acked
  BY <1>3 DEF DeliveryInv, DeliveriesKnown, InLog
<1>5. \A w \in Workers : Delivery(w) = <<s, i>> => pc[w] = "idle"
  <2> SUFFICES ASSUME NEW w \in Workers, Delivery(w) = <<s, i>> PROVE pc[w] = "idle"
    OBVIOUS
  <2>1. Sub(w) = s /\ w[3] = i
    BY WorkerParts
  <2> QED
    BY <1>3, <2>1 DEF DeliveryInv, DeliveriesKnown, InLog
<1>6. Open(s)'
  BY <1>3, <1>4, <1>5 DEF Open, InLog, Ending
<1> QED
  BY <1>6 DEF Accounted

(* Nothing else that keeps an event alive is lost with the letters.        *)
LEMMA SameButLetters ==
    ASSUME AllAccounted, NEW s \in Subs, UNCHANGED <<pc, reader, acked, effect, claims, stranded>>,
           copies'[EventOf[s]] = copies[EventOf[s]],
           Firm(s) => Firm(s)' \/ Dropped(s)',
           Dropped(s) => Dropped(s)'
    PROVE  Accounted(s)'
<1>1. (Working(s) => Working(s)') /\ (Open(s) => Open(s)')
  BY DEF Working, Open, InLog, Ending
<1> QED
  BY <1>1 DEF AllAccounted, Accounted

(* An operator replays, ignores, or gives up.                              *)
LEMMA OperatorKeepsAccounted ==
    ASSUME DeliveryInv, ConsumerTypeOK', AllAccounted, NEW o \in Operators, OperatorStep(o)
    PROVE  AllAccounted'
<1>0. /\ letters \in Seq(Letters) /\ request \in [Operators -> Requests] /\ copies \in [Events -> Nat]
      /\ UNCHANGED <<pc, reader, acked, effect, claims, stranded>>
  BY DEF DeliveryInv, ConsumerTypeOK, OperatorStep, BeginReplay, BeginIgnore, ReplayPublish, ReplayThrows,
         SaveRow, RequestDies
<1>1. ASSUME NEW s \in Subs, UNCHANGED <<copies, letters>>,
             \A k \in 1 .. Len(letters) : BeingResolved(k)' => BeingResolved(k)
      PROVE  Accounted(s)'
  BY <1>0, <1>1, SameButLetters DEF Firm, Dropped
<1>2. ASSUME NEW k \in 1 .. Len(letters), BeginReplay(o, k) \/ BeginIgnore(o, k)
      PROVE  AllAccounted'
  <2>1. UNCHANGED <<copies, letters>> /\ \A j \in 1 .. Len(letters) : BeingResolved(j)' => BeingResolved(j)
    BY <1>0, <1>2 DEF BeginReplay, BeginIgnore, BeingResolved
  <2> QED
    BY <1>1, <2>1 DEF AllAccounted
<1>3. CASE ReplayThrows(o) \/ RequestDies(o)
  <2>1. UNCHANGED <<copies, letters>> /\ \A j \in 1 .. Len(letters) : BeingResolved(j)' => BeingResolved(j)
    BY <1>0, <1>3 DEF ReplayThrows, RequestDies, NoRequest, BeingResolved
  <2> QED
    BY <1>1, <2>1 DEF AllAccounted
<1>4. CASE ReplayPublish(o)
  <2> DEFINE k == request[o].letter
             e == EventOf[letters[k].sub]
  <2>1. /\ request[o].kind = "publish" /\ letters' = letters
        /\ copies[e] < MaxCopies /\ copies' = [copies EXCEPT ![e] = @ + 1]
        /\ request' = [request EXCEPT ![o].kind = "resolve"]
    BY <1>4 DEF ReplayPublish
  <2>2. k \in 1 .. Len(letters)
    BY <2>1 DEF DeliveryInv, LettersKnown
  <2>3. letters[k] \in Letters
    BY <1>0, <2>2
  <2>4. e \in Events
    BY <2>3, WorkerParts DEF Letters
  <2>5. \A j : BeingResolved(j)' => BeingResolved(j) \/ j = k
    <3>1. \A p \in Operators : p # o => request'[p] = request[p]
      BY <1>0, <2>1
    <3>2. request'[o].letter = k
      BY <1>0, <2>1 DEF Requests
    <3> HIDE DEF k
    <3> QED
      BY <3>1, <3>2 DEF BeingResolved
  <2> HIDE DEF k
  <2>6. ASSUME NEW s \in Subs PROVE Accounted(s)'
    <3>1. CASE EventOf[s] = e
      <4> HIDE DEF e
      <4> QED
        BY <1>0, <2>1, <2>4, <3>1, NewCopyAccounts
    <3>2. CASE EventOf[s] # e
      <4>1. copies'[EventOf[s]] = copies[EventOf[s]]
        BY <1>0, <2>1, <3>2, WorkerParts
      <4>2. Firm(s) => Firm(s)'
        BY <2>1, <2>5, <3>2 DEF Firm
      <4>3. Dropped(s) => Dropped(s)'
        BY <2>1 DEF Dropped
      <4> HIDE DEF e
      <4> QED
        BY <1>0, <4>1, <4>2, <4>3, SameButLetters
    <3> QED
      BY <3>1, <3>2
  <2> QED
    BY <2>6 DEF AllAccounted
<1>5. CASE SaveRow(o)
  <2> DEFINE k == request[o].letter
             st == IF request[o].kind = "resolve" THEN "RESOLVED" ELSE "IGNORED"
  <2>1. /\ k \in 1 .. Len(letters) /\ letters' = [letters EXCEPT ![k].status = st] /\ copies' = copies
        /\ letters[k].status # "dropped"
        /\ request' = [request EXCEPT ![o] = NoRequest]
    BY <1>5 DEF SaveRow, DeliveryInv, LettersKnown
  <2>2. st = "IGNORED" \/ BeingResolved(k)
    BY DEF BeingResolved
  <2>3. \A j : BeingResolved(j)' => BeingResolved(j)
    BY <1>0, <2>1 DEF BeingResolved, NoRequest
  <2>4. st \in LetterStates
    BY DEF LetterStates
  <2> HIDE DEF k, st
  <2>5. /\ Len(letters') = Len(letters)
        /\ letters'[k].status = st
        /\ \A j \in 1 .. Len(letters) : letters'[j].sub = letters[j].sub
        /\ \A j \in 1 .. Len(letters) : j # k => letters'[j] = letters[j]
    BY <1>0, <2>1, <2>4, StatusChanged
  <2>6. ASSUME NEW s \in Subs PROVE Accounted(s)'
    <3>1. Firm(s) => Firm(s)'
      BY <2>1, <2>2, <2>3, <2>5 DEF Firm
    <3>2. Dropped(s) => Dropped(s)'
      BY <2>1, <2>5 DEF Dropped
    <3> QED
      BY <1>0, <2>1, <3>1, <3>2, SameButLetters
  <2> QED
    BY <2>6 DEF AllAccounted
<1> QED
  BY <1>2, <1>3, <1>4, <1>5 DEF OperatorStep

(* A process that dies leaves what it was reading unacknowledged.          *)
LEMMA CrashKeepsAccounted ==
    ASSUME DeliveryInv, ConsumerTypeOK', AllAccounted, NEW n \in Nodes, Crash(n)
    PROVE  AllAccounted'
<1>0. /\ UNCHANGED <<copies, acked, claims, effect, letters, request>> /\ stranded \subseteq stranded'
      /\ \A w \in Workers : pc'[w] = IF Node(w) = n THEN "idle" ELSE pc[w]
      /\ \A d \in Deliveries : reader'[d] = IF reader[d] = n THEN NoNode ELSE reader[d]
  BY DEF Crash, Restart, Strand
<1> SUFFICES ASSUME NEW s \in Subs PROVE Accounted(s)'
  BY DEF AllAccounted
<1>1. (Firm(s) => Firm(s)') /\ (Dropped(s) => Dropped(s)')
  BY <1>0 DEF Firm, Dropped, BeingResolved
<1>2. \A i \in Copies : Ending(<<s, i>>)' => Ending(<<s, i>>)
  <2> SUFFICES ASSUME NEW i \in Copies, NEW w \in Workers, Delivery(w) = <<s, i>>,
                      pc'[w] = "resolved", reader'[<<s, i>>] = Node(w)
               PROVE  Ending(<<s, i>>)
    BY DEF Ending
  <2>1. <<s, i>> \in Deliveries /\ Node(w) # NoNode
    BY WorkerParts DEF Deliveries
  <2> QED
    BY <1>0, <2>1 DEF Ending
<1>3. Open(s) => Open(s)'
  BY <1>0, <1>2 DEF Open, InLog
<1>4. Working(s) => Working(s)' \/ Open(s)' \/ s \in stranded'
  <2> SUFFICES ASSUME NEW w \in Workers, Sub(w) = s, pc[w] \in Busy, Node(w) = n, s \notin stranded'
               PROVE  Open(s)'
    BY <1>0 DEF Working
  <2>1. reader[Delivery(w)] = n
    BY DEF Crash, Strand
  <2>2. /\ Delivery(w) = <<s, w[3]>> /\ Delivery(w) \in Deliveries /\ w[3] \in Copies
        /\ Delivery(w) \notin acked /\ InLog(s, w[3])
    BY <2>1, WorkerParts DEF DeliveryInv, DeliveriesKnown, Busy
  <2>3. reader'[Delivery(w)] = NoNode
    BY <1>0, <2>1, <2>2
  <2>4. ~ Ending(<<s, w[3]>>)'
    BY <2>2, <2>3, WorkerParts DEF Ending
  <2> QED
    BY <1>0, <2>2, <2>4 DEF Open, InLog
<1> QED
  BY <1>0, <1>1, <1>3, <1>4 DEF AllAccounted, Accounted

(* Every step accounts for all subscriptions.                              *)
LEMMA AccountedStep ==
    ASSUME DeliveryInv, ConsumerTypeOK', AllAccounted, [Next]_vars
    PROVE  AllAccounted'
<1>1. ASSUME NEW d \in Deliveries, Rebalance(d) PROVE AllAccounted'
  <2>1. /\ UNCHANGED <<copies, pc, acked, claims, effect, letters, request, stranded>>
        /\ \A x \in Deliveries : reader'[x] = reader[x] \/ reader'[x] = NoNode
    BY <1>1 DEF Rebalance, DeliveryInv, ConsumerTypeOK
  <2>2. \A x \in Deliveries : Ending(x)' => Ending(x)
    BY <2>1, WorkerParts DEF Ending
  <2>3. ASSUME NEW s \in Subs PROVE Accounted(s)'
    <3>1. \A i \in Copies : <<s, i>> \in Deliveries
      BY DEF Deliveries
    <3>2. Open(s) => Open(s)'
      BY <2>1, <2>2, <3>1 DEF Open, InLog
    <3>3. (Firm(s) => Firm(s)') /\ (Dropped(s) => Dropped(s)') /\ (Working(s) => Working(s)')
      BY <2>1 DEF Firm, Dropped, BeingResolved, Working
    <3> QED
      BY <2>1, <3>2, <3>3 DEF AllAccounted, Accounted
  <2> QED
    BY <2>3 DEF AllAccounted
<1>2. ASSUME NEW k \in 1 .. Len(letters), Record(k) PROVE AllAccounted'
  <2>1. /\ UNCHANGED <<copies, pc, reader, acked, claims, effect, request, stranded>>
        /\ letters \in Seq(Letters) /\ letters[k].status = "inTopic"
    BY <1>2 DEF Record, DeliveryInv, ConsumerTypeOK
  <2>2. PICK st \in {"PENDING", "dropped"} : letters' = [letters EXCEPT ![k].status = st]
    BY <1>2 DEF Record
  <2>3. {"PENDING", "dropped"} \subseteq LetterStates
    BY DEF LetterStates
  <2>4. /\ Len(letters') = Len(letters)
        /\ letters'[k].status = st
        /\ \A j \in 1 .. Len(letters) : letters'[j].sub = letters[j].sub
        /\ \A j \in 1 .. Len(letters) : j # k => letters'[j] = letters[j]
    BY <2>1, <2>2, <2>3, StatusChanged
  <2>5. ASSUME NEW s \in Subs PROVE Accounted(s)'
    <3>1. Firm(s) => Firm(s)' \/ Dropped(s)'
      BY <2>1, <2>4 DEF Firm, Dropped, BeingResolved
    <3>2. Dropped(s) => Dropped(s)'
      BY <2>1, <2>4 DEF Dropped
    <3> QED
      BY <2>1, <3>1, <3>2, SameButLetters
  <2> QED
    BY <2>5 DEF AllAccounted
<1>3. ASSUME NEW e \in Events, Publish(e) PROVE AllAccounted'
  <2>1. /\ UNCHANGED consumerVars /\ copies \in [Events -> Nat] /\ copies' = [copies EXCEPT ![e] = @ + 1]
        /\ copies[e] < MaxCopies
    <3>1. copies[e] < MaxPublished /\ MaxPublished \in 1 .. MaxCopies /\ MaxCopies \in Nat /\ copies[e] \in Nat
      BY <1>3, ConsumerAssumption DEF ConsumerAssumption, Publish, DeliveryInv, ConsumerTypeOK
    <3> QED
      BY <1>3, <3>1 DEF Publish, DeliveryInv, ConsumerTypeOK
  <2>2. ASSUME NEW s \in Subs PROVE Accounted(s)'
    <3>1. CASE EventOf[s] = e
      BY <2>1, <3>1, NewCopyAccounts DEF consumerVars
    <3>2. CASE EventOf[s] # e
      <4>1. copies'[EventOf[s]] = copies[EventOf[s]]
        BY <2>1, <3>2, WorkerParts
      <4>2. (Firm(s) => Firm(s)') /\ (Dropped(s) => Dropped(s)')
        BY <2>1 DEF Firm, Dropped, BeingResolved, consumerVars
      <4> QED
        BY <2>1, <4>1, <4>2, SameButLetters DEF consumerVars
    <3> QED
      BY <3>1, <3>2
  <2> QED
    BY <2>2 DEF AllAccounted
<1>4. CASE UNCHANGED vars
  BY <1>4 DEF vars, consumerVars, AllAccounted, Accounted, Firm, Dropped, BeingResolved, Working, Open, InLog, Ending
<1> QED
  BY <1>1, <1>2, <1>3, <1>4, WorkerKeepsAccounted, OperatorKeepsAccounted, CrashKeepsAccounted
  DEF Next, ConsumerNext

(* The invariant of the deliveries holds in every state.                   *)
LEMMA DeliveryInvariant == Spec => [](DeliveryInv /\ AllAccounted)
<1>1. Init => DeliveryInv /\ AllAccounted
  <2> SUFFICES ASSUME Init PROVE DeliveryInv /\ AllAccounted
    OBVIOUS
  <2>1. ConsumerTypeOK
    BY ConsumerAssumption DEF Init, ConsumerInit, ConsumerTypeOK, WorkerStates, Requests, NoRequest, Letters
  <2>2. DeliveriesKnown /\ LettersKnown /\ PostDone
    BY DEF Init, ConsumerInit, DeliveriesKnown, LettersKnown, PostDone, NoRequest
  <2>3. AllAccounted
    BY WorkerParts DEF Init, AllAccounted, Accounted
  <2> QED
    BY <2>1, <2>2, <2>3 DEF DeliveryInv
<1>2. DeliveryInv /\ AllAccounted /\ ConsumerTypeOK' /\ [Next]_vars => (DeliveryInv /\ AllAccounted)'
  BY DeliveryInvStep, AccountedStep
<1> QED
  BY <1>1, <1>2, ConsumerTypeCorrect, PTL DEF Spec

(* No event is lost between log and handler but in the three ways the code *)
(* has: an orphaned claim, a dropped dead letter, and a worker that fails  *)
(* a delivery after it was given to another member.  For any number of     *)
(* processes, copies, retries, operators and faults.                       *)
THEOREM EventsAreNotLost == Spec => []NothingLost
<1>1. DeliveryInv /\ AllAccounted => NothingLost
  BY AccountedIsNotLost
<1> QED
  BY <1>1, DeliveryInvariant, PTL

-----------------------------------------------------------------------------
\* The letters of event e that are resolved or about to be.
Replayed(e) == {k \in 1 .. Len(letters) : /\ EventOf[letters[k].sub] = e
                                          /\ letters[k].status = "RESOLVED" \/ BeingResolved(k)}

CopiesForReplays ==
    \A e \in Events : copies[e] > 0 => Cardinality(Replayed(e)) < copies[e]

(* They are finitely many, and none without a copy of the event.           *)
LEMMA ReplayedFinite ==
    ASSUME DeliveryInv, NEW e \in Events
    PROVE  /\ IsFiniteSet(Replayed(e)) /\ Cardinality(Replayed(e)) \in Nat
           /\ copies[e] \in Nat
           /\ copies[e] = 0 => Replayed(e) = {} /\ Cardinality(Replayed(e)) = 0
<1>1. Len(letters) \in Nat /\ copies[e] \in Nat
  BY DEF DeliveryInv, ConsumerTypeOK
<1>2. IsFiniteSet(1 .. Len(letters))
  BY <1>1, FS_Interval
<1>3. Replayed(e) \subseteq 1 .. Len(letters)
  BY DEF Replayed
<1>4. IsFiniteSet(Replayed(e))
  BY <1>2, <1>3, FS_Subset
<1>5. Cardinality(Replayed(e)) \in Nat
  BY <1>4, FS_CardinalityType
<1>6. copies[e] = 0 => Replayed(e) = {}
  BY DEF Replayed, DeliveryInv, LettersKnown
<1>7. Cardinality({}) = 0
  BY FS_EmptySet
<1> QED
  BY <1>1, <1>4, <1>5, <1>6, <1>7

(* A step that resolves nothing new keeps the count.                       *)
LEMMA NoMoreReplayed ==
    ASSUME DeliveryInv, DeliveryInv', CopiesForReplays, NEW e \in Events,
           NEW R, R = Replayed(e)', R \subseteq Replayed(e), copies'[e] >= copies[e]
    PROVE  copies'[e] > 0 => Cardinality(R) < copies'[e]
<1>1. /\ IsFiniteSet(Replayed(e)) /\ Cardinality(Replayed(e)) \in Nat
      /\ copies[e] \in Nat
      /\ copies[e] = 0 => Replayed(e) = {} /\ Cardinality(Replayed(e)) = 0
  BY ReplayedFinite
<1>2. Cardinality(R) <= Cardinality(Replayed(e)) /\ IsFiniteSet(R)
  BY <1>1, FS_Subset
<1>3. Cardinality(R) \in Nat
  BY <1>2, FS_CardinalityType
<1>4. copies'[e] \in Nat
  BY DEF DeliveryInv, ConsumerTypeOK
<1>5. copies[e] > 0 => Cardinality(Replayed(e)) < copies[e]
  BY DEF CopiesForReplays
<1> QED
  BY <1>1, <1>2, <1>3, <1>4, <1>5

(* A replay puts a copy in the log before its letter counts as resolved.   *)
LEMMA ReplaysStep ==
    ASSUME DeliveryInv, DeliveryInv', CopiesForReplays, [Next]_vars
    PROVE  CopiesForReplays'
<1>0. letters \in Seq(Letters) /\ request \in [Operators -> Requests] /\ copies \in [Events -> Nat]
  BY DEF DeliveryInv, ConsumerTypeOK
<1>1. ASSUME \A e \in Events : Replayed(e)' \subseteq Replayed(e) /\ copies'[e] >= copies[e]
      PROVE  CopiesForReplays'
  <2>1. ASSUME NEW e \in Events PROVE copies'[e] > 0 => Cardinality(Replayed(e)') < copies'[e]
    <3>1. PICK R : R = Replayed(e)'
      OBVIOUS
    <3>2. R \subseteq Replayed(e) /\ copies'[e] >= copies[e]
      BY <1>1, <3>1
    <3>3. copies'[e] > 0 => Cardinality(R) < copies'[e]
      BY <3>1, <3>2, NoMoreReplayed
    <3> QED
      BY <3>1, <3>3
  <2> QED
    BY <2>1 DEF CopiesForReplays
<1>2. ASSUME UNCHANGED <<letters, request>>, \A e \in Events : copies'[e] >= copies[e]
      PROVE  CopiesForReplays'
  BY <1>1, <1>2 DEF Replayed, BeingResolved
<1>3. \A e \in Events : copies[e] >= copies[e] /\ copies[e] + 1 >= copies[e]
  BY <1>0
<1>4. ASSUME NEW w \in Workers, Receive(w) \/ WorkerStep(w) \/ DlqFails(w)
      PROVE  CopiesForReplays'
  <2>1. /\ UNCHANGED <<copies, request>>
        /\ UNCHANGED letters \/ letters' = Append(letters, [sub |-> Sub(w), status |-> "inTopic"])
    BY <1>4 DEF Receive, WorkerStep, DlqFails, TryClaim, ClaimFails, CheckGuard, Apply,
                HandlerReturns, HandlerThrows, Release, SendToDlq, CommitOffset
  <2>2. CASE UNCHANGED letters
    BY <1>2, <1>3, <2>1, <2>2
  <2>3. CASE letters' = Append(letters, [sub |-> Sub(w), status |-> "inTopic"])
    <3> DEFINE n == Len(letters)
               m == Len(letters')
    <3>1. /\ m = n + 1 /\ n \in Nat
          /\ \A j \in 1 .. n : letters'[j] = letters[j]
      BY <1>0, <2>3, LetterAdded
    <3>2. PICK last : last = n + 1
      OBVIOUS
    <3>3. letters'[last].status = "inTopic"
      BY <1>0, <2>3, <3>2, LetterAdded
    <3>4. ~ BeingResolved(last)'
      <4>1. \A o \in Operators : request[o].kind = "resolve" => request[o].letter \in 1 .. n
        BY DEF DeliveryInv, LettersKnown
      <4> HIDE DEF n, m
      <4> QED
        BY <2>1, <3>1, <3>2, <4>1 DEF BeingResolved
    <3>5. \A j \in 1 .. m : j \in 1 .. n \/ j = last
      <4> HIDE DEF n, m
      <4> QED
        BY <3>1, <3>2
    <3>6. ASSUME NEW e \in Events PROVE Replayed(e)' \subseteq Replayed(e)
      <4> SUFFICES ASSUME NEW j \in Replayed(e)' PROVE j \in Replayed(e)
        OBVIOUS
      <4>1. j # last /\ j \in 1 .. n
        BY <3>3, <3>4, <3>5 DEF Replayed
      <4> QED
        BY <2>1, <3>1, <4>1 DEF Replayed, BeingResolved
    <3> QED
      BY <1>1, <1>3, <2>1, <3>6
  <2> QED
    BY <2>1, <2>2, <2>3
<1>5. ASSUME NEW k \in 1 .. Len(letters), NEW st \in LetterStates,
             letters' = [letters EXCEPT ![k].status = st], copies' = copies,
             st # "RESOLVED" \/ BeingResolved(k),
             \A j \in 1 .. Len(letters) : BeingResolved(j)' => BeingResolved(j)
      PROVE  CopiesForReplays'
  <2>1. /\ Len(letters') = Len(letters)
        /\ letters'[k].status = st
        /\ \A j \in 1 .. Len(letters) : letters'[j].sub = letters[j].sub
        /\ \A j \in 1 .. Len(letters) : j # k => letters'[j] = letters[j]
    BY <1>0, <1>5, StatusChanged
  <2>2. \A e \in Events : Replayed(e)' \subseteq Replayed(e)
    BY <1>5, <2>1 DEF Replayed
  <2> QED
    BY <1>1, <1>3, <1>5, <2>2
<1>6. ASSUME NEW k \in 1 .. Len(letters), Record(k)
      PROVE  CopiesForReplays'
  <2>1. \E st \in {"PENDING", "dropped"} : letters' = [letters EXCEPT ![k].status = st]
    BY <1>6 DEF Record
  <2>2. UNCHANGED <<copies, request>>
    BY <1>6 DEF Record
  <2> QED
    BY <1>5, <2>1, <2>2 DEF LetterStates, BeingResolved
<1>7. ASSUME NEW o \in Operators, OperatorStep(o)
      PROVE  CopiesForReplays'
  <2>1. ASSUME UNCHANGED <<copies, letters>>,
               \A j \in 1 .. Len(letters) : BeingResolved(j)' => BeingResolved(j)
        PROVE  CopiesForReplays'
    <3>1. \A e \in Events : Replayed(e)' \subseteq Replayed(e)
      BY <2>1 DEF Replayed
    <3> QED
      BY <1>1, <1>3, <2>1, <3>1
  <2>2. ASSUME NEW k \in 1 .. Len(letters), BeginReplay(o, k) \/ BeginIgnore(o, k)
        PROVE  CopiesForReplays'
    <3>1. UNCHANGED <<copies, letters>> /\ \A j \in 1 .. Len(letters) : BeingResolved(j)' => BeingResolved(j)
      BY <1>0, <2>2 DEF BeginReplay, BeginIgnore, BeingResolved
    <3> QED
      BY <2>1, <3>1
  <2>3. CASE ReplayThrows(o) \/ RequestDies(o)
    <3>1. UNCHANGED <<copies, letters>> /\ \A j \in 1 .. Len(letters) : BeingResolved(j)' => BeingResolved(j)
      BY <1>0, <2>3 DEF ReplayThrows, RequestDies, NoRequest, BeingResolved
    <3> QED
      BY <2>1, <3>1
  <2>4. CASE SaveRow(o)
    <3> DEFINE k == request[o].letter
               st == IF request[o].kind = "resolve" THEN "RESOLVED" ELSE "IGNORED"
    <3>1. /\ k \in 1 .. Len(letters) /\ letters' = [letters EXCEPT ![k].status = st] /\ copies' = copies
          /\ request' = [request EXCEPT ![o] = NoRequest]
      BY <2>4 DEF SaveRow, DeliveryInv, LettersKnown
    <3>2. st # "RESOLVED" \/ BeingResolved(k)
      BY DEF BeingResolved
    <3>3. \A j \in 1 .. Len(letters) : BeingResolved(j)' => BeingResolved(j)
      BY <1>0, <3>1 DEF BeingResolved, NoRequest
    <3>4. st \in LetterStates
      BY DEF LetterStates
    <3> HIDE DEF k, st
    <3> QED
      BY <1>5, <3>1, <3>2, <3>3, <3>4
  <2>5. CASE ReplayPublish(o)
    <3> DEFINE k == request[o].letter
               x == EventOf[letters[k].sub]
    <3>1. /\ letters' = letters /\ copies' = [copies EXCEPT ![x] = @ + 1]
          /\ request' = [request EXCEPT ![o].kind = "resolve"] /\ request[o].kind = "publish"
      BY <2>5 DEF ReplayPublish
    <3>2. \A j : BeingResolved(j)' => BeingResolved(j) \/ j = k
      <4>1. \A p \in Operators : p # o => request'[p] = request[p]
        BY <1>0, <3>1
      <4>2. request'[o].letter = k
        BY <1>0, <3>1 DEF Requests
      <4> HIDE DEF k
      <4> QED
        BY <4>1, <4>2 DEF BeingResolved
    <3>3. k \in 1 .. Len(letters) /\ copies[x] > 0
      BY <3>1 DEF DeliveryInv, LettersKnown
    <3> HIDE DEF k
    <3>4. ASSUME NEW e \in Events PROVE copies'[e] > 0 => Cardinality(Replayed(e)') < copies'[e]
      <4>1. PICK R : R = Replayed(e)'
        OBVIOUS
      <4>2. CASE e # x
        <5>1. R \subseteq Replayed(e)
          BY <3>1, <3>2, <4>1, <4>2 DEF Replayed
        <5>2. copies'[e] >= copies[e]
          BY <1>0, <1>3, <3>1, <4>2
        <5>3. copies'[e] > 0 => Cardinality(R) < copies'[e]
          BY <4>1, <5>1, <5>2, NoMoreReplayed
        <5> QED
          BY <4>1, <5>3
      <4>3. CASE e = x
        <5>1. R \subseteq Replayed(e) \cup {k}
          BY <3>1, <3>2, <4>1 DEF Replayed
        <5>2. IsFiniteSet(Replayed(e)) /\ Cardinality(Replayed(e)) \in Nat /\ copies[e] \in Nat
          BY ReplayedFinite
        <5>3. /\ IsFiniteSet(Replayed(e) \cup {k})
              /\ Cardinality(Replayed(e) \cup {k}) <= Cardinality(Replayed(e)) + 1
          <6> DEFINE Q == Replayed(e)
          <6>1. /\ IsFiniteSet(Q \cup {k})
                /\ Cardinality(Q \cup {k}) = IF k \in Q THEN Cardinality(Q) ELSE Cardinality(Q) + 1
            BY <5>2, FS_AddElement
          <6> HIDE DEF Q
          <6>2. Cardinality(Q) \in Nat
            BY <5>2 DEF Q
          <6>3. Cardinality(Q \cup {k}) <= Cardinality(Q) + 1
            BY <6>1, <6>2
          <6> QED
            BY <6>1, <6>3 DEF Q
        <5>4. Cardinality(R) <= Cardinality(Replayed(e) \cup {k}) /\ IsFiniteSet(R)
          BY <5>1, <5>3, FS_Subset
        <5>5. Cardinality(R) \in Nat /\ Cardinality(Replayed(e) \cup {k}) \in Nat
          BY <5>3, <5>4, FS_CardinalityType
        <5>6. Cardinality(Replayed(e)) < copies[e]
          BY <3>3, <4>3 DEF CopiesForReplays
        <5>7. copies'[e] = copies[e] + 1
          BY <1>0, <3>1, <4>3
        <5>8. Cardinality(R) < copies'[e]
          BY <5>2, <5>3, <5>4, <5>5, <5>6, <5>7
        <5> QED
          BY <4>1, <5>8
      <4> QED
        BY <4>2, <4>3
    <3> QED
      BY <3>4 DEF CopiesForReplays
  <2> QED
    BY <1>7, <2>2, <2>3, <2>4, <2>5 DEF OperatorStep
<1>8. ASSUME NEW e \in Events, Publish(e)
      PROVE  CopiesForReplays'
  <2>1. UNCHANGED <<letters, request>> /\ copies' = [copies EXCEPT ![e] = @ + 1]
    BY <1>8 DEF Publish, consumerVars
  <2> QED
    BY <1>0, <1>2, <1>3, <2>1
<1>9. ASSUME UNCHANGED <<copies, letters, request>>
      PROVE  CopiesForReplays'
  BY <1>2, <1>3, <1>9
<1>10. ASSUME NEW n \in Nodes, Crash(n) PROVE UNCHANGED <<copies, letters, request>>
  BY <1>10 DEF Crash
<1>11. ASSUME NEW d \in Deliveries, Rebalance(d) PROVE UNCHANGED <<copies, letters, request>>
  BY <1>11 DEF Rebalance
<1> QED
  BY <1>4, <1>6, <1>7, <1>8, <1>9, <1>10, <1>11 DEF Next, ConsumerNext, vars, consumerVars

(* RESOLVED is written after the publish, by every operator and in every   *)
(* order: the log holds more copies than letters that say so.              *)
THEOREM ReplaysPrecedeResolution == Spec => []ResolvedWasReplayed
<1>1. Init => CopiesForReplays
  BY DEF Init, CopiesForReplays
<1>2. DeliveryInv /\ DeliveryInv' /\ CopiesForReplays /\ [Next]_vars => CopiesForReplays'
  BY ReplaysStep
<1>3. DeliveryInv /\ CopiesForReplays => ResolvedWasReplayed
  <2> SUFFICES ASSUME DeliveryInv, CopiesForReplays, NEW e \in Events,
                      NEW Q, Q = {k \in 1 .. Len(letters) : EventOf[letters[k].sub] = e /\ letters[k].status = "RESOLVED"},
                      Q # {}
               PROVE  Cardinality(Q) < copies[e]
    BY DEF ResolvedWasReplayed
  <2>1. Q \subseteq Replayed(e) /\ Replayed(e) # {}
    BY DEF Replayed
  <2>2. /\ IsFiniteSet(Replayed(e)) /\ Cardinality(Replayed(e)) \in Nat
        /\ copies[e] \in Nat /\ copies[e] # 0
    BY <2>1, ReplayedFinite
  <2>3. Cardinality(Q) <= Cardinality(Replayed(e)) /\ IsFiniteSet(Q)
    BY <2>1, <2>2, FS_Subset
  <2>4. Cardinality(Q) \in Nat
    BY <2>3, FS_CardinalityType
  <2>5. Cardinality(Replayed(e)) < copies[e]
    BY <2>2 DEF CopiesForReplays
  <2> QED
    BY <2>2, <2>3, <2>4, <2>5
<1> QED
  BY <1>1, <1>2, <1>3, DeliveryInvariant, PTL DEF Spec

-----------------------------------------------------------------------------
\* The relays and the consumers composed.

(* For the consumers a step of a relay is a producer's publishing a copy,  *)
(* or nothing.                                                             *)
LEMMA RelayIsProducer ==
    ASSUME Relay!RelayNext, UNCHANGED consumerVars
    PROVE  (\E e \in Events : Publish(e)) \/ UNCHANGED vars
<1>1. ASSUME NEW n \in Nodes, NEW e \in Events, Relay!Send(n, e) \/ Relay!SendFails(n, e)
      PROVE  Publish(e) \/ UNCHANGED vars
  BY <1>1, PipelineAssumption DEF PipelineAssumption, Relay!Send, Relay!SendFails, Publish, vars
<1>2. CASE UNCHANGED copies
  BY <1>2 DEF vars
<1>3. QED
  BY <1>1, <1>2 DEF Relay!RelayNext, Relay!RelayStep, Relay!Enqueue, Relay!BackoffElapses,
     Relay!Poll, Relay!Commit, Relay!Rollback, Relay!Cleanup

(* The consumers do in the pipeline what they do alone: all that is proved *)
(* of them under Spec, a producer publishing what it likes, holds in it.   *)
THEOREM ConsumersInPipeline == PipelineSpec => Spec
<1>1. PipelineInit => Init
  BY DEF PipelineInit
<1>2. [PipelineNext]_pipelineVars => [Next]_vars
  <2>1. CASE Relay!RelayNext /\ UNCHANGED consumerVars
    BY <2>1, RelayIsProducer DEF Next
  <2>2. CASE ConsumerNext /\ UNCHANGED relayVars
    BY <2>2 DEF Next
  <2>3. CASE \E n \in Nodes : NodeCrash(n)
    BY <2>3 DEF Next, NodeCrash
  <2>4. CASE UNCHANGED pipelineVars
    BY <2>4 DEF pipelineVars
  <2>5. QED
    BY <2>1, <2>2, <2>3, <2>4 DEF PipelineNext
<1>3. QED
  BY <1>1, <1>2, PTL DEF PipelineSpec, Spec

-----------------------------------------------------------------------------
(* No step of the consumers puts an event into the log that was not there: *)
(* a replay needs a letter, and a letter a delivery.                       *)
LEMMA ConsumersAddNoEvent ==
    ASSUME DeliveryInv, ConsumerNext, NEW e \in Events
    PROVE  copies'[e] > 0 <=> copies[e] > 0
<1>0. copies \in [Events -> Nat]
  BY DEF DeliveryInv, ConsumerTypeOK
<1>1. ASSUME NEW o \in Operators, ReplayPublish(o)
      PROVE  copies'[e] > 0 <=> copies[e] > 0
  <2> DEFINE f == EventOf[letters[request[o].letter].sub]
  <2>1. copies[f] > 0
    BY <1>1 DEF ReplayPublish, DeliveryInv, LettersKnown
  <2>2. copies' = [copies EXCEPT ![f] = @ + 1]
    BY <1>1 DEF ReplayPublish
  <2> HIDE DEF f
  <2>3. CASE e = f
    BY <2>1, <2>2, <2>3, <1>0
  <2>4. CASE e # f
    BY <2>2, <2>4, <1>0
  <2>5. QED
    BY <2>3, <2>4
<1>2. CASE UNCHANGED copies
  BY <1>2
<1>3. ASSUME NEW w \in Workers, Receive(w) \/ WorkerStep(w) \/ DlqFails(w)
      PROVE  UNCHANGED copies
  BY <1>3 DEF WorkerStep, Receive, TryClaim, ClaimFails, CheckGuard, Apply, HandlerReturns,
     HandlerThrows, Release, SendToDlq, CommitOffset, DlqFails
<1>4. QED
  BY <1>1, <1>2, <1>3 DEF ConsumerNext, Rebalance, Record, OperatorStep, BeginReplay, BeginIgnore,
     ReplayThrows, SaveRow, RequestDies

(* A step of the consumers takes effect for at most one subscription, the  *)
(* first time, and for an event that is in the log.                        *)
LEMMA EffectStep ==
    ASSUME EffectInv, DeliveryInv, ConsumerNext
    PROVE  \/ effect' = effect
           \/ \E s \in Subs : /\ effect[s] = 0
                              /\ effect' = [effect EXCEPT ![s] = 1]
                              /\ copies[EventOf[s]] > 0
<1>1. ASSUME NEW w \in Workers, Apply(w)
      PROVE  \E s \in Subs : /\ effect[s] = 0
                             /\ effect' = [effect EXCEPT ![s] = 1]
                             /\ copies[EventOf[s]] > 0
  <2>1. Sub(w) \in Subs /\ w[3] \in Copies /\ EventOf[Sub(w)] \in Events
    BY WorkerParts
  <2>2. effect[Sub(w)] = 0
    BY <1>1 DEF Apply, EffectInv, GuardStillTrue
  <2>3. effect' = [effect EXCEPT ![Sub(w)] = 1]
    BY <1>1, <2>2 DEF Apply
  <2>4. w[3] <= copies[EventOf[Sub(w)]]
    BY <1>1 DEF Apply, DeliveryInv, DeliveriesKnown, InLog
  <2>5. copies[EventOf[Sub(w)]] \in Nat
    BY <2>1 DEF DeliveryInv, ConsumerTypeOK
  <2>6. copies[EventOf[Sub(w)]] > 0
    BY <2>1, <2>4, <2>5, ConsumerAssumption DEF Copies, ConsumerAssumption
  <2>7. QED
    BY <2>1, <2>2, <2>3, <2>6
<1>2. CASE UNCHANGED effect
  BY <1>2
<1>3. ASSUME NEW w \in Workers, Receive(w) \/ WorkerStep(w) \/ DlqFails(w), ~Apply(w)
      PROVE  UNCHANGED effect
  BY <1>3 DEF WorkerStep, Receive, TryClaim, ClaimFails, CheckGuard, HandlerReturns,
     HandlerThrows, Release, SendToDlq, CommitOffset, DlqFails
<1>4. QED
  BY <1>1, <1>2, <1>3 DEF ConsumerNext, Rebalance, Record, OperatorStep, BeginReplay, BeginIgnore,
     ReplayPublish, ReplayThrows, SaveRow, RequestDies

-----------------------------------------------------------------------------
\* What the two halves know of each other: an event in the log, or in a relay's
\* hands, has a row; and a handler took effect only for an event in the log.
RowsKnown ==
    \A e \in Events :
        copies[e] > 0 \/ (\E n \in Nodes : e \in Relay!Held(n)) => outbox[e] # "none"

EffectKnown == \A s \in Subs : effect[s] > 0 => copies[EventOf[s]] > 0

PipelineInv ==
    /\ Relay!RelayTypeOK
    /\ Relay!PublishedIsInLog
    /\ RowsKnown
    /\ EffectKnown

(* A relay keeps it: a copy is sent from the batch, and marked after.      *)
LEMMA RelayKeepsPipelineInv ==
    ASSUME PipelineInv, Relay!RelayNext, UNCHANGED consumerVars
    PROVE  PipelineInv'
<1> USE DEF PipelineInv, Relay!RelayTypeOK, Relay!RowStates
<1>0. \A s \in Subs : EventOf[s] \in Events
  BY WorkerParts
<1>1. effect' = effect
  BY DEF consumerVars
<1>2. ASSUME NEW e \in Events, Relay!Enqueue(e) \/ Relay!BackoffElapses(e)
      PROVE  PipelineInv'
  BY <1>0, <1>1, <1>2 DEF Relay!Enqueue, Relay!BackoffElapses, Relay!PublishedIsInLog, RowsKnown,
     EffectKnown, Relay!Held
<1>3. ASSUME NEW n \in Nodes, Relay!Poll(n)
      PROVE  PipelineInv'
  <2>1. PICK rows \in SUBSET Relay!Due : batch' = [batch EXCEPT ![n] = rows]
    BY <1>3 DEF Relay!Poll
  <2>2. \A e \in rows : e \in Events /\ outbox[e] = "pending"
    BY <2>1 DEF Relay!Due
  <2>3. UNCHANGED <<outbox, sent, failed, copies, relayFaults>>
    BY <1>3 DEF Relay!Poll
  <2>4. Relay!RelayTypeOK'
    BY <2>1, <2>2, <2>3
  <2>5. Relay!PublishedIsInLog' /\ EffectKnown'
    BY <1>1, <2>3 DEF Relay!PublishedIsInLog, EffectKnown
  <2>6. RowsKnown'
    BY <2>1, <2>2, <2>3 DEF RowsKnown, Relay!Held
  <2>7. QED
    BY <2>4, <2>5, <2>6
<1>4. ASSUME NEW n \in Nodes, NEW e \in Events, Relay!Send(n, e) \/ Relay!SendFails(n, e)
      PROVE  PipelineInv'
  <2>1. outbox' = outbox /\ outbox[e] # "none"
    BY <1>4 DEF Relay!Send, Relay!SendFails, RowsKnown, Relay!Held
  <2>2. copies' \in [Events -> Nat] /\ \A x \in Events : copies[x] > 0 => copies'[x] > 0
    BY <1>4 DEF Relay!Send, Relay!SendFails
  <2>3. \A x \in Events \ {e} : copies'[x] = copies[x]
    BY <1>4 DEF Relay!Send, Relay!SendFails
  <2>4. Relay!RelayTypeOK'
    BY <1>4, <2>2 DEF Relay!Send, Relay!SendFails
  <2>5. \A m \in Nodes : sent'[m] \subseteq sent[m] \cup {e}
    BY <1>4 DEF Relay!Send, Relay!SendFails
  <2>6. (\E m \in Nodes : e \in sent'[m]) => copies'[e] > 0 \/ (\E m \in Nodes : e \in sent[m])
    BY <1>4 DEF Relay!Send, Relay!SendFails
  <2>7. Relay!PublishedIsInLog'
    BY <2>1, <2>2, <2>5, <2>6 DEF Relay!PublishedIsInLog
  <2>8. \A m \in Nodes : Relay!Held(m)' \subseteq Relay!Held(m) \cup {e}
    BY <1>4 DEF Relay!Send, Relay!SendFails, Relay!Held
  <2>9. RowsKnown'
    BY <2>1, <2>3, <2>8 DEF RowsKnown
  <2>10. EffectKnown'
    BY <1>0, <1>1, <2>2 DEF EffectKnown
  <2>11. QED
    BY <2>4, <2>7, <2>9, <2>10
<1>5. ASSUME NEW n \in Nodes, Relay!Commit(n)
      PROVE  PipelineInv'
  <2>1. copies' = copies /\ batch' = batch
    BY <1>5 DEF Relay!Commit
  <2>2. \A e \in Events : outbox'[e] = IF e \in sent[n] THEN "published"
                                       ELSE IF e \in failed[n] THEN "backoff" ELSE outbox[e]
    BY <1>5 DEF Relay!Commit
  <2>3. Relay!RelayTypeOK'
    BY <1>5, <2>1 DEF Relay!Commit
  <2>4. \A m \in Nodes : sent'[m] \subseteq sent[m] /\ failed'[m] \subseteq failed[m]
    BY <1>5 DEF Relay!Commit
  <2>5. Relay!PublishedIsInLog'
    BY <2>1, <2>2, <2>4 DEF Relay!PublishedIsInLog
  <2>6. RowsKnown'
    BY <2>1, <2>2, <2>4 DEF RowsKnown, Relay!Held
  <2>7. EffectKnown'
    BY <1>1, <2>1 DEF EffectKnown
  <2>8. QED
    BY <2>3, <2>5, <2>6, <2>7
<1>6. ASSUME NEW n \in Nodes, Relay!Rollback(n)
      PROVE  PipelineInv'
  BY <1>1, <1>6 DEF Relay!Rollback, Relay!Forget, Relay!PublishedIsInLog, RowsKnown, EffectKnown,
     Relay!Held
<1>7. CASE Relay!Cleanup
  BY <1>1, <1>7 DEF Relay!Cleanup, Relay!PublishedIsInLog, RowsKnown, EffectKnown, Relay!Held
<1>8. QED
  BY <1>2, <1>3, <1>4, <1>5, <1>6, <1>7 DEF Relay!RelayNext, Relay!RelayStep

(* The consumers keep it: they add no event to the log, and handle what is *)
(* in it.                                                                  *)
LEMMA ConsumersKeepPipelineInv ==
    ASSUME PipelineInv, EffectInv, DeliveryInv, ConsumerTypeOK', ConsumerNext, UNCHANGED relayVars
    PROVE  PipelineInv'
<1>1. \A e \in Events : copies'[e] > 0 <=> copies[e] > 0
  BY ConsumersAddNoEvent
<1>2. Relay!RelayTypeOK'
  BY DEF PipelineInv, Relay!RelayTypeOK, relayVars, ConsumerTypeOK
<1>3. Relay!PublishedIsInLog' /\ RowsKnown'
  BY <1>1 DEF PipelineInv, Relay!PublishedIsInLog, RowsKnown, Relay!Held, relayVars
<1>4. \A s \in Subs : effect'[s] > 0 => effect[s] > 0 \/ copies[EventOf[s]] > 0
  BY EffectStep DEF EffectInv, WorkerTypes
<1>5. EffectKnown'
  BY <1>1, <1>4, WorkerParts DEF PipelineInv, EffectKnown
<1>6. QED
  BY <1>2, <1>3, <1>5 DEF PipelineInv

(* A crash keeps it: a transaction that is rolled back sends nothing.      *)
LEMMA CrashKeepsPipelineInv ==
    ASSUME PipelineInv, NEW n \in Nodes, NodeCrash(n)
    PROVE  PipelineInv'
<1>1. UNCHANGED <<copies, effect>>
  BY DEF NodeCrash, Crash
<1>2. CASE UNCHANGED relayVars
  BY <1>1, <1>2 DEF PipelineInv, Relay!RelayTypeOK, Relay!PublishedIsInLog, RowsKnown, EffectKnown,
     Relay!Held, relayVars
<1>3. CASE Relay!Rollback(n)
  BY <1>1, <1>3 DEF PipelineInv, Relay!RelayTypeOK, Relay!RowStates, Relay!PublishedIsInLog, RowsKnown,
     EffectKnown, Relay!Held, Relay!Rollback, Relay!Forget
<1>4. QED
  BY <1>2, <1>3 DEF NodeCrash

(* The two halves' knowledge of each other is invariant.                   *)
LEMMA PipelineInvariant == PipelineSpec => [](PipelineInv /\ EffectInv /\ DeliveryInv)
<1> DEFINE I == EffectInv /\ DeliveryInv
<1>1. PipelineSpec => []I
  BY ConsumersInPipeline, EffectInvariant, DeliveryInvariant, PTL
<1>2. PipelineInit => PipelineInv
  BY WorkerParts DEF PipelineInit, Init, ConsumerInit, Relay!RelayInit, PipelineInv, Relay!RelayTypeOK,
     Relay!RowStates, Relay!PublishedIsInLog, RowsKnown, EffectKnown, Relay!Held
<1>3. I /\ I' /\ PipelineInv /\ [PipelineNext]_pipelineVars => PipelineInv'
  <2> SUFFICES ASSUME I, I', PipelineInv, [PipelineNext]_pipelineVars
               PROVE  PipelineInv'
    OBVIOUS
  <2>1. CASE Relay!RelayNext /\ UNCHANGED consumerVars
    BY <2>1, RelayKeepsPipelineInv
  <2>2. CASE ConsumerNext /\ UNCHANGED relayVars
    BY <2>2, ConsumersKeepPipelineInv DEF DeliveryInv
  <2>3. CASE \E n \in Nodes : NodeCrash(n)
    BY <2>3, CrashKeepsPipelineInv
  <2>4. CASE UNCHANGED pipelineVars
    BY <2>4 DEF pipelineVars, vars, consumerVars, relayVars, PipelineInv, Relay!RelayTypeOK,
       Relay!PublishedIsInLog, RowsKnown, EffectKnown, Relay!Held
  <2>5. QED
    BY <2>1, <2>2, <2>3, <2>4 DEF PipelineNext
<1>4. QED
  BY <1>1, <1>2, <1>3, PTL DEF PipelineSpec

(* A row is published or deleted, and a handler takes effect, only when    *)
(* the event is in the log.                                                *)
THEOREM MarkedOnlyAfterDelivery == PipelineSpec => []MarkedAfterDelivery
<1>1. PipelineInv => MarkedAfterDelivery
  BY WorkerParts DEF PipelineInv, Relay!PublishedIsInLog, EffectKnown, MarkedAfterDelivery
<1>2. QED
  BY <1>1, PipelineInvariant, PTL

-----------------------------------------------------------------------------
(* A step of a relay commits at most one source document, for the          *)
(* contract.                                                               *)
LEMMA RelayStepInContract ==
    ASSUME PipelineInv, Relay!RelayNext, UNCHANGED consumerVars
    PROVE  (\E e \in Events : Contract!CommitSource(e)) \/ UNCHANGED <<{e \in Events : outbox[e] # "none"}, effect>>
<1> USE DEF PipelineInv, Relay!RelayTypeOK
<1>1. effect' = effect
  BY DEF consumerVars
<1>2. ASSUME NEW e \in Events, Relay!Enqueue(e)
      PROVE  Contract!CommitSource(e)
  <2>1. outbox[e] = "none" /\ outbox' = [outbox EXCEPT ![e] = "pending"]
    BY <1>2 DEF Relay!Enqueue
  <2>2. {x \in Events : outbox'[x] # "none"} = {x \in Events : outbox[x] # "none"} \cup {e}
    BY <2>1
  <2>3. QED
    BY <1>1, <2>1, <2>2 DEF Contract!CommitSource
<1>3. ASSUME \A e \in Events : outbox'[e] # "none" <=> outbox[e] # "none"
      PROVE  UNCHANGED <<{e \in Events : outbox[e] # "none"}, effect>>
  BY <1>1, <1>3
<1>4. ASSUME NEW n \in Nodes, Relay!Commit(n), NEW e \in Events
      PROVE  outbox'[e] # "none" <=> outbox[e] # "none"
  BY <1>4 DEF Relay!Commit, RowsKnown, Relay!Held
<1>5. ASSUME NEW e \in Events, Relay!BackoffElapses(e), NEW x \in Events
      PROVE  outbox'[x] # "none" <=> outbox[x] # "none"
  BY <1>5 DEF Relay!BackoffElapses
<1>6. ASSUME Relay!Cleanup, NEW e \in Events
      PROVE  outbox'[e] # "none" <=> outbox[e] # "none"
  BY <1>6 DEF Relay!Cleanup
<1>7. CASE outbox' = outbox
  BY <1>3, <1>7
<1>8. QED
  BY <1>2, <1>3, <1>4, <1>5, <1>6, <1>7 DEF Relay!RelayNext, Relay!RelayStep, Relay!Poll, Relay!Send,
     Relay!SendFails, Relay!Rollback

(* A step of the consumers takes effect once, for a committed document.    *)
LEMMA ConsumerStepInContract ==
    ASSUME PipelineInv, EffectInv, DeliveryInv, ConsumerNext, UNCHANGED relayVars
    PROVE  (\E s \in Subs : Contract!TakeEffect(s)) \/ UNCHANGED <<{e \in Events : outbox[e] # "none"}, effect>>
<1>1. outbox' = outbox
  BY DEF relayVars
<1>2. CASE effect' = effect
  BY <1>1, <1>2
<1>3. ASSUME NEW s \in Subs, effect[s] = 0, effect' = [effect EXCEPT ![s] = 1], copies[EventOf[s]] > 0
      PROVE  Contract!TakeEffect(s)
  <2>1. EventOf[s] \in {e \in Events : outbox[e] # "none"}
    BY <1>3, WorkerParts DEF PipelineInv, RowsKnown
  <2>2. QED
    BY <1>1, <1>3, <2>1 DEF Contract!TakeEffect
<1>4. QED
  BY <1>2, <1>3, EffectStep

(* The pipeline implements the contract: an effect at most once per        *)
(* subscription, and only for documents that committed.                    *)
THEOREM PipelineImplementsContract == PipelineSpec => ImplementsContract
<1>1. PipelineInit => Contract!Init
  BY DEF PipelineInit, Init, ConsumerInit, Relay!RelayInit, Contract!Init
<1>2. PipelineInv /\ EffectInv /\ DeliveryInv /\ [PipelineNext]_pipelineVars
        => [Contract!Next]_<<{e \in Events : outbox[e] # "none"}, effect>>
  <2> SUFFICES ASSUME PipelineInv, EffectInv, DeliveryInv, [PipelineNext]_pipelineVars
               PROVE  Contract!Next \/ UNCHANGED <<{e \in Events : outbox[e] # "none"}, effect>>
    OBVIOUS
  <2>1. CASE Relay!RelayNext /\ UNCHANGED consumerVars
    BY <2>1, RelayStepInContract DEF Contract!Next
  <2>2. CASE ConsumerNext /\ UNCHANGED relayVars
    BY <2>2, ConsumerStepInContract DEF Contract!Next
  <2>3. CASE \E n \in Nodes : NodeCrash(n)
    BY <2>3 DEF NodeCrash, Crash, relayVars, Relay!Rollback
  <2>4. CASE UNCHANGED pipelineVars
    BY <2>4 DEF pipelineVars, vars, consumerVars, relayVars
  <2>5. QED
    BY <2>1, <2>2, <2>3, <2>4 DEF PipelineNext
<1>3. QED
  BY <1>1, <1>2, PipelineInvariant, PTL DEF PipelineSpec, ImplementsContract, Contract!Spec
=============================================================================
