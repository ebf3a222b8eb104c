---------------------------- MODULE EventContract ----------------------------
(***************************************************************************)
(* What the event pipeline promises its users, with no relay, broker,      *)
(* claim or retry in sight: an event exists once its source document has   *)
(* committed, and each subscribed handler takes effect for it at most      *)
(* once.  (That it also takes effect eventually, or leaves a dead letter,  *)
(* is the temporal property EndToEnd of EventPipeline.)                    *)
(***************************************************************************)
EXTENDS Naturals

CONSTANTS Subs, Events, EventOf

VARIABLES
    committed,   \* events whose source document is committed
    effect       \* times each subscription's handler took effect

Init ==
    /\ committed = {}
    /\ effect = [s \in Subs |-> 0]

(* The source document and its event commit together.                      *)
CommitSource(e) ==
    /\ e \notin committed
    /\ committed' = committed \cup {e}
    /\ UNCHANGED effect

(* A handler takes effect, for the first time and for a committed event.   *)
TakeEffect(s) ==
    /\ EventOf[s] \in committed
    /\ effect[s] = 0
    /\ effect' = [effect EXCEPT ![s] = 1]
    /\ UNCHANGED committed

Next ==
    \/ \E e \in Events : CommitSource(e)
    \/ \E s \in Subs : TakeEffect(s)

Spec == Init /\ [][Next]_<<committed, effect>>
=============================================================================
