----------------------------- MODULE EventChannel -----------------------------
(***************************************************************************)
(* What the transactional outbox promises its producers and consumers: an  *)
(* event is delivered only if the transaction that wrote it committed, it  *)
(* counts as settled only after it was delivered, and it may be delivered  *)
(* any number of times before and after that.                              *)
(***************************************************************************)
CONSTANT Ids

VARIABLES accepted,   \* events of committed transactions
          delivered,  \* events the broker has at least once
          settled     \* events that will not be sent again on purpose

Init == accepted = {} /\ delivered = {} /\ settled = {}

Accept(i) == /\ accepted' = accepted \cup {i}
             /\ UNCHANGED <<delivered, settled>>

Deliver(i) == /\ i \in accepted
              /\ delivered' = delivered \cup {i}
              /\ UNCHANGED <<accepted, settled>>

Settle(S) == /\ S \subseteq delivered
             /\ settled' = settled \cup S
             /\ UNCHANGED <<accepted, delivered>>

Next == \/ \E i \in Ids : Accept(i) \/ Deliver(i)
        \/ \E S \in SUBSET Ids : Settle(S)

Spec == Init /\ [][Next]_<<accepted, delivered, settled>>
===============================================================================
