----------------------------- MODULE OutboxProofs -----------------------------
(***************************************************************************)
(* The outbox implements the at-least-once channel, for any number of      *)
(* relays, rows and faults and any batch size.                             *)
(*                                                                         *)
(* The invariant says what a relay may believe of the batch in its memory, *)
(* with or without its database session: its rows were committed, and the  *)
(* ones it no longer has to publish are in Kafka.  The bound on duplicates *)
(* counts, besides the copies of a row, the relays that still have it to   *)
(* publish: each of those is a copy to come.                               *)
(***************************************************************************)
EXTENDS Outbox, FiniteSetTheorems, TLAPS

BatchOK ==
  \A r \in Relays :
    /\ \A i \in claim[r] : row[i] \in {"pending", "published"}
    /\ \A i \in claim[r] \ todo[r] : copies[i] > 0
    /\ pc[r] = "mark" => todo[r] = {}

IndInv == TypeOK /\ BatchOK

(* Initially there are no rows and no batches.                             *)
LEMMA IndInit == Init => IndInv
  BY OutboxAssumption DEF Init, IndInv, TypeOK, BatchOK

(* The end of a claim keeps the types and forgets the batch.               *)
LEMMA EndClaimType ==
  ASSUME TypeOK, NEW r \in Relays, NEW l \in {"idle", "down"}, EndClaim(r, l)
  PROVE  /\ lock' \in [Ids -> Relays \cup {NoRelay}]
         /\ claim' \in [Relays -> SUBSET Ids]
         /\ todo' \in [Relays -> SUBSET Ids]
         /\ pc' \in [Relays -> {"idle", "publish", "mark", "down"}]
         /\ claim'[r] = {} /\ todo'[r] = {} /\ pc'[r] = l
         /\ \A x \in Relays \ {r} :
              claim'[x] = claim[x] /\ todo'[x] = todo[x] /\ pc'[x] = pc[x]
<1>1. lock' \in [Ids -> Relays \cup {NoRelay}]
  BY DEF TypeOK, EndClaim, Unlock
<1>2. claim' \in [Relays -> SUBSET Ids] /\ todo' \in [Relays -> SUBSET Ids]
  BY DEF TypeOK, EndClaim
<1>3. pc' \in [Relays -> {"idle", "publish", "mark", "down"}]
  BY DEF TypeOK, EndClaim, Goto
<1>4. /\ claim'[r] = {} /\ todo'[r] = {} /\ pc'[r] = l
      /\ \A x \in Relays \ {r} :
              claim'[x] = claim[x] /\ todo'[x] = todo[x] /\ pc'[x] = pc[x]
  BY DEF TypeOK, EndClaim, Goto
<1> QED
  BY <1>1, <1>2, <1>3, <1>4

(* A message sent once more: its count is positive, no count decreases.    *)
LEMMA SendType ==
  ASSUME TypeOK, NEW i \in Ids, Send(i)
  PROVE  /\ copies' \in [Ids -> Nat]
         /\ copies'[i] > 0
         /\ \A j \in Ids : copies'[j] >= copies[j]
         /\ \A j \in Ids \ {i} : copies'[j] = copies[j]
<1>1. copies[i] \in Nat /\ copies \in [Ids -> Nat]
  BY DEF TypeOK
<1> QED
  BY <1>1 DEF Send

(* One action at a time: types and batches.                                *)
LEMMA IndStep == IndInv /\ [Next]_vars => IndInv'
<1> SUFFICES ASSUME TypeOK, BatchOK, [Next]_vars PROVE TypeOK' /\ BatchOK'
  BY DEF IndInv
<1> USE OutboxAssumption
<1>1. ASSUME NEW i \in Ids, Insert(i) \/ EndTransaction(i)
      PROVE  TypeOK' /\ BatchOK'
  <2>1. \A j \in Ids : row[j] \in {"pending", "published"} => row'[j] = row[j]
    BY <1>1 DEF TypeOK, Insert, EndTransaction
  <2>2. row' \in [Ids -> {"free", "open", "gone", "pending", "published"}]
    BY <1>1 DEF TypeOK, Insert, EndTransaction
  <2>3. UNCHANGED <<lock, claim, todo, pc, copies, faults>>
    BY <1>1 DEF Insert, EndTransaction
  <2>4. TypeOK'
    BY <2>2, <2>3 DEF TypeOK
  <2>5. BatchOK'
    BY <2>1, <2>3 DEF BatchOK, TypeOK
  <2> QED
    BY <2>4, <2>5
<1>2. ASSUME NEW r \in Relays, Claim(r) PROVE TypeOK' /\ BatchOK'
  <2>1. PICK S \in SUBSET Claimable :
          /\ lock' = [i \in Ids |-> IF i \in S THEN r ELSE lock[i]]
          /\ claim' = [claim EXCEPT ![r] = S]
          /\ todo' = [todo EXCEPT ![r] = S]
    BY <1>2 DEF Claim
  <2>2. S \subseteq Ids /\ \A i \in S : row[i] = "pending"
    BY DEF Claimable
  <2>3. UNCHANGED <<row, copies, faults>> /\ Goto(r, "publish")
    BY <1>2 DEF Claim
  <2>4. lock' \in [Ids -> Relays \cup {NoRelay}]
    BY <2>1 DEF TypeOK
  <2>5. claim' \in [Relays -> SUBSET Ids] /\ todo' \in [Relays -> SUBSET Ids]
    BY <2>1, <2>2 DEF TypeOK
  <2>6. /\ claim'[r] = S /\ todo'[r] = S /\ pc'[r] = "publish"
        /\ \A x \in Relays \ {r} :
              claim'[x] = claim[x] /\ todo'[x] = todo[x] /\ pc'[x] = pc[x]
    BY <2>1, <2>3 DEF TypeOK, Goto
  <2>7. pc' \in [Relays -> {"idle", "publish", "mark", "down"}]
    BY <2>3 DEF TypeOK, Goto
  <2>8. TypeOK'
    BY <2>3, <2>4, <2>5, <2>6, <2>7 DEF TypeOK
  <2>9. BatchOK'
    BY <2>2, <2>3, <2>6 DEF BatchOK
  <2> QED
    BY <2>8, <2>9
<1>3. ASSUME NEW r \in Relays, Publish(r) PROVE TypeOK' /\ BatchOK'
  <2>1. PICK i \in Ids :
          /\ IsNext(r, i)
          /\ Send(i)
          /\ todo' = [todo EXCEPT ![r] = @ \ {i}]
          /\ \/ todo[r] = {i} /\ Goto(r, "mark")
             \/ todo[r] # {i} /\ UNCHANGED pc
    BY <1>3 DEF Publish
  <2>2. UNCHANGED <<row, lock, claim, faults>> /\ pc[r] = "publish"
    BY <1>3 DEF Publish
  <2>3. /\ todo'[r] = todo[r] \ {i}
        /\ \A x \in Relays \ {r} : todo'[x] = todo[x] /\ pc'[x] = pc[x]
        /\ pc'[r] \in {"publish", "mark"}
        /\ pc'[r] = "mark" => todo'[r] = {}
    BY <2>1, <2>2 DEF TypeOK, Goto
  <2>4. todo' \in [Relays -> SUBSET Ids]
    BY <2>1 DEF TypeOK
  <2>5. pc' \in [Relays -> {"idle", "publish", "mark", "down"}]
    BY <2>1 DEF TypeOK, Goto
  <2>6. TypeOK'
    BY <2>1, <2>2, <2>3, <2>4, <2>5, SendType DEF TypeOK
  <2>7. \A j \in Ids : copies[j] > 0 => copies'[j] > 0
    BY <2>1, SendType DEF TypeOK
  <2>8. ASSUME NEW x \in Relays
        PROVE  /\ \A j \in claim'[x] : row'[j] \in {"pending", "published"}
               /\ \A j \in claim'[x] \ todo'[x] : copies'[j] > 0
               /\ pc'[x] = "mark" => todo'[x] = {}
    <3>1. claim[x] \subseteq Ids
      BY DEF TypeOK
    <3>2. CASE x = r
      BY <2>1, <2>2, <2>3, <2>7, <3>1, <3>2, SendType DEF BatchOK
    <3>3. CASE x # r
      BY <2>2, <2>3, <2>7, <3>1, <3>3 DEF BatchOK
    <3> QED
      BY <3>2, <3>3
  <2> QED
    BY <2>6, <2>8 DEF BatchOK
<1>4. ASSUME NEW r \in Relays, NEW l \in {"idle", "down"}, EndClaim(r, l),
             row' \in [Ids -> {"free", "open", "gone", "pending", "published"}],
             \A i \in Ids : row[i] \in {"pending", "published"} =>
                              row'[i] \in {"pending", "published"},
             copies' \in [Ids -> Nat],
             \A i \in Ids : copies'[i] >= copies[i],
             faults' \in 0 .. MaxFaults
      PROVE  TypeOK' /\ BatchOK'
  <2>1. TypeOK'
    BY <1>4, EndClaimType DEF TypeOK
  <2>2. \A i \in Ids : copies[i] > 0 => copies'[i] > 0
    BY <1>4 DEF TypeOK
  <2>3. ASSUME NEW x \in Relays
        PROVE  /\ \A j \in claim'[x] : row'[j] \in {"pending", "published"}
               /\ \A j \in claim'[x] \ todo'[x] : copies'[j] > 0
               /\ pc'[x] = "mark" => todo'[x] = {}
    <3>1. claim[x] \subseteq Ids
      BY DEF TypeOK
    <3>2. CASE x = r
      BY <1>4, <3>2, EndClaimType
    <3>3. CASE x # r
      BY <1>4, <2>2, <3>1, <3>3, EndClaimType DEF BatchOK
    <3> QED
      BY <3>2, <3>3
  <2> QED
    BY <2>1, <2>3 DEF BatchOK
<1>5. \A i \in Ids : copies[i] >= copies[i]
  BY DEF TypeOK
<1>6. ASSUME NEW r \in Relays, PublishError(r) PROVE TypeOK' /\ BatchOK'
  <2>1. EndClaim(r, "idle") /\ row' = row /\ Fault
    BY <1>6 DEF PublishError
  <2>2. PICK i \in Ids : Send(i) \/ UNCHANGED copies
    BY <1>6 DEF PublishError
  <2>3. copies' \in [Ids -> Nat] /\ \A j \in Ids : copies'[j] >= copies[j]
    BY <2>2, <1>5, SendType DEF TypeOK
  <2>4. faults' \in 0 .. MaxFaults
    BY <2>1 DEF Fault, TypeOK
  <2>5. row' \in [Ids -> {"free", "open", "gone", "pending", "published"}]
    BY <2>1 DEF TypeOK
  <2> QED
    BY <1>4, <2>1, <2>3, <2>4, <2>5
<1>7. ASSUME NEW r \in Relays, MarkPublished(r) PROVE TypeOK' /\ BatchOK'
  <2>1. EndClaim(r, "idle") /\ UNCHANGED <<copies, faults>>
    BY <1>7 DEF MarkPublished
  <2>2. /\ row' \in [Ids -> {"free", "open", "gone", "pending", "published"}]
        /\ \A i \in Ids : row[i] \in {"pending", "published"} =>
                             row'[i] \in {"pending", "published"}
    BY <1>7 DEF MarkPublished, TypeOK
  <2>3. copies' \in [Ids -> Nat] /\ faults' \in 0 .. MaxFaults
    BY <2>1 DEF TypeOK
  <2>4. \A i \in Ids : copies'[i] >= copies[i]
    BY <2>1, <1>5
  <2> QED
    BY <1>4, <2>1, <2>2, <2>3, <2>4
<1>8. ASSUME NEW r \in Relays, MarkError(r) PROVE TypeOK' /\ BatchOK'
  <2>1. EndClaim(r, "idle") /\ UNCHANGED <<row, copies, faults>>
    BY <1>8 DEF MarkError
  <2>2. /\ row' \in [Ids -> {"free", "open", "gone", "pending", "published"}]
        /\ copies' \in [Ids -> Nat] /\ faults' \in 0 .. MaxFaults
    BY <2>1 DEF TypeOK
  <2>3. \A i \in Ids : copies'[i] >= copies[i]
    BY <2>1, <1>5
  <2> QED
    BY <1>4, <2>1, <2>2, <2>3
<1>9. ASSUME NEW r \in Relays, Crash(r) PROVE TypeOK' /\ BatchOK'
  <2>1. EndClaim(r, "down") /\ UNCHANGED <<row, copies>> /\ Fault
    BY <1>9 DEF Crash
  <2>2. /\ row' \in [Ids -> {"free", "open", "gone", "pending", "published"}]
        /\ copies' \in [Ids -> Nat]
    BY <2>1 DEF TypeOK
  <2>3. faults' \in 0 .. MaxFaults
    BY <2>1 DEF Fault, TypeOK
  <2>4. \A i \in Ids : copies'[i] >= copies[i]
    BY <2>1, <1>5
  <2> QED
    BY <1>4, <2>1, <2>2, <2>3, <2>4
<1>10. ASSUME NEW r \in Relays, LoseSession(r) PROVE TypeOK' /\ BatchOK'
  <2>1. lock' \in [Ids -> Relays \cup {NoRelay}]
    BY <1>10 DEF LoseSession, Unlock, TypeOK
  <2>2. faults' \in 0 .. MaxFaults
    BY <1>10 DEF LoseSession, Fault, TypeOK
  <2> QED
    BY <1>10, <2>1, <2>2 DEF LoseSession, TypeOK, BatchOK
<1>11. ASSUME NEW r \in Relays, Restart(r) PROVE TypeOK' /\ BatchOK'
  <2>1. /\ pc' \in [Relays -> {"idle", "publish", "mark", "down"}]
        /\ pc[r] = "down" /\ pc'[r] = "idle"
        /\ \A x \in Relays \ {r} : pc'[x] = pc[x]
    BY <1>11 DEF Restart, Goto, TypeOK
  <2>2. UNCHANGED <<row, lock, claim, todo, copies, faults>>
    BY <1>11 DEF Restart
  <2> QED
    BY <2>1, <2>2 DEF TypeOK, BatchOK
<1>12. CASE UNCHANGED vars
  BY <1>12 DEF vars, TypeOK, BatchOK
<1> QED
  BY <1>1, <1>2, <1>3, <1>6, <1>7, <1>8, <1>9, <1>10, <1>11, <1>12
     DEF Next, Flush

(* The invariant holds throughout.                                         *)
LEMMA Inductive == Spec => []IndInv
  BY IndInit, IndStep, PTL DEF Spec

(* The relays' variables keep their types.                                 *)
THEOREM TypeCorrect == Spec => []TypeOK
  BY Inductive, PTL DEF IndInv

-------------------------------------------------------------------------------
Accepted  == {i \in Ids : row[i] \in {"pending", "published"}}
Delivered == {i \in Ids : copies[i] > 0}
Settled   == {i \in Ids : row[i] = "published"}

(* A step that leaves rows and counts alone is invisible in the channel.   *)
LEMMA Invisible ==
  ASSUME UNCHANGED <<row, copies>>
  PROVE  UNCHANGED <<Accepted, Delivered, Settled>>
  BY DEF Accepted, Delivered, Settled

(* Sending a row of one's batch is a delivery: the row was committed.      *)
LEMMA SendDelivers ==
  ASSUME IndInv, NEW r \in Relays, NEW i \in Ids, IsNext(r, i), Send(i),
         UNCHANGED row
  PROVE  /\ i \in Accepted
         /\ Delivered' = Delivered \cup {i}
         /\ UNCHANGED <<Accepted, Settled>>
<1>1. i \in claim[r]
  BY DEF IsNext, IndInv, TypeOK
<1>2. i \in Accepted
  BY <1>1 DEF IndInv, BatchOK, Accepted
<1>3. Delivered' = Delivered \cup {i}
  BY SendType DEF Delivered, IndInv
<1> QED
  BY <1>2, <1>3 DEF Accepted, Settled

(* The outbox implements the at-least-once channel: only committed events  *)
(* reach Kafka, and a row is marked published only once Kafka has it.      *)
THEOREM ImplementsAtLeastOnce == Spec => ImplementsChannel
<1> USE DEF Accepted, Delivered, Settled
<1>1. Init => Channel!Init
  BY DEF Init, Channel!Init
<1> HIDE DEF Accepted, Delivered, Settled
<1>2. IndInv /\ [Next]_vars =>
        \/ \E i \in Ids :
             \/ /\ Accepted' = Accepted \cup {i}
                /\ UNCHANGED <<Delivered, Settled>>
             \/ /\ i \in Accepted /\ Delivered' = Delivered \cup {i}
                /\ UNCHANGED <<Accepted, Settled>>
        \/ \E S \in SUBSET Ids :
             /\ S \subseteq Delivered /\ Settled' = Settled \cup S
             /\ UNCHANGED <<Accepted, Delivered>>
        \/ UNCHANGED <<Accepted, Delivered, Settled>>
  <2> SUFFICES ASSUME IndInv, [Next]_vars
               PROVE  \/ \E i \in Ids :
                           \/ /\ Accepted' = Accepted \cup {i}
                              /\ UNCHANGED <<Delivered, Settled>>
                           \/ /\ i \in Accepted
                              /\ Delivered' = Delivered \cup {i}
                              /\ UNCHANGED <<Accepted, Settled>>
                      \/ \E S \in SUBSET Ids :
                           /\ S \subseteq Delivered
                           /\ Settled' = Settled \cup S
                           /\ UNCHANGED <<Accepted, Delivered>>
                      \/ UNCHANGED <<Accepted, Delivered, Settled>>
    OBVIOUS
  <2>1. ASSUME NEW i \in Ids, Insert(i)
        PROVE  UNCHANGED <<Accepted, Delivered, Settled>>
    BY <2>1 DEF Insert, Accepted, Delivered, Settled, IndInv, TypeOK
  <2>2. ASSUME NEW i \in Ids, EndTransaction(i)
        PROVE  /\ \/ Accepted' = Accepted \cup {i}
                  \/ UNCHANGED Accepted
               /\ UNCHANGED <<Delivered, Settled>>
    <3>1. PICK s \in {"pending", "gone"} : row' = [row EXCEPT ![i] = s]
      BY <2>2 DEF EndTransaction
    <3>2. row[i] = "open" /\ copies' = copies
      BY <2>2 DEF EndTransaction
    <3>3. UNCHANGED <<Delivered, Settled>>
      BY <3>1, <3>2 DEF Delivered, Settled, IndInv, TypeOK
    <3>4. CASE s = "pending"
      BY <3>1, <3>2, <3>3, <3>4 DEF Accepted, IndInv, TypeOK
    <3>5. CASE s = "gone"
      BY <3>1, <3>2, <3>3, <3>5 DEF Accepted, IndInv, TypeOK
    <3> QED
      BY <3>4, <3>5
  <2>3. ASSUME NEW r \in Relays,
               Claim(r) \/ MarkError(r) \/ LoseSession(r) \/ Crash(r) \/ Restart(r)
        PROVE  UNCHANGED <<Accepted, Delivered, Settled>>
    BY <2>3, Invisible DEF Claim, MarkError, LoseSession, Crash, Restart
  <2>4. ASSUME NEW r \in Relays, Publish(r) \/ PublishError(r)
        PROVE  \/ \E i \in Ids : /\ i \in Accepted
                                 /\ Delivered' = Delivered \cup {i}
                                 /\ UNCHANGED <<Accepted, Settled>>
               \/ UNCHANGED <<Accepted, Delivered, Settled>>
    <3>1. PICK i \in Ids : IsNext(r, i) /\ (Send(i) \/ UNCHANGED copies)
      BY <2>4 DEF Publish, PublishError
    <3>2. row' = row
      BY <2>4 DEF Publish, PublishError
    <3> QED
      BY <3>1, <3>2, SendDelivers, Invisible
  <2>5. ASSUME NEW r \in Relays, MarkPublished(r)
        PROVE  \E S \in SUBSET Ids :
                 /\ S \subseteq Delivered /\ Settled' = Settled \cup S
                 /\ UNCHANGED <<Accepted, Delivered>>
    <3>1. claim[r] \subseteq Ids
      BY DEF IndInv, TypeOK
    <3>2. claim[r] \subseteq Delivered
      BY <2>5, <3>1 DEF MarkPublished, IndInv, BatchOK, Delivered
    <3>3. Settled' = Settled \cup claim[r] /\ Delivered' = Delivered
      BY <2>5, <3>1 DEF MarkPublished, Settled, Delivered
    <3>4. Accepted' = Accepted
      BY <2>5, <3>1 DEF MarkPublished, Accepted, IndInv, BatchOK
    <3> QED
      BY <3>1, <3>2, <3>3, <3>4
  <2>6. CASE UNCHANGED vars
    BY <2>6, Invisible DEF vars
  <2> QED
    BY <2>1, <2>2, <2>3, <2>4, <2>5, <2>6 DEF Next, Flush
<1> USE DEF Accepted, Delivered, Settled
<1>3. IndInv /\ [Next]_vars =>
        [Channel!Next]_<<Accepted, Delivered, Settled>>
  BY <1>2 DEF Channel!Next, Channel!Accept, Channel!Deliver, Channel!Settle
<1> QED
  BY <1>1, <1>3, Inductive, PTL DEF Spec, ImplementsChannel, Channel!Spec

-------------------------------------------------------------------------------
(* Duplicates.  The relays that will publish row i once more, unless they  *)
(* are stopped.                                                            *)
Holders(i) == {r \in Relays : i \in todo[r]}

(* Copies made and copies to come.                                         *)
Load(i) == copies[i] + Cardinality(Holders(i))

(* A session locks all the rows of its relay's batch or none, and no other.*)
SessionsOK ==
  \A r \in Relays : \A i \in Ids :
    lock[i] = r => i \in claim[r] /\ Alive(r)

(* Each fault pays for one copy; the first one is free.  A row that the    *)
(* next claim can take has not spent the free one: either nobody had it    *)
(* yet, or whoever had it and lost it paid with a fault.                   *)
LoadOK ==
  \A i \in Ids :
    /\ IsFiniteSet(Holders(i))
    /\ Load(i) <= 1 + faults
    /\ row[i] # "published" /\ lock[i] = NoRelay => Load(i) <= faults

DupInv == IndInv /\ SessionsOK /\ LoadOK

(* Initially there is nothing to send and no fault.                        *)
LEMMA DupInit == Init => DupInv
<1> SUFFICES ASSUME Init PROVE SessionsOK /\ LoadOK
  BY IndInit DEF DupInv
<1>1. SessionsOK
  BY OutboxAssumption DEF Init, SessionsOK
<1>2. \A i \in Ids : Holders(i) = {}
  BY DEF Init, Holders
<1>3. \A i \in Ids : IsFiniteSet(Holders(i)) /\ Load(i) = 0 /\ faults = 0
  BY <1>2, FS_EmptySet DEF Init, Load
<1> QED
  BY <1>1, <1>3 DEF LoadOK

(* What the counts are.                                                    *)
LEMMA LoadType ==
  ASSUME DupInv, NEW i \in Ids
  PROVE  /\ copies[i] \in Nat /\ faults \in Nat
         /\ IsFiniteSet(Holders(i)) /\ Cardinality(Holders(i)) \in Nat
         /\ Load(i) \in Nat
<1>1. copies[i] \in Nat /\ faults \in Nat
  BY OutboxAssumption DEF DupInv, IndInv, TypeOK
<1>2. IsFiniteSet(Holders(i))
  BY DEF DupInv, LoadOK
<1>3. Cardinality(Holders(i)) \in Nat
  BY <1>2, FS_CardinalityType
<1> QED
  BY <1>1, <1>2, <1>3 DEF Load

(* A step after which relay r alone may have less to publish: the others   *)
(* are still there, and r's part of the load is gone with row i.           *)
LEMMA Dropped ==
  ASSUME DupInv, NEW r \in Relays, NEW i \in Ids,
         i \notin todo'[r],
         \A x \in Relays \ {r} : todo'[x] = todo[x]
  PROVE  /\ IsFiniteSet(Holders(i)')
         /\ Cardinality(Holders(i)') \in Nat
         /\ Cardinality(Holders(i)') <= Cardinality(Holders(i))
         /\ i \in todo[r] =>
              Cardinality(Holders(i)') = Cardinality(Holders(i)) - 1
<1>1. Holders(i)' = Holders(i) \ {r}
  BY DEF Holders
<1>2. IsFiniteSet(Holders(i)) /\ Cardinality(Holders(i)) \in Nat
  BY LoadType
<1>3. /\ IsFiniteSet(Holders(i) \ {r})
      /\ Cardinality(Holders(i) \ {r}) =
           IF r \in Holders(i) THEN Cardinality(Holders(i)) - 1
                                ELSE Cardinality(Holders(i))
  BY <1>2, FS_RemoveElement
<1>4. Cardinality(Holders(i)') \in Nat
  BY <1>1, <1>3, FS_CardinalityType
<1>5. i \in todo[r] => r \in Holders(i)
  BY DEF Holders
<1> QED
  BY <1>1, <1>2, <1>3, <1>4, <1>5

(* A row that nothing is done to.                                          *)
LEMMA Untouched ==
  ASSUME DupInv, NEW i \in Ids,
         \A x \in Relays : i \in todo'[x] <=> i \in todo[x],
         copies'[i] = copies[i]
  PROVE  IsFiniteSet(Holders(i)') /\ Load(i)' = Load(i)
<1>1. Holders(i)' = Holders(i)
  BY DEF Holders
<1> QED
  BY <1>1, LoadType DEF Load

(* A relay whose session locks one row of a pending batch locks them all;  *)
(* what Unlock frees is its own.                                           *)
LEMMA Unlocked ==
  ASSUME DupInv, NEW r \in Relays, Unlock(r)
  PROVE  /\ \A i \in Ids : lock'[i] = IF lock[i] = r THEN NoRelay ELSE lock[i]
         /\ \A i \in Ids, x \in Relays : lock'[i] = x => x # r /\ lock[i] = x
<1>1. \A i \in Ids : lock'[i] = IF lock[i] = r THEN NoRelay ELSE lock[i]
  BY DEF Unlock
<1>2. \A x \in Relays : x # NoRelay
  BY OutboxAssumption
<1> QED
  BY <1>1, <1>2

(* The end of a claim leaves the sessions of the other relays as they are. *)
LEMMA EndClaimSessions ==
  ASSUME DupInv, NEW r \in Relays, NEW l \in {"idle", "down"}, EndClaim(r, l)
  PROVE  SessionsOK'
<1>1. Unlock(r)
  BY DEF EndClaim
<1>2. \A x \in Relays \ {r} : claim'[x] = claim[x]
  BY EndClaimType DEF DupInv, IndInv
<1> SUFFICES ASSUME NEW x \in Relays, NEW i \in Ids, lock'[i] = x
             PROVE  i \in claim'[x] /\ \A j \in claim'[x] : lock'[j] = x
  BY DEF SessionsOK, Alive
<1>3. x # r /\ lock[i] = x
  BY <1>1, Unlocked
<1>4. i \in claim[x] /\ \A j \in claim[x] : lock[j] = x
  BY <1>3 DEF DupInv, SessionsOK, Alive
<1>5. claim[x] \subseteq Ids
  BY DEF DupInv, IndInv, TypeOK
<1> QED
  BY <1>1, <1>2, <1>3, <1>4, <1>5, Unlocked

(* A fault pays for what it frees.                                         *)
LEMMA PaidFor ==
  ASSUME DupInv, NEW i \in Ids, IsFiniteSet(Holders(i)'),
         Load(i)' \in Int, Load(i)' <= Load(i), faults' = faults + 1
  PROVE  /\ IsFiniteSet(Holders(i)')
         /\ Load(i)' <= 1 + faults'
         /\ Load(i)' <= faults'
<1>1. Load(i) <= 1 + faults
  BY DEF DupInv, LoadOK
<1> QED
  BY <1>1, LoadType

(* One action at a time: sessions and counts.                              *)
LEMMA DupStep == DupInv /\ [Next]_vars => SessionsOK' /\ LoadOK'
<1> SUFFICES ASSUME DupInv, [Next]_vars PROVE SessionsOK' /\ LoadOK'
  OBVIOUS
<1> USE OutboxAssumption
<1>a. /\ \A r \in Relays : claim[r] \subseteq Ids /\ todo[r] \subseteq claim[r]
      /\ \A r \in Relays : r # NoRelay
      /\ faults \in Nat
  BY DEF DupInv, IndInv, TypeOK
<1>b. ASSUME UNCHANGED <<lock, claim, todo, copies, faults>>,
             \A i \in Ids : row'[i] # "published" => row[i] # "published"
      PROVE  SessionsOK' /\ LoadOK'
  <2>1. SessionsOK'
    BY <1>b DEF DupInv, SessionsOK, Alive
  <2>2. \A i \in Ids : IsFiniteSet(Holders(i)') /\ Load(i)' = Load(i)
    BY <1>b, Untouched
  <2>3. LoadOK'
    BY <1>b, <2>2 DEF DupInv, LoadOK
  <2> QED
    BY <2>1, <2>3
<1>1. ASSUME NEW i \in Ids, Insert(i) \/ EndTransaction(i)
      PROVE  SessionsOK' /\ LoadOK'
  <2>1. UNCHANGED <<lock, claim, todo, copies, faults>>
    BY <1>1 DEF Insert, EndTransaction
  <2>2. \A j \in Ids : row'[j] # "published" => row[j] # "published"
    BY <1>1 DEF Insert, EndTransaction, DupInv, IndInv, TypeOK
  <2> QED
    BY <1>b, <2>1, <2>2
<1>2. ASSUME NEW r \in Relays, Claim(r) PROVE SessionsOK' /\ LoadOK'
  <2>1. PICK S \in SUBSET Claimable :
          /\ lock' = [i \in Ids |-> IF i \in S THEN r ELSE lock[i]]
          /\ claim' = [claim EXCEPT ![r] = S]
          /\ todo' = [todo EXCEPT ![r] = S]
    BY <1>2 DEF Claim
  <2>2. \A i \in S : i \in Ids /\ row[i] = "pending" /\ lock[i] = NoRelay
    BY DEF Claimable
  <2>3. UNCHANGED <<row, copies, faults>> /\ pc[r] = "idle"
    BY <1>2 DEF Claim
  <2>4. claim[r] = {} /\ todo[r] = {}
    BY <2>3 DEF DupInv, IndInv, TypeOK
  <2>5. /\ claim'[r] = S /\ todo'[r] = S
        /\ \A x \in Relays \ {r} : claim'[x] = claim[x] /\ todo'[x] = todo[x]
    BY <2>1 DEF DupInv, IndInv, TypeOK
  <2>6. \A i \in Ids : lock'[i] = IF i \in S THEN r ELSE lock[i]
    BY <2>1
  <2>7. SessionsOK'
    <3> SUFFICES ASSUME NEW x \in Relays, NEW i \in Ids, lock'[i] = x
                 PROVE  i \in claim'[x] /\ \A j \in claim'[x] : lock'[j] = x
      BY DEF SessionsOK, Alive
    <3>1. CASE i \in S
      BY <2>2, <2>5, <2>6, <3>1
    <3>2. CASE i \notin S
      <4>1. lock[i] = x
        BY <2>6, <3>2
      <4>2. i \in claim[x] /\ \A j \in claim[x] : lock[j] = x
        BY <4>1 DEF DupInv, SessionsOK, Alive
      <4>3. x # r
        BY <2>4, <4>2
      <4>4. \A j \in claim[x] : j \in Ids /\ j \notin S
        BY <1>a, <2>2, <4>2
      <4> QED
        BY <2>5, <2>6, <4>2, <4>3, <4>4
    <3> QED
      BY <3>1, <3>2
  <2>8. ASSUME NEW i \in Ids, i \notin S
        PROVE  IsFiniteSet(Holders(i)') /\ Load(i)' = Load(i) /\ lock'[i] = lock[i]
    <3>1. \A x \in Relays : i \in todo'[x] <=> i \in todo[x]
      BY <2>4, <2>5, <2>8
    <3> QED
      BY <2>3, <2>6, <2>8, <3>1, Untouched
  <2>9. ASSUME NEW i \in S
        PROVE  IsFiniteSet(Holders(i)') /\ Load(i)' <= 1 + faults /\ lock'[i] = r
    <3>0. i \in Ids
      BY <2>2
    <3>1. Load(i) <= faults
      BY <2>2, <3>0 DEF DupInv, LoadOK
    <3>2. Holders(i)' = Holders(i) \cup {r} /\ r \notin Holders(i)
      BY <2>4, <2>5 DEF Holders
    <3>3. /\ IsFiniteSet(Holders(i)')
          /\ Cardinality(Holders(i)') = Cardinality(Holders(i)) + 1
      BY <3>0, <3>2, LoadType, FS_AddElement
    <3>4. Load(i)' = Load(i) + 1
      BY <2>3, <3>0, <3>3, LoadType DEF Load
    <3> QED
      BY <2>6, <3>0, <3>1, <3>3, <3>4, LoadType
  <2>10. LoadOK'
    <3>1. \A i \in S : IsFiniteSet(Holders(i)') /\ Load(i)' <= 1 + faults'
                         /\ lock'[i] # NoRelay
      BY <1>a, <2>3, <2>9
    <3>2. \A i \in Ids \ S :
            /\ IsFiniteSet(Holders(i)')
            /\ Load(i)' <= 1 + faults'
            /\ row'[i] # "published" /\ lock'[i] = NoRelay => Load(i)' <= faults'
      BY <2>3, <2>8 DEF DupInv, LoadOK
    <3> QED
      BY <3>1, <3>2 DEF LoadOK
  <2> QED
    BY <2>7, <2>10
<1>3. ASSUME NEW r \in Relays, Publish(r) PROVE SessionsOK' /\ LoadOK'
  <2>1. PICK i \in Ids :
          /\ IsNext(r, i)
          /\ Send(i)
          /\ todo' = [todo EXCEPT ![r] = @ \ {i}]
    BY <1>3 DEF Publish
  <2>2. UNCHANGED <<row, lock, claim, faults>> /\ i \in todo[r]
    BY <1>3, <2>1 DEF Publish, IsNext
  <2>3. SessionsOK'
    BY <2>2 DEF DupInv, SessionsOK, Alive
  <2>4. /\ todo'[r] = todo[r] \ {i}
        /\ \A x \in Relays \ {r} : todo'[x] = todo[x]
    BY <2>1 DEF DupInv, IndInv, TypeOK
  <2>5. copies'[i] = copies[i] + 1 /\ \A j \in Ids \ {i} : copies'[j] = copies[j]
    BY <2>1 DEF Send, DupInv, IndInv, TypeOK
  <2>6. IsFiniteSet(Holders(i)') /\ Load(i)' = Load(i)
    <3>1. /\ IsFiniteSet(Holders(i)')
          /\ Cardinality(Holders(i)') = Cardinality(Holders(i)) - 1
      BY <2>2, <2>4, Dropped
    <3> QED
      BY <2>5, <3>1, LoadType DEF Load
  <2>7. \A j \in Ids \ {i} : IsFiniteSet(Holders(j)') /\ Load(j)' = Load(j)
    BY <2>4, <2>5, Untouched
  <2>8. LoadOK'
    BY <2>2, <2>6, <2>7 DEF DupInv, LoadOK
  <2> QED
    BY <2>3, <2>8
<1>4. ASSUME NEW r \in Relays, NEW l \in {"idle", "down"}, EndClaim(r, l),
             faults' = faults + 1,
             \/ copies' = copies
             \/ \E i \in Ids : i \in todo[r] /\ Send(i)
      PROVE  SessionsOK' /\ LoadOK'
  <2>1. \A x \in Relays \ {r} : todo'[x] = todo[x]
    BY <1>4, EndClaimType DEF DupInv, IndInv
  <2>2. todo'[r] = {}
    BY <1>4, EndClaimType DEF DupInv, IndInv
  <2>3. ASSUME NEW i \in Ids
        PROVE  /\ IsFiniteSet(Holders(i)')
               /\ Load(i)' \in Int /\ Load(i)' <= Load(i)
    <3>1. /\ IsFiniteSet(Holders(i)')
          /\ Cardinality(Holders(i)') \in Nat
          /\ Cardinality(Holders(i)') <= Cardinality(Holders(i))
          /\ i \in todo[r] =>
               Cardinality(Holders(i)') = Cardinality(Holders(i)) - 1
      BY <2>1, <2>2, Dropped
    <3>2. \/ copies'[i] = copies[i]
          \/ copies'[i] = copies[i] + 1 /\ i \in todo[r]
      <4>1. CASE copies' = copies
        BY <4>1
      <4>2. CASE \E j \in Ids : j \in todo[r] /\ Send(j)
        BY <4>2 DEF Send, DupInv, IndInv, TypeOK
      <4> QED
        BY <1>4, <4>1, <4>2
    <3> QED
      BY <3>1, <3>2, LoadType DEF Load
  <2>4. LoadOK'
    BY <1>4, <2>3, PaidFor DEF LoadOK
  <2> QED
    BY <1>4, <2>4, EndClaimSessions
<1>5. ASSUME NEW r \in Relays, PublishError(r) PROVE SessionsOK' /\ LoadOK'
  <2>1. EndClaim(r, "idle") /\ faults' = faults + 1
    BY <1>5 DEF PublishError, Fault
  <2>2. \/ copies' = copies
        \/ \E i \in Ids : i \in todo[r] /\ Send(i)
    BY <1>5 DEF PublishError, IsNext
  <2> QED
    BY <1>4, <2>1, <2>2
<1>6. ASSUME NEW r \in Relays, Crash(r) PROVE SessionsOK' /\ LoadOK'
  <2>1. EndClaim(r, "down") /\ faults' = faults + 1 /\ copies' = copies
    BY <1>6 DEF Crash, Fault
  <2> QED
    BY <1>4, <2>1
<1>7. ASSUME NEW r \in Relays, MarkPublished(r) \/ MarkError(r)
      PROVE  SessionsOK' /\ LoadOK'
  <2>1. EndClaim(r, "idle") /\ UNCHANGED <<copies, faults>> /\ pc[r] = "mark"
    BY <1>7 DEF MarkPublished, MarkError
  <2>2. todo[r] = {}
    BY <2>1 DEF DupInv, IndInv, BatchOK
  <2>3. \A x \in Relays : todo'[x] = todo[x]
    BY <2>1, <2>2, EndClaimType DEF DupInv, IndInv
  <2>4. \A i \in Ids : IsFiniteSet(Holders(i)') /\ Load(i)' = Load(i)
    BY <2>1, <2>3, Untouched
  <2>5. \A i \in Ids : row'[i] # "published" =>
          row[i] # "published" /\ (lock'[i] = NoRelay => lock[i] = NoRelay)
    <3> SUFFICES ASSUME NEW i \in Ids, row'[i] # "published"
                 PROVE  /\ row[i] # "published"
                        /\ lock'[i] = NoRelay => lock[i] = NoRelay
      OBVIOUS
    <3>1. lock'[i] = IF lock[i] = r THEN NoRelay ELSE lock[i]
      BY <2>1, Unlocked DEF EndClaim
    <3>2. lock[i] = r => i \in claim[r] /\ Alive(r)
      BY DEF DupInv, SessionsOK
    <3>3. CASE MarkPublished(r)
      BY <3>1, <3>2, <3>3 DEF MarkPublished
    <3>4. CASE MarkError(r)
      BY <3>1, <3>2, <3>4 DEF MarkError
    <3> QED
      BY <1>7, <3>3, <3>4
  <2>6. LoadOK'
    BY <2>1, <2>4, <2>5 DEF DupInv, LoadOK
  <2> QED
    BY <2>1, <2>6, EndClaimSessions
<1>8. ASSUME NEW r \in Relays, LoseSession(r) PROVE SessionsOK' /\ LoadOK'
  <2>1. /\ Unlock(r) /\ faults' = faults + 1
        /\ UNCHANGED <<row, claim, todo, pc, copies>>
    BY <1>8 DEF LoseSession, Fault
  <2>2. \A i \in Ids : IsFiniteSet(Holders(i)') /\ Load(i)' = Load(i)
    BY <2>1, Untouched
  <2>3. LoadOK'
    BY <2>1, <2>2, PaidFor, LoadType DEF LoadOK
  <2>4. SessionsOK'
    <3> SUFFICES ASSUME NEW x \in Relays, NEW i \in Ids, lock'[i] = x
                 PROVE  i \in claim'[x] /\ \A j \in claim'[x] : lock'[j] = x
      BY DEF SessionsOK, Alive
    <3>1. x # r /\ lock[i] = x
      BY <2>1, Unlocked
    <3>2. i \in claim[x] /\ \A j \in claim[x] : lock[j] = x
      BY <3>1 DEF DupInv, SessionsOK, Alive
    <3> QED
      BY <1>a, <2>1, <3>1, <3>2, Unlocked
  <2> QED
    BY <2>3, <2>4
<1>9. ASSUME NEW r \in Relays, Restart(r) PROVE SessionsOK' /\ LoadOK'
  BY <1>b, <1>9 DEF Restart
<1>10. CASE UNCHANGED vars
  BY <1>b, <1>10 DEF vars
<1> QED
  BY <1>1, <1>2, <1>3, <1>5, <1>6, <1>7, <1>8, <1>9, <1>10 DEF Next, Flush

(* The broker gets a row at most once for free and once more for each      *)
(* fault, with any number of relays, rows and batches.                     *)
THEOREM DuplicatesArePaidFor == Spec => []DuplicatesBounded
<1>1. DupInv /\ [Next]_vars => DupInv'
  BY DupStep, IndStep DEF DupInv
<1>2. DupInv => DuplicatesBounded
  <2> SUFFICES ASSUME DupInv, NEW i \in Ids PROVE copies[i] <= 1 + faults
    BY DEF DuplicatesBounded
  <2>1. Load(i) <= 1 + faults
    BY DEF DupInv, LoadOK
  <2> QED
    BY <2>1, LoadType DEF Load
<1> QED
  BY DupInit, <1>1, <1>2, PTL DEF Spec
===============================================================================
