-------------------------------- MODULE Outbox --------------------------------
(***************************************************************************)
(* The transactional outbox and its relays.  Business transactions insert  *)
(* rows; every API and worker process runs a relay that claims a batch of  *)
(* unpublished rows with FOR UPDATE SKIP LOCKED, publishes them one by one *)
(* and marks them in the same transaction.                                 *)
(*                                                                         *)
(*   internal/uploads/adapter/outbox/relay.go        Run, Flush            *)
(*   internal/uploads/adapter/postgres/postgres.go   WithClaimed           *)
(*   internal/platform/kafka/publisher.go            Publish               *)
(*                                                                         *)
(* Row ids come from a sequence when a row is inserted; the row becomes    *)
(* visible when its transaction commits, so rows may appear out of order.  *)
(* A claim lives in the relay's database session.  When the session dies   *)
(* the locks are gone but the relay, which notices only at its next        *)
(* statement, goes on publishing what it read.                             *)
(***************************************************************************)
EXTENDS Integers, FiniteSets

CONSTANTS Relays,     \* relay goroutines
          NoRelay,    \* an unlocked row
          MaxRows,    \* bound: rows inserted
          Batch,      \* Relay.batch
          MaxFaults   \* bound: publish errors, lost sessions and crashes

Ids == 1 .. MaxRows

ASSUME OutboxAssumption ==
  /\ MaxRows \in Nat
  /\ Batch \in Nat \ {0}
  /\ MaxFaults \in Nat
  /\ NoRelay \notin Relays

VARIABLES
  row,      \* each row: free, open (uncommitted), gone, pending, published
  lock,     \* the session that holds the row lock
  claim,    \* the rows a relay read in WithClaimed
  todo,     \* those it has yet to publish
  pc,       \* where each relay is
  copies,   \* how often the broker got each row
  faults    \* faults so far

vars == <<row, lock, claim, todo, pc, copies, faults>>

Goto(r, l) == pc' = [pc EXCEPT ![r] = l]

Init ==
  /\ row = [i \in Ids |-> "free"]
  /\ lock = [i \in Ids |-> NoRelay]
  /\ claim = [r \in Relays |-> {}]
  /\ todo = [r \in Relays |-> {}]
  /\ pc = [r \in Relays |-> "idle"]
  /\ copies = [i \in Ids |-> 0]
  /\ faults = 0

-------------------------------------------------------------------------------
(* Business transactions (Complete, Reprocess, FinalizeReady, ...).        *)

Insert(i) ==
  /\ row[i] = "free"
  /\ \A j \in Ids : row[j] = "free" => i <= j
  /\ row' = [row EXCEPT ![i] = "open"]
  /\ UNCHANGED <<lock, claim, todo, pc, copies, faults>>

(* The transaction ends: the row is visible, or never was.                 *)
EndTransaction(i) ==
  /\ row[i] = "open"
  /\ \E s \in {"pending", "gone"} : row' = [row EXCEPT ![i] = s]
  /\ UNCHANGED <<lock, claim, todo, pc, copies, faults>>

-------------------------------------------------------------------------------
(* Flush.                                                                  *)

(* Mutant of Claimable: a plain SELECT, without FOR UPDATE SKIP LOCKED.     *)
ClaimableLocked == {i \in Ids : row[i] = "pending"}

(* Rows that SELECT ... WHERE published_at IS NULL FOR UPDATE SKIP LOCKED  *)
(* can return.                                                             *)
Claimable == {i \in Ids : row[i] = "pending" /\ lock[i] = NoRelay}

(* ORDER BY id LIMIT Batch: the first rows, as many as the batch allows.   *)
IsBatch(S, all) ==
  /\ \A i \in S, j \in all \ S : i < j
  /\ IF Cardinality(all) <= Batch THEN S = all ELSE Cardinality(S) = Batch

(* WithClaimed begins its transaction and reads a batch.                   *)
Claim(r) ==
  /\ pc[r] = "idle"
  /\ Claimable # {}
  /\ \E S \in SUBSET Claimable :
       /\ IsBatch(S, Claimable)
       /\ lock' = [i \in Ids |-> IF i \in S THEN r ELSE lock[i]]
       /\ claim' = [claim EXCEPT ![r] = S]
       /\ todo' = [todo EXCEPT ![r] = S]
  /\ Goto(r, "publish")
  /\ UNCHANGED <<row, copies, faults>>

(* The next message of the batch, in id order.                             *)
IsNext(r, i) == i \in todo[r] /\ \A j \in todo[r] : i <= j

Send(i) == copies' = [copies EXCEPT ![i] = @ + 1]

Publish(r) ==
  /\ pc[r] = "publish"
  /\ \E i \in Ids :
       /\ IsNext(r, i)
       /\ Send(i)
       /\ todo' = [todo EXCEPT ![r] = @ \ {i}]
       /\ \/ todo[r] = {i} /\ Goto(r, "mark")
          \/ todo[r] # {i} /\ UNCHANGED pc
  /\ UNCHANGED <<row, lock, claim, faults>>

Unlock(r) == lock' = [i \in Ids |-> IF lock[i] = r THEN NoRelay ELSE lock[i]]

(* The claim transaction ends and the relay waits for its next tick.       *)
EndClaim(r, l) ==
  /\ Unlock(r)
  /\ claim' = [claim EXCEPT ![r] = {}]
  /\ todo' = [todo EXCEPT ![r] = {}]
  /\ Goto(r, l)

Fault == faults < MaxFaults /\ faults' = faults + 1

(* Mutants of PublishError: the error is logged and the batch continues;   *)
(* the transaction is not rolled back.                                     *)
PublishErrorIgnored(r) ==
  /\ pc[r] = "publish"
  /\ Fault
  /\ \E i \in Ids :
       /\ IsNext(r, i)
       /\ todo' = [todo EXCEPT ![r] = @ \ {i}]
       /\ \/ todo[r] = {i} /\ Goto(r, "mark")
          \/ todo[r] # {i} /\ UNCHANGED pc
  /\ UNCHANGED <<row, lock, claim, copies>>

PublishErrorKeepsLocks(r) ==
  /\ pc[r] = "publish"
  /\ Fault
  /\ claim' = [claim EXCEPT ![r] = {}]
  /\ todo' = [todo EXCEPT ![r] = {}]
  /\ Goto(r, "idle")
  /\ UNCHANGED <<row, lock, copies>>

(* Publish returns an error: the whole claim is rolled back.  The broker   *)
(* may have stored the message all the same (a lost acknowledgement).      *)
PublishError(r) ==
  /\ pc[r] = "publish"
  /\ Fault
  /\ \E i \in Ids : IsNext(r, i) /\ (Send(i) \/ UNCHANGED copies)
  /\ EndClaim(r, "idle")
  /\ UNCHANGED row

(* Is the claim transaction still alive?                                   *)
Alive(r) == \A i \in claim[r] : lock[i] = r

(* All UPDATEs ... SET published_at and the COMMIT.                        *)
MarkPublished(r) ==
  /\ pc[r] = "mark"
  /\ Alive(r)
  /\ row' = [i \in Ids |-> IF i \in claim[r] THEN "published" ELSE row[i]]
  /\ EndClaim(r, "idle")
  /\ UNCHANGED <<copies, faults>>

(* The session is gone: the first UPDATE errs.                             *)
MarkError(r) ==
  /\ pc[r] = "mark"
  /\ ~Alive(r)
  /\ EndClaim(r, "idle")
  /\ UNCHANGED <<row, copies, faults>>

-------------------------------------------------------------------------------
(* The database ends the relay's session; the relay does not know yet.     *)
LoseSession(r) ==
  /\ pc[r] \in {"publish", "mark"}
  /\ Alive(r)
  /\ Fault
  /\ Unlock(r)
  /\ UNCHANGED <<row, claim, todo, pc, copies>>

(* The process dies or shuts down.                                         *)
Crash(r) ==
  /\ pc[r] # "down"
  /\ Fault
  /\ EndClaim(r, "down")
  /\ UNCHANGED <<row, copies>>

Restart(r) ==
  /\ pc[r] = "down"
  /\ Goto(r, "idle")
  /\ UNCHANGED <<row, lock, claim, todo, copies, faults>>

-------------------------------------------------------------------------------
Flush(r) ==
  Claim(r) \/ Publish(r) \/ PublishError(r) \/ MarkPublished(r) \/ MarkError(r)

Next ==
  \/ \E i \in Ids : Insert(i) \/ EndTransaction(i)
  \/ \E r \in Relays : Flush(r) \/ LoseSession(r) \/ Crash(r) \/ Restart(r)

Spec == Init /\ [][Next]_vars

(* Relays run on a ticker and are restarted with their process.  Business  *)
(* transactions end, since each runs under a request or message context.   *)
Fairness ==
  /\ \A r \in Relays : WF_vars(Flush(r)) /\ WF_vars(Restart(r))
  /\ \A i \in Ids : WF_vars(EndTransaction(i))

FairSpec == Spec /\ Fairness

-------------------------------------------------------------------------------
(* Types of all variables; a relay between flushes remembers no batch.     *)
TypeOK ==
  /\ row \in [Ids -> {"free", "open", "gone", "pending", "published"}]
  /\ lock \in [Ids -> Relays \cup {NoRelay}]
  /\ claim \in [Relays -> SUBSET Ids]
  /\ todo \in [Relays -> SUBSET Ids]
  /\ pc \in [Relays -> {"idle", "publish", "mark", "down"}]
  /\ copies \in [Ids -> Nat]
  /\ faults \in 0 .. MaxFaults
  /\ \A r \in Relays : /\ todo[r] \subseteq claim[r]
                       /\ pc[r] \in {"idle", "down"} => claim[r] = {}

Channel == INSTANCE EventChannel WITH
  accepted  <- {i \in Ids : row[i] \in {"pending", "published"}},
  delivered <- {i \in Ids : copies[i] > 0},
  settled   <- {i \in Ids : row[i] = "published"}

(* The outbox implements the channel: nothing of a transaction that rolled *)
(* back or is still open reaches Kafka, and a row is marked published only *)
(* if Kafka has it, with several relays, lost sessions and crashes.        *)
ImplementsChannel == Channel!Spec

(* Duplicates come from faults alone, at most one more copy of a row for   *)
(* each: two relays, or a relay without its session and the next claimer,  *)
(* never multiply an event by themselves.                                  *)
DuplicatesBounded == \A i \in Ids : copies[i] <= 1 + faults

(* Every committed event is published in the end.                          *)
EventuallyPublished ==
  \A i \in Ids : row[i] = "pending" ~> row[i] = "published"
===============================================================================
