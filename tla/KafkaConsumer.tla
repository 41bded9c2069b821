----------------------------- MODULE KafkaConsumer -----------------------------
(***************************************************************************)
(* One partition of a pipeline topic and the worker processes of its       *)
(* consumer group: the delivery loop that the media and the AI consumer    *)
(* share.                                                                  *)
(*                                                                         *)
(*   internal/platform/kafka/handle.go             HandleWithRetries       *)
(*   internal/platform/kafka/attempts_postgres.go  durable retry counters  *)
(*   internal/platform/kafka/dlq.go                memory counters, DLQ    *)
(*   internal/media/adapter/kafka/consumer.go      Run, deadLetter         *)
(*   internal/ai/adapter/kafka/consumer.go         Run, deadLetter         *)
(*                                                                         *)
(* The handler is any function that succeeds or fails.  Every call to the  *)
(* broker or to Postgres is one step, so a process can die between any     *)
(* two.  A Run that returns an error stops its process (cmd/worker), and a *)
(* supervisor starts it again.  A shutdown is a failed handler whose       *)
(* attempt is counted, followed by the end of the process.                 *)
(*                                                                         *)
(* The group (external): a rebalance moves the partition to another        *)
(* process, which starts at the committed offset, while the old one still  *)
(* finishes the message it holds; a commit is accepted from both, whatever *)
(* its offset.                                                             *)
(***************************************************************************)
EXTENDS Integers

CONSTANTS Consumers,    \* worker processes
          NoConsumer,   \* the partition is not assigned
          Length,       \* messages in the partition
          Mistyped,     \* offsets whose payload is JSON but not the event
          Garbled,      \* offsets whose payload is not JSON
          MaxAttempts,  \* KafkaRetryConfig.MaxAttempts
          MaxStops,     \* bound: process ends other than by a garbled payload
          MaxMoves,     \* bound: rebalances while a live process has it
          MaxBlips      \* bound: failures of kafka_retry_attempts statements

Offsets == 0 .. Length - 1

ASSUME ConsumerAssumption ==
  /\ Length \in Nat
  /\ Mistyped \subseteq Offsets
  /\ Garbled \subseteq Offsets
  /\ MaxAttempts \in Nat \ {0}
  /\ MaxStops \in Nat
  /\ MaxMoves \in Nat
  /\ MaxBlips \in Nat
  /\ NoConsumer \notin Consumers

VARIABLES
  committed,  \* offset of the group
  assigned,   \* the process that is handed the messages
  pos,        \* the next offset each reader fetches
  cur,        \* the message each process holds
  pc,         \* where each process is
  rows,       \* kafka_retry_attempts, 0 without a row
  mem,        \* AttemptTracker of each process
  handled,    \* offsets whose handler returned nil
  dead,       \* offsets with an envelope in the dead-letter topic
  failures,   \* history: handler errors so far, per offset
  resets,     \* history: how often a row was cleared, per offset
  stops, moves, blips

groupVars   == <<committed, assigned, pos>>
counterVars == <<rows, mem, resets>>
outcomeVars == <<handled, dead, failures>>
budgetVars  == <<stops, moves, blips>>
vars == <<committed, assigned, pos, cur, pc, rows, mem, resets, handled, dead,
          failures, stops, moves, blips>>

PCs == {"down", "idle", "handle", "inc", "commit", "clear", "dead",
        "deadClear", "deadCommit"}

(* A message is in progress. *)
Busy == PCs \ {"down", "idle"}

Goto(c, l) == pc' = [pc EXCEPT ![c] = l]

Init ==
  /\ committed = 0
  /\ assigned = NoConsumer
  /\ pos = [c \in Consumers |-> 0]
  /\ cur = [c \in Consumers |-> 0]
  /\ pc = [c \in Consumers |-> "idle"]
  /\ rows = [o \in Offsets |-> 0]
  /\ mem = [c \in Consumers |-> [o \in Offsets |-> 0]]
  /\ handled = {}
  /\ dead = {}
  /\ failures = [o \in Offsets |-> 0]
  /\ resets = [o \in Offsets |-> 0]
  /\ stops = 0 /\ moves = 0 /\ blips = 0

-------------------------------------------------------------------------------
(* The group.                                                              *)

(* A rebalance, which may also hand the partition back to the same         *)
(* process: reading starts again at the committed offset.                  *)
Assign(c) ==
  /\ pc[c] # "down"
  /\ \/ assigned = NoConsumer /\ UNCHANGED moves
     \/ assigned # NoConsumer /\ moves < MaxMoves /\ moves' = moves + 1
  /\ assigned' = c
  /\ pos' = [pos EXCEPT ![c] = committed]
  /\ UNCHANGED <<committed, cur, pc, counterVars, outcomeVars, stops, blips>>

(* Mutant of Fetch: a payload of another type is skipped silently.         *)
FetchDropsInvalid(c) ==
  /\ pc[c] = "idle"
  /\ assigned = c
  /\ pos[c] < Length
  /\ cur' = [cur EXCEPT ![c] = pos[c]]
  /\ pos' = [pos EXCEPT ![c] = @ + 1]
  /\ IF pos[c] \in Mistyped THEN UNCHANGED pc ELSE Goto(c, "handle")
  /\ UNCHANGED <<committed, assigned, counterVars, outcomeVars, budgetVars>>

(* FetchWithRetry and the decoding of the payload.  Broker errors are      *)
(* retried there and do not show.                                          *)
Fetch(c) ==
  /\ pc[c] = "idle"
  /\ assigned = c
  /\ pos[c] < Length
  /\ cur' = [cur EXCEPT ![c] = pos[c]]
  /\ pos' = [pos EXCEPT ![c] = @ + 1]
  /\ \/ pos[c] \in Mistyped \cup Garbled /\ Goto(c, "dead")
     \/ pos[c] \notin Mistyped \cup Garbled /\ Goto(c, "handle")
  /\ UNCHANGED <<committed, assigned, counterVars, outcomeVars, budgetVars>>

-------------------------------------------------------------------------------
(* HandleWithRetries.                                                      *)

HandleOK(c) ==
  /\ pc[c] = "handle"
  /\ handled' = handled \cup {cur[c]}
  /\ Goto(c, "commit")
  /\ UNCHANGED <<groupVars, cur, counterVars, dead, failures, budgetVars>>

HandleError(c) ==
  /\ pc[c] = "handle"
  /\ failures' = [failures EXCEPT ![cur[c]] = @ + 1]
  /\ Goto(c, "inc")
  /\ UNCHANGED <<groupVars, cur, counterVars, handled, dead, budgetVars>>

(* Mutants of AfterAttempt: the next message is fetched before the failed  *)
(* one is retried; the limit is off by one.                                *)
AfterAttemptFetchesNext(c, n) ==
  \/ n >= MaxAttempts /\ Goto(c, "dead")
  \/ n < MaxAttempts /\ Goto(c, "idle")

AfterAttemptEarly(c, n) ==
  \/ n + 1 >= MaxAttempts /\ Goto(c, "dead")
  \/ n + 1 < MaxAttempts /\ Goto(c, "handle")

(* The n-th attempt failed: the same message again after the backoff, or   *)
(* the dead-letter topic.                                                  *)
AfterAttempt(c, n) ==
  \/ n >= MaxAttempts /\ Goto(c, "dead")
  \/ n < MaxAttempts /\ Goto(c, "handle")

(* Mutant of Inc: a process counts in its memory alone.                    *)
IncInMemory(c) ==
  /\ pc[c] = "inc"
  /\ mem' = [mem EXCEPT ![c][cur[c]] = @ + 1]
  /\ AfterAttempt(c, mem[c][cur[c]] + 1)
  /\ UNCHANGED <<groupVars, cur, rows, resets, outcomeVars, budgetVars>>

(* PostgresAttemptStore.Inc.                                               *)
Inc(c) ==
  /\ pc[c] = "inc"
  /\ rows' = [rows EXCEPT ![cur[c]] = @ + 1]
  /\ AfterAttempt(c, rows[cur[c]] + 1)
  /\ UNCHANGED <<groupVars, cur, mem, resets, outcomeVars, budgetVars>>

(* ... when the statement errs or its answer is late: the process counts   *)
(* for itself, whether or not the row was written.                         *)
IncFallback(c) ==
  /\ pc[c] = "inc"
  /\ blips < MaxBlips
  /\ blips' = blips + 1
  /\ \/ UNCHANGED rows
     \/ rows' = [rows EXCEPT ![cur[c]] = @ + 1]
  /\ mem' = [mem EXCEPT ![c][cur[c]] = @ + 1]
  /\ AfterAttempt(c, mem[c][cur[c]] + 1)
  /\ UNCHANGED <<groupVars, cur, resets, outcomeVars, stops, moves>>

(* Mutant of CommitMessages: the next message is committed as well.        *)
CommitMessagesPastNext(c) == committed' = cur[c] + 2

CommitMessages(c) == committed' = cur[c] + 1

(* Clear: the memory counter, then the row if Postgres answers.            *)
ClearCounters(c) ==
  /\ mem' = [mem EXCEPT ![c][cur[c]] = 0]
  /\ \/ /\ rows' = [rows EXCEPT ![cur[c]] = 0]
        /\ resets' = [resets EXCEPT ![cur[c]] = @ + 1]
        /\ UNCHANGED blips
     \/ blips < MaxBlips /\ blips' = blips + 1 /\ UNCHANGED <<rows, resets>>

Commit(c) ==
  /\ pc[c] = "commit"
  /\ CommitMessages(c)
  /\ Goto(c, "clear")
  /\ UNCHANGED <<assigned, pos, cur, counterVars, outcomeVars, budgetVars>>

Clear(c) ==
  /\ pc[c] = "clear"
  /\ ClearCounters(c)
  /\ Goto(c, "idle")
  /\ UNCHANGED <<groupVars, cur, outcomeVars, stops, moves>>

-------------------------------------------------------------------------------
(* deadLetter: publish, clear, commit.  The envelope embeds the payload as *)
(* raw JSON, so that of a garbled one cannot be marshalled.                *)

PublishDeadLetter(c) ==
  /\ pc[c] = "dead"
  /\ cur[c] \notin Garbled
  /\ dead' = dead \cup {cur[c]}
  /\ Goto(c, "deadClear")
  /\ UNCHANGED <<groupVars, cur, counterVars, handled, failures, budgetVars>>

DeadClear(c) ==
  /\ pc[c] = "deadClear"
  /\ ClearCounters(c)
  /\ Goto(c, "deadCommit")
  /\ UNCHANGED <<groupVars, cur, outcomeVars, stops, moves>>

DeadCommit(c) ==
  /\ pc[c] = "deadCommit"
  /\ CommitMessages(c)
  /\ Goto(c, "idle")
  /\ UNCHANGED <<assigned, pos, cur, counterVars, outcomeVars, budgetVars>>

-------------------------------------------------------------------------------
(* The end of a process: its memory is gone and it leaves the group.       *)
Down(c) ==
  /\ Goto(c, "down")
  /\ cur' = [cur EXCEPT ![c] = 0]
  /\ pos' = [pos EXCEPT ![c] = 0]
  /\ mem' = [mem EXCEPT ![c] = [o \in Offsets |-> 0]]
  /\ assigned' = IF assigned = c THEN NoConsumer ELSE assigned

(* A garbled payload: deadLetter errs, Run returns, the worker exits.      *)
DeadLetterError(c) ==
  /\ pc[c] = "dead"
  /\ cur[c] \in Garbled
  /\ Down(c)
  /\ UNCHANGED <<committed, rows, resets, outcomeVars, budgetVars>>

(* A crash at any point, a shutdown, or a broker error of a commit or a    *)
(* dead-letter publish.  The broker may have accepted the call.            *)
Stop(c) ==
  /\ pc[c] # "down"
  /\ stops < MaxStops
  /\ stops' = stops + 1
  /\ Down(c)
  /\ UNCHANGED <<committed, rows, resets, outcomeVars, moves, blips>>

Restart(c) ==
  /\ pc[c] = "down"
  /\ Goto(c, "idle")
  /\ UNCHANGED <<groupVars, cur, counterVars, outcomeVars, budgetVars>>

-------------------------------------------------------------------------------
Step(c) ==
  \/ HandleOK(c) \/ HandleError(c) \/ Inc(c) \/ IncFallback(c)
  \/ Commit(c) \/ Clear(c)
  \/ PublishDeadLetter(c) \/ DeadClear(c) \/ DeadCommit(c)
  \/ DeadLetterError(c)

Next == \E c \in Consumers :
          Assign(c) \/ Fetch(c) \/ Step(c) \/ Stop(c) \/ Restart(c)

Spec == Init /\ [][Next]_vars

(* Consumers keep running and are restarted; the group assigns a partition *)
(* that nobody has.                                                        *)
Fairness ==
  /\ \A c \in Consumers :
       /\ WF_vars(Fetch(c))
       /\ WF_vars(Step(c))
       /\ WF_vars(Restart(c))
  /\ WF_vars(\E c \in Consumers : assigned = NoConsumer /\ Assign(c))

FairSpec == Spec /\ Fairness

-------------------------------------------------------------------------------
(* Types of all variables.                                                 *)
TypeOK ==
  /\ committed \in 0 .. Length
  /\ assigned \in Consumers \cup {NoConsumer}
  /\ pos \in [Consumers -> 0 .. Length]
  /\ cur \in [Consumers -> Nat]
  /\ pc \in [Consumers -> PCs]
  /\ rows \in [Offsets -> Nat]
  /\ mem \in [Consumers -> [Offsets -> Nat]]
  /\ handled \in SUBSET Offsets
  /\ dead \in SUBSET Offsets
  /\ failures \in [Offsets -> Nat]
  /\ resets \in [Offsets -> Nat]
  /\ stops \in 0 .. MaxStops
  /\ moves \in 0 .. MaxMoves
  /\ blips \in 0 .. MaxBlips

Settled == handled \cup dead

(* At-least-once: whatever crashes, rebalances and late commits happen, no *)
(* offset is committed past a message that was neither handled nor         *)
(* dead-lettered.                                                          *)
NothingSkipped == \A o \in Offsets : o < committed => o \in Settled

(* EVENT-FLOW.md, sequential processing: no process starts a message while *)
(* an earlier one of the partition is not settled, so that the messages of *)
(* one recording take effect in order.                                     *)
InOrder ==
  \A c \in Consumers : pc[c] \in Busy =>
    \A o \in Offsets : o < cur[c] => o \in Settled

(* A message is dead-lettered only after MaxAttempts real failures (or at  *)
(* once when it is not the event), although several processes, the table   *)
(* and their memories count, and counters outlive a process.               *)
NoEarlyDeadLetter ==
  \A o \in dead : o \in Mistyped \/ failures[o] >= MaxAttempts

(* ADR 0034: the counter outlives its process.  MaxAttempts - 1 retries    *)
(* are all that one life of the counter gives a message, however often the *)
(* partition is read again; a stop, a rebalance or a failure of the        *)
(* counter table costs one more call, never a fresh set of retries.  A     *)
(* message that is not settled has had one life of its counter; a settled  *)
(* one starts another at most once per reading.                            *)
RetriesBounded ==
  \A o \in Offsets :
    /\ failures[o] <= (MaxAttempts - 1) * (1 + resets[o])
                        + (1 + stops + moves) + blips
    /\ resets[o] <= IF o \in Settled THEN 1 + stops + moves ELSE 0

(* Every message in front of the first garbled one is handled or           *)
(* dead-lettered in the end: neither poison nor crashes nor rebalances     *)
(* nor a garbled message behind it block the partition.                    *)
AllSettled ==
  <>({o \in Offsets : \A g \in Garbled : o < g} \subseteq Settled)

(* ADR 0023: a payload that is not JSON is dead-lettered too.              *)
GarbledDeadLettered == \A o \in Garbled : <>(o \in dead)
================================================================================
