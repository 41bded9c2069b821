------------------------------ MODULE MediaClaim ------------------------------
(***************************************************************************)
(* The media worker: consumption of RecordingUploaded, the expiring        *)
(* processing lease (processing_owner, processing_expires_at), ffmpeg      *)
(* extraction with a heartbeat goroutine, the owner-gated commits, and the *)
(* in-place retries with dead-lettering around the handler.                *)
(*                                                                         *)
(*   internal/media/service/service.go          HandleUploaded, extract    *)
(*   internal/media/adapter/postgres/store.go   the SQL statements         *)
(*   internal/media/adapter/kafka/consumer.go   Run, deadLetter            *)
(*   internal/platform/kafka/handle.go          HandleWithRetries          *)
(*                                                                         *)
(* Every SQL statement (or transaction) is one atomic step; everything     *)
(* between two statements can be interleaved with the other workers, the   *)
(* API, the clock, a crash and a shutdown.                                 *)
(*                                                                         *)
(* Time.  ttl[r] is processing_expires_at minus the current time, so that  *)
(* it runs down as the clock ticks and the state space stays finite.  The  *)
(* instant a worker reads with s.now() differs from database time by some  *)
(* d in Skews: clocks of different hosts are not equal, and the value is   *)
(* read before the statement that uses it executes.                        *)
(*                                                                         *)
(* Kafka (external) is a queue per recording: RecordingUploaded is keyed   *)
(* by recording id.  Any idle worker may be handed the first uncommitted   *)
(* event, also while another worker still handles it, which is what a      *)
(* consumer group rebalance does.                                          *)
(***************************************************************************)
EXTENDS Integers

CONSTANTS Recordings,   \* recording ids
          Workers,      \* worker identities (ClaimConfig.Owner)
          NoWorker,     \* processing_owner IS NULL
          NoRecording,  \* a worker that handles no event
          Lease,        \* ClaimConfig.Lease in clock ticks
          MaxLag,       \* longest time between two heartbeats of a live job
          MaxSkew,      \* largest difference between s.now() and real time
          MaxAttempts,  \* KafkaRetryConfig.MaxAttempts
          MaxSent,      \* bound: RecordingUploaded events per recording
          MaxStops      \* bound: worker crashes and shutdowns

ASSUME ConstantsAssumption ==
  /\ Lease \in Nat \ {0}
  /\ MaxLag \in Nat \ {0}
  /\ MaxSkew \in Nat
  /\ MaxAttempts \in Nat \ {0}
  /\ MaxSent \in Nat
  /\ MaxStops \in Nat
  /\ NoWorker \notin Workers
  /\ NoRecording \notin Recordings

VARIABLES
  status,     \* recordings.status
  owner,      \* recordings.processing_owner
  ttl,        \* recordings.processing_expires_at, relative to the clock
  arts,       \* recordings with rows in media_artifacts
  frames,     \* recordings with a FramesExtracted row in the outbox
  sent,       \* RecordingUploaded events emitted per recording
  committed,  \* consumer group offset per recording
  attempts,   \* kafka_retry_attempts, per recording and offset
  dlq,        \* recordings with a dead-lettered event
  pc,         \* where each worker is
  job,        \* the recording of the event a worker handles
  off,        \* the offset of that event
  lost,       \* the job context was cancelled with ErrClaimLost
  age,        \* ticks since a working job last claimed or renewed
  stops       \* crashes and shutdowns so far

rowVars   == <<status, owner, ttl>>
kafkaVars == <<sent, committed, attempts, dlq>>
jobVars   == <<job, off, lost, age>>
vars == <<status, owner, ttl, arts, frames, sent, committed, attempts, dlq,
          pc, job, off, lost, age, stops>>

Offsets == 0 .. MaxSent - 1

Skews == -MaxSkew .. MaxSkew

(* Processing steps: extract() running, extract() before FinalizeReady.    *)
Working == {"work", "final"}

(* Steps with a heartbeat: also after extract() returned an error, until   *)
(* HandleUploaded has looked at the cause of the job context.              *)
Beating == Working \cup {"cause"}

PCs == {"down", "idle", "get", "list", "publish", "claim", "reject", "ok",
        "fail"} \cup Beating

Least(a, b) == IF a <= b THEN a ELSE b
Greatest(a, b) == IF a >= b THEN a ELSE b

-------------------------------------------------------------------------------
(* The row as the SQL of store.go and postgres.go sees it.                 *)

Exists(r) == status[r] # "DELETED"

Owns(w, r) == Exists(r) /\ owner[r] = w

(* Mutants of Claimable: processing_expires_at is compared with expiresAt  *)
(* instead of at; READY is not excluded.                                   *)
ClaimableBeforeExpiry(w, r, d) ==
  /\ status[r] \in {"UPLOADED", "FAILED", "PROCESSING"}
  /\ status[r] = "PROCESSING" => owner[r] = w \/ ttl[r] <= Lease + d

ClaimableReady(w, r, d) ==
  /\ status[r] \in {"UPLOADED", "FAILED", "PROCESSING", "READY"}
  /\ status[r] = "PROCESSING" => owner[r] = w \/ ttl[r] <= d

(* WHERE clause of ClaimProcessing, evaluated with at = real time + d.     *)
Claimable(w, r, d) ==
  /\ status[r] \in {"UPLOADED", "FAILED", "PROCESSING"}
  /\ \/ status[r] # "PROCESSING"
     \/ owner[r] = NoWorker
     \/ owner[r] = w
     \/ ttl[r] <= d

SetRow(r, s, o, t) ==
  /\ status' = [status EXCEPT ![r] = s]
  /\ owner' = [owner EXCEPT ![r] = o]
  /\ ttl' = [ttl EXCEPT ![r] = t]

Goto(w, l) == pc' = [pc EXCEPT ![w] = l]

-------------------------------------------------------------------------------
Init ==
  /\ status = [r \in Recordings |-> "UPLOADING"]
  /\ owner = [r \in Recordings |-> NoWorker]
  /\ ttl = [r \in Recordings |-> 0]
  /\ arts = {}
  /\ frames = {}
  /\ sent = [r \in Recordings |-> 0]
  /\ committed = [r \in Recordings |-> 0]
  /\ attempts = [r \in Recordings |-> [o \in Offsets |-> 0]]
  /\ dlq = {}
  /\ pc = [w \in Workers |-> "idle"]
  /\ job = [w \in Workers |-> NoRecording]
  /\ off = [w \in Workers |-> 0]
  /\ lost = [w \in Workers |-> FALSE]
  /\ age = [w \in Workers |-> 0]
  /\ stops = 0

-------------------------------------------------------------------------------
(* The API side, as far as it touches the row or emits events.             *)

Emit(r) == /\ sent[r] < MaxSent
           /\ sent' = [sent EXCEPT ![r] = @ + 1]

(* Complete: UPLOADING -> UPLOADED with the event, in one transaction.     *)
CompleteUpload(r) ==
  /\ status[r] = "UPLOADING"
  /\ Emit(r)
  /\ status' = [status EXCEPT ![r] = "UPLOADED"]
  /\ UNCHANGED <<owner, ttl, arts, frames, committed, attempts, dlq, pc,
                 jobVars, stops>>

(* Reprocess: the event alone is emitted again, the row is not touched.    *)
Reprocess(r) ==
  /\ status[r] \in {"FAILED", "UPLOADED", "PROCESSING", "READY"}
  /\ Emit(r)
  /\ UNCHANGED <<rowVars, arts, frames, committed, attempts, dlq, pc, jobVars,
                 stops>>

(* The outbox relay publishes a row again after a failed claim.            *)
RelayDuplicate(r) ==
  /\ sent[r] > 0
  /\ Emit(r)
  /\ UNCHANGED <<rowVars, arts, frames, committed, attempts, dlq, pc, jobVars,
                 stops>>

(* Delete: the row goes, media_artifacts with it (ON DELETE CASCADE); the  *)
(* outbox has no foreign key.                                              *)
DeleteRecording(r) ==
  /\ Exists(r)
  /\ SetRow(r, "DELETED", NoWorker, 0)
  /\ arts' = arts \ {r}
  /\ UNCHANGED <<frames, kafkaVars, pc, jobVars, stops>>

-------------------------------------------------------------------------------
(* One delivery.                                                           *)

(* FetchMessage: the first uncommitted event of r.                         *)
Fetch(w, r) ==
  /\ pc[w] = "idle"
  /\ committed[r] < sent[r]
  /\ Goto(w, "get")
  /\ job' = [job EXCEPT ![w] = r]
  /\ off' = [off EXCEPT ![w] = committed[r]]
  /\ UNCHANGED <<rowVars, arts, frames, kafkaVars, lost, age, stops>>

(* store.Get and the branches on the status it read; a row that is missing *)
(* or UPLOADING makes the handler fail.                                    *)
Get(w) ==
  /\ pc[w] = "get"
  /\ \/ /\ status[job[w]] = "READY"
        /\ Goto(w, "list")
     \/ /\ status[job[w]] \in {"UPLOADED", "PROCESSING", "FAILED"}
        /\ Goto(w, "claim")
     \/ /\ status[job[w]] \in {"UPLOADING", "DELETED"}
        /\ Goto(w, "fail")
  /\ UNCHANGED <<rowVars, arts, frames, kafkaVars, jobVars, stops>>

(* ListArtifacts of a READY recording: nothing left to do without any.     *)
ListArtifacts(w) ==
  /\ pc[w] = "list"
  /\ \/ job[w] \in arts /\ Goto(w, "publish")
     \/ job[w] \notin arts /\ Goto(w, "ok")
  /\ UNCHANGED <<rowVars, arts, frames, kafkaVars, jobVars, stops>>

(* publishFramesExtracted: the event is emitted again, no claim involved.  *)
PublishFramesExtracted(w) ==
  /\ pc[w] = "publish"
  /\ frames' = frames \cup {job[w]}
  /\ Goto(w, "ok")
  /\ UNCHANGED <<rowVars, arts, kafkaVars, jobVars, stops>>

(* ClaimProcessing: one conditional UPDATE, at and expiresAt from one read *)
(* of the clock.                                                           *)
ClaimProcessing(w) ==
  /\ pc[w] = "claim"
  /\ \E d \in Skews :
       /\ Claimable(w, job[w], d)
       /\ SetRow(job[w], "PROCESSING", w, Lease + d)
  /\ Goto(w, "work")
  /\ lost' = [lost EXCEPT ![w] = FALSE]
  /\ age' = [age EXCEPT ![w] = 0]
  /\ UNCHANGED <<arts, frames, kafkaVars, job, off, stops>>

(* ... which updates no row.                                               *)
ClaimRefused(w) ==
  /\ pc[w] = "claim"
  /\ \E d \in Skews : ~Claimable(w, job[w], d)
  /\ Goto(w, "reject")
  /\ UNCHANGED <<rowVars, arts, frames, kafkaVars, jobVars, stops>>

(* A live claim, as the second statement of claimRejection sees it.        *)
ClaimHeld(r, d) ==
  status[r] = "PROCESSING" /\ owner[r] # NoWorker /\ ttl[r] > d

(* claimRejection: a live claim is ErrClaimHeld, which the consumer turns  *)
(* into success; ErrNotFound and ErrConflict are errors.                   *)
ClaimRejection(w) ==
  /\ pc[w] = "reject"
  /\ \E d \in Skews :
       \/ ClaimHeld(job[w], d) /\ Goto(w, "ok")
       \/ ~ClaimHeld(job[w], d) /\ Goto(w, "fail")
  /\ UNCHANGED <<rowVars, arts, frames, kafkaVars, jobVars, stops>>

(* A statement before the claim is held errs: the handler returns it.      *)
StoreError(w) ==
  /\ pc[w] \in {"get", "list", "publish", "claim", "reject"}
  /\ Goto(w, "fail")
  /\ UNCHANGED <<rowVars, arts, frames, kafkaVars, jobVars, stops>>

(* One tick of renewClaimUntilDone.  A transient error changes nothing.    *)
Renew(w) ==
  /\ pc[w] \in Beating
  /\ ~lost[w]
  /\ Owns(w, job[w]) /\ status[job[w]] = "PROCESSING"
  /\ \E d \in Skews : ttl' = [ttl EXCEPT ![job[w]] = Lease + d]
  /\ age' = [age EXCEPT ![w] = 0]
  /\ UNCHANGED <<status, owner, arts, frames, kafkaVars, pc, job, off, lost,
                 stops>>

(* ... or it updates no row: the job context is cancelled.                 *)
RenewLost(w) ==
  /\ pc[w] \in Beating
  /\ ~lost[w]
  /\ ~(Owns(w, job[w]) /\ status[job[w]] = "PROCESSING")
  /\ lost' = [lost EXCEPT ![w] = TRUE]
  /\ UNCHANGED <<rowVars, arts, frames, kafkaVars, pc, job, off, age, stops>>

(* Mutants of MarkFailed: the claim columns are not cleared; the WHERE     *)
(* clause does not name the owner.                                         *)
MarkFailedKeepsClaim(w) ==
  IF Owns(w, job[w])
  THEN SetRow(job[w], "FAILED", owner[job[w]], ttl[job[w]])
  ELSE UNCHANGED rowVars

MarkFailedUngated(w) ==
  IF Exists(job[w])
  THEN SetRow(job[w], "FAILED", NoWorker, 0)
  ELSE UNCHANGED rowVars

(* MarkFailed: owner-gated release.                                        *)
MarkFailed(w) ==
  IF Owns(w, job[w])
  THEN SetRow(job[w], "FAILED", NoWorker, 0)
  ELSE UNCHANGED rowVars

(* extract: frames and thumbnail are in the object store.                  *)
ExtractDone(w) ==
  /\ pc[w] = "work"
  /\ ~lost[w]
  /\ Goto(w, "final")
  /\ UNCHANGED <<rowVars, arts, frames, kafkaVars, jobVars, stops>>

(* extract returned; only a working job counts its silence.                *)
Returns(w, l) == Goto(w, l) /\ age' = [age EXCEPT ![w] = 0]

(* extract returns an error.  Download, ffmpeg and upload errors, and a    *)
(* cancelled job context, release the claim with fail(); temporary         *)
(* directory errors do not, and fail() ignores a MarkFailed that errs.     *)
ExtractFail(w) ==
  /\ pc[w] = "work"
  /\ MarkFailed(w) \/ UNCHANGED rowVars
  /\ Returns(w, "cause")
  /\ UNCHANGED <<arts, frames, kafkaVars, job, off, lost, stops>>

(* FinalizeReady: READY, the artifacts and FramesExtracted in one          *)
(* transaction, only while the row is still ours.  The reply to a          *)
(* successful COMMIT may be lost.                                          *)
FinalizeReady(w) ==
  /\ pc[w] = "final"
  /\ ~lost[w]
  /\ Owns(w, job[w])
  /\ SetRow(job[w], "READY", NoWorker, 0)
  /\ arts' = arts \cup {job[w]}
  /\ frames' = frames \cup {job[w]}
  /\ Returns(w, "ok") \/ Returns(w, "cause")
  /\ UNCHANGED <<kafkaVars, job, off, lost, stops>>

(* Mutant of FinalizeFail: FramesExtracted is inserted outside the         *)
(* transaction and survives the rollback.                                  *)
FinalizeFailKeepsEvent(w) ==
  /\ pc[w] = "final"
  /\ frames' = frames \cup {job[w]}
  /\ Returns(w, "cause")
  /\ UNCHANGED <<rowVars, arts, kafkaVars, job, off, lost, stops>>

(* FinalizeReady finds the claim gone (ErrClaimLost, done for the          *)
(* consumer), or errs and rolls back without releasing the claim.          *)
FinalizeFail(w) ==
  /\ pc[w] = "final"
  /\ \/ ~Owns(w, job[w]) /\ Returns(w, "ok")
     \/ Returns(w, "cause")
  /\ UNCHANGED <<rowVars, arts, frames, kafkaVars, job, off, lost, stops>>

(* HandleUploaded, after extract returned an error: when a heartbeat has   *)
(* cancelled the job context for a lost claim, that cause is returned,     *)
(* which counts as done.  The heartbeat also takes the claim that fail()   *)
(* released, or that FinalizeReady cleared before its reply was lost, for  *)
(* a lost one.                                                             *)
ReturnCause(w) ==
  /\ pc[w] = "cause"
  /\ \/ lost[w] /\ Goto(w, "ok")
     \/ ~lost[w] /\ Goto(w, "fail")
  /\ UNCHANGED <<rowVars, arts, frames, kafkaVars, jobVars, stops>>

-------------------------------------------------------------------------------
(* HandleWithRetries around the handler.                                   *)

(* CommitMessages.  The group accepts any offset, so the commit of a slow  *)
(* worker may rewind the position of a faster one (redelivery).            *)
Commit(w) == committed' = [committed EXCEPT ![job[w]] = off[w] + 1]

Finish(w) ==
  /\ Goto(w, "idle")
  /\ job' = [job EXCEPT ![w] = NoRecording]
  /\ off' = [off EXCEPT ![w] = 0]
  /\ lost' = [lost EXCEPT ![w] = FALSE]
  /\ age' = [age EXCEPT ![w] = 0]

(* Mutant of CommitMessage: the offset of a handled event is not committed. *)
CommitMessageForgotten(w) ==
  /\ pc[w] = "ok"
  /\ attempts' = [attempts EXCEPT ![job[w]][off[w]] = 0]
  /\ Finish(w)
  /\ UNCHANGED <<rowVars, arts, frames, sent, committed, dlq, stops>>

(* The handler returned nil: commit, then clear the attempts.              *)
CommitMessage(w) ==
  /\ pc[w] = "ok"
  /\ Commit(w)
  /\ attempts' = [attempts EXCEPT ![job[w]][off[w]] = 0]
  /\ Finish(w)
  /\ UNCHANGED <<rowVars, arts, frames, sent, dlq, stops>>

(* The handler failed: count the attempt, then handle the same event again *)
(* after the backoff ...                                                   *)
Retry(w) ==
  /\ pc[w] = "fail"
  /\ attempts[job[w]][off[w]] + 1 < MaxAttempts
  /\ attempts' = [attempts EXCEPT ![job[w]][off[w]] = @ + 1]
  /\ Goto(w, "get")
  /\ lost' = [lost EXCEPT ![w] = FALSE]
  /\ age' = [age EXCEPT ![w] = 0]
  /\ UNCHANGED <<rowVars, arts, frames, sent, committed, dlq, job, off, stops>>

(* Mutant of DeadLetter: the event is dropped at the limit.                *)
DeadLetterDropped(w) ==
  /\ pc[w] = "fail"
  /\ attempts[job[w]][off[w]] + 1 >= MaxAttempts
  /\ attempts' = [attempts EXCEPT ![job[w]][off[w]] = 0]
  /\ Commit(w)
  /\ Finish(w)
  /\ UNCHANGED <<rowVars, arts, frames, sent, dlq, stops>>

(* ... or, at the limit, dead-letter it, clear the attempts and commit.    *)
DeadLetter(w) ==
  /\ pc[w] = "fail"
  /\ attempts[job[w]][off[w]] + 1 >= MaxAttempts
  /\ dlq' = dlq \cup {job[w]}
  /\ attempts' = [attempts EXCEPT ![job[w]][off[w]] = 0]
  /\ Commit(w)
  /\ Finish(w)
  /\ UNCHANGED <<rowVars, arts, frames, sent, stops>>

-------------------------------------------------------------------------------
(* Processes and time.                                                     *)

Stop(w) ==
  /\ pc[w] # "down"
  /\ stops < MaxStops
  /\ stops' = stops + 1
  /\ pc' = [pc EXCEPT ![w] = "down"]
  /\ job' = [job EXCEPT ![w] = NoRecording]
  /\ off' = [off EXCEPT ![w] = 0]
  /\ lost' = [lost EXCEPT ![w] = FALSE]
  /\ age' = [age EXCEPT ![w] = 0]

(* The process dies: the row keeps its claim, the event is uncommitted.    *)
Crash(w) ==
  /\ Stop(w)
  /\ UNCHANGED <<rowVars, arts, frames, kafkaVars>>

(* Shutdown: the root context is cancelled.  A running extraction releases *)
(* its claim, every unfinished handler returns an error that is counted as *)
(* an attempt (a job that lost its claim before returns that instead), and *)
(* nothing is committed because SleepCtx, CommitMessages and the           *)
(* dead-letter publish all see the cancelled context.  Idle and finished   *)
(* workers stop as in Crash.                                               *)
Shutdown(w) ==
  /\ pc[w] \notin {"down", "idle", "ok"}
  /\ Stop(w)
  /\ \/ /\ pc[w] \in Beating /\ lost[w]
        /\ UNCHANGED attempts
     \/ /\ ~(pc[w] \in Beating /\ lost[w])
        /\ attempts' = [attempts EXCEPT ![job[w]][off[w]] = @ + 1]
  /\ \/ pc[w] = "work" /\ MarkFailed(w)
     \/ pc[w] # "work" /\ UNCHANGED rowVars
  /\ UNCHANGED <<arts, frames, sent, committed, dlq>>

(* Restart with the same identity (host name and pid 1 in a container).    *)
Restart(w) ==
  /\ pc[w] = "down"
  /\ Goto(w, "idle")
  /\ UNCHANGED <<rowVars, arts, frames, kafkaVars, jobVars, stops>>

(* The clock.  A job that still believes in its claim sends a heartbeat at *)
(* least every MaxLag ticks; MaxLag >= Lease lets it stall for good.       *)
Tick ==
  /\ \A w \in Workers : pc[w] \in Working /\ ~lost[w] =>
       age[w] < MaxLag \/ MaxLag >= Lease
  /\ ttl' = [r \in Recordings |->
               IF owner[r] = NoWorker THEN 0 ELSE Greatest(ttl[r] - 1, -MaxSkew)]
  /\ age' = [w \in Workers |->
               IF pc[w] \in Working THEN Least(age[w] + 1, Lease) ELSE 0]
  /\ UNCHANGED <<status, owner, arts, frames, kafkaVars, pc, job, off, lost,
                 stops>>

-------------------------------------------------------------------------------
(* What the worker process does by itself once it holds an event.          *)
Step(w) ==
  \/ Get(w) \/ ListArtifacts(w) \/ PublishFramesExtracted(w)
  \/ ClaimProcessing(w) \/ ClaimRefused(w) \/ ClaimRejection(w)
  \/ StoreError(w)
  \/ ExtractDone(w) \/ ExtractFail(w) \/ FinalizeReady(w) \/ FinalizeFail(w)
  \/ ReturnCause(w) \/ CommitMessage(w) \/ Retry(w) \/ DeadLetter(w)

Next ==
  \/ \E r \in Recordings :
       \/ CompleteUpload(r) \/ Reprocess(r) \/ RelayDuplicate(r)
       \/ DeleteRecording(r)
  \/ \E w \in Workers :
       \/ \E r \in Recordings : Fetch(w, r)
       \/ Step(w) \/ Renew(w) \/ RenewLost(w)
       \/ Crash(w) \/ Shutdown(w) \/ Restart(w)
  \/ Tick

Spec == Init /\ [][Next]_vars

(* The consumers and their heartbeats are goroutines that keep running,    *)
(* the clock advances, and a stopped worker is restarted by its            *)
(* supervisor.  Nothing is assumed of users, crashes or rebalances.        *)
Fairness ==
  /\ \A w \in Workers :
       /\ WF_vars(\E r \in Recordings : Fetch(w, r))
       /\ WF_vars(Step(w))
       /\ WF_vars(Renew(w) \/ RenewLost(w))
       /\ WF_vars(Restart(w))
  /\ WF_vars(Tick)

FairSpec == Spec /\ Fairness

-------------------------------------------------------------------------------
(* Types of all variables.                                                 *)
TypeOK ==
  /\ status \in [Recordings -> {"UPLOADING", "UPLOADED", "PROCESSING",
                                "READY", "FAILED", "DELETED"}]
  /\ owner \in [Recordings -> Workers \cup {NoWorker}]
  /\ ttl \in [Recordings -> Int]
  /\ arts \in SUBSET Recordings
  /\ frames \in SUBSET Recordings
  /\ sent \in [Recordings -> 0 .. MaxSent]
  /\ committed \in [Recordings -> 0 .. MaxSent]
  /\ attempts \in [Recordings -> [Offsets -> Nat]]
  /\ dlq \in SUBSET Recordings
  /\ pc \in [Workers -> PCs]
  /\ job \in [Workers -> Recordings \cup {NoRecording}]
  /\ off \in [Workers -> Nat]
  /\ lost \in [Workers -> BOOLEAN]
  /\ age \in [Workers -> 0 .. Lease]
  /\ stops \in 0 .. MaxStops

(* Migration 0008: a claim exists exactly while the recording is           *)
(* PROCESSING, whatever order claims, releases, thefts, deletions and      *)
(* crashes happen in; a settled row never looks like a live lease.         *)
ClaimIffProcessing ==
  \A r \in Recordings : (owner[r] # NoWorker) <=> (status[r] = "PROCESSING")

(* A job loses its recording to another worker only if its heartbeat was   *)
(* silent for a whole lease, less twice the clock error: the thief's at    *)
(* and the holder's expiresAt come from different clocks.                  *)
LostOnlyAfterStall ==
  \A w \in Workers :
    pc[w] \in Working /\ Exists(job[w]) /\ owner[job[w]] # w
      => age[w] >= Lease - 2 * MaxSkew

(* One ffmpeg run per recording (ADR 0025): with heartbeats that keep up   *)
(* and a lease longer than their interval plus twice the clock error, no   *)
(* two workers extract the same recording at the same time.                *)
ExclusiveExtraction ==
  MaxLag + 2 * MaxSkew < Lease =>
    \A w, x \in Workers :
      /\ pc[w] \in Working /\ ~lost[w]
      /\ pc[x] \in Working /\ ~lost[x]
      /\ job[w] = job[x]
      => w = x

(* FramesExtracted is in the outbox exactly when the media work of the     *)
(* recording was committed: never for one that failed, is being processed  *)
(* by a new owner or was never finished, and never missing for one whose   *)
(* artifacts the API shows.                                                *)
FramesEventIffReady ==
  \A r \in Recordings :
    /\ r \in frames => status[r] \in {"READY", "DELETED"}
    /\ status[r] = "READY" => r \in frames /\ r \in arts

(* STATE-MACHINES.md: only the current owner may move the recording to     *)
(* READY or FAILED, and a job that lost its claim or belongs to a stopped  *)
(* process never does.                                                     *)
OwnerSettles ==
  [][\A r \in Recordings :
       status[r] # status'[r] /\ status'[r] \in {"READY", "FAILED"}
         => \E w \in Workers :
              /\ owner[r] = w
              /\ job[w] = r
              /\ pc[w] \in Working
              /\ pc'[w] # pc[w]]_vars

Lifecycle == INSTANCE RecordingLifecycle

(* The status column moves only along domain.allowed although every write  *)
(* is raw SQL: refinement of the life cycle.                               *)
LifecycleSpec == Lifecycle!Spec

(* Until a process crashes or is shut down, every completed upload ends    *)
(* READY, FAILED or deleted, or an operator finds its event in the         *)
(* dead-letter topic: rebalances, duplicates, errors and stalls alone      *)
(* strand nothing.                                                         *)
Settles ==
  \A r \in Recordings :
    status[r] \in {"UPLOADED", "PROCESSING"} ~>
      \/ status[r] \notin {"UPLOADED", "PROCESSING"}
      \/ r \in dlq
      \/ stops > 0

(* Every event is consumed in the end, through retries, lost claims and    *)
(* restarts; no poison event or held claim blocks the partition for good.  *)
Drains == \A r \in Recordings : []<>(committed[r] = sent[r])

(* ADR 0025: stuck PROCESSING recovers on its own after a crash, with no   *)
(* operator action.                                                        *)
RecoversOnItsOwn ==
  \A r \in Recordings :
    status[r] = "PROCESSING" ~> status[r] # "PROCESSING" \/ r \in dlq
===============================================================================
