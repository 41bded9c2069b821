-------------------------------- MODULE Uploads --------------------------------
(***************************************************************************)
(* The upload service: a recording row in Postgres, its bytes in the       *)
(* object store and its RecordingUploaded events in the outbox, written by *)
(* concurrent API requests, by clients that PUT to a presigned URL, by the *)
(* media worker and by the garbage collector of abandoned uploads.         *)
(*                                                                         *)
(*   internal/uploads/service/service.go            the operations         *)
(*   internal/uploads/adapter/postgres/postgres.go  the SQL statements     *)
(*   internal/uploads/adapter/minio/storage.go      the object store calls *)
(*   cmd/worker/main.go                             the collector's loop   *)
(*                                                                         *)
(* The store and Postgres share no transaction: every SQL statement,       *)
(* transaction and store call is a step of its own, and a request can be   *)
(* cut off between any two (client gone, deadline, process killed).        *)
(*                                                                         *)
(* Membership, ownership and project checks, and requests that are refused *)
(* without changing anything, are stuttering steps.  A presigned URL is    *)
(* usable from its creation on: its expiry only takes behaviours away.     *)
(***************************************************************************)
EXTENDS Integers, FiniteSets

CONSTANTS Recordings,   \* recording ids (fresh UUIDs)
          Requests,     \* API requests in flight
          Sweepers,     \* collector goroutines, one per worker process
          NoRecording,  \* a request or sweeper that handles none
          Batch,        \* LIMIT of ListAbandonedUploading
          MaxEvents,    \* bound: outbox rows per recording
          MaxFaults     \* bound: sweeps cut off and failed object deletes

ASSUME ConstantsAssumption ==
  /\ NoRecording \notin Recordings
  /\ Batch \in Nat \ {0}
  /\ MaxEvents \in Nat \ {0}
  /\ MaxFaults \in Nat

VARIABLES
  status,   \* recordings.status, or NONE / DELETED when there is no row
  sized,    \* recordings with a byte_size
  aged,     \* recordings with updated_at before the collector's cutoff
  source,   \* the source object: absent, good, or bad (size or type)
  frames,   \* recordings with frame or thumbnail objects
  urls,     \* recordings with a presigned PUT URL
  done,     \* completions: outbox rows written by CompleteWithOutbox
  events,   \* all RecordingUploaded rows of the outbox
  acked,    \* recordings whose Complete was answered with success
  jobs,     \* recordings with an extraction running
  pc,       \* where each request is
  req,      \* the recording it is about
  batch,    \* rows a sweeper listed and has not visited
  victim,   \* the row it deleted whose object is to be removed
  excused,  \* recordings written to after their deletion, or whose cleanup failed
  faults    \* faults so far

rowVars   == <<status, sized, aged>>
storeVars == <<source, frames, urls>>
queueVars == <<done, events, acked>>
reqVars   == <<pc, req>>
sweepVars == <<batch, victim>>
vars == <<status, sized, aged, source, frames, urls, done, events, acked, jobs,
          pc, req, batch, victim, excused, faults>>

(* IsUploadedOrBeyond; and every status that lies behind a completion.     *)
UploadedOrBeyond == {"UPLOADED", "PROCESSING", "READY"}
Beyond == UploadedOrBeyond \cup {"FAILED"}

Row == Beyond \cup {"UPLOADING"}

PCs == {"idle", "presign", "stat", "commit", "reread", "insert", "remove",
        "cleanup"}

SetStatus(r, s) == status' = [status EXCEPT ![r] = s]

Begin(q, r, l) == /\ pc' = [pc EXCEPT ![q] = l]
                  /\ req' = [req EXCEPT ![q] = r]

Return(q) == Begin(q, NoRecording, "idle")

Fault == faults < MaxFaults /\ faults' = faults + 1

Init ==
  /\ status = [r \in Recordings |-> "NONE"]
  /\ sized = {} /\ aged = {}
  /\ source = [r \in Recordings |-> "absent"]
  /\ frames = {} /\ urls = {}
  /\ done = [r \in Recordings |-> 0]
  /\ events = [r \in Recordings |-> 0]
  /\ acked = {} /\ jobs = {}
  /\ pc = [q \in Requests |-> "idle"]
  /\ req = [q \in Requests |-> NoRecording]
  /\ batch = [s \in Sweepers |-> {}]
  /\ victim = [s \in Sweepers |-> NoRecording]
  /\ excused = {} /\ faults = 0

-------------------------------------------------------------------------------
(* Create: the row first ...                                               *)
Create(q, r) ==
  /\ pc[q] = "idle" /\ status[r] = "NONE"
  /\ SetStatus(r, "UPLOADING")
  /\ Begin(q, r, "presign")
  /\ UNCHANGED <<sized, aged, storeVars, queueVars, jobs, sweepVars, excused,
                 faults>>

(* ... then the URL.  When PresignPut fails the row stays (see Abort).     *)
Presign(q) ==
  /\ pc[q] = "presign"
  /\ urls' = urls \cup {req[q]}
  /\ Return(q)
  /\ UNCHANGED <<rowVars, source, frames, queueVars, jobs, sweepVars, excused,
                 faults>>

(* The client's PUT lands, possibly again, possibly long after.            *)
Put(r, bytes) ==
  /\ r \in urls
  /\ source' = [source EXCEPT ![r] = bytes]
  /\ excused' = IF status[r] = "DELETED" THEN excused \cup {r} ELSE excused
  /\ UNCHANGED <<rowVars, frames, urls, queueVars, jobs, reqVars, sweepVars,
                 faults>>

-------------------------------------------------------------------------------
(* Complete reads the row.  Idempotent when it was completed before; an    *)
(* error for a FAILED or missing recording.                                *)
Complete(q, r) ==
  /\ pc[q] = "idle"
  /\ \/ /\ status[r] \in UploadedOrBeyond
        /\ acked' = acked \cup {r}
        /\ UNCHANGED reqVars
     \/ /\ status[r] = "UPLOADING"
        /\ Begin(q, r, "stat")
        /\ UNCHANGED acked
  /\ UNCHANGED <<rowVars, storeVars, done, events, jobs, sweepVars, excused,
                 faults>>

(* Stat and the checks of size and content type; an error ends the request.*)
Stat(q) ==
  /\ pc[q] = "stat"
  /\ \/ source[req[q]] = "good" /\ Begin(q, req[q], "commit")
     \/ source[req[q]] # "good" /\ Return(q)
  /\ UNCHANGED <<rowVars, storeVars, queueVars, jobs, sweepVars, excused,
                 faults>>

(* Mutants of Completable: the UPDATE has no status condition and inserts  *)
(* its event again; the condition also admits FAILED.                      *)
CompletableAlways(r) == status[r] \in Row

CompletableFailed(r) == status[r] \in {"UPLOADING", "FAILED"}

(* WHERE clause of CompleteWithOutbox.                                     *)
Completable(r) == status[r] = "UPLOADING"

(* CompleteWithOutbox: the status and the event in one transaction, whose  *)
(* reply may be lost.                                                      *)
CompleteWithOutbox(q) ==
  LET r == req[q] IN
  /\ pc[q] = "commit"
  /\ Completable(r)
  /\ events[r] < MaxEvents
  /\ SetStatus(r, "UPLOADED")
  /\ sized' = sized \cup {r}
  /\ done' = [done EXCEPT ![r] = @ + 1]
  /\ events' = [events EXCEPT ![r] = @ + 1]
  /\ acked' = acked \cup {r} \/ UNCHANGED acked
  /\ Return(q)
  /\ UNCHANGED <<aged, storeVars, jobs, sweepVars, excused, faults>>

(* ... or it updates no row, and the row is read again.                    *)
CompleteRaced(q) ==
  /\ pc[q] = "commit"
  /\ ~Completable(req[q])
  /\ Begin(q, req[q], "reread")
  /\ UNCHANGED <<rowVars, storeVars, queueVars, jobs, sweepVars, excused,
                 faults>>

(* Whatever the second read returns is the answer, FAILED included.        *)
Reread(q) ==
  /\ pc[q] = "reread"
  /\ acked' = IF status[req[q]] \in Row THEN acked \cup {req[q]} ELSE acked
  /\ Return(q)
  /\ UNCHANGED <<rowVars, storeVars, done, events, jobs, sweepVars, excused,
                 faults>>

-------------------------------------------------------------------------------
(* Reprocess: read the row, check it ...                                   *)
Reprocess(q, r) ==
  /\ pc[q] = "idle"
  /\ status[r] \in Beyond /\ r \in sized
  /\ Begin(q, r, "insert")
  /\ UNCHANGED <<rowVars, storeVars, queueVars, jobs, sweepVars, excused,
                 faults>>

(* ... then insert the event, whatever became of the row.                  *)
InsertOutbox(q) ==
  /\ pc[q] = "insert"
  /\ events[req[q]] < MaxEvents
  /\ events' = [events EXCEPT ![req[q]] = @ + 1]
  /\ Return(q)
  /\ UNCHANGED <<rowVars, storeVars, done, acked, jobs, sweepVars, excused,
                 faults>>

-------------------------------------------------------------------------------
(* Delete: read the row ...                                                *)
Delete(q, r) ==
  /\ pc[q] = "idle" /\ status[r] \in Row
  /\ Begin(q, r, "remove")
  /\ UNCHANGED <<rowVars, storeVars, queueVars, jobs, sweepVars, excused,
                 faults>>

(* ... delete it (ErrNotFound when another request was faster) ...         *)
DeleteRow(q) ==
  /\ pc[q] = "remove"
  /\ \/ /\ status[req[q]] \in Row
        /\ SetStatus(req[q], "DELETED")
        /\ Begin(q, req[q], "cleanup")
     \/ /\ status[req[q]] \notin Row
        /\ UNCHANGED status
        /\ Return(q)
  /\ UNCHANGED <<sized, aged, storeVars, queueVars, jobs, sweepVars, excused,
                 faults>>

(* Mutant of DeletePrefix: only the source object is removed.              *)
DeleteSourceOnly(q) ==
  /\ pc[q] = "cleanup"
  /\ source' = [source EXCEPT ![req[q]] = "absent"]
  /\ Return(q)
  /\ UNCHANGED <<rowVars, frames, urls, queueVars, jobs, sweepVars, excused,
                 faults>>

(* ... and remove every object under its prefix.                           *)
DeletePrefix(q) ==
  /\ pc[q] = "cleanup"
  /\ source' = [source EXCEPT ![req[q]] = "absent"]
  /\ frames' = frames \ {req[q]}
  /\ Return(q)
  /\ UNCHANGED <<rowVars, urls, queueVars, jobs, sweepVars, excused, faults>>

(* DeletePrefix goes on after an object it cannot remove and its error is  *)
(* ignored: any of the objects may stay.                                   *)
DeletePrefixFails(q) ==
  /\ pc[q] = "cleanup"
  /\ Fault
  /\ source' = [source EXCEPT ![req[q]] = "absent"] \/ UNCHANGED source
  /\ frames' = frames \ {req[q]} \/ UNCHANGED frames
  /\ excused' = excused \cup {req[q]}
  /\ Return(q)
  /\ UNCHANGED <<rowVars, urls, queueVars, jobs, sweepVars>>

(* A request before its last step errs or is cut off.                      *)
Abort(q) ==
  /\ pc[q] \notin {"idle", "cleanup"}
  /\ Return(q)
  /\ UNCHANGED <<rowVars, storeVars, queueVars, jobs, sweepVars, excused,
                 faults>>

-------------------------------------------------------------------------------
(* SweepAbandonedUploads.                                                  *)

(* The cutoff passes the row's updated_at, which nothing moves while it is *)
(* UPLOADING.                                                              *)
Age(r) ==
  /\ status[r] = "UPLOADING" /\ r \notin aged
  /\ aged' = aged \cup {r}
  /\ UNCHANGED <<status, sized, storeVars, queueVars, jobs, reqVars, sweepVars,
                 excused, faults>>

(* Mutant of Abandoned: only sessions that received bytes are collected.   *)
AbandonedWithObject ==
  {r \in aged : status[r] = "UPLOADING" /\ source[r] # "absent"}

(* The WHERE clause of ListAbandonedUploading.                             *)
Abandoned == {r \in aged : status[r] = "UPLOADING"}

(* ListAbandonedUploading, at most Batch rows.                             *)
ListAbandoned(s) ==
  /\ batch[s] = {} /\ victim[s] = NoRecording
  /\ \E rows \in SUBSET Abandoned :
       /\ rows # {} /\ Cardinality(rows) <= Batch
       /\ batch' = [batch EXCEPT ![s] = rows]
  /\ UNCHANGED <<rowVars, storeVars, queueVars, jobs, reqVars, victim, excused,
                 faults>>

(* WHERE clause of DeleteIfStatus.                                         *)
Sweepable(r) == status[r] = "UPLOADING"

(* Mutant of SweepRow: the object of a row that was completed meanwhile   *)
(* is removed like that of a deleted one.                                  *)
SweepRowUnchecked(s) ==
  /\ victim[s] = NoRecording
  /\ \E r \in batch[s] :
       /\ batch' = [batch EXCEPT ![s] = @ \ {r}]
       /\ victim' = [victim EXCEPT ![s] = r]
       /\ \/ Sweepable(r) /\ SetStatus(r, "DELETED")
          \/ ~Sweepable(r) /\ UNCHANGED status
  /\ UNCHANGED <<sized, aged, storeVars, queueVars, jobs, reqVars, excused,
                 faults>>

(* DeleteIfStatus: a row that was completed meanwhile is skipped.          *)
SweepRow(s) ==
  /\ victim[s] = NoRecording
  /\ \E r \in batch[s] :
       /\ batch' = [batch EXCEPT ![s] = @ \ {r}]
       /\ \/ /\ Sweepable(r)
             /\ SetStatus(r, "DELETED")
             /\ victim' = [victim EXCEPT ![s] = r]
          \/ /\ ~Sweepable(r)
             /\ UNCHANGED <<status, victim>>
  /\ UNCHANGED <<sized, aged, storeVars, queueVars, jobs, reqVars, excused,
                 faults>>

(* Storage.Delete of the source key alone: no frames exist before          *)
(* completion.                                                             *)
SweepObject(s) ==
  /\ victim[s] # NoRecording
  /\ source' = [source EXCEPT ![victim[s]] = "absent"]
  /\ victim' = [victim EXCEPT ![s] = NoRecording]
  /\ UNCHANGED <<rowVars, frames, urls, queueVars, jobs, reqVars, batch,
                 excused, faults>>

(* Storage.Delete errs, which is ignored.                                  *)
SweepObjectFails(s) ==
  /\ victim[s] # NoRecording
  /\ Fault
  /\ victim' = [victim EXCEPT ![s] = NoRecording]
  /\ excused' = excused \cup {victim[s]}
  /\ UNCHANGED <<rowVars, storeVars, queueVars, jobs, reqVars, batch>>

(* DeleteIfStatus errs, or the worker stops: the rest waits for the next   *)
(* sweep.                                                                  *)
SweepCutOff(s) ==
  /\ batch[s] # {} \/ victim[s] # NoRecording
  /\ Fault
  /\ batch' = [batch EXCEPT ![s] = {}]
  /\ victim' = [victim EXCEPT ![s] = NoRecording]
  /\ excused' = excused \cup ({victim[s]} \ {NoRecording})
  /\ UNCHANGED <<rowVars, storeVars, queueVars, jobs, reqVars>>

-------------------------------------------------------------------------------
(* The media worker, as MediaClaim describes it, seen from the row and the *)
(* object store.                                                           *)

(* ClaimProcessing, for an event that was emitted.                         *)
MediaStart(r) ==
  /\ events[r] > 0
  /\ status[r] \in {"UPLOADED", "PROCESSING", "FAILED"}
  /\ SetStatus(r, "PROCESSING")
  /\ jobs' = jobs \cup {r}
  /\ UNCHANGED <<sized, aged, storeVars, queueVars, reqVars, sweepVars, excused,
                 faults>>

(* uploadFile: frames land under the recording's prefix, also when the row *)
(* was deleted since the claim.                                            *)
MediaFrames(r) ==
  /\ r \in jobs
  /\ frames' = frames \cup {r}
  /\ excused' = IF status[r] = "DELETED" THEN excused \cup {r} ELSE excused
  /\ UNCHANGED <<rowVars, source, urls, queueVars, jobs, reqVars, sweepVars,
                 faults>>

(* FinalizeReady or MarkFailed, while the row is there.                    *)
MediaSettle(r, s) ==
  /\ r \in jobs /\ status[r] = "PROCESSING"
  /\ s = "READY" => r \in frames
  /\ SetStatus(r, s)
  /\ jobs' = jobs \ {r}
  /\ UNCHANGED <<sized, aged, storeVars, queueVars, reqVars, sweepVars, excused,
                 faults>>

(* The job ends without touching the row: claim lost or process dead.      *)
MediaStop(r) ==
  /\ r \in jobs
  /\ jobs' = jobs \ {r}
  /\ UNCHANGED <<rowVars, storeVars, queueVars, reqVars, sweepVars, excused,
                 faults>>

-------------------------------------------------------------------------------
RequestStep(q) ==
  \/ \E r \in Recordings :
       Create(q, r) \/ Complete(q, r) \/ Reprocess(q, r) \/ Delete(q, r)
  \/ Presign(q) \/ Stat(q) \/ CompleteWithOutbox(q) \/ CompleteRaced(q)
  \/ Reread(q) \/ InsertOutbox(q)
  \/ DeleteRow(q) \/ DeletePrefix(q) \/ DeletePrefixFails(q) \/ Abort(q)

Sweep(s) == ListAbandoned(s) \/ SweepRow(s) \/ SweepObject(s)

Next ==
  \/ \E q \in Requests : RequestStep(q)
  \/ \E s \in Sweepers : Sweep(s) \/ SweepObjectFails(s) \/ SweepCutOff(s)
  \/ \E r \in Recordings :
       \/ \E bytes \in {"good", "bad"} : Put(r, bytes)
       \/ Age(r)
       \/ MediaStart(r) \/ MediaFrames(r) \/ MediaStop(r)
       \/ \E s \in {"READY", "FAILED"} : MediaSettle(r, s)

Spec == Init /\ [][Next]_vars

(* Time passes and the collector's ticker keeps firing; nothing is assumed *)
(* of clients, requests or the media worker.                               *)
FairSpec ==
  /\ Spec
  /\ \A r \in Recordings : WF_vars(Age(r))
  /\ \A s \in Sweepers : WF_vars(Sweep(s))

-------------------------------------------------------------------------------
(* Types of all variables.                                                 *)
TypeOK ==
  /\ status \in [Recordings -> Row \cup {"NONE", "DELETED"}]
  /\ sized \in SUBSET Recordings
  /\ aged \in SUBSET Recordings
  /\ source \in [Recordings -> {"absent", "good", "bad"}]
  /\ frames \in SUBSET Recordings
  /\ urls \in SUBSET Recordings
  /\ done \in [Recordings -> Nat]
  /\ events \in [Recordings -> 0 .. MaxEvents]
  /\ acked \in SUBSET Recordings
  /\ jobs \in SUBSET Recordings
  /\ pc \in [Requests -> PCs]
  /\ req \in [Requests -> Recordings \cup {NoRecording}]
  /\ \A q \in Requests : pc[q] = "idle" <=> req[q] = NoRecording
  /\ batch \in [Sweepers -> SUBSET Recordings]
  /\ victim \in [Sweepers -> Recordings \cup {NoRecording}]
  /\ excused \in SUBSET Recordings
  /\ faults \in 0 .. MaxFaults

(* A completed recording keeps its source object as long as the row        *)
(* exists: neither the collector, whose list may be stale when it deletes, *)
(* nor a delete of another request takes the bytes from under a completion *)
(* that checked them earlier.                                              *)
SourceKept ==
  \A r \in Recordings : status[r] \in Beyond => source[r] # "absent"

(* RecordingUploaded is queued once per completion and only then: racing   *)
(* and repeated Completes add no event, a success answer (also one given   *)
(* after losing the race) implies the event is queued, and Reprocess adds  *)
(* one only for a recording whose completion was.                          *)
CompletionQueuedOnce ==
  \A r \in Recordings :
    /\ done[r] <= 1
    /\ status[r] \in Beyond \/ events[r] > 0 \/ r \in acked \/ r \in sized
         => done[r] = 1

(* ADR 0026: object cleanup is best effort, and this is how far the best   *)
(* effort reaches.  Bytes outlive their row only while its deleter is      *)
(* about to remove them, when that removal failed or was cut off, or when  *)
(* they were written after the row was gone.                               *)
OrphansExcused ==
  \A r \in Recordings :
    status[r] = "DELETED" /\ (source[r] # "absent" \/ r \in frames)
      => \/ r \in excused
         \/ \E q \in Requests : pc[q] = "cleanup" /\ req[q] = r
         \/ \E s \in Sweepers : victim[s] = r

Lifecycle == INSTANCE RecordingLifecycle

(* The conditional statements of the upload service, racing with each      *)
(* other and with the media worker, move the status only along             *)
(* domain.allowed, and a swept or deleted recording never comes back.      *)
LifecycleSpec == Lifecycle!Spec

(* ADR 0033: no upload session stays UPLOADING for ever; the collector     *)
(* gets to every abandoned row through stale lists, failed statements and  *)
(* restarts.                                                               *)
AbandonedSwept ==
  \A r \in Recordings : status[r] = "UPLOADING" ~> status[r] # "UPLOADING"
===============================================================================
