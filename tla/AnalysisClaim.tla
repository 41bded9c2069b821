----------------------------- MODULE AnalysisClaim -----------------------------
(***************************************************************************)
(* The AI worker: consumption of FramesExtracted, the soft lease kept in   *)
(* analyses.updated_at, the analysis and report rows it writes, and the    *)
(* retries around the handler.                                             *)
(*                                                                         *)
(*   internal/ai/service/service.go          HandleFramesExtracted         *)
(*   internal/ai/adapter/postgres/store.go   the SQL statements            *)
(*   internal/ai/adapter/kafka/consumer.go   Run, deadLetter               *)
(*   internal/platform/kafka/handle.go       HandleWithRetries             *)
(*                                                                         *)
(* Unlike the media lease this one has no owner column: any worker may     *)
(* touch, complete or fail the analysis of any other.  Each SQL statement  *)
(* or transaction is one step.  Kafka, clocks and bounds are as in         *)
(* MediaClaim.  A heartbeat whose goroutine outlives its handler by a      *)
(* moment is not modelled: it only touches a row that is running.          *)
(***************************************************************************)
EXTENDS Integers, KeyFrames

CONSTANTS Recordings,   \* recording ids
          Workers,      \* AI worker processes
          NoRecording,  \* a worker that handles no event
          Lease,        \* claimLease in clock ticks
          Stalls,       \* may heartbeats be late?
          MaxSkew,      \* largest difference between s.now() and real time
          MaxAttempts,  \* KafkaRetryConfig.MaxAttempts
          MaxSent,      \* bound: FramesExtracted events per recording
          MaxStops      \* bound: worker crashes and shutdowns

ASSUME ConstantsAssumption ==
  /\ Lease \in Nat \ {0}
  /\ Stalls \in BOOLEAN
  /\ MaxSkew \in Nat /\ 2 * MaxSkew <= Lease
  /\ MaxAttempts \in Nat \ {0}
  /\ MaxSent \in Nat
  /\ MaxStops \in Nat
  /\ NoRecording \notin Recordings

VARIABLES
  live,       \* recordings whose row exists
  analysis,   \* analyses.status, "absent" without a row
  since,      \* time since analyses.updated_at
  report,     \* reports.status, "absent" without a row
  aiStatus,   \* reports.ai_status, "absent" without a row
  filled,     \* recordings whose report has a title, summary and steps
  generated,  \* recordings with a ReportGenerated row in the outbox
  sent,       \* FramesExtracted events emitted per recording
  committed,  \* consumer group offset per recording
  attempts,   \* kafka_retry_attempts, per recording and offset
  dlq,        \* recordings with a dead-lettered event
  pc,         \* where each worker is
  job,        \* the recording of the event a worker handles
  off,        \* the offset of that event
  copy,       \* the report a worker read in emitCompletedEvents
  silent,     \* ticks since the worker last claimed or touched
  punctual,   \* history: no heartbeat has been late so far (Late)
  outrun,     \* history: recordings with a failure reported after a new claim
  stops       \* crashes and shutdowns so far

rowVars   == <<analysis, since, report, aiStatus, filled, generated>>
kafkaVars == <<sent, committed, attempts, dlq>>
jobVars   == <<job, off, copy, silent, punctual, outrun>>
vars == <<live, analysis, since, report, aiStatus, filled, generated, sent,
          committed, attempts, dlq, pc, job, off, copy, silent, punctual, outrun,
          stops>>

Offsets == 0 .. MaxSent - 1

Skews == -MaxSkew .. MaxSkew

(* A heartbeat that was silent this long, the lease less twice the clock   *)
(* error, may cost its job the lease.                                      *)
Late == Lease - 2 * MaxSkew + 1

NoCopy == [ai |-> "absent", filled |-> FALSE]

(* Between the claim and the end of the analysis. *)
Working == {"mark", "analyze", "complete"}

(* The row is running on behalf of this worker, whose heartbeat runs. *)
Holding == Working \cup {"fail1"}

PCs == {"down", "idle", "get", "claim", "recheck", "reget", "emit", "reemit",
        "fail2", "ok", "fail"} \cup Holding

Least(a, b) == IF a <= b THEN a ELSE b

Goto(w, l) == pc' = [pc EXCEPT ![w] = l]

-------------------------------------------------------------------------------
Init ==
  /\ live = Recordings
  /\ analysis = [r \in Recordings |-> "absent"]
  /\ since = [r \in Recordings |-> 0]
  /\ report = [r \in Recordings |-> "absent"]
  /\ aiStatus = [r \in Recordings |-> "absent"]
  /\ filled = {}
  /\ generated = {}
  /\ sent = [r \in Recordings |-> 0]
  /\ committed = [r \in Recordings |-> 0]
  /\ attempts = [r \in Recordings |-> [o \in Offsets |-> 0]]
  /\ dlq = {}
  /\ pc = [w \in Workers |-> "idle"]
  /\ job = [w \in Workers |-> NoRecording]
  /\ off = [w \in Workers |-> 0]
  /\ copy = [w \in Workers |-> NoCopy]
  /\ silent = [w \in Workers |-> 0]
  /\ punctual = TRUE
  /\ outrun = {}
  /\ stops = 0

(* The media worker finished or re-emitted, or the relay published twice.  *)
EmitFrames(r) ==
  /\ sent[r] > 0 \/ r \in live
  /\ sent[r] < MaxSent
  /\ sent' = [sent EXCEPT ![r] = @ + 1]
  /\ UNCHANGED <<live, rowVars, committed, attempts, dlq, pc, jobVars, stops>>

(* The recording is deleted; analyses and reports go with it (CASCADE).    *)
DeleteRecording(r) ==
  /\ r \in live
  /\ live' = live \ {r}
  /\ analysis' = [analysis EXCEPT ![r] = "absent"]
  /\ since' = [since EXCEPT ![r] = 0]
  /\ report' = [report EXCEPT ![r] = "absent"]
  /\ aiStatus' = [aiStatus EXCEPT ![r] = "absent"]
  /\ filled' = filled \ {r}
  /\ UNCHANGED <<generated, kafkaVars, pc, jobVars, stops>>

-------------------------------------------------------------------------------
(* One delivery.                                                           *)

Fetch(w, r) ==
  /\ pc[w] = "idle"
  /\ committed[r] < sent[r]
  /\ Goto(w, "get")
  /\ job' = [job EXCEPT ![w] = r]
  /\ off' = [off EXCEPT ![w] = committed[r]]
  /\ UNCHANGED <<live, rowVars, kafkaVars, copy, silent, punctual, outrun, stops>>

(* GetAnalysis: completed work is replayed, everything else is claimed.    *)
GetAnalysis(w) ==
  /\ pc[w] = "get"
  /\ \/ analysis[job[w]] = "completed" /\ Goto(w, "emit")
     \/ analysis[job[w]] # "completed" /\ Goto(w, "claim")
  /\ UNCHANGED <<live, rowVars, kafkaVars, jobVars, stops>>

(* Mutant of Claimable: a running analysis may be claimed at any time.     *)
ClaimableAlways(r, d) == analysis[r] # "completed"

(* Mutant of Claimable: the WHERE clause trusts the status that            *)
(* GetAnalysis read, and lets a completed analysis be claimed again.       *)
ClaimableAgain(r, d) ==
  analysis[r] = "running" => since[r] + d > Lease

(* WHERE clause of TryClaimRunning with leaseCutoff = real time + d - Lease. *)
Claimable(r, d) ==
  \/ analysis[r] \in {"absent", "failed"}
  \/ analysis[r] = "running" /\ since[r] + d > Lease

(* GetRecordingMeta and TryClaimRunning.  The upsert of a deleted          *)
(* recording violates the foreign key.                                     *)
TryClaimRunning(w) ==
  /\ pc[w] = "claim"
  /\ job[w] \in live
  /\ \E d \in Skews :
       /\ Claimable(job[w], d)
       /\ since' = [since EXCEPT ![job[w]] = -d]
  /\ analysis' = [analysis EXCEPT ![job[w]] = "running"]
  /\ silent' = [silent EXCEPT ![w] = 0]
  /\ Goto(w, "mark")
  /\ UNCHANGED <<live, report, aiStatus, filled, generated, kafkaVars, job,
                 off, copy, punctual, outrun, stops>>

ClaimRefused(w) ==
  /\ pc[w] = "claim"
  /\ \/ job[w] \notin live /\ Goto(w, "fail")
     \/ /\ job[w] \in live
        /\ \E d \in Skews : ~Claimable(job[w], d)
        /\ Goto(w, "recheck")
  /\ UNCHANGED <<live, rowVars, kafkaVars, jobVars, stops>>

(* TryClaimRunning re-reads the row it could not claim: completed and      *)
(* missing are ErrNotFound, the rest ErrAnalysisInFlight, which the        *)
(* consumer turns into success.                                            *)
Recheck(w) ==
  /\ pc[w] = "recheck"
  /\ \/ analysis[job[w]] \in {"completed", "absent"} /\ Goto(w, "reget")
     \/ analysis[job[w]] \in {"running", "failed"} /\ Goto(w, "ok")
  /\ UNCHANGED <<live, rowVars, kafkaVars, jobVars, stops>>

(* ... after which HandleFramesExtracted reads it once more.               *)
Reget(w) ==
  /\ pc[w] = "reget"
  /\ \/ analysis[job[w]] = "completed" /\ Goto(w, "emit")
     \/ analysis[job[w]] = "running" /\ Goto(w, "ok")
     \/ analysis[job[w]] \in {"absent", "failed"} /\ Goto(w, "fail")
  /\ UNCHANGED <<live, rowVars, kafkaVars, jobVars, stops>>

(* emitCompletedEvents reads the report ...                                *)
ReadReport(w) ==
  /\ pc[w] = "emit"
  /\ \/ /\ report[job[w]] # "absent"
        /\ copy' = [copy EXCEPT ![w] = [ai |-> aiStatus[job[w]],
                                        filled |-> job[w] \in filled]]
        /\ Goto(w, "reemit")
     \/ /\ report[job[w]] = "absent"
        /\ Goto(w, "fail")
        /\ UNCHANGED copy
  /\ UNCHANGED <<live, rowVars, kafkaVars, job, off, silent, punctual, outrun,
                 stops>>

(* CompleteAnalysis: analysis, report and both events in one transaction,  *)
(* whoever the lease belongs to.                                           *)
CompleteRows(r, ai, full) ==
  /\ r \in live
  /\ analysis' = [analysis EXCEPT ![r] = "completed"]
  /\ \E d \in Skews : since' = [since EXCEPT ![r] = -d]
  /\ report' = [report EXCEPT ![r] = "READY"]
  /\ aiStatus' = [aiStatus EXCEPT ![r] = ai]
  /\ filled' = IF full THEN filled \cup {r} ELSE filled \ {r}
  /\ generated' = generated \cup {r}

(* ... and writes what it read back with the events.                       *)
Reemit(w) ==
  /\ pc[w] = "reemit"
  /\ CompleteRows(job[w], copy[w].ai, copy[w].filled)
  /\ \E l \in {"ok", "fail"} : Goto(w, l)
  /\ UNCHANGED <<live, kafkaVars, jobVars, stops>>

(* Mutant of MarkGenerating: the upsert resets title, summary and steps.   *)
MarkGeneratingErases(w) ==
  /\ pc[w] = "mark"
  /\ job[w] \in live
  /\ report' = [report EXCEPT ![job[w]] = "GENERATING"]
  /\ aiStatus' = [aiStatus EXCEPT ![job[w]] = "running"]
  /\ filled' = filled \ {job[w]}
  /\ Goto(w, "analyze")
  /\ UNCHANGED <<live, analysis, since, generated, kafkaVars, jobVars, stops>>

(* MarkGenerating: the report row and AnalysisStarted in one transaction.  *)
MarkGenerating(w) ==
  /\ pc[w] = "mark"
  /\ job[w] \in live
  /\ report' = [report EXCEPT ![job[w]] = "GENERATING"]
  /\ aiStatus' = [aiStatus EXCEPT ![job[w]] = "running"]
  /\ Goto(w, "analyze")
  /\ UNCHANGED <<live, analysis, since, filled, generated, kafkaVars, jobVars,
                 stops>>

(* renewLease: TouchRunning names the recording, not the worker.           *)
Touch(w) ==
  /\ pc[w] \in {"analyze", "complete", "fail1", "fail2"}
  /\ \/ /\ analysis[job[w]] = "running"
        /\ \E d \in Skews : since' = [since EXCEPT ![job[w]] = -d]
     \/ /\ analysis[job[w]] # "running"
        /\ UNCHANGED since
  /\ silent' = [silent EXCEPT ![w] = 0]
  /\ UNCHANGED <<live, analysis, report, aiStatus, filled, generated,
                 kafkaVars, pc, job, off, copy, punctual, outrun, stops>>

(* loadFrames, Analyze and the validation of the result.                   *)
Analyze(w) ==
  /\ pc[w] = "analyze"
  /\ \E l \in {"complete", "fail1"} : Goto(w, l)
  /\ UNCHANGED <<live, rowVars, kafkaVars, jobVars, stops>>

(* The result is persisted; the reply to the COMMIT may be lost.           *)
CompleteAnalysis(w) ==
  /\ pc[w] = "complete"
  /\ CompleteRows(job[w], "completed", TRUE)
  /\ \E l \in {"ok", "fail"} : Goto(w, l)
  /\ UNCHANGED <<live, kafkaVars, jobVars, stops>>

(* FailAnalysis, first statement: no owner, no status in its WHERE.        *)
FailAnalysis(w) ==
  /\ pc[w] = "fail1"
  /\ \/ /\ analysis[job[w]] # "absent"
        /\ analysis' = [analysis EXCEPT ![job[w]] = "failed"]
        /\ \E d \in Skews : since' = [since EXCEPT ![job[w]] = -d]
     \/ /\ analysis[job[w]] = "absent"
        /\ UNCHANGED <<analysis, since>>
  /\ Goto(w, "fail2")
  /\ UNCHANGED <<live, report, aiStatus, filled, generated, kafkaVars, jobVars,
                 stops>>

(* Mutant of FailReport: the failed report loses its content.              *)
FailReportErases(w) ==
  /\ pc[w] = "fail2"
  /\ job[w] \in live
  /\ report' = [report EXCEPT ![job[w]] = "FAILED"]
  /\ aiStatus' = [aiStatus EXCEPT ![job[w]] = "failed"]
  /\ filled' = filled \ {job[w]}
  /\ Goto(w, "fail")
  /\ UNCHANGED <<live, analysis, since, generated, kafkaVars, jobVars, stops>>

(* ... and the second, on its own: the report, if the recording exists.    *)
(* Between the two the failed row is free, and another worker may claim    *)
(* it.                                                                     *)
FailReport(w) ==
  /\ pc[w] = "fail2"
  /\ \/ /\ job[w] \in live
        /\ report' = [report EXCEPT ![job[w]] = "FAILED"]
        /\ aiStatus' = [aiStatus EXCEPT ![job[w]] = "failed"]
        /\ outrun' = outrun \cup {r \in {job[w]} : analysis[r] # "failed"}
     \/ /\ job[w] \notin live
        /\ UNCHANGED <<report, aiStatus, outrun>>
  /\ Goto(w, "fail")
  /\ UNCHANGED <<live, analysis, since, filled, generated, kafkaVars, job, off,
                 copy, silent, punctual, stops>>

(* A statement errs and is rolled back.  The handler returns the error;    *)
(* only a failed analysis goes through FailAnalysis, whose own errors are  *)
(* dropped.                                                                *)
StoreError(w) ==
  /\ pc[w] \in {"get", "claim", "recheck", "reget", "emit", "reemit", "mark",
                "complete", "fail1", "fail2"}
  /\ Goto(w, "fail")
  /\ UNCHANGED <<live, rowVars, kafkaVars, jobVars, stops>>

-------------------------------------------------------------------------------
(* HandleWithRetries around the handler.                                   *)

(* CommitMessages.  The group accepts any offset, so the commit of a slow  *)
(* worker may rewind the position of a faster one (redelivery).            *)
Commit(w) == committed' = [committed EXCEPT ![job[w]] = off[w] + 1]

Clear(w) == attempts' = [attempts EXCEPT ![job[w]][off[w]] = 0]

Release(w) ==
  /\ job' = [job EXCEPT ![w] = NoRecording]
  /\ off' = [off EXCEPT ![w] = 0]
  /\ copy' = [copy EXCEPT ![w] = NoCopy]
  /\ silent' = [silent EXCEPT ![w] = 0]
  /\ UNCHANGED <<punctual, outrun>>

CommitMessage(w) ==
  /\ pc[w] = "ok"
  /\ Commit(w) /\ Clear(w) /\ Release(w)
  /\ Goto(w, "idle")
  /\ UNCHANGED <<live, rowVars, sent, dlq, stops>>

Retry(w) ==
  /\ pc[w] = "fail"
  /\ attempts[job[w]][off[w]] + 1 < MaxAttempts
  /\ attempts' = [attempts EXCEPT ![job[w]][off[w]] = @ + 1]
  /\ copy' = [copy EXCEPT ![w] = NoCopy]
  /\ silent' = [silent EXCEPT ![w] = 0]
  /\ Goto(w, "get")
  /\ UNCHANGED <<live, rowVars, sent, committed, dlq, job, off, punctual,
                 outrun, stops>>

DeadLetter(w) ==
  /\ pc[w] = "fail"
  /\ attempts[job[w]][off[w]] + 1 >= MaxAttempts
  /\ dlq' = dlq \cup {job[w]}
  /\ Clear(w) /\ Commit(w) /\ Release(w)
  /\ Goto(w, "idle")
  /\ UNCHANGED <<live, rowVars, sent, stops>>

-------------------------------------------------------------------------------
Stop(w) ==
  /\ pc[w] # "down"
  /\ stops < MaxStops
  /\ stops' = stops + 1
  /\ Goto(w, "down")
  /\ Release(w)
  /\ UNCHANGED <<live, rowVars, sent, committed, dlq>>

(* The process dies, or is shut down while idle or before a commit.        *)
Crash(w) == Stop(w) /\ UNCHANGED attempts

(* Shutdown: the cancelled context fails the handler's next statement,     *)
(* FailAnalysis included, and the failure is counted as an attempt.        *)
Shutdown(w) ==
  /\ pc[w] \notin {"down", "idle", "ok"}
  /\ attempts' = [attempts EXCEPT ![job[w]][off[w]] = @ + 1]
  /\ Stop(w)

Restart(w) ==
  /\ pc[w] = "down"
  /\ Goto(w, "idle")
  /\ UNCHANGED <<live, rowVars, kafkaVars, jobVars, stops>>

(* The clock; a job that holds the lease may be late with its heartbeat    *)
(* when Stalls allows it.                                                  *)
Tick ==
  /\ Stalls \/ \A w \in Workers : pc[w] \in Holding => silent[w] + 1 < Late
  /\ since' = [r \in Recordings |->
                 IF analysis[r] = "running"
                 THEN Least(since[r] + 1, Lease + MaxSkew + 1) ELSE since[r]]
  /\ silent' = [w \in Workers |->
                  IF pc[w] \in Holding THEN Least(silent[w] + 1, Late) ELSE 0]
  /\ punctual' = (punctual /\ \A w \in Workers : silent'[w] < Late)
  /\ UNCHANGED <<live, analysis, report, aiStatus, filled, generated,
                 kafkaVars, pc, job, off, copy, outrun, stops>>

-------------------------------------------------------------------------------
Step(w) ==
  \/ GetAnalysis(w) \/ TryClaimRunning(w) \/ ClaimRefused(w)
  \/ Recheck(w) \/ Reget(w) \/ ReadReport(w) \/ Reemit(w)
  \/ MarkGenerating(w) \/ Analyze(w) \/ CompleteAnalysis(w)
  \/ FailAnalysis(w) \/ FailReport(w) \/ StoreError(w)
  \/ CommitMessage(w) \/ Retry(w) \/ DeadLetter(w)

Next ==
  \/ \E r \in Recordings : EmitFrames(r) \/ DeleteRecording(r)
  \/ \E w \in Workers :
       \/ \E r \in Recordings : Fetch(w, r)
       \/ Step(w) \/ Touch(w)
       \/ Crash(w) \/ Shutdown(w) \/ Restart(w)
  \/ Tick

Spec == Init /\ [][Next]_vars

-------------------------------------------------------------------------------
(* Types of all variables.                                                 *)
TypeOK ==
  /\ live \in SUBSET Recordings
  /\ analysis \in [Recordings -> {"absent", "running", "completed", "failed"}]
  /\ since \in [Recordings -> Int]
  /\ report \in [Recordings -> {"absent", "GENERATING", "READY", "FAILED"}]
  /\ aiStatus \in [Recordings -> {"absent", "running", "completed", "failed"}]
  /\ filled \in SUBSET Recordings
  /\ generated \in SUBSET Recordings
  /\ sent \in [Recordings -> 0 .. MaxSent]
  /\ committed \in [Recordings -> 0 .. MaxSent]
  /\ attempts \in [Recordings -> [Offsets -> Nat]]
  /\ dlq \in SUBSET Recordings
  /\ pc \in [Workers -> PCs]
  /\ job \in [Workers -> Recordings \cup {NoRecording}]
  /\ off \in [Workers -> Nat]
  /\ copy \in [Workers -> [ai : {"absent", "running", "completed", "failed"},
                           filled : BOOLEAN]]
  /\ silent \in [Workers -> 0 .. Late]
  /\ punctual \in BOOLEAN
  /\ outrun \in SUBSET Recordings
  /\ stops \in 0 .. MaxStops

(* AGGREGATES.md: READY requires content.  A result, once persisted, is    *)
(* never erased by a late worker, a replay or a failure, so neither a      *)
(* READY report nor a completed analysis is ever without one.              *)
ReadyHasContent ==
  \A r \in Recordings :
    report[r] = "READY" \/ analysis[r] = "completed" => r \in filled

(* ReportGenerated is only ever announced for a report with content, or    *)
(* one that was deleted since.                                             *)
AnnouncedHasContent == \A r \in generated : r \in filled \/ r \notin live

(* As long as no heartbeat has been late, no two workers run the analysis  *)
(* of the same recording (and pay the model) at the same time, although    *)
(* the lease has no owner and is read and written by skewed clocks.        *)
ExclusiveAnalysis ==
  punctual =>
    \A w, x \in Workers :
      pc[w] \in Working /\ pc[x] \in Working /\ job[w] = job[x] => w = x

(* The frames a worker gives to the analyzer, whatever the event's number  *)
(* of frames and the configured limit: Select uses its whole budget on     *)
(* frames of the timeline in their order, from the first to the last one,  *)
(* and leaves no part of it uncovered: two gaps between neighbours differ  *)
(* by at most one frame, however the quotients are rounded, and no index   *)
(* is drawn twice.                                                         *)
FramesSpread == \A w \in Workers : pc[w] = "analyze" => EvenlySpread

Lifecycle == INSTANCE ReportLifecycle

(* As long as no heartbeat has been late and no failure was reported after *)
(* the next claim, the report of a recording makes only the moves of its   *)
(* life cycle, although no statement that writes it looks at its status or *)
(* at the owner of the analysis.  Its content and announcement come with   *)
(* READY and go with the recording; a READY report is never taken back and *)
(* a FAILED one never becomes READY without a new analysis.                *)
LegalTransitions ==
  [][\A r \in Recordings :
       punctual' /\ r \notin outrun' => Lifecycle!Move(r)]_vars
================================================================================
