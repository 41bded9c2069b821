-------------------------- MODULE AnalysisClaimProofs --------------------------
(***************************************************************************)
(* Proofs about two parts of the system that share no state.               *)
(*                                                                         *)
(* The AI worker, for any number of workers and recordings, any lease,     *)
(* clock error, retry limit, and any number of events and stops: the       *)
(* inductive invariant IndInv has three parts beside the types, JobOK (an  *)
(* event being handled was sent), ContentOK (whoever replays a completed   *)
(* analysis has its content, or the recording is gone) and LeaseOK (what a *)
(* job may rely on as long as nobody has been late).  With it and ShownOK  *)
(* (what the report shows in that time) the report moves only as           *)
(* ReportLifecycle allows.  Which frames keyframes.Select draws is         *)
(* arithmetic and an induction over its loop.                              *)
(*                                                                         *)
(* The lists of the API behind its rate limit, for any rows, limits,       *)
(* bursts and windows: LimitInv bounds what an address has been given by   *)
(* what its bucket or counter has left, WalkInv says that the cursor of a  *)
(* walk is the last row that was given.                                    *)
(***************************************************************************)
EXTENDS AnalysisClaim, Listing, FiniteSetTheorems, SequenceTheorems, WellFoundedInduction, TLAPS

(* A busy worker handles an event that was really sent. *)
JobOK ==
  /\ \A r \in Recordings : committed[r] <= sent[r]
  /\ \A w \in Workers :
       pc[w] \notin {"down", "idle"} =>
         job[w] \in Recordings /\ off[w] < sent[job[w]]

(* A worker replays an analysis that it saw completed: the content is      *)
(* there, and in its copy once it has read it, unless the recording was    *)
(* deleted since.                                                          *)
ReplayOf(w) ==
  /\ pc[w] = "emit" => job[w] \in filled \/ job[w] \notin live
  /\ pc[w] = "reemit" => copy[w].filled \/ job[w] \notin live

ContentOK ==
  /\ ReadyHasContent
  /\ AnnouncedHasContent
  /\ \A w \in Workers : ReplayOf(w)

(* A job that holds the lease finds its row running and no older than its  *)
(* own silence, up to the clock error of the statement that wrote it; a    *)
(* worker that replays finds the analysis completed.                       *)
RowOf(w) ==
  /\ pc[w] \in Holding =>
       \/ job[w] \notin live
       \/ analysis[job[w]] = "running" /\ since[job[w]] <= silent[w] + MaxSkew
  /\ pc[w] \in {"emit", "reemit"} =>
       job[w] \notin live \/ analysis[job[w]] = "completed"

Exclusive ==
  \A w, x \in Workers :
    pc[w] \in Holding /\ pc[x] \in Holding /\ job[w] = job[x] => w = x

(* What holds as long as nobody has been late.  A job on its way to         *)
(* FailAnalysis still counts as a holder: its statement names no owner and  *)
(* would end the analysis of whoever had claimed the row meanwhile.         *)
Held ==
  /\ \A w \in Workers : silent[w] < Late
  /\ \A w \in Workers : RowOf(w)
  /\ Exclusive

LeaseOK == punctual => Held

IndInv == TypeOK /\ JobOK /\ ContentOK /\ LeaseOK

-------------------------------------------------------------------------------
USE DEF Skews, Working, Holding, PCs, Least, Goto, NoCopy,
        rowVars, kafkaVars, jobVars

(* Every variable starts with a value of its type.                         *)
LEMMA TypeInit == Init => TypeOK
  BY ConstantsAssumption DEF Init, TypeOK, Offsets, Late

(* The handled event is one of the recording's, and its offset plus one a  *)
(* position the group may be at.                                           *)
LEMMA JobFacts ==
  ASSUME TypeOK, JobOK, NEW w \in Workers, pc[w] \notin {"down", "idle"}
  PROVE  /\ job[w] \in Recordings
         /\ off[w] \in Offsets
         /\ off[w] + 1 \in 0 .. MaxSent
         /\ off[w] + 1 <= sent[job[w]]
         /\ attempts[job[w]][off[w]] \in Nat
<1>1. job[w] \in Recordings /\ off[w] \in Nat /\ off[w] < sent[job[w]]
  BY DEF TypeOK, JobOK
<1>2. sent[job[w]] \in 0 .. MaxSent
  BY <1>1 DEF TypeOK
<1>3. off[w] \in Offsets /\ off[w] + 1 \in 0 .. MaxSent /\ off[w] + 1 <= sent[job[w]]
  BY <1>1, <1>2, ConstantsAssumption DEF Offsets
<1>4. attempts \in [Recordings -> [Offsets -> Nat]]
  BY DEF TypeOK
<1> QED
  BY <1>1, <1>3, <1>4

(* Writing a retry counter of the handled event keeps the type of the      *)
(* counters.                                                               *)
LEMMA AttemptsType ==
  ASSUME TypeOK, JobOK, NEW w \in Workers, pc[w] \notin {"down", "idle"},
         NEW n \in Nat,
         attempts' = [attempts EXCEPT ![job[w]][off[w]] = n]
  PROVE  attempts' \in [Recordings -> [Offsets -> Nat]]
<1>1. job[w] \in Recordings /\ off[w] \in Offsets
  BY JobFacts
<1>0. attempts \in [Recordings -> [Offsets -> Nat]]
  BY DEF TypeOK
<1> DEFINE row == [attempts[job[w]] EXCEPT ![off[w]] = n]
<1>2. row \in [Offsets -> Nat]
  BY <1>0, <1>1
<1>3. attempts' = [attempts EXCEPT ![job[w]] = row]
  BY <1>0, <1>1
<1> HIDE DEF row
<1> QED
  BY <1>0, <1>1, <1>2, <1>3

(* The columns of a recording keep their types when a worker writes them.  *)
LEMMA RowsType ==
  ASSUME TypeOK, JobOK, NEW w \in Workers,
         \/ TryClaimRunning(w) \/ Reemit(w) \/ MarkGenerating(w) \/ Touch(w)
         \/ CompleteAnalysis(w) \/ FailAnalysis(w) \/ FailReport(w)
  PROVE  /\ analysis' \in [Recordings -> {"absent", "running", "completed", "failed"}]
         /\ since' \in [Recordings -> Int]
         /\ report' \in [Recordings -> {"absent", "GENERATING", "READY", "FAILED"}]
         /\ aiStatus' \in [Recordings -> {"absent", "running", "completed", "failed"}]
         /\ filled' \in SUBSET Recordings
         /\ generated' \in SUBSET Recordings
<1>0. /\ pc[w] \notin {"down", "idle"}
      /\ copy[w].ai \in {"absent", "running", "completed", "failed"}
  BY DEF TypeOK, TryClaimRunning, Reemit, MarkGenerating, Touch, CompleteAnalysis,
         FailAnalysis, FailReport
<1>1. job[w] \in Recordings
  BY <1>0, JobFacts
<1>2. \A d \in Skews : -d \in Int
  BY ConstantsAssumption
<1>3. CASE TryClaimRunning(w)
  BY <1>1, <1>2, <1>3 DEF TypeOK, TryClaimRunning
<1>4. CASE Reemit(w)
  BY <1>0, <1>1, <1>2, <1>4 DEF TypeOK, Reemit, CompleteRows
<1>5. CASE MarkGenerating(w)
  BY <1>1, <1>5 DEF TypeOK, MarkGenerating
<1>6. CASE Touch(w)
  BY <1>1, <1>2, <1>6 DEF TypeOK, Touch
<1>7. CASE CompleteAnalysis(w)
  BY <1>1, <1>2, <1>7 DEF TypeOK, CompleteAnalysis, CompleteRows
<1>8. CASE FailAnalysis(w)
  <2>1. /\ analysis \in [Recordings -> {"absent", "running", "completed", "failed"}]
        /\ since \in [Recordings -> Int]
    BY DEF TypeOK
  <2>2. analysis' \in [Recordings -> {"absent", "running", "completed", "failed"}]
    BY <1>1, <1>8, <2>1 DEF FailAnalysis
  <2>3. since' \in [Recordings -> Int]
    <3>1. CASE since' = since
      BY <2>1, <3>1
    <3>2. ASSUME NEW d \in Skews, since' = [since EXCEPT ![job[w]] = -d]
          PROVE  since' \in [Recordings -> Int]
      BY <1>2, <2>1, <3>2
    <3> QED
      BY <1>8, <3>1, <3>2 DEF FailAnalysis
  <2> QED
    BY <1>8, <2>2, <2>3 DEF TypeOK, FailAnalysis
<1>9. CASE FailReport(w)
  BY <1>1, <1>9 DEF TypeOK, FailReport
<1> QED
  BY <1>3, <1>4, <1>5, <1>6, <1>7, <1>8, <1>9

(* Every step keeps every variable within its type.                        *)
LEMMA TypeStep == TypeOK /\ JobOK /\ [Next]_vars => TypeOK'
<1> SUFFICES ASSUME TypeOK, JobOK, [Next]_vars PROVE TypeOK'
  OBVIOUS
<1> USE ConstantsAssumption
<1>0. 0 \in 0 .. Late
  BY DEF Late
<1>1. ASSUME NEW r \in Recordings, EmitFrames(r) PROVE TypeOK'
  <2>1. sent[r] + 1 \in 0 .. MaxSent
    BY <1>1 DEF TypeOK, EmitFrames
  <2> QED
    BY <1>1, <2>1 DEF TypeOK, EmitFrames
<1>2. ASSUME NEW r \in Recordings, DeleteRecording(r) PROVE TypeOK'
  BY <1>2 DEF TypeOK, DeleteRecording
<1>3. ASSUME NEW w \in Workers, NEW r \in Recordings, Fetch(w, r) PROVE TypeOK'
  <2>1. committed[r] \in Nat
    BY DEF TypeOK
  <2> QED
    BY <1>3, <2>1 DEF TypeOK, Fetch
<1>4. ASSUME NEW w \in Workers,
             \/ TryClaimRunning(w) \/ Reemit(w) \/ MarkGenerating(w) \/ Touch(w)
             \/ CompleteAnalysis(w) \/ FailAnalysis(w) \/ FailReport(w)
      PROVE  TypeOK'
  <2>1. /\ pc' \in [Workers -> PCs]
        /\ silent' \in [Workers -> 0 .. Late]
        /\ UNCHANGED <<live, sent, committed, attempts, dlq, job, off, copy, punctual, stops>>
        /\ outrun' \in SUBSET Recordings
    <3>1. CASE TryClaimRunning(w)
      BY <3>1, <1>0 DEF TypeOK, TryClaimRunning
    <3>2. CASE Reemit(w) \/ CompleteAnalysis(w)
      <4>1. /\ \E l \in {"ok", "fail"} : pc' = [pc EXCEPT ![w] = l]
            /\ UNCHANGED <<live, kafkaVars, jobVars, stops>>
        BY <3>2, Zenon DEF Reemit, CompleteAnalysis
      <4> QED
        BY <4>1 DEF TypeOK
    <3>3. CASE MarkGenerating(w)
      BY <3>3 DEF TypeOK, MarkGenerating
    <3>4. CASE Touch(w)
      BY <3>4, <1>0 DEF TypeOK, Touch
    <3>5. CASE FailAnalysis(w)
      BY <3>5 DEF TypeOK, FailAnalysis
    <3>6. CASE FailReport(w)
      <4>1. outrun' \in SUBSET Recordings
        BY <3>6 DEF TypeOK, FailReport
      <4>2. pc' = [pc EXCEPT ![w] = "fail"]
        BY <3>6 DEF FailReport
      <4>3. UNCHANGED <<live, sent, committed, attempts, dlq, job, off, copy, silent, punctual, stops>>
        BY <3>6 DEF FailReport
      <4> QED
        BY <4>1, <4>2, <4>3 DEF TypeOK
    <3> QED
      BY <1>4, <3>1, <3>2, <3>3, <3>4, <3>5, <3>6
  <2> QED
    BY <1>4, <2>1, RowsType DEF TypeOK
<1>5. ASSUME NEW w \in Workers,
             \/ GetAnalysis(w) \/ ClaimRefused(w) \/ Recheck(w) \/ Reget(w)
             \/ Analyze(w) \/ StoreError(w) \/ Restart(w)
      PROVE  TypeOK'
  <2>1. \E l \in PCs : pc' = [pc EXCEPT ![w] = l]
    BY <1>5 DEF GetAnalysis, ClaimRefused, Recheck, Reget, Analyze, StoreError, Restart
  <2>2. UNCHANGED <<live, rowVars, kafkaVars, jobVars, stops>>
    BY <1>5 DEF GetAnalysis, ClaimRefused, Recheck, Reget, Analyze, StoreError, Restart
  <2> QED
    BY <2>1, <2>2 DEF TypeOK
<1>6. ASSUME NEW w \in Workers, ReadReport(w) PROVE TypeOK'
  <2>1. job[w] \in Recordings
    BY <1>6, JobFacts DEF ReadReport
  <2>2. [ai |-> aiStatus[job[w]], filled |-> job[w] \in filled] \in
          [ai : {"absent", "running", "completed", "failed"}, filled : BOOLEAN]
    BY <2>1 DEF TypeOK
  <2>3. copy' \in [Workers -> [ai : {"absent", "running", "completed", "failed"}, filled : BOOLEAN]]
    BY <1>6, <2>2, ZenonT(30) DEF TypeOK, ReadReport
  <2> QED
    BY <1>6, <2>3 DEF TypeOK, ReadReport
<1>7. ASSUME NEW w \in Workers, Release(w)
      PROVE  /\ job' \in [Workers -> Recordings \cup {NoRecording}]
             /\ off' \in [Workers -> Nat]
             /\ copy' \in [Workers -> [ai : {"absent", "running", "completed", "failed"},
                                       filled : BOOLEAN]]
             /\ silent' \in [Workers -> 0 .. Late]
             /\ punctual' \in BOOLEAN
             /\ outrun' \in SUBSET Recordings
  BY <1>7, <1>0 DEF TypeOK, Release
<1>8. ASSUME NEW w \in Workers, CommitMessage(w) \/ DeadLetter(w) PROVE TypeOK'
  <2>1. /\ pc[w] \notin {"down", "idle"}
        /\ Commit(w) /\ Clear(w) /\ Release(w)
        /\ pc' = [pc EXCEPT ![w] = "idle"]
        /\ dlq' \in {dlq, dlq \cup {job[w]}}
        /\ UNCHANGED <<live, rowVars, sent, stops>>
    BY <1>8 DEF CommitMessage, DeadLetter
  <2>2. job[w] \in Recordings /\ off[w] + 1 \in 0 .. MaxSent
    BY <2>1, JobFacts
  <2>3. committed' \in [Recordings -> 0 .. MaxSent]
    BY <2>1, <2>2 DEF TypeOK, Commit
  <2>4. attempts' \in [Recordings -> [Offsets -> Nat]]
    BY <2>1, AttemptsType DEF Clear
  <2> QED
    BY <1>7, <2>1, <2>2, <2>3, <2>4 DEF TypeOK
<1>9. ASSUME NEW w \in Workers, Retry(w) PROVE TypeOK'
  <2>1. attempts[job[w]][off[w]] + 1 \in Nat /\ job[w] \in Recordings /\ off[w] \in Offsets
    BY <1>9, JobFacts DEF Retry
  <2>2. attempts' = [attempts EXCEPT ![job[w]][off[w]] = attempts[job[w]][off[w]] + 1]
    BY <1>9, <2>1 DEF Retry, TypeOK
  <2>3. attempts' \in [Recordings -> [Offsets -> Nat]]
    BY <1>9, <2>1, <2>2, AttemptsType DEF Retry
  <2> QED
    BY <1>9, <1>0, <2>3 DEF TypeOK, Retry
<1>10. ASSUME NEW w \in Workers, Crash(w) PROVE TypeOK'
  BY <1>10, <1>7 DEF TypeOK, Crash, Stop
<1>11. ASSUME NEW w \in Workers, Shutdown(w) PROVE TypeOK'
  <2>1. attempts[job[w]][off[w]] + 1 \in Nat /\ job[w] \in Recordings /\ off[w] \in Offsets
    BY <1>11, JobFacts DEF Shutdown
  <2>2. attempts' = [attempts EXCEPT ![job[w]][off[w]] = attempts[job[w]][off[w]] + 1]
    BY <1>11, <2>1 DEF Shutdown, TypeOK
  <2>3. attempts' \in [Recordings -> [Offsets -> Nat]]
    BY <1>11, <2>1, <2>2, AttemptsType DEF Shutdown
  <2> QED
    BY <1>11, <1>7, <2>3 DEF TypeOK, Shutdown, Stop
<1>12. ASSUME Tick PROVE TypeOK'
  <2>1. since' \in [Recordings -> Int]
    BY <1>12 DEF TypeOK, Tick
  <2>2. silent' \in [Workers -> 0 .. Late]
    BY <1>12, <1>0 DEF TypeOK, Tick, Late
  <2>3. punctual' \in BOOLEAN
    BY <1>12 DEF TypeOK, Tick
  <2> QED
    BY <1>12, <2>1, <2>2, <2>3 DEF TypeOK, Tick
<1>13. CASE UNCHANGED vars
  BY <1>13 DEF TypeOK, vars
<1> QED
  BY <1>1, <1>2, <1>3, <1>4, <1>5, <1>6, <1>8, <1>9, <1>10, <1>11, <1>12, <1>13
     DEF Next, Step

(* Initially no event was sent and no worker is busy.                      *)
LEMMA JobInit == Init => JobOK
  BY DEF Init, JobOK

(* Events are handled between a fetch and a commit, and the number of      *)
(* events sent never shrinks.                                              *)
LEMMA JobStep == TypeOK /\ JobOK /\ [Next]_vars => JobOK'
<1> SUFFICES ASSUME TypeOK, JobOK, [Next]_vars PROVE JobOK'
  OBVIOUS
<1>0. /\ sent \in [Recordings -> 0 .. MaxSent]
      /\ committed \in [Recordings -> 0 .. MaxSent]
      /\ pc \in [Workers -> PCs]
      /\ job \in [Workers -> Recordings \cup {NoRecording}]
      /\ off \in [Workers -> Nat]
      /\ MaxSent \in Nat
  BY ConstantsAssumption DEF TypeOK
<1>1. ASSUME NEW r \in Recordings, EmitFrames(r) PROVE JobOK'
  BY <1>0, <1>1 DEF JobOK, EmitFrames
<1>2. ASSUME NEW w \in Workers, NEW r \in Recordings, Fetch(w, r) PROVE JobOK'
  BY <1>0, <1>2 DEF JobOK, Fetch
<1>3. ASSUME NEW w \in Workers, NEW l \in PCs, pc' = [pc EXCEPT ![w] = l],
             pc[w] \notin {"down", "idle"} \/ l = "idle",
             UNCHANGED <<sent, committed, job, off>>
      PROVE  JobOK'
  BY <1>0, <1>3 DEF JobOK
<1>4. ASSUME NEW w \in Workers,
             \/ GetAnalysis(w) \/ TryClaimRunning(w) \/ ClaimRefused(w) \/ Recheck(w)
             \/ Reget(w) \/ ReadReport(w) \/ Reemit(w) \/ MarkGenerating(w) \/ Analyze(w)
             \/ CompleteAnalysis(w) \/ FailAnalysis(w) \/ FailReport(w) \/ StoreError(w)
             \/ Retry(w) \/ Restart(w)
      PROVE  JobOK'
  <2>1. UNCHANGED <<sent, committed, job, off>>
    BY <1>4, Zenon DEF GetAnalysis, TryClaimRunning, ClaimRefused, Recheck, Reget, ReadReport,
              Reemit, MarkGenerating, Analyze, CompleteAnalysis, FailAnalysis, FailReport,
              StoreError, Retry, Restart
  <2>2. CASE Restart(w)
    BY <1>3, <2>1, <2>2 DEF Restart
  <2>3. CASE ~Restart(w)
    <3>1. \E l \in PCs : pc' = [pc EXCEPT ![w] = l]
      BY <1>4, <2>3, Zenon DEF GetAnalysis, TryClaimRunning, ClaimRefused, Recheck, Reget, ReadReport,
                Reemit, MarkGenerating, Analyze, CompleteAnalysis, FailAnalysis, FailReport,
                StoreError, Retry
    <3>2. pc[w] \notin {"down", "idle"}
      BY <1>4, <2>3 DEF GetAnalysis, TryClaimRunning, ClaimRefused, Recheck, Reget, ReadReport,
                Reemit, MarkGenerating, Analyze, CompleteAnalysis, FailAnalysis, FailReport,
                StoreError, Retry
    <3> QED
      BY <1>3, <2>1, <3>1, <3>2
  <2> QED
    BY <2>2, <2>3
<1>5. ASSUME NEW w \in Workers, CommitMessage(w) \/ DeadLetter(w) PROVE JobOK'
  <2>1. /\ pc[w] \notin {"down", "idle"}
        /\ Commit(w) /\ Release(w) /\ UNCHANGED sent
        /\ pc' = [pc EXCEPT ![w] = "idle"]
    BY <1>5 DEF CommitMessage, DeadLetter
  <2>2. job[w] \in Recordings /\ off[w] + 1 <= sent[job[w]]
    BY <2>1, JobFacts
  <2> QED
    BY <1>0, <2>1, <2>2 DEF JobOK, Commit, Release
<1>6. ASSUME NEW w \in Workers, Stop(w), UNCHANGED <<sent, committed>> PROVE JobOK'
  BY <1>0, <1>6 DEF JobOK, Stop, Release
<1>7. ASSUME NEW w \in Workers, Crash(w) \/ Shutdown(w) PROVE JobOK'
  BY <1>6, <1>7 DEF Crash, Shutdown, Stop
<1>8. CASE \/ \E r \in Recordings : DeleteRecording(r)
           \/ \E w \in Workers : Touch(w)
           \/ Tick
           \/ UNCHANGED vars
  <2>1. UNCHANGED <<sent, committed, pc, job, off>>
    BY <1>8, Zenon DEF DeleteRecording, Touch, Tick, vars
  <2> QED
    BY <2>1 DEF JobOK
<1> QED
  BY <1>1, <1>2, <1>4, <1>5, <1>7, <1>8 DEF Next, Step

-------------------------------------------------------------------------------
(* Content. *)

(* Initially nothing is announced, READY or replayed.                      *)
LEMMA ContentInit == Init => ContentOK
  BY DEF Init, ContentOK, ReadyHasContent, AnnouncedHasContent, ReplayOf

(* Steps that write no content: what is announced or completed stays so.   *)
LEMMA ContentFrame ==
  ASSUME TypeOK, ContentOK, UNCHANGED <<filled, generated, live>>,
         \A r \in Recordings : report'[r] = "READY" => report[r] = "READY",
         \A r \in Recordings : analysis'[r] = "completed" => analysis[r] = "completed",
         \A w \in Workers :
           \/ pc'[w] \notin {"emit", "reemit"}
           \/ pc'[w] = pc[w] /\ job'[w] = job[w] /\ copy'[w] = copy[w]
           \/ /\ pc'[w] = "emit" /\ job'[w] = job[w]
              /\ job[w] \in Recordings /\ analysis[job[w]] = "completed"
  PROVE  ContentOK'
<1>1. ReadyHasContent' /\ AnnouncedHasContent'
  BY DEF ContentOK, ReadyHasContent, AnnouncedHasContent
<1>2. ASSUME NEW w \in Workers PROVE ReplayOf(w)'
  BY DEF ContentOK, ReplayOf, ReadyHasContent
<1> QED
  BY <1>1, <1>2 DEF ContentOK

(* Only a transaction that writes content completes an analysis, and a     *)
(* replay writes content that it has read.                                 *)
LEMMA ContentStep == TypeOK /\ JobOK /\ ContentOK /\ [Next]_vars => ContentOK'
<1> SUFFICES ASSUME TypeOK, JobOK, ContentOK, [Next]_vars PROVE ContentOK'
  OBVIOUS
<1>0. /\ analysis \in [Recordings -> {"absent", "running", "completed", "failed"}]
      /\ report \in [Recordings -> {"absent", "GENERATING", "READY", "FAILED"}]
      /\ pc \in [Workers -> PCs]
      /\ copy \in [Workers -> [ai : {"absent", "running", "completed", "failed"},
                               filled : BOOLEAN]]
      /\ job \in [Workers -> Recordings \cup {NoRecording}]
      /\ \A w \in Workers : pc[w] \notin {"down", "idle"} => job[w] \in Recordings
  BY DEF TypeOK, JobOK
<1>1. ASSUME NEW r \in Recordings, DeleteRecording(r) PROVE ContentOK'
  BY <1>0, <1>1 DEF DeleteRecording, ContentOK, ReadyHasContent, AnnouncedHasContent, ReplayOf
<1>2. ASSUME NEW w \in Workers, pc[w] \notin {"down", "idle"},
             NEW ai, NEW full \in BOOLEAN, CompleteRows(job[w], ai, full),
             full \/ job[w] \notin live,
             pc'[w] \notin {"emit", "reemit"},
             \A x \in Workers \ {w} : pc'[x] = pc[x],
             UNCHANGED <<live, job, copy>>
      PROVE  ContentOK'
  <2>1. /\ job[w] \in live /\ full
        /\ filled' = filled \cup {job[w]}
        /\ generated' = generated \cup {job[w]}
        /\ report' = [report EXCEPT ![job[w]] = "READY"]
        /\ analysis' = [analysis EXCEPT ![job[w]] = "completed"]
    BY <1>2 DEF CompleteRows
  <2> QED
    BY <1>0, <1>2, <2>1 DEF ContentOK, ReadyHasContent, AnnouncedHasContent, ReplayOf
<1>3. ASSUME NEW w \in Workers, Reemit(w) PROVE ContentOK'
  <2>1. /\ pc[w] = "reemit"
        /\ CompleteRows(job[w], copy[w].ai, copy[w].filled)
        /\ \E l \in {"ok", "fail"} : pc' = [pc EXCEPT ![w] = l]
        /\ UNCHANGED <<live, kafkaVars, jobVars, stops>>
    BY <1>3, Zenon DEF Reemit
  <2>2. copy[w].filled \in BOOLEAN /\ (copy[w].filled \/ job[w] \notin live)
    BY <1>0, <2>1 DEF ContentOK, ReplayOf
  <2>3. pc'[w] \notin {"emit", "reemit"} /\ \A x \in Workers \ {w} : pc'[x] = pc[x]
    BY <1>0, <2>1
  <2>4. pc[w] \notin {"down", "idle"} /\ UNCHANGED <<live, job, copy>>
    BY <2>1
  <2> QED
    BY <1>2, <2>1, <2>2, <2>3, <2>4
<1>4. ASSUME NEW w \in Workers, CompleteAnalysis(w) PROVE ContentOK'
  <2>1. /\ pc[w] = "complete"
        /\ CompleteRows(job[w], "completed", TRUE)
        /\ \E l \in {"ok", "fail"} : pc' = [pc EXCEPT ![w] = l]
        /\ UNCHANGED <<live, kafkaVars, jobVars, stops>>
    BY <1>4, Zenon DEF CompleteAnalysis
  <2>2. pc'[w] \notin {"emit", "reemit"} /\ \A x \in Workers \ {w} : pc'[x] = pc[x]
    BY <1>0, <2>1
  <2>3. pc[w] \notin {"down", "idle"} /\ UNCHANGED <<live, job, copy>>
    BY <2>1
  <2> QED
    BY <1>2, <2>1, <2>2, <2>3
<1>5. ASSUME NEW w \in Workers, ReadReport(w) PROVE ContentOK'
  <2>1. pc[w] = "emit" /\ job[w] \in Recordings
    BY <1>0, <1>5 DEF ReadReport
  <2>2. UNCHANGED <<live, rowVars, job>>
    BY <1>5 DEF ReadReport
  <2>3. CASE /\ copy' = [copy EXCEPT ![w] = [ai |-> aiStatus[job[w]],
                                             filled |-> job[w] \in filled]]
             /\ pc' = [pc EXCEPT ![w] = "reemit"]
    <3>1. /\ pc'[w] = "reemit" /\ copy'[w] = [ai |-> aiStatus[job[w]], filled |-> job[w] \in filled]
          /\ \A x \in Workers \ {w} : pc'[x] = pc[x] /\ copy'[x] = copy[x]
      BY <1>0, <2>3
    <3>2. copy'[w].filled = (job[w] \in filled)
      BY <3>1
    <3>3. ASSUME NEW x \in Workers PROVE ReplayOf(x)'
      BY <2>1, <2>2, <3>1, <3>2 DEF ContentOK, ReplayOf
    <3> QED
      BY <2>2, <3>3 DEF ContentOK, ReadyHasContent, AnnouncedHasContent
  <2>4. CASE pc' = [pc EXCEPT ![w] = "fail"] /\ UNCHANGED copy
    BY <1>0, <2>2, <2>4, ContentFrame
  <2> QED
    BY <1>5, <2>3, <2>4 DEF ReadReport
<1>6. ASSUME NEW w \in Workers, GetAnalysis(w) \/ Reget(w) PROVE ContentOK'
  <2>1. /\ UNCHANGED <<live, rowVars, job, copy>>
        /\ job[w] \in Recordings
        /\ \E l \in PCs : /\ pc' = [pc EXCEPT ![w] = l]
                          /\ l \in {"emit", "reemit"} => l = "emit" /\ analysis[job[w]] = "completed"
    BY <1>0, <1>6 DEF GetAnalysis, Reget
  <2> QED
    BY <1>0, <2>1, ContentFrame
<1>7. ASSUME NEW w \in Workers,
             \/ TryClaimRunning(w) \/ MarkGenerating(w) \/ FailAnalysis(w) \/ FailReport(w)
      PROVE  ContentOK'
  <2>1. /\ UNCHANGED <<live, job, copy, filled, generated>>
        /\ job[w] \in Recordings
        /\ \E l \in PCs \ {"emit", "reemit"} : pc' = [pc EXCEPT ![w] = l]
    BY <1>0, <1>7 DEF TryClaimRunning, MarkGenerating, FailAnalysis, FailReport
  <2>2. /\ \E v \in {"running", "failed"} :
             analysis' \in {analysis, [analysis EXCEPT ![job[w]] = v]}
        /\ \E v \in {"GENERATING", "FAILED"} :
             report' \in {report, [report EXCEPT ![job[w]] = v]}
    BY <1>7 DEF TryClaimRunning, MarkGenerating, FailAnalysis, FailReport
  <2>3. /\ \A r \in Recordings : report'[r] = "READY" => report[r] = "READY"
        /\ \A r \in Recordings : analysis'[r] = "completed" => analysis[r] = "completed"
    BY <1>0, <2>2
  <2> QED
    BY <1>0, <2>1, <2>3, ContentFrame
<1>8. ASSUME NEW w \in Workers,
             \/ ClaimRefused(w) \/ Recheck(w) \/ Analyze(w) \/ StoreError(w)
             \/ CommitMessage(w) \/ Retry(w) \/ DeadLetter(w)
             \/ Crash(w) \/ Shutdown(w) \/ Restart(w)
             \/ \E r \in Recordings : Fetch(w, r)
      PROVE  ContentOK'
  <2>1. /\ UNCHANGED <<live, rowVars>>
        /\ \E l \in PCs \ {"emit", "reemit"} : pc' = [pc EXCEPT ![w] = l]
    BY <1>8 DEF ClaimRefused, Recheck, Analyze, StoreError, CommitMessage, Retry, DeadLetter,
                Crash, Shutdown, Stop, Restart, Fetch
  <2>2. \A x \in Workers \ {w} : job'[x] = job[x] /\ copy'[x] = copy[x]
    BY <1>0, <1>8 DEF ClaimRefused, Recheck, Analyze, StoreError, CommitMessage, Retry, DeadLetter,
                Crash, Shutdown, Stop, Restart, Fetch, Release
  <2> QED
    BY <1>0, <2>1, <2>2, ContentFrame
<1>9. CASE \/ \E r \in Recordings : EmitFrames(r)
           \/ \E w \in Workers : Touch(w)
           \/ Tick
           \/ UNCHANGED vars
  <2>1. UNCHANGED <<live, analysis, report, filled, generated, pc, job, copy>>
    BY <1>9, Zenon DEF EmitFrames, Touch, Tick, vars
  <2> QED
    BY <2>1, ContentFrame
<1> QED
  BY <1>1, <1>3, <1>4, <1>5, <1>6, <1>7, <1>8, <1>9 DEF Next, Step

-------------------------------------------------------------------------------
(* Leases. *)

(* Initially nobody holds a lease.                                         *)
LEMMA LeaseInit == Init => LeaseOK
  BY ConstantsAssumption DEF Init, LeaseOK, Held, RowOf, Exclusive, Late

(* A row that a punctual job keeps fresh cannot be claimed by a clock that *)
(* runs ahead by the largest error.                                        *)
LEMMA FreshIsHeld ==
  ASSUME NEW a \in Int, NEW n \in Nat, NEW d \in Skews,
         a <= n + MaxSkew, n < Late
  PROVE  ~(a + d > Lease)
  BY ConstantsAssumption DEF Late

(* A step of one worker that leaves the rows alone and does not begin to   *)
(* hold a lease.                                                           *)
LEMMA HeldFrame ==
  ASSUME TypeOK, Held, NEW w \in Workers,
         UNCHANGED <<live, analysis, since>>,
         \A x \in Workers \ {w} : pc'[x] = pc[x] /\ job'[x] = job[x] /\ silent'[x] = silent[x],
         silent'[w] \in {silent[w], 0},
         pc'[w] \in Holding => pc[w] \in Holding /\ job'[w] = job[w] /\ silent'[w] = silent[w],
         pc'[w] \in {"emit", "reemit"} =>
           /\ job'[w] = job[w]
           /\ pc[w] \in {"emit", "reemit"} \/ analysis[job[w]] = "completed"
  PROVE  Held'
<1>1. \A x \in Workers : silent'[x] < Late
  BY ConstantsAssumption DEF Held, Late
<1>2. ASSUME NEW x \in Workers PROVE RowOf(x)'
  <2>1. RowOf(x)
    BY DEF Held
  <2>2. CASE x = w
    BY <2>1, <2>2 DEF RowOf
  <2>3. CASE x # w
    BY <2>1, <2>3 DEF RowOf
  <2> QED
    BY <2>2, <2>3
<1>3. Exclusive'
  BY DEF Held, Exclusive
<1> QED
  BY <1>1, <1>2, <1>3 DEF Held

(* A transaction that completes an analysis finds no other job on it: it   *)
(* is the holder's own, or a replay of what is completed already.          *)
LEMMA HeldComplete ==
  ASSUME TypeOK, JobOK, Held, NEW w \in Workers,
         pc[w] \in {"complete", "reemit"}, job[w] \in live,
         analysis' = [analysis EXCEPT ![job[w]] = "completed"],
         NEW d \in Skews, since' = [since EXCEPT ![job[w]] = -d],
         UNCHANGED <<live, job, silent>>,
         \E l \in {"ok", "fail"} : pc' = [pc EXCEPT ![w] = l]
  PROVE  Held'
<1>0. /\ analysis \in [Recordings -> {"absent", "running", "completed", "failed"}]
      /\ since \in [Recordings -> Int]
      /\ pc \in [Workers -> PCs]
      /\ job[w] \in Recordings
  BY DEF TypeOK, JobOK
<1>1. ASSUME NEW x \in Workers, x # w, pc[x] \in Holding, job[x] = job[w] PROVE FALSE
  <2>1. analysis[job[x]] = "running"
    BY <1>1 DEF Held, RowOf
  <2>2. CASE pc[w] = "complete"
    BY <1>1, <2>2 DEF Held, Exclusive
  <2>3. CASE pc[w] = "reemit"
    BY <1>1, <2>1, <2>3 DEF Held, RowOf
  <2> QED
    BY <2>2, <2>3
<1>2. ASSUME NEW x \in Workers PROVE RowOf(x)'
  <2>1. RowOf(x)
    BY DEF Held
  <2>2. CASE x = w
    BY <1>0, <2>2 DEF RowOf
  <2>3. CASE x # w /\ job[x] = job[w]
    BY <1>0, <1>1, <2>3 DEF RowOf
  <2>4. CASE x # w /\ job[x] # job[w]
    <3>1. /\ pc'[x] = pc[x] /\ job'[x] = job[x] /\ silent'[x] = silent[x]
          /\ job[x] \in live => analysis'[job[x]] = analysis[job[x]] /\ since'[job[x]] = since[job[x]]
      BY <1>0, <2>4 DEF TypeOK
    <3> QED
      BY <2>1, <3>1 DEF RowOf
  <2> QED
    BY <2>2, <2>3, <2>4
<1>3. Exclusive'
  BY <1>0 DEF Held, Exclusive
<1> QED
  BY <1>2, <1>3 DEF Held

(* A claim is refused while a punctual job holds the row, so the claimant  *)
(* becomes the only holder.                                                *)
LEMMA HeldClaim ==
  ASSUME TypeOK, JobOK, Held, NEW w \in Workers, TryClaimRunning(w)
  PROVE  Held'
<1>0. /\ analysis \in [Recordings -> {"absent", "running", "completed", "failed"}]
      /\ since \in [Recordings -> Int]
      /\ pc \in [Workers -> PCs]
      /\ silent \in [Workers -> 0 .. Late]
      /\ live \in SUBSET Recordings
      /\ job[w] \in Recordings
  BY DEF TypeOK, JobOK, TryClaimRunning
<1>1. PICK d \in Skews : /\ Claimable(job[w], d)
                         /\ since' = [since EXCEPT ![job[w]] = -d]
  BY DEF TryClaimRunning
<1>2. /\ pc[w] = "claim" /\ job[w] \in live
      /\ analysis' = [analysis EXCEPT ![job[w]] = "running"]
      /\ silent' = [silent EXCEPT ![w] = 0]
      /\ pc' = [pc EXCEPT ![w] = "mark"]
      /\ UNCHANGED <<live, job>>
  BY DEF TryClaimRunning
<1>3. ASSUME NEW x \in Workers, pc[x] \in Holding, job[x] = job[w] PROVE FALSE
  <2>1. analysis[job[w]] = "running" /\ since[job[w]] <= silent[x] + MaxSkew /\ silent[x] < Late
    BY <1>2, <1>3 DEF Held, RowOf
  <2>2. since[job[w]] + d > Lease
    BY <1>1, <2>1 DEF Claimable
  <2>3. since[job[w]] \in Int /\ silent[x] \in Nat
    BY <1>0
  <2> QED
    BY <2>1, <2>2, <2>3, FreshIsHeld
<1>4. analysis[job[w]] # "completed"
  BY <1>1 DEF Claimable
<1>5. \A x \in Workers : silent'[x] < Late
  BY <1>0, <1>2, ConstantsAssumption DEF Held, Late
<1>6. ASSUME NEW x \in Workers PROVE RowOf(x)'
  <2>1. RowOf(x)
    BY DEF Held
  <2>2. CASE x = w
    <3>1. pc'[w] = "mark" /\ analysis'[job[w]] = "running" /\ since'[job[w]] = -d /\ silent'[w] = 0
      BY <1>0, <1>1, <1>2
    <3>2. -d <= 0 + MaxSkew
      BY ConstantsAssumption
    <3> QED
      BY <1>2, <2>2, <3>1, <3>2 DEF RowOf
  <2>3. CASE x # w /\ job[x] = job[w]
    <3>1. pc[x] \notin Holding \cup {"emit", "reemit"}
      BY <1>2, <1>3, <1>4, <2>1, <2>3 DEF RowOf
    <3> QED
      BY <1>0, <1>2, <2>3, <3>1 DEF RowOf
  <2>4. CASE x # w /\ job[x] # job[w]
    <3>1. /\ pc'[x] = pc[x] /\ job'[x] = job[x] /\ silent'[x] = silent[x]
          /\ job[x] \in live => analysis'[job[x]] = analysis[job[x]] /\ since'[job[x]] = since[job[x]]
      BY <1>0, <1>1, <1>2, <2>4
    <3> QED
      BY <1>2, <2>1, <3>1 DEF RowOf
  <2> QED
    BY <2>2, <2>3, <2>4
<1>7. Exclusive'
  BY <1>0, <1>2, <1>3 DEF Held, Exclusive
<1> QED
  BY <1>5, <1>6, <1>7 DEF Held

(* A heartbeat makes the row younger, whosever it is.                      *)
LEMMA HeldTouch ==
  ASSUME TypeOK, JobOK, Held, NEW w \in Workers, Touch(w)
  PROVE  Held'
<1>0. /\ analysis \in [Recordings -> {"absent", "running", "completed", "failed"}]
      /\ since \in [Recordings -> Int]
      /\ silent \in [Workers -> 0 .. Late]
      /\ live \in SUBSET Recordings
      /\ job[w] \in Recordings
      /\ MaxSkew \in Nat /\ Late \in Nat \ {0}
  <2>1. MaxSkew \in Nat /\ Late \in Nat \ {0}
    BY ConstantsAssumption DEF Late
  <2>2. job[w] \in Recordings
    BY DEF JobOK, Touch
  <2> QED
    BY <2>1, <2>2 DEF TypeOK
<1>1. silent' = [silent EXCEPT ![w] = 0] /\ UNCHANGED <<live, analysis, pc, job>>
  BY DEF Touch
<1>2. \A r \in Recordings :
        \/ since'[r] = since[r]
        \/ since'[r] <= MaxSkew
  BY <1>0, ConstantsAssumption DEF Touch
<1>3. analysis[job[w]] = "running" => since'[job[w]] <= MaxSkew
  BY <1>0, ConstantsAssumption DEF Touch
<1>4. \A x \in Workers : silent'[x] < Late
  BY <1>0, <1>1 DEF Held
<1>5. ASSUME NEW x \in Workers PROVE RowOf(x)'
  <2>1. RowOf(x)
    BY DEF Held
  <2>2. CASE x = w
    BY <1>0, <1>1, <1>3, <2>1, <2>2 DEF RowOf
  <2>3. CASE x # w
    <3>1. silent'[x] = silent[x] /\ silent[x] \in Nat
      BY <1>0, <1>1, <2>3
    <3>2. job[x] \in live => since'[job[x]] = since[job[x]] \/ since'[job[x]] <= silent[x] + MaxSkew
      <4>1. ASSUME job[x] \in live, since'[job[x]] <= MaxSkew
            PROVE  since'[job[x]] <= silent[x] + MaxSkew
        <5>1. since'[job[x]] \in Int
          BY <1>0, <4>1, ConstantsAssumption DEF Touch
        <5> QED
          BY <1>0, <3>1, <4>1, <5>1
      <4> QED
        BY <1>0, <1>2, <4>1
    <3> QED
      BY <1>1, <2>1, <3>1, <3>2 DEF RowOf
  <2> QED
    BY <2>2, <2>3
<1>6. Exclusive'
  BY <1>1 DEF Held, Exclusive
<1> QED
  BY <1>4, <1>5, <1>6 DEF Held

(* The first statement of FailAnalysis finds nobody else on the row: a job *)
(* that comes to it has not been late, so it still holds the lease.        *)
LEMMA HeldFail ==
  ASSUME TypeOK, JobOK, Held, NEW w \in Workers, FailAnalysis(w)
  PROVE  Held'
<1>0. /\ analysis \in [Recordings -> {"absent", "running", "completed", "failed"}]
      /\ since \in [Recordings -> Int]
      /\ pc \in [Workers -> PCs]
      /\ live \in SUBSET Recordings
      /\ job[w] \in Recordings
  BY DEF TypeOK, JobOK, FailAnalysis
<1>1. /\ pc[w] = "fail1" /\ pc' = [pc EXCEPT ![w] = "fail2"]
      /\ UNCHANGED <<live, job, silent>>
      /\ \A r \in Recordings \ {job[w]} : analysis'[r] = analysis[r] /\ since'[r] = since[r]
  BY <1>0 DEF FailAnalysis
<1>2. job[w] \in live => analysis[job[w]] = "running"
  BY <1>1 DEF Held, RowOf
<1>3. ASSUME NEW x \in Workers PROVE RowOf(x)'
  <2>1. RowOf(x)
    BY DEF Held
  <2>2. CASE x = w
    BY <1>0, <1>1, <2>2 DEF RowOf
  <2>3. CASE x # w /\ job[x] = job[w]
    <3>1. pc[x] \notin Holding
      BY <1>1, <2>3 DEF Held, Exclusive
    <3>2. pc[x] \in {"emit", "reemit"} => job[x] \notin live
      BY <1>2, <2>1, <2>3 DEF RowOf
    <3> QED
      BY <1>0, <1>1, <2>3, <3>1, <3>2 DEF RowOf
  <2>4. CASE x # w /\ job[x] # job[w]
    <3>1. /\ pc'[x] = pc[x] /\ job'[x] = job[x] /\ silent'[x] = silent[x]
          /\ job[x] \in live => analysis'[job[x]] = analysis[job[x]] /\ since'[job[x]] = since[job[x]]
      BY <1>0, <1>1, <2>4
    <3> QED
      BY <1>1, <2>1, <3>1 DEF RowOf
  <2> QED
    BY <2>2, <2>3, <2>4
<1>4. Exclusive'
  BY <1>0, <1>1 DEF Held, Exclusive
<1> QED
  BY <1>1, <1>3, <1>4 DEF Held

(* Time makes a row older by no more than it makes its holder's silence    *)
(* longer, until that is too long.                                         *)
LEMMA HeldTick ==
  ASSUME TypeOK, JobOK, Held, Tick, punctual'
  PROVE  Held'
<1>0. /\ since \in [Recordings -> Int]
      /\ silent \in [Workers -> 0 .. Late]
      /\ live \in SUBSET Recordings
      /\ MaxSkew \in Nat /\ Late \in Nat \ {0} /\ Lease \in Nat
  BY ConstantsAssumption DEF TypeOK, Late
<1>1. \A x \in Workers : silent'[x] < Late
  BY DEF Tick
<1>2. UNCHANGED <<live, analysis, pc, job>>
  BY DEF Tick
<1>3. ASSUME NEW x \in Workers PROVE RowOf(x)'
  <2>1. RowOf(x)
    BY DEF Held
  <2>2. CASE pc[x] \in Holding /\ job[x] \in live
    <3>1. silent'[x] = silent[x] + 1
      BY <1>0, <1>1, <2>2 DEF Tick
    <3>2. since'[job[x]] <= since[job[x]] + 1
      BY <1>0, <2>2 DEF Tick
    <3>3. since'[job[x]] \in Int
      BY <1>0, <2>2 DEF Tick
    <3>4. since[job[x]] <= silent[x] + MaxSkew /\ analysis[job[x]] = "running"
      BY <2>1, <2>2 DEF RowOf
    <3>5. since'[job[x]] <= silent'[x] + MaxSkew
      BY <1>0, <2>2, <3>1, <3>2, <3>3, <3>4
    <3> QED
      BY <1>2, <2>2, <3>4, <3>5 DEF RowOf
  <2>3. CASE ~(pc[x] \in Holding /\ job[x] \in live)
    BY <1>2, <2>1, <2>3 DEF RowOf
  <2> QED
    BY <2>2, <2>3
<1>4. Exclusive'
  BY <1>2 DEF Held, Exclusive
<1> QED
  BY <1>1, <1>3, <1>4 DEF Held

(* Every step keeps what a job may rely on while nobody is late.           *)
LEMMA LeaseStep == TypeOK /\ JobOK /\ LeaseOK /\ [Next]_vars => LeaseOK'
<1> SUFFICES ASSUME TypeOK, JobOK, LeaseOK, [Next]_vars, punctual' PROVE Held'
  BY DEF LeaseOK
<1>0. /\ pc \in [Workers -> PCs]
      /\ job \in [Workers -> Recordings \cup {NoRecording}]
      /\ silent \in [Workers -> 0 .. Late]
      /\ \A w \in Workers : pc[w] \notin {"down", "idle"} => job[w] \in Recordings
  BY DEF TypeOK, JobOK
<1>1. punctual
  <2>1. CASE Tick
    BY <2>1, Zenon DEF Tick
  <2>2. CASE ~Tick
    BY <2>2, ZenonT(30)
       DEF Next, vars, Step, EmitFrames, DeleteRecording, Fetch, GetAnalysis, TryClaimRunning,
           ClaimRefused, Recheck, Reget, ReadReport, Reemit, MarkGenerating, Analyze,
           CompleteAnalysis, FailAnalysis, FailReport, StoreError, CommitMessage, Retry,
           DeadLetter, Touch, Crash, Shutdown, Stop, Restart, Release
  <2> QED
    BY <2>1, <2>2
<1>2. Held
  BY <1>1 DEF LeaseOK
<1>3. ASSUME NEW r \in Recordings, DeleteRecording(r) PROVE Held'
  <2>1. /\ live' = live \ {r}
        /\ analysis' = [analysis EXCEPT ![r] = "absent"]
        /\ since' = [since EXCEPT ![r] = 0]
        /\ UNCHANGED <<pc, job, silent>>
    BY <1>3 DEF DeleteRecording
  <2>2. ASSUME NEW x \in Workers PROVE RowOf(x)'
    <3>1. RowOf(x)
      BY <1>2 DEF Held
    <3>2. job[x] \in live' => /\ analysis'[job[x]] = analysis[job[x]]
                              /\ since'[job[x]] = since[job[x]] /\ job[x] \in live
      BY <2>1 DEF TypeOK
    <3> QED
      BY <2>1, <3>1, <3>2 DEF RowOf
  <2> QED
    BY <1>2, <2>1, <2>2 DEF Held, Exclusive
<1>4. ASSUME NEW w \in Workers, Reemit(w) \/ CompleteAnalysis(w) PROVE Held'
  <2>1. /\ pc[w] \in {"complete", "reemit"}
        /\ \E ai, full : CompleteRows(job[w], ai, full)
        /\ \E l \in {"ok", "fail"} : pc' = [pc EXCEPT ![w] = l]
        /\ UNCHANGED <<live, job, silent>>
    <3>1. CASE Reemit(w)
      BY <3>1, Zenon DEF Reemit
    <3>2. CASE CompleteAnalysis(w)
      BY <3>2, Zenon DEF CompleteAnalysis
    <3> QED
      BY <1>4, <3>1, <3>2
  <2>2. /\ job[w] \in live
        /\ analysis' = [analysis EXCEPT ![job[w]] = "completed"]
        /\ \E d \in Skews : since' = [since EXCEPT ![job[w]] = -d]
    BY <2>1, Zenon DEF CompleteRows
  <2> QED
    BY <1>2, <2>1, <2>2, HeldComplete
<1>5. ASSUME NEW w \in Workers,
             \/ GetAnalysis(w) \/ ClaimRefused(w) \/ Recheck(w) \/ Reget(w) \/ ReadReport(w)
             \/ MarkGenerating(w) \/ Analyze(w) \/ FailReport(w) \/ StoreError(w) \/ Restart(w)
      PROVE  Held'
  <2>1. UNCHANGED <<live, analysis, since, job, silent>>
    BY <1>5, Zenon DEF GetAnalysis, ClaimRefused, Recheck, Reget, ReadReport, MarkGenerating,
                Analyze, FailReport, StoreError, Restart
  <2>2. \E l \in PCs :
          /\ pc' = [pc EXCEPT ![w] = l]
          /\ l \in Holding => pc[w] \in Holding
          /\ l \in {"emit", "reemit"} =>
               pc[w] \in {"emit", "reemit"} \/ analysis[job[w]] = "completed"
    BY <1>5 DEF GetAnalysis, ClaimRefused, Recheck, Reget, ReadReport, MarkGenerating,
                Analyze, FailReport, StoreError, Restart
  <2> QED
    BY <1>0, <1>2, <2>1, <2>2, HeldFrame
<1>6. ASSUME NEW w \in Workers,
             \/ CommitMessage(w) \/ Retry(w) \/ DeadLetter(w) \/ Crash(w) \/ Shutdown(w)
             \/ \E r \in Recordings : Fetch(w, r)
      PROVE  Held'
  <2>1. UNCHANGED <<live, analysis, since>>
    BY <1>6, Zenon DEF CommitMessage, Retry, DeadLetter, Crash, Shutdown, Stop, Fetch
  <2>2. /\ \E l \in {"idle", "get", "down"} : pc' = [pc EXCEPT ![w] = l]
        /\ \A x \in Workers \ {w} : job'[x] = job[x] /\ silent'[x] = silent[x]
        /\ silent'[w] \in {silent[w], 0}
    BY <1>0, <1>6 DEF CommitMessage, Retry, DeadLetter, Crash, Shutdown, Stop, Fetch, Release
  <2>3. pc'[w] \in {"idle", "get", "down"} /\ \A x \in Workers \ {w} : pc'[x] = pc[x]
    BY <1>0, <2>2
  <2> QED
    BY <1>2, <2>1, <2>2, <2>3, HeldFrame
<1>7. CASE (\E r \in Recordings : EmitFrames(r)) \/ UNCHANGED vars
  <2>1. UNCHANGED <<live, analysis, since, pc, job, silent>>
    BY <1>7, Zenon DEF EmitFrames, vars
  <2> QED
    BY <1>2, <2>1 DEF Held, RowOf, Exclusive
<1> QED
  BY <1>2, <1>3, <1>4, <1>5, <1>6, <1>7, HeldClaim, HeldTouch, HeldFail, HeldTick
     DEF Next, Step

-------------------------------------------------------------------------------
(* Theorems. *)

(* The inductive invariant holds throughout.                               *)
LEMMA Inductive == Spec => []IndInv
<1>1. Init => IndInv
  BY TypeInit, JobInit, ContentInit, LeaseInit DEF IndInv
<1>2. IndInv /\ [Next]_vars => IndInv'
  BY TypeStep, JobStep, ContentStep, LeaseStep DEF IndInv
<1> QED
  BY <1>1, <1>2, PTL DEF Spec

(* Every variable of the AI worker model keeps its type.                   *)
THEOREM TypeCorrect == Spec => []TypeOK
<1>1. IndInv => TypeOK
  BY DEF IndInv
<1> QED
  BY <1>1, Inductive, PTL

(* A persisted result (CompleteAnalysis) is never erased by late workers,  *)
(* replays or failures: READY and completed mean content.                  *)
THEOREM ResultsAreKept == Spec => []ReadyHasContent
<1>1. IndInv => ReadyHasContent
  BY DEF IndInv, ContentOK
<1> QED
  BY <1>1, Inductive, PTL

(* ReportGenerated (buildOutboxEvents) is announced only for a report that *)
(* has its content, however often it is announced again.                   *)
THEOREM AnnouncedAreFilled == Spec => []AnnouncedHasContent
<1>1. IndInv => AnnouncedHasContent
  BY DEF IndInv, ContentOK
<1> QED
  BY <1>1, Inductive, PTL

(* The ownerless lease in updated_at (TryClaimRunning, TouchRunning) keeps *)
(* two workers from analysing a recording at once, for any lease and any   *)
(* clock error of at most half of it, as long as no heartbeat is late.     *)
THEOREM OneAnalysis == Spec => []ExclusiveAnalysis
<1>1. IndInv => ExclusiveAnalysis
  BY DEF IndInv, LeaseOK, Held, Exclusive, ExclusiveAnalysis
<1> QED
  BY <1>1, Inductive, PTL

(* What the report of a recording shows while nobody has been late and no   *)
(* failure was reported after the next claim: it is READY exactly when its  *)
(* analysis is completed, a worker between its mark and its result finds    *)
(* it GENERATING, and one between the two statements of FailAnalysis finds  *)
(* it at all.                                                               *)
ShownOf(r) ==
  /\ analysis[r] = "completed" <=> report[r] = "READY"
  /\ report[r] = "READY" => r \in generated

MarkOf(w) ==
  job[w] \in live \ outrun =>
    /\ pc[w] \in {"analyze", "complete", "fail1"} => report[job[w]] = "GENERATING"
    /\ pc[w] = "fail2" => report[job[w]] # "absent"

Shown ==
  /\ \A r \in live \ outrun : ShownOf(r)
  /\ \A w \in Workers : MarkOf(w)

ShownOK == punctual => Shown

(* Initially there is no report and no analysis.                           *)
LEMMA ShownInit == Init => ShownOK
  BY DEF Init, ShownOK, Shown, ShownOf, MarkOf

(* Once late, always late; and a failure that came too late is not         *)
(* forgotten.                                                              *)
LEMMA HistoryStep ==
  ASSUME [Next]_vars
  PROVE  (punctual' => punctual) /\ outrun \subseteq outrun'
<1>1. CASE Tick
  <2>1. (punctual' => punctual) /\ outrun' = outrun
    BY <1>1, Zenon DEF Tick
  <2> QED
    BY <2>1
<1>2. CASE \E w \in Workers : FailReport(w)
  BY <1>2 DEF FailReport
<1>3. CASE ~Tick /\ ~ \E w \in Workers : FailReport(w)
  <2>1. punctual' = punctual /\ outrun' = outrun
    BY <1>3, ZenonT(30)
       DEF Next, vars, Step, EmitFrames, DeleteRecording, Fetch, GetAnalysis, TryClaimRunning,
           ClaimRefused, Recheck, Reget, ReadReport, Reemit, MarkGenerating, Analyze,
           CompleteAnalysis, FailAnalysis, StoreError, CommitMessage, Retry,
           DeadLetter, Touch, Crash, Shutdown, Stop, Restart, Release
  <2> QED
    BY <2>1
<1> QED
  BY <1>1, <1>2, <1>3

(* A step that leaves report and analysis alone, and takes a worker to its *)
(* statements only from the place before.                                  *)
LEMMA ShownFrame ==
  ASSUME TypeOK, Shown, NEW w \in Workers,
         UNCHANGED <<live, analysis, report, filled, generated, outrun>>,
         \A x \in Workers \ {w} : pc'[x] = pc[x] /\ job'[x] = job[x],
         \/ pc'[w] = pc[w] /\ job'[w] = job[w]
         \/ pc'[w] \notin {"analyze", "complete", "fail1", "fail2"}
         \/ /\ pc'[w] \in {"complete", "fail1"} /\ pc[w] = "analyze"
            /\ job'[w] = job[w]
  PROVE  Shown' /\ \A r \in Recordings : Lifecycle!Move(r)
<1>1. ASSUME NEW x \in Workers PROVE MarkOf(x)'
  BY DEF Shown, MarkOf
<1>2. \A r \in live' \ outrun' : ShownOf(r)'
  BY DEF Shown, ShownOf
<1>3. \A r \in Recordings : Lifecycle!Move(r)
  BY DEF Lifecycle!Move, Lifecycle!Stay, Lifecycle!KeepsContent, Lifecycle!Announced
<1> QED
  BY <1>1, <1>2, <1>3 DEF Shown

(* A step about one recording leaves what the others show.                 *)
LEMMA ShownOthers ==
  ASSUME TypeOK, Shown, NEW q \in Recordings,
         UNCHANGED job, outrun \subseteq outrun', live' \subseteq live,
         \A r \in Recordings \ {q} :
           /\ r \in live' <=> r \in live
           /\ analysis'[r] = analysis[r] /\ report'[r] = report[r]
           /\ r \in filled' <=> r \in filled
           /\ r \in generated' <=> r \in generated,
         \A x \in Workers : job[x] # q => pc'[x] = pc[x],
         q \in live' \ outrun' => ShownOf(q)',
         q \in live' \ outrun' => \A x \in Workers : job[x] = q => MarkOf(x)',
         q \in outrun' \/ Lifecycle!Move(q)
  PROVE  Shown' /\ \A r \in Recordings \ outrun' : Lifecycle!Move(r)
<1>1. ASSUME NEW x \in Workers PROVE MarkOf(x)'
  <2>1. CASE job[x] = q
    BY <2>1 DEF MarkOf
  <2>2. CASE job[x] # q
    BY <2>2 DEF Shown, MarkOf, TypeOK
  <2> QED
    BY <2>1, <2>2
<1>2. ASSUME NEW r \in live' \ outrun' PROVE ShownOf(r)'
  <2>1. CASE r = q
    BY <1>2, <2>1
  <2>2. CASE r # q
    <3>1. r \in Recordings \ {q} /\ r \in live \ outrun
      BY <1>2, <2>2 DEF TypeOK
    <3> QED
      BY <3>1 DEF Shown, ShownOf
  <2> QED
    BY <2>1, <2>2
<1>3. ASSUME NEW r \in Recordings \ outrun' PROVE Lifecycle!Move(r)
  BY DEF Lifecycle!Move, Lifecycle!Stay, Lifecycle!KeepsContent, Lifecycle!Announced
<1> QED
  BY <1>1, <1>2, <1>3 DEF Shown

(* MarkGenerating: the worker's claim is running, so the report is not     *)
(* READY, and nobody else counts on it.                                    *)
LEMMA ShownMark ==
  ASSUME IndInv, Held, Shown, NEW w \in Workers, MarkGenerating(w)
  PROVE  Shown' /\ \A r \in Recordings \ outrun' : Lifecycle!Move(r)
<1>0. TypeOK /\ JobOK
  BY DEF IndInv
<1> DEFINE q == job[w]
<1>1. /\ pc[w] = "mark" /\ q \in live /\ q \in Recordings
      /\ report' = [report EXCEPT ![q] = "GENERATING"]
      /\ pc' = [pc EXCEPT ![w] = "analyze"]
      /\ UNCHANGED <<live, analysis, filled, generated, job, outrun>>
  BY <1>0 DEF MarkGenerating, JobOK
<1>2. report'[q] = "GENERATING" /\ \A r \in Recordings \ {q} : report'[r] = report[r]
  BY <1>0, <1>1 DEF TypeOK
<1>3. analysis[q] = "running"
  BY <1>1 DEF Held, RowOf
<1>4. q \in live \ outrun => ShownOf(q)'
  BY <1>1, <1>2, <1>3 DEF ShownOf
<1>5. ASSUME NEW x \in Workers, job[x] = q PROVE MarkOf(x)'
  BY <1>1, <1>2, <1>5 DEF MarkOf
<1>6. q \in outrun' \/ Lifecycle!Move(q)
  <2>1. q \in outrun \/ report[q] # "READY"
    BY <1>1, <1>3 DEF Shown, ShownOf
  <2>2. report[q] \in {"absent", "GENERATING", "FAILED", "READY"}
    BY <1>0, <1>1 DEF TypeOK
  <2> QED
    BY <1>1, <1>2, <2>1, <2>2
       DEF Lifecycle!Move, Lifecycle!Start, Lifecycle!Stay, Lifecycle!Changes,
           Lifecycle!KeepsContent, Lifecycle!Announced
<1>7. \A x \in Workers : job[x] # q => pc'[x] = pc[x]
  BY <1>0, <1>1 DEF TypeOK
<1> QED
  BY <1>0, <1>1, <1>2, <1>4, <1>5, <1>6, <1>7, ShownOthers

(* CompleteRows: the holder's report is GENERATING and becomes READY, or a *)
(* replay finds it READY and stays there; no other holder counts on it.    *)
LEMMA ShownComplete ==
  ASSUME IndInv, Held, Shown, NEW w \in Workers,
         Reemit(w) \/ CompleteAnalysis(w)
  PROVE  Shown' /\ \A r \in Recordings \ outrun' : Lifecycle!Move(r)
<1>0. TypeOK /\ JobOK /\ ContentOK
  BY DEF IndInv
<1> DEFINE q == job[w]
<1>1. /\ pc[w] \in {"complete", "reemit"} /\ q \in live
      /\ analysis' = [analysis EXCEPT ![q] = "completed"]
      /\ report' = [report EXCEPT ![q] = "READY"]
      /\ filled' = filled \cup {q}
      /\ generated' = generated \cup {q}
      /\ \E l \in {"ok", "fail"} : pc' = [pc EXCEPT ![w] = l]
      /\ UNCHANGED <<live, job, outrun>>
  <2>1. CASE Reemit(w)
    <3>1. /\ pc[w] = "reemit" /\ CompleteRows(q, copy[w].ai, copy[w].filled)
          /\ \E l \in {"ok", "fail"} : pc' = [pc EXCEPT ![w] = l]
          /\ UNCHANGED <<live, job, outrun>>
      BY <2>1, Zenon DEF Reemit
    <3>2. q \in live
      BY <3>1, Zenon DEF CompleteRows
    <3>3. copy[w].filled
      BY <1>0, <3>1, <3>2 DEF ContentOK, ReplayOf
    <3> QED
      BY <3>1, <3>2, <3>3 DEF CompleteRows
  <2>2. CASE CompleteAnalysis(w)
    <3>1. /\ pc[w] = "complete" /\ CompleteRows(q, "completed", TRUE)
          /\ \E l \in {"ok", "fail"} : pc' = [pc EXCEPT ![w] = l]
          /\ UNCHANGED <<live, job, outrun>>
      BY <2>2, Zenon DEF CompleteAnalysis
    <3> QED
      BY <3>1 DEF CompleteRows
  <2> QED
    BY <2>1, <2>2
<1>2. /\ q \in Recordings
      /\ analysis'[q] = "completed" /\ report'[q] = "READY"
      /\ \A r \in Recordings \ {q} : analysis'[r] = analysis[r] /\ report'[r] = report[r]
      /\ pc'[w] \in {"ok", "fail"} /\ \A x \in Workers \ {w} : pc'[x] = pc[x]
  BY <1>0, <1>1 DEF TypeOK, JobOK
<1>3. q \in live \ outrun => ShownOf(q)'
  BY <1>1, <1>2 DEF ShownOf
<1>4. ASSUME NEW x \in Workers, job[x] = q PROVE MarkOf(x)'
  <2>1. pc'[x] \notin {"analyze", "complete", "fail1"}
    <3>1. CASE x = w
      BY <1>2, <3>1
    <3>2. CASE x # w /\ pc[w] = "complete"
      BY <1>2, <1>4, <3>2 DEF Held, Exclusive
    <3>3. CASE x # w /\ pc[w] = "reemit"
      BY <1>1, <1>2, <1>4, <3>3 DEF Held, RowOf
    <3> QED
      BY <1>1, <3>1, <3>2, <3>3
  <2> QED
    BY <1>1, <1>2, <1>4, <2>1 DEF MarkOf
<1>5. q \in outrun' \/ Lifecycle!Move(q)
  <2>1. CASE q \notin outrun /\ pc[w] = "complete"
    <3>1. report[q] = "GENERATING"
      BY <1>1, <2>1 DEF Shown, MarkOf
    <3> QED
      BY <1>1, <1>2, <3>1 DEF Lifecycle!Move, Lifecycle!Publish, Lifecycle!Changes
  <2>2. CASE q \notin outrun /\ pc[w] = "reemit"
    <3>1. analysis[q] = "completed"
      BY <1>1, <2>2 DEF Held, RowOf
    <3>2. report[q] = "READY" /\ q \in generated
      BY <1>1, <2>2, <3>1 DEF Shown, ShownOf
    <3>3. q \in filled
      BY <1>0, <1>2, <3>2 DEF ContentOK, ReadyHasContent
    <3> QED
      BY <1>1, <1>2, <3>2, <3>3
         DEF Lifecycle!Move, Lifecycle!Stay, Lifecycle!KeepsContent, Lifecycle!Announced
  <2> QED
    BY <1>1, <2>1, <2>2
<1>6. \A x \in Workers : job[x] # q => pc'[x] = pc[x]
  BY <1>2
<1> QED
  BY <1>0, <1>1, <1>2, <1>3, <1>4, <1>5, <1>6, ShownOthers

(* A claim and the first statement of FailAnalysis change the analysis     *)
(* alone: neither begins nor ends at "completed".                          *)
LEMMA ShownAnalysis ==
  ASSUME IndInv, Held, Shown, NEW w \in Workers,
         TryClaimRunning(w) \/ FailAnalysis(w)
  PROVE  Shown' /\ \A r \in Recordings \ outrun' : Lifecycle!Move(r)
<1>0. TypeOK /\ JobOK
  BY DEF IndInv
<1> DEFINE q == job[w]
<1>1. /\ pc[w] \in {"claim", "fail1"} /\ q \in Recordings
      /\ UNCHANGED <<live, report, filled, generated, job, outrun>>
      /\ \A r \in Recordings \ {q} : analysis'[r] = analysis[r]
      /\ pc'[w] = IF pc[w] = "claim" THEN "mark" ELSE "fail2"
      /\ \A x \in Workers \ {w} : pc'[x] = pc[x]
  BY <1>0 DEF TypeOK, JobOK, TryClaimRunning, FailAnalysis
<1>2. q \in live => analysis[q] # "completed" /\ analysis'[q] # "completed"
  <2>1. CASE TryClaimRunning(w)
    BY <1>0, <1>1, <2>1 DEF TypeOK, TryClaimRunning, Claimable
  <2>2. CASE FailAnalysis(w)
    <3>1. q \in live => analysis[q] = "running"
      BY <2>2 DEF FailAnalysis, Held, RowOf
    <3> QED
      BY <1>0, <1>1, <2>2, <3>1 DEF TypeOK, FailAnalysis
  <2> QED
    BY <2>1, <2>2
<1>3. q \in live \ outrun => ShownOf(q)'
  BY <1>1, <1>2 DEF Shown, ShownOf
<1>4. ASSUME NEW x \in Workers, job[x] = q PROVE MarkOf(x)'
  BY <1>1, <1>4 DEF Shown, MarkOf
<1>5. Lifecycle!Move(q)
  BY <1>1 DEF Lifecycle!Move, Lifecycle!Stay, Lifecycle!KeepsContent, Lifecycle!Announced
<1>6. \A x \in Workers : job[x] # q => pc'[x] = pc[x]
  BY <1>1
<1> QED
  BY <1>0, <1>1, <1>3, <1>4, <1>5, <1>6, ShownOthers

(* The second statement of FailAnalysis: the analysis is still failed, so  *)
(* nobody holds it and the report is GENERATING or FAILED; or it is not,   *)
(* and the failure is outrun.                                              *)
LEMMA ShownFail ==
  ASSUME IndInv, Held, Shown, NEW w \in Workers, FailReport(w)
  PROVE  Shown' /\ \A r \in Recordings \ outrun' : Lifecycle!Move(r)
<1>0. TypeOK /\ JobOK
  BY DEF IndInv
<1> DEFINE q == job[w]
<1>1. /\ pc[w] = "fail2" /\ q \in Recordings
      /\ UNCHANGED <<live, analysis, filled, generated, job>>
      /\ pc'[w] = "fail" /\ \A x \in Workers \ {w} : pc'[x] = pc[x]
      /\ outrun \subseteq outrun'
  BY <1>0 DEF TypeOK, JobOK, FailReport
<1>2. CASE q \notin live
  <2>1. UNCHANGED <<report, outrun>>
    BY <1>2 DEF FailReport
  <2> QED
    BY <1>0, <1>1, <2>1, ShownFrame
<1>3. CASE q \in live
  <2>1. /\ report' = [report EXCEPT ![q] = "FAILED"]
        /\ q \in outrun' \/ analysis[q] = "failed"
    BY <1>3 DEF FailReport
  <2>2. report'[q] = "FAILED" /\ \A r \in Recordings \ {q} : report'[r] = report[r]
    BY <1>0, <1>1, <2>1 DEF TypeOK
  <2>3. q \in live \ outrun' => ShownOf(q)'
    BY <1>1, <2>1, <2>2 DEF ShownOf
  <2>4. ASSUME NEW x \in Workers, job[x] = q, q \notin outrun' PROVE MarkOf(x)'
    <3>1. pc'[x] \notin {"analyze", "complete", "fail1"}
      BY <1>1, <1>3, <2>1, <2>4 DEF Held, RowOf
    <3> QED
      BY <1>1, <2>2, <2>4, <3>1 DEF MarkOf
  <2>5. q \in outrun' \/ Lifecycle!Move(q)
    <3>1. CASE q \notin outrun'
      <4>1. report[q] \notin {"absent", "READY"}
        BY <1>1, <1>3, <2>1, <3>1 DEF Shown, ShownOf, MarkOf
      <4>2. report[q] \in {"GENERATING", "FAILED"}
        BY <1>0, <1>1, <4>1 DEF TypeOK
      <4> QED
        BY <1>1, <1>3, <2>2, <4>2
           DEF Lifecycle!Move, Lifecycle!Fail, Lifecycle!Stay, Lifecycle!Changes,
               Lifecycle!KeepsContent, Lifecycle!Announced
    <3> QED
      BY <3>1
  <2>6. \A x \in Workers : job[x] # q => pc'[x] = pc[x]
    BY <1>1
  <2> QED
    BY <1>0, <1>1, <2>2, <2>3, <2>4, <2>5, <2>6, ShownOthers
<1> QED
  BY <1>2, <1>3

(* Every step of workers that have not been late is a move of the life     *)
(* cycle for every recording whose failures came in time.                  *)
LEMMA ShownStep ==
  ASSUME IndInv, ShownOK, [Next]_vars, punctual'
  PROVE  Shown' /\ \A r \in Recordings \ outrun' : Lifecycle!Move(r)
<1>0. /\ TypeOK /\ JobOK /\ Held /\ Shown
      /\ pc \in [Workers -> PCs]
      /\ job \in [Workers -> Recordings \cup {NoRecording}]
  BY HistoryStep DEF IndInv, TypeOK, LeaseOK, ShownOK
<1>1. ASSUME NEW r \in Recordings, DeleteRecording(r)
      PROVE  Shown' /\ \A q \in Recordings \ outrun' : Lifecycle!Move(q)
  <2>1. /\ r \in live /\ live' = live \ {r}
        /\ report' = [report EXCEPT ![r] = "absent"]
        /\ analysis' = [analysis EXCEPT ![r] = "absent"]
        /\ filled' = filled \ {r}
        /\ UNCHANGED <<generated, pc, job, outrun>>
    BY <1>1 DEF DeleteRecording
  <2>2. Lifecycle!Move(r)
    BY <1>0, <2>1 DEF TypeOK, Lifecycle!Move, Lifecycle!Delete, Lifecycle!Announced
  <2>3. \A q \in Recordings \ {r} : analysis'[q] = analysis[q] /\ report'[q] = report[q]
    BY <1>0, <2>1 DEF TypeOK
  <2> QED
    BY <1>0, <2>1, <2>2, <2>3, ShownOthers
<1>2. ASSUME NEW w \in Workers,
             \/ GetAnalysis(w) \/ ClaimRefused(w) \/ Recheck(w) \/ Reget(w) \/ ReadReport(w)
             \/ Analyze(w) \/ StoreError(w) \/ Restart(w)
      PROVE  Shown' /\ \A r \in Recordings \ outrun' : Lifecycle!Move(r)
  <2>1. UNCHANGED <<live, analysis, report, filled, generated, job, outrun>>
    BY <1>2, Zenon DEF GetAnalysis, ClaimRefused, Recheck, Reget, ReadReport, Analyze, StoreError,
              Restart
  <2>2. \/ pc[w] = "analyze" /\ \E l \in {"complete", "fail1"} : pc' = [pc EXCEPT ![w] = l]
        \/ \E l \in PCs \ {"analyze", "complete", "fail1", "fail2"} :
             pc' = [pc EXCEPT ![w] = l]
    <3>1. CASE Analyze(w)
      BY <3>1 DEF Analyze
    <3>2. CASE GetAnalysis(w) \/ ClaimRefused(w) \/ Recheck(w) \/ Reget(w)
      BY <3>2 DEF GetAnalysis, ClaimRefused, Recheck, Reget
    <3>3. CASE ReadReport(w) \/ StoreError(w) \/ Restart(w)
      BY <3>3 DEF ReadReport, StoreError, Restart
    <3> QED
      BY <1>2, <3>1, <3>2, <3>3
  <2>3. /\ \A x \in Workers \ {w} : pc'[x] = pc[x] /\ job'[x] = job[x]
        /\ \/ pc'[w] \notin {"analyze", "complete", "fail1", "fail2"}
           \/ pc'[w] \in {"complete", "fail1"} /\ pc[w] = "analyze" /\ job'[w] = job[w]
    BY <1>0, <2>1, <2>2
  <2> QED
    BY <1>0, <2>1, <2>3, ShownFrame
<1>3. ASSUME NEW w \in Workers,
             \/ CommitMessage(w) \/ Retry(w) \/ DeadLetter(w) \/ Crash(w) \/ Shutdown(w)
             \/ \E r \in Recordings : Fetch(w, r)
      PROVE  Shown' /\ \A r \in Recordings \ outrun' : Lifecycle!Move(r)
  <2>1. UNCHANGED <<live, analysis, report, filled, generated, outrun>>
    BY <1>3, Zenon DEF CommitMessage, Retry, DeadLetter, Crash, Shutdown, Stop, Fetch, Release
  <2>2. /\ \E l \in {"idle", "get", "down"} : pc' = [pc EXCEPT ![w] = l]
        /\ \A x \in Workers \ {w} : job'[x] = job[x]
    BY <1>0, <1>3 DEF CommitMessage, Retry, DeadLetter, Crash, Shutdown, Stop, Fetch, Release
  <2>3. pc'[w] \in {"idle", "get", "down"} /\ \A x \in Workers \ {w} : pc'[x] = pc[x]
    BY <1>0, <2>2
  <2> QED
    BY <1>0, <2>1, <2>2, <2>3, ShownFrame
<1>4. CASE \/ \E r \in Recordings : EmitFrames(r)
           \/ \E w \in Workers : Touch(w)
           \/ Tick
           \/ UNCHANGED vars
  <2>1. UNCHANGED <<live, analysis, report, filled, generated, pc, job, outrun>>
    BY <1>4, Zenon DEF EmitFrames, Touch, Tick, vars
  <2>2. Shown'
    BY <1>0, <2>1 DEF Shown, ShownOf, MarkOf
  <2>3. \A r \in Recordings : Lifecycle!Move(r)
    BY <2>1 DEF Lifecycle!Move, Lifecycle!Stay, Lifecycle!KeepsContent, Lifecycle!Announced
  <2> QED
    BY <2>2, <2>3
<1> QED
  BY <1>0, <1>1, <1>2, <1>3, <1>4, ShownMark, ShownComplete, ShownAnalysis, ShownFail
     DEF Next, Step

(* The report of a recording (MarkGenerating, CompleteAnalysis,            *)
(* FailAnalysis) makes only the moves of its documented life cycle, for    *)
(* any number of workers, as long as no heartbeat is late and no failure   *)
(* is reported after the next claim.                                       *)
THEOREM ReportsMoveLegally == Spec => LegalTransitions
<1>1. Init => ShownOK
  BY ShownInit
<1>2. IndInv /\ ShownOK /\ [Next]_vars => ShownOK'
  BY ShownStep DEF ShownOK
<1>3. IndInv /\ ShownOK /\ [Next]_vars =>
        [\A r \in Recordings : punctual' /\ r \notin outrun' => Lifecycle!Move(r)]_vars
  BY ShownStep
<1> QED
  BY <1>1, <1>2, <1>3, Inductive, PTL DEF Spec, LegalTransitions

(* Workers that are never late and never outrun implement the documented   *)
(* life cycle.                                                             *)
THEOREM ImplementsReportLifecycle ==
  Spec /\ [](punctual /\ outrun = {}) => Lifecycle!Spec
<1>1. Init => Lifecycle!Init
  BY DEF Init, Lifecycle!Init
<1>2. /\ [\A r \in Recordings : punctual' /\ r \notin outrun' => Lifecycle!Move(r)]_vars
      /\ (punctual /\ outrun = {})'
      => [Lifecycle!Next]_(Lifecycle!reportVars)
  BY DEF vars, Lifecycle!Next, Lifecycle!reportVars
<1> QED
  BY <1>1, <1>2, ReportsMoveLegally, PTL DEF Spec, LegalTransitions, Lifecycle!Spec

-------------------------------------------------------------------------------
(* The frames of an analysis: the indices Spaced(n, max, i) that Select    *)
(* draws, and what its loop makes of them.                                 *)

(* Integer division: the quotient and the remainder.                       *)
LEMMA Division ==
  ASSUME NEW a \in Nat, NEW d \in Nat \ {0}
  PROVE  /\ a \div d \in Nat /\ a % d \in 0 .. d - 1
         /\ a = d * (a \div d) + (a % d)
  OBVIOUS

(* How far it is from another number times the divisor.                    *)
LEMMA Quotient ==
  ASSUME NEW d \in Nat \ {0}, NEW q \in Int, NEW p \in Int,
         NEW r \in 0 .. d - 1, NEW s \in Int, d * q + r = d * p + s
  PROVE  /\ 0 <= s => p <= q
         /\ s < d => q <= p
<1>1. \A k \in Int : k >= 1 => d * k >= d
  OBVIOUS
<1>2. /\ d * q = d * p + (s - r)
      /\ d * (q - p) = d * q - d * p /\ d * (p - q) = d * p - d * q
  OBVIOUS
<1>3. ASSUME p > q, 0 <= s PROVE FALSE
  <2>1. d * (p - q) >= d
    BY <1>1, <1>3
  <2> QED
    BY <1>2, <1>3, <2>1
<1>4. ASSUME q > p, s < d PROVE FALSE
  <2>1. d * (q - p) >= d
    BY <1>1, <1>4
  <2> QED
    BY <1>2, <1>4, <2>1
<1> QED
  BY <1>3, <1>4

(* keyframes.Select, for every number of frames and every limit: the       *)
(* indices it computes are within the recording, run from its first frame  *)
(* to its last one and never repeat, so that the loop skips none; two gaps *)
(* between neighbours differ by at most one frame.                         *)
THEOREM IndicesSpread ==
  ASSUME NEW n \in Nat, NEW max \in Nat, 1 < max, max < n
  PROVE  /\ Spaced(n, max, 0) = 0 /\ Spaced(n, max, max - 1) = n - 1
         /\ \A i \in 0 .. max - 1 : Spaced(n, max, i) \in 0 .. n - 1
         /\ \A i, j \in 0 .. max - 1 :
              i < j => Spaced(n, max, i) < Spaced(n, max, j)
         /\ \A i, j \in 0 .. max - 2 :
              (Spaced(n, max, i + 1) - Spaced(n, max, i))
                - (Spaced(n, max, j + 1) - Spaced(n, max, j)) <= 1
<1> DEFINE m == n - 1
           d == max - 1
           S(i) == Spaced(n, max, i)
           R(i) == (i * m) % d
           g == m \div d
           e == m % d
<1>1. m \in Nat /\ d \in Nat \ {0} /\ d < m
  OBVIOUS
<1>2. ASSUME NEW i \in 0 .. max - 1
      PROVE  S(i) \in Nat /\ R(i) \in 0 .. d - 1 /\ i * m = d * S(i) + R(i)
  <2>1. i \in Nat /\ i * m \in Nat
    BY <1>1
  <2>2. S(i) = (i * m) \div d
    BY DEF Spaced
  <2> QED
    BY <1>1, <2>1, <2>2, Division, ZenonT(30)
<1>3. g \in Nat /\ e \in 0 .. d - 1 /\ m = d * g + e
  BY <1>1, Division
<1> HIDE DEF m, d, S, R, g, e
<1>4. ASSUME NEW i \in 0 .. max - 1, NEW p \in Int, NEW s \in Int,
             i * m = d * p + s
      PROVE  /\ 0 <= s => p <= S(i)
             /\ s < d => S(i) <= p
  <2>1. S(i) \in Int /\ R(i) \in 0 .. d - 1 /\ d \in Nat \ {0}
    BY <1>1, <1>2
  <2>2. d * S(i) + R(i) = d * p + s
    BY <1>2, <1>4
  <2> QED
    BY <2>1, <2>2, Quotient
<1>5. d = max - 1 /\ 0 \in 0 .. max - 1 /\ d \in 0 .. max - 1
  BY DEF d
<1>6. S(0) = 0
  <2>1. 0 * m = d * 0 + 0
    BY <1>1
  <2> QED
    BY <1>1, <1>2, <1>4, <1>5, <2>1
<1>7. S(d) = m
  <2>1. d * m = d * m + 0 /\ m \in Int /\ 0 \in Int
    BY <1>1
  <2>2. m <= S(d) /\ S(d) <= m
    BY <1>1, <1>4, <1>5, <2>1
  <2>3. S(d) \in Nat
    BY <1>2, <1>5
  <2> QED
    BY <2>1, <2>2, <2>3
<1>8. ASSUME NEW i \in 0 .. max - 1 PROVE S(i) \in 0 .. m
  <2>1. i \in Nat /\ i <= d
    BY <1>5
  <2>2. i * m <= d * m /\ i * m \in Int /\ d * m \in Int
    BY <1>1, <2>1
  <2>3. i * m = d * m + (i * m - d * m) /\ i * m - d * m < d
    BY <1>1, <2>2
  <2> QED
    BY <1>1, <1>2, <1>4, <2>2, <2>3
<1>9. ASSUME NEW i \in 0 .. max - 1, NEW j \in 0 .. max - 1, i < j
      PROVE  S(i) < S(j)
  <2>1. PICK k \in Nat : j = i + k /\ k >= 1
    BY <1>9, i + (j - i) = j
  <2>2. i \in Nat /\ S(i) \in Nat /\ R(i) \in Nat /\ i * m = d * S(i) + R(i)
    BY <1>1, <1>2
  <2>3. PICK h \in Nat : m = d + h
    BY <1>1, d + (m - d) = m
  <2>4. /\ j * m = i * m + k * m
        /\ k * m = d * k + k * h
        /\ k * h \in Nat
        /\ d * (S(i) + k) = d * S(i) + d * k
    BY <1>1, <2>1, <2>2, <2>3
  <2>5. j * m = d * (S(i) + k) + (R(i) + k * h)
    <3>1. d * S(i) \in Int /\ d * k \in Int /\ k * h \in Int
      BY <1>1, <2>1, <2>2, <2>3
    <3> QED
      BY <2>2, <2>4, <3>1
  <2>6. S(i) + k <= S(j)
    BY <1>4, <2>1, <2>2, <2>4, <2>5
  <2> QED
    BY <1>2, <2>1, <2>2, <2>6
<1>10. ASSUME NEW i \in 0 .. max - 2
       PROVE  S(i) + g <= S(i + 1) /\ S(i + 1) <= S(i) + g + 1
  <2>1. i \in 0 .. max - 1 /\ i + 1 \in 0 .. max - 1
    OBVIOUS
  <2>2. /\ S(i) \in Nat /\ R(i) \in 0 .. d - 1 /\ i * m = d * S(i) + R(i)
    BY <1>2, <2>1
  <2>3. /\ (i + 1) * m = i * m + m
        /\ d * (S(i) + g) = d * S(i) + d * g
        /\ d * (S(i) + g + 1) = d * S(i) + d * g + d
        /\ d * S(i) \in Int /\ d * g \in Int /\ i * m \in Int
    BY <1>1, <1>3, <2>2
  <2>4. /\ (i + 1) * m = d * (S(i) + g) + (R(i) + e)
        /\ (i + 1) * m = d * (S(i) + g + 1) + (R(i) + e - d)
    <3> DEFINE a == d * S(i)
               b == d * g
               c == i * m
    <3>1. /\ a \in Int /\ b \in Int /\ c \in Int
          /\ R(i) \in Int /\ e \in Int /\ d \in Int
      BY <1>1, <1>3, <2>2, <2>3
    <3>2. /\ c = a + R(i) /\ m = b + e /\ (i + 1) * m = c + m
          /\ d * (S(i) + g) = a + b /\ d * (S(i) + g + 1) = a + b + d
      BY <1>3, <2>2, <2>3
    <3> HIDE DEF a, b, c
    <3> QED
      BY <3>1, <3>2
  <2>5. 0 <= R(i) + e /\ R(i) + e - d < d /\ R(i) + e \in Int /\ R(i) + e - d \in Int
    BY <1>1, <1>3, <2>2
  <2> QED
    BY <1>3, <1>4, <2>1, <2>2, <2>4, <2>5
<1>11. ASSUME NEW i \in 0 .. max - 2, NEW j \in 0 .. max - 2
       PROVE  (S(i + 1) - S(i)) - (S(j + 1) - S(j)) <= 1
  <2>1. /\ i \in 0 .. max - 1 /\ i + 1 \in 0 .. max - 1
        /\ j \in 0 .. max - 1 /\ j + 1 \in 0 .. max - 1
    OBVIOUS
  <2> QED
    BY <1>2, <1>3, <1>10, <2>1
<1> QED
  BY <1>5, <1>6, <1>7, <1>8, <1>9, <1>11 DEF S, m

(* A set of numbers has a least one.                                       *)
LEMMA LeastNumber ==
  ASSUME NEW T \in SUBSET Nat, T # {}
  PROVE  \E x \in T : \A y \in T : x <= y
<1> DEFINE R == OpToRel(<, Nat)
<1>1. IsWellFoundedOn(R, Nat)
  BY NatLessThanWellFounded
<1>2. \A x, y \in Nat : <<y, x>> \in R <=> y < x
  BY DEF OpToRel
<1> HIDE DEF R
<1>3. \E x \in T : \A y \in T : ~(<<y, x>> \in R)
  BY <1>1, WFMin
<1>4. \A x, y \in T : ~(<<y, x>> \in R) => x <= y
  <2>1. ASSUME NEW x \in T, NEW y \in T, ~(<<y, x>> \in R) PROVE x <= y
    <3>1. x \in Nat /\ y \in Nat /\ ~(y < x)
      BY <1>2, <2>1
    <3> QED
      BY <3>1
  <2> QED
    BY <2>1
<1> QED
  BY <1>3, <1>4

(* Induction, over the set of the numbers for which a claim holds.         *)
LEMMA SetInduction ==
  ASSUME NEW S \in SUBSET Nat, 0 \in S, \A n \in S : n + 1 \in S
  PROVE  S = Nat
<1> SUFFICES ASSUME Nat \ S # {} PROVE FALSE
  OBVIOUS
<1>1. PICK x \in Nat \ S : \A y \in Nat \ S : x <= y
  BY LeastNumber
<1>2. x # 0 /\ x - 1 \in Nat /\ x - 1 \in S
  BY <1>1
<1> QED
  BY <1>1, <1>2

(* The loop of keyframes.Select draws one frame per turn: after i turns it *)
(* has the frames at its first i indices.                                  *)
LEMMA DrawnFrames ==
  ASSUME NEW F, NEW keys \in Seq(F), NEW max \in Nat, 1 < max, max < Len(keys)
  PROVE  Drawn(keys, max)[max]
           = [k \in 1 .. max |-> keys[Spaced(Len(keys), max, k - 1) + 1]]
<1> DEFINE n == Len(keys)
           At(i) == Spaced(n, max, i)
           Turn(f) == [i \in 0 .. max |->
                         IF i = 0 THEN <<>>
                         ELSE IF \E j \in 0 .. (i - 2) : At(j) = At(i - 1) THEN f[i - 1]
                         ELSE Append(f[i - 1], keys[At(i - 1) + 1])]
           First(i) == [k \in 1 .. i |-> keys[At(k - 1) + 1]]
           All == [i \in 0 .. max |-> First(i)]
           out == Drawn(keys, max)
<1>1. out = CHOOSE f : f = Turn(f)
  BY DEF Drawn
<1>2. n \in Nat /\ \A i \in 1 .. n : keys[i] \in F
  OBVIOUS
<1>3. /\ \A i \in 0 .. max - 1 : At(i) \in 0 .. n - 1
      /\ \A i, j \in 0 .. max - 1 : i < j => At(i) < At(j)
  BY <1>2, IndicesSpread
<1> HIDE DEF n, At
<1>4. ASSUME NEW i \in 1 .. max
      PROVE  /\ i - 1 \in 0 .. max - 1
             /\ ~ \E j \in 0 .. (i - 2) : At(j) = At(i - 1)
  <2>1. i - 1 \in 0 .. max - 1
    OBVIOUS
  <2>2. \A j \in 0 .. (i - 2) : j \in 0 .. max - 1 /\ j < i - 1
    OBVIOUS
  <2>3. \A j \in 0 .. max - 1 : At(j) \in Int
    BY <1>2, <1>3
  <2>4. \A j \in 0 .. (i - 2) : At(j) < At(i - 1)
    BY <1>3, <2>1, <2>2
  <2> QED
    BY <2>1, <2>2, <2>3, <2>4
<1>5. First(0) = <<>>
  OBVIOUS
<1>6. ASSUME NEW i \in 1 .. max
      PROVE  Append(First(i - 1), keys[At(i - 1) + 1]) = First(i)
  <2>1. \A k \in 1 .. max : keys[At(k - 1) + 1] \in F
    <3>1. ASSUME NEW k \in 1 .. max PROVE keys[At(k - 1) + 1] \in F
      <4>1. At(k - 1) \in 0 .. n - 1
        BY <1>3, <1>4
      <4>2. At(k - 1) + 1 \in 1 .. n
        BY <1>2, <4>1
      <4> QED
        BY <1>2, <4>2
    <3> QED
      BY <3>1
  <2>2. First(i - 1) \in Seq(F) /\ Len(First(i - 1)) = i - 1
    BY <2>1
  <2>3. First(i) \in Seq(F) /\ Len(First(i)) = i
    BY <2>1
  <2> DEFINE x == keys[At(i - 1) + 1]
             longer == Append(First(i - 1), x)
  <2>4. x \in F
    BY <2>1
  <2>5. /\ longer \in Seq(F) /\ Len(longer) = i
        /\ \A k \in 1 .. i - 1 : longer[k] = First(i - 1)[k]
        /\ longer[i] = x
    BY <2>2, <2>4, AppendProperties
  <2>6. \A k \in 1 .. i : longer[k] = First(i)[k]
    BY <2>5
  <2> QED
    BY <2>3, <2>5, <2>6, SeqEqual
<1>7. All = Turn(All)
  <2>1. ASSUME NEW i \in 0 .. max PROVE All[i] = Turn(All)[i]
    <3>1. CASE i = 0
      BY <1>5, <3>1
    <3>2. CASE i \in 1 .. max
      <4>1. i # 0 /\ i - 1 \in 0 .. max
        BY <3>2
      <4>2. Turn(All)[i] = Append(All[i - 1], keys[At(i - 1) + 1])
        BY <1>4, <3>2, <4>1
      <4> QED
        BY <1>6, <3>2, <4>1, <4>2
    <3> QED
      BY <3>1, <3>2
  <2> QED
    BY <2>1
<1>8. out = Turn(out)
  BY <1>1, <1>7
<1> HIDE DEF out
<1> DEFINE S == {i \in Nat : i <= max => out[i] = First(i)}
<1>9. 0 \in S
  BY <1>5, <1>8
<1>10. ASSUME NEW i \in S PROVE i + 1 \in S
  <2>1. ASSUME i + 1 <= max PROVE out[i + 1] = First(i + 1)
    <3>1. i \in Nat /\ i <= max /\ out[i] = First(i)
      BY <2>1
    <3>2. i + 1 \in 1 .. max /\ i + 1 \in 0 .. max /\ i + 1 # 0 /\ (i + 1) - 1 = i
      BY <2>1, <3>1
    <3>3. out[i + 1] = Turn(out)[i + 1]
      BY <1>8
    <3>4. Turn(out)[i + 1] = Append(out[(i + 1) - 1], keys[At((i + 1) - 1) + 1])
      BY <1>4, <3>2
    <3> QED
      BY <1>6, <3>1, <3>2, <3>3, <3>4
  <2> QED
    BY <2>1
<1>11. S = Nat
  BY <1>9, <1>10, SetInduction
<1>12. out[max] = First(max)
  <2>1. max \in S
    BY <1>11
  <2> QED
    BY <2>1
<1> QED
  BY <1>12 DEF out, At, n

(* The community module's Max and Min, of two numbers.                     *)
LEMMA MinMax ==
  ASSUME NEW a \in Int, NEW b \in Int
  PROVE  /\ Max({a, b}) = IF a >= b THEN a ELSE b
         /\ Min({a, b}) = IF a <= b THEN a ELSE b
<1> DEFINE M == IF a >= b THEN a ELSE b
           m == IF a <= b THEN a ELSE b
<1>1. M \in {a, b} /\ \A y \in {a, b} : M >= y
  OBVIOUS
<1>2. m \in {a, b} /\ \A y \in {a, b} : m <= y
  OBVIOUS
<1>3. \A x \in {a, b} : (\A y \in {a, b} : x >= y) => x = M
  OBVIOUS
<1>4. \A x \in {a, b} : (\A y \in {a, b} : x <= y) => x = m
  OBVIOUS
<1> HIDE DEF M, m
<1>5. Max({a, b}) = M
  BY <1>1, <1>3 DEF Max
<1>6. Min({a, b}) = m
  BY <1>2, <1>4 DEF Min
<1> QED
  BY <1>5, <1>6 DEF M, m

(* keyframes.Select draws its whole budget and spreads it over the frames, *)
(* for every number of frames and every limit.                             *)
LEMMA SelectionSpread ==
  ASSUME NEW n \in Nat, NEW max \in Int
  PROVE  SpreadOver(Select([k \in 1..n |-> k], max), n, max)
<1> DEFINE keys == [k \in 1..n |-> k]
           s == Select(keys, max)
           Gap(k) == s[k + 1] - s[k]
<1>1. keys \in Seq(Nat) /\ Len(keys) = n /\ \A k \in 1..n : keys[k] = k
  OBVIOUS
<1> HIDE DEF keys
<1>2. Min({n, Max({0, max})}) = IF max <= 0 THEN 0 ELSE IF n <= max THEN n ELSE max
  <2>1. Max({0, max}) = IF 0 >= max THEN 0 ELSE max
    BY MinMax
  <2>2. Min({n, Max({0, max})}) = IF n <= Max({0, max}) THEN n ELSE Max({0, max})
    BY <2>1, MinMax
  <2> QED
    BY <2>1, <2>2
<1>3. ASSUME n = 0 \/ max <= 0 PROVE SpreadOver(s, n, max)
  <2>1. s = <<>>
    BY <1>1, <1>3 DEF Select
  <2> QED
    BY <1>2, <1>3, <2>1 DEF SpreadOver
<1>4. ASSUME n > 0 /\ max > 0 /\ n <= max PROVE SpreadOver(s, n, max)
  <2>1. s = keys
    BY <1>1, <1>4 DEF Select
  <2>2. Len(s) = n /\ \A k \in 1 .. n : s[k] = k
    BY <1>1, <2>1
  <2> HIDE DEF s
  <2>3. \A k \in 1 .. n - 1 : Gap(k) = 1
    BY <2>2
  <2> QED
    BY <1>2, <1>4, <2>2, <2>3 DEF SpreadOver
<1>5. ASSUME n > max /\ max = 1 PROVE SpreadOver(s, n, max)
  <2>1. s = <<keys[1]>>
    BY <1>1, <1>5 DEF Select
  <2>2. Len(s) = 1
    BY <2>1
  <2> HIDE DEF s
  <2>3. 1 .. (Len(s) - 1) = {}
    BY <2>2
  <2> QED
    BY <1>2, <1>5, <2>2, <2>3 DEF SpreadOver
<1>6. ASSUME n > max /\ max > 1 PROVE SpreadOver(s, n, max)
  <2>1. max \in Nat
    BY <1>6
  <2>2. s = Drawn(keys, max)[max]
    BY <1>1, <1>6 DEF Select
  <2>3. s = [k \in 1 .. max |-> keys[Spaced(n, max, k - 1) + 1]]
    <3>1. keys \in Seq(Nat) /\ 1 < max /\ max < Len(keys)
      BY <1>1, <1>6
    <3>2. Drawn(keys, max)[max]
            = [k \in 1 .. max |-> keys[Spaced(Len(keys), max, k - 1) + 1]]
      BY <2>1, <3>1, DrawnFrames
    <3>3. Len(keys) = n
      BY <1>1
    <3> HIDE DEF s
    <3> QED
      BY <2>2, <3>2, <3>3
  <2> DEFINE At(i) == Spaced(n, max, i)
  <2>4. /\ At(0) = 0 /\ At(max - 1) = n - 1
        /\ \A i \in 0 .. max - 1 : At(i) \in 0 .. n - 1
        /\ \A i, j \in 0 .. max - 1 : i < j => At(i) < At(j)
        /\ \A i, j \in 0 .. max - 2 :
             (At(i + 1) - At(i)) - (At(j + 1) - At(j)) <= 1
    BY <1>6, <2>1, IndicesSpread
  <2>5. Len(s) = max
    BY <2>1, <2>3
  <2> HIDE DEF s, At
  <2>6. ASSUME NEW k \in 1 .. max PROVE k - 1 \in 0 .. max - 1 /\ s[k] = At(k - 1) + 1
    <3>1. k - 1 \in 0 .. max - 1
      BY <2>1
    <3>2. At(k - 1) + 1 \in 1 .. n
      BY <2>4, <3>1
    <3>3. s[k] = keys[At(k - 1) + 1]
      BY <2>3 DEF At
    <3> QED
      BY <1>1, <3>1, <3>2, <3>3
  <2>7. ASSUME NEW k \in 1 .. max - 1
        PROVE  Gap(k) = At((k - 1) + 1) - At(k - 1) /\ k - 1 \in 0 .. max - 2 /\ Gap(k) >= 1
    <3>1. /\ k \in 1 .. max /\ k + 1 \in 1 .. max /\ (k + 1) - 1 = (k - 1) + 1
          /\ k - 1 \in 0 .. max - 2
      BY <2>1
    <3>2. s[k] = At(k - 1) + 1 /\ s[k + 1] = At((k - 1) + 1) + 1
      BY <2>6, <3>1
    <3>3. k - 1 \in 0 .. max - 1 /\ (k - 1) + 1 \in 0 .. max - 1
      BY <3>1
    <3>4. At(k - 1) \in Int /\ At((k - 1) + 1) \in Int
      BY <2>4, <3>3
    <3>5. At(k - 1) < At((k - 1) + 1)
      BY <2>4, <3>3
    <3> QED
      BY <3>1, <3>2, <3>4, <3>5
  <2>8. s[1] = 1 /\ s[Len(s)] = n
    BY <1>6, <2>1, <2>4, <2>5, <2>6
  <2>9. \A j, k \in 1 .. max - 1 : Gap(j) - Gap(k) <= 1
    BY <2>4, <2>7
  <2> QED
    BY <1>2, <1>6, <2>1, <2>5, <2>7, <2>8, <2>9 DEF SpreadOver
<1> HIDE DEF s
<1>7. SpreadOver(s, n, max)
  BY <1>3, <1>4, <1>5, <1>6
<1> QED
  BY <1>7 DEF keys, s

(* Whatever frames an event has and whatever limit is configured, those    *)
(* that HandleFramesExtracted gives to the analyzer are spread evenly.     *)
LEMMA SpreadEvenly == EvenlySpread
<1>1. /\ \A n \in 0..MaxKeys : n \in Nat
      /\ \A max \in -1..MaxShown : max \in Int
  BY KeyFramesAssumption
<1> QED
  BY <1>1, SelectionSpread DEF EvenlySpread

(* As long as the worker runs (HandleFramesExtracted, keyframes.Select).   *)
THEOREM FramesAreSpread == Spec => []FramesSpread
<1>1. FramesSpread
  BY SpreadEvenly DEF FramesSpread
<1> QED
  BY <1>1, PTL
-------------------------------------------------------------------------------
(* The rate limit.                                                         *)

Bucket == [tokens : 0 .. Burst, idle : 0 .. Cutoff + 1]
Counter == [n : 0 .. CountBound, left : 1 .. Window \cup {None}]
Pending == [at : {"idle", "limit", "expire", "list"}, key : {Home, None}, from : {Home, None}]
Admissions == [1 .. Window -> Nat]

(* One more admission; a tick later.                                       *)
More(r) == [i \in 1 .. Window |-> r[i] + 1]
Later(r) == [i \in 1 .. Window |-> IF i = 1 THEN 0 ELSE r[i - 1]]

(* A token is taken, if there is one.                                      *)
Take(u) == [u EXCEPT !.tokens = Max({0, u.tokens - 1})]

LimitTypes ==
  /\ backend \in {"memory", "redis"}
  /\ entries \in [Addresses -> Bucket \cup {None}]
  /\ counters \in [Addresses -> Counter]
  /\ req \in [Requests -> Pending]
  /\ recent \in [Addresses -> Admissions]

(* A request in flight comes from Home, whatever its headers, and at most  *)
(* one is between INCR and EXPIRE.                                         *)
RequestsOK ==
  /\ \A q \in Requests : req[q].at # "idle" => req[q].key = Home /\ req[q].from = Home
  /\ \A q \in Requests : req[q].at = "expire" => backend = "redis"
  /\ \A p, q \in Requests : req[p].at = "expire" /\ req[q].at = "expire" => p = q

Expiring == IF \E q \in Requests : req[q].at = "expire" THEN 1 ELSE 0

(* What a bucket has left and what it gave in any number of ticks is       *)
(* together no more than a full bucket and the refill of these ticks; a    *)
(* bucket that is not full has been refilled all the time since its use.   *)
BucketOK(e, r) ==
  /\ e # None => e.tokens = Burst \/ Rate * e.idle <= e.tokens
  /\ \A i \in 1 .. Window :
       r[i] + (IF e = None THEN Burst ELSE e.tokens) <= Burst + Rate * (i - 1)

Counted(c) == IF c.n <= redisWindowCapacity THEN c.n ELSE redisWindowCapacity

(* A key without an expiry belongs to the request that is setting it, or   *)
(* has lost it for good; one with an expiry was admitting for Window less  *)
(* what it has left.  What came before it is of one earlier window.        *)
CounterOK(c, r, expiring) ==
  /\ c.n = 0 =>
       /\ c.left = None /\ expiring = 0 /\ r[1] = 0
       /\ \A i \in 1 .. Window : r[i] <= redisWindowCapacity
  /\ c.n > 0 /\ c.left = None =>
       /\ r[1] <= Counted(c) - expiring
       /\ \A i \in 1 .. Window : r[i] <= redisWindowCapacity + Counted(c) - expiring
  /\ c.left # None =>
       /\ c.n > 0 /\ expiring = 0
       /\ \A i \in 1 .. Window :
            /\ r[i] <= redisWindowCapacity + Counted(c)
            /\ i <= Window - c.left + 1 => r[i] <= Counted(c)

LimitOK ==
  /\ \A a \in Addresses \ {Home} : \A i \in 1 .. Window : recent[a][i] = 0
  /\ backend = "memory" => BucketOK(entries[Home], recent[Home])
  /\ backend = "redis" => CounterOK(counters[Home], recent[Home], Expiring)

LimitInv == LimitTypes /\ RequestsOK /\ LimitOK

(* Connections of Home: it is not a trusted proxy, and a trusted proxy     *)
(* passes its address on (ClientIP).                                       *)
LEMMA HomeKeys == KeysOf[Home] = {Home}
<1>1. /\ Home \in Addresses /\ Home \notin Trusted /\ Trusted \subseteq Addresses
      /\ None \notin Addresses /\ "garbled" \notin Addresses
  BY ListingAssumption, RateLimitAssumption
<1> DEFINE header == Addresses \cup {None, "garbled"}
<1>2. KeysOf[Home] =
        {ClientIP(Home, realIP, forwardedFor) : realIP, forwardedFor \in header} \cup
        {ClientIP(remote, Home, forwardedFor) : remote \in Trusted, forwardedFor \in header} \cup
        {ClientIP(remote, realIP, Home) : remote \in Trusted, realIP \in {None, "garbled"}}
  BY <1>1 DEF KeysOf
<1>3. \A x, y \in header : ClientIP(Home, x, y) = Home
  BY <1>1 DEF ClientIP, isTrusted
<1>4. \A x \in Trusted, y \in header : ClientIP(x, Home, y) = Home
  BY <1>1 DEF ClientIP, isTrusted
<1>5. \A x \in Trusted, y \in {None, "garbled"} : ClientIP(x, y, Home) = Home
  BY <1>1 DEF ClientIP, isTrusted
<1>6. ClientIP(Home, None, None) \in KeysOf[Home]
  BY <1>2
<1>7. ClientIP(Home, None, None) = Home
  BY <1>3
<1> QED
  BY <1>2, <1>3, <1>4, <1>5, <1>6, <1>7

(* A window admits something (redisWindowCapacity).                        *)
LEMMA Capacity == redisWindowCapacity \in Nat /\ redisWindowCapacity >= 1
<1> DEFINE S == {Burst, Rate * Window, 1}
<1>1. Burst \in Nat /\ Rate * Window \in Nat
  BY RateLimitAssumption
<1>2. PICK x \in S : \A y \in S : x >= y
  <2>1. \A a, b, c \in Nat : \E x \in {a, b, c} : \A y \in {a, b, c} : x >= y
    OBVIOUS
  <2> QED
    BY <1>1, <2>1
<1>3. Max(S) \in S /\ \A y \in S : Max(S) >= y
  BY <1>2 DEF Max
<1> QED
  BY <1>1, <1>3 DEF redisWindowCapacity

(* The count of a key, which is not followed beyond CountBound.            *)
LEMMA Capped ==
  ASSUME NEW n \in 0 .. CountBound
  PROVE  Min({CountBound, n + 1}) = IF n = CountBound THEN n ELSE n + 1
<1>1. CountBound \in Int /\ n + 1 \in Int /\ n <= CountBound /\ n \in Int
  BY Capacity DEF CountBound
<1> QED
  BY <1>1, MinMax

(* What the proofs use of the assumption on the constants.                 *)
LEMMA Constants ==
  /\ Burst \in Nat /\ Burst >= 1 /\ Rate \in Nat /\ Rate >= 1
  /\ Window \in Nat /\ Window >= 1 /\ Cutoff \in Nat /\ Cutoff >= 1
  /\ Burst <= Rate * Cutoff
  /\ None \notin Bucket /\ None \notin 1 .. Window
<1>1. /\ Burst \in Nat /\ Burst >= 1 /\ Rate \in Nat /\ Rate >= 1
      /\ Window \in Nat /\ Window >= 1 /\ Cutoff \in Nat /\ Cutoff >= 1
      /\ Burst <= Rate * Cutoff
  BY RateLimitAssumption
<1>2. 1 .. Window \subseteq Nat /\ Bucket \subseteq [tokens : Nat, idle : Nat]
  BY <1>1 DEF Bucket
<1> QED
  BY <1>1, <1>2, RateLimitAssumption

(* Multiplication is monotone.                                             *)
LEMMA Monotone ==
  ASSUME NEW a \in Nat, NEW b \in Nat, NEW c \in Nat, b <= c
  PROVE  a * b <= a * c
<1>1. PICK d \in Nat : c = b + d
  BY b + (c - b) = c
<1>2. a * (b + d) = a * b + a * d /\ a * d \in Nat /\ a * b \in Nat
  OBVIOUS
<1> QED
  BY <1>1, <1>2

(* A tick later: Refill.                                                   *)
LEMMA BucketTick ==
  ASSUME NEW e \in Bucket \cup {None}, NEW r \in Admissions, BucketOK(e, r)
  PROVE  /\ Refill(e) \in Bucket \cup {None}
         /\ BucketOK(Refill(e), Later(r))
<1> DEFINE s == Later(r)
<1>1. \A i \in 2 .. Window : s[i] = r[i - 1] /\ i - 1 \in 1 .. Window /\ r[i - 1] \in Nat
  BY Constants DEF Admissions, Later
<1>2. s[1] = 0
  BY Constants DEF Later
<1>3. \A i \in 2 .. Window : Rate * (i - 1) = Rate * ((i - 1) - 1) + Rate
  BY Constants
<1> HIDE DEF s
<1>4. CASE e = None
  <2>1. Refill(e) = None
    BY <1>4 DEF Refill
  <2>2. ASSUME NEW i \in 1 .. Window PROVE s[i] + Burst <= Burst + Rate * (i - 1)
    <3>1. CASE i = 1
      BY <1>2, <3>1, Constants
    <3>2. CASE i \in 2 .. Window
      <4>1. r[i - 1] + Burst <= Burst + Rate * ((i - 1) - 1)
        BY <1>1, <1>4, <3>2 DEF BucketOK
      <4>2. Rate * ((i - 1) - 1) \in Int
        BY Constants, <3>2
      <4> QED
        BY <1>1, <1>3, <3>2, <4>1, <4>2, Constants
    <3> QED
      BY <3>1, <3>2
  <2> QED
    BY <1>4, <2>1, <2>2 DEF BucketOK, s
<1>5. CASE e # None
  <2>1. /\ e \in Bucket /\ e.tokens \in 0 .. Burst /\ e.idle \in 0 .. Cutoff + 1
    BY <1>5 DEF Bucket
  <2> DEFINE t == IF Burst <= e.tokens + Rate THEN Burst ELSE e.tokens + Rate
             d == IF Cutoff + 1 <= e.idle + 1 THEN Cutoff + 1 ELSE e.idle + 1
  <2>2. Refill(e) = [tokens |-> t, idle |-> d]
    <3>1. /\ Burst \in Int /\ e.tokens + Rate \in Int
          /\ Cutoff + 1 \in Int /\ e.idle + 1 \in Int
      BY <2>1, Constants
    <3>2. Min({Burst, e.tokens + Rate}) = t
      BY <3>1, MinMax
    <3>3. Min({Cutoff + 1, e.idle + 1}) = d
      BY <3>1, MinMax
    <3> QED
      BY <1>5, <3>2, <3>3 DEF Refill
  <2>3. t \in 0 .. Burst /\ d \in 0 .. Cutoff + 1 /\ t <= e.tokens + Rate
    BY <2>1, Constants
  <2>4. [tokens |-> t, idle |-> d] \in Bucket
    BY <2>3 DEF Bucket
  <2>5. t = Burst \/ Rate * d <= t
    <3>1. CASE t = Burst
      BY <3>1
    <3>2. CASE t # Burst
      <4>1. t = e.tokens + Rate /\ e.tokens # Burst
        BY <2>1, <3>2, Constants
      <4>2. Rate * e.idle <= e.tokens
        BY <1>5, <4>1 DEF BucketOK
      <4>3. d <= e.idle + 1 /\ d \in Nat
        BY <2>1, Constants
      <4>4. e.idle \in Nat /\ e.idle + 1 \in Nat /\ e.tokens \in Nat /\ Rate \in Nat
        BY <2>1, Constants
      <4> HIDE DEF t, d
      <4>5. Rate * d <= Rate * (e.idle + 1)
        BY <4>3, <4>4, Monotone
      <4>6. \A a \in Nat : Rate * (a + 1) = Rate * a + Rate /\ Rate * a \in Nat
        BY <4>4
      <4>7. /\ Rate * (e.idle + 1) = Rate * e.idle + Rate
            /\ Rate * e.idle \in Nat /\ Rate * d \in Nat
        BY <4>3, <4>4, <4>6
      <4> QED
        BY <4>1, <4>2, <4>4, <4>5, <4>7
    <3> QED
      BY <3>1, <3>2
  <2>6. ASSUME NEW i \in 1 .. Window PROVE s[i] + t <= Burst + Rate * (i - 1)
    <3>1. CASE i = 1
      BY <1>2, <2>3, <3>1, Constants
    <3>2. CASE i \in 2 .. Window
      <4>1. r[i - 1] + e.tokens <= Burst + Rate * ((i - 1) - 1)
        BY <1>1, <1>5, <3>2 DEF BucketOK
      <4>2. Rate * ((i - 1) - 1) \in Int
        BY Constants, <3>2
      <4> HIDE DEF t, d
      <4> QED
        BY <1>1, <1>3, <2>1, <2>3, <3>2, <4>1, <4>2, Constants
    <3> QED
      BY <3>1, <3>2
  <2> HIDE DEF t, d
  <2>7. Refill(e) # None /\ Refill(e).tokens = t /\ Refill(e).idle = d
    BY <2>2, <2>4, Constants
  <2> QED
    BY <2>2, <2>4, <2>5, <2>6, <2>7 DEF BucketOK, s
<1> QED
  BY <1>4, <1>5

(* MemoryAllow: the bucket that is found, if it has not been forgotten     *)
(* (cleanup), gives a token if it has one.                                 *)
LEMMA BucketAllow ==
  ASSUME NEW e \in Bucket \cup {None}, NEW r \in Admissions, BucketOK(e, r),
         NEW f, f = e \/ (f = None /\ e # None /\ e.idle > Cutoff),
         NEW u, u = IF f = None THEN NewLimiter ELSE [f EXCEPT !.idle = 0],
         NEW v, v = Take(u)
  PROVE  /\ u \in Bucket /\ v \in Bucket
         /\ u.tokens > 0 => BucketOK(v, More(r))
         /\ u.tokens = 0 => BucketOK(v, r)
<1> DEFINE full == IF e = None THEN Burst ELSE e.tokens
<1>1. /\ \A i \in 1 .. Window : r[i] \in Nat /\ r[i] + full <= Burst + Rate * (i - 1)
      /\ e # None => e.tokens = Burst \/ Rate * e.idle <= e.tokens
  BY DEF BucketOK, Admissions
<1>2. e # None => e \in Bucket /\ e.tokens \in 0 .. Burst /\ e.idle \in 0 .. Cutoff + 1
  BY DEF Bucket
<1>3. u = [tokens |-> full, idle |-> 0]
  <2>1. CASE f = None /\ e # None /\ e.idle > Cutoff
    <3>1. e.idle \in Nat /\ Cutoff <= e.idle /\ e.tokens \in Nat /\ e.tokens <= Burst
      BY <1>2, <2>1, Constants
    <3>2. Rate * Cutoff <= Rate * e.idle
      BY <3>1, Constants, Monotone
    <3>3. \A a \in Nat : Rate * a \in Nat
      BY Constants
    <3>4. Rate * Cutoff \in Nat /\ Rate * e.idle \in Nat
      BY <3>1, <3>3, Constants
    <3>5. e.tokens = Burst
      BY <1>1, <2>1, <3>1, <3>2, <3>4, Constants
    <3> QED
      BY <2>1, <3>5 DEF NewLimiter
  <2>2. CASE f = e /\ e = None
    BY <2>2 DEF NewLimiter
  <2>3. CASE f = e /\ e # None
    BY <1>2, <2>3 DEF Bucket
  <2> QED
    BY <2>1, <2>2, <2>3
<1>4. full \in 0 .. Burst
  BY <1>2, Constants
<1> HIDE DEF full
<1> DEFINE left == IF full = 0 THEN 0 ELSE full - 1
<1>5. v = [tokens |-> left, idle |-> 0]
  <2>1. full - 1 \in Int /\ 0 \in Int
    BY <1>4
  <2>2. Max({0, full - 1}) = left
    BY <1>4, <2>1, MinMax
  <2> HIDE DEF left
  <2> QED
    BY <1>3, <2>2 DEF Take
<1>6. left \in 0 .. Burst
  <2>1. /\ Burst \in Nat
        /\ \A x \in 0 .. Burst : (IF x = 0 THEN 0 ELSE x - 1) \in 0 .. Burst
    BY Constants
  <2> QED
    BY <1>4, <2>1
<1>7. u \in Bucket /\ v \in Bucket
  BY <1>3, <1>4, <1>5, <1>6, Constants DEF Bucket
<1> HIDE DEF left
<1>8. /\ v # None /\ v.tokens = left /\ v.idle = 0 /\ u.tokens = full
      /\ Rate * v.idle <= v.tokens
  BY <1>3, <1>5, <1>6, <1>7, Constants
<1>9. ASSUME u.tokens > 0 PROVE BucketOK(v, More(r))
  <2>1. left = full - 1
    BY <1>4, <1>8, <1>9 DEF left
  <2>2. ASSUME NEW i \in 1 .. Window
        PROVE  More(r)[i] + v.tokens <= Burst + Rate * (i - 1)
    <3>1. More(r)[i] = r[i] + 1
      BY DEF More
    <3>2. (r[i] + 1) + (full - 1) = r[i] + full
      BY <1>1, <1>4
    <3> QED
      BY <1>1, <1>8, <2>1, <3>1, <3>2
  <2> QED
    BY <1>8, <2>2 DEF BucketOK
<1>10. ASSUME u.tokens = 0 PROVE BucketOK(v, r)
  <2>1. left = full
    BY <1>8, <1>10 DEF left
  <2> QED
    BY <1>1, <1>8, <2>1 DEF BucketOK
<1> QED
  BY <1>7, <1>9, <1>10

(* What the count of a key stands for.                                     *)
LEMMA CountedIs ==
  ASSUME NEW c \in Counter
  PROVE  /\ c.n \in Nat /\ c.n <= CountBound /\ CountBound = redisWindowCapacity + 1
         /\ Counted(c) \in Nat /\ Counted(c) <= redisWindowCapacity
         /\ c.n <= redisWindowCapacity => Counted(c) = c.n
         /\ c.n > redisWindowCapacity => Counted(c) = redisWindowCapacity
         /\ c.left # None => c.left \in 1 .. Window
<1>1. c.n \in 0 .. CountBound /\ c.left \in 1 .. Window \cup {None}
  BY DEF Counter
<1> QED
  BY <1>1, Capacity DEF Counted, CountBound

(* INCR, with the request admitted or not.  Only the request that finds    *)
(* the key missing goes on to EXPIRE.                                      *)
LEMMA CounterIncr ==
  ASSUME NEW c \in Counter, NEW r \in Admissions, NEW x \in {0, 1}, CounterOK(c, r, x),
         NEW d, d = [c EXCEPT !.n = Min({CountBound, c.n + 1})]
  PROVE  /\ d \in Counter /\ d.n >= 1
         /\ c.n > 0 => d.n > 1
         /\ c.n > 0 => CounterOK(d, r, x)
         /\ c.n = 0 => x = 0 /\ CounterOK(d, r, 0) /\ CounterOK(d, r, 1)
         /\ c.n > 0 /\ d.n <= redisWindowCapacity => CounterOK(d, More(r), x)
<1> DEFINE cap == redisWindowCapacity
           n == IF c.n = CountBound THEN c.n ELSE c.n + 1
<1>1. cap \in Nat /\ cap >= 1 /\ 1 \in 1 .. Window
  BY Capacity, Constants
<1>2. c.n \in 0 .. CountBound /\ c.left \in 1 .. Window \cup {None} /\ CountBound = cap + 1
  BY DEF Counter, CountBound
<1>3. n \in 0 .. CountBound
  BY <1>1, <1>2
<1>4. d = [c EXCEPT !.n = n]
  BY <1>2, Capped
<1>5. d \in Counter /\ d.n = n /\ d.left = c.left
  BY <1>3, <1>4 DEF Counter
<1>6. \A i \in 1 .. Window : r[i] \in Nat /\ More(r)[i] = r[i] + 1
  BY DEF Admissions, More
<1>7. /\ Counted(c) \in Nat /\ Counted(d) \in Nat /\ Counted(d) <= cap
      /\ c.n <= cap => Counted(c) = c.n
      /\ c.n > cap => Counted(c) = cap
      /\ d.n <= cap => Counted(d) = d.n
      /\ d.n > cap => Counted(d) = cap
      /\ c.left # None => c.left \in 1 .. Window
  BY <1>5, CountedIs
<1> HIDE DEF cap
<1>8. /\ n >= 1 /\ (c.n > 0 => n > 1)
      /\ Counted(c) <= Counted(d)
      /\ c.n > 0 /\ n <= cap => Counted(d) = Counted(c) + 1
      /\ c.n = 0 => Counted(d) = 1
  BY <1>1, <1>2, <1>3, <1>5, <1>7
<1> HIDE DEF n
<1>9. ASSUME c.n > 0 PROVE CounterOK(d, r, x)
  <2>1. d.n # 0 /\ d.n > 0 /\ x \in Int
    BY <1>2, <1>3, <1>5, <1>8, <1>9
  <2>2. ASSUME c.left = None
        PROVE  /\ r[1] <= Counted(d) - x
               /\ \A i \in 1 .. Window : r[i] <= cap + Counted(d) - x
    BY <1>1, <1>6, <1>7, <1>8, <1>9, <2>1, <2>2 DEF CounterOK, cap
  <2>3. ASSUME c.left # None
        PROVE  /\ x = 0
               /\ \A i \in 1 .. Window :
                    /\ r[i] <= cap + Counted(d)
                    /\ i <= Window - c.left + 1 => r[i] <= Counted(d)
    BY <1>1, <1>6, <1>7, <1>8, <1>9, <2>1, <2>3 DEF CounterOK, cap
  <2> QED
    BY <1>5, <2>1, <2>2, <2>3 DEF CounterOK, cap
<1>10. ASSUME c.n = 0 PROVE x = 0 /\ CounterOK(d, r, 0) /\ CounterOK(d, r, 1)
  <2>1. /\ x = 0 /\ c.left = None /\ r[1] = 0
        /\ \A i \in 1 .. Window : r[i] <= cap
    BY <1>10 DEF CounterOK, cap
  <2>2. d.n # 0 /\ d.n > 0 /\ d.left = None /\ Counted(d) = 1
    BY <1>3, <1>5, <1>8, <1>10, <2>1
  <2>3. /\ r[1] <= 1 - 0 /\ r[1] <= 1 - 1
        /\ \A i \in 1 .. Window : r[i] <= cap + 1 - 0 /\ r[i] <= cap + 1 - 1
    BY <1>1, <1>6, <2>1
  <2> QED
    BY <2>1, <2>2, <2>3 DEF CounterOK, cap
<1>11. ASSUME c.n > 0, d.n <= cap PROVE CounterOK(d, More(r), x)
  <2>1. d.n # 0 /\ d.n > 0 /\ x \in Int /\ Counted(d) = Counted(c) + 1
    BY <1>2, <1>3, <1>5, <1>8, <1>11
  <2>2. ASSUME c.left = None
        PROVE  /\ More(r)[1] <= Counted(d) - x
               /\ \A i \in 1 .. Window : More(r)[i] <= cap + Counted(d) - x
    BY <1>1, <1>6, <1>7, <1>11, <2>1, <2>2 DEF CounterOK, cap
  <2>3. ASSUME c.left # None
        PROVE  /\ x = 0
               /\ \A i \in 1 .. Window :
                    /\ More(r)[i] <= cap + Counted(d)
                    /\ i <= Window - c.left + 1 => More(r)[i] <= Counted(d)
    BY <1>1, <1>6, <1>7, <1>11, <2>1, <2>3 DEF CounterOK, cap
  <2> QED
    BY <1>5, <2>1, <2>2, <2>3 DEF CounterOK, cap
<1> QED
  BY <1>3, <1>5, <1>8, <1>9, <1>10, <1>11 DEF cap

(* EXPIRE, which may fail: the request that set out to it is admitted.     *)
LEMMA CounterExpiry ==
  ASSUME NEW c \in Counter, NEW r \in Admissions, CounterOK(c, r, 1)
  PROVE  /\ CounterOK(c, More(r), 0)
         /\ [c EXCEPT !.left = Window] \in Counter
         /\ CounterOK([c EXCEPT !.left = Window], More(r), 0)
<1> DEFINE d == [c EXCEPT !.left = Window]
           cap == redisWindowCapacity
<1>1. c.n > 0 /\ c.left = None
  BY CountedIs DEF CounterOK
<1>2. /\ r[1] <= Counted(c) - 1
      /\ \A i \in 1 .. Window : r[i] <= cap + Counted(c) - 1
  BY <1>1 DEF CounterOK
<1>3. \A i \in 1 .. Window : r[i] \in Nat /\ More(r)[i] = r[i] + 1
  BY DEF Admissions, More
<1>4. cap \in Nat /\ Counted(c) \in Nat /\ c.n \in Nat /\ 1 \in 1 .. Window
  BY Capacity, CountedIs, Constants
<1>5. d \in Counter /\ d.n = c.n /\ d.left = Window /\ Counted(d) = Counted(c)
  BY Constants DEF Counter, Counted
<1> HIDE DEF d, cap
<1>6. /\ More(r)[1] <= Counted(c)
      /\ \A i \in 1 .. Window : More(r)[i] <= cap + Counted(c)
  BY <1>2, <1>3, <1>4
<1>7. \A i \in 1 .. Window : i <= Window - Window + 1 => i = 1
  BY Constants
<1>8. Window # None /\ c.n # 0
  BY <1>1, <1>4, Constants
<1>9. CounterOK(c, More(r), 0)
  <2>1. /\ More(r)[1] <= Counted(c) - 0
        /\ \A i \in 1 .. Window : More(r)[i] <= cap + Counted(c) - 0
    BY <1>3, <1>4, <1>6
  <2> QED
    BY <1>1, <1>8, <2>1 DEF CounterOK, cap
<1>10. CounterOK(d, More(r), 0)
  BY <1>1, <1>5, <1>6, <1>7, <1>8 DEF CounterOK, cap
<1> QED
  BY <1>5, <1>9, <1>10 DEF d

(* A tick later: the key's time runs out.                                  *)
LEMMA CounterTick ==
  ASSUME NEW c \in Counter, NEW r \in Admissions, NEW x \in {0, 1}, CounterOK(c, r, x)
  PROVE  Expire(c) \in Counter /\ CounterOK(Expire(c), Later(r), x)
<1> DEFINE d == Expire(c)
           cap == redisWindowCapacity
<1>1. cap \in Nat /\ cap >= 1 /\ Counted(c) \in Nat /\ c.n \in Nat /\ Counted(c) <= cap
  BY Capacity, CountedIs
<1>2. /\ c.n > 0 => Counted(c) >= 1
      /\ c.left # None => c.left \in 1 .. Window
  BY <1>1, CountedIs
<1>3. /\ \A i \in 1 .. Window : r[i] \in Nat
      /\ Later(r)[1] = 0
      /\ \A i \in 1 .. Window : i # 1 => i - 1 \in 1 .. Window /\ Later(r)[i] = r[i - 1]
  BY Constants DEF Admissions, Later
<1>4. CASE c.left = None
  <2>1. d = c
    BY <1>4 DEF Expire
  <2>2. ASSUME c.n = 0
        PROVE  x = 0 /\ \A i \in 1 .. Window : Later(r)[i] <= cap
    <3>1. x = 0 /\ \A i \in 1 .. Window : r[i] <= cap
      BY <2>2 DEF CounterOK
    <3> HIDE DEF cap
    <3> QED
      BY <1>1, <1>3, <3>1
  <2>3. ASSUME c.n > 0
        PROVE  /\ Later(r)[1] <= Counted(c) - x
               /\ \A i \in 1 .. Window : Later(r)[i] <= cap + Counted(c) - x
    <3>1. \A i \in 1 .. Window : r[i] <= cap + Counted(c) - x
      BY <1>4, <2>3 DEF CounterOK
    <3> HIDE DEF cap
    <3> QED
      BY <1>1, <1>2, <1>3, <2>3, <3>1
  <2>4. c \in Counter /\ (c.n > 0 => c.n # 0)
    BY <1>1
  <2> QED
    BY <1>3, <1>4, <2>1, <2>2, <2>3, <2>4 DEF CounterOK
<1>5. CASE c.left # None /\ c.left = 1
  <2>1. d = NoKey /\ NoKey.n = 0 /\ NoKey.left = None
    BY <1>5 DEF Expire, NoKey
  <2>2. NoKey \in Counter
    BY Capacity DEF NoKey, Counter, CountBound
  <2>3. x = 0 /\ \A i \in 1 .. Window : i <= Window - 1 + 1 => r[i] <= Counted(c)
    BY <1>5 DEF CounterOK
  <2>4. \A i \in 1 .. Window : r[i] <= cap
    <3> HIDE DEF cap
    <3> QED
      BY <1>1, <1>3, <2>3, Constants
  <2>5. \A i \in 1 .. Window : Later(r)[i] <= cap
    <3> HIDE DEF cap
    <3> QED
      BY <1>1, <1>3, <2>4
  <2> QED
    BY <1>3, <2>1, <2>2, <2>3, <2>5 DEF CounterOK
<1>6. CASE c.left # None /\ c.left # 1
  <2>1. d = [c EXCEPT !.left = c.left - 1] /\ c.left \in 2 .. Window
    BY <1>2, <1>6, Constants DEF Expire
  <2>2. /\ d \in Counter /\ d.n = c.n /\ d.left = c.left - 1 /\ d.left # None
        /\ Counted(d) = Counted(c)
    <3>1. c.left - 1 \in 1 .. Window
      BY <2>1, Constants
    <3> QED
      BY <2>1, <3>1, Constants DEF Counter, Counted
  <2>3. /\ c.n > 0 /\ x = 0
        /\ \A i \in 1 .. Window :
             /\ r[i] <= cap + Counted(c)
             /\ i <= Window - c.left + 1 => r[i] <= Counted(c)
    BY <1>6 DEF CounterOK
  <2>4. ASSUME NEW i \in 1 .. Window
        PROVE  /\ Later(r)[i] <= cap + Counted(c)
               /\ i <= Window - (c.left - 1) + 1 => Later(r)[i] <= Counted(c)
    <3> HIDE DEF cap
    <3>1. CASE i = 1
      BY <1>1, <1>3, <3>1
    <3>2. CASE i # 1
      <4>1. i - 1 \in 1 .. Window /\ Later(r)[i] = r[i - 1]
        BY <1>3, <3>2
      <4>2. i <= Window - (c.left - 1) + 1 => i - 1 <= Window - c.left + 1
        BY <2>1, Constants
      <4> QED
        BY <2>3, <4>1, <4>2
    <3> QED
      BY <3>1, <3>2
  <2>5. d.n # 0 /\ d.n > 0
    BY <1>1, <2>2, <2>3
  <2> HIDE DEF d
  <2>6. CounterOK(d, Later(r), x)
    BY <2>2, <2>3, <2>4, <2>5 DEF CounterOK
  <2> QED
    BY <2>2, <2>6 DEF d
<1> QED
  BY <1>4, <1>5, <1>6

(* The history keeps its type.                                             *)
LEMMA HistoryTypes ==
  ASSUME NEW r \in Admissions
  PROVE  More(r) \in Admissions /\ Later(r) \in Admissions
<1>1. \A i \in 1 .. Window : r[i] \in Nat /\ r[i] + 1 \in Nat
  BY DEF Admissions
<1>2. \A i \in 1 .. Window : i # 1 => i - 1 \in 1 .. Window
  BY Constants
<1> QED
  BY <1>1, <1>2 DEF Admissions, More, Later

(* At first nobody has been admitted.                                      *)
LEMMA LimitInit == InitListing => LimitInv
<1> SUFFICES ASSUME InitListing PROVE LimitInv
  OBVIOUS
<1>1. InitLimit
  BY DEF InitListing
<1>2. /\ Home \in Addresses /\ Idle \in Pending /\ NoKey \in Counter
      /\ NoKey.n = 0 /\ NoKey.left = None /\ Idle.at = "idle"
      /\ 1 \in 1 .. Window
  BY Capacity, Constants, ListingAssumption
     DEF Idle, Pending, NoKey, Counter, CountBound
<1>3. LimitTypes
  BY <1>1, <1>2 DEF InitLimit, LimitTypes, Admissions
<1>4. RequestsOK /\ Expiring = 0
  BY <1>1, <1>2 DEF InitLimit, RequestsOK, Expiring
<1>5. BucketOK(None, recent[Home])
  <2>1. ASSUME NEW i \in 1 .. Window PROVE 0 + Burst <= Burst + Rate * (i - 1)
    <3>1. \A j \in Nat : Rate * j \in Nat
      BY Constants
    <3>2. i - 1 \in Nat
      BY Constants
    <3> QED
      BY <3>1, <3>2, Constants
  <2> QED
    BY <1>1, <1>2, <2>1 DEF InitLimit, BucketOK
<1>6. CounterOK(NoKey, recent[Home], 0)
  BY <1>1, <1>2, Capacity DEF InitLimit, CounterOK
<1> QED
  BY <1>1, <1>2, <1>3, <1>4, <1>5, <1>6 DEF InitLimit, LimitInv, LimitOK

(* Which requests are between INCR and EXPIRE is all that the counter's    *)
(* invariant knows of the requests.                                        *)
LEMMA SameExpiring ==
  (\A q \in Requests : req'[q].at = "expire" <=> req[q].at = "expire") => Expiring' = Expiring
BY DEF Expiring

(* An admission of a request of Home.                                      *)
LEMMA AdmitHome ==
  ASSUME LimitTypes, RequestsOK, NEW q \in Requests, Admit(q), req[q].at # "idle"
  PROVE  /\ recent'[Home] = More(recent[Home])
         /\ recent' \in [Addresses -> Admissions]
         /\ \A a \in Addresses \ {Home} : recent'[a] = recent[a]
         /\ req' \in [Requests -> Pending] /\ req'[q].at = "list"
         /\ req'[q].key = Home /\ req'[q].from = Home
         /\ \A p \in Requests \ {q} : req'[p] = req[p]
<1>1. /\ req[q].from = Home /\ req[q].key = Home /\ Home \in Addresses
      /\ req \in [Requests -> Pending] /\ req[q] \in Pending
      /\ recent \in [Addresses -> Admissions]
  BY ListingAssumption DEF RequestsOK, LimitTypes
<1>2. /\ req' = [req EXCEPT ![q].at = "list"]
      /\ recent' = [recent EXCEPT ![Home] = More(recent[Home])]
  BY <1>1 DEF Admit, More
<1>3. /\ req'[q] = [req[q] EXCEPT !.at = "list"]
      /\ [req[q] EXCEPT !.at = "list"] \in Pending
  BY <1>1, <1>2 DEF Pending
<1>4. More(recent[Home]) \in Admissions
  BY <1>1, HistoryTypes
<1>5. req' \in [Requests -> Pending] /\ \A p \in Requests \ {q} : req'[p] = req[p]
  BY <1>1, <1>2, <1>3
<1>6. /\ recent' \in [Addresses -> Admissions] /\ recent'[Home] = More(recent[Home])
      /\ \A a \in Addresses \ {Home} : recent'[a] = recent[a]
  BY <1>1, <1>2, <1>4
<1>7. req'[q].at = "list" /\ req'[q].key = Home /\ req'[q].from = Home
  BY <1>1, <1>3 DEF Pending
<1> QED
  BY <1>5, <1>6, <1>7

(* A request that is answered leaves the others alone.                     *)
LEMMA RefuseHome ==
  ASSUME LimitTypes, NEW q \in Requests, req' = [req EXCEPT ![q] = Idle]
  PROVE  /\ req' \in [Requests -> Pending] /\ req'[q].at = "idle"
         /\ \A p \in Requests \ {q} : req'[p] = req[p]
<1>1. Idle \in Pending /\ Idle.at = "idle" /\ req \in [Requests -> Pending]
  BY DEF Idle, Pending, LimitTypes
<1> QED
  BY <1>1

(* A request comes in.                                                     *)
LEMMA ArriveStep ==
  ASSUME LimitInv, NEW q \in Requests, Arrive(q, Home)
  PROVE  LimitInv'
<1>1. /\ req[q].at = "idle"
      /\ req' = [req EXCEPT ![q] = [at |-> "limit", key |-> Home, from |-> Home]]
      /\ UNCHANGED <<backend, entries, counters, recent>>
  BY HomeKeys DEF Arrive, limitVars
<1>2. [at |-> "limit", key |-> Home, from |-> Home] \in Pending
  BY DEF Pending
<1>3. req \in [Requests -> Pending]
  BY DEF LimitInv, LimitTypes
<1>4. /\ req' \in [Requests -> Pending]
      /\ req'[q] = [at |-> "limit", key |-> Home, from |-> Home]
      /\ \A p \in Requests \ {q} : req'[p] = req[p]
  BY <1>1, <1>2, <1>3
<1>5. req'[q].at = "limit" /\ req'[q].key = Home /\ req'[q].from = Home
  BY <1>4
<1> HIDE <1>2
<1>6. LimitTypes'
  BY <1>1, <1>4 DEF LimitInv, LimitTypes
<1>7. RequestsOK'
  <2>1. \A p \in Requests : req'[p].at = "expire" => p # q /\ req[p].at = "expire"
    BY <1>4, <1>5
  <2>2. \A p \in Requests : req'[p].at # "idle" => req'[p].key = Home /\ req'[p].from = Home
    BY <1>4, <1>5 DEF LimitInv, RequestsOK
  <2> QED
    BY <1>1, <2>1, <2>2 DEF LimitInv, RequestsOK
<1>8. Expiring' = Expiring
  <2>1. \A p \in Requests : req'[p].at = "expire" <=> req[p].at = "expire"
    BY <1>1, <1>4, <1>5
  <2> QED
    BY <2>1, SameExpiring
<1>9. LimitOK'
  BY <1>1, <1>8 DEF LimitInv, LimitOK
<1> QED
  BY <1>6, <1>7, <1>9 DEF LimitInv

(* A request is answered.                                                  *)
LEMMA DoneStep ==
  ASSUME LimitInv, NEW q \in Requests, req[q].at # "expire", Done(q)
  PROVE  LimitInv'
<1>1. /\ req' = [req EXCEPT ![q] = Idle]
      /\ UNCHANGED <<backend, entries, counters, recent>>
  BY DEF Done, limitVars
<1>2. /\ req' \in [Requests -> Pending] /\ req'[q].at = "idle"
      /\ \A p \in Requests \ {q} : req'[p] = req[p]
  BY <1>1, RefuseHome DEF LimitInv
<1>3. LimitTypes'
  BY <1>1, <1>2 DEF LimitInv, LimitTypes
<1>4. RequestsOK'
  <2>1. \A p \in Requests : req'[p].at # "idle" => p # q /\ req'[p] = req[p]
    BY <1>2
  <2>2. \A p \in Requests : req'[p].at = "expire" => req'[p].at # "idle"
    OBVIOUS
  <2> QED
    BY <1>1, <2>1, <2>2 DEF LimitInv, RequestsOK
<1>5. Expiring' = Expiring
  <2>1. \A p \in Requests : req'[p].at = "expire" <=> req[p].at = "expire"
    BY <1>2
  <2> QED
    BY <2>1, SameExpiring
<1>6. LimitOK'
  BY <1>1, <1>5 DEF LimitInv, LimitOK
<1> QED
  BY <1>3, <1>4, <1>6 DEF LimitInv

(* The token bucket decides.                                               *)
LEMMA MemoryStep ==
  ASSUME LimitInv, NEW q \in Requests, MemoryAllow(q)
  PROVE  LimitInv'
<1>1. PICK crowded \in BOOLEAN :
        LET known == cleanup(crowded)
            found == known[req[q].key]
            e == IF found = None THEN NewLimiter ELSE [found EXCEPT !.idle = 0]
        IN  /\ entries' = [known EXCEPT ![req[q].key] = [e EXCEPT !.tokens = Max({0, @ - 1})]]
            /\ \/ e.tokens > 0 /\ Admit(q)
               \/ e.tokens = 0 /\ Refuse(q)
  BY DEF MemoryAllow
<1>2. /\ backend = "memory" /\ req[q].at = "limit" /\ req[q].key = Home /\ req[q].at # "idle"
      /\ UNCHANGED <<backend, counters>>
  BY DEF MemoryAllow, LimitInv, RequestsOK
<1>3. /\ Home \in Addresses /\ entries \in [Addresses -> Bucket \cup {None}]
      /\ recent \in [Addresses -> Admissions] /\ recent[Home] \in Admissions
      /\ entries[Home] \in Bucket \cup {None}
  BY ListingAssumption DEF LimitInv, LimitTypes
<1> DEFINE known == cleanup(crowded)
           f == known[Home]
           u == IF f = None THEN NewLimiter ELSE [f EXCEPT !.idle = 0]
           v == Take(u)
<1>4. /\ entries' = [known EXCEPT ![Home] = v]
      /\ \/ u.tokens > 0 /\ Admit(q)
         \/ u.tokens = 0 /\ Refuse(q)
  BY <1>1, <1>2 DEF Take
<1>5. /\ known \in [Addresses -> Bucket \cup {None}]
      /\ f = entries[Home] \/ (f = None /\ entries[Home] # None /\ entries[Home].idle > Cutoff)
  BY <1>3 DEF cleanup
<1>6. BucketOK(entries[Home], recent[Home])
  BY <1>2 DEF LimitInv, LimitOK
<1>7. /\ u \in Bucket /\ v \in Bucket
      /\ u.tokens > 0 => BucketOK(v, More(recent[Home]))
      /\ u.tokens = 0 => BucketOK(v, recent[Home])
  <2>1. /\ u = IF f = None THEN NewLimiter ELSE [f EXCEPT !.idle = 0]
        /\ v = Take(u)
    OBVIOUS
  <2> HIDE DEF f, u, v
  <2> QED
    BY <1>3, <1>5, <1>6, <2>1, BucketAllow
<1> HIDE DEF known, u, v
<1>8. entries' \in [Addresses -> Bucket \cup {None}] /\ entries'[Home] = v
  BY <1>3, <1>4, <1>5, <1>7
<1>9. /\ recent' \in [Addresses -> Admissions]
      /\ \A a \in Addresses \ {Home} : recent'[a] = recent[a]
      /\ BucketOK(v, recent'[Home])
      /\ req' \in [Requests -> Pending]
      /\ req'[q].at \in {"list", "idle"}
      /\ req'[q].at # "idle" => req'[q].key = Home /\ req'[q].from = Home
      /\ \A p \in Requests \ {q} : req'[p] = req[p]
  <2>1. CASE u.tokens > 0 /\ Admit(q)
    BY <1>2, <1>7, <2>1, AdmitHome DEF LimitInv
  <2>2. CASE u.tokens = 0 /\ Refuse(q)
    BY <1>3, <1>7, <2>2, RefuseHome DEF LimitInv, Refuse
  <2> QED
    BY <1>4, <2>1, <2>2
<1>10. LimitTypes'
  BY <1>2, <1>8, <1>9 DEF LimitInv, LimitTypes
<1>11. RequestsOK'
  <2>1. \A p \in Requests : req'[p].at = "expire" => p # q /\ req[p].at = "expire"
    BY <1>9
  <2>2. \A p \in Requests : req'[p].at # "idle" => req'[p].key = Home /\ req'[p].from = Home
    BY <1>9 DEF LimitInv, RequestsOK
  <2> QED
    BY <1>2, <2>1, <2>2 DEF LimitInv, RequestsOK
<1>12. LimitOK'
  BY <1>2, <1>8, <1>9 DEF LimitInv, LimitOK
<1> QED
  BY <1>10, <1>11, <1>12 DEF LimitInv

(* INCR.                                                                   *)
LEMMA IncrStep ==
  ASSUME LimitInv, NEW q \in Requests, redisAllow(q)
  PROVE  LimitInv'
<1> DEFINE c == counters[Home]
           r == recent[Home]
           n == Min({CountBound, c.n + 1})
           d == [c EXCEPT !.n = n]
           cap == redisWindowCapacity
<1>1. /\ backend = "redis" /\ req[q].at = "limit" /\ req[q].key = Home /\ req[q].at # "idle"
      /\ UNCHANGED <<backend, entries>>
  BY DEF redisAllow, LimitInv, RequestsOK
<1>2. /\ Home \in Addresses /\ counters \in [Addresses -> Counter] /\ c \in Counter
      /\ recent \in [Addresses -> Admissions] /\ r \in Admissions
      /\ req \in [Requests -> Pending] /\ req[q] \in Pending
  BY ListingAssumption DEF LimitInv, LimitTypes
<1>3. Expiring \in {0, 1} /\ CounterOK(c, r, Expiring)
  BY <1>1 DEF LimitInv, LimitOK, Expiring
<1>4. [counters EXCEPT ![Home].n = n] = [counters EXCEPT ![Home] = d]
  BY <1>2
<1>5. \/ /\ counters' = [counters EXCEPT ![Home] = d]
         /\ \/ n = 1 /\ req' = [req EXCEPT ![q].at = "expire"] /\ UNCHANGED recent
            \/ n \in 2 .. cap /\ Admit(q)
            \/ n > cap /\ Refuse(q)
      \/ counters' \in {counters, [counters EXCEPT ![Home] = d]} /\ Refuse(q)
  <2> HIDE DEF d
  <2> QED
    BY <1>1, <1>4 DEF redisAllow
<1>6. /\ d \in Counter /\ d.n >= 1
      /\ c.n > 0 => d.n > 1
      /\ c.n > 0 => CounterOK(d, r, Expiring)
      /\ c.n = 0 => Expiring = 0 /\ CounterOK(d, r, 0) /\ CounterOK(d, r, 1)
      /\ c.n > 0 /\ d.n <= cap => CounterOK(d, More(r), Expiring)
  BY <1>2, <1>3, CounterIncr
<1>7. c.n \in Nat /\ d.n = n /\ d.n \in Nat
  BY <1>2, <1>6, CountedIs DEF Counter
<1> HIDE DEF n, d, cap, c
<1>8. CounterOK(d, r, Expiring)
  BY <1>6, <1>7
<1>9. [counters EXCEPT ![Home] = d] \in [Addresses -> Counter]
  BY <1>2, <1>6
<1>10. CASE Refuse(q) /\ counters' \in {counters, [counters EXCEPT ![Home] = d]}
  <2>1. /\ req' \in [Requests -> Pending] /\ req'[q].at = "idle"
        /\ \A p \in Requests \ {q} : req'[p] = req[p]
        /\ UNCHANGED recent
    BY <1>10, RefuseHome DEF Refuse, LimitInv
  <2>2. counters' \in [Addresses -> Counter] /\ counters'[Home] \in {c, d}
    BY <1>2, <1>6, <1>9, <1>10 DEF c
  <2>3. LimitTypes'
    BY <1>1, <2>1, <2>2 DEF LimitInv, LimitTypes
  <2>4. RequestsOK'
    <3>1. \A p \in Requests : req'[p].at # "idle" => p # q /\ req'[p] = req[p]
      BY <2>1
    <3>2. \A p \in Requests : req'[p].at = "expire" => req'[p].at # "idle"
      OBVIOUS
    <3> QED
      BY <1>1, <3>1, <3>2 DEF LimitInv, RequestsOK
  <2>5. Expiring' = Expiring
    <3>1. \A p \in Requests : req'[p].at = "expire" <=> req[p].at = "expire"
      BY <1>1, <2>1
    <3> QED
      BY <3>1, SameExpiring
  <2>6. CounterOK(counters'[Home], recent'[Home], Expiring')
    BY <1>3, <1>8, <2>1, <2>2, <2>5
  <2>7. LimitOK'
    BY <1>1, <2>1, <2>6 DEF LimitInv, LimitOK
  <2> QED
    BY <2>3, <2>4, <2>7 DEF LimitInv
<1>11. CASE /\ counters' = [counters EXCEPT ![Home] = d]
            /\ n = 1 /\ req' = [req EXCEPT ![q].at = "expire"] /\ UNCHANGED recent
  <2>1. c.n = 0 /\ Expiring = 0 /\ CounterOK(d, r, 1)
    BY <1>6, <1>7, <1>11
  <2>2. \A p \in Requests : req[p].at # "expire"
    BY <2>1 DEF Expiring
  <2>3. /\ req'[q] = [req[q] EXCEPT !.at = "expire"]
        /\ [req[q] EXCEPT !.at = "expire"] \in Pending
        /\ \A p \in Requests \ {q} : req'[p] = req[p]
    BY <1>2, <1>11 DEF Pending
  <2>4. req' \in [Requests -> Pending]
    BY <1>2, <1>11, <2>3
  <2>5. req'[q].at = "expire" /\ req'[q].key = Home /\ req'[q].from = Home
    BY <1>1, <1>2, <2>3 DEF LimitInv, RequestsOK, Pending
  <2>6. counters' \in [Addresses -> Counter] /\ counters'[Home] = d
    BY <1>2, <1>6, <1>9, <1>11
  <2>7. LimitTypes'
    BY <1>1, <1>11, <2>4, <2>6 DEF LimitInv, LimitTypes
  <2>8. RequestsOK'
    <3>1. \A p \in Requests : req'[p].at = "expire" => p = q
      BY <2>2, <2>3
    <3>2. \A p \in Requests : req'[p].at # "idle" => req'[p].key = Home /\ req'[p].from = Home
      BY <2>3, <2>5 DEF LimitInv, RequestsOK
    <3> QED
      BY <1>1, <3>1, <3>2 DEF LimitInv, RequestsOK
  <2>9. Expiring' = 1
    BY <2>5 DEF Expiring
  <2>10. LimitOK'
    BY <1>1, <1>11, <2>1, <2>6, <2>9 DEF LimitInv, LimitOK
  <2> QED
    BY <2>7, <2>8, <2>10 DEF LimitInv
<1>12. CASE /\ counters' = [counters EXCEPT ![Home] = d]
            /\ n \in 2 .. cap /\ Admit(q)
  <2>1. /\ recent'[Home] = More(recent[Home])
        /\ recent' \in [Addresses -> Admissions]
        /\ \A a \in Addresses \ {Home} : recent'[a] = recent[a]
        /\ req' \in [Requests -> Pending] /\ req'[q].at = "list"
        /\ req'[q].key = Home /\ req'[q].from = Home
        /\ \A p \in Requests \ {q} : req'[p] = req[p]
    BY <1>1, <1>12, AdmitHome DEF LimitInv
  <2>2. counters' \in [Addresses -> Counter] /\ counters'[Home] = d
    BY <1>2, <1>6, <1>9, <1>12
  <2>3. LimitTypes'
    BY <1>1, <2>1, <2>2 DEF LimitInv, LimitTypes
  <2>4. RequestsOK'
    <3>1. \A p \in Requests : req'[p].at = "expire" => p # q /\ req[p].at = "expire"
      BY <2>1
    <3>2. \A p \in Requests : req'[p].at # "idle" => req'[p].key = Home /\ req'[p].from = Home
      BY <2>1 DEF LimitInv, RequestsOK
    <3> QED
      BY <1>1, <3>1, <3>2 DEF LimitInv, RequestsOK
  <2>5. Expiring' = Expiring
    <3>1. \A p \in Requests : req'[p].at = "expire" <=> req[p].at = "expire"
      BY <1>1, <2>1
    <3> QED
      BY <3>1, SameExpiring
  <2>6. n > 1 /\ n <= cap /\ c.n > 0
    <3>1. n > 1 /\ n <= cap
      BY <1>12, Capacity DEF cap
    <3>2. c.n = 0 => d.n = 1
      <4>1. CountBound >= 2 /\ CountBound \in Int
        BY Capacity DEF CountBound
      <4>2. Min({CountBound, 0 + 1}) = 1
        BY <4>1, MinMax
      <4> QED
        BY <1>7, <4>2 DEF n
    <3> QED
      BY <1>7, <3>1, <3>2
  <2>7. CounterOK(counters'[Home], recent'[Home], Expiring')
    BY <1>6, <1>7, <2>1, <2>2, <2>5, <2>6
  <2>8. LimitOK'
    BY <1>1, <2>1, <2>7 DEF LimitInv, LimitOK
  <2> QED
    BY <2>3, <2>4, <2>8 DEF LimitInv
<1> QED
  BY <1>5, <1>10, <1>11, <1>12

(* EXPIRE.                                                                 *)
LEMMA ExpireStep ==
  ASSUME LimitInv, NEW q \in Requests, redisExpire(q)
  PROVE  LimitInv'
<1> DEFINE c == counters[Home]
           d == [c EXCEPT !.left = Window]
<1>1. /\ backend = "redis" /\ req[q].at = "expire" /\ req[q].key = Home /\ req[q].at # "idle"
      /\ Admit(q) /\ UNCHANGED <<backend, entries>>
  BY DEF redisExpire, LimitInv, RequestsOK
<1>2. /\ Home \in Addresses /\ counters \in [Addresses -> Counter] /\ c \in Counter
      /\ recent[Home] \in Admissions
  BY ListingAssumption DEF LimitInv, LimitTypes
<1>3. CounterOK(c, recent[Home], 1)
  <2>1. Expiring = 1
    BY <1>1 DEF Expiring
  <2> QED
    BY <1>1, <2>1 DEF LimitInv, LimitOK
<1>4. counters' \in {counters, [counters EXCEPT ![Home] = d]}
  <2>1. [counters EXCEPT ![Home].left = Window] = [counters EXCEPT ![Home] = d]
    BY <1>2
  <2> HIDE DEF d
  <2> QED
    BY <1>1, <2>1 DEF redisExpire
<1>5. /\ d \in Counter
      /\ CounterOK(c, More(recent[Home]), 0) /\ CounterOK(d, More(recent[Home]), 0)
  BY <1>2, <1>3, CounterExpiry
<1> HIDE DEF d
<1>6. counters' \in [Addresses -> Counter] /\ counters'[Home] \in {c, d}
  BY <1>2, <1>4, <1>5
<1>7. /\ recent'[Home] = More(recent[Home])
      /\ recent' \in [Addresses -> Admissions]
      /\ \A a \in Addresses \ {Home} : recent'[a] = recent[a]
      /\ req' \in [Requests -> Pending] /\ req'[q].at = "list"
      /\ req'[q].key = Home /\ req'[q].from = Home
      /\ \A p \in Requests \ {q} : req'[p] = req[p]
  BY <1>1, AdmitHome DEF LimitInv
<1>8. LimitTypes'
  BY <1>1, <1>6, <1>7 DEF LimitInv, LimitTypes
<1>9. \A p \in Requests : req'[p].at # "expire"
  BY <1>1, <1>7 DEF LimitInv, RequestsOK
<1>10. RequestsOK'
  <2>1. \A p \in Requests : req'[p].at # "idle" => req'[p].key = Home /\ req'[p].from = Home
    BY <1>7 DEF LimitInv, RequestsOK
  <2> QED
    BY <1>9, <2>1 DEF RequestsOK
<1>11. Expiring' = 0
  BY <1>9 DEF Expiring
<1>12. LimitOK'
  BY <1>1, <1>5, <1>6, <1>7, <1>11 DEF LimitInv, LimitOK
<1> QED
  BY <1>8, <1>10, <1>12 DEF LimitInv

(* A tick of the clock.                                                    *)
LEMMA PassTimeStep ==
  ASSUME LimitInv, PassTime
  PROVE  LimitInv'
<1>1. /\ Home \in Addresses /\ counters \in [Addresses -> Counter]
      /\ entries \in [Addresses -> Bucket \cup {None}]
      /\ recent \in [Addresses -> Admissions]
      /\ UNCHANGED <<backend, req>>
  BY ListingAssumption DEF LimitInv, LimitTypes, PassTime
<1>2. /\ entries' = [a \in Addresses |-> Refill(entries[a])]
      /\ counters' = [a \in Addresses |-> Expire(counters[a])]
      /\ recent' = [a \in Addresses |-> Later(recent[a])]
  BY DEF PassTime, Later
<1>3. Expiring' = Expiring /\ Expiring \in {0, 1}
  BY <1>1 DEF Expiring
<1>4. ASSUME NEW e \in Bucket \cup {None} PROVE Refill(e) \in Bucket \cup {None}
  <2>1. CASE e = None
    BY <2>1 DEF Refill
  <2>2. CASE e # None
    <3>1. e \in Bucket /\ e.tokens \in 0 .. Burst /\ e.idle \in 0 .. Cutoff + 1
      BY <2>2 DEF Bucket
    <3>2. /\ Burst \in Int /\ e.tokens + Rate \in Int
          /\ Cutoff + 1 \in Int /\ e.idle + 1 \in Int
      BY <3>1, Constants
    <3>3. /\ Min({Burst, e.tokens + Rate}) \in 0 .. Burst
          /\ Min({Cutoff + 1, e.idle + 1}) \in 0 .. Cutoff + 1
      <4>1. /\ Min({Burst, e.tokens + Rate})
                 = IF Burst <= e.tokens + Rate THEN Burst ELSE e.tokens + Rate
            /\ Min({Cutoff + 1, e.idle + 1})
                 = IF Cutoff + 1 <= e.idle + 1 THEN Cutoff + 1 ELSE e.idle + 1
        BY <3>2, MinMax
      <4> QED
        BY <3>1, <4>1, Constants
    <3> QED
      BY <2>2, <3>3 DEF Refill, Bucket
  <2> QED
    BY <2>1, <2>2
<1>5. ASSUME NEW c \in Counter PROVE Expire(c) \in Counter
  <2>1. CASE c.left = None
    BY <2>1 DEF Expire
  <2>2. CASE c.left # None /\ c.left = 1
    BY <2>2, Capacity DEF Expire, NoKey, Counter, CountBound
  <2>3. CASE c.left # None /\ c.left # 1
    <3>1. c.left \in 1 .. Window /\ c.left - 1 \in 1 .. Window
      BY <2>3, CountedIs, Constants
    <3> QED
      BY <2>3, <3>1 DEF Expire, Counter
  <2> QED
    BY <2>1, <2>2, <2>3
<1>6. LimitTypes'
  <2>1. entries' \in [Addresses -> Bucket \cup {None}]
    BY <1>1, <1>2, <1>4
  <2>2. counters' \in [Addresses -> Counter]
    BY <1>1, <1>2, <1>5
  <2>3. recent' \in [Addresses -> Admissions]
    BY <1>1, <1>2, HistoryTypes
  <2> QED
    BY <1>1, <2>1, <2>2, <2>3 DEF LimitInv, LimitTypes
<1>7. RequestsOK'
  BY <1>1 DEF LimitInv, RequestsOK
<1>8. /\ entries'[Home] = Refill(entries[Home]) /\ counters'[Home] = Expire(counters[Home])
      /\ recent'[Home] = Later(recent[Home])
      /\ entries[Home] \in Bucket \cup {None} /\ counters[Home] \in Counter
      /\ recent[Home] \in Admissions
  BY <1>1, <1>2
<1>9. ASSUME backend = "memory" PROVE BucketOK(entries'[Home], recent'[Home])
  <2>1. BucketOK(entries[Home], recent[Home])
    BY <1>9 DEF LimitInv, LimitOK
  <2> QED
    BY <1>8, <2>1, BucketTick
<1>10. ASSUME backend = "redis" PROVE CounterOK(counters'[Home], recent'[Home], Expiring)
  <2>1. CounterOK(counters[Home], recent[Home], Expiring)
    BY <1>10 DEF LimitInv, LimitOK
  <2> QED
    BY <1>3, <1>8, <2>1, CounterTick
<1>11. ASSUME NEW a \in Addresses \ {Home}, NEW i \in 1 .. Window PROVE recent'[a][i] = 0
  <2>1. recent'[a][i] = IF i = 1 THEN 0 ELSE recent[a][i - 1]
    BY <1>2 DEF Later
  <2>2. i # 1 => i - 1 \in 1 .. Window
    BY Constants
  <2> QED
    BY <2>1, <2>2 DEF LimitInv, LimitOK
<1>12. LimitOK'
  BY <1>1, <1>3, <1>9, <1>10, <1>11 DEF LimitOK
<1> QED
  BY <1>6, <1>7, <1>12 DEF LimitInv

(* Every step of the system keeps the invariant of the limit ...           *)
LEMMA LimitStep == LimitInv /\ [NextListing]_listingVars => LimitInv'
<1> SUFFICES ASSUME LimitInv, [NextListing]_listingVars PROVE LimitInv'
  OBVIOUS
<1>1. ASSUME UNCHANGED <<limitVars, req>> PROVE LimitInv'
  <2>1. UNCHANGED <<backend, entries, counters, recent, req>>
    BY <1>1 DEF limitVars
  <2>2. Expiring' = Expiring
    BY <2>1 DEF Expiring
  <2>3. LimitTypes' /\ RequestsOK'
    BY <2>1 DEF LimitInv, LimitTypes, RequestsOK
  <2>4. LimitOK'
    BY <2>1, <2>2 DEF LimitInv, LimitOK
  <2> QED
    BY <2>3, <2>4 DEF LimitInv
<1>2. ASSUME Send PROVE LimitInv'
  BY <1>2, ListingAssumption, ArriveStep DEF Send
<1>3. ASSUME ServePage \/ ServeError PROVE LimitInv'
  BY <1>3, ListingAssumption, DoneStep DEF ServePage, ServeError
<1>4. ASSUME Insert \/ Delete PROVE LimitInv'
  BY <1>1, <1>4 DEF Insert, Delete
<1>5. ASSUME TickListing PROVE LimitInv'
  BY <1>5, PassTimeStep DEF TickListing
<1>6. ASSUME NEW q \in Requests, SendOther(q) PROVE LimitInv'
  BY <1>6, ArriveStep DEF SendOther
<1>7. ASSUME NEW q \in Requests, CheckLimit(q) PROVE LimitInv'
  BY <1>7, MemoryStep, IncrStep, ExpireStep DEF CheckLimit, Limit
<1>8. ASSUME NEW q \in Requests, ServeOther(q) PROVE LimitInv'
  BY <1>8, DoneStep DEF ServeOther
<1>9. ASSUME UNCHANGED listingVars PROVE LimitInv'
  BY <1>1, <1>9 DEF listingVars
<1> QED
  BY <1>2, <1>3, <1>4, <1>5, <1>6, <1>7, <1>8, <1>9 DEF NextListing

(* ... so that it always holds.                                            *)
LEMMA LimitInductive == ListingSpec => []LimitInv
<1> QED
  BY LimitInit, LimitStep, PTL DEF ListingSpec

(* The rate limit: for any burst, rate and window, any traffic and any     *)
(* faults, an address is admitted no more in a window than a full bucket   *)
(* and its refill (RateLimit), or than two fixed windows (RateLimitRedis). *)
THEOREM WindowsAreBounded == ListingSpec => []WindowBound
<1>1. LimitInv => WindowBound
  <2> SUFFICES ASSUME LimitInv, NEW a \in Addresses
               PROVE  recent[a][Window] <=
                        IF backend = "memory" THEN Burst + Rate * (Window - 1)
                        ELSE 2 * redisWindowCapacity
    BY DEF WindowBound
  <2>1. Window \in 1 .. Window /\ Window - 1 \in Nat
    BY Constants
  <2>2. Rate * (Window - 1) \in Nat
    <3>1. \A j \in Nat : Rate * j \in Nat
      BY Constants
    <3> QED
      BY <2>1, <3>1
  <2>3. CASE a # Home
    <3>1. recent[a][Window] = 0
      BY <2>1, <2>3 DEF LimitInv, LimitOK
    <3> QED
      BY <2>2, <3>1, Capacity, Constants
  <2>4. CASE a = Home /\ backend = "memory"
    <3> DEFINE e == entries[Home]
    <3>1. /\ BucketOK(e, recent[Home]) /\ recent[Home][Window] \in Nat
          /\ e # None => e \in Bucket
      BY <2>1, <2>4 DEF LimitInv, LimitOK, LimitTypes, Admissions
    <3>2. recent[Home][Window] + (IF e = None THEN Burst ELSE e.tokens)
            <= Burst + Rate * (Window - 1)
      BY <2>1, <3>1 DEF BucketOK
    <3>3. e # None => e.tokens \in Nat
      BY <3>1, Constants DEF Bucket
    <3> HIDE DEF e
    <3> QED
      BY <2>2, <2>4, <3>1, <3>2, <3>3, Constants
  <2>5. CASE a = Home /\ backend = "redis"
    <3> DEFINE c == counters[Home]
    <3>1. /\ CounterOK(c, recent[Home], Expiring) /\ recent[Home][Window] \in Nat
          /\ c \in Counter /\ Expiring \in {0, 1}
      BY <2>1, <2>5 DEF LimitInv, LimitOK, LimitTypes, Admissions, Expiring
    <3>2. /\ Counted(c) \in Nat /\ Counted(c) <= redisWindowCapacity /\ c.n \in Nat
      BY <3>1, CountedIs
    <3>3. \/ recent[Home][Window] <= redisWindowCapacity
          \/ recent[Home][Window] <= redisWindowCapacity + Counted(c) - Expiring
          \/ recent[Home][Window] <= redisWindowCapacity + Counted(c)
      BY <2>1, <3>1, <3>2 DEF CounterOK
    <3> HIDE DEF c
    <3> QED
      BY <2>5, <3>1, <3>2, <3>3, Capacity
  <2> QED
    BY <2>3, <2>4, <2>5 DEF LimitInv, LimitTypes
<1> QED
  BY <1>1, LimitInductive, PTL
-------------------------------------------------------------------------------
(* The walk through a list.                                                *)

WalkTypes ==
  /\ list \in Lists
  /\ rows \in SUBSET Key
  /\ walk \in [cursor : [at : Nat, id : Nat] \cup {Nil}, got : Seq(Key), ended : BOOLEAN]
  /\ kept \in SUBSET rows

(* The client has been given rows in order, its cursor is the last of them *)
(* as long as the walk goes on, and the request of a walk that has ended   *)
(* has been answered.                                                      *)
WalkOK ==
  /\ \A i, j \in 1 .. Len(walk.got) : i < j => Ordered(list, walk.got[i], walk.got[j])
  /\ ~walk.ended =>
       walk.cursor = IF walk.got = <<>> THEN Nil ELSE EncodeCursor(walk.got[Len(walk.got)])
  /\ walk.ended => req[Walker].at = "idle"
  /\ \A k \in kept : Passed(k) => k \in Given

WalkInv == WalkTypes /\ WalkOK

(* A key is its two parts, which a cursor keeps (EncodeCursor).            *)
LEMMA KeyParts ==
  ASSUME NEW k \in Key
  PROVE  /\ k[1] \in Nat /\ k[2] \in Nat /\ k = <<k[1], k[2]>>
         /\ EncodeCursor(k) \in [at : Nat, id : Nat]
         /\ EncodeCursor(k) # Nil
         /\ DecodeCursor(EncodeCursor(k)) = k
<1>1. k \in Nat \X Nat
  BY PagingAssumption
<1>2. k[1] \in Nat /\ k[2] \in Nat /\ k = <<k[1], k[2]>>
  BY <1>1
<1>3. EncodeCursor(k) \in [at : Nat, id : Nat]
  BY <1>2 DEF EncodeCursor
<1>4. DecodeCursor(EncodeCursor(k)) = <<k[1], k[2]>>
  BY DEF EncodeCursor, DecodeCursor
<1>5. EncodeCursor(k) # Nil
  BY <1>3, PagingAssumption
<1> QED
  BY <1>2, <1>3, <1>4, <1>5

(* The row comparison is a strict order of all keys, in either direction.  *)
LEMMA OrderedIsStrict ==
  ASSUME NEW l
  PROVE  /\ \A k \in Key : ~Ordered(l, k, k)
         /\ \A k, m, n \in Key : Ordered(l, k, m) /\ Ordered(l, m, n) => Ordered(l, k, n)
<1>1. /\ \A k \in Key : ~Older(k, k)
      /\ \A k, m, n \in Key : Older(k, m) /\ Older(m, n) => Older(k, n)
  BY KeyParts DEF Older
<1> QED
  BY <1>1 DEF Ordered, Newer

(* Of some rows, one is the oldest.                                        *)
LEMMA OldestKey ==
  ASSUME NEW R \in SUBSET Key, R # {}
  PROVE  \E x \in R : \A y \in R \ {x} : Older(x, y)
<1> DEFINE Times == {k[1] : k \in R}
<1>1. Times \in SUBSET Nat /\ Times # {}
  BY KeyParts
<1>2. PICK t \in Times : \A u \in Times : t <= u
  BY <1>1, LeastNumber
<1> DEFINE Now == {k \in R : k[1] = t}
           Numbers == {k[2] : k \in Now}
<1>3. Numbers \in SUBSET Nat /\ Numbers # {}
  BY <1>2, KeyParts
<1>4. PICK i \in Numbers : \A j \in Numbers : i <= j
  BY <1>3, LeastNumber
<1>5. PICK x \in R : x[1] = t /\ x[2] = i
  BY <1>4
<1>6. ASSUME NEW y \in R \ {x} PROVE Older(x, y)
  <2>1. /\ x = <<x[1], x[2]>> /\ x[1] \in Nat /\ x[2] \in Nat
        /\ y = <<y[1], y[2]>> /\ y[1] \in Nat /\ y[2] \in Nat
    BY KeyParts
  <2>2. x[1] <= y[1]
    BY <1>2, <1>5
  <2>3. y[1] = x[1] => x[2] <= y[2]
    BY <1>4, <1>5
  <2>4. x[1] # y[1] \/ x[2] # y[2]
    BY <2>1
  <2> QED
    BY <2>1, <2>2, <2>3, <2>4 DEF Older
<1> QED
  BY <1>6

(* s has the rows of R in order.                                           *)
Enumerates(s, n, R) ==
  /\ s \in [1 .. n -> R]
  /\ \A k \in R : \E i \in 1 .. n : s[i] = k
  /\ \A i, j \in 1 .. n : i < j => Older(s[i], s[j])

(* Every set of rows can be put in order: the oldest one first, then the   *)
(* others.                                                                 *)
LEMMA CanBeOrdered ==
  ASSUME NEW R \in SUBSET Key
  PROVE  Cardinality(R) \in Nat /\ \E s : Enumerates(s, Cardinality(R), R)
<1> DEFINE Size(T) == Cardinality(T)
           S == {n \in Nat : \A T \in SUBSET Key : Size(T) = n => \E s : Enumerates(s, n, T)}
<1>1. ASSUME NEW T \in SUBSET Key
      PROVE  IsFiniteSet(T) /\ Size(T) \in Nat /\ (Size(T) = 0 <=> T = {})
  <2>1. IsFiniteSet(T)
    BY PagingAssumption, FS_Subset
  <2> QED
    BY <2>1, FS_CardinalityType, FS_EmptySet
<1>2. 0 \in S
  <2>1. ASSUME NEW T \in SUBSET Key, Size(T) = 0 PROVE \E s : Enumerates(s, 0, T)
    <3>1. T = {}
      BY <1>1, <2>1
    <3>2. Enumerates([i \in 1 .. 0 |-> i], 0, T)
      BY <3>1 DEF Enumerates
    <3> QED
      BY <3>2
  <2> QED
    BY <2>1
<1>3. ASSUME NEW n \in S PROVE n + 1 \in S
  <2>1. n \in Nat /\ \A T \in SUBSET Key : Size(T) = n => \E s : Enumerates(s, n, T)
    BY <1>3
  <2>2. ASSUME NEW T \in SUBSET Key, Size(T) = n + 1
        PROVE  \E s : Enumerates(s, n + 1, T)
    <3>1. T # {} /\ IsFiniteSet(T)
      BY <1>1, <2>1, <2>2
    <3>2. PICK x \in T : \A y \in T \ {x} : Older(x, y)
      BY <3>1, OldestKey
    <3>3. Size(T \ {x}) = n
      BY <2>1, <2>2, <3>1, FS_RemoveElement
    <3>4. PICK s : Enumerates(s, n, T \ {x})
      BY <2>1, <3>3
    <3> DEFINE r == [i \in 1 .. n + 1 |-> IF i = 1 THEN x ELSE s[i - 1]]
    <3>5. /\ \A i \in 1 .. n : s[i] \in T \ {x}
          /\ \A k \in T \ {x} : \E i \in 1 .. n : s[i] = k
          /\ \A i, j \in 1 .. n : i < j => Older(s[i], s[j])
      BY <3>4 DEF Enumerates
    <3>6. \A i \in 1 .. n + 1 : i # 1 => i - 1 \in 1 .. n /\ r[i] = s[i - 1]
      BY <2>1
    <3>7. r[1] = x /\ 1 \in 1 .. n + 1
      BY <2>1
    <3> HIDE DEF r
    <3>8. \A i \in 1 .. n + 1 : r[i] \in T
      BY <3>5, <3>6, <3>7
    <3>9. \A k \in T : \E i \in 1 .. n + 1 : r[i] = k
      <4>1. ASSUME NEW k \in T \ {x} PROVE \E i \in 1 .. n + 1 : r[i] = k
        <5>1. PICK i \in 1 .. n : s[i] = k
          BY <3>5
        <5>2. i + 1 \in 1 .. n + 1 /\ i + 1 # 1 /\ (i + 1) - 1 = i
          BY <2>1
        <5> QED
          BY <3>6, <5>1, <5>2
      <4> QED
        BY <3>7, <4>1
    <3>10. ASSUME NEW i \in 1 .. n + 1, NEW j \in 1 .. n + 1, i < j
           PROVE  Older(r[i], r[j])
      <4>1. j # 1 /\ j - 1 \in 1 .. n /\ r[j] = s[j - 1]
        BY <2>1, <3>6, <3>10
      <4>2. CASE i = 1
        BY <3>2, <3>5, <3>7, <4>1, <4>2
      <4>3. CASE i # 1
        <5>1. i - 1 \in 1 .. n /\ r[i] = s[i - 1] /\ i - 1 < j - 1
          BY <2>1, <3>6, <3>10, <4>3
        <5> QED
          BY <3>5, <4>1, <5>1
      <4> QED
        BY <4>2, <4>3
    <3>11. r \in [1 .. n + 1 -> T]
      BY <3>8 DEF r
    <3>12. Enumerates(r, n + 1, T)
      BY <3>9, <3>10, <3>11 DEF Enumerates
    <3> QED
      BY <3>12
  <2> QED
    BY <2>1, <2>2
<1>4. S = Nat
  <2> HIDE DEF S
  <2>1. S \in SUBSET Nat
    BY DEF S
  <2> QED
    BY <1>2, <1>3, <2>1, SetInduction
<1>5. Size(R) \in S
  BY <1>1, <1>4
<1> QED
  BY <1>1, <1>5

(* A list's rows in the list's order, s, are the rows of R.                *)
InListOrder(l, s, R) ==
  /\ s \in Seq(R)
  /\ \A k \in R : \E i \in 1 .. Len(s) : s[i] = k
  /\ \A i, j \in 1 .. Len(s) : i < j => Ordered(l, s[i], s[j])

(* InOrder is one of these orders, and its reverse is the other way round. *)
LEMMA AscendingOrder ==
  ASSUME NEW R \in SUBSET Key, NEW l \in {"members", "comments"}
  PROVE  InListOrder(l, InOrder[R], R)
<1> DEFINE n == Cardinality(R)
           s == InOrder[R]
<1>1. n \in Nat /\ \E t : Enumerates(t, n, R)
  BY CanBeOrdered
<1>2. s = CHOOSE t \in [1 .. n -> R] :
             /\ \A k \in R : \E i \in DOMAIN t : t[i] = k
             /\ \A i, j \in DOMAIN t : i < j => Older(t[i], t[j])
  BY DEF InOrder
<1> HIDE DEF n, s
<1>3. \E t \in [1 .. n -> R] :
             /\ \A k \in R : \E i \in DOMAIN t : t[i] = k
             /\ \A i, j \in DOMAIN t : i < j => Older(t[i], t[j])
  BY <1>1 DEF Enumerates
<1>4. /\ s \in [1 .. n -> R]
      /\ \A k \in R : \E i \in DOMAIN s : s[i] = k
      /\ \A i, j \in DOMAIN s : i < j => Older(s[i], s[j])
  BY <1>2, <1>3
<1>5. s \in Seq(R) /\ Len(s) = n /\ DOMAIN s = 1 .. n
  BY <1>1, <1>4
<1>6. \A k, m : Ordered(l, k, m) <=> Older(k, m)
  BY DEF Ordered
<1>7. InListOrder(l, s, R)
  BY <1>4, <1>5, <1>6 DEF InListOrder
<1> QED
  BY <1>7 DEF s

(* The reverse, of the lists that begin with the newest row.               *)
LEMMA DescendingOrder ==
  ASSUME NEW R \in SUBSET Key, NEW l \in {"projects", "reports", "shares"}
  PROVE  InListOrder(l, Reverse(InOrder[R]), R)
<1> DEFINE s == InOrder[R]
           n == Len(s)
           r == Reverse(s)
<1>1. InListOrder("members", s, R)
  BY AscendingOrder
<1>2. /\ s \in Seq(R)
      /\ \A k \in R : \E i \in 1 .. n : s[i] = k
      /\ \A i, j \in 1 .. n : i < j => Older(s[i], s[j])
  BY <1>1 DEF InListOrder, Ordered
<1> HIDE DEF s
<1>3. n \in Nat /\ \A i \in 1 .. n : s[i] \in R
  BY <1>2
<1> HIDE DEF n
<1>4. r = [i \in 1 .. n |-> s[(n - i) + 1]]
  BY DEF Reverse, n
<1>5. \A i \in 1 .. n : (n - i) + 1 \in 1 .. n /\ (n - ((n - i) + 1)) + 1 = i
  BY <1>3
<1>6. r \in Seq(R) /\ Len(r) = n /\ \A i \in 1 .. n : r[i] = s[(n - i) + 1]
  <2>1. \A i \in 1 .. n : s[(n - i) + 1] \in R
    BY <1>3, <1>5
  <2> QED
    BY <1>3, <1>4, <2>1
<1> HIDE DEF r
<1>7. \A k \in R : \E i \in 1 .. n : r[i] = k
  <2>1. ASSUME NEW k \in R PROVE \E i \in 1 .. n : r[i] = k
    <3>1. PICK i \in 1 .. n : s[i] = k
      BY <1>2
    <3> QED
      BY <1>5, <1>6, <3>1
  <2> QED
    BY <2>1
<1>8. ASSUME NEW i \in 1 .. n, NEW j \in 1 .. n, i < j PROVE Older(r[j], r[i])
  <2>1. (n - j) + 1 < (n - i) + 1
    BY <1>3, <1>8
  <2>2. (n - j) + 1 \in 1 .. n /\ (n - i) + 1 \in 1 .. n
    BY <1>5
  <2>3. Older(s[(n - j) + 1], s[(n - i) + 1])
    BY <1>2, <2>1, <2>2
  <2>4. r[i] = s[(n - i) + 1] /\ r[j] = s[(n - j) + 1]
    BY <1>6
  <2> QED
    BY <2>3, <2>4
<1>9. \A k, m : Ordered(l, k, m) <=> Older(m, k)
  BY DEF Ordered, Newer
<1>10. InListOrder(l, r, R)
  BY <1>6, <1>7, <1>8, <1>9 DEF InListOrder
<1> QED
  BY <1>10 DEF r, s

(* The rows of R that a page begins with, and the cursor of the next one   *)
(* (TrimPage).                                                             *)
LEMMA FirstRowsAre ==
  ASSUME NEW page, page.limit \in Nat, page.limit >= 1, NEW s \in Seq(Key)
  PROVE  FirstRows(page, s) =
           IF Len(s) <= page.limit THEN [items |-> s, next |-> Nil]
           ELSE [items |-> SubSeq(s, 1, page.limit), next |-> EncodeCursor(s[page.limit])]
<1> DEFINE m == page.limit
           n == Len(s)
           top == Min({m + 1, n})
           cut == SubSeq(s, 1, top)
<1>1. m \in Nat /\ m >= 1 /\ n \in Nat /\ \A i \in 1 .. n : s[i] \in Key
  OBVIOUS
<1>2. FirstRows(page, s) = TrimPage(page, cut)
  BY DEF FirstRows
<1> HIDE DEF m, n
<1>3. top = IF m + 1 <= n THEN m + 1 ELSE n
  <2>1. m + 1 \in Int /\ n \in Int
    BY <1>1
  <2> QED
    BY <2>1, MinMax
<1>4. CASE n <= m
  <2>1. top = n
    BY <1>1, <1>3, <1>4
  <2>2. cut = s
    BY <2>1, SubSeqFull DEF n
  <2> HIDE DEF cut
  <2> QED
    BY <1>2, <1>4, <2>2 DEF TrimPage, m, n
<1>5. CASE n > m
  <2>1. top = m + 1 /\ m + 1 \in Int /\ \A i \in 1 .. m + 1 : s[i] \in Key
    BY <1>1, <1>3, <1>5
  <2>2. cut = SubSeq(s, 1, m + 1)
    BY <2>1
  <2> HIDE DEF top, cut
  <2>3. /\ cut \in Seq(Key)
        /\ Len(cut) = IF 1 <= m + 1 THEN (m + 1) - 1 + 1 ELSE 0
        /\ \A i \in 1 .. (m + 1) - 1 + 1 : cut[i] = s[1 + i - 1]
    BY <2>1, <2>2, SubSeqProperties
  <2>4. Len(cut) = m + 1 /\ \A i \in 1 .. m + 1 : cut[i] = s[i] /\ cut[i] \in Key
    <3>1. \A i \in 1 .. m + 1 : i \in 1 .. (m + 1) - 1 + 1 /\ 1 + i - 1 = i
      BY <1>1
    <3>2. Len(cut) = m + 1
      BY <1>1, <2>3
    <3> QED
      BY <2>1, <2>3, <3>1, <3>2
  <2>5. /\ \A i \in 1 .. m : cut[i] \in Key /\ s[i] \in Key /\ cut[i] = s[i]
        /\ m \in 1 .. m
    BY <1>1, <2>1, <2>4
  <2>6. /\ SubSeq(s, 1, m) \in Seq(Key)
        /\ Len(SubSeq(s, 1, m)) = IF 1 <= m THEN m - 1 + 1 ELSE 0
        /\ \A i \in 1 .. m - 1 + 1 : SubSeq(s, 1, m)[i] = s[1 + i - 1]
    BY <1>1, <2>5, SubSeqProperties
  <2>7. /\ SubSeq(cut, 1, m) \in Seq(Key)
        /\ Len(SubSeq(cut, 1, m)) = IF 1 <= m THEN m - 1 + 1 ELSE 0
        /\ \A i \in 1 .. m - 1 + 1 : SubSeq(cut, 1, m)[i] = cut[1 + i - 1]
    BY <1>1, <2>5, SubSeqProperties
  <2>8. SubSeq(cut, 1, m) = SubSeq(s, 1, m)
    <3> DEFINE a == SubSeq(s, 1, m)
               b == SubSeq(cut, 1, m)
    <3>1. a \in Seq(Key) /\ b \in Seq(Key) /\ Len(a) = m /\ Len(b) = m
      BY <1>1, <2>6, <2>7
    <3>2. \A i \in 1 .. m : i \in 1 .. m - 1 + 1 /\ 1 + i - 1 = i
      BY <1>1
    <3>3. \A i \in 1 .. m : a[i] = s[i] /\ b[i] = cut[i]
      BY <2>6, <2>7, <3>2
    <3> HIDE DEF a, b
    <3>4. \A i \in 1 .. m : a[i] = b[i]
      BY <2>5, <3>3
    <3>5. a = b
      BY <3>1, <3>4, SeqEqual
    <3> QED
      BY <3>5 DEF a, b
  <2>9. cut[m] = s[m] /\ ~(Len(cut) <= m) /\ ~(n <= m)
    BY <1>1, <1>5, <2>4, <2>5
  <2> QED
    BY <1>2, <2>8, <2>9 DEF TrimPage, m, n
<1> QED
  BY <1>1, <1>4, <1>5 DEF m

(* Whatever limit is asked for and configured, a page has room for a row.  *)
LEMMA PageHasRoom ==
  ASSUME NEW raw \in Raw, NEW cursor
  PROVE  /\ Parse(raw, cursor).limit \in Nat /\ Parse(raw, cursor).limit >= 1
         /\ Parse(raw, cursor).cursor = cursor
<1> DEFINE l == withDefaults([default |-> DefaultLimit, max |-> MaxLimit])
           limit == IF raw = Nil THEN l.default ELSE raw
           capped == IF limit > l.max THEN l.max ELSE limit
<1>1. l.default \in Int /\ l.max \in Int
  BY PagingAssumption DEF withDefaults
<1>2. limit \in Int
  BY <1>1, ListingAssumption
<1> HIDE DEF l, limit
<1>3. capped \in Int
  BY <1>1, <1>2
<1>4. Parse(raw, cursor) = [limit |-> IF capped < 1 THEN 1 ELSE capped, cursor |-> cursor]
  BY DEF Parse, l, limit
<1> HIDE DEF capped
<1> QED
  BY <1>3, <1>4

(* The five queries: the rows after the cursor, in their list's order.     *)
LEMMA ListPage ==
  ASSUME rows \in SUBSET Key, list \in Lists, NEW page
  PROVE  \E s : /\ List(list, page) = FirstRows(page, s)
                /\ InListOrder(list, s,
                     {k \in rows : page.cursor = Nil
                                     \/ Ordered(list, DecodeCursor(page.cursor), k)})
<1> DEFINE After == {k \in rows : page.cursor = Nil
                                    \/ Ordered(list, DecodeCursor(page.cursor), k)}
           Asc == {k \in rows : page.cursor = Nil \/ Older(DecodeCursor(page.cursor), k)}
           Desc == {k \in rows : page.cursor = Nil \/ Newer(DecodeCursor(page.cursor), k)}
<1>1. CASE list \in {"members", "comments"}
  <2>1. After = Asc /\ After \in SUBSET Key
    BY <1>1 DEF Ordered
  <2>2. List(list, page) = FirstRows(page, InOrder[Asc])
    BY <1>1 DEF List, ListMembers, ListComments, SelectAsc
  <2> HIDE DEF After, Asc
  <2>3. InListOrder(list, InOrder[After], After)
    BY <1>1, <2>1, AscendingOrder
  <2>4. \E s : List(list, page) = FirstRows(page, s) /\ InListOrder(list, s, After)
    BY <2>1, <2>2, <2>3
  <2> QED
    BY <2>4 DEF After
<1>2. CASE list \in {"projects", "reports", "shares"}
  <2>1. After = Desc /\ After \in SUBSET Key
    BY <1>2 DEF Ordered
  <2>2. List(list, page) = FirstRows(page, Reverse(InOrder[Desc]))
    BY <1>2 DEF List, ListForUser, ListByProject, ListShares, SelectDesc
  <2> HIDE DEF After, Desc
  <2>3. InListOrder(list, Reverse(InOrder[After]), After)
    BY <1>2, <2>1, DescendingOrder
  <2>4. \E s : List(list, page) = FirstRows(page, s) /\ InListOrder(list, s, After)
    BY <2>1, <2>2, <2>3
  <2> QED
    BY <2>4 DEF After
<1> QED
  BY <1>1, <1>2 DEF Lists

(* A page is served: its rows go behind the ones the client has.           *)
LEMMA ServePageStep ==
  ASSUME LimitTypes, WalkInv, ServePage
  PROVE  WalkInv'
<1> DEFINE got == walk.got
           cursor == walk.cursor
           After == {k \in rows : cursor = Nil \/ Ordered(list, DecodeCursor(cursor), k)}
<1>1. /\ req[Walker].at = "list" /\ req' = [req EXCEPT ![Walker] = Idle]
      /\ UNCHANGED <<rows, list, kept>>
  BY DEF ServePage, Done
<1>2. PICK raw \in Raw :
        walk' = [cursor |-> List(list, Parse(raw, cursor)).next,
                 got |-> got \o List(list, Parse(raw, cursor)).items,
                 ended |-> List(list, Parse(raw, cursor)).next = Nil]
  BY DEF ServePage
<1> DEFINE page == Parse(raw, cursor)
           m == page.limit
<1>3. m \in Nat /\ m >= 1 /\ page.cursor = cursor
  BY PageHasRoom
<1> HIDE DEF page
<1>4. /\ rows \in SUBSET Key /\ list \in Lists /\ got \in Seq(Key)
      /\ kept \in SUBSET rows /\ walk.ended \in BOOLEAN
  BY DEF WalkInv, WalkTypes
<1>5. PICK s : List(list, page) = FirstRows(page, s) /\ InListOrder(list, s, After)
  BY <1>3, <1>4, ListPage
<1> DEFINE n == Len(s)
           items == IF n <= m THEN s ELSE SubSeq(s, 1, m)
           next == IF n <= m THEN Nil ELSE EncodeCursor(s[m])
<1>6. /\ s \in Seq(Key) /\ n \in Nat /\ \A i \in 1 .. n : s[i] \in After
      /\ \A k \in After : \E i \in 1 .. n : s[i] = k
      /\ \A i, j \in 1 .. n : i < j => Ordered(list, s[i], s[j])
  <2>1. After \subseteq Key
    BY <1>4
  <2> HIDE DEF After
  <2>2. s \in Seq(After) /\ \A i \in 1 .. Len(s) : s[i] \in After
    BY <1>5 DEF InListOrder
  <2>3. s \in Seq(Key)
    BY <2>1, <2>2
  <2> QED
    BY <1>5, <2>2, <2>3 DEF InListOrder
<1>7. List(list, page) = [items |-> items, next |-> next]
  <2>1. FirstRows(page, s) =
           IF Len(s) <= page.limit THEN [items |-> s, next |-> Nil]
           ELSE [items |-> SubSeq(s, 1, page.limit), next |-> EncodeCursor(s[page.limit])]
    BY <1>3, <1>6, FirstRowsAre
  <2> QED
    BY <1>5, <2>1
<1> DEFINE size == IF n <= m THEN n ELSE m
<1>8. /\ items \in Seq(Key) /\ Len(items) = size /\ size \in Nat /\ size <= n
      /\ \A i \in 1 .. size : items[i] = s[i] /\ i \in 1 .. n
  <2>1. CASE n <= m
    BY <1>6, <2>1
  <2>2. CASE n > m
    <3>1. \A i \in 1 .. m : s[i] \in Key /\ i \in 1 .. n /\ i \in 1 .. m - 1 + 1 /\ 1 + i - 1 = i
      BY <1>3, <1>6, <2>2
    <3>2. /\ SubSeq(s, 1, m) \in Seq(Key)
          /\ Len(SubSeq(s, 1, m)) = IF 1 <= m THEN m - 1 + 1 ELSE 0
          /\ \A i \in 1 .. m - 1 + 1 : SubSeq(s, 1, m)[i] = s[1 + i - 1]
      BY <1>3, <3>1, SubSeqProperties
    <3>3. ~(n <= m) /\ size = m /\ items = SubSeq(s, 1, m) /\ m <= n
      BY <1>3, <1>6, <2>2
    <3>4. Len(SubSeq(s, 1, m)) = m
      BY <1>3, <3>2
    <3>5. \A i \in 1 .. m : SubSeq(s, 1, m)[i] = s[i]
      BY <3>1, <3>2
    <3> HIDE DEF items, size
    <3> QED
      BY <1>3, <3>1, <3>2, <3>3, <3>4, <3>5
  <2> QED
    BY <1>3, <1>6, <2>1, <2>2
<1> HIDE DEF items
<1>9. walk' = [cursor |-> next, got |-> got \o items, ended |-> next = Nil]
  BY <1>2, <1>7 DEF page
<1> HIDE DEF next
<1>10. /\ walk'.cursor = next /\ walk'.got = got \o items /\ walk'.ended = (next = Nil)
  BY <1>9
<1> DEFINE g == Len(got)
           new == got \o items
<1>11. /\ new \in Seq(Key) /\ Len(new) = g + size /\ g \in Nat
       /\ \A i \in 1 .. g : new[i] = got[i] /\ i \in 1 .. g + size
       /\ \A i \in 1 .. size : new[g + i] = s[i] /\ g + i \in 1 .. g + size
       /\ \A i \in 1 .. g + size : i \in 1 .. g \/ (i - g \in 1 .. size /\ new[i] = s[i - g])
  <2>1. /\ new \in Seq(Key) /\ Len(new) = g + Len(items) /\ g \in Nat
        /\ \A i \in 1 .. g + Len(items) :
             new[i] = IF i <= g THEN got[i] ELSE items[i - g]
    <3>1. got \in Seq(Key) /\ items \in Seq(Key) /\ g \in Nat
      BY <1>4, <1>8
    <3> HIDE DEF got
    <3> QED
      BY <3>1, ConcatProperties
  <2> HIDE DEF new, g
  <2>2. \A i \in 1 .. g : i \in 1 .. g + size /\ i <= g
    BY <1>8, <2>1
  <2>3. \A i \in 1 .. size : g + i \in 1 .. g + size /\ ~(g + i <= g) /\ (g + i) - g = i
    BY <1>8, <2>1
  <2>4. \A i \in 1 .. g + size : i \in 1 .. g \/ (i - g \in 1 .. size /\ ~(i <= g))
    BY <1>8, <2>1
  <2> HIDE DEF size
  <2> QED
    BY <1>8, <2>1, <2>2, <2>3, <2>4
<1> HIDE DEF new
<1>12. ~walk.ended /\ cursor = IF got = <<>> THEN Nil ELSE EncodeCursor(got[g])
  BY <1>1 DEF WalkInv, WalkOK
<1>13. ASSUME g > 0
       PROVE  g \in 1 .. g /\ got[g] \in Key /\ cursor # Nil /\ DecodeCursor(cursor) = got[g]
  <2>1. g \in 1 .. g /\ got # <<>> /\ got[g] \in Key
    BY <1>4, <1>13
  <2> QED
    BY <1>12, <2>1, KeyParts
<1>14. g = 0 => cursor = Nil
  BY <1>4, <1>12
<1>15. \A i, j \in 1 .. g : i < j => Ordered(list, got[i], got[j])
  BY DEF WalkInv, WalkOK
<1>16. \A i \in 1 .. g : got[i] \in Key
  BY <1>4
<1>17. ASSUME NEW i \in 1 .. g, NEW j \in 1 .. size PROVE Ordered(list, got[i], s[j])
  <2>1. g > 0 /\ got[g] \in Key /\ got[i] \in Key /\ i \in Nat /\ i <= g
    BY <1>11, <1>13, <1>16
  <2>2. s[j] \in After /\ s[j] \in Key
    BY <1>4, <1>6, <1>8
  <2>3. Ordered(list, got[g], s[j])
    BY <1>13, <2>1, <2>2
  <2>4. CASE i = g
    BY <2>3, <2>4
  <2>5. CASE i < g
    <3>1. Ordered(list, got[i], got[g])
      BY <1>13, <1>15, <2>1, <2>5
    <3> QED
      BY <2>1, <2>2, <2>3, <3>1, OrderedIsStrict
  <2> QED
    BY <1>11, <2>1, <2>4, <2>5
<1>18. ASSUME NEW i \in 1 .. g + size, NEW j \in 1 .. g + size, i < j
       PROVE  Ordered(list, new[i], new[j])
  <2>1. CASE i \in 1 .. g /\ j \in 1 .. g
    BY <1>11, <1>15, <1>18, <2>1
  <2>2. CASE i \in 1 .. g /\ j \notin 1 .. g
    BY <1>11, <1>17, <2>2
  <2>3. CASE i \notin 1 .. g
    <3>1. /\ i - g \in 1 .. size /\ j - g \in 1 .. size /\ i - g < j - g
          /\ new[i] = s[i - g] /\ new[j] = s[j - g]
      BY <1>8, <1>11, <1>18, <2>3
    <3> QED
      BY <1>6, <1>8, <3>1
  <2> QED
    BY <2>1, <2>2, <2>3
<1>19. /\ next = Nil => size = n
       /\ next # Nil => /\ m \in 1 .. n /\ size = m /\ next = EncodeCursor(s[m])
                        /\ DecodeCursor(next) = s[m] /\ next \in [at : Nat, id : Nat]
  <2>1. CASE n <= m
    BY <2>1 DEF next
  <2>2. CASE n > m
    <3>1. m \in 1 .. n /\ ~(n <= m)
      BY <1>3, <1>6, <2>2
    <3>2. s[m] \in Key
      BY <1>4, <1>6, <3>1
    <3> QED
      BY <3>1, <3>2, KeyParts DEF next
  <2> QED
    BY <1>3, <1>6, <2>1, <2>2
<1> HIDE DEF size, m
<1>20. WalkTypes'
  <2>1. next \in [at : Nat, id : Nat] \cup {Nil} /\ (next = Nil) \in BOOLEAN
    BY <1>19
  <2> QED
    BY <1>1, <1>4, <1>9, <1>11, <2>1 DEF WalkTypes, new
<1>21. ASSUME ~walk'.ended
       PROVE  walk'.cursor = IF walk'.got = <<>> THEN Nil
                             ELSE EncodeCursor(walk'.got[Len(walk'.got)])
  <2>1. next # Nil /\ m \in 1 .. size /\ m = size /\ next = EncodeCursor(s[m])
    <3>1. next # Nil
      BY <1>10, <1>21
    <3>2. m = size /\ next = EncodeCursor(s[m]) /\ m \in 1 .. n
      BY <1>19, <3>1
    <3>3. m \in 1 .. m
      BY <1>6, <3>2
    <3> QED
      BY <3>1, <3>2, <3>3
  <2>2. new[g + size] = s[m] /\ Len(new) = g + size /\ new # <<>>
    <3>1. g + size \in 1 .. g + size
      BY <1>11, <2>1
    <3> QED
      BY <1>11, <2>1, <3>1
  <2> QED
    BY <1>10, <2>1, <2>2 DEF new
<1>22. req'[Walker].at = "idle"
  BY <1>1, ListingAssumption DEF LimitTypes, Idle
<1>23. ASSUME NEW k \in kept, Passed(k)' PROVE k \in Given'
  <2>1. Given' = {new[i] : i \in 1 .. g + size}
    <3>1. DOMAIN new = 1 .. g + size
      BY <1>11
    <3> QED
      BY <1>10, <3>1 DEF Given, new
  <2>2. CASE \E i \in 1 .. g : got[i] = k
    BY <1>11, <2>1, <2>2
  <2>3. CASE ~ \E i \in 1 .. g : got[i] = k
    <3>1. ~Passed(k)
      <4>1. Given = {got[i] : i \in 1 .. g}
        BY <1>4 DEF Given
      <4> QED
        BY <2>3, <4>1 DEF WalkInv, WalkOK
    <3>2. k \in After
      BY <1>4, <3>1 DEF Passed
    <3>3. PICK i \in 1 .. n : s[i] = k
      BY <1>6, <3>2
    <3>4. i \in 1 .. size
      <4>1. CASE next = Nil
        BY <1>19, <4>1
      <4>2. CASE next # Nil
        <5>1. ~Ordered(list, s[m], k)
          BY <1>1, <1>10, <1>19, <1>23, <4>2 DEF Passed
        <5>2. ~(m < i) /\ m = size
          BY <1>6, <1>19, <3>3, <4>2, <5>1
        <5> QED
          BY <1>6, <1>19, <4>2, <5>2
      <4> QED
        BY <4>1, <4>2
    <3> QED
      BY <1>11, <2>1, <3>3, <3>4
  <2> QED
    BY <2>2, <2>3
<1>24. WalkOK'
  <2>1. \A i, j \in 1 .. Len(walk'.got) : i < j => Ordered(list', walk'.got[i], walk'.got[j])
    BY <1>1, <1>10, <1>11, <1>18 DEF new
  <2> QED
    BY <1>1, <1>21, <1>22, <1>23, <2>1 DEF WalkOK
<1> QED
  BY <1>20, <1>24 DEF WalkInv

(* The walk begins with no cursor and no rows.                             *)
LEMMA WalkInit == InitListing => WalkInv
<1> SUFFICES ASSUME InitListing PROVE WalkInv
  OBVIOUS
<1>1. /\ rows \in SUBSET Key /\ list \in Lists /\ kept = rows
      /\ walk = [cursor |-> Nil, got |-> <<>>, ended |-> FALSE]
  BY DEF InitListing
<1>2. walk.cursor = Nil /\ walk.got = <<>> /\ walk.ended = FALSE
  BY <1>1
<1>3. <<>> \in Seq(Key) /\ Len(<<>>) = 0
  OBVIOUS
<1>4. WalkTypes
  BY <1>1, <1>3 DEF WalkTypes
<1>5. \A i, j \in 1 .. Len(walk.got) : i < j => Ordered(list, walk.got[i], walk.got[j])
  BY <1>2, <1>3
<1> QED
  BY <1>2, <1>4, <1>5 DEF WalkInv, WalkOK, Passed

(* The walk is where it was, and its request has not come back to life.    *)
LEMMA WalkFrame ==
  ASSUME WalkInv, UNCHANGED <<list, walk>>,
         rows' \in SUBSET Key, kept' \in SUBSET rows', kept' \subseteq kept,
         walk.ended => req'[Walker] = req[Walker]
  PROVE  WalkInv'
<1>1. Given' = Given /\ \A k : Passed(k)' <=> Passed(k)
  BY DEF Given, Passed
<1>2. WalkTypes'
  BY DEF WalkInv, WalkTypes
<1>3. WalkOK'
  BY <1>1 DEF WalkInv, WalkOK
<1> QED
  BY <1>2, <1>3 DEF WalkInv

(* Every step of the system keeps the invariant of the walk ...            *)
LEMMA WalkStepOK ==
  LimitInv /\ WalkInv /\ [NextListing]_listingVars => WalkInv'
<1> SUFFICES ASSUME LimitInv, WalkInv, [NextListing]_listingVars PROVE WalkInv'
  OBVIOUS
<1>1. /\ rows \in SUBSET Key /\ kept \in SUBSET rows
      /\ req \in [Requests -> Pending] /\ Walker \in Requests
      /\ walk.ended => req[Walker].at = "idle"
  BY ListingAssumption DEF WalkInv, WalkTypes, WalkOK, LimitInv, LimitTypes
<1>2. ASSUME WalkUnchanged, walk.ended => req'[Walker] = req[Walker] PROVE WalkInv'
  BY <1>1, <1>2, WalkFrame DEF WalkUnchanged
<1>3. ASSUME Send PROVE WalkInv'
  BY <1>2, <1>3 DEF Send
<1>4. ASSUME ServePage PROVE WalkInv'
  BY <1>4, ServePageStep DEF LimitInv
<1>5. ASSUME ServeError PROVE WalkInv'
  BY <1>1, <1>2, <1>5 DEF ServeError
<1>6. ASSUME Insert PROVE WalkInv'
  <2>1. PICK k \in Key \ rows : rows' = rows \cup {k}
    BY <1>6 DEF Insert
  <2>2. UNCHANGED <<req, list, walk, kept>>
    BY <1>6 DEF Insert
  <2> QED
    BY <1>1, <2>1, <2>2, WalkFrame
<1>7. ASSUME Delete PROVE WalkInv'
  <2>1. PICK k \in rows : rows' = rows \ {k} /\ kept' = kept \ {k}
    BY <1>7 DEF Delete
  <2>2. UNCHANGED <<req, list, walk>>
    BY <1>7 DEF Delete
  <2> QED
    BY <1>1, <2>1, <2>2, WalkFrame
<1>8. ASSUME TickListing PROVE WalkInv'
  BY <1>2, <1>8 DEF TickListing, PassTime
<1>9. ASSUME NEW q \in Requests, SendOther(q) PROVE WalkInv'
  <2>1. q # Walker /\ WalkUnchanged
    BY <1>9 DEF SendOther
  <2>2. req'[Walker] = req[Walker]
    BY <1>1, <1>9, <2>1 DEF SendOther, Arrive
  <2> QED
    BY <1>2, <2>1, <2>2
<1>10. ASSUME NEW q \in Requests, CheckLimit(q) PROVE WalkInv'
  <2>1. req[q].at \in {"limit", "expire"} /\ WalkUnchanged
    BY <1>10 DEF CheckLimit, Limit, MemoryAllow, redisAllow, redisExpire
  <2>2. \E z \in {"list", "expire"} : req' = [req EXCEPT ![q].at = z]
                                      \/ req' = [req EXCEPT ![q] = Idle]
    BY <1>10 DEF CheckLimit, Limit, MemoryAllow, redisAllow, redisExpire, Admit, Refuse
  <2>3. q # Walker => req'[Walker] = req[Walker]
    BY <1>1, <2>2
  <2>4. q = Walker => ~walk.ended
    BY <1>1, <2>1
  <2> QED
    BY <1>2, <2>1, <2>3, <2>4
<1>11. ASSUME NEW q \in Requests, ServeOther(q) PROVE WalkInv'
  <2>1. q # Walker /\ WalkUnchanged
    BY <1>11 DEF ServeOther
  <2>2. req'[Walker] = req[Walker]
    BY <1>1, <1>11, <2>1 DEF ServeOther, Done
  <2> QED
    BY <1>2, <2>1, <2>2
<1>12. ASSUME UNCHANGED listingVars PROVE WalkInv'
  BY <1>2, <1>12 DEF listingVars, WalkUnchanged
<1> QED
  BY <1>3, <1>4, <1>5, <1>6, <1>7, <1>8, <1>9, <1>10, <1>11, <1>12 DEF NextListing

(* ... so that both always hold.                                           *)
LEMMA WalkInductive == ListingSpec => [](LimitInv /\ WalkInv)
<1> QED
  BY LimitInit, LimitStep, WalkInit, WalkStepOK, PTL DEF ListingSpec

(* Pages by cursor (Parse, TrimPage and the five list queries): for any    *)
(* rows, limits and page sizes, and whatever comes and goes meanwhile, a   *)
(* client is given every row that stays exactly once and in order.         *)
THEOREM RowsOnce == ListingSpec => []EachRowOnce
<1>1. WalkInv => EachRowOnce
  <2> SUFFICES ASSUME WalkInv
               PROVE  \A i \in 1..Len(walk.got) - 1 : Ordered(list, walk.got[i], walk.got[i + 1])
    BY DEF WalkInv, WalkOK, EachRowOnce
  <2>1. Len(walk.got) \in Nat
    BY DEF WalkInv, WalkTypes
  <2>2. \A i \in 1..Len(walk.got) - 1 :
          i \in 1..Len(walk.got) /\ i + 1 \in 1..Len(walk.got) /\ i < i + 1
    BY <2>1
  <2> QED
    BY <2>2 DEF WalkInv, WalkOK
<1> QED
  BY <1>1, WalkInductive, PTL
================================================================================
