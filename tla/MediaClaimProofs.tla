--------------------------- MODULE MediaClaimProofs ---------------------------
(***************************************************************************)
(* Proofs about the media worker's lease for any number of workers and     *)
(* recordings, any lease, heartbeat interval, clock error, retry limit,    *)
(* and any number of events and stops.                                     *)
(*                                                                         *)
(* The inductive invariant has one part per idea: JobOK (an event being    *)
(* handled was sent), ClaimIffProcessing, Heartbeat (what a working job    *)
(* knows of its lease), Punctual (the clock waits for heartbeats),         *)
(* ExclusiveExtraction and FramesOK.                                       *)
(***************************************************************************)
EXTENDS MediaClaim, TLAPS

(* A busy worker handles an event that was really sent. *)
JobOK ==
  /\ \A r \in Recordings : committed[r] <= sent[r]
  /\ \A w \in Workers :
       pc[w] \notin {"down", "idle"} =>
         job[w] \in Recordings /\ off[w] < sent[job[w]]

(* A working job still owns a lease that runs out no sooner than Lease     *)
(* after its last heartbeat (up to the clock error), or the row is gone,   *)
(* or the heartbeat has been silent for too long.                          *)
HeartbeatOf(w) ==
  pc[w] \in Working =>
    \/ ~Exists(job[w])
    \/ owner[job[w]] = w /\ ttl[job[w]] + age[w] >= Lease - MaxSkew
    \/ age[w] >= Lease - 2 * MaxSkew

Heartbeat == \A w \in Workers : HeartbeatOf(w)

(* The clock does not run ahead of the heartbeats of live jobs. *)
Punctual ==
  MaxLag < Lease =>
    \A w \in Workers : pc[w] \in Working /\ ~lost[w] => age[w] <= MaxLag

(* READY is final, so a worker that read READY may re-emit later. *)
FramesOK ==
  /\ FramesEventIffReady
  /\ \A w \in Workers :
       pc[w] \in {"list", "publish"} => status[job[w]] \in {"READY", "DELETED"}

IndInv ==
  /\ TypeOK
  /\ JobOK
  /\ ClaimIffProcessing
  /\ Heartbeat
  /\ Punctual
  /\ ExclusiveExtraction
  /\ FramesOK

-------------------------------------------------------------------------------
USE DEF Skews, Working, Beating, PCs, Least, Greatest, Goto, Exists,
        Owns, rowVars, kafkaVars, jobVars

(* Every variable starts with a value of its type.                         *)
LEMMA TypeInit == Init => TypeOK
  BY ConstantsAssumption DEF Init, TypeOK, Offsets

(* Emit keeps the number of events within its bound.                       *)
LEMMA EmitType ==
  ASSUME TypeOK, NEW r \in Recordings, Emit(r)
  PROVE  sent' \in [Recordings -> 0 .. MaxSent]
<1>1. sent[r] + 1 \in 0 .. MaxSent
  BY ConstantsAssumption DEF TypeOK, Emit
<1> QED
  BY <1>1 DEF TypeOK, Emit

(* Any write of a recordings row keeps the types of its three columns.     *)
LEMMA RowType ==
  ASSUME TypeOK, NEW r \in Recordings,
         NEW s \in {"PROCESSING", "READY", "FAILED", "DELETED"},
         NEW o \in Workers \cup {NoWorker}, NEW t \in Int,
         SetRow(r, s, o, t)
  PROVE  /\ status' \in [Recordings -> {"UPLOADING", "UPLOADED", "PROCESSING",
                                        "READY", "FAILED", "DELETED"}]
         /\ owner' \in [Recordings -> Workers \cup {NoWorker}]
         /\ ttl' \in [Recordings -> Int]
  BY DEF TypeOK, SetRow

(* Writing a retry counter of the handled event keeps the type of the      *)
(* counters.                                                               *)
LEMMA AttemptsType ==
  ASSUME TypeOK, JobOK, NEW w \in Workers, pc[w] \notin {"down", "idle"},
         NEW n \in Nat,
         attempts' = [attempts EXCEPT ![job[w]][off[w]] = n]
  PROVE  attempts' \in [Recordings -> [Offsets -> Nat]]
<1>1. job[w] \in Recordings /\ off[w] \in Offsets
  BY ConstantsAssumption DEF TypeOK, JobOK, Offsets
<1>0. attempts \in [Recordings -> [Offsets -> Nat]]
  BY DEF TypeOK
<1> DEFINE row == [attempts[job[w]] EXCEPT ![off[w]] = n]
<1>2. row \in [Offsets -> Nat]
  BY <1>0, <1>1
<1>3. attempts' = [attempts EXCEPT ![job[w]] = row]
  BY <1>0, <1>1
<1> HIDE DEF row
<1> QED
  BY <1>0, <1>1, <1>2, <1>3

(* The retry counter of the handled event is a natural number.             *)
LEMMA AttemptsNat ==
  ASSUME TypeOK, JobOK, NEW w \in Workers, pc[w] \notin {"down", "idle"}
  PROVE  attempts[job[w]][off[w]] \in Nat
<1>1. job[w] \in Recordings /\ off[w] \in Offsets
  BY ConstantsAssumption DEF TypeOK, JobOK, Offsets
<1>0. attempts \in [Recordings -> [Offsets -> Nat]]
  BY DEF TypeOK
<1> QED
  BY <1>0, <1>1

(* The committed offset stays within the events sent, because a worker     *)
(* only handles an event that was sent.                                    *)
LEMMA CommitType ==
  ASSUME TypeOK, JobOK, NEW w \in Workers, pc[w] \notin {"down", "idle"},
         Commit(w)
  PROVE  committed' \in [Recordings -> 0 .. MaxSent]
<1>1. /\ job[w] \in Recordings
      /\ off[w] + 1 \in 0 .. MaxSent
  BY ConstantsAssumption DEF TypeOK, JobOK
<1> QED
  BY <1>1 DEF TypeOK, Commit

(* No step of the API, a worker, a process or the clock leaves the types.  *)
LEMMA TypeStep == TypeOK /\ JobOK /\ [Next]_vars => TypeOK'
<1> SUFFICES ASSUME TypeOK, JobOK, [Next]_vars PROVE TypeOK'
  OBVIOUS
<1> USE ConstantsAssumption
<1>1. ASSUME NEW r \in Recordings, CompleteUpload(r) PROVE TypeOK'
  <2>1. sent' \in [Recordings -> 0 .. MaxSent]
    BY <1>1, EmitType DEF CompleteUpload
  <2> QED
    BY <1>1, <2>1 DEF TypeOK, CompleteUpload
<1>2. ASSUME NEW r \in Recordings, Reprocess(r) \/ RelayDuplicate(r) PROVE TypeOK'
  <2>1. sent' \in [Recordings -> 0 .. MaxSent]
    BY <1>2, EmitType DEF Reprocess, RelayDuplicate
  <2> QED
    BY <1>2, <2>1 DEF TypeOK, Reprocess, RelayDuplicate
<1>3. ASSUME NEW r \in Recordings, DeleteRecording(r) PROVE TypeOK'
  BY <1>3 DEF TypeOK, DeleteRecording, SetRow
<1>4. ASSUME NEW w \in Workers, NEW r \in Recordings, Fetch(w, r) PROVE TypeOK'
  BY <1>4 DEF TypeOK, Fetch
<1>5. ASSUME NEW w \in Workers,
             \/ Get(w) \/ ListArtifacts(w) \/ ClaimRefused(w)
             \/ ClaimRejection(w) \/ StoreError(w) \/ ExtractDone(w)
             \/ ReturnCause(w)
      PROVE  TypeOK'
  <2>0. \E l \in PCs : pc' = [pc EXCEPT ![w] = l]
    BY <1>5 DEF Get, ListArtifacts, ClaimRefused, ClaimRejection,
                StoreError, ExtractDone, ReturnCause
  <2>1. pc' \in [Workers -> PCs]
    BY <2>0 DEF TypeOK
  <2>2. UNCHANGED <<rowVars, arts, frames, kafkaVars, jobVars, stops>>
    BY <1>5 DEF Get, ListArtifacts, ClaimRefused, ClaimRejection,
                StoreError, ExtractDone, ReturnCause
  <2> QED
    BY <2>1, <2>2 DEF TypeOK
<1>6. ASSUME NEW w \in Workers, PublishFramesExtracted(w) PROVE TypeOK'
  BY <1>6 DEF TypeOK, JobOK, PublishFramesExtracted
<1>7. ASSUME NEW w \in Workers, ClaimProcessing(w) PROVE TypeOK'
  <2>1. job[w] \in Recordings
    BY <1>7 DEF ClaimProcessing, JobOK
  <2>2. PICK d \in Skews : SetRow(job[w], "PROCESSING", w, Lease + d)
    BY <1>7 DEF ClaimProcessing
  <2>3. Lease + d \in Int
    OBVIOUS
  <2>4. /\ status' \in [Recordings -> {"UPLOADING", "UPLOADED", "PROCESSING",
                                       "READY", "FAILED", "DELETED"}]
        /\ owner' \in [Recordings -> Workers \cup {NoWorker}]
        /\ ttl' \in [Recordings -> Int]
    BY <2>1, <2>2, <2>3, RowType
  <2>5. pc' \in [Workers -> PCs] /\ lost' \in [Workers -> BOOLEAN]
        /\ age' \in [Workers -> 0 .. Lease]
    BY <1>7 DEF TypeOK, ClaimProcessing
  <2> QED
    BY <1>7, <2>4, <2>5 DEF TypeOK, ClaimProcessing
<1>8. ASSUME NEW w \in Workers, MarkFailed(w), pc[w] = "work"
      PROVE  /\ status' \in [Recordings -> {"UPLOADING", "UPLOADED",
                              "PROCESSING", "READY", "FAILED", "DELETED"}]
             /\ owner' \in [Recordings -> Workers \cup {NoWorker}]
             /\ ttl' \in [Recordings -> Int]
  <2>1. job[w] \in Recordings
    BY <1>8 DEF JobOK
  <2>2. CASE Owns(w, job[w])
    <3>1. SetRow(job[w], "FAILED", NoWorker, 0)
      BY <1>8, <2>2 DEF MarkFailed
    <3> QED
      BY <2>1, <3>1, RowType
  <2>3. CASE ~Owns(w, job[w])
    BY <1>8, <2>3 DEF TypeOK, MarkFailed
  <2> QED
    BY <2>2, <2>3
<1>9. ASSUME NEW w \in Workers, ExtractFail(w) PROVE TypeOK'
  <2>1. pc' \in [Workers -> PCs] /\ age' \in [Workers -> 0 .. Lease]
    BY <1>9 DEF TypeOK, ExtractFail, Returns
  <2>2. CASE MarkFailed(w)
    BY <1>8, <1>9, <2>1, <2>2 DEF TypeOK, ExtractFail
  <2>3. CASE UNCHANGED rowVars
    BY <1>9, <2>1, <2>3 DEF TypeOK, ExtractFail
  <2> QED
    BY <1>9, <2>2, <2>3 DEF ExtractFail
<1>10. ASSUME NEW w \in Workers, FinalizeReady(w) PROVE TypeOK'
  <2>1. job[w] \in Recordings
    BY <1>10 DEF FinalizeReady, JobOK
  <2>2. SetRow(job[w], "READY", NoWorker, 0)
    BY <1>10 DEF FinalizeReady
  <2>3. /\ status' \in [Recordings -> {"UPLOADING", "UPLOADED", "PROCESSING",
                                       "READY", "FAILED", "DELETED"}]
        /\ owner' \in [Recordings -> Workers \cup {NoWorker}]
        /\ ttl' \in [Recordings -> Int]
    BY <2>1, <2>2, RowType
  <2>4. pc' \in [Workers -> PCs] /\ age' \in [Workers -> 0 .. Lease]
    BY <1>10, SMTT(30) DEF TypeOK, FinalizeReady, Returns
  <2>5. arts' \in SUBSET Recordings /\ frames' \in SUBSET Recordings
    BY <1>10, <2>1 DEF TypeOK, FinalizeReady
  <2> QED
    BY <1>10, <2>3, <2>4, <2>5 DEF TypeOK, FinalizeReady
<1>11. ASSUME NEW w \in Workers, Finish(w)
       PROVE  /\ pc' \in [Workers -> PCs]
              /\ job' \in [Workers -> Recordings \cup {NoRecording}]
              /\ off' \in [Workers -> Nat]
              /\ lost' \in [Workers -> BOOLEAN]
              /\ age' \in [Workers -> 0 .. Lease]
  BY <1>11 DEF TypeOK, Finish
<1>12. ASSUME NEW w \in Workers, CommitMessage(w) PROVE TypeOK'
  <2>1. committed' \in [Recordings -> 0 .. MaxSent]
    BY <1>12, CommitType DEF CommitMessage
  <2>2. attempts' \in [Recordings -> [Offsets -> Nat]]
    BY <1>12, AttemptsType DEF CommitMessage
  <2> QED
    BY <1>11, <1>12, <2>1, <2>2 DEF TypeOK, CommitMessage
<1>13. ASSUME NEW w \in Workers, Retry(w) PROVE TypeOK'
  <2>1. attempts[job[w]][off[w]] + 1 \in Nat
    BY <1>13, AttemptsNat DEF Retry
  <2>2. attempts' \in [Recordings -> [Offsets -> Nat]]
    BY <1>13, <2>1, AttemptsType DEF Retry
  <2> QED
    <3>1. /\ pc' \in [Workers -> PCs]
          /\ lost' \in [Workers -> BOOLEAN]
          /\ age' \in [Workers -> 0 .. Lease]
      BY <1>13 DEF TypeOK, Retry
    <3> QED
      BY <1>13, <2>2, <3>1 DEF TypeOK, Retry
<1>14. ASSUME NEW w \in Workers, DeadLetter(w) PROVE TypeOK'
  <2>1. committed' \in [Recordings -> 0 .. MaxSent]
    BY <1>14, CommitType DEF DeadLetter
  <2>2. attempts' \in [Recordings -> [Offsets -> Nat]]
    BY <1>14, AttemptsType DEF DeadLetter
  <2>3. dlq' \in SUBSET Recordings
    BY <1>14 DEF TypeOK, JobOK, DeadLetter
  <2> QED
    BY <1>11, <1>14, <2>1, <2>2, <2>3 DEF TypeOK, DeadLetter
<1>15. ASSUME NEW w \in Workers, Renew(w) PROVE TypeOK'
  <2>1. PICK d \in Skews : ttl' = [ttl EXCEPT ![job[w]] = Lease + d]
    BY <1>15 DEF Renew
  <2>2. ttl' \in [Recordings -> Int]
    <3>1. ttl \in [Recordings -> Int] /\ Lease + d \in Int
      BY DEF TypeOK
    <3> QED
      BY <2>1, <3>1
  <2>3. age' \in [Workers -> 0 .. Lease]
    BY <1>15 DEF TypeOK, Renew
  <2> QED
    BY <1>15, <2>2, <2>3 DEF TypeOK, Renew
<1>16. ASSUME NEW w \in Workers, RenewLost(w) PROVE TypeOK'
  BY <1>16 DEF TypeOK, RenewLost
<1>17. ASSUME NEW w \in Workers, Crash(w) PROVE TypeOK'
  BY <1>17 DEF TypeOK, Crash, Stop
<1>18. ASSUME NEW w \in Workers, Shutdown(w) PROVE TypeOK'
  <2>1. attempts[job[w]][off[w]] + 1 \in Nat
    BY <1>18, AttemptsNat DEF Shutdown
  <2>2. ASSUME ~(pc[w] \in Beating /\ lost[w])
        PROVE  attempts' \in [Recordings -> [Offsets -> Nat]]
    <3>1. attempts' = [attempts EXCEPT ![job[w]][off[w]] =
                         attempts[job[w]][off[w]] + 1]
      BY <1>18, <2>2 DEF Shutdown
    <3> QED
      BY <1>18, <2>1, <3>1, AttemptsType DEF Shutdown, Stop
  <2>3. attempts' \in [Recordings -> [Offsets -> Nat]]
    BY <1>18, <2>1, <2>2, AttemptsType DEF Shutdown, TypeOK
  <2>4. /\ status' \in [Recordings -> {"UPLOADING", "UPLOADED", "PROCESSING",
                                       "READY", "FAILED", "DELETED"}]
        /\ owner' \in [Recordings -> Workers \cup {NoWorker}]
        /\ ttl' \in [Recordings -> Int]
    BY <1>8, <1>18 DEF TypeOK, Shutdown
  <2>5. /\ pc' \in [Workers -> PCs]
        /\ job' \in [Workers -> Recordings \cup {NoRecording}]
        /\ off' \in [Workers -> Nat]
        /\ lost' \in [Workers -> BOOLEAN]
        /\ age' \in [Workers -> 0 .. Lease]
        /\ stops' \in 0 .. MaxStops
    BY <1>18 DEF TypeOK, Shutdown, Stop
  <2> QED
    BY <1>18, <2>3, <2>4, <2>5 DEF TypeOK, Shutdown
<1>19. ASSUME NEW w \in Workers, Restart(w) PROVE TypeOK'
  BY <1>19 DEF TypeOK, Restart
<1>20. CASE Tick
  BY <1>20 DEF TypeOK, Tick
<1>21. CASE UNCHANGED vars
  BY <1>21 DEF TypeOK, vars
<1>22. ASSUME NEW w \in Workers, FinalizeFail(w) PROVE TypeOK'
  BY <1>22, SMTT(30) DEF TypeOK, FinalizeFail, Returns
<1> QED
  BY <1>1, <1>2, <1>3, <1>4, <1>5, <1>6, <1>7, <1>9, <1>10, <1>12, <1>13,
     <1>14, <1>15, <1>16, <1>17, <1>18, <1>19, <1>20, <1>21, <1>22
     DEF Next, Step

-------------------------------------------------------------------------------
(* Steps of a worker that keep the event it handles. *)
KeepsEvent(w) ==
  \/ Get(w) \/ ListArtifacts(w) \/ PublishFramesExtracted(w)
  \/ ClaimProcessing(w) \/ ClaimRefused(w) \/ ClaimRejection(w)
  \/ StoreError(w) \/ ExtractDone(w) \/ ExtractFail(w) \/ FinalizeReady(w)
  \/ FinalizeFail(w) \/ ReturnCause(w) \/ Retry(w) \/ Renew(w) \/ RenewLost(w)

(* The steps inside one delivery leave the event and the other workers     *)
(* alone.                                                                  *)
LEMMA KeepsEventFrame ==
  ASSUME NEW w \in Workers, TypeOK, KeepsEvent(w)
  PROVE  /\ pc[w] \notin {"down", "idle"}
         /\ UNCHANGED <<sent, committed, job, off>>
         /\ \A x \in Workers \ {w} : pc'[x] = pc[x]
  BY DEF KeepsEvent, TypeOK, Get, ListArtifacts, PublishFramesExtracted,
         ClaimProcessing, ClaimRefused, ClaimRejection, StoreError,
         ExtractDone, ExtractFail, FinalizeReady, FinalizeFail, Returns,
         ReturnCause,
         Retry, Renew, RenewLost

(* Initially nothing is handled and nothing is committed.                  *)
LEMMA JobInit == Init => JobOK
  BY DEF Init, JobOK

(* Whatever a busy worker handles was sent before, and no offset runs      *)
(* ahead of the topic.                                                     *)
LEMMA JobStep == TypeOK /\ JobOK /\ [Next]_vars => JobOK'
<1> SUFFICES ASSUME TypeOK, JobOK, [Next]_vars PROVE JobOK'
  OBVIOUS
<1> USE ConstantsAssumption
<1>1. ASSUME NEW r \in Recordings,
             CompleteUpload(r) \/ Reprocess(r) \/ RelayDuplicate(r)
      PROVE  JobOK'
  <2>1. /\ UNCHANGED <<committed, pc, job, off>>
        /\ sent' = [sent EXCEPT ![r] = @ + 1]
    BY <1>1 DEF CompleteUpload, Reprocess, RelayDuplicate, Emit
  <2>2. /\ sent \in [Recordings -> 0 .. MaxSent]
        /\ committed \in [Recordings -> 0 .. MaxSent]
        /\ off \in [Workers -> Nat]
    BY DEF TypeOK
  <2>3. \A q \in Recordings : sent[q] <= sent'[q] /\ sent'[q] \in Int
    BY <2>1, <2>2
  <2> QED
    BY <2>1, <2>2, <2>3 DEF JobOK
<1>2. ASSUME NEW w \in Workers, NEW r \in Recordings, Fetch(w, r) PROVE JobOK'
  BY <1>2 DEF JobOK, TypeOK, Fetch
<1>3. ASSUME NEW w \in Workers, KeepsEvent(w) PROVE JobOK'
  BY <1>3, KeepsEventFrame DEF JobOK
<1>4. ASSUME NEW w \in Workers, CommitMessage(w) \/ DeadLetter(w) PROVE JobOK'
  <2>1. /\ pc[w] = "ok" \/ pc[w] = "fail"
        /\ UNCHANGED sent /\ Commit(w) /\ Finish(w)
    BY <1>4 DEF CommitMessage, DeadLetter
  <2>2. /\ job[w] \in Recordings
        /\ off[w] + 1 <= sent[job[w]]
    BY <2>1 DEF JobOK, TypeOK
  <2>3. \A r \in Recordings : committed'[r] <= sent'[r]
    BY <2>1, <2>2 DEF JobOK, TypeOK, Commit
  <2>4. \A x \in Workers \ {w} : /\ pc'[x] = pc[x]
                                 /\ job'[x] = job[x]
                                 /\ off'[x] = off[x]
    BY <2>1 DEF Finish, TypeOK
  <2>5. pc'[w] = "idle"
    BY <2>1 DEF Finish, TypeOK
  <2> QED
    BY <2>1, <2>3, <2>4, <2>5 DEF JobOK
<1>5. ASSUME NEW w \in Workers, Crash(w) \/ Shutdown(w) PROVE JobOK'
  <2>1. UNCHANGED <<sent, committed>> /\ Stop(w)
    BY <1>5 DEF Crash, Shutdown
  <2>2. \A x \in Workers \ {w} : /\ pc'[x] = pc[x]
                                 /\ job'[x] = job[x]
                                 /\ off'[x] = off[x]
    BY <2>1 DEF Stop, TypeOK
  <2>3. pc'[w] = "down"
    BY <2>1 DEF Stop, TypeOK
  <2> QED
    BY <2>1, <2>2, <2>3 DEF JobOK
<1>6. ASSUME NEW w \in Workers, Restart(w) PROVE JobOK'
  BY <1>6 DEF JobOK, TypeOK, Restart
<1>7. ASSUME \/ \E r \in Recordings : DeleteRecording(r)
             \/ Tick
             \/ UNCHANGED vars
      PROVE  JobOK'
  BY <1>7 DEF JobOK, DeleteRecording, Tick, vars
<1> QED
  BY <1>1, <1>2, <1>3, <1>4, <1>5, <1>6, <1>7 DEF Next, Step, KeepsEvent

-------------------------------------------------------------------------------
(* The row.  Apart from the clock, it changes in seven ways. *)

RowUpdate(w) == ClaimProcessing(w) \/ ExtractFail(w) \/ FinalizeReady(w)
                \/ Shutdown(w)

(* Only Complete, Delete and the four statements of the media store write  *)
(* status or owner.                                                        *)
LEMMA RowFrame ==
  ASSUME [Next]_vars
  PROVE  \/ \E r \in Recordings : CompleteUpload(r) \/ DeleteRecording(r)
         \/ \E w \in Workers : RowUpdate(w)
         \/ UNCHANGED <<status, owner>>
  BY ZenonT(30) DEF Next, Step, vars, RowUpdate, Reprocess, RelayDuplicate, Fetch, Get,
         ListArtifacts, PublishFramesExtracted, ClaimRefused, ClaimRejection,
         StoreError, ExtractDone, FinalizeFail, ReturnCause, CommitMessage,
         Retry,
         DeadLetter, Renew, RenewLost, Crash, Restart, Tick

(* Initially no recording is claimed or PROCESSING.                        *)
LEMMA ClaimInit == Init => ClaimIffProcessing
  BY DEF Init, ClaimIffProcessing

(* Every statement of the store sets or clears status and claim together.  *)
LEMMA ClaimStep ==
  TypeOK /\ JobOK /\ ClaimIffProcessing /\ [Next]_vars => ClaimIffProcessing'
<1> SUFFICES ASSUME TypeOK, JobOK, ClaimIffProcessing, [Next]_vars
             PROVE  ClaimIffProcessing'
  OBVIOUS
<1> USE ConstantsAssumption DEF SetRow
<1>1. ASSUME NEW r \in Recordings, CompleteUpload(r) \/ DeleteRecording(r)
      PROVE  ClaimIffProcessing'
  BY <1>1 DEF ClaimIffProcessing, TypeOK, CompleteUpload, DeleteRecording
<1>2. ASSUME NEW w \in Workers, RowUpdate(w) PROVE ClaimIffProcessing'
  <2>1. CASE ClaimProcessing(w)
    BY <2>1 DEF ClaimIffProcessing, TypeOK, ClaimProcessing
  <2>2. CASE ExtractFail(w) \/ Shutdown(w)
    <3>1. MarkFailed(w) \/ UNCHANGED rowVars
      BY <2>2 DEF ExtractFail, Shutdown
    <3> QED
      BY <3>1 DEF ClaimIffProcessing, TypeOK, MarkFailed
  <2>3. CASE FinalizeReady(w)
    BY <2>3 DEF ClaimIffProcessing, TypeOK, FinalizeReady
  <2> QED
    BY <1>2, <2>1, <2>2, <2>3 DEF RowUpdate
<1>3. CASE UNCHANGED <<status, owner>>
  BY <1>3 DEF ClaimIffProcessing
<1> QED
  BY <1>1, <1>2, <1>3, RowFrame

-------------------------------------------------------------------------------
(* Leases and heartbeats. *)

(* A job keeps its lease until it has been silent for a lease, up to the   *)
(* clock errors of the holder and of the thief.                            *)
LEMMA HeartbeatStep ==
  TypeOK /\ JobOK /\ ClaimIffProcessing /\ Heartbeat /\ [Next]_vars
    => Heartbeat'
<1> SUFFICES ASSUME TypeOK, JobOK, ClaimIffProcessing, Heartbeat, [Next]_vars,
                    NEW x \in Workers
             PROVE  HeartbeatOf(x)'
  BY DEF Heartbeat
<1> USE ConstantsAssumption
<1>0. HeartbeatOf(x)
  BY DEF Heartbeat
<1>a. /\ status \in [Recordings -> {"UPLOADING", "UPLOADED", "PROCESSING",
                                    "READY", "FAILED", "DELETED"}]
      /\ owner \in [Recordings -> Workers \cup {NoWorker}]
      /\ ttl \in [Recordings -> Int]
      /\ pc \in [Workers -> PCs]
      /\ age \in [Workers -> 0 .. Lease]
      /\ pc[x] \in Working => job[x] \in Recordings
  BY DEF TypeOK, JobOK
<1>1. ASSUME NEW r \in Recordings, CompleteUpload(r) PROVE HeartbeatOf(x)'
  BY <1>0, <1>1, <1>a DEF HeartbeatOf, CompleteUpload
<1>2. ASSUME NEW r \in Recordings, DeleteRecording(r) PROVE HeartbeatOf(x)'
  BY <1>0, <1>2, <1>a DEF HeartbeatOf, DeleteRecording, SetRow
<1>3. ASSUME NEW w \in Workers, ClaimProcessing(w) PROVE HeartbeatOf(x)'
  <2>1. PICK d \in Skews : /\ Claimable(w, job[w], d)
                           /\ SetRow(job[w], "PROCESSING", w, Lease + d)
    BY <1>3 DEF ClaimProcessing
  <2>2. /\ pc' = [pc EXCEPT ![w] = "work"]
        /\ age' = [age EXCEPT ![w] = 0]
        /\ UNCHANGED job
        /\ job[w] \in Recordings
        /\ d \in Int /\ -MaxSkew <= d /\ d <= MaxSkew
    BY <1>3 DEF ClaimProcessing, JobOK
  <2>3. CASE x = w
    BY <1>a, <2>1, <2>2, <2>3 DEF HeartbeatOf, SetRow
  <2>4. CASE x # w /\ job[x] # job[w]
    BY <1>0, <1>a, <2>1, <2>2, <2>4 DEF HeartbeatOf, SetRow
  <2>5. CASE x # w /\ job[x] = job[w] /\ pc[x] \in Working
    <3>1. Exists(job[x]) /\ (owner[job[x]] = x => ttl[job[x]] <= d)
      BY <1>a, <2>1, <2>2, <2>5 DEF Claimable, ClaimIffProcessing
    <3>2. age[x] >= Lease - 2 * MaxSkew
      BY <1>0, <1>a, <2>2, <2>5, <3>1 DEF HeartbeatOf
    <3> QED
      BY <1>a, <2>2, <2>5, <3>2 DEF HeartbeatOf
  <2> QED
    BY <1>a, <2>2, <2>3, <2>4, <2>5 DEF HeartbeatOf
<1>4. ASSUME NEW w \in Workers, MarkFailed(w) \/ UNCHANGED rowVars,
             pc[w] = "work", pc'[w] \notin Working,
             \A y \in Workers \ {w} : /\ pc'[y] = pc[y]
                                      /\ job'[y] = job[y]
                                      /\ age'[y] = age[y]
      PROVE  HeartbeatOf(x)'
  <2>1. job[w] \in Recordings
    BY <1>4 DEF JobOK
  <2> QED
    BY <1>0, <1>4, <1>a, <2>1 DEF HeartbeatOf, MarkFailed, SetRow
<1>5. ASSUME NEW w \in Workers, ExtractFail(w) PROVE HeartbeatOf(x)'
  <2>1. /\ pc'[w] \notin Working
        /\ \A y \in Workers \ {w} : pc'[y] = pc[y] /\ age'[y] = age[y]
        /\ UNCHANGED job
    BY <1>5, <1>a DEF ExtractFail, Returns
  <2>2. pc[w] = "work" /\ (MarkFailed(w) \/ UNCHANGED rowVars)
    BY <1>5 DEF ExtractFail
  <2> QED
    BY <1>4, <2>1, <2>2
<1>6. ASSUME NEW w \in Workers, FinalizeReady(w) PROVE HeartbeatOf(x)'
  <2>1. job[w] \in Recordings /\ owner[job[w]] = w
    BY <1>6 DEF JobOK, FinalizeReady
  <2>2. /\ pc'[w] \notin Working
        /\ \A y \in Workers \ {w} : pc'[y] = pc[y] /\ age'[y] = age[y]
        /\ UNCHANGED job
    BY <1>6, <1>a DEF FinalizeReady, Returns
  <2>3. SetRow(job[w], "READY", NoWorker, 0)
    BY <1>6 DEF FinalizeReady
  <2>4. CASE x = w
    BY <2>2, <2>4 DEF HeartbeatOf
  <2>5. CASE x # w /\ job[x] # job[w]
    BY <1>0, <1>a, <2>1, <2>2, <2>3, <2>5 DEF HeartbeatOf, SetRow
  <2>6. CASE x # w /\ job[x] = job[w] /\ pc[x] \in Working
    <3>1. age[x] >= Lease - 2 * MaxSkew
      BY <1>0, <2>1, <2>6, <1>6 DEF HeartbeatOf, FinalizeReady
    <3> QED
      BY <2>2, <2>6, <3>1 DEF HeartbeatOf
  <2> QED
    BY <2>2, <2>4, <2>5, <2>6 DEF HeartbeatOf
<1>7. ASSUME NEW w \in Workers, Crash(w) \/ Shutdown(w) PROVE HeartbeatOf(x)'
  <2>1. /\ pc'[w] \notin Working
        /\ \A y \in Workers \ {w} : /\ pc'[y] = pc[y]
                                    /\ job'[y] = job[y]
                                    /\ age'[y] = age[y]
    BY <1>7, <1>a DEF Crash, Shutdown, Stop, TypeOK
  <2>2. CASE pc[w] = "work"
    <3>1. MarkFailed(w) \/ UNCHANGED rowVars
      BY <1>7 DEF Crash, Shutdown
    <3> QED
      BY <1>4, <2>1, <2>2, <3>1
  <2>3. CASE pc[w] # "work"
    <3>1. UNCHANGED rowVars
      BY <1>7, <2>3 DEF Crash, Shutdown
    <3> QED
      BY <1>0, <2>1, <3>1 DEF HeartbeatOf
  <2> QED
    BY <2>2, <2>3
<1>8. ASSUME NEW w \in Workers, Renew(w) PROVE HeartbeatOf(x)'
  <2>1. PICK d \in Skews : ttl' = [ttl EXCEPT ![job[w]] = Lease + d]
    BY <1>8 DEF Renew
  <2>2. /\ age' = [age EXCEPT ![w] = 0]
        /\ UNCHANGED <<status, owner, pc, job>>
        /\ job[w] \in Recordings /\ owner[job[w]] = w
        /\ d \in Int /\ -MaxSkew <= d
    BY <1>8 DEF Renew, JobOK
  <2>3. CASE x = w
    BY <1>a, <2>1, <2>2, <2>3 DEF HeartbeatOf
  <2>4. CASE x # w
    BY <1>0, <1>a, <2>1, <2>2, <2>4 DEF HeartbeatOf
  <2> QED
    BY <2>3, <2>4
<1>9. CASE Tick
  BY <1>0, <1>9, <1>a DEF HeartbeatOf, Tick
<1>10. ASSUME UNCHANGED rowVars,
              pc'[x] \in Working => /\ pc[x] \in Working /\ job'[x] = job[x]
                                    /\ age'[x] = age[x]
       PROVE  HeartbeatOf(x)'
  BY <1>0, <1>10 DEF HeartbeatOf
<1>11. ASSUME NEW w \in Workers,
              \/ Get(w) \/ ListArtifacts(w) \/ PublishFramesExtracted(w)
              \/ ClaimRefused(w) \/ ClaimRejection(w) \/ StoreError(w)
              \/ ExtractDone(w) \/ FinalizeFail(w) \/ ReturnCause(w)
              \/ RenewLost(w)
              \/ Restart(w)
       PROVE  HeartbeatOf(x)'
  BY <1>10, <1>11, <1>a
     DEF Get, ListArtifacts, PublishFramesExtracted, ClaimRefused,
         ClaimRejection, StoreError, ExtractDone, FinalizeFail, ReturnCause,
         Returns, RenewLost, Restart
<1>12. ASSUME NEW w \in Workers, NEW r \in Recordings, Fetch(w, r)
       PROVE  HeartbeatOf(x)'
  BY <1>10, <1>12, <1>a DEF Fetch, TypeOK
<1>13. ASSUME NEW w \in Workers,
              CommitMessage(w) \/ Retry(w) \/ DeadLetter(w)
       PROVE  HeartbeatOf(x)'
  <2>1. /\ UNCHANGED rowVars
        /\ pc'[w] \notin Working
        /\ \A y \in Workers \ {w} : /\ pc'[y] = pc[y]
                                    /\ job'[y] = job[y]
                                    /\ age'[y] = age[y]
    BY <1>13, <1>a DEF CommitMessage, Retry, DeadLetter, Finish, TypeOK
  <2> QED
    BY <1>0, <2>1 DEF HeartbeatOf
<1>14. ASSUME \/ \E r \in Recordings : Reprocess(r) \/ RelayDuplicate(r)
              \/ UNCHANGED vars
       PROVE  HeartbeatOf(x)'
  BY <1>10, <1>14 DEF Reprocess, RelayDuplicate, vars
<1> QED
  BY <1>1, <1>2, <1>3, <1>5, <1>6, <1>7, <1>8, <1>9, <1>11, <1>12, <1>13,
     <1>14 DEF Next, Step

(* When heartbeats are bounded by MaxLag < Lease, no live job is silent    *)
(* for longer.                                                             *)
LEMMA PunctualStep == TypeOK /\ Punctual /\ [Next]_vars => Punctual'
<1> SUFFICES ASSUME TypeOK, Punctual, [Next]_vars, MaxLag < Lease,
                    NEW x \in Workers, pc'[x] \in Working, ~lost'[x]
             PROVE  age'[x] <= MaxLag
  BY DEF Punctual
<1> USE ConstantsAssumption
<1>a. /\ pc \in [Workers -> PCs]
      /\ age \in [Workers -> 0 .. Lease]
      /\ lost \in [Workers -> BOOLEAN]
      /\ pc[x] \in Working /\ ~lost[x] => age[x] <= MaxLag
  BY DEF TypeOK, Punctual
<1>1. CASE Tick
  BY <1>1, <1>a DEF Tick
<1>2. ASSUME NEW w \in Workers, ClaimProcessing(w) PROVE age'[x] <= MaxLag
  BY <1>2, <1>a DEF ClaimProcessing
<1>3. ASSUME NEW w \in Workers, Renew(w) PROVE age'[x] <= MaxLag
  BY <1>3, <1>a DEF Renew
<1>4. ASSUME NEW w \in Workers, RenewLost(w) PROVE age'[x] <= MaxLag
  BY <1>4, <1>a DEF RenewLost
<1>5. ASSUME NEW w \in Workers,
             \/ CommitMessage(w) \/ Retry(w) \/ DeadLetter(w)
             \/ Crash(w) \/ Shutdown(w)
      PROVE  age'[x] <= MaxLag
  <2>1. /\ pc'[w] \notin Working
        /\ \A y \in Workers \ {w} : /\ pc'[y] = pc[y]
                                    /\ lost'[y] = lost[y]
                                    /\ age'[y] = age[y]
    BY <1>5, <1>a DEF CommitMessage, Retry, DeadLetter, Finish, Crash,
                      Shutdown, Stop
  <2> QED
    BY <1>a, <2>1
<1>6. ASSUME NEW w \in Workers,
             \/ Get(w) \/ ListArtifacts(w) \/ PublishFramesExtracted(w)
             \/ ClaimRefused(w) \/ ClaimRejection(w) \/ StoreError(w)
             \/ ExtractDone(w) \/ ExtractFail(w) \/ FinalizeReady(w)
             \/ FinalizeFail(w) \/ ReturnCause(w) \/ Restart(w)
             \/ \E r \in Recordings : Fetch(w, r)
      PROVE  age'[x] <= MaxLag
  <2>1. /\ UNCHANGED lost
        /\ pc'[x] \in Working => pc[x] \in Working /\ age'[x] = age[x]
    BY <1>6, <1>a
       DEF Get, ListArtifacts, PublishFramesExtracted, ClaimRefused,
           ClaimRejection, StoreError, ExtractDone, ExtractFail,
           FinalizeReady, FinalizeFail, Returns, ReturnCause, Restart, Fetch
  <2> QED
    BY <1>a, <2>1
<1>7. ASSUME \/ \E r \in Recordings : \/ CompleteUpload(r) \/ Reprocess(r)
                                      \/ RelayDuplicate(r)
                                      \/ DeleteRecording(r)
             \/ UNCHANGED vars
      PROVE  age'[x] <= MaxLag
  <2>1. UNCHANGED <<pc, lost, age>>
    BY <1>7 DEF CompleteUpload, Reprocess, RelayDuplicate, DeleteRecording,
                vars
  <2> QED
    BY <1>a, <2>1
<1> QED
  BY <1>1, <1>2, <1>3, <1>4, <1>5, <1>6, <1>7 DEF Next, Step

(* No two live jobs for one recording: a thief would have to find the      *)
(* lease of a punctual holder expired.                                     *)
LEMMA ExclusiveStep ==
  /\ TypeOK /\ JobOK /\ ClaimIffProcessing /\ Heartbeat /\ Punctual
  /\ ExclusiveExtraction /\ [Next]_vars
  => ExclusiveExtraction'
<1> SUFFICES ASSUME TypeOK, JobOK, ClaimIffProcessing, Heartbeat, Punctual,
                    ExclusiveExtraction, [Next]_vars,
                    MaxLag + 2 * MaxSkew < Lease,
                    NEW x \in Workers, NEW y \in Workers,
                    pc'[x] \in Working, ~lost'[x],
                    pc'[y] \in Working, ~lost'[y],
                    job'[x] = job'[y]
             PROVE  x = y
  BY DEF ExclusiveExtraction
<1> USE ConstantsAssumption
<1> DEFINE Live(z) == pc[z] \in Working /\ ~lost[z]
<1>a. /\ pc \in [Workers -> PCs]
      /\ age \in [Workers -> 0 .. Lease]
      /\ lost \in [Workers -> BOOLEAN]
      /\ job \in [Workers -> Recordings \cup {NoRecording}]
      /\ ttl \in [Recordings -> Int]
      /\ Live(x) /\ Live(y) /\ job[x] = job[y] => x = y
  BY DEF TypeOK, ExclusiveExtraction
<1>1. ASSUME NEW z \in Workers, NEW w \in Workers, w # z, Live(z),
             NEW d \in Skews, Claimable(w, job[w], d), pc[w] = "claim"
      PROVE  job[z] # job[w]
  <2>1. SUFFICES ASSUME job[z] = job[w] PROVE FALSE
    OBVIOUS
  <2>2. job[w] \in Recordings /\ Exists(job[z])
    BY <1>1, <2>1 DEF JobOK, Claimable
  <2>3. age[z] <= MaxLag
    BY <1>1 DEF Punctual
  <2>4. owner[job[z]] = z /\ ttl[job[z]] + age[z] >= Lease - MaxSkew
    BY <1>1, <1>a, <2>2, <2>3 DEF Heartbeat, HeartbeatOf
  <2>5. ~(ttl[job[w]] <= d)
    BY <1>a, <2>1, <2>2, <2>3, <2>4
  <2>6. status[job[w]] = "PROCESSING" /\ owner[job[w]] = z
    BY <2>1, <2>2, <2>4 DEF ClaimIffProcessing
  <2>7. owner[job[w]] # NoWorker /\ owner[job[w]] # w
    BY <1>1, <2>6
  <2> QED
    BY <1>1, <2>5, <2>6, <2>7 DEF Claimable
<1>2. ASSUME NEW w \in Workers, ClaimProcessing(w) PROVE x = y
  <2>1. PICK d \in Skews : Claimable(w, job[w], d)
    BY <1>2 DEF ClaimProcessing
  <2>2. /\ pc[w] = "claim"
        /\ UNCHANGED job
        /\ \A z \in Workers \ {w} : pc'[z] = pc[z] /\ lost'[z] = lost[z]
    BY <1>2, <1>a DEF ClaimProcessing
  <2>3. \A z \in Workers \ {w} :
          pc'[z] \in Working /\ ~lost'[z] => Live(z) /\ job[z] # job[w]
    BY <1>1, <2>1, <2>2
  <2> QED
    BY <1>a, <2>2, <2>3
<1>3. ASSUME \A z \in Workers : pc'[z] \in Working /\ ~lost'[z] =>
                                  Live(z) /\ job'[z] = job[z]
      PROVE  x = y
  BY <1>3, <1>a
<1>4. ASSUME NEW w \in Workers,
             \/ CommitMessage(w) \/ Retry(w) \/ DeadLetter(w)
             \/ Crash(w) \/ Shutdown(w)
      PROVE  x = y
  <2>1. /\ pc'[w] \notin Working
        /\ \A z \in Workers \ {w} : /\ pc'[z] = pc[z]
                                    /\ lost'[z] = lost[z]
                                    /\ job'[z] = job[z]
    BY <1>4, <1>a DEF CommitMessage, Retry, DeadLetter, Finish, Crash,
                      Shutdown, Stop
  <2> QED
    BY <1>3, <2>1
<1>5. ASSUME NEW w \in Workers,
             \/ Get(w) \/ ListArtifacts(w) \/ PublishFramesExtracted(w)
             \/ ClaimRefused(w) \/ ClaimRejection(w) \/ StoreError(w)
             \/ ExtractDone(w) \/ ExtractFail(w) \/ FinalizeReady(w)
             \/ FinalizeFail(w) \/ ReturnCause(w) \/ Renew(w) \/ Restart(w)
      PROVE  x = y
  <2>1. /\ UNCHANGED <<job, lost>>
        /\ \A z \in Workers : pc'[z] \in Working => pc[z] \in Working
    BY <1>5, <1>a
       DEF Get, ListArtifacts, PublishFramesExtracted, ClaimRefused,
           ClaimRejection, StoreError, ExtractDone, ExtractFail,
           FinalizeReady, FinalizeFail, Returns, ReturnCause, Renew, Restart
  <2> QED
    BY <1>3, <2>1
<1>6. ASSUME NEW w \in Workers, RenewLost(w) PROVE x = y
  <2>1. /\ UNCHANGED <<job, pc>> /\ lost'[w] = TRUE
        /\ \A z \in Workers \ {w} : lost'[z] = lost[z]
    BY <1>6, <1>a DEF RenewLost
  <2> QED
    BY <1>3, <2>1
<1>7. ASSUME NEW w \in Workers, NEW r \in Recordings, Fetch(w, r) PROVE x = y
  <2>1. /\ UNCHANGED lost
        /\ pc'[w] \notin Working
        /\ \A z \in Workers \ {w} : pc'[z] = pc[z] /\ job'[z] = job[z]
    BY <1>7, <1>a DEF Fetch
  <2> QED
    BY <1>3, <2>1
<1>8. ASSUME \/ \E r \in Recordings : \/ CompleteUpload(r) \/ Reprocess(r)
                                      \/ RelayDuplicate(r)
                                      \/ DeleteRecording(r)
             \/ Tick
             \/ UNCHANGED vars
      PROVE  x = y
  <2>1. UNCHANGED <<pc, lost, job>>
    BY <1>8 DEF CompleteUpload, Reprocess, RelayDuplicate, DeleteRecording,
                Tick, vars
  <2> QED
    BY <1>3, <2>1
<1> QED
  BY <1>2, <1>4, <1>5, <1>6, <1>7, <1>8 DEF Next, Step

-------------------------------------------------------------------------------
(* READY, its artifacts and its event. *)

(* The status of a recording moves along domain.allowed, or is deleted. *)
Moves(r) ==
  \/ status'[r] = status[r]
  \/ status[r] = "UPLOADING" /\ status'[r] = "UPLOADED"
  \/ status[r] \in {"UPLOADED", "FAILED"} /\ status'[r] = "PROCESSING"
  \/ status[r] = "PROCESSING" /\ status'[r] \in {"READY", "FAILED"}
  \/ status[r] # "DELETED" /\ status'[r] = "DELETED"

(* The status of a row moves only as Moves says.                           *)
LEMMA StatusMoves ==
  ASSUME TypeOK, JobOK, ClaimIffProcessing, [Next]_vars
  PROVE  \A r \in Recordings : Moves(r)
<1> SUFFICES ASSUME NEW r \in Recordings PROVE Moves(r)
  OBVIOUS
<1> USE ConstantsAssumption DEF SetRow
<1>1. ASSUME NEW q \in Recordings, CompleteUpload(q) \/ DeleteRecording(q)
      PROVE  Moves(r)
  BY <1>1 DEF Moves, TypeOK, CompleteUpload, DeleteRecording
<1>2. ASSUME NEW w \in Workers, ClaimProcessing(w) PROVE Moves(r)
  BY <1>2 DEF Moves, TypeOK, ClaimProcessing, Claimable
<1>3. ASSUME NEW w \in Workers, ExtractFail(w) \/ Shutdown(w) PROVE Moves(r)
  <2>1. \/ UNCHANGED rowVars
        \/ MarkFailed(w) /\ pc[w] = "work"
    BY <1>3 DEF ExtractFail, Shutdown
  <2> QED
    BY <2>1 DEF Moves, TypeOK, JobOK, MarkFailed, ClaimIffProcessing
<1>4. ASSUME NEW w \in Workers, FinalizeReady(w) PROVE Moves(r)
  BY <1>4 DEF Moves, TypeOK, JobOK, FinalizeReady, ClaimIffProcessing
<1>5. CASE UNCHANGED <<status, owner>>
  BY <1>5 DEF Moves
<1> QED
  BY <1>1, <1>2, <1>3, <1>4, <1>5, RowFrame DEF RowUpdate

(* The FramesExtracted event and the artifacts appear with READY, and      *)
(* READY is only left by deletion.                                         *)
LEMMA FramesStep ==
  TypeOK /\ JobOK /\ ClaimIffProcessing /\ FramesOK /\ [Next]_vars => FramesOK'
<1> SUFFICES ASSUME TypeOK, JobOK, ClaimIffProcessing, FramesOK, [Next]_vars
             PROVE  FramesOK'
  OBVIOUS
<1> USE ConstantsAssumption
<1>1. \A r \in Recordings : Moves(r)
  BY StatusMoves
<1>2. ASSUME UNCHANGED <<frames, arts>>,
             \A r \in Recordings : status'[r] = "READY" => status[r] = "READY"
      PROVE  FramesEventIffReady'
  BY <1>1, <1>2 DEF FramesOK, FramesEventIffReady, Moves
<1>3. ASSUME NEW w \in Workers, FinalizeReady(w) PROVE FramesEventIffReady'
  BY <1>1, <1>3 DEF FramesOK, FramesEventIffReady, Moves, FinalizeReady,
                    SetRow, TypeOK, JobOK
<1>4. ASSUME NEW w \in Workers, PublishFramesExtracted(w)
      PROVE  FramesEventIffReady'
  BY <1>4 DEF FramesOK, FramesEventIffReady, PublishFramesExtracted, TypeOK,
              JobOK
<1>5. ASSUME NEW r \in Recordings, DeleteRecording(r)
      PROVE  FramesEventIffReady'
  BY <1>5 DEF FramesOK, FramesEventIffReady, DeleteRecording, SetRow, TypeOK
<1>6. FramesEventIffReady'
  <2>1. ASSUME NEW w \in Workers,
               RowUpdate(w), ~FinalizeReady(w)
        PROVE  FramesEventIffReady'
    <3>1. UNCHANGED <<frames, arts>>
      BY <2>1 DEF RowUpdate, ClaimProcessing, ExtractFail, Shutdown
    <3>2. \A r \in Recordings : status'[r] = "READY" => status[r] = "READY"
      BY <2>1 DEF RowUpdate, ClaimProcessing, ExtractFail, Shutdown,
                  MarkFailed, SetRow, TypeOK
    <3> QED
      BY <1>2, <3>1, <3>2
  <2>2. ASSUME NEW r \in Recordings, CompleteUpload(r)
        PROVE  FramesEventIffReady'
    BY <1>2, <2>2 DEF CompleteUpload, TypeOK
  <2>3. ASSUME UNCHANGED <<status, frames, arts>> PROVE FramesEventIffReady'
    BY <1>2, <2>3
  <2>4. \/ \E r \in Recordings : CompleteUpload(r) \/ DeleteRecording(r)
        \/ \E w \in Workers : RowUpdate(w) \/ PublishFramesExtracted(w)
        \/ UNCHANGED <<status, frames, arts>>
    BY ZenonT(30) DEF Next, Step, vars, RowUpdate, Reprocess, RelayDuplicate, Fetch, Get,
           ListArtifacts, ClaimRefused, ClaimRejection, StoreError,
           ExtractDone, FinalizeFail, ReturnCause, CommitMessage, Retry,
           DeadLetter,
           Renew, RenewLost, Crash, Restart, Tick
  <2> QED
    BY <1>3, <1>4, <1>5, <2>1, <2>2, <2>3, <2>4
<1>7. ASSUME NEW w \in Workers, pc'[w] \in {"list", "publish"}
      PROVE  status'[job'[w]] \in {"READY", "DELETED"}
  <2>1. /\ job'[w] = job[w] /\ pc[w] \notin {"down", "idle"}
        /\ status[job[w]] \in {"READY", "DELETED"}
    <3>1. ASSUME NEW x \in Workers, Get(x) \/ ListArtifacts(x)
          PROVE  /\ job'[w] = job[w] /\ pc[w] \notin {"down", "idle"}
                 /\ status[job[w]] \in {"READY", "DELETED"}
      BY <1>7, <3>1 DEF Get, ListArtifacts, FramesOK, TypeOK
    <3>2. ASSUME pc'[w] = pc[w], job'[w] = job[w]
          PROVE  /\ job'[w] = job[w] /\ pc[w] \notin {"down", "idle"}
                 /\ status[job[w]] \in {"READY", "DELETED"}
      BY <1>7, <3>2 DEF FramesOK
    <3>3. ASSUME NEW x \in Workers,
                 \/ PublishFramesExtracted(x) \/ ClaimProcessing(x)
                 \/ ClaimRefused(x) \/ ClaimRejection(x) \/ StoreError(x)
                 \/ ExtractDone(x) \/ ExtractFail(x) \/ FinalizeReady(x)
                 \/ FinalizeFail(x) \/ ReturnCause(x) \/ Restart(x)
          PROVE  pc'[w] = pc[w] /\ job'[w] = job[w]
      BY <1>7, <3>3 DEF TypeOK, PublishFramesExtracted, ClaimProcessing,
             ClaimRefused, ClaimRejection, StoreError, ExtractDone,
             ExtractFail, FinalizeReady, FinalizeFail, Returns, ReturnCause,
             Restart
    <3>4. ASSUME NEW x \in Workers,
                 \/ CommitMessage(x) \/ Retry(x) \/ DeadLetter(x)
                 \/ Crash(x) \/ Shutdown(x)
                 \/ \E r \in Recordings : Fetch(x, r)
          PROVE  pc'[w] = pc[w] /\ job'[w] = job[w]
      BY <1>7, <3>4 DEF TypeOK, CommitMessage, Retry, DeadLetter, Finish,
             Crash, Shutdown, Stop, Fetch
    <3>5. ASSUME \/ \E r \in Recordings : \/ CompleteUpload(r) \/ Reprocess(r)
                                          \/ RelayDuplicate(r)
                                          \/ DeleteRecording(r)
                 \/ \E x \in Workers : Renew(x) \/ RenewLost(x)
                 \/ Tick
                 \/ UNCHANGED vars
          PROVE  pc'[w] = pc[w] /\ job'[w] = job[w]
      BY <3>5 DEF CompleteUpload, Reprocess, RelayDuplicate, DeleteRecording,
             Renew, RenewLost, Tick, vars
    <3> QED
      BY <3>1, <3>2, <3>3, <3>4, <3>5 DEF Next, Step
  <2>2. job[w] \in Recordings
    BY <2>1 DEF JobOK
  <2> QED
    BY <1>1, <2>1, <2>2 DEF Moves
<1> QED
  BY <1>6, <1>7 DEF FramesOK

-------------------------------------------------------------------------------
(* The inductive invariant holds initially.                                *)
LEMMA IndInit == Init => IndInv
<1> SUFFICES ASSUME Init PROVE IndInv
  OBVIOUS
<1>1. Heartbeat /\ Punctual /\ ExclusiveExtraction
  BY DEF Init, Heartbeat, HeartbeatOf, Punctual, ExclusiveExtraction
<1>2. FramesOK
  BY DEF Init, FramesOK, FramesEventIffReady
<1> QED
  BY <1>1, <1>2, TypeInit, JobInit, ClaimInit DEF IndInv

(* Every step keeps the inductive invariant.                               *)
LEMMA IndStep == IndInv /\ [Next]_vars => IndInv'
  BY TypeStep, JobStep, ClaimStep, HeartbeatStep, PunctualStep, ExclusiveStep,
     FramesStep DEF IndInv

(* The inductive invariant holds in every state of every behaviour.        *)
LEMMA Inductive == Spec => []IndInv
  BY IndInit, IndStep, PTL DEF Spec

(* The variables of the media worker keep their types. *)
THEOREM TypeCorrect == Spec => []TypeOK
  BY Inductive, PTL DEF IndInv

(* A claim exists exactly while the recording is PROCESSING. *)
THEOREM ClaimsMatchStatus == Spec => []ClaimIffProcessing
  BY Inductive, PTL DEF IndInv

(* A job loses its claim only after a whole lease without a heartbeat, up  *)
(* to twice the clock error.                                               *)
THEOREM ClaimsAreKept == Spec => []LostOnlyAfterStall
<1>1. IndInv => LostOnlyAfterStall
  BY ConstantsAssumption
     DEF IndInv, TypeOK, Heartbeat, HeartbeatOf, LostOnlyAfterStall
<1> QED
  BY <1>1, Inductive, PTL

(* With punctual heartbeats at most one worker extracts a recording. *)
THEOREM OneExtraction == Spec => []ExclusiveExtraction
  BY Inductive, PTL DEF IndInv

(* FramesExtracted is emitted exactly for recordings whose media work was  *)
(* committed.                                                              *)
THEOREM FramesMatchStatus == Spec => []FramesEventIffReady
<1>1. IndInv => FramesEventIffReady
  BY DEF IndInv, FramesOK
<1> QED
  BY <1>1, Inductive, PTL

(* Only the current owner, from a live job, settles a recording. *)
THEOREM OnlyOwnersSettle == Spec => OwnerSettles
<1> DEFINE Settled(r) ==
      status[r] # status'[r] /\ status'[r] \in {"READY", "FAILED"}
        => \E w \in Workers : /\ owner[r] = w
                              /\ job[w] = r
                              /\ pc[w] \in Working
                              /\ pc'[w] # pc[w]
<1>1. ASSUME IndInv, [Next]_vars, NEW r \in Recordings PROVE Settled(r)
  <2> USE <1>1, ConstantsAssumption DEF IndInv, SetRow
  <2>1. ASSUME NEW q \in Recordings, CompleteUpload(q) \/ DeleteRecording(q)
        PROVE  Settled(r)
    BY <2>1 DEF TypeOK, CompleteUpload, DeleteRecording
  <2>2. ASSUME NEW w \in Workers, ClaimProcessing(w) PROVE Settled(r)
    BY <2>2 DEF TypeOK, ClaimProcessing
  <2>3. ASSUME NEW w \in Workers, ExtractFail(w) \/ Shutdown(w)
        PROVE  Settled(r)
    <3>1. \/ UNCHANGED rowVars
          \/ MarkFailed(w) /\ pc[w] = "work"
      BY <2>3 DEF ExtractFail, Shutdown
    <3>2. pc[w] = "work" => pc'[w] # pc[w]
      BY <2>3 DEF ExtractFail, Returns, Shutdown, Stop, TypeOK
    <3> QED
      BY <3>1, <3>2 DEF TypeOK, MarkFailed
  <2>4. ASSUME NEW w \in Workers, FinalizeReady(w) PROVE Settled(r)
    BY <2>4 DEF TypeOK, FinalizeReady, Returns
  <2>5. CASE UNCHANGED <<status, owner>>
    BY <2>5
  <2> QED
    BY <2>1, <2>2, <2>3, <2>4, <2>5, RowFrame DEF RowUpdate
<1>2. IndInv /\ [Next]_vars => [\A r \in Recordings : Settled(r)]_vars
  BY <1>1
<1> QED
  BY <1>2, Inductive, PTL DEF OwnerSettles, Spec

(* The media worker implements the life cycle of domain.allowed. *)
THEOREM ImplementsLifecycle == Spec => LifecycleSpec
<1> USE DEF Lifecycle!Status, Lifecycle!Allowed
<1>1. Init => Lifecycle!Init
  BY DEF Init, Lifecycle!Init
<1>2. ASSUME IndInv, [Next]_vars PROVE [Lifecycle!Next]_status
  <2> USE <1>2 DEF IndInv
  <2>1. \A r \in Recordings : Moves(r)
    BY StatusMoves
  <2>2. SUFFICES ASSUME status' # status PROVE Lifecycle!Next
    OBVIOUS
  <2>3. PICK r \in Recordings : \E s \in Lifecycle!Status \cup {"DELETED"} :
                                  status' = [status EXCEPT ![r] = s]
    <3>1. ASSUME NEW w \in Workers, ExtractFail(w) \/ Shutdown(w)
          PROVE  status' = [status EXCEPT ![job[w]] = "FAILED"]
                 /\ job[w] \in Recordings
      <4>1. MarkFailed(w) /\ pc[w] = "work"
        BY <2>2, <3>1 DEF ExtractFail, Shutdown
      <4> QED
        BY <2>2, <4>1 DEF MarkFailed, SetRow, JobOK
    <3> QED
      BY <2>2, <3>1, RowFrame
         DEF RowUpdate, CompleteUpload, DeleteRecording, ClaimProcessing,
             FinalizeReady, SetRow, JobOK
  <2>4. status'[r] # status[r]
    BY <2>2, <2>3 DEF TypeOK
  <2>5. status' = [status EXCEPT ![r] = status'[r]]
    BY <2>3 DEF TypeOK
  <2>6. /\ status[r] \in Lifecycle!Status
        /\ \/ status'[r] = "DELETED"
           \/ /\ status'[r] \in Lifecycle!Status
              /\ status'[r] \in Lifecycle!Allowed[status[r]]
    BY <2>1, <2>4 DEF Moves, TypeOK
  <2> QED
    BY <2>5, <2>6 DEF Lifecycle!Next, Lifecycle!Transition, Lifecycle!Delete
<1> QED
  BY <1>1, <1>2, Inductive, PTL DEF Spec, LifecycleSpec, Lifecycle!Spec
===============================================================================
