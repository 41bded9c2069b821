---------------------------- MODULE UploadsProofs ----------------------------
(***************************************************************************)
(* The upload service keeps the bytes of completed recordings, queues each *)
(* completion once, leaves no orphan it could have avoided and follows the *)
(* life cycle, for any number of recordings, requests, collectors and      *)
(* faults and any batch size.                                              *)
(*                                                                         *)
(* The properties are not inductive by themselves: they rest on what a     *)
(* request or a collector may still rely on after the read that sent it to *)
(* its next statement.                                                     *)
(***************************************************************************)
EXTENDS Uploads, TLAPS

(* What each program counter entitles a request to believe.                *)
RequestsOK ==
  \A q \in Requests :
    /\ pc[q] # "idle" => status[req[q]] # "NONE"
    /\ pc[q] = "commit" /\ status[req[q]] # "DELETED"
         => source[req[q]] # "absent"
    /\ pc[q] = "cleanup" => status[req[q]] = "DELETED"
    /\ pc[q] = "reread" => status[req[q]] # "UPLOADING"
    /\ pc[q] = "insert" => done[req[q]] = 1

(* A row the collector deleted has nothing but its source object.          *)
SweepsOK ==
  \A s \in Sweepers :
    victim[s] # NoRecording =>
      /\ status[victim[s]] = "DELETED"
      /\ victim[s] \notin frames \cup jobs

(* Before completion there is no event, no job and no frame.               *)
EarlyOK ==
  \A r \in Recordings :
    status[r] \in {"NONE", "UPLOADING"} =>
      done[r] = 0 /\ r \notin frames \cup jobs

IndInv ==
  /\ TypeOK /\ RequestsOK /\ SweepsOK /\ EarlyOK
  /\ SourceKept /\ CompletionQueuedOnce /\ OrphansExcused

(* Initially there are no rows, objects, requests or sweeps.               *)
LEMMA IndInit == Init => IndInv
  BY ConstantsAssumption
     DEF Init, IndInv, TypeOK, RequestsOK, SweepsOK, EarlyOK, SourceKept,
         CompletionQueuedOnce, OrphansExcused, Row, Beyond, UploadedOrBeyond,
         PCs

(* Every action keeps the types.                                           *)
LEMMA TypeStep == TypeOK /\ [Next]_vars => TypeOK'
<1> SUFFICES ASSUME TypeOK, [Next]_vars PROVE TypeOK'
  OBVIOUS
<1> USE ConstantsAssumption DEF rowVars, storeVars, queueVars, reqVars,
   sweepVars, Row, Beyond, UploadedOrBeyond, PCs, TypeOK
<1>1. ASSUME NEW q \in Requests, Presign(q) PROVE TypeOK'
  BY <1>1 DEF Presign, Begin, Return
<1>2. ASSUME NEW q \in Requests, Stat(q) PROVE TypeOK'
  BY <1>2 DEF Stat, Begin, Return
<1>3. ASSUME NEW q \in Requests, CompleteWithOutbox(q) PROVE TypeOK'
  BY <1>3 DEF CompleteWithOutbox, Begin, Return, SetStatus, Completable
<1>4. ASSUME NEW q \in Requests, CompleteRaced(q) PROVE TypeOK'
  BY <1>4 DEF CompleteRaced, Begin, Completable
<1>5. ASSUME NEW q \in Requests, Reread(q) PROVE TypeOK'
  BY <1>5 DEF Reread, Begin, Return
<1>6. ASSUME NEW q \in Requests, InsertOutbox(q) PROVE TypeOK'
  BY <1>6 DEF InsertOutbox, Begin, Return
<1>7. ASSUME NEW q \in Requests, DeleteRow(q) PROVE TypeOK'
  BY <1>7 DEF DeleteRow, Begin, Return, SetStatus
<1>8. ASSUME NEW q \in Requests, DeletePrefix(q) PROVE TypeOK'
  BY <1>8 DEF DeletePrefix, Begin, Return
<1>9. ASSUME NEW q \in Requests, DeletePrefixFails(q) PROVE TypeOK'
  BY <1>9 DEF DeletePrefixFails, Begin, Return, Fault
<1>10. ASSUME NEW q \in Requests, Abort(q) PROVE TypeOK'
  BY <1>10 DEF Abort, Begin, Return
<1>11. ASSUME NEW q \in Requests, NEW r \in Recordings, Create(q, r)
      PROVE  TypeOK'
  BY <1>11 DEF Create, Begin, SetStatus
<1>12. ASSUME NEW q \in Requests, NEW r \in Recordings, Complete(q, r)
      PROVE  TypeOK'
  BY <1>12 DEF Complete, Begin
<1>13. ASSUME NEW q \in Requests, NEW r \in Recordings, Reprocess(q, r)
      PROVE  TypeOK'
  BY <1>13 DEF Reprocess, Begin
<1>14. ASSUME NEW q \in Requests, NEW r \in Recordings, Delete(q, r)
      PROVE  TypeOK'
  BY <1>14 DEF Delete, Begin
<1>15. ASSUME NEW s \in Sweepers, ListAbandoned(s) PROVE TypeOK'
  BY <1>15 DEF ListAbandoned, Abandoned
<1>16. ASSUME NEW s \in Sweepers, SweepRow(s) PROVE TypeOK'
  BY <1>16 DEF SweepRow, SetStatus, Sweepable
<1>17. ASSUME NEW s \in Sweepers, SweepObject(s) PROVE TypeOK'
  BY <1>17 DEF SweepObject
<1>18. ASSUME NEW s \in Sweepers, SweepObjectFails(s) PROVE TypeOK'
  BY <1>18 DEF SweepObjectFails, Fault
<1>19. ASSUME NEW s \in Sweepers, SweepCutOff(s) PROVE TypeOK'
  BY <1>19 DEF SweepCutOff, Fault
<1>20. ASSUME NEW r \in Recordings, Age(r) PROVE TypeOK'
  BY <1>20 DEF Age
<1>21. ASSUME NEW r \in Recordings, MediaStart(r) PROVE TypeOK'
  BY <1>21 DEF MediaStart, SetStatus
<1>22. ASSUME NEW r \in Recordings, MediaFrames(r) PROVE TypeOK'
  BY <1>22 DEF MediaFrames
<1>23. ASSUME NEW r \in Recordings, MediaStop(r) PROVE TypeOK'
  BY <1>23 DEF MediaStop
<1>24. ASSUME NEW r \in Recordings, NEW b \in {"good", "bad"}, Put(r, b)
      PROVE  TypeOK'
  BY <1>24 DEF Put
<1>25. ASSUME NEW r \in Recordings, NEW s \in {"READY", "FAILED"},
             MediaSettle(r, s)
      PROVE  TypeOK'
  BY <1>25 DEF MediaSettle, SetStatus
<1>26. CASE UNCHANGED vars
  BY <1>26 DEF vars
<1> QED
  BY <1>1, <1>2, <1>3, <1>4, <1>5, <1>6, <1>7, <1>8, <1>9, <1>10, <1>11,
     <1>12, <1>13, <1>14, <1>15, <1>16, <1>17, <1>18, <1>19, <1>20, <1>21,
     <1>22, <1>23, <1>24, <1>25, <1>26 DEF Next, RequestStep, Sweep

(* What a request read stays true in the way RequestsOK says: completions *)
(* and deletions are final, and nobody removes the bytes of a row that is  *)
(* still there.                                                            *)
LEMMA RequestsStep == IndInv /\ [Next]_vars => RequestsOK'
<1> SUFFICES ASSUME IndInv, [Next]_vars PROVE RequestsOK'
  OBVIOUS
<1> USE ConstantsAssumption DEF rowVars, storeVars, queueVars, reqVars,
   sweepVars, Row, Beyond, UploadedOrBeyond, TypeOK, IndInv, RequestsOK,
   SweepsOK, EarlyOK, CompletionQueuedOnce
<1>1. ASSUME NEW q \in Requests, Presign(q) PROVE RequestsOK'
  BY <1>1 DEF Presign, Begin, Return
<1>2. ASSUME NEW q \in Requests, Stat(q) PROVE RequestsOK'
  BY <1>2 DEF Stat, Begin, Return
<1>3. ASSUME NEW q \in Requests, CompleteWithOutbox(q) PROVE RequestsOK'
  BY <1>3 DEF CompleteWithOutbox, Begin, Return, SetStatus, Completable
<1>4. ASSUME NEW q \in Requests, CompleteRaced(q) PROVE RequestsOK'
  BY <1>4 DEF CompleteRaced, Begin, Completable
<1>5. ASSUME NEW q \in Requests, Reread(q) PROVE RequestsOK'
  BY <1>5 DEF Reread, Begin, Return
<1>6. ASSUME NEW q \in Requests, InsertOutbox(q) PROVE RequestsOK'
  BY <1>6 DEF InsertOutbox, Begin, Return
<1>7. ASSUME NEW q \in Requests, DeleteRow(q) PROVE RequestsOK'
  BY <1>7 DEF DeleteRow, Begin, Return, SetStatus
<1>8. ASSUME NEW q \in Requests, DeletePrefix(q) PROVE RequestsOK'
  BY <1>8 DEF DeletePrefix, Begin, Return
<1>9. ASSUME NEW q \in Requests, DeletePrefixFails(q) PROVE RequestsOK'
  BY <1>9 DEF DeletePrefixFails, Begin, Return
<1>10. ASSUME NEW q \in Requests, Abort(q) PROVE RequestsOK'
  BY <1>10 DEF Abort, Begin, Return
<1>11. ASSUME NEW q \in Requests, NEW r \in Recordings, Create(q, r)
      PROVE  RequestsOK'
  BY <1>11 DEF Create, Begin, SetStatus
<1>12. ASSUME NEW q \in Requests, NEW r \in Recordings, Complete(q, r)
      PROVE  RequestsOK'
  BY <1>12 DEF Complete, Begin
<1>13. ASSUME NEW q \in Requests, NEW r \in Recordings, Reprocess(q, r)
      PROVE  RequestsOK'
  BY <1>13 DEF Reprocess, Begin
<1>14. ASSUME NEW q \in Requests, NEW r \in Recordings, Delete(q, r)
      PROVE  RequestsOK'
  BY <1>14 DEF Delete, Begin
<1>15. ASSUME NEW s \in Sweepers, SweepRow(s) PROVE RequestsOK'
  BY <1>15 DEF SweepRow, SetStatus, Sweepable
<1>16. ASSUME NEW s \in Sweepers, SweepObject(s) PROVE RequestsOK'
  BY <1>16 DEF SweepObject
<1>17. ASSUME NEW r \in Recordings, MediaStart(r) PROVE RequestsOK'
  BY <1>17 DEF MediaStart, SetStatus
<1>18. ASSUME NEW r \in Recordings, NEW b \in {"good", "bad"}, Put(r, b)
      PROVE  RequestsOK'
  BY <1>18 DEF Put
<1>19. ASSUME NEW r \in Recordings, NEW s \in {"READY", "FAILED"},
             MediaSettle(r, s)
      PROVE  RequestsOK'
  BY <1>19 DEF MediaSettle, SetStatus
<1>20. CASE UNCHANGED <<status, source, done, pc, req>>
  BY <1>20
<1>21. ASSUME NEW s \in Sweepers,
              ListAbandoned(s) \/ SweepObjectFails(s) \/ SweepCutOff(s)
       PROVE  UNCHANGED <<status, source, done, pc, req>>
  BY <1>21 DEF ListAbandoned, SweepObjectFails, SweepCutOff
<1>22. ASSUME NEW r \in Recordings, Age(r) \/ MediaFrames(r) \/ MediaStop(r)
       PROVE  UNCHANGED <<status, source, done, pc, req>>
  BY <1>22 DEF Age, MediaFrames, MediaStop
<1>23. CASE UNCHANGED vars
  BY <1>20, <1>23 DEF vars
<1> HIDE DEF RequestsOK, TypeOK, IndInv
<1> QED
  BY <1>1, <1>2, <1>3, <1>4, <1>5, <1>6, <1>7, <1>8, <1>9, <1>10, <1>11,
     <1>12, <1>13, <1>14, <1>15, <1>16, <1>17, <1>18, <1>19, <1>20, <1>21,
     <1>22, <1>23 DEF Next, RequestStep, Sweep

(* A deleted row gets no new job, so no frames either.                     *)
LEMMA SweepsStep == IndInv /\ [Next]_vars => SweepsOK'
<1> SUFFICES ASSUME IndInv, [Next]_vars PROVE SweepsOK'
  OBVIOUS
<1> USE ConstantsAssumption DEF rowVars, storeVars, queueVars, reqVars,
   sweepVars, Row, Beyond, UploadedOrBeyond, TypeOK, IndInv, SweepsOK,
   EarlyOK
<1>1. ASSUME NEW q \in Requests, CompleteWithOutbox(q) PROVE SweepsOK'
  BY <1>1 DEF CompleteWithOutbox, Begin, Return, SetStatus, Completable
<1>2. ASSUME NEW q \in Requests, DeleteRow(q) PROVE SweepsOK'
  BY <1>2 DEF DeleteRow, Begin, Return, SetStatus
<1>3. ASSUME NEW q \in Requests, DeletePrefix(q) PROVE SweepsOK'
  BY <1>3 DEF DeletePrefix, Begin, Return
<1>4. ASSUME NEW q \in Requests, DeletePrefixFails(q) PROVE SweepsOK'
  BY <1>4 DEF DeletePrefixFails, Begin, Return
<1>5. ASSUME NEW q \in Requests, NEW r \in Recordings, Create(q, r)
      PROVE  SweepsOK'
  BY <1>5 DEF Create, Begin, SetStatus
<1>6. ASSUME NEW s \in Sweepers, SweepRow(s) PROVE SweepsOK'
  BY <1>6 DEF SweepRow, SetStatus, Sweepable
<1>7. ASSUME NEW s \in Sweepers, SweepObject(s) PROVE SweepsOK'
  BY <1>7 DEF SweepObject
<1>8. ASSUME NEW s \in Sweepers, SweepObjectFails(s) PROVE SweepsOK'
  BY <1>8 DEF SweepObjectFails
<1>9. ASSUME NEW s \in Sweepers, SweepCutOff(s) PROVE SweepsOK'
  BY <1>9 DEF SweepCutOff
<1>10. ASSUME NEW r \in Recordings, MediaStart(r) PROVE SweepsOK'
  BY <1>10 DEF MediaStart, SetStatus
<1>11. ASSUME NEW r \in Recordings, MediaFrames(r) PROVE SweepsOK'
  BY <1>11 DEF MediaFrames
<1>12. ASSUME NEW r \in Recordings, MediaStop(r) PROVE SweepsOK'
  BY <1>12 DEF MediaStop
<1>13. ASSUME NEW r \in Recordings, NEW s \in {"READY", "FAILED"},
             MediaSettle(r, s)
      PROVE  SweepsOK'
  BY <1>13 DEF MediaSettle, SetStatus
<1>14. CASE UNCHANGED <<status, frames, jobs, victim>>
  BY <1>14
<1> QED
  BY <1>1, <1>2, <1>3, <1>4, <1>5, <1>6, <1>7, <1>8, <1>9, <1>10, <1>11,
     <1>12, <1>13, <1>14 DEF Next, RequestStep, Sweep, vars, Presign, Stat,
     CompleteRaced, Reread, InsertOutbox, Abort, Complete, Reprocess,
     Delete, ListAbandoned, Age, Put

(* Jobs and frames need an event, and an event needs a completion.         *)
LEMMA EarlyStep == IndInv /\ [Next]_vars => EarlyOK'
<1> SUFFICES ASSUME IndInv, [Next]_vars PROVE EarlyOK'
  OBVIOUS
<1> USE ConstantsAssumption DEF rowVars, storeVars, queueVars, reqVars,
   sweepVars, Row, Beyond, UploadedOrBeyond, TypeOK, IndInv, EarlyOK
<1>1. ASSUME NEW q \in Requests, CompleteWithOutbox(q) PROVE EarlyOK'
  BY <1>1 DEF CompleteWithOutbox, Begin, Return, SetStatus, Completable
<1>2. ASSUME NEW q \in Requests, DeleteRow(q) PROVE EarlyOK'
  BY <1>2 DEF DeleteRow, Begin, Return, SetStatus
<1>3. ASSUME NEW q \in Requests, DeletePrefix(q) PROVE EarlyOK'
  BY <1>3 DEF DeletePrefix, Begin, Return
<1>4. ASSUME NEW q \in Requests, DeletePrefixFails(q) PROVE EarlyOK'
  BY <1>4 DEF DeletePrefixFails, Begin, Return
<1>5. ASSUME NEW q \in Requests, NEW r \in Recordings, Create(q, r)
      PROVE  EarlyOK'
  BY <1>5 DEF Create, Begin, SetStatus
<1>6. ASSUME NEW s \in Sweepers, SweepRow(s) PROVE EarlyOK'
  BY <1>6 DEF SweepRow, SetStatus, Sweepable
<1>7. ASSUME NEW r \in Recordings, MediaStart(r) PROVE EarlyOK'
  BY <1>7 DEF MediaStart, SetStatus
<1>8. ASSUME NEW r \in Recordings, MediaFrames(r) PROVE EarlyOK'
  BY <1>8 DEF MediaFrames
<1>9. ASSUME NEW r \in Recordings, MediaStop(r) PROVE EarlyOK'
  BY <1>9 DEF MediaStop
<1>10. ASSUME NEW r \in Recordings, NEW s \in {"READY", "FAILED"},
             MediaSettle(r, s)
      PROVE  EarlyOK'
  BY <1>10 DEF MediaSettle, SetStatus
<1>11. CASE UNCHANGED <<status, frames, done, jobs>>
  BY <1>11
<1> QED
  BY <1>1, <1>2, <1>3, <1>4, <1>5, <1>6, <1>7, <1>8, <1>9, <1>10, <1>11 DEF
     Next, RequestStep, Sweep, vars, Presign, Stat, CompleteRaced, Reread,
     InsertOutbox, Abort, Complete, Reprocess, Delete, ListAbandoned,
     SweepObject, SweepObjectFails, SweepCutOff, Age, Put

(* Objects are removed only after their row.                               *)
LEMMA SourceStep == IndInv /\ [Next]_vars => SourceKept'
<1> SUFFICES ASSUME IndInv, [Next]_vars PROVE SourceKept'
  OBVIOUS
<1> USE ConstantsAssumption DEF rowVars, storeVars, queueVars, reqVars,
   sweepVars, Row, Beyond, UploadedOrBeyond, TypeOK, IndInv, RequestsOK,
   SweepsOK, SourceKept
<1>1. ASSUME NEW q \in Requests, CompleteWithOutbox(q) PROVE SourceKept'
  BY <1>1 DEF CompleteWithOutbox, Begin, Return, SetStatus, Completable
<1>2. ASSUME NEW q \in Requests, DeleteRow(q) PROVE SourceKept'
  BY <1>2 DEF DeleteRow, Begin, Return, SetStatus
<1>3. ASSUME NEW q \in Requests, DeletePrefix(q) PROVE SourceKept'
  BY <1>3 DEF DeletePrefix, Begin, Return
<1>4. ASSUME NEW q \in Requests, DeletePrefixFails(q) PROVE SourceKept'
  BY <1>4 DEF DeletePrefixFails, Begin, Return
<1>5. ASSUME NEW q \in Requests, NEW r \in Recordings, Create(q, r)
      PROVE  SourceKept'
  BY <1>5 DEF Create, Begin, SetStatus
<1>6. ASSUME NEW s \in Sweepers, SweepRow(s) PROVE SourceKept'
  BY <1>6 DEF SweepRow, SetStatus, Sweepable
<1>7. ASSUME NEW s \in Sweepers, SweepObject(s) PROVE SourceKept'
  BY <1>7 DEF SweepObject
<1>8. ASSUME NEW r \in Recordings, MediaStart(r) PROVE SourceKept'
  BY <1>8 DEF MediaStart, SetStatus
<1>9. ASSUME NEW r \in Recordings, NEW b \in {"good", "bad"}, Put(r, b)
      PROVE  SourceKept'
  BY <1>9 DEF Put
<1>10. ASSUME NEW r \in Recordings, NEW s \in {"READY", "FAILED"},
             MediaSettle(r, s)
      PROVE  SourceKept'
  BY <1>10 DEF MediaSettle, SetStatus
<1>11. CASE UNCHANGED <<status, source>>
  BY <1>11
<1> QED
  BY <1>1, <1>2, <1>3, <1>4, <1>5, <1>6, <1>7, <1>8, <1>9, <1>10, <1>11 DEF
     Next, RequestStep, Sweep, vars, Presign, Stat, CompleteRaced, Reread,
     InsertOutbox, Abort, Complete, Reprocess, Delete, ListAbandoned,
     SweepObjectFails, SweepCutOff, Age, MediaFrames, MediaStop

(* Only the first of several racing completions finds the row UPLOADING.   *)
LEMMA CompletionStep == IndInv /\ [Next]_vars => CompletionQueuedOnce'
<1> SUFFICES ASSUME IndInv, [Next]_vars PROVE CompletionQueuedOnce'
  OBVIOUS
<1> USE ConstantsAssumption DEF rowVars, storeVars, queueVars, reqVars,
   sweepVars, Row, Beyond, UploadedOrBeyond, TypeOK, IndInv, RequestsOK,
   EarlyOK, CompletionQueuedOnce
<1>1. ASSUME NEW q \in Requests, CompleteWithOutbox(q)
      PROVE  CompletionQueuedOnce'
  BY <1>1 DEF CompleteWithOutbox, Begin, Return, SetStatus, Completable
<1>2. ASSUME NEW q \in Requests, Reread(q) PROVE CompletionQueuedOnce'
  BY <1>2 DEF Reread, Begin, Return
<1>3. ASSUME NEW q \in Requests, InsertOutbox(q) PROVE CompletionQueuedOnce'
  BY <1>3 DEF InsertOutbox, Begin, Return
<1>4. ASSUME NEW q \in Requests, DeleteRow(q) PROVE CompletionQueuedOnce'
  BY <1>4 DEF DeleteRow, Begin, Return, SetStatus
<1>5. ASSUME NEW q \in Requests, NEW r \in Recordings, Create(q, r)
      PROVE  CompletionQueuedOnce'
  BY <1>5 DEF Create, Begin, SetStatus
<1>6. ASSUME NEW q \in Requests, NEW r \in Recordings, Complete(q, r)
      PROVE  CompletionQueuedOnce'
  BY <1>6 DEF Complete, Begin
<1>7. ASSUME NEW s \in Sweepers, SweepRow(s) PROVE CompletionQueuedOnce'
  BY <1>7 DEF SweepRow, SetStatus, Sweepable
<1>8. ASSUME NEW r \in Recordings, MediaStart(r) PROVE CompletionQueuedOnce'
  BY <1>8 DEF MediaStart, SetStatus
<1>9. ASSUME NEW r \in Recordings, NEW s \in {"READY", "FAILED"},
             MediaSettle(r, s)
      PROVE  CompletionQueuedOnce'
  BY <1>9 DEF MediaSettle, SetStatus
<1>10. CASE UNCHANGED <<status, sized, done, events, acked>>
  BY <1>10
<1> QED
  BY <1>1, <1>2, <1>3, <1>4, <1>5, <1>6, <1>7, <1>8, <1>9, <1>10 DEF Next,
     RequestStep, Sweep, vars, Presign, Stat, CompleteRaced, DeletePrefix,
     DeletePrefixFails, Abort, Reprocess, Delete, ListAbandoned,
     SweepObject, SweepObjectFails, SweepCutOff, Age, MediaFrames,
     MediaStop, Put

(* Whoever deletes the row goes on to remove the bytes, or is excused.     *)
LEMMA OrphansStep == IndInv /\ [Next]_vars => OrphansExcused'
<1> SUFFICES ASSUME IndInv, [Next]_vars PROVE OrphansExcused'
  OBVIOUS
<1> USE ConstantsAssumption DEF rowVars, storeVars, queueVars, reqVars,
   sweepVars, Row, Beyond, UploadedOrBeyond, TypeOK, IndInv, RequestsOK,
   SweepsOK, EarlyOK, OrphansExcused
<1>1. ASSUME NEW q \in Requests, Presign(q) PROVE OrphansExcused'
  BY <1>1 DEF Presign, Begin, Return
<1>2. ASSUME NEW q \in Requests, Stat(q) PROVE OrphansExcused'
  BY <1>2 DEF Stat, Begin, Return
<1>3. ASSUME NEW q \in Requests, CompleteWithOutbox(q) PROVE OrphansExcused'
  BY <1>3 DEF CompleteWithOutbox, Begin, Return, SetStatus, Completable
<1>4. ASSUME NEW q \in Requests, CompleteRaced(q) PROVE OrphansExcused'
  BY <1>4 DEF CompleteRaced, Begin, Completable
<1>5. ASSUME NEW q \in Requests, Reread(q) PROVE OrphansExcused'
  BY <1>5 DEF Reread, Begin, Return
<1>6. ASSUME NEW q \in Requests, InsertOutbox(q) PROVE OrphansExcused'
  BY <1>6 DEF InsertOutbox, Begin, Return
<1>7. ASSUME NEW q \in Requests, DeleteRow(q) PROVE OrphansExcused'
  BY <1>7 DEF DeleteRow, Begin, Return, SetStatus
<1>8. ASSUME NEW q \in Requests, DeletePrefix(q) PROVE OrphansExcused'
  BY <1>8 DEF DeletePrefix, Begin, Return
<1>9. ASSUME NEW q \in Requests, DeletePrefixFails(q) PROVE OrphansExcused'
  BY <1>9 DEF DeletePrefixFails, Begin, Return
<1>10. ASSUME NEW q \in Requests, Abort(q) PROVE OrphansExcused'
  BY <1>10 DEF Abort, Begin, Return
<1>11. ASSUME NEW q \in Requests, NEW r \in Recordings, Create(q, r)
      PROVE  OrphansExcused'
  BY <1>11 DEF Create, Begin, SetStatus
<1>12. ASSUME NEW q \in Requests, NEW r \in Recordings, Complete(q, r)
      PROVE  OrphansExcused'
  BY <1>12 DEF Complete, Begin
<1>13. ASSUME NEW q \in Requests, NEW r \in Recordings, Reprocess(q, r)
      PROVE  OrphansExcused'
  BY <1>13 DEF Reprocess, Begin
<1>14. ASSUME NEW q \in Requests, NEW r \in Recordings, Delete(q, r)
      PROVE  OrphansExcused'
  BY <1>14 DEF Delete, Begin
<1>15. ASSUME NEW s \in Sweepers, SweepRow(s) PROVE OrphansExcused'
  BY <1>15 DEF SweepRow, SetStatus, Sweepable
<1>16. ASSUME NEW s \in Sweepers, SweepObject(s) PROVE OrphansExcused'
  BY <1>16 DEF SweepObject
<1>17. ASSUME NEW s \in Sweepers, SweepObjectFails(s) PROVE OrphansExcused'
  BY <1>17 DEF SweepObjectFails
<1>18. ASSUME NEW s \in Sweepers, SweepCutOff(s) PROVE OrphansExcused'
  BY <1>18 DEF SweepCutOff
<1>19. ASSUME NEW r \in Recordings, MediaStart(r) PROVE OrphansExcused'
  BY <1>19 DEF MediaStart, SetStatus
<1>20. ASSUME NEW r \in Recordings, MediaFrames(r) PROVE OrphansExcused'
  BY <1>20 DEF MediaFrames
<1>21. ASSUME NEW r \in Recordings, NEW b \in {"good", "bad"}, Put(r, b)
      PROVE  OrphansExcused'
  BY <1>21 DEF Put
<1>22. ASSUME NEW r \in Recordings, NEW s \in {"READY", "FAILED"},
             MediaSettle(r, s)
      PROVE  OrphansExcused'
  BY <1>22 DEF MediaSettle, SetStatus
<1>23. CASE UNCHANGED <<status, source, frames, pc, req, victim, excused>>
  BY <1>23
<1> QED
  BY <1>1, <1>2, <1>3, <1>4, <1>5, <1>6, <1>7, <1>8, <1>9, <1>10, <1>11,
     <1>12, <1>13, <1>14, <1>15, <1>16, <1>17, <1>18, <1>19, <1>20, <1>21,
     <1>22, <1>23 DEF Next, RequestStep, Sweep, vars, ListAbandoned, Age,
     MediaStop

(* The inductive invariant holds throughout.                               *)
LEMMA Inductive == Spec => []IndInv
<1>1. IndInv /\ [Next]_vars => IndInv'
  BY TypeStep, RequestsStep, SweepsStep, EarlyStep, SourceStep, CompletionStep,
     OrphansStep DEF IndInv
<1> QED
  BY <1>1, IndInit, PTL DEF Spec

(* The variables keep their types.                                         *)
THEOREM TypeCorrect == Spec => []TypeOK
  BY Inductive, PTL DEF IndInv

(* No race of Complete, Delete and the collector takes the source object   *)
(* from a completed recording.                                             *)
THEOREM BytesAreKept == Spec => []SourceKept
  BY Inductive, PTL DEF IndInv

(* However many requests complete a recording, one event is queued, and    *)
(* every success answer is backed by it.                                   *)
THEOREM OneCompletion == Spec => []CompletionQueuedOnce
  BY Inductive, PTL DEF IndInv

(* Bytes outlive their row only by a failed or pending cleanup or a late   *)
(* write.                                                                  *)
THEOREM NoAvoidableOrphans == Spec => []OrphansExcused
  BY Inductive, PTL DEF IndInv

(* A step of the service or the media worker changes the status of one     *)
(* recording, along domain.allowed, or deletes it.                         *)
LEMMA StatusMoves ==
  ASSUME IndInv, Next, status' # status
  PROVE  \E r \in Recordings : \E s \in Row \cup {"DELETED"} :
           /\ status' = [status EXCEPT ![r] = s]
           /\ \/ status[r] = "NONE" /\ s = "UPLOADING"
              \/ status[r] \in Row /\ s = "DELETED"
              \/ status[r] = "UPLOADING" /\ s = "UPLOADED"
              \/ status[r] \in {"UPLOADED", "FAILED"} /\ s = "PROCESSING"
              \/ status[r] = "PROCESSING" /\ s \in {"READY", "FAILED"}
<1> USE DEF IndInv, TypeOK, Row, Beyond, UploadedOrBeyond, SetStatus
<1>1. ASSUME NEW q \in Requests, RequestStep(q)
      PROVE  \/ \E r \in Recordings : Create(q, r)
             \/ CompleteWithOutbox(q) \/ DeleteRow(q)
  BY <1>1 DEF RequestStep, Complete, Reprocess, Delete, Presign, Stat,
     CompleteRaced, Reread, InsertOutbox, DeletePrefix, DeletePrefixFails,
     Abort, rowVars
<1>2. ASSUME NEW q \in Requests, CompleteWithOutbox(q)
      PROVE  /\ req[q] \in Recordings /\ status[req[q]] = "UPLOADING"
             /\ status' = [status EXCEPT ![req[q]] = "UPLOADED"]
  BY <1>2 DEF CompleteWithOutbox, Completable
<1>3. ASSUME NEW q \in Requests, DeleteRow(q)
      PROVE  /\ req[q] \in Recordings /\ status[req[q]] \in Row
             /\ status' = [status EXCEPT ![req[q]] = "DELETED"]
  BY <1>3 DEF DeleteRow
<1>4. ASSUME NEW s \in Sweepers, Sweep(s)
      PROVE  \E r \in batch[s] :
               /\ r \in Recordings /\ status[r] = "UPLOADING"
               /\ status' = [status EXCEPT ![r] = "DELETED"]
  BY <1>4 DEF Sweep, ListAbandoned, SweepRow, SweepObject, Sweepable, rowVars
<1>5. ASSUME NEW r \in Recordings, MediaStart(r)
      PROVE  /\ status[r] \in {"UPLOADED", "FAILED"}
             /\ status' = [status EXCEPT ![r] = "PROCESSING"]
  BY <1>5 DEF MediaStart
<1>6. CASE \E q \in Requests : RequestStep(q)
  BY <1>1, <1>2, <1>3, <1>6 DEF Create
<1>7. CASE \E s \in Sweepers : Sweep(s) \/ SweepObjectFails(s) \/ SweepCutOff(s)
  BY <1>4, <1>7 DEF SweepObjectFails, SweepCutOff, rowVars
<1>8. CASE \E r \in Recordings :
             \/ \E bytes \in {"good", "bad"} : Put(r, bytes)
             \/ Age(r)
             \/ MediaStart(r) \/ MediaFrames(r) \/ MediaStop(r)
             \/ \E s \in {"READY", "FAILED"} : MediaSettle(r, s)
  BY <1>5, <1>8 DEF Put, Age, MediaFrames, MediaStop, MediaSettle, rowVars
<1> QED
  BY <1>6, <1>7, <1>8 DEF Next

(* The upload service implements the life cycle of domain.allowed.         *)
THEOREM ImplementsLifecycle == Spec => LifecycleSpec
<1>1. Init => Lifecycle!Init
  BY DEF Init, Lifecycle!Init
<1>2. IndInv /\ [Next]_vars => [Lifecycle!Next]_status
  <2> SUFFICES ASSUME IndInv, Next, status' # status PROVE Lifecycle!Next
    BY DEF vars
  <2>1. PICK r \in Recordings, s \in Row \cup {"DELETED"} :
           /\ status' = [status EXCEPT ![r] = s]
           /\ \/ status[r] = "NONE" /\ s = "UPLOADING"
              \/ status[r] \in Row /\ s = "DELETED"
              \/ status[r] = "UPLOADING" /\ s = "UPLOADED"
              \/ status[r] \in {"UPLOADED", "FAILED"} /\ s = "PROCESSING"
              \/ status[r] = "PROCESSING" /\ s \in {"READY", "FAILED"}
    BY StatusMoves
  <2>2. CASE status[r] = "NONE" /\ s = "UPLOADING"
    BY <2>1, <2>2 DEF Lifecycle!Next, Lifecycle!Create
  <2>3. CASE status[r] \in Row /\ s = "DELETED"
    BY <2>1, <2>3 DEF Lifecycle!Next, Lifecycle!Delete, Lifecycle!Status, Row,
       Beyond, UploadedOrBeyond
  <2>4. /\ "UPLOADED" \in Lifecycle!Allowed["UPLOADING"]
        /\ "PROCESSING" \in Lifecycle!Allowed["UPLOADED"]
        /\ "PROCESSING" \in Lifecycle!Allowed["FAILED"]
        /\ "READY" \in Lifecycle!Allowed["PROCESSING"]
        /\ "FAILED" \in Lifecycle!Allowed["PROCESSING"]
    BY DEF Lifecycle!Allowed
  <2>5. CASE \/ status[r] = "UPLOADING" /\ s = "UPLOADED"
             \/ status[r] \in {"UPLOADED", "FAILED"} /\ s = "PROCESSING"
             \/ status[r] = "PROCESSING" /\ s \in {"READY", "FAILED"}
    <3>1. status[r] \in Lifecycle!Status /\ s \in Lifecycle!Status
      BY <2>5 DEF Lifecycle!Status
    <3>2. s \in Lifecycle!Allowed[status[r]]
      BY <2>4, <2>5
    <3> QED
      BY <2>1, <3>1, <3>2 DEF Lifecycle!Next, Lifecycle!Transition
  <2> QED
    BY <2>1, <2>2, <2>3, <2>5
<1> QED
  BY <1>1, <1>2, Inductive, PTL DEF Spec, LifecycleSpec, Lifecycle!Spec
=============================================================================
