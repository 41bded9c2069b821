-------------------------- MODULE RecordingLifecycle --------------------------
(***************************************************************************)
(* What the upload service and the media worker together promise about     *)
(* the status column of a recording: it only ever moves along the table    *)
(* `allowed' of internal/uploads/domain/recording.go.  Both components     *)
(* write the column with raw SQL (conditional UPDATEs), so the table is    *)
(* not consulted by the code that moves the row; MediaClaim and Uploads    *)
(* are shown to implement this specification.                              *)
(*                                                                         *)
(* "NONE" is a row that was never inserted, "DELETED" one that was         *)
(* removed; ids are fresh UUIDs, so a deleted id never comes back.         *)
(***************************************************************************)
CONSTANT Recordings

VARIABLE status

Status == {"UPLOADING", "UPLOADED", "PROCESSING", "READY", "FAILED"}

(* domain.allowed: FAILED leads only to PROCESSING, READY leads nowhere.   *)
Allowed == [ UPLOADING  |-> {"UPLOADED", "FAILED"},
             UPLOADED   |-> {"PROCESSING", "FAILED"},
             PROCESSING |-> {"READY", "FAILED"},
             FAILED     |-> {"PROCESSING"},
             READY      |-> {} ]

Init == status \in [Recordings -> {"NONE", "UPLOADING"}]

Create(r) == /\ status[r] = "NONE"
             /\ status' = [status EXCEPT ![r] = "UPLOADING"]

Transition(r, to) == /\ status[r] \in Status
                     /\ to \in Allowed[status[r]]
                     /\ status' = [status EXCEPT ![r] = to]

Delete(r) == /\ status[r] \in Status
             /\ status' = [status EXCEPT ![r] = "DELETED"]

Next == \E r \in Recordings :
          \/ Create(r)
          \/ \E to \in Status : Transition(r, to)
          \/ Delete(r)

Spec == Init /\ [][Next]_status
===============================================================================
