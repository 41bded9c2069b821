------------------------------ MODULE Workspace ------------------------------
(***************************************************************************)
(* A project, its members and its share links served by one API: the       *)
(* requests of Projects and Sharing interleave statement by statement, and *)
(* the deletion of the project takes the report and its links with it.     *)
(***************************************************************************)
EXTENDS Sharing

vars == <<projectVars, shareVars>>

Init ==
  /\ project = "none"
  /\ role = [u \in Users |-> None]
  /\ bytes = FALSE
  /\ req = [r \in Requests |-> Idle]
  /\ answer = None
  /\ raced = FALSE
  /\ excused = FALSE
  /\ report = None
  /\ links = [l \in Links |-> None]
  /\ url = [l \in Links |-> 0]
  /\ dark = [l \in Links |-> DarkBound]
  /\ events = {}

\* ON DELETE CASCADE.
DeleteProject(r) ==
  /\ Delete(r)
  /\ IF project' = "gone" /\ project = "live" THEN CascadeReport ELSE UNCHANGED shareVars

Serve(r) ==
  \/ HandleProjects(r) /\ UNCHANGED shareVars
  \/ ServeProjects(r) /\ UNCHANGED shareVars
  \/ DeleteProject(r)
  \/ HandleShares(r)
  \/ ServeShares(r)

Next ==
  \/ \E r \in Requests : Serve(r)
  \/ Crash /\ UNCHANGED shareVars
  \/ Upload /\ UNCHANGED shareVars
  \/ WriteReport
  \/ DeleteRecording
  \/ Tick

Spec == Init /\ [][Next]_vars

-----------------------------------------------------------------------------
\* Every variable keeps its type; a link has no more time left than MaxTTL.
TypeOK ==
  /\ project \in {"none", "live", "gone"}
  /\ role \in [Users -> Roles \cup {None}]
  /\ bytes \in BOOLEAN /\ raced \in BOOLEAN /\ excused \in BOOLEAN
  /\ req \in [Requests -> Request]
  /\ answer \in {None, 200, 201, 204, 400, 403, 404, 409, 410, 500}
  /\ report \in Statuses \cup {None}
  /\ links \in [Links -> [ttl: 0..MaxTTL, revoked: BOOLEAN] \cup {None}]
  /\ url \in [Links -> 0..UrlTTL]
  /\ dark \in [Links -> 0..DarkBound]
  /\ events \subseteq Links

\* RemoveMember keeps the last owner: a live project is without an owner only after a
\* member was removed on the strength of a role or a count of owners that another
\* request had changed in between (service.go reads both before it deletes).
OwnerlessOnlyByRace ==
  project = "live" /\ (\A u \in Users : role[u] # "owner") => raced

\* An object of a deleted project is waiting for its clean-up, or was left for a known
\* reason: the clean-up failed, the reply to the DELETE was lost, the process died in
\* between, or the object was uploaded after the project was gone.
ProjectBytesExcused ==
  project = "gone" /\ bytes => excused \/ \E r \in Requests : req[r].at = "cleanup"

\* A link that was revoked, has expired or was deleted stops serving frames: once it has
\* been inactive for the life of a presigned URL plus the time a request may take, no URL
\* issued under it is valid.
PublicBytesExpire ==
  \A l \in Links : dark[l] = DarkBound => url[l] = 0

\* Of racing requests for one effect exactly one is told that it did it: an answer 201 or
\* 204 is given in the step that inserts or deletes the row (or, for a project, in the
\* clean-up that follows its own DELETE), and a request refused with a 4xx changes no row.
EachAckItsOwnEffect ==
  [][/\ answer' \in {400, 403, 404, 409, 410} => UNCHANGED <<project, role, bytes, links>>
     /\ answer' = 201 => <<role, links>>' # <<role, links>>
     /\ answer' = 204 => \/ <<role, links>>' # <<role, links>>
                        \/ \E r \in Requests : req[r].at = "cleanup" /\ req'[r].at = "idle"]_vars
=============================================================================
