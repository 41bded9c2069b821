---------------------------- MODULE WorkspaceProofs ----------------------------
(***************************************************************************)
(* Proofs about projects, members and share links for any number of users, *)
(* links and requests in flight, and any lifetimes.                        *)
(*                                                                         *)
(* The inductive invariant says what a request between two statements may  *)
(* still rely on (RequestOK), that the members of a project go with it     *)
(* (MembersOK), and how old the URLs of a link can be that has been dark   *)
(* for a while (DarkOK).                                                   *)
(***************************************************************************)
EXTENDS Workspace, FiniteSetTheorems, TLAPS

(* What a request has read before the statement it is about to run.        *)
RequestOK(q) ==
  /\ q.at \in {"add", "target", "count", "remove"} => q.target \in Users
  /\ q.at \in {"add", "count", "remove"} => q.role \in Roles
  /\ q.at = "remove" /\ q.role = "owner" => q.n > 1
  /\ q.at \in {"revoke", "publicPayload", "publicSign"} => q.link \in Links
  /\ q.at = "shareInsert" => q.ttl \in 1..MaxTTL

(* A view that passed the check of its link is served before the link has  *)
(* been dark for longer than the view has taken.                           *)
ViewOK(q) ==
  q.at \in {"publicPayload", "publicSign"} => dark[q.link] <= q.held /\ q.held <= MaxHold

MembersOK == project # "live" => \A u \in Users : role[u] = None

(* The youngest URL of a link was signed when the link had been dark for   *)
(* MaxHold at most.                                                        *)
DarkOK ==
  \A l \in Links : /\ Active(l) => dark[l] = 0
                   /\ url[l] + dark[l] <= DarkBound

IndInv ==
  /\ TypeOK
  /\ \A r \in Requests : RequestOK(req[r]) /\ ViewOK(req[r])
  /\ MembersOK
  /\ DarkOK
  /\ OwnerlessOnlyByRace
  /\ ProjectBytesExcused

-------------------------------------------------------------------------------
(* What a step of a request does to its slot: the record it leaves there   *)
(* is one RequestOK and ViewOK speak of.                                   *)
Moves(r) ==
  \E q \in Request : RequestOK(q) /\ ViewOK(q) /\ req' = [req EXCEPT ![r] = q]

(* A step that writes nothing, and the effects of those that write.        *)
Answers == {200, 400, 403, 404, 409, 410, 500}

Reads(r) ==
  /\ req[r].at # "cleanup"
  /\ RowsUnchanged /\ UNCHANGED shareVars
  /\ answer' \in Answers \cup {None}

Creates(r) ==
  /\ req[r].at # "cleanup" /\ project = "none"
  /\ \E u \in Users : CreateWithOwner(u)
  /\ UNCHANGED shareVars
  /\ answer' \in {201, 500}

Deletes(r) ==
  /\ req[r].at # "cleanup" /\ project = "live"
  /\ DeleteRow /\ CascadeReport
  /\ \/ UNCHANGED excused /\ answer' = None /\ req'[r].at = "cleanup"
     \/ excused' = TRUE /\ answer' = 500

CleansUp(r) ==
  /\ req[r].at = "cleanup" /\ req'[r].at = "idle"
  /\ \/ bytes' = FALSE /\ UNCHANGED excused
     \/ excused' = TRUE /\ UNCHANGED bytes
  /\ UNCHANGED <<project, role, raced>> /\ UNCHANGED shareVars
  /\ answer' = 204

Adds(r) ==
  /\ req[r].at = "add" /\ project = "live" /\ role[req[r].target] = None
  /\ InsertMember(req[r].target, req[r].role)
  /\ UNCHANGED shareVars
  /\ answer' \in {201, 500}

Removes(r) ==
  /\ req[r].at = "remove" /\ role[req[r].target] # None
  /\ DeleteMember(r)
  /\ UNCHANGED shareVars
  /\ answer' \in {204, 500}

Shares(r) ==
  /\ req[r].at = "shareInsert"
  /\ \E l \in Links :
       /\ links[l] = None
       /\ links' = [links EXCEPT ![l] = [ttl |-> req[r].ttl, revoked |-> FALSE]]
       /\ dark' = [dark EXCEPT ![l] = 0]
       /\ events' = events \cup {l}
  /\ RowsUnchanged /\ UNCHANGED <<report, url>>
  /\ answer' \in {201, 500}

Revokes(r) ==
  /\ req[r].at = "revoke" /\ Revocable(req[r].link)
  /\ links' = [links EXCEPT ![req[r].link].revoked = TRUE]
  /\ RowsUnchanged /\ UNCHANGED <<report, url, dark, events>>
  /\ answer' \in {204, 500}

Signs(r) ==
  /\ req[r].at = "publicSign"
  /\ url' = [url EXCEPT ![req[r].link] = UrlTTL]
  /\ RowsUnchanged /\ UNCHANGED <<report, links, dark, events>>
  /\ answer' = 200

Effect(r) ==
  \/ Reads(r) \/ Creates(r) \/ Deletes(r) \/ CleansUp(r) \/ Adds(r) \/ Removes(r)
  \/ Shares(r) \/ Revokes(r) \/ Signs(r)

-------------------------------------------------------------------------------
(* The handlers' answers.                                                  *)
LEMMA StatusValues ==
  /\ StatusOf("ErrInvalidName") = 400 /\ StatusOf("ErrInvalidRole") = 400
  /\ StatusOf("ErrForbidden") = 403 /\ StatusOf("ErrNotFound") = 404
  /\ StatusOf("ErrAlreadyMember") = 409 /\ StatusOf("ErrLastOwner") = 409
  /\ StatusOf("error") = 500
  BY DEF StatusOf

(* The answers to errors of share links.                                   *)
LEMMA ShareStatusValues ==
  /\ ShareStatusOf("ErrInvalidInput") = 400 /\ ShareStatusOf("ErrForbidden") = 403
  /\ ShareStatusOf("ErrNotFound") = 404 /\ ShareStatusOf("ErrReportNotReady") = 409
  /\ ShareStatusOf("ErrShareInactive") = 410 /\ ShareStatusOf("error") = 500
  BY DEF ShareStatusOf

(* An answered request leaves an idle slot.                                *)
LEMMA ReplyMoves ==
  ASSUME NEW r \in Requests, NEW s, Reply(r, s)
  PROVE  Moves(r)
<1>1. Idle \in Request
  BY ProjectsAssumption DEF Idle, Request, Steps
<1>2. RequestOK(Idle) /\ ViewOK(Idle)
  BY DEF RequestOK, ViewOK, Idle
<1> QED
  BY <1>1, <1>2 DEF Reply, Moves

(* A step that only reads, and then answers or goes on to the request's    *)
(* next statement.                                                         *)
LEMMA OnlyReplies ==
  ASSUME NEW r \in Requests, NEW s \in Answers, Reply(r, s), RowsUnchanged,
         UNCHANGED shareVars, req[r].at # "cleanup"
  PROVE  Moves(r) /\ Effect(r)
<1>1. Moves(r)
  BY ReplyMoves
<1>2. answer' \in Answers \cup {None}
  BY DEF Reply
<1>3. Reads(r)
  BY <1>2, Zenon DEF Reads
<1> QED
  BY <1>1, <1>3, Zenon DEF Effect

(* A request that only goes on to its next statement.                      *)
LEMMA OnlyProceeds ==
  ASSUME NEW r \in Requests, NEW q \in Request, RequestOK(q), ViewOK(q), Becomes(r, q),
         RowsUnchanged, UNCHANGED shareVars, req[r].at # "cleanup"
  PROVE  Moves(r) /\ Effect(r)
<1>1. Moves(r)
  BY DEF Becomes, Moves
<1>2. answer' \in Answers \cup {None}
  BY DEF Becomes
<1>3. Reads(r)
  BY <1>2, Zenon DEF Reads
<1> QED
  BY <1>1, <1>3, Zenon DEF Effect

-------------------------------------------------------------------------------
(* Every request of the projects package moves its slot and has one of the *)
(* effects: first the handlers, then the statements.                       *)
LEMMA ProjectHandlers ==
  ASSUME IndInv, NEW r \in Requests, HandleProjects(r), UNCHANGED shareVars
  PROVE  Moves(r) /\ Effect(r)
<1> USE StatusValues
<1>1. ASSUME NEW u \in Users, NEW q \in Request, RequestOK(q), ViewOK(q),
             requireMember(r, u, q) \/ requireOwner(r, u, q),
             UNCHANGED shareVars, req[r].at = "idle"
      PROVE  Moves(r) /\ Effect(r)
  <2>1. CASE Becomes(r, q) /\ RowsUnchanged
    BY <1>1, <2>1 DEF Moves, Becomes, Effect, Reads
  <2>2. CASE Fail(r, "ErrForbidden") /\ RowsUnchanged
    BY OnlyReplies, <1>1, <2>2 DEF Fail, Answers
  <2>3. CASE Fail(r, "error") /\ RowsUnchanged
    BY OnlyReplies, <1>1, <2>3 DEF Fail, Answers
  <2> QED
    BY <1>1, <2>1, <2>2, <2>3 DEF requireMember, requireOwner
<1>2. ASSUME BadRequest(r), RowsUnchanged, req[r].at = "idle", UNCHANGED shareVars
      PROVE  Moves(r) /\ Effect(r)
  BY OnlyReplies, <1>2 DEF BadRequest, Answers
<1>3. ASSUME NEW a \in {"get", "list", "updateGet", "delete"}
      PROVE  LET q == [Idle EXCEPT !.at = a]
             IN q \in Request /\ RequestOK(q) /\ ViewOK(q)
  BY DEF Idle, Request, Steps, RequestOK, ViewOK
<1>4. CASE HandleCreate(r)
  <2>1. CASE BadRequest(r) /\ RowsUnchanged
    BY <1>2, <1>4, <2>1 DEF HandleCreate
  <2>2. ASSUME NEW u \in Users, NEW name \in {"blank", "name"}, Create(r, u, name)
        PROVE  Moves(r) /\ Effect(r)
    <3>1. CASE Fail(r, "ErrInvalidName") /\ RowsUnchanged
      BY OnlyReplies, <1>4, <3>1 DEF Fail, Answers, HandleCreate
    <3>2. CASE CreateWithOwner(u) /\ (Reply(r, 201) \/ Fail(r, "error"))
      <4>1. Moves(r)
        BY <3>2, ReplyMoves DEF Fail
      <4>2. Creates(r)
        BY <1>4, <3>2 DEF Creates, Reply, Fail, HandleCreate
      <4> QED
        BY <4>1, <4>2 DEF Effect
    <3>3. CASE Fail(r, "error") /\ RowsUnchanged
      BY OnlyReplies, <1>4, <3>3 DEF Fail, Answers, HandleCreate
    <3> QED
      BY <2>2, <3>1, <3>2, <3>3 DEF Create
  <2> QED
    BY <1>4, <2>1, <2>2 DEF HandleCreate
<1>5. CASE HandleGet(r)
  BY <1>1, <1>2, <1>3, <1>5 DEF HandleGet
<1>6. CASE HandleUpdate(r)
  BY OnlyReplies, <1>1, <1>2, <1>3, <1>6 DEF HandleUpdate, Fail, Answers
<1>7. CASE HandleDelete(r)
  BY <1>1, <1>2, <1>3, <1>7 DEF HandleDelete
<1>8. CASE HandleListMembers(r)
  BY <1>1, <1>2, <1>3, <1>8 DEF HandleListMembers
<1>9. CASE HandleAddMember(r)
  <2>1. ASSUME NEW u \in Users, NEW t \in Users, NEW s \in {"owner", "member", "unset"},
               requireOwner(r, u, [Idle EXCEPT !.at = "add", !.target = t, !.role = ParseRole(s)])
        PROVE  Moves(r) /\ Effect(r)
    <3> DEFINE q == [Idle EXCEPT !.at = "add", !.target = t, !.role = ParseRole(s)]
    <3>1. ParseRole(s) \in Roles
      BY DEF ParseRole, Roles
    <3>2. q \in Request /\ RequestOK(q) /\ ViewOK(q)
      BY <3>1 DEF Idle, Request, Steps, RequestOK, ViewOK
    <3> QED
      BY <1>1, <1>9, <2>1, <3>2, ZenonT(30) DEF HandleAddMember
  <2>2. req[r].at = "idle" /\ req[r].at # "cleanup"
    BY <1>9 DEF HandleAddMember
  <2>3. CASE Fail(r, "ErrInvalidRole") /\ RowsUnchanged
    BY OnlyReplies, <2>2, <2>3 DEF Fail, Answers
  <2>4. CASE BadRequest(r) /\ RowsUnchanged
    BY <1>2, <2>2, <2>4, Zenon
  <2> DEFINE q(t, s) == [Idle EXCEPT !.at = "add", !.target = t, !.role = ParseRole(s)]
             names == {"owner", "member", "unset"}
  <2>5. ASSUME NEW u \in Users, NEW t \in Users, NEW s \in names, requireOwner(r, u, q(t, s))
        PROVE  Moves(r) /\ Effect(r)
    BY <2>1, <2>5
  <2>6. \/ BadRequest(r) /\ RowsUnchanged
        \/ \E u, t \in Users, s \in names : requireOwner(r, u, q(t, s))
        \/ Fail(r, "ErrInvalidRole") /\ RowsUnchanged
    BY <1>9, Zenon DEF HandleAddMember
  <2> HIDE DEF q, names
  <2> QED
    BY <2>3, <2>4, <2>5, <2>6, Zenon
<1>10. CASE HandleRemoveMember(r)
  <2>1. ASSUME NEW t \in Users
        PROVE  LET q == [Idle EXCEPT !.at = "target", !.target = t]
               IN q \in Request /\ RequestOK(q) /\ ViewOK(q)
    BY DEF Idle, Request, Steps, RequestOK, ViewOK
  <2> QED
    BY <1>1, <1>2, <1>10, <2>1 DEF HandleRemoveMember
<1> QED
  BY <1>4, <1>5, <1>6, <1>7, <1>8, <1>9, <1>10 DEF HandleProjects

(* The statements of the project service, but for the deletion.            *)
LEMMA ProjectStatements ==
  ASSUME IndInv, NEW r \in Requests, ServeProjects(r), UNCHANGED shareVars
  PROVE  Moves(r) /\ Effect(r)
<1> USE StatusValues
<1>0. /\ req \in [Requests -> Request] /\ req[r] \in Request
      /\ RequestOK(req[r])
  BY DEF IndInv, TypeOK
<1>1. ASSUME NEW e \in {"ErrNotFound", "ErrAlreadyMember", "ErrLastOwner", "error"},
             Fail(r, e), RowsUnchanged, req[r].at # "cleanup"
      PROVE  Moves(r) /\ Effect(r)
  BY OnlyReplies, <1>1 DEF Fail, Answers
<1>2. ASSUME Reply(r, 200), RowsUnchanged, req[r].at # "cleanup"
      PROVE  Moves(r) /\ Effect(r)
  BY OnlyReplies, <1>2 DEF Answers
<1>3. CASE Get(r)
  BY <1>1, <1>2, <1>3 DEF Get
<1>4. CASE UpdateGet(r)
  <2>1. CASE Proceed(r, "update")
    <3> DEFINE q == [req[r] EXCEPT !.at = "update"]
    <3>1. q \in Request /\ RequestOK(q) /\ ViewOK(q)
      BY <1>0 DEF Request, Steps, RequestOK, ViewOK
    <3> QED
      BY OnlyProceeds, <1>4, <2>1, <3>1 DEF UpdateGet, Proceed
  <2> QED
    BY <1>1, <1>4, <2>1 DEF UpdateGet
<1>5. CASE Update(r)
  BY <1>1, <1>2, <1>5 DEF Update
<1>6. CASE Cleanup(r)
  <2>1. Moves(r)
    BY <1>6, ReplyMoves DEF Cleanup
  <2>2. req'[r].at = "idle" /\ answer' = 204
    BY <1>0, <1>6 DEF Cleanup, Reply, Idle
  <2>3. CleansUp(r)
    BY <1>6, <2>2 DEF Cleanup, CleansUp
  <2> QED
    BY <2>1, <2>3, Zenon DEF Effect
<1>7. CASE AddMember(r)
  <2>1. CASE InsertMember(req[r].target, req[r].role)
             /\ (Reply(r, 201) \/ Fail(r, "error"))
             /\ project = "live" /\ role[req[r].target] = None
    <3>1. Moves(r)
      BY <2>1, ReplyMoves DEF Fail
    <3>2. Adds(r)
      BY <1>7, <2>1 DEF AddMember, Adds, Reply, Fail
    <3> QED
      BY <3>1, <3>2, Zenon DEF Effect
  <2> QED
    BY <1>1, <1>7, <2>1 DEF AddMember
<1>8. CASE RemoveTarget(r)
  <2>1. ASSUME NEW o \in Roles, NEW a \in {"count", "remove"},
               a = "remove" => o = "member",
               Becomes(r, [req[r] EXCEPT !.at = a, !.role = o])
        PROVE  Moves(r) /\ Effect(r)
    <3> DEFINE q == [req[r] EXCEPT !.at = a, !.role = o]
    <3>1. req[r].target \in Users
      BY <1>0, <1>8 DEF RemoveTarget, RequestOK
    <3>2. q \in Request /\ RequestOK(q) /\ ViewOK(q)
      BY <1>0, <2>1, <3>1 DEF Request, Steps, Roles, RequestOK, ViewOK
    <3> QED
      BY OnlyProceeds, <1>8, <2>1, <3>2 DEF RemoveTarget
  <2> QED
    BY <1>1, <1>8, <2>1 DEF RemoveTarget, Roles
<1>9. CASE RemoveCount(r)
  <2>1. CASE CountOwners > 1
             /\ Becomes(r, [req[r] EXCEPT !.at = "remove", !.n = CountOwners])
    <3> DEFINE q == [req[r] EXCEPT !.at = "remove", !.n = CountOwners]
    <3>0. CountOwners \in Nat
      BY ProjectsAssumption, FS_Subset, FS_CardinalityType DEF CountOwners
    <3>1. req[r].target \in Users /\ req[r].role \in Roles
      BY <1>0, <1>9 DEF RemoveCount, RequestOK
    <3>2. q \in Request /\ RequestOK(q) /\ ViewOK(q)
      BY <1>0, <2>1, <3>0, <3>1, ZenonT(30) DEF Request, Steps, RequestOK, ViewOK
    <3> QED
      BY OnlyProceeds, <1>9, <2>1, <3>2 DEF RemoveCount
  <2> QED
    BY <1>1, <1>9, <2>1 DEF RemoveCount
<1>10. CASE RemoveMember(r)
  <2>1. CASE role[req[r].target] # None /\ DeleteMember(r)
             /\ (Reply(r, 204) \/ Fail(r, "error"))
    <3>1. Moves(r)
      BY <2>1, ReplyMoves DEF Fail
    <3>2. Removes(r)
      BY <1>10, <2>1 DEF RemoveMember, Removes, Reply, Fail
    <3> QED
      BY <3>1, <3>2, Zenon DEF Effect
  <2> QED
    BY <1>1, <1>10, <2>1 DEF RemoveMember
<1>11. CASE ListMembers(r)
  BY <1>2, <1>11 DEF ListMembers
<1>12. CASE StatementFails(r)
  BY <1>1, <1>12 DEF StatementFails
<1> QED
  BY <1>3, <1>4, <1>5, <1>6, <1>7, <1>8, <1>9, <1>10, <1>11, <1>12 DEF ServeProjects

(* The deletion with its cascade over members and links.                   *)
LEMMA ProjectDeletion ==
  ASSUME IndInv, NEW r \in Requests, DeleteProject(r)
  PROVE  Moves(r) /\ Effect(r)
<1> USE StatusValues
<1>0. /\ req \in [Requests -> Request] /\ req[r] \in Request
      /\ req[r].at = "delete"
  BY DEF IndInv, TypeOK, DeleteProject, Delete
<1>1. CASE project = "live" /\ DeleteRow
  <2>1. CascadeReport
    BY <1>1 DEF DeleteProject, DeleteRow
  <2>2. CASE Proceed(r, "cleanup") /\ UNCHANGED excused
    <3> DEFINE q == [req[r] EXCEPT !.at = "cleanup"]
    <3>1. q \in Request /\ RequestOK(q) /\ ViewOK(q)
      BY <1>0 DEF Request, Steps, RequestOK, ViewOK
    <3>2. Moves(r)
      BY <2>2, <3>1 DEF Proceed, Becomes, Moves
    <3>3. req'[r].at = "cleanup" /\ answer' = None
      BY <1>0, <2>2 DEF Proceed, Becomes, Request
    <3>4. Deletes(r)
      BY <1>0, <1>1, <2>1, <2>2, <3>3 DEF Deletes
    <3> QED
      BY <3>2, <3>4, Zenon DEF Effect
  <2>3. CASE Fail(r, "error") /\ excused' = TRUE
    <3>1. Moves(r)
      BY <2>3, ReplyMoves DEF Fail
    <3>2. Deletes(r)
      BY <1>0, <1>1, <2>1, <2>3 DEF Deletes, Fail, Reply
    <3> QED
      BY <3>1, <3>2, Zenon DEF Effect
  <2> QED
    BY <1>1, <2>2, <2>3 DEF DeleteProject, Delete
<1>2. CASE project # "live" /\ Fail(r, "ErrNotFound") /\ RowsUnchanged
  <2>1. UNCHANGED shareVars
    BY <1>2 DEF DeleteProject, RowsUnchanged
  <2> QED
    BY OnlyReplies, <1>0, <1>2, <2>1 DEF Fail, Answers
<1> QED
  BY <1>1, <1>2 DEF DeleteProject, Delete

(* Every request of the sharing package, likewise.                         *)
LEMMA ShareHandlers ==
  ASSUME IndInv, NEW r \in Requests, HandleShares(r)
  PROVE  Moves(r) /\ Effect(r)
<1> USE ShareStatusValues
<1>1. ASSUME NEW e \in {"ErrInvalidInput", "ErrForbidden", "ErrNotFound", "ErrShareInactive", "error"},
             Refuse(r, e), RowsUnchanged, UNCHANGED shareVars, req[r].at = "idle"
      PROVE  Moves(r) /\ Effect(r)
  BY OnlyReplies, <1>1 DEF Refuse, Answers
<1>2. ASSUME BadRequest(r), RowsUnchanged, UNCHANGED shareVars, req[r].at = "idle"
      PROVE  Moves(r) /\ Effect(r)
  BY OnlyReplies, <1>2 DEF BadRequest, Answers
<1>3. ASSUME NEW u \in Users, NEW q \in Request, RequestOK(q), ViewOK(q),
             EnsureOwner(r, u, q) \/ EnsureMember(r, u, q),
             RowsUnchanged, UNCHANGED shareVars, req[r].at = "idle"
      PROVE  Moves(r) /\ Effect(r)
  <2>1. CASE Becomes(r, q)
    BY OnlyProceeds, <1>3, <2>1
  <2> QED
    BY <1>1, <1>3, <2>1 DEF EnsureOwner, EnsureMember
<1>4. CASE HandleCreateShare(r)
  <2>1. ASSUME NEW e \in 0..(MaxTTL + 1)
        PROVE  LET q == [Idle EXCEPT !.at = "sharePayload", !.ttl = Requested(e)]
               IN q \in Request /\ RequestOK(q) /\ ViewOK(q)
    <3>1. Requested(e) \in Nat
      BY ProjectsAssumption, SharingAssumption DEF Requested
    <3> QED
      BY <3>1 DEF Idle, Request, Steps, RequestOK, ViewOK
  <2> QED
    BY <1>2, <1>3, <1>4, <2>1 DEF HandleCreateShare
<1>5. CASE HandleRevoke(r)
  <2>1. ASSUME NEW l \in Links
        PROVE  LET q == [Idle EXCEPT !.at = "revoke", !.link = l]
               IN q \in Request /\ RequestOK(q) /\ ViewOK(q)
    BY DEF Idle, Request, Steps, RequestOK, ViewOK
  <2> QED
    BY <1>2, <1>3, <1>5, <2>1 DEF HandleRevoke
<1>6. CASE HandleListShares(r)
  <2>1. LET q == [Idle EXCEPT !.at = "listShares"]
        IN q \in Request /\ RequestOK(q) /\ ViewOK(q)
    BY DEF Idle, Request, Steps, RequestOK, ViewOK
  <2> QED
    BY <1>2, <1>3, <1>6, <2>1 DEF HandleListShares
<1>7. CASE PublicLookup(r)
  <2>1. ASSUME NEW l \in Links, Active(l),
               Becomes(r, [Idle EXCEPT !.at = "publicPayload", !.link = l])
        PROVE  Moves(r) /\ Effect(r)
    <3> DEFINE q == [Idle EXCEPT !.at = "publicPayload", !.link = l]
    <3>1. q \in Request /\ q.at = "publicPayload" /\ q.link = l /\ q.held = 0
      BY DEF Idle, Request, Steps
    <3>2. dark[l] = 0
      BY <2>1 DEF IndInv, DarkOK
    <3> HIDE DEF q
    <3>3. RequestOK(q) /\ ViewOK(q)
      BY <3>1, <3>2, ProjectsAssumption DEF RequestOK, ViewOK
    <3>4. Becomes(r, q)
      BY <2>1 DEF q
    <3>5. RowsUnchanged /\ UNCHANGED shareVars /\ req[r].at # "cleanup"
      BY <1>7 DEF PublicLookup
    <3> QED
      BY OnlyProceeds, <3>1, <3>3, <3>4, <3>5
  <2> QED
    BY <1>1, <1>7, <2>1, ZenonT(30) DEF PublicLookup
<1> QED
  BY <1>4, <1>5, <1>6, <1>7 DEF HandleShares

(* The statements of the sharing service.                                  *)
LEMMA ShareStatements ==
  ASSUME IndInv, NEW r \in Requests, ServeShares(r)
  PROVE  Moves(r) /\ Effect(r)
<1> USE ShareStatusValues
<1>0. /\ req \in [Requests -> Request] /\ req[r] \in Request
      /\ RequestOK(req[r]) /\ ViewOK(req[r])
  BY DEF IndInv, TypeOK
<1>1. ASSUME NEW e \in {"ErrInvalidInput", "ErrNotFound", "ErrReportNotReady", "error"},
             Refuse(r, e), RowsUnchanged, UNCHANGED shareVars, req[r].at # "cleanup"
      PROVE  Moves(r) /\ Effect(r)
  BY OnlyReplies, <1>1 DEF Refuse, Answers
<1>2. ASSUME NEW q \in Request, RequestOK(q), ViewOK(q), GetPublicPayload(r, q),
             RowsUnchanged, UNCHANGED shareVars, req[r].at # "cleanup"
      PROVE  Moves(r) /\ Effect(r)
  <2>1. CASE Becomes(r, q)
    BY OnlyProceeds, <1>2, <2>1
  <2> QED
    BY <1>1, <1>2, <2>1 DEF GetPublicPayload
<1>3. CASE SharePayload(r)
  <2>1. LET q == [req[r] EXCEPT !.at = "shareArtifacts"]
        IN q \in Request /\ RequestOK(q) /\ ViewOK(q)
    BY <1>0 DEF Request, Steps, RequestOK, ViewOK
  <2> QED
    BY <1>2, <1>3, <2>1 DEF SharePayload
<1>4. CASE ShareArtifacts(r)
  <2> DEFINE ttl == resolveExpiry(req[r].ttl)
  <2>1. CASE ttl > 0 /\ Becomes(r, [req[r] EXCEPT !.at = "shareInsert", !.ttl = ttl])
    <3> DEFINE q == [req[r] EXCEPT !.at = "shareInsert", !.ttl = ttl]
    <3>1. ttl \in 1..MaxTTL
      BY <1>0, <2>1, ProjectsAssumption DEF resolveExpiry, Request
    <3>2. q \in Request /\ RequestOK(q) /\ ViewOK(q)
      <4>1. ttl \in Nat
        BY <3>1, ProjectsAssumption
      <4> HIDE DEF ttl
      <4>2. q \in Request /\ q.at = "shareInsert" /\ q.ttl = ttl
        BY <1>0, <4>1 DEF Request, Steps
      <4> QED
        BY <3>1, <4>2 DEF RequestOK, ViewOK
    <3> QED
      BY OnlyProceeds, <1>4, <2>1, <3>2 DEF ShareArtifacts
  <2> QED
    BY <1>1, <1>4, <2>1 DEF ShareArtifacts
<1>5. CASE InsertShare(r)
  <2>1. CASE report = None /\ Refuse(r, "error") /\ UNCHANGED shareVars
    BY <1>1, <1>5, <2>1 DEF InsertShare
  <2>2. CASE ~(report = None /\ Refuse(r, "error") /\ UNCHANGED shareVars)
    <3>1. Moves(r)
      BY <1>5, <2>2, ReplyMoves DEF InsertShare, Refuse
    <3>2. Shares(r)
      BY <1>5, <2>2 DEF InsertShare, Shares, Refuse, Reply
    <3> QED
      BY <3>1, <3>2, Zenon DEF Effect
  <2> QED
    BY <2>1, <2>2
<1>6. CASE Revoke(r)
  <2>1. CASE Revocable(req[r].link)
    <3>1. Moves(r)
      BY <1>6, <2>1, ReplyMoves DEF Revoke, Refuse
    <3>2. Revokes(r)
      BY <1>6, <2>1 DEF Revoke, Revokes, Refuse, Reply
    <3> QED
      BY <3>1, <3>2, Zenon DEF Effect
  <2>2. CASE ~Revocable(req[r].link)
    BY <1>1, <1>6, <2>2 DEF Revoke
  <2> QED
    BY <2>1, <2>2
<1>7. CASE ListShares(r)
  BY OnlyReplies, <1>7 DEF ListShares, Answers
<1>8. CASE PublicPayload(r)
  <2>1. LET q == [req[r] EXCEPT !.at = "publicSign"]
        IN q \in Request /\ RequestOK(q) /\ ViewOK(q)
    BY <1>0, <1>8 DEF Request, Steps, RequestOK, ViewOK, PublicPayload
  <2> QED
    BY <1>2, <1>8, <2>1 DEF PublicPayload
<1>9. CASE PublicSign(r)
  <2>1. Moves(r)
    BY <1>9, ReplyMoves DEF PublicSign
  <2>2. Signs(r)
    BY <1>9 DEF PublicSign, Signs, Reply
  <2> QED
    BY <2>1, <2>2, Zenon DEF Effect
<1>10. CASE ShareStatementFails(r)
  BY <1>1, <1>10 DEF ShareStatementFails
<1> QED
  BY <1>3, <1>4, <1>5, <1>6, <1>7, <1>8, <1>9, <1>10 DEF ServeShares

(* What a statement of a request does, whichever it is.                    *)
LEMMA ServeEffect ==
  ASSUME IndInv, NEW r \in Requests, Serve(r)
  PROVE  Moves(r) /\ Effect(r)
  BY ProjectHandlers, ProjectStatements, ProjectDeletion, ShareHandlers, ShareStatements, Zenon
  DEF Serve

(* The steps of the system, those of the requests by their effect.         *)
LEMMA NextCases ==
  ASSUME IndInv, [Next]_vars
  PROVE  \/ \E r \in Requests : Moves(r) /\ Effect(r)
         \/ Crash /\ UNCHANGED shareVars
         \/ Upload /\ UNCHANGED shareVars
         \/ WriteReport \/ DeleteRecording \/ Tick
         \/ UNCHANGED vars
  BY ServeEffect, Zenon DEF Next

-------------------------------------------------------------------------------
(* The types.                                                              *)
LEMMA BoundNat == DarkBound \in Nat /\ MaxHold <= DarkBound /\ UrlTTL <= DarkBound
  BY ProjectsAssumption, SharingAssumption DEF DarkBound

(* Every variable starts with a value of its type.                         *)
LEMMA TypeInit == Init => TypeOK
<1> SUFFICES ASSUME Init PROVE TypeOK
  OBVIOUS
<1>1. Idle \in Request
  BY DEF Idle, Request, Steps
<1>2. 0 \in 0..UrlTTL /\ DarkBound \in 0..DarkBound
  BY BoundNat, SharingAssumption
<1>3. url \in [Links -> 0..UrlTTL] /\ dark \in [Links -> 0..DarkBound]
  BY <1>2 DEF Init
<1>4. bytes \in BOOLEAN /\ raced \in BOOLEAN /\ excused \in BOOLEAN
  BY DEF Init
<1> QED
  BY <1>1, <1>3, <1>4 DEF Init, TypeOK

(* The rows after a step of a request.                                     *)
LEMMA RowsType ==
  ASSUME IndInv, NEW r \in Requests, Moves(r), Effect(r)
  PROVE  TypeOK'
<1>0. /\ TypeOK
      /\ req[r] \in Request /\ RequestOK(req[r])
  BY DEF IndInv, TypeOK
<1>1. req' \in [Requests -> Request]
  BY DEF IndInv, TypeOK, Moves
<1> USE BoundNat, ProjectsAssumption, SharingAssumption
<1>2. CASE Reads(r)
  BY <1>0, <1>1, <1>2 DEF Reads, RowsUnchanged, shareVars, TypeOK, Answers
<1>3. CASE Creates(r)
  BY <1>0, <1>1, <1>3 DEF Creates, CreateWithOwner, shareVars, TypeOK, Roles
<1>4. CASE Deletes(r)
  <2>1. excused' \in BOOLEAN
    BY <1>0, <1>4, ZenonT(30) DEF Deletes, TypeOK
  <2>2. /\ project' = "gone" /\ role' = [u \in Users |-> None] /\ UNCHANGED <<bytes, raced>>
        /\ report' = None /\ links' = [l \in Links |-> None] /\ UNCHANGED <<url, dark, events>>
        /\ answer' \in {None, 500}
    BY <1>4 DEF Deletes, DeleteRow, CascadeReport
  <2> QED
    BY <1>0, <1>1, <2>1, <2>2 DEF TypeOK
<1>5. CASE CleansUp(r)
  <2>0. bytes \in BOOLEAN /\ excused \in BOOLEAN
    BY <1>0 DEF TypeOK
  <2>1. bytes' \in BOOLEAN /\ excused' \in BOOLEAN
    <3>1. CASE bytes' = FALSE /\ excused' = excused
      BY <2>0, <3>1
    <3>2. CASE excused' = TRUE /\ bytes' = bytes
      BY <2>0, <3>2
    <3> QED
      BY <1>5, <3>1, <3>2, Zenon DEF CleansUp
  <2>2. UNCHANGED <<project, role, raced>> /\ UNCHANGED shareVars /\ answer' = 204
    BY <1>5 DEF CleansUp
  <2> QED
    BY <1>0, <1>1, <2>1, <2>2 DEF shareVars, TypeOK
<1>6. CASE Adds(r)
  <2>1. req[r].role \in Roles
    BY <1>0, <1>6 DEF Adds, RequestOK
  <2> QED
    <3>1. role' \in [Users -> Roles \cup {None}]
      BY <1>0, <1>6, <2>1, ZenonT(30) DEF Adds, InsertMember, TypeOK
    <3>2. UNCHANGED <<project, bytes, raced, excused>> /\ UNCHANGED shareVars /\ answer' \in {201, 500}
      BY <1>6 DEF Adds, InsertMember
    <3> QED
      BY <1>0, <1>1, <3>1, <3>2 DEF shareVars, TypeOK
<1>7. CASE Removes(r)
  <2>1. raced' \in BOOLEAN
    BY <1>0, <1>7 DEF Removes, DeleteMember, TypeOK
  <2>2. role' \in [Users -> Roles \cup {None}]
    BY <1>0, <1>7, ZenonT(30) DEF Removes, DeleteMember, TypeOK
  <2>3. UNCHANGED <<project, bytes, excused>> /\ UNCHANGED shareVars /\ answer' \in {204, 500}
    BY <1>7 DEF Removes, DeleteMember
  <2> QED
    BY <1>0, <1>1, <2>1, <2>2, <2>3 DEF TypeOK, shareVars
<1>8. CASE Shares(r)
  <2>1. req[r].ttl \in 1..MaxTTL
    BY <1>0, <1>8 DEF Shares, RequestOK
  <2>2. [ttl |-> req[r].ttl, revoked |-> FALSE] \in [ttl: 0..MaxTTL, revoked: BOOLEAN]
    BY <2>1
  <2>3. PICK l \in Links :
          /\ links' = [links EXCEPT ![l] = [ttl |-> req[r].ttl, revoked |-> FALSE]]
          /\ dark' = [dark EXCEPT ![l] = 0]
          /\ events' = events \cup {l}
    BY <1>8 DEF Shares
  <2>4. /\ links' \in [Links -> [ttl: 0..MaxTTL, revoked: BOOLEAN] \cup {None}]
        /\ dark' \in [Links -> 0..DarkBound]
        /\ events' \subseteq Links
    BY <1>0, <2>2, <2>3 DEF TypeOK
  <2> QED
    BY <1>0, <1>1, <1>8, <2>4 DEF Shares, RowsUnchanged, TypeOK
<1>9. CASE Revokes(r)
  <2> DEFINE l == req[r].link
  <2>1. links[l] \in [ttl: 0..MaxTTL, revoked: BOOLEAN]
    BY <1>0, <1>9 DEF Revokes, Revocable, TypeOK, RequestOK
  <2>2. [links[l] EXCEPT !.revoked = TRUE] \in [ttl: 0..MaxTTL, revoked: BOOLEAN]
    BY <2>1
  <2>3. links' = [links EXCEPT ![l] = [links[l] EXCEPT !.revoked = TRUE]]
    BY <1>9 DEF Revokes
  <2> HIDE DEF l
  <2>4. links' \in [Links -> [ttl: 0..MaxTTL, revoked: BOOLEAN] \cup {None}]
    BY <1>0, <2>2, <2>3, ZenonT(30) DEF TypeOK
  <2> QED
    BY <1>0, <1>1, <1>9, <2>4 DEF Revokes, RowsUnchanged, TypeOK
<1>10. CASE Signs(r)
  <2>1. url' \in [Links -> 0..UrlTTL]
    <3>1. UrlTTL \in 0..UrlTTL
      OBVIOUS
    <3>2. url' = [url EXCEPT ![req[r].link] = UrlTTL] /\ url \in [Links -> 0..UrlTTL]
      BY <1>0, <1>10 DEF Signs, TypeOK
    <3> QED
      BY <3>1, <3>2
  <2>2. /\ UNCHANGED <<project, role, bytes, raced, excused>>
        /\ UNCHANGED <<report, links, dark, events>> /\ answer' = 200
    BY <1>10 DEF Signs, RowsUnchanged
  <2> QED
    BY <1>0, <1>1, <2>1, <2>2 DEF TypeOK
<1> QED
  BY <1>2, <1>3, <1>4, <1>5, <1>6, <1>7, <1>8, <1>9, <1>10 DEF Effect

(* The clock: what every tick does to a request, a link and its URLs.      *)
LEMMA TickType ==
  ASSUME TypeOK, Tick
  PROVE  TypeOK'
<1> USE BoundNat, ProjectsAssumption, SharingAssumption
<1>1. req' \in [Requests -> Request]
  <2>1. ASSUME NEW r \in Requests PROVE [req[r] EXCEPT !.held = @ + 1] \in Request
    BY DEF TypeOK, Request
  <2> QED
    BY <2>1 DEF TypeOK, Tick
<1>2. links' \in [Links -> [ttl: 0..MaxTTL, revoked: BOOLEAN] \cup {None}]
  <2>1. ASSUME NEW l \in Links, links[l] # None, links[l].ttl > 0
        PROVE  [links[l] EXCEPT !.ttl = @ - 1] \in [ttl: 0..MaxTTL, revoked: BOOLEAN]
    <3>1. links[l] \in [ttl: 0..MaxTTL, revoked: BOOLEAN]
      BY <2>1 DEF TypeOK
    <3>2. links[l].ttl - 1 \in 0..MaxTTL
      BY <2>1, <3>1
    <3> QED
      BY <3>1, <3>2
  <2> QED
    BY <2>1 DEF TypeOK, Tick
<1>3. url' \in [Links -> 0..UrlTTL] /\ dark' \in [Links -> 0..DarkBound]
  BY DEF TypeOK, Tick
<1> QED
  BY <1>1, <1>2, <1>3 DEF TypeOK, Tick

(* Every step keeps the types.                                             *)
LEMMA TypeStep ==
  ASSUME IndInv, [Next]_vars
  PROVE  TypeOK'
<1>0. TypeOK
  BY DEF IndInv
<1>1. ASSUME NEW r \in Requests, Moves(r), Effect(r)
      PROVE  TypeOK'
  BY <1>1, RowsType
<1>2. CASE Crash /\ UNCHANGED shareVars
  <2>1. Idle \in Request
    BY DEF Idle, Request, Steps
  <2>2. excused' \in BOOLEAN
    BY <1>0, <1>2 DEF TypeOK, Crash
  <2>3. /\ req' \in [Requests -> Request] /\ answer' = None
        /\ UNCHANGED <<project, role, bytes, raced>> /\ UNCHANGED shareVars
    BY <1>2, <2>1 DEF Crash
  <2> QED
    BY <1>0, <2>2, <2>3 DEF TypeOK, shareVars
<1>3. CASE Upload /\ UNCHANGED shareVars
  <2>1. excused' \in BOOLEAN
    BY <1>0, <1>3 DEF TypeOK, Upload
  <2> QED
    BY <1>0, <1>3, <2>1 DEF TypeOK, Upload, shareVars
<1>4. CASE WriteReport
  BY <1>0, <1>4 DEF TypeOK, WriteReport
<1>5. CASE DeleteRecording
  BY <1>0, <1>5 DEF TypeOK, DeleteRecording, CascadeReport
<1>6. CASE Tick
  BY <1>0, <1>6, TickType
<1>7. CASE UNCHANGED vars
  BY <1>0, <1>7 DEF TypeOK, vars, projectVars, shareVars
<1> QED
  BY <1>1, <1>2, <1>3, <1>4, <1>5, <1>6, <1>7, NextCases

-------------------------------------------------------------------------------
(* The requests.  No step of a request makes a link darker; a tick makes a *)
(* link darker by one at most, and every view older by one.                *)
LEMMA DarkFalls ==
  ASSUME IndInv, NEW r \in Requests, Effect(r), NEW l \in Links
  PROVE  dark'[l] <= dark[l]
<1>1. dark \in [Links -> 0..DarkBound]
  BY DEF IndInv, TypeOK
<1>2. CASE Shares(r)
  BY <1>1, <1>2, BoundNat DEF Shares
<1>3. CASE ~Shares(r)
  <2>1. dark' = dark
    BY <1>3 DEF Effect, Reads, Creates, Deletes, CleansUp, Adds, Removes, Revokes, Signs,
                shareVars, CascadeReport
  <2> QED
    BY <1>1, <2>1, BoundNat
<1> QED
  BY <1>2, <1>3

(* Whatever lowers dark keeps the views served in time.                    *)
LEMMA ViewFalls ==
  ASSUME NEW q \in Request, RequestOK(q), ViewOK(q), TypeOK, TypeOK',
         \A l \in Links : dark'[l] <= dark[l]
  PROVE  q.at \in {"publicPayload", "publicSign"} => dark'[q.link] <= q.held /\ q.held <= MaxHold
<1> SUFFICES ASSUME q.at \in {"publicPayload", "publicSign"}
             PROVE  dark'[q.link] <= q.held /\ q.held <= MaxHold
  OBVIOUS
<1>1. q.link \in Links /\ dark[q.link] <= q.held /\ q.held <= MaxHold
  BY DEF RequestOK, ViewOK
<1>2. dark'[q.link] \in Nat /\ dark[q.link] \in Nat /\ q.held \in Nat
  BY <1>1, BoundNat DEF TypeOK, Request
<1> QED
  BY <1>1, <1>2

(* What a request relies on still holds when it runs its next statement.   *)
LEMMA RequestsStep ==
  ASSUME IndInv, [Next]_vars
  PROVE  (\A r \in Requests : RequestOK(req[r]) /\ ViewOK(req[r]))'
<1>0. /\ TypeOK /\ TypeOK' /\ req \in [Requests -> Request]
      /\ \A r \in Requests : RequestOK(req[r]) /\ ViewOK(req[r])
  BY TypeStep DEF IndInv, TypeOK
<1>1. ASSUME NEW r \in Requests, Moves(r), Effect(r), NEW s \in Requests
      PROVE  (RequestOK(req[s]) /\ ViewOK(req[s]))'
  <2>1. PICK q \in Request : RequestOK(q) /\ ViewOK(q) /\ req' = [req EXCEPT ![r] = q]
    BY <1>1 DEF Moves
  <2>2. PICK p \in Request : RequestOK(p) /\ ViewOK(p) /\ req'[s] = p
    BY <1>0, <2>1
  <2>3. \A l \in Links : dark'[l] <= dark[l]
    BY <1>1, DarkFalls
  <2>4. p.at \in {"publicPayload", "publicSign"} => dark'[p.link] <= p.held /\ p.held <= MaxHold
    BY <1>0, <2>2, <2>3, ViewFalls
  <2> QED
    BY <2>2, <2>4 DEF RequestOK, ViewOK
<1>2. CASE Crash
  <2>1. \A r \in Requests : req'[r] = Idle
    BY <1>2 DEF Crash
  <2> QED
    BY <2>1 DEF RequestOK, ViewOK, Idle
<1>3. CASE Tick
  <2> SUFFICES ASSUME NEW r \in Requests PROVE (RequestOK(req[r]) /\ ViewOK(req[r]))'
    OBVIOUS
  <2>1. CASE req[r].at \in {"publicPayload", "publicSign"}
    <3>1. /\ req[r].link \in Links /\ req[r].held < MaxHold
          /\ dark[req[r].link] <= req[r].held
      BY <1>0, <1>3, <2>1 DEF Tick, RequestOK, ViewOK
    <3>2. req'[r] = [req[r] EXCEPT !.held = @ + 1]
      BY <1>3, <2>1 DEF Tick
    <3>3. /\ req'[r].at = req[r].at /\ req'[r].link = req[r].link
          /\ req'[r].held = req[r].held + 1
      BY <1>0, <3>2 DEF Request
    <3>4. /\ dark[req[r].link] \in Nat /\ req[r].held \in Nat
          /\ dark'[req[r].link] <= dark[req[r].link] + 1
      BY <1>0, <1>3, <3>1, BoundNat DEF TypeOK, Request, Tick
    <3>5. dark'[req[r].link] \in Nat
      BY <1>0, <3>1, BoundNat DEF TypeOK
    <3>6. dark'[req'[r].link] <= req'[r].held /\ req'[r].held <= MaxHold
      BY <3>1, <3>3, <3>4, <3>5, ProjectsAssumption
    <3> QED
      BY <2>1, <3>1, <3>3, <3>6 DEF RequestOK, ViewOK
  <2>2. CASE req[r].at \notin {"publicPayload", "publicSign"}
    <3>1. req'[r] = req[r]
      BY <1>3, <2>2 DEF Tick
    <3> QED
      BY <1>0, <2>2, <3>1 DEF RequestOK, ViewOK
  <2> QED
    BY <2>1, <2>2
<1>4. CASE UNCHANGED <<req, dark>>
  BY <1>0, <1>4 DEF RequestOK, ViewOK
<1> QED
  BY <1>1, <1>2, <1>3, <1>4, NextCases
  DEF Upload, WriteReport, DeleteRecording, CascadeReport, vars, projectVars, shareVars

-------------------------------------------------------------------------------
(* The members.                                                            *)
LEMMA MembersStep ==
  ASSUME IndInv, [Next]_vars
  PROVE  MembersOK'
<1>0. /\ TypeOK /\ MembersOK
      /\ \A r \in Requests : RequestOK(req[r])
  BY DEF IndInv
<1>1. ASSUME NEW r \in Requests, Effect(r)
      PROVE  MembersOK'
  <2>1. CASE Creates(r)
    BY <2>1 DEF Creates, CreateWithOwner, MembersOK
  <2>2. CASE Deletes(r)
    BY <2>2 DEF Deletes, DeleteRow, MembersOK
  <2>3. CASE Adds(r)
    BY <2>3 DEF Adds, InsertMember, MembersOK
  <2>4. CASE Removes(r)
    <3>1. role' = [role EXCEPT ![req[r].target] = None] /\ project' = project
      BY <2>4 DEF Removes, DeleteMember
    <3> QED
      BY <1>0, <3>1 DEF MembersOK, TypeOK
  <2>5. CASE Reads(r) \/ CleansUp(r) \/ Shares(r) \/ Revokes(r) \/ Signs(r)
    BY <1>0, <2>5 DEF Reads, CleansUp, Shares, Revokes, Signs, RowsUnchanged, MembersOK
  <2> QED
    BY <1>1, <2>1, <2>2, <2>3, <2>4, <2>5 DEF Effect
<1>2. CASE UNCHANGED <<project, role>>
  BY <1>0, <1>2 DEF MembersOK
<1> QED
  BY <1>1, <1>2, NextCases
  DEF Crash, Upload, WriteReport, DeleteRecording, Tick, vars, projectVars

(* The links and their URLs.                                               *)
LEMMA DarkStep ==
  ASSUME IndInv, [Next]_vars
  PROVE  DarkOK'
<1>0. /\ DarkOK
      /\ links \in [Links -> [ttl: 0..MaxTTL, revoked: BOOLEAN] \cup {None}]
      /\ url \in [Links -> 0..UrlTTL] /\ dark \in [Links -> 0..DarkBound]
      /\ UrlTTL \in Nat /\ DarkBound \in Nat /\ DarkBound = UrlTTL + MaxHold /\ MaxHold \in Nat
  BY ProjectsAssumption, SharingAssumption, BoundNat DEF IndInv, TypeOK, DarkBound
<1>1. ASSUME NEW r \in Requests, Effect(r)
      PROVE  DarkOK'
  <2>1. CASE Deletes(r)
    BY <1>0, <2>1 DEF Deletes, CascadeReport, DarkOK, Active
  <2>2. CASE Shares(r)
    <3>1. PICK k \in Links :
            /\ links' = [links EXCEPT ![k] = [ttl |-> req[r].ttl, revoked |-> FALSE]]
            /\ dark' = [dark EXCEPT ![k] = 0]
      BY <2>2 DEF Shares
    <3>2. url' = url
      BY <2>2 DEF Shares
    <3> SUFFICES ASSUME NEW l \in Links
                 PROVE  /\ Active(l)' => dark'[l] = 0
                        /\ url'[l] + dark'[l] <= DarkBound
      BY DEF DarkOK, DarkBound
    <3>3. CASE l = k
      BY <1>0, <3>1, <3>2, <3>3
    <3>4. CASE l # k
      BY <1>0, <3>1, <3>2, <3>4 DEF DarkOK, Active
    <3> QED
      BY <3>3, <3>4
  <2>3. CASE Revokes(r)
    <3>1. url' = url /\ dark' = dark
      BY <2>3 DEF Revokes
    <3>2. ASSUME NEW l \in Links, Active(l)'
          PROVE  Active(l)
      <4>1. req[r].link \in Links /\ links[req[r].link] # None
        BY <2>3 DEF IndInv, RequestOK, Revokes, Revocable
      <4>2. links[req[r].link] \in [ttl: 0..MaxTTL, revoked: BOOLEAN]
        BY <1>0, <4>1
      <4>3. l # req[r].link
        BY <1>0, <2>3, <3>2, <4>1, <4>2 DEF Revokes, Active
      <4> QED
        BY <1>0, <2>3, <3>2, <4>1, <4>3 DEF Revokes, Active
    <3> QED
      BY <1>0, <3>1, <3>2 DEF DarkOK, DarkBound
  <2>4. CASE Signs(r)
    <3>1. /\ req[r].link \in Links /\ req[r].held \in Nat
          /\ dark[req[r].link] <= req[r].held /\ req[r].held <= MaxHold
      BY <2>4 DEF IndInv, TypeOK, Request, RequestOK, ViewOK, Signs
    <3>2. UNCHANGED <<links, dark>> /\ url' = [url EXCEPT ![req[r].link] = UrlTTL]
      BY <2>4 DEF Signs
    <3>3. dark[req[r].link] \in Nat /\ UrlTTL + dark[req[r].link] <= DarkBound
      BY <1>0, <3>1
    <3> QED
      BY <1>0, <3>1, <3>2, <3>3 DEF DarkOK, DarkBound, Active
  <2>5. CASE UNCHANGED <<links, url, dark>>
    BY <1>0, <2>5 DEF DarkOK, DarkBound, Active
  <2> QED
    BY <1>1, <2>1, <2>2, <2>3, <2>4, <2>5
    DEF Effect, Reads, Creates, CleansUp, Adds, Removes, shareVars
<1>2. CASE DeleteRecording
  BY <1>0, <1>2 DEF DeleteRecording, CascadeReport, DarkOK, DarkBound, Active
<1>3. CASE Tick
  <2> SUFFICES ASSUME NEW l \in Links
               PROVE  /\ Active(l)' => dark'[l] = 0
                      /\ url'[l] + dark'[l] <= DarkBound
    BY DEF DarkOK, DarkBound
  <2>1. url'[l] = IF url[l] > 0 THEN url[l] - 1 ELSE 0
    BY <1>3 DEF Tick
  <2>2. dark'[l] = IF Active(l) THEN 0 ELSE IF dark[l] < DarkBound THEN dark[l] + 1 ELSE dark[l]
    BY <1>3 DEF Tick, Active
  <2>3. url[l] \in 0..UrlTTL /\ dark[l] \in 0..DarkBound /\ url[l] + dark[l] <= DarkBound
    BY <1>0 DEF DarkOK
  <2>4. Active(l)' => Active(l)
    <3>1. CASE links[l] # None /\ links[l].ttl > 0
      <4>1. links[l] \in [ttl: 0..MaxTTL, revoked: BOOLEAN]
        BY <1>0, <3>1
      <4>2. links'[l] = [links[l] EXCEPT !.ttl = @ - 1]
        BY <1>3, <3>1 DEF Tick
      <4>3. links'[l].revoked = links[l].revoked
        BY <4>1, <4>2
      <4> QED
        BY <3>1, <4>3 DEF Active
    <3>2. CASE ~(links[l] # None /\ links[l].ttl > 0)
      BY <1>3, <3>2 DEF Tick, Active
    <3> QED
      BY <3>1, <3>2
  <2>5. url'[l] + dark'[l] <= DarkBound
    BY <1>0, <2>1, <2>2, <2>3
  <2> QED
    BY <2>2, <2>4, <2>5
<1>4. CASE UNCHANGED <<links, url, dark>>
  BY <1>0, <1>4 DEF DarkOK, DarkBound, Active
<1> QED
  BY <1>1, <1>2, <1>3, <1>4, NextCases
  DEF Upload, WriteReport, vars, shareVars

-------------------------------------------------------------------------------
(* Of more than one owner one is left when a user goes.                    *)
LEMMA AnotherOwner ==
  ASSUME NEW u \in Users, CountOwners > 1
  PROVE  \E v \in Users : v # u /\ role[v] = "owner"
<1> DEFINE owners == {v \in Users : role[v] = "owner"}
<1> SUFFICES ASSUME \A v \in Users : role[v] = "owner" => v = u
             PROVE  FALSE
  OBVIOUS
<1>1. owners \subseteq {u}
  OBVIOUS
<1>2. IsFiniteSet({u}) /\ Cardinality({u}) = 1
  BY FS_Singleton
<1>3. Cardinality(owners) \in Nat /\ Cardinality(owners) <= 1
  <2> HIDE DEF owners
  <2> QED
    BY <1>1, <1>2, FS_Subset, FS_CardinalityType
<1> QED
  BY <1>3 DEF CountOwners

(* An owner is removed only when another one was counted, or by a race.    *)
LEMMA OwnersStep ==
  ASSUME IndInv, [Next]_vars
  PROVE  OwnerlessOnlyByRace'
<1>0. /\ OwnerlessOnlyByRace /\ role \in [Users -> Roles \cup {None}]
      /\ None \notin Roles /\ "owner" \in Roles
  BY ProjectsAssumption DEF IndInv, TypeOK, Roles
<1>1. ASSUME NEW r \in Requests, Effect(r)
      PROVE  OwnerlessOnlyByRace'
  <2>1. CASE Creates(r)
    BY <1>0, <2>1 DEF Creates, CreateWithOwner, OwnerlessOnlyByRace
  <2>2. CASE Deletes(r)
    BY <2>2 DEF Deletes, DeleteRow, OwnerlessOnlyByRace
  <2>3. CASE Adds(r)
    <3>1. /\ role' = [role EXCEPT ![req[r].target] = req[r].role]
          /\ role[req[r].target] # "owner" /\ project = "live" /\ raced' = raced
      BY <1>0, <2>3 DEF Adds, InsertMember
    <3>2. ASSUME NEW u \in Users, role[u] = "owner"
          PROVE  role'[u] = "owner"
      BY <1>0, <3>1, <3>2
    <3> QED
      BY <1>0, <3>1, <3>2 DEF OwnerlessOnlyByRace
  <2>4. CASE Removes(r)
    <3> DEFINE q == req[r]
    <3>1. /\ q.target \in Users /\ q.role \in Roles
          /\ q.role = "owner" => q.n > 1
      BY <2>4 DEF IndInv, RequestOK, Removes
    <3>2. /\ role' = [role EXCEPT ![q.target] = None] /\ project' = project
          /\ raced \/ role[q.target] # q.role \/ (q.role = "owner" /\ CountOwners # q.n) => raced'
      BY <2>4, Zenon DEF Removes, DeleteMember
    <3> SUFFICES ASSUME project = "live", \A u \in Users : role'[u] # "owner", ~raced
                 PROVE  raced'
      BY <3>2 DEF OwnerlessOnlyByRace
    <3>3. PICK o \in Users : role[o] = "owner"
      BY <1>0 DEF OwnerlessOnlyByRace
    <3>4. \A u \in Users : u # q.target => role[u] # "owner"
      BY <1>0, <3>1, <3>2
    <3>5. role[q.target] = "owner"
      BY <3>3, <3>4
    <3>6. CASE q.role = "owner"
      <4>1. ~(CountOwners > 1)
        BY <3>1, <3>4, AnotherOwner
      <4> QED
        BY <3>1, <3>2, <3>6, <4>1
    <3>7. CASE q.role # "owner"
      BY <3>2, <3>5, <3>7
    <3> QED
      BY <3>6, <3>7
  <2>5. CASE UNCHANGED <<project, role, raced>>
    BY <1>0, <2>5 DEF OwnerlessOnlyByRace
  <2> QED
    BY <1>1, <2>1, <2>2, <2>3, <2>4, <2>5
    DEF Effect, Reads, CleansUp, Shares, Revokes, Signs, RowsUnchanged
<1>2. CASE UNCHANGED <<project, role, raced>>
  BY <1>0, <1>2 DEF OwnerlessOnlyByRace
<1> QED
  BY <1>1, <1>2, NextCases
  DEF Crash, Upload, WriteReport, DeleteRecording, Tick, vars, projectVars

(* The objects of a deleted project.                                       *)
LEMMA BytesStep ==
  ASSUME IndInv, [Next]_vars
  PROVE  ProjectBytesExcused'
<1>0. /\ ProjectBytesExcused
      /\ req \in [Requests -> Request]
  BY DEF IndInv, TypeOK
<1>1. ASSUME NEW r \in Requests, Moves(r), Effect(r)
      PROVE  ProjectBytesExcused'
  <2>1. CASE Creates(r)
    BY <2>1 DEF Creates, CreateWithOwner, ProjectBytesExcused
  <2>2. CASE Deletes(r)
    BY <2>2 DEF Deletes, ProjectBytesExcused
  <2>3. CASE CleansUp(r)
    BY <2>3 DEF CleansUp, ProjectBytesExcused
  <2>4. CASE UNCHANGED <<project, bytes, excused>> /\ req[r].at # "cleanup"
    <3>1. ASSUME NEW s \in Requests, req[s].at = "cleanup"
          PROVE  req'[s].at = "cleanup"
      BY <1>0, <1>1, <2>4, <3>1 DEF Moves
    <3> QED
      BY <1>0, <2>4, <3>1 DEF ProjectBytesExcused
  <2>5. Reads(r) \/ Adds(r) \/ Removes(r) \/ Shares(r) \/ Revokes(r) \/ Signs(r)
          => UNCHANGED <<project, bytes, excused>> /\ req[r].at # "cleanup"
    BY DEF Reads, Adds, Removes, Shares, Revokes, Signs, RowsUnchanged, InsertMember, DeleteMember
  <2> QED
    BY <1>1, <2>1, <2>2, <2>3, <2>4, <2>5, Zenon DEF Effect
<1>2. CASE Crash
  BY <1>0, <1>2 DEF Crash, ProjectBytesExcused
<1>3. CASE Upload
  BY <1>0, <1>3 DEF Upload, ProjectBytesExcused
<1>4. CASE Tick
  <2>1. UNCHANGED <<project, bytes, excused>>
    BY <1>4 DEF Tick
  <2>2. ASSUME NEW s \in Requests PROVE req'[s].at = req[s].at
    BY <1>0, <1>4 DEF Tick, Request
  <2> QED
    BY <1>0, <2>1, <2>2 DEF ProjectBytesExcused
<1>5. CASE UNCHANGED <<project, bytes, excused, req>>
  BY <1>0, <1>5 DEF ProjectBytesExcused
<1> QED
  BY <1>1, <1>2, <1>3, <1>4, <1>5, NextCases
  DEF WriteReport, DeleteRecording, vars, projectVars

-------------------------------------------------------------------------------
(* The inductive invariant.                                                *)
LEMMA IndInit == Init => IndInv
<1> SUFFICES ASSUME Init PROVE IndInv
  OBVIOUS
<1>1. \A r \in Requests : RequestOK(req[r]) /\ ViewOK(req[r])
  BY DEF Init, Idle, RequestOK, ViewOK
<1>2. MembersOK /\ DarkOK
  BY BoundNat, SharingAssumption DEF Init, MembersOK, DarkOK, Active
<1>3. OwnerlessOnlyByRace /\ ProjectBytesExcused
  BY DEF Init, OwnerlessOnlyByRace, ProjectBytesExcused
<1> QED
  BY <1>1, <1>2, <1>3, TypeInit DEF IndInv

(* No step of a request, of the clients or of time breaks the invariant.   *)
LEMMA IndStep == IndInv /\ [Next]_vars => IndInv'
  BY TypeStep, RequestsStep, MembersStep, DarkStep, OwnersStep, BytesStep DEF IndInv

(* The invariant holds in every reachable state.                           *)
THEOREM Inductive == Spec => []IndInv
  BY IndInit, IndStep, PTL DEF Spec

-------------------------------------------------------------------------------
(* Every variable keeps its type, and a link never has more time left than *)
(* resolveExpiry allows.                                                   *)
THEOREM TypeCorrect == Spec => []TypeOK
<1>1. IndInv => TypeOK
  BY DEF IndInv
<1> QED
  BY <1>1, Inductive, PTL

(* RemoveMember keeps the last owner: however many requests add and remove *)
(* members at the same time, a live project has lost its last owner only   *)
(* if some removal acted on a role or a count that had changed since it    *)
(* read it.                                                                *)
THEOREM OwnersKept == Spec => []OwnerlessOnlyByRace
<1>1. IndInv => OwnerlessOnlyByRace
  BY DEF IndInv
<1> QED
  BY <1>1, Inductive, PTL

(* Delete leaves no object of the project behind without one of the known  *)
(* reasons.                                                                *)
THEOREM BytesCleaned == Spec => []ProjectBytesExcused
<1>1. IndInv => ProjectBytesExcused
  BY DEF IndInv
<1> QED
  BY <1>1, Inductive, PTL

(* A link stops serving frames: UrlTTL and the time of a request after it  *)
(* was revoked, has expired or was deleted, no presigned URL issued under  *)
(* it is valid.                                                            *)
THEOREM LinksGoDark == Spec => []PublicBytesExpire
<1>1. IndInv => PublicBytesExpire
  BY BoundNat, SharingAssumption DEF IndInv, TypeOK, DarkOK, PublicBytesExpire
<1> QED
  BY <1>1, Inductive, PTL

(* Whoever is told that a member, a link or a project was created or is    *)
(* gone did it in that step, and a refused request has changed nothing.    *)
THEOREM AcksAreEffects == Spec => EachAckItsOwnEffect
<1> DEFINE A ==
      /\ answer' \in {400, 403, 404, 409, 410} => UNCHANGED <<project, role, bytes, links>>
      /\ answer' = 201 => <<role, links>>' # <<role, links>>
      /\ answer' = 204 => \/ <<role, links>>' # <<role, links>>
                          \/ \E r \in Requests : req[r].at = "cleanup" /\ req'[r].at = "idle"
<1>1. ASSUME IndInv, [Next]_vars PROVE [A]_vars
  <2>0. /\ role \in [Users -> Roles \cup {None}]
        /\ links \in [Links -> [ttl: 0..MaxTTL, revoked: BOOLEAN] \cup {None}]
        /\ None \notin Roles /\ "owner" \in Roles /\ None \notin Nat
        /\ MembersOK
    BY <1>1, ProjectsAssumption DEF IndInv, TypeOK, Roles
  <2>1. ASSUME NEW r \in Requests, Effect(r)
        PROVE  A
    <3>1. CASE Reads(r)
      BY <2>0, <3>1 DEF Reads, RowsUnchanged, shareVars, Answers
    <3>2. CASE Creates(r)
      <4>1. PICK u \in Users : CreateWithOwner(u)
        BY <3>2, Zenon DEF Creates
      <4>2. role[u] = None /\ role'[u] = "owner"
        BY <2>0, <3>2, <4>1 DEF Creates, CreateWithOwner, MembersOK
      <4>3. role' # role /\ answer' \in {201, 500}
        BY <2>0, <3>2, <4>2 DEF Creates
      <4> QED
        BY <4>3
    <3>3. CASE Deletes(r)
      BY <2>0, <3>3 DEF Deletes
    <3>4. CASE CleansUp(r)
      BY <3>4 DEF CleansUp
    <3>5. CASE Adds(r)
      <4>1. /\ req[r].target \in Users /\ req[r].role \in Roles
            /\ role[req[r].target] = None
            /\ role' = [role EXCEPT ![req[r].target] = req[r].role]
            /\ answer' \in {201, 500}
        BY <1>1, <3>5 DEF IndInv, RequestOK, Adds, InsertMember
      <4>2. role' # role
        BY <2>0, <4>1
      <4> QED
        BY <4>1, <4>2
    <3>6. CASE Removes(r)
      <4>1. /\ req[r].target \in Users /\ role[req[r].target] # None
            /\ role' = [role EXCEPT ![req[r].target] = None]
            /\ answer' \in {204, 500}
        BY <1>1, <3>6 DEF IndInv, RequestOK, Removes, DeleteMember
      <4>2. role' # role
        BY <2>0, <4>1
      <4> QED
        BY <4>1, <4>2
    <3>7. CASE Shares(r)
      <4>1. PICK l \in Links :
              /\ links[l] = None
              /\ links' = [links EXCEPT ![l] = [ttl |-> req[r].ttl, revoked |-> FALSE]]
        BY <3>7 DEF Shares
      <4>2. [ttl |-> req[r].ttl, revoked |-> FALSE] \in [ttl: Nat, revoked: BOOLEAN]
        BY <1>1, <3>7, ProjectsAssumption DEF IndInv, RequestOK, Shares
      <4>3. links'[l] # None
        BY <2>0, <4>1, <4>2, SharingAssumption
      <4>4. links' # links /\ answer' \in {201, 500}
        BY <3>7, <4>1, <4>3 DEF Shares
      <4> QED
        BY <4>4
    <3>8. CASE Revokes(r)
      <4> DEFINE l == req[r].link
      <4>1. /\ l \in Links /\ links[l] # None /\ ~links[l].revoked
            /\ links' = [links EXCEPT ![l].revoked = TRUE]
            /\ answer' \in {204, 500}
        BY <1>1, <3>8 DEF IndInv, RequestOK, Revokes, Revocable
      <4>2. links[l] \in [ttl: 0..MaxTTL, revoked: BOOLEAN]
        BY <2>0, <4>1
      <4>3. links'[l].revoked = TRUE
        BY <2>0, <4>1, <4>2
      <4>4. links' # links
        BY <4>1, <4>3
      <4> QED
        BY <4>1, <4>4
    <3>9. CASE Signs(r)
      BY <3>9 DEF Signs
    <3> QED
      BY <2>1, <3>1, <3>2, <3>3, <3>4, <3>5, <3>6, <3>7, <3>8, <3>9 DEF Effect
  <2>2. CASE answer' = None
    BY <2>0, <2>2
  <2>3. CASE UNCHANGED vars
    BY <2>3
  <2>4. ASSUME Crash \/ Upload \/ WriteReport \/ DeleteRecording \/ Tick
        PROVE  answer' = None
    <3>1. Crash => answer' = None
      BY DEF Crash
    <3>2. Upload => answer' = None
      BY DEF Upload
    <3>3. WriteReport => answer' = None
      BY DEF WriteReport
    <3>4. DeleteRecording => answer' = None
      BY DEF DeleteRecording
    <3>5. Tick => answer' = None
      BY DEF Tick
    <3> QED
      BY <2>4, <3>1, <3>2, <3>3, <3>4, <3>5
  <2>5. \/ \E r \in Requests : Moves(r) /\ Effect(r)
        \/ answer' = None \/ UNCHANGED vars
    BY <1>1, <2>4, NextCases
  <2> HIDE DEF A
  <2> QED
    BY <2>1, <2>2, <2>3, <2>5
<1> QED
  BY <1>1, Inductive, PTL DEF Spec, EachAckItsOwnEffect
================================================================================
