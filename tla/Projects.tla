------------------------------- MODULE Projects -------------------------------
(***************************************************************************)
(* Projects and their members (src/internal/projects): the HTTP handlers,  *)
(* the service and its SQL statements, for one project.  A request runs    *)
(* in a slot of its own and is cut at every statement: what it read before *)
(* a statement may be stale when the next one runs.  A statement may fail, *)
(* and a write that took effect may lose its reply, because the client     *)
(* went away (the statements run under the request's context) or the       *)
(* connection broke.                                                       *)
(*                                                                         *)
(* The project's name is data: Update goes through its statements and      *)
(* changes nothing that is modelled.                                       *)
(***************************************************************************)
EXTENDS Naturals, FiniteSets

CONSTANTS Users, Requests, Links, MaxTTL, MaxHold, None


VARIABLES
  project,  \* the project's row: "none", "live" or "gone"
  role,     \* project_members: a user's role, None without a row
  bytes,    \* some object exists under projects/<id>/
  req,      \* the requests in flight
  answer,   \* what the last step answered, None if it answered nothing
  raced,    \* history: a member was removed on the strength of a stale read
  excused   \* history: an object was left behind for a known reason

projectVars == <<project, role, bytes, req, answer, raced, excused>>

Roles == {"owner", "member"}

\* There are finitely many users, and None is a value of no column.
ASSUME ProjectsAssumption ==
  /\ IsFiniteSet(Users)
  /\ MaxTTL \in Nat /\ MaxHold \in Nat
  /\ None \notin Users \cup Links \cup Roles \cup Nat

Steps == {"idle", "get", "list", "updateGet", "update", "delete", "cleanup", "add",
          "target", "count", "remove", "sharePayload", "shareArtifacts", "shareInsert",
          "revoke", "listShares", "publicPayload", "publicSign"}

\* A request: the statement it is about to run and the values it still needs.
Request == [at: Steps, target: Users \cup {None}, role: Roles \cup {None},
            n: Nat, link: Links \cup {None}, ttl: Nat, held: Nat]

Idle == [at |-> "idle", target |-> None, role |-> None, n |-> 0,
         link |-> None, ttl |-> 0, held |-> 0]

\* The handlers' answer to each error of the domain packages; any other error is a 500.
StatusOf(e) ==
  CASE e \in {"ErrInvalidName", "ErrInvalidRole"} -> 400
    [] e = "ErrForbidden" -> 403
    [] e = "ErrNotFound" -> 404
    [] e \in {"ErrAlreadyMember", "ErrLastOwner"} -> 409
    [] OTHER -> 500

-----------------------------------------------------------------------------
(* A request's bookkeeping.                                                *)

Becomes(r, q) ==
  /\ req' = [req EXCEPT ![r] = q]
  /\ answer' = None

Proceed(r, at) == Becomes(r, [req[r] EXCEPT !.at = at])

Reply(r, status) ==
  /\ req' = [req EXCEPT ![r] = Idle]
  /\ answer' = status

Fail(r, e) == Reply(r, StatusOf(e))

\* An id, a role or a JSON body that does not parse.
BadRequest(r) == Reply(r, 400)

RowsUnchanged == UNCHANGED <<project, role, bytes, raced, excused>>

-----------------------------------------------------------------------------
(* The repository's statements.                                            *)

GetMembership(u) == role[u]

CountOwners == Cardinality({u \in Users : role[u] = "owner"})

GetByID == project = "live"

\* One transaction for the row and its first owner.
CreateWithOwner(u) ==
  /\ project' = "live"
  /\ role' = [role EXCEPT ![u] = "owner"]
  /\ UNCHANGED <<bytes, raced, excused>>

\* DELETE FROM projects, which cascades to every row of the project.
DeleteRow ==
  /\ project' = "gone"
  /\ role' = [u \in Users |-> None]
  /\ UNCHANGED <<bytes, raced>>

InsertMember(u, ro) ==
  /\ role' = [role EXCEPT ![u] = ro]
  /\ UNCHANGED <<project, bytes, raced, excused>>

\* A removal acts on what was read: the target's role and, for an owner, the count.
DeleteMember(r) ==
  LET q == req[r]
      stale == role[q.target] # q.role \/ (q.role = "owner" /\ CountOwners # q.n)
  IN /\ role' = [role EXCEPT ![q.target] = None]
     /\ raced' = (raced \/ stale)
     /\ UNCHANGED <<project, bytes, excused>>

-----------------------------------------------------------------------------
(* requireMember and requireOwner: the first statement of a request by     *)
(* user u.  Whoever passes goes on as q, and is not asked again.           *)

requireMember(r, u, q) ==
  /\ RowsUnchanged
  /\ \/ GetMembership(u) # None /\ Becomes(r, q)
     \/ GetMembership(u) = None /\ Fail(r, "ErrForbidden")
     \/ Fail(r, "error")

requireOwner(r, u, q) ==
  /\ RowsUnchanged
  /\ \/ GetMembership(u) = "owner" /\ Becomes(r, q)
     \/ GetMembership(u) # "owner" /\ Fail(r, "ErrForbidden")
     \/ Fail(r, "error")

-----------------------------------------------------------------------------
(* The service's operations, each from its first statement to its last.    *)

\* The name is trimmed and must not be empty.
NewProject(name) == name # "blank"

Create(r, u, name) ==
  \/ ~NewProject(name) /\ Fail(r, "ErrInvalidName") /\ RowsUnchanged
  \/ NewProject(name) /\ CreateWithOwner(u) /\ (Reply(r, 201) \/ Fail(r, "error"))
  \/ NewProject(name) /\ Fail(r, "error") /\ RowsUnchanged

Get(r) ==
  /\ req[r].at = "get"
  /\ \/ GetByID /\ Reply(r, 200)
     \/ ~GetByID /\ Fail(r, "ErrNotFound")
  /\ RowsUnchanged

UpdateGet(r) ==
  /\ req[r].at = "updateGet"
  /\ \/ GetByID /\ Proceed(r, "update")
     \/ ~GetByID /\ Fail(r, "ErrNotFound")
  /\ RowsUnchanged

Update(r) ==
  /\ req[r].at = "update"
  /\ \/ GetByID /\ Reply(r, 200)
     \/ ~GetByID /\ Fail(r, "ErrNotFound")
  /\ RowsUnchanged

\* Mutant of Delete: the answer is given without the clean-up.
DeleteNoCleanup(r) ==
  /\ req[r].at = "delete"
  /\ \/ project = "live" /\ DeleteRow /\ Reply(r, 204) /\ UNCHANGED excused
     \/ project # "live" /\ Fail(r, "ErrNotFound") /\ RowsUnchanged

\* The row goes first, then the objects.  If the reply to the DELETE is lost the
\* objects are not touched, and a retry by the owner is refused.
Delete(r) ==
  /\ req[r].at = "delete"
  /\ \/ /\ project = "live" /\ DeleteRow
        /\ \/ Proceed(r, "cleanup") /\ UNCHANGED excused
           \/ Fail(r, "error") /\ excused' = TRUE
     \/ project # "live" /\ Fail(r, "ErrNotFound") /\ RowsUnchanged

\* DeletePrefix is best effort: its error is logged and the answer stays 204.
Cleanup(r) ==
  /\ req[r].at = "cleanup"
  /\ Reply(r, 204)
  /\ \/ bytes' = FALSE /\ UNCHANGED excused
     \/ excused' = TRUE /\ UNCHANGED bytes
  /\ UNCHANGED <<project, role, raced>>

AddMember(r) ==
  LET q == req[r]
  IN /\ q.at = "add"
     /\ \/ project # "live" /\ Fail(r, "ErrNotFound") /\ RowsUnchanged
        \/ /\ project = "live" /\ role[q.target] # None
           /\ Fail(r, "ErrAlreadyMember") /\ RowsUnchanged
        \/ /\ project = "live" /\ role[q.target] = None /\ InsertMember(q.target, q.role)
           /\ (Reply(r, 201) \/ Fail(r, "error"))

RemoveTarget(r) ==
  LET found == GetMembership(req[r].target)
  IN /\ req[r].at = "target"
     /\ \/ found = None /\ Fail(r, "ErrNotFound")
        \/ found = "owner" /\ Becomes(r, [req[r] EXCEPT !.at = "count", !.role = found])
        \/ found = "member" /\ Becomes(r, [req[r] EXCEPT !.at = "remove", !.role = found])
     /\ RowsUnchanged

\* Mutant of RemoveCount: an owner may go if one is left.
RemoveCountOffByOne(r) ==
  /\ req[r].at = "count"
  /\ \/ CountOwners < 1 /\ Fail(r, "ErrLastOwner")
     \/ CountOwners >= 1 /\ Becomes(r, [req[r] EXCEPT !.at = "remove", !.n = CountOwners])
  /\ RowsUnchanged

RemoveCount(r) ==
  /\ req[r].at = "count"
  /\ \/ CountOwners <= 1 /\ Fail(r, "ErrLastOwner")
     \/ CountOwners > 1 /\ Becomes(r, [req[r] EXCEPT !.at = "remove", !.n = CountOwners])
  /\ RowsUnchanged

\* Mutant of RemoveMember: the number of deleted rows is not looked at.
RemoveMemberUnchecked(r) ==
  /\ req[r].at = "remove"
  /\ DeleteMember(r) /\ Reply(r, 204)

RemoveMember(r) ==
  /\ req[r].at = "remove"
  /\ \/ role[req[r].target] = None /\ Fail(r, "ErrNotFound") /\ RowsUnchanged
     \/ role[req[r].target] # None /\ DeleteMember(r) /\ (Reply(r, 204) \/ Fail(r, "error"))

\* The page itself is the subject of the module Paging.
ListMembers(r) == req[r].at = "list" /\ Reply(r, 200) /\ RowsUnchanged

-----------------------------------------------------------------------------
(* The handlers.  Create is called once: every call makes a new project,   *)
(* and one project is modelled.                                            *)

HandleCreate(r) ==
  /\ req[r].at = "idle" /\ project = "none"
  /\ \/ BadRequest(r) /\ RowsUnchanged
     \/ \E u \in Users, name \in {"blank", "name"} : Create(r, u, name)

HandleGet(r) ==
  /\ req[r].at = "idle"
  /\ \/ BadRequest(r) /\ RowsUnchanged
     \/ \E u \in Users : requireMember(r, u, [Idle EXCEPT !.at = "get"])

\* The name is checked after the owner.
HandleUpdate(r) ==
  /\ req[r].at = "idle"
  /\ \/ BadRequest(r) /\ RowsUnchanged
     \/ \E u \in Users : requireOwner(r, u, [Idle EXCEPT !.at = "updateGet"])
     \/ /\ \E u \in Users : GetMembership(u) = "owner"
        /\ Fail(r, "ErrInvalidName") /\ RowsUnchanged

HandleDelete(r) ==
  /\ req[r].at = "idle"
  /\ \/ BadRequest(r) /\ RowsUnchanged
     \/ \E u \in Users : requireOwner(r, u, [Idle EXCEPT !.at = "delete"])

HandleListMembers(r) ==
  /\ req[r].at = "idle"
  /\ \/ BadRequest(r) /\ RowsUnchanged
     \/ \E u \in Users : requireMember(r, u, [Idle EXCEPT !.at = "list"])

\* A role that is neither "owner" nor "member" is refused, after the owner check;
\* no role at all means "member".
ParseRole(s) ==
  CASE s \in Roles -> s [] s = "unset" -> "member" [] OTHER -> None

HandleAddMember(r) ==
  /\ req[r].at = "idle"
  /\ \/ BadRequest(r) /\ RowsUnchanged
     \/ \E u, t \in Users, s \in {"owner", "member", "unset"} :
          requireOwner(r, u, [Idle EXCEPT !.at = "add", !.target = t, !.role = ParseRole(s)])
     \/ /\ ParseRole("other") = None /\ \E u \in Users : GetMembership(u) = "owner"
        /\ Fail(r, "ErrInvalidRole") /\ RowsUnchanged

HandleRemoveMember(r) ==
  /\ req[r].at = "idle"
  /\ \/ BadRequest(r) /\ RowsUnchanged
     \/ \E u, t \in Users : requireOwner(r, u, [Idle EXCEPT !.at = "target", !.target = t])

\* A statement fails and had no effect, or the request's context has ended.
StatementFails(r) ==
  /\ req[r].at \in {"get", "list", "updateGet", "update", "delete", "add", "target", "count", "remove"}
  /\ Fail(r, "error") /\ RowsUnchanged

\* The API process dies: the requests in flight end without an answer.
Crash ==
  /\ \E r \in Requests : req[r].at # "idle"
  /\ req' = [r \in Requests |-> Idle]
  /\ answer' = None
  /\ excused' = (excused \/ \E r \in Requests : req[r].at = "cleanup")
  /\ UNCHANGED <<project, role, bytes, raced>>

\* An upload (a recording, its frames) reaches the bucket; the presigned URL and
\* the media worker outlive the project's row.
Upload ==
  /\ project # "none"
  /\ bytes' = TRUE
  /\ excused' = (excused \/ project = "gone")
  /\ answer' = None
  /\ UNCHANGED <<project, role, req, raced>>

HandleProjects(r) ==
  \/ HandleCreate(r) \/ HandleGet(r) \/ HandleUpdate(r) \/ HandleDelete(r)
  \/ HandleListMembers(r) \/ HandleAddMember(r) \/ HandleRemoveMember(r)

ServeProjects(r) ==
  \/ Get(r) \/ UpdateGet(r) \/ Update(r) \/ Cleanup(r) \/ AddMember(r)
  \/ RemoveTarget(r) \/ RemoveCount(r) \/ RemoveMember(r) \/ ListMembers(r)
  \/ StatementFails(r)
=============================================================================
