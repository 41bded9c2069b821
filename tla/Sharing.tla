------------------------------- MODULE Sharing -------------------------------
(***************************************************************************)
(* Share links (src/internal/sharing): owners publish a READY report under *)
(* a token, anyone who has the token reads it, and a revoked or expired    *)
(* link is refused.  The view carries presigned URLs of the frames, which  *)
(* the object store honours for UrlTTL whatever happens to the link.       *)
(*                                                                         *)
(* Time is counted down: ttl is what is left of a link, url what is left   *)
(* of the youngest URL handed out under it.  A token is its link; whether  *)
(* its hash is stored instead does not matter to the look-up.              *)
(***************************************************************************)
EXTENDS Projects

CONSTANTS DefaultTTL, UrlTTL

VARIABLES
  report,  \* the report's status, None without a row
  links,   \* share_links: [ttl, revoked] or None
  url,     \* time left of the youngest presigned URL issued for a link
  dark,    \* time since the link was last active, up to the point of interest
  events   \* links whose ShareCreated event is in the outbox

shareVars == <<report, links, url, dark, events>>

\* A report is shared when it is READY; GENERATING stands for every other status.
Statuses == {"GENERATING", "READY"}

ASSUME SharingAssumption ==
  /\ DefaultTTL \in 1..MaxTTL /\ UrlTTL \in Nat \ {0}
  /\ None \notin Statuses \cup [ttl: Nat, revoked: BOOLEAN]

DarkBound == UrlTTL + MaxHold

ShareStatusOf(e) ==
  CASE e = "ErrInvalidInput" -> 400
    [] e = "ErrForbidden" -> 403
    [] e = "ErrNotFound" -> 404
    [] e = "ErrReportNotReady" -> 409
    [] e = "ErrShareInactive" -> 410
    [] OTHER -> 500

Refuse(r, e) == Reply(r, ShareStatusOf(e))

-----------------------------------------------------------------------------
\* Mutant of Active: revoked_at is not looked at.
ActiveThoughRevoked(l) == links[l] # None /\ links[l].ttl > 0

\* Neither revoked nor at or past its expiry.
Active(l) ==
  links[l] # None /\ ~links[l].revoked /\ links[l].ttl > 0

\* The handler drops a value that is not positive, and the default applies.  Its seconds
\* become nanoseconds: a value too large for 64 bits wraps to some other one, refused or not.
Requested(e) == IF e > 0 THEN e ELSE DefaultTTL

\* 0: refused.
resolveExpiry(e) == IF e > MaxTTL THEN 0 ELSE e

\* Any error of the access check, a database error too, is answered with 403.
EnsureOwner(r, u, q) ==
  \/ GetMembership(u) = "owner" /\ Becomes(r, q)
  \/ Refuse(r, "ErrForbidden")

EnsureMember(r, u, q) ==
  \/ GetMembership(u) # None /\ Becomes(r, q)
  \/ Refuse(r, "ErrForbidden")

\* The report's row, which has to be READY.  The artifacts are a second statement.
GetPublicPayload(r, q) ==
  \/ report = "READY" /\ Becomes(r, q)
  \/ report = None /\ Refuse(r, "ErrNotFound")
  \/ report \notin {None, "READY"} /\ Refuse(r, "ErrReportNotReady")

-----------------------------------------------------------------------------
(* POST .../shares                                                         *)

HandleCreateShare(r) ==
  /\ req[r].at = "idle"
  /\ \/ BadRequest(r)
     \/ \E u \in Users, e \in 0..(MaxTTL + 1) :
          EnsureOwner(r, u, [Idle EXCEPT !.at = "sharePayload", !.ttl = Requested(e)])
  /\ RowsUnchanged /\ UNCHANGED shareVars

SharePayload(r) ==
  /\ req[r].at = "sharePayload"
  /\ GetPublicPayload(r, [req[r] EXCEPT !.at = "shareArtifacts"])
  /\ RowsUnchanged /\ UNCHANGED shareVars

ShareArtifacts(r) ==
  LET ttl == resolveExpiry(req[r].ttl)
  IN /\ req[r].at = "shareArtifacts"
     /\ \/ ttl = 0 /\ Refuse(r, "ErrInvalidInput")
        \/ ttl > 0 /\ Becomes(r, [req[r] EXCEPT !.at = "shareInsert", !.ttl = ttl])
     /\ RowsUnchanged /\ UNCHANGED shareVars

\* The row and its ShareCreated event in one transaction.  Without the report's row
\* the foreign key refuses the insert, which no handler expects: a 500.
InsertShare(r) ==
  /\ req[r].at = "shareInsert"
  /\ \/ /\ report # None
        /\ \E l \in Links :
             /\ links[l] = None /\ l \notin events
             /\ links' = [links EXCEPT ![l] = [ttl |-> req[r].ttl, revoked |-> FALSE]]
             /\ dark' = [dark EXCEPT ![l] = 0]
             /\ events' = events \cup {l}
        /\ (Reply(r, 201) \/ Refuse(r, "error"))
        /\ UNCHANGED <<report, url>>
     \/ report = None /\ Refuse(r, "error") /\ UNCHANGED shareVars
  /\ RowsUnchanged

-----------------------------------------------------------------------------
(* DELETE .../shares/{id} and GET .../shares                               *)

HandleRevoke(r) ==
  /\ req[r].at = "idle"
  /\ \/ BadRequest(r)
     \/ \E u \in Users, l \in Links :
          EnsureOwner(r, u, [Idle EXCEPT !.at = "revoke", !.link = l])
  /\ RowsUnchanged /\ UNCHANGED shareVars

Revocable(l) == links[l] # None /\ ~links[l].revoked

Revoke(r) ==
  LET l == req[r].link
  IN /\ req[r].at = "revoke"
     /\ \/ /\ Revocable(l)
           /\ links' = [links EXCEPT ![l].revoked = TRUE]
           /\ (Reply(r, 204) \/ Refuse(r, "error"))
           /\ UNCHANGED <<report, url, dark, events>>
        \/ /\ ~Revocable(l)
           /\ Refuse(r, "ErrNotFound") /\ UNCHANGED shareVars
     /\ RowsUnchanged

HandleListShares(r) ==
  /\ req[r].at = "idle"
  /\ \/ BadRequest(r)
     \/ \E u \in Users : EnsureMember(r, u, [Idle EXCEPT !.at = "listShares"])
  /\ RowsUnchanged /\ UNCHANGED shareVars

ListShares(r) ==
  /\ req[r].at = "listShares"
  /\ Reply(r, 200)
  /\ RowsUnchanged /\ UNCHANGED shareVars

-----------------------------------------------------------------------------
(* GET /s/{token}: nobody is signed in.                                     *)

PublicLookup(r) ==
  /\ req[r].at = "idle"
  /\ \/ Refuse(r, "ErrInvalidInput")
     \/ Refuse(r, "error")
     \/ \E l \in Links :
          \/ links[l] = None /\ Refuse(r, "ErrNotFound")
          \/ links[l] # None /\ ~Active(l) /\ Refuse(r, "ErrShareInactive")
          \/ links[l] # None /\ Active(l) /\ Becomes(r, [Idle EXCEPT !.at = "publicPayload", !.link = l])
  /\ RowsUnchanged /\ UNCHANGED shareVars

PublicPayload(r) ==
  /\ req[r].at = "publicPayload"
  /\ GetPublicPayload(r, [req[r] EXCEPT !.at = "publicSign"])
  /\ RowsUnchanged /\ UNCHANGED shareVars

\* The artifacts and a presigned URL for each.
PublicSign(r) ==
  /\ req[r].at = "publicSign"
  /\ url' = [url EXCEPT ![req[r].link] = UrlTTL]
  /\ Reply(r, 200)
  /\ RowsUnchanged /\ UNCHANGED <<report, links, dark, events>>

ShareStatementFails(r) ==
  /\ req[r].at \in {"sharePayload", "shareArtifacts", "shareInsert", "revoke", "listShares",
                    "publicPayload", "publicSign"}
  /\ Refuse(r, "error")
  /\ RowsUnchanged /\ UNCHANGED shareVars

HandleShares(r) ==
  \/ HandleCreateShare(r) \/ HandleRevoke(r) \/ HandleListShares(r) \/ PublicLookup(r)

ServeShares(r) ==
  \/ SharePayload(r) \/ ShareArtifacts(r) \/ InsertShare(r) \/ Revoke(r) \/ ListShares(r)
  \/ PublicPayload(r) \/ PublicSign(r) \/ ShareStatementFails(r)

-----------------------------------------------------------------------------
(* The AI worker writes the report; deleting the recording, or the         *)
(* project, deletes the report and its links.                              *)

WriteReport ==
  /\ project = "live"
  /\ \E s \in Statuses : report # s /\ report' = s
  /\ answer' = None
  /\ UNCHANGED <<project, role, bytes, req, raced, excused, links, url, dark, events>>

CascadeReport ==
  /\ report' = None
  /\ links' = [l \in Links |-> None]
  /\ UNCHANGED <<url, dark, events>>

DeleteRecording ==
  /\ report # None
  /\ CascadeReport
  /\ answer' = None
  /\ UNCHANGED <<project, role, bytes, req, raced, excused>>

\* A request past the link's check is served within MaxHold.
Tick ==
  /\ \A r \in Requests : req[r].at \in {"publicPayload", "publicSign"} => req[r].held < MaxHold
  /\ req' = [r \in Requests |->
               IF req[r].at \in {"publicPayload", "publicSign"}
               THEN [req[r] EXCEPT !.held = @ + 1] ELSE req[r]]
  /\ links' = [l \in Links |->
                 IF links[l] # None /\ links[l].ttl > 0 THEN [links[l] EXCEPT !.ttl = @ - 1] ELSE links[l]]
  /\ url' = [l \in Links |-> IF url[l] > 0 THEN url[l] - 1 ELSE 0]
  /\ dark' = [l \in Links |->
                IF links[l] # None /\ ~links[l].revoked /\ links[l].ttl > 0 THEN 0
                ELSE IF dark[l] < DarkBound THEN dark[l] + 1 ELSE dark[l]]
  /\ answer' = None
  /\ UNCHANGED <<project, role, bytes, raced, excused, report, events>>
=============================================================================
