------------------------------- MODULE Sessions -------------------------------
(***************************************************************************)
(* Sign-in sessions of one user: the rows of refresh_tokens, the requests  *)
(* that issue, rotate and revoke them, and the web client, whose tabs      *)
(* share the tokens of their browser in localStorage.                      *)
(*                                                                         *)
(*   internal/auth/service/service.go            the operations            *)
(*   internal/auth/adapter/postgres/postgres.go  the SQL statements        *)
(*   web/src/api/client.ts                       refreshAccess, logout     *)
(*   web/src/auth/AuthContext.tsx                login, register, boot     *)
(*                                                                         *)
(* Every SQL statement or transaction is one step, and so is every read or *)
(* write of localStorage; a tab runs one of these calls at a time, another *)
(* tab of the same browser may run another (the two also stand for a       *)
(* refresh and a sign-out that one tab has in flight together).            *)
(* RevokeAllForUser is two steps: an UPDATE does not see rows that are     *)
(* committed after it began.                                               *)
(*                                                                         *)
(* The clock is the one of the API server.  Refresh reads it once, when it *)
(* starts, and writes what it read to revoked_at however long its          *)
(* transaction waits: a request keeps the time (now), and whether its      *)
(* token had expired then (dated).  A token may expire at any time.        *)
(* Access tokens are not modelled: no state is kept for them.              *)
(***************************************************************************)
EXTENDS Integers, FiniteSets

CONSTANTS Browsers,    \* places with a localStorage
          Tabs,        \* tabs of the web client
          Home,        \* the browser of each tab
          Grace,       \* reuseGrace
          MaxClock,    \* bound: ticks of the clock
          MaxTokens,   \* bound: refresh tokens issued
          MaxExpiries, \* bound: tokens that expire before they are revoked
          MaxFaults    \* bound: lost replies, closed tabs and failed statements

ASSUME SessionAssumption ==
  /\ Home \in [Tabs -> Browsers]
  /\ Grace \in Nat
  /\ MaxClock \in Nat
  /\ MaxTokens \in Nat
  /\ MaxExpiries \in Nat
  /\ MaxFaults \in Nat

Tokens == 1 .. MaxTokens

None == 0

NULL == -1

VARIABLES
  account,     \* the row of users exists
  issued,      \* rows of refresh_tokens so far
  origin,      \* history: the first token of each token's session
  revokedAt,   \* revoked_at of each token
  clock,       \* s.now()
  expired,     \* tokens whose expires_at has passed
  store,       \* bs_refresh of each browser
  pc,          \* where the call of each tab is
  held,        \* the token a call was made with, or was answered with
  now,         \* the time a request read
  dated,       \* tabs whose call read a time after its token expired
  doomed,      \* the rows RevokeAllForUser found
  swept,       \* history: tokens that RevokeAllForUser revoked
  taken,       \* history: tokens that a call of each browser rotated or revoked
  overlapped,  \* history: tabs whose call met another one of their browser
  faulted,     \* history: browsers with a fault
  late,        \* history: see Overdue
  faults       \* faults so far

revokeVars == <<revokedAt, swept, taken>>
tokenVars == <<account, issued, origin, revokeVars>>
clockVars == <<clock, expired, late>>
readVars  == <<now, dated>>
faultVars == <<faulted, faults>>
vars == <<account, issued, origin, revokedAt, swept, taken, clock, expired,
          store, pc, held, now, dated, doomed, overlapped, faulted, late, faults>>

live == {t \in 1 .. issued : revokedAt[t] = NULL}

PCs == {"idle", "create", "issue", "arrive", "rotate", "find", "scan",
        "revokeAll", "refused", "answered", "lookup", "revoke", "out"}

Goto(tab, l) == pc' = [pc EXCEPT ![tab] = l]

Hold(tab, t) == held' = [held EXCEPT ![tab] = t]

SetStore(tab, t) == store' = [store EXCEPT ![Home[tab]] = t]

Busy(b) == {tab \in Tabs : Home[tab] = b /\ pc[tab] # "idle"}

(* A tab starts a call; its browser may have another one in flight.        *)
Begin(tab, l) ==
  /\ pc[tab] = "idle"
  /\ Goto(tab, l)
  /\ overlapped' = IF Busy(Home[tab]) = {} THEN overlapped
                   ELSE overlapped \cup Busy(Home[tab]) \cup {tab}
  /\ UNCHANGED <<tokenVars, clockVars, store, readVars, doomed, faultVars>>

(* The request reads the clock ... *)
ReadClock(tab) == now' = [now EXCEPT ![tab] = clock]

(* ... and no longer needs what it read. *)
Forget(tab) == now' = [now EXCEPT ![tab] = 0]

End(tab) ==
  /\ Goto(tab, "idle")
  /\ Hold(tab, None)
  /\ Forget(tab)
  /\ dated' = dated \ {tab}
  /\ doomed' = [doomed EXCEPT ![tab] = {}]
  /\ overlapped' = overlapped \ {tab}

Fault(tab) ==
  /\ faults < MaxFaults
  /\ faults' = faults + 1
  /\ faulted' = faulted \cup {Home[tab]}

Init ==
  /\ account = FALSE
  /\ issued = 0
  /\ origin = [t \in Tokens |-> None]
  /\ revokedAt = [t \in Tokens |-> NULL]
  /\ clock = 0
  /\ expired = {}
  /\ store = [b \in Browsers |-> None]
  /\ pc = [tab \in Tabs |-> "idle"]
  /\ held = [tab \in Tabs |-> None]
  /\ now = [tab \in Tabs |-> 0]
  /\ dated = {}
  /\ doomed = [tab \in Tabs |-> {}]
  /\ swept = {}
  /\ taken = [b \in Browsers |-> {}]
  /\ overlapped = {} /\ faulted = {}
  /\ late = FALSE
  /\ faults = 0

-------------------------------------------------------------------------------
(* Signing up and in.                                                      *)

(* FindByEmail found nobody. *)
Register(tab) ==
  /\ ~account
  /\ Begin(tab, "create")
  /\ UNCHANGED held

(* INSERT INTO users, or ErrEmailTaken when another request was faster.    *)
CreateUser(tab) ==
  /\ pc[tab] = "create"
  /\ account' = TRUE
  /\ Goto(tab, IF account THEN "idle" ELSE "issue")
  /\ overlapped' = IF account THEN overlapped \ {tab} ELSE overlapped
  /\ UNCHANGED <<issued, origin, revokeVars, clockVars, store, held, readVars,
                 doomed, faultVars>>

Login(tab) ==
  /\ account
  /\ Begin(tab, "issue")
  /\ UNCHANGED held

(* A new row of refresh_tokens in the session that starts with token o.    *)
Insert(n, o) ==
  /\ n \in Tokens
  /\ issued' = n
  /\ origin' = [origin EXCEPT ![n] = o]

(* issuePair *)
IssuePair(tab) ==
  /\ pc[tab] = "issue"
  /\ Insert(issued + 1, issued + 1)
  /\ Hold(tab, issued + 1)
  /\ Goto(tab, "answered")
  /\ UNCHANGED <<account, revokeVars, clockVars, store, readVars, doomed,
                 overlapped, faultVars>>

-------------------------------------------------------------------------------
(* Refreshing.                                                             *)

(* refreshAccess, once per tab: the token is read from localStorage.       *)
RefreshAccess(tab) ==
  /\ store[Home[tab]] # None
  /\ Begin(tab, "arrive")
  /\ Hold(tab, store[Home[tab]])

(* Service.Refresh reads the clock. *)
Refresh(tab) ==
  /\ pc[tab] = "arrive"
  /\ Goto(tab, "rotate")
  /\ ReadClock(tab)
  /\ dated' = IF held[tab] \in expired THEN dated \cup {tab} ELSE dated
  /\ UNCHANGED <<tokenVars, clockVars, store, held, doomed, overlapped,
                 faultVars>>

(* Mutant of Rotatable: without revoked_at IS NULL.                        *)
RotatableTwice(tab) == tab \notin dated

(* WHERE clause of Rotate. *)
Rotatable(tab) == held[tab] \in live /\ tab \notin dated

(* The call revokes its token, if nobody has revoked it before.            *)
Take(tab) ==
  taken' = [taken EXCEPT ![Home[tab]] = @ \cup ({held[tab]} \cap live)]

(* The transaction of Rotate: the token is revoked, its successor added.   *)
Rotated(tab) ==
  /\ Rotatable(tab)
  /\ Insert(issued + 1, origin[held[tab]])
  /\ revokedAt' = [revokedAt EXCEPT ![held[tab]] = now[tab]]
  /\ Take(tab)
  /\ UNCHANGED swept

Rotate(tab) ==
  /\ pc[tab] = "rotate"
  /\ Rotated(tab)
  /\ Hold(tab, issued + 1)
  /\ Forget(tab)
  /\ Goto(tab, "answered")
  /\ UNCHANGED <<account, clockVars, store, dated, doomed, overlapped, faultVars>>

(* ErrUnauthorized *)
RotateRefused(tab) ==
  /\ pc[tab] = "rotate"
  /\ ~Rotatable(tab)
  /\ Goto(tab, "find")
  /\ UNCHANGED <<tokenVars, clockVars, store, held, readVars, doomed, overlapped,
                 faultVars>>

(* The transaction fails, or its COMMIT succeeds and the reply is lost.    *)
RotateError(tab) ==
  /\ pc[tab] = "rotate"
  /\ Fault(tab)
  /\ \/ Rotated(tab)
     \/ UNCHANGED <<issued, origin, revokeVars>>
  /\ Goto(tab, "find")
  /\ UNCHANGED <<account, clockVars, store, held, readVars, doomed, overlapped>>

(* Mutant of Reused: no grace period.                                      *)
ReusedAtOnce(tab) == held[tab] \notin live

(* revokeFamilyOnReuse: revoked, and longer ago than the grace period.     *)
Reused(tab) == held[tab] \notin live /\ now[tab] - revokedAt[held[tab]] > Grace

FindByHash(tab) ==
  /\ pc[tab] = "find"
  /\ IF Reused(tab) THEN Goto(tab, "scan") /\ UNCHANGED now
                    ELSE Goto(tab, "refused") /\ Forget(tab)
  /\ UNCHANGED <<tokenVars, clockVars, store, held, dated, doomed, overlapped,
                 faultVars>>

(* RevokeAllForUser takes its snapshot ...                                 *)
ScanForUser(tab) ==
  /\ pc[tab] = "scan"
  /\ doomed' = [doomed EXCEPT ![tab] = live]
  /\ Goto(tab, "revokeAll")
  /\ UNCHANGED <<tokenVars, clockVars, store, held, readVars, overlapped,
                 faultVars>>

(* ... and updates the rows of it that are still not revoked.              *)
RevokeAllForUser(tab) ==
  /\ pc[tab] = "revokeAll"
  /\ revokedAt' = [t \in Tokens |-> IF t \in doomed[tab] \cap live THEN now[tab]
                                    ELSE revokedAt[t]]
  /\ swept' = swept \cup (doomed[tab] \cap live)
  /\ doomed' = [doomed EXCEPT ![tab] = {}]
  /\ Goto(tab, "refused")
  /\ Forget(tab)
  /\ UNCHANGED <<account, issued, origin, taken, clockVars, store, held, dated,
                 overlapped, faultVars>>

-------------------------------------------------------------------------------
(* Answers.                                                                *)

(* setTokens *)
StoreTokens(tab) ==
  /\ pc[tab] = "answered"
  /\ SetStore(tab, held[tab])
  /\ End(tab)
  /\ UNCHANGED <<tokenVars, clockVars, faultVars>>

(* !res.ok: whatever the status is, the browser's tokens are removed.      *)
ClearStore(tab) ==
  /\ pc[tab] = "refused"
  /\ SetStore(tab, None)
  /\ End(tab)
  /\ UNCHANGED <<tokenVars, clockVars, faultVars>>

(* The request or its answer is lost, a statement of it fails or the tab   *)
(* is closed, also in the middle of a sign-out.  The error of a request    *)
(* made by boot removes the tokens.                                        *)
Lose(tab) ==
  /\ pc[tab] # "idle"
  /\ Fault(tab)
  /\ \/ UNCHANGED store
     \/ pc[tab] \notin {"lookup", "revoke", "out"} /\ SetStore(tab, None)
  /\ End(tab)
  /\ UNCHANGED <<tokenVars, clockVars>>

-------------------------------------------------------------------------------
(* Signing out.                                                            *)

Logout(tab) ==
  /\ store[Home[tab]] # None
  /\ Begin(tab, "lookup")
  /\ Hold(tab, store[Home[tab]])

(* lookupRefresh: an inactive token needs no revocation.  The time of the  *)
(* revocation is read as soon as the row is.                               *)
LookupRefresh(tab) ==
  /\ pc[tab] = "lookup"
  /\ IF held[tab] \in live \ expired THEN ReadClock(tab) /\ Goto(tab, "revoke")
                                      ELSE UNCHANGED now /\ Goto(tab, "out")
  /\ UNCHANGED <<tokenVars, clockVars, store, held, dated, doomed, overlapped,
                 faultVars>>

(* Mutant of RevokeOne: the row is not touched.                            *)
RevokeNone(t, at) == UNCHANGED revokedAt

(* A row that is revoked already keeps its time.                           *)
RevokeOne(t, at) ==
  revokedAt' = [revokedAt EXCEPT ![t] = IF t \in live THEN at ELSE @]

(* Revoke; zero rows affected is success as well.                          *)
Revoke(tab) ==
  /\ pc[tab] = "revoke"
  /\ RevokeOne(held[tab], now[tab])
  /\ Take(tab)
  /\ Goto(tab, "out")
  /\ Forget(tab)
  /\ UNCHANGED <<account, issued, origin, swept, clockVars, store, held, dated,
                 doomed, overlapped, faultVars>>

(* api.logout ignores errors. *)
LogoutError(tab) ==
  /\ pc[tab] \in {"lookup", "revoke"}
  /\ Fault(tab)
  /\ Goto(tab, "out")
  /\ Forget(tab)
  /\ UNCHANGED <<tokenVars, clockVars, store, held, dated, doomed, overlapped>>

(* Mutant of SignOut: the tokens stay in localStorage.                     *)
SignOutOnly(tab) ==
  /\ pc[tab] = "out"
  /\ UNCHANGED store
  /\ End(tab)
  /\ UNCHANGED <<tokenVars, clockVars, faultVars>>

SignOut(tab) ==
  /\ pc[tab] = "out"
  /\ SetStore(tab, None)
  /\ End(tab)
  /\ UNCHANGED <<tokenVars, clockVars, faultVars>>

-------------------------------------------------------------------------------
(* Time.                                                                   *)

(* The expiry of a token that was revoked before changes nothing.          *)
Expire(t) ==
  /\ t \in live \ expired
  /\ Cardinality(expired) < MaxExpiries
  /\ expired' = expired \cup {t}
  /\ UNCHANGED <<tokenVars, clock, late, store, pc, held, readVars, doomed,
                 overlapped, faultVars>>

(* At time c a tab or a browser still has a token whose grace has ended,   *)
(* or a request has waited longer than the grace period to revoke one.     *)
Overdue(c) ==
  \/ \E t \in 1 .. issued \ live :
       /\ c - revokedAt[t] > Grace
       /\ \/ \E b \in Browsers : store[b] = t
          \/ \E tab \in Tabs : held[tab] = t
  \/ \E tab \in Tabs : pc[tab] \in {"rotate", "revoke"} /\ c - now[tab] > Grace

Tick ==
  /\ clock < MaxClock
  /\ clock' = clock + 1
  /\ late' = (late \/ Overdue(clock + 1))
  /\ UNCHANGED <<tokenVars, expired, store, pc, held, readVars, doomed,
                 overlapped, faultVars>>

-------------------------------------------------------------------------------
Next ==
  \/ \E tab \in Tabs :
       \/ Register(tab) \/ CreateUser(tab) \/ Login(tab) \/ IssuePair(tab)
       \/ RefreshAccess(tab) \/ Refresh(tab)
       \/ Rotate(tab) \/ RotateRefused(tab) \/ RotateError(tab)
       \/ FindByHash(tab) \/ ScanForUser(tab) \/ RevokeAllForUser(tab)
       \/ StoreTokens(tab) \/ ClearStore(tab) \/ Lose(tab)
       \/ Logout(tab) \/ LookupRefresh(tab) \/ Revoke(tab)
       \/ LogoutError(tab) \/ SignOut(tab)
  \/ \E t \in Tokens : Expire(t)
  \/ Tick

Spec == Init /\ [][Next]_vars

-------------------------------------------------------------------------------
(* Types of all variables; no token is revoked in the future.              *)
TypeOK ==
  /\ account \in BOOLEAN
  /\ issued \in 0 .. MaxTokens
  /\ origin \in [Tokens -> 0 .. MaxTokens]
  /\ clock \in 0 .. MaxClock
  /\ revokedAt \in [Tokens -> NULL .. clock]
  /\ expired \subseteq 1 .. issued
  /\ store \in [Browsers -> 0 .. issued]
  /\ pc \in [Tabs -> PCs]
  /\ held \in [Tabs -> 0 .. issued]
  /\ now \in [Tabs -> 0 .. clock]
  /\ dated \subseteq Tabs
  /\ doomed \in [Tabs -> SUBSET (1 .. issued)]
  /\ swept \subseteq 1 .. issued
  /\ taken \in [Browsers -> SUBSET (1 .. issued)]
  /\ overlapped \subseteq Tabs
  /\ faulted \subseteq Browsers
  /\ late \in BOOLEAN
  /\ faults \in 0 .. MaxFaults

(* ADR 0029, no double rotation: however many tabs refresh with the same   *)
(* token, and whatever transactions err, a session has at most one token   *)
(* that can be redeemed.                                                   *)
OneLiveToken ==
  \A t, u \in live : origin[t] = origin[u] => t = u

(* ADR 0032, the grace window: the sessions of the user are revoked only   *)
(* if some browser was still about to use a token when its grace ended, or *)
(* the server was that slow to revoke one.  Tabs that refresh at the same  *)
(* time never cause it by themselves.                                      *)
NoUnprovokedRevocation ==
  \A tab \in Tabs : pc[tab] \in {"scan", "revokeAll"} => late

(* A call of the browser rotated or revoked the token that tab presents,   *)
(* and was not over, or began, while tab's own call was in flight.         *)
LostRace(tab) == tab \in overlapped /\ held[tab] \in taken[Home[tab]]

(* A refresh is refused, and the browser signed out, only if its token had *)
(* expired when the request came, if the sessions of the user were revoked *)
(* with it, if a call of the browser failed before, or if it lost a race   *)
(* against another call of its own browser.  Only such a race makes a      *)
(* browser drop tokens that are not the refused ones.                      *)
RefusedForAReason ==
  \A tab \in Tabs :
    pc[tab] = "refused" =>
      /\ \/ tab \in dated
         \/ held[tab] \in swept
         \/ Home[tab] \in faulted
         \/ LostRace(tab)
      /\ tab \in overlapped \/ store[Home[tab]] = held[tab]

(* Signing out ends the session, not only its current token, unless        *)
(* another call of the browser was in flight meanwhile, or one had failed. *)
LogoutEndsSession ==
  \A tab \in Tabs :
    pc[tab] = "out" /\ tab \notin overlapped /\ Home[tab] \notin faulted =>
      \A t \in live : origin[t] = origin[held[tab]] => t \in expired
===============================================================================
