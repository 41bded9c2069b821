------------------------------- MODULE Listing -------------------------------
(***************************************************************************)
(* A client walks through a list page by page: every request passes the    *)
(* rate limit, and the client tries again when it is refused or an error   *)
(* is answered.  Rows come and go meanwhile, and other requests from the   *)
(* same address use the same limit.                                        *)
(*                                                                         *)
(* The request Walker belongs to the walk, which comes from Home; the      *)
(* other requests are traffic, at most MaxTraffic of it.                   *)
(***************************************************************************)
EXTENDS RateLimit, Paging

CONSTANTS Walker, Home, MaxTraffic,
          Raw  \* the values of the query parameter limit

ASSUME ListingAssumption ==
  /\ Walker \in Requests /\ Home \in Addresses \ Trusted
  /\ Raw \ {Nil} \subseteq Int

VARIABLES
  list,     \* the list that is walked
  walk,     \* [cursor, got, ended]: the client's cursor and the rows it has been given
  kept,     \* history: the rows that were there at the first page and have stayed
  traffic   \* other requests sent

listingVars == <<limitVars, req, faults, rows, list, walk, kept, traffic>>

InitListing ==
  /\ InitLimit
  /\ list \in Lists
  /\ rows \in SUBSET Key
  /\ walk = [cursor |-> Nil, got |-> <<>>, ended |-> FALSE]
  /\ kept = rows
  /\ traffic = 0

WalkUnchanged == UNCHANGED <<rows, list, walk, kept>>

Send ==
  /\ ~walk.ended
  /\ Arrive(Walker, Home)
  /\ WalkUnchanged /\ UNCHANGED traffic

SendOther(q) ==
  /\ q # Walker /\ traffic < MaxTraffic
  /\ traffic' = traffic + 1
  /\ Arrive(q, Home)
  /\ WalkUnchanged

CheckLimit(q) == Limit(q) /\ WalkUnchanged /\ UNCHANGED traffic

Done(q) == req' = [req EXCEPT ![q] = Idle] /\ UNCHANGED limitVars

\* The handler's page of the list: what is there now, after the client's cursor.
ServePage ==
  /\ req[Walker].at = "list"
  /\ Done(Walker)
  /\ \E page \in {Parse(raw, walk.cursor) : raw \in Raw} : \E result \in {List(list, page)} :
       walk' = [cursor |-> result.next, got |-> walk.got \o result.items, ended |-> result.next = Nil]
  /\ UNCHANGED <<rows, list, kept, faults, traffic>>

\* The services refuse who is not, or not now, seen to be a member, and whose report is
\* not in the project; a damaged cursor and a failing query are an error.
ServeError ==
  /\ req[Walker].at = "list"
  /\ Done(Walker)
  /\ Fault
  /\ WalkUnchanged /\ UNCHANGED traffic

ServeOther(q) ==
  /\ q # Walker /\ req[q].at = "list"
  /\ Done(q)
  /\ WalkUnchanged /\ UNCHANGED <<faults, traffic>>

\* A row's time is taken before its transaction commits, and on another machine: it may
\* appear anywhere in the list.  After the walk nothing depends on the rows.
Insert ==
  /\ ~walk.ended
  /\ \E k \in Key \ rows : rows' = rows \cup {k}
  /\ UNCHANGED <<limitVars, req, faults, list, walk, kept, traffic>>

Delete ==
  /\ ~walk.ended
  /\ \E k \in rows : rows' = rows \ {k} /\ kept' = kept \ {k}
  /\ UNCHANGED <<limitVars, req, faults, list, walk, traffic>>

TickListing == PassTime /\ WalkUnchanged /\ UNCHANGED traffic

NextListing ==
  \/ Send \/ ServePage \/ ServeError \/ Insert \/ Delete \/ TickListing
  \/ \E q \in Requests : SendOther(q) \/ CheckLimit(q) \/ ServeOther(q)

WalkStep == Send \/ CheckLimit(Walker) \/ ServePage

\* The client goes on, every request is served and time passes.
Fairness ==
  /\ WF_listingVars(WalkStep) /\ WF_listingVars(TickListing)
  /\ \A q \in Requests \ {Walker} : WF_listingVars(CheckLimit(q) \/ ServeOther(q))

ListingSpec == InitListing /\ [][NextListing]_listingVars /\ Fairness

-----------------------------------------------------------------------------
Given == {walk.got[i] : i \in DOMAIN walk.got}

Passed(k) == walk.ended \/ (walk.cursor # Nil /\ ~Ordered(list, DecodeCursor(walk.cursor), k))

\* The pages of a walk follow one another in the list's order, no row is given twice, and
\* every row that was there from the first page on is given by the time the walk has
\* passed it, whatever page sizes were asked for and whatever rows came and went.
EachRowOnce ==
  /\ \A i \in 1..Len(walk.got) - 1 : Ordered(list, walk.got[i], walk.got[i + 1])
  /\ \A k \in kept : Passed(k) => k \in Given

\* In any Window ticks one address is admitted no more than the limiter can be made to
\* give: a full bucket and its refill, or two fixed windows.  Headers of a client that is
\* not a trusted proxy, forgotten buckets and lost expiries give it nothing.
WindowBound ==
  \A a \in Addresses :
    recent[a][Window] <= IF backend = "memory" THEN Burst + Rate * (Window - 1)
                         ELSE 2 * redisWindowCapacity

\* A Redis key that will never expire: the EXPIRE after its first INCR has failed, or the
\* INCR itself was counted but reported as failed.
NeverExpires(k) ==
  /\ counters[k].n > 0 /\ counters[k].left = None
  /\ \A q \in Requests : req[q].at # "expire"

\* A client that tries again after each refusal comes to the end of the list, unless the
\* key of its address has lost its expiry.
WalkEnds == <>(walk.ended \/ NeverExpires(Home))
=============================================================================
