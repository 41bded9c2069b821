-------------------------------- MODULE Paging --------------------------------
(***************************************************************************)
(* Lists by pages (src/internal/platform/pagination and the list queries   *)
(* of the repositories).  A row is its sort key: the time its creator's    *)
(* clock showed and its id.  Rows with equal times are ordered by id.      *)
(***************************************************************************)
EXTENDS Integers, Sequences, FiniteSetsExt, SequencesExt

CONSTANTS Key,  \* the sort keys: pairs of a time and an id
          DefaultLimit, MaxLimit,
          Nil  \* no cursor, no limit

ASSUME PagingAssumption ==
  /\ Key \subseteq Nat \X Nat /\ IsFiniteSet(Key)
  /\ DefaultLimit \in Int /\ MaxLimit \in Int
  /\ Nil \notin [at : Nat, id : Nat]

VARIABLE rows  \* the rows that the list's WHERE selects

(* The row comparison of SQL: (created_at, id) < (x, y).                   *)
Older(k, l) == k[1] < l[1] \/ (k[1] = l[1] /\ k[2] < l[2])

Newer(k, l) == Older(l, k)

-----------------------------------------------------------------------------
withDefaults(l) ==
  LET default == IF l.default <= 0 THEN 50 ELSE l.default
      max == IF l.max <= 0 THEN 100 ELSE l.max
  IN  [default |-> IF default > max THEN max ELSE default, max |-> max]

\* raw is the query parameter: a number, or Nil for none and for what is not a number.
Parse(raw, cursor) ==
  LET l == withDefaults([default |-> DefaultLimit, max |-> MaxLimit])
      limit == IF raw = Nil THEN l.default ELSE raw
      capped == IF limit > l.max THEN l.max ELSE limit
  IN  [limit |-> IF capped < 1 THEN 1 ELSE capped, cursor |-> cursor]

\* The two parts of a key, the time to the nanosecond where PostgreSQL keeps microseconds.
EncodeCursor(k) == [at |-> k[1], id |-> k[2]]

\* Of a cursor that EncodeCursor made; any other is an error, see ServeError of Listing.
DecodeCursor(c) == <<c.at, c.id>>

\* Mutant of TrimPage: the cursor is of the row read in excess.
TrimPageExcess(page, items) ==
  IF Len(items) <= page.limit THEN [items |-> items, next |-> Nil]
  ELSE [items |-> SubSeq(items, 1, page.limit), next |-> EncodeCursor(items[Len(items)])]

TrimPage(page, items) ==
  IF Len(items) <= page.limit THEN [items |-> items, next |-> Nil]
  ELSE [items |-> SubSeq(items, 1, page.limit), next |-> EncodeCursor(items[page.limit])]

-----------------------------------------------------------------------------
(* The queries: the rows after the cursor in the query's order, one more   *)
(* than the page holds.  An error of the query is an error of the rows,    *)
(* also where the variable of the first is shadowed.                       *)

InOrder ==
  [R \in SUBSET Key |->
     CHOOSE s \in [1..Cardinality(R) -> R] :
       /\ \A k \in R : \E i \in DOMAIN s : s[i] = k
       /\ \A i, j \in DOMAIN s : i < j => Older(s[i], s[j])]

FirstRows(page, ordered) == TrimPage(page, SubSeq(ordered, 1, Min({page.limit + 1, Len(ordered)})))

SelectAsc(page) ==
  FirstRows(page, InOrder[{k \in rows : page.cursor = Nil \/ Older(DecodeCursor(page.cursor), k)}])

SelectDesc(page) ==
  FirstRows(page, Reverse(InOrder[{k \in rows : page.cursor = Nil \/ Newer(DecodeCursor(page.cursor), k)}]))

ListForUser(page) == SelectDesc(page)

ListMembers(page) == SelectAsc(page)

ListByProject(page) == SelectDesc(page)

ListShares(page) == SelectDesc(page)

ListComments(page) == SelectAsc(page)

Lists == {"projects", "members", "reports", "shares", "comments"}

List(l, page) ==
  CASE l = "projects" -> ListForUser(page)
    [] l = "members" -> ListMembers(page)
    [] l = "reports" -> ListByProject(page)
    [] l = "shares" -> ListShares(page)
    [] l = "comments" -> ListComments(page)

\* The order in which a list's pages are to follow one another (pagination.Order).
Ordered(l, k, m) == IF l \in {"members", "comments"} THEN Older(k, m) ELSE Newer(k, m)
=============================================================================
