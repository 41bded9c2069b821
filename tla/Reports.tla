------------------------------- MODULE Reports -------------------------------
(***************************************************************************)
(* Reading a report (src/internal/reports): GET of one report through the  *)
(* cache of report details, which is either the process's own map or       *)
(* Redis, while the workers write the report and delete its cache entry.   *)
(*                                                                         *)
(* A detail is read in two statements, the report with its recording and   *)
(* then the frames; it is represented by the versions of both.  Time is    *)
(* counted down in the cache entry and up in quiet; a request ends within  *)
(* MaxHold.                                                                *)
(***************************************************************************)
EXTENDS Integers

CONSTANTS Requests, None, TTL, MaxHold,
          MaxWrites  \* bound on the writes to the report and its frames

ASSUME ReportsAssumption == TTL \in Nat \ {0} /\ MaxHold \in Nat /\ MaxWrites \in Nat

VARIABLES
  backend,  \* "memory" or "redis", by configuration
  db,       \* versions of the report's row and of its frames; None once deleted
  cache,    \* the entry: a detail, its time left and why it may be stale
  req,      \* requests in flight
  pending,  \* the AI worker has written and not yet invalidated
  quiet,    \* time since the report last changed, up to QuietBound
  answer    \* status of the last step's answer

vars == <<backend, db, cache, req, pending, quiet, answer>>

Detail == [row: 0..MaxWrites, frames: 0..MaxWrites]

Idle == [at |-> "idle", d |-> None, held |-> 0]

\* A fill may start just before a write and end MaxHold later, the entry lives for TTL
\* and whoever finds it then may take another MaxHold to answer.
QuietBound == TTL + 2 * MaxHold + 1

Init ==
  /\ backend \in {"memory", "redis"}
  /\ db = [row |-> 0, frames |-> 0]
  /\ cache = None
  /\ req = [q \in Requests |-> Idle]
  /\ pending = FALSE
  /\ quiet = QuietBound
  /\ answer = None

-----------------------------------------------------------------------------
(* A request.                                                              *)

Become(q, at, d) ==
  /\ req' = [req EXCEPT ![q] = [@ EXCEPT !.at = at, !.d = d]]
  /\ answer' = None

Reply(q, status) ==
  /\ req' = [req EXCEPT ![q] = Idle]
  /\ answer' = status

StatusOf(e) ==
  CASE e = "ErrNotFound" -> 404 [] e = "ErrForbidden" -> 403 [] OTHER -> 500

\* The caller's membership: refused, whatever the error was.
EnsureMember(q) == Reply(q, StatusOf("ErrForbidden")) /\ UNCHANGED <<db, cache, pending, quiet>>

\* MemoryCache.Get reads the entry under the read lock ...
MemoryGet(q) ==
  /\ backend = "memory"
  /\ \/ cache = None /\ Become(q, "row", None)
     \/ cache # None /\ cache.left >= 0 /\ Become(q, "answer", cache.d)
     \/ cache # None /\ cache.left < 0 /\ Become(q, "evict", None)
  /\ UNCHANGED <<db, cache, pending, quiet>>

\* ... and deletes an expired one under the write lock, or what has replaced it since.
Evict(q) ==
  /\ req[q].at = "evict"
  /\ cache' = None
  /\ Become(q, "row", None)
  /\ UNCHANGED <<db, pending, quiet>>

\* A Redis error is a miss.
RedisGet(q) ==
  /\ backend = "redis"
  /\ \/ Become(q, "row", None)
     \/ cache # None /\ Become(q, "answer", cache.d)
  /\ UNCHANGED <<db, cache, pending, quiet>>

Get(q) == MemoryGet(q) \/ RedisGet(q)

\* By recording the cache is filled, never asked.
GetByRecording(q) == Become(q, "row", None) /\ UNCHANGED <<db, cache, pending, quiet>>

HandleGet(q) ==
  /\ req[q].at = "idle"
  /\ \/ Reply(q, 400) /\ UNCHANGED <<db, cache, pending, quiet>>
     \/ EnsureMember(q) \/ Get(q)
  /\ UNCHANGED backend

HandleGetByRecording(q) ==
  /\ req[q].at = "idle"
  /\ \/ Reply(q, 400) /\ UNCHANGED <<db, cache, pending, quiet>>
     \/ EnsureMember(q) \/ GetByRecording(q)
  /\ UNCHANGED backend

\* loadDetail: the joined row of the report and its recording.
LoadRow(q) ==
  /\ req[q].at = "row"
  /\ \/ db = None /\ Reply(q, StatusOf("ErrNotFound"))
     \/ db # None /\ Become(q, "frames", [row |-> db.row, frames |-> 0])
     \/ Reply(q, StatusOf("error"))
  /\ UNCHANGED <<db, cache, pending, quiet>>

\* No frame is left once the recording is deleted: the detail is of no version any more.
LoadFrames(q) ==
  /\ req[q].at = "frames"
  /\ \/ Become(q, "set", [req[q].d EXCEPT !.frames = IF db = None THEN 0 ELSE db.frames])
     \/ Reply(q, StatusOf("error"))
  /\ UNCHANGED <<db, cache, pending, quiet>>

\* Whatever was written since the detail was read, it goes in.
Fill(q) ==
  cache' = [d |-> req[q].d, left |-> TTL,
            why |-> IF req[q].d # db /\ ~pending THEN "late" ELSE "none"]

MemorySet(q) == backend = "memory" /\ Fill(q)

\* The error of a SET is dropped.
RedisSet(q) == backend = "redis" /\ (Fill(q) \/ UNCHANGED cache)

\* Mutant of Set: the entry is stored without the configured life.
SetForever(q) ==
  /\ req[q].at = "set"
  /\ cache' = [d |-> req[q].d, left |-> QuietBound + TTL,
               why |-> IF req[q].d # db /\ ~pending THEN "late" ELSE "none"]
  /\ Become(q, "answer", req[q].d)
  /\ UNCHANGED <<db, pending, quiet>>

Set(q) ==
  /\ req[q].at = "set"
  /\ MemorySet(q) \/ RedisSet(q)
  /\ Become(q, "answer", req[q].d)
  /\ UNCHANGED <<db, pending, quiet>>

\* withURLs: an object that cannot be signed is returned without a URL.
withURLs(q) ==
  /\ req[q].at = "answer"
  /\ Reply(q, 200)
  /\ UNCHANGED <<db, cache, pending, quiet>>

Serve(q) ==
  /\ Evict(q) \/ LoadRow(q) \/ LoadFrames(q) \/ Set(q) \/ withURLs(q)
  /\ UNCHANGED backend

-----------------------------------------------------------------------------
(* The writers.                                                            *)

Writes == db.row + db.frames

Blame(why) == IF cache = None THEN None ELSE [cache EXCEPT !.why = why]

\* Mutant of WriteReport: no invalidation follows.
WriteReportForgets ==
  /\ db # None /\ ~pending /\ Writes < MaxWrites
  /\ db' = [db EXCEPT !.row = @ + 1]
  /\ UNCHANGED <<cache, pending>>

\* CompleteAnalysis or FailAnalysis of the AI worker, which goes on to invalidate.
WriteReport ==
  /\ db # None /\ ~pending /\ Writes < MaxWrites
  /\ db' = [db EXCEPT !.row = @ + 1]
  /\ pending' = TRUE
  /\ UNCHANGED cache

\* MarkGenerating, the replay of a completed analysis, new frames of the media worker
\* and the deletion of the recording do not tell the cache.
WriteUnannounced ==
  /\ db # None
  /\ \/ Writes < MaxWrites /\ db' = [db EXCEPT !.row = @ + 1]
     \/ Writes < MaxWrites /\ db' = [db EXCEPT !.frames = @ + 1]
     \/ db' = None
  /\ cache' = Blame("unannounced")
  /\ UNCHANGED pending

Write ==
  /\ WriteReport \/ WriteUnannounced
  /\ quiet' = 0 /\ answer' = None
  /\ UNCHANGED <<backend, req>>

\* The worker has a cache only with Redis.  An error, the failure to look up the report's
\* id and a crash before the call have the same effect: none.
RedisInvalidate ==
  \/ backend = "redis" /\ cache' = None
  \/ cache' = Blame("unannounced")

invalidateReport ==
  /\ pending
  /\ pending' = FALSE
  /\ RedisInvalidate
  /\ answer' = None
  /\ UNCHANGED <<backend, db, req, quiet>>

\* A Redis key is gone at its expiry; the map keeps the entry until it is looked up.
Expire ==
  IF cache = None \/ (backend = "redis" /\ cache.left = 1) THEN None
  ELSE [cache EXCEPT !.left = IF @ >= 0 THEN @ - 1 ELSE @]

Tick ==
  /\ \A q \in Requests : req[q].at # "idle" => req[q].held < MaxHold
  /\ req' = [q \in Requests |-> IF req[q].at = "idle" THEN Idle ELSE [req[q] EXCEPT !.held = @ + 1]]
  /\ cache' = Expire
  /\ quiet' = IF quiet < QuietBound THEN quiet + 1 ELSE quiet
  /\ answer' = None
  /\ UNCHANGED <<backend, db, pending>>

Next ==
  \/ \E q \in Requests : HandleGet(q) \/ HandleGetByRecording(q) \/ Serve(q)
  \/ Write \/ invalidateReport \/ Tick

Spec == Init /\ [][Next]_vars

-----------------------------------------------------------------------------
\* Every variable keeps its type.
TypeOK ==
  /\ backend \in {"memory", "redis"}
  /\ db \in Detail \cup {None}
  /\ cache = None \/ cache \in [d: Detail, left: -1..TTL, why: {"none", "late", "unannounced"}]
  /\ req \in [Requests -> [at: {"idle", "evict", "row", "frames", "set", "answer"},
                           d: Detail \cup {None}, held: 0..MaxHold]]
  /\ pending \in BOOLEAN
  /\ quiet \in 0..QuietBound
  /\ answer \in {None, 200, 400, 403, 404, 500}

\* A report that has not changed for the life of a cache entry and twice the time of a
\* request is shown as it is: with either cache, and whatever fills, evictions and lost
\* invalidations came before, no answer is older.
QuietMeansFresh ==
  quiet = QuietBound =>
    \A q \in Requests : req[q].at = "answer" => req[q].d = db

\* Between a write the worker announces and its invalidation the cache may be stale; after
\* that it is so only for a known reason: the entry was filled by a reader that had read
\* before the write, the invalidation was lost (or the cache is the API's own map, which
\* no worker reaches), or the write was of a kind that does not invalidate.
StaleForAReason ==
  cache # None /\ cache.d # db => pending \/ cache.why # "none"
=============================================================================
