----------------------------- MODULE ReportsProofs -----------------------------
(***************************************************************************)
(* Proofs about the page of a report, in two parts.                        *)
(*                                                                         *)
(* The report cache, for any number of readers and writes, any life of an  *)
(* entry and any duration of a request: the inductive invariant IndInv     *)
(* relates the age of what is in hand to the time for which the report has *)
(* not changed.  What a request or the cache holds is the report itself if *)
(* it was read after the last write, and it was read no longer ago than    *)
(* the request, the entry, or both, have lived.                            *)
(*                                                                         *)
(* Comments and presence, for any number of pages and comments and any     *)
(* capacity of their channels: the inductive invariant PageInv says where  *)
(* a comment is that a page does not show yet, and that the last number of *)
(* users which is in a page's channel is the right one.                    *)
(***************************************************************************)
EXTENDS Reports, Collab, FiniteSetTheorems, TLAPS

Entry == [d: Detail, left: -1..TTL, why: {"none", "late", "unannounced"}]

RequestType == [at: {"idle", "evict", "row", "frames", "set", "answer"},
                d: Detail \cup {None}, held: 0..MaxHold]

(* A request starts young, and has a detail once it has read the row.      *)
RequestOK(x) ==
  /\ x.at = "idle" => x.held = 0
  /\ x.at \in {"frames", "set", "answer"} => x.d \in Detail

(* A loader that began after the last write has read the report as it is,  *)
(* the part of it that it has got to.                                      *)
LoadOK(x) ==
  /\ x.at = "frames" /\ quiet > x.held => db # None /\ x.d.row = db.row
  /\ x.at = "set" /\ quiet > x.held => x.d = db

(* An answer comes from the request's own load or from an entry it found.  *)
AnswerOK(x) ==
  x.at = "answer" /\ quiet > MaxHold + TTL + x.held => x.d = db

SlotOK(x) == RequestOK(x) /\ LoadOK(x) /\ AnswerOK(x)

RequestsOK == \A q \in Requests : SlotOK(req[q])

(* An entry is as old as TTL - left and its filler was MaxHold at most.    *)
EntryOK ==
  /\ cache # None /\ backend = "redis" => cache.left > 0
  /\ cache # None /\ cache.left >= 0 /\ quiet > MaxHold + TTL - cache.left => cache.d = db

IndInv == TypeOK /\ RequestsOK /\ EntryOK /\ StaleForAReason

(* What a step of a request leaves in its slot, and what it does to the    *)
(* cache.                                                                  *)
Moves(q) ==
  \E x \in RequestType : SlotOK(x) /\ req' = [req EXCEPT ![q] = x]

Effect(q) ==
  /\ UNCHANGED <<backend, db, pending, quiet>>
  /\ answer' \in {None, 200, 400, 403, 404, 500}
  /\ \/ cache' = cache \/ cache' = None
     \/ req[q].at = "set" /\ Fill(q)

(* The slot of a request that goes on: it keeps the time it has taken.     *)
Slot(q, a, d) == [at |-> a, d |-> d, held |-> req[q].held]

-------------------------------------------------------------------------------
(* The bounds are numbers; QuietBound is past the life of an entry and of  *)
(* the requests before and after it.                                       *)
LEMMA BoundNat ==
  /\ QuietBound \in Nat /\ TTL \in Nat /\ MaxHold \in Nat /\ TTL > 0
  /\ QuietBound > MaxHold + TTL + MaxHold
  BY ReportsAssumption DEF QuietBound

(* The answers to errors (writeError).                                     *)
LEMMA StatusValues ==
  StatusOf("ErrNotFound") = 404 /\ StatusOf("ErrForbidden") = 403 /\ StatusOf("error") = 500
  BY DEF StatusOf

(* An answered request leaves an idle slot.                                *)
LEMMA Replies ==
  ASSUME NEW q \in Requests, NEW s \in {200, 400, 403, 404, 500}, Reply(q, s),
         UNCHANGED <<backend, db, cache, pending, quiet>>
  PROVE  Moves(q) /\ Effect(q)
<1>1. /\ Idle \in RequestType
      /\ SlotOK(Idle)
  BY BoundNat DEF Idle, RequestType, SlotOK, RequestOK, LoadOK, AnswerOK
<1>2. Moves(q)
  BY <1>1 DEF Reply, Moves
<1>3. answer' \in {None, 200, 400, 403, 404, 500}
  BY DEF Reply
<1> QED
  BY <1>2, <1>3 DEF Effect

(* A request that goes on keeps the time it has taken.                     *)
LEMMA Becomes ==
  ASSUME TypeOK, NEW q \in Requests, NEW d \in Detail \cup {None},
         NEW a \in {"evict", "row", "frames", "set", "answer"}, Become(q, a, d),
         SlotOK(Slot(q, a, d))
  PROVE  Moves(q) /\ answer' = None
<1> DEFINE y == [req[q] EXCEPT !.at = a, !.d = d]
<1>1. req[q] \in RequestType
  BY DEF TypeOK, RequestType
<1>2. y \in RequestType /\ y.at = a /\ y.d = d /\ y.held = req[q].held
  BY <1>1 DEF RequestType
<1>3. req' = [req EXCEPT ![q] = y] /\ answer' = None
  BY DEF Become
<1> HIDE DEF y
<1>4. SlotOK(y)
  BY <1>2 DEF Slot, SlotOK, RequestOK, LoadOK, AnswerOK
<1> QED
  BY <1>2, <1>3, <1>4 DEF Moves

-------------------------------------------------------------------------------
(* The steps of a request.                                                 *)
LEMMA GetSteps ==
  ASSUME IndInv, NEW q \in Requests, HandleGet(q) \/ HandleGetByRecording(q)
  PROVE  Moves(q) /\ Effect(q)
<1> USE StatusValues
<1>0. /\ TypeOK /\ EntryOK
      /\ req[q].at = "idle" /\ req[q].held = 0
      /\ UNCHANGED <<backend, db, pending, quiet>>
  BY DEF IndInv, RequestsOK, SlotOK, RequestOK, HandleGet, HandleGetByRecording, EnsureMember, Get,
         MemoryGet, RedisGet, GetByRecording
<1>1. ASSUME Reply(q, 400) \/ Reply(q, StatusOf("ErrForbidden")), UNCHANGED cache
      PROVE  Moves(q) /\ Effect(q)
  BY <1>0, <1>1, Replies
<1>2. ASSUME NEW a \in {"row", "evict"}, Become(q, a, None), UNCHANGED cache
      PROVE  Moves(q) /\ Effect(q)
  <2>1. SlotOK(Slot(q, a, None))
    BY DEF Slot, SlotOK, RequestOK, LoadOK, AnswerOK
  <2>2. Moves(q) /\ answer' = None
    BY <1>0, <1>2, <2>1, Becomes
  <2> QED
    BY <1>0, <1>2, <2>2 DEF Effect
<1>3. ASSUME cache # None, cache.left >= 0, Become(q, "answer", cache.d), UNCHANGED cache
      PROVE  Moves(q) /\ Effect(q)
  <2>1. /\ cache.d \in Detail /\ cache.left \in Int /\ cache.left <= TTL
        /\ quiet \in Nat
    BY <1>0, <1>3, BoundNat DEF TypeOK
  <2>2. quiet > MaxHold + TTL + req[q].held => cache.d = db
    BY <1>0, <1>3, <2>1, BoundNat DEF EntryOK
  <2>3. SlotOK(Slot(q, "answer", cache.d))
    BY <2>1, <2>2 DEF Slot, SlotOK, RequestOK, LoadOK, AnswerOK
  <2>4. Moves(q) /\ answer' = None
    BY <1>0, <1>3, <2>1, <2>3, Becomes
  <2> QED
    BY <1>0, <1>3, <2>4 DEF Effect
<1>4. CASE HandleGet(q)
  <2>1. CASE MemoryGet(q)
    BY <1>2, <1>3, <2>1 DEF MemoryGet
  <2>2. CASE RedisGet(q)
    <3>1. ASSUME cache # None PROVE cache.left >= 0
      BY <1>0, <2>2, <3>1 DEF EntryOK, RedisGet, TypeOK
    <3> QED
      BY <1>2, <1>3, <2>2, <3>1 DEF RedisGet
  <2> QED
    BY <1>1, <1>4, <2>1, <2>2 DEF HandleGet, EnsureMember, Get
<1>5. CASE HandleGetByRecording(q)
  BY <1>1, <1>2, <1>5 DEF HandleGetByRecording, EnsureMember, GetByRecording
<1> QED
  BY <1>4, <1>5

(* What a statement of a request does, whichever it is.                    *)
LEMMA ServeSteps ==
  ASSUME IndInv, NEW q \in Requests, Serve(q)
  PROVE  Moves(q) /\ Effect(q)
<1> USE StatusValues
<1>0. /\ TypeOK /\ SlotOK(req[q])
      /\ req[q] \in RequestType /\ db \in Detail \cup {None} /\ quiet \in Nat
      /\ UNCHANGED <<backend, db, pending, quiet>>
  BY BoundNat DEF IndInv, RequestsOK, RequestType, TypeOK, Serve, Evict, LoadRow, LoadFrames, Set, withURLs
<1>1. ASSUME NEW e \in {"ErrNotFound", "error"}, Reply(q, StatusOf(e)), UNCHANGED cache
      PROVE  Moves(q) /\ Effect(q)
  BY <1>0, <1>1, Replies
<1>2. ASSUME NEW a \in {"evict", "row", "frames", "set", "answer"}, NEW d \in Detail \cup {None},
             Become(q, a, d),
             SlotOK(Slot(q, a, d)),
             cache' = cache \/ cache' = None \/ (req[q].at = "set" /\ Fill(q))
      PROVE  Moves(q) /\ Effect(q)
  <2>1. Moves(q) /\ answer' = None
    BY <1>0, <1>2, Becomes
  <2> QED
    BY <1>0, <1>2, <2>1 DEF Effect
<1>3. CASE Evict(q)
  <2>1. SlotOK(Slot(q, "row", None))
    BY DEF Slot, SlotOK, RequestOK, LoadOK, AnswerOK
  <2> QED
    BY <1>2, <1>3, <2>1 DEF Evict
<1>4. CASE LoadRow(q)
  <2>1. CASE db # None /\ Become(q, "frames", [row |-> db.row, frames |-> 0])
    <3>1. [row |-> db.row, frames |-> 0] \in Detail
      BY <1>0, <2>1, ReportsAssumption DEF Detail
    <3>2. SlotOK(Slot(q, "frames", [row |-> db.row, frames |-> 0]))
      BY <2>1, <3>1 DEF Slot, SlotOK, RequestOK, LoadOK, AnswerOK
    <3> QED
      BY <1>2, <1>4, <2>1, <3>1, <3>2 DEF LoadRow
  <2> QED
    BY <1>1, <1>4, <2>1 DEF LoadRow
<1>5. CASE LoadFrames(q)
  <2> DEFINE d == [req[q].d EXCEPT !.frames = IF db = None THEN 0 ELSE db.frames]
  <2>1. CASE Become(q, "set", d)
    <3>1. req[q].d \in Detail
      BY <1>0, <1>5 DEF SlotOK, LoadFrames, RequestOK
    <3>2. d \in Detail
      BY <1>0, <3>1, ReportsAssumption DEF Detail
    <3>3. quiet > req[q].held => d = db
      <4> SUFFICES ASSUME quiet > req[q].held PROVE d = db
        OBVIOUS
      <4>1. db # None /\ req[q].d.row = db.row
        BY <1>0, <1>5 DEF SlotOK, LoadFrames, LoadOK
      <4> QED
        BY <1>0, <3>1, <4>1 DEF Detail
    <3> HIDE DEF d
    <3>4. SlotOK(Slot(q, "set", d))
      BY <3>2, <3>3 DEF Slot, SlotOK, RequestOK, LoadOK, AnswerOK
    <3> QED
      BY <1>2, <1>5, <2>1, <3>2, <3>4 DEF LoadFrames
  <2> QED
    BY <1>1, <1>5, <2>1 DEF LoadFrames
<1>6. CASE Set(q)
  <2>1. req[q].d \in Detail /\ (quiet > req[q].held => req[q].d = db)
    BY <1>0, <1>6 DEF SlotOK, Set, RequestOK, LoadOK
  <2>2. SlotOK(Slot(q, "answer", req[q].d))
    BY <1>0, <2>1, BoundNat DEF RequestType, Slot, SlotOK, RequestOK, LoadOK, AnswerOK
  <2> QED
    BY <1>2, <1>6, <2>1, <2>2 DEF Set, MemorySet, RedisSet
<1>7. CASE withURLs(q)
  BY <1>0, <1>7, Replies DEF withURLs
<1> QED
  BY <1>3, <1>4, <1>5, <1>6, <1>7 DEF Serve

-------------------------------------------------------------------------------
(* The types.                                                              *)
LEMMA TypeInit == Init => TypeOK
<1> SUFFICES ASSUME Init PROVE TypeOK
  OBVIOUS
<1>1. db \in Detail /\ req \in [Requests -> RequestType]
  BY ReportsAssumption DEF Init, Detail, Idle, RequestType
<1>2. pending \in BOOLEAN
  BY DEF Init
<1>3. quiet \in 0..QuietBound
  BY BoundNat DEF Init
<1> QED
  BY <1>1, <1>2, <1>3 DEF Init, TypeOK, RequestType

(* A stored entry is young and holds what its request loaded; it is late   *)
(* if that is not what is in the database any more.                        *)
LEMMA FillType ==
  ASSUME TypeOK, RequestsOK, NEW q \in Requests, req[q].at = "set", Fill(q)
  PROVE  /\ cache' \in Entry /\ cache'.d = req[q].d /\ cache'.left = TTL
         /\ req[q].d # db /\ ~pending => cache'.why = "late"
<1>1. req[q].d \in Detail
  BY DEF RequestsOK, SlotOK, RequestOK
<1> QED
  BY <1>1, BoundNat DEF Fill, Entry

(* A reason is noted on an entry without touching the rest of it.          *)
LEMMA BlameType ==
  ASSUME TypeOK, NEW why \in {"late", "unannounced"}
  PROVE  /\ cache = None => Blame(why) = None
         /\ cache # None => /\ Blame(why) \in Entry /\ Blame(why).why = why
                            /\ Blame(why).d = cache.d /\ Blame(why).left = cache.left
  BY DEF TypeOK, Blame, Entry

(* The clock: an entry keeps what it holds and gets older.                 *)
LEMMA ExpireType ==
  ASSUME TypeOK
  PROVE  \/ Expire = None
         \/ /\ cache # None /\ Expire \in Entry
            /\ Expire.d = cache.d /\ Expire.why = cache.why
            /\ Expire.left = IF cache.left >= 0 THEN cache.left - 1 ELSE cache.left
            /\ ~(backend = "redis" /\ cache.left = 1)
<1> SUFFICES ASSUME cache # None, ~(backend = "redis" /\ cache.left = 1)
             PROVE  /\ Expire \in Entry
                    /\ Expire.d = cache.d /\ Expire.why = cache.why
                    /\ Expire.left = IF cache.left >= 0 THEN cache.left - 1 ELSE cache.left
  BY DEF Expire
<1> DEFINE left == IF cache.left >= 0 THEN cache.left - 1 ELSE cache.left
<1>1. cache \in Entry
  BY DEF TypeOK, Entry
<1>2. left \in -1..TTL
  BY <1>1, BoundNat DEF Entry
<1>3. Expire = [cache EXCEPT !.left = left]
  BY DEF Expire
<1> HIDE DEF left
<1>4. [cache EXCEPT !.left = left] \in Entry
  BY <1>1, <1>2 DEF Entry
<1>5. Expire.d = cache.d /\ Expire.why = cache.why /\ Expire.left = left
  BY <1>1, <1>3 DEF Entry
<1> QED
  BY <1>3, <1>4, <1>5 DEF left

(* The writers: of the details only the versions move.                     *)
LEMMA WriteType ==
  ASSUME TypeOK, Write
  PROVE  /\ db' \in Detail \cup {None}
         /\ \/ pending' = TRUE /\ cache' = cache
            \/ pending' = pending /\ cache' = Blame("unannounced")
<1>1. db # None => db \in Detail
  BY DEF TypeOK
<1>2. ASSUME db # None, Writes < MaxWrites
      PROVE  /\ [db EXCEPT !.row = @ + 1] \in Detail
             /\ [db EXCEPT !.frames = @ + 1] \in Detail
  BY <1>1, <1>2, ReportsAssumption DEF Detail, Writes
<1> QED
  BY <1>2, Zenon DEF Write, WriteReport, WriteUnannounced

(* Every step keeps the types.                                             *)
LEMMA TypeStep ==
  ASSUME IndInv, [Next]_vars
  PROVE  TypeOK'
<1>0. /\ TypeOK /\ RequestsOK
      /\ backend \in {"memory", "redis"} /\ db \in Detail \cup {None}
      /\ cache = None \/ cache \in Entry
      /\ req \in [Requests -> RequestType]
      /\ pending \in BOOLEAN /\ quiet \in 0..QuietBound
      /\ answer \in {None, 200, 400, 403, 404, 500}
  BY DEF IndInv, TypeOK, Entry, RequestType
<1> SUFFICES /\ backend' \in {"memory", "redis"} /\ db' \in Detail \cup {None}
             /\ cache' = None \/ cache' \in Entry
             /\ req' \in [Requests -> RequestType]
             /\ pending' \in BOOLEAN /\ quiet' \in 0..QuietBound
             /\ answer' \in {None, 200, 400, 403, 404, 500}
  BY DEF TypeOK, Entry, RequestType
<1>1. ASSUME NEW q \in Requests, Moves(q), Effect(q)
      PROVE  TypeOK'
  <2>1. req' \in [Requests -> RequestType]
    BY <1>0, <1>1 DEF Moves
  <2>2. cache' = None \/ cache' \in Entry
    BY <1>0, <1>1, FillType DEF Effect
  <2>3. /\ UNCHANGED <<backend, db, pending, quiet>>
        /\ answer' \in {None, 200, 400, 403, 404, 500}
    BY <1>1 DEF Effect
  <2> QED
    BY <1>0, <2>1, <2>2, <2>3 DEF TypeOK, Entry, RequestType
<1>2. CASE Write
  <2>0. /\ db' \in Detail \cup {None}
        /\ \/ pending' = TRUE /\ cache' = cache
           \/ pending' = pending /\ cache' = Blame("unannounced")
    BY <1>0, <1>2, WriteType, Zenon
  <2>1. Blame("unannounced") = None \/ Blame("unannounced") \in Entry
    BY <1>0, BlameType
  <2>2. cache' = None \/ cache' \in Entry
    BY <1>0, <2>0, <2>1
  <2>3. pending' \in BOOLEAN
    <3>1. CASE pending' = TRUE
      BY <3>1
    <3>2. CASE pending' = pending
      BY <1>0, <3>2
    <3> QED
      BY <2>0, <3>1, <3>2, Zenon
  <2>4. quiet' = 0 /\ answer' = None /\ UNCHANGED <<backend, req>>
    BY <1>2 DEF Write
  <2>5. quiet' \in 0..QuietBound
    BY <2>4, BoundNat
  <2> QED
    BY <1>0, <2>0, <2>2, <2>3, <2>4, <2>5
<1>3. CASE invalidateReport
  <2>1. cache' = None \/ cache' \in Entry
    BY <1>0, <1>3, BlameType DEF invalidateReport, RedisInvalidate
  <2>2. pending' \in BOOLEAN
    BY <1>3 DEF invalidateReport
  <2> QED
    BY <1>0, <1>3, <2>1, <2>2 DEF invalidateReport
<1>4. CASE Tick
  <2>1. req' \in [Requests -> RequestType]
    <3>1. ASSUME NEW q \in Requests, req[q].held < MaxHold
          PROVE  [req[q] EXCEPT !.held = @ + 1] \in RequestType
      BY <1>0, <3>1, BoundNat DEF RequestType
    <3>2. Idle \in RequestType
      BY BoundNat DEF Idle, RequestType
    <3> QED
      BY <1>4, <3>1, <3>2 DEF Tick
  <2>2. cache' = None \/ cache' \in Entry
    BY <1>0, <1>4, ExpireType DEF Tick
  <2>3. quiet' \in 0..QuietBound
    BY <1>0, <1>4, BoundNat DEF Tick
  <2>4. UNCHANGED <<backend, db, pending>> /\ answer' = None
    BY <1>4 DEF Tick
  <2> QED
    BY <1>0, <2>1, <2>2, <2>3, <2>4
<1>5. CASE UNCHANGED vars
  BY <1>0, <1>5 DEF vars
<1> QED
  BY <1>1, <1>2, <1>3, <1>4, <1>5, GetSteps, ServeSteps DEF Next, TypeOK, Entry, RequestType

-------------------------------------------------------------------------------
(* The requests: a write makes every claim about them empty, since nothing *)
(* has been quiet for longer than no time; a tick ages both sides alike.   *)
LEMMA RequestsStep ==
  ASSUME IndInv, [Next]_vars
  PROVE  RequestsOK'
<1>0. /\ RequestsOK /\ req \in [Requests -> RequestType] /\ quiet \in 0..QuietBound
      /\ QuietBound \in Nat
  BY BoundNat DEF IndInv, TypeOK, RequestType
<1>1. ASSUME NEW q \in Requests, Moves(q), Effect(q)
      PROVE  RequestsOK'
  <2>1. PICK x \in RequestType : SlotOK(x) /\ req' = [req EXCEPT ![q] = x]
    BY <1>1 DEF Moves
  <2>2. ASSUME NEW p \in Requests
        PROVE  \E y \in RequestType : SlotOK(y) /\ req'[p] = y
    BY <1>0, <2>1 DEF RequestsOK
  <2>3. UNCHANGED <<db, quiet>>
    BY <1>1 DEF Effect
  <2> QED
    BY <2>2, <2>3 DEF RequestsOK, SlotOK, RequestOK, LoadOK, AnswerOK
<1>2. CASE Write
  <2> SUFFICES ASSUME NEW p \in Requests PROVE SlotOK(req[p])'
    BY DEF RequestsOK
  <2>1. req'[p] = req[p] /\ quiet' = 0 /\ req[p].held \in Nat /\ RequestOK(req[p])
    BY <1>0, <1>2, BoundNat DEF Write, RequestsOK, SlotOK, RequestType
  <2>2. ~(quiet' > req'[p].held) /\ ~(quiet' > MaxHold + TTL + req'[p].held)
    BY <2>1, BoundNat
  <2> QED
    BY <2>1, <2>2 DEF SlotOK, RequestOK, LoadOK, AnswerOK
<1>3. CASE Tick
  <2> SUFFICES ASSUME NEW p \in Requests PROVE SlotOK(req[p])'
    BY DEF RequestsOK
  <2>1. CASE req[p].at = "idle"
    <3>1. req'[p] = Idle
      BY <1>3, <2>1 DEF Tick
    <3> QED
      BY <3>1 DEF Idle, SlotOK, RequestOK, LoadOK, AnswerOK
  <2>2. CASE req[p].at # "idle"
    <3>1. req'[p] = [req[p] EXCEPT !.held = @ + 1]
      BY <1>3, <2>2 DEF Tick
    <3>2. req'[p].at = req[p].at /\ req'[p].d = req[p].d /\ req'[p].held = req[p].held + 1
      BY <1>0, <3>1 DEF RequestType
    <3>3. req[p].held \in Nat /\ req[p].held <= MaxHold /\ SlotOK(req[p])
      BY <1>0, BoundNat DEF RequestType, RequestsOK
    <3>4. db' = db /\ quiet' = IF quiet < QuietBound THEN quiet + 1 ELSE quiet
      BY <1>3 DEF Tick
    <3>5. /\ quiet' > req'[p].held => quiet > req[p].held
          /\ quiet' > MaxHold + TTL + req'[p].held => quiet > MaxHold + TTL + req[p].held
      BY <1>0, <3>2, <3>3, <3>4, BoundNat
    <3> QED
      BY <2>2, <3>2, <3>3, <3>4, <3>5 DEF SlotOK, RequestOK, LoadOK, AnswerOK
  <2> QED
    BY <2>1, <2>2
<1>4. CASE UNCHANGED <<req, db, quiet>>
  BY <1>0, <1>4 DEF RequestsOK, SlotOK, RequestOK, LoadOK, AnswerOK
<1>5. invalidateReport \/ UNCHANGED vars => UNCHANGED <<req, db, quiet>>
  BY DEF invalidateReport, vars
<1> QED
  BY <1>1, <1>2, <1>3, <1>4, <1>5, GetSteps, ServeSteps DEF Next

(* The entry.                                                              *)
LEMMA EntryStep ==
  ASSUME IndInv, [Next]_vars
  PROVE  EntryOK'
<1>0. /\ TypeOK /\ RequestsOK /\ EntryOK /\ quiet \in 0..QuietBound /\ QuietBound \in Nat
      /\ cache # None => cache \in Entry /\ cache.left \in -1..TTL
  BY BoundNat DEF IndInv, TypeOK, Entry
<1>1. ASSUME NEW q \in Requests, Effect(q)
      PROVE  EntryOK'
  <2>1. UNCHANGED <<backend, db, quiet>>
    BY <1>1 DEF Effect
  <2>2. CASE cache' = cache
    BY <1>0, <2>1, <2>2 DEF EntryOK
  <2>3. CASE cache' = None
    BY <2>3 DEF EntryOK
  <2>4. CASE req[q].at = "set" /\ Fill(q)
    <3>1. cache'.d = req[q].d /\ cache'.left = TTL
      BY <1>0, <2>4, FillType
    <3>2. req[q].held \in Nat /\ req[q].held <= MaxHold
      BY <1>0, BoundNat DEF TypeOK
    <3>3. quiet > req[q].held => req[q].d = db
      BY <1>0, <2>4 DEF RequestsOK, SlotOK, LoadOK
    <3>4. quiet > MaxHold + TTL - TTL => quiet > req[q].held
      BY <1>0, <3>2, BoundNat
    <3> QED
      BY <2>1, <3>1, <3>3, <3>4, BoundNat DEF EntryOK
  <2> QED
    BY <1>1, <2>2, <2>3, <2>4 DEF Effect
<1>2. ASSUME NEW why \in {"late", "unannounced"}, cache' = Blame(why)
      PROVE  /\ cache' = None \/ (cache # None /\ cache'.left = cache.left /\ cache'.d = cache.d)
  BY <1>0, <1>2, BlameType
<1>3. CASE Write
  <2>1. quiet' = 0 /\ backend' = backend
    BY <1>3 DEF Write
  <2>2. cache' = None \/ (cache # None /\ cache'.left = cache.left)
    BY <1>2, <1>3 DEF Write, WriteReport, WriteUnannounced
  <2>3. cache # None => ~(0 > MaxHold + TTL - cache.left)
    BY <1>0, BoundNat
  <2> QED
    BY <1>0, <2>1, <2>2, <2>3 DEF EntryOK
<1>4. CASE invalidateReport
  BY <1>0, <1>2, <1>4 DEF invalidateReport, RedisInvalidate, EntryOK
<1>5. CASE Tick
  <2>1. /\ UNCHANGED <<backend, db>> /\ cache' = Expire
        /\ quiet' = IF quiet < QuietBound THEN quiet + 1 ELSE quiet
    BY <1>5 DEF Tick
  <2> SUFFICES ASSUME cache' # None PROVE EntryOK'
    BY DEF EntryOK
  <2>2. /\ cache # None /\ cache'.d = cache.d
        /\ cache'.left = IF cache.left >= 0 THEN cache.left - 1 ELSE cache.left
        /\ ~(backend = "redis" /\ cache.left = 1)
    BY <1>0, <2>1, ExpireType
  <2>3. backend' = "redis" => cache'.left > 0
    BY <1>0, <2>1, <2>2, BoundNat DEF EntryOK
  <2>4. cache'.left >= 0 /\ quiet' > MaxHold + TTL - cache'.left
          => cache.left >= 0 /\ quiet > MaxHold + TTL - cache.left
    BY <1>0, <2>1, <2>2, BoundNat
  <2> QED
    BY <1>0, <2>1, <2>2, <2>3, <2>4 DEF EntryOK
<1>6. CASE UNCHANGED vars
  BY <1>0, <1>6 DEF EntryOK, vars
<1> QED
  BY <1>1, <1>3, <1>4, <1>5, <1>6, GetSteps, ServeSteps DEF Next

(* Why the entry is stale.                                                 *)
LEMMA StaleStep ==
  ASSUME IndInv, [Next]_vars
  PROVE  StaleForAReason'
<1>0. TypeOK /\ RequestsOK /\ StaleForAReason
  BY DEF IndInv
<1>1. ASSUME NEW q \in Requests, Effect(q)
      PROVE  StaleForAReason'
  <2>1. UNCHANGED <<db, pending>>
    BY <1>1 DEF Effect
  <2>2. CASE cache' = cache
    BY <1>0, <2>1, <2>2 DEF StaleForAReason
  <2>3. CASE cache' = None
    BY <2>3 DEF StaleForAReason
  <2>4. CASE req[q].at = "set" /\ Fill(q)
    BY <1>0, <2>1, <2>4, FillType DEF StaleForAReason
  <2> QED
    BY <1>1, <2>2, <2>3, <2>4 DEF Effect
<1>2. ASSUME cache' = Blame("unannounced")
      PROVE  StaleForAReason'
  BY <1>0, <1>2, BlameType DEF StaleForAReason
<1>3. CASE Write
  <2>1. CASE pending' = TRUE /\ cache' = cache
    BY <2>1 DEF StaleForAReason
  <2> QED
    BY <1>0, <1>2, <1>3, <2>1, WriteType
<1>4. CASE invalidateReport
  <2>1. CASE cache' = None
    BY <2>1 DEF StaleForAReason
  <2> QED
    BY <1>2, <1>4, <2>1 DEF invalidateReport, RedisInvalidate
<1>5. CASE Tick
  <2>1. UNCHANGED <<db, pending>> /\ cache' = Expire
    BY <1>5 DEF Tick
  <2>2. cache' = None \/ (cache # None /\ cache'.d = cache.d /\ cache'.why = cache.why)
    BY <1>0, <2>1, ExpireType
  <2> QED
    BY <1>0, <2>1, <2>2 DEF StaleForAReason
<1>6. CASE UNCHANGED vars
  BY <1>0, <1>6 DEF StaleForAReason, vars
<1> QED
  BY <1>1, <1>3, <1>4, <1>5, <1>6, GetSteps, ServeSteps DEF Next

-------------------------------------------------------------------------------
(* The inductive invariant.                                                *)
LEMMA IndInit == Init => IndInv
<1> SUFFICES ASSUME Init PROVE IndInv
  OBVIOUS
<1>1. RequestsOK
  BY DEF Init, Idle, RequestsOK, SlotOK, RequestOK, LoadOK, AnswerOK
<1>2. EntryOK /\ StaleForAReason
  BY DEF Init, EntryOK, StaleForAReason
<1> QED
  BY <1>1, <1>2, TypeInit DEF IndInv

(* No step of a request, a write or the clock breaks the invariant.        *)
LEMMA IndStep == IndInv /\ [Next]_vars => IndInv'
  BY TypeStep, RequestsStep, EntryStep, StaleStep DEF IndInv

(* The invariant holds in every reachable state.                           *)
THEOREM Inductive == Spec => []IndInv
  BY IndInit, IndStep, PTL DEF Spec

-------------------------------------------------------------------------------
(* Every variable keeps its type.                                          *)
THEOREM TypeCorrect == Spec => []TypeOK
<1>1. IndInv => TypeOK
  BY DEF IndInv
<1> QED
  BY <1>1, Inductive, PTL

(* A report that has not changed for the life of a cache entry and twice   *)
(* the time of a request is shown as it is, with either cache and whatever *)
(* invalidations were lost.                                                *)
THEOREM QuietReportsAreFresh == Spec => []QuietMeansFresh
<1>1. IndInv => QuietMeansFresh
  <2> SUFFICES ASSUME IndInv, quiet = QuietBound,
                      NEW q \in Requests, req[q].at = "answer"
               PROVE  req[q].d = db
    BY DEF QuietMeansFresh
  <2>1. req[q].held \in Nat /\ req[q].held <= MaxHold
    BY BoundNat DEF IndInv, TypeOK
  <2>2. quiet > MaxHold + TTL + req[q].held
    BY <2>1, BoundNat
  <2> QED
    BY <2>2 DEF IndInv, RequestsOK, SlotOK, AnswerOK
<1> QED
  BY <1>1, Inductive, PTL

(* Outside the window between an announced write and its invalidation the  *)
(* cache is stale for a known reason only.                                 *)
THEOREM StalenessExplained == Spec => []StaleForAReason
<1>1. IndInv => StaleForAReason
  BY DEF IndInv
<1> QED
  BY <1>1, Inductive, PTL

-------------------------------------------------------------------------------
(* Comments and presence.                                                  *)

Events == [comment: Comments \cup {Null}, users: Nat]

(* A comment is among the events s.                                        *)
Has(s, c) == \E i \in 1 .. Len(s) : s[i].comment = c

(* A page that shows u users shows n once it has applied the events s.     *)
Latest(s, n, u) ==
  /\ (\A i \in 1 .. Len(s) : s[i].comment # Null) => u = n
  /\ \A i \in 1 .. Len(s) :
       s[i].comment = Null /\ (\A j \in 1 .. Len(s) : j > i => s[j].comment # Null)
       => s[i].users = n

OnBus(s, c) == \E i \in 1 .. Len(s) : s[i] = c

(* The room is the set of the pages whose goroutine has subscribed and not *)
(* unsubscribed.                                                           *)
RoomOK ==
  /\ IsFiniteSet(room)
  /\ \A p \in Pages : p \in room <=> srv[p].at \in {"joined", "publish", "stream"}

Quiet == \A p \in Pages : srv[p].at \in {"off", "stream"}

(* Whoever published last told the number of users to every page, unless   *)
(* the page is outdated.                                                   *)
PresenceOK ==
  Quiet => \A p \in room : tab[p] = "open" /\ ~outdated[p] =>
             Latest(chan[p], Cardinality(room), presence[p])

(* What pages show, and what is on its way to them, is in the database.    *)
ShownOK ==
  /\ \A p \in Pages : shown[p] \cup list[p].rows \subseteq Committed
  /\ \A p \in Pages, c \in Comments : Has(chan[p], c) => c \in Committed
  /\ \A c \in Comments : OnBus(bus, c) => c \in Committed

(* What a page has missed it neither shows nor will show with its list;    *)
(* before its list was read it has missed nothing.                         *)
MissedOK ==
  \A p \in Pages :
    /\ missed[p] \cap (shown[p] \cup list[p].rows) = {}
    /\ list[p].at \in {"none", "asked"} => missed[p] = {}
    /\ list[p].at # "sent" => list[p].rows = {}

(* Where a comment is that a page with a list does not show: with its      *)
(* creator, in Redis, in the page's channel, or missed.                    *)
OnItsWay(p, c) ==
  \/ c \in shown[p] \cup list[p].rows \cup missed[p]
  \/ status[c] = "committed" \/ OnBus(bus, c) \/ Has(chan[p], c)

WayOK ==
  \A p \in Pages : list[p].at \in {"sent", "done"} =>
    \A c \in Committed : OnItsWay(p, c)

PageInv == CollabTypeOK /\ RoomOK /\ PresenceOK /\ ShownOK /\ MissedOK /\ WayOK

-------------------------------------------------------------------------------
(* Events are added at the end of a channel ...                            *)
LEMMA AppendEvent ==
  ASSUME NEW s \in Seq(Events), NEW e \in Events
  PROVE  /\ Append(s, e) \in Seq(Events) /\ Len(Append(s, e)) = Len(s) + 1
         /\ \A c : Has(Append(s, e), c) <=> Has(s, c) \/ e.comment = c
         /\ e.comment = Null => \A u : Latest(Append(s, e), e.users, u)
         /\ e.comment # Null =>
              \A n, u : Latest(s, n, u) => Latest(Append(s, e), n, u)
<1>1. /\ Append(s, e) \in Seq(Events) /\ Len(Append(s, e)) = Len(s) + 1
      /\ Len(s) \in Nat /\ Append(s, e)[Len(s) + 1] = e
      /\ \A i \in 1 .. Len(s) : Append(s, e)[i] = s[i]
  OBVIOUS
<1> DEFINE t == Append(s, e)
<1>2. /\ \A i \in 1 .. Len(t) : i = Len(t) \/ i \in 1 .. Len(s)
      /\ \A i \in 1 .. Len(s) : i \in 1 .. Len(t) /\ i < Len(t) /\ t[i] = s[i]
      /\ Len(t) \in 1 .. Len(t) /\ t[Len(t)] = e
  BY <1>1
<1> HIDE DEF t
<1>3. \A c : Has(t, c) <=> Has(s, c) \/ e.comment = c
  BY <1>2 DEF Has
<1>4. e.comment = Null => \A u : Latest(t, e.users, u)
  BY <1>2 DEF Latest
<1>5. e.comment # Null => \A n, u : Latest(s, n, u) => Latest(t, n, u)
  BY <1>2 DEF Latest
<1> QED
  BY <1>1, <1>3, <1>4, <1>5 DEF t

(* ... and taken from its front.                                           *)
LEMMA TakeEvent ==
  ASSUME NEW s \in Seq(Events), s # <<>>
  PROVE  /\ Tail(s) \in Seq(Events) /\ Len(Tail(s)) < Len(s) /\ Head(s) \in Events
         /\ \A c : Has(s, c) <=> Has(Tail(s), c) \/ Head(s).comment = c
         /\ \A n, u : Latest(s, n, u) =>
              Latest(Tail(s), n, IF Head(s).comment = Null THEN Head(s).users ELSE u)
<1>1. /\ Tail(s) \in Seq(Events) /\ Len(Tail(s)) = Len(s) - 1
      /\ Len(s) \in Nat /\ Len(s) >= 1 /\ Head(s) = s[1] /\ Head(s) \in Events
      /\ \A i \in 1 .. Len(s) - 1 : Tail(s)[i] = s[i + 1]
  OBVIOUS
<1> DEFINE t == Tail(s)
<1>2. /\ \A i \in 1 .. Len(s) : i = 1 \/ (i - 1 \in 1 .. Len(t) /\ t[i - 1] = s[i])
      /\ \A i \in 1 .. Len(t) : i + 1 \in 1 .. Len(s) /\ t[i] = s[i + 1] /\ i >= 1
      /\ 1 \in 1 .. Len(s) /\ Len(t) < Len(s)
  BY <1>1
<1> HIDE DEF t
<1>3. \A c : Has(s, c) <=> Has(t, c) \/ Head(s).comment = c
  BY <1>1, <1>2 DEF Has
<1>4. ASSUME NEW n, NEW u, Latest(s, n, u)
      PROVE  Latest(t, n, IF Head(s).comment = Null THEN Head(s).users ELSE u)
  <2>1. ASSUME \A i \in 1 .. Len(t) : t[i].comment # Null
        PROVE  (IF Head(s).comment = Null THEN Head(s).users ELSE u) = n
    <3>1. \A i \in 1 .. Len(s) : i > 1 => s[i].comment # Null
      BY <1>2, <2>1
    <3> QED
      BY <1>1, <1>2, <1>4, <3>1 DEF Latest
  <2>2. ASSUME NEW i \in 1 .. Len(t), t[i].comment = Null,
               \A j \in 1 .. Len(t) : j > i => t[j].comment # Null
        PROVE  t[i].users = n
    <3>0. ASSUME NEW j \in 1 .. Len(s), j > i + 1 PROVE s[j].comment # Null
      <4>1. j - 1 \in 1 .. Len(t) /\ t[j - 1] = s[j] /\ j - 1 > i
        BY <1>2, <3>0
      <4> QED
        BY <2>2, <4>1
    <3>1. /\ i + 1 \in 1 .. Len(s) /\ t[i] = s[i + 1]
          /\ \A j \in 1 .. Len(s) : j > i + 1 => s[j].comment # Null
      BY <1>2, <3>0
    <3> QED
      BY <1>4, <2>2, <3>1 DEF Latest
  <2> QED
    BY <2>1, <2>2 DEF Latest
<1> QED
  BY <1>1, <1>3, <1>4 DEF t

(* Redis keeps the order of the comments.                                  *)
LEMMA BusSteps ==
  ASSUME NEW s \in Seq(Comments)
  PROVE  /\ \A e \in Comments : /\ Append(s, e) \in Seq(Comments)
                                /\ \A c : OnBus(Append(s, e), c) <=> OnBus(s, c) \/ c = e
         /\ s # <<>> => /\ Tail(s) \in Seq(Comments) /\ Head(s) \in Comments
                        /\ \A c : OnBus(s, c) <=> OnBus(Tail(s), c) \/ c = Head(s)
<1>1. ASSUME NEW e \in Comments
      PROVE  /\ Append(s, e) \in Seq(Comments)
             /\ \A c : OnBus(Append(s, e), c) <=> OnBus(s, c) \/ c = e
  <2>1. /\ Append(s, e) \in Seq(Comments) /\ Len(Append(s, e)) = Len(s) + 1
        /\ Len(s) \in Nat /\ Append(s, e)[Len(s) + 1] = e
        /\ \A i \in 1 .. Len(s) : Append(s, e)[i] = s[i]
    OBVIOUS
  <2> QED
    BY <2>1 DEF OnBus
<1>2. ASSUME s # <<>>
      PROVE  /\ Tail(s) \in Seq(Comments) /\ Head(s) \in Comments
             /\ \A c : OnBus(s, c) <=> OnBus(Tail(s), c) \/ c = Head(s)
  <2>1. /\ Tail(s) \in Seq(Comments) /\ Len(Tail(s)) = Len(s) - 1
        /\ Len(s) \in Nat /\ Len(s) >= 1 /\ Head(s) = s[1] /\ Head(s) \in Comments
        /\ \A i \in 1 .. Len(s) - 1 : Tail(s)[i] = s[i + 1]
    BY <1>2
  <2>2. /\ \A i \in 1 .. Len(s) : i = 1 \/ (i - 1 \in 1 .. Len(Tail(s)) /\ Tail(s)[i - 1] = s[i])
        /\ \A i \in 1 .. Len(Tail(s)) : i + 1 \in 1 .. Len(s) /\ Tail(s)[i] = s[i + 1]
        /\ 1 \in 1 .. Len(s)
    BY <2>1
  <2> QED
    BY <2>1, <2>2, ZenonT(60) DEF OnBus
<1> QED
  BY <1>1, <1>2

-------------------------------------------------------------------------------
(* Initially every page is closed and there is no comment.                 *)
LEMMA PageInit == InitCollab => PageInv
<1> SUFFICES ASSUME InitCollab PROVE PageInv
  OBVIOUS
<1>1. \A c : ~Has(<<>>, c) /\ ~OnBus(<<>>, c)
  BY DEF Has, OnBus
<1>2. CollabTypeOK
  BY CollabAssumption DEF InitCollab, CollabTypeOK, NoList, Off
<1>3. RoomOK /\ PresenceOK
  BY FS_EmptySet DEF InitCollab, RoomOK, PresenceOK, Off
<1>4. ShownOK /\ MissedOK /\ WayOK
  BY <1>1 DEF InitCollab, ShownOK, MissedOK, WayOK, NoList
<1> QED
  BY <1>2, <1>3, <1>4 DEF PageInv

(* What publishing an event does to the channels.                          *)
Sent(ev) ==
  /\ chan' \in [Pages -> Seq(Events)]
  /\ \A p \in Pages : /\ Len(chan'[p]) <= Buffer
                      /\ p \notin room => chan'[p] = <<>>
  /\ \A p \in Pages : \A c : Has(chan'[p], c) <=> Has(chan[p], c) \/ (Fits(p) /\ ev.comment = c)
  /\ \A p \in Pages : ev.comment # Null =>
       \A n, u : Latest(chan[p], n, u) => Latest(chan'[p], n, u)
  /\ \A p \in Pages : ev.comment = Null /\ Fits(p) =>
       \A u : Latest(chan'[p], ev.users, u)

(* MemoryHub.Publish does just that, within the buffers.                   *)
LEMMA Publishes ==
  ASSUME CollabTypeOK, NEW ev \in Events, Publish(ev)
  PROVE  Sent(ev)
<1>1. /\ chan \in [Pages -> Seq(Events)]
      /\ \A p \in Pages : Len(chan[p]) <= Buffer /\ (p \notin room => chan[p] = <<>>)
  BY DEF CollabTypeOK, Events
<1>2. chan' = [p \in Pages |-> IF Fits(p) THEN Append(chan[p], ev) ELSE chan[p]]
  BY DEF Publish
<1>3. ASSUME NEW p \in Pages
      PROVE  /\ chan'[p] \in Seq(Events) /\ Len(chan'[p]) <= Buffer
             /\ p \notin room => chan'[p] = <<>>
             /\ \A c : Has(chan'[p], c) <=> Has(chan[p], c) \/ (Fits(p) /\ ev.comment = c)
             /\ ev.comment # Null => \A n, u : Latest(chan[p], n, u) => Latest(chan'[p], n, u)
             /\ ev.comment = Null /\ Fits(p) => \A u : Latest(chan'[p], ev.users, u)
  <2>1. CASE Fits(p)
    <3>1. chan'[p] = Append(chan[p], ev) /\ chan[p] \in Seq(Events)
          /\ p \in room /\ Len(chan[p]) < Buffer
      BY <1>1, <1>2, <2>1 DEF Fits
    <3>2. Len(chan[p]) \in Nat /\ Len(chan'[p]) = Len(chan[p]) + 1
      BY <3>1, AppendEvent
    <3>3. Len(chan'[p]) <= Buffer
      BY <3>1, <3>2, CollabAssumption
    <3> QED
      BY <2>1, <3>1, <3>3, AppendEvent
  <2>2. CASE ~Fits(p)
    BY <1>1, <1>2, <2>2
  <2> QED
    BY <2>1, <2>2
<1> QED
  BY <1>2, <1>3 DEF Sent

(* What a comment on its way to the pages does, whether it gets there or   *)
(* is lost.                                                                *)
Delivery(c) ==
  /\ chan' \in [Pages -> Seq(Events)]
  /\ missed' \in [Pages -> SUBSET Comments]
  /\ \A p \in Pages :
       /\ Len(chan'[p]) <= Buffer /\ (p \notin room => chan'[p] = <<>>)
       /\ \A x : Has(chan[p], x) => Has(chan'[p], x)
       /\ \A x \in Comments : Has(chan'[p], x) => Has(chan[p], x) \/ x = c
       /\ \A n, u : Latest(chan[p], n, u) => Latest(chan'[p], n, u)
       /\ missed[p] \subseteq missed'[p]
       /\ \A x \in missed'[p] : x \in missed[p] \/ (x = c /\ Missed(p, c))
       /\ Missed(p, c) => c \in missed'[p] \/ Has(chan'[p], c)

(* A comment that is published or lost gets to every page or is missed.    *)
LEMMA Delivers ==
  ASSUME CollabTypeOK, NEW c \in Comments, PublishComment(c) \/ LoseComment(c)
  PROVE  Delivery(c)
<1>1. c # Null
  BY CollabAssumption
<1>2. CASE PublishComment(c)
  <2> DEFINE ev == [comment |-> c, users |-> 0]
  <2>1. ev \in Events /\ ev.comment = c
    BY DEF Events
  <2>2. Sent(ev)
    BY <1>2, <2>1, Publishes DEF PublishComment
  <2>3. missed' = [p \in Pages |-> missed[p] \cup {x \in {c} : ~Fits(p) /\ Missed(p, x)}]
        /\ missed \in [Pages -> SUBSET Comments]
    BY <1>2 DEF PublishComment, CollabTypeOK
  <2> HIDE DEF ev
  <2> QED
    BY <1>1, <2>1, <2>2, <2>3 DEF Delivery, Sent
<1>3. CASE LoseComment(c)
  <2>1. /\ missed' = [p \in Pages |-> missed[p] \cup {x \in {c} : Missed(p, x)}]
        /\ chan' = chan /\ missed \in [Pages -> SUBSET Comments]
        /\ chan \in [Pages -> Seq(Events)]
        /\ \A p \in Pages : Len(chan[p]) <= Buffer /\ (p \notin room => chan[p] = <<>>)
    BY <1>3 DEF LoseComment, CollabTypeOK, Events
  <2> QED
    BY <2>1 DEF Delivery
<1> QED
  BY <1>2, <1>3

-------------------------------------------------------------------------------
(* Every step keeps the types.                                             *)
LEMMA CollabTypeStep == PageInv /\ [NextCollab]_collabVars => CollabTypeOK'
<1> SUFFICES ASSUME PageInv, [NextCollab]_collabVars PROVE CollabTypeOK'
  OBVIOUS
<1>0. /\ CollabTypeOK /\ Cardinality(room) \in Nat
      /\ \A p \in Pages : p \in room <=> srv[p].at \in {"joined", "publish", "stream"}
  BY FS_CardinalityType DEF PageInv, RoomOK
<1> USE DEF CollabTypeOK
<1>1. ASSUME NEW p \in Pages, Open(p) PROVE CollabTypeOK'
  BY <1>0, <1>1 DEF Open, serverVars
<1>2. ASSUME NEW p \in Pages, ListComments(p) PROVE CollabTypeOK'
  BY <1>0, <1>2 DEF ListComments, serverVars, Committed
<1>3. ASSUME NEW p \in Pages, load(p) PROVE CollabTypeOK'
  BY <1>0, <1>3 DEF load, serverVars
<1>4. ASSUME NEW p \in Pages, Subscribe(p) PROVE CollabTypeOK'
  <2>1. <<>> \in Seq([comment: Comments \cup {Null}, users: Nat]) /\ Len(<<>>) <= Buffer
    BY CollabAssumption
  <2> QED
    BY <1>0, <1>4, <2>1 DEF Subscribe, Join, pageVars
<1>5. ASSUME NEW p \in Pages, presenceLocked(p) PROVE CollabTypeOK'
  BY <1>0, <1>5 DEF presenceLocked, pageVars
<1>6. ASSUME NEW p \in Pages, broadcastPresence(p) PROVE CollabTypeOK'
  <2> DEFINE ev == [comment |-> Null, users |-> srv[p].users]
  <2>1. ev \in Events
    BY <1>0 DEF Events
  <2>2. Sent(ev)
    BY <1>0, <1>6, <2>1, Publishes DEF broadcastPresence
  <2> HIDE DEF ev
  <2>3. chan' \in [Pages -> Seq([comment: Comments \cup {Null}, users: Nat])]
        /\ \A x \in Pages : Len(chan'[x]) <= Buffer /\ (x \notin room => chan'[x] = <<>>)
    BY <2>2 DEF Sent, Events
  <2>4. srv' \in [Pages -> [at: {"off", "joined", "publish", "stream", "left", "leave"}, users: Nat]]
    BY <1>0, <1>6 DEF broadcastPresence, Off
  <2>5. outdated' \in [Pages -> BOOLEAN]
    BY <1>0, <1>6 DEF broadcastPresence, Fits
  <2> QED
    BY <1>0, <1>6, <2>3, <2>4, <2>5 DEF broadcastPresence
<1>7. ASSUME NEW p \in Pages, Receive(p) PROVE CollabTypeOK'
  <2>1. chan[p] \in Seq(Events) /\ chan[p] # <<>>
    BY <1>0, <1>7 DEF Receive, Events
  <2>2. /\ Tail(chan[p]) \in Seq(Events) /\ Len(Tail(chan[p])) < Len(chan[p])
        /\ Head(chan[p]) \in Events
    BY <2>1, TakeEvent
  <2>3. chan' = [chan EXCEPT ![p] = Tail(chan[p])]
    BY <1>7 DEF Receive
  <2>4. /\ chan' \in [Pages -> Seq([comment: Comments \cup {Null}, users: Nat])]
        /\ \A x \in Pages : Len(chan'[x]) <= Buffer /\ (x \notin room => chan'[x] = <<>>)
    <3>1. p \in room
      BY <1>0, <1>7 DEF Receive
    <3>2. Len(chan[p]) \in Nat /\ Len(Tail(chan[p])) \in Nat /\ Buffer \in Nat
      BY <2>1, <2>2, CollabAssumption
    <3>3. chan' \in [Pages -> Seq([comment: Comments \cup {Null}, users: Nat])]
      BY <1>0, <2>2, <2>3 DEF Events
    <3>4. \A x \in Pages : chan'[x] = IF x = p THEN Tail(chan[p]) ELSE chan[x]
      BY <1>0, <2>3
    <3>5. ASSUME NEW x \in Pages
          PROVE  Len(chan'[x]) <= Buffer /\ (x \notin room => chan'[x] = <<>>)
      <4>1. Len(chan[x]) <= Buffer /\ (x \notin room => chan[x] = <<>>)
        BY <1>0
      <4>2. CASE x = p
        <5>1. chan'[x] = Tail(chan[p]) /\ Len(chan[p]) <= Buffer /\ x \in room
          BY <3>1, <3>4, <4>1, <4>2
        <5> HIDE DEF CollabTypeOK
        <5> QED
          BY <2>2, <3>2, <5>1
      <4>3. CASE x # p
        BY <3>4, <4>1, <4>3
      <4> QED
        BY <4>2, <4>3
    <3> QED
      BY <3>3, <3>5
  <2>5. /\ shown' \in [Pages -> SUBSET Comments] /\ missed' \in [Pages -> SUBSET Comments]
        /\ presence' \in [Pages -> Nat]
    <3> DEFINE e == Head(chan[p])
    <3>1. e.comment \in Comments \cup {Null} /\ e.users \in Nat /\ Apply(p, e)
      BY <1>7, <2>2 DEF Receive, Events
    <3>2. /\ shown \in [Pages -> SUBSET Comments] /\ missed \in [Pages -> SUBSET Comments]
          /\ presence \in [Pages -> Nat]
      BY <1>0
    <3> HIDE DEF e, CollabTypeOK
    <3>3. CASE e.comment # Null
      BY <3>1, <3>2, <3>3 DEF Apply
    <3>4. CASE e.comment = Null
      BY <3>1, <3>2, <3>4 DEF Apply
    <3> QED
      BY <3>3, <3>4
  <2> QED
    BY <1>0, <1>7, <2>4, <2>5 DEF Receive
<1>8. ASSUME NEW p \in Pages, Disconnect(p) PROVE CollabTypeOK'
  <2>1. <<>> \in Seq([comment: Comments \cup {Null}, users: Nat]) /\ Len(<<>>) <= Buffer
    BY CollabAssumption
  <2> QED
    BY <1>0, <1>8, <2>1 DEF Disconnect, Leave
<1>9. ASSUME NEW p \in Pages, Close(p) PROVE CollabTypeOK'
  BY <1>0, <1>9 DEF Close, NoList
<1>10. ASSUME NEW p \in Pages, NEW c \in Comments, CreateComment(p, c) PROVE CollabTypeOK'
  <2>1. /\ status' \in [Comments -> {"new", "committed", "sent"}]
        /\ author' \in [Comments -> Pages \cup {Null}]
    <3>1. /\ status \in [Comments -> {"new", "committed", "sent"}]
          /\ author \in [Comments -> Pages \cup {Null}]
      BY <1>0
    <3>2. /\ \/ status' = [status EXCEPT ![c] = "committed"]
             \/ status' = [status EXCEPT ![c] = "sent"]
          /\ author' = [author EXCEPT ![c] = p] \/ author' = author
      BY <1>10, Zenon DEF CreateComment, InsertComment
    <3> HIDE DEF CollabTypeOK
    <3> QED
      BY <3>1, <3>2
  <2>2. missed' \in [Pages -> SUBSET Comments]
    <3>1. CASE missed' = [x \in Pages |-> missed[x] \cup {y \in {c} : Missed(x, y)}]
      <4>1. \A x \in Pages : missed[x] \cup {y \in {c} : Missed(x, y)} \in SUBSET Comments
        BY <1>0
      <4> QED
        BY <3>1, <4>1
    <3>2. CASE missed' = missed
      BY <1>0, <3>2
    <3>3. \/ missed' = [x \in Pages |-> missed[x] \cup {y \in {c} : Missed(x, y)}]
          \/ missed' = missed
      BY <1>10, Zenon DEF CreateComment, InsertComment
    <3> QED
      BY <3>1, <3>2, <3>3
  <2> QED
    BY <1>0, <1>10, <2>1, <2>2 DEF CreateComment
<1>11. ASSUME NEW c \in Comments, Delivery(c)
       PROVE  /\ chan' \in [Pages -> Seq([comment: Comments \cup {Null}, users: Nat])]
              /\ missed' \in [Pages -> SUBSET Comments]
              /\ \A x \in Pages : Len(chan'[x]) <= Buffer /\ (x \notin room => chan'[x] = <<>>)
  BY <1>11 DEF Delivery, Events
<1>12. ASSUME NEW c \in Comments, PublishCreated(c) PROVE CollabTypeOK'
  <2>1. CASE UNCHANGED bus /\ (PublishComment(c) \/ LoseComment(c))
    BY <1>0, <1>11, <1>12, <2>1, Delivers DEF PublishCreated
  <2>2. CASE bus' = Append(bus, c) /\ UNCHANGED <<chan, missed>>
    BY <1>0, <1>12, <2>2, BusSteps DEF PublishCreated
  <2> QED
    BY <1>12, <2>1, <2>2 DEF PublishCreated, RedisPublish
<1>13. ASSUME Forward PROVE CollabTypeOK'
  <2>1. Head(bus) \in Comments /\ bus' \in Seq(Comments)
    BY <1>0, <1>13, BusSteps DEF Forward
  <2> QED
    BY <1>0, <1>11, <1>13, <2>1, Delivers DEF Forward
<1>14. ASSUME NEW c \in Comments, onComment(c) PROVE CollabTypeOK'
  BY <1>0, <1>14 DEF onComment
<1>15. CASE UNCHANGED collabVars
  BY <1>0, <1>15 DEF collabVars
<1> QED
  BY <1>1, <1>2, <1>3, <1>4, <1>5, <1>6, <1>7, <1>8, <1>9, <1>10, <1>12, <1>13,
     <1>14, <1>15 DEF NextCollab, PageStep

-------------------------------------------------------------------------------
(* Presence.                                                               *)

(* Subscribing and unsubscribing change the room and the state of the      *)
(* page's goroutine under one lock.                                        *)
LEMMA RoomStep == PageInv /\ [NextCollab]_collabVars => RoomOK'
<1> SUFFICES ASSUME PageInv, [NextCollab]_collabVars PROVE RoomOK'
  OBVIOUS
<1>0. /\ srv \in [Pages -> [at: {"off", "joined", "publish", "stream", "left", "leave"}, users: Nat]]
      /\ room \subseteq Pages /\ RoomOK
  BY DEF PageInv, CollabTypeOK
<1>1. ASSUME UNCHANGED <<room, srv>> PROVE RoomOK'
  BY <1>0, <1>1 DEF RoomOK
<1>2. ASSUME NEW p \in Pages, Subscribe(p) PROVE RoomOK'
  <2>1. /\ room' = room \cup {p} /\ srv'[p].at = "joined"
        /\ \A x \in Pages \ {p} : srv'[x] = srv[x]
    BY <1>0, <1>2 DEF Subscribe, Join
  <2>2. IsFiniteSet(room')
    BY <1>0, <2>1, FS_AddElement DEF RoomOK
  <2> QED
    BY <1>0, <2>1, <2>2 DEF RoomOK
<1>3. ASSUME NEW p \in Pages, Disconnect(p) PROVE RoomOK'
  <2>1. /\ room' = room \ {p} /\ srv'[p].at = "left"
        /\ \A x \in Pages \ {p} : srv'[x] = srv[x]
    BY <1>0, <1>3 DEF Disconnect, Leave
  <2>2. IsFiniteSet(room')
    BY <1>0, <2>1, FS_RemoveElement DEF RoomOK
  <2> QED
    BY <1>0, <2>1, <2>2 DEF RoomOK
<1>4. ASSUME NEW p \in Pages, presenceLocked(p) PROVE RoomOK'
  <2>1. /\ room' = room /\ \A x \in Pages \ {p} : srv'[x] = srv[x]
        /\ \/ srv[p].at = "joined" /\ srv'[p].at = "publish"
           \/ srv[p].at = "left" /\ srv'[p].at = "leave"
    BY <1>0, <1>4 DEF presenceLocked
  <2> QED
    BY <1>0, <2>1 DEF RoomOK
<1>5. ASSUME NEW p \in Pages, broadcastPresence(p) PROVE RoomOK'
  <2>1. /\ room' = room /\ \A x \in Pages \ {p} : srv'[x] = srv[x]
        /\ \/ srv[p].at = "publish" /\ srv'[p].at = "stream"
           \/ srv[p].at = "leave" /\ srv'[p].at = "off"
    BY <1>0, <1>5 DEF broadcastPresence, Off
  <2> QED
    BY <1>0, <2>1 DEF RoomOK
<1>6. ASSUME NEW p \in Pages,
             Open(p) \/ ListComments(p) \/ load(p) \/ Receive(p) \/ Close(p)
      PROVE  UNCHANGED <<room, srv>>
  BY <1>6 DEF Open, ListComments, load, Receive, Close, serverVars
<1>7. ASSUME NEW c \in Comments,
             PublishCreated(c) \/ onComment(c) \/ \E p \in Pages : CreateComment(p, c)
      PROVE  UNCHANGED <<room, srv>>
  BY <1>7 DEF PublishCreated, onComment, CreateComment
<1>8. Forward => UNCHANGED <<room, srv>>
  BY DEF Forward
<1>9. UNCHANGED collabVars => UNCHANGED <<room, srv>>
  BY DEF collabVars
<1> QED
  BY <1>1, <1>2, <1>3, <1>4, <1>5, <1>6, <1>7, <1>8, <1>9 DEF NextCollab, PageStep

(* The last of those who have changed the room tells every page that can   *)
(* be told; nothing that is sent or applied later changes what it said.    *)
LEMMA PresenceStep == PageInv /\ [NextCollab]_collabVars => PresenceOK'
<1> SUFFICES ASSUME PageInv, [NextCollab]_collabVars PROVE PresenceOK'
  OBVIOUS
<1>0. /\ srv \in [Pages -> [at: {"off", "joined", "publish", "stream", "left", "leave"}, users: Nat]]
      /\ room \subseteq Pages /\ chan \in [Pages -> Seq(Events)]
      /\ presence \in [Pages -> Nat] /\ tab \in [Pages -> {"closed", "open"}]
      /\ outdated \in [Pages -> BOOLEAN]
      /\ CollabTypeOK /\ RoomOK /\ PresenceOK
  BY DEF PageInv, CollabTypeOK, Events
<1> DEFINE Kept == UNCHANGED <<room, srv, presence, tab, outdated>>
<1>1. ASSUME Kept,
             \A p \in Pages : \A n, u : Latest(chan[p], n, u) => Latest(chan'[p], n, u)
      PROVE  PresenceOK'
  BY <1>0, <1>1 DEF PresenceOK, Quiet
<1>2. ASSUME UNCHANGED chan PROVE \A p \in Pages : \A n, u : Latest(chan[p], n, u) => Latest(chan'[p], n, u)
  BY <1>2
<1>3. ASSUME NEW c \in Comments, PublishComment(c) \/ LoseComment(c)
      PROVE  \A p \in Pages : \A n, u : Latest(chan[p], n, u) => Latest(chan'[p], n, u)
  BY <1>0, <1>3, Delivers DEF Delivery
<1>4. ASSUME NEW p \in Pages, ListComments(p) \/ load(p) PROVE Kept /\ UNCHANGED chan
  BY <1>4 DEF ListComments, load, serverVars
<1>5. ASSUME NEW p \in Pages, NEW c \in Comments, CreateComment(p, c) PROVE Kept /\ UNCHANGED chan
  BY <1>5 DEF CreateComment
<1>6. ASSUME NEW c \in Comments, onComment(c) PROVE Kept /\ UNCHANGED chan
  BY <1>6 DEF onComment
<1>7. ASSUME NEW c \in Comments, PublishCreated(c) PROVE PresenceOK'
  <2>1. Kept
    BY <1>7 DEF PublishCreated
  <2>2. PublishComment(c) \/ LoseComment(c) \/ UNCHANGED chan
    BY <1>7 DEF PublishCreated, RedisPublish
  <2> QED
    BY <1>1, <1>2, <1>3, <2>1, <2>2
<1>8. ASSUME Forward PROVE PresenceOK'
  <2>1. Kept /\ (PublishComment(Head(bus)) \/ LoseComment(Head(bus)))
    BY <1>8 DEF Forward
  <2>2. Head(bus) \in Comments
    BY <1>0, <1>8, BusSteps DEF Forward, CollabTypeOK
  <2> QED
    BY <1>1, <1>3, <2>1, <2>2
<1>9. ASSUME UNCHANGED collabVars PROVE Kept /\ UNCHANGED chan
  BY <1>9 DEF collabVars
<1>10. ASSUME NEW p \in Pages, Subscribe(p) \/ presenceLocked(p) \/ Disconnect(p)
       PROVE  PresenceOK'
  <2>1. srv'[p].at \in {"joined", "publish", "left", "leave"}
    BY <1>0, <1>10 DEF Subscribe, Join, presenceLocked, Disconnect, Leave
  <2> QED
    BY <2>1 DEF PresenceOK, Quiet
<1>11. ASSUME NEW p \in Pages, Open(p) PROVE PresenceOK'
  <2>1. /\ p \notin room /\ UNCHANGED <<room, srv, chan>>
        /\ \A x \in Pages \ {p} : /\ tab'[x] = tab[x] /\ presence'[x] = presence[x]
                                  /\ outdated'[x] = outdated[x]
    BY <1>0, <1>11 DEF Open, serverVars, RoomOK
  <2> QED
    BY <1>0, <2>1 DEF PresenceOK, Quiet
<1>12. ASSUME NEW p \in Pages, Close(p) PROVE PresenceOK'
  <2>1. /\ tab'[p] = "closed" /\ UNCHANGED <<room, srv, chan>>
        /\ \A x \in Pages \ {p} : /\ tab'[x] = tab[x] /\ presence'[x] = presence[x]
                                  /\ outdated'[x] = outdated[x]
    BY <1>0, <1>12 DEF Close
  <2> QED
    BY <1>0, <2>1 DEF PresenceOK, Quiet
<1>13. ASSUME NEW p \in Pages, Receive(p) PROVE PresenceOK'
  <2> DEFINE e == Head(chan[p])
  <2>1. /\ UNCHANGED <<room, srv, tab, outdated>> /\ chan[p] # <<>>
        /\ chan'[p] = Tail(chan[p])
        /\ \A x \in Pages \ {p} : chan'[x] = chan[x] /\ presence'[x] = presence[x]
        /\ presence'[p] = IF e.comment = Null THEN e.users ELSE presence[p]
    BY <1>0, <1>13 DEF Receive, Apply
  <2>2. \A n, u : Latest(chan[p], n, u) =>
          Latest(chan'[p], n, IF e.comment = Null THEN e.users ELSE u)
    BY <1>0, <2>1, TakeEvent
  <2> HIDE DEF e
  <2> QED
    BY <1>0, <2>1, <2>2 DEF PresenceOK, Quiet
<1>14. ASSUME NEW p \in Pages, broadcastPresence(p) PROVE PresenceOK'
  <2> DEFINE ev == [comment |-> Null, users |-> srv[p].users]
  <2>1. ev \in Events /\ ev.comment = Null /\ ev.users = srv[p].users
    BY <1>0 DEF Events
  <2>2. Sent(ev)
    BY <1>0, <1>14, <2>1, Publishes DEF broadcastPresence
  <2>3. /\ UNCHANGED <<room, tab, presence>>
        /\ \A x \in room : ~outdated'[x] => Fits(x) /\ srv[p].users = Cardinality(room)
    BY <1>0, <1>14 DEF broadcastPresence
  <2> HIDE DEF ev
  <2>4. \A x \in room : ~outdated'[x] => Latest(chan'[x], Cardinality(room), presence[x])
    BY <1>0, <2>1, <2>2, <2>3 DEF Sent
  <2> QED
    BY <2>3, <2>4 DEF PresenceOK
<1> QED
  BY <1>1, <1>2, <1>4, <1>5, <1>6, <1>7, <1>8, <1>9, <1>10, <1>11, <1>12, <1>13,
     <1>14 DEF NextCollab, PageStep

(* What has been committed stays committed; only creating a comment and    *)
(* publishing it change its status.                                        *)
LEMMA StatusSteps ==
  ASSUME CollabTypeOK, [NextCollab]_collabVars
  PROVE  /\ Committed \subseteq Committed'
         /\ \/ status' = status
            \/ \E c \in Comments : /\ PublishCreated(c) /\ Committed' = Committed
                                   /\ status' = [status EXCEPT ![c] = "sent"]
            \/ \E p \in Pages, c \in Comments :
                 CreateComment(p, c) /\ Committed' = Committed \cup {c}
<1>0. status \in [Comments -> {"new", "committed", "sent"}]
  BY DEF CollabTypeOK
<1>1. ASSUME NEW p \in Pages, PageStep(p) PROVE status' = status
  BY <1>1 DEF PageStep, Open, ListComments, load, Subscribe, presenceLocked, broadcastPresence,
              Receive, Disconnect, Close, serverVars
<1>2. ASSUME NEW c \in Comments, onComment(c) PROVE status' = status
  BY <1>2 DEF onComment
<1>3. ASSUME NEW c \in Comments, PublishCreated(c)
      PROVE  status' = [status EXCEPT ![c] = "sent"] /\ Committed' = Committed
  BY <1>0, <1>3 DEF PublishCreated, Committed
<1>4. ASSUME NEW p \in Pages, NEW c \in Comments, CreateComment(p, c)
      PROVE  Committed' = Committed \cup {c}
  <2>1. \E s \in {"committed", "sent"} : status' = [status EXCEPT ![c] = s]
    BY <1>4 DEF CreateComment, InsertComment
  <2> QED
    BY <1>0, <2>1 DEF Committed
<1>5. Forward \/ UNCHANGED collabVars => status' = status
  BY DEF Forward, collabVars
<1>6. status' = status => Committed' = Committed
  BY DEF Committed
<1> QED
  BY <1>1, <1>2, <1>3, <1>4, <1>5, <1>6 DEF NextCollab

(* Nothing gets to a page, or on its way, before it is committed.          *)
LEMMA ShownStep == PageInv /\ [NextCollab]_collabVars => ShownOK'
<1> SUFFICES ASSUME PageInv, [NextCollab]_collabVars PROVE ShownOK'
  OBVIOUS
<1>0. /\ chan \in [Pages -> Seq(Events)] /\ bus \in Seq(Comments)
      /\ shown \in [Pages -> SUBSET Comments]
      /\ list \in [Pages -> [at: {"none", "asked", "sent", "done"}, rows: SUBSET Comments]]
      /\ author \in [Comments -> Pages \cup {Null}]
      /\ status \in [Comments -> {"new", "committed", "sent"}]
      /\ srv \in [Pages -> [at: {"off", "joined", "publish", "stream", "left", "leave"}, users: Nat]]
      /\ CollabTypeOK /\ ShownOK
  BY DEF PageInv, CollabTypeOK, Events
<1> DEFINE Pg == \A p \in Pages : shown'[p] \cup list'[p].rows \subseteq Committed
           Ch == \A p \in Pages, c \in Comments : Has(chan'[p], c) => c \in Committed
           Bu == \A c \in Comments : OnBus(bus', c) => c \in Committed
<1>1. Committed \subseteq Committed'
  BY <1>0, StatusSteps
<1>2. ASSUME Pg, Ch, Bu PROVE ShownOK'
  BY <1>1, <1>2 DEF ShownOK
<1>3. UNCHANGED <<shown, list>> => Pg
  BY <1>0 DEF ShownOK
<1>4. UNCHANGED chan => Ch
  BY <1>0 DEF ShownOK
<1>5. UNCHANGED bus => Bu
  BY <1>0 DEF ShownOK
<1>6. ASSUME NEW c \in Comments, c \in Committed, PublishComment(c) \/ LoseComment(c) PROVE Ch
  BY <1>0, <1>6, Delivers DEF Delivery, ShownOK
<1>p. ASSUME NEW p \in Pages, shown'[p] \subseteq Committed, list'[p].rows \subseteq Committed,
             \A x \in Pages \ {p} : shown'[x] = shown[x] /\ list'[x] = list[x]
      PROVE  Pg
  BY <1>0, <1>p DEF ShownOK
<1>7. ASSUME NEW p \in Pages, Open(p) \/ Close(p) PROVE ShownOK'
  <2>1. UNCHANGED <<chan, bus>>
    BY <1>7 DEF Open, Close, serverVars
  <2>2. /\ shown'[p] = {} /\ list'[p].rows = {}
        /\ \A x \in Pages \ {p} : shown'[x] = shown[x] /\ list'[x] = list[x]
    BY <1>0, <1>7 DEF Open, Close, NoList
  <2> QED
    BY <1>2, <1>4, <1>5, <1>p, <2>1, <2>2
<1>8. ASSUME NEW p \in Pages, ListComments(p) \/ load(p) PROVE ShownOK'
  <2>1. UNCHANGED <<chan, bus>>
    BY <1>8 DEF ListComments, load, serverVars
  <2>2. /\ \A x \in Pages \ {p} : shown'[x] = shown[x] /\ list'[x] = list[x]
        /\ \/ shown'[p] = shown[p] /\ list'[p].rows = Committed
           \/ shown'[p] = list[p].rows /\ list'[p].rows = {}
    BY <1>0, <1>8 DEF ListComments, load
  <2>3. shown[p] \subseteq Committed /\ list[p].rows \subseteq Committed
    BY <1>0 DEF ShownOK
  <2> QED
    BY <1>2, <1>4, <1>5, <1>p, <2>1, <2>2, <2>3
<1>9. ASSUME NEW p \in Pages, Subscribe(p) \/ Disconnect(p) PROVE ShownOK'
  <2>1. UNCHANGED <<shown, list, bus>> /\ chan' = [chan EXCEPT ![p] = <<>>]
    BY <1>9 DEF Subscribe, Join, Disconnect, Leave, pageVars
  <2>2. \A c : ~Has(<<>>, c)
    BY DEF Has
  <2>3. Ch
    BY <1>0, <2>1, <2>2 DEF ShownOK
  <2> QED
    BY <1>2, <1>3, <1>5, <2>1, <2>3
<1>10. ASSUME NEW p \in Pages, presenceLocked(p) PROVE ShownOK'
  BY <1>2, <1>3, <1>4, <1>5, <1>10 DEF presenceLocked, pageVars
<1>11. ASSUME NEW p \in Pages, broadcastPresence(p) PROVE ShownOK'
  <2> DEFINE ev == [comment |-> Null, users |-> srv[p].users]
  <2>1. ev \in Events /\ ev.comment \notin Comments
    BY <1>0, CollabAssumption DEF Events
  <2>2. Sent(ev) /\ UNCHANGED <<shown, list, bus>>
    BY <1>0, <1>11, <2>1, Publishes DEF broadcastPresence
  <2> HIDE DEF ev
  <2>3. Ch
    BY <1>0, <2>1, <2>2 DEF Sent, ShownOK
  <2> QED
    BY <1>2, <1>3, <1>5, <2>2, <2>3
<1>12. ASSUME NEW p \in Pages, Receive(p) PROVE ShownOK'
  <2> DEFINE e == Head(chan[p])
  <2>1. /\ UNCHANGED <<list, bus>> /\ chan[p] # <<>> /\ chan' = [chan EXCEPT ![p] = Tail(chan[p])]
        /\ \/ e.comment # Null /\ shown' = [shown EXCEPT ![p] = @ \cup {e.comment}]
           \/ shown' = shown
    BY <1>12 DEF Receive, Apply
  <2>2. /\ e \in Events
        /\ \A c : Has(chan[p], c) <=> Has(Tail(chan[p]), c) \/ e.comment = c
    BY <1>0, <2>1, TakeEvent
  <2>3. e.comment \in Comments \cup {Null}
    BY <2>2 DEF Events
  <2> HIDE DEF e
  <2>4. e.comment # Null => e.comment \in Committed
    BY <1>0, <2>2, <2>3 DEF ShownOK
  <2>5. Pg
    <3>1. shown[p] \subseteq Committed /\ list[p].rows \subseteq Committed
      BY <1>0 DEF ShownOK
    <3>2. /\ \A x \in Pages \ {p} : shown'[x] = shown[x] /\ list'[x] = list[x]
          /\ list'[p] = list[p]
          /\ \/ shown'[p] = shown[p]
             \/ e.comment # Null /\ shown'[p] = shown[p] \cup {e.comment}
      BY <1>0, <2>1
    <3> QED
      BY <1>p, <2>4, <3>1, <3>2
  <2>6. Ch
    BY <1>0, <2>1, <2>2 DEF ShownOK
  <2> QED
    BY <1>2, <1>5, <2>1, <2>5, <2>6
<1>13. ASSUME NEW p \in Pages, NEW c \in Comments, CreateComment(p, c) PROVE ShownOK'
  BY <1>2, <1>3, <1>4, <1>5, <1>13 DEF CreateComment
<1>14. ASSUME NEW c \in Comments, PublishCreated(c) PROVE ShownOK'
  <2>1. UNCHANGED <<shown, list>> /\ c \in Committed
    BY <1>14 DEF PublishCreated, Committed
  <2>2. Ch
    BY <1>4, <1>6, <1>14, <2>1 DEF PublishCreated, RedisPublish
  <2>3. Bu
    <3>1. bus' = bus \/ bus' = Append(bus, c)
      BY <1>14 DEF PublishCreated, RedisPublish
    <3>2. \A x : OnBus(Append(bus, c), x) <=> OnBus(bus, x) \/ x = c
      BY <1>0, BusSteps
    <3>3. \A x \in Comments : OnBus(bus', x) => OnBus(bus, x) \/ x = c
      BY <3>1, <3>2
    <3> QED
      BY <1>0, <2>1, <3>3 DEF ShownOK
  <2> QED
    BY <1>2, <1>3, <2>1, <2>2, <2>3
<1>15. ASSUME NEW c \in Comments, onComment(c) PROVE ShownOK'
  <2>1. author[c] \in Pages /\ c \in Committed
    BY <1>0, <1>15 DEF onComment, Committed
  <2>2. UNCHANGED <<list, chan, bus>> /\ shown' = [shown EXCEPT ![author[c]] = @ \cup {c}]
    BY <1>15 DEF onComment
  <2>3. Pg
    BY <1>0, <2>1, <2>2 DEF ShownOK
  <2> QED
    BY <1>2, <1>4, <1>5, <2>2, <2>3
<1>16. ASSUME Forward PROVE ShownOK'
  <2> DEFINE c == Head(bus)
  <2>1. /\ UNCHANGED <<shown, list>> /\ bus # <<>> /\ bus' = Tail(bus)
        /\ PublishComment(c) \/ LoseComment(c)
    BY <1>16 DEF Forward
  <2>2. c \in Comments /\ \A x : OnBus(bus, x) <=> OnBus(Tail(bus), x) \/ x = c
    BY <1>0, <2>1, BusSteps
  <2> HIDE DEF c
  <2>3. c \in Committed /\ Bu
    BY <1>0, <2>1, <2>2 DEF ShownOK
  <2> QED
    BY <1>2, <1>3, <1>6, <2>1, <2>2, <2>3
<1>17. ASSUME UNCHANGED collabVars PROVE ShownOK'
  BY <1>2, <1>3, <1>4, <1>5, <1>17 DEF collabVars
<1> QED
  BY <1>7, <1>8, <1>9, <1>10, <1>11, <1>12, <1>13, <1>14, <1>15, <1>16,
     <1>17 DEF NextCollab, PageStep

(* A comment is missed by a page whose list is read and lacks it, and no   *)
(* longer once the page shows it.                                          *)
LEMMA MissedStep == PageInv /\ [NextCollab]_collabVars => MissedOK'
<1> SUFFICES ASSUME PageInv, [NextCollab]_collabVars PROVE MissedOK'
  OBVIOUS
<1>0. /\ chan \in [Pages -> Seq(Events)] /\ bus \in Seq(Comments)
      /\ shown \in [Pages -> SUBSET Comments] /\ missed \in [Pages -> SUBSET Comments]
      /\ list \in [Pages -> [at: {"none", "asked", "sent", "done"}, rows: SUBSET Comments]]
      /\ author \in [Comments -> Pages \cup {Null}]
      /\ CollabTypeOK /\ MissedOK
  BY DEF PageInv, CollabTypeOK, Events
<1>1. ASSUME UNCHANGED <<shown, list>>,
             \A p \in Pages : \A x \in missed'[p] : x \in missed[p] \/ Missed(p, x)
      PROVE  MissedOK'
  BY <1>0, <1>1 DEF MissedOK, Missed
<1>2. ASSUME NEW p \in Pages,
             \A x \in Pages \ {p} :
               shown'[x] = shown[x] /\ list'[x] = list[x] /\ missed'[x] = missed[x],
             missed'[p] \cap shown'[p] = {}, missed'[p] \cap list'[p].rows = {},
             list'[p].at \in {"none", "asked"} => missed'[p] = {},
             list'[p].at # "sent" => list'[p].rows = {}
      PROVE  MissedOK'
  BY <1>0, <1>2 DEF MissedOK
<1>3. ASSUME UNCHANGED <<shown, list, missed>> PROVE MissedOK'
  BY <1>1, <1>3
<1>4. ASSUME NEW c \in Comments, PublishComment(c) \/ LoseComment(c), UNCHANGED <<shown, list>>
      PROVE  MissedOK'
  BY <1>0, <1>1, <1>4, Delivers DEF Delivery
<1>5. ASSUME NEW p \in Pages, Open(p) \/ Close(p) PROVE MissedOK'
  <2>1. /\ \A x \in Pages \ {p} :
             shown'[x] = shown[x] /\ list'[x] = list[x] /\ missed'[x] = missed[x]
        /\ missed'[p] = {} /\ list'[p].rows = {}
    BY <1>0, <1>5 DEF Open, Close, NoList
  <2> QED
    BY <1>2, <2>1
<1>6. ASSUME NEW p \in Pages, ListComments(p) PROVE MissedOK'
  <2>1. missed[p] = {}
    BY <1>0, <1>6 DEF ListComments, MissedOK
  <2>2. /\ UNCHANGED <<shown, missed>> /\ list'[p].at = "sent"
        /\ \A x \in Pages \ {p} : list'[x] = list[x]
    BY <1>0, <1>6 DEF ListComments
  <2> QED
    BY <1>2, <2>1, <2>2
<1>7. ASSUME NEW p \in Pages, load(p) PROVE MissedOK'
  <2>1. /\ \A x \in Pages \ {p} :
             shown'[x] = shown[x] /\ list'[x] = list[x] /\ missed'[x] = missed[x]
        /\ shown'[p] = list[p].rows /\ missed'[p] = missed[p] \cup (shown[p] \ list[p].rows)
        /\ list'[p].at = "done" /\ list'[p].rows = {}
    BY <1>0, <1>7 DEF load
  <2>2. missed[p] \cap list[p].rows = {}
    BY <1>0 DEF MissedOK
  <2> QED
    BY <1>2, <2>1, <2>2
<1>8. ASSUME NEW p \in Pages, Subscribe(p) \/ presenceLocked(p) \/ broadcastPresence(p)
      PROVE  MissedOK'
  BY <1>3, <1>8 DEF Subscribe, presenceLocked, broadcastPresence, pageVars
<1>9. ASSUME NEW p \in Pages, Receive(p) PROVE MissedOK'
  <2>1. CASE UNCHANGED <<shown, missed>>
    BY <1>3, <1>9, <2>1 DEF Receive
  <2>2. CASE \E c : /\ shown' = [shown EXCEPT ![p] = @ \cup {c}]
                    /\ missed' = [missed EXCEPT ![p] = @ \ {c}]
    <3>1. PICK c : /\ shown' = [shown EXCEPT ![p] = @ \cup {c}]
                   /\ missed' = [missed EXCEPT ![p] = @ \ {c}]
      BY <2>2
    <3>2. /\ \A x \in Pages \ {p} : shown'[x] = shown[x] /\ missed'[x] = missed[x]
          /\ shown'[p] = shown[p] \cup {c} /\ missed'[p] = missed[p] \ {c} /\ list' = list
      BY <1>0, <1>9, <3>1 DEF Receive
    <3>3. /\ missed[p] \cap shown[p] = {} /\ missed[p] \cap list[p].rows = {}
          /\ list[p].at \in {"none", "asked"} => missed[p] = {}
          /\ list[p].at # "sent" => list[p].rows = {}
      BY <1>0 DEF MissedOK
    <3> QED
      BY <1>2, <3>2, <3>3
  <2> QED
    BY <1>9, <2>1, <2>2 DEF Receive, Apply
<1>10. ASSUME NEW p \in Pages, Disconnect(p) PROVE MissedOK'
  <2>1. UNCHANGED <<shown, list>>
    BY <1>10 DEF Disconnect
  <2>2. \A q \in Pages : \A x \in missed'[q] : x \in missed[q] \/ Missed(q, x)
    BY <1>0, <1>10 DEF Disconnect
  <2> QED
    BY <1>1, <2>1, <2>2
<1>11. ASSUME NEW p \in Pages, NEW c \in Comments, CreateComment(p, c) PROVE MissedOK'
  <2>1. UNCHANGED <<shown, list>>
    BY <1>11 DEF CreateComment
  <2>2. \A q \in Pages : \A x \in missed'[q] : x \in missed[q] \/ Missed(q, x)
    BY <1>0, <1>11 DEF CreateComment, InsertComment
  <2> QED
    BY <1>1, <2>1, <2>2
<1>12. ASSUME NEW c \in Comments, PublishCreated(c) PROVE MissedOK'
  <2>1. UNCHANGED <<shown, list>>
    BY <1>12 DEF PublishCreated
  <2>2. PublishComment(c) \/ LoseComment(c) \/ UNCHANGED missed
    BY <1>12 DEF PublishCreated, RedisPublish
  <2> QED
    BY <1>3, <1>4, <2>1, <2>2
<1>13. ASSUME NEW c \in Comments, onComment(c) PROVE MissedOK'
  <2> DEFINE p == author[c]
  <2>1. p \in Pages
    BY <1>0, <1>13 DEF onComment
  <2>2. /\ \A x \in Pages \ {p} : shown'[x] = shown[x] /\ missed'[x] = missed[x]
        /\ shown'[p] = shown[p] \cup {c} /\ missed'[p] = missed[p] \ {c} /\ list' = list
    BY <1>0, <1>13, <2>1 DEF onComment
  <2> HIDE DEF p
  <2>3. /\ missed[p] \cap shown[p] = {} /\ missed[p] \cap list[p].rows = {}
        /\ list[p].at \in {"none", "asked"} => missed[p] = {}
        /\ list[p].at # "sent" => list[p].rows = {}
    BY <1>0, <2>1 DEF MissedOK
  <2> QED
    BY <1>2, <2>1, <2>2, <2>3
<1>14. ASSUME Forward PROVE MissedOK'
  <2>1. /\ UNCHANGED <<shown, list>> /\ bus # <<>>
        /\ PublishComment(Head(bus)) \/ LoseComment(Head(bus))
    BY <1>14 DEF Forward
  <2> QED
    BY <1>0, <1>4, <2>1, BusSteps
<1>15. ASSUME UNCHANGED collabVars PROVE MissedOK'
  BY <1>3, <1>15 DEF collabVars
<1> QED
  BY <1>5, <1>6, <1>7, <1>8, <1>9, <1>10, <1>11, <1>12, <1>13, <1>14, <1>15 DEF NextCollab, PageStep

(* A comment that a page with a list neither shows nor has missed stays on *)
(* its way to the page.                                                    *)
LEMMA WayStep == PageInv /\ [NextCollab]_collabVars => WayOK'
<1> SUFFICES ASSUME PageInv, [NextCollab]_collabVars PROVE WayOK'
  OBVIOUS
<1>0. /\ chan \in [Pages -> Seq(Events)] /\ bus \in Seq(Comments)
      /\ shown \in [Pages -> SUBSET Comments] /\ missed \in [Pages -> SUBSET Comments]
      /\ list \in [Pages -> [at: {"none", "asked", "sent", "done"}, rows: SUBSET Comments]]
      /\ status \in [Comments -> {"new", "committed", "sent"}]
      /\ author \in [Comments -> Pages \cup {Null}]
      /\ srv \in [Pages -> [at: {"off", "joined", "publish", "stream", "left", "leave"}, users: Nat]]
      /\ \A p \in Pages : p \notin room => chan[p] = <<>>
      /\ \A p \in Pages : p \in room <=> srv[p].at \in {"joined", "publish", "stream"}
      /\ CollabTypeOK /\ WayOK
  BY DEF PageInv, CollabTypeOK, RoomOK, Events
<1> DEFINE Listed(p) == list[p].at \in {"sent", "done"}
           At(p) == shown[p] \cup list[p].rows \cup missed[p]
(* It is enough to look at the pages whose list was already read.          *)
<1>1. ASSUME Committed' = Committed,
             \A p \in Pages : list'[p].at \in {"sent", "done"} =>
               \/ Listed(p) /\ \A c \in Committed : OnItsWay(p, c) => OnItsWay(p, c)'
               \/ Committed \subseteq list'[p].rows
      PROVE  WayOK'
  <2> SUFFICES ASSUME NEW p \in Pages, list'[p].at \in {"sent", "done"}, NEW c \in Committed
               PROVE  OnItsWay(p, c)'
    BY <1>1 DEF WayOK
  <2>1. CASE Listed(p)
    BY <1>0, <1>1, <2>1 DEF WayOK, OnItsWay
  <2>2. CASE Committed \subseteq list'[p].rows
    BY <2>2 DEF OnItsWay
  <2> QED
    BY <1>1, <2>1, <2>2
(* The steps of a page that leave everybody's comments where they are.     *)
<1>2. ASSUME UNCHANGED <<status, bus>>, NEW p \in Pages,
             \A x \in Pages \ {p} : /\ list'[x] = list[x] /\ shown'[x] = shown[x]
                                    /\ missed'[x] = missed[x] /\ chan'[x] = chan[x],
             list'[p].at \in {"sent", "done"} =>
               \/ /\ Listed(p)
                  /\ \A c \in Committed : c \in At(p) \/ Has(chan[p], c)
                                          => c \in At(p)' \/ Has(chan'[p], c)
               \/ Committed \subseteq list'[p].rows
      PROVE  WayOK'
  <2>1. Committed' = Committed
    BY <1>2 DEF Committed
  <2>2. ASSUME NEW x \in Pages, x # p, list'[x].at \in {"sent", "done"}
        PROVE  Listed(x) /\ \A c \in Committed : OnItsWay(x, c) => OnItsWay(x, c)'
    BY <1>2, <2>2 DEF OnItsWay
  <2>3. ASSUME Listed(p), \A c \in Committed : c \in At(p) \/ Has(chan[p], c)
                                               => c \in At(p)' \/ Has(chan'[p], c)
        PROVE  \A c \in Committed : OnItsWay(p, c) => OnItsWay(p, c)'
    BY <1>2, <2>3 DEF OnItsWay
  <2> HIDE DEF Listed, At
  <2> QED
    BY <1>1, <1>2, <2>1, <2>2, <2>3
(* A comment that goes to the pages reaches those that list it or they     *)
(* miss it.                                                                *)
<1>3. ASSUME NEW c \in Comments, PublishComment(c) \/ LoseComment(c), UNCHANGED <<shown, list>>,
             Committed' = Committed,
             \A x \in Comments : x # c => /\ status[x] = "committed" => status'[x] = "committed"
                                          /\ OnBus(bus, x) => OnBus(bus', x)
      PROVE  WayOK'
  <2>1. Delivery(c)
    BY <1>0, <1>3, Delivers
  <2>2. ASSUME NEW p \in Pages, NEW x \in Committed, Listed(p), OnItsWay(p, x)
        PROVE  OnItsWay(p, x)'
    <3>0. x \in Comments
      BY DEF Committed
    <3>1. CASE x \in At(p) \/ Has(chan[p], x)
      BY <1>3, <2>1, <3>0, <3>1 DEF Delivery, OnItsWay
    <3>2. CASE x # c
      BY <1>3, <2>1, <2>2, <3>0, <3>1, <3>2 DEF OnItsWay
    <3>3. CASE x = c /\ x \notin At(p)
      <4>1. Missed(p, c)
        BY <2>2, <3>3 DEF Missed
      <4> QED
        BY <2>1, <3>3, <4>1 DEF Delivery, OnItsWay
    <3> QED
      BY <3>1, <3>2, <3>3
  <2> QED
    BY <1>1, <1>3, <2>2
<1>4. ASSUME NEW p \in Pages, Open(p) \/ Close(p) PROVE WayOK'
  <2>1. /\ \A x \in Pages \ {p} : /\ list'[x] = list[x] /\ shown'[x] = shown[x]
                                  /\ missed'[x] = missed[x] /\ chan'[x] = chan[x]
        /\ list'[p].at \in {"none", "asked"} /\ UNCHANGED <<status, bus>>
    BY <1>0, <1>4 DEF Open, Close, NoList, serverVars
  <2> HIDE DEF Listed, At
  <2> QED
    BY <1>2, <2>1
<1>5. ASSUME NEW p \in Pages, ListComments(p) PROVE WayOK'
  <2>1. /\ \A x \in Pages \ {p} : /\ list'[x] = list[x] /\ shown'[x] = shown[x]
                                  /\ missed'[x] = missed[x] /\ chan'[x] = chan[x]
        /\ list'[p].rows = Committed /\ UNCHANGED <<status, bus>>
    BY <1>0, <1>5 DEF ListComments, serverVars
  <2> HIDE DEF Listed, At
  <2> QED
    BY <1>2, <2>1
<1>6. ASSUME NEW p \in Pages, load(p) PROVE WayOK'
  <2>1. /\ \A x \in Pages \ {p} : /\ list'[x] = list[x] /\ shown'[x] = shown[x]
                                  /\ missed'[x] = missed[x] /\ chan'[x] = chan[x]
        /\ UNCHANGED <<chan, status, bus>> /\ list[p].at = "sent"
        /\ shown'[p] = list[p].rows /\ missed'[p] = missed[p] \cup (shown[p] \ list[p].rows)
    BY <1>0, <1>6 DEF load, serverVars
  <2>2. Listed(p) /\ \A c : c \in At(p) => c \in At(p)'
    BY <2>1
  <2> HIDE DEF Listed, At
  <2> QED
    BY <1>2, <2>1, <2>2
<1>7. ASSUME UNCHANGED <<status, bus, list, shown, missed>>,
             \A p \in Pages, c \in Comments : Has(chan[p], c) => Has(chan'[p], c)
      PROVE  WayOK'
  <2>1. Committed' = Committed /\ Committed \subseteq Comments
    BY <1>7 DEF Committed
  <2> QED
    BY <1>1, <1>7, <2>1 DEF OnItsWay
<1>8. ASSUME NEW p \in Pages, Subscribe(p) PROVE WayOK'
  <2>1. UNCHANGED <<status, bus, list, shown, missed>> /\ chan' = [chan EXCEPT ![p] = <<>>]
        /\ chan[p] = <<>>
    BY <1>0, <1>8 DEF Subscribe, Join, pageVars
  <2>2. chan' = chan
    BY <1>0, <2>1
  <2> QED
    BY <1>7, <2>1, <2>2
<1>9. ASSUME NEW p \in Pages, presenceLocked(p) PROVE WayOK'
  BY <1>7, <1>9 DEF presenceLocked, pageVars
<1>10. ASSUME NEW p \in Pages, broadcastPresence(p) PROVE WayOK'
  <2> DEFINE ev == [comment |-> Null, users |-> srv[p].users]
  <2>1. ev \in Events
    BY <1>0 DEF Events
  <2>2. Sent(ev) /\ UNCHANGED <<status, bus, list, shown, missed>>
    BY <1>0, <1>10, <2>1, Publishes DEF broadcastPresence
  <2> HIDE DEF ev
  <2> QED
    BY <1>7, <2>2 DEF Sent
<1>11. ASSUME NEW p \in Pages, Receive(p) PROVE WayOK'
  <2> DEFINE e == Head(chan[p])
  <2>1. /\ UNCHANGED <<status, bus, list>> /\ chan[p] # <<>>
        /\ \A x \in Pages \ {p} : /\ shown'[x] = shown[x] /\ missed'[x] = missed[x]
                                  /\ chan'[x] = chan[x]
        /\ chan'[p] = Tail(chan[p])
        /\ \/ /\ e.comment # Null
              /\ shown'[p] = shown[p] \cup {e.comment} /\ missed'[p] = missed[p] \ {e.comment}
           \/ e.comment = Null /\ shown'[p] = shown[p] /\ missed'[p] = missed[p]
    BY <1>0, <1>11 DEF Receive, Apply
  <2>2. \A c : Has(chan[p], c) <=> Has(chan'[p], c) \/ e.comment = c
    BY <1>0, <2>1, TakeEvent
  <2> HIDE DEF e
  <2>3. \A c \in Committed : c # Null
    BY CollabAssumption DEF Committed
  <2>4. \A c \in Committed : c \in At(p) \/ Has(chan[p], c) => c \in At(p)' \/ Has(chan'[p], c)
    BY <2>1, <2>2, <2>3
  <2>5. list'[p] = list[p] /\ (list'[p].at \in {"sent", "done"} => Listed(p))
    BY <2>1
  <2> HIDE DEF Listed, At
  <2> QED
    BY <1>2, <2>1, <2>4, <2>5
<1>12. ASSUME NEW p \in Pages, Disconnect(p) PROVE WayOK'
  <2>1. /\ UNCHANGED <<status, bus, list, shown>>
        /\ \A x \in Pages \ {p} : missed'[x] = missed[x] /\ chan'[x] = chan[x]
        /\ missed'[p] = missed[p] \cup {c \in Comments : Missed(p, c) /\
                          \E i \in DOMAIN chan[p] : chan[p][i].comment = c}
    BY <1>0, <1>12 DEF Disconnect, Leave
  <2>2. ASSUME NEW c \in Committed, Listed(p), c \in At(p) \/ Has(chan[p], c)
        PROVE  c \in At(p)'
    <3>1. CASE c \in At(p)
      BY <2>1, <3>1
    <3>2. CASE c \notin At(p)
      <4>1. Missed(p, c) /\ c \in Comments
        BY <2>2, <3>2 DEF Missed, Committed
      <4>2. \E i \in DOMAIN chan[p] : chan[p][i].comment = c
        BY <1>0, <2>2, <3>2 DEF Has
      <4> QED
        BY <2>1, <4>1, <4>2
    <3> QED
      BY <3>1, <3>2
  <2>3. list'[p] = list[p] /\ (list'[p].at \in {"sent", "done"} => Listed(p))
    BY <2>1
  <2> HIDE DEF Listed, At
  <2> QED
    BY <1>2, <2>1, <2>2, <2>3
<1>13. ASSUME NEW p \in Pages, NEW c \in Comments, CreateComment(p, c) PROVE WayOK'
  <2>1. /\ Committed' = Committed \cup {c} /\ UNCHANGED <<bus, list, shown, chan>>
        /\ status[c] = "new"
    BY <1>0, <1>13, StatusSteps DEF CreateComment, InsertComment, Committed
  <2>2. \A x \in Comments : status[x] = "committed" => status'[x] = "committed"
    BY <1>0, <1>13 DEF CreateComment, InsertComment
  <2>3. \A q \in Pages : missed[q] \subseteq missed'[q]
    BY <1>0, <1>13 DEF CreateComment, InsertComment
  <2>4. \/ status'[c] = "committed"
        \/ \A q \in Pages : Missed(q, c) => c \in missed'[q]
    BY <1>0, <1>13 DEF CreateComment, InsertComment
  <2>5. ASSUME NEW q \in Pages, Listed(q), NEW x \in Committed PROVE OnItsWay(q, x)'
    <3>1. OnItsWay(q, x) /\ x \in Comments
      BY <1>0, <2>5 DEF WayOK, Committed
    <3> QED
      BY <2>1, <2>2, <2>3, <3>1 DEF OnItsWay
  <2>6. ASSUME NEW q \in Pages, Listed(q) PROVE OnItsWay(q, c)'
    BY <2>1, <2>3, <2>4, <2>6 DEF OnItsWay, Missed
  <2> QED
    BY <2>1, <2>5, <2>6 DEF WayOK
<1>14. ASSUME NEW c \in Comments, PublishCreated(c) PROVE WayOK'
  <2>1. /\ Committed' = Committed /\ status' = [status EXCEPT ![c] = "sent"]
        /\ UNCHANGED <<shown, list>>
    BY <1>0, <1>14 DEF PublishCreated, Committed
  <2>2. \A x \in Comments : x # c => (status[x] = "committed" => status'[x] = "committed")
    BY <1>0, <2>1
  <2>3. CASE (PublishComment(c) \/ LoseComment(c)) /\ UNCHANGED bus
    BY <1>3, <2>1, <2>2, <2>3
  <2>4. CASE bus' = Append(bus, c) /\ UNCHANGED <<chan, missed>>
    <3>1. \A x : OnBus(bus', x) <=> OnBus(bus, x) \/ x = c
      BY <1>0, <2>4, BusSteps
    <3>2. ASSUME NEW p \in Pages, NEW x \in Committed, OnItsWay(p, x) PROVE OnItsWay(p, x)'
      <4>1. x \in Comments
        BY DEF Committed
      <4> QED
        BY <2>1, <2>2, <2>4, <3>1, <3>2, <4>1 DEF OnItsWay
    <3> QED
      BY <1>1, <2>1, <3>2
  <2> QED
    BY <1>14, <2>3, <2>4 DEF PublishCreated, RedisPublish
<1>15. ASSUME NEW c \in Comments, onComment(c) PROVE WayOK'
  <2>1. PICK p \in Pages : p = author[c]
    BY <1>0, <1>15 DEF onComment
  <2>2. /\ \A x \in Pages \ {p} : shown'[x] = shown[x] /\ missed'[x] = missed[x]
        /\ shown'[p] = shown[p] \cup {c} /\ missed'[p] = missed[p] \ {c}
        /\ UNCHANGED <<list, chan, status, bus>>
    BY <1>0, <1>15, <2>1 DEF onComment
  <2>3. \A x : x \in At(p) => x \in At(p)'
    BY <2>2
  <2>4. list'[p] = list[p] /\ (list'[p].at \in {"sent", "done"} => Listed(p))
    BY <2>2
  <2> HIDE DEF Listed, At
  <2> QED
    BY <1>2, <2>1, <2>2, <2>3, <2>4
<1>16. ASSUME Forward PROVE WayOK'
  <2> DEFINE c == Head(bus)
  <2>1. /\ UNCHANGED <<shown, list, status>> /\ bus # <<>> /\ bus' = Tail(bus)
        /\ PublishComment(c) \/ LoseComment(c)
    BY <1>16 DEF Forward
  <2>2. c \in Comments /\ \A x : OnBus(bus, x) <=> OnBus(Tail(bus), x) \/ x = c
    BY <1>0, <2>1, BusSteps
  <2>3. Committed' = Committed
    BY <2>1 DEF Committed
  <2> HIDE DEF c
  <2> QED
    BY <1>3, <2>1, <2>2, <2>3
<1>17. ASSUME UNCHANGED collabVars PROVE WayOK'
  BY <1>7, <1>17 DEF collabVars
<1> QED
  BY <1>4, <1>5, <1>6, <1>8, <1>9, <1>10, <1>11, <1>12, <1>13, <1>14, <1>15, <1>16,
     <1>17 DEF NextCollab, PageStep

(* Every step keeps the inductive invariant.                               *)
LEMMA PageInvStep == PageInv /\ [NextCollab]_collabVars => PageInv'
  BY CollabTypeStep, RoomStep, PresenceStep, ShownStep, MissedStep, WayStep DEF PageInv

(* What PageInv says of pages and comments always holds.                   *)
LEMMA PageInvHolds == CollabSpec => []PageInv
<1>1. PageInv /\ [NextCollab]_collabVars => PageInv'
  BY PageInvStep
<1> QED
  BY PageInit, <1>1, PTL DEF CollabSpec

(* Hub and pages keep their types, no channel outgrows its buffer.         *)
THEOREM CollabTypeCorrect == CollabSpec => []CollabTypeOK
<1>1. PageInv => CollabTypeOK
  BY DEF PageInv
<1> QED
  BY <1>1, PageInvHolds, PTL

(* MemoryHub's room and broadcastPresence (src/internal/collab): once the  *)
(* goroutines have published what they read, every page shows the number   *)
(* of users in the room, unless the last presence was dropped or old.      *)
THEOREM PresenceIsRight == CollabSpec => []PresenceSettles
<1>1. PageInv => PresenceSettles
  <2> SUFFICES ASSUME PageInv, \A p \in Pages : srv[p].at \in {"off", "stream"},
                      NEW p \in Pages, Streaming(p), ~outdated[p]
               PROVE  presence[p] = Cardinality(room)
    BY DEF PresenceSettles
  <2>1. p \in room /\ tab[p] = "open" /\ chan[p] = <<>>
    BY DEF PageInv, RoomOK, Streaming
  <2>2. Latest(<<>>, Cardinality(room), presence[p])
    BY <2>1 DEF PageInv, PresenceOK, Quiet
  <2> QED
    BY <2>2 DEF Latest
<1> QED
  BY <1>1, PageInvHolds, PTL

(* The list of a report's comments and the stream of new ones together     *)
(* (Service.ListComments, Handler.Events, ReportPage): once nothing is on  *)
(* its way a page shows the comments of the database but for those that    *)
(* it is known to have missed.                                             *)
THEOREM CommentsAreShown == CollabSpec => []CommentsShown
<1>1. PageInv => CommentsShown
  <2> SUFFICES ASSUME PageInv, bus = <<>>, \A c \in Comments : status[c] # "committed",
                      NEW p \in Pages, Streaming(p), list[p].at = "done"
               PROVE  shown[p] = Committed \ missed[p]
    BY DEF CommentsShown
  <2>1. chan[p] = <<>> /\ list[p].rows = {} /\ missed[p] \cap shown[p] = {}
    BY DEF PageInv, MissedOK, Streaming
  <2>2. shown[p] \subseteq Committed
    BY DEF PageInv, ShownOK
  <2>3. \A c : ~Has(<<>>, c) /\ ~OnBus(<<>>, c)
    BY DEF Has, OnBus
  <2>4. \A c \in Committed : c \in shown[p] \cup missed[p]
    <3>1. \A c \in Committed : OnItsWay(p, c) /\ c \in Comments
      BY DEF PageInv, WayOK, Committed
    <3> QED
      BY <2>1, <2>3, <3>1 DEF OnItsWay
  <2> QED
    BY <2>1, <2>2, <2>4
<1> QED
  BY <1>1, PageInvHolds, PTL

===============================================================================
