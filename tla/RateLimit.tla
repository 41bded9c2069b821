------------------------------ MODULE RateLimit ------------------------------
(***************************************************************************)
(* The API's rate limit (src/internal/platform/httpx): token buckets in    *)
(* the process (ratelimit.go) or fixed windows in Redis                    *)
(* (ratelimit_redis.go), by the client's address (clientip.go).  All       *)
(* requests here are for one path that is not under /v1/auth/; the auth    *)
(* routes have limiters of their own with other constants.                 *)
(*                                                                         *)
(* A request is in "limit" until the limiter has decided, in "expire"      *)
(* between INCR and EXPIRE, and in "list" once it has been admitted.       *)
(***************************************************************************)
EXTENDS Integers, FiniteSetsExt

CONSTANTS Requests, Addresses, None,
          Trusted,    \* TRUSTED_PROXIES
          Burst, Rate, Window, Cutoff,  \* Rate per tick; Cutoff is the 10 minutes of cleanup
          MaxFaults   \* bound on failing calls

\* A bucket that is old enough to be dropped is full again: with the defaults 40 tokens at
\* 20 a second and 10 minutes.
ASSUME RateLimitAssumption ==
  /\ {Burst, Rate, Window, Cutoff} \subseteq Nat \ {0}
  /\ Burst <= Rate * Cutoff
  /\ Trusted \subseteq Addresses
  /\ Addresses \cap {None, "garbled"} = {}
  /\ None \notin Nat /\ None \notin [tokens : Nat, idle : Nat]

VARIABLES
  backend,   \* "memory" or "redis", by configuration
  entries,   \* memory: an address's bucket, its tokens and the time since it was used
  counters,  \* Redis: an address's count and the time left, None without an expiry
  req,       \* requests in flight: [at, key, from]
  recent,    \* history: recent[a][i] requests of address a were admitted in the last i ticks
  faults     \* calls that have failed

limitVars == <<backend, entries, counters, recent>>

Idle == [at |-> "idle", key |-> None, from |-> None]

NoKey == [n |-> 0, left |-> None]

InitLimit ==
  /\ backend \in {"memory", "redis"}
  /\ entries = [a \in Addresses |-> None]
  /\ counters = [a \in Addresses |-> NoKey]
  /\ req = [q \in Requests |-> Idle]
  /\ recent = [a \in Addresses |-> [i \in 1..Window |-> 0]]
  /\ faults = 0

Fault ==
  /\ faults < MaxFaults
  /\ faults' = faults + 1

-----------------------------------------------------------------------------
(* The key of a request: an address, given the connection's and the        *)
(* forwarding headers (an address, None, or "garbled").                    *)

isTrusted(a) == a \in Trusted

ClientIP(remote, realIP, forwardedFor) ==
  IF ~isTrusted(remote) THEN remote
  ELSE IF realIP \in Addresses THEN realIP
  ELSE IF forwardedFor \in Addresses THEN forwardedFor
  ELSE remote

\* The keys under which a client's request may arrive: directly with any headers, or
\* through a proxy that puts the client's address into one of the two.
KeysOf ==
  LET header == Addresses \cup {None, "garbled"}
  IN  [from \in Addresses |->
         {ClientIP(from, realIP, forwardedFor) : realIP, forwardedFor \in header} \cup
         {ClientIP(remote, from, forwardedFor) : remote \in Trusted, forwardedFor \in header} \cup
         {ClientIP(remote, realIP, from) : remote \in Trusted, realIP \in {None, "garbled"}}]

Arrive(q, from) ==
  /\ req[q].at = "idle"
  /\ \E key \in KeysOf[from] :
       req' = [req EXCEPT ![q] = [at |-> "limit", key |-> key, from |-> from]]
  /\ UNCHANGED <<limitVars, faults>>

Admit(q) ==
  /\ req' = [req EXCEPT ![q].at = "list"]
  /\ recent' = [recent EXCEPT ![req[q].from] = [i \in 1..Window |-> @[i] + 1]]

\* 429: the client is to wait for the window and try again.
Refuse(q) ==
  /\ req' = [req EXCEPT ![q] = Idle]
  /\ UNCHANGED recent

-----------------------------------------------------------------------------
(* RateLimit: token buckets.                                               *)

\* Mutant of cleanup: every bucket is forgotten.
cleanupAll(crowded) == [a \in Addresses |-> IF crowded THEN None ELSE entries[a]]

\* With more than 10000 addresses known, those not seen for Cutoff are forgotten.
cleanup(crowded) ==
  [a \in Addresses |->
     IF crowded /\ entries[a] # None /\ entries[a].idle > Cutoff THEN None ELSE entries[a]]

NewLimiter == [tokens |-> Burst, idle |-> 0]

\* get and Allow of the limiter it returns: an entry just seen is never dropped between.
MemoryAllow(q) ==
  /\ backend = "memory" /\ req[q].at = "limit"
  /\ \E crowded \in BOOLEAN :
       LET known == cleanup(crowded)
           found == known[req[q].key]
           e == IF found = None THEN NewLimiter ELSE [found EXCEPT !.idle = 0]
       IN  /\ entries' = [known EXCEPT ![req[q].key] = [e EXCEPT !.tokens = Max({0, @ - 1})]]
           /\ \/ e.tokens > 0 /\ Admit(q)
              \/ e.tokens = 0 /\ Refuse(q)
  /\ UNCHANGED <<backend, counters, faults>>

-----------------------------------------------------------------------------
(* RateLimitRedis: fixed windows.                                          *)

redisWindowCapacity == Max({Burst, Rate * Window, 1})

\* The count is not followed beyond the first that is refused.
CountBound == redisWindowCapacity + 1

\* Mutant of redisAllow: every request renews the expiry.
redisAllowSliding(q) ==
  LET k == req[q].key
      n == Min({CountBound, counters[k].n + 1})
  IN
  /\ backend = "redis" /\ req[q].at = "limit"
  /\ counters' = [counters EXCEPT ![k] = [n |-> n, left |-> Window]]
  /\ \/ n <= redisWindowCapacity /\ Admit(q)
     \/ n > redisWindowCapacity /\ Refuse(q)
  /\ UNCHANGED <<backend, entries, faults>>

\* INCR creates a key without an expiry.  A failing INCR refuses, the count may have been
\* raised all the same.
redisAllow(q) ==
  LET k == req[q].key
      n == Min({CountBound, counters[k].n + 1})
      counted == [counters EXCEPT ![k].n = n]
  IN
  /\ backend = "redis" /\ req[q].at = "limit"
  /\ \/ /\ counters' = counted
        /\ UNCHANGED faults
        /\ \/ n = 1 /\ req' = [req EXCEPT ![q].at = "expire"] /\ UNCHANGED recent
           \/ n \in 2..redisWindowCapacity /\ Admit(q)
           \/ n > redisWindowCapacity /\ Refuse(q)
     \/ Fault /\ counters' \in {counters, counted} /\ Refuse(q)
  /\ UNCHANGED <<backend, entries>>

\* EXPIRE, whose error is dropped.  The request that counted 1 is always within the limit.
redisExpire(q) ==
  /\ req[q].at = "expire"
  /\ \/ counters' = [counters EXCEPT ![req[q].key].left = Window] /\ UNCHANGED faults
     \/ Fault /\ UNCHANGED counters
  /\ Admit(q)
  /\ UNCHANGED <<backend, entries>>

Limit(q) == MemoryAllow(q) \/ redisAllow(q) \/ redisExpire(q)

-----------------------------------------------------------------------------
(* Time.                                                                   *)

Refill(e) ==
  IF e = None THEN None
  ELSE [tokens |-> Min({Burst, e.tokens + Rate}), idle |-> Min({Cutoff + 1, e.idle + 1})]

Expire(c) ==
  IF c.left = None THEN c
  ELSE IF c.left = 1 THEN NoKey
  ELSE [c EXCEPT !.left = @ - 1]

PassTime ==
  /\ entries' = [a \in Addresses |-> Refill(entries[a])]
  /\ counters' = [a \in Addresses |-> Expire(counters[a])]
  /\ recent' = [a \in Addresses |-> [i \in 1..Window |-> IF i = 1 THEN 0 ELSE recent[a][i - 1]]]
  /\ UNCHANGED <<backend, req, faults>>
=============================================================================
