----------------------------- MODULE RateLimiter -----------------------------
(***************************************************************************)
(* The token buckets of the API: one store of them in Redis, shared by the *)
(* instances, and one in the memory of each instance for a check Redis     *)
(* does not answer.  A request checks its buckets in parallel with each    *)
(* other and with those of other requests, so that checks come in any      *)
(* order.  Tokens are counted in units of one over the window, so that a   *)
(* unit of time refills Limit.                                             *)
(***************************************************************************)
EXTENDS Integers

CONSTANTS
  Keys,        \* names of buckets
  Limit,       \* tokens of a full bucket, by key
  Window,      \* the time in which an empty one fills, by key
  Processes,   \* processes that serve requests
  SweepEvery,  \* time between two sweeps of a memory
  MaxTime,     \* bound on time
  MaxLosses    \* bound on restarts

ASSUME BucketAssumption ==
  /\ Limit \in [Keys -> Nat \ {0}] /\ Window \in [Keys -> Nat \ {0}]
  /\ SweepEvery \in Nat /\ MaxTime \in Nat /\ MaxLosses \in Nat

VARIABLES
  now,
  store,      \* buckets, by store and key
  swept,      \* lastSweep of each memory
  losses,     \* restarts so far
  watched,    \* for the property: a bucket under watch, its store, key and since when
  spent,      \* the tokens it has granted since
  forgotten   \* how often it was dropped before it was full, since

buckets     == <<store, swept>>
watch       == <<watched, spent, forgotten>>
limiterVars == <<now, buckets, losses, watch>>

Redis == "redis"
Stores == {Redis} \cup Processes

ASSUME RedisAssumption == Redis \notin Processes

Full(k) == Limit[k] * Window[k]

\* A bucket that is not there reads as a full one.
Unused(k) == [credit |-> Full(k), at |-> 0]

NoBucket == [since |-> -1]
IsWatched(s, k) == watched # NoBucket /\ watched.store = s /\ watched.key = k

LimiterTypeOK ==
  /\ now \in 0 .. MaxTime /\ losses \in 0 .. MaxLosses
  /\ store \in [Stores -> [Keys -> [credit : Nat, at : 0 .. now]]]
  /\ \A s \in Stores, k \in Keys : store[s][k].credit <= Full(k)
  /\ swept \in [Processes -> -SweepEvery .. now]
  /\ watched \in {NoBucket} \cup [store : Stores, key : Keys, since : 0 .. now]
  /\ spent \in Nat /\ forgotten \in Nat

LimiterInit ==
  /\ now = 0
  /\ store = [s \in Stores |-> [k \in Keys |-> Unused(k)]]
  /\ swept = [i \in Processes |-> -SweepEvery]
  /\ losses = 0
  /\ watched = NoBucket /\ spent = 0 /\ forgotten = 0

(***************************************************************************)
(* One bucket.                                                             *)
(***************************************************************************)

Earned(k, b) == b.credit + (now - b.at) * Limit[k]

\* Fault: a bucket fills past its limit.
RefilledUncapped(k, b) == Earned(k, b)

Refilled(k, b) == IF Earned(k, b) < Full(k) THEN Earned(k, b) ELSE Full(k)

Grants(k, b) == Refilled(k, b) >= Window[k]

Taken(k, b) ==
  [credit |-> IF Grants(k, b) THEN Refilled(k, b) - Window[k] ELSE Refilled(k, b), at |-> now]

\* Redis drops a key two windows after it was last written.
InRedis(k) ==
  LET b == store[Redis][k] IN IF now - b.at >= 2 * Window[k] THEN Unused(k) ELSE b

(***************************************************************************)
(* The sweep of a memory, by the window of whoever checks when it is due.  *)
(***************************************************************************)

SweepDue(i) == now - swept[i] >= SweepEvery

Drops(i, k) ==
  {j \in Keys : SweepDue(i) /\ now - store[i][j].at > 2 * Window[k]}

AfterSweep(i, k) ==
  [j \in Keys |-> IF j \in Drops(i, k) THEN Unused(j) ELSE store[i][j]]

\* The watched bucket is among those keys of store s, and is not full.
TooEarly(s, keys) == \E k \in keys : IsWatched(s, k) /\ Refilled(k, store[s][k]) < Full(k)

Forget(s, keys) == forgotten' = IF TooEarly(s, keys) THEN forgotten + 1 ELSE forgotten

(***************************************************************************)
(* Checks.  A token that was granted is spent, whether or not anybody      *)
(* hears of it.                                                            *)
(***************************************************************************)

Spend(grants) == spent' = IF grants THEN spent + 1 ELSE spent

CheckInRedis(k) ==
  /\ store' = [store EXCEPT ![Redis][k] = Taken(k, InRedis(k))]
  /\ Spend(IsWatched(Redis, k) /\ Grants(k, InRedis(k)))
  /\ UNCHANGED <<now, swept, losses, watched, forgotten>>

\* Redis is not reached, or has run the script and its answer is lost.
CheckInMemory(i, k, ran) ==
  /\ LET kept == AfterSweep(i, k) IN
       /\ store' = [store EXCEPT ![i] = [kept EXCEPT ![k] = Taken(k, @)],
                                 ![Redis][k] = IF ran THEN Taken(k, InRedis(k)) ELSE @]
       /\ Spend(\/ IsWatched(i, k) /\ Grants(k, kept[k])
                \/ IsWatched(Redis, k) /\ ran /\ Grants(k, InRedis(k)))
  /\ swept' = IF SweepDue(i) THEN [swept EXCEPT ![i] = now] ELSE swept
  /\ Forget(i, Drops(i, k))
  /\ UNCHANGED <<now, losses, watched>>

(***************************************************************************)
(* The world.                                                              *)
(***************************************************************************)

Tick == now < MaxTime /\ now' = now + 1 /\ UNCHANGED <<buckets, losses, watch>>

\* A process ends with its memory, or Redis with its keys.
Restart(s) ==
  /\ losses < MaxLosses /\ losses' = losses + 1
  /\ store' = [store EXCEPT ![s] = [k \in Keys |-> Unused(k)]]
  /\ swept' = [i \in Processes |-> IF i = s THEN -SweepEvery ELSE swept[i]]
  /\ Forget(s, Keys)
  /\ UNCHANGED <<now, watched, spent>>

\* Any bucket may be watched, from any moment on.
Watch(s, k) ==
  /\ watched = NoBucket
  /\ watched' = [store |-> s, key |-> k, since |-> now]
  /\ UNCHANGED <<now, buckets, losses, spent, forgotten>>

LimiterNext ==
  \/ \E k \in Keys : CheckInRedis(k)
  \/ \E i \in Processes, k \in Keys, ran \in BOOLEAN : CheckInMemory(i, k, ran)
  \/ \E s \in Stores : Restart(s)
  \/ \E s \in Stores, k \in Keys : Watch(s, k)
  \/ Tick

LimiterSpec == LimiterInit /\ [][LimiterNext]_limiterVars

(***************************************************************************)
(* What must hold.                                                         *)
(***************************************************************************)

\* Over any interval a bucket grants no more than its limit and what refills
\* meanwhile, and its limit once more for every time it was forgotten before it was
\* full: by a restart, or by a sweep that went by the shorter window of another.
WithinAllowance ==
  watched # NoBucket =>
    LET k == watched.key IN
      spent * Window[k] <= Limit[k] * (Window[k] * (1 + forgotten) + now - watched.since)
=============================================================================
