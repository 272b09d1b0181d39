------------------------------- MODULE MCRedis -------------------------------
(* Instances of the three components of packages/redis for TLC.  They use    *)
(* keys of their own and share nothing: a behaviour uses one of them and     *)
(* leaves the others as they began.                                          *)
EXTENDS RedisLock

CONSTANTS Callers, Limit, Window, Delay, NoExpiry, NoPromise,
          Users, Ttls, DefaultTtl, ComputeTime, Absent, Forever, Idle, NoTtl, NoDelete

VARIABLES part,
          count, keyTtl, command, waiting, grants, lost, promise,
          entry, writing, answer, deleted

limiter == INSTANCE RedisRateLimiter WITH ttl <- keyTtl
cache == INSTANCE RedisCache

ASSUME RedisAssumption == limiter!LimiterAssumption /\ cache!CacheAssumption

limiterVars == <<count, keyTtl, command, waiting, grants, lost, promise>>
cacheVars == <<entry, writing, answer, deleted>>

MCInit ==
  /\ part \in {"lock", "limiter", "cache"}
  /\ Init /\ limiter!Init /\ cache!Init

MCNext ==
  \/ part = "lock" /\ Next /\ UNCHANGED <<limiterVars, cacheVars>>
  \/ part = "limiter" /\ limiter!Next /\ UNCHANGED <<vars, cacheVars>>
  \/ part = "cache" /\ cache!Next /\ UNCHANGED <<vars, limiterVars>>

(* Each part is fair in the behaviours that use it.                          *)
MCSpec ==
  /\ MCInit /\ [][MCNext /\ UNCHANGED part]_<<part, vars, limiterVars, cacheVars>>
  /\ part = "lock" => Fairness
  /\ part = "limiter" => limiter!Fairness
-----------------------------------------------------------------------------
(* The shared counters let no more through than two full windows, and send   *)
(* nobody back too early.                                                    *)
LimitKept == limiter!BurstBound /\ limiter!RetryAfterHonoured

(* Every window of the shared counters ends.                                 *)
EveryWindowEnds == limiter!EveryWindowEnds

(* No answer of the shared cache is staler than its expiry allows.           *)
NoStaleAnswer == cache!NoStaleAnswer
=============================================================================
