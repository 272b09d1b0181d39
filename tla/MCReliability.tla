----------------------------- MODULE MCReliability -----------------------------
(* Instances for TLC of packages/reliability: the call through breaker,      *)
(* bulkhead and retry, and the rate limiter.  They share nothing: a          *)
(* behaviour uses one of them and leaves the other as it began.              *)
EXTENDS ComposedCall

CONSTANTS Limit, Window, Absent, NoPromise

VARIABLES part,
          algorithm, bucket, window, log, counter, grants, answer, promise

limiter == INSTANCE RateLimiter

ASSUME ReliabilityAssumption == limiter!LimiterAssumption

limiterVars ==
  <<algorithm, bucket, window, log, counter, grants, answer, promise>>

(* An idle limiter is of any one algorithm.                                  *)
MCInit ==
  /\ part \in {"call", "limiter"}
  /\ ComposedInit /\ limiter!Init
  /\ part # "limiter" => algorithm = "fixed-window"

MCNext ==
  \/ part = "call" /\ ComposedNext /\ UNCHANGED limiterVars
  \/ part = "limiter" /\ limiter!Next /\ UNCHANGED ComposedVars

MCSpec ==
  /\ MCInit /\ [][MCNext /\ UNCHANGED part]_<<part, ComposedVars, limiterVars>>
  /\ part = "call" => ComposedFairness
-----------------------------------------------------------------------------
(* However calls are spread over window boundaries, the limiter lets no more *)
(* through than its algorithm promises.                                      *)
BurstBound == limiter!BurstBound

(* Whoever is denied used up the limit within the last window, and did not   *)
(* wait for retryAfterMs.                                                    *)
DenialsJustified == limiter!DenialsJustified
================================================================================
