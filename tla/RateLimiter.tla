----------------------------- MODULE RateLimiter -----------------------------
(* The in-process rate limiter of packages/reliability: its four algorithms  *)
(* for one key (keys are independent).  Timestamps are kept as ages, which a *)
(* tick increases; an absent entry is the one check() creates.  Tokens are   *)
(* counted in units of 1 / Window token, so the arithmetic is exact: the     *)
(* rounding of the code's floating point is not modelled.                    *)
EXTENDS Naturals, FiniteSetsExt, Collections

CONSTANTS Limit,       \* limit
          Window,      \* windowMs, in ticks
          Absent,      \* no entry yet for the key
          NoPromise    \* no retryAfterMs to keep

VARIABLES algorithm, \* config.algorithm, chosen by the constructor for good
          bucket,    \* [tokens, since]: since = age of lastRefill
          window,    \* [count, since]: since = age of windowStart
          log,       \* ages of the logged timestamps, oldest first
          counter,   \* [current, previous, since]: since = age of the window
          grants,    \* history: grants[a] = calls allowed a ticks ago
          answer,    \* history: outcome of the last check in this tick
          promise    \* history: what is left of the last retryAfterMs

entries == <<bucket, window, log, counter>>
history == <<grants, answer, promise>>
vars == <<algorithm, entries, history>>

Algorithms == {"token-bucket", "fixed-window", "sliding-window-log",
               "sliding-window-counter"}
Ages == 0 .. Window - 1
Full == Limit * Window

Buckets == [tokens : 0 .. Full, since : 0 .. Window]
Windows == [count : 0 .. Limit, since : 0 .. Window]
Counters == [current : Nat, previous : Nat, since : 0 .. 3 * Window - 1]

LimiterAssumption ==
  /\ Limit \in Nat \ {0} /\ Window \in Nat \ {0, 1}
  /\ Absent \notin Buckets \cup Windows \cup Counters
  /\ NoPromise \notin Nat

TypeOK ==
  /\ algorithm \in Algorithms
  /\ bucket \in {Absent} \cup Buckets
  /\ window \in {Absent} \cup Windows
  /\ log \in Seq(0 .. Window) /\ Len(log) <= Limit
  /\ counter \in {Absent} \cup Counters
  /\ grants \in [Ages -> Nat]
  /\ answer \in {"none", "allowed", "denied"}
  /\ promise \in {NoPromise} \cup 0 .. Window

Init ==
  /\ algorithm \in Algorithms
  /\ bucket = Absent /\ window = Absent /\ log = <<>> /\ counter = Absent
  /\ grants = [a \in Ages |-> 0]
  /\ answer = "none"
  /\ promise = NoPromise
-----------------------------------------------------------------------------
(* Faulty variants of the operators below, used to check that the            *)
(* properties can fail.                                                      *)
NotRefilled(tokens, since) == tokens
NotTheWholeWindow(since) == Window - since - 1
PreviousForgotten(passed, current) == 0
-----------------------------------------------------------------------------
(* The operators of the code.                                                *)
AtMost(n, bound) == IF n > bound THEN bound ELSE n

Refilled(tokens, since) == AtMost(tokens + since * Limit, Full)

(* Math.ceil of a quotient.                                                  *)
CeilDiv(n, d) == (n + d - 1) \div d

HasRoom(count) == count < Limit

(* A window that started that long ago is over; a timestamp that old is out. *)
Over(since) == since >= Window

UntilWindowEnds(since) == Window - since

PreviousCount(passed, current) == IF passed = 1 THEN current ELSE 0

Allow ==
  /\ grants' = [grants EXCEPT ![0] = @ + 1]
  /\ answer' = "allowed"
  /\ promise' = NoPromise

Deny(retryAfterMs) ==
  /\ answer' = "denied"
  /\ promise' = retryAfterMs
  /\ UNCHANGED grants
-----------------------------------------------------------------------------
TokenBucket ==
  /\ algorithm = "token-bucket"
  /\ LET tokens == IF bucket = Absent THEN Full
                   ELSE Refilled(bucket.tokens, bucket.since)
     IN  IF tokens >= Window
           THEN bucket' = [tokens |-> tokens - Window, since |-> 0] /\ Allow
           ELSE /\ bucket' = [tokens |-> tokens, since |-> 0]
                /\ Deny(CeilDiv(Window - tokens, Limit))
  /\ UNCHANGED <<window, log, counter>>

FixedWindow ==
  /\ algorithm = "fixed-window"
  /\ LET w == IF window = Absent THEN [count |-> 0, since |-> 0]
              ELSE IF Over(window.since) THEN [count |-> 0, since |-> 0]
              ELSE window
     IN  IF HasRoom(w.count)
           THEN window' = [w EXCEPT !.count = @ + 1] /\ Allow
           ELSE window' = w /\ Deny(UntilWindowEnds(w.since))
  /\ UNCHANGED <<bucket, log, counter>>

SlidingWindowLog ==
  /\ algorithm = "sliding-window-log"
  /\ LET recent == Kept(log, {age \in 0 .. Window : ~Over(age)})
     IN  IF HasRoom(Len(recent))
           THEN log' = Append(recent, 0) /\ Allow
           ELSE log' = recent /\ Deny(UntilWindowEnds(Head(recent)))
  /\ UNCHANGED <<bucket, window, counter>>

SlidingWindowCounter ==
  /\ algorithm = "sliding-window-counter"
  /\ LET c == IF counter = Absent
                THEN [current |-> 0, previous |-> 0, since |-> 0] ELSE counter
         passed == c.since \div Window
         rolled == IF passed = 0 THEN c
                   ELSE [current |-> 0,
                         previous |-> PreviousCount(passed, c.current),
                         since |-> c.since % Window]
         estimate == rolled.previous * (Window - rolled.since)
                       + rolled.current * Window
     IN  IF estimate < Full
           THEN counter' = [rolled EXCEPT !.current = @ + 1] /\ Allow
           ELSE counter' = rolled /\ Deny(UntilWindowEnds(rolled.since))
  /\ UNCHANGED <<bucket, window, log>>

(* check(key).                                                               *)
Check ==
  /\ TokenBucket \/ FixedWindow \/ SlidingWindowLog \/ SlidingWindowCounter
  /\ UNCHANGED algorithm

(* Ages stop where they no longer matter: after one window, or, where only   *)
(* the age modulo Window still does, after three.                            *)
Older(entry) ==
  IF entry = Absent THEN Absent
  ELSE [entry EXCEPT !.since = AtMost(@ + 1, Window)]

Tick ==
  /\ bucket' = Older(bucket)
  /\ window' = Older(window)
  /\ log' = [i \in DOMAIN log |-> AtMost(log[i] + 1, Window)]
  /\ counter' = IF counter = Absent THEN Absent
                ELSE [counter EXCEPT !.since =
                        IF @ + 1 = 3 * Window THEN 2 * Window ELSE @ + 1]
  /\ grants' = [a \in Ages |-> IF a = 0 THEN 0 ELSE grants[a - 1]]
  /\ answer' = "none"
  /\ promise' = IF promise \in {NoPromise, 0} THEN promise ELSE promise - 1
  /\ UNCHANGED algorithm

Next == Check \/ Tick

Spec == Init /\ [][Next]_vars
-----------------------------------------------------------------------------
InWindow == MapThenSumSet(LAMBDA a : grants[a], Ages)

(* The most calls each algorithm lets through in any Window consecutive      *)
(* ticks.  For the counter: a burst at the end of one window, and what the   *)
(* fading weight of that burst has given back of the limit by the last tick  *)
(* at which the burst is still less than Window ticks old.                   *)
MostPerWindow ==
  CASE algorithm = "sliding-window-log" -> Limit
    [] algorithm = "fixed-window" -> 2 * Limit
    [] algorithm = "token-bucket" -> 2 * Limit - 1
    [] OTHER -> Limit + CeilDiv(Limit * (Window - 2), Window)

(* However calls are spread over window boundaries, refills and expirations, *)
(* no stretch of Window ticks lets more calls through than the algorithm     *)
(* promises: exactly Limit for the log (README: Exact), at worst a double    *)
(* burst for the fixed window (README: can allow 2x burst at window          *)
(* boundaries), less for the bucket, and nearly that for the counter.        *)
BurstBound == TypeOK /\ InWindow <= MostPerWindow

(* The counter alone answers from an estimate.                               *)
Exact == algorithm # "sliding-window-counter"

(* Nobody is denied who did not use up the limit within the last Window, nor *)
(* who waited for retryAfterMs and asked nothing meanwhile (README:          *)
(* result.retryAfterMs tells you how long to wait).  Of the counter neither  *)
(* is true: its estimate may deny earlier, and it answers the time left in   *)
(* its window, whose successor starts with the full weight of its calls.     *)
DenialsJustified ==
  [][Exact /\ answer' = "denied" => promise # 0 /\ InWindow' >= Limit]_vars
=============================================================================
