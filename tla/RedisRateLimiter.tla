--------------------------- MODULE RedisRateLimiter ---------------------------
(* The rate limiter of packages/redis: check() of several app instances, for *)
(* one identifier, as the commands it sends to Redis one after the other:    *)
(* INCR, EXPIRE for the first hit of a window, TTL for a denial.  A command  *)
(* takes effect atomically, up to Delay ticks after the previous one.        *)
EXTENDS Naturals, FiniteSetsExt

CONSTANTS Callers,    \* concurrent check() calls, over all instances
          Limit,      \* limit
          Window,     \* windowSeconds, in ticks
          Delay,      \* bound: ticks a command may take
          NoExpiry,   \* the key has no time to live
          NoPromise   \* no retryAfterSeconds to keep

LimiterAssumption ==
  /\ Limit \in Nat \ {0} /\ Window \in Nat \ {0} /\ Delay \in Nat
  /\ NoExpiry \notin Nat /\ NoPromise \notin Nat

VARIABLES count,    \* the value of the key in Redis, 0: there is no key
          ttl,      \* what is left of its time to live
          command,  \* the command each check() has in flight
          waiting,  \* ticks it has been in flight
          grants,   \* history: grants[a] = calls allowed a ticks ago
          lost,     \* history: an EXPIRE was lost
          promise   \* history: ticks until a denied caller may come back

vars == <<count, ttl, command, waiting, grants, lost, promise>>

Commands == {"none", "expire", "ttl"}
Ages == 0 .. Window - 1
MaxCount == Limit + 2

TypeOK ==
  /\ count \in 0 .. MaxCount
  /\ ttl \in {NoExpiry} \cup 1 .. Window
  /\ count = 0 => ttl = NoExpiry
  /\ command \in [Callers -> Commands]
  /\ waiting \in [Callers -> 0 .. Delay]
  /\ grants \in [Ages -> 0 .. 2 * Limit]
  /\ lost \in BOOLEAN
  /\ promise \in {NoPromise} \cup 0 .. Window + Delay

Init ==
  /\ count = 0 /\ ttl = NoExpiry
  /\ command = [c \in Callers |-> "none"]
  /\ waiting = [c \in Callers |-> 0]
  /\ grants = [a \in Ages |-> 0]
  /\ lost = FALSE
  /\ promise = NoPromise
-----------------------------------------------------------------------------
(* Faulty variants of the operators below, used to check that the            *)
(* properties can fail.                                                      *)
LastHit(n) == n = Limit
OneTooMany(n) == n <= Limit + 1
ComeBackAtOnce == IF ttl # NoExpiry THEN ttl ELSE 0
-----------------------------------------------------------------------------
FirstHit(n) == n = 1

WithinLimit(n) == n <= Limit

RetryAfter == IF ttl # NoExpiry THEN ttl ELSE Window

Allow == grants' = [grants EXCEPT ![0] = @ + 1]

Send(c, next) == /\ command' = [command EXCEPT ![c] = next]
                 /\ waiting' = [waiting EXCEPT ![c] = 0]

(* INCR, and what the count it returns leads to.  A count above MaxCount is  *)
(* the same to every caller.                                                 *)
Incr(c) ==
  /\ command[c] = "none"
  /\ LET n == count + 1
     IN  /\ count' = IF n > MaxCount THEN MaxCount ELSE n
         /\ promise' = IF count = 0 THEN NoPromise ELSE promise
         /\ \/ FirstHit(n) /\ Send(c, "expire") /\ UNCHANGED grants
            \/ ~FirstHit(n) /\ WithinLimit(n) /\ Allow
                 /\ UNCHANGED <<command, waiting>>
            \/ ~FirstHit(n) /\ ~WithinLimit(n) /\ Send(c, "ttl")
                 /\ UNCHANGED grants
  /\ UNCHANGED <<ttl, lost>>

(* EXPIRE by the first hit, which is then within any limit; on a key that is *)
(* gone it does nothing.                                                     *)
Expire(c) ==
  /\ command[c] = "expire"
  /\ ttl' = IF count = 0 THEN NoExpiry ELSE Window
  /\ Allow
  /\ Send(c, "none")
  /\ UNCHANGED <<count, lost, promise>>

(* TTL of a denied caller, and its answer.                                   *)
AskTtl(c) ==
  /\ command[c] = "ttl"
  /\ promise' = RetryAfter + Delay
  /\ Send(c, "none")
  /\ UNCHANGED <<count, ttl, grants, lost>>

(* The command in flight is lost, or its instance stops: check() ends.       *)
Fault(c) ==
  /\ command[c] # "none"
  /\ Send(c, "none")
  /\ lost' = (lost \/ command[c] = "expire")
  /\ UNCHANGED <<count, ttl, grants, promise>>

Expires == ttl = 1

Tick ==
  /\ \A c \in Callers : command[c] # "none" => waiting[c] < Delay
  /\ waiting' = [c \in Callers |-> IF command[c] = "none" THEN 0 ELSE waiting[c] + 1]
  /\ count' = IF Expires THEN 0 ELSE count
  /\ ttl' = IF Expires \/ ttl = NoExpiry THEN NoExpiry ELSE ttl - 1
  /\ grants' = [a \in Ages |-> IF a = 0 THEN 0 ELSE grants[a - 1]]
  /\ promise' = IF promise \in {NoPromise, 0} THEN promise ELSE promise - 1
  /\ UNCHANGED <<command, lost>>

Next == \/ \E c \in Callers : Incr(c) \/ Expire(c) \/ AskTtl(c) \/ Fault(c)
        \/ Tick

Spec == Init /\ [][Next]_vars

(* Redis answers, and time passes.  Nobody has to call.                      *)
Fairness ==
  /\ \A c \in Callers : WF_vars(Expire(c) \/ AskTtl(c))
  /\ WF_vars(Tick)

FairSpec == Spec /\ Fairness
-----------------------------------------------------------------------------
InWindow == MapThenSumSet(LAMBDA a : grants[a], Ages)

(* However the commands of the instances interleave, no stretch of Window    *)
(* ticks holds more than one full window on each side of a boundary.         *)
BurstBound == TypeOK /\ InWindow <= 2 * Limit

(* A denied caller who waits for retryAfterSeconds, and for one more command *)
(* at most, finds that window over, though its TTL may have met a key that   *)
(* had no expiry yet or was gone.                                            *)
RetryAfterHonoured == promise = 0 => count = 0 \/ lost

(* A window that was opened ends, and with it every denial, unless its       *)
(* EXPIRE was lost: then nobody ever sets an expiry again.                   *)
EveryWindowEnds == count > 0 ~> count = 0 \/ lost
=============================================================================
