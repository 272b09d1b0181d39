---------------------------- MODULE RedisProofs -----------------------------
(* Proofs about the components of packages/redis: the lock, for every number *)
(* of instances, every pool of tokens and all durations; the shared counters *)
(* for every limit, window and number of calls at a time; the shared cache   *)
(* for all times to live and every number of instances.                      *)
EXTENDS MCRedis, CollectionLemmas

-----------------------------------------------------------------------------
(* The lock.                                                                 *)

(* No two clients ever use the same token.                                   *)
TokensDistinct ==
  \A c, d \in Clients : token[c] = token[d] /\ token[c] # NoToken => c = d

(* A client that waits for SET, has the lock or releases it has a token, and *)
(* the age of a grant is counted from the grant.                             *)
TokensUsed ==
  \A c \in Clients :
    /\ pc[c] \in {"setting", "granted", "holding", "releasing"}
         => token[c] \in Tokens
    /\ ~HasLock(c) => age[c] = 0

(* A pending SET has had no effect yet: its token is not in Redis, no        *)
(* release of it was sent, and whoever uses it is still waiting.             *)
PendingSets ==
  \A t \in Tokens : Request("set", t) \in requests =>
    /\ value # t
    /\ Request("release", t) \notin requests
    /\ \A c \in Clients : token[c] = t => pc[c] = "setting"

(* No release of a lock is pending while its holder still wants it: this is  *)
(* what the comparison of tokens in the release script relies on.            *)
NoEarlyRelease ==
  \A c \in Clients :
    pc[c] \in {"setting", "granted", "holding"}
      => Request("release", token[c]) \notin requests

IInv ==
  /\ TypeOK
  /\ TokensDistinct /\ TokensUsed /\ PendingSets /\ NoEarlyRelease
  /\ LeaseKept

LEMMA InitIInv == Init => IInv
<1>. SUFFICES ASSUME Init PROVE IInv
  OBVIOUS
<1>. USE LockAssumption DEF Init
<1>1. TypeOK
  BY DEF TypeOK, Locations
<1>2. TokensDistinct /\ TokensUsed /\ PendingSets /\ NoEarlyRelease /\ LeaseKept
  BY DEF TokensDistinct, TokensUsed, PendingSets, NoEarlyRelease, LeaseKept,
         HasLock, Request
<1>3. QED
  BY <1>1, <1>2 DEF IInv

LEMMA RequestsDiffer ==
  \A o, p, s, t : Request(o, s) = Request(p, t) <=> o = p /\ s = t
  BY DEF Request

(* WithLock, GiveUp and ReceiveGrant: one client moves on by itself.         *)
LEMMA QuietIInv ==
  ASSUME IInv, NEW c \in Clients, NEW to \in Locations,
         \/ pc[c] \in {"idle", "trying"} /\ to \in {"idle", "trying"}
         \/ pc[c] = "granted" /\ to = "holding",
         pc' = [pc EXCEPT ![c] = to],
         elapsed' = elapsed \/ elapsed' = [elapsed EXCEPT ![c] = 0],
         UNCHANGED <<redisVars, requests, token, age>>
  PROVE  IInv'
<1>. USE LockAssumption DEF redisVars
<1>1. TypeOK'
  BY DEF IInv, TypeOK
<1>2. TokensDistinct' /\ TokensUsed'
  BY DEF IInv, TypeOK, TokensDistinct, TokensUsed, HasLock
<1>3. PendingSets' /\ NoEarlyRelease'
  BY DEF IInv, TypeOK, PendingSets, NoEarlyRelease
<1>4. LeaseKept'
  BY DEF IInv, TypeOK, LeaseKept, HasLock
<1>5. QED
  BY <1>1, <1>2, <1>3, <1>4 DEF IInv

LEMMA SendSetIInv ==
  ASSUME IInv, NEW c \in Clients, SendSet(c)
  PROVE  IInv'
<1>. USE LockAssumption DEF redisVars
<1>1. PICK t \in Tokens :
        /\ Fresh(t)
        /\ token' = [token EXCEPT ![c] = t]
        /\ requests' = requests \cup {Request("set", t)}
  BY DEF SendSet
<1>2. /\ pc[c] = "trying" /\ pc' = [pc EXCEPT ![c] = "setting"]
      /\ UNCHANGED <<value, ttl, elapsed, age>>
  BY DEF SendSet
<1>3. /\ value # t /\ \A d \in Clients : token[d] # t
      /\ Request("set", t) \notin requests /\ Request("release", t) \notin requests
  BY <1>1 DEF Fresh, Request
<1>4. TypeOK'
  <2>1. Request("set", t) \in [op : Ops, token : Tokens]
    BY DEF Request, Ops
  <2>2. QED
    BY <1>1, <1>2, <2>1 DEF IInv, TypeOK, Locations
<1>5. TokensDistinct' /\ TokensUsed'
  BY <1>1, <1>2, <1>3 DEF IInv, TypeOK, TokensDistinct, TokensUsed, HasLock
<1>6. PendingSets'
  BY <1>1, <1>2, <1>3, RequestsDiffer DEF IInv, TypeOK, PendingSets
<1>7. NoEarlyRelease'
  BY <1>1, <1>2, <1>3, RequestsDiffer DEF IInv, TypeOK, NoEarlyRelease
<1>8. LeaseKept'
  BY <1>1, <1>2 DEF IInv, TypeOK, LeaseKept, HasLock
<1>9. QED
  BY <1>4, <1>5, <1>6, <1>7, <1>8 DEF IInv

LEMMA ServeSetIInv ==
  ASSUME IInv, NEW t \in Tokens, ServeSet(t)
  PROVE  IInv'
<1>. USE LockAssumption DEF redisVars
<1>1. /\ Request("set", t) \in requests
      /\ requests' = requests \ {Request("set", t)}
      /\ UNCHANGED <<token, elapsed, age>>
  BY DEF ServeSet
<1>2. /\ value # t /\ Request("release", t) \notin requests
      /\ \A d \in Clients : token[d] = t => pc[d] = "setting"
  BY <1>1 DEF IInv, PendingSets
<1>3. ASSUME NEW to \in {"granted", "denied"},
             pc' = [c \in Clients |-> IF Awaits(c, "setting", t) THEN to ELSE pc[c]]
      PROVE  /\ pc' \in [Clients -> Locations] /\ requests' \subseteq [op : Ops, token : Tokens]
             /\ TokensDistinct' /\ TokensUsed' /\ NoEarlyRelease'
  <2>1. pc' \in [Clients -> Locations] /\ requests' \subseteq [op : Ops, token : Tokens]
    BY <1>1, <1>3 DEF IInv, TypeOK, Locations
  <2>2. TokensDistinct' /\ TokensUsed'
    BY <1>1, <1>3 DEF IInv, TypeOK, TokensDistinct, TokensUsed, HasLock, Awaits
  <2>3. NoEarlyRelease'
    BY <1>1, <1>2, <1>3 DEF IInv, TypeOK, NoEarlyRelease, Awaits
  <2>4. QED
    BY <2>1, <2>2, <2>3
<1>4. CASE KeyAbsent
  <2>1. /\ value' = t /\ ttl' = Ttl /\ value = NoToken
        /\ pc' = [c \in Clients |->
                     IF Awaits(c, "setting", t) THEN "granted" ELSE pc[c]]
    BY <1>4 DEF ServeSet, KeyAbsent, Expiry
  <2>2. /\ pc' \in [Clients -> Locations] /\ requests' \subseteq [op : Ops, token : Tokens]
        /\ TokensDistinct' /\ TokensUsed' /\ NoEarlyRelease'
    BY <1>3, <2>1
  <2>3. TypeOK'
    BY <1>1, <2>1, <2>2 DEF IInv, TypeOK
  <2>4. PendingSets'
    BY <1>1, <1>2, <2>1, RequestsDiffer DEF IInv, TypeOK, PendingSets, Awaits
  <2>5. LeaseKept'
    <3>1. SUFFICES ASSUME NEW c \in Clients, HasLock(c)', age[c] < Ttl
                   PROVE  t = token[c] /\ Ttl = Ttl - age[c]
      BY <1>1, <2>1 DEF LeaseKept
    <3>2. ~HasLock(c)
      <4>1. HasLock(c) => token[c] = NoToken
        BY <2>1, <3>1 DEF IInv, LeaseKept
      <4>2. HasLock(c) => token[c] \in Tokens
        BY DEF IInv, TokensUsed, HasLock
      <4>3. QED
        BY <4>1, <4>2
    <3>3. Awaits(c, "setting", t)
      BY <2>1, <3>1, <3>2 DEF HasLock
    <3>4. QED
      BY <3>2, <3>3 DEF Awaits, IInv, TokensUsed
  <2>6. QED
    BY <2>2, <2>3, <2>4, <2>5 DEF IInv
<1>5. CASE ~KeyAbsent
  <2>1. /\ UNCHANGED <<value, ttl>>
        /\ pc' = [c \in Clients |->
                     IF Awaits(c, "setting", t) THEN "denied" ELSE pc[c]]
    BY <1>5 DEF ServeSet
  <2>2. /\ pc' \in [Clients -> Locations] /\ requests' \subseteq [op : Ops, token : Tokens]
        /\ TokensDistinct' /\ TokensUsed' /\ NoEarlyRelease'
    BY <1>3, <2>1
  <2>3. TypeOK'
    BY <1>1, <2>1, <2>2 DEF IInv, TypeOK
  <2>4. PendingSets'
    BY <1>1, <1>2, <2>1, RequestsDiffer DEF IInv, TypeOK, PendingSets, Awaits
  <2>5. LeaseKept'
    BY <1>1, <2>1 DEF IInv, TypeOK, LeaseKept, HasLock, Awaits
  <2>6. QED
    BY <2>2, <2>3, <2>4, <2>5 DEF IInv
<1>6. QED
  BY <1>4, <1>5

LEMMA ReceiveDenialIInv ==
  ASSUME IInv, NEW c \in Clients, ReceiveDenial(c)
  PROVE  IInv'
<1>. USE LockAssumption DEF redisVars, ReceiveDenial
<1>1. TypeOK'
  BY DEF IInv, TypeOK, Locations
<1>2. TokensDistinct' /\ TokensUsed'
  BY DEF IInv, TypeOK, TokensDistinct, TokensUsed, HasLock
<1>3. PendingSets' /\ NoEarlyRelease'
  BY DEF IInv, TypeOK, PendingSets, NoEarlyRelease
<1>4. LeaseKept'
  BY DEF IInv, TypeOK, LeaseKept, HasLock
<1>5. QED
  BY <1>1, <1>2, <1>3, <1>4 DEF IInv

LEMMA FnSettlesIInv ==
  ASSUME IInv, NEW c \in Clients, FnSettles(c)
  PROVE  IInv'
<1>. USE LockAssumption DEF redisVars
<1>1. PICK t \in Tokens : t = token[c]
  BY DEF IInv, TokensUsed, FnSettles
<1>2. /\ pc[c] = "holding" /\ pc' = [pc EXCEPT ![c] = "releasing"]
      /\ requests' = requests \cup {Request("release", t)}
      /\ age' = [age EXCEPT ![c] = 0]
      /\ UNCHANGED <<value, ttl, token, elapsed>>
  BY <1>1 DEF FnSettles
<1>3. TypeOK'
  <2>1. Request("release", t) \in [op : Ops, token : Tokens]
    BY DEF Request, Ops
  <2>2. QED
    BY <1>2, <2>1 DEF IInv, TypeOK, Locations
<1>4. TokensDistinct' /\ TokensUsed'
  BY <1>2 DEF IInv, TypeOK, TokensDistinct, TokensUsed, HasLock
<1>5. PendingSets'
  BY <1>1, <1>2, RequestsDiffer DEF IInv, TypeOK, PendingSets
<1>6. NoEarlyRelease'
  <2>1. \A d \in Clients \ {c} : token[d] # t
    BY <1>1 DEF IInv, TokensDistinct
  <2>2. QED
    BY <1>2, <2>1, RequestsDiffer DEF IInv, TypeOK, NoEarlyRelease
<1>7. LeaseKept'
  BY <1>2 DEF IInv, TypeOK, LeaseKept, HasLock
<1>8. QED
  BY <1>3, <1>4, <1>5, <1>6, <1>7 DEF IInv

LEMMA ServeReleaseIInv ==
  ASSUME IInv, NEW t \in Tokens, ServeRelease(t)
  PROVE  IInv'
<1>. USE LockAssumption DEF redisVars
<1>1. /\ Request("release", t) \in requests
      /\ requests' = requests \ {Request("release", t)}
      /\ pc' = [c \in Clients |->
                   IF Awaits(c, "releasing", t) THEN "idle" ELSE pc[c]]
      /\ token' = [c \in Clients |->
                      IF Awaits(c, "releasing", t) THEN NoToken ELSE token[c]]
      /\ UNCHANGED <<elapsed, age>>
      /\ \/ value = t /\ value' = NoToken /\ ttl' = 0
         \/ UNCHANGED <<value, ttl>>
  BY DEF ServeRelease, StillMine
<1>2. \A c \in Clients : HasLock(c) => token[c] # t
  BY <1>1 DEF IInv, NoEarlyRelease, HasLock
<1>3. \A c \in Clients : HasLock(c)' <=> HasLock(c)
  BY <1>1 DEF HasLock, Awaits
<1>4. TypeOK'
  BY <1>1 DEF IInv, TypeOK, Locations
<1>5. TokensDistinct'
  BY <1>1 DEF IInv, TypeOK, TokensDistinct
<1>6. TokensUsed'
  BY <1>1, <1>3 DEF IInv, TypeOK, TokensUsed, Awaits
<1>7. PendingSets'
  <2>1. \A s \in Tokens : Request("set", s) \in requests' => Request("set", s) \in requests
    BY <1>1
  <2>2. QED
    BY <1>1, <2>1 DEF IInv, TypeOK, PendingSets, Awaits
<1>8. NoEarlyRelease'
  BY <1>1 DEF IInv, TypeOK, NoEarlyRelease, Awaits
<1>9. LeaseKept'
  <2>1. \A c \in Clients : HasLock(c) => token'[c] = token[c]
    BY <1>1 DEF HasLock, Awaits
  <2>2. QED
    BY <1>1, <1>2, <1>3, <2>1 DEF IInv, LeaseKept
<1>10. QED
  BY <1>4, <1>5, <1>6, <1>7, <1>8, <1>9 DEF IInv

LEMMA AbandonIInv ==
  ASSUME IInv, NEW c \in Clients, Abandon(c)
  PROVE  IInv'
<1>. USE LockAssumption DEF redisVars
<1>1. /\ pc' = [pc EXCEPT ![c] = "idle"] /\ token' = [token EXCEPT ![c] = NoToken]
      /\ age' = [age EXCEPT ![c] = 0] /\ elapsed' = [elapsed EXCEPT ![c] = 0]
      /\ requests' \subseteq requests /\ UNCHANGED <<value, ttl>>
  BY DEF Abandon
<1>2. TypeOK'
  BY <1>1 DEF IInv, TypeOK, Locations
<1>3. TokensDistinct' /\ TokensUsed'
  BY <1>1 DEF IInv, TypeOK, TokensDistinct, TokensUsed, HasLock
<1>4. PendingSets' /\ NoEarlyRelease'
  BY <1>1 DEF IInv, TypeOK, PendingSets, NoEarlyRelease
<1>5. LeaseKept'
  BY <1>1 DEF IInv, TypeOK, LeaseKept, HasLock
<1>6. QED
  BY <1>2, <1>3, <1>4, <1>5 DEF IInv

LEMMA TickIInv ==
  ASSUME IInv, Tick
  PROVE  IInv'
<1>. USE LockAssumption
<1>1. UNCHANGED <<requests, pc, token>>
  BY DEF Tick
<1>2. /\ elapsed' \in [Clients -> 0 .. AcquireTime]
      /\ age' \in [Clients -> 0 .. HoldTime]
  BY DEF IInv, TypeOK, Tick, OneMore
<1>3. /\ value' \in {value, NoToken} /\ ttl' \in 0 .. Ttl
  BY DEF IInv, TypeOK, Tick, KeyExpires
<1>4. TypeOK'
  BY <1>1, <1>2, <1>3 DEF IInv, TypeOK
<1>5. TokensDistinct' /\ TokensUsed' /\ PendingSets' /\ NoEarlyRelease'
  BY <1>1, <1>3 DEF IInv, TokensDistinct, TokensUsed, PendingSets,
                    NoEarlyRelease, HasLock, Tick
<1>6. LeaseKept'
  <2>1. SUFFICES ASSUME NEW c \in Clients, HasLock(c), age'[c] < Ttl
                 PROVE  value' = token[c] /\ ttl' = Ttl - age'[c]
    BY <1>1 DEF LeaseKept, HasLock
  <2>2. age'[c] = age[c] + 1 /\ age[c] \in Nat
    BY <2>1 DEF Tick, IInv, TypeOK
  <2>3. value = token[c] /\ ttl = Ttl - age[c]
    BY <2>1, <2>2 DEF IInv, LeaseKept
  <2>4. ttl # 1 /\ ttl # 0
    BY <2>1, <2>2, <2>3
  <2>5. QED
    BY <2>2, <2>3, <2>4 DEF Tick, KeyExpires
<1>7. QED
  BY <1>4, <1>5, <1>6 DEF IInv

LEMMA NextIInv == IInv /\ [Next]_vars => IInv'
<1>. SUFFICES ASSUME IInv, [Next]_vars PROVE IInv'
  OBVIOUS
<1>1. ASSUME NEW c \in Clients, WithLock(c) PROVE IInv'
  BY <1>1, QuietIInv DEF WithLock, Locations
<1>2. ASSUME NEW c \in Clients, GiveUp(c) PROVE IInv'
  BY <1>2, QuietIInv DEF GiveUp, Locations
<1>3. ASSUME NEW c \in Clients, ReceiveGrant(c) PROVE IInv'
  BY <1>3, QuietIInv DEF ReceiveGrant, Locations
<1>4. CASE UNCHANGED vars
  BY <1>4 DEF vars, redisVars, IInv, TypeOK, TokensDistinct, TokensUsed,
              PendingSets, NoEarlyRelease, LeaseKept, HasLock
<1>5. QED
  BY <1>1, <1>2, <1>3, <1>4, SendSetIInv, ServeSetIInv, ReceiveDenialIInv,
     FnSettlesIInv, ServeReleaseIInv, AbandonIInv, TickIInv DEF Next

(* IInv holds in every reachable state.                                      *)
THEOREM Invariance == Spec => []IInv
  BY InitIInv, NextIInv, PTL DEF Spec

(* The variables always have their types.                                    *)
THEOREM TypeCorrect == Spec => []TypeOK
<1>1. IInv => TypeOK
  BY DEF IInv
<1>2. QED
  BY <1>1, Invariance, PTL

(* Nobody can take a granted lock away before its lease is over, however     *)
(* long other holders outlive theirs and however late requests are served.   *)
THEOREM LeaseAlwaysKept == Spec => []LeaseKept
<1>1. IInv => LeaseKept
  BY DEF IInv
<1>2. QED
  BY <1>1, Invariance, PTL

(* Two instances run fn at the same time only when a lease has run out.      *)
THEOREM MutualExclusion == Spec => []SingleExecution
<1>1. IInv => SingleExecution
  <2>. SUFFICES ASSUME IInv, NEW c \in Clients, NEW d \in Clients,
                       pc[c] = "holding", pc[d] = "holding",
                       ~(age[c] >= Ttl), ~(age[d] >= Ttl)
                PROVE  c = d
    BY DEF SingleExecution
  <2>1. age[c] < Ttl /\ age[d] < Ttl
    BY LockAssumption DEF IInv, TypeOK
  <2>2. value = token[c] /\ value = token[d]
    BY <2>1 DEF IInv, LeaseKept, HasLock
  <2>3. token[c] \in Tokens
    BY DEF IInv, TokensUsed
  <2>4. QED
    BY <2>2, <2>3, LockAssumption DEF IInv, TokensDistinct
<1>2. QED
  BY <1>1, Invariance, PTL
-----------------------------------------------------------------------------
(* The shared counters.                                                      *)

(* The calls allowed fewer than k ticks ago.                                 *)
GrantsSince(k) == Since(grants, k)

Least(m, n) == IF m <= n THEN m ELSE n

(* The first hit of a window that has yet to set its expiry.                 *)
Opening == {c \in Callers : command[c] = "expire"}

(* At most one such hit is under way, and as long as it is the key lives     *)
(* without an expiry; a key without one has such a hit unless it was lost.   *)
OneOpening ==
  /\ \A c, d \in Opening : c = d
  /\ Opening # {} => count > 0 /\ keyTtl = NoExpiry
  /\ count > 0 /\ keyTtl = NoExpiry /\ ~lost => Opening # {}

(* A key of count n has let at most min(n, Limit) through, its first hit only *)
(* once its expiry is set.  The keys before it account for at most Limit     *)
(* calls that still lie within Window ticks, and for none when it expires:   *)
(* all that was allowed since its expiry was set is its own.                 *)
Granted ==
  /\ GrantsSince(Window) <= Limit + Least(count, Limit)
  /\ Opening # {} => GrantsSince(Window) < Limit + Least(count, Limit)
  /\ keyTtl # NoExpiry => GrantsSince(Window - keyTtl) <= Least(count, Limit)

(* A promise to a denied caller covers what is left of the window, and, if   *)
(* its expiry is yet to be set, the whole window and what is left of the     *)
(* time that command may take.                                               *)
PromiseCovers ==
  promise # NoPromise /\ count > 0 /\ ~lost =>
    /\ keyTtl # NoExpiry => keyTtl <= promise
    /\ \A c \in Opening : Window + Delay - waiting[c] <= promise

LimiterIInv == limiter!TypeOK /\ OneOpening /\ Granted /\ PromiseCovers

LEMMA InWindowIsSum == limiter!InWindow = GrantsSince(Window)
BY DEF limiter!InWindow, limiter!Ages, GrantsSince, Since, SumOver,
       limiter!MapThenSumSet, MapThenSumSet, limiter!MapThenFoldSet, MapThenFoldSet

LEMMA LimiterTypes ==
  /\ Limit \in Nat /\ Limit >= 1 /\ Window \in Nat /\ Window >= 1 /\ Delay \in Nat
  /\ NoExpiry \notin Nat /\ NoPromise \notin Nat
  /\ \A k \in Int : IsFiniteSet(0 .. k)
BY RedisAssumption, FS_Interval DEF limiter!LimiterAssumption

(* What Allow and Tick do to the sums.                                       *)
LEMMA AllowGrants ==
  ASSUME limiter!TypeOK, limiter!Allow
  PROVE  /\ grants' \in Counts(Window)
         /\ \A a \in 0 .. Window - 1 : /\ grants'[a] \in Nat
                                      /\ grants'[a] <= GrantsSince(Window)'
         /\ \A k \in 1 .. Window : GrantsSince(k)' = GrantsSince(k) + 1
         /\ GrantsSince(0)' = GrantsSince(0)
<1>1. grants \in Counts(Window) /\ grants' = [grants EXCEPT ![0] = grants[0] + 1]
  BY LimiterTypes DEF limiter!TypeOK, limiter!Allow, limiter!Ages, Counts
<1>2. Window \in Nat /\ Window > 0
  BY LimiterTypes
<1>3. /\ grants' \in Counts(Window)
      /\ \A k \in 1 .. Window : Since(grants', k) = Since(grants, k) + 1
  BY <1>1, <1>2, SinceHit
<1>4. /\ Since(grants', 0) = 0 /\ Since(grants, 0) = 0
      /\ \A a \in 0 .. Window - 1 : grants'[a] <= Since(grants', Window)
  BY <1>1, <1>2, <1>3, SinceTyped
<1>5. \A a \in 0 .. Window - 1 : grants'[a] \in Nat
  BY <1>3 DEF Counts
<1>6. QED
  BY <1>3, <1>4, <1>5 DEF GrantsSince

LEMMA TickGrants ==
  ASSUME limiter!TypeOK, limiter!Tick
  PROVE  /\ grants' \in [0 .. Window - 1 -> 0 .. 2 * Limit]
         /\ \A k \in 0 .. Window - 1 : GrantsSince(k + 1)' = GrantsSince(k)
<1>1. /\ grants \in [0 .. Window - 1 -> 0 .. 2 * Limit]
      /\ grants' = [a \in 0 .. Window - 1 |-> IF a = 0 THEN 0 ELSE grants[a - 1]]
  BY DEF limiter!TypeOK, limiter!Tick, limiter!Ages
<1>2. \A a \in 0 .. Window - 1 : grants'[a] \in 0 .. 2 * Limit
  <2>1. \A a \in 0 .. Window - 1 : a # 0 => a - 1 \in 0 .. Window - 1
    BY LimiterTypes
  <2>2. 0 \in 0 .. 2 * Limit
    BY LimiterTypes
  <2>3. QED
    BY <1>1, <2>1, <2>2
<1>3. grants' \in [0 .. Window - 1 -> 0 .. 2 * Limit]
  BY <1>1, <1>2
<1>4. grants \in Counts(Window) /\ Window \in Nat /\ Window > 0
  BY <1>1, LimiterTypes DEF Counts
<1>5. \A k \in 0 .. Window - 1 : Since(grants', k + 1) = Since(grants, k)
  BY <1>1, <1>4, SinceAged
<1>6. QED
  BY <1>3, <1>5 DEF GrantsSince

LEMMA GrantsTyped ==
  ASSUME limiter!TypeOK
  PROVE  /\ \A k \in 0 .. Window : GrantsSince(k) \in Int
         /\ \A j, k \in 0 .. Window : j <= k => GrantsSince(j) <= GrantsSince(k)
         /\ GrantsSince(0) = 0
<1>1. grants \in Counts(Window) /\ Window \in Nat
  BY LimiterTypes DEF limiter!TypeOK, limiter!Ages, Counts
<1>2. QED
  BY <1>1, SinceTyped DEF GrantsSince

LEMMA InitLimiter == limiter!Init => LimiterIInv
<1>. SUFFICES ASSUME limiter!Init PROVE LimiterIInv
  OBVIOUS
<1>. USE LimiterTypes
<1>1. limiter!TypeOK
  <2>1. 0 \in 0 .. 2 * Limit /\ 0 \in 0 .. Delay /\ 0 \in 0 .. limiter!MaxCount
    BY DEF limiter!MaxCount
  <2>2. QED
    BY <2>1 DEF limiter!Init, limiter!TypeOK, limiter!Commands
<1>2. OneOpening /\ Opening = {}
  BY DEF limiter!Init, OneOpening, Opening
<1>3. PromiseCovers
  BY DEF limiter!Init, PromiseCovers
<1>4. GrantsSince(Window) = 0
  <2>1. \A a \in 0 .. Window - 1 : grants[a] = 0
    BY DEF limiter!Init, limiter!Ages
  <2>2. IsFiniteSet(0 .. Window - 1)
    OBVIOUS
  <2>3. QED
    BY <2>1, <2>2, SumOfZeros DEF GrantsSince, Since
<1>5. Granted
  BY <1>2, <1>4 DEF limiter!Init, Granted, Least
<1>6. QED
  BY <1>1, <1>2, <1>3, <1>5 DEF LimiterIInv

(* INCR, for the first hit of a window, for one within the limit, and for    *)
(* one beyond it.                                                            *)
LEMMA FirstHitStep ==
  ASSUME LimiterIInv, NEW c \in Callers, limiter!Incr(c), limiter!FirstHit(count + 1)
  PROVE  LimiterIInv'
<1>. USE LimiterTypes DEF LimiterIInv
<1>1. /\ count = 0 /\ count' = 1 /\ promise' = NoPromise
      /\ command' = [command EXCEPT ![c] = "expire"]
      /\ waiting' = [waiting EXCEPT ![c] = 0]
      /\ UNCHANGED <<grants, keyTtl, lost>>
      /\ keyTtl = NoExpiry
  BY DEF limiter!Incr, limiter!FirstHit, limiter!Send, limiter!MaxCount,
     limiter!TypeOK
<1>2. limiter!TypeOK'
  BY <1>1 DEF limiter!TypeOK, limiter!Commands, limiter!MaxCount
<1>3. Opening = {} /\ Opening' = {c}
  BY <1>1 DEF OneOpening, Opening, limiter!TypeOK
<1>4. OneOpening'
  BY <1>1, <1>3 DEF OneOpening
<1>5. PromiseCovers'
  BY <1>1 DEF PromiseCovers
<1>6. Granted'
  <2>1. GrantsSince(Window)' = GrantsSince(Window) /\ GrantsSince(Window) \in Int
    BY <1>1, GrantsTyped DEF GrantsSince
  <2>2. QED
    BY <1>1, <2>1 DEF Granted, Least
<1>7. QED
  BY <1>2, <1>4, <1>5, <1>6

LEMMA WithinStep ==
  ASSUME LimiterIInv, NEW c \in Callers, limiter!Incr(c),
         ~limiter!FirstHit(count + 1), limiter!WithinLimit(count + 1)
  PROVE  LimiterIInv'
<1>. USE LimiterTypes DEF LimiterIInv
<1>1. /\ count \in Nat \ {0} /\ count + 1 <= Limit /\ count' = count + 1
      /\ promise' = promise
      /\ limiter!Allow
      /\ UNCHANGED <<command, waiting, keyTtl, lost>>
  BY DEF limiter!Incr, limiter!FirstHit, limiter!WithinLimit, limiter!MaxCount,
         limiter!TypeOK
<1>2. Opening' = Opening
  BY <1>1 DEF Opening
<1>3. OneOpening' /\ PromiseCovers'
  BY <1>1, <1>2 DEF OneOpening, PromiseCovers
<1>4. Granted'
  <2>1. /\ GrantsSince(Window)' = GrantsSince(Window) + 1
        /\ GrantsSince(Window) \in Int
    BY <1>1, GrantsTyped, AllowGrants
  <2>2. Least(count, Limit)' = Least(count, Limit) + 1 /\ Least(count, Limit) \in Int
    BY <1>1 DEF Least
  <2>3. keyTtl # NoExpiry => GrantsSince(Window - keyTtl)' <= Least(count, Limit)'
    <3>1. SUFFICES ASSUME keyTtl # NoExpiry
                   PROVE  GrantsSince(Window - keyTtl)' <= Least(count, Limit)'
      OBVIOUS
    <3>2. keyTtl \in 1 .. Window /\ Window - keyTtl \in 0 .. Window
      BY <3>1 DEF limiter!TypeOK
    <3>3. /\ GrantsSince(Window - keyTtl) \in Int
          /\ GrantsSince(Window - keyTtl) <= Least(count, Limit)
      BY <3>1, <3>2, GrantsTyped DEF Granted
    <3>4. \/ Since(grants', Window - keyTtl) = GrantsSince(Window - keyTtl) + 1
          \/ Since(grants', Window - keyTtl) = GrantsSince(Window - keyTtl)
      <4>1. \A k \in 0 .. Window :
              \/ Since(grants', k) = Since(grants, k) + 1
              \/ Since(grants', k) = Since(grants, k)
        <5>1. /\ \A k \in 1 .. Window :
                   Since(grants', k) = Since(grants, k) + 1
              /\ Since(grants', 0) = Since(grants, 0)
          BY <1>1, AllowGrants DEF GrantsSince
        <5>2. \A k \in 0 .. Window : k = 0 \/ k \in 1 .. Window
          OBVIOUS
        <5>3. QED
          BY <5>1, <5>2
      <4>2. QED
        BY <3>2, <4>1 DEF GrantsSince
    <3>5. GrantsSince(Window - keyTtl)' = Since(grants', Window - keyTtl)
      BY <1>1 DEF GrantsSince
    <3>6. QED
      BY <2>2, <3>3, <3>4, <3>5
  <2>4. QED
    BY <1>1, <1>2, <2>1, <2>2, <2>3 DEF Granted
<1>5. limiter!TypeOK'
  <2>1. \A a \in 0 .. Window - 1 : grants'[a] \in Nat
    BY <1>1, AllowGrants
  <2>2. \A a \in 0 .. Window - 1 : grants'[a] <= GrantsSince(Window)'
    BY <1>1, AllowGrants
  <2>3. GrantsSince(Window)' <= 2 * Limit /\ GrantsSince(Window)' \in Int
    <3>1. Least(count, Limit)' <= Limit /\ Least(count, Limit)' \in Int
      BY <1>1 DEF Least
    <3>2. GrantsSince(Window)' \in Int
      BY <1>1, GrantsTyped, AllowGrants
    <3>3. QED
      BY <1>4, <3>1, <3>2 DEF Granted
  <2>4. \A a \in 0 .. Window - 1 : grants'[a] \in 0 .. 2 * Limit
    BY <2>1, <2>2, <2>3
  <2>5. grants' \in [limiter!Ages -> 0 .. 2 * Limit]
    BY <1>1, <2>4 DEF limiter!Allow, limiter!TypeOK, limiter!Ages
  <2>6. QED
    BY <1>1, <2>5 DEF limiter!TypeOK, limiter!MaxCount
<1>6. QED
  BY <1>3, <1>4, <1>5

LEMMA DeniedStep ==
  ASSUME LimiterIInv, NEW c \in Callers, limiter!Incr(c),
         ~limiter!FirstHit(count + 1), ~limiter!WithinLimit(count + 1)
  PROVE  LimiterIInv'
<1>. USE LimiterTypes DEF LimiterIInv
<1>1. /\ count \in Nat \ {0} /\ count' \in Nat \ {0} /\ count' <= Limit + 2
      /\ count >= Limit /\ count' >= Limit
      /\ promise' = promise /\ command[c] = "none"
      /\ command' = [command EXCEPT ![c] = "ttl"]
      /\ waiting' = [waiting EXCEPT ![c] = 0]
      /\ UNCHANGED <<grants, keyTtl, lost>>
  BY DEF limiter!Incr, limiter!FirstHit, limiter!WithinLimit, limiter!MaxCount,
         limiter!TypeOK, limiter!Send
<1>2. limiter!TypeOK'
  BY <1>1 DEF limiter!TypeOK, limiter!Commands, limiter!MaxCount
<1>3. Opening' = Opening /\ \A d \in Opening : waiting'[d] = waiting[d]
  BY <1>1 DEF Opening, limiter!TypeOK
<1>4. OneOpening' /\ PromiseCovers'
  BY <1>1, <1>3 DEF OneOpening, PromiseCovers
<1>5. Granted'
  <2>1. Least(count, Limit) = Limit /\ Least(count, Limit)' = Limit
    BY <1>1 DEF Least
  <2>2. \A k : GrantsSince(k)' = Since(grants, k)
    BY <1>1 DEF GrantsSince
  <2>3. QED
    BY <1>1, <1>3, <2>1 DEF Granted, GrantsSince
<1>6. QED
  BY <1>2, <1>4, <1>5

(* EXPIRE begins the window in which all grants are of this key.             *)
LEMMA ExpireStep ==
  ASSUME LimiterIInv, NEW c \in Callers, limiter!Expire(c)
  PROVE  LimiterIInv'
<1>. USE LimiterTypes DEF LimiterIInv
<1>1. c \in Opening /\ count > 0 /\ count \in Nat /\ keyTtl = NoExpiry
  BY DEF limiter!Expire, Opening, OneOpening, limiter!TypeOK
<1>2. /\ keyTtl' = Window /\ count' = count /\ lost' = lost /\ promise' = promise
      /\ command' = [command EXCEPT ![c] = "none"]
      /\ waiting' = [waiting EXCEPT ![c] = 0]
      /\ limiter!Allow
  BY <1>1 DEF limiter!Expire, limiter!Send
<1>3. Opening' = {}
  BY <1>1, <1>2 DEF Opening, OneOpening, limiter!TypeOK
<1>4. OneOpening'
  BY <1>2, <1>3 DEF OneOpening
<1>5. PromiseCovers'
  BY <1>1, <1>2, <1>3 DEF PromiseCovers, limiter!TypeOK
<1>6. /\ GrantsSince(Window)' = GrantsSince(Window) + 1
      /\ GrantsSince(Window) \in Int
      /\ Least(count, Limit) \in Int /\ Least(count, Limit) <= Limit
      /\ Least(count, Limit)' = Least(count, Limit)
      /\ 0 <= Least(count, Limit)
      /\ GrantsSince(0)' = 0
  BY <1>1, <1>2, GrantsTyped, AllowGrants DEF Least
<1>7. Granted'
  <2>1. GrantsSince(Window)' <= Limit + Least(count, Limit)'
    BY <1>1, <1>6 DEF Granted
  <2>2. GrantsSince(Window - keyTtl)' = GrantsSince(0)'
    BY <1>2 DEF GrantsSince
  <2>3. QED
    BY <1>3, <1>6, <2>1, <2>2 DEF Granted
<1>8. limiter!TypeOK'
  <2>1. \A a \in 0 .. Window - 1 : grants'[a] \in Nat
    BY <1>2, AllowGrants
  <2>2. \A a \in 0 .. Window - 1 : grants'[a] <= GrantsSince(Window)'
    BY <1>2, AllowGrants
  <2>3. \A a \in 0 .. Window - 1 : grants'[a] \in 0 .. 2 * Limit
    BY <1>6, <1>7, <2>1, <2>2 DEF Granted
  <2>4. grants' \in [limiter!Ages -> 0 .. 2 * Limit]
    BY <1>2, <2>3 DEF limiter!Allow, limiter!TypeOK, limiter!Ages
  <2>5. QED
    BY <1>1, <1>2, <2>4 DEF limiter!TypeOK, limiter!Commands
<1>9. QED
  BY <1>4, <1>5, <1>7, <1>8

(* TTL, and the loss of a command, allow nothing.                            *)
LEMMA QuietStep ==
  ASSUME LimiterIInv, NEW c \in Callers, limiter!AskTtl(c) \/ limiter!Fault(c)
  PROVE  LimiterIInv'
<1>. USE LimiterTypes DEF LimiterIInv
<1>1. /\ command[c] # "none"
      /\ command' = [command EXCEPT ![c] = "none"]
      /\ waiting' = [waiting EXCEPT ![c] = 0]
      /\ UNCHANGED <<count, keyTtl, grants>>
      /\ lost' \in BOOLEAN /\ (lost => lost') /\ (command[c] = "expire" => lost')
  BY DEF limiter!AskTtl, limiter!Fault, limiter!Send, limiter!TypeOK
<1>2. /\ Opening' \subseteq Opening
      /\ ~lost' => ~lost /\ Opening' = Opening /\ c \notin Opening
      /\ \A d \in Opening' : waiting'[d] = waiting[d]
  BY <1>1 DEF Opening, limiter!TypeOK
<1>3. /\ promise' \in {NoPromise} \cup 0 .. Window + Delay
      /\ PromiseCovers'
  <2>1. CASE limiter!Fault(c)
    BY <1>1, <1>2, <2>1 DEF limiter!Fault, PromiseCovers, limiter!TypeOK
  <2>2. CASE limiter!AskTtl(c)
    <3>1. /\ keyTtl # NoExpiry => promise' = keyTtl + Delay /\ keyTtl \in 1 .. Window
          /\ keyTtl = NoExpiry => promise' = Window + Delay
      BY <2>2 DEF limiter!AskTtl, limiter!RetryAfter, limiter!TypeOK
    <3>2. \A d \in Opening' : waiting'[d] \in 0 .. Delay /\ keyTtl = NoExpiry
      BY <1>1, <1>2 DEF limiter!TypeOK, Opening, OneOpening
    <3>3. QED
      BY <1>1, <3>1, <3>2 DEF PromiseCovers
  <2>3. QED
    BY <2>1, <2>2
<1>4. limiter!TypeOK'
  BY <1>1, <1>3 DEF limiter!TypeOK, limiter!Commands
<1>5. OneOpening'
  BY <1>1, <1>2 DEF OneOpening
<1>6. Granted'
  <2>1. \A k : GrantsSince(k)' = Since(grants, k)
    BY <1>1 DEF GrantsSince
  <2>2. QED
    BY <1>1, <1>2 DEF Granted, GrantsSince, Least
<1>7. QED
  BY <1>3, <1>4, <1>5, <1>6

(* A tick ages the grants, and ends the window when its time is up.          *)
LEMMA TickStep ==
  ASSUME LimiterIInv, limiter!Tick
  PROVE  LimiterIInv'
<1>. USE LimiterTypes DEF LimiterIInv
<1>1. /\ \A d \in Callers : command[d] # "none" => waiting[d] < Delay
      /\ waiting' = [d \in Callers |-> IF command[d] = "none" THEN 0 ELSE waiting[d] + 1]
      /\ command' = command /\ lost' = lost
      /\ promise' = IF promise \in {NoPromise, 0} THEN promise ELSE promise - 1
      /\ keyTtl = 1 => count' = 0 /\ keyTtl' = NoExpiry
      /\ keyTtl = NoExpiry => count' = count /\ keyTtl' = NoExpiry
      /\ keyTtl \notin {1, NoExpiry} => count' = count /\ keyTtl' = keyTtl - 1
  BY DEF limiter!Tick, limiter!Expires
<1>2. /\ count \in Nat /\ (keyTtl = NoExpiry \/ keyTtl \in 1 .. Window)
      /\ count = 0 => keyTtl = NoExpiry
      /\ promise \in {NoPromise} \cup 0 .. Window + Delay
  BY DEF limiter!TypeOK
<1>3. \A d \in Callers : waiting'[d] \in 0 .. Delay
  BY <1>1 DEF limiter!TypeOK
<1>4. limiter!TypeOK'
  <2>1. waiting' \in [Callers -> 0 .. Delay]
    BY <1>1, <1>3
  <2>2. grants' \in [limiter!Ages -> 0 .. 2 * Limit]
    BY TickGrants DEF limiter!Ages
  <2>3. promise' \in {NoPromise} \cup 0 .. Window + Delay
    BY <1>1, <1>2
  <2>4. /\ count' \in 0 .. limiter!MaxCount
        /\ keyTtl' \in {NoExpiry} \cup 1 .. Window
        /\ count' = 0 => keyTtl' = NoExpiry
    BY <1>1, <1>2 DEF limiter!TypeOK, limiter!MaxCount
  <2>5. command' \in [Callers -> limiter!Commands] /\ lost' \in BOOLEAN
    BY <1>1 DEF limiter!TypeOK
  <2>6. QED
    BY <2>1, <2>2, <2>3, <2>4, <2>5 DEF limiter!TypeOK
<1>5. Opening' = Opening /\ \A d \in Opening : waiting'[d] = waiting[d] + 1
  BY <1>1 DEF Opening
<1>6. OneOpening'
  BY <1>1, <1>2, <1>5 DEF OneOpening
<1>7. PromiseCovers'
  <2>1. SUFFICES ASSUME promise' # NoPromise, count' > 0, ~lost'
                 PROVE  /\ keyTtl' # NoExpiry => keyTtl' <= promise'
                        /\ \A d \in Opening' : Window + Delay - waiting'[d] <= promise'
    BY DEF PromiseCovers
  <2>2. promise \in 0 .. Window + Delay /\ promise # NoPromise /\ count > 0 /\ ~lost
    BY <1>1, <1>2, <2>1
  <2>3. /\ keyTtl # NoExpiry => keyTtl <= promise /\ keyTtl \in Nat
        /\ \A d \in Opening : Window + Delay - waiting[d] <= promise
    BY <1>2, <2>2 DEF PromiseCovers
  <2>4. /\ \A d \in Opening : waiting[d] \in Nat /\ waiting[d] < Delay
    BY <1>1 DEF Opening, limiter!TypeOK
  <2>5. keyTtl' # NoExpiry => keyTtl' <= promise'
    BY <1>1, <1>2, <2>2, <2>3
  <2>6. ASSUME NEW d \in Opening
        PROVE  Window + Delay - waiting'[d] <= promise'
    <3>1. /\ waiting'[d] = waiting[d] + 1 /\ waiting[d] \in Nat /\ waiting[d] < Delay
          /\ Window + Delay - waiting[d] <= promise
      BY <1>5, <2>3, <2>4
    <3>2. promise # 0 /\ promise \in Nat
      BY <2>2, <3>1
    <3>3. promise' = promise - 1
      BY <1>1, <2>2, <3>2
    <3>4. QED
      BY <3>1, <3>2, <3>3
  <2>7. QED
    BY <1>5, <2>5, <2>6
<1>8. Granted'
  <2>1. /\ \A k \in 0 .. Window : GrantsSince(k) \in Int
        /\ \A j, k \in 0 .. Window : j <= k => GrantsSince(j) <= GrantsSince(k)
        /\ \A k \in 0 .. Window - 1 : GrantsSince(k + 1)' = GrantsSince(k)
    BY GrantsTyped, TickGrants
  <2>2. GrantsSince(Window)' = GrantsSince(Window - 1)
    <3>1. Window - 1 \in 0 .. Window - 1 /\ (Window - 1) + 1 = Window
      OBVIOUS
    <3>2. GrantsSince((Window - 1) + 1)' = GrantsSince(Window - 1)
      BY <2>1, <3>1
    <3>3. GrantsSince((Window - 1) + 1)' = GrantsSince(Window)'
      BY <3>1 DEF GrantsSince
    <3>4. QED
      BY <3>2, <3>3
  <2>3. /\ GrantsSince(Window - 1) \in Int /\ GrantsSince(Window) \in Int
        /\ GrantsSince(Window - 1) <= GrantsSince(Window)
    BY <2>1
  <2>4. /\ Least(count, Limit) \in Int /\ Least(count, Limit) <= Limit
        /\ 0 <= Least(count, Limit) /\ Least(0, Limit) = 0
    BY <1>2 DEF Least
  <2>5. CASE keyTtl = 1
    <3>1. GrantsSince(Window - 1) <= Least(count, Limit)
      BY <2>5 DEF Granted
    <3>2. Opening' = {}
      BY <1>5, <2>5 DEF OneOpening
    <3>3. count' = 0 /\ keyTtl' = NoExpiry
      BY <1>1, <2>5
    <3>4. Least(count, Limit)' = 0
      BY <2>4, <3>3 DEF Least
    <3>5. QED
      BY <2>2, <2>3, <2>4, <3>1, <3>2, <3>3, <3>4 DEF Granted
  <2>6. CASE keyTtl # 1
    <3>1. count' = count /\ Least(count, Limit)' = Least(count, Limit)
      BY <1>1, <2>6 DEF Least
    <3>2. /\ GrantsSince(Window)' <= Limit + Least(count, Limit)'
          /\ Opening' # {} => GrantsSince(Window)' < Limit + Least(count, Limit)'
      BY <1>5, <2>2, <2>3, <2>4, <3>1 DEF Granted
    <3>3. ASSUME keyTtl' # NoExpiry
          PROVE  GrantsSince(Window - keyTtl)' <= Least(count, Limit)'
      <4>1. keyTtl # NoExpiry /\ keyTtl \in 2 .. Window /\ keyTtl' = keyTtl - 1
        BY <1>1, <1>2, <2>6, <3>3
      <4>2. /\ Window - keyTtl \in 0 .. Window - 1
            /\ Window - (keyTtl - 1) = (Window - keyTtl) + 1
        BY <4>1
      <4>3. Since(grants', (Window - keyTtl) + 1) = GrantsSince(Window - keyTtl)
        BY <2>1, <4>2 DEF GrantsSince
      <4>4. GrantsSince(Window - keyTtl)'
              = Since(grants', (Window - keyTtl) + 1)
        BY <4>1, <4>2 DEF GrantsSince
      <4>5. GrantsSince(Window - keyTtl) <= Least(count, Limit)
        BY <4>1 DEF Granted
      <4>6. QED
        BY <3>1, <4>3, <4>4, <4>5
    <3>4. QED
      BY <3>2, <3>3 DEF Granted
  <2>7. QED
    BY <2>5, <2>6
<1>9. QED
  BY <1>4, <1>6, <1>7, <1>8

LEMMA LimiterStep == LimiterIInv /\ limiter!Next => LimiterIInv'
<1>1. ASSUME LimiterIInv, NEW c \in Callers, limiter!Incr(c)
      PROVE  LimiterIInv'
  BY <1>1, FirstHitStep, WithinStep, DeniedStep
<1>2. QED
  BY <1>1, ExpireStep, QuietStep, TickStep DEF limiter!Next

LEMMA LimiterKept == LimiterIInv => LimitKept
<1>. SUFFICES ASSUME LimiterIInv PROVE LimitKept
  OBVIOUS
<1>. USE LimiterTypes DEF LimiterIInv
<1>1. GrantsSince(Window) <= 2 * Limit
  <2>1. Least(count, Limit) \in Int /\ Least(count, Limit) <= Limit
    BY DEF Least, limiter!TypeOK, limiter!MaxCount
  <2>2. GrantsSince(Window) \in Int
    BY GrantsTyped
  <2>3. QED
    BY <2>1, <2>2 DEF Granted
<1>2. promise = 0 => count = 0 \/ lost
  <2>1. SUFFICES ASSUME promise = 0, count # 0, ~lost PROVE FALSE
    OBVIOUS
  <2>2. promise # NoPromise /\ count > 0
    BY <2>1 DEF limiter!TypeOK, limiter!MaxCount
  <2>3. CASE keyTtl # NoExpiry
    BY <2>1, <2>2, <2>3 DEF PromiseCovers, limiter!TypeOK
  <2>4. CASE keyTtl = NoExpiry
    <3>1. PICK c \in Opening : TRUE
      BY <2>1, <2>2, <2>4 DEF OneOpening
    <3>2. waiting[c] \in 0 .. Delay /\ Window + Delay - waiting[c] <= 0
      BY <2>1, <2>2, <3>1 DEF PromiseCovers, Opening, limiter!TypeOK
    <3>3. QED
      BY <3>2
  <2>5. QED
    BY <2>3, <2>4
<1>3. QED
  BY <1>1, <1>2, InWindowIsSum
     DEF LimitKept, limiter!BurstBound, limiter!RetryAfterHonoured

(* RedisRateLimiter.check() for every limit, window, delay and number of     *)
(* calls at a time: no stretch of one window's length sees more than twice   *)
(* the limit, and a denied caller who waits as told finds the window over.   *)
THEOREM LimitKeptHolds == MCSpec => []LimitKept
<1>1. MCInit => LimiterIInv
  BY InitLimiter DEF MCInit
<1>2. LimiterIInv /\ [MCNext /\ UNCHANGED part]_<<part, vars, limiterVars, cacheVars>>
        => LimiterIInv'
  <2>. SUFFICES ASSUME LimiterIInv,
                       [MCNext /\ UNCHANGED part]_<<part, vars, limiterVars, cacheVars>>
                PROVE  LimiterIInv'
    OBVIOUS
  <2>1. CASE limiter!Next
    BY <2>1, LimiterStep
  <2>2. CASE UNCHANGED limiterVars
    BY <2>2 DEF limiterVars, LimiterIInv, limiter!TypeOK, OneOpening, Opening,
                Granted, GrantsSince, Least, PromiseCovers
  <2>3. QED
    BY <2>1, <2>2 DEF MCNext
<1>3. QED
  BY <1>1, <1>2, LimiterKept, PTL DEF MCSpec
-----------------------------------------------------------------------------
(* The shared cache.                                                         *)

(* Nothing in Redis, or on its way there, is staler than its expiry allows.  *)
CacheIInv ==
  /\ cache!TypeOK
  /\ entry # Absent =>
       /\ entry.left # Forever => entry.left + entry.age <= ComputeTime + cache!Longest
       /\ deleted # NoDelete => entry.age <= deleted
  /\ \A u \in Users :
       writing[u] # Idle /\ deleted # NoDelete => writing[u].age <= deleted
  /\ NoStaleAnswer

(* There is a longest time to live, and no key gets a longer one.            *)
LEMMA LongestType ==
  /\ cache!Longest \in Nat
  /\ \A given \in Ttls \cup {NoTtl} : cache!Given(given) \in 0 .. cache!Longest
  /\ cache!Oldest \in Nat /\ cache!Oldest = ComputeTime + cache!Longest + 1
<1>1. PICK t \in Ttls \cup {DefaultTtl} : \A u \in Ttls \cup {DefaultTtl} : u <= t
  BY RedisAssumption DEF cache!CacheAssumption
<1>2. /\ cache!Longest \in Ttls \cup {DefaultTtl}
      /\ \A u \in Ttls \cup {DefaultTtl} : u <= cache!Longest
  BY <1>1 DEF cache!Longest
<1>3. QED
  BY <1>2, RedisAssumption DEF cache!CacheAssumption, cache!Given, cache!Oldest

LEMMA InitCache == cache!Init => CacheIInv
BY RedisAssumption, LongestType
   DEF cache!Init, CacheIInv, cache!TypeOK, NoStaleAnswer, cache!NoStaleAnswer

LEMMA CacheStep == CacheIInv /\ cache!Next => CacheIInv'
<1>. SUFFICES ASSUME CacheIInv, cache!Next PROVE CacheIInv'
  OBVIOUS
<1>. USE RedisAssumption, LongestType DEF cache!CacheAssumption
<1>1. ASSUME NEW u \in Users, cache!Get(u) PROVE CacheIInv'
  BY <1>1 DEF CacheIInv, cache!TypeOK, NoStaleAnswer, cache!NoStaleAnswer,
             cache!Get
<1>2. ASSUME NEW u \in Users, cache!Fault(u) PROVE CacheIInv'
  BY <1>2 DEF CacheIInv, cache!TypeOK, NoStaleAnswer, cache!NoStaleAnswer,
             cache!Fault
<1>3. ASSUME NEW u \in Users, cache!Serve(u) PROVE CacheIInv'
  <2>. DEFINE w == writing[u]
  <2>1. w \in [ttl : Ttls \cup {NoTtl}, age : 0 .. ComputeTime]
    BY <1>3 DEF CacheIInv, cache!TypeOK, cache!Serve
  <2>2. /\ cache!Lifetime(w.ttl) \in {Forever} \cup 1 .. cache!Longest
        /\ cache!Lifetime(w.ttl) # Forever => cache!Lifetime(w.ttl) \in 1 .. cache!Longest
    <3>1. w.ttl \in Ttls \cup {NoTtl}
      BY <2>1
    <3>. HIDE DEF w
    <3>2. cache!Given(w.ttl) \in 0 .. cache!Longest
      BY <3>1, LongestType
    <3>3. QED
      BY <3>2, LongestType DEF cache!Lifetime
  <2>3. /\ entry' = [left |-> cache!Lifetime(w.ttl), age |-> w.age]
        /\ answer' = Absent
        /\ writing' = [writing EXCEPT ![u] = Idle]
        /\ deleted' = deleted
        /\ deleted # NoDelete => w.age <= deleted
    BY <1>3 DEF CacheIInv, cache!Serve
  <2>4. entry' \in cache!Entries
    BY <2>1, <2>2, <2>3 DEF cache!Entries
  <2>5. cache!TypeOK'
    BY <2>3, <2>4 DEF CacheIInv, cache!TypeOK
  <2>6. entry'.left # Forever => entry'.left + entry'.age <= ComputeTime + cache!Longest
    BY <2>1, <2>2, <2>3
  <2>. HIDE DEF w
  <2>7. QED
    BY <2>3, <2>5, <2>6
       DEF CacheIInv, cache!TypeOK, NoStaleAnswer, cache!NoStaleAnswer
<1>4. ASSUME NEW u \in Users, NEW given \in Ttls \cup {NoTtl},
             cache!Set(u, given)
      PROVE  CacheIInv'
  BY <1>4 DEF CacheIInv, cache!TypeOK, NoStaleAnswer, cache!NoStaleAnswer,
             cache!Set, cache!Write
<1>5. ASSUME NEW u \in Users, NEW given \in Ttls \cup {NoTtl},
             cache!GetOrSet(u, given)
      PROVE  CacheIInv'
  BY <1>5 DEF CacheIInv, cache!TypeOK, NoStaleAnswer, cache!NoStaleAnswer,
             cache!GetOrSet, cache!Write
<1>6. CASE cache!Delete
  BY <1>6 DEF CacheIInv, cache!TypeOK, NoStaleAnswer, cache!NoStaleAnswer,
             cache!Delete, cache!AfterDel
<1>7. CASE cache!Tick
  BY <1>7 DEF CacheIInv, cache!TypeOK, NoStaleAnswer, cache!NoStaleAnswer,
             cache!Tick, cache!Entries, cache!Older
<1>8. QED
  BY <1>1, <1>2, <1>3, <1>4, <1>5, <1>6, <1>7 DEF cache!Next

(* RedisCache.get() and getOrSet() for all times to live and any number of   *)
(* instances: no value is answered that is older than its expiry allows, or  *)
(* than a delete() that no set() or getOrSet() overlapped.                   *)
THEOREM NoStaleAnswerHolds == MCSpec => []NoStaleAnswer
<1>1. MCInit => CacheIInv
  BY InitCache DEF MCInit
<1>2. CacheIInv /\ [MCNext /\ UNCHANGED part]_<<part, vars, limiterVars, cacheVars>>
        => CacheIInv'
  <2>. SUFFICES ASSUME CacheIInv,
                       [MCNext /\ UNCHANGED part]_<<part, vars, limiterVars, cacheVars>>
                PROVE  CacheIInv'
    OBVIOUS
  <2>1. CASE cache!Next
    BY <2>1, CacheStep
  <2>2. CASE UNCHANGED cacheVars
    BY <2>2 DEF cacheVars, CacheIInv, cache!TypeOK, NoStaleAnswer,
       cache!NoStaleAnswer
  <2>3. QED
    BY <2>1, <2>2 DEF MCNext
<1>3. CacheIInv => NoStaleAnswer
  BY DEF CacheIInv
<1>4. QED
  BY <1>1, <1>2, <1>3, PTL DEF MCSpec
=============================================================================
