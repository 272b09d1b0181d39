------------------------------ MODULE RedisLock ------------------------------
(* The distributed mutex of packages/redis: withLock and acquireWithRetry of *)
(* several application instances against one Redis key.  Commands travel:    *)
(* a request may be served after its sender crashed or gave up on it, or be  *)
(* lost.  Redis itself is external and modelled from the commands the code   *)
(* sends: SET key token PX ttl NX, and the compare-and-delete script.        *)
EXTENDS Naturals

CONSTANTS Clients,
          Tokens,        \* pool of random tokens
          NoToken,
          Ttl,           \* ttlMs
          AcquireTime,   \* timeoutMs of acquireWithRetry
          HoldTime       \* longest time from the grant to the end of fn

ASSUME LockAssumption ==
  /\ NoToken \notin Tokens
  /\ Ttl \in Nat \ {0} /\ AcquireTime \in Nat /\ HoldTime \in Nat

VARIABLES value,     \* the key in Redis: a token, or NoToken when absent
          ttl,       \* its remaining time to live
          requests,  \* commands sent and not yet served
          pc,        \* where each client stands in withLock
          token,     \* the token of its current acquire
          elapsed,   \* time acquireWithRetry has been running, or 0
          age        \* time since the lock was granted to it, or 0

redisVars == <<value, ttl>>
vars == <<redisVars, requests, pc, token, elapsed, age>>

(* "granted" and "denied": the reply is on its way; "holding": fn runs;      *)
(* "releasing": fn is over and the release script has been sent.             *)
Locations == {"idle", "trying", "setting", "granted", "denied", "holding",
              "releasing"}

Ops == {"set", "release"}

TypeOK ==
  /\ value \in Tokens \cup {NoToken}
  /\ ttl \in 0 .. Ttl
  /\ requests \subseteq [op : Ops, token : Tokens]
  /\ pc \in [Clients -> Locations]
  /\ token \in [Clients -> Tokens \cup {NoToken}]
  /\ elapsed \in [Clients -> 0 .. AcquireTime]
  /\ age \in [Clients -> 0 .. HoldTime]

Init ==
  /\ value = NoToken
  /\ ttl = 0
  /\ requests = {}
  /\ pc = [c \in Clients |-> "idle"]
  /\ token = [c \in Clients |-> NoToken]
  /\ elapsed = [c \in Clients |-> 0]
  /\ age = [c \in Clients |-> 0]
-----------------------------------------------------------------------------
(* Faulty variants of the operators below, used to check that the            *)
(* properties can fail.                                                      *)
OverwritesHolder == TRUE
DeletesBlindly(t) == value # NoToken
KeyStays(n) == FALSE
-----------------------------------------------------------------------------
(* The operators of the code and of the commands it sends.                   *)

(* randomBytes(16): a token nobody remembers.                                *)
Fresh(t) ==
  /\ t # value
  /\ \A r \in requests : r.token # t
  /\ \A c \in Clients : token[c] # t

(* NX.                                                                       *)
KeyAbsent == value = NoToken

(* get(key) == token in RELEASE_SCRIPT.                                      *)
StillMine(t) == value = t

(* PX.                                                                       *)
Expiry(n) == n

KeyExpires(n) == n = 1

TimeLeft(c) == elapsed[c] < AcquireTime

Request(op, t) == [op |-> op, token |-> t]

Awaits(c, location, t) == pc[c] = location /\ token[c] = t
-----------------------------------------------------------------------------
(* withLock() calls acquireWithRetry().                                      *)
WithLock(c) ==
  /\ pc[c] = "idle"
  /\ pc' = [pc EXCEPT ![c] = "trying"]
  /\ UNCHANGED <<redisVars, requests, token, elapsed, age>>

(* One turn of the retry loop: acquire() sends SET NX PX with a new token.   *)
SendSet(c) ==
  /\ pc[c] = "trying"
  /\ TimeLeft(c)
  /\ \E t \in Tokens :
       /\ Fresh(t)
       /\ token' = [token EXCEPT ![c] = t]
       /\ requests' = requests \cup {Request("set", t)}
  /\ pc' = [pc EXCEPT ![c] = "setting"]
  /\ UNCHANGED <<redisVars, elapsed, age>>

(* acquireWithRetry returns null and withLock throws.                        *)
GiveUp(c) ==
  /\ pc[c] = "trying"
  /\ ~TimeLeft(c)
  /\ pc' = [pc EXCEPT ![c] = "idle"]
  /\ elapsed' = [elapsed EXCEPT ![c] = 0]
  /\ UNCHANGED <<redisVars, requests, token, age>>

ServeSet(t) ==
  /\ Request("set", t) \in requests
  /\ requests' = requests \ {Request("set", t)}
  /\ IF KeyAbsent
       THEN /\ value' = t
            /\ ttl' = Expiry(Ttl)
            /\ pc' = [c \in Clients |->
                        IF Awaits(c, "setting", t) THEN "granted" ELSE pc[c]]
       ELSE /\ UNCHANGED redisVars
            /\ pc' = [c \in Clients |->
                        IF Awaits(c, "setting", t) THEN "denied" ELSE pc[c]]
  /\ UNCHANGED <<token, elapsed, age>>

(* The reply arrives: fn starts.                                             *)
ReceiveGrant(c) ==
  /\ pc[c] = "granted"
  /\ pc' = [pc EXCEPT ![c] = "holding"]
  /\ elapsed' = [elapsed EXCEPT ![c] = 0]
  /\ UNCHANGED <<redisVars, requests, token, age>>

(* The reply arrives, and retryDelayMs later the loop goes round.            *)
ReceiveDenial(c) ==
  /\ pc[c] = "denied"
  /\ pc' = [pc EXCEPT ![c] = "trying"]
  /\ token' = [token EXCEPT ![c] = NoToken]
  /\ UNCHANGED <<redisVars, requests, elapsed, age>>

(* fn resolves or rejects; the finally block sends the release script.       *)
FnSettles(c) ==
  /\ pc[c] = "holding"
  /\ pc' = [pc EXCEPT ![c] = "releasing"]
  /\ requests' = requests \cup {Request("release", token[c])}
  /\ age' = [age EXCEPT ![c] = 0]
  /\ UNCHANGED <<redisVars, token, elapsed>>

(* The script runs; its reply ends withLock.                                 *)
ServeRelease(t) ==
  /\ Request("release", t) \in requests
  /\ requests' = requests \ {Request("release", t)}
  /\ IF StillMine(t)
       THEN value' = NoToken /\ ttl' = 0
       ELSE UNCHANGED redisVars
  /\ pc' = [c \in Clients |->
              IF Awaits(c, "releasing", t) THEN "idle" ELSE pc[c]]
  /\ token' = [c \in Clients |->
                 IF Awaits(c, "releasing", t) THEN NoToken ELSE token[c]]
  /\ UNCHANGED <<elapsed, age>>

(* The instance crashes, or a command fails on it and withLock throws.  What *)
(* it sent may still be served later, or be lost.                            *)
Abandon(c) ==
  /\ pc[c] # "idle"
  /\ pc' = [pc EXCEPT ![c] = "idle"]
  /\ token' = [token EXCEPT ![c] = NoToken]
  /\ elapsed' = [elapsed EXCEPT ![c] = 0]
  /\ age' = [age EXCEPT ![c] = 0]
  /\ \/ UNCHANGED requests
     \/ requests' = {r \in requests : r.token # token[c]}
  /\ UNCHANGED redisVars

HasLock(c) == pc[c] \in {"granted", "holding"}

Acquiring(c) == pc[c] \in {"trying", "setting", "granted", "denied"}

OneMore(n, bound) == IF n < bound THEN n + 1 ELSE bound

(* Time passes; Redis drops the key when its time to live is over.  A grant  *)
(* is delivered and fn ends within HoldTime.                                 *)
Tick ==
  /\ \A c \in Clients : HasLock(c) => age[c] < HoldTime
  /\ elapsed' = [c \in Clients |->
                   IF Acquiring(c) THEN OneMore(elapsed[c], AcquireTime) ELSE 0]
  /\ age' = [c \in Clients |-> IF HasLock(c) THEN age[c] + 1 ELSE 0]
  /\ IF KeyExpires(ttl)
       THEN value' = NoToken /\ ttl' = 0
       ELSE value' = value /\ ttl' = IF ttl = 0 THEN 0 ELSE ttl - 1
  /\ UNCHANGED <<requests, pc, token>>

Next ==
  \/ \E c \in Clients :
       \/ WithLock(c) \/ SendSet(c) \/ GiveUp(c)
       \/ ReceiveGrant(c) \/ ReceiveDenial(c)
       \/ FnSettles(c) \/ Abandon(c)
  \/ \E t \in Tokens : ServeSet(t) \/ ServeRelease(t)
  \/ Tick

Spec == Init /\ [][Next]_vars

(* A client that runs goes on running, Redis serves what reaches it, and     *)
(* time passes.  Nobody is obliged to want the lock, to crash or to lose a   *)
(* request.                                                                  *)
Fairness ==
  /\ WF_vars(Tick)
  /\ \A t \in Tokens : WF_vars(ServeSet(t)) /\ WF_vars(ServeRelease(t))
  /\ \A c \in Clients :
       /\ WF_vars(SendSet(c) \/ GiveUp(c))
       /\ WF_vars(ReceiveGrant(c)) /\ WF_vars(ReceiveDenial(c))
       /\ WF_vars(FnSettles(c))

FairSpec == Spec /\ Fairness
-----------------------------------------------------------------------------
(* Within its lease a client that was granted the lock still has it: neither *)
(* the late release of an earlier holder whose lease ran out, nor a SET of a *)
(* client that crashed, takes it away.                                       *)
LeaseKept ==
  \A c \in Clients :
    HasLock(c) /\ age[c] < Ttl => value = token[c] /\ ttl = Ttl - age[c]

(* Two instances run fn at the same time only when a lease has run out under *)
(* one of them: withLock neither renews the lock nor looks at it again.      *)
SingleExecution ==
  \A c, d \in Clients :
    pc[c] = "holding" /\ pc[d] = "holding" =>
      c = d \/ age[c] >= Ttl \/ age[d] >= Ttl

(* The lock never stays taken: a holder that crashed, a grant nobody is      *)
(* waiting for any more and a lost release are all cleaned up by the expiry. *)
LockFrees == value # NoToken ~> value = NoToken
=============================================================================
