----------------------------- MODULE ComposedCall -----------------------------
(* The composition packages/reliability recommends (README, Composing all    *)
(* four together): breaker.execute(() => bulkhead.execute(() => retry(fn))). *)
(* CircuitBreaker is extended, so running is the calls the breaker admitted; *)
(* executing is those among them that have a slot of the bulkhead.  The      *)
(* length of a back-off is free.                                             *)
EXTENDS CircuitBreaker

CONSTANTS MaxConcurrent, MaxQueue,
          MaxAttempts,    \* maxAttempts of retry
          Fatal           \* the calls to whose errors retryOn answers no

VARIABLES active, queue, executing,
          attempt,        \* the attempts of fn each call has made
          resting,        \* calls in retry's sleep
          outcome         \* what bulkhead.execute answered each call

bulkhead == INSTANCE Bulkhead WITH Callers <- Calls, running <- executing

ASSUME ComposedAssumption ==
  bulkhead!BulkheadAssumption /\ MaxAttempts \in Nat \ {0} /\ Fatal \subseteq Calls

slots == <<active, queue, executing>>
callVars == <<slots, attempt, resting, outcome>>

ComposedInit ==
  /\ Init /\ bulkhead!Init
  /\ attempt = [c \in Calls |-> 0]
  /\ resting = {}
  /\ outcome = [c \in Calls |-> "none"]
-----------------------------------------------------------------------------
(* Faulty variants of the operators below, used to check that the            *)
(* properties can fail.                                                      *)
OneAttemptTooFew(n) == n >= MaxAttempts - 1
-----------------------------------------------------------------------------
IsLastAttempt(n) == n = MaxAttempts

RetryOn(c) == c \notin Fatal

(* The breaker admits a call, and in the same turn of the event loop it gets *)
(* a slot, queues, or is turned away: a failure to the breaker.              *)
Call(c) ==
  /\ Admit(c)
  /\ \/ bulkhead!Run(c) /\ attempt' = [attempt EXCEPT ![c] = 1]
          /\ UNCHANGED outcome
     \/ bulkhead!Wait(c) /\ UNCHANGED <<attempt, outcome>>
     \/ bulkhead!Reject(c) /\ outcome' = [outcome EXCEPT ![c] = "failure"]
          /\ UNCHANGED attempt
  /\ UNCHANGED resting

Refuse(c) == Reject(c) /\ UNCHANGED callVars

(* retry settles, and with it run() of the bulkhead, which hands the slot on.*)
Leave(c, result) ==
  /\ bulkhead!Settle(c)
  /\ outcome' = [outcome EXCEPT ![c] = result]
  /\ attempt' = [x \in Calls |->
                   IF x \in executing' \ executing THEN 1 ELSE attempt[x]]
  /\ UNCHANGED <<vars, resting>>

Resolve(c) ==
  /\ c \in executing \ resting
  /\ Leave(c, "success")

(* fn rejects: retry sleeps, its slot kept, or gives up.                     *)
Rest(c) ==
  /\ c \in executing \ resting
  /\ ~IsLastAttempt(attempt[c]) /\ RetryOn(c)
  /\ resting' = resting \cup {c}
  /\ UNCHANGED <<vars, slots, attempt, outcome>>

GiveUp(c) ==
  /\ c \in executing \ resting
  /\ IsLastAttempt(attempt[c]) \/ ~RetryOn(c)
  /\ Leave(c, "failure")

RetryAgain(c) ==
  /\ c \in resting
  /\ resting' = resting \ {c}
  /\ attempt' = [attempt EXCEPT ![c] = @ + 1]
  /\ UNCHANGED <<vars, slots, outcome>>

(* The answer reaches the breaker some microtasks later.                     *)
Answer(c) ==
  /\ \/ outcome[c] = "success" /\ Succeed(c)
     \/ outcome[c] = "failure" /\ Fail(c)
  /\ outcome' = [outcome EXCEPT ![c] = "none"]
  /\ attempt' = [attempt EXCEPT ![c] = 0]
  /\ UNCHANGED <<slots, resting>>

ComposedNext ==
  \/ \E c \in Calls : \/ Call(c) \/ Refuse(c) \/ Resolve(c) \/ Rest(c)
                      \/ GiveUp(c) \/ RetryAgain(c) \/ Answer(c)
  \/ (Observe \/ Reset \/ Tick) /\ UNCHANGED callVars

ComposedVars == <<vars, callVars>>

(* Callers keep calling, fn settles one way or the other, sleeps end, and    *)
(* time passes.                                                              *)
ComposedFairness ==
  /\ WF_ComposedVars(Tick /\ UNCHANGED callVars)
  /\ \A c \in Calls :
       /\ WF_ComposedVars(Call(c))
       /\ WF_ComposedVars(Resolve(c) \/ Rest(c) \/ GiveUp(c))
       /\ WF_ComposedVars(RetryAgain(c))
       /\ WF_ComposedVars(Answer(c))
-----------------------------------------------------------------------------
ComposedTypeOK ==
  /\ TypeOK /\ bulkhead!TypeOK
  /\ attempt \in [Calls -> 0 .. MaxAttempts]
  /\ resting \subseteq executing
  /\ outcome \in [Calls -> {"none"} \cup Outcomes]

Answered == {c \in Calls : outcome[c] # "none"}

(* A call the breaker admitted is in one place until the breaker hears of    *)
(* it: in the queue, in a slot or answered; no place is held by any other,   *)
(* and the bulkhead counts right and wastes no slot, whatever the breaker    *)
(* does meanwhile.  The breaker hears of a failure only when fn failed       *)
(* MaxAttempts times, or once in a way retryOn gives up on, or never ran     *)
(* because the bulkhead was full.                                            *)
PlacesKept ==
  /\ ComposedTypeOK
  /\ running = ToSet(queue) \cup executing \cup Answered
  /\ Answered \cap (ToSet(queue) \cup executing) = {}
  /\ bulkhead!CapacityRespected /\ bulkhead!NoIdleSlot /\ bulkhead!RunsOnce
  /\ \A c \in Calls :
       outcome[c] = "failure"
         => attempt[c] \in {0, IF c \in Fatal THEN 1 ELSE MaxAttempts}

(* Every admitted call returns, though it queues, retries and sleeps.        *)
CallReturns == \A c \in Calls : c \in running ~> c \notin running
=============================================================================
