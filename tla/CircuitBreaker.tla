---------------------------- MODULE CircuitBreaker ----------------------------
(* The circuit breaker of packages/reliability, with calls that overlap: a   *)
(* call is admitted in one state of the breaker and its result arrives in    *)
(* another.  Time is relative: openFor is the time since openedAt.           *)
EXTENDS Naturals, Sequences, SequencesExt

CONSTANTS Calls,              \* callers, each with at most one call running
          FailureThreshold,   \* config.failureThreshold
          SuccessThreshold,   \* config.successThreshold
          ResetTimeout,       \* config.resetTimeoutMs
          RollingWindowSize,  \* config.rollingWindowSize
          RateNum, RateDen    \* config.failureRateThreshold is RateNum / RateDen

ASSUME BreakerAssumption ==
  /\ FailureThreshold \in Nat \ {0}
  /\ SuccessThreshold \in Nat \ {0}
  /\ ResetTimeout \in Nat
  /\ RollingWindowSize \in Nat
  /\ RateNum \in Nat /\ RateDen \in Nat \ {0}

VARIABLES state,
          consecutiveFailures,   \* bound: no more than FailureThreshold
          consecutiveSuccesses,
          openFor,               \* bound: no more than ResetTimeout
          rollingResults,        \* the latest outcomes, oldest first
          running,               \* calls admitted and not yet settled
          sinceOpened            \* history: time since state last became OPEN

counters == <<consecutiveFailures, rollingResults>>
clocks == <<openFor, sinceOpened>>
vars == <<state, consecutiveSuccesses, counters, running, clocks>>

States == {"CLOSED", "OPEN", "HALF_OPEN"}
Outcomes == {"success", "failure"}

TypeOK ==
  /\ state \in States
  /\ consecutiveFailures \in 0 .. FailureThreshold
  /\ consecutiveSuccesses \in 0 .. SuccessThreshold
  /\ openFor \in 0 .. ResetTimeout
  /\ rollingResults \in Seq(Outcomes) /\ Len(rollingResults) <= RollingWindowSize
  /\ running \subseteq Calls
  /\ sinceOpened \in 0 .. ResetTimeout

(* openedAt is 0 at first: long ago.                                         *)
Init ==
  /\ state = "CLOSED"
  /\ consecutiveFailures = 0
  /\ consecutiveSuccesses = 0
  /\ openFor = ResetTimeout
  /\ rollingResults = <<>>
  /\ running = {}
  /\ sinceOpened = ResetTimeout
-----------------------------------------------------------------------------
(* Faulty variants of the operators below, used to check that the            *)
(* properties can fail.                                                      *)
PassedOnly(n, threshold) == n > threshold
OpenedAtKept == openFor
EveryTrialRestarts(s) == 0
-----------------------------------------------------------------------------
(* The operators of the code.                                                *)
AtMost(n, bound) == IF n > bound THEN bound ELSE n

(* recordRolling keeps the last RollingWindowSize results.                   *)
Shifted(s) == IF Len(s) > RollingWindowSize THEN Tail(s) ELSE s

Recorded(outcome) == Shifted(Append(rollingResults, outcome))

Reached(n, threshold) == n >= threshold

Failures(s) == Cardinality({i \in DOMAIN s : s[i] = "failure"})

(* A full window whose fraction of failures reaches the threshold.           *)
RateReached(s) ==
  /\ Len(s) >= RollingWindowSize
  /\ Len(s) > 0 \/ RateNum = 0
  /\ Failures(s) * RateDen >= RateNum * Len(s)

IsTrying == state = "HALF_OPEN"

OpenedNow == 0

(* What getState() returns, and what it does to the breaker.                 *)
CurrentState ==
  IF state = "OPEN" /\ openFor >= ResetTimeout THEN "HALF_OPEN" ELSE state

SuccessesOnAdmission(s) == IF s # state THEN 0 ELSE consecutiveSuccesses

GetState ==
  /\ state' = CurrentState
  /\ consecutiveSuccesses' = SuccessesOnAdmission(CurrentState)

Trip ==
  /\ state' = "OPEN"
  /\ openFor' = OpenedNow
  /\ consecutiveSuccesses' = 0
  /\ sinceOpened' = IF state = "OPEN" THEN sinceOpened ELSE 0
-----------------------------------------------------------------------------
(* execute(), up to the call of fn.                                          *)
Admit(c) ==
  /\ c \notin running
  /\ CurrentState # "OPEN"
  /\ GetState
  /\ running' = running \cup {c}
  /\ UNCHANGED <<counters, clocks>>

Reject(c) ==
  /\ c \notin running
  /\ CurrentState = "OPEN"
  /\ UNCHANGED vars

(* getState() or getStats() by a health check or a dashboard.                *)
Observe == GetState /\ UNCHANGED <<counters, running, clocks>>

TrialSucceeds ==
  /\ consecutiveSuccesses' = consecutiveSuccesses + 1
  /\ IF Reached(consecutiveSuccesses + 1, SuccessThreshold)
       THEN state' = "CLOSED" /\ rollingResults' = <<>>
       ELSE state' = state /\ rollingResults' = Recorded("success")

(* fn resolves: onSuccess().                                                 *)
Succeed(c) ==
  /\ c \in running
  /\ running' = running \ {c}
  /\ consecutiveFailures' = 0
  /\ IF IsTrying
       THEN TrialSucceeds
       ELSE /\ rollingResults' = Recorded("success")
            /\ UNCHANGED <<state, consecutiveSuccesses>>
  /\ UNCHANGED clocks

(* fn rejects: onFailure().                                                  *)
Fail(c) ==
  /\ c \in running
  /\ running' = running \ {c}
  /\ rollingResults' = Recorded("failure")
  /\ consecutiveFailures' = AtMost(consecutiveFailures + 1, FailureThreshold)
  /\ IF \/ state = "HALF_OPEN"
        \/ Reached(consecutiveFailures + 1, FailureThreshold)
        \/ RateReached(Recorded("failure"))
       THEN Trip
       ELSE UNCHANGED <<state, consecutiveSuccesses, clocks>>

Reset ==
  /\ state' = "CLOSED"
  /\ consecutiveFailures' = 0
  /\ consecutiveSuccesses' = 0
  /\ rollingResults' = <<>>
  /\ UNCHANGED <<running, clocks>>

Tick ==
  /\ openFor' = AtMost(openFor + 1, ResetTimeout)
  /\ sinceOpened' = AtMost(sinceOpened + 1, ResetTimeout)
  /\ UNCHANGED <<state, consecutiveSuccesses, counters, running>>

Next ==
  \/ \E c \in Calls : Admit(c) \/ Reject(c) \/ Succeed(c) \/ Fail(c)
  \/ Observe
  \/ Reset
  \/ Tick

Spec == Init /\ [][Next]_vars

(* Callers keep calling, a call that was admitted settles one way or the     *)
(* other, and time passes.  Nobody is obliged to reset the breaker.          *)
Fairness ==
  /\ WF_vars(Tick)
  /\ \A c \in Calls : WF_vars(Admit(c)) /\ WF_vars(Succeed(c) \/ Fail(c))

FairSpec == Spec /\ Fairness
-----------------------------------------------------------------------------
(* No transition is overdue: a CLOSED breaker is below its consecutive       *)
(* failures, a HALF_OPEN one below the successes that close it, whatever     *)
(* results of earlier periods arrived meanwhile.                             *)
NothingOverdue ==
  /\ state = "CLOSED" => consecutiveFailures < FailureThreshold
  /\ state = "HALF_OPEN" => consecutiveSuccesses < SuccessThreshold

(* Late results never short-cut the cycle CLOSED, OPEN, HALF_OPEN: only      *)
(* reset() closes an OPEN breaker, and a CLOSED one never goes straight to   *)
(* HALF_OPEN.                                                                *)
FollowsCycle ==
  [][/\ state = "OPEN" /\ state' = "CLOSED" => Reset
     /\ ~(state = "CLOSED" /\ state' = "HALF_OPEN")]_vars

(* Calls get through a breaker that is not CLOSED only when ResetTimeout has *)
(* passed since it last opened, however many times it was tripped before.    *)
CoolsDown ==
  [][\A c \in running' \ running :
       state # "CLOSED" => sinceOpened >= ResetTimeout]_vars

(* Once fn stops failing, the breaker ends up closed for good, however often *)
(* late failures restarted the cool-down before.                             *)
RecoversWhenHealthy ==
  <>[][\A c \in Calls : ~Fail(c)]_vars => <>[](state = "CLOSED")
=============================================================================
