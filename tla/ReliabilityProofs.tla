--------------------------- MODULE ReliabilityProofs ---------------------------
(* Proofs about the circuit breaker, the bulkhead and the composition of the *)
(* two with retry, for any number of overlapping calls and any               *)
(* configuration; and about the rate limiter, for any limit and window.      *)
EXTENDS MCReliability, CollectionLemmas
-----------------------------------------------------------------------------
(* The circuit breaker.                                                      *)

(* The cool-down that matters is the time since the breaker last opened: the *)
(* time since openedAt, which late failures restart, never exceeds it.       *)
CoolDownKept ==
  /\ state = "OPEN" => openFor <= sinceOpened
  /\ state = "HALF_OPEN" => sinceOpened >= ResetTimeout

IInv == TypeOK /\ NothingOverdue /\ CoolDownKept

LEMMA InitIInv == Init => IInv
<1>. SUFFICES ASSUME Init PROVE IInv
  OBVIOUS
<1>1. TypeOK
  BY BreakerAssumption DEF Init, TypeOK, States
<1>2. QED
  BY <1>1, BreakerAssumption DEF Init, IInv, NothingOverdue, CoolDownKept

(* recordRolling keeps a window of at most RollingWindowSize results.        *)
LEMMA RecordedInWindow ==
  ASSUME TypeOK, NEW r \in Outcomes
  PROVE  /\ Recorded(r) \in Seq(Outcomes)
         /\ Len(Recorded(r)) <= RollingWindowSize
<1>. DEFINE s == Append(rollingResults, r)
<1>1. /\ rollingResults \in Seq(Outcomes) /\ Len(rollingResults) \in Nat
      /\ Len(rollingResults) <= RollingWindowSize /\ RollingWindowSize \in Nat
  BY BreakerAssumption DEF TypeOK
<1>2. s \in Seq(Outcomes) /\ Len(s) = Len(rollingResults) + 1 /\ s # <<>>
  BY <1>1, AppendProperties
<1>3. Tail(s) \in Seq(Outcomes) /\ Len(Tail(s)) = Len(s) - 1
  BY <1>2, HeadTailProperties
<1>. HIDE DEF s
<1>4. QED
  BY <1>1, <1>2, <1>3 DEF Recorded, Shifted, s

LEMMA GetStateIInv ==
  ASSUME IInv, GetState, UNCHANGED <<counters, clocks>>,
         running' \subseteq Calls
  PROVE  IInv'
<1>. USE BreakerAssumption
<1>1. TypeOK'
  BY DEF IInv, TypeOK, GetState, CurrentState, SuccessesOnAdmission, States,
         counters, clocks
<1>2. NothingOverdue'
  BY DEF IInv, NothingOverdue, TypeOK, GetState, CurrentState,
         SuccessesOnAdmission, counters
<1>3. CoolDownKept'
  BY DEF IInv, CoolDownKept, TypeOK, GetState, CurrentState, clocks
<1>4. QED
  BY <1>1, <1>2, <1>3 DEF IInv

LEMMA SucceedIInv ==
  ASSUME IInv, NEW c \in Calls, Succeed(c)
  PROVE  IInv'
<1>. USE BreakerAssumption
<1>1. running' \subseteq Calls
      /\ consecutiveFailures' = 0 /\ UNCHANGED <<openFor, sinceOpened>>
  BY DEF IInv, TypeOK, Succeed, clocks
<1>2. CASE IsTrying
  <2>1. TrialSucceeds /\ state = "HALF_OPEN"
    BY <1>2 DEF Succeed, IsTrying
  <2>2. consecutiveSuccesses < SuccessThreshold
    BY <2>1 DEF IInv, NothingOverdue
  <2>3. rollingResults' \in Seq(Outcomes) /\ Len(rollingResults') <= RollingWindowSize
    <3>1. /\ Recorded("success") \in Seq(Outcomes)
          /\ Len(Recorded("success")) <= RollingWindowSize
      BY RecordedInWindow DEF IInv, Outcomes
    <3>2. rollingResults' = <<>> \/ rollingResults' = Recorded("success")
      BY <2>1 DEF TrialSucceeds
    <3>3. <<>> \in Seq(Outcomes) /\ Len(<<>>) <= RollingWindowSize
      OBVIOUS
    <3>4. QED
      BY <3>1, <3>2, <3>3
  <2>4. state' \in States /\ state' # "OPEN"
    BY <2>1 DEF TrialSucceeds, States
  <2>5. TypeOK'
    BY <1>1, <2>1, <2>2, <2>3, <2>4 DEF IInv, TypeOK, TrialSucceeds
  <2>6. NothingOverdue' /\ CoolDownKept'
    BY <1>1, <2>1, <2>2, <2>4
       DEF IInv, TypeOK, NothingOverdue, CoolDownKept, TrialSucceeds, Reached
  <2>7. QED
    BY <2>5, <2>6 DEF IInv
<1>3. CASE ~IsTrying
  <2>1. rollingResults' = Recorded("success") /\ UNCHANGED <<state, consecutiveSuccesses>>
    BY <1>3 DEF Succeed
  <2>2. rollingResults' \in Seq(Outcomes) /\ Len(rollingResults') <= RollingWindowSize
    BY <2>1, RecordedInWindow DEF IInv, Outcomes
  <2>3. QED
    BY <1>1, <2>1, <2>2 DEF IInv, TypeOK, NothingOverdue, CoolDownKept
<1>4. QED
  BY <1>2, <1>3

LEMMA FailIInv ==
  ASSUME IInv, NEW c \in Calls, Fail(c)
  PROVE  IInv'
<1>. USE BreakerAssumption
<1>1. running' \subseteq Calls
      /\ consecutiveFailures' = AtMost(consecutiveFailures + 1, FailureThreshold)
      /\ rollingResults' = Recorded("failure")
  BY DEF IInv, TypeOK, Fail, Trip
<1>2. consecutiveFailures' \in 0 .. FailureThreshold
  BY <1>1 DEF IInv, TypeOK, AtMost
<1>3. rollingResults' \in Seq(Outcomes) /\ Len(rollingResults') <= RollingWindowSize
  BY <1>1, RecordedInWindow DEF IInv, Outcomes
<1>4. CASE Trip
  BY <1>1, <1>2, <1>3, <1>4
     DEF IInv, TypeOK, States, NothingOverdue, CoolDownKept, Trip, OpenedNow
<1>5. CASE ~Trip
  <2>1. /\ state # "HALF_OPEN"
        /\ ~Reached(consecutiveFailures + 1, FailureThreshold)
        /\ UNCHANGED <<state, consecutiveSuccesses, clocks>>
    BY <1>5 DEF Fail
  <2>2. QED
    BY <1>1, <1>2, <1>3, <2>1
       DEF IInv, TypeOK, NothingOverdue, CoolDownKept, Reached, AtMost, clocks
<1>6. QED
  BY <1>4, <1>5

LEMMA NextIInv == IInv /\ [Next]_vars => IInv'
<1>. SUFFICES ASSUME IInv, [Next]_vars PROVE IInv'
  OBVIOUS
<1>. USE BreakerAssumption
<1>1. ASSUME NEW c \in Calls, Admit(c) PROVE IInv'
  BY <1>1, GetStateIInv DEF Admit, IInv, TypeOK
<1>2. CASE Observe
  BY <1>2, GetStateIInv DEF Observe, IInv, TypeOK
<1>3. CASE (\E c \in Calls : Reject(c)) \/ UNCHANGED vars
  BY <1>3 DEF Reject, vars, counters, clocks, IInv, TypeOK,
              NothingOverdue, CoolDownKept
<1>4. CASE Reset
  <2>1. TypeOK'
    BY <1>4, EmptySeq DEF Reset, clocks, IInv, TypeOK, States
  <2>2. QED
    BY <1>4, <2>1 DEF Reset, clocks, IInv, NothingOverdue, CoolDownKept
<1>5. CASE Tick
  <2>1. TypeOK'
    BY <1>5 DEF Tick, counters, IInv, TypeOK, AtMost
  <2>2. NothingOverdue' /\ CoolDownKept'
    BY <1>5 DEF Tick, counters, IInv, TypeOK, NothingOverdue, CoolDownKept, AtMost
  <2>3. QED
    BY <2>1, <2>2 DEF IInv
<1>6. QED
  BY <1>1, <1>2, <1>3, <1>4, <1>5, SucceedIInv, FailIInv DEF Next

(* IInv holds in every reachable state.                                      *)
THEOREM Invariance == Spec => []IInv
  BY InitIInv, NextIInv, PTL DEF Spec

(* The variables always have their types: the rolling window never exceeds   *)
(* its size and no counter its threshold, though results of any number of    *)
(* earlier calls arrive in any state.                                        *)
THEOREM TypeCorrect == Spec => []TypeOK
<1>1. IInv => TypeOK
  BY DEF IInv
<1>2. QED
  BY <1>1, Invariance, PTL

(* No transition of the breaker is ever overdue.                             *)
THEOREM NeverOverdue == Spec => []NothingOverdue
<1>1. IInv => NothingOverdue
  BY DEF IInv
<1>2. QED
  BY <1>1, Invariance, PTL

(* A call passes a breaker that is not CLOSED only after the full cool-down  *)
(* since the breaker opened, whatever late failures did to openedAt.         *)
THEOREM CoolDownRespected == Spec => CoolsDown
<1>1. IInv /\ [Next]_vars =>
        [\A c \in running' \ running :
           state # "CLOSED" => sinceOpened >= ResetTimeout]_vars
  <2>. SUFFICES ASSUME IInv, Next, NEW c \in running' \ running, state # "CLOSED"
                PROVE  sinceOpened >= ResetTimeout
    OBVIOUS
  <2>1. PICK d \in Calls : Admit(d)
    BY DEF Next, Reject, Succeed, Fail, Observe, Reset, Tick, vars
  <2>2. QED
    BY <2>1, BreakerAssumption
       DEF IInv, TypeOK, States, CoolDownKept, Admit, CurrentState
<1>2. QED
  BY <1>1, Invariance, PTL DEF Spec, CoolsDown

(* Late results never short-cut the cycle of states.                         *)
THEOREM CycleFollowed == Spec => FollowsCycle
<1>1. IInv /\ [Next]_vars =>
        [/\ state = "OPEN" /\ state' = "CLOSED" => Reset
         /\ ~(state = "CLOSED" /\ state' = "HALF_OPEN")]_vars
  <2>. SUFFICES ASSUME IInv, Next, ~Reset
                PROVE  /\ ~(state = "OPEN" /\ state' = "CLOSED")
                       /\ ~(state = "CLOSED" /\ state' = "HALF_OPEN")
    BY DEF Reset
  <2>1. CASE \E c \in Calls : Admit(c) \/ Reject(c)
    BY <2>1 DEF Admit, Reject, GetState, CurrentState, vars
  <2>2. CASE \E c \in Calls : Succeed(c)
    BY <2>2 DEF Succeed, IsTrying, TrialSucceeds
  <2>3. CASE \E c \in Calls : Fail(c)
    BY <2>3 DEF Fail, Trip
  <2>4. CASE Observe \/ Tick
    BY <2>4 DEF Observe, Tick, GetState, CurrentState
  <2>5. QED
    BY <2>1, <2>2, <2>3, <2>4 DEF Next
<1>2. QED
  BY <1>1, Invariance, PTL DEF Spec, FollowsCycle
-----------------------------------------------------------------------------
(* The bulkhead.                                                             *)

(* The library's operators are the same in the instance.                     *)
LEMMA SameOperators ==
  /\ \A S : bulkhead!Cardinality(S) = Cardinality(S)
  /\ \A s : bulkhead!ToSet(s) = ToSet(s)
  /\ \A s, i : bulkhead!RemoveAt(s, i) = RemoveAt(s, i)
BY DEF bulkhead!Cardinality, Cardinality, bulkhead!ToSet, ToSet,
       bulkhead!RemoveAt, RemoveAt

(* CapacityRespected counts a set, so the invariant also keeps it finite;    *)
(* NoIdleSlot is needed to show that a freed slot can be handed over.        *)
SlotsIInv ==
  /\ bulkhead!TypeOK
  /\ IsFiniteSet(executing)
  /\ bulkhead!CapacityRespected
  /\ bulkhead!NoIdleSlot
  /\ bulkhead!RunsOnce

LEMMA InitSlots ==
  ASSUME bulkhead!BulkheadAssumption, bulkhead!Init
  PROVE  SlotsIInv
  BY FS_EmptySet, SameOperators
     DEF bulkhead!BulkheadAssumption, bulkhead!Init, SlotsIInv, bulkhead!TypeOK,
         bulkhead!CapacityRespected, bulkhead!NoIdleSlot, bulkhead!RunsOnce, ToSet

LEMMA RunSlots ==
  ASSUME bulkhead!BulkheadAssumption, SlotsIInv, NEW c \in Calls, bulkhead!Run(c)
  PROVE  SlotsIInv'
<1>. USE SameOperators DEF bulkhead!BulkheadAssumption
<1>1. /\ c \notin executing /\ c \notin ToSet(queue) /\ active < MaxConcurrent
      /\ active' = active + 1 /\ executing' = executing \cup {c} /\ queue' = queue
  BY DEF bulkhead!Run, bulkhead!Idle, bulkhead!HasSlot
<1>2. IsFiniteSet(executing') /\ Cardinality(executing') = Cardinality(executing) + 1
  BY <1>1, FS_AddElement DEF SlotsIInv
<1>3. bulkhead!TypeOK' /\ bulkhead!CapacityRespected'
  BY <1>1, <1>2 DEF SlotsIInv, bulkhead!TypeOK, bulkhead!CapacityRespected
<1>4. bulkhead!NoIdleSlot'
  BY <1>1 DEF SlotsIInv, bulkhead!TypeOK, bulkhead!NoIdleSlot
<1>5. bulkhead!RunsOnce'
  BY <1>1 DEF SlotsIInv, bulkhead!RunsOnce
<1>6. QED
  BY <1>2, <1>3, <1>4, <1>5 DEF SlotsIInv

LEMMA WaitSlots ==
  ASSUME bulkhead!BulkheadAssumption, SlotsIInv, NEW c \in Calls, bulkhead!Wait(c)
  PROVE  SlotsIInv'
<1>. USE SameOperators DEF bulkhead!BulkheadAssumption
<1>1. /\ c \notin executing /\ c \notin ToSet(queue)
      /\ ~(active < MaxConcurrent) /\ Len(queue) < MaxQueue
      /\ queue' = Append(queue, c) /\ UNCHANGED <<active, executing>>
      /\ queue \in Seq(Calls) /\ active \in 0 .. MaxConcurrent
  BY DEF bulkhead!Wait, bulkhead!Idle, bulkhead!HasSlot, bulkhead!QueueHasRoom,
     SlotsIInv, bulkhead!TypeOK
<1>2. /\ ToSet(queue') = ToSet(queue) \cup {c}
      /\ \A i, j \in DOMAIN queue' : queue'[i] = queue'[j] => i = j
  BY <1>1, AppendRange DEF SlotsIInv, bulkhead!RunsOnce
<1>3. queue' \in Seq(Calls) /\ Len(queue') = Len(queue) + 1
  BY <1>1, AppendProperties
<1>4. bulkhead!TypeOK' /\ bulkhead!CapacityRespected' /\ bulkhead!NoIdleSlot'
  <2>1. Len(queue) \in Nat
    BY <1>1
  <2>2. QED
    BY <1>1, <1>3, <2>1 DEF SlotsIInv, bulkhead!TypeOK, bulkhead!CapacityRespected,
       bulkhead!NoIdleSlot
<1>5. bulkhead!RunsOnce'
  BY <1>1, <1>2 DEF SlotsIInv, bulkhead!RunsOnce
<1>6. QED
  BY <1>1, <1>4, <1>5 DEF SlotsIInv

LEMMA SettleSlots ==
  ASSUME bulkhead!BulkheadAssumption, SlotsIInv, NEW c \in Calls, bulkhead!Settle(c)
  PROVE  SlotsIInv'
<1>. USE SameOperators DEF bulkhead!BulkheadAssumption
<1>1. /\ c \in executing /\ queue \in Seq(Calls) /\ executing \subseteq Calls
      /\ active \in 0 .. MaxConcurrent /\ active = Cardinality(executing)
  BY DEF bulkhead!Settle, SlotsIInv, bulkhead!TypeOK, bulkhead!CapacityRespected
<1>2. /\ IsFiniteSet(executing \ {c})
      /\ Cardinality(executing \ {c}) = Cardinality(executing) - 1
      /\ Cardinality(executing) > 0
  <2>1. /\ IsFiniteSet(executing \ {c})
        /\ Cardinality(executing \ {c}) = Cardinality(executing) - 1
    BY <1>1, FS_RemoveElement DEF SlotsIInv
  <2>2. Cardinality(executing \ {c}) \in Nat
    BY <2>1, FS_CardinalityType
  <2>3. QED
    BY <1>1, <2>1, <2>2
<1>3. CASE bulkhead!Drains
  <2>1. PICK n \in Calls : n = queue[1] /\ 1 \in DOMAIN queue
    BY <1>1, <1>3 DEF bulkhead!Drains
  <2>2. /\ active' = active /\ executing' = (executing \ {c}) \cup {n}
        /\ queue' = RemoveAt(queue, 1)
    BY <1>3, <2>1 DEF bulkhead!Settle, bulkhead!TakenOut
  <2>3. /\ queue' \in Seq(Calls) /\ Len(queue') = Len(queue) - 1
    BY <1>1, <2>1, <2>2, RemoveAtProperties
  <2>4. /\ ToSet(queue') = ToSet(queue) \ {n}
        /\ \A i, j \in DOMAIN queue' : queue'[i] = queue'[j] => i = j
    BY <1>1, <2>1, <2>2, RemoveAtRange DEF SlotsIInv, bulkhead!RunsOnce
  <2>5. n \notin executing
    BY <2>1 DEF SlotsIInv, bulkhead!RunsOnce, ToSet
  <2>6. IsFiniteSet(executing') /\ Cardinality(executing') = Cardinality(executing)
    <3>1. n \notin executing \ {c} /\ Cardinality(executing) \in Nat
      BY <1>1, <2>5
    <3>2. /\ IsFiniteSet((executing \ {c}) \cup {n})
          /\ Cardinality((executing \ {c}) \cup {n}) = Cardinality(executing \ {c}) + 1
      BY <1>2, <3>1, FS_AddElement
    <3>3. QED
      BY <1>2, <2>2, <3>1, <3>2
  <2>7. active' = active
    BY <1>1, <2>2
  <2>8. bulkhead!TypeOK' /\ bulkhead!CapacityRespected' /\ bulkhead!NoIdleSlot'
    <3>1. Len(queue) \in Nat /\ queue # <<>>
      BY <1>1, <1>3 DEF bulkhead!Drains
    <3>2. active = MaxConcurrent
      BY <3>1 DEF SlotsIInv, bulkhead!NoIdleSlot
    <3>3. QED
      BY <1>1, <2>2, <2>3, <2>6, <2>7, <3>1, <3>2
         DEF SlotsIInv, bulkhead!TypeOK, bulkhead!CapacityRespected,
             bulkhead!NoIdleSlot
  <2>9. bulkhead!RunsOnce'
    BY <2>2, <2>4 DEF SlotsIInv, bulkhead!RunsOnce
  <2>10. QED
    BY <2>6, <2>8, <2>9 DEF SlotsIInv
<1>4. CASE ~bulkhead!Drains
  <2>1. active' = active - 1 /\ executing' = executing \ {c} /\ queue' = queue
    BY <1>4 DEF bulkhead!Settle
  <2>2. queue = <<>>
    BY <1>1, <1>4 DEF bulkhead!Drains
  <2>3. QED
    BY <1>1, <1>2, <2>1, <2>2
       DEF SlotsIInv, bulkhead!TypeOK, bulkhead!CapacityRespected,
           bulkhead!NoIdleSlot, bulkhead!RunsOnce
<1>5. QED
  BY <1>3, <1>4

LEMMA NextSlots ==
  ASSUME bulkhead!BulkheadAssumption, SlotsIInv, [bulkhead!Next]_(bulkhead!vars)
  PROVE  SlotsIInv'
<1>1. CASE (\E c \in Calls : bulkhead!Reject(c)) \/ UNCHANGED bulkhead!vars
  BY <1>1 DEF bulkhead!Reject, bulkhead!vars, SlotsIInv, bulkhead!TypeOK,
     bulkhead!CapacityRespected, bulkhead!NoIdleSlot, bulkhead!RunsOnce
<1>2. QED
  BY <1>1, RunSlots, WaitSlots, SettleSlots DEF bulkhead!Next

(* SlotsIInv holds in every reachable state.                                      *)
THEOREM SlotsInvariance ==
  ASSUME bulkhead!BulkheadAssumption
  PROVE  bulkhead!Spec => []SlotsIInv
<1>1. bulkhead!Init => SlotsIInv
  BY bulkhead!BulkheadAssumption, InitSlots
<1>2. SlotsIInv /\ [bulkhead!Next]_(bulkhead!vars) => SlotsIInv'
  BY bulkhead!BulkheadAssumption, NextSlots
<1>3. QED
  BY <1>1, <1>2, PTL DEF bulkhead!Spec

(* The count that admits calls is never off: at most MaxConcurrent calls     *)
(* really run and at most MaxQueue wait.                                     *)
THEOREM CapacityAlwaysRespected ==
  ASSUME bulkhead!BulkheadAssumption
  PROVE  bulkhead!Spec => [](bulkhead!TypeOK /\ bulkhead!CapacityRespected)
<1>1. SlotsIInv => bulkhead!TypeOK /\ bulkhead!CapacityRespected
  BY DEF SlotsIInv
<1>2. QED
  BY <1>1, bulkhead!BulkheadAssumption, SlotsInvariance, PTL

(* No slot is ever idle while a call waits.                                  *)
THEOREM WorkConserving ==
  ASSUME bulkhead!BulkheadAssumption
  PROVE  bulkhead!Spec => []bulkhead!NoIdleSlot
<1>1. SlotsIInv => bulkhead!NoIdleSlot
  BY DEF SlotsIInv
<1>2. QED
  BY <1>1, bulkhead!BulkheadAssumption, SlotsInvariance, PTL

(* No call is queued twice, nor queued while it runs.                        *)
THEOREM NeverRunsTwice ==
  ASSUME bulkhead!BulkheadAssumption
  PROVE  bulkhead!Spec => []bulkhead!RunsOnce
<1>1. SlotsIInv => bulkhead!RunsOnce
  BY DEF SlotsIInv
<1>2. QED
  BY <1>1, bulkhead!BulkheadAssumption, SlotsInvariance, PTL
-----------------------------------------------------------------------------
(* The composition.                                                          *)

(* A step of the composition is a step, or none, of the breaker and of the   *)
(* bulkhead.                                                                 *)
LEMMA StepOfBoth ==
  [ComposedNext]_ComposedVars => [Next]_vars /\ [bulkhead!Next]_(bulkhead!vars)
<1>. SUFFICES ASSUME [ComposedNext]_ComposedVars
              PROVE  [Next]_vars /\ [bulkhead!Next]_(bulkhead!vars)
  OBVIOUS
<1>. USE DEF Next, bulkhead!Next, bulkhead!vars, slots, callVars
<1>1. ASSUME NEW c \in Calls, Call(c) \/ Refuse(c) \/ Answer(c)
      PROVE  [Next]_vars /\ [bulkhead!Next]_(bulkhead!vars)
  BY <1>1 DEF Call, Refuse, Answer
<1>2. ASSUME NEW c \in Calls, Resolve(c) \/ GiveUp(c) \/ Rest(c) \/ RetryAgain(c)
      PROVE  [Next]_vars /\ [bulkhead!Next]_(bulkhead!vars)
  BY <1>2 DEF Resolve, GiveUp, Leave, Rest, RetryAgain
<1>3. CASE (Observe \/ Reset \/ Tick) /\ UNCHANGED callVars
  BY <1>3
<1>4. CASE UNCHANGED ComposedVars
  BY <1>4 DEF ComposedVars
<1>5. QED
  BY <1>1, <1>2, <1>3, <1>4 DEF ComposedNext

(* A behaviour that uses the limiter leaves the composition as it began.     *)
LEMMA ComposedBehaviour == MCSpec => ComposedInit /\ [][ComposedNext]_ComposedVars
<1>1. MCInit => ComposedInit
  BY DEF MCInit
<1>2. [MCNext /\ UNCHANGED part]_<<part, ComposedVars, limiterVars>>
        => [ComposedNext]_ComposedVars
  BY DEF MCNext
<1>3. QED
  BY <1>1, <1>2, PTL DEF MCSpec

(* breaker.execute(() => bulkhead.execute(() => retry(fn))): composing the   *)
(* three leaves the breaker a breaker and the bulkhead a bulkhead, so what   *)
(* is proved of each alone holds in the composition.                         *)
THEOREM CompositionImplementsBoth == MCSpec => Spec /\ bulkhead!Spec
<1>1. ComposedInit => Init /\ bulkhead!Init
  BY DEF ComposedInit
<1>2. QED
  BY <1>1, ComposedBehaviour, StepOfBoth, PTL DEF Spec, bulkhead!Spec

(* A call that has not run has made no attempt, one that runs has made at    *)
(* least one, and sleeps only if it may try again.                           *)
AttemptsCounted ==
  /\ \A c \in Calls : attempt[c] > 0 => c \in executing \/ outcome[c] # "none"
  /\ \A c \in executing :
       /\ attempt[c] > 0
       /\ c \in Fatal => attempt[c] = 1
       /\ c \in resting => attempt[c] < MaxAttempts /\ c \notin Fatal

CompositionIInv ==
  /\ IInv /\ SlotsIInv /\ PlacesKept /\ AttemptsCounted

LEMMA InitComposition == ComposedInit => CompositionIInv
<1>. SUFFICES ASSUME ComposedInit PROVE CompositionIInv
  OBVIOUS
<1>. USE ComposedAssumption, SameOperators DEF bulkhead!BulkheadAssumption
<1>1. IInv /\ SlotsIInv
  BY InitIInv, InitSlots DEF ComposedInit
<1>2. /\ running = {} /\ queue = <<>> /\ executing = {} /\ resting = {}
      /\ attempt = [c \in Calls |-> 0] /\ outcome = [c \in Calls |-> "none"]
  BY DEF ComposedInit, Init, bulkhead!Init
<1>3. ToSet(queue) = {} /\ Answered = {}
  BY <1>2 DEF ToSet, Answered
<1>4. ComposedTypeOK
  BY <1>1, <1>2 DEF ComposedTypeOK, IInv, SlotsIInv
<1>5. QED
  BY <1>1, <1>2, <1>3, <1>4
     DEF CompositionIInv, PlacesKept, AttemptsCounted, SlotsIInv

LEMMA CallKept ==
  ASSUME CompositionIInv, NEW c \in Calls, Call(c)
  PROVE  CompositionIInv'
<1>. USE ComposedAssumption, SameOperators DEF bulkhead!BulkheadAssumption
<1>1. IInv' /\ SlotsIInv'
  BY StepOfBoth, NextIInv, NextSlots DEF CompositionIInv, ComposedNext
<1>2. /\ running = ToSet(queue) \cup executing \cup Answered
      /\ running' = running \cup {c} /\ c \notin running /\ resting' = resting
      /\ c \notin ToSet(queue) /\ c \notin executing /\ outcome[c] = "none"
      /\ attempt \in [Calls -> 0 .. MaxAttempts] /\ attempt[c] = 0
      /\ outcome \in [Calls -> {"none"} \cup Outcomes] /\ resting \subseteq executing
  BY DEF CompositionIInv, PlacesKept, ComposedTypeOK, AttemptsCounted,
         Call, Admit, Answered
<1>3. CASE bulkhead!Run(c) /\ attempt' = [attempt EXCEPT ![c] = 1] /\ UNCHANGED outcome
  <2>1. /\ executing' = executing \cup {c} /\ queue' = queue /\ outcome' = outcome
        /\ \A d \in Calls : attempt'[d] = IF d = c THEN 1 ELSE attempt[d]
        /\ attempt' \in [Calls -> 0 .. MaxAttempts]
    BY <1>2, <1>3 DEF bulkhead!Run
  <2>2. Answered' = Answered
    BY <2>1 DEF Answered
  <2>3. ComposedTypeOK'
    BY <1>1, <1>2, <2>1 DEF ComposedTypeOK, IInv, SlotsIInv
  <2>4. PlacesKept'
    BY <1>1, <1>2, <2>1, <2>2, <2>3
       DEF PlacesKept, SlotsIInv, CompositionIInv, Answered
  <2>5. AttemptsCounted'
    <3>1. \A d \in Calls : attempt'[d] > 0 => d \in executing' \/ outcome'[d] # "none"
      BY <1>2, <2>1 DEF CompositionIInv, AttemptsCounted
    <3>2. \A d \in executing :
            /\ attempt'[d] = attempt[d]
            /\ d \in resting' <=> d \in resting
      BY <1>2, <2>1 DEF CompositionIInv, SlotsIInv, bulkhead!TypeOK
    <3>3. attempt'[c] = 1 /\ c \notin resting'
      BY <1>2, <2>1
    <3>4. QED
      BY <2>1, <3>1, <3>2, <3>3 DEF CompositionIInv, AttemptsCounted
  <2>6. QED
    BY <1>1, <2>4, <2>5 DEF CompositionIInv
<1>4. CASE bulkhead!Wait(c) /\ UNCHANGED <<attempt, outcome>>
  <2>1. executing' = executing /\ ToSet(queue') = ToSet(queue) \cup {c}
    <3>1. queue \in Seq(Calls)
      BY DEF CompositionIInv, SlotsIInv, bulkhead!TypeOK
    <3>2. QED
      BY <1>4, <3>1, AppendRange DEF bulkhead!Wait
  <2>2. Answered' = Answered
    BY <1>4 DEF Answered
  <2>3. ComposedTypeOK'
    BY <1>1, <1>2, <1>4, <2>1 DEF ComposedTypeOK, IInv, SlotsIInv
  <2>4. PlacesKept'
    BY <1>1, <1>2, <1>4, <2>1, <2>2, <2>3
       DEF PlacesKept, SlotsIInv, CompositionIInv, Answered
  <2>5. AttemptsCounted'
    BY <1>2, <1>4, <2>1 DEF CompositionIInv, AttemptsCounted
  <2>6. QED
    BY <1>1, <2>4, <2>5 DEF CompositionIInv
<1>5. CASE bulkhead!Reject(c) /\ outcome' = [outcome EXCEPT ![c] = "failure"]
             /\ UNCHANGED attempt
  <2>1. /\ executing' = executing /\ queue' = queue /\ attempt' = attempt
        /\ \A d \in Calls : outcome'[d] = IF d = c THEN "failure" ELSE outcome[d]
        /\ outcome' \in [Calls -> {"none"} \cup Outcomes]
    BY <1>2, <1>5 DEF bulkhead!Reject, bulkhead!vars, Outcomes
  <2>2. Answered' = Answered \cup {c}
    BY <2>1 DEF Answered
  <2>3. ComposedTypeOK'
    BY <1>1, <1>2, <2>1 DEF ComposedTypeOK, IInv, SlotsIInv
  <2>4. PlacesKept'
    BY <1>1, <1>2, <2>1, <2>2, <2>3
       DEF PlacesKept, SlotsIInv, CompositionIInv
  <2>5. AttemptsCounted'
    BY <1>2, <2>1 DEF CompositionIInv, AttemptsCounted
  <2>6. QED
    BY <1>1, <2>4, <2>5 DEF CompositionIInv
<1>6. QED
  BY <1>3, <1>4, <1>5 DEF Call

LEMMA LeaveKept ==
  ASSUME CompositionIInv, NEW c \in executing \ resting, NEW result \in Outcomes,
         Leave(c, result),
         result = "failure" => attempt[c] = IF c \in Fatal THEN 1 ELSE MaxAttempts
  PROVE  CompositionIInv'
<1>. USE ComposedAssumption, SameOperators DEF bulkhead!BulkheadAssumption
<1>1. c \in Calls /\ executing \subseteq Calls /\ queue \in Seq(Calls)
  BY DEF CompositionIInv, SlotsIInv, bulkhead!TypeOK
<1>2. IInv' /\ SlotsIInv'
  <2>1. bulkhead!Next /\ UNCHANGED vars
    BY <1>1 DEF Leave, bulkhead!Next
  <2>2. QED
    BY <2>1, NextIInv, NextSlots DEF CompositionIInv
<1>3. /\ running = ToSet(queue) \cup executing \cup Answered
      /\ Answered \cap (ToSet(queue) \cup executing) = {}
      /\ ToSet(queue) \cap executing = {}
      /\ running' = running /\ resting' = resting
      /\ outcome' = [outcome EXCEPT ![c] = result] /\ result # "none"
      /\ attempt' = [x \in Calls |->
                       IF x \in executing' \ executing THEN 1 ELSE attempt[x]]
      /\ attempt \in [Calls -> 0 .. MaxAttempts]
      /\ outcome \in [Calls -> {"none"} \cup Outcomes] /\ resting \subseteq executing
  BY DEF CompositionIInv, PlacesKept, ComposedTypeOK, bulkhead!RunsOnce, Leave,
     vars, Outcomes
<1>4. PICK N \in SUBSET Calls :
        /\ executing' = (executing \ {c}) \cup N /\ c \notin N
        /\ N \subseteq ToSet(queue) /\ ToSet(queue') = ToSet(queue) \ N
  <2>1. CASE bulkhead!Drains
    <3>1. 1 \in DOMAIN queue /\ queue[1] \in Calls /\ queue[1] \in ToSet(queue)
      BY <1>1, <2>1 DEF bulkhead!Drains, ToSet
    <3>2. executing' = (executing \ {c}) \cup {queue[1]} /\ queue' = RemoveAt(queue, 1)
      BY <2>1 DEF Leave, bulkhead!Settle, bulkhead!TakenOut
    <3>3. ToSet(queue') = ToSet(queue) \ {queue[1]}
      BY <1>1, <3>1, <3>2, RemoveAtRange
         DEF CompositionIInv, SlotsIInv, bulkhead!RunsOnce
    <3>4. {queue[1]} \in SUBSET Calls /\ c \notin {queue[1]} /\ {queue[1]} \subseteq ToSet(queue)
      BY <1>3, <3>1
    <3>5. QED
      BY <3>2, <3>3, <3>4
  <2>2. CASE ~bulkhead!Drains
    <3>1. executing' = (executing \ {c}) \cup {} /\ queue' = queue
      BY <2>2 DEF Leave, bulkhead!Settle
    <3>2. ToSet(queue') = ToSet(queue) \ {}
      BY <3>1
    <3>3. QED
      BY <3>1, <3>2
  <2>3. QED
    BY <2>1, <2>2
<1>5. /\ \A d \in Calls : outcome'[d] = IF d = c THEN result ELSE outcome[d]
      /\ outcome' \in [Calls -> {"none"} \cup Outcomes]
      /\ Answered' = Answered \cup {c}
  BY <1>1, <1>3 DEF Answered
<1>6. /\ \A d \in Calls : attempt'[d] = IF d \in N THEN 1 ELSE attempt[d]
      /\ attempt' \in [Calls -> 0 .. MaxAttempts]
  <2>1. executing' \ executing = N
    BY <1>3, <1>4
  <2>2. QED
    BY <1>3, <2>1
<1>7. ComposedTypeOK'
  BY <1>2, <1>3, <1>4, <1>5, <1>6 DEF ComposedTypeOK, IInv, SlotsIInv
<1>8. PlacesKept'
  <2>1. \A d \in Calls : outcome'[d] = "failure"
          => attempt'[d] \in {0, IF d \in Fatal THEN 1 ELSE MaxAttempts}
    <3>1. \A d \in N : outcome[d] = "none" /\ d # c
      BY <1>3, <1>4 DEF Answered
    <3>2. \A d \in Calls : outcome[d] = "failure"
            => attempt[d] \in {0, IF d \in Fatal THEN 1 ELSE MaxAttempts}
      BY DEF CompositionIInv, PlacesKept
    <3>3. QED
      BY <1>4, <1>5, <1>6, <3>1, <3>2
  <2>2. /\ running' = ToSet(queue') \cup executing' \cup Answered'
        /\ Answered' \cap (ToSet(queue') \cup executing') = {}
    BY <1>3, <1>4, <1>5
  <2>3. QED
    BY <1>2, <1>7, <2>1, <2>2 DEF PlacesKept, SlotsIInv
<1>9. AttemptsCounted'
  <2>1. \A d \in Calls : attempt'[d] > 0 => d \in executing' \/ outcome'[d] # "none"
    BY <1>3, <1>4, <1>5, <1>6 DEF CompositionIInv, AttemptsCounted
  <2>2. \A d \in executing' :
          /\ attempt'[d] > 0
          /\ d \in Fatal => attempt'[d] = 1
          /\ d \in resting' => attempt'[d] < MaxAttempts /\ d \notin Fatal
    BY <1>1, <1>3, <1>4, <1>6 DEF CompositionIInv, AttemptsCounted
  <2>3. QED
    BY <2>1, <2>2 DEF AttemptsCounted
<1>10. QED
  BY <1>2, <1>8, <1>9 DEF CompositionIInv

LEMMA CompositionStep ==
  CompositionIInv /\ [ComposedNext]_ComposedVars => CompositionIInv'
<1>. SUFFICES ASSUME CompositionIInv, [ComposedNext]_ComposedVars
              PROVE  CompositionIInv'
  OBVIOUS
<1>. USE ComposedAssumption, SameOperators DEF bulkhead!BulkheadAssumption
<1>1. IInv' /\ SlotsIInv'
  BY StepOfBoth, NextIInv, NextSlots DEF CompositionIInv
<1>2. executing \subseteq Calls /\ resting \subseteq executing
      /\ attempt \in [Calls -> 0 .. MaxAttempts]
      /\ outcome \in [Calls -> {"none"} \cup Outcomes]
  BY DEF CompositionIInv, PlacesKept, ComposedTypeOK, SlotsIInv, bulkhead!TypeOK
<1>3. ASSUME UNCHANGED callVars, running' = running
      PROVE  CompositionIInv'
  <2>1. /\ active' = active /\ queue' = queue /\ executing' = executing
        /\ attempt' = attempt /\ resting' = resting /\ outcome' = outcome
    BY <1>3 DEF callVars, slots
  <2>2. ComposedTypeOK'
    BY <1>1, <1>2, <2>1 DEF ComposedTypeOK, IInv, SlotsIInv
  <2>3. PlacesKept' /\ AttemptsCounted'
    BY <1>1, <1>3, <2>1, <2>2
       DEF CompositionIInv, PlacesKept, AttemptsCounted, Answered, SlotsIInv
  <2>4. QED
    BY <1>1, <2>3 DEF CompositionIInv
<1>4. CASE (Observe \/ Reset \/ Tick) /\ UNCHANGED callVars
  BY <1>3, <1>4 DEF Observe, Reset, Tick
<1>5. CASE UNCHANGED ComposedVars \/ \E c \in Calls : Refuse(c)
  BY <1>3, <1>5 DEF ComposedVars, vars, Refuse, Reject
<1>6. ASSUME NEW c \in Calls, Resolve(c)
      PROVE  CompositionIInv'
  BY <1>6, LeaveKept DEF Resolve, Outcomes
<1>7. ASSUME NEW c \in Calls, GiveUp(c)
      PROVE  CompositionIInv'
  <2>1. c \in Fatal \/ attempt[c] = MaxAttempts
    BY <1>7 DEF GiveUp, IsLastAttempt, RetryOn
  <2>2. attempt[c] = IF c \in Fatal THEN 1 ELSE MaxAttempts
    BY <1>7, <2>1 DEF GiveUp, CompositionIInv, AttemptsCounted
  <2>3. QED
    BY <1>7, <2>2, LeaveKept DEF GiveUp, Outcomes
<1>8. ASSUME NEW c \in Calls, Rest(c) \/ RetryAgain(c)
      PROVE  CompositionIInv'
  <2>1. /\ active' = active /\ queue' = queue /\ executing' = executing
        /\ outcome' = outcome /\ running' = running /\ c \in executing
    BY <1>2, <1>8 DEF Rest, RetryAgain, slots, vars
  <2>2. \/ /\ attempt' = attempt /\ resting' = resting \cup {c}
           /\ attempt[c] < MaxAttempts /\ c \notin Fatal
        \/ /\ attempt' = [attempt EXCEPT ![c] = @ + 1] /\ resting' = resting \ {c}
           /\ c \in resting
    BY <1>2, <1>8 DEF Rest, RetryAgain, IsLastAttempt, RetryOn
  <2>3. /\ attempt[c] \in 1 .. MaxAttempts
        /\ c \in resting => attempt[c] < MaxAttempts /\ c \notin Fatal
    BY <1>2, <2>1 DEF CompositionIInv, AttemptsCounted
  <2>4. /\ attempt' \in [Calls -> 0 .. MaxAttempts] /\ attempt'[c] > 0
        /\ \A d \in Calls \ {c} : attempt'[d] = attempt[d]
        /\ \A d \in executing \ {c} : d \in resting' => d \in resting
        /\ c \in resting' => attempt'[c] < MaxAttempts /\ c \notin Fatal
        /\ c \in Fatal => attempt'[c] = attempt[c]
        /\ resting' \subseteq executing
    BY <1>2, <2>1, <2>2, <2>3
  <2>5. outcome[c] = "none" /\ Answered' = Answered
    BY <2>1 DEF CompositionIInv, PlacesKept, Answered
  <2>6. ComposedTypeOK'
    BY <1>1, <1>2, <2>1, <2>4 DEF ComposedTypeOK, IInv, SlotsIInv
  <2>7. PlacesKept'
    BY <1>1, <1>2, <2>1, <2>4, <2>5, <2>6 DEF CompositionIInv, PlacesKept, SlotsIInv
  <2>8. AttemptsCounted'
    BY <1>2, <2>1, <2>4 DEF CompositionIInv, AttemptsCounted
  <2>9. QED
    BY <1>1, <2>7, <2>8 DEF CompositionIInv
<1>9. ASSUME NEW c \in Calls, Answer(c)
      PROVE  CompositionIInv'
  <2>1. /\ active' = active /\ queue' = queue /\ executing' = executing
        /\ resting' = resting /\ running' = running \ {c} /\ c \in Answered
        /\ \A d \in Calls : outcome'[d] = IF d = c THEN "none" ELSE outcome[d]
        /\ \A d \in Calls : attempt'[d] = IF d = c THEN 0 ELSE attempt[d]
        /\ outcome' \in [Calls -> {"none"} \cup Outcomes]
        /\ attempt' \in [Calls -> 0 .. MaxAttempts]
    BY <1>2, <1>9 DEF Answer, slots, Succeed, Fail, Answered
  <2>2. Answered' = Answered \ {c} /\ c \notin executing /\ c \notin ToSet(queue)
    BY <2>1 DEF Answered, CompositionIInv, PlacesKept
  <2>3. ComposedTypeOK'
    BY <1>1, <1>2, <2>1 DEF ComposedTypeOK, IInv, SlotsIInv
  <2>4. PlacesKept'
    BY <1>1, <2>1, <2>2, <2>3 DEF CompositionIInv, PlacesKept, SlotsIInv
  <2>5. AttemptsCounted'
    BY <1>2, <2>1, <2>2 DEF CompositionIInv, AttemptsCounted
  <2>6. QED
    BY <1>1, <2>4, <2>5 DEF CompositionIInv
<1>10. QED
  BY <1>4, <1>5, <1>6, <1>7, <1>8, <1>9, CallKept DEF ComposedNext

(* The composition: every call the breaker admitted is in exactly one place, *)
(* the bulkhead counts right and wastes no slot, and the breaker hears of a  *)
(* failure only when retry has done what it may, for every configuration.    *)
THEOREM PlacesAlwaysKept == MCSpec => []PlacesKept
<1>1. CompositionIInv => PlacesKept
  BY DEF CompositionIInv
<1>2. QED
  BY <1>1, ComposedBehaviour, InitComposition, CompositionStep, PTL
-----------------------------------------------------------------------------
(* The rate limiter.                                                         *)

(* Everything below is for the assumed limit and window.                     *)
LEMMA LimiterTypes ==
  /\ Limit \in Nat /\ Limit >= 1 /\ Window \in Nat /\ Window >= 2
  /\ NoPromise \notin Nat
  /\ \A b \in limiter!Buckets : b # Absent
  /\ \A w \in limiter!Windows : w # Absent
  /\ \A c \in limiter!Counters : c # Absent
BY ReliabilityAssumption DEF limiter!LimiterAssumption

(* Operators of the limiter that are those of the libraries.                 *)
LEMMA InWindowIsSum == limiter!InWindow = Since(grants, Window)
BY DEF limiter!InWindow, limiter!Ages, Since, SumOver, limiter!MapThenSumSet,
       MapThenSumSet, limiter!MapThenFoldSet, MapThenFoldSet

LEMMA SameKept == \A s, T : limiter!Kept(s, T) = Kept(s, T)
BY DEF limiter!Kept, Kept, limiter!FoldLeft, FoldLeft, limiter!MapThenFoldSet,
       MapThenFoldSet, limiter!Max, Max

(* The calls allowed fewer than k ticks ago.                                 *)
Recent(k) == Since(grants, k)

LEMMA RecentTyped ==
  ASSUME limiter!TypeOK
  PROVE  /\ grants \in Counts(Window)
         /\ \A k \in 0 .. Window : Recent(k) \in Nat
         /\ \A j, k \in 0 .. Window : j <= k => Recent(j) <= Recent(k)
         /\ Recent(0) = 0
<1>1. grants \in Counts(Window)
  BY DEF limiter!TypeOK, limiter!Ages, Counts
<1>2. QED
  BY <1>1, LimiterTypes, SinceTyped DEF Recent

LEMMA RecentOnAllow ==
  ASSUME limiter!TypeOK, limiter!Allow
  PROVE  /\ grants' \in Counts(Window)
         /\ \A k \in 1 .. Window : Since(grants', k) = Recent(k) + 1
<1>1. grants \in Counts(Window) /\ grants' = [grants EXCEPT ![0] = grants[0] + 1]
  BY RecentTyped DEF limiter!Allow
<1>2. Window \in Nat /\ Window > 0
  BY LimiterTypes
<1>3. QED
  BY <1>1, <1>2, SinceHit DEF Recent

LEMMA RecentOnTick ==
  ASSUME limiter!TypeOK, limiter!Tick
  PROVE  /\ grants' \in Counts(Window)
         /\ \A k \in 0 .. Window - 1 : Since(grants', k + 1) = Recent(k)
<1>1. /\ grants \in Counts(Window)
      /\ grants' = [a \in 0 .. Window - 1 |-> IF a = 0 THEN 0 ELSE grants[a - 1]]
  BY RecentTyped DEF limiter!Tick, limiter!Ages
<1>2. Window \in Nat /\ Window > 0
  BY LimiterTypes
<1>3. QED
  BY <1>1, <1>2, SinceAged DEF Recent

(* The fixed window: what was allowed since it started is its count, what    *)
(* was allowed before is at most as much again; a promise is what is left of *)
(* the window.                                                               *)
WindowKept ==
  /\ window = Absent => Recent(Window) = 0 /\ promise = NoPromise
  /\ window # Absent =>
       /\ window.since < Window =>
            /\ Recent(window.since + 1) = window.count
            /\ Recent(Window) <= Limit + window.count
       /\ window.since = Window => Recent(1) = 0 /\ Recent(Window) <= Limit
       /\ promise # NoPromise => promise + window.since = Window

LEMMA FixedWindowType ==
  ASSUME limiter!TypeOK, limiter!FixedWindow, UNCHANGED algorithm
  PROVE  limiter!TypeOK'
<1>. DEFINE w == IF window = Absent THEN [count |-> 0, since |-> 0]
                 ELSE IF limiter!Over(window.since) THEN [count |-> 0, since |-> 0]
                 ELSE window
<1>1. w \in limiter!Windows /\ w.since < Window
  BY LimiterTypes DEF limiter!TypeOK, limiter!Windows, limiter!Over
<1>2. \/ /\ w.count < Limit /\ window' = [w EXCEPT !.count = w.count + 1]
         /\ limiter!Allow
      \/ window' = w /\ limiter!Deny(limiter!UntilWindowEnds(w.since))
  BY DEF limiter!FixedWindow, limiter!HasRoom
<1>3. UNCHANGED <<bucket, log, counter>>
  BY DEF limiter!FixedWindow
<1>. HIDE DEF w
<1>4. window' \in limiter!Windows
  BY <1>1, <1>2, LimiterTypes DEF limiter!Windows
<1>5. grants' \in [limiter!Ages -> Nat]
  BY <1>2, RecentOnAllow DEF Counts, limiter!Deny, limiter!TypeOK, limiter!Ages
<1>6. answer' \in {"none", "allowed", "denied"} /\ promise' \in {NoPromise} \cup 0 .. Window
  BY <1>1, <1>2, LimiterTypes
     DEF limiter!Windows, limiter!Allow, limiter!Deny, limiter!UntilWindowEnds
<1>7. QED
  BY <1>3, <1>4, <1>5, <1>6 DEF limiter!TypeOK

LEMMA FixedWindowStep ==
  ASSUME limiter!TypeOK, WindowKept, limiter!FixedWindow
  PROVE  /\ WindowKept'
         /\ answer' = "denied" => promise # 0 /\ Recent(Window)' >= Limit
<1>. DEFINE w == IF window = Absent THEN [count |-> 0, since |-> 0]
                 ELSE IF limiter!Over(window.since) THEN [count |-> 0, since |-> 0]
                 ELSE window
<1>1. /\ w \in limiter!Windows /\ w.since < Window
      /\ w.count \in Nat /\ w.since \in Nat /\ w.since + 1 \in 1 .. Window
  BY LimiterTypes DEF limiter!TypeOK, limiter!Windows, limiter!Over
<1>2. /\ \A k \in 0 .. Window : Recent(k) \in Nat
      /\ \A j, k \in 0 .. Window : j <= k => Recent(j) <= Recent(k)
      /\ 1 \in 0 .. Window /\ Window \in 1 .. Window /\ Window \in 0 .. Window
      /\ 1 <= Window
  BY LimiterTypes, RecentTyped
<1>3. /\ Recent(w.since + 1) = w.count
      /\ Recent(Window) <= Limit + w.count
  <2>1. CASE window = Absent
    <3>1. w = [count |-> 0, since |-> 0] /\ Recent(Window) = 0
      BY <2>1 DEF WindowKept
    <3>2. w.count = 0 /\ w.since = 0
      BY <3>1
    <3>3. Recent(1) = 0
      BY <1>2, <3>1
    <3>4. QED
      BY <3>1, <3>2, <3>3, LimiterTypes
  <2>2. CASE window # Absent /\ limiter!Over(window.since)
    <3>1. w = [count |-> 0, since |-> 0] /\ window.since = Window
      <4>1. w = [count |-> 0, since |-> 0]
        BY <2>2
      <4>2. window.since \in 0 .. Window /\ window.since >= Window
        BY <2>2 DEF limiter!Over, limiter!TypeOK, limiter!Windows
      <4>3. QED
        BY <4>1, <4>2, LimiterTypes
    <3>2. w.count = 0 /\ w.since = 0
      BY <3>1
    <3>3. Recent(1) = 0 /\ Recent(Window) <= Limit
      BY <2>2, <3>1 DEF WindowKept
    <3>4. QED
      BY <3>2, <3>3, LimiterTypes
  <2>3. CASE window # Absent /\ ~limiter!Over(window.since)
    <3>1. w = window
      BY <2>3
    <3>. HIDE DEF w
    <3>2. QED
      BY <1>1, <2>3, <3>1 DEF WindowKept
  <2>4. QED
    BY <2>1, <2>2, <2>3
<1>4. CASE w.count < Limit
  <2>1. window' = [w EXCEPT !.count = w.count + 1] /\ limiter!Allow
    BY <1>4 DEF limiter!FixedWindow, limiter!HasRoom
  <2>. HIDE DEF w
  <2>2. /\ window'.count = w.count + 1 /\ window'.since = w.since
        /\ window' \in limiter!Windows
    BY <1>1, <1>4, <2>1, LimiterTypes DEF limiter!Windows
  <2>3. /\ Since(grants', w.since + 1) = w.count + 1
        /\ Since(grants', Window) <= Limit + w.count + 1
    BY <1>1, <1>2, <1>3, <2>1, RecentOnAllow, LimiterTypes
  <2>4. window' # Absent /\ promise' = NoPromise /\ answer' # "denied"
    BY <2>1, <2>2, LimiterTypes DEF limiter!Allow
  <2>5. WindowKept'
    <3>1. /\ window'.since < Window /\ window'.since # Window
          /\ Since(grants', window'.since + 1) = window'.count
          /\ Since(grants', Window) <= Limit + window'.count
      BY <1>1, <2>2, <2>3, LimiterTypes
    <3>2. QED
      BY <2>4, <3>1 DEF WindowKept, Recent
  <2>6. QED
    BY <2>4, <2>5
<1>5. CASE ~(w.count < Limit)
  <2>1. window' = w /\ limiter!Deny(limiter!UntilWindowEnds(w.since))
    BY <1>5 DEF limiter!FixedWindow, limiter!HasRoom
  <2>2. window # Absent /\ w = window
    BY <1>5, LimiterTypes
  <2>. HIDE DEF w
  <2>3. grants' = grants /\ window' = window /\ promise' = Window - w.since
    BY <2>1, <2>2 DEF limiter!Deny, limiter!UntilWindowEnds
  <2>4. WindowKept'
    BY <1>1, <1>3, <2>2, <2>3, LimiterTypes DEF WindowKept, Recent
  <2>5. promise # 0
    BY <1>1, <2>2, LimiterTypes DEF WindowKept
  <2>6. Recent(w.since + 1) <= Recent(Window)
    BY <1>1, <1>2
  <2>7. Recent(Window)' = Recent(Window)
    BY <2>3 DEF Recent
  <2>8. QED
    BY <1>1, <1>2, <1>3, <1>5, <2>4, <2>5, <2>6, <2>7, LimiterTypes
<1>6. QED
  BY <1>4, <1>5

(* Entries stay entries and promises promises as they age.                   *)
LEMMA TickType ==
  ASSUME limiter!TypeOK, limiter!Tick
  PROVE  limiter!TypeOK'
<1>. USE LimiterTypes
<1>1. bucket' \in {Absent} \cup limiter!Buckets
  BY DEF limiter!TypeOK, limiter!Tick, limiter!Older, limiter!AtMost, limiter!Buckets
<1>2. window' \in {Absent} \cup limiter!Windows
  BY DEF limiter!TypeOK, limiter!Tick, limiter!Older, limiter!AtMost, limiter!Windows
<1>3. counter' \in {Absent} \cup limiter!Counters
  <2>1. CASE counter = Absent
    BY <2>1 DEF limiter!Tick
  <2>2. CASE counter # Absent
    <3>1. /\ counter \in limiter!Counters
          /\ counter' = [counter EXCEPT !.since =
                           IF counter.since + 1 = 3 * Window THEN 2 * Window
                           ELSE counter.since + 1]
      BY <2>2 DEF limiter!TypeOK, limiter!Tick
    <3>2. counter.since \in 0 .. 3 * Window - 1
      BY <3>1 DEF limiter!Counters
    <3>3. (IF counter.since + 1 = 3 * Window THEN 2 * Window
           ELSE counter.since + 1) \in 0 .. 3 * Window - 1
      BY <3>2
    <3>4. QED
      BY <3>1, <3>3 DEF limiter!Counters
  <2>3. QED
    BY <2>1, <2>2
<1>4. log' \in Seq(0 .. Window) /\ Len(log') <= Limit
  <2>. DEFINE n == Len(log)
  <2>1. n \in Nat /\ DOMAIN log = 1 .. n /\ \A i \in 1 .. n : log[i] \in 0 .. Window
    BY DEF limiter!TypeOK
  <2>2. log' = [i \in 1 .. n |-> limiter!AtMost(log[i] + 1, Window)]
    BY <2>1 DEF limiter!Tick
  <2>3. n <= Limit
    BY DEF limiter!TypeOK
  <2>. HIDE DEF n
  <2>4. \A i \in 1 .. n : log'[i] \in 0 .. Window
    BY <2>1, <2>2 DEF limiter!AtMost
  <2>5. log' = [i \in 1 .. n |-> log'[i]]
    BY <2>2
  <2>6. log' \in Seq(0 .. Window) /\ Len(log') = n
    BY <2>1, <2>4, <2>5, SeqByElements
  <2>7. QED
    BY <2>3, <2>6
<1>5. grants' \in [limiter!Ages -> Nat]
  BY RecentOnTick DEF Counts, limiter!Ages
<1>6. promise' \in {NoPromise} \cup 0 .. Window
  BY DEF limiter!TypeOK, limiter!Tick
<1>7. QED
  BY <1>1, <1>2, <1>3, <1>4, <1>5, <1>6 DEF limiter!TypeOK, limiter!Tick

LEMMA WindowOnTick ==
  ASSUME limiter!TypeOK, WindowKept, limiter!Tick
  PROVE  WindowKept'
<1>. USE LimiterTypes
<1>1. /\ \A k \in 0 .. Window : Recent(k) \in Nat
      /\ \A j, k \in 0 .. Window : j <= k => Recent(j) <= Recent(k)
      /\ Recent(0) = 0
      /\ \A k \in 0 .. Window - 1 : Since(grants', k + 1) = Recent(k)
      /\ \A k \in 0 .. Window - 1 : k \in 0 .. Window /\ k + 1 \in 1 .. Window
  BY RecentTyped, RecentOnTick
<1>2. /\ Since(grants', 1) = 0
      /\ Since(grants', Window) = Recent(Window - 1)
      /\ Recent(Window - 1) <= Recent(Window)
      /\ Recent(Window - 1) \in Nat /\ Recent(Window) \in Nat
  <2>1. 0 \in 0 .. Window - 1 /\ Window - 1 \in 0 .. Window - 1 /\ 0 + 1 = 1
        /\ Window - 1 \in 0 .. Window /\ Window \in 0 .. Window
        /\ (Window - 1) + 1 = Window /\ Window - 1 <= Window
    OBVIOUS
  <2>2. QED
    BY <1>1, <2>1
<1>3. promise' = IF promise \in {NoPromise, 0} THEN promise ELSE promise - 1
  BY DEF limiter!Tick
<1>4. CASE window = Absent
  <2>1. window' = Absent /\ promise' = NoPromise
    BY <1>3, <1>4 DEF limiter!Tick, limiter!Older, WindowKept
  <2>2. Recent(Window) = 0
    BY <1>4 DEF WindowKept
  <2>3. QED
    BY <1>2, <2>1, <2>2 DEF WindowKept, Recent
<1>5. CASE window # Absent
  <2>1. /\ window \in limiter!Windows
        /\ window' = [window EXCEPT !.since = limiter!AtMost(window.since + 1, Window)]
    BY <1>5 DEF limiter!TypeOK, limiter!Tick, limiter!Older
  <2>2. /\ window.since \in 0 .. Window /\ window.count \in 0 .. Limit
        /\ window'.count = window.count
        /\ window'.since = limiter!AtMost(window.since + 1, Window)
        /\ window' # Absent
    <3>1. window' \in limiter!Windows
      BY <2>1 DEF limiter!Windows, limiter!AtMost
    <3>2. QED
      BY <2>1, <3>1 DEF limiter!Windows
  <2>3. promise' # NoPromise => promise' + window'.since = Window
    <3>1. promise \in {NoPromise} \cup 0 .. Window
      BY DEF limiter!TypeOK
    <3>2. promise # NoPromise => promise + window.since = Window
      BY <1>5 DEF WindowKept
    <3>3. QED
      BY <1>3, <2>2, <3>1, <3>2 DEF limiter!AtMost
  <2>4. CASE window.since = Window \/ window.since + 1 = Window
    <3>1. window'.since = Window
      BY <2>2, <2>4 DEF limiter!AtMost
    <3>2. Recent(Window - 1) <= Limit
      <4>1. CASE window.since = Window
        BY <1>2, <1>5, <4>1 DEF WindowKept
      <4>2. CASE window.since + 1 = Window
        <5>1. Recent(Window) = window.count
          BY <1>5, <2>2, <4>2 DEF WindowKept
        <5>2. QED
          BY <1>2, <2>2, <5>1
      <4>3. QED
        BY <2>4, <4>1, <4>2
    <3>3. QED
      BY <1>2, <2>2, <2>3, <3>1, <3>2 DEF WindowKept, Recent
  <2>5. CASE window.since + 1 < Window
    <3>1. window'.since = window.since + 1
      BY <2>2, <2>5 DEF limiter!AtMost
    <3>2. /\ Recent(window.since + 1) = window.count
          /\ Recent(Window) <= Limit + window.count
      BY <1>5, <2>2, <2>5 DEF WindowKept
    <3>3. Since(grants', window'.since + 1) = window.count
      <4>1. window.since + 1 \in 0 .. Window - 1
        BY <2>2, <2>5
      <4>2. QED
        BY <1>1, <3>1, <3>2, <4>1
    <3>4. Since(grants', Window) <= Limit + window.count
      BY <1>2, <2>2, <3>2
    <3>5. window'.since < Window /\ window'.since # Window
      BY <2>2, <2>5, <3>1
    <3>6. QED
      BY <2>2, <2>3, <3>3, <3>4, <3>5 DEF WindowKept, Recent
  <2>6. QED
    BY <2>2, <2>4, <2>5
<1>6. QED
  BY <1>4, <1>5

LEMMA CeilDivProperties ==
  ASSUME NEW n \in Nat, NEW d \in Nat, d > 0
  PROVE  /\ limiter!CeilDiv(n, d) \in Nat
         /\ limiter!CeilDiv(n, d) * d >= n
         /\ \A m \in Nat : n <= m => limiter!CeilDiv(n, d) <= m
         /\ \A x \in Int : x * d < n => x < limiter!CeilDiv(n, d)
<1>. DEFINE a == n + d - 1
            q == a \div d
            r == a % d
<1>1. a \in Nat
  OBVIOUS
<1>2. q \in Nat /\ r \in 0 .. d - 1 /\ a = d * q + r
  <2>. HIDE DEF a
  <2>1. QED
    BY <1>1
<1>3. limiter!CeilDiv(n, d) = q
  BY DEF limiter!CeilDiv
<1>. HIDE DEF q, r
<1>4. q * d >= n
  <2>1. d * q = q * d /\ q * d \in Nat
    BY <1>2
  <2>2. n + d - 1 = q * d + r
    BY <1>2, <2>1
  <2>3. QED
    BY <1>2, <2>1, <2>2
<1>5. ASSUME NEW m \in Nat, n <= m
      PROVE  q <= m
  <2>1. SUFFICES ASSUME m + 1 <= q PROVE FALSE
    BY <1>2
  <2>2. (m + 1) * d <= q * d /\ (m + 1) * d = m * d + d
    BY <1>2, <2>1, ProductMonotone
  <2>3. m * d >= m
    <3>1. 1 <= d /\ 1 * m <= d * m /\ d * m = m * d
      BY ProductMonotone
    <3>2. QED
      BY <3>1
  <2>4. d * q = q * d /\ q * d \in Nat /\ m * d \in Nat
    BY <1>2
  <2>5. n + d - 1 = q * d + r
    BY <1>2, <2>4
  <2>6. QED
    BY <1>2, <1>5, <2>2, <2>3, <2>4, <2>5
<1>6. ASSUME NEW x \in Int, x * d < n
      PROVE  x < q
  <2>1. SUFFICES ASSUME q <= x PROVE FALSE
    BY <1>2
  <2>2. q * d <= x * d
    BY <1>2, <2>1, ProductMonotone
  <2>3. q * d \in Int /\ x * d \in Int
    BY <1>2
  <2>4. QED
    BY <1>4, <1>6, <2>2, <2>3
<1>7. QED
  BY <1>2, <1>3, <1>4, <1>5, <1>6

(* The token bucket: what it would hold if it were asked now.  Each tick has *)
(* brought Limit of its units, each call allowed taken Window; so it cannot  *)
(* have let more through than fill and refills allow, nor be as empty as it  *)
(* is without having.                                                        *)
Tokens == IF bucket = Absent THEN limiter!Full
          ELSE limiter!Refilled(bucket.tokens, bucket.since)

BucketKept ==
  /\ \A k \in 1 .. Window :
       /\ Window * Recent(k) + Tokens <= Limit * Window + (k - 1) * Limit
       /\ Window * Recent(k) + Tokens >= k * Limit
  /\ promise # NoPromise => promise * Limit + Tokens >= Window

LEMMA BucketTypes ==
  ASSUME limiter!TypeOK
  PROVE  /\ Tokens \in 0 .. Limit * Window
         /\ Limit * Window \in Nat /\ Limit <= Limit * Window
         /\ Window <= Limit * Window
<1>1. /\ Limit * Window \in Nat /\ Limit <= Limit * Window
      /\ Window <= Limit * Window
  <2>1. 1 * Window <= Limit * Window /\ 1 * Limit <= Window * Limit
        /\ Window * Limit = Limit * Window
    BY LimiterTypes, ProductMonotone
  <2>2. QED
    BY <2>1, LimiterTypes
<1>2. Tokens \in 0 .. Limit * Window
  <2>1. CASE bucket = Absent
    BY <1>1, <2>1 DEF Tokens, limiter!Full
  <2>2. CASE bucket # Absent
    <3>1. bucket.tokens \in Nat /\ bucket.since \in Nat
      BY <1>1, <2>2, LimiterTypes DEF limiter!TypeOK, limiter!Buckets, limiter!Full
    <3>2. bucket.since * Limit \in Nat
      BY <3>1, LimiterTypes
    <3>3. QED
      BY <1>1, <2>2, <3>1, <3>2
         DEF Tokens, limiter!Full, limiter!Refilled, limiter!AtMost
  <2>3. QED
    BY <2>1, <2>2
<1>3. QED
  BY <1>1, <1>2

LEMMA TokenBucketShape ==
  ASSUME limiter!TypeOK, limiter!TokenBucket
  PROVE  /\ UNCHANGED <<window, log, counter>>
         /\ \/ /\ Tokens >= Window /\ limiter!Allow
               /\ bucket' = [tokens |-> Tokens - Window, since |-> 0]
            \/ /\ Tokens < Window
               /\ limiter!Deny(limiter!CeilDiv(Window - Tokens, Limit))
               /\ bucket' = [tokens |-> Tokens, since |-> 0]
<1>1. Tokens \in Nat
  BY BucketTypes
<1>2. QED
  BY <1>1, LimiterTypes DEF limiter!TokenBucket, Tokens

LEMMA TokenBucketType ==
  ASSUME limiter!TypeOK, limiter!TokenBucket, UNCHANGED algorithm
  PROVE  limiter!TypeOK'
<1>1. \/ /\ Tokens >= Window /\ limiter!Allow
         /\ bucket' = [tokens |-> Tokens - Window, since |-> 0]
      \/ /\ Tokens < Window
         /\ limiter!Deny(limiter!CeilDiv(Window - Tokens, Limit))
         /\ bucket' = [tokens |-> Tokens, since |-> 0]
  BY TokenBucketShape
<1>2. UNCHANGED <<window, log, counter>>
  BY TokenBucketShape
<1>3. Tokens \in 0 .. limiter!Full /\ limiter!Full \in Nat
  BY BucketTypes DEF limiter!Full
<1>4. bucket' \in limiter!Buckets
  BY <1>1, <1>3, LimiterTypes DEF limiter!Buckets
<1>5. grants' \in [limiter!Ages -> Nat]
  BY <1>1, RecentOnAllow DEF Counts, limiter!Deny, limiter!TypeOK, limiter!Ages
<1>6. answer' \in {"none", "allowed", "denied"} /\ promise' \in {NoPromise} \cup 0 .. Window
  <2>1. CASE limiter!Allow
    BY <2>1 DEF limiter!Allow
  <2>2. CASE Tokens < Window /\ limiter!Deny(limiter!CeilDiv(Window - Tokens, Limit))
    <3>1. Window - Tokens \in Nat /\ Window - Tokens <= Window
      BY <1>3, <2>2, LimiterTypes
    <3>. DEFINE n == Window - Tokens
    <3>. HIDE DEF n
    <3>a. Limit \in Nat /\ Limit > 0 /\ Window \in Nat
      BY LimiterTypes
    <3>b. n \in Nat /\ n <= Window
      BY <3>1 DEF n
    <3>c. limiter!CeilDiv(n, Limit) \in Nat /\ limiter!CeilDiv(n, Limit) <= Window
      BY <3>a, <3>b, CeilDivProperties
    <3>2. limiter!CeilDiv(Window - Tokens, Limit) \in 0 .. Window
      BY <3>a, <3>c DEF n
    <3>3. QED
      BY <2>2, <3>2 DEF limiter!Deny
  <2>3. QED
    BY <1>1, <2>1, <2>2
<1>7. QED
  BY <1>2, <1>4, <1>5, <1>6 DEF limiter!TypeOK

LEMMA TokensAfter ==
  ASSUME bucket' \in limiter!Buckets, bucket'.since = 0
  PROVE  Tokens' = bucket'.tokens
<1>1. bucket' # Absent /\ bucket'.tokens \in 0 .. Limit * Window
  BY LimiterTypes DEF limiter!Buckets, limiter!Full
<1>2. 0 * Limit = 0 /\ Limit * Window \in Nat
  BY LimiterTypes
<1>3. Tokens' = limiter!Refilled(bucket'.tokens, bucket'.since)
  BY <1>1 DEF Tokens
<1>4. QED
  BY <1>1, <1>2, <1>3 DEF limiter!Refilled, limiter!AtMost, limiter!Full

LEMMA TokenBucketStep ==
  ASSUME limiter!TypeOK, BucketKept, limiter!TokenBucket
  PROVE  /\ BucketKept'
         /\ answer' = "denied" => promise # 0 /\ Since(grants', Window) >= Limit
<1>0. /\ Tokens \in Nat /\ Tokens <= Limit * Window /\ Limit * Window \in Nat
      /\ Tokens \in 0 .. limiter!Full
  BY BucketTypes DEF limiter!Full
<1>1. \A k \in 1 .. Window : /\ Recent(k) \in Nat
                             /\ Window * Recent(k) \in Nat
                             /\ (k - 1) * Limit \in Nat /\ k * Limit \in Nat
  <2>1. TAKE k \in 1 .. Window
  <2>2. k \in 0 .. Window /\ k - 1 \in Nat /\ k \in Nat
    BY LimiterTypes
  <2>3. Recent(k) \in Nat
    BY <2>2, RecentTyped
  <2>4. QED
    BY <2>2, <2>3, ProductType, LimiterTypes
<1>2. CASE Tokens >= Window
  <2>1. limiter!Allow /\ bucket' = [tokens |-> Tokens - Window, since |-> 0]
    BY <1>0, <1>2, TokenBucketShape, LimiterTypes
  <2>2. Tokens' = Tokens - Window
    <3>0. Tokens - Window \in 0 .. limiter!Full /\ 0 \in 0 .. Window
      BY <1>0, <1>2, LimiterTypes DEF limiter!Full
    <3>1. bucket' \in limiter!Buckets /\ bucket'.since = 0
          /\ bucket'.tokens = Tokens - Window
      BY <2>1, <3>0 DEF limiter!Buckets
    <3>2. QED
      BY <3>1, TokensAfter
  <2>3. ASSUME NEW k \in 1 .. Window
        PROVE  /\ Window * Since(grants', k) + Tokens'
                    <= Limit * Window + (k - 1) * Limit
               /\ Window * Since(grants', k) + Tokens' >= k * Limit
    <3>1. Since(grants', k) = Recent(k) + 1
      BY <2>1, RecentOnAllow
    <3>2. Window * (Recent(k) + 1) = Window * Recent(k) + Window
      BY <1>1, LimiterTypes
    <3>3. Window * Since(grants', k) + Tokens' = Window * Recent(k) + Tokens
      BY <1>0, <1>1, <2>2, <3>1, <3>2, LimiterTypes
    <3>4. QED
      BY <3>3 DEF BucketKept
  <2>4. promise' = NoPromise /\ answer' # "denied"
    BY <2>1 DEF limiter!Allow
  <2>5. BucketKept'
    BY <2>3, <2>4 DEF BucketKept, Recent
  <2>6. QED
    BY <2>4, <2>5
<1>3. CASE Tokens < Window
  <2>1. /\ limiter!Deny(limiter!CeilDiv(Window - Tokens, Limit))
        /\ bucket' = [tokens |-> Tokens, since |-> 0]
    BY <1>0, <1>3, TokenBucketShape, LimiterTypes
  <2>2. Tokens' = Tokens
    <3>1. bucket' \in limiter!Buckets /\ bucket'.since = 0
          /\ bucket'.tokens = Tokens
      BY <1>0, <2>1, LimiterTypes DEF limiter!Buckets
    <3>2. QED
      BY <3>1, TokensAfter
  <2>3. grants' = grants /\ promise' = limiter!CeilDiv(Window - Tokens, Limit)
    BY <2>1 DEF limiter!Deny
  <2>4. promise' * Limit + Tokens' >= Window
    <3>. DEFINE n == Window - Tokens
                q == promise'
                x == q * Limit
    <3>1. n \in Nat /\ Limit \in Nat /\ Limit > 0
      BY <1>0, <1>3, LimiterTypes
    <3>2. q = limiter!CeilDiv(n, Limit)
      BY <2>3
    <3>. HIDE DEF n, q
    <3>3. x >= n /\ q \in Nat
      BY <3>1, <3>2, CeilDivProperties
    <3>4. x \in Nat
      BY <3>1, <3>3
    <3>. HIDE DEF x
    <3>5. x + Tokens >= Window
      BY <1>0, <3>3, <3>4, LimiterTypes DEF n
    <3>6. QED
      BY <2>2, <3>5 DEF x, q
  <2>5. BucketKept'
    BY <2>2, <2>3, <2>4 DEF BucketKept, Recent
  <2>6. promise # 0
    <3>1. SUFFICES ASSUME promise = 0 PROVE FALSE
      OBVIOUS
    <3>2. promise * Limit = 0
      BY <3>1, LimiterTypes
    <3>3. promise * Limit + Tokens >= Window
      BY <3>1, LimiterTypes DEF BucketKept
    <3>4. QED
      BY <1>0, <1>3, <3>2, <3>3, LimiterTypes
  <2>7. Since(grants', Window) >= Limit
    <3>1. Since(grants', Window) = Recent(Window) /\ Window \in 1 .. Window
      BY <2>3, LimiterTypes DEF Recent
    <3>2. Window * Recent(Window) + Tokens >= Window * Limit
      BY <3>1 DEF BucketKept
    <3>3. SUFFICES ASSUME Recent(Window) + 1 <= Limit PROVE FALSE
      BY <1>1, <3>1, LimiterTypes
    <3>0. Recent(Window) + 1 \in Int /\ Limit \in Int /\ Window \in Nat
      BY <1>1, <3>1, LimiterTypes
    <3>4. (Recent(Window) + 1) * Window <= Limit * Window
      BY <3>0, <3>3, ProductMonotone
    <3>5. /\ (Recent(Window) + 1) * Window = Window * Recent(Window) + Window
          /\ Limit * Window = Window * Limit
      BY <1>1, <3>1, LimiterTypes
    <3>6. QED
      BY <1>0, <1>1, <1>3, <3>1, <3>2, <3>4, <3>5, LimiterTypes
  <2>8. QED
    BY <2>5, <2>6, <2>7
<1>4. QED
  BY <1>0, <1>2, <1>3, LimiterTypes

LEMMA TokensOnTick ==
  ASSUME limiter!TypeOK, limiter!Tick
  PROVE  Tokens' = limiter!AtMost(Tokens + Limit, Limit * Window)
<1>. DEFINE F == Limit * Window
<1>0. F \in Nat /\ Limit \in Nat /\ Tokens \in 0 .. F
  BY BucketTypes, LimiterTypes
<1>1. CASE bucket = Absent
  <2>1. bucket' = Absent
    BY <1>1 DEF limiter!Tick, limiter!Older
  <2>2. Tokens = F /\ Tokens' = F
    BY <1>1, <2>1 DEF Tokens, limiter!Full
  <2>. HIDE DEF F
  <2>3. limiter!AtMost(F + Limit, F) = F
    BY <1>0 DEF limiter!AtMost
  <2>4. QED
    BY <2>2, <2>3 DEF F
<1>2. CASE bucket # Absent
  <2>. DEFINE t == bucket.tokens
              s == bucket.since
              u == limiter!AtMost(s + 1, Window)
  <2>1. t \in 0 .. F /\ s \in 0 .. Window /\ bucket \in limiter!Buckets
    BY <1>2 DEF limiter!TypeOK, limiter!Buckets, limiter!Full
  <2>2. bucket' = [bucket EXCEPT !.since = u]
    BY <1>2 DEF limiter!Tick, limiter!Older
  <2>3. bucket' # Absent /\ bucket'.tokens = t /\ bucket'.since = u
    <3>1. u \in 0 .. Window
      BY <2>1, LimiterTypes DEF limiter!AtMost
    <3>2. bucket' \in limiter!Buckets /\ bucket'.tokens = t /\ bucket'.since = u
      <4>. HIDE DEF u
      <4>1. QED
        BY <2>1, <2>2, <3>1 DEF limiter!Buckets
    <3>3. QED
      BY <3>2, LimiterTypes
  <2>4. /\ Tokens = limiter!AtMost(t + s * Limit, F)
        /\ Tokens' = limiter!AtMost(t + u * Limit, F)
    BY <1>2, <2>3 DEF Tokens, limiter!Full, limiter!Refilled
  <2>. HIDE DEF t, F
  <2>5. CASE s = Window
    <3>1. u = Window /\ s * Limit = F /\ u * Limit = F
      BY <2>1, <2>5, LimiterTypes DEF limiter!AtMost, F
    <3>. HIDE DEF s, u
    <3>2. QED
      BY <1>0, <2>1, <2>4, <3>1 DEF limiter!AtMost, F
  <2>6. CASE s # Window
    <3>1. u = s + 1 /\ s \in Nat
      BY <2>1, <2>6, LimiterTypes DEF limiter!AtMost
    <3>. HIDE DEF u, s
    <3>2. s * Limit \in Nat /\ u * Limit = s * Limit + Limit
      BY <1>0, <3>1
    <3>. DEFINE x == s * Limit
                y == u * Limit
    <3>3. x \in Nat /\ y = x + Limit
      BY <3>2
    <3>4. /\ Tokens = limiter!AtMost(t + x, F)
          /\ Tokens' = limiter!AtMost(t + y, F)
      BY <2>4
    <3>. HIDE DEF x, y
    <3>5. Tokens' = limiter!AtMost(Tokens + Limit, F)
      BY <1>0, <2>1, <3>3, <3>4 DEF limiter!AtMost
    <3>6. QED
      BY <3>5 DEF F
  <2>7. QED
    BY <2>5, <2>6
<1>3. QED
  BY <1>1, <1>2

LEMMA BucketOnTick ==
  ASSUME limiter!TypeOK, BucketKept, limiter!Tick
  PROVE  BucketKept'
<1>. DEFINE F == Limit * Window
<1>0. /\ F \in Nat /\ Limit \in Nat /\ Limit <= F /\ Window <= F /\ Window \in Nat
      /\ Tokens \in 0 .. F
      /\ NoPromise \notin Nat /\ Limit >= 1
  BY BucketTypes, LimiterTypes
<1>1. Tokens' = limiter!AtMost(Tokens + Limit, F)
  BY TokensOnTick
<1>2. ASSUME NEW k \in 1 .. Window
      PROVE  /\ Window * Since(grants', k) + Tokens' <= F + (k - 1) * Limit
             /\ Window * Since(grants', k) + Tokens' >= k * Limit
  <2>1. k - 1 \in 0 .. Window - 1 /\ (k - 1) + 1 = k /\ k - 1 \in 0 .. Window
    BY <1>0
  <2>2. Since(grants', k) = Recent(k - 1)
    BY <2>1, RecentOnTick
  <2>3. /\ (k - 1) * Limit \in Nat /\ k * Limit = (k - 1) * Limit + Limit
        /\ k * Limit <= Window * Limit /\ Window * Limit = F
    BY <1>0, ProductMonotone
  <2>4. CASE k = 1
    <3>1. Window * Since(grants', k) = 0
      BY <1>0, <2>2, <2>4, RecentTyped
    <3>2. (k - 1) * Limit = 0 /\ k * Limit = Limit
      BY <1>0, <2>4
    <3>. HIDE DEF F
    <3>3. QED
      BY <1>0, <1>1, <3>1, <3>2 DEF limiter!AtMost
  <2>5. CASE k # 1
    <3>. DEFINE j == k - 1
                g == Window * Recent(j)
                l == j * Limit
                m == (j - 1) * Limit
    <3>1. j \in 1 .. Window /\ j \in Nat /\ Recent(j) \in Nat
      BY <2>1, <2>5, RecentTyped
    <3>2. g \in Nat /\ l \in Nat /\ m \in Nat /\ l = m + Limit
      BY <1>0, <3>1
    <3>3. g + Tokens <= F + m /\ g + Tokens >= l
      BY <3>1 DEF BucketKept
    <3>4. k * Limit = l + Limit /\ l + Limit <= F
      BY <2>3
    <3>. HIDE DEF g, l, m, F
    <3>5. g + Tokens' <= F + l /\ g + Tokens' >= l + Limit
      BY <1>0, <1>1, <3>2, <3>3, <3>4 DEF limiter!AtMost
    <3>6. QED
      BY <2>2, <3>4, <3>5 DEF g, l, F
  <2>6. QED
    BY <2>4, <2>5
<1>3. ASSUME promise' # NoPromise
      PROVE  promise' * Limit + Tokens' >= Window
  <2>1. /\ promise \in {NoPromise} \cup 0 .. Window
        /\ promise' = IF promise \in {NoPromise, 0} THEN promise ELSE promise - 1
    BY DEF limiter!TypeOK, limiter!Tick
  <2>2. promise \in 0 .. Window /\ promise # NoPromise
    BY <1>0, <1>3, <2>1
  <2>3. promise * Limit + Tokens >= Window
    BY <2>2 DEF BucketKept
  <2>4. CASE promise = 0
    <3>1. promise * Limit = 0 /\ promise' * Limit = 0
      BY <1>0, <2>1, <2>4
    <3>. HIDE DEF F
    <3>2. QED
      BY <1>0, <1>1, <2>3, <3>1 DEF limiter!AtMost
  <2>5. CASE promise # 0
    <3>. DEFINE x == promise * Limit
                y == promise' * Limit
    <3>1. promise' = promise - 1 /\ promise \in Nat
      BY <2>1, <2>2, <2>5
    <3>2. x \in Nat /\ y = x - Limit /\ y \in Nat
      <4>1. x \in Nat /\ promise' \in Nat
        BY <1>0, <2>5, <3>1
      <4>2. y = x - Limit
        BY <1>0, <3>1
      <4>3. y \in Nat
        <5>. DEFINE q == promise'
        <5>1. q \in Nat /\ Limit \in Nat
          BY <1>0, <4>1
        <5>. HIDE DEF q
        <5>2. q * Limit \in Nat
          BY ONLY <5>1, ProductType
        <5>3. QED
          BY <5>2 DEF q
      <4>4. QED
        BY <4>1, <4>2, <4>3
    <3>3. x + Tokens >= Window
      BY <2>3
    <3>. HIDE DEF x, y, F
    <3>4. y + Tokens' >= Window
      BY <1>0, <1>1, <3>2, <3>3 DEF limiter!AtMost
    <3>5. QED
      BY <3>4 DEF y
  <2>6. QED
    BY <2>4, <2>5
<1>4. QED
  BY <1>2, <1>3 DEF BucketKept, Recent

(* The sliding log is the history itself: as many logged times are less than *)
(* k ticks old as calls were allowed; a promise is what is left of the       *)
(* oldest time of a full log.                                                *)
LogKept ==
  /\ \A k \in 0 .. Window : Recent(k) = Cardinality(PlacesOf(log, 0 .. k - 1))
  /\ promise # NoPromise => Len(log) = Limit /\ log[1] + promise = Window

InSight == {age \in 0 .. Window : ~limiter!Over(age)}

LEMMA RecentLog ==
  ASSUME limiter!TypeOK
  PROVE  /\ Kept(log, InSight) \in Seq(0 .. Window)
         /\ Len(Kept(log, InSight)) \in Nat /\ Len(Kept(log, InSight)) <= Len(log)
         /\ Len(log) \in Nat /\ Len(log) <= Limit
         /\ \A i \in 1 .. Len(Kept(log, InSight)) : Kept(log, InSight)[i] \in InSight
         /\ Len(Kept(log, InSight)) = Len(log)
              => \A i \in 1 .. Len(log) : log[i] \in InSight
         /\ \A k \in 0 .. Window :
              Cardinality(PlacesOf(Kept(log, InSight), 0 .. k - 1))
                = Cardinality(PlacesOf(log, 0 .. k - 1))
<1>1. log \in Seq(0 .. Window) /\ Len(log) <= Limit /\ Len(log) \in Nat
  BY DEF limiter!TypeOK
<1>2. PICK p : KeptFrom(log, InSight, p)
  BY <1>1, KeptProperties
<1>3. /\ Kept(log, InSight) \in Seq(0 .. Window)
      /\ Len(Kept(log, InSight)) <= Len(log)
      /\ Len(Kept(log, InSight)) = Len(log)
           => \A i \in 1 .. Len(log) : log[i] \in InSight
  BY <1>1, KeptProperties
<1>4. \A i \in 1 .. Len(Kept(log, InSight)) : Kept(log, InSight)[i] \in InSight
  BY <1>2 DEF KeptFrom
<1>5. ASSUME NEW k \in 0 .. Window
      PROVE  Cardinality(PlacesOf(Kept(log, InSight), 0 .. k - 1))
                = Cardinality(PlacesOf(log, 0 .. k - 1))
  <2>1. 0 .. k - 1 \subseteq InSight
    BY LimiterTypes DEF InSight, limiter!Over
  <2>2. QED
    BY <1>1, <2>1, KeptCount
<1>6. QED
  BY <1>1, <1>3, <1>4, <1>5

LEMMA LogShape ==
  ASSUME limiter!TypeOK, limiter!SlidingWindowLog
  PROVE  /\ UNCHANGED <<bucket, window, counter>>
         /\ \/ /\ Len(Kept(log, InSight)) < Limit /\ limiter!Allow
               /\ log' = Append(Kept(log, InSight), 0)
            \/ /\ ~(Len(Kept(log, InSight)) < Limit)
               /\ limiter!Deny(Window - Head(Kept(log, InSight)))
               /\ log' = Kept(log, InSight)
<1>1. limiter!Kept(log, InSight) = Kept(log, InSight)
  BY SameKept
<1>2. QED
  BY <1>1 DEF limiter!SlidingWindowLog, limiter!HasRoom, limiter!UntilWindowEnds,
              InSight

LEMMA LogType ==
  ASSUME limiter!TypeOK, limiter!SlidingWindowLog, UNCHANGED algorithm
  PROVE  limiter!TypeOK'
<1>. DEFINE r == Kept(log, InSight)
<1>1. r \in Seq(0 .. Window) /\ Len(r) <= Limit /\ Len(r) \in Nat /\ 0 \in 0 .. Window
  BY RecentLog, LimiterTypes
<1>2. UNCHANGED <<bucket, window, counter>>
  BY LogShape
<1>3. \/ Len(r) < Limit /\ limiter!Allow /\ log' = Append(r, 0)
      \/ ~(Len(r) < Limit) /\ limiter!Deny(Window - Head(r)) /\ log' = r
  BY LogShape
<1>. HIDE DEF r
<1>4. log' \in Seq(0 .. Window) /\ Len(log') <= Limit
  BY <1>1, <1>3, AppendProperties, LimiterTypes
<1>5. grants' \in [limiter!Ages -> Nat]
  BY <1>3, RecentOnAllow DEF Counts, limiter!Deny, limiter!TypeOK, limiter!Ages
<1>6. answer' \in {"none", "allowed", "denied"} /\ promise' \in {NoPromise} \cup 0 .. Window
  <2>1. CASE limiter!Allow
    BY <2>1 DEF limiter!Allow
  <2>2. CASE ~(Len(r) < Limit) /\ limiter!Deny(Window - Head(r))
    <3>1. r # <<>>
      BY <1>1, <2>2, LimiterTypes
    <3>2. Head(r) \in 0 .. Window
      BY <1>1, <3>1, HeadTailProperties
    <3>3. QED
      BY <2>2, <3>2, LimiterTypes DEF limiter!Deny
  <2>3. QED
    BY <1>3, <2>1, <2>2
<1>7. QED
  BY <1>2, <1>4, <1>5, <1>6 DEF limiter!TypeOK

LEMMA LogStep ==
  ASSUME limiter!TypeOK, LogKept, limiter!SlidingWindowLog
  PROVE  /\ LogKept'
         /\ answer' = "denied" => promise # 0 /\ Since(grants', Window) >= Limit
<1>. DEFINE r == Kept(log, InSight)
            C(s, k) == Cardinality(PlacesOf(s, 0 .. k - 1))
<1>1. /\ r \in Seq(0 .. Window) /\ Len(r) \in Nat /\ Len(r) <= Len(log)
      /\ Len(log) \in Nat /\ Len(log) <= Limit
      /\ \A i \in 1 .. Len(r) : r[i] \in InSight
      /\ Len(r) = Len(log) => \A i \in 1 .. Len(log) : log[i] \in InSight
      /\ \A k \in 0 .. Window : C(r, k) = C(log, k)
  BY RecentLog
<1>2. \/ Len(r) < Limit /\ limiter!Allow /\ log' = Append(r, 0)
      \/ ~(Len(r) < Limit) /\ limiter!Deny(Window - Head(r)) /\ log' = r
  BY LogShape
<1>3. /\ \A k \in 0 .. Window : Recent(k) = C(log, k) /\ Recent(k) \in Nat
      /\ Recent(0) = 0
  BY RecentTyped DEF LogKept
<1>. HIDE DEF r
<1>4. \A s : C(s, 0) = 0
  <2>1. TAKE s
  <2>2. 0 .. 0 - 1 = {}
    OBVIOUS
  <2>3. PlacesOf(s, 0 .. 0 - 1) = {}
    BY <2>2 DEF PlacesOf
  <2>4. QED
    BY <2>3, FS_EmptySet
<1>5. CASE Len(r) < Limit /\ limiter!Allow /\ log' = Append(r, 0)
  <2>1. ASSUME NEW k \in 0 .. Window
        PROVE  Since(grants', k) = C(log', k)
    <3>1. CASE k = 0
      <4>1. grants' \in Counts(Window) /\ Window \in Nat
        BY <1>5, RecentOnAllow, LimiterTypes
      <4>2. Since(grants', 0) = 0
        BY <4>1, SinceTyped
      <4>3. C(log', 0) = 0
        BY <1>4
      <4>4. QED
        BY <3>1, <4>2, <4>3
    <3>2. CASE k # 0
      <4>1. k \in 1 .. Window /\ 0 \in 0 .. k - 1 /\ 0 \in 0 .. Window
        BY <3>2, LimiterTypes
      <4>2. C(log', k) = C(r, k) + 1
        <5>1. C(Append(r, 0), k) = C(r, k) + 1
          BY <1>1, <4>1, PlacesAppend
        <5>2. QED
          BY <1>5, <5>1
      <4>3. Since(grants', k) = Recent(k) + 1
        BY <1>5, <4>1, RecentOnAllow
      <4>4. QED
        BY <1>1, <1>3, <4>2, <4>3
    <3>3. QED
      BY <3>1, <3>2
  <2>2. promise' = NoPromise /\ answer' # "denied"
    BY <1>5 DEF limiter!Allow
  <2>3. LogKept'
    BY <2>1, <2>2 DEF LogKept, Recent
  <2>4. QED
    BY <2>2, <2>3
<1>6. CASE ~(Len(r) < Limit) /\ limiter!Deny(Window - Head(r)) /\ log' = r
  <2>1. Len(r) = Limit /\ Len(log) = Limit
    BY <1>1, <1>6, LimiterTypes
  <2>2. /\ r # <<>> /\ Head(r) = r[1] /\ 1 \in 1 .. Len(r)
        /\ r[1] \in 0 .. Window
    BY <1>1, <2>1, LimiterTypes
  <2>3. grants' = grants /\ promise' = Window - r[1]
    BY <1>6, <2>2 DEF limiter!Deny
  <2>4. Len(log') = Limit /\ log'[1] + promise' = Window
    BY <1>6, <2>1, <2>2, <2>3, LimiterTypes
  <2>5. \A k \in 0 .. Window : Since(grants', k) = C(log', k)
    BY <1>1, <1>3, <1>6, <2>3 DEF Recent
  <2>6. LogKept'
    BY <2>4, <2>5 DEF LogKept, Recent
  <2>7. promise # 0
    <3>1. SUFFICES ASSUME promise = 0 PROVE FALSE
      OBVIOUS
    <3>2. log[1] + 0 = Window
      BY <3>1, LimiterTypes DEF LogKept
    <3>3. log[1] \in InSight
      BY <1>1, <2>1, <2>2
    <3>4. QED
      BY <3>2, <3>3, LimiterTypes DEF InSight, limiter!Over
  <2>8. Since(grants', Window) >= Limit
    <3>1. Window \in 0 .. Window /\ \A x \in InSight : x \in 0 .. Window - 1
      BY LimiterTypes DEF InSight, limiter!Over
    <3>2. C(r, Window) = Len(r)
      BY <1>1, <3>1, PlacesFinite
    <3>3. Since(grants', Window) = C(r, Window)
      BY <1>6, <2>5, <3>1
    <3>4. QED
      BY <2>1, <3>2, <3>3, LimiterTypes
  <2>9. QED
    BY <2>6, <2>7, <2>8
<1>7. QED
  BY <1>2, <1>5, <1>6

LEMMA LogOnTick ==
  ASSUME limiter!TypeOK, LogKept, limiter!Tick
  PROVE  LogKept'
<1>. DEFINE n == Len(log)
<1>1. /\ n \in Nat /\ DOMAIN log = 1 .. n
      /\ \A i \in 1 .. n : log[i] \in 0 .. Window
      /\ log' = [i \in 1 .. n |-> limiter!AtMost(log[i] + 1, Window)]
      /\ log \in Seq(0 .. Window)
  <2>1. /\ log \in Seq(0 .. Window)
        /\ log' = [i \in DOMAIN log |-> limiter!AtMost(log[i] + 1, Window)]
    BY DEF limiter!TypeOK, limiter!Tick
  <2>2. n \in Nat /\ DOMAIN log = 1 .. n /\ \A i \in 1 .. n : log[i] \in 0 .. Window
    <3>. DEFINE B == 0 .. Window
    <3>1. log \in Seq(B)
      BY <2>1
    <3>. HIDE DEF B
    <3>2. n \in Nat /\ DOMAIN log = 1 .. n /\ \A i \in 1 .. n : log[i] \in B
      BY <3>1
    <3>3. QED
      BY <3>2 DEF B
  <2>3. QED
    BY <2>1, <2>2
<1>2. log' \in Seq(0 .. Window) /\ Len(log') = n /\ DOMAIN log' = 1 .. n
  <2>1. log' \in Seq(0 .. Window)
    BY TickType DEF limiter!TypeOK
  <2>. HIDE DEF n
  <2>2. DOMAIN log' = 1 .. n
    BY <1>1
  <2>3. QED
    BY <1>1, <2>1, <2>2
<1>. HIDE DEF n
<1>3. \A i \in 1 .. n : log'[i] = limiter!AtMost(log[i] + 1, Window)
  BY <1>1
<1>4. ASSUME NEW k \in 0 .. Window
      PROVE  Since(grants', k) = Cardinality(PlacesOf(log', 0 .. k - 1))
  <2>1. CASE k = 0
    <3>1. grants' \in Counts(Window) /\ Window \in Nat
      BY RecentOnTick, LimiterTypes
    <3>2. Since(grants', 0) = 0
      BY <3>1, SinceTyped
    <3>3. 0 .. 0 - 1 = {}
      OBVIOUS
    <3>4. PlacesOf(log', 0 .. 0 - 1) = {}
      BY <3>3 DEF PlacesOf
    <3>5. QED
      BY <2>1, <3>2, <3>4, FS_EmptySet
  <2>2. CASE k # 0
    <3>. DEFINE j == k - 1
    <3>1. j \in 0 .. Window - 1 /\ j + 1 = k /\ j \in 0 .. Window
      BY <2>2, LimiterTypes
    <3>2. Since(grants', k) = Recent(j)
      BY <3>1, RecentOnTick
    <3>3. Recent(j) = Cardinality(PlacesOf(log, 0 .. j - 1))
      BY <3>1 DEF LogKept
    <3>4. \A i \in 1 .. n : log'[i] \in 0 .. k - 1 <=> log[i] \in 0 .. j - 1
      BY <1>1, <1>3, LimiterTypes DEF limiter!AtMost
    <3>5. PlacesOf(log', 0 .. k - 1) = PlacesOf(log, 0 .. j - 1)
      <4>. HIDE DEF j
      <4>1. QED
        BY <1>1, <1>2, <3>4 DEF PlacesOf
    <3>6. QED
      BY <3>2, <3>3, <3>5
  <2>3. QED
    BY <2>1, <2>2
<1>5. ASSUME promise' # NoPromise
      PROVE  Len(log') = Limit /\ log'[1] + promise' = Window
  <2>1. /\ promise \in {NoPromise} \cup 0 .. Window
        /\ promise' = IF promise \in {NoPromise, 0} THEN promise ELSE promise - 1
    BY DEF limiter!TypeOK, limiter!Tick
  <2>2. promise \in 0 .. Window /\ promise # NoPromise
    BY <1>5, <2>1, LimiterTypes
  <2>3. n = Limit /\ log[1] + promise = Window
    BY <2>2 DEF LogKept, n
  <2>4. 1 \in 1 .. n
    BY <2>3, LimiterTypes
  <2>5. log'[1] = limiter!AtMost(log[1] + 1, Window) /\ log[1] \in 0 .. Window
    BY <1>1, <1>3, <2>4
  <2>6. Window \in Nat /\ NoPromise \notin Nat
    BY LimiterTypes
  <2>. DEFINE a == log[1]
              b == log'[1]
  <2>7. a \in 0 .. Window /\ b = limiter!AtMost(a + 1, Window) /\ a + promise = Window
    BY <2>3, <2>5
  <2>. HIDE DEF a, b
  <2>8. b + promise' = Window
    <3>1. CASE promise = 0
      BY <2>1, <2>6, <2>7, <3>1 DEF limiter!AtMost
    <3>2. CASE promise # 0
      <4>1. promise' = promise - 1
        BY <2>1, <2>2, <3>2
      <4>2. QED
        BY <2>2, <2>6, <2>7, <3>2, <4>1 DEF limiter!AtMost
    <3>3. QED
      BY <3>1, <3>2
  <2>9. QED
    BY <1>2, <2>3, <2>8 DEF b
<1>6. QED
  BY <1>4, <1>5 DEF LogKept, Recent

(* The sliding counter as it would be if it were asked now.                  *)
Rolled ==
  IF counter = Absent THEN [current |-> 0, previous |-> 0, since |-> 0]
  ELSE IF counter.since \div Window = 0 THEN counter
  ELSE [current |-> 0,
        previous |-> limiter!PreviousCount(counter.since \div Window, counter.current),
        since |-> counter.since % Window]

(* Its current count is what was allowed since its window started, what was  *)
(* allowed before and is still less than Window ticks old is at most the     *)
(* previous count; and when the last call was allowed, the estimate was less *)
(* than the limit.                                                           *)
CounterKept ==
  /\ Recent(Rolled.since + 1) = Rolled.current
  /\ Rolled.current <= Limit /\ Rolled.previous <= Limit
  /\ Recent(Window) <= Rolled.previous + Rolled.current
  /\ Rolled.current > 0
       => Rolled.previous * (Window - Rolled.since) + (Rolled.current - 1) * Window
            < Limit * Window

RolledCounters == {c \in limiter!Counters : c.since < Window}

LEMMA RolledTyped ==
  ASSUME limiter!TypeOK
  PROVE  /\ Rolled \in RolledCounters
         /\ Rolled.current \in Nat /\ Rolled.previous \in Nat
         /\ Rolled.since \in 0 .. Window - 1
<1>. USE LimiterTypes
<1>1. Rolled \in limiter!Counters /\ Rolled.since \in 0 .. Window - 1
  <2>1. CASE counter = Absent
    BY <2>1 DEF Rolled, limiter!Counters
  <2>2. CASE counter # Absent
    <3>1. /\ counter \in limiter!Counters
          /\ counter.since \in Nat /\ counter.since < 3 * Window
          /\ counter.current \in Nat
      BY <2>2 DEF limiter!TypeOK, limiter!Counters
    <3>. DEFINE q == counter.since \div Window
                r == counter.since % Window
    <3>2. q \in Nat /\ r \in 0 .. Window - 1 /\ (q = 0 => counter.since < Window)
      BY <3>1, DivModThrice
    <3>. HIDE DEF q, r
    <3>3. limiter!PreviousCount(q, counter.current) \in Nat
      BY <3>1 DEF limiter!PreviousCount
    <3>4. Rolled = IF q = 0 THEN counter
                   ELSE [current |-> 0,
                         previous |-> limiter!PreviousCount(q, counter.current),
                         since |-> r]
      BY <2>2 DEF Rolled, q, r
    <3>5. QED
      BY <3>1, <3>2, <3>3, <3>4 DEF limiter!Counters
  <2>3. QED
    BY <2>1, <2>2
<1>2. QED
  BY <1>1 DEF limiter!Counters, RolledCounters

LEMMA RolledAfter ==
  ASSUME counter' \in RolledCounters
  PROVE  Rolled' = counter'
<1>1. /\ counter' # Absent /\ counter'.since \in Nat /\ counter'.since < Window
      /\ counter'.since < 3 * Window
  BY LimiterTypes DEF RolledCounters, limiter!Counters
<1>2. counter'.since \div Window = 0
  BY <1>1, DivModThrice, LimiterTypes
<1>3. QED
  BY <1>1, <1>2 DEF Rolled

LEMMA CounterShape ==
  ASSUME limiter!TypeOK, limiter!SlidingWindowCounter
  PROVE  LET estimate == Rolled.previous * (Window - Rolled.since)
                           + Rolled.current * Window
         IN  /\ UNCHANGED <<bucket, window, log>>
             /\ \/ /\ estimate < Limit * Window /\ limiter!Allow
                   /\ counter' = [Rolled EXCEPT !.current = Rolled.current + 1]
                \/ /\ ~(estimate < Limit * Window)
                   /\ limiter!Deny(Window - Rolled.since)
                   /\ counter' = Rolled
<1>. DEFINE zero == [current |-> 0, previous |-> 0, since |-> 0]
            c == IF counter = Absent THEN zero ELSE counter
            passed == c.since \div Window
            rolled == IF passed = 0 THEN c
                      ELSE [current |-> 0,
                            previous |-> limiter!PreviousCount(passed, c.current),
                            since |-> c.since % Window]
<1>1. rolled = Rolled
  <2>1. CASE counter = Absent
    <3>1. c = zero /\ zero.since = 0
      BY <2>1
    <3>2. 0 \div Window = 0
      BY DivModThrice, LimiterTypes
    <3>3. passed = 0
      BY <3>1, <3>2
    <3>4. rolled = zero
      BY <3>1, <3>3
    <3>5. QED
      BY <2>1, <3>4 DEF Rolled
  <2>2. CASE counter # Absent
    <3>1. c = counter
      BY <2>2
    <3>2. QED
      BY <2>2, <3>1 DEF Rolled
  <2>3. QED
    BY <2>1, <2>2
<1>2. /\ UNCHANGED <<bucket, window, log>>
      /\ LET estimate == rolled.previous * (Window - rolled.since)
                           + rolled.current * Window
         IN  IF estimate < Limit * Window
               THEN /\ counter' = [rolled EXCEPT !.current = rolled.current + 1]
                    /\ limiter!Allow
               ELSE counter' = rolled /\ limiter!Deny(Window - rolled.since)
  BY DEF limiter!SlidingWindowCounter, limiter!Full, limiter!UntilWindowEnds
<1>. HIDE DEF rolled
<1>3. QED
  BY <1>1, <1>2

LEMMA CounterType ==
  ASSUME limiter!TypeOK, limiter!SlidingWindowCounter, UNCHANGED algorithm
  PROVE  limiter!TypeOK'
<1>. DEFINE r == Rolled
<1>1. r \in limiter!Counters /\ r.current \in Nat /\ r.since \in 0 .. Window - 1
  BY RolledTyped DEF RolledCounters
<1>2. /\ UNCHANGED <<bucket, window, log>>
      /\ \/ /\ counter' = [r EXCEPT !.current = r.current + 1]
            /\ limiter!Allow
         \/ counter' = r /\ limiter!Deny(Window - r.since)
  BY CounterShape
<1>. HIDE DEF r
<1>3. counter' \in limiter!Counters
  BY <1>1, <1>2 DEF limiter!Counters
<1>4. grants' \in [limiter!Ages -> Nat]
  BY <1>2, RecentOnAllow DEF Counts, limiter!Deny, limiter!TypeOK, limiter!Ages
<1>5. answer' \in {"none", "allowed", "denied"} /\ promise' \in {NoPromise} \cup 0 .. Window
  BY <1>1, <1>2, LimiterTypes DEF limiter!Allow, limiter!Deny
<1>6. QED
  BY <1>2, <1>3, <1>4, <1>5 DEF limiter!TypeOK

LEMMA CounterStep ==
  ASSUME limiter!TypeOK, CounterKept, limiter!SlidingWindowCounter
  PROVE  CounterKept'
<1>. DEFINE cur == Rolled.current
            prev == Rolled.previous
            s == Rolled.since
            weight == prev * (Window - s)
<1>1. /\ Rolled \in RolledCounters /\ cur \in Nat /\ prev \in Nat
      /\ s \in 0 .. Window - 1
  BY RolledTyped
<1>2. /\ Recent(s + 1) = cur /\ cur <= Limit /\ prev <= Limit
      /\ Recent(Window) <= prev + cur
      /\ cur > 0 => weight + (cur - 1) * Window < Limit * Window
  BY DEF CounterKept
<1>3. /\ UNCHANGED <<bucket, window, log>>
      /\ \/ /\ weight + cur * Window < Limit * Window /\ limiter!Allow
            /\ counter' = [Rolled EXCEPT !.current = cur + 1]
         \/ limiter!Deny(Window - s) /\ counter' = Rolled
  BY CounterShape
<1>4. CASE limiter!Deny(Window - s) /\ counter' = Rolled
  <2>1. Rolled' = Rolled
    BY <1>1, <1>4, RolledAfter
  <2>2. grants' = grants
    BY <1>4 DEF limiter!Deny
  <2>3. QED
    BY <2>1, <2>2 DEF CounterKept, Recent
<1>5. CASE /\ weight + cur * Window < Limit * Window /\ limiter!Allow
           /\ counter' = [Rolled EXCEPT !.current = cur + 1]
  <2>1. /\ counter' \in RolledCounters
        /\ counter'.current = cur + 1 /\ counter'.previous = prev /\ counter'.since = s
    <3>1. Rolled \in limiter!Counters /\ Rolled.since < Window /\ cur + 1 \in Nat
      BY <1>1 DEF RolledCounters
    <3>. DEFINE R == Rolled
                n == cur + 1
    <3>2. /\ counter' = [R EXCEPT !.current = n] /\ n \in Nat
          /\ R \in limiter!Counters /\ R.since < Window
      BY <1>5, <3>1
    <3>. HIDE DEF R, n
    <3>3. /\ counter' \in RolledCounters /\ counter'.current = n
          /\ counter'.previous = R.previous /\ counter'.since = R.since
      BY <3>2 DEF RolledCounters, limiter!Counters
    <3>4. QED
      BY <3>3 DEF R, n
  <2>2. Rolled' = counter'
    BY <2>1, RolledAfter
  <2>3. /\ Since(grants', s + 1) = cur + 1
        /\ Since(grants', Window) <= prev + (cur + 1)
    <3>1. s + 1 \in 1 .. Window /\ Window \in 1 .. Window /\ Window \in 0 .. Window
      BY <1>1, LimiterTypes
    <3>2. /\ Since(grants', s + 1) = Recent(s + 1) + 1
          /\ Since(grants', Window) = Recent(Window) + 1
          /\ Recent(Window) \in Nat
      BY <1>5, <3>1, RecentOnAllow, RecentTyped
    <3>. HIDE DEF cur, prev, s
    <3>3. QED
      BY <1>1, <1>2, <3>2
  <2>4. cur + 1 <= Limit
    <3>1. weight \in Nat /\ cur * Window \in Nat /\ Limit * Window \in Nat
      <4>1. Window - s \in Nat
        BY <1>1, LimiterTypes
      <4>. HIDE DEF cur, prev, s
      <4>2. QED
        BY <1>1, <4>1, LimiterTypes, ProductType
    <3>. HIDE DEF weight, cur
    <3>2. cur * Window < Limit * Window
      BY <1>5, <3>1
    <3>3. ~(Limit <= cur)
      BY <1>1, <3>1, <3>2, ProductMonotone, LimiterTypes
    <3>4. QED
      BY <1>1, <3>3, LimiterTypes
  <2>5. prev * (Window - s) + ((cur + 1) - 1) * Window < Limit * Window
    <3>1. (cur + 1) - 1 = cur
      BY <1>1
    <3>2. QED
      BY <1>5, <3>1
  <2>. HIDE DEF weight, cur, prev, s
  <2>6. QED
    BY <1>2, <2>1, <2>2, <2>3, <2>4, <2>5 DEF CounterKept, Recent
<1>6. QED
  BY <1>3, <1>4, <1>5

LEMMA RolledOnTick ==
  ASSUME limiter!TypeOK, limiter!Tick, counter # Absent
  PROVE  /\ Rolled.since + 1 < Window =>
              /\ Rolled'.since = Rolled.since + 1
              /\ Rolled'.current = Rolled.current
              /\ Rolled'.previous = Rolled.previous
         /\ Rolled.since + 1 = Window =>
              /\ Rolled'.since = 0 /\ Rolled'.current = 0
              /\ Rolled'.previous = Rolled.current
<1>. DEFINE x == counter.since
            c == counter.current
            p == counter.previous
            y == IF x + 1 = 3 * Window THEN 2 * Window ELSE x + 1
            W == Window
<1>1. W \in Nat /\ W >= 2 /\ W > 0 /\ 2 * W = W + W /\ 3 * W = W + W + W
  BY LimiterTypes
<1>2. /\ counter \in limiter!Counters /\ x \in Nat /\ x < 3 * W
      /\ c \in Nat /\ p \in Nat
  BY LimiterTypes DEF limiter!TypeOK, limiter!Counters
<1>3. counter' = [counter EXCEPT !.since = y]
  BY DEF limiter!Tick
<1>4. y \in Nat /\ y < 3 * W
  BY <1>1, <1>2
<1>5. /\ counter'.since = y /\ counter'.current = c /\ counter'.previous = p
      /\ counter' # Absent
  <2>1. y \in 0 .. 3 * Window - 1
    BY <1>1, <1>4
  <2>2. counter' \in limiter!Counters /\ counter'.since = y /\ counter'.current = c
        /\ counter'.previous = p
    <3>. HIDE DEF y
    <3>1. QED
      BY <1>2, <1>3, <2>1 DEF limiter!Counters
  <2>3. QED
    BY <2>2, LimiterTypes
<1>6. /\ Rolled.since = IF x \div W = 0 THEN x ELSE x % W
      /\ Rolled.current = IF x \div W = 0 THEN c ELSE 0
      /\ Rolled.previous = IF x \div W = 0 THEN p
                           ELSE IF x \div W = 1 THEN c ELSE 0
  BY DEF Rolled, limiter!PreviousCount
<1>7. /\ Rolled'.since = IF y \div W = 0 THEN y ELSE y % W
      /\ Rolled'.current = IF y \div W = 0 THEN c ELSE 0
      /\ Rolled'.previous = IF y \div W = 0 THEN p
                            ELSE IF y \div W = 1 THEN c ELSE 0
  <2>. HIDE DEF y
  <2>1. QED
    BY <1>5 DEF Rolled, limiter!PreviousCount
<1>8. /\ x < W => x \div W = 0 /\ x % W = x
      /\ W <= x /\ x < 2 * W => x \div W = 1 /\ x % W = x - W
      /\ 2 * W <= x => x \div W = 2 /\ x % W = x - 2 * W
  BY <1>1, <1>2, DivModThrice
<1>9. /\ y < W => y \div W = 0 /\ y % W = y
      /\ W <= y /\ y < 2 * W => y \div W = 1 /\ y % W = y - W
      /\ 2 * W <= y => y \div W = 2 /\ y % W = y - 2 * W
  <2>. HIDE DEF y
  <2>1. QED
    BY <1>1, <1>4, DivModThrice
<1>10. y = IF x + 1 = 3 * W THEN 2 * W ELSE x + 1
  OBVIOUS
<1>. DEFINE xq == x \div W
            xr == x % W
            yq == y \div W
            yr == y % W
            R == Rolled
            S == Rolled'
<1>11. /\ R.since = IF xq = 0 THEN x ELSE xr
       /\ R.current = IF xq = 0 THEN c ELSE 0
       /\ R.previous = IF xq = 0 THEN p ELSE IF xq = 1 THEN c ELSE 0
       /\ S.since = IF yq = 0 THEN y ELSE yr
       /\ S.current = IF yq = 0 THEN c ELSE 0
       /\ S.previous = IF yq = 0 THEN p ELSE IF yq = 1 THEN c ELSE 0
       /\ x < W => xq = 0 /\ xr = x
       /\ W <= x /\ x < 2 * W => xq = 1 /\ xr = x - W
       /\ 2 * W <= x => xq = 2 /\ xr = x - 2 * W
       /\ y < W => yq = 0 /\ yr = y
       /\ W <= y /\ y < 2 * W => yq = 1 /\ yr = y - W
       /\ 2 * W <= y => yq = 2 /\ yr = y - 2 * W
  BY <1>6, <1>7, <1>8, <1>9
<1>. HIDE DEF xq, xr, yq, yr, R, S, x, y, c, p, W
<1>12. /\ R.since + 1 < W =>
            S.since = R.since + 1 /\ S.current = R.current /\ S.previous = R.previous
       /\ R.since + 1 = W =>
            S.since = 0 /\ S.current = 0 /\ S.previous = R.current
  <2>1. CASE x < W
    <3>1. R.since = x /\ R.current = c /\ R.previous = p
      BY <1>11, <2>1
    <3>2. y = x + 1
      BY <1>1, <1>2, <1>10, <2>1
    <3>3. CASE x + 1 < W
      <4>1. S.since = y /\ S.current = c /\ S.previous = p
        BY <1>11, <3>2, <3>3
      <4>2. QED
        BY <1>1, <1>2, <3>1, <3>2, <3>3, <4>1
    <3>4. CASE x + 1 = W
      <4>1. yq = 1 /\ yr = 0
        BY <1>1, <1>2, <1>11, <3>2, <3>4
      <4>2. S.since = 0 /\ S.current = 0 /\ S.previous = c
        BY <1>11, <4>1
      <4>3. QED
        BY <1>1, <1>2, <3>1, <3>4, <4>2
    <3>5. QED
      BY <1>1, <1>2, <2>1, <3>3, <3>4
  <2>2. CASE W <= x /\ x < 2 * W
    <3>1. R.since = x - W /\ R.current = 0 /\ R.previous = c
      BY <1>11, <2>2
    <3>2. y = x + 1
      BY <1>1, <1>2, <1>10, <2>2
    <3>3. CASE x + 1 < 2 * W
      <4>1. yq = 1 /\ yr = y - W
        BY <1>1, <1>2, <1>11, <2>2, <3>2, <3>3
      <4>2. S.since = y - W /\ S.current = 0 /\ S.previous = c
        BY <1>11, <4>1
      <4>3. QED
        BY <1>1, <1>2, <3>1, <3>2, <3>3, <4>2
    <3>4. CASE x + 1 = 2 * W
      <4>1. yq = 2 /\ yr = 0
        BY <1>1, <1>2, <1>11, <3>2, <3>4
      <4>2. S.since = 0 /\ S.current = 0 /\ S.previous = 0
        BY <1>11, <4>1
      <4>3. QED
        BY <1>1, <1>2, <3>1, <3>4, <4>2
    <3>5. QED
      BY <1>1, <1>2, <2>2, <3>3, <3>4
  <2>3. CASE 2 * W <= x
    <3>1. R.since = x - 2 * W /\ R.current = 0 /\ R.previous = 0
      BY <1>1, <1>11, <2>3
    <3>3. CASE x + 1 < 3 * W
      <4>0. y = x + 1
        BY <1>1, <1>2, <1>10, <3>3
      <4>1. yq = 2 /\ yr = y - 2 * W
        BY <1>1, <1>2, <1>11, <2>3, <4>0
      <4>2. S.since = y - 2 * W /\ S.current = 0 /\ S.previous = 0
        BY <1>11, <4>1
      <4>3. QED
        BY <1>1, <1>2, <3>1, <3>3, <4>0, <4>2
    <3>4. CASE x + 1 = 3 * W
      <4>1. y = 2 * W
        BY <1>1, <1>2, <1>10, <3>4
      <4>2. yq = 2 /\ yr = 0
        BY <1>1, <1>2, <1>11, <4>1
      <4>3. S.since = 0 /\ S.current = 0 /\ S.previous = 0
        BY <1>11, <4>2
      <4>4. QED
        BY <1>1, <1>2, <3>1, <3>4, <4>3
    <3>5. QED
      BY <1>1, <1>2, <2>3, <3>3, <3>4
  <2>4. QED
    BY <1>1, <1>2, <2>1, <2>2, <2>3
<1>13. QED
  BY <1>12 DEF R, S, W

LEMMA CounterOnTick ==
  ASSUME limiter!TypeOK, CounterKept, limiter!Tick
  PROVE  CounterKept'
<1>. DEFINE cur == Rolled.current
            prev == Rolled.previous
            s == Rolled.since
            W == Window
<1>0. W \in Nat /\ W >= 2 /\ Limit \in Nat
  BY LimiterTypes
<1>1. cur \in Nat /\ prev \in Nat /\ s \in 0 .. W - 1 /\ s \in Nat
  BY RolledTyped
<1>2. /\ Recent(s + 1) = cur /\ cur <= Limit /\ prev <= Limit
      /\ Recent(W) <= prev + cur
      /\ cur > 0 => prev * (W - s) + (cur - 1) * W < Limit * W
  BY DEF CounterKept
<1>3. /\ Since(grants', 1) = 0
      /\ Since(grants', W) = Recent(W - 1)
      /\ Recent(W - 1) <= Recent(W)
      /\ Recent(W - 1) \in Nat /\ Recent(W) \in Nat
  <2>1. 0 \in 0 .. W - 1 /\ W - 1 \in 0 .. W - 1 /\ 0 + 1 = 1
        /\ W - 1 \in 0 .. W /\ W \in 0 .. W
        /\ (W - 1) + 1 = W /\ W - 1 <= W
    BY <1>0
  <2>2. QED
    BY <2>1, RecentTyped, RecentOnTick
<1>4. CASE counter = Absent
  <2>1. /\ cur = 0 /\ prev = 0 /\ s = 0
        /\ Rolled'.current = 0 /\ Rolled'.previous = 0 /\ Rolled'.since = 0
    <3>1. counter' = Absent
      BY <1>4 DEF limiter!Tick
    <3>2. QED
      BY <1>4, <3>1 DEF Rolled
  <2>2. Since(grants', W) <= 0
    BY <1>2, <1>3, <2>1
  <2>3. QED
    BY <1>0, <1>3, <2>1, <2>2 DEF CounterKept, Recent
<1>5. CASE counter # Absent /\ s + 1 < W
  <2>1. Rolled'.since = s + 1 /\ Rolled'.current = cur /\ Rolled'.previous = prev
    BY <1>5, RolledOnTick
  <2>2. Since(grants', (s + 1) + 1) = cur
    <3>1. s + 1 \in 0 .. Window - 1
      BY <1>0, <1>1, <1>5
    <3>2. QED
      BY <1>2, <3>1, RecentOnTick
  <2>3. Since(grants', W) <= prev + cur
    <3>. HIDE DEF cur, prev, W
    <3>1. QED
      BY <1>1, <1>2, <1>3
  <2>4. ASSUME cur > 0
        PROVE  prev * (W - (s + 1)) + (cur - 1) * W < Limit * W
    <3>. DEFINE a == prev * (W - s)
                b == prev * (W - (s + 1))
                d == (cur - 1) * W
                l == Limit * W
    <3>. HIDE DEF cur, prev, W, s
    <3>1. a \in Int /\ b \in Int /\ d \in Int /\ l \in Int /\ b <= a
      <4>1. W - s \in Int /\ W - (s + 1) \in Int /\ cur - 1 \in Int
        BY <1>0, <1>1
      <4>2. a = (W - s) * prev /\ b = (W - (s + 1)) * prev
        BY <1>1, <4>1
      <4>3. W - (s + 1) <= W - s
        BY <1>0, <1>1
      <4>4. b <= a
        BY <1>1, <4>1, <4>2, <4>3, ProductMonotone
      <4>5. QED
        BY <1>0, <1>1, <4>1, <4>4
    <3>2. a + d < l
      BY <1>2, <2>4
    <3>. HIDE DEF a, b, d, l
    <3>3. b + d < l
      BY <3>1, <3>2
    <3>4. QED
      BY <3>3 DEF b, d, l
  <2>. HIDE DEF cur, prev, s
  <2>5. QED
    BY <1>2, <2>1, <2>2, <2>3, <2>4 DEF CounterKept, Recent
<1>6. CASE counter # Absent /\ s + 1 = W
  <2>1. Rolled'.since = 0 /\ Rolled'.current = 0 /\ Rolled'.previous = cur
    BY <1>6, RolledOnTick
  <2>2. Recent(W) = cur
    BY <1>2, <1>6
  <2>3. Since(grants', W) <= cur + 0
    <3>. HIDE DEF cur, prev, W
    <3>1. QED
      BY <1>1, <1>3, <2>2
  <2>4. 0 <= Limit
    BY <1>0
  <2>. HIDE DEF cur, prev, s
  <2>5. QED
    BY <1>2, <1>3, <2>1, <2>3, <2>4 DEF CounterKept, Recent
<1>7. QED
  BY <1>0, <1>1, <1>4, <1>5, <1>6

LEMMA CounterBound ==
  ASSUME limiter!TypeOK, CounterKept
  PROVE  Recent(Window) <= Limit + limiter!CeilDiv(Limit * (Window - 2), Window)
<1>. DEFINE cur == Rolled.current
            prev == Rolled.previous
            s == Rolled.since
            W == Window
            f == Recent(W)
            most == limiter!CeilDiv(Limit * (W - 2), W)
<1>0. W \in Nat /\ W >= 2 /\ W > 0 /\ Limit \in Nat /\ W - 2 \in Nat
  BY LimiterTypes
<1>1. cur \in Nat /\ prev \in Nat /\ s \in 0 .. W - 1 /\ s \in Nat
  BY RolledTyped
<1>2. /\ Recent(s + 1) = cur /\ cur <= Limit /\ prev <= Limit
      /\ f <= prev + cur
      /\ cur > 0 => prev * (W - s) + (cur - 1) * W < Limit * W
  BY DEF CounterKept
<1>3. f \in Nat
  BY <1>0, RecentTyped
<1>4. /\ most \in Nat
      /\ \A x \in Int : x * W < Limit * (W - 2) => x < most
  <2>. DEFINE n == Limit * (W - 2)
  <2>1. n \in Nat
    BY <1>0
  <2>. HIDE DEF n, W
  <2>2. /\ limiter!CeilDiv(n, W) \in Nat
        /\ \A x \in Int : x * W < n => x < limiter!CeilDiv(n, W)
    BY <1>0, <2>1, CeilDivProperties
  <2>3. QED
    BY <2>2 DEF n
<1>. HIDE DEF most
<1>5. CASE cur = 0
  <2>. HIDE DEF cur, prev, f
  <2>1. QED
    BY <1>0, <1>1, <1>2, <1>3, <1>4, <1>5 DEF most, f
<1>6. CASE s = W - 1
  <2>1. s + 1 = W
    BY <1>0, <1>6
  <2>2. f = cur
    BY <1>2, <2>1
  <2>. HIDE DEF cur, prev, f
  <2>3. QED
    BY <1>0, <1>1, <1>2, <1>3, <1>4, <2>2 DEF most, f
<1>7. CASE cur > 0 /\ s <= W - 2
  <2>. DEFINE x == prev + cur - 1 - Limit
  <2>. HIDE DEF cur, prev, f, W, s
  <2>1. x \in Int
    BY <1>0, <1>1
  <2>2. x * W < Limit * (W - 2)
    <3>. DEFINE a == prev * (W - s)
                b == prev * s
                c == (cur - 1) * W
                d == prev * W
                l == Limit * W
                m == Limit * (W - 2)
    <3>1. W - s \in Int /\ cur - 1 \in Int /\ W - 2 \in Int
      BY <1>0, <1>1
    <3>2. /\ a \in Int /\ b \in Int /\ c \in Int /\ d \in Int /\ l \in Int /\ m \in Int
      BY <1>0, <1>1, <3>1
    <3>3. d = a + b
      BY <1>0, <1>1
    <3>4. x * W = d + c - l
      <4>1. x = (prev + (cur - 1)) - Limit
        BY <1>0, <1>1
      <4>2. x * W = (prev + (cur - 1)) * W - Limit * W
        BY <1>0, <1>1, <4>1
      <4>3. (prev + (cur - 1)) * W = prev * W + (cur - 1) * W
        BY <1>0, <1>1
      <4>4. QED
        BY <1>0, <1>1, <4>2, <4>3
    <3>5. b <= m
      <4>1. b = s * prev /\ s * prev <= (W - 2) * prev
        BY <1>0, <1>1, <1>7, ProductMonotone
      <4>2. (W - 2) * prev = prev * (W - 2) /\ prev * (W - 2) <= Limit * (W - 2)
        BY <1>0, <1>1, <1>2, ProductMonotone
      <4>. DEFINE e == s * prev
                  g == (W - 2) * prev
                  h == prev * (W - 2)
      <4>3. e \in Int /\ g \in Int /\ h \in Int
        BY <1>0, <1>1
      <4>4. b = e /\ e <= g /\ g = h /\ h <= m
        BY <4>1, <4>2
      <4>. HIDE DEF b, e, g, h, m
      <4>5. QED
        BY <3>2, <4>3, <4>4
    <3>6. a + c < l
      BY <1>2, <1>7
    <3>. DEFINE y == x * W
    <3>7. y = d + c - l
      BY <3>4
    <3>. HIDE DEF a, b, c, d, l, m, y, x
    <3>8. y < m
      BY <3>2, <3>3, <3>5, <3>6, <3>7
    <3>9. QED
      BY <3>8 DEF y, m
  <2>3. x < most
    BY <1>4, <2>1, <2>2
  <2>4. f <= Limit + most
    BY <1>0, <1>1, <1>2, <1>3, <1>4, <2>1, <2>3
  <2>5. QED
    BY <2>4 DEF f, most, W
<1>8. QED
  <2>. HIDE DEF cur, prev, s
  <2>1. QED
    BY <1>0, <1>1, <1>5, <1>6, <1>7

(* What each algorithm keeps.                                                *)
LimiterIInv ==
  /\ limiter!TypeOK
  /\ algorithm = "token-bucket" => BucketKept
  /\ algorithm = "fixed-window" => WindowKept
  /\ algorithm = "sliding-window-log" => LogKept
  /\ algorithm = "sliding-window-counter" => CounterKept

LEMMA InitLimiter == limiter!Init => LimiterIInv
<1>. SUFFICES ASSUME limiter!Init PROVE LimiterIInv
  OBVIOUS
<1>1. limiter!TypeOK
  <2>1. <<>> \in Seq(0 .. Window) /\ Len(<<>>) = 0
    OBVIOUS
  <2>2. QED
    BY <2>1, LimiterTypes DEF limiter!Init, limiter!TypeOK
<1>2. \A k \in 0 .. Window : Recent(k) = 0
  <2>1. TAKE k \in 0 .. Window
  <2>2. IsFiniteSet(0 .. k - 1) /\ \A a \in 0 .. k - 1 : a \in 0 .. Window - 1
    BY FS_Interval, LimiterTypes
  <2>3. \A a \in 0 .. k - 1 : grants[a] = 0
    BY <2>2 DEF limiter!Init, limiter!Ages
  <2>4. QED
    BY <2>2, <2>3, SumOfZeros DEF Recent, Since
<1>3. Recent(Window) = 0 /\ Recent(1) = 0 /\ 0 + 1 = 1
  BY <1>2, LimiterTypes
<1>4. BucketKept
  <2>. DEFINE F == Limit * Window
  <2>1. Tokens = F /\ F \in Nat /\ promise = NoPromise
    BY BucketTypes, <1>1 DEF limiter!Init, Tokens, limiter!Full
  <2>2. ASSUME NEW k \in 1 .. Window
        PROVE  /\ Window * Recent(k) + Tokens <= F + (k - 1) * Limit
               /\ Window * Recent(k) + Tokens >= k * Limit
    <3>1. Window * Recent(k) = 0
      BY <1>2, LimiterTypes
    <3>2. (k - 1) * Limit \in Nat
      BY LimiterTypes
    <3>3. k * Limit <= Window * Limit /\ Window * Limit = F
      BY LimiterTypes, ProductMonotone
    <3>. HIDE DEF F
    <3>4. QED
      BY <2>1, <3>1, <3>2, <3>3
  <2>3. QED
    BY <2>1, <2>2 DEF BucketKept
<1>5. WindowKept
  BY <1>3 DEF limiter!Init, WindowKept
<1>6. LogKept
  <2>1. \A k : PlacesOf(log, 0 .. k - 1) = {}
    BY DEF limiter!Init, PlacesOf
  <2>2. QED
    BY <1>2, <2>1, FS_EmptySet DEF limiter!Init, LogKept
<1>7. CounterKept
  <2>1. Rolled.since = 0 /\ Rolled.current = 0 /\ Rolled.previous = 0
    BY DEF limiter!Init, Rolled
  <2>2. QED
    BY <1>3, <2>1, LimiterTypes DEF CounterKept
<1>8. QED
  BY <1>1, <1>4, <1>5, <1>6, <1>7 DEF LimiterIInv

LEMMA LimiterStep ==
  ASSUME LimiterIInv, limiter!Next
  PROVE  /\ LimiterIInv'
         /\ limiter!Exact /\ answer' = "denied"
              => promise # 0 /\ Since(grants', Window) >= Limit
<1>1. CASE limiter!Tick
  <2>1. limiter!TypeOK' /\ algorithm' = algorithm /\ answer' # "denied"
    BY <1>1, TickType DEF LimiterIInv, limiter!Tick
  <2>2. QED
    BY <1>1, <2>1, BucketOnTick, WindowOnTick, LogOnTick, CounterOnTick
       DEF LimiterIInv
<1>2. CASE limiter!TokenBucket /\ UNCHANGED algorithm
  <2>1. algorithm = "token-bucket" /\ limiter!TypeOK'
    BY <1>2, TokenBucketType DEF limiter!TokenBucket, LimiterIInv
  <2>2. QED
    BY <1>2, <2>1, TokenBucketStep DEF LimiterIInv
<1>3. CASE limiter!FixedWindow /\ UNCHANGED algorithm
  <2>1. algorithm = "fixed-window" /\ limiter!TypeOK'
    BY <1>3, FixedWindowType DEF limiter!FixedWindow, LimiterIInv
  <2>2. QED
    BY <1>3, <2>1, FixedWindowStep DEF LimiterIInv, Recent
<1>4. CASE limiter!SlidingWindowLog /\ UNCHANGED algorithm
  <2>1. algorithm = "sliding-window-log" /\ limiter!TypeOK'
    BY <1>4, LogType DEF limiter!SlidingWindowLog, LimiterIInv
  <2>2. QED
    BY <1>4, <2>1, LogStep DEF LimiterIInv
<1>5. CASE limiter!SlidingWindowCounter /\ UNCHANGED algorithm
  <2>1. algorithm = "sliding-window-counter" /\ limiter!TypeOK'
    BY <1>5, CounterType DEF limiter!SlidingWindowCounter, LimiterIInv
  <2>2. QED
    BY <1>5, <2>1, CounterStep DEF LimiterIInv, limiter!Exact
<1>6. QED
  BY <1>1, <1>2, <1>3, <1>4, <1>5 DEF limiter!Next, limiter!Check

LEMMA WithinTheBound ==
  ASSUME LimiterIInv
  PROVE  limiter!BurstBound
<1>1. limiter!TypeOK /\ algorithm \in limiter!Algorithms
  BY DEF LimiterIInv, limiter!TypeOK
<1>2. Recent(Window) \in Nat /\ Limit \in Nat /\ Limit >= 1 /\ Window \in Nat
      /\ Window \in 1 .. Window /\ Window \in 0 .. Window
  BY <1>1, RecentTyped, LimiterTypes
<1>3. CASE algorithm = "token-bucket"
  <2>. DEFINE f == Recent(Window)
              F == Limit * Window
              g == Window * f
              m == (Window - 1) * Limit
  <2>1. g + Tokens <= F + m
    BY <1>2, <1>3 DEF LimiterIInv, BucketKept
  <2>2. /\ g \in Nat /\ F \in Nat /\ m \in Int /\ Tokens \in Nat /\ m = F - Limit
    <3>1. m = Window * Limit - Limit
      BY <1>2
    <3>2. QED
      BY <1>1, <1>2, <3>1, BucketTypes
  <2>3. SUFFICES ASSUME 2 * Limit <= f PROVE FALSE
    BY <1>2, <1>3, <1>1, InWindowIsSum
       DEF limiter!BurstBound, limiter!MostPerWindow, Recent
  <2>4. (2 * Limit) * Window <= f * Window /\ f * Window = g
        /\ (2 * Limit) * Window = F + F
    <3>1. 2 * Limit \in Int /\ f \in Int
      BY <1>2
    <3>2. (2 * Limit) * Window <= f * Window
      BY <1>2, <2>3, <3>1, ProductMonotone
    <3>3. f * Window = g
      BY <1>2
    <3>4. (2 * Limit) * Window = F + F
      BY <1>2
    <3>5. QED
      BY <3>2, <3>3, <3>4
  <2>. HIDE DEF g, m, F, f
  <2>5. QED
    BY <1>2, <2>1, <2>2, <2>4
<1>4. CASE algorithm = "fixed-window"
  <2>1. Recent(Window) <= 2 * Limit
    <3>1. CASE window = Absent
      BY <1>2, <1>4, <3>1 DEF LimiterIInv, WindowKept
    <3>2. CASE window # Absent
      <4>1. window.since \in 0 .. Window /\ window.count \in 0 .. Limit
        BY <1>1, <3>2 DEF limiter!TypeOK, limiter!Windows
      <4>2. \/ Recent(Window) <= Limit + window.count
            \/ Recent(Window) <= Limit
        BY <1>2, <1>4, <3>2, <4>1 DEF LimiterIInv, WindowKept
      <4>3. QED
        BY <1>2, <4>1, <4>2
    <3>3. QED
      BY <3>1, <3>2
  <2>2. QED
    BY <1>1, <1>4, <2>1, InWindowIsSum
       DEF limiter!BurstBound, limiter!MostPerWindow, Recent
<1>5. CASE algorithm = "sliding-window-log"
  <2>1. log \in Seq(0 .. Window) /\ Len(log) <= Limit /\ Len(log) \in Nat
    BY <1>1 DEF limiter!TypeOK
  <2>2. Recent(Window) <= Len(log)
    BY <1>2, <1>5, <2>1, PlacesFinite DEF LimiterIInv, LogKept
  <2>3. Recent(Window) <= Limit
    BY <1>2, <2>1, <2>2
  <2>4. QED
    BY <1>1, <1>5, <2>3, InWindowIsSum
       DEF limiter!BurstBound, limiter!MostPerWindow, Recent
<1>6. CASE algorithm = "sliding-window-counter"
  <2>1. Recent(Window) <= Limit + limiter!CeilDiv(Limit * (Window - 2), Window)
    BY <1>6, CounterBound DEF LimiterIInv
  <2>2. QED
    BY <1>1, <1>6, <2>1, InWindowIsSum
       DEF limiter!BurstBound, limiter!MostPerWindow, Recent
<1>7. QED
  BY <1>1, <1>3, <1>4, <1>5, <1>6 DEF limiter!Algorithms

LEMMA LimiterKept ==
  /\ MCInit => LimiterIInv
  /\ LimiterIInv /\ [MCNext /\ UNCHANGED part]_<<part, ComposedVars, limiterVars>>
       => LimiterIInv'
<1>1. MCInit => LimiterIInv
  BY InitLimiter DEF MCInit
<1>2. ASSUME LimiterIInv, UNCHANGED limiterVars
      PROVE  LimiterIInv'
  BY <1>2 DEF limiterVars, LimiterIInv, limiter!TypeOK, BucketKept, WindowKept,
              LogKept, CounterKept, Recent, Tokens, Rolled
<1>3. QED
  BY <1>1, <1>2, LimiterStep DEF MCNext

(* The limiter: however calls are spread over window boundaries, refills and *)
(* expirations, no more than its algorithm promises are allowed within       *)
(* Window ticks, for every limit and window.                                 *)
THEOREM BurstsBounded == MCSpec => []BurstBound
<1>1. LimiterIInv => BurstBound
  BY WithinTheBound DEF BurstBound
<1>2. QED
  BY <1>1, LimiterKept, PTL DEF MCSpec

(* The limiter: whoever is denied used up the limit within the last window,  *)
(* and did not wait as told.                                                 *)
THEOREM DeniedForAReason == MCSpec => DenialsJustified
<1>1. LimiterIInv /\ [MCNext /\ UNCHANGED part]_<<part, ComposedVars, limiterVars>>
        => [limiter!Exact /\ answer' = "denied"
              => promise # 0 /\ limiter!InWindow' >= Limit]_(limiter!vars)
  <2>1. SUFFICES ASSUME LimiterIInv,
                        [MCNext /\ UNCHANGED part]_<<part, ComposedVars, limiterVars>>,
                        ~UNCHANGED limiter!vars
                 PROVE  limiter!Exact /\ answer' = "denied"
                          => promise # 0 /\ limiter!InWindow' >= Limit
    OBVIOUS
  <2>2. limiter!Next
    BY <2>1 DEF MCNext, limiterVars, limiter!vars, limiter!entries, limiter!history
  <2>3. limiter!InWindow' = Since(grants', Window)
    <3>1. (limiter!InWindow = Since(grants, Window))'
      BY InWindowIsSum, PTL
    <3>2. QED
      BY <3>1
  <2>4. QED
    BY <2>1, <2>2, <2>3, LimiterStep
<1>2. QED
  BY <1>1, LimiterKept, PTL DEF MCSpec, DenialsJustified, limiter!DenialsJustified
=============================================================================
