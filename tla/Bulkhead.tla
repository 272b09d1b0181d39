------------------------------- MODULE Bulkhead -------------------------------
(* The bulkhead of packages/reliability.  A caller is idle, waits in the     *)
(* queue or runs; when its call settles, resolved or rejected, it may call   *)
(* again.  active is the code's own count of what runs, running the truth.   *)
EXTENDS Naturals, Sequences, FiniteSets, SequencesExt

CONSTANTS Callers,
          MaxConcurrent,   \* config.maxConcurrent
          MaxQueue         \* config.maxQueue

(* What the theorems and ComposedCall assume.  With maxConcurrent = 0 every  *)
(* call would wait for ever.                                                 *)
BulkheadAssumption == MaxConcurrent \in Nat \ {0} /\ MaxQueue \in Nat

VARIABLES active,
          queue,     \* the callers of the queued tasks
          running    \* history: callers whose fn has started and not settled

vars == <<active, queue, running>>

TypeOK ==
  /\ active \in 0 .. MaxConcurrent
  /\ queue \in Seq(Callers)
  /\ running \subseteq Callers

Init == active = 0 /\ queue = <<>> /\ running = {}
-----------------------------------------------------------------------------
(* Faulty variants of the operators below, used to check that the            *)
(* properties can fail.                                                      *)
BeforeTheDecrement == queue # <<>> /\ active < MaxConcurrent
NotTakenOut(i) == queue
-----------------------------------------------------------------------------
(* The operators of the code.                                                *)
HasSlot == active < MaxConcurrent

QueueHasRoom == Len(queue) < MaxQueue

(* drainQueue(), called after active--: somebody waits and a slot is free.   *)
Drains == queue # <<>> /\ active - 1 < MaxConcurrent

TakenOut(i) == RemoveAt(queue, i)
-----------------------------------------------------------------------------
Idle(c) == c \notin running \cup ToSet(queue)

(* execute() with a free slot: run() counts the call and starts fn.          *)
Run(c) ==
  /\ Idle(c)
  /\ HasSlot
  /\ active' = active + 1
  /\ running' = running \cup {c}
  /\ UNCHANGED queue

Wait(c) ==
  /\ Idle(c)
  /\ ~HasSlot
  /\ QueueHasRoom
  /\ queue' = Append(queue, c)
  /\ UNCHANGED <<active, running>>

(* BulkheadRejectedError.                                                    *)
Reject(c) ==
  /\ Idle(c)
  /\ ~HasSlot
  /\ ~QueueHasRoom
  /\ UNCHANGED vars

(* fn settles; the finally block of run() gives the slot back and hands it   *)
(* to the queue in one uninterrupted step.                                   *)
Settle(c) ==
  /\ c \in running
  /\ IF Drains
       THEN /\ active' = active
            /\ running' = (running \ {c}) \cup {queue[1]}
            /\ queue' = TakenOut(1)
       ELSE /\ active' = active - 1
            /\ running' = running \ {c}
            /\ UNCHANGED queue

Next == \E c \in Callers : Run(c) \/ Wait(c) \/ Reject(c) \/ Settle(c)

Spec == Init /\ [][Next]_vars
-----------------------------------------------------------------------------
(* The count the admission decisions read is the number of calls that really *)
(* run, hence never more than MaxConcurrent, and the queue stays bounded.    *)
CapacityRespected ==
  /\ active = Cardinality(running)
  /\ Len(queue) <= MaxQueue

(* No slot is idle while a call waits: a freed slot is handed over before    *)
(* anyone can see it.                                                        *)
NoIdleSlot == queue # <<>> => active = MaxConcurrent

(* A queued call is queued once and has not started: it will run once.       *)
RunsOnce ==
  /\ \A i, j \in DOMAIN queue : queue[i] = queue[j] => i = j
  /\ ToSet(queue) \cap running = {}
=============================================================================
