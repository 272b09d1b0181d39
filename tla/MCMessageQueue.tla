--------------------------- MODULE MCMessageQueue ---------------------------
(* Instances of MessageQueue for TLC, in two regimes.  The first allows late *)
(* timers and handlers that outlive the visibility timeout.  In the punctual *)
(* one timers fire on time and handlers end within Quick.                    *)
EXTENDS MessageQueue

CONSTANT Quick

ASSUME QuickAssumption == Quick \in Nat

VARIABLE punctual

MCInit == Init /\ punctual \in BOOLEAN

OnTime ==
  /\ \A c \in Consumers : busy'[c] <= Quick
  /\ Tick => \A i \in DOMAIN timers : timers[i].left > 0

MCNext == Next /\ (punctual => OnTime) /\ UNCHANGED punctual

MCSpec == MCInit /\ [][MCNext]_<<vars, punctual>> /\ Fairness

(* The timer of a delivery is not cancelled by its nack, and a retry that    *)
(* comes before it fires is cut short by it: see HiddenWhileProcessed.       *)
RetryTooSoon(m) == attempts[m] > 0 /\ RetryDelay <= VisibilityTimeout

(* Where handlers end within the visibility timeout and timers are prompt,   *)
(* no two loops handle one message at the same time, however they poll, fail *)
(* and are stopped; but for a message that failed before, where a retry may  *)
(* come within the visibility timeout.                                       *)
OneHandlerAtATime ==
  punctual /\ Quick < VisibilityTimeout =>
    \A m \in Messages : ~RetryTooSoon(m) =>
      \A c, d \in Consumers : handling[c] = m /\ handling[d] = m => c = d

(* Under punctual handlers and timers every message ends up acknowledged or  *)
(* dead-lettered, unless all consumers are stopped.  A nack that finds its   *)
(* message timed out counts no attempt, so late handlers may go on for ever. *)
EveryMessageSettles ==
  \A m \in Messages : punctual /\ m \in Enqueued ~> Settled(m)
=============================================================================
