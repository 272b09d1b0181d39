---------------------------- MODULE QueueContract ----------------------------
(* What MessageQueue promises to whoever sends a message through it, with no *)
(* mention of arrays, timers or consumers: at-least-once delivery with a     *)
(* bounded number of counted failures.  A message that was completed or      *)
(* buried never comes back, a message that was sent is never lost, and it is *)
(* buried exactly when it fails for the (MaxRetries + 1)-th time.            *)
EXTENDS Naturals

CONSTANTS Messages,    \* the messages that may ever be sent
          MaxRetries   \* failures a message survives

VARIABLES status,      \* where each message stands
          failures     \* counted failures of each message

vars == <<status, failures>>

Init ==
  /\ status = [m \in Messages |-> "unsent"]
  /\ failures = [m \in Messages |-> 0]

Move(m, from, to) ==
  /\ status[m] = from
  /\ status' = [status EXCEPT ![m] = to]

Send(m) == Move(m, "unsent", "waiting") /\ UNCHANGED failures

Deliver(m) == Move(m, "waiting", "held") /\ UNCHANGED failures

Complete(m) == Move(m, "held", "done") /\ UNCHANGED failures

(* The holder said nothing in time: back to waiting, and no failure counted. *)
Return(m) == Move(m, "held", "waiting") /\ UNCHANGED failures

Fail(m) ==
  /\ failures' = [failures EXCEPT ![m] = @ + 1]
  /\ IF failures[m] < MaxRetries
       THEN Move(m, "held", "waiting")
       ELSE Move(m, "held", "dead")

Next ==
  \E m \in Messages :
    Send(m) \/ Deliver(m) \/ Complete(m) \/ Return(m) \/ Fail(m)

Spec == Init /\ [][Next]_vars
=============================================================================
