----------------------------- MODULE MessageQueue -----------------------------
(* The in-memory queue of packages/messaging: enqueue, dequeue with its      *)
(* visibility timer, ack, nack with linear back-off and a dead-letter queue, *)
(* and the consume() loops that call them.  Messages are numbered in the     *)
(* order they are enqueued.  Time is relative: a delay, a timer and the time *)
(* a handler has been running are counters that Tick moves together.         *)
EXTENDS Naturals, Sequences, SequencesExt

CONSTANTS MaxMessages,        \* bound: how many messages are ever enqueued
          Delays,             \* the delayMs values callers use
          Consumers,          \* running consume() loops
          MaxRetries,         \* config.maxRetries
          RetryDelay,         \* config.retryDelayMs
          VisibilityTimeout,  \* config.visibilityTimeoutMs
          HandlerTime,        \* the longest a handler runs
          LateTimers          \* may the event loop fire a due timer late?

ASSUME QueueAssumption ==
  /\ MaxMessages \in Nat /\ MaxRetries \in Nat /\ RetryDelay \in Nat
  /\ VisibilityTimeout \in Nat /\ HandlerTime \in Nat
  /\ Delays \subseteq Nat /\ LateTimers \in BOOLEAN

Messages == 1 .. MaxMessages
None == 0

VARIABLES sent,             \* messages 1 .. sent have been enqueued
          queue,            \* pending messages, in array order
          inFlight,         \* dequeued, neither settled nor returned
          deadLetterQueue,  \* messages that exhausted their retries
          attempts,         \* counted failures of each message
          wait,             \* time until availableAt
          timers,           \* pending setTimeouts of dequeue, oldest first
          handling,         \* the message each loop awaits its handler for
          busy,             \* for how long
          stopped,          \* loops whose stop function was called
          delivered         \* history: messages dequeued at least once

queueVars == <<sent, queue, inFlight, deadLetterQueue, attempts, wait>>
loopVars == <<handling, busy, stopped>>
vars == <<queueVars, timers, loopVars, delivered>>

TypeOK ==
  /\ sent \in 0 .. MaxMessages
  /\ queue \in Seq(Messages)
  /\ inFlight \subseteq Messages
  /\ deadLetterQueue \subseteq Messages
  /\ attempts \in [Messages -> 0 .. MaxRetries + 1]
  /\ wait \in [Messages -> Nat]
  /\ timers \in Seq([msg : Messages, left : 0 .. VisibilityTimeout])
  /\ handling \in [Consumers -> Messages \cup {None}]
  /\ busy \in [Consumers -> 0 .. HandlerTime]
  /\ stopped \in [Consumers -> BOOLEAN]
  /\ delivered \subseteq Messages

Init ==
  /\ sent = 0
  /\ queue = <<>>
  /\ inFlight = {}
  /\ deadLetterQueue = {}
  /\ attempts = [m \in Messages |-> 0]
  /\ wait = [m \in Messages |-> 0]
  /\ timers = <<>>
  /\ handling = [c \in Consumers |-> None]
  /\ busy = [c \in Consumers |-> 0]
  /\ stopped = [c \in Consumers |-> FALSE]
  /\ delivered = {}
-----------------------------------------------------------------------------
(* Faulty variants of the operators below, used to check that the           *)
(* properties can fail.                                                      *)
AnyReady(i) == wait[queue[i]] = 0
WithoutLookingUp(m) == TRUE
OneRetryTooMany(n) == n > MaxRetries + 1
OneRetryTooFew(n) == n >= MaxRetries
Uncounted(m) == attempts[m]
NoBackOff(n) == 0
-----------------------------------------------------------------------------
(* The operators of the code.                                                *)

(* findIndex of dequeue: the first message whose availableAt has passed.     *)
IsFirstReady(i) ==
  /\ wait[queue[i]] = 0
  /\ \A j \in 1 .. i - 1 : wait[queue[j]] # 0

(* The test the visibility timer and nack make before touching a message.    *)
StillInFlight(m) == m \in inFlight

FailureCount(m) == attempts[m] + 1

RetriesExhausted(n) == n > MaxRetries

BackOff(n) == RetryDelay * n
-----------------------------------------------------------------------------
Enqueue(delay) ==
  /\ sent < MaxMessages
  /\ sent' = sent + 1
  /\ queue' = Append(queue, sent + 1)
  /\ wait' = [wait EXCEPT ![sent + 1] = delay]
  /\ UNCHANGED <<inFlight, deadLetterQueue, attempts, timers, loopVars, delivered>>

(* dequeue() of the message at index i, by any caller.                       *)
Dequeue(i) ==
  /\ IsFirstReady(i)
  /\ queue' = RemoveAt(queue, i)
  /\ inFlight' = inFlight \cup {queue[i]}
  /\ timers' = Append(timers, [msg |-> queue[i], left |-> VisibilityTimeout])
  /\ delivered' = delivered \cup {queue[i]}
  /\ UNCHANGED <<sent, deadLetterQueue, attempts, wait>>

(* One turn of a consume() loop that finds a message.  A turn that finds     *)
(* none, or that sees the loop stopped, changes nothing.                     *)
Poll(c) ==
  /\ ~stopped[c]
  /\ handling[c] = None
  /\ \E i \in DOMAIN queue :
       /\ Dequeue(i)
       /\ handling' = [handling EXCEPT ![c] = queue[i]]
  /\ UNCHANGED <<busy, stopped>>

Finish(c) ==
  /\ handling[c] # None
  /\ handling' = [handling EXCEPT ![c] = None]
  /\ busy' = [busy EXCEPT ![c] = 0]
  /\ UNCHANGED <<sent, timers, stopped, delivered>>

Ack(m) ==
  /\ inFlight' = inFlight \ {m}
  /\ UNCHANGED <<queue, deadLetterQueue, attempts, wait>>

Retry(m) ==
  /\ StillInFlight(m)
  /\ ~RetriesExhausted(FailureCount(m))
  /\ inFlight' = inFlight \ {m}
  /\ attempts' = [attempts EXCEPT ![m] = FailureCount(m)]
  /\ wait' = [wait EXCEPT ![m] = BackOff(FailureCount(m))]
  /\ queue' = Append(queue, m)
  /\ UNCHANGED deadLetterQueue

DeadLetter(m) ==
  /\ StillInFlight(m)
  /\ RetriesExhausted(FailureCount(m))
  /\ inFlight' = inFlight \ {m}
  /\ attempts' = [attempts EXCEPT ![m] = FailureCount(m)]
  /\ deadLetterQueue' = deadLetterQueue \cup {m}
  /\ UNCHANGED <<queue, wait>>

(* nack() of a message that already went back to the queue is ignored.       *)
NackIgnored(m) ==
  /\ ~StillInFlight(m)
  /\ UNCHANGED <<queue, inFlight, deadLetterQueue, attempts, wait>>

Nack(m) == Retry(m) \/ DeadLetter(m) \/ NackIgnored(m)

HandlerSucceeds(c) == Finish(c) /\ Ack(handling[c])

HandlerFails(c) == Finish(c) /\ Nack(handling[c])

(* The oldest visibility timer fires: timers of one queue have one duration, *)
(* so they fire in the order they were set.                                  *)
Timeout ==
  /\ timers # <<>>
  /\ Head(timers).left = 0
  /\ timers' = Tail(timers)
  /\ LET m == Head(timers).msg
     IN  IF StillInFlight(m)
           THEN inFlight' = inFlight \ {m} /\ queue' = Append(queue, m)
           ELSE UNCHANGED <<inFlight, queue>>
  /\ UNCHANGED <<sent, deadLetterQueue, attempts, wait, loopVars, delivered>>

Stop(c) ==
  /\ ~stopped[c]
  /\ stopped' = [stopped EXCEPT ![c] = TRUE]
  /\ UNCHANGED <<queueVars, timers, handling, busy, delivered>>

OneLess(n) == IF n = 0 THEN 0 ELSE n - 1

(* Time passes: never beyond the longest handler, and, unless timers may be  *)
(* late, never past a due timer.                                             *)
Tick ==
  /\ \A c \in Consumers : handling[c] # None => busy[c] < HandlerTime
  /\ LateTimers \/ \A i \in DOMAIN timers : timers[i].left > 0
  /\ wait' = [m \in Messages |-> OneLess(wait[m])]
  /\ timers' = [i \in DOMAIN timers |->
                  [msg |-> timers[i].msg, left |-> OneLess(timers[i].left)]]
  /\ busy' = [c \in Consumers |->
                IF handling[c] = None THEN 0 ELSE busy[c] + 1]
  /\ UNCHANGED <<sent, queue, inFlight, deadLetterQueue, attempts, handling,
                 stopped, delivered>>

Next ==
  \/ \E delay \in Delays : Enqueue(delay)
  \/ \E c \in Consumers :
       Poll(c) \/ HandlerSucceeds(c) \/ HandlerFails(c) \/ Stop(c)
  \/ Timeout
  \/ Tick

Spec == Init /\ [][Next]_vars

(* The event loop keeps running timers and polls, handlers return, and the   *)
(* clock moves.  Nobody is obliged to enqueue or to stop a loop.             *)
Fairness ==
  /\ WF_vars(Tick)
  /\ WF_vars(Timeout)
  /\ \A c \in Consumers :
       WF_vars(Poll(c)) /\ WF_vars(HandlerSucceeds(c) \/ HandlerFails(c))

FairSpec == Spec /\ Fairness
-----------------------------------------------------------------------------
Enqueued == 1 .. sent
Acknowledged(m) ==
  m \in Enqueued /\ m \notin ToSet(queue) \cup inFlight \cup deadLetterQueue

(* Every message is in at most one place and there once: the pending array,  *)
(* the in-flight map or the dead-letter queue.  Two visibility timers, a     *)
(* late nack or a late ack never duplicate a message.                        *)
OnePlace ==
  /\ \A i, j \in DOMAIN queue : queue[i] = queue[j] => i = j
  /\ ToSet(queue) \cap inFlight = {}
  /\ deadLetterQueue \cap (ToSet(queue) \cup inFlight) = {}

(* First deliveries are FIFO: a message is dequeued for the first time only  *)
(* when no message enqueued before it, and due, still waits for its first    *)
(* delivery.  Retries and returns re-enter at the tail and never break this. *)
FifoFirstDelivery ==
  [][\A m \in (delivered' \ delivered) : \A e \in 1 .. m - 1 :
       e \notin delivered => wait[e] > 0]_vars

(* The message comes back to the queue without a nack only when the timer of *)
(* its newest delivery is due (QueueConfig.visibilityTimeoutMs: how long a   *)
(* message is hidden while being processed).                                 *)
HiddenWhileProcessed ==
  [][\A m \in inFlight : m \in ToSet(queue') /\ attempts' = attempts =>
       \A i \in DOMAIN timers : timers[i].msg = m => timers[i].left = 0]_vars

Settled(m) ==
  \/ Acknowledged(m)
  \/ m \in deadLetterQueue
  \/ \A c \in Consumers : stopped[c]

(* The queue implements its contract.                                        *)
Status(m) ==
  IF m \notin Enqueued THEN "unsent"
  ELSE IF m \in deadLetterQueue THEN "dead"
  ELSE IF m \in inFlight THEN "held"
  ELSE IF m \in ToSet(queue) THEN "waiting" ELSE "done"

Contract == INSTANCE QueueContract
              WITH status <- [m \in Messages |-> Status(m)],
                   failures <- attempts

(* At-least-once delivery: no message is lost, an acknowledged or            *)
(* dead-lettered message never returns, and a message is dead-lettered at    *)
(* its (MaxRetries + 1)-th counted failure and not before.                   *)
ImplementsContract == Contract!Spec
=============================================================================
