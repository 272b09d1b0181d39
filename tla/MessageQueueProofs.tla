-------------------------- MODULE MessageQueueProofs --------------------------
(* Proofs about MessageQueue for every number of messages and consumers, any *)
(* configuration, prompt or late timers.                                     *)
EXTENDS MCMessageQueue, CollectionLemmas

(* The inductive invariant.  A message that may still fail has failures left *)
(* to count, or attempts could pass MaxRetries + 1; and what is stored       *)
(* anywhere has been enqueued, or a fresh message could already be present.  *)
PlacesEnqueued == ToSet(queue) \cup inFlight \cup deadLetterQueue \subseteq Enqueued

RetriesLeft ==
  \A m \in Messages : m \notin deadLetterQueue => attempts[m] <= MaxRetries

IInv == TypeOK /\ OnePlace /\ PlacesEnqueued /\ RetriesLeft

LEMMA InitIInv == Init => IInv
<1>. SUFFICES ASSUME Init PROVE IInv
  OBVIOUS
<1>. USE QueueAssumption DEF Init
<1>1. ToSet(queue) = {}
  BY DEF ToSet
<1>2. TypeOK
  BY DEF TypeOK, Messages
<1>3. QED
  BY <1>1, <1>2 DEF IInv, OnePlace, PlacesEnqueued, RetriesLeft, Messages

(* Enqueue puts a message that is nowhere at the end of the queue.           *)
LEMMA EnqueueIInv ==
  ASSUME IInv, NEW delay \in Delays, Enqueue(delay)
  PROVE  IInv' /\ ToSet(queue)' = ToSet(queue) \cup {sent + 1}
<1>. USE QueueAssumption
<1>1. /\ sent + 1 \in Messages /\ sent + 1 \notin Enqueued
      /\ queue \in Seq(Messages) /\ queue' = Append(queue, sent + 1)
      /\ sent \in Nat
  BY DEF IInv, TypeOK, Enqueue, Messages, Enqueued
<1>2. ToSet(queue)' = ToSet(queue) \cup {sent + 1}
  BY <1>1, AppendRange
<1>3. TypeOK'
  BY <1>1 DEF IInv, TypeOK, Enqueue, loopVars
<1>4. OnePlace'
  <2>1. sent + 1 \notin ToSet(queue) \cup inFlight \cup deadLetterQueue
    BY <1>1 DEF IInv, PlacesEnqueued
  <2>2. \A j, k \in DOMAIN queue' : queue'[j] = queue'[k] => j = k
    BY <1>1, <2>1, AppendRange DEF IInv, OnePlace
  <2>3. QED
    BY <1>2, <2>1, <2>2 DEF IInv, OnePlace, Enqueue
<1>5. PlacesEnqueued'
  BY <1>1, <1>2 DEF IInv, PlacesEnqueued, Enqueued, Enqueue
<1>6. RetriesLeft'
  BY DEF IInv, RetriesLeft, Enqueue
<1>7. QED
  BY <1>2, <1>3, <1>4, <1>5, <1>6 DEF IInv

(* Dequeue moves one message from the queue to the in-flight set.            *)
LEMMA DequeueRange ==
  ASSUME IInv, NEW i \in DOMAIN queue, Dequeue(i)
  PROVE  /\ queue[i] \in ToSet(queue) /\ queue[i] \in Messages
         /\ queue' \in Seq(Messages)
         /\ ToSet(queue)' = ToSet(queue) \ {queue[i]}
         /\ \A j, k \in DOMAIN queue' : queue'[j] = queue'[k] => j = k
<1>1. queue \in Seq(Messages) /\ queue' = RemoveAt(queue, i)
  BY DEF IInv, TypeOK, Dequeue
<1>2. \A j, k \in DOMAIN queue : queue[j] = queue[k] => j = k
  BY DEF IInv, OnePlace
<1>3. queue[i] \in ToSet(queue) /\ queue[i] \in Messages
  BY <1>1 DEF ToSet
<1>4. queue' \in Seq(Messages)
  BY <1>1, RemoveAtProperties
<1>5. QED
  BY <1>1, <1>2, <1>3, <1>4, RemoveAtRange

LEMMA PollIInv ==
  ASSUME IInv, NEW c \in Consumers, Poll(c)
  PROVE  IInv'
<1>. USE QueueAssumption
<1>1. PICK i \in DOMAIN queue : /\ Dequeue(i)
                               /\ handling' = [handling EXCEPT ![c] = queue[i]]
  BY DEF Poll
<1>2. /\ queue[i] \in ToSet(queue) /\ queue[i] \in Messages
      /\ queue' \in Seq(Messages)
      /\ ToSet(queue)' = ToSet(queue) \ {queue[i]}
      /\ \A j, k \in DOMAIN queue' : queue'[j] = queue'[k] => j = k
  BY <1>1, DequeueRange
<1>3. TypeOK'
  <2>1. [msg |-> queue[i], left |-> VisibilityTimeout]
          \in [msg : Messages, left : 0 .. VisibilityTimeout]
    BY <1>2
  <2>2. timers' \in Seq([msg : Messages, left : 0 .. VisibilityTimeout])
    BY <1>1, <2>1, AppendProperties DEF IInv, TypeOK, Dequeue
  <2>3. QED
    BY <1>1, <1>2, <2>2 DEF IInv, TypeOK, Dequeue, Poll
<1>4. OnePlace'
  BY <1>1, <1>2 DEF IInv, OnePlace, Dequeue
<1>5. PlacesEnqueued' /\ RetriesLeft'
  BY <1>1, <1>2 DEF IInv, PlacesEnqueued, RetriesLeft, Enqueued, Dequeue
<1>6. QED
  BY <1>3, <1>4, <1>5 DEF IInv

(* An in-flight message goes back to the end of the queue.                   *)
LEMMA GiveBack ==
  ASSUME IInv, NEW m \in inFlight,
         queue' = Append(queue, m), inFlight' = inFlight \ {m},
         UNCHANGED <<sent, deadLetterQueue>>
  PROVE  /\ m \in Messages /\ m \notin ToSet(queue) /\ m \notin deadLetterQueue
         /\ queue' \in Seq(Messages) /\ inFlight' \subseteq Messages
         /\ ToSet(queue)' = ToSet(queue) \cup {m}
         /\ OnePlace' /\ PlacesEnqueued'
<1>1. /\ m \in Messages /\ queue \in Seq(Messages) /\ inFlight \subseteq Messages
  BY DEF IInv, TypeOK
<1>2. m \notin ToSet(queue) /\ m \notin deadLetterQueue
  BY DEF IInv, OnePlace
<1>3. ToSet(queue)' = ToSet(queue) \cup {m}
  BY <1>1, AppendRange
<1>4. \A j, k \in DOMAIN queue' : queue'[j] = queue'[k] => j = k
  BY <1>1, <1>2, AppendRange DEF IInv, OnePlace
<1>5. queue' \in Seq(Messages)
  BY <1>1, AppendProperties
<1>6. OnePlace'
  BY <1>2, <1>3, <1>4 DEF IInv, OnePlace
<1>7. PlacesEnqueued'
  BY <1>3 DEF IInv, PlacesEnqueued, Enqueued
<1>8. QED
  BY <1>1, <1>2, <1>3, <1>5, <1>6, <1>7

LEMMA SuccessIInv ==
  ASSUME IInv, NEW c \in Consumers, HandlerSucceeds(c)
  PROVE  IInv'
<1>. USE QueueAssumption DEF HandlerSucceeds, Finish, Ack, IInv
<1>1. TypeOK'
  BY DEF TypeOK
<1>2. OnePlace' /\ PlacesEnqueued' /\ RetriesLeft'
  BY DEF OnePlace, PlacesEnqueued, Enqueued, RetriesLeft
<1>3. QED
  BY <1>1, <1>2

LEMMA FailureIInv ==
  ASSUME IInv, NEW c \in Consumers, HandlerFails(c)
  PROVE  IInv'
<1>. DEFINE m == handling[c]
<1>. USE QueueAssumption
<1>1. m \in Messages
  BY DEF IInv, TypeOK, HandlerFails, Finish
<1>2. /\ handling' \in [Consumers -> Messages \cup {None}]
      /\ busy' \in [Consumers -> 0 .. HandlerTime]
      /\ UNCHANGED <<sent, timers, stopped, delivered>>
  BY DEF IInv, TypeOK, HandlerFails, Finish
<1>3. CASE Retry(m)
  <2>1. /\ m \in inFlight /\ queue' = Append(queue, m)
        /\ inFlight' = inFlight \ {m} /\ deadLetterQueue' = deadLetterQueue
    BY <1>3 DEF Retry, StillInFlight
  <2>2. attempts[m] + 1 <= MaxRetries /\ attempts[m] + 1 \in 0 .. MaxRetries + 1
    BY <1>1, <1>3 DEF IInv, TypeOK, Retry, RetriesExhausted, FailureCount
  <2>3. /\ attempts' = [attempts EXCEPT ![m] = attempts[m] + 1]
        /\ wait' = [wait EXCEPT ![m] = RetryDelay * (attempts[m] + 1)]
    BY <1>3 DEF Retry, FailureCount, BackOff
  <2>4. /\ queue' \in Seq(Messages) /\ inFlight' \subseteq Messages
        /\ OnePlace' /\ PlacesEnqueued'
    BY <1>2, <2>1, GiveBack
  <2>5. TypeOK'
    <3>1. RetryDelay * (attempts[m] + 1) \in Nat
      BY <2>2
    <3>2. QED
      BY <1>1, <1>2, <2>1, <2>2, <2>3, <2>4, <3>1 DEF IInv, TypeOK
  <2>6. RetriesLeft'
    BY <1>1, <2>1, <2>2, <2>3 DEF IInv, TypeOK, RetriesLeft
  <2>7. QED
    BY <2>4, <2>5, <2>6 DEF IInv
<1>4. CASE DeadLetter(m)
  <2>1. /\ m \in inFlight /\ inFlight' = inFlight \ {m}
        /\ deadLetterQueue' = deadLetterQueue \cup {m}
        /\ attempts' = [attempts EXCEPT ![m] = attempts[m] + 1]
        /\ UNCHANGED <<queue, wait>>
    BY <1>4 DEF DeadLetter, StillInFlight, FailureCount
  <2>2. attempts[m] + 1 \in 0 .. MaxRetries + 1
    BY <1>1, <2>1 DEF IInv, TypeOK, OnePlace, RetriesLeft
  <2>3. TypeOK'
    BY <1>1, <1>2, <2>1, <2>2 DEF IInv, TypeOK
  <2>4. OnePlace' /\ PlacesEnqueued'
    BY <1>2, <2>1 DEF IInv, OnePlace, PlacesEnqueued, Enqueued
  <2>5. RetriesLeft'
    BY <1>1, <2>1 DEF IInv, TypeOK, RetriesLeft
  <2>6. QED
    BY <2>3, <2>4, <2>5 DEF IInv
<1>5. CASE NackIgnored(m)
  BY <1>2, <1>5 DEF NackIgnored, IInv, TypeOK, OnePlace, PlacesEnqueued,
                    RetriesLeft, Enqueued
<1>6. QED
  BY <1>3, <1>4, <1>5 DEF HandlerFails, Nack

LEMMA TimeoutIInv ==
  ASSUME IInv, Timeout
  PROVE  IInv'
<1>. DEFINE m == Head(timers).msg
<1>. USE QueueAssumption
<1>1. timers' \in Seq([msg : Messages, left : 0 .. VisibilityTimeout])
  BY HeadTailProperties DEF IInv, TypeOK, Timeout
<1>2. UNCHANGED <<sent, deadLetterQueue, attempts, wait, loopVars, delivered>>
  BY DEF Timeout
<1>3. CASE m \in inFlight
  <2>1. inFlight' = inFlight \ {m} /\ queue' = Append(queue, m)
    BY <1>3 DEF Timeout, StillInFlight
  <2>2. /\ queue' \in Seq(Messages) /\ inFlight' \subseteq Messages
        /\ OnePlace' /\ PlacesEnqueued'
    BY <1>2, <1>3, <2>1, GiveBack
  <2>3. TypeOK' /\ RetriesLeft'
    BY <1>1, <1>2, <2>2 DEF IInv, TypeOK, RetriesLeft, loopVars
  <2>4. QED
    BY <2>2, <2>3 DEF IInv
<1>4. CASE m \notin inFlight
  <2>1. UNCHANGED <<inFlight, queue>>
    BY <1>4 DEF Timeout, StillInFlight
  <2>2. QED
    BY <1>1, <1>2, <2>1 DEF IInv, TypeOK, OnePlace, PlacesEnqueued,
                            RetriesLeft, Enqueued, loopVars
<1>5. QED
  BY <1>3, <1>4

LEMMA TickIInv ==
  ASSUME IInv, Tick
  PROVE  IInv'
<1>. USE QueueAssumption
<1>1. \A n \in Nat : OneLess(n) \in 0 .. n
  BY DEF OneLess
<1>2. wait' \in [Messages -> Nat]
  BY <1>1 DEF IInv, TypeOK, Tick
<1>3. busy' \in [Consumers -> 0 .. HandlerTime]
  BY DEF IInv, TypeOK, Tick
<1>4. timers' \in Seq([msg : Messages, left : 0 .. VisibilityTimeout])
  <2>1. /\ timers \in Seq([msg : Messages, left : 0 .. VisibilityTimeout])
        /\ DOMAIN timers = 1 .. Len(timers) /\ Len(timers) \in Nat
    BY DEF IInv, TypeOK
  <2>2. \A i \in 1 .. Len(timers) :
          [msg |-> timers[i].msg, left |-> OneLess(timers[i].left)]
            \in [msg : Messages, left : 0 .. VisibilityTimeout]
    <3>1. TAKE i \in 1 .. Len(timers)
    <3>2. timers[i] \in [msg : Messages, left : 0 .. VisibilityTimeout]
      BY <2>1, ElementOfSeq
    <3>3. OneLess(timers[i].left) \in 0 .. VisibilityTimeout
      BY <3>2 DEF OneLess
    <3>4. QED
      BY <3>2, <3>3
  <2>3. timers' = [i \in 1 .. Len(timers) |->
                     [msg |-> timers[i].msg, left |-> OneLess(timers[i].left)]]
    BY <2>1 DEF Tick
  <2>4. QED
    BY <2>1, <2>2, <2>3, IsASeq
<1>5. TypeOK'
  BY <1>2, <1>3, <1>4 DEF IInv, TypeOK, Tick
<1>6. QED
  BY <1>5 DEF IInv, OnePlace, PlacesEnqueued, RetriesLeft, Enqueued, Tick

LEMMA NextIInv == IInv /\ [Next]_vars => IInv'
<1>. SUFFICES ASSUME IInv, [Next]_vars PROVE IInv'
  OBVIOUS
<1>1. CASE \E delay \in Delays : Enqueue(delay)
  BY <1>1, EnqueueIInv
<1>2. ASSUME NEW c \in Consumers, Stop(c) PROVE IInv'
  BY <1>2 DEF Stop, queueVars, IInv, TypeOK, OnePlace, PlacesEnqueued,
              RetriesLeft, Enqueued
<1>3. CASE UNCHANGED vars
  BY <1>3 DEF vars, queueVars, loopVars, IInv, TypeOK, OnePlace,
              PlacesEnqueued, RetriesLeft, Enqueued
<1>4. QED
  BY <1>1, <1>2, <1>3, PollIInv, SuccessIInv, FailureIInv, TimeoutIInv,
     TickIInv DEF Next

(* IInv holds in every reachable state.                                      *)
THEOREM Invariance == Spec => []IInv
  BY InitIInv, NextIInv, PTL DEF Spec

(* The variables always have their types: in particular no message counts    *)
(* more than MaxRetries + 1 failures, whatever timers and late nacks do.     *)
THEOREM TypeCorrect == Spec => []TypeOK
<1>1. IInv => TypeOK
  BY DEF IInv
<1>2. QED
  BY <1>1, Invariance, PTL

(* A message is never in two places, nor twice in one: dequeue, ack, nack    *)
(* and the visibility timers of all its deliveries together neither          *)
(* duplicate it nor revive a dead-lettered one.                              *)
THEOREM NeverDuplicated == Spec => []OnePlace
<1>1. IInv => OnePlace
  BY DEF IInv
<1>2. QED
  BY <1>1, Invariance, PTL
-----------------------------------------------------------------------------
(* First deliveries.  What was never delivered waits in the queue, in the    *)
(* order it was enqueued: whatever comes back was delivered before.          *)
FirstsInOrder ==
  \A i, j \in DOMAIN queue :
    i < j /\ queue[i] \notin delivered /\ queue[j] \notin delivered
      => queue[i] < queue[j]

FirstsWait ==
  inFlight \subseteq delivered /\ Enqueued \ delivered \subseteq ToSet(queue)

FifoIInv == IInv /\ FirstsWait /\ FirstsInOrder

(* A message that was delivered before may go to the end.                    *)
LEMMA BackAtTheEnd ==
  ASSUME FifoIInv, NEW m \in delivered \cap Messages, queue' = Append(queue, m),
         inFlight' \subseteq inFlight, UNCHANGED <<sent, delivered>>
  PROVE  (FirstsWait /\ FirstsInOrder)'
<1>1. /\ queue \in Seq(Messages) /\ Len(queue) \in Nat
      /\ DOMAIN queue = 1 .. Len(queue)
  BY DEF FifoIInv, IInv, TypeOK
<1>2. /\ Len(queue') = Len(queue) + 1 /\ DOMAIN queue' = 1 .. Len(queue) + 1
      /\ \A i \in 1 .. Len(queue) : queue'[i] = queue[i]
      /\ queue'[Len(queue) + 1] = m
  BY <1>1
<1>3. ToSet(queue') = ToSet(queue) \cup {m}
  BY <1>1, AppendRange
<1>4. FirstsWait'
  BY <1>3 DEF FifoIInv, FirstsWait, Enqueued
<1>5. FirstsInOrder'
  <2>1. SUFFICES ASSUME NEW i \in DOMAIN queue', NEW j \in DOMAIN queue', i < j,
                        queue'[i] \notin delivered, queue'[j] \notin delivered
                 PROVE  queue'[i] < queue'[j]
    BY DEF FirstsInOrder
  <2>2. i \in DOMAIN queue /\ j \in DOMAIN queue
    BY <1>1, <1>2, <2>1
  <2>3. QED
    BY <1>1, <1>2, <2>1, <2>2 DEF FifoIInv, FirstsInOrder
<1>6. QED
  BY <1>4, <1>5

LEMMA NextFifo == FifoIInv /\ [Next]_vars => (FirstsWait /\ FirstsInOrder)'
<1>. SUFFICES ASSUME FifoIInv, [Next]_vars PROVE (FirstsWait /\ FirstsInOrder)'
  OBVIOUS
<1>0. /\ queue \in Seq(Messages) /\ Len(queue) \in Nat /\ sent \in Nat
      /\ DOMAIN queue = 1 .. Len(queue) /\ IInv
      /\ \A i \in DOMAIN queue : queue[i] \in 1 .. sent
  <2>1. /\ queue \in Seq(Messages) /\ sent \in Nat /\ IInv
        /\ ToSet(queue) \subseteq 1 .. sent
    BY DEF FifoIInv, IInv, TypeOK, PlacesEnqueued, Enqueued
  <2>2. QED
    BY <2>1 DEF ToSet
<1>1. ASSUME NEW delay \in Delays, Enqueue(delay)
      PROVE  (FirstsWait /\ FirstsInOrder)'
  <2>1. /\ ToSet(queue)' = ToSet(queue) \cup {sent + 1}
        /\ queue' = Append(queue, sent + 1) /\ sent' = sent + 1
        /\ UNCHANGED <<inFlight, delivered>>
    BY <1>0, <1>1, EnqueueIInv DEF Enqueue
  <2>2. FirstsWait'
    BY <1>0, <2>1 DEF FifoIInv, FirstsWait, Enqueued
  <2>3. /\ DOMAIN queue' = 1 .. Len(queue) + 1
        /\ \A i \in 1 .. Len(queue) : queue'[i] = queue[i]
        /\ queue'[Len(queue) + 1] = sent + 1
    BY <1>0, <2>1
  <2>4. FirstsInOrder'
    <3>1. SUFFICES ASSUME NEW i \in DOMAIN queue', NEW j \in DOMAIN queue', i < j,
                          queue'[i] \notin delivered, queue'[j] \notin delivered
                   PROVE  queue'[i] < queue'[j]
      BY <2>1 DEF FirstsInOrder
    <3>2. CASE j \in DOMAIN queue
      <4>1. i \in DOMAIN queue
        BY <1>0, <2>3, <3>1, <3>2
      <4>2. QED
        BY <1>0, <2>3, <3>1, <3>2, <4>1 DEF FifoIInv, FirstsInOrder
    <3>3. CASE j = Len(queue) + 1
      <4>1. i \in DOMAIN queue
        BY <1>0, <2>3, <3>1, <3>3
      <4>2. queue'[i] \in 1 .. sent /\ queue'[j] = sent + 1
        BY <1>0, <2>3, <3>3, <4>1
      <4>3. QED
        BY <1>0, <4>2
    <3>4. QED
      BY <1>0, <2>3, <3>2, <3>3
  <2>5. QED
    BY <2>2, <2>4
<1>2. ASSUME NEW c \in Consumers, Poll(c)
      PROVE  (FirstsWait /\ FirstsInOrder)'
  <2>1. PICK n \in DOMAIN queue : Dequeue(n)
    BY <1>2 DEF Poll
  <2>2. /\ queue' = RemoveAt(queue, n) /\ inFlight' = inFlight \cup {queue[n]}
        /\ delivered' = delivered \cup {queue[n]} /\ sent' = sent
    BY <2>1 DEF Dequeue
  <2>3. ToSet(queue)' = ToSet(queue) \ {queue[n]}
    BY <1>0, <2>1, DequeueRange
  <2>4. FirstsWait'
    BY <2>2, <2>3 DEF FifoIInv, FirstsWait, Enqueued
  <2>5. /\ Len(queue') = Len(queue) - 1 /\ queue' \in Seq(Messages)
        /\ \A i \in 1 .. Len(queue) - 1 :
             queue'[i] = IF i < n THEN queue[i] ELSE queue[i + 1]
    BY <1>0, <2>2, RemoveAtProperties
  <2>6. FirstsInOrder'
    <3>1. SUFFICES ASSUME NEW i \in DOMAIN queue', NEW j \in DOMAIN queue', i < j,
                          queue'[i] \notin delivered', queue'[j] \notin delivered'
                   PROVE  queue'[i] < queue'[j]
      BY DEF FirstsInOrder
    <3>2. i \in 1 .. Len(queue) - 1 /\ j \in 1 .. Len(queue) - 1 /\ n \in 1 .. Len(queue)
      BY <1>0, <2>5
    <3>0. ASSUME NEW k \in 1 .. Len(queue) - 1
          PROVE  \E p \in DOMAIN queue : queue'[k] = queue[p] /\ p = IF k < n THEN k ELSE k + 1
      <4>1. queue'[k] = IF k < n THEN queue[k] ELSE queue[k + 1]
        BY <2>5
      <4>2. Len(queue) \in Nat /\ DOMAIN queue = 1 .. Len(queue)
        BY <1>0
      <4>3. k \in DOMAIN queue /\ k + 1 \in DOMAIN queue
        BY <4>2
      <4>4. QED
        BY <4>1, <4>3
    <3>3. PICK p \in DOMAIN queue : queue'[i] = queue[p] /\ p = IF i < n THEN i ELSE i + 1
      BY <3>0, <3>2
    <3>4. PICK q \in DOMAIN queue : queue'[j] = queue[q] /\ q = IF j < n THEN j ELSE j + 1
      BY <3>0, <3>2
    <3>5. p < q
      BY <3>1, <3>2, <3>3, <3>4
    <3>6. queue[p] \notin delivered /\ queue[q] \notin delivered
      BY <2>2, <3>1, <3>3, <3>4
    <3>7. QED
      BY <3>3, <3>4, <3>5, <3>6 DEF FifoIInv, FirstsInOrder
  <2>7. QED
    BY <2>4, <2>6
<1>3. CASE Timeout
  <2>1. UNCHANGED <<sent, delivered>>
    BY <1>3 DEF Timeout
  <2>2. CASE Head(timers).msg \in inFlight
    <3>1. /\ queue' = Append(queue, Head(timers).msg) /\ inFlight' \subseteq inFlight
          /\ Head(timers).msg \in delivered \cap Messages
      BY <1>3, <2>2 DEF Timeout, StillInFlight, FifoIInv, IInv, TypeOK, FirstsWait
    <3>2. QED
      BY <2>1, <3>1, BackAtTheEnd
  <2>3. CASE Head(timers).msg \notin inFlight
    BY <1>3, <2>1, <2>3 DEF Timeout, StillInFlight, FifoIInv, FirstsWait,
       FirstsInOrder, Enqueued
  <2>4. QED
    BY <2>2, <2>3
<1>4. ASSUME NEW c \in Consumers, HandlerFails(c)
      PROVE  (FirstsWait /\ FirstsInOrder)'
  <2>1. UNCHANGED <<sent, delivered>>
    BY <1>4 DEF HandlerFails, Finish
  <2>2. CASE Retry(handling[c])
    <3>1. /\ queue' = Append(queue, handling[c]) /\ inFlight' \subseteq inFlight
          /\ handling[c] \in delivered \cap Messages
      BY <2>2 DEF Retry, StillInFlight, FifoIInv, IInv, TypeOK, FirstsWait
    <3>2. QED
      BY <2>1, <3>1, BackAtTheEnd
  <2>3. CASE DeadLetter(handling[c]) \/ NackIgnored(handling[c])
    BY <2>1, <2>3 DEF DeadLetter, NackIgnored, FifoIInv, FirstsWait, FirstsInOrder,
       Enqueued
  <2>4. QED
    BY <1>4, <2>2, <2>3 DEF HandlerFails, Nack
<1>5. ASSUME NEW c \in Consumers, HandlerSucceeds(c) \/ Stop(c)
      PROVE  (FirstsWait /\ FirstsInOrder)'
  BY <1>5 DEF HandlerSucceeds, Finish, Ack, Stop, queueVars, FifoIInv, FirstsWait,
     FirstsInOrder, Enqueued
<1>6. CASE Tick
  BY <1>6 DEF Tick, FifoIInv, FirstsWait, FirstsInOrder, Enqueued
<1>7. CASE UNCHANGED vars
  BY <1>7 DEF vars, queueVars, FifoIInv, FirstsWait, FirstsInOrder, Enqueued
<1>8. QED
  BY <1>1, <1>2, <1>3, <1>4, <1>5, <1>6, <1>7 DEF Next

LEMMA FifoInvariance == Spec => []FifoIInv
<1>1. Init => FirstsWait /\ FirstsInOrder
  BY DEF Init, FirstsWait, FirstsInOrder, Enqueued
<1>2. Init => FifoIInv
  BY <1>1, InitIInv DEF FifoIInv
<1>3. FifoIInv /\ [Next]_vars => FifoIInv'
  BY NextFifo, NextIInv DEF FifoIInv
<1>4. QED
  BY <1>2, <1>3, PTL DEF Spec

(* Whatever is retried, returned or delayed, a message is first delivered    *)
(* only when every message enqueued before it was delivered or is not due.   *)
THEOREM FirstInFirstOut == Spec => FifoFirstDelivery
<1>1. ASSUME FifoIInv, Next
      PROVE  \A m \in delivered' \ delivered : \A e \in 1 .. m - 1 :
               e \notin delivered => wait[e] > 0
  <2>1. SUFFICES ASSUME NEW m \in delivered' \ delivered, NEW e \in 1 .. m - 1,
                        e \notin delivered
                 PROVE  wait[e] > 0
    OBVIOUS
  <2>2. PICK c \in Consumers : Poll(c)
    BY <1>1, <2>1 DEF Next, Enqueue, HandlerSucceeds, HandlerFails, Finish, Stop,
       Timeout, Tick
  <2>3. PICK n \in DOMAIN queue : Dequeue(n)
    BY <2>2 DEF Poll
  <2>4. /\ m = queue[n] /\ wait[queue[n]] = 0
        /\ \A j \in 1 .. n - 1 : wait[queue[j]] # 0
    BY <2>1, <2>3 DEF Dequeue, IsFirstReady
  <2>5. /\ queue \in Seq(Messages) /\ DOMAIN queue = 1 .. Len(queue)
        /\ Len(queue) \in Nat /\ ToSet(queue) \subseteq 1 .. sent /\ sent \in Nat
        /\ wait \in [Messages -> Nat]
    BY <1>1 DEF FifoIInv, IInv, TypeOK, PlacesEnqueued, Enqueued
  <2>6. m \in 1 .. sent /\ e \in 1 .. sent
    BY <2>3, <2>4, <2>5 DEF ToSet
  <2>7. e \in ToSet(queue)
    BY <1>1, <2>1, <2>6 DEF FifoIInv, FirstsWait, Enqueued
  <2>8. PICK k \in DOMAIN queue : queue[k] = e
    BY <2>7 DEF ToSet
  <2>9. k < n
    <3>1. n < k => queue[n] < queue[k]
      BY <1>1, <2>1, <2>4, <2>8 DEF FifoIInv, FirstsInOrder
    <3>2. k \in Nat /\ n \in Nat /\ e < m /\ e \in Nat /\ m \in Nat
      BY <2>1, <2>5, <2>6
    <3>3. QED
      BY <2>4, <2>8, <3>1, <3>2
  <2>10. k \in 1 .. n - 1 /\ e \in Messages
    BY <2>5, <2>8, <2>9
  <2>11. QED
    BY <2>4, <2>5, <2>8, <2>10
<1>2. QED
  BY <1>1, FifoInvariance, PTL DEF Spec, FifoFirstDelivery
-----------------------------------------------------------------------------
(* One handler at a time, in the punctual regime.  A message in flight is    *)
(* with one handler, whose delivery's timer leaves it the time it may still  *)
(* take; and the timers of a message that came back are gone before it is    *)
(* due again.  All this of the messages no retry brings back too soon.       *)
Sure == {m \in Messages : ~RetryTooSoon(m)}

HandledOnce ==
  \A c, d \in Consumers :
    handling[c] = handling[d] /\ handling[c] \in Sure => c = d

InGoodHands ==
  /\ \A m \in inFlight \cap Sure : \E c \in Consumers : handling[c] = m
  /\ \A c \in Consumers : handling[c] \in Sure => handling[c] \in inFlight
  /\ \A c \in Consumers : handling[c] # None => busy[c] <= Quick

TimersFit ==
  /\ \A c \in Consumers, i \in DOMAIN timers :
       handling[c] = timers[i].msg /\ handling[c] \in Sure
         => timers[i].left + busy[c] >= VisibilityTimeout
  /\ \A m \in ToSet(queue) \cap Sure : \A i \in DOMAIN timers :
       timers[i].msg = m => timers[i].left < wait[m]
  /\ \A i \in DOMAIN timers : timers[i].msg \in Enqueued

PunctualIInv == HandledOnce /\ InGoodHands /\ TimersFit

LEMMA SureStays ==
  ASSUME attempts' = attempts
  PROVE  Sure' = Sure
BY DEF Sure, RetryTooSoon

(* A failure is counted: the message stays sure only where retries are late. *)
LEMMA SureAfterNack ==
  ASSUME NEW m \in Messages, IInv, VisibilityTimeout \in Nat,
         attempts' = [attempts EXCEPT ![m] = FailureCount(m)]
  PROVE  Sure' \subseteq Sure /\ (m \in Sure' => VisibilityTimeout < RetryDelay)
<1>1. attempts \in [Messages -> Nat] /\ RetryDelay \in Nat
  BY QueueAssumption DEF IInv, TypeOK
<1>2. attempts'[m] > 0 /\ \A q \in Messages \ {m} : attempts'[q] = attempts[q]
  BY <1>1 DEF FailureCount
<1>3. m \in Sure' => VisibilityTimeout < RetryDelay
  BY <1>1, <1>2 DEF Sure, RetryTooSoon
<1>4. QED
  BY <1>1, <1>2, <1>3 DEF Sure, RetryTooSoon

LEMMA TimerTypes ==
  ASSUME IInv
  PROVE  /\ timers \in Seq([msg : Messages, left : 0 .. VisibilityTimeout])
         /\ DOMAIN timers = 1 .. Len(timers) /\ Len(timers) \in Nat
         /\ \A i \in DOMAIN timers :
              /\ timers[i].msg \in Messages /\ timers[i].msg # None
              /\ timers[i].left \in 0 .. VisibilityTimeout
<1>1. timers \in Seq([msg : Messages, left : 0 .. VisibilityTimeout])
  BY DEF IInv, TypeOK
<1>2. \A i \in DOMAIN timers :
        timers[i] \in [msg : Messages, left : 0 .. VisibilityTimeout]
  <2>1. \A i \in 1 .. Len(timers) :
          timers[i] \in [msg : Messages, left : 0 .. VisibilityTimeout]
    BY <1>1, ElementOfSeq
  <2>2. QED
    BY <1>1, <2>1
<1>3. QED
  BY <1>1, <1>2, QueueAssumption DEF Messages, None

LEMMA NextPunctual ==
  ASSUME Quick < VisibilityTimeout, IInv, PunctualIInv, Next, OnTime
  PROVE  PunctualIInv'
<1>. USE QueueAssumption, QuickAssumption
<1>0. /\ timers \in Seq([msg : Messages, left : 0 .. VisibilityTimeout])
      /\ DOMAIN timers = 1 .. Len(timers) /\ Len(timers) \in Nat
      /\ \A i \in DOMAIN timers :
           /\ timers[i].msg \in Messages /\ timers[i].msg # None
           /\ timers[i].left \in 0 .. VisibilityTimeout
      /\ \A c \in Consumers : busy[c] \in Nat
      /\ handling \in [Consumers -> Messages \cup {None}]
      /\ wait \in [Messages -> Nat] /\ queue \in Seq(Messages)
      /\ inFlight \subseteq Messages /\ sent \in Nat
  <2>1. /\ \A c \in Consumers : busy[c] \in 0 .. HandlerTime
        /\ handling \in [Consumers -> Messages \cup {None}]
        /\ wait \in [Messages -> Nat] /\ queue \in Seq(Messages)
        /\ inFlight \subseteq Messages /\ sent \in 0 .. MaxMessages
    BY ONLY IInv DEF IInv, TypeOK
  <2>2. /\ sent \in Nat
        /\ \A c \in Consumers : busy[c] \in Nat
    BY ONLY <2>1, QueueAssumption
  <2>3. QED
    BY ONLY <2>1, <2>2, TimerTypes, IInv
<1>1. HandledOnce /\ InGoodHands /\ TimersFit
  BY DEF PunctualIInv
<1>2. ASSUME NEW delay \in Delays, Enqueue(delay)
      PROVE  PunctualIInv'
  <2>1. /\ ToSet(queue)' = ToSet(queue) \cup {sent + 1} /\ sent' = sent + 1
        /\ wait' = [wait EXCEPT ![sent + 1] = delay] /\ Sure' = Sure
        /\ UNCHANGED <<inFlight, timers, handling, busy>>
    BY <1>2, EnqueueIInv, SureStays DEF Enqueue, loopVars
  <2>2. HandledOnce' /\ InGoodHands'
    BY <1>1, <2>1 DEF HandledOnce, InGoodHands
  <2>3. \A i \in DOMAIN timers : timers[i].msg # sent + 1 /\ timers[i].msg \in 1 .. sent
    BY <1>0, <1>1 DEF TimersFit, Enqueued
  <2>4. \A m \in ToSet(queue)' \cap Sure, i \in DOMAIN timers :
          timers[i].msg = m => timers[i].left < wait'[m]
    BY <1>0, <1>1, <2>1, <2>3 DEF TimersFit
  <2>5. \A i \in DOMAIN timers : timers[i].msg \in Enqueued'
    BY <1>0, <2>1, <2>3 DEF Enqueued
  <2>6. TimersFit'
    BY <1>1, <2>1, <2>4, <2>5 DEF TimersFit
  <2>7. QED
    BY <2>2, <2>6 DEF PunctualIInv
<1>3. ASSUME NEW c \in Consumers, Poll(c)
      PROVE  PunctualIInv'
  <2>1. PICK n \in DOMAIN queue : /\ Dequeue(n)
                                 /\ handling' = [handling EXCEPT ![c] = queue[n]]
    BY <1>3 DEF Poll
  <2>. DEFINE m == queue[n]
  <2>2. /\ m \in ToSet(queue) /\ m \in Messages
        /\ ToSet(queue)' = ToSet(queue) \ {m} /\ wait[m] = 0
        /\ inFlight' = inFlight \cup {m} /\ m \notin inFlight
        /\ timers' = Append(timers, [msg |-> m, left |-> VisibilityTimeout])
        /\ UNCHANGED <<sent, wait, busy>> /\ Sure' = Sure
        /\ handling[c] = None /\ m # None /\ m \in Enqueued
    BY <1>3, <2>1, DequeueRange, SureStays
       DEF Dequeue, IsFirstReady, Poll, IInv, OnePlace, PlacesEnqueued, Messages, None
  <2>. HIDE DEF m
  <2>3. handling' = [handling EXCEPT ![c] = m]
    BY <2>1 DEF m
  <2>4. m \in Sure => \A d \in Consumers : handling[d] # m
    BY <1>1, <2>2 DEF InGoodHands
  <2>5. HandledOnce'
    BY <1>0, <1>1, <2>2, <2>3, <2>4 DEF HandledOnce
  <2>6. \A d \in Consumers : busy'[d] <= Quick
    BY DEF OnTime
  <2>7. InGoodHands'
    <3>1. handling'[c] = m /\ \A d \in Consumers \ {c} : handling'[d] = handling[d]
      BY <1>0, <2>3
    <3>2. \A q \in inFlight' \cap Sure' : \E d \in Consumers : handling'[d] = q
      <4>1. TAKE q \in inFlight' \cap Sure'
      <4>2. CASE q = m
        BY <3>1, <4>2
      <4>3. CASE q # m
        <5>1. q \in inFlight \cap Sure
          BY <2>2, <4>1, <4>3
        <5>2. PICK d \in Consumers : handling[d] = q
          BY <1>1, <5>1 DEF InGoodHands
        <5>3. q # None
          BY <1>0, <5>1 DEF Messages, None
        <5>4. d # c
          BY <2>2, <5>2, <5>3
        <5>5. QED
          BY <3>1, <5>2, <5>4
      <4>4. QED
        BY <4>2, <4>3
    <3>3. \A d \in Consumers : handling'[d] \in Sure' => handling'[d] \in inFlight'
      BY <1>1, <2>2, <3>1 DEF InGoodHands
    <3>4. QED
      BY <2>6, <3>2, <3>3 DEF InGoodHands
  <2>8. ASSUME NEW i \in DOMAIN timers, m \in Sure
        PROVE  timers[i].msg # m
    <3>1. timers[i].msg = m => timers[i].left < 0
      BY <1>1, <2>2, <2>8 DEF TimersFit
    <3>2. timers[i].left \in Nat
      BY <1>0
    <3>3. QED
      BY ONLY <3>1, <3>2
  <2>9. \A i \in DOMAIN timers' : \/ i \in DOMAIN timers /\ timers'[i] = timers[i]
                                  \/ timers'[i] = [msg |-> m, left |-> VisibilityTimeout]
    <3>. DEFINE t == [msg |-> m, left |-> VisibilityTimeout]
    <3>1. t \in [msg : Messages, left : 0 .. VisibilityTimeout]
      BY <2>2
    <3>. HIDE DEF t
    <3>2. /\ DOMAIN timers' = 1 .. Len(timers) + 1 /\ timers'[Len(timers) + 1] = t
          /\ \A i \in 1 .. Len(timers) : timers'[i] = timers[i]
      <4>1. timers' = Append(timers, t)
        BY <2>2 DEF t
      <4>2. QED
        BY <1>0, <3>1, <4>1, AppendProperties
    <3>3. \A i \in DOMAIN timers' : i \in DOMAIN timers \/ i = Len(timers) + 1
      <4>. DEFINE l == Len(timers)
      <4>1. l \in Nat /\ DOMAIN timers = 1 .. l /\ DOMAIN timers' = 1 .. l + 1
        BY <1>0, <3>2
      <4>. HIDE DEF l
      <4>2. \A i \in 1 .. l + 1 : i \in 1 .. l \/ i = l + 1
        BY ONLY <4>1
      <4>3. QED
        BY ONLY <4>1, <4>2 DEF l
    <3>4. QED
      BY <1>0, <3>2, <3>3 DEF t
  <2>10. ASSUME NEW d \in Consumers, NEW i \in DOMAIN timers', handling'[d] = timers'[i].msg,
                handling'[d] \in Sure
         PROVE  timers'[i].left + busy'[d] >= VisibilityTimeout
    <3>1. CASE i \in DOMAIN timers /\ timers'[i] = timers[i]
      <4>1. handling'[d] = handling[d]
        BY <1>0, <2>3, <2>8, <2>10, <3>1
      <4>2. QED
        BY <1>1, <2>2, <2>10, <3>1, <4>1 DEF TimersFit
    <3>2. CASE timers'[i] = [msg |-> m, left |-> VisibilityTimeout]
      BY <1>0, <2>2, <3>2
    <3>3. QED
      BY <2>9, <3>1, <3>2
  <2>11. ASSUME NEW q \in ToSet(queue)' \cap Sure, NEW i \in DOMAIN timers', timers'[i].msg = q
         PROVE  timers'[i].left < wait'[q]
    BY <1>1, <2>2, <2>9, <2>11 DEF TimersFit
  <2>12. \A i \in DOMAIN timers' : timers'[i].msg \in Enqueued'
    BY <1>1, <2>2, <2>9 DEF TimersFit, Enqueued
  <2>13. TimersFit'
    BY <2>2, <2>10, <2>11, <2>12 DEF TimersFit
  <2>14. QED
    BY <2>5, <2>7, <2>13 DEF PunctualIInv
<1>4. ASSUME NEW c \in Consumers, HandlerSucceeds(c) \/ HandlerFails(c)
      PROVE  PunctualIInv'
  <2>. DEFINE m == handling[c]
  <2>1. /\ m # None /\ m \in Messages
        /\ handling' = [handling EXCEPT ![c] = None]
        /\ busy' = [busy EXCEPT ![c] = 0] /\ UNCHANGED <<sent, timers>>
    BY <1>0, <1>1, <1>4 DEF HandlerSucceeds, HandlerFails, Finish, InGoodHands
  <2>2. inFlight' = inFlight \ {m}
    BY <1>4, <2>1 DEF HandlerSucceeds, HandlerFails, Ack, Nack, Retry, DeadLetter,
       NackIgnored, StillInFlight
  <2>0. Sure' \subseteq Sure
    <3>1. CASE attempts' = attempts
      BY <3>1, SureStays
    <3>2. CASE attempts' = [attempts EXCEPT ![m] = FailureCount(m)]
      BY <2>1, <3>2, SureAfterNack
    <3>3. QED
      BY <1>4, <3>1, <3>2 DEF HandlerSucceeds, HandlerFails, Ack, Nack, Retry, DeadLetter,
         NackIgnored
  <2>3. \/ ToSet(queue)' = ToSet(queue) /\ wait' = wait
        \/ /\ ToSet(queue)' = ToSet(queue) \cup {m}
           /\ wait' = [wait EXCEPT ![m] = RetryDelay * (attempts[m] + 1)]
           /\ m \in Sure' => VisibilityTimeout < RetryDelay
    <3>1. CASE Retry(m) /\ HandlerFails(c)
      <4>1. m \in Sure' => VisibilityTimeout < RetryDelay
        BY <2>1, <3>1, SureAfterNack DEF Retry
      <4>2. QED
        BY <1>0, <2>1, <3>1, <4>1, AppendRange DEF Retry, BackOff, FailureCount
    <3>2. CASE ~(Retry(m) /\ HandlerFails(c))
      BY <1>4, <2>1, <3>2 DEF HandlerSucceeds, HandlerFails, Ack, Nack, DeadLetter,
         NackIgnored
    <3>3. QED
      BY <3>1, <3>2
  <2>4. ASSUME VisibilityTimeout < RetryDelay
        PROVE  RetryDelay * (attempts[m] + 1) > VisibilityTimeout
    <3>1. attempts[m] \in Nat
      BY <2>1 DEF IInv, TypeOK
    <3>2. RetryDelay * (attempts[m] + 1) >= RetryDelay
      BY <3>1
    <3>3. QED
      BY <2>4, <3>1, <3>2
  <2>. HIDE DEF m
  <2>5. handling[c] = m /\ (m \in Sure => \A d \in Consumers \ {c} : handling[d] # m)
    BY <1>1, <2>1 DEF HandledOnce, m
  <2>6. HandledOnce'
    <3>1. ASSUME NEW d \in Consumers, handling'[d] \in Sure'
          PROVE  d # c /\ handling'[d] = handling[d] /\ handling[d] \in Sure
      BY <1>0, <2>0, <2>1, <3>1 DEF Sure, Messages, None
    <3>2. QED
      BY <1>1, <3>1 DEF HandledOnce
  <2>7. \A d \in Consumers : busy'[d] <= Quick
    BY DEF OnTime
  <2>8. InGoodHands'
    <3>1. \A q \in inFlight' \cap Sure' : \E d \in Consumers : handling'[d] = q
      BY <1>0, <1>1, <2>0, <2>1, <2>2, <2>5 DEF InGoodHands
    <3>2. \A d \in Consumers : handling'[d] \in Sure' => handling'[d] \in inFlight'
      <4>1. ASSUME NEW d \in Consumers, handling'[d] \in Sure'
            PROVE  d # c /\ handling'[d] = handling[d] /\ handling[d] \in Sure
        BY <1>0, <2>0, <2>1, <4>1 DEF Sure, Messages, None
      <4>2. QED
        BY <1>1, <2>2, <2>5, <4>1 DEF InGoodHands
    <3>3. QED
      BY <2>7, <3>1, <3>2 DEF InGoodHands
  <2>9. ASSUME NEW d \in Consumers, NEW i \in DOMAIN timers, handling'[d] = timers[i].msg,
               handling'[d] \in Sure'
        PROVE  timers[i].left + busy'[d] >= VisibilityTimeout
    <3>1. d # c
      BY <1>0, <2>1, <2>9
    <3>2. handling'[d] = handling[d] /\ busy'[d] = busy[d]
      BY <1>0, <2>1, <3>1
    <3>3. QED
      BY <1>1, <2>0, <2>9, <3>2 DEF TimersFit
  <2>10. ASSUME NEW q \in ToSet(queue)' \cap Sure', NEW i \in DOMAIN timers, timers[i].msg = q
         PROVE  timers[i].left < wait'[q]
    <3>1. CASE ToSet(queue)' = ToSet(queue) /\ wait' = wait
      BY <1>1, <2>0, <2>10, <3>1 DEF TimersFit
    <3>2. CASE /\ ToSet(queue)' = ToSet(queue) \cup {m}
               /\ wait' = [wait EXCEPT ![m] = RetryDelay * (attempts[m] + 1)]
               /\ m \in Sure' => VisibilityTimeout < RetryDelay
      <4>1. CASE q = m
        <5>1. wait'[q] = RetryDelay * (attempts[m] + 1)
          BY <1>0, <2>1, <3>2, <4>1
        <5>. DEFINE back == RetryDelay * (attempts[m] + 1)
        <5>2. back > VisibilityTimeout /\ back \in Int
          <6>1. attempts[m] \in Nat
            BY <2>1 DEF IInv, TypeOK
          <6>2. VisibilityTimeout < RetryDelay
            BY <2>10, <3>2, <4>1
          <6>3. QED
            BY <2>4, <6>1, <6>2
        <5>. HIDE DEF back
        <5>3. wait'[q] = back
          BY <5>1 DEF back
        <5>4. QED
          BY <1>0, <5>2, <5>3
      <4>2. CASE q # m
        BY <1>0, <1>1, <2>0, <2>1, <2>10, <3>2, <4>2 DEF TimersFit
      <4>3. QED
        BY <4>1, <4>2
    <3>3. QED
      BY <2>3, <3>1, <3>2
  <2>11. TimersFit'
    BY <1>1, <2>1, <2>9, <2>10 DEF TimersFit, Enqueued
  <2>12. QED
    BY <2>6, <2>8, <2>11 DEF PunctualIInv
<1>5. CASE Timeout
  <2>1. /\ timers # <<>> /\ Head(timers).left = 0 /\ timers' = Tail(timers)
        /\ UNCHANGED <<sent, wait, handling, busy>> /\ Sure' = Sure
    BY <1>5, SureStays DEF Timeout, loopVars
  <2>2. 1 \in DOMAIN timers /\ Head(timers) = timers[1]
    BY <1>0, <2>1
  <2>. DEFINE m == Head(timers).msg
  <2>3. m \in inFlight => m \notin Sure
    <3>1. SUFFICES ASSUME m \in inFlight \cap Sure PROVE FALSE
      OBVIOUS
    <3>2. PICK c \in Consumers : handling[c] = timers[1].msg
      BY <1>1, <2>2, <3>1 DEF InGoodHands
    <3>3. timers[1].left + busy[c] >= VisibilityTimeout /\ timers[1].left = 0
      BY <1>1, <2>1, <2>2, <3>1, <3>2 DEF TimersFit
    <3>4. busy[c] <= Quick
      BY <1>0, <1>1, <2>2, <3>2 DEF InGoodHands
    <3>5. QED
      BY <1>0, <3>3, <3>4
  <2>4. inFlight' \cap Sure = inFlight \cap Sure /\ ToSet(queue)' \cap Sure = ToSet(queue) \cap Sure
    <3>1. CASE m \in inFlight
      <4>1. m \in Messages /\ queue' = Append(queue, m) /\ inFlight' = inFlight \ {m}
        BY <1>0, <1>5, <2>2, <3>1 DEF Timeout, StillInFlight
      <4>2. QED
        BY <1>0, <2>3, <3>1, <4>1, AppendRange
    <3>2. CASE m \notin inFlight
      BY <1>5, <3>2 DEF Timeout, StillInFlight
    <3>3. QED
      BY <3>1, <3>2
  <2>5. \A i \in DOMAIN timers' : i + 1 \in DOMAIN timers /\ timers'[i] = timers[i + 1]
    <3>. DEFINE T == [msg : Messages, left : 0 .. VisibilityTimeout]
    <3>1. timers \in Seq(T) /\ timers # <<>> /\ timers' = Tail(timers)
      BY <1>0, <2>1
    <3>. HIDE DEF T
    <3>2. /\ Tail(timers) \in Seq(T) /\ Len(Tail(timers)) = Len(timers) - 1
          /\ \A i \in 1 .. Len(Tail(timers)) : Tail(timers)[i] = timers[i + 1]
      BY ONLY <3>1, HeadTailProperties
    <3>3. DOMAIN timers' = 1 .. Len(timers) - 1
      BY ONLY <3>1, <3>2
    <3>4. \A i \in 1 .. Len(timers) - 1 : i + 1 \in DOMAIN timers
      BY <1>0
    <3>5. QED
      BY ONLY <3>1, <3>2, <3>3, <3>4
  <2>6. HandledOnce' /\ InGoodHands'
    BY <1>1, <2>1, <2>4 DEF HandledOnce, InGoodHands
  <2>7. TimersFit'
    BY <1>1, <2>1, <2>4, <2>5 DEF TimersFit, Enqueued
  <2>8. QED
    BY <2>6, <2>7 DEF PunctualIInv
<1>6. ASSUME NEW c \in Consumers, Stop(c)
      PROVE  PunctualIInv'
  BY <1>1, <1>6, SureStays DEF Stop, queueVars, PunctualIInv, HandledOnce, InGoodHands,
     TimersFit, Enqueued
<1>7. CASE Tick
  <2>1. /\ DOMAIN timers' = DOMAIN timers
        /\ \A i \in DOMAIN timers : /\ timers[i].left > 0
                                    /\ timers'[i].msg = timers[i].msg
                                    /\ timers'[i].left = timers[i].left - 1
    BY <1>0, <1>7 DEF Tick, OnTime, OneLess
  <2>2. /\ UNCHANGED <<sent, queue, inFlight, handling>> /\ Sure' = Sure
        /\ \A d \in Consumers : handling[d] # None => busy'[d] = busy[d] + 1
        /\ \A m \in Messages : wait'[m] = OneLess(wait[m])
    BY <1>7, SureStays DEF Tick
  <2>3. \A d \in Consumers : busy'[d] <= Quick
    BY DEF OnTime
  <2>4. HandledOnce' /\ InGoodHands'
    BY <1>1, <2>2, <2>3 DEF HandledOnce, InGoodHands
  <2>5. ASSUME NEW d \in Consumers, NEW i \in DOMAIN timers, handling[d] = timers[i].msg,
               handling[d] \in Sure
        PROVE  timers'[i].left + busy'[d] >= VisibilityTimeout
    <3>1. timers[i].left + busy[d] >= VisibilityTimeout /\ busy'[d] = busy[d] + 1
      BY <1>0, <1>1, <2>2, <2>5 DEF TimersFit
    <3>2. timers[i].left \in Nat /\ busy[d] \in Nat /\ VisibilityTimeout \in Nat
      BY <1>0
    <3>3. timers'[i].left = timers[i].left - 1
      BY <2>1
    <3>4. QED
      BY ONLY <3>1, <3>2, <3>3
  <2>6. ASSUME NEW q \in ToSet(queue) \cap Sure, NEW i \in DOMAIN timers, timers[i].msg = q
        PROVE  timers'[i].left < wait'[q]
    <3>1. timers[i].left < wait[q] /\ q \in Messages
      BY <1>0, <1>1, <2>6 DEF TimersFit
    <3>2. timers[i].left \in Nat /\ wait[q] \in Nat /\ wait'[q] = OneLess(wait[q])
      BY <1>0, <2>2, <3>1
    <3>3. wait'[q] = wait[q] - 1
      BY <3>1, <3>2 DEF OneLess
    <3>4. timers'[i].left = timers[i].left - 1
      BY <2>1
    <3>5. QED
      BY <3>1, <3>2, <3>3, <3>4
  <2>7. TimersFit'
    BY <1>1, <2>1, <2>2, <2>5, <2>6 DEF TimersFit, Enqueued
  <2>8. QED
    BY <2>4, <2>7 DEF PunctualIInv
<1>8. QED
  BY <1>2, <1>3, <1>4, <1>5, <1>6, <1>7 DEF Next

(* consume(), nack() and the timer of dequeue(): where handlers end before   *)
(* the visibility timeout and timers fire on time, no message is with two    *)
(* loops at once, for any number of messages and loops and every retry and   *)
(* visibility time; but for one that failed before, where a retry may come   *)
(* while the timer of the delivery that failed still runs.                   *)
THEOREM OneHandler == MCSpec => []OneHandlerAtATime
<1>. DEFINE Inv == /\ IInv /\ punctual \in BOOLEAN
                   /\ punctual /\ Quick < VisibilityTimeout => PunctualIInv
<1>1. MCInit => Inv
  BY InitIInv DEF MCInit, Init, PunctualIInv, HandledOnce, InGoodHands, TimersFit, ToSet,
     Sure, Messages, None
<1>2. ASSUME Inv, [MCNext]_<<vars, punctual>>
      PROVE  Inv'
  <2>1. [Next]_vars /\ punctual' = punctual
    BY <1>2 DEF MCNext
  <2>2. IInv'
    BY <1>2, <2>1, NextIInv
  <2>3. ASSUME MCNext, punctual, Quick < VisibilityTimeout
        PROVE  PunctualIInv'
    BY <1>2, <2>3, NextPunctual DEF MCNext
  <2>4. ASSUME UNCHANGED <<vars, punctual>>, PunctualIInv
        PROVE  PunctualIInv'
    BY <2>4, SureStays DEF vars, queueVars, loopVars, PunctualIInv, HandledOnce,
       InGoodHands, TimersFit, Enqueued
  <2>5. QED
    BY <1>2, <2>1, <2>2, <2>3, <2>4
<1>3. Inv => OneHandlerAtATime
  BY DEF OneHandlerAtATime, PunctualIInv, HandledOnce, Sure
<1>4. QED
  BY <1>1, <1>2, <1>3, PTL DEF MCSpec
-----------------------------------------------------------------------------
(* The queue implements its contract.  Each lemma maps one action to a step  *)
(* of QueueContract, or to a stutter.                                        *)

(* One message changes its status, the others keep theirs.                   *)
LEMMA StatusMoves ==
  ASSUME NEW m \in Messages, NEW from, NEW to,
         Status(m) = from, Status(m)' = to,
         \A n \in Messages \ {m} : Status(n)' = Status(n)
  PROVE  Contract!Move(m, from, to)
  BY DEF Contract!Move

LEMMA NothingMoves ==
  ASSUME \A m \in Messages : Status(m)' = Status(m), attempts' = attempts
  PROVE  UNCHANGED Contract!vars
  BY DEF Contract!vars

LEMMA InitMaps == Init => Contract!Init
  BY DEF Init, Contract!Init, Status, Enqueued, Messages

LEMMA EnqueueMaps ==
  ASSUME IInv, NEW delay \in Delays, Enqueue(delay)
  PROVE  Contract!Next
<1>0. PICK m \in Messages : m = sent + 1
  BY QueueAssumption DEF IInv, TypeOK, Enqueue, Messages
<1>1. /\ sent' = m /\ sent \in Nat
      /\ UNCHANGED <<inFlight, deadLetterQueue, attempts>>
  BY <1>0, QueueAssumption DEF IInv, TypeOK, Enqueue, Messages
<1>2. ToSet(queue)' = ToSet(queue) \cup {m}
  BY <1>0, EnqueueIInv
<1>3. m \notin ToSet(queue) \cup inFlight \cup deadLetterQueue
  BY <1>0, <1>1 DEF IInv, PlacesEnqueued, Enqueued
<1>4. Status(m) = "unsent" /\ Status(m)' = "waiting"
  BY <1>0, <1>1, <1>2, <1>3 DEF Status, Enqueued, Messages
<1>5. \A n \in Messages \ {m} : Status(n)' = Status(n)
  BY <1>0, <1>1, <1>2 DEF Status, Enqueued, Messages
<1>6. Contract!Send(m)
  BY <1>1, <1>4, <1>5, StatusMoves DEF Contract!Send
<1>7. QED
  BY <1>1, <1>6 DEF Contract!Next

LEMMA PollMaps ==
  ASSUME IInv, NEW c \in Consumers, Poll(c)
  PROVE  Contract!Next
<1>1. PICK i \in DOMAIN queue : Dequeue(i)
  BY DEF Poll
<1>0. PICK m \in Messages : m = queue[i]
  BY <1>1, DequeueRange
<1>2. /\ m \in ToSet(queue)
      /\ ToSet(queue)' = ToSet(queue) \ {m}
  BY <1>0, <1>1, DequeueRange
<1>3. /\ inFlight' = inFlight \cup {m}
      /\ UNCHANGED <<sent, deadLetterQueue, attempts>>
  BY <1>0, <1>1 DEF Dequeue
<1>4. m \in Enqueued /\ m \notin inFlight \cup deadLetterQueue
  BY <1>2 DEF IInv, OnePlace, PlacesEnqueued
<1>5. Status(m) = "waiting" /\ Status(m)' = "held"
  BY <1>2, <1>3, <1>4 DEF Status, Enqueued
<1>6. \A n \in Messages \ {m} : Status(n)' = Status(n)
  BY <1>2, <1>3 DEF Status, Enqueued
<1>7. Contract!Deliver(m)
  BY <1>2, <1>3, <1>5, <1>6, StatusMoves DEF Contract!Deliver
<1>8. QED
  BY <1>2, <1>7 DEF Contract!Next

LEMMA SuccessMaps ==
  ASSUME IInv, NEW c \in Consumers, HandlerSucceeds(c)
  PROVE  [Contract!Next]_Contract!vars
<1>0. PICK m \in Messages : m = handling[c]
  BY DEF IInv, TypeOK, HandlerSucceeds, Finish
<1>1. /\ inFlight' = inFlight \ {m}
      /\ UNCHANGED <<sent, queue, deadLetterQueue, attempts>>
  BY <1>0 DEF HandlerSucceeds, Finish, Ack
<1>2. CASE m \in inFlight
  <2>1. m \in Enqueued /\ m \notin ToSet(queue) \cup deadLetterQueue
    BY <1>2 DEF IInv, OnePlace, PlacesEnqueued
  <2>2. Status(m) = "held" /\ Status(m)' = "done"
    BY <1>1, <1>2, <2>1 DEF Status, Enqueued
  <2>3. \A n \in Messages \ {m} : Status(n)' = Status(n)
    BY <1>1 DEF Status, Enqueued
  <2>4. Contract!Complete(m)
    BY <1>1, <2>2, <2>3, StatusMoves DEF Contract!Complete
  <2>5. QED
    BY <1>1, <2>4 DEF Contract!Next
<1>3. CASE m \notin inFlight
  <2>1. \A n \in Messages : Status(n)' = Status(n)
    BY <1>1, <1>3 DEF Status, Enqueued
  <2>2. QED
    BY <1>1, <2>1, NothingMoves
<1>4. QED
  BY <1>2, <1>3

LEMMA FailureMaps ==
  ASSUME IInv, NEW c \in Consumers, HandlerFails(c)
  PROVE  [Contract!Next]_Contract!vars
<1>0. PICK m \in Messages : m = handling[c]
  BY DEF IInv, TypeOK, HandlerFails, Finish
<1>1. /\ sent' = sent /\ attempts \in [Messages -> Nat]
      /\ Nack(m)
  BY <1>0 DEF IInv, TypeOK, HandlerFails, Finish
<1>2. CASE Retry(m)
  <2>1. /\ m \in inFlight /\ queue' = Append(queue, m)
        /\ inFlight' = inFlight \ {m} /\ deadLetterQueue' = deadLetterQueue
        /\ attempts' = [attempts EXCEPT ![m] = attempts[m] + 1]
        /\ ~(attempts[m] + 1 > MaxRetries)
    BY <1>2 DEF Retry, StillInFlight, FailureCount, RetriesExhausted
  <2>2. /\ m \notin ToSet(queue) /\ m \notin deadLetterQueue
        /\ ToSet(queue)' = ToSet(queue) \cup {m}
    BY <1>1, <2>1, GiveBack
  <2>3. Status(m) = "held" /\ Status(m)' = "waiting"
    BY <1>1, <2>1, <2>2 DEF Status, Enqueued, IInv, PlacesEnqueued
  <2>4. \A n \in Messages \ {m} : Status(n)' = Status(n)
    BY <1>1, <2>1, <2>2 DEF Status, Enqueued
  <2>5. attempts[m] < MaxRetries
    BY <1>1, <2>1, QueueAssumption
  <2>6. Contract!Fail(m)
    BY <1>1, <2>1, <2>3, <2>4, <2>5, StatusMoves DEF Contract!Fail
  <2>7. QED
    BY <1>1, <2>6 DEF Contract!Next
<1>3. CASE DeadLetter(m)
  <2>1. /\ m \in inFlight /\ inFlight' = inFlight \ {m}
        /\ deadLetterQueue' = deadLetterQueue \cup {m}
        /\ attempts' = [attempts EXCEPT ![m] = attempts[m] + 1]
        /\ queue' = queue /\ attempts[m] + 1 > MaxRetries
    BY <1>3 DEF DeadLetter, StillInFlight, FailureCount, RetriesExhausted
  <2>2. m \in Enqueued /\ m \notin deadLetterQueue
    BY <2>1 DEF IInv, OnePlace, PlacesEnqueued
  <2>3. Status(m) = "held" /\ Status(m)' = "dead"
    BY <1>1, <2>1, <2>2 DEF Status, Enqueued
  <2>4. \A n \in Messages \ {m} : Status(n)' = Status(n)
    BY <1>1, <2>1 DEF Status, Enqueued
  <2>5. ~(attempts[m] < MaxRetries)
    BY <1>1, <2>1, QueueAssumption
  <2>6. Contract!Fail(m)
    BY <1>1, <2>1, <2>3, <2>4, <2>5, StatusMoves DEF Contract!Fail
  <2>7. QED
    BY <1>1, <2>6 DEF Contract!Next
<1>4. CASE NackIgnored(m)
  BY <1>1, <1>4, NothingMoves DEF NackIgnored, Status, Enqueued
<1>5. QED
  BY <1>1, <1>2, <1>3, <1>4 DEF Nack

LEMMA TimeoutMaps ==
  ASSUME IInv, Timeout
  PROVE  [Contract!Next]_Contract!vars
<1>1. UNCHANGED <<sent, deadLetterQueue, attempts>>
  BY DEF Timeout
<1>2. CASE Head(timers).msg \in inFlight
  <2>0. PICK m \in Messages : m = Head(timers).msg /\ m \in inFlight
    BY <1>2 DEF IInv, TypeOK
  <2>1. inFlight' = inFlight \ {m} /\ queue' = Append(queue, m)
    BY <2>0 DEF Timeout, StillInFlight
  <2>2. /\ m \in Messages /\ m \notin ToSet(queue) /\ m \notin deadLetterQueue
        /\ ToSet(queue)' = ToSet(queue) \cup {m}
    BY <1>1, <2>0, <2>1, GiveBack
  <2>3. Status(m) = "held" /\ Status(m)' = "waiting"
    BY <1>1, <2>0, <2>1, <2>2 DEF Status, Enqueued, IInv, PlacesEnqueued
  <2>4. \A n \in Messages \ {m} : Status(n)' = Status(n)
    BY <1>1, <2>1, <2>2 DEF Status, Enqueued
  <2>5. Contract!Return(m)
    BY <1>1, <2>2, <2>3, <2>4, StatusMoves DEF Contract!Return
  <2>6. QED
    BY <2>2, <2>5 DEF Contract!Next
<1>3. CASE Head(timers).msg \notin inFlight
  <2>1. UNCHANGED <<inFlight, queue>>
    BY <1>3 DEF Timeout, StillInFlight
  <2>2. QED
    BY <1>1, <2>1, NothingMoves DEF Status, Enqueued
<1>4. QED
  BY <1>2, <1>3

LEMMA NextMaps == IInv /\ [Next]_vars => [Contract!Next]_Contract!vars
<1>. SUFFICES ASSUME IInv, [Next]_vars PROVE [Contract!Next]_Contract!vars
  OBVIOUS
<1>1. CASE \E delay \in Delays : Enqueue(delay)
  BY <1>1, EnqueueMaps
<1>2. ASSUME NEW c \in Consumers, Poll(c) PROVE Contract!Next
  BY <1>2, PollMaps
<1>3. CASE (\E c \in Consumers : Stop(c)) \/ Tick \/ UNCHANGED vars
  <2>1. UNCHANGED <<sent, queue, inFlight, deadLetterQueue, attempts>>
    BY <1>3 DEF Stop, Tick, vars, queueVars
  <2>2. QED
    BY <2>1, NothingMoves DEF Status, Enqueued
<1>4. QED
  BY <1>1, <1>2, <1>3, SuccessMaps, FailureMaps, TimeoutMaps DEF Next

(* Every behaviour of the queue is one the contract allows.                  *)
THEOREM Refinement == Spec => ImplementsContract
  BY InitMaps, NextMaps, Invariance, PTL
     DEF Spec, ImplementsContract, Contract!Spec
=============================================================================
