------------------------------ MODULE EventBuses ------------------------------
(* The three ways to hand an event to all its handlers: LocalEventBus of     *)
(* packages/microservices, PubSub of packages/messaging, ChoreographedSaga   *)
(* of packages/architecture; one event or topic of one of them.  Handlers    *)
(* subscribe, unsubscribe and emit again while they are being called.        *)
EXTENDS Naturals, FiniteSets, Collections

CONSTANTS Handlers,
          MaxHandlers,  \* bound: subscriptions at a time
          MaxEmissions  \* bound: emissions at a time

BusAssumption == MaxHandlers \in Nat /\ MaxEmissions \in Nat

VARIABLES kind,     \* "local", "pubsub" or "saga"
          list,     \* the handlers, in order
          running   \* emissions: over, the handlers it goes through; live,
                    \* whether that array is list itself; called, those it has
                    \* called; history: due, list when it began, and added,
                    \* handlers that subscribed since

vars == <<kind, list, running>>

Emissions == [over : Seq(Handlers), live : BOOLEAN, called : Seq(Handlers),
              due : Seq(Handlers), added : SUBSET Handlers]

TypeOK ==
  /\ kind \in {"local", "pubsub", "saga"}
  /\ list \in Seq(Handlers) /\ Len(list) <= MaxHandlers
  /\ kind = "pubsub" => IsInjective(list)
  /\ running \in Seq(Emissions)
  /\ \A i \in DOMAIN running : running[i].live => running[i].over = list

Init == kind \in {"local", "pubsub", "saga"} /\ list = <<>> /\ running = <<>>
-----------------------------------------------------------------------------
(* Faulty variants of the operators below, used to check that the            *)
(* properties can fail.                                                      *)
Spliced(e, l) == IF e.live THEN [e EXCEPT !.over = l] ELSE e
-----------------------------------------------------------------------------
(* on() pushes to the array that emissions go through, but when an off()     *)
(* has put another in its place since they began.                            *)
Pushed(e, h) ==
  [e EXCEPT !.over = IF e.live THEN Append(@, h) ELSE @, !.added = @ \cup {h}]

(* off() puts a filtered copy in place of the array.                         *)
Replaced(e, l) == [e EXCEPT !.live = FALSE]

(* PubSub keeps a set: a handler that is in it is not added again.           *)
On(h) ==
  /\ Len(list) < MaxHandlers
  /\ IF kind = "pubsub" /\ h \in ToSet(list) THEN UNCHANGED <<list, running>>
     ELSE /\ list' = Append(list, h)
          /\ running' = [i \in DOMAIN running |-> Pushed(running[i], h)]
  /\ UNCHANGED kind

(* The function on() returned: removes h wherever it is.  Called once more,  *)
(* it finds none and puts a copy in place all the same.  The saga has none.  *)
Off(h) ==
  /\ kind # "saga"
  /\ list' = Kept(list, ToSet(list) \ {h})
  /\ running' = [i \in DOMAIN running |-> Replaced(running[i], list')]
  /\ UNCHANGED kind

(* The first handler is called at once.  PubSub goes through a copy.         *)
Emit ==
  /\ Len(running) < MaxEmissions /\ list # <<>>
  /\ running' = Append(running, [over |-> list, live |-> kind # "pubsub",
                                 called |-> <<Head(list)>>, due |-> list, added |-> {}])
  /\ UNCHANGED <<kind, list>>

(* An emission inside a handler ends before the one that called it goes on,  *)
(* unless handlers are awaited.                                              *)
Turn(i) == kind = "saga" \/ i = Len(running)

(* The last handler called has returned, or, in the saga, settled.           *)
CallNext(i) ==
  LET e == running[i]
  IN  /\ Turn(i) /\ Len(e.called) < Len(e.over)
      /\ running' = [running EXCEPT ![i].called = Append(@, e.over[Len(e.called) + 1])]
      /\ UNCHANGED <<kind, list>>

Return(i) ==
  /\ Turn(i) /\ Len(running[i].called) >= Len(running[i].over)
  /\ running' = RemoveAt(running, i)
  /\ UNCHANGED <<kind, list>>

(* The last handler called throws, and the emission with it.                 *)
Throw(i) ==
  /\ Turn(i)
  /\ running' = RemoveAt(running, i)
  /\ UNCHANGED <<kind, list>>

Next ==
  \/ Emit
  \/ \E h \in Handlers : On(h) \/ Off(h)
  \/ \E i \in DOMAIN running : CallNext(i) \/ Return(i) \/ Throw(i)

Spec == Init /\ [][Next]_vars
-----------------------------------------------------------------------------
Times(h, handlers) == Cardinality({i \in DOMAIN handlers : handlers[i] = h})

(* Whatever its handlers do to the list meanwhile, an emission that none of  *)
(* them ends by throwing calls every handler that was subscribed when it     *)
(* began, once for each of its subscriptions, even if it unsubscribes before *)
(* its turn (messageQueue.ts:127: all receive every message).  A handler may *)
(* get it once more for each time it subscribed meanwhile, but not from      *)
(* PubSub.                                                                   *)
EveryoneReached ==
  /\ TypeOK
  /\ \A i \in DOMAIN running :
       LET e == running[i]
       IN  Len(e.called) >= Len(e.over) =>
             \A h \in Handlers :
               /\ Times(h, e.called) >= Times(h, e.due)
               /\ kind = "pubsub" \/ h \notin e.added => Times(h, e.called) = Times(h, e.due)
=============================================================================
