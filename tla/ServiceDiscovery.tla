--------------------------- MODULE ServiceDiscovery ---------------------------
(* The ServiceRegistry and the ServiceClient of packages/microservices:      *)
(* processes register, send heartbeats, crash and come back under a new id,  *)
(* while clients discover one of them and call it.  Ages are ticks.          *)
EXTENDS Integers, Functions

CONSTANTS Hosts, Clients,
          MaxLives,          \* bound: registrations of one host
          HeartbeatTimeout,  \* heartbeatTimeoutMs
          CallTimeout,       \* timeoutMs of a call
          Idle               \* no call

DiscoveryAssumption == {MaxLives, HeartbeatTimeout, CallTimeout} \subseteq Nat \ {0}

VARIABLES instances,  \* id -> [since, healthy]: since = age of lastHeartbeat
          current,    \* of each host: the ids its process has had, {}: down
          lives,      \* of each host: ids it has had
          new,        \* hosts that registered in this tick
          calls,      \* of each client: Idle, or [stage, host, age]
          gone        \* history, id -> ticks since its process was up

vars == <<instances, current, lives, new, calls, gone>>

InstanceIds == Hosts \X (1 .. MaxLives)
InProgress == [stage : {"waiting", "reading"}, host : Hosts, age : 0 .. CallTimeout + 1]

TypeOK ==
  /\ DOMAIN instances \subseteq InstanceIds
  /\ \A i \in DOMAIN instances :
       instances[i] \in [since : 0 .. HeartbeatTimeout + 1, healthy : BOOLEAN]
  /\ current \in [Hosts -> SUBSET (1 .. MaxLives)] /\ lives \in [Hosts -> 0 .. MaxLives]
  /\ new \subseteq Hosts
  /\ calls \in [Clients -> {Idle} \cup InProgress]
  /\ DOMAIN gone = DOMAIN instances

(* The process that got this id still runs.                                  *)
Up(i) == i[2] \in current[i[1]]

Init ==
  /\ instances = <<>> /\ gone = <<>>
  /\ current = [h \in Hosts |-> {}] /\ lives = [h \in Hosts |-> 0] /\ new = {}
  /\ calls = [c \in Clients |-> Idle]
-----------------------------------------------------------------------------
(* Faulty variants of the operators below, used to check that the            *)
(* properties can fail.                                                      *)
OnlyTheTime(instance) == [instance EXCEPT !.since = 0]
UntilHeaders(stage) == stage = "waiting"
-----------------------------------------------------------------------------
Beaten(instance) == [instance EXCEPT !.since = 0, !.healthy = TRUE]

Stale(instance) == instance.since > HeartbeatTimeout

(* pruneStale() marks, and removes nothing.                                  *)
Pruned == [i \in DOMAIN instances |->
             [instances[i] EXCEPT !.healthy = @ /\ ~Stale(instances[i])]]

Discovered == {i \in DOMAIN Pruned : Pruned[i].healthy}

Put(f, i, x) == [j \in DOMAIN f \cup {i} |-> IF j = i THEN x ELSE f[j]]

(* A process that comes up, or one that runs and registers again.  An id is  *)
(* made of the host and the time: a second one in one tick is the same.      *)
Register(h) ==
  LET n == IF h \in new THEN lives[h] ELSE lives[h] + 1
  IN  /\ n <= MaxLives
      /\ instances' = Put(instances, <<h, n>>, [since |-> 0, healthy |-> TRUE])
      /\ gone' = Put(gone, <<h, n>>, 0)
      /\ current' = [current EXCEPT ![h] = @ \cup {n}]
      /\ lives' = [lives EXCEPT ![h] = n]
      /\ new' = new \cup {h}
      /\ UNCHANGED calls

(* Ids that are not registered are ignored.                                  *)
Heartbeat(i) ==
  /\ i \in DOMAIN instances /\ Up(i)
  /\ instances' = [instances EXCEPT ![i] = Beaten(@)]
  /\ UNCHANGED <<current, lives, new, calls, gone>>

(* A process that is to stop says so, and may live on a little.              *)
Deregister(i) ==
  /\ i \in DOMAIN instances /\ Up(i)
  /\ instances' = Restrict(instances, DOMAIN instances \ {i})
  /\ gone' = Restrict(gone, DOMAIN instances \ {i})
  /\ UNCHANGED <<current, lives, new, calls>>

Stop(h) ==
  /\ current[h] # {}
  /\ current' = [current EXCEPT ![h] = {}]
  /\ UNCHANGED <<instances, lives, new, calls, gone>>

ListAll ==
  /\ instances' = Pruned
  /\ UNCHANGED <<current, lives, new, calls, gone>>

(* call(): discoverOne(), then fetch, under a timer.                         *)
Call(c, i) ==
  /\ calls[c] = Idle
  /\ instances' = Pruned
  /\ i \in Discovered
  /\ calls' = [calls EXCEPT ![c] = [stage |-> "waiting", host |-> i[1], age |-> 0]]
  /\ UNCHANGED <<current, lives, new, gone>>

(* It throws at once.                                                        *)
NoInstance(c) ==
  /\ calls[c] = Idle
  /\ Discovered = {}
  /\ instances' = Pruned
  /\ UNCHANGED <<current, lives, new, calls, gone>>

Becomes(c, call) ==
  /\ calls' = [calls EXCEPT ![c] = call]
  /\ UNCHANGED <<instances, current, lives, new, gone>>

(* The headers arrive, of whoever is at that host now ...                    *)
Headers(c) ==
  /\ calls[c] # Idle /\ calls[c].stage = "waiting" /\ current[calls[c].host] # {}
  /\ Becomes(c, [calls[c] EXCEPT !.stage = "reading"])

(* ... then the body: the answer, or the text of the error call() throws.    *)
Body(c) ==
  /\ calls[c] # Idle /\ calls[c].stage = "reading" /\ current[calls[c].host] # {}
  /\ Becomes(c, Idle)

Refused(c) == calls[c] # Idle /\ Becomes(c, Idle)

(* Until its finally block a call is under its timer.                        *)
Covered(stage) == stage \in {"waiting", "reading"}

Due(c) == calls[c] # Idle /\ Covered(calls[c].stage) /\ calls[c].age = CallTimeout

Abort(c) == Due(c) /\ Becomes(c, Idle)

Older(n, bound) == IF n < bound THEN n + 1 ELSE n

(* Timers fire in the tick they are due.                                     *)
Tick ==
  /\ \A c \in Clients : ~Due(c)
  /\ instances' = [i \in DOMAIN instances |->
                     [instances[i] EXCEPT !.since = Older(@, HeartbeatTimeout + 1)]]
  /\ gone' = [i \in DOMAIN gone |->
                IF Up(i) THEN 0 ELSE Older(gone[i], HeartbeatTimeout + 1)]
  /\ calls' = [c \in Clients |->
                 IF calls[c] = Idle THEN Idle
                 ELSE [calls[c] EXCEPT !.age = Older(@, CallTimeout + 1)]]
  /\ new' = {}
  /\ UNCHANGED <<current, lives>>

Next ==
  \/ \E h \in Hosts : Register(h) \/ Stop(h)
  \/ \E i \in InstanceIds : Heartbeat(i) \/ Deregister(i)
  \/ \E c \in Clients : \/ NoInstance(c) \/ \E i \in InstanceIds : Call(c, i)
                        \/ Headers(c) \/ Body(c) \/ Refused(c) \/ Abort(c)
  \/ ListAll
  \/ Tick

Spec == Init /\ [][Next]_vars
-----------------------------------------------------------------------------
(* discover() answers from flags that were set at earlier looks.  All the    *)
(* same it finds exactly the registered instances whose last heartbeat is at *)
(* most the timeout ago, those included that had been stale and were heard   *)
(* of again, and none whose process stopped longer ago than that.            *)
FindsTheLiving ==
  /\ TypeOK
  /\ Discovered = {i \in DOMAIN instances : instances[i].since <= HeartbeatTimeout}
  /\ \A i \in Discovered : gone[i] <= HeartbeatTimeout

(* No call lasts for ever, though the instance it was given may have stopped *)
(* before the call, before its answer or in the middle of it, and may be     *)
(* silent for good: the timer is armed until the body is read.               *)
CallEnds == \A c \in Clients : []<>(calls[c] = Idle)
=============================================================================
