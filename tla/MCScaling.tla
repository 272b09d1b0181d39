------------------------------ MODULE MCScaling ------------------------------
(* Instances for TLC of what spreads calls over processes and watches them:  *)
(* the ring and the balancer of packages/scaling, service discovery of       *)
(* packages/microservices, health checks of packages/observability.  They    *)
(* share nothing: a behaviour uses one and leaves the others as they began.  *)
EXTENDS ConsistentHashRing

CONSTANTS Ids, Light, Heavy, MaxOpen, Cycle,
          Hosts, Clients, MaxLives, HeartbeatTimeout, CallTimeout, Idle,
          Checks, CheckTimeout, Silent

VARIABLES part,
          algorithm, backends, rrIndex, weightedCursor, open, tidy, passed,
          instances, current, lives, new, calls, gone,
          registered, results, settled, fired, age, health, inTime

Weight == [b \in Ids |-> IF b = Heavy THEN 2 ELSE IF b = Light THEN 1 ELSE 0]

balancer == INSTANCE LoadBalancer
discovery == INSTANCE ServiceDiscovery
checks == INSTANCE HealthChecks

ASSUME ScalingAssumption ==
  /\ balancer!BalancerAssumption
  /\ discovery!DiscoveryAssumption
  /\ checks!HealthAssumption

balancerVars == <<algorithm, backends, rrIndex, weightedCursor, open, tidy, passed>>
discoveryVars == <<instances, current, lives, new, calls, gone>>
checksVars == <<registered, results, settled, fired, age, health, inTime>>

NoRing == hash32 = <<>> /\ ring = <<>> /\ sortedHashes = <<>> /\ members = {}

NoBalancer ==
  /\ algorithm = "random" /\ backends = <<>> /\ rrIndex = 0 /\ weightedCursor = 0
  /\ open = [b \in Ids |-> 0] /\ tidy = TRUE /\ passed = balancer!Nobody

MCInit ==
  /\ part \in {"ring", "balancer", "discovery", "checks"}
  /\ IF part = "ring" THEN Init ELSE NoRing
  /\ IF part = "balancer" THEN balancer!Init ELSE NoBalancer
  /\ discovery!Init /\ checks!Init

MCNext ==
  \/ part = "ring" /\ Next /\ UNCHANGED <<balancerVars, discoveryVars, checksVars>>
  \/ part = "balancer" /\ balancer!Next /\ UNCHANGED <<vars, discoveryVars, checksVars>>
  \/ part = "discovery" /\ discovery!Next /\ UNCHANGED <<vars, balancerVars, checksVars>>
  \/ part = "checks" /\ checks!Next /\ UNCHANGED <<vars, balancerVars, discoveryVars>>

MCSpec ==
  MCInit /\ [][MCNext /\ UNCHANGED part]_<<part, vars, balancerVars, discoveryVars, checksVars>>

(* The clock moves, and timers fire; that an instance answers, that fetch    *)
(* finds it dead, or that a health check settles, is not assumed.            *)
Fairness ==
  /\ WF_discoveryVars(part = "discovery" /\ discovery!Tick)
  /\ \A c \in Clients : WF_discoveryVars(part = "discovery" /\ discovery!Abort(c))
  /\ checks!Fairness

MCFairSpec == MCSpec /\ Fairness
-----------------------------------------------------------------------------
(* The ring is that of its members, and both ways to walk it find what they  *)
(* should: getNode the nearest point, getNodes as many distinct nodes as     *)
(* there are, starting with it.                                              *)
LookupsAgree ==
  part = "ring" => TypeOK /\ RingOfMembers /\ FindsNearest /\ ReplicasStartAtNode

(* A change of members moves the keys of the changed node only, and leaves   *)
(* the other replicas where they are.                                        *)
OthersStay == MinimalRemapping /\ ReplicasStay

(* activeConnections never counts a request that is over, and is exact where *)
(* LoadBalancer says.                                                        *)
CountsKept == part = "balancer" => balancer!TypeOK /\ balancer!CountsKept

(* The round-robin algorithms let nobody overtake beyond its weight.         *)
TurnsTaken == part = "balancer" => balancer!TurnsTaken

(* discover() finds the instances that were heard of lately.                 *)
FindsTheLiving == part = "discovery" => discovery!FindsTheLiving

(* Every call through the client and every round of health checks ends,      *)
(* whatever stays silent.                                                    *)
NothingWaitsForever == discovery!CallEnds /\ checks!RoundEnds

(* A round of health checks reports the worst of its checks.                 *)
ReportsWorst == part = "checks" => checks!ReportsWorst
=============================================================================
