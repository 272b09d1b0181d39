----------------------------- MODULE LoadBalancer -----------------------------
(* The load balancer of packages/scaling: four ways to choose the backend of *)
(* the next request, a pool that changes, an algorithm that may be switched, *)
(* and requests that are released when they complete.                        *)
EXTENDS Naturals, SequencesExt, FiniteSetsExt

CONSTANTS Ids,       \* ids of backends
          Weight,    \* the weight each is added with
          MaxOpen,   \* bound: requests open at a time
          Cycle      \* a multiple of every length the cursors run over

BalancerAssumption ==
  /\ IsFiniteSet(Ids) /\ Weight \in [Ids -> Nat]
  /\ MaxOpen \in Nat /\ Cycle \in Nat \ {0}
  /\ \A pool \in SUBSET Ids :
       LET total == MapThenSumSet(LAMBDA b : Weight[b], pool)
       IN  /\ pool # {} => Cycle % Cardinality(pool) = 0
           /\ total > 0 => Cycle % total = 0

VARIABLES algorithm,
          backends,        \* [id, active]: active is activeConnections
          rrIndex,         \* kept modulo Cycle
          weightedCursor,  \* kept modulo Cycle
          open,            \* history: requests routed to each id, not released
          tidy,            \* history: all routed by least-connections, and no
                           \* id added while it still had open requests
          passed           \* history: passed[a, b] = requests a got in turn
                           \* since the last one of b

cursors == <<rrIndex, weightedCursor>>
vars == <<algorithm, backends, cursors, open, tidy, passed>>

Algorithms == {"round-robin", "weighted-round-robin", "least-connections", "random"}

TypeOK ==
  /\ algorithm \in Algorithms
  /\ backends \in Seq([id : Ids, active : 0 .. MaxOpen])
  /\ \A i, j \in DOMAIN backends : backends[i].id = backends[j].id => i = j
  /\ rrIndex \in 0 .. Cycle - 1 /\ weightedCursor \in 0 .. Cycle - 1
  /\ open \in [Ids -> 0 .. MaxOpen] /\ tidy \in BOOLEAN
  /\ passed \in [Ids \X Ids -> Nat]

Nobody == [pair \in Ids \X Ids |-> 0]

(* The constructor refuses an empty pool.                                    *)
Init ==
  /\ algorithm \in Algorithms
  /\ \E ids \in SetToAllKPermutations(Ids) :
       /\ ids # <<>>
       /\ backends = [i \in DOMAIN ids |-> [id |-> ids[i], active |-> 0]]
  /\ rrIndex = 0 /\ weightedCursor = 0
  /\ open = [b \in Ids |-> 0] /\ tidy = TRUE
  /\ passed = Nobody
-----------------------------------------------------------------------------
(* Faulty variants of the operators below, used to check that the            *)
(* properties can fail.                                                      *)
NotMoved(n) == n
NeverCountedDown(n) == n
-----------------------------------------------------------------------------
(* The operators of the code.                                                *)
Moved(n) == (n + 1) % Cycle

CountedDown(n) == IF n > 0 THEN n - 1 ELSE n

LeastLoaded(i) == \A j \in DOMAIN backends : backends[i].active <= backends[j].active

(* The indices of the backends, each repeated as its weight says.            *)
Expanded ==
  FlattenSeq([i \in DOMAIN backends |->
                [n \in 1 .. Weight[backends[i].id] |-> i]])

(* What next() returns: an index, or 0 where the code returns undefined or,  *)
(* for least-connections, throws.                                            *)
Chosen ==
  CASE backends = <<>> -> {0}
    [] algorithm = "round-robin" -> {(rrIndex % Len(backends)) + 1}
    [] algorithm = "weighted-round-robin" ->
         IF Expanded = <<>> THEN {0}
         ELSE {Expanded[(weightedCursor % Len(Expanded)) + 1]}
    [] algorithm = "least-connections" ->
         {Min({i \in DOMAIN backends : LeastLoaded(i)})}
    [] OTHER -> DOMAIN backends

(* The filter of removeBackend(): ids are unique.                            *)
Without(b) == RemoveFirstMatch(backends, LAMBDA e : e.id = b)

(* b is due for a turn: not without weight under weighted-round-robin, nor   *)
(* where there are no turns.                                                 *)
Waits(b) ==
  /\ \E i \in DOMAIN backends : backends[i].id = b
  /\ \/ algorithm = "round-robin"
     \/ algorithm = "weighted-round-robin" /\ Weight[b] > 0
-----------------------------------------------------------------------------
(* The cursors move whatever next() returns.                                 *)
MoveCursors ==
  /\ rrIndex' = IF algorithm = "round-robin" THEN Moved(rrIndex) ELSE rrIndex
  /\ weightedCursor' = IF algorithm = "weighted-round-robin"
                         THEN Moved(weightedCursor) ELSE weightedCursor

(* next().  Only least-connections counts the request.                       *)
Route(i) ==
  /\ i \in Chosen \ {0}
  /\ MapThenSumSet(LAMBDA b : open[b], Ids) < MaxOpen
  /\ MoveCursors
  /\ backends' = IF algorithm = "least-connections"
                   THEN [backends EXCEPT ![i].active = @ + 1] ELSE backends
  /\ open' = [open EXCEPT ![backends[i].id] = @ + 1]
  /\ tidy' = (tidy /\ algorithm = "least-connections")
  /\ passed' = [pair \in Ids \X Ids |->
                  IF pair[2] = backends[i].id \/ ~Waits(pair[2]) THEN 0
                  ELSE IF pair[1] = backends[i].id THEN passed[pair] + 1
                  ELSE passed[pair]]
  /\ UNCHANGED algorithm

RouteNowhere ==
  /\ 0 \in Chosen
  /\ MoveCursors
  /\ UNCHANGED <<algorithm, backends, open, tidy, passed>>

(* release(id), once for every request, though its backend may be gone.      *)
Release(b) ==
  /\ open[b] > 0
  /\ backends' = [i \in DOMAIN backends |->
                    IF backends[i].id = b
                      THEN [backends[i] EXCEPT !.active = CountedDown(@)]
                      ELSE backends[i]]
  /\ open' = [open EXCEPT ![b] = @ - 1]
  /\ UNCHANGED <<algorithm, cursors, tidy, passed>>

(* Callers add an id only when it is not in the pool.                        *)
AddBackend(b) ==
  /\ \A i \in DOMAIN backends : backends[i].id # b
  /\ backends' = Append(backends, [id |-> b, active |-> 0])
  /\ tidy' = (tidy /\ open[b] = 0)
  /\ passed' = Nobody
  /\ UNCHANGED <<algorithm, cursors, open>>

RemoveBackend(b) ==
  /\ backends' = Without(b)
  /\ passed' = Nobody
  /\ UNCHANGED <<algorithm, cursors, open, tidy>>

SetAlgorithm(a) ==
  /\ algorithm' = a
  /\ passed' = Nobody
  /\ UNCHANGED <<backends, cursors, open, tidy>>

Next ==
  \/ \E i \in DOMAIN backends : Route(i)
  \/ RouteNowhere
  \/ \E b \in Ids : Release(b) \/ AddBackend(b) \/ RemoveBackend(b)
  \/ \E a \in Algorithms : SetAlgorithm(a)

Spec == Init /\ [][Next]_vars
-----------------------------------------------------------------------------
(* activeConnections never counts a request that is over: a backend is never *)
(* avoided for load it does not have.  It is exact while every request is    *)
(* routed by least-connections and no backend returns to the pool with       *)
(* requests still open: otherwise a release can take away another's count.   *)
CountsKept ==
  \A i \in DOMAIN backends :
    LET b == backends[i].id
    IN  backends[i].active <= open[b] /\ (tidy => backends[i].active = open[b])

(* While pool and algorithm stay, nobody gets more than its weight (one, for *)
(* round-robin) in requests between two of another backend.                  *)
TurnsTaken ==
  \A a, b \in Ids :
    passed[a, b] <= IF algorithm = "weighted-round-robin" THEN Weight[a] ELSE 1
=============================================================================
