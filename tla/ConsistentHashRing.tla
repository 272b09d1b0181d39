-------------------------- MODULE ConsistentHashRing --------------------------
(* The consistent-hash ring of packages/scaling.  The hash is chosen at the  *)
(* start, and no two virtual nodes share one; a key is its hash.  Arrays are *)
(* indexed from 0, as in the code.                                           *)
EXTENDS Naturals, FiniteSets, Collections

CONSTANTS Nodes,
          VirtualNodes,   \* virtualNodes
          MaxHash         \* hashes are 0 .. MaxHash

ASSUME RingAssumption ==
  /\ IsFiniteSet(Nodes)
  /\ VirtualNodes \in Nat \ {0} /\ MaxHash \in Nat
  /\ Cardinality(Nodes) * VirtualNodes <= MaxHash + 1

VARIABLES hash32,         \* the hash of every virtual node
          ring,           \* the Map from hashes to nodes, as a function
          sortedHashes,   \* its keys, sorted
          members         \* history: nodes that were added and not removed

vars == <<hash32, ring, sortedHashes, members>>

Hashes == 0 .. MaxHash
Virtual == Nodes \X (1 .. VirtualNodes)

TypeOK ==
  /\ hash32 \in [Virtual -> Hashes]
  /\ DOMAIN ring \subseteq Hashes /\ \A h \in DOMAIN ring : ring[h] \in Nodes
  /\ sortedHashes \in Seq(Hashes)
  /\ members \subseteq Nodes

Init ==
  /\ hash32 \in {h \in [Virtual -> Hashes] : IsInjective(h)}
  /\ ring = [h \in {} |-> h] /\ sortedHashes = <<>>
  /\ members = {}
-----------------------------------------------------------------------------
(* Faulty variants of the operators below, used to check that the            *)
(* properties can fail.                                                      *)
NoWrap(h) == FALSE
FirstOnly(n) == {hash32[<<n, 1>>]}
ByModulo(h) == h % Len(sortedHashes)
Unsorted(hashes) == Ranked(hashes, {p \in hashes \X hashes : p[1] > p[2]})
-----------------------------------------------------------------------------
PointsOf(n) == {hash32[<<n, i>>] : i \in 1 .. VirtualNodes}

(* The points removeNode() deletes.                                          *)
Deleted(n) == PointsOf(n)

Sorted(hashes) == Ascending(hashes)

AddNode(n) ==
  /\ ring' = [h \in DOMAIN ring \cup PointsOf(n) |->
                IF h \in PointsOf(n) THEN n ELSE ring[h]]
  /\ sortedHashes' = Sorted(DOMAIN ring')
  /\ members' = members \cup {n}
  /\ UNCHANGED hash32

RemoveNode(n) ==
  /\ ring' = [h \in DOMAIN ring \ Deleted(n) |-> ring[h]]
  /\ sortedHashes' = Sorted(DOMAIN ring')
  /\ members' = members \ {n}
  /\ UNCHANGED hash32

Next == \E n \in Nodes : AddNode(n) \/ RemoveNode(n)

Spec == Init /\ [][Next]_vars
-----------------------------------------------------------------------------
(* getNode(): a binary search over 0 .. hi.                                  *)
IsBefore(h, i) == sortedHashes[i + 1] < h

WrapsAround(h) == h > Last(sortedHashes)

Found(h) ==
  LET n == Len(sortedHashes)
      search[range \in (0 .. n) \X (0 .. n)] ==
        LET lo == range[1]
            hi == range[2]
            mid == (lo + hi) \div 2
        IN  IF lo >= hi THEN lo
            ELSE IF IsBefore(h, mid) THEN search[<<mid + 1, hi>>] ELSE search[<<lo, mid>>]
  IN  search[<<0, n - 1>>]

GetNode(h) ==
  IF WrapsAround(h) THEN ring[Head(sortedHashes)]
  ELSE ring[sortedHashes[Found(h) + 1]]

(* getNodes(): the distinct nodes met from the first hash at or after h,     *)
(* around the ring.                                                          *)
AtOrAfter(h) == {i \in DOMAIN sortedHashes : sortedHashes[i] >= h}

StartIndex(h) ==
  IF AtOrAfter(h) = {} THEN 1
  ELSE CHOOSE i \in AtOrAfter(h) : \A j \in AtOrAfter(h) : i <= j

Around(h) ==
  LET n == Len(sortedHashes)
  IN  [k \in 1 .. n |-> ring[sortedHashes[((StartIndex(h) + k - 2) % n) + 1]]]

GetNodes(h, count) ==
  LET walk == Around(h)
      new == {k \in DOMAIN walk : \A j \in 1 .. k - 1 : walk[j] # walk[k]}
      order == Ascending(new)
  IN  [k \in 1 .. IF count < Len(order) THEN count ELSE Len(order) |->
         walk[order[k]]]
-----------------------------------------------------------------------------
(* The ring, and with it the place of every key, depends on the members only *)
(* and not on the order in which they came, went and came again.             *)
RingOfMembers ==
  /\ DOMAIN ring = UNION {PointsOf(n) : n \in members}
  /\ \A n \in members : \A h \in PointsOf(n) : ring[h] = n
  /\ ToSet(sortedHashes) = DOMAIN ring
  /\ \A i, j \in DOMAIN sortedHashes : i < j => sortedHashes[i] < sortedHashes[j]

(* A key goes to the node of the nearest point at or after it, and past the  *)
(* last point to that of the first.                                          *)
Nearest(h) ==
  LET after == {g \in DOMAIN ring : g >= h}
      best == IF after = {} THEN DOMAIN ring ELSE after
  IN  ring[CHOOSE g \in best : \A f \in best : g <= f]

FindsNearest == members # {} => \A h \in Hashes : GetNode(h) = Nearest(h)

(* Replicas are distinct, as many as asked for or as there are, and the      *)
(* first is the node the key maps to.                                        *)
ReplicasStartAtNode ==
  members # {} => \A h \in Hashes, count \in 1 .. Cardinality(Nodes) :
    LET nodes == GetNodes(h, count)
    IN  /\ IsInjective(nodes) /\ Head(nodes) = GetNode(h)
        /\ Len(nodes) = IF count < Cardinality(members) THEN count
                        ELSE Cardinality(members)

(* scaling/README, minimal remapping when nodes are added or removed: a key  *)
(* that changes its node goes to the added one or comes from the removed one.*)
MinimalRemapping ==
  [][members # {} /\ members' # {} =>
       \A h \in Hashes :
         GetNode(h) # GetNode(h)' =>
           \/ GetNode(h)' \in members' \ members
           \/ GetNode(h) \in members \ members']_vars

(* When a node goes, the other replicas of a key stay, in their order, and   *)
(* the first of them takes over.                                             *)
ReplicasStay ==
  [][members # {} /\ members' \subseteq members =>
       \A h \in Hashes :
         Kept(GetNodes(h, Cardinality(Nodes)), members')
           = GetNodes(h, Cardinality(Nodes))']_vars
=============================================================================
