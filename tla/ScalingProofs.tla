---------------------------- MODULE ScalingProofs ----------------------------
(* Proofs about what spreads calls over processes and watches them, for      *)
(* every number of backends, hosts, clients and checks and every timeout:    *)
(* the counts and the turns of the balancer, service discovery, health       *)
(* checks, and the ring.                                                     *)
EXTENDS MCScaling, CollectionLemmas

(* The sum of open keeps every count within MaxOpen.                         *)
BalancerIInv ==
  /\ balancer!TypeOK
  /\ SumOver(open, Ids) <= MaxOpen
  /\ balancer!CountsKept

Entries == [id : Ids, active : 0 .. MaxOpen]

LEMMA BalancerTypes ==
  /\ IsFiniteSet(Ids) /\ MaxOpen \in Nat /\ Cycle \in Nat /\ Cycle >= 1
BY ScalingAssumption
   DEF balancer!BalancerAssumption, balancer!IsFiniteSet, IsFiniteSet

(* What the filter of removeBackend() leaves.                                *)
LEMMA WithoutLeaves ==
  ASSUME backends \in Seq(Entries), NEW b \in Ids
  PROVE  /\ balancer!Without(b) \in Seq(Entries)
         /\ \E f \in [DOMAIN balancer!Without(b) -> DOMAIN backends] :
              /\ \A i \in DOMAIN f : balancer!Without(b)[i] = backends[f[i]]
              /\ \A i, j \in DOMAIN f : f[i] = f[j] => i = j
<1>. DEFINE s == backends
            w == balancer!Without(b)
            I == {i \in 1 .. Len(s) : s[i].id = b}
<1>1. CASE I = {}
  <2>1. w = s
    BY <1>1 DEF balancer!Without, balancer!RemoveFirstMatch
  <2>2. [i \in DOMAIN w |-> i] \in [DOMAIN w -> DOMAIN s]
    BY <2>1
  <2>3. QED
    BY <2>1, <2>2
<1>2. CASE I # {}
  <2>. DEFINE m == Min(I)
  <2>1. w = RemoveAt(s, m)
    BY <1>2 DEF balancer!Without, balancer!RemoveFirstMatch, balancer!SelectInSeq,
                balancer!Min, Min, balancer!RemoveAt, RemoveAt
  <2>2. m \in I
    <3>1. I \in SUBSET Nat
      OBVIOUS
    <3>. HIDE DEF I
    <3>2. \E k \in I : \A l \in I : k <= l
      BY <1>2, <3>1, LeastNatural
    <3>3. QED
      BY <3>2 DEF Min
  <2>3. m \in DOMAIN s
    BY <2>2
  <2>. HIDE DEF m
  <2>4. /\ w \in Seq(Entries) /\ Len(w) = Len(s) - 1 /\ DOMAIN w = 1 .. Len(s) - 1
        /\ \A j \in 1 .. Len(s) - 1 : w[j] = IF j < m THEN s[j] ELSE s[j + 1]
    BY <2>1, <2>3, RemoveAtProperties
  <2>. HIDE DEF w, I
  <2>5. m \in 1 .. Len(s) /\ Len(s) \in Nat /\ DOMAIN s = 1 .. Len(s)
    BY <2>3
  <2>. DEFINE f == [j \in DOMAIN w |-> IF j < m THEN j ELSE j + 1]
  <2>6. f \in [DOMAIN w -> DOMAIN s]
    BY <2>4, <2>5
  <2>7. \A j \in DOMAIN f : w[j] = s[f[j]]
    BY <2>4, <2>5
  <2>8. \A i, j \in DOMAIN f : f[i] = f[j] => i = j
    BY <2>4, <2>5
  <2>. HIDE DEF f
  <2>9. QED
    BY <2>4, <2>6, <2>7, <2>8 DEF w
<1>3. QED
  BY <1>1, <1>2

LEMMA NoBalancerCounts == NoBalancer => BalancerIInv
<1>. SUFFICES ASSUME NoBalancer PROVE BalancerIInv
  OBVIOUS
<1>. USE BalancerTypes
<1>1. SumOver(open, Ids) = 0
  BY SumOfZeros DEF NoBalancer
<1>2. <<>> \in Seq([id : Ids, active : 0 .. MaxOpen])
  OBVIOUS
<1>3. balancer!Nobody \in [Ids \X Ids -> Nat]
  BY DEF balancer!Nobody
<1>4. balancer!TypeOK
  BY <1>2, <1>3 DEF NoBalancer, balancer!TypeOK, balancer!Algorithms
<1>5. QED
  BY <1>1, <1>4 DEF BalancerIInv, balancer!CountsKept, NoBalancer

LEMMA InitBalancer == balancer!Init => BalancerIInv
<1>. SUFFICES ASSUME balancer!Init PROVE BalancerIInv
  OBVIOUS
<1>. USE BalancerTypes
<1>1. SumOver(open, Ids) = 0
  BY SumOfZeros DEF balancer!Init
<1>2. PICK ids \in balancer!SetToAllKPermutations(Ids) :
        backends = [i \in DOMAIN ids |-> [id |-> ids[i], active |-> 0]]
  BY DEF balancer!Init
<1>3. PICK T \in SUBSET Ids : ids \in balancer!SetToSeqs(T)
  BY <1>2 DEF balancer!SetToAllKPermutations
<1>4. /\ ids \in [1 .. Cardinality(T) -> T] /\ Cardinality(T) \in Nat
      /\ \A i, j \in 1 .. Cardinality(T) : i # j => ids[i] # ids[j]
  <2>1. Cardinality(T) \in Nat
    BY FS_Subset, FS_CardinalityType
  <2>2. QED
    BY <1>3, <2>1 DEF balancer!SetToSeqs, balancer!Cardinality, Cardinality
<1>5. /\ backends \in [1 .. Cardinality(T) -> Entries]
      /\ \A i \in DOMAIN backends : backends[i] = [id |-> ids[i], active |-> 0]
  BY <1>2, <1>4 DEF Entries
<1>6. backends \in Seq([id : Ids, active : 0 .. MaxOpen])
  <2>1. ASSUME NEW n \in Nat, NEW g \in [1 .. n -> Entries]
        PROVE  g \in Seq(Entries)
    OBVIOUS
  <2>2. QED
    BY <1>4, <1>5, <2>1 DEF Entries
<1>7. \A i, j \in DOMAIN backends : backends[i].id = backends[j].id => i = j
  BY <1>4, <1>5
<1>8. balancer!Nobody \in [Ids \X Ids -> Nat]
  BY DEF balancer!Nobody
<1>9. balancer!TypeOK
  BY <1>6, <1>7, <1>8 DEF balancer!Init, balancer!TypeOK, balancer!Algorithms
<1>10. balancer!CountsKept
  <2>1. \A i \in DOMAIN backends : backends[i].id \in Ids /\ backends[i].active = 0
    BY <1>4, <1>5
  <2>2. QED
    BY <2>1 DEF balancer!CountsKept, balancer!Init
<1>11. QED
  BY <1>1, <1>9, <1>10 DEF BalancerIInv

(* Moving the cursors keeps them below Cycle.                                *)
LEMMA CursorsMoved ==
  ASSUME BalancerIInv, balancer!MoveCursors
  PROVE  rrIndex' \in 0 .. Cycle - 1 /\ weightedCursor' \in 0 .. Cycle - 1
<1>1. \A n \in 0 .. Cycle - 1 : (n + 1) % Cycle \in 0 .. Cycle - 1
  BY BalancerTypes
<1>2. rrIndex \in 0 .. Cycle - 1 /\ weightedCursor \in 0 .. Cycle - 1
  BY DEF BalancerIInv, balancer!TypeOK
<1>3. QED
  BY <1>1, <1>2 DEF balancer!MoveCursors, balancer!Moved

LEMMA EntriesSeq ==
  ASSUME NEW n \in Nat, NEW s, s = [j \in 1 .. n |-> s[j]],
         \A j \in 1 .. n : s[j] \in Entries
  PROVE  s \in Seq([id : Ids, active : 0 .. MaxOpen])
<1>1. s \in [1 .. n -> Entries]
  OBVIOUS
<1>2. s \in Seq(Entries)
  BY <1>1
<1>3. QED
  BY <1>2 DEF Entries

LEMMA BalancerState ==
  ASSUME BalancerIInv
  PROVE  /\ backends \in Seq(Entries) /\ DOMAIN backends = 1 .. Len(backends)
         /\ Len(backends) \in Nat
         /\ \A i \in DOMAIN backends :
              /\ backends[i] \in Entries
              /\ backends[i].id \in Ids /\ backends[i].active \in 0 .. MaxOpen
              /\ backends[i].active <= open[backends[i].id]
              /\ tidy => backends[i].active = open[backends[i].id]
         /\ \A i, j \in DOMAIN backends : backends[i].id = backends[j].id => i = j
         /\ open \in [Ids -> 0 .. MaxOpen] /\ tidy \in BOOLEAN
         /\ SumOver(open, Ids) \in Int
<1>1. backends \in Seq(Entries) /\ open \in [Ids -> 0 .. MaxOpen] /\ tidy \in BOOLEAN
  BY DEF BalancerIInv, balancer!TypeOK, Entries
<1>2. \A b \in Ids : open[b] \in Int
  BY <1>1, BalancerTypes
<1>3. SumOver(open, Ids) \in Int
  BY <1>2, BalancerTypes, SumType
<1>4. \A i \in DOMAIN backends : backends[i] \in Entries
  BY <1>1
<1>5. QED
  BY <1>1, <1>3, <1>4 DEF BalancerIInv, balancer!TypeOK, balancer!CountsKept,
     Entries

LEMMA RouteKept ==
  ASSUME BalancerIInv, NEW i \in DOMAIN backends, balancer!Route(i)
  PROVE  BalancerIInv'
<1>0. /\ DOMAIN backends = 1 .. Len(backends) /\ Len(backends) \in Nat
      /\ \A j \in DOMAIN backends :
           /\ backends[j] \in Entries
           /\ backends[j].id \in Ids /\ backends[j].active \in 0 .. MaxOpen
           /\ backends[j].active <= open[backends[j].id]
           /\ tidy => backends[j].active = open[backends[j].id]
      /\ \A j, k \in DOMAIN backends : backends[j].id = backends[k].id => j = k
      /\ open \in [Ids -> 0 .. MaxOpen] /\ tidy \in BOOLEAN
      /\ SumOver(open, Ids) \in Int
  BY BalancerState
<1>. USE BalancerTypes
<1>. DEFINE b == backends[i].id
<1>1. /\ b \in Ids /\ open' = [open EXCEPT ![b] = @ + 1]
      /\ tidy' \in BOOLEAN /\ (tidy' => tidy /\ algorithm = "least-connections")
      /\ algorithm' = algorithm
      /\ SumOver(open, Ids) < MaxOpen
  <2>0. b \in Ids
    BY <1>0
  <2>1. balancer!MapThenSumSet(LAMBDA c : open[c], Ids) = SumOver(open, Ids)
    BY DEF SumOver, balancer!MapThenSumSet, MapThenSumSet,
           balancer!MapThenFoldSet, MapThenFoldSet
  <2>2. QED
    BY <2>0, <2>1 DEF balancer!Route
<1>2. /\ \A c \in Ids : open'[c] = IF c = b THEN open[c] + 1 ELSE open[c]
      /\ \A c \in Ids : open[c] \in 0 .. MaxOpen
  BY <1>0, <1>1
<1>. HIDE DEF b
<1>3. SumOver(open', Ids) = SumOver(open, Ids) + 1
  <2>1. \A c \in Ids : open[c] \in Int /\ open'[c] \in Int
    BY <1>2
  <2>2. b \in Ids /\ \A c \in Ids \ {b} : open'[c] = open[c]
    BY <1>1, <1>2
  <2>3. SumOver(open', Ids) = SumOver(open, Ids) - open[b] + open'[b]
    BY <2>1, <2>2, SumUpdate
  <2>4. QED
    BY <1>0, <1>2, <2>2, <2>3
<1>4. open[b] < MaxOpen
  <2>1. SumOver(open, {b}) <= SumOver(open, Ids)
    <3>1. {b} \in SUBSET Ids
      BY <1>1
    <3>2. \A c \in Ids : open[c] \in Int /\ 0 <= open[c]
      BY <1>2
    <3>3. QED
      BY <3>1, <3>2, SumMonotone
  <2>2. SumOver(open, {b}) = open[b]
    <3>1. IsFiniteSet({b}) /\ \A c \in {b} : open[c] \in Int
      <4>1. open[b] \in Int /\ IsFiniteSet({b})
        BY <1>1, <1>2, FS_Singleton
      <4>2. QED
        BY <4>1
    <3>2. \A c \in {b} : SumOver(open, {b}) = open[c] + SumOver(open, {b} \ {c})
      BY <3>1, SumWithout
    <3>3. {b} \ {b} = {}
      OBVIOUS
    <3>4. SumOver(open, {b}) = open[b] + 0
      BY <3>2, <3>3, SumEmpty
    <3>5. QED
      BY <1>1, <1>2, <3>4
  <2>3. QED
    BY <1>0, <1>1, <1>2, <2>1, <2>2
<1>5. open' \in [Ids -> 0 .. MaxOpen]
  <2>1. \A c \in Ids : open'[c] \in 0 .. MaxOpen
    BY <1>1, <1>2, <1>4
  <2>2. QED
    BY <1>0, <1>1, <2>1
<1>6. /\ DOMAIN backends' = DOMAIN backends
      /\ \A j \in DOMAIN backends :
           /\ backends'[j].id = backends[j].id
           /\ backends'[j].active =
                IF algorithm = "least-connections" /\ j = i
                  THEN backends[j].active + 1 ELSE backends[j].active
           /\ backends'[j] \in [id : {backends'[j].id}, active : {backends'[j].active}]
  <2>1. CASE algorithm = "least-connections"
    <3>1. backends' = [backends EXCEPT ![i].active = @ + 1]
      BY <2>1 DEF balancer!Route
    <3>2. QED
      BY <1>0, <2>1, <3>1 DEF Entries
  <2>2. CASE algorithm # "least-connections"
    <3>1. backends' = backends
      BY <2>2 DEF balancer!Route
    <3>2. QED
      BY <1>0, <2>2, <3>1 DEF Entries
  <2>3. QED
    BY <2>1, <2>2
<1>7. \A j \in DOMAIN backends' : backends'[j].id = b <=> j = i
  BY <1>0, <1>6 DEF b
<1>8. \A j \in DOMAIN backends' :
        /\ backends'[j].active \in 0 .. MaxOpen
        /\ backends'[j].active <= open'[backends'[j].id]
        /\ tidy' => backends'[j].active = open'[backends'[j].id]
  <2>. TAKE j \in DOMAIN backends'
  <2>0. /\ backends'[j].id = backends[j].id
        /\ backends[j].active \in 0 .. MaxOpen
        /\ backends[j].active <= open[backends[j].id]
        /\ tidy => backends[j].active = open[backends[j].id]
        /\ backends[j].id \in Ids
    BY <1>0, <1>6
  <2>1. CASE j = i
    <3>1. /\ backends[j].id = b /\ open'[b] = open[b] + 1
          /\ open[b] \in 0 .. MaxOpen
      BY <1>1, <1>2, <1>7, <2>0, <2>1
    <3>2. backends'[j].active = IF algorithm = "least-connections"
            THEN backends[j].active + 1 ELSE backends[j].active
      BY <1>6, <2>1
    <3>3. QED
      BY <1>1, <1>4, <2>0, <3>1, <3>2
  <2>2. CASE j # i
    <3>1. /\ open'[backends[j].id] = open[backends[j].id]
          /\ backends'[j].active = backends[j].active
      BY <1>2, <1>6, <1>7, <2>0, <2>2
    <3>2. QED
      BY <1>1, <2>0, <3>1
  <2>3. QED
    BY <2>1, <2>2
<1>9. backends' \in Seq([id : Ids, active : 0 .. MaxOpen])
  <2>1. \A j \in DOMAIN backends' : backends'[j] \in Entries
    <3>1. \A j \in DOMAIN backends' :
            /\ backends'[j].id \in Ids /\ backends'[j].active \in 0 .. MaxOpen
            /\ backends'[j] \in [id : {backends'[j].id}, active : {backends'[j].active}]
      BY <1>0, <1>6, <1>8
    <3>2. QED
      BY <3>1 DEF Entries
  <2>2. backends' = [j \in 1 .. Len(backends) |-> backends'[j]]
    <3>1. backends = [j \in 1 .. Len(backends) |-> backends[j]]
      BY BalancerState
    <3>2. QED
      BY <1>0, <3>1 DEF balancer!Route
  <2>3. QED
    BY <1>0, <1>6, <2>1, <2>2, EntriesSeq
<1>10. passed' \in [Ids \X Ids -> Nat]
  <2>1. \A pair \in Ids \X Ids : passed[pair] \in Nat
    BY DEF BalancerIInv, balancer!TypeOK
  <2>. DEFINE Z == {pair \in Ids \X Ids :
                      pair[2] = backends[i].id \/ ~balancer!Waits(pair[2])}
              P == {pair \in Ids \X Ids : pair[1] = backends[i].id}
  <2>2. passed' = [pair \in Ids \X Ids |->
                     IF pair \in Z THEN 0
                     ELSE IF pair \in P THEN passed[pair] + 1 ELSE passed[pair]]
    BY DEF balancer!Route
  <2>. HIDE DEF Z, P
  <2>3. QED
    BY <2>1, <2>2
<1>11. balancer!TypeOK'
  <2>1. rrIndex' \in 0 .. Cycle - 1 /\ weightedCursor' \in 0 .. Cycle - 1
    BY CursorsMoved DEF balancer!Route
  <2>2. algorithm' \in balancer!Algorithms /\ tidy' \in BOOLEAN
    BY <1>1 DEF BalancerIInv, balancer!TypeOK
  <2>3. \A j, k \in DOMAIN backends' : backends'[j].id = backends'[k].id => j = k
    BY <1>0, <1>6
  <2>4. QED
    BY <1>5, <1>9, <1>10, <2>1, <2>2, <2>3 DEF balancer!TypeOK
<1>12. SumOver(open', Ids) <= MaxOpen
  BY <1>0, <1>1, <1>3
<1>13. balancer!CountsKept'
  BY <1>8 DEF balancer!CountsKept
<1>14. QED
  BY <1>11, <1>12, <1>13 DEF BalancerIInv

LEMMA ReleaseKept ==
  ASSUME BalancerIInv, NEW b \in Ids, balancer!Release(b)
  PROVE  BalancerIInv'
<1>0. /\ DOMAIN backends = 1 .. Len(backends) /\ Len(backends) \in Nat
      /\ \A j \in DOMAIN backends :
           /\ backends[j] \in Entries
           /\ backends[j].id \in Ids /\ backends[j].active \in 0 .. MaxOpen
           /\ backends[j].active <= open[backends[j].id]
           /\ tidy => backends[j].active = open[backends[j].id]
      /\ \A j, k \in DOMAIN backends : backends[j].id = backends[k].id => j = k
      /\ open \in [Ids -> 0 .. MaxOpen] /\ tidy \in BOOLEAN
      /\ SumOver(open, Ids) \in Int
  BY BalancerState
<1>. USE BalancerTypes
<1>1. /\ open[b] > 0 /\ open' = [open EXCEPT ![b] = @ - 1]
      /\ UNCHANGED <<algorithm, rrIndex, weightedCursor, tidy, passed>>
      /\ DOMAIN backends' = DOMAIN backends
      /\ \A j \in DOMAIN backends :
           backends'[j] = IF backends[j].id = b
             THEN [backends[j] EXCEPT !.active = balancer!CountedDown(@)]
             ELSE backends[j]
  BY DEF balancer!Release, balancer!cursors
<1>2. /\ \A c \in Ids : open'[c] = IF c = b THEN open[c] - 1 ELSE open[c]
      /\ \A c \in Ids : open[c] \in 0 .. MaxOpen
  BY <1>0, <1>1
<1>3. SumOver(open', Ids) = SumOver(open, Ids) - 1
  <2>1. \A c \in Ids : open[c] \in Int /\ open'[c] \in Int
    BY <1>2
  <2>2. b \in Ids /\ \A c \in Ids \ {b} : open'[c] = open[c]
    BY <1>1, <1>2
  <2>3. SumOver(open', Ids) = SumOver(open, Ids) - open[b] + open'[b]
    BY <2>1, <2>2, SumUpdate
  <2>4. QED
    BY <1>0, <1>2, <2>2, <2>3
<1>4. open' \in [Ids -> 0 .. MaxOpen]
  <2>1. \A c \in Ids : open'[c] \in 0 .. MaxOpen
    BY <1>1, <1>2
  <2>2. QED
    BY <1>0, <1>1, <2>1
<1>5. \A j \in DOMAIN backends :
        /\ backends'[j].id = backends[j].id
        /\ backends'[j].active =
             IF backends[j].id = b /\ backends[j].active > 0
               THEN backends[j].active - 1 ELSE backends[j].active
        /\ backends'[j] \in [id : {backends'[j].id}, active : {backends'[j].active}]
  <2>1. \A j \in DOMAIN backends : backends[j] \in Entries
    BY <1>0
  <2>2. QED
    BY <1>1, <2>1 DEF Entries, balancer!CountedDown
<1>6. \A j \in DOMAIN backends' :
        /\ backends'[j].active \in 0 .. MaxOpen
        /\ backends'[j].active <= open'[backends'[j].id]
        /\ tidy' => backends'[j].active = open'[backends'[j].id]
  <2>. TAKE j \in DOMAIN backends'
  <2>1. CASE backends[j].id = b
    BY <1>0, <1>1, <1>2, <1>5, <2>1
  <2>2. CASE backends[j].id # b
    BY <1>0, <1>1, <1>2, <1>5, <2>2
  <2>3. QED
    BY <2>1, <2>2
<1>7. backends' \in Seq([id : Ids, active : 0 .. MaxOpen])
  <2>1. \A j \in DOMAIN backends' : backends'[j] \in Entries
    <3>1. \A j \in DOMAIN backends' :
            /\ backends'[j].id \in Ids /\ backends'[j].active \in 0 .. MaxOpen
            /\ backends'[j] \in [id : {backends'[j].id}, active : {backends'[j].active}]
      BY <1>0, <1>1, <1>5, <1>6
    <3>2. QED
      BY <3>1 DEF Entries
  <2>2. backends' = [j \in 1 .. Len(backends) |-> backends'[j]]
    BY <1>0 DEF balancer!Release
  <2>3. QED
    BY <1>0, <1>1, <2>1, <2>2, EntriesSeq
<1>8. balancer!TypeOK'
  <2>1. \A j, k \in DOMAIN backends' : backends'[j].id = backends'[k].id => j = k
    BY <1>0, <1>1, <1>5
  <2>2. QED
    BY <1>1, <1>4, <1>7, <2>1 DEF balancer!TypeOK, BalancerIInv
<1>9. SumOver(open', Ids) <= MaxOpen
  BY <1>0, <1>3 DEF BalancerIInv
<1>10. balancer!CountsKept'
  BY <1>6 DEF balancer!CountsKept
<1>11. QED
  BY <1>8, <1>9, <1>10 DEF BalancerIInv

LEMMA PoolKept ==
  ASSUME BalancerIInv, NEW b \in Ids, balancer!AddBackend(b) \/ balancer!RemoveBackend(b)
  PROVE  BalancerIInv'
<1>. USE BalancerTypes, BalancerState
<1>0. /\ passed' \in [Ids \X Ids -> Nat] /\ UNCHANGED <<algorithm, rrIndex, weightedCursor, open>>
  BY DEF balancer!AddBackend, balancer!RemoveBackend, balancer!Nobody,
     balancer!cursors
<1>1. CASE balancer!AddBackend(b)
  <2>. DEFINE e == [id |-> b, active |-> 0]
  <2>1. /\ backends' = Append(backends, e) /\ tidy' = (tidy /\ open[b] = 0)
        /\ \A i \in DOMAIN backends : backends[i].id # b
    BY <1>1 DEF balancer!AddBackend
  <2>2. e \in Entries /\ e.id = b /\ e.active = 0
    BY DEF Entries
  <2>. HIDE DEF e
  <2>3. /\ backends' \in Seq(Entries) /\ Len(backends') = Len(backends) + 1
        /\ \A j \in 1 .. Len(backends) : backends'[j] = backends[j]
        /\ backends'[Len(backends) + 1] = e
    BY <2>1, <2>2, AppendProperties
  <2>4. DOMAIN backends' = DOMAIN backends \cup {Len(backends) + 1}
    BY <2>3
  <2>5. \A j, k \in DOMAIN backends' : backends'[j].id = backends'[k].id => j = k
    BY <2>1, <2>2, <2>3, <2>4
  <2>6. \A j \in DOMAIN backends' :
          /\ backends'[j].active <= open[backends'[j].id]
          /\ tidy' => backends'[j].active = open[backends'[j].id]
    <3>1. 0 <= open[b]
      BY <1>1
    <3>2. QED
      BY <2>1, <2>2, <2>3, <2>4, <3>1
  <2>7. balancer!TypeOK'
    BY <1>0, <2>1, <2>3, <2>5 DEF balancer!TypeOK, BalancerIInv, Entries
  <2>8. balancer!CountsKept'
    BY <1>0, <2>6 DEF balancer!CountsKept
  <2>9. QED
    BY <1>0, <2>7, <2>8 DEF BalancerIInv
<1>2. CASE balancer!RemoveBackend(b)
  <2>1. backends' = balancer!Without(b) /\ tidy' = tidy
    BY <1>2 DEF balancer!RemoveBackend
  <2>2. backends' \in Seq(Entries)
    BY <2>1, WithoutLeaves
  <2>3. PICK f \in [DOMAIN backends' -> DOMAIN backends] :
          /\ \A i \in DOMAIN f : backends'[i] = backends[f[i]]
          /\ \A i, j \in DOMAIN f : f[i] = f[j] => i = j
    <3>1. \E f \in [DOMAIN balancer!Without(b) -> DOMAIN backends] :
            /\ \A i \in DOMAIN f : balancer!Without(b)[i] = backends[f[i]]
            /\ \A i, j \in DOMAIN f : f[i] = f[j] => i = j
      BY WithoutLeaves
    <3>. HIDE DEF balancer!Without
    <3>2. QED
      BY <2>1, <3>1, Zenon
  <2>4. \A j, k \in DOMAIN backends' : backends'[j].id = backends'[k].id => j = k
    BY <2>3
  <2>5. \A j \in DOMAIN backends' :
          /\ backends'[j].active <= open[backends'[j].id]
          /\ tidy' => backends'[j].active = open[backends'[j].id]
    BY <2>1, <2>3
  <2>6. balancer!TypeOK'
    BY <1>0, <2>1, <2>2, <2>4 DEF balancer!TypeOK, BalancerIInv, Entries
  <2>7. balancer!CountsKept'
    BY <1>0, <2>5 DEF balancer!CountsKept
  <2>8. QED
    BY <1>0, <2>6, <2>7 DEF BalancerIInv
<1>3. QED
  BY <1>1, <1>2

LEMMA BalancerStep == BalancerIInv /\ balancer!Next => BalancerIInv'
<1>. SUFFICES ASSUME BalancerIInv, balancer!Next PROVE BalancerIInv'
  OBVIOUS
<1>1. CASE balancer!RouteNowhere
  <2>1. rrIndex' \in 0 .. Cycle - 1 /\ weightedCursor' \in 0 .. Cycle - 1
    BY <1>1, CursorsMoved DEF balancer!RouteNowhere
  <2>2. UNCHANGED <<algorithm, backends, open, tidy, passed>>
    BY <1>1 DEF balancer!RouteNowhere
  <2>3. QED
    BY <2>1, <2>2 DEF BalancerIInv, balancer!TypeOK, balancer!CountsKept
<1>2. ASSUME NEW a \in balancer!Algorithms, balancer!SetAlgorithm(a)
      PROVE  BalancerIInv'
  <2>1. passed' \in [Ids \X Ids -> Nat] /\ algorithm' \in balancer!Algorithms
    BY <1>2 DEF balancer!SetAlgorithm, balancer!Nobody
  <2>2. UNCHANGED <<backends, rrIndex, weightedCursor, open, tidy>>
    BY <1>2 DEF balancer!SetAlgorithm, balancer!cursors
  <2>3. QED
    BY <2>1, <2>2 DEF BalancerIInv, balancer!TypeOK, balancer!CountsKept
<1>3. QED
  BY <1>1, <1>2, RouteKept, ReleaseKept, PoolKept DEF balancer!Next

LEMMA BalancerInvariance == MCSpec => []BalancerIInv
<1>1. MCInit => BalancerIInv
  BY InitBalancer, NoBalancerCounts DEF MCInit
<1>2. BalancerIInv
        /\ [MCNext /\ UNCHANGED part]_<<part, vars, balancerVars, discoveryVars, checksVars>>
        => BalancerIInv'
  <2>. SUFFICES ASSUME BalancerIInv,
                       [MCNext /\ UNCHANGED part]_<<part, vars, balancerVars,
                                                   discoveryVars, checksVars>>
                PROVE  BalancerIInv'
    OBVIOUS
  <2>1. CASE balancer!Next
    BY <2>1, BalancerStep
  <2>2. CASE UNCHANGED balancerVars
    BY <2>2 DEF balancerVars, BalancerIInv, balancer!TypeOK, balancer!CountsKept
  <2>3. QED
    BY <2>1, <2>2 DEF MCNext
<1>3. QED
  BY <1>1, <1>2, PTL DEF MCSpec

(* LoadBalancer: least-connections never avoids a backend for load it does   *)
(* not have, for every pool, weights and number of open requests; the count  *)
(* is exact while only least-connections routes and no id returns early.     *)
THEOREM CountsAlwaysKept == MCSpec => []CountsKept
<1>1. BalancerIInv => CountsKept
  BY DEF BalancerIInv, CountsKept
<1>2. QED
  BY <1>1, BalancerInvariance, PTL
-----------------------------------------------------------------------------
(* Taking turns: n turns that come round, and the k-th of them from turn r + 1. *)
Spot(n, r, k) == (IF r + k < n THEN r + k ELSE r + k - n) + 1

Onward(n, r) == IF r + 1 < n THEN r + 1 ELSE 0

(* The turns of a that come before the next of b.                            *)
Ahead(E, r, a, b) ==
  {k \in 0 .. Len(E) - 1 : /\ E[Spot(Len(E), r, k)] = a
                           /\ \A j \in 0 .. k : E[Spot(Len(E), r, j)] # b}

TurnsOf(E, a) == {p \in 1 .. Len(E) : E[p] = a}

LEMMA SpotReached ==
  ASSUME NEW n \in Nat \ {0}, NEW r \in 0 .. n - 1, NEW p \in 1 .. n
  PROVE  \E k \in 0 .. n - 1 : Spot(n, r, k) = p
<1>1. CASE p > r
  <2>1. p - 1 - r \in 0 .. n - 1 /\ Spot(n, r, p - 1 - r) = p
    BY <1>1 DEF Spot
  <2>2. QED
    BY <2>1
<1>2. CASE ~(p > r)
  <2>1. p - 1 - r + n \in 0 .. n - 1 /\ Spot(n, r, p - 1 - r + n) = p
    BY <1>2 DEF Spot
  <2>2. QED
    BY <2>1
<1>3. QED
  BY <1>1, <1>2

LEMMA SpotsKnown ==
  ASSUME NEW n \in Nat \ {0}, NEW r \in 0 .. n - 1
  PROVE  /\ \A k \in 0 .. n - 1 : Spot(n, r, k) \in 1 .. n
         /\ \A k, l \in 0 .. n - 1 : Spot(n, r, k) = Spot(n, r, l) => k = l
         /\ Spot(n, r, 0) = r + 1
         /\ Onward(n, r) \in 0 .. n - 1
         /\ \A k \in 0 .. n - 2 : Spot(n, Onward(n, r), k) = Spot(n, r, k + 1)
<1>1. \A k \in 0 .. n - 1 : Spot(n, r, k) \in 1 .. n
  BY DEF Spot
<1>2. \A k, l \in 0 .. n - 1 : Spot(n, r, k) = Spot(n, r, l) => k = l
  BY DEF Spot
<1>3. Spot(n, r, 0) = r + 1
  BY DEF Spot
<1>4. /\ Onward(n, r) \in 0 .. n - 1
      /\ \A k \in 0 .. n - 2 : Spot(n, Onward(n, r), k) = Spot(n, r, k + 1)
  BY DEF Spot, Onward
<1>5. QED
  BY <1>1, <1>2, <1>3, <1>4

LEMMA AheadBounded ==
  ASSUME NEW S, NEW E \in Seq(S), E # <<>>, NEW r \in 0 .. Len(E) - 1, NEW a, NEW b
  PROVE  /\ IsFiniteSet(Ahead(E, r, a, b)) /\ Cardinality(Ahead(E, r, a, b)) \in Nat
         /\ Cardinality(TurnsOf(E, a)) \in Nat
         /\ Cardinality(Ahead(E, r, a, b)) <= Cardinality(TurnsOf(E, a))
<1>. DEFINE n == Len(E)
            A == Ahead(E, r, a, b)
            f == [k \in A |-> Spot(n, r, k)]
<1>1. n \in Nat \ {0}
  BY EmptySeq, LenProperties
<1>2. IsFiniteSet(0 .. n - 1) /\ IsFiniteSet(1 .. n)
  BY <1>1, FS_Interval
<1>3. A \in SUBSET (0 .. n - 1) /\ TurnsOf(E, a) \in SUBSET (1 .. n)
  BY DEF Ahead, TurnsOf
<1>4. IsFiniteSet(A) /\ IsFiniteSet(TurnsOf(E, a))
  BY <1>2, <1>3, FS_Subset
<1>5. f \in [A -> TurnsOf(E, a)]
  <2>1. ASSUME NEW k \in A
        PROVE  Spot(n, r, k) \in TurnsOf(E, a)
    <3>1. k \in 0 .. n - 1 /\ E[Spot(n, r, k)] = a
      BY DEF Ahead
    <3>2. Spot(n, r, k) \in 1 .. n
      BY <1>1, <3>1, SpotsKnown
    <3>3. QED
      BY <3>1, <3>2 DEF TurnsOf
  <2>. HIDE DEF A
  <2>2. QED
    BY <2>1
<1>6. \A k, l \in A : f[k] = f[l] => k = l
  <2>1. \A k, l \in 0 .. n - 1 : Spot(n, r, k) = Spot(n, r, l) => k = l
    BY <1>1, SpotsKnown
  <2>2. \A k \in A : k \in 0 .. n - 1
    BY <1>3
  <2>. HIDE DEF A, n
  <2>3. QED
    BY <2>1, <2>2
<1>. HIDE DEF f, A, n
<1>7. f \in Injection(A, TurnsOf(E, a))
  BY <1>5, <1>6 DEF Injection, IsInjective
<1>8. Cardinality(A) <= Cardinality(TurnsOf(E, a))
  BY <1>4, <1>7, FS_Injection
<1>9. QED
  BY <1>4, <1>8, FS_CardinalityType DEF A

(* A turn of anybody but b, which has one, leaves a fewer turns before it.   *)
LEMMA TurnPassed ==
  ASSUME NEW S, NEW E \in Seq(S), E # <<>>, NEW r \in 0 .. Len(E) - 1, NEW a, NEW b,
         NEW p \in 1 .. Len(E), E[p] = b, E[r + 1] # b
  PROVE  Cardinality(Ahead(E, Onward(Len(E), r), a, b)) + (IF E[r + 1] = a THEN 1 ELSE 0)
           <= Cardinality(Ahead(E, r, a, b))
<1>. DEFINE n == Len(E)
            t == Onward(n, r)
            A == Ahead(E, r, a, b)
            B == Ahead(E, t, a, b)
            f == [k \in B |-> k + 1]
<1>1. n \in Nat \ {0}
  BY EmptySeq, LenProperties
<1>2. /\ t \in 0 .. n - 1 /\ Spot(n, r, 0) = r + 1
      /\ \A k \in 0 .. n - 2 : Spot(n, t, k) = Spot(n, r, k + 1)
      /\ \E k \in 0 .. n - 1 : Spot(n, t, k) = p
  <2>1. /\ t \in 0 .. n - 1 /\ Spot(n, r, 0) = r + 1
        /\ \A k \in 0 .. n - 2 : Spot(n, t, k) = Spot(n, r, k + 1)
    BY <1>1, SpotsKnown
  <2>. HIDE DEF t
  <2>2. n \in Nat \ {0} /\ t \in 0 .. n - 1 /\ p \in 1 .. n
    BY <1>1, <2>1
  <2>. HIDE DEF n
  <2>3. \E k \in 0 .. n - 1 : Spot(n, t, k) = p
    BY ONLY <2>2, SpotReached
  <2>4. QED
    BY <2>1, <2>2, <2>3
<1>3. /\ IsFiniteSet(A) /\ IsFiniteSet(B)
      /\ Cardinality(A) \in Nat /\ Cardinality(B) \in Nat
  BY <1>2, AheadBounded
<1>4. \A k \in 0 .. n - 1 :
        /\ k \in A <=> /\ E[Spot(n, r, k)] = a
                       /\ \A j \in 0 .. k : E[Spot(n, r, j)] # b
        /\ k \in B <=> /\ E[Spot(n, t, k)] = a
                       /\ \A j \in 0 .. k : E[Spot(n, t, j)] # b
  BY DEF Ahead
<1>5. A \subseteq 0 .. n - 1 /\ B \subseteq 0 .. n - 1
  BY DEF Ahead
<1>6. 0 \in A <=> E[r + 1] = a
  <2>1. 0 \in 0 .. n - 1 /\ \A j \in 0 .. 0 : j = 0
    BY <1>1
  <2>. HIDE DEF A, B, n, t
  <2>2. QED
    BY <1>2, <1>4, <2>1
<1>7. ASSUME NEW k \in B
      PROVE  k + 1 \in A \ {0}
  <2>. HIDE DEF A, B, t
  <2>1. k \in 0 .. n - 1 /\ E[Spot(n, t, k)] = a /\ \A j \in 0 .. k : E[Spot(n, t, j)] # b
    BY <1>4, <1>5
  <2>2. PICK q \in 0 .. n - 1 : Spot(n, t, q) = p
    BY <1>2
  <2>3. ~(q \in 0 .. k)
    BY <2>1, <2>2
  <2>4. k \in 0 .. n - 2 /\ k + 1 \in 0 .. n - 1
    BY <1>1, <2>1, <2>2, <2>3
  <2>5. E[Spot(n, r, k + 1)] = a
    BY <1>2, <2>1, <2>4
  <2>6. ASSUME NEW j \in 0 .. k + 1
        PROVE  E[Spot(n, r, j)] # b
    <3>1. CASE j = 0
      BY <1>2, <3>1
    <3>2. CASE j # 0
      <4>1. j - 1 \in 0 .. k /\ j - 1 \in 0 .. n - 2 /\ (j - 1) + 1 = j
        BY <2>4, <3>2
      <4>2. Spot(n, t, j - 1) = Spot(n, r, j)
        BY <1>2, <4>1
      <4>3. QED
        BY <2>1, <4>1, <4>2
    <3>3. QED
      BY <3>1, <3>2
  <2>7. QED
    BY <1>4, <2>1, <2>4, <2>5, <2>6
<1>8. f \in [B -> A \ {0}] /\ \A k, l \in B : f[k] = f[l] => k = l
  <2>1. \A k \in B : k \in Int
    BY <1>1, <1>5
  <2>. HIDE DEF A, B
  <2>2. QED
    BY <1>7, <2>1
<1>. HIDE DEF f, A, B, n, t
<1>9. f \in Injection(B, A \ {0})
  BY <1>8 DEF Injection, IsInjective
<1>10. /\ IsFiniteSet(A \ {0})
       /\ Cardinality(A \ {0}) = IF 0 \in A THEN Cardinality(A) - 1 ELSE Cardinality(A)
  BY <1>3, FS_RemoveElement
<1>11. Cardinality(B) <= Cardinality(A \ {0})
  BY <1>3, <1>9, <1>10, FS_Injection
<1>12. Cardinality(B) + (IF E[r + 1] = a THEN 1 ELSE 0) <= Cardinality(A)
  BY <1>3, <1>6, <1>10, <1>11
<1>13. QED
  BY <1>12 DEF A, B, n, t

(* A cursor that is kept modulo a multiple of n goes round n turns.          *)
LEMMA CursorOnward ==
  ASSUME NEW n \in Nat \ {0}, NEW m \in Nat \ {0}, m % n = 0, NEW c \in 0 .. m - 1
  PROVE  /\ c % n \in 0 .. n - 1
         /\ ((c + 1) % m) % n = Onward(n, c % n)
<1>. DEFINE q == c \div n
            r == c % n
            w == m \div n
<1>1. /\ q \in Nat /\ r \in 0 .. n - 1 /\ c = n * q + r
      /\ w \in Nat /\ m = n * w
  OBVIOUS
<1>. HIDE DEF q, r, w
<1>2. \A x, y \in Nat : y < n => (n * x + y) % n = y
  OBVIOUS
<1>3. CASE c + 1 < m
  <2>1. (c + 1) % m = c + 1
    BY <1>3
  <2>2. CASE r + 1 < n
    <3>1. c + 1 = n * q + (r + 1) /\ r + 1 \in Nat
      BY <1>1
    <3>2. (n * q + (r + 1)) % n = r + 1
      BY <1>1, <1>2, <2>2
    <3>3. QED
      BY <1>1, <2>1, <2>2, <3>1, <3>2 DEF Onward, r
  <2>3. CASE ~(r + 1 < n)
    <3>1. r + 1 = n
      BY <1>1, <2>3
    <3>2. n * (q + 1) = n * q + n
      BY <1>1
    <3>3. c + 1 = n * (q + 1) + 0 /\ q + 1 \in Nat
      BY <1>1, <3>1, <3>2
    <3>4. (n * (q + 1) + 0) % n = 0
      <4>1. q + 1 \in Nat /\ 0 \in Nat /\ 0 < n
        BY <3>3
      <4>2. QED
        BY ONLY <1>2, <4>1
    <3>5. QED
      BY <1>1, <2>1, <2>3, <3>3, <3>4 DEF Onward, r
  <2>4. QED
    BY <2>2, <2>3
<1>4. CASE ~(c + 1 < m)
  <2>1. c + 1 = m /\ m % m = 0 /\ 0 % n = 0
    BY <1>4
  <2>2. n * q + (r + 1) = n * w
    BY <1>1, <2>1
  <2>3. r + 1 = n
    <3>1. n * (w - q) = r + 1
      BY <1>1, <2>2
    <3>2. w - q \in Int /\ r + 1 \in 1 .. n
      BY <1>1
    <3>3. w - q >= 1
      BY <3>1, <3>2
    <3>4. n * (w - q) >= n
      <4>1. \A x, y \in Nat : x * (1 + y) >= x
        OBVIOUS
      <4>2. (w - q) - 1 \in Nat /\ w - q = 1 + ((w - q) - 1)
        BY <3>2, <3>3
      <4>3. QED
        BY <4>1, <4>2
    <3>5. QED
      BY <3>1, <3>2, <3>4
  <2>4. QED
    BY <1>1, <2>1, <2>3 DEF Onward, r
<1>5. QED
  BY <1>1, <1>3, <1>4 DEF r

InTurn == algorithm \in {"round-robin", "weighted-round-robin"}

(* The indices of the backends in the order of their turns, whose turn each  *)
(* is, and where the cursor stands.                                          *)
Order ==
  IF algorithm = "round-robin" THEN [i \in DOMAIN backends |-> i] ELSE balancer!Expanded

Turns == [p \in DOMAIN Order |-> backends[Order[p]].id]

Cursor == IF algorithm = "round-robin" THEN rrIndex ELSE weightedCursor

Share(a) == IF algorithm = "weighted-round-robin" THEN Weight[a] ELSE 1

LEMMA WeightTypes ==
  /\ Weight \in [Ids -> Nat] /\ \A b \in Ids : Weight[b] \in Nat /\ Weight[b] \in Int
  /\ Cycle \in Nat \ {0} /\ IsFiniteSet(Ids)
  /\ \A pool \in SUBSET Ids :
       /\ pool # {} => Cycle % Cardinality(pool) = 0
       /\ SumOver(Weight, pool) > 0 => Cycle % SumOver(Weight, pool) = 0
<1>1. balancer!BalancerAssumption
  BY ScalingAssumption
<1>2. Weight \in [Ids -> Nat] /\ Cycle \in Nat \ {0} /\ IsFiniteSet(Ids)
  BY <1>1, BalancerTypes DEF balancer!BalancerAssumption
<1>3. \A pool : SumOver(Weight, pool) = balancer!MapThenSumSet(LAMBDA b : Weight[b], pool)
  BY DEF SumOver, balancer!MapThenSumSet, MapThenSumSet, MapThenFoldSet,
     balancer!MapThenFoldSet
<1>4. \A pool \in SUBSET Ids :
        /\ pool # {} => Cycle % Cardinality(pool) = 0
        /\ SumOver(Weight, pool) > 0 => Cycle % SumOver(Weight, pool) = 0
  BY <1>1, <1>3 DEF balancer!BalancerAssumption, balancer!Cardinality, Cardinality
<1>. HIDE DEF Weight
<1>5. QED
  BY <1>2, <1>4

(* The backends are as many as their ids.                                    *)
LEMMA PoolKnown ==
  ASSUME BalancerIInv
  PROVE  /\ {backends[i].id : i \in DOMAIN backends} \in SUBSET Ids
         /\ Cardinality({backends[i].id : i \in DOMAIN backends}) = Len(backends)
<1>. DEFINE n == Len(backends)
            P == {backends[i].id : i \in DOMAIN backends}
            f == [i \in 1 .. n |-> backends[i].id]
<1>1. /\ n \in Nat /\ DOMAIN backends = 1 .. n
      /\ \A i \in 1 .. n : backends[i].id \in Ids
      /\ \A i, j \in 1 .. n : backends[i].id = backends[j].id => i = j
  BY BalancerState
<1>2. f \in [1 .. n -> P] /\ \A i, j \in 1 .. n : f[i] = f[j] => i = j
  BY <1>1
<1>3. \A x \in P : \E i \in 1 .. n : f[i] = x
  BY <1>1
<1>. HIDE DEF f, P, n
<1>4. f \in Bijection(1 .. n, P)
  BY <1>2, <1>3 DEF Bijection, Injection, Surjection, IsInjective
<1>5. IsFiniteSet(1 .. n) /\ Cardinality(1 .. n) = n
  BY <1>1, FS_Interval
<1>6. Cardinality(P) = n
  <2>1. IsFiniteSet(1 .. n) /\ Cardinality(1 .. n) = n
    BY <1>5
  <2>2. QED
    BY <1>4, <2>1, FS_Bijection DEF ExistsBijection
<1>7. P \in SUBSET Ids
  BY <1>1 DEF P
<1>8. QED
  BY <1>6, <1>7 DEF P, n

(* What is taken in turn by the unweighted round.                            *)
LEMMA PlainOrder ==
  ASSUME BalancerIInv, algorithm = "round-robin"
  PROVE  /\ Order \in Seq(DOMAIN backends) /\ Len(Order) = Len(backends)
         /\ \A p \in 1 .. Len(backends) : Order[p] = p
<1>1. Len(backends) \in Nat /\ DOMAIN backends = 1 .. Len(backends)
  BY BalancerState
<1>2. Order = [i \in 1 .. Len(backends) |-> i]
  BY <1>1 DEF Order
<1>3. QED
  BY <1>1, <1>2

(* ... and by the weighted one: a block for every backend.                   *)
Repeated == [i \in DOMAIN backends |-> [n \in 1 .. Weight[backends[i].id] |-> i]]

LEMMA WeightedOrder ==
  ASSUME BalancerIInv, algorithm # "round-robin"
  PROVE  /\ Order \in Seq(DOMAIN backends)
         /\ \A i \in 1 .. Len(backends) : Len(Repeated[i]) = Weight[backends[i].id]
         /\ \A i \in 1 .. Len(backends) : \A j \in 1 .. Weight[backends[i].id] :
              Repeated[i][j] = i
         /\ \E ends : Blocks(Repeated, Len(backends), Order, ends)
<1>. HIDE DEF Weight
<1>1. /\ Len(backends) \in Nat /\ DOMAIN backends = 1 .. Len(backends)
      /\ \A i \in 1 .. Len(backends) : backends[i].id \in Ids
  BY BalancerState
<1>2. Order = FlattenSeq(Repeated)
  BY DEF Order, balancer!Expanded, Repeated, balancer!FlattenSeq, FlattenSeq
<1>3. ASSUME NEW i \in 1 .. Len(backends)
      PROVE  /\ Repeated[i] \in Seq(DOMAIN backends)
             /\ Len(Repeated[i]) = Weight[backends[i].id]
             /\ \A j \in 1 .. Weight[backends[i].id] : Repeated[i][j] = i
  <2>1. Weight[backends[i].id] \in Nat
    BY <1>1, WeightTypes
  <2>2. Repeated[i] = [j \in 1 .. Weight[backends[i].id] |-> i]
    BY <1>1 DEF Repeated
  <2>3. QED
    BY <1>1, <2>1, <2>2
<1>4. Repeated \in Seq(Seq(DOMAIN backends)) /\ Len(Repeated) = Len(backends)
  <2>1. Repeated = [i \in 1 .. Len(backends) |-> Repeated[i]]
    BY <1>1 DEF Repeated
  <2>2. QED
    BY <1>1, <1>3, <2>1, SeqByElements
<1>5. QED
  BY <1>2, <1>3, <1>4, Flattened

(* The weighted round is as long as the sum of the weights.                  *)
LEMMA WeightedLength ==
  ASSUME BalancerIInv, algorithm # "round-robin"
  PROVE  Len(Order) = SumOver(Weight, {backends[i].id : i \in DOMAIN backends})
<1>. HIDE DEF Weight
<1>. DEFINE n == Len(backends)
            To(m) == {backends[i].id : i \in 1 .. m}
<1>1. /\ n \in Nat /\ DOMAIN backends = 1 .. n
      /\ \A i \in 1 .. n : backends[i].id \in Ids
      /\ \A i, j \in 1 .. n : backends[i].id = backends[j].id => i = j
  BY BalancerState
<1>2. PICK ends : Blocks(Repeated, n, Order, ends)
  BY WeightedOrder
<1>3. /\ ends[0] = 0 /\ ends[n] = Len(Order)
      /\ \A i \in 1 .. n : ends[i] = ends[i - 1] + Weight[backends[i].id]
  BY <1>2, WeightedOrder DEF Blocks
<1>. DEFINE Good == {m \in Nat : m <= n => ends[m] = SumOver(Weight, To(m))}
<1>4. 0 \in Good
  <2>1. To(0) = {}
    OBVIOUS
  <2>2. QED
    BY <1>3, <2>1, SumEmpty
<1>5. ASSUME NEW m \in Nat, m \in Good
      PROVE  m + 1 \in Good
  <2>1. SUFFICES ASSUME m + 1 <= n
                 PROVE  ends[m + 1] = SumOver(Weight, To(m + 1))
    OBVIOUS
  <2>. DEFINE b == backends[m + 1].id
  <2>2. m + 1 \in 1 .. n /\ m \in 0 .. n /\ (m + 1) - 1 = m /\ 1 .. m \subseteq 1 .. n
        /\ 1 .. m + 1 \subseteq 1 .. n
    BY <1>1, <2>1
  <2>3. b \in To(m + 1) /\ To(m + 1) \in SUBSET Ids
    BY <1>1, <2>2
  <2>4. To(m + 1) \ {b} = To(m)
    <3>1. \A i \in 1 .. m : i \in 1 .. n /\ i # m + 1 /\ backends[i].id # b
      BY <1>1, <2>2
    <3>2. \A i \in 1 .. m + 1 : i \in 1 .. m \/ i = m + 1
      OBVIOUS
    <3>3. \A i \in 1 .. m : i \in 1 .. m + 1
      OBVIOUS
    <3>4. QED
      BY <3>1, <3>2, <3>3
  <2>5. IsFiniteSet(To(m + 1)) /\ IntsOn(Weight, To(m + 1))
    BY <2>3, WeightTypes, FS_Subset DEF IntsOn
  <2>. HIDE DEF To, b
  <2>6. SumOver(Weight, To(m + 1)) = Weight[b] + SumOver(Weight, To(m))
    BY <2>3, <2>4, <2>5, SumTake
  <2>7. SumOver(Weight, To(m)) \in Int
    <3>1. To(m) \in SUBSET To(m + 1)
      BY <2>4
    <3>2. IsFiniteSet(To(m)) /\ \A x \in To(m) : Weight[x] \in Int
      BY <2>3, <2>5, <3>1, WeightTypes, FS_Subset
    <3>3. QED
      BY <3>2, SumType
  <2>8. ends[m + 1] = ends[m] + Weight[b] /\ Weight[b] \in Nat
    BY <1>1, <1>3, <2>2, WeightTypes DEF b
  <2>9. ends[m] = SumOver(Weight, To(m))
    BY <1>1, <1>5, <2>1
  <2>10. QED
    BY <2>6, <2>7, <2>8, <2>9
<1>. HIDE DEF Good
<1>6. n \in Good
  BY <1>1, <1>4, <1>5, InductionOnNat
<1>7. ends[n] = SumOver(Weight, To(n))
  BY <1>1, <1>6 DEF Good
<1>8. QED
  BY <1>1, <1>3, <1>7

(* Everybody who waits has a turn, nobody more than its share.               *)
LEMMA TurnsKnown ==
  ASSUME BalancerIInv, InTurn
  PROVE  /\ Turns \in Seq(Ids) /\ Len(Turns) = Len(Order)
         /\ Order \in Seq(DOMAIN backends)
         /\ \A p \in 1 .. Len(Turns) : Turns[p] = backends[Order[p]].id
         /\ Len(Turns) # 0 => Cycle % Len(Turns) = 0
         /\ \A a \in Ids : Cardinality(TurnsOf(Turns, a)) <= Share(a)
         /\ \A b \in Ids : balancer!Waits(b) => \E p \in 1 .. Len(Turns) : Turns[p] = b
<1>. HIDE DEF Weight
<1>1. /\ Len(backends) \in Nat /\ DOMAIN backends = 1 .. Len(backends)
      /\ \A i \in 1 .. Len(backends) : backends[i].id \in Ids
      /\ \A i, j \in 1 .. Len(backends) : backends[i].id = backends[j].id => i = j
  BY BalancerState
<1>2. Order \in Seq(DOMAIN backends)
  BY PlainOrder, WeightedOrder
<1>3. /\ Turns \in Seq(Ids) /\ Len(Turns) = Len(Order)
      /\ \A p \in 1 .. Len(Turns) : Turns[p] = backends[Order[p]].id
  <2>1. /\ DOMAIN Order = 1 .. Len(Order) /\ Len(Order) \in Nat
        /\ \A p \in 1 .. Len(Order) : Order[p] \in 1 .. Len(backends)
    BY <1>1, <1>2
  <2>2. /\ Turns = [p \in 1 .. Len(Order) |-> Turns[p]]
        /\ \A p \in 1 .. Len(Order) : Turns[p] = backends[Order[p]].id
    BY <2>1 DEF Turns
  <2>3. \A p \in 1 .. Len(Order) : Turns[p] \in Ids
    BY <1>1, <2>1, <2>2
  <2>4. QED
    BY <2>1, <2>2, <2>3, SeqByElements
<1>4. CASE algorithm = "round-robin"
  <2>1. Len(Turns) = Len(backends) /\ \A p \in 1 .. Len(Turns) : Turns[p] = backends[p].id
    BY <1>3, <1>4, PlainOrder
  <2>2. Len(Turns) # 0 => Cycle % Len(Turns) = 0
    <3>1. SUFFICES ASSUME Len(Turns) # 0 PROVE Cycle % Len(Turns) = 0
      OBVIOUS
    <3>. DEFINE P == {backends[i].id : i \in DOMAIN backends}
    <3>2. backends[1].id \in P
      BY <1>1, <2>1, <3>1
    <3>3. P \in SUBSET Ids /\ Cardinality(P) = Len(backends)
      BY PoolKnown
    <3>. HIDE DEF P
    <3>4. Cycle % Cardinality(P) = 0
      BY <3>2, <3>3, WeightTypes
    <3>5. QED
      BY <2>1, <3>3, <3>4
  <2>3. ASSUME NEW a \in Ids
        PROVE  Cardinality(TurnsOf(Turns, a)) <= Share(a)
    <3>1. CASE TurnsOf(Turns, a) = {}
      BY <1>4, <3>1, FS_EmptySet DEF Share
    <3>2. CASE TurnsOf(Turns, a) # {}
      <4>1. PICK p \in TurnsOf(Turns, a) : TRUE
        BY <3>2
      <4>2. \A q \in TurnsOf(Turns, a) : q = p
        BY <1>1, <2>1, <4>1 DEF TurnsOf
      <4>3. TurnsOf(Turns, a) = {p}
        BY <4>1, <4>2
      <4>4. QED
        BY <1>4, <4>3, FS_Singleton DEF Share
    <3>3. QED
      BY <3>1, <3>2
  <2>4. ASSUME NEW b \in Ids, balancer!Waits(b)
        PROVE  \E p \in 1 .. Len(Turns) : Turns[p] = b
    BY <1>1, <2>1, <2>4 DEF balancer!Waits
  <2>5. QED
    BY <1>2, <1>3, <2>2, <2>3, <2>4
<1>5. CASE algorithm = "weighted-round-robin"
  <2>1. PICK ends : Blocks(Repeated, Len(backends), Order, ends)
    BY <1>5, WeightedOrder
  <2>2. /\ \A i \in 1 .. Len(backends) : Len(Repeated[i]) = Weight[backends[i].id]
        /\ \A i \in 1 .. Len(backends) : Len(Repeated[i]) \in Nat
        /\ \A i \in 1 .. Len(backends) : \A j \in 1 .. Len(Repeated[i]) :
              Repeated[i][j] = i
    <3>1. /\ \A i \in 1 .. Len(backends) : Len(Repeated[i]) = Weight[backends[i].id]
          /\ \A i \in 1 .. Len(backends) : \A j \in 1 .. Weight[backends[i].id] :
               Repeated[i][j] = i
      BY <1>5, WeightedOrder
    <3>2. \A i \in 1 .. Len(backends) : Weight[backends[i].id] \in Nat
      BY <1>1, WeightTypes
    <3>3. QED
      BY <3>1, <3>2
  <2>3. /\ ends \in [0 .. Len(backends) -> Nat] /\ ends[Len(backends)] = Len(Order)
        /\ \A i \in 1 .. Len(backends) :
             /\ ends[i] = ends[i - 1] + Len(Repeated[i])
             /\ \A j \in 1 .. Len(Repeated[i]) : Order[ends[i - 1] + j] = i
    <3>1. /\ ends \in [0 .. Len(backends) -> Nat] /\ ends[Len(backends)] = Len(Order)
          /\ \A i \in 1 .. Len(backends) :
               /\ ends[i] = ends[i - 1] + Len(Repeated[i])
               /\ \A j \in 1 .. Len(Repeated[i]) : Order[ends[i - 1] + j] = Repeated[i][j]
      BY <2>1 DEF Blocks
    <3>2. \A i \in 1 .. Len(backends) : \A j \in 1 .. Len(Repeated[i]) :
            Repeated[i][j] = i /\ Order[ends[i - 1] + j] = Repeated[i][j]
      BY <2>2, <3>1
    <3>3. \A i \in 1 .. Len(backends) : \A j \in 1 .. Len(Repeated[i]) :
            Order[ends[i - 1] + j] = i
      BY <3>2
    <3>4. QED
      BY <3>1, <3>3
  <2>4. Len(Turns) # 0 => Cycle % Len(Turns) = 0
    <3>. DEFINE P == {backends[i].id : i \in DOMAIN backends}
    <3>1. Len(Turns) = SumOver(Weight, P)
      BY <1>3, <1>5, WeightedLength
    <3>2. Len(Turns) \in Nat /\ P \in SUBSET Ids
      BY <1>3, PoolKnown
    <3>. HIDE DEF P
    <3>3. SumOver(Weight, P) > 0 => Cycle % SumOver(Weight, P) = 0
      BY <3>2, WeightTypes
    <3>4. QED
      BY <3>1, <3>2, <3>3
  <2>5. ASSUME NEW p \in 1 .. Len(Order)
        PROVE  \E i \in 1 .. Len(backends) :
                 p \in ends[i - 1] + 1 .. ends[i] /\ Order[p] = i
    <3>1. \E i \in 1 .. Len(backends) : \E j \in 1 .. Len(Repeated[i]) :
            p = ends[i - 1] + j /\ Order[p] = Repeated[i][j]
      <4>1. InBlock(Repeated, Len(backends), Order, ends, p)
        BY <1>1, <2>1, BlockOf
      <4>2. QED
        BY <4>1 DEF InBlock
    <3>2. PICK i \in 1 .. Len(backends), j \in Nat :
            j \in 1 .. Len(Repeated[i]) /\ p = ends[i - 1] + j /\ Order[p] = Repeated[i][j]
      BY <2>2, <3>1
    <3>3. ends[i - 1] \in Nat /\ ends[i] = ends[i - 1] + Len(Repeated[i])
      <4>1. i - 1 \in 0 .. Len(backends)
        BY <1>1
      <4>2. QED
        BY <2>3, <4>1
    <3>4. p \in ends[i - 1] + 1 .. ends[i]
      BY <2>2, <3>2, <3>3
    <3>5. QED
      BY <2>2, <3>2, <3>4
  <2>6. ASSUME NEW a \in Ids
        PROVE  Cardinality(TurnsOf(Turns, a)) <= Share(a)
    <3>1. CASE TurnsOf(Turns, a) = {}
      BY <1>5, <3>1, FS_EmptySet, WeightTypes DEF Share
    <3>2. CASE TurnsOf(Turns, a) # {}
      <4>1. PICK p \in 1 .. Len(Turns) : Turns[p] = a
        BY <3>2 DEF TurnsOf
      <4>2. PICK i \in 1 .. Len(backends) :
              p \in ends[i - 1] + 1 .. ends[i] /\ Order[p] = i
        BY <1>3, <2>5, <4>1
      <4>3. backends[i].id = a
        BY <1>3, <4>1, <4>2
      <4>4. TurnsOf(Turns, a) \subseteq ends[i - 1] + 1 .. ends[i]
        <5>1. SUFFICES ASSUME NEW q \in 1 .. Len(Turns), Turns[q] = a
                       PROVE  q \in ends[i - 1] + 1 .. ends[i]
          BY DEF TurnsOf
        <5>2. PICK k \in 1 .. Len(backends) :
                q \in ends[k - 1] + 1 .. ends[k] /\ Order[q] = k
          BY <1>3, <2>5
        <5>3. backends[k].id = a
          BY <1>3, <5>1, <5>2
        <5>4. k = i
          BY <1>1, <4>3, <5>3
        <5>5. QED
          BY <5>2, <5>4
      <4>5. /\ ends[i - 1] \in Nat /\ Weight[a] \in Nat
            /\ ends[i] = ends[i - 1] + Weight[a]
        <5>1. i - 1 \in 0 .. Len(backends)
          BY <1>1
        <5>2. QED
          BY <2>2, <2>3, <4>3, <5>1, WeightTypes
      <4>6. /\ IsFiniteSet(ends[i - 1] + 1 .. ends[i])
            /\ Cardinality(ends[i - 1] + 1 .. ends[i]) = Weight[a]
        <5>1. ends[i - 1] + 1 \in Int /\ ends[i] \in Int
          BY <4>5
        <5>2. /\ IsFiniteSet(ends[i - 1] + 1 .. ends[i])
              /\ Cardinality(ends[i - 1] + 1 .. ends[i])
                   = IF ends[i - 1] + 1 > ends[i] THEN 0 ELSE ends[i] - (ends[i - 1] + 1) + 1
          BY <5>1, FS_Interval
        <5>3. QED
          BY <4>5, <5>2
      <4>7. Cardinality(TurnsOf(Turns, a)) <= Weight[a]
        BY <4>4, <4>6, FS_Subset
      <4>8. QED
        BY <1>5, <4>7 DEF Share
    <3>3. QED
      BY <3>1, <3>2
  <2>7. ASSUME NEW b \in Ids, balancer!Waits(b)
        PROVE  \E p \in 1 .. Len(Turns) : Turns[p] = b
    <3>1. PICK i \in 1 .. Len(backends) : backends[i].id = b /\ Weight[b] > 0
      BY <1>1, <1>5, <2>7 DEF balancer!Waits
    <3>2. 1 \in 1 .. Len(Repeated[i]) /\ i - 1 \in 0 .. Len(backends) /\ i \in 0 .. Len(backends)
      BY <1>1, <2>2, <3>1, WeightTypes
    <3>3. Order[ends[i - 1] + 1] = i
      BY <2>3, <3>2
    <3>4. /\ ends[i - 1] \in Nat /\ ends[i] \in Nat /\ ends[i - 1] + 1 <= ends[i]
          /\ ends[i - 1] + 1 >= 1
      <4>1. ends[i - 1] \in Nat /\ ends[i] \in Nat
        BY <2>3, <3>2
      <4>2. Len(Repeated[i]) \in Nat /\ ends[i] = ends[i - 1] + Len(Repeated[i])
        BY <2>2, <2>3
      <4>3. Len(Repeated[i]) >= 1
        BY <3>2, <4>2
      <4>4. QED
        BY ONLY <4>1, <4>2, <4>3
    <3>5. ends[i] <= Len(Order) /\ Len(Order) \in Nat
      <4>1. \A x, y \in 0 .. Len(backends) : x <= y => ends[x] <= ends[y]
        BY <1>1, <2>1, EndsRise
      <4>2. Len(backends) \in 0 .. Len(backends) /\ i <= Len(backends)
        BY <1>1
      <4>3. QED
        BY <1>2, <2>3, <3>2, <4>1, <4>2
    <3>6. ends[i - 1] + 1 \in 1 .. Len(Order)
      BY <3>4, <3>5
    <3>7. Turns[ends[i - 1] + 1] = b
      BY <1>3, <3>1, <3>3, <3>6
    <3>8. QED
      BY <1>3, <3>6, <3>7
  <2>8. QED
    BY <1>2, <1>3, <2>4, <2>6, <2>7
<1>6. QED
  BY <1>4, <1>5 DEF InTurn

(* The turns a backend has had since one that waits, and those it has before *)
(* it is that one's turn, are within its share; who does not wait is passed  *)
(* by nobody.                                                                *)
TurnsLeft ==
  \A a, b \in Ids :
    IF balancer!Waits(b)
    THEN passed[a, b] + Cardinality(Ahead(Turns, Cursor % Len(Turns), a, b)) <= Share(a)
    ELSE passed[a, b] = 0

LEMMA ShareTypes == \A a \in Ids : Share(a) \in Nat
<1>. HIDE DEF Weight
<1>1. QED
  BY WeightTypes DEF Share

(* Where somebody waits there are turns, and the cursor is at one of them.   *)
LEMMA CursorKnown ==
  ASSUME BalancerIInv, InTurn, Turns # <<>>
  PROVE  /\ Len(Turns) \in Nat \ {0} /\ Cycle \in Nat \ {0} /\ Cycle % Len(Turns) = 0
         /\ Cursor \in 0 .. Cycle - 1
         /\ Cursor % Len(Turns) \in 0 .. Len(Turns) - 1
         /\ balancer!Moved(Cursor) % Len(Turns) = Onward(Len(Turns), Cursor % Len(Turns))
<1>1. Turns \in Seq(Ids) /\ (Len(Turns) # 0 => Cycle % Len(Turns) = 0)
  BY TurnsKnown
<1>2. Len(Turns) \in Nat \ {0}
  BY <1>1, EmptySeq, LenProperties
<1>3. Cycle \in Nat \ {0} /\ Cursor \in 0 .. Cycle - 1
  BY WeightTypes DEF Cursor, BalancerIInv, balancer!TypeOK
<1>4. Cycle % Len(Turns) = 0
  BY <1>1, <1>2
<1>. DEFINE n == Len(Turns)
            c == Cursor
<1>5. n \in Nat \ {0} /\ Cycle % n = 0 /\ c \in 0 .. Cycle - 1
  BY <1>2, <1>3, <1>4
<1>. HIDE DEF n, c
<1>6. c % n \in 0 .. n - 1 /\ ((c + 1) % Cycle) % n = Onward(n, c % n)
  BY <1>3, <1>5, CursorOnward
<1>7. QED
  BY <1>2, <1>3, <1>4, <1>6 DEF n, c, balancer!Moved

LEMMA WaitsInTurn ==
  ASSUME BalancerIInv, NEW b \in Ids, balancer!Waits(b)
  PROVE  InTurn /\ Turns # <<>> /\ Turns \in Seq(Ids)
         /\ \E p \in 1 .. Len(Turns) : Turns[p] = b
<1>1. InTurn
  BY DEF balancer!Waits, InTurn
<1>2. Turns \in Seq(Ids) /\ \E p \in 1 .. Len(Turns) : Turns[p] = b
  BY <1>1, TurnsKnown
<1>3. Len(<<>>) = 0
  OBVIOUS
<1>4. QED
  BY <1>1, <1>2, <1>3

LEMMA TurnsLeftImplies == BalancerIInv /\ TurnsLeft => balancer!TurnsTaken
<1>1. SUFFICES ASSUME BalancerIInv, TurnsLeft, NEW a \in Ids, NEW b \in Ids
               PROVE  passed[a, b] <= Share(a)
  BY DEF balancer!TurnsTaken, Share
<1>2. passed[a, b] \in Nat
  BY <1>1 DEF BalancerIInv, balancer!TypeOK
<1>3. CASE balancer!Waits(b)
  <2>1. passed[a, b] + Cardinality(Ahead(Turns, Cursor % Len(Turns), a, b)) <= Share(a)
    BY <1>1, <1>3 DEF TurnsLeft
  <2>2. Turns \in Seq(Ids) /\ Turns # <<>> /\ Cursor % Len(Turns) \in 0 .. Len(Turns) - 1
    BY <1>1, <1>3, WaitsInTurn, CursorKnown
  <2>3. Cardinality(Ahead(Turns, Cursor % Len(Turns), a, b)) \in Nat
    BY <2>2, AheadBounded
  <2>. DEFINE k == Cardinality(Ahead(Turns, Cursor % Len(Turns), a, b))
              d == passed[a, b]
              s == Share(a)
  <2>4. s \in Nat /\ k \in Nat /\ d \in Nat /\ d + k <= s
    BY <1>1, <1>2, <2>1, <2>3, ShareTypes
  <2>. HIDE DEF k, d, s
  <2>5. d <= s
    BY <2>4
  <2>6. QED
    BY <2>5 DEF d, s
<1>4. CASE ~balancer!Waits(b)
  <2>1. passed[a, b] = 0
    BY <1>1, <1>4 DEF TurnsLeft
  <2>2. Share(a) \in Nat
    BY <1>1, ShareTypes
  <2>. DEFINE s == Share(a)
  <2>3. s \in Nat => 0 <= s
    OBVIOUS
  <2>4. QED
    BY <2>1, <2>2, <2>3
<1>5. QED
  BY <1>3, <1>4

(* When nobody has been passed, each has its share of turns left at most.    *)
LEMMA TurnsBegin == BalancerIInv /\ passed = balancer!Nobody => TurnsLeft
<1>1. SUFFICES ASSUME BalancerIInv, passed = balancer!Nobody, NEW a \in Ids, NEW b \in Ids,
                      balancer!Waits(b)
               PROVE  passed[a, b] + Cardinality(Ahead(Turns, Cursor % Len(Turns), a, b))
                        <= Share(a)
  BY DEF TurnsLeft, balancer!Nobody
<1>2. passed[a, b] = 0
  BY <1>1 DEF balancer!Nobody
<1>3. /\ Turns \in Seq(Ids) /\ Turns # <<>> /\ Cursor % Len(Turns) \in 0 .. Len(Turns) - 1
      /\ InTurn
  BY <1>1, WaitsInTurn, CursorKnown
<1>4. /\ Cardinality(Ahead(Turns, Cursor % Len(Turns), a, b)) \in Nat
      /\ Cardinality(TurnsOf(Turns, a)) \in Nat
      /\ Cardinality(Ahead(Turns, Cursor % Len(Turns), a, b))
           <= Cardinality(TurnsOf(Turns, a))
  BY <1>3, AheadBounded
<1>5. Cardinality(TurnsOf(Turns, a)) <= Share(a)
  BY <1>1, <1>3, TurnsKnown
<1>. DEFINE k == Cardinality(Ahead(Turns, Cursor % Len(Turns), a, b))
            m == Cardinality(TurnsOf(Turns, a))
            d == passed[a, b]
            s == Share(a)
<1>6. s \in Nat /\ k \in Nat /\ m \in Nat /\ k <= m /\ m <= s /\ d = 0
  BY <1>1, <1>2, <1>4, <1>5, ShareTypes
<1>. HIDE DEF k, m, d, s
<1>7. d + k <= s
  BY <1>6
<1>8. QED
  BY <1>7 DEF d, k, s

(* The request goes to whose turn it is.                                     *)
LEMMA RouteInTurn ==
  ASSUME BalancerIInv, InTurn, NEW i \in DOMAIN backends, balancer!Route(i)
  PROVE  /\ Turns # <<>> /\ Turns[(Cursor % Len(Turns)) + 1] = backends[i].id
         /\ Turns' = Turns /\ Cursor' = balancer!Moved(Cursor)
<1>. HIDE DEF Weight
<1>1. /\ i \in balancer!Chosen /\ i # 0 /\ balancer!MoveCursors
      /\ algorithm' = algorithm /\ backends' = backends
  BY DEF balancer!Route, InTurn
<1>2. backends # <<>> /\ Len(backends) \in Nat /\ DOMAIN backends = 1 .. Len(backends)
  BY BalancerState
<1>3. Order' = Order /\ Turns' = Turns
  BY <1>1 DEF Turns, Order, balancer!Expanded
<1>4. Cursor' = balancer!Moved(Cursor)
  BY <1>1 DEF Cursor, balancer!MoveCursors, InTurn
<1>5. /\ Turns \in Seq(Ids) /\ Len(Turns) = Len(Order) /\ Order \in Seq(DOMAIN backends)
      /\ \A p \in 1 .. Len(Turns) : Turns[p] = backends[Order[p]].id
  BY TurnsKnown
<1>6. Len(Order) # 0 /\ i = Order[(Cursor % Len(Order)) + 1]
  <2>1. CASE algorithm = "round-robin"
    <3>1. i = (rrIndex % Len(backends)) + 1
      BY <1>1, <1>2, <2>1 DEF balancer!Chosen
    <3>2. Len(Order) = Len(backends) /\ \A p \in 1 .. Len(backends) : Order[p] = p
      BY <2>1, PlainOrder
    <3>3. Len(backends) # 0
      BY <1>2
    <3>4. Order[i] = i
      BY <1>2, <3>2
    <3>5. QED
      BY <2>1, <3>1, <3>2, <3>3, <3>4 DEF Cursor
  <2>2. CASE algorithm = "weighted-round-robin"
    <3>1. Order = balancer!Expanded
      BY <2>2 DEF Order
    <3>2. Order # <<>> /\ i = Order[(weightedCursor % Len(Order)) + 1]
      BY <1>1, <1>2, <2>2, <3>1 DEF balancer!Chosen
    <3>3. Len(Order) # 0
      BY <1>5, <3>2, EmptySeq
    <3>4. QED
      BY <2>2, <3>2, <3>3 DEF Cursor
  <2>3. QED
    BY <2>1, <2>2 DEF InTurn
<1>7. Turns # <<>>
  BY <1>5, <1>6, EmptySeq
<1>8. (Cursor % Len(Turns)) + 1 \in 1 .. Len(Turns)
  <2>1. Len(Turns) \in Nat \ {0} /\ Cursor % Len(Turns) \in 0 .. Len(Turns) - 1
    BY <1>7, CursorKnown
  <2>2. QED
    BY <2>1
<1>9. QED
  BY <1>3, <1>4, <1>5, <1>6, <1>7, <1>8

LEMMA RouteTurns ==
  ASSUME BalancerIInv, TurnsLeft, NEW i \in DOMAIN backends, balancer!Route(i)
  PROVE  TurnsLeft'
<1>. DEFINE x == backends[i].id
<1>1. /\ algorithm' = algorithm
      /\ passed' = [pair \in Ids \X Ids |->
                      IF pair[2] = x \/ ~balancer!Waits(pair[2]) THEN 0
                      ELSE IF pair[1] = x THEN passed[pair] + 1 ELSE passed[pair]]
  BY DEF balancer!Route
<1>2. SUFFICES ASSUME NEW a \in Ids, NEW b \in Ids
               PROVE  IF balancer!Waits(b)'
                      THEN passed'[a, b] + Cardinality(Ahead(Turns', Cursor' % Len(Turns'), a, b))
                             <= Share(a)'
                      ELSE passed'[a, b] = 0
  BY DEF TurnsLeft
<1>3. passed'[a, b] = IF b = x \/ ~balancer!Waits(b) THEN 0
                      ELSE IF a = x THEN passed[a, b] + 1 ELSE passed[a, b]
  BY <1>1
<1>4. Share(a)' = Share(a)
  BY <1>1 DEF Share
<1>5. CASE ~InTurn
  <2>1. ~balancer!Waits(b) /\ ~balancer!Waits(b)'
    BY <1>1, <1>5 DEF balancer!Waits, InTurn
  <2>2. QED
    BY <1>3, <2>1
<1>6. CASE InTurn
  <2>1. backends' = backends
    BY <1>6 DEF balancer!Route, InTurn
  <2>2. balancer!Waits(b)' <=> balancer!Waits(b)
    BY <1>1, <2>1 DEF balancer!Waits
  <2>. DEFINE E == Turns
              n == Len(E)
              r == Cursor % n
  <2>3. E # <<>> /\ E[r + 1] = x /\ Turns' = E /\ Cursor' = balancer!Moved(Cursor)
    BY <1>6, RouteInTurn
  <2>4. E \in Seq(Ids) /\ r \in 0 .. n - 1 /\ Cursor' % n = Onward(n, r) /\ n \in Nat \ {0}
    BY <1>6, <2>3, TurnsKnown, CursorKnown
  <2>5. CASE ~balancer!Waits(b)
    BY <1>3, <2>2, <2>5
  <2>6. CASE balancer!Waits(b)
    <3>1. \E p \in 1 .. n : E[p] = b
      BY <2>6, WaitsInTurn
    <3>2. passed[a, b] + Cardinality(Ahead(E, r, a, b)) <= Share(a) /\ passed[a, b] \in Nat
      BY <2>6 DEF TurnsLeft, BalancerIInv, balancer!TypeOK
    <3>3. Cardinality(TurnsOf(E, a)) <= Share(a) /\ Share(a) \in Nat
      BY <1>6, TurnsKnown, ShareTypes
    <3>. HIDE DEF E, n, r, x
    <3>. DEFINE t == Onward(n, r)
                kt == Cardinality(Ahead(E, t, a, b))
                kr == Cardinality(Ahead(E, r, a, b))
                m == Cardinality(TurnsOf(E, a))
                d == passed[a, b]
                e == passed'[a, b]
                s == Share(a)
                one == IF E[r + 1] = a THEN 1 ELSE 0
    <3>4. t \in 0 .. n - 1
      BY <2>4, SpotsKnown
    <3>5. /\ Cardinality(Ahead(E, t, a, b)) \in Nat /\ Cardinality(Ahead(E, r, a, b)) \in Nat
          /\ Cardinality(TurnsOf(E, a)) \in Nat
          /\ Cardinality(Ahead(E, t, a, b)) <= Cardinality(TurnsOf(E, a))
      <4>. HIDE DEF t
      <4>1. QED
        BY <2>3, <2>4, <3>4, AheadBounded DEF n
    <3>6. passed'[a, b] + Cardinality(Ahead(E, t, a, b)) <= Share(a)
      <4>0. /\ kt \in Nat /\ kr \in Nat /\ m \in Nat /\ kt <= m /\ m <= s /\ s \in Nat
            /\ d + kr <= s /\ d \in Nat /\ one \in {0, 1}
            /\ e = IF b = x THEN 0 ELSE IF a = x THEN d + 1 ELSE d
        BY <1>3, <2>6, <3>2, <3>3, <3>5
      <4>1. CASE b = x
        <5>. HIDE DEF kt, kr, m, d, e, s, one
        <5>1. e + kt <= s
          BY <4>0, <4>1
        <5>2. QED
          BY <5>1 DEF e, kt, s
      <4>2. CASE b # x
        <5>1. E[r + 1] # b
          BY <2>3, <4>2
        <5>2. PICK p \in 1 .. n : E[p] = b
          BY <3>1
        <5>3. Cardinality(Ahead(E, t, a, b)) + (IF E[r + 1] = a THEN 1 ELSE 0)
                <= Cardinality(Ahead(E, r, a, b))
          BY <2>3, <2>4, <5>1, <5>2, TurnPassed DEF n
        <5>4. kt + one <= kr
          BY <5>3
        <5>5. one = IF a = x THEN 1 ELSE 0
          BY <2>3
        <5>. HIDE DEF kt, kr, m, d, e, s, one
        <5>6. e + kt <= s
          BY <4>0, <4>2, <5>4, <5>5
        <5>7. QED
          BY <5>6 DEF e, kt, s
      <4>3. QED
        BY <4>1, <4>2
    <3>7. Ahead(Turns', Cursor' % Len(Turns'), a, b) = Ahead(E, t, a, b)
      BY <2>3, <2>4 DEF n
    <3>8. QED
      BY <1>4, <2>2, <2>6, <3>6, <3>7
  <2>7. QED
    BY <2>5, <2>6
<1>7. QED
  BY <1>5, <1>6

(* next() returns nothing only where nobody waits.                           *)
LEMMA NowhereTurns ==
  ASSUME BalancerIInv, TurnsLeft, balancer!RouteNowhere
  PROVE  TurnsLeft'
<1>. HIDE DEF Weight
<1>1. UNCHANGED <<algorithm, backends, passed>> /\ 0 \in balancer!Chosen
  BY DEF balancer!RouteNowhere
<1>2. ASSUME NEW b \in Ids, balancer!Waits(b)
      PROVE  FALSE
  <2>1. /\ InTurn /\ Turns # <<>> /\ Len(Turns) = Len(Order)
        /\ Order \in Seq(DOMAIN backends)
    BY <1>2, WaitsInTurn, TurnsKnown
  <2>2. /\ Len(backends) \in Nat /\ DOMAIN backends = 1 .. Len(backends)
        /\ Len(Turns) \in Nat \ {0} /\ Cursor % Len(Turns) \in 0 .. Len(Turns) - 1
    BY <2>1, BalancerState, CursorKnown
  <2>3. backends # <<>>
    BY <1>2 DEF balancer!Waits
  <2>4. CASE algorithm = "round-robin"
    <3>1. 0 = (rrIndex % Len(backends)) + 1
      BY <1>1, <2>3, <2>4 DEF balancer!Chosen
    <3>2. rrIndex % Len(backends) \in Nat
      BY <2>1, <2>2, <2>4, PlainOrder DEF Cursor
    <3>3. QED
      BY <3>1, <3>2
  <2>5. CASE algorithm = "weighted-round-robin"
    <3>1. Order = balancer!Expanded /\ Len(Order) # 0 /\ Len(<<>>) = 0
      BY <2>1, <2>2, <2>5 DEF Order
    <3>2. 0 = Order[(weightedCursor % Len(Order)) + 1]
      BY <1>1, <2>3, <2>5, <3>1 DEF balancer!Chosen
    <3>3. (weightedCursor % Len(Order)) + 1 \in 1 .. Len(Order)
      BY <2>1, <2>2, <2>5 DEF Cursor
    <3>4. 0 \in 1 .. Len(backends)
      BY <2>1, <2>2, <3>2, <3>3
    <3>5. QED
      BY <2>2, <3>4
  <2>6. QED
    BY <2>1, <2>4, <2>5 DEF InTurn
<1>3. ASSUME NEW b \in Ids
      PROVE  ~balancer!Waits(b) /\ ~balancer!Waits(b)'
  BY <1>1, <1>2 DEF balancer!Waits
<1>4. QED
  BY <1>1, <1>3 DEF TurnsLeft

(* A release changes no turns.                                               *)
LEMMA SameTurns ==
  ASSUME BalancerIInv, TurnsLeft,
         UNCHANGED <<algorithm, rrIndex, weightedCursor, passed>>,
         DOMAIN backends' = DOMAIN backends,
         \A i \in DOMAIN backends : backends'[i].id = backends[i].id
  PROVE  TurnsLeft'
<1>. HIDE DEF Weight
<1>1. Repeated' = Repeated
  BY DEF Repeated
<1>2. balancer!Expanded' = balancer!Expanded
  BY <1>1 DEF balancer!Expanded, Repeated
<1>3. Order' = Order
  BY <1>2 DEF Order
<1>4. ASSUME InTurn
      PROVE  Turns' = Turns
  <2>1. /\ Order \in Seq(DOMAIN backends)
        /\ \A p \in DOMAIN Order : Order[p] \in DOMAIN backends
    BY <1>4, TurnsKnown
  <2>2. QED
    BY <1>3, <2>1 DEF Turns
<1>5. Cursor' = Cursor /\ \A a : Share(a)' = Share(a)
  BY DEF Cursor, Share
<1>6. ASSUME NEW b \in Ids
      PROVE  /\ balancer!Waits(b)' <=> balancer!Waits(b)
             /\ balancer!Waits(b) => Turns' = Turns
  BY <1>4 DEF balancer!Waits, InTurn
<1>7. QED
  BY <1>5, <1>6 DEF TurnsLeft

LEMMA TurnsStep ==
  BalancerIInv /\ BalancerIInv' /\ TurnsLeft /\ balancer!Next => TurnsLeft'
<1>. SUFFICES ASSUME BalancerIInv, BalancerIInv', TurnsLeft, balancer!Next
              PROVE  TurnsLeft'
  OBVIOUS
<1>1. (passed = balancer!Nobody)' => TurnsLeft'
  BY TurnsBegin, PTL
<1>2. ASSUME NEW b \in Ids, balancer!Release(b)
      PROVE  TurnsLeft'
  <2>1. /\ UNCHANGED <<algorithm, rrIndex, weightedCursor, passed>>
        /\ DOMAIN backends' = DOMAIN backends
    BY <1>2 DEF balancer!Release, balancer!cursors
  <2>2. \A i \in DOMAIN backends : backends'[i].id = backends[i].id
    <3>1. TAKE i \in DOMAIN backends
    <3>2. backends[i] = [id |-> backends[i].id, active |-> backends[i].active]
      <4>1. backends[i] \in Entries
        BY BalancerState
      <4>2. QED
        BY <4>1 DEF Entries
    <3>3. backends'[i] = IF backends[i].id = b
                         THEN [backends[i] EXCEPT !.active =
                                 balancer!CountedDown(backends[i].active)]
                         ELSE backends[i]
      BY <1>2 DEF balancer!Release
    <3>4. QED
      BY <3>2, <3>3
  <2>3. QED
    BY <2>1, <2>2, SameTurns
<1>3. ASSUME NEW b \in Ids, balancer!AddBackend(b) \/ balancer!RemoveBackend(b)
      PROVE  TurnsLeft'
  BY <1>1, <1>3 DEF balancer!AddBackend, balancer!RemoveBackend, balancer!Nobody
<1>4. ASSUME NEW a \in balancer!Algorithms, balancer!SetAlgorithm(a)
      PROVE  TurnsLeft'
  BY <1>1, <1>4 DEF balancer!SetAlgorithm, balancer!Nobody
<1>5. QED
  BY <1>2, <1>3, <1>4, RouteTurns, NowhereTurns DEF balancer!Next

(* LoadBalancer: while pool and algorithm stay, no backend gets more requests *)
(* than its weight (one, without weights) between two of another that waits  *)
(* for its turn, for every pool and all weights, wherever the cursors stood. *)
THEOREM TurnsAlwaysTaken == MCSpec => []TurnsTaken
<1>1. MCInit => BalancerIInv /\ TurnsLeft
  <2>1. MCInit => BalancerIInv /\ passed = balancer!Nobody
    BY InitBalancer, NoBalancerCounts DEF MCInit, balancer!Init, NoBalancer
  <2>2. QED
    BY <2>1, TurnsBegin
<1>2. BalancerIInv /\ BalancerIInv' /\ TurnsLeft
        /\ [MCNext /\ UNCHANGED part]_<<part, vars, balancerVars, discoveryVars, checksVars>>
        => TurnsLeft'
  <2>. SUFFICES ASSUME BalancerIInv, BalancerIInv', TurnsLeft,
                       [MCNext /\ UNCHANGED part]_<<part, vars, balancerVars,
                                                   discoveryVars, checksVars>>
                PROVE  TurnsLeft'
    OBVIOUS
  <2>1. CASE balancer!Next
    BY <2>1, TurnsStep
  <2>2. CASE UNCHANGED balancerVars
    BY <2>2, SameTurns DEF balancerVars
  <2>3. QED
    BY <2>1, <2>2 DEF MCNext
<1>3. BalancerIInv /\ TurnsLeft => TurnsTaken
  BY TurnsLeftImplies DEF TurnsTaken
<1>4. QED
  BY <1>1, <1>2, <1>3, BalancerInvariance, PTL DEF MCSpec
-----------------------------------------------------------------------------
(* Service discovery.                                                        *)

(* An id is unhealthy only when it is stale, was up when it was last heard   *)
(* of, and is gone for no longer than it has been silent.                    *)
DiscoveryIInv ==
  /\ discovery!TypeOK
  /\ \A h \in new : lives[h] >= 1
  /\ \A i \in DOMAIN instances :
       /\ ~instances[i].healthy => instances[i].since > HeartbeatTimeout
       /\ gone[i] \in Nat /\ gone[i] <= instances[i].since
       /\ discovery!Up(i) => gone[i] = 0

LEMMA DiscoveryTypes ==
  /\ MaxLives \in Nat /\ MaxLives >= 1
  /\ HeartbeatTimeout \in Nat /\ CallTimeout \in Nat /\ CallTimeout >= 1
BY ScalingAssumption DEF discovery!DiscoveryAssumption

LEMMA InitDiscovery == discovery!Init => DiscoveryIInv
BY DiscoveryTypes DEF discovery!Init, DiscoveryIInv, discovery!TypeOK

LEMMA DiscoveryStep == DiscoveryIInv /\ discovery!Next => DiscoveryIInv'
<1>. SUFFICES ASSUME DiscoveryIInv, discovery!Next PROVE DiscoveryIInv'
  OBVIOUS
<1>. USE DiscoveryTypes
<1>1. ASSUME NEW h \in Hosts, discovery!Register(h)
      PROVE  DiscoveryIInv'
  <2>. DEFINE n == IF h \in new THEN lives[h] ELSE lives[h] + 1
              i == <<h, n>>
  <2>1. n \in 1 .. MaxLives /\ i \in discovery!InstanceIds
    BY <1>1 DEF DiscoveryIInv, discovery!TypeOK, discovery!Register,
       discovery!InstanceIds
  <2>2. /\ DOMAIN instances' = DOMAIN instances \cup {i}
        /\ DOMAIN gone' = DOMAIN gone \cup {i}
        /\ instances'[i] = [since |-> 0, healthy |-> TRUE] /\ gone'[i] = 0
        /\ \A j \in DOMAIN instances : j # i => instances'[j] = instances[j]
        /\ \A j \in DOMAIN gone : j # i => gone'[j] = gone[j]
    BY <1>1 DEF discovery!Register, discovery!Put
  <2>3. /\ current' = [current EXCEPT ![h] = current[h] \cup {n}]
        /\ lives' = [lives EXCEPT ![h] = n]
        /\ new' = new \cup {h} /\ calls' = calls
    BY <1>1 DEF discovery!Register
  <2>. HIDE DEF n
  <2>4. \A j \in DOMAIN instances : j # i /\ discovery!Up(j)' => discovery!Up(j)
    BY <2>1, <2>3 DEF DiscoveryIInv, discovery!TypeOK, discovery!Up,
       discovery!InstanceIds
  <2>5. discovery!TypeOK'
    <3>1. [since |-> 0, healthy |-> TRUE] \in [since : 0 .. HeartbeatTimeout + 1, healthy : BOOLEAN]
      OBVIOUS
    <3>2. \A j \in DOMAIN instances' :
            instances'[j] \in [since : 0 .. HeartbeatTimeout + 1, healthy : BOOLEAN]
      <4>. HIDE DEF i
      <4>. QED
        BY <2>2, <3>1 DEF DiscoveryIInv, discovery!TypeOK
    <3>3. DOMAIN instances' \subseteq discovery!InstanceIds /\ DOMAIN gone' = DOMAIN instances'
      <4>. HIDE DEF i
      <4>. QED
        BY <2>1, <2>2 DEF DiscoveryIInv, discovery!TypeOK
    <3>4. /\ current' \in [Hosts -> SUBSET (1 .. MaxLives)] /\ lives' \in [Hosts -> 0 .. MaxLives]
          /\ new' \subseteq Hosts
          /\ calls' \in [Clients -> {Idle} \cup discovery!InProgress]
      BY <2>1, <2>3 DEF DiscoveryIInv, discovery!TypeOK
    <3>5. QED
      BY <3>2, <3>3, <3>4 DEF discovery!TypeOK
  <2>6. \A k \in new' : lives'[k] >= 1
    BY <2>1, <2>3 DEF DiscoveryIInv, discovery!TypeOK
  <2>7. QED
    BY <2>1, <2>2, <2>3, <2>4, <2>5, <2>6 DEF DiscoveryIInv, discovery!TypeOK
<1>2. ASSUME NEW i, discovery!Heartbeat(i)
      PROVE  DiscoveryIInv'
  <2>1. i \in DOMAIN instances /\ discovery!Up(i)
    BY <1>2 DEF discovery!Heartbeat
  <2>2. instances[i] \in [since : 0 .. HeartbeatTimeout + 1, healthy : BOOLEAN]
    BY <2>1 DEF DiscoveryIInv, discovery!TypeOK
  <2>3. /\ DOMAIN instances' = DOMAIN instances
        /\ instances'[i] = [since |-> 0, healthy |-> TRUE]
        /\ \A j \in DOMAIN instances : j # i => instances'[j] = instances[j]
        /\ UNCHANGED <<current, lives, new, calls, gone>>
    BY <1>2, <2>1, <2>2 DEF discovery!Heartbeat, discovery!Beaten
  <2>4. \A j \in DOMAIN instances :
          instances'[j] \in [since : 0 .. HeartbeatTimeout + 1, healthy : BOOLEAN]
    <3>1. instances'[i] \in [since : 0 .. HeartbeatTimeout + 1, healthy : BOOLEAN]
      BY <2>3
    <3>2. QED
      BY <2>3, <3>1 DEF DiscoveryIInv, discovery!TypeOK
  <2>5. discovery!TypeOK'
    BY <2>3, <2>4 DEF DiscoveryIInv, discovery!TypeOK
  <2>6. \A j \in DOMAIN instances' :
          /\ ~instances'[j].healthy => instances'[j].since > HeartbeatTimeout
          /\ gone'[j] \in Nat /\ gone'[j] <= instances'[j].since
          /\ discovery!Up(j)' => gone'[j] = 0
    <3>1. \A j \in DOMAIN instances : discovery!Up(j)' = discovery!Up(j)
      BY <2>3 DEF discovery!Up
    <3>2. gone[i] = 0
      BY <2>1 DEF DiscoveryIInv
    <3>3. QED
      BY <2>3, <3>1, <3>2 DEF DiscoveryIInv
  <2>7. QED
    BY <2>3, <2>5, <2>6 DEF DiscoveryIInv
<1>3. ASSUME NEW i, discovery!Deregister(i)
      PROVE  DiscoveryIInv'
  <2>1. /\ DOMAIN instances' \subseteq DOMAIN instances
        /\ DOMAIN gone' = DOMAIN instances'
        /\ \A j \in DOMAIN instances' : instances'[j] = instances[j] /\ gone'[j] = gone[j]
        /\ UNCHANGED <<current, lives, new, calls>>
    BY <1>3 DEF discovery!Deregister, discovery!Restrict
  <2>2. QED
    BY <2>1 DEF DiscoveryIInv, discovery!TypeOK, discovery!Up
<1>4. ASSUME NEW h \in Hosts, discovery!Stop(h)
      PROVE  DiscoveryIInv'
  BY <1>4 DEF discovery!Stop, DiscoveryIInv, discovery!TypeOK,
              discovery!Up, discovery!InstanceIds
<1>5. ASSUME instances' = discovery!Pruned, UNCHANGED <<current, lives, new, gone>>,
             calls' \in [Clients -> {Idle} \cup discovery!InProgress]
      PROVE  DiscoveryIInv'
  <2>1. \A j \in DOMAIN instances :
          instances[j] \in [since : 0 .. HeartbeatTimeout + 1, healthy : BOOLEAN]
    BY DEF DiscoveryIInv, discovery!TypeOK
  <2>2. /\ DOMAIN instances' = DOMAIN instances
        /\ \A j \in DOMAIN instances :
             /\ instances'[j] \in [since : 0 .. HeartbeatTimeout + 1, healthy : BOOLEAN]
             /\ instances'[j].since = instances[j].since
             /\ ~instances'[j].healthy =>
                  ~instances[j].healthy \/ instances[j].since > HeartbeatTimeout
    BY <1>5, <2>1 DEF discovery!Pruned, discovery!Stale
  <2>3. QED
    BY <1>5, <2>2 DEF DiscoveryIInv, discovery!TypeOK, discovery!Up
<1>6. ASSUME NEW c \in Clients, NEW i \in discovery!InstanceIds, discovery!Call(c, i)
      PROVE  DiscoveryIInv'
  <2>1. [stage |-> "waiting", host |-> i[1], age |-> 0] \in discovery!InProgress
    BY DEF discovery!InProgress, discovery!InstanceIds
  <2>2. calls' \in [Clients -> {Idle} \cup discovery!InProgress]
    BY <1>6, <2>1 DEF discovery!Call, DiscoveryIInv, discovery!TypeOK
  <2>3. QED
    BY <1>5, <1>6, <2>2 DEF discovery!Call
<1>7. ASSUME discovery!ListAll \/ \E c \in Clients : discovery!NoInstance(c)
      PROVE  DiscoveryIInv'
  <2>1. instances' = discovery!Pruned /\ UNCHANGED <<current, lives, new, gone, calls>>
    BY <1>7 DEF discovery!ListAll, discovery!NoInstance
  <2>2. QED
    BY <1>5, <2>1 DEF DiscoveryIInv, discovery!TypeOK
<1>8. ASSUME NEW c \in Clients,
             \/ discovery!Headers(c) \/ discovery!Body(c)
             \/ discovery!Refused(c) \/ discovery!Abort(c)
      PROVE  DiscoveryIInv'
  <2>1. calls[c] \in discovery!InProgress
    BY <1>8 DEF discovery!Headers, discovery!Body, discovery!Refused,
       discovery!Abort, discovery!Due, DiscoveryIInv, discovery!TypeOK
  <2>2. /\ \/ calls' = [calls EXCEPT ![c] = Idle]
           \/ calls' = [calls EXCEPT ![c] = [calls[c] EXCEPT !.stage = "reading"]]
        /\ UNCHANGED <<instances, current, lives, new, gone>>
    BY <1>8 DEF discovery!Headers, discovery!Body, discovery!Refused,
       discovery!Abort, discovery!Becomes
  <2>3. [calls[c] EXCEPT !.stage = "reading"] \in discovery!InProgress
    BY <2>1 DEF discovery!InProgress
  <2>4. calls' \in [Clients -> {Idle} \cup discovery!InProgress]
    BY <2>2, <2>3 DEF DiscoveryIInv, discovery!TypeOK
  <2>5. QED
    BY <2>2, <2>4 DEF DiscoveryIInv, discovery!TypeOK, discovery!Up
<1>9. CASE discovery!Tick
  <2>1. \A j \in DOMAIN instances :
          instances[j] \in [since : 0 .. HeartbeatTimeout + 1, healthy : BOOLEAN]
    BY DEF DiscoveryIInv, discovery!TypeOK
  <2>2. /\ DOMAIN instances' = DOMAIN instances
        /\ \A j \in DOMAIN instances :
             /\ instances'[j] \in [since : 0 .. HeartbeatTimeout + 1, healthy : BOOLEAN]
             /\ instances'[j].since = discovery!Older(instances[j].since, HeartbeatTimeout + 1)
             /\ instances'[j].healthy = instances[j].healthy
    BY <1>9, <2>1 DEF discovery!Tick, discovery!Older
  <2>3. /\ DOMAIN gone' = DOMAIN gone
        /\ \A j \in DOMAIN gone :
             gone'[j] = IF discovery!Up(j) THEN 0 ELSE discovery!Older(gone[j], HeartbeatTimeout + 1)
        /\ current' = current /\ lives' = lives /\ new' = {}
    BY <1>9 DEF discovery!Tick
  <2>4. \A c \in Clients : calls'[c] # Idle => calls'[c] \in discovery!InProgress
    <3>1. SUFFICES ASSUME NEW c \in Clients, calls'[c] # Idle
                   PROVE  calls'[c] \in discovery!InProgress
      OBVIOUS
    <3>2. /\ calls[c] # Idle
          /\ calls'[c] = [calls[c] EXCEPT !.age = discovery!Older(calls[c].age, CallTimeout + 1)]
      BY <1>9, <3>1 DEF discovery!Tick
    <3>3. calls[c] \in discovery!InProgress
      BY <3>2 DEF DiscoveryIInv, discovery!TypeOK
    <3>4. QED
      BY <3>2, <3>3 DEF discovery!InProgress, discovery!Older
  <2>5. calls' \in [Clients -> {Idle} \cup discovery!InProgress]
    BY <1>9, <2>4 DEF discovery!Tick
  <2>6. discovery!TypeOK'
    BY <2>2, <2>3, <2>5 DEF DiscoveryIInv, discovery!TypeOK
  <2>7. ASSUME NEW j \in DOMAIN instances'
        PROVE  /\ ~instances'[j].healthy => instances'[j].since > HeartbeatTimeout
               /\ gone'[j] \in Nat /\ gone'[j] <= instances'[j].since
               /\ discovery!Up(j)' => gone'[j] = 0
    <3>1. /\ j \in DOMAIN instances /\ j \in DOMAIN gone
          /\ gone[j] \in Nat /\ gone[j] <= instances[j].since
          /\ instances[j].since \in 0 .. HeartbeatTimeout + 1
          /\ ~instances[j].healthy => instances[j].since > HeartbeatTimeout
      BY <2>1, <2>2 DEF DiscoveryIInv, discovery!TypeOK
    <3>2. discovery!Up(j)' = discovery!Up(j)
      BY <2>3 DEF discovery!Up
    <3>3. /\ instances'[j].since = discovery!Older(instances[j].since, HeartbeatTimeout + 1)
          /\ instances'[j].healthy = instances[j].healthy
          /\ gone'[j] = IF discovery!Up(j) THEN 0 ELSE discovery!Older(gone[j], HeartbeatTimeout + 1)
      BY <2>2, <2>3, <3>1
    <3>4. QED
      BY <3>1, <3>2, <3>3 DEF discovery!Older
  <2>8. QED
    BY <2>3, <2>6, <2>7 DEF DiscoveryIInv
<1>10. QED
  BY <1>1, <1>2, <1>3, <1>4, <1>6, <1>7, <1>8, <1>9 DEF discovery!Next

LEMMA DiscoveryKept == DiscoveryIInv => discovery!FindsTheLiving
<1>. SUFFICES ASSUME DiscoveryIInv PROVE discovery!FindsTheLiving
  OBVIOUS
<1>1. \A i \in DOMAIN instances :
        /\ instances[i] \in [since : 0 .. HeartbeatTimeout + 1, healthy : BOOLEAN]
        /\ ~instances[i].healthy => instances[i].since > HeartbeatTimeout
        /\ gone[i] \in Nat /\ gone[i] <= instances[i].since
  BY DEF DiscoveryIInv, discovery!TypeOK
<1>2. /\ DOMAIN discovery!Pruned = DOMAIN instances
      /\ \A i \in DOMAIN instances :
           discovery!Pruned[i].healthy <=> instances[i].since <= HeartbeatTimeout
  <2>1. DOMAIN discovery!Pruned = DOMAIN instances
    BY DEF discovery!Pruned
  <2>2. ASSUME NEW i \in DOMAIN instances
        PROVE  discovery!Pruned[i].healthy <=> instances[i].since <= HeartbeatTimeout
    <3>1. discovery!Pruned[i].healthy <=> instances[i].healthy /\ ~discovery!Stale(instances[i])
      BY <1>1 DEF discovery!Pruned
    <3>2. QED
      BY <1>1, <3>1, DiscoveryTypes DEF discovery!Stale
  <2>3. QED
    BY <2>1, <2>2
<1>3. discovery!Discovered = {i \in DOMAIN instances : instances[i].since <= HeartbeatTimeout}
  BY <1>2 DEF discovery!Discovered
<1>4. \A i \in discovery!Discovered : gone[i] <= HeartbeatTimeout
  BY <1>1, <1>3, DiscoveryTypes
<1>5. QED
  BY <1>3, <1>4 DEF discovery!FindsTheLiving, DiscoveryIInv

LEMMA DiscoveryInvariant == MCSpec => []DiscoveryIInv
<1>1. MCInit => DiscoveryIInv
  BY InitDiscovery DEF MCInit
<1>2. DiscoveryIInv
        /\ [MCNext /\ UNCHANGED part]_<<part, vars, balancerVars, discoveryVars, checksVars>>
        => DiscoveryIInv'
  <2>. SUFFICES ASSUME DiscoveryIInv,
                       [MCNext /\ UNCHANGED part]_<<part, vars, balancerVars,
                                                   discoveryVars, checksVars>>
                PROVE  DiscoveryIInv'
    OBVIOUS
  <2>1. CASE discovery!Next
    BY <2>1, DiscoveryStep
  <2>2. CASE UNCHANGED discoveryVars
    BY <2>2 DEF discoveryVars, DiscoveryIInv, discovery!TypeOK,
       discovery!Up
  <2>3. QED
    BY <2>1, <2>2 DEF MCNext
<1>3. QED
  BY <1>1, <1>2, PTL DEF MCSpec

(* ServiceRegistry.discover(): it finds exactly the registered instances     *)
(* heard of within the heartbeat timeout, whenever the flags were last set,  *)
(* and none that has been gone for longer.                                   *)
THEOREM LivingAlwaysFound == MCSpec => []FindsTheLiving
<1>1. DiscoveryIInv => FindsTheLiving
  BY DiscoveryKept DEF FindsTheLiving
<1>2. QED
  BY <1>1, DiscoveryInvariant, PTL
-----------------------------------------------------------------------------
(* A check's result is what it said before its timer fired, or down; and a   *)
(* round's status is that of its results.                                    *)
ChecksIInv ==
  /\ checks!TypeOK
  /\ \A c \in DOMAIN results :
       /\ inTime[c] \in checks!Statuses \cup {Silent}
       /\ inTime[c] # Silent => results[c] = inTime[c]
       /\ inTime[c] = Silent => results[c] \in {Silent, "down"}
       /\ c \notin settled => inTime[c] = Silent
       /\ c \in fired => results[c] # Silent
       /\ c \notin fired /\ c \notin settled => results[c] = Silent
  /\ ~checks!Running => /\ \A c \in DOMAIN results : results[c] # Silent
                        /\ health = checks!Overall(checks!Range(results))

LEMMA InitChecks == checks!Init => ChecksIInv
BY ScalingAssumption DEF checks!HealthAssumption, checks!Init, ChecksIInv,
   checks!TypeOK,
   checks!Statuses, checks!Running, checks!Overall, checks!Range

LEMMA ChecksStep == ChecksIInv /\ checks!Next => ChecksIInv'
<1>. SUFFICES ASSUME ChecksIInv, checks!Next PROVE ChecksIInv'
  OBVIOUS
<1>. USE ScalingAssumption DEF checks!HealthAssumption, ChecksIInv, checks!TypeOK, checks!Running
<1>1. ASSUME NEW c \in Checks, checks!Register(c) \/ checks!Unregister(c)
      PROVE  ChecksIInv'
  BY <1>1 DEF checks!Register, checks!Unregister
<1>2. ASSUME NEW c \in DOMAIN results, NEW status \in checks!Statuses, checks!Settles(c, status)
      PROVE  ChecksIInv'
  BY <1>2 DEF checks!Settles, checks!First
<1>3. ASSUME NEW c \in DOMAIN results, checks!TimesOut(c)
      PROVE  ChecksIInv'
  BY <1>3 DEF checks!TimesOut, checks!First, checks!Statuses
<1>4. CASE checks!RunAll
  BY <1>4 DEF checks!RunAll
<1>5. CASE checks!Report
  BY <1>5 DEF checks!Report, checks!Range, checks!Overall, checks!Statuses
<1>6. CASE checks!Tick
  BY <1>6 DEF checks!Tick
<1>7. QED
  BY <1>1, <1>2, <1>3, <1>4, <1>5, <1>6 DEF checks!Next

LEMMA ChecksKept == ChecksIInv => checks!ReportsWorst
<1>. SUFFICES ASSUME ChecksIInv PROVE checks!ReportsWorst
  OBVIOUS
<1>. USE ScalingAssumption DEF checks!HealthAssumption, ChecksIInv, checks!TypeOK, checks!Statuses
<1>1. ASSUME ~checks!Running
      PROVE  /\ (health = "up") <=> \A c \in DOMAIN inTime : inTime[c] = "up"
             /\ (checks!HttpStatus = 503) <=>
                  \E c \in DOMAIN inTime : inTime[c] \in {"down", Silent}
  <2>1. /\ \A c \in DOMAIN results : results[c] # Silent
        /\ health = checks!Overall(checks!Range(results))
    BY <1>1
  <2>2. (health = "up") <=> \A c \in DOMAIN results : results[c] = "up"
    BY <2>1 DEF checks!Overall, checks!Range
  <2>3. (health = "down") <=> \E c \in DOMAIN results : results[c] = "down"
    BY <2>1 DEF checks!Overall, checks!Range
  <2>4. (checks!HttpStatus = 503) <=> health = "down"
    BY <2>1 DEF checks!HttpStatus, checks!Overall
  <2>5. QED
    BY <2>1, <2>2, <2>3, <2>4
<1>2. QED
  BY <1>1 DEF checks!ReportsWorst

(* HealthCheckRegistry.runAll(): every finished round reports the worst of   *)
(* its checks, late, silent and throwing ones being down, for every set of   *)
(* checks and every timeout.                                                 *)
THEOREM WorstAlwaysReported == MCSpec => []ReportsWorst
<1>1. MCInit => ChecksIInv
  BY InitChecks DEF MCInit
<1>2. ChecksIInv
        /\ [MCNext /\ UNCHANGED part]_<<part, vars, balancerVars, discoveryVars, checksVars>>
        => ChecksIInv'
  <2>. SUFFICES ASSUME ChecksIInv,
                       [MCNext /\ UNCHANGED part]_<<part, vars, balancerVars,
                                                   discoveryVars, checksVars>>
                PROVE  ChecksIInv'
    OBVIOUS
  <2>1. CASE checks!Next
    BY <2>1, ChecksStep
  <2>2. CASE UNCHANGED checksVars
    BY <2>2 DEF checksVars, ChecksIInv, checks!TypeOK, checks!Running
  <2>3. QED
    BY <2>1, <2>2 DEF MCNext
<1>3. ChecksIInv => ReportsWorst
  BY ChecksKept DEF ReportsWorst
<1>4. QED
  BY <1>1, <1>2, <1>3, PTL DEF MCSpec
-----------------------------------------------------------------------------
LEMMA ModOnce ==
  ASSUME NEW n \in Nat, n > 0, NEW x \in Nat, x < n + n
  PROVE  x % n = IF x < n THEN x ELSE x - n
<1>. DEFINE q == x \div n
            r == x % n
<1>1. q \in Nat /\ x = q * n + r /\ r \in 0 .. n - 1
  OBVIOUS
<1>. HIDE DEF q, r
<1>2. \A i, j, k \in Nat : i <= j => i * k <= j * k
  OBVIOUS
<1>3. 0 * n = 0 /\ 1 * n = n /\ 2 * n = n + n
  OBVIOUS
<1>4. q * n \in Nat
  BY <1>1
<1>5. CASE q = 0
  BY <1>1, <1>3, <1>5 DEF r
<1>6. CASE q = 1
  BY <1>1, <1>3, <1>6 DEF r
<1>7. CASE q >= 2
  <2>1. 2 * n <= q * n
    BY <1>1, <1>2, <1>7
  <2>2. QED
    BY <1>1, <1>3, <1>4, <2>1
<1>8. QED
  BY <1>1, <1>5, <1>6, <1>7

(* The distance from hash h to hash g, around the ring.                      *)
Dist(h, g) == IF g >= h THEN g - h ELSE g + (MaxHash + 1) - h

LEMMA RingConstants ==
  /\ VirtualNodes \in Nat /\ VirtualNodes > 0 /\ MaxHash \in Nat /\ IsFiniteSet(Nodes)
  /\ Hashes \in SUBSET Nat /\ IsFiniteSet(Hashes)
  /\ \A h \in Hashes : h \in Nat /\ h <= MaxHash
<1>1. VirtualNodes \in Nat /\ VirtualNodes > 0 /\ MaxHash \in Nat /\ IsFiniteSet(Nodes)
  BY RingAssumption
<1>2. IsFiniteSet(Hashes)
  BY <1>1, FS_Interval DEF Hashes
<1>3. QED
  BY <1>1, <1>2 DEF Hashes

LEMMA DistOrder ==
  ASSUME NEW h \in Hashes
  PROVE  /\ \A g \in Hashes : Dist(h, g) \in Nat
         /\ \A f, g \in Hashes : Dist(h, f) = Dist(h, g) => f = g
         /\ \A f, g \in Hashes : f < g /\ (f >= h \/ g < h) => Dist(h, f) < Dist(h, g)
         /\ \A f, g \in Hashes : f < h /\ g >= h => Dist(h, g) < Dist(h, f)
BY RingConstants DEF Dist
-----------------------------------------------------------------------------
(* The places of a walk where something comes up for the first time.         *)
FirstTimes(walk) == {k \in DOMAIN walk : \A j \in 1 .. k - 1 : walk[j] # walk[k]}

FirstsAre(S, walk, order, g) ==
  /\ g \in Seq(S) /\ Len(g) = Len(order) /\ Len(order) \in Nat
  /\ ToSet(g) = ToSet(walk)
  /\ \A i, j \in DOMAIN g : g[i] = g[j] => i = j
  /\ \A k \in 1 .. Len(order) : order[k] \in 1 .. Len(walk)
  /\ \A i, j \in 1 .. Len(order) : i < j => order[i] < order[j]
  /\ \A k \in 1 .. Len(order) : \A j \in 1 .. order[k] - 1 : walk[j] # walk[order[k]]
  /\ walk # <<>> => Len(order) > 0 /\ order[1] = 1

LEMMA FirstsOf ==
  ASSUME NEW S, NEW walk \in Seq(S), NEW order, order = Ascending(FirstTimes(walk)),
         NEW g, g = [k \in 1 .. Len(order) |-> walk[order[k]]]
  PROVE  FirstsAre(S, walk, order, g)
<1>. DEFINE F == FirstTimes(walk)
<1>1. Len(walk) \in Nat /\ DOMAIN walk = 1 .. Len(walk) /\ \A k \in 1 .. Len(walk) : walk[k] \in S
  OBVIOUS
<1>2. F \in SUBSET (1 .. Len(walk)) /\ IsFiniteSet(F) /\ F \in SUBSET Int
  <2>1. F \in SUBSET (1 .. Len(walk))
    BY <1>1 DEF FirstTimes
  <2>2. IsFiniteSet(1 .. Len(walk))
    BY <1>1, FS_Interval
  <2>3. QED
    BY <2>1, <2>2, FS_Subset
<1>. HIDE DEF F
<1>3. /\ order \in Seq(F) /\ ToSet(order) = F /\ Len(order) = Cardinality(F)
      /\ Len(order) \in Nat /\ DOMAIN order = 1 .. Len(order)
      /\ \A i, j \in 1 .. Len(order) : i < j <=> order[i] < order[j]
  BY <1>2, AscendingInOrder DEF F
<1>4. \A k \in 1 .. Len(order) : order[k] \in F /\ order[k] \in 1 .. Len(walk)
  <2>1. \A k \in 1 .. Len(order) : order[k] \in F
    BY <1>3
  <2>2. QED
    BY <1>2, <2>1
<1>5. \A k \in 1 .. Len(order) : \A j \in 1 .. order[k] - 1 : walk[j] # walk[order[k]]
  BY <1>4 DEF F, FirstTimes
<1>6. /\ g \in Seq(S) /\ Len(g) = Len(order) /\ DOMAIN g = 1 .. Len(order)
      /\ \A k \in 1 .. Len(order) : g[k] = walk[order[k]]
  <2>1. \A k \in 1 .. Len(order) : walk[order[k]] \in S
    BY <1>1, <1>4
  <2>2. /\ DOMAIN g = 1 .. Len(order) /\ \A k \in 1 .. Len(order) : g[k] = walk[order[k]]
    OBVIOUS
  <2>3. g = [k \in 1 .. Len(order) |-> g[k]] /\ \A k \in 1 .. Len(order) : g[k] \in S
    BY <2>1, <2>2
  <2>4. g \in Seq(S) /\ Len(g) = Len(order)
    BY <1>3, <2>3, SeqByElements
  <2>5. QED
    BY <2>2, <2>4
<1>7. ASSUME NEW i \in 1 .. Len(order), NEW j \in 1 .. Len(order), g[i] = g[j], i < j
      PROVE  FALSE
  <2>1. order[i] < order[j] /\ order[i] \in 1 .. Len(walk) /\ order[j] \in 1 .. Len(walk)
    BY <1>3, <1>4, <1>7
  <2>2. order[i] \in 1 .. order[j] - 1
    BY <1>1, <2>1
  <2>3. walk[order[i]] # walk[order[j]]
    BY <1>5, <2>2
  <2>4. QED
    BY <1>6, <1>7, <2>3
<1>8. \A i, j \in 1 .. Len(order) : g[i] = g[j] => i = j
  <2>1. \A i, j \in 1 .. Len(order) : i < j \/ j < i \/ i = j
    BY <1>3
  <2>2. QED
    BY <1>7, <2>1
<1>9. ASSUME NEW k \in 1 .. Len(walk)
      PROVE  \E f \in F : walk[f] = walk[k] /\ f <= k
  <2>. DEFINE same == {j \in 1 .. Len(walk) : walk[j] = walk[k]}
  <2>1. k \in same /\ same \in SUBSET Nat
    BY <1>1, <1>9
  <2>2. PICK f \in same : \A j \in same : f <= j
    BY <2>1, LeastNatural
  <2>3. f \in 1 .. Len(walk) /\ walk[f] = walk[k] /\ f <= k
    BY <2>1, <2>2
  <2>4. \A j \in 1 .. f - 1 : walk[j] # walk[f]
    <3>1. TAKE j \in 1 .. f - 1
    <3>2. j \in 1 .. Len(walk) /\ ~(f <= j)
      BY <1>1, <2>3, <3>1
    <3>3. QED
      BY <2>2, <2>3, <3>2
  <2>5. f \in F
    BY <1>1, <2>3, <2>4 DEF F, FirstTimes
  <2>6. QED
    BY <2>3, <2>5
<1>10. ToSet(g) = ToSet(walk)
  <2>1. ASSUME NEW x \in ToSet(g) PROVE x \in ToSet(walk)
    <3>1. PICK k \in 1 .. Len(order) : g[k] = x
      BY <1>6, <2>1 DEF ToSet
    <3>2. QED
      BY <1>1, <1>4, <1>6, <3>1 DEF ToSet
  <2>2. ASSUME NEW x \in ToSet(walk) PROVE x \in ToSet(g)
    <3>1. PICK k \in 1 .. Len(walk) : walk[k] = x
      BY <1>1, <2>2 DEF ToSet
    <3>2. PICK f \in F : walk[f] = x
      BY <1>9, <3>1
    <3>3. PICK i \in 1 .. Len(order) : order[i] = f
      BY <1>3, <3>2 DEF ToSet
    <3>4. g[i] = x
      BY <1>6, <3>2, <3>3
    <3>5. QED
      BY <1>6, <3>4 DEF ToSet
  <2>3. QED
    BY <2>1, <2>2
<1>11. ASSUME walk # <<>>
       PROVE  Len(order) > 0 /\ order[1] = 1
  <2>1. 1 \in 1 .. Len(walk)
    BY <1>1, <1>11
  <2>2. PICK f \in F : f <= 1
    BY <1>9, <2>1
  <2>3. f = 1
    BY <1>2, <2>2
  <2>4. PICK i \in 1 .. Len(order) : order[i] = 1
    BY <1>3, <2>2, <2>3 DEF ToSet
  <2>5. i \in Nat /\ 1 <= i /\ 1 \in 1 .. Len(order)
    BY <1>3, <2>4
  <2>6. 1 < i => order[1] < 1
    BY <1>3, <2>4, <2>5
  <2>7. order[1] >= 1 /\ order[1] \in Nat
    BY <1>1, <1>4, <2>5
  <2>8. QED
    BY <1>3, <2>4, <2>5, <2>6, <2>7
<1>12. QED
  BY <1>3, <1>4, <1>5, <1>6, <1>8, <1>10, <1>11 DEF FirstsAre
-----------------------------------------------------------------------------
(* The ring holds the points of its members, and its hashes are sorted.      *)
RingIInv ==
  /\ hash32 \in [Virtual -> Hashes]
  /\ \A v, w \in Virtual : hash32[v] = hash32[w] => v = w
  /\ members \in SUBSET Nodes
  /\ DOMAIN ring = UNION {PointsOf(n) : n \in members}
  /\ \A n \in members : \A h \in PointsOf(n) : ring[h] = n
  /\ sortedHashes = Ascending(DOMAIN ring)

LEMMA PointsApart ==
  ASSUME hash32 \in [Virtual -> Hashes],
         \A v, w \in Virtual : hash32[v] = hash32[w] => v = w
  PROVE  /\ \A n \in Nodes : PointsOf(n) \in SUBSET Hashes /\ PointsOf(n) # {}
         /\ \A m, n \in Nodes : \A h : h \in PointsOf(m) /\ h \in PointsOf(n) => m = n
<1>1. \A n \in Nodes, i \in 1 .. VirtualNodes : <<n, i>> \in Virtual
  BY DEF Virtual
<1>2. 1 \in 1 .. VirtualNodes
  BY RingConstants
<1>3. ASSUME NEW n \in Nodes
      PROVE  PointsOf(n) \in SUBSET Hashes /\ PointsOf(n) # {}
  <2>1. \A i \in 1 .. VirtualNodes : hash32[<<n, i>>] \in Hashes
    BY <1>1
  <2>2. hash32[<<n, 1>>] \in PointsOf(n)
    BY <1>2 DEF PointsOf
  <2>3. QED
    BY <2>1, <2>2 DEF PointsOf
<1>4. ASSUME NEW m \in Nodes, NEW n \in Nodes, NEW h, h \in PointsOf(m), h \in PointsOf(n)
      PROVE  m = n
  <2>1. PICK i \in 1 .. VirtualNodes : h = hash32[<<m, i>>]
    BY <1>4 DEF PointsOf
  <2>2. PICK j \in 1 .. VirtualNodes : h = hash32[<<n, j>>]
    BY <1>4 DEF PointsOf
  <2>3. <<m, i>> = <<n, j>>
    BY <1>1, <2>1, <2>2
  <2>4. QED
    BY <2>3
<1>5. QED
  BY <1>3, <1>4

(* What the ring of a state is.                                              *)
PointsKnown ==
  /\ \A n \in Nodes : PointsOf(n) \in SUBSET Hashes /\ PointsOf(n) # {}
  /\ DOMAIN ring \in SUBSET Hashes /\ IsFiniteSet(DOMAIN ring)
  /\ \A h \in DOMAIN ring : ring[h] \in members /\ h \in PointsOf(ring[h])
  /\ \A n \in members : \A h \in PointsOf(n) : h \in DOMAIN ring /\ ring[h] = n

SortedKnown ==
  /\ sortedHashes \in Seq(Hashes) /\ ToSet(sortedHashes) = DOMAIN ring
  /\ Len(sortedHashes) \in Nat /\ DOMAIN sortedHashes = 1 .. Len(sortedHashes)
  /\ \A i \in 1 .. Len(sortedHashes) : sortedHashes[i] \in DOMAIN ring /\ sortedHashes[i] \in Hashes
  /\ \A i, j \in 1 .. Len(sortedHashes) : i < j <=> sortedHashes[i] < sortedHashes[j]
  /\ members # {} <=> Len(sortedHashes) > 0

LEMMA RingKnown == RingIInv => PointsKnown /\ SortedKnown
<1>. SUFFICES ASSUME RingIInv PROVE PointsKnown /\ SortedKnown
  OBVIOUS
<1>1. /\ \A n \in Nodes : PointsOf(n) \in SUBSET Hashes /\ PointsOf(n) # {}
      /\ \A m, n \in Nodes : \A h : h \in PointsOf(m) /\ h \in PointsOf(n) => m = n
  BY PointsApart DEF RingIInv
<1>2. /\ members \in SUBSET Nodes
      /\ DOMAIN ring = UNION {PointsOf(n) : n \in members}
      /\ \A n \in members : \A h \in PointsOf(n) : ring[h] = n
      /\ sortedHashes = Ascending(DOMAIN ring)
  BY DEF RingIInv
<1>3. \A h \in DOMAIN ring : \E n \in members : h \in PointsOf(n)
  BY <1>2
<1>4. \A n \in members : \A h \in PointsOf(n) : h \in DOMAIN ring
  BY <1>2
<1>5. DOMAIN ring \in SUBSET Hashes
  BY <1>1, <1>2, <1>3
<1>6. IsFiniteSet(DOMAIN ring) /\ DOMAIN ring \in SUBSET Int
  <2>1. Hashes \in SUBSET Nat /\ IsFiniteSet(Hashes)
    BY RingConstants
  <2>2. IsFiniteSet(DOMAIN ring)
    BY <1>5, <2>1, FS_Subset
  <2>3. ASSUME NEW h \in DOMAIN ring PROVE h \in Int
    <3>1. h \in Hashes
      BY <1>5
    <3>2. QED
      BY <3>1, RingConstants
  <2>4. QED
    BY <2>2, <2>3
<1>7. PointsKnown
  BY <1>1, <1>2, <1>3, <1>4, <1>5, <1>6 DEF PointsKnown
<1>. DEFINE s == sortedHashes
            D == DOMAIN ring
<1>. HIDE DEF D
<1>8. /\ s \in Seq(D) /\ ToSet(s) = D /\ Len(s) \in Nat
      /\ DOMAIN s = 1 .. Len(s)
      /\ \A i, j \in DOMAIN s : i < j <=> s[i] < s[j]
  BY <1>2, <1>6, AscendingInOrder DEF D
<1>9. s \in Seq(Hashes)
  BY <1>5, <1>8 DEF D
<1>10. \A i \in 1 .. Len(s) : s[i] \in D /\ s[i] \in Hashes
  BY <1>8, <1>9
<1>11. members # {} <=> Len(s) > 0
  <2>1. ASSUME members # {} PROVE Len(s) > 0
    <3>1. PICK n \in members : TRUE
      BY <2>1
    <3>2. PICK h \in PointsOf(n) : TRUE
      BY <1>1, <1>2
    <3>3. h \in ToSet(s)
      BY <1>4, <1>8 DEF D
    <3>4. QED
      BY <1>8, <3>3 DEF ToSet
  <2>2. ASSUME Len(s) > 0 PROVE members # {}
    <3>1. 1 \in 1 .. Len(s)
      BY <1>8, <2>2
    <3>2. s[1] \in D
      BY <1>10, <3>1
    <3>3. QED
      BY <1>3, <3>2 DEF D
  <2>3. QED
    BY <2>1, <2>2
<1>12. SortedKnown
  BY <1>8, <1>9, <1>10, <1>11 DEF SortedKnown, D
<1>13. QED
  BY <1>7, <1>12

LEMMA InitRing == Init => RingIInv
<1>. SUFFICES ASSUME Init PROVE RingIInv
  OBVIOUS
<1>1. /\ hash32 \in [Virtual -> Hashes] /\ members = {} /\ sortedHashes = <<>>
      /\ DOMAIN ring = {}
  BY DEF Init
<1>2. \A v, w \in Virtual : hash32[v] = hash32[w] => v = w
  BY <1>1 DEF Init, IsInjective
<1>3. Ascending({}) = <<>>
  <2>1. IsFiniteSet({}) /\ Cardinality({}) = 0 /\ {} \in SUBSET Int
    BY FS_EmptySet
  <2>2. Ascending({}) \in Seq({}) /\ Len(Ascending({})) = 0
    BY <2>1, AscendingInOrder
  <2>3. QED
    BY <2>2, EmptySeq
<1>4. QED
  BY <1>1, <1>2, <1>3 DEF RingIInv

LEMMA AddKept ==
  ASSUME RingIInv, NEW n \in Nodes, AddNode(n)
  PROVE  RingIInv'
<1>1. /\ hash32 \in [Virtual -> Hashes] /\ members \in SUBSET Nodes
      /\ \A v, w \in Virtual : hash32[v] = hash32[w] => v = w
      /\ DOMAIN ring = UNION {PointsOf(m) : m \in members}
      /\ \A m \in members : \A h \in PointsOf(m) : ring[h] = m
  BY DEF RingIInv
<1>2. /\ hash32' = hash32 /\ members' = members \cup {n}
      /\ sortedHashes' = Ascending(DOMAIN ring')
      /\ DOMAIN ring' = DOMAIN ring \cup PointsOf(n)
      /\ \A h \in DOMAIN ring' : ring'[h] = IF h \in PointsOf(n) THEN n ELSE ring[h]
  BY DEF AddNode, Sorted
<1>3. \A m : PointsOf(m)' = PointsOf(m)
  BY <1>2 DEF PointsOf
<1>4. (UNION {PointsOf(m) : m \in members})' = UNION {PointsOf(m) : m \in members'}
  BY <1>3
<1>5. DOMAIN ring' = UNION {PointsOf(m) : m \in members'}
  BY <1>1, <1>2
<1>6. \A m \in members' : \A h \in PointsOf(m) : ring'[h] = m
  BY <1>1, <1>2, <1>5, PointsApart
<1>7. QED
  BY <1>1, <1>2, <1>3, <1>4, <1>5, <1>6 DEF RingIInv

LEMMA RemoveKept ==
  ASSUME RingIInv, NEW n \in Nodes, RemoveNode(n)
  PROVE  RingIInv'
<1>1. /\ hash32 \in [Virtual -> Hashes] /\ members \in SUBSET Nodes
      /\ \A v, w \in Virtual : hash32[v] = hash32[w] => v = w
      /\ DOMAIN ring = UNION {PointsOf(m) : m \in members}
      /\ \A m \in members : \A h \in PointsOf(m) : ring[h] = m
  BY DEF RingIInv
<1>2. /\ hash32' = hash32 /\ members' = members \ {n}
      /\ sortedHashes' = Ascending(DOMAIN ring')
      /\ DOMAIN ring' = DOMAIN ring \ PointsOf(n)
      /\ \A h \in DOMAIN ring' : ring'[h] = ring[h]
  BY DEF RemoveNode, Sorted, Deleted
<1>3. \A m : PointsOf(m)' = PointsOf(m)
  BY <1>2 DEF PointsOf
<1>4. (UNION {PointsOf(m) : m \in members})' = UNION {PointsOf(m) : m \in members'}
  BY <1>3
<1>5. \A m \in members' : \A h \in PointsOf(m) : h \notin PointsOf(n)
  BY <1>1, <1>2, PointsApart
<1>6. DOMAIN ring' = UNION {PointsOf(m) : m \in members'}
  BY <1>1, <1>2, <1>5
<1>7. \A m \in members' : \A h \in PointsOf(m) : ring'[h] = m
  BY <1>1, <1>2, <1>6
<1>8. QED
  BY <1>1, <1>2, <1>3, <1>4, <1>6, <1>7 DEF RingIInv
-----------------------------------------------------------------------------
(* The hashes before h are the first a.                                      *)
SplitAt(h, a) ==
  \A i \in 0 .. Len(sortedHashes) - 1 : sortedHashes[i + 1] < h <=> i < a

LEMMA HashesSplit ==
  ASSUME SortedKnown, NEW h \in Hashes
  PROVE  \E a \in 0 .. Len(sortedHashes) : SplitAt(h, a)
<1>. DEFINE s == sortedHashes
            n == Len(sortedHashes)
            T == {i \in 1 .. n + 1 : i = n + 1 \/ s[i] >= h}
<1>1. /\ n \in Nat /\ h \in Nat
      /\ \A i \in 1 .. n : s[i] \in Nat
      /\ \A i, j \in 1 .. n : i < j <=> s[i] < s[j]
  BY RingConstants DEF SortedKnown
<1>. HIDE DEF s, n
<1>2. T \in SUBSET Nat /\ n + 1 \in T
  BY <1>1
<1>3. PICK m \in T : \A k \in T : m <= k
  <2>. HIDE DEF T
  <2>. QED
    BY <1>2, LeastNatural
<1>4. m \in 1 .. n + 1 /\ (m = n + 1 \/ s[m] >= h)
  BY <1>3
<1>5. ASSUME NEW i \in 0 .. n - 1
      PROVE  s[i + 1] < h <=> i < m - 1
  <2>1. i \in Nat /\ i + 1 \in 1 .. n /\ s[i + 1] \in Nat
    BY <1>1
  <2>2. CASE i + 1 < m
    <3>1. i + 1 \notin T
      BY <1>3, <1>4, <2>1, <2>2
    <3>2. ~(s[i + 1] >= h)
      BY <1>1, <2>1, <3>1
    <3>3. QED
      BY <1>1, <1>4, <2>1, <2>2, <3>2
  <2>3. CASE m <= i + 1
    <3>1. m \in 1 .. n /\ s[m] >= h /\ s[m] \in Nat
      BY <1>1, <1>4, <2>1, <2>3
    <3>2. m < i + 1 => s[m] < s[i + 1]
      BY <1>1, <2>1, <3>1
    <3>3. s[i + 1] >= h
      BY <1>1, <2>1, <2>3, <3>1, <3>2
    <3>4. QED
      BY <1>1, <1>4, <2>1, <2>3, <3>3
  <2>4. QED
    BY <1>1, <1>4, <2>1, <2>2, <2>3
<1>6. m - 1 \in 0 .. n
  BY <1>1, <1>4
<1>7. QED
  BY <1>5, <1>6 DEF s, n, SplitAt
-----------------------------------------------------------------------------
(* The binary search.                                                        *)
SearchRanges == (0 .. Len(sortedHashes)) \X (0 .. Len(sortedHashes))

SearchStep(h, f, range) ==
  IF range[1] >= range[2] THEN range[1]
  ELSE IF IsBefore(h, (range[1] + range[2]) \div 2)
       THEN f[<<(range[1] + range[2]) \div 2 + 1, range[2]>>]
       ELSE f[<<range[1], (range[1] + range[2]) \div 2>>]

SearchFcn(h) == CHOOSE f : f = [range \in SearchRanges |-> SearchStep(h, f, range)]

LEMMA FoundBySearch == \A h : Found(h) = SearchFcn(h)[<<0, Len(sortedHashes) - 1>>]
BY DEF Found, SearchFcn, SearchStep, SearchRanges

(* What it finds in a range, where the hashes before h are the first a.      *)
Within(a, range) ==
  IF range[1] >= range[2] \/ a < range[1] THEN range[1]
  ELSE IF a > range[2] THEN range[2] ELSE a

SearchedBelow(f, a, d) ==
  \A r \in SearchRanges : r[2] >= r[1] /\ r[2] - r[1] < d => f[r] = Within(a, r)

LEMMA Halves ==
  ASSUME NEW lo \in Nat, NEW hi \in Nat, lo < hi
  PROVE  (lo + hi) \div 2 \in Nat /\ lo <= (lo + hi) \div 2 /\ (lo + hi) \div 2 < hi
OBVIOUS

LEMMA SearchSteps ==
  ASSUME SortedKnown, NEW h \in Hashes, NEW a \in 0 .. Len(sortedHashes),
         SplitAt(h, a),
         NEW f, NEW lo \in 0 .. Len(sortedHashes), NEW hi \in 0 .. Len(sortedHashes),
         SearchedBelow(f, a, hi - lo)
  PROVE  SearchStep(h, f, <<lo, hi>>) = Within(a, <<lo, hi>>)
<1>. DEFINE n == Len(sortedHashes)
            mid == (lo + hi) \div 2
<1>1. n \in Nat /\ lo \in Nat /\ hi \in Nat /\ a \in Nat /\ hi <= n /\ a <= n
  BY DEF SortedKnown
<1>2. CASE lo >= hi
  BY <1>2 DEF SearchStep, Within
<1>3. CASE lo < hi
  <2>1. mid \in Nat /\ lo <= mid /\ mid < hi
    BY <1>1, <1>3, Halves
  <2>2. SearchStep(h, f, <<lo, hi>>)
          = IF sortedHashes[mid + 1] < h THEN f[<<mid + 1, hi>>] ELSE f[<<lo, mid>>]
    BY <1>1, <1>3 DEF SearchStep, IsBefore
  <2>. HIDE DEF mid
  <2>3. sortedHashes[mid + 1] < h <=> mid < a
    BY <1>1, <2>1 DEF SplitAt
  <2>4. <<mid + 1, hi>> \in SearchRanges /\ <<lo, mid>> \in SearchRanges
    BY <1>1, <2>1 DEF SearchRanges
  <2>5. CASE mid < a
    <3>1. f[<<mid + 1, hi>>] = Within(a, <<mid + 1, hi>>)
      BY <1>1, <2>1, <2>4 DEF SearchedBelow
    <3>2. Within(a, <<mid + 1, hi>>) = Within(a, <<lo, hi>>)
      BY <1>1, <1>3, <2>1, <2>5 DEF Within
    <3>3. QED
      BY <2>2, <2>3, <2>5, <3>1, <3>2
  <2>6. CASE ~(mid < a)
    <3>1. f[<<lo, mid>>] = Within(a, <<lo, mid>>)
      BY <1>1, <2>1, <2>4 DEF SearchedBelow
    <3>2. Within(a, <<lo, mid>>) = Within(a, <<lo, hi>>)
      BY <1>1, <1>3, <2>1, <2>6 DEF Within
    <3>3. QED
      BY <2>2, <2>3, <2>6, <3>1, <3>2
  <2>7. QED
    BY <2>5, <2>6
<1>4. QED
  BY <1>1, <1>2, <1>3

LEMMA SearchFinds ==
  ASSUME SortedKnown, NEW h \in Hashes, NEW a \in 0 .. Len(sortedHashes),
         SplitAt(h, a),
         a < Len(sortedHashes)
  PROVE  Found(h) = a
<1>. DEFINE n == Len(sortedHashes)
            w == [r \in SearchRanges |-> Within(a, r)]
            f == SearchFcn(h)
<1>1. n \in Nat /\ n > 0
  BY DEF SortedKnown
<1>2. \A r \in SearchRanges : r[1] \in 0 .. n /\ r[2] \in 0 .. n /\ r = <<r[1], r[2]>>
  BY DEF SearchRanges
<1>3. \A r \in SearchRanges : SearchStep(h, w, r) = Within(a, r)
  <2>1. TAKE r \in SearchRanges
  <2>2. \A q \in SearchRanges : w[q] = Within(a, q)
    OBVIOUS
  <2>. HIDE DEF w
  <2>3. SearchedBelow(w, a, r[2] - r[1])
    BY <2>2 DEF SearchedBelow
  <2>4. SearchStep(h, w, <<r[1], r[2]>>) = Within(a, <<r[1], r[2]>>)
    BY <1>2, <2>3, SearchSteps
  <2>5. QED
    BY <1>2, <2>4
<1>4. w = [r \in SearchRanges |-> SearchStep(h, w, r)]
  BY <1>3
<1>. HIDE DEF w
<1>5. f = [r \in SearchRanges |-> SearchStep(h, f, r)]
  BY <1>4 DEF SearchFcn
<1>. HIDE DEF f
<1>. DEFINE Good == {k \in Nat : \A r \in SearchRanges :
                       r[2] >= r[1] /\ r[2] - r[1] < k => f[r] = Within(a, r)}
<1>6. 0 \in Good
  BY <1>2
<1>7. ASSUME NEW k \in Nat, k \in Good PROVE k + 1 \in Good
  <2>1. SUFFICES ASSUME NEW r \in SearchRanges, r[2] >= r[1], r[2] - r[1] < k + 1
                 PROVE  f[r] = Within(a, r)
    OBVIOUS
  <2>2. \A q \in SearchRanges : q[2] >= q[1] /\ q[2] - q[1] < k => f[q] = Within(a, q)
    BY <1>7
  <2>3. /\ r[1] \in 0 .. n /\ r[2] \in 0 .. n /\ r = <<r[1], r[2]>>
        /\ r[1] \in Nat /\ r[2] \in Nat /\ r[2] - r[1] <= k
    BY <1>1, <1>2, <2>1
  <2>4. SearchedBelow(f, a, r[2] - r[1])
    BY <1>1, <1>2, <2>2, <2>3 DEF SearchedBelow
  <2>5. SearchStep(h, f, <<r[1], r[2]>>) = Within(a, <<r[1], r[2]>>)
    BY <2>3, <2>4, SearchSteps
  <2>6. f[r] = SearchStep(h, f, r)
    BY <1>5
  <2>7. QED
    BY <2>3, <2>5, <2>6
<1>8. \A k \in Nat : k \in Good
  <2>. HIDE DEF Good
  <2>. QED
    BY <1>6, <1>7, InductionOnNat
<1>9. <<0, n - 1>> \in SearchRanges /\ n \in Good
  BY <1>1, <1>8 DEF SearchRanges
<1>10. f[<<0, n - 1>>] = Within(a, <<0, n - 1>>)
  BY <1>1, <1>9
<1>11. Within(a, <<0, n - 1>>) = a
  BY <1>1 DEF Within
<1>12. QED
  BY <1>10, <1>11, FoundBySearch DEF f, n
-----------------------------------------------------------------------------
(* The point of a key: the nearest one, around the ring.                     *)
Closest(h, g) ==
  /\ g \in DOMAIN ring
  /\ \A f \in DOMAIN ring \ {g} : Dist(h, g) < Dist(h, f)

LEMMA NodeFound ==
  ASSUME PointsKnown, SortedKnown, members # {}, NEW h \in Hashes
  PROVE  \E g : Closest(h, g) /\ GetNode(h) = ring[g] /\ Nearest(h) = ring[g]
<1>. DEFINE s == sortedHashes
            n == Len(sortedHashes)
            D == DOMAIN ring
            after == {g \in D : g >= h}
            best == IF after = {} THEN D ELSE after
<1>1. /\ n \in Nat /\ n > 0 /\ h \in Nat
      /\ \A i \in 1 .. n : s[i] \in D /\ s[i] \in Hashes /\ s[i] \in Nat
      /\ \A i, j \in 1 .. n : i < j <=> s[i] < s[j]
      /\ \A g \in D : g \in Hashes /\ g \in Nat
  BY RingConstants DEF SortedKnown, PointsKnown
<1>2. \A g \in D : \E i \in 1 .. n : s[i] = g
  BY DEF SortedKnown, ToSet
<1>3. Last(s) = s[n] /\ Head(s) = s[1]
  BY <1>1 DEF Last, SortedKnown
<1>4. PICK a \in 0 .. n : SplitAt(h, a)
  BY HashesSplit
<1>5. \A i \in 1 .. n : s[i] < h <=> i <= a
  <2>1. TAKE i \in 1 .. n
  <2>2. i - 1 \in 0 .. n - 1 /\ (i - 1) + 1 = i /\ i \in Nat
    BY <1>1
  <2>3. s[(i - 1) + 1] < h <=> i - 1 < a
    BY <1>4, <2>2 DEF SplitAt
  <2>4. QED
    BY <1>1, <1>4, <2>2, <2>3
<1>6. CASE a < n
  <2>. DEFINE g == s[a + 1]
  <2>1. a + 1 \in 1 .. n /\ g \in D /\ g \in Nat /\ g >= h
    BY <1>1, <1>4, <1>5, <1>6
  <2>2. \A f \in D : f >= h => f >= g
    <3>1. TAKE f \in D
    <3>2. PICK i \in 1 .. n : s[i] = f
      BY <1>2
    <3>3. i < a + 1 => f < h
      BY <1>4, <1>5, <3>2
    <3>4. a + 1 < i => g < f
      BY <1>1, <2>1, <3>2
    <3>5. QED
      BY <1>1, <2>1, <3>2, <3>3, <3>4
  <2>3. Closest(h, g)
    <3>1. ASSUME NEW f \in D \ {g} PROVE Dist(h, g) < Dist(h, f)
      <4>1. f \in Nat /\ f \in Hashes /\ g \in Hashes /\ f # g
        BY <1>1, <2>1
      <4>. HIDE DEF g
      <4>2. CASE f >= h
        <5>1. g >= h /\ g \in Nat /\ f >= g
          BY <2>1, <2>2, <4>2
        <5>2. g < f
          BY ONLY <4>1, <5>1
        <5>3. QED
          BY <4>1, <5>1, <5>2, DistOrder
      <4>3. CASE f < h
        <5>1. g >= h
          BY <2>1
        <5>2. QED
          BY <4>1, <4>3, <5>1, DistOrder
      <4>4. f < h \/ f >= h
        <5>1. f \in Nat /\ h \in Nat
          BY <1>1, <4>1
        <5>2. QED
          BY ONLY <5>1
      <4>5. QED
        BY <4>2, <4>3, <4>4
    <3>2. QED
      BY <2>1, <3>1 DEF Closest
  <2>4. ~WrapsAround(h)
    <3>1. s[n] >= h
      BY <1>1, <1>4, <1>5, <1>6
    <3>2. QED
      BY <1>1, <1>3, <3>1 DEF WrapsAround
  <2>5. GetNode(h) = ring[g]
    <3>1. Found(h) = a
      BY <1>4, <1>6, SearchFinds
    <3>2. QED
      BY <2>4, <3>1 DEF GetNode
  <2>6. Nearest(h) = ring[g]
    <3>1. best = after /\ g \in after
      BY <2>1
    <3>2. \A f \in after : g <= f
      BY <2>2
    <3>3. \A x \in after : (\A f \in after : x <= f) => x = g
      BY <1>1, <3>1, <3>2
    <3>. HIDE DEF g, after
    <3>4. (CHOOSE x \in after : \A f \in after : x <= f) = g
      BY <3>1, <3>2, <3>3
    <3>5. QED
      BY <3>1, <3>4 DEF Nearest, after
  <2>7. QED
    BY <2>3, <2>5, <2>6
<1>7. CASE a = n
  <2>. DEFINE g == s[1]
  <2>1. 1 \in 1 .. n /\ g \in D /\ g \in Nat
    BY <1>1
  <2>2. \A f \in D : f < h /\ g <= f
    <3>1. TAKE f \in D
    <3>2. PICK i \in 1 .. n : s[i] = f
      BY <1>2
    <3>3. f < h
      BY <1>1, <1>5, <1>7, <3>2
    <3>4. 1 < i => g < f
      BY <1>1, <2>1, <3>2
    <3>5. QED
      BY <1>1, <2>1, <3>2, <3>3, <3>4
  <2>3. Closest(h, g)
    <3>1. ASSUME NEW f \in D \ {g} PROVE Dist(h, g) < Dist(h, f)
      BY <1>1, <2>1, <2>2, DistOrder
    <3>2. QED
      BY <2>1, <3>1 DEF Closest
  <2>4. WrapsAround(h)
    <3>1. s[n] < h
      BY <1>1, <2>2
    <3>2. QED
      BY <1>1, <1>3, <3>1 DEF WrapsAround
  <2>5. GetNode(h) = ring[g]
    BY <1>3, <2>4 DEF GetNode
  <2>6. Nearest(h) = ring[g]
    <3>1. after = {}
      BY <1>1, <2>2
    <3>2. \A f \in D : g <= f
      BY <2>2
    <3>3. \A x \in D : (\A f \in D : x <= f) => x = g
      BY <1>1, <2>1, <3>2
    <3>4. (CHOOSE x \in D : \A f \in D : x <= f) = g
      <4>. HIDE DEF g, D
      <4>1. QED
        BY <2>1, <3>2, <3>3
    <3>5. QED
      BY <3>1, <3>4 DEF Nearest
  <2>7. QED
    BY <2>3, <2>5, <2>6
<1>8. QED
  BY <1>1, <1>4, <1>6, <1>7
-----------------------------------------------------------------------------
(* The k-th point met from h around the ring.                                *)
Place(h, k) == ((StartIndex(h) + k - 2) % Len(sortedHashes)) + 1
Point(h, k) == sortedHashes[Place(h, k)]

WalksAround(h) ==
  /\ \A k \in 1 .. Len(sortedHashes) :
       Place(h, k) \in 1 .. Len(sortedHashes) /\ Point(h, k) \in DOMAIN ring
  /\ \A k, l \in 1 .. Len(sortedHashes) : k < l => Dist(h, Point(h, k)) < Dist(h, Point(h, l))
  /\ \A g \in DOMAIN ring : \E k \in 1 .. Len(sortedHashes) : Point(h, k) = g

StartsAfter(h, a) ==
  /\ StartIndex(h) = a + 1
  /\ \/ \A i \in 1 .. Len(sortedHashes) : sortedHashes[i] < h <=> i <= a
     \/ a = 0 /\ \A i \in 1 .. Len(sortedHashes) : sortedHashes[i] < h

LEMMA StartKnown ==
  ASSUME PointsKnown, SortedKnown, NEW h \in Hashes, Len(sortedHashes) > 0
  PROVE  \E a \in 0 .. Len(sortedHashes) - 1 : StartsAfter(h, a)
<1>. DEFINE s == sortedHashes
            n == Len(sortedHashes)
<1>1. /\ n \in Nat /\ n > 0 /\ h \in Nat /\ DOMAIN s = 1 .. n
      /\ \A i \in 1 .. n : s[i] \in Nat
  BY RingConstants DEF SortedKnown
<1>2. PICK a \in 0 .. n : SplitAt(h, a)
  BY HashesSplit
<1>3. \A i \in 1 .. n : s[i] < h <=> i <= a
  <2>1. TAKE i \in 1 .. n
  <2>2. i - 1 \in 0 .. n - 1 /\ (i - 1) + 1 = i /\ i \in Nat
    BY <1>1
  <2>3. s[(i - 1) + 1] < h <=> i - 1 < a
    BY <1>2, <2>2 DEF SplitAt
  <2>4. QED
    BY <1>1, <1>2, <2>2, <2>3
<1>4. AtOrAfter(h) = {i \in 1 .. n : i > a}
  BY <1>1, <1>2, <1>3 DEF AtOrAfter
<1>5. CASE a = n
  <2>1. AtOrAfter(h) = {}
    BY <1>1, <1>4, <1>5
  <2>2. StartIndex(h) = 0 + 1 /\ 0 \in 0 .. n - 1
    BY <1>1, <2>1 DEF StartIndex
  <2>3. \A i \in 1 .. n : s[i] < h
    BY <1>1, <1>3, <1>5
  <2>4. StartsAfter(h, 0)
    BY <2>2, <2>3 DEF StartsAfter
  <2>5. QED
    BY <2>2, <2>4
<1>6. CASE a < n
  <2>1. a + 1 \in AtOrAfter(h) /\ \A i \in AtOrAfter(h) : a + 1 <= i /\ i \in Nat
    BY <1>1, <1>2, <1>4, <1>6
  <2>2. \A i \in AtOrAfter(h) : (\A j \in AtOrAfter(h) : i <= j) => i = a + 1
    BY <1>2, <2>1
  <2>3. StartIndex(h) = a + 1
    BY <2>1, <2>2 DEF StartIndex
  <2>4. a \in 0 .. n - 1
    BY <1>1, <1>2, <1>6
  <2>5. StartsAfter(h, a)
    BY <1>3, <2>3 DEF StartsAfter
  <2>6. QED
    BY <2>4, <2>5
<1>7. a = n \/ a < n
  <2>1. n \in Nat /\ a \in 0 .. n
    BY <1>1
  <2>. HIDE DEF n
  <2>2. QED
    BY ONLY <2>1
<1>8. QED
  BY <1>5, <1>6, <1>7
-----------------------------------------------------------------------------
LEMMA Walk ==
  ASSUME PointsKnown, SortedKnown, NEW h \in Hashes
  PROVE  WalksAround(h)
<1>. DEFINE s == sortedHashes
            n == Len(sortedHashes)
            P(k) == Place(h, k)
<1>1. /\ n \in Nat /\ h \in Nat
      /\ \A i \in 1 .. n : s[i] \in DOMAIN ring /\ s[i] \in Hashes /\ s[i] \in Nat
      /\ \A i, j \in 1 .. n : i < j => s[i] < s[j]
      /\ \A g \in DOMAIN ring : \E i \in 1 .. n : s[i] = g
  <2>1. \A g \in DOMAIN ring : \E i \in 1 .. n : s[i] = g
    BY DEF SortedKnown, ToSet
  <2>2. QED
    BY <2>1, RingConstants DEF SortedKnown
<1>2. CASE n = 0
  BY <1>1, <1>2 DEF WalksAround
<1>3. CASE n > 0
  <2>1. PICK a \in 0 .. n - 1 : StartsAfter(h, a)
    BY <1>3, StartKnown
  <2>2. a \in Nat /\ a < n
    BY <1>1, <2>1
  <2>. HIDE DEF n, s
  <2>3. ASSUME NEW k \in 1 .. n
        PROVE  Place(h, k) = IF a + k - 1 < n THEN a + k ELSE a + k - n
    <3>. DEFINE x == a + k - 1
    <3>1. k \in Nat /\ x \in Nat /\ x < n + n /\ a + 1 + k - 2 = x
      BY <1>1, <2>2
    <3>2. StartIndex(h) = a + 1
      BY <2>1 DEF StartsAfter
    <3>3. Place(h, k) = (x % n) + 1
      BY <3>1, <3>2 DEF Place, n
    <3>. HIDE DEF x
    <3>4. x % n = IF x < n THEN x ELSE x - n
      BY <1>1, <1>3, <3>1, ModOnce
    <3>5. Place(h, k) = IF x < n THEN x + 1 ELSE x - n + 1
      BY <3>3, <3>4
    <3>6. QED
      BY <1>1, <2>2, <3>1, <3>5 DEF x
  <2>4. \A k \in 1 .. n : Place(h, k) \in 1 .. n /\ Point(h, k) = s[Place(h, k)]
    <3>1. ASSUME NEW k \in 1 .. n PROVE Place(h, k) \in 1 .. n
      BY <1>1, <2>2, <2>3
    <3>2. QED
      BY <3>1 DEF Point, s
  <2>5. ASSUME NEW g \in DOMAIN ring
        PROVE  \E k \in 1 .. n : Point(h, k) = g
    <3>1. PICK i \in 1 .. n : s[i] = g
      BY <1>1
    <3>2. CASE i > a
      <4>1. i - a \in 1 .. n
        BY <1>1, <2>2, <3>2
      <4>2. Place(h, i - a) = i
        <5>1. Place(h, i - a) = IF a + (i - a) - 1 < n THEN a + (i - a) ELSE a + (i - a) - n
          BY <2>3, <4>1
        <5>2. QED
          BY <1>1, <2>2, <3>2, <5>1
      <4>3. QED
        BY <2>4, <3>1, <4>1, <4>2
    <3>3. CASE i <= a
      <4>1. i - a + n \in 1 .. n
        BY <1>1, <2>2, <3>3
      <4>2. Place(h, i - a + n) = i
        <5>1. Place(h, i - a + n)
                = IF a + (i - a + n) - 1 < n THEN a + (i - a + n) ELSE a + (i - a + n) - n
          BY <2>3, <4>1
        <5>2. QED
          BY <1>1, <2>2, <3>3, <5>1
      <4>3. QED
        BY <2>4, <3>1, <4>1, <4>2
    <3>4. QED
      BY <1>1, <2>2, <3>2, <3>3
  <2>6. ASSUME NEW k \in 1 .. n, NEW l \in 1 .. n, k < l
        PROVE  Dist(h, Point(h, k)) < Dist(h, Point(h, l))
    <3>. DEFINE i == Place(h, k)
                j == Place(h, l)
    <3>1. i \in 1 .. n /\ j \in 1 .. n /\ Point(h, k) = s[i] /\ Point(h, l) = s[j]
      BY <2>4
    <3>2. /\ i = IF a + k - 1 < n THEN a + k ELSE a + k - n
          /\ j = IF a + l - 1 < n THEN a + l ELSE a + l - n
      BY <2>3
    <3>. HIDE DEF i, j
    <3>3. /\ i \in Nat /\ j \in Nat
          /\ s[i] \in Hashes /\ s[j] \in Hashes /\ s[i] \in Nat /\ s[j] \in Nat
      BY <1>1, <3>1
    <3>4. \/ i < j /\ (i > a \/ j <= a)
          \/ i > a /\ j <= a
      BY <1>1, <2>2, <2>6, <3>2
    <3>5. i < j => s[i] < s[j]
      BY <1>1, <3>1
    <3>6. CASE \A m \in 1 .. n : s[m] < h <=> m <= a
      <4>1. (s[i] < h <=> i <= a) /\ (s[j] < h <=> j <= a)
        BY <3>1, <3>6
      <4>2. (i > a => s[i] >= h) /\ (j <= a => s[j] < h)
        BY <1>1, <2>2, <3>3, <4>1
      <4>3. \/ s[i] < s[j] /\ (s[i] >= h \/ s[j] < h)
            \/ s[j] < h /\ s[i] >= h
        BY <3>4, <3>5, <4>2
      <4>4. QED
        BY <3>1, <3>3, <4>3, DistOrder
    <3>7. CASE a = 0 /\ \A m \in 1 .. n : s[m] < h
      <4>1. s[j] < h
        BY <3>1, <3>7
      <4>2. i < j
        BY <1>1, <2>2, <2>6, <3>2, <3>7
      <4>3. QED
        BY <3>1, <3>3, <3>5, <4>1, <4>2, DistOrder
    <3>8. QED
      BY <2>1, <3>6, <3>7 DEF StartsAfter, n, s
  <2>7. \A k \in 1 .. n : Place(h, k) \in 1 .. n /\ Point(h, k) \in DOMAIN ring
    BY <1>1, <2>4
  <2>8. QED
    BY <2>5, <2>6, <2>7 DEF WalksAround, n
<1>4. QED
  BY <1>1, <1>2, <1>3

LEMMA FirstPoint ==
  ASSUME PointsKnown, SortedKnown, members # {}, NEW h \in Hashes
  PROVE  Closest(h, Point(h, 1))
<1>1. PICK g : Closest(h, g)
  BY NodeFound
<1>2. /\ \A k \in 1 .. Len(sortedHashes) : Point(h, k) \in DOMAIN ring
      /\ \A k, l \in 1 .. Len(sortedHashes) :
           k < l => Dist(h, Point(h, k)) < Dist(h, Point(h, l))
      /\ \A f \in DOMAIN ring : \E k \in 1 .. Len(sortedHashes) : Point(h, k) = f
  BY Walk DEF WalksAround
<1>3. 1 \in 1 .. Len(sortedHashes) /\ Len(sortedHashes) \in Nat
  BY DEF SortedKnown
<1>4. PICK k \in 1 .. Len(sortedHashes) : Point(h, k) = g
  BY <1>1, <1>2 DEF Closest
<1>5. CASE k = 1
  BY <1>1, <1>4, <1>5
<1>6. CASE 1 < k
  <2>1. Dist(h, Point(h, 1)) < Dist(h, g)
    BY <1>2, <1>3, <1>4, <1>6
  <2>2. Point(h, 1) \in DOMAIN ring /\ Point(h, 1) \in Hashes /\ g \in DOMAIN ring /\ g \in Hashes
    BY <1>1, <1>2, <1>3 DEF Closest, PointsKnown
  <2>3. Dist(h, Point(h, 1)) \in Nat /\ Dist(h, g) \in Nat
    BY <2>2, DistOrder
  <2>4. ~(Dist(h, g) < Dist(h, Point(h, 1)))
    BY <2>1, <2>3
  <2>5. Point(h, 1) = g
    BY <1>1, <2>2, <2>4 DEF Closest
  <2>6. QED
    BY <2>1, <2>3, <2>5
<1>7. QED
  BY <1>3, <1>5, <1>6
-----------------------------------------------------------------------------
(* Node m is met before node n on the way around from h.                     *)
Nearer(h) ==
  {p \in Nodes \X Nodes :
     \E f \in PointsOf(p[1]) : \A g \in PointsOf(p[2]) : Dist(h, f) < Dist(h, g)}

LEMMA NearerStrict ==
  ASSUME PointsKnown, NEW h \in Hashes
  PROVE  Strict(Nearer(h), Nodes)
<1>1. \A n \in Nodes : \A g \in PointsOf(n) : g \in Hashes /\ Dist(h, g) \in Nat
  BY DistOrder DEF PointsKnown
<1>2. \A m, n \in Nodes :
        <<m, n>> \in Nearer(h)
          <=> \E f \in PointsOf(m) : \A g \in PointsOf(n) : Dist(h, f) < Dist(h, g)
  BY DEF Nearer
<1>3. ASSUME NEW n \in Nodes, <<n, n>> \in Nearer(h) PROVE FALSE
  <2>1. PICK f \in PointsOf(n) : \A g \in PointsOf(n) : Dist(h, f) < Dist(h, g)
    BY <1>2, <1>3
  <2>2. Dist(h, f) < Dist(h, f) /\ Dist(h, f) \in Nat
    BY <1>1, <2>1
  <2>3. QED
    BY <2>2
<1>4. ASSUME NEW l \in Nodes, NEW m \in Nodes, NEW n \in Nodes,
             <<l, m>> \in Nearer(h), <<m, n>> \in Nearer(h)
      PROVE  <<l, n>> \in Nearer(h)
  <2>1. PICK e \in PointsOf(l) : \A f \in PointsOf(m) : Dist(h, e) < Dist(h, f)
    BY <1>2, <1>4
  <2>2. PICK f \in PointsOf(m) : \A g \in PointsOf(n) : Dist(h, f) < Dist(h, g)
    BY <1>2, <1>4
  <2>3. ASSUME NEW g \in PointsOf(n) PROVE Dist(h, e) < Dist(h, g)
    <3>1. Dist(h, e) < Dist(h, f) /\ Dist(h, f) < Dist(h, g)
      BY <2>1, <2>2
    <3>2. Dist(h, e) \in Nat /\ Dist(h, f) \in Nat /\ Dist(h, g) \in Nat
      BY <1>1
    <3>3. QED
      BY <3>1, <3>2
  <2>4. QED
    BY <1>2, <2>3
<1>5. QED
  BY <1>3, <1>4 DEF Strict
-----------------------------------------------------------------------------
(* The nodes in the order in which they are met from h.                      *)
LEMMA NodesMet ==
  ASSUME PointsKnown, SortedKnown, members \in SUBSET Nodes, NEW h \in Hashes,
         NEW all, all = GetNodes(h, Cardinality(Nodes))
  PROVE  /\ all \in Seq(Nodes) /\ ToSet(all) = members /\ IsInjective(all)
         /\ Len(all) = Cardinality(members)
         /\ \A i, j \in DOMAIN all : i < j => <<all[i], all[j]>> \in Nearer(h)
         /\ members # {} => Len(all) > 0 /\ Closest(h, Point(h, 1)) /\ all[1] = ring[Point(h, 1)]
         /\ \A count \in 1 .. Cardinality(Nodes) :
              GetNodes(h, count)
                = [k \in 1 .. IF count < Len(all) THEN count ELSE Len(all) |-> all[k]]
<1>. DEFINE n == Len(sortedHashes)
            walk == Around(h)
            order == Ascending(FirstTimes(walk))
            met == [k \in 1 .. Len(order) |-> walk[order[k]]]
<1>1. n \in Nat /\ (members # {} <=> n > 0)
  BY DEF SortedKnown
<1>2. /\ \A k \in 1 .. n : Point(h, k) \in DOMAIN ring
      /\ \A k, l \in 1 .. n : k < l => Dist(h, Point(h, k)) < Dist(h, Point(h, l))
      /\ \A g \in DOMAIN ring : \E k \in 1 .. n : Point(h, k) = g
  BY Walk DEF WalksAround
<1>3. /\ \A g \in DOMAIN ring : ring[g] \in members /\ g \in PointsOf(ring[g])
      /\ \A m \in members : \A g \in PointsOf(m) : g \in DOMAIN ring /\ ring[g] = m
      /\ \A m \in members : PointsOf(m) # {}
  BY DEF PointsKnown
<1>4. walk = [k \in 1 .. n |-> ring[Point(h, k)]]
  BY DEF Around, Point, Place
<1>5. /\ walk \in Seq(members) /\ Len(walk) = n /\ DOMAIN walk = 1 .. n
      /\ \A k \in 1 .. n : walk[k] = ring[Point(h, k)]
  <2>. HIDE DEF walk
  <2>1. \A k \in 1 .. n : walk[k] = ring[Point(h, k)] /\ walk[k] \in members
    BY <1>2, <1>3, <1>4
  <2>2. walk = [k \in 1 .. n |-> walk[k]]
    BY <1>4
  <2>3. QED
    BY <1>1, <2>1, <2>2, SeqByElements
<1>6. GetNodes(h, Cardinality(Nodes))
        = [k \in 1 .. IF Cardinality(Nodes) < Len(order) THEN Cardinality(Nodes) ELSE Len(order)
             |-> walk[order[k]]]
      /\ \A count : GetNodes(h, count)
        = [k \in 1 .. IF count < Len(order) THEN count ELSE Len(order) |-> walk[order[k]]]
  BY DEF GetNodes, FirstTimes
<1>. HIDE DEF walk
<1>7. /\ met \in Seq(members) /\ Len(met) = Len(order) /\ Len(order) \in Nat
      /\ ToSet(met) = ToSet(walk)
      /\ \A i, j \in DOMAIN met : met[i] = met[j] => i = j
      /\ \A k \in 1 .. Len(order) : order[k] \in 1 .. Len(walk)
      /\ \A i, j \in 1 .. Len(order) : i < j => order[i] < order[j]
      /\ \A k \in 1 .. Len(order) : \A j \in 1 .. order[k] - 1 : walk[j] # walk[order[k]]
      /\ walk # <<>> => Len(order) > 0 /\ order[1] = 1
  <2>1. FirstsAre(members, walk, order, met)
    BY <1>5, FirstsOf
  <2>. HIDE DEF order, met
  <2>2. QED
    BY <2>1 DEF FirstsAre
<1>8. DOMAIN met = 1 .. Len(order) /\ \A k \in 1 .. Len(order) : met[k] = walk[order[k]]
  OBVIOUS
<1>. HIDE DEF order, met
<1>9. ToSet(walk) = members
  <2>1. ToSet(walk) \subseteq members
    BY <1>5 DEF ToSet
  <2>2. ASSUME NEW m \in members PROVE m \in ToSet(walk)
    <3>1. PICK g \in PointsOf(m) : g \in DOMAIN ring /\ ring[g] = m
      BY <1>3
    <3>2. PICK k \in 1 .. n : Point(h, k) = g
      BY <1>2, <3>1
    <3>3. walk[k] = m
      BY <1>5, <3>1, <3>2
    <3>4. QED
      BY <1>5, <3>3 DEF ToSet
  <2>3. QED
    BY <2>1, <2>2
<1>10. IsInjective(met) /\ ToSet(met) = members
  BY <1>7, <1>9 DEF IsInjective
<1>11. /\ Len(met) = Cardinality(members) /\ Cardinality(members) <= Cardinality(Nodes)
       /\ Cardinality(Nodes) \in Nat /\ Cardinality(members) \in Nat
  <2>1. Cardinality(members) = Len(met)
    BY <1>7, <1>10, InjectiveLength
  <2>2. IsFiniteSet(Nodes)
    BY RingConstants
  <2>3. QED
    BY <2>1, <2>2, FS_Subset, FS_CardinalityType
<1>12. met = [k \in 1 .. Len(order) |-> walk[order[k]]]
  BY DEF met
<1>13. all = met
  <2>1. ~(Cardinality(Nodes) < Len(order))
    BY <1>7, <1>11
  <2>2. QED
    BY <1>6, <1>12, <2>1
<1>14. ASSUME NEW i \in DOMAIN met, NEW j \in DOMAIN met, i < j
       PROVE  <<met[i], met[j]>> \in Nearer(h)
  <2>1. /\ order[i] \in 1 .. n /\ order[j] \in 1 .. n /\ order[i] < order[j]
        /\ met[i] = walk[order[i]] /\ met[j] = walk[order[j]]
        /\ met[i] \in members /\ met[j] \in members
    BY <1>5, <1>7, <1>8, <1>14
  <2>. DEFINE f == Point(h, order[i])
  <2>2. f \in DOMAIN ring /\ ring[f] = met[i] /\ f \in PointsOf(met[i])
    BY <1>2, <1>3, <1>5, <2>1
  <2>3. ASSUME NEW g \in PointsOf(met[j])
        PROVE  Dist(h, f) < Dist(h, g)
    <3>1. g \in DOMAIN ring /\ ring[g] = met[j]
      BY <1>3, <2>1
    <3>2. PICK l \in 1 .. n : Point(h, l) = g
      BY <1>2, <3>1
    <3>3. walk[l] = walk[order[j]]
      BY <1>5, <2>1, <3>1, <3>2
    <3>4. ~(l \in 1 .. order[j] - 1)
      BY <1>7, <1>8, <3>3
    <3>5. order[i] < l
      BY <1>1, <2>1, <3>4
    <3>6. QED
      BY <1>2, <2>1, <3>2, <3>5
  <2>. HIDE DEF f
  <2>4. QED
    BY <2>1, <2>2, <2>3 DEF Nearer
<1>15. ASSUME members # {}
       PROVE  Len(met) > 0 /\ Closest(h, Point(h, 1)) /\ met[1] = ring[Point(h, 1)]
  <2>1. n > 0 /\ 1 \in 1 .. n /\ walk # <<>>
    BY <1>1, <1>5, <1>15
  <2>2. Len(order) > 0 /\ order[1] = 1 /\ 1 \in 1 .. Len(order)
    BY <1>7, <2>1
  <2>3. met[1] = ring[Point(h, 1)]
    BY <1>5, <1>8, <2>1, <2>2
  <2>4. QED
    BY <1>7, <1>15, <2>2, <2>3, FirstPoint
<1>16. ASSUME NEW count \in 1 .. Cardinality(Nodes)
       PROVE  GetNodes(h, count)
                = [k \in 1 .. IF count < Len(met) THEN count ELSE Len(met) |-> met[k]]
  <2>. DEFINE c == IF count < Len(order) THEN count ELSE Len(order)
  <2>1. GetNodes(h, count) = [k \in 1 .. c |-> walk[order[k]]]
    BY <1>6
  <2>2. \A k \in 1 .. c : k \in 1 .. Len(order)
    BY <1>7, <1>11
  <2>3. QED
    BY <1>7, <1>8, <2>1, <2>2
<1>17. met \in Seq(Nodes)
  BY <1>7
<1>18. QED
  BY <1>10, <1>11, <1>13, <1>14, <1>15, <1>16, <1>17
-----------------------------------------------------------------------------
LEMMA LookupsKept ==
  RingIInv => TypeOK /\ RingOfMembers /\ FindsNearest /\ ReplicasStartAtNode
<1>. SUFFICES ASSUME RingIInv
              PROVE  TypeOK /\ RingOfMembers /\ FindsNearest /\ ReplicasStartAtNode
  OBVIOUS
<1>1. PointsKnown /\ SortedKnown
  BY RingKnown
<1>2. /\ members \in SUBSET Nodes /\ hash32 \in [Virtual -> Hashes]
      /\ DOMAIN ring = UNION {PointsOf(n) : n \in members}
      /\ \A n \in members : \A h \in PointsOf(n) : ring[h] = n
  BY DEF RingIInv
<1>3. TypeOK
  BY <1>1, <1>2 DEF TypeOK, PointsKnown, SortedKnown
<1>4. RingOfMembers
  BY <1>1, <1>2 DEF RingOfMembers, SortedKnown
<1>5. FindsNearest
  BY <1>1, NodeFound DEF FindsNearest
<1>6. ASSUME members # {}, NEW h \in Hashes, NEW count \in 1 .. Cardinality(Nodes)
      PROVE  /\ IsInjective(GetNodes(h, count))
             /\ Head(GetNodes(h, count)) = GetNode(h)
             /\ Len(GetNodes(h, count)) = IF count < Cardinality(members) THEN count
                                          ELSE Cardinality(members)
  <2>. DEFINE all == GetNodes(h, Cardinality(Nodes))
              nodes == GetNodes(h, count)
  <2>1. /\ all \in Seq(Nodes) /\ IsInjective(all) /\ Len(all) = Cardinality(members)
        /\ Len(all) > 0 /\ Closest(h, Point(h, 1)) /\ all[1] = ring[Point(h, 1)]
        /\ nodes = [k \in 1 .. IF count < Len(all) THEN count ELSE Len(all) |-> all[k]]
    BY <1>1, <1>2, <1>6, NodesMet
  <2>. HIDE DEF all, nodes
  <2>. DEFINE c == IF count < Len(all) THEN count ELSE Len(all)
  <2>2. /\ Len(all) \in Nat /\ DOMAIN all = 1 .. Len(all)
        /\ \A k \in 1 .. Len(all) : all[k] \in Nodes
    BY <2>1
  <2>3. count \in Nat /\ count >= 1
    <3>1. Cardinality(Nodes) \in Nat
      BY RingConstants, FS_CardinalityType
    <3>2. QED
      BY <3>1
  <2>4. c \in Nat /\ c >= 1 /\ c <= Len(all)
    BY <2>1, <2>2, <2>3
  <2>5. nodes = [k \in 1 .. c |-> all[k]]
    BY <2>1
  <2>. HIDE DEF c
  <2>6. /\ DOMAIN nodes = 1 .. c
        /\ \A k \in 1 .. c : nodes[k] = all[k] /\ nodes[k] \in Nodes /\ k \in DOMAIN all
    BY <2>2, <2>4, <2>5
  <2>7. nodes \in Seq(Nodes) /\ Len(nodes) = c
    <3>1. nodes = [k \in 1 .. c |-> nodes[k]]
      BY <2>5, <2>6
    <3>2. QED
      BY <2>4, <2>6, <3>1, SeqByElements
  <2>8. IsInjective(nodes)
    BY <2>1, <2>6 DEF IsInjective
  <2>9. Head(nodes) = all[1]
    BY <2>4, <2>6, <2>7
  <2>10. PICK g : Closest(h, g) /\ GetNode(h) = ring[g]
    BY <1>1, <1>6, NodeFound
  <2>11. g = Point(h, 1)
    <3>1. g \in DOMAIN ring /\ Point(h, 1) \in DOMAIN ring
      BY <2>1, <2>10 DEF Closest
    <3>2. Dist(h, g) \in Nat /\ Dist(h, Point(h, 1)) \in Nat
      BY <1>1, <3>1, DistOrder DEF PointsKnown
    <3>3. SUFFICES ASSUME g # Point(h, 1) PROVE FALSE
      OBVIOUS
    <3>4. Dist(h, g) < Dist(h, Point(h, 1)) /\ Dist(h, Point(h, 1)) < Dist(h, g)
      BY <2>1, <2>10, <3>1, <3>3 DEF Closest
    <3>5. QED
      BY <3>2, <3>4
  <2>12. QED
    BY <2>1, <2>7, <2>8, <2>9, <2>10, <2>11 DEF c, nodes
<1>7. ReplicasStartAtNode
  BY <1>6 DEF ReplicasStartAtNode
<1>8. QED
  BY <1>3, <1>4, <1>5, <1>7

LEMMA RingStep == RingIInv /\ [Next]_vars => RingIInv'
<1>. SUFFICES ASSUME RingIInv, [Next]_vars PROVE RingIInv'
  OBVIOUS
<1>1. ASSUME NEW n \in Nodes, AddNode(n) PROVE RingIInv'
  BY <1>1, AddKept
<1>2. ASSUME NEW n \in Nodes, RemoveNode(n) PROVE RingIInv'
  BY <1>2, RemoveKept
<1>3. CASE UNCHANGED vars
  BY <1>3 DEF vars, RingIInv, PointsOf
<1>4. QED
  BY <1>1, <1>2, <1>3 DEF Next

(* What a lookup returns in a state, in terms that a later state shares.     *)
NodeKnown ==
  /\ \A h \in DOMAIN ring : ring[h] \in members /\ h \in PointsOf(ring[h])
  /\ \A n \in members : \A h \in PointsOf(n) : h \in DOMAIN ring /\ ring[h] = n
  /\ DOMAIN ring \in SUBSET Hashes
  /\ members # {} => \A h \in Hashes : \E g : Closest(h, g) /\ GetNode(h) = ring[g]

AllNodes(h) == GetNodes(h, Cardinality(Nodes))

NodesKnown ==
  \A h \in Hashes :
    /\ AllNodes(h) \in Seq(Nodes) /\ ToSet(AllNodes(h)) = members /\ IsInjective(AllNodes(h))
    /\ \A i, j \in DOMAIN AllNodes(h) : i < j => <<AllNodes(h)[i], AllNodes(h)[j]>> \in Nearer(h)
    /\ Strict(Nearer(h), Nodes)

LEMMA LookupsKnown == RingIInv => NodeKnown /\ NodesKnown
<1>. SUFFICES ASSUME RingIInv PROVE NodeKnown /\ NodesKnown
  OBVIOUS
<1>1. PointsKnown /\ SortedKnown /\ members \in SUBSET Nodes
  BY RingKnown DEF RingIInv
<1>2. NodeKnown
  <2>1. ASSUME members # {}, NEW h \in Hashes
        PROVE  \E g : Closest(h, g) /\ GetNode(h) = ring[g]
    BY <1>1, <2>1, NodeFound
  <2>2. QED
    BY <1>1, <2>1 DEF NodeKnown, PointsKnown
<1>3. ASSUME NEW h \in Hashes
      PROVE  /\ AllNodes(h) \in Seq(Nodes) /\ ToSet(AllNodes(h)) = members
             /\ IsInjective(AllNodes(h))
             /\ \A i, j \in DOMAIN AllNodes(h) :
                  i < j => <<AllNodes(h)[i], AllNodes(h)[j]>> \in Nearer(h)
             /\ Strict(Nearer(h), Nodes)
  BY <1>1, NodesMet, NearerStrict DEF AllNodes
<1>4. NodesKnown
  BY <1>3 DEF NodesKnown
<1>5. QED
  BY <1>2, <1>4

LEMMA FewMoved ==
  ASSUME NodeKnown, NodeKnown', hash32' = hash32, members # {}, members' # {}, NEW h \in Hashes,
         GetNode(h) # GetNode(h)'
  PROVE  GetNode(h)' \in members' \ members \/ GetNode(h) \in members \ members'
<1>1. PICK g : Closest(h, g) /\ GetNode(h) = ring[g]
  BY DEF NodeKnown
<1>2. \E g2 : Closest(h, g2)' /\ GetNode(h)' = ring'[g2]
  BY DEF NodeKnown
<1>3. PICK f : Closest(h, f)' /\ GetNode(h)' = ring'[f]
  BY <1>2
<1>4. \A m : PointsOf(m)' = PointsOf(m)
  BY DEF PointsOf
<1>5. /\ g \in DOMAIN ring /\ ring[g] \in members /\ g \in PointsOf(ring[g])
      /\ \A e \in DOMAIN ring \ {g} : Dist(h, g) < Dist(h, e)
      /\ \A n \in members : \A e \in PointsOf(n) : e \in DOMAIN ring /\ ring[e] = n
  BY <1>1 DEF NodeKnown, Closest
<1>6. /\ f \in DOMAIN ring' /\ ring'[f] \in members' /\ f \in PointsOf(ring'[f])
      /\ \A e \in DOMAIN ring' \ {f} : Dist(h, f) < Dist(h, e)
      /\ \A n \in members' : \A e \in PointsOf(n) : e \in DOMAIN ring' /\ ring'[e] = n
  BY <1>3, <1>4 DEF NodeKnown, Closest, Dist
<1>7. SUFFICES ASSUME ring'[f] \in members, ring[g] \in members'
               PROVE  FALSE
  BY <1>1, <1>3, <1>5, <1>6
<1>8. f \in DOMAIN ring /\ ring[f] = ring'[f] /\ g \in DOMAIN ring' /\ ring'[g] = ring[g]
  BY <1>5, <1>6, <1>7
<1>9. f # g
  BY <1>1, <1>3, <1>8
<1>10. Dist(h, g) < Dist(h, f) /\ Dist(h, f) < Dist(h, g)
  BY <1>5, <1>6, <1>8, <1>9
<1>11. Dist(h, f) \in Nat /\ Dist(h, g) \in Nat
  BY <1>5, <1>8, DistOrder DEF NodeKnown
<1>12. QED
  BY <1>10, <1>11

LEMMA ReplicasKept ==
  ASSUME NodesKnown, NodesKnown', hash32' = hash32, members' \subseteq members, NEW h \in Hashes
  PROVE  Kept(AllNodes(h), members') = AllNodes(h)'
<1>. DEFINE s == AllNodes(h)
            t == AllNodes(h)'
            k == Kept(s, members')
            R == Nearer(h)
<1>1. /\ s \in Seq(Nodes) /\ ToSet(s) = members /\ IsInjective(s) /\ Strict(R, Nodes)
      /\ \A i, j \in DOMAIN s : i < j => <<s[i], s[j]>> \in R
  BY DEF NodesKnown
<1>2. /\ t \in Seq(Nodes) /\ ToSet(t) = members'
      /\ \A i, j \in DOMAIN t : i < j => <<t[i], t[j]>> \in R'
  BY DEF NodesKnown
<1>3. R' = R
  BY DEF Nearer, PointsOf, Dist
<1>. HIDE DEF s, t, R
<1>4. k \in Seq(Nodes) /\ ToSet(k) = members'
  <2>1. k \in Seq(Nodes)
    BY <1>1, KeptProperties
  <2>2. ToSet(k) = ToSet(s) \cap members'
    BY <1>1, KeptRange
  <2>3. QED
    BY <1>1, <2>1, <2>2
<1>. HIDE DEF k
<1>5. ASSUME NEW i \in DOMAIN k, NEW j \in DOMAIN k, i < j
      PROVE  <<k[i], k[j]>> \in R
  <2>1. Precedes(k, k[i], k[j])
    BY <1>5 DEF Precedes
  <2>2. Precedes(s, k[i], k[j])
    BY <1>1, <2>1, KeptOrder DEF k
  <2>3. QED
    BY <1>1, <2>2 DEF Precedes
<1>6. k = t
  BY <1>1, <1>2, <1>3, <1>4, <1>5, OneOrder
<1>7. QED
  BY <1>6 DEF k, t, s
-----------------------------------------------------------------------------
PartRing == part = "ring" => RingIInv

LEMMA RingInvariant == MCSpec => []PartRing
<1>1. MCInit => PartRing
  BY InitRing DEF MCInit, PartRing
<1>2. PartRing
        /\ [MCNext /\ UNCHANGED part]_<<part, vars, balancerVars, discoveryVars, checksVars>>
        => PartRing'
  <2>1. [MCNext /\ UNCHANGED part]_<<part, vars, balancerVars, discoveryVars, checksVars>>
          => [Next]_vars /\ UNCHANGED part
    BY DEF MCNext
  <2>2. QED
    BY <2>1, RingStep DEF PartRing
<1>3. QED
  BY <1>1, <1>2, PTL DEF MCSpec

(* ConsistentHashRing: after any series of additions and removals, and for   *)
(* every hash, getNode finds the nearest point around the ring by its binary *)
(* search, and getNodes as many distinct nodes as there are, starting with   *)
(* it.                                                                       *)
THEOREM LookupsAlwaysAgree == MCSpec => []LookupsAgree
<1>1. PartRing => LookupsAgree
  BY LookupsKept DEF PartRing, LookupsAgree
<1>2. QED
  BY <1>1, RingInvariant, PTL

(* ConsistentHashRing: a change of members moves only the keys of the node   *)
(* that came or went, and when nodes go, the other replicas of every key     *)
(* stay, in their order.                                                     *)
THEOREM OthersAlwaysStay == MCSpec => OthersStay
<1>1. RingIInv /\ [Next]_vars
        => [members # {} /\ members' # {} =>
              \A h \in Hashes :
                GetNode(h) # GetNode(h)' =>
                  \/ GetNode(h)' \in members' \ members
                  \/ GetNode(h) \in members \ members']_vars
  <2>1. RingIInv' => NodeKnown'
    BY LookupsKnown, PTL
  <2>2. [Next]_vars => hash32' = hash32
    BY DEF Next, vars, AddNode, RemoveNode
  <2>3. QED
    BY <2>1, <2>2, LookupsKnown, RingStep, FewMoved
<1>2. RingIInv /\ [Next]_vars
        => [members # {} /\ members' \subseteq members =>
              \A h \in Hashes :
                Kept(GetNodes(h, Cardinality(Nodes)), members')
                  = GetNodes(h, Cardinality(Nodes))']_vars
  <2>1. RingIInv' => NodesKnown'
    BY LookupsKnown, PTL
  <2>2. [Next]_vars => hash32' = hash32
    BY DEF Next, vars, AddNode, RemoveNode
  <2>3. QED
    BY <2>1, <2>2, LookupsKnown, RingStep, ReplicasKept DEF AllNodes
<1>3. [MCNext /\ UNCHANGED part]_<<part, vars, balancerVars, discoveryVars, checksVars>>
        => UNCHANGED vars \/ (part = "ring" /\ [Next]_vars)
  BY DEF MCNext
<1>4. PartRing
        /\ [MCNext /\ UNCHANGED part]_<<part, vars, balancerVars, discoveryVars, checksVars>>
        => /\ [members # {} /\ members' # {} =>
                \A h \in Hashes :
                  GetNode(h) # GetNode(h)' =>
                    \/ GetNode(h)' \in members' \ members
                    \/ GetNode(h) \in members \ members']_vars
           /\ [members # {} /\ members' \subseteq members =>
                \A h \in Hashes :
                  Kept(GetNodes(h, Cardinality(Nodes)), members')
                    = GetNodes(h, Cardinality(Nodes))']_vars
  BY <1>1, <1>2, <1>3 DEF PartRing
<1>5. QED
  BY <1>4, RingInvariant, PTL DEF MCSpec, OthersStay, MinimalRemapping, ReplicasStay
=============================================================================
