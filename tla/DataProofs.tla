------------------------------ MODULE DataProofs ------------------------------
(* Proofs about the data a service keeps and asks for: the in-memory cache   *)
(* of packages/cache, for every size, all times to live and any number of    *)
(* callers; the transactions of packages/prisma, for any number of calls     *)
(* and attempts, and its pages, for every table and page size.               *)
EXTENDS Cache, MCPrisma, CollectionLemmas
-----------------------------------------------------------------------------

(* The Map.                                                                  *)
GoodMap(m) ==
  /\ DOMAIN m = {"order", "entry"}
  /\ m.order \in Seq(Keys) /\ IsInjective(m.order)
  /\ m.entry \in [ToSet(m.order) -> Entries]

(* What is left of a Map without some keys.                                  *)
Reduced(w, m, K) ==
  /\ GoodMap(w) /\ DOMAIN w.entry = DOMAIN m.entry \ K
  /\ \A k \in DOMAIN w.entry : w.entry[k] = m.entry[k]
  /\ Len(w.order) \in Nat /\ Len(w.order) <= Len(m.order)
  /\ (\E k \in DOMAIN m.entry : k \in K) => Len(w.order) < Len(m.order)
  /\ \A x, y : Precedes(w.order, x, y) => Precedes(m.order, x, y)

LEMMA WithoutGood ==
  ASSUME NEW m, GoodMap(m), NEW K
  PROVE  Reduced(Without(m, K), m, K)
<1>. DEFINE w == Without(m, K)
            T == DOMAIN m.entry \ K
<1>1. /\ w.order = Kept(m.order, T) /\ w.entry = [k \in T |-> m.entry[k]]
      /\ DOMAIN w = {"order", "entry"}
  BY DEF Without, Restrict
<1>2. /\ m.order \in Seq(Keys) /\ IsInjective(m.order) /\ DOMAIN m.entry = ToSet(m.order)
      /\ m.entry \in [ToSet(m.order) -> Entries]
  BY DEF GoodMap
<1>. HIDE DEF w, T
<1>3. /\ w.order \in Seq(Keys) /\ Len(w.order) <= Len(m.order) /\ Len(w.order) \in Nat
      /\ Len(w.order) = Len(m.order) => \A i \in 1 .. Len(m.order) : m.order[i] \in T
  BY <1>1, <1>2, KeptProperties
<1>4. /\ ToSet(w.order) = ToSet(m.order) \cap T /\ IsInjective(w.order)
  BY <1>1, <1>2, KeptRange
<1>5. ToSet(w.order) = T /\ T \subseteq DOMAIN m.entry
  BY <1>2, <1>4 DEF T
<1>6. GoodMap(w)
  BY <1>1, <1>2, <1>3, <1>4, <1>5 DEF GoodMap
<1>7. ASSUME NEW k \in DOMAIN m.entry, k \in K
      PROVE  Len(w.order) < Len(m.order)
  <2>1. PICK i \in 1 .. Len(m.order) : m.order[i] = k
    BY <1>2, <1>7 DEF ToSet
  <2>2. k \notin T
    BY <1>7 DEF T
  <2>3. Len(w.order) # Len(m.order) /\ Len(m.order) \in Nat
    BY <1>2, <1>3, <2>1, <2>2
  <2>4. QED
    BY <1>3, <2>3
<1>8. \A x, y : Precedes(w.order, x, y) <=> x \in T /\ y \in T /\ Precedes(m.order, x, y)
  BY <1>1, <1>2, KeptOrder
<1>9. DOMAIN w.entry = T /\ \A k \in T : w.entry[k] = m.entry[k]
  BY <1>1
<1>10. DOMAIN w.entry = DOMAIN m.entry \ K
  BY <1>9 DEF T
<1>11. Reduced(w, m, K)
  BY <1>3, <1>6, <1>7, <1>8, <1>9, <1>10 DEF Reduced
<1>12. QED
  BY <1>11 DEF w

(* ... and with a key that it had not.                                       *)
Extended(i, m, k, e) ==
  /\ GoodMap(i) /\ DOMAIN i.entry = DOMAIN m.entry \cup {k}
  /\ i.entry[k] = e /\ \A j \in DOMAIN m.entry : i.entry[j] = m.entry[j]
  /\ Len(i.order) = Len(m.order) + 1
  /\ \A x, y : Precedes(i.order, x, y) <=>
                 Precedes(m.order, x, y) \/ (x \in DOMAIN m.entry /\ y = k)

LEMMA InsertedGood ==
  ASSUME NEW m, GoodMap(m), NEW k \in Keys, k \notin DOMAIN m.entry, NEW e \in Entries
  PROVE  Extended(Inserted(m, k, e), m, k, e)
<1>. DEFINE i == Inserted(m, k, e)
<1>1. /\ i.order = Append(m.order, k) /\ DOMAIN i = {"order", "entry"}
      /\ i.entry = [j \in DOMAIN m.entry \cup {k} |-> IF j = k THEN e ELSE m.entry[j]]
  BY DEF Inserted
<1>. HIDE DEF i
<1>2. /\ m.order \in Seq(Keys) /\ IsInjective(m.order) /\ DOMAIN m.entry = ToSet(m.order)
      /\ m.entry \in [ToSet(m.order) -> Entries]
  BY DEF GoodMap
<1>3. /\ i.order \in Seq(Keys) /\ Len(i.order) = Len(m.order) + 1
      /\ ToSet(i.order) = ToSet(m.order) \cup {k}
  BY <1>1, <1>2, AppendRange, AppendProperties
<1>4. IsInjective(i.order)
  <2>1. k \notin ToSet(m.order) /\ \A a, b \in DOMAIN m.order : m.order[a] = m.order[b] => a = b
    BY <1>2 DEF IsInjective
  <2>2. \A a, b \in DOMAIN i.order : i.order[a] = i.order[b] => a = b
    BY <1>1, <1>2, <2>1, AppendRange
  <2>3. QED
    BY <2>2 DEF IsInjective
<1>5. /\ DOMAIN i.entry = DOMAIN m.entry \cup {k}
      /\ i.entry[k] = e /\ \A j \in DOMAIN m.entry : i.entry[j] = m.entry[j]
  BY <1>1
<1>6. GoodMap(i)
  BY <1>1, <1>2, <1>3, <1>4 DEF GoodMap
<1>7. \A x, y : Precedes(i.order, x, y) <=>
                  Precedes(m.order, x, y) \/ (x \in DOMAIN m.entry /\ y = k)
  BY <1>1, <1>2, AppendOrder
<1>8. Extended(i, m, k, e)
  BY <1>3, <1>5, <1>6, <1>7 DEF Extended
<1>9. QED
  BY <1>8 DEF i

LEMMA CacheConstants ==
  /\ Longest \in Nat /\ \A t \in Ttls : t \in 0 .. Longest
  /\ Oldest \in Nat /\ Oldest = ComputeTime + Longest + 1
  /\ MaxSize \in Nat \ {0} /\ ComputeTime \in Nat /\ MaxHits \in Nat
  /\ Forever \notin Nat /\ Nothing \notin Nat
<1>1. PICK t \in Ttls : \A u \in Ttls : u <= t
  BY CacheAssumption
<1>2. Longest \in Ttls /\ \A u \in Ttls : u <= Longest
  BY <1>1 DEF Longest
<1>3. QED
  BY <1>2, CacheAssumption DEF Oldest

LEMMA EntryTypes ==
  ASSUME NEW e \in Entries
  PROVE  /\ e.left \in {Forever} \cup 0 .. Longest + 1
         /\ e.left # Forever => e.left \in Nat
         /\ e.frequency \in 1 .. MaxHits + 1 /\ e.frequency \in Nat
         /\ e.age \in 0 .. Oldest /\ e.age \in Nat
         /\ e = [left |-> e.left, frequency |-> e.frequency, age |-> e.age]
BY CacheConstants DEF Entries

(* An entry that is there and has not expired is as fresh as its ttl says.   *)
FreshEntry(e) ==
  e.left \notin {Forever, 0} => e.age + e.left <= ComputeTime + Longest + 1

(* The histories agree with what the code keeps of them, the order of the    *)
(* Map under LRU and TTL and the frequencies under LFU, but for the keys     *)
(* that has() was asked for.                                                 *)
OrderKept ==
  /\ recent \in Seq(Keys)
  /\ policy # "LFU" =>
       /\ DOMAIN store.entry \subseteq ToSet(recent)
       /\ \A x, y : Precedes(store.order, x, y) /\ y \notin asked => Precedes(recent, x, y)

HitsKept ==
  /\ hits \in [Keys -> 0 .. MaxHits]
  /\ policy = "LFU" => \A k \in DOMAIN store.entry :
       /\ hits[k] + 1 <= store.entry[k].frequency
       /\ k \notin asked => store.entry[k].frequency = hits[k] + 1

AskedKept == asked \subseteq Keys /\ (policy = "TTL" => asked = {})

CacheIInv ==
  /\ policy \in Policies
  /\ GoodMap(store) /\ Len(store.order) <= MaxSize
  /\ \A k \in DOMAIN store.entry : FreshEntry(store.entry[k])
  /\ computing \in [Callers -> {Idle} \cup [key : Keys, age : 0 .. ComputeTime]]
  /\ operation \in {"none", "get", "has", "set", "drop", "tick"}
  /\ served \in {Nothing} \cup 0 .. ComputeTime + Longest
  /\ OrderKept /\ HitsKept /\ AskedKept

LEMMA CacheIInvImplies == CacheIInv => FreshEnough
<1>1. SUFFICES ASSUME CacheIInv PROVE FreshEnough
  OBVIOUS
<1>2. TypeOK
  <2>1. ToSet(recent) \subseteq Keys
    BY <1>1 DEF CacheIInv, OrderKept, ToSet
  <2>2. served \in {Nothing} \cup 0 .. Oldest
    BY <1>1, CacheConstants DEF CacheIInv
  <2>3. QED
    BY <1>1, <2>1, <2>2 DEF CacheIInv, GoodMap, HitsKept, AskedKept, TypeOK
<1>3. served # Nothing => served <= ComputeTime + Longest
  BY <1>1, CacheConstants DEF CacheIInv
<1>4. QED
  BY <1>2, <1>3 DEF FreshEnough

LEMMA InitCache == Init => CacheIInv
<1>. SUFFICES ASSUME Init PROVE CacheIInv
  OBVIOUS
<1>1. /\ store = [order |-> <<>>, entry |-> <<>>] /\ recent = <<>>
      /\ policy \in Policies /\ operation = "none" /\ served = Nothing
      /\ hits = [k \in Keys |-> 0] /\ computing = [c \in Callers |-> Idle] /\ asked = {}
  BY DEF Init
<1>2. /\ ToSet(<<>>) = {} /\ <<>> \in Seq(Keys) /\ Len(<<>>) = 0 /\ IsInjective(<<>>)
  BY DEF ToSet, IsInjective
<1>3. <<>> \in [{} -> Entries] /\ DOMAIN <<>> = {}
  OBVIOUS
<1>4. GoodMap(store)
  BY <1>1, <1>2, <1>3 DEF GoodMap
<1>5. \A x, y : ~Precedes(<<>>, x, y)
  BY DEF Precedes
<1>6. OrderKept /\ HitsKept /\ AskedKept
  BY <1>1, <1>2, <1>3, <1>5, CacheConstants DEF OrderKept, HitsKept, AskedKept
<1>7. QED
  BY <1>1, <1>2, <1>3, <1>4, <1>6, CacheConstants DEF CacheIInv

LEMMA PrecedesIn ==
  ASSUME NEW m, GoodMap(m), NEW x, NEW y, Precedes(m.order, x, y)
  PROVE  x \in DOMAIN m.entry /\ y \in DOMAIN m.entry
BY DEF GoodMap, Precedes, ToSet

LEMMA PurgedGood ==
  ASSUME CacheIInv
  PROVE  LET p == Purged(store) IN
         /\ GoodMap(p) /\ Len(p.order) \in Nat /\ Len(p.order) <= Len(store.order)
         /\ DOMAIN p.entry = IF policy = "TTL" THEN Live ELSE DOMAIN store.entry
         /\ \A k \in DOMAIN p.entry : p.entry[k] = store.entry[k]
         /\ \A x, y : Precedes(p.order, x, y) => Precedes(store.order, x, y)
         /\ \A x \in DOMAIN store.entry \ DOMAIN p.entry :
              Len(p.order) < Len(store.order) /\ Expired(store.entry[x]) /\ policy = "TTL"
<1>1. GoodMap(store)
  BY DEF CacheIInv
<1>2. CASE policy = "TTL"
  <2>1. Purged(store) = Without(store, ExpiredKeys(store))
    BY <1>2 DEF Purged
  <2>2. \A x \in DOMAIN store.entry \ Live : x \in ExpiredKeys(store) /\ Expired(store.entry[x])
    BY DEF Live, ExpiredKeys
  <2>3. Reduced(Purged(store), store, ExpiredKeys(store))
    BY <1>1, <2>1, WithoutGood
  <2>4. \A x \in DOMAIN store.entry \ Live : x \in DOMAIN store.entry
    OBVIOUS
  <2>5. QED
    BY <1>2, <2>2, <2>3, <2>4 DEF Reduced, Live
<1>3. CASE policy # "TTL"
  <2>1. Purged(store) = store
    BY <1>3 DEF Purged
  <2>2. Len(store.order) \in Nat
    BY <1>1 DEF GoodMap
  <2>3. QED
    BY <1>1, <1>3, <2>1, <2>2
<1>4. QED
  BY <1>2, <1>3

(* What evict() takes.                                                       *)
LEMMA VictimChosen ==
  ASSUME policy \in Policies, NEW m, GoodMap(m), Len(m.order) > 0
  PROVE  /\ Victim(m) \in DOMAIN m.entry
         /\ policy # "LFU" => \A j \in DOMAIN m.entry \ {Victim(m)} :
                                Precedes(m.order, Victim(m), j)
         /\ policy = "LFU" => \A j \in DOMAIN m.entry :
                                m.entry[Victim(m)].frequency <= m.entry[j].frequency
<1>1. /\ m.order \in Seq(Keys) /\ m.order # <<>> /\ DOMAIN m.entry = ToSet(m.order)
      /\ m.entry \in [ToSet(m.order) -> Entries]
  BY DEF GoodMap
<1>2. CASE policy # "LFU"
  BY <1>1, <1>2, HeadFirst DEF Victim
<1>3. CASE policy = "LFU"
  <2>. DEFINE F == {m.entry[k].frequency : k \in DOMAIN m.entry}
              T == {k \in DOMAIN m.entry : \A j \in DOMAIN m.entry :
                      m.entry[k].frequency <= m.entry[j].frequency}
              least == Kept(m.order, T)
  <2>1. F \in SUBSET Nat
    <3>1. \A k \in DOMAIN m.entry : m.entry[k].frequency \in Nat
      BY <1>1, EntryTypes
    <3>2. QED
      BY <3>1
  <2>2. F # {}
    <3>1. Head(m.order) \in DOMAIN m.entry
      BY <1>1, HeadFirst
    <3>2. QED
      BY <3>1
  <2>3. PICK f \in F : \A g \in F : f <= g
    <3>. HIDE DEF F
    <3>. QED
      BY <2>1, <2>2, LeastNatural
  <2>4. PICK k \in T : TRUE
    BY <2>3
  <2>5. T \subseteq ToSet(m.order)
    BY <1>1
  <2>6. least \in Seq(Keys) /\ ToSet(least) = ToSet(m.order) \cap T
    <3>. HIDE DEF T
    <3>. QED
      BY <1>1, KeptProperties, KeptRange
  <2>7. least # <<>>
    <3>1. k \in ToSet(least)
      BY <2>4, <2>5, <2>6
    <3>. HIDE DEF least
    <3>2. QED
      BY <3>1 DEF ToSet
  <2>8. Head(least) \in T
    <3>. HIDE DEF least, T
    <3>. QED
      BY <2>6, <2>7, HeadFirst
  <2>9. Victim(m) = Head(least)
    BY <1>3 DEF Victim, LeastFrequent
  <2>10. QED
    BY <1>3, <2>8, <2>9
<1>4. QED
  BY <1>2, <1>3

(* The Map after set(): the new entry at its end, the others as they were,   *)
(* but for those that expired and, in a full Map, the victim.                *)
NewEntry(age, ttl) == [left |-> Expiry(ttl), frequency |-> 1, age |-> age]

SetIn(s, k, e) ==
  /\ GoodMap(s) /\ Len(s.order) <= MaxSize
  /\ k \in DOMAIN s.entry /\ DOMAIN s.entry \subseteq DOMAIN store.entry \cup {k}
  /\ s.entry[k] = e
  /\ \A j \in DOMAIN s.entry \ {k} : s.entry[j] = store.entry[j]
  /\ \A x, y : Precedes(s.order, x, y) =>
                 x # k /\ (y = k \/ Precedes(store.order, x, y))
  /\ \A g \in DOMAIN store.entry \ DOMAIN s.entry :
       \/ policy = "TTL" /\ Expired(store.entry[g])
       \/ /\ Len(Purged(store).order) = MaxSize /\ k \notin DOMAIN Purged(store).entry
          /\ g \in DOMAIN Purged(store).entry /\ g = Victim(Purged(store))

LEMMA AfterSetGood ==
  ASSUME CacheIInv, NEW k \in Keys, NEW age \in 0 .. ComputeTime, NEW ttl \in Ttls
  PROVE  /\ NewEntry(age, ttl) \in Entries /\ FreshEntry(NewEntry(age, ttl))
         /\ SetIn(AfterSet(k, age, ttl), k, NewEntry(age, ttl))
<1>. DEFINE p == Purged(store)
            room == IF k \in DOMAIN p.entry THEN Without(p, {k})
                    ELSE IF IsFull(p) THEN Without(p, {Victim(p)}) ELSE p
            e == NewEntry(age, ttl)
            s == AfterSet(k, age, ttl)
<1>1. /\ GoodMap(p) /\ Len(p.order) \in Nat /\ Len(p.order) <= MaxSize
      /\ DOMAIN p.entry \subseteq DOMAIN store.entry
      /\ \A j \in DOMAIN p.entry : p.entry[j] = store.entry[j]
      /\ \A x, y : Precedes(p.order, x, y) => Precedes(store.order, x, y)
      /\ \A x \in DOMAIN store.entry \ DOMAIN p.entry :
           Expired(store.entry[x]) /\ policy = "TTL"
  <2>1. Len(store.order) <= MaxSize /\ Len(store.order) \in Nat /\ MaxSize \in Nat
    BY CacheConstants DEF CacheIInv, GoodMap
  <2>2. QED
    BY <2>1, PurgedGood DEF Live
<1>2. s = Inserted(room, k, e)
  BY DEF AfterSet, NewEntry
<1>3. e \in Entries /\ FreshEntry(e)
  <2>1. Expiry(ttl) \in {Forever} \cup 0 .. Longest + 1 /\ age \in 0 .. Oldest
    BY CacheConstants DEF Expiry
  <2>2. 1 \in 1 .. MaxHits + 1
    BY CacheConstants
  <2>3. Expiry(ttl) = Forever \/ age + Expiry(ttl) <= ComputeTime + Longest + 1
    BY CacheConstants DEF Expiry
  <2>4. QED
    BY <2>1, <2>2, <2>3 DEF NewEntry, Entries, FreshEntry
<1>. HIDE DEF p, s, e
<1>4. /\ GoodMap(room) /\ Len(room.order) + 1 <= MaxSize
      /\ k \notin DOMAIN room.entry /\ DOMAIN room.entry \subseteq DOMAIN p.entry
      /\ \A j \in DOMAIN room.entry : room.entry[j] = p.entry[j]
      /\ \A x, y : Precedes(room.order, x, y) => Precedes(p.order, x, y)
      /\ \A g \in DOMAIN p.entry \ DOMAIN room.entry :
           \/ g = k
           \/ k \notin DOMAIN p.entry /\ Len(p.order) = MaxSize /\ g = Victim(p)
  <2>0. MaxSize \in Nat \ {0}
    BY CacheConstants
  <2>1. CASE k \in DOMAIN p.entry
    <3>1. room = Without(p, {k})
      BY <2>1
    <3>. HIDE DEF room
    <3>2. /\ GoodMap(room) /\ DOMAIN room.entry = DOMAIN p.entry \ {k}
          /\ Len(room.order) < Len(p.order) /\ Len(room.order) \in Nat
          /\ \A j \in DOMAIN room.entry : room.entry[j] = p.entry[j]
          /\ \A x, y : Precedes(room.order, x, y) => Precedes(p.order, x, y)
      <4>1. Reduced(room, p, {k})
        BY <1>1, <3>1, WithoutGood
      <4>2. QED
        BY <2>1, <4>1 DEF Reduced
    <3>3. QED
      BY <1>1, <2>0, <3>2
  <2>2. CASE k \notin DOMAIN p.entry /\ IsFull(p)
    <3>1. room = Without(p, {Victim(p)})
      BY <2>2
    <3>2. Len(p.order) = MaxSize /\ Len(p.order) > 0
      BY <1>1, <2>0, <2>2 DEF IsFull
    <3>3. Victim(p) \in DOMAIN p.entry
      BY <1>1, <3>2, VictimChosen DEF CacheIInv
    <3>. HIDE DEF room
    <3>4. /\ GoodMap(room) /\ DOMAIN room.entry = DOMAIN p.entry \ {Victim(p)}
          /\ Len(room.order) < Len(p.order) /\ Len(room.order) \in Nat
          /\ \A j \in DOMAIN room.entry : room.entry[j] = p.entry[j]
          /\ \A x, y : Precedes(room.order, x, y) => Precedes(p.order, x, y)
      <4>1. Reduced(room, p, {Victim(p)})
        BY <1>1, <3>1, WithoutGood
      <4>2. QED
        BY <3>3, <4>1 DEF Reduced
    <3>5. QED
      BY <1>1, <2>0, <2>2, <3>2, <3>4
  <2>3. CASE k \notin DOMAIN p.entry /\ ~IsFull(p)
    <3>1. room = p
      BY <2>3
    <3>. HIDE DEF room
    <3>2. QED
      BY <1>1, <2>0, <2>3, <3>1 DEF IsFull
  <2>4. QED
    BY <2>1, <2>2, <2>3
<1>. HIDE DEF room
<1>5. /\ GoodMap(s) /\ DOMAIN s.entry = DOMAIN room.entry \cup {k}
      /\ s.entry[k] = e /\ \A j \in DOMAIN room.entry : s.entry[j] = room.entry[j]
      /\ Len(s.order) = Len(room.order) + 1
      /\ \A x, y : Precedes(s.order, x, y) <=>
                     Precedes(room.order, x, y) \/ (x \in DOMAIN room.entry /\ y = k)
  <2>1. Extended(s, room, k, e)
    BY <1>2, <1>3, <1>4, InsertedGood
  <2>2. QED
    BY <2>1 DEF Extended
<1>6. ASSUME NEW x, NEW y, Precedes(s.order, x, y)
      PROVE  x # k /\ (y = k \/ Precedes(store.order, x, y))
  <2>1. CASE Precedes(room.order, x, y)
    BY <1>1, <1>4, <2>1, PrecedesIn
  <2>2. CASE x \in DOMAIN room.entry /\ y = k
    BY <1>4, <2>2
  <2>3. QED
    BY <1>5, <1>6, <2>1, <2>2
<1>7. ASSUME NEW g \in DOMAIN store.entry \ DOMAIN s.entry
      PROVE  \/ policy = "TTL" /\ Expired(store.entry[g])
             \/ /\ Len(p.order) = MaxSize /\ k \notin DOMAIN p.entry
                /\ g \in DOMAIN p.entry /\ g = Victim(p)
  BY <1>1, <1>4, <1>5, <1>7
<1>8. Len(s.order) <= MaxSize
  BY <1>4, <1>5
<1>9. DOMAIN s.entry \subseteq DOMAIN store.entry \cup {k}
  BY <1>1, <1>4, <1>5
<1>10. \A j \in DOMAIN s.entry \ {k} : s.entry[j] = store.entry[j]
  BY <1>1, <1>4, <1>5
<1>11. SetIn(s, k, e)
  BY <1>5, <1>6, <1>7, <1>8, <1>9, <1>10 DEF SetIn, p
<1>12. QED
  BY <1>3, <1>11 DEF s, e
-----------------------------------------------------------------------------
(* What the history of uses becomes.                                         *)
Recalled(used, D) == Kept(Kept(recent, Keys \ ToSet(used)) \o used, D)

LEMMA RecalledAll ==
  ASSUME recent \in Seq(Keys), NEW D, D \subseteq ToSet(recent)
  PROVE  /\ Recalled(<<>>, D) \in Seq(Keys) /\ D \subseteq ToSet(Recalled(<<>>, D))
         /\ \A x, y \in D : Precedes(recent, x, y) => Precedes(Recalled(<<>>, D), x, y)
<1>. DEFINE r == Kept(recent, Keys \ {})
<1>1. ToSet(<<>>) = {} /\ ToSet(recent) \subseteq Keys
  BY DEF ToSet
<1>2. /\ r \in Seq(Keys) /\ ToSet(r) = ToSet(recent) \cap (Keys \ {})
      /\ \A x, y : Precedes(r, x, y) <=> x \in Keys \ {} /\ y \in Keys \ {} /\ Precedes(recent, x, y)
  BY KeptProperties, KeptRange, KeptOrder
<1>. HIDE DEF r
<1>3. Recalled(<<>>, D) = Kept(r, D)
  <2>1. r \o <<>> = r
    BY <1>2, ConcatEmptySeq
  <2>2. QED
    BY <1>1, <2>1 DEF Recalled, r
<1>4. /\ Kept(r, D) \in Seq(Keys) /\ ToSet(Kept(r, D)) = ToSet(r) \cap D
      /\ \A x, y : Precedes(Kept(r, D), x, y) <=> x \in D /\ y \in D /\ Precedes(r, x, y)
  BY <1>2, KeptProperties, KeptRange, KeptOrder
<1>5. QED
  BY <1>1, <1>2, <1>3, <1>4

LEMMA RecalledUse ==
  ASSUME recent \in Seq(Keys), NEW k \in Keys, NEW D, k \in D, D \subseteq ToSet(recent) \cup {k}
  PROVE  /\ Recalled(<<k>>, D) \in Seq(Keys) /\ D \subseteq ToSet(Recalled(<<k>>, D))
         /\ \A x, y \in D : x # k /\ (y = k \/ Precedes(recent, x, y)) =>
                              Precedes(Recalled(<<k>>, D), x, y)
<1>. DEFINE r == Kept(recent, Keys \ {k})
            a == Append(r, k)
<1>1. ToSet(<<k>>) = {k} /\ ToSet(recent) \subseteq Keys
  BY DEF ToSet
<1>2. /\ r \in Seq(Keys) /\ ToSet(r) = ToSet(recent) \cap (Keys \ {k})
      /\ \A x, y : Precedes(r, x, y) <=> x \in Keys \ {k} /\ y \in Keys \ {k} /\ Precedes(recent, x, y)
  BY KeptProperties, KeptRange, KeptOrder
<1>. HIDE DEF r
<1>3. Recalled(<<k>>, D) = Kept(a, D)
  <2>1. r \o <<k>> = a
    BY <1>2
  <2>2. QED
    BY <1>1, <2>1 DEF Recalled, r
<1>4. /\ a \in Seq(Keys) /\ ToSet(a) = ToSet(r) \cup {k}
      /\ \A x, y : Precedes(a, x, y) <=> Precedes(r, x, y) \/ (x \in ToSet(r) /\ y = k)
  BY <1>2, AppendProperties, AppendRange, AppendOrder
<1>. HIDE DEF a
<1>5. /\ Kept(a, D) \in Seq(Keys) /\ ToSet(Kept(a, D)) = ToSet(a) \cap D
      /\ \A x, y : Precedes(Kept(a, D), x, y) <=> x \in D /\ y \in D /\ Precedes(a, x, y)
  BY <1>4, KeptProperties, KeptRange, KeptOrder
<1>6. D \subseteq ToSet(a)
  BY <1>1, <1>2, <1>4
<1>7. ASSUME NEW x \in D, NEW y \in D, x # k, y = k \/ Precedes(recent, x, y)
      PROVE  Precedes(a, x, y)
  <2>1. x \in ToSet(r) /\ x \in Keys \ {k}
    BY <1>1, <1>2, <1>7
  <2>2. CASE y = k
    BY <1>4, <2>1, <2>2
  <2>3. CASE y # k
    <3>1. y \in Keys \ {k}
      BY <1>1, <1>7, <2>3
    <3>2. Precedes(r, x, y)
      BY <1>2, <1>7, <2>1, <2>3, <3>1
    <3>3. QED
      BY <1>4, <3>2
  <2>4. QED
    BY <2>2, <2>3
<1>8. QED
  BY <1>3, <1>5, <1>6, <1>7

LEMMA OrderAll ==
  ASSUME CacheIInv, policy' = policy, GoodMap(store'),
         DOMAIN store'.entry \subseteq DOMAIN store.entry,
         policy # "LFU" =>
           \A x, y : Precedes(store'.order, x, y) /\ y \notin asked' =>
             Precedes(store.order, x, y) /\ y \notin asked,
         NEW count, NEW queried, Remember(<<>>, count, queried)
  PROVE  OrderKept'
<1>. DEFINE D == DOMAIN store'.entry
<1>1. CASE policy = "LFU"
  <2>1. <<>> \in Seq(Keys)
    OBVIOUS
  <2>2. QED
    BY <1>1, <2>1 DEF Remember, OrderKept
<1>2. CASE policy # "LFU"
  <2>1. /\ recent \in Seq(Keys) /\ D \subseteq ToSet(recent)
        /\ \A x, y : Precedes(store.order, x, y) /\ y \notin asked => Precedes(recent, x, y)
    BY <1>2 DEF CacheIInv, OrderKept
  <2>2. recent' = Recalled(<<>>, D)
    BY <1>2 DEF Remember, Recalled
  <2>3. \A x, y : Precedes(store'.order, x, y) => x \in D /\ y \in D
    BY PrecedesIn
  <2>. HIDE DEF D
  <2>4. /\ recent' \in Seq(Keys) /\ D \subseteq ToSet(recent')
        /\ \A x, y \in D : Precedes(recent, x, y) => Precedes(recent', x, y)
    BY <2>1, <2>2, RecalledAll
  <2>5. \A x, y : Precedes(store'.order, x, y) /\ y \notin asked' => Precedes(recent', x, y)
    BY <1>2, <2>1, <2>3, <2>4
  <2>6. QED
    BY <2>4, <2>5 DEF OrderKept, D
<1>3. QED
  BY <1>1, <1>2

LEMMA OrderUsed ==
  ASSUME CacheIInv, policy' = policy, GoodMap(store'), NEW k \in Keys,
         k \in DOMAIN store'.entry, DOMAIN store'.entry \subseteq DOMAIN store.entry \cup {k},
         policy # "LFU" =>
           \A x, y : Precedes(store'.order, x, y) /\ y \notin asked' =>
             x # k /\ (y = k \/ (Precedes(store.order, x, y) /\ y \notin asked)),
         NEW count, NEW queried, Remember(<<k>>, count, queried)
  PROVE  OrderKept'
<1>. DEFINE D == DOMAIN store'.entry
<1>1. CASE policy = "LFU"
  <2>1. <<>> \in Seq(Keys)
    OBVIOUS
  <2>2. QED
    BY <1>1, <2>1 DEF Remember, OrderKept
<1>2. CASE policy # "LFU"
  <2>1. /\ recent \in Seq(Keys) /\ D \subseteq ToSet(recent) \cup {k} /\ k \in D
        /\ \A x, y : Precedes(store.order, x, y) /\ y \notin asked => Precedes(recent, x, y)
    BY <1>2 DEF CacheIInv, OrderKept
  <2>2. recent' = Recalled(<<k>>, D)
    BY <1>2 DEF Remember, Recalled
  <2>3. \A x, y : Precedes(store'.order, x, y) => x \in D /\ y \in D
    BY PrecedesIn
  <2>. HIDE DEF D
  <2>4. /\ recent' \in Seq(Keys) /\ D \subseteq ToSet(recent')
        /\ \A x, y \in D : x # k /\ (y = k \/ Precedes(recent, x, y)) =>
                             Precedes(recent', x, y)
    BY <2>1, <2>2, RecalledUse
  <2>5. \A x, y : Precedes(store'.order, x, y) /\ y \notin asked' => Precedes(recent', x, y)
    BY <1>2, <2>1, <2>3, <2>4
  <2>6. QED
    BY <2>4, <2>5 DEF OrderKept, D
<1>3. QED
  BY <1>1, <1>2

(* The entries that are counted keep their counts.                           *)
LEMMA HitsRemembered ==
  ASSUME policy' = policy, GoodMap(store'), NEW used, NEW count \in [Keys -> 0 .. MaxHits],
         NEW queried, Remember(used, count, queried),
         policy = "LFU" => \A k \in DOMAIN store'.entry :
                             /\ count[k] + 1 <= store'.entry[k].frequency
                             /\ k \notin queried => store'.entry[k].frequency = count[k] + 1
  PROVE  HitsKept'
<1>1. /\ hits' = [k \in Keys |-> IF k \in DOMAIN store'.entry THEN count[k] ELSE 0]
      /\ asked' = queried \cap DOMAIN store'.entry
  BY DEF Remember
<1>2. DOMAIN store'.entry \subseteq Keys
  BY DEF GoodMap, ToSet
<1>3. hits' \in [Keys -> 0 .. MaxHits]
  BY <1>1, CacheConstants
<1>4. QED
  BY <1>1, <1>2, <1>3 DEF HitsKept

LEMMA PutGood ==
  ASSUME CacheIInv, NEW k \in Keys, NEW age \in 0 .. ComputeTime, NEW ttl \in Ttls,
         Put(k, age, ttl), policy' = policy,
         computing' \in [Callers -> {Idle} \cup [key : Keys, age : 0 .. ComputeTime]]
  PROVE  CacheIInv' /\ SetIn(store', k, NewEntry(age, ttl))
<1>. DEFINE e == NewEntry(age, ttl)
            count == [hits EXCEPT ![k] = 0]
<1>1. /\ store' = AfterSet(k, age, ttl) /\ operation' = "set" /\ served' = Nothing
      /\ Remember(<<k>>, count, asked \ {k})
  BY DEF Put
<1>2. e \in Entries /\ FreshEntry(e) /\ SetIn(store', k, e) /\ e.frequency = 1
  BY <1>1, AfterSetGood DEF NewEntry
<1>3. /\ GoodMap(store') /\ Len(store'.order) <= MaxSize
      /\ k \in DOMAIN store'.entry /\ DOMAIN store'.entry \subseteq DOMAIN store.entry \cup {k}
      /\ store'.entry[k] = e
      /\ \A j \in DOMAIN store'.entry \ {k} : store'.entry[j] = store.entry[j]
      /\ \A x, y : Precedes(store'.order, x, y) =>
                     x # k /\ (y = k \/ Precedes(store.order, x, y))
  BY <1>2 DEF SetIn
<1>. HIDE DEF e
<1>4. OrderKept'
  <2>. HIDE DEF count
  <2>1. asked' = (asked \ {k}) \cap DOMAIN store'.entry
    BY <1>1 DEF Remember
  <2>2. \A x, y : Precedes(store'.order, x, y) /\ y \notin asked' =>
          x # k /\ (y = k \/ (Precedes(store.order, x, y) /\ y \notin asked))
    BY <1>3, <2>1, PrecedesIn
  <2>3. QED
    BY <1>1, <1>3, <2>2, OrderUsed
<1>5. hits \in [Keys -> 0 .. MaxHits]
  BY DEF CacheIInv, HitsKept
<1>6. /\ count \in [Keys -> 0 .. MaxHits] /\ count[k] = 0
      /\ \A j \in Keys \ {k} : count[j] = hits[j]
  BY <1>5, CacheConstants
<1>. HIDE DEF count
<1>7. policy = "LFU" =>
        \A j \in DOMAIN store'.entry :
          /\ count[j] + 1 <= store'.entry[j].frequency
          /\ j \notin asked \ {k} => store'.entry[j].frequency = count[j] + 1
  <2>1. SUFFICES ASSUME policy = "LFU", NEW j \in DOMAIN store'.entry
                 PROVE  /\ count[j] + 1 <= store'.entry[j].frequency
                        /\ j \notin asked \ {k} => store'.entry[j].frequency = count[j] + 1
    OBVIOUS
  <2>2. CASE j = k
    BY <1>2, <1>3, <1>6, <2>2
  <2>3. CASE j # k
    <3>1. j \in DOMAIN store.entry /\ store'.entry[j] = store.entry[j] /\ j \in Keys
      BY <1>3, <2>3 DEF CacheIInv, GoodMap, ToSet
    <3>2. /\ hits[j] + 1 <= store.entry[j].frequency
          /\ j \notin asked => store.entry[j].frequency = hits[j] + 1
      BY <2>1, <3>1 DEF CacheIInv, HitsKept
    <3>3. QED
      BY <1>6, <2>3, <3>1, <3>2
  <2>4. QED
    BY <2>2, <2>3
<1>8. HitsKept'
  BY <1>1, <1>3, <1>6, <1>7, HitsRemembered
<1>9. \A j \in DOMAIN store'.entry : FreshEntry(store'.entry[j])
  BY <1>2, <1>3 DEF CacheIInv
<1>10. CacheIInv'
  <2>1. AskedKept'
    BY <1>1 DEF CacheIInv, AskedKept, Remember
  <2>2. QED
    BY <1>1, <1>3, <1>4, <1>8, <1>9, <2>1 DEF CacheIInv
<1>11. QED
  BY <1>2, <1>10 DEF e

(* A reader that finds nothing, delete() and clear().                        *)
LEMMA LeaveOut ==
  ASSUME CacheIInv, NEW K, store' = Without(store, K), Remember(<<>>, hits, asked),
         policy' = policy, served' = Nothing,
         computing' \in [Callers -> {Idle} \cup [key : Keys, age : 0 .. ComputeTime]],
         operation' \in {"get", "has", "drop"}
  PROVE  CacheIInv'
<1>1. Reduced(store', store, K)
  BY WithoutGood DEF CacheIInv
<1>2. /\ GoodMap(store') /\ DOMAIN store'.entry \subseteq DOMAIN store.entry
      /\ \A k \in DOMAIN store'.entry : store'.entry[k] = store.entry[k]
      /\ Len(store'.order) \in Nat /\ Len(store'.order) <= Len(store.order)
      /\ \A x, y : Precedes(store'.order, x, y) => Precedes(store.order, x, y)
  BY <1>1 DEF Reduced
<1>3. Len(store'.order) <= MaxSize
  BY <1>2, CacheConstants DEF CacheIInv, GoodMap
<1>4. OrderKept' /\ AskedKept'
  <2>1. asked' = asked \cap DOMAIN store'.entry
    BY DEF Remember
  <2>2. \A x, y : Precedes(store'.order, x, y) /\ y \notin asked' =>
          Precedes(store.order, x, y) /\ y \notin asked
    BY <1>2, <2>1, PrecedesIn
  <2>3. QED
    BY <1>2, <2>1, <2>2, OrderAll DEF CacheIInv, AskedKept
<1>5. HitsKept'
  <2>1. hits \in [Keys -> 0 .. MaxHits]
    BY DEF CacheIInv, HitsKept
  <2>2. policy = "LFU" => \A k \in DOMAIN store'.entry :
          /\ hits[k] + 1 <= store'.entry[k].frequency
          /\ k \notin asked => store'.entry[k].frequency = hits[k] + 1
    BY <1>2 DEF CacheIInv, HitsKept
  <2>3. QED
    BY <1>2, <2>1, <2>2, HitsRemembered
<1>6. \A j \in DOMAIN store'.entry : FreshEntry(store'.entry[j])
  BY <1>2 DEF CacheIInv
<1>7. QED
  BY <1>2, <1>3, <1>4, <1>5, <1>6 DEF CacheIInv

(* The Map after a hit.                                                      *)
LEMMA HitGood ==
  ASSUME CacheIInv, NEW k \in Keys, Hit(k), AfterHit(k) = store',
         policy = "LFU" => store.entry[k].frequency <= MaxHits
  PROVE  /\ GoodMap(store') /\ Len(store'.order) <= MaxSize
         /\ DOMAIN store'.entry = DOMAIN store.entry /\ k \in DOMAIN store.entry
         /\ \A j \in DOMAIN store'.entry :
              /\ store'.entry[j].left = store.entry[j].left
              /\ store'.entry[j].age = store.entry[j].age
         /\ policy = "LFU" => \A j \in DOMAIN store'.entry :
              store'.entry[j].frequency =
                IF j = k THEN store.entry[j].frequency + 1 ELSE store.entry[j].frequency
         /\ policy = "LRU" => \A x, y : Precedes(store'.order, x, y) =>
              x # k /\ (y = k \/ Precedes(store.order, x, y))
         /\ policy = "TTL" => store' = store
<1>. DEFINE e == store.entry[k]
<1>1. /\ GoodMap(store) /\ Len(store.order) <= MaxSize /\ k \in DOMAIN store.entry
      /\ store.entry \in [ToSet(store.order) -> Entries]
      /\ DOMAIN store.entry = ToSet(store.order) /\ DOMAIN store = {"order", "entry"}
      /\ MaxSize \in Nat
  BY CacheConstants DEF CacheIInv, GoodMap, Hit
<1>2. e \in Entries
  BY <1>1
<1>3. CASE policy = "LRU"
  <2>. DEFINE w == Without(store, {k})
  <2>1. store' = Inserted(w, k, e)
    BY <1>3 DEF AfterHit, Touched
  <2>2. Reduced(w, store, {k})
    BY <1>1, WithoutGood
  <2>. HIDE DEF w, e
  <2>3. k \in {k}
    OBVIOUS
  <2>4. /\ GoodMap(w) /\ DOMAIN w.entry = DOMAIN store.entry \ {k}
        /\ \A j \in DOMAIN w.entry : w.entry[j] = store.entry[j]
        /\ Len(w.order) < Len(store.order) /\ Len(w.order) \in Nat
        /\ \A x, y : Precedes(w.order, x, y) => Precedes(store.order, x, y)
    BY <1>1, <2>2, <2>3 DEF Reduced
  <2>5. Extended(store', w, k, e)
    BY <1>2, <2>1, <2>4, InsertedGood
  <2>6. /\ GoodMap(store') /\ DOMAIN store'.entry = DOMAIN store.entry
        /\ store'.entry[k] = e /\ \A j \in DOMAIN w.entry : store'.entry[j] = w.entry[j]
        /\ Len(store'.order) = Len(w.order) + 1
        /\ \A x, y : Precedes(store'.order, x, y) =>
                       Precedes(w.order, x, y) \/ (x \in DOMAIN w.entry /\ y = k)
    BY <1>1, <2>4, <2>5 DEF Extended
  <2>7. \A j \in DOMAIN store'.entry : store'.entry[j] = store.entry[j]
    BY <2>4, <2>6 DEF e
  <2>8. Len(store'.order) <= MaxSize
    <3>1. Len(store.order) \in Nat
      BY <1>1 DEF GoodMap
    <3>2. QED
      BY <1>1, <2>4, <2>6, <3>1
  <2>9. ASSUME NEW x, NEW y, Precedes(store'.order, x, y)
        PROVE  x # k /\ (y = k \/ Precedes(store.order, x, y))
    <3>1. CASE Precedes(w.order, x, y)
      <4>1. x \in DOMAIN w.entry
        BY <2>4, <3>1, PrecedesIn
      <4>2. QED
        BY <2>4, <3>1, <4>1
    <3>2. CASE x \in DOMAIN w.entry /\ y = k
      BY <2>4, <3>2
    <3>3. QED
      BY <2>6, <2>9, <3>1, <3>2
  <2>10. QED
    BY <1>1, <1>3, <2>6, <2>7, <2>8, <2>9
<1>4. CASE policy = "LFU"
  <2>1. store' = [store EXCEPT !.entry[k].frequency = e.frequency + 1]
    BY <1>4 DEF AfterHit
  <2>2. /\ DOMAIN store' = {"order", "entry"} /\ store'.order = store.order
        /\ store'.entry = [store.entry EXCEPT ![k].frequency = e.frequency + 1]
    BY <1>1, <2>1
  <2>3. store'.entry = [store.entry EXCEPT ![k] = [e EXCEPT !.frequency = e.frequency + 1]]
    BY <1>1, <2>2
  <2>4. e.frequency + 1 \in 1 .. MaxHits + 1
    BY <1>2, <1>4, EntryTypes, CacheConstants
  <2>5. /\ [e EXCEPT !.frequency = e.frequency + 1] \in Entries
        /\ [e EXCEPT !.frequency = e.frequency + 1].left = e.left
        /\ [e EXCEPT !.frequency = e.frequency + 1].age = e.age
        /\ [e EXCEPT !.frequency = e.frequency + 1].frequency = e.frequency + 1
    BY <1>2, <2>4 DEF Entries
  <2>6. store'.entry \in [ToSet(store'.order) -> Entries]
    BY <1>1, <2>2, <2>3, <2>5
  <2>7. GoodMap(store')
    BY <1>1, <2>2, <2>6 DEF GoodMap
  <2>8. \A j \in DOMAIN store'.entry :
          /\ store'.entry[j].left = store.entry[j].left
          /\ store'.entry[j].age = store.entry[j].age
          /\ store'.entry[j].frequency =
               IF j = k THEN store.entry[j].frequency + 1 ELSE store.entry[j].frequency
    BY <1>1, <2>3, <2>5
  <2>9. QED
    BY <1>1, <1>4, <2>2, <2>6, <2>7, <2>8
<1>5. CASE policy \notin {"LRU", "LFU"}
  <2>1. store' = store
    BY <1>5 DEF AfterHit
  <2>2. QED
    BY <1>1, <1>5, <2>1
<1>6. QED
  BY <1>3, <1>4, <1>5

LEMMA FindGood ==
  ASSUME CacheIInv, NEW k \in Keys, Find(k), Used(k) \/ AskedFor(k), policy' = policy,
         operation' \in {"get", "has"}
  PROVE  CacheIInv'
<1>. DEFINE e == store.entry[k]
<1>1. /\ Hit(k) /\ store' = AfterHit(k) /\ computing' = computing
      /\ policy = "LFU" => e.frequency <= MaxHits
      /\ served' = IF e.left = Forever THEN Nothing ELSE e.age
  BY DEF Find
<1>2. /\ GoodMap(store') /\ Len(store'.order) <= MaxSize
      /\ DOMAIN store'.entry = DOMAIN store.entry /\ k \in DOMAIN store.entry
      /\ \A j \in DOMAIN store'.entry :
           /\ store'.entry[j].left = store.entry[j].left
           /\ store'.entry[j].age = store.entry[j].age
      /\ policy = "LFU" => \A j \in DOMAIN store'.entry :
           store'.entry[j].frequency =
             IF j = k THEN store.entry[j].frequency + 1 ELSE store.entry[j].frequency
      /\ policy = "LRU" => \A x, y : Precedes(store'.order, x, y) =>
           x # k /\ (y = k \/ Precedes(store.order, x, y))
      /\ policy = "TTL" => store' = store
  BY <1>1, HitGood
<1>3. e \in Entries /\ FreshEntry(e) /\ e.left # 0
  BY <1>1, <1>2 DEF CacheIInv, GoodMap, Hit, Expired
<1>4. served' \in {Nothing} \cup 0 .. ComputeTime + Longest
  <2>1. CASE e.left = Forever
    BY <1>1, <2>1
  <2>2. CASE e.left # Forever
    <3>1. e.age \in Nat /\ e.left \in Nat /\ e.age + e.left <= ComputeTime + Longest + 1
      BY <1>3, <2>2, EntryTypes DEF FreshEntry
    <3>2. QED
      BY <1>1, <1>3, <2>2, <3>1, CacheConstants
  <2>3. QED
    BY <2>1, <2>2
<1>. HIDE DEF e
<1>5. \A j \in DOMAIN store'.entry : FreshEntry(store'.entry[j])
  BY <1>2 DEF CacheIInv, FreshEntry
<1>6. CASE Used(k)
  <2>. DEFINE count == IF policy = "LFU" THEN [hits EXCEPT ![k] = hits[k] + 1] ELSE hits
              queried == IF policy = "LRU" THEN asked \ {k} ELSE asked
  <2>1. Remember(IF policy = "LRU" THEN <<k>> ELSE <<>>, count, queried)
    BY <1>6 DEF Used
  <2>2. asked' = queried \cap DOMAIN store'.entry
    BY <2>1 DEF Remember
  <2>3. AskedKept'
    BY <2>2 DEF CacheIInv, AskedKept
  <2>4. OrderKept'
    <3>. HIDE DEF count
    <3>1. CASE policy = "LRU"
      <4>1. DOMAIN store'.entry \subseteq DOMAIN store.entry \cup {k} /\ k \in DOMAIN store'.entry
        BY <1>2
      <4>2. Remember(<<k>>, count, queried)
        BY <2>1, <3>1
      <4>3. \A x, y : Precedes(store'.order, x, y) /\ y \notin asked' =>
              x # k /\ (y = k \/ (Precedes(store.order, x, y) /\ y \notin asked))
        BY <1>2, <2>2, <3>1, PrecedesIn
      <4>. HIDE DEF queried
      <4>4. QED
        BY <1>2, <3>1, <4>1, <4>2, <4>3, OrderUsed
    <3>2. CASE policy # "LRU"
      <4>1. Remember(<<>>, count, queried) /\ DOMAIN store'.entry \subseteq DOMAIN store.entry
        BY <1>2, <2>1, <3>2
      <4>2. policy # "LFU" =>
              \A x, y : Precedes(store'.order, x, y) /\ y \notin asked' =>
                Precedes(store.order, x, y) /\ y \notin asked
        BY <1>2, <2>2, <3>2, PrecedesIn DEF CacheIInv, Policies
      <4>. HIDE DEF queried
      <4>3. QED
        BY <1>2, <4>1, <4>2, OrderAll
    <3>3. QED
      BY <3>1, <3>2
  <2>5. HitsKept'
    <3>1. hits \in [Keys -> 0 .. MaxHits]
      BY DEF CacheIInv, HitsKept
    <3>2. CASE policy = "LFU"
      <4>1. hits[k] + 1 \in 0 .. MaxHits
        <5>1. hits[k] + 1 <= e.frequency /\ hits[k] \in Nat /\ e.frequency <= MaxHits
          BY <1>1, <1>2, <3>1, <3>2 DEF CacheIInv, HitsKept, e
        <5>2. e.frequency \in Nat
          BY <1>3, EntryTypes
        <5>3. QED
          BY <5>1, <5>2, CacheConstants
      <4>2. /\ count \in [Keys -> 0 .. MaxHits] /\ count[k] = hits[k] + 1
            /\ \A j \in Keys \ {k} : count[j] = hits[j]
        BY <3>1, <3>2, <4>1
      <4>3. queried = asked
        BY <3>2
      <4>. HIDE DEF count, queried
      <4>4. ASSUME NEW j \in DOMAIN store'.entry
            PROVE  /\ count[j] + 1 <= store'.entry[j].frequency
                   /\ j \notin queried => store'.entry[j].frequency = count[j] + 1
        <5>1. /\ j \in Keys /\ hits[j] + 1 <= store.entry[j].frequency
              /\ j \notin asked => store.entry[j].frequency = hits[j] + 1
              /\ store.entry[j] \in Entries
          BY <1>2, <3>2 DEF CacheIInv, GoodMap, ToSet, HitsKept
        <5>2. hits[j] \in Nat /\ store.entry[j].frequency \in Nat
          BY <3>1, <5>1, EntryTypes
        <5>3. QED
          BY <1>2, <3>2, <4>2, <4>3, <5>1, <5>2
      <4>5. QED
        BY <1>2, <2>1, <4>2, <4>4, HitsRemembered
    <3>3. CASE policy # "LFU"
      <4>1. count = hits
        BY <3>3
      <4>. HIDE DEF count, queried
      <4>2. QED
        BY <1>2, <2>1, <3>1, <3>3, <4>1, HitsRemembered
    <3>4. QED
      BY <3>2, <3>3
  <2>6. QED
    BY <1>6, <2>3, <2>4, <2>5, <1>1, <1>2, <1>4, <1>5 DEF CacheIInv
<1>7. CASE AskedFor(k)
  <2>. DEFINE queried == IF policy = "TTL" THEN asked ELSE asked \cup {k}
  <2>1. Remember(<<>>, hits, queried)
    BY <1>7 DEF AskedFor
  <2>2. asked' = queried \cap DOMAIN store'.entry
    BY <2>1 DEF Remember
  <2>3. AskedKept'
    BY <2>2 DEF CacheIInv, AskedKept
  <2>4. OrderKept'
    <3>1. DOMAIN store'.entry \subseteq DOMAIN store.entry
      BY <1>2
    <3>2. policy # "LFU" =>
            \A x, y : Precedes(store'.order, x, y) /\ y \notin asked' =>
              Precedes(store.order, x, y) /\ y \notin asked
      BY <1>2, <2>2, PrecedesIn DEF CacheIInv, Policies
    <3>. HIDE DEF queried
    <3>3. QED
      BY <1>2, <2>1, <3>1, <3>2, OrderAll
  <2>5. HitsKept'
    <3>1. hits \in [Keys -> 0 .. MaxHits]
      BY DEF CacheIInv, HitsKept
    <3>2. ASSUME policy = "LFU", NEW j \in DOMAIN store'.entry
          PROVE  /\ hits[j] + 1 <= store'.entry[j].frequency
                 /\ j \notin queried => store'.entry[j].frequency = hits[j] + 1
      <4>1. /\ j \in Keys /\ hits[j] + 1 <= store.entry[j].frequency
            /\ j \notin asked => store.entry[j].frequency = hits[j] + 1
            /\ store.entry[j] \in Entries
        BY <1>2, <3>2 DEF CacheIInv, GoodMap, ToSet, HitsKept
      <4>2. hits[j] \in Nat /\ store.entry[j].frequency \in Nat
        BY <3>1, <4>1, EntryTypes
      <4>3. QED
        BY <1>2, <3>2, <4>1, <4>2
    <3>. HIDE DEF queried
    <3>3. QED
      BY <1>2, <2>1, <3>1, <3>2, HitsRemembered
  <2>6. QED
    BY <2>3, <2>4, <2>5, <1>1, <1>2, <1>4, <1>5 DEF CacheIInv
<1>8. QED
  BY <1>6, <1>7

LEMMA TickGood ==
  ASSUME CacheIInv, Tick, policy' = policy
  PROVE  CacheIInv'
<1>1. /\ GoodMap(store) /\ DOMAIN store = {"order", "entry"}
      /\ store.entry \in [ToSet(store.order) -> Entries]
  BY DEF CacheIInv, GoodMap
<1>2. /\ DOMAIN store' = {"order", "entry"} /\ store'.order = store.order
      /\ store'.entry = [k \in DOMAIN store.entry |-> Older(store.entry[k])]
      /\ operation' = "tick" /\ served' = Nothing /\ UNCHANGED <<recent, hits, asked>>
  <2>1. store' = [store EXCEPT !.entry = [k \in DOMAIN store.entry |-> Older(store.entry[k])]]
    BY DEF Tick
  <2>2. QED
    BY <1>1, <2>1 DEF Tick
<1>3. ASSUME NEW e \in Entries
      PROVE  /\ Older(e) \in Entries /\ Older(e).frequency = e.frequency
             /\ FreshEntry(e) => FreshEntry(Older(e))
  <2>. DEFINE left == IF e.left \in {Forever, 0} THEN e.left ELSE e.left - 1
              age == IF e.age = Oldest THEN e.age ELSE e.age + 1
  <2>1. Older(e) = [e EXCEPT !.left = left, !.age = age]
    BY DEF Older
  <2>2. left \in {Forever} \cup 0 .. Longest + 1 /\ age \in 0 .. Oldest
    BY <1>3, EntryTypes, CacheConstants
  <2>3. FreshEntry(e) /\ left \notin {Forever, 0} => age + left <= ComputeTime + Longest + 1
    <3>1. SUFFICES ASSUME FreshEntry(e), left \notin {Forever, 0}
                   PROVE  age + left <= ComputeTime + Longest + 1
      OBVIOUS
    <3>2. e.left \notin {Forever, 0} /\ left = e.left - 1 /\ e.left \in Nat /\ e.age \in Nat
      BY <1>3, <3>1, EntryTypes, CacheConstants
    <3>3. e.age + e.left <= ComputeTime + Longest + 1 /\ age <= e.age + 1 /\ age \in Nat
      BY <3>1, <3>2, CacheConstants DEF FreshEntry
    <3>4. QED
      BY <3>2, <3>3, CacheConstants
  <2>. HIDE DEF left, age
  <2>4. Older(e) \in Entries
    BY <1>3, <2>1, <2>2 DEF Entries
  <2>5. /\ Older(e).left = left /\ Older(e).age = age /\ Older(e).frequency = e.frequency
    BY <1>3, <2>1 DEF Entries
  <2>6. QED
    BY <2>3, <2>4, <2>5 DEF FreshEntry
<1>4. store'.entry \in [ToSet(store'.order) -> Entries]
  BY <1>1, <1>2, <1>3
<1>5. GoodMap(store')
  BY <1>1, <1>2, <1>4 DEF GoodMap
<1>6. /\ DOMAIN store'.entry = DOMAIN store.entry
      /\ \A k \in DOMAIN store.entry : /\ store'.entry[k].frequency = store.entry[k].frequency
                                      /\ FreshEntry(store'.entry[k])
  BY <1>1, <1>2, <1>3 DEF CacheIInv
<1>7. computing' \in [Callers -> {Idle} \cup [key : Keys, age : 0 .. ComputeTime]]
  <2>1. ASSUME NEW c \in Callers, computing[c] # Idle
        PROVE  [computing[c] EXCEPT !.age = @ + 1] \in [key : Keys, age : 0 .. ComputeTime]
    <3>1. computing[c] \in [key : Keys, age : 0 .. ComputeTime]
      BY <2>1 DEF CacheIInv
    <3>2. computing[c].age \in 0 .. ComputeTime /\ computing[c].age < ComputeTime
      BY <2>1, <3>1 DEF Tick
    <3>. DEFINE older == computing[c].age + 1
    <3>3. older \in 0 .. ComputeTime
      BY <3>2, CacheConstants
    <3>4. [computing[c] EXCEPT !.age = @ + 1] = [computing[c] EXCEPT !.age = older]
      OBVIOUS
    <3>. HIDE DEF older
    <3>5. QED
      BY <3>1, <3>3, <3>4
  <2>2. computing' = [c \in Callers |-> IF computing[c] = Idle THEN Idle
                                        ELSE [computing[c] EXCEPT !.age = @ + 1]]
    BY DEF Tick
  <2>3. QED
    BY <2>1, <2>2
<1>8. OrderKept' /\ HitsKept' /\ AskedKept'
  BY <1>2, <1>6 DEF CacheIInv, OrderKept, HitsKept, AskedKept
<1>9. QED
  BY <1>2, <1>5, <1>6, <1>7, <1>8 DEF CacheIInv

Callings == [Callers -> {Idle} \cup [key : Keys, age : 0 .. ComputeTime]]

LEMMA CallingGood ==
  ASSUME CacheIInv, NEW c \in Callers
  PROVE  /\ computing \in Callings /\ [computing EXCEPT ![c] = Idle] \in Callings
         /\ \A k \in Keys : [computing EXCEPT ![c] = [key |-> k, age |-> 0]] \in Callings
         /\ computing[c] # Idle =>
              computing[c].key \in Keys /\ computing[c].age \in 0 .. ComputeTime
<1>1. computing \in Callings
  BY DEF CacheIInv, Callings
<1>2. \A k \in Keys : [key |-> k, age |-> 0] \in [key : Keys, age : 0 .. ComputeTime]
  BY CacheConstants
<1>3. QED
  BY <1>1, <1>2 DEF Callings

LEMMA LookGood ==
  ASSUME CacheIInv, NEW k \in Keys, Get(k) \/ Has(k), policy' = policy
  PROVE  CacheIInv'
<1>1. CASE Find(k) /\ (Used(k) \/ AskedFor(k))
  <2>1. operation' \in {"get", "has"}
    BY DEF Get, Has
  <2>2. QED
    BY <1>1, <2>1, FindGood
<1>2. CASE Miss(k) /\ UNCHANGED computing
  <2>1. computing' \in Callings /\ operation' \in {"get", "has", "drop"}
    BY <1>2 DEF CacheIInv, Callings, Get, Has
  <2>2. QED
    BY <1>2, <2>1, LeaveOut DEF Miss, Callings
<1>3. QED
  BY <1>1, <1>2 DEF Get, Has

LEMMA NextCache == CacheIInv /\ [Next]_vars => CacheIInv'
<1>. SUFFICES ASSUME CacheIInv, [Next]_vars PROVE CacheIInv'
  OBVIOUS
<1>1. CASE UNCHANGED vars
  BY <1>1 DEF CacheIInv, OrderKept, HitsKept, AskedKept, vars, history
<1>2. CASE Next
  <2>0. policy' = policy
    BY <1>2 DEF Next
  <2>1. ASSUME NEW k \in Keys, Get(k) \/ Has(k)
        PROVE  CacheIInv'
    BY <2>0, <2>1, LookGood
  <2>2. ASSUME NEW K, Drop(K)
        PROVE  CacheIInv'
    <3>1. computing' \in Callings /\ operation' \in {"get", "has", "drop"}
      BY <2>2 DEF CacheIInv, Callings, Drop
    <3>2. QED
      BY <2>0, <2>2, <3>1, LeaveOut DEF Drop, Callings
  <2>3. ASSUME NEW k \in Keys, NEW ttl \in Ttls, Set(k, ttl)
        PROVE  CacheIInv'
    <3>1. computing' \in Callings /\ 0 \in 0 .. ComputeTime
      BY <2>3, CacheConstants DEF CacheIInv, Callings, Set
    <3>2. QED
      BY <2>0, <2>3, <3>1, PutGood DEF Set, Callings
  <2>4. ASSUME NEW c \in Callers, NEW k \in Keys, GetOrSet(c, k)
        PROVE  CacheIInv'
    <3>1. computing' \in Callings /\ operation' \in {"get", "has", "drop"}
      BY <2>4, CallingGood DEF GetOrSet
    <3>2. QED
      BY <2>0, <2>4, <3>1, LeaveOut DEF GetOrSet, Miss, Callings
  <2>5. ASSUME NEW c \in Callers, NEW ttl \in Ttls, Computed(c, ttl)
        PROVE  CacheIInv'
    <3>1. /\ computing' \in Callings
          /\ computing[c].key \in Keys /\ computing[c].age \in 0 .. ComputeTime
      BY <2>5, CallingGood DEF Computed
    <3>2. QED
      BY <2>0, <2>5, <3>1, PutGood DEF Computed, Callings
  <2>6. ASSUME NEW c \in Callers, FactoryThrows(c)
        PROVE  CacheIInv'
    <3>1. computing' \in Callings
      BY <2>6, CallingGood DEF FactoryThrows
    <3>2. QED
      BY <2>0, <2>6, <3>1 DEF FactoryThrows, Callings, CacheIInv, OrderKept,
         HitsKept, AskedKept
  <2>7. CASE Tick
    BY <2>0, <2>7, TickGood
  <2>8. QED
    BY <1>2, <2>1, <2>2, <2>3, <2>4, <2>5, <2>6, <2>7 DEF Next, Step
<1>3. QED
  BY <1>1, <1>2

LEMMA AlwaysCacheIInv == Spec => []CacheIInv
<1>1. QED
  BY InitCache, NextCache, PTL DEF Spec

(* No read returns a value staler than the longest ttl and one run of a      *)
(* factory, and the Map stays within maxSize (getOrSet, set, evict).         *)
THEOREM FreshReads == Spec => []FreshEnough
<1>1. QED
  BY AlwaysCacheIInv, CacheIInvImplies, PTL
-----------------------------------------------------------------------------
EvictionIsRight ==
  \A k \in Gone, j \in Stays \ asked : Rightly(k, j)

LEMMA SetEvictsRight ==
  ASSUME CacheIInv, NEW n \in Keys, NEW age \in 0 .. ComputeTime, NEW ttl \in Ttls,
         SetIn(store', n, NewEntry(age, ttl))
  PROVE  EvictionIsRight
<1>. DEFINE p == Purged(store)
<1>1. SUFFICES ASSUME NEW k \in Gone, NEW j \in Stays \ asked,
                      ~(policy = "TTL" /\ Expired(store.entry[k]))
               PROVE  CASE policy = "LRU" -> Before(k, j)
                        [] policy = "LFU" -> hits[k] <= hits[j]
                        [] OTHER -> Before(k, j) /\ Cardinality(Live) = MaxSize
  BY DEF EvictionIsRight, Rightly, CacheIInv, Policies
<1>2. /\ Len(p.order) = MaxSize /\ n \notin DOMAIN p.entry
      /\ k \in DOMAIN p.entry /\ k = Victim(p)
  BY <1>1 DEF SetIn, Gone
<1>3. /\ GoodMap(p) /\ Len(p.order) \in Nat /\ Len(p.order) <= Len(store.order)
      /\ DOMAIN p.entry = IF policy = "TTL" THEN Live ELSE DOMAIN store.entry
      /\ \A i \in DOMAIN p.entry : p.entry[i] = store.entry[i]
      /\ \A x, y : Precedes(p.order, x, y) => Precedes(store.order, x, y)
      /\ \A x \in DOMAIN store.entry \ DOMAIN p.entry : Len(p.order) < Len(store.order)
  BY PurgedGood
<1>. HIDE DEF p
<1>4. /\ policy \in Policies /\ Len(store.order) <= MaxSize /\ Len(store.order) \in Nat
      /\ MaxSize \in Nat \ {0}
  BY CacheConstants DEF CacheIInv, GoodMap
<1>5. j \in DOMAIN p.entry /\ j # k
  BY <1>1, <1>2, <1>3, <1>4 DEF Gone, Stays
<1>6. /\ policy # "LFU" => Precedes(p.order, k, j)
      /\ policy = "LFU" => p.entry[k].frequency <= p.entry[j].frequency
  BY <1>2, <1>3, <1>4, <1>5, VictimChosen
<1>7. policy # "LFU" => Before(k, j)
  <2>1. policy # "LFU" => Precedes(recent, k, j)
    BY <1>1, <1>3, <1>6 DEF CacheIInv, OrderKept
  <2>2. QED
    BY <2>1 DEF Precedes, Before
<1>8. policy = "LFU" => hits[k] <= hits[j]
  <2>1. SUFFICES ASSUME policy = "LFU" PROVE hits[k] <= hits[j]
    OBVIOUS
  <2>2. /\ hits[k] + 1 <= store.entry[k].frequency /\ store.entry[j].frequency = hits[j] + 1
        /\ store.entry[k].frequency <= store.entry[j].frequency /\ k \in Keys /\ j \in Keys
        /\ store.entry[k] \in Entries
    <3>1. k \in DOMAIN store.entry /\ j \in DOMAIN store.entry /\ j \notin asked
      BY <1>1 DEF Gone, Stays
    <3>2. /\ hits[k] + 1 <= store.entry[k].frequency
          /\ store.entry[j].frequency = hits[j] + 1
      BY <2>1, <3>1 DEF CacheIInv, HitsKept
    <3>3. store.entry[k].frequency <= store.entry[j].frequency
      BY <1>2, <1>3, <1>5, <1>6, <2>1
    <3>4. k \in Keys /\ j \in Keys /\ store.entry[k] \in Entries
      BY <3>1 DEF CacheIInv, GoodMap, ToSet
    <3>5. QED
      BY <3>2, <3>3, <3>4
  <2>3. hits[k] \in Nat /\ hits[j] \in Nat /\ store.entry[k].frequency \in Nat
    BY <2>2, EntryTypes DEF CacheIInv, HitsKept
  <2>4. QED
    BY <2>2, <2>3
<1>9. policy = "TTL" => Cardinality(Live) = MaxSize
  <2>1. p.order \in Seq(Keys) /\ IsInjective(p.order) /\ DOMAIN p.entry = ToSet(p.order)
    BY <1>3 DEF GoodMap
  <2>2. Cardinality(ToSet(p.order)) = MaxSize
    BY <1>2, <2>1, InjectiveLength
  <2>3. QED
    BY <1>3, <2>1, <2>2
<1>10. QED
  BY <1>4, <1>7, <1>8, <1>9 DEF Policies

LEMMA StepEvictsRight ==
  ASSUME CacheIInv, Next, operation' = "set"
  PROVE  EvictionIsRight
<1>1. policy' = policy /\ Step
  BY DEF Next
<1>2. ASSUME NEW k \in Keys, NEW age \in 0 .. ComputeTime, NEW ttl \in Ttls,
             Put(k, age, ttl), computing' \in Callings
      PROVE  EvictionIsRight
  BY <1>1, <1>2, PutGood, SetEvictsRight DEF Callings
<1>3. CASE \E k \in Keys, ttl \in Ttls : Set(k, ttl)
  <2>1. PICK k \in Keys, ttl \in Ttls : Set(k, ttl)
    BY <1>3
  <2>2. computing' \in Callings /\ 0 \in 0 .. ComputeTime
    BY <2>1, CacheConstants DEF CacheIInv, Callings, Set
  <2>3. QED
    BY <1>2, <2>1, <2>2 DEF Set
<1>4. CASE \E c \in Callers, ttl \in Ttls : Computed(c, ttl)
  <2>1. PICK c \in Callers, ttl \in Ttls : Computed(c, ttl)
    BY <1>4
  <2>2. /\ computing' \in Callings
        /\ computing[c].key \in Keys /\ computing[c].age \in 0 .. ComputeTime
    BY <2>1, CallingGood DEF Computed
  <2>3. QED
    BY <1>2, <2>1, <2>2 DEF Computed
<1>5. QED
  BY <1>1, <1>3, <1>4 DEF Step, Get, Has, Drop, GetOrSet, FactoryThrows, Tick

(* What a set() pushes out of a full Map is what the policy says (evict,     *)
(* purgeExpired), whatever gets, sets, deletes and factories came before.    *)
THEOREM EvictionFollowsPolicy == Spec => EvictsByPolicy
<1>1. CacheIInv /\ [Next]_vars => [operation' = "set" => EvictionIsRight]_vars
  BY StepEvictsRight
<1>2. QED
  BY <1>1, AlwaysCacheIInv, PTL DEF Spec, EvictsByPolicy, EvictionIsRight

-----------------------------------------------------------------------------
(* packages/prisma: transactions that are tried again.                       *)

(* A call that sleeps has an attempt left.                                   *)
AttemptsLeft == \A c \in Calls : pc[c] = "sleeping" => attempt[c] < MaxAttempts

LEMMA InitApplied == transactions!Init => AppliedOnce /\ AttemptsLeft
BY PrismaAssumption
   DEF transactions!TransactionAssumption, transactions!Init, AppliedOnce,
       transactions!AppliedOnce, transactions!TypeOK, AttemptsLeft

LEMMA AppliedStep ==
  ASSUME "other" \notin RetryableCodes, AppliedOnce, AttemptsLeft, transactions!Next
  PROVE  AppliedOnce' /\ AttemptsLeft'
<1>. SUFFICES ASSUME NEW c \in Calls,
                     \/ transactions!Begin(c) \/ transactions!Commit(c)
                     \/ transactions!Conflict(c) \/ transactions!FnThrows(c)
                     \/ transactions!ConnectionLost(c) \/ transactions!Retry(c)
              PROVE  AppliedOnce' /\ AttemptsLeft'
  BY DEF transactions!Next
<1>. USE PrismaAssumption
     DEF transactions!TransactionAssumption, AppliedOnce, transactions!AppliedOnce,
         transactions!TypeOK, transactions!Ends, AttemptsLeft
<1>1. CASE transactions!Begin(c)
  BY <1>1 DEF transactions!Begin
<1>2. CASE transactions!Commit(c)
  BY <1>2 DEF transactions!Commit
<1>3. CASE transactions!Conflict(c) \/ transactions!FnThrows(c)
  BY <1>3 DEF transactions!Conflict, transactions!FnThrows, transactions!Catch
<1>4. CASE transactions!ConnectionLost(c)
  <2>1. /\ pc[c] = "running" /\ pc' = [pc EXCEPT ![c] = "threw"] /\ attempt' = attempt
        /\ lost' = [lost EXCEPT ![c] = TRUE]
    BY <1>4 DEF transactions!ConnectionLost, transactions!Catch,
       transactions!IsRetryable
  <2>2. /\ commits'[c] \in {commits[c], commits[c] + 1} /\ commits' \in [Calls -> Nat]
        /\ \A d \in Calls \ {c} : commits'[d] = commits[d]
    BY <1>4 DEF transactions!ConnectionLost
  <2>3. commits[c] = 0
    BY <2>1
  <2>4. /\ \A d \in Calls : pc'[d] = IF d = c THEN "threw" ELSE pc[d]
        /\ lost'[c] /\ \A d \in Calls \ {c} : lost'[d] <=> lost[d]
        /\ commits'[c] \in {0, 1}
    BY <2>1, <2>2, <2>3
  <2>5. transactions!TypeOK' /\ AttemptsLeft'
    BY <2>1, <2>2
  <2>6. AppliedOnce'
    <3>1. ASSUME NEW d \in Calls
          PROVE  /\ commits'[d] <= 1
                 /\ pc'[d] = "resolved" => commits'[d] = 1
                 /\ pc'[d] # "resolved" /\ commits'[d] = 1 => lost'[d] /\ pc'[d] = "threw"
      <4>1. CASE d = c
        BY <2>4, <4>1
      <4>2. CASE d # c
        BY <2>2, <2>4, <4>2
      <4>3. QED
        BY <4>1, <4>2
    <3>2. QED
      BY <2>5, <3>1
  <2>7. QED
    BY <2>5, <2>6
<1>5. CASE transactions!Retry(c)
  BY <1>5 DEF transactions!Retry
<1>6. QED
  BY <1>1, <1>2, <1>3, <1>4, <1>5

(* runTransaction(): fn takes effect at most once, exactly once if the call  *)
(* resolves, whatever conflicts and lost connections it meets, for any calls *)
(* and any number of attempts, provided that the codes to retry leave out    *)
(* that of a lost connection, as the default ["P2034"] does.                 *)
THEOREM AppliedAtMostOnce ==
  ASSUME "other" \notin RetryableCodes
  PROVE  MCSpec => []AppliedOnce
<1>1. MCInit => AppliedOnce /\ AttemptsLeft
  BY InitApplied DEF MCInit
<1>2. AppliedOnce /\ AttemptsLeft
        /\ [MCNext /\ UNCHANGED part]_<<part, pageVars, transactionVars>>
        => AppliedOnce' /\ AttemptsLeft'
  <2>. SUFFICES ASSUME AppliedOnce, AttemptsLeft,
                       [MCNext /\ UNCHANGED part]_<<part, pageVars, transactionVars>>
                PROVE  AppliedOnce' /\ AttemptsLeft'
    OBVIOUS
  <2>1. CASE transactions!Next
    BY <2>1, AppliedStep
  <2>2. CASE UNCHANGED transactionVars
    BY <2>2 DEF transactionVars, AppliedOnce, transactions!AppliedOnce,
                transactions!TypeOK, AttemptsLeft
  <2>3. QED
    BY <2>1, <2>2 DEF MCNext
<1>3. QED
  BY <1>1, <1>2, PTL DEF MCSpec
-----------------------------------------------------------------------------
(* The instance has operators of its own, which are the same.                *)
LEMMA PageOperators ==
  /\ \A s : pages!ToSet(s) = ToSet(s)
  /\ \A s, T : pages!Kept(s, T) = Kept(s, T)
  /\ \A S : pages!Cardinality(S) = Cardinality(S)
  /\ \A S : pages!IsFiniteSet(S) = IsFiniteSet(S)
  /\ \A s : pages!Last(s) = s[Len(s)]
<1>1. \A s : pages!ToSet(s) = ToSet(s)
  BY DEF ToSet, pages!ToSet
<1>2. \A s, T : pages!Kept(s, T) = Kept(s, T)
  BY DEF Kept, pages!Kept, FoldLeft, pages!FoldLeft, MapThenFoldSet,
     pages!MapThenFoldSet, pages!Max, Max
<1>3. \A S : pages!IsFiniteSet(S) = IsFiniteSet(S)
  BY DEF IsFiniteSet, pages!IsFiniteSet
<1>4. \A S : pages!Cardinality(S) = Cardinality(S)
  BY <1>3 DEF Cardinality, pages!Cardinality
<1>5. \A s : pages!Last(s) = s[Len(s)]
  BY DEF pages!Last
<1>6. QED
  BY <1>1, <1>2, <1>3, <1>4, <1>5

LEMMA PageAscending == \A S : pages!Ascending(S) = Ascending(S)
BY DEF Ascending, pages!Ascending, Cardinality, pages!Cardinality, IsFiniteSet,
       pages!IsFiniteSet
-----------------------------------------------------------------------------
Rising(s) == \A i, j \in DOMAIN s : i < j => s[i] < s[j]

Sight == pages!SightOf(table)
RankIn(S, r) == Cardinality({q \in S : q < r})
PageStart == (page - 1) * PageSize

LEMMA FirstOfGood ==
  ASSUME NEW S, NEW s \in Seq(S), NEW n \in Nat
  PROVE  /\ pages!FirstOf(n, s) \in Seq(S)
         /\ Len(pages!FirstOf(n, s)) = IF n < Len(s) THEN n ELSE Len(s)
         /\ \A i \in 1 .. Len(pages!FirstOf(n, s)) : pages!FirstOf(n, s)[i] = s[i]
<1>. DEFINE k == IF n < Len(s) THEN n ELSE Len(s)
<1>1. k \in 0 .. Len(s) /\ Len(s) \in Nat /\ 1 \in 1 .. Len(s) + 1 /\ k \in (1 - 1) .. Len(s)
  OBVIOUS
<1>2. pages!FirstOf(n, s) = SubSeq(s, 1, k)
  BY DEF pages!FirstOf
<1>. HIDE DEF k
<1>3. /\ SubSeq(s, 1, k) \in Seq(S) /\ Len(SubSeq(s, 1, k)) = k
      /\ \A i \in 1 .. k : SubSeq(s, 1, k)[i] = s[i]
  BY <1>1, SubSeqProperties
<1>4. QED
  BY <1>2, <1>3 DEF k

LEMMA AfterGood ==
  ASSUME NEW S, NEW s \in Seq(S), NEW n \in Nat
  PROVE  /\ pages!After(n, s) \in Seq(S)
         /\ Len(pages!After(n, s)) = IF n < Len(s) THEN Len(s) - n ELSE 0
         /\ \A i \in 1 .. Len(pages!After(n, s)) : pages!After(n, s)[i] = s[n + i]
<1>1. pages!After(n, s) = SubSeq(s, n + 1, Len(s)) /\ Len(s) \in Nat
  BY DEF pages!After
<1>2. CASE n < Len(s)
  <2>1. n + 1 \in 1 .. Len(s) + 1 /\ Len(s) \in (n + 1) - 1 .. Len(s)
    BY <1>1, <1>2
  <2>2. /\ SubSeq(s, n + 1, Len(s)) \in Seq(S)
        /\ Len(SubSeq(s, n + 1, Len(s))) = Len(s) - n
        /\ \A i \in 1 .. Len(s) - n : SubSeq(s, n + 1, Len(s))[i] = s[n + i]
    BY <1>1, <2>1, SubSeqProperties
  <2>3. QED
    BY <1>1, <1>2, <2>2
<1>3. CASE ~(n < Len(s))
  <2>1. SubSeq(s, n + 1, Len(s)) = <<>>
    BY <1>1, <1>3
  <2>2. <<>> \in Seq(S) /\ Len(<<>>) = 0
    OBVIOUS
  <2>3. QED
    BY <1>1, <1>3, <2>1, <2>2
<1>4. QED
  BY <1>2, <1>3

LEMMA PageConstants ==
  /\ Rows \in SUBSET Nat /\ 0 \notin Rows /\ IsFiniteSet(Rows)
  /\ PageSize \in Nat /\ PageSize > 0
  /\ Pending \notin Nat /\ Pending \notin Seq(Rows)
<1>1. pages!PaginationAssumption
  BY PrismaAssumption
<1>2. pages!IsFiniteSet(Rows) <=> IsFiniteSet(Rows)
  BY PageOperators
<1>3. QED
  BY <1>1, <1>2 DEF pages!PaginationAssumption

(* What a query answers, of a table where S is what it matches.              *)
Answered(M, S) ==
  /\ M \in Seq(S) /\ M \in Seq(Rows) /\ ToSet(M) = S /\ Rising(M)
  /\ Len(M) = Cardinality(S) /\ Cardinality(S) \in Nat /\ DOMAIN M = 1 .. Len(M)
  /\ \A i \in 1 .. Len(M) : RankIn(S, M[i]) = i - 1

LEMMA MatchingGood ==
  /\ Sight \in SUBSET Rows /\ IsFiniteSet(Sight)
  /\ pages!Matching = Ascending(Sight)
  /\ Answered(pages!Matching, Sight)
<1>1. Sight \in SUBSET Rows
  BY DEF Sight, pages!SightOf
<1>2. IsFiniteSet(Sight) /\ Sight \in SUBSET Int
  <2>. DEFINE X == Sight
  <2>1. X \in SUBSET Rows
    BY <1>1
  <2>. HIDE DEF X
  <2>2. IsFiniteSet(Rows) /\ Rows \in SUBSET Nat
    BY PageConstants
  <2>3. IsFiniteSet(X)
    BY <2>1, <2>2, FS_Subset
  <2>4. X \in SUBSET Int
    BY <2>1, <2>2
  <2>5. QED
    BY <2>3, <2>4 DEF X
<1>3. pages!Matching = Ascending(Sight)
  BY PageAscending DEF pages!Matching, Sight
<1>. DEFINE M == pages!Matching
<1>. HIDE DEF M
<1>4. /\ M \in Seq(Sight) /\ ToSet(M) = Sight /\ Len(M) = Cardinality(Sight)
      /\ Cardinality(Sight) \in Nat /\ DOMAIN M = 1 .. Len(M) /\ Rising(M)
      /\ \A i \in DOMAIN M : RankIn(Sight, M[i]) = i - 1
  BY <1>2, <1>3, AscendingInOrder DEF Rising, RankIn, M
<1>5. M \in Seq(Rows)
  BY <1>1, <1>4
<1>6. Answered(M, Sight)
  BY <1>4, <1>5 DEF Answered
<1>7. QED
  BY <1>1, <1>2, <1>3, <1>6 DEF M
-----------------------------------------------------------------------------
(* What a query from the cursor may answer.                                  *)
RowsFrom(rows) ==
  /\ rows \in Seq(Rows) /\ Rising(rows)
  /\ \A i \in 1 .. Len(rows) : rows[i] \in Sight /\ rows[i] > cursor
  /\ cursor \in Sight \cup {0} => \A r \in Sight : r > cursor => r \in ToSet(rows)

LEMMA FromCursorGood ==
  ASSUME cursor \in Rows \cup {0}, NEW rows \in pages!FromCursor
  PROVE  RowsFrom(rows)
<1>. DEFINE M == pages!Matching
<1>1. Answered(M, Sight) /\ Sight \in SUBSET Rows
  BY MatchingGood
<1>2. /\ M \in Seq(Rows) /\ Rising(M) /\ ToSet(M) = Sight /\ DOMAIN M = 1 .. Len(M)
      /\ Len(M) \in Nat /\ \A i \in 1 .. Len(M) : M[i] \in Sight
  BY <1>1 DEF Answered
<1>3. Rows \in SUBSET Nat /\ 0 \notin Rows /\ cursor \in Nat
  BY PageConstants
<1>. HIDE DEF M
<1>4. CASE cursor = 0
  <2>1. rows = M
    BY <1>4 DEF pages!FromCursor, M
  <2>2. \A r \in Sight : r > 0
    BY <1>1, <1>3
  <2>3. QED
    BY <1>2, <1>4, <2>1, <2>2 DEF RowsFrom
<1>5. CASE cursor # 0
  <2>. DEFINE T == {r \in Rows : r >= cursor}
              rest == Kept(M, T)
              a == pages!After(1, rest)
  <2>1. IF cursor \in Sight THEN rows = a ELSE rows \in {<<>>, a}
    BY <1>5, PageOperators DEF pages!FromCursor, M, Sight
  <2>2. /\ rest \in Seq(Rows) /\ ToSet(rest) = ToSet(M) \cap T /\ \E p : KeptFrom(M, T, p)
    <3>. HIDE DEF T
    <3>. QED
      BY <1>2, KeptProperties, KeptRange
  <2>3. /\ DOMAIN rest = 1 .. Len(rest) /\ Len(rest) \in Nat
        /\ \A i \in 1 .. Len(rest) : rest[i] \in Sight /\ rest[i] >= cursor
    <3>1. \A i \in DOMAIN rest : rest[i] \in ToSet(rest)
      BY DEF ToSet
    <3>. HIDE DEF rest
    <3>2. QED
      BY <1>2, <2>2, <3>1
  <2>4. Rising(rest)
    <3>1. PICK p : KeptFrom(M, T, p)
      BY <2>2
    <3>2. /\ p \in [1 .. Len(rest) -> 1 .. Len(M)]
          /\ \A j \in 1 .. Len(rest) : rest[j] = M[p[j]]
          /\ \A j, l \in 1 .. Len(rest) : j < l => p[j] < p[l]
      BY <3>1 DEF KeptFrom
    <3>. HIDE DEF rest, T
    <3>3. QED
      BY <1>2, <2>3, <3>2 DEF Rising
  <2>5. /\ a \in Seq(Rows) /\ Len(a) = (IF 1 < Len(rest) THEN Len(rest) - 1 ELSE 0)
        /\ \A i \in 1 .. Len(a) : a[i] = rest[1 + i]
    <3>. HIDE DEF rest
    <3>1. rest \in Seq(Rows) /\ 1 \in Nat
      BY <2>2
    <3>2. QED
      BY <3>1, AfterGood
  <2>6. \A r \in Sight : r >= cursor => r \in ToSet(rest)
    <3>. HIDE DEF rest
    <3>. QED
      BY <1>1, <1>2, <2>2
  <2>. HIDE DEF a, rest, T
  <2>7. DOMAIN a = 1 .. Len(a) /\ \A i \in 1 .. Len(a) : 1 + i \in 1 .. Len(rest)
    <3>1. DOMAIN a = 1 .. Len(a) /\ Len(a) \in Nat
      BY <2>5
    <3>2. ASSUME NEW i \in 1 .. Len(a) PROVE 1 + i \in 1 .. Len(rest)
      <4>1. i \in Int /\ 1 <= i /\ i <= Len(a)
        BY <3>1, <3>2
      <4>2. Len(rest) \in Nat
        BY <2>3
      <4>3. Len(a) = (IF 1 < Len(rest) THEN Len(rest) - 1 ELSE 0)
        BY <2>5
      <4>4. QED
        BY ONLY <4>1, <4>2, <4>3
    <3>3. QED
      BY <3>1, <3>2
  <2>8. Rising(a)
    <3>1. ASSUME NEW i \in 1 .. Len(a), NEW j \in 1 .. Len(a), i < j
          PROVE  a[i] < a[j]
      <4>1. /\ 1 + i \in DOMAIN rest /\ 1 + j \in DOMAIN rest
            /\ a[i] = rest[1 + i] /\ a[j] = rest[1 + j]
        BY <2>3, <2>5, <2>7, <3>1
      <4>2. 1 + i < 1 + j
        BY <3>1
      <4>3. QED
        BY <2>4, <4>1, <4>2 DEF Rising
    <3>2. QED
      BY <2>7, <3>1 DEF Rising
  <2>9. CASE cursor \in Sight
    <3>1. PICK k \in 1 .. Len(rest) : rest[k] = cursor
      BY <1>3, <2>3, <2>6, <2>9 DEF ToSet
    <3>2. k = 1
      <4>1. k \in Nat /\ 1 \in 1 .. Len(rest)
        BY <2>3, <3>1
      <4>2. 1 < k => rest[1] < rest[k]
        BY <2>3, <2>4, <3>1, <4>1 DEF Rising
      <4>3. rest[1] >= cursor /\ rest[1] \in Nat
        BY <1>1, <1>3, <2>3, <4>1
      <4>4. QED
        BY <1>3, <3>1, <4>1, <4>2, <4>3
    <3>3. ASSUME NEW i \in 1 .. Len(a)
          PROVE  a[i] \in Sight /\ a[i] > cursor
      <4>1. 1 + i \in 1 .. Len(rest) /\ 1 < 1 + i /\ 1 \in 1 .. Len(rest)
        BY <2>3, <2>7, <3>3
      <4>2. rest[1] < rest[1 + i]
        BY <2>3, <2>4, <4>1 DEF Rising
      <4>3. QED
        BY <1>1, <1>3, <2>3, <2>5, <3>1, <3>2, <4>1, <4>2
    <3>4. ASSUME NEW r \in Sight, r > cursor
          PROVE  r \in ToSet(a)
      <4>1. r \in Nat /\ r >= cursor
        BY <1>1, <1>3, <3>4
      <4>2. PICK j \in 1 .. Len(rest) : rest[j] = r
        BY <2>3, <2>6, <4>1 DEF ToSet
      <4>3. j # 1
        BY <1>3, <3>1, <3>2, <3>4, <4>1, <4>2
      <4>4. j - 1 \in 1 .. Len(a) /\ 1 + (j - 1) = j
        <5>1. j \in Int /\ 1 <= j /\ j <= Len(rest) /\ j # 1
          BY <2>3, <4>2, <4>3
        <5>2. Len(rest) \in Nat
          BY <2>3
        <5>3. Len(a) = (IF 1 < Len(rest) THEN Len(rest) - 1 ELSE 0)
          BY <2>5
        <5>4. QED
          BY ONLY <5>1, <5>2, <5>3
      <4>5. a[j - 1] = r
        BY <2>5, <4>2, <4>4
      <4>6. QED
        BY <2>7, <4>4, <4>5 DEF ToSet
    <3>5. QED
      BY <2>1, <2>5, <2>8, <2>9, <3>3, <3>4 DEF RowsFrom
  <2>10. CASE cursor \notin Sight
    <3>1. ASSUME NEW i \in 1 .. Len(a)
          PROVE  a[i] \in Sight /\ a[i] > cursor
      <4>1. a[i] = rest[1 + i] /\ 1 + i \in 1 .. Len(rest)
        BY <2>5, <2>7, <3>1
      <4>2. a[i] \in Sight /\ a[i] >= cursor
        BY <2>3, <4>1
      <4>3. a[i] \in Nat /\ a[i] # cursor
        BY <1>1, <1>3, <2>10, <4>2
      <4>4. QED
        BY <1>3, <4>2, <4>3
    <3>2. CASE rows = a
      BY <1>5, <2>5, <2>8, <2>10, <3>1, <3>2 DEF RowsFrom
    <3>3. CASE rows = <<>>
      <4>1. rows \in Seq(Rows) /\ Len(rows) = 0 /\ DOMAIN rows = {}
        BY <3>3
      <4>2. QED
        BY <1>5, <2>10, <4>1 DEF RowsFrom, Rising
    <3>4. QED
      BY <2>1, <2>10, <3>2, <3>3
  <2>11. QED
    BY <2>9, <2>10
<1>6. QED
  BY <1>4, <1>5
-----------------------------------------------------------------------------
(* A walk with cursors: w is what it served so far, c its cursor, d whether  *)
(* it is done.                                                               *)
Walked(w, c, d) ==
  /\ Rising(w)
  /\ c # 0 => w # <<>> /\ c = w[Len(w)] /\ ~d
  /\ c = 0 /\ ~d => w = <<>>

(* The rows of S are served, or will be.                                     *)
Covered(S, w, c, d) == \A r \in S : r \in ToSet(w) \/ (~d /\ r > c)

(* Of S it served those up to the cursor.                                    *)
UpTo(S, w, c, d) == ToSet(w) = {r \in S : d \/ r <= c}

(* The page that rows give, h: whether there is a next one.                  *)
PageOf(rows, data, h) ==
  /\ data \in Seq(Rows) /\ h \in BOOLEAN
  /\ Len(data) = IF h THEN PageSize ELSE Len(rows)
  /\ h <=> PageSize < Len(rows)
  /\ \A i \in 1 .. Len(data) : data[i] = rows[i]

LEMMA PageOfGood ==
  ASSUME NEW rows \in Seq(Rows),
         NEW results, results = pages!FirstOf(pages!Take, rows),
         NEW h \in BOOLEAN, h <=> Len(results) > PageSize,
         NEW data, data = IF h THEN pages!FirstOf(PageSize, results) ELSE results
  PROVE  PageOf(rows, data, h)
<1>1. PageSize \in Nat /\ PageSize > 0 /\ PageSize + 1 \in Nat /\ Len(rows) \in Nat
  BY PageConstants
<1>2. /\ results \in Seq(Rows)
      /\ Len(results) = (IF PageSize + 1 < Len(rows) THEN PageSize + 1 ELSE Len(rows))
      /\ \A i \in 1 .. Len(results) : results[i] = rows[i]
  BY <1>1, FirstOfGood DEF pages!Take
<1>3. h \in BOOLEAN /\ (h <=> PageSize < Len(rows))
  BY <1>1, <1>2
<1>4. CASE h
  <2>1. /\ data \in Seq(Rows)
        /\ Len(data) = (IF PageSize < Len(results) THEN PageSize ELSE Len(results))
        /\ \A i \in 1 .. Len(data) : data[i] = results[i]
    BY <1>1, <1>2, <1>4, FirstOfGood
  <2>2. Len(data) = PageSize
    BY <1>4, <2>1
  <2>3. PageSize <= Len(results)
    <3>1. Len(results) > PageSize /\ Len(results) \in Nat
      BY <1>2, <1>4
    <3>2. QED
      BY <1>1, <3>1
  <2>4. \A i \in 1 .. Len(data) : data[i] = rows[i]
    <3>1. \A i \in 1 .. PageSize : i \in 1 .. Len(results)
      BY <1>1, <1>2, <2>3
    <3>2. QED
      BY <1>2, <2>1, <2>2, <3>1
  <2>5. QED
    BY <1>3, <1>4, <2>1, <2>2, <2>4 DEF PageOf
<1>5. CASE ~h
  <2>1. data = results
    BY <1>5
  <2>2. Len(data) = Len(rows)
    BY <1>1, <1>2, <1>3, <1>5, <2>1
  <2>3. QED
    BY <1>2, <1>3, <1>5, <2>1, <2>2 DEF PageOf
<1>6. QED
  BY <1>3, <1>4, <1>5

(* The same after one more page.                                             *)
PageTaken(w, c, d) ==
  /\ w \in Seq(Rows) /\ c \in Rows \cup {0} /\ Walked(w, c, d)
  /\ cursor \in Sight \cup {0} =>
       /\ \A S \in SUBSET Sight :
            Covered(S, walked, cursor, FALSE) => Covered(S, w, c, d)
       /\ UpTo(Sight, walked, cursor, FALSE) => UpTo(Sight, w, c, d)

LEMMA PageServed ==
  ASSUME cursor \in Rows \cup {0}, walked \in Seq(Rows), Walked(walked, cursor, FALSE),
         NEW rows, RowsFrom(rows),
         NEW data, NEW h, PageOf(rows, data, h),
         NEW w, w = walked \o data,
         NEW c, c = IF h THEN data[Len(data)] ELSE 0
  PROVE  PageTaken(w, c, ~h)
<1>1. /\ PageSize \in Nat /\ PageSize > 0 /\ Rows \in SUBSET Nat /\ 0 \notin Rows
      /\ Sight \in SUBSET Rows /\ cursor \in Nat
  BY PageConstants, MatchingGood
<1>2. /\ rows \in Seq(Rows) /\ Len(rows) \in Nat /\ DOMAIN rows = 1 .. Len(rows)
      /\ \A i \in 1 .. Len(rows) : rows[i] \in Sight /\ rows[i] > cursor /\ rows[i] \in Nat
      /\ \A i, j \in 1 .. Len(rows) : i < j => rows[i] < rows[j]
  <2>1. /\ rows \in Seq(Rows) /\ Len(rows) \in Nat /\ DOMAIN rows = 1 .. Len(rows)
        /\ Rising(rows)
        /\ \A i \in 1 .. Len(rows) : rows[i] \in Sight /\ rows[i] > cursor
    BY DEF RowsFrom
  <2>2. \A i \in 1 .. Len(rows) : rows[i] \in Nat
    BY <1>1, <2>1
  <2>3. \A i, j \in 1 .. Len(rows) : i < j => rows[i] < rows[j]
    BY <2>1 DEF Rising
  <2>4. QED
    BY <2>1, <2>2, <2>3
<1>3. /\ data \in Seq(Rows) /\ h \in BOOLEAN /\ Len(data) \in Nat
      /\ Len(data) = (IF h THEN PageSize ELSE Len(rows))
      /\ h <=> PageSize < Len(rows)
      /\ DOMAIN data = 1 .. Len(data)
      /\ \A i \in 1 .. Len(data) : data[i] = rows[i]
  BY DEF PageOf
<1>4. Len(data) <= Len(rows) /\ \A i \in 1 .. Len(data) : i \in 1 .. Len(rows)
  BY <1>1, <1>2, <1>3
<1>5. /\ walked \in Seq(Rows) /\ Len(walked) \in Nat /\ DOMAIN walked = 1 .. Len(walked)
      /\ \A i, j \in 1 .. Len(walked) : i < j => walked[i] < walked[j]
      /\ \A i \in 1 .. Len(walked) : walked[i] \in Nat
      /\ cursor # 0 => walked # <<>> /\ cursor = walked[Len(walked)]
      /\ cursor = 0 => walked = <<>>
  <2>1. walked \in Seq(Rows) /\ Len(walked) \in Nat /\ DOMAIN walked = 1 .. Len(walked)
    OBVIOUS
  <2>2. \A i, j \in 1 .. Len(walked) : i < j => walked[i] < walked[j]
    BY <2>1 DEF Walked, Rising
  <2>3. \A i \in 1 .. Len(walked) : walked[i] \in Nat
    <3>1. \A i \in 1 .. Len(walked) : walked[i] \in Rows
      BY <2>1
    <3>2. QED
      BY <1>1, <3>1
  <2>4. /\ cursor # 0 => walked # <<>> /\ cursor = walked[Len(walked)]
        /\ cursor = 0 => walked = <<>>
    BY DEF Walked
  <2>5. QED
    BY <2>1, <2>2, <2>3, <2>4
<1>6. \A i \in 1 .. Len(walked) : walked[i] <= cursor
  <2>1. TAKE i \in 1 .. Len(walked)
  <2>2. i \in Nat /\ 1 <= i /\ i <= Len(walked) /\ Len(walked) \in Nat
    BY <1>5, <2>1
  <2>3. Len(walked) \in 1 .. Len(walked) /\ (i < Len(walked) \/ i = Len(walked))
    BY <2>2
  <2>4. walked # <<>>
    BY <2>2
  <2>5. cursor = walked[Len(walked)]
    BY <1>5, <2>4
  <2>6. i < Len(walked) => walked[i] < walked[Len(walked)]
    BY <1>5, <2>1, <2>3
  <2>7. QED
    <3>1. walked[i] \in Nat /\ cursor \in Nat
      BY <1>1, <1>5, <2>1
    <3>2. i = Len(walked) => walked[i] = cursor
      BY <2>5
    <3>3. i < Len(walked) => walked[i] < cursor
      BY <2>5, <2>6
    <3>4. QED
      BY <2>3, <3>1, <3>2, <3>3
<1>7. /\ w \in Seq(Rows) /\ ToSet(w) = ToSet(walked) \cup ToSet(data)
      /\ Len(w) = Len(walked) + Len(data)
      /\ DOMAIN w = 1 .. Len(w)
      /\ \A i \in 1 .. Len(walked) : w[i] = walked[i]
      /\ \A i \in 1 .. Len(data) : w[Len(walked) + i] = data[i]
  <2>1. walked \in Seq(Rows) /\ data \in Seq(Rows)
    BY <1>3, <1>5
  <2>. DEFINE cc == walked \o data
  <2>2. /\ cc \in Seq(Rows) /\ ToSet(cc) = ToSet(walked) \cup ToSet(data)
        /\ Len(cc) = Len(walked) + Len(data)
        /\ \A i \in 1 .. Len(walked) : cc[i] = walked[i]
        /\ \A i \in 1 .. Len(data) : cc[Len(walked) + i] = data[i]
    BY <2>1, ConcatRange
  <2>3. w = cc
    OBVIOUS
  <2>. HIDE DEF cc
  <2>4. DOMAIN cc = 1 .. Len(cc)
    BY <2>2
  <2>5. QED
    BY <2>2, <2>3, <2>4
<1>8. Rising(w)
  <2>1. SUFFICES ASSUME NEW i \in 1 .. Len(w), NEW j \in 1 .. Len(w), i < j
                 PROVE  w[i] < w[j]
    BY <1>7 DEF Rising
  <2>2. i \in Nat /\ j \in Nat /\ 1 <= i /\ 1 <= j /\ i <= Len(w) /\ j <= Len(w)
    BY <1>7
  <2>3. CASE j <= Len(walked)
    <3>1. i \in 1 .. Len(walked) /\ j \in 1 .. Len(walked)
      BY <1>5, <2>1, <2>2, <2>3
    <3>2. QED
      BY <1>5, <1>7, <2>1, <3>1
  <2>4. CASE ~(j <= Len(walked))
    <3>. DEFINE l == j - Len(walked)
    <3>1. l \in 1 .. Len(data) /\ Len(walked) + l = j
      <4>1. /\ Len(walked) \in Nat /\ Len(data) \in Nat
            /\ j \in 1 .. Len(walked) + Len(data)
        BY <1>3, <1>5, <1>7, <2>2
      <4>2. QED
        BY ONLY <2>4, <4>1
    <3>. HIDE DEF l
    <3>2. w[j] = rows[l] /\ rows[l] > cursor /\ rows[l] \in Nat
      BY <1>2, <1>3, <1>4, <1>7, <3>1
    <3>3. CASE i <= Len(walked)
      <4>1. i \in 1 .. Len(walked)
        BY <1>5, <2>2, <3>3
      <4>2. w[i] <= cursor /\ w[i] \in Nat
        BY <1>5, <1>6, <1>7, <4>1
      <4>3. QED
        BY <1>1, <3>2, <4>2
    <3>4. CASE ~(i <= Len(walked))
      <4>. DEFINE k == i - Len(walked)
      <4>1. k \in 1 .. Len(data) /\ Len(walked) + k = i
        <5>1. /\ Len(walked) \in Nat /\ Len(data) \in Nat
              /\ i \in 1 .. Len(walked) + Len(data)
          BY <1>3, <1>5, <1>7, <2>2
        <5>2. QED
          BY ONLY <3>4, <5>1
      <4>2. k < l
        BY <1>5, <2>1, <2>2, <3>1, <4>1
      <4>. HIDE DEF k
      <4>3. w[i] = rows[k] /\ rows[k] < rows[l]
        BY <1>2, <1>3, <1>4, <1>7, <3>1, <4>1, <4>2
      <4>4. QED
        BY <3>2, <4>3
    <3>5. QED
      BY <3>3, <3>4
  <2>5. QED
    BY <2>3, <2>4
<1>9. CASE h
  <2>1. /\ Len(data) = PageSize /\ PageSize < Len(rows) /\ c = data[PageSize]
        /\ PageSize \in 1 .. Len(data) /\ PageSize \in 1 .. Len(rows) /\ c = rows[PageSize]
    <3>1. Len(data) = PageSize /\ PageSize < Len(rows) /\ c = data[PageSize]
      BY <1>3, <1>9
    <3>2. PageSize \in 1 .. Len(data) /\ PageSize \in 1 .. Len(rows)
      BY <1>1, <1>2, <3>1
    <3>3. QED
      BY <1>3, <3>1, <3>2
  <2>2. c \in Rows /\ c # 0 /\ c \in Nat /\ c > cursor
    BY <1>1, <1>2, <2>1
  <2>3. Len(w) \in 1 .. Len(w) /\ w # <<>> /\ c = w[Len(w)]
    <3>1. Len(w) = Len(walked) + PageSize /\ Len(w) \in Nat /\ Len(w) > 0
      BY <1>1, <1>5, <1>7, <2>1
    <3>2. w[Len(walked) + PageSize] = data[PageSize]
      BY <1>7, <2>1
    <3>3. QED
      BY <2>1, <3>1, <3>2
  <2>4. Walked(w, c, ~h)
    BY <1>8, <1>9, <2>2, <2>3 DEF Walked
  <2>5. ASSUME cursor \in Sight \cup {0}, NEW r \in Sight, r > cursor
        PROVE  r \in ToSet(w) <=> r <= c
    <3>1. PICK i \in 1 .. Len(rows) : rows[i] = r
      <4>1. r \in ToSet(rows)
        BY <2>5 DEF RowsFrom
      <4>2. QED
        BY <1>2, <4>1 DEF ToSet
    <3>2. i \in Nat /\ r \in Nat
      BY <1>1, <3>1
    <3>3. CASE i <= PageSize
      <4>1. i \in 1 .. Len(data)
        BY <2>1, <3>2, <3>3
      <4>2. data[i] = r
        BY <1>3, <3>1, <4>1
      <4>3. r \in ToSet(w)
        BY <1>3, <1>7, <4>1, <4>2 DEF ToSet
      <4>4. i < PageSize => r < c
        BY <1>2, <2>1, <3>1
      <4>5. i = PageSize => r = c
        BY <2>1, <3>1
      <4>6. QED
        BY <1>1, <2>2, <3>2, <3>3, <4>3, <4>4, <4>5
    <3>4. CASE ~(i <= PageSize)
      <4>1. PageSize < i
        BY <1>1, <3>2, <3>4
      <4>2. c < r
        BY <1>2, <2>1, <3>1, <4>1
      <4>3. \A k \in 1 .. Len(walked) : walked[k] # r
        BY <1>1, <1>5, <1>6, <2>5, <3>2
      <4>4. \A k \in 1 .. Len(data) : data[k] # r
        <5>1. TAKE k \in 1 .. Len(data)
        <5>2. k \in Nat /\ k < i /\ k \in 1 .. Len(rows)
          BY <1>1, <1>4, <2>1, <3>2, <4>1
        <5>3. rows[k] < rows[i]
          BY <1>2, <3>1, <5>2
        <5>4. QED
          BY <1>2, <1>3, <3>1, <5>2, <5>3
      <4>5. r \notin ToSet(w)
        BY <1>3, <1>5, <1>7, <4>3, <4>4 DEF ToSet
      <4>6. QED
        BY <2>2, <3>2, <4>2, <4>5
    <3>5. QED
      BY <3>3, <3>4
  <2>6. ASSUME cursor \in Sight \cup {0}, NEW S \in SUBSET Sight,
               Covered(S, walked, cursor, FALSE)
        PROVE  Covered(S, w, c, ~h)
    <3>1. SUFFICES ASSUME NEW r \in S PROVE r \in ToSet(w) \/ r > c
      BY <1>9 DEF Covered
    <3>2. r \in ToSet(walked) \/ r > cursor
      BY <2>6 DEF Covered
    <3>3. r > cursor => (r \in ToSet(w) <=> r <= c)
      BY <2>5, <2>6
    <3>4. r \in Nat
      BY <1>1, <2>6
    <3>5. QED
      BY <1>7, <2>2, <3>2, <3>3, <3>4
  <2>7. ASSUME cursor \in Sight \cup {0}, UpTo(Sight, walked, cursor, FALSE)
        PROVE  UpTo(Sight, w, c, ~h)
    <3>1. ToSet(walked) = {r \in Sight : r <= cursor}
      BY <2>7 DEF UpTo
    <3>2. ToSet(data) \subseteq Sight
      BY <1>2, <1>3, <1>4 DEF ToSet
    <3>3. ToSet(w) \subseteq Sight
      BY <1>7, <3>1, <3>2
    <3>4. ASSUME NEW r \in Sight PROVE r \in ToSet(w) <=> r <= c
      <4>1. r \in Nat
        BY <1>1
      <4>2. CASE r > cursor
        BY <2>5, <2>7, <4>2
      <4>3. CASE r <= cursor
        BY <1>1, <1>7, <2>2, <3>1, <4>1, <4>3
      <4>4. QED
        BY <1>1, <4>1, <4>2, <4>3
    <3>5. QED
      BY <1>9, <3>3, <3>4 DEF UpTo
  <2>8. QED
    BY <1>7, <2>2, <2>4, <2>6, <2>7 DEF PageTaken
<1>10. CASE ~h
  <2>1. c = 0 /\ Len(data) = Len(rows) /\ Walked(w, c, ~h)
    BY <1>3, <1>8, <1>10 DEF Walked
  <2>2. ASSUME cursor \in Sight \cup {0}, NEW r \in Sight, r > cursor
        PROVE  r \in ToSet(w)
    <3>1. r \in ToSet(rows)
      BY <2>2 DEF RowsFrom
    <3>2. PICK i \in 1 .. Len(rows) : rows[i] = r
      BY <1>2, <3>1 DEF ToSet
    <3>3. i \in DOMAIN data /\ data[i] = r
      BY <1>3, <2>1, <3>2
    <3>4. QED
      BY <1>7, <3>3 DEF ToSet
  <2>3. ASSUME cursor \in Sight \cup {0}, NEW S \in SUBSET Sight,
               Covered(S, walked, cursor, FALSE)
        PROVE  Covered(S, w, c, ~h)
    BY <1>7, <2>2, <2>3 DEF Covered
  <2>4. ASSUME cursor \in Sight \cup {0}, UpTo(Sight, walked, cursor, FALSE)
        PROVE  UpTo(Sight, w, c, ~h)
    <3>1. ToSet(walked) = {r \in Sight : r <= cursor}
      BY <2>4 DEF UpTo
    <3>2. ToSet(data) \subseteq Sight
      BY <1>2, <1>3, <1>4 DEF ToSet
    <3>3. \A r \in Sight : r <= cursor \/ r > cursor
      BY <1>1
    <3>4. ToSet(w) = Sight
      BY <1>7, <2>2, <2>4, <3>1, <3>2, <3>3
    <3>5. QED
      BY <1>10, <3>4 DEF UpTo
  <2>5. QED
    BY <1>7, <2>1, <2>3, <2>4 DEF PageTaken
<1>11. QED
  BY <1>3, <1>9, <1>10
-----------------------------------------------------------------------------
LEMMA RankType ==
  ASSUME NEW S \in SUBSET Rows, NEW r \in S
  PROVE  /\ Cardinality(S) \in Nat /\ RankIn(S, r) \in Nat
         /\ RankIn(S, r) < Cardinality(S)
         /\ \A T \in SUBSET Rows : S \subseteq T => RankIn(S, r) <= RankIn(T, r)
<1>1. IsFiniteSet(Rows) /\ Rows \in SUBSET Nat
  BY PageConstants
<1>2. IsFiniteSet(S)
  BY <1>1, FS_Subset
<1>. DEFINE before(T) == {q \in T : q < r}
<1>3. before(S) \in SUBSET S /\ before(S) # S
  <2>1. r \in Nat
    BY <1>1
  <2>2. ~(r < r)
    BY <2>1
  <2>3. QED
    BY <2>2
<1>4. RankIn(S, r) = Cardinality(before(S))
  BY DEF RankIn
<1>5. ASSUME NEW T \in SUBSET Rows, S \subseteq T
      PROVE  RankIn(S, r) <= RankIn(T, r)
  <2>1. before(S) \in SUBSET before(T) /\ before(T) \in SUBSET Rows
    BY <1>5
  <2>2. RankIn(T, r) = Cardinality(before(T))
    BY DEF RankIn
  <2>. DEFINE X == before(S)
              Y == before(T)
  <2>3. X \in SUBSET Y /\ Y \in SUBSET Rows /\ RankIn(S, r) = Cardinality(X)
        /\ RankIn(T, r) = Cardinality(Y)
    BY <1>4, <2>1, <2>2
  <2>. HIDE DEF X, Y
  <2>4. IsFiniteSet(Y)
    BY <1>1, <2>3, FS_Subset
  <2>5. QED
    BY <2>3, <2>4, FS_Subset
<1>. DEFINE X == before(S)
<1>6. X \in SUBSET S /\ X # S /\ RankIn(S, r) = Cardinality(X)
  BY <1>3, <1>4
<1>. HIDE DEF X
<1>7. /\ Cardinality(S) \in Nat /\ Cardinality(X) \in Nat
      /\ Cardinality(X) <= Cardinality(S) /\ Cardinality(X) # Cardinality(S)
  BY <1>2, <1>6, FS_Subset, FS_CardinalityType
<1>8. QED
  BY <1>5, <1>6, <1>7

LEMMA FoundGood ==
  ASSUME NEW S \in SUBSET Rows, NEW M, Answered(M, S), NEW P \in Nat,
         NEW f, f = pages!FirstOf(PageSize, pages!After(P, M))
  PROVE  /\ f \in Seq(Rows)
         /\ \A r \in S : RankIn(S, r) >= P => r \in ToSet(f) \/ RankIn(S, r) >= P + PageSize
         /\ pages!FirstOf(P, M) \o f = pages!FirstOf(P + PageSize, M)
<1>1. PageSize \in Nat /\ PageSize > 0 /\ P + PageSize \in Nat
  BY PageConstants
<1>2. /\ M \in Seq(Rows) /\ Len(M) \in Nat /\ DOMAIN M = 1 .. Len(M) /\ ToSet(M) = S
      /\ \A i \in 1 .. Len(M) : RankIn(S, M[i]) = i - 1
  BY DEF Answered
<1>. DEFINE a == pages!After(P, M)
<1>3. /\ a \in Seq(Rows) /\ Len(a) = (IF P < Len(M) THEN Len(M) - P ELSE 0)
      /\ \A i \in 1 .. Len(a) : a[i] = M[P + i]
  BY <1>2, AfterGood
<1>. HIDE DEF a
<1>4. /\ f \in Seq(Rows) /\ Len(f) = (IF PageSize < Len(a) THEN PageSize ELSE Len(a))
      /\ \A i \in 1 .. Len(f) : f[i] = a[i]
  BY <1>1, <1>3, FirstOfGood DEF a
<1>5. Len(f) \in Nat /\ DOMAIN f = 1 .. Len(f) /\ Len(a) \in Nat /\ Len(f) <= Len(a)
  BY <1>1, <1>3, <1>4
<1>6. \A i \in 1 .. Len(f) : f[i] = M[P + i]
  <2>1. \A i \in 1 .. Len(f) : i \in 1 .. Len(a)
    BY <1>5
  <2>2. QED
    BY <1>3, <1>4, <2>1
<1>7. Len(f) = (IF P < Len(M) THEN IF PageSize < Len(M) - P THEN PageSize ELSE Len(M) - P
                ELSE 0)
  <2>1. Len(a) = (IF P < Len(M) THEN Len(M) - P ELSE 0)
    BY <1>3
  <2>2. Len(f) = (IF PageSize < Len(a) THEN PageSize ELSE Len(a))
    BY <1>4
  <2>3. P \in Nat /\ Len(M) \in Nat /\ PageSize \in Nat
    BY <1>1, <1>2
  <2>4. QED
    BY ONLY <2>1, <2>2, <2>3
<1>8. ASSUME NEW r \in S, RankIn(S, r) >= P
      PROVE  r \in ToSet(f) \/ RankIn(S, r) >= P + PageSize
  <2>1. PICK i \in 1 .. Len(M) : M[i] = r
    BY <1>2 DEF ToSet
  <2>2. RankIn(S, r) = i - 1 /\ i \in Nat /\ i <= Len(M) /\ i - 1 >= P
    BY <1>2, <1>8, <2>1
  <2>3. CASE i - 1 >= P + PageSize
    BY <2>2, <2>3
  <2>4. CASE ~(i - 1 >= P + PageSize)
    <3>. DEFINE k == i - P
    <3>1. k \in Nat /\ 1 <= k /\ k <= PageSize /\ k <= Len(M) - P /\ P < Len(M) /\ P + k = i
      BY <1>1, <1>2, <2>2, <2>4
    <3>. HIDE DEF k
    <3>2. k \in 1 .. Len(f)
      <4>1. Len(f) = (IF PageSize < Len(M) - P THEN PageSize ELSE Len(M) - P)
        BY <1>7, <3>1
      <4>2. QED
        BY <1>5, <3>1, <4>1
    <3>3. f[k] = r
      BY <1>6, <2>1, <3>1, <3>2
    <3>4. QED
      BY <1>5, <3>2, <3>3 DEF ToSet
  <2>5. QED
    BY <2>3, <2>4
<1>. DEFINE u == pages!FirstOf(P, M)
            v == pages!FirstOf(P + PageSize, M)
            c == u \o f
<1>9. /\ u \in Seq(Rows) /\ Len(u) = (IF P < Len(M) THEN P ELSE Len(M))
      /\ \A i \in 1 .. Len(u) : u[i] = M[i]
  BY <1>2, FirstOfGood
<1>10. /\ v \in Seq(Rows)
       /\ Len(v) = (IF P + PageSize < Len(M) THEN P + PageSize ELSE Len(M))
       /\ \A i \in 1 .. Len(v) : v[i] = M[i]
  BY <1>1, <1>2, FirstOfGood
<1>. HIDE DEF u, v
<1>11. /\ c \in Seq(Rows) /\ Len(c) = Len(u) + Len(f)
       /\ \A i \in 1 .. Len(u) : c[i] = u[i]
       /\ \A i \in 1 .. Len(f) : c[Len(u) + i] = f[i]
  <2>1. u \in Seq(Rows) /\ f \in Seq(Rows)
    BY <1>4, <1>9
  <2>2. QED
    BY <2>1, ConcatRange
<1>. HIDE DEF c
<1>12. Len(u) \in Nat /\ Len(v) \in Nat /\ Len(c) = Len(v)
  <2>1. Len(u) = (IF P < Len(M) THEN P ELSE Len(M))
    BY <1>9
  <2>2. Len(v) = (IF P + PageSize < Len(M) THEN P + PageSize ELSE Len(M))
    BY <1>10
  <2>3. P \in Nat /\ Len(M) \in Nat /\ PageSize \in Nat
    BY <1>1, <1>2
  <2>4. Len(c) = Len(u) + Len(f)
    BY <1>11
  <2>5. QED
    BY ONLY <1>7, <2>1, <2>2, <2>3, <2>4
<1>13. ASSUME NEW i \in 1 .. Len(c) PROVE c[i] = v[i]
  <2>1. i \in Nat /\ 1 <= i /\ i <= Len(u) + Len(f) /\ i \in 1 .. Len(v)
    BY <1>5, <1>11, <1>12
  <2>2. v[i] = M[i]
    BY <1>10, <2>1
  <2>3. CASE i <= Len(u)
    <3>1. i \in 1 .. Len(u)
      BY <1>12, <2>1, <2>3
    <3>2. QED
      BY <1>9, <1>11, <2>2, <3>1
  <2>4. CASE ~(i <= Len(u))
    <3>. DEFINE k == i - Len(u)
    <3>1. k \in 1 .. Len(f) /\ Len(u) + k = i
      BY <1>5, <1>12, <2>1, <2>4
    <3>. HIDE DEF k
    <3>2. c[i] = f[k] /\ f[k] = M[P + k]
      BY <1>6, <1>11, <3>1
    <3>3. Len(u) = P
      <4>1. Len(f) # 0
        BY <1>5, <3>1
      <4>2. P < Len(M)
        BY <1>7, <4>1
      <4>3. QED
        BY <1>9, <4>2
    <3>4. QED
      BY <2>2, <3>1, <3>2, <3>3
  <2>5. QED
    BY <2>3, <2>4
<1>14. c = v
  <2>1. c = [i \in 1 .. Len(c) |-> c[i]] /\ v = [i \in 1 .. Len(v) |-> v[i]]
    BY <1>10, <1>11
  <2>2. QED
    BY <1>12, <1>13, <2>1
<1>15. QED
  BY <1>4, <1>8, <1>14 DEF c, u, v

LEMMA FirstOfAll ==
  ASSUME NEW M \in Seq(Rows), NEW k \in Nat, k >= Len(M)
  PROVE  pages!FirstOf(k, M) = M
<1>. DEFINE u == pages!FirstOf(k, M)
<1>1. /\ u \in Seq(Rows) /\ Len(u) = (IF k < Len(M) THEN k ELSE Len(M))
      /\ \A i \in 1 .. Len(u) : u[i] = M[i]
  BY FirstOfGood
<1>. HIDE DEF u
<1>2. Len(u) = Len(M)
  BY <1>1
<1>3. u = [i \in 1 .. Len(u) |-> u[i]] /\ M = [i \in 1 .. Len(M) |-> M[i]]
  BY <1>1
<1>4. u = M
  BY <1>1, <1>2, <1>3
<1>5. QED
  BY <1>4 DEF u

LEMMA PageNumbers ==
  ASSUME NEW p \in Nat \ {0}
  PROVE  /\ (p - 1) * PageSize \in Nat /\ p * PageSize \in Nat
         /\ (p - 1) * PageSize + PageSize = p * PageSize
         /\ ((p + 1) - 1) * PageSize = p * PageSize
         /\ (1 - 1) * PageSize = 0
<1>1. PageSize \in Nat
  BY PageConstants
<1>2. p - 1 \in Nat /\ p \in Nat /\ (p + 1) - 1 = p
  OBVIOUS
<1>3. (p - 1) * PageSize + PageSize = p * PageSize
  BY <1>1, <1>2
<1>4. \A k, m \in Nat : k * m \in Nat
  OBVIOUS
<1>5. (1 - 1) * PageSize = 0
  BY <1>1
<1>6. QED
  BY <1>1, <1>2, <1>3, <1>4, <1>5

(* The last page is the one after which nothing is left.                     *)
LEMMA LastPage ==
  ASSUME NEW p \in Nat \ {0}, NEW n \in Nat
  PROVE  p >= pages!TotalPages(n) <=> p * PageSize >= n
<1>1. PageSize \in Nat /\ PageSize > 0 /\ p \in Nat /\ p >= 1 /\ p * PageSize \in Nat
  BY PageConstants, PageNumbers
<1>2. CASE n = 0
  BY <1>1, <1>2 DEF pages!TotalPages
<1>3. CASE n # 0
  <2>. DEFINE m == n + PageSize - 1
              q == m \div PageSize
  <2>1. pages!TotalPages(n) = q
    BY <1>3 DEF pages!TotalPages
  <2>2. m \in Nat
    BY <1>1, <1>3
  <2>3. q \in Nat /\ m = q * PageSize + (m % PageSize) /\ m % PageSize \in 0 .. PageSize - 1
    <3>. HIDE DEF m
    <3>. QED
      BY <1>1, <2>2
  <2>4. q * PageSize <= m /\ m < q * PageSize + PageSize /\ q * PageSize \in Nat
    <3>. HIDE DEF m, q
    <3>1. q * PageSize \in Nat
      BY <1>1, <2>3
    <3>. DEFINE qp == q * PageSize
                rest == m % PageSize
    <3>2. /\ qp \in Nat /\ m = qp + rest /\ rest \in Nat /\ rest < PageSize
      BY <1>1, <2>3, <3>1
    <3>. HIDE DEF qp, rest
    <3>3. qp <= m /\ m < qp + PageSize
      BY <1>1, <3>2
    <3>4. QED
      BY <3>1, <3>3 DEF qp
  <2>. HIDE DEF q
  <2>5. \A i, j, k \in Nat : i <= j => i * k <= j * k
    OBVIOUS
  <2>6. CASE p >= q
    <3>1. q * PageSize <= p * PageSize
      BY <1>1, <2>3, <2>5, <2>6
    <3>2. n <= q * PageSize
      BY <1>1, <2>4
    <3>3. QED
      BY <1>1, <2>1, <2>4, <2>6, <3>1, <3>2
  <2>7. CASE ~(p >= q)
    <3>1. p + 1 <= q
      BY <1>1, <2>3, <2>7
    <3>2. (p + 1) * PageSize <= q * PageSize
      BY <1>1, <2>3, <2>5, <3>1
    <3>3. (p + 1) * PageSize = p * PageSize + PageSize
      BY <1>1
    <3>4. p * PageSize + PageSize <= n + PageSize - 1
      BY <1>1, <2>4, <3>2, <3>3
    <3>5. ~(p * PageSize >= n)
      BY <1>1, <3>4
    <3>6. QED
      BY <2>1, <2>7, <3>5
  <2>8. QED
    BY <2>6, <2>7
<1>4. QED
  BY <1>2, <1>3
-----------------------------------------------------------------------------
CursorGood ==
  mode = "cursor" =>
    /\ found = Pending /\ counted = Pending
    /\ Walked(walked, cursor, done)
    /\ ~stray => Covered(steady, walked, cursor, done)
    /\ ~changed => UpTo(Sight, walked, cursor, done)

(* Row r of a table of which S is in sight is served, or will be: w is what  *)
(* has been served, p the next page, f and n what its queries answered.      *)
Met(S, r, w, p, f, n, d) ==
  \/ r \in ToSet(w)
  \/ /\ ~d
     /\ IF f = Pending THEN RankIn(S, r) >= (p - 1) * PageSize
        ELSE \/ r \in ToSet(f)
             \/ RankIn(S, r) >= p * PageSize /\ (n # Pending => p * PageSize < n)

(* Nothing changed, M is the table.                                          *)
InStep(M, w, p, f, n, d) ==
  /\ ~d => p = 1 \/ (p - 1) * PageSize < Len(M)
  /\ w = IF d THEN M ELSE pages!FirstOf((p - 1) * PageSize, M)
  /\ f # Pending => f = pages!FirstOf(PageSize, pages!After((p - 1) * PageSize, M))
  /\ n # Pending => n = Len(M)

OffsetGood ==
  mode = "offset" =>
    /\ done => found = Pending /\ counted = Pending
    /\ ~removed /\ ~torn =>
         /\ counted # Pending /\ found = Pending => counted = Cardinality(Sight)
         /\ \A r \in steady : Met(Sight, r, walked, page, found, counted, done)
    /\ ~changed => InStep(pages!Matching, walked, page, found, counted, done)

WalkIInv == pages!TypeOK /\ steady \subseteq Sight /\ CursorGood /\ OffsetGood

LEMMA WalkInit ==
  ASSUME pages!Init
  PROVE  WalkIInv
<1>1. /\ cursor = 0 /\ page = 1 /\ found = Pending /\ counted = Pending /\ walked = <<>>
      /\ done = FALSE /\ steady = Sight /\ removed = FALSE /\ changed = FALSE
      /\ torn = FALSE /\ stray = FALSE /\ mode \in {"cursor", "offset"}
  BY DEF pages!Init, Sight
<1>2. /\ Sight \in SUBSET Rows /\ Answered(pages!Matching, Sight)
      /\ Rows \in SUBSET Nat /\ 0 \notin Rows /\ PageSize \in Nat
  BY MatchingGood, PageConstants
<1>3. pages!TypeOK
  <2>1. walked \in Seq(Rows) /\ page \in Nat \ {0} /\ cursor \in Rows \cup {0}
    BY <1>1
  <2>2. steady \subseteq Rows
    BY <1>1, <1>2
  <2>3. {removed, changed, torn, stray} \subseteq BOOLEAN /\ done \in BOOLEAN
    BY <1>1
  <2>4. /\ table \in [Rows -> pages!States] /\ includeDeleted \in BOOLEAN
        /\ found \in Seq(Rows) \cup {Pending} /\ counted \in Nat \cup {Pending}
    BY <1>1 DEF pages!Init
  <2>5. QED
    BY <1>1, <2>1, <2>2, <2>3, <2>4 DEF pages!TypeOK
<1>4. \A r \in Sight : r \in Nat /\ r > 0
  BY <1>2
<1>5. ToSet(walked) = {} /\ DOMAIN walked = {}
  BY <1>1 DEF ToSet
<1>6. CursorGood
  <2>1. Walked(walked, cursor, done)
    BY <1>1, <1>5 DEF Walked, Rising
  <2>2. Covered(steady, walked, cursor, done)
    BY <1>1, <1>4 DEF Covered
  <2>3. UpTo(Sight, walked, cursor, done)
    <3>1. \A r \in Sight : ~(r <= 0)
      BY <1>4
    <3>2. QED
      BY <1>1, <1>5, <3>1 DEF UpTo
  <2>4. QED
    BY <1>1, <2>1, <2>2, <2>3 DEF CursorGood
<1>7. OffsetGood
  <2>1. (page - 1) * PageSize = 0
    BY <1>1, <1>2
  <2>2. \A r \in Sight : RankIn(Sight, r) \in Nat
    BY <1>2, RankType
  <2>3. \A r \in steady : Met(Sight, r, walked, page, found, counted, done)
    BY <1>1, <2>1, <2>2 DEF Met
  <2>4. pages!FirstOf(0, pages!Matching) = <<>>
    <3>1. pages!Matching \in Seq(Rows) /\ Len(pages!Matching) \in Nat
      BY <1>2 DEF Answered
    <3>2. /\ pages!FirstOf(0, pages!Matching) \in Seq(Rows)
          /\ Len(pages!FirstOf(0, pages!Matching)) = 0
      <4>1. Len(pages!FirstOf(0, pages!Matching)) =
              IF 0 < Len(pages!Matching) THEN 0 ELSE Len(pages!Matching)
        BY <3>1, FirstOfGood
      <4>2. QED
        BY <3>1, <4>1, FirstOfGood
    <3>3. QED
      BY <3>2
  <2>5. InStep(pages!Matching, walked, page, found, counted, done)
    BY <1>1, <2>1, <2>4 DEF InStep
  <2>6. QED
    BY <1>1, <2>3, <2>5 DEF OffsetGood
<1>8. QED
  BY <1>1, <1>3, <1>6, <1>7 DEF WalkIInv

(* What a step of the reader leaves alone.                                   *)
LEMMA SightStays ==
  ASSUME UNCHANGED <<table, mode, includeDeleted>>
  PROVE  Sight' = Sight /\ (pages!Matching)' = pages!Matching
<1>1. Sight' = Sight
  BY DEF Sight, pages!SightOf
<1>2. pages!Matching = pages!Ascending(Sight) /\ (pages!Matching)' = pages!Ascending(Sight')
  BY DEF pages!Matching, Sight
<1>3. QED
  BY <1>1, <1>2

LEMMA WalkByCursor ==
  ASSUME WalkIInv, pages!CursorPage, UNCHANGED <<mode, includeDeleted>>
  PROVE  WalkIInv'
<1>1. /\ mode = "cursor" /\ ~done /\ mode' = mode
      /\ UNCHANGED <<table, page, found, counted, steady, removed, changed, torn>>
      /\ stray' = (stray \/ cursor \notin Sight \cup {0})
  BY DEF pages!CursorPage, Sight
<1>2. Sight' = Sight
  BY <1>1, SightStays
<1>3. /\ pages!TypeOK /\ steady \subseteq Sight
      /\ found = Pending /\ counted = Pending /\ Walked(walked, cursor, done)
      /\ ~stray => Covered(steady, walked, cursor, done)
      /\ ~changed => UpTo(Sight, walked, cursor, done)
  BY <1>1 DEF WalkIInv, CursorGood
<1>4. /\ cursor \in Rows \cup {0} /\ walked \in Seq(Rows) /\ done = FALSE
      /\ stray \in BOOLEAN /\ changed \in BOOLEAN
  BY <1>1, <1>3 DEF pages!TypeOK
<1>5. PICK rows \in pages!FromCursor :
        LET results == pages!FirstOf(pages!Take, rows)
            hasNextPage == Len(results) > PageSize
            data == IF hasNextPage THEN pages!FirstOf(PageSize, results) ELSE results
        IN  /\ walked' = walked \o data
            /\ cursor' = IF hasNextPage THEN pages!Last(data) ELSE 0
            /\ done' = ~hasNextPage
  BY DEF pages!CursorPage
<1>. DEFINE results == pages!FirstOf(pages!Take, rows)
            h == Len(results) > PageSize
            data == IF h THEN pages!FirstOf(PageSize, results) ELSE results
<1>6. RowsFrom(rows)
  BY <1>4, FromCursorGood
<1>7. PageOf(rows, data, h)
  <2>1. rows \in Seq(Rows)
    BY <1>6 DEF RowsFrom
  <2>. DEFINE res == results
              dat == data
              more == h
  <2>2. /\ res = pages!FirstOf(pages!Take, rows) /\ more \in BOOLEAN
        /\ more <=> Len(res) > PageSize
        /\ dat = IF more THEN pages!FirstOf(PageSize, res) ELSE res
    OBVIOUS
  <2>. HIDE DEF res, dat, more
  <2>3. PageOf(rows, dat, more)
    BY <2>1, <2>2, PageOfGood
  <2>4. QED
    BY <2>3 DEF dat, more
<1>8. /\ walked' = walked \o data /\ done' = ~h
      /\ cursor' = IF h THEN data[Len(data)] ELSE 0
  BY <1>5, PageOperators
<1>. HIDE DEF data, h
<1>9. h \in BOOLEAN
  BY <1>7 DEF PageOf
<1>10. /\ walked' \in Seq(Rows) /\ cursor' \in Rows \cup {0}
       /\ Walked(walked', cursor', ~h)
       /\ cursor \in Sight \cup {0} =>
            /\ \A S \in SUBSET Sight :
                 Covered(S, walked, cursor, FALSE) => Covered(S, walked', cursor', ~h)
            /\ UpTo(Sight, walked, cursor, FALSE) => UpTo(Sight, walked', cursor', ~h)
  <2>1. Walked(walked, cursor, FALSE)
    BY <1>3, <1>4
  <2>. DEFINE w == walked'
              c == cursor'
  <2>2. w = walked \o data /\ c = IF h THEN data[Len(data)] ELSE 0
    BY <1>8
  <2>. HIDE DEF w, c
  <2>3. PageTaken(w, c, ~h)
    BY <1>4, <1>6, <1>7, <1>9, <2>1, <2>2, PageServed
  <2>4. QED
    BY <2>3 DEF w, c, PageTaken
<1>11. (pages!TypeOK)'
  <2>1. done' \in BOOLEAN /\ stray' \in BOOLEAN
    BY <1>1, <1>8
  <2>2. UNCHANGED includeDeleted
    OBVIOUS
  <2>3. QED
    BY <1>1, <1>3, <1>10, <2>1, <2>2 DEF pages!TypeOK
<1>12. ~stray' => Covered(steady, walked', cursor', ~h)
  BY <1>1, <1>3, <1>4, <1>10
<1>13. ~changed => UpTo(Sight, walked', cursor', ~h)
  <2>1. SUFFICES ASSUME ~changed PROVE UpTo(Sight, walked', cursor', ~h)
    OBVIOUS
  <2>2. UpTo(Sight, walked, cursor, FALSE)
    BY <1>3, <1>4, <2>1
  <2>3. cursor \in Sight \cup {0}
    <3>1. CASE cursor # 0
      <4>1. walked # <<>> /\ cursor = walked[Len(walked)]
        BY <1>3, <3>1 DEF Walked
      <4>2. Len(walked) \in DOMAIN walked
        BY <1>4, <4>1
      <4>3. cursor \in ToSet(walked)
        BY <4>1, <4>2 DEF ToSet
      <4>4. QED
        BY <2>2, <4>3 DEF UpTo
    <3>2. QED
      BY <3>1
  <2>4. QED
    BY <1>10, <2>2, <2>3
<1>14. CursorGood'
  <2>1. /\ found' = Pending /\ counted' = Pending /\ changed' = changed /\ steady' = steady
        /\ done' = ~h
    BY <1>1, <1>3, <1>8
  <2>2. Walked(walked', cursor', done') /\ (~stray' => Covered(steady', walked', cursor', done'))
    BY <1>10, <1>12, <2>1
  <2>3. ~changed' => UpTo(Sight', walked', cursor', done')
    BY <1>2, <1>13, <2>1
  <2>4. QED
    BY <2>1, <2>2, <2>3 DEF CursorGood
<1>15. OffsetGood'
  BY <1>1 DEF OffsetGood
<1>16. (steady \subseteq Sight)'
  BY <1>1, <1>2, <1>3
<1>17. QED
  BY <1>11, <1>14, <1>15, <1>16 DEF WalkIInv
-----------------------------------------------------------------------------
(* The parts of TypeOK that the reader by numbers changes.                   *)
LEMMA OffsetTypes ==
  ASSUME pages!TypeOK
  PROVE  /\ page \in Nat \ {0} /\ found \in Seq(Rows) \cup {Pending}
         /\ counted \in Nat \cup {Pending} /\ walked \in Seq(Rows)
         /\ done \in BOOLEAN /\ removed \in BOOLEAN /\ torn \in BOOLEAN
         /\ changed \in BOOLEAN /\ mode \in {"cursor", "offset"}
BY DEF pages!TypeOK

LEMMA WalkFinds ==
  ASSUME WalkIInv, pages!FindMany, UNCHANGED <<mode, includeDeleted>>
  PROVE  WalkIInv'
<1>1. /\ mode = "offset" /\ ~done /\ found = Pending
      /\ found' = pages!FirstOf(PageSize, pages!After((page - 1) * PageSize, pages!Matching))
      /\ UNCHANGED <<table, cursor, page, counted, walked, done, mode, includeDeleted>>
      /\ UNCHANGED <<steady, removed, changed, torn, stray>>
  BY DEF pages!FindMany, pages!history
<1>2. Sight' = Sight /\ (pages!Matching)' = pages!Matching
  BY <1>1, SightStays
<1>3. pages!TypeOK /\ steady \subseteq Sight /\ OffsetGood
  BY DEF WalkIInv
<1>4. /\ Answered(pages!Matching, Sight) /\ Sight \in SUBSET Rows
      /\ page \in Nat \ {0} /\ counted \in Nat \cup {Pending}
      /\ (page - 1) * PageSize \in Nat /\ (page - 1) * PageSize + PageSize = page * PageSize
  BY <1>3, MatchingGood, OffsetTypes, PageNumbers
<1>5. /\ found' \in Seq(Rows) /\ found' # Pending
      /\ \A r \in Sight : RankIn(Sight, r) >= (page - 1) * PageSize =>
           r \in ToSet(found') \/ RankIn(Sight, r) >= page * PageSize
  <2>. DEFINE f == found'
              P == (page - 1) * PageSize
              M == pages!Matching
  <2>1. f = pages!FirstOf(PageSize, pages!After(P, M)) /\ P \in Nat /\ Answered(M, Sight)
    BY <1>1, <1>4
  <2>. HIDE DEF f, P, M
  <2>2. /\ f \in Seq(Rows)
        /\ \A r \in Sight : RankIn(Sight, r) >= P =>
             r \in ToSet(f) \/ RankIn(Sight, r) >= P + PageSize
    BY <1>4, <2>1, FoundGood
  <2>3. f # Pending
    BY <2>2, PageConstants
  <2>4. P + PageSize = page * PageSize
    BY <1>4 DEF P
  <2>5. QED
    BY <2>2, <2>3, <2>4 DEF f, P
<1>6. (pages!TypeOK)'
  BY <1>1, <1>3, <1>5 DEF pages!TypeOK
<1>7. ASSUME ~removed, ~torn, NEW r \in steady
      PROVE  Met(Sight, r, walked, page, found', counted, done)
  <2>1. Met(Sight, r, walked, page, found, counted, done)
    BY <1>1, <1>3, <1>7 DEF OffsetGood
  <2>2. r \in ToSet(walked) \/ RankIn(Sight, r) >= (page - 1) * PageSize
    BY <1>1, <2>1 DEF Met
  <2>3. r \in Sight
    BY <1>3
  <2>4. counted # Pending => counted = Cardinality(Sight)
    BY <1>1, <1>3, <1>7 DEF OffsetGood
  <2>5. RankIn(Sight, r) < Cardinality(Sight) /\ RankIn(Sight, r) \in Nat
        /\ Cardinality(Sight) \in Nat /\ page * PageSize \in Nat
    BY <1>4, <2>3, RankType, PageNumbers
  <2>6. RankIn(Sight, r) >= page * PageSize => (counted # Pending => page * PageSize < counted)
    BY <2>4, <2>5
  <2>7. QED
    BY <1>1, <1>5, <2>2, <2>3, <2>6 DEF Met
<1>8. ASSUME ~changed
      PROVE  InStep(pages!Matching, walked, page, found', counted, done)
  <2>1. InStep(pages!Matching, walked, page, found, counted, done)
    BY <1>1, <1>3, <1>8 DEF OffsetGood
  <2>2. QED
    BY <1>1, <2>1 DEF InStep
<1>9. OffsetGood'
  BY <1>1, <1>2, <1>5, <1>7, <1>8 DEF OffsetGood
<1>10. CursorGood'
  BY <1>1 DEF CursorGood
<1>11. QED
  BY <1>1, <1>2, <1>3, <1>6, <1>9, <1>10 DEF WalkIInv

LEMMA WalkCounts ==
  ASSUME WalkIInv, pages!Count, UNCHANGED <<mode, includeDeleted>>
  PROVE  WalkIInv'
<1>1. /\ mode = "offset" /\ ~done /\ counted = Pending
      /\ counted' = Len(pages!Matching)
      /\ UNCHANGED <<table, cursor, page, found, walked, done, mode, includeDeleted>>
      /\ UNCHANGED <<steady, removed, changed, torn, stray>>
  BY DEF pages!Count, pages!history
<1>2. Sight' = Sight /\ (pages!Matching)' = pages!Matching
  BY <1>1, SightStays
<1>3. pages!TypeOK /\ steady \subseteq Sight /\ OffsetGood
  BY DEF WalkIInv
<1>4. /\ Answered(pages!Matching, Sight) /\ Sight \in SUBSET Rows
      /\ page \in Nat \ {0} /\ page * PageSize \in Nat
  BY <1>3, MatchingGood, OffsetTypes, PageNumbers
<1>5. counted' = Cardinality(Sight) /\ counted' \in Nat /\ counted' # Pending
  BY <1>1, <1>4, PageConstants DEF Answered
<1>6. (pages!TypeOK)'
  BY <1>1, <1>3, <1>5 DEF pages!TypeOK
<1>7. ASSUME ~removed, ~torn, NEW r \in steady
      PROVE  Met(Sight, r, walked, page, found, counted', done)
  <2>1. Met(Sight, r, walked, page, found, counted, done)
    BY <1>1, <1>3, <1>7 DEF OffsetGood
  <2>2. r \in Sight
    BY <1>3
  <2>3. RankIn(Sight, r) < counted' /\ RankIn(Sight, r) \in Nat
    BY <1>4, <1>5, <2>2, RankType
  <2>4. RankIn(Sight, r) >= page * PageSize => page * PageSize < counted'
    BY <1>4, <1>5, <2>3
  <2>5. QED
    BY <1>1, <2>1, <2>4 DEF Met
<1>8. ASSUME ~changed
      PROVE  InStep(pages!Matching, walked, page, found, counted', done)
  <2>1. InStep(pages!Matching, walked, page, found, counted, done)
    BY <1>1, <1>3, <1>8 DEF OffsetGood
  <2>2. QED
    BY <1>1, <2>1 DEF InStep
<1>9. OffsetGood'
  BY <1>1, <1>2, <1>5, <1>7, <1>8 DEF OffsetGood
<1>10. CursorGood'
  BY <1>1 DEF CursorGood
<1>11. QED
  BY <1>1, <1>2, <1>3, <1>6, <1>9, <1>10 DEF WalkIInv

LEMMA WalkByNumber ==
  ASSUME WalkIInv, pages!OffsetPage, UNCHANGED <<mode, includeDeleted>>
  PROVE  WalkIInv'
<1>1. /\ found # Pending /\ counted # Pending
      /\ walked' = walked \o found /\ found' = Pending /\ counted' = Pending
      /\ done' = (page >= pages!TotalPages(counted))
      /\ page' = IF done' THEN page ELSE page + 1
      /\ UNCHANGED <<table, cursor, mode, includeDeleted>>
      /\ UNCHANGED <<steady, removed, changed, torn, stray>>
  BY DEF pages!OffsetPage, pages!history
<1>2. Sight' = Sight /\ (pages!Matching)' = pages!Matching
  BY <1>1, SightStays
<1>3. pages!TypeOK /\ steady \subseteq Sight /\ OffsetGood /\ CursorGood
  BY DEF WalkIInv
<1>. DEFINE M == pages!Matching
<1>4. /\ Answered(M, Sight) /\ Sight \in SUBSET Rows
      /\ page \in Nat \ {0} /\ counted \in Nat /\ found \in Seq(Rows) /\ walked \in Seq(Rows)
      /\ done \in BOOLEAN
  BY <1>1, <1>3, MatchingGood, OffsetTypes
<1>5. mode = "offset" /\ done = FALSE
  <2>1. mode = "offset"
    BY <1>1, <1>3, OffsetTypes DEF CursorGood
  <2>2. QED
    BY <1>1, <1>3, <1>4, <2>1 DEF OffsetGood
<1>6. /\ (page - 1) * PageSize \in Nat /\ page * PageSize \in Nat
      /\ (page - 1) * PageSize + PageSize = page * PageSize
      /\ ((page + 1) - 1) * PageSize = page * PageSize
  BY <1>4, PageNumbers
<1>7. done' \in BOOLEAN /\ (done' <=> page * PageSize >= counted)
  <2>1. page >= pages!TotalPages(counted) <=> page * PageSize >= counted
    BY <1>4, LastPage
  <2>2. done' \in BOOLEAN /\ (done' <=> page >= pages!TotalPages(counted))
    <3>. DEFINE last == page >= pages!TotalPages(counted)
    <3>1. done' = last /\ last \in BOOLEAN
      BY <1>1
    <3>. HIDE DEF last
    <3>2. done' \in BOOLEAN /\ (done' <=> last)
      BY <3>1
    <3>3. QED
      BY <3>2 DEF last
  <2>3. QED
    BY <2>1, <2>2
<1>8. page' \in Nat \ {0} /\ (~done' => (page' - 1) * PageSize = page * PageSize)
  BY <1>1, <1>4, <1>6
<1>9. walked' \in Seq(Rows) /\ ToSet(walked') = ToSet(walked) \cup ToSet(found)
  BY <1>1, <1>4, ConcatRange
<1>10. (pages!TypeOK)'
  BY <1>1, <1>3, <1>7, <1>8, <1>9 DEF pages!TypeOK
<1>11. ASSUME ~removed, ~torn, NEW r \in steady
       PROVE  Met(Sight, r, walked', page', Pending, Pending, done')
  <2>1. Met(Sight, r, walked, page, found, counted, done)
    BY <1>3, <1>5, <1>11 DEF OffsetGood
  <2>2. CASE r \in ToSet(walked) \/ r \in ToSet(found)
    BY <1>9, <2>2 DEF Met
  <2>3. CASE RankIn(Sight, r) >= page * PageSize /\ page * PageSize < counted
    <3>1. ~done'
      BY <1>4, <1>6, <1>7, <2>3
    <3>2. QED
      BY <1>8, <2>3, <3>1 DEF Met
  <2>4. QED
    BY <1>1, <2>1, <2>2, <2>3 DEF Met
<1>12. ASSUME ~changed
       PROVE  InStep(M, walked', page', Pending, Pending, done')
  <2>1. /\ walked = pages!FirstOf((page - 1) * PageSize, M)
        /\ found = pages!FirstOf(PageSize, pages!After((page - 1) * PageSize, M))
        /\ counted = Len(M)
    BY <1>1, <1>3, <1>5, <1>12 DEF OffsetGood, InStep
  <2>. DEFINE P == (page - 1) * PageSize
  <2>2. P \in Nat /\ P + PageSize = page * PageSize
    BY <1>6
  <2>3. walked' = pages!FirstOf(page * PageSize, M)
    <3>. HIDE DEF M
    <3>1. walked = pages!FirstOf(P, M) /\ found = pages!FirstOf(PageSize, pages!After(P, M))
      BY <2>1
    <3>. HIDE DEF P
    <3>2. pages!FirstOf(P, M) \o found = pages!FirstOf(P + PageSize, M)
      BY <1>4, <2>2, <3>1, FoundGood
    <3>3. QED
      BY <1>1, <2>2, <3>1, <3>2
  <2>4. M \in Seq(Rows)
    BY <1>4 DEF Answered
  <2>. HIDE DEF M
  <2>5. CASE done'
    <3>1. page * PageSize >= Len(M)
      BY <1>7, <2>1, <2>5
    <3>2. walked' = M
      BY <1>6, <2>3, <2>4, <3>1, FirstOfAll
    <3>3. QED
      BY <2>5, <3>2 DEF InStep
  <2>6. CASE ~done'
    <3>1. page * PageSize < Len(M)
      BY <1>4, <1>6, <1>7, <2>1, <2>6
    <3>2. QED
      BY <1>8, <2>3, <2>6, <3>1 DEF InStep
  <2>7. QED
    BY <2>5, <2>6
<1>13. OffsetGood'
  BY <1>1, <1>2, <1>11, <1>12 DEF OffsetGood
<1>14. CursorGood'
  BY <1>1, <1>5 DEF CursorGood
<1>15. QED
  BY <1>1, <1>2, <1>3, <1>10, <1>13, <1>14 DEF WalkIInv
-----------------------------------------------------------------------------
LEMMA WalkWritten ==
  ASSUME WalkIInv, NEW r \in Rows, NEW s \in pages!States, pages!Write(r, s),
         UNCHANGED <<mode, includeDeleted>>
  PROVE  WalkIInv'
<1>1. /\ ~done /\ table' = [table EXCEPT ![r] = s]
      /\ UNCHANGED <<cursor, page, found, counted, walked, done, stray, mode, includeDeleted>>
  BY DEF pages!Write, pages!progress
<1>2. /\ steady' = steady \cap Sight'
      /\ removed' = (removed \/ ~(Sight \subseteq Sight'))
      /\ changed' = (changed \/ Sight # Sight')
      /\ torn' = (torn \/ (Sight # Sight' /\ (found = Pending) # (counted = Pending)))
  <2>1. Sight' = pages!SightOf(table')
    BY <1>1 DEF Sight, pages!SightOf
  <2>2. QED
    BY <2>1 DEF pages!Write, Sight
<1>3. /\ pages!TypeOK /\ steady \subseteq Sight /\ OffsetGood /\ CursorGood
      /\ Sight \in SUBSET Rows /\ Sight' \in SUBSET Rows
  BY DEF WalkIInv, Sight, pages!SightOf
<1>4. /\ page \in Nat \ {0} /\ (page - 1) * PageSize \in Nat /\ page * PageSize \in Nat
  BY <1>3, OffsetTypes, PageNumbers
<1>5. /\ removed \in BOOLEAN /\ removed' \in BOOLEAN
      /\ ~removed' => ~removed /\ Sight \subseteq Sight'
  <2>1. removed \in BOOLEAN
    BY <1>3, OffsetTypes
  <2>2. CASE removed
    BY <1>2, <2>1, <2>2
  <2>3. CASE ~removed /\ Sight \subseteq Sight'
    BY <1>2, <2>1, <2>3
  <2>4. CASE ~removed /\ ~(Sight \subseteq Sight')
    BY <1>2, <2>1, <2>4
  <2>5. QED
    BY <2>1, <2>2, <2>3, <2>4
<1>6. /\ changed \in BOOLEAN /\ changed' \in BOOLEAN
      /\ ~changed' => ~changed /\ Sight' = Sight
  <2>1. changed \in BOOLEAN
    BY <1>3, OffsetTypes
  <2>2. QED
    BY <1>2, <2>1
<1>7. /\ torn \in BOOLEAN /\ torn' \in BOOLEAN
      /\ ~torn' => /\ ~torn
                   /\ counted # Pending /\ found = Pending => Sight' = Sight
  <2>1. torn \in BOOLEAN
    BY <1>3, OffsetTypes
  <2>. DEFINE between == Sight # Sight' /\ (found = Pending) # (counted = Pending)
  <2>2. torn' = (torn \/ between)
    BY <1>2
  <2>3. between \in BOOLEAN
    OBVIOUS
  <2>4. counted # Pending /\ found = Pending /\ Sight' # Sight => between
    OBVIOUS
  <2>. HIDE DEF between
  <2>5. QED
    BY <2>1, <2>2, <2>3, <2>4
<1>8. (pages!TypeOK)'
  <2>1. table' \in [Rows -> pages!States]
    BY <1>1, <1>3 DEF pages!TypeOK
  <2>2. steady' \subseteq Rows
    BY <1>2, <1>3
  <2>3. {removed', changed', torn', stray'} \subseteq BOOLEAN
    BY <1>1, <1>3, <1>5, <1>6, <1>7 DEF pages!TypeOK
  <2>4. QED
    BY <1>1, <1>3, <2>1, <2>2, <2>3 DEF pages!TypeOK
<1>9. CursorGood'
  <2>1. SUFFICES ASSUME mode = "cursor"
                 PROVE  /\ found = Pending /\ counted = Pending
                        /\ Walked(walked, cursor, done)
                        /\ ~stray => Covered(steady', walked, cursor, done)
                        /\ ~changed' => UpTo(Sight', walked, cursor, done)
    BY <1>1 DEF CursorGood
  <2>2. /\ found = Pending /\ counted = Pending /\ Walked(walked, cursor, done)
        /\ ~stray => Covered(steady, walked, cursor, done)
        /\ ~changed => UpTo(Sight, walked, cursor, done)
    BY <1>3, <2>1 DEF CursorGood
  <2>3. Covered(steady, walked, cursor, done) => Covered(steady', walked, cursor, done)
    BY <1>2 DEF Covered
  <2>4. QED
    BY <1>6, <2>2, <2>3
<1>10. ASSUME mode = "offset", ~removed', ~torn'
       PROVE  /\ counted # Pending /\ found = Pending => counted = Cardinality(Sight')
              /\ \A q \in steady' : Met(Sight', q, walked, page, found, counted, done)
  <2>1. /\ ~removed /\ ~torn /\ Sight \subseteq Sight'
        /\ counted # Pending /\ found = Pending => Sight' = Sight
    BY <1>5, <1>7, <1>10
  <2>2. /\ counted # Pending /\ found = Pending => counted = Cardinality(Sight)
        /\ \A q \in steady : Met(Sight, q, walked, page, found, counted, done)
    BY <1>3, <1>10, <2>1 DEF OffsetGood
  <2>3. ASSUME NEW q \in steady'
        PROVE  Met(Sight', q, walked, page, found, counted, done)
    <3>1. q \in Sight /\ Met(Sight, q, walked, page, found, counted, done)
      BY <1>2, <1>3, <2>2, <2>3
    <3>. DEFINE S == Sight
                T == Sight'
    <3>2. S \in SUBSET Rows /\ T \in SUBSET Rows /\ S \subseteq T /\ q \in S /\ q \in T
      BY <1>3, <2>1, <3>1
    <3>. HIDE DEF S, T
    <3>3. RankIn(S, q) \in Nat /\ RankIn(T, q) \in Nat /\ RankIn(S, q) <= RankIn(T, q)
      BY <3>2, RankType
    <3>4. Met(S, q, walked, page, found, counted, done)
      BY <3>1 DEF S
    <3>5. /\ RankIn(S, q) >= (page - 1) * PageSize => RankIn(T, q) >= (page - 1) * PageSize
          /\ RankIn(S, q) >= page * PageSize => RankIn(T, q) >= page * PageSize
      <4>. DEFINE lo == (page - 1) * PageSize
                  hi == page * PageSize
      <4>1. lo \in Nat /\ hi \in Nat
        BY <1>4
      <4>. HIDE DEF lo, hi
      <4>2. /\ RankIn(S, q) >= lo => RankIn(T, q) >= lo
            /\ RankIn(S, q) >= hi => RankIn(T, q) >= hi
        BY <3>3, <4>1
      <4>3. QED
        BY <4>2 DEF lo, hi
    <3>6. Met(T, q, walked, page, found, counted, done)
      BY <3>4, <3>5 DEF Met
    <3>7. QED
      BY <3>6 DEF T
  <2>4. QED
    BY <2>1, <2>2, <2>3
<1>11. ASSUME mode = "offset", ~changed'
       PROVE  InStep((pages!Matching)', walked, page, found, counted, done)
  <2>1. Sight' = Sight /\ InStep(pages!Matching, walked, page, found, counted, done)
    BY <1>3, <1>6, <1>11 DEF OffsetGood
  <2>2. (pages!Matching)' = pages!Matching
    <3>1. pages!Matching = pages!Ascending(Sight) /\ (pages!Matching)' = pages!Ascending(Sight')
      BY DEF pages!Matching, Sight
    <3>2. QED
      BY <2>1, <3>1
  <2>3. QED
    BY <2>1, <2>2
<1>12. OffsetGood'
  BY <1>1, <1>10, <1>11 DEF OffsetGood
<1>13. QED
  BY <1>2, <1>8, <1>9, <1>12 DEF WalkIInv

LEMMA WalkStep ==
  ASSUME WalkIInv, [pages!Next]_pageVars
  PROVE  WalkIInv'
<1>1. CASE pages!CursorPage /\ UNCHANGED <<mode, includeDeleted>>
  BY <1>1, WalkByCursor
<1>2. CASE pages!FindMany /\ UNCHANGED <<mode, includeDeleted>>
  BY <1>2, WalkFinds
<1>3. CASE pages!Count /\ UNCHANGED <<mode, includeDeleted>>
  BY <1>3, WalkCounts
<1>4. CASE pages!OffsetPage /\ UNCHANGED <<mode, includeDeleted>>
  BY <1>4, WalkByNumber
<1>5. ASSUME UNCHANGED <<mode, includeDeleted>>,
             NEW r \in Rows, NEW s \in pages!States, pages!Write(r, s)
      PROVE  WalkIInv'
  BY <1>5, WalkWritten
<1>6. CASE UNCHANGED pageVars
  <2>1. /\ UNCHANGED <<table, mode, includeDeleted>>
        /\ UNCHANGED <<cursor, page, found, counted, walked, done>>
        /\ UNCHANGED <<steady, removed, changed, torn, stray>>
    BY <1>6 DEF pageVars
  <2>2. Sight' = Sight /\ (pages!Matching)' = pages!Matching
    BY <2>1, SightStays
  <2>3. (pages!TypeOK)'
    BY <2>1 DEF WalkIInv, pages!TypeOK
  <2>4. CursorGood'
    BY <2>1, <2>2 DEF WalkIInv, CursorGood
  <2>5. OffsetGood'
    BY <2>1, <2>2 DEF WalkIInv, OffsetGood
  <2>6. QED
    BY <2>1, <2>2, <2>3, <2>4, <2>5 DEF WalkIInv
<1>7. QED
  <2>1. ASSUME pages!Next PROVE WalkIInv'
    <3>1. pages!Step /\ UNCHANGED <<mode, includeDeleted>>
      BY <2>1 DEF pages!Next
    <3>2. CASE pages!Read
      BY <1>1, <1>2, <1>3, <1>4, <3>1, <3>2 DEF pages!Read
    <3>3. ASSUME NEW r \in Rows, pages!Insert(r) \/ pages!HardDelete(r)
                                 \/ pages!SoftDelete(r) \/ pages!Restore(r)
          PROVE  WalkIInv'
      <4>1. \E s \in pages!States : pages!Write(r, s)
        BY <3>3 DEF pages!Insert, pages!HardDelete, pages!SoftDelete, pages!Restore,
                    pages!States
      <4>2. QED
        BY <1>5, <3>1, <4>1
    <3>4. QED
      BY <3>1, <3>2, <3>3 DEF pages!Step
  <2>2. QED
    BY <1>6, <2>1

LEMMA WalkIInvServes == WalkIInv => WalkServesAll
<1>1. SUFFICES ASSUME WalkIInv PROVE WalkServesAll
  OBVIOUS
<1>2. /\ pages!TypeOK /\ steady \subseteq Sight /\ CursorGood /\ OffsetGood
      /\ mode \in {"cursor", "offset"} /\ walked \in Seq(Rows)
  BY <1>1, OffsetTypes DEF WalkIInv
<1>3. mode = "cursor" => \A i, j \in DOMAIN walked : i < j => walked[i] < walked[j]
  BY <1>2 DEF CursorGood, Walked, Rising
<1>4. ASSUME done, IF mode = "cursor" THEN ~stray ELSE ~removed /\ ~torn
      PROVE  steady \subseteq ToSet(walked)
  <2>1. CASE mode = "cursor"
    BY <1>2, <1>4, <2>1 DEF CursorGood, Covered
  <2>2. CASE mode = "offset"
    <3>1. \A r \in steady : Met(Sight, r, walked, page, found, counted, done)
      BY <1>2, <1>4, <2>2 DEF OffsetGood
    <3>2. QED
      BY <1>4, <3>1 DEF Met
  <2>3. QED
    BY <1>2, <2>1, <2>2
<1>5. ASSUME done, ~changed
      PROVE  walked = pages!Matching
  <2>1. CASE mode = "cursor"
    <3>. DEFINE M == pages!Matching
    <3>1. Answered(M, Sight) /\ Sight \in SUBSET Rows
      BY MatchingGood
    <3>. HIDE DEF M
    <3>2. M \in Seq(Rows) /\ ToSet(M) = Sight /\ Rising(M)
      BY <3>1 DEF Answered
    <3>3. Rising(walked) /\ UpTo(Sight, walked, cursor, done)
      BY <1>2, <1>5, <2>1 DEF CursorGood, Walked
    <3>4. ToSet(walked) = Sight
      BY <1>5, <3>3 DEF UpTo
    <3>5. /\ \A i, j \in DOMAIN M : i < j => M[i] < M[j]
          /\ \A i, j \in DOMAIN walked : i < j => walked[i] < walked[j]
      BY <3>2, <3>3 DEF Rising
    <3>6. Rows \in SUBSET Int
      BY PageConstants
    <3>7. walked = M
      BY <1>2, <3>2, <3>4, <3>5, <3>6, OneAscending
    <3>8. QED
      BY <3>7 DEF M
  <2>2. CASE mode = "offset"
    BY <1>2, <1>5, <2>2 DEF OffsetGood, InStep
  <2>3. QED
    BY <1>2, <2>1, <2>2
<1>6. pages!ToSet(walked) = ToSet(walked)
  BY PageOperators
<1>7. QED
  BY <1>2, <1>3, <1>4, <1>5, <1>6 DEF WalkServesAll, pages!WalkServesAll

(* paginateCursor() and paginateOffset(): a walk through all pages, while    *)
(* others write, serves no row twice nor out of order by cursor, misses no   *)
(* row that was there all the time unless a cursor's row went out of sight   *)
(* or, by number, a row did or the two queries of a page disagree, and every *)
(* row once over a table that does not change; for every table, page size    *)
(* and order of reads and writes.                                            *)
THEOREM PagesServeAll == MCSpec => []WalkServesAll
<1>1. MCInit => WalkIInv
  BY WalkInit DEF MCInit
<1>2. WalkIInv /\ [MCNext /\ UNCHANGED part]_<<part, pageVars, transactionVars>> => WalkIInv'
  <2>1. [MCNext /\ UNCHANGED part]_<<part, pageVars, transactionVars>> =>
          [pages!Next]_pageVars
    BY DEF MCNext
  <2>2. QED
    BY <2>1, WalkStep
<1>3. QED
  BY <1>1, <1>2, WalkIInvServes, PTL DEF MCSpec
=============================================================================
