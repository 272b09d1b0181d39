-------------------------------- MODULE Cache --------------------------------
(* The in-memory cache of packages/cache: a Map in insertion order, three    *)
(* eviction policies, lazy expiry, and getOrSet, whose factory runs while    *)
(* others use the cache.  A value is abstracted to its age: the ticks since  *)
(* it was read from its source.                                              *)
EXTENDS Naturals, Collections

CONSTANTS Keys, Callers,
          MaxSize,     \* maxSize
          Ttls,        \* the ttlMs a caller may give, in ticks; 0: no expiry
          ComputeTime, \* bound: ticks a factory takes at most
          MaxHits,     \* bound: reads of one entry that are counted (LFU)
          Forever,     \* expiresAt is undefined
          Idle,        \* the caller is not in getOrSet
          Nothing      \* no value was returned

ASSUME CacheAssumption ==
  /\ MaxSize \in Nat \ {0} /\ ComputeTime \in Nat /\ MaxHits \in Nat
  /\ Ttls \subseteq Nat /\ \E t \in Ttls : \A u \in Ttls : u <= t
  /\ Forever \notin Nat /\ Nothing \notin Nat

VARIABLES policy,     \* policy, chosen by the constructor for good
          store,      \* [order, entry]: the Map's iteration order and entries
          computing,  \* getOrSet of each caller: Idle or [key, age]
          operation,  \* history: the last operation
          served,     \* history: age of the value it returned, if that expires
          recent,     \* history: keys by last use (LRU) or last set (TTL)
          hits,       \* history: reads of each key since it was set (LFU)
          asked       \* history: keys that has() found and so used since then

history == <<operation, served, recent, hits, asked>>
vars == <<policy, store, computing, history>>

Policies == {"LRU", "LFU", "TTL"}
Longest == CHOOSE t \in Ttls : \A u \in Ttls : u <= t
Oldest == ComputeTime + Longest + 1

Entries == [left : {Forever} \cup 0 .. Longest + 1, frequency : 1 .. MaxHits + 1,
            age : 0 .. Oldest]

(* The store is a map: every key once, in some order, never over maxSize.    *)
TypeOK ==
  /\ policy \in Policies
  /\ DOMAIN store = {"order", "entry"}
  /\ IsInjective(store.order) /\ Len(store.order) <= MaxSize
  /\ store.entry \in [ToSet(store.order) -> Entries]
  /\ computing \in [Callers -> {Idle} \cup [key : Keys, age : 0 .. ComputeTime]]
  /\ operation \in {"none", "get", "has", "set", "drop", "tick"}
  /\ served \in {Nothing} \cup 0 .. Oldest
  /\ ToSet(recent) \subseteq Keys /\ hits \in [Keys -> 0 .. MaxHits]
  /\ asked \subseteq Keys

Init ==
  /\ policy \in Policies
  /\ store = [order |-> <<>>, entry |-> <<>>]
  /\ computing = [c \in Callers |-> Idle]
  /\ operation = "none" /\ served = Nothing
  /\ recent = <<>> /\ hits = [k \in Keys |-> 0] /\ asked = {}
-----------------------------------------------------------------------------
(* Faulty variants of the operators below, used to check that the            *)
(* properties can fail.                                                      *)
OneTooMany(m) == Len(m.order) > MaxSize
ExpiryRenewed(e) == [e EXCEPT !.left = IF @ = Forever THEN @ ELSE Longest + 1]
NotPurged(m) == m
NotMoved(k) ==
  IF policy = "LFU" THEN [store EXCEPT !.entry[k].frequency = @ + 1] ELSE store
-----------------------------------------------------------------------------
(* The Map and its entries.                                                  *)
Expired(e) == e.left = 0

Touched(e) == e

IsFull(m) == Len(m.order) >= MaxSize

Inserted(m, k, e) ==
  [order |-> IF k \in DOMAIN m.entry THEN m.order ELSE Append(m.order, k),
   entry |-> [j \in DOMAIN m.entry \cup {k} |-> IF j = k THEN e ELSE m.entry[j]]]

Without(m, keys) ==
  [order |-> Kept(m.order, DOMAIN m.entry \ keys),
   entry |-> Restrict(m.entry, DOMAIN m.entry \ keys)]

ExpiredKeys(m) == {k \in DOMAIN m.entry : Expired(m.entry[k])}

(* purgeExpired(): only the TTL policy looks for expired entries.            *)
Purged(m) == IF policy = "TTL" THEN Without(m, ExpiredKeys(m)) ELSE m

LeastFrequent(m) ==
  Kept(m.order, {k \in DOMAIN m.entry : \A j \in DOMAIN m.entry :
                   m.entry[k].frequency <= m.entry[j].frequency})

(* evict(): the first key of the Map, or the first of the least frequent.    *)
Victim(m) == IF policy = "LFU" THEN Head(LeastFrequent(m)) ELSE Head(m.order)

Expiry(ttl) == IF ttl = 0 THEN Forever ELSE ttl + 1

(* The Map after set(key, value, ttl) of a value that old.                   *)
AfterSet(k, age, ttl) ==
  LET purged == Purged(store)
      room == IF k \in DOMAIN purged.entry THEN Without(purged, {k})
              ELSE IF IsFull(purged) THEN Without(purged, {Victim(purged)})
              ELSE purged
  IN  Inserted(room, k, [left |-> Expiry(ttl), frequency |-> 1, age |-> age])

Hit(k) == k \in DOMAIN store.entry /\ ~Expired(store.entry[k])

(* The Map after a get(key) that found its entry live.                       *)
AfterHit(k) ==
  LET e == store.entry[k]
  IN  CASE policy = "LRU" -> Inserted(Without(store, {k}), k, Touched(e))
        [] policy = "LFU" -> [store EXCEPT !.entry[k].frequency = @ + 1]
        [] OTHER -> store
-----------------------------------------------------------------------------
(* What the histories remember of the keys that are in the Map.  A use is a  *)
(* set, a get or a hit of getOrSet, as the README has it.                    *)
Remember(used, count, queried) ==
  /\ recent' = IF policy = "LFU" THEN <<>>
               ELSE Kept(Kept(recent, Keys \ ToSet(used)) \o used, DOMAIN store'.entry)
  /\ hits' = [k \in Keys |-> IF k \in DOMAIN store'.entry THEN count[k] ELSE 0]
  /\ asked' = queried \cap DOMAIN store'.entry

Put(k, age, ttl) ==
  /\ store' = AfterSet(k, age, ttl)
  /\ operation' = "set" /\ served' = Nothing
  /\ Remember(<<k>>, [hits EXCEPT ![k] = 0], asked \ {k})

Set(k, ttl) == Put(k, 0, ttl) /\ UNCHANGED computing

(* What get finds: a live entry is used, an expired one goes.                *)
Find(k) ==
  /\ Hit(k)
  /\ policy = "LFU" => store.entry[k].frequency <= MaxHits
  /\ store' = AfterHit(k)
  /\ served' = IF store.entry[k].left = Forever THEN Nothing
                ELSE store.entry[k].age
  /\ UNCHANGED computing

Miss(k) ==
  /\ ~Hit(k)
  /\ store' = Without(store, {k})
  /\ served' = Nothing
  /\ Remember(<<>>, hits, asked)

Used(k) ==
  Remember(IF policy = "LRU" THEN <<k>> ELSE <<>>,
           IF policy = "LFU" THEN [hits EXCEPT ![k] = @ + 1] ELSE hits,
           IF policy = "LRU" THEN asked \ {k} ELSE asked)

AskedFor(k) ==
  Remember(<<>>, hits, IF policy = "TTL" THEN asked ELSE asked \cup {k})

Get(k) ==
  /\ \/ Find(k) /\ Used(k)
     \/ Miss(k) /\ UNCHANGED computing
  /\ operation' = "get"

(* has calls get: the Map changes alike, though no use was made.             *)
Has(k) ==
  /\ \/ Find(k) /\ AskedFor(k)
     \/ Miss(k) /\ UNCHANGED computing
  /\ operation' = "has"

(* getOrSet: a get, and on a miss the factory, then set.  A hit is Get.      *)
GetOrSet(c, k) ==
  /\ computing[c] = Idle
  /\ Miss(k)
  /\ computing' = [computing EXCEPT ![c] = [key |-> k, age |-> 0]]
  /\ operation' = "get"

Computed(c, ttl) ==
  /\ computing[c] # Idle
  /\ Put(computing[c].key, computing[c].age, ttl)
  /\ computing' = [computing EXCEPT ![c] = Idle]

FactoryThrows(c) ==
  /\ computing[c] # Idle
  /\ computing' = [computing EXCEPT ![c] = Idle]
  /\ operation' = "none" /\ served' = Nothing
  /\ UNCHANGED <<store, recent, hits, asked>>

(* delete and clear.                                                         *)
Drop(keys) ==
  /\ store' = Without(store, keys)
  /\ operation' = "drop" /\ served' = Nothing
  /\ Remember(<<>>, hits, asked)
  /\ UNCHANGED computing

(* A tick of the clock: an entry that is live has one less left.              *)
Older(e) == [e EXCEPT !.left = IF @ \in {Forever, 0} THEN @ ELSE @ - 1,
                      !.age = IF @ = Oldest THEN @ ELSE @ + 1]

Tick ==
  /\ \A c \in Callers : computing[c] # Idle => computing[c].age < ComputeTime
  /\ computing' = [c \in Callers |-> IF computing[c] = Idle THEN Idle
                                     ELSE [computing[c] EXCEPT !.age = @ + 1]]
  /\ store' = [store EXCEPT !.entry = [k \in DOMAIN @ |-> Older(@[k])]]
  /\ operation' = "tick" /\ served' = Nothing
  /\ UNCHANGED <<recent, hits, asked>>

Step ==
  \/ \E k \in Keys : Get(k) \/ Has(k) \/ Drop({k})
  \/ \E k \in Keys, ttl \in Ttls : Set(k, ttl)
  \/ \E c \in Callers, k \in Keys : GetOrSet(c, k)
  \/ \E c \in Callers, ttl \in Ttls : Computed(c, ttl)
  \/ \E c \in Callers : FactoryThrows(c)
  \/ Drop(Keys)
  \/ Tick

Next == Step /\ UNCHANGED policy

Spec == Init /\ [][Next]_vars
-----------------------------------------------------------------------------
(* The store stays within maxSize, and no read returns a value that left its *)
(* source longer ago than the longest ttl and one run of a factory, though   *)
(* reads move entries and a factory may store what it read before the entry  *)
(* was set or deleted.  But for ttl 0.                                       *)
FreshEnough == TypeOK /\ (served # Nothing => served <= ComputeTime + Longest)

Live == DOMAIN store.entry \ ExpiredKeys(store)

Gone == DOMAIN store.entry \ DOMAIN store'.entry

Stays == DOMAIN store.entry \cap DOMAIN store'.entry

(* Before(j, k): j was used (LRU) or set (TTL) before k.                     *)
Before(j, k) ==
  \E a, b \in DOMAIN recent : recent[a] = j /\ recent[b] = k /\ a < b

(* Rightly(k, j): k, not j, goes: it is less recently used, read less often  *)
(* since it was set, or set earlier, as the policy says; under TTL a live    *)
(* entry goes only when live entries take all the room.                      *)
Rightly(k, j) ==
  CASE policy = "LRU" -> Before(k, j)
    [] policy = "LFU" -> hits[k] <= hits[j]
    [] OTHER -> \/ Expired(store.entry[k])
                \/ Before(k, j) /\ Cardinality(Live) = MaxSize

(* The entry a set() pushes out is, against each that stays, the one its     *)
(* policy names (README, Eviction policies); but an entry that has() was     *)
(* asked for since its last use (LRU) or its set (LFU) may stay in the place *)
(* of one used later or more often: has calls get, which moves or counts it, *)
(* against the README (see HasDoesNotCount).                                 *)
EvictsByPolicy ==
  [][operation' = "set" =>
       \A k \in Gone, j \in Stays \ asked : Rightly(k, j)]_vars

(* What the README says: has() checks existence without side effects beyond  *)
(* expiry checks, so the policy holds against every entry that stays.  The   *)
(* code breaks it: has() moves an LRU entry to the end of the Map and counts *)
(* for an LFU one.                                                           *)
HasDoesNotCount ==
  [][operation' = "set" => \A k \in Gone, j \in Stays : Rightly(k, j)]_vars
=============================================================================
