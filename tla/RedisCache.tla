------------------------------ MODULE RedisCache ------------------------------
(* The cache of packages/redis, for one key: get, set, delete and getOrSet   *)
(* of several application instances.  A value is abstracted to its age: the  *)
(* ticks since it was read from its source.  Redis is external: GET, SET     *)
(* with or without EX, DEL, and the expiry of keys.                          *)
EXTENDS Naturals

CONSTANTS Users,
          Ttls,         \* the ttlSeconds a caller may give, in ticks
          DefaultTtl,   \* defaultTtlSeconds, 0: none
          ComputeTime,  \* bound: ticks from reading the source to the SET
          Absent,       \* there is no key, and undefined
          Forever,      \* the key has no expiry
          Idle,         \* the instance has no SET to come
          NoTtl,        \* no ttlSeconds given
          NoDelete      \* no delete() to hold against an answer

CacheAssumption ==
  /\ Ttls \subseteq Nat /\ DefaultTtl \in Nat /\ ComputeTime \in Nat
  /\ \E t \in Ttls \cup {DefaultTtl} : \A u \in Ttls \cup {DefaultTtl} : u <= t

VARIABLES entry,    \* the key in Redis: Absent or [left, age]
          writing,  \* of each instance: the value of its SET to come
          answer,   \* history: what get() or getOrSet() just returned
          deleted   \* history: ticks since a delete() no SET was on its way at

vars == <<entry, writing, answer, deleted>>

Longest == CHOOSE t \in Ttls \cup {DefaultTtl} : \A u \in Ttls \cup {DefaultTtl} : u <= t
Oldest == ComputeTime + Longest + 1

Entries == [left : {Forever} \cup 1 .. Longest, age : 0 .. Oldest]

TypeOK ==
  /\ entry \in {Absent} \cup Entries
  /\ writing \in [Users -> {Idle} \cup [ttl : Ttls \cup {NoTtl}, age : 0 .. ComputeTime]]
  /\ answer \in {Absent} \cup Entries
  /\ deleted \in {NoDelete} \cup 0 .. Oldest

Init ==
  /\ entry = Absent
  /\ writing = [u \in Users |-> Idle]
  /\ answer = Absent
  /\ deleted = NoDelete
-----------------------------------------------------------------------------
(* Faulty variants of the operators below, used to check that the            *)
(* properties can fail.                                                      *)
WithoutPrefix == entry
-----------------------------------------------------------------------------
(* ttlSeconds ?? defaultTtl.                                                 *)
Given(ttl) == IF ttl = NoTtl THEN DefaultTtl ELSE ttl

(* A time to live of 0 is no time to live.                                   *)
Lifetime(ttl) == IF Given(ttl) = 0 THEN Forever ELSE Given(ttl)

(* What DEL of the prefixed key leaves.                                      *)
AfterDel == Absent

Write(u, ttl) == writing' = [writing EXCEPT ![u] = [ttl |-> ttl, age |-> 0]]

Get(u) ==
  /\ writing[u] = Idle
  /\ answer' = entry
  /\ UNCHANGED <<entry, writing, deleted>>

(* set() of a value just read.                                               *)
Set(u, ttl) ==
  /\ writing[u] = Idle
  /\ Write(u, ttl)
  /\ answer' = Absent
  /\ UNCHANGED <<entry, deleted>>

(* getOrSet(): a hit is returned, for a miss the factory starts.             *)
GetOrSet(u, ttl) ==
  /\ writing[u] = Idle
  /\ IF entry = Absent THEN Write(u, ttl) ELSE UNCHANGED writing
  /\ answer' = entry
  /\ UNCHANGED <<entry, deleted>>

(* Redis serves the SET, whatever happened to the key since the miss.        *)
Serve(u) ==
  /\ writing[u] # Idle
  /\ entry' = [left |-> Lifetime(writing[u].ttl), age |-> writing[u].age]
  /\ writing' = [writing EXCEPT ![u] = Idle]
  /\ answer' = Absent
  /\ UNCHANGED deleted

(* The factory throws, the SET is lost or the instance stops.                *)
Fault(u) ==
  /\ writing[u] # Idle
  /\ writing' = [writing EXCEPT ![u] = Idle]
  /\ answer' = Absent
  /\ UNCHANGED <<entry, deleted>>

Delete ==
  /\ entry' = AfterDel
  /\ deleted' = IF \A u \in Users : writing[u] = Idle THEN 0 ELSE deleted
  /\ answer' = Absent
  /\ UNCHANGED writing

Older(age, bound) == IF age < bound THEN age + 1 ELSE bound

Tick ==
  /\ \A u \in Users : writing[u] # Idle => writing[u].age < ComputeTime
  /\ entry' = IF entry = Absent \/ entry.left = 1 THEN Absent
              ELSE [left |-> IF entry.left = Forever THEN Forever ELSE entry.left - 1,
                    age |-> Older(entry.age, Oldest)]
  /\ writing' = [u \in Users |-> IF writing[u] = Idle THEN Idle
                                 ELSE [writing[u] EXCEPT !.age = @ + 1]]
  /\ deleted' = IF deleted = NoDelete THEN NoDelete ELSE Older(deleted, Oldest)
  /\ answer' = Absent

Next ==
  \/ \E u \in Users : Get(u) \/ Serve(u) \/ Fault(u)
  \/ \E u \in Users, ttl \in Ttls \cup {NoTtl} : Set(u, ttl) \/ GetOrSet(u, ttl)
  \/ Delete \/ Tick

Spec == Init /\ [][Next]_vars
-----------------------------------------------------------------------------
(* No instance is answered, of a key that expires, with a value older than   *)
(* the time it took to write it and to expire, however misses, sets and      *)
(* expirations overlap; nor, after a delete() that overlapped no set() or    *)
(* getOrSet(), with a value read before it.  A getOrSet() that missed before *)
(* the delete and sets after it does bring the old value back.               *)
NoStaleAnswer ==
  /\ TypeOK
  /\ answer # Absent =>
       /\ answer.left # Forever => answer.left + answer.age <= ComputeTime + Longest
       /\ deleted # NoDelete => answer.age <= deleted
=============================================================================
