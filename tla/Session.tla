-------------------------------- MODULE Session --------------------------------
(* One session of packages/auth's SessionManager, in the in-memory store or  *)
(* in packages/redis's RedisSessionStore.  The in-memory store hands out the *)
(* stored record itself, the other one a copy.  A touch is two commands;     *)
(* every command takes effect in the tick it is sent.                        *)
EXTENDS Integers

CONSTANTS Touchers,  \* concurrent calls of touch()
          Ttls,      \* the lifetimes a caller may give, in ticks
          Second,    \* ticks in a second
          Absent,    \* there is no record
          NoKeyTtl,  \* the store does not expire the record itself
          Nothing    \* nothing was returned

SessionAssumption ==
  /\ Ttls \subseteq Nat /\ \E t \in Ttls : \A u \in Ttls : u <= t
  /\ Second \in Nat \ {0}
  /\ Absent \notin BOOLEAN /\ NoKeyTtl \notin Nat

VARIABLES store,      \* "memory" or "redis", given to the constructor
          record,     \* [left, keyTtl, data]: left = expiresAt - now
          created,    \* create() ran: its random id is not made again
          touching,   \* of each toucher: Absent, or the data it got
          written,    \* history: a request wrote to req.session
          destroyed,  \* history: destroy() ran, and overlapped no touch()
          served      \* history: what get() just returned

vars == <<store, record, created, touching, written, destroyed, served>>

Longest == CHOOSE t \in Ttls : \A u \in Ttls : u <= t
InTicks(seconds) == seconds * Second

Records == [left : -2 * Second .. Longest,
            keyTtl : {NoKeyTtl} \cup 1 .. Longest + 2 * Second,
            data : BOOLEAN]

TypeOK ==
  /\ store \in {"memory", "redis"}
  /\ record \in {Absent} \cup Records
  /\ record # Absent => (record.keyTtl = NoKeyTtl <=> store = "memory")
  /\ created \in BOOLEAN /\ written \in BOOLEAN /\ destroyed \in BOOLEAN
  /\ touching \in [Touchers -> {Absent} \cup BOOLEAN]
  /\ served \in {Nothing} \cup Records

Init ==
  /\ store \in {"memory", "redis"}
  /\ record = Absent /\ created = FALSE
  /\ touching = [h \in Touchers |-> Absent]
  /\ written = FALSE /\ destroyed = FALSE /\ served = Nothing
-----------------------------------------------------------------------------
(* Faulty variants of the operators below, used to check that the            *)
(* properties can fail.                                                      *)
NeverExpired(r) == FALSE
GotOrEmpty == record # Absent /\ ~(store = "memory" /\ record.left < 0) /\ record.data
-----------------------------------------------------------------------------
(* RedisSessionStore.set: Math.max(1, Math.ceil(...)).                       *)
KeySeconds(t) ==
  LET up == (t + Second - 1) \div Second IN IF up < 1 THEN 1 ELSE up

KeyTtl(t) == IF store = "memory" THEN NoKeyTtl ELSE InTicks(KeySeconds(t))

(* InMemorySessionStore.get; RedisSessionStore.get does not look.            *)
Expired(r) == store = "memory" /\ r.left < 0

ByReference == store = "memory"

Found == record # Absent /\ ~Expired(record)

(* What get() leaves in the store: an expired record is deleted.             *)
AfterGet == IF Found THEN record ELSE Absent

NewRecord(ttl, data) == [left |-> ttl, keyTtl |-> KeyTtl(ttl), data |-> data]

Create(ttl) ==
  /\ ~created
  /\ created' = TRUE
  /\ record' = NewRecord(ttl, FALSE)
  /\ served' = Nothing
  /\ UNCHANGED <<touching, written, destroyed>>

Get ==
  /\ created
  /\ record' = AfterGet
  /\ served' = IF Found THEN record ELSE Nothing
  /\ UNCHANGED <<created, touching, written, destroyed>>

(* The middleware gets the session, and the request writes to req.session.   *)
Request ==
  /\ Found
  /\ record' = IF ByReference THEN [record EXCEPT !.data = TRUE] ELSE record
  /\ written' = TRUE
  /\ served' = Nothing
  /\ UNCHANGED <<created, touching, destroyed>>

(* What a touch takes with it; without a record it ends.                     *)
Got == IF Found THEN record.data ELSE Absent

(* touch(): get ...                                                          *)
TouchGets(h) ==
  /\ created /\ touching[h] = Absent
  /\ record' = AfterGet
  /\ touching' = [touching EXCEPT ![h] = Got]
  /\ served' = Nothing
  /\ UNCHANGED <<created, written, destroyed>>

(* ... and, after its await, set, whatever happened to the record meanwhile. *)
(* A record that is shared has the data that was last written to it.         *)
TouchSets(h, ttl) ==
  /\ touching[h] # Absent
  /\ record' = NewRecord(ttl, IF ByReference THEN written ELSE touching[h])
  /\ touching' = [touching EXCEPT ![h] = Absent]
  /\ served' = Nothing
  /\ UNCHANGED <<created, written, destroyed>>

Destroy ==
  /\ created
  /\ record' = Absent
  /\ destroyed' = (destroyed \/ \A h \in Touchers : touching[h] = Absent)
  /\ served' = Nothing
  /\ UNCHANGED <<created, touching, written>>

(* Time passes; Redis drops a key whose time to live is over.  A record that *)
(* expired long ago is as expired as one that expired two seconds ago.       *)
Tick ==
  /\ record # Absent
  /\ LET left == IF record.left > -2 * Second THEN record.left - 1 ELSE record.left
     IN  record' = IF record.keyTtl = NoKeyTtl THEN [record EXCEPT !.left = left]
                   ELSE IF record.keyTtl = 1 THEN Absent
                   ELSE [record EXCEPT !.left = left, !.keyTtl = @ - 1]
  /\ served' = Nothing
  /\ UNCHANGED <<created, touching, written, destroyed>>

Step ==
  \/ \E ttl \in Ttls : Create(ttl) \/ \E h \in Touchers : TouchSets(h, ttl)
  \/ \E h \in Touchers : TouchGets(h)
  \/ Get \/ Request \/ Destroy \/ Tick

Next == Step /\ UNCHANGED store

Spec == Init /\ [][Next]_vars
-----------------------------------------------------------------------------
(* How late a store may still serve an expired session: not at all, or less  *)
(* than the second Redis rounds up to.                                       *)
Late == IF store = "memory" THEN 0 ELSE Second - 1

(* However touches overlap and lifetimes are rounded, a session is served    *)
(* after its expiresAt only within the rounding of its store; and in memory, *)
(* where the record is shared, with everything requests wrote to it.         *)
ServedInTime ==
  /\ TypeOK
  /\ served # Nothing =>
       served.left >= -Late /\ (store = "memory" => served.data = written)

(* README: changes to req.session are "persisted automatically", and the     *)
(* Redis store replaces the one in memory: a later get sees what a request   *)
(* wrote.  It does not hold: the middleware saves nothing, and Redis hands   *)
(* out copies.                                                               *)
PersistedAutomatically == served # Nothing => served.data = written

(* A destroyed session is not served again (README: destroy will "Delete a   *)
(* session"), nor brought back by a later touch.  A touch that had its get   *)
(* before the destroy and its set after it does bring it back.               *)
DestroyedForGood == destroyed => served = Nothing
=============================================================================
