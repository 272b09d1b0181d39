-------------------------- MODULE ArchitectureProofs --------------------------
(* Proofs about packages/architecture: event sourcing, for any writers,      *)
(* streams and bounds; the orchestrated saga, for any number of overlapping  *)
(* runs and of steps, added before or while they run; the event buses, for   *)
(* any number of handlers that change the list or emit while they are called.*)
EXTENDS MCArchitecture, CollectionLemmas

(* Event sourcing.                                                          *)

(* The part of TypeOK the proofs need.                                       *)
StoreTyped ==
  /\ streams \in [Streams -> Seq(Events)]
  /\ aggregates \in [Writers -> {NotLoaded} \cup Aggregates]
  /\ clock \in Nat

Numbered == StoreTyped /\ VersionsDense

LEMMA Concatenated ==
  ASSUME NEW S, NEW p \in Seq(S), NEW q \in Seq(S)
  PROVE  /\ p \o q \in Seq(S)
         /\ DOMAIN (p \o q) = 1 .. Len(p) + Len(q)
         /\ Len(p \o q) = Len(p) + Len(q)
         /\ \A i \in 1 .. Len(p) : (p \o q)[i] = p[i]
         /\ \A i \in 1 .. Len(q) : (p \o q)[Len(p) + i] = q[i]
  OBVIOUS

LEMMA AggregateTyped ==
  ASSUME NEW a \in Aggregates
  PROVE  /\ a.id \in Streams /\ a.version \in Nat
         /\ a.state \in Seq(Facts) /\ a.pending \in Nat
  BY DEF Aggregates

(* Records of an aggregate, before and after raise and markEventsAsCommitted.*)
LEMMA RaisedTyped ==
  ASSUME NEW a \in Aggregates, NEW w \in Writers
  PROVE  /\ Raised(w, a) \in Aggregates
         /\ Raised(w, a).id = a.id /\ Raised(w, a).version = a.version
         /\ Raised(w, a).pending = a.pending + 1
         /\ Raised(w, a).state =
              Append(a.state, [by |-> w, version |-> a.version + a.pending + 1])
<1> DEFINE fact == [by |-> w, version |-> NextVersion(a)]
<1>1. NextVersion(a) \in Versions
  BY AggregateTyped DEF NextVersion, Versions
<1>2. fact \in Facts
  BY <1>1 DEF Facts
<1>3. Append(a.state, fact) \in Seq(Facts) /\ a.pending + 1 \in Nat
  BY <1>2, AggregateTyped
<1>4. Raised(w, a) = [a EXCEPT !.state = Append(a.state, fact),
                               !.pending = a.pending + 1]
  BY DEF Raised
<1>5. fact = [by |-> w, version |-> a.version + a.pending + 1]
  BY DEF NextVersion
<1> HIDE DEF fact
<1>6. PICK state \in Seq(Facts) : state = Append(a.state, fact)
  BY <1>3
<1>7. Raised(w, a) = [a EXCEPT !.state = state, !.pending = a.pending + 1]
  BY <1>4, <1>6
<1>8. /\ Raised(w, a) \in Aggregates
      /\ Raised(w, a).id = a.id /\ Raised(w, a).version = a.version
      /\ Raised(w, a).pending = a.pending + 1 /\ Raised(w, a).state = state
  BY <1>3, <1>7 DEF Aggregates
<1> QED
  BY <1>5, <1>6, <1>8

LEMMA CommittedTyped ==
  ASSUME NEW a \in Aggregates
  PROVE  /\ Committed(a) \in Aggregates
         /\ Committed(a).id = a.id /\ Committed(a).state = a.state
         /\ Committed(a).version = a.version + a.pending
         /\ Committed(a).pending = 0
<1>1. PICK v \in Nat : v = a.version + a.pending
  BY AggregateTyped
<1>2. Committed(a) = [a EXCEPT !.version = v, !.pending = 0]
  BY <1>1 DEF Committed
<1>3. a = [id |-> a.id, version |-> a.version, state |-> a.state,
           pending |-> a.pending]
  BY DEF Aggregates
<1>4. Committed(a) = [id |-> a.id, version |-> v, state |-> a.state, pending |-> 0]
  BY <1>2, <1>3
<1> QED
  BY <1>1, <1>4, AggregateTyped DEF Aggregates

LEMMA FoldedIsASequence ==
  ASSUME NEW events \in Seq(Events)
  PROVE  /\ Folded(events) \in Seq(Facts)
         /\ Len(Folded(events)) = Len(events)
         /\ \A i \in 1 .. Len(events) : Folded(events)[i] = Fact(events[i])
<1>2. DOMAIN events = 1 .. Len(events) /\ Len(events) \in Nat
  OBVIOUS
<1>0. \A i \in 1 .. Len(events) : events[i] \in Events
  OBVIOUS
<1>1. \A i \in DOMAIN events : Fact(events[i]) \in Facts
  BY <1>0, <1>2 DEF Fact, Facts, Events
<1>3. Folded(events) \in [1 .. Len(events) -> Facts]
  BY <1>1, <1>2 DEF Folded
<1> QED
  BY <1>2, <1>3 DEF Folded

LEMMA StoredIsASequence ==
  ASSUME NEW w \in Writers, NEW s \in Streams, NEW n \in Nat, StoreTyped
  PROVE  /\ Stored(w, s, n) \in Seq(Events)
         /\ Len(Stored(w, s, n)) = n
         /\ \A i \in 1 .. n :
              Fact(Stored(w, s, n)[i]) = [by |-> w, version |-> Len(streams[s]) + i]
         /\ \A i \in 1 .. n : Stored(w, s, n)[i].version = Len(streams[s]) + i
<1>1. Len(streams[s]) \in Nat
  BY DEF StoreTyped
<1>2. \A i \in 1 .. n : VersionOf(s, i) \in Versions
  BY <1>1 DEF VersionOf, Versions
<1>3. Stored(w, s, n) \in [1 .. n -> Events]
  BY <1>2 DEF Stored, Events, StoreTyped
<1>4. \A i \in 1 .. n : Stored(w, s, n)[i].version = VersionOf(s, i)
                     /\ Stored(w, s, n)[i].by = w
  BY DEF Stored
<1> QED
  BY <1>3, <1>4 DEF Fact, VersionOf

(* The effect of a commit on the streams.                                    *)
LEMMA CommitExtends ==
  ASSUME NEW w \in Writers, StoreTyped, Commit(w)
  PROVE  /\ aggregates[w] \in Aggregates
         /\ streams' = [streams EXCEPT ![aggregates[w].id] =
              @ \o Stored(w, aggregates[w].id, aggregates[w].pending)]
         /\ Stored(w, aggregates[w].id, aggregates[w].pending) \in Seq(Events)
         /\ Len(Stored(w, aggregates[w].id, aggregates[w].pending))
              = aggregates[w].pending
         /\ aggregates' = [aggregates EXCEPT ![w] = Committed(aggregates[w])]
         /\ clock' = clock
<1>1. aggregates[w] \in Aggregates
  BY DEF Commit, StoreTyped
<1>2. aggregates[w].id \in Streams /\ aggregates[w].pending \in Nat
  BY <1>1, AggregateTyped
<1> QED
  BY <1>1, <1>2, StoredIsASequence DEF Commit, Extended

(* Typed and densely numbered streams, whether writers pass a version or not.*)
LEMMA NumberedInductive == Numbered /\ [Next]_vars => Numbered'
<1> SUFFICES ASSUME Numbered, [Next]_vars
             PROVE  Numbered'
  OBVIOUS
<1> USE DEF Numbered
<1>1. ASSUME NEW w \in Writers, NEW s \in Streams, Load(w, s)
      PROVE  Numbered'
  <2>1. streams[s] \in Seq(Events) /\ Folded(streams[s]) \in Seq(Facts)
    BY FoldedIsASequence DEF StoreTyped
  <2>2. Replayed(s).version \in Nat
    <3>1. CASE streams[s] = <<>>
      BY <3>1 DEF Replayed
    <3>2. CASE streams[s] # <<>>
      <4>1. Last(streams[s]) \in Events
        BY <2>1, <3>2 DEF Last
      <4> QED
        BY <3>2, <4>1 DEF Replayed, Events, Versions
    <3> QED
      BY <3>1, <3>2
  <2>3. Replayed(s) \in Aggregates
    BY <2>1, <2>2 DEF Replayed, Aggregates
  <2> QED
    BY <1>1, <2>3 DEF Load, StoreTyped, VersionsDense
<1>2. ASSUME NEW w \in Writers, Raise(w)
      PROVE  Numbered'
  <2>1. aggregates[w] \in Aggregates
    BY <1>2 DEF Raise, StoreTyped
  <2>4. aggregates' \in [Writers -> {NotLoaded} \cup Aggregates]
    BY <1>2, <2>1, RaisedTyped DEF Raise, StoreTyped
  <2> QED
    BY <1>2, <2>4 DEF Raise, StoreTyped, VersionsDense
<1>3. ASSUME NEW w \in Writers, Commit(w)
      PROVE  Numbered'
  <2> DEFINE a == aggregates[w]
             new == Stored(w, a.id, a.pending)
  <2>1. a \in Aggregates /\ a.id \in Streams /\ a.pending \in Nat
    BY <1>3, CommitExtends DEF Aggregates
  <2>2. /\ streams' = [streams EXCEPT ![a.id] = @ \o new]
        /\ new \in Seq(Events) /\ Len(new) = a.pending
    BY <1>3, CommitExtends
  <2>3. streams' \in [Streams -> Seq(Events)]
    BY <2>1, <2>2 DEF StoreTyped
  <2>4. aggregates' \in [Writers -> {NotLoaded} \cup Aggregates]
    <3>1. Committed(a) \in Aggregates
      BY <2>1, CommittedTyped
    <3>2. aggregates' = [aggregates EXCEPT ![w] = Committed(a)]
      BY <1>3, CommitExtends
    <3>3. aggregates \in [Writers -> {NotLoaded} \cup Aggregates]
      BY DEF StoreTyped
    <3> HIDE DEF a
    <3> QED
      BY <3>1, <3>2, <3>3, Zenon
  <2>5. clock' \in Nat
    BY <1>3 DEF Commit, StoreTyped
  <2>6. \A i \in 1 .. a.pending : new[i].version = Len(streams[a.id]) + i
    BY <2>1, StoredIsASequence
  <2>7. ASSUME NEW s \in Streams, NEW i \in DOMAIN streams'[s]
        PROVE  streams'[s][i].version = i
    <3>1. CASE s # a.id
      BY <2>2, <3>1 DEF VersionsDense, StoreTyped
    <3>2. CASE s = a.id
      <4>1. /\ streams[s] \in Seq(Events)
            /\ streams'[s] = streams[s] \o new
        BY <2>1, <2>2, <3>2 DEF StoreTyped
      <4>2. PICK n \in Nat : n = Len(streams[s])
        BY <4>1
      <4> HIDE DEF a, new
      <4>3. i \in 1 .. n + a.pending
        BY <2>2, <4>1, <4>2, Concatenated
      <4>4. CASE i \in 1 .. n
        <5>1. streams'[s][i] = streams[s][i] /\ i \in DOMAIN streams[s]
          BY <2>2, <4>1, <4>2, <4>4, Concatenated
        <5> QED
          BY <5>1 DEF VersionsDense
      <4>5. CASE i \in n + 1 .. n + a.pending
        <5>1. PICK k \in 1 .. a.pending : n + k = i
          <6>1. i - n \in 1 .. a.pending /\ n + (i - n) = i
            BY <2>1, <4>2, <4>5
          <6> QED
            BY <6>1
        <5>2. (streams[s] \o new)[n + k] = new[k]
          BY <2>2, <4>1, <4>2, <5>1, Concatenated
        <5>3. new[k].version = n + k
          BY <2>6, <3>2, <4>2, <5>1
        <5> QED
          BY <4>1, <5>1, <5>2, <5>3
      <4> QED
        BY <2>1, <4>3, <4>4, <4>5
    <3> QED
      BY <3>1, <3>2
  <2> QED
    BY <2>3, <2>4, <2>5, <2>7 DEF StoreTyped, VersionsDense
<1>4. ASSUME NEW w \in Writers, Conflict(w)
      PROVE  Numbered'
  BY <1>4 DEF Conflict, StoreTyped, VersionsDense
<1>5. CASE Rebuild
  BY <1>5 DEF Rebuild, StoreTyped, VersionsDense
<1>6. CASE Tick
  BY <1>6 DEF Tick, StoreTyped, VersionsDense
<1>7. CASE UNCHANGED vars
  BY <1>7 DEF vars, StoreTyped, VersionsDense
<1> QED
  BY <1>1, <1>2, <1>3, <1>4, <1>5, <1>6, <1>7 DEF Next

LEMMA NumberedInit == Init => Numbered
<1> SUFFICES ASSUME Init PROVE Numbered
  OBVIOUS
<1>1. \A s \in Streams : streams[s] = <<>>
  BY DEF Init
<1>2. <<>> \in Seq(Events) /\ DOMAIN <<>> = {}
  OBVIOUS
<1> QED
  BY <1>1, <1>2 DEF Init, Numbered, StoreTyped, VersionsDense

(* Stored versions are 1, 2, 3, ..., whoever appends, with or without an     *)
(* expected version (append's existing.length + i + 1).                      *)
THEOREM VersionsAlwaysDense == Spec => []VersionsDense
<1>1. Numbered => VersionsDense
  BY DEF Numbered
<1> QED
  BY <1>1, NumberedInit, NumberedInductive, PTL DEF Spec
-----------------------------------------------------------------------------
(* A writer's aggregate and the stream it was loaded from, seen alone.       *)
Consistent(w, a, stream) ==
  /\ a.version <= Len(stream)
  /\ Len(a.state) = a.version + a.pending
  /\ \A i \in 1 .. Len(a.state) :
       a.state[i] = IF i <= a.version THEN Fact(stream[i])
                    ELSE [by |-> w, version |-> i]

LEMMA ConsistentEverywhere ==
  FoldedAsStored <=>
    \A w \in Checking : aggregates[w] # NotLoaded =>
      Consistent(w, aggregates[w], streams[aggregates[w].id])
  BY DEF FoldedAsStored, Consistent

(* A replayed aggregate is consistent.                                       *)
LEMMA ReplayConsistent ==
  ASSUME Numbered, NEW w \in Writers, NEW s \in Streams
  PROVE  Replayed(s).id = s /\ Consistent(w, Replayed(s), streams[s])
<1>1. streams[s] \in Seq(Events)
  BY DEF Numbered, StoreTyped
<1>2. Replayed(s).version = Len(streams[s])
  <2>1. CASE streams[s] = <<>>
    BY <2>1 DEF Replayed
  <2>2. CASE streams[s] # <<>>
    <3>1. Len(streams[s]) \in DOMAIN streams[s]
      BY <1>1, <2>2
    <3>2. streams[s][Len(streams[s])].version = Len(streams[s])
      BY <3>1 DEF Numbered, VersionsDense
    <3> QED
      BY <2>2, <3>2 DEF Replayed, Last
  <2> QED
    BY <2>1, <2>2
<1>3. /\ Replayed(s).id = s /\ Replayed(s).pending = 0
      /\ Replayed(s).state = Folded(streams[s])
  BY DEF Replayed
<1> QED
  BY <1>1, <1>2, <1>3, FoldedIsASequence DEF Consistent

(* raise() keeps an aggregate consistent.                                    *)
LEMMA RaiseConsistent ==
  ASSUME NEW w \in Writers, NEW a \in Aggregates, NEW stream \in Seq(Events),
         Consistent(w, a, stream)
  PROVE  Consistent(w, Raised(w, a), stream)
<1>1. PICK n \in Nat : n = a.version + a.pending /\ n = Len(a.state)
  BY AggregateTyped DEF Consistent
<1>2. a.version \in Nat /\ a.version <= n /\ a.state \in Seq(Facts)
  BY <1>1, AggregateTyped
<1>3. PICK fact : fact = [by |-> w, version |-> n + 1]
  OBVIOUS
<1>4. Raised(w, a).state = Append(a.state, fact)
  BY <1>1, <1>3, RaisedTyped
<1>5. /\ Len(Append(a.state, fact)) = n + 1
      /\ \A i \in 1 .. n : Append(a.state, fact)[i] = a.state[i]
      /\ Append(a.state, fact)[n + 1] = fact
  BY <1>1, <1>2
<1>6. \A i \in 1 .. n : a.state[i] = IF i <= a.version THEN Fact(stream[i])
                                      ELSE [by |-> w, version |-> i]
  BY <1>1 DEF Consistent
<1>7. \A i \in 1 .. n + 1 :
        Raised(w, a).state[i] = IF i <= a.version THEN Fact(stream[i])
                                ELSE [by |-> w, version |-> i]
  BY <1>1, <1>2, <1>3, <1>4, <1>5, <1>6
<1>8. /\ Raised(w, a).version = a.version
      /\ Raised(w, a).version + Raised(w, a).pending = n + 1
  <2>1. Raised(w, a).version = a.version /\ Raised(w, a).pending = a.pending + 1
    BY RaisedTyped
  <2>2. a.version \in Nat /\ a.pending \in Nat
    BY AggregateTyped
  <2> QED
    BY <1>1, <2>1, <2>2
<1>9. a.version <= Len(stream)
  BY DEF Consistent
<1> QED
  BY <1>4, <1>5, <1>7, <1>8, <1>9 DEF Consistent

(* A stream that grows keeps every aggregate loaded from it consistent.      *)
LEMMA GrowthConsistent ==
  ASSUME NEW w \in Writers, NEW a \in Aggregates, NEW stream \in Seq(Events),
         NEW new \in Seq(Events), Consistent(w, a, stream)
  PROVE  Consistent(w, a, stream \o new)
<1>1. PICK n \in Nat : n = Len(stream)
  OBVIOUS
<1>2. a.version \in Nat /\ a.version <= n
  BY <1>1, AggregateTyped DEF Consistent
<1>3. Len(stream \o new) >= n
  BY <1>1, Concatenated
<1>4. \A i \in 1 .. n : (stream \o new)[i] = stream[i]
  BY <1>1, Concatenated
<1>5. Len(a.state) \in Nat
  BY AggregateTyped
<1>6. ASSUME NEW i \in 1 .. Len(a.state), i <= a.version
      PROVE  (stream \o new)[i] = stream[i]
  <2>1. i \in 1 .. n
    BY <1>2, <1>5, <1>6
  <2> QED
    BY <1>4, <2>1
<1>7. a.version <= Len(stream \o new)
  BY <1>1, <1>2, <1>3, Concatenated
<1> QED
  BY <1>6, <1>7 DEF Consistent

(* A commit at the expected version keeps the aggregate consistent with the  *)
(* stream it extended.                                                       *)
LEMMA CommitConsistent ==
  ASSUME Numbered, NEW w \in Writers, w \in Checking, Commit(w),
         Consistent(w, aggregates[w], streams[aggregates[w].id])
  PROVE  Consistent(w, Committed(aggregates[w]), streams'[aggregates[w].id])
<1>1. PICK a \in Aggregates : a = aggregates[w]
  BY CommitExtends DEF Numbered
<1>2. PICK stream \in Seq(Events) : stream = streams[a.id]
  BY AggregateTyped DEF Numbered, StoreTyped
<1>3. PICK new \in Seq(Events) : new = Stored(w, a.id, a.pending)
  BY <1>1, CommitExtends DEF Numbered
<1>4. streams'[a.id] = stream \o new
  BY <1>1, <1>2, <1>3, CommitExtends, AggregateTyped DEF Numbered, StoreTyped
<1>5. PICK v \in Nat : v = a.version /\ v = Len(stream)
  BY <1>1, <1>2, AggregateTyped DEF Commit, AsExpected
<1>6. PICK p \in Nat : p = a.pending /\ p = Len(new)
  BY <1>1, <1>3, CommitExtends, AggregateTyped DEF Numbered
<1>7. \A i \in 1 .. p : Fact(new[i]) = [by |-> w, version |-> v + i]
  <2>1. \A i \in 1 .. a.pending :
          Fact(new[i]) = [by |-> w, version |-> Len(streams[a.id]) + i]
    <3>1. a.id \in Streams /\ a.pending \in Nat
      BY AggregateTyped
    <3>2. StoreTyped
      BY DEF Numbered
    <3>3. PICK s \in Streams, n \in Nat : s = a.id /\ n = a.pending
      BY <3>1
    <3>4. \A i \in 1 .. n :
            Fact(Stored(w, s, n)[i]) = [by |-> w, version |-> Len(streams[s]) + i]
      BY <3>2, StoredIsASequence
    <3>5. new = Stored(w, a.id, a.pending)
      BY <1>3
    <3> QED
      BY ONLY <3>3, <3>4, <3>5
  <2> QED
    BY <1>2, <1>5, <1>6, <2>1
<1>8. /\ Len(a.state) = v + p
      /\ \A i \in 1 .. v + p :
           a.state[i] = IF i <= v THEN Fact(stream[i]) ELSE [by |-> w, version |-> i]
  BY <1>1, <1>2, <1>5, <1>6 DEF Consistent
<1>9. \A i \in 1 .. v + p : a.state[i] = Fact((stream \o new)[i])
  <2> SUFFICES ASSUME NEW i \in 1 .. v + p
               PROVE  a.state[i] = Fact((stream \o new)[i])
    OBVIOUS
  <2>1. CASE i \in 1 .. v
    <3>1. (stream \o new)[i] = stream[i]
      BY <1>5, <2>1, Concatenated
    <3>2. i \in 1 .. v + p /\ i <= v
      BY <1>5, <1>6, <2>1
    <3>3. a.state[i] = Fact(stream[i])
      BY <1>8, <3>2
    <3> QED
      BY <3>1, <3>3
  <2>2. CASE i \in v + 1 .. v + p
    <3>1. PICK j \in 1 .. p : v + j = i
      <4>1. i - v \in 1 .. p /\ v + (i - v) = i
        BY <2>2
      <4> QED
        BY <4>1
    <3>2. (stream \o new)[v + j] = new[j]
      BY <1>5, <1>6, Concatenated
    <3>3. a.state[i] = [by |-> w, version |-> i]
      <4>1. ~(i <= v)
        BY <1>5, <1>6, <2>2
      <4> QED
        BY <1>8, <4>1
    <3>4. Fact(new[j]) = [by |-> w, version |-> i]
      BY <1>7, <3>1
    <3>5. (stream \o new)[i] = new[j]
      BY <3>1, <3>2
    <3> QED
      BY <3>3, <3>4, <3>5
  <2> QED
    BY <1>5, <1>6, <2>1, <2>2
<1>10. /\ Committed(a).version = v + p /\ Committed(a).pending = 0
       /\ Committed(a).state = a.state
  BY <1>5, <1>6, CommittedTyped
<1>11. Len(stream \o new) = v + p
  BY <1>5, <1>6, Concatenated
<1>12. Consistent(w, Committed(a), stream \o new)
  <2>1. /\ Committed(a).version <= Len(stream \o new)
        /\ Len(Committed(a).state) = Committed(a).version + Committed(a).pending
    BY <1>5, <1>6, <1>8, <1>10, <1>11
  <2>2. \A i \in 1 .. v + p : Committed(a).state[i] = Fact((stream \o new)[i])
    BY <1>9, <1>10
  <2>3. \A i \in 1 .. v + p : i <= v + p
    BY <1>5, <1>6
  <2>. DEFINE c == Committed(a)
              whole == stream \o new
  <2>4. /\ c.version <= Len(whole) /\ Len(c.state) = c.version + c.pending
        /\ Len(c.state) = v + p /\ c.version = v + p
        /\ \A i \in 1 .. v + p : i <= v + p /\ c.state[i] = Fact(whole[i])
    BY <1>8, <1>10, <2>1, <2>2, <2>3
  <2>. HIDE DEF c, whole
  <2>5. Consistent(w, c, whole)
    BY ONLY <2>4 DEF Consistent
  <2>6. QED
    BY <2>5 DEF c, whole
<1> QED
  BY <1>1, <1>4, <1>12

LEMMA FoldedInductive ==
  Numbered /\ FoldedAsStored /\ [Next]_vars => FoldedAsStored'
<1> SUFFICES ASSUME Numbered, FoldedAsStored, [Next]_vars,
                    NEW w \in Writers, w \in Checking, aggregates'[w] # NotLoaded
             PROVE  Consistent(w, aggregates'[w], streams'[aggregates'[w].id])
  BY EventAssumption DEF FoldedAsStored, Consistent
<1>1. aggregates[w] # NotLoaded =>
        /\ aggregates[w] \in Aggregates
        /\ aggregates[w].id \in Streams
        /\ streams[aggregates[w].id] \in Seq(Events)
        /\ Consistent(w, aggregates[w], streams[aggregates[w].id])
  BY ConsistentEverywhere, AggregateTyped DEF Numbered, StoreTyped
<1>2. ASSUME NEW u \in Writers, NEW s \in Streams, Load(u, s)
      PROVE  Consistent(w, aggregates'[w], streams'[aggregates'[w].id])
  <2>1. streams' = streams
    BY <1>2 DEF Load
  <2>2. aggregates'[w] = IF w = u THEN Replayed(s) ELSE aggregates[w]
    BY <1>2 DEF Load, Numbered, StoreTyped
  <2> QED
    BY <1>1, <2>1, <2>2, ReplayConsistent
<1>3. ASSUME NEW u \in Writers, Raise(u)
      PROVE  Consistent(w, aggregates'[w], streams'[aggregates'[w].id])
  <2>1. streams' = streams
    BY <1>3 DEF Raise
  <2>2. aggregates'[w] = IF w = u THEN Raised(w, aggregates[w]) ELSE aggregates[w]
    BY <1>3 DEF Raise, Numbered, StoreTyped
  <2>3. aggregates[w] # NotLoaded
    BY <1>3, <2>2 DEF Raise
  <2>4. CASE w = u
    <3>1. Raised(w, aggregates[w]).id = aggregates[w].id
      BY <1>1, <2>3, RaisedTyped
    <3>2. Consistent(w, Raised(w, aggregates[w]), streams[aggregates[w].id])
      BY <1>1, <2>3, RaiseConsistent
    <3> QED
      BY <2>1, <2>2, <2>4, <3>1, <3>2
  <2>5. CASE w # u
    BY <1>1, <2>1, <2>2, <2>3, <2>5
  <2> QED
    BY <2>4, <2>5
<1>4. ASSUME NEW u \in Writers, Commit(u)
      PROVE  Consistent(w, aggregates'[w], streams'[aggregates'[w].id])
  <2>1. PICK a \in Aggregates : a = aggregates[u]
    BY <1>4, CommitExtends DEF Numbered
  <2>2. PICK new \in Seq(Events) :
          streams' = [streams EXCEPT ![a.id] = @ \o new]
    BY <1>4, <2>1, CommitExtends DEF Numbered
  <2>3. aggregates'[w] = IF w = u THEN Committed(aggregates[w]) ELSE aggregates[w]
    BY <1>4, CommitExtends DEF Numbered, StoreTyped
  <2>4. aggregates[w] # NotLoaded
    BY <1>4, <2>3 DEF Commit
  <2>5. CASE w = u
    <3>1. Committed(aggregates[w]).id = aggregates[w].id
      BY <1>1, <2>4, CommittedTyped
    <3> QED
      BY <1>1, <1>4, <2>3, <2>4, <2>5, <3>1, CommitConsistent
  <2>6. CASE w # u
    <3>1. aggregates'[w] = aggregates[w]
      BY <2>3, <2>6
    <3>2. streams'[aggregates[w].id] \in
            {streams[aggregates[w].id], streams[aggregates[w].id] \o new}
      BY <1>1, <2>2, <2>4 DEF Numbered, StoreTyped
    <3> QED
      BY <1>1, <2>4, <3>1, <3>2, GrowthConsistent
  <2> QED
    BY <2>5, <2>6
<1>5. ASSUME NEW u \in Writers, Conflict(u)
      PROVE  Consistent(w, aggregates'[w], streams'[aggregates'[w].id])
  <2>1. streams' = streams
    BY <1>5 DEF Conflict
  <2>2. aggregates'[w] = IF w = u THEN NotLoaded ELSE aggregates[w]
    BY <1>5 DEF Conflict, Numbered, StoreTyped
  <2> QED
    BY <1>1, <2>1, <2>2
<1>6. CASE UNCHANGED <<streams, aggregates>>
  BY <1>1, <1>6
<1> QED
  BY <1>2, <1>3, <1>4, <1>5, <1>6 DEF Next, Rebuild, Tick, vars

(* The state a writer that passes its version decided on is the fold of the  *)
(* stored stream and its own pending events, under the versions they are     *)
(* stored with (Aggregate.raise and append agree).                           *)
THEOREM HistoryFolded == Spec => []FoldedAsStored
<1>1. Init => FoldedAsStored
  BY EventAssumption DEF Init, FoldedAsStored
<1>2. Numbered /\ FoldedAsStored /\ [Next]_vars => FoldedAsStored'
  BY FoldedInductive
<1> QED
  BY <1>1, <1>2, NumberedInit, NumberedInductive, PTL DEF Spec

(* append() extends streams and never touches what they hold.                *)
THEOREM NothingRewritten == Spec => AppendOnly
<1>1. Numbered /\ [Next]_vars => \A s \in Streams : IsPrefix(streams[s], streams'[s])
  <2> SUFFICES ASSUME Numbered, [Next]_vars, NEW s \in Streams
               PROVE  IsPrefix(streams[s], streams'[s])
    OBVIOUS
  <2>1. streams[s] \in Seq(Events)
    BY DEF Numbered, StoreTyped
  <2>2. CASE streams'[s] = streams[s]
    BY <2>1, <2>2 DEF IsPrefix
  <2>3. ASSUME NEW w \in Writers, Commit(w)
        PROVE  IsPrefix(streams[s], streams'[s])
    <3>1. PICK new \in Seq(Events) :
            streams' = [streams EXCEPT ![aggregates[w].id] = @ \o new]
      BY <2>3, CommitExtends DEF Numbered
    <3>2. CASE streams'[s] = streams[s] \o new
      <4>1. /\ Len(streams[s]) <= Len(streams'[s])
            /\ \A i \in 1 .. Len(streams[s]) : streams[s][i] = streams'[s][i]
        BY <2>1, <3>2, Concatenated
      <4> QED
        BY <2>1, <3>2, <4>1 DEF IsPrefix
    <3> QED
      BY <2>2, <3>1, <3>2 DEF Numbered, StoreTyped
  <2> QED
    BY <2>2, <2>3 DEF Next, Load, Raise, Conflict, Rebuild, Tick, vars
<1>2. Numbered /\ [Next]_vars =>
        [\A s \in Streams : IsPrefix(streams[s], streams'[s])]_vars
  BY <1>1
<1> QED
  BY <1>2, NumberedInit, NumberedInductive, PTL DEF Spec, AppendOnly
-----------------------------------------------------------------------------
(* The events of a stream carry its id, and are in the order of time.        *)
Labelled(s) == \A i \in DOMAIN streams[s] :
              streams[s][i].stream = s /\ streams[s][i].occurredAt <= clock

Timely(s) == \A i, j \in DOMAIN streams[s] :
               i <= j => streams[s][i].occurredAt <= streams[s][j].occurredAt

EventIInv ==
  /\ TypeOK /\ VersionsDense
  /\ IsInjective(created)
  /\ \A s \in Streams : /\ Labelled(s) /\ Timely(s)
                        /\ streams[s] # <<>> => s \in ToSet(created)

Joined == [i \in DOMAIN created |-> streams[created[i]]]

Flat == FlattenSeq(Joined)

Timeline(flat) == {p \in (DOMAIN flat) \X (DOMAIN flat) : Before(flat, p[1], p[2])}

(* What is sorted stably is all there; of two, the earlier comes first, and  *)
(* of two at the same time the one that came first before.                   *)
SortedBy(flat, f) ==
  /\ f \in [DOMAIN flat -> DOMAIN flat]
  /\ \A p \in DOMAIN flat : \E i \in DOMAIN flat : f[i] = p
  /\ \A i, j \in DOMAIN flat : i < j => Before(flat, f[i], f[j])
  /\ \A i \in DOMAIN flat : InTime(flat)[i] = flat[f[i]]

LEMMA SortedStably ==
  ASSUME NEW flat \in Seq(Events)
  PROVE  /\ InTime(flat) \in Seq(Events) /\ Len(InTime(flat)) = Len(flat)
         /\ \E f : SortedBy(flat, f)
<1>. DEFINE n == Len(flat)
            R == Timeline(flat)
            f == Ranked(1 .. n, R)
<1>1. /\ n \in Nat /\ DOMAIN flat = 1 .. n
      /\ \A i \in 1 .. n : flat[i] \in Events /\ flat[i].occurredAt \in Nat
  <2>1. n \in Nat /\ DOMAIN flat = 1 .. n /\ \A i \in 1 .. n : flat[i] \in Events
    OBVIOUS
  <2>2. QED
    BY <2>1 DEF Events
<1>2. \A i, j \in 1 .. n : <<i, j>> \in R <=> Before(flat, i, j)
  BY <1>1 DEF Timeline
<1>3. \A i, j \in 1 .. n :
        Before(flat, i, j) <=> \/ flat[i].occurredAt < flat[j].occurredAt
                               \/ ~(flat[j].occurredAt < flat[i].occurredAt) /\ i < j
  BY DEF Before, Earlier
<1>4. Orders(R, 1 .. n)
  <2>. DEFINE at == [i \in 1 .. n |-> flat[i].occurredAt]
  <2>1. at \in [1 .. n -> Nat] /\ \A i \in 1 .. n : at[i] = flat[i].occurredAt
    BY <1>1
  <2>. HIDE DEF at, R, n
  <2>2. \A i, j \in 1 .. n :
          <<i, j>> \in R <=> (at[i] < at[j] \/ (~(at[j] < at[i]) /\ i < j))
    BY <1>2, <1>3, <2>1
  <2>3. \A i \in 1 .. n : <<i, i>> \notin R
    BY <1>1, <2>1, <2>2
  <2>4. ASSUME NEW i \in 1 .. n, NEW j \in 1 .. n, NEW k \in 1 .. n,
               <<i, j>> \in R, <<j, k>> \in R
        PROVE  <<i, k>> \in R
    <3>1. at[i] \in Nat /\ at[j] \in Nat /\ at[k] \in Nat
      BY <2>1
    <3>2. at[i] < at[j] \/ (~(at[j] < at[i]) /\ i < j)
      BY <2>2, <2>4
    <3>3. at[j] < at[k] \/ (~(at[k] < at[j]) /\ j < k)
      BY <2>2, <2>4
    <3>4. i \in Int /\ j \in Int /\ k \in Int
      OBVIOUS
    <3>5. at[i] < at[k] \/ (~(at[k] < at[i]) /\ i < k)
      BY <3>1, <3>2, <3>3, <3>4
    <3>6. QED
      BY <2>2, <3>5
  <2>5. ASSUME NEW i \in 1 .. n, NEW j \in 1 .. n
        PROVE  i = j \/ <<i, j>> \in R \/ <<j, i>> \in R
    <3>1. at[i] \in Nat /\ at[j] \in Nat /\ i \in Int /\ j \in Int
      BY <2>1
    <3>2. \/ i = j
          \/ at[i] < at[j] \/ (~(at[j] < at[i]) /\ i < j)
          \/ at[j] < at[i] \/ (~(at[i] < at[j]) /\ j < i)
      BY <3>1
    <3>3. QED
      BY <2>2, <3>2
  <2>6. QED
    BY <2>3, <2>4, <2>5 DEF Orders
<1>5. IsFiniteSet(1 .. n) /\ Cardinality(1 .. n) = n
  <2>. HIDE DEF n
  <2>1. QED
    BY <1>1, FS_Interval
<1>6. PutInOrder(f, 1 .. n, R)
  <2>. HIDE DEF R, n
  <2>1. QED
    BY <1>4, <1>5, RankedInOrder
<1>7. InTime(flat) = [i \in 1 .. n |-> flat[f[i]]]
  BY <1>1 DEF InTime, Timeline
<1>. HIDE DEF f, R
<1>8. /\ f \in Seq(1 .. n) /\ ToSet(f) = 1 .. n /\ DOMAIN f = 1 .. n
      /\ \A i, j \in 1 .. n : i < j => <<f[i], f[j]>> \in R
  <2>. HIDE DEF n
  <2>1. /\ f \in Seq(1 .. n) /\ ToSet(f) = 1 .. n /\ Len(f) = n
        /\ \A i, j \in DOMAIN f : i < j <=> <<f[i], f[j]>> \in R
    BY <1>5, <1>6 DEF PutInOrder
  <2>2. DOMAIN f = 1 .. n
    BY <2>1
  <2>3. QED
    BY <2>1, <2>2
<1>9. /\ f \in [1 .. n -> 1 .. n]
      /\ \A p \in 1 .. n : \E i \in 1 .. n : f[i] = p
  <2>. HIDE DEF n
  <2>1. \A p \in 1 .. n : \E i \in DOMAIN f : f[i] = p
    BY <1>8 DEF ToSet
  <2>2. \A i \in 1 .. n : f[i] \in 1 .. n
    <3>. DEFINE P == 1 .. n
    <3>1. f \in Seq(P) /\ DOMAIN f = P
      BY <1>8
    <3>. HIDE DEF P
    <3>2. \A i \in DOMAIN f : f[i] \in P
      BY ONLY <3>1
    <3>3. QED
      BY <3>1, <3>2 DEF P
  <2>3. f \in [1 .. n -> 1 .. n]
    BY <1>8, <2>2
  <2>4. QED
    BY <1>8, <2>1, <2>3
<1>10. \A i, j \in 1 .. n : i < j => Before(flat, f[i], f[j])
  BY <1>2, <1>8, <1>9
<1>11. InTime(flat) \in Seq(Events) /\ Len(InTime(flat)) = n
  BY <1>1, <1>7, <1>9
<1>12. SortedBy(flat, f)
  BY <1>1, <1>7, <1>9, <1>10 DEF SortedBy
<1>13. QED
  BY <1>11, <1>12

(* An element of what is joined, and the stream and place it is from.        *)
From(p, s, j) ==
  /\ s \in Streams /\ j \in DOMAIN streams[s]
  /\ Flat[p] = streams[s][j] /\ Flat[p].stream = s

LEMMA FlatKnown ==
  ASSUME EventIInv
  PROVE  /\ Flat \in Seq(Events)
         /\ \A p \in DOMAIN Flat : \E s, j : From(p, s, j)
         /\ \A s \in Streams : \A j \in DOMAIN streams[s] :
              \E p \in DOMAIN Flat : From(p, s, j)
         /\ \A p, q \in DOMAIN Flat : \A s, j, k :
              From(p, s, j) /\ From(q, s, k) /\ p < q => j < k
<1>. DEFINE n == Len(created)
<1>1. /\ n \in Nat /\ DOMAIN created = 1 .. n
      /\ \A i \in 1 .. n : created[i] \in Streams
      /\ \A i, j \in 1 .. n : created[i] = created[j] => i = j
  BY DEF EventIInv, TypeOK, IsInjective
<1>2. \A s \in Streams : /\ streams[s] \in Seq(Events) /\ Len(streams[s]) \in Nat
                         /\ DOMAIN streams[s] = 1 .. Len(streams[s])
  BY DEF EventIInv, TypeOK
<1>3. Joined \in Seq(Seq(Events)) /\ Len(Joined) = n
  <2>1. Joined = [i \in 1 .. n |-> Joined[i]]
    BY <1>1 DEF Joined
  <2>2. \A i \in 1 .. n : Joined[i] \in Seq(Events)
    BY <1>1, <1>2 DEF Joined
  <2>3. QED
    BY <1>1, <2>1, <2>2, SeqByElements
<1>4. \A i \in 1 .. n : Joined[i] = streams[created[i]]
  BY <1>1 DEF Joined
<1>5. Flat \in Seq(Events) /\ \E ends : Blocks(Joined, n, Flat, ends)
  BY <1>3, Flattened DEF Flat
<1>6. PICK ends : Blocks(Joined, n, Flat, ends)
  BY <1>5
<1>7. DOMAIN Flat = 1 .. Len(Flat) /\ Len(Flat) \in Nat
  BY <1>5
<1>. HIDE DEF n
<1>8. /\ ends \in [0 .. n -> Nat] /\ ends[0] = 0 /\ ends[n] = Len(Flat)
      /\ \A i \in 1 .. n :
           /\ ends[i] = ends[i - 1] + Len(streams[created[i]])
           /\ \A j \in 1 .. Len(streams[created[i]]) :
                Flat[ends[i - 1] + j] = streams[created[i]][j]
  <2>1. /\ ends \in [0 .. n -> Nat] /\ ends[0] = 0 /\ ends[n] = Len(Flat)
        /\ \A i \in 1 .. n :
             /\ ends[i] = ends[i - 1] + Len(Joined[i])
             /\ \A j \in 1 .. Len(Joined[i]) : Flat[ends[i - 1] + j] = Joined[i][j]
    BY <1>6 DEF Blocks
  <2>2. QED
    BY <1>4, <2>1
<1>9. \A s \in Streams : \A j \in DOMAIN streams[s] : streams[s][j].stream = s
  BY DEF EventIInv, Labelled
<1>10. ASSUME NEW p \in DOMAIN Flat
       PROVE  \E i \in 1 .. n : \E j \in 1 .. Len(streams[created[i]]) :
                p = ends[i - 1] + j /\ From(p, created[i], j)
  <2>1. InBlock(Joined, n, Flat, ends, p)
    BY <1>1, <1>6, <1>7, BlockOf
  <2>2. PICK i \in 1 .. n : \E j \in 1 .. Len(Joined[i]) :
          p = ends[i - 1] + j /\ Flat[p] = Joined[i][j]
    BY <2>1 DEF InBlock
  <2>3. PICK j \in 1 .. Len(streams[created[i]]) :
          p = ends[i - 1] + j /\ Flat[p] = streams[created[i]][j]
    BY <1>4, <2>2
  <2>4. From(p, created[i], j)
    BY <1>1, <1>2, <1>9, <2>3 DEF From
  <2>5. QED
    BY <2>3, <2>4
<1>11. ASSUME NEW s \in Streams, NEW j \in DOMAIN streams[s]
       PROVE  \E p \in DOMAIN Flat : From(p, s, j)
  <2>1. streams[s] # <<>>
    BY <1>2
  <2>2. PICK i \in 1 .. n : created[i] = s
    BY <1>1, <2>1 DEF EventIInv, ToSet
  <2>3. Flat[ends[i - 1] + j] = streams[s][j]
    BY <1>2, <1>8, <2>2
  <2>4. ends[i - 1] + j \in 1 .. Len(Flat)
    <3>1. \A k, l \in 0 .. n : k <= l => ends[k] <= ends[l]
      BY <1>1, <1>6, EndsRise
    <3>2. i \in 0 .. n /\ i - 1 \in 0 .. n /\ n \in 0 .. n /\ i <= n
      BY <1>1
    <3>3. ends[i] <= Len(Flat) /\ ends[i - 1] \in Nat /\ ends[i] \in Nat
      BY <1>8, <3>1, <3>2
    <3>4. ends[i] = ends[i - 1] + Len(streams[s])
      BY <1>8, <2>2
    <3>5. j \in 1 .. Len(streams[s]) /\ Len(streams[s]) \in Nat
      BY <1>2
    <3>. DEFINE x == ends[i - 1]
                y == ends[i]
                l == Len(streams[s])
                z == Len(Flat)
    <3>6. /\ y <= z /\ x \in Nat /\ y \in Nat /\ y = x + l
          /\ j \in 1 .. l /\ l \in Nat /\ z \in Nat
      BY <1>7, <3>3, <3>4, <3>5
    <3>. HIDE DEF x, y, l, z
    <3>7. x + j \in 1 .. z
      BY ONLY <3>6
    <3>8. QED
      BY <3>7 DEF x, z
  <2>5. QED
    BY <1>7, <1>9, <2>3, <2>4 DEF From
<1>12. ASSUME NEW p \in DOMAIN Flat, NEW q \in DOMAIN Flat, NEW s, NEW j, NEW k,
              From(p, s, j), From(q, s, k), p < q
       PROVE  j < k
  <2>1. PICK a \in 1 .. n, j1 \in Nat :
          /\ j1 \in 1 .. Len(streams[created[a]]) /\ p = ends[a - 1] + j1
          /\ From(p, created[a], j1)
    BY <1>1, <1>2, <1>10
  <2>2. PICK b \in 1 .. n, k1 \in Nat :
          /\ k1 \in 1 .. Len(streams[created[b]]) /\ q = ends[b - 1] + k1
          /\ From(q, created[b], k1)
    BY <1>1, <1>2, <1>10
  <2>3. created[a] = s /\ created[b] = s
    BY <1>12, <2>1, <2>2 DEF From
  <2>4. a = b
    BY <1>1, <2>3
  <2>5. \A i \in DOMAIN streams[s] : streams[s][i].version = i
    BY <1>12 DEF From, EventIInv, VersionsDense
  <2>6. j = j1 /\ k = k1
    BY <1>12, <2>1, <2>2, <2>3, <2>5 DEF From
  <2>7. ends[a - 1] \in Nat
    <3>1. a - 1 \in 0 .. n
      BY <1>1
    <3>2. QED
      BY <1>8, <3>1
  <2>8. p = ends[a - 1] + j /\ q = ends[a - 1] + k /\ j \in Nat /\ k \in Nat
    BY <2>1, <2>2, <2>4, <2>6
  <2>9. ends[a - 1] + j < ends[a - 1] + k
    BY <1>12, <2>8
  <2>10. QED
    BY <2>7, <2>8, <2>9
<1>13. QED
  BY <1>5, <1>10, <1>11, <1>12

(* getAllEvents() has the events of every stream, each in its order.         *)
LEMMA StreamsInOrder ==
  ASSUME EventIInv
  PROVE  /\ AllEvents \in Seq(Events)
         /\ \A s \in Streams : Kept(AllEvents, EventsOf(s)) = streams[s]
<1>. DEFINE all == AllEvents
            n == Len(Flat)
<1>1. Flat \in Seq(Events) /\ n \in Nat /\ DOMAIN Flat = 1 .. n
  BY FlatKnown
<1>2. AllEvents = InTime(Flat)
  BY DEF AllEvents, Flat, Joined
<1>3. all \in Seq(Events) /\ Len(all) = n /\ DOMAIN all = 1 .. n
  BY <1>1, <1>2, SortedStably
<1>4. PICK f : SortedBy(Flat, f)
  BY <1>1, SortedStably
<1>5. /\ f \in [1 .. n -> 1 .. n]
      /\ \A p \in 1 .. n : \E i \in 1 .. n : f[i] = p
      /\ \A i, j \in 1 .. n : i < j => Before(Flat, f[i], f[j])
      /\ \A i \in 1 .. n : all[i] = Flat[f[i]]
  BY <1>1, <1>2, <1>4 DEF SortedBy
<1>. HIDE DEF all, n
<1>6. ASSUME NEW s \in Streams
      PROVE  Kept(all, EventsOf(s)) = streams[s]
  <2>. DEFINE T == EventsOf(s)
              k == Kept(all, T)
              t == streams[s]
              R == {p \in Events \X Events : p[1].version < p[2].version}
  <2>1. /\ t \in Seq(Events) /\ DOMAIN t = 1 .. Len(t) /\ Len(t) \in Nat
        /\ \A i \in DOMAIN t : /\ t[i] \in Events /\ t[i].version = i /\ t[i].stream = s
                               /\ t[i].occurredAt \in Nat
    <3>1. /\ t \in Seq(Events) /\ DOMAIN t = 1 .. Len(t) /\ Len(t) \in Nat
          /\ \A i \in DOMAIN t : t[i] \in Events /\ t[i].version = i /\ t[i].stream = s
      BY DEF EventIInv, TypeOK, VersionsDense, Labelled
    <3>. HIDE DEF t
    <3>2. QED
      BY <3>1 DEF Events
  <2>2. \A e : e \in T <=> e \in Events /\ e.stream = s
    BY DEF EventsOf, Events
  <2>3. \A e, g : <<e, g>> \in R <=> e \in Events /\ g \in Events /\ e.version < g.version
    OBVIOUS
  <2>4. Strict(R, Events)
    <3>1. \A e \in Events : e.version \in Int
      BY DEF Events, Versions
    <3>. HIDE DEF R
    <3>2. QED
      BY <2>3, <3>1 DEF Strict
  <2>5. k \in Seq(Events) /\ ToSet(k) = ToSet(all) \cap T
    BY <1>3, KeptProperties, KeptRange
  <2>6. PICK p : KeptFrom(all, T, p)
    BY <1>3, KeptProperties
  <2>7. /\ DOMAIN k = 1 .. Len(k)
        /\ p \in [1 .. Len(k) -> 1 .. n]
        /\ \A i \in 1 .. Len(k) : k[i] = all[p[i]] /\ all[p[i]] \in T
        /\ \A i, j \in 1 .. Len(k) : i < j => p[i] < p[j]
    BY <1>3, <2>5, <2>6 DEF KeptFrom
  <2>. HIDE DEF k, t, T, R
  <2>8. ASSUME NEW i \in 1 .. n, all[i] \in T
        PROVE  \E j \in DOMAIN t : From(f[i], s, j) /\ all[i] = t[j]
    <3>1. f[i] \in 1 .. n /\ all[i] = Flat[f[i]]
      BY <1>5
    <3>2. PICK r, j : From(f[i], r, j)
      BY <1>1, <3>1, FlatKnown
    <3>3. r = s
      BY <2>2, <2>8, <3>1, <3>2 DEF From
    <3>4. QED
      BY <3>1, <3>2, <3>3 DEF From, t
  <2>9. ToSet(k) = ToSet(t)
    <3>1. ASSUME NEW e \in ToSet(all), e \in T
          PROVE  e \in ToSet(t)
      BY <1>3, <2>8, <3>1 DEF ToSet
    <3>2. ASSUME NEW e \in ToSet(t)
          PROVE  e \in ToSet(all) /\ e \in T
      <4>1. PICK j \in DOMAIN t : t[j] = e
        BY DEF ToSet
      <4>2. PICK q \in 1 .. n : From(q, s, j)
        BY <1>1, FlatKnown DEF t
      <4>3. PICK i \in 1 .. n : f[i] = q
        BY <1>5
      <4>4. all[i] = e
        BY <1>5, <4>1, <4>2, <4>3 DEF From, t
      <4>5. QED
        BY <1>3, <2>1, <2>2, <4>1, <4>4 DEF ToSet
    <3>3. QED
      BY <2>5, <3>1, <3>2
  <2>10. ASSUME NEW i \in DOMAIN t, NEW j \in DOMAIN t, i < j
         PROVE  <<t[i], t[j]>> \in R
    BY <2>1, <2>3, <2>10
  <2>11. ASSUME NEW i \in DOMAIN k, NEW j \in DOMAIN k, i < j
         PROVE  <<k[i], k[j]>> \in R
    <3>1. /\ p[i] \in 1 .. n /\ p[j] \in 1 .. n /\ p[i] < p[j]
          /\ k[i] = all[p[i]] /\ k[j] = all[p[j]] /\ k[i] \in T /\ k[j] \in T
      BY <2>7, <2>11
    <3>2. PICK a \in DOMAIN t : From(f[p[i]], s, a) /\ k[i] = t[a]
      BY <2>8, <3>1
    <3>3. PICK b \in DOMAIN t : From(f[p[j]], s, b) /\ k[j] = t[b]
      BY <2>8, <3>1
    <3>4. Before(Flat, f[p[i]], f[p[j]])
      BY <1>5, <3>1
    <3>5. \/ t[a].occurredAt < t[b].occurredAt
          \/ (~(t[b].occurredAt < t[a].occurredAt) /\ f[p[i]] < f[p[j]])
      BY <3>2, <3>3, <3>4 DEF From, Before, Earlier, t
    <3>6. a < b
      <4>1. CASE t[a].occurredAt < t[b].occurredAt
        <5>1. ~(b <= a)
          <6>1. b <= a => t[b].occurredAt <= t[a].occurredAt
            BY DEF EventIInv, Timely, t
          <6>2. t[a].occurredAt \in Nat /\ t[b].occurredAt \in Nat
            BY <2>1
          <6>3. QED
            BY <4>1, <6>1, <6>2
        <5>2. a \in Int /\ b \in Int
          BY <2>1
        <5>3. QED
          BY <5>1, <5>2
      <4>2. CASE f[p[i]] < f[p[j]]
        <5>1. f[p[i]] \in DOMAIN Flat /\ f[p[j]] \in DOMAIN Flat
          BY <1>1, <1>5, <3>1
        <5>2. QED
          BY <3>2, <3>3, <4>2, <5>1, FlatKnown
      <4>3. QED
        BY <3>5, <4>1, <4>2
    <3>7. QED
      BY <2>1, <2>3, <3>2, <3>3, <3>6
  <2>12. k = t
    BY <2>1, <2>4, <2>5, <2>9, <2>10, <2>11, OneOrder
  <2>13. QED
    BY <2>12 DEF k, t, T
<1>7. QED
  BY <1>3, <1>6 DEF all

LEMMA EventsSame ==
  ASSUME EventIInv, Numbered', UNCHANGED <<streams, created>>,
         clock' \in Nat, clock <= clock', (projection \in Seq(Events))'
  PROVE  EventIInv'
<1>1. TypeOK' /\ VersionsDense'
  BY DEF Numbered, StoreTyped, TypeOK, EventIInv
<1>2. /\ IsInjective(created)'
      /\ \A s \in Streams : Timely(s)' /\ (streams'[s] # <<>> => s \in ToSet(created)')
  BY DEF EventIInv, Timely, IsInjective, ToSet
<1>3. ASSUME NEW s \in Streams
      PROVE  Labelled(s)'
  <2>1. SUFFICES ASSUME NEW i \in DOMAIN streams[s]
                 PROVE  /\ streams[s][i].stream = s
                        /\ streams[s][i].occurredAt <= clock'
    BY DEF Labelled
  <2>2. streams[s][i] \in Events
    BY DEF EventIInv, TypeOK
  <2>3. streams[s][i].occurredAt \in Nat /\ clock \in Nat
    BY <2>2 DEF EventIInv, TypeOK, Events
  <2>4. streams[s][i].stream = s /\ streams[s][i].occurredAt <= clock
    BY DEF EventIInv, Labelled
  <2>5. QED
    BY <2>3, <2>4
<1>4. QED
  BY <1>1, <1>2, <1>3 DEF EventIInv

LEMMA EventsCommit ==
  ASSUME EventIInv, Numbered, Numbered', NEW w \in Writers, Commit(w)
  PROVE  EventIInv'
<1>. DEFINE a == aggregates[w]
            new == Stored(w, a.id, a.pending)
<1>1. /\ a \in Aggregates /\ streams' = [streams EXCEPT ![a.id] = @ \o new]
      /\ new \in Seq(Events) /\ Len(new) = a.pending /\ clock' = clock
      /\ projection' = projection
      /\ created' = IF a.id \in ToSet(created) THEN created ELSE Append(created, a.id)
  BY CommitExtends DEF Numbered, Commit
<1>2. /\ a.id \in Streams /\ a.pending \in Nat /\ clock \in Nat
      /\ created \in Seq(Streams) /\ IsInjective(created)
      /\ streams \in [Streams -> Seq(Events)]
  BY <1>1, AggregateTyped DEF EventIInv, TypeOK
<1>3. \A i \in 1 .. a.pending : new[i].stream = a.id /\ new[i].occurredAt = clock
  BY DEF Stored
<1>. HIDE DEF new
<1>4. DOMAIN new = 1 .. a.pending
  BY <1>1
<1>5. /\ created' \in Seq(Streams) /\ IsInjective(created')
      /\ ToSet(created') = ToSet(created) \cup {a.id}
  <2>. HIDE DEF a
  <2>1. CASE a.id \in ToSet(created)
    BY <1>1, <1>2, <2>1
  <2>2. CASE a.id \notin ToSet(created)
    <3>1. created' = Append(created, a.id)
      BY <1>1, <2>2
    <3>2. /\ ToSet(Append(created, a.id)) = ToSet(created) \cup {a.id}
          /\ \A j, k \in DOMAIN Append(created, a.id) :
               Append(created, a.id)[j] = Append(created, a.id)[k] => j = k
      <4>1. \A i, j \in DOMAIN created : created[i] = created[j] => i = j
        BY <1>2 DEF IsInjective
      <4>. DEFINE x == a.id
      <4>2. x \in Streams /\ x \notin ToSet(created) /\ created \in Seq(Streams)
        BY <1>2, <2>2
      <4>. HIDE DEF x
      <4>3. /\ ToSet(Append(created, x)) = ToSet(created) \cup {x}
            /\ \A j, k \in DOMAIN Append(created, x) :
                 Append(created, x)[j] = Append(created, x)[k] => j = k
        BY ONLY <4>1, <4>2, AppendRange
      <4>4. QED
        BY <4>3 DEF x
    <3>3. QED
      BY <1>2, <3>1, <3>2 DEF IsInjective
  <2>3. QED
    BY <2>1, <2>2
<1>6. TypeOK' /\ VersionsDense'
  BY <1>1, <1>2, <1>5 DEF Numbered, StoreTyped, TypeOK, EventIInv
<1>7. ASSUME NEW s \in Streams
      PROVE  /\ Labelled(s)' /\ Timely(s)'
             /\ streams'[s] # <<>> => s \in ToSet(created')
  <2>1. /\ Labelled(s) /\ Timely(s) /\ (streams[s] # <<>> => s \in ToSet(created))
        /\ streams[s] \in Seq(Events)
    BY <1>2 DEF EventIInv
  <2>2. CASE s # a.id
    <3>1. streams'[s] = streams[s]
      BY <1>1, <1>2, <2>2
    <3>2. QED
      BY <1>1, <1>5, <2>1, <3>1 DEF Labelled, Timely
  <2>3. CASE s = a.id
    <3>. DEFINE n == Len(streams[s])
                m == a.pending
                t == streams'[s]
    <3>1. t = streams[s] \o new
      BY <1>1, <1>2, <2>3
    <3>2. n \in Nat /\ m \in Nat /\ DOMAIN streams[s] = 1 .. n
      BY <1>2, <2>1
    <3>3. /\ DOMAIN t = 1 .. n + m
          /\ \A i \in 1 .. n : t[i] = streams[s][i]
          /\ \A i \in 1 .. m : t[n + i] = new[i]
      <4>. DEFINE u == streams[s]
      <4>1. u \in Seq(Events) /\ new \in Seq(Events) /\ t = u \o new /\ Len(new) = m
        BY <1>1, <2>1, <3>1
      <4>. HIDE DEF u, t, m
      <4>2. /\ DOMAIN t = 1 .. Len(u) + m
            /\ \A i \in 1 .. Len(u) : t[i] = u[i]
            /\ \A i \in 1 .. m : t[Len(u) + i] = new[i]
        BY <4>1, Concatenated
      <4>3. QED
        BY <4>2 DEF u
    <3>4. \A i \in 1 .. n : /\ streams[s][i].stream = s
                            /\ streams[s][i].occurredAt \in Nat
                            /\ streams[s][i].occurredAt <= clock
      <4>1. \A i \in 1 .. n : streams[s][i] \in Events
        BY <2>1
      <4>2. QED
        BY <2>1, <3>2, <4>1 DEF Labelled, Events
    <3>5. \A i, j \in 1 .. n :
            i <= j => streams[s][i].occurredAt <= streams[s][j].occurredAt
      BY <2>1, <3>2 DEF Timely
    <3>. HIDE DEF t, n, m
    <3>6. ASSUME NEW i \in 1 .. n + m
          PROVE  \/ i \in 1 .. n /\ t[i] = streams[s][i]
                 \/ i > n /\ t[i].stream = s /\ t[i].occurredAt = clock
      <4>1. CASE i \in 1 .. n
        BY <3>3, <4>1
      <4>2. CASE i \notin 1 .. n
        <5>1. i - n \in 1 .. m /\ n + (i - n) = i /\ i > n
          BY <3>2, <4>2
        <5>2. t[i] = new[i - n]
          BY <3>3, <5>1
        <5>3. QED
          BY <1>3, <2>3, <5>1, <5>2 DEF m
      <4>3. QED
        BY <4>1, <4>2
    <3>7. ASSUME NEW i \in 1 .. n + m
          PROVE  t[i].stream = s /\ t[i].occurredAt <= clock
      <4>1. clock <= clock
        BY <1>2
      <4>2. QED
        BY <3>4, <3>6, <4>1
    <3>8. ASSUME NEW i \in 1 .. n + m, NEW j \in 1 .. n + m, i <= j
          PROVE  t[i].occurredAt <= t[j].occurredAt
      <4>1. CASE j \in 1 .. n
        <5>1. i \in 1 .. n
          BY <3>2, <3>8, <4>1
        <5>2. QED
          BY <3>3, <3>5, <3>8, <4>1, <5>1
      <4>2. CASE j \notin 1 .. n
        <5>1. t[j].occurredAt = clock
          BY <3>6, <4>2
        <5>2. QED
          BY <3>7, <5>1
      <4>3. QED
        BY <4>1, <4>2
    <3>9. Labelled(s)' /\ Timely(s)'
      BY <1>1, <3>3, <3>7, <3>8 DEF Labelled, Timely, t
    <3>10. QED
      BY <1>5, <2>3, <3>9
  <2>4. QED
    BY <2>2, <2>3
<1>8. QED
  BY <1>5, <1>6, <1>7 DEF EventIInv

LEMMA EventsStep == EventIInv /\ [Next]_vars => EventIInv'
<1>. SUFFICES ASSUME EventIInv, [Next]_vars
              PROVE  EventIInv'
  OBVIOUS
<1>1. Numbered /\ clock \in Nat /\ clock <= clock
  BY DEF EventIInv, Numbered, TypeOK, StoreTyped
<1>2. Numbered'
  BY <1>1, NumberedInductive
<1>3. projection \in Seq(Events)
  BY DEF EventIInv, TypeOK
<1>4. ASSUME UNCHANGED <<streams, created, projection, clock>>
      PROVE  EventIInv'
  BY <1>1, <1>2, <1>3, <1>4, EventsSame
<1>5. ASSUME NEW w \in Writers, Commit(w)
      PROVE  EventIInv'
  BY <1>1, <1>2, <1>5, EventsCommit
<1>6. CASE Rebuild
  <2>1. projection \o AllEvents \in Seq(Events)
    BY <1>3, StreamsInOrder
  <2>2. (projection \in Seq(Events))'
    BY <1>6, <2>1 DEF Rebuild
  <2>3. QED
    BY <1>1, <1>2, <1>6, <2>2, EventsSame DEF Rebuild
<1>7. CASE Tick
  <2>1. clock' \in Nat /\ clock <= clock'
    BY <1>1, <1>7 DEF Tick
  <2>2. QED
    BY <1>2, <1>3, <1>7, <2>1, EventsSame DEF Tick
<1>8. QED
  BY <1>4, <1>5, <1>6, <1>7 DEF Next, Load, Raise, Conflict, vars

LEMMA EventsInit == Init => EventIInv
<1>. SUFFICES ASSUME Init PROVE EventIInv
  OBVIOUS
<1>1. \A s \in Streams : streams[s] = <<>> /\ DOMAIN streams[s] = {}
  BY DEF Init
<1>2. \A s \in Streams : Labelled(s) /\ Timely(s)
  BY <1>1 DEF Labelled, Timely
<1>3. IsInjective(created)
  BY DEF Init, IsInjective
<1>4. TypeOK /\ VersionsDense
  BY NumberedInit DEF Numbered, StoreTyped, TypeOK, Init
<1>5. QED
  BY <1>1, <1>2, <1>3, <1>4 DEF EventIInv

(* getAllEvents() has every event of every stream, those of a stream in the  *)
(* order of their versions, whoever appends, however many share a timestamp  *)
(* and in whatever order the streams began.                                  *)
THEOREM EventsAlwaysInOrder == Spec => []EventsInOrder
<1>1. EventIInv => EventsInOrder
  BY StreamsInOrder DEF EventIInv, EventsInOrder, AllInOrder
<1>2. QED
  BY <1>1, EventsInit, EventsStep, PTL DEF Spec
-----------------------------------------------------------------------------
(* The orchestrated saga.                                                   *)

(* The steps 1, 2, ... in the order they ran, and ..., 2, 1 left to undo.    *)
Rising(s) == s \in Seq(Nat) /\ \A i \in 1 .. Len(s) : s[i] = i
Falling(s) == s \in Seq(Nat) /\ \A i \in 1 .. Len(s) : s[i] = Len(s) + 1 - i

(* What is known of a run, n being the number of steps: until it fails, the  *)
(* effects that stand are those of the steps completed; from then on, those  *)
(* of the steps left to undo, and of later ones that could not be.           *)
Known(n, p, done, todo, st, sk) ==
  /\ Rising(done) /\ Falling(todo)
  /\ Len(todo) <= Len(done) /\ Len(done) <= n
  /\ p \in {"none", "acting", "completed"}
       => todo = <<>> /\ st = 1 .. Len(done) /\ sk = {}
  /\ p = "none" => done = <<>>
  /\ p = "acting" => Len(done) < n
  /\ p = "compensating" => todo # <<>>
  /\ p = "compensated" => todo = <<>>
  /\ p \in {"compensating", "compensated"}
       => st = 1 .. Len(todo) \cup sk /\ sk \subseteq Len(todo) + 1 .. Len(done)

KnownOf(r) ==
  Known(steps, phase[r], completed[r], undoing[r], standing[r], stuck[r])

Shapes ==
  /\ steps \in 0 .. MaxSteps
  /\ phase \in [Runs -> Phases]
  /\ completed \in [Runs -> Seq(Nat)] /\ undoing \in [Runs -> Seq(Nat)]
  /\ standing \in [Runs -> SUBSET Steps] /\ stuck \in [Runs -> SUBSET Steps]

IInv == Shapes /\ \A r \in Runs : KnownOf(r)
-----------------------------------------------------------------------------
LEMMA RisingRange ==
  ASSUME NEW s, Rising(s)
  PROVE  ToSet(s) = 1 .. Len(s) /\ IsInjective(s)
<1>1. DOMAIN s = 1 .. Len(s) /\ \A i \in 1 .. Len(s) : s[i] = i
  BY LenProperties DEF Rising
<1>2. ToSet(s) = 1 .. Len(s)
  BY <1>1 DEF ToSet
<1>3. IsInjective(s)
  BY <1>1 DEF IsInjective
<1>4. QED
  BY <1>2, <1>3

LEMMA FallingRange ==
  ASSUME NEW s, Falling(s)
  PROVE  ToSet(s) = 1 .. Len(s) /\ IsInjective(s)
<1>1. /\ DOMAIN s = 1 .. Len(s) /\ Len(s) \in Nat
      /\ \A i \in 1 .. Len(s) : s[i] = Len(s) + 1 - i
  BY LenProperties DEF Falling
<1>2. \A i \in DOMAIN s : s[i] \in 1 .. Len(s)
  BY <1>1
<1>3. ASSUME NEW k \in 1 .. Len(s) PROVE \E i \in DOMAIN s : s[i] = k
  <2>1. Len(s) + 1 - k \in DOMAIN s /\ s[Len(s) + 1 - k] = k
    BY <1>1
  <2>2. QED
    BY <2>1
<1>4. ToSet(s) = 1 .. Len(s)
  BY <1>2, <1>3 DEF ToSet
<1>5. \A i, j \in DOMAIN s : s[i] = s[j] => i = j
  BY <1>1
<1>6. QED
  BY <1>4, <1>5 DEF IsInjective

LEMMA RisingAppend ==
  ASSUME NEW s, Rising(s)
  PROVE  Rising(Append(s, Len(s) + 1)) /\ Len(Append(s, Len(s) + 1)) = Len(s) + 1
<1>1. s \in Seq(Nat) /\ Len(s) \in Nat
  BY LenProperties DEF Rising
<1>. DEFINE t == Append(s, Len(s) + 1)
<1>2. /\ t \in Seq(Nat) /\ Len(t) = Len(s) + 1
      /\ \A i \in 1 .. Len(s) : t[i] = s[i]
      /\ t[Len(s) + 1] = Len(s) + 1
  BY <1>1, AppendProperties
<1>. HIDE DEF t
<1>3. \A i \in 1 .. Len(t) : t[i] = i
  BY <1>1, <1>2 DEF Rising
<1>4. QED
  BY <1>2, <1>3 DEF Rising, t

(* compensate() walks backwards.                                             *)
LEMMA RisingReversed ==
  ASSUME NEW s, Rising(s)
  PROVE  Falling(Reverse(s)) /\ Len(Reverse(s)) = Len(s)
<1>1. s \in Seq(Nat) /\ Len(s) \in Nat
  BY LenProperties DEF Rising
<1>. DEFINE t == Reverse(s)
<1>2. t = [i \in 1 .. Len(s) |-> s[(Len(s) - i) + 1]]
  BY DEF Reverse
<1>3. \A i \in 1 .. Len(s) : (Len(s) - i) + 1 \in 1 .. Len(s)
  BY <1>1
<1>4. \A i \in 1 .. Len(s) : t[i] = Len(s) + 1 - i /\ t[i] \in Nat
  BY <1>1, <1>2, <1>3 DEF Rising
<1>5. t \in Seq(Nat) /\ Len(t) = Len(s)
  BY <1>1, <1>2, <1>4, IsASeq
<1>6. QED
  BY <1>4, <1>5 DEF Falling

LEMMA FallingTail ==
  ASSUME NEW s, Falling(s), s # <<>>
  PROVE  /\ Head(s) = Len(s) /\ Len(s) \in Nat \ {0}
         /\ Falling(Tail(s)) /\ Len(Tail(s)) = Len(s) - 1
<1>1. s \in Seq(Nat) /\ Len(s) \in Nat \ {0}
  BY LenProperties, EmptySeq DEF Falling
<1>2. Head(s) = Len(s)
  BY <1>1 DEF Falling
<1>. DEFINE t == Tail(s)
<1>3. /\ t \in Seq(Nat) /\ Len(t) = Len(s) - 1
      /\ \A i \in 1 .. Len(t) : t[i] = s[i + 1]
  BY <1>1, HeadTailProperties
<1>. HIDE DEF t
<1>4. \A i \in 1 .. Len(t) : t[i] = Len(t) + 1 - i
  BY <1>1, <1>3 DEF Falling
<1>5. QED
  BY <1>1, <1>2, <1>3, <1>4 DEF Falling, t
-----------------------------------------------------------------------------
(* The moves of one run, as facts about what is known of it.                 *)
LEMMA KnownWithMoreSteps ==
  ASSUME NEW n \in Nat, NEW p, NEW done, NEW todo, NEW st, NEW sk,
         Known(n, p, done, todo, st, sk)
  PROVE  Known(n + 1, p, done, todo, st, sk)
BY LenProperties DEF Known, Rising

LEMMA KnownActionDone ==
  ASSUME NEW n \in Nat, NEW done, NEW todo, NEW st, NEW sk,
         Known(n, "acting", done, todo, st, sk)
  PROVE  LET more == Append(done, Len(done) + 1)
             p == IF Len(done) + 1 >= n THEN "completed" ELSE "acting"
         IN  Known(n, p, more, todo, st \cup {Len(done) + 1}, sk)
<1>. DEFINE more == Append(done, Len(done) + 1)
            p == IF Len(done) + 1 >= n THEN "completed" ELSE "acting"
<1>1. Rising(more) /\ Len(more) = Len(done) + 1 /\ Len(done) \in Nat
  BY RisingAppend, LenProperties DEF Known, Rising
<1>2. p \in {"acting", "completed"} /\ (p = "acting" => Len(more) < n)
  BY <1>1
<1>3. /\ Falling(todo) /\ todo = <<>> /\ Len(todo) = 0 /\ sk = {}
      /\ st = 1 .. Len(done) /\ Len(done) < n
  BY EmptySeq DEF Known
<1>. HIDE DEF more, p
<1>4. st \cup {Len(done) + 1} = 1 .. Len(more)
  BY <1>1, <1>3
<1>5. Known(n, p, more, todo, st \cup {Len(done) + 1}, sk)
  BY <1>1, <1>2, <1>3, <1>4 DEF Known
<1>6. QED
  BY <1>5 DEF more, p

LEMMA KnownActionThrows ==
  ASSUME NEW n \in Nat, NEW done, NEW todo, NEW st, NEW sk,
         Known(n, "acting", done, todo, st, sk)
  PROVE  LET p == IF Reverse(done) = <<>> THEN "compensated" ELSE "compensating"
         IN  Known(n, p, done, Reverse(done), st, sk)
<1>. DEFINE back == Reverse(done)
            p == IF back = <<>> THEN "compensated" ELSE "compensating"
<1>1. Rising(done) /\ Falling(back) /\ Len(back) = Len(done) /\ Len(done) \in Nat
  BY RisingReversed, LenProperties DEF Known, Rising
<1>2. p \in {"compensated", "compensating"} /\ (p = "compensated" <=> back = <<>>)
  OBVIOUS
<1>3. st = 1 .. Len(done) /\ sk = {} /\ Len(done) < n
  BY DEF Known
<1>. HIDE DEF back, p
<1>4. Known(n, p, done, back, st, sk)
  BY <1>1, <1>2, <1>3 DEF Known
<1>5. QED
  BY <1>4 DEF back, p

LEMMA KnownCompensated ==
  ASSUME NEW n \in Nat, NEW done, NEW todo, NEW st, NEW sk,
         Known(n, "compensating", done, todo, st, sk)
  PROVE  /\ LET p == IF Tail(todo) = <<>> THEN "compensated" ELSE "compensating"
            IN  /\ Known(n, p, done, Tail(todo), st \ {Head(todo)}, sk)
                /\ Known(n, p, done, Tail(todo), st, sk \cup {Head(todo)})
         /\ Head(todo) \in st
<1>. DEFINE rest == Tail(todo)
            p == IF rest = <<>> THEN "compensated" ELSE "compensating"
<1>1. /\ Head(todo) = Len(todo) /\ Len(todo) \in Nat \ {0}
      /\ Falling(rest) /\ Len(rest) = Len(todo) - 1
  BY FallingTail DEF Known
<1>2. /\ p \in {"compensated", "compensating"}
      /\ p = "compensated" <=> rest = <<>>
  OBVIOUS
<1>3. /\ st = 1 .. Len(todo) \cup sk /\ sk \subseteq Len(todo) + 1 .. Len(done)
      /\ Rising(done) /\ Len(done) \in Nat
      /\ Len(todo) <= Len(done) /\ Len(done) <= n
  BY LenProperties DEF Known, Rising
<1>. HIDE DEF rest, p
<1>4. /\ st \ {Head(todo)} = 1 .. Len(rest) \cup sk
      /\ sk \subseteq Len(rest) + 1 .. Len(done)
  BY <1>1, <1>3
<1>5. /\ st = 1 .. Len(rest) \cup (sk \cup {Head(todo)})
      /\ sk \cup {Head(todo)} \subseteq Len(rest) + 1 .. Len(done)
  <2>. DEFINE k == Len(todo)
  <2>1. /\ Head(todo) = k /\ k \in Nat \ {0} /\ Len(rest) = k - 1
        /\ Len(done) \in Nat /\ k <= Len(done)
    BY <1>1, <1>3
  <2>2. st = 1 .. k \cup sk /\ sk \subseteq k + 1 .. Len(done)
    BY <1>3
  <2>. HIDE DEF k
  <2>3. 1 .. k = 1 .. k - 1 \cup {k} /\ k \in k .. Len(done)
    BY <2>1
  <2>4. k + 1 .. Len(done) \subseteq k .. Len(done)
    BY <2>1
  <2>5. st = 1 .. k - 1 \cup (sk \cup {k}) /\ sk \cup {k} \subseteq k .. Len(done)
    BY <2>2, <2>3, <2>4
  <2>6. Len(rest) + 1 = k
    BY <2>1
  <2>7. QED
    BY <2>1, <2>5, <2>6
<1>6. /\ Known(n, p, done, rest, st \ {Head(todo)}, sk)
      /\ Known(n, p, done, rest, st, sk \cup {Head(todo)})
  BY <1>1, <1>2, <1>3, <1>4, <1>5 DEF Known
<1>7. QED
  BY <1>1, <1>3, <1>6 DEF rest, p
-----------------------------------------------------------------------------
LEMMA InitIInv == ASSUME SagaInit PROVE IInv
<1>1. Shapes
  BY SagaAssumption, EmptySeq DEF SagaInit, Shapes, Phases
<1>2. Rising(<<>>) /\ Falling(<<>>) /\ Len(<<>>) = 0
  BY EmptySeq DEF Rising, Falling
<1>3. \A r \in Runs : KnownOf(r)
  BY <1>2 DEF SagaInit, KnownOf, Known
<1>4. QED
  BY <1>1, <1>3 DEF IInv

(* A step of one run leaves the others as they are.                          *)
LEMMA OneRun ==
  ASSUME IInv, NEW r \in Runs, Shapes', UNCHANGED steps, KnownOf(r)',
         \A x \in Runs \ {r} :
           /\ phase'[x] = phase[x] /\ completed'[x] = completed[x]
           /\ undoing'[x] = undoing[x] /\ standing'[x] = standing[x]
           /\ stuck'[x] = stuck[x]
  PROVE  IInv'
BY DEF IInv, KnownOf

LEMMA SettlesKept ==
  ASSUME IInv, NEW r \in Runs, Run(r) \/ Settles(r)
  PROVE  IInv'
<1>. USE SagaAssumption DEF IInv, Shapes, Phases
<1>0. KnownOf(r) /\ steps \in Nat
  OBVIOUS
<1>1. CASE Run(r)
  <2>1. Shapes' /\ UNCHANGED steps
    BY <1>1 DEF Run
  <2>2. /\ completed' = completed /\ undoing' = undoing
        /\ standing' = standing /\ stuck' = stuck /\ phase[r] = "none"
        /\ phase'[r] = IF 0 >= steps THEN "completed" ELSE "acting"
        /\ \A x \in Runs \ {r} : phase'[x] = phase[x]
    BY <1>1 DEF Run, NoneLeft
  <2>3. completed[r] = <<>> /\ Len(completed[r]) = 0
    BY <1>0, <2>2, EmptySeq DEF KnownOf, Known
  <2>4. KnownOf(r)'
    BY <1>0, <2>1, <2>2, <2>3 DEF KnownOf, Known
  <2>5. QED
    BY <2>1, <2>2, <2>4, OneRun
<1>2. CASE ActionDone(r)
  <2>. DEFINE n == Len(completed[r]) + 1
  <2>1. /\ phase[r] = "acting" /\ UNCHANGED <<steps, undoing, stuck>>
        /\ completed' = [completed EXCEPT ![r] = Append(@, n)]
        /\ standing' = [standing EXCEPT ![r] = @ \cup {n}]
        /\ phase' = [phase EXCEPT ![r] = IF n >= steps THEN "completed" ELSE @]
    BY <1>2 DEF ActionDone, NoneLeft
  <2>2. n \in Nat /\ n \in 1 .. steps
    BY <1>0, <2>1, LenProperties DEF KnownOf, Known, Rising
  <2>3. n \in Steps
    BY <2>2 DEF Steps
  <2>. HIDE DEF n
  <2>4. Append(completed[r], n) \in Seq(Nat)
    BY <2>2
  <2>5. Shapes'
    BY <2>1, <2>3, <2>4
  <2>6. /\ completed'[r] = Append(completed[r], n) /\ undoing'[r] = undoing[r]
        /\ standing'[r] = standing[r] \cup {n} /\ stuck'[r] = stuck[r]
        /\ phase'[r] = IF n >= steps THEN "completed" ELSE "acting"
    BY <2>1
  <2>7. Known(steps, "acting", completed[r], undoing[r], standing[r], stuck[r])
    BY <1>0, <2>1 DEF KnownOf
  <2>8. Known(steps, IF n >= steps THEN "completed" ELSE "acting",
              Append(completed[r], n), undoing[r], standing[r] \cup {n}, stuck[r])
    BY <1>0, <2>7, KnownActionDone DEF n
  <2>9. KnownOf(r)'
    BY <2>1, <2>6, <2>8 DEF KnownOf
  <2>10. QED
    BY <2>1, <2>5, <2>9, OneRun
<1>3. CASE ActionThrows(r)
  <2>. DEFINE back == Reverse(completed[r])
  <2>1. /\ phase[r] = "acting"
        /\ UNCHANGED <<steps, completed, standing, stuck>>
        /\ undoing' = [undoing EXCEPT ![r] = back]
        /\ phase' = [phase EXCEPT ![r] = IF back = <<>> THEN "compensated"
                                         ELSE "compensating"]
    BY <1>3 DEF ActionThrows, CompensateFrom, ToCompensate
  <2>2. Known(steps, "acting", completed[r], undoing[r], standing[r], stuck[r])
    BY <1>0, <2>1 DEF KnownOf
  <2>3. back \in Seq(Nat)
    BY <2>2, RisingReversed DEF Known, Falling
  <2>4. /\ undoing'[r] = back
        /\ phase'[r] = IF back = <<>> THEN "compensated" ELSE "compensating"
    BY <2>1
  <2>5. KnownOf(r)'
    BY <1>0, <2>1, <2>2, <2>4, KnownActionThrows DEF KnownOf
  <2>. HIDE DEF back
  <2>6. Shapes'
    BY <2>1, <2>3
  <2>7. QED
    BY <2>1, <2>5, <2>6, OneRun
<1>4. CASE CompensationDone(r) \/ CompensationThrows(r)
  <2>. DEFINE rest == Tail(undoing[r])
              step == Head(undoing[r])
  <2>1. /\ phase[r] = "compensating" /\ UNCHANGED <<steps, completed>>
        /\ undoing' = [undoing EXCEPT ![r] = rest]
        /\ phase' = [phase EXCEPT ![r] = IF rest = <<>> THEN "compensated"
                                         ELSE "compensating"]
        /\ \/ /\ standing' = [standing EXCEPT ![r] = @ \ {step}]
              /\ stuck' = stuck
           \/ /\ stuck' = [stuck EXCEPT ![r] = @ \cup {step}]
              /\ standing' = standing
    BY <1>4 DEF CompensationDone, CompensationThrows, CompensateFrom, Rest
  <2>2. Known(steps, "compensating", completed[r], undoing[r], standing[r],
              stuck[r])
    BY <1>0, <2>1 DEF KnownOf
  <2>3. rest \in Seq(Nat)
    BY <2>2, FallingTail DEF Known, Falling
  <2>4. /\ LET p == IF rest = <<>> THEN "compensated" ELSE "compensating"
           IN  /\ Known(steps, p, completed[r], rest, standing[r] \ {step},
                        stuck[r])
               /\ Known(steps, p, completed[r], rest, standing[r],
                        stuck[r] \cup {step})
        /\ step \in standing[r]
    BY <1>0, <2>2, KnownCompensated
  <2>. HIDE DEF rest, step
  <2>5. step \in Steps
    BY <2>4
  <2>6. Shapes'
    BY <2>1, <2>3, <2>5
  <2>7. /\ undoing'[r] = rest
        /\ phase'[r] = IF rest = <<>> THEN "compensated" ELSE "compensating"
        /\ \/ standing'[r] = standing[r] \ {step} /\ stuck'[r] = stuck[r]
           \/ standing'[r] = standing[r] /\ stuck'[r] = stuck[r] \cup {step}
    BY <2>1
  <2>8. KnownOf(r)'
    BY <2>1, <2>4, <2>7 DEF KnownOf
  <2>9. QED
    BY <2>1, <2>6, <2>8, OneRun
<1>5. QED
  BY <1>1, <1>2, <1>3, <1>4 DEF Settles

LEMMA NextIInv == ASSUME IInv, [SagaNext]_sagaVars PROVE IInv'
<1>1. ASSUME NEW r \in Runs, Run(r) \/ Settles(r) PROVE IInv'
  BY <1>1, SettlesKept
<1>2. CASE AddStep
  <2>1. /\ steps' = steps + 1 /\ steps < MaxSteps
        /\ UNCHANGED <<phase, completed, undoing, standing, stuck>>
    BY <1>2 DEF AddStep
  <2>2. Shapes'
    BY SagaAssumption, <2>1 DEF IInv, Shapes
  <2>3. \A r \in Runs : KnownOf(r)'
    BY <2>1, KnownWithMoreSteps DEF IInv, Shapes, KnownOf
  <2>4. QED
    BY <2>2, <2>3 DEF IInv
<1>3. CASE UNCHANGED sagaVars
  BY <1>3 DEF IInv, Shapes, KnownOf, sagaVars
<1>4. QED
  BY <1>1, <1>2, <1>3 DEF SagaNext
-----------------------------------------------------------------------------
LEMMA AlwaysIInv == SagaSpec => []IInv
<1>1. SagaInit => IInv
  BY InitIInv
<1>2. IInv /\ [SagaNext]_sagaVars => IInv'
  BY NextIInv
<1>3. QED
  BY <1>1, <1>2, PTL DEF SagaSpec

LEMMA IInvUndone == ASSUME IInv PROVE SagaTypeOK /\ UndoneInReverse
<1>1. ASSUME NEW r \in Runs
      PROVE  /\ ToSet(completed[r]) = 1 .. Len(completed[r])
             /\ ToSet(undoing[r]) = 1 .. Len(undoing[r])
             /\ IsInjective(completed[r]) /\ IsInjective(undoing[r])
             /\ Len(undoing[r]) \in Nat /\ Len(undoing[r]) <= Len(completed[r])
             /\ Len(completed[r]) \in Nat /\ Len(completed[r]) <= steps
  BY RisingRange, FallingRange, LenProperties
     DEF IInv, KnownOf, Known, Rising, Falling
<1>2. SagaTypeOK
  BY SagaAssumption, <1>1 DEF IInv, Shapes, SagaTypeOK
<1>3. ASSUME NEW r \in Runs, NEW i \in standing[r], NEW j \in 1 .. i
      PROVE  j \in standing[r] \/ i \in stuck[r]
  <2>1. phase[r] \in Phases /\ KnownOf(r) /\ i \in Nat
    BY DEF IInv, Shapes, Steps
  <2>2. CASE phase[r] \in {"none", "acting", "completed"}
    <3>1. standing[r] = 1 .. Len(completed[r])
      BY <2>1, <2>2 DEF KnownOf, Known
    <3>2. QED
      BY <1>1, <2>1, <3>1
  <2>3. CASE phase[r] \in {"compensating", "compensated"}
    <3>1. standing[r] = 1 .. Len(undoing[r]) \cup stuck[r]
      BY <2>1, <2>3 DEF KnownOf, Known
    <3>2. QED
      BY <1>1, <2>1, <3>1
  <2>4. QED
    BY <2>1, <2>2, <2>3 DEF Phases
<1>4. QED
  BY <1>2, <1>3 DEF UndoneInReverse

(* saga.ts:32-65: whatever actions and compensations throw, and however      *)
(* many steps are added meanwhile, a run ends with the effects of all the    *)
(* steps it completed or of those only whose compensation threw, and never   *)
(* undoes a step before a later one that can be undone.                      *)
THEOREM AllEffectsOrNone == SagaSpec => []AllOrNothing
<1>1. IInv => AllOrNothing
  <2>. SUFFICES ASSUME IInv, NEW r \in Runs
       PROVE  /\ phase[r] = "completed" => standing[r] = ToSet(completed[r])
              /\ phase[r] = "compensated" => standing[r] = stuck[r]
    BY IInvUndone DEF AllOrNothing
  <2>1. KnownOf(r) /\ ToSet(completed[r]) = 1 .. Len(completed[r])
    BY RisingRange DEF IInv, KnownOf, Known
  <2>2. phase[r] = "compensated" => 1 .. Len(undoing[r]) = {}
    BY <2>1, EmptySeq DEF KnownOf, Known
  <2>3. QED
    BY <2>1, <2>2 DEF KnownOf, Known
<1>2. QED
  BY <1>1, AlwaysIInv, PTL

(* saga.ts:35-49: a run that completes has run every step the saga has by    *)
(* then, those added while it ran included.                                  *)
THEOREM EveryStepRun == SagaSpec => NoStepForgotten
<1>1. ASSUME IInv, SagaNext, NEW r \in Runs,
             phase[r] # "completed", phase'[r] = "completed"
      PROVE  ToSet(completed'[r]) = 1 .. steps
  <2>. USE DEF IInv, Shapes
  <2>0. KnownOf(r) /\ steps \in Nat
    BY SagaAssumption, <1>1
  <2>1. PICK x \in Runs : Run(x) \/ Settles(x)
    BY <1>1 DEF SagaNext, AddStep
  <2>2. x = r
    <3>1. x # r => phase'[r] = phase[r]
      <4>1. \E p : phase' = [phase EXCEPT ![x] = p]
        BY <2>1 DEF Run, Settles, ActionDone, ActionThrows, CompensationDone,
           CompensationThrows, CompensateFrom
      <4>2. QED
        BY <1>1, <4>1
    <3>2. QED
      BY <1>1, <3>1
  <2>3. CASE Run(r)
    <3>1. phase[r] = "none" /\ 0 >= steps /\ completed' = completed
      BY <1>1, <2>3 DEF Run, NoneLeft
    <3>2. completed'[r] = <<>> /\ 1 .. steps = {}
      BY <2>0, <3>1 DEF KnownOf, Known
    <3>3. QED
      BY <3>2 DEF ToSet
  <2>4. CASE ActionDone(r)
    <3>. DEFINE n == Len(completed[r]) + 1
    <3>1. /\ phase[r] = "acting"
          /\ completed'[r] = Append(completed[r], n)
          /\ phase'[r] = IF n >= steps THEN "completed" ELSE phase[r]
      BY <1>1, <2>4 DEF ActionDone, NoneLeft
    <3>2. /\ Rising(completed[r]) /\ Len(completed[r]) < steps
          /\ Len(completed[r]) \in Nat
      BY <2>0, <3>1, LenProperties DEF KnownOf, Known, Rising
    <3>3. n = steps
      BY <1>1, <2>0, <3>1, <3>2
    <3>4. /\ Rising(Append(completed[r], n)) /\ Len(Append(completed[r], n)) = n
      BY <3>2, RisingAppend
    <3>5. QED
      BY <3>1, <3>3, <3>4, RisingRange
  <2>5. CASE ActionThrows(r) \/ CompensationDone(r) \/ CompensationThrows(r)
    <3>1. phase'[r] \in {"compensated", "compensating"}
      BY <1>1, <2>5 DEF ActionThrows, CompensationDone, CompensationThrows,
         CompensateFrom
    <3>2. QED
      BY <1>1, <3>1
  <2>6. QED
    BY <2>1, <2>2, <2>3, <2>4, <2>5 DEF Settles
<1>2. IInv /\ [SagaNext]_sagaVars
        => [\A r \in Runs : phase[r] # "completed" /\ phase'[r] = "completed"
              => ToSet(completed'[r]) = 1 .. steps]_sagaVars
  BY <1>1
<1>3. QED
  BY <1>2, AlwaysIInv, PTL DEF SagaSpec, NoStepForgotten
-----------------------------------------------------------------------------
(* The event buses.                                                          *)

(* What is known of an emission while the list is l: it goes through what    *)
(* was due when it began and then through handlers that were added; it has   *)
(* called the first of these, in order.  PubSub's goes through a copy.       *)
EmissionKnown(e, l) ==
  /\ e \in buses!Emissions
  /\ e.live => e.over = l
  /\ kind = "pubsub" => ~e.live /\ e.over = e.due
  /\ Len(e.due) <= Len(e.over) /\ Len(e.called) <= Len(e.over)
  /\ \A j \in 1 .. Len(e.called) : e.called[j] = e.over[j]
  /\ \A j \in 1 .. Len(e.due) : e.over[j] = e.due[j]
  /\ \A j \in Len(e.due) + 1 .. Len(e.over) : e.over[j] \in e.added

BusIInv ==
  /\ kind \in {"local", "pubsub", "saga"}
  /\ list \in Seq(Handlers) /\ Len(list) <= MaxHandlers
  /\ kind = "pubsub" => IsInjective(list)
  /\ running \in Seq(buses!Emissions)
  /\ \A i \in 1 .. Len(running) : EmissionKnown(running[i], list)

LEMMA SameOperators ==
  /\ \A S : buses!Cardinality(S) = Cardinality(S)
  /\ \A s : buses!ToSet(s) = ToSet(s)
  /\ \A s : buses!IsInjective(s) = IsInjective(s)
  /\ \A s, i : buses!RemoveAt(s, i) = RemoveAt(s, i)
  /\ \A s, T : buses!Kept(s, T) = Kept(s, T)
BY DEF buses!Cardinality, Cardinality, buses!ToSet, ToSet, buses!IsInjective, IsInjective,
   buses!RemoveAt, RemoveAt, buses!Kept, Kept, buses!FoldLeft, FoldLeft,
   buses!MapThenFoldSet, MapThenFoldSet, buses!Max, Max, buses!IsFiniteSet, IsFiniteSet

LEMMA EmissionFields ==
  ASSUME NEW e \in buses!Emissions
  PROVE  /\ e.over \in Seq(Handlers) /\ e.live \in BOOLEAN
         /\ e.called \in Seq(Handlers) /\ e.due \in Seq(Handlers)
         /\ e.added \in SUBSET Handlers
BY DEF buses!Emissions

LEMMA PushedKnown ==
  ASSUME NEW l \in Seq(Handlers), NEW h \in Handlers, NEW e, EmissionKnown(e, l)
  PROVE  EmissionKnown(buses!Pushed(e, h), Append(l, h))
<1>. DEFINE f == buses!Pushed(e, h)
<1>1. /\ e.over \in Seq(Handlers) /\ e.live \in BOOLEAN
      /\ e.called \in Seq(Handlers) /\ e.due \in Seq(Handlers)
      /\ e.added \in SUBSET Handlers /\ e \in buses!Emissions
  BY EmissionFields DEF EmissionKnown
<1>2. /\ f.live = e.live /\ f.called = e.called /\ f.due = e.due
      /\ f.added = e.added \cup {h}
      /\ f.over = IF e.live THEN Append(e.over, h) ELSE e.over
      /\ f \in buses!Emissions
  <2>. DEFINE v == IF e.live THEN Append(e.over, h) ELSE e.over
              a == e.added \cup {h}
  <2>1. v \in Seq(Handlers) /\ a \in SUBSET Handlers
    BY <1>1
  <2>2. f = [e EXCEPT !.over = v, !.added = a]
    BY DEF buses!Pushed
  <2>. HIDE DEF v, a, f
  <2>3. /\ f.live = e.live /\ f.called = e.called /\ f.due = e.due
        /\ f.added = a /\ f.over = v /\ f \in buses!Emissions
    BY <1>1, <2>1, <2>2 DEF buses!Emissions
  <2>4. QED
    BY <2>3 DEF v, a
<1>. HIDE DEF f
<1>3. ASSUME e.live
      PROVE  EmissionKnown(f, Append(l, h))
  <2>1. /\ f.over \in Seq(Handlers) /\ Len(f.over) = Len(e.over) + 1
        /\ \A j \in 1 .. Len(e.over) : f.over[j] = e.over[j]
        /\ f.over[Len(e.over) + 1] = h /\ Len(e.over) \in Nat
    BY <1>1, <1>2, <1>3, AppendProperties
  <2>2. f.over = Append(l, h) /\ kind # "pubsub"
    BY <1>2, <1>3 DEF EmissionKnown
  <2>3. Len(e.due) \in Nat /\ Len(e.called) \in Nat
    BY <1>1
  <2>4. \A j \in 1 .. Len(f.called) : f.called[j] = f.over[j]
    BY <1>2, <2>1, <2>3 DEF EmissionKnown
  <2>5. \A j \in 1 .. Len(f.due) : f.over[j] = f.due[j]
    BY <1>2, <2>1, <2>3 DEF EmissionKnown
  <2>6. \A j \in Len(f.due) + 1 .. Len(f.over) : f.over[j] \in f.added
    <3>1. TAKE j \in Len(f.due) + 1 .. Len(f.over)
    <3>2. CASE j = Len(e.over) + 1
      BY <1>2, <2>1, <3>2
    <3>3. CASE j # Len(e.over) + 1
      <4>1. j \in Len(e.due) + 1 .. Len(e.over) /\ j \in 1 .. Len(e.over)
        BY <1>2, <2>1, <2>3, <3>3
      <4>2. e.over[j] \in e.added
        BY <4>1 DEF EmissionKnown
      <4>3. QED
        BY <1>2, <2>1, <4>1, <4>2
    <3>4. QED
      BY <3>2, <3>3
  <2>7. Len(f.due) <= Len(f.over) /\ Len(f.called) <= Len(f.over)
    BY <1>2, <2>1, <2>3 DEF EmissionKnown
  <2>8. QED
    BY <1>2, <1>3, <2>2, <2>4, <2>5, <2>6, <2>7 DEF EmissionKnown
<1>4. ASSUME ~e.live
      PROVE  EmissionKnown(f, Append(l, h))
  <2>1. f.over = e.over
    BY <1>2, <1>4
  <2>2. \A j \in Len(f.due) + 1 .. Len(f.over) : f.over[j] \in f.added
    BY <1>2, <2>1 DEF EmissionKnown
  <2>. QED
    BY <1>2, <1>4, <2>1, <2>2 DEF EmissionKnown
<1>5. EmissionKnown(f, Append(l, h))
  BY <1>1, <1>3, <1>4
<1>6. QED
  BY <1>5 DEF f

LEMMA ReplacedKnown ==
  ASSUME NEW e, NEW l, NEW m, EmissionKnown(e, l)
  PROVE  EmissionKnown(buses!Replaced(e, m), m)
<1>1. e \in buses!Emissions
  BY DEF EmissionKnown
<1>2. [e EXCEPT !.live = FALSE] \in buses!Emissions
  BY <1>1 DEF buses!Emissions
<1>3. QED
  BY <1>1, <1>2 DEF EmissionKnown, buses!Replaced, buses!Emissions

LEMMA CalledKnown ==
  ASSUME NEW e, NEW l, EmissionKnown(e, l), Len(e.called) < Len(e.over)
  PROVE  EmissionKnown([e EXCEPT !.called = Append(@, e.over[Len(e.called) + 1])], l)
<1>. DEFINE f == [e EXCEPT !.called = Append(@, e.over[Len(e.called) + 1])]
<1>1. /\ e.over \in Seq(Handlers) /\ e.live \in BOOLEAN
      /\ e.called \in Seq(Handlers) /\ e.due \in Seq(Handlers)
      /\ e.added \in SUBSET Handlers /\ e \in buses!Emissions
  BY EmissionFields DEF EmissionKnown
<1>2. Len(e.called) \in Nat /\ e.over[Len(e.called) + 1] \in Handlers
  BY <1>1
<1>3. /\ f.live = e.live /\ f.due = e.due /\ f.added = e.added /\ f.over = e.over
      /\ f.called = Append(e.called, e.over[Len(e.called) + 1])
      /\ f \in buses!Emissions
  <2>. DEFINE v == Append(e.called, e.over[Len(e.called) + 1])
  <2>1. v \in Seq(Handlers) /\ f = [e EXCEPT !.called = v]
    BY <1>1, <1>2
  <2>. HIDE DEF v, f
  <2>2. /\ f.live = e.live /\ f.due = e.due /\ f.added = e.added /\ f.over = e.over
        /\ f.called = v /\ f \in buses!Emissions
    BY <1>1, <2>1 DEF buses!Emissions
  <2>3. QED
    BY <2>2 DEF v
<1>. HIDE DEF f
<1>4. /\ Len(f.called) = Len(e.called) + 1
      /\ \A j \in 1 .. Len(e.called) : f.called[j] = e.called[j]
      /\ f.called[Len(e.called) + 1] = e.over[Len(e.called) + 1]
  BY <1>1, <1>2, <1>3, AppendProperties
<1>5. \A j \in 1 .. Len(f.called) : f.called[j] = f.over[j]
  <2>1. TAKE j \in 1 .. Len(f.called)
  <2>2. CASE j = Len(e.called) + 1
    BY <1>3, <1>4, <2>2
  <2>3. CASE j # Len(e.called) + 1
    <3>1. j \in 1 .. Len(e.called)
      BY <1>2, <1>4, <2>3
    <3>2. QED
      BY <1>3, <1>4, <3>1 DEF EmissionKnown
  <2>4. QED
    BY <2>2, <2>3
<1>6. Len(f.called) <= Len(f.over)
  BY <1>1, <1>2, <1>3, <1>4
<1>7. EmissionKnown(f, l)
  BY <1>3, <1>5, <1>6 DEF EmissionKnown
<1>8. QED
  BY <1>7 DEF f

LEMMA NewKnown ==
  ASSUME list \in Seq(Handlers), list # <<>>
  PROVE  EmissionKnown([over |-> list, live |-> kind # "pubsub",
                        called |-> <<Head(list)>>, due |-> list, added |-> {}], list)
<1>1. /\ Head(list) \in Handlers /\ Head(list) = list[1] /\ Len(list) \in Nat
      /\ Len(list) >= 1
  OBVIOUS
<1>2. <<Head(list)>> \in Seq(Handlers) /\ Len(<<Head(list)>>) = 1
  BY <1>1
<1>. DEFINE f == [over |-> list, live |-> kind # "pubsub",
                  called |-> <<Head(list)>>, due |-> list, added |-> {}]
<1>3. /\ f \in buses!Emissions /\ f.over = list /\ f.due = list
      /\ f.live = (kind # "pubsub") /\ f.called = <<Head(list)>>
  BY <1>2 DEF buses!Emissions
<1>4. <<Head(list)>>[1] = list[1] /\ \A j \in 1 .. 1 : j = 1
  BY <1>1
<1>. HIDE DEF f
<1>5. kind = "pubsub" => ~f.live
  BY <1>3
<1>6. EmissionKnown(f, list)
  BY <1>1, <1>2, <1>3, <1>4, <1>5 DEF EmissionKnown
<1>7. QED
  BY <1>6 DEF f

LEMMA OnKnown ==
  ASSUME BusIInv, NEW h \in Handlers, buses!On(h)
  PROVE  BusIInv'
<1>1. kind' = kind /\ Len(list) < MaxHandlers /\ MaxHandlers \in Nat
  BY ArchitectureAssumption DEF buses!On, buses!BusAssumption
<1>2. CASE UNCHANGED <<list, running>>
  BY <1>1, <1>2 DEF BusIInv, EmissionKnown
<1>3. ASSUME ~(kind = "pubsub" /\ h \in ToSet(list)),
             list' = Append(list, h),
             running' = [i \in DOMAIN running |-> buses!Pushed(running[i], h)]
      PROVE  BusIInv'
  <2>1. /\ list' \in Seq(Handlers) /\ Len(list') <= MaxHandlers
        /\ kind = "pubsub" => IsInjective(list')
    <3>1. /\ list' \in Seq(Handlers) /\ Len(list') = Len(list) + 1
      BY <1>3, AppendProperties DEF BusIInv
    <3>2. kind = "pubsub" => IsInjective(list')
      BY <1>3, AppendRange DEF BusIInv, IsInjective
    <3>3. Len(list) \in Nat
      BY DEF BusIInv
    <3>4. QED
      BY <1>1, <3>1, <3>2, <3>3
  <2>. DEFINE n == Len(running)
  <2>2. n \in Nat /\ DOMAIN running = 1 .. n
    BY DEF BusIInv
  <2>3. \A i \in 1 .. n : EmissionKnown(buses!Pushed(running[i], h), Append(list, h))
    BY PushedKnown DEF BusIInv
  <2>4. \A i \in 1 .. n : running'[i] = buses!Pushed(running[i], h)
    BY <1>3, <2>2
  <2>5. \A i \in 1 .. n : running'[i] \in buses!Emissions
    BY <2>3, <2>4 DEF EmissionKnown
  <2>6. running' = [i \in 1 .. n |-> running'[i]]
    BY <1>3, <2>2
  <2>7. running' \in Seq(buses!Emissions) /\ Len(running') = n
    BY <2>2, <2>5, <2>6, SeqByElements
  <2>8. (\A i \in 1 .. Len(running) : EmissionKnown(running[i], list))'
    <3>1. \A i \in 1 .. Len(running') : EmissionKnown(running'[i], list')
      BY <1>3, <2>3, <2>4, <2>7
    <3>2. QED
      BY <1>1, <3>1 DEF EmissionKnown
  <2>9. QED
    BY <1>1, <2>1, <2>7, <2>8 DEF BusIInv
<1>4. QED
  BY <1>2, <1>3, SameOperators DEF buses!On

LEMMA OffKnown ==
  ASSUME BusIInv, NEW h \in Handlers, buses!Off(h)
  PROVE  BusIInv'
<1>1. /\ kind' = kind
      /\ list' = Kept(list, ToSet(list) \ {h})
      /\ running' = [i \in DOMAIN running |-> buses!Replaced(running[i], list')]
  BY SameOperators DEF buses!Off
<1>2. /\ list' \in Seq(Handlers) /\ Len(list') <= MaxHandlers
      /\ kind = "pubsub" => IsInjective(list')
  <2>1. /\ list' \in Seq(Handlers) /\ Len(list') <= Len(list)
        /\ IsInjective(list) => IsInjective(list')
    BY <1>1, KeptProperties, KeptRange DEF BusIInv
  <2>2. Len(list) \in Nat /\ Len(list') \in Nat /\ MaxHandlers \in Nat
    BY <2>1, ArchitectureAssumption DEF BusIInv, buses!BusAssumption
  <2>3. QED
    BY <2>1, <2>2 DEF BusIInv
<1>. DEFINE n == Len(running)
<1>3. n \in Nat /\ DOMAIN running = 1 .. n
  BY DEF BusIInv
<1>4. \A i \in 1 .. n : EmissionKnown(buses!Replaced(running[i], list'), list')
  BY ReplacedKnown DEF BusIInv
<1>5. \A i \in 1 .. n : running'[i] = buses!Replaced(running[i], list')
  BY <1>1, <1>3
<1>6. \A i \in 1 .. n : running'[i] \in buses!Emissions
  BY <1>4, <1>5 DEF EmissionKnown
<1>7. running' = [i \in 1 .. n |-> running'[i]]
  BY <1>1, <1>3
<1>8. running' \in Seq(buses!Emissions) /\ Len(running') = n
  BY <1>3, <1>6, <1>7, SeqByElements
<1>9. (\A i \in 1 .. Len(running) : EmissionKnown(running[i], list))'
  <2>1. ASSUME NEW i \in 1 .. n
        PROVE  EmissionKnown(running[i], list)'
    <3>1. EmissionKnown(running'[i], list')
      BY <1>4, <1>5
    <3>2. QED
      BY <1>1, <3>1 DEF EmissionKnown
  <2>2. QED
    BY <1>8, <2>1
<1>10. QED
  BY <1>1, <1>2, <1>8, <1>9 DEF BusIInv

LEMMA EmitKnown ==
  ASSUME BusIInv, buses!Emit
  PROVE  BusIInv'
<1>. DEFINE e == [over |-> list, live |-> kind # "pubsub",
                  called |-> <<Head(list)>>, due |-> list, added |-> {}]
<1>1. list # <<>> /\ running' = Append(running, e) /\ kind' = kind /\ list' = list
  BY DEF buses!Emit
<1>2. EmissionKnown(e, list)
  BY <1>1, NewKnown DEF BusIInv
<1>. HIDE DEF e
<1>3. e \in buses!Emissions
  BY <1>2 DEF EmissionKnown
<1>4. /\ running' \in Seq(buses!Emissions) /\ Len(running') = Len(running) + 1
      /\ \A i \in 1 .. Len(running) : running'[i] = running[i]
      /\ running'[Len(running) + 1] = e /\ Len(running) \in Nat
  BY <1>1, <1>3, AppendProperties DEF BusIInv
<1>5. \A i \in 1 .. Len(running') : EmissionKnown(running'[i], list)
  <2>1. TAKE i \in 1 .. Len(running')
  <2>2. CASE i = Len(running) + 1
    BY <1>2, <1>4, <2>2
  <2>3. CASE i # Len(running) + 1
    <3>1. i \in 1 .. Len(running)
      BY <1>4, <2>3
    <3>2. QED
      BY <1>4, <3>1 DEF BusIInv
  <2>4. QED
    BY <2>2, <2>3
<1>6. (\A i \in 1 .. Len(running) : EmissionKnown(running[i], list))'
  BY <1>1, <1>5 DEF EmissionKnown
<1>7. QED
  BY <1>1, <1>4, <1>6 DEF BusIInv

LEMMA CallNextKnown ==
  ASSUME BusIInv, NEW i \in DOMAIN running, buses!CallNext(i)
  PROVE  BusIInv'
<1>. DEFINE e == running[i]
            f == [e EXCEPT !.called = Append(@, e.over[Len(e.called) + 1])]
<1>1. /\ Len(e.called) < Len(e.over) /\ kind' = kind /\ list' = list
      /\ running' = [running EXCEPT ![i] = f]
  BY DEF buses!CallNext
<1>2. i \in 1 .. Len(running) /\ Len(running) \in Nat
  BY DEF BusIInv
<1>3. EmissionKnown(f, list)
  BY <1>1, <1>2, CalledKnown DEF BusIInv
<1>. HIDE DEF f
<1>4. f \in buses!Emissions
  BY <1>3 DEF EmissionKnown
<1>5. /\ running' \in Seq(buses!Emissions) /\ Len(running') = Len(running)
      /\ \A j \in 1 .. Len(running) : running'[j] = IF j = i THEN f ELSE running[j]
  BY <1>1, <1>2, <1>4 DEF BusIInv
<1>6. \A j \in 1 .. Len(running') : EmissionKnown(running'[j], list)
  <2>1. TAKE j \in 1 .. Len(running')
  <2>2. CASE j = i
    BY <1>2, <1>3, <1>5, <2>2
  <2>3. CASE j # i
    BY <1>5, <2>3 DEF BusIInv
  <2>4. QED
    BY <2>2, <2>3
<1>7. (\A j \in 1 .. Len(running) : EmissionKnown(running[j], list))'
  BY <1>1, <1>6 DEF EmissionKnown
<1>8. QED
  BY <1>1, <1>5, <1>7 DEF BusIInv

LEMMA EndKnown ==
  ASSUME BusIInv, NEW i \in DOMAIN running,
         running' = RemoveAt(running, i), UNCHANGED <<kind, list>>
  PROVE  BusIInv'
<1>1. i \in 1 .. Len(running) /\ Len(running) \in Nat
  BY DEF BusIInv
<1>2. /\ running' \in Seq(buses!Emissions) /\ Len(running') = Len(running) - 1
      /\ \A j \in 1 .. Len(running) - 1 :
           running'[j] = IF j < i THEN running[j] ELSE running[j + 1]
  BY RemoveAtProperties DEF BusIInv
<1>3. \A j \in 1 .. Len(running') : \E k \in 1 .. Len(running) : running'[j] = running[k]
  <2>1. TAKE j \in 1 .. Len(running')
  <2>2. j \in 1 .. Len(running) /\ j + 1 \in 1 .. Len(running)
        /\ j \in 1 .. Len(running) - 1
    BY <1>1, <1>2
  <2>3. running'[j] = running[j] \/ running'[j] = running[j + 1]
    BY <1>2, <2>2
  <2>4. QED
    BY <2>2, <2>3
<1>4. \A j \in 1 .. Len(running') : EmissionKnown(running'[j], list)
  BY <1>3 DEF BusIInv
<1>5. (\A j \in 1 .. Len(running) : EmissionKnown(running[j], list))'
  BY <1>4 DEF EmissionKnown
<1>6. QED
  BY <1>2, <1>5 DEF BusIInv

LEMMA BusStep == BusIInv /\ [buses!Next]_busVars => BusIInv'
<1>. SUFFICES ASSUME BusIInv, [buses!Next]_busVars PROVE BusIInv'
  OBVIOUS
<1>1. CASE UNCHANGED busVars
  BY <1>1 DEF busVars, BusIInv, EmissionKnown
<1>2. CASE buses!Emit
  BY <1>2, EmitKnown
<1>3. ASSUME NEW h \in Handlers, buses!On(h) \/ buses!Off(h)
      PROVE  BusIInv'
  BY <1>3, OnKnown, OffKnown
<1>4. ASSUME NEW i \in DOMAIN running,
             buses!CallNext(i) \/ buses!Return(i) \/ buses!Throw(i)
      PROVE  BusIInv'
  <2>1. CASE buses!CallNext(i)
    BY <2>1, CallNextKnown
  <2>2. CASE buses!Return(i) \/ buses!Throw(i)
    <3>1. running' = RemoveAt(running, i) /\ UNCHANGED <<kind, list>>
      BY <2>2, SameOperators DEF buses!Return, buses!Throw
    <3>2. QED
      BY <3>1, EndKnown
  <2>3. QED
    BY <1>4, <2>1, <2>2
<1>5. QED
  BY <1>1, <1>2, <1>3, <1>4 DEF buses!Next

(* An emission that has called all it goes through has called everyone due.  *)
LEMMA ReachesAll == BusIInv => EveryoneReached
<1>. SUFFICES ASSUME BusIInv PROVE buses!EveryoneReached
  BY DEF EveryoneReached
<1>1. buses!TypeOK
  BY SameOperators DEF buses!TypeOK, BusIInv, EmissionKnown
<1>2. ASSUME NEW i \in DOMAIN running,
             Len(running[i].called) >= Len(running[i].over), NEW h \in Handlers
      PROVE  /\ buses!Times(h, running[i].called) >= buses!Times(h, running[i].due)
             /\ kind = "pubsub" \/ h \notin running[i].added
                  => buses!Times(h, running[i].called) = buses!Times(h, running[i].due)
  <2>. DEFINE e == running[i]
              C == {j \in 1 .. Len(e.called) : e.called[j] = h}
              D == {j \in 1 .. Len(e.due) : e.due[j] = h}
  <2>1. EmissionKnown(e, list)
    BY <1>2 DEF BusIInv
  <2>. HIDE DEF e
  <2>2. /\ e.over \in Seq(Handlers) /\ e.called \in Seq(Handlers)
        /\ e.due \in Seq(Handlers)
    BY <2>1, EmissionFields DEF EmissionKnown
  <2>3. /\ Len(e.over) \in Nat /\ Len(e.called) \in Nat /\ Len(e.due) \in Nat
        /\ DOMAIN e.called = 1 .. Len(e.called) /\ DOMAIN e.due = 1 .. Len(e.due)
    BY <2>2
  <2>4. Len(e.called) = Len(e.over) /\ Len(e.due) <= Len(e.over)
    <3>1. Len(e.called) <= Len(e.over) /\ Len(e.due) <= Len(e.over)
      BY <2>1 DEF EmissionKnown
    <3>2. Len(e.called) >= Len(e.over)
      BY <1>2 DEF e
    <3>3. QED
      BY <2>3, <3>1, <3>2
  <2>5. /\ \A j \in 1 .. Len(e.called) : e.called[j] = e.over[j]
        /\ \A j \in 1 .. Len(e.due) : e.over[j] = e.due[j]
        /\ \A j \in Len(e.due) + 1 .. Len(e.over) : e.over[j] \in e.added
        /\ kind = "pubsub" => e.over = e.due
    BY <2>1 DEF EmissionKnown
  <2>6. D \subseteq C
    BY <2>3, <2>4, <2>5
  <2>7. kind = "pubsub" \/ h \notin e.added => C = D
    <3>1. SUFFICES ASSUME kind = "pubsub" \/ h \notin e.added, NEW j \in C
                   PROVE  j \in D
      BY <2>6
    <3>2. j \in 1 .. Len(e.over) /\ e.over[j] = h
      BY <2>4, <2>5
    <3>3. CASE j \in 1 .. Len(e.due)
      BY <2>5, <3>2, <3>3
    <3>4. CASE j \notin 1 .. Len(e.due)
      <4>1. j \in Len(e.due) + 1 .. Len(e.over)
        BY <2>3, <3>2, <3>4
      <4>2. e.over[j] \in e.added
        BY <2>5, <4>1
      <4>3. kind # "pubsub"
        BY <2>5, <3>2, <3>4
      <4>4. QED
        BY <3>1, <3>2, <4>2, <4>3
    <3>5. QED
      BY <3>3, <3>4
  <2>8. /\ IsFiniteSet(1 .. Len(e.called)) /\ C \subseteq 1 .. Len(e.called)
    <3>1. Len(e.called) \in Int /\ C \subseteq 1 .. Len(e.called)
      BY <2>3
    <3>2. QED
      BY <3>1, FS_Interval
  <2>. HIDE DEF C, D
  <2>9. /\ IsFiniteSet(C) /\ Cardinality(D) <= Cardinality(C)
        /\ Cardinality(C) \in Nat /\ Cardinality(D) \in Nat
    BY <2>6, <2>8, FS_Subset, FS_CardinalityType
  <2>10. buses!Times(h, e.called) = Cardinality(C) /\ buses!Times(h, e.due) = Cardinality(D)
    BY <2>3, SameOperators DEF buses!Times, C, D
  <2>11. QED
    BY <2>7, <2>9, <2>10 DEF e
<1>3. QED
  BY <1>1, <1>2 DEF buses!EveryoneReached

(* An event reaches every handler that was subscribed when it was emitted,   *)
(* once for each subscription, for any number of handlers, subscriptions and *)
(* emissions that subscribe, unsubscribe and emit inside one another.        *)
THEOREM EveryoneAlwaysReached == MCSpec => []EveryoneReached
<1>1. MCInit => BusIInv
  <2>1. <<>> \in Seq(Handlers) /\ <<>> \in Seq(buses!Emissions) /\ Len(<<>>) = 0
    OBVIOUS
  <2>2. IsInjective(<<>>)
    BY DEF IsInjective
  <2>3. QED
    BY <2>1, <2>2, ArchitectureAssumption
       DEF MCInit, buses!Init, BusIInv, buses!BusAssumption
<1>2. BusIInv /\ [MCNext /\ UNCHANGED part]_<<part, vars, sagaVars, busVars>> => BusIInv'
  <2>1. [MCNext /\ UNCHANGED part]_<<part, vars, sagaVars, busVars>>
          => [buses!Next]_busVars
    BY DEF MCNext
  <2>2. QED
    BY <2>1, BusStep
<1>3. QED
  BY <1>1, <1>2, ReachesAll, PTL DEF MCSpec
=============================================================================
