----------------------------- MODULE EventSourcing -----------------------------
(* The event store, aggregates and projections of packages/architecture.     *)
(* Writers load an aggregate by replay, raise events on it and append them;  *)
(* a projection is rebuilt from all events.  The subclass's fold is free: a  *)
(* state is the sequence of events it was folded from.                       *)
EXTENDS Collections

CONSTANTS Writers, Streams,
          Checking,    \* writers that pass their version to append
          MaxEvents,   \* bound: events of one stream
          MaxClock,    \* bound: the clock
          MaxRebuilt,  \* bound: a projection that long is not rebuilt
          NotLoaded    \* the writer holds no aggregate

ASSUME EventAssumption ==
  /\ Checking \subseteq Writers /\ MaxEvents \in Nat /\ MaxClock \in Nat
  /\ MaxRebuilt \in Nat

VARIABLES streams,     \* InMemoryEventStore.streams
          created,     \* its Map order: streams in order of their first append
          aggregates,  \* each writer's aggregate: [id, version, state, pending]
          projection,  \* events a projection's state was folded from
          clock        \* Date.now()

vars == <<streams, created, aggregates, projection, clock>>

Versions == Nat \ {0}
Facts == [by : Writers, version : Versions]
Events == [stream : Streams, by : Writers, version : Versions, occurredAt : Nat]
Aggregates == [id : Streams, version : Nat, state : Seq(Facts), pending : Nat]

TypeOK ==
  /\ streams \in [Streams -> Seq(Events)]
  /\ created \in Seq(Streams)
  /\ aggregates \in [Writers -> {NotLoaded} \cup Aggregates]
  /\ projection \in Seq(Events)
  /\ clock \in Nat

Init ==
  /\ streams = [s \in Streams |-> <<>>]
  /\ created = <<>>
  /\ aggregates = [w \in Writers |-> NotLoaded]
  /\ projection = <<>>
  /\ clock = 0
-----------------------------------------------------------------------------
(* Faulty variants of the operators below, used to check that the            *)
(* properties can fail.                                                      *)
AtLeastExpected(s, version) == Len(streams[s]) >= version
FromOne(s, i) == i
NewestFirst(e, f) == e.occurredAt > f.occurredAt
-----------------------------------------------------------------------------
AsExpected(s, version) == Len(streams[s]) = version

(* The version of the i-th of the appended events.                           *)
VersionOf(s, i) == Len(streams[s]) + i

NextVersion(a) == a.version + a.pending + 1

Extended(old, new) == old \o new

(* What a fold sees of an event: who raised it stands for type and payload.  *)
Fact(e) == [by |-> e.by, version |-> e.version]

Folded(events) == [i \in DOMAIN events |-> Fact(events[i])]

(* replay(): the version is that of the last event.                          *)
Replayed(s) ==
  [id |-> s, state |-> Folded(streams[s]), pending |-> 0,
   version |-> IF streams[s] = <<>> THEN 0 ELSE Last(streams[s]).version]

Load(w, s) ==
  /\ aggregates' = [aggregates EXCEPT ![w] = Replayed(s)]
  /\ UNCHANGED <<streams, created, projection, clock>>

(* raise(): the event is folded before it is stored, under the version it is *)
(* expected to get.                                                          *)
Raised(w, a) ==
  [a EXCEPT !.state = Append(a.state, [by |-> w, version |-> NextVersion(a)]),
            !.pending = a.pending + 1]

Raise(w) ==
  /\ aggregates[w] # NotLoaded
  /\ aggregates[w].version + aggregates[w].pending < MaxEvents
  /\ aggregates' = [aggregates EXCEPT ![w] = Raised(w, aggregates[w])]
  /\ UNCHANGED <<streams, created, projection, clock>>

Stored(w, s, n) ==
  [i \in 1 .. n |-> [stream |-> s, by |-> w, version |-> VersionOf(s, i),
                     occurredAt |-> clock]]

(* markEventsAsCommitted().                                                  *)
Committed(a) == [a EXCEPT !.version = a.version + a.pending, !.pending = 0]

(* append(), then markEventsAsCommitted() of the aggregate.                  *)
Commit(w) ==
  LET a == aggregates[w]
  IN  /\ a # NotLoaded
      /\ w \in Checking => AsExpected(a.id, a.version)
      /\ Len(streams[a.id]) + a.pending <= MaxEvents
      /\ streams' = [streams EXCEPT ![a.id] =
                       Extended(@, Stored(w, a.id, a.pending))]
      /\ created' = IF a.id \in ToSet(created) THEN created
                    ELSE Append(created, a.id)
      /\ aggregates' = [aggregates EXCEPT ![w] = Committed(a)]
      /\ UNCHANGED <<projection, clock>>

(* append() throws ConcurrencyError; the writer gives its aggregate up, or   *)
(* keeps it, which changes nothing.                                          *)
Conflict(w) ==
  /\ aggregates[w] # NotLoaded
  /\ w \in Checking /\ ~AsExpected(aggregates[w].id, aggregates[w].version)
  /\ aggregates' = [aggregates EXCEPT ![w] = NotLoaded]
  /\ UNCHANGED <<streams, created, projection, clock>>

(* getAllEvents(): the streams in Map order, sorted by time; the sort is     *)
(* stable.                                                                   *)
Earlier(e, f) == e.occurredAt < f.occurredAt

Before(flat, i, j) ==
  \/ Earlier(flat[i], flat[j])
  \/ ~Earlier(flat[j], flat[i]) /\ i < j

InTime(flat) ==
  LET places == DOMAIN flat
      order == Ranked(places, {p \in places \X places : Before(flat, p[1], p[2])})
  IN  [i \in places |-> flat[order[i]]]

AllEvents == InTime(FlattenSeq([i \in DOMAIN created |-> streams[created[i]]]))

(* Projection.rebuild() folds into the state it has.                         *)
Rebuild ==
  /\ Len(projection) < MaxRebuilt
  /\ projection' = projection \o AllEvents
  /\ UNCHANGED <<streams, created, aggregates, clock>>

Tick ==
  /\ clock < MaxClock
  /\ clock' = clock + 1
  /\ UNCHANGED <<streams, created, aggregates, projection>>

Next ==
  \/ \E w \in Writers, s \in Streams : Load(w, s)
  \/ \E w \in Writers : Raise(w) \/ Commit(w) \/ Conflict(w)
  \/ Rebuild
  \/ Tick

Spec == Init /\ [][Next]_vars
-----------------------------------------------------------------------------
(* What an aggregate has folded is what is stored, version for version, and  *)
(* then its own pending events, under the versions they will get: a state    *)
(* and its decisions are never based on a history that is not the stream's.  *)
(* For writers that pass their version, whatever the others do.              *)
FoldedAsStored ==
  \A w \in Checking : aggregates[w] # NotLoaded =>
    LET a == aggregates[w]
    IN  /\ a.version <= Len(streams[a.id])
        /\ Len(a.state) = a.version + a.pending
        /\ \A i \in 1 .. Len(a.state) :
             a.state[i] = IF i <= a.version THEN Fact(streams[a.id][i])
                          ELSE [by |-> w, version |-> i]

(* The versions of a stream are 1, 2, 3, ..., whoever appended.              *)
VersionsDense ==
  \A s \in Streams : \A i \in DOMAIN streams[s] : streams[s][i].version = i

(* An append never changes, moves or drops a stored event (README: immutable *)
(* events appended to a per-aggregate stream).                               *)
AppendOnly == [][\A s \in Streams : IsPrefix(streams[s], streams'[s])]_vars

EventsOf(s) == [stream : {s}, by : Writers, version : Versions, occurredAt : Nat]

(* getAllEvents() has every event, and those of a stream in their order,     *)
(* though streams are interleaved and events share a timestamp.              *)
AllInOrder ==
  /\ TypeOK
  /\ \A s \in Streams : Kept(AllEvents, EventsOf(s)) = streams[s]
=============================================================================
