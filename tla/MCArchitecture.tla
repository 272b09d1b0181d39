---------------------------- MODULE MCArchitecture ----------------------------
(* Instances for TLC of event sourcing and of the orchestrated saga of       *)
(* packages/architecture, and of the event buses.  They share nothing: a     *)
(* behaviour uses one of them and leaves the others as they began.           *)
EXTENDS EventSourcing, Saga

CONSTANTS Handlers, MaxHandlers, MaxEmissions

VARIABLES part,
          kind, list, running

buses == INSTANCE EventBuses

ASSUME ArchitectureAssumption == buses!BusAssumption

busVars == <<kind, list, running>>

MCInit ==
  /\ part \in {"events", "saga", "buses"}
  /\ Init /\ SagaInit /\ buses!Init
  /\ part # "buses" => kind = "local"

MCNext ==
  \/ part = "events" /\ Next /\ UNCHANGED <<sagaVars, busVars>>
  \/ part = "saga" /\ SagaNext /\ UNCHANGED <<vars, busVars>>
  \/ part = "buses" /\ buses!Next /\ UNCHANGED <<vars, sagaVars>>

MCSpec == MCInit /\ [][MCNext /\ UNCHANGED part]_<<part, vars, sagaVars, busVars>>
-----------------------------------------------------------------------------
(* Streams are numbered without gaps, and getAllEvents() keeps their order.  *)
EventsInOrder == VersionsDense /\ AllInOrder

(* An event reaches everyone who was subscribed when it was emitted.         *)
EveryoneReached == buses!EveryoneReached
=============================================================================
