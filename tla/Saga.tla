--------------------------------- MODULE Saga ---------------------------------
(* The orchestrated saga of packages/architecture: concurrent run()s of one  *)
(* Saga object, to which steps can be added meanwhile.  An action or a       *)
(* compensation is abstracted to its settling: its effect then stands, or is *)
(* undone, or it throws and changes nothing.                                 *)
EXTENDS Naturals, SequencesExt

CONSTANTS Runs, MaxSteps   \* bound: steps added to the saga

ASSUME SagaAssumption == MaxSteps \in Nat

VARIABLES steps,      \* number of steps: a step is its place in this.steps
          phase,      \* of each run; the last two are SagaResult.status
          completed,  \* of each run: completed
          undoing,    \* of each run: steps still to compensate, in order
          standing,   \* history: steps whose effect stands, of each run
          stuck       \* history: steps whose compensation threw

sagaVars == <<steps, phase, completed, undoing, standing, stuck>>

Steps == 1 .. MaxSteps
Phases == {"none", "acting", "compensating", "completed", "compensated"}

SagaTypeOK ==
  /\ steps \in 0 .. MaxSteps
  /\ phase \in [Runs -> Phases]
  /\ \A r \in Runs : /\ ToSet(completed[r]) \subseteq 1 .. steps
                     /\ ToSet(undoing[r]) \subseteq ToSet(completed[r])
                     /\ IsInjective(completed[r]) /\ IsInjective(undoing[r])
  /\ standing \in [Runs -> SUBSET Steps] /\ stuck \in [Runs -> SUBSET Steps]

SagaInit ==
  /\ steps = 0
  /\ phase = [r \in Runs |-> "none"]
  /\ completed = [r \in Runs |-> <<>>] /\ undoing = [r \in Runs |-> <<>>]
  /\ standing = [r \in Runs |-> {}] /\ stuck = [r \in Runs |-> {}]
-----------------------------------------------------------------------------
(* Faulty variants of the operators below, used to check that the            *)
(* properties can fail.                                                      *)
InOrder(done) == done
SkipsLast(n) == n + 1 >= steps
AllButFirst(done) == Reverse(SubSeq(done, 2, Len(done)))
-----------------------------------------------------------------------------
(* The steps to compensate, in the order of compensate().                    *)
ToCompensate(done) == Reverse(done)

(* run() has no further step after n of them.                                *)
NoneLeft(n) == n >= steps

Rest(todo) == Tail(todo)

AddStep ==
  /\ steps < MaxSteps
  /\ steps' = steps + 1
  /\ UNCHANGED <<phase, completed, undoing, standing, stuck>>

Run(r) ==
  /\ phase[r] = "none"
  /\ phase' = [phase EXCEPT ![r] = IF NoneLeft(0) THEN "completed" ELSE "acting"]
  /\ UNCHANGED <<steps, completed, undoing, standing, stuck>>

(* The awaited action of the next step settles.                              *)
ActionDone(r) ==
  LET n == Len(completed[r]) + 1
  IN  /\ phase[r] = "acting"
      /\ completed' = [completed EXCEPT ![r] = Append(@, n)]
      /\ standing' = [standing EXCEPT ![r] = @ \cup {n}]
      /\ phase' = [phase EXCEPT ![r] = IF NoneLeft(n) THEN "completed" ELSE @]
      /\ UNCHANGED <<steps, undoing, stuck>>

CompensateFrom(r, todo) ==
  /\ undoing' = [undoing EXCEPT ![r] = todo]
  /\ phase' = [phase EXCEPT ![r] = IF todo = <<>> THEN "compensated"
                                   ELSE "compensating"]

ActionThrows(r) ==
  /\ phase[r] = "acting"
  /\ CompensateFrom(r, ToCompensate(completed[r]))
  /\ UNCHANGED <<steps, completed, standing, stuck>>

CompensationDone(r) ==
  /\ phase[r] = "compensating"
  /\ standing' = [standing EXCEPT ![r] = @ \ {Head(undoing[r])}]
  /\ CompensateFrom(r, Rest(undoing[r]))
  /\ UNCHANGED <<steps, completed, stuck>>

(* Logged, and the next one is compensated.                                  *)
CompensationThrows(r) ==
  /\ phase[r] = "compensating"
  /\ stuck' = [stuck EXCEPT ![r] = @ \cup {Head(undoing[r])}]
  /\ CompensateFrom(r, Rest(undoing[r]))
  /\ UNCHANGED <<steps, completed, standing>>

Settles(r) == \/ ActionDone(r) \/ ActionThrows(r)
              \/ CompensationDone(r) \/ CompensationThrows(r)

SagaNext == AddStep \/ \E r \in Runs : Run(r) \/ Settles(r)

SagaSpec == SagaInit /\ [][SagaNext]_sagaVars
-----------------------------------------------------------------------------
(* No step is undone while the effect of a later one stands, unless the      *)
(* later one could not be undone.                                            *)
UndoneInReverse ==
  \A r \in Runs : \A i \in standing[r] :
    \A j \in 1 .. i : j \in standing[r] \/ i \in stuck[r]

(* A run ends with the effects of all steps it ran, or with none but those   *)
(* whose compensation threw, undone in reverse order.                        *)
AllOrNothing ==
  /\ SagaTypeOK
  /\ UndoneInReverse
  /\ \A r \in Runs :
       /\ phase[r] = "completed" => standing[r] = ToSet(completed[r])
       /\ phase[r] = "compensated" => standing[r] = stuck[r]

(* A run completes only when it ran every step the saga has by then, those   *)
(* added while it ran included.                                              *)
NoStepForgotten ==
  [][\A r \in Runs : phase[r] # "completed" /\ phase'[r] = "completed" =>
       ToSet(completed'[r]) = 1 .. steps]_sagaVars
=============================================================================
