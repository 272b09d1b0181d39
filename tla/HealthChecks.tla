----------------------------- MODULE HealthChecks -----------------------------
(* The HealthCheckRegistry of packages/observability: one runAll() at a      *)
(* time, whose checks answer, throw or stay silent while others register     *)
(* and unregister.                                                           *)
EXTENDS Integers, Functions

CONSTANTS Checks,
          CheckTimeout,  \* timeoutMs
          Silent         \* no answer

HealthAssumption ==
  CheckTimeout \in Nat /\ Silent \notin {"up", "degraded", "down"}

VARIABLES registered,  \* the checks
          results,     \* of the checks of this round: status, or Silent
          settled,     \* those that have answered, be it too late
          fired,       \* those whose timer has fired
          age,         \* of the round
          health,      \* the status of the last round, Silent while it runs
          inTime       \* history: what each said before its timer, or Silent

vars == <<registered, results, settled, fired, age, health, inTime>>

Statuses == {"up", "degraded", "down"}

TypeOK ==
  /\ registered \subseteq Checks /\ DOMAIN results \subseteq Checks
  /\ \A c \in DOMAIN results : results[c] \in Statuses \cup {Silent}
  /\ settled \subseteq DOMAIN results /\ fired \subseteq DOMAIN results
  /\ age \in 0 .. CheckTimeout /\ health \in Statuses \cup {Silent}
  /\ DOMAIN inTime = DOMAIN results
  /\ \A c \in DOMAIN inTime : inTime[c] \in Statuses \cup {Silent}

Init ==
  /\ registered = {} /\ results = <<>> /\ settled = {} /\ fired = {} /\ age = 0
  /\ health = "up" /\ inTime = <<>>
-----------------------------------------------------------------------------
(* Faulty variants of the operators below, used to check that the            *)
(* properties can fail.                                                      *)
MildestFirst(found) == IF "degraded" \in found THEN "degraded"
                       ELSE IF "down" \in found THEN "down" ELSE "up"
LastWord(result, status) == status
OneTimer(c) == fired = {} /\ age >= CheckTimeout
-----------------------------------------------------------------------------
Running == health = Silent

Register(c) ==
  /\ registered' = registered \cup {c}
  /\ UNCHANGED <<results, settled, fired, age, health, inTime>>

Unregister(c) ==
  /\ registered' = registered \ {c}
  /\ UNCHANGED <<results, settled, fired, age, health, inTime>>

(* runAll() takes the checks there are, and starts them all.                 *)
RunAll ==
  /\ ~Running
  /\ results' = [c \in registered |-> Silent] /\ inTime' = results'
  /\ settled' = {} /\ fired' = {} /\ age' = 0 /\ health' = Silent
  /\ UNCHANGED registered

(* Promise.race is decided once: a second word, of the check or of its       *)
(* timer, is dropped.                                                        *)
First(result, status) == IF result = Silent THEN status ELSE result

(* A check settles; one that throws or rejects is down.                      *)
Settles(c, status) ==
  /\ Running /\ c \notin settled
  /\ settled' = settled \cup {c}
  /\ results' = [results EXCEPT ![c] = First(@, status)]
  /\ inTime' = IF c \in fired THEN inTime ELSE [inTime EXCEPT ![c] = status]
  /\ UNCHANGED <<registered, fired, age, health>>

(* The timer of a check is never cleared: it fires after the answer, too.    *)
TimerDue(c) == c \notin fired /\ age >= CheckTimeout

TimesOut(c) ==
  /\ Running /\ TimerDue(c)
  /\ fired' = fired \cup {c}
  /\ results' = [results EXCEPT ![c] = First(@, "down")]
  /\ UNCHANGED <<registered, settled, age, health, inTime>>

Overall(found) == IF "down" \in found THEN "down"
                  ELSE IF "degraded" \in found THEN "degraded" ELSE "up"

Report ==
  /\ Running /\ Silent \notin Range(results)
  /\ health' = Overall(Range(results))
  /\ UNCHANGED <<registered, results, settled, fired, age, inTime>>

(* The timers of a round are due together, and fire in the tick they are.    *)
Tick ==
  /\ Running /\ age < CheckTimeout
  /\ age' = age + 1
  /\ UNCHANGED <<registered, results, settled, fired, health, inTime>>

Next ==
  \/ \E c \in Checks : Register(c) \/ Unregister(c)
  \/ \E c \in DOMAIN results :
       TimesOut(c) \/ \E status \in Statuses : Settles(c, status)
  \/ RunAll \/ Report \/ Tick

Spec == Init /\ [][Next]_vars

(* The clock moves, timers fire, and a decided Promise.all goes on; that a   *)
(* check ever answers is not assumed.                                        *)
Fairness ==
  /\ WF_vars(Tick) /\ WF_vars(Report)
  /\ \A c \in Checks : WF_vars(c \in DOMAIN results /\ TimesOut(c))

(* handler()                                                                 *)
HttpStatus == IF health \in {"up", "degraded"} THEN 200 ELSE 503
-----------------------------------------------------------------------------
(* A round reports the worst of what its checks said before their timers:    *)
(* it is up only if all said so in time, and the endpoint answers 503        *)
(* exactly over a check that said down, threw or had said nothing when its   *)
(* timer fired, whatever it says afterwards, whatever timer fires after an   *)
(* answer, and whoever registers or unregisters meanwhile.                   *)
ReportsWorst ==
  /\ TypeOK
  /\ ~Running =>
       /\ (health = "up") <=> \A c \in DOMAIN inTime : inTime[c] = "up"
       /\ (HttpStatus = 503) <=> \E c \in DOMAIN inTime : inTime[c] \in {"down", Silent}

(* No round lasts for ever, be its checks silent for good.                   *)
RoundEnds == []<>~Running
=============================================================================
