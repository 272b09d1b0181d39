---------------------------- MODULE RunTransaction ----------------------------
(* runTransaction() of packages/prisma: calls whose transactions meet in the *)
(* database.  The database rolls one of two conflicting transactions back    *)
(* (P2034); fn may throw; and the connection may be lost at the commit, when *)
(* the caller cannot know whether it took effect.                            *)
EXTENDS Naturals

CONSTANTS Calls,
          MaxAttempts,     \* maxAttempts
          RetryableCodes   \* retryableErrorCodes

TransactionAssumption ==
  MaxAttempts \in Nat \ {0} /\ RetryableCodes \subseteq {"P2034", "other"}

VARIABLES pc,       \* of each call
          attempt,  \* its attempt
          lost,     \* history: it lost the connection at a commit
          commits   \* history: how often its fn took effect

vars == <<pc, attempt, lost, commits>>

TypeOK ==
  /\ pc \in [Calls -> {"idle", "running", "sleeping", "resolved", "threw"}]
  /\ attempt \in [Calls -> 1 .. MaxAttempts]
  /\ lost \in [Calls -> BOOLEAN] /\ commits \in [Calls -> Nat]

Init ==
  /\ pc = [c \in Calls |-> "idle"] /\ attempt = [c \in Calls |-> 1]
  /\ lost = [c \in Calls |-> FALSE] /\ commits = [c \in Calls |-> 0]
-----------------------------------------------------------------------------
(* Faulty variants of the operators below, used to check that the            *)
(* properties can fail.                                                      *)
WhateverTheCode(code) == TRUE
-----------------------------------------------------------------------------
IsRetryable(code) == code \in RetryableCodes

Ends(c, how) == pc' = [pc EXCEPT ![c] = how] /\ UNCHANGED attempt

Begin(c) ==
  /\ pc[c] = "idle"
  /\ Ends(c, "running")
  /\ UNCHANGED <<lost, commits>>

Commit(c) ==
  /\ pc[c] = "running"
  /\ Ends(c, "resolved")
  /\ commits' = [commits EXCEPT ![c] = @ + 1]
  /\ UNCHANGED lost

(* The catch block.                                                          *)
Catch(c, code) ==
  IF ~IsRetryable(code) \/ attempt[c] = MaxAttempts THEN Ends(c, "threw")
  ELSE Ends(c, "sleeping")

(* It takes another transaction to conflict with.                            *)
Conflict(c) ==
  /\ pc[c] = "running"
  /\ \E d \in Calls \ {c} : pc[d] = "running" \/ commits[d] > 0
  /\ Catch(c, "P2034")
  /\ UNCHANGED <<lost, commits>>

FnThrows(c) ==
  /\ pc[c] = "running"
  /\ Catch(c, "other")
  /\ UNCHANGED <<lost, commits>>

(* The commit took effect, or not, before the connection broke.              *)
ConnectionLost(c) ==
  /\ pc[c] = "running"
  /\ Catch(c, "other")
  /\ lost' = [lost EXCEPT ![c] = TRUE]
  /\ \E effect \in {0, 1} : commits' = [commits EXCEPT ![c] = @ + effect]

Retry(c) ==
  /\ pc[c] = "sleeping"
  /\ pc' = [pc EXCEPT ![c] = "running"]
  /\ attempt' = [attempt EXCEPT ![c] = @ + 1]
  /\ UNCHANGED <<lost, commits>>

Next == \E c \in Calls :
          \/ Begin(c) \/ Commit(c) \/ Conflict(c)
          \/ FnThrows(c) \/ ConnectionLost(c) \/ Retry(c)

Spec == Init /\ [][Next]_vars
-----------------------------------------------------------------------------
(* Though a call tries several times, and may not learn what became of a     *)
(* commit, its fn takes effect at most once: exactly once if it resolves,    *)
(* and if it throws only where the connection was lost at the commit.        *)
AppliedOnce ==
  /\ TypeOK
  /\ \A c \in Calls :
       /\ commits[c] <= 1
       /\ pc[c] = "resolved" => commits[c] = 1
       /\ pc[c] # "resolved" /\ commits[c] = 1 => lost[c] /\ pc[c] = "threw"
=============================================================================
