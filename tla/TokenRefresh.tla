----------------------------- MODULE TokenRefresh -----------------------------
(* Refresh-token rotation of packages/auth: concurrent rotate() calls on the *)
(* tokens of one family, split at every await, with the in-memory store and  *)
(* an optional in-memory blacklist.  Both answer synchronously, so every     *)
(* await is one turn of the microtask queue, and find returns the stored     *)
(* record itself, so its revoked flag is read when rotate resumes.           *)
EXTENDS Naturals, FiniteSets, SequencesExt

CONSTANTS Rotators,       \* concurrent calls of rotate()
          MaxTokens       \* bound: tokens of the family

ASSUME RefreshAssumption == MaxTokens \in Nat \ {0}

VARIABLES blacklists,  \* whether the service was given a blacklist
          issued,      \* tokens 1 .. issued have a record
          revoked,     \* the tokens whose record is revoked
          blacklist,   \* the blacklisted tokens
          pc,          \* of each rotator: where it resumes
          ready,       \* microtasks: the rotators that will resume, in order
          token,       \* of each rotator: the token it rotates
          seen,        \* of each rotator: what the last awaited call returned
          reuse        \* of each rotator, history: called with a revoked token
                       \* that is not blacklisted, and never overlapped

vars == <<blacklists, issued, revoked, blacklist, pc, ready, token, seen, reuse>>

Tokens == 1 .. MaxTokens
Places == {"idle", "checked", "found", "revoked", "listed", "killed"}

TypeOK ==
  /\ blacklists \in BOOLEAN
  /\ issued \in Tokens
  /\ revoked \subseteq 1 .. issued /\ blacklist \subseteq Tokens
  /\ pc \in [Rotators -> Places] /\ token \in [Rotators -> Tokens]
  /\ seen \in [Rotators -> BOOLEAN]
  /\ reuse \in [Rotators -> BOOLEAN]
  /\ ready \in Seq(Rotators) /\ IsInjective(ready)
  /\ \A r \in Rotators : /\ token[r] <= issued
                         /\ r \in ToSet(ready) <=> pc[r] # "idle"

(* The first token of the login.                                             *)
Init ==
  /\ blacklists \in BOOLEAN
  /\ issued = 1 /\ revoked = {} /\ blacklist = {}
  /\ pc = [r \in Rotators |-> "idle"] /\ ready = <<>>
  /\ token = [r \in Rotators |-> 1]
  /\ seen = [r \in Rotators |-> FALSE]
  /\ reuse = [r \in Rotators |-> FALSE]
-----------------------------------------------------------------------------
(* Faulty variants of the operators below, used to check that the            *)
(* properties can fail.                                                      *)
CopyReadBefore(r) == seen[r]
OnlyThisToken(t) == {t}
-----------------------------------------------------------------------------
(* record.revoked, when rotate resumes after find.                           *)
RecordRevoked(r) == token[r] \in revoked

(* The tokens revokeFamily revokes.                                          *)
FamilyOf(t) == 1 .. issued

NewToken(n) == n + 1

(* The rotator whose turn it is runs to its next await, or ends.             *)
Turn(r) == ready # <<>> /\ Head(ready) = r

Await(r, place) ==
  /\ pc' = [pc EXCEPT ![r] = place]
  /\ ready' = Append(Tail(ready), r)

End(r) ==
  /\ pc' = [pc EXCEPT ![r] = "idle"]
  /\ ready' = Tail(ready)

(* rotate() is called with an issued token; up to the await of the blacklist,*)
(* or, without one, of find.                                                 *)
Begin(r, t) ==
  /\ pc[r] = "idle" /\ t <= issued
  /\ token' = [token EXCEPT ![r] = t]
  /\ reuse' = [x \in Rotators |->
                 IF x = r THEN ready = <<>> /\ t \in revoked \ blacklist
                 ELSE reuse[x] /\ pc[x] = "idle"]
  /\ seen' = [seen EXCEPT ![r] = IF blacklists THEN t \in blacklist
                                 ELSE t \in revoked]
  /\ pc' = [pc EXCEPT ![r] = IF blacklists THEN "checked" ELSE "found"]
  /\ ready' = Append(ready, r)
  /\ UNCHANGED <<issued, revoked, blacklist>>

Blacklisted(r) ==
  /\ pc[r] = "checked" /\ seen[r]
  /\ End(r)
  /\ UNCHANGED <<issued, revoked, blacklist, token, seen, reuse>>

Find(r) ==
  /\ pc[r] = "checked" /\ ~seen[r]
  /\ seen' = [seen EXCEPT ![r] = token[r] \in revoked]
  /\ Await(r, "found")
  /\ UNCHANGED <<issued, revoked, blacklist, token, reuse>>

(* A revoked token: the family is revoked, and after its await rotate throws.*)
Reused(r) ==
  /\ pc[r] = "found" /\ RecordRevoked(r)
  /\ revoked' = revoked \cup FamilyOf(token[r])
  /\ Await(r, "killed")
  /\ UNCHANGED <<issued, blacklist, token, seen, reuse>>

ReuseReported(r) ==
  /\ pc[r] = "killed"
  /\ End(r)
  /\ UNCHANGED <<issued, revoked, blacklist, token, seen, reuse>>

Revoke(r) ==
  /\ pc[r] = "found" /\ ~RecordRevoked(r)
  /\ revoked' = revoked \cup {token[r]}
  /\ Await(r, "revoked")
  /\ UNCHANGED <<issued, blacklist, token, seen, reuse>>

Blacklist(r) ==
  /\ blacklists
  /\ pc[r] = "revoked"
  /\ blacklist' = blacklist \cup {token[r]}
  /\ Await(r, "listed")
  /\ UNCHANGED <<issued, revoked, token, seen, reuse>>

(* The new token is saved, and after one more await returned.                *)
Save(r) ==
  /\ pc[r] = IF blacklists THEN "listed" ELSE "revoked"
  /\ NewToken(issued) <= MaxTokens
  /\ issued' = NewToken(issued)
  /\ End(r)
  /\ UNCHANGED <<revoked, blacklist, token, seen, reuse>>

(* revokeFamily(), for a logout.                                             *)
RevokeFamily ==
  /\ revoked' = revoked \cup FamilyOf(1)
  /\ UNCHANGED <<issued, blacklist, pc, ready, token, seen, reuse>>

(* The entry of a blacklisted token passes its expiry.                       *)
Forget(t) ==
  /\ blacklist' = blacklist \ {t}
  /\ t \in blacklist
  /\ UNCHANGED <<issued, revoked, pc, ready, token, seen, reuse>>

Rotate(r) ==
  /\ Turn(r)
  /\ \/ Blacklisted(r) \/ Find(r) \/ Reused(r) \/ ReuseReported(r)
     \/ Revoke(r) \/ Blacklist(r) \/ Save(r)

Step ==
  \/ \E r \in Rotators : Rotate(r) \/ \E t \in Tokens : Begin(r, t)
  \/ RevokeFamily
  \/ \E t \in Tokens : Forget(t)

Next == Step /\ UNCHANGED blacklists

Spec == Init /\ [][Next]_vars
-----------------------------------------------------------------------------
Live == 1 .. issued \ revoked

Exchanging == {r \in Rotators : pc[r] \in {"revoked", "listed"}}

(* However rotations of one token overlap, it is exchanged once: the family  *)
(* never has two tokens that can be used, counting those being exchanged.    *)
OneLiveToken ==
  TypeOK /\ Cardinality(Live) + Cardinality(Exchanging) <= 1

(* tokenRefresh.ts:42: If a revoked token is ever reused, the whole family is *)
(* revoked: no token of it can be used once the reusing call has thrown.     *)
(* It takes a token the blacklist, which is asked first, does not have, and  *)
(* a call no other rotation overlaps, whose token would be saved later.      *)
ReuseEndsFamily == \A r \in Rotators : reuse[r] /\ pc[r] = "idle" => Live = {}
=============================================================================
