------------------------------ MODULE AuthProofs ------------------------------
(* Proofs about what packages/auth and packages/rbac keep.  TokenRefresh,    *)
(* for any number of concurrent rotations and of tokens, with and without a  *)
(* blacklist; Session, for any lifetimes and any number of touches, in both  *)
(* stores; and RoleManager, for any names, permissions and hierarchies.      *)
EXTENDS Auth, CollectionLemmas, FiniteSetTheorems

(* The family has one token at most that is live or being exchanged.         *)
Solo ==
  /\ \A s, t \in Live : s = t
  /\ \A q, r \in Exchanging : q = r
  /\ Live = {} \/ Exchanging = {}

(* A rotator called with a revoked token that the blacklist does not have    *)
(* runs alone until it throws, is not stopped by the blacklist, never gets   *)
(* to exchange its token, and once it has revoked the family nothing of it   *)
(* is left.                                                                  *)
ReuseKnown ==
  \A r \in Rotators : reuse[r] =>
    /\ token[r] \in revoked
    /\ pc[r] \in {"idle", "checked", "found", "killed"}
    /\ pc[r] = "checked" => ~seen[r]
    /\ pc[r] # "idle" => \A x \in Rotators \ {r} : pc[x] = "idle"
    /\ pc[r] \in {"idle", "killed"} => Live = {} /\ Exchanging = {}

IInv == TypeOK /\ Solo /\ ReuseKnown
-----------------------------------------------------------------------------
(* Taking the first of a queue without repetitions.                          *)
LEMMA TailRange ==
  ASSUME NEW S, NEW s \in Seq(S), s # <<>>,
         \A j, k \in DOMAIN s : s[j] = s[k] => j = k
  PROVE  /\ Tail(s) \in Seq(S)
         /\ ToSet(Tail(s)) = ToSet(s) \ {Head(s)}
         /\ \A j, k \in DOMAIN Tail(s) : Tail(s)[j] = Tail(s)[k] => j = k
<1>1. /\ Tail(s) \in Seq(S) /\ Len(Tail(s)) = Len(s) - 1
      /\ \A j \in 1 .. Len(Tail(s)) : Tail(s)[j] = s[j + 1]
  BY HeadTailProperties
<1>2. /\ DOMAIN s = 1 .. Len(s) /\ Len(s) \in Nat \ {0} /\ Head(s) = s[1]
      /\ DOMAIN Tail(s) = 1 .. Len(s) - 1
  BY <1>1, EmptySeq
<1>3. \A j \in DOMAIN Tail(s) : j + 1 \in DOMAIN s /\ j + 1 # 1
                                /\ Tail(s)[j] = s[j + 1]
  BY <1>1, <1>2
<1>4. \A j \in DOMAIN s : j # 1 => j - 1 \in DOMAIN Tail(s) /\ j = (j - 1) + 1
  BY <1>2
<1>5. \A j, k \in DOMAIN Tail(s) : Tail(s)[j] = Tail(s)[k] => j = k
  BY <1>2, <1>3
<1>6. ToSet(Tail(s)) \subseteq ToSet(s) \ {Head(s)}
  BY <1>2, <1>3 DEF ToSet
<1>7. ToSet(s) \ {Head(s)} \subseteq ToSet(Tail(s))
  <2>1. SUFFICES ASSUME NEW j \in DOMAIN s, s[j] # s[1]
                 PROVE  s[j] \in ToSet(Tail(s))
    BY <1>2 DEF ToSet
  <2>2. j - 1 \in DOMAIN Tail(s) /\ Tail(s)[j - 1] = s[j]
    BY <1>3, <1>4, <2>1
  <2>3. QED
    BY <2>2 DEF ToSet
<1>8. QED
  BY <1>1, <1>5, <1>6, <1>7

(* Whose turn it is leaves the front of the microtasks: for good when its    *)
(* call ends, for the back when it awaits.                                   *)
LEMMA TurnEnds ==
  ASSUME TypeOK, NEW r \in Rotators, Turn(r)
  PROVE  /\ pc[r] # "idle"
         /\ Tail(ready) \in Seq(Rotators) /\ IsInjective(Tail(ready))
         /\ ToSet(Tail(ready)) = ToSet(ready) \ {r}
<1>1. r \in ToSet(ready)
  <2>1. 1 \in DOMAIN ready /\ ready[1] = r
    BY EmptySeq DEF TypeOK, Turn
  <2>2. QED
    BY <2>1 DEF ToSet
<1>2. /\ ready \in Seq(Rotators) /\ ready # <<>>
      /\ \A j, k \in DOMAIN ready : ready[j] = ready[k] => j = k
  BY DEF TypeOK, Turn, IsInjective
<1>3. /\ Tail(ready) \in Seq(Rotators)
      /\ ToSet(Tail(ready)) = ToSet(ready) \ {Head(ready)}
      /\ \A j, k \in DOMAIN Tail(ready) :
           Tail(ready)[j] = Tail(ready)[k] => j = k
  BY <1>2, TailRange, Zenon
<1>4. QED
  BY <1>1, <1>3 DEF TypeOK, Turn, IsInjective

LEMMA TurnAwaits ==
  ASSUME TypeOK, NEW r \in Rotators, Turn(r)
  PROVE  /\ Append(Tail(ready), r) \in Seq(Rotators)
         /\ IsInjective(Append(Tail(ready), r))
         /\ ToSet(Append(Tail(ready), r)) = ToSet(ready)
<1>. DEFINE rest == Tail(ready)
<1>1. /\ rest \in Seq(Rotators) /\ IsInjective(rest)
      /\ ToSet(rest) = ToSet(ready) \ {r}
      /\ r \in ToSet(ready)
  BY TurnEnds DEF TypeOK
<1>. HIDE DEF rest
<1>2. \A j, k \in DOMAIN rest : rest[j] = rest[k] => j = k
  BY <1>1 DEF IsInjective
<1>3. Append(rest, r) \in Seq(Rotators)
  BY <1>1
<1>4. /\ ToSet(Append(rest, r)) = ToSet(rest) \cup {r}
      /\ r \notin ToSet(rest)
           => \A j, k \in DOMAIN Append(rest, r) :
                Append(rest, r)[j] = Append(rest, r)[k] => j = k
  BY <1>1, <1>2, AppendRange
<1>5. IsInjective(Append(rest, r))
  BY <1>1, <1>4 DEF IsInjective
<1>6. QED
  BY <1>1, <1>3, <1>4, <1>5 DEF rest

LEMMA InitIInv == Init => IInv
<1>. SUFFICES ASSUME Init PROVE IInv
  OBVIOUS
<1>1. TypeOK
  BY RefreshAssumption DEF Init, TypeOK, Tokens, Places, IsInjective, ToSet
<1>2. Live = {1} /\ Exchanging = {}
  BY DEF Init, Live, Exchanging
<1>3. Solo /\ ReuseKnown
  BY <1>2 DEF Init, Solo, ReuseKnown
<1>4. QED
  BY <1>1, <1>3 DEF IInv
-----------------------------------------------------------------------------
Queued == /\ pc \in [Rotators -> Places]
          /\ ready \in Seq(Rotators) /\ IsInjective(ready)
          /\ \A x \in Rotators : x \in ToSet(ready) <=> pc[x] # "idle"

LEMMA AwaitQueued ==
  ASSUME TypeOK, NEW r \in Rotators, NEW place \in Places \ {"idle"},
         Turn(r), Await(r, place)
  PROVE  Queued'
<1>1. /\ ready' \in Seq(Rotators) /\ IsInjective(ready')
      /\ ToSet(ready') = ToSet(ready)
  BY TurnAwaits DEF Await
<1>2. /\ pc' \in [Rotators -> Places]
      /\ \A x \in Rotators : pc'[x] # "idle" <=> pc[x] # "idle"
  BY TurnEnds DEF TypeOK, Await
<1>3. QED
  BY <1>1, <1>2 DEF Queued, TypeOK

LEMMA EndQueued ==
  ASSUME TypeOK, NEW r \in Rotators, Turn(r), End(r)
  PROVE  Queued'
<1>1. /\ ready' \in Seq(Rotators) /\ IsInjective(ready')
      /\ ToSet(ready') = ToSet(ready) \ {r}
  BY TurnEnds DEF End
<1>2. /\ pc' \in [Rotators -> Places]
      /\ \A x \in Rotators : pc'[x] # "idle" <=> x # r /\ pc[x] # "idle"
  BY DEF TypeOK, End, Places
<1>3. QED
  BY <1>1, <1>2 DEF Queued, TypeOK

(* Which microtasks end where, and what each does to the records.            *)
LEMMA RotateTypeOK ==
  ASSUME TypeOK, NEW r \in Rotators, Rotate(r), UNCHANGED blacklists
  PROVE  TypeOK'
<1>1. Turn(r) /\ token' = token /\ reuse' = reuse
  BY DEF Rotate, Blacklisted, Find, Reused, ReuseReported, Revoke, Blacklist,
         Save
<1>2. Queued'
  <2>1. CASE Blacklisted(r) \/ ReuseReported(r) \/ Save(r)
    BY <1>1, <2>1, EndQueued DEF Blacklisted, ReuseReported, Save
  <2>2. CASE Find(r)
    BY <1>1, <2>2, AwaitQueued DEF Find, Places
  <2>3. CASE Reused(r)
    BY <1>1, <2>3, AwaitQueued DEF Reused, Places
  <2>4. CASE Revoke(r)
    BY <1>1, <2>4, AwaitQueued DEF Revoke, Places
  <2>5. CASE Blacklist(r)
    BY <1>1, <2>5, AwaitQueued DEF Blacklist, Places
  <2>6. QED
    BY <2>1, <2>2, <2>3, <2>4, <2>5 DEF Rotate
<1>3. /\ issued' \in Tokens /\ issued <= issued'
      /\ revoked' \subseteq 1 .. issued' /\ blacklist' \subseteq Tokens
      /\ seen' \in [Rotators -> BOOLEAN]
  <2>0. /\ issued \in 1 .. MaxTokens /\ MaxTokens \in Nat
        /\ revoked \subseteq 1 .. issued /\ blacklist \subseteq Tokens
        /\ seen \in [Rotators -> BOOLEAN] /\ token[r] \in 1 .. issued
    BY RefreshAssumption DEF TypeOK, Tokens
  <2>. USE <2>0 DEF Tokens
  <2>1. CASE Blacklisted(r) \/ ReuseReported(r)
    <3>1. UNCHANGED <<issued, revoked, blacklist, seen>>
      BY <2>1 DEF Blacklisted, ReuseReported
    <3>2. QED
      BY <3>1
  <2>2. CASE Find(r)
    BY <2>2 DEF Find
  <2>3. CASE Reused(r)
    BY <2>3 DEF Reused, FamilyOf
  <2>4. CASE Revoke(r)
    <3>1. /\ revoked' = revoked \cup {token[r]}
          /\ UNCHANGED <<issued, blacklist, seen>>
      BY <2>4 DEF Revoke
    <3>2. revoked' \subseteq 1 .. issued
      BY <2>0, <3>1, Zenon
    <3>3. QED
      BY <3>1, <3>2
  <2>5. CASE Blacklist(r)
    <3>1. /\ blacklist' = blacklist \cup {token[r]}
          /\ UNCHANGED <<issued, revoked, seen>>
      BY <2>5 DEF Blacklist
    <3>2. token[r] \in Tokens
      BY <2>0
    <3>3. blacklist' \subseteq Tokens
      BY <2>0, <3>1, <3>2, Zenon
    <3>4. QED
      BY <3>1, <3>3
  <2>6. CASE Save(r)
    BY <2>6 DEF Save, NewToken
  <2>7. QED
    BY <2>1, <2>2, <2>3, <2>4, <2>5, <2>6 DEF Rotate
<1>4. \A x \in Rotators : token[x] <= issued'
  BY <1>3, RefreshAssumption DEF TypeOK, Tokens
<1>5. QED
  BY <1>1, <1>2, <1>3, <1>4 DEF TypeOK, Queued

LEMMA BeginTypeOK ==
  ASSUME TypeOK, NEW r \in Rotators, NEW t \in Tokens, Begin(r, t),
         UNCHANGED blacklists
  PROVE  TypeOK'
<1>1. r \notin ToSet(ready)
  BY DEF TypeOK, Begin
<1>2. \A j, k \in DOMAIN ready : ready[j] = ready[k] => j = k
  BY DEF TypeOK, IsInjective
<1>3. /\ ready' \in Seq(Rotators) /\ ToSet(ready') = ToSet(ready) \cup {r}
      /\ \A j, k \in DOMAIN ready' : ready'[j] = ready'[k] => j = k
  BY <1>1, <1>2, AppendRange DEF Begin, TypeOK
<1>4. IsInjective(ready')
  BY <1>3 DEF IsInjective
<1>5. /\ pc' \in [Rotators -> Places]
      /\ pc'[r] # "idle" /\ \A x \in Rotators \ {r} : pc'[x] = pc[x]
  BY DEF TypeOK, Begin, Places
<1>6. \A x \in Rotators : x \in ToSet(ready') <=> pc'[x] # "idle"
  BY <1>3, <1>5 DEF TypeOK
<1>7. /\ token' \in [Rotators -> Tokens]
      /\ \A x \in Rotators : token'[x] <= issued'
      /\ seen' \in [Rotators -> BOOLEAN] /\ reuse' \in [Rotators -> BOOLEAN]
  <2>1. token \in [Rotators -> Tokens] /\ seen \in [Rotators -> BOOLEAN]
        /\ (\A x \in Rotators : token[x] <= issued) /\ t <= issued
    BY DEF TypeOK, Begin
  <2>2. token' = [token EXCEPT ![r] = t] /\ issued' = issued
    BY DEF Begin
  <2>3. token' \in [Rotators -> Tokens] /\ \A x \in Rotators : token'[x] <= issued'
    BY <2>1, <2>2
  <2>4. seen' \in [Rotators -> BOOLEAN]
    <3>1. (IF blacklists THEN t \in blacklist ELSE t \in revoked) \in BOOLEAN
      <4>1. CASE blacklists
        BY <4>1
      <4>2. CASE ~blacklists
        BY <4>2
      <4>3. QED
        BY <4>1, <4>2
    <3>2. seen' = [seen EXCEPT ![r] = IF blacklists THEN t \in blacklist
                                      ELSE t \in revoked]
      BY DEF Begin
    <3>3. ASSUME NEW b \in BOOLEAN
          PROVE  [seen EXCEPT ![r] = b] \in [Rotators -> BOOLEAN]
      BY <2>1
    <3>4. QED
      BY <3>1, <3>2, <3>3, Zenon
  <2>5. \A x \in Rotators : (IF x = r THEN ready = <<>> /\ t \in revoked \ blacklist
                             ELSE reuse[x] /\ pc[x] = "idle") \in BOOLEAN
    BY Zenon
  <2>6. reuse' \in [Rotators -> BOOLEAN]
    BY <2>5 DEF Begin
  <2>7. QED
    BY <2>3, <2>4, <2>6
<1>8. QED
  BY <1>3, <1>4, <1>5, <1>6, <1>7 DEF TypeOK, Begin

LEMMA NextTypeOK == TypeOK /\ [Next]_vars => TypeOK'
<1>. SUFFICES ASSUME TypeOK, [Next]_vars PROVE TypeOK'
  OBVIOUS
<1>1. ASSUME NEW r \in Rotators, Rotate(r), UNCHANGED blacklists PROVE TypeOK'
  BY <1>1, RotateTypeOK
<1>2. ASSUME NEW r \in Rotators, NEW t \in Tokens, Begin(r, t),
             UNCHANGED blacklists
      PROVE  TypeOK'
  BY <1>2, BeginTypeOK
<1>3. CASE RevokeFamily /\ UNCHANGED blacklists
  BY <1>3 DEF TypeOK, RevokeFamily, FamilyOf
<1>4. ASSUME NEW t \in Tokens, Forget(t), UNCHANGED blacklists PROVE TypeOK'
  BY <1>4 DEF TypeOK, Forget
<1>5. CASE UNCHANGED vars
  BY <1>5 DEF TypeOK, vars
<1>6. QED
  BY <1>1, <1>2, <1>3, <1>4, <1>5 DEF Next, Step
-----------------------------------------------------------------------------
(* What each turn does to the tokens that are live and being exchanged.      *)
LEMMA AwaitPlaces ==
  ASSUME TypeOK, NEW r \in Rotators, NEW place \in Places, Await(r, place)
  PROVE  pc'[r] = place /\ \A x \in Rotators \ {r} : pc'[x] = pc[x]
BY DEF TypeOK, Await

LEMMA EndPlaces ==
  ASSUME TypeOK, NEW r \in Rotators, End(r)
  PROVE  pc'[r] = "idle" /\ \A x \in Rotators \ {r} : pc'[x] = pc[x]
BY DEF TypeOK, End

LEMMA SpentBy ==
  ASSUME TypeOK, NEW r \in Rotators,
         Blacklisted(r) \/ Find(r) \/ ReuseReported(r) \/ Blacklist(r)
  PROVE  /\ UNCHANGED <<issued, revoked, token, reuse>>
         /\ \A x \in Rotators \ {r} : pc'[x] = pc[x]
         /\ \/ pc[r] = "checked" /\ seen[r] /\ pc'[r] = "idle"
            \/ pc[r] = "checked" /\ ~seen[r] /\ pc'[r] = "found"
            \/ pc[r] = "killed" /\ pc'[r] = "idle"
            \/ pc[r] = "revoked" /\ pc'[r] = "listed"
         /\ Live' = Live /\ Exchanging' = Exchanging
<1>1. UNCHANGED <<issued, revoked, token, reuse>>
  BY DEF Blacklisted, Find, ReuseReported, Blacklist
<1>2. /\ \A x \in Rotators \ {r} : pc'[x] = pc[x]
      /\ \/ pc[r] = "checked" /\ seen[r] /\ pc'[r] = "idle"
         \/ pc[r] = "checked" /\ ~seen[r] /\ pc'[r] = "found"
         \/ pc[r] = "killed" /\ pc'[r] = "idle"
         \/ pc[r] = "revoked" /\ pc'[r] = "listed"
  <2>1. CASE Blacklisted(r)
    BY <2>1, EndPlaces DEF Blacklisted
  <2>2. CASE Find(r)
    BY <2>2, AwaitPlaces DEF Find, Places
  <2>3. CASE ReuseReported(r)
    BY <2>3, EndPlaces DEF ReuseReported
  <2>4. CASE Blacklist(r)
    BY <2>4, AwaitPlaces DEF Blacklist, Places
  <2>5. QED
    BY <2>1, <2>2, <2>3, <2>4
<1>3. Live' = Live /\ Exchanging' = Exchanging
  BY <1>1, <1>2 DEF Live, Exchanging
<1>4. QED
  BY <1>1, <1>2, <1>3

LEMMA KilledBy ==
  ASSUME TypeOK, NEW r \in Rotators, Reused(r)
  PROVE  /\ UNCHANGED <<token, reuse>> /\ revoked \subseteq revoked'
         /\ pc[r] = "found" /\ token[r] \in revoked /\ pc'[r] = "killed"
         /\ \A x \in Rotators \ {r} : pc'[x] = pc[x]
         /\ Live' = {} /\ Exchanging' = Exchanging
<1>1. /\ pc[r] = "found" /\ token[r] \in revoked /\ pc'[r] = "killed"
      /\ \A x \in Rotators \ {r} : pc'[x] = pc[x]
  BY AwaitPlaces DEF Reused, Places, RecordRevoked
<1>2. /\ UNCHANGED <<token, reuse, issued>>
      /\ revoked' = revoked \cup 1 .. issued
  BY DEF Reused, FamilyOf
<1>3. QED
  BY <1>1, <1>2 DEF Live, Exchanging

LEMMA TakenBy ==
  ASSUME TypeOK, NEW r \in Rotators, Revoke(r)
  PROVE  /\ UNCHANGED <<token, reuse>> /\ revoked \subseteq revoked'
         /\ pc[r] = "found" /\ token[r] \in Live /\ pc'[r] = "revoked"
         /\ \A x \in Rotators \ {r} : pc'[x] = pc[x]
         /\ Live' = Live \ {token[r]} /\ Exchanging' = Exchanging \cup {r}
<1>1. /\ pc[r] = "found" /\ token[r] \notin revoked /\ pc'[r] = "revoked"
      /\ \A x \in Rotators \ {r} : pc'[x] = pc[x]
  BY AwaitPlaces DEF Revoke, Places, RecordRevoked
<1>2. /\ UNCHANGED <<token, reuse, issued>>
      /\ revoked' = revoked \cup {token[r]}
  BY DEF Revoke
<1>3. token[r] \in 1 .. issued
  BY RefreshAssumption DEF TypeOK, Tokens
<1>4. QED
  BY <1>1, <1>2, <1>3 DEF Live, Exchanging

LEMMA GivenBy ==
  ASSUME TypeOK, NEW r \in Rotators, Save(r)
  PROVE  /\ UNCHANGED <<token, reuse, revoked>>
         /\ r \in Exchanging /\ pc'[r] = "idle"
         /\ \A x \in Rotators \ {r} : pc'[x] = pc[x]
         /\ Live' = Live \cup {issued + 1} /\ Exchanging' = Exchanging \ {r}
<1>1. /\ pc[r] \in {"revoked", "listed"} /\ pc'[r] = "idle"
      /\ \A x \in Rotators \ {r} : pc'[x] = pc[x]
  BY EndPlaces DEF Save
<1>2. /\ UNCHANGED <<token, reuse, revoked>> /\ issued' = issued + 1
  BY DEF Save, NewToken
<1>3. issued \in Nat /\ issued + 1 \notin revoked
  BY RefreshAssumption DEF TypeOK, Tokens
<1>4. 1 .. issued + 1 = 1 .. issued \cup {issued + 1}
  BY <1>3
<1>5. QED
  BY <1>1, <1>2, <1>3, <1>4 DEF Live, Exchanging

(* Calls and logouts give no token and begin no exchange.                    *)
LEMMA OthersBy ==
  ASSUME TypeOK, Next,
         \/ \E r \in Rotators, t \in Tokens : Begin(r, t)
         \/ RevokeFamily
         \/ \E t \in Tokens : Forget(t)
  PROVE  /\ revoked \subseteq revoked'
         /\ Live' \subseteq Live /\ Exchanging' = Exchanging
<1>1. ASSUME NEW r \in Rotators, NEW t \in Tokens, Begin(r, t)
      PROVE  /\ revoked \subseteq revoked'
             /\ Live' = Live /\ Exchanging' = Exchanging
  <2>1. UNCHANGED <<issued, revoked>>
    BY <1>1 DEF Begin
  <2>2. /\ pc[r] = "idle" /\ pc'[r] \in {"checked", "found"}
        /\ \A x \in Rotators \ {r} : pc'[x] = pc[x]
    BY <1>1 DEF Begin, TypeOK
  <2>3. QED
    BY <2>1, <2>2 DEF Live, Exchanging
<1>2. CASE RevokeFamily
  BY <1>2 DEF RevokeFamily, FamilyOf, Live, Exchanging
<1>3. ASSUME NEW t \in Tokens, Forget(t)
      PROVE  /\ revoked \subseteq revoked'
             /\ Live' = Live /\ Exchanging' = Exchanging
  BY <1>3 DEF Forget, Live, Exchanging
<1>4. QED
  BY <1>1, <1>2, <1>3

LEMMA NextSolo == IInv /\ [Next]_vars => Solo'
<1>. SUFFICES ASSUME IInv, [Next]_vars PROVE Solo'
  OBVIOUS
<1>. USE DEF IInv
<1>1. ASSUME NEW r \in Rotators, Rotate(r) PROVE Solo'
  <2>1. CASE Blacklisted(r) \/ Find(r) \/ ReuseReported(r) \/ Blacklist(r)
    BY <2>1, SpentBy DEF Solo
  <2>2. CASE Reused(r)
    BY <2>2, KilledBy DEF Solo
  <2>3. CASE Revoke(r)
    <3>1. /\ token[r] \in Live /\ Live' = Live \ {token[r]}
          /\ Exchanging' = Exchanging \cup {r}
      BY <2>3, TakenBy
    <3>2. Live' = {} /\ Exchanging' = {r}
      BY <3>1 DEF Solo
    <3>3. QED
      BY <3>2 DEF Solo
  <2>4. CASE Save(r)
    <3>1. /\ r \in Exchanging /\ Exchanging' = Exchanging \ {r}
          /\ Live' = Live \cup {issued + 1}
      BY <2>4, GivenBy
    <3>2. Live' = {issued + 1} /\ Exchanging' = {}
      BY <3>1 DEF Solo
    <3>3. QED
      BY <3>2 DEF Solo
  <2>5. QED
    BY <1>1, <2>1, <2>2, <2>3, <2>4 DEF Rotate
<1>2. ASSUME Next, \/ \E r \in Rotators, t \in Tokens : Begin(r, t)
                   \/ RevokeFamily
                   \/ \E t \in Tokens : Forget(t)
      PROVE  Solo'
  <2>1. Live' \subseteq Live /\ Exchanging' = Exchanging
    BY <1>2, OthersBy
  <2>2. QED
    BY <2>1 DEF Solo
<1>3. CASE UNCHANGED vars
  BY <1>3 DEF Solo, Live, Exchanging, vars
<1>4. QED
  BY <1>1, <1>2, <1>3 DEF Next, Step

LEMMA NextReuseKnown == IInv /\ [Next]_vars => ReuseKnown'
<1>. SUFFICES ASSUME IInv, [Next]_vars, NEW q \in Rotators, reuse'[q]
     PROVE  /\ token'[q] \in revoked'
            /\ pc'[q] \in {"idle", "checked", "found", "killed"}
            /\ pc'[q] = "checked" => ~seen'[q]
            /\ pc'[q] # "idle" => \A x \in Rotators \ {q} : pc'[x] = "idle"
            /\ pc'[q] \in {"idle", "killed"} => Live' = {} /\ Exchanging' = {}
  BY DEF ReuseKnown
<1>. USE DEF IInv
<1>. DEFINE Known ==
       /\ token[q] \in revoked
       /\ pc[q] \in {"idle", "checked", "found", "killed"}
       /\ pc[q] = "checked" => ~seen[q]
       /\ pc[q] # "idle" => \A x \in Rotators \ {q} : pc[x] = "idle"
       /\ pc[q] \in {"idle", "killed"} => Live = {} /\ Exchanging = {}
<1>1. ASSUME NEW r \in Rotators, Rotate(r) PROVE Known'
  <2>1. reuse' = reuse /\ token' = token /\ pc[r] # "idle"
    BY <1>1, TurnEnds DEF Rotate, Blacklisted, Find, Reused, ReuseReported,
       Revoke, Blacklist, Save
  <2>2. Known
    BY <2>1 DEF ReuseKnown
  <2>3. r # q => pc[q] = "idle"
    BY <2>1, <2>2
  <2>4. CASE Blacklisted(r) \/ Find(r) \/ ReuseReported(r) \/ Blacklist(r)
    <3>1. /\ UNCHANGED <<revoked, token>>
          /\ \A x \in Rotators \ {r} : pc'[x] = pc[x]
          /\ \/ pc[r] = "checked" /\ seen[r] /\ pc'[r] = "idle"
             \/ pc[r] = "checked" /\ ~seen[r] /\ pc'[r] = "found"
             \/ pc[r] = "killed" /\ pc'[r] = "idle"
             \/ pc[r] = "revoked" /\ pc'[r] = "listed"
          /\ Live' = Live /\ Exchanging' = Exchanging
      BY <2>4, SpentBy
    <3>2. QED
      BY <2>2, <2>3, <3>1
  <2>5. CASE Reused(r)
    <3>1. /\ UNCHANGED token /\ revoked \subseteq revoked'
          /\ pc[r] = "found" /\ pc'[r] = "killed"
          /\ \A x \in Rotators \ {r} : pc'[x] = pc[x]
          /\ Live' = {} /\ Exchanging' = Exchanging
      BY <2>5, KilledBy
    <3>2. r = q => Exchanging = {}
      BY <2>2, <3>1 DEF Exchanging
    <3>3. QED
      BY <2>2, <2>3, <3>1, <3>2
  <2>6. CASE Revoke(r)
    <3>1. pc[r] = "found" /\ token[r] \in Live
      BY <2>6, TakenBy
    <3>2. QED
      BY <2>2, <2>3, <3>1 DEF Live
  <2>7. CASE Save(r)
    <3>1. r \in Exchanging
      BY <2>7, GivenBy
    <3>2. QED
      BY <2>2, <2>3, <3>1 DEF Exchanging
  <2>8. QED
    BY <1>1, <2>4, <2>5, <2>6, <2>7 DEF Rotate
<1>2. ASSUME NEW r \in Rotators, NEW t \in Tokens, Begin(r, t), Next PROVE Known'
  <2>1. /\ UNCHANGED revoked /\ Live' \subseteq Live
        /\ Exchanging' = Exchanging
    BY <1>2, OthersBy DEF Begin
  <2>2. CASE r = q
    <3>1. ready = <<>> /\ t \in revoked \ blacklist
      BY <1>2, <2>2 DEF Begin
    <3>2. \A x \in Rotators : pc[x] = "idle"
      <4>1. ToSet(ready) = {}
        BY <3>1 DEF ToSet
      <4>2. QED
        BY <4>1 DEF TypeOK
    <3>3. /\ token'[q] = t /\ pc'[q] \in {"checked", "found"}
          /\ pc'[q] = "checked" => ~seen'[q]
          /\ \A x \in Rotators \ {q} : pc'[x] = pc[x]
      BY <1>2, <2>2, <3>1 DEF Begin, TypeOK
    <3>4. QED
      BY <2>1, <3>1, <3>2, <3>3
  <2>3. CASE r # q
    <3>1. /\ reuse[q] /\ pc[q] = "idle"
          /\ token'[q] = token[q] /\ pc'[q] = pc[q]
      BY <1>2, <2>3 DEF Begin, TypeOK
    <3>2. QED
      BY <2>1, <3>1 DEF ReuseKnown
  <2>4. QED
    BY <2>2, <2>3
<1>3. ASSUME Next, RevokeFamily \/ \E t \in Tokens : Forget(t) PROVE Known'
  <2>1. UNCHANGED <<pc, token, seen, reuse>>
    BY <1>3 DEF RevokeFamily, Forget
  <2>2. /\ revoked \subseteq revoked' /\ Live' \subseteq Live
        /\ Exchanging' = Exchanging
    BY <1>3, OthersBy
  <2>3. QED
    BY <2>1, <2>2 DEF ReuseKnown
<1>4. CASE UNCHANGED vars
  BY <1>4 DEF ReuseKnown, Live, Exchanging, vars
<1>5. QED
  BY <1>1, <1>2, <1>3, <1>4 DEF Next, Step
-----------------------------------------------------------------------------
LEMMA AlwaysIInv == Spec => []IInv
<1>1. IInv /\ [Next]_vars => IInv'
  BY NextTypeOK, NextSolo, NextReuseKnown DEF IInv
<1>2. QED
  BY InitIInv, <1>1, PTL DEF Spec

(* tokenRefresh.ts:68-99: however any number of rotations overlap, logouts   *)
(* and expiring blacklist entries among them, the family never has two       *)
(* tokens that can be used or are being exchanged, and the microtasks are    *)
(* those of the rotations under way.                                         *)
THEOREM ExchangedOnce == Spec => []OneLiveToken
<1>1. IInv => OneLiveToken
  <2>. SUFFICES ASSUME IInv PROVE OneLiveToken
    OBVIOUS
  <2>1. Live = {} \/ \E t : Live = {t}
    BY DEF IInv, Solo
  <2>2. Exchanging = {} \/ \E r : Exchanging = {r}
    BY DEF IInv, Solo
  <2>3. \A x : Cardinality({x}) = 1
    BY FS_Singleton
  <2>4. /\ Cardinality(Live) \in {0, 1} /\ Cardinality(Exchanging) \in {0, 1}
        /\ Live = {} => Cardinality(Live) = 0
        /\ Exchanging = {} => Cardinality(Exchanging) = 0
    BY <2>1, <2>2, <2>3, FS_EmptySet
  <2>5. QED
    BY <2>4 DEF IInv, Solo, OneLiveToken
<1>2. QED
  BY <1>1, AlwaysIInv, PTL

(* tokenRefresh.ts:79-82: when a call that nothing overlapped has reported   *)
(* the reuse of a revoked token, no token of its family can be used.         *)
THEOREM ReuseRevokesFamily == Spec => []ReuseEndsFamily
<1>1. IInv => ReuseEndsFamily
  BY DEF IInv, ReuseKnown, ReuseEndsFamily
<1>2. QED
  BY <1>1, AlwaysIInv, PTL
-----------------------------------------------------------------------------
(* Sessions.                                                                 *)

(* A key in Redis outlives its record by less than a second, and one in      *)
(* memory is what requests wrote; before create() there is none; after a     *)
(* destroy() that no touch() overlapped there never is one.                  *)
KeyCovers(r) ==
  IF store = "memory" THEN r.keyTtl = NoKeyTtl /\ r.data = written
  ELSE r.keyTtl # NoKeyTtl /\ r.keyTtl <= r.left + Second

SessionIInv ==
  /\ session!TypeOK
  /\ record # Absent => KeyCovers(record)
  /\ ~created => /\ record = Absent /\ written = FALSE
                 /\ \A h \in Touchers : touching[h] = Absent
  /\ destroyed => created /\ record = Absent /\ \A h \in Touchers : touching[h] = Absent
  /\ ServedInTime /\ DestroyedForGood

LEMMA LifetimeTypes ==
  /\ session!Longest \in Nat /\ \A t \in Ttls : t \in 0 .. session!Longest
  /\ Second \in Nat \ {0} /\ NoKeyTtl \notin Nat /\ Absent \notin BOOLEAN
<1>1. PICK t \in Ttls : \A u \in Ttls : u <= t
  BY SessionsAssumption DEF session!SessionAssumption
<1>2. session!Longest \in Ttls /\ \A u \in Ttls : u <= session!Longest
  BY <1>1 DEF session!Longest
<1>3. QED
  BY <1>2, SessionsAssumption DEF session!SessionAssumption

(* Rounding up to seconds adds less than one, but never less than one in all.*)
LEMMA KeyRounded ==
  ASSUME NEW t \in Nat
  PROVE  /\ session!InTicks(session!KeySeconds(t)) \in 1 .. t + Second
         /\ session!InTicks(session!KeySeconds(t)) \in Nat
<1>. DEFINE up == (t + Second - 1) \div Second
<1>1. Second \in Nat /\ Second >= 1 /\ t + Second - 1 \in Nat
  BY LifetimeTypes
<1>2. up \in Nat /\ up * Second <= t + Second - 1
  BY <1>1
<1>3. CASE up < 1
  BY <1>1, <1>3 DEF session!InTicks, session!KeySeconds
<1>4. CASE ~(up < 1)
  <2>1. session!InTicks(session!KeySeconds(t)) = up * Second
    BY <1>4 DEF session!InTicks, session!KeySeconds
  <2>. HIDE DEF up
  <2>2. up * Second \in Nat /\ up * Second >= 1
    BY <1>1, <1>2, <1>4
  <2>3. QED
    BY <1>1, <1>2, <2>1, <2>2
<1>5. QED
  BY <1>3, <1>4

LEMMA NewRecordCovered ==
  ASSUME NEW t \in Ttls, NEW d \in BOOLEAN, store \in {"memory", "redis"},
         store = "memory" => d = written
  PROVE  /\ session!NewRecord(t, d) \in session!Records
         /\ KeyCovers(session!NewRecord(t, d))
         /\ (session!NewRecord(t, d).keyTtl = NoKeyTtl <=> store = "memory")
<1>. DEFINE k == session!KeyTtl(t)
            r == session!NewRecord(t, d)
<1>1. /\ t \in 0 .. session!Longest /\ session!Longest \in Nat
      /\ Second \in Nat \ {0} /\ NoKeyTtl \notin Nat /\ t \in Nat
  BY LifetimeTypes
<1>2. /\ store = "memory" => k = NoKeyTtl
      /\ store = "redis" => k \in 1 .. t + Second /\ k \in Nat
  BY <1>1, KeyRounded DEF session!KeyTtl
<1>3. r = [left |-> t, keyTtl |-> k, data |-> d]
  BY DEF session!NewRecord
<1>. HIDE DEF k, r
<1>4. k \in {NoKeyTtl} \cup 1 .. session!Longest + 2 * Second
  BY <1>1, <1>2
<1>5. t \in -2 * Second .. session!Longest
  BY <1>1
<1>6. r \in session!Records
  BY <1>3, <1>4, <1>5 DEF session!Records
<1>7. KeyCovers(r) /\ (r.keyTtl = NoKeyTtl <=> store = "memory")
  BY <1>1, <1>2, <1>3 DEF KeyCovers
<1>8. QED
  BY <1>6, <1>7 DEF r

LEMMA InitSessions == session!Init => SessionIInv
BY DEF session!Init, SessionIInv, session!TypeOK, ServedInTime, session!ServedInTime,
   DestroyedForGood, session!DestroyedForGood

LEMMA RecordFields ==
  ASSUME NEW r \in session!Records
  PROVE  /\ r.left \in -2 * Second .. session!Longest /\ r.left \in Int
         /\ r.keyTtl \in {NoKeyTtl} \cup 1 .. session!Longest + 2 * Second
         /\ r.data \in BOOLEAN
BY LifetimeTypes DEF session!Records

LEMMA SessionStep == SessionIInv /\ session!Next => SessionIInv'
<1>. SUFFICES ASSUME SessionIInv, session!Next PROVE SessionIInv'
  OBVIOUS
<1>0. store' = store /\ store \in {"memory", "redis"}
  BY DEF session!Next, SessionIInv, session!TypeOK
<1>1. ASSUME NEW t \in Ttls, session!Create(t)
      PROVE  SessionIInv'
  <2>1. /\ record' = session!NewRecord(t, FALSE) /\ created' = TRUE /\ served' = Nothing
        /\ UNCHANGED <<touching, written, destroyed>> /\ ~created
    BY <1>1 DEF session!Create
  <2>2. written = FALSE /\ ~destroyed
    BY <2>1 DEF SessionIInv
  <2>3. /\ record' \in session!Records
        /\ KeyCovers(record')
        /\ (record'.keyTtl = NoKeyTtl <=> store = "memory")
    BY <1>0, <2>1, <2>2, NewRecordCovered
  <2>4. KeyCovers(record)'
    BY <1>0, <2>1, <2>3 DEF KeyCovers
  <2>5. QED
    BY <1>0, <2>1, <2>2, <2>3, <2>4 DEF SessionIInv, session!TypeOK,
       ServedInTime, session!ServedInTime, DestroyedForGood, session!DestroyedForGood
<1>2. CASE session!Get
  <2>1. /\ record' \in {record, Absent} /\ created
        /\ UNCHANGED <<created, touching, written, destroyed>>
    BY <1>2 DEF session!Get, session!AfterGet
  <2>2. CASE session!Found
    <3>1. record' = record /\ served' = record /\ record # Absent
      BY <1>2, <2>2 DEF session!Get, session!AfterGet, session!Found
    <3>2. /\ record \in session!Records /\ KeyCovers(record) /\ ~destroyed
          /\ record.left \in Int /\ (store = "redis" => record.keyTtl \in Nat /\ record.keyTtl >= 1)
      BY <3>1, <1>0, RecordFields, LifetimeTypes DEF SessionIInv, session!TypeOK, KeyCovers
    <3>3. store = "memory" => record.left >= 0 /\ record.data = written
      BY <2>2, <3>2 DEF session!Found, session!Expired, KeyCovers
    <3>4. store = "redis" => record.left >= -(Second - 1)
      BY <3>2, LifetimeTypes DEF KeyCovers
    <3>5. record.left >= -session!Late
      BY <1>0, <3>3, <3>4 DEF session!Late
    <3>6. session!TypeOK' /\ KeyCovers(record)'
      BY <1>0, <2>1, <3>1, <3>2 DEF SessionIInv, session!TypeOK, KeyCovers
    <3>7. ServedInTime'
      BY <1>0, <2>1, <3>1, <3>3, <3>5, <3>6
         DEF ServedInTime, session!ServedInTime, session!Late
    <3>8. QED
      BY <2>1, <3>1, <3>2, <3>6, <3>7
         DEF SessionIInv, DestroyedForGood, session!DestroyedForGood
  <2>3. CASE ~session!Found
    <3>1. record' = Absent /\ served' = Nothing
      BY <1>2, <2>3 DEF session!Get, session!AfterGet
    <3>2. QED
      BY <1>0, <2>1, <3>1 DEF SessionIInv, session!TypeOK,
         ServedInTime, session!ServedInTime, DestroyedForGood, session!DestroyedForGood
  <2>4. QED
    BY <2>2, <2>3
<1>3. CASE session!Request
  <2>1. /\ record # Absent /\ written' = TRUE /\ served' = Nothing
        /\ record' = IF store = "memory" THEN [record EXCEPT !.data = TRUE] ELSE record
        /\ UNCHANGED <<created, touching, destroyed>>
    BY <1>3 DEF session!Request, session!Found, session!ByReference
  <2>2. /\ record \in session!Records /\ KeyCovers(record) /\ ~destroyed /\ created
        /\ (record.keyTtl = NoKeyTtl <=> store = "memory")
    BY <2>1 DEF SessionIInv, session!TypeOK
  <2>3. [record EXCEPT !.data = TRUE] \in session!Records
    BY <2>2 DEF session!Records
  <2>4. /\ record' \in session!Records /\ record'.keyTtl = record.keyTtl
        /\ record'.left = record.left /\ (store = "memory" => record'.data = TRUE)
    BY <2>1, <2>2, <2>3 DEF session!Records
  <2>5. KeyCovers(record)'
    BY <1>0, <2>1, <2>2, <2>4 DEF KeyCovers
  <2>6. QED
    BY <1>0, <2>1, <2>2, <2>4, <2>5 DEF SessionIInv, session!TypeOK,
       ServedInTime, session!ServedInTime, DestroyedForGood, session!DestroyedForGood
<1>4. ASSUME NEW h \in Touchers, session!TouchGets(h)
      PROVE  SessionIInv'
  <2>1. /\ record' \in {record, Absent} /\ created /\ served' = Nothing
        /\ touching' = [touching EXCEPT ![h] = session!Got]
        /\ UNCHANGED <<created, written, destroyed>>
    BY <1>4 DEF session!TouchGets, session!AfterGet
  <2>2. session!Got \in {Absent} \cup BOOLEAN /\ (record = Absent => session!Got = Absent)
    BY RecordFields DEF SessionIInv, session!TypeOK, session!Got, session!Found
  <2>3. touching' \in [Touchers -> {Absent} \cup BOOLEAN]
    BY <2>1, <2>2 DEF SessionIInv, session!TypeOK
  <2>4. destroyed => \A g \in Touchers : touching'[g] = Absent
    BY <2>1, <2>2 DEF SessionIInv, session!TypeOK
  <2>5. session!TypeOK' /\ (record' # Absent => KeyCovers(record)')
    BY <1>0, <2>1, <2>3 DEF SessionIInv, session!TypeOK, KeyCovers
  <2>6. QED
    BY <1>0, <2>1, <2>4, <2>5 DEF SessionIInv,
       ServedInTime, session!ServedInTime, DestroyedForGood, session!DestroyedForGood
<1>5. ASSUME NEW h \in Touchers, NEW t \in Ttls, session!TouchSets(h, t)
      PROVE  SessionIInv'
  <2>. DEFINE d == IF store = "memory" THEN written ELSE touching[h]
  <2>1. /\ touching[h] # Absent /\ served' = Nothing
        /\ record' = session!NewRecord(t, d)
        /\ touching' = [touching EXCEPT ![h] = Absent]
        /\ UNCHANGED <<created, written, destroyed>>
    BY <1>5 DEF session!TouchSets, session!ByReference
  <2>2. /\ d \in BOOLEAN /\ (store = "memory" => d = written) /\ ~destroyed
    BY <2>1 DEF SessionIInv, session!TypeOK
  <2>3. created
    BY <2>1 DEF SessionIInv
  <2>. HIDE DEF d
  <2>4. /\ record' \in session!Records /\ KeyCovers(record')
        /\ (record'.keyTtl = NoKeyTtl <=> store = "memory")
    BY <1>0, <2>1, <2>2, NewRecordCovered
  <2>5. KeyCovers(record)'
    BY <1>0, <2>1, <2>4 DEF KeyCovers
  <2>6. touching' \in [Touchers -> {Absent} \cup BOOLEAN]
    BY <2>1 DEF SessionIInv, session!TypeOK
  <2>7. QED
    BY <1>0, <2>1, <2>2, <2>3, <2>4, <2>5, <2>6 DEF SessionIInv, session!TypeOK,
       ServedInTime, session!ServedInTime, DestroyedForGood, session!DestroyedForGood
<1>6. CASE session!Destroy
  BY <1>0, <1>6 DEF session!Destroy, SessionIInv, session!TypeOK,
     ServedInTime, session!ServedInTime, DestroyedForGood, session!DestroyedForGood
<1>7. CASE session!Tick
  <2>. DEFINE left == IF record.left > -2 * Second THEN record.left - 1 ELSE record.left
  <2>1. /\ record # Absent /\ served' = Nothing
        /\ record' = IF record.keyTtl = NoKeyTtl THEN [record EXCEPT !.left = left]
                     ELSE IF record.keyTtl = 1 THEN Absent
                     ELSE [record EXCEPT !.left = left, !.keyTtl = @ - 1]
        /\ UNCHANGED <<created, touching, written, destroyed>>
    BY <1>7 DEF session!Tick
  <2>2. /\ record \in session!Records /\ KeyCovers(record) /\ ~destroyed /\ created
        /\ (record.keyTtl = NoKeyTtl <=> store = "memory")
    BY <2>1 DEF SessionIInv, session!TypeOK
  <2>3. /\ record.left \in -2 * Second .. session!Longest /\ record.left \in Int
        /\ record.keyTtl \in {NoKeyTtl} \cup 1 .. session!Longest + 2 * Second
        /\ record.data \in BOOLEAN
    BY <2>2, RecordFields
  <2>4. left \in -2 * Second .. session!Longest
    BY <2>3, LifetimeTypes
  <2>5. CASE store = "memory"
    <3>. HIDE DEF left
    <3>1. record' = [record EXCEPT !.left = left]
      BY <2>1, <2>2, <2>5
    <3>2. /\ record' \in session!Records /\ record'.keyTtl = record.keyTtl
          /\ record'.data = record.data
      BY <2>2, <2>4, <3>1 DEF session!Records
    <3>3. KeyCovers(record)'
      BY <1>0, <2>1, <2>2, <2>5, <3>2 DEF KeyCovers
    <3>4. QED
      BY <1>0, <2>1, <2>2, <3>2, <3>3 DEF SessionIInv, session!TypeOK,
         ServedInTime, session!ServedInTime, DestroyedForGood, session!DestroyedForGood
  <2>6. CASE store = "redis" /\ record.keyTtl = 1
    <3>1. record' = Absent
      BY <2>1, <2>2, <2>6
    <3>2. QED
      BY <1>0, <2>1, <2>2, <3>1 DEF SessionIInv, session!TypeOK,
         ServedInTime, session!ServedInTime, DestroyedForGood, session!DestroyedForGood
  <2>7. CASE store = "redis" /\ record.keyTtl # 1
    <3>1. /\ record.keyTtl \in 2 .. session!Longest + 2 * Second
          /\ record.keyTtl <= record.left + Second
      BY <2>2, <2>3, <2>7, LifetimeTypes DEF KeyCovers
    <3>2. left = record.left - 1 /\ record.keyTtl - 1 \in 1 .. session!Longest + 2 * Second
      BY <2>3, <3>1, LifetimeTypes
    <3>. HIDE DEF left
    <3>3. record' = [record EXCEPT !.left = left, !.keyTtl = record.keyTtl - 1]
      BY <2>1, <2>2, <2>7
    <3>4. /\ record' \in session!Records /\ record'.keyTtl = record.keyTtl - 1
          /\ record'.left = left /\ record'.data = record.data
      BY <2>2, <2>4, <3>2, <3>3 DEF session!Records
    <3>5. record'.keyTtl # NoKeyTtl /\ record'.keyTtl <= record'.left + Second
      BY <2>3, <3>1, <3>2, <3>4, LifetimeTypes
    <3>6. KeyCovers(record)'
      BY <1>0, <2>7, <3>5 DEF KeyCovers
    <3>7. QED
      BY <1>0, <2>1, <2>2, <2>7, <3>4, <3>5, <3>6 DEF SessionIInv, session!TypeOK,
         ServedInTime, session!ServedInTime, DestroyedForGood, session!DestroyedForGood
  <2>8. QED
    BY <1>0, <2>5, <2>6, <2>7
<1>8. QED
  BY <1>1, <1>2, <1>3, <1>4, <1>5, <1>6, <1>7 DEF session!Next, session!Step

LEMMA SessionInvariant == session!Spec => []SessionIInv
<1>1. SessionIInv /\ UNCHANGED session!vars => SessionIInv'
  BY DEF session!vars, SessionIInv, session!TypeOK, KeyCovers, ServedInTime,
     session!ServedInTime, session!Late, DestroyedForGood, session!DestroyedForGood
<1>2. SessionIInv /\ [session!Next]_(session!vars) => SessionIInv'
  BY <1>1, SessionStep
<1>3. QED
  BY <1>2, InitSessions, PTL DEF session!Spec

(* Redis may serve a session late, but by less than a second, and memory     *)
(* never, with all that requests wrote: for any lifetimes, any length of a   *)
(* second and any number of overlapping touches.                             *)
THEOREM SessionsServedInTime == session!Spec => []ServedInTime
<1>1. SessionIInv => ServedInTime
  BY DEF SessionIInv
<1>2. QED
  BY <1>1, SessionInvariant, PTL

(* What destroy() removed stays removed, unless a touch() had begun.         *)
THEOREM DestroyedStaysDestroyed == session!Spec => []DestroyedForGood
<1>1. SessionIInv => DestroyedForGood
  BY DEF SessionIInv
<1>2. QED
  BY <1>1, SessionInvariant, PTL
-----------------------------------------------------------------------------
Pairs == (SUBSET Names) \X (SUBSET Names)

Map(map) == DOMAIN map \subseteq Names /\ \A n \in DOMAIN map : map[n] \in rbac!Role

(* A walk over the names in S, where those in met were met before: one name *)
(* after another, its parents first, as h does it.                           *)
WalkStep(map, h, S, met) ==
  IF S = {} THEN met
  ELSE h[<<S \ {Chosen(S)},
           IF Chosen(S) \in met THEN met
           ELSE h[<<rbac!ParentsIn(map, Chosen(S)), met \cup {Chosen(S)}>>]>>]

LEMMA WalkAsFcn ==
  \A map : rbac!Walk(map) = CHOOSE h : h = [w \in Pairs |-> WalkStep(map, h, w[1], w[2])]
BY DEF rbac!Walk, WalkStep, Chosen, Pairs

LEMMA NamesFinite ==
  /\ IsFiniteSet(Names) /\ Cardinality(Names) \in Nat
  /\ \A S \in SUBSET Names : /\ IsFiniteSet(S) /\ Cardinality(S) \in 0 .. Cardinality(Names)
<1>1. IsFiniteSet(Names)
  BY RolesAssumption DEF rbac!RoleAssumption, rbac!IsFiniteSet, IsFiniteSet
<1>2. QED
  BY <1>1, FS_Subset, FS_CardinalityType

(* A walk within a walk meets more names before it begins, and the rest of a *)
(* walk has a name less: both are of lower rank.                             *)
Rank(S, met) ==
  (Cardinality(Names) + 1) * Cardinality(Names \ met) + Cardinality(S)

LEMMA RankFalls ==
  ASSUME NEW S \in SUBSET Names, NEW met \in SUBSET Names
  PROVE  /\ Rank(S, met) \in Nat
         /\ \A n \in S, v \in SUBSET Names :
              met \subseteq v => Rank(S \ {n}, v) < Rank(S, met)
         /\ \A n \in S \ met, T \in SUBSET Names :
              Rank(T, met \cup {n}) < Rank(S, met)
<1>. DEFINE M == Cardinality(Names) + 1
            d == Cardinality(Names \ met)
            s == Cardinality(S)
<1>1. /\ IsFiniteSet(Names \ met) /\ IsFiniteSet(S)
      /\ d \in Nat /\ s \in Nat /\ M \in Nat /\ M > 0
  BY NamesFinite
<1>2. \A x, y \in Nat : M * x \in Nat /\ (x <= y => M * x <= M * y)
  BY <1>1, ProductType, ProductMonotone
<1>3. ASSUME NEW n \in S, NEW v \in SUBSET Names, met \subseteq v
      PROVE  Rank(S \ {n}, v) < Rank(S, met)
  <2>. DEFINE e == Cardinality(Names \ v)
  <2>1. Names \ v \subseteq Names \ met
    BY <1>3
  <2>2. e \in Nat /\ e <= d
    BY <1>1, <2>1, FS_Subset, FS_CardinalityType
  <2>3. Cardinality(S \ {n}) = s - 1
    BY <1>1, FS_RemoveElement
  <2>4. M * e <= M * d /\ M * e \in Nat /\ M * d \in Nat
    BY <1>1, <1>2, <2>2
  <2>. DEFINE x == M * e
              y == M * d
  <2>. HIDE DEF M, d, s, e, x, y
  <2>5. x + (s - 1) < y + s
    BY <1>1, <2>4 DEF x, y
  <2>6. QED
    BY <2>3, <2>5 DEF Rank, M, d, s, e, x, y
<1>4. ASSUME NEW n \in S \ met, NEW T \in SUBSET Names
      PROVE  Rank(T, met \cup {n}) < Rank(S, met)
  <2>. DEFINE t == Cardinality(T)
  <2>1. Names \ (met \cup {n}) = (Names \ met) \ {n} /\ n \in Names \ met
    BY <1>4
  <2>2. Cardinality(Names \ (met \cup {n})) = d - 1 /\ d - 1 \in Nat
    <3>1. Cardinality((Names \ met) \ {n}) = d - 1 /\ IsFiniteSet((Names \ met) \ {n})
      BY <1>1, <2>1, FS_RemoveElement
    <3>2. Cardinality((Names \ met) \ {n}) \in Nat
      BY <3>1, FS_CardinalityType
    <3>3. QED
      BY <2>1, <3>1, <3>2
  <2>3. t \in Nat /\ t < M
    BY NamesFinite
  <2>4. M * d = M * (d - 1) + M /\ M * (d - 1) \in Nat
    BY <1>1, <1>2, <2>2
  <2>. DEFINE x == M * (d - 1)
              y == M * d
  <2>. HIDE DEF M, d, s, t, x, y
  <2>5. x + t < y + s
    BY <1>1, <2>3, <2>4 DEF x, y
  <2>6. QED
    BY <2>2, <2>5 DEF Rank, M, d, s, t, x, y
<1>5. Rank(S, met) \in Nat
  BY <1>1, <1>2 DEF Rank
<1>6. QED
  BY <1>3, <1>4, <1>5

LEMMA ParentsKnown ==
  ASSUME NEW map, Map(map)
  PROVE  \A n : rbac!ParentsIn(map, n) \in SUBSET Names
BY DEF rbac!ParentsIn, Map, rbac!Role

(* h does the walks of rank k and less, and forgets no name.                 *)
Walks(map, h, k) ==
  \A w \in Pairs : Rank(w[1], w[2]) <= k =>
    /\ h[w] = WalkStep(map, h, w[1], w[2])
    /\ h[w] \in SUBSET Names /\ w[2] \subseteq h[w]

LEMMA WalkLower ==
  ASSUME NEW map, Map(map), NEW h, NEW k \in Nat,
         \A w \in Pairs : Rank(w[1], w[2]) < k => h[w] \in SUBSET Names /\ w[2] \subseteq h[w],
         NEW w \in Pairs, Rank(w[1], w[2]) <= k
  PROVE  /\ WalkStep(map, h, w[1], w[2]) \in SUBSET Names
         /\ w[2] \subseteq WalkStep(map, h, w[1], w[2])
         /\ \A g : (\A v \in Pairs : Rank(v[1], v[2]) < k => g[v] = h[v])
                     => WalkStep(map, g, w[1], w[2]) = WalkStep(map, h, w[1], w[2])
<1>. DEFINE S == w[1]
            met == w[2]
            n == Chosen(S)
            u == <<rbac!ParentsIn(map, n), met \cup {n}>>
            m == IF n \in met THEN met ELSE h[u]
            r == <<S \ {n}, m>>
<1>1. S \in SUBSET Names /\ met \in SUBSET Names /\ Rank(S, met) <= k
  BY DEF Pairs
<1>2. CASE S = {}
  BY <1>1, <1>2 DEF WalkStep
<1>3. CASE S # {}
  <2>1. n \in S
    BY <1>3, ChosenIn
  <2>2. rbac!ParentsIn(map, n) \in SUBSET Names
    BY ParentsKnown
  <2>3. ASSUME n \notin met
        PROVE  u \in Pairs /\ Rank(u[1], u[2]) < k
    <3>1. Rank(rbac!ParentsIn(map, n), met \cup {n}) < Rank(S, met)
      BY <1>1, <2>1, <2>2, <2>3, RankFalls
    <3>2. /\ Rank(rbac!ParentsIn(map, n), met \cup {n}) \in Nat /\ Rank(S, met) \in Nat
      BY <1>1, <2>1, <2>2, RankFalls
    <3>3. QED
      BY <1>1, <2>1, <2>2, <3>1, <3>2 DEF Pairs
  <2>4. m \in SUBSET Names /\ met \subseteq m
    BY <1>1, <2>3
  <2>5. r \in Pairs /\ Rank(r[1], r[2]) < k
    <3>. HIDE DEF m, n, S, met
    <3>1. Rank(S \ {n}, m) < Rank(S, met)
      BY <1>1, <2>1, <2>4, RankFalls
    <3>2. Rank(S \ {n}, m) \in Nat /\ Rank(S, met) \in Nat
      BY <1>1, <2>4, RankFalls
    <3>3. QED
      BY <1>1, <2>4, <3>1, <3>2 DEF Pairs
  <2>6. WalkStep(map, h, S, met) = h[r]
    BY <1>3 DEF WalkStep
  <2>7. h[r] \in SUBSET Names /\ m \subseteq h[r]
    <3>. HIDE DEF m, S
    <3>1. r[2] = m
      OBVIOUS
    <3>. HIDE DEF r
    <3>2. QED
      BY <2>5, <3>1
  <2>8. ASSUME NEW g, \A v \in Pairs : Rank(v[1], v[2]) < k => g[v] = h[v]
        PROVE  WalkStep(map, g, S, met) = h[r]
    <3>1. g[r] = h[r]
      <4>. HIDE DEF r
      <4>1. QED
        BY <2>5, <2>8
    <3>2. n \notin met => g[u] = h[u]
      <4>. HIDE DEF u
      <4>1. QED
        BY <2>3, <2>8
    <3>3. m = IF n \in met THEN met ELSE g[u]
      BY <3>2
    <3>4. QED
      BY <1>3, <3>1, <3>3 DEF WalkStep
  <2>9. met \subseteq h[r]
    BY <2>4, <2>7
  <2>. HIDE DEF r, m, u
  <2>10. QED
    BY <2>6, <2>7, <2>8, <2>9
<1>4. QED
  BY <1>2, <1>3

LEMMA WalkExists ==
  ASSUME NEW map, Map(map)
  PROVE  \A w \in Pairs : rbac!Walk(map)[w] = WalkStep(map, rbac!Walk(map), w[1], w[2])
<1>. DEFINE Good == {k \in Nat : \E h : h \in [Pairs -> SUBSET Names] /\ Walks(map, h, k)}
            top == (Cardinality(Names) + 1) * Cardinality(Names) + Cardinality(Names)
<1>1. \A w \in Pairs : Rank(w[1], w[2]) \in Nat /\ w[1] \in SUBSET Names /\ w[2] \in SUBSET Names
  BY RankFalls DEF Pairs
<1>2. ASSUME NEW k \in Nat, NEW h, h \in [Pairs -> SUBSET Names],
             \A w \in Pairs : Rank(w[1], w[2]) < k =>
               /\ h[w] = WalkStep(map, h, w[1], w[2])
               /\ h[w] \in SUBSET Names /\ w[2] \subseteq h[w]
      PROVE  k \in Good
  <2>. DEFINE g == [w \in Pairs |-> IF Rank(w[1], w[2]) < k THEN h[w]
                                    ELSE IF Rank(w[1], w[2]) = k
                                         THEN WalkStep(map, h, w[1], w[2]) ELSE {}]
  <2>1. \A w \in Pairs : Rank(w[1], w[2]) <= k =>
          /\ WalkStep(map, h, w[1], w[2]) \in SUBSET Names
          /\ w[2] \subseteq WalkStep(map, h, w[1], w[2])
          /\ \A f : (\A v \in Pairs : Rank(v[1], v[2]) < k => f[v] = h[v])
                      => WalkStep(map, f, w[1], w[2]) = WalkStep(map, h, w[1], w[2])
    BY <1>2, WalkLower
  <2>2. \A v \in Pairs : Rank(v[1], v[2]) < k => g[v] = h[v]
    OBVIOUS
  <2>3. \A v \in Pairs : Rank(v[1], v[2]) = k => g[v] = WalkStep(map, h, v[1], v[2])
    BY <1>1
  <2>4. g \in [Pairs -> SUBSET Names]
    BY <1>1, <1>2, <2>1
  <2>. HIDE DEF g
  <2>5. ASSUME NEW w \in Pairs, Rank(w[1], w[2]) <= k
        PROVE  /\ g[w] = WalkStep(map, g, w[1], w[2])
               /\ g[w] \in SUBSET Names /\ w[2] \subseteq g[w]
    <3>1. WalkStep(map, g, w[1], w[2]) = WalkStep(map, h, w[1], w[2])
      BY <2>1, <2>2, <2>5
    <3>2. g[w] = WalkStep(map, h, w[1], w[2])
      <4>1. CASE Rank(w[1], w[2]) < k
        BY <1>2, <2>2, <4>1
      <4>2. CASE Rank(w[1], w[2]) = k
        BY <2>3, <4>2
      <4>3. QED
        BY <1>1, <2>5, <4>1, <4>2
    <3>3. QED
      BY <2>1, <2>5, <3>1, <3>2
  <2>6. QED
    BY <2>4, <2>5 DEF Walks
<1>3. 0 \in Good
  <2>. DEFINE h == [w \in Pairs |-> {}]
  <2>1. h \in [Pairs -> SUBSET Names]
    OBVIOUS
  <2>2. \A w \in Pairs : ~(Rank(w[1], w[2]) < 0)
    BY <1>1
  <2>. HIDE DEF h, Good
  <2>3. QED
    BY <1>2, <2>1, <2>2
<1>4. ASSUME NEW k \in Nat, k \in Good
      PROVE  k + 1 \in Good
  <2>1. PICK h : h \in [Pairs -> SUBSET Names] /\ Walks(map, h, k)
    BY <1>4
  <2>2. \A w \in Pairs : Rank(w[1], w[2]) < k + 1 => Rank(w[1], w[2]) <= k
    BY <1>1
  <2>. HIDE DEF Good
  <2>3. QED
    BY <1>2, <2>1, <2>2 DEF Walks
<1>5. top \in Nat /\ \A w \in Pairs : Rank(w[1], w[2]) <= top
  <2>. DEFINE N == Cardinality(Names)
              M == N + 1
  <2>1. N \in Nat /\ M \in Nat /\ M * N \in Nat
    BY NamesFinite, ProductType
  <2>2. ASSUME NEW w \in Pairs
        PROVE  Rank(w[1], w[2]) <= top
    <3>. DEFINE d == Cardinality(Names \ w[2])
                s == Cardinality(w[1])
    <3>1. d \in 0 .. N /\ s \in 0 .. N
      BY <1>1, NamesFinite
    <3>2. M * d <= M * N /\ M * d \in Nat
      BY <2>1, <3>1, ProductType, ProductMonotone
    <3>. DEFINE x == M * d
                y == M * N
    <3>. HIDE DEF x, y, d, s, N, M
    <3>3. x + s <= y + N
      BY <2>1, <3>1, <3>2 DEF x, y
    <3>4. QED
      BY <3>3 DEF x, y, d, s, N, M, Rank
  <2>3. QED
    BY <2>1, <2>2
<1>6. top \in Good
  <2>. HIDE DEF Good, top
  <2>1. QED
    BY <1>3, <1>4, <1>5, InductionOnNat
<1>7. PICK h : h \in [Pairs -> SUBSET Names] /\ Walks(map, h, top)
  BY <1>6
<1>8. \A w \in Pairs : h[w] = WalkStep(map, h, w[1], w[2])
  <2>. HIDE DEF top
  <2>1. QED
    BY <1>5, <1>7 DEF Walks
<1>9. \E f : f = [w \in Pairs |-> WalkStep(map, f, w[1], w[2])]
  <2>1. h = [w \in Pairs |-> h[w]]
    BY <1>7
  <2>2. h = [w \in Pairs |-> WalkStep(map, h, w[1], w[2])]
    BY <1>8, <2>1
  <2>3. QED
    BY <2>2
<1>10. rbac!Walk(map) = [w \in Pairs |-> WalkStep(map, rbac!Walk(map), w[1], w[2])]
  BY <1>9, WalkAsFcn
<1>11. QED
  <2>. DEFINE f == rbac!Walk(map)
              E(w) == WalkStep(map, f, w[1], w[2])
  <2>1. f = [w \in Pairs |-> E(w)]
    BY <1>10
  <2>. HIDE DEF f, E
  <2>2. \A w \in Pairs : f[w] = E(w)
    BY <2>1
  <2>3. QED
    BY <2>2 DEF f, E

(* A set that has the parents of its members.                                *)
HasParents(map, R) == \A m \in R : rbac!ParentsIn(map, m) \subseteq R

(* What a walk over S meets beyond those: S, the parents of all that it met  *)
(* and nothing else.                                                         *)
GoodWalk(map, S, met, v) ==
  /\ v \in SUBSET Names /\ met \subseteq v /\ S \subseteq v
  /\ \A m \in v \ met : rbac!ParentsIn(map, m) \subseteq v
  /\ \A R \in SUBSET Names : S \subseteq R /\ HasParents(map, R) => v \subseteq met \cup R

LEMMA GoodWalkStep ==
  ASSUME NEW map, Map(map), NEW S \in SUBSET Names, NEW met \in SUBSET Names,
         \A T \in SUBSET Names, c \in SUBSET Names :
           Rank(T, c) < Rank(S, met) => GoodWalk(map, T, c, rbac!Walk(map)[<<T, c>>])
  PROVE  GoodWalk(map, S, met, rbac!Walk(map)[<<S, met>>])
<1>. DEFINE h == rbac!Walk(map)
            n == Chosen(S)
            P == rbac!ParentsIn(map, n)
            m == IF n \in met THEN met ELSE h[<<P, met \cup {n}>>]
            v == h[<<S \ {n}, m>>]
<1>1. h[<<S, met>>] = WalkStep(map, h, S, met)
  <2>1. <<S, met>> \in Pairs
    BY DEF Pairs
  <2>2. QED
    BY <2>1, WalkExists
<1>2. CASE S = {}
  <2>1. h[<<S, met>>] = met
    BY <1>1, <1>2 DEF WalkStep
  <2>2. QED
    BY <1>2, <2>1 DEF GoodWalk
<1>3. CASE S # {}
  <2>1. n \in S /\ n \in Names
    BY <1>3, ChosenIn
  <2>2. P \in SUBSET Names
    BY ParentsKnown
  <2>3. h[<<S, met>>] = v
    BY <1>1, <1>3 DEF WalkStep
  <2>4. ASSUME n \notin met
        PROVE  GoodWalk(map, P, met \cup {n}, m)
    <3>. HIDE DEF P
    <3>1. Rank(P, met \cup {n}) < Rank(S, met)
      BY <2>1, <2>2, <2>4, RankFalls
    <3>2. GoodWalk(map, P, met \cup {n}, h[<<P, met \cup {n}>>])
      <4>. HIDE DEF n
      <4>1. met \cup {n} \in SUBSET Names
        BY <2>1
      <4>2. QED
        BY <2>2, <3>1, <4>1
    <3>3. QED
      BY <2>4, <3>2
  <2>5. /\ m \in SUBSET Names /\ met \cup {n} \subseteq m
        /\ n \notin met => P \subseteq m
        /\ \A x \in m \ (met \cup {n}) : rbac!ParentsIn(map, x) \subseteq m
        /\ \A R \in SUBSET Names :
             S \subseteq R /\ HasParents(map, R) => m \subseteq met \cup R
    <3>1. CASE n \in met
      BY <3>1
    <3>2. CASE n \notin met
      <4>1. GoodWalk(map, P, met \cup {n}, m)
        BY <2>4, <3>2
      <4>2. \A R \in SUBSET Names : S \subseteq R /\ HasParents(map, R) => P \subseteq R /\ n \in R
        BY <2>1 DEF HasParents
      <4>. HIDE DEF m, P, n
      <4>3. QED
        BY <4>1, <4>2 DEF GoodWalk
    <3>3. QED
      BY <3>1, <3>2
  <2>6. GoodWalk(map, S \ {n}, m, v)
    <3>. HIDE DEF m, n
    <3>1. Rank(S \ {n}, m) < Rank(S, met)
      BY <2>1, <2>5, RankFalls
    <3>2. QED
      BY <2>5, <3>1
  <2>7. GoodWalk(map, S, met, v)
    <3>1. n \notin met => rbac!ParentsIn(map, n) \subseteq m
      BY <2>5
    <3>. HIDE DEF m, v, n
    <3>2. /\ v \in SUBSET Names /\ m \subseteq v /\ S \ {n} \subseteq v
          /\ \A x \in v \ m : rbac!ParentsIn(map, x) \subseteq v
          /\ \A R \in SUBSET Names :
               S \ {n} \subseteq R /\ HasParents(map, R) => v \subseteq m \cup R
      BY <2>6 DEF GoodWalk
    <3>3. met \subseteq v /\ S \subseteq v
      BY <2>5, <3>2
    <3>4. ASSUME NEW x \in v \ met
          PROVE  rbac!ParentsIn(map, x) \subseteq v
      <4>1. CASE x = n
        BY <3>1, <3>2, <3>4, <4>1
      <4>2. CASE x # n
        BY <2>5, <3>2, <3>4, <4>2
      <4>3. QED
        BY <4>1, <4>2
    <3>5. ASSUME NEW R \in SUBSET Names, S \subseteq R, HasParents(map, R)
          PROVE  v \subseteq met \cup R
      <4>1. m \subseteq met \cup R /\ v \subseteq m \cup R
        BY <2>5, <3>2, <3>5
      <4>2. QED
        BY <4>1
    <3>6. QED
      BY <3>2, <3>3, <3>4, <3>5 DEF GoodWalk
  <2>8. QED
    BY <2>3, <2>7
<1>4. QED
  BY <1>2, <1>3

(* Every walk is good: by induction over its rank.                           *)
LEMMA WalkIsGood ==
  ASSUME NEW map, Map(map)
  PROVE  \A S, met \in SUBSET Names : GoodWalk(map, S, met, rbac!Walk(map)[<<S, met>>])
<1>. DEFINE W(S, met) == GoodWalk(map, S, met, rbac!Walk(map)[<<S, met>>])
            Good == {k \in Nat : \A S, met \in SUBSET Names : Rank(S, met) < k => W(S, met)}
<1>1. \A S, met \in SUBSET Names : Rank(S, met) \in Nat
  BY RankFalls
<1>2. \A S, met \in SUBSET Names :
        (\A T, c \in SUBSET Names : Rank(T, c) < Rank(S, met) => W(T, c)) => W(S, met)
  BY GoodWalkStep
<1>. HIDE DEF W
<1>3. 0 \in Good
  BY <1>1
<1>4. ASSUME NEW k \in Nat, k \in Good
      PROVE  k + 1 \in Good
  <2>1. ASSUME NEW S \in SUBSET Names, NEW met \in SUBSET Names, Rank(S, met) < k + 1
        PROVE  W(S, met)
    <3>1. ASSUME NEW T \in SUBSET Names, NEW c \in SUBSET Names, Rank(T, c) < Rank(S, met)
          PROVE  W(T, c)
      <4>1. Rank(T, c) < k
        <5>1. Rank(T, c) \in Nat /\ Rank(S, met) \in Nat
          BY <1>1
        <5>2. QED
          BY <2>1, <3>1, <5>1
      <4>2. QED
        BY <1>4, <4>1
    <3>2. QED
      BY <1>2, <3>1
  <2>2. QED
    BY <2>1
<1>5. \A k \in Nat : k \in Good
  <2>. HIDE DEF Good
  <2>1. QED
    BY <1>3, <1>4, InductionOnNat
<1>6. ASSUME NEW S \in SUBSET Names, NEW met \in SUBSET Names
      PROVE  W(S, met)
  <2>1. Rank(S, met) + 1 \in Nat /\ Rank(S, met) < Rank(S, met) + 1
    BY <1>1
  <2>2. QED
    BY <1>5, <2>1
<1>7. QED
  BY <1>6 DEF W

(* What is met above the names in S, apart from any walk: the least set that *)
(* has S and the parents of its members.                                     *)
LEMMA MetIsLeast ==
  ASSUME NEW map, Map(map), NEW S \in SUBSET Names
  PROVE  /\ rbac!Met(map, S) \in SUBSET Names /\ S \subseteq rbac!Met(map, S)
         /\ HasParents(map, rbac!Met(map, S))
         /\ \A R \in SUBSET Names :
              S \subseteq R /\ HasParents(map, R) => rbac!Met(map, S) \subseteq R
<1>1. GoodWalk(map, S, {}, rbac!Met(map, S))
  BY WalkIsGood DEF rbac!Met
<1>2. QED
  BY <1>1 DEF GoodWalk, HasParents

(* The names above n are those that the walk over its parents meets.         *)
LEMMA MetAbove ==
  ASSUME NEW map, Map(map), NEW n \in Names
  PROVE  /\ rbac!AncestorChain(map, n) = rbac!Above(map, n)
         /\ rbac!Met(map, {n}) = {n} \cup rbac!Above(map, n)
<1>. DEFINE A == rbac!Above(map, n)
            P == rbac!ParentsIn(map, n)
            C == rbac!Met(map, P)
            D == rbac!Met(map, {n})
            Closed(S) == \A m \in S \cup {n} : rbac!ParentsIn(map, m) \subseteq S
<1>1. A = {m \in Names : \A S \in SUBSET Names : Closed(S) => m \in S}
  BY DEF rbac!Above
<1>2. P \in SUBSET Names
  BY ParentsKnown
<1>3. /\ C \in SUBSET Names /\ P \subseteq C /\ HasParents(map, C)
      /\ \A R \in SUBSET Names : P \subseteq R /\ HasParents(map, R) => C \subseteq R
  <2>. HIDE DEF P
  <2>1. QED
    BY <1>2, MetIsLeast
<1>4. /\ D \in SUBSET Names /\ n \in D /\ HasParents(map, D)
      /\ \A R \in SUBSET Names : n \in R /\ HasParents(map, R) => D \subseteq R
  BY MetIsLeast
<1>5. \A S : Closed(S) <=> P \subseteq S /\ HasParents(map, S)
  BY DEF HasParents
<1>. HIDE DEF A, C, D, Closed
<1>6. A = C
  BY <1>1, <1>3, <1>5
<1>7. D = {n} \cup C
  <2>1. {n} \cup C \in SUBSET Names /\ HasParents(map, {n} \cup C)
    BY <1>3 DEF HasParents
  <2>2. P \subseteq D
    BY <1>4 DEF HasParents
  <2>3. QED
    BY <1>3, <1>4, <2>1, <2>2
<1>8. QED
  BY <1>6, <1>7 DEF A, C, D, rbac!AncestorChain

Family(map, n) == {n} \cup rbac!Above(map, n)

(* What n should have, and whether resolving it should throw.                *)
HasOf(map, n) == UNION {map[m].permissions : m \in Family(map, n) \cap DOMAIN map}

LacksOf(map, n) == ~(Family(map, n) \subseteq DOMAIN map)

LEMMA ResolvedRight ==
  ASSUME NEW map, Map(map), NEW n \in Names
  PROVE  /\ rbac!Resolve(map, n).fails = LacksOf(map, n)
         /\ rbac!Resolve(map, n).permissions = HasOf(map, n)
<1>1. rbac!Met(map, {n}) = Family(map, n)
  BY MetAbove DEF Family
<1>2. QED
  BY <1>1 DEF rbac!Resolve, LacksOf, HasOf

Answers == {"yes", "no", "throws"}

LEMMA FirstOther ==
  ASSUME NEW n \in Nat, NEW a \in [1 .. n -> Answers], NEW y
  PROVE  \/ rbac!SelectInSeq(a, LAMBDA x : x # y) \in 1 .. n
            /\ a[rbac!SelectInSeq(a, LAMBDA x : x # y)] # y
         \/ rbac!SelectInSeq(a, LAMBDA x : x # y) = 0 /\ \A i \in 1 .. n : a[i] = y
<1>. DEFINE I == {i \in 1 .. Len(a) : a[i] # y}
<1>1. Len(a) = n /\ I \subseteq Nat
  OBVIOUS
<1>2. rbac!SelectInSeq(a, LAMBDA x : x # y) = IF I # {} THEN rbac!Min(I) ELSE 0
  BY DEF rbac!SelectInSeq
<1>3. I # {} => rbac!Min(I) \in I
  <2>1. ASSUME I # {} PROVE \E k \in I : \A j \in I : k <= j
    BY <1>1, <2>1, LeastNatural
  <2>2. QED
    BY <2>1 DEF rbac!Min
<1>4. QED
  <2>1. CASE I = {}
    BY <1>1, <1>2, <2>1
  <2>2. CASE I # {}
    <3>1. rbac!SelectInSeq(a, LAMBDA x : x # y) \in I
      BY <1>2, <1>3, <2>2
    <3>. HIDE DEF rbac!SelectInSeq
    <3>2. QED
      BY <1>1, <3>1
  <2>3. QED
    BY <2>1, <2>2

(* some and every answer for all that they were given.                       *)
LEMMA SomeRight ==
  ASSUME NEW n \in Nat, NEW a \in [1 .. n -> Answers]
  PROVE  /\ rbac!SomeOf(a) \in Answers
         /\ rbac!SomeOf(a) = "yes" => \E i \in 1 .. n : a[i] = "yes"
         /\ rbac!SomeOf(a) = "no" => \A i \in 1 .. n : a[i] = "no"
         /\ rbac!SomeOf(a) = "throws" => \E i \in 1 .. n : a[i] = "throws"
<1>. DEFINE k == rbac!SelectInSeq(a, LAMBDA x : x # "no")
<1>1. rbac!SomeOf(a) = IF k = 0 THEN "no" ELSE a[k]
  BY DEF rbac!SomeOf
<1>2. \/ k \in 1 .. n /\ a[k] # "no"
      \/ k = 0 /\ \A i \in 1 .. n : a[i] = "no"
  BY FirstOther
<1>. HIDE DEF k
<1>3. QED
  BY <1>1, <1>2 DEF Answers

LEMMA EveryRight ==
  ASSUME NEW n \in Nat, NEW a \in [1 .. n -> Answers]
  PROVE  /\ rbac!EveryOf(a) \in Answers
         /\ rbac!EveryOf(a) = "yes" => \A i \in 1 .. n : a[i] = "yes"
         /\ rbac!EveryOf(a) = "no" => \E i \in 1 .. n : a[i] = "no"
         /\ rbac!EveryOf(a) = "throws" => \E i \in 1 .. n : a[i] = "throws"
<1>. DEFINE k == rbac!SelectInSeq(a, LAMBDA x : x # "yes")
<1>1. rbac!EveryOf(a) = IF k = 0 THEN "yes" ELSE a[k]
  BY DEF rbac!EveryOf
<1>2. \/ k \in 1 .. n /\ a[k] # "yes"
      \/ k = 0 /\ \A i \in 1 .. n : a[i] = "yes"
  BY FirstOther
<1>. HIDE DEF k
<1>3. QED
  BY <1>1, <1>2 DEF Answers

(* The members of a finite set in some order, or of a part of it.            *)
LEMMA SomeOrder ==
  ASSUME NEW S, IsFiniteSet(S), NEW s \in rbac!SetToAllKPermutations(S)
  PROVE  s \in Seq(S) /\ \E n \in Nat : s \in [1 .. n -> S]
<1>1. PICK T \in SUBSET S : s \in rbac!SetToSeqs(T)
  BY DEF rbac!SetToAllKPermutations
<1>2. s \in [1 .. rbac!Cardinality(T) -> T]
  BY <1>1 DEF rbac!SetToSeqs
<1>3. rbac!Cardinality(T) = Cardinality(T)
  BY DEF rbac!Cardinality, Cardinality, rbac!IsFiniteSet, IsFiniteSet
<1>4. Cardinality(T) \in Nat
  BY FS_Subset, FS_CardinalityType
<1>5. s \in [1 .. Cardinality(T) -> S]
  BY <1>2, <1>3
<1>6. QED
  BY <1>4, <1>5

(* What a request with the roles in held is due for permission p.            *)
HeldFor(held, p) == \E i \in DOMAIN held : p \in HasOf(roles, held[i])

DueOf(held, p, says) ==
  HeldFor(held, p) /\ \A c \in rbac!ToSet(conditions[p]) : says[c] = "yes"

BreaksOf(held, p, says) ==
  HeldFor(held, p) /\ \E c \in rbac!ToSet(conditions[p]) : says[c] = "throws"

(* An answer is right: yes if due, no if not, an exception if a role misses  *)
(* or a condition throws.                                                    *)
RightFor(answer, held, wanted, says, due) ==
  CASE answer = "yes" -> due
    [] answer = "no" -> ~due
    [] OTHER -> \/ \E i \in DOMAIN held : LacksOf(roles, held[i])
                \/ \E i \in DOMAIN wanted : BreaksOf(held, wanted[i], says)

(* What the conditions of p say together.                                    *)
LEMMA EvaluateRight ==
  ASSUME NEW p, NEW C, conditions[p] \in Seq(C),
         NEW says, \A c \in rbac!ToSet(conditions[p]) : says[c] \in Answers
  PROVE  /\ rbac!Evaluate(p, says) \in Answers
         /\ rbac!Evaluate(p, says) = "yes" =>
              \A c \in rbac!ToSet(conditions[p]) : says[c] = "yes"
         /\ rbac!Evaluate(p, says) = "no" =>
              \E c \in rbac!ToSet(conditions[p]) : says[c] = "no"
         /\ rbac!Evaluate(p, says) = "throws" =>
              \E c \in rbac!ToSet(conditions[p]) : says[c] = "throws"
<1>. DEFINE q == conditions[p]
            n == Len(q)
            a == [i \in DOMAIN q |-> says[q[i]]]
<1>1. n \in Nat /\ DOMAIN q = 1 .. n
  OBVIOUS
<1>2. rbac!ToSet(q) = {q[i] : i \in DOMAIN q}
  BY DEF rbac!ToSet
<1>3. rbac!Evaluate(p, says) = rbac!EveryOf(a)
  BY DEF rbac!Evaluate
<1>. HIDE DEF q, n
<1>4. a \in [1 .. n -> Answers]
  BY <1>1, <1>2 DEF q
<1>5. \A i \in 1 .. n : a[i] = says[q[i]] /\ q[i] \in rbac!ToSet(q)
  BY <1>1, <1>2
<1>6. \A c \in rbac!ToSet(q) : \E i \in 1 .. n : a[i] = says[c]
  BY <1>1, <1>2
<1>. HIDE DEF a
<1>7. /\ rbac!EveryOf(a) \in Answers
      /\ rbac!EveryOf(a) = "yes" => \A i \in 1 .. n : a[i] = "yes"
      /\ rbac!EveryOf(a) = "no" => \E i \in 1 .. n : a[i] = "no"
      /\ rbac!EveryOf(a) = "throws" => \E i \in 1 .. n : a[i] = "throws"
  BY <1>1, <1>4, EveryRight
<1>8. QED
  BY <1>3, <1>5, <1>6, <1>7 DEF q

Resolved == [n \in Names |-> rbac!Resolve(roles, n)]

LEMMA PermittedRight ==
  ASSUME Map(roles), NEW n \in Nat, NEW held \in [1 .. n -> Names],
         NEW p, NEW C, conditions[p] \in Seq(C),
         NEW says, \A c \in rbac!ToSet(conditions[p]) : says[c] \in Answers
  PROVE  LET b == rbac!Permitted(Resolved, held, p, says)
         IN  /\ b \in Answers
             /\ b = "yes" => DueOf(held, p, says)
             /\ b = "no" => ~DueOf(held, p, says)
             /\ b = "throws" => \/ \E i \in DOMAIN held : LacksOf(roles, held[i])
                                \/ BreaksOf(held, p, says)
<1>. DEFINE a == [i \in DOMAIN held |-> rbac!HasPermission(Resolved, held[i], p)]
            has == rbac!SomeOf(a)
            verdict == rbac!Evaluate(p, says)
            answer == rbac!Permitted(Resolved, held, p, says)
<1>1. \A i \in 1 .. n :
        a[i] = IF LacksOf(roles, held[i]) THEN "throws"
               ELSE IF p \in HasOf(roles, held[i]) THEN "yes" ELSE "no"
  <2>1. ASSUME NEW m \in Names
        PROVE  rbac!HasPermission(Resolved, m, p) =
                 IF LacksOf(roles, m) THEN "throws"
                 ELSE IF p \in HasOf(roles, m) THEN "yes" ELSE "no"
    <3>1. Resolved[m] = rbac!Resolve(roles, m)
      BY DEF Resolved
    <3>2. QED
      BY <3>1, ResolvedRight DEF rbac!HasPermission
  <2>2. QED
    BY <2>1
<1>2. a \in [1 .. n -> Answers]
  <2>1. a = [i \in 1 .. n |-> a[i]]
    OBVIOUS
  <2>. HIDE DEF a
  <2>2. QED
    BY <1>1, <2>1 DEF Answers
<1>3. answer = IF has = "yes" THEN verdict ELSE has
  BY DEF rbac!Permitted
<1>. HIDE DEF a, answer
<1>4. /\ has \in Answers
      /\ has = "yes" => \E i \in 1 .. n : a[i] = "yes"
      /\ has = "no" => \A i \in 1 .. n : a[i] = "no"
      /\ has = "throws" => \E i \in 1 .. n : a[i] = "throws"
  BY <1>2, SomeRight
<1>. HIDE DEF has, verdict
<1>5. DOMAIN held = 1 .. n
  OBVIOUS
<1>6. has = "yes" => \E i \in 1 .. n : p \in HasOf(roles, held[i])
  BY <1>1, <1>4
<1>7. has = "no" => \A i \in 1 .. n : p \notin HasOf(roles, held[i])
  BY <1>1, <1>4
<1>8. has = "throws" => \E i \in 1 .. n : LacksOf(roles, held[i])
  BY <1>1, <1>4
<1>9. /\ verdict \in Answers
      /\ verdict = "yes" => \A c \in rbac!ToSet(conditions[p]) : says[c] = "yes"
      /\ verdict = "no" => \E c \in rbac!ToSet(conditions[p]) : says[c] = "no"
      /\ verdict = "throws" => \E c \in rbac!ToSet(conditions[p]) : says[c] = "throws"
  BY EvaluateRight DEF verdict
<1>10. /\ answer \in Answers
       /\ answer = "yes" => DueOf(held, p, says)
       /\ answer = "no" => ~DueOf(held, p, says)
       /\ answer = "throws" => \/ \E i \in DOMAIN held : LacksOf(roles, held[i])
                               \/ BreaksOf(held, p, says)
  BY <1>3, <1>4, <1>5, <1>6, <1>7, <1>8, <1>9 DEF HeldFor, DueOf, BreaksOf, Answers
<1>11. QED
  BY <1>10 DEF answer

(* require and requireAny.                                                   *)
LEMMA GuardRight ==
  ASSUME Map(roles), NEW n \in Nat, NEW held \in [1 .. n -> Names],
         NEW k \in Nat, NEW S, NEW wanted \in [1 .. k -> S], NEW C, NEW says,
         \A p \in S : /\ conditions[p] \in Seq(C)
                      /\ \A c \in rbac!ToSet(conditions[p]) : says[c] \in Answers
  PROVE  /\ RightFor(rbac!Require(Resolved, held, wanted, says), held, wanted, says,
              held # <<>> /\ \A i \in DOMAIN wanted : DueOf(held, wanted[i], says))
         /\ RightFor(rbac!RequireAny(Resolved, held, wanted, says), held, wanted, says,
              \E i \in DOMAIN wanted : DueOf(held, wanted[i], says))
<1>. DEFINE a == [i \in DOMAIN wanted |-> rbac!Permitted(Resolved, held, wanted[i], says)]
            Due(i) == DueOf(held, wanted[i], says)
            Lost == \E i \in DOMAIN held : LacksOf(roles, held[i])
            Broken(i) == BreaksOf(held, wanted[i], says)
            one == rbac!SomeOf(a)
            all == rbac!EveryOf(a)
<1>1. \A i \in 1 .. k :
        /\ a[i] \in Answers
        /\ a[i] = "yes" => Due(i)
        /\ a[i] = "no" => ~Due(i)
        /\ a[i] = "throws" => Lost \/ Broken(i)
  <2>1. TAKE i \in 1 .. k
  <2>2. wanted[i] \in S
    OBVIOUS
  <2>3. a[i] = rbac!Permitted(Resolved, held, wanted[i], says)
    OBVIOUS
  <2>. HIDE DEF a
  <2>4. QED
    BY <2>2, <2>3, PermittedRight
<1>2. a \in [1 .. k -> Answers]
  <2>1. a = [i \in 1 .. k |-> a[i]]
    OBVIOUS
  <2>. HIDE DEF a
  <2>2. QED
    BY <1>1, <2>1
<1>3. /\ rbac!Require(Resolved, held, wanted, says) = IF held = <<>> THEN "no" ELSE all
      /\ rbac!RequireAny(Resolved, held, wanted, says) = one
  BY DEF rbac!Require, rbac!RequireAny
<1>. HIDE DEF a
<1>4. /\ one \in Answers
      /\ one = "yes" => \E i \in 1 .. k : a[i] = "yes"
      /\ one = "no" => \A i \in 1 .. k : a[i] = "no"
      /\ one = "throws" => \E i \in 1 .. k : a[i] = "throws"
  BY <1>2, SomeRight
<1>5. /\ all \in Answers
      /\ all = "yes" => \A i \in 1 .. k : a[i] = "yes"
      /\ all = "no" => \E i \in 1 .. k : a[i] = "no"
      /\ all = "throws" => \E i \in 1 .. k : a[i] = "throws"
  BY <1>2, EveryRight
<1>6. DOMAIN wanted = 1 .. k
  OBVIOUS
<1>. HIDE DEF one, all, Due, Lost
<1>7. RightFor(one, held, wanted, says, \E i \in DOMAIN wanted : Due(i))
  BY <1>1, <1>4, <1>6 DEF RightFor, Answers, Lost
<1>8. RightFor(all, held, wanted, says, \A i \in DOMAIN wanted : Due(i))
  BY <1>1, <1>5, <1>6 DEF RightFor, Answers, Lost
<1>9. RightFor(IF held = <<>> THEN "no" ELSE all, held, wanted, says,
               held # <<>> /\ \A i \in DOMAIN wanted : Due(i))
  BY <1>8 DEF RightFor
<1>10. QED
  BY <1>3, <1>7, <1>9 DEF Due

LEMMA InheritedWhenTyped ==
  ASSUME rbac!TypeOK
  PROVE  rbac!AccessAsInherited
<1>1. Map(roles)
  BY DEF rbac!TypeOK, Map
<1>2. IsFiniteSet(Names) /\ IsFiniteSet(Permissions)
  BY RolesAssumption DEF rbac!RoleAssumption, rbac!IsFiniteSet, IsFiniteSet
<1>3. ASSUME NEW n \in Names
      PROVE  /\ rbac!AncestorChain(roles, n) = rbac!Above(roles, n)
             /\ IF LacksOf(roles, n) THEN Resolved[n].fails
                ELSE ~Resolved[n].fails /\ Resolved[n].permissions = HasOf(roles, n)
  <2>1. Resolved[n] = rbac!Resolve(roles, n)
    BY DEF Resolved
  <2>2. QED
    BY <1>1, <2>1, MetAbove, ResolvedRight
<1>4. ASSUME NEW held \in rbac!SetToAllKPermutations(Names),
             NEW wanted \in rbac!SetToAllKPermutations(Permissions),
             NEW says \in [rbac!Attached -> {"yes", "no", "throws"}]
      PROVE  /\ RightFor(rbac!Require(Resolved, held, wanted, says), held, wanted, says,
                  held # <<>> /\ \A i \in DOMAIN wanted : DueOf(held, wanted[i], says))
             /\ RightFor(rbac!RequireAny(Resolved, held, wanted, says), held, wanted, says,
                  \E i \in DOMAIN wanted : DueOf(held, wanted[i], says))
  <2>1. PICK n \in Nat : held \in [1 .. n -> Names]
    BY <1>2, SomeOrder
  <2>2. PICK k \in Nat : wanted \in [1 .. k -> Permissions]
    BY <1>2, SomeOrder
  <2>3. \A p \in Permissions :
          /\ conditions[p] \in Seq(Conditions)
          /\ \A c \in rbac!ToSet(conditions[p]) : says[c] \in Answers
    BY DEF rbac!TypeOK, rbac!Attached, Answers
  <2>4. QED
    BY <1>1, <2>1, <2>2, <2>3, GuardRight
<1>. DEFINE resolved == [n \in Names |-> rbac!Resolve(roles, n)]
            family == [n \in Names |-> {n} \cup rbac!Above(roles, n)]
            has == [n \in Names |->
                     UNION {roles[m].permissions : m \in family[n] \cap DOMAIN roles}]
            Lacks(n) == ~(family[n] \subseteq DOMAIN roles)
            Has(held, p) == \E i \in DOMAIN held : p \in has[held[i]]
            Due(held, p, says) ==
              Has(held, p) /\ \A c \in rbac!ToSet(conditions[p]) : says[c] = "yes"
            Breaks(held, p, says) ==
              Has(held, p) /\ \E c \in rbac!ToSet(conditions[p]) : says[c] = "throws"
            Right(answer, held, wanted, says, due) ==
              CASE answer = "yes" -> due
                [] answer = "no" -> ~due
                [] OTHER -> \/ \E i \in DOMAIN held : Lacks(held[i])
                            \/ \E i \in DOMAIN wanted : Breaks(held, wanted[i], says)
<1>5. resolved = Resolved
  BY DEF Resolved
<1>6. \A n \in Names : family[n] = Family(roles, n)
  BY DEF Family
<1>. HIDE DEF family, resolved
<1>7. \A n \in Names : has[n] = HasOf(roles, n) /\ Lacks(n) = LacksOf(roles, n)
  BY <1>6 DEF HasOf, LacksOf
<1>. HIDE DEF has, Lacks
<1>8. ASSUME NEW held \in rbac!SetToAllKPermutations(Names)
      PROVE  /\ \A p, says : Due(held, p, says) = DueOf(held, p, says)
             /\ \A answer, wanted, says, due :
                  Right(answer, held, wanted, says, due) = RightFor(answer, held, wanted, says, due)
  <2>1. held \in Seq(Names)
    BY <1>2, SomeOrder
  <2>2. \A i \in DOMAIN held : held[i] \in Names
    BY <2>1
  <2>3. \A p : Has(held, p) = HeldFor(held, p)
    BY <1>7, <2>2 DEF HeldFor
  <2>. HIDE DEF Has
  <2>4. /\ \A p, says : Due(held, p, says) = DueOf(held, p, says)
        /\ \A p, says : Breaks(held, p, says) = BreaksOf(held, p, says)
    BY <2>3 DEF DueOf, BreaksOf
  <2>. HIDE DEF Due, Breaks
  <2>5. QED
    BY <1>7, <2>2, <2>4 DEF RightFor
<1>. HIDE DEF Has, Due, Breaks, Right
<1>9. /\ rbac!TypeOK
      /\ \A n \in Names :
           /\ rbac!AncestorChain(roles, n) = rbac!Above(roles, n)
           /\ IF Lacks(n) THEN resolved[n].fails
              ELSE ~resolved[n].fails /\ resolved[n].permissions = has[n]
      /\ \A held \in rbac!SetToAllKPermutations(Names),
            wanted \in rbac!SetToAllKPermutations(Permissions),
            says \in [rbac!Attached -> {"yes", "no", "throws"}] :
           /\ Right(rbac!Require(resolved, held, wanted, says), held, wanted, says,
                    held # <<>> /\ \A i \in DOMAIN wanted : Due(held, wanted[i], says))
           /\ Right(rbac!RequireAny(resolved, held, wanted, says), held, wanted, says,
                    \E i \in DOMAIN wanted : Due(held, wanted[i], says))
  <2>1. \A n \in Names :
          /\ rbac!AncestorChain(roles, n) = rbac!Above(roles, n)
          /\ IF Lacks(n) THEN resolved[n].fails
             ELSE ~resolved[n].fails /\ resolved[n].permissions = has[n]
    BY <1>3, <1>5, <1>7
  <2>2. ASSUME NEW held \in rbac!SetToAllKPermutations(Names),
               NEW wanted \in rbac!SetToAllKPermutations(Permissions),
               NEW says \in [rbac!Attached -> {"yes", "no", "throws"}]
        PROVE  /\ Right(rbac!Require(resolved, held, wanted, says), held, wanted, says,
                    held # <<>> /\ \A i \in DOMAIN wanted : Due(held, wanted[i], says))
               /\ Right(rbac!RequireAny(resolved, held, wanted, says), held, wanted, says,
                    \E i \in DOMAIN wanted : Due(held, wanted[i], says))
    <3>1. \A i \in DOMAIN wanted :
            Due(held, wanted[i], says) = DueOf(held, wanted[i], says)
      BY <1>8
    <3>2. /\ Right(rbac!Require(resolved, held, wanted, says), held, wanted, says,
                   held # <<>> /\ \A i \in DOMAIN wanted : DueOf(held, wanted[i], says))
          /\ Right(rbac!RequireAny(resolved, held, wanted, says), held, wanted, says,
                   \E i \in DOMAIN wanted : DueOf(held, wanted[i], says))
      <4>. DEFINE a == rbac!Require(Resolved, held, wanted, says)
                  b == rbac!RequireAny(Resolved, held, wanted, says)
                  x == held # <<>> /\ \A i \in DOMAIN wanted : DueOf(held, wanted[i], says)
                  y == \E i \in DOMAIN wanted : DueOf(held, wanted[i], says)
      <4>1. RightFor(a, held, wanted, says, x) /\ RightFor(b, held, wanted, says, y)
        BY <1>4
      <4>2. resolved = Resolved
        BY <1>5
      <4>. HIDE DEF a, b, x, y
      <4>3. Right(a, held, wanted, says, x) = RightFor(a, held, wanted, says, x) /\ Right(b, held, wanted, says, y) = RightFor(b, held, wanted, says, y)
        BY <1>8
      <4>4. Right(a, held, wanted, says, x) /\ Right(b, held, wanted, says, y)
        BY <4>1, <4>3
      <4>5. QED
        BY <4>2, <4>4 DEF a, b, x, y
    <3>3. QED
      BY <3>1, <3>2
  <2>3. QED
    BY <2>1, <2>2
<1>10. QED
  BY <1>9 DEF rbac!AccessAsInherited, resolved, family, has, Lacks, Has, Due, Breaks, Right

LEMMA AboveIsLeast ==
  ASSUME NEW map, Map(map), NEW n \in Names
  PROVE  /\ rbac!Above(map, n) \in SUBSET Names
         /\ rbac!ParentsIn(map, n) \subseteq rbac!Above(map, n)
         /\ HasParents(map, rbac!Above(map, n))
         /\ \A R \in SUBSET Names : rbac!ParentsIn(map, n) \subseteq R /\ HasParents(map, R)
              => rbac!Above(map, n) \subseteq R
<1>1. rbac!ParentsIn(map, n) \in SUBSET Names
  BY ParentsKnown
<1>2. rbac!Above(map, n) = rbac!Met(map, rbac!ParentsIn(map, n))
  BY MetAbove DEF rbac!AncestorChain
<1>3. QED
  BY <1>1, <1>2, MetIsLeast

(* No name that is not above itself in map is above itself in new.           *)
NoNewCycle(map, new) ==
  \A n \in Names : n \in rbac!Above(new, n) => n \in rbac!Above(map, n)

LEMMA FewerParents ==
  ASSUME NEW map, Map(map), NEW new, Map(new),
         \A n \in Names : rbac!ParentsIn(new, n) \subseteq rbac!ParentsIn(map, n)
  PROVE  NoNewCycle(map, new)
<1>1. ASSUME NEW n \in Names
      PROVE  rbac!Above(new, n) \subseteq rbac!Above(map, n)
  <2>. DEFINE A == rbac!Above(map, n)
  <2>1. A \in SUBSET Names /\ rbac!ParentsIn(map, n) \subseteq A /\ HasParents(map, A)
    BY AboveIsLeast
  <2>. HIDE DEF A
  <2>2. rbac!ParentsIn(new, n) \subseteq A /\ HasParents(new, A)
    BY <2>1 DEF HasParents
  <2>3. rbac!Above(new, n) \subseteq A
    BY <2>1, <2>2, AboveIsLeast
  <2>4. QED
    BY <2>3 DEF A
<1>2. QED
  BY <1>1 DEF NoNewCycle

(* New parents of n, if the walk over them does not meet it: what that walk  *)
(* meets keeps its parents, and a name of it, or one beside it, has above    *)
(* itself only what was there before.                                        *)
LEMMA CheckedParents ==
  ASSUME NEW map, Map(map), NEW n \in DOMAIN map, NEW parents \in SUBSET Names,
         ~rbac!Cycle(map, n, parents),
         NEW new, Map(new),
         rbac!ParentsIn(new, n) = parents,
         \A m \in Names \ {n} : rbac!ParentsIn(new, m) = rbac!ParentsIn(map, m)
  PROVE  NoNewCycle(map, new)
<1>. DEFINE D == rbac!Met(map, parents)
<1>1. /\ D \in SUBSET Names /\ parents \subseteq D /\ HasParents(map, D) /\ n \notin D
  BY MetIsLeast DEF rbac!Cycle
<1>. HIDE DEF D
<1>2. HasParents(new, D)
  BY <1>1 DEF HasParents
<1>3. n \in Names
  BY DEF Map
<1>4. ASSUME NEW m \in Names, m \in rbac!Above(new, m)
      PROVE  m \in rbac!Above(map, m)
  <2>. DEFINE A == rbac!Above(map, m)
  <2>1. A \in SUBSET Names /\ rbac!ParentsIn(map, m) \subseteq A /\ HasParents(map, A)
    BY AboveIsLeast
  <2>2. \A R \in SUBSET Names : rbac!ParentsIn(new, m) \subseteq R /\ HasParents(new, R) => m \in R
    BY <1>4, AboveIsLeast
  <2>. HIDE DEF A
  <2>3. CASE m = n
    BY <1>1, <1>2, <2>2, <2>3
  <2>4. CASE m # n /\ m \in D
    <3>1. HasParents(new, A \cap D)
      BY <1>1, <2>1 DEF HasParents
    <3>2. rbac!ParentsIn(new, m) \subseteq A \cap D
      BY <1>1, <2>1, <2>4 DEF HasParents
    <3>3. A \cap D \in SUBSET Names
      BY <2>1
    <3>4. QED
      BY <2>2, <3>1, <3>2, <3>3 DEF A
  <2>5. CASE m # n /\ m \notin D
    <3>1. HasParents(new, A \cup D)
      BY <1>1, <2>1 DEF HasParents
    <3>2. rbac!ParentsIn(new, m) \subseteq A \cup D
      BY <2>1, <2>5
    <3>3. A \cup D \in SUBSET Names
      BY <1>1, <2>1
    <3>4. QED
      BY <2>2, <2>5, <3>1, <3>2, <3>3 DEF A
  <2>6. QED
    BY <2>3, <2>4, <2>5
<1>5. QED
  BY <1>4 DEF NoNewCycle

(* A role of its own with other parents.                                     *)
LEMMA WithParents ==
  ASSUME NEW map, Map(map), NEW n \in DOMAIN map, NEW parents \in SUBSET Names,
         ~rbac!Cycle(map, n, parents)
  PROVE  LET new == [map EXCEPT ![n].inherits = parents]
         IN  Map(new) /\ DOMAIN new = DOMAIN map /\ NoNewCycle(map, new)
<1>. DEFINE new == [map EXCEPT ![n].inherits = parents]
<1>1. DOMAIN new = DOMAIN map
  OBVIOUS
<1>2. map[n] \in [permissions : SUBSET Permissions, inherits : SUBSET Names]
  BY DEF Map, rbac!Role
<1>3. new[n] = [map[n] EXCEPT !.inherits = parents]
  OBVIOUS
<1>4. \A m \in DOMAIN map \ {n} : new[m] = map[m]
  OBVIOUS
<1>. HIDE DEF new
<1>5. new[n] \in rbac!Role /\ new[n].inherits = parents
  BY <1>2, <1>3 DEF rbac!Role
<1>6. Map(new)
  BY <1>1, <1>4, <1>5 DEF Map
<1>7. /\ rbac!ParentsIn(new, n) = parents
      /\ \A m \in Names \ {n} : rbac!ParentsIn(new, m) = rbac!ParentsIn(map, m)
  BY <1>1, <1>4, <1>5 DEF rbac!ParentsIn
<1>8. NoNewCycle(map, new)
  BY <1>6, <1>7, CheckedParents
<1>9. QED
  BY <1>1, <1>6, <1>8 DEF new

(* build(), first pass.                                                      *)
LEMMA CreatedKeeps ==
  ASSUME NEW map, Map(map), NEW definitions \in Seq(rbac!Definitions)
  PROVE  LET new == rbac!Created(map, definitions)
         IN  /\ Map(new) /\ NoNewCycle(map, new)
             /\ \A i \in 1 .. Len(definitions) : definitions[i].name \in DOMAIN new
<1>. DEFINE new == rbac!Created(map, definitions)
            Named == {definitions[i].name : i \in DOMAIN definitions}
            At(n) == {i \in 1 .. Len(definitions) : definitions[i].name = n}
            First(n) == definitions[rbac!SelectInSeq(definitions, LAMBDA d : d.name = n)]
            Value(n) == IF n \in DOMAIN map THEN map[n]
                        ELSE [permissions |-> First(n).permissions, inherits |-> {}]
<1>1. /\ Len(definitions) \in Nat /\ DOMAIN definitions = 1 .. Len(definitions)
      /\ \A i \in DOMAIN definitions :
           definitions[i].name \in Names /\ definitions[i].permissions \in SUBSET Permissions
  <2>1. /\ Len(definitions) \in Nat /\ DOMAIN definitions = 1 .. Len(definitions)
        /\ \A i \in DOMAIN definitions : definitions[i] \in rbac!Definitions
    OBVIOUS
  <2>2. \A d \in rbac!Definitions : d.name \in Names /\ d.permissions \in SUBSET Permissions
    BY DEF rbac!Definitions
  <2>3. QED
    BY <2>1, <2>2
<1>2. new = [n \in DOMAIN map \cup Named |-> Value(n)]
  BY DEF rbac!Created
<1>3. ASSUME NEW n \in Named
      PROVE  First(n).permissions \in SUBSET Permissions
  <2>1. At(n) # {} /\ At(n) \subseteq Nat
    BY <1>1
  <2>2. \E k \in At(n) : \A j \in At(n) : k <= j
    <3>. HIDE DEF At
    <3>1. QED
      BY <2>1, LeastNatural
  <2>3. rbac!Min(At(n)) \in At(n)
    <3>. HIDE DEF At
    <3>1. QED
      BY <2>2 DEF rbac!Min
  <2>4. First(n) = definitions[rbac!Min(At(n))]
    BY <2>1 DEF rbac!SelectInSeq
  <2>. HIDE DEF First
  <2>5. rbac!Min(At(n)) \in 1 .. Len(definitions)
    BY <2>3
  <2>6. QED
    BY <1>1, <2>4, <2>5
<1>. HIDE DEF First
<1>4. DOMAIN new = DOMAIN map \cup Named /\ \A n \in DOMAIN new : new[n] = Value(n)
  <2>. HIDE DEF Value, new
  <2>1. QED
    BY <1>2
<1>. HIDE DEF new
<1>5. Named \subseteq Names /\ \A i \in 1 .. Len(definitions) : definitions[i].name \in Named
  BY <1>1
<1>6. \A n \in Named \ DOMAIN map :
        new[n] = [permissions |-> First(n).permissions, inherits |-> {}]
  BY <1>4
<1>7. \A n \in DOMAIN map : new[n] = map[n]
  BY <1>4
<1>. HIDE DEF Value, Named
<1>8. \A n \in Named \ DOMAIN map : new[n] \in rbac!Role /\ new[n].inherits = {}
  <2>1. TAKE n \in Named \ DOMAIN map
  <2>2. /\ new[n] = [permissions |-> First(n).permissions, inherits |-> {}]
        /\ First(n).permissions \in SUBSET Permissions
    BY <1>3, <1>6
  <2>3. QED
    BY <2>2 DEF rbac!Role
<1>9. Map(new)
  BY <1>4, <1>5, <1>7, <1>8 DEF Map
<1>10. \A n \in Names : rbac!ParentsIn(new, n) \subseteq rbac!ParentsIn(map, n)
  BY <1>4, <1>7, <1>8 DEF rbac!ParentsIn
<1>11. NoNewCycle(map, new)
  BY <1>9, <1>10, FewerParents
<1>12. QED
  BY <1>4, <1>5, <1>9, <1>11 DEF new

(* What build() has made of the roles in map, when it wires parents.         *)
Wiring(map, b) ==
  /\ b = [map |-> b.map, throws |-> b.throws]
  /\ Map(b.map) /\ DOMAIN b.map = DOMAIN map /\ NoNewCycle(map, b.map)

LEMMA WiredByKeeps ==
  ASSUME NEW map, Map(map), NEW b, Wiring(map, b),
         NEW d \in rbac!Definitions, d.name \in DOMAIN map
  PROVE  Wiring(map, rbac!WiredBy(b, d))
<1>. DEFINE new == [b.map EXCEPT ![d.name].inherits = d.inherits]
<1>1. Map(b.map) /\ DOMAIN b.map = DOMAIN map /\ NoNewCycle(map, b.map)
  BY DEF Wiring
<1>2. d.inherits \in SUBSET Names /\ d.name \in DOMAIN b.map
  BY <1>1 DEF rbac!Definitions
<1>3. CASE b.throws \/ d.inherits = {}
  BY <1>3 DEF rbac!WiredBy
<1>4. CASE ~(b.throws \/ d.inherits = {}) /\ rbac!Cycle(b.map, d.name, d.inherits)
  <2>1. rbac!WiredBy(b, d) = [b EXCEPT !.throws = TRUE]
    BY <1>4 DEF rbac!WiredBy
  <2>2. rbac!WiredBy(b, d) = [map |-> b.map, throws |-> TRUE]
    BY <2>1 DEF Wiring
  <2>3. QED
    BY <1>1, <2>2 DEF Wiring
<1>5. CASE ~(b.throws \/ d.inherits = {}) /\ ~rbac!Cycle(b.map, d.name, d.inherits)
  <2>1. rbac!WiredBy(b, d) = [b EXCEPT !.map[d.name].inherits = d.inherits]
    BY <1>5 DEF rbac!WiredBy
  <2>2. rbac!WiredBy(b, d) = [map |-> new, throws |-> b.throws]
    BY <2>1 DEF Wiring
  <2>3. Map(new) /\ DOMAIN new = DOMAIN b.map /\ NoNewCycle(b.map, new)
    <3>. DEFINE m == b.map
                n == d.name
                parents == d.inherits
    <3>. HIDE DEF m, n, parents
    <3>1. Map(m) /\ n \in DOMAIN m /\ parents \in SUBSET Names /\ ~rbac!Cycle(m, n, parents)
      BY <1>1, <1>2, <1>5 DEF m, n, parents
    <3>2. LET e == [m EXCEPT ![n].inherits = parents]
          IN  Map(e) /\ DOMAIN e = DOMAIN m /\ NoNewCycle(m, e)
      BY <3>1, WithParents
    <3>3. QED
      BY <3>2 DEF m, n, parents
  <2>. HIDE DEF new
  <2>4. NoNewCycle(map, new)
    BY <1>1, <2>3 DEF NoNewCycle
  <2>5. QED
    BY <1>1, <2>2, <2>3, <2>4 DEF Wiring
<1>6. QED
  BY <1>3, <1>4, <1>5

(* build(), second pass, one definition after another.                       *)
WiredStep(map, definitions, h, i) ==
  IF i = 0 THEN [map |-> map, throws |-> FALSE]
  ELSE rbac!WiredBy(h[i - 1], definitions[i])

LEMMA WiredExists ==
  ASSUME NEW map, NEW definitions
  PROVE  \A n \in Nat : \E h : h = [i \in 0 .. n |-> WiredStep(map, definitions, h, i)]
<1>. DEFINE Good == {n \in Nat : \E h : h = [i \in 0 .. n |-> WiredStep(map, definitions, h, i)]}
<1>1. 0 \in Good
  <2>. DEFINE h == [i \in 0 .. 0 |-> [map |-> map, throws |-> FALSE]]
  <2>1. \A i \in 0 .. 0 : WiredStep(map, definitions, h, i) = [map |-> map, throws |-> FALSE]
    BY DEF WiredStep
  <2>2. h = [i \in 0 .. 0 |-> WiredStep(map, definitions, h, i)]
    BY <2>1
  <2>3. QED
    BY <2>2
<1>2. ASSUME NEW n \in Nat, n \in Good
      PROVE  n + 1 \in Good
  <2>1. PICK h : h = [i \in 0 .. n |-> WiredStep(map, definitions, h, i)]
    BY <1>2
  <2>. DEFINE E(i) == WiredStep(map, definitions, h, i)
              g == [i \in 0 .. n + 1 |-> E(i)]
  <2>2. \A i \in 0 .. n : h[i] = E(i)
    <3>. HIDE DEF E
    <3>1. h = [i \in 0 .. n |-> E(i)]
      BY <2>1 DEF E
    <3>2. QED
      BY <3>1
  <2>3. \A i \in 0 .. n : g[i] = h[i]
    <3>. HIDE DEF E
    <3>1. QED
      BY <2>2
  <2>4. \A i \in 0 .. n + 1 : E(i) = WiredStep(map, definitions, g, i)
    <3>1. TAKE i \in 0 .. n + 1
    <3>. HIDE DEF g
    <3>2. i # 0 => i - 1 \in 0 .. n
      OBVIOUS
    <3>3. QED
      BY <2>3, <3>2 DEF WiredStep
  <2>5. g = [i \in 0 .. n + 1 |-> WiredStep(map, definitions, g, i)]
    <3>. DEFINE F(i) == WiredStep(map, definitions, g, i)
    <3>1. \A i \in 0 .. n + 1 : E(i) = F(i)
      BY <2>4
    <3>2. g = [i \in 0 .. n + 1 |-> E(i)]
      OBVIOUS
    <3>. HIDE DEF E, F, g
    <3>3. g = [i \in 0 .. n + 1 |-> F(i)]
      BY <3>1, <3>2
    <3>4. QED
      BY <3>3 DEF F
  <2>. HIDE DEF g
  <2>6. \E f : f = [i \in 0 .. n + 1 |-> WiredStep(map, definitions, f, i)]
    BY <2>5
  <2>7. QED
    BY <2>6
<1>3. \A n \in Nat : n \in Good
  <2>. HIDE DEF Good
  <2>1. QED
    BY <1>1, <1>2, InductionOnNat
<1>4. QED
  BY <1>3

LEMMA WiredKeeps ==
  ASSUME NEW map, Map(map), NEW definitions \in Seq(rbac!Definitions),
         \A i \in 1 .. Len(definitions) : definitions[i].name \in DOMAIN map
  PROVE  Wiring(map, rbac!Wired(map, definitions))
<1>. DEFINE L == Len(definitions)
            W == CHOOSE h : h = [i \in 0 .. L |-> WiredStep(map, definitions, h, i)]
            E(i) == WiredStep(map, definitions, W, i)
<1>1. L \in Nat
  OBVIOUS
<1>2. rbac!Wired(map, definitions) = W[L]
  BY DEF rbac!Wired, WiredStep
<1>3. W = [i \in 0 .. L |-> WiredStep(map, definitions, W, i)]
  <2>1. \E h : h = [i \in 0 .. L |-> WiredStep(map, definitions, h, i)]
    <3>. HIDE DEF L
    <3>1. QED
      BY <1>1, WiredExists
  <2>2. QED
    BY <2>1
<1>. HIDE DEF W
<1>4. \A i \in 0 .. L : W[i] = E(i)
  <2>1. W = [i \in 0 .. L |-> E(i)]
    BY <1>3
  <2>. HIDE DEF E
  <2>2. QED
    BY <2>1
<1>5. W[0] = [map |-> map, throws |-> FALSE]
  <2>1. 0 \in 0 .. L
    BY <1>1
  <2>. HIDE DEF L
  <2>2. QED
    BY <1>4, <2>1 DEF WiredStep
<1>6. \A i \in 1 .. L : W[i] = rbac!WiredBy(W[i - 1], definitions[i])
  BY <1>1, <1>4 DEF WiredStep
<1>7. \A i \in 1 .. L : definitions[i] \in rbac!Definitions
  OBVIOUS
<1>. HIDE DEF L, E
<1>. DEFINE Good == {n \in Nat : n <= L => Wiring(map, W[n])}
<1>8. 0 \in Good
  BY <1>5 DEF Wiring, NoNewCycle
<1>9. ASSUME NEW n \in Nat, n \in Good
      PROVE  n + 1 \in Good
  <2>1. ASSUME n + 1 <= L
        PROVE  Wiring(map, W[n + 1])
    <3>1. n + 1 \in 1 .. L /\ (n + 1) - 1 = n /\ n <= L
      BY <1>1, <2>1
    <3>2. Wiring(map, W[n])
      BY <1>9, <3>1
    <3>3. definitions[n + 1] \in rbac!Definitions /\ definitions[n + 1].name \in DOMAIN map
      BY <1>7, <3>1 DEF L
    <3>4. Wiring(map, rbac!WiredBy(W[n], definitions[n + 1]))
      BY <3>2, <3>3, WiredByKeeps
    <3>5. QED
      BY <1>6, <3>1, <3>4
  <2>2. QED
    BY <2>1
<1>10. \A n \in Nat : n \in Good
  <2>. HIDE DEF Good
  <2>1. QED
    BY <1>8, <1>9, InductionOnNat
<1>11. QED
  BY <1>1, <1>2, <1>10

(* A step of the roles that is no createRole().                              *)
Inherits ==
  /\ DOMAIN roles' \subseteq Names
  /\ \A n \in DOMAIN roles' : roles'[n] \in rbac!Role
  /\ NoNewCycle(roles, roles')

LEMMA CreateRoleStep ==
  ASSUME Map(roles), NEW n \in Names, NEW parents \in SUBSET Names,
         NEW permissions \in SUBSET Permissions, rbac!CreateRole(n, permissions, parents)
  PROVE  Map(roles)' /\ UNCHANGED conditions
<1>. DEFINE role == [permissions |-> permissions, inherits |-> parents]
            new == [m \in DOMAIN roles \cup {n} |-> IF m = n THEN role ELSE roles[m]]
<1>1. roles' = new /\ UNCHANGED conditions
  BY DEF rbac!CreateRole
<1>2. role \in rbac!Role
  BY DEF rbac!Role
<1>3. DOMAIN new \subseteq Names /\ \A m \in DOMAIN new : new[m] \in rbac!Role
  <2>. HIDE DEF role
  <2>1. QED
    BY <1>2 DEF Map
<1>. HIDE DEF new
<1>4. QED
  BY <1>1, <1>3 DEF Map

(* Other permissions of a role, and its parents as they were.                *)
LEMMA WithPermissions ==
  ASSUME NEW map, Map(map), NEW n \in DOMAIN map, NEW permissions \in SUBSET Permissions
  PROVE  LET new == [map EXCEPT ![n].permissions = permissions]
         IN  Map(new) /\ NoNewCycle(map, new)
<1>. DEFINE new == [map EXCEPT ![n].permissions = permissions]
<1>1. DOMAIN new = DOMAIN map
  OBVIOUS
<1>2. map[n] \in [permissions : SUBSET Permissions, inherits : SUBSET Names]
  BY DEF Map, rbac!Role
<1>3. new[n] = [map[n] EXCEPT !.permissions = permissions]
  OBVIOUS
<1>4. \A m \in DOMAIN map \ {n} : new[m] = map[m]
  OBVIOUS
<1>. HIDE DEF new
<1>5. new[n] \in rbac!Role /\ new[n].inherits = map[n].inherits
  BY <1>2, <1>3 DEF rbac!Role
<1>6. Map(new)
  BY <1>1, <1>4, <1>5 DEF Map
<1>7. \A m \in Names : rbac!ParentsIn(new, m) \subseteq rbac!ParentsIn(map, m)
  BY <1>1, <1>4, <1>5 DEF rbac!ParentsIn
<1>8. NoNewCycle(map, new)
  BY <1>6, <1>7, FewerParents
<1>9. QED
  BY <1>6, <1>8 DEF new

LEMMA DeleteRoleStep ==
  ASSUME Map(roles), NEW n \in Names, rbac!DeleteRole(n)
  PROVE  Inherits /\ UNCHANGED conditions
<1>. DEFINE new == [m \in DOMAIN roles \ {n} |-> roles[m]]
<1>1. roles' = new /\ UNCHANGED conditions
  BY DEF rbac!DeleteRole
<1>2. DOMAIN new = DOMAIN roles \ {n} /\ \A m \in DOMAIN new : new[m] = roles[m]
  OBVIOUS
<1>. HIDE DEF new
<1>3. Map(new)
  BY <1>2 DEF Map
<1>4. \A m \in Names : rbac!ParentsIn(new, m) \subseteq rbac!ParentsIn(roles, m)
  BY <1>2 DEF rbac!ParentsIn
<1>5. NoNewCycle(roles, new)
  BY <1>3, <1>4, FewerParents
<1>6. QED
  BY <1>1, <1>3, <1>5 DEF Inherits, Map

LEMMA PermissionStep ==
  ASSUME Map(roles), NEW n \in Names, NEW p \in Permissions,
         rbac!AddPermission(n, p) \/ rbac!RemovePermission(n, p)
  PROVE  Inherits /\ UNCHANGED conditions
<1>1. PICK permissions \in SUBSET Permissions :
        roles' = [roles EXCEPT ![n].permissions = permissions]
  <2>1. n \in DOMAIN roles
    BY DEF rbac!AddPermission, rbac!RemovePermission
  <2>2. roles[n].permissions \in SUBSET Permissions
    BY <2>1 DEF Map, rbac!Role
  <2>3. CASE rbac!AddPermission(n, p)
    <3>1. roles' = [roles EXCEPT ![n].permissions = roles[n].permissions \cup {p}]
      BY <2>3 DEF rbac!AddPermission
    <3>2. QED
      BY <2>2, <3>1
  <2>4. CASE rbac!RemovePermission(n, p)
    <3>1. roles' = [roles EXCEPT ![n].permissions = roles[n].permissions \ {p}]
      BY <2>4 DEF rbac!RemovePermission
    <3>2. QED
      BY <2>2, <3>1
  <2>5. QED
    BY <2>3, <2>4
<1>2. n \in DOMAIN roles /\ UNCHANGED conditions
  BY DEF rbac!AddPermission, rbac!RemovePermission
<1>. DEFINE new == [roles EXCEPT ![n].permissions = permissions]
<1>3. Map(new) /\ NoNewCycle(roles, new)
  BY <1>2, WithPermissions
<1>. HIDE DEF new
<1>4. roles' = new
  BY <1>1 DEF new
<1>5. QED
  BY <1>2, <1>3, <1>4 DEF Inherits, Map

LEMMA SetInheritanceStep ==
  ASSUME Map(roles), NEW n \in Names, NEW parents \in SUBSET Names,
         rbac!SetInheritance(n, parents)
  PROVE  Inherits /\ UNCHANGED conditions
<1>. DEFINE new == [roles EXCEPT ![n].inherits = parents]
<1>1. /\ n \in DOMAIN roles /\ ~rbac!Cycle(roles, n, parents)
      /\ roles' = new /\ UNCHANGED conditions
  BY DEF rbac!SetInheritance
<1>2. Map(new) /\ NoNewCycle(roles, new)
  BY <1>1, WithParents
<1>. HIDE DEF new
<1>3. QED
  BY <1>1, <1>2 DEF Inherits, Map

LEMMA BuildStep ==
  ASSUME Map(roles), NEW definitions \in Hierarchies, rbac!Build(definitions)
  PROVE  Inherits /\ UNCHANGED conditions
<1>. DEFINE made == rbac!Created(roles, definitions)
            b == rbac!Wired(made, definitions)
<1>1. definitions \in Seq(rbac!Definitions)
  BY RolesAssumption DEF rbac!RoleAssumption
<1>2. /\ Map(made) /\ NoNewCycle(roles, made)
      /\ \A i \in 1 .. Len(definitions) : definitions[i].name \in DOMAIN made
  BY <1>1, CreatedKeeps
<1>3. roles' = b.map /\ UNCHANGED conditions
  BY DEF rbac!Build
<1>. HIDE DEF made
<1>4. Wiring(made, b)
  BY <1>1, <1>2, WiredKeeps
<1>. HIDE DEF b
<1>5. QED
  BY <1>2, <1>3, <1>4 DEF Wiring, Inherits, Map, NoNewCycle

LEMMA ConditionStep ==
  ASSUME rbac!TypeOK, NEW p \in Permissions,
         rbac!Clear(p) \/ \E c \in Conditions : rbac!AddCondition(p, c)
  PROVE  UNCHANGED roles /\ conditions' \in [Permissions -> Seq(Conditions)]
<1>1. CASE rbac!Clear(p)
  BY <1>1 DEF rbac!TypeOK, rbac!Clear
<1>2. ASSUME NEW c \in Conditions, rbac!AddCondition(p, c)
      PROVE  UNCHANGED roles /\ conditions' \in [Permissions -> Seq(Conditions)]
  BY <1>2 DEF rbac!TypeOK, rbac!AddCondition
<1>3. QED
  BY <1>1, <1>2

(* Only createRole() makes more than others of the hierarchy.                *)
Creates ==
  \E m \in Names, parents \in SUBSET Names, permissions \in SUBSET Permissions :
    rbac!CreateRole(m, permissions, parents)

LEMMA RolesStep ==
  ASSUME rbac!TypeOK, rbac!Next
  PROVE  rbac!TypeOK' /\ (Creates \/ NoNewCycle(roles, roles'))
<1>1. Map(roles) /\ conditions \in [Permissions -> Seq(Conditions)]
  BY DEF rbac!TypeOK, Map
<1>2. Inherits /\ UNCHANGED conditions => rbac!TypeOK' /\ NoNewCycle(roles, roles')
  BY <1>1 DEF Inherits, rbac!TypeOK
<1>3. rbac!Step
  BY DEF rbac!Next
<1>4. ASSUME NEW n \in Names, rbac!DeleteRole(n)
      PROVE  rbac!TypeOK' /\ NoNewCycle(roles, roles')
  BY <1>1, <1>2, <1>4, DeleteRoleStep
<1>5. ASSUME NEW n \in Names, NEW p \in Permissions,
             rbac!AddPermission(n, p) \/ rbac!RemovePermission(n, p)
      PROVE  rbac!TypeOK' /\ NoNewCycle(roles, roles')
  BY <1>1, <1>2, <1>5, PermissionStep
<1>6. ASSUME NEW n \in Names, NEW parents \in SUBSET Names, rbac!SetInheritance(n, parents)
      PROVE  rbac!TypeOK' /\ NoNewCycle(roles, roles')
  BY <1>1, <1>2, <1>6, SetInheritanceStep
<1>7. ASSUME NEW n \in Names, NEW parents \in SUBSET Names,
             NEW permissions \in SUBSET Permissions, rbac!CreateRole(n, permissions, parents)
      PROVE  rbac!TypeOK' /\ Creates
  <2>1. Map(roles)' /\ UNCHANGED conditions
    BY <1>1, <1>7, CreateRoleStep
  <2>2. QED
    BY <1>1, <1>7, <2>1 DEF Map, rbac!TypeOK, Creates
<1>8. ASSUME NEW definitions \in Hierarchies, rbac!Build(definitions)
      PROVE  rbac!TypeOK' /\ NoNewCycle(roles, roles')
  BY <1>1, <1>2, <1>8, BuildStep
<1>9. ASSUME NEW p \in Conditional,
             rbac!Clear(p) \/ \E c \in Conditions : rbac!AddCondition(p, c)
      PROVE  rbac!TypeOK' /\ NoNewCycle(roles, roles')
  <2>1. p \in Permissions
    BY RolesAssumption DEF rbac!RoleAssumption
  <2>2. UNCHANGED roles /\ conditions' \in [Permissions -> Seq(Conditions)]
    BY <1>9, <2>1, ConditionStep
  <2>3. QED
    BY <2>2 DEF rbac!TypeOK, NoNewCycle
<1>10. QED
  BY <1>3, <1>4, <1>5, <1>6, <1>7, <1>8, <1>9 DEF rbac!Step

LEMMA InitRoles == AccessInit => rbac!TypeOK
<1>1. DOMAIN <<>> = {}
  OBVIOUS
<1>2. SUFFICES ASSUME rbac!Init PROVE rbac!TypeOK
  BY DEF AccessInit
<1>3. conditions \in [Permissions -> Seq(Conditions)]
  BY <1>2 DEF rbac!Init
<1>4. QED
  BY <1>1, <1>2, <1>3 DEF rbac!Init, rbac!TypeOK

LEMMA RolesKept ==
  rbac!TypeOK /\ [AccessNext /\ UNCHANGED part]_<<part, vars, sessionVars, rbacVars>>
    => rbac!TypeOK' /\ (UNCHANGED rbacVars \/ Creates \/ NoNewCycle(roles, roles'))
<1>1. SUFFICES ASSUME rbac!TypeOK,
                      [AccessNext /\ UNCHANGED part]_<<part, vars, sessionVars, rbacVars>>
               PROVE  rbac!TypeOK' /\ (UNCHANGED rbacVars \/ Creates \/ NoNewCycle(roles, roles'))
  OBVIOUS
<1>2. rbac!Next \/ UNCHANGED rbacVars
  BY <1>1 DEF AccessNext
<1>3. CASE rbac!Next
  BY <1>1, <1>3, RolesStep
<1>4. CASE UNCHANGED rbacVars
  BY <1>1, <1>4 DEF rbacVars, rbac!TypeOK
<1>5. QED
  BY <1>2, <1>3, <1>4

LEMMA RolesTyped == AccessSpec => []rbac!TypeOK
BY InitRoles, RolesKept, PTL DEF AccessSpec

(* Whatever is created, wired, deleted and created again: roles have what    *)
(* they inherit, the walk over their names ends in cycles and diamonds, and  *)
(* the guards answer accordingly, or throw over a missing role or over a     *)
(* condition that throws, for any names, permissions, conditions and         *)
(* hierarchies given to builders.                                            *)
THEOREM AccessAlwaysAsInherited == AccessSpec => []AccessAsInherited
<1>1. rbac!TypeOK => AccessAsInherited
  BY InheritedWhenTyped DEF AccessAsInherited
<1>2. QED
  BY <1>1, RolesTyped, PTL

(* setInheritance() and builders close no cycle, however long: what the walk *)
(* over the new parents does not meet is not above them.                     *)
THEOREM CyclesOnlyByCreating == AccessSpec => NoCycleBySetting
<1>. DEFINE A == \A n \in Names : n \notin rbac!Above(roles, n) /\ n \in rbac!Above(roles', n)
                   => Creates
<1>1. Creates \/ NoNewCycle(roles, roles') => A
  BY DEF NoNewCycle
<1>2. UNCHANGED rbacVars => UNCHANGED rbac!vars
  BY DEF rbacVars, rbac!vars
<1>. HIDE DEF A
<1>3. rbac!TypeOK /\ [AccessNext /\ UNCHANGED part]_<<part, vars, sessionVars, rbacVars>>
        => [A]_(rbac!vars)
  BY <1>1, <1>2, RolesKept
<1>4. AccessSpec => [][A]_(rbac!vars)
  BY <1>3, RolesTyped, PTL DEF AccessSpec
<1>5. QED
  BY <1>4, PTL DEF A, Creates, NoCycleBySetting, rbac!NoCycleBySetting
===============================================================================
