--------------------------- MODULE CollectionLemmas ---------------------------
(* Lemmas shared by the proofs about the components: what taking an element  *)
(* out of a queue and appending one do to its length, its elements and their *)
(* being distinct; induction over the naturals and over finite sets, in the  *)
(* form of the set of those that are good; sums over finite sets; what       *)
(* filtering a sequence keeps, and in which order its elements come; the     *)
(* elements of a finite set put in order; what joining sequences makes.      *)
EXTENDS Integers, Sequences, Collections, SequenceTheorems,
        FiniteSetsExt, FiniteSetTheorems, WellFoundedInduction, TLAPS

(* Removing the element at index i of a sequence.                            *)
LEMMA RemoveAtProperties ==
  ASSUME NEW S, NEW s \in Seq(S), NEW i \in DOMAIN s
  PROVE  /\ RemoveAt(s, i) \in Seq(S)
         /\ Len(RemoveAt(s, i)) = Len(s) - 1
         /\ \A j \in 1 .. Len(s) - 1 :
              RemoveAt(s, i)[j] = IF j < i THEN s[j] ELSE s[j + 1]
<1>. DEFINE a == SubSeq(s, 1, i - 1)
            b == SubSeq(s, i + 1, Len(s))
<1>1. i \in 1 .. Len(s) /\ Len(s) \in Nat
  OBVIOUS
<1>2. /\ a \in Seq(S) /\ Len(a) = i - 1
      /\ \A j \in 1 .. i - 1 : a[j] = s[j]
  BY <1>1, SubSeqProperties
<1>3. /\ b \in Seq(S) /\ Len(b) = Len(s) - i
      /\ \A j \in 1 .. Len(s) - i : b[j] = s[i + j]
  BY <1>1, SubSeqProperties
<1>. HIDE DEF a, b
<1>4. RemoveAt(s, i) = a \o b
  BY DEF RemoveAt, a, b
<1>5. /\ a \o b \in Seq(S) /\ Len(a \o b) = Len(a) + Len(b)
      /\ \A j \in 1 .. Len(a) + Len(b) :
           (a \o b)[j] = IF j <= Len(a) THEN a[j] ELSE b[j - Len(a)]
  BY <1>2, <1>3, ConcatProperties
<1>6. Len(a) + Len(b) = Len(s) - 1
  BY <1>1, <1>2, <1>3
<1>7. ASSUME NEW j \in 1 .. Len(s) - 1
      PROVE  RemoveAt(s, i)[j] = IF j < i THEN s[j] ELSE s[j + 1]
  <2>1. j \in Nat /\ i \in Nat /\ j \in 1 .. Len(a) + Len(b)
    BY <1>1, <1>6
  <2>2. CASE j < i
    <3>1. j <= Len(a) /\ j \in 1 .. i - 1
      BY <1>1, <1>2, <2>1, <2>2
    <3>2. QED
      BY <1>2, <1>4, <1>5, <2>1, <2>2, <3>1
  <2>3. CASE ~(j < i)
    <3>1. ~(j <= Len(a)) /\ j - Len(a) \in 1 .. Len(s) - i /\ i + (j - Len(a)) = j + 1
      <4>1. Len(a) = i - 1 /\ i \in Nat /\ j \in Nat /\ j >= i /\ j <= Len(s) - 1 /\ Len(s) \in Nat
        BY <1>1, <1>2, <2>1, <2>3
      <4>2. QED
        BY ONLY <4>1
    <3>2. RemoveAt(s, i)[j] = b[j - Len(a)]
      BY <1>4, <1>5, <2>1, <3>1
    <3>3. b[j - Len(a)] = s[j + 1]
      BY <1>3, <3>1
    <3>4. QED
      BY <2>3, <3>2, <3>3
  <2>4. QED
    BY <2>2, <2>3
<1>8. QED
  BY <1>4, <1>5, <1>6, <1>7

(* Removing from a sequence without repetitions removes from its elements.  *)
LEMMA RemoveAtRange ==
  ASSUME NEW S, NEW s \in Seq(S), NEW i \in DOMAIN s,
         \A j, k \in DOMAIN s : s[j] = s[k] => j = k
  PROVE  /\ ToSet(RemoveAt(s, i)) = ToSet(s) \ {s[i]}
         /\ \A j, k \in DOMAIN RemoveAt(s, i) :
              RemoveAt(s, i)[j] = RemoveAt(s, i)[k] => j = k
<1>. DEFINE r == RemoveAt(s, i)
<1>1. /\ r \in Seq(S) /\ Len(r) = Len(s) - 1
      /\ \A j \in 1 .. Len(s) - 1 : r[j] = IF j < i THEN s[j] ELSE s[j + 1]
  BY RemoveAtProperties
<1>2. /\ DOMAIN r = 1 .. Len(s) - 1 /\ DOMAIN s = 1 .. Len(s)
      /\ Len(s) \in Nat /\ i \in 1 .. Len(s)
  BY <1>1
<1>. HIDE DEF r
<1>3. \A j, k \in DOMAIN r : r[j] = r[k] => j = k
  <2>1. SUFFICES ASSUME NEW j \in DOMAIN r, NEW k \in DOMAIN r, r[j] = r[k]
                 PROVE  j = k
    OBVIOUS
  <2>2. PICK p \in DOMAIN s : r[j] = s[p] /\ p = IF j < i THEN j ELSE j + 1
    BY <1>1, <1>2
  <2>3. PICK q \in DOMAIN s : r[k] = s[q] /\ q = IF k < i THEN k ELSE k + 1
    BY <1>1, <1>2
  <2>4. p = q
    BY <2>1, <2>2, <2>3
  <2>5. j \in Nat /\ k \in Nat /\ i \in Nat
    BY <1>2
  <2>6. QED
    BY <2>2, <2>3, <2>4, <2>5
<1>4. \A j \in DOMAIN r : r[j] \in ToSet(s) \ {s[i]}
  <2>1. \A j \in DOMAIN r : \E k \in DOMAIN s : k # i /\ r[j] = s[k]
    <3>1. TAKE j \in DOMAIN r
    <3>2. CASE j < i
      BY <1>1, <1>2, <3>2
    <3>3. CASE ~(j < i)
      <4>1. j + 1 \in DOMAIN s /\ j + 1 # i /\ r[j] = s[j + 1]
        BY <1>1, <1>2, <3>3
      <4>2. QED
        BY <4>1
    <3>4. QED
      BY <3>2, <3>3
  <2>2. QED
    BY <2>1 DEF ToSet
<1>5. ASSUME NEW j \in DOMAIN s, j # i
      PROVE  \E k \in DOMAIN r : r[k] = s[j]
  <2>1. CASE j < i
    BY <1>1, <1>2, <2>1
  <2>2. CASE j > i
    <3>1. j - 1 \in DOMAIN r /\ ~(j - 1 < i) /\ (j - 1) + 1 = j
      BY <1>2, <2>2
    <3>2. QED
      BY <1>1, <1>2, <3>1
  <2>3. QED
    BY <1>2, <1>5, <2>1, <2>2
<1>6. ToSet(r) = ToSet(s) \ {s[i]}
  BY <1>4, <1>5 DEF ToSet
<1>7. QED
  BY <1>3, <1>6 DEF r

(* A sequence given by its elements.                                         *)
LEMMA SeqByElements ==
  ASSUME NEW S, NEW n \in Nat, NEW s, s = [i \in 1 .. n |-> s[i]],
         \A i \in 1 .. n : s[i] \in S
  PROVE  s \in Seq(S) /\ Len(s) = n /\ DOMAIN s = 1 .. n
<1>1. s \in [1 .. n -> S]
  OBVIOUS
<1>2. QED
  BY <1>1, SeqDef

(* Appending adds an element, and no repetition if the element is new.      *)
LEMMA AppendRange ==
  ASSUME NEW S, NEW s \in Seq(S), NEW x \in S
  PROVE  /\ ToSet(Append(s, x)) = ToSet(s) \cup {x}
         /\ (\A j, k \in DOMAIN s : s[j] = s[k] => j = k) /\ x \notin ToSet(s)
            => \A j, k \in DOMAIN Append(s, x) :
                 Append(s, x)[j] = Append(s, x)[k] => j = k
<1>1. /\ Append(s, x) \in Seq(S) /\ Len(Append(s, x)) = Len(s) + 1
      /\ \A j \in 1 .. Len(s) : Append(s, x)[j] = s[j]
      /\ Append(s, x)[Len(s) + 1] = x /\ Len(s) \in Nat
  BY AppendProperties
<1>2. /\ DOMAIN s = 1 .. Len(s)
      /\ DOMAIN Append(s, x) = 1 .. Len(s) + 1
  BY <1>1
<1>3. \A j \in DOMAIN Append(s, x) : j \in DOMAIN s \/ j = Len(s) + 1
  BY <1>1, <1>2
<1>4. QED
  BY <1>1, <1>2, <1>3 DEF ToSet
-----------------------------------------------------------------------------
(* Every nonempty set of naturals has a least element.                       *)
LEMMA LeastNatural ==
  ASSUME NEW T \in SUBSET Nat, T # {}
  PROVE  \E m \in T : \A k \in T : m <= k
<1>. DEFINE R == OpToRel(<, Nat)
<1>1. IsWellFoundedOn(R, Nat)
  BY NatLessThanWellFounded
<1>2. \A x, y \in Nat : x < y => <<x, y>> \in R
  BY DEF OpToRel
<1>. HIDE DEF R
<1>3. PICK m \in T : \A y \in T : ~ (<<y, m>> \in R)
  BY <1>1, WFMin
<1>4. \A k \in T : ~ (k < m)
  BY <1>2, <1>3
<1>5. \A k \in T : m <= k
  BY <1>4
<1>6. QED
  BY <1>5

(* Induction over the naturals, for the set of those that are good.          *)
LEMMA InductionOnNat ==
  ASSUME NEW Good, 0 \in Good, \A n \in Nat : n \in Good => n + 1 \in Good
  PROVE  \A n \in Nat : n \in Good
<1>. DEFINE Bad == {n \in Nat : n \notin Good}
<1>1. SUFFICES ASSUME Bad # {} PROVE FALSE
  OBVIOUS
<1>2. PICK m \in Bad : \A k \in Bad : m <= k
  <2>1. Bad \in SUBSET Nat
    OBVIOUS
  <2>. HIDE DEF Bad
  <2>2. QED
    BY <1>1, <2>1, LeastNatural
<1>3. m - 1 \in Nat /\ m - 1 \notin Bad
  BY <1>2
<1>4. QED
  BY <1>2, <1>3

(* Induction over the subsets of a finite set, for the set of those that are *)
(* good.                                                                     *)
LEMMA InductionOnSets ==
  ASSUME NEW S, IsFiniteSet(S), NEW Good,
         \A T \in SUBSET S : (\A x \in T : T \ {x} \in Good) => T \in Good
  PROVE  \A T \in SUBSET S : T \in Good
<1>. DEFINE R == StrictSubsetOrdering(S)
            Bad == {T \in SUBSET S : T \notin Good}
<1>1. IsWellFoundedOn(R, SUBSET S)
  BY FS_StrictSubsetOrderingWellFounded, FS_FiniteSubsetsOfFinite
<1>2. SUFFICES ASSUME Bad # {} PROVE FALSE
  OBVIOUS
<1>3. Bad \subseteq SUBSET S
  OBVIOUS
<1>4. PICK T \in Bad : \A U \in Bad : ~ (<<U, T>> \in R)
  <2>. HIDE DEF R, Bad
  <2>. QED
    BY <1>1, <1>2, <1>3, WFMin
<1>5. ASSUME NEW x \in T
      PROVE  T \ {x} \in Good
  <2>1. T \ {x} \in SUBSET S /\ T \in SUBSET S
    BY <1>3
  <2>2. T \ {x} \subseteq T /\ T \ {x} # T
    BY <1>5
  <2>3. <<T \ {x}, T>> \in (SUBSET S) \X (SUBSET S)
    BY <2>1
  <2>4. <<T \ {x}, T>> \in R
    BY <2>2, <2>3 DEF StrictSubsetOrdering
  <2>5. T \ {x} \notin Bad
    <3>. HIDE DEF R, Bad
    <3>. QED
      BY <1>4, <2>4
  <2>6. QED
    BY <2>1, <2>5
<1>6. QED
  BY <1>3, <1>4, <1>5
-----------------------------------------------------------------------------
(* The sum of g over S, and the function that computes it.                   *)
SumOver(g, S) == MapThenSumSet(LAMBDA x : g[x], S)

Chosen(s) == CHOOSE x \in s : TRUE

SumStep(g, h, s) == IF s = {} THEN 0 ELSE g[Chosen(s)] + h[s \ {Chosen(s)}]

SumFcn(g, S) == CHOOSE h : h = [s \in SUBSET S |-> SumStep(g, h, s)]

LEMMA SumAsFcn ==
  \A g, S : SumOver(g, S) = SumFcn(g, S)[S]
BY DEF SumOver, SumFcn, SumStep, Chosen, MapThenSumSet, MapThenFoldSet

LEMMA ChosenIn == \A s : s # {} => Chosen(s) \in s
BY DEF Chosen

LEMMA SumFcnExists ==
  ASSUME NEW g, NEW S, IsFiniteSet(S)
  PROVE  \A s \in SUBSET S : SumFcn(g, S)[s] = SumStep(g, SumFcn(g, S), s)
<1>. DEFINE Level(n) == {s \in SUBSET S : Cardinality(s) <= n}
            Good == {n \in Nat :
                       \E h : h = [s \in Level(n) |-> SumStep(g, h, s)]}
<1>0. \A s \in SUBSET S : IsFiniteSet(s) /\ Cardinality(s) \in Nat
  BY FS_Subset, FS_CardinalityType
<1>1. 0 \in Good
  <2>1. \A s \in Level(0) : s = {}
    BY <1>0, FS_EmptySet
  <2>2. \A h : \A s \in Level(0) : SumStep(g, h, s) = 0
    BY <2>1 DEF SumStep
  <2>3. [s \in Level(0) |-> 0]
          = [s \in Level(0) |-> SumStep(g, [r \in Level(0) |-> 0], s)]
    BY <2>2
  <2>4. QED
    BY <2>3
<1>2. ASSUME NEW n \in Nat, n \in Good
      PROVE  n + 1 \in Good
  <2>1. PICK h : h = [s \in Level(n) |-> SumStep(g, h, s)]
    BY <1>2
  <2>. DEFINE k == [s \in Level(n + 1) |-> SumStep(g, h, s)]
  <2>2. \A s \in Level(n) : s \in Level(n + 1) /\ k[s] = h[s]
    BY <1>0, <2>1
  <2>3. ASSUME NEW s \in Level(n + 1), s # {}
        PROVE  s \ {Chosen(s)} \in Level(n)
    <3>1. Chosen(s) \in s
      BY <2>3, ChosenIn
    <3>2. Cardinality(s \ {Chosen(s)}) = Cardinality(s) - 1
      BY <1>0, <3>1, FS_RemoveElement
    <3>3. QED
      BY <1>0, <3>2
  <2>4. \A s \in Level(n + 1) : SumStep(g, k, s) = SumStep(g, h, s)
    <3>. HIDE DEF k, Level
    <3>. QED
      BY <2>2, <2>3 DEF SumStep
  <2>5. k = [s \in Level(n + 1) |-> SumStep(g, k, s)]
    BY <2>4
  <2>6. \E f : f = [s \in Level(n + 1) |-> SumStep(g, f, s)]
    <3>. HIDE DEF k, Level
    <3>. QED
      BY <2>5
  <2>7. n + 1 \in Nat
    OBVIOUS
  <2>8. QED
    <3>. HIDE DEF k, Level
    <3>. QED
      BY <2>6, <2>7, Zenon
<1>3. \A n \in Nat : n \in Good
  <2>. HIDE DEF Good
  <2>. QED
    BY <1>1, <1>2, InductionOnNat
<1>4. Cardinality(S) \in Nat
  BY <1>0
<1>5. Level(Cardinality(S)) = SUBSET S
  BY <1>0, FS_Subset
<1>6. \E h : h = [s \in SUBSET S |-> SumStep(g, h, s)]
  BY <1>3, <1>4, <1>5
<1>7. SumFcn(g, S) = [s \in SUBSET S |-> SumStep(g, SumFcn(g, S), s)]
  BY <1>6 DEF SumFcn
<1>8. QED
  BY <1>7

(* The sum of the empty set, and that of a set with a chosen element.        *)
LEMMA SumUnfolds ==
  ASSUME NEW g, NEW S, IsFiniteSet(S)
  PROVE  /\ SumOver(g, {}) = 0
         /\ S # {} => SumOver(g, S) = g[Chosen(S)] + SumOver(g, S \ {Chosen(S)})
<1>1. ASSUME NEW A, IsFiniteSet(A), NEW r \in SUBSET A
      PROVE  SumFcn(g, A)[r] = SumStep(g, SumFcn(g, A), r)
  BY <1>1, SumFcnExists
<1>2. ASSUME NEW A, IsFiniteSet(A), NEW B \in SUBSET A
      PROVE  \A r \in SUBSET B : SumFcn(g, A)[r] = SumFcn(g, B)[r]
  <2>. DEFINE Good == {r \in SUBSET B : SumFcn(g, A)[r] = SumFcn(g, B)[r]}
  <2>1. IsFiniteSet(B)
    BY <1>2, FS_Subset
  <2>2. ASSUME NEW r \in SUBSET B, \A x \in r : r \ {x} \in Good
        PROVE  r \in Good
    <3>1. /\ SumFcn(g, A)[r] = SumStep(g, SumFcn(g, A), r)
          /\ SumFcn(g, B)[r] = SumStep(g, SumFcn(g, B), r)
      BY <1>1, <1>2, <2>1
    <3>2. r # {} => SumFcn(g, A)[r \ {Chosen(r)}]
                      = SumFcn(g, B)[r \ {Chosen(r)}]
      BY <2>2, ChosenIn
    <3>3. SumFcn(g, A)[r] = SumFcn(g, B)[r]
      BY <3>1, <3>2 DEF SumStep
    <3>4. QED
      BY <3>3
  <2>3. \A r \in SUBSET B : r \in Good
    <3>. HIDE DEF Good
    <3>. QED
      BY <2>1, <2>2, InductionOnSets
  <2>4. QED
    BY <2>3
<1>3. SumOver(g, {}) = 0
  <2>1. SumFcn(g, {})[{}] = SumStep(g, SumFcn(g, {}), {})
    BY <1>1, FS_EmptySet
  <2>2. QED
    BY <2>1, SumAsFcn DEF SumStep
<1>4. ASSUME S # {}
      PROVE  SumOver(g, S) = g[Chosen(S)] + SumOver(g, S \ {Chosen(S)})
  <2>1. SumFcn(g, S)[S] = SumStep(g, SumFcn(g, S), S)
    BY <1>1
  <2>2. SumFcn(g, S)[S \ {Chosen(S)}]
          = SumFcn(g, S \ {Chosen(S)})[S \ {Chosen(S)}]
    BY <1>2
  <2>3. QED
    BY <1>4, <2>1, <2>2, SumAsFcn DEF SumStep
<1>5. QED
  BY <1>3, <1>4

LEMMA SumEmpty == \A g : SumOver(g, {}) = 0
BY FS_EmptySet, SumUnfolds

LEMMA SumType ==
  ASSUME NEW g, NEW S, IsFiniteSet(S), \A x \in S : g[x] \in Int
  PROVE  SumOver(g, S) \in Int
<1>. DEFINE Good == {T \in SUBSET S : SumOver(g, T) \in Int}
<1>1. ASSUME NEW T \in SUBSET S, \A x \in T : T \ {x} \in Good
      PROVE  T \in Good
  <2>1. IsFiniteSet(T)
    BY FS_Subset
  <2>2. CASE T = {}
    <3>1. SumOver(g, T) = 0
      BY <2>2, SumEmpty
    <3>2. QED
      BY <3>1
  <2>3. CASE T # {}
    <3>1. Chosen(T) \in T
      BY <2>3, ChosenIn
    <3>2. SumOver(g, T) = g[Chosen(T)] + SumOver(g, T \ {Chosen(T)})
      BY <2>1, <2>3, SumUnfolds
    <3>3. SumOver(g, T \ {Chosen(T)}) \in Int
      BY <1>1, <3>1
    <3>4. g[Chosen(T)] \in Int
      BY <3>1
    <3>5. SumOver(g, T) \in Int
      BY <3>2, <3>3, <3>4
    <3>6. QED
      BY <3>5
  <2>4. QED
    BY <2>2, <2>3
<1>2. \A T \in SUBSET S : T \in Good
  <2>. HIDE DEF Good
  <2>. QED
    BY <1>1, InductionOnSets
<1>3. QED
  BY <1>2

(* Any element may be taken out of a sum first.                              *)
LEMMA SumWithout ==
  ASSUME NEW g, NEW S, IsFiniteSet(S), \A x \in S : g[x] \in Int
  PROVE  \A x \in S : SumOver(g, S) = g[x] + SumOver(g, S \ {x})
<1>. DEFINE Good == {T \in SUBSET S : \A x \in T :
                       SumOver(g, T) = g[x] + SumOver(g, T \ {x})}
<1>0. \A T \in SUBSET S : IsFiniteSet(T) /\ SumOver(g, T) \in Int
  BY FS_Subset, SumType
<1>1. ASSUME NEW T \in SUBSET S, \A x \in T : T \ {x} \in Good, NEW x \in T
      PROVE  SumOver(g, T) = g[x] + SumOver(g, T \ {x})
  <2>. DEFINE c == Chosen(T)
  <2>1. c \in T
    BY ChosenIn
  <2>2. SumOver(g, T) = g[c] + SumOver(g, T \ {c})
    BY <1>0, <2>1, SumUnfolds
  <2>. HIDE DEF c
  <2>3. CASE x = c
    BY <2>2, <2>3
  <2>4. CASE x # c
    <3>1. T \ {c} \in Good /\ T \ {x} \in Good
      BY <1>1, <2>1
    <3>2. x \in T \ {c} /\ c \in T \ {x}
      BY <2>1, <2>4
    <3>3. /\ SumOver(g, T \ {c}) = g[x] + SumOver(g, (T \ {c}) \ {x})
          /\ SumOver(g, T \ {x}) = g[c] + SumOver(g, (T \ {x}) \ {c})
      BY <3>1, <3>2
    <3>4. (T \ {c}) \ {x} = (T \ {x}) \ {c}
      OBVIOUS
    <3>5. /\ g[c] \in Int /\ g[x] \in Int
          /\ SumOver(g, (T \ {x}) \ {c}) \in Int
      BY <1>0, <2>1
    <3>6. SumOver(g, T \ {c}) = g[x] + SumOver(g, (T \ {x}) \ {c})
      BY <3>3, <3>4
    <3>7. g[c] + SumOver(g, T \ {c}) = g[x] + SumOver(g, T \ {x})
      BY <3>3, <3>5, <3>6
    <3>8. QED
      BY <2>2, <3>7
  <2>5. QED
    BY <2>3, <2>4
<1>2. \A T \in SUBSET S : T \in Good
  <2>1. ASSUME NEW T \in SUBSET S, \A x \in T : T \ {x} \in Good
        PROVE  T \in Good
    BY <1>1, <2>1
  <2>. HIDE DEF Good
  <2>2. QED
    BY <2>1, InductionOnSets
<1>3. QED
  BY <1>2

(* The sum depends on the values over the set only.                          *)
IntsOn(g, S) == \A y \in S : g[y] \in Int

LEMMA SumTake ==
  ASSUME NEW g, NEW S, IsFiniteSet(S), IntsOn(g, S), NEW x \in S
  PROVE  SumOver(g, S) = g[x] + SumOver(g, S \ {x})
BY SumWithout DEF IntsOn

LEMMA SumAgree ==
  ASSUME NEW g, NEW h, NEW S, IsFiniteSet(S), \A x \in S : g[x] = h[x]
  PROVE  SumOver(g, S) = SumOver(h, S)
<1>. DEFINE Good == {T \in SUBSET S : SumOver(g, T) = SumOver(h, T)}
<1>1. ASSUME NEW T \in SUBSET S, \A x \in T : T \ {x} \in Good
      PROVE  T \in Good
  <2>1. IsFiniteSet(T)
    BY FS_Subset
  <2>2. CASE T = {}
    BY <2>1, <2>2, SumUnfolds
  <2>3. CASE T # {}
    <3>1. Chosen(T) \in T
      BY <2>3, ChosenIn
    <3>2. /\ SumOver(g, T) = g[Chosen(T)] + SumOver(g, T \ {Chosen(T)})
          /\ SumOver(h, T) = h[Chosen(T)] + SumOver(h, T \ {Chosen(T)})
      BY <2>1, <2>3, SumUnfolds
    <3>3. SumOver(g, T \ {Chosen(T)}) = SumOver(h, T \ {Chosen(T)})
      BY <1>1, <3>1
    <3>4. g[Chosen(T)] = h[Chosen(T)]
      BY <3>1
    <3>5. SumOver(g, T) = SumOver(h, T)
      BY <3>2, <3>3, <3>4
    <3>6. QED
      BY <3>5
  <2>4. QED
    BY <2>2, <2>3
<1>2. \A T \in SUBSET S : T \in Good
  <2>. HIDE DEF Good
  <2>. QED
    BY <1>1, InductionOnSets
<1>3. QED
  BY <1>2

(* One value changed.                                                        *)
LEMMA SumUpdate ==
  ASSUME NEW g, NEW h, NEW S, IsFiniteSet(S), NEW x \in S,
         \A y \in S : g[y] \in Int /\ h[y] \in Int,
         \A y \in S \ {x} : h[y] = g[y]
  PROVE  SumOver(h, S) = SumOver(g, S) - g[x] + h[x]
<1>1. /\ SumOver(g, S) = g[x] + SumOver(g, S \ {x})
      /\ SumOver(h, S) = h[x] + SumOver(h, S \ {x})
  BY SumWithout
<1>2. IsFiniteSet(S \ {x})
  BY FS_Subset
<1>3. SumOver(g, S \ {x}) = SumOver(h, S \ {x})
  BY <1>2, SumAgree
<1>4. SumOver(g, S \ {x}) \in Int /\ g[x] \in Int /\ h[x] \in Int
  BY <1>2, SumType
<1>5. QED
  BY <1>1, <1>3, <1>4

(* Smaller values, or naturals over a smaller set, have a smaller sum.       *)
LEMMA SumMonotone ==
  ASSUME NEW g, NEW h, NEW S, IsFiniteSet(S), NEW R \in SUBSET S,
         \A x \in S : g[x] \in Int /\ h[x] \in Int,
         \A x \in R : h[x] <= g[x],
         \A x \in S \ R : 0 <= g[x]
  PROVE  SumOver(h, R) <= SumOver(g, S)
<1>. DEFINE Good == {T \in SUBSET S : SumOver(h, T \cap R) <= SumOver(g, T)}
<1>1. ASSUME NEW T \in SUBSET S, \A x \in T : T \ {x} \in Good
      PROVE  T \in Good
  <2>1. IsFiniteSet(T) /\ IsFiniteSet(T \cap R)
    BY FS_Subset
  <2>2. CASE T = {}
    <3>1. SumOver(h, T \cap R) = 0 /\ SumOver(g, T) = 0
      <4>1. T \cap R = {}
        BY <2>2
      <4>2. QED
        BY <2>1, <2>2, <4>1, SumUnfolds
    <3>2. QED
      BY <3>1
  <2>3. ASSUME NEW x \in T
        PROVE  SumOver(h, T \cap R) <= SumOver(g, T)
    <3>1. SumOver(g, T) = g[x] + SumOver(g, T \ {x})
      BY <2>1, SumWithout
    <3>2. SumOver(h, (T \ {x}) \cap R) <= SumOver(g, T \ {x})
      BY <1>1
    <3>3. /\ IsFiniteSet(T \ {x}) /\ IsFiniteSet((T \ {x}) \cap R)
      BY FS_Subset
    <3>4. /\ SumOver(g, T \ {x}) \in Int /\ SumOver(h, (T \ {x}) \cap R) \in Int
          /\ g[x] \in Int /\ h[x] \in Int
      BY <3>3, SumType
    <3>5. CASE x \in R
      <4>1. SumOver(h, T \cap R) = h[x] + SumOver(h, (T \cap R) \ {x})
        BY <2>1, <3>5, SumWithout
      <4>2. (T \cap R) \ {x} = (T \ {x}) \cap R
        OBVIOUS
      <4>3. h[x] <= g[x]
        BY <3>5
      <4>4. SumOver(h, T \cap R) = h[x] + SumOver(h, (T \ {x}) \cap R)
        BY <4>1, <4>2
      <4>5. QED
        BY <3>1, <3>2, <3>4, <4>3, <4>4
    <3>6. CASE x \notin R
      <4>1. T \cap R = (T \ {x}) \cap R
        BY <3>6
      <4>2. 0 <= g[x]
        BY <3>6
      <4>3. SumOver(h, T \cap R) = SumOver(h, (T \ {x}) \cap R)
        BY <4>1
      <4>4. QED
        BY <3>1, <3>2, <3>4, <4>2, <4>3
    <3>7. QED
      BY <3>5, <3>6
  <2>4. QED
    BY <2>2, <2>3
<1>2. \A T \in SUBSET S : T \in Good
  <2>. HIDE DEF Good
  <2>. QED
    BY <1>1, InductionOnSets
<1>3. S \in Good /\ S \cap R = R
  BY <1>2
<1>4. QED
  BY <1>3

(* Zeros add up to nothing.                                                  *)
LEMMA SumOfZeros ==
  ASSUME NEW g, NEW S, IsFiniteSet(S), \A x \in S : g[x] = 0
  PROVE  SumOver(g, S) = 0
<1>. DEFINE Good == {T \in SUBSET S : SumOver(g, T) = 0}
<1>1. ASSUME NEW T \in SUBSET S, \A x \in T : T \ {x} \in Good
      PROVE  T \in Good
  <2>1. IsFiniteSet(T)
    BY FS_Subset
  <2>2. CASE T = {}
    BY <2>2, SumEmpty
  <2>3. CASE T # {}
    <3>1. Chosen(T) \in T
      BY <2>3, ChosenIn
    <3>2. SumOver(g, T) = g[Chosen(T)] + SumOver(g, T \ {Chosen(T)})
      BY <2>1, <2>3, SumUnfolds
    <3>3. SumOver(g, T \ {Chosen(T)}) = 0 /\ g[Chosen(T)] = 0
      BY <1>1, <3>1
    <3>4. SumOver(g, T) = 0
      BY <3>2, <3>3
    <3>5. QED
      BY <3>4
  <2>4. QED
    BY <2>2, <2>3
<1>2. \A T \in SUBSET S : T \in Good
  <2>. HIDE DEF Good
  <2>. QED
    BY <1>1, InductionOnSets
<1>3. QED
  BY <1>2

(* The values over 0 .. N - 1, moved up by one place.                        *)
LEMMA SumShifted ==
  ASSUME NEW N \in Nat, NEW g, NEW h,
         \A a \in 0 .. N - 1 : g[a] \in Int /\ h[a + 1] = g[a],
         h[0] = 0
  PROVE  SumOver(h, 0 .. N) = SumOver(g, 0 .. N - 1)
<1>. DEFINE Good == {n \in Nat : n <= N =>
                       SumOver(h, 0 .. n) = SumOver(g, 0 .. n - 1)}
<1>0. \A n \in Int : IsFiniteSet(0 .. n)
  BY FS_Interval
<1>1. 0 \in Good
  <2>1. 0 .. 0 = {0} /\ 0 .. 0 - 1 = {}
    OBVIOUS
  <2>2. SumOver(h, {0}) = h[0] + SumOver(h, {0} \ {0})
    <3>1. IsFiniteSet({0}) /\ \A x \in {0} : h[x] \in Int
      <4>1. IsFiniteSet({0})
        BY FS_Singleton
      <4>2. \A x \in {0} : x = 0
        OBVIOUS
      <4>3. \A x \in {0} : h[x] = 0
        BY <4>2
      <4>4. QED
        BY <4>1, <4>3
    <3>2. \A x \in {0} : SumOver(h, {0}) = h[x] + SumOver(h, {0} \ {x})
      BY <3>1, SumWithout
    <3>3. QED
      BY <3>2
  <2>3. {0} \ {0} = {}
    OBVIOUS
  <2>4. SumOver(h, {}) = 0 /\ SumOver(g, {}) = 0
    BY SumEmpty
  <2>5. SumOver(h, {0}) = h[0] + 0
    BY <2>2, <2>3, <2>4
  <2>6. QED
    BY <2>1, <2>4, <2>5
<1>2. ASSUME NEW n \in Nat, n \in Good
      PROVE  n + 1 \in Good
  <2>1. SUFFICES ASSUME n + 1 <= N
                 PROVE  SumOver(h, 0 .. n + 1) = SumOver(g, 0 .. n)
    OBVIOUS
  <2>2. SumOver(h, 0 .. n) = SumOver(g, 0 .. n - 1)
    BY <1>2, <2>1
  <2>3. /\ (0 .. n + 1) \ {n + 1} = 0 .. n
        /\ (0 .. n) \ {n} = 0 .. n - 1
        /\ n + 1 \in 0 .. n + 1 /\ n \in 0 .. n
    OBVIOUS
  <2>4. /\ \A a \in 0 .. n + 1 : h[a] \in Int
        /\ \A a \in 0 .. n : g[a] \in Int
        /\ h[n + 1] = g[n]
    <3>1. \A a \in 0 .. n : a \in 0 .. N - 1
      BY <2>1
    <3>2. \A a \in 0 .. n + 1 :
            a = 0 \/ (a - 1 \in 0 .. N - 1 /\ (a - 1) + 1 = a)
      BY <2>1
    <3>3. QED
      BY <3>1, <3>2, <2>3
  <2>5. SumOver(h, 0 .. n + 1) = h[n + 1] + SumOver(h, 0 .. n)
    BY <1>0, <2>3, <2>4, SumWithout
  <2>6. SumOver(g, 0 .. n) = g[n] + SumOver(g, 0 .. n - 1)
    <3>. DEFINE A == 0 .. n
    <3>1. IsFiniteSet(A) /\ n \in A /\ IntsOn(g, A)
      BY <1>0, <2>3, <2>4 DEF IntsOn
    <3>2. SumOver(g, A) = g[n] + SumOver(g, A \ {n})
      <4>. HIDE DEF A
      <4>1. QED
        BY <3>1, SumTake
    <3>3. QED
      BY <2>3, <3>2
  <2>7. QED
    BY <2>2, <2>4, <2>5, <2>6
<1>3. \A n \in Nat : n \in Good
  <2>. HIDE DEF Good
  <2>. QED
    BY <1>1, <1>2, InductionOnNat
<1>4. QED
  BY <1>3
(* The first k of the values of g.                                           *)
Since(g, k) == SumOver(g, 0 .. k - 1)

Counts(N) == [0 .. N - 1 -> Nat]

LEMMA SinceTyped ==
  ASSUME NEW N \in Nat, NEW g \in Counts(N)
  PROVE  /\ \A k \in 0 .. N : Since(g, k) \in Nat
         /\ \A j, k \in 0 .. N : j <= k => Since(g, j) <= Since(g, k)
         /\ Since(g, 0) = 0
         /\ \A a \in 0 .. N - 1 : g[a] <= Since(g, N)
<1>1. ASSUME NEW k \in 0 .. N
      PROVE  /\ IsFiniteSet(0 .. k - 1)
             /\ \A a \in 0 .. k - 1 : g[a] \in Nat /\ g[a] \in Int /\ 0 <= g[a]
  <2>1. k - 1 \in Int /\ \A a \in 0 .. k - 1 : a \in 0 .. N - 1
    OBVIOUS
  <2>2. IsFiniteSet(0 .. k - 1)
    BY <2>1, FS_Interval
  <2>3. QED
    BY <2>1, <2>2 DEF Counts
<1>2. Since(g, 0) = 0
  <2>1. 0 .. 0 - 1 = {}
    OBVIOUS
  <2>2. QED
    BY <2>1, SumEmpty DEF Since
<1>3. ASSUME NEW j \in 0 .. N, NEW k \in 0 .. N, j <= k
      PROVE  Since(g, j) <= Since(g, k)
  <2>. DEFINE J == 0 .. j - 1
              K == 0 .. k - 1
  <2>1. J \in SUBSET K
    BY <1>3
  <2>2. IsFiniteSet(K) /\ \A a \in K : g[a] \in Int /\ 0 <= g[a]
    BY <1>1
  <2>3. \A a \in J : g[a] <= g[a]
    BY <2>1, <2>2
  <2>. HIDE DEF J, K
  <2>4. SumOver(g, J) <= SumOver(g, K)
    BY <2>1, <2>2, <2>3, SumMonotone
  <2>5. QED
    BY <2>4 DEF J, K, Since
<1>4. ASSUME NEW k \in 0 .. N
      PROVE  Since(g, k) \in Nat
  <2>1. Since(g, k) \in Int
    BY <1>1, SumType DEF Since
  <2>2. 0 \in 0 .. N /\ 0 <= k
    OBVIOUS
  <2>3. Since(g, 0) <= Since(g, k)
    BY <1>3, <2>2
  <2>4. QED
    BY <1>2, <2>1, <2>3
<1>5. ASSUME NEW a \in 0 .. N - 1
      PROVE  g[a] <= Since(g, N)
  <2>. DEFINE K == 0 .. N - 1
  <2>1. IsFiniteSet(K) /\ (\A x \in K : g[x] \in Int /\ 0 <= g[x])
    BY FS_Interval DEF Counts
  <2>2. a \in K
    OBVIOUS
  <2>. HIDE DEF K
  <2>3. SumOver(g, K) = g[a] + SumOver(g, K \ {a})
    <3>1. IntsOn(g, K) /\ IsFiniteSet(K)
      BY <2>1 DEF IntsOn
    <3>2. QED
      BY ONLY <2>2, <3>1, SumTake
  <2>4. SumOver(g, K \ {a}) \in Int /\ 0 <= SumOver(g, K \ {a})
    <3>. DEFINE R == K \ {a}
    <3>1. /\ IsFiniteSet(R) /\ {} \in SUBSET R
          /\ \A x \in R : g[x] \in Int
          /\ \A x \in R \ {} : 0 <= g[x]
      BY <2>1, FS_Subset
    <3>. HIDE DEF R
    <3>2. SumOver(g, R) \in Int /\ SumOver(g, {}) <= SumOver(g, R)
      BY <3>1, SumType, SumMonotone
    <3>3. QED
      BY <3>2, SumEmpty DEF R
  <2>5. g[a] \in Int /\ SumOver(g, K) = Since(g, N)
    BY <2>1, <2>2 DEF K, Since
  <2>6. QED
    BY <2>3, <2>4, <2>5
<1>6. QED
  BY <1>2, <1>3, <1>4, <1>5

(* One more of the first.                                                    *)
LEMMA SinceHit ==
  ASSUME NEW N \in Nat, N > 0, NEW g \in Counts(N),
         NEW h, h = [g EXCEPT ![0] = g[0] + 1]
  PROVE  /\ h \in Counts(N)
         /\ \A k \in 1 .. N : Since(h, k) = Since(g, k) + 1
<1>1. 0 \in 0 .. N - 1
  OBVIOUS
<1>2. /\ h \in Counts(N) /\ h[0] = g[0] + 1
      /\ \A a \in 0 .. N - 1 : a # 0 => h[a] = g[a]
      /\ \A a \in 0 .. N - 1 : g[a] \in Nat /\ h[a] \in Nat
  BY <1>1 DEF Counts
<1>3. ASSUME NEW k \in 1 .. N
      PROVE  Since(h, k) = Since(g, k) + 1
  <2>. DEFINE K == 0 .. k - 1
  <2>1. 0 \in K /\ \A a \in K : a \in 0 .. N - 1
    OBVIOUS
  <2>2. IsFiniteSet(K)
    BY FS_Interval
  <2>3. /\ \A a \in K : g[a] \in Int /\ h[a] \in Int
        /\ \A a \in K \ {0} : h[a] = g[a]
    BY <1>2, <2>1
  <2>. HIDE DEF K
  <2>4. SumOver(h, K) = SumOver(g, K) - g[0] + h[0]
    <3>. HIDE <1>1
    <3>1. 0 \in K
      BY <2>1
    <3>2. QED
      BY ONLY <2>2, <2>3, <3>1, SumUpdate
  <2>5. SumOver(g, K) \in Int /\ g[0] \in Int
    BY <2>1, <2>2, <2>3, SumType
  <2>6. SumOver(h, K) = SumOver(g, K) + 1
    BY <1>2, <2>4, <2>5
  <2>7. QED
    BY <2>6 DEF K, Since
<1>4. QED
  BY <1>2, <1>3

(* All of them moved up by one place, the last dropped.                      *)
LEMMA SinceAged ==
  ASSUME NEW N \in Nat, N > 0, NEW g \in Counts(N),
         NEW h, h = [a \in 0 .. N - 1 |-> IF a = 0 THEN 0 ELSE g[a - 1]]
  PROVE  /\ h \in Counts(N)
         /\ \A k \in 0 .. N - 1 : Since(h, k + 1) = Since(g, k)
<1>1. \A a \in 0 .. N - 1 : h[a] \in Nat
  <2>1. \A a \in 0 .. N - 1 : a # 0 => a - 1 \in 0 .. N - 1
    OBVIOUS
  <2>2. QED
    BY <2>1 DEF Counts
<1>2. h \in Counts(N)
  BY <1>1 DEF Counts
<1>3. h[0] = 0
  OBVIOUS
<1>4. ASSUME NEW k \in 0 .. N - 1
      PROVE  Since(h, k + 1) = Since(g, k)
  <2>1. ASSUME NEW a \in 0 .. k - 1
        PROVE  g[a] \in Int /\ h[a + 1] = g[a]
    <3>1. a \in 0 .. N - 1 /\ a + 1 \in 0 .. N - 1 /\ a + 1 # 0 /\ (a + 1) - 1 = a
      OBVIOUS
    <3>2. QED
      BY <3>1 DEF Counts
  <2>2. SumOver(h, 0 .. k) = SumOver(g, 0 .. k - 1)
    <3>. HIDE DEF Counts
    <3>1. k \in Nat
      OBVIOUS
    <3>2. QED
      BY <1>3, <2>1, <3>1, SumShifted
  <2>3. (k + 1) - 1 = k
    OBVIOUS
  <2>4. QED
    BY <2>2, <2>3 DEF Since
<1>5. QED
  BY <1>2, <1>4

-----------------------------------------------------------------------------
(* Products and rounded quotients of naturals.                               *)
LEMMA ProductType == \A m, n \in Nat : m * n \in Nat
OBVIOUS

LEMMA ProductMonotone ==
  ASSUME NEW d \in Nat, NEW m \in Int, NEW n \in Int, m <= n
  PROVE  m * d <= n * d
<1>1. PICK x \in Nat : n = m + x
  <2>1. n - m \in Nat /\ n = m + (n - m)
    OBVIOUS
  <2>2. QED
    BY <2>1
<1>2. n * d = m * d + x * d /\ x * d \in Nat /\ m * d \in Int
  BY <1>1
<1>3. QED
  BY <1>2

(* The first three windows.                                                  *)
LEMMA DivModThrice ==
  ASSUME NEW n \in Nat, n > 0, NEW x \in Nat, x < 3 * n
  PROVE  /\ x < n => x \div n = 0 /\ x % n = x
         /\ n <= x /\ x < 2 * n => x \div n = 1 /\ x % n = x - n
         /\ 2 * n <= x => x \div n = 2 /\ x % n = x - 2 * n
<1>. DEFINE q == x \div n
            r == x % n
<1>1. q \in Nat /\ x = q * n + r /\ r \in 0 .. n - 1
  OBVIOUS
<1>. HIDE DEF q, r
<1>2. 0 * n = 0 /\ 1 * n = n /\ 2 * n = n + n /\ 3 * n = n + n + n
  OBVIOUS
<1>3. q * n \in Nat
  BY <1>1
<1>4. CASE q = 0
  BY <1>1, <1>2, <1>4 DEF q, r
<1>5. CASE q = 1
  BY <1>1, <1>2, <1>5 DEF q, r
<1>6. CASE q = 2
  BY <1>1, <1>2, <1>6 DEF q, r
<1>7. CASE q >= 3
  <2>1. 3 * n <= q * n
    BY <1>1, <1>7, ProductMonotone
  <2>2. QED
    BY <1>1, <1>2, <1>3, <2>1
<1>8. QED
  BY <1>1, <1>4, <1>5, <1>6, <1>7

-----------------------------------------------------------------------------
(* A set of numbers up to a bound has a greatest.                            *)
LEMMA GreatestNatural ==
  ASSUME NEW n \in Nat, NEW D \in SUBSET (1 .. n), D # {}
  PROVE  Max(D) \in D /\ \A i \in D : Max(D) >= i
<1>. DEFINE E == {n - i : i \in D}
<1>1. E \in SUBSET Nat /\ E # {}
  <2>1. \A i \in D : n - i \in Nat
    OBVIOUS
  <2>2. QED
    BY <2>1
<1>2. PICK e \in E : \A k \in E : e <= k
  <2>. HIDE DEF E
  <2>. QED
    BY <1>1, LeastNatural
<1>3. PICK d \in D : e = n - d
  BY <1>2
<1>4. \A i \in D : d >= i
  <2>1. TAKE i \in D
  <2>2. n - i \in E /\ i \in Nat /\ d \in Nat
    OBVIOUS
  <2>3. n - d <= n - i
    BY <1>2, <1>3, <2>2
  <2>4. QED
    BY <2>2, <2>3
<1>5. \E x \in D : \A i \in D : x >= i
  BY <1>4
<1>6. QED
  BY <1>5, Zenon DEF Max

(* The function that computes Kept.                                          *)
KeptStep(s, T, h, D) ==
  IF D = {} THEN <<>>
  ELSE IF s[Max(D)] \in T THEN Append(h[D \ {Max(D)}], s[Max(D)])
  ELSE h[D \ {Max(D)}]

KeptFcn(s, T, S) == CHOOSE h : h = [D \in SUBSET S |-> KeptStep(s, T, h, D)]

LEMMA KeptAsFcn == \A s, T : Kept(s, T) = KeptFcn(s, T, DOMAIN s)[DOMAIN s]
BY DEF Kept, KeptFcn, KeptStep, FoldLeft, MapThenFoldSet

LEMMA KeptFcnExists ==
  ASSUME NEW s, NEW T, NEW n \in Nat
  PROVE  \A D \in SUBSET (1 .. n) :
           KeptFcn(s, T, 1 .. n)[D] = KeptStep(s, T, KeptFcn(s, T, 1 .. n), D)
<1>. DEFINE Level(m) == SUBSET (1 .. m)
            Good == {m \in Nat :
                       \E h : h = [D \in Level(m) |-> KeptStep(s, T, h, D)]}
<1>1. 0 \in Good
  <2>1. \A D \in Level(0) : D = {}
    OBVIOUS
  <2>2. \A h : \A D \in Level(0) : KeptStep(s, T, h, D) = <<>>
    BY <2>1 DEF KeptStep
  <2>3. [D \in Level(0) |-> <<>>]
          = [D \in Level(0) |-> KeptStep(s, T, [r \in Level(0) |-> <<>>], D)]
    BY <2>2
  <2>4. QED
    BY <2>3
<1>2. ASSUME NEW m \in Nat, m \in Good
      PROVE  m + 1 \in Good
  <2>1. PICK h : h = [D \in Level(m) |-> KeptStep(s, T, h, D)]
    BY <1>2
  <2>. DEFINE k == [D \in Level(m + 1) |-> KeptStep(s, T, h, D)]
              l == [D \in Level(m + 1) |-> KeptStep(s, T, k, D)]
  <2>2. \A D \in Level(m) : D \in Level(m + 1) /\ k[D] = h[D]
    <3>1. \A D \in Level(m) : D \in Level(m + 1)
      OBVIOUS
    <3>2. \A D \in Level(m) : h[D] = KeptStep(s, T, h, D)
      BY <2>1
    <3>. HIDE DEF Level
    <3>3. QED
      BY <3>1, <3>2
  <2>3. ASSUME NEW D \in Level(m + 1), D # {}
        PROVE  D \ {Max(D)} \in Level(m)
    <3>1. m + 1 \in Nat /\ D \in SUBSET (1 .. m + 1)
      BY <2>3
    <3>2. Max(D) \in D /\ \A i \in D : Max(D) >= i
      BY <2>3, <3>1, GreatestNatural
    <3>3. \A i \in D : i \in 1 .. m + 1 /\ Max(D) >= i /\ Max(D) \in 1 .. m + 1
      BY <3>1, <3>2
    <3>4. \A i \in D \ {Max(D)} : i \in 1 .. m
      BY <3>2, <3>3
    <3>5. QED
      BY <3>4
  <2>. HIDE DEF Level
  <2>4. \A D \in Level(m + 1) : KeptStep(s, T, k, D) = KeptStep(s, T, h, D)
    <3>. HIDE DEF k
    <3>. QED
      BY <2>2, <2>3 DEF KeptStep
  <2>5. k = [D \in Level(m + 1) |-> KeptStep(s, T, k, D)]
    BY <2>4
  <2>6. \E f : f = [D \in Level(m + 1) |-> KeptStep(s, T, f, D)]
    <3>. HIDE DEF k
    <3>. QED
      BY <2>5
  <2>7. m + 1 \in Nat
    OBVIOUS
  <2>8. QED
    BY <2>6, <2>7, Zenon
<1>3. \A m \in Nat : m \in Good
  <2>. HIDE DEF Good
  <2>. QED
    BY <1>1, <1>2, InductionOnNat
<1>4. \E h : h = [D \in SUBSET (1 .. n) |-> KeptStep(s, T, h, D)]
  BY <1>3
<1>5. KeptFcn(s, T, 1 .. n)
        = [D \in SUBSET (1 .. n) |-> KeptStep(s, T, KeptFcn(s, T, 1 .. n), D)]
  BY <1>4 DEF KeptFcn
<1>6. QED
  BY <1>5

(* What is kept of the first m elements.                                     *)
KeptOf(s, T, m) == KeptFcn(s, T, 1 .. m)[1 .. m]

LEMMA KeptGrows ==
  ASSUME NEW s, NEW T, NEW m \in Nat
  PROVE  /\ KeptOf(s, T, 0) = <<>>
         /\ s[m + 1] \in T
              => KeptOf(s, T, m + 1) = Append(KeptOf(s, T, m), s[m + 1])
         /\ s[m + 1] \notin T => KeptOf(s, T, m + 1) = KeptOf(s, T, m)
<1>1. KeptOf(s, T, 0) = <<>>
  <2>1. 1 .. 0 = {} /\ 0 \in Nat
    OBVIOUS
  <2>2. KeptFcn(s, T, 1 .. 0)[1 .. 0]
          = KeptStep(s, T, KeptFcn(s, T, 1 .. 0), 1 .. 0)
    BY <2>1, KeptFcnExists
  <2>3. QED
    BY <2>1, <2>2 DEF KeptOf, KeptStep
<1>2. KeptOf(s, T, m + 1) = IF s[m + 1] \in T THEN Append(KeptOf(s, T, m), s[m + 1])
                            ELSE KeptOf(s, T, m)
  <2>. DEFINE f == KeptFcn(s, T, 1 .. m + 1)
              g == KeptFcn(s, T, 1 .. m)
              Good == {k \in Nat : k <= m => \A D \in SUBSET (1 .. k) : f[D] = g[D]}
  <2>1. /\ \A D \in SUBSET (1 .. m + 1) : f[D] = KeptStep(s, T, f, D)
        /\ \A D \in SUBSET (1 .. m) : g[D] = KeptStep(s, T, g, D)
    <3>1. m + 1 \in Nat
      OBVIOUS
    <3>2. QED
      BY <3>1, KeptFcnExists
  <2>2. \A k \in 0 .. m : \A D \in SUBSET (1 .. k) :
          D \in SUBSET (1 .. m + 1) /\ D \in SUBSET (1 .. m)
    OBVIOUS
  <2>. HIDE DEF f, g
  <2>3. 0 \in Good
    <3>1. \A D \in SUBSET (1 .. 0) : D = {}
      OBVIOUS
    <3>2. f[{}] = g[{}]
      BY <2>1 DEF KeptStep
    <3>3. QED
      BY <3>1, <3>2
  <2>4. ASSUME NEW k \in Nat, k \in Good
        PROVE  k + 1 \in Good
    <3>1. SUFFICES ASSUME k + 1 <= m, NEW D \in SUBSET (1 .. k + 1)
                   PROVE  f[D] = g[D]
      BY <2>4
    <3>2. D \in SUBSET (1 .. m + 1) /\ D \in SUBSET (1 .. m)
      BY <2>4, <3>1
    <3>3. CASE D = {}
      BY <2>1, <3>2, <3>3 DEF KeptStep
    <3>4. CASE D # {}
      <4>1. Max(D) \in D /\ \A i \in D : Max(D) >= i
        BY <3>2, <3>4, GreatestNatural
      <4>2. D \ {Max(D)} \in SUBSET (1 .. k)
        <5>1. \A i \in D : i \in 1 .. k + 1 /\ Max(D) >= i /\ Max(D) \in 1 .. k + 1
          BY <2>4, <3>1, <4>1
        <5>2. \A i \in D \ {Max(D)} : i \in 1 .. k
          BY <2>4, <5>1
        <5>3. QED
          BY <5>2
      <4>3. k <= m
        BY <2>4, <3>1
      <4>4. f[D \ {Max(D)}] = g[D \ {Max(D)}]
        BY <2>4, <4>2, <4>3
      <4>5. QED
        BY <2>1, <3>2, <3>4, <4>4 DEF KeptStep
    <3>5. QED
      BY <3>3, <3>4
  <2>5. m \in Good
    <3>. HIDE DEF Good
    <3>. QED
      BY <2>3, <2>4, InductionOnNat
  <2>6. f[1 .. m] = g[1 .. m]
    BY <2>5
  <2>. DEFINE D == 1 .. m + 1
  <2>7. D # {} /\ D \in SUBSET (1 .. m + 1)
    OBVIOUS
  <2>8. Max(D) = m + 1
    <3>1. m + 1 \in Nat /\ m + 1 \in D
      OBVIOUS
    <3>2. Max(D) \in D /\ \A i \in D : Max(D) >= i
      BY <2>7, <3>1, GreatestNatural
    <3>3. QED
      BY <3>1, <3>2
  <2>9. D \ {m + 1} = 1 .. m
    OBVIOUS
  <2>10. f[D] = IF s[m + 1] \in T THEN Append(f[1 .. m], s[m + 1]) ELSE f[1 .. m]
    <3>. HIDE DEF D
    <3>. QED
      BY <2>1, <2>7, <2>8, <2>9 DEF KeptStep
  <2>11. QED
    BY <2>6, <2>10 DEF KeptOf, f, g
<1>3. QED
  BY <1>1, <1>2

(* p names the places in s of what is kept.                                  *)
KeptFrom(s, T, p) ==
  /\ p \in [1 .. Len(Kept(s, T)) -> 1 .. Len(s)]
  /\ \A j \in 1 .. Len(Kept(s, T)) : Kept(s, T)[j] = s[p[j]] /\ s[p[j]] \in T
  /\ \A j, k \in 1 .. Len(Kept(s, T)) : j < k => p[j] < p[k]
  /\ \A i \in 1 .. Len(s) :
       s[i] \in T => \E j \in 1 .. Len(Kept(s, T)) : p[j] = i

(* s.filter: some of the elements, all that are in T, in their order.        *)
LEMMA KeptProperties ==
  ASSUME NEW S, NEW s \in Seq(S), NEW T
  PROVE  /\ Kept(s, T) \in Seq(S)
         /\ Len(Kept(s, T)) <= Len(s)
         /\ Len(Kept(s, T)) = Len(s) => \A i \in 1 .. Len(s) : s[i] \in T
         /\ \E p : KeptFrom(s, T, p)
<1>. DEFINE K == [m \in Nat |-> KeptOf(s, T, m)]
            Selects(m, p) ==
              /\ p \in [1 .. Len(K[m]) -> 1 .. m]
              /\ \A j \in 1 .. Len(K[m]) : K[m][j] = s[p[j]] /\ s[p[j]] \in T
              /\ \A j, k \in 1 .. Len(K[m]) : j < k => p[j] < p[k]
              /\ \A i \in 1 .. m : s[i] \in T => \E j \in 1 .. Len(K[m]) : p[j] = i
            Good == {m \in Nat : m <= Len(s) =>
                       /\ K[m] \in Seq(S)
                       /\ Len(K[m]) <= m
                       /\ Len(K[m]) = m => \A i \in 1 .. m : s[i] \in T
                       /\ \E p : Selects(m, p)}
<1>1. 0 \in Good
  <2>1. K[0] = <<>> /\ Len(K[0]) = 0 /\ K[0] \in Seq(S)
    <3>1. KeptOf(s, T, 0) = <<>>
      BY KeptGrows
    <3>2. K[0] = <<>>
      BY <3>1
    <3>3. <<>> \in Seq(S) /\ Len(<<>>) = 0
      OBVIOUS
    <3>. HIDE DEF K
    <3>4. QED
      BY <3>2, <3>3
  <2>2. Selects(0, [i \in 1 .. 0 |-> 0])
    BY <2>1
  <2>3. \E p : Selects(0, p)
    <3>. HIDE DEF Selects
    <3>. QED
      BY <2>2
  <2>4. Len(K[0]) <= 0 /\ 0 \in Nat /\ \A i \in 1 .. 0 : s[i] \in T
    BY <2>1
  <2>5. QED
    <3>. HIDE DEF K, Selects
    <3>. QED
      BY <2>1, <2>3, <2>4, Zenon
<1>2. ASSUME NEW m \in Nat, m \in Good
      PROVE  m + 1 \in Good
  <2>1. SUFFICES ASSUME m + 1 <= Len(s)
                 PROVE  /\ K[m + 1] \in Seq(S)
                        /\ Len(K[m + 1]) <= m + 1
                        /\ Len(K[m + 1]) = m + 1 => \A i \in 1 .. m + 1 : s[i] \in T
                        /\ \E p : Selects(m + 1, p)
    <3>. HIDE DEF K, Selects
    <3>. QED
      OBVIOUS
  <2>2. /\ K[m] \in Seq(S)
        /\ Len(K[m]) <= m
        /\ Len(K[m]) = m => \A i \in 1 .. m : s[i] \in T
        /\ \E p : Selects(m, p)
    <3>. HIDE DEF K, Selects
    <3>. QED
      BY <1>2, <2>1
  <2>3. PICK p : Selects(m, p)
    BY <2>2
  <2>4. K[m + 1] = IF s[m + 1] \in T THEN Append(K[m], s[m + 1]) ELSE K[m]
    <3>1. m + 1 \in Nat
      OBVIOUS
    <3>2. QED
      BY <3>1, KeptGrows
  <2>5. m + 1 \in 1 .. Len(s) /\ s[m + 1] \in S
    BY <2>1
  <2>. HIDE DEF K
  <2>6. CASE s[m + 1] \notin T
    <3>1. K[m + 1] = K[m]
      BY <2>4, <2>6
    <3>2. Selects(m + 1, p)
      BY <2>3, <2>6, <3>1
    <3>. HIDE DEF Selects
    <3>3. QED
      BY <2>2, <3>1, <3>2
  <2>7. CASE s[m + 1] \in T
    <3>. DEFINE n == Len(K[m])
                q == [j \in 1 .. n + 1 |-> IF j = n + 1 THEN m + 1 ELSE p[j]]
    <3>1. /\ K[m + 1] \in Seq(S) /\ Len(K[m + 1]) = n + 1 /\ n \in Nat
          /\ \A j \in 1 .. n : K[m + 1][j] = K[m][j]
          /\ K[m + 1][n + 1] = s[m + 1]
      <4>1. K[m + 1] = Append(K[m], s[m + 1]) /\ s[m + 1] \in S
        BY <2>4, <2>5, <2>7
      <4>2. QED
        BY <2>2, <4>1, AppendProperties
    <3>2. Len(K[m + 1]) <= m + 1
      BY <2>2, <3>1
    <3>3. Len(K[m + 1]) = m + 1 => \A i \in 1 .. m + 1 : s[i] \in T
      BY <2>2, <2>7, <3>1
    <3>4. /\ p \in [1 .. n -> 1 .. m]
          /\ \A j \in 1 .. n : K[m][j] = s[p[j]] /\ s[p[j]] \in T
          /\ \A j, k \in 1 .. n : j < k => p[j] < p[k]
          /\ \A i \in 1 .. m : s[i] \in T => \E j \in 1 .. n : p[j] = i
      BY <2>3
    <3>. HIDE DEF n
    <3>5. /\ q \in [1 .. n + 1 -> 1 .. m + 1]
          /\ \A j \in 1 .. n : q[j] = p[j]
          /\ q[n + 1] = m + 1
      BY <3>1, <3>4
    <3>. HIDE DEF q
    <3>6. \A j \in 1 .. n + 1 : K[m + 1][j] = s[q[j]] /\ s[q[j]] \in T
      <4>1. \A j \in 1 .. n + 1 : j \in 1 .. n \/ j = n + 1
        BY <3>1
      <4>2. QED
        BY <2>7, <3>1, <3>4, <3>5, <4>1
    <3>7. ASSUME NEW j \in 1 .. n + 1, NEW k \in 1 .. n + 1, j < k
          PROVE  q[j] < q[k]
      <4>1. j \in 1 .. n
        BY <3>1, <3>7
      <4>2. CASE k \in 1 .. n
        BY <3>4, <3>5, <3>7, <4>1, <4>2
      <4>3. CASE k = n + 1
        BY <3>4, <3>5, <4>1, <4>3
      <4>4. QED
        BY <3>1, <4>2, <4>3
    <3>8. ASSUME NEW i \in 1 .. m + 1, s[i] \in T
          PROVE  \E j \in 1 .. n + 1 : q[j] = i
      <4>1. CASE i = m + 1
        BY <3>1, <3>5, <4>1
      <4>2. CASE i # m + 1
        <5>1. i \in 1 .. m
          BY <4>2
        <5>2. PICK j \in 1 .. n : p[j] = i
          BY <3>4, <3>8, <5>1
        <5>3. j \in 1 .. n + 1
          BY <3>1
        <5>4. QED
          BY <3>5, <5>2, <5>3
      <4>3. QED
        BY <4>1, <4>2
    <3>9. Selects(m + 1, q)
      BY <3>1, <3>5, <3>6, <3>7, <3>8
    <3>. HIDE DEF Selects
    <3>10. QED
      BY <3>1, <3>2, <3>3, <3>9
  <2>8. QED
    BY <2>6, <2>7
<1>3. Len(s) \in Good
  <2>. HIDE DEF Good
  <2>. QED
    BY <1>1, <1>2, InductionOnNat
<1>4. K[Len(s)] = Kept(s, T)
  BY KeptAsFcn DEF KeptOf
<1>5. /\ K[Len(s)] \in Seq(S)
      /\ Len(K[Len(s)]) <= Len(s)
      /\ Len(K[Len(s)]) = Len(s) => \A i \in 1 .. Len(s) : s[i] \in T
      /\ \E p : Selects(Len(s), p)
  <2>. HIDE DEF K, Selects
  <2>. QED
    BY <1>3
<1>6. PICK p : Selects(Len(s), p)
  BY <1>5
<1>7. KeptFrom(s, T, p)
  <2>. HIDE DEF K
  <2>. QED
    BY <1>4, <1>6 DEF KeptFrom
<1>8. QED
  <2>. HIDE DEF K, Selects
  <2>. QED
    BY <1>4, <1>5, <1>7

(* Filtering removes from the elements of a sequence, and adds no repetition.*)
LEMMA KeptRange ==
  ASSUME NEW S, NEW s \in Seq(S), NEW T
  PROVE  /\ ToSet(Kept(s, T)) = ToSet(s) \cap T
         /\ IsInjective(s) => IsInjective(Kept(s, T))
<1>1. PICK p : KeptFrom(s, T, p)
  BY KeptProperties
<1>. DEFINE k == Kept(s, T)
<1>2. /\ k \in Seq(S) /\ DOMAIN k = 1 .. Len(k) /\ DOMAIN s = 1 .. Len(s)
      /\ Len(k) \in Nat /\ Len(s) \in Nat
  BY KeptProperties
<1>3. /\ p \in [1 .. Len(k) -> 1 .. Len(s)]
      /\ \A j \in 1 .. Len(k) : k[j] = s[p[j]] /\ s[p[j]] \in T
      /\ \A j, l \in 1 .. Len(k) : j < l => p[j] < p[l]
      /\ \A i \in 1 .. Len(s) : s[i] \in T => \E j \in 1 .. Len(k) : p[j] = i
  BY <1>1 DEF KeptFrom
<1>. HIDE DEF k
<1>4. ToSet(k) = ToSet(s) \cap T
  <2>1. \A j \in 1 .. Len(k) : p[j] \in 1 .. Len(s) /\ k[j] = s[p[j]] /\ k[j] \in T
    BY <1>3
  <2>2. \A i \in 1 .. Len(s) : s[i] \in T => \E j \in 1 .. Len(k) : k[j] = s[i]
    <3>1. TAKE i \in 1 .. Len(s)
    <3>2. HAVE s[i] \in T
    <3>3. PICK j \in 1 .. Len(k) : p[j] = i
      BY <1>3, <3>2
    <3>4. QED
      BY <2>1, <3>3
  <2>3. /\ ToSet(k) = {k[j] : j \in 1 .. Len(k)}
        /\ ToSet(s) = {s[i] : i \in 1 .. Len(s)}
    BY <1>2 DEF ToSet
  <2>4. \A x : x \in ToSet(k) => x \in ToSet(s) /\ x \in T
    BY <2>1, <2>3
  <2>5. \A x : x \in ToSet(s) /\ x \in T => x \in ToSet(k)
    BY <2>2, <2>3
  <2>6. QED
    BY <2>4, <2>5
<1>5. ASSUME IsInjective(s)
      PROVE  IsInjective(k)
  <2>1. \A i, j \in 1 .. Len(s) : s[i] = s[j] => i = j
    BY <1>2, <1>5 DEF IsInjective
  <2>2. SUFFICES ASSUME NEW j \in 1 .. Len(k), NEW l \in 1 .. Len(k), k[j] = k[l]
                 PROVE  j = l
    BY <1>2 DEF IsInjective
  <2>3. p[j] = p[l]
    <3>1. /\ p[j] \in 1 .. Len(s) /\ k[j] = s[p[j]]
          /\ p[l] \in 1 .. Len(s) /\ k[l] = s[p[l]]
      BY <1>3, <2>2
    <3>2. QED
      BY <2>1, <2>2, <3>1
  <2>4. \A i \in 1 .. Len(k) : p[i] \in Int /\ i \in Int
    BY <1>2, <1>3
  <2>5. ~(j < l) /\ ~(l < j)
    BY <1>3, <2>3, <2>4
  <2>6. QED
    BY <2>4, <2>5
<1>6. QED
  BY <1>4, <1>5 DEF k
(* What filtering keeps of a set of elements.                                *)
PlacesOf(s, U) == {i \in DOMAIN s : s[i] \in U}

LEMMA KeptCount ==
  ASSUME NEW S, NEW s \in Seq(S), NEW T, NEW U, U \subseteq T
  PROVE  Cardinality(PlacesOf(Kept(s, T), U)) = Cardinality(PlacesOf(s, U))
<1>1. PICK p : KeptFrom(s, T, p)
  BY KeptProperties
<1>. DEFINE k == Kept(s, T)
<1>2. /\ DOMAIN k = 1 .. Len(k) /\ DOMAIN s = 1 .. Len(s)
      /\ Len(k) \in Nat /\ Len(s) \in Nat
  BY KeptProperties
<1>3. /\ p \in [1 .. Len(k) -> 1 .. Len(s)]
      /\ \A j \in 1 .. Len(k) : k[j] = s[p[j]] /\ s[p[j]] \in T
      /\ \A j, l \in 1 .. Len(k) : j < l => p[j] < p[l]
      /\ \A i \in 1 .. Len(s) : s[i] \in T => \E j \in 1 .. Len(k) : p[j] = i
  BY <1>1 DEF KeptFrom
<1>. HIDE DEF k
<1>. DEFINE A == PlacesOf(k, U)
            B == PlacesOf(s, U)
            f == [j \in A |-> p[j]]
<1>4. A = {j \in 1 .. Len(k) : k[j] \in U} /\ B = {i \in 1 .. Len(s) : s[i] \in U}
  BY <1>2 DEF PlacesOf
<1>5. \A j \in A : f[j] = p[j] /\ p[j] \in B
  BY <1>3, <1>4
<1>6. \A j, l \in A : f[j] = f[l] => j = l
  <2>1. TAKE j, l \in A
  <2>2. HAVE f[j] = f[l]
  <2>3. j \in 1 .. Len(k) /\ l \in 1 .. Len(k) /\ p[j] = p[l] /\ p[j] \in 1 .. Len(s)
    BY <1>3, <1>4, <1>5, <2>2
  <2>4. ~(j < l) /\ ~(l < j)
    BY <1>3, <2>3
  <2>5. QED
    BY <1>2, <2>3, <2>4
<1>7. \A i \in B : \E j \in A : f[j] = i
  <2>1. TAKE i \in B
  <2>2. i \in 1 .. Len(s) /\ s[i] \in U /\ s[i] \in T
    BY <1>4
  <2>3. PICK j \in 1 .. Len(k) : p[j] = i
    BY <1>3, <2>2
  <2>4. j \in A
    BY <1>3, <1>4, <2>2, <2>3
  <2>5. QED
    BY <1>5, <2>3, <2>4
<1>8. f \in Bijection(A, B)
  <2>1. f \in [A -> B]
    BY <1>5
  <2>. HIDE DEF f, A, B
  <2>2. f \in Injection(A, B)
    BY <1>6, <2>1 DEF Injection, IsInjective
  <2>3. f \in Surjection(A, B)
    BY <1>7, <2>1 DEF Surjection
  <2>4. QED
    BY <2>2, <2>3 DEF Bijection
<1>9. IsFiniteSet(A)
  <2>1. IsFiniteSet(1 .. Len(k))
    BY <1>2, FS_Interval
  <2>2. A \subseteq 1 .. Len(k)
    BY <1>4
  <2>3. QED
    BY <2>1, <2>2, FS_Subset
<1>10. Cardinality(A) = Cardinality(B)
  <2>. HIDE DEF A, B, f
  <2>1. QED
    BY <1>8, <1>9, FS_Bijection DEF ExistsBijection
<1>11. QED
  BY <1>10 DEF k

LEMMA PlacesFinite ==
  ASSUME NEW S, NEW s \in Seq(S), NEW U
  PROVE  /\ IsFiniteSet(PlacesOf(s, U)) /\ Cardinality(PlacesOf(s, U)) \in Nat
         /\ Cardinality(PlacesOf(s, U)) <= Len(s)
         /\ (\A i \in 1 .. Len(s) : s[i] \in U) => Cardinality(PlacesOf(s, U)) = Len(s)
<1>1. Len(s) \in Nat /\ DOMAIN s = 1 .. Len(s)
  OBVIOUS
<1>2. IsFiniteSet(1 .. Len(s)) /\ Cardinality(1 .. Len(s)) = Len(s)
  <2>. DEFINE n == Len(s)
  <2>1. n \in Nat
    BY <1>1
  <2>. HIDE DEF n
  <2>2. IsFiniteSet(1 .. n) /\ Cardinality(1 .. n) = n
    BY <2>1, FS_Interval
  <2>3. QED
    BY <2>2 DEF n
<1>3. PlacesOf(s, U) \subseteq 1 .. Len(s)
  BY <1>1 DEF PlacesOf
<1>4. (\A i \in 1 .. Len(s) : s[i] \in U) => PlacesOf(s, U) = 1 .. Len(s)
  BY <1>1 DEF PlacesOf
<1>5. IsFiniteSet(PlacesOf(s, U)) /\ Cardinality(PlacesOf(s, U)) <= Cardinality(1 .. Len(s))
  BY <1>2, <1>3, FS_Subset
<1>6. QED
  BY <1>2, <1>4, <1>5, FS_CardinalityType

LEMMA PlacesAppend ==
  ASSUME NEW S, NEW s \in Seq(S), NEW x \in S, NEW U, x \in U
  PROVE  Cardinality(PlacesOf(Append(s, x), U)) = Cardinality(PlacesOf(s, U)) + 1
<1>. DEFINE t == Append(s, x)
            n == Len(s) + 1
<1>1. /\ DOMAIN s = 1 .. Len(s) /\ DOMAIN t = 1 .. n /\ Len(s) \in Nat
      /\ \A i \in 1 .. Len(s) : t[i] = s[i]
      /\ t[n] = x
  BY AppendProperties
<1>. HIDE DEF t
<1>2. PlacesOf(t, U) = PlacesOf(s, U) \cup {n} /\ n \notin PlacesOf(s, U)
  BY <1>1 DEF PlacesOf
<1>3. IsFiniteSet(PlacesOf(s, U))
  BY PlacesFinite
<1>4. QED
  BY <1>2, <1>3, FS_AddElement DEF t

-----------------------------------------------------------------------------
(* x comes before y in s.                                                    *)
Precedes(s, x, y) == \E i, j \in DOMAIN s : s[i] = x /\ s[j] = y /\ i < j

LEMMA KeptOrder ==
  ASSUME NEW S, NEW s \in Seq(S), NEW T, NEW x, NEW y
  PROVE  Precedes(Kept(s, T), x, y) <=> x \in T /\ y \in T /\ Precedes(s, x, y)
<1>1. PICK p : KeptFrom(s, T, p)
  BY KeptProperties
<1>. DEFINE k == Kept(s, T)
<1>2. /\ DOMAIN k = 1 .. Len(k) /\ DOMAIN s = 1 .. Len(s)
      /\ Len(k) \in Nat /\ Len(s) \in Nat
  BY KeptProperties
<1>3. /\ p \in [1 .. Len(k) -> 1 .. Len(s)]
      /\ \A j \in 1 .. Len(k) : k[j] = s[p[j]] /\ s[p[j]] \in T
      /\ \A j, l \in 1 .. Len(k) : j < l => p[j] < p[l]
      /\ \A i \in 1 .. Len(s) : s[i] \in T => \E j \in 1 .. Len(k) : p[j] = i
  BY <1>1 DEF KeptFrom
<1>. HIDE DEF k
<1>4. ASSUME Precedes(k, x, y)
      PROVE  x \in T /\ y \in T /\ Precedes(s, x, y)
  <2>1. PICK i \in 1 .. Len(k), j \in 1 .. Len(k) : k[i] = x /\ k[j] = y /\ i < j
    BY <1>2, <1>4 DEF Precedes
  <2>2. p[i] \in 1 .. Len(s) /\ p[j] \in 1 .. Len(s) /\ p[i] < p[j]
    BY <1>3, <2>1
  <2>3. s[p[i]] = x /\ s[p[j]] = y /\ x \in T /\ y \in T
    BY <1>3, <2>1
  <2>4. QED
    BY <1>2, <2>2, <2>3 DEF Precedes
<1>5. ASSUME x \in T, y \in T, Precedes(s, x, y)
      PROVE  Precedes(k, x, y)
  <2>1. PICK i \in 1 .. Len(s), j \in 1 .. Len(s) : s[i] = x /\ s[j] = y /\ i < j
    BY <1>2, <1>5 DEF Precedes
  <2>2. PICK a \in 1 .. Len(k) : p[a] = i
    BY <1>3, <1>5, <2>1
  <2>3. PICK b \in 1 .. Len(k) : p[b] = j
    BY <1>3, <1>5, <2>1
  <2>4. a < b
    <3>1. a # b /\ ~(b < a)
      BY <1>3, <2>1, <2>2, <2>3
    <3>2. QED
      BY <1>2, <3>1
  <2>5. k[a] = x /\ k[b] = y
    BY <1>3, <2>1, <2>2, <2>3
  <2>6. QED
    BY <1>2, <2>4, <2>5 DEF Precedes
<1>6. QED
  BY <1>4, <1>5 DEF k

LEMMA AppendOrder ==
  ASSUME NEW S, NEW s \in Seq(S), NEW z \in S, NEW x, NEW y
  PROVE  Precedes(Append(s, z), x, y) <=> Precedes(s, x, y) \/ (x \in ToSet(s) /\ y = z)
<1>. DEFINE a == Append(s, z)
<1>1. /\ DOMAIN a = 1 .. Len(s) + 1 /\ DOMAIN s = 1 .. Len(s) /\ Len(s) \in Nat
      /\ \A j \in 1 .. Len(s) : a[j] = s[j]
      /\ a[Len(s) + 1] = z
  BY AppendProperties
<1>. HIDE DEF a
<1>2. ASSUME Precedes(a, x, y)
      PROVE  Precedes(s, x, y) \/ (x \in ToSet(s) /\ y = z)
  <2>1. PICK i \in DOMAIN a, j \in DOMAIN a : a[i] = x /\ a[j] = y /\ i < j
    BY <1>2 DEF Precedes
  <2>2. i \in DOMAIN s /\ s[i] = x
    BY <1>1, <2>1
  <2>3. CASE j \in DOMAIN s
    BY <1>1, <2>1, <2>2, <2>3 DEF Precedes
  <2>4. CASE j = Len(s) + 1
    BY <1>1, <2>1, <2>2, <2>4 DEF ToSet
  <2>5. QED
    BY <1>1, <2>3, <2>4
<1>3. ASSUME Precedes(s, x, y)
      PROVE  Precedes(a, x, y)
  BY <1>1, <1>3 DEF Precedes
<1>4. ASSUME x \in ToSet(s), y = z
      PROVE  Precedes(a, x, y)
  <2>1. PICK i \in DOMAIN s : s[i] = x
    BY <1>4 DEF ToSet
  <2>2. i \in DOMAIN a /\ Len(s) + 1 \in DOMAIN a /\ i < Len(s) + 1 /\ a[i] = x
    BY <1>1, <2>1
  <2>3. QED
    BY <1>1, <1>4, <2>2 DEF Precedes
<1>5. QED
  BY <1>2, <1>3, <1>4 DEF a

(* The first of a sequence comes before the others.                          *)
LEMMA HeadFirst ==
  ASSUME NEW S, NEW s \in Seq(S), s # <<>>
  PROVE  /\ Head(s) \in ToSet(s) /\ Head(s) \in S
         /\ \A x \in ToSet(s) \ {Head(s)} : Precedes(s, Head(s), x)
<1>1. /\ Len(s) \in Nat /\ Len(s) > 0 /\ DOMAIN s = 1 .. Len(s) /\ Head(s) = s[1]
  BY EmptySeq
<1>2. 1 \in DOMAIN s
  BY <1>1
<1>3. ASSUME NEW x \in ToSet(s) \ {Head(s)}
      PROVE  Precedes(s, Head(s), x)
  <2>1. PICK i \in DOMAIN s : s[i] = x
    BY <1>3 DEF ToSet
  <2>2. 1 < i
    BY <1>1, <1>3, <2>1
  <2>3. QED
    BY <1>1, <1>2, <2>1, <2>2 DEF Precedes
<1>4. QED
  BY <1>1, <1>2, <1>3 DEF ToSet

(* A sequence without repetitions has as many elements as it is long.        *)
LEMMA InjectiveLength ==
  ASSUME NEW S, NEW s \in Seq(S), IsInjective(s)
  PROVE  IsFiniteSet(ToSet(s)) /\ Cardinality(ToSet(s)) = Len(s)
<1>1. Len(s) \in Nat /\ DOMAIN s = 1 .. Len(s) /\ s \in [1 .. Len(s) -> S]
  BY LenProperties
<1>2. /\ s \in [1 .. Len(s) -> ToSet(s)]
      /\ \A t \in ToSet(s) : \E i \in 1 .. Len(s) : s[i] = t
      /\ \A i, j \in 1 .. Len(s) : s[i] = s[j] => i = j
  BY <1>1 DEF ToSet, IsInjective
<1>3. s \in Bijection(1 .. Len(s), ToSet(s))
  BY <1>2 DEF Bijection, Injection, Surjection
<1>4. IsFiniteSet(1 .. Len(s)) /\ Cardinality(1 .. Len(s)) = Len(s)
  BY <1>1, FS_Interval
<1>5. QED
  BY <1>3, <1>4, FS_Bijection DEF ExistsBijection

(* The elements of a sequence and another one after it.                     *)
LEMMA ConcatRange ==
  ASSUME NEW S, NEW s \in Seq(S), NEW t \in Seq(S)
  PROVE  /\ s \o t \in Seq(S) /\ ToSet(s \o t) = ToSet(s) \cup ToSet(t)
         /\ Len(s \o t) = Len(s) + Len(t)
         /\ \A i \in 1 .. Len(s) : (s \o t)[i] = s[i]
         /\ \A i \in 1 .. Len(t) : (s \o t)[Len(s) + i] = t[i]
<1>. DEFINE c == s \o t
<1>1. /\ c \in Seq(S) /\ Len(c) = Len(s) + Len(t) /\ Len(s) \in Nat /\ Len(t) \in Nat
      /\ DOMAIN c = 1 .. Len(c) /\ DOMAIN s = 1 .. Len(s) /\ DOMAIN t = 1 .. Len(t)
      /\ \A i \in 1 .. Len(s) : c[i] = s[i]
      /\ \A i \in 1 .. Len(t) : c[Len(s) + i] = t[i]
  OBVIOUS
<1>. HIDE DEF c
<1>2. \A i \in DOMAIN c : \/ i \in DOMAIN s
                          \/ i - Len(s) \in DOMAIN t /\ Len(s) + (i - Len(s)) = i
  BY <1>1
<1>3. \A i \in DOMAIN t : Len(s) + i \in DOMAIN c
  BY <1>1
<1>4. ASSUME NEW x PROVE x \in ToSet(c) <=> x \in ToSet(s) \/ x \in ToSet(t)
  <2>1. ASSUME x \in ToSet(c) PROVE x \in ToSet(s) \/ x \in ToSet(t)
    <3>1. PICK i \in DOMAIN c : c[i] = x
      BY <2>1 DEF ToSet
    <3>2. CASE i \in DOMAIN s
      BY <1>1, <3>1, <3>2 DEF ToSet
    <3>3. CASE i \notin DOMAIN s
      <4>1. PICK j \in DOMAIN t : Len(s) + j = i
        BY <1>2, <3>3
      <4>2. QED
        BY <1>1, <3>1, <4>1 DEF ToSet
    <3>4. QED
      BY <3>2, <3>3
  <2>2. ASSUME x \in ToSet(s) PROVE x \in ToSet(c)
    <3>1. PICK i \in DOMAIN s : s[i] = x
      BY <2>2 DEF ToSet
    <3>2. i \in DOMAIN c /\ c[i] = x
      BY <1>1, <3>1
    <3>3. QED
      BY <3>2 DEF ToSet
  <2>3. ASSUME x \in ToSet(t) PROVE x \in ToSet(c)
    <3>1. PICK i \in DOMAIN t : t[i] = x
      BY <2>3 DEF ToSet
    <3>2. Len(s) + i \in DOMAIN c /\ c[Len(s) + i] = x
      BY <1>1, <1>3, <3>1
    <3>3. QED
      BY <3>2 DEF ToSet
  <2>4. QED
    BY <2>1, <2>2, <2>3
<1>5. QED
  BY <1>1, <1>4 DEF c
-----------------------------------------------------------------------------
(* A strict total order of the elements of S.                                *)
Orders(R, S) ==
  /\ \A x \in S : <<x, x>> \notin R
  /\ \A x, y, z \in S : <<x, y>> \in R /\ <<y, z>> \in R => <<x, z>> \in R
  /\ \A x, y \in S : x = y \/ <<x, y>> \in R \/ <<y, x>> \in R

Below(S, R, x) == {y \in S : <<y, x>> \in R}

LEMMA RankRises ==
  ASSUME NEW S, IsFiniteSet(S), NEW R, Orders(R, S)
  PROVE  /\ \A x \in S : Cardinality(Below(S, R, x)) \in 0 .. Cardinality(S) - 1
         /\ \A x, z \in S : <<x, z>> \in R =>
              Cardinality(Below(S, R, x)) < Cardinality(Below(S, R, z))
<1>1. ASSUME NEW x \in S
      PROVE  Cardinality(Below(S, R, x)) \in 0 .. Cardinality(S) - 1
  <2>1. Below(S, R, x) \in SUBSET S /\ Below(S, R, x) # S
    BY <1>1 DEF Below, Orders
  <2>. HIDE DEF Below
  <2>2. /\ Cardinality(Below(S, R, x)) \in Nat /\ Cardinality(S) \in Nat
        /\ Cardinality(Below(S, R, x)) <= Cardinality(S)
        /\ Cardinality(Below(S, R, x)) # Cardinality(S)
    BY <2>1, FS_Subset, FS_CardinalityType
  <2>3. QED
    BY <2>2
<1>2. ASSUME NEW x \in S, NEW z \in S, <<x, z>> \in R
      PROVE  Cardinality(Below(S, R, x)) < Cardinality(Below(S, R, z))
  <2>1. /\ Below(S, R, z) \in SUBSET S /\ Below(S, R, x) \in SUBSET Below(S, R, z)
        /\ Below(S, R, x) # Below(S, R, z)
    BY <1>2 DEF Below, Orders
  <2>2. IsFiniteSet(Below(S, R, z)) /\ IsFiniteSet(Below(S, R, x))
    BY <2>1, FS_Subset
  <2>3. /\ Cardinality(Below(S, R, x)) \in Nat /\ Cardinality(Below(S, R, z)) \in Nat
        /\ Cardinality(Below(S, R, x)) <= Cardinality(Below(S, R, z))
        /\ Cardinality(Below(S, R, x)) # Cardinality(Below(S, R, z))
    BY <2>1, <2>2, FS_Subset, FS_CardinalityType
  <2>4. QED
    BY <2>3
<1>3. QED
  BY <1>1, <1>2

(* s has the elements of S, in the order R.                                  *)
PutInOrder(s, S, R) ==
  /\ s \in Seq(S) /\ ToSet(s) = S /\ Len(s) = Cardinality(S)
  /\ \A i \in DOMAIN s : Cardinality(Below(S, R, s[i])) = i - 1
  /\ \A i, j \in DOMAIN s : i < j <=> <<s[i], s[j]>> \in R

LEMMA RankedBy ==
  ASSUME NEW S, IsFiniteSet(S), NEW R, Orders(R, S),
         NEW s, s = [i \in 1 .. Cardinality(S) |-> s[i]],
         \A i \in 1 .. Cardinality(S) :
           (\E x \in S : Cardinality(Below(S, R, x)) = i - 1) =>
             s[i] \in S /\ Cardinality(Below(S, R, s[i])) = i - 1
  PROVE  PutInOrder(s, S, R)
<1>. DEFINE n == Cardinality(S)
            rank == [x \in S |-> Cardinality(Below(S, R, x))]
<1>1. n \in Nat
  BY FS_CardinalityType
<1>2. /\ \A x \in S : rank[x] \in 0 .. n - 1
      /\ \A x, z \in S : <<x, z>> \in R => rank[x] < rank[z]
  BY RankRises
<1>3. \A x, z \in S : rank[x] = rank[z] => x = z
  <2>1. \A x, z \in S : x = z \/ <<x, z>> \in R \/ <<z, x>> \in R
    BY DEF Orders
  <2>2. \A x \in S : rank[x] \in Int
    BY <1>1, <1>2
  <2>. HIDE DEF rank
  <2>3. TAKE x, z \in S
  <2>4. HAVE rank[x] = rank[z]
  <2>5. rank[x] \in Int /\ ~(rank[x] < rank[z]) /\ ~(rank[z] < rank[x])
    BY <2>2, <2>4
  <2>6. QED
    BY <1>2, <2>1, <2>5
<1>4. rank \in Surjection(S, 0 .. n - 1)
  <2>1. rank \in Injection(S, 0 .. n - 1)
    BY <1>2, <1>3 DEF Injection, IsInjective
  <2>2. IsFiniteSet(0 .. n - 1) /\ Cardinality(0 .. n - 1) = n
    <3>. HIDE DEF n
    <3>1. QED
      BY <1>1, FS_Interval
  <2>. HIDE DEF rank
  <2>3. QED
    BY <2>1, <2>2, FS_Injection
<1>5. \A k \in 0 .. n - 1 : \E x \in S : rank[x] = k
  BY <1>4 DEF Surjection
<1>6. /\ s = [i \in 1 .. n |-> s[i]]
      /\ \A x \in S : rank[x] = Cardinality(Below(S, R, x))
      /\ \A i \in 1 .. n : (\E x \in S : Cardinality(Below(S, R, x)) = i - 1) =>
           s[i] \in S /\ Cardinality(Below(S, R, s[i])) = i - 1
  OBVIOUS
<1>. HIDE DEF rank, n
<1>7. ASSUME NEW i \in 1 .. n
      PROVE  s[i] \in S /\ rank[s[i]] = i - 1
  <2>1. i - 1 \in 0 .. n - 1
    BY <1>1
  <2>2. \E x \in S : rank[x] = i - 1
    BY <1>5, <2>1
  <2>3. \E x \in S : Cardinality(Below(S, R, x)) = i - 1
    BY <1>6, <2>2
  <2>4. s[i] \in S /\ Cardinality(Below(S, R, s[i])) = i - 1
    BY <1>6, <2>3
  <2>5. QED
    BY <1>6, <2>4
<1>8. s = [i \in 1 .. n |-> s[i]]
  BY <1>6
<1>9. s \in Seq(S) /\ Len(s) = n /\ DOMAIN s = 1 .. n
  BY <1>1, <1>7, <1>8, SeqByElements
<1>10. ASSUME NEW x \in S
       PROVE  \E i \in 1 .. n : s[i] = x
  <2>1. rank[x] + 1 \in 1 .. n /\ (rank[x] + 1) - 1 = rank[x]
    BY <1>1, <1>2
  <2>2. QED
    BY <1>3, <1>7, <2>1
<1>11. ToSet(s) = S
  BY <1>7, <1>9, <1>10 DEF ToSet
<1>12. \A i \in 1 .. n : Cardinality(Below(S, R, s[i])) = i - 1
  BY <1>6, <1>7
<1>13. ASSUME NEW i \in 1 .. n, NEW j \in 1 .. n
       PROVE  i < j <=> <<s[i], s[j]>> \in R
  <2>1. /\ s[i] \in S /\ s[j] \in S /\ rank[s[i]] = i - 1 /\ rank[s[j]] = j - 1
    BY <1>7
  <2>2. s[i] = s[j] \/ <<s[i], s[j]>> \in R \/ <<s[j], s[i]>> \in R
    BY <2>1 DEF Orders
  <2>3. <<s[i], s[j]>> \in R => i - 1 < j - 1
    BY <1>2, <2>1
  <2>4. <<s[j], s[i]>> \in R => j - 1 < i - 1
    BY <1>2, <2>1
  <2>5. s[i] = s[j] => i - 1 = j - 1
    BY <2>1
  <2>6. i \in Nat /\ j \in Nat
    BY <1>1
  <2>7. QED
    BY <2>2, <2>3, <2>4, <2>5, <2>6
<1>14. QED
  BY <1>9, <1>11, <1>12, <1>13 DEF PutInOrder, n

LEMMA RankedInOrder ==
  ASSUME NEW S, IsFiniteSet(S), NEW R, Orders(R, S)
  PROVE  PutInOrder(Ranked(S, R), S, R)
<1>. DEFINE s == Ranked(S, R)
<1>1. s = [i \in 1 .. Cardinality(S) |-> s[i]]
  <2>1. s = [i \in 1 .. Cardinality(S) |->
               CHOOSE x \in S : Cardinality(Below(S, R, x)) = i - 1]
    BY DEF Ranked, Below
  <2>. HIDE DEF s, Below
  <2>2. QED
    BY <2>1
<1>2. ASSUME NEW i \in 1 .. Cardinality(S),
             \E x \in S : Cardinality(Below(S, R, x)) = i - 1
      PROVE  s[i] \in S /\ Cardinality(Below(S, R, s[i])) = i - 1
  BY <1>2 DEF Ranked, Below
<1>. HIDE DEF s
<1>3. PutInOrder(s, S, R)
  BY <1>1, <1>2, RankedBy
<1>4. QED
  BY <1>3 DEF s

(* There is but one such sequence.                                           *)
Strict(R, S) ==
  /\ \A x \in S : <<x, x>> \notin R
  /\ \A x, y, z \in S : <<x, y>> \in R /\ <<y, z>> \in R => <<x, z>> \in R

LEMMA OneOrder ==
  ASSUME NEW S, NEW s \in Seq(S), NEW t \in Seq(S), NEW R, Strict(R, S),
         ToSet(s) = ToSet(t),
         \A i, j \in DOMAIN s : i < j => <<s[i], s[j]>> \in R,
         \A i, j \in DOMAIN t : i < j => <<t[i], t[j]>> \in R
  PROVE  s = t
<1>1. /\ DOMAIN s = 1 .. Len(s) /\ Len(s) \in Nat /\ \A i \in DOMAIN s : s[i] \in S
      /\ DOMAIN t = 1 .. Len(t) /\ Len(t) \in Nat /\ \A i \in DOMAIN t : t[i] \in S
  OBVIOUS
<1>2. ASSUME NEW i \in 1 .. Len(s) PROVE \E j \in 1 .. Len(t) : t[j] = s[i]
  BY <1>1 DEF ToSet
<1>3. ASSUME NEW j \in 1 .. Len(t) PROVE \E i \in 1 .. Len(s) : t[j] = s[i]
  BY <1>1 DEF ToSet
<1>. DEFINE Good == {k \in Nat : \A i \in 1 .. k :
                       (i <= Len(s) <=> i <= Len(t)) /\ (i <= Len(s) => s[i] = t[i])}
<1>4. 0 \in Good
  OBVIOUS
<1>5. ASSUME NEW k \in Nat, k \in Good
      PROVE  k + 1 \in Good
  <2>1. \A i \in 1 .. k : (i <= Len(s) <=> i <= Len(t)) /\ (i <= Len(s) => s[i] = t[i])
    BY <1>5
  <2>. HIDE DEF Good
  <2>. DEFINE m == k + 1
  <2>2. ASSUME m <= Len(s)
        PROVE  m <= Len(t) /\ \E j \in 1 .. Len(t) : t[j] = s[m] /\ m <= j
    <3>1. m \in 1 .. Len(s)
      BY <1>1, <2>2
    <3>2. PICK j \in 1 .. Len(t) : t[j] = s[m]
      BY <1>2, <3>1
    <3>3. ~(j <= k)
      <4>1. SUFFICES ASSUME j <= k PROVE FALSE
        OBVIOUS
      <4>2. j \in 1 .. k /\ j <= Len(t) /\ j < m /\ j \in 1 .. Len(s)
        BY <1>1, <2>2, <4>1
      <4>3. t[j] = s[j]
        BY <2>1, <4>2
      <4>4. <<s[j], s[m]>> \in R
        BY <1>1, <3>1, <4>2
      <4>5. QED
        BY <1>1, <3>1, <3>2, <4>3, <4>4 DEF Strict
    <3>4. QED
      BY <1>1, <3>2, <3>3
  <2>3. ASSUME m <= Len(t)
        PROVE  m <= Len(s) /\ \E j \in 1 .. Len(s) : s[j] = t[m] /\ m <= j
    <3>1. m \in 1 .. Len(t)
      BY <1>1, <2>3
    <3>2. PICK j \in 1 .. Len(s) : s[j] = t[m]
      BY <1>3, <3>1
    <3>3. ~(j <= k)
      <4>1. SUFFICES ASSUME j <= k PROVE FALSE
        OBVIOUS
      <4>2. j \in 1 .. k /\ j <= Len(s) /\ j < m /\ j \in 1 .. Len(t)
        BY <1>1, <2>1, <2>3, <4>1
      <4>3. t[j] = s[j]
        BY <2>1, <4>2
      <4>4. <<t[j], t[m]>> \in R
        BY <1>1, <3>1, <4>2
      <4>5. QED
        BY <1>1, <3>1, <3>2, <4>3, <4>4 DEF Strict
    <3>4. QED
      BY <1>1, <3>2, <3>3
  <2>4. ASSUME m <= Len(s)
        PROVE  s[m] = t[m]
    <3>1. PICK j \in 1 .. Len(t) : t[j] = s[m] /\ m <= j
      BY <2>2, <2>4
    <3>2. PICK l \in 1 .. Len(s) : s[l] = t[m] /\ m <= l
      BY <2>2, <2>3, <2>4
    <3>3. /\ m \in 1 .. Len(s) /\ m \in 1 .. Len(t) /\ j \in Nat /\ l \in Nat /\ m \in Nat
          /\ s[m] \in S /\ t[m] \in S
      BY <1>1, <2>2, <2>4
    <3>. HIDE DEF m
    <3>4. m < j => <<t[m], s[m]>> \in R
      BY <1>1, <3>1, <3>3
    <3>5. m < l => <<s[m], t[m]>> \in R
      BY <1>1, <3>2, <3>3
    <3>6. CASE m = j
      BY <3>1, <3>6
    <3>7. CASE m = l
      BY <3>2, <3>7
    <3>8. CASE m < j /\ m < l
      <4>1. <<t[m], t[m]>> \in R
        BY <3>3, <3>4, <3>5, <3>8 DEF Strict
      <4>2. QED
        BY <3>3, <4>1 DEF Strict
    <3>9. QED
      BY <3>1, <3>2, <3>3, <3>6, <3>7, <3>8
  <2>5. (m <= Len(s) <=> m <= Len(t)) /\ (m <= Len(s) => s[m] = t[m])
    BY <2>2, <2>3, <2>4
  <2>6. \A i \in 1 .. m : i \in 1 .. k \/ i = m
    OBVIOUS
  <2>. HIDE DEF m
  <2>7. \A i \in 1 .. m : (i <= Len(s) <=> i <= Len(t)) /\ (i <= Len(s) => s[i] = t[i])
    BY <2>1, <2>5, <2>6
  <2>8. m \in Nat
    BY DEF m
  <2>9. QED
    BY <2>7, <2>8 DEF Good, m
<1>6. \A k \in Nat : k \in Good
  <2>. HIDE DEF Good
  <2>. QED
    BY <1>4, <1>5, InductionOnNat
<1>7. Len(s) \in Good /\ Len(t) \in Good
  BY <1>1, <1>6
<1>8. Len(s) = Len(t)
  <2>1. Len(s) = 0 \/ Len(s) \in 1 .. Len(s)
    BY <1>1
  <2>2. Len(t) = 0 \/ Len(t) \in 1 .. Len(t)
    BY <1>1
  <2>3. Len(s) <= Len(t)
    BY <1>1, <1>7, <2>1
  <2>4. Len(t) <= Len(s)
    BY <1>1, <1>7, <2>2
  <2>5. Len(s) \in Nat /\ Len(t) \in Nat
    BY <1>1
  <2>6. QED
    BY ONLY <2>3, <2>4, <2>5
<1>9. \A i \in 1 .. Len(s) : s[i] = t[i]
  BY <1>1, <1>7
<1>10. s = [i \in 1 .. Len(s) |-> s[i]] /\ t = [i \in 1 .. Len(t) |-> t[i]]
  BY <1>1
<1>11. QED
  BY <1>8, <1>9, <1>10

(* Numbers in increasing order.                                              *)
Less(S, x) == {y \in S : y < x}

LEMMA AscendingInOrder ==
  ASSUME NEW S \in SUBSET Int, IsFiniteSet(S)
  PROVE  /\ Ascending(S) \in Seq(S) /\ ToSet(Ascending(S)) = S
         /\ Len(Ascending(S)) = Cardinality(S) /\ Cardinality(S) \in Nat
         /\ DOMAIN Ascending(S) = 1 .. Cardinality(S)
         /\ \A i, j \in DOMAIN Ascending(S) : i < j <=> Ascending(S)[i] < Ascending(S)[j]
         /\ \A i \in DOMAIN Ascending(S) :
              Cardinality({x \in S : x < Ascending(S)[i]}) = i - 1
<1>. DEFINE R == {p \in S \X S : p[1] < p[2]}
<1>1. \A x, y \in S : <<x, y>> \in R <=> x < y
  OBVIOUS
<1>. HIDE DEF R
<1>2. Orders(R, S)
  BY <1>1 DEF Orders
<1>. DEFINE s == Ascending(S)
<1>3. PutInOrder(s, S, R)
  <2>. DEFINE n == Cardinality(S)
  <2>1. s = [i \in 1 .. Cardinality(S) |-> s[i]]
    <3>1. s = [i \in 1 .. n |-> CHOOSE x \in S : Cardinality(Less(S, x)) = i - 1]
      BY DEF Ascending, Less
    <3>. HIDE DEF s, n
    <3>2. s = [i \in 1 .. n |-> s[i]]
      BY <3>1
    <3>3. QED
      BY <3>2 DEF n
  <2>2. \A x \in S : Below(S, R, x) = {y \in S : y < x}
    BY <1>1 DEF Below
  <2>3. ASSUME NEW i \in 1 .. Cardinality(S),
               \E x \in S : Cardinality(Below(S, R, x)) = i - 1
        PROVE  s[i] \in S /\ Cardinality(Below(S, R, s[i])) = i - 1
    <3>1. \E x \in S : Cardinality({y \in S : y < x}) = i - 1
      BY <2>2, <2>3
    <3>2. s[i] = CHOOSE x \in S : Cardinality({y \in S : y < x}) = i - 1
      BY DEF Ascending
    <3>3. s[i] \in S /\ Cardinality({y \in S : y < s[i]}) = i - 1
      BY <3>1, <3>2
    <3>4. QED
      BY <2>2, <3>3
  <2>. HIDE DEF s
  <2>4. QED
    BY <1>2, <2>1, <2>3, RankedBy
<1>. HIDE DEF s
<1>4. /\ s \in Seq(S) /\ ToSet(s) = S /\ Len(s) = Cardinality(S)
      /\ \A i, j \in DOMAIN s : i < j <=> <<s[i], s[j]>> \in R
  BY <1>3 DEF PutInOrder
<1>5. DOMAIN s = 1 .. Len(s) /\ \A i \in DOMAIN s : s[i] \in S
  BY <1>4
<1>6. Cardinality(S) \in Nat
  BY FS_CardinalityType
<1>7. \A i, j \in DOMAIN s : i < j <=> s[i] < s[j]
  BY <1>1, <1>4, <1>5
<1>8. \A i \in DOMAIN s : Cardinality({x \in S : x < s[i]}) = i - 1
  <2>1. \A i \in DOMAIN s : Below(S, R, s[i]) = {x \in S : x < s[i]}
    BY <1>1, <1>5 DEF Below
  <2>2. QED
    BY <1>3, <2>1 DEF PutInOrder
<1>9. QED
  BY <1>4, <1>5, <1>6, <1>7, <1>8 DEF s

LEMMA OneAscending ==
  ASSUME NEW S \in SUBSET Int, NEW s \in Seq(S), NEW t \in Seq(S), ToSet(s) = ToSet(t),
         \A i, j \in DOMAIN s : i < j => s[i] < s[j],
         \A i, j \in DOMAIN t : i < j => t[i] < t[j]
  PROVE  s = t
<1>. DEFINE R == {p \in S \X S : p[1] < p[2]}
<1>1. \A x, y \in S : <<x, y>> \in R <=> x < y
  OBVIOUS
<1>. HIDE DEF R
<1>2. Strict(R, S)
  BY <1>1 DEF Strict
<1>3. /\ \A i, j \in DOMAIN s : i < j => <<s[i], s[j]>> \in R
      /\ \A i, j \in DOMAIN t : i < j => <<t[i], t[j]>> \in R
  <2>1. (\A i \in DOMAIN s : s[i] \in S) /\ (\A i \in DOMAIN t : t[i] \in S)
    OBVIOUS
  <2>2. QED
    BY <1>1, <2>1
<1>4. QED
  BY <1>2, <1>3, OneOrder

(* FlattenSeq is a recursive function of how many sequences it has joined.   *)
FlatStep(ss, h, i) == IF i = 1 THEN ss[i] ELSE h[i - 1] \o ss[i]

FlatFcn(ss) == CHOOSE h : h = [i \in 1 .. Len(ss) |-> FlatStep(ss, h, i)]

LEMMA FlattenAsFcn ==
  \A ss : FlattenSeq(ss) = IF Len(ss) = 0 THEN ss ELSE FlatFcn(ss)[Len(ss)]
BY DEF FlattenSeq, FlatFcn, FlatStep

LEMMA FlatFcnExists ==
  ASSUME NEW ss, Len(ss) \in Nat
  PROVE  \A i \in 1 .. Len(ss) : FlatFcn(ss)[i] = FlatStep(ss, FlatFcn(ss), i)
<1>. DEFINE Good == {m \in Nat : \E h : h = [i \in 1 .. m |-> FlatStep(ss, h, i)]}
<1>1. 0 \in Good
  <2>1. 1 .. 0 = {}
    OBVIOUS
  <2>2. <<>> = [i \in 1 .. 0 |-> FlatStep(ss, <<>>, i)]
    OBVIOUS
  <2>3. QED
    BY <2>2
<1>2. ASSUME NEW m \in Nat, m \in Good
      PROVE  m + 1 \in Good
  <2>1. PICK h : h = [i \in 1 .. m |-> FlatStep(ss, h, i)]
    BY <1>2
  <2>. DEFINE g == [i \in 1 .. m + 1 |-> IF i <= m THEN h[i] ELSE FlatStep(ss, h, i)]
  <2>2. \A i \in 1 .. m + 1 : FlatStep(ss, g, i) = FlatStep(ss, h, i)
    <3>1. ASSUME NEW i \in 1 .. m + 1, i # 1
          PROVE  g[i - 1] = h[i - 1]
      BY <3>1
    <3>. HIDE DEF g
    <3>2. QED
      BY <3>1 DEF FlatStep
  <2>3. \A i \in 1 .. m : h[i] = FlatStep(ss, h, i)
    <3>. DEFINE E(i) == FlatStep(ss, h, i)
    <3>1. h = [i \in 1 .. m |-> E(i)]
      BY <2>1
    <3>. HIDE DEF E
    <3>2. \A i \in 1 .. m : h[i] = E(i)
      BY <3>1
    <3>3. QED
      BY <3>2 DEF E
  <2>4. \A i \in 1 .. m + 1 : g[i] = FlatStep(ss, g, i)
    BY <2>2, <2>3
  <2>5. g = [i \in 1 .. m + 1 |-> g[i]]
    OBVIOUS
  <2>. HIDE DEF g
  <2>6. g = [i \in 1 .. m + 1 |-> FlatStep(ss, g, i)]
    BY <2>4, <2>5
  <2>7. QED
    BY <2>6
<1>3. Len(ss) \in Good
  <2>. HIDE DEF Good
  <2>1. QED
    BY <1>1, <1>2, InductionOnNat
<1>4. \E h : h = [i \in 1 .. Len(ss) |-> FlatStep(ss, h, i)]
  BY <1>3
<1>5. FlatFcn(ss) = [i \in 1 .. Len(ss) |-> FlatStep(ss, FlatFcn(ss), i)]
  BY <1>4 DEF FlatFcn
<1>6. QED
  <2>. DEFINE h == FlatFcn(ss)
              E(i) == FlatStep(ss, h, i)
  <2>1. h = [i \in 1 .. Len(ss) |-> E(i)]
    BY <1>5
  <2>. HIDE DEF h, E
  <2>2. \A i \in 1 .. Len(ss) : h[i] = E(i)
    BY <2>1
  <2>3. QED
    BY <2>2 DEF h, E

(* f is the sequences of ss one after the other; the i-th ends at ends[i].   *)
Blocks(ss, n, f, ends) ==
  /\ ends \in [0 .. n -> Nat] /\ ends[0] = 0 /\ ends[n] = Len(f)
  /\ \A i \in 1 .. n :
       /\ Len(ss[i]) \in Nat /\ ends[i] = ends[i - 1] + Len(ss[i])
       /\ \A j \in 1 .. Len(ss[i]) : f[ends[i - 1] + j] = ss[i][j]

(* The p-th element of f is the j-th of the i-th block.                      *)
InBlock(ss, n, f, ends, p) ==
  \E i \in 1 .. n : \E j \in 1 .. Len(ss[i]) :
    p = ends[i - 1] + j /\ f[p] = ss[i][j]

LEMMA EndsRise ==
  ASSUME NEW ss, NEW n \in Nat, NEW f, NEW ends, Blocks(ss, n, f, ends)
  PROVE  \A i, j \in 0 .. n : i <= j => ends[i] <= ends[j]
<1>. DEFINE Good == {d \in Nat : \A i \in 0 .. n : i + d <= n => ends[i] <= ends[i + d]}
<1>1. /\ ends \in [0 .. n -> Nat]
      /\ \A i \in 1 .. n : Len(ss[i]) \in Nat /\ ends[i] = ends[i - 1] + Len(ss[i])
  BY DEF Blocks
<1>2. 0 \in Good
  <2>1. \A i \in 0 .. n : i + 0 = i /\ ends[i] \in Nat
    BY <1>1
  <2>2. QED
    BY <2>1
<1>3. ASSUME NEW d \in Nat, d \in Good
      PROVE  d + 1 \in Good
  <2>1. SUFFICES ASSUME NEW i \in 0 .. n, i + (d + 1) <= n
                 PROVE  ends[i] <= ends[i + (d + 1)]
    OBVIOUS
  <2>2. /\ i + (d + 1) \in 1 .. n /\ (i + (d + 1)) - 1 = i + d
        /\ i + d \in 0 .. n /\ i + d <= n
    BY <2>1
  <2>3. ends[i] <= ends[i + d]
    BY <1>3, <2>2
  <2>4. ends[i + (d + 1)] = ends[i + d] + Len(ss[i + (d + 1)])
    BY <1>1, <2>2
  <2>5. /\ ends[i] \in Nat /\ ends[i + d] \in Nat /\ ends[i + (d + 1)] \in Nat
        /\ Len(ss[i + (d + 1)]) \in Nat
    BY <1>1, <2>2
  <2>6. QED
    BY ONLY <2>3, <2>4, <2>5
<1>. HIDE DEF Good
<1>4. \A d \in Nat : d \in Good
  BY <1>2, <1>3, InductionOnNat
<1>5. SUFFICES ASSUME NEW i \in 0 .. n, NEW j \in 0 .. n, i <= j
               PROVE  ends[i] <= ends[j]
  OBVIOUS
<1>6. j - i \in Nat /\ i + (j - i) = j /\ i + (j - i) <= n
  BY <1>5
<1>7. \A k \in 0 .. n : k + (j - i) <= n => ends[k] <= ends[k + (j - i)]
  BY <1>4, <1>6 DEF Good
<1>8. ends[i] <= ends[i + (j - i)]
  BY <1>6, <1>7
<1>9. QED
  BY <1>6, <1>8

(* Every element is in one of the blocks.                                    *)
LEMMA BlockOf ==
  ASSUME NEW ss, NEW n \in Nat, NEW f, NEW ends, Blocks(ss, n, f, ends)
  PROVE  \A p \in 1 .. Len(f) : InBlock(ss, n, f, ends, p)
<1>. TAKE p \in 1 .. Len(f)
<1>. DEFINE T == {i \in 0 .. n : p <= ends[i]}
<1>1. /\ ends \in [0 .. n -> Nat] /\ ends[0] = 0 /\ ends[n] = Len(f)
      /\ \A i \in 1 .. n : /\ Len(ss[i]) \in Nat /\ ends[i] = ends[i - 1] + Len(ss[i])
                           /\ \A j \in 1 .. Len(ss[i]) : f[ends[i - 1] + j] = ss[i][j]
  BY DEF Blocks
<1>2. n \in T /\ T \in SUBSET Nat
  BY <1>1
<1>3. PICK i \in T : \A k \in T : i <= k
  <2>. HIDE DEF T
  <2>1. QED
    BY <1>2, LeastNatural
<1>4. i \in 1 .. n /\ i - 1 \in 0 .. n /\ p <= ends[i]
  BY <1>1, <1>3
<1>5. ~(p <= ends[i - 1])
  BY <1>3, <1>4
<1>6. /\ ends[i] \in Nat /\ ends[i - 1] \in Nat /\ Len(ss[i]) \in Nat
      /\ ends[i] = ends[i - 1] + Len(ss[i])
  BY <1>1, <1>4
<1>7. /\ p - ends[i - 1] \in 1 .. Len(ss[i])
      /\ p = ends[i - 1] + (p - ends[i - 1])
  <2>. DEFINE x == ends[i - 1]
              y == ends[i]
              l == Len(ss[i])
  <2>1. /\ x \in Nat /\ y \in Nat /\ l \in Nat /\ y = x + l
        /\ p <= y /\ ~(p <= x) /\ p \in Int
    BY <1>1, <1>4, <1>5, <1>6
  <2>. HIDE DEF x, y, l
  <2>2. p - x \in 1 .. l /\ p = x + (p - x)
    BY ONLY <2>1
  <2>3. QED
    BY <2>2 DEF x, l
<1>8. \A j \in 1 .. Len(ss[i]) : f[ends[i - 1] + j] = ss[i][j]
  BY <1>1, <1>4
<1>9. f[p] = ss[i][p - ends[i - 1]]
  BY <1>7, <1>8
<1>10. QED
  BY <1>4, <1>7, <1>9 DEF InBlock

LEMMA Flattened ==
  ASSUME NEW S, NEW ss \in Seq(Seq(S))
  PROVE  /\ FlattenSeq(ss) \in Seq(S)
         /\ \E ends : Blocks(ss, Len(ss), FlattenSeq(ss), ends)
<1>. DEFINE F == FlatFcn(ss)
            Good == {m \in Nat : m + 1 <= Len(ss) =>
                       /\ F[m + 1] \in Seq(S)
                       /\ \E ends : Blocks(ss, m + 1, F[m + 1], ends)}
<1>1. Len(ss) \in Nat /\ \A i \in 1 .. Len(ss) : ss[i] \in Seq(S) /\ Len(ss[i]) \in Nat
  OBVIOUS
<1>2. \A i \in 1 .. Len(ss) : F[i] = IF i = 1 THEN ss[i] ELSE F[i - 1] \o ss[i]
  BY <1>1, FlatFcnExists DEF FlatStep
<1>. HIDE DEF F
<1>3. 0 \in Good
  <2>1. SUFFICES ASSUME 1 <= Len(ss)
                 PROVE  F[1] \in Seq(S) /\ \E ends : Blocks(ss, 1, F[1], ends)
    OBVIOUS
  <2>2. F[1] = ss[1] /\ 1 \in 1 .. Len(ss)
    BY <1>1, <1>2, <2>1
  <2>. DEFINE e == [i \in 0 .. 1 |-> IF i = 0 THEN 0 ELSE Len(ss[1])]
  <2>3. e \in [0 .. 1 -> Nat] /\ e[0] = 0 /\ e[1] = Len(ss[1])
    BY <1>1, <2>2
  <2>. HIDE DEF e
  <2>4. Blocks(ss, 1, F[1], e)
    <3>1. ASSUME NEW i \in 1 .. 1
          PROVE  /\ Len(ss[i]) \in Nat /\ e[i] = e[i - 1] + Len(ss[i])
                 /\ \A j \in 1 .. Len(ss[i]) : F[1][e[i - 1] + j] = ss[i][j]
      <4>1. i = 1 /\ i - 1 = 0
        OBVIOUS
      <4>2. \A j \in 1 .. Len(ss[1]) : 0 + j = j
        BY <1>1, <2>2
      <4>3. Len(ss[1]) \in Nat /\ Len(ss[1]) = 0 + Len(ss[1])
        BY <1>1, <2>2
      <4>4. QED
        BY <2>2, <2>3, <4>1, <4>2, <4>3
    <3>2. QED
      BY <2>2, <2>3, <3>1 DEF Blocks
  <2>5. QED
    BY <1>1, <2>2, <2>4
<1>4. ASSUME NEW m \in Nat, m \in Good
      PROVE  m + 1 \in Good
  <2>1. SUFFICES ASSUME m + 2 <= Len(ss)
                 PROVE  F[m + 2] \in Seq(S) /\ \E ends : Blocks(ss, m + 2, F[m + 2], ends)
    <3>1. m + 1 \in Nat /\ m + 1 + 1 = m + 2
      OBVIOUS
    <3>2. QED
      BY <3>1
  <2>2. F[m + 1] \in Seq(S) /\ \E ends : Blocks(ss, m + 1, F[m + 1], ends)
    BY <1>1, <1>4, <2>1
  <2>3. PICK d : Blocks(ss, m + 1, F[m + 1], d)
    BY <2>2
  <2>. DEFINE f == F[m + 1]
              s == ss[m + 2]
              g == F[m + 2]
              e == [i \in 0 .. m + 2 |-> IF i <= m + 1 THEN d[i] ELSE Len(f) + Len(s)]
  <2>4. s \in Seq(S) /\ Len(s) \in Nat /\ m + 2 \in 1 .. Len(ss)
    BY <1>1, <2>1
  <2>5. g = f \o s
    <3>1. m + 2 # 1 /\ m + 2 - 1 = m + 1
      OBVIOUS
    <3>2. F[m + 2] = IF m + 2 = 1 THEN ss[m + 2] ELSE F[m + 2 - 1] \o ss[m + 2]
      BY <1>2, <2>4
    <3>3. QED
      BY <3>1, <3>2
  <2>6. /\ f \in Seq(S) /\ Len(f) \in Nat
        /\ d \in [0 .. m + 1 -> Nat] /\ d[0] = 0 /\ d[m + 1] = Len(f)
        /\ \A i \in 1 .. m + 1 :
             /\ d[i] = d[i - 1] + Len(ss[i])
             /\ \A j \in 1 .. Len(ss[i]) : f[d[i - 1] + j] = ss[i][j]
    <3>1. f \in Seq(S) /\ Len(f) \in Nat
      BY <2>2
    <3>. HIDE DEF f
    <3>2. Blocks(ss, m + 1, f, d)
      BY <2>3 DEF f
    <3>3. QED
      BY <3>1, <3>2 DEF Blocks
  <2>. HIDE DEF f, s, g
  <2>7. /\ g \in Seq(S) /\ Len(g) = Len(f) + Len(s)
        /\ \A i \in 1 .. Len(f) : g[i] = f[i]
        /\ \A i \in 1 .. Len(s) : g[Len(f) + i] = s[i]
    BY <2>4, <2>5, <2>6, ConcatRange
  <2>8. /\ e \in [0 .. m + 2 -> Nat]
        /\ \A i \in 0 .. m + 1 : e[i] = d[i]
        /\ e[m + 2] = Len(f) + Len(s)
    BY <2>4, <2>6
  <2>. HIDE DEF e
  <2>9. \A i \in 0 .. m + 1 : d[i] <= Len(f)
    <3>1. m + 1 \in Nat
      OBVIOUS
    <3>2. \A i, j \in 0 .. m + 1 : i <= j => d[i] <= d[j]
      BY <2>3, <3>1, EndsRise
    <3>3. \A i \in 0 .. m + 1 : m + 1 \in 0 .. m + 1 /\ i <= m + 1
      OBVIOUS
    <3>4. QED
      BY <2>6, <3>2, <3>3
  <2>10. Blocks(ss, m + 2, g, e)
    <3>1. ASSUME NEW i \in 1 .. m + 1
          PROVE  /\ Len(ss[i]) \in Nat /\ e[i] = e[i - 1] + Len(ss[i])
                 /\ \A j \in 1 .. Len(ss[i]) : g[e[i - 1] + j] = ss[i][j]
      <4>1. i \in 0 .. m + 1 /\ i - 1 \in 0 .. m + 1 /\ i \in 1 .. Len(ss)
        BY <1>1, <2>1
      <4>2. e[i] = d[i] /\ e[i - 1] = d[i - 1]
        BY <2>8, <4>1
      <4>3. /\ d[i] = d[i - 1] + Len(ss[i])
            /\ \A j \in 1 .. Len(ss[i]) : f[d[i - 1] + j] = ss[i][j]
        BY <2>6
      <4>4. d[i] \in Nat /\ d[i - 1] \in Nat /\ Len(ss[i]) \in Nat /\ d[i] <= Len(f)
        BY <1>1, <2>6, <2>9, <4>1
      <4>5. \A j \in 1 .. Len(ss[i]) : d[i - 1] + j \in 1 .. Len(f)
        <5>. DEFINE x == d[i - 1]
                    y == d[i]
                    l == Len(ss[i])
                    z == Len(f)
        <5>1. /\ y = x + l /\ z \in Nat
              /\ y \in Nat /\ x \in Nat /\ l \in Nat /\ y <= z
          BY <2>6, <4>3, <4>4
        <5>. HIDE DEF x, y, l, z
        <5>2. \A j \in 1 .. l : x + j \in 1 .. z
          BY ONLY <5>1
        <5>3. QED
          BY <5>2 DEF x, l, z
      <4>6. \A j \in 1 .. Len(ss[i]) : g[d[i - 1] + j] = f[d[i - 1] + j]
        BY <2>7, <4>5
      <4>7. QED
        BY <4>2, <4>3, <4>4, <4>6
    <3>2. /\ Len(s) \in Nat /\ e[m + 2] = e[m + 1] + Len(s)
          /\ \A j \in 1 .. Len(s) : g[e[m + 1] + j] = s[j]
      <4>1. e[m + 1] = d[m + 1] /\ d[m + 1] = Len(f)
        BY <2>6, <2>8
      <4>2. QED
        BY <2>4, <2>7, <2>8, <4>1
    <3>3. \A i \in 1 .. m + 2 : i \in 1 .. m + 1 \/ (i = m + 2 /\ i - 1 = m + 1)
      OBVIOUS
    <3>4. ASSUME NEW i \in 1 .. m + 2
          PROVE  /\ Len(ss[i]) \in Nat /\ e[i] = e[i - 1] + Len(ss[i])
                 /\ \A j \in 1 .. Len(ss[i]) : g[e[i - 1] + j] = ss[i][j]
      BY <3>1, <3>2, <3>3 DEF s
    <3>5. e[0] = 0 /\ e[m + 2] = Len(g)
      <4>1. 0 \in 0 .. m + 1
        OBVIOUS
      <4>2. QED
        BY <2>6, <2>7, <2>8, <4>1
    <3>6. QED
      BY <2>8, <3>4, <3>5 DEF Blocks
  <2>11. QED
    BY <2>7, <2>10 DEF g
<1>. HIDE DEF Good
<1>5. \A m \in Nat : m \in Good
  BY <1>3, <1>4, InductionOnNat
<1>6. CASE Len(ss) = 0
  <2>1. ss = <<>> /\ FlattenSeq(ss) = <<>> /\ Len(<<>>) = 0
    BY <1>6, FlattenAsFcn
  <2>. DEFINE e == [i \in 0 .. 0 |-> 0]
  <2>2. e \in [0 .. 0 -> Nat] /\ e[0] = 0 /\ 1 .. 0 = {}
    OBVIOUS
  <2>. HIDE DEF e
  <2>3. Blocks(ss, 0, FlattenSeq(ss), e)
    BY <2>1, <2>2 DEF Blocks
  <2>4. Blocks(ss, Len(ss), FlattenSeq(ss), e)
    BY <1>6, <2>3
  <2>5. <<>> \in Seq(S)
    OBVIOUS
  <2>6. FlattenSeq(ss) \in Seq(S)
    BY <2>1, <2>5
  <2>7. QED
    BY <2>4, <2>6
<1>7. CASE Len(ss) # 0
  <2>1. Len(ss) - 1 \in Nat /\ Len(ss) - 1 + 1 = Len(ss)
    BY <1>1, <1>7
  <2>2. FlattenSeq(ss) = F[Len(ss)]
    BY <1>7, FlattenAsFcn DEF F
  <2>3. Len(ss) - 1 \in Good
    BY <1>5, <2>1
  <2>4. F[Len(ss)] \in Seq(S) /\ \E ends : Blocks(ss, Len(ss), F[Len(ss)], ends)
    <3>1. Len(ss) <= Len(ss)
      BY <1>1
    <3>2. QED
      BY <2>1, <2>3, <3>1 DEF Good
  <2>5. QED
    BY <2>2, <2>4
<1>8. QED
  BY <1>6, <1>7
=============================================================================
