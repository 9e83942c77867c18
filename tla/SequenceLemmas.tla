--------------------------- MODULE SequenceLemmas ---------------------------
(***************************************************************************)
(* What the proofs share, none of it about one program: a set of numbers   *)
(* has a least one, and what goes down step by step arrives; folds exist,  *)
(* preserve what their steps preserve, and follow the chain of their       *)
(* steps; what the operations on sequences do to their elements and to the *)
(* set of them; induction along an initial segment; remainders.            *)
(***************************************************************************)
EXTENDS Naturals, Sequences, SequencesExt, SequenceTheorems,
        FiniteSetTheorems, WellFoundedInduction, TLAPS

\* A set of numbers has a least one.
LEMMA LeastNat ==
    ASSUME NEW T \in SUBSET Nat, T # {}
    PROVE  \E x \in T : \A y \in T : x <= y
<1> DEFINE Below == {p \in Nat \X Nat : p[1] < p[2]}
<1>1. IsWellFoundedOn(Below, Nat)
  BY NatLessThanWellFounded DEF OpToRel
<1>2. \A x, y \in Nat : <<y, x>> \in Below <=> y < x
  OBVIOUS
<1> HIDE DEF Below
<1>3. \E x \in T : \A y \in T : <<y, x>> \notin Below
  BY <1>1, WFMin
<1>4. PICK x \in T : \A y \in T : <<y, x>> \notin Below
  BY <1>3
<1>5. \A y \in T : y \in Nat /\ x \in Nat /\ ~(y < x)
  BY <1>2, <1>4
<1>6. \A y \in T : x <= y
  BY <1>5
<1>7. QED
  BY <1>6

-----------------------------------------------------------------------------
(* Folds.  MapThenFoldSet, which FoldLeft and MapThenSumSet stand for, is a *)
(* recursive function over the subsets of a set; whether such a function    *)
(* exists must be shown before its equation can be used.                    *)

\* g folds every subset of S: step of the element picked from it, and of what
\* remains.
IsFold(g, S, base, step, pick) ==
    \A s \in SUBSET S :
        g[s] = IF s = {} THEN base ELSE step[pick[s]][g[s \ {pick[s]}]]

CanFold(S, T, base, step, pick) ==
    /\ IsFiniteSet(S) /\ base \in T /\ step \in [S -> [T -> T]]
    /\ \A s \in SUBSET S : s # {} => pick[s] \in s
HasFold(S, T, base, step, pick) ==
    \E g \in [SUBSET S -> T] : IsFold(g, S, base, step, pick)

\* There is such a function.
LEMMA FoldExists ==
    ASSUME NEW S, NEW T, NEW base, NEW step, NEW pick, CanFold(S, T, base, step, pick)
    PROVE  HasFold(S, T, base, step, pick)
<1> USE DEF CanFold
<1> DEFINE After(g, s) == step[pick[s]][g[s \ {pick[s]}]]
           Upto(g, n) ==
             \A s \in SUBSET S : Cardinality(s) <= n =>
                g[s] = IF s = {} THEN base ELSE After(g, s)
           Missing == {n \in Nat : ~ \E g \in [SUBSET S -> T] : Upto(g, n)}
<1>1. \A s \in SUBSET S : IsFiniteSet(s) /\ Cardinality(s) \in Nat
  BY FS_Subset, FS_CardinalityType
<1>2. Missing = {}
  <2> SUFFICES ASSUME Missing # {} PROVE FALSE
    OBVIOUS
  <2>1. Missing \in SUBSET Nat
    OBVIOUS
  <2> HIDE DEF Missing
  <2>2. PICK n \in Missing : \A m \in Missing : n <= m
    BY <2>1, LeastNat
  <2>3. n \in Nat
    BY <2>1
  <2>4. CASE n = 0
    <3> DEFINE g == [s \in SUBSET S |-> base]
    <3>1. g \in [SUBSET S -> T]
      OBVIOUS
    <3>2. Upto(g, 0)
      <4>1. \A s \in SUBSET S : Cardinality(s) <= 0 => s = {}
        BY <1>1, FS_EmptySet
      <4>2. QED
        BY <4>1
    <3>3. QED
      BY <2>2, <2>4, <3>1, <3>2 DEF Missing
  <2>5. CASE n > 0
    <3>1. n - 1 \in Nat /\ n - 1 \notin Missing
      BY <2>2, <2>3, <2>5
    <3>2. PICK f \in [SUBSET S -> T] : Upto(f, n - 1)
      BY <3>1 DEF Missing
    <3> DEFINE g == [s \in SUBSET S |->
                        IF Cardinality(s) <= n - 1 THEN f[s]
                        ELSE IF s = {} THEN base ELSE After(f, s)]
    <3>3. ASSUME NEW s \in SUBSET S, s # {}
          PROVE  /\ After(f, s) \in T /\ s \ {pick[s]} \in SUBSET S
                 /\ Cardinality(s \ {pick[s]}) = Cardinality(s) - 1
      <4>1. pick[s] \in s /\ pick[s] \in S /\ s \ {pick[s]} \in SUBSET S
        BY <3>3
      <4>2. Cardinality(s \ {pick[s]}) = Cardinality(s) - 1
        BY <1>1, <4>1, FS_RemoveElement
      <4>3. f[s \ {pick[s]}] \in T /\ step[pick[s]] \in [T -> T]
        BY <4>1
      <4>4. QED
        BY <4>1, <4>2, <4>3
    <3>4. g \in [SUBSET S -> T]
      BY <3>3
    <3>5. ASSUME NEW s \in SUBSET S, Cardinality(s) <= n
          PROVE  g[s] = IF s = {} THEN base ELSE After(g, s)
      <4>1. CASE s = {}
        <5>1. Cardinality({}) <= n - 1 /\ {} \in SUBSET S
          BY <3>1, FS_EmptySet
        <5> HIDE DEF After
        <5>2. f[{}] = base
          BY <3>2, <5>1
        <5>3. QED
          BY <4>1, <5>2
      <4>2. CASE s # {}
        <5>1. /\ s \ {pick[s]} \in SUBSET S
              /\ Cardinality(s \ {pick[s]}) = Cardinality(s) - 1
          BY <3>3, <4>2
        <5>2. Cardinality(s) \in Nat /\ Cardinality(s \ {pick[s]}) <= n - 1
          BY <1>1, <2>3, <3>5, <5>1
        <5>3. g[s \ {pick[s]}] = f[s \ {pick[s]}]
          BY <5>1, <5>2
        <5>4. g[s] = After(f, s)
          <6>1. CASE Cardinality(s) <= n - 1
            BY <3>2, <4>2, <6>1
          <6>2. CASE ~(Cardinality(s) <= n - 1)
            BY <4>2, <6>2
          <6>3. QED
            BY <6>1, <6>2
        <5>5. QED
          BY <4>2, <5>3, <5>4
      <4>3. QED
        BY <4>1, <4>2
    <3> HIDE DEF g
    <3>6. Upto(g, n)
      BY <3>5
    <3>7. QED
      BY <2>2, <2>3, <3>4, <3>6 DEF Missing
  <2>6. QED
    BY <2>3, <2>4, <2>5
<1>3. PICK g \in [SUBSET S -> T] : Upto(g, Cardinality(S))
  BY <1>1, <1>2
<1>4. \A s \in SUBSET S : Cardinality(s) <= Cardinality(S)
  BY FS_Subset
<1>5. QED
  BY <1>3, <1>4 DEF IsFold, HasFold

\* The element that FoldLeft takes.
LEMMA MaxIn ==
    ASSUME NEW n \in Nat, NEW s \in SUBSET (1..n), s # {}
    PROVE  Max(s) \in s /\ \A x \in s : x <= Max(s)
<1> DEFINE Below == {n - x : x \in s}
<1>1. Below \in SUBSET Nat /\ Below # {}
  OBVIOUS
<1> HIDE DEF Below
<1>2. PICK b \in Below : \A y \in Below : b <= y
  BY <1>1, LeastNat
<1>3. PICK m \in s : b = n - m
  BY <1>2 DEF Below
<1>4. \A x \in s : m >= x
  BY <1>2, <1>3 DEF Below
<1>5. Max(s) \in s /\ \A x \in s : Max(s) >= x
  BY <1>4 DEF Max
<1>6. QED
  BY <1>5

\* Of the first k numbers it is k, and the others are the first k - 1.
LEMMA MaxOfFirst ==
    ASSUME NEW k \in Nat \ {0}
    PROVE  Max(1..k) = k /\ (1..k) \ {Max(1..k)} = 1..(k - 1)
<1>1. Max(1..k) \in 1..k /\ k <= Max(1..k)
  <2>1. k \in Nat /\ 1..k \in SUBSET (1..k) /\ k \in 1..k
    OBVIOUS
  <2>2. QED
    BY <2>1, MaxIn
<1>2. Max(1..k) = k
  BY <1>1
<1>3. QED
  BY <1>2

-----------------------------------------------------------------------------
(* Sequences.                                                               *)

\* An empty deque holds nothing.
LEMMA ToSetEmpty == ToSet(<<>>) = {}
BY DEF ToSet

\* What push_back adds to a deque.
LEMMA ToSetAppend ==
    ASSUME NEW S, NEW s \in Seq(S), NEW e \in S
    PROVE  ToSet(Append(s, e)) = ToSet(s) \cup {e}
<1>1. /\ Len(Append(s, e)) = Len(s) + 1 /\ DOMAIN Append(s, e) = 1..Len(s) + 1
      /\ DOMAIN s = 1..Len(s) /\ Len(s) \in Nat
  OBVIOUS
<1>2. \A i \in 1..Len(s) : Append(s, e)[i] = s[i]
  OBVIOUS
<1>3. Append(s, e)[Len(s) + 1] = e
  OBVIOUS
<1>4. 1..Len(s) + 1 = 1..Len(s) \cup {Len(s) + 1}
  BY <1>1
<1>5. QED
  BY <1>1, <1>2, <1>3, <1>4 DEF ToSet

\* What pop_front takes from a deque.
LEMMA ToSetHeadTail ==
    ASSUME NEW S, NEW s \in Seq(S), s # <<>>
    PROVE  ToSet(s) = ToSet(Tail(s)) \cup {Head(s)}
<1>1. /\ DOMAIN s = 1..Len(s) /\ DOMAIN Tail(s) = 1..Len(s) - 1
      /\ Len(s) \in Nat /\ Len(s) >= 1
  OBVIOUS
<1>2. Head(s) = s[1]
  OBVIOUS
<1>3. \A i \in 1..Len(s) - 1 : Tail(s)[i] = s[i + 1]
  OBVIOUS
<1>4. ASSUME NEW x \in ToSet(s) PROVE x \in ToSet(Tail(s)) \cup {Head(s)}
  <2>1. PICK i \in 1..Len(s) : x = s[i]
    BY <1>1 DEF ToSet
  <2>2. CASE i = 1
    BY <2>1, <2>2, <1>2
  <2>3. CASE i # 1
    <3>1. i - 1 \in 1..Len(s) - 1 /\ (i - 1) + 1 = i
      BY <1>1, <2>1, <2>3
    <3>2. x = Tail(s)[i - 1]
      BY <2>1, <3>1, <1>3
    <3>3. QED
      BY <1>1, <3>1, <3>2 DEF ToSet
  <2>4. QED
    BY <2>2, <2>3
<1>5. ASSUME NEW x \in ToSet(Tail(s)) PROVE x \in ToSet(s)
  <2>1. PICK i \in 1..Len(s) - 1 : x = Tail(s)[i]
    BY <1>1 DEF ToSet
  <2>2. i + 1 \in 1..Len(s) /\ x = s[i + 1]
    BY <2>1, <1>1, <1>3
  <2>3. QED
    BY <2>2, <1>1 DEF ToSet
<1>6. Head(s) \in ToSet(s)
  BY <1>1, <1>2 DEF ToSet
<1>7. QED
  BY <1>4, <1>5, <1>6

\* What a sequence appended to another adds.
LEMMA ToSetConcat ==
    ASSUME NEW S, NEW s \in Seq(S), NEW r \in Seq(S)
    PROVE  ToSet(s \o r) = ToSet(s) \cup ToSet(r)
<1>1. /\ DOMAIN s = 1..Len(s) /\ DOMAIN r = 1..Len(r) /\ Len(s) \in Nat /\ Len(r) \in Nat
      /\ DOMAIN (s \o r) = 1..Len(s) + Len(r)
  OBVIOUS
<1>2. \A i \in 1..Len(s) : (s \o r)[i] = s[i]
  OBVIOUS
<1>3. \A i \in 1..Len(r) : (s \o r)[Len(s) + i] = r[i]
  OBVIOUS
<1>4. ASSUME NEW x \in ToSet(s \o r) PROVE x \in ToSet(s) \cup ToSet(r)
  <2>1. PICK i \in 1..Len(s) + Len(r) : x = (s \o r)[i]
    BY <1>1 DEF ToSet
  <2>2. CASE i \in 1..Len(s)
    BY <2>1, <2>2, <1>1, <1>2 DEF ToSet
  <2>3. CASE i \notin 1..Len(s)
    <3>1. i - Len(s) \in 1..Len(r) /\ Len(s) + (i - Len(s)) = i
      BY <1>1, <2>1, <2>3
    <3>2. x = r[i - Len(s)]
      BY <2>1, <3>1, <1>3
    <3>3. QED
      BY <1>1, <3>1, <3>2 DEF ToSet
  <2>4. QED
    BY <2>2, <2>3
<1>5. ASSUME NEW x \in ToSet(s) PROVE x \in ToSet(s \o r)
  <2>1. PICK i \in 1..Len(s) : x = s[i]
    BY <1>1 DEF ToSet
  <2>2. i \in 1..Len(s) + Len(r) /\ x = (s \o r)[i]
    BY <1>1, <1>2, <2>1
  <2>3. QED
    BY <1>1, <2>2 DEF ToSet
<1>6. ASSUME NEW x \in ToSet(r) PROVE x \in ToSet(s \o r)
  <2>1. PICK i \in 1..Len(r) : x = r[i]
    BY <1>1 DEF ToSet
  <2>2. Len(s) + i \in 1..Len(s) + Len(r) /\ x = (s \o r)[Len(s) + i]
    BY <1>1, <1>3, <2>1
  <2>3. QED
    BY <1>1, <2>2 DEF ToSet
<1>7. QED
  BY <1>4, <1>5, <1>6

\* A sequence without its element at i.
LEMMA RemoveAtProperties ==
    ASSUME NEW S, NEW s \in Seq(S), NEW i \in 1..Len(s)
    PROVE  /\ RemoveAt(s, i) \in Seq(S)
           /\ Len(RemoveAt(s, i)) = Len(s) - 1
           /\ \A j \in 1..(Len(s) - 1) :
                 RemoveAt(s, i)[j] = IF j < i THEN s[j] ELSE s[j + 1]
<1> DEFINE front == SubSeq(s, 1, i - 1)
           back == SubSeq(s, i + 1, Len(s))
<1>1. Len(s) \in Nat /\ i \in Nat /\ \A j \in 1..Len(s) : s[j] \in S
  OBVIOUS
<1>2. front \in Seq(S) /\ Len(front) = i - 1 /\ \A j \in 1..(i - 1) : front[j] = s[j]
  BY <1>1
<1>3. back \in Seq(S) /\ Len(back) = Len(s) - i
      /\ \A j \in 1..(Len(s) - i) : back[j] = s[i + j]
  BY <1>1
<1> HIDE DEF front, back
<1>4. front \o back \in Seq(S) /\ Len(front \o back) = Len(s) - 1
  <2>1. front \o back \in Seq(S) /\ Len(front \o back) = Len(front) + Len(back)
    BY <1>2, <1>3, ConcatProperties
  <2>2. (i - 1) + (Len(s) - i) = Len(s) - 1
    BY <1>1
  <2>3. QED
    BY <1>2, <1>3, <2>1, <2>2
<1>5. ASSUME NEW j \in 1..(Len(s) - 1)
      PROVE  (front \o back)[j] = IF j < i THEN s[j] ELSE s[j + 1]
  <2>1. (front \o back)[j] = IF j <= i - 1 THEN front[j] ELSE back[j - (i - 1)]
    <3>1. j \in 1..(Len(front) + Len(back))
      BY <1>1, <1>2, <1>3
    <3>2. QED
      BY <1>2, <1>3, <3>1, ConcatProperties, SMTT(30)
  <2>2. CASE j < i
    BY <1>1, <1>2, <2>1, <2>2
  <2>3. CASE ~(j < i)
    <3>1. /\ j - (i - 1) \in 1..(Len(s) - i) /\ i + (j - (i - 1)) = j + 1
          /\ ~(j <= i - 1)
      BY <1>1, <2>3
    <3>2. back[j - (i - 1)] = s[i + (j - (i - 1))]
      BY <1>3, <3>1
    <3>3. QED
      BY <2>1, <2>3, <3>1, <3>2
  <2>4. QED
    BY <2>2, <2>3
<1>6. QED
  BY <1>4, <1>5 DEF RemoveAt, front, back

\* What remains is the rest, when no element is there twice.
LEMMA ToSetRemoveAt ==
    ASSUME NEW S, NEW s \in Seq(S), NEW i \in 1..Len(s),
           \A j, k \in 1..Len(s) : j # k => s[j] # s[k]
    PROVE  /\ ToSet(RemoveAt(s, i)) = ToSet(s) \ {s[i]}
           /\ \A j, k \in 1..Len(RemoveAt(s, i)) :
                 j # k => RemoveAt(s, i)[j] # RemoveAt(s, i)[k]
<1> DEFINE r == RemoveAt(s, i)
<1>1. /\ r \in Seq(S) /\ Len(r) = Len(s) - 1 /\ Len(s) \in Nat /\ i \in Nat
      /\ \A j \in 1..(Len(s) - 1) : r[j] = IF j < i THEN s[j] ELSE s[j + 1]
  BY RemoveAtProperties
<1> HIDE DEF r
<1>2. DOMAIN r = 1..(Len(s) - 1) /\ DOMAIN s = 1..Len(s)
  BY <1>1
<1>3. ASSUME NEW x \in ToSet(r) PROVE x \in ToSet(s) \ {s[i]}
  <2>1. PICK j \in 1..(Len(s) - 1) : x = r[j]
    BY <1>2 DEF ToSet
  <2>2. PICK k \in 1..Len(s) : k # i /\ x = s[k]
    BY <1>1, <2>1
  <2>3. QED
    BY <1>2, <2>2 DEF ToSet
<1>4. ASSUME NEW x \in ToSet(s) \ {s[i]} PROVE x \in ToSet(r)
  <2>1. PICK k \in 1..Len(s) : x = s[k] /\ k # i
    BY <1>2 DEF ToSet
  <2>2. PICK j \in 1..(Len(s) - 1) : x = r[j]
    <3>1. CASE k < i
      BY <1>1, <2>1, <3>1
    <3>2. CASE k > i
      <4>1. k - 1 \in 1..(Len(s) - 1) /\ r[k - 1] = s[k]
        BY <1>1, <2>1, <3>2
      <4>2. QED
        BY <2>1, <4>1
    <3>3. QED
      BY <1>1, <2>1, <3>1, <3>2
  <2>3. QED
    BY <1>2, <2>2 DEF ToSet
<1>5. ASSUME NEW j \in 1..Len(r), NEW k \in 1..Len(r), j # k PROVE r[j] # r[k]
  <2> DEFINE old(m) == IF m < i THEN m ELSE m + 1
  <2>1. old(j) \in 1..Len(s) /\ old(k) \in 1..Len(s) /\ old(j) # old(k)
    BY <1>1, <1>5
  <2>2. r[j] = s[old(j)] /\ r[k] = s[old(k)]
    BY <1>1
  <2>3. QED
    BY <2>1, <2>2
<1>6. QED
  BY <1>3, <1>4, <1>5 DEF r

-----------------------------------------------------------------------------
(* Sequences in which nothing is twice.                                    *)

LEMMA DistinctEmpty == IsInjective(<<>>)
BY DEF IsInjective

\* A new element is pushed.
LEMMA DistinctAppend ==
    ASSUME NEW S, NEW s \in Seq(S), NEW e \in S, IsInjective(s), e \notin ToSet(s)
    PROVE  IsInjective(Append(s, e))
<1>1. /\ DOMAIN s = 1..Len(s) /\ Len(s) \in Nat
      /\ DOMAIN Append(s, e) = 1..Len(s) + 1
      /\ \A i \in 1..Len(s) : Append(s, e)[i] = s[i]
      /\ Append(s, e)[Len(s) + 1] = e
  OBVIOUS
<1>2. \A i \in 1..Len(s) : s[i] # e
  BY <1>1 DEF ToSet
<1>3. \A i, j \in 1..Len(s) : s[i] = s[j] => i = j
  BY <1>1 DEF IsInjective
<1> DEFINE r == Append(s, e)
<1>4. DOMAIN r = 1..Len(s) + 1 /\ \A i, j \in 1..Len(s) + 1 : r[i] = r[j] => i = j
  <2>1. \A i \in 1..Len(s) + 1 : i \in 1..Len(s) \/ i = Len(s) + 1
    BY <1>1
  <2> HIDE DEF r
  <2>2. QED
    BY <1>1, <1>2, <1>3, <2>1 DEF r
<1> HIDE DEF r
<1>5. IsInjective(r)
  BY <1>4 DEF IsInjective
<1>6. QED
  BY <1>5 DEF r

\* The first element is popped, and is in the rest no more.
LEMMA DistinctTail ==
    ASSUME NEW S, NEW s \in Seq(S), s # <<>>, IsInjective(s)
    PROVE  IsInjective(Tail(s)) /\ Head(s) \notin ToSet(Tail(s))
<1>1. /\ DOMAIN s = 1..Len(s) /\ Len(s) \in Nat /\ Len(s) >= 1 /\ Head(s) = s[1]
      /\ DOMAIN Tail(s) = 1..Len(s) - 1
      /\ \A i \in 1..Len(s) - 1 : Tail(s)[i] = s[i + 1]
  OBVIOUS
<1>2. \A i \in 1..Len(s) - 1 : i + 1 \in 1..Len(s) /\ i + 1 # 1
  BY <1>1
<1>3. \A i, j \in 1..Len(s) : s[i] = s[j] => i = j
  BY <1>1 DEF IsInjective
<1> DEFINE t == Tail(s)
<1>4. DOMAIN t = 1..Len(s) - 1 /\ \A i \in 1..Len(s) - 1 : t[i] = s[i + 1]
  BY <1>1
<1> HIDE DEF t
<1>5. IsInjective(t)
  <2>1. \A i, j \in 1..Len(s) - 1 : t[i] = t[j] => i + 1 = j + 1
    BY <1>2, <1>3, <1>4
  <2>2. QED
    BY <1>1, <1>4, <2>1 DEF IsInjective
<1>6. Head(s) \notin ToSet(t)
  BY <1>1, <1>2, <1>3, <1>4 DEF ToSet
<1>7. QED
  BY <1>5, <1>6 DEF t

\* Two sequences with nothing in common, one after the other.
LEMMA DistinctConcat ==
    ASSUME NEW S, NEW s \in Seq(S), NEW r \in Seq(S), IsInjective(s), IsInjective(r),
           ToSet(s) \cap ToSet(r) = {}
    PROVE  IsInjective(s \o r)
<1>1. /\ DOMAIN s = 1..Len(s) /\ DOMAIN r = 1..Len(r) /\ Len(s) \in Nat /\ Len(r) \in Nat
      /\ DOMAIN (s \o r) = 1..Len(s) + Len(r)
      /\ \A i \in 1..Len(s) + Len(r) :
            (s \o r)[i] = IF i <= Len(s) THEN s[i] ELSE r[i - Len(s)]
  OBVIOUS
<1>2. \A i \in 1..Len(s), j \in 1..Len(r) : s[i] # r[j]
  BY <1>1 DEF ToSet
<1>3. /\ \A i, j \in 1..Len(s) : s[i] = s[j] => i = j
      /\ \A i, j \in 1..Len(r) : r[i] = r[j] => i = j
  BY <1>1 DEF IsInjective
<1> DEFINE q == s \o r
<1>4. /\ DOMAIN q = 1..Len(s) + Len(r)
      /\ \A i \in 1..Len(s) + Len(r) :
            \/ i \in 1..Len(s) /\ q[i] = s[i]
            \/ i - Len(s) \in 1..Len(r) /\ q[i] = r[i - Len(s)] /\ i > Len(s)
  BY <1>1
<1> HIDE DEF q
<1>5. ASSUME NEW i \in DOMAIN q, NEW j \in DOMAIN q, q[i] = q[j] PROVE i = j
  <2>1. CASE i \in 1..Len(s) /\ q[i] = s[i]
    <3>1. j \in 1..Len(s) /\ q[j] = s[j]
      BY <1>2, <1>4, <1>5, <2>1
    <3>2. QED
      BY <1>3, <1>5, <2>1, <3>1
  <2>2. CASE i - Len(s) \in 1..Len(r) /\ q[i] = r[i - Len(s)]
    <3>1. j - Len(s) \in 1..Len(r) /\ q[j] = r[j - Len(s)]
      BY <1>2, <1>4, <1>5, <2>2
    <3>2. i - Len(s) = j - Len(s)
      BY <1>3, <1>5, <2>2, <3>1
    <3>3. QED
      BY <1>1, <1>4, <3>2
  <2>3. QED
    BY <1>4, <2>1, <2>2
<1>6. IsInjective(q)
  BY <1>5 DEF IsInjective
<1>7. QED
  BY <1>6 DEF q

\* A set with at most one element has that many.
LEMMA AtMostOne ==
    ASSUME NEW S, \A x, y \in S : x = y
    PROVE  Cardinality(S) = IF S = {} THEN 0 ELSE 1
<1>1. CASE S = {}
  BY <1>1, FS_EmptySet
<1>2. CASE S # {}
  <2>1. PICK x \in S : S = {x}
    BY <1>2
  <2>2. QED
    BY <1>2, <2>1, FS_Singleton
<1>3. QED
  BY <1>1, <1>2

\* An element is once in it, or not at all.
LEMMA CountDistinct ==
    ASSUME NEW s, IsInjective(s), NEW x
    PROVE  Cardinality({i \in DOMAIN s : s[i] = x}) = IF x \in ToSet(s) THEN 1 ELSE 0
<1> DEFINE C == {i \in DOMAIN s : s[i] = x}
<1>1. \A i, j \in C : i = j
  BY DEF IsInjective
<1>2. C = {} <=> x \notin ToSet(s)
  BY DEF ToSet
<1> HIDE DEF C
<1>3. Cardinality(C) = IF C = {} THEN 0 ELSE 1
  BY <1>1, AtMostOne
<1>4. Cardinality(C) = IF x \in ToSet(s) THEN 1 ELSE 0
  BY <1>2, <1>3
<1>5. QED
  BY <1>4 DEF C

-----------------------------------------------------------------------------
(* Functions that recur, downwards and upwards, and what FlattenSeq makes.  *)

\* g is defined from n downwards: at a place of last by base, elsewhere by a step from
\* what it is at a later place.
IsDescent(g, n, last, base, step, next) ==
    \A i \in 1..n : g[i] = IF i \in last THEN base[i] ELSE step[i][g[next[i]]]

CanDescend(n, T, last, base, step, next) ==
    /\ n \in Nat /\ last \in SUBSET (1..n) /\ base \in [last -> T]
    /\ step \in [(1..n) \ last -> [T -> T]]
    /\ next \in [(1..n) \ last -> 1..n]
    /\ \A i \in (1..n) \ last : next[i] > i
HasDescent(n, T, last, base, step, next) ==
    \E g \in [1..n -> T] : IsDescent(g, n, last, base, step, next)

\* A function that recurs only at later places exists.
LEMMA DescentExists ==
    ASSUME NEW n, NEW T, NEW last, NEW base, NEW step, NEW next,
           CanDescend(n, T, last, base, step, next)
    PROVE  HasDescent(n, T, last, base, step, next)
<1> USE DEF CanDescend
<1> DEFINE At(g, i) == IF i \in last THEN base[i] ELSE step[i][g[next[i]]]
           Downto(g, k) == \A i \in 1..n : i > n - k => g[i] = At(g, i)
           Missing == {k \in 0..n : ~ \E g \in [1..n -> T] : Downto(g, k)}
<1>1. ASSUME NEW f \in [1..n -> T], NEW i \in 1..n PROVE At(f, i) \in T
  <2>1. CASE i \in last
    BY <2>1
  <2>2. CASE i \notin last
    <3>1. next[i] \in 1..n /\ step[i] \in [T -> T]
      BY <2>2
    <3>2. f[next[i]] \in T
      BY <3>1
    <3>3. QED
      BY <2>2, <3>1, <3>2
  <2>3. QED
    BY <2>1, <2>2
<1>2. Missing = {}
  <2> SUFFICES ASSUME Missing # {} PROVE FALSE
    OBVIOUS
  <2>1. Missing \in SUBSET Nat
    OBVIOUS
  <2> HIDE DEF Missing
  <2>2. PICK k \in Missing : \A m \in Missing : k <= m
    BY <2>1, LeastNat
  <2>3. k \in 0..n /\ ~ \E g \in [1..n -> T] : Downto(g, k)
    BY <2>2 DEF Missing
  <2>4. CASE k = 0
    <3> DEFINE g == [i \in 1..n |-> base[n]]
    <3>1. n > 0 => n \in last
      OBVIOUS
    <3>2. g \in [1..n -> T]
      BY <3>1
    <3>3. Downto(g, 0)
      OBVIOUS
    <3>4. QED
      BY <2>3, <2>4, <3>2, <3>3
  <2>5. CASE k > 0
    <3>1. k - 1 \in 0..n /\ k - 1 \notin Missing
      BY <2>2, <2>3, <2>5
    <3> HIDE DEF At
    <3>2. PICK f \in [1..n -> T] : Downto(f, k - 1)
      BY <3>1 DEF Missing
    <3> DEFINE g == [i \in 1..n |-> IF i = n - k + 1 THEN At(f, i) ELSE f[i]]
    <3>3. g \in [1..n -> T]
      BY <1>1
    <3>4. ASSUME NEW i \in 1..n, i > n - k PROVE g[i] = At(g, i)
      <4>1. At(g, i) = At(f, i)
        <5>1. CASE i \in last
          BY <5>1 DEF At
        <5>2. CASE i \notin last
          <6>1. next[i] \in 1..n /\ next[i] # n - k + 1
            BY <2>3, <3>4, <5>2
          <6>2. g[next[i]] = f[next[i]]
            BY <6>1
          <6>3. QED
            BY <5>2, <6>2 DEF At
        <5>3. QED
          BY <5>1, <5>2
      <4>2. g[i] = At(f, i)
        <5>1. CASE i = n - k + 1
          BY <5>1
        <5>2. CASE i # n - k + 1
          <6>1. i > n - (k - 1)
            BY <2>3, <3>4, <5>2
          <6>2. QED
            BY <3>2, <5>2, <6>1
        <5>3. QED
          BY <5>1, <5>2
      <4>3. QED
        BY <4>1, <4>2
    <3>5. QED
      BY <2>3, <3>3, <3>4
  <2>6. QED
    BY <2>3, <2>4, <2>5
<1>3. PICK g \in [1..n -> T] : Downto(g, n)
  <2>1. n \in 0..n
    OBVIOUS
  <2>2. QED
    BY <1>2, <2>1
<1>4. \A i \in 1..n : i > n - n
  OBVIOUS
<1>5. IsDescent(g, n, last, base, step, next)
  BY <1>3, <1>4 DEF IsDescent
<1>6. QED
  BY <1>5 DEF HasDescent

\* Induction up to n, over the numbers that have a property.
Inductive(P, n) == 0 \in P /\ \A k \in 1..n : k - 1 \in P => k \in P
LEMMA InductTo ==
    ASSUME NEW n \in Nat, NEW P, Inductive(P, n)
    PROVE  n \in P
<1> DEFINE Bad == {k \in 0..n : k \notin P}
<1> USE DEF Inductive
<1>1. SUFFICES ASSUME Bad # {} PROVE FALSE
  OBVIOUS
<1>2. Bad \in SUBSET Nat
  OBVIOUS
<1> HIDE DEF Bad
<1>3. PICK k \in Bad : \A m \in Bad : k <= m
  BY <1>1, <1>2, LeastNat
<1>4. k \in 0..n /\ k \notin P
  BY <1>3 DEF Bad
<1>5. k # 0
  BY <1>4
<1>6. k - 1 \in 0..n /\ k - 1 \notin Bad
  BY <1>3, <1>4, <1>5
<1>7. k - 1 \in P
  BY <1>6 DEF Bad
<1>8. QED
  BY <1>4, <1>5, <1>7

\* A function made from 0 upwards.
IsChain(h, n, base, step) == h[0] = base /\ \A k \in 1..n : h[k] = step[k][h[k - 1]]
CanChain(n, T, base, step) == n \in Nat /\ base \in T /\ step \in [1..n -> [T -> T]]
HasChain(n, T, base, step) == \E h \in [0..n -> T] : IsChain(h, n, base, step)

\* The fold of the numbers up to n that takes the last first, as FoldLeft does.
IsMaxFold(g, n, base, step) ==
    \A s \in SUBSET (1..n) :
        g[s] = IF s = {} THEN base ELSE step[Max(s)][g[s \ {Max(s)}]]
HasMaxFold(n, T, base, step) == \E g \in [SUBSET (1..n) -> T] : IsMaxFold(g, n, base, step)

LEMMA MaxFoldExists ==
    ASSUME NEW n, NEW T, NEW base, NEW step, CanChain(n, T, base, step)
    PROVE  HasMaxFold(n, T, base, step)
<1>1. n \in Nat
  BY DEF CanChain
<1>2. base \in T /\ step \in [1..n -> [T -> T]]
  BY DEF CanChain
<1> DEFINE pick == [s \in SUBSET (1..n) |-> Max(s)]
<1>3. ASSUME NEW s \in SUBSET (1..n) PROVE pick[s] = Max(s)
  BY Zenon
<1> HIDE DEF pick
<1>4. CanFold(1..n, T, base, step, pick)
  <2>1. IsFiniteSet(1..n)
    BY <1>1, FS_Interval
  <2>2. ASSUME NEW s \in SUBSET (1..n), s # {} PROVE pick[s] \in s
    BY <1>1, <1>3, <2>2, MaxIn
  <2>3. QED
    BY <1>2, <2>1, <2>2 DEF CanFold
<1>5. HasFold(1..n, T, base, step, pick)
  BY <1>4, FoldExists
<1>6. PICK g \in [SUBSET (1..n) -> T] : IsFold(g, 1..n, base, step, pick)
  BY <1>5 DEF HasFold
<1>7. ASSUME NEW s \in SUBSET (1..n)
      PROVE  g[s] = IF s = {} THEN base ELSE step[Max(s)][g[s \ {Max(s)}]]
  BY <1>3, <1>6 DEF IsFold
<1>8. IsMaxFold(g, n, base, step)
  BY <1>7 DEF IsMaxFold
<1>9. QED
  BY <1>6, <1>8 DEF HasMaxFold

LEMMA ChainExists ==
    ASSUME NEW n, NEW T, NEW base, NEW step, CanChain(n, T, base, step)
    PROVE  HasChain(n, T, base, step)
<1>1. n \in Nat
  BY DEF CanChain
<1>2. PICK g \in [SUBSET (1..n) -> T] : IsMaxFold(g, n, base, step)
  BY MaxFoldExists DEF HasMaxFold
<1> DEFINE h == [k \in 0..n |-> g[1..k]]
<1>3. h \in [0..n -> T]
  <2>1. \A k \in 0..n : 1..k \in SUBSET (1..n)
    BY <1>1
  <2>2. QED
    BY <2>1
<1>4. h[0] = base
  <2>1. 1..0 = {} /\ {} \in SUBSET (1..n)
    OBVIOUS
  <2>2. 0 \in 0..n
    BY <1>1
  <2>3. QED
    BY <1>2, <2>1, <2>2 DEF IsMaxFold
<1>5. ASSUME NEW k \in 1..n PROVE h[k] = step[k][h[k - 1]]
  <2>1. 1..k \in SUBSET (1..n) /\ 1..k # {} /\ k \in Nat \ {0} /\ k \in 0..n /\ k - 1 \in 0..n
    BY <1>1
  <2>2. g[1..k] = step[k][g[1..(k - 1)]]
    BY <1>2, <2>1, MaxOfFirst DEF IsMaxFold
  <2>3. QED
    BY <2>1, <2>2
<1> HIDE DEF h
<1>6. IsChain(h, n, base, step)
  BY <1>4, <1>5 DEF IsChain
<1>7. QED
  BY <1>3, <1>6 DEF HasChain

\* flatten, the function that FlattenSeq takes the last value of, concatenates from
\* the left.
Cat(r, s) == r \o s
IsFlat(h, n, seqs) == h[1] = seqs[1] /\ \A k \in 2..n : h[k] = Cat(h[k - 1], seqs[k])
FlatInput(n, T, seqs) ==
    /\ n \in Nat \ {0}
    /\ \A i \in 1..n : seqs[i] \in T
    /\ \A r, q \in T : Cat(r, q) \in T
LEMMA FlatExists ==
    ASSUME NEW n, NEW T, NEW seqs, FlatInput(n, T, seqs)
    PROVE  \E h \in [1..n -> T] : IsFlat(h, n, seqs)
<1> DEFINE step == [i \in 1..n |-> [r \in T |-> IF i = 1 THEN seqs[i] ELSE Cat(r, seqs[i])]]
<1>1. n \in Nat \ {0}
  BY DEF FlatInput
<1>2. CanChain(n, T, seqs[1], step)
  BY DEF FlatInput, CanChain
<1>3. ASSUME NEW i \in 1..n, NEW r \in T
      PROVE  step[i][r] = IF i = 1 THEN seqs[i] ELSE Cat(r, seqs[i])
  OBVIOUS
<1> HIDE DEF step
<1>4. HasChain(n, T, seqs[1], step)
  BY <1>2, ChainExists
<1>5. PICK q \in [0..n -> T] : IsChain(q, n, seqs[1], step)
  BY <1>4 DEF HasChain
<1> DEFINE h == [i \in 1..n |-> q[i]]
<1>6. h \in [1..n -> T]
  BY <1>1
<1>7. h[1] = seqs[1]
  BY <1>1, <1>3, <1>5 DEF IsChain
<1>8. ASSUME NEW k \in 2..n PROVE h[k] = Cat(h[k - 1], seqs[k])
  <2>1. k \in 1..n /\ k # 1 /\ k - 1 \in 1..n /\ k - 1 \in 0..n
    BY <1>1
  <2>2. q[k] = step[k][q[k - 1]] /\ q[k - 1] \in T
    BY <1>5, <2>1 DEF IsChain
  <2>3. QED
    BY <1>3, <2>1, <2>2
<1> HIDE DEF h
<1>9. IsFlat(h, n, seqs)
  BY <1>7, <1>8 DEF IsFlat
<1>10. QED
  BY <1>6, <1>9

\* Two of them agree as far as their sequences do.
LEMMA FlatAgrees ==
    ASSUME NEW n \in Nat \ {0}, NEW h, NEW q, NEW r, NEW s, IsFlat(h, n, r), IsFlat(q, n, s),
           \A i \in 1..n : r[i] = s[i]
    PROVE  h[n] = q[n]
<1> DEFINE P == {k \in 0..n : k = 0 \/ q[k] = h[k]}
<1>1. ASSUME NEW k \in 1..n, k - 1 \in P PROVE k \in P
  <2>1. CASE k = 1
    BY <2>1 DEF IsFlat
  <2>2. CASE k # 1
    <3>1. k \in 2..n /\ k - 1 \in 1..n
      BY <2>2
    <3>2. q[k - 1] = h[k - 1]
      BY <1>1, <3>1
    <3>3. h[k] = Cat(h[k - 1], r[k]) /\ q[k] = Cat(q[k - 1], s[k]) /\ r[k] = s[k]
      BY <3>1 DEF IsFlat
    <3>4. QED
      BY <3>2, <3>3
  <2>3. QED
    BY <2>1, <2>2
<1>2. 0 \in P
  OBVIOUS
<1> HIDE DEF P
<1>3. n \in P
  BY <1>1, <1>2, InductTo DEF Inductive
<1>4. QED
  BY <1>3 DEF P

LEMMA FlattenIs ==
    ASSUME NEW n, NEW T, NEW seqs, Len(seqs) = n, FlatInput(n, T, seqs)
    PROVE  \E h \in [1..n -> T] : IsFlat(h, n, seqs) /\ FlattenSeq(seqs) = h[n]
<1> DEFINE flatten[i \in 1..n] == IF i = 1 THEN seqs[i] ELSE Cat(flatten[i - 1], seqs[i])
<1>1. n \in Nat \ {0}
  BY DEF FlatInput
<1>2. PICK h \in [1..n -> T] : IsFlat(h, n, seqs)
  BY FlatExists
<1>3. h = [i \in 1..n |-> IF i = 1 THEN seqs[i] ELSE Cat(h[i - 1], seqs[i])]
  <2>1. ASSUME NEW i \in 1..n, i # 1 PROVE h[i] = Cat(h[i - 1], seqs[i])
    <3>1. i \in 2..n
      BY <1>1, <2>1
    <3>2. QED
      BY <1>2, <3>1 DEF IsFlat
  <2>2. QED
    BY <1>2, <2>1 DEF IsFlat
<1>4. flatten = [i \in 1..n |-> IF i = 1 THEN seqs[i] ELSE Cat(flatten[i - 1], seqs[i])]
  BY <1>3
<1>5. FlattenSeq(seqs) = flatten[n]
  BY <1>1 DEF FlattenSeq, Cat
<1> HIDE DEF flatten
<1>6. IsFlat(flatten, n, seqs)
  <2>1. 1 \in 1..n /\ \A k \in 2..n : k \in 1..n /\ k # 1
    BY <1>1
  <2>2. QED
    BY <1>4, <2>1 DEF IsFlat
<1>7. flatten[n] = h[n]
  BY <1>1, <1>2, <1>6, FlatAgrees
<1>8. QED
  BY <1>2, <1>5, <1>7

\* Of no sequences, and of one more.
LEMMA FlattenEmpty == FlattenSeq(<<>>) = <<>>
BY DEF FlattenSeq

LEMMA FlattenAppend ==
    ASSUME NEW S, NEW seqs \in Seq(Seq(S)), NEW e \in Seq(S)
    PROVE  /\ FlattenSeq(seqs) \in Seq(S)
           /\ FlattenSeq(Append(seqs, e)) = FlattenSeq(seqs) \o e
<1>1. PICK n : n = Len(seqs)
  OBVIOUS
<1>2. PICK all : all = Append(seqs, e)
  OBVIOUS
<1>3. n \in Nat /\ Len(all) = n + 1 /\ all[n + 1] = e
      /\ \A i \in 1..n : all[i] = seqs[i] /\ seqs[i] \in Seq(S)
  BY <1>1, <1>2
<1>4. \A r, q \in Seq(S) : Cat(r, q) \in Seq(S)
  BY ConcatProperties DEF Cat
<1>5. FlatInput(n + 1, Seq(S), all)
  <2>1. \A i \in 1..(n + 1) : i \in 1..n \/ i = n + 1
    BY <1>3
  <2>2. \A i \in 1..(n + 1) : all[i] \in Seq(S)
    BY <1>3, <2>1
  <2>3. n + 1 \in Nat \ {0}
    BY <1>3
  <2>4. QED
    BY <1>4, <2>2, <2>3 DEF FlatInput
<1>6. PICK q : IsFlat(q, n + 1, all) /\ FlattenSeq(all) = q[n + 1]
  BY <1>3, <1>5, FlattenIs
<1>7. CASE n = 0
  <2>1. seqs = <<>>
    BY <1>1, <1>7, EmptySeq
  <2>2. FlattenSeq(seqs) = <<>>
    BY <2>1, FlattenEmpty
  <2>3. FlattenSeq(all) = e
    BY <1>3, <1>6, <1>7 DEF IsFlat
  <2>4. QED
    BY <1>2, <2>2, <2>3, ConcatEmptySeq
<1>8. CASE n > 0
  <2>1. FlatInput(n, Seq(S), seqs)
    BY <1>3, <1>4, <1>8 DEF FlatInput
  <2>2. PICK h \in [1..n -> Seq(S)] : IsFlat(h, n, seqs) /\ FlattenSeq(seqs) = h[n]
    BY <1>1, <2>1, FlattenIs
  <2>3. IsFlat(q, n, all) /\ q[n + 1] = Cat(q[n], e)
    <3>1. n + 1 \in 2..(n + 1) /\ (n + 1) - 1 = n
      BY <1>3, <1>8
    <3>2. \A k \in 2..n : k \in 2..(n + 1)
      BY <1>3
    <3>3. QED
      BY <1>3, <1>6, <3>1, <3>2 DEF IsFlat
  <2>4. q[n] = h[n]
    <3>1. n \in Nat \ {0}
      BY <1>3, <1>8
    <3>2. ASSUME NEW i \in 1..n PROVE all[i] = seqs[i]
      BY <1>3
    <3>3. QED
      BY <2>2, <2>3, <3>1, <3>2, FlatAgrees
  <2>5. n \in 1..n
    BY <1>3, <1>8
  <2>6. QED
    BY <1>2, <1>6, <2>2, <2>3, <2>4, <2>5 DEF Cat
<1>9. QED
  BY <1>3, <1>7, <1>8

-----------------------------------------------------------------------------
(* Least and initial parts; sequences that agree; remainders.               *)

\* A set of numbers has one least element.
LEMMA MinIs ==
    ASSUME NEW S \in SUBSET Int, NEW m \in S, \A x \in S : m <= x
    PROVE  Min(S) = m
<1>1. Min(S) \in S /\ \A x \in S : Min(S) <= x
  BY DEF Min
<1>2. Min(S) \in Int /\ m \in Int /\ Min(S) <= m /\ m <= Min(S)
  BY <1>1
<1>3. QED
  BY <1>2

\* A place is in P if all later ones are.
InductiveDown(P, n) == \A i \in 1..n : (\A m \in (i + 1)..n : m \in P) => i \in P

\* Induction downwards from n.
LEMMA InductDown ==
    ASSUME NEW n \in Nat, NEW P, InductiveDown(P, n)
    PROVE  \A i \in 1..n : i \in P
<1> DEFINE Rest == {i \in 1..n : i \notin P}
<1>1. SUFFICES ASSUME Rest # {} PROVE FALSE
  OBVIOUS
<1>2. Rest \in SUBSET (1..n)
  OBVIOUS
<1> HIDE DEF Rest
<1>3. PICK i \in Rest : \A m \in Rest : m <= i
  BY <1>1, <1>2, MaxIn
<1>4. i \in 1..n /\ i \notin P
  BY <1>3 DEF Rest
<1>5. ASSUME NEW m \in (i + 1)..n PROVE m \in P
  <2>1. m \in 1..n /\ m \notin Rest
    BY <1>3, <1>4
  <2>2. QED
    BY <2>1 DEF Rest
<1>6. QED
  BY <1>4, <1>5 DEF InductiveDown

\* A set of numbers with all smaller ones.
DownClosed(D) == \A k \in D : \A m \in 1..k : m \in D

\* It is an interval.
LEMMA InitialSegment ==
    ASSUME NEW n \in Nat, NEW D \in SUBSET (1..n), DownClosed(D)
    PROVE  D = 1..Cardinality(D) /\ Cardinality(D) \in 0..n
<1>1. CASE D = {}
  <2>1. Cardinality(D) = 0
    BY <1>1, FS_EmptySet
  <2>2. QED
    BY <1>1, <2>1
<1>2. CASE D # {}
  <2>1. PICK k \in D : \A m \in D : m <= k
    BY <1>2, MaxIn
  <2>2. k \in 1..n
    BY <2>1
  <2>3. D = 1..k
    <3>1. \A m \in 1..k : m \in D
      BY DEF DownClosed
    <3>2. \A m \in D : m \in 1..k
      BY <2>1
    <3>3. QED
      BY <3>1, <3>2
  <2>4. Cardinality(1..k) = k
    <3>1. k >= 1 /\ (k - 1) + 1 = k
      BY <2>2
    <3>2. QED
      BY <2>2, <3>1, FS_Interval
  <2>5. QED
    BY <2>2, <2>3, <2>4
<1>3. QED
  BY <1>1, <1>2

\* The steps of two chains are the same.
SameSteps(n, T, r, s) == \A i \in 1..n, e \in T : r[i][e] = s[i][e]

\* Two chains agree as far as their steps do.
LEMMA ChainAgrees ==
    ASSUME NEW n \in Nat, NEW T, NEW h \in [0..n -> T], NEW q, NEW first, NEW r, NEW s,
           IsChain(h, n, first, r), IsChain(q, n, first, s),
           SameSteps(n, T, r, s)
    PROVE  q[n] = h[n]
<1> DEFINE P == {k \in 0..n : q[k] = h[k]}
<1>1. ASSUME NEW k \in 1..n, k - 1 \in P PROVE k \in P
  <2>1. q[k - 1] = h[k - 1] /\ k - 1 \in 0..n /\ h[k - 1] \in T
    BY <1>1
  <2>2. q[k] = s[k][q[k - 1]] /\ h[k] = r[k][h[k - 1]]
    BY DEF IsChain
  <2>3. q[k] = h[k]
    BY <2>1, <2>2 DEF SameSteps
  <2>4. QED
    BY <2>3
<1>2. 0 \in P
  BY DEF IsChain
<1> HIDE DEF P
<1>3. n \in P
  BY <1>1, <1>2, InductTo DEF Inductive
<1>4. QED
  BY <1>3 DEF P

\* A function on the first n numbers is a sequence.
LEMMA IsSequence ==
    ASSUME NEW n \in Nat, NEW f, f = [k \in 1..n |-> f[k]]
    PROVE  Len(f) = n /\ f \in Seq({f[k] : k \in 1..n})
<1>1. f \in [1..n -> {f[k] : k \in 1..n}]
  OBVIOUS
<1>2. f \in Seq({f[k] : k \in 1..n})
  BY <1>1
<1>3. DOMAIN f = 1..n
  BY <1>1
<1>4. QED
  BY <1>2, <1>3

\* Sequences that agree up to a place begin alike.
LEMMA SubSeqAgrees ==
    ASSUME NEW x, NEW y, NEW n \in Nat, \A k \in 1..n : x[k] = y[k]
    PROVE  SubSeq(x, 1, n) = SubSeq(y, 1, n)
<1>1. PICK S : S = {x[k] : k \in 1..n}
  OBVIOUS
<1>2. PICK q, u : q = SubSeq(x, 1, n) /\ u = SubSeq(y, 1, n)
  OBVIOUS
<1>3. \A k \in 1..n : x[k] \in S /\ y[k] \in S
  BY <1>1
<1>4. q \in Seq(S) /\ Len(q) = n /\ \A k \in 1..n : q[k] = x[k]
  <2>1. /\ q \in Seq(S) /\ Len(q) = IF 1 <= n THEN n - 1 + 1 ELSE 0
        /\ \A k \in 1..(n - 1 + 1) : q[k] = x[1 + k - 1]
    BY <1>2, <1>3, SubSeqProperties
  <2>2. QED
    BY <2>1
<1>5. u \in Seq(S) /\ Len(u) = n /\ \A k \in 1..n : u[k] = y[k]
  <2>1. /\ u \in Seq(S) /\ Len(u) = IF 1 <= n THEN n - 1 + 1 ELSE 0
        /\ \A k \in 1..(n - 1 + 1) : u[k] = y[1 + k - 1]
    BY <1>2, <1>3, SubSeqProperties
  <2>2. QED
    BY <2>1
<1>6. QED
  BY <1>2, <1>4, <1>5

\* Quotient and remainder.
LEMMA ModOf ==
    ASSUME NEW w \in Nat \ {0}, NEW a \in Nat
    PROVE  \E q \in Nat, r \in 0..(w - 1) : a = w * q + r /\ a % w = r
<1>1. a = w * (a \div w) + (a % w) /\ a \div w \in Nat /\ (a % w) \in 0..(w - 1)
  OBVIOUS
<1>2. QED
  BY <1>1

\* A remainder is what is left of multiples.
LEMMA ModIs ==
    ASSUME NEW w \in Nat \ {0}, NEW q \in Nat, NEW r \in 0..(w-1)
    PROVE  (w * q + r) % w = r
OBVIOUS

\* A number that is built digit by digit can be reduced at each of them.
LEMMA ModStep ==
    ASSUME NEW w \in Nat \ {0}, NEW a \in Nat, NEW m \in Nat, NEW n \in Nat
    PROVE  (a * n + m) % w = ((a % w) * n + m) % w
<1>1. PICK q \in Nat, r \in 0..(w - 1) : a = w * q + r /\ a % w = r
  BY ModOf
<1>2. PICK b \in Nat : b = r * n + m
  OBVIOUS
<1>3. PICK p \in Nat, o \in 0..(w - 1) : b = w * p + o /\ b % w = o
  BY <1>2, ModOf
<1>4. a * n + m = w * (q * n) + b
  BY <1>1, <1>2
<1>5. a * n + m = w * (q * n + p) + o
  <2>1. w * (q * n + p) = w * (q * n) + w * p
    OBVIOUS
  <2>2. w * (q * n) \in Nat /\ w * p \in Nat
    OBVIOUS
  <2>3. QED
    BY <1>3, <1>4, <2>1, <2>2
<1>6. q * n + p \in Nat
  OBVIOUS
<1>7. (w * (q * n + p) + o) % w = o
  BY <1>6, ModIs
<1>8. QED
  BY <1>1, <1>2, <1>3, <1>5, <1>7

=============================================================================
