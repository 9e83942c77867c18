---------------------------- MODULE MemoryProofs ----------------------------
(***************************************************************************)
(* Proofs about Memory, for every set of threads, traces and buffers, any  *)
(* number of blocks and any limits.  The invariant gives every block one   *)
(* place and every store a stack of the blocks it lists; an action moves at*)
(* most two blocks and leaves the others where they are.  From it follow   *)
(* that the stores are exact and, action by action, that the counts of a   *)
(* trace are the number of its blocks and the sum of their sizes.          *)
(***************************************************************************)
EXTENDS Memory, SequenceLemmas, FiniteSetTheorems, TLAPS

-----------------------------------------------------------------------------
(* Sums over sets of blocks.  MapThenSumSet takes the elements of a set one *)
(* by one, in an order that CHOOSE decides; the sum does not depend on it.  *)

\* g is the sum of r over each subset of S, taken in that order.
AnyOf(s) == CHOOSE x \in s : TRUE
IsSum(g, r, S) ==
    \A s \in SUBSET S : g[s] = IF s = {} THEN 0 ELSE r[AnyOf(s)] + g[s \ {AnyOf(s)}]

\* What is left of a set without the element that CHOOSE takes.
LEMMA AnyOfSmaller ==
    ASSUME NEW s, IsFiniteSet(s), s # {}
    PROVE  /\ AnyOf(s) \in s
           /\ Cardinality(s \ {AnyOf(s)}) \in Nat
           /\ Cardinality(s) \in Nat
           /\ Cardinality(s \ {AnyOf(s)}) = Cardinality(s) - 1
<1>1. AnyOf(s) \in s
  BY DEF AnyOf
<1>2. QED
  BY <1>1, FS_RemoveElement, FS_CardinalityType

\* There is such a function.
LEMMA SumExists ==
    ASSUME NEW S, IsFiniteSet(S), NEW r, \A x \in S : r[x] \in Nat
    PROVE  \E g \in [SUBSET S -> Nat] : IsSum(g, r, S)
<1> DEFINE step == [x \in S |-> [n \in Nat |-> r[x] + n]]
           pick == [s \in SUBSET S |-> AnyOf(s)]
<1>1. \A s \in SUBSET S : s # {} => pick[s] = AnyOf(s) /\ AnyOf(s) \in S /\ AnyOf(s) \in s
  BY DEF AnyOf
<1>2. \A x \in S : \A n \in Nat : step[x][n] = r[x] + n
  OBVIOUS
<1>3. step \in [S -> [Nat -> Nat]]
  OBVIOUS
<1> HIDE DEF step, pick
<1>4. CanFold(S, Nat, 0, step, pick)
  BY <1>1, <1>3 DEF CanFold
<1>5. HasFold(S, Nat, 0, step, pick)
  BY <1>4, FoldExists
<1>6. PICK g \in [SUBSET S -> Nat] : IsFold(g, S, 0, step, pick)
  BY <1>5 DEF HasFold
<1>7. ASSUME NEW s \in SUBSET S
      PROVE  g[s] = IF s = {} THEN 0 ELSE r[AnyOf(s)] + g[s \ {AnyOf(s)}]
  <2>1. CASE s = {}
    BY <1>6, <2>1 DEF IsFold
  <2>2. CASE s # {}
    <3>1. g[s] = step[AnyOf(s)][g[s \ {AnyOf(s)}]]
      BY <1>1, <1>6, <2>2 DEF IsFold
    <3>2. AnyOf(s) \in S /\ g[s \ {AnyOf(s)}] \in Nat
      BY <1>1, <2>2
    <3>3. QED
      BY <1>2, <2>2, <3>1, <3>2
  <2>3. QED
    BY <2>1, <2>2
<1>8. QED
  BY <1>7 DEF IsSum

\* g sums, whatever the order.
Adds(g, r, S) ==
    \A s \in SUBSET S : g[s] \in Nat /\ \A x \in S \ s : g[s \cup {x}] = g[s] + r[x]

\* Any such function does.
LEMMA SumAdd ==
    ASSUME NEW S, IsFiniteSet(S), NEW r, \A x \in S : r[x] \in Nat, NEW g, IsSum(g, r, S)
    PROVE  Adds(g, r, S)
<1>1. \A s \in SUBSET S : IsFiniteSet(s) /\ Cardinality(s) \in Nat
  BY FS_Subset, FS_CardinalityType
<1> DEFINE Good(s) == g[s] \in Nat /\ \A x \in s : g[s] = g[s \ {x}] + r[x]
           Bad == {Cardinality(s) : s \in {t \in SUBSET S : ~Good(t)}}
<1>2. \A s \in SUBSET S : Good(s)
  <2> SUFFICES ASSUME \E s \in SUBSET S : ~Good(s) PROVE FALSE
    OBVIOUS
  <2>1. Bad \in SUBSET Nat /\ Bad # {}
    BY <1>1
  <2>2. PICK n \in Bad : \A m \in Bad : n <= m
    BY <2>1, LeastNat
  <2>3. PICK s \in SUBSET S : ~Good(s) /\ Cardinality(s) = n
    BY <2>2
  <2> HIDE DEF Good
  <2>4. ASSUME NEW t \in SUBSET S, Cardinality(t) < Cardinality(s) PROVE Good(t)
    <3>1. CASE ~Good(t)
      <4>1. Cardinality(t) \in Bad
        BY <3>1
      <4>2. n <= Cardinality(t) /\ Cardinality(t) \in Nat /\ n \in Nat
        BY <1>1, <2>1, <2>2, <4>1
      <4>3. QED
        BY <2>3, <2>4, <4>2
    <3>2. QED
      BY <3>1
  <2> HIDE DEF Bad
  <2>5. CASE s = {}
    <3>1. g[s] = 0
      BY <2>5 DEF IsSum
    <3>2. QED
      BY <2>3, <2>5, <3>1 DEF Good
  <2>6. CASE s # {}
    <3> DEFINE y == AnyOf(s)
    <3>1. y \in s /\ Cardinality(s \ {y}) < Cardinality(s)
      BY <1>1, <2>6, AnyOfSmaller
    <3>2. g[s] = r[y] + g[s \ {y}] /\ g[s \ {y}] \in Nat /\ r[y] \in Nat
      <4>1. Good(s \ {y})
        BY <2>4, <3>1
      <4>2. QED
        BY <2>6, <3>1, <4>1 DEF IsSum, Good
    <3> HIDE DEF y
    <3>3. ASSUME NEW x \in s PROVE g[s] = g[s \ {x}] + r[x]
      <4>1. CASE x = y
        BY <3>2, <4>1
      <4>2. CASE x # y
        <5>1. Good(s \ {y}) /\ Good(s \ {x})
          <6>1. Cardinality(s \ {x}) < Cardinality(s)
            BY <1>1, FS_RemoveElement
          <6>2. QED
            BY <2>4, <3>1, <6>1
        <5>2. g[s \ {y}] = g[(s \ {y}) \ {x}] + r[x]
          BY <3>3, <4>2, <5>1 DEF Good
        <5>3. g[s \ {x}] = g[(s \ {x}) \ {y}] + r[y]
          BY <3>1, <4>2, <5>1 DEF Good
        <5>4. (s \ {y}) \ {x} = (s \ {x}) \ {y}
          OBVIOUS
        <5>5. r[x] \in Nat /\ g[s \ {x}] \in Nat /\ g[(s \ {y}) \ {x}] \in Nat
          <6>1. Cardinality((s \ {x}) \ {y}) < Cardinality(s)
            <7>1. (s \ {x}) \ {y} \subseteq s \ {y}
              OBVIOUS
            <7>2. IsFiniteSet(s \ {y})
              BY <1>1
            <7>3. Cardinality((s \ {x}) \ {y}) <= Cardinality(s \ {y})
              BY <7>1, <7>2, FS_Subset
            <7>4. QED
              BY <1>1, <3>1, <7>3
          <6>2. Good((s \ {x}) \ {y})
            BY <2>4, <6>1
          <6>3. QED
            BY <5>1, <5>4, <6>2 DEF Good
        <5>6. g[s \ {x}] = g[(s \ {y}) \ {x}] + r[y]
          BY <5>3, <5>4
        <5>7. g[s] = r[y] + (g[(s \ {y}) \ {x}] + r[x])
          BY <3>2, <5>2
        <5> DEFINE least == g[(s \ {y}) \ {x}]
        <5>8. least \in Nat /\ g[s] = r[y] + (least + r[x]) /\ g[s \ {x}] = least + r[y]
          BY <5>5, <5>6, <5>7
        <5> HIDE DEF least
        <5>9. QED
          BY <3>2, <5>5, <5>8
      <4>3. QED
        BY <4>1, <4>2
    <3>4. g[s] \in Nat
      BY <3>2
    <3>5. QED
      BY <2>3, <3>3, <3>4 DEF Good
  <2>7. QED
    BY <2>5, <2>6
<1>3. ASSUME NEW s \in SUBSET S, NEW x \in S \ s
      PROVE  g[s \cup {x}] = g[s] + r[x]
  <2>1. Good(s \cup {x}) /\ x \in s \cup {x}
    BY <1>2
  <2>2. (s \cup {x}) \ {x} = s
    OBVIOUS
  <2>3. QED
    BY <2>1, <2>2
<1> HIDE DEF Good
<1>4. \A s \in SUBSET S : g[s] \in Nat
  BY <1>2 DEF Good
<1>5. QED
  BY <1>3, <1>4 DEF Adds

\* The sum of r over S, as TracesAreExact says it.
Total(r, S) == MapThenSumSet(LAMBDA x : r[x], S)

\* The sum of r over S is the value of such a function.
LEMMA TotalIsSum ==
    ASSUME NEW S, IsFiniteSet(S), NEW r, \A x \in S : r[x] \in Nat
    PROVE  \E g : IsSum(g, r, S) /\ Total(r, S) = g[S]
<1> DEFINE iter[s \in SUBSET S] ==
             IF s = {} THEN 0 ELSE r[AnyOf(s)] + iter[s \ {AnyOf(s)}]
<1>1. Total(r, S) = iter[S]
  BY DEF Total, MapThenSumSet, MapThenFoldSet, AnyOf
<1>2. PICK g \in [SUBSET S -> Nat] : IsSum(g, r, S)
  BY SumExists
<1>3. g = [s \in SUBSET S |-> IF s = {} THEN 0 ELSE r[AnyOf(s)] + g[s \ {AnyOf(s)}]]
  BY <1>2 DEF IsSum
<1>4. iter = [s \in SUBSET S |-> IF s = {} THEN 0 ELSE r[AnyOf(s)] + iter[s \ {AnyOf(s)}]]
  BY <1>3
<1> HIDE DEF iter
<1>5. IsSum(iter, r, S)
  BY <1>4 DEF IsSum
<1>6. QED
  BY <1>1, <1>5

\* Only what r says of the elements counts.
LEMMA TotalAgrees ==
    ASSUME NEW S, IsFiniteSet(S), NEW r, \A x \in S : r[x] \in Nat, NEW g, IsSum(g, r, S),
           NEW q, NEW T \in SUBSET S, \A x \in T : q[x] = r[x]
    PROVE  Total(q, T) = g[T]
<1>1. IsFiniteSet(T) /\ \A x \in T : q[x] \in Nat
  BY FS_Subset
<1>2. PICK h : IsSum(h, q, T) /\ Total(q, T) = h[T]
  BY <1>1, TotalIsSum
<1> DEFINE Bad == {Cardinality(s) : s \in {t \in SUBSET T : h[t] # g[t]}}
<1>3. \A s \in SUBSET T : IsFiniteSet(s) /\ Cardinality(s) \in Nat
  BY <1>1, FS_Subset, FS_CardinalityType
<1>4. \A s \in SUBSET T : h[s] = g[s]
  <2> SUFFICES ASSUME \E s \in SUBSET T : h[s] # g[s] PROVE FALSE
    OBVIOUS
  <2>1. Bad \in SUBSET Nat /\ Bad # {}
    BY <1>3
  <2>2. PICK n \in Bad : \A m \in Bad : n <= m
    BY <2>1, LeastNat
  <2>3. PICK s \in SUBSET T : h[s] # g[s] /\ Cardinality(s) = n
    BY <2>2
  <2>4. s # {}
    BY <1>2, <2>3 DEF IsSum
  <2>5. AnyOf(s) \in s /\ Cardinality(s \ {AnyOf(s)}) < Cardinality(s)
    BY <1>3, <2>4, AnyOfSmaller
  <2>6. h[s \ {AnyOf(s)}] = g[s \ {AnyOf(s)}]
    <3>1. CASE h[s \ {AnyOf(s)}] # g[s \ {AnyOf(s)}]
      <4>1. Cardinality(s \ {AnyOf(s)}) \in Bad
        BY <3>1
      <4>2. n <= Cardinality(s \ {AnyOf(s)}) /\ Cardinality(s \ {AnyOf(s)}) \in Nat /\ n \in Nat
        BY <1>3, <2>1, <2>2, <4>1
      <4>3. QED
        BY <2>3, <2>5, <4>2
    <3>2. QED
      BY <3>1
  <2>7. h[s] = q[AnyOf(s)] + h[s \ {AnyOf(s)}]
    BY <1>2, <2>4 DEF IsSum
  <2>8. g[s] = r[AnyOf(s)] + g[s \ {AnyOf(s)}]
    BY <2>4 DEF IsSum
  <2>9. q[AnyOf(s)] = r[AnyOf(s)]
    BY <2>5
  <2>10. QED
    BY <2>3, <2>6, <2>7, <2>8, <2>9
<1>5. QED
  BY <1>2, <1>4

\* The sum over a set.
LEMMA TotalFacts ==
    ASSUME NEW S, IsFiniteSet(S), NEW r, \A x \in S : r[x] \in Nat
    PROVE  /\ Total(r, {}) = 0
           /\ \A T \in SUBSET S :
                 /\ Total(r, T) \in Nat
                 /\ \A x \in S \ T : Total(r, T \cup {x}) = Total(r, T) + r[x]
<1>1. PICK g : IsSum(g, r, S)
  BY SumExists
<1>2. \A T \in SUBSET S : Total(r, T) = g[T]
  BY <1>1, TotalAgrees
<1>3. Adds(g, r, S)
  BY <1>1, SumAdd
<1>4. g[{}] = 0
  BY <1>1 DEF IsSum
<1>5. {} \in SUBSET S
  OBVIOUS
<1>6. Total(r, {}) = 0
  BY <1>2, <1>4, <1>5
<1>7. ASSUME NEW T \in SUBSET S, NEW x \in S \ T
      PROVE  Total(r, T \cup {x}) = Total(r, T) + r[x]
  <2>1. T \cup {x} \in SUBSET S
    OBVIOUS
  <2>2. g[T \cup {x}] = g[T] + r[x]
    BY <1>3 DEF Adds
  <2>3. QED
    BY <1>2, <2>1, <2>2
<1>8. \A T \in SUBSET S : Total(r, T) \in Nat
  BY <1>2, <1>3 DEF Adds
<1>9. QED
  BY <1>6, <1>7, <1>8

\* Two functions that agree on a set have the same sum over it.
LEMMA TotalSame ==
    ASSUME NEW S, IsFiniteSet(S), NEW r, \A x \in S : r[x] \in Nat,
           NEW q, \A x \in S : q[x] = r[x]
    PROVE  Total(q, S) = Total(r, S)
<1>1. PICK g : IsSum(g, r, S)
  BY SumExists
<1>2. Total(q, S) = g[S] /\ Total(r, S) = g[S]
  BY <1>1, TotalAgrees
<1>3. QED
  BY <1>2

\* The sum without one of the elements.
LEMMA TotalRemove ==
    ASSUME NEW S, IsFiniteSet(S), NEW r, \A x \in S : r[x] \in Nat, NEW y \in S
    PROVE  Total(r, S \ {y}) = Total(r, S) - r[y]
<1>1. S \ {y} \in SUBSET S /\ y \in S \ (S \ {y}) /\ (S \ {y}) \cup {y} = S
  OBVIOUS
<1>2. Total(r, S \ {y}) \in Nat /\ Total(r, S) = Total(r, S \ {y}) + r[y]
  BY <1>1, TotalFacts
<1>3. QED
  BY <1>2

-----------------------------------------------------------------------------
(* The invariant.                                                           *)

MaybeBlock == Block \cup {NoBlock}
Cbuffer == [trace : Trace, data : MaybeBlock, length : Length, max : Length]
Call == [at : {"idle", "take", "malloc", "enter", "leave", "give", "finish"},
         buffer : Buffer \cup {NoBuffer}, from : Buffer \cup {NoBuffer}, trace : Trace,
         old : MaybeBlock, got : MaybeBlock, want : Length]

TypeOK ==
    /\ heap \in SUBSET Block /\ loose \in SUBSET Block
    /\ room \in [Block -> Nat] /\ word \in [Block -> Size \cup MaybeBlock]
    /\ head \in [Size -> MaybeBlock] /\ count \in [Size -> Nat]
    /\ usage \in [Trace -> Int] /\ objects \in [Trace -> Int]
    /\ buffer \in [Buffer -> Cbuffer \cup {NoBuffer}]
    /\ call \in [Thread -> Call]

Data(b) == IF Exists(b) THEN buffer[b].data ELSE NoBlock

\* What a thread has at each step of an operation.
CallInv ==
    /\ \A th \in Thread : LET c == call[th] IN
          /\ c.at = "idle" => c = Idle
          /\ c.at \in {"take", "malloc", "enter"} => c.want > 0
          /\ c.at = "take" => c.got = NoBlock
          /\ c.at = "enter" => c.got # NoBlock
          /\ c.at \in {"leave", "give"} => c.old # NoBlock
          /\ c.at = "finish" => c.old = NoBlock /\ (c.want > 0 => c.got # NoBlock)
          /\ c.got # NoBlock => c.want > 0
          /\ c.want > 0 => c.buffer \in Buffer /\ Data(c.buffer) = NoBlock
    /\ \A th, u \in Thread : th # u /\ call[th].buffer = call[u].buffer => call[th].buffer = NoBuffer

\* A buffer that is not to get a block has what its size says.
Awaits(b) == \E th \in Thread : call[th].buffer = b /\ call[th].want > 0
BufferInv ==
    \A b \in Buffer : Exists(b) =>
        /\ buffer[b].length <= buffer[b].max
        /\ buffer[b].data = NoBlock /\ ~Awaits(b) => buffer[b].max = 0
        /\ buffer[b].data # NoBlock => buffer[b].max + Header = room[buffer[b].data]

\* Every block is in one place, given by `where` and `whose`, and the k-th block
\* of a store, from the bottom, is stack[s][k].
Place == {"heap", "store", "buffer", "loose", "old", "got"}
HeapAt(where) == \A x \in Block : where[x] = "heap" <=> x \in heap
LooseAt(where) == \A x \in Block : where[x] = "loose" <=> x \in loose
BufferAt(where, whose) ==
    \A x \in Block, b \in Buffer : where[x] = "buffer" /\ whose[x] = b <=> Data(b) = x
OldAt(where, whose) ==
    \A x \in Block, th \in Thread : where[x] = "old" /\ whose[x] = th <=> call[th].old = x
GotAt(where, whose) ==
    \A x \in Block, th \in Thread : where[x] = "got" /\ whose[x] = th <=> call[th].got = x
StoreAt(where, whose, depth, stack) ==
    /\ \A s \in Size :
          /\ count[s] <= Limit[s] /\ stack[s][0] = NoBlock /\ head[s] = stack[s][count[s]]
          /\ \A k \in 1..count[s] :
                /\ stack[s][k] \in Block
                /\ where[stack[s][k]] = "store" /\ whose[stack[s][k]] = s
                /\ depth[stack[s][k]] = k
                /\ word[stack[s][k]] = stack[s][k - 1]
    /\ \A x \in Block : where[x] = "store" =>
          /\ whose[x] \in Size /\ depth[x] \in 1..count[whose[x]]
          /\ stack[whose[x]][depth[x]] = x
OwnerType(where, whose, depth, stack) ==
    /\ where \in [Block -> Place] /\ DOMAIN whose = Block
    /\ depth \in [Block -> Nat] /\ stack \in [Size -> [Nat -> MaybeBlock]]
    /\ \A x \in Block : /\ where[x] = "buffer" => whose[x] \in Buffer
                        /\ where[x] \in {"old", "got"} => whose[x] \in Thread
\* What its memory says of a block.
BlockInv(where, whose) ==
    \A x \in Block :
        /\ where[x] = "store" => room[x] = whose[x]
        /\ where[x] \in {"buffer", "loose", "old"} => room[x] \in Size /\ word[x] = room[x]
        /\ where[x] = "got" =>
              /\ room[x] = call[whose[x]].want + Header
              /\ call[whose[x]].at \notin {"malloc", "enter"} => word[x] = room[x]

Placed(where, whose, depth, stack) ==
    /\ OwnerType(where, whose, depth, stack)
    /\ HeapAt(where) /\ LooseAt(where)
    /\ BufferAt(where, whose) /\ OldAt(where, whose) /\ GotAt(where, whose)
    /\ StoreAt(where, whose, depth, stack)
    /\ BlockInv(where, whose)

IInv ==
    /\ TypeOK /\ CallInv /\ BufferInv
    /\ \E where, whose, depth, stack : Placed(where, whose, depth, stack)


\* The invariant with the places that witness it.
Inv(where, whose, depth, stack) == TypeOK /\ CallInv /\ BufferInv /\ Placed(where, whose, depth, stack)

\* The constants: a length that is not 0 and its header make a size.
LEMMA Sizes ==
    /\ Size \in SUBSET (Nat \ {0}) /\ Length \in SUBSET Nat /\ Limit \in [Size -> Nat]
    /\ \A n \in Length : n > 0 => n + Header \in Size
    /\ \A n \in Length : n \in Nat
    /\ Header \in Nat \ {0} /\ 0 \in Length /\ PoolTrace \in Trace
    /\ NoBlock \notin Block /\ NoBuffer \notin Buffer /\ NoBuffer \notin Cbuffer
BY MemoryAssumption DEF Size, Cbuffer, MaybeBlock

\* __alloc takes the first block of a store: it goes from the top of the stack to the
\* thread, and the stack becomes shorter by one.
LEMMA TakePreserves ==
    ASSUME NEW where, NEW whose, NEW depth, NEW stack, Inv(where, whose, depth, stack),
           NEW th \in Thread, Take(th)
    PROVE  IInv'
<1> USE Sizes
<1>1. PICK s \in Size, block \in MaybeBlock : s = call[th].want + Header /\ block = head[s]
  BY DEF Inv, TypeOK, CallInv, Call, Take
<1>2. call[th] \in Call /\ call[th].at = "take" /\ call[th].got = NoBlock /\ call[th].want > 0
  BY DEF Inv, TypeOK, CallInv, Take
<1>3. PICK got \in MaybeBlock : got = IF Limit[s] = 0 \/ block = NoBlock THEN NoBlock ELSE block
  BY <1>1 DEF MaybeBlock
<1>4. /\ call' = [call EXCEPT ![th] = [call[th] EXCEPT !.got = got, !.at = "malloc"]]
      /\ UNCHANGED <<memory, trace, buffer, loose>>
  BY <1>1, <1>3 DEF Take, Taken
<1>5. CallInv'
  BY <1>1, <1>2, <1>4 DEF Inv, TypeOK, CallInv, Call, Idle, Data, Exists
<1>6. BufferInv'
  BY <1>1, <1>2, <1>4 DEF Inv, TypeOK, BufferInv, Call, Exists, Awaits, memory
<1>7. CASE got = NoBlock
  <2>1. UNCHANGED store
    BY <1>1, <1>3, <1>7 DEF Take
  <2>2. TypeOK'
    BY <1>1, <1>2, <1>4, <2>1 DEF Inv, TypeOK, memory, trace, store, Call, MaybeBlock
  <2>3. GotAt(where, whose)'
    BY <1>2, <1>4, <1>7 DEF Inv, TypeOK, Call, Placed, GotAt
  <2>4. OldAt(where, whose)'
    BY <1>2, <1>4, <1>7 DEF Inv, TypeOK, Call, Placed, OldAt
  <2>5. BlockInv(where, whose)'
    BY <1>2, <1>4, <1>7 DEF Inv, TypeOK, Call, Placed, BlockInv, OwnerType, memory, GotAt
  <2>6. (HeapAt(where) /\ LooseAt(where) /\ BufferAt(where, whose))'
    BY <1>4 DEF Inv, Placed, HeapAt, LooseAt, BufferAt, Data, Exists, memory
  <2>7. StoreAt(where, whose, depth, stack)'
    BY <1>4, <2>1 DEF Inv, Placed, StoreAt, memory, store
  <2>8. OwnerType(where, whose, depth, stack)'
    BY DEF Inv, Placed, OwnerType
  <2>9. QED
    BY <1>5, <1>6, <2>2, <2>3, <2>4, <2>5, <2>6, <2>7, <2>8 DEF IInv, Placed
<1>8. CASE got # NoBlock
  <2> DEFINE where1 == [where EXCEPT ![block] = "got"]
             whose1 == [whose EXCEPT ![block] = th]
  <2>1. /\ head' = [head EXCEPT ![s] = word[block]]
        /\ count' = [count EXCEPT ![s] = @ - 1]
        /\ block \in Block /\ got = block
    BY <1>1, <1>3, <1>8 DEF Take, MaybeBlock
  <2>2. PICK h \in Nat : h = count[s]
    BY <1>1 DEF Inv, TypeOK
  <2>3. /\ h # 0 /\ block = stack[s][h] /\ where[block] = "store" /\ whose[block] = s
        /\ depth[block] = h /\ word[block] = stack[s][h - 1] /\ word[block] \in MaybeBlock
        /\ room[block] = s
    <3>1. block = stack[s][h] /\ stack[s][0] = NoBlock
      BY <1>1, <2>2 DEF Inv, Placed, StoreAt
    <3>2. h # 0
      BY <2>1, <3>1
    <3>3. h \in 1..count[s] /\ h - 1 \in Nat
      BY <2>2, <3>2
    <3>4. /\ where[block] = "store" /\ whose[block] = s
          /\ depth[block] = h /\ word[block] = stack[s][h - 1]
      BY <1>1, <3>1, <3>3 DEF Inv, Placed, StoreAt
    <3>5. stack \in [Size -> [Nat -> MaybeBlock]]
      BY DEF Inv, Placed, OwnerType
    <3>6. stack[s][h - 1] \in MaybeBlock
      BY <3>3, <3>5
    <3>7. room[block] = s
      BY <2>1, <3>4 DEF Inv, Placed, BlockInv
    <3>8. QED
      BY <3>1, <3>2, <3>4, <3>6, <3>7
  <2>4. TypeOK'
    <3>1. count' \in [Size -> Nat] /\ head' \in [Size -> MaybeBlock]
      BY <2>1, <2>2, <2>3 DEF Inv, TypeOK
    <3>2. call' \in [Thread -> Call]
      BY <1>2, <1>4 DEF Inv, TypeOK, Call
    <3>3. QED
      BY <1>4, <3>1, <3>2 DEF Inv, TypeOK, memory, trace
  <2>5. GotAt(where1, whose1)'
    BY <1>2, <1>4, <2>1, <2>3 DEF Inv, TypeOK, Call, Placed, GotAt, OwnerType
  <2>6. OldAt(where1, whose1)'
    BY <1>2, <1>4, <2>1, <2>3 DEF Inv, TypeOK, Call, Placed, OldAt, OwnerType
  <2>7. BlockInv(where1, whose1)'
    BY <1>1, <1>2, <1>4, <2>1, <2>3 DEF Inv, TypeOK, Call, Placed, BlockInv, OwnerType, memory, GotAt
  <2>8. (HeapAt(where1) /\ LooseAt(where1))'
    BY <1>4, <2>1, <2>3 DEF Inv, Placed, HeapAt, LooseAt, OwnerType, memory
  <2>9. BufferAt(where1, whose1)'
    BY <1>4, <2>1, <2>3 DEF Inv, Placed, BufferAt, Data, Exists, OwnerType
  <2>10. StoreAt(where1, whose1, depth, stack)'
    <3>1. ASSUME NEW r \in Size
          PROVE  /\ count'[r] <= Limit[r] /\ stack[r][0] = NoBlock /\ head'[r] = stack[r][count'[r]]
                 /\ \A k \in 1..count'[r] :
                       /\ stack[r][k] \in Block
                       /\ where1[stack[r][k]] = "store" /\ whose1[stack[r][k]] = r
                       /\ depth[stack[r][k]] = k
                       /\ word'[stack[r][k]] = stack[r][k - 1]
      BY <1>4, <2>1, <2>2, <2>3 DEF Inv, TypeOK, Placed, StoreAt, OwnerType, memory
    <3>2. ASSUME NEW x \in Block, where1[x] = "store"
          PROVE  /\ whose1[x] \in Size /\ depth[x] \in 1..count'[whose1[x]]
                 /\ stack[whose1[x]][depth[x]] = x
      BY <1>4, <2>1, <2>2, <2>3, <3>2 DEF Inv, TypeOK, Placed, StoreAt, OwnerType
    <3> HIDE DEF where1, whose1
    <3>3. QED
      BY <3>1, <3>2 DEF StoreAt
  <2>11. OwnerType(where1, whose1, depth, stack)'
    BY <2>1, <2>3 DEF Inv, Placed, OwnerType, Place
  <2> HIDE DEF where1, whose1
  <2>12. QED
    BY <1>5, <1>6, <2>4, <2>5, <2>6, <2>7, <2>8, <2>9, <2>10, <2>11 DEF IInv, Placed
<1>9. QED
  BY <1>7, <1>8

\* __alloc asks malloc: the block has the size asked for, and no first word yet.
LEMMA MallocPreserves ==
    ASSUME NEW where, NEW whose, NEW depth, NEW stack, Inv(where, whose, depth, stack),
           NEW th \in Thread, Malloc(th)
    PROVE  IInv'
<1> USE Sizes
<1>1. call[th] \in Call /\ call[th].at = "malloc" /\ call[th].want > 0
  BY DEF Inv, TypeOK, CallInv, Malloc
<1>2. PICK s \in Size : s = call[th].want + Header
  BY <1>1 DEF Call
<1>3. CASE call[th].got # NoBlock
  <2>1. /\ call' = [call EXCEPT ![th] = [call[th] EXCEPT !.at = "enter"]]
        /\ UNCHANGED <<memory, store, trace, buffer, loose>>
    BY <1>1, <1>3 DEF Malloc, Taken, Call, memory
  <2>2. TypeOK'
    BY <1>1, <2>1 DEF Inv, TypeOK, memory, trace, store, Call
  <2>3. CallInv'
    BY <1>1, <1>3, <2>1 DEF Inv, TypeOK, CallInv, Call, Idle, Data, Exists
  <2>4. BufferInv'
    BY <1>1, <2>1 DEF Inv, TypeOK, BufferInv, Call, Exists, Awaits, memory
  <2>5. GotAt(where, whose)'
    BY <1>1, <2>1 DEF Inv, TypeOK, Call, Placed, GotAt
  <2>6. OldAt(where, whose)'
    BY <1>1, <2>1 DEF Inv, TypeOK, Call, Placed, OldAt
  <2>7. BlockInv(where, whose)'
    BY <1>1, <2>1 DEF Inv, TypeOK, Call, Placed, BlockInv, OwnerType, memory, GotAt
  <2>8. (HeapAt(where) /\ LooseAt(where) /\ BufferAt(where, whose))'
    BY <2>1 DEF Inv, Placed, HeapAt, LooseAt, BufferAt, Data, Exists, memory
  <2>9. StoreAt(where, whose, depth, stack)'
    BY <2>1 DEF Inv, Placed, StoreAt, memory, store
  <2>10. OwnerType(where, whose, depth, stack)'
    BY DEF Inv, Placed, OwnerType
  <2>11. QED
    BY <2>2, <2>3, <2>4, <2>5, <2>6, <2>7, <2>8, <2>9, <2>10 DEF IInv, Placed
<1>4. CASE call[th].got = NoBlock
  <2>1. PICK block \in heap :
           /\ call' = [call EXCEPT ![th] = [call[th] EXCEPT !.got = block, !.at = "enter"]]
           /\ heap' = heap \ {block}
           /\ room' = [room EXCEPT ![block] = s]
           /\ UNCHANGED <<word, store, trace, buffer, loose>>
    <3>1. PICK block \in heap :
             /\ call' = Taken(th, block, "enter")
             /\ heap' = heap \ {block}
             /\ room' = [room EXCEPT ![block] = call[th].want + Header]
      BY <1>4 DEF Malloc
    <3>2. call' = [call EXCEPT ![th] = [call[th] EXCEPT !.got = block, !.at = "enter"]]
      BY <1>1, <3>1 DEF Taken, Inv, TypeOK, Call
    <3>3. UNCHANGED <<word, store, trace, buffer, loose>>
      BY DEF Malloc
    <3>4. QED
      BY <1>2, <3>1, <3>2, <3>3
  <2> DEFINE where1 == [where EXCEPT ![block] = "got"]
             whose1 == [whose EXCEPT ![block] = th]
  <2>2. block \in Block /\ where[block] = "heap"
    BY DEF Inv, TypeOK, Placed, HeapAt
  <2>3. TypeOK'
    BY <1>1, <2>1, <2>2 DEF Inv, TypeOK, trace, store, Call, MaybeBlock
  <2>4. CallInv'
    BY <1>1, <2>1, <2>2 DEF Inv, TypeOK, CallInv, Call, Idle, Data, Exists
  <2>5. BufferInv'
    <3>1. ASSUME NEW b \in Buffer, Exists(b), buffer[b].data # NoBlock
          PROVE  room'[buffer[b].data] = room[buffer[b].data]
      <4>1. buffer[b].data \in Block
        BY <3>1 DEF Inv, TypeOK, Cbuffer, MaybeBlock, Exists
      <4>2. where[buffer[b].data] = "buffer"
        BY <3>1, <4>1 DEF Inv, Placed, BufferAt, Data
      <4>3. QED
        BY <2>1, <2>2, <4>1, <4>2 DEF Inv, TypeOK
    <3>2. QED
      BY <1>1, <2>1, <3>1 DEF Inv, TypeOK, BufferInv, Call, Exists, Awaits
  <2>6. GotAt(where1, whose1)'
    BY <1>1, <1>4, <2>1, <2>2 DEF Inv, TypeOK, Call, Placed, GotAt, OwnerType
  <2>7. OldAt(where1, whose1)'
    BY <1>1, <2>1, <2>2 DEF Inv, TypeOK, Call, Placed, OldAt, OwnerType
  <2>8. BlockInv(where1, whose1)'
    BY <1>1, <1>2, <1>4, <2>1, <2>2 DEF Inv, TypeOK, Call, Placed, BlockInv, OwnerType, GotAt
  <2>9. (HeapAt(where1) /\ LooseAt(where1))'
    BY <2>1, <2>2 DEF Inv, Placed, HeapAt, LooseAt, OwnerType
  <2>10. BufferAt(where1, whose1)'
    BY <2>1, <2>2 DEF Inv, Placed, BufferAt, Data, Exists, OwnerType
  <2>11. StoreAt(where1, whose1, depth, stack)'
    BY <2>1, <2>2 DEF Inv, Placed, StoreAt, OwnerType, store
  <2>12. OwnerType(where1, whose1, depth, stack)'
    BY <2>1, <2>2 DEF Inv, Placed, OwnerType, Place
  <2> HIDE DEF where1, whose1
  <2>13. QED
    BY <2>3, <2>4, <2>5, <2>6, <2>7, <2>8, <2>9, <2>10, <2>11, <2>12 DEF IInv, Placed
<1>5. QED
  BY <1>3, <1>4

\* _malloc_throw writes the size into the first word and counts the block.
LEMMA EnterPreserves ==
    ASSUME NEW where, NEW whose, NEW depth, NEW stack, Inv(where, whose, depth, stack),
           NEW th \in Thread, Enter(th)
    PROVE  IInv'
<1> USE Sizes
<1>1. /\ call[th] \in Call /\ call[th].at = "enter" /\ call[th].want > 0
      /\ call[th].got # NoBlock /\ call[th].trace \in Trace
  BY DEF Inv, TypeOK, CallInv, Enter, Call
<1>2. PICK s \in Size, block \in Block : s = call[th].want + Header /\ block = call[th].got
  BY <1>1 DEF Call, MaybeBlock
<1>3. PICK at \in {"finish", "leave"} : at = IF call[th].old = NoBlock THEN "finish" ELSE "leave"
  OBVIOUS
<1>4. /\ call' = [call EXCEPT ![th] = [call[th] EXCEPT !.at = at]]
      /\ word' = [word EXCEPT ![block] = s]
      /\ UNCHANGED <<heap, room, store, buffer, loose>>
  BY <1>1, <1>2, <1>3 DEF Enter, Goes
<1>5. where[block] = "got" /\ whose[block] = th
  BY <1>2 DEF Inv, Placed, GotAt
<1>6. TypeOK'
  <2>1. usage' \in [Trace -> Int] /\ objects' \in [Trace -> Int]
    <3>1. call[th].want \in Nat
      BY <1>1 DEF Call
    <3>2. objects' = [objects EXCEPT ![call[th].trace] = @ + 1]
      BY DEF Enter
    <3>3. usage' = [usage EXCEPT ![call[th].trace] = @ + call[th].want + Header]
      BY DEF Enter
    <3>4. QED
      BY <1>1, <3>1, <3>2, <3>3 DEF Inv, TypeOK
  <2>2. call' \in [Thread -> Call]
    BY <1>1, <1>4 DEF Inv, TypeOK, Call
  <2>3. QED
    BY <1>2, <1>4, <2>1, <2>2 DEF Inv, TypeOK, store
<1>7. CallInv'
  BY <1>1, <1>3, <1>4 DEF Inv, TypeOK, CallInv, Call, Idle, Data, Exists
<1>8. BufferInv'
  BY <1>1, <1>4 DEF Inv, TypeOK, BufferInv, Call, Exists, Awaits
<1>9. GotAt(where, whose)'
  BY <1>1, <1>4 DEF Inv, TypeOK, Call, Placed, GotAt
<1>10. OldAt(where, whose)'
  BY <1>1, <1>4 DEF Inv, TypeOK, Call, Placed, OldAt
<1>11. BlockInv(where, whose)'
  BY <1>1, <1>2, <1>4, <1>5 DEF Inv, TypeOK, Call, Placed, BlockInv, OwnerType, GotAt
<1>12. (HeapAt(where) /\ LooseAt(where) /\ BufferAt(where, whose))'
  BY <1>4 DEF Inv, Placed, HeapAt, LooseAt, BufferAt, Data, Exists
<1>13. StoreAt(where, whose, depth, stack)'
  BY <1>4, <1>5 DEF Inv, TypeOK, Placed, StoreAt, store
<1>14. OwnerType(where, whose, depth, stack)'
  BY DEF Inv, Placed, OwnerType
<1>15. QED
  BY <1>6, <1>7, <1>8, <1>9, <1>10, <1>11, <1>12, <1>13, <1>14 DEF IInv, Placed

\* _free_set_nullptr takes the block out of the counts.
LEMMA LeavePreserves ==
    ASSUME NEW where, NEW whose, NEW depth, NEW stack, Inv(where, whose, depth, stack),
           NEW th \in Thread, Leave(th)
    PROVE  IInv'
<1> USE Sizes
<1>1. /\ call[th] \in Call /\ call[th].at = "leave" /\ call[th].trace \in Trace
      /\ call[th].old \in Block
  BY DEF Inv, TypeOK, CallInv, Leave, Call, MaybeBlock
<1>2. /\ call' = [call EXCEPT ![th] = [call[th] EXCEPT !.at = "give"]]
      /\ UNCHANGED <<memory, store, buffer, loose>>
  BY <1>1 DEF Leave, Goes
<1>3. TypeOK'
  <2>1. word[call[th].old] \in Nat
    BY <1>1 DEF Inv, Placed, OldAt, BlockInv
  <2>2. usage' \in [Trace -> Int] /\ objects' \in [Trace -> Int]
    BY <1>1, <2>1 DEF Leave, Inv, TypeOK
  <2>3. call' \in [Thread -> Call]
    BY <1>1, <1>2 DEF Inv, TypeOK, Call
  <2>4. QED
    BY <1>2, <2>2, <2>3 DEF Inv, TypeOK, store, memory
<1>4. CallInv'
  BY <1>1, <1>2 DEF Inv, TypeOK, CallInv, Call, Idle, Data, Exists
<1>5. BufferInv'
  BY <1>1, <1>2 DEF Inv, TypeOK, BufferInv, Call, Exists, Awaits, memory
<1>6. GotAt(where, whose)'
  BY <1>1, <1>2 DEF Inv, TypeOK, Call, Placed, GotAt
<1>7. OldAt(where, whose)'
  BY <1>1, <1>2 DEF Inv, TypeOK, Call, Placed, OldAt
<1>8. BlockInv(where, whose)'
  BY <1>1, <1>2 DEF Inv, TypeOK, Call, Placed, BlockInv, OwnerType, GotAt, memory
<1>9. (HeapAt(where) /\ LooseAt(where) /\ BufferAt(where, whose))'
  BY <1>2 DEF Inv, Placed, HeapAt, LooseAt, BufferAt, Data, Exists, memory
<1>10. StoreAt(where, whose, depth, stack)'
  BY <1>2 DEF Inv, Placed, StoreAt, store, memory
<1>11. OwnerType(where, whose, depth, stack)'
  BY DEF Inv, Placed, OwnerType
<1>12. QED
  BY <1>3, <1>4, <1>5, <1>6, <1>7, <1>8, <1>9, <1>10, <1>11 DEF IInv, Placed

\* The buffer has the new block; none of the other threads uses it.
LEMMA FinishPreserves ==
    ASSUME NEW where, NEW whose, NEW depth, NEW stack, Inv(where, whose, depth, stack),
           NEW th \in Thread, Finish(th)
    PROVE  IInv'
<1> USE Sizes
<1>1. /\ call[th] \in Call /\ call[th].at = "finish" /\ call[th].trace \in Trace
      /\ call[th].old = NoBlock
  BY DEF Inv, TypeOK, CallInv, Finish, Call
<1>2. /\ call' = [call EXCEPT ![th] = Idle]
      /\ UNCHANGED <<memory, store, trace, loose>>
  BY DEF Finish
<1>3. Idle \in Call /\ Idle.at = "idle" /\ Idle.buffer = NoBuffer /\ Idle.got = NoBlock
      /\ Idle.old = NoBlock /\ Idle.want = 0
  BY DEF Idle, Call, MaybeBlock
<1>4. CASE call[th].want = 0
  <2>1. UNCHANGED buffer /\ call[th].got = NoBlock
    BY <1>4 DEF Finish, Inv, CallInv
  <2>2. TypeOK'
    BY <1>2, <1>3, <2>1 DEF Inv, TypeOK, memory, trace, store
  <2>3. CallInv'
    BY <1>1, <1>2, <1>3, <2>1 DEF Inv, TypeOK, CallInv, Data, Exists
  <2>4. BufferInv'
    BY <1>1, <1>2, <1>3, <1>4, <2>1 DEF Inv, TypeOK, BufferInv, Exists, Awaits, memory
  <2>5. GotAt(where, whose)'
    BY <1>2, <1>3, <2>1 DEF Inv, TypeOK, Placed, GotAt
  <2>6. OldAt(where, whose)'
    BY <1>1, <1>2, <1>3 DEF Inv, TypeOK, Placed, OldAt
  <2>7. BlockInv(where, whose)'
    BY <1>1, <1>2, <1>3, <2>1 DEF Inv, TypeOK, Placed, BlockInv, OwnerType, GotAt, memory
  <2>8. (HeapAt(where) /\ LooseAt(where) /\ BufferAt(where, whose))'
    BY <1>2, <2>1 DEF Inv, Placed, HeapAt, LooseAt, BufferAt, Data, Exists, memory
  <2>9. StoreAt(where, whose, depth, stack)'
    BY <1>2 DEF Inv, Placed, StoreAt, store, memory
  <2>10. OwnerType(where, whose, depth, stack)'
    BY DEF Inv, Placed, OwnerType
  <2>11. QED
    BY <2>2, <2>3, <2>4, <2>5, <2>6, <2>7, <2>8, <2>9, <2>10 DEF IInv, Placed
<1>5. CASE call[th].want # 0
  <2>1. PICK b \in Buffer, block \in Block, n \in Length \ {0} :
           b = call[th].buffer /\ block = call[th].got /\ n = call[th].want
    <3>1. call[th].want > 0 /\ call[th].want \in Length
      <4>1. call[th].want \in Length
        BY <1>1 DEF Call
      <4>2. call[th].want \in Nat
        BY <4>1
      <4>3. QED
        BY <1>5, <4>1, <4>2
    <3>2. call[th].got # NoBlock /\ call[th].buffer \in Buffer
      BY <1>1, <3>1 DEF Inv, CallInv
    <3>3. call[th].got \in Block
      BY <1>1, <3>2 DEF Call, MaybeBlock
    <3>4. call[th].want \in Length \ {0}
      BY <1>5, <3>1
    <3>5. QED
      BY <3>2, <3>3, <3>4
  <2>2. PICK t \in Trace : t = call[th].trace
    BY <1>1
  <2> DEFINE filled == [trace |-> t, data |-> block, length |-> n, max |-> n]
             where1 == [where EXCEPT ![block] = "buffer"]
             whose1 == [whose EXCEPT ![block] = b]
  <2>3. buffer' = [buffer EXCEPT ![b] = filled]
    BY <1>5, <2>1, <2>2 DEF Finish
  <2>4. /\ filled \in Cbuffer /\ filled # NoBuffer /\ filled.data = block
        /\ filled.length = n /\ filled.max = n
    BY DEF Cbuffer, MaybeBlock
  <2> HIDE DEF filled
  <2>5. /\ where[block] = "got" /\ whose[block] = th /\ Data(b) = NoBlock
        /\ room[block] = n + Header /\ word[block] = room[block] /\ n > 0 /\ n \in Nat
    <3>1. where[block] = "got" /\ whose[block] = th
      BY <2>1 DEF Inv, Placed, GotAt
    <3>2. n > 0 /\ n \in Nat
      BY <2>1
    <3>3. Data(b) = NoBlock
      BY <2>1, <3>2 DEF Inv, CallInv
    <3>4. QED
      BY <1>1, <2>1, <3>1, <3>2, <3>3 DEF Inv, Placed, BlockInv
  <2>6. TypeOK'
    BY <1>2, <1>3, <2>3, <2>4 DEF Inv, TypeOK, memory, trace, store
  <2>7. \A u \in Thread : u # th => call'[u] = call[u] /\ call'[u].buffer # b
    BY <1>2, <2>1 DEF Inv, TypeOK, CallInv
  <2>8. CallInv'
    BY <1>1, <1>2, <1>3, <2>3, <2>7 DEF Inv, TypeOK, CallInv, Data, Exists
  <2>9. BufferInv'
    BY <1>1, <1>2, <1>3, <2>1, <2>3, <2>4, <2>5, <2>7 DEF Inv, TypeOK, BufferInv, Exists, Awaits, memory
  <2>10. GotAt(where1, whose1)'
    BY <1>2, <1>3, <2>1, <2>5 DEF Inv, TypeOK, Placed, GotAt, OwnerType
  <2>11. OldAt(where1, whose1)'
    BY <1>1, <1>2, <1>3, <2>1, <2>5 DEF Inv, TypeOK, Placed, OldAt, OwnerType
  <2>12. BlockInv(where1, whose1)'
    BY <1>1, <1>2, <1>3, <2>1, <2>5 DEF Inv, TypeOK, Placed, BlockInv, OwnerType, GotAt, memory
  <2>13. (HeapAt(where1) /\ LooseAt(where1))'
    BY <1>2, <2>1, <2>5 DEF Inv, Placed, HeapAt, LooseAt, OwnerType, memory
  <2>14. BufferAt(where1, whose1)'
    BY <2>3, <2>4, <2>5 DEF Inv, TypeOK, Placed, BufferAt, Data, Exists, OwnerType
  <2>15. StoreAt(where1, whose1, depth, stack)'
    BY <1>2, <2>1, <2>5 DEF Inv, Placed, StoreAt, OwnerType, store, memory
  <2>16. OwnerType(where1, whose1, depth, stack)'
    BY <2>1, <2>5 DEF Inv, Placed, OwnerType, Place
  <2> HIDE DEF where1, whose1
  <2>17. QED
    BY <2>6, <2>8, <2>9, <2>10, <2>11, <2>12, <2>13, <2>14, <2>15, <2>16 DEF IInv, Placed
<1>6. QED
  BY <1>4, <1>5

\* __free: the block becomes the top of the stack of its size, or malloc has it again.
LEMMA GivePreserves ==
    ASSUME NEW where, NEW whose, NEW depth, NEW stack, Inv(where, whose, depth, stack),
           NEW th \in Thread, Give(th)
    PROVE  IInv'
<1> USE Sizes
<1>1. call[th] \in Call /\ call[th].at = "give" /\ call[th].old \in Block
  BY DEF Inv, TypeOK, CallInv, Give, Call, MaybeBlock
<1>2. PICK block \in Block : block = call[th].old
  BY <1>1
<1>3. where[block] = "old" /\ whose[block] = th
  BY <1>2 DEF Inv, Placed, OldAt
<1>4. PICK s \in Size : s = word[block] /\ s = room[block]
  BY <1>3 DEF Inv, Placed, BlockInv
<1>5. PICK at \in {"take", "finish"} :
         at = IF call[th].want > 0 /\ call[th].got = NoBlock THEN "take" ELSE "finish"
  OBVIOUS
<1>6. /\ call' = [call EXCEPT ![th] = [call[th] EXCEPT !.old = NoBlock, !.at = at]]
      /\ UNCHANGED <<trace, buffer, loose>>
  <2>1. call' = Given(th) /\ UNCHANGED <<trace, buffer, loose>>
    BY DEF Give
  <2>2. QED
    BY <1>1, <1>5, <2>1 DEF Given, Inv, TypeOK, Call
<1>7. call' \in [Thread -> Call]
  BY <1>1, <1>6 DEF Inv, TypeOK, Call, MaybeBlock
<1>8. CallInv'
  BY <1>1, <1>5, <1>6 DEF Inv, TypeOK, CallInv, Call, Idle, Data, Exists
<1>10. ASSUME NEW b \in Buffer, Exists(b), buffer[b].data # NoBlock
       PROVE  buffer[b].data \in Block \ {block}
  <2>1. buffer[b].data \in Block
    BY <1>10 DEF Inv, TypeOK, Cbuffer, MaybeBlock, Exists
  <2>2. where[buffer[b].data] = "buffer"
    BY <1>10, <2>1 DEF Inv, Placed, BufferAt, Data
  <2>3. QED
    BY <1>3, <2>1, <2>2
<1>11. ASSUME \A x \in Block \ {block} : room'[x] = room[x]
       PROVE  BufferInv'
  BY <1>1, <1>6, <1>10, <1>11 DEF Inv, TypeOK, BufferInv, Call, Exists, Awaits
<1>12. CASE Limit[s] > 0 /\ count[s] < Limit[s]
  <2>1. /\ word' = [word EXCEPT ![block] = head[s]]
        /\ head' = [head EXCEPT ![s] = block]
        /\ count' = [count EXCEPT ![s] = @ + 1]
        /\ UNCHANGED <<heap, room>>
    BY <1>2, <1>4, <1>12 DEF Give
  <2>2. PICK h \in Nat : h = count[s]
    BY DEF Inv, TypeOK
  <2> DEFINE where1 == [where EXCEPT ![block] = "store"]
             whose1 == [whose EXCEPT ![block] = s]
             depth1 == [depth EXCEPT ![block] = h + 1]
             stack1 == [stack EXCEPT ![s][h + 1] = block]
  <2>3. TypeOK'
    BY <1>6, <1>7, <2>1 DEF Inv, TypeOK, trace, MaybeBlock
  <2>4. BufferInv'
    BY <1>11, <2>1
  <2>5. GotAt(where1, whose1)'
    BY <1>1, <1>3, <1>6 DEF Inv, TypeOK, Call, Placed, GotAt, OwnerType
  <2>6. OldAt(where1, whose1)'
    BY <1>1, <1>2, <1>3, <1>6 DEF Inv, TypeOK, Call, Placed, OldAt, OwnerType
  <2>7. BlockInv(where1, whose1)'
    BY <1>1, <1>3, <1>4, <1>5, <1>6, <2>1 DEF Inv, TypeOK, Call, Placed, BlockInv, OwnerType, GotAt
  <2>8. (HeapAt(where1) /\ LooseAt(where1))'
    BY <1>3, <1>6, <2>1 DEF Inv, Placed, HeapAt, LooseAt, OwnerType
  <2>9. BufferAt(where1, whose1)'
    BY <1>3, <1>6 DEF Inv, Placed, BufferAt, Data, Exists, OwnerType
  <2>10. stack1 \in [Size -> [Nat -> MaybeBlock]]
    BY DEF Inv, Placed, OwnerType, MaybeBlock
  <2>11. /\ stack1[s][h + 1] = block
         /\ \A k \in Nat : k # h + 1 => stack1[s][k] = stack[s][k]
         /\ \A r \in Size : r # s => stack1[r] = stack[r]
    BY DEF Inv, Placed, OwnerType
  <2>12. where1 \in [Block -> Place] /\ DOMAIN whose1 = Block /\ depth1 \in [Block -> Nat]
    BY DEF Inv, Placed, OwnerType, Place
  <2> HIDE DEF stack1
  <2>13. OwnerType(where1, whose1, depth1, stack1)'
    BY <2>10, <2>12 DEF Inv, Placed, OwnerType
  <2>14. StoreAt(where1, whose1, depth1, stack1)'
    <3>1. ASSUME NEW r \in Size
          PROVE  /\ count'[r] <= Limit[r] /\ stack1[r][0] = NoBlock /\ head'[r] = stack1[r][count'[r]]
                 /\ \A k \in 1..count'[r] :
                       /\ stack1[r][k] \in Block
                       /\ where1[stack1[r][k]] = "store" /\ whose1[stack1[r][k]] = r
                       /\ depth1[stack1[r][k]] = k
                       /\ word'[stack1[r][k]] = stack1[r][k - 1]
      <4>1. CASE r = s
        <5>1. count'[r] = h + 1 /\ count'[r] <= Limit[r] /\ head'[r] = block
          BY <1>12, <2>1, <2>2, <4>1 DEF Inv, TypeOK
        <5>2. stack1[r][0] = NoBlock /\ head'[r] = stack1[r][count'[r]]
          BY <2>2, <2>11, <4>1, <5>1 DEF Inv, Placed, StoreAt
        <5>3. ASSUME NEW k \in 1..count'[r]
              PROVE  /\ stack1[r][k] \in Block
                     /\ where1[stack1[r][k]] = "store" /\ whose1[stack1[r][k]] = r
                     /\ depth1[stack1[r][k]] = k
                     /\ word'[stack1[r][k]] = stack1[r][k - 1]
          <6>1. CASE k = h + 1
            <7>1. k - 1 = h /\ stack1[s][h] = stack[s][h] /\ head[s] = stack[s][h]
              BY <2>2, <2>11, <6>1 DEF Inv, Placed, StoreAt
            <7>2. QED
              BY <2>1, <2>11, <4>1, <6>1, <7>1 DEF Inv, TypeOK, Placed, OwnerType
          <6>2. CASE k # h + 1
            <7>1. k \in 1..count[s] /\ k \in Nat /\ k - 1 \in Nat /\ k - 1 # h + 1
              BY <2>2, <5>1, <6>2
            <7>2. stack1[r][k] = stack[s][k] /\ stack1[r][k - 1] = stack[s][k - 1]
              BY <2>11, <4>1, <6>2, <7>1
            <7>3. QED
              BY <1>3, <2>1, <4>1, <7>1, <7>2 DEF Inv, TypeOK, Placed, StoreAt, OwnerType
          <6>3. QED
            BY <6>1, <6>2
        <5> HIDE DEF where1, whose1, depth1
        <5>4. QED
          BY <5>1, <5>2, <5>3
      <4>2. CASE r # s
        BY <1>3, <2>1, <2>2, <2>11, <4>2 DEF Inv, TypeOK, Placed, StoreAt, OwnerType
      <4>3. QED
        BY <4>1, <4>2
    <3>2. ASSUME NEW x \in Block, where1[x] = "store"
          PROVE  /\ whose1[x] \in Size /\ depth1[x] \in 1..count'[whose1[x]]
                 /\ stack1[whose1[x]][depth1[x]] = x
      <4>1. CASE x = block
        BY <2>1, <2>2, <2>11, <4>1 DEF Inv, TypeOK, Placed, OwnerType
      <4>2. CASE x # block
        <5>1. where[x] = "store" /\ whose1[x] = whose[x] /\ depth1[x] = depth[x]
          BY <3>2, <4>2 DEF Inv, Placed, OwnerType
        <5>2. /\ whose[x] \in Size /\ depth[x] \in 1..count[whose[x]]
              /\ stack[whose[x]][depth[x]] = x
          BY <5>1 DEF Inv, Placed, StoreAt
        <5>3. /\ count'[whose[x]] \in Nat /\ count[whose[x]] \in Nat
              /\ count[whose[x]] <= count'[whose[x]]
          <6>1. count \in [Size -> Nat]
            BY DEF Inv, TypeOK
          <6>2. CASE whose[x] = s
            BY <2>1, <2>2, <6>1, <6>2
          <6>3. CASE whose[x] # s
            <7>1. count'[whose[x]] = count[whose[x]] /\ count[whose[x]] \in Nat
              BY <2>1, <5>2, <6>1, <6>3
            <7>2. QED
              BY <7>1
          <6>4. QED
            BY <6>2, <6>3
        <5>4. depth[x] \in 1..count'[whose[x]] /\ (whose[x] = s => depth[x] # h + 1)
          BY <2>2, <5>2, <5>3
        <5>5. stack1[whose[x]][depth[x]] = stack[whose[x]][depth[x]]
          <6> HIDE DEF where1, whose1, depth1
          <6>1. depth[x] \in Nat
            BY <5>2, <5>3
          <6>2. CASE whose[x] = s
            BY <2>11, <5>4, <6>1, <6>2
          <6>3. CASE whose[x] # s
            BY <2>11, <5>2, <6>3
          <6>4. QED
            BY <6>2, <6>3
        <5> HIDE DEF where1, whose1, depth1
        <5>6. QED
          BY <5>1, <5>2, <5>4, <5>5
      <4>3. QED
        BY <4>1, <4>2
    <3> HIDE DEF where1, whose1, depth1
    <3>3. QED
      BY <3>1, <3>2 DEF StoreAt
  <2> HIDE DEF where1, whose1, depth1
  <2>15. QED
    BY <1>8, <2>3, <2>4, <2>5, <2>6, <2>7, <2>8, <2>9, <2>13, <2>14 DEF IInv, Placed
<1>13. CASE ~(Limit[s] > 0 /\ count[s] < Limit[s])
  <2>1. /\ heap' = heap \cup {block}
        /\ room' = [room EXCEPT ![block] = 0]
        /\ word' = [word EXCEPT ![block] = NoBlock]
        /\ UNCHANGED store
    BY <1>2, <1>4, <1>13 DEF Give
  <2> DEFINE where1 == [where EXCEPT ![block] = "heap"]
  <2>2. TypeOK'
    BY <1>6, <1>7, <2>1 DEF Inv, TypeOK, trace, store, MaybeBlock
  <2>3. BufferInv'
    BY <1>11, <2>1 DEF Inv, TypeOK
  <2>4. GotAt(where1, whose)'
    BY <1>1, <1>3, <1>6 DEF Inv, TypeOK, Call, Placed, GotAt, OwnerType
  <2>5. OldAt(where1, whose)'
    BY <1>1, <1>2, <1>3, <1>6 DEF Inv, TypeOK, Call, Placed, OldAt, OwnerType
  <2>6. BlockInv(where1, whose)'
    BY <1>1, <1>3, <1>5, <1>6, <2>1 DEF Inv, TypeOK, Call, Placed, BlockInv, OwnerType, GotAt
  <2>7. (HeapAt(where1) /\ LooseAt(where1))'
    BY <1>3, <1>6, <2>1 DEF Inv, Placed, HeapAt, LooseAt, OwnerType
  <2>8. BufferAt(where1, whose)'
    BY <1>3, <1>6 DEF Inv, Placed, BufferAt, Data, Exists, OwnerType
  <2>9. StoreAt(where1, whose, depth, stack)'
    BY <1>3, <2>1 DEF Inv, TypeOK, Placed, StoreAt, OwnerType, store
  <2>10. OwnerType(where1, whose, depth, stack)'
    BY DEF Inv, Placed, OwnerType, Place
  <2> HIDE DEF where1
  <2>11. QED
    BY <1>8, <2>2, <2>3, <2>4, <2>5, <2>6, <2>7, <2>8, <2>9, <2>10 DEF IInv, Placed
<1>14. QED
  BY <1>12, <1>13

\* A thread between two operations.
LEMMA IdleFacts ==
    /\ Idle \in Call /\ Idle.at = "idle" /\ Idle.buffer = NoBuffer /\ Idle.trace = PoolTrace
    /\ Idle.got = NoBlock /\ Idle.old = NoBlock /\ Idle.want = 0 /\ Idle.from = NoBuffer
BY Sizes DEF Idle, Call, MaybeBlock

\* A buffer without a block.
LEMMA EmptyFacts ==
    ASSUME NEW t \in Trace
    PROVE  /\ EmptyBuffer(t) \in Cbuffer /\ EmptyBuffer(t) # NoBuffer /\ EmptyBuffer(t).trace = t
           /\ EmptyBuffer(t).data = NoBlock /\ EmptyBuffer(t).length = 0 /\ EmptyBuffer(t).max = 0
<1>1. /\ EmptyBuffer(t) \in Cbuffer /\ EmptyBuffer(t).trace = t
      /\ EmptyBuffer(t).data = NoBlock /\ EmptyBuffer(t).length = 0 /\ EmptyBuffer(t).max = 0
  BY Sizes DEF EmptyBuffer, Cbuffer, MaybeBlock
<1>2. QED
  BY <1>1, Sizes

\* What the place of a block says of its owner.
LEMMA Owners ==
    ASSUME NEW where, NEW whose, NEW depth, NEW stack, Inv(where, whose, depth, stack)
    PROVE  /\ \A b \in Buffer : Data(b) \in MaybeBlock
           /\ \A b \in Buffer : Data(b) # NoBlock =>
                 /\ Data(b) \in Block /\ where[Data(b)] = "buffer" /\ whose[Data(b)] = b
                 /\ room[Data(b)] \in Size /\ word[Data(b)] = room[Data(b)]
           /\ \A b \in Buffer : Exists(b) => buffer[b] \in Cbuffer
<1>1. \A b \in Buffer : Exists(b) => buffer[b] \in Cbuffer
  BY DEF Inv, TypeOK, Exists
<1>2. \A b \in Buffer : Data(b) \in MaybeBlock
  BY <1>1 DEF Data, Cbuffer, MaybeBlock
<1>3. ASSUME NEW b \in Buffer, Data(b) # NoBlock
      PROVE  /\ Data(b) \in Block /\ where[Data(b)] = "buffer" /\ whose[Data(b)] = b
             /\ room[Data(b)] \in Size /\ word[Data(b)] = room[Data(b)]
  <2>1. Data(b) \in Block
    BY <1>2, <1>3 DEF MaybeBlock
  <2>2. where[Data(b)] = "buffer" /\ whose[Data(b)] = b
    BY <2>1 DEF Inv, Placed, BufferAt
  <2>3. QED
    BY <2>1, <2>2 DEF Inv, Placed, BlockInv
<1>4. QED
  BY <1>1, <1>2, <1>3

\* An operation that is over at once and moves no block.
LEMMA AtOncePreserves ==
    ASSUME NEW where, NEW whose, NEW depth, NEW stack, Inv(where, whose, depth, stack),
           NEW th \in Thread, AtOnce(th),
           buffer' \in [Buffer -> Cbuffer \cup {NoBuffer}],
           \A b \in Buffer : Data(b)' = Data(b),
           BufferInv'
    PROVE  IInv'
<1>1. UNCHANGED <<memory, store, trace, loose, call>>
  BY DEF AtOnce
<1>2. TypeOK'
  BY <1>1 DEF Inv, TypeOK, memory, store, trace
<1>3. CallInv'
  BY <1>1 DEF Inv, CallInv
<1>4. OwnerType(where, whose, depth, stack)'
  BY DEF Inv, Placed, OwnerType
<1>5. (HeapAt(where) /\ LooseAt(where))'
  BY <1>1 DEF Inv, Placed, HeapAt, LooseAt, memory
<1>6. BufferAt(where, whose)'
  BY DEF Inv, Placed, BufferAt
<1>7. (OldAt(where, whose) /\ GotAt(where, whose))'
  BY <1>1 DEF Inv, Placed, OldAt, GotAt
<1>8. StoreAt(where, whose, depth, stack)'
  BY <1>1 DEF Inv, Placed, StoreAt, store, memory
<1>9. BlockInv(where, whose)'
  BY <1>1 DEF Inv, Placed, BlockInv, memory
<1>10. QED
  BY <1>2, <1>3, <1>4, <1>5, <1>6, <1>7, <1>8, <1>9 DEF IInv, Placed

\* An operation that begins: the block it is to return leaves its buffer.
LEMMA BeginPreserves ==
    ASSUME NEW where, NEW whose, NEW depth, NEW stack, Inv(where, whose, depth, stack),
           NEW th \in Thread, NEW c \in Call, Begin(th, c),
           c.got = NoBlock, c.at \in {"take", "leave"}, c.at = "take" => c.want > 0,
           c.at = "leave" => c.old # NoBlock,
           c.want > 0 => c.buffer \in Buffer /\ Data(c.buffer)' = NoBlock,
           c.buffer # NoBuffer => \A u \in Thread : call[u].buffer # c.buffer,
           c.old \in Block => where[c.old] \in {"buffer", "loose"},
           loose' = loose \ {c.old},
           buffer' \in [Buffer -> Cbuffer \cup {NoBuffer}],
           \A b \in Buffer : Data(b)' = IF Data(b) = c.old THEN NoBlock ELSE Data(b),
           BufferInv'
    PROVE  IInv'
<1> USE Sizes
<1> DEFINE where1 == [where EXCEPT ![c.old] = "old"]
           whose1 == [whose EXCEPT ![c.old] = th]
<1>1. /\ call[th] = Idle /\ call' = [call EXCEPT ![th] = c]
      /\ UNCHANGED <<memory, store, trace>>
  BY DEF Begin
<1>2. c.old \in MaybeBlock /\ c.old \notin Block <=> c.old = NoBlock
  BY DEF Call, MaybeBlock
<1>3. TypeOK'
  BY <1>1 DEF Inv, TypeOK, memory, store, trace
<1>4. /\ \A u \in Thread : u # th => call'[u] = call[u]
      /\ call'[th] = c
  BY <1>1 DEF Inv, TypeOK
<1>5. CallInv'
  <2>1. ASSUME NEW b \in Buffer, Data(b) = NoBlock PROVE Data(b)' = NoBlock
    BY <2>1
  <2>2. QED
    BY <1>1, <1>4, <2>1 DEF Inv, CallInv
<1>6. OwnerType(where1, whose1, depth, stack)'
  BY <1>2 DEF Inv, Placed, OwnerType, Place
<1>7. (HeapAt(where1) /\ LooseAt(where1))'
  BY <1>1, <1>2 DEF Inv, Placed, HeapAt, LooseAt, memory, OwnerType
<1>8. BufferAt(where1, whose1)'
  BY <1>2 DEF Inv, Placed, BufferAt, OwnerType
<1>9. OldAt(where1, whose1)'
  BY <1>1, <1>2, <1>4, IdleFacts DEF Inv, Placed, OldAt, OwnerType
<1>10. GotAt(where1, whose1)'
  BY <1>1, <1>2, <1>4, IdleFacts DEF Inv, Placed, GotAt, OwnerType
<1>11. StoreAt(where1, whose1, depth, stack)'
  BY <1>1, <1>2 DEF Inv, Placed, StoreAt, store, memory, OwnerType
<1>12. BlockInv(where1, whose1)'
  BY <1>1, <1>2, <1>4, IdleFacts DEF Inv, Placed, BlockInv, memory, OwnerType, GotAt
<1> HIDE DEF where1, whose1
<1>13. QED
  BY <1>3, <1>5, <1>6, <1>7, <1>8, <1>9, <1>10, <1>11, <1>12 DEF IInv, Placed

\* A buffer that no operation uses gets no block from one.
LEMMA UsableFacts ==
    ASSUME NEW where, NEW whose, NEW depth, NEW stack, Inv(where, whose, depth, stack),
           NEW b \in Buffer, ~Busy(b)
    PROVE  /\ \A u \in Thread : call[u].buffer # b
           /\ ~Awaits(b)
           /\ Exists(b) => buffer[b] \in Cbuffer /\ Data(b) = buffer[b].data
           /\ Exists(b) /\ Data(b) = NoBlock => buffer[b].max = 0 /\ buffer[b].length = 0
<1>1. \A u \in Thread : call[u].buffer # b
  BY DEF Busy
<1>2. ~Awaits(b)
  BY <1>1 DEF Awaits
<1>3. Exists(b) => buffer[b] \in Cbuffer /\ Data(b) = buffer[b].data
  BY DEF Data, Exists, Inv, TypeOK
<1>4. ASSUME Exists(b), Data(b) = NoBlock
      PROVE  buffer[b].max = 0 /\ buffer[b].length = 0
  <2>1. buffer[b].max = 0 /\ buffer[b].length <= buffer[b].max
    BY <1>2, <1>3, <1>4 DEF Inv, BufferInv
  <2>2. buffer[b].length \in Nat
    BY <1>3, <1>4, Sizes DEF Cbuffer
  <2>3. QED
    BY <2>1, <2>2
<1>5. QED
  BY <1>1, <1>2, <1>3, <1>4

\* The constructors of Cbuffer that copy: a block is asked for unless the length is 0.
LEMMA ConstructPreserves ==
    ASSUME NEW where, NEW whose, NEW depth, NEW stack, Inv(where, whose, depth, stack),
           NEW th \in Thread, NEW b \in Buffer, NEW t \in Trace, NEW n \in Length,
           NEW from \in Buffer \cup {NoBuffer}, Construct(th, b, t, n, from)
    PROVE  IInv'
<1> USE Sizes
<1>1. ~Exists(b) /\ ~Busy(b) /\ Data(b) = NoBlock
  BY DEF Construct, Data
<1>2. CASE n = 0
  <2>1. AtOnce(th) /\ buffer' = [buffer EXCEPT ![b] = EmptyBuffer(t)]
    BY <1>2 DEF Construct
  <2>2. /\ \A c \in Buffer \ {b} : buffer'[c] = buffer[c]
        /\ buffer'[b] = EmptyBuffer(t)
        /\ buffer' \in [Buffer -> Cbuffer \cup {NoBuffer}]
    BY <2>1, EmptyFacts DEF Inv, TypeOK
  <2>3. \A c \in Buffer : Data(c)' = Data(c)
    BY <1>1, <2>2, EmptyFacts DEF Data, Exists
  <2>4. UNCHANGED <<room, call>>
    BY <2>1 DEF AtOnce, memory
  <2>5. BufferInv'
    BY <2>2, <2>4, EmptyFacts DEF Inv, BufferInv, Exists, Awaits
  <2>6. QED
    BY <2>1, <2>2, <2>3, <2>5, AtOncePreserves
<1>3. CASE n # 0
  <2>1. PICK c \in Call : c = [Idle EXCEPT !.at = "take", !.buffer = b,
                                           !.from = from, !.trace = t, !.want = n]
    BY IdleFacts DEF Call
  <2>2. /\ c.at = "take" /\ c.buffer = b /\ c.want = n /\ c.got = NoBlock /\ c.old = NoBlock
        /\ n > 0
    <3>1. n \in Nat
      OBVIOUS
    <3>2. QED
      BY <1>3, <2>1, <3>1, IdleFacts DEF Call, Idle
  <2>3. Begin(th, c) /\ UNCHANGED <<buffer, loose>>
    BY <1>3, <2>1 DEF Construct
  <2>4. \A x \in Buffer : Data(x)' = Data(x)
    BY <2>3 DEF Data, Exists
  <2>5. \A u \in Thread : call[u].buffer # b
    BY <1>1, UsableFacts
  <2>6. buffer' \in [Buffer -> Cbuffer \cup {NoBuffer}]
    BY <2>3 DEF Inv, TypeOK
  <2>7. NoBlock \notin loose
    BY DEF Inv, TypeOK
  <2>8. BufferInv'
    <3>1. \A u \in Thread : u # th => call'[u] = call[u]
      BY <2>3 DEF Begin, Inv, TypeOK
    <3>2. call[th] = Idle /\ UNCHANGED room
      BY <2>3 DEF Begin, memory
    <3>3. \A x \in Buffer : Awaits(x) => Awaits(x)'
      BY <3>1, <3>2, IdleFacts DEF Awaits
    <3>4. QED
      BY <2>3, <3>2, <3>3 DEF Inv, BufferInv, Exists
  <2>9. QED
    BY <1>1, <2>2, <2>3, <2>4, <2>5, <2>6, <2>7, <2>8, BeginPreserves
<1>4. QED
  BY <1>2, <1>3

\* ~Cbuffer: its block is to be returned.
LEMMA DestroyPreserves ==
    ASSUME NEW where, NEW whose, NEW depth, NEW stack, Inv(where, whose, depth, stack),
           NEW th \in Thread, NEW b \in Buffer, Destroy(th, b)
    PROVE  IInv'
<1> USE Sizes
<1>1. /\ Exists(b) /\ ~Busy(b) /\ Data(b) = buffer[b].data /\ buffer[b] \in Cbuffer
      /\ buffer' = [buffer EXCEPT ![b] = NoBuffer]
  BY UsableFacts DEF Destroy, Usable
<1>2. /\ \A c \in Buffer \ {b} : buffer'[c] = buffer[c]
      /\ buffer'[b] = NoBuffer
      /\ buffer' \in [Buffer -> Cbuffer \cup {NoBuffer}]
  BY <1>1 DEF Inv, TypeOK
<1>3. Data(b)' = NoBlock /\ \A c \in Buffer \ {b} : Data(c)' = Data(c)
  BY <1>2 DEF Data, Exists
<1>4. CASE Data(b) = NoBlock
  <2>1. AtOnce(th)
    BY <1>1, <1>4 DEF Destroy
  <2>2. UNCHANGED <<room, call>>
    BY <2>1 DEF AtOnce, memory
  <2>3. BufferInv'
    BY <1>2, <2>2 DEF Inv, BufferInv, Exists, Awaits
  <2>4. QED
    BY <1>2, <1>3, <1>4, <2>1, <2>3, AtOncePreserves
<1>5. CASE Data(b) # NoBlock
  <2>1. PICK c \in Call :
           c = [Idle EXCEPT !.at = "leave", !.buffer = b,
                            !.trace = buffer[b].trace, !.old = buffer[b].data]
    BY <1>1, IdleFacts DEF Call, Cbuffer
  <2>2. /\ c.at = "leave" /\ c.buffer = b /\ c.want = 0 /\ c.got = NoBlock
        /\ c.old = Data(b)
    BY <1>1, <2>1, IdleFacts DEF Call, Idle
  <2>3. Begin(th, c) /\ UNCHANGED loose
    BY <1>1, <1>5, <2>1 DEF Destroy
  <2>4. \A u \in Thread : call[u].buffer # b
    BY <1>1, UsableFacts
  <2>5. /\ Data(b) \in Block /\ where[Data(b)] = "buffer" /\ Data(b) \notin loose
        /\ \A x \in Buffer : Data(x) = Data(b) => x = b
    BY <1>5, Owners DEF Inv, Placed, LooseAt
  <2>6. BufferInv'
    <3>1. \A u \in Thread : u # th => call'[u] = call[u]
      BY <2>3 DEF Begin, Inv, TypeOK
    <3>2. call[th] = Idle /\ UNCHANGED room
      BY <2>3 DEF Begin, memory
    <3>3. \A x \in Buffer : Awaits(x) => Awaits(x)'
      BY <3>1, <3>2, IdleFacts DEF Awaits
    <3>4. QED
      BY <1>2, <2>3, <3>2, <3>3 DEF Inv, BufferInv, Exists
  <2>7. loose' = loose \ {c.old}
    BY <2>2, <2>3, <2>5
  <2>8. \A x \in Buffer : Data(x)' = IF Data(x) = c.old THEN NoBlock ELSE Data(x)
    BY <1>3, <2>2, <2>5
  <2>9. c.old \in Block => where[c.old] \in {"buffer", "loose"}
    BY <2>2, <2>5
  <2>10. QED
    BY <1>2, <1>5, <2>2, <2>3, <2>4, <2>6, <2>7, <2>8, <2>9, BeginPreserves
<1>6. QED
  BY <1>4, <1>5

\* set, operator= and resize within what the block holds.
LEMMA LengthPreserves ==
    ASSUME NEW where, NEW whose, NEW depth, NEW stack, Inv(where, whose, depth, stack),
           NEW th \in Thread, NEW b \in Buffer, NEW n \in Length, Usable(b), AtOnce(th),
           n <= buffer[b].max, buffer' = [buffer EXCEPT ![b].length = n]
    PROVE  IInv'
<1>1. Exists(b) /\ buffer[b] \in Cbuffer /\ buffer[b] # NoBuffer
  BY UsableFacts DEF Usable, Exists
<1>2. PICK filled \in Cbuffer : filled = [buffer[b] EXCEPT !.length = n]
  BY <1>1 DEF Cbuffer
<1>3. /\ filled.data = buffer[b].data /\ filled.max = buffer[b].max /\ filled.length = n
      /\ filled # NoBuffer
  BY <1>1, <1>2, Sizes DEF Cbuffer
<1>4. /\ \A c \in Buffer \ {b} : buffer'[c] = buffer[c]
      /\ buffer'[b] = filled
      /\ buffer' \in [Buffer -> Cbuffer \cup {NoBuffer}]
  BY <1>2 DEF Inv, TypeOK
<1>5. \A c \in Buffer : Data(c)' = Data(c)
  BY <1>1, <1>3, <1>4 DEF Data, Exists
<1>6. UNCHANGED <<room, call>>
  BY DEF AtOnce, memory
<1>7. BufferInv'
  BY <1>1, <1>3, <1>4, <1>6 DEF Inv, BufferInv, Exists, Awaits
<1>8. QED
  BY <1>4, <1>5, <1>7, AtOncePreserves

\* set, operator= and resize beyond it.
LEMMA ReplacePreserves ==
    ASSUME NEW where, NEW whose, NEW depth, NEW stack, Inv(where, whose, depth, stack),
           NEW th \in Thread, NEW b \in Buffer, NEW n \in Length,
           NEW from \in Buffer \cup {NoBuffer}, NEW keep \in BOOLEAN, Usable(b),
           ~(n <= buffer[b].max), Replace(th, b, n, from, keep)
    PROVE  IInv'
<1> USE Sizes
<1>1. /\ Exists(b) /\ ~Busy(b) /\ Data(b) = buffer[b].data /\ buffer[b] \in Cbuffer
      /\ buffer[b] # NoBuffer
  BY UsableFacts DEF Usable, Exists
<1>2. n > 0
  <2>1. buffer[b].max \in Nat /\ n \in Nat
    BY <1>1 DEF Cbuffer
  <2>2. QED
    BY <2>1
<1>3. PICK at \in {"take", "leave"} :
         at = IF keep THEN "take" ELSE FreeThenObtain(buffer[b].data)
  BY DEF FreeThenObtain
<1>4. PICK c \in Call :
         c = [Idle EXCEPT !.at = at, !.buffer = b, !.from = from, !.trace = buffer[b].trace,
                          !.old = buffer[b].data, !.want = n]
  BY <1>1, IdleFacts DEF Call, Cbuffer
<1>5. /\ c.at = at /\ c.buffer = b /\ c.want = n /\ c.got = NoBlock
      /\ c.old = Data(b)
  BY <1>1, <1>4, IdleFacts DEF Call, Idle
<1>6. Begin(th, c) /\ UNCHANGED loose /\ buffer' = [buffer EXCEPT ![b].data = NoBlock]
  BY <1>3, <1>4 DEF Replace
<1>7. c.at = "leave" => c.old # NoBlock
  BY <1>1, <1>3, <1>5 DEF FreeThenObtain
<1>8. PICK bare \in Cbuffer : bare = [buffer[b] EXCEPT !.data = NoBlock]
  BY <1>1 DEF Cbuffer, MaybeBlock
<1>9. /\ bare.data = NoBlock /\ bare.max = buffer[b].max /\ bare.length = buffer[b].length
      /\ bare # NoBuffer
  BY <1>1, <1>8 DEF Cbuffer
<1>10. /\ \A x \in Buffer \ {b} : buffer'[x] = buffer[x]
       /\ buffer'[b] = bare
       /\ buffer' \in [Buffer -> Cbuffer \cup {NoBuffer}]
  BY <1>6, <1>8 DEF Inv, TypeOK
<1>11. Data(b)' = NoBlock /\ \A x \in Buffer \ {b} : Data(x)' = Data(x)
  BY <1>1, <1>9, <1>10 DEF Data, Exists
<1>12. \A u \in Thread : call[u].buffer # b
  BY <1>1, UsableFacts
<1>13. Data(b) # NoBlock =>
         /\ Data(b) \in Block /\ where[Data(b)] = "buffer" /\ Data(b) \notin loose
         /\ \A x \in Buffer : Data(x) = Data(b) => x = b
  BY Owners DEF Inv, Placed, LooseAt
<1>14. BufferInv'
  <2>1. /\ \A u \in Thread : u # th => call'[u] = call[u]
        /\ call'[th] = c
    BY <1>6 DEF Begin, Inv, TypeOK
  <2>2. call[th] = Idle /\ UNCHANGED room
    BY <1>6 DEF Begin, memory
  <2>3. \A x \in Buffer : Awaits(x) => Awaits(x)'
    BY <2>1, <2>2, IdleFacts DEF Awaits
  <2>4. Awaits(b)'
    BY <1>2, <1>5, <2>1 DEF Awaits
  <2>5. QED
    BY <1>1, <1>9, <1>10, <2>2, <2>3, <2>4 DEF Inv, BufferInv, Exists
<1>15. loose' = loose \ {c.old}
  <2>1. NoBlock \notin loose
    BY DEF Inv, TypeOK
  <2>2. QED
    BY <1>5, <1>6, <1>13, <2>1
<1>16. \A x \in Buffer : Data(x)' = IF Data(x) = c.old THEN NoBlock ELSE Data(x)
  BY <1>5, <1>11, <1>13
<1>17. c.old \in Block => where[c.old] \in {"buffer", "loose"}
  BY <1>5, <1>13
<1>18. QED
  BY <1>2, <1>3, <1>5, <1>6, <1>7, <1>10, <1>11, <1>12, <1>14, <1>15, <1>16, <1>17, BeginPreserves

\* set and operator=, within or beyond what the block holds.
LEMMA PutPreserves ==
    ASSUME NEW where, NEW whose, NEW depth, NEW stack, Inv(where, whose, depth, stack),
           NEW th \in Thread, NEW b \in Buffer, NEW n \in Length,
           NEW from \in Buffer \cup {NoBuffer}, Usable(b), Put(th, b, n, from)
    PROVE  IInv'
<1>1. CASE n <= buffer[b].max
  BY <1>1, LengthPreserves DEF Put
<1>2. CASE ~(n <= buffer[b].max)
  BY <1>2, ReplacePreserves DEF Put
<1>3. QED
  BY <1>1, <1>2

\* resize, whether it keeps the bytes or not.
LEMMA ResizePreserves ==
    ASSUME NEW where, NEW whose, NEW depth, NEW stack, Inv(where, whose, depth, stack),
           NEW th \in Thread, NEW b \in Buffer, Resize(th, b)
    PROVE  IInv'
<1>1. PICK n \in Length, valid \in BOOLEAN :
         IF n <= buffer[b].max
         THEN AtOnce(th) /\ buffer' = [buffer EXCEPT ![b].length = n]
         ELSE Replace(th, b, n, NoBuffer, valid /\ buffer[b].length > 0)
  BY DEF Resize
<1>2. Usable(b)
  BY DEF Resize
<1>3. CASE n <= buffer[b].max
  BY <1>1, <1>2, <1>3, LengthPreserves
<1>4. CASE ~(n <= buffer[b].max)
  <2>1. PICK keep \in BOOLEAN : keep = (valid /\ buffer[b].length > 0)
    OBVIOUS
  <2>2. Replace(th, b, n, NoBuffer, keep)
    BY <1>1, <1>4, <2>1
  <2>3. QED
    BY <1>2, <1>4, <2>2, ReplacePreserves
<1>5. QED
  BY <1>3, <1>4

\* A block changes its buffer.
LEMMA MovePreserves ==
    ASSUME NEW where, NEW whose, NEW depth, NEW stack, Inv(where, whose, depth, stack),
           NEW th \in Thread, NEW b \in Buffer, NEW q \in Buffer \ {b}, Data(b) = NoBlock,
           ~Busy(b), Usable(q), AtOnce(th),
           buffer' = [[buffer EXCEPT ![b] = buffer[q]] EXCEPT ![q] = EmptyBuffer(buffer[q].trace)]
    PROVE  IInv'
<1> USE Sizes
<1>1. /\ Exists(q) /\ ~Busy(q) /\ Data(q) = buffer[q].data /\ buffer[q] \in Cbuffer
      /\ buffer[q].trace \in Trace /\ buffer[q] # NoBuffer
  BY UsableFacts DEF Usable, Exists, Cbuffer
<1>2. UNCHANGED <<memory, store, trace, loose, call>>
  BY DEF AtOnce
<1>3. /\ \A c \in Buffer \ {b, q} : buffer'[c] = buffer[c]
      /\ buffer'[b] = buffer[q] /\ buffer'[q] = EmptyBuffer(buffer[q].trace)
      /\ buffer' \in [Buffer -> Cbuffer \cup {NoBuffer}]
  BY <1>1, EmptyFacts DEF Inv, TypeOK
<1>4. /\ Data(b)' = Data(q) /\ Data(q)' = NoBlock
      /\ \A c \in Buffer \ {b, q} : Data(c)' = Data(c)
  BY <1>1, <1>3, EmptyFacts DEF Data, Exists
<1>5. PICK block \in MaybeBlock : block = Data(q)
  BY Owners
<1> DEFINE whose1 == [whose EXCEPT ![block] = b]
<1>6. TypeOK'
  BY <1>2, <1>3 DEF Inv, TypeOK, memory, store, trace
<1>7. CallInv'
  <2>1. \A u \in Thread : call[u].buffer # b /\ call[u].buffer # q
    BY <1>1, UsableFacts
  <2>2. ASSUME NEW u \in Thread, call[u].want > 0
        PROVE  \E x \in Buffer : call[u].buffer = x /\ Data(x)' = NoBlock
    <3>1. PICK x \in Buffer : call[u].buffer = x /\ Data(x) = NoBlock
      BY <2>2 DEF Inv, CallInv
    <3>2. QED
      BY <1>4, <2>1, <3>1
  <2>3. QED
    BY <1>2, <2>2 DEF Inv, CallInv
<1>8. BufferInv'
  <2>1. ~Awaits(b) /\ ~Awaits(q)
    BY <1>1, UsableFacts
  <2>2. QED
    BY <1>1, <1>2, <1>3, <2>1, EmptyFacts DEF Inv, BufferInv, Exists, Awaits, memory
<1>9. block # NoBlock => block \in Block /\ where[block] = "buffer" /\ whose[block] = q
  BY <1>5, Owners
<1>10. OwnerType(where, whose1, depth, stack)'
  BY <1>9 DEF Inv, Placed, OwnerType, MaybeBlock
<1>11. (HeapAt(where) /\ LooseAt(where))'
  BY <1>2 DEF Inv, Placed, HeapAt, LooseAt, memory
<1>12. BufferAt(where, whose1)'
  BY <1>4, <1>5, <1>9 DEF Inv, Placed, BufferAt, OwnerType, MaybeBlock
<1>13. (OldAt(where, whose1) /\ GotAt(where, whose1))'
  BY <1>2, <1>9 DEF Inv, Placed, OldAt, GotAt, OwnerType, MaybeBlock
<1>14. StoreAt(where, whose1, depth, stack)'
  BY <1>2, <1>9 DEF Inv, Placed, StoreAt, store, memory, OwnerType, MaybeBlock
<1>15. BlockInv(where, whose1)'
  BY <1>2, <1>9 DEF Inv, Placed, BlockInv, memory, OwnerType, MaybeBlock
<1> HIDE DEF whose1
<1>16. QED
  BY <1>6, <1>7, <1>8, <1>10, <1>11, <1>12, <1>13, <1>14, <1>15 DEF IInv, Placed

\* Cbuffer(std::move(another)): the block changes its buffer.
LEMMA MoveConstructPreserves ==
    ASSUME NEW where, NEW whose, NEW depth, NEW stack, Inv(where, whose, depth, stack),
           NEW th \in Thread, NEW b \in Buffer, NEW q \in Buffer, MoveConstruct(th, b, q)
    PROVE  IInv'
<1>1. ~Exists(b) /\ ~Busy(b) /\ Usable(q) /\ AtOnce(th)
  BY DEF MoveConstruct
<1>2. buffer' = [[buffer EXCEPT ![b] = buffer[q]] EXCEPT ![q] = EmptyBuffer(buffer[q].trace)]
  BY DEF MoveConstruct
<1>3. q # b /\ Data(b) = NoBlock
  BY <1>1 DEF Usable, Data
<1>4. QED
  BY <1>1, <1>2, <1>3, MovePreserves

\* operator=(std::move(another)): one block is to be returned and another one changes
\* its buffer, unless both buffers are one.
LEMMA MoveAssignPreserves ==
    ASSUME NEW where, NEW whose, NEW depth, NEW stack, Inv(where, whose, depth, stack),
           NEW th \in Thread, NEW b \in Buffer, NEW q \in Buffer, MoveAssign(th, b, q)
    PROVE  IInv'
<1> USE Sizes
<1>1. Usable(b) /\ Usable(q)
  BY DEF MoveAssign
<1>2. buffer' = [[buffer EXCEPT ![b] = buffer[q]] EXCEPT ![q] = EmptyBuffer(buffer[q].trace)]
  BY DEF MoveAssign
<1>3. /\ Exists(b) /\ ~Busy(b) /\ Data(b) = buffer[b].data /\ buffer[b] \in Cbuffer
      /\ Exists(q) /\ ~Busy(q) /\ Data(q) = buffer[q].data /\ buffer[q] \in Cbuffer
      /\ buffer[q].trace \in Trace /\ buffer[q] # NoBuffer /\ buffer[b].trace \in Trace
      /\ ~Awaits(b) /\ ~Awaits(q)
  BY <1>1, UsableFacts DEF Usable, Exists, Cbuffer
<1>4. /\ \A c \in Buffer \ {b, q} : buffer'[c] = buffer[c]
      /\ b # q => buffer'[b] = buffer[q]
      /\ buffer'[q] = EmptyBuffer(buffer[q].trace)
      /\ buffer' \in [Buffer -> Cbuffer \cup {NoBuffer}]
  BY <1>2, <1>3, EmptyFacts DEF Inv, TypeOK
<1>5. /\ b # q => Data(b)' = Data(q)
      /\ Data(q)' = NoBlock
      /\ \A c \in Buffer \ {b, q} : Data(c)' = Data(c)
  BY <1>3, <1>4, EmptyFacts DEF Data, Exists
<1>6. CASE Data(b) = NoBlock
  <2>1. AtOnce(th)
    BY <1>3, <1>6 DEF MoveAssign
  <2>2. CASE b # q
    BY <1>1, <1>2, <1>3, <1>6, <2>1, <2>2, MovePreserves
  <2>3. CASE b = q
    <3>1. \A c \in Buffer : Data(c)' = Data(c)
      BY <1>5, <1>6, <2>3
    <3>2. UNCHANGED <<room, call>>
      BY <2>1 DEF AtOnce, memory
    <3>3. BufferInv'
      BY <1>3, <1>4, <2>3, <3>2, EmptyFacts DEF Inv, BufferInv, Exists, Awaits
    <3>4. QED
      BY <1>4, <2>1, <3>1, <3>3, AtOncePreserves
  <2>4. QED
    BY <2>2, <2>3
<1>7. CASE Data(b) # NoBlock
  <2>1. PICK c \in Call :
           c = [Idle EXCEPT !.at = "leave", !.buffer = b,
                            !.trace = buffer[b].trace, !.old = buffer[b].data]
    BY <1>3, IdleFacts DEF Call, Cbuffer
  <2>2. /\ c.at = "leave" /\ c.buffer = b /\ c.want = 0 /\ c.got = NoBlock
        /\ c.old = Data(b)
    BY <1>3, <2>1, IdleFacts DEF Call, Idle
  <2>3. Begin(th, c) /\ UNCHANGED loose
    BY <1>3, <1>7, <2>1 DEF MoveAssign
  <2>4. \A u \in Thread : call[u].buffer # b /\ call[u].buffer # q
    BY <1>3, UsableFacts
  <2>5. /\ Data(b) \in Block /\ where[Data(b)] = "buffer" /\ whose[Data(b)] = b
        /\ Data(b) \notin loose /\ room[Data(b)] \in Size /\ word[Data(b)] = room[Data(b)]
    BY <1>7, Owners DEF Inv, Placed, LooseAt
  <2>6. /\ \A u \in Thread : u # th => call'[u] = call[u]
        /\ call'[th] = c /\ call[th] = Idle
        /\ UNCHANGED <<memory, store, trace>>
    BY <2>3 DEF Begin, Inv, TypeOK
  <2>7. BufferInv'
    <3>1. \A x \in Buffer : Awaits(x) => Awaits(x)'
      BY <2>6, IdleFacts DEF Awaits
    <3>2. QED
      BY <1>3, <1>4, <2>6, <3>1, EmptyFacts DEF Inv, BufferInv, Exists, memory
  <2>8. CASE b = q
    <3>1. loose' = loose \ {c.old}
      BY <2>2, <2>3, <2>5
    <3>2. \A x \in Buffer : Data(x) = Data(b) => x = b
      BY <1>7, Owners
    <3>3. \A x \in Buffer : Data(x)' = IF Data(x) = c.old THEN NoBlock ELSE Data(x)
      BY <1>5, <2>2, <2>8, <3>2
    <3>4. c.old \in Block => where[c.old] \in {"buffer", "loose"}
      BY <2>2, <2>5
    <3>5. QED
      BY <1>4, <1>7, <2>2, <2>3, <2>4, <2>7, <3>1, <3>3, <3>4, BeginPreserves
  <2>9. CASE b # q
    <3>1. PICK old \in Block : old = Data(b)
      BY <2>5
    <3>2. PICK block \in MaybeBlock : block = Data(q)
      BY Owners
    <3>3. block # NoBlock => /\ block \in Block /\ where[block] = "buffer" /\ whose[block] = q
                             /\ room[block] \in Size /\ word[block] = room[block] /\ block # old
      BY <2>5, <2>9, <3>1, <3>2, Owners
    <3> DEFINE where1 == [where EXCEPT ![old] = "old"]
               whose1 == [whose EXCEPT ![old] = th, ![block] = b]
    <3>4. /\ where1 \in [Block -> Place] /\ DOMAIN whose1 = Block
          /\ where1[old] = "old" /\ whose1[old] = th
          /\ block # NoBlock => where1[block] = "buffer" /\ whose1[block] = b
          /\ \A x \in Block \ {old, block} : where1[x] = where[x] /\ whose1[x] = whose[x]
      BY <3>1, <3>3 DEF Inv, Placed, OwnerType, Place, MaybeBlock
    <3> HIDE DEF where1, whose1
    <3>5. TypeOK'
      BY <1>4, <2>3, <2>6 DEF Inv, TypeOK, memory, store, trace, Begin
    <3>6. CallInv'
      <4>1. ASSUME NEW u \in Thread, u # th, call[u].want > 0
            PROVE  \E x \in Buffer : call[u].buffer = x /\ Data(x)' = NoBlock
        <5>1. PICK x \in Buffer : call[u].buffer = x /\ Data(x) = NoBlock
          BY <4>1 DEF Inv, CallInv
        <5>2. QED
          BY <1>5, <2>4, <5>1
      <4>2. QED
        BY <1>7, <2>2, <2>4, <2>6, <4>1, IdleFacts DEF Inv, CallInv
    <3>7. OwnerType(where1, whose1, depth, stack)'
      BY <3>1, <3>3, <3>4 DEF Inv, Placed, OwnerType
    <3>8. (HeapAt(where1) /\ LooseAt(where1))'
      BY <2>3, <2>5, <2>6, <3>1, <3>3, <3>4 DEF Inv, Placed, HeapAt, LooseAt, memory, MaybeBlock
    <3>9. BufferAt(where1, whose1)'
      BY <1>5, <2>5, <2>9, <3>1, <3>2, <3>3, <3>4 DEF Inv, Placed, BufferAt, MaybeBlock
    <3>10. OldAt(where1, whose1)'
      BY <2>2, <2>5, <2>6, <3>1, <3>3, <3>4, IdleFacts DEF Inv, Placed, OldAt, MaybeBlock
    <3>11. GotAt(where1, whose1)'
      BY <2>2, <2>5, <2>6, <3>1, <3>3, <3>4, IdleFacts DEF Inv, Placed, GotAt, MaybeBlock
    <3>12. StoreAt(where1, whose1, depth, stack)'
      BY <2>5, <2>6, <3>1, <3>3, <3>4 DEF Inv, Placed, StoreAt, store, memory, MaybeBlock
    <3>13. BlockInv(where1, whose1)'
      <4>1. ASSUME NEW x \in Block, where[x] = "got" PROVE whose[x] # th /\ whose[x] \in Thread
        <5>1. whose[x] \in Thread /\ call[whose[x]].got = x
          BY <4>1 DEF Inv, Placed, GotAt, OwnerType
        <5>2. QED
          BY <2>6, <5>1, IdleFacts
      <4>2. QED
        BY <2>5, <2>6, <3>1, <3>3, <3>4, <4>1 DEF Inv, Placed, BlockInv, memory, MaybeBlock
    <3>14. QED
      BY <2>7, <3>5, <3>6, <3>7, <3>8, <3>9, <3>10, <3>11, <3>12, <3>13 DEF IInv, Placed
  <2>10. QED
    BY <2>8, <2>9
<1>8. QED
  BY <1>6, <1>7

\* transfer: libuv has the block.
LEMMA TransferPreserves ==
    ASSUME NEW where, NEW whose, NEW depth, NEW stack, Inv(where, whose, depth, stack),
           NEW th \in Thread, NEW b \in Buffer, Transfer(th, b)
    PROVE  IInv'
<1> USE Sizes
<1>1. /\ Exists(b) /\ ~Busy(b) /\ Data(b) = buffer[b].data /\ buffer[b] \in Cbuffer
      /\ Data(b) # NoBlock
  BY UsableFacts DEF Usable, Exists, Transfer
<1>2. /\ loose' = loose \cup {Data(b)}
      /\ buffer' = [buffer EXCEPT ![b] = EmptyBuffer(PoolTrace)]
      /\ UNCHANGED <<memory, store, trace, call>>
  BY <1>1 DEF Transfer
<1>3. /\ \A c \in Buffer \ {b} : buffer'[c] = buffer[c]
      /\ buffer'[b] = EmptyBuffer(PoolTrace)
      /\ buffer' \in [Buffer -> Cbuffer \cup {NoBuffer}]
  BY <1>2, EmptyFacts DEF Inv, TypeOK
<1>4. Data(b)' = NoBlock /\ \A c \in Buffer \ {b} : Data(c)' = Data(c)
  BY <1>3, EmptyFacts DEF Data, Exists
<1>5. PICK block \in Block : block = Data(b) /\ where[block] = "buffer" /\ whose[block] = b
  BY <1>1, Owners
<1> DEFINE where1 == [where EXCEPT ![block] = "loose"]
<1>6. TypeOK'
  BY <1>2, <1>3, <1>5 DEF Inv, TypeOK, memory, store, trace
<1>7. CallInv'
  <2>1. ASSUME NEW u \in Thread, call[u].want > 0
        PROVE  \E x \in Buffer : call[u].buffer = x /\ Data(x)' = NoBlock
    <3>1. PICK x \in Buffer : call[u].buffer = x /\ Data(x) = NoBlock
      BY <2>1 DEF Inv, CallInv
    <3>2. QED
      BY <1>4, <3>1
  <2>2. QED
    BY <1>2, <2>1 DEF Inv, CallInv
<1>8. BufferInv'
  BY <1>2, <1>3, EmptyFacts DEF Inv, BufferInv, Exists, Awaits, memory
<1>9. OwnerType(where1, whose, depth, stack)'
  BY DEF Inv, Placed, OwnerType, Place
<1>10. (HeapAt(where1) /\ LooseAt(where1))'
  BY <1>2, <1>5 DEF Inv, Placed, HeapAt, LooseAt, memory, OwnerType
<1>11. BufferAt(where1, whose)'
  BY <1>4, <1>5 DEF Inv, Placed, BufferAt, OwnerType
<1>12. (OldAt(where1, whose) /\ GotAt(where1, whose))'
  BY <1>2, <1>5 DEF Inv, Placed, OldAt, GotAt, OwnerType
<1>13. StoreAt(where1, whose, depth, stack)'
  BY <1>2, <1>5 DEF Inv, Placed, StoreAt, store, memory, OwnerType
<1>14. BlockInv(where1, whose)'
  BY <1>2, <1>5 DEF Inv, Placed, BlockInv, memory, OwnerType
<1> HIDE DEF where1
<1>15. QED
  BY <1>6, <1>7, <1>8, <1>9, <1>10, <1>11, <1>12, <1>13, <1>14 DEF IInv, Placed

\* The pool returns a block that libuv had.
LEMMA FreeLoosePreserves ==
    ASSUME NEW where, NEW whose, NEW depth, NEW stack, Inv(where, whose, depth, stack),
           NEW th \in Thread, FreeLoose(th)
    PROVE  IInv'
<1> USE Sizes
<1>1. PICK block \in loose : /\ Begin(th, [Idle EXCEPT !.at = "leave", !.old = block])
                             /\ loose' = loose \ {block}
  BY DEF FreeLoose
<1>2. block \in Block /\ where[block] = "loose" /\ UNCHANGED buffer
  BY DEF Inv, TypeOK, Placed, LooseAt, FreeLoose
<1>3. PICK c \in Call : c = [Idle EXCEPT !.at = "leave", !.old = block]
  BY <1>2, IdleFacts DEF Call, MaybeBlock
<1>4. /\ c.at = "leave" /\ c.buffer = NoBuffer /\ c.want = 0 /\ c.got = NoBlock /\ c.old = block
  BY <1>3, IdleFacts DEF Call, Idle
<1>5. \A x \in Buffer : Data(x) # block /\ Data(x)' = Data(x)
  BY <1>2, Owners DEF Data, Exists
<1>6. \A x \in Buffer : Data(x)' = IF Data(x) = c.old THEN NoBlock ELSE Data(x)
  BY <1>4, <1>5
<1>7. Begin(th, c)
  BY <1>1, <1>3
<1>8. BufferInv'
  <2>1. \A u \in Thread : u # th => call'[u] = call[u]
    BY <1>7 DEF Begin, Inv, TypeOK
  <2>2. call[th] = Idle /\ UNCHANGED room
    BY <1>7 DEF Begin, memory
  <2>3. \A x \in Buffer : Awaits(x) => Awaits(x)'
    BY <2>1, <2>2, IdleFacts DEF Awaits
  <2>4. QED
    BY <1>2, <2>2, <2>3 DEF Inv, BufferInv, Exists
<1>9. buffer' \in [Buffer -> Cbuffer \cup {NoBuffer}]
  BY <1>2 DEF Inv, TypeOK
<1>10. QED
  BY <1>1, <1>2, <1>4, <1>6, <1>7, <1>8, <1>9, BeginPreserves

-----------------------------------------------------------------------------
\* At first malloc has every block.
LEMMA InitInv == Init => IInv
<1> SUFFICES ASSUME Init PROVE IInv
  OBVIOUS
<1> USE Sizes
<1> DEFINE where == [x \in Block |-> "heap"]
           whose == [x \in Block |-> "heap"]
           depth == [x \in Block |-> 0]
           stack == [s \in Size |-> [k \in Nat |-> NoBlock]]
<1>1. TypeOK
  BY IdleFacts DEF Init, TypeOK, MaybeBlock
<1>2. CallInv
  BY IdleFacts DEF Init, CallInv
<1>3. BufferInv
  BY DEF Init, BufferInv, Exists
<1>4. OwnerType(where, whose, depth, stack)
  BY DEF OwnerType, Place, MaybeBlock
<1>5. HeapAt(where) /\ LooseAt(where)
  BY DEF Init, HeapAt, LooseAt
<1>6. BufferAt(where, whose)
  BY DEF Init, BufferAt, Data, Exists
<1>7. OldAt(where, whose) /\ GotAt(where, whose)
  BY IdleFacts DEF Init, OldAt, GotAt
<1>8. StoreAt(where, whose, depth, stack)
  BY DEF Init, StoreAt
<1>9. BlockInv(where, whose)
  BY DEF BlockInv
<1> HIDE DEF where, whose, depth, stack
<1>10. QED
  BY <1>1, <1>2, <1>3, <1>4, <1>5, <1>6, <1>7, <1>8, <1>9 DEF IInv, Placed

\* Every step keeps the invariant.
LEMMA NextInv == IInv /\ [Next]_vars => IInv'
<1> SUFFICES ASSUME IInv, [Next]_vars PROVE IInv'
  OBVIOUS
<1> PICK where, whose, depth, stack : Inv(where, whose, depth, stack)
  BY DEF IInv, Inv
<1>1. CASE UNCHANGED vars
  <2>1. TypeOK' /\ CallInv' /\ BufferInv'
    BY <1>1 DEF Inv, TypeOK, CallInv, BufferInv, Data, Exists, Awaits, vars, memory, store, trace
  <2>2. OwnerType(where, whose, depth, stack)'
    BY DEF Inv, Placed, OwnerType
  <2>3. (HeapAt(where) /\ LooseAt(where) /\ BufferAt(where, whose))'
    BY <1>1 DEF Inv, Placed, HeapAt, LooseAt, BufferAt, Data, Exists, vars, memory
  <2>4. (OldAt(where, whose) /\ GotAt(where, whose))'
    BY <1>1 DEF Inv, Placed, OldAt, GotAt, vars
  <2>5. StoreAt(where, whose, depth, stack)'
    BY <1>1 DEF Inv, Placed, StoreAt, vars, store, memory
  <2>6. BlockInv(where, whose)'
    BY <1>1 DEF Inv, Placed, BlockInv, vars, memory
  <2>7. QED
    BY <2>1, <2>2, <2>3, <2>4, <2>5, <2>6 DEF IInv, Placed
<1>2. ASSUME NEW th \in Thread, Continue(th) PROVE IInv'
  BY <1>2, TakePreserves, MallocPreserves, GivePreserves, EnterPreserves, LeavePreserves,
     FinishPreserves DEF Continue
<1>3. ASSUME NEW th \in Thread, NEW b \in Buffer,
             New(th, b) \/ Destroy(th, b) \/ SetData(th, b) \/ Resize(th, b) \/ Transfer(th, b)
      PROVE  IInv'
  <2>1. CASE New(th, b)
    BY <2>1, ConstructPreserves DEF New
  <2>2. CASE SetData(th, b)
    BY <2>2, PutPreserves DEF SetData
  <2>3. QED
    BY <1>3, <2>1, <2>2, DestroyPreserves, ResizePreserves, TransferPreserves
<1>4. ASSUME NEW th \in Thread, NEW b \in Buffer, NEW q \in Buffer,
             \/ CopyConstruct(th, b, q) \/ MoveConstruct(th, b, q)
             \/ CopyAssign(th, b, q) \/ MoveAssign(th, b, q)
      PROVE  IInv'
  <2>1. CASE CopyConstruct(th, b, q)
    <3>1. PICK t \in Trace, n \in Length : t = buffer[q].trace /\ n = buffer[q].length
      BY <2>1, UsableFacts DEF CopyConstruct, Usable, Cbuffer
    <3>2. QED
      BY <2>1, <3>1, ConstructPreserves DEF CopyConstruct
  <2>2. CASE CopyAssign(th, b, q)
    <3>1. PICK n \in Length : n = buffer[q].length
      BY <2>2, UsableFacts DEF CopyAssign, Usable, Cbuffer
    <3>2. QED
      BY <2>2, <3>1, PutPreserves DEF CopyAssign
  <2>3. QED
    BY <1>4, <2>1, <2>2, MoveConstructPreserves, MoveAssignPreserves
<1>5. ASSUME NEW th \in Thread, FreeLoose(th) PROVE IInv'
  BY <1>5, FreeLoosePreserves
<1>6. QED
  BY <1>1, <1>2, <1>3, <1>4, <1>5 DEF Next, Operation

\* Every block is in one place at every time: in malloc, in one store, buffer or thread
\* (fast_allocator.cpp and buffer.h).
THEOREM IInvariant == Spec => []IInv
BY InitInv, NextInv, PTL DEF Spec

-----------------------------------------------------------------------------
(* The stores.                                                              *)

\* The blocks of a store, by their places.
InStore(where, whose, s) == {x \in Block : where[x] = "store" /\ whose[x] = s}

\* A store holds as many blocks as are counted, and no more than there are.
LEMMA StoreSize ==
    ASSUME NEW where, NEW whose, NEW depth, NEW stack, Inv(where, whose, depth, stack),
           NEW s \in Size
    PROVE  /\ count[s] \in Nat /\ count[s] <= Cardinality(Block) /\ Cardinality(Block) \in Nat
           /\ Cardinality(InStore(where, whose, s)) = count[s]
<1> DEFINE f == [k \in 1..count[s] |-> stack[s][k]]
           T == InStore(where, whose, s)
<1>1. count[s] \in Nat
  BY DEF Inv, TypeOK
<1>2. IsFiniteSet(Block) /\ Cardinality(Block) \in Nat
  BY MemoryAssumption, FS_CardinalityType
<1>3. \A k \in 1..count[s] : /\ f[k] \in Block /\ where[f[k]] = "store" /\ whose[f[k]] = s
                             /\ depth[f[k]] = k
  BY DEF Inv, Placed, StoreAt
<1>4. \A x \in T : depth[x] \in 1..count[s] /\ f[depth[x]] = x
  BY DEF Inv, Placed, StoreAt, InStore
<1>5. f \in [1..count[s] -> T]
  BY <1>3 DEF InStore
<1> HIDE DEF f
<1>6. \A j, k \in 1..count[s] : f[j] = f[k] => j = k
  BY <1>3
<1> HIDE DEF T
<1>7. f \in Injection(1..count[s], T)
  BY <1>5, <1>6 DEF Injection, IsInjective
<1>8. f \in Surjection(1..count[s], T)
  BY <1>4, <1>5 DEF Surjection
<1>9. IsFiniteSet(1..count[s]) /\ Cardinality(1..count[s]) = count[s]
  BY <1>1, FS_Interval, SMTT(30)
<1>10. Cardinality(T) = count[s]
  <2>1. ExistsBijection(1..count[s], T)
    BY <1>7, <1>8 DEF ExistsBijection, Bijection
  <2>2. QED
    BY <1>9, <2>1, FS_Bijection
<1>11. Cardinality(T) <= Cardinality(Block)
  <2>1. T \in SUBSET Block
    BY DEF T, InStore
  <2>2. QED
    BY <1>2, <2>1, FS_Subset
<1>12. QED
  BY <1>1, <1>2, <1>10, <1>11 DEF T

\* What the list from the head of a store is: its stack, from the top.
LEMMA StoredIs ==
    ASSUME NEW where, NEW whose, NEW depth, NEW stack, Inv(where, whose, depth, stack),
           NEW s \in Size
    PROVE  /\ DOMAIN Stored(s) = 0..Cardinality(Block)
           /\ \A k \in 0..Cardinality(Block) :
                 Stored(s)[k] = IF k <= count[s] THEN stack[s][count[s] - k] ELSE NoBlock
<1>1. PICK h \in Nat, N \in Nat : h = count[s] /\ N = Cardinality(Block) /\ h <= N
  BY StoreSize
<1> DEFINE list == [k \in 0..N |-> IF k <= h THEN stack[s][h - k] ELSE NoBlock]
           IsList(l) == l = [k \in 0..N |->
                               IF k = 0 THEN head[s]
                               ELSE IF l[k - 1] = NoBlock THEN NoBlock ELSE word[l[k - 1]]]
<1>2. /\ stack[s][0] = NoBlock /\ head[s] = stack[s][h]
      /\ \A k \in 1..h : stack[s][k] # NoBlock /\ word[stack[s][k]] = stack[s][k - 1]
  BY <1>1, Sizes DEF Inv, Placed, StoreAt
<1>3. ASSUME NEW k \in 0..N
      PROVE  list[k] = IF k = 0 THEN head[s]
                       ELSE IF list[k - 1] = NoBlock THEN NoBlock ELSE word[list[k - 1]]
  <2>1. CASE k = 0
    BY <1>1, <1>2, <2>1
  <2>2. CASE k # 0 /\ k <= h
    <3>1. k - 1 \in 0..N /\ h - (k - 1) \in 1..h /\ (h - (k - 1)) - 1 = h - k /\ k - 1 <= h
      BY <1>1, <2>2
    <3>2. list[k - 1] = stack[s][h - (k - 1)] /\ list[k] = stack[s][h - k]
      BY <2>2, <3>1
    <3>3. QED
      BY <1>2, <2>2, <3>1, <3>2
  <2>3. CASE k # 0 /\ k = h + 1
    <3>1. k - 1 \in 0..N /\ h - (k - 1) = 0 /\ k - 1 <= h /\ ~(k <= h)
      BY <1>1, <2>3
    <3>2. list[k - 1] = stack[s][h - (k - 1)] /\ list[k] = NoBlock
      BY <3>1
    <3>3. QED
      BY <1>2, <2>3, <3>1, <3>2
  <2>4. CASE k # 0 /\ k > h + 1
    <3>1. k - 1 \in 0..N /\ ~(k - 1 <= h) /\ ~(k <= h)
      BY <1>1, <2>4
    <3>2. list[k - 1] = NoBlock /\ list[k] = NoBlock
      BY <3>1
    <3>3. QED
      BY <2>4, <3>2
  <2>5. QED
    BY <1>1, <2>1, <2>2, <2>3, <2>4
<1>4. IsList(list)
  <2>1. list = [k \in 0..N |-> list[k]]
    OBVIOUS
  <2> HIDE DEF list
  <2>2. QED
    BY <1>3, <2>1
<1> HIDE DEF list
<1>5. IsList(Stored(s))
  <2>1. \E l : IsList(l)
    BY <1>4
  <2>2. QED
    BY <1>1, <2>1 DEF Stored
<1> DEFINE Wrong == {k \in 0..N : Stored(s)[k] # list[k]}
<1>6. Wrong = {}
  <2> SUFFICES ASSUME Wrong # {} PROVE FALSE
    OBVIOUS
  <2>1. Wrong \in SUBSET Nat
    OBVIOUS
  <2>2. PICK k \in Wrong : \A j \in Wrong : k <= j
    BY <2>1, LeastNat
  <2>3. k \in 0..N /\ Stored(s)[k] # list[k]
    OBVIOUS
  <2>4. k # 0
    BY <1>4, <1>5, <2>3
  <2>5. k - 1 \in 0..N /\ ~(k <= k - 1)
    BY <2>3, <2>4
  <2>6. Stored(s)[k - 1] = list[k - 1]
    BY <2>2, <2>5
  <2>7. QED
    BY <1>4, <1>5, <2>3, <2>4, <2>6
<1>7. DOMAIN Stored(s) = 0..N
  BY <1>5
<1>8. QED
  BY <1>1, <1>6, <1>7 DEF list

\* The list from the head of a store ends after the blocks that are counted.
LEMMA StoredSetIs ==
    ASSUME NEW where, NEW whose, NEW depth, NEW stack, Inv(where, whose, depth, stack),
           NEW s \in Size
    PROVE  /\ StoredSet(s) = InStore(where, whose, s)
           /\ Stored(s)[count[s]] = NoBlock
<1>1. PICK h \in Nat, N \in Nat : h = count[s] /\ N = Cardinality(Block) /\ h <= N
  BY StoreSize
<1>2. /\ stack[s][0] = NoBlock
      /\ \A k \in 1..h : stack[s][k] \in Block /\ where[stack[s][k]] = "store" /\ whose[stack[s][k]] = s
      /\ \A x \in InStore(where, whose, s) : depth[x] \in 1..h /\ stack[s][depth[x]] = x
  BY <1>1 DEF Inv, Placed, StoreAt, InStore
<1>3. /\ DOMAIN Stored(s) = 0..N
      /\ \A k \in 0..N : Stored(s)[k] = IF k <= h THEN stack[s][h - k] ELSE NoBlock
  BY <1>1, StoredIs
<1>4. ASSUME NEW k \in 0..N, Stored(s)[k] # NoBlock
      PROVE  Stored(s)[k] \in InStore(where, whose, s)
  <2>1. k <= h /\ Stored(s)[k] = stack[s][h - k]
    BY <1>3, <1>4
  <2>2. h - k \in 1..h
    BY <1>2, <1>4, <2>1
  <2>3. QED
    BY <1>2, <2>1, <2>2 DEF InStore
<1>5. ASSUME NEW x \in InStore(where, whose, s)
      PROVE  x # NoBlock /\ \E k \in 0..N : Stored(s)[k] = x
  <2>1. PICK d \in 1..h : stack[s][d] = x
    BY <1>2
  <2>2. h - d \in 0..N /\ h - d <= h /\ h - (h - d) = d
    BY <1>1
  <2>3. Stored(s)[h - d] = x
    BY <1>3, <2>1, <2>2
  <2>4. QED
    BY <2>2, <2>3, Sizes DEF InStore
<1>6. Stored(s)[count[s]] = NoBlock
  <2>1. h \in 0..N /\ h <= h /\ h - h = 0
    BY <1>1
  <2>2. QED
    BY <1>1, <1>2, <1>3, <2>1
<1>7. QED
  BY <1>3, <1>4, <1>5, <1>6 DEF StoredSet

\* The invariant says that the stores are exact.
LEMMA InvStores ==
    ASSUME NEW where, NEW whose, NEW depth, NEW stack, Inv(where, whose, depth, stack)
    PROVE  StoresAreExact
<1> USE Sizes
<1> DEFINE At(place) == {x \in Block : where[x] = place}
           stored == UNION {StoredSet(s) : s \in Size}
           places == <<heap, stored, InBuffer \ {NoBlock}, loose, InHand \ {NoBlock}>>
           held == {x \in Block : where[x] \in {"old", "got"}}
<1>1. ASSUME NEW s \in Size
      PROVE  /\ count[s] = Cardinality(StoredSet(s)) /\ count[s] <= Limit[s]
             /\ Stored(s)[count[s]] = NoBlock
             /\ \A block \in StoredSet(s) : room[block] = s
             /\ \A r \in Size \ {s} : StoredSet(r) \cap StoredSet(s) = {}
  <2>1. count[s] = Cardinality(StoredSet(s)) /\ Stored(s)[count[s]] = NoBlock
    BY StoreSize, StoredSetIs
  <2>2. count[s] <= Limit[s]
    BY DEF Inv, Placed, StoreAt
  <2>3. \A block \in StoredSet(s) : room[block] = s
    BY StoredSetIs DEF InStore, Inv, Placed, BlockInv
  <2>4. ASSUME NEW r \in Size \ {s} PROVE StoredSet(r) \cap StoredSet(s) = {}
    <3>1. StoredSet(r) = InStore(where, whose, r) /\ StoredSet(s) = InStore(where, whose, s)
      BY StoredSetIs
    <3>2. QED
      BY <3>1 DEF InStore
  <2>5. QED
    BY <2>1, <2>2, <2>3, <2>4
<1>2. stored = At("store")
  <2>1. \A s \in Size : StoredSet(s) = InStore(where, whose, s)
    BY StoredSetIs
  <2>2. \A x \in Block : where[x] = "store" => whose[x] \in Size
    BY DEF Inv, Placed, StoreAt
  <2>3. stored \subseteq At("store")
    BY <2>1 DEF InStore
  <2>4. ASSUME NEW x \in At("store") PROVE x \in stored
    BY <2>1, <2>2 DEF InStore
  <2>5. QED
    BY <2>3, <2>4
<1>3. heap = At("heap") /\ loose = At("loose")
  BY DEF Inv, TypeOK, Placed, HeapAt, LooseAt
<1>4. InBuffer \ {NoBlock} = At("buffer")
  <2>1. InBuffer \ {NoBlock} \subseteq At("buffer")
    BY Owners DEF InBuffer, Data
  <2>2. ASSUME NEW x \in At("buffer") PROVE x \in InBuffer \ {NoBlock}
    <3>1. PICK b \in Buffer : Data(b) = x
      BY DEF Inv, Placed, BufferAt, OwnerType
    <3>2. QED
      BY <3>1 DEF InBuffer, Data
  <2>3. QED
    BY <2>1, <2>2
<1>5. \A th \in Thread : call[th].old \in MaybeBlock /\ call[th].got \in MaybeBlock
  BY DEF Inv, TypeOK, Call
<1>6. InHand \ {NoBlock} = held
  <2>1. InHand \ {NoBlock} \subseteq held
    BY <1>5 DEF InHand, MaybeBlock, Inv, Placed, OldAt, GotAt
  <2>2. ASSUME NEW x \in held PROVE x \in InHand \ {NoBlock}
    <3>1. \E th \in Thread : call[th].old = x \/ call[th].got = x
      BY DEF Inv, Placed, OldAt, GotAt, OwnerType
    <3>2. QED
      BY <3>1 DEF InHand
  <2>3. QED
    BY <2>1, <2>2
<1>7. \A x \in Block : where[x] \in Place
  BY DEF Inv, Placed, OwnerType
<1>8. /\ \A i, j \in DOMAIN places : i # j => places[i] \cap places[j] = {}
      /\ UNION ToSet(places) = Block
  <2> DEFINE p == <<At("heap"), At("store"), At("buffer"), At("loose"), held>>
  <2>1. places = p
    BY <1>2, <1>3, <1>4, <1>6
  <2>2. DOMAIN p = {1, 2, 3, 4, 5}
    OBVIOUS
  <2>3. \A i, j \in DOMAIN p : i # j => p[i] \cap p[j] = {}
    BY <2>2
  <2>4. \A i \in DOMAIN p : p[i] \subseteq Block
    BY <2>2
  <2>5. \A x \in Block : \E i \in DOMAIN p : x \in p[i]
    <3>1. /\ p[1] = At("heap") /\ p[2] = At("store") /\ p[3] = At("buffer")
          /\ p[4] = At("loose") /\ p[5] = held
      OBVIOUS
    <3>2. QED
      BY <1>7, <2>2, <3>1 DEF Place
  <2> HIDE DEF p
  <2>6. UNION ToSet(p) = Block
    BY <2>4, <2>5 DEF ToSet
  <2> HIDE DEF places
  <2>7. QED
    BY <2>1, <2>3, <2>6
<1>9. \A b, c \in Buffer :
        Exists(b) /\ Exists(c) /\ buffer[b].data = buffer[c].data /\ b # c
            => buffer[b].data = NoBlock
  BY Owners DEF Data
<1>10. \A th, u \in Thread :
          /\ call[th].old = call[u].got => call[th].old = NoBlock
          /\ call[th].old = call[u].old /\ th # u => call[th].old = NoBlock
          /\ call[th].got = call[u].got /\ th # u => call[th].got = NoBlock
  BY <1>5 DEF MaybeBlock, Inv, Placed, OldAt, GotAt
<1> HIDE DEF places, stored, held
<1>11. QED
  BY <1>1, <1>8, <1>9, <1>10 DEF StoresAreExact, places, stored

\* The stores are exact, whatever the threads do at the same time.
THEOREM StoresExact == Spec => []StoresAreExact
<1>1. IInv => StoresAreExact
  BY InvStores DEF IInv, Inv
<1>2. QED
  BY <1>1, IInvariant, PTL

-----------------------------------------------------------------------------
(* The counts of the traces.                                                *)

\* The blocks that a trace has counted, element by element.
Held(t) == Counted(t) \ {NoBlock}
InBufferOf(t, x) == \E b \in Buffer : Exists(b) /\ buffer[b].trace = t /\ buffer[b].data = x
GotFor(t, x) ==
    \E u \in Thread : call[u].trace = t /\ call[u].at \notin {"take", "malloc", "enter"} /\ call[u].got = x
OldFor(t, x) == \E u \in Thread : call[u].trace = t /\ call[u].at # "give" /\ call[u].old = x
HeldBy(t, x) ==
    \/ InBufferOf(t, x)
    \/ t = PoolTrace /\ x \in loose
    \/ GotFor(t, x)
    \/ OldFor(t, x)

TraceInv ==
    \A t \in Trace :
        /\ objects[t] = Cardinality(Held(t))
        /\ usage[t] = Total(room, Held(t))

\* Whether a trace has counted a block, before a step and after it.
LEMMA HeldIs ==
    ASSUME NEW t, NEW x
    PROVE  /\ x \in Held(t) <=> x # NoBlock /\ HeldBy(t, x)
           /\ (x \in Held(t) <=> x # NoBlock /\ HeldBy(t, x))'
BY DEF Held, Counted, HeldBy, InBufferOf, GotFor, OldFor

\* A trace has counted blocks only, finitely many.
LEMMA HeldType ==
    ASSUME NEW where, NEW whose, NEW depth, NEW stack, Inv(where, whose, depth, stack),
           NEW t \in Trace
    PROVE  /\ Held(t) \in SUBSET Block /\ IsFiniteSet(Held(t)) /\ IsFiniteSet(Block)
           /\ \A x \in Block : room[x] \in Nat
<1>1. ASSUME NEW x \in Held(t) PROVE x \in Block
  <2>1. x # NoBlock /\ HeldBy(t, x)
    BY HeldIs
  <2>2. CASE InBufferOf(t, x)
    BY <2>1, <2>2, Owners DEF InBufferOf, Data
  <2>3. CASE x \in loose
    BY <2>3 DEF Inv, TypeOK
  <2>4. CASE GotFor(t, x) \/ OldFor(t, x)
    BY <2>1, <2>4 DEF GotFor, OldFor, Inv, TypeOK, Call, MaybeBlock
  <2>5. QED
    BY <2>1, <2>2, <2>3, <2>4 DEF HeldBy
<1>2. Held(t) \in SUBSET Block
  BY <1>1
<1>3. IsFiniteSet(Held(t))
  BY <1>2, MemoryAssumption, FS_Subset
<1>4. QED
  BY <1>2, <1>3, MemoryAssumption DEF Inv, TypeOK

\* Where a counted block is.
LEMMA HeldPlace ==
    ASSUME NEW where, NEW whose, NEW depth, NEW stack, Inv(where, whose, depth, stack),
           NEW t \in Trace, NEW x \in Held(t)
    PROVE  \/ where[x] = "buffer"
           \/ where[x] = "loose" /\ t = PoolTrace
           \/ where[x] = "got" /\ call[whose[x]].trace = t
                 /\ call[whose[x]].at \notin {"take", "malloc", "enter"}
           \/ where[x] = "old" /\ call[whose[x]].trace = t /\ call[whose[x]].at # "give"
<1>1. x \in Block /\ x # NoBlock /\ HeldBy(t, x)
  BY HeldType, HeldIs
<1>2. CASE InBufferOf(t, x)
  BY <1>1, <1>2, Owners DEF InBufferOf, Data
<1>3. CASE t = PoolTrace /\ x \in loose
  BY <1>1, <1>3 DEF Inv, Placed, LooseAt
<1>4. CASE GotFor(t, x)
  BY <1>1, <1>4 DEF GotFor, Inv, Placed, GotAt
<1>5. CASE OldFor(t, x)
  BY <1>1, <1>5 DEF OldFor, Inv, Placed, OldAt
<1>6. QED
  BY <1>1, <1>2, <1>3, <1>4, <1>5 DEF HeldBy

\* A step that no count changes.
LEMMA SameTraces ==
    ASSUME NEW where, NEW whose, NEW depth, NEW stack, Inv(where, whose, depth, stack),
           TraceInv, UNCHANGED trace,
           \A t \in Trace : \A x : x # NoBlock => (HeldBy(t, x)' <=> HeldBy(t, x)),
           \A t \in Trace : \A x \in Held(t) : room'[x] = room[x]
    PROVE  TraceInv'
<1> SUFFICES ASSUME NEW t \in Trace
             PROVE  /\ objects'[t] = Cardinality(Held(t)')
                    /\ usage'[t] = Total(room', Held(t)')
  BY DEF TraceInv
<1>1. Held(t)' = Held(t)
  <2>1. \A x : x \in Held(t)' <=> x \in Held(t)
    BY HeldIs
  <2>2. QED
    BY <2>1
<1>2. \A x \in Held(t) : room[x] \in Nat /\ room'[x] = room[x]
  BY HeldType
<1>3. Total(room', Held(t)) = Total(room, Held(t))
  BY <1>2, HeldType, TotalSame
<1>4. QED
  BY <1>1, <1>3 DEF TraceInv, trace

\* A thread goes on with the blocks it had, whatever else it changes.
LEMMA SameHeld ==
    ASSUME NEW where, NEW whose, NEW depth, NEW stack, Inv(where, whose, depth, stack),
           NEW th \in Thread, NEW d \in Call, call' = [call EXCEPT ![th] = d],
           UNCHANGED <<buffer, loose>>,
           \A t, x : x # NoBlock =>
              (/\ d.trace = t /\ d.got = x /\ d.at \notin {"take", "malloc", "enter"}
               <=> /\ call[th].trace = t /\ call[th].got = x
                   /\ call[th].at \notin {"take", "malloc", "enter"}),
           \A t, x : x # NoBlock =>
              (d.trace = t /\ d.old = x /\ d.at # "give"
               <=> call[th].trace = t /\ call[th].old = x /\ call[th].at # "give")
    PROVE  \A t \in Trace : \A x : x # NoBlock => (HeldBy(t, x)' <=> HeldBy(t, x))
<1> SUFFICES ASSUME NEW t \in Trace, NEW x, x # NoBlock
             PROVE  HeldBy(t, x)' <=> HeldBy(t, x)
  OBVIOUS
<1>1. /\ \A u \in Thread : u # th => call'[u] = call[u]
      /\ call'[th] = d
  BY DEF Inv, TypeOK
<1>2. InBufferOf(t, x)' <=> InBufferOf(t, x)
  BY DEF InBufferOf, Exists
<1>3. GotFor(t, x)' <=> GotFor(t, x)
  BY <1>1 DEF GotFor
<1>4. OldFor(t, x)' <=> OldFor(t, x)
  BY <1>1 DEF OldFor
<1>5. QED
  BY <1>2, <1>3, <1>4 DEF HeldBy

\* A block that a thread takes is not counted yet.
LEMMA TakeTraces ==
    ASSUME NEW where, NEW whose, NEW depth, NEW stack, Inv(where, whose, depth, stack),
           NEW th \in Thread, Take(th), TraceInv
    PROVE  TraceInv'
<1>1. call[th] \in Call /\ call[th].at = "take" /\ call[th].want \in Length /\ call[th].want > 0
  BY DEF Inv, TypeOK, CallInv, Take, Call
<1>2. PICK got \in MaybeBlock : call' = Taken(th, got, "malloc")
  BY <1>1, Sizes DEF Take, Inv, TypeOK, MaybeBlock
<1>3. PICK d \in Call : d = [call[th] EXCEPT !.got = got, !.at = "malloc"]
  BY <1>1 DEF Call
<1>4. call' = [call EXCEPT ![th] = d]
  BY <1>2, <1>3 DEF Taken
<1>5. d.trace = call[th].trace /\ d.at = "malloc" /\ d.old = call[th].old
  BY <1>1, <1>3 DEF Call
<1>6. UNCHANGED <<memory, trace, buffer, loose>>
  BY DEF Take
<1>7. \A t \in Trace : \A x : x # NoBlock => (HeldBy(t, x)' <=> HeldBy(t, x))
  BY <1>1, <1>4, <1>5, <1>6, SameHeld
<1>8. QED
  BY <1>6, <1>7, SameTraces DEF memory

\* Nor is one that malloc gives, whose size was 0 until now.
LEMMA MallocTraces ==
    ASSUME NEW where, NEW whose, NEW depth, NEW stack, Inv(where, whose, depth, stack),
           NEW th \in Thread, Malloc(th), TraceInv
    PROVE  TraceInv'
<1>1. call[th] \in Call /\ call[th].at = "malloc" /\ UNCHANGED <<trace, buffer, loose>>
  BY DEF Inv, TypeOK, Malloc
<1>2. PICK got \in MaybeBlock :
         /\ call' = Taken(th, got, "enter")
         /\ \/ room' = room
            \/ got \in heap /\ room' = [room EXCEPT ![got] = call[th].want + Header]
  <2>1. CASE call[th].got # NoBlock
    BY <1>1, <2>1 DEF Malloc, Call
  <2>2. CASE call[th].got = NoBlock
    BY <2>2 DEF Malloc, Inv, TypeOK, MaybeBlock
  <2>3. QED
    BY <2>1, <2>2
<1>3. PICK d \in Call : d = [call[th] EXCEPT !.got = got, !.at = "enter"]
  BY <1>1 DEF Call
<1>4. call' = [call EXCEPT ![th] = d]
  BY <1>2, <1>3 DEF Taken
<1>5. d.trace = call[th].trace /\ d.at = "enter" /\ d.old = call[th].old
  BY <1>1, <1>3 DEF Call
<1>6. \A t \in Trace : \A x : x # NoBlock => (HeldBy(t, x)' <=> HeldBy(t, x))
  BY <1>1, <1>4, <1>5, SameHeld
<1>7. ASSUME NEW t \in Trace, NEW x \in Held(t) PROVE room'[x] = room[x]
  <2>1. x \in Block /\ where[x] # "heap"
    BY HeldPlace, HeldType
  <2>2. x \notin heap
    BY <2>1 DEF Inv, Placed, HeapAt
  <2>3. QED
    BY <1>2, <2>1, <2>2 DEF Inv, TypeOK
<1>8. QED
  BY <1>1, <1>6, <1>7, SameTraces

\* A block that __free takes is not counted any more.
LEMMA GiveTraces ==
    ASSUME NEW where, NEW whose, NEW depth, NEW stack, Inv(where, whose, depth, stack),
           NEW th \in Thread, Give(th), TraceInv
    PROVE  TraceInv'
<1>1. /\ call[th] \in Call /\ call[th].at = "give" /\ call[th].old \in Block
      /\ UNCHANGED <<trace, buffer, loose>> /\ call' = Given(th)
  BY DEF Inv, TypeOK, CallInv, Give, Call, MaybeBlock
<1>2. PICK at \in {"take", "finish"} :
         at = IF call[th].want > 0 /\ call[th].got = NoBlock THEN "take" ELSE "finish"
  OBVIOUS
<1>3. PICK d \in Call : d = [call[th] EXCEPT !.old = NoBlock, !.at = at]
  BY <1>1 DEF Call, MaybeBlock
<1>4. call' = [call EXCEPT ![th] = d]
  BY <1>1, <1>2, <1>3 DEF Given
<1>5. /\ d.trace = call[th].trace /\ d.at = at /\ d.old = NoBlock /\ d.got = call[th].got
      /\ at = "take" => call[th].got = NoBlock
  BY <1>1, <1>2, <1>3 DEF Call
<1>6. \A t \in Trace : \A x : x # NoBlock => (HeldBy(t, x)' <=> HeldBy(t, x))
  BY <1>1, <1>4, <1>5, SameHeld
<1>7. ASSUME NEW t \in Trace, NEW x \in Held(t) PROVE room'[x] = room[x]
  <2>1. where[call[th].old] = "old" /\ whose[call[th].old] = th
    BY <1>1 DEF Inv, Placed, OldAt
  <2>2. x # call[th].old
    BY <1>1, <2>1, HeldPlace
  <2>3. room' = room \/ room' = [room EXCEPT ![call[th].old] = 0]
    BY DEF Give
  <2>4. QED
    BY <2>2, <2>3, HeldType DEF Inv, TypeOK
<1>8. QED
  BY <1>1, <1>6, <1>7, SameTraces

\* _malloc_throw counts one block more, and its size.
LEMMA EnterTraces ==
    ASSUME NEW where, NEW whose, NEW depth, NEW stack, Inv(where, whose, depth, stack),
           NEW th \in Thread, Enter(th), TraceInv
    PROVE  TraceInv'
<1> USE Sizes
<1>1. /\ call[th] \in Call /\ call[th].at = "enter" /\ call[th].want > 0
      /\ call[th].got # NoBlock /\ UNCHANGED <<room, buffer, loose>>
  BY DEF Inv, TypeOK, CallInv, Enter
<1>2. PICK block \in Block, n \in Length, t \in Trace :
         block = call[th].got /\ n = call[th].want /\ t = call[th].trace
  BY <1>1 DEF Call, MaybeBlock
<1>3. PICK at \in {"finish", "leave"} : at = IF call[th].old = NoBlock THEN "finish" ELSE "leave"
  OBVIOUS
<1>4. /\ call' = [call EXCEPT ![th] = [call[th] EXCEPT !.at = at]]
      /\ usage' = [usage EXCEPT ![t] = @ + n + Header]
      /\ objects' = [objects EXCEPT ![t] = @ + 1]
  BY <1>1, <1>2, <1>3 DEF Enter, Goes
<1>5. where[block] = "got" /\ whose[block] = th /\ room[block] = n + Header /\ n \in Nat
  BY <1>2 DEF Inv, Placed, GotAt, BlockInv
<1>6. /\ \A u \in Thread : u # th => call'[u] = call[u]
      /\ call'[th] = [call[th] EXCEPT !.at = at]
  BY <1>4 DEF Inv, TypeOK
<1>7. ASSUME NEW v \in Trace
      PROVE  Held(v)' = IF v = t THEN Held(v) \cup {block} ELSE Held(v)
  <2>1. ASSUME NEW x, x # NoBlock
        PROVE  HeldBy(v, x)' <=> HeldBy(v, x) \/ (v = t /\ x = block)
    <3>1. InBufferOf(v, x)' <=> InBufferOf(v, x)
      BY <1>1 DEF InBufferOf, Exists
    <3>2. GotFor(v, x)' <=> GotFor(v, x) \/ (v = t /\ x = block)
      BY <1>1, <1>2, <1>3, <1>6 DEF GotFor, Call
    <3>3. OldFor(v, x)' <=> OldFor(v, x)
      BY <1>1, <1>3, <1>6 DEF OldFor, Call
    <3>4. QED
      BY <1>1, <3>1, <3>2, <3>3 DEF HeldBy
  <2>2. \A x : x \in Held(v)' <=> x \in Held(v) \/ (v = t /\ x = block)
    BY <1>2, <2>1, HeldIs
  <2>3. QED
    BY <2>2
<1>8. block \notin Held(t)
  BY <1>1, <1>5, HeldPlace
<1>9. Cardinality(Held(t) \cup {block}) = Cardinality(Held(t)) + 1
  BY <1>8, HeldType, FS_AddElement
<1>10. Total(room, Held(t) \cup {block}) = Total(room, Held(t)) + n + Header
  <2>1. Total(room, Held(t) \cup {block}) = Total(room, Held(t)) + room[block]
    BY <1>2, <1>8, HeldType, TotalFacts
  <2>2. Total(room, Held(t)) \in Nat
    BY HeldType, TotalFacts
  <2>3. QED
    BY <1>5, <2>1, <2>2
<1>11. ASSUME NEW v \in Trace
       PROVE  /\ objects'[v] = Cardinality(Held(v)')
              /\ usage'[v] = Total(room', Held(v)')
  <2>1. /\ objects'[v] = IF v = t THEN objects[v] + 1 ELSE objects[v]
        /\ usage'[v] = IF v = t THEN usage[v] + n + Header ELSE usage[v]
    BY <1>4 DEF Inv, TypeOK
  <2>2. objects[v] = Cardinality(Held(v)) /\ usage[v] = Total(room, Held(v)) /\ room' = room
    BY <1>1 DEF TraceInv
  <2>3. CASE v = t
    BY <1>7, <1>9, <1>10, <2>1, <2>2, <2>3
  <2>4. CASE v # t
    BY <1>7, <2>1, <2>2, <2>4
  <2>5. QED
    BY <2>3, <2>4
<1>12. QED
  BY <1>11 DEF TraceInv

\* _free_set_nullptr counts one block less, and the size its first word says.
LEMMA LeaveTraces ==
    ASSUME NEW where, NEW whose, NEW depth, NEW stack, Inv(where, whose, depth, stack),
           NEW th \in Thread, Leave(th), TraceInv
    PROVE  TraceInv'
<1> USE Sizes
<1>1. /\ call[th] \in Call /\ call[th].at = "leave" /\ call[th].old # NoBlock
      /\ UNCHANGED <<room, buffer, loose>>
  BY DEF Inv, TypeOK, CallInv, Leave, memory
<1>2. PICK block \in Block, t \in Trace : block = call[th].old /\ t = call[th].trace
  BY <1>1 DEF Call, MaybeBlock
<1>3. where[block] = "old" /\ whose[block] = th /\ word[block] = room[block] /\ room[block] \in Nat
  BY <1>2 DEF Inv, Placed, OldAt, BlockInv
<1>4. /\ call' = [call EXCEPT ![th] = [call[th] EXCEPT !.at = "give"]]
      /\ usage' = [usage EXCEPT ![t] = @ - room[block]]
      /\ objects' = [objects EXCEPT ![t] = @ - 1]
  BY <1>2, <1>3 DEF Leave, Goes
<1>5. /\ \A u \in Thread : u # th => call'[u] = call[u]
      /\ call'[th] = [call[th] EXCEPT !.at = "give"]
  BY <1>4 DEF Inv, TypeOK
<1>6. ASSUME NEW v \in Trace
      PROVE  Held(v)' = IF v = t THEN Held(v) \ {block} ELSE Held(v)
  <2>1. ASSUME NEW x, x # NoBlock, x # block
        PROVE  HeldBy(v, x)' <=> HeldBy(v, x)
    <3>1. InBufferOf(v, x)' <=> InBufferOf(v, x)
      BY <1>1 DEF InBufferOf, Exists
    <3>2. GotFor(v, x)' <=> GotFor(v, x)
      BY <1>1, <1>5 DEF GotFor, Call
    <3>3. OldFor(v, x)' <=> OldFor(v, x)
      BY <1>1, <1>2, <1>5, <2>1 DEF OldFor, Call
    <3>4. QED
      BY <1>1, <3>1, <3>2, <3>3 DEF HeldBy
  <2>2. block \in Held(v) => v = t
    BY <1>2, <1>3, HeldPlace
  <2>3. block \notin Held(v)'
    <3>1. ~InBufferOf(v, block)'
      <4>1. ~InBufferOf(v, block)
        BY <1>2, <1>3, Owners, Sizes DEF InBufferOf, Data
      <4>2. QED
        BY <1>1, <4>1 DEF InBufferOf, Exists
    <3>2. block \notin loose'
      BY <1>1, <1>3 DEF Inv, Placed, LooseAt
    <3>3. ~GotFor(v, block)'
      BY <1>1, <1>3, <1>5 DEF GotFor, Inv, Placed, GotAt, Call
    <3>4. ~OldFor(v, block)'
      BY <1>1, <1>3, <1>5 DEF OldFor, Inv, Placed, OldAt, Call
    <3>5. QED
      BY <3>1, <3>2, <3>3, <3>4, HeldIs DEF HeldBy
  <2>4. \A x : x \in Held(v)' <=> x \in Held(v) /\ (v = t => x # block)
    BY <2>1, <2>2, <2>3, HeldIs
  <2>5. QED
    BY <2>4
<1>7. block \in Held(t)
  <2>1. OldFor(t, block)
    BY <1>1, <1>2 DEF OldFor
  <2>2. QED
    BY <2>1, HeldIs DEF HeldBy
<1>8. Cardinality(Held(t) \ {block}) = Cardinality(Held(t)) - 1
  BY <1>7, HeldType, FS_RemoveElement
<1>9. Total(room, Held(t) \ {block}) = Total(room, Held(t)) - room[block]
  <2>1. \A x \in Held(t) : room[x] \in Nat
    BY HeldType
  <2>2. QED
    BY <1>7, <2>1, HeldType, TotalRemove
<1>10. ASSUME NEW v \in Trace
       PROVE  /\ objects'[v] = Cardinality(Held(v)')
              /\ usage'[v] = Total(room', Held(v)')
  <2>1. /\ objects'[v] = IF v = t THEN objects[v] - 1 ELSE objects[v]
        /\ usage'[v] = IF v = t THEN usage[v] - room[block] ELSE usage[v]
    BY <1>4 DEF Inv, TypeOK
  <2>2. objects[v] = Cardinality(Held(v)) /\ usage[v] = Total(room, Held(v)) /\ room' = room
    BY <1>1 DEF TraceInv
  <2>3. CASE v = t
    BY <1>6, <1>8, <1>9, <2>1, <2>2, <2>3
  <2>4. CASE v # t
    BY <1>6, <2>1, <2>2, <2>4
  <2>5. QED
    BY <2>3, <2>4
<1>11. QED
  BY <1>10 DEF TraceInv

\* An operation that begins, or is over at once: the blocks stay with their traces.
LEMMA OperationTraces ==
    ASSUME NEW where, NEW whose, NEW depth, NEW stack, Inv(where, whose, depth, stack),
           TraceInv, NEW th \in Thread, NEW c \in Call, c.got = NoBlock, c.at # "give",
           call[th] = Idle, call' = [call EXCEPT ![th] = c], UNCHANGED <<memory, trace>>,
           \A t \in Trace : \A x : x # NoBlock =>
              (InBufferOf(t, x) \/ (t = PoolTrace /\ x \in loose)
               <=> InBufferOf(t, x)' \/ (t = PoolTrace /\ x \in loose') \/ (c.trace = t /\ c.old = x))
    PROVE  TraceInv'
<1>1. /\ \A u \in Thread : u # th => call'[u] = call[u]
      /\ call'[th] = c
  BY DEF Inv, TypeOK
<1>2. ASSUME NEW t \in Trace, NEW x, x # NoBlock
      PROVE  HeldBy(t, x)' <=> HeldBy(t, x)
  <2>1. GotFor(t, x)' <=> GotFor(t, x)
    BY <1>1, <1>2, IdleFacts DEF GotFor
  <2>2. OldFor(t, x)' <=> OldFor(t, x) \/ (c.trace = t /\ c.old = x)
    BY <1>1, <1>2, IdleFacts DEF OldFor
  <2>3. QED
    BY <1>2, <2>1, <2>2 DEF HeldBy
<1>3. QED
  BY <1>2, SameTraces DEF memory

\* An operation that is over at once leaves every block to its trace.
LEMMA AtOnceTraces ==
    ASSUME NEW where, NEW whose, NEW depth, NEW stack, Inv(where, whose, depth, stack),
           TraceInv, NEW th \in Thread, AtOnce(th),
           \A t \in Trace : \A x : x # NoBlock => (InBufferOf(t, x) <=> InBufferOf(t, x)')
    PROVE  TraceInv'
<1>1. PICK c \in Call : c = Idle
  BY IdleFacts
<1>2. c.got = NoBlock /\ c.at # "give" /\ c.old = NoBlock
  BY <1>1, IdleFacts
<1>3. call[th] = Idle /\ UNCHANGED <<memory, trace, loose, call>>
  BY DEF AtOnce
<1>4. call' = [call EXCEPT ![th] = c]
  BY <1>1, <1>3 DEF Inv, TypeOK
<1>5. QED
  BY <1>2, <1>3, <1>4, OperationTraces

\* The block is counted for the trace of the buffer that has it now.
LEMMA FinishTraces ==
    ASSUME NEW where, NEW whose, NEW depth, NEW stack, Inv(where, whose, depth, stack),
           NEW th \in Thread, Finish(th), TraceInv
    PROVE  TraceInv'
<1> USE Sizes
<1>1. /\ call[th] \in Call /\ call[th].at = "finish" /\ call[th].trace \in Trace
      /\ call[th].old = NoBlock /\ call' = [call EXCEPT ![th] = Idle]
      /\ UNCHANGED <<memory, trace, loose>>
  BY DEF Inv, TypeOK, CallInv, Finish, Call
<1>2. PICK d \in Call : d = Idle
  BY IdleFacts
<1>3. \A t \in Trace : \A x : x # NoBlock => (HeldBy(t, x)' <=> HeldBy(t, x))
  <2>1. CASE call[th].want = 0
    <3>1. UNCHANGED buffer /\ call[th].got = NoBlock
      BY <2>1 DEF Finish, Inv, CallInv
    <3>2. QED
      BY <1>1, <1>2, <3>1, IdleFacts, SameHeld
  <2>2. CASE call[th].want # 0
    <3> SUFFICES ASSUME NEW t \in Trace, NEW x, x # NoBlock
                 PROVE  HeldBy(t, x)' <=> HeldBy(t, x)
      OBVIOUS
    <3>1. call[th].want \in Nat
      BY <1>1 DEF Call
    <3>2. call[th].want > 0
      BY <2>2, <3>1
    <3>3. PICK b \in Buffer : b = call[th].buffer /\ Data(b) = NoBlock
      BY <3>2 DEF Inv, CallInv
    <3> DEFINE filled == [trace |-> call[th].trace, data |-> call[th].got,
                          length |-> call[th].want, max |-> call[th].want]
    <3>4. /\ \A y \in Buffer : y # b => buffer'[y] = buffer[y]
          /\ buffer'[b] = filled
      BY <2>2, <3>3 DEF Finish, Inv, TypeOK
    <3>5. filled \in Cbuffer /\ filled.trace = call[th].trace /\ filled.data = call[th].got
      BY <1>1 DEF Cbuffer, Call
    <3>6. filled # NoBuffer
      BY <3>5
    <3> HIDE DEF filled
    <3>7. InBufferOf(t, x)' <=> InBufferOf(t, x) \/ (call[th].trace = t /\ call[th].got = x)
      BY <3>3, <3>4, <3>5, <3>6 DEF InBufferOf, Exists, Data
    <3>8. /\ \A u \in Thread : u # th => call'[u] = call[u]
          /\ call'[th] = Idle
      BY <1>1 DEF Inv, TypeOK
    <3>9. GotFor(t, x) <=> GotFor(t, x)' \/ (call[th].trace = t /\ call[th].got = x)
      BY <1>1, <3>8, IdleFacts DEF GotFor
    <3>10. OldFor(t, x)' <=> OldFor(t, x)
      BY <1>1, <3>8, IdleFacts DEF OldFor
    <3>11. QED
      BY <1>1, <3>7, <3>9, <3>10 DEF HeldBy
  <2>3. QED
    BY <2>1, <2>2
<1>4. QED
  BY <1>1, <1>3, SameTraces DEF memory

\* A new buffer has no block yet.
LEMMA ConstructTraces ==
    ASSUME NEW where, NEW whose, NEW depth, NEW stack, Inv(where, whose, depth, stack),
           TraceInv, NEW th \in Thread, NEW b \in Buffer, NEW t \in Trace, NEW n \in Length,
           NEW from \in Buffer \cup {NoBuffer}, Construct(th, b, t, n, from)
    PROVE  TraceInv'
<1> USE Sizes
<1>1. ~Exists(b)
  BY DEF Construct
<1>2. CASE n = 0
  <2>1. AtOnce(th) /\ buffer' = [buffer EXCEPT ![b] = EmptyBuffer(t)]
    BY <1>2 DEF Construct
  <2>2. /\ \A c \in Buffer : c # b => buffer'[c] = buffer[c]
        /\ buffer'[b] = EmptyBuffer(t)
    BY <2>1 DEF Inv, TypeOK
  <2>3. \A v \in Trace : \A x : x # NoBlock => (InBufferOf(v, x) <=> InBufferOf(v, x)')
    BY <1>1, <2>2, EmptyFacts DEF InBufferOf, Exists
  <2>4. QED
    BY <2>1, <2>3, AtOnceTraces
<1>3. CASE n # 0
  <2>1. PICK c \in Call : c = [Idle EXCEPT !.at = "take", !.buffer = b,
                                           !.from = from, !.trace = t, !.want = n]
    BY IdleFacts DEF Call
  <2>2. c.at = "take" /\ c.got = NoBlock /\ c.old = NoBlock
    BY <2>1, IdleFacts DEF Call, Idle
  <2>3. Begin(th, c) /\ UNCHANGED <<buffer, loose>>
    BY <1>3, <2>1 DEF Construct
  <2>4. \A v \in Trace : \A x : x # NoBlock => (InBufferOf(v, x) <=> InBufferOf(v, x)')
    BY <2>3 DEF InBufferOf, Exists
  <2>5. QED
    BY <2>2, <2>3, <2>4, OperationTraces DEF Begin
<1>4. QED
  BY <1>2, <1>3

\* The thread that destroys a buffer has its block, for the same trace.
LEMMA DestroyTraces ==
    ASSUME NEW where, NEW whose, NEW depth, NEW stack, Inv(where, whose, depth, stack),
           TraceInv, NEW th \in Thread, NEW b \in Buffer, Destroy(th, b)
    PROVE  TraceInv'
<1> USE Sizes
<1>1. /\ Exists(b) /\ buffer[b] \in Cbuffer /\ buffer' = [buffer EXCEPT ![b] = NoBuffer]
  BY UsableFacts DEF Destroy, Usable
<1>2. /\ \A c \in Buffer : c # b => buffer'[c] = buffer[c]
      /\ buffer'[b] = NoBuffer
  BY <1>1 DEF Inv, TypeOK
<1>3. ASSUME NEW v, NEW x
      PROVE  InBufferOf(v, x) <=> InBufferOf(v, x)' \/ (buffer[b].trace = v /\ buffer[b].data = x)
  BY <1>1, <1>2 DEF InBufferOf, Exists
<1>4. CASE buffer[b].data = NoBlock
  BY <1>3, <1>4, AtOnceTraces DEF Destroy
<1>5. CASE buffer[b].data # NoBlock
  <2>1. PICK c \in Call :
           c = [Idle EXCEPT !.at = "leave", !.buffer = b,
                            !.trace = buffer[b].trace, !.old = buffer[b].data]
    BY <1>1, IdleFacts DEF Call, Cbuffer
  <2>2. /\ c.at = "leave" /\ c.got = NoBlock /\ c.old = buffer[b].data
        /\ c.trace = buffer[b].trace
    BY <1>1, <2>1, IdleFacts DEF Call, Idle
  <2>3. Begin(th, c) /\ UNCHANGED loose
    BY <1>5, <2>1 DEF Destroy
  <2>4. \A t \in Trace : \A x : x # NoBlock =>
          (InBufferOf(t, x) \/ (t = PoolTrace /\ x \in loose)
           <=> InBufferOf(t, x)' \/ (t = PoolTrace /\ x \in loose') \/ (c.trace = t /\ c.old = x))
    BY <1>3, <2>2, <2>3
  <2>5. QED
    BY <2>2, <2>3, <2>4, OperationTraces DEF Begin
<1>6. QED
  BY <1>4, <1>5

\* A new length changes neither the block nor the trace.
LEMMA LengthTraces ==
    ASSUME NEW where, NEW whose, NEW depth, NEW stack, Inv(where, whose, depth, stack),
           TraceInv, NEW th \in Thread, NEW b \in Buffer, NEW n \in Length, Usable(b),
           AtOnce(th), buffer' = [buffer EXCEPT ![b].length = n]
    PROVE  TraceInv'
<1>1. Exists(b) /\ buffer[b] \in Cbuffer /\ buffer[b] # NoBuffer
  BY UsableFacts DEF Usable, Exists
<1>2. PICK filled \in Cbuffer : filled = [buffer[b] EXCEPT !.length = n]
  BY <1>1 DEF Cbuffer
<1>3. filled.data = buffer[b].data /\ filled.trace = buffer[b].trace /\ filled # NoBuffer
  BY <1>1, <1>2, Sizes DEF Cbuffer
<1>4. /\ \A c \in Buffer : c # b => buffer'[c] = buffer[c]
      /\ buffer'[b] = filled
  BY <1>2 DEF Inv, TypeOK
<1>5. \A v \in Trace : \A x : x # NoBlock => (InBufferOf(v, x) <=> InBufferOf(v, x)')
  BY <1>1, <1>3, <1>4 DEF InBufferOf, Exists
<1>6. QED
  BY <1>5, AtOnceTraces

\* The thread that replaces the block of a buffer has the old one, for the same trace.
LEMMA ReplaceTraces ==
    ASSUME NEW where, NEW whose, NEW depth, NEW stack, Inv(where, whose, depth, stack),
           TraceInv, NEW th \in Thread, NEW b \in Buffer, NEW n \in Length,
           NEW from \in Buffer \cup {NoBuffer}, NEW keep \in BOOLEAN, Usable(b),
           Replace(th, b, n, from, keep)
    PROVE  TraceInv'
<1> USE Sizes
<1>1. Exists(b) /\ buffer[b] \in Cbuffer /\ buffer[b] # NoBuffer
  BY UsableFacts DEF Usable, Exists
<1>2. PICK at \in {"take", "leave"} :
         at = IF keep THEN "take" ELSE FreeThenObtain(buffer[b].data)
  BY DEF FreeThenObtain
<1>3. PICK c \in Call :
         c = [Idle EXCEPT !.at = at, !.buffer = b, !.from = from, !.trace = buffer[b].trace,
                          !.old = buffer[b].data, !.want = n]
  BY <1>1, IdleFacts DEF Call, Cbuffer
<1>4. c.at # "give" /\ c.got = NoBlock /\ c.old = buffer[b].data /\ c.trace = buffer[b].trace
  BY <1>1, <1>3, IdleFacts DEF Call, Idle
<1>5. Begin(th, c) /\ UNCHANGED loose /\ buffer' = [buffer EXCEPT ![b].data = NoBlock]
  BY <1>2, <1>3 DEF Replace
<1>6. PICK bare \in Cbuffer : bare = [buffer[b] EXCEPT !.data = NoBlock]
  BY <1>1 DEF Cbuffer, MaybeBlock
<1>7. bare.data = NoBlock /\ bare # NoBuffer
  BY <1>1, <1>6 DEF Cbuffer
<1>8. /\ \A x \in Buffer : x # b => buffer'[x] = buffer[x]
      /\ buffer'[b] = bare
  BY <1>5, <1>6 DEF Inv, TypeOK
<1>9. ASSUME NEW v, NEW x, x # NoBlock
      PROVE  InBufferOf(v, x) <=> InBufferOf(v, x)' \/ (buffer[b].trace = v /\ buffer[b].data = x)
  BY <1>1, <1>7, <1>8, <1>9 DEF InBufferOf, Exists
<1>10. \A t \in Trace : \A x : x # NoBlock =>
          (InBufferOf(t, x) \/ (t = PoolTrace /\ x \in loose)
           <=> InBufferOf(t, x)' \/ (t = PoolTrace /\ x \in loose') \/ (c.trace = t /\ c.old = x))
  BY <1>4, <1>5, <1>9
<1>11. QED
  BY <1>4, <1>5, <1>10, OperationTraces DEF Begin

\* set and operator= keep what is counted.
LEMMA PutTraces ==
    ASSUME NEW where, NEW whose, NEW depth, NEW stack, Inv(where, whose, depth, stack),
           TraceInv, NEW th \in Thread, NEW b \in Buffer, NEW n \in Length,
           NEW from \in Buffer \cup {NoBuffer}, Usable(b), Put(th, b, n, from)
    PROVE  TraceInv'
<1>1. CASE n <= buffer[b].max
  BY <1>1, LengthTraces DEF Put
<1>2. CASE ~(n <= buffer[b].max)
  BY <1>2, ReplaceTraces DEF Put
<1>3. QED
  BY <1>1, <1>2

\* resize keeps what is counted.
LEMMA ResizeTraces ==
    ASSUME NEW where, NEW whose, NEW depth, NEW stack, Inv(where, whose, depth, stack),
           TraceInv, NEW th \in Thread, NEW b \in Buffer, Resize(th, b)
    PROVE  TraceInv'
<1>1. PICK n \in Length, valid \in BOOLEAN :
         IF n <= buffer[b].max
         THEN AtOnce(th) /\ buffer' = [buffer EXCEPT ![b].length = n]
         ELSE Replace(th, b, n, NoBuffer, valid /\ buffer[b].length > 0)
  BY DEF Resize
<1>2. Usable(b)
  BY DEF Resize
<1>3. CASE n <= buffer[b].max
  BY <1>1, <1>2, <1>3, LengthTraces
<1>4. CASE ~(n <= buffer[b].max)
  <2>1. PICK keep \in BOOLEAN : keep = (valid /\ buffer[b].length > 0)
    OBVIOUS
  <2>2. Replace(th, b, n, NoBuffer, keep)
    BY <1>1, <1>4, <2>1
  <2>3. QED
    BY <1>2, <2>2, ReplaceTraces
<1>5. QED
  BY <1>3, <1>4

\* A block that is moved takes its trace with it.
LEMMA MoveConstructTraces ==
    ASSUME NEW where, NEW whose, NEW depth, NEW stack, Inv(where, whose, depth, stack),
           TraceInv, NEW th \in Thread, NEW b \in Buffer, NEW q \in Buffer,
           MoveConstruct(th, b, q)
    PROVE  TraceInv'
<1>1. /\ ~Exists(b) /\ Exists(q) /\ AtOnce(th) /\ b # q
      /\ buffer[q].trace \in Trace /\ buffer[q] # NoBuffer
  BY UsableFacts DEF MoveConstruct, Usable, Exists, Cbuffer
<1>2. /\ \A c \in Buffer : c # b /\ c # q => buffer'[c] = buffer[c]
      /\ buffer'[b] = buffer[q] /\ buffer'[q] = EmptyBuffer(buffer[q].trace)
  BY <1>1 DEF MoveConstruct, Inv, TypeOK
<1>3. \A v \in Trace : \A x : x # NoBlock => (InBufferOf(v, x) <=> InBufferOf(v, x)')
  BY <1>1, <1>2, EmptyFacts DEF InBufferOf, Exists
<1>4. QED
  BY <1>1, <1>3, AtOnceTraces

\* operator=(std::move(another)) returns the old block to the old trace.
LEMMA MoveAssignTraces ==
    ASSUME NEW where, NEW whose, NEW depth, NEW stack, Inv(where, whose, depth, stack),
           TraceInv, NEW th \in Thread, NEW b \in Buffer, NEW q \in Buffer,
           MoveAssign(th, b, q)
    PROVE  TraceInv'
<1> USE Sizes
<1>1. /\ Exists(b) /\ buffer[b] \in Cbuffer /\ Exists(q) /\ buffer[q] \in Cbuffer
      /\ buffer[q].trace \in Trace /\ buffer[q] # NoBuffer
  BY UsableFacts DEF MoveAssign, Usable, Exists, Cbuffer
<1>2. /\ \A c \in Buffer : c # b /\ c # q => buffer'[c] = buffer[c]
      /\ b # q => buffer'[b] = buffer[q]
      /\ buffer'[q] = EmptyBuffer(buffer[q].trace)
  BY <1>1 DEF MoveAssign, Inv, TypeOK
<1>3. ASSUME NEW v, NEW x, x # NoBlock
      PROVE  InBufferOf(v, x) <=> InBufferOf(v, x)' \/ (buffer[b].trace = v /\ buffer[b].data = x)
  <2>1. InBufferOf(v, x) <=> \/ buffer[b].trace = v /\ buffer[b].data = x
                             \/ buffer[q].trace = v /\ buffer[q].data = x
                             \/ \E c \in Buffer : c # b /\ c # q /\ Exists(c)
                                                    /\ buffer[c].trace = v /\ buffer[c].data = x
    BY <1>1 DEF InBufferOf
  <2>2. InBufferOf(v, x)' <=> \/ b # q /\ buffer[q].trace = v /\ buffer[q].data = x
                              \/ \E c \in Buffer : c # b /\ c # q /\ Exists(c)
                                                     /\ buffer[c].trace = v /\ buffer[c].data = x
    <3>1. EmptyBuffer(buffer[q].trace).data = NoBlock
      BY <1>1, EmptyFacts
    <3>2. CASE b = q
      BY <1>2, <1>3, <3>1, <3>2 DEF InBufferOf, Exists
    <3>3. CASE b # q
      BY <1>1, <1>2, <1>3, <3>1, <3>3 DEF InBufferOf, Exists
    <3>4. QED
      BY <3>2, <3>3
  <2>3. QED
    BY <2>1, <2>2
<1>4. CASE buffer[b].data = NoBlock
  BY <1>3, <1>4, AtOnceTraces DEF MoveAssign
<1>5. CASE buffer[b].data # NoBlock
  <2>1. PICK c \in Call :
           c = [Idle EXCEPT !.at = "leave", !.buffer = b,
                            !.trace = buffer[b].trace, !.old = buffer[b].data]
    BY <1>1, IdleFacts DEF Call, Cbuffer
  <2>2. /\ c.at = "leave" /\ c.got = NoBlock /\ c.old = buffer[b].data
        /\ c.trace = buffer[b].trace
    BY <1>1, <2>1, IdleFacts DEF Call, Idle
  <2>3. Begin(th, c) /\ UNCHANGED loose
    BY <1>5, <2>1 DEF MoveAssign
  <2>4. \A t \in Trace : \A x : x # NoBlock =>
          (InBufferOf(t, x) \/ (t = PoolTrace /\ x \in loose)
           <=> InBufferOf(t, x)' \/ (t = PoolTrace /\ x \in loose') \/ (c.trace = t /\ c.old = x))
    BY <1>3, <2>2, <2>3
  <2>5. QED
    BY <2>2, <2>3, <2>4, OperationTraces DEF Begin
<1>6. QED
  BY <1>4, <1>5

\* What libuv has is counted for the pool.
LEMMA TransferTraces ==
    ASSUME NEW where, NEW whose, NEW depth, NEW stack, Inv(where, whose, depth, stack),
           TraceInv, NEW th \in Thread, NEW b \in Buffer, Transfer(th, b)
    PROVE  TraceInv'
<1> USE Sizes
<1>1. Exists(b) /\ buffer[b].trace = PoolTrace /\ call[th] = Idle
  BY DEF Transfer, Usable
<1>2. /\ \A c \in Buffer : c # b => buffer'[c] = buffer[c]
      /\ buffer'[b] = EmptyBuffer(PoolTrace)
  BY DEF Transfer, Inv, TypeOK
<1>3. /\ loose' = loose \cup {buffer[b].data}
      /\ UNCHANGED <<memory, trace, call>>
  BY DEF Transfer
<1>4. PICK c \in Call : c = Idle
  BY IdleFacts
<1>5. c.got = NoBlock /\ c.at # "give" /\ c.old = NoBlock
  BY <1>4, IdleFacts
<1>6. call' = [call EXCEPT ![th] = c]
  BY <1>1, <1>3, <1>4 DEF Inv, TypeOK
<1>7. ASSUME NEW v, NEW x, x # NoBlock
      PROVE  InBufferOf(v, x) <=> InBufferOf(v, x)' \/ (v = PoolTrace /\ buffer[b].data = x)
  BY <1>1, <1>2, <1>7, EmptyFacts DEF InBufferOf, Exists
<1>8. \A t \in Trace : \A x : x # NoBlock =>
         (InBufferOf(t, x) \/ (t = PoolTrace /\ x \in loose)
          <=> InBufferOf(t, x)' \/ (t = PoolTrace /\ x \in loose') \/ (c.trace = t /\ c.old = x))
  BY <1>3, <1>5, <1>7
<1>9. QED
  BY <1>1, <1>3, <1>5, <1>6, <1>8, OperationTraces

\* And so is what the pool returns for it.
LEMMA FreeLooseTraces ==
    ASSUME NEW where, NEW whose, NEW depth, NEW stack, Inv(where, whose, depth, stack),
           TraceInv, NEW th \in Thread, FreeLoose(th)
    PROVE  TraceInv'
<1>1. PICK block \in loose : /\ Begin(th, [Idle EXCEPT !.at = "leave", !.old = block])
                             /\ loose' = loose \ {block}
  BY DEF FreeLoose
<1>2. block \in Block /\ UNCHANGED buffer
  BY DEF Inv, TypeOK, FreeLoose
<1>3. PICK c \in Call : c = [Idle EXCEPT !.at = "leave", !.old = block]
  BY <1>2, IdleFacts DEF Call, MaybeBlock
<1>4. c.at = "leave" /\ c.got = NoBlock /\ c.old = block /\ c.trace = PoolTrace
  BY <1>3, IdleFacts DEF Call, Idle
<1>5. Begin(th, c)
  BY <1>1, <1>3
<1>6. \A t \in Trace : \A x : x # NoBlock =>
         (InBufferOf(t, x) \/ (t = PoolTrace /\ x \in loose)
          <=> InBufferOf(t, x)' \/ (t = PoolTrace /\ x \in loose') \/ (c.trace = t /\ c.old = x))
  BY <1>1, <1>2, <1>4 DEF InBufferOf, Exists
<1>7. QED
  BY <1>4, <1>5, <1>6, OperationTraces DEF Begin

\* At first nothing is counted.
LEMMA InitTraces == Init => TraceInv
<1> SUFFICES ASSUME Init, NEW t \in Trace
             PROVE  objects[t] = Cardinality(Held(t)) /\ usage[t] = Total(room, Held(t))
  BY DEF TraceInv
<1>1. Held(t) = {}
  BY IdleFacts DEF Init, Held, Counted, Exists
<1>2. Total(room, {}) = 0
  BY FS_EmptySet, TotalFacts
<1>3. QED
  BY <1>1, <1>2, FS_EmptySet DEF Init

\* Every step keeps the counts.
LEMMA NextTraces == IInv /\ TraceInv /\ [Next]_vars => TraceInv'
<1> SUFFICES ASSUME IInv, TraceInv, [Next]_vars PROVE TraceInv'
  OBVIOUS
<1> PICK where, whose, depth, stack : Inv(where, whose, depth, stack)
  BY DEF IInv, Inv
<1>1. CASE UNCHANGED vars
  <2>1. \A t \in Trace : \A x : x # NoBlock => (HeldBy(t, x)' <=> HeldBy(t, x))
    BY <1>1 DEF HeldBy, InBufferOf, GotFor, OldFor, Exists, vars
  <2>2. UNCHANGED trace /\ room' = room
    BY <1>1 DEF vars, memory
  <2>3. QED
    BY <2>1, <2>2, SameTraces
<1>2. ASSUME NEW th \in Thread, Continue(th) PROVE TraceInv'
  BY <1>2, TakeTraces, MallocTraces, GiveTraces, EnterTraces, LeaveTraces, FinishTraces
  DEF Continue
<1>3. ASSUME NEW th \in Thread, NEW b \in Buffer,
             New(th, b) \/ Destroy(th, b) \/ SetData(th, b) \/ Resize(th, b) \/ Transfer(th, b)
      PROVE  TraceInv'
  <2>1. CASE New(th, b)
    BY <2>1, ConstructTraces DEF New
  <2>2. CASE SetData(th, b)
    BY <2>2, PutTraces DEF SetData
  <2>3. QED
    BY <1>3, <2>1, <2>2, DestroyTraces, ResizeTraces, TransferTraces
<1>4. ASSUME NEW th \in Thread, NEW b \in Buffer, NEW q \in Buffer,
             \/ CopyConstruct(th, b, q) \/ MoveConstruct(th, b, q)
             \/ CopyAssign(th, b, q) \/ MoveAssign(th, b, q)
      PROVE  TraceInv'
  <2>1. CASE CopyConstruct(th, b, q)
    <3>1. PICK t \in Trace, n \in Length : t = buffer[q].trace /\ n = buffer[q].length
      BY <2>1, UsableFacts DEF CopyConstruct, Usable, Cbuffer
    <3>2. QED
      BY <2>1, <3>1, ConstructTraces DEF CopyConstruct
  <2>2. CASE CopyAssign(th, b, q)
    <3>1. PICK n \in Length : n = buffer[q].length
      BY <2>2, UsableFacts DEF CopyAssign, Usable, Cbuffer
    <3>2. QED
      BY <2>2, <3>1, PutTraces DEF CopyAssign
  <2>3. QED
    BY <1>4, <2>1, <2>2, MoveConstructTraces, MoveAssignTraces
<1>5. ASSUME NEW th \in Thread, FreeLoose(th) PROVE TraceInv'
  BY <1>5, FreeLooseTraces
<1>6. QED
  BY <1>1, <1>2, <1>3, <1>4, <1>5 DEF Next, Operation

\* The counts are what getObjectCount and getMemoryUsage promise.
LEMMA InvTraces == IInv /\ TraceInv => TracesAreExact
<1> SUFFICES ASSUME IInv, TraceInv PROVE TracesAreExact
  OBVIOUS
<1> PICK where, whose, depth, stack : Inv(where, whose, depth, stack)
  BY DEF IInv, Inv
<1>1. ASSUME NEW t \in Trace
      PROVE  /\ objects[t] = Cardinality(Counted(t) \ {NoBlock})
             /\ usage[t] = MapThenSumSet(LAMBDA block : room[block], Counted(t) \ {NoBlock})
  BY DEF TraceInv, Held, Total
<1>2. ASSUME NEW b \in Buffer, Exists(b), ~Busy(b)
      PROVE  IF buffer[b].data = NoBlock THEN buffer[b].max = 0
             ELSE buffer[b].max + Header = room[buffer[b].data]
                     /\ buffer[b].length <= buffer[b].max
  BY <1>2, UsableFacts DEF Inv, BufferInv
<1>3. QED
  BY <1>1, <1>2 DEF TracesAreExact

\* The counts of every trace are those of the blocks it has.
THEOREM TracesExact == Spec => []TracesAreExact
<1>1. IInv /\ TraceInv /\ [Next]_vars => TraceInv'
  BY NextTraces
<1>2. QED
  BY <1>1, InitTraces, IInvariant, InvTraces, PTL DEF Spec

==================================================
