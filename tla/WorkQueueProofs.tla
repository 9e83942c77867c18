--------------------------- MODULE WorkQueueProofs ---------------------------
(***************************************************************************)
(* Proofs about WorkQueue, for every finite set of workers and every set   *)
(* of tasks: no worker sleeps while a task waits, none sleeps on at exit,  *)
(* the destructor leaves nothing behind, and a task has one owner.         *)
(***************************************************************************)
EXTENDS WorkQueue, SequenceLemmas, FiniteSetTheorems, TLAPS

\* m_exit is set by the destructor or a failing constructor only, nothing is
\* pushed before the constructor returns, and nobody is left once joined.
OwnerInv ==
    /\ owner \in {"constructing", "using"} => ~exit
    /\ owner \in {"constructing", "unwinding", "thrown"} => pushed = {}
    /\ owner \in {"deleting", "destroyed", "thrown"} =>
          \A w \in Worker : at[w] \in {"unborn", "left"}
    /\ owner = "destroyed" => tasks = <<>>

\* A worker holds a task between getNext and deleter(task), and not otherwise;
\* a task pushed is in the deque, in the hands of a worker or deleted.
PlaceInv ==
    /\ \A w \in Worker : held[w] # NoTask <=> at[w] \in {"run", "delete"}
    /\ pushed = ToSet(tasks) \cup ToSet(freed) \cup {t \in Task : \E w \in Worker : held[w] = t}

IInv == TypeOK /\ OwnerInv /\ PlaceInv /\ NoIdleSleeper /\ NoSleeperAtExit

-----------------------------------------------------------------------------
(* Sets of workers.                                                        *)

\* The workers on their way to the deque can be counted, and counted on.
LEMMA AwakeCount ==
    /\ IsFiniteSet(Awake) /\ Cardinality(Awake) \in Nat
    /\ \A w \in Worker \ Awake : Cardinality(Awake \cup {w}) = Cardinality(Awake) + 1
    /\ \A w \in Awake : Cardinality(Awake \ {w}) = Cardinality(Awake) - 1
<1>1. IsFiniteSet(Awake)
  BY WorkersAssumption, FS_Subset DEF Awake
<1>2. Cardinality(Awake) \in Nat
  BY <1>1, FS_CardinalityType
<1>3. \A w \in Worker \ Awake : Cardinality(Awake \cup {w}) = Cardinality(Awake) + 1
  BY <1>1, FS_AddElement
<1>4. \A w \in Awake : Cardinality(Awake \ {w}) = Cardinality(Awake) - 1
  BY <1>1, FS_RemoveElement
<1>5. QED
  BY <1>1, <1>2, <1>3, <1>4

-----------------------------------------------------------------------------
(* The inductive invariant.                                                *)

LEMMA InitIInv == Init => IInv
<1> SUFFICES ASSUME Init PROVE IInv
  OBVIOUS
<1>1. TypeOK
  <2>1. tasks \in Seq(Task) /\ ran \in Seq(Task) /\ freed \in Seq(Task)
    BY DEF Init
  <2>2. at \in [Worker -> {"unborn", "getNext", "asleep", "run", "delete", "left"}]
    BY DEF Init
  <2>3. QED
    BY <2>1, <2>2 DEF Init, TypeOK
<1>2. OwnerInv
  BY DEF Init, OwnerInv
<1>3. PlaceInv
  <2>1. {t \in Task : \E w \in Worker : held[w] = t} = {}
    BY WorkersAssumption DEF Init
  <2>2. QED
    BY <2>1, ToSetEmpty DEF Init, PlaceInv
<1>4. NoIdleSleeper /\ NoSleeperAtExit
  BY DEF Init, NoIdleSleeper, NoSleeperAtExit, Asleep
<1>5. QED
  BY <1>1, <1>2, <1>3, <1>4 DEF IInv

\* What a worker is about to run or delete is a task.
LEMMA HeldIsTask ==
    ASSUME TypeOK, PlaceInv, NEW w \in Worker, at[w] \in {"run", "delete"}
    PROVE  held[w] \in Task
BY DEF TypeOK, PlaceInv

LEMMA NextTypeOK == IInv /\ [Next]_vars => TypeOK'
<1> SUFFICES ASSUME IInv, [Next]_vars PROVE TypeOK'
  OBVIOUS
<1>0. TypeOK /\ PlaceInv
  BY DEF IInv
<1> USE <1>0 DEF TypeOK
<1>1. ASSUME NEW w \in Worker, GetNext(w) PROVE TypeOK'
  <2>1. CASE tasks = <<>> \/ exit
    BY <1>1, <2>1 DEF GetNext
  <2>2. CASE tasks # <<>>
    <3>1. Head(tasks) \in Task /\ Tail(tasks) \in Seq(Task)
      BY <2>2
    <3>2. QED
      BY <1>1, <3>1 DEF GetNext
  <2>3. QED
    BY <2>1, <2>2
<1>2. ASSUME NEW w \in Worker, Spurious(w) PROVE TypeOK'
  BY <1>2 DEF Spurious
<1>3. ASSUME NEW w \in Worker, Run(w) PROVE TypeOK'
  <2>1. held[w] \in Task
    BY <1>3, HeldIsTask DEF Run
  <2>2. Append(ran, held[w]) \in Seq(Task)
    BY <2>1
  <2>3. QED
    BY <1>3, <2>2 DEF Run
<1>4. ASSUME NEW w \in Worker, Delete(w) PROVE TypeOK'
  <2>1. held[w] \in Task
    BY <1>4, HeldIsTask DEF Delete
  <2>2. Append(freed, held[w]) \in Seq(Task)
    BY <2>1
  <2>3. QED
    BY <1>4, <2>2 DEF Delete
<1>5. ASSUME NEW t \in Task, PushTask(t) PROVE TypeOK'
  <2>1. Append(tasks, t) \in Seq(Task)
    OBVIOUS
  <2>2. at' \in [Worker -> {"unborn", "getNext", "asleep", "run", "delete", "left"}]
    BY <1>5 DEF PushTask, Asleep
  <2>3. QED
    BY <1>5, <2>1, <2>2 DEF PushTask
<1>6. CASE Construct
  BY <1>6 DEF Construct, Born, SetExit
<1>7. CASE Destroy
  BY <1>7 DEF Destroy, SetExit
<1>8. CASE Join
  BY <1>8 DEF Join
<1>9. CASE DeleteRest
  <2>1. freed \o tasks \in Seq(Task) /\ <<>> \in Seq(Task)
    OBVIOUS
  <2>2. QED
    BY <1>9, <2>1 DEF DeleteRest
<1>10. CASE Over \/ UNCHANGED vars
  BY <1>10 DEF Over, vars
<1>11. QED
  BY <1>1, <1>2, <1>3, <1>4, <1>5, <1>6, <1>7, <1>8, <1>9, <1>10 DEF Next, WorkerStep

LEMMA NextOwnerInv == IInv /\ [Next]_vars => OwnerInv'
<1> SUFFICES ASSUME IInv, [Next]_vars PROVE OwnerInv'
  OBVIOUS
<1>0. TypeOK /\ OwnerInv
  BY DEF IInv
<1> USE <1>0 DEF TypeOK, OwnerInv
<1>1. ASSUME NEW w \in Worker, GetNext(w) \/ Spurious(w) \/ Run(w) \/ Delete(w)
      PROVE  OwnerInv'
  BY <1>1 DEF GetNext, Spurious, Run, Delete
<1>2. ASSUME NEW t \in Task, PushTask(t) PROVE OwnerInv'
  BY <1>2 DEF PushTask
<1>3. CASE Construct
  BY <1>3 DEF Construct, Born, SetExit
<1>4. CASE Destroy
  BY <1>4 DEF Destroy, SetExit
<1>5. CASE Join
  BY <1>5 DEF Join, Born
<1>6. CASE DeleteRest
  BY <1>6 DEF DeleteRest
<1>7. CASE Over \/ UNCHANGED vars
  BY <1>7 DEF Over, vars
<1>8. QED
  BY <1>1, <1>2, <1>3, <1>4, <1>5, <1>6, <1>7 DEF Next, WorkerStep

LEMMA NextPlaceInv == IInv /\ [Next]_vars => PlaceInv'
<1> SUFFICES ASSUME IInv, [Next]_vars PROVE PlaceInv'
  OBVIOUS
<1>0. TypeOK /\ PlaceInv
  BY DEF IInv
<1> DEFINE InHands(h) == {t \in Task : \E w \in Worker : h[w] = t}
<1> USE <1>0 DEF TypeOK, PlaceInv
<1>1. ASSUME NEW w \in Worker, GetNext(w) PROVE PlaceInv'
  <2>1. CASE tasks = <<>> \/ exit
    BY <1>1, <2>1 DEF GetNext
  <2>2. CASE tasks # <<>> /\ ~exit
    <3>1. ToSet(tasks) = ToSet(Tail(tasks)) \cup {Head(tasks)}
      BY <2>2, ToSetHeadTail
    <3>2. Head(tasks) \in Task
      BY <2>2
    <3>3. held[w] = NoTask
      BY <1>1 DEF GetNext
    <3>4. InHands(held') = InHands(held) \cup {Head(tasks)}
      BY <1>1, <2>2, <3>2, <3>3, WorkersAssumption DEF GetNext
    <3>5. tasks' = Tail(tasks) /\ UNCHANGED <<pushed, freed>>
      BY <1>1, <2>2 DEF GetNext
    <3>6. pushed' = ToSet(tasks') \cup ToSet(freed') \cup InHands(held')
      BY <3>1, <3>4, <3>5
    <3>7. \A x \in Worker : held'[x] # NoTask <=> at'[x] \in {"run", "delete"}
      BY <1>1, <2>2, <3>2, WorkersAssumption DEF GetNext
    <3>8. QED
      BY <3>6, <3>7
  <2>3. QED
    BY <2>1, <2>2
<1>2. ASSUME NEW w \in Worker, Spurious(w) PROVE PlaceInv'
  BY <1>2 DEF Spurious
<1>3. ASSUME NEW w \in Worker, Run(w) PROVE PlaceInv'
  BY <1>3 DEF Run
<1>4. ASSUME NEW w \in Worker, Delete(w) PROVE PlaceInv'
  <2>1. held[w] \in Task
    BY <1>4, HeldIsTask DEF Delete
  <2>2. ToSet(freed') = ToSet(freed) \cup {held[w]}
    BY <1>4, <2>1, ToSetAppend DEF Delete
  <2>3. InHands(held') \cup {held[w]} = InHands(held)
    BY <1>4, <2>1, WorkersAssumption DEF Delete
  <2>4. UNCHANGED <<tasks, pushed>>
    BY <1>4 DEF Delete
  <2>5. pushed' = ToSet(tasks') \cup ToSet(freed') \cup InHands(held')
    BY <2>2, <2>3, <2>4
  <2>6. \A x \in Worker : held'[x] # NoTask <=> at'[x] \in {"run", "delete"}
    BY <1>4 DEF Delete
  <2>7. QED
    BY <2>5, <2>6
<1>5. ASSUME NEW t \in Task, PushTask(t) PROVE PlaceInv'
  <2>1. ToSet(tasks') = ToSet(tasks) \cup {t}
    BY <1>5, ToSetAppend DEF PushTask
  <2>2. pushed' = pushed \cup {t} /\ UNCHANGED <<held, freed>>
    BY <1>5 DEF PushTask
  <2>3. pushed' = ToSet(tasks') \cup ToSet(freed') \cup InHands(held')
    BY <2>1, <2>2
  <2>4. \A x \in Worker : at'[x] \in {"run", "delete"} <=> at[x] \in {"run", "delete"}
    BY <1>5 DEF PushTask, Asleep
  <2>5. QED
    BY <2>2, <2>3, <2>4
<1>6. CASE Construct
  BY <1>6 DEF Construct, Born, SetExit
<1>7. CASE Destroy
  BY <1>7 DEF Destroy, SetExit
<1>8. CASE Join
  BY <1>8 DEF Join
<1>9. CASE DeleteRest
  <2>1. ToSet(freed') = ToSet(freed) \cup ToSet(tasks) /\ ToSet(tasks') = {}
    BY <1>9, ToSetConcat, ToSetEmpty DEF DeleteRest
  <2>2. UNCHANGED <<at, held, pushed>>
    BY <1>9 DEF DeleteRest
  <2>3. QED
    BY <2>1, <2>2
<1>10. CASE Over \/ UNCHANGED vars
  BY <1>10 DEF Over, vars
<1>11. QED
  BY <1>1, <1>2, <1>3, <1>4, <1>5, <1>6, <1>7, <1>8, <1>9, <1>10 DEF Next, WorkerStep

LEMMA NextNoSleeperAtExit == IInv /\ [Next]_vars => NoSleeperAtExit'
<1> SUFFICES ASSUME IInv, [Next]_vars PROVE NoSleeperAtExit'
  OBVIOUS
<1>0. TypeOK /\ NoSleeperAtExit /\ OwnerInv
  BY DEF IInv
<1> USE <1>0 DEF TypeOK, NoSleeperAtExit, Asleep
<1>1. ASSUME NEW w \in Worker, GetNext(w) \/ Spurious(w) \/ Run(w) \/ Delete(w)
      PROVE  NoSleeperAtExit'
  BY <1>1 DEF GetNext, Spurious, Run, Delete
<1>2. ASSUME NEW t \in Task, PushTask(t) PROVE NoSleeperAtExit'
  BY <1>2 DEF PushTask, OwnerInv
<1>3. CASE Construct
  BY <1>3 DEF Construct, Born, SetExit
<1>4. CASE Destroy
  BY <1>4 DEF Destroy, SetExit
<1>5. CASE Join \/ DeleteRest
  BY <1>5 DEF Join, DeleteRest
<1>6. CASE Over \/ UNCHANGED vars
  BY <1>6 DEF Over, vars
<1>7. QED
  BY <1>1, <1>2, <1>3, <1>4, <1>5, <1>6 DEF Next, WorkerStep

\* One more worker on its way, and at most one more task, keeps the balance.
LEMMA OneMoreAwake ==
    ASSUME NoIdleSleeper, TypeOK, TypeOK', NEW w \in Worker \ Awake,
           Awake' = Awake \cup {w}, Asleep' \subseteq Asleep,
           Len(tasks') <= Len(tasks) + 1
    PROVE  NoIdleSleeper'
<1>1. Cardinality(Awake)' = Cardinality(Awake) + 1
  BY AwakeCount
<1>2. Cardinality(Awake) \in Nat /\ Len(tasks) \in Nat /\ Len(tasks') \in Nat
  BY AwakeCount DEF TypeOK
<1>3. CASE Asleep' # {}
  BY <1>1, <1>2, <1>3 DEF NoIdleSleeper
<1>4. QED
  BY <1>3 DEF NoIdleSleeper

LEMMA NextNoIdleSleeper == IInv /\ [Next]_vars => NoIdleSleeper'
<1> SUFFICES ASSUME IInv, [Next]_vars PROVE NoIdleSleeper'
  OBVIOUS
<1>0. TypeOK /\ TypeOK' /\ NoSleeperAtExit /\ NoIdleSleeper
  BY NextTypeOK DEF IInv
<1>1. Len(tasks) \in Nat /\ Cardinality(Awake) \in Nat
  BY <1>0, AwakeCount DEF TypeOK
<1>2. ASSUME NEW w \in Worker, GetNext(w) PROVE NoIdleSleeper'
  <2>1. CASE exit
    BY <1>0, <1>2, <2>1 DEF GetNext, NoSleeperAtExit, NoIdleSleeper, Asleep, TypeOK
  <2>2. CASE ~exit /\ tasks = <<>>
    <3>1. Len(tasks') = 0
      BY <1>2, <2>2 DEF GetNext
    <3>2. Cardinality(Awake)' \in Nat
      BY <1>2, <2>2, AwakeCount, FS_Subset, FS_CardinalityType, WorkersAssumption DEF Awake
    <3>3. QED
      BY <3>1, <3>2 DEF NoIdleSleeper
  <2>3. CASE ~exit /\ tasks # <<>>
    <3>1. Len(tasks') = Len(tasks) - 1
      BY <1>0, <1>2, <2>3 DEF GetNext, TypeOK
    <3>2. w \in Awake /\ Awake' = Awake \ {w} /\ Asleep' = Asleep
      BY <1>0, <1>2, <2>3 DEF GetNext, Awake, Asleep, TypeOK
    <3>3. Cardinality(Awake)' = Cardinality(Awake) - 1
      BY <3>2, AwakeCount
    <3>4. QED
      BY <1>0, <1>1, <3>1, <3>2, <3>3 DEF NoIdleSleeper
  <2>4. QED
    BY <2>1, <2>2, <2>3
<1>3. ASSUME NEW w \in Worker, Spurious(w) \/ Delete(w) PROVE NoIdleSleeper'
  <2>1. w \notin Awake /\ Awake' = Awake \cup {w} /\ Asleep' \subseteq Asleep
    BY <1>0, <1>3 DEF Spurious, Delete, Awake, Asleep, TypeOK
  <2>2. tasks' = tasks
    BY <1>3 DEF Spurious, Delete
  <2>3. QED
    BY <1>0, <1>1, <2>1, <2>2, OneMoreAwake
<1>4. ASSUME NEW w \in Worker, Run(w) PROVE NoIdleSleeper'
  <2>1. Awake' = Awake /\ Asleep' = Asleep /\ tasks' = tasks
    BY <1>0, <1>4 DEF Run, Awake, Asleep, TypeOK
  <2>2. QED
    BY <1>0, <2>1 DEF NoIdleSleeper
<1>5. ASSUME NEW t \in Task, PushTask(t) PROVE NoIdleSleeper'
  <2>1. Len(tasks') = Len(tasks) + 1
    BY <1>0, <1>5 DEF PushTask, TypeOK
  <2>2. CASE Asleep = {}
    BY <1>5, <2>2 DEF PushTask, NoIdleSleeper, Asleep
  <2>3. CASE Asleep # {}
    <3>1. PICK w \in Asleep : at' = [at EXCEPT ![w] = "getNext"]
      BY <1>5, <2>3 DEF PushTask
    <3>2. w \in Worker \ Awake /\ Awake' = Awake \cup {w} /\ Asleep' \subseteq Asleep
      BY <1>0, <3>1 DEF Awake, Asleep, TypeOK
    <3>3. QED
      BY <1>0, <1>1, <2>1, <3>2, OneMoreAwake
  <2>4. QED
    BY <2>2, <2>3
<1>6. ASSUME NEW after, SetExit(after) PROVE NoIdleSleeper'
  BY <1>6 DEF SetExit, NoIdleSleeper, Asleep
<1>7. CASE Construct
  <2>1. ASSUME NEW w \in Worker \ Born, at' = [at EXCEPT ![w] = "getNext"], UNCHANGED tasks
        PROVE  NoIdleSleeper'
    <3>1. w \in Worker \ Awake /\ Awake' = Awake \cup {w} /\ Asleep' \subseteq Asleep
      BY <1>0, <2>1 DEF Born, Awake, Asleep, TypeOK
    <3>2. QED
      BY <1>0, <1>1, <2>1, <3>1, OneMoreAwake
  <2>2. CASE UNCHANGED <<tasks, at>>
    BY <1>0, <2>2 DEF NoIdleSleeper, Awake, Asleep
  <2>3. QED
    BY <1>6, <1>7, <2>1, <2>2 DEF Construct
<1>8. CASE Destroy
  BY <1>6, <1>8 DEF Destroy
<1>9. CASE DeleteRest
  <2>1. Len(tasks') = 0 /\ UNCHANGED at
    BY <1>9 DEF DeleteRest
  <2>2. QED
    BY <1>1, <2>1 DEF NoIdleSleeper, Awake, Asleep
<1>10. CASE Join \/ Over \/ UNCHANGED vars
  BY <1>0, <1>10 DEF Join, Over, vars, NoIdleSleeper, Awake, Asleep
<1>11. QED
  BY <1>2, <1>3, <1>4, <1>5, <1>7, <1>8, <1>9, <1>10 DEF Next, WorkerStep

-----------------------------------------------------------------------------
(* The theorems.                                                           *)

\* The invariant holds in every reachable state, of work_queue.h's class as a
\* whole.
THEOREM Invariance == Spec => []IInv
<1>1. IInv /\ [Next]_vars => IInv'
  BY NextTypeOK, NextOwnerInv, NextPlaceInv, NextNoIdleSleeper, NextNoSleeperAtExit DEF IInv
<1>2. QED
  BY InitIInv, <1>1, PTL DEF Spec

\* Every variable of CworkQueue keeps its type; no task object is ever unset when
\* it is run or deleted.
THEOREM TypeCorrect == Spec => []TypeOK
<1>1. IInv => TypeOK
  BY DEF IInv
<1>2. QED
  BY Invariance, <1>1, PTL

\* pushTask's single notify_one per task is enough: no worker sleeps on m_cv while
\* a task lies in m_tasks that no awake worker is on its way to.
THEOREM NotifyOneIsEnough == Spec => []NoIdleSleeper
<1>1. IInv => NoIdleSleeper
  BY DEF IInv
<1>2. QED
  BY Invariance, <1>1, PTL

\* setExit's notification is never missed: once m_exit is set no worker sleeps.
THEOREM ExitIsNoticed == Spec => []NoSleeperAtExit
<1>1. IInv => NoSleeperAtExit
  BY DEF IInv
<1>2. QED
  BY Invariance, <1>1, PTL

\* ~CworkQueue leaves no task undeleted and no thread behind.
THEOREM DestructorIsComplete == Spec => []NothingLeaks
<1>1. IInv => NothingLeaks
  <2> SUFFICES ASSUME IInv, owner \in {"destroyed", "thrown"}
               PROVE  /\ ToSet(freed) = pushed
                      /\ \A w \in Worker : at[w] \in {"unborn", "left"}
    BY DEF NothingLeaks
  <2>1. \A w \in Worker : at[w] \in {"unborn", "left"}
    BY DEF IInv, OwnerInv
  <2>2. {t \in Task : \E w \in Worker : held[w] = t} = {}
    BY <2>1, WorkersAssumption DEF IInv, PlaceInv
  <2>3. pushed = ToSet(tasks) \cup ToSet(freed)
    BY <2>2 DEF IInv, PlaceInv
  <2>4. CASE owner = "destroyed"
    BY <2>1, <2>3, <2>4, ToSetEmpty DEF IInv, OwnerInv
  <2>5. CASE owner = "thrown"
    BY <2>1, <2>3, <2>5 DEF IInv, OwnerInv
  <2>6. QED
    BY <2>1, <2>4, <2>5
<1>2. QED
  BY Invariance, <1>1, PTL

-----------------------------------------------------------------------------
(* Each task has one owner.                                                *)

\* No task is twice in the deque, among the workers or with the deleter, nor in
\* two of these; it was run if a worker is about to delete it, and before m_exit
\* if it is deleted, and was not run if it is still in the deque.
OnceInv ==
    /\ IsInjective(tasks) /\ IsInjective(freed) /\ IsInjective(ran)
    /\ ToSet(tasks) \cap ToSet(freed) = {}
    /\ \A w \in Worker : held[w] # NoTask =>
          /\ held[w] \notin ToSet(tasks) /\ held[w] \notin ToSet(freed)
          /\ \A x \in Worker : held[x] = held[w] => x = w
    /\ ToSet(ran) \cap ToSet(tasks) = {} /\ ToSet(ran) \subseteq pushed
    /\ \A w \in Worker : /\ at[w] = "run" => held[w] \notin ToSet(ran)
                         /\ at[w] = "delete" => held[w] \in ToSet(ran)
    /\ ~exit => ToSet(freed) \subseteq ToSet(ran)
    /\ owner \in {"joining", "deleting"} => exit

LEMMA InitOnceInv == Init => OnceInv
BY ToSetEmpty, DistinctEmpty DEF Init, OnceInv

\* What the workers hold was pushed.
LEMMA HeldIsPushed ==
    ASSUME IInv, NEW w \in Worker, held[w] # NoTask
    PROVE  held[w] \in pushed /\ held[w] \in Task
BY DEF IInv, TypeOK, PlaceInv

\* A worker takes the oldest task.
LEMMA GetNextOnce ==
    ASSUME IInv, OnceInv, NEW w \in Worker, GetNext(w)
    PROVE  OnceInv'
<1>1. TypeOK /\ PlaceInv
  BY DEF IInv
<1>2. at[w] = "getNext" /\ held[w] = NoTask /\ UNCHANGED <<owner, exit, pushed, ran, freed>>
  BY <1>1 DEF GetNext, PlaceInv
<1>3. CASE UNCHANGED <<tasks, held>> /\ at' \in {[at EXCEPT ![w] = "left"], [at EXCEPT ![w] = "asleep"]}
  BY <1>1, <1>2, <1>3 DEF OnceInv, TypeOK
<1>4. CASE /\ tasks # <<>>
           /\ at' = [at EXCEPT ![w] = "run"]
           /\ held' = [held EXCEPT ![w] = Head(tasks)]
           /\ tasks' = Tail(tasks)
  <2> DEFINE t == Head(tasks)
             rest == Tail(tasks)
  <2>1. /\ ToSet(tasks) = ToSet(rest) \cup {t}
        /\ IsInjective(rest) /\ t \notin ToSet(rest) /\ t \in Task
    BY <1>1, <1>4, ToSetHeadTail, DistinctTail DEF OnceInv, TypeOK
  <2>2. /\ held' = [held EXCEPT ![w] = t] /\ tasks' = rest
        /\ at' = [at EXCEPT ![w] = "run"]
    BY <1>4
  <2> HIDE DEF t, rest
  <2>3. /\ t \notin ToSet(freed) /\ t \notin ToSet(ran) /\ t # NoTask
        /\ \A x \in Worker : held[x] # t
    BY <2>1, WorkersAssumption DEF OnceInv
  <2>4. /\ held'[w] = t /\ \A x \in Worker : x # w => held'[x] = held[x]
        /\ at'[w] = "run" /\ \A x \in Worker : x # w => at'[x] = at[x]
    BY <1>1, <2>2 DEF TypeOK
  <2>5. \A x \in Worker : held'[x] # NoTask =>
            /\ held'[x] \notin ToSet(tasks') /\ held'[x] \notin ToSet(freed')
            /\ \A y \in Worker : held'[y] = held'[x] => y = x
    BY <1>2, <2>1, <2>2, <2>3, <2>4 DEF OnceInv
  <2>6. \A x \in Worker : /\ at'[x] = "run" => held'[x] \notin ToSet(ran')
                          /\ at'[x] = "delete" => held'[x] \in ToSet(ran')
    BY <1>2, <2>3, <2>4 DEF OnceInv
  <2>7. QED
    BY <1>2, <2>1, <2>2, <2>5, <2>6 DEF OnceInv
<1>5. QED
  BY <1>3, <1>4 DEF GetNext

\* task->run()
LEMMA RunOnce ==
    ASSUME IInv, OnceInv, NEW w \in Worker, Run(w)
    PROVE  OnceInv'
<1>1. TypeOK /\ PlaceInv
  BY DEF IInv
<1>2. /\ at[w] = "run" /\ at' = [at EXCEPT ![w] = "delete"] /\ ran' = Append(ran, held[w])
      /\ UNCHANGED <<owner, exit, tasks, held, pushed, freed>>
  BY DEF Run
<1>3. held[w] # NoTask /\ held[w] \in Task /\ held[w] \in pushed
  BY <1>1, <1>2, HeldIsPushed DEF PlaceInv
<1>4. held[w] \notin ToSet(ran) /\ held[w] \notin ToSet(tasks)
  BY <1>2, <1>3 DEF OnceInv
<1>5. IsInjective(ran') /\ ToSet(ran') = ToSet(ran) \cup {held[w]}
  BY <1>1, <1>2, <1>3, <1>4, ToSetAppend, DistinctAppend DEF OnceInv, TypeOK
<1>6. at'[w] = "delete" /\ \A x \in Worker : x # w => at'[x] = at[x]
  BY <1>1, <1>2 DEF TypeOK
<1>7. \A x \in Worker : at[x] = "run" /\ x # w => held[x] # held[w]
  BY <1>3 DEF OnceInv
<1>8. \A x \in Worker : /\ at'[x] = "run" => held'[x] \notin ToSet(ran')
                        /\ at'[x] = "delete" => held'[x] \in ToSet(ran')
  BY <1>2, <1>5, <1>6, <1>7 DEF OnceInv
<1>9. QED
  BY <1>2, <1>3, <1>4, <1>5, <1>8 DEF OnceInv

\* deleter(task)
LEMMA DeleteOnce ==
    ASSUME IInv, OnceInv, NEW w \in Worker, Delete(w)
    PROVE  OnceInv'
<1>1. TypeOK /\ PlaceInv
  BY DEF IInv
<1>2. /\ at[w] = "delete" /\ at' = [at EXCEPT ![w] = "getNext"]
      /\ held' = [held EXCEPT ![w] = NoTask] /\ freed' = Append(freed, held[w])
      /\ UNCHANGED <<owner, exit, tasks, pushed, ran>>
  BY DEF Delete
<1>3. held[w] # NoTask /\ held[w] \in Task
  BY <1>1, <1>2, HeldIsPushed DEF PlaceInv
<1>4. /\ held[w] \notin ToSet(freed) /\ held[w] \notin ToSet(tasks) /\ held[w] \in ToSet(ran)
      /\ \A x \in Worker : held[x] = held[w] => x = w
  BY <1>2, <1>3 DEF OnceInv
<1>5. IsInjective(freed') /\ ToSet(freed') = ToSet(freed) \cup {held[w]}
  BY <1>1, <1>2, <1>3, <1>4, ToSetAppend, DistinctAppend DEF OnceInv, TypeOK
<1>6. /\ at'[w] = "getNext" /\ held'[w] = NoTask
      /\ \A x \in Worker : x # w => at'[x] = at[x] /\ held'[x] = held[x]
  BY <1>1, <1>2 DEF TypeOK
<1>7. \A x \in Worker : held'[x] # NoTask =>
          /\ held'[x] \notin ToSet(tasks') /\ held'[x] \notin ToSet(freed')
          /\ \A y \in Worker : held'[y] = held'[x] => y = x
  BY <1>2, <1>4, <1>5, <1>6 DEF OnceInv
<1>8. \A x \in Worker : /\ at'[x] = "run" => held'[x] \notin ToSet(ran')
                        /\ at'[x] = "delete" => held'[x] \in ToSet(ran')
  BY <1>2, <1>6 DEF OnceInv
<1>9. ToSet(tasks) \cap ToSet(freed') = {} /\ (~exit => ToSet(freed') \subseteq ToSet(ran))
  BY <1>4, <1>5 DEF OnceInv
<1>10. QED
  BY <1>2, <1>5, <1>7, <1>8, <1>9 DEF OnceInv

LEMMA PushTaskOnce ==
    ASSUME IInv, OnceInv, NEW t \in Task, PushTask(t)
    PROVE  OnceInv'
<1>1. TypeOK /\ PlaceInv
  BY DEF IInv
<1>2. /\ t \notin pushed /\ pushed' = pushed \cup {t} /\ tasks' = Append(tasks, t)
      /\ UNCHANGED <<owner, exit, held, ran, freed>>
  BY DEF PushTask
<1>3. \A w \in Worker : /\ at'[w] = "run" <=> at[w] = "run"
                        /\ at'[w] = "delete" <=> at[w] = "delete"
  BY <1>1 DEF PushTask, Asleep, TypeOK
<1>4. /\ t \notin ToSet(tasks) /\ t \notin ToSet(freed) /\ t \notin ToSet(ran)
      /\ \A w \in Worker : held[w] # t
  BY <1>1, <1>2 DEF PlaceInv, OnceInv
<1>5. IsInjective(tasks') /\ ToSet(tasks') = ToSet(tasks) \cup {t}
  BY <1>1, <1>2, <1>4, ToSetAppend, DistinctAppend DEF OnceInv, TypeOK
<1>6. QED
  BY <1>2, <1>3, <1>4, <1>5 DEF OnceInv

LEMMA DeleteRestOnce ==
    ASSUME IInv, OnceInv, DeleteRest
    PROVE  OnceInv'
<1>1. TypeOK /\ OwnerInv /\ PlaceInv
  BY DEF IInv
<1>2. /\ owner = "deleting" /\ owner' = "destroyed" /\ freed' = freed \o tasks /\ tasks' = <<>>
      /\ UNCHANGED <<exit, at, held, pushed, ran>>
  BY DEF DeleteRest
<1>3. exit /\ \A w \in Worker : held[w] = NoTask
  BY <1>1, <1>2 DEF OnceInv, OwnerInv, PlaceInv
<1>4. IsInjective(freed') /\ ToSet(tasks') = {} /\ IsInjective(tasks')
  BY <1>1, <1>2, DistinctConcat, DistinctEmpty, ToSetEmpty DEF OnceInv, TypeOK
<1>5. QED
  BY <1>2, <1>3, <1>4 DEF OnceInv

LEMMA NextOnceInv == IInv /\ OnceInv /\ [Next]_vars => OnceInv'
<1> SUFFICES ASSUME IInv, OnceInv, [Next]_vars PROVE OnceInv'
  OBVIOUS
<1>1. ASSUME NEW w \in Worker, GetNext(w) \/ Run(w) \/ Delete(w) PROVE OnceInv'
  BY <1>1, GetNextOnce, RunOnce, DeleteOnce
<1>2. ASSUME NEW t \in Task, PushTask(t) PROVE OnceInv'
  BY <1>2, PushTaskOnce
<1>3. CASE DeleteRest
  BY <1>3, DeleteRestOnce
<1>4. ASSUME UNCHANGED <<tasks, held, pushed, ran, freed>>,
             \A w \in Worker : /\ at'[w] = "run" => at[w] = "run"
                               /\ at'[w] = "delete" => at[w] = "delete",
             exit => exit', owner' \in {"joining", "deleting"} => exit'
      PROVE  OnceInv'
  BY <1>4 DEF OnceInv
<1>5. TypeOK
  BY DEF IInv
<1>6. ASSUME NEW w \in Worker, Spurious(w) PROVE OnceInv'
  BY <1>4, <1>5, <1>6 DEF Spurious, OnceInv, TypeOK
<1>7. CASE Construct
  BY <1>4, <1>5, <1>7 DEF Construct, SetExit, Born, TypeOK
<1>8. CASE Destroy
  BY <1>4, <1>5, <1>8 DEF Destroy, SetExit, TypeOK
<1>9. CASE Join
  BY <1>4, <1>5, <1>9 DEF Join, OnceInv, TypeOK
<1>10. CASE Over \/ UNCHANGED vars
  BY <1>4, <1>10 DEF Over, vars, OnceInv
<1>11. QED
  BY <1>1, <1>2, <1>3, <1>6, <1>7, <1>8, <1>9, <1>10 DEF Next, WorkerStep

\* getNext hands a task to one worker, which runs it once and deletes it; only the
\* destructor deletes a task that was never run.
THEOREM OwnedByOne == Spec => []OneOwner
<1>1. IInv /\ OnceInv => OneOwner
  <2> SUFFICES ASSUME IInv, OnceInv PROVE OneOwner
    OBVIOUS
  <2>1. ASSUME NEW t \in pushed
        PROVE  Cardinality({i \in DOMAIN tasks : tasks[i] = t})
                 + Cardinality({w \in Worker : held[w] = t})
                 + Cardinality({i \in DOMAIN freed : freed[i] = t}) = 1
    <3> DEFINE H == {w \in Worker : held[w] = t}
    <3>1. t \in Task /\ t # NoTask
      BY WorkersAssumption DEF IInv, TypeOK
    <3>2. /\ \A x, y \in H : x = y
          /\ H = {} <=> ~\E w \in Worker : held[w] = t
      BY <3>1 DEF OnceInv
    <3>3. Cardinality(H) = IF \E w \in Worker : held[w] = t THEN 1 ELSE 0
      <4> HIDE DEF H
      <4>1. Cardinality(H) = IF H = {} THEN 0 ELSE 1
        BY <3>2, AtMostOne
      <4>2. QED
        BY <3>2, <4>1
    <3>4. /\ Cardinality({i \in DOMAIN tasks : tasks[i] = t}) = IF t \in ToSet(tasks) THEN 1 ELSE 0
          /\ Cardinality({i \in DOMAIN freed : freed[i] = t}) = IF t \in ToSet(freed) THEN 1 ELSE 0
      BY CountDistinct DEF OnceInv
    <3>5. /\ \/ t \in ToSet(tasks)
             \/ t \in ToSet(freed)
             \/ \E w \in Worker : held[w] = t
          /\ ~(t \in ToSet(tasks) /\ t \in ToSet(freed))
          /\ (\E w \in Worker : held[w] = t) => t \notin ToSet(tasks) /\ t \notin ToSet(freed)
      BY <3>1 DEF IInv, PlaceInv, OnceInv
    <3>6. QED
      BY <3>3, <3>4, <3>5
  <2>2. QED
    BY <2>1 DEF OneOwner, OnceInv
<1>2. QED
  BY <1>1, Invariance, InitOnceInv, NextOnceInv, PTL DEF Spec
=============================================================================
