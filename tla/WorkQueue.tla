------------------------------ MODULE WorkQueue ------------------------------
(***************************************************************************)
(* CworkQueue (src/work_queue.h): worker threads that take tasks from a    *)
(* deque under m_lock, sleep on m_cv while it is empty, and run and delete *)
(* what they take; a destructor that sets m_exit, joins them and deletes   *)
(* what is left.  Every critical section is an action: a worker holds      *)
(* m_lock from waking (or entering getNext) until it sleeps or returns.    *)
(* m_cv may wake a worker spuriously.                                      *)
(***************************************************************************)
EXTENDS Naturals, Sequences, FiniteSets, SequencesExt

CONSTANTS Worker,  \* m_threads
          Task,    \* the Ctask objects pushed, each once
          NoTask

ASSUME WorkersAssumption == IsFiniteSet(Worker) /\ NoTask \notin Task

VARIABLES
    owner,   \* where the thread that constructs and destroys the queue is
    exit,    \* m_exit
    tasks,   \* m_tasks
    at,      \* where each worker is; "unborn" before its thread exists
    held,    \* the task of each worker between getNext and deleter(task)
    pushed,  \* tasks handed to pushTask
    ran,     \* tasks that were run, in the order their runs ended
    freed    \* tasks passed to their deleter, in that order

vars == <<owner, exit, tasks, at, held, pushed, ran, freed>>

Born == {w \in Worker : at[w] # "unborn"}
Asleep == {w \in Worker : at[w] = "asleep"}
Awake == {w \in Worker : at[w] = "getNext"}

-----------------------------------------------------------------------------
(* The workers.                                                            *)

\* Mutant: the newest task is taken.
GetNextNewest(w) ==
    /\ at[w] = "getNext"
    /\ \/ /\ exit
          /\ at' = [at EXCEPT ![w] = "left"]
          /\ UNCHANGED <<tasks, held>>
       \/ /\ ~exit /\ tasks = <<>>
          /\ at' = [at EXCEPT ![w] = "asleep"]
          /\ UNCHANGED <<tasks, held>>
       \/ /\ ~exit /\ tasks # <<>>
          /\ at' = [at EXCEPT ![w] = "run"]
          /\ held' = [held EXCEPT ![w] = Last(tasks)]
          /\ tasks' = Front(tasks)
    /\ UNCHANGED <<owner, exit, pushed, ran, freed>>

\* Mutant: the front task is not popped.
GetNextKeeps(w) ==
    /\ at[w] = "getNext"
    /\ \/ /\ exit
          /\ at' = [at EXCEPT ![w] = "left"]
          /\ UNCHANGED <<tasks, held>>
       \/ /\ ~exit /\ tasks = <<>>
          /\ at' = [at EXCEPT ![w] = "asleep"]
          /\ UNCHANGED <<tasks, held>>
       \/ /\ ~exit /\ tasks # <<>>
          /\ at' = [at EXCEPT ![w] = "run"]
          /\ held' = [held EXCEPT ![w] = Head(tasks)]
          /\ UNCHANGED tasks
    /\ UNCHANGED <<owner, exit, pushed, ran, freed>>

\* getNext, with m_lock held: leave, sleep, or take the oldest task.
GetNext(w) ==
    /\ at[w] = "getNext"
    /\ \/ /\ exit
          /\ at' = [at EXCEPT ![w] = "left"]
          /\ UNCHANGED <<tasks, held>>
       \/ /\ ~exit /\ tasks = <<>>
          /\ at' = [at EXCEPT ![w] = "asleep"]
          /\ UNCHANGED <<tasks, held>>
       \/ /\ ~exit /\ tasks # <<>>
          /\ at' = [at EXCEPT ![w] = "run"]
          /\ held' = [held EXCEPT ![w] = Head(tasks)]
          /\ tasks' = Tail(tasks)
    /\ UNCHANGED <<owner, exit, pushed, ran, freed>>

\* m_cv.wait returns although nobody notified.
Spurious(w) ==
    /\ at[w] = "asleep"
    /\ at' = [at EXCEPT ![w] = "getNext"]
    /\ UNCHANGED <<owner, exit, tasks, held, pushed, ran, freed>>

\* task->run()
Run(w) ==
    /\ at[w] = "run"
    /\ at' = [at EXCEPT ![w] = "delete"]
    /\ ran' = Append(ran, held[w])
    /\ UNCHANGED <<owner, exit, tasks, held, pushed, freed>>

\* deleter(task)
Delete(w) ==
    /\ at[w] = "delete"
    /\ at' = [at EXCEPT ![w] = "getNext"]
    /\ held' = [held EXCEPT ![w] = NoTask]
    /\ freed' = Append(freed, held[w])
    /\ UNCHANGED <<owner, exit, tasks, pushed, ran>>

-----------------------------------------------------------------------------
(* The threads that own and use the queue.                                 *)

\* Mutant: the condition variable is signalled only when the queue was empty.
PushNotifyFirst(t) ==
    /\ owner = "using"
    /\ t \notin pushed
    /\ pushed' = pushed \cup {t}
    /\ tasks' = Append(tasks, t)
    /\ IF Asleep = {} \/ tasks # <<>>
       THEN UNCHANGED at
       ELSE \E w \in Asleep : at' = [at EXCEPT ![w] = "getNext"]
    /\ UNCHANGED <<owner, exit, held, ran, freed>>

\* Mutant: nobody is notified.
PushUnnotified(t) ==
    /\ owner = "using"
    /\ t \notin pushed
    /\ pushed' = pushed \cup {t}
    /\ tasks' = Append(tasks, t)
    /\ UNCHANGED <<owner, exit, at, held, ran, freed>>

\* pushTask: push_back and notify_one, under m_lock.
PushTask(t) ==
    /\ owner = "using"
    /\ t \notin pushed
    /\ pushed' = pushed \cup {t}
    /\ tasks' = Append(tasks, t)
    /\ IF Asleep = {}
       THEN UNCHANGED at
       ELSE \E w \in Asleep : at' = [at EXCEPT ![w] = "getNext"]
    /\ UNCHANGED <<owner, exit, held, ran, freed>>

\* Mutant: one worker is notified, and does not pass it on.
SetExitNotifyOne(after) ==
    /\ exit' = TRUE
    /\ IF Asleep = {}
       THEN UNCHANGED at
       ELSE \E w \in Asleep : at' = [at EXCEPT ![w] = "getNext"]
    /\ owner' = after
    /\ UNCHANGED <<tasks, held, pushed, ran, freed>>

\* setExit: m_exit and notify_all, under m_lock; its caller goes on to "after".
SetExit(after) ==
    /\ exit' = TRUE
    /\ at' = [w \in Worker |-> IF at[w] = "asleep" THEN "getNext" ELSE at[w]]
    /\ owner' = after
    /\ UNCHANGED <<tasks, held, pushed, ran, freed>>

\* The constructor starts one thread, cannot, or has started them all.  When
\* the thread starts but m_threads cannot grow, the temporary std::thread is
\* destroyed joinable, which ends the process.
Construct ==
    /\ owner = "constructing"
    /\ \/ \E w \in Worker \ Born :
             /\ at' = [at EXCEPT ![w] = "getNext"]
             /\ \/ UNCHANGED owner
                \/ owner' = "terminated"
             /\ UNCHANGED <<exit, tasks, held, pushed, ran, freed>>
       \/ Born # Worker /\ SetExit("unwinding")
       \/ /\ Born = Worker
          /\ owner' = "using"
          /\ UNCHANGED <<exit, tasks, at, held, pushed, ran, freed>>

\* The destructor begins, when nobody calls pushTask any more.
Destroy == owner = "using" /\ SetExit("joining")

\* Mutant: the destructor deletes the tasks without waiting for the workers.
JoinNobody ==
    \/ owner = "unwinding" /\ owner' = "thrown"
       /\ UNCHANGED <<exit, tasks, at, held, pushed, ran, freed>>
    \/ owner = "joining" /\ owner' = "deleting"
       /\ UNCHANGED <<exit, tasks, at, held, pushed, ran, freed>>

\* Every thread that was started has been joined.
Join ==
    /\ \A w \in Born : at[w] = "left"
    /\ \/ owner = "unwinding" /\ owner' = "thrown"
       \/ owner = "joining" /\ owner' = "deleting"
    /\ UNCHANGED <<exit, tasks, at, held, pushed, ran, freed>>

\* The destructor passes each task left to its deleter.
DeleteRest ==
    /\ owner = "deleting"
    /\ freed' = freed \o tasks
    /\ owner' = "destroyed"
    /\ tasks' = <<>>
    /\ UNCHANGED <<exit, at, held, pushed, ran>>

\* The queue is gone.
Over ==
    /\ owner \in {"thrown", "destroyed", "terminated"}
    /\ UNCHANGED vars

-----------------------------------------------------------------------------
Init ==
    /\ owner = "constructing"
    /\ exit = FALSE
    /\ tasks = <<>>
    /\ at = [w \in Worker |-> "unborn"]
    /\ held = [w \in Worker |-> NoTask]
    /\ pushed = {}
    /\ ran = <<>>
    /\ freed = <<>>

Alive == owner # "terminated"

WorkerStep(w) == Alive /\ (GetNext(w) \/ Run(w) \/ Delete(w))

Next ==
    \/ \E w \in Worker : WorkerStep(w) \/ (Alive /\ Spurious(w))
    \/ \E t \in Task : PushTask(t)
    \/ Construct
    \/ Destroy
    \/ Join
    \/ DeleteRest
    \/ Over

Spec == Init /\ [][Next]_vars

\* Workers keep running, whichever of them gets m_lock; runs end; a constructor
\* and a destructor that have begun go on.  The queue may live forever.
Fairness ==
    /\ \A w \in Worker : WF_vars(WorkerStep(w))
    /\ WF_vars(Construct)
    /\ WF_vars(Join)
    /\ WF_vars(DeleteRest)

FairSpec == Spec /\ Fairness

-----------------------------------------------------------------------------
(* Safety.                                                                 *)

\* Every variable has its type.
TypeOK ==
    /\ owner \in {"constructing", "unwinding", "terminated", "thrown", "using",
                  "joining", "deleting", "destroyed"}
    /\ exit \in BOOLEAN
    /\ tasks \in Seq(Task)
    /\ at \in [Worker -> {"unborn", "getNext", "asleep", "run", "delete", "left"}]
    /\ held \in [Worker -> Task \cup {NoTask}]
    /\ pushed \subseteq Task
    /\ ran \in Seq(Task)
    /\ freed \in Seq(Task)

\* No worker sleeps on m_cv while a task waits for want of one: beside a sleeper
\* there are as many workers on their way to m_tasks as there are tasks, so that
\* notify_one per push is enough, whoever wakes first.
NoIdleSleeper ==
    Asleep # {} => Len(tasks) <= Cardinality(Awake)

\* No worker sleeps on once m_exit is set: setExit wakes those that slept, and
\* those that are on their way to getNext see m_exit before they wait.
NoSleeperAtExit == exit => Asleep = {}

\* A task is in one place, the deque, a worker's hands or its deleter, and gets
\* there once; it is not run twice, and until m_exit not deleted before it ran.
OneOwner ==
    /\ \A t \in pushed :
          Cardinality({i \in DOMAIN tasks : tasks[i] = t})
            + Cardinality({w \in Worker : held[w] = t})
            + Cardinality({i \in DOMAIN freed : freed[i] = t}) = 1
    /\ IsInjective(ran)
    /\ ~exit => ToSet(freed) \subseteq ToSet(ran)

\* When the destructor returns, every task was deleted, and no worker is left to
\* touch the queue.
NothingLeaks ==
    owner \in {"destroyed", "thrown"} =>
        /\ ToSet(freed) = pushed
        /\ \A w \in Worker : at[w] \in {"unborn", "left"}

-----------------------------------------------------------------------------
(* Liveness.                                                               *)

\* Every task pushed is run, unless the queue is destroyed first.
TasksRun == \A t \in Task : t \in pushed ~> exit \/ t \in ToSet(ran)

\* The destructor returns, and so does a constructor that could not start its
\* threads.
DestructorReturns == exit ~> owner \in {"destroyed", "thrown"}
=============================================================================
