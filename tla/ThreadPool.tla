----------------------------- MODULE ThreadPool -----------------------------
(***************************************************************************)
(* The thread pool (ThreadPool.h, ThreadPool.cpp).  The queue and the stop *)
(* flag are touched under mtx only, so each critical section is one step;  *)
(* the notifications come after the mutex is released, so each is a step   *)
(* of its own, and a woken worker takes the mutex and tests its condition  *)
(* again in a later step.  One thread, the main thread, submits tasks and  *)
(* destroys the pool.                                                      *)
(***************************************************************************)
EXTENDS Naturals, Sequences, FiniteSets

CONSTANTS Task,    \* the function objects submitted, each of them once
          Worker,  \* the threads of the pool
          NoTask   \* "this worker runs nothing"

ASSUME PoolAssumption ==
  /\ NoTask \notin Task
  /\ IsFiniteSet(Worker)
  /\ Worker # {}

VARIABLES
  tasks,      \* the queue
  stop,       \* set by the destructor
  thread,     \* each worker: at the mutex, asleep in cv.wait, in a task, returned
  task,       \* the task it runs
  main,       \* the main thread: outside the pool, or what it does next in it
  submitted   \* history: the tasks submitted so far

poolVars == <<tasks, stop, thread, task, main, submitted>>

TypeOK ==
  /\ tasks \in Seq(Task)
  /\ stop \in BOOLEAN
  /\ thread \in [Worker -> {"mutex", "waiting", "running", "returned"}]
  /\ task \in [Worker -> Task \cup {NoTask}]
  /\ main \in {"outside", "notify", "notifyAll", "join", "joined"}
  /\ submitted \subseteq Task

Init ==
  /\ tasks = <<>>
  /\ stop = FALSE
  /\ thread = [w \in Worker |-> "mutex"]
  /\ task = [w \in Worker |-> NoTask]
  /\ main = "outside"
  /\ submitted = {}

At(state) == {w \in Worker : thread[w] = state}

-----------------------------------------------------------------------------
(* The main thread.                                                        *)

\* Submit, up to the end of its critical section.
Push(t) ==
  /\ main = "outside"
  /\ ~stop
  /\ t \notin submitted
  /\ submitted' = submitted \cup {t}
  /\ tasks' = Append(tasks, t)
  /\ main' = "notify"
  /\ UNCHANGED <<stop, thread, task>>

\* notify_one wakes one sleeper, any of them, if there is one.
WakesOne ==
  IF At("waiting") = {}
    THEN UNCHANGED thread
    ELSE \E w \in At("waiting") : thread' = [thread EXCEPT ![w] = "mutex"]

\* Mutant: notify_one is forgotten.
NotifyNobody ==
  /\ main = "notify"
  /\ main' = "outside"
  /\ UNCHANGED <<tasks, stop, thread, task, submitted>>

NotifyOne ==
  /\ main = "notify"
  /\ WakesOne
  /\ main' = "outside"
  /\ UNCHANGED <<tasks, stop, task, submitted>>

\* The destructor.
Stop ==
  /\ main = "outside"
  /\ ~stop
  /\ stop' = TRUE
  /\ main' = "notifyAll"
  /\ UNCHANGED <<tasks, thread, task, submitted>>

WakesAll == thread' = [w \in Worker |-> IF thread[w] = "waiting" THEN "mutex" ELSE thread[w]]

\* Mutant: the destructor calls notify_one.
NotifyOneOfAll ==
  /\ main = "notifyAll"
  /\ WakesOne
  /\ main' = "join"
  /\ UNCHANGED <<tasks, stop, task, submitted>>

NotifyAll ==
  /\ main = "notifyAll"
  /\ WakesAll
  /\ main' = "join"
  /\ UNCHANGED <<tasks, stop, task, submitted>>

Join ==
  /\ main = "join"
  /\ At("returned") = Worker
  /\ main' = "joined"
  /\ UNCHANGED <<tasks, stop, thread, task, submitted>>

-----------------------------------------------------------------------------
(* The worker threads: the predicate of cv.wait, tested under the mutex.   *)

Sleep(w) ==
  /\ thread[w] = "mutex"
  /\ ~stop /\ tasks = <<>>
  /\ thread' = [thread EXCEPT ![w] = "waiting"]
  /\ UNCHANGED <<tasks, stop, task, main, submitted>>

\* The condition variable may let a thread go without a notification.
SpuriousWakeup(w) ==
  /\ thread[w] = "waiting"
  /\ thread' = [thread EXCEPT ![w] = "mutex"]
  /\ UNCHANGED <<tasks, stop, task, main, submitted>>

\* Mutant: the worker returns as soon as the pool is stopped.
MayReturnAtOnce == stop

MayReturn == stop /\ tasks = <<>>

ThreadReturn(w) ==
  /\ thread[w] = "mutex"
  /\ MayReturn
  /\ thread' = [thread EXCEPT ![w] = "returned"]
  /\ UNCHANGED <<tasks, stop, task, main, submitted>>

\* Mutant: the task is copied from the queue and not removed.
Unpopped(queue) == queue

Popped(queue) == Tail(queue)

Pop(w) ==
  /\ thread[w] = "mutex"
  /\ tasks # <<>>
  /\ task' = [task EXCEPT ![w] = Head(tasks)]
  /\ tasks' = Popped(tasks)
  /\ thread' = [thread EXCEPT ![w] = "running"]
  /\ UNCHANGED <<stop, main, submitted>>

\* task() returns.
Finish(w) ==
  /\ thread[w] = "running"
  /\ task' = [task EXCEPT ![w] = NoTask]
  /\ thread' = [thread EXCEPT ![w] = "mutex"]
  /\ UNCHANGED <<tasks, stop, main, submitted>>

-----------------------------------------------------------------------------
MainStep == (\E t \in Task : Push(t)) \/ NotifyOne \/ Stop \/ NotifyAll \/ Join

\* What a worker does by itself; no spurious wakeup among it.
WorkerStep(w) == Sleep(w) \/ ThreadReturn(w) \/ Pop(w) \/ Finish(w)

Next == MainStep \/ \E w \in Worker : WorkerStep(w) \/ SpuriousWakeup(w)

Spec == Init /\ [][Next]_poolVars

(***************************************************************************)
(* The main thread goes through what it has begun, a runnable worker runs, *)
(* and every task returns.  Nobody has to submit or to destroy the pool.   *)
(***************************************************************************)
FairSpec ==
  /\ Spec
  /\ WF_poolVars(NotifyOne \/ NotifyAll \/ Join)
  /\ \A w \in Worker : WF_poolVars(WorkerStep(w))

-----------------------------------------------------------------------------
(* Properties.                                                             *)

(***************************************************************************)
(* No wake-up is lost: while a worker sleeps, each task in the queue has a *)
(* worker that is up and on its way to the mutex, or a notification that   *)
(* Submit has yet to send.  It is what lets Submit notify after it has     *)
(* released the mutex, and a busy worker take a task that another one was  *)
(* woken for.                                                              *)
(***************************************************************************)
NoLostWakeup ==
  At("waiting") # {} =>
    Len(tasks) <= Cardinality(At("mutex")) + (IF main = "notify" THEN 1 ELSE 0)

(***************************************************************************)
(* When the pool is stopped nobody is left asleep, and a worker that has   *)
(* returned leaves no task behind: the destructor waits for every one.     *)
(***************************************************************************)
StopReachesAll ==
  /\ stop /\ main # "notifyAll" => At("waiting") = {}
  /\ At("returned") # {} => stop /\ tasks = <<>>

(***************************************************************************)
(* The pool implements TaskQueue: tasks start in the order of submission,  *)
(* each exactly once, and all of them finish before the destructor does.   *)
(***************************************************************************)
QueueOf ==
  INSTANCE TaskQueue WITH
    Job <- Task, NoJob <- NoTask,
    pending <- tasks, running <- task, closed <- stop, gone <- (main = "joined")

ImplementsQueue == QueueOf!Spec

\* A task in the queue eventually runs, however workers are woken.
TasksRun ==
  \A t \in Task :
    (\E i \in DOMAIN tasks : tasks[i] = t) ~> (\E w \in Worker : task[w] = t)

\* The destructor always comes to its end.
StopEnds == stop ~> main = "joined"

=============================================================================
