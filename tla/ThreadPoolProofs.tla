-------------------------- MODULE ThreadPoolProofs --------------------------
(***************************************************************************)
(* Proofs about ThreadPool: the safety properties of MCThreadPool.cfg, for *)
(* any number of tasks and of workers.                                     *)
(***************************************************************************)
EXTENDS ThreadPool, FiniteSetTheorems, TLAPS

(***************************************************************************)
(* The destructor runs once, after the last Submit; a worker has a task    *)
(* exactly while it runs it; and all have returned before the join ends.   *)
(***************************************************************************)
Phases ==
  /\ stop <=> main \in {"notifyAll", "join", "joined"}
  /\ \A w \in Worker : task[w] # NoTask <=> thread[w] = "running"
  /\ main = "joined" => At("returned") = Worker

Inv == TypeOK /\ Phases /\ NoLostWakeup /\ StopReachesAll

-----------------------------------------------------------------------------
(* How the workers at the mutex are counted.                               *)

\* There are finitely many workers, so those in one state can be counted.
LEMMA AtFinite ==
  ASSUME NEW s
  PROVE  IsFiniteSet(At(s)) /\ Cardinality(At(s)) \in Nat
BY PoolAssumption, FS_Subset, FS_CardinalityType DEF At

\* A worker that gets to the mutex makes one more of them.
LEMMA OneMore ==
  ASSUME TypeOK, NEW w \in Worker, thread[w] # "mutex",
         thread' = [thread EXCEPT ![w] = "mutex"]
  PROVE  Cardinality(At("mutex")') = Cardinality(At("mutex")) + 1
<1>1. At("mutex")' = At("mutex") \cup {w} /\ w \notin At("mutex")
  BY DEF At, TypeOK
<1>. QED  BY <1>1, AtFinite, FS_AddElement

\* A worker that leaves it makes one less.
LEMMA OneLess ==
  ASSUME TypeOK, NEW w \in Worker, thread[w] = "mutex", NEW s, s # "mutex",
         thread' = [thread EXCEPT ![w] = s]
  PROVE  Cardinality(At("mutex")') = Cardinality(At("mutex")) - 1
<1>1. At("mutex")' = At("mutex") \ {w} /\ w \in At("mutex")
  BY DEF At, TypeOK
<1>. QED  BY <1>1, AtFinite, FS_RemoveElement

-----------------------------------------------------------------------------
LEMMA Initially == Init => Inv
<1>. SUFFICES ASSUME Init PROVE Inv
  OBVIOUS
<1>1. tasks \in Seq(Task)
  BY DEF Init
<1>2. TypeOK /\ Phases
  BY <1>1 DEF Init, TypeOK, Phases
<1>3. At("waiting") = {} /\ At("returned") = {}
  BY DEF Init, At
<1>. QED  BY <1>2, <1>3 DEF Inv, NoLostWakeup, StopReachesAll

LEMMA TypingKept == TypeOK /\ [Next]_poolVars => TypeOK'
<1>. SUFFICES ASSUME TypeOK, [Next]_poolVars PROVE TypeOK'
  OBVIOUS
<1>. USE DEF TypeOK
<1>1. CASE MainStep
  <2>1. ASSUME NEW t \in Task, Push(t) PROVE TypeOK'
    BY <2>1 DEF Push
  <2>2. CASE NotifyOne
    BY <2>2 DEF NotifyOne, WakesOne, At
  <2>3. CASE Stop \/ NotifyAll \/ Join
    BY <2>3 DEF Stop, NotifyAll, WakesAll, Join
  <2>. QED  BY <1>1, <2>1, <2>2, <2>3 DEF MainStep
<1>2. ASSUME NEW w \in Worker, WorkerStep(w) PROVE TypeOK'
  <2>1. CASE Pop(w)
    <3>1. Head(tasks) \in Task /\ Tail(tasks) \in Seq(Task)
      BY <2>1 DEF Pop
    <3>. QED  BY <2>1, <3>1 DEF Pop, Popped
  <2>2. CASE Sleep(w) \/ ThreadReturn(w) \/ Finish(w)
    BY <2>2 DEF Sleep, ThreadReturn, Finish
  <2>. QED  BY <1>2, <2>1, <2>2 DEF WorkerStep
<1>3. ASSUME NEW w \in Worker, SpuriousWakeup(w) PROVE TypeOK'
  BY <1>3 DEF SpuriousWakeup
<1>4. CASE UNCHANGED poolVars
  BY <1>4 DEF poolVars
<1>. QED  BY <1>1, <1>2, <1>3, <1>4 DEF Next

LEMMA PhasesKept == Inv /\ [Next]_poolVars => Phases'
<1>. SUFFICES ASSUME Inv, [Next]_poolVars PROVE Phases'
  OBVIOUS
<1>. USE DEF Inv, TypeOK, Phases, At
<1>1. CASE MainStep
  BY <1>1 DEF MainStep, Push, NotifyOne, WakesOne, Stop, NotifyAll, WakesAll, Join
<1>2. ASSUME NEW w \in Worker, WorkerStep(w) PROVE Phases'
  BY <1>2, PoolAssumption DEF WorkerStep, Sleep, ThreadReturn, Pop, Popped, Finish
<1>3. ASSUME NEW w \in Worker, SpuriousWakeup(w) PROVE Phases'
  BY <1>3 DEF SpuriousWakeup
<1>4. CASE UNCHANGED poolVars
  BY <1>4 DEF poolVars
<1>. QED  BY <1>1, <1>2, <1>3, <1>4 DEF Next

LEMMA StopKept == Inv /\ [Next]_poolVars => StopReachesAll'
<1>. SUFFICES ASSUME Inv, [Next]_poolVars PROVE StopReachesAll'
  OBVIOUS
<1>. USE DEF Inv, TypeOK, Phases, StopReachesAll, At
<1>1. CASE MainStep
  BY <1>1 DEF MainStep, Push, NotifyOne, WakesOne, Stop, NotifyAll, WakesAll, Join
<1>2. ASSUME NEW w \in Worker, WorkerStep(w) PROVE StopReachesAll'
  BY <1>2 DEF WorkerStep, Sleep, ThreadReturn, MayReturn, Pop, Popped, Finish
<1>3. ASSUME NEW w \in Worker, SpuriousWakeup(w) PROVE StopReachesAll'
  BY <1>3 DEF SpuriousWakeup
<1>4. CASE UNCHANGED poolVars
  BY <1>4 DEF poolVars
<1>. QED  BY <1>1, <1>2, <1>3, <1>4 DEF Next

(***************************************************************************)
(* A notification turns into a worker at the mutex, a task leaves the      *)
(* queue with a worker that was there, and nobody goes to sleep while      *)
(* there are tasks.                                                        *)
(***************************************************************************)
LEMMA WakeupsKept == Inv /\ [Next]_poolVars => NoLostWakeup'
<1>. SUFFICES ASSUME Inv, [Next]_poolVars PROVE NoLostWakeup'
  OBVIOUS
<1>. DEFINE runnable == Cardinality(At("mutex"))
            notification == IF main = "notify" THEN 1 ELSE 0
<1>1. TypeOK /\ TypeOK' /\ Len(tasks) \in Nat /\ Len(tasks') \in Nat
  BY TypingKept DEF Inv, TypeOK
<1>2. runnable \in Nat /\ runnable' \in Nat
  <2>1. runnable \in Nat
    BY AtFinite
  <2>2. IsFiniteSet(At("mutex")') /\ runnable' \in Nat
    BY PoolAssumption, FS_Subset, FS_CardinalityType DEF At
  <2>. QED  BY <2>1, <2>2
<1>3. At("waiting") # {} => Len(tasks) <= runnable + notification
  BY DEF Inv, NoLostWakeup
<1>4. SUFFICES ASSUME At("waiting")' # {}
               PROVE  Len(tasks') <= runnable' + notification'
  BY DEF NoLostWakeup
<1>5. ASSUME UNCHANGED thread PROVE runnable' = runnable /\ At("waiting") # {}
  BY <1>4, <1>5 DEF At
<1>6. ASSUME NEW t \in Task, Push(t) PROVE Len(tasks') <= runnable' + notification'
  <2>1. Len(tasks') = Len(tasks) + 1 /\ notification = 0 /\ notification' = 1
    BY <1>6 DEF Push, Inv, TypeOK
  <2>2. UNCHANGED thread
    BY <1>6 DEF Push
  <2>. HIDE DEF runnable, notification
  <2>. QED  BY <1>1, <1>2, <1>3, <1>5, <2>1, <2>2
<1>7. CASE NotifyOne
  <2>1. tasks' = tasks /\ notification = 1 /\ notification' = 0
    BY <1>7 DEF NotifyOne
  <2>2. At("waiting") # {}
    BY <1>4, <1>7 DEF NotifyOne, WakesOne, At
  <2>3. PICK w \in At("waiting") : thread' = [thread EXCEPT ![w] = "mutex"]
    BY <1>7, <2>2 DEF NotifyOne, WakesOne
  <2>4. runnable' = runnable + 1
    BY <1>1, <2>3, OneMore DEF At
  <2>. HIDE DEF runnable, notification
  <2>. QED  BY <1>1, <1>2, <1>3, <2>1, <2>2, <2>4
<1>8. CASE Stop \/ Join
  <2>1. UNCHANGED <<tasks, thread>> /\ notification = 0 /\ notification' = 0
    BY <1>8 DEF Stop, Join
  <2>. HIDE DEF runnable, notification
  <2>. QED  BY <1>3, <1>5, <2>1
<1>9. CASE NotifyAll
  BY <1>1, <1>4, <1>9 DEF NotifyAll, WakesAll, At, TypeOK
<1>10. ASSUME NEW w \in Worker, Sleep(w) \/ ThreadReturn(w)
       PROVE  Len(tasks') <= runnable' + notification'
  <2>1. Len(tasks') = 0
    BY <1>10 DEF Sleep, ThreadReturn, MayReturn
  <2>2. notification' = 0 \/ notification' = 1
    OBVIOUS
  <2>. HIDE DEF runnable, notification
  <2>. QED  BY <1>1, <1>2, <2>1, <2>2
<1>11. ASSUME NEW w \in Worker, Pop(w)
       PROVE  Len(tasks') <= runnable' + notification'
  <2>1. Len(tasks') = Len(tasks) - 1 /\ notification' = notification /\ notification \in Nat
    BY <1>1, <1>11 DEF Pop, Popped, TypeOK
  <2>2. runnable' = runnable - 1
    BY <1>1, <1>11, OneLess DEF Pop
  <2>3. At("waiting") # {}
    BY <1>4, <1>11 DEF Pop, At
  <2>. HIDE DEF runnable, notification
  <2>. QED  BY <1>1, <1>2, <1>3, <2>1, <2>2, <2>3
<1>12. ASSUME NEW w \in Worker, Finish(w) \/ SpuriousWakeup(w)
       PROVE  Len(tasks') <= runnable' + notification'
  <2>1. tasks' = tasks /\ notification' = notification /\ notification \in Nat
    BY <1>12 DEF Finish, SpuriousWakeup
  <2>2. runnable' = runnable + 1
    BY <1>1, <1>12, OneMore DEF Finish, SpuriousWakeup
  <2>3. At("waiting") # {}
    BY <1>1, <1>4, <1>12 DEF Finish, SpuriousWakeup, At, TypeOK
  <2>. HIDE DEF runnable, notification
  <2>. QED  BY <1>1, <1>2, <1>3, <2>1, <2>2, <2>3
<1>13. CASE UNCHANGED poolVars
  <2>1. UNCHANGED <<tasks, thread>> /\ notification' = notification
    BY <1>13 DEF poolVars
  <2>. HIDE DEF runnable, notification
  <2>. QED  BY <1>3, <1>5, <2>1
<1>. QED
  BY <1>6, <1>7, <1>8, <1>9, <1>10, <1>11, <1>12, <1>13 DEF Next, MainStep, WorkerStep

-----------------------------------------------------------------------------
\* The inductive invariant of the pool.
THEOREM Invariance == Spec => []Inv
<1>1. Inv /\ [Next]_poolVars => Inv'
  BY TypingKept, PhasesKept, StopKept, WakeupsKept DEF Inv
<1>. QED  BY Initially, <1>1, PTL DEF Spec

\* No wake-up of Submit or of the destructor is lost, however many workers
\* sleep, run a task or are on their way to the mutex.
THEOREM WakeupsReach == Spec => []NoLostWakeup
BY Invariance, PTL DEF Inv

\* The destructor leaves no worker asleep and no worker leaves a task.
THEOREM StopDrains == Spec => []StopReachesAll
BY Invariance, PTL DEF Inv

-----------------------------------------------------------------------------
LEMMA QueueInit == Init => QueueOf!Init
BY DEF Init, QueueOf!Init

LEMMA QueueStep ==
  ASSUME Inv, [Next]_poolVars
  PROVE  [QueueOf!Next]_(QueueOf!queueVars)
<1>. USE DEF QueueOf!queueVars
<1>1. ASSUME NEW t \in Task, Push(t) PROVE QueueOf!Enqueue(t)
  BY <1>1 DEF Push, QueueOf!Enqueue
<1>2. ASSUME Stop PROVE QueueOf!Close
  BY <1>2 DEF Stop, QueueOf!Close
<1>3. ASSUME Join PROVE QueueOf!Destroy
  BY <1>3, PoolAssumption
     DEF Join, QueueOf!Destroy, Inv, Phases, StopReachesAll, At
<1>4. ASSUME NEW w \in Worker, Pop(w) PROVE QueueOf!Start(w)
  BY <1>4 DEF Pop, Popped, QueueOf!Start, Inv, Phases
<1>5. ASSUME NEW w \in Worker, Finish(w) PROVE QueueOf!Finish(w)
  BY <1>5 DEF Finish, QueueOf!Finish, Inv, Phases
<1>6. CASE NotifyOne \/ NotifyAll
  BY <1>6 DEF NotifyOne, NotifyAll
<1>7. ASSUME NEW w \in Worker, Sleep(w) \/ ThreadReturn(w) \/ SpuriousWakeup(w)
      PROVE  UNCHANGED QueueOf!queueVars
  BY <1>7 DEF Sleep, ThreadReturn, SpuriousWakeup
<1>8. CASE UNCHANGED poolVars
  BY <1>8 DEF poolVars
<1>. QED
  BY <1>1, <1>2, <1>3, <1>4, <1>5, <1>6, <1>7, <1>8
     DEF Next, MainStep, WorkerStep, QueueOf!Next

(***************************************************************************)
(* The pool implements TaskQueue: whatever the threads, the wake-ups and   *)
(* the mutex do, tasks start once each, in order, and before the end.      *)
(***************************************************************************)
THEOREM Refinement == Spec => ImplementsQueue
<1>. QED
  BY QueueInit, QueueStep, Invariance, PTL DEF Spec, ImplementsQueue, QueueOf!Spec

=============================================================================
