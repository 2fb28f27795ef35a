----------------------------- MODULE TaskQueue -----------------------------
(***************************************************************************)
(* What the thread pool promises its user, with no mutex, condition        *)
(* variable or wake-up: jobs start in the order they were submitted, each  *)
(* once and on a thread that has none, and the pool is gone only when it   *)
(* was closed and every job submitted before has finished.                 *)
(***************************************************************************)
EXTENDS Sequences

CONSTANTS Job, Worker,
          NoJob  \* "this worker has no job", not one of them

VARIABLES pending,  \* jobs nobody has started, oldest first
          running,  \* the job of each worker
          closed,   \* no job is submitted any more
          gone      \* the pool has been destroyed

queueVars == <<pending, running, closed, gone>>

Init ==
  /\ pending = <<>>
  /\ running = [w \in Worker |-> NoJob]
  /\ closed = FALSE
  /\ gone = FALSE

Enqueue(j) ==
  /\ ~closed
  /\ pending' = Append(pending, j)
  /\ UNCHANGED <<running, closed, gone>>

Start(w) ==
  /\ running[w] = NoJob
  /\ pending # <<>>
  /\ running' = [running EXCEPT ![w] = Head(pending)]
  /\ pending' = Tail(pending)
  /\ UNCHANGED <<closed, gone>>

Finish(w) ==
  /\ running[w] # NoJob
  /\ running' = [running EXCEPT ![w] = NoJob]
  /\ UNCHANGED <<pending, closed, gone>>

Close ==
  /\ ~closed
  /\ closed' = TRUE
  /\ UNCHANGED <<pending, running, gone>>

Destroy ==
  /\ closed
  /\ pending = <<>>
  /\ \A w \in Worker : running[w] = NoJob
  /\ gone' = TRUE
  /\ UNCHANGED <<pending, running, closed>>

Next ==
  \/ \E j \in Job : Enqueue(j)
  \/ \E w \in Worker : Start(w) \/ Finish(w)
  \/ Close
  \/ Destroy

Spec == Init /\ [][Next]_queueVars

=============================================================================
