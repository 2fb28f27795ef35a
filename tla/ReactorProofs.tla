--------------------------- MODULE ReactorProofs ---------------------------
(***************************************************************************)
(* Proofs about Reactor, for any number of clients, descriptors, threads,  *)
(* users and requests.                                                     *)
(***************************************************************************)
EXTENDS Reactor, ClientManagerProofs, TLAPS

-----------------------------------------------------------------------------
(* Typing.                                                                 *)

LEMMA InitTyped == Init => TypeOK
BY ReactorAssumption, ManagerAssumption
DEF Init, TypeOK, ManagerInit, ManagerTypeOK, MainSteps, WorkerSteps

\* Every way into a handler has a step and a number of messages.
LEMMA DispatchTyped ==
  ASSUME NEW r \in Requests, NEW plan \in Dispatch[r.type]
  PROVE  /\ plan[1] \in {"login", "logout", "find", "lookup", "enable"}
         /\ plan[2] \in Nat
         /\ plan[1] \in {"login", "find"} => plan[2] > 0
         /\ plan[1] \in {"login", "lookup"} => r.user \in User
         /\ plan[1] = "logout" <=> r.type = "LOGOUT"
<1>1. r.type \in DOMAIN Dispatch /\ (r.type \in Addressed => r.user \in User)
  BY ReactorAssumption DEF Addressed, Dispatch
<1>. QED  BY <1>1, ReactorAssumption DEF Dispatch, Addressed

\* The end of SendMessage keeps the counter of owed messages a natural number.
LEMMA AfterSendTyped ==
  ASSUME TypeOK, HandlerOK, NEW w \in Worker, AfterSend(w),
         pc[w] \in {"find", "send"}, intact' \in BOOLEAN
  PROVE  TypeOK'
<1>1. owed' \in [Worker -> Nat]
  <2>1. CASE target[w] = NoSock
    <3>1. owed[w] \in Nat /\ owed[w] > 0
      BY <2>1 DEF HandlerOK, TypeOK
    <3>2. owed' = [owed EXCEPT ![w] = owed[w] - 1]
      BY <2>1 DEF AfterSend, More
    <3>. QED  BY <3>1, <3>2 DEF TypeOK
  <2>2. CASE target[w] # NoSock
    BY <2>2 DEF AfterSend, More, TypeOK
  <2>. QED  BY <2>1, <2>2
<1>2. pc' \in [Worker -> WorkerSteps]
  BY DEF AfterSend, More, TypeOK, Goto, WorkerSteps
<1>. QED
  BY <1>1, <1>2 DEF AfterSend, More, TypeOK, ManagerTypeOK, kernelVars, mainVars, managerVars

\* A write to the table leaves a table, whatever a race does to it.
LEMMA WrittenTyped ==
  ASSUME sendMutexMap \in [Sock -> Conn \cup {NoConn}], intact \in BOOLEAN,
         NEW written \in [Sock -> Conn \cup {NoConn}], WrittenMap(written)
  PROVE  sendMutexMap' \in [Sock -> Conn \cup {NoConn}] /\ intact' \in BOOLEAN
<1>1. CASE MapRace
  <2>1. PICK lost \in SUBSET Sock, table \in {written, sendMutexMap} :
           sendMutexMap' = [s \in Sock |-> IF s \in lost THEN NoConn ELSE table[s]]
    BY <1>1 DEF WrittenMap
  <2>2. table \in [Sock -> Conn \cup {NoConn}]
    OBVIOUS
  <2>. QED  BY <2>1, <2>2 DEF WrittenMap
<1>2. CASE ~MapRace
  BY <1>2 DEF WrittenMap
<1>. QED  BY <1>1, <1>2

LEMMA TypedStep == TypeOK /\ HandlerOK /\ NeverOrphaned /\ [Next]_vars => TypeOK'
<1>. SUFFICES ASSUME TypeOK, HandlerOK, NeverOrphaned, [Next]_vars PROVE TypeOK'
  OBVIOUS
<1>. USE ReactorAssumption, ManagerAssumption DEF TypeOK, ManagerTypeOK
<1>1. CASE ClientStep
  <2>1. ASSUME NEW c \in Conn, ClientConnect(c) PROVE TypeOK'
    BY <2>1 DEF ClientConnect, mainVars, mapVars, workerVars, managerVars
  <2>2. ASSUME NEW c \in Conn, NEW r \in Requests, ClientSend(c, r) PROVE TypeOK'
    BY <2>2 DEF ClientSend, mainVars, mapVars, workerVars, managerVars
  <2>3. ASSUME NEW c \in Conn, ClientHangup(c) PROVE TypeOK'
    <3>1. CASE inbox' = inbox
      BY <2>3, <3>1 DEF ClientHangup, mainVars, mapVars, workerVars, managerVars
    <3>2. CASE inbox' = [inbox EXCEPT ![c] = <<>>]
      BY <2>3, <3>2 DEF ClientHangup, mainVars, mapVars, workerVars, managerVars
    <3>. QED  BY <2>3, <3>1, <3>2 DEF ClientHangup
  <2>. QED  BY <1>1, <2>1, <2>2, <2>3 DEF ClientStep
<1>2. CASE MainStep
  <2>. USE DEF MainSteps
  <2>1. CASE EpollWait
    BY <2>1 DEF EpollWait, Disarm, Ready, Armed, mapVars, workerVars, managerVars
  <2>2. ASSUME NEW s \in Sock, SubmitClient(s) PROVE TypeOK'
    BY <2>2 DEF SubmitClient, kernelVars, mapVars, workerVars, managerVars
  <2>3. CASE AcceptBegin
    BY <2>3 DEF AcceptBegin, kernelVars, mapVars, workerVars, managerVars
  <2>4. ASSUME NEW c \in Conn, NEW s \in Sock, Accept(c, s) PROVE TypeOK'
    BY <2>4 DEF Accept, mapVars, workerVars, managerVars
  <2>5. CASE EmplaceMutex
    <3>1. clientSock \in Sock
      BY <2>5 DEF EmplaceMutex, HandlerOK
    <3>2. sendMutexMap' \in [Sock -> Conn \cup {NoConn}] /\ intact' \in BOOLEAN
      BY <2>5, <3>1, WrittenTyped DEF EmplaceMutex
    <3>. QED  BY <2>5, <3>2 DEF EmplaceMutex, kernelVars, workerVars, managerVars
  <2>6. CASE EpollAdd
    BY <2>6 DEF EpollAdd, mapVars, workerVars, managerVars
  <2>7. CASE AcceptEnd
    BY <2>7 DEF AcceptEnd, kernelVars, mapVars, workerVars, managerVars
  <2>. QED  BY <1>2, <2>1, <2>2, <2>3, <2>4, <2>5, <2>6, <2>7 DEF MainStep
<1>3. CASE RaceKills
  BY <1>3 DEF RaceKills, kernelVars, mainVars, mapVars, workerVars, managerVars
<1>4. CASE UNCHANGED vars
  BY <1>4 DEF vars, kernelVars, mainVars, mapVars, workerVars, managerVars
<1>5. ASSUME NEW w \in Worker, WorkerStep(w) PROVE TypeOK'
  <2>. USE DEF WorkerSteps, Goto
  <2>0. pc[w] # "idle" => sock[w] \in Sock
    BY DEF HandlerOK
  <2>1. CASE Take(w)
    BY <2>1 DEF Take, kernelVars, mainVars, mapVars, managerVars
  <2>2. CASE RecvRequest(w)
    <3>. DEFINE c == conn[sock[w]]
    <3>1. c \in Conn
      BY <2>0, <2>2 DEF RecvRequest, NeverOrphaned, Handled, Handles
    <3>2. inbox[c] \in Seq(Requests) /\ inbox[c] # <<>>
      BY <2>2, <3>1 DEF RecvRequest
    <3>3. Head(inbox[c]) \in Requests /\ Tail(inbox[c]) \in Seq(Requests)
      BY <3>2
    <3>4. req' \in [Worker -> Requests \cup {NoRequest}] /\ inbox' \in [Conn -> Seq(Requests)]
      BY <2>2, <3>1, <3>3 DEF RecvRequest
    <3>5. PICK plan \in Dispatch[Head(inbox[c]).type] :
             Goto(w, plan[1]) /\ owed' = [owed EXCEPT ![w] = plan[2]]
      BY <2>2 DEF RecvRequest
    <3>6. plan[1] \in WorkerSteps /\ plan[2] \in Nat
      BY <3>3, DispatchTyped
    <3>7. pc' \in [Worker -> WorkerSteps] /\ owed' \in [Worker -> Nat]
      BY <3>5, <3>6
    <3>. QED  BY <2>2, <3>4, <3>7 DEF RecvRequest, mainVars, mapVars, managerVars
  <2>3. CASE RecvEnd(w)
    BY <2>3 DEF RecvNothing, RecvEnd, kernelVars, mainVars, mapVars, managerVars
  <2>4. CASE RecvAgain(w)
    BY <2>4 DEF RecvNothing, RecvAgain, kernelVars, mainVars, mapVars, managerVars
  <2>5. CASE HandleLogin(w)
    <3>1. sock[w] \in Sock /\ req[w].user \in User
      BY <2>0, <2>5 DEF HandleLogin, HandlerOK
    <3>2. ManagerTypeOK'
      BY <2>5, <3>1, LoginTyped DEF HandleLogin, managerVars
    <3>. HIDE DEF ManagerTypeOK
    <3>. QED  BY <2>5, <3>2 DEF HandleLogin, kernelVars, mainVars, mapVars
  <2>6. CASE Lookup(w)
    BY <2>6 DEF Lookup, HandlerOK, GetSocket, kernelVars, mainVars, mapVars, managerVars
  <2>7. CASE FindMutex(w)
    <3>1. Dest(w) \in Sock
      BY <2>0, <2>7 DEF FindMutex, Dest
    <3>. QED  BY <2>7, <3>1 DEF FindMutex, kernelVars, mainVars, managerVars
  <2>8. CASE MissMutex(w)
    BY <2>8, AfterSendTyped DEF MissMutex
  <2>9. CASE LockMutex(w)
    BY <2>9 DEF LockMutex, kernelVars, mainVars, mapVars, managerVars
  <2>10. CASE Send(w)
    BY <2>10, AfterSendTyped DEF Send
  <2>11. CASE SendKills(w)
    BY <2>11 DEF SendKills, kernelVars, mainVars, mapVars, workerVars, managerVars
  <2>12. CASE EnableRead(w)
    BY <2>12 DEF EnableRead, Rearm, Return, mainVars, mapVars, managerVars
  <2>13. CASE RemoveLogout(w)
    BY <2>13, <2>0 DEF RemoveLogout, Logout, WithoutSocket, kernelVars, mainVars, mapVars
  <2>14. CASE RemoveEpoll(w)
    BY <2>14 DEF RemoveEpoll, mainVars, mapVars, managerVars
  <2>15. CASE RemoveMutex(w)
    <3>1. sendMutexMap' \in [Sock -> Conn \cup {NoConn}] /\ intact' \in BOOLEAN
      BY <2>15, WrittenTyped DEF RemoveMutex
    <3>2. pc' \in [Worker -> WorkerSteps]
      BY <2>15 DEF RemoveMutex
    <3>. QED  BY <2>15, <3>1, <3>2 DEF RemoveMutex, kernelVars, mainVars, managerVars
  <2>16. CASE RemoveClose(w)
    BY <2>16 DEF RemoveClose, Return, mainVars, mapVars, managerVars
  <2>. QED
    BY <1>5, <2>1, <2>2, <2>3, <2>4, <2>5, <2>6, <2>7, <2>8, <2>9, <2>10, <2>11,
       <2>12, <2>13, <2>14, <2>15, <2>16 DEF WorkerStep
<1>. QED  BY <1>1, <1>2, <1>3, <1>4, <1>5 DEF Next
-----------------------------------------------------------------------------
(* One owner, no orphan.                                                   *)

\* Submitting a socket adds it to the queue.
LEMMA Submitted ==
  ASSUME tasks \in Seq(Sock), QueuedOnce, NEW s \in Sock, s \notin Queued,
         tasks' = Append(tasks, s)
  PROVE  QueuedOnce' /\ Queued' = Queued \cup {s}
<1>1. /\ DOMAIN tasks' = DOMAIN tasks \cup {Len(tasks) + 1}
      /\ tasks'[Len(tasks) + 1] = s
      /\ \A i \in DOMAIN tasks : tasks'[i] = tasks[i]
      /\ Len(tasks) + 1 \notin DOMAIN tasks
  OBVIOUS
<1>. QED  BY <1>1 DEF QueuedOnce, Queued

\* Taking the first socket takes it out of the queue.
LEMMA Taken ==
  ASSUME tasks \in Seq(Sock), tasks # <<>>, QueuedOnce, tasks' = Tail(tasks)
  PROVE  /\ QueuedOnce'
         /\ Head(tasks) \in Queued
         /\ Queued' = Queued \ {Head(tasks)}
<1>1. /\ Len(tasks) \in Nat \ {0}
      /\ DOMAIN tasks = 1..Len(tasks)
      /\ DOMAIN tasks' = 1..(Len(tasks) - 1)
      /\ Head(tasks) = tasks[1]
      /\ \A i \in 1..(Len(tasks) - 1) : tasks'[i] = tasks[i + 1]
  OBVIOUS
<1>2. QueuedOnce'
  <2>. SUFFICES ASSUME NEW i \in 1..(Len(tasks) - 1), NEW j \in 1..(Len(tasks) - 1),
                       tasks[i + 1] = tasks[j + 1]
                PROVE  i = j
    BY <1>1 DEF QueuedOnce
  <2>1. i + 1 \in DOMAIN tasks /\ j + 1 \in DOMAIN tasks
    BY <1>1
  <2>. QED  BY <2>1 DEF QueuedOnce
<1>3. ASSUME NEW s PROVE s \in Queued' <=> s \in Queued \ {Head(tasks)}
  <2>1. ASSUME NEW i \in DOMAIN tasks', s = tasks'[i] PROVE s \in Queued \ {Head(tasks)}
    <3>1. i + 1 \in DOMAIN tasks /\ tasks[i + 1] = s /\ i + 1 # 1 /\ 1 \in DOMAIN tasks
      BY <1>1, <2>1
    <3>. QED  BY <3>1, <1>1 DEF Queued, QueuedOnce
  <2>2. ASSUME NEW i \in DOMAIN tasks, s = tasks[i], s # Head(tasks) PROVE s \in Queued'
    <3>1. i - 1 \in DOMAIN tasks' /\ tasks'[i - 1] = s
      BY <1>1, <2>2
    <3>. QED  BY <3>1 DEF Queued
  <2>. QED  BY <2>1, <2>2 DEF Queued
<1>4. Head(tasks) \in Queued
  BY <1>1 DEF Queued
<1>. QED  BY <1>2, <1>3, <1>4

\* A step that moves no socket from one place to another.
LEMMA NothingMoves ==
  ASSUME OneOwner, NeverOrphaned,
         UNCHANGED <<conn, epoll, tasks>>,
         \A s \in Sock : /\ s \in batch' <=> s \in batch
                         /\ InSetup(s)' <=> InSetup(s)
                         /\ \A w \in Worker : Handles(w, s)' <=> Handles(w, s)
  PROVE  OneOwner' /\ NeverOrphaned'
<1>1. QueuedOnce' /\ Queued' = Queued
  BY DEF OneOwner, QueuedOnce, Queued
<1>2. \A s \in Sock : Handled(s)' <=> Handled(s)
  BY DEF Handled
<1>3. OneHandler'
  BY DEF OneOwner, OneHandler
<1>4. OnePlace'
  BY <1>1, <1>2 DEF OneOwner, OnePlace
<1>5. NeverOrphaned'
  BY <1>1, <1>2 DEF NeverOrphaned
<1>. QED  BY <1>1, <1>3, <1>4, <1>5 DEF OneOwner

\* The calls that leave the handler with its socket.
LEMMA InsideHandler ==
  ASSUME TypeOK, NeverOrphaned, HandlerOK, NEW w \in Worker,
         \/ RecvRequest(w) \/ RecvEnd(w) \/ RecvAgain(w) \/ HandleLogin(w)
         \/ Lookup(w) \/ FindMutex(w) \/ MissMutex(w) \/ LockMutex(w) \/ Send(w)
         \/ RemoveLogout(w) \/ RemoveMutex(w)
  PROVE  /\ UNCHANGED <<conn, epoll, tasks, batch, main, clientSock, sock>>
         /\ pc[w] # "idle"
         /\ \E step \in WorkerSteps \ {"idle"} : pc' = [pc EXCEPT ![w] = step]
<1>. USE DEF Goto, WorkerSteps, kernelVars, mainVars, workerVars
<1>1. CASE RecvRequest(w)
  <2>1. sock[w] \in Sock /\ conn[sock[w]] \in Conn
    BY <1>1 DEF RecvRequest, HandlerOK, TypeOK, NeverOrphaned, Handled, Handles
  <2>2. Head(inbox[conn[sock[w]]]) \in Requests
    BY <1>1, <2>1 DEF RecvRequest, TypeOK
  <2>3. PICK plan \in Dispatch[Head(inbox[conn[sock[w]]]).type] : Goto(w, plan[1])
    BY <1>1 DEF RecvRequest
  <2>4. plan[1] \in {"login", "logout", "find", "lookup", "enable"}
    BY <2>2, DispatchTyped
  <2>. QED  BY <1>1, <2>3, <2>4 DEF RecvRequest
<1>2. CASE RecvEnd(w) \/ RecvAgain(w)
  BY <1>2 DEF RecvNothing, RecvEnd, RecvAgain
<1>3. CASE HandleLogin(w)
  BY <1>3 DEF HandleLogin
<1>4. CASE Lookup(w)
  BY <1>4 DEF Lookup
<1>5. CASE FindMutex(w) \/ LockMutex(w)
  BY <1>5 DEF FindMutex, LockMutex
<1>6. CASE MissMutex(w) \/ Send(w)
  BY <1>6 DEF MissMutex, Send, AfterSend, More
<1>7. CASE RemoveLogout(w) \/ RemoveMutex(w)
  BY <1>7 DEF RemoveLogout, RemoveMutex
<1>. QED  BY <1>1, <1>2, <1>3, <1>4, <1>5, <1>6, <1>7

LEMMA OwnerStep ==
  TypeOK /\ HandlerOK /\ OneOwner /\ NeverOrphaned /\ [Next]_vars
    => OneOwner' /\ NeverOrphaned'
<1>. SUFFICES ASSUME TypeOK, HandlerOK, OneOwner, NeverOrphaned, [Next]_vars
              PROVE  OneOwner' /\ NeverOrphaned'
  OBVIOUS
<1>. USE ReactorAssumption, ManagerAssumption
<1>1. CASE ClientStep
  BY <1>1, NothingMoves
  DEF ClientStep, ClientConnect, ClientSend, ClientHangup, InSetup, Handles,
      mainVars, mapVars, workerVars, managerVars
<1>2. CASE EpollWait
  <2>1. /\ batch = {} /\ batch' \ {Listen} \subseteq Armed
        /\ epoll' = [s \in Sock |-> IF s \in batch' THEN "disarmed" ELSE epoll[s]]
    BY <1>2 DEF EpollWait, Disarm, Ready
  <2>2. /\ UNCHANGED <<conn, tasks, main, clientSock, pc, sock>>
        /\ Queued' = Queued
    BY <1>2 DEF EpollWait, Disarm, Queued, workerVars
  <2>3. \A s \in Sock : (InSetup(s)' <=> InSetup(s)) /\ (Handled(s)' <=> Handled(s))
    BY <2>2 DEF InSetup, Handled, Handles
  <2>4. QueuedOnce' /\ OneHandler'
    BY <2>2 DEF OneOwner, QueuedOnce, OneHandler, Handles
  <2>5. \A s \in Sock : s \in batch' => epoll[s] = "armed"
    BY <2>1 DEF Armed
  <2>6. OnePlace'
    BY <2>1, <2>2, <2>3, <2>5 DEF OneOwner, OnePlace
  <2>7. NeverOrphaned'
    BY <2>1, <2>2, <2>3, <2>5 DEF NeverOrphaned
  <2>. QED  BY <2>4, <2>6, <2>7 DEF OneOwner
<1>3. ASSUME NEW s \in Sock, SubmitClient(s) PROVE OneOwner' /\ NeverOrphaned'
  <2>1. /\ s \in batch /\ batch' = batch \ {s} /\ tasks' = Append(tasks, s)
        /\ UNCHANGED <<conn, epoll, main, clientSock, pc, sock>>
    BY <1>3 DEF SubmitClient, kernelVars, workerVars
  <2>2. s \notin Queued
    BY <2>1 DEF OneOwner, OnePlace
  <2>3. QueuedOnce' /\ Queued' = Queued \cup {s}
    BY <2>1, <2>2, Submitted DEF TypeOK, OneOwner
  <2>4. \A x \in Sock : (InSetup(x)' <=> InSetup(x)) /\ (Handled(x)' <=> Handled(x))
    BY <2>1 DEF InSetup, Handled, Handles
  <2>5. OneHandler'
    BY <2>1 DEF OneOwner, OneHandler, Handles
  <2>6. OnePlace'
    BY <2>1, <2>3, <2>4 DEF OneOwner, OnePlace
  <2>7. NeverOrphaned'
    BY <2>1, <2>3, <2>4 DEF NeverOrphaned
  <2>. QED  BY <2>3, <2>5, <2>6, <2>7 DEF OneOwner
<1>4. CASE AcceptBegin
  BY <1>4, NothingMoves DEF AcceptBegin, InSetup, Handles, kernelVars, workerVars
<1>5. ASSUME NEW c \in Conn, NEW s \in Sock, Accept(c, s) PROVE OneOwner' /\ NeverOrphaned'
  <2>1. /\ conn[s] = NoConn /\ conn' = [conn EXCEPT ![s] = c]
        /\ main = "accept" /\ main' = "emplace" /\ clientSock' = s
        /\ UNCHANGED <<epoll, batch, tasks, pc, sock>>
    BY <1>5 DEF Accept, workerVars
  <2>2. epoll[s] # "armed" /\ s \notin batch \cup Queued /\ ~Handled(s)
    BY <2>1 DEF NeverOrphaned
  <2>3. QueuedOnce' /\ Queued' = Queued /\ OneHandler'
    BY <2>1 DEF OneOwner, QueuedOnce, Queued, OneHandler, Handles
  <2>4. \A x \in Sock : /\ Handled(x)' <=> Handled(x)
                        /\ InSetup(x)' <=> x = s
                        /\ ~InSetup(x)
    BY <2>1 DEF InSetup, Handled, Handles
  <2>5. OnePlace'
    BY <2>1, <2>2, <2>3, <2>4 DEF OneOwner, OnePlace
  <2>6. \A x \in Sock : conn'[x] # NoConn <=> conn[x] # NoConn \/ x = s
    BY <2>1 DEF TypeOK
  <2>7. NeverOrphaned'
    BY <2>1, <2>3, <2>4, <2>6 DEF NeverOrphaned
  <2>. QED  BY <2>3, <2>5, <2>7 DEF OneOwner
<1>6. CASE EmplaceMutex
  BY <1>6, NothingMoves DEF EmplaceMutex, InSetup, Handles, kernelVars, workerVars
<1>7. CASE EpollAdd
  <2>. DEFINE s == clientSock
  <2>1. /\ main = "add" /\ main' = "accept" /\ s \in Sock
        /\ epoll' = [epoll EXCEPT ![s] = "armed"]
        /\ UNCHANGED <<conn, batch, tasks, pc, sock>>
    BY <1>7 DEF EpollAdd, HandlerOK, TypeOK, workerVars
  <2>2. InSetup(s)
    BY <2>1 DEF InSetup
  <2>3. s \notin Queued \cup batch /\ ~Handled(s)
    BY <2>1, <2>2 DEF OneOwner, OnePlace
  <2>4. QueuedOnce' /\ Queued' = Queued /\ OneHandler'
    BY <2>1 DEF OneOwner, QueuedOnce, Queued, OneHandler, Handles
  <2>5. \A x \in Sock : /\ Handled(x)' <=> Handled(x)
                        /\ InSetup(x) <=> x = s
                        /\ ~InSetup(x)'
                        /\ epoll'[x] = "armed" <=> epoll[x] = "armed" \/ x = s
    BY <2>1 DEF InSetup, Handled, Handles, TypeOK
  <2>. HIDE DEF s
  <2>6. OnePlace'
    BY <2>1, <2>3, <2>4, <2>5 DEF OneOwner, OnePlace
  <2>7. NeverOrphaned'
    BY <2>1, <2>4, <2>5 DEF NeverOrphaned
  <2>. QED  BY <2>4, <2>6, <2>7 DEF OneOwner
<1>8. CASE AcceptEnd
  BY <1>8, NothingMoves DEF AcceptEnd, InSetup, Handles, kernelVars, workerVars
<1>9. CASE RaceKills
  BY <1>9, NothingMoves DEF RaceKills, InSetup, Handles, kernelVars, mainVars, workerVars
<1>10. CASE UNCHANGED vars
  BY <1>10, NothingMoves DEF vars, InSetup, Handles, kernelVars, mainVars, workerVars
<1>11. ASSUME NEW w \in Worker, WorkerStep(w) PROVE OneOwner' /\ NeverOrphaned'
  <2>1. CASE Take(w)
    <3>. DEFINE s == Head(tasks)
    <3>1. /\ pc[w] = "idle" /\ tasks # <<>> /\ tasks' = Tail(tasks)
          /\ sock' = [sock EXCEPT ![w] = s] /\ pc' = [pc EXCEPT ![w] = "recv"]
          /\ UNCHANGED <<conn, epoll, batch, main, clientSock>>
      BY <2>1 DEF Take, Goto, kernelVars, mainVars
    <3>2. s \in Sock /\ s \in Queued /\ QueuedOnce' /\ Queued' = Queued \ {s}
      BY <3>1, Taken DEF TypeOK, OneOwner
    <3>. HIDE DEF s
    <3>3. ~Handled(s) /\ ~InSetup(s) /\ epoll[s] # "armed" /\ s \notin batch
      BY <3>2 DEF OneOwner, OnePlace
    <3>4. \A v \in Worker, x \in Sock :
             Handles(v, x)' <=> IF v = w THEN x = s ELSE Handles(v, x)
      BY <3>1 DEF Handles, TypeOK
    <3>5. \A x \in Sock : /\ Handled(x)' <=> Handled(x) \/ x = s
                          /\ InSetup(x)' <=> InSetup(x)
      BY <3>1, <3>4 DEF Handled, InSetup, Handles
    <3>6. OneHandler'
      BY <3>3, <3>4 DEF OneOwner, OneHandler, Handled
    <3>7. OnePlace'
      BY <3>1, <3>2, <3>3, <3>5 DEF OneOwner, OnePlace
    <3>8. NeverOrphaned'
      BY <3>1, <3>2, <3>5 DEF NeverOrphaned
    <3>. QED  BY <3>2, <3>6, <3>7, <3>8 DEF OneOwner
  <2>2. CASE \/ RecvRequest(w) \/ RecvEnd(w) \/ RecvAgain(w) \/ HandleLogin(w)
             \/ Lookup(w) \/ FindMutex(w) \/ MissMutex(w) \/ LockMutex(w) \/ Send(w)
             \/ RemoveLogout(w) \/ RemoveMutex(w)
    <3>1. /\ UNCHANGED <<conn, epoll, tasks, batch, main, clientSock, sock>>
          /\ pc[w] # "idle"
          /\ \E step \in WorkerSteps \ {"idle"} : pc' = [pc EXCEPT ![w] = step]
      BY <2>2, InsideHandler
    <3>2. \A s \in Sock, v \in Worker : Handles(v, s)' <=> Handles(v, s)
      BY <3>1 DEF Handles, TypeOK
    <3>. QED  BY <3>1, <3>2, NothingMoves DEF InSetup
  <2>3. CASE SendKills(w)
    BY <2>3, NothingMoves DEF SendKills, InSetup, Handles, kernelVars, mainVars, workerVars
  <2>. DEFINE s == sock[w]
  <2>4. ASSUME pc[w] # "idle"
        PROVE  /\ s \in Sock /\ Handles(w, s) /\ Handled(s)
               /\ s \notin Queued \cup batch /\ ~InSetup(s)
    BY <2>4 DEF HandlerOK, TypeOK, Handles, Handled, OneOwner, OnePlace
  <2>5. ASSUME Return(w), pc[w] # "idle"
        PROVE  /\ \A v \in Worker, x \in Sock : Handles(v, x)' <=> v # w /\ Handles(v, x)
               /\ \A x \in Sock : Handled(x)' <=> Handled(x) /\ x # s
               /\ OneHandler'
    <3>1. \A v \in Worker, x \in Sock : Handles(v, x)' <=> v # w /\ Handles(v, x)
      BY <2>5 DEF Return, Goto, Handles, TypeOK
    <3>2. \A x \in Sock : Handled(x)' <=> Handled(x) /\ x # s
      BY <2>4, <2>5, <3>1 DEF Handled, OneOwner, OneHandler, Handles
    <3>. QED  BY <3>1, <3>2 DEF OneOwner, OneHandler
  <2>6. CASE EnableRead(w)
    <3>1. /\ pc[w] # "idle" /\ Return(w) /\ epoll' = [epoll EXCEPT ![s] = "armed"]
          /\ UNCHANGED <<conn, tasks, batch, main, clientSock>>
      BY <2>6 DEF EnableRead, Rearm, mainVars
    <3>2. \A x \in Sock : /\ epoll'[x] = "armed" <=> epoll[x] = "armed" \/ x = s
                          /\ InSetup(x)' <=> InSetup(x)
      BY <3>1, <2>4 DEF TypeOK, InSetup
    <3>3. QueuedOnce' /\ Queued' = Queued
      BY <3>1 DEF OneOwner, QueuedOnce, Queued
    <3>. HIDE DEF s
    <3>4. OnePlace'
      BY <2>4, <2>5, <3>1, <3>2, <3>3 DEF OneOwner, OnePlace
    <3>5. NeverOrphaned'
      BY <2>4, <2>5, <3>1, <3>2, <3>3 DEF NeverOrphaned
    <3>. QED  BY <2>5, <3>1, <3>3, <3>4, <3>5 DEF OneOwner
  <2>7. CASE RemoveEpoll(w)
    <3>1. /\ pc[w] # "idle" /\ pc' = [pc EXCEPT ![w] = "erase"]
          /\ epoll' = [epoll EXCEPT ![s] = "absent"]
          /\ UNCHANGED <<conn, tasks, batch, main, clientSock, sock>>
      BY <2>7 DEF RemoveEpoll, Goto, mainVars
    <3>2. \A x \in Sock, v \in Worker : Handles(v, x)' <=> Handles(v, x)
      BY <3>1 DEF Handles, TypeOK
    <3>3. \A x \in Sock : /\ epoll'[x] = "armed" <=> epoll[x] = "armed" /\ x # s
                          /\ InSetup(x)' <=> InSetup(x)
                          /\ Handled(x)' <=> Handled(x)
      BY <3>1, <3>2, <2>4 DEF TypeOK, InSetup, Handled
    <3>4. QueuedOnce' /\ Queued' = Queued /\ OneHandler'
      BY <3>1, <3>2 DEF OneOwner, QueuedOnce, Queued, OneHandler
    <3>. HIDE DEF s
    <3>5. OnePlace'
      BY <3>1, <3>3, <3>4 DEF OneOwner, OnePlace
    <3>6. NeverOrphaned'
      BY <2>4, <3>1, <3>3, <3>4 DEF NeverOrphaned
    <3>. QED  BY <3>4, <3>5, <3>6 DEF OneOwner
  <2>8. CASE RemoveClose(w)
    <3>1. /\ pc[w] # "idle" /\ Return(w) /\ conn' = [conn EXCEPT ![s] = NoConn]
          /\ UNCHANGED <<epoll, tasks, batch, main, clientSock>>
      BY <2>8 DEF RemoveClose, mainVars
    <3>2. \A x \in Sock : /\ conn'[x] # NoConn <=> conn[x] # NoConn /\ x # s
                          /\ InSetup(x)' <=> InSetup(x)
      BY <3>1, <2>4 DEF TypeOK, InSetup
    <3>3. QueuedOnce' /\ Queued' = Queued
      BY <3>1 DEF OneOwner, QueuedOnce, Queued
    <3>4. epoll[s] # "armed"
      BY <2>4, <3>1 DEF OneOwner, OnePlace
    <3>. HIDE DEF s
    <3>5. OnePlace'
      BY <2>4, <2>5, <3>1, <3>2, <3>3 DEF OneOwner, OnePlace
    <3>6. NeverOrphaned'
      BY <2>4, <2>5, <3>1, <3>2, <3>3, <3>4 DEF NeverOrphaned
    <3>. QED  BY <2>5, <3>1, <3>3, <3>5, <3>6 DEF OneOwner
  <2>. QED  BY <1>11, <2>1, <2>2, <2>3, <2>6, <2>7, <2>8 DEF WorkerStep
<1>. QED
  BY <1>1, <1>2, <1>3, <1>4, <1>5, <1>6, <1>7, <1>8, <1>9, <1>10, <1>11 DEF Next, MainStep

-----------------------------------------------------------------------------
(* Handlers, sessions, the registry and the send mutexes.                  *)

\* Only a login and a logout touch the registry, on the worker's own socket.
LEMMA RegistryStep ==
  ASSUME TypeOK, HandlerOK, RegistryInverse, [Next]_vars
  PROVE  /\ RegistryInverse'
         /\ \A s \in Sock :
              \/ socketUsers'[s] = socketUsers[s]
              \/ \E w \in Worker : /\ sock[w] = s /\ pc[w] \in {"login", "logout"}
                                   /\ HandleLogin(w) \/ RemoveLogout(w)
<1>1. ASSUME NEW w \in Worker, HandleLogin(w) \/ RemoveLogout(w), ~UNCHANGED managerVars
      PROVE  /\ RegistryInverse'
             /\ sock[w] \in Sock /\ pc[w] \in {"login", "logout"}
             /\ \A s \in Sock \ {sock[w]} : socketUsers'[s] = socketUsers[s]
  <2>1. /\ sock[w] \in Sock /\ ManagerTypeOK
        /\ pc[w] \in {"login", "logout"}
        /\ HandleLogin(w) => req[w].user \in User
    BY <1>1 DEF HandleLogin, RemoveLogout, HandlerOK, TypeOK
  <2>2. CASE HandleLogin(w)
    BY <1>1, <2>1, <2>2, AcceptedKeepsInverse, UnboundKeepsInverse
    DEF HandleLogin, LoginRefused, managerVars
  <2>3. CASE RemoveLogout(w)
    BY <2>1, <2>3, UnboundKeepsInverse DEF RemoveLogout, Logout
  <2>. QED  BY <1>1, <2>1, <2>2, <2>3
<1>2. CASE UNCHANGED managerVars
  BY <1>2 DEF RegistryInverse, managerVars
<1>3. CASE \E w \in Worker : HandleLogin(w) \/ RemoveLogout(w)
  BY <1>1, <1>2, <1>3
<1>4. UNCHANGED managerVars \/ \E w \in Worker : HandleLogin(w) \/ RemoveLogout(w)
  BY DEF Next, ClientStep, MainStep, WorkerStep, vars,
         ClientConnect, ClientSend, ClientHangup,
         EpollWait, Disarm, SubmitClient, AcceptBegin, Accept, EmplaceMutex, EpollAdd, AcceptEnd,
         RaceKills, Take, RecvRequest, RecvNothing, RecvEnd, RecvAgain, Lookup, FindMutex, MissMutex,
         LockMutex, Send, SendKills, AfterSend, More, EnableRead, Rearm, RemoveEpoll, RemoveMutex,
         RemoveClose
<1>. QED  BY <1>2, <1>3, <1>4

\* The variables of the main thread change in its own steps only.
LEMMA MainOnly ==
  ASSUME [Next]_vars
  PROVE  \/ UNCHANGED <<main, clientSock>>
         \/ MainStep
BY DEF Next, ClientStep, WorkerStep, vars, mainVars,
       ClientConnect, ClientSend, ClientHangup,
       RaceKills, Take, RecvRequest, RecvNothing, RecvEnd, RecvAgain, HandleLogin, Lookup, FindMutex,
       MissMutex, LockMutex, Send, SendKills, AfterSend, More, EnableRead, Rearm, RemoveLogout,
       RemoveEpoll, RemoveMutex, RemoveClose

\* The locals of a handler change in its own steps only.
LEMMA LocalsOnly ==
  ASSUME TypeOK, [Next]_vars, NEW v \in Worker
  PROVE  \/ UNCHANGED <<pc[v], sock[v], req[v], owed[v], target[v], mtx[v]>>
         \/ WorkerStep(v)
<1>1. ASSUME NEW w \in Worker \ {v}, WorkerStep(w)
      PROVE  UNCHANGED <<pc[v], sock[v], req[v], owed[v], target[v], mtx[v]>>
  BY <1>1 DEF WorkerStep, workerVars, TypeOK, Goto, Return, AfterSend, More,
       Take, RecvRequest, RecvNothing, RecvEnd, RecvAgain, HandleLogin, Lookup, FindMutex,
       MissMutex, LockMutex, Send, SendKills, EnableRead, Rearm, RemoveLogout,
       RemoveEpoll, RemoveMutex, RemoveClose
<1>2. CASE ~\E w \in Worker : WorkerStep(w)
  BY <1>2 DEF Next, ClientStep, MainStep, vars, workerVars,
       ClientConnect, ClientSend, ClientHangup,
       EpollWait, Disarm, SubmitClient, AcceptBegin, Accept, EmplaceMutex, EpollAdd, AcceptEnd,
       RaceKills
<1>. QED  BY <1>1, <1>2

\* RemoveConnection is entered through its first line.
LEMMA RemovingOnly ==
  ASSUME TypeOK, HandlerOK, NeverOrphaned, [Next]_vars, NEW v \in Worker, ~RemoveLogout(v),
         pc'[v] \in {"del", "erase", "close"}
  PROVE  pc[v] \in {"del", "erase", "close"} /\ sock'[v] = sock[v]
<1>1. CASE UNCHANGED <<pc[v], sock[v]>>
  BY <1>1
<1>2. CASE RecvRequest(v)
  <2>1. Head(inbox[conn[sock[v]]]) \in Requests
    BY <1>2 DEF RecvRequest, HandlerOK, TypeOK, NeverOrphaned, Handled, Handles
  <2>2. PICK plan \in Dispatch[Head(inbox[conn[sock[v]]]).type] : Goto(v, plan[1])
    BY <1>2 DEF RecvRequest
  <2>3. plan[1] \in {"login", "logout", "find", "lookup", "enable"}
    BY <2>1, <2>2, DispatchTyped
  <2>. QED  BY <2>2, <2>3 DEF Goto, TypeOK
<1>3. CASE RemoveEpoll(v) \/ RemoveMutex(v) \/ SendKills(v)
  BY <1>3 DEF RemoveEpoll, RemoveMutex, SendKills, workerVars, Goto, TypeOK
<1>4. CASE MissMutex(v) \/ Send(v)
  BY <1>4 DEF MissMutex, Send, AfterSend, More, Goto, TypeOK
<1>5. CASE \/ Take(v) \/ RecvEnd(v) \/ RecvAgain(v) \/ HandleLogin(v) \/ Lookup(v)
           \/ FindMutex(v) \/ LockMutex(v) \/ EnableRead(v) \/ RemoveClose(v)
  BY <1>5 DEF Take, RecvNothing, RecvEnd, RecvAgain, HandleLogin, Lookup, FindMutex, LockMutex,
              EnableRead, Rearm, RemoveClose, Return, Goto, TypeOK
<1>. QED  BY <1>1, <1>2, <1>3, <1>4, <1>5, LocalsOnly DEF WorkerStep

LEMMA HandlerStep ==
  TypeOK /\ HandlerOK /\ OneOwner /\ NeverOrphaned /\ RegistryInverse /\ [Next]_vars
    => HandlerOK'
<1>. SUFFICES ASSUME TypeOK, HandlerOK, OneOwner, NeverOrphaned, RegistryInverse, [Next]_vars
              PROVE  HandlerOK'
  OBVIOUS
<1>. USE ManagerAssumption, ReactorAssumption
<1>. DEFINE Main == main \in {"emplace", "add"} <=> clientSock # NoSock
            Local(v) ==
              /\ pc[v] = "idle" <=> sock[v] = NoSock
              /\ pc[v] \in {"login", "find", "lock", "send", "lookup"} => req[v] # NoRequest
              /\ pc[v] \in {"login", "lookup"} => req[v].user \in User /\ target[v] = NoSock
              /\ pc[v] = "login" => owed[v] > 0
              /\ pc[v] \in {"idle", "recv"} => req[v] = NoRequest /\ target[v] = NoSock
              /\ pc[v] \in {"find", "lock", "send"} /\ target[v] = NoSock => owed[v] > 0
              /\ pc[v] \in {"lock", "send"} => mtx[v] # NoConn
            Out(v) == pc[v] \in {"del", "erase", "close"} => socketUsers[sock[v]] = NoUser
<1>0. HandlerOK = (Main /\ \A v \in Worker : Local(v) /\ Out(v))
  BY DEF HandlerOK
<1>1. Main'
  <2>1. CASE UNCHANGED <<main, clientSock>>
    BY <1>0, <2>1
  <2>2. CASE MainStep
    <3>1. CASE EpollWait \/ (\E s \in Sock : SubmitClient(s)) \/ AcceptBegin \/ AcceptEnd
      BY <1>0, <3>1 DEF EpollWait, Disarm, SubmitClient, AcceptBegin, AcceptEnd
    <3>2. CASE \E c \in Conn, s \in Sock : Accept(c, s)
      BY <3>2 DEF Accept
    <3>3. CASE EmplaceMutex \/ EpollAdd
      BY <1>0, <3>3 DEF EmplaceMutex, EpollAdd
    <3>. QED  BY <2>2, <3>1, <3>2, <3>3 DEF MainStep
  <2>. QED  BY <2>1, <2>2, MainOnly
<1>2. ASSUME NEW v \in Worker PROVE Local(v)'
  <2>1. CASE UNCHANGED <<pc[v], sock[v], req[v], owed[v], target[v], mtx[v]>>
    BY <1>0, <2>1
  <2>2. CASE Take(v)
    <3>1. Head(tasks) \in Sock
      BY <2>2 DEF Take, TypeOK
    <3>. QED  BY <1>0, <2>2, <3>1 DEF Take, Goto, TypeOK
  <2>3. CASE RecvRequest(v)
    <3>. DEFINE r == Head(inbox[conn[sock[v]]])
    <3>1. sock[v] \in Sock /\ conn[sock[v]] \in Conn
      BY <2>3 DEF RecvRequest, HandlerOK, TypeOK, NeverOrphaned, Handled, Handles
    <3>2. r \in Requests
      BY <2>3, <3>1 DEF RecvRequest, TypeOK
    <3>3. PICK plan \in Dispatch[r.type] :
             Goto(v, plan[1]) /\ owed' = [owed EXCEPT ![v] = plan[2]]
      BY <2>3 DEF RecvRequest
    <3>4. /\ req'[v] = r /\ target'[v] = NoSock /\ sock'[v] # NoSock
          /\ pc'[v] = plan[1] /\ owed'[v] = plan[2]
      BY <1>0, <2>3, <3>3 DEF RecvRequest, Goto, TypeOK
    <3>. HIDE DEF r
    <3>5. /\ plan[1] \in {"login", "logout", "find", "lookup", "enable"}
          /\ plan[1] \in {"login", "find"} => plan[2] > 0
          /\ plan[1] \in {"login", "lookup"} => r.user \in User
      BY <3>2, <3>3, DispatchTyped
    <3>. QED  BY <3>2, <3>4, <3>5
  <2>4. CASE RecvEnd(v) \/ RecvAgain(v)
    BY <1>0, <2>4 DEF RecvNothing, RecvEnd, RecvAgain, Goto, TypeOK
  <2>5. CASE HandleLogin(v)
    BY <1>0, <2>5 DEF HandleLogin, Goto, TypeOK
  <2>6. CASE Lookup(v)
    BY <1>0, <2>6 DEF Lookup, Goto, TypeOK
  <2>7. CASE FindMutex(v)
    BY <1>0, <2>7 DEF FindMutex, Goto, TypeOK
  <2>8. CASE MissMutex(v) \/ Send(v)
    <3>1. /\ AfterSend(v) /\ pc[v] \in {"find", "send"}
          /\ req'[v] = req[v] /\ target'[v] = target[v] /\ sock'[v] = sock[v]
      BY <2>8 DEF MissMutex, Send, AfterSend, More
    <3>2. CASE target[v] # NoSock
      BY <1>0, <3>1, <3>2 DEF AfterSend, More, Goto, TypeOK
    <3>3. CASE target[v] = NoSock /\ owed[v] > 1
      <4>1. pc'[v] = "find"
        BY <3>1, <3>3 DEF AfterSend, More, Goto, TypeOK
      <4>2. owed'[v] = owed[v] - 1 /\ owed[v] \in Nat
        BY <3>1, <3>3 DEF AfterSend, More, TypeOK
      <4>3. owed'[v] > 0
        BY <3>3, <4>2
      <4>. QED  BY <1>0, <3>1, <4>1, <4>3
    <3>4. CASE target[v] = NoSock /\ ~(owed[v] > 1)
      <4>1. \/ pc'[v] = "enable"
            \/ pc'[v] = "lookup" /\ req[v].type = "ADD_FRIEND"
        BY <3>1, <3>4 DEF AfterSend, More, Goto, TypeOK
      <4>2. req[v].type = "ADD_FRIEND" => req[v].user \in User
        BY <1>0, <3>1 DEF TypeOK, Addressed
      <4>. QED  BY <1>0, <3>1, <3>4, <4>1, <4>2
    <3>. QED  BY <3>2, <3>3, <3>4
  <2>9. CASE LockMutex(v)
    BY <1>0, <2>9 DEF LockMutex, Goto, TypeOK
  <2>10. CASE SendKills(v)
    BY <1>0, <2>10 DEF SendKills, workerVars
  <2>11. CASE EnableRead(v) \/ RemoveClose(v)
    BY <1>0, <2>11 DEF EnableRead, Rearm, RemoveClose, Return, Goto, TypeOK
  <2>12. CASE RemoveLogout(v) \/ RemoveEpoll(v) \/ RemoveMutex(v)
    BY <1>0, <2>12 DEF RemoveLogout, RemoveEpoll, RemoveMutex, Goto, TypeOK
  <2>. QED
    BY <2>1, <2>2, <2>3, <2>4, <2>5, <2>6, <2>7, <2>8, <2>9, <2>10, <2>11, <2>12,
       LocalsOnly DEF WorkerStep
<1>3. ASSUME NEW v \in Worker, pc'[v] \in {"del", "erase", "close"}
      PROVE  socketUsers'[sock'[v]] = NoUser
  <2>1. CASE RemoveLogout(v)
    BY <1>0, <2>1 DEF RemoveLogout, Logout, TypeOK, ManagerTypeOK
  <2>2. CASE ~RemoveLogout(v)
    <3>1. /\ pc[v] \in {"del", "erase", "close"} /\ sock'[v] = sock[v]
          /\ sock[v] \in Sock /\ Handles(v, sock[v])
      BY <1>0, <1>3, <2>2, RemovingOnly DEF TypeOK, Handles
    <3>2. \A w \in Worker : sock[w] = sock[v] /\ pc[w] # "idle" => w = v
      BY <3>1 DEF OneOwner, OneHandler, Handles
    <3>3. socketUsers'[sock[v]] = socketUsers[sock[v]]
      BY <3>1, <3>2, RegistryStep
    <3>. QED  BY <1>0, <3>1, <3>3
  <2>. QED  BY <2>1, <2>2
<1>. QED  BY <1>1, <1>2, <1>3 DEF HandlerOK

\* A descriptor comes to be free or new only by accept() and close().
LEMMA SetupOnly ==
  ASSUME TypeOK, HandlerOK, [Next]_vars, NEW s \in Sock,
         ~\E w \in Worker : RemoveClose(w) /\ sock[w] = s,
         (conn[s] = NoConn \/ InSetup(s))'
  PROVE  conn[s] = NoConn \/ InSetup(s)
<1>1. CASE MainStep
  <2>1. CASE EpollWait \/ (\E x \in Sock : SubmitClient(x)) \/ AcceptBegin \/ AcceptEnd
    BY <2>1 DEF EpollWait, Disarm, SubmitClient, AcceptBegin, AcceptEnd, InSetup, kernelVars
  <2>2. CASE \E c \in Conn, x \in Sock : Accept(c, x)
    BY <2>2, ReactorAssumption DEF Accept, InSetup, TypeOK
  <2>3. CASE EmplaceMutex \/ EpollAdd
    BY <2>3 DEF EmplaceMutex, EpollAdd, InSetup, kernelVars
  <2>. QED  BY <1>1, <2>1, <2>2, <2>3 DEF MainStep
<1>2. CASE \E w \in Worker : RemoveClose(w)
  BY <1>2, MainOnly DEF RemoveClose, InSetup, TypeOK, mainVars
<1>3. CASE ~MainStep /\ ~\E w \in Worker : RemoveClose(w)
  <2>1. UNCHANGED <<main, clientSock>>
    BY <1>3, MainOnly
  <2>2. UNCHANGED conn
    BY <1>3 DEF Next, ClientStep, WorkerStep, vars, kernelVars,
       ClientConnect, ClientSend, ClientHangup,
       RaceKills, Take, RecvRequest, RecvNothing, RecvEnd, RecvAgain, HandleLogin, Lookup, FindMutex,
       MissMutex, LockMutex, Send, SendKills, AfterSend, More, EnableRead, Rearm, RemoveLogout,
       RemoveEpoll, RemoveMutex
  <2>. QED  BY <2>1, <2>2 DEF InSetup
<1>. QED  BY <1>1, <1>2, <1>3

\* A handler comes to a lock through find.
LEMMA LockedOnly ==
  ASSUME TypeOK, HandlerOK, NeverOrphaned, [Next]_vars, NEW v \in Worker, ~FindMutex(v),
         pc'[v] \in {"lock", "send"}
  PROVE  /\ pc[v] \in {"lock", "send"}
         /\ UNCHANGED <<sock[v], target[v], mtx[v]>>
<1>1. CASE UNCHANGED <<pc[v], sock[v], target[v], mtx[v]>>
  BY <1>1
<1>2. CASE RecvRequest(v)
  <2>1. Head(inbox[conn[sock[v]]]) \in Requests
    BY <1>2 DEF RecvRequest, HandlerOK, TypeOK, NeverOrphaned, Handled, Handles
  <2>2. PICK plan \in Dispatch[Head(inbox[conn[sock[v]]]).type] : Goto(v, plan[1])
    BY <1>2 DEF RecvRequest
  <2>3. plan[1] \in {"login", "logout", "find", "lookup", "enable"}
    BY <2>1, <2>2, DispatchTyped
  <2>. QED  BY <2>2, <2>3 DEF Goto, TypeOK
<1>3. CASE LockMutex(v) \/ SendKills(v)
  BY <1>3 DEF LockMutex, SendKills, workerVars, Goto, TypeOK
<1>4. CASE MissMutex(v) \/ Send(v)
  BY <1>4 DEF MissMutex, Send, AfterSend, More, Goto, TypeOK
<1>5. CASE \/ Take(v) \/ RecvEnd(v) \/ RecvAgain(v) \/ HandleLogin(v) \/ Lookup(v)
           \/ EnableRead(v) \/ RemoveLogout(v) \/ RemoveEpoll(v) \/ RemoveMutex(v)
           \/ RemoveClose(v)
  BY <1>5 DEF Take, RecvNothing, RecvEnd, RecvAgain, HandleLogin, Lookup, EnableRead, Rearm, RemoveLogout,
              RemoveEpoll, RemoveMutex, RemoveClose, Return, Goto, TypeOK
<1>. QED  BY <1>1, <1>2, <1>3, <1>4, <1>5, LocalsOnly DEF WorkerStep

\* A broken table stays broken.
LEMMA IntactOnly ==
  ASSUME [Next]_vars, intact'
  PROVE  intact
<1>1. CASE EmplaceMutex
  BY <1>1, Zenon DEF EmplaceMutex, WrittenMap
<1>2. CASE RaceKills
  BY <1>2, Zenon DEF RaceKills
<1>3. ASSUME NEW w \in Worker, FindMutex(w) \/ MissMutex(w) \/ RemoveMutex(w)
      PROVE  intact
  <2>1. CASE FindMutex(w)
    BY <2>1, Zenon DEF FindMutex
  <2>2. CASE MissMutex(w)
    BY <2>2, Zenon DEF MissMutex
  <2>3. CASE RemoveMutex(w)
    BY <2>3, Zenon DEF RemoveMutex, WrittenMap
  <2>. QED  BY <1>3, <2>1, <2>2, <2>3
<1>4. \/ UNCHANGED intact
      \/ EmplaceMutex
      \/ RaceKills
      \/ \E w \in Worker : FindMutex(w) \/ MissMutex(w) \/ RemoveMutex(w)
  BY DEF Next, ClientStep, MainStep, WorkerStep, vars, mapVars,
       ClientConnect, ClientSend, ClientHangup,
       EpollWait, Disarm, SubmitClient, AcceptBegin, Accept, EpollAdd, AcceptEnd,
       Take, RecvRequest, RecvNothing, RecvEnd, RecvAgain, HandleLogin, Lookup, LockMutex, Send,
       SendKills, EnableRead, Rearm, RemoveLogout, RemoveEpoll, RemoveClose
<1>. QED  BY <1>1, <1>2, <1>3, <1>4

\* The table changes by try_emplace and erase only.
LEMMA WritesOnly ==
  ASSUME [Next]_vars
  PROVE  \/ UNCHANGED sendMutexMap
         \/ EmplaceMutex
         \/ \E w \in Worker : RemoveMutex(w)
BY DEF Next, ClientStep, MainStep, WorkerStep, vars, mapVars,
       ClientConnect, ClientSend, ClientHangup,
       EpollWait, Disarm, SubmitClient, AcceptBegin, Accept, EpollAdd, AcceptEnd,
       RaceKills, Take, RecvRequest, RecvNothing, RecvEnd, RecvAgain, HandleLogin, Lookup, FindMutex,
       MissMutex, LockMutex, Send, SendKills, AfterSend, More, EnableRead, Rearm, RemoveLogout,
       RemoveEpoll, RemoveClose

LEMMA CleanStep ==
  TypeOK /\ HandlerOK /\ OneOwner /\ NeverOrphaned /\ CleanSlate /\ RegistryInverse
    /\ [Next]_vars => CleanSlate'
<1>. SUFFICES ASSUME TypeOK, HandlerOK, OneOwner, NeverOrphaned, CleanSlate, RegistryInverse,
                     [Next]_vars,
                     NEW s \in Sock, (conn[s] = NoConn \/ InSetup(s))'
              PROVE  socketUsers'[s] = NoUser
  BY DEF CleanSlate
<1>1. CASE \E w \in Worker : RemoveClose(w) /\ sock[w] = s
  BY <1>1 DEF RemoveClose, HandlerOK, managerVars
<1>2. CASE ~\E w \in Worker : RemoveClose(w) /\ sock[w] = s
  <2>1. conn[s] = NoConn \/ InSetup(s)
    BY <1>2, SetupOnly
  <2>2. socketUsers[s] = NoUser /\ ~Handled(s)
    BY <2>1 DEF CleanSlate, NeverOrphaned, OneOwner, OnePlace
  <2>3. socketUsers'[s] = socketUsers[s]
    BY <2>2, RegistryStep DEF Handled, Handles
  <2>. QED  BY <2>2, <2>3
<1>. QED  BY <1>1, <1>2

LEMMA MutexStep ==
  TypeOK /\ HandlerOK /\ OneOwner /\ NeverOrphaned /\ OwnMutexAlive /\ [Next]_vars
    => OwnMutexAlive'
<1>. SUFFICES ASSUME TypeOK, HandlerOK, OneOwner, NeverOrphaned, OwnMutexAlive, [Next]_vars,
                     intact', NEW w \in Worker,
                     pc'[w] \in {"lock", "send"}, Dest(w)' = sock'[w]
              PROVE  sendMutexMap'[sock'[w]] = mtx'[w]
  BY DEF OwnMutexAlive
<1>1. CASE FindMutex(w)
  BY <1>1 DEF FindMutex, Dest, TypeOK
<1>2. CASE ~FindMutex(w)
  <2>1. /\ UNCHANGED <<sock[w], target[w], mtx[w]>>
        /\ pc[w] \in {"lock", "send"}
    BY <1>2, LockedOnly
  <2>2. /\ sock[w] \in Sock /\ Dest(w) = sock[w] /\ Handles(w, sock[w])
    BY <2>1, ManagerAssumption DEF HandlerOK, TypeOK, Dest, Handles
  <2>3. intact
    BY IntactOnly
  <2>4. sendMutexMap[sock[w]] = mtx[w] /\ mtx[w] # NoConn
    BY <2>1, <2>2, <2>3 DEF OwnMutexAlive, HandlerOK
  <2>5. sendMutexMap'[sock[w]] = sendMutexMap[sock[w]]
    <3>1. CASE EmplaceMutex
      <4>1. ~MapRace
        BY <3>1 DEF EmplaceMutex, WrittenMap
      <4>2. clientSock # sock[w]
        BY <3>1, <2>2 DEF EmplaceMutex, OneOwner, OnePlace, InSetup, Handled
      <4>. QED  BY <3>1, <4>1, <4>2, <2>2 DEF EmplaceMutex, WrittenMap, TypeOK
    <3>2. ASSUME NEW v \in Worker, RemoveMutex(v) PROVE sendMutexMap'[sock[w]] = sendMutexMap[sock[w]]
      <4>1. ~MapRace
        BY <3>2 DEF RemoveMutex, WrittenMap
      <4>2. sock[v] # sock[w]
        BY <3>2, <2>1, <2>2 DEF RemoveMutex, OneOwner, OneHandler, Handles
      <4>. QED  BY <3>2, <4>1, <4>2, <2>2 DEF RemoveMutex, WrittenMap, TypeOK
    <3>. QED  BY <3>1, <3>2, WritesOnly
  <2>. QED  BY <2>1, <2>4, <2>5
<1>. QED  BY <1>1, <1>2

-----------------------------------------------------------------------------
(* The invariant and its consequences.                                     *)

(***************************************************************************)
(* What every reachable state satisfies.  No part is inductive by itself:  *)
(* typing needs that a handler's descriptor is open, that is NeverOrphaned,*)
(* which needs OneOwner, which needs the locals of HandlerOK.              *)
(***************************************************************************)
Inv ==
  /\ TypeOK
  /\ HandlerOK
  /\ OneOwner
  /\ NeverOrphaned
  /\ CleanSlate
  /\ RegistryInverse
  /\ OwnMutexAlive

LEMMA InitInv == Init => Inv
<1>. SUFFICES ASSUME Init PROVE Inv
  OBVIOUS
<1>. USE ManagerAssumption, ReactorAssumption DEF Init, ManagerInit
<1>1. TypeOK
  BY InitTyped
<1>2. HandlerOK /\ RegistryInverse /\ CleanSlate /\ OwnMutexAlive
  BY DEF HandlerOK, RegistryInverse, CleanSlate, OwnMutexAlive
<1>3. OneOwner /\ NeverOrphaned
  BY DEF OneOwner, QueuedOnce, OneHandler, OnePlace, NeverOrphaned, Queued, InSetup,
         Handled, Handles
<1>. QED  BY <1>1, <1>2, <1>3 DEF Inv

LEMMA InvStep == Inv /\ [Next]_vars => Inv'
BY TypedStep, HandlerStep, OwnerStep, CleanStep, RegistryStep, MutexStep DEF Inv

THEOREM Invariance == Spec => []Inv
BY InitInv, InvStep, PTL DEF Spec

\* Type correctness of the reactor.
THEOREM Typing == Spec => []TypeOK
BY Invariance, PTL DEF Inv

\* Every socket has one owner, however many threads and connections there are.
THEOREM Ownership == Spec => []OneOwner
BY Invariance, PTL DEF Inv

\* No open connection is ever lost from the loop.
THEOREM NoOrphans == Spec => []NeverOrphaned
BY Invariance, PTL DEF Inv

\* Between two calls a handler's locals are what the next call needs.
THEOREM HandlersFit == Spec => []HandlerOK
BY Invariance, PTL DEF Inv

\* No connection inherits the session of another that had its descriptor.
THEOREM FreshSessions == Spec => []CleanSlate
BY Invariance, PTL DEF Inv

\* The registry's two maps stay inverse through every login and logout.
THEOREM Registry == Spec => []RegistryInverse
BY Invariance, PTL DEF Inv

\* Short of a race in the table, nobody removes the mutex a handler answers with.
THEOREM MutexLife == Spec => []OwnMutexAlive
BY Invariance, PTL DEF Inv

\* No two handlers ever work for one user: he is online on one socket, by the
\* registry, and that socket has one handler, by the reactor.
THEOREM OneAtATime == Spec => []OneRequestPerUser
<1>1. Inv => OneRequestPerUser
  <2>. SUFFICES ASSUME Inv,
                       NEW v \in Worker, NEW w \in Worker, pc[v] # "idle", pc[w] # "idle",
                       socketUsers[sock[v]] = socketUsers[sock[w]],
                       socketUsers[sock[v]] # NoUser
                PROVE  v = w
    BY DEF OneRequestPerUser
  <2>. USE DEF Inv
  <2>1. sock[v] \in Sock /\ sock[w] \in Sock
    BY DEF HandlerOK, TypeOK
  <2>2. socketUsers[sock[v]] \in User
    BY <2>1 DEF TypeOK, ManagerTypeOK
  <2>3. sock[v] = sock[w]
    BY <2>1, <2>2 DEF RegistryInverse
  <2>. QED  BY <2>1, <2>3 DEF OneOwner, OneHandler, Handles
<1>. QED  BY <1>1, Invariance, PTL

=============================================================================
