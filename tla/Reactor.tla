------------------------------ MODULE Reactor ------------------------------
(***************************************************************************)
(* The connection life cycle of the server: the epoll loop of Server::Run  *)
(* on the main thread, the pool's task queue, and HandleClient, EnableRead,*)
(* RemoveConnection and SendMessage on the worker threads.                 *)
(*                                                                         *)
(* A socket is a descriptor NUMBER, which the kernel hands out again after *)
(* close(); a connection is what is behind it at one time.  What a request *)
(* does to the database is left to the modules of the tables: here it only *)
(* decides, nondeterministically, which way the handler goes.              *)
(***************************************************************************)
EXTENDS ClientManager, Naturals, Sequences

CONSTANTS Conn,         \* the connections clients open, each at most once
          NoConn,       \* "no connection behind this descriptor"
          Worker,       \* threads of the pool
          Listen,       \* the listening socket, as an event of epoll_wait
          Requests,     \* the requests clients send in this instance
          NoRequest,    \* "this worker has received nothing"
          MaxRequests,  \* bound: requests per connection
          MaxOffline    \* bound: messages one READY finds stored

VARIABLES
  up,            \* the process has not been killed by SIGPIPE
  client,        \* each client's end: "new", "open" or "closed"
  backlog,       \* connections the kernel holds for accept()
  inbox,         \* bytes of each connection not yet recv()ed, as requests
  sent,          \* how many requests each client has sent
  conn,          \* the kernel's descriptor table
  epoll,         \* each socket's entry in the epoll set
  main,          \* where the main thread is in Run
  batch,         \* events of this epoll_wait not yet looked at
  clientSock,    \* the socket the main thread is setting up
  tasks,         \* the pool's queue: a task is HandleClient(socket)
  sendMutexMap,  \* socket -> its send mutex, named by the connection
                 \* for which it was made
  intact,        \* history: no two threads have raced in sendMutexMap yet
  pc,            \* where each worker is in HandleClient
  sock,          \* the socket it handles
  req,           \* the request it received
  owed,          \* the messages it has yet to send to its own socket
  target,        \* the socket GetSocket gave it, NoSock before that
  mtx            \* the mutex it waits for or holds

kernelVars == <<client, backlog, inbox, sent, conn, epoll>>
mainVars   == <<main, batch, clientSock>>
mapVars    == <<sendMutexMap, intact>>
workerVars == <<pc, sock, req, owed, target, mtx>>
vars == <<up, kernelVars, mainVars, tasks, mapVars, workerVars, managerVars>>

(***************************************************************************)
(* The switch of HandleClient, as the step that follows recv() and the     *)
(* number of messages the handler sends to its own socket.  QUERY stands   *)
(* for REGISTER and the two list requests, UPDATE for ACCEPT_FRIEND,       *)
(* DELETE_FRIEND, REJECT_FRIEND and an unknown type.  CHAT is answered     *)
(* only when sender and receiver are not friends.                          *)
(***************************************************************************)
Dispatch ==
  [LOGIN      |-> {<<"login", 1>>},
   LOGOUT     |-> {<<"logout", 0>>},
   CHAT       |-> {<<"find", 1>>, <<"lookup", 0>>},
   ADD_FRIEND |-> {<<"find", 1>>},
   READY      |-> {<<"enable", 0>>} \cup {<<"find", n>> : n \in 1..MaxOffline},
   QUERY      |-> {<<"find", 1>>},
   UPDATE     |-> {<<"enable", 0>>}]

\* The requests that name a user: the one who logs in, or the receiver.
Addressed == {"LOGIN", "CHAT", "ADD_FRIEND"}

ASSUME ReactorAssumption ==
  /\ NoConn \notin Conn
  /\ Listen \notin Sock
  /\ NoRequest \notin Requests
  /\ Requests \subseteq [type : Addressed, user : User]
       \cup [type : DOMAIN Dispatch \ Addressed, user : {NoUser}]
  /\ MaxRequests \in Nat
  /\ MaxOffline \in Nat

MainSteps   == {"loop", "accept", "emplace", "add"}
WorkerSteps == {"idle", "recv", "login", "find", "lock", "send", "lookup",
                "enable", "logout", "del", "erase", "close"}

TypeOK ==
  /\ up \in BOOLEAN
  /\ client \in [Conn -> {"new", "open", "closed"}]
  /\ backlog \subseteq Conn
  /\ inbox \in [Conn -> Seq(Requests)]
  /\ sent \in [Conn -> 0..MaxRequests]
  /\ conn \in [Sock -> Conn \cup {NoConn}]
  /\ epoll \in [Sock -> {"absent", "armed", "disarmed"}]
  /\ main \in MainSteps
  /\ batch \subseteq Sock \cup {Listen}
  /\ clientSock \in Sock \cup {NoSock}
  /\ tasks \in Seq(Sock)
  /\ sendMutexMap \in [Sock -> Conn \cup {NoConn}]
  /\ intact \in BOOLEAN
  /\ pc \in [Worker -> WorkerSteps]
  /\ sock \in [Worker -> Sock \cup {NoSock}]
  /\ req \in [Worker -> Requests \cup {NoRequest}]
  /\ owed \in [Worker -> Nat]
  /\ target \in [Worker -> Sock \cup {NoSock}]
  /\ mtx \in [Worker -> Conn \cup {NoConn}]
  /\ ManagerTypeOK

Init ==
  /\ up = TRUE
  /\ client = [c \in Conn |-> "new"]
  /\ backlog = {}
  /\ inbox = [c \in Conn |-> <<>>]
  /\ sent = [c \in Conn |-> 0]
  /\ conn = [s \in Sock |-> NoConn]
  /\ epoll = [s \in Sock |-> "absent"]
  /\ main = "loop"
  /\ batch = {}
  /\ clientSock = NoSock
  /\ tasks = <<>>
  /\ sendMutexMap = [s \in Sock |-> NoConn]
  /\ intact = TRUE
  /\ pc = [w \in Worker |-> "idle"]
  /\ sock = [w \in Worker |-> NoSock]
  /\ req = [w \in Worker |-> NoRequest]
  /\ owed = [w \in Worker |-> 0]
  /\ target = [w \in Worker |-> NoSock]
  /\ mtx = [w \in Worker |-> NoConn]
  /\ ManagerInit

-----------------------------------------------------------------------------
(* Clients: the environment.                                               *)

ClientConnect(c) ==
  /\ client[c] = "new"
  /\ client' = [client EXCEPT ![c] = "open"]
  /\ backlog' = backlog \cup {c}
  /\ UNCHANGED <<up, inbox, sent, conn, epoll, mainVars, tasks, mapVars,
                 workerVars, managerVars>>

ClientSend(c, r) ==
  /\ client[c] = "open"
  /\ sent[c] < MaxRequests
  /\ sent' = [sent EXCEPT ![c] = @ + 1]
  /\ inbox' = [inbox EXCEPT ![c] = Append(@, r)]
  /\ UNCHANGED <<up, client, backlog, conn, epoll, mainVars, tasks,
                 mapVars, workerVars, managerVars>>

\* The client closes its end, and what it sent before stays readable, or
\* resets the connection, and what the server has not read is gone.
ClientHangup(c) ==
  /\ client[c] = "open"
  /\ client' = [client EXCEPT ![c] = "closed"]
  /\ inbox' \in {inbox, [inbox EXCEPT ![c] = <<>>]}
  /\ UNCHANGED <<up, backlog, sent, conn, epoll, mainVars, tasks, mapVars,
                 workerVars, managerVars>>

-----------------------------------------------------------------------------
(* The main thread: Server::Run.                                           *)

Armed == {s \in Sock : epoll[s] = "armed"}

Readable(s) == conn[s] # NoConn /\ (inbox[conn[s]] # <<>> \/ client[conn[s]] = "closed")

Ready == {s \in Armed : Readable(s)} \cup (IF backlog = {} THEN {} ELSE {Listen})

\* Mutant: the sockets are added without EPOLLONESHOT.
DisarmNothing(events) == epoll

Disarm(events) == [s \in Sock |-> IF s \in events THEN "disarmed" ELSE epoll[s]]

\* epoll_wait returns every ready event (there is room for 1024), perhaps
\* some socket on which recv will find nothing, and EPOLLONESHOT disarms
\* each client socket it returns.
EpollWait ==
  /\ main = "loop"
  /\ batch = {}
  /\ \E spurious \in SUBSET Armed : batch' = Ready \cup spurious
  /\ batch' # {}
  /\ epoll' = Disarm(batch')
  /\ UNCHANGED <<up, client, backlog, inbox, sent, conn, main, clientSock,
                 tasks, mapVars, workerVars, managerVars>>

SubmitClient(s) ==
  /\ main = "loop"
  /\ s \in batch
  /\ batch' = batch \ {s}
  /\ tasks' = Append(tasks, s)
  /\ UNCHANGED <<up, kernelVars, main, clientSock, mapVars, workerVars,
                 managerVars>>

AcceptBegin ==
  /\ main = "loop"
  /\ Listen \in batch
  /\ batch' = batch \ {Listen}
  /\ main' = "accept"
  /\ UNCHANGED <<up, kernelVars, clientSock, tasks, mapVars, workerVars,
                 managerVars>>

\* accept() takes a free descriptor number: the lowest one, of which "any
\* free one" is a superset.
Accept(c, s) ==
  /\ main = "accept"
  /\ c \in backlog
  /\ conn[s] = NoConn
  /\ backlog' = backlog \ {c}
  /\ conn' = [conn EXCEPT ![s] = c]
  /\ clientSock' = s
  /\ main' = "emplace"
  /\ UNCHANGED <<up, client, inbox, sent, epoll, batch, tasks, mapVars,
                 workerVars, managerVars>>

(* sendMutexMap has no lock of its own: its users are the threads at these *)
(* steps, and try_emplace and erase write it.  When a writer is not alone  *)
(* in it, the behaviour of the hash map is undefined: the write may get    *)
(* lost, entries may get lost, or the process may crash.                   *)

MapWriters ==
  {w \in Worker : pc[w] = "erase"} \cup (IF main = "emplace" THEN {Listen} ELSE {})

MapUsers == {w \in Worker : pc[w] = "find"} \cup MapWriters

MapRace == MapWriters # {} /\ \E t, u \in MapUsers : t # u

\* What the table is after a write that, done alone, would make it written.
WrittenMap(written) ==
  /\ sendMutexMap' \in
       IF MapRace
         THEN {[s \in Sock |-> IF s \in lost THEN NoConn ELSE table[s]] :
                 lost \in SUBSET Sock, table \in {written, sendMutexMap}}
         ELSE {written}
  /\ intact' = (intact /\ ~MapRace)

RaceKills ==
  /\ up
  /\ MapRace
  /\ up' = FALSE
  /\ intact' = FALSE
  /\ UNCHANGED <<kernelVars, mainVars, tasks, sendMutexMap, workerVars, managerVars>>

\* try_emplace keeps an entry that is there.
EmplaceMutex ==
  /\ main = "emplace"
  /\ WrittenMap(IF sendMutexMap[clientSock] = NoConn
                  THEN [sendMutexMap EXCEPT ![clientSock] = conn[clientSock]]
                  ELSE sendMutexMap)
  /\ main' = "add"
  /\ UNCHANGED <<up, kernelVars, batch, clientSock, tasks, workerVars, managerVars>>

EpollAdd ==
  /\ main = "add"
  /\ epoll' = [epoll EXCEPT ![clientSock] = "armed"]
  /\ clientSock' = NoSock
  /\ main' = "accept"
  /\ UNCHANGED <<up, client, backlog, inbox, sent, conn, batch, tasks,
                 mapVars, workerVars, managerVars>>

\* Mutant: Run returns when accept fails with an error.
AcceptEndReturns ==
  /\ main = "accept"
  /\ main' = IF backlog = {} THEN "loop" ELSE "returned"
  /\ UNCHANGED <<up, kernelVars, batch, clientSock, tasks, mapVars,
                 workerVars, managerVars>>

\* accept fails: EAGAIN, no descriptor left, or any other error.  What is
\* in the backlog stays there.
AcceptEnd ==
  /\ main = "accept"
  /\ main' = "loop"
  /\ UNCHANGED <<up, kernelVars, batch, clientSock, tasks, mapVars,
                 workerVars, managerVars>>

-----------------------------------------------------------------------------
(* The workers: HandleClient and what it calls.                            *)

Goto(w, step) == pc' = [pc EXCEPT ![w] = step]

\* Locals die with the call.
Return(w) ==
  /\ Goto(w, "idle")
  /\ sock' = [sock EXCEPT ![w] = NoSock]
  /\ req' = [req EXCEPT ![w] = NoRequest]
  /\ owed' = [owed EXCEPT ![w] = 0]
  /\ target' = [target EXCEPT ![w] = NoSock]
  /\ mtx' = [mtx EXCEPT ![w] = NoConn]

Take(w) ==
  /\ pc[w] = "idle"
  /\ tasks # <<>>
  /\ tasks' = Tail(tasks)
  /\ sock' = [sock EXCEPT ![w] = Head(tasks)]
  /\ Goto(w, "recv")
  /\ UNCHANGED <<up, kernelVars, mainVars, mapVars, req, owed, target, mtx,
                 managerVars>>

RecvRequest(w) ==
  LET c == conn[sock[w]] IN
  /\ pc[w] = "recv"
  /\ c # NoConn
  /\ inbox[c] # <<>>
  /\ inbox' = [inbox EXCEPT ![c] = Tail(@)]
  /\ req' = [req EXCEPT ![w] = Head(inbox[c])]
  /\ \E plan \in Dispatch[Head(inbox[c]).type] :
       /\ Goto(w, plan[1])
       /\ owed' = [owed EXCEPT ![w] = plan[2]]
  /\ UNCHANGED <<up, client, backlog, sent, conn, epoll, mainVars, tasks,
                 mapVars, sock, target, mtx, managerVars>>

RecvNothing(w) ==
  /\ pc[w] = "recv"
  /\ conn[sock[w]] # NoConn => inbox[conn[sock[w]]] = <<>>
  /\ UNCHANGED <<up, kernelVars, mainVars, tasks, mapVars, sock, req, owed, target, mtx,
                 managerVars>>

\* The client is gone, or the descriptor has been closed under the handler.
Ended(w) == conn[sock[w]] # NoConn => client[conn[sock[w]]] = "closed"

\* Mutants: the end of the stream is taken for EAGAIN; the connection is
\* removed without logging it out.
RecvEndRearms(w) == RecvNothing(w) /\ Ended(w) /\ Goto(w, "enable")
RecvEndStaysOnline(w) == RecvNothing(w) /\ Ended(w) /\ Goto(w, "del")

\* recv returns 0, or an error that is not EAGAIN.
RecvEnd(w) == RecvNothing(w) /\ Ended(w) /\ Goto(w, "logout")

\* recv returns EAGAIN.
RecvAgain(w) == RecvNothing(w) /\ ~Ended(w) /\ Goto(w, "enable")

\* The password is wrong or the account unknown, or ClientManager decides.
HandleLogin(w) ==
  /\ pc[w] = "login"
  /\ \/ UNCHANGED managerVars
     \/ LoginAccepted(req[w].user, sock[w])
     \/ LoginRefused(req[w].user, sock[w])
  /\ Goto(w, "find")
  /\ UNCHANGED <<up, kernelVars, mainVars, tasks, mapVars, sock, req, owed,
                 target, mtx>>

\* The descriptor that SendMessage is called with.
Dest(w) == IF target[w] = NoSock THEN sock[w] ELSE target[w]

\* Mutant: the loop over the stored messages runs once too often.
MoreOffByOne(w) == owed[w] > 0

More(w) == owed[w] > 1

\* SendMessage returns.  After its own replies, ADD_FRIEND goes on to notify
\* the receiver if the request was stored.
AfterSend(w) ==
  /\ IF target[w] = NoSock
       THEN /\ owed' = [owed EXCEPT ![w] = @ - 1]
            /\ \E step \in IF More(w) THEN {"find"}
                           ELSE IF req[w].type = "ADD_FRIEND"
                                THEN {"lookup", "enable"} ELSE {"enable"} :
                 Goto(w, step)
       ELSE Goto(w, "enable") /\ UNCHANGED owed
  /\ mtx' = [mtx EXCEPT ![w] = NoConn]
  /\ UNCHANGED <<up, kernelVars, mainVars, tasks, sendMutexMap, sock, req, target,
                 managerVars>>

FindMutex(w) ==
  /\ pc[w] = "find"
  /\ sendMutexMap[Dest(w)] # NoConn
  /\ mtx' = [mtx EXCEPT ![w] = sendMutexMap[Dest(w)]]
  /\ intact' = (intact /\ ~MapRace)
  /\ Goto(w, "lock")
  /\ UNCHANGED <<up, kernelVars, mainVars, tasks, sendMutexMap, sock, req, owed,
                 target, managerVars>>

\* find returns end(): there is no entry, or a thread is changing the table
\* under it.  The message is dropped.
MissMutex(w) ==
  /\ pc[w] = "find"
  /\ sendMutexMap[Dest(w)] = NoConn \/ MapRace
  /\ intact' = (intact /\ ~MapRace)
  /\ AfterSend(w)

LockMutex(w) ==
  /\ pc[w] = "lock"
  /\ \A v \in Worker : ~(pc[v] = "send" /\ mtx[v] = mtx[w])
  /\ Goto(w, "send")
  /\ UNCHANGED <<up, kernelVars, mainVars, tasks, mapVars, sock, req, owed,
                 target, mtx, managerVars>>

Send(w) ==
  /\ pc[w] = "send"
  /\ AfterSend(w)
  /\ UNCHANGED intact

\* send() on a connection that its peer has reset raises SIGPIPE, whose
\* default action ends the process.
SendKills(w) ==
  /\ pc[w] = "send"
  /\ conn[Dest(w)] # NoConn
  /\ client[conn[Dest(w)]] = "closed"
  /\ up' = FALSE
  /\ UNCHANGED <<kernelVars, mainVars, tasks, mapVars, workerVars, managerVars>>

\* GetSocket.  A receiver who is offline gets a row in the database instead.
Lookup(w) ==
  /\ pc[w] = "lookup"
  /\ target' = [target EXCEPT ![w] = GetSocket(req[w].user)]
  /\ Goto(w, IF GetSocket(req[w].user) = NoSock THEN "enable" ELSE "find")
  /\ UNCHANGED <<up, kernelVars, mainVars, tasks, mapVars, sock, req, owed, mtx,
                 managerVars>>

\* Mutant: nobody arms the socket again.
RearmNothing(s) == epoll

Rearm(s) == [epoll EXCEPT ![s] = "armed"]

EnableRead(w) ==
  /\ pc[w] = "enable"
  /\ epoll' = Rearm(sock[w])
  /\ Return(w)
  /\ UNCHANGED <<up, client, backlog, inbox, sent, conn, mainVars, tasks,
                 mapVars, managerVars>>

\* RemoveConnection: Logout, EPOLL_CTL_DEL, erase, close, in this order.
RemoveLogout(w) ==
  /\ pc[w] = "logout"
  /\ Logout(sock[w])
  /\ Goto(w, "del")
  /\ UNCHANGED <<up, kernelVars, mainVars, tasks, mapVars, sock, req, owed,
                 target, mtx>>

RemoveEpoll(w) ==
  /\ pc[w] = "del"
  /\ epoll' = [epoll EXCEPT ![sock[w]] = "absent"]
  /\ Goto(w, "erase")
  /\ UNCHANGED <<up, client, backlog, inbox, sent, conn, mainVars, tasks,
                 mapVars, sock, req, owed, target, mtx, managerVars>>

RemoveMutex(w) ==
  /\ pc[w] = "erase"
  /\ WrittenMap([sendMutexMap EXCEPT ![sock[w]] = NoConn])
  /\ Goto(w, "close")
  /\ UNCHANGED <<up, kernelVars, mainVars, tasks, sock, req, owed, target, mtx,
                 managerVars>>

RemoveClose(w) ==
  /\ pc[w] = "close"
  /\ conn' = [conn EXCEPT ![sock[w]] = NoConn]
  /\ Return(w)
  /\ UNCHANGED <<up, client, backlog, inbox, sent, epoll, mainVars, tasks,
                 mapVars, managerVars>>

-----------------------------------------------------------------------------
ClientStep ==
  \E c \in Conn :
    \/ ClientConnect(c)
    \/ \E r \in Requests : ClientSend(c, r)
    \/ ClientHangup(c)

MainStep ==
  /\ up
  /\ \/ EpollWait
     \/ \E s \in Sock : SubmitClient(s)
     \/ AcceptBegin
     \/ \E c \in Conn, s \in Sock : Accept(c, s)
     \/ EmplaceMutex
     \/ EpollAdd
     \/ AcceptEnd

WorkerStep(w) ==
  /\ up
  /\ \/ Take(w) \/ RecvRequest(w) \/ RecvEnd(w) \/ RecvAgain(w)
     \/ HandleLogin(w) \/ Lookup(w)
     \/ FindMutex(w) \/ MissMutex(w) \/ LockMutex(w) \/ Send(w) \/ SendKills(w)
     \/ EnableRead(w)
     \/ RemoveLogout(w) \/ RemoveEpoll(w) \/ RemoveMutex(w) \/ RemoveClose(w)

Next == ClientStep \/ MainStep \/ RaceKills \/ \E w \in Worker : WorkerStep(w)

Spec == Init /\ [][Next]_vars

(***************************************************************************)
(* The operating system schedules every thread; no handler waits for       *)
(* anything but a send mutex, which is held over one non-blocking send().  *)
(* An accept() that could succeed does not fail time after time for ever.  *)
(***************************************************************************)
AcceptOne == up /\ \E c \in Conn, s \in Sock : Accept(c, s)

FairSpec ==
  /\ Spec
  /\ WF_vars(MainStep)
  /\ SF_vars(AcceptOne)
  /\ \A w \in Worker : WF_vars(WorkerStep(w))

-----------------------------------------------------------------------------
(* Properties.                                                             *)

Queued == {tasks[i] : i \in DOMAIN tasks}

Handles(w, s) == pc[w] # "idle" /\ sock[w] = s

Handled(s) == \E w \in Worker : Handles(w, s)

InSetup(s) == main \in {"emplace", "add"} /\ clientSock = s

(***************************************************************************)
(* A socket is in one place at a time: being set up, armed in epoll, in    *)
(* the event batch, in the task queue (once), or handled by one worker.    *)
(* EPOLLONESHOT and the EnableRead at the end of the handler are what      *)
(* makes it so; without it two workers would handle one connection, or     *)
(* one would close a descriptor the other still uses.                      *)
(***************************************************************************)
QueuedOnce == \A i, j \in DOMAIN tasks : tasks[i] = tasks[j] => i = j

OneHandler == \A s \in Sock, v, w \in Worker : Handles(v, s) /\ Handles(w, s) => v = w

OnePlace ==
  \A s \in Sock :
    /\ s \in Queued => s \notin batch
    /\ s \in Queued \cup batch => ~InSetup(s) /\ ~Handled(s)
    /\ InSetup(s) => ~Handled(s)
    /\ epoll[s] = "armed" => s \notin Queued \cup batch /\ ~InSetup(s) /\ ~Handled(s)

OneOwner == QueuedOnce /\ OneHandler /\ OnePlace

(***************************************************************************)
(* No connection is forgotten: an open descriptor is in one of those       *)
(* places, and a descriptor in one of them is open.  Every way out of      *)
(* HandleClient must re-arm the socket or remove the connection; one that  *)
(* did neither would leave the client connected and never served again.    *)
(***************************************************************************)
NeverOrphaned ==
  \A s \in Sock :
    conn[s] # NoConn <=>
      \/ InSetup(s)
      \/ epoll[s] = "armed"
      \/ s \in batch \cup Queued
      \/ Handled(s)

(***************************************************************************)
(* A descriptor number that is closed, or that accept() has just handed    *)
(* out again, is bound to no user: a new connection never inherits the     *)
(* session of the one that had its number before, and no user is online    *)
(* on a closed descriptor.                                                 *)
(***************************************************************************)
CleanSlate ==
  \A s \in Sock : conn[s] = NoConn \/ InSetup(s) => socketUsers[s] = NoUser

(***************************************************************************)
(* Between two calls of a handler its locals are what the next call needs: *)
(* there is a message left to send when it goes to send one, a user to look*)
(* up, a live descriptor being set up, and a handler that removes the      *)
(* connection has logged it out before it gives up the descriptor, so that *)
(* no login slips in between.                                              *)
(***************************************************************************)
HandlerOK ==
  /\ main \in {"emplace", "add"} <=> clientSock # NoSock
  /\ \A w \in Worker :
       /\ pc[w] = "idle" <=> sock[w] = NoSock
       /\ pc[w] \in {"login", "find", "lock", "send", "lookup"} => req[w] # NoRequest
       /\ pc[w] \in {"login", "lookup"} => req[w].user \in User /\ target[w] = NoSock
       /\ pc[w] = "login" => owed[w] > 0
       /\ pc[w] \in {"idle", "recv"} =>
            req[w] = NoRequest /\ target[w] = NoSock
       /\ pc[w] \in {"find", "lock", "send"} /\ target[w] = NoSock => owed[w] > 0
       /\ pc[w] \in {"lock", "send"} => mtx[w] # NoConn
       /\ pc[w] \in {"del", "erase", "close"} => socketUsers[sock[w]] = NoUser

(***************************************************************************)
(* The mutex a handler locks to answer its own client is alive until it    *)
(* has sent: only that handler can remove it, unless a race has broken the *)
(* table.                                                                  *)
(***************************************************************************)
OwnMutexAlive ==
  intact => \A w \in Worker :
    pc[w] \in {"lock", "send"} /\ Dest(w) = sock[w] => sendMutexMap[sock[w]] = mtx[w]

(***************************************************************************)
(* A user's requests are handled one at a time, whatever sockets he has    *)
(* logged in on: two handlers are never at work for connections of one     *)
(* user.  It takes the registry's one socket per user and the reactor's one*)
(* handler per socket; the handlers of chats and of READY lean on it.      *)
(***************************************************************************)
OneRequestPerUser ==
  \A v, w \in Worker :
    pc[v] # "idle" /\ pc[w] # "idle" /\ socketUsers[sock[v]] = socketUsers[sock[w]] =>
      v = w \/ socketUsers[sock[v]] = NoUser

\* The handler of socket s has a request that ends its session, or the
\* client of the connection now behind s is gone.
EndsSession(w, s) ==
  /\ Handles(w, s)
  /\ IF req[w] = NoRequest THEN Ended(w) ELSE req[w].type \in {"LOGIN", "LOGOUT"}

BeginsSession(w, s, u) ==
  Handles(w, s) /\ req[w] # NoRequest /\ req[w].type = "LOGIN" /\ req[w].user = u

(***************************************************************************)
(* A user comes online on the socket that sent his LOGIN, and goes offline *)
(* only by a LOGIN or LOGOUT on that socket or by the end of the connection*)
(* that is behind it at that moment: no login elsewhere, and no late       *)
(* removal of a connection that had the number before, ends his session.   *)
(***************************************************************************)
SessionsKept ==
  [][\A u \in User :
       /\ onlineUsers[u] \notin {NoSock, onlineUsers'[u]} =>
            \E w \in Worker : EndsSession(w, onlineUsers[u])
       /\ onlineUsers'[u] \notin {NoSock, onlineUsers[u]} =>
            \E w \in Worker : BeginsSession(w, onlineUsers'[u], u)]_vars

(***************************************************************************)
(* The reactor implements Sessions: however main thread, workers, queue    *)
(* and descriptor reuse interleave, each connection sees a private server  *)
(* that takes its requests in order, one at a time, and hangs up on it     *)
(* only after a LOGOUT or at the end of its stream.                        *)
(***************************************************************************)
Opened == {conn[s] : s \in Sock} \ {NoConn}

Serving(c) ==
  {w \in Worker : pc[w] # "idle" /\ conn[sock[w]] = c /\ req[w] # NoRequest}

Current(c) == IF Serving(c) = {} THEN NoRequest ELSE req[CHOOSE w \in Serving(c) : TRUE]

Gone == {c \in Conn : client[c] # "new"} \ (backlog \cup Opened)

HungUp == {c \in Conn : client[c] = "closed"}

SessionsOf ==
  INSTANCE Sessions WITH
    Final   <- {r \in Requests : r.type = "LOGOUT"},
    hungUp  <- HungUp,
    open    <- Opened,
    gone    <- Gone,
    queue   <- inbox,
    current <- [c \in Conn |-> Current(c)]

ImplementsSessions == SessionsOf!Spec

(***************************************************************************)
(* Every request sent on an accepted connection is eventually taken, or    *)
(* the connection is closed, as long as the process lives.  Needs the      *)
(* level-triggered events: data that came while the socket was disarmed    *)
(* must be reported when EnableRead arms it again.                         *)
(***************************************************************************)
RequestsTaken ==
  \A c \in Conn :
    (c \in Opened /\ inbox[c] # <<>>) ~> (inbox[c] = <<>> \/ c \notin Opened \/ ~up)

(***************************************************************************)
(* The descriptor of a client that hung up is eventually closed, so it can *)
(* be used again.                                                          *)
(***************************************************************************)
HangupsReaped ==
  \A c \in Conn :
    (c \in Opened /\ client[c] = "closed") ~> (c \notin Opened \/ ~up)

(***************************************************************************)
(* A connection waiting in the backlog is eventually accepted, unless      *)
(* every descriptor is taken.                                              *)
(***************************************************************************)
BacklogAccepted ==
  \A c \in Conn :
    c \in backlog ~> (c \notin backlog \/ ~up \/ \A s \in Sock : conn[s] # NoConn)

(***************************************************************************)
(* "Notify the receiver" (Server.cpp:402): the notification is sent on a   *)
(* socket that belongs to its receiver or, by now, to nobody, never on one *)
(* another user is logged in on.  The descriptor GetSocket returned is     *)
(* used after the registry's lock is released.                             *)
(***************************************************************************)
NotifiesReceiver ==
  \A w \in Worker :
    pc[w] = "send" /\ target[w] # NoSock =>
      socketUsers[target[w]] \in {req[w].user, NoUser}

=============================================================================
