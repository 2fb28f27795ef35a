------------------------- MODULE ReactorRefinement -------------------------
(***************************************************************************)
(* The reactor implements Sessions: every connection is served as if it    *)
(* had the server to itself.  Under the refinement mapping of Reactor, a   *)
(* step of a client, of accept(), of recv(), of EnableRead or of close() is*)
(* a step of Sessions, and every other one is a stutter.                   *)
(***************************************************************************)
EXTENDS ReactorProofs

(***************************************************************************)
(* What the mapping needs beside Inv: a connection has one descriptor and  *)
(* is open only once it has left the backlog, and a handler that is closing*)
(* a connection has read LOGOUT or has seen the end of the stream.         *)
(***************************************************************************)
OneDescriptor ==
  \A s, t \in Sock : conn[s] = conn[t] /\ conn[s] # NoConn => s = t

Waiting ==
  /\ \A c \in backlog : client[c] # "new" /\ c \notin Opened
  /\ \A s \in Sock : conn[s] # NoConn => client[conn[s]] # "new"

Closing(w) == pc[w] \in {"logout", "del", "erase", "close"}

Ending ==
  \A w \in Worker :
    /\ Closing(w) =>
         \/ req[w] # NoRequest /\ req[w].type = "LOGOUT"
         \/ /\ req[w] = NoRequest
            /\ client[conn[sock[w]]] = "closed"
            /\ inbox[conn[sock[w]]] = <<>>
    /\ req[w] # NoRequest /\ ~Closing(w) => req[w].type # "LOGOUT"

SessionInv == OneDescriptor /\ Waiting /\ Ending

\* The descriptor table changes by accept() and close().
LEMMA ConnOnly ==
  ASSUME [Next]_vars
  PROVE  \/ UNCHANGED conn
         \/ \E c \in Conn, s \in Sock : Accept(c, s)
         \/ \E w \in Worker : RemoveClose(w)
BY DEF Next, ClientStep, MainStep, WorkerStep, vars, kernelVars,
       ClientConnect, ClientSend, ClientHangup,
       EpollWait, Disarm, SubmitClient, AcceptBegin, EmplaceMutex, EpollAdd, AcceptEnd,
       RaceKills, Take, RecvRequest, RecvNothing, RecvEnd, RecvAgain, HandleLogin, Lookup, FindMutex,
       MissMutex, LockMutex, Send, SendKills, AfterSend, More, EnableRead, Rearm, RemoveLogout,
       RemoveEpoll, RemoveMutex

\* The clients' ends and the backlog change by the clients and by accept().
LEMMA ClientsOnly ==
  ASSUME [Next]_vars
  PROVE  \/ UNCHANGED <<client, backlog>>
         \/ \E c \in Conn : ClientConnect(c) \/ ClientHangup(c)
         \/ \E c \in Conn, s \in Sock : Accept(c, s)
BY DEF Next, ClientStep, MainStep, WorkerStep, vars, kernelVars,
       ClientSend,
       EpollWait, Disarm, SubmitClient, AcceptBegin, EmplaceMutex, EpollAdd, AcceptEnd,
       RaceKills, Take, RecvRequest, RecvNothing, RecvEnd, RecvAgain, HandleLogin, Lookup, FindMutex,
       MissMutex, LockMutex, Send, SendKills, AfterSend, More, EnableRead, Rearm, RemoveLogout,
       RemoveEpoll, RemoveMutex, RemoveClose

\* What clients sent changes by their sending, their hanging up and recv().
LEMMA InboxOnly ==
  ASSUME [Next]_vars
  PROVE  \/ UNCHANGED inbox
         \/ \E c \in Conn : ClientHangup(c) \/ \E r \in Requests : ClientSend(c, r)
         \/ \E w \in Worker : RecvRequest(w)
BY DEF Next, ClientStep, MainStep, WorkerStep, vars, kernelVars,
       ClientConnect,
       EpollWait, Disarm, SubmitClient, AcceptBegin, Accept, EmplaceMutex, EpollAdd, AcceptEnd,
       RaceKills, Take, RecvNothing, RecvEnd, RecvAgain, HandleLogin, Lookup, FindMutex,
       MissMutex, LockMutex, Send, SendKills, AfterSend, More, EnableRead, Rearm, RemoveLogout,
       RemoveEpoll, RemoveMutex, RemoveClose

LEMMA DescriptorStep ==
  ASSUME Inv, SessionInv, [Next]_vars
  PROVE  OneDescriptor' /\ Waiting'
<1>. USE ReactorAssumption DEF Inv, SessionInv
<1>1. ASSUME NEW c \in Conn, NEW s \in Sock, Accept(c, s) PROVE OneDescriptor' /\ Waiting'
  <2>1. /\ c \in backlog /\ backlog' = backlog \ {c} /\ UNCHANGED client
        /\ conn' = [conn EXCEPT ![s] = c] /\ conn \in [Sock -> Conn \cup {NoConn}]
    BY <1>1 DEF Accept, TypeOK
  <2>2. \A x \in Sock : conn[x] # c
    BY <2>1 DEF Waiting, Opened
  <2>. QED  BY <2>1, <2>2 DEF OneDescriptor, Waiting, Opened
<1>2. ASSUME NEW w \in Worker, RemoveClose(w) PROVE OneDescriptor' /\ Waiting'
  <2>1. /\ UNCHANGED <<client, backlog>>
        /\ conn' = [conn EXCEPT ![sock[w]] = NoConn] /\ conn \in [Sock -> Conn \cup {NoConn}]
    BY <1>2 DEF RemoveClose, TypeOK
  <2>. QED  BY <2>1 DEF OneDescriptor, Waiting, Opened
<1>3. CASE UNCHANGED conn
  <2>1. OneDescriptor'
    BY <1>3 DEF OneDescriptor
  <2>2. Waiting'
    BY <1>3, ClientsOnly, <1>1 DEF Waiting, Opened, ClientConnect, ClientHangup, TypeOK
  <2>. QED  BY <2>1, <2>2
<1>. QED  BY <1>1, <1>2, <1>3, ConnOnly

\* The end of a stream is for ever.
LEMMA EndStays ==
  ASSUME TypeOK, [Next]_vars, NEW c \in Conn, client[c] = "closed", inbox[c] = <<>>
  PROVE  client'[c] = "closed" /\ inbox'[c] = <<>>
<1>1. client'[c] = "closed"
  BY ClientsOnly DEF ClientConnect, ClientHangup, Accept, TypeOK
<1>2. ASSUME NEW w \in Worker, RecvRequest(w) PROVE inbox'[c] = <<>>
  BY <1>2 DEF RecvRequest, TypeOK
<1>3. ASSUME NEW d \in Conn, ClientHangup(d) \/ \E r \in Requests : ClientSend(d, r)
      PROVE  inbox'[c] = <<>>
  BY <1>3 DEF ClientHangup, ClientSend, TypeOK
<1>. QED  BY <1>1, <1>2, <1>3, InboxOnly

\* The connection a handler works for is open, and changes only by its close().
LEMMA ConnStays ==
  ASSUME Inv, [Next]_vars, NEW w \in Worker, pc[w] # "idle", ~RemoveClose(w)
  PROVE  /\ sock[w] \in Sock /\ conn[sock[w]] \in Conn
         /\ conn'[sock[w]] = conn[sock[w]]
<1>. USE DEF Inv
<1>1. sock[w] \in Sock /\ Handles(w, sock[w])
  BY DEF HandlerOK, TypeOK, Handles
<1>2. conn[sock[w]] \in Conn
  BY <1>1 DEF NeverOrphaned, Handled, TypeOK
<1>3. ASSUME NEW v \in Worker, RemoveClose(v) PROVE sock[v] # sock[w]
  BY <1>1, <1>3 DEF RemoveClose, OneOwner, OneHandler, Handles
<1>4. conn'[sock[w]] = conn[sock[w]]
  BY <1>1, <1>2, <1>3, ConnOnly, ReactorAssumption DEF Accept, RemoveClose, TypeOK
<1>. QED  BY <1>1, <1>2, <1>4

LEMMA EndingStep ==
  ASSUME Inv, SessionInv, [Next]_vars
  PROVE  Ending'
<1>. SUFFICES ASSUME NEW w \in Worker
     PROVE (/\ Closing(w) =>
                 \/ req[w] # NoRequest /\ req[w].type = "LOGOUT"
                 \/ /\ req[w] = NoRequest
                    /\ client[conn[sock[w]]] = "closed"
                    /\ inbox[conn[sock[w]]] = <<>>
            /\ req[w] # NoRequest /\ ~Closing(w) => req[w].type # "LOGOUT")'
  BY DEF Ending
<1>. USE DEF Inv, SessionInv, Closing
<1>1. CASE UNCHANGED <<pc[w], sock[w], req[w]>>
  <2>1. CASE pc[w] = "idle"
    BY <1>1, <2>1 DEF Ending
  <2>2. CASE pc[w] # "idle" /\ ~RemoveClose(w)
    BY <1>1, <2>2, ConnStays, EndStays DEF Ending
  <2>3. CASE RemoveClose(w)
    BY <1>1, <2>3 DEF RemoveClose, Return, Goto, TypeOK
  <2>. QED  BY <2>1, <2>2, <2>3
<1>2. CASE RecvRequest(w)
  <2>. DEFINE r == Head(inbox[conn[sock[w]]])
  <2>1. conn[sock[w]] \in Conn
    BY <1>2, ConnStays DEF RecvRequest, RemoveClose
  <2>2. r \in Requests
    BY <1>2, <2>1 DEF RecvRequest, TypeOK
  <2>3. PICK plan \in Dispatch[r.type] : Goto(w, plan[1])
    BY <1>2 DEF RecvRequest
  <2>4. req'[w] = r /\ pc'[w] = plan[1]
    BY <1>2, <2>3 DEF RecvRequest, Goto, TypeOK
  <2>. HIDE DEF r
  <2>5. /\ plan[1] \in {"login", "logout", "find", "lookup", "enable"}
        /\ plan[1] = "logout" <=> r.type = "LOGOUT"
    BY <2>2, <2>3, DispatchTyped
  <2>. QED  BY <2>2, <2>4, <2>5, ReactorAssumption
<1>3. CASE RecvEnd(w)
  <2>1. conn[sock[w]] \in Conn /\ conn'[sock[w]] = conn[sock[w]]
    BY <1>3, ConnStays DEF RecvNothing, RecvEnd, RemoveClose
  <2>2. /\ client[conn[sock[w]]] = "closed" /\ inbox[conn[sock[w]]] = <<>>
        /\ req[w] = NoRequest /\ req'[w] = req[w] /\ sock'[w] = sock[w]
    BY <1>3, <2>1, ReactorAssumption DEF RecvNothing, RecvEnd, Ended, HandlerOK
  <2>. QED  BY <2>1, <2>2, EndStays
<1>4. CASE Take(w) \/ RecvAgain(w)
  BY <1>4 DEF Take, RecvNothing, RecvAgain, HandlerOK, Goto, TypeOK
<1>5. CASE HandleLogin(w) \/ Lookup(w) \/ FindMutex(w) \/ LockMutex(w)
  BY <1>5 DEF Ending, HandleLogin, Lookup, FindMutex, LockMutex, Goto, TypeOK
<1>6. CASE MissMutex(w) \/ Send(w)
  BY <1>6 DEF Ending, MissMutex, Send, AfterSend, More, Goto, TypeOK
<1>7. CASE SendKills(w)
  BY <1>1, <1>7 DEF SendKills, workerVars
<1>8. CASE RemoveLogout(w) \/ RemoveEpoll(w) \/ RemoveMutex(w)
  <2>1. /\ Closing(w) /\ pc[w] # "idle" /\ ~RemoveClose(w)
        /\ req'[w] = req[w] /\ sock'[w] = sock[w]
    BY <1>8 DEF RemoveLogout, RemoveEpoll, RemoveMutex, RemoveClose
  <2>2. \/ req[w] # NoRequest /\ req[w].type = "LOGOUT"
        \/ /\ req[w] = NoRequest
           /\ client[conn[sock[w]]] = "closed"
           /\ inbox[conn[sock[w]]] = <<>>
    BY <2>1 DEF Ending
  <2>3. Closing(w)'
    BY <1>8 DEF RemoveLogout, RemoveEpoll, RemoveMutex, Goto, TypeOK
  <2>. QED  BY <2>1, <2>2, <2>3, ConnStays, EndStays
<1>9. CASE EnableRead(w) \/ RemoveClose(w)
  BY <1>9 DEF EnableRead, Rearm, RemoveClose, Return, Goto, TypeOK
<1>. QED
  BY <1>1, <1>2, <1>3, <1>4, <1>5, <1>6, <1>7, <1>8, <1>9, LocalsOnly DEF WorkerStep

-----------------------------------------------------------------------------
(* The request of a connection.                                            *)

\* A connection has one handler.
LEMMA OnlyHandler ==
  ASSUME Inv, OneDescriptor, NEW v \in Worker, NEW w \in Worker,
         pc[v] # "idle", pc[w] # "idle", conn[sock[v]] = conn[sock[w]]
  PROVE  v = w
<1>. USE DEF Inv
<1>1. /\ sock[v] \in Sock /\ Handles(v, sock[v])
      /\ sock[w] \in Sock /\ Handles(w, sock[w])
  BY DEF HandlerOK, TypeOK, Handles
<1>2. conn[sock[v]] # NoConn
  BY <1>1 DEF NeverOrphaned, Handled
<1>3. sock[v] = sock[w]
  BY <1>1, <1>2 DEF OneDescriptor
<1>. QED  BY <1>1, <1>3 DEF OneOwner, OneHandler

\* The request of the connection that a handler serves is the handler's.
LEMMA CurrentOfHandler ==
  ASSUME Inv, OneDescriptor, NEW w \in Worker, pc[w] # "idle"
  PROVE  Current(conn[sock[w]]) = req[w]
<1>1. Serving(conn[sock[w]]) = IF req[w] = NoRequest THEN {} ELSE {w}
  BY OnlyHandler DEF Serving
<1>. QED  BY <1>1 DEF Current

LEMMA CurrentUnhandled ==
  ASSUME NEW c, \A w \in Worker : pc[w] # "idle" /\ req[w] # NoRequest => conn[sock[w]] # c
  PROVE  Current(c) = NoRequest
BY DEF Current, Serving

\* It changes only when a handler of the connection starts, ends or receives.
LEMMA CurrentFrame ==
  ASSUME NEW c,
         \A w \in Worker : /\ w \in Serving(c)' <=> w \in Serving(c)
                           /\ w \in Serving(c) => req'[w] = req[w]
  PROVE  Current(c)' = Current(c)
<1>1. Serving(c)' = Serving(c)
  BY DEF Serving
<1>2. CASE Serving(c) = {}
  BY <1>1, <1>2 DEF Current
<1>3. CASE Serving(c) # {}
  <2>1. (CHOOSE w \in Serving(c) : TRUE) \in Serving(c) /\ Serving(c) \subseteq Worker
    BY <1>3 DEF Serving
  <2>. QED  BY <1>1, <1>3, <2>1 DEF Current
<1>. QED  BY <1>2, <1>3

-----------------------------------------------------------------------------
(* The steps.                                                              *)

Mapped == <<HungUp, Opened, Gone, inbox, [c \in Conn |-> Current(c)]>>

\* A step that is invisible to every connection.
LEMMA Stutter ==
  ASSUME Inv, UNCHANGED <<client, backlog, conn, inbox>>,
         \A w \in Worker : \/ UNCHANGED <<sock[w], req[w]>> /\ (pc'[w] = "idle" <=> pc[w] = "idle")
                           \/ req[w] = NoRequest /\ req'[w] = NoRequest
  PROVE  UNCHANGED Mapped
<1>1. ASSUME NEW c \in Conn PROVE Current(c)' = Current(c)
  <2>1. \A w \in Worker : /\ w \in Serving(c)' <=> w \in Serving(c)
                          /\ w \in Serving(c) => req'[w] = req[w]
    BY DEF Serving
  <2>. QED  BY <2>1, CurrentFrame
<1>2. UNCHANGED <<HungUp, Opened, Gone>>
  BY DEF HungUp, Opened, Gone
<1>. QED  BY <1>1, <1>2 DEF Mapped

\* The same for the steps inside a handler.
LEMMA HandlerStutter ==
  ASSUME Inv, [Next]_vars, NEW w \in Worker,
         \/ Take(w) \/ RecvEnd(w) \/ RecvAgain(w) \/ HandleLogin(w) \/ Lookup(w)
         \/ FindMutex(w) \/ MissMutex(w) \/ LockMutex(w) \/ Send(w) \/ SendKills(w)
         \/ RemoveLogout(w) \/ RemoveEpoll(w) \/ RemoveMutex(w)
  PROVE  UNCHANGED Mapped
<1>. USE DEF kernelVars, workerVars, Goto
<1>1. UNCHANGED <<client, backlog, conn, inbox, req>>
  BY DEF Take, RecvNothing, RecvEnd, RecvAgain, HandleLogin, Lookup, FindMutex, MissMutex, LockMutex,
         Send, SendKills, AfterSend, More, RemoveLogout, RemoveEpoll, RemoveMutex
<1>2. CASE Take(w)
  <2>1. req[w] = NoRequest
    BY <1>2 DEF Take, Inv, HandlerOK
  <2>2. \A v \in Worker \ {w} : UNCHANGED <<sock[v], pc[v]>>
    BY <1>2 DEF Take, Inv, TypeOK
  <2>. QED  BY <1>1, <2>1, <2>2, Stutter
<1>3. CASE ~Take(w)
  <2>1. UNCHANGED sock
    BY <1>3 DEF RecvNothing, RecvEnd, RecvAgain, HandleLogin, Lookup, FindMutex, MissMutex, LockMutex,
         Send, SendKills, AfterSend, More, RemoveLogout, RemoveEpoll, RemoveMutex
  <2>2. CASE SendKills(w)
    BY <1>1, <2>1, <2>2, Stutter DEF SendKills
  <2>3. CASE ~SendKills(w)
    <3>1. pc[w] # "idle" /\ \E step \in WorkerSteps \ {"idle"} : pc' = [pc EXCEPT ![w] = step]
      <4>1. CASE RemoveEpoll(w)
        BY <4>1 DEF RemoveEpoll, WorkerSteps
      <4>2. CASE ~RemoveEpoll(w)
        BY <1>3, <2>3, <4>2, InsideHandler DEF Inv
      <4>. QED  BY <4>1, <4>2
    <3>2. \A v \in Worker : pc'[v] = "idle" <=> pc[v] = "idle"
      BY <3>1 DEF Inv, TypeOK
    <3>. QED  BY <1>1, <2>1, <3>2, Stutter
  <2>. QED  BY <2>2, <2>3
<1>. QED  BY <1>2, <1>3

\* When the handler of a connection returns, the connection has no request.
LEMMA LeavesUnhandled ==
  ASSUME Inv, OneDescriptor, NEW w \in Worker, NEW c \in Conn, c = conn[sock[w]],
         pc[w] # "idle", pc'[w] = "idle",
         \A v \in Worker \ {w} : UNCHANGED <<pc[v], req[v], sock[v]>>,
         \A s \in Sock : conn'[s] \in {conn[s], NoConn}
  PROVE  Current(c)' = NoRequest
<1>1. \A v \in Worker \ {w} : pc[v] # "idle" => conn[sock[v]] # c /\ sock[v] \in Sock
  BY OnlyHandler DEF Inv, HandlerOK, TypeOK
<1>2. Serving(c)' = {}
  BY <1>1, ReactorAssumption DEF Serving
<1>. QED  BY <1>2 DEF Current

LEMMA RefinedStep ==
  ASSUME Inv, SessionInv, [Next]_vars
  PROVE  [SessionsOf!Next]_Mapped
<1>. USE ReactorAssumption DEF Inv, SessionInv
<1>1. ASSUME NEW c \in Conn, ClientConnect(c) PROVE UNCHANGED Mapped
  <2>1. /\ client[c] = "new" /\ client' = [client EXCEPT ![c] = "open"]
        /\ backlog' = backlog \cup {c}
        /\ UNCHANGED <<conn, inbox, sock, req, pc>>
    BY <1>1 DEF ClientConnect, workerVars
  <2>2. \A d \in Conn : Current(d)' = Current(d)
    BY <2>1, CurrentFrame DEF Serving
  <2>3. HungUp' = HungUp /\ Opened' = Opened
    BY <2>1 DEF HungUp, Opened, TypeOK
  <2>4. Gone' = Gone
    BY <2>1, <2>3 DEF Gone, Waiting, TypeOK
  <2>. QED  BY <2>1, <2>2, <2>3, <2>4 DEF Mapped
<1>2. ASSUME NEW c \in Conn, NEW r \in Requests, ClientSend(c, r) PROVE SessionsOf!Next
  <2>1. /\ client[c] = "open" /\ inbox' = [inbox EXCEPT ![c] = Append(@, r)]
        /\ UNCHANGED <<client, backlog, conn, sock, req, pc>>
    BY <1>2 DEF ClientSend, workerVars
  <2>2. \A d \in Conn : Current(d)' = Current(d)
    BY <2>1, CurrentFrame DEF Serving
  <2>3. UNCHANGED <<HungUp, Opened, Gone>> /\ c \notin HungUp
    BY <2>1 DEF HungUp, Opened, Gone
  <2>4. SessionsOf!Arrive(c, r)
    BY <2>1, <2>2, <2>3 DEF SessionsOf!Arrive
  <2>. QED  BY <2>4 DEF SessionsOf!Next
<1>3. ASSUME NEW c \in Conn, ClientHangup(c) PROVE SessionsOf!Next
  <2>1. /\ client[c] = "open" /\ client' = [client EXCEPT ![c] = "closed"]
        /\ inbox' \in {inbox, [inbox EXCEPT ![c] = <<>>]}
        /\ UNCHANGED <<backlog, conn, sock, req, pc>>
    BY <1>3 DEF ClientHangup, workerVars
  <2>2. \A d \in Conn : Current(d)' = Current(d)
    BY <2>1, CurrentFrame DEF Serving
  <2>3. HungUp' = HungUp \cup {c} /\ c \notin HungUp
    BY <2>1 DEF HungUp, TypeOK
  <2>4. UNCHANGED <<Opened, Gone>>
    BY <2>1 DEF Opened, Gone, TypeOK
  <2>5. SessionsOf!HangUp(c)
    BY <2>1, <2>2, <2>3, <2>4 DEF SessionsOf!HangUp
  <2>. QED  BY <2>5 DEF SessionsOf!Next
<1>4. CASE MainStep /\ ~\E c \in Conn, s \in Sock : Accept(c, s)
  <2>1. UNCHANGED <<client, backlog, conn, inbox, sock, req, pc>>
    BY <1>4 DEF MainStep, kernelVars, workerVars, EpollWait, Disarm, SubmitClient, AcceptBegin,
                EmplaceMutex, EpollAdd, AcceptEnd
  <2>. QED  BY <2>1, Stutter
<1>5. ASSUME NEW c \in Conn, NEW s \in Sock, Accept(c, s) PROVE SessionsOf!Next
  <2>1. /\ c \in backlog /\ conn[s] = NoConn /\ backlog' = backlog \ {c}
        /\ conn' = [conn EXCEPT ![s] = c] /\ conn \in [Sock -> Conn \cup {NoConn}]
        /\ UNCHANGED <<client, inbox, sock, req, pc>>
    BY <1>5 DEF Accept, workerVars, TypeOK
  <2>2. c \notin Opened /\ client[c] # "new" /\ c \notin Gone
    BY <2>1 DEF Waiting, Gone
  <2>3. \A w \in Worker : pc[w] # "idle" => sock[w] # s /\ sock[w] \in Sock
    BY <2>1 DEF NeverOrphaned, Handled, Handles, HandlerOK, TypeOK
  <2>4. \A d \in Conn : Current(d)' = Current(d)
    BY <2>1, <2>3, CurrentFrame DEF Serving
  <2>5. Opened' = Opened \cup {c}
    BY <2>1 DEF Opened
  <2>6. HungUp' = HungUp /\ Gone' = Gone
    BY <2>1, <2>2, <2>5 DEF HungUp, Gone
  <2>7. SessionsOf!Open(c)
    BY <2>1, <2>2, <2>4, <2>5, <2>6 DEF SessionsOf!Open
  <2>. QED  BY <2>7 DEF SessionsOf!Next
<1>6. CASE RaceKills \/ UNCHANGED vars
  BY <1>6, Stutter DEF RaceKills, vars, kernelVars, workerVars
<1>7. ASSUME NEW w \in Worker, RecvRequest(w) PROVE SessionsOf!Next
  <2>0. PICK c \in Conn : c = conn[sock[w]]
    BY <1>7, ConnStays DEF RecvRequest, RemoveClose
  <2>. DEFINE r == Head(inbox[c])
  <2>1. /\ pc[w] = "recv" /\ req[w] = NoRequest /\ inbox[c] # <<>>
        /\ inbox' = [inbox EXCEPT ![c] = Tail(@)]
        /\ req' = [req EXCEPT ![w] = r]
        /\ UNCHANGED <<client, backlog, conn, sock>>
    BY <1>7, <2>0 DEF RecvRequest, HandlerOK
  <2>2. sock[w] \in Sock
    BY <2>1 DEF HandlerOK, TypeOK
  <2>3. r \in Requests
    BY <2>1 DEF TypeOK
  <2>4. \E step \in WorkerSteps \ {"idle"} : pc' = [pc EXCEPT ![w] = step]
    BY <1>7, InsideHandler
  <2>5. /\ req'[w] = r /\ pc'[w] # "idle"
        /\ \A v \in Worker \ {w} : UNCHANGED <<pc[v], req[v]>>
    BY <2>1, <2>4 DEF TypeOK
  <2>6. Current(c) = NoRequest
    BY <2>0, <2>1, CurrentOfHandler
  <2>. HIDE DEF r
  <2>7. Current(c)' = r
    <3>1. Serving(c)' = {w}
      BY <2>0, <2>1, <2>3, <2>5, OnlyHandler DEF Serving
    <3>. QED  BY <2>5, <3>1 DEF Current
  <2>8. ASSUME NEW d \in Conn \ {c} PROVE Current(d)' = Current(d)
    BY <2>0, <2>1, <2>5, CurrentFrame DEF Serving
  <2>9. [d \in Conn |-> Current(d)]' = [[d \in Conn |-> Current(d)] EXCEPT ![c] = r]
    BY <2>7, <2>8
  <2>10. c \in Opened /\ UNCHANGED <<HungUp, Opened, Gone>>
    BY <2>0, <2>1, <2>2, ReactorAssumption DEF HungUp, Opened, Gone
  <2>11. SessionsOf!Begin(c)
    BY <2>1, <2>2, <2>6, <2>9, <2>10 DEF SessionsOf!Begin, r
  <2>. QED  BY <2>2, <2>11 DEF SessionsOf!Next
<1>8. ASSUME NEW w \in Worker, EnableRead(w) PROVE SessionsOf!Next \/ UNCHANGED Mapped
  <2>0. PICK c \in Conn : c = conn[sock[w]]
    BY <1>8, ConnStays DEF EnableRead, Rearm, RemoveClose
  <2>1. /\ pc[w] = "enable" /\ pc' = [pc EXCEPT ![w] = "idle"]
        /\ req' = [req EXCEPT ![w] = NoRequest]
        /\ sock' = [sock EXCEPT ![w] = NoSock]
        /\ UNCHANGED <<client, backlog, conn, inbox>>
    BY <1>8 DEF EnableRead, Rearm, Return, Goto
  <2>2. \A v \in Worker \ {w} : UNCHANGED <<pc[v], req[v], sock[v]>>
    BY <2>1 DEF TypeOK
  <2>3. CASE req[w] = NoRequest
    <3>1. req'[w] = NoRequest
      BY <2>1 DEF TypeOK
    <3>. QED  BY <2>1, <2>2, <2>3, <3>1, Stutter
  <2>4. CASE req[w] # NoRequest
    <3>2. Current(c) = req[w]
      BY <2>0, <2>1, CurrentOfHandler
    <3>3. req[w] \notin {r \in Requests : r.type = "LOGOUT"} \cup {NoRequest}
      BY <2>1, <2>4 DEF Ending, Closing
    <3>4. Current(c)' = NoRequest
      BY <2>0, <2>1, <2>2, LeavesUnhandled DEF TypeOK
    <3>5. ASSUME NEW d \in Conn \ {c} PROVE Current(d)' = Current(d)
      BY <2>0, <2>1, <2>2, CurrentFrame DEF Serving, TypeOK
    <3>6. [d \in Conn |-> Current(d)]' = [[d \in Conn |-> Current(d)] EXCEPT ![c] = NoRequest]
      BY <3>4, <3>5
    <3>7. UNCHANGED <<HungUp, Opened, Gone>>
      BY <2>1 DEF HungUp, Opened, Gone
    <3>8. SessionsOf!Finish(c)
      BY <2>1, <3>2, <3>3, <3>6, <3>7 DEF SessionsOf!Finish
    <3>. QED  BY <3>8 DEF SessionsOf!Next
  <2>. QED  BY <2>3, <2>4
<1>9. ASSUME NEW w \in Worker, RemoveClose(w) PROVE SessionsOf!Next
  <2>0. PICK c \in Conn : c = conn[sock[w]]
    BY <1>9 DEF RemoveClose, HandlerOK, TypeOK, NeverOrphaned, Handled, Handles
  <2>1. /\ pc[w] = "close" /\ pc' = [pc EXCEPT ![w] = "idle"]
        /\ req' = [req EXCEPT ![w] = NoRequest]
        /\ sock' = [sock EXCEPT ![w] = NoSock]
        /\ conn' = [conn EXCEPT ![sock[w]] = NoConn]
        /\ conn \in [Sock -> Conn \cup {NoConn}]
        /\ UNCHANGED <<client, backlog, inbox>>
    BY <1>9 DEF RemoveClose, Return, Goto, TypeOK
  <2>2. \A v \in Worker \ {w} : UNCHANGED <<pc[v], req[v], sock[v]>>
    BY <2>1 DEF TypeOK
  <2>3. sock[w] \in Sock /\ Handles(w, sock[w])
    BY <2>1 DEF HandlerOK, TypeOK, Handles
  <2>5. c \in Opened /\ c \notin backlog /\ client[c] # "new"
    BY <2>0, <2>3, ReactorAssumption DEF Opened, Waiting
  <2>6. Current(c) = req[w]
    BY <2>0, <2>1, CurrentOfHandler
  <2>7. \/ req[w] \in {r \in Requests : r.type = "LOGOUT"}
        \/ c \in HungUp /\ req[w] = NoRequest /\ inbox[c] = <<>>
    BY <2>0, <2>1 DEF Ending, Closing, HungUp, TypeOK
  <2>8. Opened' = Opened \ {c}
    BY <2>0, <2>1, <2>3, ReactorAssumption DEF Opened, OneDescriptor
  <2>9. HungUp' = HungUp /\ Gone' = Gone \cup {c}
    BY <2>1, <2>5, <2>8 DEF HungUp, Gone
  <2>10. Current(c)' = NoRequest
    BY <2>0, <2>1, <2>2, LeavesUnhandled DEF TypeOK
  <2>11. ASSUME NEW d \in Conn \ {c} PROVE Current(d)' = Current(d)
    <3>1. \A v \in Worker \ {w} : pc[v] # "idle" => sock[v] # sock[w] /\ sock[v] \in Sock
      BY <2>1, <2>3 DEF OneOwner, OneHandler, Handles, HandlerOK, TypeOK
    <3>2. w \notin Serving(d) /\ w \notin Serving(d)'
      BY <2>0, <2>1 DEF Serving, TypeOK
    <3>3. \A v \in Worker \ {w} : v \in Serving(d)' <=> v \in Serving(d)
      BY <2>1, <2>2, <3>1 DEF Serving
    <3>. QED  BY <2>2, <3>2, <3>3, CurrentFrame
  <2>12. [d \in Conn |-> Current(d)]' = [[d \in Conn |-> Current(d)] EXCEPT ![c] = NoRequest]
    BY <2>10, <2>11
  <2>13. SessionsOf!Close(c)
    BY <2>1, <2>5, <2>6, <2>7, <2>8, <2>9, <2>12 DEF SessionsOf!Close
  <2>. QED  BY <2>13 DEF SessionsOf!Next
<1>. QED
  BY <1>1, <1>2, <1>3, <1>4, <1>5, <1>6, <1>7, <1>8, <1>9, HandlerStutter
  DEF Next, ClientStep, WorkerStep

LEMMA RefinedInit == Init => SessionsOf!Init
<1>. SUFFICES ASSUME Init PROVE SessionsOf!Init
  OBVIOUS
<1>1. \A c \in Conn : Current(c) = NoRequest
  BY CurrentUnhandled DEF Init
<1>. QED  BY <1>1, ReactorAssumption DEF Init, SessionsOf!Init, HungUp, Opened, Gone

LEMMA InitSession == Init => SessionInv
BY ReactorAssumption DEF Init, SessionInv, OneDescriptor, Waiting, Ending, Closing, Opened

\* The invariant of the mapping, for every reachable state.
THEOREM SessionInvariance == Spec => []SessionInv
<1>1. Inv /\ SessionInv /\ [Next]_vars => SessionInv'
  BY DescriptorStep, EndingStep DEF SessionInv
<1>. QED  BY <1>1, InitSession, Invariance, PTL DEF Spec

\* However many connections, descriptors and threads there are, and however
\* their steps interleave, each connection is served in order, one request at
\* a time, and closed only when it asked for it or its peer is gone.
THEOREM Refinement == Spec => ImplementsSessions
<1>1. Inv /\ SessionInv /\ [Next]_vars => [SessionsOf!Next]_(SessionsOf!sessionVars)
  BY RefinedStep DEF Mapped, SessionsOf!sessionVars
<1>. QED
  BY <1>1, RefinedInit, Invariance, SessionInvariance, PTL
  DEF Spec, ImplementsSessions, SessionsOf!Spec

-----------------------------------------------------------------------------
(* Sessions of users: who may begin and end them.                          *)

\* A handler that asks the registry for a login has a LOGIN in hand.
LoggingIn == \A w \in Worker : pc[w] = "login" => req[w].type = "LOGIN"

LEMMA LoggingInStep ==
  ASSUME Inv, LoggingIn, [Next]_vars
  PROVE  LoggingIn'
<1>. SUFFICES ASSUME NEW w \in Worker, pc'[w] = "login" PROVE req'[w].type = "LOGIN"
  BY DEF LoggingIn
<1>. USE DEF Inv
<1>1. CASE UNCHANGED <<pc[w], req[w]>>
  BY <1>1 DEF LoggingIn
<1>2. CASE RecvRequest(w)
  <2>. DEFINE r == Head(inbox[conn[sock[w]]])
  <2>1. conn[sock[w]] \in Conn
    BY <1>2, ConnStays DEF RecvRequest, RemoveClose
  <2>2. r \in Requests
    BY <1>2, <2>1 DEF RecvRequest, TypeOK
  <2>3. PICK plan \in Dispatch[r.type] : Goto(w, plan[1])
    BY <1>2 DEF RecvRequest
  <2>4. req'[w] = r /\ plan[1] = "login"
    BY <1>2, <2>3 DEF RecvRequest, Goto, TypeOK
  <2>. HIDE DEF r
  <2>5. r.type \in DOMAIN Dispatch
    BY <2>2, ReactorAssumption DEF Addressed, Dispatch
  <2>. QED  BY <2>3, <2>4, <2>5 DEF Dispatch
<1>3. CASE Send(w) \/ MissMutex(w)
  BY <1>3 DEF Send, MissMutex, AfterSend, More, Goto, TypeOK
<1>4. CASE SendKills(w)
  BY <1>1, <1>4 DEF SendKills, workerVars
<1>5. CASE \/ Take(w) \/ RecvEnd(w) \/ RecvAgain(w) \/ HandleLogin(w) \/ Lookup(w)
           \/ FindMutex(w) \/ LockMutex(w) \/ EnableRead(w)
           \/ RemoveLogout(w) \/ RemoveEpoll(w) \/ RemoveMutex(w) \/ RemoveClose(w)
  BY <1>5 DEF Take, RecvNothing, RecvEnd, RecvAgain, HandleLogin, Lookup, FindMutex, LockMutex,
              EnableRead, Rearm, RemoveLogout, RemoveEpoll, RemoveMutex, RemoveClose, Return,
              Goto, TypeOK
<1>. QED  BY <1>1, <1>2, <1>3, <1>4, <1>5, LocalsOnly DEF WorkerStep

\* Only the handler of a socket binds and unbinds it, with the request or the
\* end of stream that says so.
LEMMA BindingStep ==
  ASSUME Inv, SessionInv, LoggingIn, [Next]_vars, NEW s \in Sock,
         socketUsers'[s] # socketUsers[s]
  PROVE  \E w \in Worker :
           /\ EndsSession(w, s)
           /\ socketUsers'[s] # NoUser => BeginsSession(w, s, socketUsers'[s])
<1>. USE DEF Inv, SessionInv
<1>1. PICK w \in Worker : /\ sock[w] = s /\ pc[w] \in {"login", "logout"}
                          /\ HandleLogin(w) \/ RemoveLogout(w)
  BY RegistryStep
<1>2. Handles(w, s)
  BY <1>1 DEF Handles
<1>3. CASE HandleLogin(w)
  <2>1. req[w] # NoRequest /\ req[w].type = "LOGIN"
    BY <1>3 DEF HandleLogin, HandlerOK, LoggingIn
  <2>2. socketUsers'[s] # NoUser => socketUsers'[s] = req[w].user
    BY <1>1, <1>3 DEF HandleLogin, LoginAccepted, LoginRefused, managerVars, TypeOK,
       ManagerTypeOK
  <2>. QED  BY <1>2, <2>1, <2>2 DEF EndsSession, BeginsSession
<1>4. CASE RemoveLogout(w)
  <2>1. socketUsers'[s] = NoUser
    BY <1>1, <1>4 DEF RemoveLogout, Logout, TypeOK, ManagerTypeOK
  <2>2. IF req[w] = NoRequest THEN Ended(w) ELSE req[w].type = "LOGOUT"
    BY <1>4 DEF RemoveLogout, Ending, Closing, Ended
  <2>. QED  BY <1>2, <2>1, <2>2 DEF EndsSession
<1>. QED  BY <1>1, <1>3, <1>4

\* Whatever the interleaving, and however often its descriptor number is used
\* again, a user's session is begun by his LOGIN and ended by the requests, or
\* the end, of the connection it is on, and by nothing else.
THEOREM SessionsStand == Spec => SessionsKept
<1>. DEFINE Kept ==
       \A u \in User :
         /\ onlineUsers[u] \notin {NoSock, onlineUsers'[u]} =>
              \E w \in Worker : EndsSession(w, onlineUsers[u])
         /\ onlineUsers'[u] \notin {NoSock, onlineUsers[u]} =>
              \E w \in Worker : BeginsSession(w, onlineUsers'[u], u)
<1>1. Inv /\ SessionInv /\ LoggingIn /\ [Next]_vars => Kept
  <2>. SUFFICES ASSUME Inv, SessionInv, LoggingIn, [Next]_vars, NEW u \in User
                PROVE  /\ onlineUsers[u] \notin {NoSock, onlineUsers'[u]} =>
                            \E w \in Worker : EndsSession(w, onlineUsers[u])
                       /\ onlineUsers'[u] \notin {NoSock, onlineUsers[u]} =>
                            \E w \in Worker : BeginsSession(w, onlineUsers'[u], u)
    OBVIOUS
  <2>1. Inv'
    BY InvStep
  <2>2. u # NoUser
    BY ManagerAssumption
  <2>3. /\ onlineUsers[u] \in Sock \cup {NoSock} /\ onlineUsers'[u] \in Sock \cup {NoSock}
        /\ \A s \in Sock : (onlineUsers[u] = s <=> socketUsers[s] = u)
        /\ \A s \in Sock : (onlineUsers'[u] = s <=> socketUsers'[s] = u)
    BY <2>1 DEF Inv, TypeOK, ManagerTypeOK, RegistryInverse
  <2>4. ASSUME onlineUsers[u] \notin {NoSock, onlineUsers'[u]}
        PROVE  \E w \in Worker : EndsSession(w, onlineUsers[u])
    <3>1. onlineUsers[u] \in Sock /\ socketUsers'[onlineUsers[u]] # socketUsers[onlineUsers[u]]
      BY <2>3, <2>4
    <3>. QED  BY <3>1, BindingStep
  <2>5. ASSUME onlineUsers'[u] \notin {NoSock, onlineUsers[u]}
        PROVE  \E w \in Worker : BeginsSession(w, onlineUsers'[u], u)
    <3>. DEFINE s == onlineUsers'[u]
    <3>1. s \in Sock /\ socketUsers'[s] = u /\ socketUsers'[s] # socketUsers[s]
      BY <2>3, <2>5
    <3>. HIDE DEF s
    <3>2. \E w \in Worker : BeginsSession(w, s, u)
      BY <2>2, <3>1, BindingStep
    <3>. QED  BY <3>2 DEF s
  <2>. QED  BY <2>4, <2>5
<1>2. Init => LoggingIn
  BY DEF Init, LoggingIn
<1>3. Spec => []LoggingIn
  BY <1>2, LoggingInStep, Invariance, PTL DEF Spec
<1>4. [Next]_vars /\ Inv /\ SessionInv /\ LoggingIn => [Kept]_vars
  BY <1>1
<1>. QED  BY <1>3, <1>4, Invariance, SessionInvariance, PTL DEF Spec, SessionsKept

=============================================================================
