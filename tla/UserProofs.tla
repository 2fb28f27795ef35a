----------------------------- MODULE UserProofs -----------------------------
(***************************************************************************)
(* Proofs about UserManager, for any number of users, passwords, sockets,  *)
(* failing statements and restarts.                                        *)
(***************************************************************************)
EXTENDS UserManager, ClientManagerProofs, TLAPS

(***************************************************************************)
(* Between two statements a handler may rely on what the earlier one told  *)
(* it, as far as no other handler can change it: an account that was there *)
(* is there, with the password it had.  Only "there is none" may be stale  *)
(* when the INSERT comes.                                                  *)
(***************************************************************************)
LocalOK(s) ==
  /\ pc[s] = "idle" <=> msg[s] = NoRequest
  /\ pc[s] = "reply" <=> result[s] # "none"
  /\ pc[s] = "insert" => msg[s].type = "REGISTER"
  /\ pc[s] = "query" => msg[s].type = "LOGIN" /\ Exists(msg[s].sender)
  /\ pc[s] = "login" => msg[s].type = "LOGIN" /\ Matches(s)
  /\ result[s] = "Success" => Matches(s)

\* What was known of the sender's account when the request came still holds,
\* and as long as no statement has failed the handler and its answer agree.
KnownOK(s) ==
  /\ known[s] => msg[s] # NoRequest /\ Exists(msg[s].sender)
  /\ faults = 0 =>
       /\ pc[s] = "insert" => ~known[s]
       /\ result[s] = "DatabaseError" => ~known[s] /\ Exists(msg[s].sender)
       /\ result[s] = "UserNotExist" => ~known[s]

LocalsOK == \A s \in Sock : LocalOK(s)

AllKnownOK == \A s \in Sock : KnownOK(s)

Inv == TypeOK /\ RegistryInverse /\ LocalsOK /\ AllKnownOK /\ PromisesKept

-----------------------------------------------------------------------------
(* Accounts are never changed.                                             *)

AccountsStay == \A u \in User : Exists(u) => users'[u] = users[u]

\* The only statement that writes the table is the INSERT, and the primary
\* key keeps it off a row that is there.
LEMMA InsertAdds ==
  ASSUME TypeOK, NEW u \in User, NEW p \in Password
  PROVE  /\ Inserted(u, p) \in [User -> Password \cup {NoPassword}]
         /\ \A v \in User : Exists(v) => Inserted(u, p)[v] = users[v]
         /\ Inserted(u, p)[u] # NoPassword
         /\ Inserted(u, p) # users <=> ~Exists(u)
         /\ Inserted(u, p) # users => Inserted(u, p)[u] = p
BY UserAssumption DEF TypeOK, Inserted, Exists

LEMMA AccountsStep == TypeOK /\ LocalsOK /\ [Next]_userVars => AccountsStay
<1>. SUFFICES ASSUME TypeOK, LocalsOK, [Next]_userVars PROVE AccountsStay
  OBVIOUS
<1>1. ASSUME NEW s \in Sock, Insert(s) PROVE AccountsStay
  <2>1. msg[s] \in Request
    BY <1>1 DEF Insert, LocalsOK, LocalOK, TypeOK
  <2>. QED  BY <1>1, <2>1, InsertAdds DEF Insert, AccountsStay, Request
<1>2. CASE UNCHANGED users
  BY <1>2 DEF AccountsStay
<1>. QED
  BY <1>1, <1>2 DEF Next, Handler, Crash, Disconnect, UserExists, ExistsFails, Answered,
     QueryPassword, Login, Reply, InsertFails, QueryFails, Receive, userVars

-----------------------------------------------------------------------------
(* Types, and the registry.                                                *)

\* A handler that is at work has a request, and one that asks the registry
\* names a user and a socket.
LEMMA TypedStep == TypeOK /\ LocalsOK /\ [Next]_userVars => TypeOK'
<1>. SUFFICES ASSUME TypeOK, LocalsOK, [Next]_userVars PROVE TypeOK'
  OBVIOUS
<1>. USE UserAssumption DEF TypeOK, Results, managerVars
<1>1. ASSUME NEW s \in Sock, pc[s] # "idle"
      PROVE  msg[s] \in Request /\ msg[s].sender \in User /\ msg[s].password \in Password
             /\ msg[s].type \in {"REGISTER", "LOGIN"}
  BY <1>1 DEF LocalsOK, LocalOK, Request
<1>2. ASSUME NEW s \in Sock, NEW exists \in BOOLEAN, Answered(s, exists),
             faults' \in 0..MaxFaults
      PROVE  TypeOK'
  BY <1>1, <1>2 DEF Answered, Goto, Result, ManagerTypeOK
<1>3. CASE Crash
  BY <1>3, ManagerAssumption DEF Crash, ManagerTypeOK
<1>4. ASSUME NEW s \in Sock, Disconnect(s) PROVE TypeOK'
  BY <1>4 DEF Disconnect, Logout, WithoutSocket, ManagerTypeOK, historyVars
<1>5. ASSUME NEW s \in Sock, NEW r \in Request, Receive(s, r) PROVE TypeOK'
  BY <1>5 DEF Receive, FirstStep, Exists, Request, ManagerTypeOK
<1>6. ASSUME NEW s \in Sock, UserExists(s) PROVE TypeOK'
  <2>1. Exists(msg[s].sender) \in BOOLEAN
    BY DEF Exists
  <2>. QED  BY <1>2, <1>6, <2>1 DEF UserExists
<1>7. ASSUME NEW s \in Sock, Insert(s) PROVE TypeOK'
  <2>1. users' \in [User -> Password \cup {NoPassword}]
    BY <1>1, <1>7, InsertAdds DEF Insert
  <2>. QED  BY <1>7, <2>1 DEF Insert, Result, ManagerTypeOK
<1>8. ASSUME NEW s \in Sock, QueryPassword(s) PROVE TypeOK'
  BY <1>8 DEF QueryPassword, Goto, Result, ManagerTypeOK
<1>9. ASSUME NEW s \in Sock, Login(s) PROVE TypeOK'
  <2>1. ManagerTypeOK'
    BY <1>1, <1>9, LoginTyped DEF Login
  <2>. QED  BY <1>9, <2>1 DEF Login, Result
<1>10. ASSUME NEW s \in Sock, Reply(s) PROVE TypeOK'
  BY <1>1, <1>10 DEF Reply, ManagerTypeOK
<1>11. ASSUME NEW s \in Sock, ExistsFails(s) PROVE TypeOK'
  <2>1. faults' \in 0..MaxFaults
    BY <1>11 DEF ExistsFails, Fault
  <2>. QED  BY <1>2, <1>11, <2>1 DEF ExistsFails
<1>12. ASSUME NEW s \in Sock, InsertFails(s) PROVE TypeOK'
  BY <1>12 DEF InsertFails, Result, Fault, ManagerTypeOK
<1>13. ASSUME NEW s \in Sock, QueryFails(s) PROVE TypeOK'
  BY <1>13 DEF QueryFails, Result, Fault, ManagerTypeOK
<1>14. CASE UNCHANGED userVars
  BY <1>14 DEF userVars, historyVars, ManagerTypeOK
<1>. QED
  BY <1>3, <1>4, <1>5, <1>6, <1>7, <1>8, <1>9, <1>10, <1>11, <1>12, <1>13, <1>14
  DEF Next, Handler

\* The registry is written by Login, Logout and a restart.
LEMMA RegistryStep == TypeOK /\ RegistryInverse /\ LocalsOK /\ [Next]_userVars => RegistryInverse'
<1>. SUFFICES ASSUME TypeOK, RegistryInverse, LocalsOK, [Next]_userVars PROVE RegistryInverse'
  OBVIOUS
<1>1. CASE Crash
  BY <1>1, ManagerAssumption DEF Crash, RegistryInverse
<1>2. ASSUME NEW s \in Sock, Disconnect(s) PROVE RegistryInverse'
  BY <1>2, UnboundKeepsInverse DEF Disconnect, Logout, TypeOK
<1>3. ASSUME NEW s \in Sock, Login(s) PROVE RegistryInverse'
  <2>1. msg[s].sender \in User
    BY <1>3 DEF Login, LocalsOK, LocalOK, TypeOK, Request
  <2>. QED
    BY <1>3, <2>1, AcceptedKeepsInverse, UnboundKeepsInverse DEF Login, LoginRefused, TypeOK
<1>4. CASE UNCHANGED managerVars
  BY <1>4 DEF managerVars, RegistryInverse
<1>. QED
  BY <1>1, <1>2, <1>3, <1>4 DEF Next, Handler, Receive, UserExists, ExistsFails, Answered,
     Insert, QueryPassword, Reply, InsertFails, QueryFails, userVars

-----------------------------------------------------------------------------
(* The locals of the handlers.                                             *)

\* A step leaves the locals of handler s alone.
Spares(s) ==
  /\ pc'[s] = pc[s]
  /\ msg'[s] = msg[s]
  /\ result'[s] = result[s]
  /\ known'[s] = known[s]

\* What a handler has found out of an account survives what the others do.
LEMMA SparedKept ==
  ASSUME TypeOK, NEW s \in Sock, LocalOK(s), KnownOK(s), Spares(s), AccountsStay,
         faults' = 0 => faults = 0
  PROVE  LocalOK(s)' /\ KnownOK(s)'
<1>1. msg[s] # NoRequest => msg[s].sender \in User /\ msg[s].password \in Password
  BY DEF TypeOK, Request
<1>2. msg[s] # NoRequest /\ Exists(msg[s].sender) => Exists(msg[s].sender)'
  BY <1>1 DEF Exists, AccountsStay, Spares
<1>3. msg[s] # NoRequest /\ Matches(s) => Matches(s)'
  BY <1>1, UserAssumption DEF Exists, AccountsStay, Spares, Matches
<1>4. result[s] # "none" => msg[s] # NoRequest
  BY DEF LocalOK
<1>5. LocalOK(s)'
  BY <1>2, <1>3, <1>4 DEF LocalOK, Spares
<1>6. KnownOK(s)'
  BY <1>2, <1>4 DEF KnownOK, Spares
<1>. QED  BY <1>5, <1>6

\* Each step of a handler leaves it with locals that its next step may use.
LEMMA HandlerKept ==
  ASSUME TypeOK, NEW s \in Sock, LocalOK(s), KnownOK(s), AccountsStay,
         Handler(s) \/ \E r \in Request : Receive(s, r)
  PROVE  LocalOK(s)' /\ KnownOK(s)'
<1>. USE UserAssumption DEF TypeOK
<1>1. pc[s] # "idle" =>
        msg[s] \in Request /\ msg[s].sender \in User /\ msg[s].password \in Password
          /\ msg[s].type \in {"REGISTER", "LOGIN"}
  BY DEF LocalOK, Request
<1>2. ASSUME NEW r \in Request, Receive(s, r) PROVE LocalOK(s)' /\ KnownOK(s)'
  BY <1>2 DEF Receive, FirstStep, LocalOK, KnownOK, Exists
<1>3. CASE UserExists(s)
  BY <1>1, <1>3 DEF UserExists, Answered, Goto, Result, LocalOK, KnownOK, Exists, Matches
<1>4. CASE Insert(s)
  <2>1. /\ users'[msg[s].sender] # NoPassword
        /\ users' # users => users'[msg[s].sender] = msg[s].password
        /\ users' # users <=> ~Exists(msg[s].sender)
    BY <1>1, <1>4, InsertAdds DEF Insert
  <2>. QED
    BY <1>1, <1>4, <2>1 DEF Insert, Result, LocalOK, KnownOK, Exists, Matches
<1>5. CASE QueryPassword(s)
  BY <1>1, <1>5 DEF QueryPassword, Goto, Result, LocalOK, KnownOK, Exists, Matches
<1>6. CASE Login(s)
  BY <1>1, <1>6 DEF Login, Result, LocalOK, KnownOK, Exists, Matches
<1>7. CASE Reply(s)
  BY <1>7 DEF Reply, LocalOK, KnownOK
<1>8. faults' = 0 => ~Fault
  BY DEF Fault
<1>9. CASE ExistsFails(s)
  BY <1>1, <1>8, <1>9 DEF ExistsFails, Answered, Goto, Result, LocalOK, KnownOK, Exists, Matches
<1>10. CASE InsertFails(s)
  BY <1>1, <1>8, <1>10 DEF InsertFails, Result, LocalOK, KnownOK, Exists, Matches
<1>11. CASE QueryFails(s)
  BY <1>1, <1>8, <1>11 DEF QueryFails, Result, LocalOK, KnownOK, Exists, Matches
<1>. QED
  BY <1>2, <1>3, <1>4, <1>5, <1>6, <1>7, <1>9, <1>10, <1>11 DEF Handler

\* A handler's step spares all the others, and faults are only added to.
LEMMA OthersSpared ==
  ASSUME TypeOK, NEW s \in Sock, Handler(s) \/ \E r \in Request : Receive(s, r)
  PROVE  (\A x \in Sock \ {s} : Spares(x)) /\ (faults' = 0 => faults = 0)
<1>. USE DEF TypeOK, Spares, Goto, Result
<1>1. ASSUME NEW r \in Request, Receive(s, r) PROVE (\A x \in Sock \ {s} : Spares(x)) /\ faults' = faults
  BY <1>1 DEF Receive
<1>2. ASSUME NEW exists, Answered(s, exists) PROVE \A x \in Sock \ {s} : Spares(x)
  BY <1>2 DEF Answered
<1>3. CASE UserExists(s)
  BY <1>2, <1>3 DEF UserExists
<1>4. CASE Insert(s)
  BY <1>4 DEF Insert
<1>5. CASE QueryPassword(s)
  BY <1>5 DEF QueryPassword
<1>6. CASE Login(s)
  BY <1>6 DEF Login
<1>7. CASE Reply(s)
  BY <1>7 DEF Reply
<1>8. Fault /\ faults' = 0 => faults = 0
  BY DEF Fault
<1>9. CASE ExistsFails(s)
  BY <1>2, <1>8, <1>9 DEF ExistsFails
<1>10. CASE InsertFails(s)
  BY <1>8, <1>10 DEF InsertFails
<1>11. CASE QueryFails(s)
  BY <1>8, <1>11 DEF QueryFails
<1>. QED
  BY <1>1, <1>3, <1>4, <1>5, <1>6, <1>7, <1>9, <1>10, <1>11 DEF Handler

LEMMA LocalsStep ==
  TypeOK /\ LocalsOK /\ AllKnownOK /\ [Next]_userVars => LocalsOK' /\ AllKnownOK'
<1>. SUFFICES ASSUME TypeOK, LocalsOK, AllKnownOK, [Next]_userVars,
                     NEW x \in Sock
              PROVE  LocalOK(x)' /\ KnownOK(x)'
  BY DEF LocalsOK, AllKnownOK
<1>1. LocalOK(x) /\ KnownOK(x) /\ AccountsStay
  BY AccountsStep DEF LocalsOK, AllKnownOK
<1>2. CASE Crash
  BY <1>2 DEF Crash, LocalOK, KnownOK
<1>3. ASSUME NEW s \in Sock, Handler(s) \/ \E r \in Request : Receive(s, r)
      PROVE  LocalOK(x)' /\ KnownOK(x)'
  <2>1. CASE x = s
    BY <1>1, <1>3, <2>1, HandlerKept
  <2>2. CASE x # s
    BY <1>1, <1>3, <2>2, OthersSpared, SparedKept
  <2>. QED  BY <2>1, <2>2
<1>4. CASE UNCHANGED <<pc, msg, result, known, faults>>
  BY <1>1, <1>4, SparedKept DEF Spares
<1>. QED
  BY <1>2, <1>3, <1>4 DEF Next, Disconnect, userVars, historyVars

-----------------------------------------------------------------------------
(* What clients were told.                                                 *)

LEMMA PromisesStep == TypeOK /\ LocalsOK /\ PromisesKept /\ [Next]_userVars => PromisesKept'
<1>. SUFFICES ASSUME TypeOK, LocalsOK, PromisesKept, [Next]_userVars,
                     NEW a \in promised'
              PROVE  users'[a[1]] = a[2]
  BY DEF PromisesKept
<1>1. AccountsStay
  BY AccountsStep
<1>2. CASE a \in promised
  <2>1. a[1] \in User /\ Exists(a[1])
    BY <1>2, UserAssumption DEF TypeOK, PromisesKept, Exists
  <2>. QED  BY <1>1, <1>2, <2>1 DEF AccountsStay, PromisesKept
<1>3. ASSUME NEW s \in Sock, Reply(s), a \notin promised PROVE users'[a[1]] = a[2]
  BY <1>3 DEF Reply, LocalsOK, LocalOK, Matches
<1>4. promised' = promised \/ \E s \in Sock : Reply(s)
  <2>1. ASSUME NEW s \in Sock, NEW exists, Answered(s, exists) PROVE promised' = promised
    BY <2>1 DEF Answered, Goto, Result
  <2>. QED
    BY <2>1 DEF Next, Handler, Crash, Disconnect, UserExists, ExistsFails, Goto, Result, Insert,
       QueryPassword, Login, InsertFails, QueryFails, Receive, userVars, historyVars
<1>. QED  BY <1>2, <1>3, <1>4

-----------------------------------------------------------------------------
LEMMA Initially == Init => Inv
BY UserAssumption, ManagerAssumption
DEF Init, ManagerInit, Inv, TypeOK, ManagerTypeOK, Results, RegistryInverse, LocalsOK, LocalOK,
    AllKnownOK, KnownOK, PromisesKept

\* The inductive invariant: the locals of each handler, and what it knows of
\* its sender's account.
THEOREM Invariance == Spec => []Inv
<1>1. Inv /\ [Next]_userVars => Inv'
  BY TypedStep, RegistryStep, LocalsStep, PromisesStep DEF Inv
<1>. QED  BY Initially, <1>1, PTL DEF Spec

\* The registry's maps stay inverse under logins that switch accounts, are
\* refused, or race, and over restarts.
THEOREM Registry == Spec => []RegistryInverse
BY Invariance, PTL DEF Inv

\* An account that a client was told it has is there for good.
THEOREM AccountsStand == Spec => []PromisesKept
BY Invariance, PTL DEF Inv

\* Without failures, answers are about the account and not about the race.
THEOREM AnswersTrue == Spec => []AnswersFit
<1>1. Inv => AnswersFit
  BY DEF Inv, AllKnownOK, KnownOK, AnswersFit
<1>. QED  BY Invariance, <1>1, PTL

-----------------------------------------------------------------------------
(* UserManager implements Accounts.                                        *)

\* A handler at work has not answered yet, and its request names a user.
LEMMA Deciding ==
  ASSUME TypeOK, LocalsOK, NEW s \in Sock, pc[s] # "idle", pc[s] # "reply"
  PROVE  /\ msg[s] \in Request /\ msg[s] # NoRequest /\ result[s] = "none"
         /\ msg[s].sender \in User /\ msg[s].password \in Password
         /\ msg[s].type \in {"REGISTER", "LOGIN"}
BY UserAssumption DEF TypeOK, LocalsOK, LocalOK, Request

\* Each request takes effect when its result is known.
LEMMA DecidesWithResult ==
  ASSUME TypeOK, LocalsOK, NEW s \in Sock, pc[s] # "idle", pc[s] # "reply",
         NEW outcome, Result(s, outcome), UNCHANGED msg
  PROVE  AccountsOf!Decide(s, msg[s].type, outcome)
BY Deciding DEF Result, AccountsOf!Decide

\* A login takes effect in the registry: the account it was checked against
\* is the same still, and the socket's user is who is online on it.
LEMMA EntersByLogin ==
  ASSUME TypeOK, LocalsOK, RegistryInverse, NEW s \in Sock, Login(s)
  PROVE  AccountsOf!Enter(s)
<1>. DEFINE u == msg[s].sender
<1>1. AccountsOf!Without(s) = WithoutSocket(s)
  BY WithoutBySocket DEF AccountsOf!Without, TypeOK
<1>2. u \in User /\ users[u] = msg[s].password /\ msg[s].type = "LOGIN"
  BY Deciding DEF Login, LocalsOK, LocalOK, Matches
<1>3. CASE LoginAccepted(u, s) /\ Result(s, "Success")
  <2>1. AccountsOf!Decide(s, "LOGIN", "Success")
    BY <1>2, <1>3, DecidesWithResult DEF Login
  <2>. QED  BY <1>1, <1>2, <1>3, <2>1 DEF Login, LoginAccepted, AccountsOf!Enter
<1>4. CASE LoginRefused(u, s) /\ Result(s, "AlreadyOnline")
  <2>1. AccountsOf!Decide(s, "LOGIN", "AlreadyOnline")
    BY <1>2, <1>4, DecidesWithResult DEF Login
  <2>. QED  BY <1>1, <1>2, <1>4, <2>1 DEF Login, LoginRefused, AccountsOf!Enter
<1>. QED  BY <1>3, <1>4 DEF Login

\* A method that has its result without the registry.
LEMMA DecidesInTable ==
  ASSUME TypeOK, LocalsOK, NEW s \in Sock,
         UserExists(s) \/ Insert(s) \/ QueryPassword(s)
  PROVE  \/ AccountsOf!Open(s) \/ AccountsOf!Taken(s) \/ AccountsOf!Deny(s)
         \/ UNCHANGED AccountsOf!vars
<1>. DEFINE u == msg[s].sender
<1>. USE UserAssumption DEF Exists
<1>1. /\ pc[s] # "idle" /\ pc[s] # "reply"
      /\ msg[s].sender \in User /\ msg[s].password \in Password
  BY Deciding DEF UserExists, Answered, Insert, QueryPassword
<1>2. CASE UserExists(s)
  <2>. USE <1>2 DEF UserExists, Answered
  <2>1. CASE msg[s].type = "REGISTER" /\ Exists(u) /\ Result(s, "UserAlreadyExist")
    BY <1>1, <2>1, DecidesWithResult DEF AccountsOf!Taken, managerVars
  <2>2. CASE msg[s].type = "LOGIN" /\ ~Exists(u) /\ Result(s, "UserNotExist")
    BY <1>1, <2>2, DecidesWithResult DEF AccountsOf!Deny, managerVars
  <2>3. CASE Goto(s, "insert") \/ Goto(s, "query")
    BY <2>3 DEF Goto, AccountsOf!vars, managerVars
  <2>. QED  BY <2>1, <2>2, <2>3
<1>3. CASE Insert(s)
  <2>1. msg[s].type = "REGISTER"
    BY <1>3 DEF Insert, LocalsOK, LocalOK
  <2>2. CASE Exists(u)
    BY <1>1, <1>3, <2>1, <2>2, DecidesWithResult
    DEF Insert, Inserted, AccountsOf!Taken, managerVars
  <2>3. CASE ~Exists(u)
    <3>1. users' # users
      BY <1>1, <1>3, <2>3, InsertAdds DEF Insert
    <3>. QED
      BY <1>1, <1>3, <2>1, <2>3, <3>1, DecidesWithResult
      DEF Insert, Inserted, AccountsOf!Open, managerVars
  <2>. QED  BY <2>2, <2>3
<1>4. CASE QueryPassword(s)
  <2>1. msg[s].type = "LOGIN"
    BY <1>4 DEF QueryPassword, LocalsOK, LocalOK
  <2>2. CASE Matches(s)
    BY <1>4, <2>2 DEF QueryPassword, Goto, AccountsOf!vars, managerVars
  <2>3. CASE ~Matches(s)
    BY <1>1, <1>4, <2>1, <2>3, DecidesWithResult
    DEF QueryPassword, Matches, AccountsOf!Deny, managerVars
  <2>. QED  BY <2>2, <2>3
<1>. QED  BY <1>2, <1>3, <1>4

\* A statement that fails decides the request, or nothing yet.
LEMMA DecidesByFault ==
  ASSUME TypeOK, LocalsOK, NEW s \in Sock,
         ExistsFails(s) \/ InsertFails(s) \/ QueryFails(s)
  PROVE  AccountsOf!Fail(s)
<1>1. CASE ExistsFails(s)
  <2>. USE <1>1 DEF ExistsFails, Answered, Fault, AccountsOf!Fail, managerVars
  <2>1. CASE Goto(s, "insert")
    BY <2>1 DEF Goto
  <2>2. CASE msg[s].type = "LOGIN" /\ Result(s, "UserNotExist")
    BY <2>2, DecidesWithResult
  <2>. QED  BY <2>1, <2>2
<1>2. CASE InsertFails(s)
  BY <1>2, DecidesWithResult
  DEF InsertFails, Fault, LocalsOK, LocalOK, AccountsOf!Fail, managerVars
<1>3. CASE QueryFails(s)
  BY <1>3, DecidesWithResult
  DEF QueryFails, Fault, LocalsOK, LocalOK, AccountsOf!Fail, managerVars
<1>. QED  BY <1>1, <1>2, <1>3

LEMMA RefinedStep ==
  Inv /\ [Next]_userVars => [AccountsOf!Next]_(AccountsOf!vars)
<1>. SUFFICES ASSUME Inv, [Next]_userVars PROVE [AccountsOf!Next]_(AccountsOf!vars)
  OBVIOUS
<1>. USE DEF Inv, AccountsOf!Next
<1>1. CASE Crash
  BY <1>1 DEF Crash, AccountsOf!Restart
<1>2. ASSUME NEW s \in Sock, Disconnect(s) PROVE AccountsOf!Disconnect(s)
  <2>1. AccountsOf!Without(s) = WithoutSocket(s)
    BY WithoutBySocket DEF AccountsOf!Without, TypeOK
  <2>. QED
    BY <1>2, <2>1 DEF Disconnect, Logout, LocalsOK, LocalOK, AccountsOf!Disconnect
<1>3. ASSUME NEW s \in Sock, NEW r \in Request, Receive(s, r) PROVE AccountsOf!Ask(s)
  BY <1>3 DEF Receive, LocalsOK, LocalOK, AccountsOf!Ask, managerVars
<1>4. ASSUME NEW s \in Sock, Reply(s) PROVE AccountsOf!Answer(s)
  BY <1>4 DEF Reply, LocalsOK, LocalOK, AccountsOf!Answer, managerVars
<1>5. CASE UNCHANGED userVars
  BY <1>5 DEF userVars, managerVars, AccountsOf!vars
<1>. QED
  BY <1>1, <1>2, <1>3, <1>4, <1>5, EntersByLogin, DecidesInTable, DecidesByFault
  DEF Next, Handler

\* Any number of clients may register and log in at once, statements may fail
\* and the process may be restarted: each request takes effect at one moment,
\* as Accounts says.
THEOREM Refinement == Spec => ImplementsAccounts
<1>1. Init => AccountsOf!Init
  BY DEF Init, ManagerInit, AccountsOf!Init
<1>. QED
  BY <1>1, RefinedStep, Invariance, PTL DEF Spec, ImplementsAccounts, AccountsOf!Spec

=============================================================================
