---------------------------- MODULE UserManager ----------------------------
(***************************************************************************)
(* REGISTER and LOGIN: the methods of UserManager on the table of users,   *)
(* a statement at a time, and the handlers that call them and then         *)
(* ClientManager::Login.  The table outlives the process, the registry of  *)
(* online users does not.                                                  *)
(*                                                                         *)
(* A connection has at most one handler at a time (OneOwner of Reactor), so*)
(* the locals of a handler are kept by its socket.                         *)
(***************************************************************************)
EXTENDS ClientManager, Naturals

CONSTANTS Password,
          NoPassword,  \* "no row with this user name"
          NoRequest,   \* "no handler on this socket"
          MaxFaults,   \* bound: statements that fail
          MaxCrashes   \* bound: deaths of the process

Request == [type : {"REGISTER", "LOGIN"}, sender : User, password : Password]

ASSUME UserAssumption ==
  /\ NoPassword \notin Password
  /\ NoRequest \notin Request
  /\ MaxFaults \in Nat
  /\ MaxCrashes \in Nat

VARIABLES
  users,     \* the table: user name, its PRIMARY KEY -> password
  pc,        \* where each socket's handler is
  msg,       \* the request it handles
  result,    \* the result it will answer with, "none" before it has one
  known,     \* history: the sender had an account when the request came
  promised,  \* history: the accounts clients have been told they have
  faults, crashes  \* how many there have been

historyVars == <<known, promised>>
userVars == <<users, pc, msg, result, historyVars, faults, crashes, managerVars>>

Results == {"none", "Success", "UserAlreadyExist", "DatabaseError", "UserNotExist",
            "PasswordError", "AlreadyOnline"}

TypeOK ==
  /\ users \in [User -> Password \cup {NoPassword}]
  /\ pc \in [Sock -> {"idle", "exists", "insert", "query", "login", "reply"}]
  /\ msg \in [Sock -> Request \cup {NoRequest}]
  /\ result \in [Sock -> Results]
  /\ known \in [Sock -> BOOLEAN]
  /\ promised \subseteq User \X Password
  /\ faults \in 0..MaxFaults
  /\ crashes \in 0..MaxCrashes
  /\ ManagerTypeOK

Init ==
  /\ users = [u \in User |-> NoPassword]
  /\ pc = [s \in Sock |-> "idle"]
  /\ msg = [s \in Sock |-> NoRequest]
  /\ result = [s \in Sock |-> "none"]
  /\ known = [s \in Sock |-> FALSE]
  /\ promised = {}
  /\ faults = 0
  /\ crashes = 0
  /\ ManagerInit

-----------------------------------------------------------------------------
Exists(u) == users[u] # NoPassword

\* Mutant: Register relies on the primary key alone.
RegisterInserts(r) == IF r.type = "REGISTER" THEN "insert" ELSE "exists"

\* Both methods ask UserExists first.
FirstStep(r) == "exists"

Receive(s, r) ==
  /\ pc[s] = "idle"
  /\ pc' = [pc EXCEPT ![s] = FirstStep(r)]
  /\ msg' = [msg EXCEPT ![s] = r]
  /\ known' = [known EXCEPT ![s] = Exists(r.sender)]
  /\ UNCHANGED <<users, result, promised, faults, crashes, managerVars>>

Goto(s, step) ==
  /\ pc' = [pc EXCEPT ![s] = step]
  /\ UNCHANGED <<result, promised>>

\* The method, or the handler, has its result.
Result(s, outcome) ==
  /\ result' = [result EXCEPT ![s] = outcome]
  /\ pc' = [pc EXCEPT ![s] = "reply"]
  /\ UNCHANGED promised

\* Where each method goes on when UserExists answers so.
Answered(s, exists) ==
  /\ pc[s] = "exists"
  /\ \/ msg[s].type = "REGISTER" /\ exists /\ Result(s, "UserAlreadyExist")
     \/ msg[s].type = "REGISTER" /\ ~exists /\ Goto(s, "insert")
     \/ msg[s].type = "LOGIN" /\ exists /\ Goto(s, "query")
     \/ msg[s].type = "LOGIN" /\ ~exists /\ Result(s, "UserNotExist")
  /\ UNCHANGED <<users, msg, known, crashes, managerVars>>

UserExists(s) == Answered(s, Exists(msg[s].sender)) /\ UNCHANGED faults

\* Mutant: INSERT OR REPLACE.
Replaced(u, p) == [users EXCEPT ![u] = p]

\* INSERT leaves the row of a key that is there alone, and fails.
Inserted(u, p) == IF Exists(u) THEN users ELSE [users EXCEPT ![u] = p]

Insert(s) ==
  /\ pc[s] = "insert"
  /\ users' = Inserted(msg[s].sender, msg[s].password)
  /\ Result(s, IF users' # users THEN "Success" ELSE "DatabaseError")
  /\ UNCHANGED <<msg, known, faults, crashes, managerVars>>

Matches(s) == users[msg[s].sender] = msg[s].password

\* QueryString and the comparison.
QueryPassword(s) ==
  /\ pc[s] = "query"
  /\ IF Matches(s)
       THEN Goto(s, "login")
       ELSE Result(s, IF Exists(msg[s].sender) THEN "PasswordError" ELSE "UserNotExist")
  /\ UNCHANGED <<users, msg, known, faults, crashes, managerVars>>

\* ClientManager::Login has the last word.
Login(s) ==
  /\ pc[s] = "login"
  /\ \/ LoginAccepted(msg[s].sender, s) /\ Result(s, "Success")
     \/ LoginRefused(msg[s].sender, s) /\ Result(s, "AlreadyOnline")
  /\ UNCHANGED <<users, msg, known, faults, crashes>>

Reply(s) ==
  /\ pc[s] = "reply"
  /\ promised' = IF msg[s].type = "REGISTER" /\ result[s] = "Success"
                   THEN promised \cup {<<msg[s].sender, msg[s].password>>} ELSE promised
  /\ pc' = [pc EXCEPT ![s] = "idle"]
  /\ msg' = [msg EXCEPT ![s] = NoRequest]
  /\ result' = [result EXCEPT ![s] = "none"]
  /\ known' = [known EXCEPT ![s] = FALSE]
  /\ UNCHANGED <<users, faults, crashes, managerVars>>

\* RemoveConnection, as far as the registry goes.
Disconnect(s) ==
  /\ pc[s] = "idle"
  /\ Logout(s)
  /\ UNCHANGED <<users, pc, msg, result, historyVars, faults, crashes>>

-----------------------------------------------------------------------------
(* Failures.                                                               *)

Fault == faults < MaxFaults /\ faults' = faults + 1

ExistsFails(s) == Fault /\ Answered(s, FALSE)

InsertFails(s) ==
  /\ pc[s] = "insert"
  /\ Fault
  /\ Result(s, "DatabaseError")
  /\ UNCHANGED <<users, msg, known, crashes, managerVars>>

QueryFails(s) ==
  /\ pc[s] = "query"
  /\ Fault
  /\ Result(s, "UserNotExist")
  /\ UNCHANGED <<users, msg, known, crashes, managerVars>>

\* The process dies and is started again: the answers it owed are lost.
Crash ==
  /\ crashes < MaxCrashes
  /\ crashes' = crashes + 1
  /\ pc' = [s \in Sock |-> "idle"]
  /\ msg' = [s \in Sock |-> NoRequest]
  /\ result' = [s \in Sock |-> "none"]
  /\ known' = [s \in Sock |-> FALSE]
  /\ onlineUsers' = [u \in User |-> NoSock]
  /\ socketUsers' = [s \in Sock |-> NoUser]
  /\ UNCHANGED <<users, promised, faults>>

Handler(s) ==
  \/ UserExists(s) \/ Insert(s) \/ QueryPassword(s) \/ Login(s) \/ Reply(s)
  \/ ExistsFails(s) \/ InsertFails(s) \/ QueryFails(s)

Next ==
  \/ Crash
  \/ \E s \in Sock :
       Disconnect(s) \/ Handler(s) \/ \E r \in Request : Receive(s, r)

Spec == Init /\ [][Next]_userVars

-----------------------------------------------------------------------------
(* Properties.                                                             *)

(***************************************************************************)
(* A registration that was answered with success stands: the account is    *)
(* there, with that password, whatever other registrations of the name     *)
(* were under way between its check and its INSERT, and over restarts.     *)
(***************************************************************************)
PromisesKept == \A a \in promised : users[a[1]] = a[2]

(***************************************************************************)
(* Without failures of the database an answer is about the account and     *)
(* not about the race: a name that was taken before the request came is    *)
(* answered so, never with a database error, and the account of a LOGIN    *)
(* is not denied.  Only a registration that another one overtook gets the  *)
(* database error of the primary key.                                      *)
(***************************************************************************)
AnswersFit ==
  faults = 0 =>
    \A s \in Sock :
      /\ result[s] = "DatabaseError" => ~known[s] /\ Exists(msg[s].sender)
      /\ result[s] = "UserNotExist" => ~known[s]

(***************************************************************************)
(* Whatever the interleaving of statements, registry calls, failures and   *)
(* restarts, each request takes effect as if at one moment: the handlers   *)
(* implement Accounts.                                                     *)
(***************************************************************************)
AccountsOf ==
  INSTANCE Accounts WITH
    account <- users,
    online  <- onlineUsers,
    request <- msg,
    answer  <- result

ImplementsAccounts == AccountsOf!Spec

=============================================================================
