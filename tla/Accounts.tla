------------------------------ MODULE Accounts ------------------------------
(***************************************************************************)
(* What REGISTER and LOGIN promise a client, with no statement and no lock *)
(* in it: each request takes effect at one moment between its arrival and  *)
(* its answer.  An account is opened once and keeps its password, a login  *)
(* takes the right password and a user who is not online, a connection is  *)
(* one user's at a time.                                                   *)
(***************************************************************************)
EXTENDS Naturals

CONSTANTS User, Sock, Password,
          NoPassword,  \* "there is no such account"
          NoSock,      \* "this user is not online"
          Request,     \* the requests there are
          NoRequest    \* "no request of this connection is being handled"

VARIABLES account,  \* the password of each user's account
          online,   \* the connection each user is online on
          request,  \* the request of each connection
          answer,   \* the answer to it, "none" before it is decided
          faults    \* statements that have failed

vars == <<account, online, request, answer, faults>>

Init ==
  /\ account = [u \in User |-> NoPassword]
  /\ online = [u \in User |-> NoSock]
  /\ request = [s \in Sock |-> NoRequest]
  /\ answer = [s \in Sock |-> "none"]
  /\ faults = 0

\* online once connection s is nobody's.
Without(s) == [u \in User |-> IF online[u] = s THEN NoSock ELSE online[u]]

Ask(s) ==
  /\ request[s] = NoRequest
  /\ \E r \in Request : request' = [request EXCEPT ![s] = r]
  /\ UNCHANGED <<account, online, answer, faults>>

\* The moment a request of this type takes effect, with this answer.
Decide(s, type, a) ==
  /\ request[s] # NoRequest
  /\ request[s].type = type
  /\ answer[s] = "none"
  /\ answer' = [answer EXCEPT ![s] = a]
  /\ UNCHANGED request

Open(s) ==
  /\ Decide(s, "REGISTER", "Success")
  /\ account[request[s].sender] = NoPassword
  /\ account' = [account EXCEPT ![request[s].sender] = request[s].password]
  /\ UNCHANGED <<online, faults>>

Taken(s) ==
  /\ Decide(s, "REGISTER", "UserAlreadyExist") \/ Decide(s, "REGISTER", "DatabaseError")
  /\ account[request[s].sender] # NoPassword
  /\ UNCHANGED <<account, online, faults>>

\* Whatever the outcome, the connection's previous user is logged out.
Enter(s) ==
  LET u == request[s].sender  free == Without(s)[u] = NoSock IN
  /\ Decide(s, "LOGIN", IF free THEN "Success" ELSE "AlreadyOnline")
  /\ account[u] = request[s].password
  /\ online' = IF free THEN [Without(s) EXCEPT ![u] = s] ELSE Without(s)
  /\ UNCHANGED <<account, faults>>

Deny(s) ==
  LET u == request[s].sender IN
  /\ Decide(s, "LOGIN", IF account[u] = NoPassword THEN "UserNotExist" ELSE "PasswordError")
  /\ account[u] # request[s].password
  /\ UNCHANGED <<account, online, faults>>

\* A statement fails, which is told as if nothing had been found, or goes
\* unnoticed.
Fail(s) ==
  /\ faults' = faults + 1
  /\ \/ Decide(s, "REGISTER", "DatabaseError")
     \/ Decide(s, "LOGIN", "UserNotExist")
     \/ UNCHANGED <<request, answer>>
  /\ UNCHANGED <<account, online>>

Answer(s) ==
  /\ answer[s] # "none"
  /\ request' = [request EXCEPT ![s] = NoRequest]
  /\ answer' = [answer EXCEPT ![s] = "none"]
  /\ UNCHANGED <<account, online, faults>>

Disconnect(s) ==
  /\ request[s] = NoRequest
  /\ online' = Without(s)
  /\ UNCHANGED <<account, request, answer, faults>>

\* A restart: accounts last, sessions and requests do not.
Restart ==
  /\ online' = [u \in User |-> NoSock]
  /\ request' = [s \in Sock |-> NoRequest]
  /\ answer' = [s \in Sock |-> "none"]
  /\ UNCHANGED <<account, faults>>

Next ==
  \/ Restart
  \/ \E s \in Sock :
       Ask(s) \/ Open(s) \/ Taken(s) \/ Enter(s) \/ Deny(s) \/ Fail(s) \/ Answer(s)
         \/ Disconnect(s)

Spec == Init /\ [][Next]_vars

=============================================================================
