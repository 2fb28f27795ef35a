--------------------------- MODULE ClientManager ---------------------------
(***************************************************************************)
(* The registry of online users (ClientManager.h, ClientManager.cpp): two  *)
(* hash maps, user -> socket and socket -> user, that every worker thread  *)
(* reads and writes.  Each method holds the shared_mutex for its whole     *)
(* body, exclusively when it writes, so a method is one atomic step here.  *)
(*                                                                         *)
(* A key that is absent from a map is a key bound to NoSock or NoUser, the *)
(* -1 and "" that GetSocket and GetUserName return for it.                 *)
(***************************************************************************)

CONSTANTS User,    \* account names
          Sock,    \* descriptor numbers a client connection can get
          NoUser,  \* "socketUsers has no such key"
          NoSock   \* "onlineUsers has no such key", the -1 of GetSocket

ASSUME ManagerAssumption == NoUser \notin User /\ NoSock \notin Sock

VARIABLES onlineUsers,  \* user -> socket
          socketUsers   \* socket -> user

managerVars == <<onlineUsers, socketUsers>>

ManagerTypeOK ==
  /\ onlineUsers \in [User -> Sock \cup {NoSock}]
  /\ socketUsers \in [Sock -> User \cup {NoUser}]

ManagerInit ==
  /\ onlineUsers = [u \in User |-> NoSock]
  /\ socketUsers = [s \in Sock |-> NoUser]

GetSocket(u) == onlineUsers[u]

\* Mutant: the socket's user stays in onlineUsers.
KeepsUser(s) == onlineUsers

\* onlineUsers once the user that socket s is bound to, if any, is erased.
WithoutSocket(s) ==
  [u \in User |-> IF socketUsers[s] = u THEN NoSock ELSE onlineUsers[u]]

\* Mutant: a login moves the user away from the socket he is online on.
LoginMoves(u, s) ==
  /\ onlineUsers' = [WithoutSocket(s) EXCEPT ![u] = s]
  /\ socketUsers' = [x \in Sock |-> IF x = s THEN u
                                  ELSE IF socketUsers[x] = u THEN NoUser ELSE socketUsers[x]]

\* Login erases the socket's previous account before it looks the new one up,
\* so a refused login still leaves the socket bound to nobody.
LoginAccepted(u, s) ==
  /\ WithoutSocket(s)[u] = NoSock
  /\ onlineUsers' = [WithoutSocket(s) EXCEPT ![u] = s]
  /\ socketUsers' = [socketUsers EXCEPT ![s] = u]

\* Mutant: a refused login leaves the socket bound to its previous account.
RefusedEarly(u, s) == WithoutSocket(s)[u] # NoSock /\ UNCHANGED managerVars

LoginRefused(u, s) ==
  /\ WithoutSocket(s)[u] # NoSock
  /\ onlineUsers' = WithoutSocket(s)
  /\ socketUsers' = [socketUsers EXCEPT ![s] = NoUser]

Logout(s) ==
  /\ onlineUsers' = WithoutSocket(s)
  /\ socketUsers' = [socketUsers EXCEPT ![s] = NoUser]

(***************************************************************************)
(* The two maps are inverse to each other.  Login and Logout edit them one *)
(* after the other and each erases in one map the key it finds in the      *)
(* other: a key left behind in either would keep a user "already online"   *)
(* for ever, or send that user's messages to a socket that is not his.     *)
(***************************************************************************)
RegistryInverse ==
  \A u \in User, s \in Sock : onlineUsers[u] = s <=> socketUsers[s] = u

=============================================================================
