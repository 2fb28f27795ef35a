------------------------ MODULE ClientManagerProofs ------------------------
(***************************************************************************)
(* What each method of the registry does to its two maps, for any users    *)
(* and sockets.                                                            *)
(***************************************************************************)
EXTENDS ClientManager, TLAPS

\* Login keeps both maps well typed, whether it accepts or refuses.
LEMMA LoginTyped ==
  ASSUME ManagerTypeOK, NEW u \in User, NEW s \in Sock,
         LoginAccepted(u, s) \/ LoginRefused(u, s)
  PROVE  ManagerTypeOK'
BY DEF ManagerTypeOK, LoginAccepted, LoginRefused, WithoutSocket

\* An accepted login leaves the maps inverse, and binds the socket to the
\* user alone, whatever it and the user were bound to before.
LEMMA AcceptedKeepsInverse ==
  ASSUME ManagerTypeOK, RegistryInverse, NEW u \in User, NEW s \in Sock,
         LoginAccepted(u, s)
  PROVE  RegistryInverse' /\ \A x \in Sock \ {s} : socketUsers'[x] = socketUsers[x]
BY ManagerAssumption DEF ManagerTypeOK, RegistryInverse, LoginAccepted, WithoutSocket

\* A refused login and a logout unbind the socket, from both sides.
LEMMA UnboundKeepsInverse ==
  ASSUME ManagerTypeOK, RegistryInverse, NEW s \in Sock,
         onlineUsers' = WithoutSocket(s),
         socketUsers' = [socketUsers EXCEPT ![s] = NoUser]
  PROVE  /\ RegistryInverse'
         /\ socketUsers'[s] = NoUser
         /\ \A x \in Sock \ {s} : socketUsers'[x] = socketUsers[x]
BY ManagerAssumption DEF ManagerTypeOK, RegistryInverse, WithoutSocket

\* In inverse maps a socket's user is the one who is online on it.
LEMMA WithoutBySocket ==
  ASSUME ManagerTypeOK, RegistryInverse, NEW s \in Sock
  PROVE  WithoutSocket(s) = [u \in User |-> IF onlineUsers[u] = s THEN NoSock ELSE onlineUsers[u]]
BY ManagerAssumption DEF ManagerTypeOK, RegistryInverse, WithoutSocket

=============================================================================
