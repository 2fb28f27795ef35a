----------------------------- MODULE MCReactor -----------------------------
(* Instances of Reactor for TLC.                                           *)
EXTENDS Reactor, TLC

CONSTANTS u1, u2

R(type, user) == [type |-> type, user |-> user]

\* Every way through the handlers, with one user to log in and to send to.
\* QUERY and UPDATE have no way of their own: a refused CHAT is one message
\* to its sender too, a READY with nothing stored is none.
AllRequests == {R("LOGIN", u1), R("LOGOUT", NoUser), R("CHAT", u1), R("ADD_FRIEND", u1),
                R("READY", NoUser)}

\* Both ends of a session and the handler that takes the longest way.
LiveRequests == {R("LOGIN", u1), R("LOGOUT", NoUser), R("ADD_FRIEND", u1)}

\* A friend request to u1 while u1 leaves and u2 arrives.
NotifyRequests == {R("LOGIN", u1), R("LOGIN", u2), R("ADD_FRIEND", u1)}

ThreadSymmetry == Permutations(Conn) \cup Permutations(Sock) \cup Permutations(Worker)

=============================================================================
