----------------------------- MODULE FriendBook -----------------------------
(***************************************************************************)
(* What the methods of FriendManager promise, with no statement in them:   *)
(* who is a friend of whom, which requests wait for an answer, and how     *)
(* each method changes that, at one moment between its call and its return.*)
(* Between two users whose methods meet, or are interrupted by a failure,  *)
(* nothing is promised until the last of them has returned, or longer; it  *)
(* is promised that nobody else notices.                                   *)
(***************************************************************************)
EXTENDS Naturals

CONSTANTS User, Registered, Worker, NoPair

Pair == User \X User

Reverse(p) == <<p[2], p[1]>>

\* The two users, in whatever order.
Ends(p) == {p[1], p[2]}

VARIABLES friends,    \* the sets of two users who are friends
          waiting,    \* the requests, <<sender, receiver>>, that wait for an answer
          doing,      \* each worker: the method it runs, or "Befriended"
          pair,       \* the two users it was called with
          disturbed,  \* the sets of two users between whom nothing is promised
          faults,     \* failures of one method so far
          crashes     \* and of all at once

vars == <<friends, waiting, doing, pair, disturbed, faults, crashes>>

Methods == {"SendRequest", "AcceptRequest", "RejectRequest", "DeleteFriend"}

Init ==
  /\ friends = {}
  /\ waiting = {}
  /\ doing = [w \in Worker |-> "nothing"]
  /\ pair = [w \in Worker |-> NoPair]
  /\ disturbed = {}
  /\ faults = 0
  /\ crashes = 0

\* Whom the worker is at work between, as a set of at most one.
Between(w) == IF pair[w] = NoPair THEN {} ELSE {Ends(pair[w])}

WorkedOn == UNION {Between(w) : w \in Worker}

Meeting ==
  {e \in WorkedOn : \E v, w \in Worker : v # w /\ e \in Between(v) \cap Between(w)}

-----------------------------------------------------------------------------
(* The methods, between users who are left in peace.                       *)

Call(w) ==
  /\ doing[w] = "nothing"
  /\ \E p \in Pair, method \in Methods :
       /\ Ends(p) \notin WorkedOn \cup disturbed
       /\ method = "SendRequest" => p[1] # p[2]
       /\ doing' = [doing EXCEPT ![w] = method]
       /\ pair' = [pair EXCEPT ![w] = p]
  /\ UNCHANGED <<friends, waiting>>

Begun(w, method) == doing[w] = method /\ Between(w) \cap disturbed = {}

Return(w) ==
  /\ doing' = [doing EXCEPT ![w] = "nothing"]
  /\ pair' = [pair EXCEPT ![w] = NoPair]

\* A request may be made of a user who exists, is no friend, and has not
\* asked or been asked.
MayAsk(p) ==
  /\ p[2] \in Registered
  /\ Ends(p) \notin friends
  /\ {p, Reverse(p)} \cap waiting = {}

Ask(w) ==
  /\ Begun(w, "SendRequest")
  /\ Return(w)
  /\ MayAsk(pair[w])
  /\ waiting' = waiting \cup {pair[w]}
  /\ UNCHANGED friends

Refuse(w) ==
  /\ Begun(w, "SendRequest")
  /\ Return(w)
  /\ ~MayAsk(pair[w])
  /\ UNCHANGED <<friends, waiting>>

\* The two are friends then, whether a request waited or not.
Befriend(w) ==
  /\ Begun(w, "AcceptRequest")
  /\ doing' = [doing EXCEPT ![w] = "Befriended"]
  /\ UNCHANGED pair
  /\ friends' = friends \cup {Ends(pair[w])}
  /\ waiting' = waiting \ {pair[w]}

Befriended(w) ==
  /\ Begun(w, "Befriended")
  /\ Return(w)
  /\ UNCHANGED <<friends, waiting>>

\* Friends stay friends.
Reject(w) ==
  /\ Begun(w, "RejectRequest")
  /\ Return(w)
  /\ waiting' = waiting \ {pair[w]}
  /\ UNCHANGED friends

\* A request that waits, in either direction, goes on waiting.
Part(w) ==
  /\ Begun(w, "DeleteFriend")
  /\ Return(w)
  /\ friends' = friends \ {Ends(pair[w])}
  /\ UNCHANGED waiting

Method(w) ==
  \/ Call(w) \/ Ask(w) \/ Refuse(w)
  \/ Befriend(w) \/ Befriended(w) \/ Reject(w) \/ Part(w)

Orderly ==
  /\ UNCHANGED <<disturbed, faults, crashes>>
  /\ \E w \in Worker : Method(w)

-----------------------------------------------------------------------------
(* Trouble, which stays where it is.                                       *)

\* Anything may happen between these users, and nothing elsewhere.
Trouble(where) ==
  /\ disturbed' \ where = disturbed \ where
  /\ where \cap WorkedOn' \subseteq disturbed'
  /\ friends' \ where = friends \ where
  /\ {p \in waiting' : Ends(p) \notin where} = {p \in waiting : Ends(p) \notin where}
  /\ \A w \in Worker :
       where \cap (Between(w) \cup Between(w)') = {} => UNCHANGED <<doing[w], pair[w]>>

\* A method meets another, or goes on after that.
Meet ==
  /\ UNCHANGED <<faults, crashes>>
  /\ \E e \in disturbed \cup Meeting' : Trouble({e})

\* One fails.
Fail ==
  /\ faults' = faults + 1
  /\ UNCHANGED crashes
  /\ \E e \in WorkedOn : Trouble({e})

\* All that are at work die.
Die ==
  /\ crashes' = crashes + 1
  /\ UNCHANGED faults
  /\ WorkedOn' = {}
  /\ Trouble(WorkedOn)

Next == Meet \/ Orderly \/ Fail \/ Die

Spec == Init /\ [][Next]_vars

=============================================================================
