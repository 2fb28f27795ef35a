---------------------------- MODULE Friendships ----------------------------
(***************************************************************************)
(* FriendManager with a history variable beside it that remembers between  *)
(* which users methods have met or been interrupted, so that it can be     *)
(* said what the methods promise everywhere else, and again afterwards.    *)
(***************************************************************************)
EXTENDS FriendManager

VARIABLE disturbed  \* the sets of two users between whom nothing is promised now

trackedVars == <<friendVars, disturbed>>

\* The two users, in whatever order.
Ends(p) == {p[1], p[2]}

\* Whom the worker is at work between, as a set of at most one.
Between(w) == IF pair[w] = NoPair THEN {} ELSE {Ends(pair[w])}

WorkedOn == UNION {Between(w) : w \in Worker}

\* Two methods at work between the same two users ...
Meeting ==
  {e \in WorkedOn : \E v, w \in Worker : v # w /\ e \in Between(v) \cap Between(w)}

\* ... or one whose statement has just failed, or that has just died.
Interrupted ==
  IF UNCHANGED <<faults, crashes>> THEN {}
  ELSE UNION {Between(w) : w \in {v \in Worker : pc'[v] # pc[v]}}

Lopsided == {Ends(p) : p \in {q \in Pair : IsFriend(q) /\ ~IsFriend(Reverse(q))}}

TrackedInit == Init /\ disturbed = {}

\* It lasts until the last method has returned, and friendship is mutual.
TrackedNext ==
  /\ Next
  /\ disturbed' = {e \in disturbed \cup Meeting' \cup Interrupted :
                     e \in WorkedOn' \cup Lopsided'}

TrackedSpec == TrackedInit /\ [][TrackedNext]_trackedVars

-----------------------------------------------------------------------------
(* Properties.                                                             *)

(***************************************************************************)
(* "There is history, such as a rejected request" (FriendManager.cpp:30):  *)
(* only between users whose methods met or were interrupted does           *)
(* SendRequest delete a request that waits.  A failed SELECT is the        *)
(* interruption that a single method can do it by.                         *)
(***************************************************************************)
HistoryUnlessDisturbed ==
  [][\A w \in Worker, p \in Pair :
       DeleteHistory(w) /\ pair[w] = p /\ Ends(p) \notin disturbed =>
         requests[p]["pending"] = 0 /\ requests[Reverse(p)]["pending"] = 0]_trackedVars

-----------------------------------------------------------------------------
(* The refinement.                                                         *)

BothWays(p) == IsFriend(p) /\ IsFriend(Reverse(p))

Befriending(w) == pc[w] \in Accepting \ {"accept"}

Friendships ==
  {Ends(p) : p \in {q \in Pair : BothWays(q)}}
    \cup {Ends(pair[w]) : w \in {v \in Worker : Befriending(v)}}

Waiting == {p \in Pair : requests[p]["pending"] > 0}

Doing ==
  [w \in Worker |->
    CASE pc[w] = "idle"   -> "nothing"
      [] pc[w] = "accept" -> "AcceptRequest"
      [] Befriending(w)   -> "Befriended"
      [] pc[w] = "reject" -> "RejectRequest"
      [] pc[w] = "remove" -> "DeleteFriend"
      [] OTHER            -> "SendRequest"]

(***************************************************************************)
(* Methods that are series of statements with no transaction around them   *)
(* seem to happen at one moment each, on mutual friendships and requests   *)
(* that wait, but between users whose methods met or were interrupted;     *)
(* what goes wrong there goes wrong nowhere else, and ends.                *)
(***************************************************************************)
BookOf ==
  INSTANCE FriendBook WITH
    friends <- Friendships,
    waiting <- Waiting,
    doing   <- Doing

ImplementsBook == BookOf!Spec

=============================================================================
