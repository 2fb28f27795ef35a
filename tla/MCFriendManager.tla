-------------------------- MODULE MCFriendManager --------------------------
(* Instances of FriendManager, and of the history beside it, for TLC.      *)
EXTENDS Friendships, TLC

\* Two different users, either way round ...
TwoUsers == {p \in Pair : p[1] # p[2]}

\* ... one of them and himself too ...
OneSelf == TwoUsers \cup {CHOOSE p \in Pair : p[1] = p[2]}

\* ... or any two.
AnyUsers == Pair

\* Users may change places where no one is singled out, and all are registered.
WorkerSymmetry == Permutations(Worker)

FriendSymmetry == WorkerSymmetry \cup Permutations(User)

=============================================================================
