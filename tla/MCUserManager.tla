--------------------------- MODULE MCUserManager ---------------------------
(* Instances of UserManager for TLC.                                       *)
EXTENDS UserManager, TLC

UserManagerSymmetry == Permutations(User) \cup Permutations(Sock) \cup Permutations(Password)

=============================================================================
