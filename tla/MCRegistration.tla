--------------------------- MODULE MCRegistration ---------------------------
(* Instances of Registration for TLC. *)
EXTENDS Registration, TLC

MCSymmetry == Permutations(Users) \cup Permutations(Millis)
=============================================================================
