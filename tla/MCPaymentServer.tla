-------------------------- MODULE MCPaymentServer --------------------------
(* Instances of PaymentServer for TLC. *)
EXTENDS PaymentServer, TLC

MCSymmetry == Permutations(Slots)
=============================================================================
