-------------------------- MODULE MCPaymentGateway --------------------------
(* Instances of PaymentGateway for TLC: one user, one token. *)
EXTENDS PaymentGateway, TLC

CONSTANT t1

MCToken == [c \in Callers |-> t1]

MCSymmetry == Permutations(Slots)
=============================================================================
