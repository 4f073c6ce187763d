----------------------------- MODULE MCDispatch -----------------------------
(* Instances of Dispatch for TLC. *)
EXTENDS DispatchInvariant, TLC

CONSTANTS u1, u2, c1, c2, k1, k2   \* users, chairs and connections

\* The coupons of a new user, and of one who was invited and has invited another.
MCOneCoupon == {<<NewCoupon("CP_NEW2024")>>}
MCThreeCoupons ==
  {<<NewCoupon("CP_NEW2024"), NewCoupon("INV"), NewCoupon("RWD")>>}

\* Users and chairs, or connections, are interchangeable.
MCSymmetry == Permutations(Users) \cup Permutations(Chairs)
MCConnections == Permutations(UserConns)
=============================================================================
