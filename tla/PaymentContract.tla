-------------------------- MODULE PaymentContract --------------------------
(***************************************************************************)
(* What an evaluation may assume of one call of                            *)
(* requestPaymentGatewayPostPayment (payment_gateway.go).  Dispatch takes  *)
(* the whole call as one step with these outcomes; PaymentGateway models   *)
(* its retry loop and shows that it stays within them.                     *)
(***************************************************************************)
EXTENDS Integers

\* charged: payments of the call on record when it returns; late: its requests
\* the service still handles then, and may record afterwards; ok: it returned
\* nil.  It does so after a 204, when it is charged, or when an attempt failed
\* and GET /payments lists as many payments as the user has rides.
\* listed: the payments on record besides its own.
ChargeOutcomes(attempts, listed, rideCount) ==
  {o \in [charged : 0 .. attempts, late : 0 .. attempts, ok : BOOLEAN] :
     /\ o.charged + o.late <= attempts
     /\ o.ok => o.charged > 0 \/ listed = rideCount}
=============================================================================
