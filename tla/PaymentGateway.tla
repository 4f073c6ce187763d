-------------------------- MODULE PaymentGateway --------------------------
(***************************************************************************)
(* requestPaymentGatewayPostPayment (payment_gateway.go), the loop an      *)
(* evaluation pays through, composed with the service it talks to.  It     *)
(* sends no Idempotency-Key; when an attempt fails it compares the number  *)
(* of payments the service lists for the user's token with the number of   *)
(* the user's rides, and tries again unless they are equal.                *)
(*                                                                         *)
(* A caller is an evaluation in progress, and Token maps it to the token   *)
(* of its user.  A user whose last ride is not completed may evaluate it,  *)
(* again if that failed; otherwise they may request another ride.          *)
(***************************************************************************)
EXTENDS PaymentServer, PaymentContract

CONSTANTS
  Callers, Token,
  RetryLimit,     \* 5: failures after which the loop tries again
  MaxRides,       \* bound of the instance
  MaxLost,        \* bounds of the instance: messages lost on the way,
  MaxRollbacks    \* and evaluations that do not commit although they paid

ASSUME PaymentGatewayAssumption ==
  /\ Token \in [Callers -> Tokens]
  /\ {RetryLimit, MaxRides, MaxLost, MaxRollbacks} \subseteq Nat
  /\ Keys = {}       \* the loop sends no Idempotency-Key
  /\ Requests = {}   \* every request of it is well formed

VARIABLES
  rides,   \* rides of each token's user
  open,    \* the users whose last ride is not completed
  call,    \* the call each evaluation makes
  lost, rolledBack   \* how many faults of each kind have occurred

faults == <<lost, rolledBack>>

vars == <<knownKeys, processed, retryCounts, post, rides, open, call, faults>>

NoCall == [step |-> "none"]

\* rides: the list of rides in the evaluation's snapshot, by its length; waits:
\* the slot whose answer the call waits for, if any.
\* History: own, the slots that handle requests of the call; charged, the
\* payments they recorded before it returned; others, the rest then on record.
Call == {NoCall} \cup
        [step : {"post", "sent", "get", "returned"}, retry : 0 .. RetryLimit,
         waits : SUBSET Slots, rides : Nat, own : SUBSET Slots,
         charged : Nat, others : Int, ok : BOOLEAN]

Paid(token) == Cardinality(PaymentsOf(token))

CallAt(c, step) == call[c].step = step

Return(c, ok) ==
  call' = [call EXCEPT ![c].step = "returned", ![c].ok = ok, ![c].waits = {},
                       ![c].own = {w \in @ : InProgress(w)},
                       ![c].others = Paid(Token[c]) - call[c].charged]

\* Mutant: one retry too many.
FailOnceMore(c) ==
  IF call[c].retry <= RetryLimit
  THEN call' = [call EXCEPT ![c].step = "post", ![c].waits = {},
                            ![c].retry = call[c].retry + 1]
  ELSE Return(c, FALSE)

\* The attempt failed: once more, or return the error.
Fail(c) ==
  IF call[c].retry < RetryLimit
  THEN call' = [call EXCEPT ![c].step = "post", ![c].waits = {},
                            ![c].retry = call[c].retry + 1]
  ELSE Return(c, FALSE)

-----------------------------------------------------------------------------
(* The user.                                                               *)

RequestRide(t) ==
  /\ t \notin open
  /\ rides[t] < MaxRides
  /\ rides' = [rides EXCEPT ![t] = @ + 1]
  /\ open' = open \cup {t}
  /\ UNCHANGED <<serverVars, call, faults>>

\* appPostRideEvaluatation reaches the payment.
Evaluate(c) ==
  /\ WithinBounds
  /\ call[c] = NoCall
  /\ Token[c] \in open
  /\ call' = [call EXCEPT ![c] = [step |-> "post", retry |-> 0, waits |-> {},
                                  rides |-> rides[Token[c]], own |-> {},
                                  charged |-> 0, others |-> 0, ok |-> FALSE]]
  /\ UNCHANGED <<serverVars, rides, open, faults>>

\* The evaluation commits if the call returned nil, and rolls back otherwise.
EvaluationEnds(c) ==
  /\ CallAt(c, "returned")
  /\ \/ /\ open' = IF call[c].ok THEN open \ {Token[c]} ELSE open
        /\ UNCHANGED faults
     \/ /\ rolledBack < MaxRollbacks /\ call[c].ok
        /\ rolledBack' = rolledBack + 1
        /\ UNCHANGED <<open, lost>>
  /\ call' = [call EXCEPT ![c] = NoCall]
  /\ UNCHANGED <<serverVars, rides>>

-----------------------------------------------------------------------------
(* The loop.                                                               *)

\* The fare of a ride is the same at every attempt.
PostPayment(c) ==
  /\ CallAt(c, "post")
  /\ \E w \in Slots, fare \in Amounts :
       /\ Receive(w, NoKey, Token[c], fare)
       /\ call' = [call EXCEPT ![c].step = "sent", ![c].waits = {w},
                               ![c].own = @ \cup {w}]
  /\ UNCHANGED <<rides, open, faults>>

\* Mutant: an answer other than 204 is not taken.
PostAnsweredOk(c) ==
  /\ CallAt(c, "sent")
  /\ \E w \in call[c].waits : At(w, "ok") /\ Answered(w)
  /\ Return(c, TRUE)
  /\ UNCHANGED <<rides, open, faults>>

\* 204 ends the loop; after any other status the payments are listed.
PostAnswered(c) ==
  /\ CallAt(c, "sent")
  /\ \E w \in call[c].waits :
       /\ Answered(w)
       /\ IF At(w, "ok") THEN Return(c, TRUE)
          ELSE call' = [call EXCEPT ![c].step = "get", ![c].waits = {},
                                    ![c].own = @ \ {w}]
  /\ UNCHANGED <<rides, open, faults>>

\* Mutant: any list of payments will do.
CompareNothing(c) ==
  /\ CallAt(c, "get")
  /\ Return(c, TRUE)
  /\ UNCHANGED <<serverVars, rides, open, faults>>

GetPayments(c) ==
  /\ CallAt(c, "get")
  /\ IF call[c].rides = Paid(Token[c]) THEN Return(c, TRUE) ELSE Fail(c)
  /\ UNCHANGED <<serverVars, rides, open, faults>>

\* http.DefaultClient.Do returns an error: the request was not delivered, or
\* the service, which goes on with it, lost the connection.  Nothing is listed.
TransportFails(c) ==
  /\ lost < MaxLost
  /\ call[c].step \in {"post", "sent", "get"}
  /\ Fail(c)
  /\ lost' = lost + 1
  /\ UNCHANGED <<serverVars, rides, open, rolledBack>>

-----------------------------------------------------------------------------
\* A slot whose caller has stopped waiting for it.
Orphaned(w) == \A c \in Callers : call[c] # NoCall => w \notin call[c].waits

\* The service handles a request; a payment it records is its call's.
ServerStep(w) ==
  /\ Handle(w)
  /\ call' = [c \in Callers |->
                IF /\ call[c].step \in {"post", "sent", "get"}
                   /\ w \in call[c].own
                   /\ processed' # processed
                THEN [call[c] EXCEPT !.charged = @ + 1] ELSE call[c]]
  /\ UNCHANGED <<rides, open, faults>>

\* The answer finds no caller.
OrphanEnds(w) ==
  /\ Orphaned(w)
  /\ Answered(w)
  /\ call' = [c \in Callers |-> IF call[c] = NoCall THEN NoCall
                                ELSE [call[c] EXCEPT !.own = @ \ {w}]]
  /\ UNCHANGED <<rides, open, faults>>

LoopStep(c) == PostPayment(c) \/ PostAnswered(c) \/ GetPayments(c)

Init ==
  /\ ServerInit
  /\ rides = [t \in Tokens |-> 0]
  /\ open = {}
  /\ call = [c \in Callers |-> NoCall]
  /\ lost = 0 /\ rolledBack = 0

\* Every ride within the bounds is over.
Settled ==
  /\ ~WithinBounds \/ \A t \in Tokens : rides[t] = MaxRides /\ t \notin open
  /\ \A c \in Callers : call[c] = NoCall
  /\ UNCHANGED vars

Next ==
  \/ \E t \in Tokens : RequestRide(t)
  \/ \E c \in Callers :
       Evaluate(c) \/ EvaluationEnds(c) \/ LoopStep(c) \/ TransportFails(c)
  \/ \E w \in Slots : ServerStep(w) \/ OrphanEnds(w)
  \/ Settled

Spec == Init /\ [][Next]_vars

\* The handler and the goroutines of the service run on.
FairSpec == /\ Spec
            /\ \A c \in Callers : WF_vars(LoopStep(c))
            /\ \A w \in Slots : WF_vars(ServerStep(w) \/ OrphanEnds(w))

-----------------------------------------------------------------------------
(* Properties.                                                             *)

TypeOK ==
  /\ ServerTypeOK
  /\ rides \in [Tokens -> Nat]
  /\ open \subseteq Tokens
  /\ call \in [Callers -> Call]
  /\ lost \in 0 .. MaxLost /\ rolledBack \in 0 .. MaxRollbacks

Returned(c) == CallAt(c, "returned")

\* What a call did, as Dispatch sees it.
Outcome(c) ==
  [charged |-> call[c].charged,
   late    |-> Cardinality({w \in call[c].own :
                              InProgress(w) /\ ~At(w, "reply")}),
   ok      |-> call[c].ok]

\* However the answers of the service, the lost messages and the retries
\* interleave, a call ends with one of the outcomes Dispatch allows it.
WithinContract ==
  \A c \in Callers : Returned(c) =>
    Outcome(c) \in ChargeOutcomes(RetryLimit + 1, call[c].others, call[c].rides)

\* No other evaluation pays with the token of c.
PaysAlone(c) == \A d \in Callers \ {c} : Token[d] # Token[c]

\* As long as the network holds and every evaluation commits, each ride of a
\* user who pays it alone is on record exactly once when its call returns,
\* although the service may record a payment and answer with an error.
PaidExactlyOnce ==
  lost = 0 /\ rolledBack = 0 =>
    \A c \in Callers : PaysAlone(c) /\ Returned(c) /\ call[c].ok
                        => Paid(Token[c]) = call[c].rides

\* The loop never gives up on a service that can be reached and knows the
\* user's token: it lets through the fifth or sixth attempt at the latest, and
\* the loop makes six.
NeverGivesUp ==
  lost = 0 =>
    \A c \in Callers : PaysAlone(c) /\ Returned(c) /\ Token[c] \in Registered
                        => call[c].ok

\* A call returns, whatever is lost.
EveryCallReturns ==
  \A c \in Callers : CallAt(c, "post") ~> Returned(c)
=============================================================================
