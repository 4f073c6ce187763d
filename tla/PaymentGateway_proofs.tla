------------------------ MODULE PaymentGateway_proofs ------------------------
(***************************************************************************)
(* The retry loop of requestPaymentGatewayPostPayment keeps the contract   *)
(* Dispatch relies on, for any number of evaluations, users, requests and  *)
(* faults.                                                                 *)
(*                                                                         *)
(* The argument follows the requests a call owns: each is the call's alone *)
(* and may be recorded once, so that what is recorded and what may still   *)
(* be is never more than the attempts made.  While no message is lost the  *)
(* only requests are those that a call waits for; a user who pays alone    *)
(* then has a payment on record for each ride before the current one, and  *)
(* the service has counted every attempt that failed.                      *)
(***************************************************************************)
EXTENDS PaymentGateway, PaymentServer_proofs

\* The loop of c runs, ...
InLoop(c) == call[c].step \in {"post", "sent", "get"}

\* ... has made so many attempts, ...
Attempts(c) == IF CallAt(c, "post") THEN call[c].retry ELSE call[c].retry + 1

\* ... and owns the requests that may still be recorded.
Pending(w) == InProgress(w) /\ ~At(w, "reply")

PendingOf(c) == {w \in call[c].own : Pending(w)}

-----------------------------------------------------------------------------
(* The invariant of any calls.                                             *)

\* The requests the service handles are the loops'.
KeylessRequests ==
  \A w \in Slots : post[w].step # "idle" => post[w].key = NoKey /\ post[w].new

OwnersDiffer ==
  \A c, d \in Callers : c # d /\ call[c] # NoCall /\ call[d] # NoCall
    => call[c].own \cap call[d].own = {}

WaitsForOwn(c) ==
  /\ CallAt(c, "sent") => \E w \in call[c].own : call[c].waits = {w}
  /\ ~CallAt(c, "sent") => call[c].waits = {}

OwnIsSent(c) ==
  /\ IsFiniteSet(call[c].own)
  /\ \A w \in call[c].own : post[w].step # "idle" /\ post[w].token = Token[c]

AttemptsAreCounted(c) ==
  call[c].charged + Cardinality(PendingOf(c)) <= Attempts(c)

RecordedIsCharged(c) ==
  InLoop(c) => \A w \in call[c].own :
    post[w].step \in {"reply", "ok"} => call[c].charged > 0

OkIsPaid(c) ==
  Returned(c) /\ call[c].ok => call[c].charged > 0 \/ call[c].others = call[c].rides

CallOf(c) ==
  call[c] # NoCall => /\ WaitsForOwn(c) /\ OwnIsSent(c) /\ AttemptsAreCounted(c)
                      /\ RecordedIsCharged(c) /\ OkIsPaid(c)

\* The service counts from -1.
CountsFrom ==
  /\ \A t \in Tokens : retryCounts[t] >= -1
  /\ \A w \in Slots : At(w, "draw") => post[w].count >= -1

CallInv ==
  /\ TypeOK /\ ServerInv
  /\ KeylessRequests /\ CountsFrom /\ OwnersDiffer
  /\ \A c \in Callers : CallOf(c)

-----------------------------------------------------------------------------
(* The invariant of a call that pays alone while no message is lost.       *)

NothingIsOrphaned ==
  \A w \in Slots : post[w].step # "idle" =>
    \E c \in Callers : CallAt(c, "sent") /\ w \in call[c].waits

OnlyWaits ==
  \A c \in Callers : call[c] # NoCall => call[c].own \subseteq call[c].waits

\* A payment for each ride, and none yet for the one being evaluated unless the
\* service has come so far.
LedgerOf(c) ==
  LET t == Token[c]
      due == Paid(t) = rides[t] - 1
      settled == Paid(t) = rides[t]
  IN  /\ t \notin open => call[c] = NoCall /\ settled
      /\ t \in open /\ call[c] = NoCall => due
      /\ call[c] # NoCall => call[c].rides = rides[t]
      /\ CallAt(c, "post") => due
      /\ CallAt(c, "get") => due \/ settled
      /\ CallAt(c, "sent") => \A w \in call[c].waits :
           /\ Pending(w) => due
           /\ At(w, "reply") \/ At(w, "ok") => settled
           /\ due \/ settled
      /\ Returned(c) => IF call[c].ok THEN settled ELSE due

\* The service has counted the attempts of the loop.
CountOf(c) ==
  LET count == retryCounts[Token[c]]
      retry == call[c].retry
  IN  /\ CallAt(c, "post") => count >= retry - 1
      /\ CallAt(c, "get") => retry < 5 /\ count >= retry
      /\ CallAt(c, "sent") => \A w \in call[c].waits :
           /\ post[w].step \in {"parse", "count"} => count >= retry - 1
           /\ At(w, "draw") => count >= retry - 1 /\ post[w].count >= retry - 1
           /\ post[w].step \in {"lock", "process", "reply"} =>
                count >= retry /\ post[w].count >= retry - 1
           /\ At(w, "error") => count >= retry /\ retry < 5
           /\ post[w].step \in {"parse", "count", "draw", "lock", "process",
                                "reply", "error", "ok"}
      /\ Returned(c) => call[c].ok

LoneInv ==
  lost = 0 =>
    /\ NothingIsOrphaned /\ OnlyWaits
    /\ \A c \in Callers : PaysAlone(c) =>
         /\ rolledBack = 0 => LedgerOf(c)
         /\ RetryLimit >= 5 /\ Token[c] \in Registered => CountOf(c)

GatewayInv == CallInv /\ LoneInv

-----------------------------------------------------------------------------
(* Lemmas about the service.                                               *)

Row == [key : Keys \cup {NoKey}, token : Tokens, amount : Amounts, new : BOOLEAN]

\* The payments of a token are counted.
LEMMA PaidIsNat ==
  ASSUME ServerTypeOK, NEW t
  PROVE  IsFiniteSet(PaymentsOf(t)) /\ Paid(t) \in Nat
<1>1. processed \in Seq(Row)
  BY DEF ServerTypeOK, Row
<1>. HIDE DEF Row
<1>2. DOMAIN processed = 1 .. Len(processed) /\ Len(processed) \in Nat
  BY <1>1
<1>3. IsFiniteSet(DOMAIN processed)
  BY <1>2, FS_Interval
<1>4. IsFiniteSet(PaymentsOf(t))
  BY <1>3, FS_Subset, PaymentGatewayAssumption DEF PaymentsOf, Payload
<1>. QED  BY <1>4, FS_CardinalityType DEF Paid

\* One more payment is one more of its token.
LEMMA PaidOnce ==
  ASSUME ServerTypeOK, NEW t, NEW row \in Row,
         processed' = Append(processed, row)
  PROVE  Paid(t)' = IF row.token = t THEN Paid(t) + 1 ELSE Paid(t)
<1>1. processed \in Seq(Row)
  BY DEF ServerTypeOK, Row
<1>. HIDE DEF Row
<1>. DEFINE n == Len(processed)
<1>2. /\ DOMAIN processed = 1 .. n /\ n \in Nat
      /\ DOMAIN processed' = 1 .. n + 1
      /\ \A i \in 1 .. n : processed'[i] = processed[i]
      /\ processed'[n + 1] = row
  BY <1>1, Appended
<1>. HIDE DEF n
<1>3. CASE row.token = t
  <2>1. PaymentsOf(t)' = PaymentsOf(t) \cup {n + 1} /\ n + 1 \notin PaymentsOf(t)
    BY <1>2, <1>3, PaymentGatewayAssumption DEF PaymentsOf, Payload
  <2>. QED  BY <1>3, <2>1, PaidIsNat, FS_AddElement DEF Paid
<1>4. CASE row.token # t
  <2>1. PaymentsOf(t)' = PaymentsOf(t)
    BY <1>2, <1>4, PaymentGatewayAssumption DEF PaymentsOf, Payload
  <2>. QED  BY <1>4, <2>1 DEF Paid
<1>. QED  BY <1>3, <1>4

Turns(w, from, to) == post[w].step = from /\ post'[w].step = to

Counts(w, n) == retryCounts'[post[w].token] = n

\* A request without a key registers nothing, waits for no lock and is always
\* recorded: what is left of a step is this.
KeylessStep(w) ==
  \/ Turns(w, "parse", "count") /\ UNCHANGED <<processed, retryCounts>>
  \/ /\ Turns(w, "count", "draw") /\ UNCHANGED <<processed, retryCounts>>
     /\ post'[w].count = retryCounts[post[w].token]
  \/ /\ Turns(w, "draw", "lock") \/ (Turns(w, "draw", "error") /\ post[w].count < 4)
     /\ post'[w].count = post[w].count
     /\ UNCHANGED processed /\ Counts(w, post[w].count + 1)
  \/ /\ Turns(w, "lock", "process") /\ UNCHANGED <<processed, retryCounts>>
     /\ post'[w].count = post[w].count
  \/ /\ Turns(w, "process", "reply") /\ UNCHANGED retryCounts
     /\ post'[w].count = post[w].count
     /\ \E row \in Row : /\ row.token = post[w].token
                         /\ processed' = Append(processed, row)
  \/ /\ \/ Turns(w, "reply", Verdict(post[w].token)) /\ Counts(w, 0)
        \/ /\ Turns(w, "reply", "error") /\ post[w].count < 4
           /\ UNCHANGED retryCounts
     /\ UNCHANGED processed

\* The step leaves everything else alone.
StaysKeyless(w) ==
  /\ post'[w].key = NoKey /\ post'[w].new /\ post'[w].token = post[w].token
  /\ post'[w].step # "idle"
  /\ \A v \in Slots \ {w} : post'[v] = post[v]
  /\ \A t \in Tokens \ {post[w].token} : retryCounts'[t] = retryCounts[t]

\* The request moves to the step s.
LEMMA KeylessGo ==
  ASSUME ServerInv, NEW w \in Slots, NEW s \in Steps, post[w].step # "idle",
         post[w].key = NoKey, post[w].new, Go(w, s)
  PROVE  /\ post'[w].key = NoKey /\ post'[w].new /\ post'[w].token = post[w].token
         /\ post'[w].step = s /\ post'[w].count = post[w].count
         /\ s # "idle"
         /\ \A v \in Slots \ {w} : post'[v] = post[v]
<1>1. post[w] \in [step : Steps, key : Keys \cup {NoKey}, token : Tokens,
                   amount : Amounts, new : BOOLEAN, count : Int]
  BY PostFields DEF ServerInv
<1>2. post \in [Slots -> Post]
  BY DEF ServerInv, ServerTypeOK
<1>3. /\ post'[w] = [post[w] EXCEPT !.step = s]
      /\ \A v \in Slots \ {w} : post'[v] = post[v]
  BY <1>2 DEF Go
<1>4. s # "idle"
  BY DEF Steps, Replies
<1>. QED  BY <1>1, <1>3, <1>4

LEMMA HandleKeyless ==
  ASSUME ServerInv, NEW w \in Slots, Handle(w),
         post[w].step # "idle" => post[w].key = NoKey /\ post[w].new
  PROVE  post[w].step # "idle" /\ StaysKeyless(w) /\ KeylessStep(w)
<1>1. post[w].step # "idle"
  BY DEF Handle, Malformed, Parse, FinishParse, ReadCount, Draw, Lock, Process,
         Reply, At
<1>2. /\ post[w].key = NoKey /\ post[w].new /\ NoKey \notin Keys
      /\ post[w] \in [step : Steps, key : Keys \cup {NoKey}, token : Tokens,
                      amount : Amounts, new : BOOLEAN, count : Int]
      /\ post \in [Slots -> Post] /\ retryCounts \in [Tokens -> Int]
  BY <1>1, PostFields, PaymentServerAssumption DEF ServerInv, ServerTypeOK
<1>3. CASE Malformed(w)
  BY <1>3, PaymentGatewayAssumption DEF Malformed
<1>4. CASE Parse(w)
  <2>1. /\ post[w].step = "parse" /\ Go(w, "count")
        /\ UNCHANGED <<processed, retryCounts>>
    BY <1>2, <1>4 DEF Parse, At
  <2>2. "count" \in Steps
    BY DEF Steps
  <2>3. StaysKeyless(w) /\ post'[w].step = "count"
    BY <1>2, <2>1, <2>2, KeylessGo DEF StaysKeyless
  <2>. QED  BY <1>1, <2>1, <2>3 DEF KeylessStep, Turns
<1>5. CASE FinishParse(w)
  BY <1>2, <1>5 DEF FinishParse, At, ServerInv, WritersRegister
<1>6. CASE ReadCount(w)
  <2>. DEFINE n == retryCounts[post[w].token]
  <2>1. /\ post[w].step = "count" /\ UNCHANGED <<processed, retryCounts>>
        /\ post' = [post EXCEPT ![w].step = "draw", ![w].count = n]
    BY <1>6 DEF ReadCount, At
  <2>2. n \in Int
    BY <1>2
  <2>. HIDE DEF n
  <2>3. /\ post'[w] = [post[w] EXCEPT !.step = "draw", !.count = n]
        /\ \A v \in Slots \ {w} : post'[v] = post[v]
    BY <1>2, <2>1
  <2>4. /\ post'[w].key = NoKey /\ post'[w].new /\ post'[w].token = post[w].token
        /\ post'[w].step = "draw" /\ post'[w].count = n
    BY <1>2, <2>2, <2>3
  <2>5. StaysKeyless(w)
    BY <2>1, <2>3, <2>4 DEF StaysKeyless
  <2>. QED  BY <1>1, <2>1, <2>4, <2>5 DEF KeylessStep, Turns, n
<1>7. CASE Draw(w)
  <2>1. PICK s \in {"lock", "error"} : Go(w, s) /\ (s = "error" => MayFail(w))
    BY <1>7 DEF Draw
  <2>2. /\ post[w].step = "draw" /\ UNCHANGED processed
        /\ retryCounts' = [retryCounts EXCEPT ![post[w].token] = post[w].count + 1]
    BY <1>7 DEF Draw, At
  <2>3. s \in Steps
    BY DEF Steps, Replies
  <2>4. /\ StaysKeyless(w) /\ post'[w].step = s /\ post'[w].count = post[w].count
    BY <1>2, <2>1, <2>2, <2>3, KeylessGo DEF StaysKeyless
  <2>5. Counts(w, post[w].count + 1)
    BY <1>2, <2>2 DEF Counts
  <2>. QED  BY <1>1, <2>1, <2>2, <2>4, <2>5 DEF KeylessStep, Turns, MayFail
<1>8. CASE Lock(w)
  <2>1. /\ post[w].step = "lock" /\ Go(w, "process")
        /\ UNCHANGED <<processed, retryCounts>>
    BY <1>2, <1>8 DEF Lock, At
  <2>2. "process" \in Steps
    BY DEF Steps
  <2>3. /\ StaysKeyless(w) /\ post'[w].step = "process"
        /\ post'[w].count = post[w].count
    BY <1>2, <2>1, <2>2, KeylessGo DEF StaysKeyless
  <2>. QED  BY <1>1, <2>1, <2>3 DEF KeylessStep, Turns
<1>9. CASE Process(w)
  <2>. DEFINE row == [key |-> post[w].key, token |-> post[w].token,
                      amount |-> post[w].amount, new |-> post[w].new]
  <2>1. /\ post[w].step = "process" /\ Go(w, "reply") /\ UNCHANGED retryCounts
        /\ processed' = Append(processed, row)
    BY <1>2, <1>9 DEF Process, At, AlreadyProcessed
  <2>2. row \in Row /\ row.token = post[w].token
    BY <1>2 DEF Row
  <2>3. "reply" \in Steps
    BY DEF Steps
  <2>4. /\ StaysKeyless(w) /\ post'[w].step = "reply"
        /\ post'[w].count = post[w].count
    BY <1>2, <2>1, <2>3, KeylessGo DEF StaysKeyless
  <2>. HIDE DEF row
  <2>. QED  BY <1>1, <2>1, <2>2, <2>4 DEF KeylessStep, Turns
<1>10. CASE Reply(w)
  <2>1. post[w].step = "reply" /\ UNCHANGED processed
    BY <1>10 DEF Reply, At
  <2>2. PICK s \in {Verdict(post[w].token), "error"} :
          /\ Go(w, s)
          /\ \/ /\ s = Verdict(post[w].token)
                /\ retryCounts' = [retryCounts EXCEPT ![post[w].token] = 0]
             \/ s = "error" /\ MayFail(w) /\ UNCHANGED retryCounts
    BY <1>2, <1>10 DEF Reply
  <2>3. s \in Steps
    BY DEF Steps, Replies, Verdict
  <2>4. /\ StaysKeyless(w) /\ post'[w].step = s /\ post'[w].count = post[w].count
    BY <1>1, <1>2, <2>2, <2>3, KeylessGo DEF StaysKeyless
  <2>. QED  BY <1>1, <1>2, <2>1, <2>2, <2>4 DEF KeylessStep, Turns, MayFail, Counts
<1>. QED
  BY <1>3, <1>4, <1>5, <1>6, <1>7, <1>8, <1>9, <1>10 DEF Handle

-----------------------------------------------------------------------------
(* Lemmas about the calls.                                                 *)

\* The fields of a call in progress.
LEMMA CallFields ==
  ASSUME TypeOK, NEW c \in Callers
  PROVE  /\ call[c] = NoCall <=> call[c].step = "none"
         /\ call[c] # NoCall =>
              call[c] \in [step : {"post", "sent", "get", "returned"},
                           retry : 0 .. RetryLimit, waits : SUBSET Slots,
                           rides : Nat, own : SUBSET Slots, charged : Nat,
                           others : Int, ok : BOOLEAN]
<1>1. call[c] \in Call
  BY DEF TypeOK
<1>2. NoCall.step = "none"
  BY DEF NoCall
<1>. QED  BY <1>1, <1>2 DEF Call

\* What a call may still record is part of its own.
LEMMA PendingIsFinite ==
  ASSUME NEW c, IsFiniteSet(call[c].own)
  PROVE  /\ IsFiniteSet(PendingOf(c)) /\ Cardinality(PendingOf(c)) \in Nat
         /\ \A S \in SUBSET PendingOf(c) :
              /\ IsFiniteSet(S) /\ Cardinality(S) \in Nat
              /\ Cardinality(S) <= Cardinality(PendingOf(c))
<1>1. PendingOf(c) \subseteq call[c].own
  BY DEF PendingOf
<1>. QED  BY <1>1, FS_Subset, FS_CardinalityType

\* Only c's call changes.
OnlyCall(c) == \A d \in Callers \ {c} : call'[d] = call[d]

LEMMA Returns ==
  ASSUME TypeOK, NEW c \in Callers, call[c] # NoCall, NEW ok \in BOOLEAN,
         Return(c, ok)
  PROVE  /\ call' \in [Callers -> Call] /\ OnlyCall(c)
         /\ call'[c].step = "returned" /\ call'[c].ok = ok
         /\ call'[c].waits = {}
         /\ call'[c].own = {w \in call[c].own : InProgress(w)}
         /\ call'[c].others = Paid(Token[c]) - call[c].charged
         /\ call'[c].charged = call[c].charged /\ call'[c].rides = call[c].rides
         /\ call'[c].retry = call[c].retry
<1>. DEFINE own == {w \in call[c].own : InProgress(w)}
            others == Paid(Token[c]) - call[c].charged
<1>1. call[c] \in [step : {"post", "sent", "get", "returned"},
                   retry : 0 .. RetryLimit, waits : SUBSET Slots,
                   rides : Nat, own : SUBSET Slots, charged : Nat,
                   others : Int, ok : BOOLEAN]
  BY CallFields
<1>2. own \in SUBSET Slots /\ others \in Int
  BY <1>1, PaidIsNat DEF TypeOK
<1>3. /\ call \in [Callers -> Call]
      /\ call' = [call EXCEPT ![c].step = "returned", ![c].ok = ok, ![c].waits = {},
                              ![c].own = own, ![c].others = others]
  BY DEF Return, TypeOK
<1>. HIDE DEF own, others
<1>4. /\ call'[c] = [call[c] EXCEPT !.step = "returned", !.ok = ok, !.waits = {},
                                    !.own = own, !.others = others]
      /\ OnlyCall(c)
  BY <1>3 DEF OnlyCall
<1>5. call'[c] \in Call
  BY <1>1, <1>2, <1>4 DEF Call
<1>6. call' \in [Callers -> Call]
  BY <1>3, <1>5
<1>7. /\ call'[c].step = "returned" /\ call'[c].ok = ok /\ call'[c].waits = {}
      /\ call'[c].own = own /\ call'[c].others = others
      /\ call'[c].charged = call[c].charged /\ call'[c].rides = call[c].rides
      /\ call'[c].retry = call[c].retry
  BY <1>1, <1>4
<1>. QED  BY <1>4, <1>6, <1>7 DEF own, others

\* The attempt failed, and is repeated.
Repeats(c) ==
  /\ call' \in [Callers -> Call] /\ OnlyCall(c)
  /\ call[c].retry < RetryLimit /\ call'[c].retry = call[c].retry + 1
  /\ call'[c].step = "post" /\ call'[c].waits = {}
  /\ call'[c].own = call[c].own /\ call'[c].charged = call[c].charged
  /\ call'[c].rides = call[c].rides

LEMMA Fails ==
  ASSUME TypeOK, NEW c \in Callers, call[c] # NoCall, Fail(c)
  PROVE  IF call[c].retry < RetryLimit THEN Repeats(c) ELSE Return(c, FALSE)
<1>. SUFFICES ASSUME call[c].retry < RetryLimit
              PROVE  Repeats(c)
  BY Zenon DEF Fail
<1>1. call[c] \in [step : {"post", "sent", "get", "returned"},
                   retry : 0 .. RetryLimit, waits : SUBSET Slots,
                   rides : Nat, own : SUBSET Slots, charged : Nat,
                   others : Int, ok : BOOLEAN]
  BY CallFields
<1>. DEFINE n == call[c].retry + 1
<1>2. n \in 0 .. RetryLimit
  BY <1>1, PaymentGatewayAssumption
<1>3. /\ call \in [Callers -> Call]
      /\ call' = [call EXCEPT ![c].step = "post", ![c].waits = {}, ![c].retry = n]
  BY DEF Fail, TypeOK
<1>. HIDE DEF n
<1>4. /\ call'[c] = [call[c] EXCEPT !.step = "post", !.waits = {}, !.retry = n]
      /\ OnlyCall(c)
  BY <1>3 DEF OnlyCall
<1>5. call'[c] \in Call
  BY <1>1, <1>2, <1>4 DEF Call
<1>6. call' \in [Callers -> Call]
  BY <1>3, <1>5
<1>. QED  BY <1>1, <1>4, <1>6 DEF Repeats, n

\* A call that is not touched, and whose requests are not.
LEMMA CallStays ==
  ASSUME NEW c \in Callers, CallOf(c), call'[c] = call[c],
         call[c] # NoCall => \A w \in call[c].own : post'[w] = post[w]
  PROVE  CallOf(c)'
<1>. SUFFICES ASSUME call[c] # NoCall
              PROVE  /\ WaitsForOwn(c)' /\ OwnIsSent(c)' /\ AttemptsAreCounted(c)'
                     /\ RecordedIsCharged(c)' /\ OkIsPaid(c)'
  BY DEF CallOf
<1>1. \A w \in call[c].own : Pending(w)' <=> Pending(w)
  BY DEF Pending, InProgress, At
<1>2. PendingOf(c)' = PendingOf(c)
  BY <1>1 DEF PendingOf
<1>. QED
  BY <1>2 DEF CallOf, WaitsForOwn, OwnIsSent, AttemptsAreCounted, Attempts,
              RecordedIsCharged, OkIsPaid, CallAt, InLoop, Returned

\* A call whose requests stay where they are, or end.
LEMMA CallReturns ==
  ASSUME CallInv, NEW c \in Callers, call[c] # NoCall, NEW ok \in BOOLEAN,
         Return(c, ok),
         \A w \in call[c].own : InProgress(w) => post'[w] = post[w],
         ok => call[c].charged > 0 \/ Paid(Token[c]) = call[c].rides
  PROVE  CallOf(c)'
<1>1. /\ call'[c].step = "returned" /\ call'[c].ok = ok
      /\ call'[c].waits = {}
      /\ call'[c].own = {w \in call[c].own : InProgress(w)}
      /\ call'[c].others = Paid(Token[c]) - call[c].charged
      /\ call'[c].charged = call[c].charged /\ call'[c].rides = call[c].rides
      /\ call'[c].retry = call[c].retry
  BY Returns DEF CallInv
<1>2. /\ IsFiniteSet(call[c].own)
      /\ call[c].charged \in Nat /\ call[c].retry \in Nat /\ call[c].rides \in Nat
      /\ Paid(Token[c]) \in Nat
  <2>1. RetryLimit \in Nat /\ ServerTypeOK
    BY PaymentGatewayAssumption DEF CallInv, TypeOK
  <2>. QED  BY <2>1, CallFields, PaidIsNat DEF CallInv, CallOf, OwnIsSent
<1>3. IsFiniteSet(call'[c].own)
  BY <1>1, <1>2, FS_Subset
<1>4. PendingOf(c)' \in SUBSET PendingOf(c)
  BY <1>1 DEF PendingOf, Pending, InProgress, At
<1>5. AttemptsAreCounted(c)'
  <2>1. call[c].charged + Cardinality(PendingOf(c)) <= call[c].retry + 1
    BY <1>2, PendingIsFinite DEF CallInv, CallOf, AttemptsAreCounted, Attempts
  <2>2. Attempts(c)' = call[c].retry + 1
    BY <1>1 DEF Attempts, CallAt
  <2>3. PICK m, n \in Nat : /\ m = Cardinality(PendingOf(c))'
                            /\ n = Cardinality(PendingOf(c)) /\ m <= n
    BY <1>2, <1>4, PendingIsFinite
  <2>. QED  BY <1>1, <1>2, <2>1, <2>2, <2>3 DEF AttemptsAreCounted
<1>6. WaitsForOwn(c)' /\ RecordedIsCharged(c)' /\ OkIsPaid(c)'
  BY <1>1, <1>2 DEF WaitsForOwn, RecordedIsCharged, OkIsPaid, CallAt, InLoop, Returned
<1>7. OwnIsSent(c)'
  BY <1>1, <1>3 DEF OwnIsSent, CallInv, CallOf
<1>. QED  BY <1>5, <1>6, <1>7 DEF CallOf

LEMMA CallRepeats ==
  ASSUME CallInv, NEW c \in Callers, InLoop(c), Repeats(c), post' = post
  PROVE  CallOf(c)'
<1>1. call[c] # NoCall
  BY CallFields DEF CallInv, InLoop
<1>2. /\ call'[c].step = "post" /\ call'[c].waits = {}
      /\ call'[c].own = call[c].own /\ call'[c].charged = call[c].charged
      /\ call'[c].retry = call[c].retry + 1
  BY DEF Repeats
<1>3. PendingOf(c)' = PendingOf(c)
  BY <1>2 DEF PendingOf, Pending, InProgress, At
<1>4. /\ IsFiniteSet(call[c].own) /\ call[c].charged \in Nat /\ call[c].retry \in Nat
  BY <1>1, CallFields, PaymentGatewayAssumption DEF CallInv, CallOf, OwnIsSent
<1>5. AttemptsAreCounted(c)'
  <2>1. call[c].charged + Cardinality(PendingOf(c)) <= call[c].retry + 1
    BY <1>1, <1>4, PendingIsFinite DEF CallInv, CallOf, AttemptsAreCounted, Attempts
  <2>. QED  BY <1>2, <1>3, <2>1 DEF AttemptsAreCounted, Attempts, CallAt
<1>6. RecordedIsCharged(c)'
  BY <1>1, <1>2 DEF RecordedIsCharged, InLoop, CallInv, CallOf
<1>7. WaitsForOwn(c)' /\ OwnIsSent(c)' /\ OkIsPaid(c)'
  BY <1>1, <1>2 DEF CallInv, CallOf, WaitsForOwn, OwnIsSent, OkIsPaid, CallAt, Returned
<1>. QED  BY <1>5, <1>6, <1>7 DEF CallOf

-----------------------------------------------------------------------------
(* Every action keeps the invariant of any calls.                          *)

LEMMA ServerStays ==
  ASSUME ServerInv, UNCHANGED serverVars
  PROVE  ServerInv' /\ post' = post /\ processed' = processed
         /\ retryCounts' = retryCounts
  BY ServerNextKeeps DEF serverVars

\* Nothing is counted.
LEMMA CountsStay ==
  ASSUME CallInv, retryCounts' = retryCounts,
         \A w \in Slots : post'[w] = post[w] \/ post'[w].step # "draw"
  PROVE  CountsFrom'
  BY DEF CallInv, CountsFrom, At

\* Only c's call changes, and none of the requests of another.
LEMMA OneCallChanges ==
  ASSUME CallInv, NEW c \in Callers, OnlyCall(c), CallOf(c)',
         \A d \in Callers \ {c} : call[d] # NoCall =>
           \A v \in call[d].own : post'[v] = post[v]
  PROVE  \A d \in Callers : CallOf(d)'
  BY CallStays DEF CallInv, OnlyCall

LEMMA RequestRideKeeps ==
  ASSUME CallInv, NEW t \in Tokens, RequestRide(t)
  PROVE  CallInv'
<1>1. /\ ServerInv' /\ post' = post /\ retryCounts' = retryCounts /\ call' = call
      /\ rides' \in [Tokens -> Nat] /\ open' \subseteq Tokens
      /\ lost' = lost /\ rolledBack' = rolledBack
  BY ServerStays DEF RequestRide, CallInv, TypeOK, faults
<1>2. \A c \in Callers : CallOf(c)'
  BY <1>1, CallStays DEF CallInv
<1>3. CountsFrom'
  BY <1>1, CountsStay
<1>. QED
  BY <1>1, <1>2, <1>3 DEF CallInv, TypeOK, ServerInv, KeylessRequests, OwnersDiffer

LEMMA EvaluateKeeps ==
  ASSUME CallInv, NEW c \in Callers, Evaluate(c)
  PROVE  CallInv'
<1>. DEFINE r == [step |-> "post", retry |-> 0, waits |-> {},
                  rides |-> rides[Token[c]], own |-> {},
                  charged |-> 0, others |-> 0, ok |-> FALSE]
<1>1. /\ ServerInv' /\ post' = post /\ retryCounts' = retryCounts /\ rides' = rides /\ open' = open
      /\ lost' = lost /\ rolledBack' = rolledBack /\ call \in [Callers -> Call]
      /\ call' = [call EXCEPT ![c] = r] /\ rides \in [Tokens -> Nat]
      /\ Token[c] \in Tokens
  BY ServerStays, PaymentGatewayAssumption DEF Evaluate, CallInv, TypeOK, faults
<1>2. /\ r \in Call /\ r.step = "post" /\ r.own = {} /\ r.charged = 0
      /\ r.retry = 0 /\ r.waits = {}
  BY <1>1, PaymentGatewayAssumption DEF Call
<1>. HIDE DEF r
<1>3. call' \in [Callers -> Call] /\ OnlyCall(c) /\ call'[c] = r
  BY <1>1, <1>2 DEF OnlyCall
<1>4. CallOf(c)'
  <2>1. PendingOf(c)' = {}
    BY <1>2, <1>3 DEF PendingOf
  <2>. QED
    BY <1>2, <1>3, <2>1, FS_EmptySet
       DEF CallOf, WaitsForOwn, OwnIsSent, AttemptsAreCounted, Attempts,
           RecordedIsCharged, OkIsPaid, CallAt, Returned
<1>5. \A d \in Callers : CallOf(d)'
  BY <1>1, <1>3, <1>4, OneCallChanges
<1>6. OwnersDiffer'
  BY <1>2, <1>3 DEF OwnersDiffer, CallInv, OnlyCall
<1>7. TypeOK' /\ KeylessRequests'
  BY <1>1, <1>3 DEF CallInv, TypeOK, ServerInv, KeylessRequests
<1>8. CountsFrom'
  BY <1>1, CountsStay
<1>. QED  BY <1>1, <1>5, <1>6, <1>7, <1>8 DEF CallInv

LEMMA EvaluationEndsKeeps ==
  ASSUME CallInv, NEW c \in Callers, EvaluationEnds(c)
  PROVE  CallInv'
<1>1. /\ ServerInv' /\ post' = post /\ retryCounts' = retryCounts /\ rides' = rides
      /\ call \in [Callers -> Call] /\ call' = [call EXCEPT ![c] = NoCall]
  BY ServerStays DEF EvaluationEnds, CallInv, TypeOK
<1>2. open' \subseteq Tokens /\ lost' = lost /\ rolledBack' \in 0 .. MaxRollbacks
  BY PaymentGatewayAssumption DEF EvaluationEnds, CallInv, TypeOK, faults
<1>3. call' \in [Callers -> Call] /\ OnlyCall(c) /\ call'[c] = NoCall
  BY <1>1 DEF OnlyCall, Call
<1>4. \A d \in Callers : CallOf(d)'
  BY <1>1, <1>3, OneCallChanges DEF CallOf
<1>5. OwnersDiffer'
  BY <1>3 DEF OwnersDiffer, CallInv, OnlyCall
<1>6. TypeOK' /\ KeylessRequests'
  BY <1>1, <1>2, <1>3 DEF CallInv, TypeOK, ServerInv, KeylessRequests
<1>7. CountsFrom'
  BY <1>1, CountsStay
<1>. QED  BY <1>1, <1>4, <1>5, <1>6, <1>7 DEF CallInv

\* What PostPayment does.
Posts(c, w) ==
  /\ post[w].step = "idle" /\ post'[w].step = "parse"
  /\ post'[w].key = NoKey /\ post'[w].new /\ post'[w].token = Token[c]
  /\ \A v \in Slots \ {w} : post'[v] = post[v]
  /\ UNCHANGED <<processed, retryCounts, rides, open, lost, rolledBack>>
  /\ OnlyCall(c) /\ call' \in [Callers -> Call]
  /\ call[c].step = "post" /\ call'[c].step = "sent" /\ call'[c].waits = {w}
  /\ call'[c].own = call[c].own \cup {w}
  /\ call'[c].charged = call[c].charged /\ call'[c].retry = call[c].retry
  /\ call'[c].rides = call[c].rides

LEMMA PostPaymentPosts ==
  ASSUME CallInv, NEW c \in Callers, PostPayment(c)
  PROVE  /\ ServerInv'
         /\ \E w \in Slots : Posts(c, w)
<1>0. PICK w \in Slots, fare \in Amounts :
       /\ Receive(w, NoKey, Token[c], fare)
       /\ call' = [call EXCEPT ![c].step = "sent", ![c].waits = {w},
                               ![c].own = @ \cup {w}]
  BY DEF PostPayment
<1>1. Token[c] \in Tokens
  BY PaymentGatewayAssumption
<1>2. ServerInv'
  BY <1>0, <1>1, ReceiveKeeps DEF CallInv
<1>3. /\ post[w].step = "idle" /\ post'[w].step = "parse"
      /\ post'[w].key = NoKey /\ post'[w].new /\ post'[w].token = Token[c]
      /\ \A v \in Slots \ {w} : post'[v] = post[v]
      /\ UNCHANGED <<processed, retryCounts>>
  <2>1. post \in [Slots -> Post]
    BY DEF CallInv, ServerInv, ServerTypeOK
  <2>2. /\ post[w] = Idle /\ UNCHANGED <<processed, retryCounts>>
        /\ post' = [post EXCEPT ![w] = [step |-> "parse", key |-> NoKey,
                                        token |-> Token[c], amount |-> fare,
                                        new |-> TRUE, count |-> 0]]
    BY <1>0 DEF Receive
  <2>. QED  BY <2>1, <2>2 DEF Idle
<1>4. call[c].step = "post" /\ UNCHANGED <<rides, open, lost, rolledBack>>
  BY DEF PostPayment, CallAt, faults
<1>. DEFINE own == call[c].own \cup {w}
            W == {w}
<1>5. call[c] \in [step : {"post", "sent", "get", "returned"},
                   retry : 0 .. RetryLimit, waits : SUBSET Slots,
                   rides : Nat, own : SUBSET Slots, charged : Nat,
                   others : Int, ok : BOOLEAN]
  BY <1>4, CallFields DEF CallInv
<1>6. own \in SUBSET Slots /\ W \in SUBSET Slots
  BY <1>5
<1>7. /\ call \in [Callers -> Call]
      /\ call' = [call EXCEPT ![c].step = "sent", ![c].waits = W, ![c].own = own]
  BY <1>0 DEF CallInv, TypeOK
<1>. HIDE DEF own, W
<1>8. /\ call'[c] = [call[c] EXCEPT !.step = "sent", !.waits = W, !.own = own]
      /\ OnlyCall(c)
  BY <1>7 DEF OnlyCall
<1>9. call'[c] \in Call
  BY <1>5, <1>6, <1>8 DEF Call
<1>10. call' \in [Callers -> Call]
  BY <1>7, <1>9
<1>11. /\ call'[c].step = "sent" /\ call'[c].waits = W /\ call'[c].own = own
       /\ call'[c].charged = call[c].charged /\ call'[c].retry = call[c].retry
       /\ call'[c].rides = call[c].rides
  BY <1>5, <1>8
<1>12. Posts(c, w)
  BY <1>3, <1>4, <1>8, <1>10, <1>11 DEF Posts, own, W
<1>. QED  BY <1>2, <1>12

\* A request that is not being handled is nobody's.
LEMMA IdleIsNobodys ==
  ASSUME CallInv, NEW w \in Slots, post[w].step = "idle", NEW d \in Callers,
         call[d] # NoCall
  PROVE  w \notin call[d].own
  BY DEF CallInv, CallOf, OwnIsSent

LEMMA PostPaymentKeeps ==
  ASSUME CallInv, NEW c \in Callers, PostPayment(c)
  PROVE  CallInv'
<1>. PICK w \in Slots : Posts(c, w)
  BY PostPaymentPosts
<1>1. ServerInv'
  BY PostPaymentPosts
<1>2. /\ \A d \in Callers : call[d] # NoCall => w \notin call[d].own
      /\ call[c] # NoCall /\ call'[c] # NoCall
  BY IdleIsNobodys, CallFields DEF Posts, CallInv, NoCall
<1>3. TypeOK' /\ KeylessRequests'
  BY <1>1 DEF Posts, CallInv, TypeOK, ServerInv, KeylessRequests
<1>4. /\ IsFiniteSet(call[c].own) /\ call[c].charged \in Nat /\ call[c].retry \in Nat
  BY <1>2, CallFields, PaymentGatewayAssumption DEF CallInv, CallOf, OwnIsSent
<1>5. IsFiniteSet(call'[c].own)
  BY <1>4, FS_AddElement DEF Posts
<1>6. AttemptsAreCounted(c)'
  <2>1. \A v \in Slots \ {w} : Pending(v)' <=> Pending(v)
    BY DEF Posts, Pending, InProgress, At
  <2>2. Pending(w)' /\ call[c].own \subseteq Slots
    BY <1>2, CallFields DEF Posts, Pending, InProgress, At, Replies, CallInv
  <2>3. PendingOf(c)' = PendingOf(c) \cup {w} /\ w \notin PendingOf(c)
    BY <1>2, <2>1, <2>2 DEF Posts, PendingOf
  <2>4. Cardinality(PendingOf(c)') = Cardinality(PendingOf(c)) + 1
    BY <1>4, <2>3, PendingIsFinite, FS_AddElement
  <2>5. call[c].charged + Cardinality(PendingOf(c)) <= call[c].retry
    BY <1>2 DEF Posts, CallInv, CallOf, AttemptsAreCounted, Attempts, CallAt
  <2>6. Cardinality(PendingOf(c)) \in Nat
    BY <1>4, PendingIsFinite
  <2>. QED
    BY <1>4, <2>4, <2>5, <2>6 DEF AttemptsAreCounted, Attempts, CallAt, Posts
<1>7. WaitsForOwn(c)' /\ OwnIsSent(c)' /\ RecordedIsCharged(c)' /\ OkIsPaid(c)'
  <2>1. call[c].own \subseteq Slots
    BY <1>2, CallFields DEF CallInv
  <2>2. WaitsForOwn(c)' /\ OkIsPaid(c)'
    BY DEF Posts, WaitsForOwn, OkIsPaid, CallAt, Returned
  <2>3. OwnIsSent(c)'
    BY <1>2, <1>5, <2>1 DEF Posts, CallInv, CallOf, OwnIsSent
  <2>4. RecordedIsCharged(c)'
    BY <1>2, <2>1 DEF Posts, CallInv, CallOf, RecordedIsCharged, InLoop
  <2>. QED  BY <2>2, <2>3, <2>4
<1>8. \A d \in Callers : CallOf(d)'
  <2>1. CallOf(c)'
    BY <1>6, <1>7 DEF CallOf
  <2>2. ASSUME NEW d \in Callers, call[d] # NoCall, NEW v \in call[d].own
        PROVE  post'[v] = post[v]
    BY <1>2, <2>2, CallFields DEF Posts, CallInv
  <2>. QED  BY <2>1, <2>2, OneCallChanges DEF Posts
<1>9. OwnersDiffer'
  BY <1>2 DEF Posts, CallInv, OwnersDiffer, OnlyCall
<1>10. CountsFrom'
  BY CountsStay DEF Posts
<1>. QED  BY <1>1, <1>3, <1>8, <1>9, <1>10 DEF CallInv

\* What Answered does.
LEMMA Answers ==
  ASSUME ServerInv, NEW w \in Slots, Answered(w)
  PROVE  /\ ServerInv' /\ post[w].step \in Replies /\ post'[w].step = "idle"
         /\ \A v \in Slots \ {w} : post'[v] = post[v]
         /\ UNCHANGED <<processed, retryCounts>>
<1>1. ServerInv'
  BY AnsweredKeeps
<1>2. post \in [Slots -> Post]
  BY DEF ServerInv, ServerTypeOK
<1>. QED  BY <1>1, <1>2 DEF Answered, Idle

\* The loop goes on to GET /payments.
Asks(c, w) ==
  /\ OnlyCall(c) /\ call' \in [Callers -> Call]
  /\ call'[c].step = "get" /\ call'[c].waits = {}
  /\ call'[c].own = call[c].own \ {w}
  /\ call'[c].charged = call[c].charged /\ call'[c].retry = call[c].retry
  /\ call'[c].rides = call[c].rides

LEMMA PostAnsweredCases ==
  ASSUME CallInv, NEW c \in Callers, PostAnswered(c)
  PROVE  \E w \in Slots :
           /\ call[c].step = "sent" /\ w \in call[c].own /\ call[c].waits = {w}
           /\ Answered(w) /\ UNCHANGED <<rides, open, lost, rolledBack>>
           /\ IF At(w, "ok") THEN Return(c, TRUE) ELSE Asks(c, w)
<1>0. PICK w \in call[c].waits :
       /\ Answered(w)
       /\ IF At(w, "ok") THEN Return(c, TRUE)
          ELSE call' = [call EXCEPT ![c].step = "get", ![c].waits = {},
                                    ![c].own = @ \ {w}]
  BY DEF PostAnswered
<1>1. call[c].step = "sent" /\ UNCHANGED <<rides, open, lost, rolledBack>>
  BY DEF PostAnswered, CallAt, faults
<1>2. call[c] # NoCall /\
      call[c] \in [step : {"post", "sent", "get", "returned"},
                   retry : 0 .. RetryLimit, waits : SUBSET Slots,
                   rides : Nat, own : SUBSET Slots, charged : Nat,
                   others : Int, ok : BOOLEAN]
  BY <1>1, CallFields DEF CallInv
<1>3. w \in Slots /\ w \in call[c].own /\ call[c].waits = {w}
  BY <1>0, <1>1, <1>2 DEF CallInv, CallOf, WaitsForOwn, CallAt
<1>4. ASSUME ~At(w, "ok")
      PROVE  Asks(c, w)
  <2>. DEFINE own == call[c].own \ {w}
  <2>1. own \in SUBSET Slots
    BY <1>2
  <2>2. /\ call \in [Callers -> Call]
        /\ call' = [call EXCEPT ![c].step = "get", ![c].waits = {}, ![c].own = own]
    BY <1>0, <1>4 DEF CallInv, TypeOK
  <2>. HIDE DEF own
  <2>3. /\ call'[c] = [call[c] EXCEPT !.step = "get", !.waits = {}, !.own = own]
        /\ OnlyCall(c)
    BY <2>2 DEF OnlyCall
  <2>4. call'[c] \in Call
    BY <1>2, <2>1, <2>3 DEF Call
  <2>5. call' \in [Callers -> Call]
    BY <2>2, <2>4
  <2>6. /\ call'[c].step = "get" /\ call'[c].waits = {} /\ call'[c].own = own
        /\ call'[c].charged = call[c].charged /\ call'[c].retry = call[c].retry
        /\ call'[c].rides = call[c].rides
    BY <1>2, <2>3
  <2>. QED  BY <2>3, <2>5, <2>6 DEF Asks, own
<1>. QED  BY <1>0, <1>1, <1>3, <1>4

LEMMA PostAnsweredKeeps ==
  ASSUME CallInv, NEW c \in Callers, PostAnswered(c)
  PROVE  CallInv'
<1>. PICK w \in Slots :
       /\ call[c].step = "sent" /\ w \in call[c].own /\ call[c].waits = {w}
       /\ Answered(w) /\ UNCHANGED <<rides, open, lost, rolledBack>>
       /\ IF At(w, "ok") THEN Return(c, TRUE) ELSE Asks(c, w)
  BY PostAnsweredCases
<1>1. /\ ServerInv' /\ post[w].step \in Replies /\ post'[w].step = "idle"
      /\ \A v \in Slots \ {w} : post'[v] = post[v]
      /\ UNCHANGED <<processed, retryCounts>>
  BY Answers DEF CallInv
<1>2. call[c] # NoCall /\ call[c].own \subseteq Slots
  BY CallFields DEF CallInv
<1>3. \A v \in call[c].own \ {w} : post'[v] = post[v]
  BY <1>1, <1>2
<1>4. /\ OnlyCall(c) /\ call' \in [Callers -> Call]
      /\ call'[c].own \subseteq call[c].own \ {w} /\ CallOf(c)'
  <2>1. CASE At(w, "ok")
    <3>1. Return(c, TRUE) /\ ~InProgress(w)
      BY <2>1 DEF InProgress, At, Replies
    <3>2. call[c].charged > 0
      BY <1>2, <2>1 DEF CallInv, CallOf, RecordedIsCharged, InLoop, At
    <3>3. CallOf(c)'
      BY <1>2, <1>3, <3>1, <3>2, CallReturns
    <3>. QED  BY <1>2, <3>1, <3>3, Returns DEF CallInv
  <2>2. CASE ~At(w, "ok")
    <3>1. Asks(c, w)
      BY <2>2
    <3>2. /\ IsFiniteSet(call[c].own) /\ IsFiniteSet(call'[c].own)
          /\ call[c].charged \in Nat /\ call[c].retry \in Nat
      BY <1>2, <3>1, FS_RemoveElement, CallFields, PaymentGatewayAssumption
         DEF CallInv, CallOf, OwnIsSent, Asks
    <3>3. AttemptsAreCounted(c)'
      <4>1. PendingOf(c)' \in SUBSET PendingOf(c)
        BY <1>3, <3>1 DEF PendingOf, Pending, InProgress, At, Asks
      <4>2. PICK m, n \in Nat : /\ m = Cardinality(PendingOf(c))'
                                /\ n = Cardinality(PendingOf(c)) /\ m <= n
        BY <3>2, <4>1, PendingIsFinite
      <4>3. call[c].charged + n <= call[c].retry + 1
        BY <1>2, <4>2 DEF CallInv, CallOf, AttemptsAreCounted, Attempts, CallAt
      <4>. QED  BY <3>1, <3>2, <4>2, <4>3 DEF AttemptsAreCounted, Attempts, CallAt, Asks
    <3>4. RecordedIsCharged(c)'
      BY <1>2, <1>3, <3>1 DEF CallInv, CallOf, RecordedIsCharged, InLoop, Asks
    <3>5. WaitsForOwn(c)' /\ OwnIsSent(c)' /\ OkIsPaid(c)'
      BY <1>2, <1>3, <3>1, <3>2
         DEF CallInv, CallOf, WaitsForOwn, OwnIsSent, OkIsPaid, CallAt, Returned, Asks
    <3>. QED  BY <3>1, <3>3, <3>4, <3>5 DEF CallOf, Asks
  <2>. QED  BY <2>1, <2>2
<1>5. \A d \in Callers \ {c} : call[d] # NoCall =>
        w \notin call[d].own /\ \A v \in call[d].own : post'[v] = post[v]
  BY <1>1, <1>2, CallFields DEF CallInv, OwnersDiffer
<1>6. \A d \in Callers : CallOf(d)'
  BY <1>4, <1>5, OneCallChanges
<1>7. OwnersDiffer'
  BY <1>2, <1>4 DEF CallInv, OwnersDiffer, OnlyCall
<1>8. TypeOK' /\ KeylessRequests'
  BY <1>1, <1>4 DEF CallInv, TypeOK, ServerInv, KeylessRequests
<1>9. CountsFrom'
  BY <1>1, CountsStay
<1>. QED  BY <1>1, <1>6, <1>7, <1>8, <1>9 DEF CallInv

\* The steps that end or repeat an attempt without an answer.
LEMMA AttemptEndsKeeps ==
  ASSUME CallInv, NEW c \in Callers, InLoop(c), UNCHANGED serverVars,
         \/ Return(c, TRUE) /\ Paid(Token[c]) = call[c].rides
         \/ Fail(c),
         UNCHANGED <<rides, open, rolledBack>>, lost' \in 0 .. MaxLost
  PROVE  CallInv'
<1>1. call[c] # NoCall
  BY CallFields DEF CallInv, InLoop
<1>2. ServerInv' /\ post' = post /\ retryCounts' = retryCounts
  BY ServerStays DEF CallInv
<1>3. /\ OnlyCall(c) /\ call' \in [Callers -> Call]
      /\ call'[c].own \subseteq call[c].own /\ CallOf(c)'
  <2>1. CASE Return(c, TRUE) /\ Paid(Token[c]) = call[c].rides
    BY <1>1, <1>2, <2>1, Returns, CallReturns DEF CallInv
  <2>2. CASE Return(c, FALSE)
    BY <1>1, <1>2, <2>2, Returns, CallReturns DEF CallInv
  <2>3. CASE Repeats(c)
    BY <1>2, <2>3, CallRepeats DEF Repeats
  <2>. QED  BY <1>1, <2>1, <2>2, <2>3, Fails DEF CallInv
<1>4. \A d \in Callers : CallOf(d)'
  BY <1>2, <1>3, OneCallChanges
<1>5. OwnersDiffer'
  BY <1>1, <1>3 DEF CallInv, OwnersDiffer, OnlyCall
<1>6. TypeOK' /\ KeylessRequests'
  BY <1>2, <1>3 DEF CallInv, TypeOK, ServerInv, KeylessRequests
<1>7. CountsFrom'
  BY <1>2, CountsStay
<1>. QED  BY <1>2, <1>4, <1>5, <1>6, <1>7 DEF CallInv

LEMMA GetPaymentsKeeps ==
  ASSUME CallInv, NEW c \in Callers, GetPayments(c)
  PROVE  CallInv'
<1>1. /\ InLoop(c) /\ UNCHANGED serverVars /\ UNCHANGED <<rides, open, rolledBack>>
      /\ lost' \in 0 .. MaxLost
  BY DEF GetPayments, CallAt, InLoop, faults, CallInv, TypeOK
<1>2. \/ Return(c, TRUE) /\ Paid(Token[c]) = call[c].rides
      \/ Fail(c)
  BY Zenon DEF GetPayments
<1>. QED  BY <1>1, <1>2, AttemptEndsKeeps

LEMMA TransportFailsKeeps ==
  ASSUME CallInv, NEW c \in Callers, TransportFails(c)
  PROVE  CallInv'
<1>1. /\ InLoop(c) /\ UNCHANGED serverVars /\ UNCHANGED <<rides, open, rolledBack>>
      /\ lost' \in 0 .. MaxLost
  BY PaymentGatewayAssumption DEF TransportFails, InLoop, CallInv, TypeOK
<1>2. Fail(c)
  BY DEF TransportFails
<1>. QED  BY <1>1, <1>2, AttemptEndsKeeps

\* What the service does to the calls.
Charges(w, c) == InLoop(c) /\ w \in call[c].own /\ Turns(w, "process", "reply")

LEMMA ServerStepCharges ==
  ASSUME CallInv, NEW w \in Slots, ServerStep(w)
  PROVE  /\ ServerInv' /\ post[w].step # "idle" /\ StaysKeyless(w) /\ KeylessStep(w)
         /\ UNCHANGED <<rides, open, lost, rolledBack>>
         /\ call' \in [Callers -> Call]
         /\ \A c \in Callers :
              IF Charges(w, c)
              THEN /\ call'[c].step = call[c].step /\ call'[c].own = call[c].own
                   /\ call'[c].waits = call[c].waits /\ call'[c].ok = call[c].ok
                   /\ call'[c].retry = call[c].retry
                   /\ call'[c].rides = call[c].rides
                   /\ call'[c].charged = call[c].charged + 1
              ELSE call'[c] = call[c]
<1>1. Handle(w) /\ UNCHANGED <<rides, open, lost, rolledBack>>
  BY DEF ServerStep, faults
<1>2. post[w].step # "idle" /\ StaysKeyless(w) /\ KeylessStep(w)
  BY <1>1, HandleKeyless DEF CallInv, KeylessRequests
<1>3. ServerInv'
  <2>1. ServerNext
    BY <1>1 DEF ServerNext
  <2>. QED  BY <2>1, ServerNextKeeps DEF CallInv
<1>4. processed' # processed <=> Turns(w, "process", "reply")
  <2>1. CASE Turns(w, "process", "reply")
    <3>1. PICK row \in Row : processed' = Append(processed, row)
      BY <1>2, <2>1 DEF KeylessStep, Turns
    <3>2. processed \in Seq(Row)
      BY DEF CallInv, ServerInv, ServerTypeOK, Row
    <3>3. Len(processed') = Len(processed) + 1 /\ Len(processed) \in Nat
      <4>. HIDE DEF Row
      <4>. QED  BY <3>1, <3>2, AppendProperties
    <3>. QED  BY <2>1, <3>3
  <2>2. CASE ~Turns(w, "process", "reply")
    BY <1>2, <2>2 DEF KeylessStep
  <2>. QED  BY <2>1, <2>2
<1>5. call' = [c \in Callers |->
                 IF Charges(w, c)
                 THEN [call[c] EXCEPT !.charged = call[c].charged + 1]
                 ELSE call[c]]
  BY <1>4 DEF ServerStep, Charges, InLoop
<1>6. ASSUME NEW c \in Callers, Charges(w, c)
      PROVE  /\ call'[c].step = call[c].step /\ call'[c].own = call[c].own
             /\ call'[c].waits = call[c].waits /\ call'[c].ok = call[c].ok
             /\ call'[c].retry = call[c].retry
             /\ call'[c].rides = call[c].rides
             /\ call'[c].charged = call[c].charged + 1
             /\ call'[c] \in Call
  <2>1. call[c] \in [step : {"post", "sent", "get", "returned"},
                     retry : 0 .. RetryLimit, waits : SUBSET Slots,
                     rides : Nat, own : SUBSET Slots, charged : Nat,
                     others : Int, ok : BOOLEAN]
    BY <1>6, CallFields DEF CallInv, Charges, InLoop
  <2>. DEFINE n == call[c].charged + 1
  <2>2. n \in Nat
    BY <2>1
  <2>3. call'[c] = [call[c] EXCEPT !.charged = n]
    BY <1>5, <1>6
  <2>. HIDE DEF n
  <2>4. call'[c] \in Call
    BY <2>1, <2>2, <2>3 DEF Call
  <2>. QED  BY <2>1, <2>3, <2>4 DEF n
<1>7. \A c \in Callers : ~Charges(w, c) => call'[c] = call[c]
  BY <1>5
<1>8. call' \in [Callers -> Call]
  <2>1. \A c \in Callers : call'[c] \in Call
    BY <1>6, <1>7 DEF CallInv, TypeOK
  <2>. QED  BY <1>5, <2>1
<1>. QED  BY <1>1, <1>2, <1>3, <1>6, <1>7, <1>8

LEMMA ServerStepKeeps ==
  ASSUME CallInv, NEW w \in Slots, ServerStep(w)
  PROVE  CallInv'
<1>1. /\ ServerInv' /\ StaysKeyless(w) /\ KeylessStep(w)
      /\ UNCHANGED <<rides, open, lost, rolledBack>>
      /\ call' \in [Callers -> Call]
  BY ServerStepCharges
<1>2. ASSUME NEW c \in Callers
      PROVE  /\ call'[c].step = call[c].step
             /\ call[c] # NoCall => call'[c].own = call[c].own
             /\ call[c] # NoCall => call'[c].waits = call[c].waits
             /\ call'[c] = NoCall <=> call[c] = NoCall
  <2>1. /\ call'[c].step = call[c].step
        /\ call[c] # NoCall => call'[c].own = call[c].own
        /\ call[c] # NoCall => call'[c].waits = call[c].waits
    BY ServerStepCharges
  <2>2. call[c] = NoCall <=> call[c].step = "none"
    BY CallFields DEF CallInv
  <2>3. call'[c] = NoCall <=> call'[c].step = "none"
    BY <1>1 DEF Call, NoCall
  <2>. QED  BY <2>1, <2>2, <2>3
<1>3. ASSUME NEW c \in Callers, call[c] # NoCall
      PROVE  CallOf(c)'
  <2>1. CASE w \notin call[c].own
    <3>1. call'[c] = call[c]
      BY <2>1, ServerStepCharges DEF Charges
    <3>2. \A v \in call[c].own : post'[v] = post[v]
      BY <1>1, <1>3, <2>1, CallFields DEF StaysKeyless, CallInv
    <3>. QED  BY <3>1, <3>2, CallStays DEF CallInv
  <2>2. CASE w \in call[c].own
    <3>1. /\ IsFiniteSet(call[c].own) /\ call[c].charged \in Nat
          /\ call[c].retry \in Nat /\ call[c].own \subseteq Slots
      BY <1>3, CallFields, PaymentGatewayAssumption DEF CallInv, CallOf, OwnIsSent
    <3>2. \A v \in call[c].own \ {w} : post'[v] = post[v]
      BY <1>1, <3>1 DEF StaysKeyless
    <3>3. WaitsForOwn(c)' /\ OwnIsSent(c)'
      BY <1>1, <1>2, <1>3, <3>1, <3>2
         DEF CallInv, CallOf, WaitsForOwn, OwnIsSent, CallAt, StaysKeyless
    <3>4. \A v \in call[c].own \ {w} : Pending(v)' <=> Pending(v)
      BY <3>2 DEF Pending, InProgress, At
    <3>5. Attempts(c)' = Attempts(c)
      BY <1>2, <1>3, ServerStepCharges DEF Attempts, CallAt
    <3>6. call[c].charged + Cardinality(PendingOf(c)) <= Attempts(c)
      BY <1>3 DEF CallInv, CallOf, AttemptsAreCounted
    <3>7. Attempts(c) \in Nat /\ Cardinality(PendingOf(c)) \in Nat
      BY <3>1, PendingIsFinite DEF Attempts
    <3>8. CASE Turns(w, "process", "reply")
      <4>1. Pending(w) /\ ~Pending(w)'
        BY <3>8 DEF Turns, Pending, InProgress, At, Replies
      <4>2. PendingOf(c)' = PendingOf(c) \ {w} /\ w \in PendingOf(c)
        BY <1>2, <1>3, <2>2, <3>4, <4>1 DEF PendingOf
      <4>3. Cardinality(PendingOf(c)') = Cardinality(PendingOf(c)) - 1
        BY <3>1, <4>2, PendingIsFinite, FS_RemoveElement
      <4>4. CASE InLoop(c)
        <5>1. /\ call'[c].charged = call[c].charged + 1 /\ InLoop(c)'
              /\ call'[c].step = call[c].step
          BY <1>2, <2>2, <3>8, <4>4, ServerStepCharges DEF Charges, InLoop
        <5>2. AttemptsAreCounted(c)' /\ RecordedIsCharged(c)'
          BY <3>1, <3>5, <3>6, <3>7, <4>3, <5>1 DEF AttemptsAreCounted, RecordedIsCharged
        <5>3. OkIsPaid(c)'
          BY <4>4, <5>1 DEF OkIsPaid, Returned, CallAt, InLoop
        <5>. QED  BY <3>3, <5>2, <5>3 DEF CallOf
      <4>5. CASE ~InLoop(c)
        <5>1. call'[c] = call[c]
          BY <4>5, ServerStepCharges DEF Charges
        <5>2. AttemptsAreCounted(c)' /\ RecordedIsCharged(c)' /\ OkIsPaid(c)'
          BY <1>3, <3>1, <3>5, <3>6, <3>7, <4>3, <4>5, <5>1
             DEF AttemptsAreCounted, RecordedIsCharged, OkIsPaid, InLoop, Returned,
                 CallAt, CallInv, CallOf
        <5>. QED  BY <3>3, <5>2 DEF CallOf
      <4>. QED  BY <4>4, <4>5
    <3>9. CASE ~Turns(w, "process", "reply")
      <4>1. call'[c] = call[c]
        BY <3>9, ServerStepCharges DEF Charges
      <4>2. Pending(w)' => Pending(w)
        BY <1>1, <3>9 DEF KeylessStep, Turns, Pending, InProgress, At, Replies,
                          Verdict
      <4>3. PendingOf(c)' \in SUBSET PendingOf(c)
        BY <3>4, <4>1, <4>2 DEF PendingOf
      <4>4. PICK m \in Nat : /\ m = Cardinality(PendingOf(c))'
                             /\ m <= Cardinality(PendingOf(c))
        BY <3>1, <4>3, PendingIsFinite
      <4>5. AttemptsAreCounted(c)'
        BY <3>1, <3>5, <3>6, <3>7, <4>1, <4>4 DEF AttemptsAreCounted
      <4>6. post'[w].step \in {"reply", "ok"} => post[w].step \in {"reply", "ok"}
        BY <1>1, <3>9 DEF KeylessStep, Turns
      <4>7. RecordedIsCharged(c)' /\ OkIsPaid(c)'
        BY <1>3, <3>2, <4>1, <4>6
           DEF RecordedIsCharged, OkIsPaid, InLoop, Returned, CallAt, CallInv, CallOf
      <4>. QED  BY <3>3, <4>5, <4>7 DEF CallOf
    <3>. QED  BY <3>8, <3>9
  <2>. QED  BY <2>1, <2>2
<1>4. \A c \in Callers : CallOf(c)'
  BY <1>2, <1>3 DEF CallOf
<1>5. OwnersDiffer'
  BY <1>2 DEF CallInv, OwnersDiffer
<1>6. TypeOK' /\ KeylessRequests'
  BY <1>1 DEF CallInv, TypeOK, ServerInv, KeylessRequests, StaysKeyless
<1>7. CountsFrom'
  <2>1. post[w].token \in Tokens /\ post[w].count \in Int
    <3>1. post[w].step # "idle"
      BY ServerStepCharges
    <3>. QED  BY <3>1, PostFields DEF CallInv, ServerInv
  <2>2. /\ retryCounts'[post[w].token] >= -1
        /\ post'[w].step = "draw" => post'[w].count >= -1
    BY <1>1, <2>1 DEF CallInv, CountsFrom, KeylessStep, Turns, Counts, At, Verdict
  <2>. QED  BY <1>1, <2>1, <2>2 DEF CallInv, CountsFrom, StaysKeyless, At
<1>. QED  BY <1>1, <1>4, <1>5, <1>6, <1>7 DEF CallInv

\* A request nobody waits for ends.
LEMMA OrphanEndsKeeps ==
  ASSUME CallInv, NEW w \in Slots, OrphanEnds(w)
  PROVE  CallInv'
<1>1. /\ ServerInv' /\ post[w].step \in Replies /\ post'[w].step = "idle"
      /\ \A v \in Slots \ {w} : post'[v] = post[v]
      /\ UNCHANGED <<retryCounts, rides, open, lost, rolledBack>>
  BY Answers DEF CallInv, OrphanEnds, faults
<1>2. ASSUME NEW c \in Callers, call[c] # NoCall
      PROVE  /\ call'[c] \in Call /\ call'[c] # NoCall
             /\ call'[c].step = call[c].step /\ call'[c].own = call[c].own \ {w}
             /\ call'[c].waits = call[c].waits /\ call'[c].ok = call[c].ok
             /\ call'[c].retry = call[c].retry /\ call'[c].rides = call[c].rides
             /\ call'[c].charged = call[c].charged
             /\ call'[c].others = call[c].others
  <2>1. call[c] \in [step : {"post", "sent", "get", "returned"},
                     retry : 0 .. RetryLimit, waits : SUBSET Slots,
                     rides : Nat, own : SUBSET Slots, charged : Nat,
                     others : Int, ok : BOOLEAN]
    BY <1>2, CallFields DEF CallInv
  <2>. DEFINE own == call[c].own \ {w}
  <2>2. own \in SUBSET Slots
    BY <2>1
  <2>3. call'[c] = [call[c] EXCEPT !.own = own]
    BY <1>2 DEF OrphanEnds
  <2>. HIDE DEF own
  <2>4. call'[c] \in Call
    BY <2>1, <2>2, <2>3 DEF Call
  <2>5. call'[c].step # "none"
    BY <2>1, <2>3
  <2>. QED  BY <2>1, <2>3, <2>4, <2>5 DEF own, NoCall
<1>3. ASSUME NEW c \in Callers, call[c] = NoCall
      PROVE  call'[c] = NoCall
  BY <1>3 DEF OrphanEnds
<1>4. call' \in [Callers -> Call]
  <2>1. \A c \in Callers : call'[c] \in Call
    BY <1>2, <1>3 DEF Call
  <2>. QED  BY <2>1 DEF OrphanEnds
<1>5. ASSUME NEW c \in Callers, call[c] # NoCall
      PROVE  CallOf(c)'
  <2>1. /\ IsFiniteSet(call[c].own) /\ call[c].charged \in Nat
        /\ call[c].retry \in Nat /\ call[c].own \subseteq Slots
    BY <1>5, CallFields, PaymentGatewayAssumption DEF CallInv, CallOf, OwnIsSent
  <2>2. \A v \in call'[c].own : v \in call[c].own /\ post'[v] = post[v]
    BY <1>1, <1>2, <1>5, <2>1
  <2>3. w \notin call[c].waits
    BY <1>5 DEF OrphanEnds, Orphaned
  <2>4. WaitsForOwn(c)'
    <3>1. WaitsForOwn(c)
      BY <1>5 DEF CallInv, CallOf
    <3>2. ASSUME CallAt(c, "sent")
          PROVE  \E v \in call'[c].own : call'[c].waits = {v}
      <4>. PICK v \in call[c].own : call[c].waits = {v}
        BY <3>1, <3>2 DEF WaitsForOwn
      <4>. QED  BY <1>2, <1>5, <2>3
    <3>3. call'[c].step = call[c].step /\ call'[c].waits = call[c].waits
      BY <1>2, <1>5
    <3>. QED  BY <3>1, <3>2, <3>3, Zenon DEF WaitsForOwn, CallAt
  <2>5. OwnIsSent(c)'
    <3>1. OwnIsSent(c) /\ call'[c].own = call[c].own \ {w}
      BY <1>2, <1>5 DEF CallInv, CallOf
    <3>2. IsFiniteSet(call[c].own \ {w})
      BY <2>1, FS_RemoveElement
    <3>. QED  BY <2>2, <3>1, <3>2 DEF OwnIsSent
  <2>6. PendingOf(c)' \in SUBSET PendingOf(c)
    BY <2>2 DEF PendingOf, Pending, InProgress, At
  <2>7. PICK m, n \in Nat : /\ m = Cardinality(PendingOf(c))'
                            /\ n = Cardinality(PendingOf(c)) /\ m <= n
    BY <2>1, <2>6, PendingIsFinite
  <2>8. AttemptsAreCounted(c)'
    <3>1. call[c].charged + n <= Attempts(c) /\ Attempts(c)' = Attempts(c)
      BY <1>2, <1>5, <2>7 DEF AttemptsAreCounted, CallInv, CallOf, Attempts, CallAt
    <3>2. Attempts(c) \in Nat
      BY <2>1 DEF Attempts
    <3>. QED  BY <1>2, <1>5, <2>1, <2>7, <3>1, <3>2 DEF AttemptsAreCounted
  <2>9. RecordedIsCharged(c)'
    BY <1>2, <1>5, <2>2 DEF RecordedIsCharged, InLoop, CallInv, CallOf
  <2>10. OkIsPaid(c)'
    BY <1>2, <1>5 DEF OkIsPaid, Returned, CallAt, CallInv, CallOf
  <2>. QED  BY <2>4, <2>5, <2>8, <2>9, <2>10 DEF CallOf
<1>6. \A c \in Callers : CallOf(c)'
  BY <1>3, <1>5 DEF CallOf
<1>7. OwnersDiffer'
  BY <1>2, <1>3 DEF CallInv, OwnersDiffer
<1>8. TypeOK' /\ KeylessRequests'
  BY <1>1, <1>4 DEF CallInv, TypeOK, ServerInv, KeylessRequests
<1>9. CountsFrom'
  BY <1>1, CountsStay
<1>. QED  BY <1>1, <1>6, <1>7, <1>8, <1>9 DEF CallInv

LEMMA CallInit == Init => CallInv
<1>. SUFFICES ASSUME Init
              PROVE  CallInv
  OBVIOUS
<1>1. ServerInv
  BY ServerInitInv DEF Init
<1>2. /\ \A c \in Callers : call[c] = NoCall
      /\ \A w \in Slots : post[w].step = "idle"
  BY DEF Init, ServerInit, Idle
<1>3. TypeOK
  BY <1>1, PaymentGatewayAssumption DEF Init, TypeOK, ServerInv, Call
<1>4. CountsFrom
  BY <1>2 DEF Init, ServerInit, CountsFrom, At
<1>. QED
  BY <1>1, <1>2, <1>3, <1>4 DEF CallInv, KeylessRequests, OwnersDiffer, CallOf

LEMMA CallStep == CallInv /\ [Next]_vars => CallInv'
<1>. SUFFICES ASSUME CallInv, [Next]_vars
              PROVE  CallInv'
  OBVIOUS
<1>1. CASE UNCHANGED vars
  <2>1. /\ ServerInv' /\ post' = post /\ UNCHANGED <<retryCounts, rides, open, call, lost, rolledBack>>
    BY <1>1, ServerStays DEF vars, faults, CallInv, serverVars
  <2>2. \A c \in Callers : CallOf(c)'
    BY <2>1, CallStays DEF CallInv
  <2>3. CountsFrom'
    BY <2>1, CountsStay
  <2>. QED
    BY <2>1, <2>2, <2>3 DEF CallInv, TypeOK, ServerInv, KeylessRequests, OwnersDiffer
<1>2. ASSUME NEW t \in Tokens, RequestRide(t)
      PROVE  CallInv'
  BY <1>2, RequestRideKeeps
<1>3. ASSUME NEW c \in Callers, Evaluate(c) \/ EvaluationEnds(c) \/ LoopStep(c)
                                \/ TransportFails(c)
      PROVE  CallInv'
  BY <1>3, EvaluateKeeps, EvaluationEndsKeeps, PostPaymentKeeps, PostAnsweredKeeps,
     GetPaymentsKeeps, TransportFailsKeeps DEF LoopStep
<1>4. ASSUME NEW w \in Slots, ServerStep(w) \/ OrphanEnds(w)
      PROVE  CallInv'
  BY <1>4, ServerStepKeeps, OrphanEndsKeeps
<1>. QED  BY <1>1, <1>2, <1>3, <1>4 DEF Next, Settled

LEMMA CallInvariant == Spec => []CallInv
  BY CallInit, CallStep, PTL DEF Spec

-----------------------------------------------------------------------------
(* Every action keeps the invariant of calls that pay alone.               *)

\* Nothing of c's changes.
LEMMA LoneStays ==
  ASSUME NEW c \in Callers, call'[c] = call[c], Paid(Token[c])' = Paid(Token[c]),
         retryCounts'[Token[c]] = retryCounts[Token[c]],
         rides'[Token[c]] = rides[Token[c]],
         Token[c] \in open' <=> Token[c] \in open,
         CallAt(c, "sent") => \A w \in call[c].waits : post'[w] = post[w]
  PROVE  /\ LedgerOf(c) => LedgerOf(c)'
         /\ CountOf(c) => CountOf(c)'
<1>1. CallAt(c, "sent") => \A w \in call[c].waits : Pending(w)' <=> Pending(w)
  BY DEF Pending, InProgress, At
<1>2. LedgerOf(c) => LedgerOf(c)'
  BY <1>1 DEF LedgerOf, CallAt, Returned, At
<1>3. CountOf(c) => CountOf(c)'
  BY DEF CountOf, CallAt, Returned, At
<1>. QED  BY <1>2, <1>3

LEMMA RequestRideAlone ==
  ASSUME CallInv, LoneInv, lost = 0, NEW t \in Tokens, RequestRide(t)
  PROVE  LoneInv'
<1>1. /\ post' = post /\ call' = call /\ processed' = processed
      /\ retryCounts' = retryCounts /\ t \notin open /\ open' = open \cup {t}
      /\ rides \in [Tokens -> Nat] /\ rides' = [rides EXCEPT ![t] = rides[t] + 1]
      /\ lost' = lost /\ rolledBack' = rolledBack
  BY ServerStays DEF RequestRide, CallInv, TypeOK, faults
<1>2. NothingIsOrphaned' /\ OnlyWaits'
  BY <1>1 DEF LoneInv, NothingIsOrphaned, OnlyWaits, CallAt
<1>3. ASSUME NEW c \in Callers, PaysAlone(c)
      PROVE  /\ rolledBack' = 0 => LedgerOf(c)'
             /\ RetryLimit >= 5 /\ Token[c] \in Registered => CountOf(c)'
  <2>1. Paid(Token[c])' = Paid(Token[c]) /\ Token[c] \in Tokens
    BY <1>1, PaymentGatewayAssumption DEF Paid, PaymentsOf, Payload
  <2>2. CountOf(c) => CountOf(c)'
    BY <1>1 DEF CountOf, CallAt, Returned, At
  <2>3. CASE Token[c] # t
    BY <1>1, <1>3, <2>1, <2>3, LoneStays DEF LoneInv
  <2>4. CASE Token[c] = t /\ rolledBack = 0
    <3>1. call[c] = NoCall /\ Paid(t) = rides[t]
      BY <1>1, <1>3, <2>4 DEF LoneInv, LedgerOf
    <3>2. /\ call'[c] = NoCall /\ rides'[t] = rides[t] + 1 /\ rides[t] \in Nat
          /\ t \in open' /\ Paid(t)' = rides[t] /\ call'[c].step = "none"
      BY <1>1, <2>1, <2>4, <3>1 DEF NoCall
    <3>3. LedgerOf(c)'
      BY <2>4, <3>2 DEF LedgerOf, CallAt, Returned
    <3>. QED  BY <1>3, <2>2, <3>3 DEF LoneInv
  <2>. QED  BY <1>1, <1>3, <2>2, <2>3, <2>4 DEF LoneInv
<1>. QED  BY <1>2, <1>3 DEF LoneInv, PaysAlone

\* A step of c's call that neither starts nor ends a request.
LEMMA AloneUnlessC ==
  ASSUME CallInv, LoneInv, lost = 0, rolledBack' = 0 => rolledBack = 0,
         NEW c \in Callers, OnlyCall(c),
         rides' = rides, \A t \in Tokens \ {Token[c]} : t \in open' <=> t \in open,
         processed' = processed, retryCounts' = retryCounts,
         NothingIsOrphaned', call'[c] # NoCall => call'[c].own \subseteq call'[c].waits,
         \A d \in Callers \ {c} : call[d] # NoCall =>
           \A v \in call[d].own : post'[v] = post[v],
         PaysAlone(c) /\ rolledBack' = 0 => LedgerOf(c)',
         PaysAlone(c) /\ RetryLimit >= 5 /\ Token[c] \in Registered => CountOf(c)'
  PROVE  LoneInv'
<1>1. OnlyWaits'
  BY DEF LoneInv, OnlyWaits, OnlyCall
<1>2. ASSUME NEW d \in Callers \ {c}, PaysAlone(d)
      PROVE  /\ rolledBack' = 0 => LedgerOf(d)'
             /\ RetryLimit >= 5 /\ Token[d] \in Registered => CountOf(d)'
  <2>1. Token[d] # Token[c] /\ Token[d] \in Tokens
    BY <1>2, PaymentGatewayAssumption DEF PaysAlone
  <2>2. Paid(Token[d])' = Paid(Token[d])
    BY PaymentGatewayAssumption DEF Paid, PaymentsOf, Payload
  <2>3. CallAt(d, "sent") => call[d] # NoCall /\ call[d].waits \subseteq call[d].own
    BY CallFields DEF CallInv, CallOf, WaitsForOwn, CallAt
  <2>4. call'[d] = call[d]
    BY DEF OnlyCall
  <2>. QED  BY <1>2, <2>1, <2>2, <2>3, <2>4, LoneStays DEF LoneInv
<1>. QED  BY <1>1, <1>2 DEF LoneInv, PaysAlone

LEMMA EvaluateAlone ==
  ASSUME CallInv, LoneInv, lost = 0, NEW c \in Callers, Evaluate(c)
  PROVE  LoneInv'
<1>1. /\ post' = post /\ processed' = processed /\ retryCounts' = retryCounts
      /\ rides' = rides /\ open' = open /\ rolledBack' = rolledBack
      /\ call[c] = NoCall /\ Token[c] \in open /\ OnlyCall(c)
      /\ call'[c].step = "post" /\ call'[c].retry = 0 /\ call'[c].own = {}
      /\ call'[c].rides = rides[Token[c]] /\ call'[c] # NoCall
      /\ Token[c] \in Tokens
  BY ServerStays, PaymentGatewayAssumption
     DEF Evaluate, CallInv, TypeOK, faults, OnlyCall, NoCall
<1>2. NothingIsOrphaned'
  BY <1>1 DEF LoneInv, NothingIsOrphaned, CallAt, OnlyCall, NoCall
<1>3. Paid(Token[c])' = Paid(Token[c])
  BY <1>1, PaymentGatewayAssumption DEF Paid, PaymentsOf, Payload
<1>4. PaysAlone(c) /\ rolledBack' = 0 => LedgerOf(c)'
  BY <1>1, <1>3 DEF LoneInv, LedgerOf, CallAt, Returned
<1>5. CountOf(c)'
  BY <1>1 DEF CallInv, CountsFrom, CountOf, CallAt, Returned
<1>. QED  BY <1>1, <1>2, <1>4, <1>5, AloneUnlessC

LEMMA EvaluationEndsAlone ==
  ASSUME CallInv, LoneInv, lost = 0, NEW c \in Callers, EvaluationEnds(c)
  PROVE  LoneInv'
<1>. DEFINE t == Token[c]
<1>1. /\ post' = post /\ processed' = processed /\ retryCounts' = retryCounts
      /\ rides' = rides /\ call[c].step = "returned" /\ call[c] # NoCall
      /\ call'[c] = NoCall /\ call'[c].step = "none" /\ OnlyCall(c)
      /\ t \in Tokens
  <2>1. /\ UNCHANGED serverVars /\ rides' = rides /\ call[c].step = "returned"
        /\ call \in [Callers -> Call] /\ call' = [call EXCEPT ![c] = NoCall]
        /\ t \in Tokens
    BY PaymentGatewayAssumption DEF EvaluationEnds, CallInv, TypeOK, CallAt
  <2>2. call'[c] = NoCall /\ OnlyCall(c)
    BY <2>1 DEF OnlyCall
  <2>. QED  BY <2>1, <2>2, ServerStays DEF CallInv, NoCall
<1>2. /\ rolledBack' = 0 => /\ rolledBack = 0
                            /\ open' = IF call[c].ok THEN open \ {t} ELSE open
      /\ \A u \in Tokens \ {t} : u \in open' <=> u \in open
  BY DEF EvaluationEnds, CallInv, TypeOK, faults
<1>3. NothingIsOrphaned'
  <2>1. \A w \in Slots, d \in Callers : CallAt(d, "sent") => d # c
    BY <1>1 DEF CallAt
  <2>. QED  BY <1>1, <2>1 DEF LoneInv, NothingIsOrphaned, CallAt, OnlyCall
<1>4. Paid(t)' = Paid(t)
  BY <1>1, PaymentGatewayAssumption DEF Paid, PaymentsOf, Payload
<1>5. PaysAlone(c) /\ rolledBack' = 0 => LedgerOf(c)'
  <2>. SUFFICES ASSUME PaysAlone(c), rolledBack' = 0
                PROVE  LedgerOf(c)'
    OBVIOUS
  <2>1. /\ t \in open
        /\ IF call[c].ok THEN Paid(t) = rides[t] ELSE Paid(t) = rides[t] - 1
    BY <1>1, <1>2 DEF LoneInv, LedgerOf, Returned, CallAt
  <2>2. t \in open' <=> ~call[c].ok
    BY <1>2, <2>1
  <2>. QED  BY <1>1, <1>4, <2>1, <2>2 DEF LedgerOf, CallAt, Returned
<1>6. CountOf(c)'
  BY <1>1 DEF CountOf, CallAt, Returned
<1>. QED  BY <1>1, <1>2, <1>3, <1>5, <1>6, AloneUnlessC

LEMMA PostPaymentAlone ==
  ASSUME CallInv, LoneInv, lost = 0, NEW c \in Callers, PostPayment(c)
  PROVE  LoneInv'
<1>. PICK w \in Slots : Posts(c, w)
  BY PostPaymentPosts
<1>1. /\ \A d \in Callers : call[d] # NoCall => w \notin call[d].own
      /\ call[c] # NoCall /\ call'[c] # NoCall
  BY IdleIsNobodys, CallFields DEF Posts, CallInv, NoCall
<1>2. call[c].waits = {} /\ call[c].own = {}
  BY <1>1 DEF Posts, CallInv, CallOf, WaitsForOwn, CallAt, LoneInv, OnlyWaits
<1>3. call'[c].own \subseteq call'[c].waits
  BY <1>2 DEF Posts
<1>4. NothingIsOrphaned'
  <2>1. ASSUME NEW v \in Slots \ {w}, post'[v].step # "idle"
        PROVE  \E d \in Callers : CallAt(d, "sent")' /\ v \in call'[d].waits
    <3>1. post[v].step # "idle"
      BY <2>1 DEF Posts
    <3>2. PICK d \in Callers : CallAt(d, "sent") /\ v \in call[d].waits
      BY <3>1 DEF LoneInv, NothingIsOrphaned
    <3>. QED  BY <3>2 DEF Posts, OnlyCall, CallAt
  <2>2. CallAt(c, "sent")' /\ w \in call'[c].waits
    BY DEF Posts, CallAt
  <2>. QED  BY <2>1, <2>2 DEF NothingIsOrphaned
<1>5. \A d \in Callers \ {c} : call[d] # NoCall =>
        \A v \in call[d].own : post'[v] = post[v]
  BY <1>1, CallFields DEF Posts, CallInv
<1>6. Paid(Token[c])' = Paid(Token[c])
  BY PaymentGatewayAssumption DEF Posts, Paid, PaymentsOf, Payload
<1>7. ASSUME LedgerOf(c)
      PROVE  LedgerOf(c)'
  <2>1. Token[c] \in open /\ Paid(Token[c]) = rides[Token[c]] - 1
        /\ call[c].rides = rides[Token[c]]
    BY <1>1, <1>7 DEF LedgerOf, Posts, CallAt
  <2>. QED  BY <1>1, <1>6, <2>1 DEF Posts, LedgerOf, CallAt, Returned, At
<1>8. ASSUME CountOf(c)
      PROVE  CountOf(c)'
  BY <1>8 DEF Posts, CountOf, CallAt, Returned, At
<1>. QED  BY <1>1, <1>3, <1>4, <1>5, <1>7, <1>8, AloneUnlessC DEF LoneInv, Posts

LEMMA PostAnsweredAlone ==
  ASSUME CallInv, LoneInv, lost = 0, NEW c \in Callers, PostAnswered(c)
  PROVE  LoneInv'
<1>. PICK w \in Slots :
       /\ call[c].step = "sent" /\ w \in call[c].own /\ call[c].waits = {w}
       /\ Answered(w) /\ UNCHANGED <<rides, open, lost, rolledBack>>
       /\ IF At(w, "ok") THEN Return(c, TRUE) ELSE Asks(c, w)
  BY PostAnsweredCases
<1>1. /\ post[w].step \in Replies /\ post'[w].step = "idle"
      /\ \A v \in Slots \ {w} : post'[v] = post[v]
      /\ UNCHANGED <<processed, retryCounts>>
  BY Answers DEF CallInv
<1>2. call[c] # NoCall /\ call[c].own \subseteq Slots
  BY CallFields DEF CallInv
<1>3. call[c].own = {w}
  BY <1>2 DEF LoneInv, OnlyWaits
<1>4. /\ OnlyCall(c) /\ call'[c].own = {} /\ call'[c].rides = call[c].rides
      /\ call'[c].retry = call[c].retry
      /\ IF At(w, "ok") THEN call'[c].step = "returned" /\ call'[c].ok
         ELSE call'[c].step = "get"
  <2>1. CASE At(w, "ok")
    <3>1. Return(c, TRUE) /\ ~InProgress(w)
      BY <2>1 DEF InProgress, At, Replies
    <3>. QED  BY <1>2, <1>3, <2>1, <3>1, Returns DEF CallInv
  <2>2. CASE ~At(w, "ok")
    BY <1>3, <2>2 DEF Asks
  <2>. QED  BY <2>1, <2>2
<1>5. NothingIsOrphaned'
  <2>. SUFFICES ASSUME NEW v \in Slots, post'[v].step # "idle"
                PROVE  \E d \in Callers : CallAt(d, "sent")' /\ v \in call'[d].waits
    BY DEF NothingIsOrphaned
  <2>1. v # w /\ post[v].step # "idle"
    BY <1>1
  <2>2. PICK d \in Callers : CallAt(d, "sent") /\ v \in call[d].waits
    BY <2>1 DEF LoneInv, NothingIsOrphaned
  <2>. QED  BY <1>4, <2>1, <2>2 DEF OnlyCall, CallAt
<1>6. \A d \in Callers \ {c} : call[d] # NoCall =>
        \A v \in call[d].own : post'[v] = post[v]
  BY <1>1, <1>2, CallFields DEF CallInv, OwnersDiffer
<1>7. Paid(Token[c])' = Paid(Token[c])
  BY <1>1, PaymentGatewayAssumption DEF Paid, PaymentsOf, Payload
<1>8. call'[c] # NoCall
  BY <1>4 DEF NoCall
<1>9. ASSUME LedgerOf(c)
      PROVE  LedgerOf(c)'
  <2>1. /\ Token[c] \in open /\ call[c].rides = rides[Token[c]]
        /\ At(w, "ok") => Paid(Token[c]) = rides[Token[c]]
        /\ \/ Paid(Token[c]) = rides[Token[c]]
           \/ Paid(Token[c]) = rides[Token[c]] - 1
    BY <1>2, <1>9 DEF LedgerOf, CallAt
  <2>. QED  BY <1>4, <1>7, <1>8, <2>1 DEF LedgerOf, CallAt, Returned
<1>10. ASSUME CountOf(c)
       PROVE  CountOf(c)'
  <2>1. \/ At(w, "ok")
        \/ /\ ~At(w, "ok")
           /\ call[c].retry < 5 /\ retryCounts[Token[c]] >= call[c].retry
    BY <1>1, <1>10 DEF CountOf, CallAt, Replies, At
  <2>2. CASE At(w, "ok")
    BY <1>4, <2>2 DEF CountOf, CallAt, Returned
  <2>3. CASE ~At(w, "ok")
    BY <1>1, <1>4, <2>1, <2>3 DEF CountOf, CallAt, Returned
  <2>. QED  BY <2>2, <2>3
<1>. QED  BY <1>1, <1>4, <1>5, <1>6, <1>9, <1>10, AloneUnlessC DEF LoneInv

LEMMA GetPaymentsAlone ==
  ASSUME CallInv, LoneInv, lost = 0, NEW c \in Callers, GetPayments(c)
  PROVE  LoneInv'
<1>. DEFINE t == Token[c]
<1>1. /\ call[c].step = "get" /\ call[c] # NoCall
      /\ post' = post /\ UNCHANGED <<processed, retryCounts>>
      /\ UNCHANGED <<rides, open, rolledBack>>
  BY ServerStays, CallFields DEF GetPayments, CallAt, faults, CallInv
<1>2. call[c].waits = {} /\ call[c].own = {}
  BY <1>1 DEF CallInv, CallOf, WaitsForOwn, CallAt, LoneInv, OnlyWaits
<1>3. \/ /\ Return(c, TRUE) /\ Paid(t) = call[c].rides
      \/ /\ Paid(t) # call[c].rides
         /\ \/ Repeats(c)
            \/ Return(c, FALSE) /\ ~(call[c].retry < RetryLimit)
  BY <1>1, Fails DEF GetPayments, CallInv
<1>4. /\ OnlyCall(c) /\ call'[c].own = {} /\ call'[c].rides = call[c].rides
      /\ \/ /\ call'[c].step = "returned" /\ call'[c].ok = TRUE
            /\ Paid(t) = call[c].rides
         \/ /\ Paid(t) # call[c].rides
            /\ \/ call'[c].step = "post" /\ call'[c].retry = call[c].retry + 1
               \/ /\ call'[c].step = "returned" /\ call'[c].ok = FALSE
                  /\ ~(call[c].retry < RetryLimit)
  BY <1>1, <1>2, <1>3, Returns DEF CallInv, Repeats
<1>5. NothingIsOrphaned'
  <2>. SUFFICES ASSUME NEW v \in Slots, post'[v].step # "idle"
                PROVE  \E d \in Callers : CallAt(d, "sent")' /\ v \in call'[d].waits
    BY DEF NothingIsOrphaned
  <2>1. PICK d \in Callers : CallAt(d, "sent") /\ v \in call[d].waits
    BY <1>1 DEF LoneInv, NothingIsOrphaned
  <2>. QED  BY <1>1, <1>4, <2>1 DEF OnlyCall, CallAt
<1>6. Paid(t)' = Paid(t)
  BY <1>1, PaymentGatewayAssumption DEF Paid, PaymentsOf, Payload
<1>7. call'[c] # NoCall
  BY <1>4 DEF NoCall
<1>8. ASSUME LedgerOf(c)
      PROVE  LedgerOf(c)'
  <2>1. /\ t \in open /\ call[c].rides = rides[t]
        /\ Paid(t) = rides[t] \/ Paid(t) = rides[t] - 1
    BY <1>1, <1>8 DEF LedgerOf, CallAt
  <2>. QED  BY <1>1, <1>4, <1>6, <1>7, <2>1 DEF LedgerOf, CallAt, Returned
<1>9. ASSUME RetryLimit >= 5, CountOf(c)
      PROVE  CountOf(c)'
  <2>1. call[c].retry < 5 /\ retryCounts[t] >= call[c].retry
        /\ call[c].retry \in Nat /\ retryCounts[t] \in Int /\ RetryLimit \in Nat
    BY <1>1, <1>9, CallFields, PaymentGatewayAssumption
       DEF CountOf, CallAt, CallInv, ServerInv, ServerTypeOK
  <2>2. call[c].retry < RetryLimit
    BY <1>9, <2>1
  <2>. QED  BY <1>1, <1>4, <2>1, <2>2 DEF CountOf, CallAt, Returned
<1>. QED  BY <1>1, <1>4, <1>5, <1>8, <1>9, AloneUnlessC DEF LoneInv

\* The service works for the call that waits for w.
LEMMA ServerStepAlone ==
  ASSUME CallInv, LoneInv, lost = 0, NEW w \in Slots, ServerStep(w)
  PROVE  LoneInv'
<1>1. /\ post[w].step # "idle" /\ StaysKeyless(w) /\ KeylessStep(w)
      /\ UNCHANGED <<rides, open, lost, rolledBack>>
  BY ServerStepCharges
<1>2. \A c \in Callers :
        /\ call'[c].step = call[c].step
        /\ call[c] # NoCall => /\ call'[c].own = call[c].own
                               /\ call'[c].waits = call[c].waits
                               /\ call'[c].ok = call[c].ok
                               /\ call'[c].retry = call[c].retry
                               /\ call'[c].rides = call[c].rides
        /\ call'[c] = NoCall <=> call[c] = NoCall
  <2>1. \A c \in Callers :
          /\ call[c] = NoCall <=> call[c].step = "none"
          /\ call'[c] = NoCall <=> call'[c].step = "none"
    BY CallFields, ServerStepCharges DEF CallInv, Call, NoCall
  <2>. QED  BY <2>1, ServerStepCharges
<1>3. PICK d \in Callers : CallAt(d, "sent") /\ w \in call[d].waits
  BY <1>1 DEF LoneInv, NothingIsOrphaned
<1>4. /\ call[d] # NoCall /\ call[d].waits = {w} /\ w \in call[d].own
      /\ call[d].step = "sent" /\ post[w].token = Token[d]
  <2>1. call[d] # NoCall /\ call[d].step = "sent"
    BY <1>3, CallFields DEF CallInv, CallAt
  <2>. QED  BY <1>3, <2>1 DEF CallInv, CallOf, WaitsForOwn, OwnIsSent, CallAt
<1>5. OnlyWaits'
  BY <1>2 DEF LoneInv, OnlyWaits
<1>6. NothingIsOrphaned'
  <2>. SUFFICES ASSUME NEW v \in Slots, post'[v].step # "idle"
                PROVE  \E c \in Callers : CallAt(c, "sent")' /\ v \in call'[c].waits
    BY DEF NothingIsOrphaned
  <2>1. post[v].step # "idle"
    BY <1>1 DEF StaysKeyless
  <2>2. PICK c \in Callers : CallAt(c, "sent") /\ v \in call[c].waits
    BY <2>1 DEF LoneInv, NothingIsOrphaned
  <2>3. call[c] # NoCall
    BY <2>2, CallFields DEF CallInv, CallAt
  <2>. QED  BY <1>2, <2>2, <2>3 DEF CallAt
<1>7. ServerTypeOK
  BY DEF CallInv, TypeOK
\* Another call has another token.
<1>8. ASSUME NEW c \in Callers \ {d}, PaysAlone(c)
      PROVE  /\ rolledBack' = 0 => LedgerOf(c)'
             /\ RetryLimit >= 5 /\ Token[c] \in Registered => CountOf(c)'
  <2>1. Token[c] # Token[d] /\ Token[c] \in Tokens
    BY <1>8, PaymentGatewayAssumption DEF PaysAlone
  <2>2. Paid(Token[c])' = Paid(Token[c])
    <3>1. CASE processed' = processed
      BY <3>1, PaymentGatewayAssumption DEF Paid, PaymentsOf, Payload
    <3>2. CASE \E row \in Row : /\ row.token = post[w].token
                                /\ processed' = Append(processed, row)
      BY <1>4, <1>7, <2>1, <3>2, PaidOnce
    <3>. QED  BY <1>1, <3>1, <3>2 DEF KeylessStep
  <2>3. retryCounts'[Token[c]] = retryCounts[Token[c]]
    BY <1>1, <1>4, <2>1 DEF StaysKeyless
  <2>4. ASSUME CallAt(c, "sent"), NEW v \in call[c].waits
        PROVE  post'[v] = post[v]
    <3>1. call[c] # NoCall /\ call[c].waits \subseteq call[c].own
          /\ call[c].own \subseteq Slots
      BY <2>4, CallFields DEF CallInv, CallOf, WaitsForOwn, CallAt
    <3>2. v # w
      BY <1>4, <1>8, <2>4, <3>1 DEF CallInv, OwnersDiffer
    <3>. QED  BY <1>1, <2>4, <3>1, <3>2 DEF StaysKeyless
  <2>5. call'[c] = call[c]
    <3>1. ~Charges(w, c)
      BY <1>4, <1>8, CallFields DEF Charges, InLoop, CallInv, OwnersDiffer
    <3>. QED  BY <3>1, ServerStepCharges
  <2>. QED  BY <1>1, <1>8, <2>2, <2>3, <2>4, <2>5, LoneStays DEF LoneInv
\* Its own token.
<1>9. ASSUME PaysAlone(d)
      PROVE  /\ rolledBack' = 0 => LedgerOf(d)'
             /\ RetryLimit >= 5 /\ Token[d] \in Registered => CountOf(d)'
  <2>. DEFINE t == Token[d]
  <2>1. /\ t \in Tokens /\ Paid(t) \in Nat /\ rides[t] \in Nat
        /\ retryCounts[t] \in Int /\ call[d].retry \in Nat
        /\ post[w].count \in Int
    BY <1>1, <1>4, <1>7, PaymentGatewayAssumption, PaidIsNat, CallFields, PostFields
       DEF CallInv, TypeOK, ServerTypeOK
  <2>2. /\ call'[d].step = "sent" /\ call'[d].waits = {w} /\ call'[d] # NoCall
        /\ call'[d].rides = call[d].rides /\ call'[d].retry = call[d].retry
    BY <1>2, <1>4
  <2>3. ASSUME LedgerOf(d)
        PROVE  LedgerOf(d)'
    <3>1. /\ t \in open /\ call[d].rides = rides[t]
          /\ Pending(w) => Paid(t) = rides[t] - 1
          /\ At(w, "reply") \/ At(w, "ok") => Paid(t) = rides[t]
          /\ Paid(t) = rides[t] - 1 \/ Paid(t) = rides[t]
      BY <1>4, <2>3 DEF LedgerOf, CallAt
    <3>2. CASE Turns(w, "process", "reply")
      <4>1. PICK row \in Row : /\ row.token = t
                               /\ processed' = Append(processed, row)
        BY <1>1, <1>4, <3>2 DEF KeylessStep, Turns
      <4>2. Paid(t)' = Paid(t) + 1
        BY <1>7, <4>1, PaidOnce
      <4>3. Pending(w) /\ ~Pending(w)' /\ At(w, "reply")'
        BY <3>2 DEF Turns, Pending, InProgress, At, Replies
      <4>4. Paid(t)' = rides[t]
        BY <2>1, <3>1, <4>2, <4>3
      <4>. QED  BY <1>1, <2>2, <3>1, <4>3, <4>4 DEF LedgerOf, CallAt, Returned
    <3>3. CASE ~Turns(w, "process", "reply")
      <4>1. processed' = processed
        BY <1>1, <3>3 DEF KeylessStep
      <4>2. Paid(t)' = Paid(t)
        BY <4>1, PaymentGatewayAssumption DEF Paid, PaymentsOf, Payload
      <4>3. /\ Pending(w)' => Pending(w)
            /\ At(w, "reply")' \/ At(w, "ok")' => At(w, "reply")
        BY <1>1, <3>3 DEF KeylessStep, Turns, Pending, InProgress, At, Replies, Verdict
      <4>. QED  BY <1>1, <2>2, <3>1, <4>2, <4>3 DEF LedgerOf, CallAt, Returned
    <3>. QED  BY <3>2, <3>3
  <2>4. ASSUME CountOf(d), t \in Registered
        PROVE  CountOf(d)'
    <3>. DEFINE count == retryCounts[t]
                retry == call[d].retry
    <3>1. /\ post[w].step \in {"parse", "count"} => count >= retry - 1
          /\ At(w, "draw") => count >= retry - 1 /\ post[w].count >= retry - 1
          /\ post[w].step \in {"lock", "process", "reply"} =>
               count >= retry /\ post[w].count >= retry - 1
      BY <1>4, <2>4 DEF CountOf, CallAt
    <3>2. post[w].token = t
      BY <1>4
    <3>3. /\ post'[w].step \in {"parse", "count"} => retryCounts'[t] >= retry - 1
          /\ At(w, "draw")' => retryCounts'[t] >= retry - 1
                               /\ post'[w].count >= retry - 1
          /\ post'[w].step \in {"lock", "process", "reply"} =>
               retryCounts'[t] >= retry /\ post'[w].count >= retry - 1
          /\ At(w, "error")' => retryCounts'[t] >= retry /\ retry < 5
          /\ post'[w].step \in {"parse", "count", "draw", "lock", "process",
                                "reply", "error", "ok"}
      BY <1>1, <2>1, <2>4, <3>1, <3>2 DEF KeylessStep, Turns, Counts, At, Verdict
    <3>. QED  BY <2>2, <3>3 DEF CountOf, CallAt, Returned
  <2>. QED  BY <1>1, <1>9, <2>3, <2>4 DEF LoneInv
<1>. QED  BY <1>5, <1>6, <1>8, <1>9 DEF LoneInv, PaysAlone

LEMMA LoneInit == Init => LoneInv
<1>. SUFFICES ASSUME Init
              PROVE  LoneInv
  OBVIOUS
<1>1. /\ \A c \in Callers : call[c] = NoCall /\ call[c].step = "none"
      /\ \A w \in Slots : post[w].step = "idle"
      /\ rides = [t \in Tokens |-> 0] /\ open = {} /\ processed = <<>>
  BY DEF Init, ServerInit, Idle, NoCall
<1>2. \A t : Paid(t) = 0
  <2>1. \A t : PaymentsOf(t) = {}
    BY <1>1, PaymentGatewayAssumption DEF PaymentsOf, Payload
  <2>. QED  BY <2>1, FS_EmptySet DEF Paid
<1>3. \A c \in Callers : LedgerOf(c) /\ CountOf(c)
  BY <1>1, <1>2, PaymentGatewayAssumption DEF LedgerOf, CountOf, CallAt, Returned
<1>. QED  BY <1>1, <1>3 DEF LoneInv, NothingIsOrphaned, OnlyWaits

LEMMA LoneStep == CallInv /\ LoneInv /\ [Next]_vars => LoneInv'
<1>. SUFFICES ASSUME CallInv, LoneInv, [Next]_vars, lost' = 0
              PROVE  LoneInv'
  BY DEF LoneInv
<1>1. CASE UNCHANGED vars
  <2>1. /\ post' = post /\ processed' = processed /\ retryCounts' = retryCounts
        /\ UNCHANGED <<rides, open, call, lost, rolledBack>>
    BY <1>1 DEF vars, faults
  <2>2. \A t : Paid(t)' = Paid(t)
    BY <2>1, PaymentGatewayAssumption DEF Paid, PaymentsOf, Payload
  <2>3. \A c \in Callers : /\ LedgerOf(c) => LedgerOf(c)'
                           /\ CountOf(c) => CountOf(c)'
    BY <2>1, <2>2, LoneStays
  <2>. QED
    BY <2>1, <2>3 DEF LoneInv, NothingIsOrphaned, OnlyWaits, CallAt, PaysAlone
<1>2. ASSUME NEW t \in Tokens, RequestRide(t)
      PROVE  LoneInv'
  BY <1>2, RequestRideAlone DEF RequestRide, faults
<1>3. ASSUME NEW c \in Callers, Evaluate(c)
      PROVE  LoneInv'
  BY <1>3, EvaluateAlone DEF Evaluate, faults
<1>4. ASSUME NEW c \in Callers, EvaluationEnds(c)
      PROVE  LoneInv'
  BY <1>4, EvaluationEndsAlone DEF EvaluationEnds, faults
<1>5. ASSUME NEW c \in Callers, PostPayment(c)
      PROVE  LoneInv'
  BY <1>5, PostPaymentAlone DEF PostPayment, faults
<1>6. ASSUME NEW c \in Callers, PostAnswered(c)
      PROVE  LoneInv'
  BY <1>6, PostAnsweredAlone DEF PostAnswered, faults
<1>7. ASSUME NEW c \in Callers, GetPayments(c)
      PROVE  LoneInv'
  BY <1>7, GetPaymentsAlone DEF GetPayments, faults
\* A message is lost, ...
<1>8. ASSUME NEW c \in Callers, TransportFails(c)
      PROVE  FALSE
  BY <1>8 DEF TransportFails, CallInv, TypeOK
<1>9. ASSUME NEW w \in Slots, ServerStep(w)
      PROVE  LoneInv'
  BY <1>9, ServerStepAlone DEF ServerStep, faults
\* ... or has been.
<1>10. ASSUME NEW w \in Slots, OrphanEnds(w)
       PROVE  FALSE
  <2>1. post[w].step # "idle" /\ lost = 0
    BY <1>10, Answers DEF OrphanEnds, CallInv, faults, Replies
  <2>2. PICK c \in Callers : CallAt(c, "sent") /\ w \in call[c].waits
    BY <2>1 DEF LoneInv, NothingIsOrphaned
  <2>3. call[c] # NoCall
    BY <2>2, CallFields DEF CallInv, CallAt
  <2>. QED  BY <1>10, <2>2, <2>3 DEF OrphanEnds, Orphaned
<1>. QED
  BY <1>1, <1>2, <1>3, <1>4, <1>5, <1>6, <1>7, <1>8, <1>9, <1>10
     DEF Next, Settled, LoopStep

LEMMA GatewayInvariant == Spec => []GatewayInv
<1>1. Init => GatewayInv
  BY CallInit, LoneInit DEF GatewayInv
<1>2. GatewayInv /\ [Next]_vars => GatewayInv'
  BY CallStep, LoneStep DEF GatewayInv
<1>. QED  BY <1>1, <1>2, PTL DEF Spec

-----------------------------------------------------------------------------
(* The theorems.                                                           *)

\* The variables of the loop and of the service keep their types.
THEOREM GatewayTypesCorrect == Spec => []TypeOK
<1>1. GatewayInv => TypeOK
  BY DEF GatewayInv, CallInv
<1>. QED  BY <1>1, GatewayInvariant, PTL

\* requestPaymentGatewayPostPayment keeps the contract Dispatch relies on,
\* however many evaluations pay at once, with the same or different tokens, and
\* whatever is lost or rolled back: at most RetryLimit + 1 payments are or may
\* still be recorded, and nil is returned only for a payment or an equal count.
THEOREM ContractKept == Spec => []WithinContract
<1>1. GatewayInv => WithinContract
  <2>. SUFFICES ASSUME CallInv, NEW c \in Callers, Returned(c)
                PROVE  Outcome(c) \in ChargeOutcomes(RetryLimit + 1, call[c].others,
                                                     call[c].rides)
    BY DEF GatewayInv, WithinContract
  <2>1. call[c] # NoCall /\ call[c].step = "returned"
    BY CallFields DEF CallInv, Returned, CallAt
  <2>2. /\ call[c].charged \in Nat /\ call[c].ok \in BOOLEAN
        /\ call[c].retry \in 0 .. RetryLimit /\ RetryLimit \in Nat
        /\ IsFiniteSet(call[c].own)
    BY <2>1, CallFields, PaymentGatewayAssumption DEF CallInv, CallOf, OwnIsSent
  <2>3. PICK n \in Nat : n = Cardinality(PendingOf(c))
    BY <2>2, PendingIsFinite
  <2>4. call[c].charged + n <= RetryLimit + 1
    BY <2>1, <2>2, <2>3 DEF CallInv, CallOf, AttemptsAreCounted, Attempts, CallAt
  <2>5. call[c].ok => call[c].charged > 0 \/ call[c].others = call[c].rides
    BY <2>1 DEF CallInv, CallOf, OkIsPaid
  <2>6. Outcome(c) = [charged |-> call[c].charged, late |-> n, ok |-> call[c].ok]
    BY <2>3 DEF Outcome, PendingOf, Pending
  <2>. QED  BY <2>2, <2>4, <2>5, <2>6 DEF ChargeOutcomes
<1>. QED  BY <1>1, GatewayInvariant, PTL

\* While nothing is lost or rolled back, the comparison of the number of payments
\* with the number of rides makes the retries safe without an idempotency key: a
\* user who pays alone is charged exactly once for each ride.
THEOREM ChargedExactlyOnce == Spec => []PaidExactlyOnce
<1>1. GatewayInv => PaidExactlyOnce
  <2>. SUFFICES ASSUME CallInv, LoneInv, lost = 0, rolledBack = 0,
                       NEW c \in Callers, PaysAlone(c), Returned(c), call[c].ok
                PROVE  Paid(Token[c]) = call[c].rides
    BY DEF GatewayInv, PaidExactlyOnce
  <2>1. LedgerOf(c) /\ call[c] # NoCall
    BY CallFields DEF LoneInv, CallInv, Returned, CallAt
  <2>. QED  BY <2>1 DEF LedgerOf
<1>. QED  BY <1>1, GatewayInvariant, PTL

\* Six attempts are enough: with the limit of five retries or more, a user whose
\* token the service knows, and who pays alone, never has an evaluation refused
\* while the service can be reached.
THEOREM NeverRefused ==
  ASSUME RetryLimit >= 5
  PROVE  Spec => []NeverGivesUp
<1>1. GatewayInv => NeverGivesUp
  <2>. SUFFICES ASSUME LoneInv, lost = 0, NEW c \in Callers, PaysAlone(c),
                       Returned(c), Token[c] \in Registered
                PROVE  call[c].ok
    BY DEF GatewayInv, NeverGivesUp
  <2>1. CountOf(c)
    BY DEF LoneInv
  <2>. QED  BY <2>1 DEF CountOf
<1>. QED  BY <1>1, GatewayInvariant, PTL
=============================================================================
