--------------------------- MODULE PaymentServer ---------------------------
(***************************************************************************)
(* The unstable payment service the benchmarker runs (bench/payment):      *)
(* POST and GET /payments.  Every request is handled in a goroutine of its *)
(* own, here a slot; the maps and the slice they share lock each access    *)
(* but not a sequence of accesses, so each access is a step.               *)
(*                                                                         *)
(* The failure rate depends on the load and is never below 1 in 100, so a  *)
(* draw may always fail unless the retry count forces it through.          *)
(***************************************************************************)
EXTENDS Integers, Sequences, FiniteSets

CONSTANTS
  Slots,          \* requests handled at the same time
  Keys, NoKey,    \* values of the Idempotency-Key header, and its absence
  Tokens, NoToken, \* bearer tokens; the empty string, which may be one of them
  Registered,     \* the tokens the verifier knows
  Amounts,        \* any integers: nothing rejects 0 or less
  MaxProcessed, MaxCount,   \* bounds of the instance
  Requests        \* what clients send, a subset of RequestKinds

\* "malformed": a request without a bearer token or with a body that is no JSON.
RequestKinds == {"malformed"}

ASSUME PaymentServerAssumption ==
  /\ NoKey \notin Keys
  /\ Registered \subseteq Tokens
  /\ Amounts \subseteq Int
  /\ {MaxProcessed, MaxCount} \subseteq Nat
  /\ Requests \subseteq RequestKinds

VARIABLES
  knownKeys,    \* the Payment registered under each key
  processed,    \* processedPayments (new: history, the first with its key)
  retryCounts,  \* per token, -1 until its first request
  post          \* the POST each slot handles

serverVars == <<knownKeys, processed, retryCounts, post>>

\* locked: CompareAndSwap'ed while a request is being processed; status: what
\* writeResponse makes of Status, 204 for that of a new payment too.
Payment == [known : BOOLEAN, token : Tokens \cup {NoToken}, amount : Int,
            locked : BOOLEAN, status : {"ok", "refused"}]

NewPayment == [known |-> TRUE, token |-> NoToken, amount |-> 0, locked |-> FALSE,
               status |-> "ok"]

\* 204, 400, 409, 422 and the random 500, 502 or 504.
Replies == {"ok", "refused", "conflict", "mismatch", "error"}

Steps == {"parse", "token", "amount", "count", "draw", "lock", "process", "reply"} \cup Replies

Idle == [step |-> "idle"]

Post == {Idle} \cup [step : Steps, key : Keys \cup {NoKey}, token : Tokens,
                     amount : Amounts, new : BOOLEAN, count : Int]

At(w, step) == post[w].step = step

Go(w, step) == post' = [post EXCEPT ![w].step = step]

InProgress(w) == post[w].step \notin {"idle"} \cup Replies

\* Mutant: the amount is not compared.
IsSameToken(w) == knownKeys[post[w].key].token = post[w].token

\* The request carries the payload registered under its key.
IsSamePayload(w) == /\ knownKeys[post[w].key].token = post[w].token
                    /\ knownKeys[post[w].key].amount = post[w].amount

\* PaymentDB.Verify and writeResponse; the check of the amount there
\* (<= 0 and > 1_000_000) holds for no amount.
Verdict(token) == IF token \in Registered THEN "ok" ELSE "refused"

\* A processed payment with a key is the one registered under it, a pointer:
\* what is written there later shows in the record.
Payload(i) == IF processed[i].key \in Keys THEN knownKeys[processed[i].key]
              ELSE processed[i]

\* GetPaymentsHandler: refused payments are listed too.
PaymentsOf(token) == {i \in DOMAIN processed : Payload(i).token = token}

-----------------------------------------------------------------------------
(* PostPaymentsHandler.                                                    *)

\* The key is looked up, and registered if it is new, before anything else.
Receive(w, key, token, amount) ==
  LET new == key = NoKey \/ ~knownKeys[key].known
      busy == ~new /\ knownKeys[key].locked
  IN  /\ post[w] = Idle
      /\ post' = [post EXCEPT
                    ![w] = [step |-> IF busy THEN "conflict" ELSE "parse",
                            key |-> key, token |-> token, amount |-> amount,
                            new |-> new, count |-> 0]]
      /\ knownKeys' = IF key # NoKey /\ new
                      THEN [knownKeys EXCEPT ![key] = NewPayment]
                      ELSE knownKeys
      /\ UNCHANGED <<processed, retryCounts>>

Malformed(w) ==
  /\ "malformed" \in Requests
  /\ At(w, "parse")
  /\ Go(w, "refused")
  /\ UNCHANGED <<knownKeys, processed, retryCounts>>

\* A new payment takes the payload; a known one must match it.  The two writes
\* have no lock and no order: a comparison may see one of them.
Parse(w) ==
  LET key == post[w].key
  IN  /\ At(w, "parse")
      /\ \/ /\ ~post[w].new
            /\ Go(w, IF IsSamePayload(w) THEN "count" ELSE "mismatch")
            /\ UNCHANGED knownKeys
         \/ /\ post[w].new /\ key = NoKey
            /\ Go(w, "count")
            /\ UNCHANGED knownKeys
         \/ /\ post[w].new /\ key # NoKey
            /\ \/ /\ knownKeys' = [knownKeys EXCEPT ![key].token = post[w].token]
                  /\ Go(w, "amount")
               \/ /\ knownKeys' = [knownKeys EXCEPT ![key].amount = post[w].amount]
                  /\ Go(w, "token")
      /\ UNCHANGED <<processed, retryCounts>>

\* The second write.
FinishParse(w) ==
  LET key == post[w].key
  IN  /\ \/ /\ At(w, "amount")
            /\ knownKeys' = [knownKeys EXCEPT ![key].amount = post[w].amount]
         \/ /\ At(w, "token")
            /\ knownKeys' = [knownKeys EXCEPT ![key].token = post[w].token]
      /\ Go(w, "count")
      /\ UNCHANGED <<processed, retryCounts>>

\* retryCounts is read, and written in the next step.
ReadCount(w) ==
  /\ At(w, "count")
  /\ post' = [post EXCEPT ![w].step = "draw",
                          ![w].count = retryCounts[post[w].token]]
  /\ UNCHANGED <<knownKeys, processed, retryCounts>>

\* Mutant: one more failure is possible before a request is forced through.
MayFailOnceMore(w) == post[w].count < 5

\* A draw fails at random, but not from the fifth counted request on.
MayFail(w) == post[w].count < 4

Draw(w) ==
  /\ At(w, "draw")
  /\ retryCounts' = [retryCounts EXCEPT ![post[w].token] = post[w].count + 1]
  /\ \/ Go(w, "lock")
     \/ MayFail(w) /\ Go(w, "error")
  /\ UNCHANGED <<knownKeys, processed>>

\* Mutant: the lock is taken without looking at it.
LockBlindly(w) ==
  LET key == post[w].key
  IN  /\ At(w, "lock")
      /\ knownKeys' = IF key = NoKey THEN knownKeys
                      ELSE [knownKeys EXCEPT ![key].locked = TRUE]
      /\ Go(w, "process")
      /\ UNCHANGED <<processed, retryCounts>>

\* Nobody else holds a payment without a key.
Lock(w) ==
  LET key == post[w].key
  IN  /\ At(w, "lock")
      /\ IF key = NoKey
         THEN Go(w, "process") /\ UNCHANGED knownKeys
         ELSE IF knownKeys[key].locked
         THEN Go(w, "error") /\ UNCHANGED knownKeys
         ELSE /\ Go(w, "process")
              /\ knownKeys' = [knownKeys EXCEPT ![key].locked = TRUE]
      /\ UNCHANGED <<processed, retryCounts>>

\* Mutant: the search is made for new keys instead.
AlreadyProcessedNew(w) ==
  post[w].new /\ \E i \in DOMAIN processed : processed[i].key = post[w].key

\* The search for an earlier payment, made for keys that were known.
AlreadyProcessed(w) ==
  ~post[w].new /\ \E i \in DOMAIN processed : processed[i].key = post[w].key

\* The payment is recorded and verified, with the token it has by then.
Process(w) ==
  LET key == post[w].key
  IN  /\ At(w, "process")
      /\ IF AlreadyProcessed(w) THEN UNCHANGED <<processed, knownKeys>>
         ELSE /\ processed' = Append(processed, [key |-> key,
                                                token |-> post[w].token,
                                                amount |-> post[w].amount,
                                                new |-> post[w].new])
              /\ knownKeys' = IF key = NoKey THEN knownKeys
                              ELSE [knownKeys EXCEPT
                                      ![key].status = Verdict(knownKeys[key].token)]
      /\ Go(w, "reply")
      /\ UNCHANGED retryCounts

\* The answer, the status of the payment, and the deferred release of the lock.
Reply(w) ==
  LET key == post[w].key
      token == post[w].token
  IN  /\ At(w, "reply")
      /\ \/ /\ Go(w, IF key = NoKey THEN Verdict(token) ELSE knownKeys[key].status)
            /\ retryCounts' = [retryCounts EXCEPT ![token] = 0]
         \/ /\ MayFail(w) /\ Go(w, "error")
            /\ UNCHANGED retryCounts
      /\ knownKeys' = IF key = NoKey THEN knownKeys
                      ELSE [knownKeys EXCEPT ![key].locked = FALSE]
      /\ UNCHANGED processed

\* The answer reaches the client, or nobody.
Answered(w) ==
  /\ post[w].step \in Replies
  /\ post' = [post EXCEPT ![w] = Idle]
  /\ UNCHANGED <<knownKeys, processed, retryCounts>>

Handle(w) ==
  \/ Malformed(w) \/ Parse(w) \/ FinishParse(w) \/ ReadCount(w) \/ Draw(w)
  \/ Lock(w) \/ Process(w) \/ Reply(w)

-----------------------------------------------------------------------------
ServerInit ==
  /\ knownKeys = [k \in Keys |-> [NewPayment EXCEPT !.known = FALSE]]
  /\ processed = <<>>
  /\ retryCounts = [t \in Tokens |-> -1]
  /\ post = [w \in Slots |-> Idle]

\* The bounds of the instance: room for every payment in progress, and for the
\* counts, which handlers that overwrite one another's can raise for ever.
WithinBounds ==
  /\ Len(processed) + Cardinality({w \in Slots : InProgress(w)}) < MaxProcessed
  /\ \A t \in Tokens : retryCounts[t] <= MaxCount
  /\ \A w \in Slots : InProgress(w) => post[w].count <= MaxCount

\* Any client of the service.
Send(w) ==
  /\ WithinBounds
  /\ \E key \in Keys \cup {NoKey}, token \in Tokens, amount \in Amounts :
       Receive(w, key, token, amount)

ServerNext == \E w \in Slots : Send(w) \/ Handle(w) \/ Answered(w)

ServerSpec == ServerInit /\ [][ServerNext]_serverVars

-----------------------------------------------------------------------------
(* Properties.                                                             *)

ServerTypeOK ==
  /\ knownKeys \in [Keys -> Payment]
  /\ processed \in Seq([key : Keys \cup {NoKey}, token : Tokens,
                        amount : Amounts, new : BOOLEAN])
  /\ retryCounts \in [Tokens -> Int]
  /\ post \in [Slots -> Post]

\* handler.go: the lock is TRUE only while a request with the key is being
\* processed; it is never held by two, nor left behind by an answer.
LockMeansProcessing ==
  \A k \in Keys :
    LET holders == {w \in Slots : /\ post[w].step \in {"process", "reply"}
                                  /\ post[w].key = k}
    IN  Cardinality(holders) = IF knownKeys[k].locked THEN 1 ELSE 0

\* What w sent agrees with the payment of row i: in both fields for the request
\* that registered the key.  A repetition may send a field that is empty, which
\* equals one that is not written yet (handler.go:60 and 65) and so proves
\* nothing about it; a field that is not empty has been compared.
Agrees(w, i) ==
  /\ \/ Payload(i).token = post[w].token
     \/ ~post[w].new /\ post[w].token = NoToken
  /\ \/ Payload(i).amount = post[w].amount
     \/ ~post[w].new /\ post[w].amount = 0

\* A client that is answered 204 has paid: a payment with its key is on record
\* and agrees with what it sent, as far as that was compared, although others may
\* send the key at the same time and compare the payload while it is written.
OkMeansPaid ==
  \A w \in Slots : At(w, "ok") =>
    \E i \in DOMAIN processed : processed[i].key = post[w].key /\ Agrees(w, i)

\* A request that repeats a key adds no payment to the one on record: a key is
\* paid twice only when a repetition overtakes the request that registered it,
\* which does not look, so never by two repetitions.
RepetitionsPayOnce ==
  \A i, j \in DOMAIN processed :
    i < j /\ processed[i].key # NoKey /\ processed[i].key = processed[j].key
      => ~processed[i].new /\ processed[j].new

\* docs/ISURIDE.md:193: requests with one key are processed idempotently, however
\* often they are sent.
KeyPaysOnce ==
  \A i, j \in DOMAIN processed :
    processed[i].key # NoKey /\ processed[i].key = processed[j].key => i = j
=============================================================================
