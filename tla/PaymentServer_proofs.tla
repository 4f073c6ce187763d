------------------------ MODULE PaymentServer_proofs ------------------------
(***************************************************************************)
(* What the lock and the keys of the payment service guarantee, for any    *)
(* number of requests and any keys, tokens and amounts, the empty token    *)
(* and the amount 0 included.                                              *)
(*                                                                         *)
(* The argument follows a key: it is known before anything happens under   *)
(* it, one request at most registers it and only that request writes its   *)
(* payload, once.  Whatever got past the comparison has compared each      *)
(* field either with what was written or with the empty value, which only  *)
(* a repetition that leaves the field empty equals.                        *)
(***************************************************************************)
EXTENDS PaymentServer, FiniteSetTheorems, SequenceTheorems, TLAPS

\* w handles a request with the key, ...
Carries(w, k) == post[w].step # "idle" /\ post[w].key = k

\* ... has compared or registered its payload, ...
Past(w, k) ==
  /\ post[w].step \in {"count", "draw", "lock", "process", "reply", "ok"}
  /\ post[w].key = k

\* ... holds its lock, ...
Holds(w, k) == post[w].step \in {"process", "reply"} /\ post[w].key = k

\* ... and is the one that registered it.
Registers(w, k) == Carries(w, k) /\ post[w].new

\* It has not written this field of its payload.
Lacks(w, field) == post[w].step \in {"parse", field}

\* What w sent is the payload of the key, but for what a repetition left empty.
Matches(w, k) ==
  /\ \/ knownKeys[k].token = post[w].token
     \/ ~post[w].new /\ post[w].token = NoToken
  /\ \/ knownKeys[k].amount = post[w].amount
     \/ ~post[w].new /\ post[w].amount = 0

\* A payment with w's key is on record; without a key it is w's own.
Recorded(w) ==
  \E i \in DOMAIN processed :
    /\ processed[i].key = post[w].key
    /\ post[w].key = NoKey => /\ processed[i].token = post[w].token
                              /\ processed[i].amount = post[w].amount

-----------------------------------------------------------------------------
(* The invariant.                                                          *)

KeylessAreNew ==
  \A w \in Slots : Carries(w, NoKey) => post[w].new

KeysAreKnown ==
  \A k \in Keys : ~knownKeys[k].known =>
    /\ ~knownKeys[k].locked
    /\ \A w \in Slots : ~Carries(w, k)
    /\ \A i \in DOMAIN processed : processed[i].key # k

LockIsHeld ==
  \A k \in Keys :
    /\ knownKeys[k].locked <=> \E w \in Slots : Holds(w, k)
    /\ \A v, w \in Slots : Holds(v, k) /\ Holds(w, k) => v = w

OneRegistrant ==
  \A k \in Keys, v, w \in Slots : Registers(v, k) /\ Registers(w, k) => v = w

UnreadIsEmpty ==
  \A k \in Keys, w \in Slots : Registers(w, k) =>
    /\ Lacks(w, "token") => knownKeys[k].token = NoToken
    /\ Lacks(w, "amount") => knownKeys[k].amount = 0
    /\ post[w].step = "amount" => knownKeys[k].token = post[w].token
    /\ post[w].step = "token" => knownKeys[k].amount = post[w].amount

WritersRegister ==
  \A w \in Slots : post[w].step \in {"token", "amount"} =>
    post[w].key \in Keys /\ post[w].new

PayloadIsKept ==
  \A k \in Keys, w \in Slots : Past(w, k) => Matches(w, k)

ProcessedIsRecorded ==
  \A w \in Slots : post[w].step \in {"reply", "ok"} => Recorded(w)

RegistrantPaysOnce ==
  \A k \in Keys, w \in Slots, i \in DOMAIN processed :
    Registers(w, k) /\ processed[i].key = k /\ processed[i].new
      => post[w].step \in {"reply"} \cup Replies

ServerInv ==
  /\ ServerTypeOK
  /\ KeylessAreNew /\ KeysAreKnown /\ LockIsHeld /\ OneRegistrant /\ UnreadIsEmpty
  /\ WritersRegister /\ PayloadIsKept /\ ProcessedIsRecorded
  /\ RegistrantPaysOnce /\ RepetitionsPayOnce

-----------------------------------------------------------------------------
(* Lemmas.                                                                 *)

\* The fields of a request in progress.
LEMMA PostFields ==
  ASSUME ServerTypeOK, NEW w \in Slots, post[w].step # "idle"
  PROVE  /\ post[w] \in [step : Steps, key : Keys \cup {NoKey}, token : Tokens,
                         amount : Amounts, new : BOOLEAN, count : Int]
         /\ post[w] # Idle
  BY DEF ServerTypeOK, Post, Idle

\* A new row of the record.
LEMMA Appended ==
  ASSUME NEW S, NEW s \in Seq(S), NEW x \in S
  PROVE  /\ Append(s, x) \in Seq(S)
         /\ DOMAIN s = 1 .. Len(s) /\ Len(s) \in Nat
         /\ DOMAIN Append(s, x) = 1 .. Len(s) + 1
         /\ \A i \in 1 .. Len(s) : Append(s, x)[i] = s[i]
         /\ Append(s, x)[Len(s) + 1] = x
  BY AppendProperties

\* Nothing changes under the keys but, perhaps, the lock of w's, and statuses.
PayloadsStay(w) ==
  \A k \in Keys : /\ knownKeys'[k].known = knownKeys[k].known
                  /\ knownKeys'[k].token = knownKeys[k].token
                  /\ knownKeys'[k].amount = knownKeys[k].amount
                  /\ k # post[w].key
                       => knownKeys'[k].locked = knownKeys[k].locked

\* w's request goes from one step to another.
Moves(w) ==
  /\ post[w].step # "idle" /\ post'[w].step # "idle"
  /\ post'[w].key = post[w].key /\ post'[w].token = post[w].token
  /\ post'[w].amount = post[w].amount /\ post'[w].new = post[w].new
  /\ \A v \in Slots \ {w} : post'[v] = post[v]
  /\ PayloadsStay(w)

\* It may get past the comparison only with the payload, to its answer only
\* from the record, and never back.
MovesOn(w) ==
  /\ post'[w].step \notin {"parse", "token", "amount"}
  /\ \A k \in Keys : Past(w, k)' => Matches(w, k)
  /\ post'[w].step \in {"reply", "ok"} => Recorded(w)
  /\ post[w].step \in {"reply"} \cup Replies
       => post'[w].step \in {"reply"} \cup Replies

\* Everything but the lock follows from that.
LEMMA MovedOn ==
  ASSUME ServerInv, NEW w \in Slots, Moves(w), MovesOn(w), processed' = processed
  PROVE  /\ KeylessAreNew' /\ KeysAreKnown' /\ OneRegistrant' /\ UnreadIsEmpty'
         /\ PayloadIsKept' /\ ProcessedIsRecorded'
         /\ RegistrantPaysOnce' /\ RepetitionsPayOnce' /\ WritersRegister'
<1>1. \A v \in Slots : \A k :
          /\ Carries(v, k)' <=> Carries(v, k)
          /\ Registers(v, k)' <=> Registers(v, k)
          /\ post'[v].token = post[v].token
          /\ post'[v].amount = post[v].amount
          /\ post'[v].key = post[v].key
          /\ post'[v].new = post[v].new
  BY DEF Moves, Carries, Registers
<1>2. \A v \in Slots \ {w} : \A k : Past(v, k)' <=> Past(v, k)
  BY DEF Moves, Past
<1>3. KeysAreKnown'
  BY <1>1 DEF ServerInv, KeysAreKnown, Moves, PayloadsStay, Carries
<1>4. OneRegistrant'
  BY <1>1 DEF ServerInv, OneRegistrant
<1>5. UnreadIsEmpty'
  BY <1>1 DEF ServerInv, UnreadIsEmpty, Moves, PayloadsStay, MovesOn, Lacks
<1>6. PayloadIsKept'
  <2>1. \A v \in Slots, k \in Keys : Matches(v, k) => Matches(v, k)'
    BY <1>1 DEF Matches, Moves, PayloadsStay
  <2>. QED  BY <1>2, <2>1 DEF ServerInv, PayloadIsKept, MovesOn
<1>8. ProcessedIsRecorded'
  <2>1. \A v \in Slots : Recorded(v)' <=> Recorded(v)
    BY <1>1 DEF Recorded
  <2>. QED  BY <2>1 DEF ServerInv, ProcessedIsRecorded, Moves, MovesOn
<1>9. RegistrantPaysOnce'
  BY <1>1 DEF ServerInv, RegistrantPaysOnce, Moves, MovesOn
<1>10. RepetitionsPayOnce'
  BY DEF ServerInv, RepetitionsPayOnce
<1>11. KeylessAreNew'
  BY <1>1 DEF ServerInv, KeylessAreNew, Moves
<1>12. WritersRegister'
  BY DEF ServerInv, WritersRegister, Moves, MovesOn
<1>. QED  BY <1>12, <1>3, <1>4, <1>5, <1>6, <1>8, <1>9, <1>10, <1>11

\* A step that touches neither the lock nor whether its request holds it.
LEMMA LockUntouched ==
  ASSUME ServerInv, NEW w \in Slots,
         \A v \in Slots \ {w} : post'[v] = post[v],
         \A k \in Keys : Holds(w, k)' <=> Holds(w, k),
         \A k \in Keys : knownKeys'[k].locked = knownKeys[k].locked
  PROVE  LockIsHeld'
<1>1. \A v \in Slots, k \in Keys : Holds(v, k)' <=> Holds(v, k)
  BY DEF Holds
<1>. QED  BY <1>1 DEF ServerInv, LockIsHeld

\* The steps that change nothing but the step of their request.
LEMMA OnlyTheStep ==
  ASSUME ServerInv, NEW w \in Slots, NEW s \in Steps, post[w].step # "idle",
         Go(w, s), PayloadsStay(w)
  PROVE  Moves(w) /\ post' \in [Slots -> Post] /\ post'[w].step = s
<1>1. post[w] \in [step : Steps, key : Keys \cup {NoKey}, token : Tokens,
                   amount : Amounts, new : BOOLEAN, count : Int]
  BY PostFields DEF ServerInv
<1>2. post \in [Slots -> Post]
  BY DEF ServerInv, ServerTypeOK
<1>3. /\ post'[w] = [post[w] EXCEPT !.step = s]
      /\ \A v \in Slots \ {w} : post'[v] = post[v]
  BY <1>2 DEF Go
<1>4. s # "idle"
  BY DEF Steps, Replies
<1>5. Moves(w)
  BY <1>1, <1>3, <1>4 DEF Moves
<1>6. post' \in [Slots -> Post]
  BY <1>1, <1>2 DEF Go, Post
<1>. QED  BY <1>1, <1>3, <1>5, <1>6

\* Taking and releasing the lock.
LEMMA LockIsSet ==
  ASSUME knownKeys \in [Keys -> Payment], NEW w, NEW b \in BOOLEAN,
         post[w].key \in Keys,
         knownKeys' = [knownKeys EXCEPT ![post[w].key].locked = b]
  PROVE  /\ PayloadsStay(w) /\ knownKeys' \in [Keys -> Payment]
         /\ knownKeys'[post[w].key].locked = b
<1>. DEFINE key == post[w].key
            p == [knownKeys[key] EXCEPT !.locked = b]
<1>1. knownKeys' = [knownKeys EXCEPT ![key] = p]
  OBVIOUS
<1>2. /\ p \in Payment /\ p.locked = b /\ p.known = knownKeys[key].known
      /\ p.token = knownKeys[key].token /\ p.amount = knownKeys[key].amount
  BY Zenon, knownKeys[key] \in Payment DEF Payment
<1>. HIDE DEF p
<1>3. knownKeys'[key] = p /\ \A k \in Keys \ {key} : knownKeys'[k] = knownKeys[k]
  BY <1>1
<1>4. knownKeys' \in [Keys -> Payment]
  BY <1>1, <1>2
<1>. QED  BY <1>2, <1>3, <1>4 DEF PayloadsStay

\* Verifying a payment.
LEMMA StatusIsSet ==
  ASSUME knownKeys \in [Keys -> Payment], NEW w, NEW b \in {"ok", "refused"},
         post[w].key \in Keys,
         knownKeys' = [knownKeys EXCEPT ![post[w].key].status = b]
  PROVE  /\ PayloadsStay(w) /\ knownKeys' \in [Keys -> Payment]
         /\ \A k \in Keys : knownKeys'[k].locked = knownKeys[k].locked
<1>. DEFINE key == post[w].key
            p == [knownKeys[key] EXCEPT !.status = b]
<1>1. knownKeys' = [knownKeys EXCEPT ![key] = p]
  OBVIOUS
<1>2. /\ p \in Payment /\ p.known = knownKeys[key].known
      /\ p.token = knownKeys[key].token /\ p.amount = knownKeys[key].amount
      /\ p.locked = knownKeys[key].locked
  BY Zenon, knownKeys[key] \in Payment DEF Payment
<1>. HIDE DEF p
<1>3. knownKeys'[key] = p /\ \A k \in Keys \ {key} : knownKeys'[k] = knownKeys[k]
  BY <1>1
<1>4. knownKeys' \in [Keys -> Payment]
  BY <1>1, <1>2
<1>. QED  BY <1>2, <1>3, <1>4 DEF PayloadsStay

-----------------------------------------------------------------------------
(* Every action keeps the invariant.                                       *)

LEMMA MalformedKeeps ==
  ASSUME ServerInv, NEW w \in Slots, Malformed(w)
  PROVE  ServerInv'
<1>1. post[w].step = "parse" /\ Go(w, "refused") /\ processed' = processed
      /\ knownKeys' = knownKeys /\ retryCounts' = retryCounts
  BY DEF Malformed, At
<1>2. Moves(w) /\ post' \in [Slots -> Post] /\ post'[w].step = "refused"
  BY <1>1, OnlyTheStep DEF Steps, Replies, PayloadsStay
<1>3. MovesOn(w)
  BY <1>1, <1>2 DEF MovesOn, Past, Replies
<1>4. LockIsHeld'
  BY <1>1, <1>2, LockUntouched DEF Moves, Holds
<1>5. ServerTypeOK'
  BY <1>1, <1>2 DEF ServerInv, ServerTypeOK
<1>. QED  BY <1>1, <1>2, <1>3, <1>4, <1>5, MovedOn DEF ServerInv

LEMMA ReadCountKeeps ==
  ASSUME ServerInv, NEW w \in Slots, ReadCount(w)
  PROVE  ServerInv'
<1>. DEFINE n == retryCounts[post[w].token]
<1>1. /\ post[w].step = "count" /\ processed' = processed
      /\ knownKeys' = knownKeys /\ retryCounts' = retryCounts
      /\ post' = [post EXCEPT ![w].step = "draw", ![w].count = n]
  BY DEF ReadCount, At
<1>2. /\ post \in [Slots -> Post] /\ n \in Int
      /\ post[w] \in [step : Steps, key : Keys \cup {NoKey}, token : Tokens,
                      amount : Amounts, new : BOOLEAN, count : Int]
  BY <1>1, PostFields DEF ServerInv, ServerTypeOK
<1>. HIDE DEF n
<1>3. /\ post'[w] = [post[w] EXCEPT !.step = "draw", !.count = n]
      /\ \A v \in Slots \ {w} : post'[v] = post[v]
  BY <1>1, <1>2
<1>4. Moves(w) /\ post'[w].step = "draw"
  BY <1>1, <1>2, <1>3 DEF Moves, PayloadsStay
<1>5. MovesOn(w)
  BY <1>1, <1>2, <1>4 DEF MovesOn, Past, Replies, Moves, ServerInv, PayloadIsKept
<1>6. LockIsHeld'
  BY <1>1, <1>4, LockUntouched DEF Moves, Holds
<1>7. post' \in [Slots -> Post]
  BY <1>1, <1>2 DEF Post, Steps
<1>8. ServerTypeOK'
  BY <1>1, <1>7 DEF ServerInv, ServerTypeOK
<1>. QED  BY <1>1, <1>4, <1>5, <1>6, <1>8, MovedOn DEF ServerInv

LEMMA DrawKeeps ==
  ASSUME ServerInv, NEW w \in Slots, Draw(w)
  PROVE  ServerInv'
<1>1. PICK s \in {"lock", "error"} : Go(w, s)
  BY DEF Draw
<1>2. /\ post[w].step = "draw" /\ processed' = processed
      /\ knownKeys' = knownKeys
      /\ retryCounts' = [retryCounts EXCEPT ![post[w].token] = post[w].count + 1]
  BY DEF Draw, At
<1>3. Moves(w) /\ post' \in [Slots -> Post] /\ post'[w].step = s
  BY <1>1, <1>2, OnlyTheStep DEF Steps, Replies, PayloadsStay
<1>4. MovesOn(w)
  BY <1>2, <1>3 DEF MovesOn, Past, Replies, Moves, ServerInv, PayloadIsKept
<1>5. LockIsHeld'
  BY <1>2, <1>3, LockUntouched DEF Moves, Holds
<1>6. retryCounts' \in [Tokens -> Int]
  BY <1>2, PostFields DEF ServerInv, ServerTypeOK
<1>7. ServerTypeOK'
  BY <1>2, <1>3, <1>6 DEF ServerInv, ServerTypeOK
<1>. QED  BY <1>2, <1>3, <1>4, <1>5, <1>7, MovedOn DEF ServerInv

\* The lock is taken from nobody.
LEMMA LockKeeps ==
  ASSUME ServerInv, NEW w \in Slots, Lock(w)
  PROVE  ServerInv'
<1>. DEFINE key == post[w].key
<1>1. /\ post[w].step = "lock" /\ processed' = processed
      /\ retryCounts' = retryCounts
      /\ post[w] \in [step : Steps, key : Keys \cup {NoKey}, token : Tokens,
                      amount : Amounts, new : BOOLEAN, count : Int]
      /\ knownKeys \in [Keys -> Payment]
  BY PostFields DEF Lock, At, ServerInv, ServerTypeOK
<1>2. PayloadsStay(w) /\ knownKeys' \in [Keys -> Payment]
  <2>1. CASE knownKeys' = knownKeys
    BY <1>1, <2>1 DEF PayloadsStay
  <2>2. CASE /\ key # NoKey
             /\ knownKeys' = [knownKeys EXCEPT ![key].locked = TRUE]
    BY <1>1, <2>2, LockIsSet
  <2>. QED  BY <2>1, <2>2 DEF Lock
<1>3. PICK s \in {"process", "error"} : Go(w, s)
  BY DEF Lock
<1>4. Moves(w) /\ post' \in [Slots -> Post] /\ post'[w].step = s
  BY <1>1, <1>2, <1>3, OnlyTheStep DEF Steps, Replies
<1>5. MovesOn(w)
  BY <1>1, <1>4 DEF MovesOn, Past, Replies, Moves, ServerInv, PayloadIsKept
<1>6. LockIsHeld'
  <2>1. CASE key = NoKey \/ (key # NoKey /\ knownKeys[key].locked)
    <3>1. knownKeys' = knownKeys
      BY <2>1 DEF Lock
    <3>2. \A k \in Keys : Holds(w, k)' <=> Holds(w, k)
      <4>1. key = NoKey \/ s = "error"
        BY <1>1, <1>4, <2>1 DEF Lock, Go, ServerInv, ServerTypeOK
      <4>2. NoKey \notin Keys
        BY PaymentServerAssumption
      <4>. QED  BY <1>1, <1>4, <4>1, <4>2 DEF Holds, Moves
    <3>. QED  BY <1>4, <3>1, <3>2, LockUntouched DEF Moves
  <2>2. CASE key # NoKey /\ ~knownKeys[key].locked
    <3>1. PICK c \in Keys : c = key
      BY <1>1, <2>2
    <3>2. /\ knownKeys'[c].locked
          /\ \A k \in Keys \ {c} : knownKeys'[k].locked = knownKeys[k].locked
      <4>1. knownKeys' = [knownKeys EXCEPT ![key].locked = TRUE]
        BY <2>2 DEF Lock
      <4>2. PayloadsStay(w) /\ knownKeys'[key].locked = TRUE
        BY <1>1, <3>1, <4>1, LockIsSet
      <4>. QED  BY <3>1, <4>2 DEF PayloadsStay
    <3>3. post'[w].step = "process" /\ post'[w].key = c
      <4>1. Go(w, "process")
        BY <2>2, Zenon DEF Lock
      <4>. QED  BY <1>1, <1>4, <3>1, <4>1, OnlyTheStep, <1>2 DEF Moves, Steps
    <3>4. \A v \in Slots : ~Holds(v, c)
      BY <2>2, <3>1 DEF ServerInv, LockIsHeld
    <3>5. \A v \in Slots : Holds(v, c)' <=> v = w
      BY <1>4, <3>3, <3>4 DEF Holds, Moves
    <3>6. \A v \in Slots, k \in Keys \ {c} : Holds(v, k)' <=> Holds(v, k)
      BY <1>1, <1>4, <3>1, <3>3 DEF Holds, Moves
    <3>7. ASSUME NEW k \in Keys
          PROVE  /\ knownKeys'[k].locked <=> \E v \in Slots : Holds(v, k)'
                 /\ \A u, v \in Slots : Holds(u, k)' /\ Holds(v, k)' => u = v
      <4>1. CASE k = c
        BY <3>2, <3>5, <4>1
      <4>2. CASE k # c
        BY <3>2, <3>6, <4>2 DEF ServerInv, LockIsHeld
      <4>. QED  BY <4>1, <4>2
    <3>. QED  BY <3>7 DEF LockIsHeld
  <2>. QED  BY <2>1, <2>2
<1>7. ServerTypeOK'
  BY <1>1, <1>2, <1>4 DEF ServerInv, ServerTypeOK
<1>. QED  BY <1>1, <1>4, <1>5, <1>6, <1>7, MovedOn DEF ServerInv

\* The lock is released by its only holder.
LEMMA ReplyKeeps ==
  ASSUME ServerInv, NEW w \in Slots, Reply(w)
  PROVE  ServerInv'
<1>. DEFINE key == post[w].key
<1>1. /\ post[w].step = "reply" /\ processed' = processed
      /\ post[w] \in [step : Steps, key : Keys \cup {NoKey}, token : Tokens,
                      amount : Amounts, new : BOOLEAN, count : Int]
      /\ knownKeys \in [Keys -> Payment]
  BY PostFields DEF Reply, At, ServerInv, ServerTypeOK
<1>2. PayloadsStay(w) /\ knownKeys' \in [Keys -> Payment]
  <2>1. CASE knownKeys' = knownKeys
    BY <1>1, <2>1 DEF PayloadsStay
  <2>2. CASE /\ key # NoKey
             /\ knownKeys' = [knownKeys EXCEPT ![key].locked = FALSE]
    BY <1>1, <2>2, LockIsSet
  <2>. QED  BY <2>1, <2>2 DEF Reply
<1>3. PICK s \in {"ok", "refused", "error"} : Go(w, s)
  <2>1. key # NoKey => knownKeys[key].status \in {"ok", "refused"}
    BY <1>1 DEF Payment
  <2>. QED  BY <2>1 DEF Reply, Verdict
<1>4. Moves(w) /\ post' \in [Slots -> Post] /\ post'[w].step = s
  BY <1>1, <1>2, <1>3, OnlyTheStep DEF Steps, Replies
<1>5. MovesOn(w)
  BY <1>1, <1>4 DEF MovesOn, Past, Replies, Moves, ServerInv, PayloadIsKept,
                  ProcessedIsRecorded
<1>6. LockIsHeld'
  <2>1. NoKey \notin Keys
    BY PaymentServerAssumption
  <2>2. \A k \in Keys : ~Holds(w, k)'
    BY <1>4 DEF Holds
  <2>3. \A v \in Slots \ {w}, k \in Keys : Holds(v, k)' <=> Holds(v, k)
    BY <1>4 DEF Holds, Moves
  <2>4. \A k \in Keys : k = key => Holds(w, k)
    BY <1>1 DEF Holds
  <2>5. \A k \in Keys : /\ k = key => ~knownKeys'[k].locked
                        /\ k # key => knownKeys'[k].locked = knownKeys[k].locked
                                      /\ ~Holds(w, k)
    BY <1>1, <2>1 DEF Reply, Payment, Holds
  <2>. HIDE DEF key
  <2>6. ASSUME NEW k \in Keys
        PROVE  /\ knownKeys'[k].locked <=> \E v \in Slots : Holds(v, k)'
               /\ \A u, v \in Slots : Holds(u, k)' /\ Holds(v, k)' => u = v
    <3>1. CASE k = key
      BY <2>2, <2>3, <2>4, <2>5, <3>1 DEF ServerInv, LockIsHeld
    <3>2. CASE k # key
      BY <2>2, <2>3, <2>5, <3>2 DEF ServerInv, LockIsHeld
    <3>. QED  BY <3>1, <3>2
  <2>. QED  BY <2>6 DEF LockIsHeld
<1>7. retryCounts' \in [Tokens -> Int]
  BY <1>1 DEF Reply, ServerInv, ServerTypeOK
<1>8. ServerTypeOK'
  BY <1>1, <1>2, <1>4, <1>7 DEF ServerInv, ServerTypeOK
<1>. QED  BY <1>1, <1>4, <1>5, <1>6, <1>8, MovedOn DEF ServerInv

LEMMA AnsweredKeeps ==
  ASSUME ServerInv, NEW w \in Slots, Answered(w)
  PROVE  ServerInv'
<1>1. /\ post[w].step \in Replies /\ post' = [post EXCEPT ![w] = Idle]
      /\ knownKeys' = knownKeys /\ processed' = processed
      /\ retryCounts' = retryCounts /\ post \in [Slots -> Post]
  BY DEF Answered, ServerInv, ServerTypeOK
<1>2. post'[w].step = "idle" /\ \A v \in Slots \ {w} : post'[v] = post[v]
  BY <1>1 DEF Idle
<1>3. \A v \in Slots \ {w} : \A k :
        /\ Carries(v, k)' <=> Carries(v, k)
        /\ Registers(v, k)' <=> Registers(v, k)
        /\ Past(v, k)' <=> Past(v, k)
        /\ Recorded(v)' <=> Recorded(v)
        /\ Matches(v, k)' <=> Matches(v, k)
  BY <1>1, <1>2 DEF Carries, Registers, Past, Recorded, Matches
<1>4. \A k : ~Carries(w, k)' /\ ~Registers(w, k)' /\ ~Past(w, k)'
  BY <1>2 DEF Carries, Registers, Past
<1>5. ServerTypeOK'
  BY <1>1 DEF ServerInv, ServerTypeOK, Post
<1>6. LockIsHeld'
  BY <1>1, <1>2, LockUntouched DEF Holds, Replies
<1>7. KeylessAreNew' /\ KeysAreKnown' /\ OneRegistrant' /\ UnreadIsEmpty'
  BY <1>1, <1>2, <1>3, <1>4
     DEF ServerInv, KeylessAreNew, KeysAreKnown, OneRegistrant, UnreadIsEmpty, Lacks
<1>8. WritersRegister' /\ PayloadIsKept' /\ RepetitionsPayOnce'
  BY <1>1, <1>2, <1>3, <1>4
     DEF ServerInv, WritersRegister, PayloadIsKept, RepetitionsPayOnce
<1>9. ProcessedIsRecorded' /\ RegistrantPaysOnce'
  BY <1>1, <1>2, <1>3, <1>4
     DEF ServerInv, ProcessedIsRecorded, RegistrantPaysOnce
<1>. QED  BY <1>5, <1>6, <1>7, <1>8, <1>9 DEF ServerInv

\* A new key has no carrier and no record to disagree with.
LEMMA ReceiveKeeps ==
  ASSUME ServerInv, NEW w \in Slots, NEW key \in Keys \cup {NoKey},
         NEW token \in Tokens, NEW amount \in Amounts,
         Receive(w, key, token, amount)
  PROVE  ServerInv'
<1>. DEFINE new == key = NoKey \/ ~knownKeys[key].known
            fresh == key # NoKey /\ ~knownKeys[key].known
<1>. PICK step \in {"conflict", "parse"} :
       post' = [post EXCEPT ![w] = [step |-> step, key |-> key, token |-> token,
                                    amount |-> amount, new |-> new, count |-> 0]]
  BY DEF Receive
<1>1. /\ post[w] = Idle /\ post \in [Slots -> Post]
      /\ processed' = processed /\ retryCounts' = retryCounts
      /\ knownKeys \in [Keys -> Payment] /\ NoKey \notin Keys
      /\ knownKeys' = IF fresh THEN [knownKeys EXCEPT ![key] = NewPayment]
                      ELSE knownKeys
  BY PaymentServerAssumption DEF Receive, ServerInv, ServerTypeOK
<1>2. /\ post'[w].step = step /\ post'[w].key = key /\ post'[w].new = new
      /\ \A v \in Slots \ {w} : post'[v] = post[v]
  BY <1>1
<1>3. \A v \in Slots \ {w} : \A k :
        /\ Carries(v, k)' <=> Carries(v, k)
        /\ Registers(v, k)' <=> Registers(v, k)
        /\ Past(v, k)' <=> Past(v, k)
        /\ Recorded(v)' <=> Recorded(v)
  BY <1>1, <1>2 DEF Carries, Registers, Past, Recorded
<1>4. \A k : /\ Carries(w, k)' <=> k = key
             /\ Registers(w, k)' <=> k = key /\ new
             /\ ~Past(w, k)' /\ ~Holds(w, k)' /\ ~Holds(w, k)
  <2>1. post[w].step = "idle"
    BY <1>1 DEF Idle
  <2>2. \A k : Carries(w, k)' <=> k = key
    BY <1>2 DEF Carries
  <2>3. \A k : Registers(w, k)' <=> k = key /\ new
    BY Zenon, <1>2, <2>2 DEF Registers
  <2>4. \A k : ~Past(w, k)' /\ ~Holds(w, k)' /\ ~Holds(w, k)
    BY <1>2, <2>1 DEF Past, Holds
  <2>. QED  BY <2>2, <2>3, <2>4
<1>5. fresh => /\ knownKeys'[key] = NewPayment /\ ~knownKeys[key].locked
               /\ \A v \in Slots : ~Carries(v, key)
               /\ \A i \in DOMAIN processed : processed[i].key # key
  BY <1>1 DEF ServerInv, KeysAreKnown
<1>6. \A k \in Keys : (fresh /\ k = key) \/ knownKeys'[k] = knownKeys[k]
  BY <1>1
<1>7. \A v \in Slots, k \in Keys : Past(v, k) \/ Registers(v, k) => Carries(v, k)
  BY DEF Past, Registers, Carries
<1>8. ServerTypeOK'
  <2>1. post' \in [Slots -> Post]
    BY <1>1 DEF Post, Steps, Replies
  <2>2. knownKeys' \in [Keys -> Payment]
    BY <1>1 DEF NewPayment, Payment
  <2>. QED  BY <1>1, <2>1, <2>2 DEF ServerInv, ServerTypeOK
<1>. HIDE DEF new, fresh
<1>9. LockIsHeld'
  <2>1. \A k \in Keys : knownKeys'[k].locked = knownKeys[k].locked
    <3>1. fresh => knownKeys[key].locked = FALSE
      BY <1>1, <1>5 DEF fresh, Payment
    <3>2. NewPayment.locked = FALSE
      BY DEF NewPayment
    <3>3. fresh => knownKeys'[key].locked = knownKeys[key].locked
      BY Zenon, <1>5, <3>1, <3>2
    <3>. QED  BY Zenon, <1>6, <3>3
  <2>. QED  BY <1>2, <1>4, <2>1, LockUntouched
<1>10. KeylessAreNew'
  BY <1>2, <1>3, <1>4 DEF ServerInv, KeylessAreNew, new
<1>11. KeysAreKnown'
  BY <1>1, <1>2, <1>3, <1>4, <1>5, <1>6
     DEF ServerInv, KeysAreKnown, NewPayment, fresh
<1>12. OneRegistrant'
  BY <1>1, <1>3, <1>4, <1>5, <1>7 DEF ServerInv, OneRegistrant, new, fresh
<1>13. UnreadIsEmpty'
  BY <1>1, <1>2, <1>3, <1>4, <1>5, <1>6, <1>7
     DEF ServerInv, UnreadIsEmpty, Lacks, NewPayment, new, fresh
<1>14. PayloadIsKept'
  <2>. SUFFICES ASSUME NEW k \in Keys, NEW v \in Slots, Past(v, k)'
                PROVE  Matches(v, k)'
    BY DEF PayloadIsKept
  <2>1. v # w /\ Past(v, k)
    BY <1>3, <1>4
  <2>2. knownKeys'[k] = knownKeys[k]
    BY <1>5, <1>6, <1>7, <2>1
  <2>. QED  BY <1>2, <2>1, <2>2 DEF ServerInv, PayloadIsKept, Matches
<1>16. ProcessedIsRecorded'
  BY <1>2, <1>3 DEF ServerInv, ProcessedIsRecorded
<1>17. RegistrantPaysOnce'
  BY <1>1, <1>2, <1>3, <1>4, <1>5 DEF ServerInv, RegistrantPaysOnce, new, fresh
<1>18. RepetitionsPayOnce' /\ WritersRegister'
  BY <1>1, <1>2 DEF ServerInv, RepetitionsPayOnce, WritersRegister
<1>. QED  BY <1>8, <1>9, <1>10, <1>11, <1>12, <1>13, <1>14, <1>16, <1>17, <1>18
          DEF ServerInv

\* A payment with the payload.
WithPayload(p, t, a) == [p EXCEPT !.token = t, !.amount = a]

LEMMA WithPayloadFields ==
  ASSUME NEW p \in Payment, NEW t \in Tokens \cup {NoToken}, NEW a \in Int
  PROVE  /\ WithPayload(p, t, a) \in Payment
         /\ WithPayload(p, t, a).known = p.known
         /\ WithPayload(p, t, a).locked = p.locked
         /\ WithPayload(p, t, a).token = t /\ WithPayload(p, t, a).amount = a
  BY DEF WithPayload, Payment

LEMMA WithOneField ==
  ASSUME NEW p \in Payment, NEW t \in Tokens \cup {NoToken}, NEW a \in Int
  PROVE  /\ WithPayload(p, t, p.amount) = [p EXCEPT !.token = t]
         /\ WithPayload(p, p.token, a) = [p EXCEPT !.amount = a]
  BY DEF WithPayload, Payment

LEMMA PayloadWritten ==
  ASSUME knownKeys \in [Keys -> Payment],
         NEW k \in Keys, NEW t \in Tokens \cup {NoToken}, NEW a \in Int,
         knownKeys' = [knownKeys EXCEPT ![k] = WithPayload(knownKeys[k], t, a)]
  PROVE  /\ knownKeys' \in [Keys -> Payment]
         /\ knownKeys'[k].known = knownKeys[k].known
         /\ knownKeys'[k].locked = knownKeys[k].locked
         /\ knownKeys'[k].token = t /\ knownKeys'[k].amount = a
         /\ \A j \in Keys \ {k} : knownKeys'[j] = knownKeys[j]
<1>. PICK old \in Payment : old = knownKeys[k]
  OBVIOUS
<1>1. PICK p \in Payment : /\ p = WithPayload(old, t, a)
                           /\ p.known = old.known /\ p.locked = old.locked
                           /\ p.token = t /\ p.amount = a
  BY WithPayloadFields, SMT
<1>2. knownKeys' = [knownKeys EXCEPT ![k] = p]
  BY <1>1, Zenon
<1>3. /\ knownKeys' \in [Keys -> Payment] /\ knownKeys'[k] = p
      /\ \A j \in Keys \ {k} : knownKeys'[j] = knownKeys[j]
  BY <1>2
<1>. QED  BY <1>1, <1>3

\* The registrant writes a field, or the second one: who has compared with what
\* was there repeats the key and has left the field empty.
LEMMA WriteKeeps ==
  ASSUME ServerInv, NEW w \in Slots, NEW k \in Keys, NEW t, NEW a,
         NEW s \in {"token", "amount", "count"},
         t \in Tokens \cup {NoToken}, a \in Int,
         Registers(w, k), Lacks(w, "token") \/ Lacks(w, "amount"),
         s = "token" => Lacks(w, "token") /\ t = NoToken,
         s = "amount" => Lacks(w, "amount") /\ a = 0,
         s # "token" => t = post[w].token, s # "amount" => a = post[w].amount,
         Go(w, s), processed' = processed, retryCounts' = retryCounts,
         knownKeys' = [knownKeys EXCEPT ![k] = WithPayload(knownKeys[k], t, a)]
  PROVE  ServerInv'
<1>1. /\ post \in [Slots -> Post] /\ knownKeys \in [Keys -> Payment]
      /\ post[w].key = k /\ post[w].step # "idle"
      /\ post[w] \in [step : Steps, key : Keys \cup {NoKey}, token : Tokens,
                      amount : Amounts, new : BOOLEAN, count : Int]
  BY PostFields DEF ServerInv, ServerTypeOK, Registers, Carries
<1>2. knownKeys' \in [Keys -> Payment]
  BY <1>1, PayloadWritten
<1>3. /\ knownKeys'[k].known = knownKeys[k].known
      /\ knownKeys'[k].locked = knownKeys[k].locked
      /\ knownKeys'[k].token = t /\ knownKeys'[k].amount = a
  BY <1>1, PayloadWritten
<1>4. \A j \in Keys \ {k} : knownKeys'[j] = knownKeys[j]
  BY <1>1, PayloadWritten
<1>5. /\ post'[w] = [post[w] EXCEPT !.step = s]
      /\ post' \in [Slots -> Post]
      /\ \A v \in Slots \ {w} : post'[v] = post[v]
  <2>1. [post[w] EXCEPT !.step = s] \in Post
    BY <1>1 DEF Post, Steps
  <2>. QED  BY <1>1, <2>1 DEF Go
<1>6. /\ post'[w].step = s /\ post'[w].key = k /\ post'[w].token = post[w].token
      /\ post'[w].amount = post[w].amount /\ post'[w].new = post[w].new
  BY <1>1, <1>5
<1>7. \A v \in Slots : \A j :
          /\ Carries(v, j)' <=> Carries(v, j)
          /\ Registers(v, j)' <=> Registers(v, j)
          /\ Recorded(v)' <=> Recorded(v)
  BY <1>1, <1>5, <1>6 DEF Carries, Registers, Recorded
<1>8. \A v \in Slots \ {w} : \A j : Past(v, j)' <=> Past(v, j)
  BY <1>5 DEF Past
<1>9. /\ knownKeys[k].token \in {NoToken, t}
      /\ knownKeys[k].amount \in {0, a}
  <2>1. /\ Lacks(w, "token") => knownKeys[k].token = NoToken
        /\ Lacks(w, "amount") => knownKeys[k].amount = 0
        /\ post[w].step = "amount" => knownKeys[k].token = post[w].token
        /\ post[w].step = "token" => knownKeys[k].amount = post[w].amount
    BY DEF ServerInv, UnreadIsEmpty
  <2>. QED  BY <2>1 DEF Lacks
<1>10. \A v \in Slots : Past(v, k) => v # w /\ ~post[v].new
  <2>1. ~Past(w, k)
    BY DEF Lacks, Past
  <2>2. \A v \in Slots : Past(v, k) /\ post[v].new => Registers(v, k)
    BY DEF Past, Registers, Carries
  <2>. QED  BY <2>1, <2>2 DEF ServerInv, OneRegistrant
<1>12. post[w].step \in {"parse", "token", "amount"}
  BY DEF Lacks
<1>13. LockIsHeld'
  <2>1. \A j \in Keys : knownKeys'[j].locked = knownKeys[j].locked
    BY <1>3, <1>4
  <2>. QED  BY <1>5, <1>6, <1>12, <2>1, LockUntouched DEF Holds
<1>14. ServerTypeOK'
  BY <1>2, <1>5 DEF ServerInv, ServerTypeOK
<1>15. KeylessAreNew' /\ OneRegistrant'
  BY <1>5, <1>6, <1>7 DEF ServerInv, KeylessAreNew, OneRegistrant
<1>16. KeysAreKnown'
  BY <1>3, <1>4, <1>7 DEF ServerInv, KeysAreKnown
<1>17. UnreadIsEmpty'
  <2>. SUFFICES ASSUME NEW j \in Keys, NEW v \in Slots, Registers(v, j)'
                PROVE  /\ Lacks(v, "token")' => knownKeys'[j].token = NoToken
                       /\ Lacks(v, "amount")' => knownKeys'[j].amount = 0
                       /\ post'[v].step = "amount"
                            => knownKeys'[j].token = post'[v].token
                       /\ post'[v].step = "token"
                            => knownKeys'[j].amount = post'[v].amount
    BY Zenon DEF UnreadIsEmpty
  <2>1. Registers(v, j)
    BY <1>7
  <2>2. CASE v = w
    <3>1. j = k
      BY <1>1, <2>1, <2>2 DEF Registers, Carries
    <3>2. knownKeys'[j].token = t /\ knownKeys'[j].amount = a
      BY <1>3, <1>4, <3>1
    <3>. QED  BY <1>6, <2>2, <3>2 DEF Lacks
  <2>3. CASE v # w
    <3>1. j # k
      BY <2>1, <2>3 DEF ServerInv, OneRegistrant
    <3>2. knownKeys'[j] = knownKeys[j] /\ post'[v] = post[v]
      BY <1>4, <1>5, <2>3, <3>1
    <3>. QED  BY <2>1, <3>2 DEF ServerInv, UnreadIsEmpty, Lacks
  <2>. QED  BY <2>2, <2>3
<1>18. PayloadIsKept'
  <2>1. \A j \in Keys : Past(w, j)' => j = k /\ s = "count"
    BY <1>6 DEF Past
  <2>2. knownKeys'[k].token = t /\ knownKeys'[k].amount = a
    BY <1>3, <1>4
  <2>3. ASSUME NEW j \in Keys, NEW v \in Slots, Past(v, j)'
        PROVE  Matches(v, j)'
    <3>1. CASE v = w
      BY <1>6, <2>1, <2>2, <2>3, <3>1 DEF Matches
    <3>2. CASE v # w
      <4>1. Past(v, j) /\ post'[v] = post[v]
        BY <1>5, <1>8, <2>3, <3>2
      <4>2. Matches(v, j)
        BY <4>1 DEF ServerInv, PayloadIsKept
      <4>3. CASE j = k
        BY <1>9, <1>10, <2>2, <4>1, <4>2, <4>3 DEF Matches
      <4>4. CASE j # k
        BY <1>4, <4>1, <4>2, <4>4 DEF Matches
      <4>. QED  BY <4>3, <4>4
    <3>. QED  BY <3>1, <3>2
  <2>. QED  BY <2>3 DEF PayloadIsKept
<1>20. ProcessedIsRecorded'
  BY <1>5, <1>6, <1>7 DEF ServerInv, ProcessedIsRecorded
<1>21. RegistrantPaysOnce'
  <2>1. post[w].step \notin {"reply"} \cup Replies
    BY <1>12 DEF Replies
  <2>. QED  BY <1>5, <1>7, <2>1 DEF ServerInv, RegistrantPaysOnce
<1>22. RepetitionsPayOnce' /\ WritersRegister'
  BY <1>1, <1>5, <1>6
     DEF ServerInv, RepetitionsPayOnce, WritersRegister, Registers
<1>. QED  BY <1>13, <1>14, <1>15, <1>16, <1>17, <1>18, <1>20, <1>21, <1>22
          DEF ServerInv

\* The same for one field, the other being what it is.
LEMMA TokenWritten ==
  ASSUME ServerInv, NEW w \in Slots, NEW k \in Keys, NEW s \in {"amount", "count"},
         Registers(w, k), Lacks(w, "token"), s = "amount" <=> Lacks(w, "amount"),
         Go(w, s), processed' = processed, retryCounts' = retryCounts,
         knownKeys' = [knownKeys EXCEPT ![k].token = post[w].token]
  PROVE  ServerInv'
<1>. DEFINE t == post[w].token
            a == knownKeys[k].amount
<1>1. knownKeys[k] \in Payment /\ knownKeys \in [Keys -> Payment]
  BY DEF ServerInv, ServerTypeOK
<1>2. t \in Tokens
  BY PostFields DEF ServerInv, Registers, Carries
<1>3. /\ a \in Int
      /\ s = "amount" => a = 0
      /\ s # "amount" => a = post[w].amount
  BY <1>1 DEF Payment, ServerInv, UnreadIsEmpty, Lacks
<1>4. knownKeys' = [knownKeys EXCEPT ![k] = WithPayload(knownKeys[k], t, a)]
  BY <1>1, <1>2, <1>3, WithOneField
<1>. QED  BY <1>2, <1>3, <1>4, WriteKeeps

LEMMA AmountWritten ==
  ASSUME ServerInv, NEW w \in Slots, NEW k \in Keys, NEW s \in {"token", "count"},
         Registers(w, k), Lacks(w, "amount"), s = "token" <=> Lacks(w, "token"),
         Go(w, s), processed' = processed, retryCounts' = retryCounts,
         knownKeys' = [knownKeys EXCEPT ![k].amount = post[w].amount]
  PROVE  ServerInv'
<1>. DEFINE t == knownKeys[k].token
            a == post[w].amount
<1>1. knownKeys[k] \in Payment /\ knownKeys \in [Keys -> Payment]
  BY DEF ServerInv, ServerTypeOK
<1>2. a \in Int
  BY PostFields, PaymentServerAssumption DEF ServerInv, Registers, Carries
<1>3. /\ t \in Tokens \cup {NoToken}
      /\ s = "token" => t = NoToken
      /\ s # "token" => t = post[w].token
  BY <1>1 DEF Payment, ServerInv, UnreadIsEmpty, Lacks
<1>4. knownKeys' = [knownKeys EXCEPT ![k] = WithPayload(knownKeys[k], t, a)]
  BY <1>1, <1>2, <1>3, WithOneField
<1>. QED  BY <1>2, <1>3, <1>4, WriteKeeps

LEMMA ParseKeeps ==
  ASSUME ServerInv, NEW w \in Slots, Parse(w)
  PROVE  ServerInv'
<1>1. /\ post[w].step = "parse" /\ processed' = processed
      /\ retryCounts' = retryCounts
      /\ post[w].new \in BOOLEAN /\ post[w].key \in Keys \cup {NoKey}
  BY PostFields DEF Parse, At, ServerInv
\* The payload is compared, or there is no key.
<1>2. CASE ~post[w].new \/ post[w].key = NoKey
  <2>1. /\ knownKeys' = knownKeys
        /\ \E s \in {"count", "mismatch"} : Go(w, s)
    BY <1>2 DEF Parse
  <2>2. PICK s \in {"count", "mismatch"} :
           Go(w, s) /\ (s = "count" => post[w].key = NoKey \/ IsSamePayload(w))
    BY <1>2 DEF Parse
  <2>3. Moves(w) /\ post' \in [Slots -> Post] /\ post'[w].step = s
    BY <1>1, <2>1, <2>2, OnlyTheStep DEF Steps, Replies, PayloadsStay
  <2>4. MovesOn(w)
    <3>1. NoKey \notin Keys
      BY PaymentServerAssumption
    <3>. QED  BY <1>1, <2>2, <2>3, <3>1 DEF MovesOn, Past, Replies, Moves, IsSamePayload, Matches
  <2>5. LockIsHeld'
    BY <1>1, <2>1, <2>3, LockUntouched DEF Moves, Holds
  <2>6. ServerTypeOK'
    BY <1>1, <2>1, <2>3 DEF ServerInv, ServerTypeOK
  <2>. QED  BY <1>1, <2>3, <2>4, <2>5, <2>6, MovedOn DEF ServerInv
\* The first of the two fields is written.
<1>3. CASE post[w].new /\ post[w].key # NoKey
  <2>. PICK k \in Keys : k = post[w].key
    BY <1>1, <1>3
  <2>1. Registers(w, k) /\ Lacks(w, "token") /\ Lacks(w, "amount")
    BY <1>1, <1>3 DEF Registers, Carries, Lacks
  <2>2. CASE /\ knownKeys' = [knownKeys EXCEPT ![k].token = post[w].token]
             /\ Go(w, "amount")
    BY <1>1, <2>1, <2>2, TokenWritten
  <2>3. CASE /\ knownKeys' = [knownKeys EXCEPT ![k].amount = post[w].amount]
             /\ Go(w, "token")
    BY <1>1, <2>1, <2>3, AmountWritten
  <2>. QED  BY <1>3, <2>2, <2>3, Zenon DEF Parse
<1>. QED  BY <1>1, <1>2, <1>3

LEMMA FinishParseKeeps ==
  ASSUME ServerInv, NEW w \in Slots, FinishParse(w)
  PROVE  ServerInv'
<1>1. /\ post[w].step \in {"token", "amount"} /\ processed' = processed
      /\ retryCounts' = retryCounts /\ Go(w, "count")
  BY DEF FinishParse, At
<1>. PICK k \in Keys : k = post[w].key /\ Registers(w, k)
  BY <1>1 DEF ServerInv, WritersRegister, Registers, Carries
<1>2. CASE /\ post[w].step = "token"
           /\ knownKeys' = [knownKeys EXCEPT ![k].token = post[w].token]
  BY <1>1, <1>2, TokenWritten DEF Lacks
<1>3. CASE /\ post[w].step = "amount"
           /\ knownKeys' = [knownKeys EXCEPT ![k].amount = post[w].amount]
  BY <1>1, <1>3, AmountWritten DEF Lacks
<1>. QED  BY <1>2, <1>3, Zenon DEF FinishParse, At

\* A repetition that paid found nothing on record; the registrant, which did not
\* look, is the only one.
LEMMA ProcessKeeps ==
  ASSUME ServerInv, NEW w \in Slots, Process(w)
  PROVE  ServerInv'
<1>1. /\ post[w].step = "process" /\ Go(w, "reply") /\ post \in [Slots -> Post]
      /\ retryCounts' = retryCounts /\ knownKeys \in [Keys -> Payment]
      /\ post[w] \in [step : Steps, key : Keys \cup {NoKey}, token : Tokens,
                      amount : Amounts, new : BOOLEAN, count : Int]
  BY PostFields DEF Process, At, ServerInv, ServerTypeOK
<1>0. /\ PayloadsStay(w) /\ knownKeys' \in [Keys -> Payment]
      /\ \A k \in Keys : knownKeys'[k].locked = knownKeys[k].locked
  <2>1. CASE knownKeys' = knownKeys
    BY <1>1, <2>1 DEF PayloadsStay
  <2>2. CASE /\ post[w].key # NoKey
             /\ knownKeys' = [knownKeys EXCEPT ![post[w].key].status =
                                Verdict(knownKeys[post[w].key].token)]
    <3>1. PICK b \in {"ok", "refused"} : b = Verdict(knownKeys[post[w].key].token)
      BY DEF Verdict
    <3>. QED  BY <1>1, <2>2, <3>1, StatusIsSet
  <2>. QED  BY <2>1, <2>2 DEF Process
<1>2. Moves(w) /\ post' \in [Slots -> Post] /\ post'[w].step = "reply"
  BY <1>0, <1>1, OnlyTheStep DEF Steps, Replies
<1>3. LockIsHeld'
  BY <1>0, <1>1, <1>2, LockUntouched DEF Moves, Holds
<1>4. CASE AlreadyProcessed(w)
  <2>1. processed' = processed
    BY <1>4 DEF Process
  <2>2. Recorded(w)
    <3>1. PICK i \in DOMAIN processed : processed[i].key = post[w].key
      BY <1>4 DEF AlreadyProcessed
    <3>2. PICK k \in Keys : k = post[w].key
      BY <1>1, <1>4 DEF AlreadyProcessed, Carries, ServerInv, KeylessAreNew
    <3>. QED  BY <3>1, <3>2, PaymentServerAssumption DEF Recorded
  <2>3. MovesOn(w)
    BY <1>1, <1>2, <2>2 DEF MovesOn, Past, Replies, Moves, ServerInv, PayloadIsKept
  <2>4. ServerTypeOK'
    BY <1>0, <1>1, <1>2, <2>1 DEF ServerInv, ServerTypeOK
  <2>. QED  BY <1>2, <1>3, <2>1, <2>3, <2>4, MovedOn DEF ServerInv
<1>5. CASE ~AlreadyProcessed(w)
  <2>. DEFINE Row == [key : Keys \cup {NoKey}, token : Tokens,
                      amount : Amounts, new : BOOLEAN]
              n == Len(processed) + 1
  <2>. PICK r \in Row : r = [key |-> post[w].key, token |-> post[w].token,
                            amount |-> post[w].amount, new |-> post[w].new]
    BY <1>1
  <2>1. processed \in Seq(Row) /\ processed' = Append(processed, r)
    BY <1>5 DEF Process, ServerInv, ServerTypeOK
  <2>2. /\ r.key = post[w].key /\ r.token = post[w].token
        /\ r.amount = post[w].amount /\ r.new = post[w].new
    OBVIOUS
  <2>. HIDE DEF Row
  <2>3. /\ processed' \in Seq(Row) /\ DOMAIN processed' = DOMAIN processed \cup {n}
        /\ \A i \in DOMAIN processed : processed'[i] = processed[i]
        /\ processed'[n] = r
        /\ DOMAIN processed \subseteq Int /\ n \in Int
        /\ \A i \in DOMAIN processed : i < n
    BY <2>1, Appended
  <2>4. ServerTypeOK'
    BY <1>0, <1>1, <1>2, <2>3 DEF ServerInv, ServerTypeOK, Row
  <2>5. \A v \in Slots : \A k :
            /\ Carries(v, k)' <=> Carries(v, k)
            /\ Registers(v, k)' <=> Registers(v, k)
            /\ post'[v].token = post[v].token
            /\ post'[v].amount = post[v].amount
            /\ post'[v].key = post[v].key
            /\ post'[v].new = post[v].new
    BY <1>2 DEF Moves, Carries, Registers
  <2>6. \A v \in Slots : \A k : Past(v, k)' <=> Past(v, k)
    BY <1>1, <1>2 DEF Moves, Past
  <2>. HIDE DEF n
  <2>7. KeylessAreNew' /\ OneRegistrant'
    BY <1>2, <2>5 DEF ServerInv, KeylessAreNew, OneRegistrant, Moves
  <2>8. KeysAreKnown'
    <3>1. Carries(w, r.key)
      BY <1>1, <2>2 DEF Carries
    <3>. QED  BY <1>0, <1>1, <2>3, <2>5, <3>1 DEF ServerInv, KeysAreKnown, PayloadsStay
  <2>9. UnreadIsEmpty' /\ WritersRegister'
    BY <1>0, <1>1, <1>2, <2>5
       DEF ServerInv, UnreadIsEmpty, WritersRegister, Moves, Lacks, PayloadsStay
  <2>10. PayloadIsKept'
    <3>1. \A v \in Slots, k \in Keys : Matches(v, k) => Matches(v, k)'
      BY <1>0, <2>5 DEF Matches, PayloadsStay
    <3>. QED  BY <2>6, <3>1 DEF ServerInv, PayloadIsKept
  <2>12. ProcessedIsRecorded'
    <3>1. Recorded(w)'
      BY <2>2, <2>3, <2>5 DEF Recorded
    <3>2. \A v \in Slots : Recorded(v) => Recorded(v)'
      BY <2>3, <2>5 DEF Recorded
    <3>. QED  BY <1>2, <3>1, <3>2 DEF ServerInv, ProcessedIsRecorded, Moves
  <2>13. ASSUME NEW k \in Keys, r.key = k
         PROVE  /\ r.new => Registers(w, k)
                /\ ~r.new => \A i \in DOMAIN processed : processed[i].key # k
                /\ \A i \in DOMAIN processed :
                     processed[i].key = k /\ processed[i].new => ~r.new
    <3>1. r.new => Registers(w, k)
      BY <1>1, <2>2, <2>13 DEF Registers, Carries
    <3>2. ~r.new => \A i \in DOMAIN processed : processed[i].key # k
      BY <1>5, <2>2, <2>13 DEF AlreadyProcessed
    <3>3. \A i \in DOMAIN processed :
            processed[i].key = k /\ processed[i].new => ~Registers(w, k)
      BY <1>1 DEF ServerInv, RegistrantPaysOnce, Replies
    <3>. QED  BY <3>1, <3>2, <3>3
  <2>14. RegistrantPaysOnce'
    <3>. SUFFICES ASSUME NEW k \in Keys, NEW v \in Slots, NEW i \in DOMAIN processed',
                         Registers(v, k)', processed'[i].key = k, processed'[i].new
                  PROVE  post'[v].step \in {"reply"} \cup Replies
      BY DEF RegistrantPaysOnce
    <3>1. CASE v = w
      BY <1>2, <3>1
    <3>2. CASE v # w
      <4>1. Registers(v, k) /\ post'[v] = post[v]
        BY <1>2, <2>5, <3>2 DEF Moves
      <4>2. i # n
        BY <2>3, <2>13, <3>2, <4>1 DEF ServerInv, OneRegistrant
      <4>. QED  BY <2>3, <4>1, <4>2 DEF ServerInv, RegistrantPaysOnce
    <3>. QED  BY <3>1, <3>2
  <2>15. RepetitionsPayOnce'
    <3>. SUFFICES ASSUME NEW i \in DOMAIN processed', NEW j \in DOMAIN processed',
                         i < j, processed'[i].key # NoKey,
                         processed'[i].key = processed'[j].key
                  PROVE  ~processed'[i].new /\ processed'[j].new
      BY DEF RepetitionsPayOnce
    <3>1. i \in DOMAIN processed
      BY <2>3
    <3>2. CASE j = n
      <4>1. PICK k \in Keys : k = r.key
        BY <2>3, <3>2 DEF Row
      <4>. QED  BY <2>3, <2>13, <3>1, <3>2, <4>1
    <3>3. CASE j # n
      BY <2>3, <3>1, <3>3 DEF ServerInv, RepetitionsPayOnce
    <3>. QED  BY <3>2, <3>3
  <2>. QED  BY <1>3, <2>4, <2>7, <2>8, <2>9, <2>10, <2>12, <2>14, <2>15
            DEF ServerInv
<1>. QED  BY <1>4, <1>5

-----------------------------------------------------------------------------
(* The theorems.                                                           *)

LEMMA ServerInitInv == ServerInit => ServerInv
<1>. SUFFICES ASSUME ServerInit
              PROVE  ServerInv
  OBVIOUS
<1>. DEFINE Row == [key : Keys \cup {NoKey}, token : Tokens,
                    amount : Amounts, new : BOOLEAN]
<1>1. processed = <<>> /\ DOMAIN processed = {} /\ processed \in Seq(Row)
  <2>. HIDE DEF Row
  <2>. QED  BY DEF ServerInit
<1>2. /\ knownKeys \in [Keys -> Payment]
      /\ \A k \in Keys : knownKeys[k].locked = FALSE
  <2>1. NewPayment \in Payment /\ NewPayment.locked = FALSE
    BY DEF NewPayment, Payment
  <2>2. ASSUME NEW p \in Payment, p.locked = FALSE
        PROVE  /\ [p EXCEPT !.known = FALSE] \in Payment
               /\ [p EXCEPT !.known = FALSE].locked = FALSE
    BY <2>2, Zenon DEF Payment
  <2>3. PICK p \in Payment : p = [NewPayment EXCEPT !.known = FALSE] /\ p.locked = FALSE
    BY <2>1, <2>2
  <2>4. knownKeys = [k \in Keys |-> p]
    BY <2>3 DEF ServerInit
  <2>. QED  BY <2>3, <2>4
<1>3. \A w \in Slots : post[w] = Idle /\ post[w].step = "idle"
  BY DEF ServerInit, Idle
<1>4. ServerTypeOK
  <2>1. post \in [Slots -> Post] /\ retryCounts \in [Tokens -> Int]
    <3>1. Idle \in Post /\ -1 \in Int
      BY DEF Post
    <3>. QED  BY <3>1 DEF ServerInit
  <2>. QED  BY Zenon, <1>1, <1>2, <2>1 DEF ServerTypeOK
<1>5. \A w \in Slots : \A k : ~Carries(w, k) /\ ~Past(w, k) /\ ~Holds(w, k)
  BY <1>3 DEF Carries, Past, Holds
<1>6. KeylessAreNew /\ KeysAreKnown /\ LockIsHeld /\ OneRegistrant
  BY <1>1, <1>2, <1>5
     DEF KeylessAreNew, KeysAreKnown, LockIsHeld, OneRegistrant, Registers
<1>7. UnreadIsEmpty /\ PayloadIsKept
  BY <1>1, <1>5 DEF UnreadIsEmpty, PayloadIsKept, Registers
<1>8. /\ ProcessedIsRecorded /\ RegistrantPaysOnce /\ RepetitionsPayOnce
      /\ WritersRegister
  BY <1>1, <1>3
     DEF ProcessedIsRecorded, RegistrantPaysOnce, RepetitionsPayOnce, WritersRegister
<1>. QED  BY <1>4, <1>6, <1>7, <1>8 DEF ServerInv

LEMMA ServerNextKeeps == ServerInv /\ [ServerNext]_serverVars => ServerInv'
<1>. SUFFICES ASSUME ServerInv, [ServerNext]_serverVars
              PROVE  ServerInv'
  OBVIOUS
<1>1. CASE UNCHANGED serverVars
  <2>1. /\ knownKeys' = knownKeys /\ processed' = processed
        /\ retryCounts' = retryCounts /\ post' = post
    BY <1>1 DEF serverVars
  <2>. QED
    BY <2>1
    DEF ServerInv, ServerTypeOK, KeylessAreNew, KeysAreKnown, LockIsHeld,
        OneRegistrant, UnreadIsEmpty, WritersRegister, PayloadIsKept,
        ProcessedIsRecorded, RegistrantPaysOnce, RepetitionsPayOnce,
        Carries, Past, Holds, Registers, Recorded, Lacks, Matches
<1>2. ASSUME NEW w \in Slots, Send(w)
      PROVE  ServerInv'
  BY <1>2, ReceiveKeeps DEF Send
<1>3. ASSUME NEW w \in Slots, Handle(w)
      PROVE  ServerInv'
  BY <1>3, MalformedKeeps, ParseKeeps, FinishParseKeeps, ReadCountKeeps,
     DrawKeeps, LockKeeps, ProcessKeeps, ReplyKeeps DEF Handle
<1>4. ASSUME NEW w \in Slots, Answered(w)
      PROVE  ServerInv'
  BY <1>4, AnsweredKeeps
<1>. QED  BY <1>1, <1>2, <1>3, <1>4 DEF ServerNext

LEMMA ServerInvariant == ServerSpec => []ServerInv
  BY ServerInitInv, ServerNextKeeps, PTL DEF ServerSpec

\* PostPaymentsHandler: the lock of a key is taken exactly while one request is
\* between Lock and Reply, however many requests carry the key.
THEOREM LockCorrect == ServerSpec => []LockMeansProcessing
<1>1. ServerInv => LockMeansProcessing
  <2>. SUFFICES ASSUME ServerInv, NEW k \in Keys
                PROVE  Cardinality({w \in Slots : Holds(w, k)})
                         = IF knownKeys[k].locked THEN 1 ELSE 0
    BY Zenon DEF LockMeansProcessing, Holds
  <2>1. CASE knownKeys[k].locked
    <3>1. PICK w \in Slots : Holds(w, k)
      BY <2>1 DEF ServerInv, LockIsHeld
    <3>2. {v \in Slots : Holds(v, k)} = {w}
      BY <3>1 DEF ServerInv, LockIsHeld
    <3>. QED  BY <2>1, <3>2, FS_Singleton
  <2>2. CASE ~knownKeys[k].locked
    <3>1. {v \in Slots : Holds(v, k)} = {}
      BY <2>2 DEF ServerInv, LockIsHeld
    <3>. QED  BY <2>2, <3>1, FS_EmptySet
  <2>. QED  BY <2>1, <2>2
<1>. QED  BY <1>1, ServerInvariant, PTL

\* PostPaymentsHandler: a 204 means that a payment with the key is on record and
\* has the token and the amount of the request, but for what a repetition left
\* empty, for any tokens and amounts and although IsSamePayload may read a
\* payload that is half written.
THEOREM OkCorrect == ServerSpec => []OkMeansPaid
<1>1. ServerInv => OkMeansPaid
  <2>. SUFFICES ASSUME ServerInv, NEW w \in Slots, post[w].step = "ok"
                PROVE  \E i \in DOMAIN processed :
                         processed[i].key = post[w].key /\ Agrees(w, i)
    BY Zenon DEF OkMeansPaid, At
  <2>1. PICK i \in DOMAIN processed :
            /\ processed[i].key = post[w].key
            /\ post[w].key = NoKey => /\ processed[i].token = post[w].token
                                      /\ processed[i].amount = post[w].amount
    BY DEF ServerInv, ProcessedIsRecorded, Recorded
  <2>2. CASE post[w].key = NoKey
    BY <2>1, <2>2, PaymentServerAssumption DEF Agrees, Payload
  <2>3. CASE post[w].key # NoKey
    <3>1. PICK k \in Keys : k = post[w].key
      BY <2>3, PostFields DEF ServerInv
    <3>2. Matches(w, k)
      BY <3>1 DEF ServerInv, PayloadIsKept, Past
    <3>. QED  BY <2>1, <3>1, <3>2 DEF Agrees, Payload, Matches
  <2>. QED  BY <2>2, <2>3
<1>. QED  BY <1>1, ServerInvariant, PTL

\* PostPaymentsHandler: the search for an earlier payment keeps every request
\* that repeats a key from paying after another one.
THEOREM RepetitionsCorrect == ServerSpec => []RepetitionsPayOnce
<1>1. ServerInv => RepetitionsPayOnce
  BY DEF ServerInv
<1>. QED  BY <1>1, ServerInvariant, PTL

\* The variables keep their types.
THEOREM ServerTypesCorrect == ServerSpec => []ServerTypeOK
<1>1. ServerInv => ServerTypeOK
  BY DEF ServerInv
<1>. QED  BY <1>1, ServerInvariant, PTL
=============================================================================
