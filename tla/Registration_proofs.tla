------------------------ MODULE Registration_proofs ------------------------
(***************************************************************************)
(* What the locking scan of a registration guarantees, for any number of   *)
(* users, any limit and any number of failures.                            *)
(*                                                                         *)
(* The argument: from its scan until its end a transaction is the only one *)
(* that has scanned, and only such a transaction commits an invitation or  *)
(* a reward, so that what it read of the table is still true when it       *)
(* commits.                                                                *)
(***************************************************************************)
EXTENDS Registration, FiniteSetTheorems, TLAPS

-----------------------------------------------------------------------------
(* The invariant.                                                          *)

\* From its scan until its end.
Scanning(w) ==
  \/ w.step \in {"check", "grant"}
  \/ w.step = "commit" /\ w.code # NoCode

\* Whoever has a request in progress is not registered yet; its transaction has
\* inserted what its step says; what Check and Grant found is still true.
Fits(u, w) ==
  /\ w # Idle => u \notin users
  /\ w.step = "insert" => w.rows = {}
  /\ w.step \in {"scan", "check", "grant"} => w.rows = {Own(u)} /\ w.code # NoCode
  /\ w.step = "commit" /\ w.code = NoCode => w.rows = {Own(u)}
  /\ w.step = "commit" /\ w.code # NoCode =>
       \E ms \in Millis :
         /\ w.rows = {Own(u), Invitation(u, w.code), Reward(w.code, ms)}
         /\ Reward(w.code, ms) \notin coupons
  /\ w.step \in {"grant", "commit"} /\ w.code # NoCode =>
       w.code \in users /\ ~UsedUp(w.code)

RequestsFit == \A u \in Users : Fits(u, request[u])

OneScan ==
  \A u, v \in Users : Scanning(request[u]) /\ Scanning(request[v]) => u = v

RegistrationInv ==
  /\ TypeOK /\ IsFiniteSet(coupons)
  /\ RequestsFit /\ OneScan
  /\ InvitationLimit /\ RewardPerInvitation /\ InvitedByRegistered

-----------------------------------------------------------------------------
(* Lemmas.                                                                 *)

Steps == {"insert", "scan", "check", "grant", "commit"}
RowSets == SUBSET CouponKey
InProgress == [step : Steps, code : Users \cup {NoCode}, rows : RowSets]

\* A request in progress is a record of its fields.
LEMMA RequestFields ==
  ASSUME NEW w \in Request
  PROVE  /\ w = Idle <=> w.step = "idle"
         /\ w # Idle => w \in InProgress
BY DEF Request, Idle, InProgress, Steps, RowSets

\* The rows of a registration are coupons.
LEMMA RowTypes ==
  ASSUME NEW u \in Users, NEW c \in Users, NEW ms \in Millis
  PROVE  /\ Own(u) \in CouponKey
         /\ Invitation(u, c) \in CouponKey
         /\ Reward(c, ms) \in CouponKey
BY DEF Own, Invitation, Reward, CouponKey, Code

\* Only a request that has scanned holds a table that others wait for.
LEMMA ScannedIsScanning ==
  ASSUME NEW u \in Users
  PROVE  Scanned(u) <=> Scanning(request[u])
BY DEF Scanned, Scanning, At

\* A step that changes one request and no table, to one that fits.
LEMMA OneRequest ==
  ASSUME RegistrationInv, NEW u \in Users, NEW w \in Request,
         request' = [request EXCEPT ![u] = w],
         UNCHANGED <<users, coupons>>, errors' \in 0 .. MaxErrors,
         Fits(u, w),
         Scanning(w) => \A v \in Users \ {u} : ~Scanning(request[v])
  PROVE  RegistrationInv'
<1>1. TypeOK'
  BY DEF RegistrationInv, TypeOK
<1>2. \A v \in Users : request'[v] = IF v = u THEN w ELSE request[v]
  BY DEF RegistrationInv, TypeOK
<1>3. RequestsFit'
  <2>. SUFFICES ASSUME NEW v \in Users
                PROVE  Fits(v, request[v])'
    BY DEF RequestsFit
  <2>1. Fits(v, request'[v])
    BY <1>2 DEF RegistrationInv, RequestsFit
  <2>. QED
    BY <2>1 DEF Fits, UsedUp, Invitations
<1>4. OneScan'
  BY <1>2 DEF RegistrationInv, OneScan
<1>5. /\ IsFiniteSet(coupons') /\ InvitationLimit'
      /\ RewardPerInvitation' /\ InvitedByRegistered'
  BY DEF RegistrationInv, InvitationLimit, RewardPerInvitation, InvitedByRegistered,
         Invitations, Rewards
<1>. QED
  BY <1>1, <1>3, <1>4, <1>5 DEF RegistrationInv

\* A request that ends always fits.
LEMMA IdleFits ==
  ASSUME NEW u \in Users
  PROVE  Idle \in Request /\ Fits(u, Idle) /\ ~Scanning(Idle)
BY DEF Idle, Request, Fits, Scanning

-----------------------------------------------------------------------------
(* Every action.                                                           *)

\* Requests that end without a commit: refused, rolled back or a victim.
LEMMA EndKeeps ==
  ASSUME RegistrationInv, NEW u \in Users,
         request' = [request EXCEPT ![u] = Idle],
         UNCHANGED <<users, coupons>>, errors' \in 0 .. MaxErrors
  PROVE  RegistrationInv'
BY IdleFits, OneRequest

LEMMA BeginKeeps ==
  ASSUME RegistrationInv, NEW u \in Users, NEW code \in Users \cup {NoCode}, Begin(u, code)
  PROVE  RegistrationInv'
<1>1. PICK w : w = [step |-> "insert", code |-> code, rows |-> {}]
  OBVIOUS
<1>2. w \in Request
  BY <1>1 DEF Request
<1>3. Fits(u, w) /\ ~Scanning(w)
  BY <1>1 DEF Begin, Fits, Scanning
<1>4. errors' \in 0 .. MaxErrors
  BY DEF Begin, RegistrationInv, TypeOK
<1>. QED
  BY <1>1, <1>2, <1>3, <1>4, OneRequest DEF Begin

\* A request after a step, and after a step that inserts rows.
Stepped(w, step) == [w EXCEPT !.step = step]
Inserted(w, step, rows) == Stepped([w EXCEPT !.rows = rows], step)

LEMMA SteppedFields ==
  ASSUME NEW w \in InProgress, NEW step \in Steps
  PROVE  /\ Stepped(w, step) \in InProgress
         /\ Stepped(w, step) \in Request
         /\ Stepped(w, step) # Idle
         /\ Stepped(w, step).step = step
         /\ Stepped(w, step).code = w.code
         /\ Stepped(w, step).rows = w.rows
<1>1. /\ Stepped(w, step) \in InProgress
      /\ Stepped(w, step).step = step
      /\ Stepped(w, step).code = w.code
      /\ Stepped(w, step).rows = w.rows
  BY DEF Stepped, InProgress
<1>2. Stepped(w, step) \in Request
  BY <1>1 DEF Request, InProgress, Steps, RowSets
<1>3. Stepped(w, step) # Idle
  BY <1>1, <1>2, RequestFields DEF Steps
<1>. QED
  BY <1>1, <1>2, <1>3, Zenon

LEMMA InsertedFields ==
  ASSUME NEW w \in InProgress, NEW step \in Steps, NEW rows \in RowSets
  PROVE  /\ Inserted(w, step, rows) \in Request
         /\ Inserted(w, step, rows) # Idle
         /\ Inserted(w, step, rows).step = step
         /\ Inserted(w, step, rows).code = w.code
         /\ Inserted(w, step, rows).rows = rows
<1>1. PICK mid \in InProgress : /\ mid = [w EXCEPT !.rows = rows]
                                /\ mid.code = w.code /\ mid.rows = rows
  <2>1. /\ [w EXCEPT !.rows = rows] \in InProgress
        /\ [w EXCEPT !.rows = rows].code = w.code
        /\ [w EXCEPT !.rows = rows].rows = rows
    BY DEF InProgress
  <2>. QED  BY <2>1, Zenon
<1>2. Inserted(w, step, rows) = Stepped(mid, step)
  BY <1>1, Zenon DEF Inserted
<1>3. /\ Stepped(mid, step) \in Request /\ Stepped(mid, step) # Idle
      /\ Stepped(mid, step).step = step
      /\ Stepped(mid, step).code = mid.code /\ Stepped(mid, step).rows = mid.rows
  BY SteppedFields, Zenon
<1>. QED
  BY <1>1, <1>2, <1>3

LEMMA InsertOwnKeeps ==
  ASSUME RegistrationInv, NEW u \in Users, InsertOwn(u)
  PROVE  RegistrationInv'
<1>1. request[u] # Idle
  BY RequestFields DEF InsertOwn, At, Idle
<1>2. PICK step \in {"scan", "commit"} :
        /\ step = IF request[u].code = NoCode THEN "commit" ELSE "scan"
        /\ request' = [request EXCEPT ![u].rows = {Own(u)}, ![u].step = step]
  BY DEF InsertOwn
<1>3. request[u] \in InProgress
  BY <1>1, RequestFields DEF RegistrationInv, TypeOK
<1>4. request' = [request EXCEPT ![u] = Inserted(request[u], step, {Own(u)})]
  BY <1>2 DEF RegistrationInv, TypeOK, Inserted, Stepped
<1>5. PICK w \in Request :
        /\ w # Idle /\ w.step = step /\ w.code = request[u].code /\ w.rows = {Own(u)}
        /\ request' = [request EXCEPT ![u] = w]
  <2>1. {Own(u)} \in RowSets
    BY DEF Own, CouponKey, Code, RowSets
  <2>2. step \in Steps
    BY DEF Steps
  <2>3. /\ Inserted(request[u], step, {Own(u)}) \in Request
        /\ Inserted(request[u], step, {Own(u)}) # Idle
        /\ Inserted(request[u], step, {Own(u)}).step = step
        /\ Inserted(request[u], step, {Own(u)}).code = request[u].code
        /\ Inserted(request[u], step, {Own(u)}).rows = {Own(u)}
    BY <1>3, <2>1, <2>2, InsertedFields
  <2>. QED
    BY <1>4, <2>3, Zenon
<1>6. Fits(u, w) /\ ~Scanning(w)
  BY <1>1, <1>2, <1>5 DEF RegistrationInv, RequestsFit, Fits, Scanning
<1>7. UNCHANGED <<users, coupons>> /\ errors' \in 0 .. MaxErrors
  BY DEF InsertOwn, RegistrationInv, TypeOK
<1>. QED
  BY <1>5, <1>6, <1>7, OneRequest

\* The scan waits for the rows of every other transaction, and one that has
\* scanned has rows.
LEMMA ScanKeeps ==
  ASSUME RegistrationInv, NEW u \in Users, Scan(u)
  PROVE  RegistrationInv'
<1>1. request[u] # Idle /\ request[u].step = "scan"
  BY RequestFields DEF Scan, At, Idle
<1>2. PICK w \in Request :
        /\ w # Idle /\ w.step = "check"
        /\ w.code = request[u].code /\ w.rows = request[u].rows
        /\ request' = [request EXCEPT ![u] = w]
  <2>1. request[u] \in InProgress /\ "check" \in Steps
    BY <1>1, RequestFields DEF RegistrationInv, TypeOK, Steps
  <2>2. request' = [request EXCEPT ![u] = Stepped(request[u], "check")]
    BY DEF Scan, Go, RegistrationInv, TypeOK, Stepped
  <2>. QED
    BY <2>1, <2>2, SteppedFields, Zenon
<1>3. Fits(u, w)
  BY <1>1, <1>2 DEF RegistrationInv, RequestsFit, Fits
<1>4. \A v \in Users \ {u} : ~Scanning(request[v])
  <2>. SUFFICES ASSUME NEW v \in Users \ {u}, Scanning(request[v])
                PROVE  Uncommitted(v)
    BY DEF Scan
  <2>1. request[v] # Idle
    BY RequestFields DEF Scanning, Idle
  <2>2. request[v].rows # {}
    BY DEF Scanning, RegistrationInv, RequestsFit, Fits
  <2>. QED
    BY <2>1, <2>2 DEF Uncommitted
<1>5. UNCHANGED <<users, coupons>> /\ errors' \in 0 .. MaxErrors
  BY DEF Scan, RegistrationInv, TypeOK
<1>. QED
  BY <1>2, <1>3, <1>4, <1>5, OneRequest

LEMMA CheckKeeps ==
  ASSUME RegistrationInv, NEW u \in Users, Check(u)
  PROVE  RegistrationInv'
<1>1. request[u] # Idle /\ request[u].step = "check"
  BY RequestFields DEF Check, At, Idle
<1>2. UNCHANGED <<users, coupons>> /\ errors' \in 0 .. MaxErrors
  BY DEF Check, RegistrationInv, TypeOK
<1>3. CASE UsedUp(request[u].code) \/ request[u].code \notin users
  BY <1>2, <1>3, EndKeeps DEF Check
<1>4. CASE ~UsedUp(request[u].code) /\ request[u].code \in users
  <2>1. PICK w \in Request :
          /\ w # Idle /\ w.step = "grant"
          /\ w.code = request[u].code /\ w.rows = request[u].rows
          /\ request' = [request EXCEPT ![u] = w]
    <3>1. request[u] \in InProgress /\ "grant" \in Steps
      BY <1>1, RequestFields DEF RegistrationInv, TypeOK, Steps
    <3>2. request' = [request EXCEPT ![u] = Stepped(request[u], "grant")]
      BY <1>4 DEF Check, Go, RegistrationInv, TypeOK, Stepped
    <3>. QED
      BY <3>1, <3>2, SteppedFields, Zenon
  <2>2. Fits(u, w)
    BY <1>1, <1>4, <2>1 DEF RegistrationInv, RequestsFit, Fits
  <2>3. \A v \in Users \ {u} : ~Scanning(request[v])
    BY <1>1 DEF RegistrationInv, OneScan, Scanning
  <2>. QED
    BY <1>2, <2>1, <2>2, <2>3, OneRequest
<1>. QED
  BY <1>3, <1>4

LEMMA GrantKeeps ==
  ASSUME RegistrationInv, NEW u \in Users, Grant(u)
  PROVE  RegistrationInv'
<1>1. request[u] # Idle /\ request[u].step = "grant"
  BY RequestFields DEF Grant, At, Idle
<1>2. UNCHANGED <<users, coupons>> /\ errors' \in 0 .. MaxErrors
  BY DEF Grant, RegistrationInv, TypeOK
<1>3. PICK code \in Users : code = request[u].code /\ code # NoCode
  BY <1>1, RequestFields DEF RegistrationInv, TypeOK, RequestsFit, Fits, InProgress
<1>4. PICK ms \in Millis :
        request' = IF Reward(code, ms) \in coupons
                   THEN [request EXCEPT ![u] = Idle]
                   ELSE [request EXCEPT
                           ![u].rows = @ \cup {Invitation(u, code), Reward(code, ms)},
                           ![u].step = "commit"]
  BY <1>3 DEF Grant
<1>5. CASE Reward(code, ms) \in coupons
  BY <1>2, <1>4, <1>5, EndKeeps
<1>6. CASE Reward(code, ms) \notin coupons
  <2>1. PICK rows \in RowSets :
          /\ rows = {Own(u), Invitation(u, code), Reward(code, ms)}
          /\ rows = request[u].rows \cup {Invitation(u, code), Reward(code, ms)}
    <3>1. request[u].rows = {Own(u)}
      BY <1>1 DEF RegistrationInv, RequestsFit, Fits
    <3>2. {Own(u), Invitation(u, code), Reward(code, ms)} \in RowSets
      BY RowTypes DEF RowSets
    <3>. QED
      BY <3>1, <3>2
  <2>2. request[u] \in InProgress
    BY <1>1, RequestFields DEF RegistrationInv, TypeOK
  <2>3. request' = [request EXCEPT ![u] = Inserted(request[u], "commit", rows)]
    BY <1>4, <1>6, <2>1 DEF RegistrationInv, TypeOK, Inserted, Stepped
  <2>4. PICK w \in Request :
          /\ w # Idle /\ w.step = "commit" /\ w.code = request[u].code /\ w.rows = rows
          /\ request' = [request EXCEPT ![u] = w]
    <3>1. "commit" \in Steps
      BY DEF Steps
    <3>2. /\ Inserted(request[u], "commit", rows) \in Request
          /\ Inserted(request[u], "commit", rows) # Idle
          /\ Inserted(request[u], "commit", rows).step = "commit"
          /\ Inserted(request[u], "commit", rows).code = request[u].code
          /\ Inserted(request[u], "commit", rows).rows = rows
      BY <2>2, <3>1, InsertedFields
    <3>. QED
      BY <2>3, <3>2, Zenon
  <2>5. Fits(u, w)
    BY <1>1, <1>3, <1>6, <2>1, <2>4 DEF RegistrationInv, RequestsFit, Fits
  <2>6. \A v \in Users \ {u} : ~Scanning(request[v])
    BY <1>1 DEF RegistrationInv, OneScan, Scanning
  <2>. QED
    BY <1>2, <2>4, <2>5, <2>6, OneRequest
<1>. QED
  BY <1>5, <1>6

-----------------------------------------------------------------------------
(* Commit.                                                                 *)

\* What a commit without a code leaves of invitations and rewards: all.
LEMMA PlainRows ==
  ASSUME NEW u \in Users, coupons' = coupons \cup {Own(u)}, NEW c \in Users
  PROVE  Invitations(c)' = Invitations(c) /\ Rewards(c)' = Rewards(c)
BY DEF Own, Invitations, Rewards

\* A commit with one adds an invitation and a reward, of this code only.
LEMMA InvitationRows ==
  ASSUME NEW u \in Users, NEW code \in Users, NEW ms \in Millis,
         coupons' = coupons \cup {Own(u), Invitation(u, code), Reward(code, ms)},
         NEW c \in Users
  PROVE  /\ Invitations(c)' = Invitations(c) \cup (IF c = code THEN {Invitation(u, code)} ELSE {})
         /\ Rewards(c)' = Rewards(c) \cup (IF c = code THEN {Reward(code, ms)} ELSE {})
BY DEF Own, Invitation, Reward, Invitations, Rewards

LEMMA SubsetsFinite ==
  ASSUME IsFiniteSet(coupons), NEW c
  PROVE  /\ IsFiniteSet(Invitations(c)) /\ IsFiniteSet(Rewards(c))
         /\ Cardinality(Invitations(c)) \in Nat /\ Cardinality(Rewards(c)) \in Nat
<1>1. Invitations(c) \in SUBSET coupons /\ Rewards(c) \in SUBSET coupons
  BY DEF Invitations, Rewards
<1>. QED
  BY <1>1, FS_Subset, FS_CardinalityType

\* The request that commits is Idle afterwards, the others are as they were.
LEMMA CommitRequests ==
  ASSUME RegistrationInv, NEW u \in Users, Commit(u)
  PROVE  /\ request' \in [Users -> Request]
         /\ request'[u] = Idle
         /\ \A v \in Users \ {u} : request'[v] = request[v]
BY DEF RegistrationInv, TypeOK, Commit, Request

\* The other requests still fit if the rows are none of what they have read.
LEMMA CommitFits ==
  ASSUME RegistrationInv, NEW u \in Users, Commit(u),
         \A v \in Users \ {u}, c \in Users :
           Scanning(request[v]) /\ request[v].code = c =>
             /\ UsedUp(c)' <=> UsedUp(c)
             /\ \A ms \in Millis : Reward(c, ms) \in coupons' <=> Reward(c, ms) \in coupons
  PROVE  RequestsFit'
<1>. SUFFICES ASSUME NEW v \in Users
              PROVE  Fits(v, request[v])'
  BY DEF RequestsFit
<1>1. CASE v = u
  <2>1. request'[v] = Idle
    BY <1>1, CommitRequests
  <2>. QED
    BY <2>1 DEF Fits, Idle
<1>2. CASE v # u
  <2>1. PICK w \in Request : w = request[v] /\ w = request'[v]
    BY <1>2, CommitRequests DEF RegistrationInv, TypeOK
  <2>2. Fits(v, w)
    BY <2>1 DEF RegistrationInv, RequestsFit
  <2>3. w # Idle => v \notin users'
    BY <1>2, <2>2 DEF Fits, Commit
  <2>4. w.step \in {"scan", "check", "grant", "commit", "insert"} => w.code \in Users \cup {NoCode}
    BY RequestFields DEF InProgress, Idle
  <2>5. CASE Scanning(w) /\ w.code # NoCode
    <3>1. PICK c \in Users : c = w.code
      BY <2>4, <2>5 DEF Scanning
    <3>2. /\ UsedUp(c)' <=> UsedUp(c)
          /\ \A ms \in Millis : Reward(c, ms) \in coupons' <=> Reward(c, ms) \in coupons
      BY <1>2, <2>1, <2>5, <3>1
    <3>3. users \subseteq users'
      BY DEF Commit
    <3>4. /\ w.step \in {"grant", "commit"} => c \in users' /\ ~UsedUp(c)'
          /\ w.step = "commit" =>
               \E ms \in Millis : /\ w.rows = {Own(v), Invitation(v, c), Reward(c, ms)}
                                  /\ Reward(c, ms) \notin coupons'
      BY <2>2, <2>5, <3>1, <3>2, <3>3 DEF Fits
    <3>. QED
      BY <2>1, <2>2, <2>3, <2>5, <3>1, <3>4 DEF Fits, UsedUp, Invitations
  <2>6. CASE ~(Scanning(w) /\ w.code # NoCode)
    <3>1. ~(w.step \in {"check", "grant"})
      BY <2>2, <2>6 DEF Fits, Scanning
    <3>2. ~(w.step = "commit" /\ w.code # NoCode)
      BY <2>6 DEF Scanning
    <3>. QED
      BY <2>1, <2>2, <2>3, <3>1, <3>2 DEF Fits
  <2>. QED
    BY <2>5, <2>6
<1>. QED
  BY <1>1, <1>2

\* Without a code.
LEMMA CommitPlain ==
  ASSUME RegistrationInv, NEW u \in Users, Commit(u), request[u].code = NoCode
  PROVE  RegistrationInv'
<1>1. users' = users \cup {u} /\ coupons' = coupons \cup {Own(u)} /\ errors' = errors
  BY DEF Commit, At, RegistrationInv, RequestsFit, Fits
<1>2. \A c \in Users : Invitations(c)' = Invitations(c) /\ Rewards(c)' = Rewards(c)
  BY <1>1, PlainRows
<1>3. TypeOK'
  <2>1. Own(u) \in CouponKey
    BY DEF Own, CouponKey, Code
  <2>. QED
    BY <1>1, <2>1, CommitRequests DEF RegistrationInv, TypeOK
<1>4. IsFiniteSet(coupons')
  BY <1>1, FS_AddElement DEF RegistrationInv
<1>5. RequestsFit'
  <2>1. \A c \in Users : UsedUp(c)' <=> UsedUp(c)
    BY <1>2 DEF UsedUp
  <2>2. \A c \in Users, ms \in Millis : Reward(c, ms) \in coupons' <=> Reward(c, ms) \in coupons
    BY <1>1 DEF Reward, Own
  <2>. QED
    BY <2>1, <2>2, CommitFits, Zenon
<1>6. OneScan'
  BY CommitRequests, IdleFits DEF RegistrationInv, OneScan
<1>7. InvitationLimit' /\ RewardPerInvitation'
  BY <1>2 DEF RegistrationInv, InvitationLimit, RewardPerInvitation
<1>8. InvitedByRegistered'
  <2>. SUFFICES ASSUME NEW row \in coupons'
                PROVE  /\ row.user \in users'
                       /\ row.code.family = "INV" => /\ row.code.of \in users' \ {row.user}
                                                     /\ Own(row.user) \in coupons'
    BY DEF InvitedByRegistered, Own
  <2>1. CASE row \in coupons
    BY <1>1, <2>1 DEF RegistrationInv, InvitedByRegistered
  <2>2. CASE row = Own(u)
    BY <1>1, <2>2 DEF Own
  <2>. QED
    BY <1>1, <2>1, <2>2
<1>. QED
  BY <1>3, <1>4, <1>5, <1>6, <1>7, <1>8 DEF RegistrationInv

\* With one: what Check and Grant found is still true, since nobody else has
\* scanned.
LEMMA CommitInvitation ==
  ASSUME RegistrationInv, NEW u \in Users, Commit(u), request[u].code # NoCode
  PROVE  RegistrationInv'
<1>1. request[u].step = "commit" /\ request[u] # Idle /\ request[u].code \in Users
  BY RequestFields DEF Commit, At, Idle, RegistrationInv, TypeOK, InProgress
<1>2. PICK code \in Users, ms \in Millis :
        /\ code = request[u].code
        /\ request[u].rows = {Own(u), Invitation(u, code), Reward(code, ms)}
        /\ Reward(code, ms) \notin coupons
        /\ u \notin users /\ code \in users /\ ~UsedUp(code)
  BY <1>1 DEF RegistrationInv, RequestsFit, Fits
<1>3. /\ users' = users \cup {u}
      /\ coupons' = coupons \cup {Own(u), Invitation(u, code), Reward(code, ms)}
      /\ errors' = errors
  BY <1>2 DEF Commit
<1>4. \A c \in Users :
        /\ Invitations(c)' = Invitations(c) \cup (IF c = code THEN {Invitation(u, code)} ELSE {})
        /\ Rewards(c)' = Rewards(c) \cup (IF c = code THEN {Reward(code, ms)} ELSE {})
  BY <1>3, InvitationRows
<1>5. TypeOK'
  <2>1. Own(u) \in CouponKey /\ Invitation(u, code) \in CouponKey /\ Reward(code, ms) \in CouponKey
    BY RowTypes
  <2>. QED
    BY <1>3, <2>1, CommitRequests DEF RegistrationInv, TypeOK
<1>6. IsFiniteSet(coupons')
  <2>1. coupons' = ((coupons \cup {Own(u)}) \cup {Invitation(u, code)}) \cup {Reward(code, ms)}
    BY <1>3
  <2>. QED
    BY <2>1, FS_AddElement DEF RegistrationInv
<1>7. \A v \in Users \ {u} : ~Scanning(request[v])
  BY <1>1 DEF RegistrationInv, OneScan, Scanning
<1>8. RequestsFit'
  BY <1>7, CommitFits
<1>9. OneScan'
  BY <1>7, CommitRequests, IdleFits DEF RegistrationInv, OneScan
<1>10. Invitation(u, code) \notin Invitations(code) /\ Reward(code, ms) \notin Rewards(code)
  BY <1>2 DEF RegistrationInv, InvitedByRegistered, Invitations, Rewards, Invitation
<1>11. \A c \in Users :
         /\ Cardinality(Invitations(c))' =
              IF c = code THEN Cardinality(Invitations(c)) + 1 ELSE Cardinality(Invitations(c))
         /\ Cardinality(Rewards(c))' =
              IF c = code THEN Cardinality(Rewards(c)) + 1 ELSE Cardinality(Rewards(c))
  <2>. SUFFICES ASSUME NEW c \in Users
                PROVE  /\ Cardinality(Invitations(c)') =
                            IF c = code THEN Cardinality(Invitations(c)) + 1
                                        ELSE Cardinality(Invitations(c))
                       /\ Cardinality(Rewards(c)') =
                            IF c = code THEN Cardinality(Rewards(c)) + 1
                                        ELSE Cardinality(Rewards(c))
    OBVIOUS
  <2>1. IsFiniteSet(Invitations(c)) /\ IsFiniteSet(Rewards(c))
    BY SubsetsFinite DEF RegistrationInv
  <2>2. CASE c = code
    <3>1. /\ Invitations(c)' = Invitations(c) \cup {Invitation(u, code)}
          /\ Rewards(c)' = Rewards(c) \cup {Reward(code, ms)}
      BY <1>4, <2>2
    <3>2. /\ Cardinality(Invitations(c) \cup {Invitation(u, code)}) = Cardinality(Invitations(c)) + 1
          /\ Cardinality(Rewards(c) \cup {Reward(code, ms)}) = Cardinality(Rewards(c)) + 1
      BY <1>10, <2>1, <2>2, FS_AddElement
    <3>. QED
      BY <2>2, <3>1, <3>2
  <2>3. CASE c # code
    <3>1. Invitations(c)' = Invitations(c) /\ Rewards(c)' = Rewards(c)
      BY <1>4, <2>3
    <3>. QED
      BY <2>3, <3>1
  <2>. QED
    BY <2>2, <2>3
<1>12. InvitationLimit'
  <2>. SUFFICES ASSUME NEW c \in Users
                PROVE  Cardinality(Invitations(c))' <= Limit
    BY DEF InvitationLimit
  <2>1. Cardinality(Invitations(c)) \in Nat /\ Cardinality(Invitations(c)) <= Limit
    BY SubsetsFinite DEF RegistrationInv, InvitationLimit
  <2>2. c = code => Cardinality(Invitations(c)) < Limit
    BY <1>2, <2>1, RegistrationAssumption DEF UsedUp
  <2>. QED
    BY <1>11, <2>1, <2>2, RegistrationAssumption
<1>13. RewardPerInvitation'
  BY <1>11 DEF RegistrationInv, RewardPerInvitation
<1>14. InvitedByRegistered'
  <2>. SUFFICES ASSUME NEW row \in coupons'
                PROVE  /\ row.user \in users'
                       /\ row.code.family = "INV" => /\ row.code.of \in users' \ {row.user}
                                                     /\ Own(row.user) \in coupons'
    BY DEF InvitedByRegistered, Own
  <2>1. CASE row \in coupons
    BY <1>3, <2>1 DEF RegistrationInv, InvitedByRegistered
  <2>2. CASE row = Own(u)
    BY <1>3, <2>2 DEF Own
  <2>3. CASE row = Invitation(u, code)
    <3>1. row.user = u /\ row.code.of = code
      BY <2>3 DEF Invitation
    <3>. QED
      BY <1>2, <1>3, <3>1
  <2>4. CASE row = Reward(code, ms)
    <3>1. row.user = code /\ row.code.family = "RWD"
      BY <2>4 DEF Reward
    <3>. QED
      BY <1>2, <1>3, <3>1
  <2>. QED
    BY <1>3, <2>1, <2>2, <2>3, <2>4
<1>. QED
  BY <1>5, <1>6, <1>8, <1>9, <1>12, <1>13, <1>14 DEF RegistrationInv

-----------------------------------------------------------------------------
(* The theorems.                                                           *)

LEMMA InitKeeps == Init => RegistrationInv
<1>. SUFFICES ASSUME Init
              PROVE  RegistrationInv
  OBVIOUS
<1>1. TypeOK
  BY RegistrationAssumption DEF Init, TypeOK, Request
<1>2. IsFiniteSet(coupons)
  BY FS_EmptySet DEF Init
<1>3. RequestsFit /\ OneScan
  BY IdleFits DEF Init, RequestsFit, OneScan
<1>4. \A c \in Users : Invitations(c) = {} /\ Rewards(c) = {}
  BY DEF Init, Invitations, Rewards
<1>5. InvitationLimit /\ RewardPerInvitation
  BY <1>4, FS_EmptySet, RegistrationAssumption DEF InvitationLimit, RewardPerInvitation
<1>6. InvitedByRegistered
  BY DEF Init, InvitedByRegistered
<1>. QED
  BY <1>1, <1>2, <1>3, <1>5, <1>6 DEF RegistrationInv

LEMMA NextKeeps == RegistrationInv /\ [Next]_vars => RegistrationInv'
<1>. SUFFICES ASSUME RegistrationInv, [Next]_vars
              PROVE  RegistrationInv'
  OBVIOUS
<1>1. ASSUME NEW u \in Users, NEW code \in Users \cup {NoCode}, Begin(u, code)
      PROVE  RegistrationInv'
  BY <1>1, BeginKeeps
<1>2. ASSUME NEW u \in Users, InsertOwn(u)
      PROVE  RegistrationInv'
  BY <1>2, InsertOwnKeeps
<1>3. ASSUME NEW u \in Users, Scan(u)
      PROVE  RegistrationInv'
  BY <1>3, ScanKeeps
<1>4. ASSUME NEW u \in Users, Check(u)
      PROVE  RegistrationInv'
  BY <1>4, CheckKeeps
<1>5. ASSUME NEW u \in Users, Grant(u)
      PROVE  RegistrationInv'
  BY <1>5, GrantKeeps
<1>6. ASSUME NEW u \in Users, Commit(u)
      PROVE  RegistrationInv'
  BY <1>6, CommitPlain, CommitInvitation
<1>7. ASSUME NEW u \in Users, Rollback(u)
      PROVE  RegistrationInv'
  <2>1. errors' \in 0 .. MaxErrors
    BY <1>7, RegistrationAssumption DEF Rollback, RegistrationInv, TypeOK
  <2>. QED
    BY <1>7, <2>1, EndKeeps DEF Rollback
<1>8. ASSUME NEW u \in Users, DeadlockVictim(u)
      PROVE  RegistrationInv'
  <2>1. errors' \in 0 .. MaxErrors
    BY <1>8 DEF DeadlockVictim, RegistrationInv, TypeOK
  <2>. QED
    BY <1>8, <2>1, EndKeeps DEF DeadlockVictim
<1>9. CASE UNCHANGED vars
  <2>1. UNCHANGED <<users, coupons, request, errors>>
    BY <1>9 DEF vars
  <2>2. TypeOK' /\ IsFiniteSet(coupons') /\ OneScan'
    BY <2>1 DEF RegistrationInv, TypeOK, OneScan
  <2>3. RequestsFit'
    <3>. SUFFICES ASSUME NEW v \in Users
                  PROVE  Fits(v, request[v])'
      BY DEF RequestsFit
    <3>1. PICK w : w = request[v] /\ w = request'[v]
      BY <2>1
    <3>2. Fits(v, w)
      BY <3>1 DEF RegistrationInv, RequestsFit
    <3>. QED
      BY <2>1, <3>1, <3>2 DEF Fits, UsedUp, Invitations
  <2>4. InvitationLimit' /\ RewardPerInvitation' /\ InvitedByRegistered'
    BY <2>1 DEF RegistrationInv, InvitationLimit, RewardPerInvitation, InvitedByRegistered,
                Invitations, Rewards
  <2>. QED
    BY <2>2, <2>3, <2>4 DEF RegistrationInv
<1>. QED
  BY <1>1, <1>2, <1>3, <1>4, <1>5, <1>6, <1>7, <1>8, <1>9 DEF Next, Run

\* The steps of appPostUsers keep this invariant.
THEOREM RegistrationCorrect == Spec => []RegistrationInv
BY InitKeeps, NextKeeps, PTL DEF Spec

\* Every state of a registration has its type.
THEOREM RegistrationTypes == Spec => []TypeOK
<1>1. RegistrationInv => TypeOK
  BY DEF RegistrationInv
<1>. QED
  BY <1>1, RegistrationCorrect, PTL

\* A code invites Limit users at most, however many register with it at the
\* same time (app_handlers.go:76).
THEOREM LimitCorrect == Spec => []InvitationLimit
<1>1. RegistrationInv => InvitationLimit
  BY DEF RegistrationInv
<1>. QED
  BY <1>1, RegistrationCorrect, PTL

\* Each invitation has rewarded its inviter once (app_handlers.go:113).
THEOREM RewardsCorrect == Spec => []RewardPerInvitation
<1>1. RegistrationInv => RewardPerInvitation
  BY DEF RegistrationInv
<1>. QED
  BY <1>1, RegistrationCorrect, PTL

\* Inviters are registered users, others than the invited (app_handlers.go:88).
THEOREM InvitersCorrect == Spec => []InvitedByRegistered
<1>1. RegistrationInv => InvitedByRegistered
  BY DEF RegistrationInv
<1>. QED
  BY <1>1, RegistrationCorrect, PTL
=============================================================================
