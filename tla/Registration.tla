---------------------------- MODULE Registration ----------------------------
(***************************************************************************)
(* appPostUsers: registration of users, with or without the invitation     *)
(* code of another, over the tables users and coupons.                     *)
(*                                                                         *)
(* The transaction first inserts the user's own coupon, then counts the    *)
(* coupons of the code with SELECT ... FOR UPDATE.  coupons has no index    *)
(* on code, so under REPEATABLE READ that scan locks every row and every   *)
(* gap of the table: it waits for the uncommitted rows of all other        *)
(* registrations, and until it ends nobody inserts a row.  Two             *)
(* registrations that both have inserted their row and both scan wait for  *)
(* each other, and the database rolls one of them back.                    *)
(***************************************************************************)
EXTENDS Integers, FiniteSets

CONSTANTS
  Users,        \* whoever may register; a code is identified with its owner
  NoCode,       \* no invitation code in the request
  Millis,       \* milliseconds at which a reward may be granted
  Limit,        \* 3: invitations per code
  MaxErrors     \* bound of the instance: handlers that stop and roll back

ASSUME RegistrationAssumption ==
  /\ NoCode \notin Users
  /\ Limit \in Nat
  /\ MaxErrors \in Nat

VARIABLES
  users,      \* table users
  coupons,    \* table coupons, the committed rows
  request,    \* the POST /users in progress, per user to be
  errors      \* how many handlers have stopped on the way

vars == <<users, coupons, request, errors>>

\* The codes CP_NEW2024, INV_<code> and RWD_<code>_<millisecond>.
Code == [family : {"CP"}]
          \cup [family : {"INV"}, of : Users]
          \cup [family : {"RWD"}, of : Users, at : Millis]

\* The primary key of a row; its discount follows from the family.
CouponKey == [user : Users, code : Code]

Idle == [step |-> "idle"]

\* rows: what the transaction has inserted.
Request == {Idle} \cup
           [step : {"insert", "scan", "check", "grant", "commit"},
            code : Users \cup {NoCode}, rows : SUBSET CouponKey]

At(u, step) == request[u].step = step

Go(u, step) == request' = [request EXCEPT ![u].step = step]

Own(u) == [user |-> u, code |-> [family |-> "CP"]]

Invitation(u, code) == [user |-> u, code |-> [family |-> "INV", of |-> code]]

\* Mutant: the code of a reward has no time in it.
RewardTimeless(code, ms) ==
  [user |-> code, code |-> [family |-> "RWD", of |-> code]]

Reward(code, ms) ==
  [user |-> code, code |-> [family |-> "RWD", of |-> code, at |-> ms]]

Invitations(code) ==
  {row \in coupons : row.code.family = "INV" /\ row.code.of = code}

Rewards(code) ==
  {row \in coupons : row.code.family = "RWD" /\ row.code.of = code}

\* The scan of u's transaction has locked the table.
Scanned(u) ==
  \/ request[u].step \in {"check", "grant"}
  \/ At(u, "commit") /\ request[u].code # NoCode

\* u's transaction has rows that no other may lock.
Uncommitted(u) == request[u] # Idle /\ request[u].rows # {}

-----------------------------------------------------------------------------
Begin(u, code) ==
  /\ request[u] = Idle
  /\ u \notin users
  /\ request' = [request EXCEPT
                   ![u] = [step |-> "insert", code |-> code, rows |-> {}]]
  /\ UNCHANGED <<users, coupons, errors>>

\* The user and the campaign coupon; waits for a scan.
InsertOwn(u) ==
  /\ At(u, "insert")
  /\ \A v \in Users \ {u} : ~Scanned(v)
  /\ request' = [request EXCEPT
                   ![u].rows = {Own(u)},
                   ![u].step = IF request[u].code = NoCode THEN "commit"
                               ELSE "scan"]
  /\ UNCHANGED <<users, coupons, errors>>

\* Mutant: the SELECT does not lock.
ScanUnlocked(u) ==
  /\ At(u, "scan")
  /\ Go(u, "check")
  /\ UNCHANGED <<users, coupons, errors>>

\* SELECT ... FOR UPDATE; waits for every other transaction's rows.
Scan(u) ==
  /\ At(u, "scan")
  /\ \A v \in Users \ {u} : ~Uncommitted(v)
  /\ Go(u, "check")
  /\ UNCHANGED <<users, coupons, errors>>

UsedUp(code) == Cardinality(Invitations(code)) >= Limit

\* Mutant: nobody looks for the inviter.
CheckLimitOnly(u) ==
  /\ At(u, "check")
  /\ IF UsedUp(request[u].code) THEN request' = [request EXCEPT ![u] = Idle]
     ELSE Go(u, "grant")
  /\ UNCHANGED <<users, coupons, errors>>

\* Mutant: a refused request leaves its transaction open.
CheckLeavesOpen(u) ==
  /\ At(u, "check")
  /\ ~UsedUp(request[u].code) /\ request[u].code \in users
  /\ Go(u, "grant")
  /\ UNCHANGED <<users, coupons, errors>>

\* 400 when the code is used up or nobody's.
Check(u) ==
  /\ At(u, "check")
  /\ IF UsedUp(request[u].code) \/ request[u].code \notin users
     THEN request' = [request EXCEPT ![u] = Idle]
     ELSE Go(u, "grant")
  /\ UNCHANGED <<users, coupons, errors>>

\* Mutant: a reward that exists is skipped (INSERT IGNORE).
GrantIgnore(u) ==
  LET code == request[u].code
  IN  /\ At(u, "grant")
      /\ \E ms \in Millis :
           request' = [request EXCEPT
                         ![u].rows = @ \cup {Invitation(u, code), Reward(code, ms)},
                         ![u].step = "commit"]
      /\ UNCHANGED <<users, coupons, errors>>

\* Both coupons; a second reward of the code in the same millisecond violates
\* the primary key and rolls everything back.
Grant(u) ==
  LET code == request[u].code
  IN  /\ At(u, "grant")
      /\ \E ms \in Millis :
           request' = IF Reward(code, ms) \in coupons
                      THEN [request EXCEPT ![u] = Idle]
                      ELSE [request EXCEPT
                              ![u].rows = @ \cup {Invitation(u, code),
                                                  Reward(code, ms)},
                              ![u].step = "commit"]
      /\ UNCHANGED <<users, coupons, errors>>

Commit(u) ==
  /\ At(u, "commit")
  /\ users' = users \cup {u}
  /\ coupons' = coupons \cup request[u].rows
  /\ request' = [request EXCEPT ![u] = Idle]
  /\ UNCHANGED errors

\* The deferred tx.Rollback.
Rollback(u) ==
  /\ errors < MaxErrors
  /\ request[u] # Idle
  /\ request' = [request EXCEPT ![u] = Idle]
  /\ errors' = errors + 1
  /\ UNCHANGED <<users, coupons>>

\* InnoDB: of two scans that wait for each other's row, one is rolled back.
DeadlockVictim(u) ==
  /\ At(u, "scan")
  /\ \E v \in Users \ {u} : At(v, "scan")
  /\ request' = [request EXCEPT ![u] = Idle]
  /\ UNCHANGED <<users, coupons, errors>>

-----------------------------------------------------------------------------
Init ==
  /\ users = {}
  /\ coupons = {}
  /\ request = [u \in Users |-> Idle]
  /\ errors = 0

\* What the server does about a request that has begun.
Run(u) ==
  \/ InsertOwn(u) \/ Scan(u) \/ Check(u) \/ Grant(u) \/ Commit(u)
  \/ DeadlockVictim(u)

Next ==
  \E u \in Users :
    \/ \E code \in Users \cup {NoCode} : Begin(u, code)
    \/ Run(u) \/ Rollback(u)

Spec == Init /\ [][Next]_vars

\* Lock waits are served in order, and deadlocks detected.
FairSpec == Spec /\ \A u \in Users : SF_vars(Run(u))

-----------------------------------------------------------------------------
(* Properties.                                                             *)

TypeOK ==
  /\ users \subseteq Users
  /\ coupons \subseteq CouponKey
  /\ request \in [Users -> Request]
  /\ errors \in 0 .. MaxErrors

\* docs/ISURIDE.md: a code invites three users at most, however many register
\* with it at the same time.
InvitationLimit == \A u \in Users : Cardinality(Invitations(u)) <= Limit

\* Every invitation has rewarded its inviter once, although rewards of one
\* millisecond have the same key.
RewardPerInvitation ==
  \A u \in Users : Cardinality(Rewards(u)) = Cardinality(Invitations(u))

\* A coupon belongs to a registered user, and an invitation, next to the
\* user's own campaign coupon, comes from another one.
InvitedByRegistered ==
  \A row \in coupons :
    /\ row.user \in users
    /\ row.code.family = "INV" => /\ row.code.of \in users \ {row.user}
                                  /\ Own(row.user) \in coupons

\* A registration ends, with the user registered or refused, although
\* registrations wait for each other's locks.
EveryRegistrationEnds ==
  \A u \in Users : request[u] # Idle ~> request[u] = Idle
=============================================================================
