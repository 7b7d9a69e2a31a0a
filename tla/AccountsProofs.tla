---------------------------- MODULE AccountsProofs ----------------------------
(* Accounts is correct for every value of its constants: any number of     *)
(* users, addresses, sessions, challenges and requests, in any interleaving *)
(* of the requests with each other, with snapshots and with restores.      *)
EXTENDS Accounts, TLAPS

(* -------------------------------------------------- the inductive invariant *)

Statuses == {"active", "inactive", "archived"}
Stages == {"idle", "sign", "change", "revoke", "issue", "read", "rotate", "answer"}

AccountRow == [status : Statuses, password : Nat, role : Nat, version : Nat, setup : BOOLEAN,
               verified : BOOLEAN, email : Address, pending : Address \union {None}]
ChallengeRow == [user : User \union {None}, purpose : Purposes \union {"none"},
                 email : Address \union {None}, attempts : 0..MaxGuesses, password : Nat]
SessionRow == [user : User \union {None}, live : BOOLEAN, version : Nat, iat : Nat, issued : Nat,
               password : Nat, role : Nat, chain : Session \union {None}, straddles : BOOLEAN]
Request == [at : Stages, user : User \union {None}, session : Session \union {None},
            next : {"idle", "issue", "sign", "none"}, version : Nat, password : Nat, role : Nat,
            iat : Nat, restores : Nat]

(* Tables in use, and what was saved of the users.                         *)
UsersTyped ==
  /\ account \in [User -> AccountRow] /\ claim \in [Address -> User \union {None}]
  /\ saved # None => saved \in [User -> AccountRow]
  /\ fresh \in Nat /\ fresh <= MaxFresh
  /\ \A u \in User : account[u].version <= fresh /\ (saved # None => saved[u].version <= fresh)

ChallengesTyped ==
  /\ challenge \in [Challenge -> ChallengeRow]
  /\ \A c \in Challenge : Usable(c) => /\ challenge[c].user \in User /\ challenge[c].purpose \in Purposes
                                       /\ challenge[c].email \in Address

SessionsTyped ==
  /\ session \in [Session -> SessionRow]
  /\ now \in Nat /\ now <= MaxTime /\ invalidBefore \in Nat /\ invalidBefore <= now
  /\ \A s \in Session : session[s].iat <= now /\ session[s].issued <= now
  /\ \A s \in Session : session[s].live =>
       session[s].user \in User /\ session[s].chain \in Session /\ session[session[s].chain].user # None

(* The addresses that accounts would hold once the snapshot is restored.   *)
HeldInSnapshot(u) == {saved[u].email, saved[u].pending} \ {None}
SavedApart ==
  saved # None => \A u, v \in User :
    /\ saved[u].status # "archived" /\ saved[v].status # "archived"
    /\ HeldInSnapshot(u) \intersect HeldInSnapshot(v) # {}
    => u = v

(* What was read of an account together with a version is what the account *)
(* has at that version; versions only move on, but for a restore.          *)
Fits(u, version, password, role) ==
  /\ version <= account[u].version
  /\ version = account[u].version => password = account[u].password /\ role = account[u].role
SessionFits(s) == Fits(session[s].user, session[s].version, session[s].password, session[s].role)

(* A request that is under way is about a user, and about a session of his; *)
(* unless a restore came between, what it read still fits.                 *)
RequestKnows(r) ==
  /\ r.iat <= now /\ r.restores <= restores
  /\ r.at # "idle" => r.user \in User
  /\ r.at \in {"read", "rotate", "answer"} => r.session \in Session /\ session[r.session].user = r.user
  /\ r.at = "rotate" => session[r.session].version = r.version
  /\ r.restores = restores =>
       /\ r.at \in {"sign", "change", "revoke", "issue", "rotate"} => Fits(r.user, r.version, r.password, r.role)
       /\ r.at = "answer" => SessionFits(r.session)
RequestsKnow == req \in [Conn -> Request] /\ restores \in Nat /\ \A n \in Conn : RequestKnows(req[n])

(* The tokens of a session that a check may still accept.                  *)
Usables(s) ==
  /\ session[s].user \in User /\ ~session[s].straddles
  /\ session[s].iat > invalidBefore \/ (session[s].live /\ session[s].issued > invalidBefore)
SessionsFit == \A s \in Session : Usables(s) => SessionFits(s)

Typed == UsersTyped /\ ChallengesTyped /\ SessionsTyped /\ RequestsKnow
AccountsInv ==
  /\ Typed
  /\ AddressesClaimed /\ SavedApart
  /\ ChallengesAreCurrent
  /\ OneSessionPerSignIn
  /\ SessionsFit

(* ------------------------------------------------------------------ tables *)

LEMMA NewPassword ==
  ASSUME NEW row \in AccountRow, fresh \in Nat
  PROVE  LET new == NewVersion(row, "password")
         IN  /\ new \in AccountRow /\ new.password = fresh + 1 /\ new.version = row.version + 1
             /\ new.role = row.role /\ new.status = row.status /\ new.email = row.email
             /\ new.pending = row.pending
<1> DEFINE first == [row EXCEPT !.password = fresh + 1]
           new == [first EXCEPT !.version = @ + 1]
<1>1. NewVersion(row, "password") = new
  BY DEF NewVersion
<1>2. first \in AccountRow
  BY DEF AccountRow
<1>3. /\ first.password = fresh + 1 /\ first.version = row.version /\ first.version \in Nat
      /\ first.role = row.role /\ first.status = row.status /\ first.email = row.email
      /\ first.pending = row.pending
  BY DEF AccountRow
<1> HIDE DEF first
<1>4. new \in AccountRow
  BY <1>2, <1>3 DEF AccountRow
<1>5. /\ new.password = first.password /\ new.version = first.version + 1 /\ new.role = first.role
      /\ new.status = first.status /\ new.email = first.email /\ new.pending = first.pending
  BY <1>2 DEF AccountRow
<1> HIDE DEF new
<1> QED
  BY <1>1, <1>3, <1>4, <1>5

LEMMA NewRole ==
  ASSUME NEW row \in AccountRow, fresh \in Nat
  PROVE  LET new == NewVersion(row, "role")
         IN  /\ new \in AccountRow /\ new.role = fresh + 1 /\ new.version = row.version + 1
             /\ new.password = row.password /\ new.status = row.status /\ new.email = row.email
             /\ new.pending = row.pending
<1> DEFINE first == [row EXCEPT !.role = fresh + 1]
           new == [first EXCEPT !.version = @ + 1]
<1>1. NewVersion(row, "role") = new
  BY DEF NewVersion
<1>2. first \in AccountRow
  BY DEF AccountRow
<1>3. /\ first.role = fresh + 1 /\ first.version = row.version /\ first.version \in Nat
      /\ first.password = row.password /\ first.status = row.status /\ first.email = row.email
      /\ first.pending = row.pending
  BY DEF AccountRow
<1> HIDE DEF first
<1>4. new \in AccountRow
  BY <1>2, <1>3 DEF AccountRow
<1>5. /\ new.role = first.role /\ new.version = first.version + 1 /\ new.password = first.password
      /\ new.status = first.status /\ new.email = first.email /\ new.pending = first.pending
  BY <1>2 DEF AccountRow
<1> HIDE DEF new
<1> QED
  BY <1>1, <1>3, <1>4, <1>5

(* Which steps touch the users and their addresses.                        *)
LEMMA UsersTouched ==
  ASSUME [Next]_vars
  PROVE  \/ UNCHANGED <<account, claim, saved, fresh>>
         \/ \E u \in User, c \in Challenge, a \in Address : StageAddress(u, a, c)
         \/ \E c \in Challenge : VerifyEmail(c) \/ CompletePassword(c)
         \/ \E u \in User : ResetPassword(u) \/ ChangeRole(u) \/ Reactivate(u) \/ RestoreUser(u)
         \/ \E n \in Conn, u \in User : Deactivate(n, u) \/ ArchiveUser(n, u)
         \/ \E n \in Conn : ChangeCommit(n)
         \/ TakeSnapshot \/ Restore
<1>1. CASE UNCHANGED vars
  BY <1>1 DEF vars
<1>2. ASSUME NEW u \in User, NEW c \in Challenge,
             RequestRecovery(u, c) \/ RequestVerification(u, c) \/ Invite(u, c)
      PROVE  UNCHANGED <<account, claim, saved, fresh>>
  BY <1>2 DEF RequestRecovery, RequestVerification, Invite, desk
<1>3. ASSUME NEW c \in Challenge, NEW d \in Challenge, NEW right \in BOOLEAN,
             VerifyRecovery(c, right, d) \/ ChallengeExpires(c)
      PROVE  UNCHANGED <<account, claim, saved, fresh>>
  BY <1>3 DEF VerifyRecovery, ChallengeExpires, desk
<1>4. ASSUME NEW n \in Conn, NEW u \in User, LoginRead(n, u) \/ ChangeRead(n, u)
      PROVE  UNCHANGED <<account, claim, saved, fresh>>
  BY <1>4 DEF LoginRead, ChangeRead, desk
<1>5. ASSUME NEW n \in Conn, RevokeAll(n) \/ SignToken(n) \/ RefreshRead(n) \/ RefreshSign(n) \/ Abandon(n)
      PROVE  UNCHANGED <<account, claim, saved, fresh>>
  BY <1>5 DEF RevokeAll, SignToken, RefreshRead, RefreshSign, Abandon, desk
<1>6. ASSUME NEW n \in Conn, NEW s \in Session, IssueSession(n, s) \/ RefreshCheck(n, s) \/ RefreshRotate(n, s) \/ EndSession(s)
      PROVE  UNCHANGED <<account, claim, saved, fresh>>
  BY <1>6 DEF IssueSession, RefreshCheck, RefreshRotate, EndSession, desk
<1>7. ASSUME NEW s \in Session, EndSession(s)
      PROVE  UNCHANGED <<account, claim, saved, fresh>>
  BY <1>7 DEF EndSession, desk
<1>8. CASE Tick
  BY <1>8 DEF Tick
<1>9. ASSUME NEW c \in Challenge, ChallengeExpires(c)
      PROVE  UNCHANGED <<account, claim, saved, fresh>>
  BY <1>9 DEF ChallengeExpires, desk
<1>10. CASE Next
  BY <1>10, <1>2, <1>3, <1>4, <1>5, <1>6, <1>7, <1>8, <1>9 DEF Next
<1> QED
  BY <1>1, <1>10

(* What a step does to the one account it changes.                         *)
Changes(u) == account' \in [User -> AccountRow] /\ \A v \in User \ {u} : account'[v] = account[v]
SameVersion(u) == /\ account'[u].version = account[u].version
                  /\ account'[u].password = account[u].password
                  /\ account'[u].role = account[u].role
SameAddresses(u) == account'[u].email = account[u].email /\ account'[u].pending = account[u].pending
SameStatus(u) == account'[u].status = account[u].status

LEMMA RowReplaced ==
  ASSUME UsersTyped, NEW u \in User, NEW row \in AccountRow, account' = [account EXCEPT ![u] = row]
  PROVE  Changes(u) /\ account'[u] = row
BY DEF UsersTyped, Changes

LEMMA StageAddressDoes ==
  ASSUME UsersTyped, NEW u \in User, NEW a \in Address, NEW c \in Challenge, StageAddress(u, a, c)
  PROVE  /\ Changes(u) /\ SameVersion(u) /\ SameStatus(u)
         /\ \/ account'[u].email = a /\ account'[u].pending = None /\ account[u].setup
            \/ account'[u].email = account[u].email /\ account'[u].pending = a /\ ~account[u].setup
<1>1. account[u] \in AccountRow
  BY DEF UsersTyped
<1>2. CASE account[u].setup
  <2> DEFINE row == [account[u] EXCEPT !.email = a, !.pending = None, !.verified = FALSE]
  <2>1. row \in AccountRow
    BY <1>1 DEF AccountRow
  <2>2. /\ row.email = a /\ row.pending = None /\ row.status = account[u].status
        /\ row.version = account[u].version /\ row.password = account[u].password /\ row.role = account[u].role
    BY <1>1 DEF AccountRow
  <2>3. account' = [account EXCEPT ![u] = row]
    BY <1>2 DEF StageAddress
  <2> HIDE DEF row
  <2> QED
    BY <1>2, <2>1, <2>2, <2>3, RowReplaced DEF SameVersion, SameStatus
<1>3. CASE ~account[u].setup
  <2> DEFINE row == [account[u] EXCEPT !.pending = a]
  <2>1. row \in AccountRow
    BY <1>1 DEF AccountRow
  <2>2. /\ row.email = account[u].email /\ row.pending = a /\ row.status = account[u].status
        /\ row.version = account[u].version /\ row.password = account[u].password /\ row.role = account[u].role
    BY <1>1 DEF AccountRow
  <2>3. account' = [account EXCEPT ![u] = row]
    BY <1>3 DEF StageAddress
  <2> HIDE DEF row
  <2> QED
    BY <1>3, <2>1, <2>2, <2>3, RowReplaced DEF SameVersion, SameStatus
<1> QED
  BY <1>2, <1>3

LEMMA VerifyEmailDoes ==
  ASSUME UsersTyped, NEW u \in User, NEW a \in Address,
         account' = [account EXCEPT ![u].email = a, ![u].pending = None, ![u].verified = TRUE]
  PROVE  /\ Changes(u) /\ SameVersion(u) /\ SameStatus(u)
         /\ account'[u].email = a /\ account'[u].pending = None
<1> DEFINE row == [account[u] EXCEPT !.email = a, !.pending = None, !.verified = TRUE]
<1>1. account \in [User -> AccountRow] /\ account[u] \in AccountRow
  BY DEF UsersTyped
<1>2. row \in AccountRow
  BY <1>1 DEF AccountRow
<1>3. /\ row.email = a /\ row.pending = None /\ row.status = account[u].status
      /\ row.version = account[u].version /\ row.password = account[u].password /\ row.role = account[u].role
  BY <1>1 DEF AccountRow
<1>4. account' = [account EXCEPT ![u] = row]
  BY <1>1
<1> HIDE DEF row
<1> QED
  BY <1>2, <1>3, <1>4, RowReplaced DEF SameVersion, SameStatus

LEMMA StatusDoes ==
  ASSUME UsersTyped, NEW u \in User, NEW status \in Statuses,
         account' = [account EXCEPT ![u].status = status]
  PROVE  Changes(u) /\ SameVersion(u) /\ SameAddresses(u) /\ account'[u].status = status
<1> DEFINE row == [account[u] EXCEPT !.status = status]
<1>1. account \in [User -> AccountRow] /\ account[u] \in AccountRow
  BY DEF UsersTyped
<1>2. row \in AccountRow
  BY <1>1 DEF AccountRow
<1>3. /\ row.email = account[u].email /\ row.pending = account[u].pending /\ row.status = status
      /\ row.version = account[u].version /\ row.password = account[u].password /\ row.role = account[u].role
  BY <1>1 DEF AccountRow
<1>4. account' = [account EXCEPT ![u] = row]
  BY <1>1
<1> HIDE DEF row
<1> QED
  BY <1>2, <1>3, <1>4, RowReplaced DEF SameVersion, SameAddresses

(* A password is set: by a link, by the staff, or by the user.             *)
PasswordSet(u) ==
  /\ Changes(u) /\ SameAddresses(u) /\ SameStatus(u)
  /\ account'[u].version = account[u].version + 1 /\ account'[u].password = fresh + 1
  /\ account'[u].role = account[u].role

LEMMA CompletePasswordDoes ==
  ASSUME UsersTyped, NEW u \in User,
         account' = [account EXCEPT ![u] = [NewVersion(account[u], "password") EXCEPT !.setup = FALSE, !.verified = TRUE]]
  PROVE  PasswordSet(u)
<1> DEFINE new == NewVersion(account[u], "password")
           row == [new EXCEPT !.setup = FALSE, !.verified = TRUE]
<1>1. account[u] \in AccountRow /\ fresh \in Nat
  BY DEF UsersTyped
<1>2. /\ new \in AccountRow /\ new.password = fresh + 1 /\ new.version = account[u].version + 1
      /\ new.role = account[u].role /\ new.status = account[u].status /\ new.email = account[u].email
      /\ new.pending = account[u].pending
  BY <1>1, NewPassword
<1> HIDE DEF new
<1>3. row \in AccountRow
  BY <1>2 DEF AccountRow
<1>4. /\ row.password = new.password /\ row.version = new.version /\ row.role = new.role
      /\ row.status = new.status /\ row.email = new.email /\ row.pending = new.pending
  BY <1>2 DEF AccountRow
<1>5. account' = [account EXCEPT ![u] = row]
  BY DEF new
<1> HIDE DEF row
<1> QED
  BY <1>2, <1>3, <1>4, <1>5, RowReplaced DEF PasswordSet, SameAddresses, SameStatus

LEMMA ResetPasswordDoes ==
  ASSUME UsersTyped, NEW u \in User,
         account' = [account EXCEPT ![u] = [NewVersion(account[u], "password") EXCEPT !.setup = FALSE]]
  PROVE  PasswordSet(u)
<1> DEFINE new == NewVersion(account[u], "password")
           row == [new EXCEPT !.setup = FALSE]
<1>1. account[u] \in AccountRow /\ fresh \in Nat
  BY DEF UsersTyped
<1>2. /\ new \in AccountRow /\ new.password = fresh + 1 /\ new.version = account[u].version + 1
      /\ new.role = account[u].role /\ new.status = account[u].status /\ new.email = account[u].email
      /\ new.pending = account[u].pending
  BY <1>1, NewPassword
<1> HIDE DEF new
<1>3. row \in AccountRow
  BY <1>2 DEF AccountRow
<1>4. /\ row.password = new.password /\ row.version = new.version /\ row.role = new.role
      /\ row.status = new.status /\ row.email = new.email /\ row.pending = new.pending
  BY <1>2 DEF AccountRow
<1>5. account' = [account EXCEPT ![u] = row]
  BY DEF new
<1> HIDE DEF row
<1> QED
  BY <1>2, <1>3, <1>4, <1>5, RowReplaced DEF PasswordSet, SameAddresses, SameStatus

LEMMA ChangePasswordDoes ==
  ASSUME UsersTyped, NEW u \in User, account' = [account EXCEPT ![u] = NewVersion(account[u], "password")]
  PROVE  PasswordSet(u)
<1> DEFINE new == NewVersion(account[u], "password")
<1>1. account[u] \in AccountRow /\ fresh \in Nat
  BY DEF UsersTyped
<1>2. /\ new \in AccountRow /\ new.password = fresh + 1 /\ new.version = account[u].version + 1
      /\ new.role = account[u].role /\ new.status = account[u].status /\ new.email = account[u].email
      /\ new.pending = account[u].pending
  BY <1>1, NewPassword
<1> HIDE DEF new
<1>3. account' = [account EXCEPT ![u] = new]
  BY DEF new
<1> QED
  BY <1>2, <1>3, RowReplaced DEF PasswordSet, SameAddresses, SameStatus

LEMMA ChangeRoleDoes ==
  ASSUME UsersTyped, NEW u \in User, account' = [account EXCEPT ![u] = NewVersion(account[u], "role")]
  PROVE  /\ Changes(u) /\ SameAddresses(u) /\ SameStatus(u)
         /\ account'[u].version = account[u].version + 1 /\ account'[u].password = account[u].password
<1> DEFINE new == NewVersion(account[u], "role")
<1>1. account[u] \in AccountRow /\ fresh \in Nat
  BY DEF UsersTyped
<1>2. /\ new \in AccountRow /\ new.password = account[u].password /\ new.version = account[u].version + 1
      /\ new.status = account[u].status /\ new.email = account[u].email
      /\ new.pending = account[u].pending
  BY <1>1, NewRole
<1> HIDE DEF new
<1>3. account' = [account EXCEPT ![u] = new]
  BY DEF new
<1> QED
  BY <1>2, <1>3, RowReplaced DEF SameAddresses, SameStatus

(* What a user's claims are after all but some are given up.               *)
LEMMA KeepingIs ==
  ASSUME NEW u, NEW S
  PROVE  Keeping(u, S) = [a \in Address |-> IF a \in S THEN u ELSE IF claim[a] = u THEN None ELSE claim[a]]
<1>1. ASSUME NEW a \in Address
      PROVE  (CASE a \in S -> u [] a \notin S /\ claim[a] = u -> None [] OTHER -> claim[a])
              = IF a \in S THEN u ELSE IF claim[a] = u THEN None ELSE claim[a]
  OBVIOUS
<1> QED
  BY <1>1, Zenon DEF Keeping

LEMMA KeepingTyped ==
  ASSUME UsersTyped, NEW u \in User, NEW S
  PROVE  Keeping(u, S) \in [Address -> User \union {None}]
BY KeepingIs DEF UsersTyped

LEMMA RestoreDoes ==
  ASSUME UsersTyped, Restore
  PROVE  saved # None /\ account' = saved /\ saved' = saved /\ fresh' = fresh /\ claim' \in [Address -> User \union {None}]
<1> DEFINE Owners(a) == {u \in User : saved[u].status # "archived" /\ a \in {saved[u].email, saved[u].pending}}
<1>1. ASSUME NEW a \in Address
      PROVE  (IF Owners(a) = {} THEN None ELSE CHOOSE u \in Owners(a) : TRUE) \in User \union {None}
  <2>1. CASE Owners(a) = {}
    BY <2>1
  <2>2. CASE Owners(a) # {}
    <3>1. (CHOOSE u \in Owners(a) : TRUE) \in Owners(a)
      <4> HIDE DEF Owners
      <4> QED
        BY <2>2
    <3> QED
      BY <2>2, <3>1
  <2> QED
    BY <2>1, <2>2
<1>2. claim' = [a \in Address |-> IF Owners(a) = {} THEN None ELSE CHOOSE u \in Owners(a) : TRUE]
  BY DEF Restore
<1> HIDE DEF Owners
<1>3. claim' \in [Address -> User \union {None}]
  BY <1>1, <1>2
<1> QED
  BY <1>3 DEF Restore

LEMMA OneUserTyped ==
  ASSUME UsersTyped, NEW u \in User, Changes(u), claim' \in [Address -> User \union {None}], saved' = saved,
         \/ fresh' = fresh /\ SameVersion(u)
         \/ Fresh /\ account'[u].version = account[u].version + 1
  PROVE  UsersTyped'
<1>1. fresh \in Nat /\ fresh' \in Nat /\ fresh' <= MaxFresh /\ fresh <= fresh'
  BY AccountsAssumption DEF UsersTyped, Fresh
<1>2. \A v \in User : account[v].version <= fresh /\ account[v].version \in Nat
  BY DEF UsersTyped, AccountRow
<1>3. account'[u].version <= fresh'
  BY <1>1, <1>2 DEF Fresh, SameVersion
<1>4. \A v \in User : account'[v].version <= fresh'
  BY <1>1, <1>2, <1>3 DEF Changes
<1>5. ASSUME saved # None, NEW v \in User
      PROVE  saved[v].version <= fresh'
  <2>1. saved[v].version <= fresh /\ saved[v].version \in Nat
    BY <1>5 DEF UsersTyped, AccountRow
  <2> QED
    BY <1>1, <2>1
<1> QED
  BY <1>1, <1>4, <1>5 DEF UsersTyped, Changes

(* An account's version stays with its password and role, or moves on; a   *)
(* restore apart.                                                          *)
AccountStep ==
  \/ UNCHANGED account
  \/ \E u \in User : Changes(u) /\ SameVersion(u)
  \/ \E u \in User : Changes(u) /\ account'[u].version = account[u].version + 1
  \/ Restore

LEMMA UsersStep ==
  ASSUME Typed, [Next]_vars
  PROVE  UsersTyped' /\ AccountStep
<1>0. UsersTyped
  BY DEF Typed
<1>1. CASE UNCHANGED <<account, claim, saved, fresh>>
  BY <1>0, <1>1 DEF UsersTyped, AccountStep
<1>2. ASSUME NEW u \in User, NEW c \in Challenge, NEW a \in Address, StageAddress(u, a, c)
      PROVE  UsersTyped' /\ AccountStep
  <2>1. Changes(u) /\ SameVersion(u)
    BY <1>0, <1>2, StageAddressDoes
  <2>2. claim' \in [Address -> User \union {None}]
    BY <1>0, <1>2, KeepingTyped DEF StageAddress
  <2> QED
    BY <1>0, <1>2, <2>1, <2>2, OneUserTyped DEF AccountStep, StageAddress, desk
<1>3. ASSUME NEW c \in Challenge, VerifyEmail(c)
      PROVE  UsersTyped' /\ AccountStep
  <2> DEFINE u == challenge[c].user
             a == challenge[c].email
  <2>1. u \in User /\ a \in Address
    BY <1>3 DEF Typed, ChallengesTyped, VerifyEmail
  <2>2. account' = [account EXCEPT ![u].email = a, ![u].pending = None, ![u].verified = TRUE]
    BY <1>3 DEF VerifyEmail
  <2>3. claim' = Keeping(u, {a}) /\ saved' = saved /\ fresh' = fresh
    BY <1>3 DEF VerifyEmail, desk
  <2> HIDE DEF u, a
  <2>4. Changes(u) /\ SameVersion(u)
    BY <1>0, <2>1, <2>2, VerifyEmailDoes
  <2>5. claim' \in [Address -> User \union {None}]
    BY <1>0, <2>1, <2>3, KeepingTyped
  <2> QED
    BY <1>0, <2>1, <2>3, <2>4, <2>5, OneUserTyped DEF AccountStep
<1>4. ASSUME NEW u \in User, PasswordSet(u), Fresh, UNCHANGED <<claim, saved>>
      PROVE  UsersTyped' /\ AccountStep
  <2>1. claim' \in [Address -> User \union {None}]
    BY <1>0, <1>4 DEF UsersTyped
  <2> QED
    BY <1>0, <1>4, <2>1, OneUserTyped DEF AccountStep, PasswordSet
<1>5. ASSUME NEW c \in Challenge, CompletePassword(c)
      PROVE  UsersTyped' /\ AccountStep
  <2> DEFINE u == challenge[c].user
  <2>1. u \in User
    BY <1>5 DEF Typed, ChallengesTyped, CompletePassword
  <2>2. /\ account' = [account EXCEPT ![u] = [NewVersion(account[u], "password") EXCEPT !.setup = FALSE, !.verified = TRUE]]
        /\ Fresh /\ UNCHANGED <<claim, saved>>
    BY <1>5 DEF CompletePassword, desk
  <2> HIDE DEF u
  <2> QED
    BY <1>0, <1>4, <2>1, <2>2, CompletePasswordDoes
<1>6. ASSUME NEW u \in User, ResetPassword(u)
      PROVE  UsersTyped' /\ AccountStep
  <2>1. /\ account' = [account EXCEPT ![u] = [NewVersion(account[u], "password") EXCEPT !.setup = FALSE]]
        /\ Fresh /\ UNCHANGED <<claim, saved>>
    BY <1>6 DEF ResetPassword, desk
  <2> QED
    BY <1>0, <1>4, <2>1, ResetPasswordDoes
<1>7. ASSUME NEW u \in User, ChangeRole(u)
      PROVE  UsersTyped' /\ AccountStep
  <2>1. /\ account' = [account EXCEPT ![u] = NewVersion(account[u], "role")]
        /\ Fresh /\ UNCHANGED <<claim, saved>>
    BY <1>7 DEF ChangeRole, desk
  <2>2. Changes(u) /\ account'[u].version = account[u].version + 1
    BY <1>0, <2>1, ChangeRoleDoes
  <2>3. claim' \in [Address -> User \union {None}]
    BY <1>0, <2>1 DEF UsersTyped
  <2> QED
    BY <1>0, <2>1, <2>2, <2>3, OneUserTyped DEF AccountStep
<1>8. ASSUME NEW n \in Conn, ChangeCommit(n)
      PROVE  UsersTyped' /\ AccountStep
  <2> DEFINE u == req[n].user
  <2>1. u \in User
    BY <1>8 DEF Typed, RequestsKnow, RequestKnows, ChangeCommit, At
  <2>2. /\ account' = [account EXCEPT ![u] = NewVersion(account[u], "password")]
        /\ Fresh /\ UNCHANGED <<claim, saved>>
    BY <1>8 DEF ChangeCommit, desk
  <2> HIDE DEF u
  <2> QED
    BY <1>0, <1>4, <2>1, <2>2, ChangePasswordDoes
<1>9. ASSUME NEW u \in User, NEW status \in Statuses, account' = [account EXCEPT ![u].status = status],
             claim' \in [Address -> User \union {None}], UNCHANGED <<saved, fresh>>
      PROVE  UsersTyped' /\ AccountStep
  BY <1>0, <1>9, StatusDoes, OneUserTyped DEF AccountStep
<1>10. ASSUME NEW u \in User, Reactivate(u) \/ RestoreUser(u)
       PROVE  UsersTyped' /\ AccountStep
  <2>1. account' = [account EXCEPT ![u].status = "active"] /\ "active" \in Statuses /\ UNCHANGED <<saved, fresh>>
    BY <1>10 DEF Reactivate, RestoreUser, desk, Statuses
  <2>2. claim' \in [Address -> User \union {None}]
    BY <1>0, <1>10, KeepingTyped DEF Reactivate, RestoreUser, UsersTyped
  <2> QED
    BY <1>9, <2>1, <2>2
<1>11. ASSUME NEW n \in Conn, NEW u \in User, Deactivate(n, u)
       PROVE  UsersTyped' /\ AccountStep
  <2>1. account' = [account EXCEPT ![u].status = "inactive"] /\ "inactive" \in Statuses /\ UNCHANGED <<claim, saved, fresh>>
    BY <1>11 DEF Deactivate, desk, Statuses
  <2>2. claim' \in [Address -> User \union {None}]
    BY <1>0, <2>1 DEF UsersTyped
  <2> QED
    BY <1>9, <2>1, <2>2
<1>12. ASSUME NEW n \in Conn, NEW u \in User, ArchiveUser(n, u)
       PROVE  UsersTyped' /\ AccountStep
  <2>1. /\ account' = [account EXCEPT ![u].status = "archived"] /\ "archived" \in Statuses
        /\ UNCHANGED <<saved, fresh>> /\ claim' = Keeping(u, {})
    BY <1>12 DEF ArchiveUser, desk, Statuses
  <2>2. claim' \in [Address -> User \union {None}]
    BY <1>0, <2>1, KeepingTyped
  <2> QED
    BY <1>9, <2>1, <2>2
<1>13. CASE TakeSnapshot
  BY <1>0, <1>13 DEF TakeSnapshot, UsersTyped, AccountStep
<1>14. CASE Restore
  BY <1>0, <1>14, RestoreDoes DEF UsersTyped, AccountStep
<1> QED
  BY <1>1, <1>2, <1>3, <1>5, <1>6, <1>7, <1>8, <1>10, <1>11, <1>12, <1>13, <1>14, UsersTouched

(* --------------------------------------------------------------- addresses *)

LEMMA HeldAreAddresses ==
  ASSUME UsersTyped, NEW u \in User
  PROVE  Held(u) \subseteq Address /\ account[u].email \in Held(u)
BY AccountsAssumption DEF UsersTyped, AccountRow, Held

(* A user keeps or gains addresses that were free or his.                  *)
LEMMA ClaimsKept ==
  ASSUME UsersTyped, UsersTyped', AddressesClaimed, NEW u \in User, Changes(u), NEW S, claim' = Keeping(u, S),
         \A a \in S : CanClaim(u, a),
         account'[u].status # "archived" => Held(u)' \subseteq S
  PROVE  AddressesClaimed'
<1>1. \A a \in Address : claim'[a] = IF a \in S THEN u ELSE IF claim[a] = u THEN None ELSE claim[a]
  BY KeepingIs
<1>2. ASSUME NEW v \in User, account'[v].status # "archived", NEW a \in Held(v)'
      PROVE  claim'[a] = v
  <2>1. a \in Address
    BY <1>2 DEF UsersTyped, AccountRow, Held
  <2>2. CASE v = u
    BY <1>1, <1>2, <2>1, <2>2
  <2>3. CASE v # u
    <3>1. account'[v] = account[v]
      BY <2>3 DEF Changes
    <3>2. claim[a] = v
      BY <1>2, <3>1 DEF AddressesClaimed, Held
    <3>3. a \notin S
      BY <2>3, <3>2, AccountsAssumption DEF CanClaim
    <3> QED
      BY <1>1, <2>1, <2>3, <3>2, <3>3
  <2> QED
    BY <2>2, <2>3
<1> QED
  BY <1>2 DEF AddressesClaimed

(* A user keeps his addresses.                                             *)
LEMMA ClaimsStay ==
  ASSUME AddressesClaimed, NEW u \in User, Changes(u), SameAddresses(u), claim' = claim,
         account[u].status # "archived"
  PROVE  AddressesClaimed'
BY DEF AddressesClaimed, Changes, SameAddresses, Held

LEMMA AddressesStep ==
  ASSUME Typed, UsersTyped', AddressesClaimed, SavedApart, [Next]_vars
  PROVE  AddressesClaimed' /\ SavedApart'
<1>0. UsersTyped
  BY DEF Typed
<1>1. CASE UNCHANGED <<account, claim, saved, fresh>>
  BY <1>1 DEF AddressesClaimed, SavedApart, HeldInSnapshot, Held
<1>2. ASSUME saved' = saved
      PROVE  SavedApart'
  BY <1>2 DEF SavedApart, HeldInSnapshot
<1>3. ASSUME NEW u \in User, NEW c \in Challenge, NEW a \in Address, StageAddress(u, a, c)
      PROVE  AddressesClaimed' /\ SavedApart'
  <2> DEFINE S == IF account[u].setup THEN {a} ELSE {a, account[u].email}
  <2>1. Changes(u) /\ Held(u)' \subseteq S
    BY <1>0, <1>3, StageAddressDoes DEF Held
  <2>2. claim' = Keeping(u, S) /\ saved' = saved
    BY <1>3 DEF StageAddress, desk
  <2>3. claim[account[u].email] = u
    BY <1>0, <1>3, HeldAreAddresses DEF StageAddress, AddressesClaimed
  <2>4. \A b \in S : CanClaim(u, b)
    BY <1>3, <2>3 DEF StageAddress, CanClaim
  <2> HIDE DEF S
  <2> QED
    BY <1>0, <1>2, <2>1, <2>2, <2>4, ClaimsKept
<1>4. ASSUME NEW c \in Challenge, VerifyEmail(c)
      PROVE  AddressesClaimed' /\ SavedApart'
  <2>1. PICK u \in User, a \in Address : u = challenge[c].user /\ a = challenge[c].email
    BY <1>4 DEF Typed, ChallengesTyped, VerifyEmail
  <2>2. /\ account' = [account EXCEPT ![u].email = a, ![u].pending = None, ![u].verified = TRUE]
        /\ claim' = Keeping(u, {a}) /\ saved' = saved /\ CanClaim(u, a)
    BY <1>4, <2>1 DEF VerifyEmail, desk
  <2>3. Changes(u) /\ account'[u].email = a /\ account'[u].pending = None
    BY <1>0, <2>2, VerifyEmailDoes
  <2>4. Held(u)' \subseteq {a}
    BY <2>3 DEF Held
  <2> QED
    BY <1>0, <1>2, <2>2, <2>3, <2>4, ClaimsKept
<1>5. ASSUME NEW u \in User, PasswordSet(u), UNCHANGED <<claim, saved>>
      PROVE  AddressesClaimed' /\ SavedApart'
  <2>1. CASE account[u].status = "archived"
    BY <1>5, <2>1 DEF AddressesClaimed, PasswordSet, Changes, SameStatus, SavedApart, HeldInSnapshot, Held
  <2>2. CASE account[u].status # "archived"
    BY <1>2, <1>5, <2>2, ClaimsStay DEF PasswordSet
  <2> QED
    BY <2>1, <2>2
<1>6. ASSUME NEW c \in Challenge, CompletePassword(c)
      PROVE  AddressesClaimed' /\ SavedApart'
  <2> DEFINE u == challenge[c].user
  <2>1. u \in User
    BY <1>6 DEF Typed, ChallengesTyped, CompletePassword
  <2>2. /\ account' = [account EXCEPT ![u] = [NewVersion(account[u], "password") EXCEPT !.setup = FALSE, !.verified = TRUE]]
        /\ UNCHANGED <<claim, saved>>
    BY <1>6 DEF CompletePassword, desk
  <2> HIDE DEF u
  <2> QED
    BY <1>0, <1>5, <2>1, <2>2, CompletePasswordDoes
<1>7. ASSUME NEW u \in User, ResetPassword(u)
      PROVE  AddressesClaimed' /\ SavedApart'
  <2>1. /\ account' = [account EXCEPT ![u] = [NewVersion(account[u], "password") EXCEPT !.setup = FALSE]]
        /\ UNCHANGED <<claim, saved>>
    BY <1>7 DEF ResetPassword, desk
  <2> QED
    BY <1>0, <1>5, <2>1, ResetPasswordDoes
<1>8. ASSUME NEW u \in User, ChangeRole(u)
      PROVE  AddressesClaimed' /\ SavedApart'
  <2>1. /\ account' = [account EXCEPT ![u] = NewVersion(account[u], "role")]
        /\ account[u].status # "archived" /\ UNCHANGED <<claim, saved>>
    BY <1>8 DEF ChangeRole, desk
  <2> QED
    BY <1>0, <1>2, <2>1, ChangeRoleDoes, ClaimsStay
<1>9. ASSUME NEW n \in Conn, ChangeCommit(n)
      PROVE  AddressesClaimed' /\ SavedApart'
  <2> DEFINE u == req[n].user
  <2>1. u \in User
    BY <1>9 DEF Typed, RequestsKnow, RequestKnows, ChangeCommit, At
  <2>2. account' = [account EXCEPT ![u] = NewVersion(account[u], "password")] /\ UNCHANGED <<claim, saved>>
    BY <1>9 DEF ChangeCommit, desk
  <2> HIDE DEF u
  <2> QED
    BY <1>0, <1>5, <2>1, <2>2, ChangePasswordDoes
<1>10. ASSUME NEW u \in User, NEW status \in {"active", "inactive"}, account[u].status # "archived",
              account' = [account EXCEPT ![u].status = status], UNCHANGED <<claim, saved>>
       PROVE  AddressesClaimed' /\ SavedApart'
  <2>1. status \in Statuses
    BY DEF Statuses
  <2> QED
    BY <1>0, <1>2, <1>10, <2>1, StatusDoes, ClaimsStay
<1>11. ASSUME NEW u \in User, Reactivate(u)
       PROVE  AddressesClaimed' /\ SavedApart'
  BY <1>10, <1>11 DEF Reactivate, desk
<1>12. ASSUME NEW n \in Conn, NEW u \in User, Deactivate(n, u)
       PROVE  AddressesClaimed' /\ SavedApart'
  BY <1>10, <1>12 DEF Deactivate, Active, desk
<1>13. ASSUME NEW u \in User, RestoreUser(u)
       PROVE  AddressesClaimed' /\ SavedApart'
  <2>1. /\ account' = [account EXCEPT ![u].status = "active"] /\ "active" \in Statuses
        /\ saved' = saved /\ claim' = Keeping(u, Held(u)) /\ \A a \in Held(u) : CanClaim(u, a)
    BY <1>13 DEF RestoreUser, desk, Statuses
  <2>2. Changes(u) /\ SameAddresses(u)
    BY <1>0, <2>1, StatusDoes
  <2>3. Held(u)' = Held(u)
    BY <2>2 DEF Held, SameAddresses
  <2> QED
    BY <1>0, <1>2, <2>1, <2>2, <2>3, ClaimsKept
<1>14. ASSUME NEW n \in Conn, NEW u \in User, ArchiveUser(n, u)
       PROVE  AddressesClaimed' /\ SavedApart'
  <2>1. /\ account' = [account EXCEPT ![u].status = "archived"] /\ "archived" \in Statuses
        /\ saved' = saved /\ claim' = Keeping(u, {})
    BY <1>14 DEF ArchiveUser, desk, Statuses
  <2>2. Changes(u) /\ account'[u].status = "archived"
    BY <1>0, <2>1, StatusDoes
  <2> QED
    BY <1>0, <1>2, <2>1, <2>2, ClaimsKept
<1>15. CASE TakeSnapshot
  <2>1. saved' = account /\ account' = account /\ claim' = claim
    BY <1>15 DEF TakeSnapshot
  <2>2. AddressesClaimed'
    BY <2>1 DEF AddressesClaimed, Held
  <2>3. \A u \in User : HeldInSnapshot(u)' = Held(u)
    BY <2>1 DEF HeldInSnapshot, Held
  <2>4. ASSUME NEW u \in User, NEW v \in User, account[u].status # "archived", account[v].status # "archived",
               NEW a \in Held(u) \intersect Held(v)
        PROVE  u = v
    BY <2>4 DEF AddressesClaimed
  <2> QED
    BY <2>1, <2>2, <2>3, <2>4 DEF SavedApart
<1>16. CASE Restore
  <2>1. saved # None /\ account' = saved /\ saved' = saved /\ saved \in [User -> AccountRow]
    BY <1>0, <1>16, RestoreDoes DEF UsersTyped
  <2>2. ASSUME NEW u \in User, saved[u].status # "archived", NEW a \in HeldInSnapshot(u)
        PROVE  claim'[a] = u
    <3> DEFINE owners == {v \in User : saved[v].status # "archived" /\ a \in {saved[v].email, saved[v].pending}}
    <3>1. a \in Address /\ a # None
      BY <2>1 DEF HeldInSnapshot, AccountRow
    <3>2. u \in owners
      BY <2>2 DEF HeldInSnapshot
    <3>3. \A v \in owners : v = u
      BY <2>1, <2>2, <3>1 DEF SavedApart, HeldInSnapshot
    <3>4. claim'[a] = IF owners = {} THEN None ELSE CHOOSE v \in owners : TRUE
      BY <1>16, <3>1 DEF Restore
    <3> HIDE DEF owners
    <3>5. (CHOOSE v \in owners : TRUE) \in owners
      BY <3>2
    <3> QED
      BY <3>2, <3>3, <3>4, <3>5
  <2>3. AddressesClaimed'
    BY <2>1, <2>2 DEF AddressesClaimed, Held, HeldInSnapshot
  <2> QED
    BY <1>2, <2>1, <2>3
<1> QED
  BY <1>1, <1>3, <1>4, <1>6, <1>7, <1>8, <1>9, <1>11, <1>12, <1>13, <1>14, <1>15, <1>16, UsersTouched

(* -------------------------------------------------------------- challenges *)

(* What ChallengesTyped and ChallengesAreCurrent say, of any table.        *)
InUse(table, c) == table[c] # NoChallenge
TableTyped(table) ==
  /\ table \in [Challenge -> ChallengeRow]
  /\ \A c \in Challenge : InUse(table, c) => /\ table[c].user \in User /\ table[c].purpose \in Purposes
                                             /\ table[c].email \in Address
Clash(p, q) == Replaces(p) \intersect Replaces(q) # {}
TableCurrent(table) ==
  \A c \in Challenge : InUse(table, c) =>
    /\ table[c].password = account[table[c].user].password
    /\ \A d \in Challenge : InUse(table, d) /\ table[d].user = table[c].user /\ Clash(table[d].purpose, table[c].purpose)
                            => c = d

LEMMA TableNow == (ChallengesTyped <=> TableTyped(challenge)) /\ (ChallengesAreCurrent <=> TableCurrent(challenge))
BY DEF ChallengesTyped, TableTyped, ChallengesAreCurrent, TableCurrent, InUse, Clash, Usable

LEMMA TableThen ==
  ASSUME NEW table, challenge' = table, TableTyped(table), TableCurrent(table),
         \A u \in User : account'[u].password = account[u].password
  PROVE  ChallengesTyped' /\ ChallengesAreCurrent'
BY DEF ChallengesTyped, TableTyped, ChallengesAreCurrent, TableCurrent, InUse, Clash, Usable

LEMMA Clashes ==
  ASSUME NEW p \in Purposes, NEW q \in Purposes
  PROVE  Clash(p, q) => p = q \/ (p \in {"recovery", "reset"} /\ q \in {"recovery", "reset"})
BY DEF Clash, Replaces, Purposes

LEMMA NoChallengeIsRow == NoChallenge \in ChallengeRow /\ NoChallenge.user \notin User
BY AccountsAssumption DEF NoChallenge, ChallengeRow

LEMMA InvalidatedIs ==
  ASSUME NEW table, TableTyped(table), TableCurrent(table), NEW u, NEW P
  PROVE  LET new == Invalidated(table, u, P)
         IN  /\ TableTyped(new) /\ TableCurrent(new)
             /\ \A c \in Challenge : /\ InUse(new, c) => /\ InUse(table, c) /\ new[c] = table[c]
                                                         /\ ~(table[c].user = u /\ table[c].purpose \in P)
                                     /\ ~InUse(table, c) => ~InUse(new, c)
<1> DEFINE new == Invalidated(table, u, P)
<1>1. \A c \in Challenge : new[c] = IF table[c].user = u /\ table[c].purpose \in P THEN NoChallenge ELSE table[c]
  BY DEF Invalidated
<1>2. new \in [Challenge -> ChallengeRow]
  BY NoChallengeIsRow DEF Invalidated, TableTyped
<1> HIDE DEF new
<1>3. \A c \in Challenge : /\ InUse(new, c) => /\ InUse(table, c) /\ new[c] = table[c]
                                               /\ ~(table[c].user = u /\ table[c].purpose \in P)
                           /\ ~InUse(table, c) => ~InUse(new, c)
  BY <1>1 DEF InUse
<1>4. TableTyped(new)
  BY <1>2, <1>3 DEF TableTyped
<1>5. TableCurrent(new)
  BY <1>3 DEF TableCurrent
<1> QED
  BY <1>3, <1>4, <1>5 DEF new

LEMMA AddedIs ==
  ASSUME UsersTyped, NEW table, TableTyped(table), TableCurrent(table),
         NEW u \in User, NEW purpose \in Purposes, NEW a \in Address, NEW c \in Challenge,
         \A d \in Challenge : InUse(table, d) /\ table[d].user = u
                              => ~Clash(table[d].purpose, purpose) /\ ~Clash(purpose, table[d].purpose)
  PROVE  LET new == Added(table, u, purpose, a, c) IN TableTyped(new) /\ TableCurrent(new)
<1> DEFINE row == [user |-> u, purpose |-> purpose, email |-> a, attempts |-> 0, password |-> account[u].password]
           new == [table EXCEPT ![c] = row]
<1>1. row \in ChallengeRow
  BY AccountsAssumption DEF ChallengeRow, UsersTyped, AccountRow
<1>2. /\ row.user = u /\ row.purpose = purpose /\ row.email = a /\ row.password = account[u].password
      /\ row # NoChallenge
  BY AccountsAssumption DEF NoChallenge
<1> HIDE DEF row
<1>3. new \in [Challenge -> ChallengeRow] /\ new[c] = row /\ \A d \in Challenge \ {c} : new[d] = table[d]
  BY <1>1 DEF TableTyped
<1> HIDE DEF new
<1>4. TableTyped(new)
  BY <1>2, <1>3 DEF TableTyped, InUse
<1>5. TableCurrent(new)
  BY <1>2, <1>3 DEF TableCurrent, InUse
<1>6. Added(table, u, purpose, a, c) = new
  BY DEF Added, new, row
<1> QED
  BY <1>4, <1>5, <1>6

LEMMA ChallengedIs ==
  ASSUME UsersTyped, TableTyped(challenge), TableCurrent(challenge),
         NEW u \in User, NEW purpose \in Purposes \ {"reset"}, NEW a \in Address, NEW c \in Challenge
  PROVE  LET new == Challenged(u, purpose, a, c) IN TableTyped(new) /\ TableCurrent(new)
<1> DEFINE left == Invalidated(challenge, u, Replaces(purpose))
<1>1. /\ TableTyped(left) /\ TableCurrent(left)
      /\ \A d \in Challenge : InUse(left, d) => ~(left[d].user = u /\ left[d].purpose \in Replaces(purpose))
  BY InvalidatedIs
<1> HIDE DEF left
<1>2. \A d \in Challenge : InUse(left, d) /\ left[d].user = u
        => ~Clash(left[d].purpose, purpose) /\ ~Clash(purpose, left[d].purpose)
  BY <1>1, Clashes DEF Replaces, TableTyped
<1>3. TableTyped(Added(left, u, purpose, a, c)) /\ TableCurrent(Added(left, u, purpose, a, c))
  BY <1>1, <1>2, AddedIs
<1> QED
  BY <1>3 DEF Challenged, left

(* A guess counts; the row is the same otherwise.                          *)
LEMMA CountedIs ==
  ASSUME TableTyped(challenge), TableCurrent(challenge), NEW c \in Challenge, InUse(challenge, c),
         challenge[c].attempts < MaxGuesses
  PROVE  LET new == [challenge EXCEPT ![c].attempts = @ + 1]
         IN  /\ TableTyped(new) /\ TableCurrent(new)
             /\ \A d \in Challenge : InUse(new, d) <=> InUse(challenge, d)
<1> DEFINE row == [challenge[c] EXCEPT !.attempts = @ + 1]
           new == [challenge EXCEPT ![c] = row]
<1>1. challenge[c] \in ChallengeRow /\ challenge[c].attempts + 1 \in 0..MaxGuesses
  BY AccountsAssumption DEF TableTyped, ChallengeRow
<1>2. row \in ChallengeRow
  BY <1>1 DEF ChallengeRow
<1>3. /\ row.user = challenge[c].user /\ row.purpose = challenge[c].purpose
      /\ row.email = challenge[c].email /\ row.password = challenge[c].password
  BY <1>1 DEF ChallengeRow
<1>4. row # NoChallenge
  BY <1>3, NoChallengeIsRow DEF TableTyped
<1> HIDE DEF row
<1>5. new \in [Challenge -> ChallengeRow] /\ new[c] = row /\ \A d \in Challenge \ {c} : new[d] = challenge[d]
  BY <1>2 DEF TableTyped
<1>6. new = [challenge EXCEPT ![c].attempts = @ + 1]
  BY DEF row, TableTyped
<1> HIDE DEF new
<1>7. \A d \in Challenge : InUse(new, d) <=> InUse(challenge, d)
  BY <1>4, <1>5 DEF InUse
<1>8. \A d \in Challenge : /\ new[d].user = challenge[d].user /\ new[d].purpose = challenge[d].purpose
                           /\ new[d].email = challenge[d].email /\ new[d].password = challenge[d].password
  BY <1>3, <1>5
<1>9. TableTyped(new) /\ TableCurrent(new)
  BY <1>5, <1>7, <1>8 DEF TableTyped, TableCurrent
<1> QED
  BY <1>6, <1>7, <1>9

(* Which steps touch the challenges.                                       *)
LEMMA ChallengesTouched ==
  ASSUME [Next]_vars
  PROVE  \/ UNCHANGED <<account, challenge>>
         \/ \E u \in User, c \in Challenge : RequestRecovery(u, c) \/ RequestVerification(u, c) \/ Invite(u, c)
         \/ \E u \in User, c \in Challenge, a \in Address : StageAddress(u, a, c)
         \/ \E c, d \in Challenge, right \in BOOLEAN : VerifyRecovery(c, right, d)
         \/ \E c \in Challenge : ChallengeExpires(c) \/ VerifyEmail(c) \/ CompletePassword(c)
         \/ \E u \in User : ResetPassword(u) \/ ChangeRole(u) \/ Reactivate(u) \/ RestoreUser(u)
         \/ \E n \in Conn, u \in User : Deactivate(n, u) \/ ArchiveUser(n, u)
         \/ \E n \in Conn : ChangeCommit(n)
         \/ Restore
<1>1. CASE UNCHANGED vars
  BY <1>1 DEF vars
<1>2. ASSUME NEW n \in Conn, NEW u \in User, LoginRead(n, u) \/ ChangeRead(n, u)
      PROVE  UNCHANGED <<account, challenge>>
  BY <1>2 DEF LoginRead, ChangeRead
<1>3. ASSUME NEW n \in Conn, RevokeAll(n) \/ SignToken(n) \/ RefreshRead(n) \/ RefreshSign(n) \/ Abandon(n)
      PROVE  UNCHANGED <<account, challenge>>
  BY <1>3 DEF RevokeAll, SignToken, RefreshRead, RefreshSign, Abandon
<1>4. ASSUME NEW n \in Conn, NEW s \in Session, IssueSession(n, s) \/ RefreshCheck(n, s) \/ RefreshRotate(n, s)
      PROVE  UNCHANGED <<account, challenge>>
  BY <1>4 DEF IssueSession, RefreshCheck, RefreshRotate
<1>5. ASSUME NEW s \in Session, EndSession(s)
      PROVE  UNCHANGED <<account, challenge>>
  BY <1>5 DEF EndSession
<1>6. CASE Tick \/ TakeSnapshot
  BY <1>6 DEF Tick, TakeSnapshot
<1>7. CASE Next
  BY <1>7, <1>2, <1>3, <1>4, <1>5, <1>6 DEF Next
<1> QED
  BY <1>1, <1>7

LEMMA ChallengesStep ==
  ASSUME Typed, ChallengesAreCurrent, [Next]_vars
  PROVE  ChallengesTyped' /\ ChallengesAreCurrent'
<1>0. UsersTyped /\ TableTyped(challenge) /\ TableCurrent(challenge)
  BY TableNow DEF Typed
<1> DEFINE SamePasswords == \A u \in User : account'[u].password = account[u].password
<1>1. CASE UNCHANGED <<account, challenge>>
  BY <1>0, <1>1, TableThen
<1>2. ASSUME NEW u \in User, NEW c \in Challenge, RequestRecovery(u, c) \/ RequestVerification(u, c) \/ Invite(u, c)
      PROVE  ChallengesTyped' /\ ChallengesAreCurrent'
  <2>1. account[u].email \in Address /\ (account[u].pending # None => account[u].pending \in Address)
    BY <1>0 DEF UsersTyped, AccountRow
  <2>2. PICK purpose \in Purposes \ {"reset"}, a \in Address : challenge' = Challenged(u, purpose, a, c)
    BY <1>2, <2>1 DEF RequestRecovery, RequestVerification, Invite, Purposes
  <2>3. SamePasswords
    BY <1>2 DEF RequestRecovery, RequestVerification, Invite
  <2> QED
    BY <1>0, <2>2, <2>3, ChallengedIs, TableThen
<1>3. ASSUME NEW u \in User, NEW c \in Challenge, NEW a \in Address, StageAddress(u, a, c)
      PROVE  ChallengesTyped' /\ ChallengesAreCurrent'
  <2> DEFINE withdrawn == Invalidated(challenge, u, {"verify_email"})
             both == Invalidated(withdrawn, u, {"setup"})
  <2>1. /\ TableTyped(withdrawn) /\ TableCurrent(withdrawn)
        /\ \A d \in Challenge : InUse(withdrawn, d) => ~(withdrawn[d].user = u /\ withdrawn[d].purpose = "verify_email")
    BY <1>0, InvalidatedIs
  <2>2. /\ TableTyped(both) /\ TableCurrent(both)
        /\ \A d \in Challenge : InUse(both, d) => ~(both[d].user = u /\ both[d].purpose = "setup")
    <3> HIDE DEF withdrawn
    <3> QED
      BY <2>1, InvalidatedIs
  <2>3. SamePasswords
    BY <1>0, <1>3, StageAddressDoes DEF Changes, SameVersion
  <2>4. CASE account[u].setup
    <3>1. challenge' = Added(both, u, "setup", a, c) /\ "setup" \in Purposes
      BY <1>3, <2>4 DEF StageAddress, Purposes
    <3> HIDE DEF both
    <3>2. \A d \in Challenge : InUse(both, d) /\ both[d].user = u
            => ~Clash(both[d].purpose, "setup") /\ ~Clash("setup", both[d].purpose)
      BY <2>2, <3>1, Clashes DEF TableTyped
    <3>3. TableTyped(Added(both, u, "setup", a, c)) /\ TableCurrent(Added(both, u, "setup", a, c))
      BY <1>0, <2>2, <3>1, <3>2, AddedIs
    <3> QED
      BY <2>3, <3>1, <3>3, TableThen
  <2>5. CASE ~account[u].setup
    <3>1. challenge' = Added(withdrawn, u, "verify_email", a, c) /\ "verify_email" \in Purposes
      BY <1>3, <2>5 DEF StageAddress, Purposes
    <3> HIDE DEF withdrawn
    <3>2. \A d \in Challenge : InUse(withdrawn, d) /\ withdrawn[d].user = u
            => ~Clash(withdrawn[d].purpose, "verify_email") /\ ~Clash("verify_email", withdrawn[d].purpose)
      BY <2>1, <3>1, Clashes DEF TableTyped
    <3>3. TableTyped(Added(withdrawn, u, "verify_email", a, c)) /\ TableCurrent(Added(withdrawn, u, "verify_email", a, c))
      BY <1>0, <2>1, <3>1, <3>2, AddedIs
    <3> QED
      BY <2>3, <3>1, <3>3, TableThen
  <2> QED
    BY <2>4, <2>5
<1>4. ASSUME NEW c \in Challenge, NEW d \in Challenge, NEW right \in BOOLEAN, VerifyRecovery(c, right, d)
      PROVE  ChallengesTyped' /\ ChallengesAreCurrent'
  <2> DEFINE counted == [challenge EXCEPT ![c].attempts = @ + 1]
  <2>1. SamePasswords /\ InUse(challenge, c) /\ challenge[c].attempts < MaxGuesses
    BY <1>4 DEF VerifyRecovery, InUse, Usable
  <2>2. TableTyped(counted) /\ TableCurrent(counted)
    BY <1>0, <2>1, CountedIs
  <2>3. CASE ~right
    <3>1. challenge' = counted
      BY <1>4, <2>3 DEF VerifyRecovery
    <3> HIDE DEF counted
    <3> QED
      BY <2>1, <2>2, <3>1, TableThen
  <2>4. CASE right
    <3>1. PICK u \in User, a \in Address : u = challenge[c].user /\ a = account[u].email
      BY <1>0, <2>1 DEF TableTyped, UsersTyped, AccountRow
    <3> DEFINE left == Invalidated(counted, u, {"recovery", "reset"})
    <3>2. challenge' = Added(left, u, "reset", a, d) /\ "reset" \in Purposes
      BY <1>4, <2>4, <3>1 DEF VerifyRecovery, Purposes
    <3> HIDE DEF counted
    <3>3. /\ TableTyped(left) /\ TableCurrent(left)
          /\ \A e \in Challenge : InUse(left, e) => ~(left[e].user = u /\ left[e].purpose \in {"recovery", "reset"})
      BY <2>2, InvalidatedIs
    <3> HIDE DEF left
    <3>4. \A e \in Challenge : InUse(left, e) /\ left[e].user = u
            => ~Clash(left[e].purpose, "reset") /\ ~Clash("reset", left[e].purpose)
      BY <3>2, <3>3, Clashes DEF TableTyped
    <3>5. TableTyped(Added(left, u, "reset", a, d)) /\ TableCurrent(Added(left, u, "reset", a, d))
      BY <1>0, <3>2, <3>3, <3>4, AddedIs
    <3> QED
      BY <2>1, <3>2, <3>5, TableThen
  <2> QED
    BY <2>3, <2>4
<1>5. ASSUME NEW c \in Challenge, ChallengeExpires(c)
      PROVE  ChallengesTyped' /\ ChallengesAreCurrent'
  <2> DEFINE new == [challenge EXCEPT ![c] = NoChallenge]
  <2>1. challenge' = new /\ SamePasswords
    BY <1>5 DEF ChallengeExpires
  <2>2. /\ new \in [Challenge -> ChallengeRow] /\ ~InUse(new, c)
        /\ \A d \in Challenge \ {c} : new[d] = challenge[d]
    BY <1>0, NoChallengeIsRow DEF TableTyped, InUse
  <2> HIDE DEF new
  <2>3. TableTyped(new) /\ TableCurrent(new)
    BY <1>0, <2>2 DEF TableTyped, TableCurrent, InUse
  <2> QED
    BY <2>1, <2>3, TableThen
<1>6. ASSUME NEW u \in User, SamePasswords, NEW P, challenge' = Invalidated(challenge, u, P)
      PROVE  ChallengesTyped' /\ ChallengesAreCurrent'
  BY <1>0, <1>6, InvalidatedIs, TableThen
<1>7. ASSUME NEW c \in Challenge, VerifyEmail(c)
      PROVE  ChallengesTyped' /\ ChallengesAreCurrent'
  <2>1. PICK u \in User, a \in Address : u = challenge[c].user /\ a = challenge[c].email
    BY <1>0, <1>7 DEF TableTyped, VerifyEmail, Usable, InUse
  <2>2. /\ account' = [account EXCEPT ![u].email = a, ![u].pending = None, ![u].verified = TRUE]
        /\ challenge' = Invalidated(challenge, u, Purposes)
    BY <1>7, <2>1 DEF VerifyEmail
  <2>3. SamePasswords
    BY <1>0, <2>2, VerifyEmailDoes DEF Changes, SameVersion
  <2> QED
    BY <1>6, <2>2, <2>3
<1>8. ASSUME NEW u \in User, PasswordSet(u), challenge' = Invalidated(challenge, u, Purposes)
      PROVE  ChallengesTyped' /\ ChallengesAreCurrent'
  <2> DEFINE new == Invalidated(challenge, u, Purposes)
  <2>1. /\ TableTyped(new) /\ TableCurrent(new)
        /\ \A c \in Challenge : InUse(new, c) => /\ InUse(challenge, c) /\ new[c] = challenge[c]
                                                 /\ ~(challenge[c].user = u /\ challenge[c].purpose \in Purposes)
    BY <1>0, InvalidatedIs
  <2> HIDE DEF new
  <2>2. \A c \in Challenge : InUse(new, c) => new[c].user \in User \ {u}
    BY <1>0, <2>1 DEF TableTyped
  <2>3. \A v \in User \ {u} : account'[v] = account[v]
    BY <1>8 DEF PasswordSet, Changes
  <2>4. challenge' = new
    BY <1>8 DEF new
  <2>5. ChallengesTyped'
    BY <2>1, <2>4 DEF ChallengesTyped, TableTyped, Usable, InUse
  <2>6. ChallengesAreCurrent'
    BY <2>1, <2>2, <2>3, <2>4 DEF ChallengesAreCurrent, TableCurrent, Usable, InUse, Clash
  <2> QED
    BY <2>5, <2>6
<1>9. ASSUME NEW c \in Challenge, CompletePassword(c)
      PROVE  ChallengesTyped' /\ ChallengesAreCurrent'
  <2>1. PICK u \in User : u = challenge[c].user
    BY <1>0, <1>9 DEF TableTyped, CompletePassword, Usable, InUse
  <2>2. /\ account' = [account EXCEPT ![u] = [NewVersion(account[u], "password") EXCEPT !.setup = FALSE, !.verified = TRUE]]
        /\ challenge' = Invalidated(challenge, u, Purposes)
    BY <1>9, <2>1 DEF CompletePassword
  <2> QED
    BY <1>0, <1>8, <2>2, CompletePasswordDoes
<1>10. ASSUME NEW u \in User, ResetPassword(u)
       PROVE  ChallengesTyped' /\ ChallengesAreCurrent'
  <2>1. /\ account' = [account EXCEPT ![u] = [NewVersion(account[u], "password") EXCEPT !.setup = FALSE]]
        /\ challenge' = Invalidated(challenge, u, Purposes)
    BY <1>10 DEF ResetPassword
  <2> QED
    BY <1>0, <1>8, <2>1, ResetPasswordDoes
<1>11. ASSUME NEW n \in Conn, ChangeCommit(n)
       PROVE  ChallengesTyped' /\ ChallengesAreCurrent'
  <2>1. PICK u \in User : u = req[n].user
    BY <1>11 DEF Typed, RequestsKnow, RequestKnows, ChangeCommit, At
  <2>2. /\ account' = [account EXCEPT ![u] = NewVersion(account[u], "password")]
        /\ challenge' = Invalidated(challenge, u, Purposes)
    BY <1>11, <2>1 DEF ChangeCommit
  <2> QED
    BY <1>0, <1>8, <2>2, ChangePasswordDoes
<1>12. ASSUME NEW u \in User, ChangeRole(u)
       PROVE  ChallengesTyped' /\ ChallengesAreCurrent'
  <2>1. account' = [account EXCEPT ![u] = NewVersion(account[u], "role")] /\ challenge' = challenge
    BY <1>12 DEF ChangeRole
  <2>2. SamePasswords
    BY <1>0, <2>1, ChangeRoleDoes DEF Changes
  <2> QED
    BY <1>0, <2>1, <2>2, TableThen
<1>13. ASSUME NEW u \in User, NEW status \in Statuses, account' = [account EXCEPT ![u].status = status]
       PROVE  SamePasswords
  BY <1>0, <1>13, StatusDoes DEF Changes, SameVersion
<1>14. ASSUME NEW n \in Conn, NEW u \in User, Reactivate(u) \/ RestoreUser(u) \/ Deactivate(n, u)
       PROVE  ChallengesTyped' /\ ChallengesAreCurrent'
  <2>1. challenge' = challenge /\ SamePasswords
    BY <1>13, <1>14 DEF Reactivate, RestoreUser, Deactivate, Statuses
  <2> QED
    BY <1>0, <2>1, TableThen
<1>15. ASSUME NEW u \in User, Reactivate(u) \/ RestoreUser(u)
       PROVE  ChallengesTyped' /\ ChallengesAreCurrent'
  <2>1. challenge' = challenge /\ SamePasswords
    BY <1>13, <1>15 DEF Reactivate, RestoreUser, Statuses
  <2> QED
    BY <1>0, <2>1, TableThen
<1>16. ASSUME NEW n \in Conn, NEW u \in User, ArchiveUser(n, u)
       PROVE  ChallengesTyped' /\ ChallengesAreCurrent'
  BY <1>6, <1>13, <1>16 DEF ArchiveUser, Statuses
<1>17. CASE Restore
  <2>1. \A c \in Challenge : challenge'[c] = NoChallenge
    BY <1>17 DEF Restore
  <2>2. challenge' \in [Challenge -> ChallengeRow]
    BY <1>17, NoChallengeIsRow DEF Restore
  <2> QED
    BY <2>1, <2>2 DEF ChallengesTyped, ChallengesAreCurrent, Usable
<1> QED
  BY <1>1, <1>2, <1>3, <1>4, <1>5, <1>7, <1>9, <1>10, <1>11, <1>12, <1>14, <1>15, <1>16, <1>17, ChallengesTouched

(* ----------------------------------------------------- sessions and requests *)

(* What fits an account goes on to fit it: its version does not go back.   *)
LEMMA FitsLasts ==
  ASSUME UsersTyped, UsersTyped', AccountStep, ~Restore, NEW u \in User, NEW version \in Nat, NEW password, NEW role,
         Fits(u, version, password, role)
  PROVE  Fits(u, version, password, role)'
<1>1. account[u].version \in Nat
  BY DEF UsersTyped, AccountRow
<1>2. CASE UNCHANGED account
  BY <1>2 DEF Fits
<1>3. ASSUME NEW v \in User, Changes(v), SameVersion(v) \/ account'[v].version = account[v].version + 1
      PROVE  Fits(u, version, password, role)'
  <2>1. CASE v = u
    BY <1>1, <1>3, <2>1 DEF Fits, SameVersion
  <2>2. CASE v # u
    BY <1>3, <2>2 DEF Fits, Changes
  <2> QED
    BY <2>1, <2>2
<1> QED
  BY <1>2, <1>3 DEF AccountStep

LEMMA SessionFitsLasts ==
  ASSUME UsersTyped, UsersTyped', SessionsTyped, AccountStep, ~Restore, NEW s \in Session, SessionFits(s),
         session[s].user \in User, session'[s].user = session[s].user, session'[s].version = session[s].version,
         session'[s].password = session[s].password, session'[s].role = session[s].role
  PROVE  SessionFits(s)'
<1>1. session[s].version \in Nat
  BY DEF SessionsTyped, SessionRow
<1>2. PICK u \in User, version \in Nat, password \in {session[s].password}, role \in {session[s].role} :
         u = session[s].user /\ version = session[s].version
  BY <1>1
<1>3. Fits(u, version, password, role)
  BY <1>2 DEF SessionFits
<1>4. Fits(u, version, password, role)'
  BY <1>3, FitsLasts
<1> QED
  BY <1>2, <1>4 DEF SessionFits, Fits

(* The row of a session lasts but for its tokens.                          *)
SessionsLast ==
  \A s \in Session : session[s].user # None =>
    /\ session'[s].user = session[s].user /\ session'[s].version = session[s].version
    /\ session'[s].password = session[s].password /\ session'[s].role = session[s].role

ClockGoesOn == now' \in Nat /\ now <= now' /\ now' <= MaxTime /\ invalidBefore' = invalidBefore /\ restores' = restores

SessionsOK == SessionsTyped /\ OneSessionPerSignIn /\ SessionsFit

(* Sessions end.                                                           *)
SessionsEnd ==
  /\ session' \in [Session -> SessionRow]
  /\ \A s \in Session :
       /\ session'[s].user = session[s].user /\ session'[s].version = session[s].version
       /\ session'[s].password = session[s].password /\ session'[s].role = session[s].role
       /\ session'[s].iat = session[s].iat /\ session'[s].issued = session[s].issued
       /\ session'[s].chain = session[s].chain /\ session'[s].straddles = session[s].straddles
       /\ session'[s].live => session[s].live

LEMMA EndedIsRow ==
  ASSUME NEW row \in SessionRow
  PROVE  LET ended == [row EXCEPT !.live = FALSE]
         IN  /\ ended \in SessionRow
             /\ ended.user = row.user /\ ended.version = row.version /\ ended.password = row.password
             /\ ended.role = row.role /\ ended.iat = row.iat /\ ended.issued = row.issued
             /\ ended.chain = row.chain /\ ended.straddles = row.straddles /\ ~ended.live
BY DEF SessionRow

LEMMA SomeEnd ==
  ASSUME SessionsTyped, DOMAIN session' = Session, session' = [s \in Session |-> session'[s]],
         \A s \in Session : session'[s] \in {session[s], [session[s] EXCEPT !.live = FALSE]}
  PROVE  SessionsEnd
<1>1. ASSUME NEW s \in Session
      PROVE  /\ session'[s] \in SessionRow
             /\ session'[s].user = session[s].user /\ session'[s].version = session[s].version
             /\ session'[s].password = session[s].password /\ session'[s].role = session[s].role
             /\ session'[s].iat = session[s].iat /\ session'[s].issued = session[s].issued
             /\ session'[s].chain = session[s].chain /\ session'[s].straddles = session[s].straddles
             /\ session'[s].live => session[s].live
  <2>1. session[s] \in SessionRow
    BY DEF SessionsTyped
  <2>2. CASE session'[s] = session[s]
    BY <2>1, <2>2
  <2>3. CASE session'[s] = [session[s] EXCEPT !.live = FALSE]
    BY <2>1, <2>3, EndedIsRow
  <2> QED
    BY <2>2, <2>3
<1>2. session' \in [Session -> SessionRow]
  BY <1>1
<1> QED
  BY <1>1, <1>2 DEF SessionsEnd

LEMMA RevokedEnd ==
  ASSUME SessionsTyped, NEW u, session' = Revoked(u)
  PROVE  SessionsEnd
BY SomeEnd DEF Revoked

LEMMA UnchangedEnd ==
  ASSUME SessionsTyped, session' = session
  PROVE  SessionsEnd
BY DEF SessionsTyped, SessionsEnd

LEMMA WhenSessionsEnd ==
  ASSUME Typed, UsersTyped', SessionsOK, AccountStep, ~Restore, SessionsEnd, ClockGoesOn
  PROVE  SessionsOK' /\ SessionsLast
<1>1. SessionsLast
  BY DEF SessionsEnd, SessionsLast
<1>2. OneSessionPerSignIn'
  BY DEF SessionsOK, OneSessionPerSignIn, SessionsEnd
<1>3. ASSUME NEW s \in Session
      PROVE  session'[s].iat <= now' /\ session'[s].issued <= now'
  <2>1. session[s].iat <= now /\ session[s].issued <= now /\ now \in Nat /\ session[s].iat \in Nat /\ session[s].issued \in Nat
    BY DEF SessionsOK, SessionsTyped, SessionRow
  <2> QED
    BY <2>1 DEF SessionsEnd, ClockGoesOn
<1>4. SessionsTyped'
  <2>1. invalidBefore' \in Nat /\ invalidBefore' <= now'
    BY DEF SessionsOK, SessionsTyped, ClockGoesOn
  <2>2. ASSUME NEW s \in Session, session'[s].live
        PROVE  session'[s].user \in User /\ session'[s].chain \in Session /\ session'[session'[s].chain].user # None
    BY <2>2 DEF SessionsOK, SessionsTyped, SessionsEnd
  <2> QED
    BY <1>3, <2>1, <2>2 DEF SessionsTyped, SessionsEnd, ClockGoesOn
<1>5. ASSUME NEW s \in Session, Usables(s)'
      PROVE  SessionFits(s)'
  <2>1. Usables(s)
    BY <1>5 DEF Usables, SessionsEnd, ClockGoesOn
  <2>2. SessionFits(s) /\ session[s].user \in User
    BY <2>1 DEF SessionsOK, SessionsFit, Usables
  <2> QED
    BY <2>2, SessionFitsLasts DEF SessionsEnd, Typed
<1> QED
  BY <1>1, <1>2, <1>4, <1>5 DEF SessionsOK, SessionsFit

(* Row t is issued; other rows may end.                                    *)
LEMMA WhenOneIsIssued ==
  ASSUME Typed, SessionsOK, account' = account, ClockGoesOn, now' = now,
         NEW t \in Session, NEW new \in SessionRow, session[t] = NoSession,
         session' \in [Session -> SessionRow], session'[t] = new,
         \A x \in Session \ {t} :
           /\ session'[x].user = session[x].user /\ session'[x].version = session[x].version
           /\ session'[x].password = session[x].password /\ session'[x].role = session[x].role
           /\ session'[x].iat = session[x].iat /\ session'[x].issued = session[x].issued
           /\ session'[x].chain = session[x].chain /\ session'[x].straddles = session[x].straddles
           /\ session'[x].live => session[x].live /\ session[x].chain # new.chain,
         new.user \in User, new.iat <= now, new.issued <= now, new.chain \in Session,
         new.chain = t \/ session[new.chain].user # None,
         ~new.straddles => Fits(new.user, new.version, new.password, new.role)
  PROVE  SessionsOK' /\ SessionsLast
<1>1. session[t].user = None /\ None \notin User
  BY AccountsAssumption DEF NoSession
<1>2. SessionsLast
  BY <1>1 DEF SessionsLast
<1>3. OneSessionPerSignIn'
  BY DEF SessionsOK, OneSessionPerSignIn
<1>4. SessionsTyped'
  <2>1. ASSUME NEW x \in Session, session'[x].live
        PROVE  session'[x].user \in User /\ session'[x].chain \in Session /\ session'[session'[x].chain].user # None
    <3>1. CASE x = t
      BY <1>1, <3>1
    <3>2. CASE x # t
      <4>1. session[x].user \in User /\ session[x].chain \in Session /\ session[session[x].chain].user # None
        BY <2>1, <3>2 DEF SessionsOK, SessionsTyped
      <4> QED
        BY <1>1, <3>2, <4>1
    <3> QED
      BY <3>1, <3>2
  <2>2. \A x \in Session : session'[x].iat <= now' /\ session'[x].issued <= now'
    BY DEF SessionsOK, SessionsTyped
  <2> QED
    BY <2>1, <2>2 DEF SessionsOK, SessionsTyped, ClockGoesOn
<1>5. ASSUME NEW x \in Session, Usables(x)'
      PROVE  SessionFits(x)'
  <2>1. CASE x = t
    BY <1>5, <2>1 DEF Usables, SessionFits, Fits
  <2>2. CASE x # t
    <3>1. Usables(x)
      BY <1>5, <2>2 DEF Usables, ClockGoesOn
    <3> QED
      BY <2>2, <3>1 DEF SessionsOK, SessionsFit, SessionFits, Fits
  <2> QED
    BY <2>1, <2>2
<1> QED
  BY <1>2, <1>3, <1>4, <1>5 DEF SessionsOK, SessionsFit

LEMMA NewSessionIs ==
  ASSUME Typed, NEW n \in Conn, req[n].at # "idle", NEW s \in Session, NEW chain \in Session, NEW iat \in Nat, NEW version \in Nat
  PROVE  LET new == NewSession(n, s, chain, iat, version)
         IN  /\ new \in SessionRow
             /\ new.user = req[n].user /\ new.user \in User /\ new.live /\ new.version = version /\ new.iat = iat
             /\ new.issued = now /\ new.password = req[n].password /\ new.role = req[n].role
             /\ new.chain = chain /\ (new.straddles <=> restores # req[n].restores)
<1>1. req[n] \in Request /\ req[n].user \in User /\ now \in Nat
  BY DEF Typed, RequestsKnow, RequestKnows, SessionsTyped
<1> QED
  BY <1>1 DEF NewSession, SessionRow, Request

(* ------------------------------------------------------------ the requests *)

LEMMA KnowsLasts ==
  ASSUME Typed, UsersTyped', AccountStep, ~Restore, SessionsLast, ClockGoesOn, NEW r \in Request, RequestKnows(r)
  PROVE  RequestKnows(r)'
<1>1. now \in Nat /\ now' \in Nat /\ now <= now' /\ restores' = restores /\ r.iat \in Nat /\ r.version \in Nat
  BY DEF Typed, SessionsTyped, ClockGoesOn, Request
<1>2. r.iat <= now'
  BY <1>1 DEF RequestKnows
<1>3. r.at \in {"read", "rotate", "answer"} =>
        /\ r.session \in Session /\ session[r.session].user = r.user /\ r.user \in User
        /\ session'[r.session].user = session[r.session].user /\ session'[r.session].version = session[r.session].version
        /\ session'[r.session].password = session[r.session].password /\ session'[r.session].role = session[r.session].role
  BY AccountsAssumption DEF RequestKnows, SessionsLast
<1>4. r.restores = restores /\ r.at \in {"sign", "change", "revoke", "issue", "rotate"}
        => Fits(r.user, r.version, r.password, r.role)'
  BY <1>1, FitsLasts DEF RequestKnows, Typed
<1>5. r.restores = restores /\ r.at = "answer" => SessionFits(r.session)'
  BY <1>3, SessionFitsLasts DEF RequestKnows, Typed
<1> QED
  BY <1>1, <1>2, <1>3, <1>4, <1>5 DEF RequestKnows

LEMMA RequestsStay ==
  ASSUME Typed, UsersTyped', AccountStep, ~Restore, SessionsLast, ClockGoesOn, req' = req
  PROVE  RequestsKnow'
<1>1. \A n \in Conn : req[n] \in Request /\ RequestKnows(req[n])
  BY DEF Typed, RequestsKnow
<1>2. ASSUME NEW n \in Conn
      PROVE  RequestKnows(req[n])'
  <2>1. PICK r \in Request : r = req[n]
    BY <1>1
  <2>2. RequestKnows(r)'
    BY <1>1, <2>1, KnowsLasts
  <2>3. req'[n] = r
    BY <2>1
  <2> QED
    BY <2>2, <2>3 DEF RequestKnows, SessionFits
<1> QED
  BY <1>2 DEF Typed, RequestsKnow, ClockGoesOn

LEMMA OneRequestMoves ==
  ASSUME Typed, UsersTyped', AccountStep, ~Restore, SessionsLast, ClockGoesOn,
         NEW n \in Conn, NEW r \in Request, RequestKnows(r)', req' = [req EXCEPT ![n] = r]
  PROVE  RequestsKnow'
<1>1. /\ \A m \in Conn : req[m] \in Request /\ RequestKnows(req[m])
      /\ req' \in [Conn -> Request] /\ req'[n] = r /\ \A m \in Conn \ {n} : req'[m] = req[m]
  BY DEF Typed, RequestsKnow
<1>2. ASSUME NEW m \in Conn
      PROVE  RequestKnows(req[m])'
  <2>1. PICK q \in Request : q = req'[m] /\ (m = n \/ q = req[m])
    BY <1>1
  <2>2. RequestKnows(q)'
    BY <1>1, <2>1, KnowsLasts
  <2> QED
    BY <2>1, <2>2 DEF RequestKnows, SessionFits
<1> QED
  BY <1>1, <1>2 DEF Typed, RequestsKnow, ClockGoesOn

LEMMA OneIsDone ==
  ASSUME Typed, UsersTyped', AccountStep, ~Restore, SessionsLast, ClockGoesOn, NEW n \in Conn, Done(n)
  PROVE  RequestsKnow'
<1>1. PICK r \in Request : r = Idle
  BY DEF Request, Idle, Stages
<1>2. r.at = "idle" /\ r.iat = 0 /\ r.restores = 0
  BY <1>1 DEF Idle
<1>3. RequestKnows(r)'
  BY <1>2 DEF RequestKnows, ClockGoesOn, Typed, RequestsKnow
<1> QED
  BY <1>1, <1>3, OneRequestMoves DEF Done

(* A request remembers what it read of an account.                         *)
LEMMA OneRemembers ==
  ASSUME Typed, UsersTyped', AccountStep, ~Restore, SessionsLast, ClockGoesOn,
         NEW n \in Conn, NEW u \in User, NEW stage \in {"sign", "change", "revoke", "rotate"},
         NEW s \in Session \union {None}, NEW next \in {"idle", "issue", "none"},
         Remember(n, u, stage, s, next), account'[u].version = account[u].version => SameVersion(u),
         account[u].version <= account'[u].version,
         stage = "rotate" => s \in Session /\ session[s].user = u /\ session[s].version = account[u].version
  PROVE  RequestsKnow'
<1>1. account[u] \in AccountRow /\ restores \in Nat
  BY DEF Typed, UsersTyped, RequestsKnow
<1>2. PICK r \in Request :
         r = [at |-> stage, user |-> u, session |-> s, next |-> next, version |-> account[u].version,
              password |-> account[u].password, role |-> account[u].role, iat |-> 0, restores |-> restores]
  BY <1>1 DEF Request, Stages, AccountRow
<1>3. /\ r.at = stage /\ r.user = u /\ r.session = s /\ r.version = account[u].version
      /\ r.password = account[u].password /\ r.role = account[u].role /\ r.iat = 0 /\ r.restores = restores
  BY <1>2
<1>4. Fits(r.user, r.version, r.password, r.role)'
  BY <1>3 DEF Fits, SameVersion
<1>5. stage = "rotate" => session'[s].user = u /\ session'[s].version = account[u].version
  BY AccountsAssumption DEF SessionsLast
<1>6. RequestKnows(r)'
  BY <1>3, <1>4, <1>5 DEF RequestKnows, ClockGoesOn, Typed, RequestsKnow
<1> QED
  BY <1>2, <1>6, OneRequestMoves DEF Remember

Moves == SessionsOK' /\ RequestsKnow'

LEMMA RestoreMoves ==
  ASSUME Typed, SessionsOK, UsersTyped', Restore
  PROVE  Moves
<1>1. /\ restores \in Nat /\ restores' = restores + 1 /\ req' = req /\ now' = now /\ invalidBefore' = now /\ now \in Nat
      /\ session' = [s \in Session |-> [session[s] EXCEPT !.live = FALSE]]
  BY DEF Restore, Typed, RequestsKnow, SessionsTyped
<1>2. \A s \in Session : session'[s] \in {session[s], [session[s] EXCEPT !.live = FALSE]}
  BY <1>1
<1>3. SessionsEnd
  BY <1>1, <1>2, SomeEnd DEF SessionsOK
<1>4. \A s \in Session : ~session'[s].live
  BY <1>1, EndedIsRow DEF SessionsOK, SessionsTyped
<1>5. SessionsTyped' /\ OneSessionPerSignIn'
  BY <1>1, <1>3, <1>4 DEF SessionsOK, SessionsTyped, OneSessionPerSignIn, SessionsEnd
<1>6. \A s \in Session : ~Usables(s)'
  <2>1. \A s \in Session : session'[s].iat <= now /\ session'[s].iat \in Nat
    BY <1>3 DEF SessionsOK, SessionsTyped, SessionsEnd, SessionRow
  <2> QED
    BY <1>1, <1>4, <2>1 DEF Usables
<1>7. SessionsFit'
  BY <1>6 DEF SessionsFit
<1>8. ASSUME NEW n \in Conn
      PROVE  RequestKnows(req[n])'
  <2>1. /\ RequestKnows(req[n]) /\ req[n] \in Request /\ req[n].restores \in Nat
    BY DEF Typed, RequestsKnow, Request
  <2>2. req[n].restores # restores' /\ req[n].restores <= restores'
    BY <1>1, <2>1 DEF RequestKnows
  <2> QED
    BY <1>1, <1>3, <2>1, <2>2 DEF RequestKnows, SessionsEnd
<1> QED
  BY <1>1, <1>5, <1>7, <1>8 DEF Moves, SessionsOK, Typed, RequestsKnow

(* Steps that neither read nor issue, whatever they do to an account.      *)
LEMMA QuietMoves ==
  ASSUME Typed, SessionsOK, UsersTyped', AccountStep, ~Restore, SessionsEnd, ClockGoesOn, req' = req
  PROVE  Moves
BY WhenSessionsEnd, RequestsStay DEF Moves

LEMMA NotRestored ==
  ASSUME Typed, restores' = restores
  PROVE  ~Restore
BY DEF Typed, RequestsKnow, Restore

LEMMA ClockStays ==
  ASSUME Typed, UNCHANGED desk
  PROVE  ClockGoesOn /\ ~Restore
<1>1. now' = now /\ invalidBefore' = invalidBefore /\ restores' = restores
  BY DEF desk
<1> QED
  BY <1>1, NotRestored DEF ClockGoesOn, Typed, SessionsTyped

LEMMA CommittedIs ==
  ASSUME NEW q \in Request, NEW password \in Nat
  PROVE  LET r == [q EXCEPT !.at = "revoke", !.next = "sign", !.password = password, !.version = @ + 1]
         IN  /\ r \in Request
             /\ r.at = "revoke" /\ r.user = q.user /\ r.password = password /\ r.version = q.version + 1
             /\ r.role = q.role /\ r.iat = q.iat /\ r.restores = q.restores /\ q.version \in Nat
<1>1. q.version \in Nat /\ q.version + 1 \in Nat /\ "revoke" \in Stages /\ "sign" \in {"idle", "issue", "sign", "none"}
  BY DEF Request, Stages
<1> DEFINE version == q.version + 1
           r == [q EXCEPT !.at = "revoke", !.next = "sign", !.password = password, !.version = version]
<1>2. version \in Nat
  BY <1>1
<1> HIDE DEF version
<1>3. r \in Request
  BY <1>1, <1>2 DEF Request
<1>4. /\ r.at = "revoke" /\ r.user = q.user /\ r.password = password /\ r.version = version
      /\ r.role = q.role /\ r.iat = q.iat /\ r.restores = q.restores
  BY <1>1, <1>2 DEF Request
<1> QED
  BY <1>1, <1>3, <1>4 DEF version

LEMMA CommitMoves ==
  ASSUME Typed, SessionsOK, UsersTyped', AccountStep, NEW n \in Conn, ChangeCommit(n)
  PROVE  Moves
<1>1. ClockGoesOn /\ ~Restore /\ session' = session
  BY ClockStays DEF ChangeCommit
<1>2. SessionsOK' /\ SessionsLast
  BY <1>1, UnchangedEnd, WhenSessionsEnd DEF SessionsOK
<1>3. PICK q \in Request : q = req[n]
  BY DEF Typed, RequestsKnow
<1>4. q.at = "change" /\ RequestKnows(q)
  BY <1>3 DEF ChangeCommit, At, Typed, RequestsKnow
<1>5. fresh' = fresh + 1 /\ fresh \in Nat
  BY DEF ChangeCommit, Fresh, Typed, UsersTyped
<1>6. PICK password \in Nat : password = fresh + 1
  BY <1>5
<1> DEFINE r == [q EXCEPT !.at = "revoke", !.next = "sign", !.password = password, !.version = @ + 1]
<1>7. /\ r \in Request
      /\ r.at = "revoke" /\ r.user = q.user /\ r.password = fresh + 1 /\ r.version = q.version + 1
      /\ r.role = q.role /\ r.iat = q.iat /\ r.restores = q.restores /\ q.version \in Nat
  BY <1>6, CommittedIs
<1>8. req' = [req EXCEPT ![n] = r]
  BY <1>3, <1>5, <1>6 DEF ChangeCommit, Typed, RequestsKnow
<1> HIDE DEF r
<1>9. PICK u \in User : u = q.user
  BY <1>4 DEF RequestKnows
<1>10. account' = [account EXCEPT ![u] = NewVersion(account[u], "password")]
  BY <1>3, <1>9 DEF ChangeCommit
<1>11. PasswordSet(u) /\ account[u].version \in Nat
  BY <1>10, ChangePasswordDoes DEF Typed, UsersTyped, AccountRow
<1>12. q.restores = restores => Fits(u, r.version, r.password, r.role)'
  BY <1>4, <1>7, <1>9, <1>11 DEF RequestKnows, Fits, PasswordSet
<1>13. RequestKnows(r)'
  <2>1. r.iat <= now' /\ r.restores <= restores'
    BY <1>1, <1>4, <1>7 DEF RequestKnows, ChangeCommit, desk
  <2> QED
    BY <1>1, <1>7, <1>9, <1>12, <2>1 DEF RequestKnows, ClockGoesOn
<1>14. RequestsKnow'
  BY <1>1, <1>2, <1>7, <1>13, <1>8, OneRequestMoves
<1> QED
  BY <1>2, <1>14 DEF Moves

LEMMA RevokedMoves ==
  ASSUME Typed, SessionsOK, UsersTyped', AccountStep, NEW u, session' = Revoked(u), UNCHANGED <<desk, req>>
  PROVE  Moves
<1>1. SessionsEnd
  BY RevokedEnd DEF SessionsOK
<1> QED
  BY <1>1, ClockStays, QuietMoves

LEMMA SameSessionsMove ==
  ASSUME Typed, SessionsOK, UsersTyped', AccountStep, UNCHANGED <<session, desk, req>>
  PROVE  Moves
<1>1. SessionsEnd
  BY UnchangedEnd DEF SessionsOK
<1> QED
  BY <1>1, ClockStays, QuietMoves

LEMMA EndMoves ==
  ASSUME Typed, SessionsOK, UsersTyped', AccountStep, NEW s \in Session, EndSession(s)
  PROVE  Moves
<1>1. /\ UNCHANGED <<desk, req>> /\ session \in [Session -> SessionRow]
      /\ session' = [session EXCEPT ![s].live = FALSE]
  BY DEF EndSession, SessionsOK, SessionsTyped
<1>2. \A x \in Session : session'[x] \in {session[x], [session[x] EXCEPT !.live = FALSE]}
  BY <1>1
<1>3. SessionsEnd
  BY <1>1, <1>2, SomeEnd DEF SessionsOK
<1> QED
  BY <1>1, <1>3, ClockStays, QuietMoves

LEMMA TickMoves ==
  ASSUME Typed, SessionsOK, UsersTyped', AccountStep, Tick
  PROVE  Moves
<1>1. SessionsEnd
  BY UnchangedEnd DEF SessionsOK, Tick
<1>2. ClockGoesOn /\ req' = req
  BY AccountsAssumption DEF Tick, ClockGoesOn, SessionsOK, SessionsTyped
<1>3. ~Restore
  BY NotRestored DEF Tick
<1> QED
  BY <1>1, <1>2, <1>3, QuietMoves

LEMMA SnapshotMoves ==
  ASSUME Typed, SessionsOK, UsersTyped', AccountStep, TakeSnapshot
  PROVE  Moves
<1>1. SessionsEnd
  BY UnchangedEnd DEF SessionsOK, TakeSnapshot
<1>2. ClockGoesOn /\ req' = req
  BY DEF TakeSnapshot, ClockGoesOn, SessionsOK, SessionsTyped
<1>3. ~Restore
  BY NotRestored DEF TakeSnapshot
<1> QED
  BY <1>1, <1>2, <1>3, QuietMoves

(* A request reads an account, and may change its status.                  *)
LEMMA ReadMoves ==
  ASSUME Typed, SessionsOK, UsersTyped', AccountStep, NEW n \in Conn, NEW u \in User,
         Deactivate(n, u) \/ ArchiveUser(n, u) \/ LoginRead(n, u) \/ ChangeRead(n, u)
  PROVE  Moves
<1>1. UNCHANGED <<session, desk>>
  BY DEF Deactivate, ArchiveUser, LoginRead, ChangeRead
<1>2. SessionsEnd /\ ClockGoesOn /\ ~Restore
  BY <1>1, UnchangedEnd, ClockStays DEF SessionsOK
<1>3. SessionsOK' /\ SessionsLast
  BY <1>2, WhenSessionsEnd
<1>4. SameVersion(u) /\ account[u].version <= account'[u].version
  <2>1. account[u] \in AccountRow /\ account[u].version \in Nat
    BY DEF Typed, UsersTyped, AccountRow
  <2>2. CASE account' = account
    BY <2>1, <2>2 DEF SameVersion
  <2>3. ASSUME NEW status \in Statuses, account' = [account EXCEPT ![u].status = status]
        PROVE  SameVersion(u) /\ account[u].version <= account'[u].version
    <3>1. SameVersion(u)
      BY <2>3, StatusDoes DEF Typed
    <3> QED
      BY <2>1, <3>1 DEF SameVersion
  <2> QED
    BY <2>2, <2>3 DEF Deactivate, ArchiveUser, LoginRead, ChangeRead, Statuses
<1>5. \E stage \in {"sign", "change", "revoke"}, next \in {"idle", "issue", "none"} : Remember(n, u, stage, None, next)
  BY DEF Deactivate, ArchiveUser, LoginRead, ChangeRead
<1>6. RequestsKnow'
  BY <1>2, <1>3, <1>4, <1>5, OneRemembers
<1> QED
  BY <1>3, <1>6 DEF Moves

LEMMA WhenAccountsStay ==
  ASSUME Typed, UNCHANGED <<account, desk>>
  PROVE  AccountStep /\ ClockGoesOn /\ ~Restore
BY ClockStays DEF AccountStep

(* A request goes on from q to r.                                          *)
LEMMA OneGoesOn ==
  ASSUME Typed, UsersTyped', AccountStep, ~Restore, SessionsLast, ClockGoesOn,
         NEW n \in Conn, NEW r \in Request, RequestKnows(r), req' = [req EXCEPT ![n] = r]
  PROVE  RequestsKnow'
BY KnowsLasts, OneRequestMoves

LEMMA RevokeAllMoves ==
  ASSUME Typed, SessionsOK, UsersTyped', NEW n \in Conn, RevokeAll(n)
  PROVE  Moves
<1>1. AccountStep /\ ClockGoesOn /\ ~Restore
  BY WhenAccountsStay DEF RevokeAll
<1>2. SessionsEnd
  BY RevokedEnd DEF RevokeAll, SessionsOK
<1>3. SessionsOK' /\ SessionsLast
  BY <1>1, <1>2, WhenSessionsEnd
<1>4. PICK q \in Request : q = req[n]
  BY DEF Typed, RequestsKnow
<1> DEFINE r == [q EXCEPT !.at = "sign", !.next = "issue"]
<1>5. r \in Request
  BY DEF Request, Stages
<1>6. /\ r.at = "sign" /\ r.user = q.user /\ r.password = q.password /\ r.version = q.version
      /\ r.role = q.role /\ r.iat = q.iat /\ r.restores = q.restores
  BY DEF Request
<1>7. Done(n) \/ req' = [req EXCEPT ![n] = r]
  BY <1>4 DEF RevokeAll, Typed, RequestsKnow
<1> HIDE DEF r
<1>8. q.at = "revoke" /\ RequestKnows(q)
  BY <1>4 DEF RevokeAll, At, Typed, RequestsKnow
<1>9. RequestKnows(r)
  BY <1>6, <1>8 DEF RequestKnows
<1>10. RequestsKnow'
  BY <1>1, <1>3, <1>5, <1>7, <1>9, OneIsDone, OneGoesOn
<1> QED
  BY <1>3, <1>10 DEF Moves

LEMMA SignTokenMoves ==
  ASSUME Typed, SessionsOK, UsersTyped', NEW n \in Conn, SignToken(n)
  PROVE  Moves
<1>1. AccountStep /\ ClockGoesOn /\ ~Restore
  BY WhenAccountsStay DEF SignToken
<1>2. SessionsEnd
  BY UnchangedEnd DEF SignToken, SessionsOK
<1>3. SessionsOK' /\ SessionsLast
  BY <1>1, <1>2, WhenSessionsEnd
<1>4. PICK q \in Request, time \in Nat : q = req[n] /\ time = now
  BY DEF Typed, RequestsKnow, SessionsTyped
<1> DEFINE r == [q EXCEPT !.at = "issue", !.iat = time]
<1>5. r \in Request
  BY DEF Request, Stages
<1>6. /\ r.at = "issue" /\ r.user = q.user /\ r.password = q.password /\ r.version = q.version
      /\ r.role = q.role /\ r.iat = time /\ r.restores = q.restores
  BY DEF Request
<1>7. req' = [req EXCEPT ![n] = r]
  BY <1>4 DEF SignToken, Typed, RequestsKnow
<1> HIDE DEF r
<1>8. q.at = "sign" /\ RequestKnows(q)
  BY <1>4 DEF SignToken, At, Typed, RequestsKnow
<1>9. RequestKnows(r)
  BY <1>4, <1>6, <1>8 DEF RequestKnows
<1>10. RequestsKnow'
  BY <1>1, <1>3, <1>5, <1>7, <1>9, OneGoesOn
<1> QED
  BY <1>3, <1>10 DEF Moves

LEMMA RefreshCheckMoves ==
  ASSUME Typed, SessionsOK, UsersTyped', NEW n \in Conn, NEW s \in Session, RefreshCheck(n, s)
  PROVE  Moves
<1>1. AccountStep /\ ClockGoesOn /\ ~Restore
  BY WhenAccountsStay DEF RefreshCheck
<1>2. SessionsEnd
  BY UnchangedEnd DEF RefreshCheck, SessionsOK
<1>3. SessionsOK' /\ SessionsLast
  BY <1>1, <1>2, WhenSessionsEnd
<1>4. PICK q \in Request, u \in User : q = req[n] /\ u = session[s].user
  BY DEF RefreshCheck, Typed, RequestsKnow, SessionsTyped, SessionRow
<1> DEFINE r == [q EXCEPT !.at = "read", !.session = s, !.user = u]
<1>5. r \in Request
  BY DEF Request, Stages
<1>6. r.at = "read" /\ r.user = u /\ r.session = s /\ r.iat = q.iat /\ r.restores = q.restores
  BY DEF Request
<1>7. req' = [req EXCEPT ![n] = r]
  BY <1>4 DEF RefreshCheck, Typed, RequestsKnow
<1> HIDE DEF r
<1>8. RequestKnows(q)
  BY <1>4 DEF Typed, RequestsKnow
<1>9. RequestKnows(r)
  BY <1>4, <1>6, <1>8 DEF RequestKnows
<1>10. RequestsKnow'
  BY <1>1, <1>3, <1>5, <1>7, <1>9, OneGoesOn
<1> QED
  BY <1>3, <1>10 DEF Moves

LEMMA RefreshReadMoves ==
  ASSUME Typed, SessionsOK, UsersTyped', NEW n \in Conn, RefreshRead(n)
  PROVE  Moves
<1>1. AccountStep /\ ClockGoesOn /\ ~Restore
  BY WhenAccountsStay DEF RefreshRead
<1>2. SessionsEnd
  BY UnchangedEnd DEF RefreshRead, SessionsOK
<1>3. SessionsOK' /\ SessionsLast
  BY <1>1, <1>2, WhenSessionsEnd
<1>4. PICK q \in Request : q = req[n]
  BY DEF Typed, RequestsKnow
<1>5. q.at = "read" /\ RequestKnows(q)
  BY <1>4 DEF RefreshRead, At, Typed, RequestsKnow
<1>6. PICK u \in User, s \in Session : u = q.user /\ s = q.session /\ session[s].user = u
  BY <1>5 DEF RequestKnows
<1>7. CASE Done(n)
  BY <1>1, <1>3, <1>7, OneIsDone DEF Moves
<1>8. CASE Remember(n, u, "rotate", s, "none") /\ account[u].version = session[s].version
  <2>1. SameVersion(u) /\ account[u].version \in Nat
    BY DEF RefreshRead, SameVersion, Typed, UsersTyped, AccountRow
  <2>2. RequestsKnow'
    BY <1>1, <1>3, <1>6, <1>8, <2>1, OneRemembers DEF SameVersion
  <2> QED
    BY <1>3, <2>2 DEF Moves
<1> QED
  BY <1>4, <1>6, <1>7, <1>8 DEF RefreshRead

LEMMA AbandonMoves ==
  ASSUME Typed, SessionsOK, UsersTyped', NEW n \in Conn, Abandon(n)
  PROVE  Moves
<1>1. AccountStep /\ ClockGoesOn /\ ~Restore
  BY WhenAccountsStay DEF Abandon
<1>2. SessionsEnd
  BY UnchangedEnd DEF Abandon, SessionsOK
<1>3. SessionsOK' /\ SessionsLast
  BY <1>1, <1>2, WhenSessionsEnd
<1>4. RequestsKnow'
  BY <1>1, <1>3, OneIsDone DEF Abandon
<1> QED
  BY <1>3, <1>4 DEF Moves

LEMMA IssueMoves ==
  ASSUME Typed, SessionsOK, UsersTyped', NEW n \in Conn, NEW t \in Session, IssueSession(n, t)
  PROVE  Moves
<1>1. AccountStep /\ ClockGoesOn /\ ~Restore /\ account' = account /\ now' = now
  BY WhenAccountsStay DEF IssueSession, desk
<1>2. req[n].at = "issue" /\ session[t] = NoSession
  BY DEF IssueSession, At
<1>3. /\ req[n] \in Request /\ RequestKnows(req[n]) /\ req[n].iat \in Nat /\ req[n].version \in Nat
      /\ session \in [Session -> SessionRow] /\ now \in Nat
  BY DEF Typed, RequestsKnow, SessionsTyped, Request
<1> DEFINE new == NewSession(n, t, t, req[n].iat, req[n].version)
<1>4. /\ new \in SessionRow
      /\ new.user = req[n].user /\ new.user \in User /\ new.version = req[n].version /\ new.iat = req[n].iat
      /\ new.issued = now /\ new.password = req[n].password /\ new.role = req[n].role
      /\ new.chain = t /\ (new.straddles <=> restores # req[n].restores)
  BY <1>2, <1>3, NewSessionIs
<1>5. session' = [session EXCEPT ![t] = new]
  BY DEF IssueSession
<1> HIDE DEF new
<1>6. new.iat <= now /\ new.issued <= now /\ (~new.straddles => Fits(new.user, new.version, new.password, new.role))
  BY <1>2, <1>3, <1>4 DEF RequestKnows
<1>7. \A x \in Session : session[x].live => session[x].chain # t
  <2>1. session[t].user = None /\ None \notin User
    BY <1>2, AccountsAssumption DEF NoSession
  <2> QED
    BY <2>1 DEF SessionsOK, SessionsTyped
<1>8. SessionsOK' /\ SessionsLast
  BY <1>1, <1>2, <1>3, <1>4, <1>5, <1>6, <1>7, WhenOneIsIssued
<1>9. RequestsKnow'
  BY <1>1, <1>8, OneIsDone DEF IssueSession
<1> QED
  BY <1>8, <1>9 DEF Moves

LEMMA RotateMoves ==
  ASSUME Typed, SessionsOK, UsersTyped', NEW n \in Conn, NEW t \in Session, RefreshRotate(n, t)
  PROVE  Moves
<1>1. AccountStep /\ ClockGoesOn /\ ~Restore /\ account' = account /\ now' = now /\ restores' = restores
  BY WhenAccountsStay DEF RefreshRotate, desk
<1>2. req[n].at = "rotate" /\ session[t] = NoSession
  BY DEF RefreshRotate, At
<1>3. PICK q \in Request : q = req[n]
  BY DEF Typed, RequestsKnow
<1>4. /\ RequestKnows(q) /\ q.at = "rotate" /\ q.version \in Nat
      /\ session \in [Session -> SessionRow] /\ now \in Nat
  BY <1>2, <1>3 DEF Typed, RequestsKnow, SessionsTyped, Request
<1>5. PICK s \in Session : s = q.session /\ session[s].user = q.user /\ session[s].version = q.version
  BY <1>4 DEF RequestKnows
<1>6. CASE ~session[s].live
  <2>1. Done(n) /\ session' = session
    BY <1>3, <1>5, <1>6 DEF RefreshRotate
  <2>2. SessionsOK' /\ SessionsLast
    BY <1>1, <2>1, UnchangedEnd, WhenSessionsEnd DEF SessionsOK
  <2>3. RequestsKnow'
    BY <1>1, <2>1, <2>2, OneIsDone
  <2> QED
    BY <2>2, <2>3 DEF Moves
<1>7. CASE session[s].live
  <2> DEFINE new == NewSession(n, t, session[s].chain, 0, session[s].version)
             r == [q EXCEPT !.at = "answer", !.session = t]
  <2>1. /\ session[s].chain \in Session /\ session[session[s].chain].user # None /\ s # t
        /\ session[s].version \in Nat /\ 0 \in Nat
    BY <1>2, <1>4, <1>5, <1>7 DEF SessionsOK, SessionsTyped, NoSession
  <2>2. /\ new \in SessionRow
        /\ new.user = q.user /\ new.user \in User /\ new.version = q.version /\ new.iat = 0
        /\ new.issued = now /\ new.password = q.password /\ new.role = q.role
        /\ new.chain = session[s].chain /\ (new.straddles <=> restores # q.restores)
    BY <1>2, <1>3, <1>5, <2>1, NewSessionIs
  <2>3. session' = [session EXCEPT ![s].live = FALSE, ![t] = new] /\ req' = [req EXCEPT ![n] = r]
    BY <1>3, <1>5, <1>7 DEF RefreshRotate, Typed, RequestsKnow
  <2>4. r \in Request
    BY DEF Request, Stages
  <2>5. /\ r.at = "answer" /\ r.user = q.user /\ r.session = t /\ r.iat = q.iat /\ r.restores = q.restores
    BY DEF Request
  <2> HIDE DEF new, r
  <2>6. /\ new.iat <= now /\ new.issued <= now
        /\ q.restores = restores => Fits(new.user, new.version, new.password, new.role)
    BY <1>4, <2>2 DEF RequestKnows
  <2>7. \A x \in Session \ {s} : session[x].live => session[x].chain # new.chain
    BY <1>7, <2>2 DEF SessionsOK, OneSessionPerSignIn
  <2>8. /\ session'[t] = new /\ session' \in [Session -> SessionRow]
        /\ \A x \in Session \ {t} : session'[x] = IF x = s THEN [session[s] EXCEPT !.live = FALSE] ELSE session[x]
    <3>1. [session[s] EXCEPT !.live = FALSE] \in SessionRow
      BY <1>4, EndedIsRow
    <3> QED
      BY <1>4, <2>2, <2>3, <3>1
  <2>9. ASSUME NEW x \in Session \ {t}
        PROVE  /\ session'[x].user = session[x].user /\ session'[x].version = session[x].version
               /\ session'[x].password = session[x].password /\ session'[x].role = session[x].role
               /\ session'[x].iat = session[x].iat /\ session'[x].issued = session[x].issued
               /\ session'[x].chain = session[x].chain /\ session'[x].straddles = session[x].straddles
               /\ session'[x].live => session[x].live /\ session[x].chain # new.chain
    <3>1. CASE x = s
      BY <1>4, <2>8, <3>1, EndedIsRow
    <3>2. CASE x # s
      BY <2>7, <2>8, <3>2
    <3> QED
      BY <3>1, <3>2
  <2>10. SessionsOK' /\ SessionsLast
    BY <1>1, <1>2, <2>1, <2>2, <2>6, <2>8, <2>9, WhenOneIsIssued
  <2>11. RequestKnows(r)'
    <3>1. q.restores = restores => SessionFits(t)'
      BY <1>1, <2>6, <2>8 DEF SessionFits, Fits
    <3> QED
      BY <1>1, <1>4, <2>2, <2>5, <2>8, <3>1 DEF RequestKnows
  <2>12. RequestsKnow'
    BY <1>1, <2>3, <2>4, <2>10, <2>11, OneRequestMoves
  <2> QED
    BY <2>10, <2>12 DEF Moves
<1> QED
  BY <1>6, <1>7

(* The access token of a refresh is added to its session.                  *)
LEMMA RefreshSignMoves ==
  ASSUME Typed, SessionsOK, UsersTyped', NEW n \in Conn, RefreshSign(n)
  PROVE  Moves
<1>1. AccountStep /\ ClockGoesOn /\ ~Restore /\ account' = account /\ now' = now /\ restores' = restores
      /\ invalidBefore' = invalidBefore
  BY WhenAccountsStay DEF RefreshSign, desk
<1>2. PICK q \in Request : q = req[n]
  BY DEF Typed, RequestsKnow
<1>3. /\ RequestKnows(q) /\ q.at = "answer" /\ session \in [Session -> SessionRow] /\ now \in Nat
  BY <1>2 DEF RefreshSign, At, Typed, RequestsKnow, SessionsTyped
<1>4. PICK s \in Session : s = q.session /\ session[s].user = q.user /\ q.user \in User
  BY <1>3 DEF RequestKnows
<1> DEFINE signed == [session[s] EXCEPT !.iat = now, !.straddles = restores # q.restores]
<1>5. session' = [session EXCEPT ![s] = signed]
  BY <1>2, <1>3, <1>4 DEF RefreshSign
<1>6. session[s] \in SessionRow /\ (restores # q.restores) \in BOOLEAN
  BY <1>3
<1>7. /\ signed \in SessionRow
      /\ signed.user = session[s].user /\ signed.version = session[s].version
      /\ signed.password = session[s].password /\ signed.role = session[s].role
      /\ signed.iat = now /\ signed.issued = session[s].issued /\ signed.chain = session[s].chain
      /\ signed.live = session[s].live /\ (signed.straddles <=> restores # q.restores)
  BY <1>3, <1>6 DEF SessionRow
<1> HIDE DEF signed
<1>8. session' \in [Session -> SessionRow] /\ \A x \in Session : session'[x] = IF x = s THEN signed ELSE session[x]
  BY <1>3, <1>5, <1>7
<1>9. SessionsLast
  BY <1>7, <1>8 DEF SessionsLast
<1>10. OneSessionPerSignIn'
  BY <1>7, <1>8 DEF SessionsOK, OneSessionPerSignIn
<1>11. SessionsTyped'
  <2>1. \A x \in Session : session'[x].user = session[x].user /\ session'[x].chain = session[x].chain
                            /\ session'[x].live = session[x].live
    BY <1>7, <1>8
  <2>2. \A x \in Session : session'[x].iat <= now /\ session'[x].issued <= now
    BY <1>3, <1>7, <1>8 DEF SessionsOK, SessionsTyped
  <2> QED
    BY <1>1, <1>8, <2>1, <2>2 DEF SessionsOK, SessionsTyped
<1>12. ASSUME NEW x \in Session, Usables(x)'
       PROVE  SessionFits(x)'
  <2>1. CASE x = s
    BY <1>1, <1>3, <1>4, <1>7, <1>8, <1>12, <2>1 DEF RequestKnows, Usables, SessionFits, Fits
  <2>2. CASE x # s
    BY <1>1, <1>8, <1>12, <2>2 DEF SessionsOK, SessionsFit, Usables, SessionFits, Fits
  <2> QED
    BY <2>1, <2>2
<1>13. SessionsOK'
  BY <1>10, <1>11, <1>12 DEF SessionsOK, SessionsFit
<1>14. RequestsKnow'
  BY <1>1, <1>9, OneIsDone DEF RefreshSign
<1> QED
  BY <1>13, <1>14 DEF Moves

LEMMA SessionsStep ==
  ASSUME Typed, SessionsOK, UsersTyped', AccountStep, [Next]_vars
  PROVE  Moves
<1>1. ASSUME UNCHANGED <<session, desk, req>>
      PROVE  Moves
  BY <1>1, SameSessionsMove
<1>2. CASE UNCHANGED vars
  BY <1>1, <1>2 DEF vars, desk
<1>3. ASSUME NEW u \in User, NEW c \in Challenge,
             \/ RequestRecovery(u, c) \/ RequestVerification(u, c) \/ Invite(u, c)
             \/ \E a \in Address : StageAddress(u, a, c)
      PROVE  Moves
  BY <1>1, <1>3 DEF RequestRecovery, RequestVerification, Invite, StageAddress
<1>4. ASSUME NEW c \in Challenge, NEW d \in Challenge, NEW right \in BOOLEAN, VerifyRecovery(c, right, d)
      PROVE  Moves
  BY <1>1, <1>4 DEF VerifyRecovery
<1>5. ASSUME NEW c \in Challenge, ChallengeExpires(c) \/ VerifyEmail(c)
      PROVE  Moves
  BY <1>1, <1>5 DEF ChallengeExpires, VerifyEmail
<1>6. ASSUME NEW c \in Challenge, CompletePassword(c)
      PROVE  Moves
  BY <1>6, RevokedMoves DEF CompletePassword
<1>7. ASSUME NEW u \in User, ResetPassword(u) \/ ChangeRole(u)
      PROVE  Moves
  BY <1>7, RevokedMoves DEF ResetPassword, ChangeRole
<1>8. ASSUME NEW u \in User, Reactivate(u) \/ RestoreUser(u)
      PROVE  Moves
  BY <1>1, <1>8 DEF Reactivate, RestoreUser
<1>9. ASSUME NEW n \in Conn, NEW u \in User, Deactivate(n, u) \/ ArchiveUser(n, u) \/ LoginRead(n, u) \/ ChangeRead(n, u)
      PROVE  Moves
  BY <1>9, ReadMoves
<1>10. ASSUME NEW n \in Conn, \/ ChangeCommit(n) \/ RevokeAll(n) \/ SignToken(n)
                              \/ RefreshRead(n) \/ RefreshSign(n) \/ Abandon(n)
       PROVE  Moves
  BY <1>10, CommitMoves, RevokeAllMoves, SignTokenMoves, RefreshReadMoves, RefreshSignMoves, AbandonMoves
<1>11. ASSUME NEW n \in Conn, NEW s \in Session, IssueSession(n, s) \/ RefreshCheck(n, s) \/ RefreshRotate(n, s)
       PROVE  Moves
  BY <1>11, IssueMoves, RefreshCheckMoves, RotateMoves
<1>12. ASSUME NEW s \in Session, EndSession(s)
       PROVE  Moves
  BY <1>12, EndMoves
<1>13. CASE TakeSnapshot \/ Restore \/ Tick
  BY <1>13, SnapshotMoves, RestoreMoves, TickMoves
<1> QED
  BY <1>2, <1>3, <1>4, <1>5, <1>6, <1>7, <1>8, <1>9, <1>10, <1>11, <1>12, <1>13 DEF Next

(* ------------------------------------------------------------ the invariant *)

LEMMA InitHolds ==
  ASSUME Init
  PROVE  AccountsInv
<1>1. /\ account = [u \in User |-> NewAccount(u)] /\ challenge = [c \in Challenge |-> NoChallenge]
      /\ session = [s \in Session |-> NoSession] /\ req = [n \in Conn |-> Idle]
      /\ invalidBefore = 0 /\ saved = None /\ restores = 0 /\ now = 1 /\ fresh = 0
  BY DEF Init
<1>2. ASSUME NEW u \in User
      PROVE  /\ account[u] \in AccountRow /\ account[u].version = 0 /\ HomeOf[u] \in Address
             /\ account[u].email = HomeOf[u] /\ account[u].pending = None
  BY <1>1, AccountsAssumption DEF NewAccount, AccountRow, Statuses
<1>3. claim \in [Address -> User \union {None}] /\ \A u \in User : claim[HomeOf[u]] = u
  <2>1. ASSUME NEW u \in User
        PROVE  (CHOOSE v \in User : HomeOf[v] = HomeOf[u]) = u
    BY AccountsAssumption
  <2>2. ASSUME NEW a \in Address, \E u \in User : HomeOf[u] = a
        PROVE  (CHOOSE u \in User : HomeOf[u] = a) \in User
    BY <2>2
  <2>3. claim = [a \in Address |-> IF \E u \in User : HomeOf[u] = a THEN CHOOSE u \in User : HomeOf[u] = a ELSE None]
    BY DEF Init
  <2> QED
    BY <1>2, <2>1, <2>2, <2>3
<1>4. UsersTyped
  BY <1>1, <1>2, <1>3, AccountsAssumption DEF UsersTyped
<1>5. ChallengesTyped /\ ChallengesAreCurrent
  <2>1. \A c \in Challenge : ~Usable(c)
    BY <1>1 DEF Usable
  <2>2. challenge \in [Challenge -> ChallengeRow]
    BY <1>1, NoChallengeIsRow
  <2> QED
    BY <2>1, <2>2 DEF ChallengesTyped, ChallengesAreCurrent
<1>6. \A s \in Session : session[s] \in SessionRow /\ session[s].user = None /\ ~session[s].live
                         /\ session[s].iat = 0 /\ session[s].issued = 0
  BY <1>1 DEF NoSession, SessionRow
<1>7. SessionsTyped /\ OneSessionPerSignIn
  <2>1. 1 <= MaxTime
    BY AccountsAssumption
  <2>2. session \in [Session -> SessionRow]
    BY <1>1, <1>6
  <2> QED
    BY <1>1, <1>6, <2>1, <2>2 DEF SessionsTyped, OneSessionPerSignIn
<1>8. SessionsFit
  BY <1>1, <1>6, AccountsAssumption DEF SessionsFit, Usables
<1>9. RequestsKnow
  <2>1. \A n \in Conn : req[n] \in Request /\ req[n].at = "idle" /\ req[n].iat = 0 /\ req[n].restores = 0
    BY <1>1 DEF Idle, Request, Stages
  <2>2. req \in [Conn -> Request]
    BY <1>1, <2>1
  <2> QED
    BY <1>1, <2>1, <2>2 DEF RequestsKnow, RequestKnows
<1>10. AddressesClaimed
  BY <1>2, <1>3 DEF AddressesClaimed, Held
<1>11. SavedApart
  BY <1>1 DEF SavedApart
<1> QED
  BY <1>4, <1>5, <1>7, <1>8, <1>9, <1>10, <1>11 DEF AccountsInv, Typed

LEMMA NextKeeps ==
  ASSUME AccountsInv, [Next]_vars
  PROVE  AccountsInv'
<1>1. Typed /\ SessionsOK
  BY DEF AccountsInv, Typed, SessionsOK
<1>2. UsersTyped' /\ AccountStep
  BY <1>1, UsersStep
<1>3. AddressesClaimed' /\ SavedApart'
  BY <1>1, <1>2, AddressesStep DEF AccountsInv
<1>4. ChallengesTyped' /\ ChallengesAreCurrent'
  BY <1>1, ChallengesStep DEF AccountsInv
<1>5. SessionsOK' /\ RequestsKnow'
  BY <1>1, <1>2, SessionsStep DEF Moves
<1> QED
  BY <1>2, <1>3, <1>4, <1>5 DEF AccountsInv, Typed, SessionsOK

(* What holds of accounts, claims, challenges, sessions and requests in    *)
(* every state: whatever a request has read of an account at some version  *)
(* is what the account still has at that version, unless a restore came    *)
(* between.                                                                *)
THEOREM AccountsInvariant == Spec => []AccountsInv
<1>1. Init => AccountsInv
  BY InitHolds
<1>2. AccountsInv /\ [Next]_vars => AccountsInv'
  BY NextKeeps
<1> QED
  BY <1>1, <1>2, PTL DEF Spec

(* Every table keeps to the values its statements write, and a session and *)
(* a challenge are somebody's: the statements of account-email.service.ts  *)
(* and auth-session.repository.ts on the rows they write.                  *)
THEOREM AccountsTyped == Spec => []TypeOK
<1>1. AccountsInv => TypeOK
  <2> SUFFICES ASSUME AccountsInv
               PROVE  TypeOK
    OBVIOUS
  <2>1. UsersTyped /\ ChallengesTyped /\ SessionsTyped
    BY DEF AccountsInv, Typed
  <2>2. ASSUME NEW u \in User
        PROVE  /\ account[u].status \in {"active", "inactive", "archived"}
               /\ account[u].version \in 0..MaxFresh
               /\ account[u].email \in Address /\ account[u].pending \in Address \union {None}
    <3>1. account[u] \in AccountRow /\ account[u].version <= fresh /\ fresh <= MaxFresh /\ fresh \in Nat
      BY <2>1 DEF UsersTyped
    <3> QED
      BY <3>1, AccountsAssumption DEF AccountRow, Statuses
  <2>3. \A c \in Challenge : challenge[c].attempts \in 0..MaxGuesses
    BY <2>1 DEF ChallengesTyped, ChallengeRow
  <2>4. invalidBefore \in 0..MaxTime
    BY <2>1, AccountsAssumption DEF SessionsTyped
  <2> QED
    BY <2>1, <2>2, <2>3, <2>4 DEF TypeOK, UsersTyped, SessionsTyped
<1> QED
  BY <1>1, AccountsInvariant, PTL

(* No two accounts that are not archived hold an address: claimAddress and *)
(* the DELETEs that follow it keep email_address_claims in step with the   *)
(* users through staging, verifying, archiving and restoring an account,   *)
(* and through a restore of the database.                                  *)
THEOREM AddressesStayClaimed == Spec => []AddressesClaimed
<1>1. AccountsInv => AddressesClaimed
  BY DEF AccountsInv
<1> QED
  BY <1>1, AccountsInvariant, PTL

(* Any number of refreshes that race for a session, and changes of the     *)
(* password between their statements, leave one live session of a sign-in: *)
(* the conditional update of rotateRefreshSession.                         *)
THEOREM OneSessionLives == Spec => []OneSessionPerSignIn
<1>1. AccountsInv => OneSessionPerSignIn
  BY DEF AccountsInv
<1> QED
  BY <1>1, AccountsInvariant, PTL

(* A link or code that still works was sent for the present password, and  *)
(* is the only one of its purpose: invalidateChallenges in every statement *)
(* that changes a password or sends another.                               *)
THEOREM ChallengesStayCurrent == Spec => []ChallengesAreCurrent
<1>1. AccountsInv => ChallengesAreCurrent
  BY DEF AccountsInv
<1> QED
  BY <1>1, AccountsInvariant, PTL

(* A token that isAccessTokenCurrent and isUserAccessActive accept was     *)
(* issued for the password and role that the account has now, however its  *)
(* sign-in or refresh interleaved with changes of both, and whatever a     *)
(* restore put back.                                                       *)
THEOREM TokensStayCurrent == Spec => []AcceptedTokensAreCurrent
<1>1. AccountsInv => AcceptedTokensAreCurrent
  <2> SUFFICES ASSUME AccountsInv, NEW s \in Session, CanAccess(s) \/ CanRefresh(s), ~session[s].straddles
               PROVE  /\ session[s].password = account[session[s].user].password
                      /\ session[s].role = account[session[s].user].role
    BY DEF AcceptedTokensAreCurrent
  <2>1. session[s].user # None /\ session[s].version = account[session[s].user].version
    BY DEF CanAccess, CanRefresh, Accepted
  <2>2. session[s].user \in User
    BY <2>1 DEF AccountsInv, Typed, SessionsTyped, SessionRow
  <2>3. Usables(s)
    BY <2>2 DEF CanAccess, CanRefresh, Accepted, Usables
  <2>4. SessionFits(s)
    BY <2>3 DEF AccountsInv, SessionsFit
  <2> QED
    BY <2>1, <2>4 DEF SessionFits, Fits
<1> QED
  BY <1>1, AccountsInvariant, PTL
===============================================================================
