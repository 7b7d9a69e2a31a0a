------------------------------ MODULE Accounts ------------------------------
(***************************************************************************)
(* Accounts, the tokens and refresh sessions that give access to them, the *)
(* challenges sent to their email addresses, and what a restore of the     *)
(* database does to all of these.                                          *)
(*                                                                         *)
(* A transaction that locks the user row first is one step.  A sign-in, a  *)
(* refresh, a change of password and the archiving of an account go on     *)
(* outside such a transaction, and are several.                            *)
(***************************************************************************)
EXTENDS Naturals, FiniteSets

CONSTANTS
  User,
  SetupPending,  \* the users who have not chosen a password yet
  Address,       \* normalized email addresses
  HomeOf,        \* [User -> Address]: the address of each user at first
  Session,       \* rows of auth_refresh_sessions
  Challenge,     \* rows of account_challenges
  Conn,          \* requests in progress
  None,          \* NULL
  MaxGuesses,    \* attempts at a recovery code
  MaxFresh,      \* bound on passwords and roles ever set
  MaxRestores,   \* bound on restores
  MaxTime        \* bound of the clock, in seconds

ASSUME AccountsAssumption ==
  /\ SetupPending \subseteq User /\ HomeOf \in [User -> Address] /\ MaxGuesses \in Nat \ {0}
  /\ \A u, v \in User : HomeOf[u] = HomeOf[v] => u = v
  /\ None \notin User \union Address \union Session
  /\ MaxFresh \in Nat /\ MaxRestores \in Nat /\ MaxTime \in Nat \ {0}

VARIABLES
  account,        \* the users table
  claim,          \* email_address_claims: the user of each address
  challenge,      \* account_challenges
  session,        \* auth_refresh_sessions, each row with the two tokens issued along with it
  invalidBefore,  \* invalid_before of auth_restore_state
  saved,          \* the users table of a snapshot
  req,            \* what each request is doing
  now,            \* UTC_TIMESTAMP(), in seconds
  fresh,          \* not in the code: passwords and roles set so far, each a number of its own
  restores        \* not in the code: restores so far

vars == <<account, claim, challenge, session, invalidBefore, saved, req, now, fresh, restores>>
desk == <<invalidBefore, saved, now, restores>>

Purposes == {"setup", "verify_email", "recovery", "reset"}

NoSession == [user |-> None, live |-> FALSE, version |-> 0, iat |-> 0, issued |-> 0,
              password |-> 0, role |-> 0, chain |-> None, straddles |-> FALSE]
NoChallenge == [user |-> None, purpose |-> "none", email |-> None, attempts |-> 0, password |-> 0]
Idle == [at |-> "idle", user |-> None, session |-> None, next |-> "none", version |-> 0,
         password |-> 0, role |-> 0, iat |-> 0, restores |-> 0]

NewAccount(u) == [status |-> "active", password |-> 0, role |-> 0, version |-> 0,
                  setup |-> u \in SetupPending, verified |-> u \notin SetupPending,
                  email |-> HomeOf[u], pending |-> None]

Init ==
  /\ account = [u \in User |-> NewAccount(u)]
  /\ claim = [a \in Address |-> IF \E u \in User : HomeOf[u] = a
                                THEN CHOOSE u \in User : HomeOf[u] = a ELSE None]
  /\ challenge = [c \in Challenge |-> NoChallenge]
  /\ session = [s \in Session |-> NoSession]
  /\ invalidBefore = 0 /\ saved = None /\ restores = 0
  /\ req = [n \in Conn |-> Idle]
  /\ now = 1 /\ fresh = 0

Active(u) == account[u].status = "active"

(* ------------------------------------------------------------ challenges *)

(* A challenge that is consumed or expired is not read again: its row is   *)
(* free for another.                                                       *)
Usable(c) == challenge[c] # NoChallenge
Unused(c) == challenge[c] = NoChallenge

(* invalidateChallenges.                                                   *)
Invalidated(table, u, purposes) ==
  [c \in Challenge |-> IF table[c].user = u /\ table[c].purpose \in purposes
                       THEN NoChallenge ELSE table[c]]

Added(table, u, purpose, address, c) ==
  [table EXCEPT ![c] = [user |-> u, purpose |-> purpose, email |-> address,
                        attempts |-> 0, password |-> account[u].password]]

(* A challenge replaces those of its purpose; a recovery code replaces the *)
(* permission to reset as well.                                            *)
Replaces(purpose) == IF purpose = "recovery" THEN {"recovery", "reset"} ELSE {purpose}

Challenged(u, purpose, address, c) ==
  Added(Invalidated(challenge, u, Replaces(purpose)), u, purpose, address, c)

(* requestRecovery, and adminAction for recovery.                          *)
RequestRecovery(u, c) ==
  /\ Active(u) /\ account[u].verified /\ ~account[u].setup /\ Unused(c)
  /\ challenge' = Challenged(u, "recovery", account[u].email, c)
  /\ UNCHANGED <<account, claim, session, desk, req, fresh>>

(* requestVerification, and adminAction for verify.                        *)
RequestVerification(u, c) ==
  /\ Active(u) /\ Unused(c)
  /\ challenge' = Challenged(u, "verify_email",
                             IF account[u].pending = None THEN account[u].email ELSE account[u].pending, c)
  /\ UNCHANGED <<account, claim, session, desk, req, fresh>>

(* adminAction for invite.                                                 *)
Invite(u, c) ==
  /\ Active(u) /\ account[u].setup /\ Unused(c)
  /\ challenge' = Challenged(u, "setup", account[u].email, c)
  /\ UNCHANGED <<account, claim, session, desk, req, fresh>>

(* claimAddress refuses an address that is another user's.                 *)
CanClaim(u, a) == claim[a] \in {None, u}

(* The claims of a user after all but some are given up.                   *)
Keeping(u, addresses) ==
  [a \in Address |-> CASE a \in addresses -> u
                       [] a \notin addresses /\ claim[a] = u -> None
                       [] OTHER -> claim[a]]

(* stageAddress, for a change asked for by the user or made by the staff.  *)
(* An invitation follows the address at once.                              *)
StageAddress(u, a, c) ==
  LET invited == account[u].setup
      withdrawn == Invalidated(challenge, u, {"verify_email"})
  IN  /\ account[u].status # "archived" /\ a # account[u].email /\ CanClaim(u, a) /\ Unused(c)
      /\ claim' = Keeping(u, IF invited THEN {a} ELSE {a, account[u].email})
      /\ account' = [account EXCEPT ![u] =
           IF invited THEN [@ EXCEPT !.email = a, !.pending = None, !.verified = FALSE]
           ELSE [@ EXCEPT !.pending = a]]
      /\ challenge' = Added(IF invited THEN Invalidated(withdrawn, u, {"setup"}) ELSE withdrawn,
                            u, IF invited THEN "setup" ELSE "verify_email", a, c)
      /\ UNCHANGED <<session, desk, req, fresh>>

(* Mutant: guesses are counted but not limited.                            *)
VerifyRecoveryUnlimited(c, right, d) ==
  LET u == challenge[c].user
  IN  /\ Usable(c) /\ challenge[c].purpose = "recovery" /\ ~right /\ Active(u)
      /\ challenge' = [challenge EXCEPT ![c].attempts = @ + 1]
      /\ UNCHANGED <<account, claim, session, desk, req, fresh>>

(* verifyRecovery: a guess is counted whether it is right or wrong; the    *)
(* right code is exchanged for the permission to reset.                    *)
VerifyRecovery(c, right, d) ==
  LET u == challenge[c].user
      counted == [challenge EXCEPT ![c].attempts = @ + 1]
  IN  /\ Usable(c) /\ challenge[c].purpose = "recovery"
      /\ Active(u) /\ account[u].verified /\ ~account[u].setup
      /\ challenge[c].email = account[u].email /\ challenge[c].attempts < MaxGuesses
      /\ IF right
         THEN /\ Unused(d)
              /\ challenge' = Added(Invalidated(counted, u, {"recovery", "reset"}), u, "reset",
                                    account[u].email, d)
         ELSE challenge' = counted
      /\ UNCHANGED <<account, claim, session, desk, req, fresh>>

(* The time of a challenge runs out.                                       *)
ChallengeExpires(c) ==
  /\ Usable(c)
  /\ challenge' = [challenge EXCEPT ![c] = NoChallenge]
  /\ UNCHANGED <<account, claim, session, desk, req, fresh>>

(* complete, for the link of verify_email.                                 *)
VerifyEmail(c) ==
  LET u == challenge[c].user
      a == challenge[c].email
  IN  /\ Usable(c) /\ challenge[c].purpose = "verify_email" /\ Active(u)
      /\ a \in {account[u].email, account[u].pending} /\ CanClaim(u, a)
      /\ claim' = Keeping(u, {a})
      /\ account' = [account EXCEPT ![u].email = a, ![u].pending = None, ![u].verified = TRUE]
      /\ challenge' = Invalidated(challenge, u, Purposes)
      /\ UNCHANGED <<session, desk, req, fresh>>

(* Mutant: a new role leaves the version as it is.                         *)
NewVersionOfPassword(row, field) ==
  [[row EXCEPT ![field] = fresh + 1] EXCEPT !.version = @ + (IF field = "password" THEN 1 ELSE 0)]

(* Another password or role: the version of the account moves on with it.  *)
NewVersion(row, field) == [[row EXCEPT ![field] = fresh + 1] EXCEPT !.version = @ + 1]

Fresh == fresh < MaxFresh /\ fresh' = fresh + 1

Revoked(u) ==
  [s \in Session |-> IF session[s].user = u THEN [session[s] EXCEPT !.live = FALSE] ELSE session[s]]

(* complete, for the links of setup and reset.                             *)
CompletePassword(c) ==
  LET u == challenge[c].user
      chosen == [NewVersion(account[u], "password") EXCEPT !.setup = FALSE, !.verified = TRUE]
  IN  /\ Usable(c) /\ Active(u) /\ challenge[c].email = account[u].email
      /\ \/ challenge[c].purpose = "setup" /\ account[u].setup
         \/ challenge[c].purpose = "reset" /\ ~account[u].setup /\ account[u].verified
      /\ Fresh
      /\ account' = [account EXCEPT ![u] = chosen]
      /\ session' = Revoked(u)
      /\ challenge' = Invalidated(challenge, u, Purposes)
      /\ UNCHANGED <<claim, desk, req>>

(* ------------------------------------------------ requests of the staff *)

At(n, stage) == req[n].at = stage
Goto(n, stage) == req' = [req EXCEPT ![n].at = stage]
Done(n) == req' = [req EXCEPT ![n] = Idle]

(* What a request remembers of the account it has read.                    *)
Remember(n, u, stage, s, next) ==
  req' = [req EXCEPT ![n] = [at |-> stage, user |-> u, session |-> s, next |-> next,
                             version |-> account[u].version, password |-> account[u].password,
                             role |-> account[u].role, iat |-> 0, restores |-> restores]]

(* resetOperationsPassword.                                                *)
ResetPassword(u) ==
  /\ account[u].status # "archived" /\ Fresh
  /\ account' = [account EXCEPT ![u] = [NewVersion(@, "password") EXCEPT !.setup = FALSE]]
  /\ session' = Revoked(u)
  /\ challenge' = Invalidated(challenge, u, Purposes)
  /\ UNCHANGED <<claim, desk, req>>

(* updateUser, when it changes the role.                                   *)
ChangeRole(u) ==
  /\ account[u].status # "archived" /\ Fresh
  /\ account' = [account EXCEPT ![u] = NewVersion(@, "role")]
  /\ session' = Revoked(u)
  /\ UNCHANGED <<claim, challenge, desk, req>>

(* updateUser, when it changes is_active; a deactivation revokes the       *)
(* sessions afterwards.                                                    *)
Deactivate(n, u) ==
  /\ At(n, "idle") /\ Active(u)
  /\ account' = [account EXCEPT ![u].status = "inactive"]
  /\ Remember(n, u, "revoke", None, "idle")
  /\ UNCHANGED <<claim, challenge, session, desk, fresh>>

Reactivate(u) ==
  /\ account[u].status = "inactive"
  /\ account' = [account EXCEPT ![u].status = "active"]
  /\ UNCHANGED <<claim, challenge, session, desk, req, fresh>>

(* deleteUser gives the addresses of the user up and ends the challenges;  *)
(* it revokes the sessions afterwards.                                     *)
ArchiveUser(n, u) ==
  /\ At(n, "idle") /\ Active(u)
  /\ account' = [account EXCEPT ![u].status = "archived"]
  /\ challenge' = Invalidated(challenge, u, Purposes)
  /\ claim' = Keeping(u, {})
  /\ Remember(n, u, "revoke", None, "idle")
  /\ UNCHANGED <<session, desk, fresh>>

Held(u) == {account[u].email, account[u].pending} \ {None}

(* Mutant: an address that another account took meanwhile is left to it.   *)
RestoreUserRegardless(u) ==
  /\ account[u].status = "archived"
  /\ claim' = Keeping(u, {a \in Held(u) : CanClaim(u, a)})
  /\ account' = [account EXCEPT ![u].status = "active"]
  /\ UNCHANGED <<challenge, session, desk, req, fresh>>

(* restoreUser, unless an address of the user is by now another's.         *)
RestoreUser(u) ==
  /\ account[u].status = "archived" /\ \A a \in Held(u) : CanClaim(u, a)
  /\ claim' = Keeping(u, Held(u))
  /\ account' = [account EXCEPT ![u].status = "active"]
  /\ UNCHANGED <<challenge, session, desk, req, fresh>>

(* ------------------------------------------------- tokens and sessions *)

(* loginUser reads the account; comparing the password takes a while.      *)
LoginRead(n, u) ==
  /\ At(n, "idle") /\ Active(u) /\ ~account[u].setup
  /\ Remember(n, u, "sign", None, "issue")
  /\ UNCHANGED <<account, claim, challenge, session, desk, fresh>>

(* changePassword reads the account, commits if its password is still the  *)
(* one read, and then revokes the sessions and issues tokens.              *)
ChangeRead(n, u) ==
  /\ At(n, "idle") /\ Active(u) /\ ~account[u].setup
  /\ Remember(n, u, "change", None, "none")
  /\ UNCHANGED <<account, claim, challenge, session, desk, fresh>>

(* Mutant: the links and codes sent before survive the change.             *)
ChangeCommitOnly(n) ==
  /\ At(n, "change") /\ account[req[n].user].password = req[n].password /\ Fresh
  /\ account' = [account EXCEPT ![req[n].user] = NewVersion(@, "password")]
  /\ req' = [req EXCEPT ![n].at = "revoke", ![n].next = "sign", ![n].password = fresh', ![n].version = @ + 1]
  /\ UNCHANGED <<claim, challenge, session, desk>>

ChangeCommit(n) ==
  LET u == req[n].user
  IN  /\ At(n, "change")
      /\ account[u].password = req[n].password
      /\ Fresh
      /\ account' = [account EXCEPT ![u] = NewVersion(@, "password")]
      /\ challenge' = Invalidated(challenge, u, Purposes)
      /\ req' = [req EXCEPT ![n].at = "revoke", ![n].next = "sign", ![n].password = fresh',
                            ![n].version = @ + 1]
      /\ UNCHANGED <<claim, session, desk>>

(* revokeAllRefreshSessionsForUser.                                        *)
RevokeAll(n) ==
  /\ At(n, "revoke")
  /\ session' = Revoked(req[n].user)
  /\ IF req[n].next = "idle" THEN Done(n) ELSE req' = [req EXCEPT ![n].at = "sign", ![n].next = "issue"]
  /\ UNCHANGED <<account, claim, challenge, desk, fresh>>

(* signToken: an access token with the version that was read.              *)
SignToken(n) ==
  /\ At(n, "sign")
  /\ req' = [req EXCEPT ![n].at = "issue", ![n].iat = now]
  /\ UNCHANGED <<account, claim, challenge, session, desk, fresh>>

NewSession(n, s, chain, iat, version) ==
  [user |-> req[n].user, live |-> TRUE, version |-> version, iat |-> iat, issued |-> now,
   password |-> req[n].password, role |-> req[n].role, chain |-> chain,
   straddles |-> restores # req[n].restores]

(* issueRefreshSession, and the answer with both tokens.                   *)
IssueSession(n, s) ==
  /\ At(n, "issue") /\ session[s] = NoSession
  /\ session' = [session EXCEPT ![s] = NewSession(n, s, s, req[n].iat, req[n].version)]
  /\ Done(n)
  /\ UNCHANGED <<account, claim, challenge, desk, fresh>>

(* handleRefresh first reads what isAccessTokenCurrent needs of the        *)
(* restores, then the account, and then rotates the session it was shown.  *)
RefreshCheck(n, s) ==
  /\ At(n, "idle") /\ session[s].user # None /\ session[s].issued > invalidBefore
  /\ req' = [req EXCEPT ![n].at = "read", ![n].session = s, ![n].user = session[s].user]
  /\ UNCHANGED <<account, claim, challenge, session, desk, fresh>>

RefreshRead(n) ==
  LET u == req[n].user
  IN  /\ At(n, "read")
      /\ IF Active(u) /\ ~account[u].setup /\ account[u].version = session[req[n].session].version
         THEN Remember(n, u, "rotate", req[n].session, "none")
         ELSE Done(n)
      /\ UNCHANGED <<account, claim, challenge, session, desk, fresh>>

(* Mutant: the old row is not tested again when it is revoked.             *)
RefreshRotateRead(n, t) ==
  LET s == req[n].session
  IN  /\ At(n, "rotate") /\ session[t] = NoSession
      /\ session' = [session EXCEPT
           ![s].live = FALSE, ![t] = NewSession(n, t, session[s].chain, 0, session[s].version)]
      /\ req' = [req EXCEPT ![n].at = "answer", ![n].session = t]
      /\ UNCHANGED <<account, claim, challenge, desk, fresh>>

(* The update of the old row decides which of two refreshes rotates it.    *)
RefreshRotate(n, t) ==
  LET s == req[n].session
  IN  /\ At(n, "rotate") /\ session[t] = NoSession
      /\ IF session[s].live
         THEN /\ session' = [session EXCEPT
                   ![s].live = FALSE, ![t] = NewSession(n, t, session[s].chain, 0, session[s].version)]
              /\ req' = [req EXCEPT ![n].at = "answer", ![n].session = t]
         ELSE Done(n) /\ UNCHANGED session
      /\ UNCHANGED <<account, claim, challenge, desk, fresh>>

(* The access token that a refresh answers with, of the version it read.   *)
RefreshSign(n) ==
  LET s == req[n].session
  IN  /\ At(n, "answer")
      /\ session' = [session EXCEPT ![s].iat = now, ![s].straddles = restores # req[n].restores]
      /\ Done(n)
      /\ UNCHANGED <<account, claim, challenge, desk, fresh>>

(* handleLogout; and a session whose time runs out.                        *)
EndSession(s) ==
  /\ session[s].live
  /\ session' = [session EXCEPT ![s].live = FALSE]
  /\ UNCHANGED <<account, claim, challenge, desk, req, fresh>>

(* A statement fails, or the process stops.                                *)
Abandon(n) ==
  /\ ~At(n, "idle")
  /\ Done(n)
  /\ UNCHANGED <<account, claim, challenge, session, desk, fresh>>

(* --------------------------------------------------- snapshot and restore *)

TakeSnapshot ==
  /\ saved = None
  /\ saved' = account
  /\ UNCHANGED <<account, claim, challenge, session, invalidBefore, req, now, fresh, restores>>

(* What the transaction of replaceApplicationData does to the accounts.    *)
Restore ==
  /\ saved # None /\ restores < MaxRestores
  /\ account' = saved
  /\ challenge' = [c \in Challenge |-> NoChallenge]
  /\ claim' = [a \in Address |->
       LET owners == {u \in User : saved[u].status # "archived" /\ a \in {saved[u].email, saved[u].pending}}
       IN  IF owners = {} THEN None ELSE CHOOSE u \in owners : TRUE]
  /\ invalidBefore' = now
  /\ session' = [s \in Session |-> [session[s] EXCEPT !.live = FALSE]]
  /\ restores' = restores + 1
  /\ UNCHANGED <<saved, req, now, fresh>>

Tick ==
  /\ now < MaxTime
  /\ now' = now + 1
  /\ UNCHANGED <<account, claim, challenge, session, invalidBefore, saved, req, fresh, restores>>

Next ==
  \/ \E u \in User, c \in Challenge :
       \/ RequestRecovery(u, c) \/ RequestVerification(u, c) \/ Invite(u, c)
       \/ \E a \in Address : StageAddress(u, a, c)
  \/ \E c, d \in Challenge, right \in BOOLEAN : VerifyRecovery(c, right, d)
  \/ \E c \in Challenge : ChallengeExpires(c) \/ VerifyEmail(c) \/ CompletePassword(c)
  \/ \E u \in User : ResetPassword(u) \/ ChangeRole(u) \/ Reactivate(u) \/ RestoreUser(u)
  \/ \E n \in Conn, u \in User : Deactivate(n, u) \/ ArchiveUser(n, u) \/ LoginRead(n, u) \/ ChangeRead(n, u)
  \/ \E n \in Conn : \/ ChangeCommit(n) \/ RevokeAll(n) \/ SignToken(n)
                     \/ RefreshRead(n) \/ RefreshSign(n) \/ Abandon(n)
  \/ \E n \in Conn, s \in Session : IssueSession(n, s) \/ RefreshCheck(n, s) \/ RefreshRotate(n, s)
  \/ \E s \in Session : EndSession(s)
  \/ TakeSnapshot \/ Restore \/ Tick

Spec == Init /\ [][Next]_vars

(* ------------------------------------------------------------ properties *)

(* isAccessTokenCurrent and isUserAccessActive.                            *)
Accepted(s, iat) ==
  LET u == session[s].user
  IN  u # None /\ Active(u) /\ session[s].version = account[u].version /\ iat > invalidBefore

CanAccess(s) == Accepted(s, session[s].iat)
CanRefresh(s) == session[s].live /\ Accepted(s, session[s].issued)

(* Every table keeps to the values its statements write, and a session and *)
(* a challenge are somebody's.                                             *)
TypeOK ==
  /\ \A u \in User : /\ account[u].status \in {"active", "inactive", "archived"}
                     /\ account[u].version \in 0..MaxFresh
                     /\ account[u].email \in Address /\ account[u].pending \in Address \union {None}
  /\ claim \in [Address -> User \union {None}]
  /\ \A c \in Challenge : challenge[c].attempts \in 0..MaxGuesses
  /\ \A s \in Session : session[s].live => session[s].user \in User
  /\ invalidBefore \in 0..MaxTime

(* A token that is accepted was issued for the password and the role that  *)
(* the account has now, and after the last restore, however sign-ins,      *)
(* refreshes, changes of password and role and a restore interleave.  The  *)
(* one exception is a request that was under way across the restore, which *)
(* signs what it read before it.                                           *)
AcceptedTokensAreCurrent ==
  \A s \in Session : (CanAccess(s) \/ CanRefresh(s)) /\ ~session[s].straddles =>
    /\ session[s].password = account[session[s].user].password
    /\ session[s].role = account[session[s].user].role

(* One sign-in has one live session, whatever refreshes race for it.       *)
OneSessionPerSignIn ==
  \A s, t \in Session : session[s].live /\ session[t].live /\ session[s].chain = session[t].chain => s = t

(* A challenge that can be used was sent for the password the account has  *)
(* now, and is the only one of its purpose: a change of password by any    *)
(* way, and a restore, take the links and codes sent before with it.       *)
ChallengesAreCurrent ==
  \A c \in Challenge : Usable(c) =>
    /\ challenge[c].password = account[challenge[c].user].password
    /\ \A d \in Challenge : /\ Usable(d) /\ challenge[d].user = challenge[c].user
                            /\ Replaces(challenge[d].purpose) \intersect Replaces(challenge[c].purpose) # {}
                            => c = d

(* The addresses of an account that is not archived, the one in use and    *)
(* the one to be verified, are claimed by it, and so by no other account.  *)
AddressesClaimed ==
  \A u \in User : account[u].status # "archived" => \A a \in Held(u) : claim[a] = u
=============================================================================
