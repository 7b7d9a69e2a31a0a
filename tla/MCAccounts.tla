----------------------------- MODULE MCAccounts -----------------------------
(* Four scenes of Accounts.  In "sign-ins" one account signs in,           *)
(* refreshes, and changes its password and role, two requests at a time;   *)
(* in "restore" it does so with less room while a snapshot is taken and    *)
(* restored; in "links" it uses the links and codes that are sent to it;   *)
(* in "addresses" two accounts do, and change their addresses.             *)
EXTENDS Accounts, TLC

CONSTANTS u1, u2, a1, a2, a3, n1, n2

HomeOfBoth == (u1 :> a1) @@ (u2 :> a2)

VARIABLE scene

OneAccount == account[u2] = NewAccount(u2) /\ \A n \in Conn : req[n].user # u2
AtMostOneRequest == \E n \in Conn : \A m \in Conn \ {n} : req[m] = Idle
NoLinks == \A c \in Challenge : Unused(c)
NoSessions == \A s \in Session : session[s] = NoSession

Plays ==
  \/ scene = "sign-ins" /\ OneAccount /\ NoLinks /\ saved = None /\ now = 1
  \/ /\ scene = "restore" /\ OneAccount /\ NoLinks /\ AtMostOneRequest
     /\ account[u1].status # "archived" /\ \E s \in Session : session[s] = NoSession
  \/ /\ scene = "links" /\ OneAccount /\ NoSessions /\ AtMostOneRequest /\ now = 1 /\ fresh <= 1
     /\ \A n \in Conn : req[n].at \in {"idle", "change", "revoke"}
  \/ /\ scene = "addresses" /\ AtMostOneRequest /\ NoSessions /\ now = 1 /\ fresh <= 1 /\ saved = None
     /\ \A n \in Conn : req[n].at \in {"idle", "revoke"}

SceneInit == Init /\ scene \in {"sign-ins", "restore", "links", "addresses"}
SceneNext == Next /\ UNCHANGED scene /\ Plays'
SceneSpec == SceneInit /\ [][SceneNext]_<<vars, scene>>

Rows == Permutations(Session) \union Permutations(Challenge) \union Permutations(Conn)
=============================================================================
