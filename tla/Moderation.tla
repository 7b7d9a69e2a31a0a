------------------------------ MODULE Moderation ------------------------------
(***************************************************************************)
(* A comment on a post of the bulletin, and the case that the moderators   *)
(* decide about it.  Every operation locks the row of the post first and   *)
(* is one transaction, so it is one step here; what takes time is the      *)
(* reviewer, who decides on what was read some while ago.                  *)
(*                                                                         *)
(* Comments of a post share its lock and nothing else that matters here,   *)
(* so there is one.  Alerts, decisions sent to the author and the audit    *)
(* trail are events of the outbox, modelled in Outbox.                     *)
(***************************************************************************)
EXTENDS Naturals, FiniteSets

CONSTANTS
  User,         \* accounts
  Staff,        \* those with the role staff, admin or super_admin
  Admin,        \* those with the role admin or super_admin
  Nobody,       \* no account
  MaxRevision   \* bound on the revisions of a case

AccountRoles == Admin \subseteq Staff /\ Staff \subseteq User /\ Nobody \notin User

VARIABLES
  post,       \* whether the post is there, and open to comments
  comment,    \* the row of bulletin_comments
  case,       \* its row of bulletin_moderation_cases; the revision at which it was
              \* resolved stands for resolved_at
  reports,    \* reporter_id of the rows of bulletin_comment_reports
  loaded      \* what the page of each reviewer shows

vars == <<post, comment, case, reports, loaded>>

Review == [comment |-> comment, case |-> case, reports |-> reports]

NoComment == [author |-> Nobody, hider |-> Nobody, remover |-> Nobody, hidden |-> FALSE, held |-> FALSE]
NoCase == [status |-> "none", source |-> "none", urgent |-> FALSE, revision |-> 0,
           appealed |-> FALSE, reviewer |-> Nobody, resolved |-> 0]

Init ==
  /\ post = "open"
  /\ comment = NoComment /\ case = NoCase
  /\ reports = {}
  /\ loaded = [a \in Admin |-> Review]

Live == comment.author # Nobody /\ comment.remover = Nobody

(* --------------------------------------------------------------- the post *)

(* lockComments                                                            *)
LockComments ==
  /\ post \in {"open", "locked"}
  /\ post' = IF post = "open" THEN "locked" ELSE "open"
  /\ UNCHANGED <<comment, case, reports, loaded>>

(* archivePost and restorePost: lockPost finds no archived post.           *)
ArchivePost ==
  /\ post' = IF post = "archived" THEN "open" ELSE "archived"
  /\ UNCHANGED <<comment, case, reports, loaded>>

(* ----------------------------------------------------------- openCase etc *)

(* A new case, or the case opened again.  It stays urgent while it is open *)
(* and always has a revision of its own.                                   *)
Opened(source, urgent) ==
  [case EXCEPT !.status = "open",
               !.source = IF case = NoCase THEN source ELSE @,
               !.urgent = urgent \/ (case.status = "open" /\ case.urgent),
               !.revision = @ + 1,
               !.reviewer = Nobody, !.resolved = 0]

(* addReply, when the screening lets the text pass or holds it.            *)
AddReply(u, held, urgent) ==
  /\ post = "open" /\ comment = NoComment /\ (urgent => held)
  /\ comment' = [comment EXCEPT !.author = u, !.hidden = held, !.held = held]
  /\ case' = IF held THEN Opened("screening", urgent) ELSE case
  /\ UNCHANGED <<post, reports, loaded>>

(* report, once for each reader.                                           *)
Report(u, urgent) ==
  /\ post # "archived" /\ Live /\ ~comment.hidden
  /\ u \notin reports \union {comment.author}
  /\ case' = Opened("report", urgent)
  /\ reports' = reports \union {u}
  /\ UNCHANGED <<post, comment, loaded>>

(* moderate, to hide.                                                      *)
Hide(u) ==
  /\ u \in Staff /\ post # "archived" /\ Live /\ ~comment.held
  /\ comment' = [comment EXCEPT !.hidden = TRUE, !.hider = u]
  /\ case' = Opened("staff", FALSE)
  /\ UNCHANGED <<post, reports, loaded>>

(* Mutant: only decisions are counted.                                     *)
RecordVisibilityChangeSilently == case

(* recordVisibilityChange                                                  *)
RecordVisibilityChange == IF case = NoCase THEN case ELSE [case EXCEPT !.revision = @ + 1]

(* moderate, to show again: an administrator, or whoever hid the comment;  *)
(* never its author.                                                       *)
Unhide(u) ==
  /\ u \in Staff /\ post # "archived" /\ Live /\ ~comment.held
  /\ u \in Admin \/ comment.hider = u
  /\ u # comment.author
  /\ comment' = [comment EXCEPT !.hidden = FALSE, !.hider = Nobody]
  /\ case' = RecordVisibilityChange
  /\ UNCHANGED <<post, reports, loaded>>

(* withdrawAutoCase, of a held comment that its author removes.            *)
Withdrawn(u) ==
  IF /\ comment.held /\ u = comment.author
     /\ case.status = "open" /\ case.source = "screening" /\ reports = {}
  THEN [case EXCEPT !.status = "withdrawn", !.appealed = FALSE,
                    !.revision = @ + 1, !.resolved = case.revision + 1]
  ELSE case

(* removeComment                                                           *)
RemoveComment(u) ==
  /\ post # "archived" /\ Live
  /\ u \in Admin \union {comment.author}
  /\ comment' = [comment EXCEPT !.remover = u]
  /\ case' = Withdrawn(u)
  /\ UNCHANGED <<post, reports, loaded>>

(* reconsider: the author appeals, once until the next decision.           *)
Reconsider ==
  /\ post # "archived" /\ Live /\ comment.hidden /\ ~case.appealed
  /\ case' = [Opened("appeal", case.urgent) EXCEPT !.appealed = TRUE]
  /\ UNCHANGED <<post, comment, reports, loaded>>

(* ---------------------------------------------------------------- reviews *)

(* detail                                                                  *)
Detail(a) ==
  /\ case # NoCase
  /\ loaded' = [loaded EXCEPT ![a] = Review]
  /\ UNCHANGED <<post, comment, case, reports>>

(* Mutant: a held comment's case can be dismissed.                         *)
ReviewableOrHeld(a, action) ==
  /\ case.status \notin {"none", "withdrawn"} /\ loaded[a].case.revision = case.revision
  /\ a # comment.author
  /\ action # "dismiss" => Live

(* The case is the one that was read, of somebody else's comment; a        *)
(* removed comment can only be dismissed, and a held one only not.         *)
Reviewable(a, action) ==
  /\ case.status \notin {"none", "withdrawn"} /\ loaded[a].case.revision = case.revision
  /\ a # comment.author
  /\ action # "dismiss" => Live
  /\ action = "dismiss" => ~(comment.held /\ Live)

Decided(a, action) ==
  IF action = "dismiss" THEN comment
  ELSE [comment EXCEPT !.hidden = (action = "hide"), !.held = FALSE,
                       !.hider = IF action = "hide" THEN a ELSE Nobody]

(* review                                                                  *)
Decide(a, action) ==
  /\ Reviewable(a, action)
  /\ comment' = Decided(a, action)
  /\ case' = [case EXCEPT !.status = IF action = "dismiss" THEN "dismissed" ELSE "resolved",
                          !.reviewer = a, !.appealed = FALSE,
                          !.revision = @ + 1, !.resolved = case.revision + 1]
  /\ UNCHANGED <<post, reports, loaded>>

Next ==
  /\ case.revision < MaxRevision
  /\ \/ LockComments \/ ArchivePost
     \/ \E u \in User : \/ \E held, urgent \in BOOLEAN : AddReply(u, held, urgent)
                        \/ \E urgent \in BOOLEAN : Report(u, urgent)
                        \/ Hide(u) \/ Unhide(u) \/ RemoveComment(u)
     \/ Reconsider
     \/ \E a \in Admin : Detail(a) \/ \E action \in {"dismiss", "hide", "restore"} : Decide(a, action)

Spec == Init /\ [][Next]_vars

(* ------------------------------------------------------------ properties *)

(* The columns keep to their kinds; what is held is hidden, and hidden by  *)
(* nobody.                                                                 *)
TypeOK ==
  /\ post \in {"open", "locked", "archived"}
  /\ {comment.author, comment.hider, comment.remover, case.reviewer} \subseteq User \union {Nobody}
  /\ case.status \in {"none", "open", "resolved", "dismissed", "withdrawn"}
  /\ case.source \in {"none", "screening", "report", "staff", "appeal"}
  /\ {case.revision, case.resolved} \subseteq 0..MaxRevision /\ reports \subseteq User
  /\ comment.held => comment.hidden /\ comment.hider = Nobody

(* Whoever waits for a decision is waited on: while a comment is held by   *)
(* the screening, or its author appeals, its case is open, through every   *)
(* report, removal, change of visibility and decision.                     *)
WaitingIsOpen == (comment.held /\ Live) \/ case.appealed => case.status = "open"

(* A decision is taken on what the reviewer read: nobody reported, hid or  *)
(* showed the comment, appealed or decided in between.  (Its removal is    *)
(* looked at again when the decision is taken.)                            *)
DecisionsAreInformed ==
  [][case'.reviewer # Nobody /\ case'.resolved # case.resolved =>
       LET read == loaded[case'.reviewer]
       IN  /\ [read.comment EXCEPT !.remover = comment.remover] = comment
           /\ read.case = case /\ read.reports = reports]_vars
===============================================================================
