------------------------------ MODULE Publishing ------------------------------
(***************************************************************************)
(* One section of the website: its published records, the draft that the   *)
(* administrators share, and what each of them has loaded and edited.      *)
(* Other modules change published records directly, past the draft.        *)
(*                                                                         *)
(* A mutation locks the row of the draft and the published records, so it  *)
(* is one step.  Validation of what a record may contain is left out, and  *)
(* so is the publication of several sections in one transaction.           *)
(***************************************************************************)
EXTENDS Naturals

CONSTANTS
  Record,       \* records of the section; the homepage and the about page are one
  Content,      \* what a record may contain
  Absent,       \* the content of a record that is not there
  NoDraft,      \* no draft, no base
  Editor,       \* browsers of administrators
  MaxRevision   \* bound on revisions of the draft

VARIABLES
  live,       \* what is published
  draft,      \* draft_json of website_content_drafts
  base,       \* base_json: what was published when the draft was begun
  revision,   \* its revision
  editor,     \* the document that each browser has loaded
  publisher   \* not in the code: who published last, at which revision

vars == <<live, draft, base, revision, editor, publisher>>

Section == [Record -> Content \union {Absent}]

(* What stands for no draft is none.                                       *)
PublishingAssumption == NoDraft \notin Section /\ MaxRevision \in Nat
None == <<"none", 0>>

(* serialize, but for the payload: an administrator submits what he likes. *)
Document(d, b, r, l) ==
  [revision |-> r, version |-> l, base |-> IF d = NoDraft THEN l ELSE b]

Init ==
  /\ live \in Section
  /\ draft = NoDraft /\ base = NoDraft /\ revision = 0
  /\ editor = [e \in Editor |-> Document(NoDraft, NoDraft, 0, live)]
  /\ publisher = None

Saved == IF draft = NoDraft THEN live ELSE draft
Base == IF draft = NoDraft THEN live ELSE base
With(section, r, content) == [section EXCEPT ![r] = content]

(* read, and whatever a mutation answers.                                  *)
Answer(e) == editor' = [editor EXCEPT ![e] = Document(draft', base', revision', live')]

(* --------------------------------------------------------------- editors *)

Load(e) ==
  /\ UNCHANGED <<live, draft, base, revision, publisher>>
  /\ Answer(e)

(* Another module edits, archives or adds a published record.              *)
ChangeLive(r, content) ==
  /\ live' = With(live, r, content)
  /\ UNCHANGED <<draft, base, revision, editor, publisher>>

(* ------------------------------------------------------------- mutations *)

SetDraft(d, b, count) == draft' = d /\ base' = b /\ revision' = revision + count
Clear == SetDraft(NoDraft, NoDraft, 1)

(* Nobody saved the section since, and, where there is no draft yet,       *)
(* nobody changed what is published.                                       *)
Current(e) ==
  /\ revision < MaxRevision /\ editor[e].revision = revision
  /\ draft = NoDraft => editor[e].version = live

(* The record was not removed meanwhile.                                   *)
Present(e, r) == editor[e].version[r] # Absent => live[r] # Absent

SaveDraft(e, payload) ==
  /\ Current(e)
  /\ SetDraft(payload, Base, 1)
  /\ UNCHANGED <<live, publisher>>
  /\ Answer(e)

SaveRecord(e, r, content) ==
  /\ Current(e) /\ Present(e, r)
  /\ SetDraft(With(Saved, r, content), Base, 1)
  /\ UNCHANGED <<live, publisher>>
  /\ Answer(e)

(* discard needs no version of what is published.                          *)
Discard(e) ==
  /\ revision < MaxRevision /\ editor[e].revision = revision
  /\ Clear
  /\ UNCHANGED <<live, publisher>>
  /\ Answer(e)

DiscardRecord(e, r) ==
  LET rest == With(Saved, r, live[r])
  IN  /\ revision < MaxRevision /\ editor[e].revision = revision
      /\ IF rest = live THEN Clear ELSE SetDraft(rest, Base, 1)
      /\ UNCHANGED <<live, publisher>>
      /\ Answer(e)

(* Mutant: a draft is published whatever was published since it was begun. *)
PublishableDraft(e) == Current(e)

(* What is published must be what the draft was begun from.                *)
Publishable(e) == Current(e) /\ Base = live

PublishedBy(e) == publisher' = <<e, revision>>

Publish(e, payload) ==
  /\ Publishable(e)
  /\ live' = payload
  /\ PublishedBy(e)
  /\ Clear
  /\ Answer(e)

(* The other records keep their drafts, begun from what is published now.  *)
PublishRecord(e, r, content) ==
  LET retained == With(Saved, r, content)
  IN  /\ Publishable(e) /\ Present(e, r)
      /\ live' = With(live, r, content)
      /\ PublishedBy(e)
      /\ IF retained = live' THEN Clear ELSE SetDraft(retained, live', 2)
      /\ Answer(e)

Next ==
  \/ \E e \in Editor :
       \/ Load(e) \/ Discard(e)
       \/ \E payload \in Section : SaveDraft(e, payload) \/ Publish(e, payload)
       \/ \E r \in Record :
            \/ DiscardRecord(e, r)
            \/ \E content \in Content \union {Absent} :
                 SaveRecord(e, r, content) \/ PublishRecord(e, r, content)
  \/ \E r \in Record, content \in Content : ChangeLive(r, content)

Spec == Init /\ [][Next]_vars

(* ------------------------------------------------------------ properties *)

(* A draft is kept together with what it was begun from.                   *)
TypeOK ==
  /\ live \in Section /\ draft \in Section \union {NoDraft}
  /\ base \in Section \union {NoDraft}
  /\ (draft = NoDraft) = (base = NoDraft)
  /\ revision \in 0..MaxRevision + 1
  /\ \A e \in Editor : editor[e].revision <= revision

(* A publication overwrites nothing its editor could not know of: what was *)
(* published until then is what the editor loaded, or what the draft that  *)
(* was loaded had been begun from.  So a change that another module, or    *)
(* another administrator, publishes in between is never lost.              *)
PublishedKnowingly ==
  [][\A e \in Editor :
       publisher' # publisher /\ publisher'[1] = e =>
         live \in {editor[e].version, editor[e].base}]_vars
===============================================================================
