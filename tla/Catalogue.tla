------------------------------- MODULE Catalogue -------------------------------
(***************************************************************************)
(* The records that copies and loans rest on: books with their loan        *)
(* policies (book_types), the fields of the catalogue's schema and the     *)
(* data that books store under them, and the number of copies that a book  *)
(* claims to have.                                                         *)
(*                                                                         *)
(* A request waits for row locks.  What it read before a wait may be old   *)
(* when it goes on, so these requests are in two steps: a creation reads   *)
(* the schema and then waits for the policy, an edit locks the policy and  *)
(* then waits for the book, retiring or reinstating a copy opens its       *)
(* snapshot and then waits for the book.  All others take their locks      *)
(* first, and are one step.                                                *)
(*                                                                         *)
(* That loans, reservations and fines refuse some of these operations is   *)
(* left to Circulation and FineLedger: here any of them may be refused.    *)
(* Books are of the kind that is lent; a thesis has no policy and no copy. *)
(***************************************************************************)
EXTENDS Naturals, FiniteSets

CONSTANTS
  Book, Copy, Policy, Field,
  Conn,        \* connections of the pool
  HomeOf,      \* the book that a copy is of
  Nothing      \* no book, copy or policy

VARIABLES
  books,      \* books: deleted_at, book_type_id, keys of metadata, copies
  copies,     \* book_copies.is_active
  policies,   \* book_types.is_active
  fields,     \* catalog_schema.archived
  req,        \* what each connection is doing
  missed,     \* not in the code: books whose count was taken past another change, or not at all
  late        \* not in the code: books created past a change of the schema

vars == <<books, copies, policies, fields, req, missed, late>>

CatalogueAssumption == HomeOf \in [Copy -> Book] /\ IsFiniteSet(Copy) /\ Nothing \notin Policy

Life == {"none", "active", "archived"}
NoRecord == [state |-> "none", policy |-> Nothing, stored |-> {}, count |-> 0]
Idle == [stage |-> "idle", book |-> Nothing, policy |-> Nothing, copy |-> Nothing, schema |-> {}, seen |-> {}]

Init ==
  /\ books = [b \in Book |-> NoRecord]
  /\ copies = [c \in Copy |-> "none"]
  /\ policies = [p \in Policy |-> "active"]
  /\ fields = [f \in Field |-> "active"]
  /\ req = [n \in Conn |-> Idle]
  /\ missed = {} /\ late = {}

ActiveFields == {f \in Field : fields[f] = "active"}
ActiveCopies(b) == {c \in Copy : HomeOf[c] = b /\ copies[c] = "active"}
PresentBooks == {b \in Book : books[b].state # "none"}

Open(n, request) ==
  /\ req[n].stage = "idle"
  /\ req' = [req EXCEPT ![n] = request]
  /\ UNCHANGED <<books, copies, policies, fields, missed, late>>

Finish(n) == req' = [req EXCEPT ![n] = Idle]

(* A request that is refused, or loses its connection, is rolled back.     *)
Abort(n) ==
  /\ req[n].stage # "idle"
  /\ Finish(n)
  /\ UNCHANGED <<books, copies, policies, fields, missed, late>>

(* Whoever writes the policy of a book holds the policy's row.             *)
Locked(p) == \E n \in Conn : req[n].stage = "edit" /\ req[n].policy = p

(* ----------------------------------------------------- books and copies *)

(* syncBookCopies: copies are added or retired, and counted, under the     *)
(* lock on the book.                                                       *)
Synced(b, target) ==
  /\ target \subseteq {c \in Copy : HomeOf[c] = b}
  /\ \/ ActiveCopies(b) \subseteq target /\ \A c \in target \ ActiveCopies(b) : copies[c] = "none"
     \/ target \subseteq ActiveCopies(b)
  /\ copies' = [c \in Copy |-> IF c \in target THEN "active"
                               ELSE IF c \in ActiveCopies(b) THEN "retired" ELSE copies[c]]
  /\ missed' = missed \ {b}

OpenCreate(n, b) ==
  /\ books[b].state = "none"
  /\ Open(n, [Idle EXCEPT !.stage = "create", !.book = b, !.schema = ActiveFields])

(* The schema was read on another connection, before the wait.             *)
CreateBook(n, p, stored, target) ==
  LET b == req[n].book
  IN  /\ req[n].stage = "create" /\ books[b].state = "none"
      /\ policies[p] = "active" /\ ~Locked(p)
      /\ stored \subseteq req[n].schema
      /\ Synced(b, target)
      /\ books' = [books EXCEPT ![b] = [state |-> "active", policy |-> p, stored |-> stored,
                                        count |-> Cardinality(target)]]
      /\ late' = IF req[n].schema = ActiveFields THEN late ELSE late \union {b}
      /\ Finish(n)
      /\ UNCHANGED <<policies, fields>>

(* Mutant: the policy is looked up without a lock.                         *)
OpenEditUnlocked(n, b, p) ==
  /\ books[b].state = "active"
  /\ p # Nothing => policies[p] = "active" /\ ~Locked(p)
  /\ Open(n, [Idle EXCEPT !.stage = "lookup", !.book = b, !.policy = p])

(* An edit that leaves the policy alone (p = Nothing) locks none.          *)
OpenEdit(n, b, p) ==
  /\ books[b].state = "active"
  /\ p # Nothing => policies[p] = "active" /\ ~Locked(p)
  /\ Open(n, [Idle EXCEPT !.stage = "edit", !.book = b, !.policy = p])

(* updateBook reads the schema when it has the book.  Fields that are not  *)
(* of the schema keep what they store.  Copies are only counted by an edit *)
(* that says how many there are; one that says it otherwise than by a      *)
(* number, which the validation takes for one, is stored and not counted.  *)
UpdateBook(n, stored) ==
  LET b == req[n].book
      old == books[b]
      Edited(count) == [old EXCEPT !.stored = stored, !.count = count,
                                   !.policy = IF req[n].policy = Nothing THEN @ ELSE req[n].policy]
  IN  /\ req[n].stage \in {"edit", "lookup"} /\ old.state = "active"
      /\ stored \ ActiveFields = old.stored \ ActiveFields
      /\ \/ \E target \in SUBSET Copy :
              Synced(b, target) /\ books' = [books EXCEPT ![b] = Edited(Cardinality(target))]
         \/ UNCHANGED <<copies, missed>> /\ books' = [books EXCEPT ![b] = Edited(old.count)]
         \/ /\ UNCHANGED copies /\ missed' = missed \union {b}
            /\ \E count \in 0..Cardinality(Copy) : books' = [books EXCEPT ![b] = Edited(count)]
      /\ Finish(n)
      /\ UNCHANGED <<policies, fields, late>>

(* addBookCopies.                                                          *)
AddBookCopies(b, target) ==
  /\ books[b].state = "active"
  /\ ActiveCopies(b) # target /\ ActiveCopies(b) \subseteq target
  /\ Synced(b, target)
  /\ books' = [books EXCEPT ![b].count = Cardinality(target)]
  /\ UNCHANGED <<policies, fields, req, late>>

(* deleteBook archives a record with its copies, restoreBook brings both   *)
(* back as they were, and asks for no policy.                              *)
DeleteBook(b) ==
  /\ books[b].state = "active"
  /\ books' = [books EXCEPT ![b].state = "archived"]
  /\ UNCHANGED <<copies, policies, fields, req, missed, late>>

RestoreBook(b) ==
  /\ books[b].state = "archived"
  /\ books' = [books EXCEPT ![b].state = "active"]
  /\ UNCHANGED <<copies, policies, fields, req, missed, late>>

(* withLockedCopy reads which book the copy is of.                         *)
OpenCopyChange(n, c) ==
  LET b == HomeOf[c]
  IN  /\ books[b].state = "active" /\ copies[c] # "none"
      /\ Open(n, [Idle EXCEPT !.stage = "copy", !.book = b, !.copy = c, !.seen = ActiveCopies(b)])

(* getActiveCopyCount is a plain read: the copies of the snapshot, and the *)
(* request's own change.                                                   *)
Recount(n, seen) ==
  LET b == req[n].book
  IN  /\ books' = [books EXCEPT ![b].count = Cardinality(seen)]
      /\ missed' = IF req[n].seen = ActiveCopies(b) THEN missed \ {b} ELSE missed \union {b}

RetireCopy(n) ==
  LET c == req[n].copy
  IN  /\ req[n].stage = "copy" /\ books[req[n].book].state = "active" /\ copies[c] = "active"
      /\ copies' = [copies EXCEPT ![c] = "retired"]
      /\ Recount(n, req[n].seen \ {c})
      /\ Finish(n)
      /\ UNCHANGED <<policies, fields, late>>

(* Mutant: the count is taken before the copy is active again.             *)
RestoreCopyUncounted(n) ==
  LET c == req[n].copy
  IN  /\ req[n].stage = "copy" /\ books[req[n].book].state = "active" /\ copies[c] = "retired"
      /\ copies' = [copies EXCEPT ![c] = "active"]
      /\ Recount(n, req[n].seen)
      /\ Finish(n)
      /\ UNCHANGED <<policies, fields, late>>

RestoreCopy(n) ==
  LET c == req[n].copy
  IN  /\ req[n].stage = "copy" /\ books[req[n].book].state = "active" /\ copies[c] = "retired"
      /\ copies' = [copies EXCEPT ![c] = "active"]
      /\ Recount(n, req[n].seen \union {c})
      /\ Finish(n)
      /\ UNCHANGED <<policies, fields, late>>

(* --------------------------------------------------- policies and fields *)

(* Mutant: only books that are not archived count.                         *)
AssignedActive(p) == {b \in Book : books[b].state = "active" /\ books[b].policy = p}

(* The books that keep a policy from being archived or deleted.            *)
Assigned(p) == {b \in PresentBooks : books[b].policy = p}

(* savePolicy, but for the terms that a policy has.                        *)
SavePolicy(p, state) ==
  /\ ~Locked(p) /\ state \in {"active", "archived"}
  /\ policies[p] = "none" => state = "active"
  /\ policies[p] = "active" /\ state = "archived" => Assigned(p) = {}
  /\ policies' = [policies EXCEPT ![p] = state]
  /\ UNCHANGED <<books, copies, fields, req, missed, late>>

DeleteBookType(p) ==
  /\ policies[p] # "none" /\ ~Locked(p)
  /\ Assigned(p) = {}
  /\ policies' = [policies EXCEPT ![p] = "none"]
  /\ UNCHANGED <<books, copies, fields, req, missed, late>>

Stored(f) == \E b \in PresentBooks : f \in books[b].stored

(* upsertSchema.  It refuses a configuration that was loaded before the    *)
(* last save, so that what is saved starts from what is there.             *)
UpsertSchema(next) ==
  /\ \A f \in Field : next[f] = "none" /\ fields[f] # "none" => fields[f] = "archived" /\ ~Stored(f)
  /\ fields' = next
  /\ UNCHANGED <<books, copies, policies, req, missed, late>>

(* ----------------------------------------------------------- the system *)

Next ==
  \/ \E n \in Conn :
       \/ Abort(n) \/ RetireCopy(n) \/ RestoreCopy(n)
       \/ \E b \in Book : OpenCreate(n, b) \/ \E p \in Policy \union {Nothing} : OpenEdit(n, b, p)
       \/ \E c \in Copy : OpenCopyChange(n, c)
       \/ \E stored \in SUBSET Field :
            UpdateBook(n, stored) \/ \E p \in Policy, target \in SUBSET Copy : CreateBook(n, p, stored, target)
  \/ \E b \in Book :
       DeleteBook(b) \/ RestoreBook(b) \/ \E target \in SUBSET Copy : AddBookCopies(b, target)
  \/ \E p \in Policy : DeleteBookType(p) \/ \E state \in Life : SavePolicy(p, state)
  \/ \E next \in [Field -> Life] : UpsertSchema(next)

Spec == Init /\ [][Next]_vars

(* ------------------------------------------------------------ properties *)

TypeOK ==
  /\ books \in [Book -> [state : Life, policy : Policy \union {Nothing}, stored : SUBSET Field,
                         count : 0..Cardinality(Copy)]]
  /\ copies \in [Copy -> {"none", "active", "retired"}]
  /\ policies \in [Policy -> Life] /\ fields \in [Field -> Life]
  /\ req \in [Conn -> [stage : {"idle", "create", "edit", "lookup", "copy"}, book : Book \union {Nothing},
                       policy : Policy \union {Nothing}, copy : Copy \union {Nothing},
                       schema : SUBSET Field, seen : SUBSET Copy]]
  /\ missed \subseteq Book /\ late \subseteq Book

(* Every book has a policy that is active, and so has an archived one: it  *)
(* can be restored without a look at its policy.                           *)
PoliciesActive == \A b \in PresentBooks : books[b].policy # Nothing /\ policies[books[b].policy] = "active"

(* What a book stores belongs to a field that is there, if only archived,  *)
(* so that the data can be shown again.  Excused are books whose creation  *)
(* overlapped a change of the schema.                                      *)
DataHasFields == \A b \in PresentBooks \ late : \A f \in books[b].stored : fields[f] # "none"

(* A book says how many active copies it has.  Excused is a count that was *)
(* taken in a snapshot older than another change of the book's copies, and *)
(* one that was stored as it was sent.                                     *)
CountsMatch == \A b \in PresentBooks \ missed : books[b].count = Cardinality(ActiveCopies(b))

(* Whatever overlaps, every step leaves the records consistent.            *)
CatalogueStands == [][PoliciesActive' /\ DataHasFields' /\ CountsMatch']_vars
===============================================================================
