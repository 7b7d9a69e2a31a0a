--------------------------------- MODULE Desk ---------------------------------
(* The circulation desk of the web client: useCirculation.ts with the fields *)
(* of UserLookup.tsx, BookLookup.tsx and ReturnLookup.tsx.  The librarian    *)
(* types or scans, lookups answer in any order, and a confirmation sends     *)
(* what the fields hold.  A lookup carries the number of its sequence; here  *)
(* it is current as long as the sequence has not moved on.  Clearance and    *)
(* the fitness of the copy, on which the button also depends, are left out.  *)
EXTENDS Naturals, FiniteSets

CONSTANTS
  Patron, Item,     \* identifiers that can be typed or scanned
  Nothing,          \* an empty field, nothing found
  MaxLookups        \* bound on the lookups under way

VARIABLES
  type, studentId, copyBarcode,                \* the form
  foundUser, foundCopy, returnPreview,         \* what it shows
  lookups, lookingUpUser, lookingUpCopy, lastReturnLookup,
  timer,                                       \* a return identifier was typed a moment ago
  submission, undoable,
  reservationCheckout,                         \* the patron of a checkout that was opened from a reservation
  strayed                                      \* not in the code: such a checkout was left during its lookup

form == <<type, studentId, copyBarcode>>
found == <<foundUser, foundCopy, returnPreview>>
waiting == <<lookingUpUser, lookingUpCopy>>
scan == <<lastReturnLookup, timer>>
desk == <<submission, undoable, reservationCheckout, strayed>>
vars == <<form, found, lookups, waiting, scan, desk>>

Id == Patron \union Item \union {Nothing}
Lookup == [kind : {"user", "reserved", "copy", "return"}, id : Patron \union Item, current : BOOLEAN]
Idle == [kind |-> "none", patron |-> Nothing, copy |-> Nothing]

TypeOK ==
  /\ type \in {"borrow", "return"}
  /\ studentId \in Patron \union {Nothing} /\ foundUser \in Patron \union {Nothing}
  /\ {copyBarcode, foundCopy, returnPreview, lastReturnLookup} \subseteq Item \union {Nothing}
  /\ lookups \subseteq Lookup
  /\ lookingUpUser \in BOOLEAN /\ lookingUpCopy \in BOOLEAN
  /\ timer \in BOOLEAN /\ undoable \in BOOLEAN
  /\ submission \in [kind : {"none", "borrow", "return", "undo"}, patron : Id, copy : Id]
  /\ reservationCheckout \in Patron \union {Nothing} /\ strayed \in BOOLEAN

(* The page is opened, on its own or for a reservation, whose patron and    *)
(* prepared copy are then looked up at once.                                *)
Init ==
  /\ reservationCheckout \in Patron \union {Nothing}
  /\ copyBarcode \in IF reservationCheckout = Nothing THEN {Nothing} ELSE Item \union {Nothing}
  /\ type = "borrow" /\ studentId = reservationCheckout
  /\ foundUser = Nothing /\ foundCopy = Nothing /\ returnPreview = Nothing
  /\ lookups = {[kind |-> "reserved", id |-> p, current |-> TRUE] : p \in {reservationCheckout} \ {Nothing}}
               \union {[kind |-> "copy", id |-> c, current |-> TRUE] : c \in {copyBarcode} \ {Nothing}}
  /\ lookingUpUser = (reservationCheckout # Nothing) /\ lookingUpCopy = (copyBarcode # Nothing)
  /\ lastReturnLookup = Nothing /\ timer = FALSE
  /\ submission = Idle /\ undoable = FALSE /\ strayed = FALSE

Unlocked == submission = Idle
PatronField == Unlocked /\ type = "borrow" /\ reservationCheckout = Nothing
CopyField == Unlocked /\ type = "borrow"
ReturnField == Unlocked /\ type = "return"

(* The lookups of these kinds are overtaken.                                *)
Overtaken(kinds) == {IF k.kind \in kinds THEN [k EXCEPT !.current = FALSE] ELSE k : k \in lookups}
Started(kind, i) == Overtaken({kind}) \union {[kind |-> kind, id |-> i, current |-> TRUE]}
Room == Cardinality(lookups) < MaxLookups

TypePatron(p) ==
  /\ PatronField
  /\ foundUser # Nothing => p = Nothing      \* the field gives way to the patron found
  /\ studentId' = p /\ foundUser' = Nothing
  /\ lookups' = Overtaken({"user"}) /\ lookingUpUser' = FALSE
  /\ UNCHANGED <<type, copyBarcode, foundCopy, returnPreview, lookingUpCopy, scan, desk>>

(* By Enter, a scan, or a suggestion, which need not be what is typed.      *)
LookupUser(p) ==
  /\ PatronField /\ Room /\ ~lookingUpUser /\ foundUser = Nothing
  /\ lookups' = Started("user", p) /\ lookingUpUser' = TRUE
  /\ UNCHANGED <<form, found, lookingUpCopy, scan, desk>>

TypeCopy(c) ==
  /\ CopyField
  /\ copyBarcode' = c /\ foundCopy' = Nothing
  /\ lookups' = Overtaken({"copy"}) /\ lookingUpCopy' = FALSE
  /\ UNCHANGED <<type, studentId, foundUser, returnPreview, lookingUpUser, scan, desk>>

(* By Enter on what is typed, or on a scan or a copy chosen in the catalog, *)
(* which are typed first.                                                   *)
LookupCopy ==
  /\ CopyField /\ Room /\ ~lookingUpCopy /\ copyBarcode # Nothing
  /\ lookups' = Started("copy", copyBarcode) /\ lookingUpCopy' = TRUE
  /\ UNCHANGED <<form, found, lookingUpUser, scan, desk>>

TypeReturn(c) ==
  /\ ReturnField
  /\ copyBarcode' = c /\ returnPreview' = Nothing
  /\ lookups' = Overtaken({"return"}) /\ lookingUpCopy' = FALSE /\ lastReturnLookup' = Nothing
  /\ timer' = (c # Nothing)
  /\ UNCHANGED <<type, studentId, foundUser, foundCopy, lookingUpUser, desk>>

(* A moment after it is typed, or by Enter, which looks up again.           *)
LookupReturn(force) ==
  /\ type = "return" /\ Room /\ copyBarcode # Nothing
  /\ \/ force /\ Unlocked /\ ~lookingUpCopy /\ UNCHANGED timer
     \/ ~force /\ timer /\ lastReturnLookup # copyBarcode /\ timer' = FALSE
  /\ lookups' = Started("return", copyBarcode) /\ lookingUpCopy' = TRUE
  /\ lastReturnLookup' = copyBarcode /\ returnPreview' = Nothing
  /\ UNCHANGED <<form, foundUser, foundCopy, lookingUpUser, desk>>

TimerPasses ==
  /\ timer /\ lastReturnLookup = copyBarcode /\ timer' = FALSE
  /\ UNCHANGED <<form, found, lookups, waiting, lastReturnLookup, desk>>

(* Mutant: an answer is taken whether or not its lookup was overtaken.      *)
TakesAny(k) == TRUE

(* An answer counts when its lookup was not overtaken; that of a reservation *)
(* counts always.                                                           *)
Takes(k) == k.current \/ k.kind = "reserved"

(* The answer to a lookup: found, or not.                                   *)
Answer(k, ok) ==
  LET shown == IF ok THEN k.id ELSE Nothing
      user == Takes(k) /\ k.kind \in {"user", "reserved"}
      copy == Takes(k) /\ k.kind = "copy"
      return == Takes(k) /\ k.kind = "return"
  IN  /\ k \in lookups /\ lookups' = lookups \ {k}
      /\ foundUser' = IF user THEN shown ELSE foundUser
      /\ studentId' = IF user /\ k.kind = "user" /\ ok THEN k.id ELSE studentId
      /\ lookingUpUser' = (lookingUpUser /\ ~user)
      /\ foundCopy' = IF copy THEN shown ELSE foundCopy
      /\ copyBarcode' = IF copy /\ ok THEN k.id ELSE copyBarcode
      /\ returnPreview' = IF return THEN shown ELSE returnPreview
      /\ lookingUpCopy' = (lookingUpCopy /\ ~copy /\ ~return)
      /\ UNCHANGED <<type, scan, desk>>

(* handleTypeChange and the effect on type, which empties the copy.         *)
SwitchMode ==
  /\ Unlocked /\ reservationCheckout = Nothing
  /\ type' \in {"borrow", "return"} \ {type}
  /\ copyBarcode' = Nothing /\ foundCopy' = Nothing /\ returnPreview' = Nothing
  /\ lookups' = Overtaken({"copy", "return"}) /\ lookingUpCopy' = FALSE /\ lastReturnLookup' = Nothing /\ timer' = FALSE
  /\ UNCHANGED <<studentId, foundUser, lookingUpUser, desk>>

(* handleSubmit.  A mode needs what it shows, and no lookup under way.      *)
Submit ==
  /\ Unlocked /\ ~lookingUpUser /\ ~lookingUpCopy
  /\ \/ /\ type = "borrow" /\ foundUser # Nothing /\ foundCopy # Nothing
        /\ submission' = [kind |-> "borrow", patron |-> studentId, copy |-> copyBarcode]
     \/ /\ type = "return" /\ returnPreview # Nothing /\ copyBarcode # Nothing
        /\ submission' = [kind |-> "return", patron |-> Nothing, copy |-> copyBarcode]
  /\ UNCHANGED <<form, found, lookups, waiting, scan, undoable, reservationCheckout, strayed>>

(* resetForm: the lookups are overtaken, but still said to be under way.    *)
ResetForm ==
  /\ studentId' = Nothing /\ copyBarcode' = Nothing
  /\ foundUser' = Nothing /\ foundCopy' = Nothing /\ returnPreview' = Nothing
  /\ lookups' = Overtaken({"user", "copy", "return"})
  /\ lastReturnLookup' = Nothing /\ timer' = FALSE
  /\ UNCHANGED <<type, waiting>>

(* A reservation's checkout leaves the page: the next one opens it afresh.  *)
Borrowed ==
  /\ submission.kind = "borrow" /\ reservationCheckout = Nothing
  /\ ResetForm
  /\ submission' = Idle /\ undoable' = TRUE
  /\ UNCHANGED <<reservationCheckout, strayed>>

Returned ==
  /\ submission.kind = "return"
  /\ copyBarcode' = Nothing /\ returnPreview' = Nothing
  /\ lookups' = Overtaken({"return"}) /\ lastReturnLookup' = Nothing /\ timer' = FALSE
  /\ submission' = Idle /\ undoable' = TRUE
  /\ UNCHANGED <<type, studentId, foundUser, foundCopy, waiting, reservationCheckout, strayed>>

(* A failure keeps the selection; a return that is refused for good is      *)
(* looked up again.                                                         *)
Failed ==
  /\ submission # Idle /\ submission' = Idle
  /\ \/ UNCHANGED <<returnPreview, lastReturnLookup>>
     \/ submission.kind = "return" /\ returnPreview' = Nothing /\ lastReturnLookup' = Nothing
  /\ UNCHANGED <<form, foundUser, foundCopy, lookups, waiting, timer, undoable, reservationCheckout, strayed>>

(* handleUndo, of one of the last transactions: no lookup stands in its way.        *)
Undo ==
  /\ Unlocked /\ undoable
  /\ submission' = [Idle EXCEPT !.kind = "undo"]
  /\ UNCHANGED <<form, found, lookups, waiting, scan, undoable, reservationCheckout, strayed>>

Undone ==
  /\ submission.kind = "undo"
  /\ ResetForm
  /\ submission' = Idle /\ undoable' \in BOOLEAN
  /\ UNCHANGED <<reservationCheckout, strayed>>

(* The menu leads to this page without the reservation, which the location  *)
(* carried.  The fields stay, and so does the lookup of the patron, which   *)
(* nothing overtakes.  To leave during a confirmation comes to the same as  *)
(* to leave after it.                                                       *)
LeaveReservation ==
  /\ Unlocked /\ reservationCheckout # Nothing
  /\ reservationCheckout' = Nothing
  /\ strayed' = \E k \in lookups : k.kind = "reserved"
  /\ UNCHANGED <<form, found, lookups, waiting, scan, submission, undoable>>

Next ==
  \/ \E p \in Patron \union {Nothing} : TypePatron(p)
  \/ \E c \in Item \union {Nothing} : TypeCopy(c) \/ TypeReturn(c)
  \/ \E p \in Patron : LookupUser(p)
  \/ LookupCopy \/ \E force \in BOOLEAN : LookupReturn(force) \/ TimerPasses
  \/ \E k \in lookups, ok \in BOOLEAN : Answer(k, ok)
  \/ SwitchMode \/ Submit \/ Borrowed \/ Returned \/ Failed \/ Undo \/ Undone \/ LeaveReservation

Spec == Init /\ [][Next]_vars

(* What is confirmed is what the page shows: the loan is recorded for the   *)
(* patron and the copy whose details are on the screen, and the return for  *)
(* the copy of the loan there, however the lookups before it answered.      *)
(* Excused is the patron at a desk that left a reservation while its lookup *)
(* was under way: the answer shows him beside what has been typed since.    *)
ConfirmedAsShown ==
  [][LET sent == submission'
     IN  submission = Idle =>
           /\ sent.kind = "borrow" => (sent.patron = foundUser \/ strayed) /\ sent.copy = foundCopy
           /\ sent.kind = "return" => sent.copy = returnPreview]_vars
===============================================================================
