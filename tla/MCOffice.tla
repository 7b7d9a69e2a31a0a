------------------------------- MODULE MCOffice -------------------------------
(* Scenes of the library's rooms that share no state: the hold shelf with  *)
(* its expiry timer, the desk in front of it, the accessions of a book     *)
(* with restores in between, the gate, a comment under moderation, a       *)
(* section of the website, and the records that the rest refers to: books  *)
(* with their policies and fields, programs and terms, and holidays.  The  *)
(* components of other scenes rest.                                        *)
EXTENDS MCCirculation

CONSTANTS
  LastCopy, LastNumber, MaxShelf, MaxReplacements,        \* accessions
  Member, Staff, Admin,                                   \* moderation
  Record, Content, Absent, NoDraft, Editor, MaxRevision,  \* publishing, revisions of a case
  Visitor, Scanner, LastDay, MaxLogs,                     \* attendance
  Patron, Item, MaxLookups,                               \* the desk
  Title, Exemplar, HomeOf, Policy, Field, Cataloguer,     \* the catalogue
  Program, Department, Term, Person, Holding, Clerk, LastTermDay,  \* the registers
  Holiday, LentItem, Lender, MaxDays, LastHoliday         \* due dates

VARIABLES
  scene,
  copies, inUse, holdings, claims, voids, assigning, shelf, replacing, replaced, overlapped,
  post, comment, case, reports, loaded,
  live, draft, base, revision, editor, publisher,
  logs, holder, scan, visitDay,
  type, studentId, copyBarcode, foundUser, foundCopy, returnPreview, lookups, lookingUpUser, lookingUpCopy,
  lastReturnLookup, timer, submission, undoable, reservationCheckout, strayed,
  books, exemplars, policies, fields, cataloguing, missed, late,
  listed, terms, people, located, saving,
  holidays, today, due, lending

accessions == <<copies, inUse, holdings, claims, voids, assigning, shelf, replacing, replaced, overlapped>>
moderation == <<post, comment, case, reports, loaded>>
publishing == <<live, draft, base, revision, editor, publisher>>
attendance == <<logs, holder, scan, visitDay>>
desk == <<type, studentId, copyBarcode, foundUser, foundCopy, returnPreview, lookups, lookingUpUser,
          lookingUpCopy, lastReturnLookup, timer, submission, undoable, reservationCheckout, strayed>>
catalogue == <<books, exemplars, policies, fields, cataloguing, missed, late>>
registers == <<listed, terms, people, located, saving>>
calendar == <<holidays, today, due, lending>>
records == <<catalogue, registers, calendar>>
website == <<moderation, publishing>>
premises == <<accessions, attendance, desk>>

A == INSTANCE Accessions WITH active <- inUse, backups <- shelf, restoring <- replacing, restores <- replaced,
                              MaxBackups <- MaxShelf, MaxRestores <- MaxReplacements
M == INSTANCE Moderation WITH User <- Member
P == INSTANCE Publishing
G == INSTANCE Attendance WITH Request <- Scanner, request <- scan, Idle <- Nobody, today <- visitDay
D == INSTANCE Desk WITH Nothing <- Nobody
OneHome == [c \in Exemplar |-> CHOOSE b \in Title : TRUE]
C == INSTANCE Catalogue WITH Book <- Title, Copy <- Exemplar, Conn <- Cataloguer, Nothing <- Nobody,
                             copies <- exemplars, req <- cataloguing
R == INSTANCE Registers WITH Conn <- Clerk, LastDay <- LastTermDay, Nothing <- Nobody,
                             holdings <- located, req <- saving
L == INSTANCE LoanDuration WITH Loan <- LentItem, Conn <- Lender, LastDay <- LastHoliday, req <- lending

ASSUME RolesAndBounds ==
  /\ M!AccountRoles /\ P!PublishingAssumption /\ A!AccessionBounds /\ G!AttendanceAssumption
  /\ C!CatalogueAssumption /\ R!RegistersAssumption /\ L!CalendarAssumption

OfficeInit ==
  /\ scene \in {"shelf", "accessions", "moderation", "publishing", "attendance", "desk",
               "catalogue", "registers", "calendar"}
  /\ Init /\ A!Init /\ M!Init /\ P!Init /\ G!Init /\ D!Init /\ C!Init /\ R!Init /\ L!Init
  /\ scene # "publishing" => live = [r \in Record |-> Absent]
  /\ scene # "desk" => reservationCheckout = Nobody

OfficeNext ==
  /\ UNCHANGED scene
  /\ \/ scene = "shelf" /\ Next /\ UNCHANGED <<website, premises, records>>
     \/ scene = "accessions" /\ A!Next /\ UNCHANGED <<vars, website, attendance, desk, records>>
     \/ scene = "moderation" /\ M!Next /\ UNCHANGED <<vars, publishing, premises, records>>
     \/ scene = "publishing" /\ P!Next /\ UNCHANGED <<vars, moderation, premises, records>>
     \/ scene = "attendance" /\ G!Next /\ UNCHANGED <<vars, website, accessions, desk, records>>
     \/ scene = "desk" /\ D!Next /\ UNCHANGED <<vars, website, accessions, attendance, records>>
     \/ scene = "catalogue" /\ C!Next /\ UNCHANGED <<vars, website, premises, registers, calendar>>
     \/ scene = "registers" /\ R!Next /\ UNCHANGED <<vars, website, premises, catalogue, calendar>>
     \/ scene = "calendar" /\ L!Next /\ UNCHANGED <<vars, website, premises, catalogue, registers>>

(* The expiry timer fires and time passes (server.ts:62).                  *)
OfficeSpec ==
  /\ OfficeInit /\ [][OfficeNext]_<<scene, vars, website, premises, records>>
  /\ WF_vars(scene = "shelf" /\ ReservationExpiryJob) /\ WF_vars(scene = "shelf" /\ Tick)

(* The variables of all keep to the values that the code writes.           *)
TypesOK ==
  /\ TypeOK /\ A!TypeOK /\ M!TypeOK /\ P!TypeOK /\ G!TypeOK /\ D!TypeOK
  /\ C!TypeOK /\ R!TypeOK /\ L!TypeOK

(* The accession numbers of a book: one that is claimed stays with its     *)
(* copy, and one that is voided stays void; a copy holds the number that   *)
(* its QR code claimed, and every backup can be restored.                  *)
AccessionsStand == A!AccessionsStand

(* Whoever waits for a decision about a comment has an open case.          *)
WaitingIsOpen == M!WaitingIsOpen

(* The records that others refer to stay consistent through every overlap  *)
(* of requests: books have active policies, store data of fields that are  *)
(* there and know their copies; registers are in order and keep what       *)
(* refers to them; loans end on the open day that their policy gives; and  *)
(* arrivals and departures of a visitor alternate.                         *)
RecordsStand == C!CatalogueStands /\ R!RegistersStand /\ L!DueDatesStand /\ G!VisitsStand

(* What staff decide, publish and confirm is what was shown to them: the   *)
(* reviewer of a comment has read what led to the case, a publication      *)
(* overwrites nothing its editor could not know of, and the desk lends and *)
(* takes back what is on its screen.                                       *)
ActedOnWhatWasShown == M!DecisionsAreInformed /\ P!PublishedKnowingly /\ D!ConfirmedAsShown
===============================================================================
