# The EUC library system in TLA+

The repository is the library system of a college: a Node/TypeScript backend
(`src/backend`, Express over a MariaDB pool), its schema (`src/db`) and a React
client (`src/frontend`). All library state is in the database; the backend
processes keep only timers, sockets and rate counters. What is hard about the
system is therefore what its transactions do to each other: several requests
and three timers write the same rows, each transaction blocks on row locks, and
under InnoDB's REPEATABLE READ a plain read sees the snapshot of the
transaction's first consistent read while a locking read sees the latest
committed row. This project models that.

## The system

| Component (`src/backend/modules` unless said) | State | Operations | Hard behaviour | Module |
|---|---|---|---|---|
| borrowing | `borrowings`, unique keys on (copy), (user, book) while active | checkout by title or copy, return, desk reversal, archive, restore | two desks at one copy; the checks of a checkout read at different points of its transaction | Circulation |
| overdue sweep (`overdue.helper.ts`, job every 5 min, and before most requests) | `borrowings.status` | mark elapsed loans, assess, remind | marks by id from an unlocked list | Circulation, FineLedger, Outbox |
| reservation (job every minute) | `reservations`, unique keys on (user, book) while open, (copy) while ready | place, prepare, cancel, expire, archive, restore | capacity counted against copies that others lend, retire or prepare | Circulation |
| circulation | `borrowings.due_date`, `renewal_count` | renew | races a return and the sweep | Circulation, FineLedger |
| catalog | `books`, `book_copies`, `copy_holdings`, accession claims and voids, cover images | retire, reinstate, count changes, accession, void, upload or remove a cover | every rule about a copy spans four tables; numbers are permanent while everything else can be restored to an earlier state; policies and fields change under edits that wait | Circulation, Accessions, Catalogue, Covers |
| clearance | `clearance_transactions` and their items | eligibility, payment, adjustment, reversal | eligibility locks the patron row and opens the snapshot of the caller; payment and adjustment decide on plain reads under different locks | Circulation, FineLedger |
| fine ledger | `fine_accounts`, `fine_ledger_entries` | assess, renewal cycle, balance | assessed from rows that may be stale | FineLedger |
| delivery outbox | `delivery_outbox` | enqueue in the caller's transaction, claim, deliver, retry | a claim ends by its age; a process stops between an effect and its mark | Outbox, EventDelivery |
| email | `email_deliveries`, quota, dispatch state, a named lock | queue, send, retry, expire | the provider accepts and the answer is lost; the lock's connection is lost | EmailDispatch, Delivery |
| notifications, realtime | `notifications`, composed notices, the sockets of a process | schedule, insert under the delivery key, expire, hand over mail, push | a slow worker and an administrator at one event; lists and pushes that overtake each other | Outbox, Inbox |
| auth | accounts, refresh sessions, challenges, claimed addresses | sign in, rotate, sign out, set up, verify, recover, change, archive | check, write and sign are separate statements | Accounts |
| backup | snapshots, maintenance mode, a named lock | create, pin, prune, remove, restore, recover | a server stops in the middle of a restore; images outside the database that a snapshot brings back | Restore, Accessions, Covers, Accounts |
| attendance | `attendance_logs`, a named lock | scan (in, out), time everybody out | two gates, the closing, midnight | Attendance |
| bulletin | comments, reports, cases | comment, report, hold, appeal, review | a decision about a case that moved on | Moderation |
| publishing | live sections, one draft | edit, publish, discard | an old draft over a newer section | Publishing |
| recommendations, catalogue details | `book_enrichment`, `book_embeddings`, the backfill | look up, write by hand, backfill, cancel | seconds pass between read and write | Enrichment |
| `src/frontend`: session of a tab | access token, refresh in flight, queue, pause | call, refresh, sign in, sign out | a cookie that is good for one refresh | Browser |
| `src/frontend`: circulation desk | the form, its lookups, the confirmation | type, look up, confirm, undo | answers out of order | Desk |
| library settings | settings, programs, departments, terms, holidays | edit, archive, delete, restore | the rate changes under overdue loans; a foreign key empties what refers to a deleted row | FineLedger (rate), Registers, LoanDuration |
| loan duration | holidays | due date of a loan | days counted over closed ones, in an old snapshot | LoanDuration |
| rate limiter, analytics, query, my library, about, events, site content, subscriptions | reporting, and administration of single rows | | | not modelled |

Components interact through shared rows and inside one another's transactions:
checkout, renewal and placement run the overdue sweep first; placement and
preparation run the reservation expiry; checkout, renewal and placement call
`clearance.assertEligible`, which locks the patron row and takes the
transaction's snapshot; all of them lock the row of `books` before they decide
about copies, and all of them write notifications and audit events to the
outbox in the same transaction. The outbox creates notices, whose messages it
hands to the email worker. A restore replaces the tables of all of them, except
for the registry of accessions, the audit trail and the tables of the restore
itself. The frontend sees none of this but the answers to its calls.

## Modules

### Circulation

Loans, reservations and copies (`borrowing`, `reservation`, `circulation`, the
copy operations of `catalog`, the eligibility part of `clearance`).

State: `loans` and `resvs` are the two tables (a row that does not exist yet has
status `"none"`), `active` is `is_active` of the lendable copies, `now` the
clock, and `req[n]` what pool connection `n` is doing: its stage, the patron,
and the snapshot of its transaction.

**Grain.** A transaction is cut where it can wait after its first consistent
read, because that is where what it knows and what is true part:

- `SyncOpen` / `SyncCommit`: the sweep reads its candidates without a lock and
  marks them later by id.
- `OpenForPatron` locks the patron row and takes the snapshot
  (`clearance.service.ts:138-145`); `BorrowWalkIn`, `BorrowReserved` and
  `PlaceReservation` lock the book and commit. What a checkout reads `FOR
  UPDATE` (the copy, its hold, its loan, the patron's loan of the title) is
  current; what it counts (pending reservations, copies left) is the snapshot.
  In a placement, availability and pending reservations are locking reads, the
  number of registered copies is a subquery of a locking read, and the open
  reservations are a plain read, so the last two are the snapshot.
- `OpenPrepare` / `PrepareReservation`: the identity read at
  `reservation.service.ts:171` is the snapshot; the copy is chosen by a `FOR
  UPDATE` read whose nested subqueries are consistent reads, for a locking
  clause of the outer statement does not extend to them.
- `OpenCopyChange` / `RetireCopy`, `ReinstateCopy`: the same with
  `withLockedCopy`.
- Return, cancellation, desk reversal, archiving, restoring, the expiry of
  reservations and `ReduceCopies` take their locks before any consistent read
  and are one step. So is `RenewLoan`: it reads the other reservations of the
  title under the lock on the book, and while it waits for the patron row its
  loan is locked too, so that a sweep which marks another loan of the patron
  during that wait can as well be ordered after it.

`Abort` is any rollback: a refusal whose reason is not modelled (outstanding
fines, an inactive account, a title without loan policy, an ended term), a
duplicate key, a deadlock victim, a lock wait that timed out, a server that
stopped. It is possible in every stage, and nothing is written before the
commit, so a crash is one of these. Deadlocks between transactions that lock in
different orders are resolved by InnoDB with such a rollback.

**Abstractions.** Only copies that are accessioned, in lendable condition and
of a title with an active loan policy are in `Copy`; a count increase creates
unaccessioned copies, which are not lendable, and is left out. The id of the
lent or prepared copy and of the reservation are chosen at the commit: nothing
before depends on them. A checkout by title picks one of the copies that a
checkout by copy may pick. An undo token that expires is one that is never
presented. Time is in ticks; hours of opening and money are left out; due dates over holidays are in LoanDuration.
That two sweeps wait for each other at the settings row is left to FineLedger; without
it Circulation has more behaviours, not fewer.
Read endpoints run the sweeps and the expiry and change nothing else: they are
the `"overdue"` request and `ReservationExpiryJob`.

`SerialSpec` is the same system when no two requests overlap (the clock still
moves inside a request): what the rules mean when nobody interferes. `FairSpec`
adds that the expiry timer fires and time passes; nothing is assumed of
patrons, staff or of requests in progress.

### FineLedger

Money: what loans are charged, paid, reduced and corrected (`fine-ledger`,
`fine-calculation`, the assessing half of `overdue.helper`, payments of
`clearance`, and every caller that assesses: return, renewal, daily summary,
change of the library's rate; archiving of loans and patrons, which asks for a
clean ledger).

State: `accounts` is `fine_accounts`; `credit` sums, per loan, the entries of
`fine_ledger_entries` other than charges with the opposite sign (charges add up
to `charged_amount`, which `assessBorrowing` writes together with its entry), so
that `Balance` is the sum `balancesForBorrowings` computes; `txs` is
`clearance_transactions` with its items; `loans` has the columns of `borrowings`
that matter to a fine; `departed` the archived patrons; `rate` the library's
rate. `owed` is not in the code: with each tick it adds what the terms in force
cost, and is what the charges are compared with. Nor are `stale` and `misrated`: the
loans that a sweep wrote to by a row, or a summary assessed at a rate, that was no
longer so.

**Grain.** A sweep is `SyncOpen` (the rate, under the lock of the settings row that it
keeps from then on; the list, without locks) and
`SyncCommit` (assess every row of the list, each at its own time, and mark).
A change of the rate waits for that lock (`SettingsLocked`), and so does a summary. A
daily summary is `SummaryOpen`, where `dispatchOne` takes its snapshot, and
`SummaryCommit`, which locks the late loans as they are and assesses them at the rate
of the snapshot.
Payment, adjustment, correction and renewal open with their first row lock and
their snapshot, and commit when they have the rest of their locks. The rest
includes what their foreign keys need, and that is what keeps the ledger
straight: a payment locks the patron and reads balances plainly, an adjustment
locks the loan and reads them plainly, so neither sees the other; but the
transaction row of the adjustment references the patron and the items of the
payment reference the loan, so each needs the row the other holds. One waits or,
when each waits for the other, InnoDB rolls one back (`Abort`).

**Abstractions.** Amounts are small integers; rounding to cents is left out.
`x` in `PayOpen` is the part of the last loan a payment reaches, so every full
and partial amount is covered. A loan's own interval and initial fine do not
change once it is lent (no code changes them), and only its rate may be absent
(`NoRate`, a loan from before loans had terms). Desk reversals are left out:
they are offered for loans without a fine only. `is_active` is not told apart
from `deleted_at`. Every loan is lent once.

### EventDelivery, Outbox, EmailDispatch, Delivery

`Outbox` models `delivery-outbox` and the notices it creates (`notifications`).
State: `outbox` with its order, the claims in it (`locked_at` as an age), the
keys of the rows that dispatching created, what each process is doing, and
`effects`, which is not in the code and counts how often an event was written.
A step of a process is one statement or one transaction: claim a batch, begin
the next event, apply it, mark it, give it back. A process may stop between any
two of them; a statement may fail; a process may take as long as its lock on a
row lasts, after which another one claims the row and both go on. Enqueueing is
a step of whatever transaction does it. Times are ticks that remain.

`EventDelivery` is what the outbox promises its callers, in four actions: an
event that was accepted takes effect, once, before it counts as delivered,
unless it is cancelled first; only an event that rewrites a notice may be
written again. `Outbox` implements it: `EventsTakeEffectOnce` is the abstract
specification under the mapping of `class`, `effects`, `settled` and
`withdrawn`, and MCDelivery checks it as a property.

`EmailDispatch` models the email worker: `GET_LOCK`, the pass that fails or
keeps what a stopped process left, quota and reserve, one message at a time,
the outcome. The provider (outside the repository) is the variable `accepted`;
its answer may be lost. Actions outside the workers: retry and cancel by an
administrator, the restore that takes the same lock and cancels what was not
sent.

`Delivery` joins the two: a row of kind "email" in the outbox queues its message
in the same transaction, a message is not sent before its event was delivered,
and a process stops with both of its workers.

### Accounts

Accounts (`auth`, the parts of `admin` and `users` that change an account) with
their challenges, claimed addresses and refresh sessions, and what a restore
does to them. Sign-in, rotation, change of password and archiving run over
several statements, and are several steps; what locks the user row first is one.
An access token is a record of what it was signed from; whether
the middleware accepts it (`Accepted`) is compared with whether
anything has ended it since. Passwords and roles are numbers, each new one
fresh.

### Restore, Accessions

`Restore` models `backup`: the maintenance mode and the named lock, requests
that were admitted before the mode changed, the safety snapshot, the
replacement of the tables, the marks on the audit trail, the end of the
maintenance, a server that stops at any statement, and the recovery by a
starting process and by a timer. Its changes of application data are abstract,
one per request or per job of a process. A job does not look at the mode
(`StartJob`; `Admit` is the request, which does). What becomes of the audit event of a
change is the choice in `Commit`: it is queued in the transaction of the change; or
left to the `auditLogger`, which queues it after the commit (`Enqueue`), fails three
times (`EnqueueFails`, the answer then says so) or dies with the process; or there is
none. An event is dated when the outbox delivers it, or by the time it was queued when
a restore finds it pending.

`Accessions` models the numbers of the copies of one book: assignment (one step
for its reads and checks, one for its commit, as a restore may read the registry
between them), voiding, new copies and their QR codes, backups, and the merge of
`accession.restore.ts`.

### Covers

Cover images of books (`catalog.image.service.ts`) and the stored snapshots that
list them (`snapshot.storage.service.ts`, `backup.repository.ts`). Images are in
a storage outside the repository (`present`), which may fail at any call. A
request that changes a book or a snapshot is one step under the lock of its row;
what follows the commit is not: each look whether an image is still referred to,
each destruction, and, when a snapshot is stored, the read of the tables, the
record, the indexing of older snapshots, the list of what to keep, the pruning.
A restore is a job that stores a snapshot in its middle. `adrift` is not in the
code: it holds the images given up while only a snapshot on its way, a restore
under way or an exported file referred to them, which no row of the database
tells. `CoversStand` of the module excuses these and nothing else.

### Attendance, Moderation, Publishing, Enrichment

`Attendance`: a request takes the named lock of its visitor, reads the last log,
and writes; the day may change between any two steps. `Moderation`: a comment
with its reports, hold, appeal and case, and each moderator's page as it was
loaded. `Publishing`: sections, the draft, and each editor's page. `Enrichment`:
a refresh, an edit by hand or a backfill reads the details of a book, asks a
provider and saves, with nothing locked in between; the backfill's state is in
the process and in the audit log.

### Catalogue, Registers, LoanDuration

The records that the rest refers to. `Catalogue`: books with the keys they store
data under, loan policies, the fields of the schema, and the number of copies a
book claims. A creation reads the schema and then waits for the policy, an edit
locks the policy and then waits for the book, and a change of a copy opens its
snapshot and then waits for the book: each is two steps, all else is one. `late`
and `missed` are not in the code. They mark what such a wait spoils: a book
created past a change of the schema, and a count taken past a change of the
book's copies, or stored as it was sent, without being counted.

`Registers`: programs and departments (`listed`), terms, and the accounts and
holdings that refer to them. Deleting a row sets to `Nothing` what refers to it,
as the foreign keys do. Saving an account locks the rows it chose, and may wait
before it commits; it takes the current term without a lock.

`LoanDuration`: the due date of a loan of days, the register of holidays, and
requests that compute a due date from the holidays of their snapshot.

### Browser, Desk

`Browser`: `AxiosInstance.ts` and the authentication context. A call leaves with
the token of the tab, is refused, waits in the queue for the shared refresh or
starts it, and is sent again or rejected; the bootstrap of a page refreshes
through the same promise. The server side is the session table, reduced to which
cookie is good. `Desk`: `useCirculation.ts` in its two modes, with the lookups
in flight, what the screen shows, and what is sent. A desk that was opened from a
reservation may leave it by the menu, which keeps the form and its lookups
(`LeaveReservation`). `strayed` is not in the code: it says that this happened during
the lookup of the reservation's patron. Going back to the reservation is not modelled.

### Inbox

The notices of one account in a tab: `NotificationsContext.tsx`, `websocket.ts`,
`notificationHub.ts` and the push of `notifications.service.ts`. The list comes by
calls, single notices by the socket, and each way is a queue of its own. A socket
is open to the browser before its token and session are looked at, and is
registered for pushes after that; it may be lost, refused, or closed by the timer
of the server or by `closeUserConnections`. The hub is the map of the one process
that serves the tab. What another process pushes arrives with the next list.
`needed` is not in the code: it is the newest state of the table that the tab has
shown, and tells a list that came late.

Lists have at most `Limit` notices, the newest first, and so has what the tab keeps when
notices are pushed (`Put`). A notice may replace an earlier one, and is dated anew then;
one whose time is up goes without anybody being told (`Lapse`). Between the commit of a
notice for one account and its push the unread count is read; when that fails the push is
dropped (`DropPush`), although sockets stay open. `behind`, not in the code either, says
that the tab may be behind until its next list: a push was dropped, a call failed, a late
list replaced a newer one, or a late push took the place of a newer notice. No two
notices are dated alike.

### MC modules

`MCCirculation`, `MCFineLedger` and `MCOutbox` hold model values, the
operations in use in a run (`Kinds`), which title each copy is of, which terms
each loan has, and symmetry. The others describe the scenes of their run:
instances of one component with different bounds (`MCLending`, `MCLedger`,
`MCAccounts`, `MCDelivery`), or components that share no state and cannot affect
each other (`MCHolds`, `MCOffice`, `MCUpkeep`). A behaviour plays the scene it starts with.
`Plays` states, as a condition on states, what a scene leaves out.

In Circulation rows, patrons and connections are interchangeable; copies are
when they are of one title. In MCHolds each swap moves rows of two scenes at once
(`Swaps`): a state has used those of one. There is no symmetry in the runs with liveness nor
among the loans of FineLedger, which are ordered.

### The proof modules

`CirculationProofs`, `FineLedgerProofs`, `EmailDispatchProofs` and
`AccountsProofs` are about one module each. `DeliveryProofs` is about
the outbox, then about its composition with EmailDispatch, whose proofs it takes
as an instance, and the scenes of MCDelivery. `UpkeepProofs`, `OfficeProofs` and
`HoldsProofs` are about MCUpkeep, MCOffice and MCHolds: a part for each
component, and a last one that a step of a scene is a step of one of them;
`OfficeProofs` takes the typing of Circulation from `CirculationProofs`. See below.

## Runs

All runs but MCLateSweep say `CHECK_DEADLOCK FALSE`: rows, tokens, sessions,
attempts and clocks are bounded, so an instance ends when they are used up.
Where waiting for ever would be wrong, a liveness property says so.

| Run | Scenes and bounds | Shows |
|---|---|---|
| MCSerial | SerialSpec, every operation; 2 users, 2 copies of a title, 2 loans, 1 reservation | every live pending reservation has an available copy; a held copy is not on loan, and lent, held and promised copies are active; returned loans stay returned |
| MCLending | "loans": a patron, two titles, loans renewed, swept, archived; "placing": reservations beside one loan. 2 connections | unique active loans although the sweep marks blindly; no checkout past an overdue loan; one live reservation per patron; closed reservations stay closed |
| MCHolds | "holds": 2 users, 2 copies of a title, 2 connections; "covers": 1 book, 2 images, 2 snapshots of which 1 is kept unpinned, 1 exported file, 2 requests; "notices": 2 notices, room for 1, 2 writes, 2 sockets, 2 fetches, 1 fault | a checkout lends an active copy that is not held for somebody else; a fulfilled reservation has its loan; images that books and stored snapshots show are kept, and so are pinned and newest snapshots; a connected tab that waits for nothing and is not known to be behind shows the newest notices, as many as it has room for |
| MCStaleCheckout | 2 users, 1 copy, 2 connections | finding 1 |
| MCLedger | "terms": 2 loans, 2 rates, clock to 5, one request at a time; "sweeps": the same on 1 of the loans with 2 requests at a time, clock to 4; "departure": 1 of the loans, 3 transactions, 2 requests at a time; "payments": 2 loans, 3 transactions, 2 requests at a time | a loan is charged what its terms add up to, but for loans of a stale sweep or of a summary at an old rate; an archived patron owes nothing, but for loans of a stale sweep; no credit balance, settled amounts agree, one correction each; no charge is taken back |
| MCLateSweep | 1 loan, 2 connections | finding 2 |
| MCDelivery | "outbox", "two messages", "two senders", "joined": 2 events, 2 messages, 2 processes, 1 fault | the outbox implements EventDelivery; a message's status tells whether it was accepted, at most once; nothing stays in a queue; a composed notice is mailed or cancelled |
| MCCancelledNotice | a composed notice, 2 processes, 2 faults | finding 3 |
| MCAccounts | "sign-ins", "restore", "links", "addresses": 2 accounts, 3 addresses, 3 sessions, 3 challenges | accepted tokens are current, one live session per sign-in, challenges fit their account, a verified address has one owner |
| MCOffice | "shelf": every operation of Circulation, 1 copy, 1 connection, clock to 2; "accessions": 2 copies, 2 numbers, 2 restores; "moderation": 3 members of staff, of them 2 administrators, 4 revisions of a case; "publishing": 2 sections, 2 editors, 4 revisions; "attendance": 2 visitors, 2 gates, 2 days; "desk": 2 patrons, 2 copies, 3 lookups in flight; "catalogue": 1 book, 2 copies, 2 policies, 1 field, 2 requests; "registers": 1 program, 1 department, 2 terms, 2 accounts, 2 requests; "calendar": 2 holidays, loans of up to 2 days | no copy stays on the hold shelf past its deadline; accessions are permanent through restores; a held comment has an open case; visits alternate; records keep an active policy, their fields and what they refer to, terms stay in order, due dates are on open days; what staff decide, publish and confirm is what they were shown |
| MCUpkeep | "two servers" with 1 change, "one server" with 2, or 1 while time passes; "tab": 2 calls, 2 sessions; "sockets": 2 sockets, 2 tokens, 2 fetches, 1 fault; "details": 1 book, an edit, and a refresh with a backfill or 2 backfills | audit events that were queued outlive a restore; a restore saves what it undoes, but for changes of jobs and of requests under way; maintenance ends; a tab stays signed in, its calls settle and its sockets follow its session; details by hand stand; a backfill is reported truly and ends |
| MCReversed | 1 server, 1 change, 2 restores | finding 4 |

The bounds are what it takes for each race. Two requests suffice where every
hazard is one actor holding what it read while another commits; the second copy
separates "the copy" from "a copy of the title". Circulation's clock runs past
the deadline of the first loan and the first reservation, which last one tick.
Two loans let a payment span both while an adjustment holds one; three
transactions are a payment, its correction and another payment; clock 5 has a
fine cycle, a renewal, a second cycle and a change of rate in either, and clock 4 a
sweep with a renewal or a return inside it, or a summary with a change of rate inside
it, and an assessment after it. Room for one notice is what two notices overflow. Two
sections and two editors let a draft go stale in one section; three members of
staff, two of them administrators, let one write, one hide or report and the third
review the same comment, and whoever is no staff can do less of that. Two
restores let the second one undo the first. Two titles are needed for
`NoCheckoutWhilePastDue`, for a returned loan that the sweep marked again blocks
its own copy. One fault suffices for liveness and for every repetition, for the
repetition is the retry; the two faults of MCCancelledNotice are a failure and a
second delay.

Constraints that `Plays` adds are about what a scene needs, never about the
order of steps: a scene that has a second worker rest keeps its state idle.
With one request at a time ("terms" of MCLedger, MCSerial) time still passes
inside a sweep.

### Fairness

- MCOffice, "shelf": the expiry timer fires and time passes. Nothing is assumed of
  patrons, staff or requests in progress.
- MCDelivery: time passes; each process goes on, because it works on timers, and
  one that stopped is started again (the API is a hosted service,
  `src/frontend/vercel.json:5`, whose platform does that); a restore
  that keeps wanting the lock of the mail gets it at some point (strong
  fairness: the wait of `GET_LOCK` is served in turn); a message that can expire
  does. Nothing is assumed of administrators, of the provider's answers, or of
  the enqueueing transactions.
- MCUpkeep: a restore that began goes on in a process that is up, a process that
  is down starts, and its recovery goes on (it is retried by its timer); calls
  and refreshes of a tab are answered, or time out; a socket and its timer go on, and
  a tab connects again; a job and a backfill in a
  process go on. Nothing is assumed of users, and faults are bounded.

## Findings

Four properties that the code does not have; each is what a test, a message, a comment
or a document of the repository says.

1. **MCStaleCheckout.** A checkout that waits for the book counts pending
   reservations and remaining copies in a snapshot it took before
   (`borrowing.transaction.service.ts:141-142`), and lends the copy that a
   reservation placed meanwhile needs. The placement has the fix
   (`reservation.repository.ts:249-250`), the checkout has not.
2. **MCLateSweep.** The sweep lists loans without a lock, assesses them as they
   were listed (`overdue.helper.ts:111`) and marks them `WHERE id = ?`
   (`borrowing.repository.ts:538`). A loan returned meanwhile is overdue again,
   is charged for time after its return, and blocks its patron.
3. **MCCancelledNotice.** `expire` cancels an event that is not locked, and
   `releaseForRetry` (`outbox.repository.ts:60`) clears the lock whoever holds
   the claim. A worker whose claim was taken over and given back inserts the
   notice after it was cancelled. The README of the module says that a lock
   rejects the cancellation so that it cannot race delivery.
4. **MCReversed.** A restore marks the audit events after its snapshot as
   reversed (`restore.repository.ts:252`); restoring its safety snapshot brings
   the changes back, and leaves the marks. The user guide says the safety
   snapshot undoes a restore.

The causes of the first two have other effects, which is why the properties
concerned are checked without overlap, or excuse the loans concerned:

- `markReservationReady` and `withLockedCopy` also take their snapshot before
  they wait for the book, and choose or judge a copy by nested subqueries, which
  read the snapshot: with overlap, `CopiesInOnePlace` fails in `Spec`.
  `voidAccession` and `updateCopyCondition` share the pattern.
- A loan renewed while a sweep has it on its list becomes overdue with a
  deadline in the future and, because the renewal has cleared the policy, is
  charged the whole fine of the old cycle a second time. `stale` in FineLedger
  holds the loans that a sweep wrote to by a row that was no longer so;
  `ChargesMatchTerms` and `ArchivedPatronOwesNothing` are not about these. When the copy
  was lent again, the sweep, and the request it ran for, fail on the unique key.
- A daily summary that waits for loans which a change of the rate has locked assesses
  them at the rate of its snapshot (`email.service.ts:34`). Its account is then measured
  from there under the old rate, the next assessment measures it from its own
  time under the new one, and what the time between costs is never charged. `misrated`
  holds the loans that a summary assessed at such a rate; `ChargesMatchTerms` is not about
  these either.

### Met while modelling, and not a property

Where the code is open about a limit, or where what is right is a matter of
opinion, the model follows the code and no property is stated:

- A restore that reads the registry of accessions while an assignment is under
  way (`fresh-start.sql:1529` shows what the trigger does guard) leaves a claim
  without its holding. `AccessionsStand` says so: it excuses histories in which
  that overlap happened.
- A draft whose base differs from the live section can only be discarded
  (`publishing.service.ts:34`); hiding a hidden comment changes who hid it.
- A copy that is retired or reinstated by a request which waited for another one
  leaves a recorded count that is off by one, until the copies are counted again
  (`catalog.copy-state.service.ts:46`; `catalog.availability.service.ts:23` says
  the count matches). So does an edit whose count of copies passes the validation but is
  no number to `parseInt`, such as `true`: it is stored, and the copies are not counted
  (`catalog.query.service.ts:122-133`). `CountsMatch` excuses these.
- A handler that leaves its audit event to the `auditLogger` has committed before the
  event is queued. When that fails, or the process stops, the change has no event; the
  answer carries `X-Audit-Status: unavailable` (`auditLogger.ts:599-605`).
  `TrailIsKept` is about events that were queued.
- A job of the process (`server.ts:23-28`) does not look at the maintenance mode, and a
  request under way when maintenance began has looked already. What either commits
  between the safety snapshot and the replacement is afterwards in neither the data nor
  any backup, though the user guide says that the safety snapshot undoes the restore
  (`guide-content.ts:786`). `UndoneIsSaved` excuses these changes and no others.
- The outbox delivers an audit event some time after its change, and
  `recordAuditEvent` leaves its date to the default, the time of delivery
  (`analytics.repository.ts:77-82`). A restore of a snapshot made in between calls the
  event reversed, though the snapshot has its change (`snapshot.registry.ts:2-3` says that
  actions after the snapshot are shown as reversed). `RecordAudit` dates events so;
  `ReversedIsUndone` is about restores that bring a change back, and fails either way.
- A push is dropped when the unread count that goes with it cannot be read
  (`notifications.service.ts:138-153`); the notice is shown by the next list, whenever
  that is. `NoticesAreShown` excuses the time until then.
- A desk that leaves a reservation during the lookup of its patron fills in that patron
  when the answer comes, beside whatever has been typed since, for this lookup alone has no
  sequence number (`useCirculation.ts:119-138`). `ConfirmedAsShown` excuses the patron at
  such a desk, not the copy.
- A book created while a field is archived and deleted keeps data of no field.
- `setCurrentAcademicTerm` reads the term it replaces for its audit event in an
  old snapshot, and may name the wrong one (`library-settings.service.ts:433`).
- The archiving of a book takes its snapshot before it waits for the rows of
  patrons, so its look at their fines may be old (`catalog.query.service.ts:181`).
- A snapshot reads the tables before it is recorded. An image that is replaced
  and destroyed in between is missing when that snapshot is restored
  (`catalog.image.service.ts:85`), although the tests say that a cover referenced
  by a saved snapshot must remain (`backend/test/catalog.image.test.js:78`).
- Restoring the oldest unpinned snapshot when as many as are kept are stored: the
  safety snapshot of that very restore prunes it, and destroys its images just
  before its books come back (`snapshot.storage.service.ts:147`).
- A redelivered reminder that is older overwrites a newer one
  (`overdue.helper.ts:118-128`).
- Two tabs that refresh with one cookie sign both out; so does a refresh whose
  answer is lost. `SignInLasts` is about one tab whose answers arrive.
- A list of notices that is answered late replaces a newer one, and takes pushed
  notices off the screen until the next list (`NotificationsContext.tsx:80`);
  `NoticesAreShown` says so. A socket that closes while its unread count is read
  stays in the map of the hub (`websocket.ts:46` listens only after that).
- Undo during a lookup of the desk leaves the form waiting for it
  (`useCirculation.ts:227`).
- Two refreshes of one book may leave an embedding that belongs to older details
  as `ready`, and so may a stop between the two saves; no backfill picks it up.

## Proofs

The theorems hold for every value of the constants, and nearly all are about
`Spec`, so about every overlap of requests or processes. Those of `DeliveryProofs`
are about `DeliverySpec` and `SceneSpec`, those of `UpkeepProofs` and
`OfficeProofs` about `UpkeepSpec` and `OfficeSpec`, and in `HoldsProofs` about the
`SceneSpec` of MCHolds; four of `CirculationProofs`
are about `SerialSpec`, where requests do not overlap. The assumptions are those that Circulation (five),
FineLedger (three), Outbox (`EventAssumption`, `OutboxBounds`), Accounts
(`AccountsAssumption`) and Restore (`RestoreAssumption`) name. `TablesAssumption`
of Circulation says that copies and reservations are finitely many, which
counting them needs. Components that are used as instances state theirs as
operators (`DispatchAssumption`, `AccessionBounds`, `AccountRoles`, `PublishingAssumption`,
`AttendanceAssumption`, `CatalogueAssumption`, `RegistersAssumption`, `CalendarAssumption`,
`EnrichmentAssumption`, `BrowserAssumption`, `InboxAssumption`, `CoversAssumption`),
which MCDelivery, MCOffice, MCUpkeep and MCHolds assume of their instances. They say that bounds are natural
numbers, that what stands for nothing is not a member, that the copies of books
and the holidays are finitely many, and that staff and
administrators are accounts. Some bounds are part of the model and so of the theorems (`MaxFaults`,
`MaxTime`, ...): the theorems hold for each value of them.

Circulation:

- `TypeCorrect`: TypeOK is inductive as it stands; one lemma per group of
  actions.
- `ReservationsEnd` and `FulfilmentHasLoan` follow from how each step may write
  rows (`LoansKept`, `ClosedResvsKept`): no step makes a loan of another patron
  or copy out of a loan, none changes a closed reservation but for its archived
  flag, and the only step that fulfils one inserts its loan.
- `OneActiveLoan`: uniqueness of the keys is inductive. The writes that add an
  active row are refused by the keys; the reversal of a return is not, and is
  covered by its own checks.
- `OneLiveReservation` needs a strengthening: an archived reservation is closed,
  so that restoring a row brings none to life. A placement checks with a locking
  read; every other step, and the clock, only takes reservations out of life.
- `CheckoutSeesPastDue` needs what the request knows at each stage
  (`PastDueSeen`): a loan that was past due when it came in is on the list of
  its sweep with its current deadline, or already marked; then marked; then the
  request does not get past its eligibility check. It is kept by the other
  requests because a loan that was not given back only ever gets a deadline
  that is not yet past (`DeadlinesFresh`).
- `CheckoutFromTheShelf` needs that the list of a sweep names loans only
  (`CandidatesAreLoans`), so that checkouts are the only steps that make loans.
- `PendingStaysCovered`, `CopiesStayInOnePlace` and `ReturnedStay` hold of
  `SerialSpec`, and fail when requests overlap (see Findings). `SerialInv` adds to
  the two invariants that what the one open request has read is still so
  (`ReadsCurrent`), so that its checks speak of the tables it writes, and that an
  archived loan was returned. What is left is counting: a step that only gives
  copies or ends reservations keeps every title covered (`LessKeeps`), one that
  takes copies does when its check left enough (`TakenKeeps`), a placement is
  checked to leave a copy for the newcomer, and a preparation takes one copy and
  one who waits.

FineLedger:

- `TypeCorrect` needs that a correction in progress refers to a transaction
  (`CorrectionsRefer`). That a fine account stays non-negative rests on
  `AssessType`: whatever row and rate it is given, an assessment yields an
  account charged at least what it was.
- `ChargesStay` is the other half of `AssessType`, applied to the five steps
  that assess.
- `NeverInCredit` needs two more parts (`LedgerInv`). `LocksHeld`: requests hold
  rows only while they are open, and never the same row. `PostingsCovered`: what
  an open payment or adjustment is about to take off is still outstanding, and
  is of loans of the patron, or of the loan, whose row it holds. An assessment
  or a correction only raises balances; a payment that commits lowers those of
  its patron's loans, and no other open request has any of these: another
  payment holds another patron, and an adjustment of one of them holds its row,
  which the payment's items need. The other way round, an adjustment that
  commits needs its patron's row, so no payment of that patron is open.
- `CorrectedOnce` adds `CorrectionsOrdered`: a correction refers to an earlier
  row, and what an open correction holds is not corrected yet. The row lock on
  the transaction does what a unique key would.

- `SettledAgrees`: what a fine account says was paid and reduced is the sum of a
  loan's uncorrected rows, and the model keeps that sum as the ledger's credit.
  To say so without a fold, `SettledInv` asks for a rising sequence of partial
  totals, from 0 to the credit, in which an uncorrected row is one step and any
  other row none. A posting extends the sequence; a correction lowers it from
  the corrected row on, by what that row had added and, by `CorrectionsInv`,
  not for the second time. So the credit never falls below zero, and the
  `GREATEST(0, ...)` of the statements that write the fine account never cuts
  anything off.
- `ChargesFollowTerms` compares what the code charges from due dates, rates and
  baselines with `owed`, what the terms in force add at every tick. `ChargesInv`
  says that an account is in step with the terms of its loan (`Fits`): what is
  owed is what was charged before these terms, and the fine under them beyond
  the point they were measured from. A tick keeps that because a fine grows by
  one interval exactly when a tick starts one (`NextInterval`, `FineTick`); an
  assessment under the same terms keeps it at any time up to the present
  (`AssessFits`); a renewal and a change of rate begin anew from an account that
  is charged all it owes. Requests overlap: what a sweep has listed was out and
  what a renewal has locked still is (`Listed`, `Renewing`), and the rate that a sweep
  read is the library's while it holds the settings row, so that a sweep whose
  row is unchanged assesses the loan as it is (`SweptCurrent`). Of a `misrated` loan the
  invariant keeps only what other theorems need (`Tracked`).
- `ArchivedStaySettled` follows from the same invariant, whose last part says
  that archived patrons have nothing out and owe nothing. Payments need nothing
  more: by `PostingsCovered` they post to loans with something outstanding. It
  leaves out the loans in `stale`, and only these: a sweep that listed a
  loan before its return charges it after the patron left (finding 2).

Outbox, EmailDispatch and Delivery:

- `OutboxKeepsPromise` is the refinement of EventDelivery. `OutboxInv` says what a
  process knows of the row in its hands at each step, which no lock guarantees
  (another process may have the same row): its kind, and that the effect is there
  before the row is marked; keys stand for effects. Under the mapping of kinds to
  classes every step is then one step of EventDelivery, or a stutter where
  another process was first.
- `StatusIsTrue`: the status is written without a test after a send during which
  the lock may have gone to another process. `DispatchInv` says why that is
  harmless: the message that a worker has in hand is in processing, or was called
  unknown or cancelled by another; it is not in the queue again, nobody else has
  it, and it was not accepted before its send. `DispatchTyped` is the quota.
- `DeliveryInvariant` relates the two tables, row by row; from it every step of
  the composition is a step of each of them or leaves it alone
  (`DeliveryStepKeeps`). So what was proved of each holds of both together:
  `DeliveredStatusIsTrue`, `DeliveryKeepsPromise`. There the outbox queues a
  message and hands it over, which EmailDispatch allows at any time.

Accounts: all four properties and the typing are parts of one invariant.
`RequestKnows` is the heart of it: what a request read of an account together
with a version is what the account still has at that version, unless a restore
came between, for restores are the only steps that turn versions back.
`SessionsFit` says the same of every token that a check could still accept, so of
those that are accepted (`TokensStayCurrent`). `SavedApart` says that a restore
would not put back two accounts with one address (`AddressesStayClaimed`).
`OneSessionLives` and `ChallengesStayCurrent` rest on the conditional updates of
their tables: the first of several rotations leaves the others no row, and the
statement that changes a password ends every challenge of the account.

MCDelivery: `OutboxTyped` bounds what a row of the outbox may come to (`Bounded`):
its attempts, which the model stops counting where the delay stops growing, the
delay of every attempt, however long it backs off (`BackoffFits`), and the place
in the list of reminders that a process has reached. `ScenesTyped` adds the email
worker, by `DispatchTyped`.

MCUpkeep:

- `TrailStays` needs that a pending event was queued, in the tables as in backups, so
  that the entries a restore keeps and the events it records or puts back cover all
  that was ever queued. `UndoneStaysSaved` needs, while no
  lock was lost, that one restore goes on at a time and in maintenance
  (`RestoresApart`): what commits after its safety snapshot is of a job, or was under way
  before.
- `ProgressStaysTrue`: a run that is said to be running is the one that
  `activeBackfill` holds, and the run that a failing start would put back there
  is over (`RunsApart`).
- `EditsStand`: only a save by hand changes details by hand. The save of a lookup,
  or of its failure, looks at what is there at that moment, not at what it read.
- `TabStaysSignedIn`: one refresh is under way at a time, for which the call that
  asked for it waits (`OneRefresh`). In a tab that is not disturbed it uses the
  cookie of the tab, and this is of a session that is known, or about to be
  replaced by the one in the answer (`CookieIsKnown`); so it is refused only when
  that session has ended.
- `UpkeepTyped` are the values of all four components.

MCOffice:

- `AccessionsArePermanent` needs that the registry of claims only
  grows, that every backup and every restore under way is behind it (`Behind`),
  and that what is held was claimed (`Fits`). Then the claims that a restore
  combines are the live ones. That holdings and claims agree is proved until a
  restore reads the registry during an assignment (`overlapped`), which is where
  the property, too, stops asking for it.
- `WaitingStaysOpen` and the first part of `ActedKnowingly`: whatever changes a
  case, or a comment or reports that have one, counts up its revision, but for
  the removal of the comment. So a page with the present revision shows what is
  there (`ShowsPresent`), and a decision asks for that revision.
- The second part: a change of the draft counts up its revision, so an editor
  with the present revision knows what the draft was begun from
  (`PublishingInv`); a publication asks that this is what is published.
- The third part: what is found is what is typed (`DeskInv`). An answer is taken
  only when its lookup is current, and each mode overtakes the lookups of the
  other, so an answer for one mode never fills the fields of the other; a
  checkout for a reservation, whose answer always counts, keeps its mode
  and patron until it is left, and a desk that left one during its lookup is `strayed`.
- `RecordsStayConsistent`, one part for each room of records:
  - Catalogue (`CatalogueInv`): between the steps of an edit, which holds the
    locks of its book, policy and field, nothing archives what it has read as
    active; only changes of copies of one book touch that book's counts.
  - Registers (`RegistersInv`): what an account that is being saved has chosen is
    locked and stays active until it is saved; terms are apart and, when there is
    one, one of them is current.
  - Due dates: that the loop over the days ends. Few days are closed, so the days that
    remain to be seen grow fewer, and there is a function that satisfies the
    loop's equation: it gives the last day of the finite set of days that the loop can
    pass (`Ends`). The loan then ends on an open day, with the days
    granted open before it, whatever holidays are entered or removed later.
  - Visits: a scan holds the lock of its visitor and dates what it writes
    by the clock it read under it; so a late scan cannot come before one
    that is there, and arrivals and departures alternate.
- `OfficeTyped`: the typing of Circulation is that of `TypeCorrect`; that of the other
  rooms is in the invariants above, but for three parts: the revisions of a case
  (`RevisionsFit`); a draft, which is saved and cleared together with its base
  (`SectionTyped`); and the fields of the desk, for which patrons are looked up by
  one kind of lookup and copies by another (`DeskTyped`).

MCHolds, where `CoversAndNoticesLast` joins what is proved of two components:

- `CoversLast`: the images that can still be reached, from books, stored snapshots, the
  payloads of jobs and exported files (`Reached`), are there and on no job's list
  of what it will destroy, except for those that are `adrift`
  (`NotDoomed`). A job makes its list from images that nothing
  reached when it looked; what a step makes reachable was reachable before it, or
  is just uploaded. Pruning is a matter of order: of the snapshots
  that go, the newest has as many unpinned ones after it as are kept
  (`SnapshotsStay`).
- `NoticesLast`: of every row that the account may see, each list that is as new shows it
  or has no room for anything so old (`Fetched`); and something is under way that will
  bring it (`OnItsWay`: a call, a message on the socket, or a push), or the tab has it in
  that sense, unless it is `behind` (`InPlace`). That a pushed notice can be put in front
  and the last be dropped needs that the tab's list is in order and no newer than what it
  has shown (`TabInOrder`). When the tab waits for nothing, nothing is on its way.

Every invariant and action property that a run expects to hold is proved. Only
model-checked are the liveness properties (`HoldsEnd`, `DeliveriesSettle`,
`UndertakingsEnd`), which are out of the prover's reach.

## Not modelled

- **Read models**: catalogue search, query, analytics, my library, dashboards,
  the ranking of recommendations. They change nothing; what their reads run
  first (sweep, expiry) is modelled.
- **Administration of single rows**: about, events, site content, subscriptions,
  conditions of copies, profile pictures. One statement under one lock each.
- **Rate limiter**: a library's fixed window.
- **Marks and counts of notices**: which are read, and the number beside the bell.
- **Files of a backup**: encoding, and the schedule of the timer. A backup is the
  state it was taken of.
- **A commit whose answer is lost**, after which an uploaded cover is destroyed
  although its book shows it (`catalog.image.service.ts:121`).
- **The other pages of the frontend**: they show answers and post forms.
