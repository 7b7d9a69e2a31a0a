------------------------------ MODULE FineLedger ------------------------------
(***************************************************************************)
(* Fines, payments and corrections of the library, at the grain of database *)
(* transactions on InnoDB under REPEATABLE READ.                           *)
(*                                                                         *)
(* A request that decides on a plain read and writes later is two steps:   *)
(* the step that opens it takes its first row lock and its snapshot, the   *)
(* step that commits it takes the remaining locks, those its foreign keys  *)
(* need among them.  A step that needs a row another request holds has to  *)
(* wait; two requests that wait for each other are resolved by Abort.      *)
(***************************************************************************)
EXTENDS Integers, Sequences, FiniteSets

CONSTANTS
  Patron,          \* rows of users
  Loan,            \* identifiers of borrowings, in the order they are listed
  Holder,          \* [Loan -> Patron]
  OwnRate,         \* [Loan -> Rate \cup {NoRate}]: fine_per_hour of the loan
  Interval,        \* [Loan -> Nat]: ticks in its fine_interval
  Initial,         \* [Loan -> Nat]: its initial_fine
  Rate,            \* the values overdue_fine_per_hour takes
  NoRate,          \* NULL in fine_per_hour
  NoPatron, NoLoan, \* no row is locked
  Conn,            \* connections of the pool, each serving one request
  Kinds,           \* the kinds of operation that are in use
  MaxTime,         \* bound of the clock
  MaxTx,           \* bound on the rows of clearance_transactions
  LoanPeriod,      \* loan_duration_minutes, in ticks
  MaxRenewals      \* MAX_RENEWALS

(* The requests that begin with syncOverdueBorrowings, and the others.     *)
SyncKinds == {"sweep", "pay", "adjust", "renew"}
AllKinds == SyncKinds \union {"reverse", "archive", "settings", "summary"}

ASSUME RowsAssumption ==
  /\ Loan \subseteq Nat /\ NoLoan \notin Loan /\ NoPatron \notin Patron
  /\ Holder \in [Loan -> Patron]
ASSUME TermsAssumption ==
  /\ Rate \subseteq Nat /\ NoRate \notin Rate
  /\ OwnRate \in [Loan -> Rate \union {NoRate}]
  /\ Interval \in [Loan -> Nat \ {0}] /\ Initial \in [Loan -> Nat]
ASSUME BoundsAssumption ==
  /\ Kinds \subseteq AllKinds
  /\ MaxTime \in Nat /\ MaxTx \in Nat /\ LoanPeriod \in Nat \ {0} /\ MaxRenewals \in Nat

VARIABLES
  loans,      \* the borrowings table
  accounts,   \* the fine_accounts table
  credit,     \* per loan, what the entries other than charges take off
  txs,        \* the clearance_transactions table and its items
  departed,   \* the patrons with deleted_at set
  rate,       \* overdue_fine_per_hour
  now,        \* NOW()
  req,        \* what each connection is doing
  owed,       \* not in the code: what the terms in force at each tick add up to
  stale,      \* not in the code: the loans that a sweep wrote to by rows that were
              \* no longer so
  misrated    \* not in the code: the loans that a summary assessed at a rate that
              \* was no longer the library's

ledger == <<accounts, credit, txs>>
vars == <<loans, accounts, credit, txs, departed, rate, now, req, owed, stale, misrated>>

(* ---------------------------------------------------------------- rows *)

NotReturned == -1

NoneLent == [status |-> "none", due |-> 0, returned |-> NotReturned, renewals |-> 0,
             settled |-> 0, archived |-> FALSE]

(* policy.set says that policy_baseline is not NULL.                       *)
NoPolicy == [set |-> FALSE, due |-> 0, rate |-> 0, baseline |-> 0]
NoCharge == [charged |-> 0, base |-> 0, policy |-> NoPolicy]

IsOut(row) == row.status \in {"borrowed", "overdue"} /\ ~row.archived

LoansOf(u) == {l \in Loan : Holder[l] = u}

MaxOf(a, b) == IF a < b THEN b ELSE a

(* The rate of a loan without terms of its own is the library's.           *)
RateOf(l, libraryRate) == IF OwnRate[l] = NoRate THEN libraryRate ELSE OwnRate[l]

Balance(l) == accounts[l].charged - credit[l]

(* listUnsettledBorrowings leaves out what is not positive.                *)
Unsettled(l) == MaxOf(0, Balance(l))

(* ------------------------------------------------------- the assessment *)

(* calculateFine: a started interval counts as a whole one.                *)
Intervals(elapsed, length) == (elapsed + length - 1) \div length

(* What a loan is measured up to.                                          *)
Elapsed(due, returned, at) == (IF returned = NotReturned THEN at ELSE returned) - due

(* Mutant: a loan that is not yet due has a fine as well.                  *)
FineBeforeDue(l, elapsed, perInterval) ==
  Initial[l] + Intervals(elapsed, Interval[l]) * perInterval

Fine(l, elapsed, perInterval) ==
  IF elapsed <= 0 THEN 0 ELSE Initial[l] + Intervals(elapsed, Interval[l]) * perInterval

(* The terms an account was last assessed under are no longer the loan's.  *)
PolicyChanged(acct, due, perInterval) ==
  acct.policy.set /\ (acct.policy.due # due \/ acct.policy.rate # perInterval)

(* Mutant: the fine of a cycle is worked out afresh from the present terms. *)
AssessAfresh(l, acct, due, returned, perInterval, at) ==
  [charged |-> acct.base + Fine(l, Elapsed(due, returned, at), perInterval), base |-> acct.base,
   policy |-> [set |-> TRUE, due |-> due, rate |-> perInterval, baseline |-> 0]]

(* assessBorrowing, for the values of a row the caller read earlier.       *)
Assess(l, acct, due, returned, perInterval, at) ==
  LET fine == Fine(l, Elapsed(due, returned, at), perInterval)
      rebase == \/ PolicyChanged(acct, due, perInterval)
                \/ ~acct.policy.set /\ acct.base + fine < acct.charged
      base == IF rebase THEN acct.charged ELSE acct.base
      baseline == IF rebase THEN fine ELSE IF acct.policy.set THEN acct.policy.baseline ELSE 0
  IN [charged |-> MaxOf(acct.charged, base + fine - baseline), base |-> base,
      policy |-> [set |-> TRUE, due |-> due, rate |-> perInterval, baseline |-> baseline]]

(* The same, for the row as it is and the rate as it is.                   *)
AssessNow(l, row, perInterval) == Assess(l, accounts[l], row.due, row.returned, perInterval, now)

(* beginRenewalCycle.                                                      *)
BeginRenewalCycle(acct) == [acct EXCEPT !.base = acct.charged, !.policy.set = FALSE]

(* ------------------------------------------------------------- requests *)

NoRow == [due |-> 0, returned |-> NotReturned, marked |-> FALSE]

Nothing == [l \in Loan |-> 0]

Idle == [stage |-> "idle", kind |-> "none", patron |-> NoPatron, loan |-> NoLoan, tx |-> 0,
         items |-> Nothing, ids |-> {}, rows |-> [l \in Loan |-> NoRow], rate |-> 0, began |-> 0]

At(n, stage, kind) == req[n].stage = stage /\ req[n].kind = kind

(* Mutants: the row is read without FOR UPDATE.                            *)
PatronUnlocked(u, n) == FALSE

TxUnlocked(t, n) == FALSE

(* A request other than n's holds the users row, the borrowings row, or    *)
(* the clearance_transactions row.                                         *)
PatronLocked(u, n) == \E m \in Conn \ {n} : req[m].stage = "open" /\ req[m].patron = u

LoanLocked(l, n) == \E m \in Conn \ {n} : req[m].stage = "open" /\ req[m].loan = l

TxLocked(t, n) == \E m \in Conn \ {n} : req[m].stage = "open" /\ req[m].tx = t

(* Mutant: a sweep reads the rate without the lock.                        *)
SettingsUnlocked(n) == FALSE

(* getSettings upserts the settings row, and so does updateSettings: the   *)
(* row is a sweep's from its first statement to its commit.                *)
SettingsLocked(n) == \E m \in Conn \ {n} : req[m].stage = "marking"

Finish(n) == req' = [req EXCEPT ![n] = Idle]

Abort(n) ==
  /\ req[n].stage # "idle"
  /\ Finish(n)
  /\ UNCHANGED <<loans, ledger, departed, rate, now, owed, stale, misrated>>

(* --------------------------------------------- the sweep before a request *)

(* syncOverdueBorrowings locks the settings row, reads the rate, and its   *)
(* candidates without a lock ...                                           *)
SyncOpen(n, kind) ==
  /\ req[n].stage = "idle" /\ kind \in Kinds \intersect SyncKinds
  /\ ~SettingsLocked(n)
  /\ LET ids == {l \in Loan : IsOut(loans[l])} IN
       req' = [req EXCEPT ![n] =
         [Idle EXCEPT !.stage = "marking", !.kind = kind, !.ids = ids, !.rate = rate, !.began = now,
            !.rows = [l \in Loan |-> IF l \in ids
                                     THEN [due |-> loans[l].due, returned |-> loans[l].returned,
                                           marked |-> loans[l].status = "overdue"]
                                     ELSE NoRow]]]
  /\ UNCHANGED <<loans, ledger, departed, rate, now, owed, stale, misrated>>

(* The loans that were returned or renewed since.                          *)
ChangedSince(n) ==
  {l \in req[n].ids : \/ loans[l].due # req[n].rows[l].due
                      \/ loans[l].returned # req[n].rows[l].returned}

(* ... and assesses them, each at the time it reaches it, by the rows it   *)
(* read, then marks the elapsed ones by their id alone.  INSERT IGNORE     *)
(* into fine_accounts checks its foreign key, which waits for the loan.    *)
SyncCommit(n) ==
  /\ req[n].stage = "marking"
  /\ \A l \in req[n].ids : ~LoanLocked(l, n)
  /\ \E at \in [req[n].ids -> req[n].began .. now] :
       /\ accounts' = [l \in Loan |->
            IF l \in req[n].ids
            THEN Assess(l, accounts[l], req[n].rows[l].due, req[n].rows[l].returned,
                        RateOf(l, req[n].rate), at[l])
            ELSE accounts[l]]
       /\ loans' = [l \in Loan |->
            IF /\ l \in req[n].ids /\ ~req[n].rows[l].marked
               /\ Elapsed(req[n].rows[l].due, req[n].rows[l].returned, at[l]) > 0
            THEN [loans[l] EXCEPT !.status = "overdue"] ELSE loans[l]]
  /\ IF req[n].kind = "sweep" THEN Finish(n)
     ELSE req' = [req EXCEPT ![n] = [Idle EXCEPT !.stage = "begin", !.kind = req[n].kind]]
  /\ stale' = stale \union ChangedSince(n)
  /\ UNCHANGED <<credit, txs, departed, rate, now, owed, misrated>>

(* ------------------------------------------------ payments, corrections *)

(* createTransaction: one ledger entry per item, and the settled_amount of *)
(* its loan.  sign is -1 for a reversal, whose amounts are negative.       *)
Post(type, items, sign, reverses) ==
  /\ Len(txs) < MaxTx
  /\ txs' = Append(txs, [type |-> type, items |-> items, reverses |-> reverses])
  /\ credit' = [l \in Loan |-> credit[l] + sign * items[l]]
  /\ loans' = [l \in Loan |-> [loans[l] EXCEPT !.settled = MaxOf(0, @ + sign * items[l])]]

(* The items of a transaction reference rows of borrowings.                *)
ItemsFree(items, n) == \A l \in Loan : items[l] > 0 => ~LoanLocked(l, n)

(* The order in which a payment is allocated.                              *)
ListedAt(l) == IF loans[l].returned = NotReturned THEN loans[l].due ELSE loans[l].returned
Before(k, l) == ListedAt(k) < ListedAt(l) \/ (ListedAt(k) = ListedAt(l) /\ k < l)

(* An amount covers the loans listed before l, and x of l itself.          *)
Allocation(u, l, x) ==
  [k \in Loan |-> IF k = l THEN x ELSE IF Holder[k] = u /\ Before(k, l) THEN Unsettled(k) ELSE 0]

(* recordFullPayment locks the patron, then reads the balances plainly.    *)
PayOpen(n, u) ==
  /\ At(n, "begin", "pay")
  /\ u \notin departed /\ ~PatronLocked(u, n)
  /\ \E l \in LoansOf(u) : \E x \in 1 .. Unsettled(l) :
       req' = [req EXCEPT ![n].stage = "open", ![n].patron = u, ![n].items = Allocation(u, l, x)]
  /\ UNCHANGED <<loans, ledger, departed, rate, now, owed, stale, misrated>>

PayCommit(n) ==
  /\ At(n, "open", "pay")
  /\ ItemsFree(req[n].items, n)
  /\ Post("payment", req[n].items, 1, 0)
  /\ Finish(n)
  /\ UNCHANGED <<accounts, departed, rate, now, owed, stale, misrated>>

(* adjustFine locks the loan, then reads the balances plainly.             *)
AdjustOpen(n, l) ==
  /\ At(n, "begin", "adjust")
  /\ loans[l].status # "none" /\ ~LoanLocked(l, n)
  /\ \E x \in 1 .. Unsettled(l) :
       req' = [req EXCEPT ![n].stage = "open", ![n].loan = l, ![n].items = [Nothing EXCEPT ![l] = x]]
  /\ UNCHANGED <<loans, ledger, departed, rate, now, owed, stale, misrated>>

(* The transaction references the patron's row.                            *)
AdjustCommit(n) ==
  /\ At(n, "open", "adjust")
  /\ ~PatronLocked(Holder[req[n].loan], n)
  /\ Post("adjustment", req[n].items, 1, 0)
  /\ Finish(n)
  /\ UNCHANGED <<accounts, departed, rate, now, owed, stale, misrated>>

(* Mutant: a transaction is corrected as often as it is asked for.         *)
NeverReversed(t) == FALSE

(* findExistingReversal.                                                   *)
Reversed(t) == \E c \in 1 .. Len(txs) : txs[c].reverses = t

(* reverseTransaction locks the transaction and looks for a reversal, ...  *)
ReverseOpen(n, t) ==
  /\ req[n].stage = "idle" /\ "reverse" \in Kinds
  /\ txs[t].type # "reversal" /\ ~TxLocked(t, n) /\ ~Reversed(t)
  /\ req' = [req EXCEPT ![n] = [Idle EXCEPT !.stage = "open", !.kind = "reverse", !.tx = t]]
  /\ UNCHANGED <<loans, ledger, departed, rate, now, owed, stale, misrated>>

(* Mutant: the patron's row is not looked at.                              *)
AnyAccount(u) == TRUE

ActiveAccount(u) == u \notin departed

(* ... then locks the patron and takes back what the items took off.       *)
ReverseCommit(n) ==
  /\ At(n, "open", "reverse")
  /\ LET items == txs[req[n].tx].items IN
       /\ \A l \in Loan : items[l] > 0 => ~PatronLocked(Holder[l], n) /\ ActiveAccount(Holder[l])
       /\ ItemsFree(items, n)
       /\ Post("reversal", items, -1, req[n].tx)
  /\ Finish(n)
  /\ UNCHANGED <<accounts, departed, rate, now, owed, stale, misrated>>

(* --------------------------------------------------------------- loans *)

(* assertEligible: no loan marked overdue and nothing outstanding.         *)
Eligible(u) ==
  \A l \in LoansOf(u) :
    ~(loans[l].status = "overdue" /\ ~loans[l].archived) /\ Unsettled(l) = 0

Occupied(l, n) == LoanLocked(l, n) \/ PatronLocked(Holder[l], n)

(* borrowBook: the loan, and its empty account.                            *)
Borrow(n, l) ==
  /\ req[n].stage = "idle"
  /\ loans[l].status = "none" /\ Holder[l] \notin departed
  /\ ~PatronLocked(Holder[l], n) /\ Eligible(Holder[l])
  /\ loans' = [loans EXCEPT ![l].status = "borrowed", ![l].due = now + LoanPeriod]
  /\ UNCHANGED <<ledger, departed, rate, now, req, owed, stale, misrated>>

(* returnBook assesses the row it locked up to returned_at.                *)
Return(n, l) ==
  /\ req[n].stage = "idle"
  /\ IsOut(loans[l]) /\ ~LoanLocked(l, n)
  /\ loans' = [loans EXCEPT ![l].status = "returned", ![l].returned = now]
  /\ accounts' = [accounts EXCEPT ![l] =
       AssessNow(l, [loans[l] EXCEPT !.returned = now], RateOf(l, rate))]
  /\ UNCHANGED <<credit, txs, departed, rate, now, req, owed, stale, misrated>>

(* processRenew locks the loan and takes its snapshot, ...                 *)
RenewOpen(n, l) ==
  /\ At(n, "begin", "renew")
  /\ IsOut(loans[l]) /\ ~LoanLocked(l, n)
  /\ loans[l].renewals < MaxRenewals /\ Eligible(Holder[l])
  /\ req' = [req EXCEPT ![n].stage = "open", ![n].loan = l]
  /\ UNCHANGED <<loans, ledger, departed, rate, now, owed, stale, misrated>>

(* ... then locks the patron, charges the cycle that ends and begins one.  *)
RenewCommit(n) ==
  /\ At(n, "open", "renew")
  /\ LET l == req[n].loan IN
       /\ ~PatronLocked(Holder[l], n)
       /\ accounts' = [accounts EXCEPT ![l] =
            BeginRenewalCycle(AssessNow(l, loans[l], RateOf(l, rate)))]
       /\ loans' = [loans EXCEPT ![l].status = "borrowed", ![l].due = now + LoanPeriod,
                                 ![l].renewals = @ + 1]
  /\ Finish(n)
  /\ UNCHANGED <<credit, txs, departed, rate, now, owed, stale, misrated>>

(* adminDeleteBorrowing, adminRestoreBorrowing.                            *)
ArchiveLoan(n, l) ==
  /\ req[n].stage = "idle" /\ "archive" \in Kinds
  /\ loans[l].status = "returned" /\ ~loans[l].archived
  /\ ~Occupied(l, n)
  /\ Unsettled(l) = 0
  /\ loans' = [loans EXCEPT ![l].archived = TRUE]
  /\ UNCHANGED <<ledger, departed, rate, now, req, owed, stale, misrated>>

RestoreLoan(n, l) ==
  /\ req[n].stage = "idle" /\ "archive" \in Kinds
  /\ loans[l].archived /\ ~Occupied(l, n)
  /\ loans' = [loans EXCEPT ![l].archived = FALSE]
  /\ UNCHANGED <<ledger, departed, rate, now, req, owed, stale, misrated>>

(* deleteUser locks the patron, every loan and the ledger; restoreUser.    *)
ArchivePatron(n, u) ==
  /\ req[n].stage = "idle" /\ "archive" \in Kinds
  /\ u \notin departed
  /\ \A l \in LoansOf(u) : ~Occupied(l, n) /\ Unsettled(l) = 0 /\ ~IsOut(loans[l])
  /\ departed' = departed \union {u}
  /\ UNCHANGED <<loans, ledger, rate, now, req, owed, stale, misrated>>

RestorePatron(n, u) ==
  /\ req[n].stage = "idle" /\ "archive" \in Kinds
  /\ u \in departed
  /\ departed' = departed \ {u}
  /\ UNCHANGED <<loans, ledger, rate, now, req, owed, stale, misrated>>

(* dispatchOne reads the user and the settings of the summary plainly, so  *)
(* the transaction it sends in has its snapshot, the rate among it, ...    *)
SummaryOpen(n, u) ==
  /\ req[n].stage = "idle" /\ "summary" \in Kinds
  /\ req' = [req EXCEPT ![n] =
       [Idle EXCEPT !.stage = "begin", !.kind = "summary", !.ids = LoansOf(u), !.rate = rate]]
  /\ UNCHANGED <<loans, ledger, departed, rate, now, owed, stale, misrated>>

(* ... then overdueLoans locks the loans that are late, as they are now,   *)
(* and the settings row by an upsert that changes nothing, which leaves it *)
(* the rate of its snapshot, and assesses the loans at that.               *)
SummaryCommit(n) ==
  /\ At(n, "begin", "summary") /\ ~SettingsLocked(n)
  /\ LET late == {l \in req[n].ids : IsOut(loans[l]) /\ loans[l].due < now} IN
       /\ \A l \in late : ~LoanLocked(l, n)
       /\ accounts' = [l \in Loan |->
            IF l \in late THEN AssessNow(l, loans[l], RateOf(l, req[n].rate)) ELSE accounts[l]]
       /\ misrated' = misrated \union
            {l \in late : RateOf(l, rate) # RateOf(l, req[n].rate)}
  /\ Finish(n)
  /\ UNCHANGED <<loans, credit, txs, departed, rate, now, owed, stale>>

(* updateSettings charges the loans without terms of their own up to now   *)
(* under the old rate, and measures them under the new one from now on.    *)
UpdateSettings(n, r) ==
  /\ req[n].stage = "idle" /\ "settings" \in Kinds /\ r # rate
  /\ ~SettingsLocked(n)
  /\ LET legacy == {l \in Loan : IsOut(loans[l]) /\ OwnRate[l] = NoRate} IN
       /\ \A l \in legacy : ~LoanLocked(l, n)
       /\ accounts' = [l \in Loan |->
            IF l \in legacy
            THEN Assess(l, AssessNow(l, loans[l], rate), loans[l].due, loans[l].returned, r, now)
            ELSE accounts[l]]
  /\ rate' = r
  /\ UNCHANGED <<loans, credit, txs, departed, now, req, owed, stale, misrated>>

(* The clock, and what a tick that starts an interval of a loan costs.     *)
Tick ==
  /\ now < MaxTime
  /\ now' = now + 1
  /\ owed' = [l \in Loan |->
       LET late == now + 1 - loans[l].due IN
         IF ~(IsOut(loans[l]) /\ late > 0) THEN owed[l]
         ELSE owed[l] + (IF late = 1 THEN Initial[l] ELSE 0)
                      + (IF (late - 1) % Interval[l] = 0 THEN RateOf(l, rate) ELSE 0)]
  /\ UNCHANGED <<loans, ledger, departed, rate, req, stale, misrated>>

(* ------------------------------------------------------- specification *)

Init ==
  /\ loans = [l \in Loan |-> NoneLent]
  /\ accounts = [l \in Loan |-> NoCharge]
  /\ credit = Nothing /\ owed = Nothing
  /\ txs = <<>>
  /\ departed = {} /\ stale = {} /\ misrated = {}
  /\ rate \in Rate
  /\ now = 0
  /\ req = [n \in Conn |-> Idle]

Next ==
  \/ Tick
  \/ \E n \in Conn :
       \/ Abort(n) \/ SyncCommit(n) \/ SummaryCommit(n)
       \/ PayCommit(n) \/ AdjustCommit(n) \/ ReverseCommit(n) \/ RenewCommit(n)
       \/ \E kind \in SyncKinds : SyncOpen(n, kind)
       \/ \E l \in Loan : \/ Borrow(n, l) \/ Return(n, l) \/ RenewOpen(n, l) \/ AdjustOpen(n, l)
                          \/ ArchiveLoan(n, l) \/ RestoreLoan(n, l)
       \/ \E u \in Patron : \/ PayOpen(n, u) \/ ArchivePatron(n, u) \/ RestorePatron(n, u)
                            \/ SummaryOpen(n, u)
       \/ \E t \in 1 .. Len(txs) : ReverseOpen(n, t)
       \/ \E r \in Rate : UpdateSettings(n, r)

Spec == Init /\ [][Next]_vars

(* ------------------------------------------------------------ properties *)

Row == [status : {"none", "borrowed", "overdue", "returned"}, due : Nat, returned : Nat \union {NotReturned},
        renewals : Nat, settled : Nat, archived : BOOLEAN]

Account == [charged : Nat, base : Nat,
            policy : [set : BOOLEAN, due : Nat, rate : Nat, baseline : Nat]]

Transaction == [type : {"payment", "adjustment", "reversal"}, items : [Loan -> Nat], reverses : Nat]

Request == [stage : {"idle", "marking", "begin", "open"}, kind : AllKinds \union {"none"},
            patron : Patron \union {NoPatron}, loan : Loan \union {NoLoan}, tx : Nat,
            items : [Loan -> Nat], ids : SUBSET Loan,
            rows : [Loan -> [due : Nat, returned : Nat \union {NotReturned}, marked : BOOLEAN]],
            rate : Nat, began : Nat]

(* Every table holds rows of its type, and amounts in the ledger, the      *)
(* measuring point of a policy among them, are never negative.             *)
TypeOK ==
  /\ loans \in [Loan -> Row]
  /\ accounts \in [Loan -> Account]
  /\ credit \in [Loan -> Int] /\ owed \in [Loan -> Nat]
  /\ txs \in Seq(Transaction)
  /\ departed \subseteq Patron /\ stale \subseteq Loan /\ misrated \subseteq Loan
  /\ rate \in Rate /\ now \in Nat
  /\ req \in [Conn -> Request]

(* A correction in progress refers to a row of clearance_transactions.     *)
CorrectionsRefer == \A n \in Conn : At(n, "open", "reverse") => req[n].tx \in 1 .. Len(txs)

(* No loan is paid or reduced below zero: recordFullPayment and adjustFine *)
(* decide on balances they read without a lock, each locking another row,  *)
(* and only the foreign keys of what they insert keep them apart.          *)
NoCreditBalance == \A l \in Loan : Balance(l) >= 0

(* The settled_amount that borrowings carries agrees with the ledger, so   *)
(* GREATEST(0, ...) in createTransaction never hides a difference.         *)
SettledMatchesLedger == \A l \in Loan : loans[l].settled = credit[l]

(* A payment or adjustment is corrected at most once, and a correction     *)
(* never: there is no unique key on reverses_transaction_id.               *)
ReversedAtMostOnce ==
  \A c \in 1 .. Len(txs) : txs[c].type = "reversal" =>
    /\ txs[txs[c].reverses].type # "reversal"
    /\ \A d \in 1 .. Len(txs) : txs[d].reverses = txs[c].reverses => d = c

(* A loan is never charged more than its terms add up to, tick by tick,    *)
(* across sweeps, summaries, renewals and changes of the library's rate,   *)
(* and exactly that once it is returned, unless a sweep wrote to it by a   *)
(* row that was no longer so, or a summary by a rate that was no longer so. *)
ChargesMatchTerms ==
  \A l \in Loan \ (stale \union misrated) :
    /\ accounts[l].charged <= owed[l]
    /\ loans[l].status = "returned" => accounts[l].charged = owed[l]

(* An archived patron owes nothing on any loan, although corrections may   *)
(* reopen what was paid, but for what a stale sweep charges.               *)
ArchivedPatronOwesNothing == \A l \in Loan \ stale : Holder[l] \in departed => Balance(l) = 0

(* What was charged stays charged, whatever the terms become: no sweep,    *)
(* return, renewal or change of the library's rate takes a charge back.    *)
ChargesKept == \A l \in Loan : accounts'[l].charged >= accounts[l].charged

ChargesPreserved == [][ChargesKept]_vars

(* A return is final: a loan that was returned stays returned, and its     *)
(* fine stands still, whatever request was in progress at the desk.        *)
ReturnedLoanStands ==
  [][\A l \in Loan : loans[l].status = "returned" =>
       loans'[l].status = "returned" /\ accounts'[l].charged = accounts[l].charged]_vars
===============================================================================
