-------------------------- MODULE FineLedgerProofs --------------------------
(* Theorems about FineLedger for every value of its constants, under every *)
(* overlap of requests.                                                    *)
EXTENDS FineLedger, TLAPS

(* -------------------------------------------------------- the assessment *)

(* A fine is never negative.                                               *)
LEMMA FineType ==
  ASSUME NEW l \in Loan, NEW e \in Int, NEW r \in Nat
  PROVE  Fine(l, e, r) \in Nat
<1> USE TermsAssumption
<1>1. CASE e <= 0
  BY <1>1 DEF Fine
<1>2. CASE e > 0
  <2>1. Intervals(e, Interval[l]) \in Nat
    <3>1. PICK i \in Nat \ {0} : Interval[l] = i
      OBVIOUS
    <3>2. e + i - 1 \in Nat
      BY <1>2
    <3> QED
      BY <3>1, <3>2 DEF Intervals
  <2>2. Intervals(e, Interval[l]) * r \in Nat
    BY <2>1
  <2> QED
    BY <1>2, <2>2 DEF Fine
<1> QED
  BY <1>1, <1>2

(* An assessment yields an account, charged at least what it was.          *)
LEMMA AssessType ==
  ASSUME NEW l \in Loan, NEW acct \in Account, NEW due \in Nat,
         NEW returned \in Nat \union {NotReturned}, NEW r \in Nat, NEW at \in Nat
  PROVE  /\ Assess(l, acct, due, returned, r, at) \in Account
         /\ Assess(l, acct, due, returned, r, at).charged >= acct.charged
<1> DEFINE fine == Fine(l, Elapsed(due, returned, at), r)
           rebase == \/ PolicyChanged(acct, due, r)
                     \/ ~acct.policy.set /\ acct.base + fine < acct.charged
           base == IF rebase THEN acct.charged ELSE acct.base
           baseline == IF rebase THEN fine ELSE IF acct.policy.set THEN acct.policy.baseline ELSE 0
<1>1. Elapsed(due, returned, at) \in Int
  BY DEF Elapsed, NotReturned
<1>2. fine \in Nat
  BY <1>1, FineType
<1>3. acct.charged \in Nat /\ acct.base \in Nat /\ acct.policy.baseline \in Nat
  BY DEF Account
<1>4. base \in Nat /\ baseline \in Nat
  BY <1>2, <1>3
<1>5. Assess(l, acct, due, returned, r, at) =
        [charged |-> MaxOf(acct.charged, base + fine - baseline), base |-> base,
         policy |-> [set |-> TRUE, due |-> due, rate |-> r, baseline |-> baseline]]
  BY DEF Assess
<1> HIDE DEF fine, rebase, base, baseline
<1>6. base + fine - baseline \in Int
  BY <1>2, <1>4
<1>7. /\ MaxOf(acct.charged, base + fine - baseline) \in Nat
      /\ MaxOf(acct.charged, base + fine - baseline) >= acct.charged
  BY <1>3, <1>6 DEF MaxOf
<1>8. [set |-> TRUE, due |-> due, rate |-> r, baseline |-> baseline]
        \in [set : BOOLEAN, due : Nat, rate : Nat, baseline : Nat]
  BY <1>4
<1>9. Assess(l, acct, due, returned, r, at) \in Account
  BY <1>4, <1>5, <1>7, <1>8 DEF Account
<1>10. Assess(l, acct, due, returned, r, at).charged = MaxOf(acct.charged, base + fine - baseline)
  BY <1>5
<1> QED
  BY <1>7, <1>9, <1>10

LEMMA RateType ==
  ASSUME NEW l \in Loan, NEW r \in Rate PROVE RateOf(l, r) \in Nat
  BY TermsAssumption DEF RateOf

(* The assessment of a row of the table at the present.                    *)
LEMMA AssessNowType ==
  ASSUME TypeOK, NEW l \in Loan, NEW row \in Row, NEW r \in Nat
  PROVE  AssessNow(l, row, r) \in Account /\ AssessNow(l, row, r).charged >= accounts[l].charged
<1>1. row.due \in Nat /\ row.returned \in Nat \union {NotReturned}
  BY DEF Row
<1>2. accounts[l] \in Account /\ now \in Nat
  BY DEF TypeOK
<1> QED
  BY <1>1, <1>2, AssessType DEF AssessNow

LEMMA RenewalType ==
  ASSUME NEW acct \in Account
  PROVE  BeginRenewalCycle(acct) \in Account /\ BeginRenewalCycle(acct).charged = acct.charged
  BY DEF BeginRenewalCycle, Account

(* -------------------------------------------------------------- requests *)

LEMMA IdleType == Idle \in Request
  BY DEF Idle, Request, NoRow, Nothing

LEMMA FinishType ==
  ASSUME TypeOK, NEW n \in Conn, Finish(n) PROVE req' \in [Conn -> Request]
  BY IdleType DEF Finish, TypeOK

(* A request that opens locks rows and may choose what it will post.       *)
LEMMA OpenType ==
  ASSUME TypeOK, NEW n \in Conn, NEW u \in Patron, NEW l \in Loan, NEW items \in [Loan -> Nat]
  PROVE  /\ [req EXCEPT ![n].stage = "open", ![n].patron = u, ![n].items = items] \in [Conn -> Request]
         /\ [req EXCEPT ![n].stage = "open", ![n].loan = l, ![n].items = items] \in [Conn -> Request]
         /\ [req EXCEPT ![n].stage = "open", ![n].loan = l] \in [Conn -> Request]
<1>1. req \in [Conn -> Request] /\ req[n] \in Request
  BY DEF TypeOK
<1>2. /\ [req[n] EXCEPT !.stage = "open", !.patron = u, !.items = items] \in Request
      /\ [req[n] EXCEPT !.stage = "open", !.loan = l, !.items = items] \in Request
      /\ [req[n] EXCEPT !.stage = "open", !.loan = l] \in Request
  BY <1>1 DEF Request
<1> QED
  BY <1>1, <1>2

LEMMA UnsettledType ==
  ASSUME TypeOK, NEW l \in Loan
  PROVE  Balance(l) \in Int /\ Unsettled(l) \in Nat /\ (Unsettled(l) > 0 => Unsettled(l) = Balance(l))
<1>1. Balance(l) \in Int
  BY DEF Balance, TypeOK, Account
<1> QED
  BY <1>1 DEF Unsettled, MaxOf

LEMMA AllocationType ==
  ASSUME TypeOK, NEW u \in Patron, NEW l \in LoansOf(u), NEW x \in 1 .. Unsettled(l)
  PROVE  Allocation(u, l, x) \in [Loan -> Nat]
<1>1. l \in Loan
  BY DEF LoansOf
<1>2. x \in Nat
  BY <1>1, UnsettledType
<1>3. \A k \in Loan : Unsettled(k) \in Nat
  BY UnsettledType
<1> QED
  BY <1>2, <1>3 DEF Allocation

(* ------------------------------------------------------------- the steps *)

(* A transaction of any kind keeps the types of the tables it writes.      *)
LEMMA PostType ==
  ASSUME TypeOK, NEW type \in {"payment", "adjustment", "reversal"}, NEW items \in [Loan -> Nat],
         NEW sign \in {1, -1}, NEW reverses \in Nat, Post(type, items, sign, reverses)
  PROVE  loans' \in [Loan -> Row] /\ credit' \in [Loan -> Int] /\ txs' \in Seq(Transaction)
<1>1. \A l \in Loan : sign * items[l] \in Int
  OBVIOUS
<1>2. credit' \in [Loan -> Int]
  BY <1>1 DEF Post, TypeOK
<1>3. [type |-> type, items |-> items, reverses |-> reverses] \in Transaction
  BY DEF Transaction
<1>4. txs' \in Seq(Transaction)
  BY <1>3 DEF Post, TypeOK
<1>5. ASSUME NEW l \in Loan
      PROVE  [loans[l] EXCEPT !.settled = MaxOf(0, @ + sign * items[l])] \in Row
  <2>1. loans[l] \in Row /\ loans[l].settled + sign * items[l] \in Int
    BY <1>1 DEF TypeOK, Row
  <2>2. MaxOf(0, loans[l].settled + sign * items[l]) \in Nat
    BY <2>1 DEF MaxOf
  <2> QED
    BY <2>1, <2>2 DEF Row
<1>6. loans' \in [Loan -> Row]
  BY <1>5 DEF Post
<1> QED
  BY <1>2, <1>4, <1>6

(* The five steps that assess: accounts stay accounts, and charges stay.   *)
LEMMA AssessmentsType ==
  ASSUME TypeOK, NEW n \in Conn,
         \/ SyncCommit(n) \/ RenewCommit(n) \/ SummaryCommit(n)
         \/ \E l \in Loan : Return(n, l)
         \/ \E r \in Rate : UpdateSettings(n, r)
  PROVE  accounts' \in [Loan -> Account] /\ ChargesKept
<1>1. rate \in Rate /\ now \in Nat /\ rate \in Nat
  BY TermsAssumption DEF TypeOK
<1>2. ASSUME NEW l \in Loan PROVE accounts[l] \in Account /\ loans[l] \in Row /\ accounts[l].charged \in Int
  BY DEF TypeOK, Account
<1>3. CASE SyncCommit(n)
  <2>1. req[n] \in Request
    BY DEF TypeOK
  <2>2. PICK at \in [req[n].ids -> req[n].began .. now] :
          accounts' = [l \in Loan |->
            IF l \in req[n].ids
            THEN Assess(l, accounts[l], req[n].rows[l].due, req[n].rows[l].returned,
                        RateOf(l, req[n].rate), at[l])
            ELSE accounts[l]]
    BY <1>3 DEF SyncCommit
  <2>3. ASSUME NEW l \in req[n].ids
        PROVE  /\ Assess(l, accounts[l], req[n].rows[l].due, req[n].rows[l].returned,
                         RateOf(l, req[n].rate), at[l]) \in Account
               /\ Assess(l, accounts[l], req[n].rows[l].due, req[n].rows[l].returned,
                         RateOf(l, req[n].rate), at[l]).charged >= accounts[l].charged
    <3>1. l \in Loan /\ req[n].began \in Nat /\ req[n].rate \in Nat
      BY <2>1 DEF Request
    <3>2. at[l] \in Nat
      BY <3>1, <2>2, <1>1
    <3>3. req[n].rows[l] \in [due : Nat, returned : Nat \union {NotReturned}, marked : BOOLEAN]
      BY <2>1, <3>1 DEF Request
    <3>4. RateOf(l, req[n].rate) \in Nat
      BY <3>1, TermsAssumption DEF RateOf
    <3> QED
      BY <1>2, <3>1, <3>2, <3>3, <3>4, AssessType
  <2> QED
    BY <1>2, <2>2, <2>3 DEF ChargesKept
<1>4. CASE RenewCommit(n)
  <2> DEFINE l == req[n].loan
             acct == BeginRenewalCycle(AssessNow(l, loans[l], RateOf(l, rate)))
  <2>1. accounts' = [accounts EXCEPT ![l] = acct]
    BY <1>4 DEF RenewCommit
  <2>2. ASSUME l \in Loan PROVE acct \in Account /\ acct.charged >= accounts[l].charged
    <3>1. RateOf(l, rate) \in Nat /\ loans[l] \in Row
      BY <2>2, <1>1, <1>2, RateType
    <3>2. /\ AssessNow(l, loans[l], RateOf(l, rate)) \in Account
          /\ AssessNow(l, loans[l], RateOf(l, rate)).charged >= accounts[l].charged
      BY <2>2, <3>1, AssessNowType
    <3>3. acct \in Account /\ acct.charged = AssessNow(l, loans[l], RateOf(l, rate)).charged
      BY <3>2, RenewalType
    <3> QED
      BY <3>2, <3>3
  <2> HIDE DEF acct
  <2>3. accounts \in [Loan -> Account]
    BY DEF TypeOK
  <2>4. accounts' \in [Loan -> Account]
    BY <2>1, <2>2, <2>3
  <2>5. ASSUME NEW k \in Loan PROVE accounts'[k].charged >= accounts[k].charged
    <3>1. CASE k = l
      BY <2>1, <2>2, <2>3, <3>1
    <3>2. CASE k # l
      BY <1>2, <2>1, <2>3, <3>2
    <3> QED
      BY <3>1, <3>2
  <2> QED
    BY <2>4, <2>5 DEF ChargesKept
<1>5. ASSUME NEW l \in Loan, Return(n, l) PROVE accounts' \in [Loan -> Account] /\ ChargesKept
  <2> DEFINE row == [loans[l] EXCEPT !.returned = now]
             acct == AssessNow(l, row, RateOf(l, rate))
  <2>1. row \in Row
    <3>1. loans[l] \in Row /\ now \in Nat \union {NotReturned}
      BY <1>1, <1>2
    <3> QED
      BY <3>1 DEF Row
  <2>2. acct \in Account /\ acct.charged >= accounts[l].charged
    BY <1>1, <2>1, RateType, AssessNowType
  <2>3. accounts' = [accounts EXCEPT ![l] = acct]
    BY <1>5 DEF Return
  <2> HIDE DEF acct
  <2>4. accounts \in [Loan -> Account]
    BY DEF TypeOK
  <2> QED
    BY <1>2, <2>2, <2>3, <2>4 DEF ChargesKept
<1>6. CASE SummaryCommit(n)
  <2> DEFINE late == {l \in req[n].ids : IsOut(loans[l]) /\ loans[l].due < now}
  <2>1. accounts' = [l \in Loan |->
          IF l \in late THEN AssessNow(l, loans[l], RateOf(l, req[n].rate)) ELSE accounts[l]]
    BY <1>6 DEF SummaryCommit
  <2>2. ASSUME NEW l \in Loan
        PROVE  /\ AssessNow(l, loans[l], RateOf(l, req[n].rate)) \in Account
               /\ AssessNow(l, loans[l], RateOf(l, req[n].rate)).charged >= accounts[l].charged
    <3>1. req[n] \in Request
      BY DEF TypeOK
    <3>2. RateOf(l, req[n].rate) \in Nat
      BY <3>1, TermsAssumption DEF RateOf, Request
    <3> QED
      BY <1>2, <3>2, AssessNowType
  <2> HIDE DEF late
  <2> QED
    BY <1>2, <2>1, <2>2 DEF ChargesKept
<1>7. ASSUME NEW r \in Rate, UpdateSettings(n, r) PROVE accounts' \in [Loan -> Account] /\ ChargesKept
  <2> DEFINE legacy == {l \in Loan : IsOut(loans[l]) /\ OwnRate[l] = NoRate}
             acct(l) == Assess(l, AssessNow(l, loans[l], rate), loans[l].due, loans[l].returned, r, now)
  <2>1. accounts' = [l \in Loan |-> IF l \in legacy THEN acct(l) ELSE accounts[l]]
    BY <1>7 DEF UpdateSettings
  <2>2. ASSUME NEW l \in Loan PROVE acct(l) \in Account /\ acct(l).charged >= accounts[l].charged
    <3>1. /\ AssessNow(l, loans[l], rate) \in Account
          /\ AssessNow(l, loans[l], rate).charged >= accounts[l].charged
      BY <1>1, <1>2, AssessNowType
    <3>2. loans[l].due \in Nat /\ loans[l].returned \in Nat \union {NotReturned} /\ r \in Nat
      BY <1>2, TermsAssumption DEF Row
    <3>3. acct(l) \in Account /\ acct(l).charged >= AssessNow(l, loans[l], rate).charged
      BY <1>1, <3>1, <3>2, AssessType
    <3>4. acct(l).charged \in Int /\ AssessNow(l, loans[l], rate).charged \in Int
      BY <3>1, <3>3 DEF Account
    <3> QED
      BY <1>2, <3>1, <3>3, <3>4
  <2> HIDE DEF legacy, acct
  <2> QED
    BY <1>2, <2>1, <2>2 DEF ChargesKept
<1> QED
  BY <1>3, <1>4, <1>5, <1>6, <1>7

LEMMA SyncType ==
  ASSUME TypeOK, NEW n \in Conn,
         SyncCommit(n) \/ \E kind \in SyncKinds : SyncOpen(n, kind)
  PROVE  TypeOK'
<1>1. ASSUME NEW kind \in SyncKinds, SyncOpen(n, kind)
      PROVE  TypeOK'
  <2> DEFINE ids == {l \in Loan : IsOut(loans[l])}
             rows == [l \in Loan |-> IF l \in ids
                                     THEN [due |-> loans[l].due, returned |-> loans[l].returned,
                                           marked |-> loans[l].status = "overdue"]
                                     ELSE NoRow]
  <2>1. rows \in [Loan -> [due : Nat, returned : Nat \union {NotReturned}, marked : BOOLEAN]]
    BY DEF NoRow, TypeOK, Row
  <2>2. rate \in Nat /\ now \in Nat /\ kind \in AllKinds
    BY TermsAssumption DEF TypeOK, AllKinds
  <2> HIDE DEF rows
  <2>3. [Idle EXCEPT !.stage = "marking", !.kind = kind, !.ids = ids, !.rate = rate, !.began = now,
                     !.rows = rows] \in Request
    BY <2>1, <2>2, IdleType DEF Request
  <2>4. req' = [req EXCEPT ![n] =
          [Idle EXCEPT !.stage = "marking", !.kind = kind, !.ids = ids, !.rate = rate, !.began = now,
                       !.rows = rows]]
    BY <1>1 DEF SyncOpen, rows
  <2>5. req' \in [Conn -> Request]
    BY <2>3, <2>4 DEF TypeOK
  <2> QED
    BY <1>1, <2>5 DEF SyncOpen, ledger, TypeOK
<1>2. CASE SyncCommit(n)
  <2>1. req[n] \in Request
    BY DEF TypeOK
  <2>2. PICK at \in [req[n].ids -> req[n].began .. now] :
          loans' = [l \in Loan |->
            IF /\ l \in req[n].ids /\ ~req[n].rows[l].marked
               /\ Elapsed(req[n].rows[l].due, req[n].rows[l].returned, at[l]) > 0
            THEN [loans[l] EXCEPT !.status = "overdue"] ELSE loans[l]]
    BY <1>2 DEF SyncCommit
  <2>3. loans' \in [Loan -> Row]
    <3>1. ASSUME NEW l \in Loan PROVE [loans[l] EXCEPT !.status = "overdue"] \in Row
      BY DEF TypeOK, Row
    <3> QED
      BY <2>2, <3>1 DEF TypeOK
  <2>4. accounts' \in [Loan -> Account]
    BY <1>2, AssessmentsType
  <2>5. req' \in [Conn -> Request]
    <3>1. CASE req[n].kind = "sweep"
      BY <1>2, <3>1, FinishType DEF SyncCommit
    <3>2. CASE req[n].kind # "sweep"
      <4>1. [Idle EXCEPT !.stage = "begin", !.kind = req[n].kind] \in Request
        BY <2>1, IdleType DEF Request
      <4> QED
        BY <1>2, <3>2, <4>1 DEF SyncCommit, TypeOK
    <3> QED
      BY <3>1, <3>2
  <2>6. stale' \subseteq Loan
    BY <1>2, <2>1 DEF SyncCommit, ChangedSince, TypeOK, Request
  <2> QED
    BY <1>2, <2>3, <2>4, <2>5, <2>6 DEF SyncCommit, TypeOK
<1> QED
  BY <1>1, <1>2

LEMMA PaymentsType ==
  ASSUME TypeOK, CorrectionsRefer, NEW n \in Conn,
         \/ Abort(n) \/ PayCommit(n) \/ AdjustCommit(n) \/ ReverseCommit(n)
         \/ \E u \in Patron : PayOpen(n, u)
         \/ \E l \in Loan : AdjustOpen(n, l)
         \/ \E t \in 1 .. Len(txs) : ReverseOpen(n, t)
  PROVE  TypeOK'
<1>1. CASE Abort(n)
  BY <1>1, FinishType DEF Abort, ledger, TypeOK
<1>2. ASSUME NEW u \in Patron, PayOpen(n, u) PROVE TypeOK'
  <2>1. PICK l \in LoansOf(u) : \E x \in 1 .. Unsettled(l) :
          req' = [req EXCEPT ![n].stage = "open", ![n].patron = u, ![n].items = Allocation(u, l, x)]
    BY <1>2 DEF PayOpen
  <2>2. PICK x \in 1 .. Unsettled(l) :
          req' = [req EXCEPT ![n].stage = "open", ![n].patron = u, ![n].items = Allocation(u, l, x)]
    BY <2>1
  <2>3. Allocation(u, l, x) \in [Loan -> Nat] /\ l \in Loan
    BY AllocationType DEF LoansOf
  <2>4. req' \in [Conn -> Request]
    BY <2>2, <2>3, OpenType
  <2> QED
    BY <1>2, <2>4 DEF PayOpen, ledger, TypeOK
<1>3. ASSUME NEW l \in Loan, AdjustOpen(n, l) PROVE TypeOK'
  <2>1. PICK x \in 1 .. Unsettled(l) :
          req' = [req EXCEPT ![n].stage = "open", ![n].loan = l, ![n].items = [Nothing EXCEPT ![l] = x]]
    BY <1>3 DEF AdjustOpen
  <2>2. [Nothing EXCEPT ![l] = x] \in [Loan -> Nat]
    BY UnsettledType DEF Nothing
  <2>3. Holder[l] \in Patron
    BY RowsAssumption
  <2>4. req' \in [Conn -> Request]
    BY <2>1, <2>2, <2>3, OpenType
  <2> QED
    BY <1>3, <2>4 DEF AdjustOpen, ledger, TypeOK
<1>4. ASSUME NEW t \in 1 .. Len(txs), ReverseOpen(n, t) PROVE TypeOK'
  <2>1. t \in Nat
    BY DEF TypeOK
  <2>2. [Idle EXCEPT !.stage = "open", !.kind = "reverse", !.tx = t] \in Request
    BY <2>1, IdleType DEF Request, AllKinds
  <2> QED
    BY <1>4, <2>2 DEF ReverseOpen, ledger, TypeOK
<1>5. CASE PayCommit(n) \/ AdjustCommit(n)
  <2>1. req[n].items \in [Loan -> Nat]
    BY DEF TypeOK, Request
  <2>2. PICK type \in {"payment", "adjustment"} : Post(type, req[n].items, 1, 0)
    BY <1>5 DEF PayCommit, AdjustCommit
  <2>3. loans' \in [Loan -> Row] /\ credit' \in [Loan -> Int] /\ txs' \in Seq(Transaction)
    BY <2>1, <2>2, PostType
  <2> QED
    BY <1>5, <2>3, FinishType DEF PayCommit, AdjustCommit, TypeOK
<1>6. CASE ReverseCommit(n)
  <2> DEFINE t == req[n].tx
  <2>1. t \in 1 .. Len(txs) /\ t \in Nat
    BY <1>6 DEF ReverseCommit, CorrectionsRefer, TypeOK
  <2>2. Post("reversal", txs[t].items, -1, t)
    BY <1>6 DEF ReverseCommit
  <2>3. txs[t].items \in [Loan -> Nat]
    <3>1. txs[t] \in Transaction
      BY <2>1 DEF TypeOK
    <3> QED
      BY <3>1 DEF Transaction
  <2>4. loans' \in [Loan -> Row] /\ credit' \in [Loan -> Int] /\ txs' \in Seq(Transaction)
    BY <2>1, <2>2, <2>3, PostType
  <2> QED
    BY <1>6, <2>4, FinishType DEF ReverseCommit, TypeOK
<1> QED
  BY <1>1, <1>2, <1>3, <1>4, <1>5, <1>6

LEMMA LoansType ==
  ASSUME TypeOK, NEW n \in Conn,
         \/ RenewCommit(n)
         \/ \E l \in Loan : \/ Borrow(n, l) \/ Return(n, l) \/ RenewOpen(n, l)
                            \/ ArchiveLoan(n, l) \/ RestoreLoan(n, l)
  PROVE  TypeOK'
<1>1. now + LoanPeriod \in Nat /\ rate \in Rate /\ now \in Nat
  BY BoundsAssumption DEF TypeOK
<1>2. ASSUME NEW l \in Loan
      PROVE  /\ loans[l] \in Row
             /\ [[loans[l] EXCEPT !.status = "borrowed"] EXCEPT !.due = now + LoanPeriod] \in Row
             /\ [[loans[l] EXCEPT !.status = "returned"] EXCEPT !.returned = now] \in Row
             /\ [loans[l] EXCEPT !.archived = TRUE] \in Row
             /\ [loans[l] EXCEPT !.archived = FALSE] \in Row
             /\ [[[loans[l] EXCEPT !.status = "borrowed"] EXCEPT !.due = now + LoanPeriod]
                    EXCEPT !.renewals = @ + 1] \in Row
  <2>1. loans[l] \in Row
    BY DEF TypeOK
  <2>2. now \in Nat \union {NotReturned} /\ loans[l].renewals + 1 \in Nat
    BY <1>1, <2>1 DEF Row
  <2> QED
    BY <1>1, <2>1, <2>2 DEF Row
<1>3. CASE RenewCommit(n)
  <2> DEFINE l == req[n].loan
             row == [loans[l] EXCEPT !.status = "borrowed", !.due = now + LoanPeriod, !.renewals = @ + 1]
  <2>1. loans' = [loans EXCEPT ![l].status = "borrowed", ![l].due = now + LoanPeriod, ![l].renewals = @ + 1]
    BY <1>3 DEF RenewCommit
  <2>2. ASSUME l \in Loan PROVE row \in Row
    BY <2>2, <1>2
  <2>3. loans' \in [Loan -> Row]
    BY <2>1, <2>2 DEF TypeOK
  <2>4. accounts' \in [Loan -> Account]
    BY <1>3, AssessmentsType
  <2> QED
    BY <1>3, <2>3, <2>4, FinishType DEF RenewCommit, TypeOK
<1>4. ASSUME NEW l \in Loan, Borrow(n, l) PROVE TypeOK'
  <2>1. loans' \in [Loan -> Row]
    BY <1>2, <1>4 DEF Borrow, TypeOK
  <2> QED
    BY <1>4, <2>1 DEF Borrow, ledger, TypeOK
<1>5. ASSUME NEW l \in Loan, Return(n, l) PROVE TypeOK'
  <2>1. loans' \in [Loan -> Row]
    BY <1>2, <1>5 DEF Return, TypeOK
  <2>2. accounts' \in [Loan -> Account]
    BY <1>5, AssessmentsType
  <2> QED
    BY <1>5, <2>1, <2>2 DEF Return, TypeOK
<1>6. ASSUME NEW l \in Loan, RenewOpen(n, l) PROVE TypeOK'
  <2>1. Holder[l] \in Patron /\ Nothing \in [Loan -> Nat]
    BY RowsAssumption DEF Nothing
  <2>2. req' \in [Conn -> Request]
    BY <1>6, <2>1, OpenType DEF RenewOpen
  <2> QED
    BY <1>6, <2>2 DEF RenewOpen, ledger, TypeOK
<1>7. ASSUME NEW l \in Loan, ArchiveLoan(n, l) \/ RestoreLoan(n, l) PROVE TypeOK'
  <2>1. loans' \in [Loan -> Row]
    BY <1>2, <1>7 DEF ArchiveLoan, RestoreLoan, TypeOK
  <2> QED
    BY <1>7, <2>1 DEF ArchiveLoan, RestoreLoan, ledger, TypeOK
<1> QED
  BY <1>3, <1>4, <1>5, <1>6, <1>7

LEMMA OfficeType ==
  ASSUME TypeOK, NEW n \in Conn,
         \/ \E u \in Patron : ArchivePatron(n, u) \/ RestorePatron(n, u) \/ SummaryOpen(n, u)
         \/ SummaryCommit(n)
         \/ \E r \in Rate : UpdateSettings(n, r)
  PROVE  TypeOK'
<1>1. ASSUME NEW u \in Patron, ArchivePatron(n, u) \/ RestorePatron(n, u) PROVE TypeOK'
  BY <1>1 DEF ArchivePatron, RestorePatron, ledger, TypeOK
<1>2. CASE SummaryCommit(n)
  <2>1. accounts' \in [Loan -> Account]
    BY <1>2, AssessmentsType
  <2>2. misrated' \subseteq Loan
    <3>1. req[n].ids \subseteq Loan
      BY DEF TypeOK, Request
    <3> QED
      BY <1>2, <3>1 DEF SummaryCommit, TypeOK
  <2> QED
    BY <1>2, <2>1, <2>2, FinishType DEF SummaryCommit, TypeOK
<1>3. ASSUME NEW r \in Rate, UpdateSettings(n, r) PROVE TypeOK'
  <2>1. accounts' \in [Loan -> Account]
    BY <1>3, AssessmentsType
  <2> QED
    BY <1>3, <2>1 DEF UpdateSettings, TypeOK
<1>4. ASSUME NEW u \in Patron, SummaryOpen(n, u) PROVE TypeOK'
  <2>1. LoansOf(u) \subseteq Loan /\ rate \in Nat
    BY TermsAssumption DEF LoansOf, TypeOK
  <2>2. [Idle EXCEPT !.stage = "begin", !.kind = "summary", !.ids = LoansOf(u), !.rate = rate] \in Request
    BY <2>1, IdleType DEF Request, AllKinds
  <2>3. req' \in [Conn -> Request]
    BY <1>4, <2>2 DEF SummaryOpen, TypeOK
  <2> QED
    BY <1>4, <2>3 DEF SummaryOpen, ledger, TypeOK
<1> QED
  BY <1>1, <1>2, <1>3, <1>4

LEMMA TickType ==
  ASSUME TypeOK, Tick PROVE TypeOK'
<1>1. ASSUME NEW l \in Loan
      PROVE  owed[l] \in Nat /\ Initial[l] \in Nat /\ RateOf(l, rate) \in Nat
  BY TermsAssumption, RateType DEF TypeOK
<1>2. owed' \in [Loan -> Nat]
  BY <1>1 DEF Tick
<1>3. now' \in Nat
  BY DEF Tick, TypeOK
<1> QED
  BY <1>2, <1>3 DEF Tick, ledger, TypeOK

LEMMA InitType == Init => TypeOK /\ CorrectionsRefer
<1> SUFFICES ASSUME Init PROVE TypeOK /\ CorrectionsRefer
  OBVIOUS
<1>1. NoneLent \in Row /\ NoCharge \in Account
  BY DEF NoneLent, Row, NoCharge, NoPolicy, Account
<1>2. TypeOK
  BY <1>1, IdleType DEF Init, Nothing, TypeOK
<1>3. CorrectionsRefer
  BY DEF Init, Idle, At, CorrectionsRefer
<1> QED
  BY <1>2, <1>3

(* Only ReverseOpen begins a correction, and the table of transactions     *)
(* never shrinks.                                                          *)
LEMMA CorrectionsStep ==
  ASSUME TypeOK, CorrectionsRefer, Next PROVE CorrectionsRefer'
<1>1. Len(txs) \in Nat /\ Len(txs') \in Nat /\ Len(txs') >= Len(txs)
  <2>1. CASE txs' = txs
    BY <2>1 DEF TypeOK
  <2>2. ASSUME NEW type, NEW items, NEW sign, NEW reverses, Post(type, items, sign, reverses)
        PROVE  Len(txs) \in Nat /\ Len(txs') = Len(txs) + 1
    <3>1. txs' = Append(txs, [type |-> type, items |-> items, reverses |-> reverses])
      BY <2>2 DEF Post
    <3> DEFINE row == [type |-> type, items |-> items, reverses |-> reverses]
    <3>2. txs \in Seq(Transaction \union {row})
      BY DEF TypeOK
    <3> HIDE DEF row
    <3>3. txs' = Append(txs, row) /\ row \in Transaction \union {row}
      BY <3>1 DEF row
    <3> QED
      BY <3>2, <3>3
  <2>3. CASE Tick
    BY <2>1, <2>3 DEF Tick, ledger
  <2>4. ASSUME NEW n \in Conn,
               \/ PayCommit(n) \/ AdjustCommit(n) \/ ReverseCommit(n)
               \/ Abort(n) \/ SyncCommit(n) \/ RenewCommit(n) \/ SummaryCommit(n)
        PROVE  Len(txs) \in Nat /\ Len(txs') \in Nat /\ Len(txs') >= Len(txs)
    BY <2>1, <2>2, <2>4 DEF Abort, SyncCommit, PayCommit, AdjustCommit, ReverseCommit, RenewCommit,
      SummaryCommit, ledger
  <2>5. ASSUME NEW n \in Conn, NEW kind \in SyncKinds, SyncOpen(n, kind)
        PROVE  txs' = txs
    BY <2>5 DEF SyncOpen, ledger
  <2>6. ASSUME NEW n \in Conn, NEW l \in Loan,
               \/ Borrow(n, l) \/ Return(n, l) \/ RenewOpen(n, l) \/ AdjustOpen(n, l)
               \/ ArchiveLoan(n, l) \/ RestoreLoan(n, l)
        PROVE  txs' = txs
    BY <2>6 DEF Borrow, Return, RenewOpen, AdjustOpen, ArchiveLoan, RestoreLoan, ledger
  <2>7. ASSUME NEW n \in Conn, NEW u \in Patron,
               PayOpen(n, u) \/ ArchivePatron(n, u) \/ RestorePatron(n, u) \/ SummaryOpen(n, u)
        PROVE  txs' = txs
    BY <2>7 DEF PayOpen, ArchivePatron, RestorePatron, SummaryOpen, ledger
  <2>8. ASSUME NEW n \in Conn,
               (\E t \in 1 .. Len(txs) : ReverseOpen(n, t)) \/ (\E r \in Rate : UpdateSettings(n, r))
        PROVE  txs' = txs
    BY <2>8 DEF ReverseOpen, UpdateSettings, ledger
  <2> QED
    BY <2>1, <2>3, <2>4, <2>5, <2>6, <2>7, <2>8 DEF Next
<1>2. ASSUME NEW m \in Conn, At(m, "open", "reverse")'
      PROVE  \/ req'[m] = req[m]
             \/ \E t \in 1 .. Len(txs) : req'[m].tx = t
  <2> USE <1>2 DEF At
  <2>1. CASE Tick
    BY <2>1 DEF Tick
  <2>2. ASSUME NEW n \in Conn, Finish(n) PROVE req'[m] = req[m]
    BY <2>2 DEF Finish, TypeOK, Idle
  <2>3. ASSUME NEW n \in Conn,
               \/ Abort(n) \/ PayCommit(n) \/ AdjustCommit(n) \/ ReverseCommit(n) \/ RenewCommit(n)
               \/ SummaryCommit(n)
        PROVE  req'[m] = req[m]
    BY <2>2, <2>3 DEF Abort, PayCommit, AdjustCommit, ReverseCommit, RenewCommit, SummaryCommit
  <2>4. ASSUME NEW n \in Conn, SyncCommit(n) PROVE req'[m] = req[m]
    BY <2>2, <2>4 DEF SyncCommit, TypeOK, Idle
  <2>5. ASSUME NEW n \in Conn, NEW kind \in SyncKinds, SyncOpen(n, kind) PROVE req'[m] = req[m]
    BY <2>5 DEF SyncOpen, TypeOK, Idle
  <2>9. ASSUME NEW n \in Conn, NEW u \in Patron, SummaryOpen(n, u) PROVE req'[m] = req[m]
    BY <2>9 DEF SummaryOpen, TypeOK, Idle
  <2>6. ASSUME NEW n \in Conn, NEW l \in Loan, RenewOpen(n, l) \/ AdjustOpen(n, l) PROVE req'[m] = req[m]
    <3>1. req \in [Conn -> Request] /\ req[n].kind # "reverse"
      BY <2>6 DEF RenewOpen, AdjustOpen, TypeOK
    <3>2. PICK items \in [Loan -> Nat] :
            \/ req' = [req EXCEPT ![n].stage = "open", ![n].loan = l]
            \/ req' = [req EXCEPT ![n].stage = "open", ![n].loan = l, ![n].items = items]
      <4>1. Nothing \in [Loan -> Nat] /\ \A x \in 1 .. Unsettled(l) : [Nothing EXCEPT ![l] = x] \in [Loan -> Nat]
        BY UnsettledType DEF Nothing
      <4> QED
        BY <2>6, <4>1 DEF RenewOpen, AdjustOpen
    <3> QED
      BY <3>1, <3>2 DEF Request
  <2>7. ASSUME NEW n \in Conn, NEW u \in Patron, PayOpen(n, u) PROVE req'[m] = req[m]
    BY <2>7 DEF PayOpen, TypeOK, Request
  <2>8. ASSUME NEW n \in Conn, NEW t \in 1 .. Len(txs), ReverseOpen(n, t)
        PROVE  req'[m] = req[m] \/ req'[m].tx = t
    BY <2>8 DEF ReverseOpen, TypeOK, Idle
  <2> QED
    BY <2>1, <2>3, <2>4, <2>5, <2>6, <2>7, <2>8, <2>9
    DEF Next, Borrow, Return, ArchiveLoan, RestoreLoan, ArchivePatron, RestorePatron, UpdateSettings
<1>3. ASSUME NEW m \in Conn, At(m, "open", "reverse")' PROVE req'[m].tx \in 1 .. Len(txs')
  <2>1. CASE req'[m] = req[m]
    <3>1. req[m].tx \in 1 .. Len(txs)
      BY <1>3, <2>1 DEF At, CorrectionsRefer
    <3> QED
      BY <1>1, <2>1, <3>1
  <2>2. CASE \E t \in 1 .. Len(txs) : req'[m].tx = t
    BY <1>1, <2>2
  <2> QED
    BY <1>2, <1>3, <2>1, <2>2
<1> QED
  BY <1>3 DEF CorrectionsRefer

LEMMA NextType ==
  ASSUME TypeOK, CorrectionsRefer, [Next]_vars PROVE TypeOK' /\ CorrectionsRefer'
<1>1. CASE Next
  <2>1. TypeOK'
    BY <1>1, SyncType, PaymentsType, LoansType, OfficeType, TickType DEF Next
  <2> QED
    BY <1>1, <2>1, CorrectionsStep
<1>2. CASE UNCHANGED vars
  BY <1>2 DEF vars, ledger, TypeOK, CorrectionsRefer, At
<1> QED
  BY <1>1, <1>2

(* Every table keeps rows of its type, amounts in the ledger stay natural  *)
(* numbers, and a correction in progress refers to a transaction.          *)
THEOREM TypeCorrect == Spec => [](TypeOK /\ CorrectionsRefer)
<1>1. Init => TypeOK /\ CorrectionsRefer
  BY InitType
<1>2. (TypeOK /\ CorrectionsRefer) /\ [Next]_vars => (TypeOK /\ CorrectionsRefer)'
  BY NextType
<1> QED
  BY <1>1, <1>2, PTL DEF Spec

(* What was charged stays charged: whatever a sweep, a return, a renewal,  *)
(* a summary or a change of the library's rate assesses, no step lowers    *)
(* the charged amount of a loan.                                           *)
THEOREM ChargesStay == Spec => ChargesPreserved
<1>1. TypeOK /\ [Next]_vars => [ChargesKept]_vars
  <2> SUFFICES ASSUME TypeOK, Next PROVE ChargesKept
    OBVIOUS
  <2>1. CASE accounts' = accounts
    BY <2>1 DEF ChargesKept, TypeOK, Account
  <2>2. CASE Tick
    BY <2>1, <2>2 DEF Tick, ledger
  <2>3. ASSUME NEW n \in Conn,
               \/ Abort(n) \/ PayCommit(n) \/ AdjustCommit(n) \/ ReverseCommit(n)
               \/ \E kind \in SyncKinds : SyncOpen(n, kind)
               \/ \E t \in 1 .. Len(txs) : ReverseOpen(n, t)
        PROVE  ChargesKept
    BY <2>1, <2>3 DEF Abort, PayCommit, AdjustCommit, ReverseCommit, SyncOpen, ReverseOpen, ledger
  <2>4. ASSUME NEW n \in Conn, NEW l \in Loan,
               Borrow(n, l) \/ RenewOpen(n, l) \/ AdjustOpen(n, l) \/ ArchiveLoan(n, l) \/ RestoreLoan(n, l)
        PROVE  ChargesKept
    BY <2>1, <2>4 DEF Borrow, RenewOpen, AdjustOpen, ArchiveLoan, RestoreLoan, ledger
  <2>5. ASSUME NEW n \in Conn, NEW u \in Patron,
               PayOpen(n, u) \/ ArchivePatron(n, u) \/ RestorePatron(n, u) \/ SummaryOpen(n, u)
        PROVE  ChargesKept
    BY <2>1, <2>5 DEF PayOpen, ArchivePatron, RestorePatron, SummaryOpen, ledger
  <2> QED
    BY <2>2, <2>3, <2>4, <2>5, AssessmentsType DEF Next
<1> QED
  BY <1>1, TypeCorrect, PTL DEF Spec, ChargesPreserved

(* -------------------------------------------------- the rows a request holds *)

Released(r) == r.patron = NoPatron /\ r.loan = NoLoan /\ r.tx = 0

(* A request holds rows only while it is open, the row its kind opens with *)
(* among them, and no two requests hold the same row.                      *)
LocksHeld ==
  \A n \in Conn :
    /\ req[n].stage # "open" => Released(req[n])
    /\ At(n, "open", "pay") => req[n].patron \in Patron
    /\ At(n, "open", "adjust") => req[n].loan \in Loan
    /\ At(n, "open", "reverse") => req[n].tx \in 1 .. Len(txs)
    /\ \A m \in Conn \ {n} :
         /\ req[m].patron = req[n].patron => req[n].patron = NoPatron
         /\ req[m].loan = req[n].loan => req[n].loan = NoLoan
         /\ req[m].tx = req[n].tx => req[n].tx = 0

(* What a payment or an adjustment is about to post is still outstanding,  *)
(* and touches only loans whose balance the row it holds protects.         *)
Covered(n) ==
  (At(n, "open", "pay") \/ At(n, "open", "adjust")) =>
    \A l \in Loan : req[n].items[l] > 0 =>
      /\ req[n].items[l] <= Balance(l)
      /\ At(n, "open", "pay") => Holder[l] = req[n].patron
      /\ At(n, "open", "adjust") => l = req[n].loan

PostingsCovered == \A n \in Conn : Covered(n)

(* Corrections refer back to what they correct, a correction in progress   *)
(* to what is not corrected yet.                                           *)
CorrectionsOrdered ==
  /\ \A c \in 1 .. Len(txs) :
       IF txs[c].type = "reversal" THEN txs[c].reverses \in 1 .. Len(txs) ELSE txs[c].reverses = 0
  /\ \A n \in Conn : At(n, "open", "reverse") =>
       txs[req[n].tx].type # "reversal" /\ ~Reversed(req[n].tx)

LedgerInv ==
  TypeOK /\ CorrectionsRefer /\ LocksHeld /\ PostingsCovered /\ NoCreditBalance

(* -------------------------------------------- what a step does to requests *)

OthersKeep(n) == \A m \in Conn \ {n} : req'[m] = req[m]

LEMMA ReleasesAll ==
  ASSUME TypeOK, NEW n \in Conn,
         \/ Abort(n) \/ SyncCommit(n) \/ \E kind \in SyncKinds : SyncOpen(n, kind)
         \/ PayCommit(n) \/ AdjustCommit(n) \/ ReverseCommit(n) \/ RenewCommit(n)
         \/ SummaryCommit(n) \/ \E u \in Patron : SummaryOpen(n, u)
  PROVE  OthersKeep(n) /\ req'[n].stage # "open" /\ Released(req'[n])
<1>1. req \in [Conn -> Request]
  BY DEF TypeOK
<1>2. ASSUME Finish(n) PROVE OthersKeep(n) /\ req'[n].stage # "open" /\ Released(req'[n])
  BY <1>1, <1>2 DEF Finish, Idle, OthersKeep, Released
<1>3. CASE SyncCommit(n)
  <2>1. CASE req[n].kind = "sweep"
    BY <1>2, <1>3, <2>1 DEF SyncCommit
  <2>2. CASE req[n].kind # "sweep"
    <3>1. req' = [req EXCEPT ![n] = [Idle EXCEPT !.stage = "begin", !.kind = req[n].kind]]
      BY <1>3, <2>2 DEF SyncCommit
    <3> QED
      BY <1>1, <3>1 DEF Idle, OthersKeep, Released
  <2> QED
    BY <2>1, <2>2
<1>4. ASSUME NEW kind \in SyncKinds, SyncOpen(n, kind)
      PROVE  OthersKeep(n) /\ req'[n].stage # "open" /\ Released(req'[n])
  BY <1>1, <1>4 DEF SyncOpen, Idle, OthersKeep, Released
<1>5. ASSUME NEW u \in Patron, SummaryOpen(n, u)
      PROVE  OthersKeep(n) /\ req'[n].stage # "open" /\ Released(req'[n])
  BY <1>1, <1>5 DEF SummaryOpen, Idle, OthersKeep, Released
<1> QED
  BY <1>2, <1>3, <1>4, <1>5 DEF Abort, PayCommit, AdjustCommit, ReverseCommit, RenewCommit, SummaryCommit

LEMMA PayOpens ==
  ASSUME TypeOK, LocksHeld, NEW n \in Conn, NEW u \in Patron, PayOpen(n, u)
  PROVE  /\ OthersKeep(n) /\ req'[n].stage = "open" /\ req'[n].kind = "pay"
         /\ req'[n].patron = u /\ req'[n].loan = NoLoan /\ req'[n].tx = 0
         /\ \E l \in LoansOf(u) : \E x \in 1 .. Unsettled(l) : req'[n].items = Allocation(u, l, x)
<1>1. req \in [Conn -> Request] /\ req[n] \in Request
  BY DEF TypeOK
<1>2. PICK l \in LoansOf(u) : \E x \in 1 .. Unsettled(l) :
        req' = [req EXCEPT ![n].stage = "open", ![n].patron = u, ![n].items = Allocation(u, l, x)]
  BY DEF PayOpen
<1>3. PICK x \in 1 .. Unsettled(l) :
        req' = [req EXCEPT ![n].stage = "open", ![n].patron = u, ![n].items = Allocation(u, l, x)]
  BY <1>2
<1>4. At(n, "begin", "pay") /\ Released(req[n])
  BY DEF PayOpen, LocksHeld, At
<1>5. req'[n] = [req[n] EXCEPT !.stage = "open", !.patron = u, !.items = Allocation(u, l, x)]
  BY <1>1, <1>3
<1>6. OthersKeep(n)
  BY <1>1, <1>3 DEF OthersKeep
<1> QED
  BY <1>1, <1>4, <1>5, <1>6 DEF At, Released, Request

LEMMA LoanOpens ==
  ASSUME TypeOK, LocksHeld, NEW n \in Conn, NEW l \in Loan, RenewOpen(n, l) \/ AdjustOpen(n, l)
  PROVE  /\ OthersKeep(n) /\ req'[n].stage = "open"
         /\ req'[n].patron = NoPatron /\ req'[n].loan = l /\ req'[n].tx = 0
         /\ RenewOpen(n, l) => req'[n].kind = "renew"
         /\ AdjustOpen(n, l) => /\ req'[n].kind = "adjust"
                                /\ \E x \in 1 .. Unsettled(l) : req'[n].items = [Nothing EXCEPT ![l] = x]
<1>1. req \in [Conn -> Request] /\ req[n] \in Request
  BY DEF TypeOK
<1>2. CASE RenewOpen(n, l)
  <2>1. At(n, "begin", "renew") /\ Released(req[n])
    BY <1>2 DEF RenewOpen, LocksHeld, At
  <2>2. req'[n] = [req[n] EXCEPT !.stage = "open", !.loan = l] /\ OthersKeep(n)
    BY <1>1, <1>2 DEF RenewOpen, OthersKeep
  <2>3. ~AdjustOpen(n, l)
    BY <2>1 DEF AdjustOpen, At
  <2> QED
    BY <1>1, <2>1, <2>2, <2>3 DEF At, Released, Request
<1>3. CASE AdjustOpen(n, l)
  <2>1. At(n, "begin", "adjust") /\ Released(req[n])
    BY <1>3 DEF AdjustOpen, LocksHeld, At
  <2>2. PICK x \in 1 .. Unsettled(l) :
          req' = [req EXCEPT ![n].stage = "open", ![n].loan = l, ![n].items = [Nothing EXCEPT ![l] = x]]
    BY <1>3 DEF AdjustOpen
  <2>3. /\ req'[n] = [req[n] EXCEPT !.stage = "open", !.loan = l, !.items = [Nothing EXCEPT ![l] = x]]
        /\ OthersKeep(n)
    BY <1>1, <2>2 DEF OthersKeep
  <2>4. ~RenewOpen(n, l)
    BY <2>1 DEF RenewOpen, At
  <2> QED
    BY <1>1, <2>1, <2>3, <2>4 DEF At, Released, Request
<1> QED
  BY <1>2, <1>3

LEMMA ReverseOpens ==
  ASSUME TypeOK, NEW n \in Conn, NEW t \in 1 .. Len(txs), ReverseOpen(n, t)
  PROVE  /\ OthersKeep(n) /\ req'[n].stage = "open" /\ req'[n].kind = "reverse"
         /\ req'[n].patron = NoPatron /\ req'[n].loan = NoLoan /\ req'[n].tx = t
<1>1. req \in [Conn -> Request]
  BY DEF TypeOK
<1> QED
  BY <1>1 DEF ReverseOpen, Idle, OthersKeep

(* A request opens only on rows that no other request holds.               *)
LEMMA LocksStep ==
  ASSUME TypeOK, CorrectionsRefer, LocksHeld, Next, CorrectionsRefer' PROVE LocksHeld'
<1>1. CASE req' = req
  <2>1. \A n \in Conn : At(n, "open", "reverse")' => req'[n].tx \in (1 .. Len(txs))'
    BY DEF CorrectionsRefer
  <2> QED
    BY <1>1, <2>1 DEF LocksHeld, At
<1> DEFINE Clear(n) ==
      /\ \A m \in Conn \ {n} :
           /\ req[m].patron = req'[n].patron => req'[n].patron = NoPatron
           /\ req[m].loan = req'[n].loan => req'[n].loan = NoLoan
           /\ req[m].tx = req'[n].tx => req'[n].tx = 0
      /\ req'[n].stage # "open" => Released(req'[n])
      /\ req'[n].stage = "open" /\ req'[n].kind = "pay" => req'[n].patron \in Patron
      /\ req'[n].stage = "open" /\ req'[n].kind = "adjust" => req'[n].loan \in Loan
<1>2. ASSUME NEW n \in Conn, OthersKeep(n), Clear(n) PROVE LocksHeld'
  <2>1. ASSUME NEW k \in Conn
        PROVE  /\ req'[k].stage # "open" => Released(req'[k])
               /\ At(k, "open", "pay")' => req'[k].patron \in Patron
               /\ At(k, "open", "adjust")' => req'[k].loan \in Loan
    <3>1. CASE k = n
      BY <1>2, <3>1 DEF At
    <3>2. CASE k # n
      BY <1>2, <3>2 DEF OthersKeep, LocksHeld, At
    <3> QED
      BY <3>1, <3>2
  <2>2. ASSUME NEW k \in Conn, NEW m \in Conn \ {k}
        PROVE  /\ req'[m].patron = req'[k].patron => req'[k].patron = NoPatron
               /\ req'[m].loan = req'[k].loan => req'[k].loan = NoLoan
               /\ req'[m].tx = req'[k].tx => req'[k].tx = 0
    <3>1. CASE k = n
      BY <1>2, <3>1 DEF OthersKeep
    <3>2. CASE m = n
      BY <1>2, <3>2 DEF OthersKeep
    <3>3. CASE k # n /\ m # n
      BY <1>2, <3>3 DEF OthersKeep, LocksHeld
    <3> QED
      BY <3>1, <3>2, <3>3
  <2>3. \A k \in Conn : At(k, "open", "reverse")' => req'[k].tx \in (1 .. Len(txs))'
    BY DEF CorrectionsRefer
  <2> QED
    BY <2>1, <2>2, <2>3 DEF LocksHeld, Released
<1>3. ASSUME NEW n \in Conn, OthersKeep(n), req'[n].stage # "open", Released(req'[n]) PROVE LocksHeld'
  BY <1>2, <1>3 DEF Released
<1>4. ASSUME NEW n \in Conn, NEW u \in Patron, PayOpen(n, u) PROVE LocksHeld'
  <2>1. \A m \in Conn \ {n} : req[m].patron # u
    BY <1>4, RowsAssumption DEF PayOpen, PatronLocked, LocksHeld, Released
  <2> QED
    BY <1>2, <1>4, <2>1, PayOpens
<1>5. ASSUME NEW n \in Conn, NEW l \in Loan, RenewOpen(n, l) \/ AdjustOpen(n, l) PROVE LocksHeld'
  <2>1. \A m \in Conn \ {n} : req[m].loan # l
    BY <1>5, RowsAssumption DEF RenewOpen, AdjustOpen, LoanLocked, LocksHeld, Released
  <2>2. req'[n].kind # "pay"
    BY <1>5, LoanOpens
  <2> QED
    BY <1>2, <1>5, <2>1, <2>2, LoanOpens
<1>6. ASSUME NEW n \in Conn, NEW t \in 1 .. Len(txs), ReverseOpen(n, t) PROVE LocksHeld'
  <2>1. \A m \in Conn \ {n} : req[m].tx # t
    BY <1>6 DEF ReverseOpen, TxLocked, LocksHeld, Released
  <2> QED
    BY <1>2, <1>6, <2>1, ReverseOpens
<1>7. CASE Tick
  BY <1>1, <1>7 DEF Tick
<1>8. ASSUME NEW n \in Conn,
             \/ Abort(n) \/ SyncCommit(n) \/ \E kind \in SyncKinds : SyncOpen(n, kind)
             \/ PayCommit(n) \/ AdjustCommit(n) \/ ReverseCommit(n) \/ RenewCommit(n)
             \/ SummaryCommit(n) \/ \E u \in Patron : SummaryOpen(n, u)
      PROVE  LocksHeld'
  BY <1>3, <1>8, ReleasesAll
<1>9. ASSUME NEW n \in Conn, NEW l \in Loan,
             Borrow(n, l) \/ Return(n, l) \/ ArchiveLoan(n, l) \/ RestoreLoan(n, l)
      PROVE  LocksHeld'
  BY <1>1, <1>9 DEF Borrow, Return, ArchiveLoan, RestoreLoan
<1>10. ASSUME NEW n \in Conn,
              \/ \E u \in Patron : ArchivePatron(n, u) \/ RestorePatron(n, u)
              \/ \E r \in Rate : UpdateSettings(n, r)
       PROVE  LocksHeld'
  BY <1>1, <1>10 DEF ArchivePatron, RestorePatron, UpdateSettings
<1> QED
  BY <1>4, <1>5, <1>6, <1>7, <1>8, <1>9, <1>10 DEF Next

(* -------------------------------------------------- balances of the loans *)

LEMMA BalanceType ==
  ASSUME TypeOK, NEW l \in Loan PROVE Balance(l) \in Int /\ credit[l] \in Int /\ accounts[l].charged \in Nat
  BY DEF Balance, TypeOK, Account

(* Covered, with the kinds of request told apart.                          *)
LEMMA CoveredCases ==
  ASSUME NEW n \in Conn, Covered(n), NEW l \in Loan, req[n].items[l] > 0,
         At(n, "open", "pay") \/ At(n, "open", "adjust")
  PROVE  /\ req[n].items[l] <= Balance(l)
         /\ At(n, "open", "pay") => Holder[l] = req[n].patron
         /\ At(n, "open", "adjust") => l = req[n].loan
  BY DEF Covered

(* A request that a step leaves alone stays covered where no balance falls *)
(* that it is about to reduce.                                             *)
LEMMA StaysCovered ==
  ASSUME TypeOK, TypeOK', NEW m \in Conn, Covered(m), req'[m] = req[m],
         At(m, "open", "pay") \/ At(m, "open", "adjust") =>
           \A l \in Loan : req[m].items[l] > 0 => Balance(l)' >= Balance(l)
  PROVE  Covered(m)'
<1> SUFFICES ASSUME At(m, "open", "pay")' \/ At(m, "open", "adjust")', NEW l \in Loan, req'[m].items[l] > 0
             PROVE  /\ req'[m].items[l] <= Balance(l)'
                    /\ At(m, "open", "pay")' => Holder[l] = req'[m].patron
                    /\ At(m, "open", "adjust")' => l = req'[m].loan
  BY DEF Covered
<1>1. /\ At(m, "open", "pay")' <=> At(m, "open", "pay")
      /\ At(m, "open", "adjust")' <=> At(m, "open", "adjust")
  BY DEF At
<1>2. req[m].items[l] <= Balance(l) /\ Balance(l)' >= Balance(l)
  BY <1>1, CoveredCases
<1>3. req[m].items[l] \in Nat /\ Balance(l) \in Int /\ Balance(l)' \in Int
  <2>1. req[m] \in Request
    BY DEF TypeOK
  <2>2. Balance(l)' \in Int
    BY DEF Balance, TypeOK, Account
  <2> QED
    BY <2>1, <2>2, BalanceType DEF Request
<1>4. req'[m].items[l] <= Balance(l)'
  BY <1>2, <1>3
<1> QED
  BY <1>1, <1>4, CoveredCases

(* A step that posts nothing lowers no balance.                            *)
LEMMA QuietStep ==
  ASSUME TypeOK, TypeOK', PostingsCovered, NoCreditBalance, ChargesKept, credit' = credit,
         req' = req \/ \E n \in Conn : OthersKeep(n) /\ Covered(n)'
  PROVE  PostingsCovered' /\ NoCreditBalance'
<1>1. ASSUME NEW l \in Loan PROVE Balance(l)' >= Balance(l) /\ Balance(l) \in Int /\ Balance(l)' \in Int
  <2>1. accounts'[l].charged \in Nat /\ accounts[l].charged \in Nat /\ credit[l] \in Int
    BY DEF TypeOK, Account
  <2>2. accounts'[l].charged >= accounts[l].charged
    BY DEF ChargesKept
  <2> QED
    BY <2>1, <2>2 DEF Balance
<1>2. NoCreditBalance'
  BY <1>1 DEF NoCreditBalance
<1>3. ASSUME NEW m \in Conn, req'[m] = req[m] PROVE Covered(m)'
  BY <1>1, <1>3, StaysCovered DEF PostingsCovered
<1>4. PostingsCovered'
  BY <1>3 DEF PostingsCovered, OthersKeep
<1> QED
  BY <1>2, <1>4

(* A step that posts items, which lowers or raises the balances they name. *)
LEMMA PostingBalance ==
  ASSUME TypeOK, TypeOK', NEW type, NEW items \in [Loan -> Nat], NEW sign \in {1, -1}, NEW reverses,
         Post(type, items, sign, reverses), accounts' = accounts, NEW l \in Loan
  PROVE  /\ Balance(l)' = IF sign = 1 THEN Balance(l) - items[l] ELSE Balance(l) + items[l]
         /\ items[l] \in Nat
<1>1. credit'[l] = credit[l] + sign * items[l]
  BY DEF Post
<1>2. credit[l] \in Int /\ accounts[l].charged \in Nat /\ items[l] \in Nat
  BY BalanceType
<1>3. CASE sign = 1
  BY <1>1, <1>2, <1>3 DEF Balance
<1>4. CASE sign = -1
  BY <1>1, <1>2, <1>4 DEF Balance
<1> QED
  BY <1>2, <1>3, <1>4

(* A payment or an adjustment posts what it covers, and what another       *)
(* request is about to post is of other loans.                             *)
LEMMA PaymentStep ==
  ASSUME LedgerInv, TypeOK', NEW n \in Conn, PayCommit(n) \/ AdjustCommit(n)
  PROVE  PostingsCovered' /\ NoCreditBalance'
<1> USE DEF LedgerInv
<1> DEFINE items == req[n].items
<1>1. items \in [Loan -> Nat]
  BY DEF TypeOK, Request
<1>2. PICK type \in {"payment", "adjustment"} : Post(type, items, 1, 0)
  BY DEF PayCommit, AdjustCommit
<1>3. accounts' = accounts
  BY DEF PayCommit, AdjustCommit
<1>4. ASSUME NEW l \in Loan
      PROVE  /\ Balance(l)' = Balance(l) - items[l]
             /\ items[l] \in Nat /\ Balance(l) \in Int /\ Balance(l) >= 0
  BY <1>1, <1>2, <1>3, PostingBalance, BalanceType DEF NoCreditBalance
<1>5. OthersKeep(n) /\ req'[n].stage # "open"
  BY ReleasesAll
<1>6. At(n, "open", "pay") \/ At(n, "open", "adjust")
  BY DEF PayCommit, AdjustCommit
<1>7. NoCreditBalance'
  <2>1. ASSUME NEW l \in Loan PROVE Balance(l)' >= 0
    <3>1. CASE items[l] > 0
      BY <1>4, <1>6, <3>1, CoveredCases DEF PostingsCovered
    <3>2. CASE ~(items[l] > 0)
      BY <1>4, <3>2
    <3> QED
      BY <3>1, <3>2
  <2> QED
    BY <2>1 DEF NoCreditBalance
<1>8. ASSUME NEW m \in Conn \ {n}, At(m, "open", "pay") \/ At(m, "open", "adjust"),
             NEW l \in Loan, req[m].items[l] > 0, items[l] > 0
      PROVE  FALSE
  <2>1. /\ At(m, "open", "pay") => Holder[l] = req[m].patron
        /\ At(m, "open", "adjust") => l = req[m].loan
        /\ At(n, "open", "pay") => Holder[l] = req[n].patron
        /\ At(n, "open", "adjust") => l = req[n].loan
    BY <1>6, <1>8, CoveredCases DEF PostingsCovered
  <2>2. Holder[l] # NoPatron /\ l # NoLoan
    BY RowsAssumption
  <2>3. CASE PayCommit(n)
    <3>1. At(n, "open", "pay") /\ ~LoanLocked(l, n)
      BY <1>8, <2>3 DEF PayCommit, ItemsFree
    <3>2. ~At(m, "open", "adjust")
      BY <2>1, <3>1 DEF LoanLocked, At
    <3> QED
      BY <1>8, <2>1, <2>2, <3>1, <3>2 DEF LocksHeld
  <2>4. CASE AdjustCommit(n)
    <3>1. At(n, "open", "adjust") /\ ~PatronLocked(Holder[l], n)
      BY <2>1, <2>4 DEF AdjustCommit
    <3>2. ~At(m, "open", "pay")
      BY <2>1, <3>1 DEF PatronLocked, At
    <3> QED
      BY <1>8, <2>1, <2>2, <3>1, <3>2 DEF LocksHeld
  <2> QED
    BY <2>3, <2>4
<1>9. ASSUME NEW m \in Conn \ {n} PROVE Covered(m)'
  <2>1. ASSUME At(m, "open", "pay") \/ At(m, "open", "adjust"), NEW l \in Loan, req[m].items[l] > 0
        PROVE  Balance(l)' >= Balance(l)
    <3>1. ~(items[l] > 0)
      BY <1>8, <2>1
    <3> QED
      BY <1>4, <3>1
  <2>2. req'[m] = req[m] /\ Covered(m)
    BY <1>5 DEF OthersKeep, PostingsCovered
  <2> QED
    BY <2>1, <2>2, StaysCovered
<1>10. Covered(n)'
  BY <1>5 DEF Covered, At
<1> QED
  BY <1>7, <1>9, <1>10 DEF PostingsCovered

(* A correction only raises balances.                                      *)
LEMMA CorrectionStep ==
  ASSUME LedgerInv, TypeOK', NEW n \in Conn, ReverseCommit(n)
  PROVE  PostingsCovered' /\ NoCreditBalance'
<1> USE DEF LedgerInv
<1> DEFINE items == txs[req[n].tx].items
<1>1. items \in [Loan -> Nat]
  <2>1. txs[req[n].tx] \in Transaction
    BY DEF ReverseCommit, CorrectionsRefer, TypeOK
  <2> QED
    BY <2>1 DEF Transaction
<1>2. Post("reversal", items, -1, req[n].tx) /\ accounts' = accounts
  BY DEF ReverseCommit
<1>3. ASSUME NEW l \in Loan PROVE Balance(l)' >= Balance(l) /\ Balance(l)' >= 0
  <2>1. Balance(l)' = Balance(l) + items[l] /\ items[l] \in Nat
    BY <1>1, <1>2, PostingBalance
  <2>2. Balance(l) \in Int /\ Balance(l) >= 0
    BY BalanceType DEF NoCreditBalance
  <2> HIDE DEF items
  <2> QED
    BY <2>1, <2>2
<1>4. OthersKeep(n) /\ req'[n].stage # "open"
  BY ReleasesAll
<1>5. ASSUME NEW m \in Conn \ {n} PROVE Covered(m)'
  BY <1>3, <1>4, StaysCovered DEF OthersKeep, PostingsCovered
<1>6. Covered(n)'
  BY <1>4 DEF Covered, At
<1> QED
  BY <1>3, <1>5, <1>6 DEF PostingsCovered, NoCreditBalance

LEMMA BalancesStep ==
  ASSUME LedgerInv, TypeOK', Next PROVE PostingsCovered' /\ NoCreditBalance'
<1> USE DEF LedgerInv
<1>1. ASSUME accounts' = accounts PROVE ChargesKept
  BY <1>1 DEF ChargesKept, TypeOK, Account
<1>2. ASSUME NEW n \in Conn, OthersKeep(n), req'[n].stage # "open", credit' = credit, ChargesKept
      PROVE  PostingsCovered' /\ NoCreditBalance'
  BY <1>2, QuietStep DEF Covered, At
<1>3. ASSUME NEW n \in Conn,
             \/ Abort(n) \/ SyncCommit(n) \/ RenewCommit(n) \/ \E kind \in SyncKinds : SyncOpen(n, kind)
             \/ SummaryCommit(n) \/ \E u \in Patron : SummaryOpen(n, u)
      PROVE  PostingsCovered' /\ NoCreditBalance'
  <2>1. credit' = credit /\ ChargesKept
    BY <1>1, <1>3, AssessmentsType DEF Abort, SyncCommit, RenewCommit, SyncOpen, SummaryOpen,
      SummaryCommit, ledger
  <2> QED
    BY <1>2, <1>3, <2>1, ReleasesAll
<1>4. ASSUME NEW n \in Conn, NEW u \in Patron, PayOpen(n, u)
      PROVE  PostingsCovered' /\ NoCreditBalance'
  <2>1. credit' = credit /\ accounts' = accounts /\ ChargesKept
    BY <1>1, <1>4 DEF PayOpen, ledger
  <2>2. PICK l \in LoansOf(u) : \E x \in 1 .. Unsettled(l) : req'[n].items = Allocation(u, l, x)
    BY <1>4, PayOpens
  <2>3. PICK x \in 1 .. Unsettled(l) : req'[n].items = Allocation(u, l, x)
    BY <2>2
  <2>4. ASSUME NEW k \in Loan, req'[n].items[k] > 0
        PROVE  req'[n].items[k] <= Balance(k)' /\ Holder[k] = u
    <3>1. Balance(k)' = Balance(k)
      BY <2>1 DEF Balance
    <3>2. /\ Unsettled(k) \in Nat /\ Balance(k) \in Int
          /\ Unsettled(k) > 0 => Unsettled(k) = Balance(k)
      BY UnsettledType
    <3>3. CASE k = l
      <4>1. req'[n].items[k] = x
        BY <2>3, <3>3 DEF Allocation
      <4>2. x <= Unsettled(k) /\ x \in Nat /\ x >= 1
        BY <3>2, <3>3
      <4> QED
        BY <3>1, <3>2, <3>3, <4>1, <4>2 DEF LoansOf
    <3>4. CASE k # l
      <4>1. Holder[k] = u /\ req'[n].items[k] = Unsettled(k)
        BY <2>3, <2>4, <3>4 DEF Allocation
      <4> QED
        BY <2>4, <3>1, <3>2, <4>1
    <3> QED
      BY <3>3, <3>4
  <2>5. Covered(n)' /\ OthersKeep(n)
    BY <1>4, <2>4, PayOpens DEF Covered, At
  <2> QED
    BY <2>1, <2>5, QuietStep
<1>5. ASSUME NEW n \in Conn, NEW l \in Loan, RenewOpen(n, l) \/ AdjustOpen(n, l)
      PROVE  PostingsCovered' /\ NoCreditBalance'
  <2>1. credit' = credit /\ accounts' = accounts /\ ChargesKept
    BY <1>1, <1>5 DEF RenewOpen, AdjustOpen, ledger
  <2>2. CASE RenewOpen(n, l)
    <3>1. Covered(n)'
      BY <2>2, LoanOpens DEF Covered, At
    <3> QED
      BY <1>5, <2>1, <3>1, LoanOpens, QuietStep
  <2>3. CASE AdjustOpen(n, l)
    <3>1. PICK x \in 1 .. Unsettled(l) : req'[n].items = [Nothing EXCEPT ![l] = x]
      BY <2>3, LoanOpens
    <3>2. /\ Unsettled(l) \in Nat /\ Balance(l) \in Int
          /\ Unsettled(l) > 0 => Unsettled(l) = Balance(l)
      BY UnsettledType
    <3>3. Balance(l)' = Balance(l)
      BY <2>1 DEF Balance
    <3>4. ASSUME NEW k \in Loan, req'[n].items[k] > 0 PROVE k = l /\ req'[n].items[k] <= Balance(k)'
      <4>1. k = l
        BY <3>1, <3>4 DEF Nothing
      <4>2. req'[n].items[k] = x
        BY <3>1, <4>1 DEF Nothing
      <4> QED
        BY <3>2, <3>3, <4>1, <4>2
    <3>5. req'[n].loan = l /\ req'[n].kind = "adjust"
      BY <2>3, LoanOpens
    <3>6. Covered(n)'
      BY <3>4, <3>5 DEF Covered, At
    <3> QED
      BY <1>5, <2>1, <3>6, LoanOpens, QuietStep
  <2> QED
    BY <1>5, <2>2, <2>3
<1>6. ASSUME NEW n \in Conn, NEW t \in 1 .. Len(txs), ReverseOpen(n, t)
      PROVE  PostingsCovered' /\ NoCreditBalance'
  <2>1. credit' = credit /\ ChargesKept
    BY <1>1, <1>6 DEF ReverseOpen, ledger
  <2>2. OthersKeep(n) /\ req'[n].kind = "reverse"
    BY <1>6, ReverseOpens
  <2> QED
    BY <2>1, <2>2, QuietStep DEF Covered, At
<1>7. CASE Tick
  BY <1>1, <1>7, QuietStep DEF Tick, ledger
<1>8. ASSUME NEW n \in Conn, NEW l \in Loan,
             Borrow(n, l) \/ Return(n, l) \/ ArchiveLoan(n, l) \/ RestoreLoan(n, l)
      PROVE  PostingsCovered' /\ NoCreditBalance'
  <2>1. credit' = credit /\ req' = req /\ ChargesKept
    BY <1>1, <1>8, AssessmentsType DEF Borrow, Return, ArchiveLoan, RestoreLoan, ledger
  <2> QED
    BY <2>1, QuietStep
<1>9. ASSUME NEW n \in Conn,
             \/ \E u \in Patron : ArchivePatron(n, u) \/ RestorePatron(n, u)
             \/ \E r \in Rate : UpdateSettings(n, r)
      PROVE  PostingsCovered' /\ NoCreditBalance'
  <2>1. credit' = credit /\ req' = req /\ ChargesKept
    BY <1>1, <1>9, AssessmentsType DEF ArchivePatron, RestorePatron, UpdateSettings, ledger
  <2> QED
    BY <2>1, QuietStep
<1> QED
  BY <1>3, <1>4, <1>5, <1>6, <1>7, <1>8, <1>9, PaymentStep, CorrectionStep DEF Next

LEMMA LedgerInit == Init => LedgerInv
<1> SUFFICES ASSUME Init PROVE LedgerInv
  OBVIOUS
<1>1. LocksHeld
  BY DEF Init, Idle, LocksHeld, Released, At
<1>2. PostingsCovered
  BY DEF Init, Idle, PostingsCovered, Covered, At
<1>3. NoCreditBalance
  BY DEF Init, NoCharge, Nothing, NoCreditBalance, Balance
<1> QED
  BY <1>1, <1>2, <1>3, InitType DEF LedgerInv

LEMMA LedgerNext == LedgerInv /\ [Next]_vars => LedgerInv'
<1> SUFFICES ASSUME LedgerInv, [Next]_vars PROVE LedgerInv'
  OBVIOUS
<1>1. TypeOK' /\ CorrectionsRefer'
  BY NextType DEF LedgerInv
<1>2. CASE Next
  BY <1>1, <1>2, LocksStep, BalancesStep DEF LedgerInv
<1>3. CASE UNCHANGED vars
  BY <1>1, <1>3 DEF vars, ledger, LedgerInv, LocksHeld, Released, PostingsCovered, Covered, At,
    NoCreditBalance, Balance
<1> QED
  BY <1>2, <1>3

(* No loan is paid or reduced below zero, however recordFullPayment,       *)
(* adjustFine, reverseTransaction and the sweeps interleave.               *)
THEOREM NeverInCredit == Spec => []NoCreditBalance
<1>1. LedgerInv => NoCreditBalance
  BY DEF LedgerInv
<1> QED
  BY <1>1, LedgerInit, LedgerNext, PTL DEF Spec

(* ----------------------------------------------------------- corrections *)

LEMMA AppendedRow ==
  ASSUME TypeOK, TypeOK', NEW row, txs' = Append(txs, row)
  PROVE  /\ Len(txs) \in Nat /\ Len(txs') = Len(txs) + 1
         /\ \A c \in 1 .. Len(txs) : txs'[c] = txs[c]
         /\ txs'[Len(txs) + 1] = row
<1>1. txs \in Seq(Transaction \union {row}) /\ row \in Transaction \union {row}
  BY DEF TypeOK
<1> QED
  BY <1>1

(* What a step that posts leaves of the facts about corrections: the new   *)
(* row refers to nothing, or to a row nothing referred to yet.             *)
LEMMA PostedOnce ==
  ASSUME TypeOK, TypeOK', CorrectionsOrdered, ReversedAtMostOnce, NEW items, NEW sign,
         NEW type, NEW reverses \in Nat, Post(type, items, sign, reverses),
         \/ type # "reversal" /\ reverses = 0
         \/ /\ type = "reversal" /\ reverses \in 1 .. Len(txs)
            /\ txs[reverses].type # "reversal" /\ ~Reversed(reverses)
  PROVE  /\ ReversedAtMostOnce'
         /\ \A c \in 1 .. Len(txs') :
              IF txs'[c].type = "reversal" THEN txs'[c].reverses \in 1 .. Len(txs') ELSE txs'[c].reverses = 0
<1> DEFINE row == [type |-> type, items |-> items, reverses |-> reverses]
           k == Len(txs) + 1
<1>1. /\ Len(txs) \in Nat /\ Len(txs') = k
      /\ \A c \in 1 .. Len(txs) : txs'[c] = txs[c]
      /\ txs'[k] = row
  BY AppendedRow DEF Post
<1>2. txs'[k].type = type /\ txs'[k].reverses = reverses
  BY <1>1
<1>3. \A c \in 1 .. Len(txs') : c \in 1 .. Len(txs) \/ c = k
  BY <1>1
<1>4. \A c \in 1 .. Len(txs) : txs[c].reverses \in 0 .. Len(txs)
  BY <1>1 DEF CorrectionsOrdered
<1> HIDE DEF row, k
<1>5. \A c \in 1 .. Len(txs) : reverses # 0 => txs[c].reverses # reverses
  BY <1>1 DEF Reversed
<1>6. \A c \in 1 .. Len(txs') :
        IF txs'[c].type = "reversal" THEN txs'[c].reverses \in 1 .. Len(txs') ELSE txs'[c].reverses = 0
  <2>1. 1 .. Len(txs) \subseteq 1 .. Len(txs')
    BY <1>1 DEF k
  <2> QED
    BY <1>1, <1>2, <1>3, <2>1 DEF CorrectionsOrdered
<1>7. ASSUME NEW c \in 1 .. Len(txs'), txs'[c].type = "reversal"
      PROVE  /\ txs'[txs'[c].reverses].type # "reversal"
             /\ \A d \in 1 .. Len(txs') : txs'[d].reverses = txs'[c].reverses => d = c
  <2>1. CASE c = k
    <3>1. reverses \in 1 .. Len(txs) /\ txs[reverses].type # "reversal"
      BY <1>2, <1>7, <2>1
    <3>2. reverses # 0
      BY <1>1, <3>1
    <3> QED
      BY <1>1, <1>2, <1>3, <1>5, <2>1, <3>1, <3>2
  <2>2. CASE c \in 1 .. Len(txs)
    <3>1. txs[c].type = "reversal" /\ txs'[c].reverses = txs[c].reverses
      BY <1>1, <1>7, <2>2
    <3>2. txs[c].reverses \in 1 .. Len(txs) /\ txs[c].reverses # 0
      BY <1>1, <2>2, <3>1 DEF CorrectionsOrdered
    <3>3. /\ txs[txs[c].reverses].type # "reversal"
          /\ \A d \in 1 .. Len(txs) : txs[d].reverses = txs[c].reverses => d = c
      BY <2>2, <3>1 DEF ReversedAtMostOnce
    <3>4. txs'[k].reverses # txs[c].reverses
      BY <1>2, <1>5, <2>2, <3>2
    <3> QED
      BY <1>1, <1>3, <3>1, <3>2, <3>3, <3>4
  <2> QED
    BY <1>3, <2>1, <2>2
<1> QED
  BY <1>6, <1>7 DEF ReversedAtMostOnce

CorrectionsInv == LedgerInv /\ CorrectionsOrdered /\ ReversedAtMostOnce

LEMMA CorrectionsNext ==
  ASSUME CorrectionsInv, TypeOK', Next PROVE CorrectionsOrdered' /\ ReversedAtMostOnce'
<1> USE DEF CorrectionsInv, LedgerInv
<1> DEFINE Rows == \A c \in 1 .. Len(txs) :
             IF txs[c].type = "reversal" THEN txs[c].reverses \in 1 .. Len(txs) ELSE txs[c].reverses = 0
           Pending(m) == At(m, "open", "reverse") => txs[req[m].tx].type # "reversal" /\ ~Reversed(req[m].tx)
<1>1. ASSUME txs' = txs, req' = req \/ \E n \in Conn : OthersKeep(n) /\ Pending(n)'
      PROVE  CorrectionsOrdered' /\ ReversedAtMostOnce'
  <2>1. ReversedAtMostOnce' /\ Rows'
    BY <1>1 DEF ReversedAtMostOnce, CorrectionsOrdered
  <2>2. ASSUME NEW m \in Conn, req'[m] = req[m] PROVE Pending(m)'
    BY <1>1, <2>2 DEF CorrectionsOrdered, Reversed, At
  <2>3. \A m \in Conn : Pending(m)'
    BY <1>1, <2>2 DEF OthersKeep
  <2> QED
    BY <2>1, <2>3 DEF CorrectionsOrdered
<1>2. ASSUME NEW n \in Conn, OthersKeep(n), req'[n].stage # "open",
             NEW items, NEW sign, NEW type, NEW reverses \in Nat, Post(type, items, sign, reverses),
             \A m \in Conn \ {n} : At(m, "open", "reverse") => req[m].tx # reverses,
             \/ type # "reversal" /\ reverses = 0
             \/ /\ type = "reversal" /\ reverses \in 1 .. Len(txs)
                /\ txs[reverses].type # "reversal" /\ ~Reversed(reverses)
      PROVE  CorrectionsOrdered' /\ ReversedAtMostOnce'
  <2>1. ReversedAtMostOnce' /\ Rows'
    BY <1>2, PostedOnce
  <2> DEFINE row == [type |-> type, items |-> items, reverses |-> reverses]
             k == Len(txs) + 1
  <2>2. /\ Len(txs) \in Nat /\ Len(txs') = k
        /\ \A c \in 1 .. Len(txs) : txs'[c] = txs[c]
        /\ txs'[k] = row
    BY <1>2, AppendedRow DEF Post
  <2>3. txs'[k].reverses = reverses /\ \A c \in 1 .. Len(txs') : c \in 1 .. Len(txs) \/ c = k
    BY <2>2
  <2> HIDE DEF row, k
  <2>4. ASSUME NEW m \in Conn, At(m, "open", "reverse")'
        PROVE  txs'[req'[m].tx].type # "reversal" /\ ~Reversed(req[m].tx)'
    <3>1. m # n
      BY <1>2, <2>4 DEF At
    <3>2. req'[m] = req[m] /\ At(m, "open", "reverse")
      BY <1>2, <2>4, <3>1 DEF OthersKeep, At
    <3>3. /\ req[m].tx \in 1 .. Len(txs) /\ req[m].tx # reverses
          /\ txs[req[m].tx].type # "reversal" /\ ~Reversed(req[m].tx)
      BY <1>2, <3>1, <3>2 DEF CorrectionsOrdered, CorrectionsRefer
    <3>4. \A c \in 1 .. Len(txs') : txs'[c].reverses # req[m].tx
      BY <2>2, <2>3, <3>3 DEF Reversed
    <3> QED
      BY <2>2, <3>2, <3>3, <3>4 DEF Reversed
  <2> QED
    BY <2>1, <2>4 DEF CorrectionsOrdered
<1>3. ASSUME NEW n \in Conn, PayCommit(n) \/ AdjustCommit(n)
      PROVE  CorrectionsOrdered' /\ ReversedAtMostOnce'
  <2>1. PICK type \in {"payment", "adjustment"} : Post(type, req[n].items, 1, 0)
    BY <1>3 DEF PayCommit, AdjustCommit
  <2>2. \A m \in Conn \ {n} : At(m, "open", "reverse") => req[m].tx # 0
    <3>1. Len(txs) \in Nat
      BY DEF TypeOK
    <3> QED
      BY <3>1 DEF CorrectionsRefer
  <2>3. OthersKeep(n) /\ req'[n].stage # "open"
    BY <1>3, ReleasesAll
  <2>4. type # "reversal"
    OBVIOUS
  <2> QED
    BY <1>2, <2>1, <2>2, <2>3, <2>4
<1>4. ASSUME NEW n \in Conn, ReverseCommit(n)
      PROVE  CorrectionsOrdered' /\ ReversedAtMostOnce'
  <2> DEFINE t == req[n].tx
  <2>1. At(n, "open", "reverse") /\ Post("reversal", txs[t].items, -1, t)
    BY <1>4 DEF ReverseCommit
  <2>2. t \in 1 .. Len(txs) /\ t \in Nat /\ t # 0 /\ txs[t].type # "reversal" /\ ~Reversed(t)
    <3>1. Len(txs) \in Nat
      BY DEF TypeOK
    <3> QED
      BY <2>1, <3>1 DEF CorrectionsOrdered, CorrectionsRefer
  <2>3. \A m \in Conn \ {n} : req[m].tx # t
    BY <2>2 DEF LocksHeld
  <2>4. OthersKeep(n) /\ req'[n].stage # "open"
    BY <1>4, ReleasesAll
  <2> HIDE DEF t
  <2> QED
    BY <1>2, <2>1, <2>2, <2>3, <2>4
<1>5. ASSUME NEW n \in Conn,
             \/ Abort(n) \/ SyncCommit(n) \/ RenewCommit(n) \/ \E kind \in SyncKinds : SyncOpen(n, kind)
             \/ SummaryCommit(n) \/ \E u \in Patron : SummaryOpen(n, u)
      PROVE  CorrectionsOrdered' /\ ReversedAtMostOnce'
  <2>1. txs' = txs
    BY <1>5 DEF Abort, SyncCommit, RenewCommit, SyncOpen, SummaryOpen, SummaryCommit, ledger
  <2>2. OthersKeep(n) /\ req'[n].stage # "open"
    BY <1>5, ReleasesAll
  <2> QED
    BY <1>1, <2>1, <2>2 DEF At
<1>6. ASSUME NEW n \in Conn,
             \/ \E u \in Patron : PayOpen(n, u)
             \/ \E l \in Loan : RenewOpen(n, l) \/ AdjustOpen(n, l)
      PROVE  CorrectionsOrdered' /\ ReversedAtMostOnce'
  <2>1. txs' = txs
    BY <1>6 DEF PayOpen, RenewOpen, AdjustOpen, ledger
  <2>2. OthersKeep(n) /\ req'[n].kind # "reverse"
    BY <1>6, PayOpens, LoanOpens
  <2> QED
    BY <1>1, <2>1, <2>2 DEF At
<1>7. ASSUME NEW n \in Conn, NEW t \in 1 .. Len(txs), ReverseOpen(n, t)
      PROVE  CorrectionsOrdered' /\ ReversedAtMostOnce'
  <2>1. txs' = txs /\ txs[t].type # "reversal" /\ ~Reversed(t)
    BY <1>7 DEF ReverseOpen, ledger
  <2>2. OthersKeep(n) /\ req'[n].tx = t
    BY <1>7, ReverseOpens
  <2>3. Pending(n)'
    BY <2>1, <2>2 DEF Reversed
  <2> QED
    BY <1>1, <2>1, <2>2, <2>3
<1>8. CASE Tick
  BY <1>1, <1>8 DEF Tick, ledger
<1>9. ASSUME NEW n \in Conn, NEW l \in Loan,
             Borrow(n, l) \/ Return(n, l) \/ ArchiveLoan(n, l) \/ RestoreLoan(n, l)
      PROVE  CorrectionsOrdered' /\ ReversedAtMostOnce'
  BY <1>1, <1>9 DEF Borrow, Return, ArchiveLoan, RestoreLoan, ledger
<1>10. ASSUME NEW n \in Conn,
              \/ \E u \in Patron : ArchivePatron(n, u) \/ RestorePatron(n, u)
              \/ \E r \in Rate : UpdateSettings(n, r)
       PROVE  CorrectionsOrdered' /\ ReversedAtMostOnce'
  BY <1>1, <1>10 DEF ArchivePatron, RestorePatron, UpdateSettings, ledger
<1> QED
  BY <1>3, <1>4, <1>5, <1>6, <1>7, <1>8, <1>9, <1>10 DEF Next

LEMMA CorrectionsKept ==
  ASSUME CorrectionsInv, [Next]_vars PROVE CorrectionsInv'
<1>1. LedgerInv'
  BY LedgerNext DEF CorrectionsInv
<1>2. CASE Next
  BY <1>1, <1>2, CorrectionsNext DEF CorrectionsInv, LedgerInv
<1>3. CASE UNCHANGED vars
  BY <1>1, <1>3 DEF vars, ledger, CorrectionsInv, CorrectionsOrdered, ReversedAtMostOnce, Reversed, At
<1> QED
  BY <1>2, <1>3

(* A payment or adjustment is corrected at most once, and a correction is  *)
(* never corrected: the row lock reverseTransaction takes stands in for    *)
(* the unique key that reverses_transaction_id does not have.              *)
THEOREM CorrectedOnce == Spec => []ReversedAtMostOnce
<1>1. Init => CorrectionsInv
  <2> SUFFICES ASSUME Init PROVE CorrectionsInv
    OBVIOUS
  <2>1. Len(txs) = 0 /\ \A n \in Conn : ~At(n, "open", "reverse")
    BY DEF Init, Idle, At
  <2> QED
    BY <2>1, LedgerInit DEF CorrectionsInv, CorrectionsOrdered, ReversedAtMostOnce
<1>2. CorrectionsInv /\ [Next]_vars => CorrectionsInv'
  BY CorrectionsKept
<1>3. CorrectionsInv => ReversedAtMostOnce
  BY DEF CorrectionsInv
<1> QED
  BY <1>1, <1>2, <1>3, PTL DEF Spec

(* --------------------------------------------------------- settled amounts *)

(* What a transaction that is not corrected took off a loan.               *)
Taken(i, l) == IF txs[i].type # "reversal" /\ ~Reversed(i) THEN txs[i].items[l] ELSE 0

Rising(f) == \A i, j \in Nat : i <= j => f[i] <= f[j]

(* The total of what the first i transactions took off l, for every i, ends *)
(* at what the ledger credits.                                             *)
Totals(f, l) ==
  /\ f[0] = 0 /\ Rising(f)
  /\ \A i \in 1 .. Len(txs) : f[i] = f[i - 1] + Taken(i, l)
  /\ \A i \in Nat : i >= Len(txs) => f[i] = credit[l]

CreditsAddUp == \A l \in Loan : \E f \in [Nat -> Nat] : Totals(f, l)

SettledInv == CorrectionsInv /\ CreditsAddUp /\ SettledMatchesLedger

(* Totals that change by x from k on are still totals.                     *)
LEMMA ShiftedTotals ==
  ASSUME NEW f \in [Nat -> Nat], Rising(f), NEW k \in Nat \ {0}, NEW x \in Int, f[k] + x >= f[k - 1]
  PROVE  LET g == [i \in Nat |-> IF i < k THEN f[i] ELSE f[i] + x]
         IN  g \in [Nat -> Nat] /\ Rising(g) /\ g[0] = f[0]
<1> DEFINE g == [i \in Nat |-> IF i < k THEN f[i] ELSE f[i] + x]
<1>1. \A i \in Nat : i < k => g[i] = f[i] /\ f[i] \in Nat /\ f[i] <= f[k - 1]
  BY DEF Rising
<1>2. \A i \in Nat : i >= k => g[i] = f[i] + x /\ f[i] \in Nat /\ f[i] + x >= f[k - 1] /\ f[k - 1] \in Nat
  BY DEF Rising
<1> HIDE DEF g
<1>3. \A i \in Nat : g[i] \in Nat
  BY <1>1, <1>2
<1>4. ASSUME NEW i \in Nat, NEW j \in Nat, i <= j
      PROVE  g[i] <= g[j]
  <2>1. f[i] <= f[j] /\ f[i] \in Nat /\ f[j] \in Nat /\ f[k - 1] \in Nat
    BY <1>4 DEF Rising
  <2>2. CASE j < k
    BY <1>1, <1>4, <2>1, <2>2
  <2>3. CASE i >= k
    BY <1>2, <1>4, <2>1, <2>3
  <2>4. CASE i < k /\ j >= k
    BY <1>1, <1>2, <2>1, <2>4
  <2> QED
    BY <1>4, <2>2, <2>3, <2>4
<1>5. g \in [Nat -> Nat]
  BY <1>3 DEF g
<1>6. g[0] = f[0]
  BY <1>1
<1> QED
  BY <1>4, <1>5, <1>6 DEF Rising, g

LEMMA TakenType ==
  ASSUME TypeOK, NEW l \in Loan, NEW i \in 1 .. Len(txs)
  PROVE  txs[i].items[l] \in Nat /\ Taken(i, l) \in Nat
<1>1. txs[i] \in Transaction
  BY DEF TypeOK
<1>2. txs[i].items \in [Loan -> Nat]
  BY <1>1 DEF Transaction
<1> QED
  BY <1>2 DEF Taken

(* Whatever is not corrected yet is part of the credit.                    *)
LEMMA TakenIsCredited ==
  ASSUME TypeOK, CreditsAddUp, NEW l \in Loan
  PROVE  /\ credit[l] \in Nat
         /\ \A i \in 1 .. Len(txs) : Taken(i, l) <= credit[l] /\ Taken(i, l) \in Nat
<1>1. PICK f \in [Nat -> Nat] : Totals(f, l)
  BY DEF CreditsAddUp
<1>2. Len(txs) \in Nat
  BY DEF TypeOK
<1>3. f[Len(txs)] = credit[l] /\ f[Len(txs)] \in Nat
  BY <1>1, <1>2 DEF Totals
<1>4. ASSUME NEW i \in 1 .. Len(txs)
      PROVE  Taken(i, l) <= credit[l] /\ Taken(i, l) \in Nat
  <2>1. i \in Nat /\ i - 1 \in Nat /\ i <= Len(txs)
    BY <1>2
  <2>2. f[i] = f[i - 1] + Taken(i, l) /\ f[i] \in Nat /\ f[i - 1] \in Nat
    BY <1>1, <2>1 DEF Totals
  <2>3. f[i] <= f[Len(txs)]
    BY <1>1, <1>2, <2>1 DEF Totals, Rising
  <2>4. PICK x \in Nat, a \in Nat, b \in Nat, c \in Nat :
           x = Taken(i, l) /\ a = f[i] /\ b = f[i - 1] /\ c = f[Len(txs)]
    BY <1>3, <2>2, TakenType
  <2>5. a = b + x /\ a <= c
    BY <2>2, <2>3, <2>4
  <2>6. x <= c
    BY <2>5
  <2> QED
    BY <1>3, <2>4, <2>6
<1> QED
  BY <1>3, <1>4

LEMMA LengthType == TypeOK => Len(txs) \in Nat
BY DEF TypeOK

LEMMA TakenBack ==
  ASSUME NEW c \in Int, NEW x \in Int
  PROVE  c + (-1) * x = c - x /\ c - x \in Int
OBVIOUS

LEMMA CorrectionsWithin ==
  ASSUME TypeOK, CorrectionsOrdered
  PROVE  \A c \in 1 .. Len(txs) : txs[c].reverses \in 0 .. Len(txs)
<1>1. Len(txs) \in Nat
  BY LengthType
<1> QED
  BY <1>1 DEF CorrectionsOrdered

(* A row is appended to n rows.                                            *)
LEMMA RowAppended ==
  ASSUME TypeOK, TypeOK', NEW row, txs' = Append(txs, row), NEW n \in Nat, n = Len(txs)
  PROVE  /\ Len(txs') = n + 1 /\ txs'[n + 1] = row
         /\ \A c \in 1 .. n : c \in Nat /\ txs'[c] = txs[c]
BY AppendedRow

LEMMA OneMore ==
  ASSUME NEW n \in Nat
  PROVE  /\ \A c \in 1 .. n + 1 : c \in 1 .. n \/ c = n + 1
         /\ 1 .. n \subseteq 1 .. n + 1 /\ n + 1 \in 1 .. n + 1 /\ n + 1 \notin 0 .. n /\ 0 \notin 1 .. n + 1
OBVIOUS

(* A payment or an adjustment adds to the credit.                          *)
LEMMA PaidTotals ==
  ASSUME SettledInv, TypeOK', NEW type \in {"payment", "adjustment"}, NEW items \in [Loan -> Nat],
         Post(type, items, 1, 0), NEW l \in Loan
  PROVE  \E f \in [Nat -> Nat] : Totals(f, l)'
<1> DEFINE row == [type |-> type, items |-> items, reverses |-> 0]
<1>1. TypeOK /\ CorrectionsOrdered /\ txs' = Append(txs, row)
  BY DEF Post, SettledInv, CorrectionsInv, LedgerInv
<1>2. row.type # "reversal" /\ row.reverses = 0 /\ row.items = items
  OBVIOUS
<1> HIDE DEF row
<1>3. PICK n \in Nat, x \in Nat : n = Len(txs) /\ x = items[l]
  BY <1>1 DEF TypeOK
<1>4. PICK k \in Nat \ {0} : k = n + 1
  BY <1>3
<1>5. /\ Len(txs') = k /\ txs'[k] = row
      /\ \A c \in 1 .. n : c \in Nat /\ txs'[c] = txs[c]
  BY <1>1, <1>3, <1>4, RowAppended
<1>6. /\ \A c \in 1 .. k : c \in 1 .. n \/ c = k
      /\ 1 .. n \subseteq 1 .. k /\ k \in 1 .. k /\ k \notin 0 .. n /\ 0 \notin 1 .. k
  BY <1>4, OneMore
<1>7. \A i \in 1 .. k : Reversed(i)' <=> (i # k /\ Reversed(i))
  <2>1. \A c \in 1 .. n : txs[c].reverses \in 0 .. n
    BY <1>1, <1>3, CorrectionsWithin
  <2>2. \A i \in 1 .. k : Reversed(i)' <=> \E c \in 1 .. n : txs[c].reverses = i
    BY <1>2, <1>5, <1>6 DEF Reversed
  <2>3. \A i : Reversed(i) <=> \E c \in 1 .. n : txs[c].reverses = i
    BY <1>3 DEF Reversed
  <2> QED
    BY <1>6, <2>1, <2>2, <2>3
<1>8. Taken(k, l)' = x /\ \A i \in 1 .. n : Taken(i, l)' = Taken(i, l)
  <2>1. Taken(k, l)' = x
    BY <1>2, <1>3, <1>5, <1>6, <1>7 DEF Taken
  <2>2. ASSUME NEW i \in 1 .. n
        PROVE  Taken(i, l)' = Taken(i, l)
    <3>1. i # k /\ i \in 1 .. k
      BY <1>4
    <3> QED
      BY <1>5, <1>7, <3>1 DEF Taken
  <2> QED
    BY <2>1, <2>2
<1>9. PICK f \in [Nat -> Nat] :
         /\ f[0] = 0 /\ Rising(f)
         /\ \A i \in 1 .. n : f[i] = f[i - 1] + Taken(i, l)
         /\ \A i \in Nat : i >= n => f[i] = credit[l]
  BY <1>3 DEF SettledInv, CreditsAddUp, Totals
<1>10. PICK c \in Nat : c = credit[l] /\ credit'[l] = c + x
  <2>1. PICK c \in Nat : c = f[n] /\ c = credit[l]
    BY <1>9
  <2>2. credit'[l] = c + 1 * x
    BY <1>3, <2>1 DEF Post
  <2> QED
    BY <2>1, <2>2
<1>11. \A i \in Nat : i >= n => f[i] = c
  BY <1>9, <1>10
<1> DEFINE g == [i \in Nat |-> IF i < k THEN f[i] ELSE f[i] + x]
<1>12. g \in [Nat -> Nat] /\ Rising(g) /\ g[0] = 0
  <2>1. f[k] = c /\ f[k - 1] = c
    BY <1>4, <1>11
  <2>2. x \in Int /\ f[k] + x >= f[k - 1]
    BY <2>1
  <2> QED
    BY <1>9, <2>2, ShiftedTotals
<1>13. \A i \in Nat : g[i] = IF i < k THEN f[i] ELSE f[i] + x
  OBVIOUS
<1> HIDE DEF g
<1>14. \A i \in Nat : i >= k => g[i] = credit'[l]
  BY <1>4, <1>10, <1>11, <1>13
<1>15. ASSUME NEW i \in 1 .. k
       PROVE  g[i] = g[i - 1] + Taken(i, l)'
  <2>1. CASE i = k
    <3>1. g[k] = c + x /\ g[k - 1] = c
      BY <1>4, <1>11, <1>13
    <3> QED
      BY <1>8, <2>1, <3>1
  <2>2. CASE i \in 1 .. n
    <3>1. g[i] = f[i] /\ g[i - 1] = f[i - 1]
      BY <1>4, <1>13, <2>2
    <3> QED
      BY <1>8, <1>9, <2>2, <3>1
  <2> QED
    BY <1>6, <2>1, <2>2
<1>16. Totals(g, l)'
  BY <1>5, <1>12, <1>14, <1>15 DEF Totals
<1> QED
  BY <1>12, <1>16

(* Totals without one of the amounts that they add up.                     *)
AddsUp(f, n, taken, c) ==
  /\ f[0] = 0 /\ Rising(f)
  /\ \A i \in 1 .. n : f[i] = f[i - 1] + taken[i]
  /\ \A i \in Nat : i >= n => f[i] = c

LEMMA TotalsWithout ==
  ASSUME NEW n \in Nat, NEW taken \in [1 .. n -> Nat], NEW f \in [Nat -> Nat], NEW c \in Nat,
         AddsUp(f, n, taken, c), NEW t \in 1 .. n
  PROVE  \E g \in [Nat -> Nat] :
           AddsUp(g, n, [i \in 1 .. n |-> IF i = t THEN 0 ELSE taken[i]], c - taken[t])
<1>1. PICK x \in Nat : x = taken[t]
  OBVIOUS
<1>2. /\ f[t] = f[t - 1] + x /\ f[t] \in Nat /\ f[t - 1] \in Nat /\ t \in Nat \ {0}
      /\ t - 1 \in Nat /\ f[0] = 0 /\ Rising(f)
  BY <1>1 DEF AddsUp
<1>3. PICK y \in Int : y = -x
  BY <1>1
<1> DEFINE g == [i \in Nat |-> IF i < t THEN f[i] ELSE f[i] + y]
<1>4. g \in [Nat -> Nat] /\ Rising(g) /\ g[0] = 0
  <2>1. f[t] + y >= f[t - 1]
    BY <1>2, <1>3
  <2> QED
    BY <1>2, <2>1, ShiftedTotals
<1>5. \A i \in Nat : (i < t => g[i] = f[i]) /\ (i >= t => g[i] = f[i] - x)
  BY <1>3
<1> HIDE DEF g
<1>6. \A i \in Nat : i >= n => g[i] = c - x
  <2>1. \A i \in Nat : i >= n => f[i] = c
    BY DEF AddsUp
  <2> QED
    BY <1>5, <2>1
<1> DEFINE rest == [i \in 1 .. n |-> IF i = t THEN 0 ELSE taken[i]]
<1>7. ASSUME NEW i \in 1 .. n
      PROVE  g[i] = g[i - 1] + rest[i]
  <2>1. /\ f[i] = f[i - 1] + taken[i] /\ taken[i] \in Nat /\ f[i - 1] \in Nat /\ f[i] \in Nat
        /\ i \in Nat /\ i - 1 \in Nat
    BY DEF AddsUp
  <2>2. CASE i = t
    <3>1. g[t] = f[t] - x /\ g[t - 1] = f[t - 1]
      <4>1. t \in Nat /\ t - 1 \in Nat /\ t >= t /\ t - 1 < t
        OBVIOUS
      <4> QED
        BY <1>5, <4>1
    <3>2. rest[i] = 0
      BY <2>2
    <3> QED
      BY <1>2, <2>2, <3>1, <3>2
  <2>3. CASE i < t
    <3>1. g[i] = f[i] /\ g[i - 1] = f[i - 1]
      <4>1. i - 1 < t
        BY <2>1, <2>3
      <4> QED
        BY <1>5, <2>1, <2>3, <4>1
    <3>2. rest[i] = taken[i]
      BY <2>1, <2>3
    <3> HIDE DEF rest
    <3> QED
      BY <2>1, <3>1, <3>2
  <2>4. CASE i > t
    <3>1. g[i] = f[i] - x /\ g[i - 1] = f[i - 1] - x
      <4>1. i - 1 >= t /\ i >= t
        BY <2>1, <2>4
      <4> QED
        BY <1>5, <2>1, <4>1
    <3>2. rest[i] = taken[i]
      BY <2>1, <2>4
    <3>3. PICK p \in Nat, q \in Nat, r \in Nat : p = f[i] /\ q = f[i - 1] /\ r = taken[i]
      BY <2>1
    <3>4. p - x = (q - x) + r
      BY <2>1, <3>3
    <3> HIDE DEF rest
    <3> QED
      BY <3>1, <3>2, <3>3, <3>4
  <2> QED
    BY <2>2, <2>3, <2>4
<1> HIDE DEF rest
<1>8. AddsUp(g, n, rest, c - taken[t])
  BY <1>1, <1>4, <1>6, <1>7 DEF AddsUp
<1> QED
  BY <1>4, <1>8 DEF rest

(* A correction takes what it corrects out of the credit.                  *)
LEMMA CorrectedTotals ==
  ASSUME SettledInv, TypeOK', NEW t \in 1 .. Len(txs), txs[t].type # "reversal", ~Reversed(t),
         Post("reversal", txs[t].items, -1, t), NEW l \in Loan
  PROVE  \E f \in [Nat -> Nat] : Totals(f, l)'
<1> DEFINE row == [type |-> "reversal", items |-> txs[t].items, reverses |-> t]
<1>1. TypeOK /\ CorrectionsOrdered /\ txs' = Append(txs, row)
  BY DEF Post, SettledInv, CorrectionsInv, LedgerInv
<1>2. row.type = "reversal" /\ row.reverses = t
  OBVIOUS
<1> HIDE DEF row
<1>3. PICK n \in Nat : n = Len(txs) /\ t \in 1 .. n
  <2>1. Len(txs) \in Nat
    BY <1>1, LengthType
  <2> QED
    BY <2>1
<1>4. PICK k \in Nat \ {0} : k = n + 1
  BY <1>3
<1>5. /\ Len(txs') = k /\ txs'[k] = row
      /\ \A c \in 1 .. n : c \in Nat /\ txs'[c] = txs[c]
  BY <1>1, <1>3, <1>4, RowAppended
<1>6. /\ \A c \in 1 .. k : c \in 1 .. n \/ c = k
      /\ 1 .. n \subseteq 1 .. k /\ k \in 1 .. k
  BY <1>4, OneMore
<1>7. \A i : Reversed(i)' <=> (i = t \/ Reversed(i))
  <2>1. \A i : Reversed(i)' <=> (i = t \/ \E c \in 1 .. n : txs[c].reverses = i)
    BY <1>2, <1>5, <1>6 DEF Reversed
  <2>2. \A i : Reversed(i) <=> \E c \in 1 .. n : txs[c].reverses = i
    BY <1>3 DEF Reversed
  <2> QED
    BY <2>1, <2>2
<1> DEFINE amounts == [i \in 1 .. n |-> Taken(i, l)]
<1>8. PICK taken \in [1 .. n -> Nat] : taken = amounts
  BY <1>1, <1>3, TakenType
<1>9. /\ \A i \in 1 .. n : taken[i] = Taken(i, l)
      /\ taken[t] = txs[t].items[l] /\ taken[t] \in Nat
  <2>1. \A i \in 1 .. n : taken[i] = Taken(i, l)
    BY <1>8
  <2>2. Taken(t, l) = txs[t].items[l]
    BY DEF Taken
  <2> QED
    BY <1>3, <1>8, <2>1, <2>2
<1> HIDE DEF amounts
<1>10. /\ Taken(k, l)' = 0 /\ Taken(t, l)' = 0
       /\ \A i \in 1 .. n : i # t => Taken(i, l)' = taken[i]
  <2>1. Taken(k, l)' = 0 /\ Taken(t, l)' = 0
    BY <1>2, <1>5, <1>7 DEF Taken
  <2>2. ASSUME NEW i \in 1 .. n, i # t
        PROVE  Taken(i, l)' = taken[i]
    BY <1>5, <1>7, <1>9, <2>2 DEF Taken
  <2> QED
    BY <2>1, <2>2
<1>11. PICK f \in [Nat -> Nat], c \in Nat : c = credit[l] /\ AddsUp(f, n, taken, c)
  <2>1. PICK f \in [Nat -> Nat] : Totals(f, l)
    BY DEF SettledInv, CreditsAddUp
  <2>2. PICK c \in Nat : c = f[n] /\ c = credit[l]
    <3>1. f[n] \in Nat /\ f[n] = credit[l]
      BY <1>3, <2>1 DEF Totals
    <3> QED
      BY <3>1
  <2>3. AddsUp(f, n, taken, c)
    BY <1>3, <1>9, <2>1, <2>2 DEF Totals, AddsUp
  <2> QED
    BY <2>2, <2>3
<1>12. PICK x \in Nat : x = taken[t]
  BY <1>9
<1>13. PICK d \in Int : d = credit'[l] /\ d = c - x
  <2>1. credit'[l] = c + (-1) * x
    BY <1>9, <1>11, <1>12 DEF Post
  <2>2. c + (-1) * x = c - x /\ c - x \in Int
    BY TakenBack
  <2> QED
    BY <2>1, <2>2
<1> DEFINE rest == [i \in 1 .. n |-> IF i = t THEN 0 ELSE taken[i]]
<1>14. PICK g \in [Nat -> Nat] : AddsUp(g, n, rest, d)
  <2>1. d = c - taken[t]
    BY <1>12, <1>13
  <2> QED
    BY <1>3, <1>11, <2>1, TotalsWithout
<1>15. \A i \in 1 .. n : rest[i] = Taken(i, l)'
  BY <1>10
<1> HIDE DEF rest
<1>16. ASSUME NEW i \in 1 .. k
       PROVE  g[i] = g[i - 1] + Taken(i, l)'
  <2>1. CASE i = k
    <3>1. g[k] = d /\ g[k - 1] = d
      BY <1>4, <1>14 DEF AddsUp
    <3> QED
      BY <1>10, <2>1, <3>1
  <2>2. CASE i \in 1 .. n
    BY <1>14, <1>15, <2>2 DEF AddsUp
  <2> QED
    BY <1>6, <2>1, <2>2
<1>17. \A i \in Nat : i >= k => g[i] = credit'[l]
  BY <1>4, <1>13, <1>14 DEF AddsUp
<1>18. Totals(g, l)'
  BY <1>5, <1>14, <1>16, <1>17 DEF Totals, AddsUp
<1> QED
  BY <1>18

LEMMA PostSettles ==
  ASSUME SettledInv, NEW type, NEW items \in [Loan -> Nat], NEW sign \in {1, -1}, NEW reverses,
         Post(type, items, sign, reverses), \A l \in Loan : sign = -1 => items[l] <= credit[l]
  PROVE  SettledMatchesLedger'
<1> SUFFICES ASSUME NEW l \in Loan
             PROVE  loans'[l].settled = credit'[l]
  BY DEF SettledMatchesLedger
<1>1. PICK x \in Nat : x = items[l]
  OBVIOUS
<1>2. PICK c \in Nat : c = credit[l] /\ c = loans[l].settled
  BY TakenIsCredited DEF SettledInv, CorrectionsInv, LedgerInv, SettledMatchesLedger
<1>3. sign = -1 => x <= c
  BY <1>1, <1>2
<1>4. c + sign * x = (IF sign = 1 THEN c + x ELSE c - x) /\ MaxOf(0, c + sign * x) = c + sign * x
  <2>1. CASE sign = 1
    BY <2>1 DEF MaxOf
  <2>2. CASE sign = -1
    BY <1>3, <2>2 DEF MaxOf
  <2> QED
    BY <2>1, <2>2
<1>5. credit'[l] = c + sign * x
  BY <1>1, <1>2 DEF Post
<1>6. loans'[l] = [loans[l] EXCEPT !.settled = MaxOf(0, c + sign * x)] /\ loans[l] \in Row
  BY <1>1, <1>2 DEF Post, SettledInv, CorrectionsInv, LedgerInv, TypeOK
<1>7. loans'[l].settled = MaxOf(0, c + sign * x)
  BY <1>6 DEF Row
<1> QED
  BY <1>4, <1>5, <1>7

(* Steps that post nothing leave the settled amounts alone.                *)
SettledKept == credit' = credit /\ txs' = txs /\ \A l \in Loan : loans'[l].settled = loans[l].settled

LEMMA KeptSettled ==
  ASSUME SettledInv, SettledKept
  PROVE  CreditsAddUp' /\ SettledMatchesLedger'
<1>1. SettledMatchesLedger'
  BY DEF SettledInv, SettledKept, SettledMatchesLedger
<1>2. ASSUME NEW l \in Loan
      PROVE  \E f \in [Nat -> Nat] : Totals(f, l)'
  <2>1. PICK f \in [Nat -> Nat] : Totals(f, l)
    BY DEF SettledInv, CreditsAddUp
  <2>2. Totals(f, l)'
    BY <2>1 DEF SettledKept, Totals, Taken, Reversed
  <2> QED
    BY <2>2
<1> QED
  BY <1>1, <1>2 DEF CreditsAddUp

LEMMA SettledNext ==
  ASSUME SettledInv, TypeOK', [Next]_vars
  PROVE  CreditsAddUp' /\ SettledMatchesLedger'
<1>0. TypeOK /\ CorrectionsRefer /\ CorrectionsOrdered /\ loans \in [Loan -> Row] /\ req \in [Conn -> Request]
  BY DEF SettledInv, CorrectionsInv, LedgerInv, TypeOK
<1>1. CASE UNCHANGED vars
  BY <1>1, KeptSettled DEF vars, ledger, SettledKept
<1>2. ASSUME UNCHANGED <<credit, txs, loans>>
      PROVE  CreditsAddUp' /\ SettledMatchesLedger'
  BY <1>2, KeptSettled DEF SettledKept
<1>3. ASSUME NEW n \in Conn, SyncCommit(n)
      PROVE  CreditsAddUp' /\ SettledMatchesLedger'
  <2>1. PICK at : loans' = [l \in Loan |->
            IF /\ l \in req[n].ids /\ ~req[n].rows[l].marked
               /\ Elapsed(req[n].rows[l].due, req[n].rows[l].returned, at[l]) > 0
            THEN [loans[l] EXCEPT !.status = "overdue"] ELSE loans[l]]
    BY <1>3 DEF SyncCommit
  <2>2. ASSUME NEW l \in Loan
        PROVE  loans'[l].settled = loans[l].settled
    <3>1. loans'[l] \in {loans[l], [loans[l] EXCEPT !.status = "overdue"]} /\ loans[l] \in Row
      BY <1>0, <2>1
    <3> QED
      BY <3>1 DEF Row
  <2> QED
    BY <1>3, <2>2, KeptSettled DEF SyncCommit, SettledKept
<1>4. ASSUME NEW n \in Conn, NEW l \in Loan,
             Borrow(n, l) \/ Return(n, l) \/ ArchiveLoan(n, l) \/ RestoreLoan(n, l)
      PROVE  CreditsAddUp' /\ SettledMatchesLedger'
  <2>1. \A k \in Loan : loans[k] \in Row
    BY <1>0
  <2>2. \A k \in Loan : loans'[k].settled = loans[k].settled
    BY <1>0, <1>4, <2>1 DEF Borrow, Return, ArchiveLoan, RestoreLoan, Row
  <2> QED
    BY <1>4, <2>2, KeptSettled DEF Borrow, Return, ArchiveLoan, RestoreLoan, SettledKept, ledger
<1>5. ASSUME NEW n \in Conn, RenewCommit(n)
      PROVE  CreditsAddUp' /\ SettledMatchesLedger'
  <2>1. \A k \in Loan : loans[k] \in Row
    BY <1>0
  <2>2. \A k \in Loan : loans'[k].settled = loans[k].settled
    BY <1>0, <1>5, <2>1 DEF RenewCommit, Row
  <2> QED
    BY <1>5, <2>2, KeptSettled DEF RenewCommit, SettledKept
<1>6. ASSUME NEW n \in Conn, PayCommit(n) \/ AdjustCommit(n)
      PROVE  CreditsAddUp' /\ SettledMatchesLedger'
  <2>1. PICK items \in [Loan -> Nat] : items = req[n].items
    BY <1>0 DEF Request
  <2>2. PICK type \in {"payment", "adjustment"} : Post(type, items, 1, 0)
    BY <1>6, <2>1 DEF PayCommit, AdjustCommit
  <2>3. SettledMatchesLedger'
    BY <2>2, PostSettles
  <2> QED
    BY <2>2, <2>3, PaidTotals DEF CreditsAddUp
<1>7. ASSUME NEW n \in Conn, ReverseCommit(n)
      PROVE  CreditsAddUp' /\ SettledMatchesLedger'
  <2>1. PICK t \in 1 .. Len(txs) : t = req[n].tx /\ txs[t].type # "reversal" /\ ~Reversed(t)
    BY <1>0, <1>7 DEF ReverseCommit, CorrectionsRefer, CorrectionsOrdered
  <2>2. Post("reversal", txs[t].items, -1, t)
    BY <1>7, <2>1 DEF ReverseCommit
  <2>3. txs[t].items \in [Loan -> Nat]
    <3>1. txs[t] \in Transaction
      BY <1>0 DEF TypeOK
    <3> QED
      BY <3>1 DEF Transaction
  <2>4. \A l \in Loan : txs[t].items[l] <= credit[l]
    <3>1. \A l \in Loan : Taken(t, l) = txs[t].items[l]
      BY <2>1 DEF Taken
    <3> QED
      BY <1>0, <3>1, TakenIsCredited DEF SettledInv
  <2>5. SettledMatchesLedger'
    BY <2>2, <2>3, <2>4, PostSettles
  <2> QED
    BY <2>1, <2>2, <2>5, CorrectedTotals DEF CreditsAddUp
<1>8. ASSUME NEW n \in Conn,
             \/ Abort(n) \/ \E kind \in SyncKinds : SyncOpen(n, kind)
             \/ \E l \in Loan : RenewOpen(n, l) \/ AdjustOpen(n, l)
             \/ \E u \in Patron : PayOpen(n, u) \/ ArchivePatron(n, u) \/ RestorePatron(n, u) \/ SummaryOpen(n, u)
             \/ \E t \in 1 .. Len(txs) : ReverseOpen(n, t)
             \/ \E r \in Rate : UpdateSettings(n, r)
             \/ SummaryCommit(n)
      PROVE  CreditsAddUp' /\ SettledMatchesLedger'
  <2>1. UNCHANGED <<credit, txs, loans>>
    BY <1>8 DEF Abort, SyncOpen, RenewOpen, AdjustOpen, PayOpen, ArchivePatron, RestorePatron,
      SummaryOpen, SummaryCommit, ReverseOpen, UpdateSettings, ledger
  <2> QED
    BY <1>2, <2>1
<1>9. CASE Tick
  BY <1>2, <1>9 DEF Tick, ledger
<1> QED
  BY <1>1, <1>3, <1>4, <1>5, <1>6, <1>7, <1>8, <1>9 DEF Next

(* GREATEST(0, ...) in createTransaction never hides a difference: what    *)
(* borrowings carries as settled_amount is what the ledger credits,        *)
(* because only what was taken off is ever put back, and only once.        *)
THEOREM SettledAgrees == Spec => []SettledMatchesLedger
<1>1. Init => SettledInv
  <2> SUFFICES ASSUME Init PROVE SettledInv
    OBVIOUS
  <2>1. LedgerInv /\ Len(txs) = 0 /\ \A n \in Conn : ~At(n, "open", "reverse")
    BY LedgerInit DEF Init, Idle, At
  <2>2. CorrectionsInv
    BY <2>1 DEF CorrectionsInv, CorrectionsOrdered, ReversedAtMostOnce
  <2>3. \A l \in Loan : credit[l] = 0 /\ loans[l].settled = 0
    BY DEF Init, Nothing, NoneLent
  <2>4. \A l \in Loan : Totals([i \in Nat |-> 0], l)
    BY <2>1, <2>3 DEF Totals, Rising
  <2> QED
    BY <2>2, <2>3, <2>4 DEF SettledInv, CreditsAddUp, SettledMatchesLedger
<1>2. SettledInv /\ [Next]_vars => SettledInv'
  <2> SUFFICES ASSUME SettledInv, [Next]_vars PROVE SettledInv'
    OBVIOUS
  <2>1. CorrectionsInv'
    BY CorrectionsKept DEF SettledInv
  <2> QED
    BY <2>1, SettledNext DEF SettledInv, CorrectionsInv, LedgerInv
<1>3. SettledInv => SettledMatchesLedger
  BY DEF SettledInv
<1> QED
  BY <1>1, <1>2, <1>3, PTL DEF Spec

(* ------------------------------------------------- what the terms add up to *)

LEMMA Quotient ==
  ASSUME NEW k \in Nat \ {0}, NEW q \in Int, NEW s \in 0 .. k - 1
  PROVE  (k * q + s) \div k = q
<1> DEFINE e == k * q + s
           d == e \div k
           m == e % k
<1>1. e \in Int /\ d \in Int /\ m \in 0 .. k - 1 /\ e = k * d + m
  OBVIOUS
<1> HIDE DEF d, m
<1>2. k * (d - q) = s - m
  <2>1. k * (d - q) = k * d - k * q
    BY <1>1
  <2> QED
    BY <1>1, <2>1
<1>3. s - m < k /\ s - m > 0 - k
  BY <1>1
<1>4. d - q < 1
  <2> SUFFICES ASSUME d - q >= 1 PROVE FALSE
    BY <1>1
  <2>1. k * (d - q) >= k
    BY <1>1
  <2> QED
    BY <1>1, <1>2, <1>3, <2>1
<1>5. d - q > -1
  <2> SUFFICES ASSUME d - q <= -1 PROVE FALSE
    BY <1>1
  <2>1. k * (d - q) <= 0 - k
    BY <1>1
  <2> QED
    BY <1>1, <1>2, <1>3, <2>1
<1>6. d = q
  BY <1>1, <1>4, <1>5
<1> QED
  BY <1>6 DEF d

(* The interval that a tick starts is the one more that it costs.          *)
LEMMA NextInterval ==
  ASSUME NEW k \in Nat \ {0}, NEW e \in Nat
  PROVE  /\ Intervals(e, k) \in Nat
         /\ Intervals(e + 1, k) = Intervals(e, k) + (IF e % k = 0 THEN 1 ELSE 0)
<1> DEFINE q == e \div k
           s == e % k
<1>1. q \in Nat /\ s \in 0 .. k - 1 /\ e = k * q + s
  OBVIOUS
<1> HIDE DEF q, s
<1>2. k * (q + 1) = k * q + k
  BY <1>1
<1>3. Intervals(e + 1, k) = q + 1
  <2>1. e + 1 + k - 1 = k * (q + 1) + s
    BY <1>1, <1>2
  <2>2. (k * (q + 1) + s) \div k = q + 1
    BY <1>1, Quotient
  <2> QED
    BY <2>1, <2>2 DEF Intervals
<1>4. CASE s = 0
  <2>1. e + k - 1 = k * q + (k - 1) /\ k - 1 \in 0 .. k - 1
    BY <1>1, <1>4
  <2>2. (k * q + (k - 1)) \div k = q
    BY <1>1, <2>1, Quotient
  <2>3. Intervals(e, k) = q
    BY <2>1, <2>2 DEF Intervals
  <2> QED
    BY <1>1, <1>3, <1>4, <2>3 DEF s
<1>5. CASE s # 0
  <2>1. e + k - 1 = k * (q + 1) + (s - 1) /\ s - 1 \in 0 .. k - 1
    BY <1>1, <1>2, <1>5
  <2>2. (k * (q + 1) + (s - 1)) \div k = q + 1
    BY <1>1, <2>1, Quotient
  <2>3. Intervals(e, k) = q + 1
    BY <2>1, <2>2 DEF Intervals
  <2> QED
    BY <1>1, <1>3, <1>5, <2>3 DEF s
<1> QED
  BY <1>4, <1>5

LEMMA MoreIntervals ==
  ASSUME NEW k \in Nat \ {0}, NEW e \in Nat, NEW f \in Nat, e <= f
  PROVE  Intervals(e, k) <= Intervals(f, k)
<1> DEFINE x == e + k - 1
           y == f + k - 1
           p == x \div k
           q == y \div k
           s == x % k
           t == y % k
<1>1. x \in Nat /\ y \in Nat /\ x <= y
  OBVIOUS
<1> HIDE DEF x, y
<1>2. p \in Int /\ s \in 0 .. k - 1 /\ x = k * p + s
  BY <1>1
<1>3. q \in Int /\ t \in 0 .. k - 1 /\ y = k * q + t
  BY <1>1
<1> HIDE DEF p, q, s, t
<1>4. k * (p - q) = k * p - k * q
  BY <1>2, <1>3
<1>5. k * (p - q) < k
  BY <1>1, <1>2, <1>3, <1>4
<1>6. p - q < 1
  <2> SUFFICES ASSUME p - q >= 1 PROVE FALSE
    BY <1>2, <1>3
  <2>1. k * (p - q) >= k
    BY <1>2, <1>3
  <2> QED
    BY <1>2, <1>3, <1>5, <2>1
<1>7. p <= q
  BY <1>2, <1>3, <1>6
<1> QED
  BY <1>7 DEF p, q, x, y, Intervals

(* What a tick adds to a fine.                                             *)
LEMMA FineTick ==
  ASSUME NEW l \in Loan, NEW e \in Int, NEW r \in Nat
  PROVE  Fine(l, e + 1, r) =
           IF e + 1 <= 0 THEN Fine(l, e, r)
           ELSE Fine(l, e, r) + (IF e + 1 = 1 THEN Initial[l] ELSE 0)
                              + (IF e % Interval[l] = 0 THEN r ELSE 0)
<1> USE TermsAssumption
<1>1. PICK k \in Nat \ {0} : Interval[l] = k
  OBVIOUS
<1>2. PICK i \in Nat : Initial[l] = i
  OBVIOUS
<1>3. CASE e + 1 <= 0
  BY <1>3 DEF Fine
<1>4. CASE e = 0
  <2>1. (k * 1 + 0) \div k = 1 /\ k * 1 + 0 = 0 + 1 + k - 1
    BY Quotient
  <2>2. Intervals(0 + 1, k) = 1
    BY <2>1 DEF Intervals
  <2>3. (k * 0 + 0) = 0 /\ 0 % k = 0
    OBVIOUS
  <2>4. Fine(l, e, r) = 0
    BY <1>4 DEF Fine
  <2>5. Fine(l, e + 1, r) = i + 1 * r
    BY <1>1, <1>2, <1>4, <2>2 DEF Fine
  <2> QED
    BY <1>1, <1>2, <1>4, <2>3, <2>4, <2>5
<1>5. CASE e > 0
  <2>1. e \in Nat
    BY <1>5
  <2>2. PICK n \in Nat : n = Intervals(e, k)
    BY <2>1, NextInterval
  <2>3. Fine(l, e, r) = i + n * r
    BY <1>1, <1>2, <1>5, <2>2 DEF Fine
  <2>4. Fine(l, e + 1, r) = i + Intervals(e + 1, k) * r
    BY <1>1, <1>2, <1>5 DEF Fine
  <2>5. CASE e % k = 0
    <3>1. Fine(l, e + 1, r) = i + (n + 1) * r
      BY <2>1, <2>2, <2>4, <2>5, NextInterval
    <3>2. (n + 1) * r = n * r + r
      OBVIOUS
    <3> QED
      BY <1>1, <1>5, <2>3, <2>5, <3>1, <3>2
  <2>6. CASE e % k # 0
    <3>1. Fine(l, e + 1, r) = i + n * r
      BY <2>1, <2>2, <2>4, <2>6, NextInterval
    <3> QED
      BY <1>1, <1>5, <2>3, <2>6, <3>1
  <2> QED
    BY <2>5, <2>6
<1> QED
  BY <1>3, <1>4, <1>5

LEMMA FineGrows ==
  ASSUME NEW l \in Loan, NEW e \in Int, NEW f \in Int, e <= f, NEW r \in Nat
  PROVE  Fine(l, e, r) <= Fine(l, f, r)
<1> USE TermsAssumption
<1>1. PICK k \in Nat \ {0} : Interval[l] = k
  OBVIOUS
<1>2. PICK i \in Nat : Initial[l] = i
  OBVIOUS
<1>3. CASE e <= 0
  <2>1. Fine(l, e, r) = 0
    BY <1>3 DEF Fine
  <2>2. Fine(l, f, r) \in Nat
    BY FineType
  <2> QED
    BY <2>1, <2>2
<1>4. CASE e > 0
  <2> e \in Nat /\ f \in Nat /\ f > 0
    BY <1>4
  <2>1. PICK m \in Nat : m = Intervals(e, k)
    BY NextInterval
  <2>2. PICK n \in Nat : n = Intervals(f, k)
    BY NextInterval
  <2>3. m <= n
    BY <2>1, <2>2, MoreIntervals
  <2>4. m * r <= n * r
    <3>1. n - m \in Nat
      BY <2>3
    <3>2. (n - m) * r \in Nat /\ (n - m) * r = n * r - m * r
      BY <3>1
    <3>3. n * r \in Nat /\ m * r \in Nat
      OBVIOUS
    <3> QED
      BY <3>2, <3>3
  <2>5. Fine(l, e, r) = i + m * r /\ Fine(l, f, r) = i + n * r
    BY <1>1, <1>2, <1>4, <2>1, <2>2 DEF Fine
  <2> QED
    BY <2>4, <2>5
<1> QED
  BY <1>3, <1>4

(* ------------------------------------------------ charges under every overlap *)

(* An account is in step with the terms (due, r) at the time at, if w is   *)
(* what the loan owes by then: what it was charged before these terms, and *)
(* the fine under them beyond the point they were measured from.           *)
Fits(l, acct, due, r, at, w) ==
  LET fine == Fine(l, at - due, r) IN
    IF acct.policy.set
    THEN /\ acct.policy.due = due /\ acct.policy.rate = r
         /\ acct.charged <= w /\ w = acct.base + fine - acct.policy.baseline
    ELSE acct.base = acct.charged /\ w = acct.base + fine

(* A loan that no stale sweep wrote to was never lent, or is out, or came  *)
(* back.  If no summary was misled either, its account is in step while it *)
(* is out, and was charged all that it owed when it came back.             *)
NeverLent(l) ==
  /\ loans[l].status = "none" /\ loans[l].returned = NotReturned /\ ~loans[l].archived
  /\ accounts[l] = NoCharge /\ owed[l] = 0

Running(l) ==
  /\ IsOut(loans[l]) /\ loans[l].returned = NotReturned
  /\ l \notin misrated => Fits(l, accounts[l], loans[l].due, RateOf(l, rate), now, owed[l])

Closed(l) ==
  /\ loans[l].status = "returned" /\ loans[l].returned \in Nat
  /\ l \notin misrated => accounts[l].charged = owed[l]

Tracked(l) == NeverLent(l) \/ Running(l) \/ Closed(l)

(* What a sweep has listed was out, and what a renewal has locked still    *)
(* is; the library's rate is what the sweep has read.                      *)
Listed(n) ==
  req[n].stage = "marking" =>
    /\ req[n].rate = rate
    /\ \A l \in req[n].ids \ stale : req[n].rows[l].returned = NotReturned /\ loans[l].status # "none"

Renewing(n) == At(n, "open", "renew") => req[n].loan \in Loan /\ IsOut(loans[req[n].loan])

(* A patron who is archived has returned everything and owes nothing.      *)
DepartedSettled ==
  \A l \in Loan \ stale : Holder[l] \in departed => ~IsOut(loans[l]) /\ Balance(l) = 0

(* An account charged c of what is owed, under the terms (due, r).         *)
LEMMA FitsSet ==
  ASSUME NEW l \in Loan, NEW due \in Nat, NEW r \in Nat, NEW at \in Nat, NEW w \in Nat,
         NEW c \in Nat, NEW b \in Nat, NEW m \in Nat, c <= w, w = b + Fine(l, at - due, r) - m
  PROVE  Fits(l, [charged |-> c, base |-> b,
                  policy |-> [set |-> TRUE, due |-> due, rate |-> r, baseline |-> m]], due, r, at, w)
  BY DEF Fits

(* Assessing under terms it is in step with leaves an account in step, and *)
(* charged all that is owed at that time.                                  *)
LEMMA AssessFits ==
  ASSUME NEW l \in Loan, NEW acct \in Account, NEW due \in Nat, NEW r \in Nat, NEW w \in Nat,
         NEW at \in Nat, NEW later \in Nat, at <= later, Fits(l, acct, due, r, later, w),
         NEW returned, Elapsed(due, returned, at) = at - due
  PROVE  LET a == Assess(l, acct, due, returned, r, at) IN
           /\ Fits(l, a, due, r, later, w)
           /\ a.policy.set /\ a.policy.due = due /\ a.policy.rate = r
           /\ at = later => a.charged = w
<1> DEFINE fine == Fine(l, at - due, r)
           whole == Fine(l, later - due, r)
           a == Assess(l, acct, due, returned, r, at)
           new(c, m) == [charged |-> c, base |-> acct.base,
                         policy |-> [set |-> TRUE, due |-> due, rate |-> r, baseline |-> m]]
<1>1. fine \in Nat /\ whole \in Nat /\ fine <= whole /\ (at = later => fine = whole)
  <2>1. at - due \in Int /\ later - due \in Int /\ at - due <= later - due
    OBVIOUS
  <2> QED
    BY <2>1, FineType, FineGrows
<1>2. acct.charged \in Nat /\ acct.base \in Nat /\ acct.policy.baseline \in Nat
  BY DEF Account
<1>3. CASE acct.policy.set
  <2> DEFINE c == MaxOf(acct.charged, acct.base + fine - acct.policy.baseline)
  <2>1. /\ acct.policy.due = due /\ acct.policy.rate = r
        /\ acct.charged <= w /\ w = acct.base + whole - acct.policy.baseline
    BY <1>3 DEF Fits
  <2>2. a = new(c, acct.policy.baseline)
    BY <1>3, <2>1 DEF Assess, PolicyChanged
  <2> HIDE DEF fine, whole
  <2>3. c \in Nat /\ c <= w /\ (at = later => c = w)
    BY <1>1, <1>2, <2>1 DEF MaxOf
  <2> HIDE DEF c
  <2>4. Fits(l, new(c, acct.policy.baseline), due, r, later, w)
    BY <1>2, <2>1, <2>3, FitsSet DEF whole
  <2> HIDE DEF a
  <2> QED
    BY <2>2, <2>3, <2>4 DEF a
<1>4. CASE ~acct.policy.set
  <2> DEFINE c == MaxOf(acct.charged, acct.base + fine - 0)
  <2>1. acct.base = acct.charged /\ w = acct.base + whole
    BY <1>4 DEF Fits
  <2>2. ~(acct.base + fine < acct.charged)
    BY <1>1, <1>2, <2>1
  <2>3. a = new(c, 0)
    BY <1>4, <2>2 DEF Assess, PolicyChanged
  <2> HIDE DEF fine, whole
  <2>4. c \in Nat /\ c <= w /\ (at = later => c = w) /\ w = acct.base + whole - 0
    BY <1>1, <1>2, <2>1 DEF MaxOf
  <2> HIDE DEF c
  <2>5. Fits(l, new(c, 0), due, r, later, w)
    BY <1>2, <2>4, FitsSet DEF whole
  <2> HIDE DEF a
  <2> QED
    BY <2>3, <2>4, <2>5 DEF a
<1> QED
  BY <1>3, <1>4

(* A change of rate measures an account that is charged all that it owes   *)
(* from there.                                                             *)
LEMMA RebaseFits ==
  ASSUME NEW l \in Loan, NEW acct \in Account, NEW due \in Nat, NEW r \in Nat, NEW at \in Nat,
         acct.policy.set, acct.policy.rate # r
  PROVE  LET a == Assess(l, acct, due, NotReturned, r, at) IN Fits(l, a, due, r, at, acct.charged)
<1> DEFINE fine == Fine(l, at - due, r)
           a == Assess(l, acct, due, NotReturned, r, at)
           new(c) == [charged |-> c, base |-> acct.charged,
                      policy |-> [set |-> TRUE, due |-> due, rate |-> r, baseline |-> fine]]
<1>1. fine \in Nat
  BY FineType
<1>2. acct.charged \in Nat
  BY DEF Account
<1>3. a = new(MaxOf(acct.charged, acct.charged + fine - fine))
  <2>1. Elapsed(due, NotReturned, at) = at - due /\ PolicyChanged(acct, due, r)
    BY DEF Elapsed, PolicyChanged
  <2> QED
    BY <2>1 DEF Assess
<1>4. MaxOf(acct.charged, acct.charged + fine - fine) = acct.charged
  BY <1>1, <1>2 DEF MaxOf
<1>5. Fits(l, new(acct.charged), due, r, at, acct.charged)
  <2>1. acct.charged = acct.charged + fine - fine /\ acct.charged <= acct.charged
    BY <1>1, <1>2
  <2> QED
    BY <1>1, <1>2, <2>1 DEF Fits
<1>6. a = new(acct.charged)
  BY <1>3, <1>4
<1> HIDE DEF a, new
<1>7. Fits(l, a, due, r, at, acct.charged)
  BY <1>5, <1>6
<1> QED
  BY <1>7 DEF a

(* A cycle that begins owes what was charged before it.                    *)
LEMMA RenewedFits ==
  ASSUME NEW l \in Loan, NEW acct \in Account, NEW r \in Nat, NEW at \in Nat, NEW due \in Nat, at <= due
  PROVE  Fits(l, BeginRenewalCycle(acct), due, r, at, acct.charged)
<1>1. acct.charged \in Nat
  BY DEF Account
<1>2. Fine(l, at - due, r) = 0
  BY DEF Fine
<1>3. /\ ~BeginRenewalCycle(acct).policy.set
      /\ BeginRenewalCycle(acct).base = acct.charged
      /\ BeginRenewalCycle(acct).charged = acct.charged
  BY DEF BeginRenewalCycle, Account
<1> QED
  BY <1>1, <1>2, <1>3 DEF Fits

(* A tick keeps an account in step with what it adds to what is owed.      *)
LEMMA TickFits ==
  ASSUME NEW l \in Loan, NEW acct \in Account, NEW due \in Nat, NEW r \in Nat, NEW at \in Nat, NEW w \in Nat,
         Fits(l, acct, due, r, at, w)
  PROVE  LET late == at + 1 - due IN
           Fits(l, acct, due, r, at + 1,
                IF ~(late > 0) THEN w
                ELSE w + (IF late = 1 THEN Initial[l] ELSE 0)
                       + (IF (late - 1) % Interval[l] = 0 THEN r ELSE 0))
<1> USE TermsAssumption
<1> DEFINE e == at - due
           fine == Fine(l, e, r)
           more == (IF e + 1 = 1 THEN Initial[l] ELSE 0) + (IF e % Interval[l] = 0 THEN r ELSE 0)
           v == IF ~(e + 1 > 0) THEN w ELSE w + more
<1>1. at + 1 - due = e + 1 /\ (at + 1 - due) - 1 = e /\ e \in Int
  OBVIOUS
<1>2. fine \in Nat /\ Fine(l, e + 1, r) = IF e + 1 <= 0 THEN fine ELSE fine + more
  <2>1. Fine(l, e + 1, r) =
           IF e + 1 <= 0 THEN fine
           ELSE fine + (IF e + 1 = 1 THEN Initial[l] ELSE 0) + (IF e % Interval[l] = 0 THEN r ELSE 0)
    BY <1>1, FineTick
  <2>2. fine \in Nat
    BY <1>1, FineType
  <2> QED
    BY <2>1, <2>2
<1>3. acct.charged \in Nat /\ acct.base \in Nat /\ acct.policy.baseline \in Nat
  BY DEF Account
<1>4. more \in Nat
  OBVIOUS
<1>5. Fits(l, acct, due, r, at + 1, v)
  <2>1. IF acct.policy.set
        THEN /\ acct.policy.due = due /\ acct.policy.rate = r
             /\ acct.charged <= w /\ w = acct.base + fine - acct.policy.baseline
        ELSE acct.base = acct.charged /\ w = acct.base + fine
    BY DEF Fits
  <2>2. Fits(l, acct, due, r, at + 1, v) <=>
          IF acct.policy.set
          THEN /\ acct.policy.due = due /\ acct.policy.rate = r
               /\ acct.charged <= v /\ v = acct.base + Fine(l, e + 1, r) - acct.policy.baseline
          ELSE acct.base = acct.charged /\ v = acct.base + Fine(l, e + 1, r)
    BY <1>1 DEF Fits
  <2> HIDE DEF e, fine, more
  <2>3. e \in Int
    BY <1>1
  <2>4. acct.charged <= w => acct.charged <= v
    BY <1>3, <1>4, <2>3
  <2>5. \A b \in Int : w = b + fine => v = b + Fine(l, e + 1, r)
    BY <1>2, <1>4, <2>3
  <2>6. \A b, m \in Int : w = b + fine - m => v = b + Fine(l, e + 1, r) - m
    BY <1>2, <1>4, <2>3
  <2> QED
    BY <1>3, <2>1, <2>2, <2>4, <2>5, <2>6
<1>6. v = IF ~(at + 1 - due > 0) THEN w
          ELSE w + (IF at + 1 - due = 1 THEN Initial[l] ELSE 0)
                 + (IF (at + 1 - due - 1) % Interval[l] = 0 THEN r ELSE 0)
  BY <1>1
<1> QED
  BY <1>5, <1>6

ChargesInv ==
  /\ LedgerInv
  /\ \A l \in Loan \ stale : Tracked(l)
  /\ \A n \in Conn : Listed(n) /\ Renewing(n)
  /\ DepartedSettled

(* What the steps that neither lend, charge nor return leave of a loan.    *)
TermsKept(l) ==
  /\ loans'[l].status = loans[l].status /\ loans'[l].due = loans[l].due
  /\ loans'[l].returned = loans[l].returned /\ loans'[l].archived = loans[l].archived
  /\ accounts'[l] = accounts[l] /\ owed'[l] = owed[l]
  /\ RateOf(l, rate') = RateOf(l, rate) /\ now' = now /\ misrated \subseteq misrated'

LEMMA KeptTracked ==
  ASSUME NEW l \in Loan, Tracked(l), TermsKept(l) PROVE Tracked(l)'
  BY DEF Tracked, NeverLent, Running, Closed, IsOut, TermsKept, RateOf

(* A loan that is out, and is still out in step with its terms.            *)
LEMMA RunsOn ==
  ASSUME NEW l \in Loan, IsOut(loans'[l]), loans'[l].returned = NotReturned,
         l \notin misrated' => Fits(l, accounts'[l], loans'[l].due, RateOf(l, rate'), now', owed'[l])
  PROVE  Tracked(l)'
  BY DEF Tracked, Running, IsOut, RateOf

LEMMA ChargesTypes ==
  ASSUME ChargesInv, NEW l \in Loan
  PROVE  /\ TypeOK /\ loans[l] \in Row /\ accounts[l] \in Account /\ owed[l] \in Nat /\ now \in Nat
         /\ rate \in Rate /\ rate \in Nat /\ RateOf(l, rate) \in Nat
         /\ loans[l].due \in Nat /\ accounts[l].charged \in Nat
<1>1. TypeOK
  BY DEF ChargesInv, LedgerInv
<1>2. loans[l] \in Row /\ accounts[l] \in Account /\ owed[l] \in Nat /\ now \in Nat /\ rate \in Rate
  BY <1>1 DEF TypeOK
<1> QED
  BY <1>1, <1>2, RateType, TermsAssumption DEF Row, Account

(* A loan is none of the three at once.                                    *)
LEMMA OutRuns ==
  ASSUME NEW l \in Loan, Tracked(l)
  PROVE  /\ IsOut(loans[l]) => Running(l)
         /\ loans[l].status = "none" => NeverLent(l)
         /\ loans[l].status = "returned" => Closed(l)
         /\ loans[l].archived => Closed(l)
         /\ loans[l].returned = NotReturned => ~Closed(l)
  BY DEF Tracked, NeverLent, Running, Closed, IsOut, NotReturned

(* A sweep that is not stale for a loan assesses it as it is.              *)
LEMMA SweptCurrent ==
  ASSUME ChargesInv, NEW n \in Conn, SyncCommit(n), NEW l \in req[n].ids, l \notin stale'
  PROVE  /\ l \in Loan \ stale /\ Running(l)
         /\ req[n].rows[l].due = loans[l].due /\ req[n].rows[l].returned = NotReturned
         /\ RateOf(l, req[n].rate) = RateOf(l, rate)
<1>1. req[n] \in Request
  BY DEF ChargesInv, LedgerInv, TypeOK
<1>2. l \in Loan
  BY <1>1 DEF Request
<1>3. stale' = stale \union ChangedSince(n) /\ req[n].stage = "marking"
  BY DEF SyncCommit
<1>4. l \notin stale /\ l \notin ChangedSince(n)
  BY <1>3
<1>5. loans[l].due = req[n].rows[l].due /\ loans[l].returned = req[n].rows[l].returned
  BY <1>4 DEF ChangedSince
<1>8. RateOf(l, rate) = RateOf(l, req[n].rate)
  BY <1>3 DEF ChargesInv, Listed
<1>6. req[n].rows[l].returned = NotReturned /\ loans[l].status # "none" /\ Tracked(l)
  BY <1>2, <1>3, <1>4 DEF ChargesInv, Listed
<1>7. Running(l)
  BY <1>2, <1>5, <1>6, OutRuns DEF Tracked, NeverLent
<1> QED
  BY <1>2, <1>4, <1>5, <1>6, <1>7, <1>8

LEMMA SyncTracked ==
  ASSUME ChargesInv, NEW n \in Conn, SyncCommit(n), NEW l \in Loan \ stale'
  PROVE  Tracked(l)'
<1>1. /\ owed' = owed /\ rate' = rate /\ now' = now /\ stale \subseteq stale' /\ misrated' = misrated
      /\ req[n] \in Request
  BY DEF SyncCommit, ChargesInv, LedgerInv, TypeOK
<1>2. Tracked(l)
  BY <1>1 DEF ChargesInv
<1>3. PICK at \in [req[n].ids -> req[n].began .. now] :
        /\ accounts' = [k \in Loan |->
             IF k \in req[n].ids
             THEN Assess(k, accounts[k], req[n].rows[k].due, req[n].rows[k].returned,
                         RateOf(k, req[n].rate), at[k])
             ELSE accounts[k]]
        /\ loans' = [k \in Loan |->
             IF /\ k \in req[n].ids /\ ~req[n].rows[k].marked
                /\ Elapsed(req[n].rows[k].due, req[n].rows[k].returned, at[k]) > 0
             THEN [loans[k] EXCEPT !.status = "overdue"] ELSE loans[k]]
  BY DEF SyncCommit
<1>4. CASE l \notin req[n].ids
  <2>1. accounts'[l] = accounts[l] /\ loans'[l] = loans[l]
    BY <1>3, <1>4
  <2> QED
    BY <1>1, <1>2, <2>1, KeptTracked DEF TermsKept
<1>5. CASE l \in req[n].ids
  <2>1. /\ Running(l)
        /\ req[n].rows[l].due = loans[l].due /\ req[n].rows[l].returned = NotReturned
        /\ RateOf(l, req[n].rate) = RateOf(l, rate)
    BY <1>5, SweptCurrent
  <2>2. /\ loans[l] \in Row /\ accounts[l] \in Account /\ owed[l] \in Nat /\ now \in Nat
        /\ RateOf(l, rate) \in Nat /\ loans[l].due \in Nat
    BY ChargesTypes
  <2>3. at[l] \in Nat /\ at[l] <= now
    BY <1>1, <1>3, <1>5, <2>2 DEF Request
  <2>4. accounts'[l] = Assess(l, accounts[l], loans[l].due, NotReturned, RateOf(l, rate), at[l])
    BY <1>3, <1>5, <2>1
  <2>5. ASSUME l \notin misrated PROVE Fits(l, accounts'[l], loans[l].due, RateOf(l, rate), now, owed[l])
    <3>1. Elapsed(loans[l].due, NotReturned, at[l]) = at[l] - loans[l].due
      BY DEF Elapsed
    <3>2. Fits(l, accounts[l], loans[l].due, RateOf(l, rate), now, owed[l])
      BY <2>1, <2>5 DEF Running
    <3> QED
      BY <2>2, <2>3, <2>4, <3>1, <3>2, AssessFits
  <2>6. loans'[l] = loans[l] \/ loans'[l] = [loans[l] EXCEPT !.status = "overdue"]
    BY <1>3, <1>5
  <2>7. IsOut(loans'[l]) /\ loans'[l].returned = NotReturned /\ loans'[l].due = loans[l].due
    BY <2>1, <2>2, <2>6 DEF Running, IsOut, Row
  <2> QED
    BY <1>1, <2>5, <2>7, RunsOn
<1> QED
  BY <1>4, <1>5

(* An assessment at the present by the row and the rate as they are.       *)
LEMMA AssessedNow ==
  ASSUME ChargesInv, NEW l \in Loan \ misrated, Running(l), NEW returned \in {NotReturned, now}
  PROVE  LET a == Assess(l, accounts[l], loans[l].due, returned, RateOf(l, rate), now) IN
           /\ a \in Account /\ a.charged = owed[l]
           /\ Fits(l, a, loans[l].due, RateOf(l, rate), now, owed[l])
           /\ a.policy.set /\ a.policy.due = loans[l].due /\ a.policy.rate = RateOf(l, rate)
<1>1. /\ accounts[l] \in Account /\ owed[l] \in Nat /\ now \in Nat
      /\ RateOf(l, rate) \in Nat /\ loans[l].due \in Nat
  BY ChargesTypes
<1>2. Elapsed(loans[l].due, returned, now) = now - loans[l].due
  BY <1>1 DEF Elapsed
<1>3. Fits(l, accounts[l], loans[l].due, RateOf(l, rate), now, owed[l])
  BY DEF Running
<1>4. now <= now /\ returned \in Nat \union {NotReturned}
  BY <1>1
<1> DEFINE a == Assess(l, accounts[l], loans[l].due, returned, RateOf(l, rate), now)
<1>5. a \in Account
  BY <1>1, <1>4, AssessType
<1>6. /\ Fits(l, a, loans[l].due, RateOf(l, rate), now, owed[l])
      /\ a.policy.set /\ a.policy.due = loans[l].due /\ a.policy.rate = RateOf(l, rate)
      /\ now = now => a.charged = owed[l]
  BY <1>1, <1>2, <1>3, <1>4, AssessFits
<1> HIDE DEF a
<1> QED
  BY <1>5, <1>6 DEF a

LEMMA ReturnTracked ==
  ASSUME ChargesInv, NEW n \in Conn, NEW k \in Loan, Return(n, k), NEW l \in Loan \ stale'
  PROVE  Tracked(l)'
<1>1. /\ owed' = owed /\ rate' = rate /\ now' = now /\ stale' = stale /\ misrated' = misrated
      /\ IsOut(loans[k])
      /\ loans' = [loans EXCEPT ![k].status = "returned", ![k].returned = now]
      /\ accounts' = [accounts EXCEPT ![k] =
           AssessNow(k, [loans[k] EXCEPT !.returned = now], RateOf(k, rate))]
  BY DEF Return
<1>2. Tracked(l) /\ loans \in [Loan -> Row] /\ accounts \in [Loan -> Account]
  BY <1>1 DEF ChargesInv, LedgerInv, TypeOK
<1>3. CASE l # k
  BY <1>1, <1>2, <1>3, KeptTracked DEF TermsKept
<1>4. CASE l = k
  <2>1. Running(l) /\ now \in Nat
    BY <1>1, <1>2, <1>4, OutRuns, ChargesTypes
  <2>2. accounts'[l] = Assess(l, accounts[l], loans[l].due, now, RateOf(l, rate), now)
    <3>1. /\ [loans[l] EXCEPT !.returned = now].due = loans[l].due
          /\ [loans[l] EXCEPT !.returned = now].returned = now
      BY <1>2 DEF Row
    <3> QED
      BY <1>1, <1>2, <1>4, <3>1 DEF AssessNow
  <2>3. l \notin misrated => accounts'[l].charged = owed[l]
    BY <2>1, <2>2, AssessedNow
  <2>4. loans'[l].status = "returned" /\ loans'[l].returned = now
    BY <1>1, <1>2, <1>4 DEF Row
  <2> QED
    BY <1>1, <2>1, <2>3, <2>4 DEF Tracked, Closed
<1> QED
  BY <1>3, <1>4

LEMMA RenewTracked ==
  ASSUME ChargesInv, NEW n \in Conn, RenewCommit(n), NEW l \in Loan \ stale'
  PROVE  Tracked(l)'
<1> DEFINE k == req[n].loan
<1>1. /\ owed' = owed /\ rate' = rate /\ now' = now /\ stale' = stale /\ misrated' = misrated
      /\ accounts' = [accounts EXCEPT ![k] = BeginRenewalCycle(AssessNow(k, loans[k], RateOf(k, rate)))]
      /\ loans' = [loans EXCEPT ![k].status = "borrowed", ![k].due = now + LoanPeriod,
                                ![k].renewals = @ + 1]
  BY DEF RenewCommit
<1>2. Tracked(l) /\ loans \in [Loan -> Row] /\ accounts \in [Loan -> Account]
  BY <1>1 DEF ChargesInv, LedgerInv, TypeOK
<1>3. k \in Loan /\ IsOut(loans[k])
  BY DEF RenewCommit, ChargesInv, Renewing
<1> HIDE DEF k
<1>4. CASE l # k
  BY <1>1, <1>2, <1>4, KeptTracked DEF TermsKept
<1>5. CASE l = k
  <2> DEFINE a == Assess(l, accounts[l], loans[l].due, NotReturned, RateOf(l, rate), now)
             due == now + LoanPeriod
  <2>1. Running(l)
    BY <1>2, <1>3, <1>5, OutRuns
  <2>2. RateOf(l, rate) \in Nat /\ now \in Nat /\ due \in Nat /\ now <= due
    BY ChargesTypes, BoundsAssumption
  <2>3. l \notin misrated => a \in Account /\ a.charged = owed[l]
    BY <2>1, AssessedNow
  <2>4. accounts'[l] = BeginRenewalCycle(a)
    BY <1>1, <1>2, <1>5, <2>1 DEF AssessNow, Running
  <2> HIDE DEF a
  <2>5. /\ loans'[l].status = "borrowed" /\ loans'[l].due = due
        /\ loans'[l].archived = loans[l].archived /\ loans'[l].returned = loans[l].returned
    BY <1>1, <1>2, <1>5 DEF Row
  <2> HIDE DEF due
  <2>6. l \notin misrated => Fits(l, accounts'[l], due, RateOf(l, rate), now, owed[l])
    BY <2>2, <2>3, <2>4, RenewedFits
  <2>7. IsOut(loans'[l]) /\ loans'[l].returned = NotReturned
    BY <2>1, <2>5 DEF IsOut, Running
  <2> QED
    BY <1>1, <2>5, <2>6, <2>7, RunsOn
<1> QED
  BY <1>4, <1>5

LEMMA OfficeTracked ==
  ASSUME ChargesInv, NEW n \in Conn, NEW l \in Loan \ stale',
         SummaryCommit(n) \/ (\E r \in Rate : UpdateSettings(n, r))
  PROVE  Tracked(l)'
<1>1. owed' = owed /\ loans' = loans /\ now' = now /\ stale' = stale /\ misrated \subseteq misrated'
  BY DEF SummaryCommit, UpdateSettings
<1>2. Tracked(l) /\ accounts \in [Loan -> Account]
  BY <1>1 DEF ChargesInv, LedgerInv, TypeOK
<1> DEFINE a == Assess(l, accounts[l], loans[l].due, NotReturned, RateOf(l, rate), now)
<1>3. CASE SummaryCommit(n)
  <2>1. rate' = rate
        /\ \/ accounts'[l] = accounts[l]
           \/ /\ IsOut(loans[l]) /\ accounts'[l] = AssessNow(l, loans[l], RateOf(l, req[n].rate))
              /\ l \notin misrated' => RateOf(l, rate) = RateOf(l, req[n].rate)
    BY <1>3 DEF SummaryCommit
  <2>2. CASE accounts'[l] = accounts[l]
    BY <1>1, <1>2, <2>1, <2>2, KeptTracked DEF TermsKept
  <2>3. CASE /\ IsOut(loans[l]) /\ accounts'[l] = AssessNow(l, loans[l], RateOf(l, req[n].rate))
             /\ l \notin misrated' => RateOf(l, rate) = RateOf(l, req[n].rate)
    <3>1. Running(l)
      BY <1>2, <2>3, OutRuns
    <3>2. ASSUME l \notin misrated' PROVE Fits(l, accounts'[l], loans[l].due, RateOf(l, rate), now, owed[l])
      <4>1. accounts'[l] = a
        BY <2>3, <3>1, <3>2 DEF AssessNow, Running
      <4>2. Fits(l, a, loans[l].due, RateOf(l, rate), now, owed[l])
        BY <1>1, <3>1, <3>2, AssessedNow
      <4> HIDE DEF a
      <4> QED
        BY <4>1, <4>2
    <3> QED
      BY <1>1, <2>1, <3>1, <3>2, RunsOn DEF Running
  <2> QED
    BY <2>1, <2>2, <2>3
<1>4. ASSUME NEW r \in Rate, UpdateSettings(n, r) PROVE Tracked(l)'
  <2>1. /\ rate' = r /\ r # rate
        /\ accounts' = [k \in Loan |->
             IF IsOut(loans[k]) /\ OwnRate[k] = NoRate
             THEN Assess(k, AssessNow(k, loans[k], rate), loans[k].due, loans[k].returned, r, now)
             ELSE accounts[k]]
        /\ misrated' = misrated
    BY <1>4 DEF UpdateSettings
  <2>2. CASE OwnRate[l] # NoRate
    <3>1. RateOf(l, rate') = RateOf(l, rate)
      BY <2>2 DEF RateOf
    <3>2. accounts'[l] = accounts[l]
      BY <2>1, <2>2
    <3> QED
      BY <1>1, <1>2, <3>1, <3>2, KeptTracked DEF TermsKept
  <2>3. CASE ~IsOut(loans[l])
    <3>1. accounts'[l] = accounts[l]
      BY <2>1, <2>3
    <3> QED
      BY <1>1, <1>2, <2>3, <3>1 DEF Tracked, NeverLent, Running, Closed
  <2>4. CASE OwnRate[l] = NoRate /\ IsOut(loans[l])
    <3>1. Running(l) /\ loans[l].returned = NotReturned
      BY <1>2, <2>4, OutRuns DEF Running
    <3>2. RateOf(l, rate) = rate /\ RateOf(l, rate') = r
      BY <2>1, <2>4 DEF RateOf
    <3>3. AssessNow(l, loans[l], rate) = a
      BY <3>1, <3>2 DEF AssessNow
    <3>4. accounts'[l] = Assess(l, a, loans[l].due, NotReturned, r, now)
      BY <2>1, <2>4, <3>1, <3>3
    <3>5. ASSUME l \notin misrated PROVE Fits(l, accounts'[l], loans[l].due, r, now, owed[l])
      <4>1. a \in Account /\ a.charged = owed[l] /\ a.policy.set /\ a.policy.rate = rate
        BY <3>1, <3>2, <3>5, AssessedNow
      <4> HIDE DEF a
      <4>2. r \in Nat /\ now \in Nat /\ loans[l].due \in Nat /\ a.policy.rate # r
        BY <2>1, <4>1, ChargesTypes, TermsAssumption
      <4> QED
        BY <3>4, <4>1, <4>2, RebaseFits
    <3> QED
      BY <1>1, <2>1, <2>4, <3>1, <3>2, <3>5, RunsOn
  <2> QED
    BY <2>2, <2>3, <2>4
<1> QED
  BY <1>3, <1>4

LEMMA LoansTracked ==
  ASSUME ChargesInv, NEW n \in Conn, NEW k \in Loan,
         Borrow(n, k) \/ ArchiveLoan(n, k) \/ RestoreLoan(n, k), NEW l \in Loan \ stale'
  PROVE  Tracked(l)'
<1>1. /\ accounts' = accounts /\ owed' = owed /\ rate' = rate /\ now' = now
      /\ stale' = stale /\ misrated' = misrated /\ loans \in [Loan -> Row]
  BY DEF Borrow, ArchiveLoan, RestoreLoan, ledger, ChargesInv, LedgerInv, TypeOK
<1>2. Tracked(l)
  BY <1>1 DEF ChargesInv
<1>3. CASE l # k
  <2>1. loans'[l] = loans[l]
    BY <1>1, <1>3 DEF Borrow, ArchiveLoan, RestoreLoan
  <2> QED
    BY <1>1, <1>2, <2>1, KeptTracked DEF TermsKept
<1>4. CASE l = k /\ Borrow(n, k)
  <2> DEFINE due == now + LoanPeriod
  <2>1. NeverLent(l)
    BY <1>2, <1>4, OutRuns DEF Borrow
  <2>2. loans' = [loans EXCEPT ![l].status = "borrowed", ![l].due = due]
    BY <1>4 DEF Borrow
  <2>3. /\ IsOut(loans'[l]) /\ loans'[l].returned = NotReturned /\ loans'[l].due = due
    BY <1>1, <2>1, <2>2 DEF NeverLent, IsOut, Row
  <2>4. Fits(l, NoCharge, due, RateOf(l, rate), now, 0)
    <3>1. now - due <= 0
      BY ChargesTypes, BoundsAssumption
    <3> QED
      BY <3>1 DEF Fits, Fine, NoCharge, NoPolicy
  <2> QED
    BY <1>1, <2>1, <2>3, <2>4, RunsOn DEF NeverLent
<1>5. CASE l = k /\ (ArchiveLoan(n, k) \/ RestoreLoan(n, k))
  <2>1. Closed(l)
    BY <1>2, <1>5, OutRuns DEF ArchiveLoan, RestoreLoan
  <2>2. loans'[l].status = loans[l].status /\ loans'[l].returned = loans[l].returned
    BY <1>1, <1>5 DEF ArchiveLoan, RestoreLoan, Row
  <2> QED
    BY <1>1, <2>1, <2>2 DEF Tracked, Closed
<1> QED
  BY <1>3, <1>4, <1>5

LEMMA PostTracked ==
  ASSUME ChargesInv, NEW n \in Conn, PayCommit(n) \/ AdjustCommit(n) \/ ReverseCommit(n), NEW l \in Loan \ stale'
  PROVE  Tracked(l)'
<1>1. /\ accounts' = accounts /\ owed' = owed /\ rate' = rate /\ now' = now
      /\ stale' = stale /\ misrated' = misrated
  BY DEF PayCommit, AdjustCommit, ReverseCommit
<1>2. PICK s : loans'[l] = [loans[l] EXCEPT !.settled = s]
  <2>1. PICK type, items, sign, reverses : Post(type, items, sign, reverses)
    BY DEF PayCommit, AdjustCommit, ReverseCommit
  <2> QED
    BY <2>1 DEF Post
<1>3. Tracked(l) /\ loans[l] \in Row
  BY <1>1 DEF ChargesInv, LedgerInv, TypeOK
<1>4. /\ loans'[l].status = loans[l].status /\ loans'[l].due = loans[l].due
      /\ loans'[l].returned = loans[l].returned /\ loans'[l].archived = loans[l].archived
  BY <1>2, <1>3 DEF Row
<1> QED
  BY <1>1, <1>3, <1>4, KeptTracked DEF TermsKept

LEMMA TickTracked ==
  ASSUME ChargesInv, Tick, NEW l \in Loan \ stale' PROVE Tracked(l)'
<1>1. /\ accounts' = accounts /\ loans' = loans /\ rate' = rate /\ now' = now + 1
      /\ stale' = stale /\ misrated' = misrated
  BY DEF Tick, ledger
<1> DEFINE late == now + 1 - loans[l].due
           more == owed[l] + (IF late = 1 THEN Initial[l] ELSE 0)
                           + (IF (late - 1) % Interval[l] = 0 THEN RateOf(l, rate) ELSE 0)
<1>2. owed'[l] = IF ~(IsOut(loans[l]) /\ late > 0) THEN owed[l] ELSE more
  BY DEF Tick
<1>3. Tracked(l)
  BY <1>1 DEF ChargesInv
<1>4. CASE ~IsOut(loans[l])
  BY <1>1, <1>2, <1>3, <1>4 DEF Tracked, NeverLent, Running, Closed
<1>5. CASE IsOut(loans[l])
  <2>1. Running(l)
    BY <1>3, <1>5, OutRuns
  <2>2. l \notin misrated =>
          Fits(l, accounts[l], loans[l].due, RateOf(l, rate), now + 1, IF ~(late > 0) THEN owed[l] ELSE more)
    BY <2>1, ChargesTypes, TickFits DEF Running
  <2>3. owed'[l] = IF ~(late > 0) THEN owed[l] ELSE more
    BY <1>2, <1>5
  <2> HIDE DEF late, more
  <2> QED
    BY <1>1, <1>5, <2>1, <2>2, <2>3, RunsOn DEF Running
<1> QED
  BY <1>4, <1>5

LEMMA TrackedStep ==
  ASSUME ChargesInv, Next PROVE \A l \in Loan \ stale' : Tracked(l)'
<1> SUFFICES ASSUME NEW l \in Loan \ stale' PROVE Tracked(l)'
  OBVIOUS
<1>1. ASSUME UNCHANGED <<loans, accounts, owed, rate, now, stale, misrated>> PROVE Tracked(l)'
  BY <1>1, KeptTracked DEF ChargesInv, TermsKept
<1>2. ASSUME NEW n \in Conn, Abort(n) \/ \E kind \in SyncKinds : SyncOpen(n, kind) PROVE Tracked(l)'
  BY <1>1, <1>2 DEF Abort, SyncOpen, ledger
<1>3. ASSUME NEW n \in Conn, NEW k \in Loan, RenewOpen(n, k) \/ AdjustOpen(n, k) PROVE Tracked(l)'
  BY <1>1, <1>3 DEF RenewOpen, AdjustOpen, ledger
<1>4. ASSUME NEW n \in Conn, NEW u \in Patron,
             PayOpen(n, u) \/ ArchivePatron(n, u) \/ RestorePatron(n, u) \/ SummaryOpen(n, u)
      PROVE  Tracked(l)'
  BY <1>1, <1>4 DEF PayOpen, ArchivePatron, RestorePatron, SummaryOpen, ledger
<1>5. ASSUME NEW n \in Conn, NEW t \in 1 .. Len(txs), ReverseOpen(n, t) PROVE Tracked(l)'
  BY <1>1, <1>5 DEF ReverseOpen, ledger
<1> QED
  BY <1>2, <1>3, <1>4, <1>5, SyncTracked, ReturnTracked, RenewTracked, OfficeTracked, LoansTracked,
     PostTracked, TickTracked DEF Next

(* What leaves the archived patrons and their loans alone keeps them.      *)
LEMMA DepartedKept ==
  ASSUME ChargesInv, departed' \subseteq departed, stale \subseteq stale',
         \A l \in Loan \ stale' : Holder[l] \in departed =>
           /\ accounts'[l].charged = accounts[l].charged /\ credit'[l] = credit[l]
           /\ ~IsOut(loans'[l])
  PROVE  DepartedSettled'
  BY DEF ChargesInv, DepartedSettled, IsOut, Balance

(* Assessing loans that are out is none of theirs.                         *)
LEMMA OutKept ==
  ASSUME ChargesInv, departed' \subseteq departed, credit' = credit, stale \subseteq stale',
         \A l \in Loan \ stale' : ~IsOut(loans[l]) => accounts'[l] = accounts[l] /\ loans'[l] = loans[l]
  PROVE  DepartedSettled'
<1>1. ASSUME NEW l \in Loan \ stale', Holder[l] \in departed
      PROVE  /\ accounts'[l].charged = accounts[l].charged /\ credit'[l] = credit[l]
             /\ ~IsOut(loans'[l])
  <2>1. ~IsOut(loans[l])
    BY <1>1 DEF ChargesInv, DepartedSettled
  <2> QED
    BY <1>1, <2>1
<1> QED
  BY <1>1, DepartedKept

(* Neither is what is posted.                                              *)
LEMMA PostedKept ==
  ASSUME ChargesInv, NEW type, NEW items, NEW sign \in {1, -1}, NEW reverses,
         Post(type, items, sign, reverses), accounts' = accounts, departed' = departed, stale' = stale,
         \A l \in Loan \ stale : Holder[l] \in departed => items[l] = 0
  PROVE  DepartedSettled'
<1>1. ASSUME NEW l \in Loan
      PROVE  loans'[l].status = loans[l].status /\ loans'[l].archived = loans[l].archived
  <2>1. loans[l] \in Row
    BY ChargesTypes
  <2>2. loans'[l] = [loans[l] EXCEPT !.settled = MaxOf(0, @ + sign * items[l])]
    BY DEF Post
  <2> QED
    BY <2>1, <2>2 DEF Row
<1>2. ASSUME NEW l \in Loan \ stale, Holder[l] \in departed PROVE credit'[l] = credit[l]
  <2>1. credit'[l] = credit[l] + sign * 0 /\ credit[l] \in Int
    BY <1>2 DEF Post, ChargesInv, LedgerInv, TypeOK
  <2> QED
    BY <2>1
<1>3. \A l \in Loan : IsOut(loans'[l]) <=> IsOut(loans[l])
  BY <1>1 DEF IsOut
<1>4. \A l \in Loan \ stale : Holder[l] \in departed => ~IsOut(loans'[l])
  BY <1>3 DEF ChargesInv, DepartedSettled
<1> QED
  BY <1>2, <1>4, DepartedKept

LEMMA PaymentsDepart ==
  ASSUME ChargesInv, NEW n \in Conn, PayCommit(n) \/ AdjustCommit(n) \/ ReverseCommit(n)
  PROVE  DepartedSettled'
<1>1. req[n] \in Request
  BY DEF ChargesInv, LedgerInv, TypeOK
<1>2. CASE PayCommit(n) \/ AdjustCommit(n)
  <2>1. ASSUME NEW l \in Loan \ stale, Holder[l] \in departed PROVE req[n].items[l] = 0
    <3>1. Balance(l) = 0 /\ req[n].items[l] \in Nat
      BY <1>1, <2>1 DEF ChargesInv, DepartedSettled, Request
    <3>2. Covered(n) /\ (At(n, "open", "pay") \/ At(n, "open", "adjust"))
      BY <1>2 DEF ChargesInv, LedgerInv, PostingsCovered, PayCommit, AdjustCommit
    <3>3. req[n].items[l] > 0 => req[n].items[l] <= Balance(l)
      BY <3>2, CoveredCases
    <3> QED
      BY <3>1, <3>3
  <2>2. accounts' = accounts /\ departed' = departed /\ stale' = stale
    BY <1>2 DEF PayCommit, AdjustCommit
  <2>3. Post("payment", req[n].items, 1, 0) \/ Post("adjustment", req[n].items, 1, 0)
    BY <1>2 DEF PayCommit, AdjustCommit
  <2> QED
    BY <2>1, <2>2, <2>3, PostedKept
<1>3. CASE ReverseCommit(n)
  <2> DEFINE items == txs[req[n].tx].items
  <2>1. items \in [Loan -> Nat]
    <3>1. txs[req[n].tx] \in Transaction
      BY <1>3 DEF ReverseCommit, ChargesInv, LedgerInv, CorrectionsRefer, TypeOK
    <3> QED
      BY <3>1 DEF Transaction
  <2>2. \A l \in Loan : items[l] > 0 => Holder[l] \notin departed
    BY <1>3 DEF ReverseCommit, ActiveAccount
  <2>3. \A l \in Loan : Holder[l] \in departed => items[l] = 0
    BY <2>1, <2>2
  <2>4. /\ Post("reversal", items, -1, req[n].tx)
        /\ accounts' = accounts /\ departed' = departed /\ stale' = stale
    BY <1>3 DEF ReverseCommit
  <2> QED
    BY <2>3, <2>4, PostedKept
<1> QED
  BY <1>2, <1>3

LEMMA AssessmentsDepart ==
  ASSUME ChargesInv, NEW n \in Conn,
         \/ SyncCommit(n) \/ RenewCommit(n) \/ SummaryCommit(n) \/ \E l \in Loan : Return(n, l)
         \/ \E r \in Rate : UpdateSettings(n, r)
  PROVE  DepartedSettled'
<1>1. loans \in [Loan -> Row] /\ accounts \in [Loan -> Account]
  BY DEF ChargesInv, LedgerInv, TypeOK
<1>2. CASE SyncCommit(n)
  <2>1. credit' = credit /\ departed' = departed /\ stale \subseteq stale'
    BY <1>2 DEF SyncCommit
  <2>2. \A l \in Loan \ stale' : l \in req[n].ids => IsOut(loans[l])
    BY <1>2, SweptCurrent DEF Running
  <2>3. \A l \in Loan : l \notin req[n].ids => accounts'[l] = accounts[l] /\ loans'[l] = loans[l]
    BY <1>2 DEF SyncCommit
  <2> QED
    BY <2>1, <2>2, <2>3, OutKept
<1>3. CASE RenewCommit(n)
  <2> DEFINE l == req[n].loan
  <2>1. l \in Loan /\ IsOut(loans[l])
    BY <1>3 DEF RenewCommit, ChargesInv, Renewing
  <2>2. /\ loans' = [loans EXCEPT ![l].status = "borrowed", ![l].due = now + LoanPeriod,
                                  ![l].renewals = @ + 1]
        /\ credit' = credit /\ departed' = departed /\ stale' = stale
        /\ accounts' = [accounts EXCEPT ![l] = BeginRenewalCycle(AssessNow(l, loans[l], RateOf(l, rate)))]
    BY <1>3 DEF RenewCommit
  <2> HIDE DEF l
  <2>3. \A k \in Loan : k # l => accounts'[k] = accounts[k] /\ loans'[k] = loans[k]
    BY <1>1, <2>2
  <2> QED
    BY <2>1, <2>2, <2>3, OutKept
<1>4. ASSUME NEW l \in Loan, Return(n, l) PROVE DepartedSettled'
  <2>1. /\ IsOut(loans[l])
        /\ loans' = [loans EXCEPT ![l].status = "returned", ![l].returned = now]
        /\ credit' = credit /\ departed' = departed /\ stale' = stale
        /\ \A k \in Loan : k # l => accounts'[k] = accounts[k]
    BY <1>1, <1>4 DEF Return
  <2>2. \A k \in Loan : k # l => loans'[k] = loans[k]
    BY <1>1, <2>1
  <2> QED
    BY <2>1, <2>2, OutKept
<1>5. CASE SummaryCommit(n)
  <2>1. loans' = loans /\ credit' = credit /\ departed' = departed /\ stale' = stale
    BY <1>5 DEF SummaryCommit
  <2>2. \A l \in Loan : ~IsOut(loans[l]) => accounts'[l] = accounts[l]
    BY <1>5 DEF SummaryCommit
  <2> QED
    BY <2>1, <2>2, OutKept
<1>6. ASSUME NEW r \in Rate, UpdateSettings(n, r) PROVE DepartedSettled'
  <2>1. loans' = loans /\ credit' = credit /\ departed' = departed /\ stale' = stale
    BY <1>6 DEF UpdateSettings
  <2>2. \A l \in Loan : ~IsOut(loans[l]) => accounts'[l] = accounts[l]
    BY <1>6 DEF UpdateSettings
  <2> QED
    BY <2>1, <2>2, OutKept
<1> QED
  BY <1>2, <1>3, <1>4, <1>5, <1>6

LEMMA LoansDepart ==
  ASSUME ChargesInv, NEW n \in Conn, NEW l \in Loan, Borrow(n, l) \/ ArchiveLoan(n, l) \/ RestoreLoan(n, l)
  PROVE  DepartedSettled'
<1>1. /\ accounts' = accounts /\ credit' = credit /\ departed' = departed /\ stale' = stale
      /\ loans \in [Loan -> Row]
  BY DEF Borrow, ArchiveLoan, RestoreLoan, ledger, ChargesInv, LedgerInv, TypeOK
<1>2. \A k \in Loan \ {l} : loans'[k] = loans[k]
  BY <1>1 DEF Borrow, ArchiveLoan, RestoreLoan
<1>3. l \notin stale /\ Holder[l] \in departed => ~IsOut(loans'[l])
  <2>1. CASE Borrow(n, l)
    BY <2>1 DEF Borrow
  <2>2. CASE ArchiveLoan(n, l) \/ RestoreLoan(n, l)
    <3>1. loans'[l].status = loans[l].status
      BY <1>1, <2>2 DEF ArchiveLoan, RestoreLoan, Row
    <3>2. l \notin stale => loans[l].status = "returned"
      BY <2>2, OutRuns DEF ArchiveLoan, RestoreLoan, ChargesInv, Closed
    <3> QED
      BY <3>1, <3>2 DEF IsOut
  <2> QED
    BY <2>1, <2>2
<1>4. \A k \in Loan \ stale : Holder[k] \in departed => ~IsOut(loans'[k])
  BY <1>2, <1>3 DEF ChargesInv, DepartedSettled
<1> QED
  BY <1>1, <1>4, DepartedKept

LEMMA PatronsDepart ==
  ASSUME ChargesInv, NEW n \in Conn, NEW u \in Patron, ArchivePatron(n, u) \/ RestorePatron(n, u)
  PROVE  DepartedSettled'
<1>1. loans' = loans /\ accounts' = accounts /\ credit' = credit /\ stale' = stale
  BY DEF ArchivePatron, RestorePatron, ledger
<1>2. CASE ArchivePatron(n, u)
  <2>1. ASSUME NEW l \in Loan, Holder[l] = u PROVE ~IsOut(loans[l]) /\ Balance(l) = 0
    <3>1. ~IsOut(loans[l]) /\ Unsettled(l) = 0
      BY <1>2, <2>1 DEF ArchivePatron, LoansOf
    <3>2. Balance(l) \in Int /\ Balance(l) >= 0
      BY BalanceType DEF ChargesInv, LedgerInv, NoCreditBalance
    <3> QED
      BY <3>1, <3>2 DEF Unsettled, MaxOf
  <2>2. departed' = departed \union {u}
    BY <1>2 DEF ArchivePatron
  <2>3. \A l \in Loan : Balance(l)' = Balance(l)
    BY <1>1 DEF Balance
  <2> QED
    BY <1>1, <2>1, <2>2, <2>3 DEF ChargesInv, DepartedSettled
<1>3. CASE RestorePatron(n, u)
  BY <1>1, <1>3, OutKept DEF RestorePatron
<1> QED
  BY <1>2, <1>3

LEMMA DepartedStep ==
  ASSUME ChargesInv, Next PROVE DepartedSettled'
<1>1. ASSUME UNCHANGED <<loans, accounts, credit, departed, stale>> PROVE DepartedSettled'
  BY <1>1, OutKept
<1>2. CASE Tick
  BY <1>1, <1>2 DEF Tick, ledger
<1>3. ASSUME NEW n \in Conn, Abort(n) \/ \E kind \in SyncKinds : SyncOpen(n, kind)
      PROVE  DepartedSettled'
  BY <1>1, <1>3 DEF Abort, SyncOpen, ledger
<1>4. ASSUME NEW n \in Conn, NEW l \in Loan, RenewOpen(n, l) \/ AdjustOpen(n, l)
      PROVE  DepartedSettled'
  BY <1>1, <1>4 DEF RenewOpen, AdjustOpen, ledger
<1>5. ASSUME NEW n \in Conn, NEW u \in Patron, PayOpen(n, u) \/ SummaryOpen(n, u) PROVE DepartedSettled'
  BY <1>1, <1>5 DEF PayOpen, SummaryOpen, ledger
<1>6. ASSUME NEW n \in Conn, NEW t \in 1 .. Len(txs), ReverseOpen(n, t)
      PROVE  DepartedSettled'
  BY <1>1, <1>6 DEF ReverseOpen, ledger
<1> QED
  BY <1>2, <1>3, <1>4, <1>5, <1>6, PaymentsDepart, AssessmentsDepart, LoansDepart, PatronsDepart DEF Next

(* No step takes a loan back to never lent, and one that is out comes back *)
(* only where no request holds it.                                         *)
LEMMA StatusStep ==
  ASSUME ChargesInv, Next, NEW l \in Loan
  PROVE  /\ loans[l].status # "none" => loans'[l].status # "none"
         /\ IsOut(loans[l]) => \/ IsOut(loans'[l])
                               \/ \E n \in Conn : req[n].stage = "idle" /\ ~LoanLocked(l, n)
<1>1. loans \in [Loan -> Row] /\ loans[l] \in Row
  BY DEF ChargesInv, LedgerInv, TypeOK
<1> DEFINE Goal == /\ loans[l].status # "none" => loans'[l].status # "none"
                   /\ IsOut(loans[l]) => \/ IsOut(loans'[l])
                                         \/ \E n \in Conn : req[n].stage = "idle" /\ ~LoanLocked(l, n)
<1>2. ASSUME loans'[l].status = loans[l].status, loans'[l].archived = loans[l].archived PROVE Goal
  BY <1>2 DEF IsOut
<1>3. ASSUME NEW n \in Conn, SyncCommit(n) PROVE Goal
  <2>1. loans'[l] = loans[l] \/ loans'[l] = [loans[l] EXCEPT !.status = "overdue"]
    BY <1>3 DEF SyncCommit
  <2>2. /\ loans'[l].status = loans[l].status \/ loans'[l].status = "overdue"
        /\ loans'[l].archived = loans[l].archived
    BY <1>1, <2>1 DEF Row
  <2> QED
    BY <2>2 DEF IsOut
<1>4. ASSUME NEW n \in Conn, PayCommit(n) \/ AdjustCommit(n) \/ ReverseCommit(n) PROVE Goal
  <2>1. PICK type, items, sign, reverses : Post(type, items, sign, reverses)
    BY <1>4 DEF PayCommit, AdjustCommit, ReverseCommit
  <2>2. PICK s : loans'[l] = [loans[l] EXCEPT !.settled = s]
    BY <2>1 DEF Post
  <2> QED
    BY <1>1, <1>2, <2>2 DEF Row
<1>5. ASSUME NEW n \in Conn, NEW k \in Loan, Return(n, k) PROVE Goal
  <2>1. CASE k # l
    BY <1>1, <1>2, <1>5, <2>1 DEF Return
  <2>2. CASE k = l
    <3>1. req[n].stage = "idle" /\ ~LoanLocked(l, n)
      BY <1>5, <2>2 DEF Return
    <3>2. loans'[l].status = "returned"
      BY <1>1, <1>5, <2>2 DEF Return, Row
    <3> QED
      BY <3>1, <3>2
  <2> QED
    BY <2>1, <2>2
<1>6. ASSUME NEW n \in Conn, RenewCommit(n) PROVE Goal
  <2>1. \/ loans'[l] = loans[l]
        \/ loans'[l].status = "borrowed" /\ loans'[l].archived = loans[l].archived
    BY <1>1, <1>6 DEF RenewCommit, Row
  <2> QED
    BY <1>2, <2>1 DEF IsOut
<1>7. ASSUME NEW n \in Conn, NEW k \in Loan, Borrow(n, k) PROVE Goal
  <2>1. CASE k # l
    BY <1>1, <1>2, <1>7, <2>1 DEF Borrow
  <2>2. CASE k = l
    BY <1>1, <1>7, <2>2 DEF Borrow, Row, IsOut
  <2> QED
    BY <2>1, <2>2
<1>8. ASSUME NEW n \in Conn, NEW k \in Loan, ArchiveLoan(n, k) \/ RestoreLoan(n, k) PROVE Goal
  <2>1. CASE k # l
    BY <1>1, <1>2, <1>8, <2>1 DEF ArchiveLoan, RestoreLoan
  <2>2. CASE k = l
    BY <1>1, <1>8, <2>2 DEF ArchiveLoan, RestoreLoan, Row, IsOut
  <2> QED
    BY <2>1, <2>2
<1>9. ASSUME UNCHANGED loans PROVE Goal
  BY <1>2, <1>9
<1> HIDE DEF Goal
<1>10. Goal
  <2>1. ASSUME NEW n \in Conn,
               \/ Abort(n) \/ \E kind \in SyncKinds : SyncOpen(n, kind)
               \/ \E k \in Loan : RenewOpen(n, k) \/ AdjustOpen(n, k)
               \/ \E u \in Patron : PayOpen(n, u) \/ ArchivePatron(n, u) \/ RestorePatron(n, u) \/ SummaryOpen(n, u)
               \/ SummaryCommit(n)
               \/ \E t \in 1 .. Len(txs) : ReverseOpen(n, t)
               \/ \E r \in Rate : UpdateSettings(n, r)
        PROVE  Goal
    BY <1>9, <2>1 DEF Abort, SyncOpen, RenewOpen, AdjustOpen, PayOpen, ArchivePatron, RestorePatron,
      SummaryOpen, SummaryCommit, ReverseOpen, UpdateSettings
  <2>2. CASE Tick
    BY <1>9, <2>2 DEF Tick
  <2> QED
    BY <1>3, <1>4, <1>5, <1>6, <1>7, <1>8, <2>1, <2>2 DEF Next
<1> QED
  BY <1>10 DEF Goal

(* What a request has read or locked is so when it does, and stays so for  *)
(* all but what is stale.                                                  *)
LEMMA ReadsStep ==
  ASSUME ChargesInv, Next PROVE \A n \in Conn : Listed(n)' /\ Renewing(n)'
<1> DEFINE Good(n) == Listed(n)' /\ Renewing(n)'
<1>1. req \in [Conn -> Request] /\ TypeOK /\ LocksHeld
  BY DEF ChargesInv, LedgerInv, TypeOK
<1>2. stale \subseteq stale'
  <2>1. ASSUME NEW n \in Conn,
               \/ Abort(n) \/ SyncCommit(n) \/ PayCommit(n) \/ AdjustCommit(n) \/ ReverseCommit(n)
               \/ RenewCommit(n) \/ \E kind \in SyncKinds : SyncOpen(n, kind)
        PROVE  stale \subseteq stale'
    BY <2>1 DEF Abort, SyncCommit, PayCommit, AdjustCommit, ReverseCommit, RenewCommit, SyncOpen
  <2>2. ASSUME NEW n \in Conn, NEW l \in Loan,
               \/ Borrow(n, l) \/ Return(n, l) \/ RenewOpen(n, l) \/ AdjustOpen(n, l)
               \/ ArchiveLoan(n, l) \/ RestoreLoan(n, l)
        PROVE  stale \subseteq stale'
    BY <2>2 DEF Borrow, Return, RenewOpen, AdjustOpen, ArchiveLoan, RestoreLoan
  <2>3. ASSUME NEW n \in Conn,
               \/ \E u \in Patron : \/ PayOpen(n, u) \/ ArchivePatron(n, u) \/ RestorePatron(n, u)
                                    \/ SummaryOpen(n, u)
               \/ SummaryCommit(n)
               \/ \E t \in 1 .. Len(txs) : ReverseOpen(n, t)
               \/ \E r \in Rate : UpdateSettings(n, r)
        PROVE  stale \subseteq stale'
    BY <2>3 DEF PayOpen, ArchivePatron, RestorePatron, SummaryOpen, SummaryCommit, ReverseOpen,
      UpdateSettings
  <2>4. CASE Tick
    BY <2>4 DEF Tick
  <2> QED
    BY <2>1, <2>2, <2>3, <2>4 DEF Next
<1>14. rate' = rate \/ \A m \in Conn : req[m].stage # "marking"
  <2>1. ASSUME NEW n \in Conn,
               \/ Abort(n) \/ SyncCommit(n) \/ PayCommit(n) \/ AdjustCommit(n) \/ ReverseCommit(n)
               \/ RenewCommit(n) \/ SummaryCommit(n) \/ \E kind \in SyncKinds : SyncOpen(n, kind)
        PROVE  rate' = rate
    BY <2>1 DEF Abort, SyncCommit, PayCommit, AdjustCommit, ReverseCommit, RenewCommit, SummaryCommit,
      SyncOpen
  <2>2. ASSUME NEW n \in Conn, NEW l \in Loan,
               \/ Borrow(n, l) \/ Return(n, l) \/ RenewOpen(n, l) \/ AdjustOpen(n, l)
               \/ ArchiveLoan(n, l) \/ RestoreLoan(n, l)
        PROVE  rate' = rate
    BY <2>2 DEF Borrow, Return, RenewOpen, AdjustOpen, ArchiveLoan, RestoreLoan
  <2>3. ASSUME NEW n \in Conn,
               \/ \E u \in Patron : \/ PayOpen(n, u) \/ ArchivePatron(n, u) \/ RestorePatron(n, u)
                                    \/ SummaryOpen(n, u)
               \/ \E t \in 1 .. Len(txs) : ReverseOpen(n, t)
        PROVE  rate' = rate
    BY <2>3 DEF PayOpen, ArchivePatron, RestorePatron, SummaryOpen, ReverseOpen
  <2>4. ASSUME NEW n \in Conn, NEW r \in Rate, UpdateSettings(n, r)
        PROVE  \A m \in Conn : req[m].stage # "marking"
    BY <2>4 DEF UpdateSettings, SettingsLocked
  <2>5. CASE Tick
    BY <2>5 DEF Tick
  <2> QED
    BY <2>1, <2>2, <2>3, <2>4, <2>5 DEF Next
<1>3. ASSUME NEW m \in Conn, req'[m] = req[m] PROVE Good(m)
  <2>1. Listed(m)'
    <3>1. req[m].ids \subseteq Loan
      BY <1>1 DEF Request
    <3>2. \A l \in Loan : loans[l].status # "none" => loans'[l].status # "none"
      BY StatusStep
    <3> QED
      BY <1>2, <1>3, <1>14, <3>1, <3>2 DEF ChargesInv, Listed
  <2>2. Renewing(m)'
    <3> SUFFICES ASSUME At(m, "open", "renew") PROVE req[m].loan \in Loan /\ IsOut(loans'[req[m].loan])
      BY <1>3 DEF Renewing, At, IsOut
    <3>1. req[m].loan \in Loan /\ IsOut(loans[req[m].loan])
      BY DEF ChargesInv, Renewing
    <3>2. \A n \in Conn : req[n].stage = "idle" => LoanLocked(req[m].loan, n)
      BY DEF At, LoanLocked
    <3> QED
      BY <3>1, <3>2, StatusStep
  <2> QED
    BY <2>1, <2>2
<1>4. ASSUME NEW n \in Conn, OthersKeep(n), Good(n) PROVE \A m \in Conn : Good(m)
  BY <1>3, <1>4 DEF OthersKeep
<1>5. ASSUME NEW n \in Conn, req'[n].stage # "marking", At(n, "open", "renew")' => Renewing(n)' PROVE Good(n)
  BY <1>5 DEF Listed, Renewing
<1>6. ASSUME Tick PROVE \A m \in Conn : Good(m)
  BY <1>3, <1>6 DEF Tick
<1>7. ASSUME NEW n \in Conn,
             \/ Abort(n) \/ PayCommit(n) \/ AdjustCommit(n) \/ ReverseCommit(n) \/ RenewCommit(n)
             \/ SummaryCommit(n)
      PROVE  \A m \in Conn : Good(m)
  <2>1. req'[n] = Idle /\ OthersKeep(n)
    BY <1>1, <1>7 DEF Abort, PayCommit, AdjustCommit, ReverseCommit, RenewCommit, SummaryCommit, Finish,
      OthersKeep
  <2>2. req'[n].stage = "idle"
    BY <2>1 DEF Idle
  <2> HIDE DEF Good
  <2> QED
    BY <1>4, <1>5, <2>1, <2>2 DEF At
<1>8. ASSUME NEW n \in Conn, SyncCommit(n) PROVE \A m \in Conn : Good(m)
  <2>1. OthersKeep(n) /\ req'[n].stage # "open"
    BY <1>1, <1>8, ReleasesAll
  <2>2. req'[n].stage # "marking"
    <3>1. CASE req[n].kind = "sweep"
      BY <1>1, <1>8, <3>1 DEF SyncCommit, Finish, Idle
    <3>2. CASE req[n].kind # "sweep"
      <4>1. req' = [req EXCEPT ![n] = [Idle EXCEPT !.stage = "begin", !.kind = req[n].kind]]
        BY <1>8, <3>2 DEF SyncCommit
      <4> QED
        BY <1>1, <4>1 DEF Idle
    <3> QED
      BY <3>1, <3>2
  <2> HIDE DEF Good
  <2> QED
    BY <1>4, <1>5, <2>1, <2>2 DEF At
<1>9. ASSUME NEW n \in Conn, NEW kind \in SyncKinds, SyncOpen(n, kind) PROVE \A m \in Conn : Good(m)
  <2>1. OthersKeep(n) /\ req'[n].stage # "open"
    BY <1>1, <1>9, ReleasesAll
  <2>2. /\ req'[n].ids = {l \in Loan : IsOut(loans[l])} /\ loans' = loans /\ stale' = stale
        /\ req'[n].rate = rate'
        /\ \A l \in req'[n].ids : req'[n].rows[l].returned = loans[l].returned
    BY <1>1, <1>9 DEF SyncOpen, Idle
  <2>3. ASSUME NEW l \in req'[n].ids \ stale' PROVE req'[n].rows[l].returned = NotReturned /\ loans'[l].status # "none"
    <3>1. Running(l)
      BY <2>2, <2>3, OutRuns DEF ChargesInv
    <3> QED
      BY <2>2, <2>3, <3>1 DEF Running, IsOut
  <2>4. Good(n)
    BY <2>1, <2>2, <2>3 DEF Listed, Renewing, At
  <2> HIDE DEF Good
  <2> QED
    BY <1>4, <2>1, <2>4
<1>15. ASSUME NEW n \in Conn, NEW u \in Patron, SummaryOpen(n, u) PROVE \A m \in Conn : Good(m)
  <2>1. OthersKeep(n) /\ req'[n].stage # "open"
    BY <1>1, <1>15, ReleasesAll
  <2>2. req'[n].stage # "marking"
    BY <1>1, <1>15 DEF SummaryOpen, Idle
  <2> HIDE DEF Good
  <2> QED
    BY <1>4, <1>5, <2>1, <2>2 DEF At
<1>10. ASSUME NEW n \in Conn, NEW l \in Loan, RenewOpen(n, l) \/ AdjustOpen(n, l)
      PROVE  \A m \in Conn : Good(m)
  <2>1. /\ OthersKeep(n) /\ req'[n].stage = "open" /\ req'[n].loan = l
        /\ AdjustOpen(n, l) => req'[n].kind = "adjust"
    BY <1>1, <1>10, LoanOpens
  <2>2. loans' = loans /\ (RenewOpen(n, l) => IsOut(loans[l]))
    BY <1>10 DEF RenewOpen, AdjustOpen
  <2>3. Good(n)
    BY <1>5, <1>10, <2>1, <2>2 DEF Renewing, At, IsOut
  <2> HIDE DEF Good
  <2> QED
    BY <1>4, <2>1, <2>3
<1>11. ASSUME NEW n \in Conn,
              \/ \E u \in Patron : PayOpen(n, u)
              \/ \E t \in 1 .. Len(txs) : ReverseOpen(n, t)
       PROVE  \A m \in Conn : Good(m)
  <2>1. OthersKeep(n) /\ req'[n].stage = "open" /\ req'[n].kind # "renew"
    BY <1>1, <1>11, PayOpens, ReverseOpens
  <2> HIDE DEF Good
  <2> QED
    BY <1>4, <1>5, <2>1 DEF At
<1>12. ASSUME NEW n \in Conn,
              \/ \E l \in Loan : Borrow(n, l) \/ Return(n, l) \/ ArchiveLoan(n, l) \/ RestoreLoan(n, l)
              \/ \E u \in Patron : ArchivePatron(n, u) \/ RestorePatron(n, u)
              \/ \E r \in Rate : UpdateSettings(n, r)
       PROVE  \A m \in Conn : Good(m)
  <2>1. req' = req
    BY <1>12 DEF Borrow, Return, ArchiveLoan, RestoreLoan, ArchivePatron, RestorePatron, UpdateSettings
  <2> HIDE DEF Good
  <2> QED
    BY <1>3, <2>1
<1> HIDE DEF Good
<1>13. \A n \in Conn : Good(n)
  BY <1>6, <1>7, <1>8, <1>9, <1>10, <1>11, <1>12, <1>15 DEF Next
<1> QED
  BY <1>13 DEF Good

LEMMA ChargesInit == Init => ChargesInv
<1> SUFFICES ASSUME Init PROVE ChargesInv
  OBVIOUS
<1>1. \A l \in Loan : Tracked(l)
  BY DEF Init, NoneLent, Nothing, Tracked, NeverLent
<1>2. DepartedSettled
  BY DEF Init, DepartedSettled
<1>3. \A n \in Conn : Listed(n) /\ Renewing(n)
  BY DEF Init, Idle, Listed, Renewing, At
<1> QED
  BY <1>1, <1>2, <1>3, LedgerInit DEF ChargesInv

LEMMA ChargesNext == ChargesInv /\ [Next]_vars => ChargesInv'
<1> SUFFICES ASSUME ChargesInv, [Next]_vars PROVE ChargesInv'
  OBVIOUS
<1>1. LedgerInv'
  BY LedgerNext DEF ChargesInv
<1>2. CASE Next
  BY <1>1, <1>2, TrackedStep, ReadsStep, DepartedStep DEF ChargesInv
<1>3. CASE UNCHANGED vars
  <2>1. UNCHANGED <<loans, accounts, credit, departed, rate, now, req, owed, stale, misrated>>
    BY <1>3 DEF vars, ledger
  <2>2. \A l \in Loan \ stale' : Tracked(l)'
    BY <2>1, KeptTracked DEF ChargesInv, TermsKept
  <2>3. DepartedSettled'
    BY <2>1, OutKept
  <2>4. \A n \in Conn : Listed(n)' /\ Renewing(n)'
    BY <2>1 DEF ChargesInv, Listed, Renewing, At, IsOut
  <2> QED
    BY <1>1, <2>2, <2>3, <2>4 DEF ChargesInv
<1> QED
  BY <1>2, <1>3

(* However sweeps, summaries, renewals, returns and changes of the         *)
(* library's rate overlap, a loan is charged at most what its terms add up *)
(* to, and that when it is returned, unless a sweep wrote to it by a row   *)
(* that was no longer so, or a summary assessed it at a rate that was no   *)
(* longer the library's.  Every other assessment is by the row and the     *)
(* rate as they are, a sweep's because it keeps the settings row, and adds *)
(* what the terms add beyond the point the account was last measured from. *)
THEOREM ChargesFollowTerms == Spec => []ChargesMatchTerms
<1>1. ChargesInv => ChargesMatchTerms
  <2> SUFFICES ASSUME ChargesInv, NEW l \in Loan \ stale, l \notin misrated
               PROVE  /\ accounts[l].charged <= owed[l]
                      /\ loans[l].status = "returned" => accounts[l].charged = owed[l]
    BY DEF ChargesMatchTerms
  <2>1. Tracked(l) /\ owed[l] \in Nat /\ accounts[l] \in Account
    BY ChargesTypes DEF ChargesInv
  <2>2. CASE NeverLent(l)
    BY <2>2 DEF NeverLent, NoCharge
  <2>3. CASE Running(l)
    <3>1. loans[l].status # "returned"
      BY <2>3 DEF Running, IsOut
    <3>2. Fits(l, accounts[l], loans[l].due, RateOf(l, rate), now, owed[l])
      BY <2>3 DEF Running
    <3>3. Fine(l, now - loans[l].due, RateOf(l, rate)) \in Nat
      <4>1. now - loans[l].due \in Int /\ RateOf(l, rate) \in Nat
        BY ChargesTypes
      <4> QED
        BY <4>1, FineType
    <3>4. accounts[l].charged <= owed[l]
      BY <2>1, <3>2, <3>3 DEF Fits, Account
    <3> QED
      BY <3>1, <3>4
  <2>4. CASE Closed(l)
    BY <2>1, <2>4 DEF Closed
  <2> QED
    BY <2>1, <2>2, <2>3, <2>4 DEF Tracked
<1> QED
  BY <1>1, ChargesInit, ChargesNext, PTL DEF Spec

(* An archived patron owes nothing, whatever was paid, corrected, reopened *)
(* and archived before and however it overlapped, but for a loan that a    *)
(* stale sweep wrote to: what else could charge or reopen a loan asks for  *)
(* one that is out or for an active account.                               *)
THEOREM ArchivedStaySettled == Spec => []ArchivedPatronOwesNothing
<1>1. ChargesInv => ArchivedPatronOwesNothing
  BY DEF ChargesInv, DepartedSettled, ArchivedPatronOwesNothing
<1> QED
  BY <1>1, ChargesInit, ChargesNext, PTL DEF Spec

=============================================================================
