------------------------ MODULE PaymentsBalanceProofs ------------------------
(***************************************************************************)
(* The transactions collection explains the balances, for any users,       *)
(* wallets, requests and amounts.  The inductive invariant says it at      *)
(* every moment and under every fault: what is owed to a wallet is its     *)
(* opening balance, the recharges applied to it, its rows, and the debits  *)
(* and credits that are applied and have no row yet.                       *)
(***************************************************************************)
EXTENDS PaymentsLedgerProofs, Sums

USE UsersAssumption, RequestsAssumption, MoneyAssumption

\* The recharges applied to w; the confirmations that took from w, or gave to w,
\* and have no row about it.
Applied(w)  == {r \in Recharges : receipt[r].new > 0 /\ terms[r].payee = w}
Debited(w)  == {h \in Confirms : moved[h] # "nothing" /\ ~HasDebit(h) /\ Payer(h) = w}
Credited(w) == {h \in Confirms : moved[h] = "both" /\ ~HasCredit(h) /\ Payee(h) = w}

RechargeAmounts == [r \in Recharges |-> terms[r].amount]
OrderAmounts    == [h \in Confirms |-> Amount(h)]

Topups(w)  == Total(RechargeAmounts, Applied(w))
Credits(w) == SumOf(RowsOf(w, "recharge")) + Total(OrderAmounts, Credited(w))
Debits(w)  == SumOf(RowsOf(w, "payment")) + Total(OrderAmounts, Debited(w))

\* Only finitely many requests have started, so that there is something to sum.
Started == {h \in Requests : pc[h] # "new"}
Finite  == IsFiniteSet(Started) /\ IsFiniteSet(ledger)
\* The money moves for stored sessions, and a handler writes each row once.
Ordered(h) ==
  /\ moved[h] # "nothing" =>
       pc[h] # "new" /\ target[h] \in Creates /\ status[target[h]] # "none"
  /\ pc[h] = "logDebit" => ~HasDebit(h)
  /\ pc[h] \in {"logDebit", "logCredit"} => ~HasCredit(h)
\* A recharge is applied once, by its last step.
Topup(r) ==
  /\ pc[r] = "new" => terms[r].payee = None
  /\ pc[r] # "done" => receipt[r].new = 0
  /\ receipt[r].new > 0 => terms[r].payee \in Wallets
  /\ Faults \subseteq {"slow"} /\ pc[r] = "done" /\ terms[r].payee # None
       => receipt[r].new > 0
Tidy == Finite /\ (\A h \in Confirms : Ordered(h)) /\ (\A r \in Recharges : Topup(r))

Explained == \A w \in Wallets : owed[w] = Start[w] + Topups(w) + Credits(w) - Debits(w)

-----------------------------------------------------------------------------
(***************************************************************************)
(* Sums of rows.                                                           *)
(***************************************************************************)
RowAmounts(rows) == [row \in rows |-> row.amount]

LEMMA SumOfTotal ==
  ASSUME NEW rows, IsFiniteSet(rows)
  PROVE  SumOf(rows) = Total(RowAmounts(rows), rows)
<1> DEFINE RowSums(sum) ==
             sum = [s \in SUBSET rows |->
                      IF s = {} THEN 0 ELSE Pick(s).amount + sum[s \ {Pick(s)}]]
<1>1. SumOf(rows) = (CHOOSE sum : RowSums(sum))[rows]
  BY DEF SumOf, MapThenSumSet, MapThenFoldSet, Pick
<1>2. \A s \in SUBSET rows : s # {} => RowAmounts(rows)[Pick(s)] = Pick(s).amount
  BY DEF Pick, RowAmounts
<1>3. \A sum : RowSums(sum) <=> Sums(sum, RowAmounts(rows), rows)
  BY <1>2 DEF Sums
<1>4. PICK total : Sums(total, RowAmounts(rows), rows) /\ Total(RowAmounts(rows), rows) = total[rows]
  BY TotalDef
<1>5. PICK sum : RowSums(sum) /\ SumOf(rows) = sum[rows]
  <2> HIDE DEF RowSums
  <2> QED BY <1>1, <1>3, <1>4
<1>6. sum[rows] = total[rows]
  <2>1. Sums(sum, RowAmounts(rows), rows)
    BY <1>3, <1>5
  <2> QED BY <1>4, <2>1, SumsAgree
<1> QED BY <1>4, <1>5, <1>6

LEMMA SumOfInt ==
  ASSUME NEW rows, IsFiniteSet(rows), \A row \in rows : row.amount \in Int
  PROVE  SumOf(rows) \in Int
BY SumOfTotal, TotalInt DEF RowAmounts

LEMMA SumOfAdd ==
  ASSUME NEW rows, IsFiniteSet(rows), \A row \in rows : row.amount \in Int,
         NEW new, new \notin rows, new.amount \in Int
  PROVE  SumOf(rows \cup {new}) = SumOf(rows) + new.amount
<1>1. IsFiniteSet(rows \cup {new})
  BY FS_AddElement
<1>2. Total(RowAmounts(rows \cup {new}), rows \cup {new})
        = Total(RowAmounts(rows), rows) + RowAmounts(rows \cup {new})[new]
  BY TotalJoin DEF RowAmounts
<1> QED BY <1>1, <1>2, SumOfTotal DEF RowAmounts

-----------------------------------------------------------------------------
(***************************************************************************)
(* Tidy is kept.                                                           *)
(***************************************************************************)
\* A step starts one request at most.
LEMMA StartedStep ==
  ASSUME IInv, [Next]_vars, IsFiniteSet(Started)
  PROVE  IsFiniteSet(Started')
<1> USE DEF db, locals, history
<1>a. pc \in [Requests -> CreateSteps \cup ConfirmSteps \cup RechargeSteps]
  BY DEF IInv, TypeOK, ControlOK
<1>1. ASSUME NEW h \in Requests, NEW step, pc' = [pc EXCEPT ![h] = step]
      PROVE  IsFiniteSet(Started')
  <2>1. Started' \in SUBSET (Started \cup {h})
    BY <1>a, <1>1 DEF Started
  <2> QED BY <2>1, FS_AddElement, FS_Subset
<1>2. ASSUME pc' = pc PROVE IsFiniteSet(Started')
  BY <1>2 DEF Started
<1>3. ASSUME NEW s \in Creates, CreateStep(s) PROVE IsFiniteSet(Started')
  <2>1. \E step : pc' = [pc EXCEPT ![s] = step]
    BY <1>3 DEF CreateStep, RequestPayment, SendPayment, Open, InsertSession, SendOtpEmail,
       Refuse, Goto, Reply, ReplyLost
  <2> QED BY <1>1, <2>1 DEF Requests
<1>4. ASSUME NEW h \in Confirms, ConfirmStep(h) PROVE IsFiniteSet(Started')
  <2>1. \E step : pc' = [pc EXCEPT ![h] = step]
    BY <1>4 DEF ConfirmStep, ReadSession, CheckSession, MarkExpired, ReadSource, ReadDest,
       WriteSource, WriteDest, LogDebit, LogCredit, MarkConfirmed, Refuse, Goto, Reply, ReplyLost
  <2> QED BY <1>1, <2>1 DEF Requests
<1>5. ASSUME NEW r \in Recharges, RechargeStep(r) PROVE IsFiniteSet(Started')
  <2>1. \E step : pc' = [pc EXCEPT ![r] = step]
    BY <1>5 DEF RechargeStep, Recharge, IncrementBalance, Refuse, Goto, Reply, ReplyLost
  <2> QED BY <1>1, <2>1 DEF Requests
<1>6. ASSUME NEW h \in Requests, DbError(h) PROVE IsFiniteSet(Started')
  <2>1. \E step : pc' = [pc EXCEPT ![h] = step]
    BY <1>6 DEF DbError, Reply
  <2> QED BY <1>1, <2>1
<1>7. ASSUME Crash PROVE IsFiniteSet(Started')
  <2>1. Started' = Started
    BY <1>a, <1>7 DEF Crash, Started, Running
  <2> QED BY <2>1
<1>8. ASSUME (\E h \in Requests : Timeout(h)) \/ (\E s \in Creates : PassExpiry(s)) \/ UNCHANGED vars
      PROVE  IsFiniteSet(Started')
  BY <1>2, <1>8 DEF Timeout, PassExpiry, vars
<1> QED BY <1>3, <1>4, <1>5, <1>6, <1>7, <1>8 DEF Next, Idle

\* A step adds one row at most.
LEMMA LedgerFiniteStep ==
  ASSUME IInv, [Next]_vars, IsFiniteSet(ledger) PROVE IsFiniteSet(ledger')
BY WhoWrites, FS_AddElement DEF LogDebit, LogCredit

\* A step is a step of recharge r, or changes at most how r is answered.
LEMMA RechargeStepOrNone ==
  ASSUME IInv, [Next]_vars, NEW r \in Recharges
  PROVE  \/ RechargeStep(r) \/ DbError(r)
         \/ /\ \/ pc'[r] = pc[r]
               \/ pc[r] # "new" /\ pc'[r] = "done" /\ "crash" \in Faults
            /\ terms'[r] = terms[r] /\ receipt'[r] = receipt[r]
<1> USE DEF db, locals, history
<1>a. /\ pc \in [Requests -> CreateSteps \cup ConfirmSteps \cup RechargeSteps]
      /\ terms \in [Creates \cup Recharges -> Terms]
      /\ receipt \in [Recharges -> [previous : Int, new : Int]]
      /\ r \in Requests /\ r \notin Creates /\ r \notin Confirms
  BY DEF IInv, TypeOK, ControlOK, Requests
<1>1. ASSUME NEW s \in Creates, CreateStep(s) \/ PassExpiry(s)
      PROVE  pc'[r] = pc[r] /\ terms'[r] = terms[r] /\ receipt' = receipt
  BY <1>a, <1>1 DEF CreateStep, RequestPayment, SendPayment, Open, InsertSession,
     SendOtpEmail, PassExpiry, Refuse, Goto, Reply, ReplyLost
<1>2. ASSUME NEW h \in Confirms, ConfirmStep(h)
      PROVE  pc'[r] = pc[r] /\ terms' = terms /\ receipt' = receipt
  BY <1>a, <1>2 DEF ConfirmStep, ReadSession, CheckSession, MarkExpired, ReadSource, ReadDest,
     WriteSource, WriteDest, LogDebit, LogCredit, MarkConfirmed, Refuse, Goto, Reply, ReplyLost
<1>3. ASSUME NEW q \in Recharges, q # r, RechargeStep(q)
      PROVE  pc'[r] = pc[r] /\ terms'[r] = terms[r] /\ receipt'[r] = receipt[r]
  BY <1>a, <1>3 DEF RechargeStep, Recharge, IncrementBalance, Refuse, Goto, Reply, ReplyLost
<1>4. ASSUME NEW h \in Requests, h # r, DbError(h)
      PROVE  pc'[r] = pc[r] /\ terms' = terms /\ receipt' = receipt
  BY <1>a, <1>4 DEF DbError, Reply
<1>5. ASSUME (\E h \in Requests : Timeout(h)) \/ UNCHANGED vars
      PROVE  pc' = pc /\ terms' = terms /\ receipt' = receipt
  BY <1>5 DEF Timeout, vars
<1>6. ASSUME Crash
      PROVE  /\ pc'[r] = pc[r] \/ (pc[r] # "new" /\ pc'[r] = "done" /\ "crash" \in Faults)
             /\ terms' = terms /\ receipt' = receipt
  BY <1>a, <1>6 DEF Crash, Running
<1> QED BY <1>1, <1>2, <1>3, <1>4, <1>5, <1>6 DEF Next, Idle

LEMMA TopupStep ==
  ASSUME IInv, [Next]_vars, NEW r \in Recharges, Topup(r) PROVE Topup(r)'
<1> USE DEF db, locals, history
<1>a. /\ pc \in [Requests -> CreateSteps \cup ConfirmSteps \cup RechargeSteps]
      /\ terms \in [Creates \cup Recharges -> Terms]
      /\ receipt \in [Recharges -> [previous : Int, new : Int]]
      /\ r \in Requests /\ pc[r] \in RechargeSteps
  BY DEF IInv, TypeOK, ControlOK, Requests
<1>1. CASE Recharge(r)
  <2>1. /\ receipt'[r].new = receipt[r].new /\ pc[r] = "new"
        /\ \/ pc'[r] = "done" /\ terms'[r] = terms[r]
           \/ pc'[r] = "inc"
    BY <1>a, <1>1 DEF Recharge, Refuse, Goto, Reply
  <2> QED BY <2>1 DEF Topup
<1>2. CASE IncrementBalance(r)
  <2>1. receipt'[r].new = Topped(r) /\ terms'[r] = terms[r] /\ pc'[r] = "done" /\ pc[r] = "inc"
    BY <1>a, <1>2 DEF IncrementBalance, Reply, ReplyLost
  <2>2. Topped(r) > 0 /\ terms[r].payee \in Wallets
    BY <2>1 DEF Topped, IInv, RechargesValid, NonNegative, TypeOK, Terms
  <2> QED BY <2>1, <2>2 DEF Topup
<1>3. CASE DbError(r)
  BY <1>a, <1>3 DEF DbError, Reply, Topup
<1>4. CASE /\ pc'[r] = pc[r] \/ (pc[r] # "new" /\ pc'[r] = "done" /\ "crash" \in Faults)
           /\ terms'[r] = terms[r] /\ receipt'[r] = receipt[r]
  BY <1>4 DEF Topup
<1> QED BY <1>1, <1>2, <1>3, <1>4, RechargeStepOrNone DEF RechargeStep

\* Once money has moved for a session, its confirmation and terms stand.
LEMMA OrderStands ==
  ASSUME IInv, [Next]_vars, NEW h \in Confirms, Ordered(h), moved[h] # "nothing"
  PROVE  /\ target'[h] = target[h]
         /\ Payer(h)' = Payer(h) /\ Payee(h)' = Payee(h) /\ Amount(h)' = Amount(h)
         /\ Payer(h) \in Wallets /\ Payee(h) \in Wallets /\ Amount(h) \in Int
<1>1. pc[h] # "new" /\ target[h] \in Creates /\ status[target[h]] # "none"
  BY DEF Ordered
<1>2. pc[target[h]] # "new" /\ GoodTerms(terms[target[h]]) /\ terms[target[h]].amount \in Int
  BY <1>1 DEF IInv, SessionsValid, TypeOK, Terms
<1> QED BY <1>1, <1>2, StableTarget, StableSession DEF Payer, Payee, Amount, GoodTerms

LEMMA OrderedStep ==
  ASSUME IInv, StageInv, TrailInv, [Next]_vars, NEW h \in Confirms, Ordered(h)
  PROVE  Ordered(h)'
<1> USE DEF db, locals, history
<1>a. /\ pc \in [Requests -> CreateSteps \cup ConfirmSteps \cup RechargeSteps]
      /\ moved \in [Confirms -> {"nothing", "debited", "both"}] /\ h \in Requests
  BY DEF IInv, TypeOK, ControlOK, Requests
<1>1. CASE LeftAlone(h)
  <2>1. moved[h] # "nothing" => status'[target'[h]] # "none" /\ target'[h] \in Creates
    BY <1>1, StoredStays DEF LeftAlone, Ordered
  <2> QED BY <1>1, <2>1 DEF LeftAlone, Ordered
<1>2. CASE DbError(h)
  BY <1>a, <1>2, RowsSame DEF DbError, Reply, Ordered
<1>3. CASE \/ ReadSession(h) \/ CheckSession(h) \/ MarkExpired(h) \/ ReadSource(h)
           \/ ReadDest(h)
  <2>1. moved'[h] = "nothing" /\ pc'[h] \notin {"logDebit", "logCredit"}
    BY <1>a, <1>3 DEF ReadSession, CheckSession, MarkExpired, ReadSource, ReadDest,
       Refuse, Goto, Reply, StageInv, Stage
  <2> QED BY <2>1 DEF Ordered
<1>4. CASE WriteSource(h) \/ WriteDest(h)
  <2>1. /\ UNCHANGED <<status, target, ledger>> /\ pc'[h] \in {"writeDest", "logDebit", "done"}
        /\ moved[h] # "both" /\ pc[h] \notin {"new", "done"}
    BY <1>a, <1>4 DEF WriteSource, WriteDest, Goto, Reply, ReplyLost, StageInv, Stage
  <2>2. ~HasDebit(h)' /\ ~HasCredit(h)'
    BY <2>1, RowsSame DEF TrailInv, Trail, Booked
  <2> QED BY <2>1, <2>2 DEF Ordered, IInv, TargetsStored
<1>5. CASE LogDebit(h)
  <2>1. /\ UNCHANGED <<status, target, moved>> /\ pc'[h] \in {"logCredit", "done"}
        /\ ledger' = ledger \cup {DebitRow(h)} /\ pc[h] = "logDebit"
    BY <1>a, <1>5 DEF LogDebit, Goto, Reply, ReplyLost
  <2>2. ~HasCredit(h)'
    BY <2>1 DEF Ordered, HasCredit, DebitRow
  <2> QED BY <2>1, <2>2 DEF Ordered
<1>6. CASE LogCredit(h)
  <2>1. /\ UNCHANGED <<status, target, moved>> /\ pc'[h] \in {"markConfirmed", "done"}
        /\ pc[h] = "logCredit"
    BY <1>a, <1>6 DEF LogCredit, Goto, Reply, ReplyLost
  <2> QED BY <2>1 DEF Ordered
<1>7. CASE MarkConfirmed(h)
  <2>1. UNCHANGED <<target, moved>> /\ pc'[h] = "done" /\ pc[h] = "markConfirmed"
    BY <1>a, <1>7 DEF MarkConfirmed, Reply
  <2> QED BY <2>1, StoredStays DEF Ordered
<1> QED BY <1>1, <1>2, <1>3, <1>4, <1>5, <1>6, <1>7, OwnStepOrNone DEF ConfirmStep

LEMMA NextTidy == IInv /\ StageInv /\ TrailInv /\ Tidy /\ [Next]_vars => Tidy'
BY StartedStep, LedgerFiniteStep, TopupStep, OrderedStep DEF Tidy, Finite

-----------------------------------------------------------------------------
(***************************************************************************)
(* What a step does to the sums of a wallet.                               *)
(***************************************************************************)
Base == IInv /\ StageInv /\ TrailInv /\ PaperInv /\ Tidy

\* The sums are over finite sets, and of integers.
LEMMA Summable ==
  ASSUME Base, NEW w \in Wallets
  PROVE  /\ IsFiniteSet(Applied(w)) /\ \A r \in Applied(w) : RechargeAmounts[r] \in Int
         /\ IsFiniteSet(Debited(w)) /\ \A h \in Debited(w) : OrderAmounts[h] \in Int
         /\ IsFiniteSet(Credited(w)) /\ \A h \in Credited(w) : OrderAmounts[h] \in Int
         /\ \A type : /\ IsFiniteSet(RowsOf(w, type))
                      /\ \A row \in RowsOf(w, type) : row.amount \in Int
<1>1. \A r \in Recharges : r \in Requests /\ terms[r].amount \in Int
  BY DEF Base, IInv, TypeOK, Terms, Requests
<1>2. Applied(w) \in SUBSET Started
  BY <1>1 DEF Applied, Started, Base, Tidy, Topup
<1>3. \A h \in Confirms : moved[h] # "nothing" => h \in Started /\ Amount(h) \in Int
  BY DEF Base, Tidy, Ordered, Started, Requests, IInv, TypeOK, Terms, Amount
<1>4. Debited(w) \in SUBSET Started /\ Credited(w) \in SUBSET Started
  BY <1>3 DEF Debited, Credited
<1>5. \A type : RowsOf(w, type) \in SUBSET ledger
  BY DEF RowsOf
<1>6. \A row \in ledger : row.amount \in Int
  BY DEF Base, IInv, TypeOK, Rows
<1>7. \A r \in Applied(w) : RechargeAmounts[r] \in Int
  BY <1>1 DEF Applied, RechargeAmounts
<1>8. /\ \A h \in Debited(w) : OrderAmounts[h] \in Int
      /\ \A h \in Credited(w) : OrderAmounts[h] \in Int
  BY <1>3 DEF Debited, Credited, OrderAmounts
<1>9. IsFiniteSet(Started) /\ IsFiniteSet(ledger)
  BY DEF Base, Tidy, Finite
<1>10. IsFiniteSet(Applied(w)) /\ IsFiniteSet(Debited(w)) /\ IsFiniteSet(Credited(w))
  BY <1>2, <1>4, <1>9, FS_Subset
<1>11. \A type : IsFiniteSet(RowsOf(w, type))
  BY <1>5, <1>9, FS_Subset
<1> QED BY <1>5, <1>6, <1>7, <1>8, <1>10, <1>11

LEMMA SumsTyped ==
  ASSUME Base, NEW w \in Wallets
  PROVE  /\ owed[w] \in Int /\ Start[w] \in Int /\ Topups(w) \in Int
         /\ Credits(w) \in Int /\ Debits(w) \in Int
<1>1. Total(RechargeAmounts, Applied(w)) \in Int
  BY Summable, TotalInt
<1>2. Total(OrderAmounts, Debited(w)) \in Int /\ Total(OrderAmounts, Credited(w)) \in Int
  BY Summable, TotalInt
<1>3. SumOf(RowsOf(w, "recharge")) \in Int /\ SumOf(RowsOf(w, "payment")) \in Int
  BY Summable, SumOfInt
<1> QED BY <1>1, <1>2, <1>3 DEF Topups, Credits, Debits, Base, IInv, TypeOK

\* No recharge is applied.
LEMMA TopupsSame ==
  ASSUME Base, [Next]_vars, NEW w \in Wallets,
         \A r \in Recharges : receipt'[r].new = receipt[r].new
  PROVE  Topups(w)' = Topups(w)
<1>1. \A r \in Recharges : receipt[r].new > 0 => terms'[r] = terms[r]
  <2>1. ASSUME NEW r \in Recharges, receipt[r].new > 0 PROVE terms'[r] = terms[r]
    <3>1. pc[r] = "done"
      BY <2>1 DEF Base, Tidy, Topup
    <3> QED BY <3>1, RechargeStepOrNone
        DEF Base, RechargeStep, Recharge, IncrementBalance, DbError, locals
  <2> QED BY <2>1
<1>2. Applied(w)' = Applied(w)
  BY <1>1 DEF Applied
<1>3. \A r \in Applied(w) : RechargeAmounts'[r] = RechargeAmounts[r]
  BY <1>1 DEF Applied, RechargeAmounts
<1>4. Total(RechargeAmounts', Applied(w)) = Total(RechargeAmounts, Applied(w))
  BY <1>3, Summable, TotalSame
<1> QED BY <1>2, <1>4 DEF Topups

\* No money moves in a confirmation, and no row is written.
LEMMA PaymentsSame ==
  ASSUME Base, [Next]_vars, NEW w \in Wallets, UNCHANGED <<moved, ledger>>
  PROVE  Credits(w)' = Credits(w) /\ Debits(w)' = Debits(w)
<1>1. \A h \in Confirms : moved[h] # "nothing" =>
        Payer(h)' = Payer(h) /\ Payee(h)' = Payee(h) /\ Amount(h)' = Amount(h)
  BY OrderStands DEF Base, Tidy
<1>2. \A h \in Confirms : HasDebit(h)' = HasDebit(h) /\ HasCredit(h)' = HasCredit(h)
  BY RowsSame
<1>3. Credited(w)' = Credited(w) /\ Debited(w)' = Debited(w)
  BY <1>1, <1>2 DEF Credited, Debited
<1>4. /\ \A h \in Credited(w) : OrderAmounts'[h] = OrderAmounts[h]
      /\ \A h \in Debited(w) : OrderAmounts'[h] = OrderAmounts[h]
  BY <1>1 DEF Credited, Debited, OrderAmounts
<1>5. /\ Total(OrderAmounts', Credited(w)) = Total(OrderAmounts, Credited(w))
      /\ Total(OrderAmounts', Debited(w)) = Total(OrderAmounts, Debited(w))
  BY <1>4, Summable, TotalSame
<1>6. \A type : RowsOf(w, type)' = RowsOf(w, type)
  BY DEF RowsOf
<1> QED BY <1>3, <1>5, <1>6 DEF Credits, Debits

\* A recharge joins the recharges of its wallet when it is applied.
LEMMA IncrementTopups ==
  ASSUME Base, [Next]_vars, NEW r \in Recharges, IncrementBalance(r), NEW w \in Wallets
  PROVE  Topups(w)' = Topups(w) + (IF w = terms[r].payee THEN terms[r].amount ELSE 0)
<1>1. /\ receipt' = [receipt EXCEPT ![r].new = Topped(r)] /\ terms' = terms
      /\ receipt \in [Recharges -> [previous : Int, new : Int]]
      /\ receipt[r].new = 0
  BY DEF IncrementBalance, Base, IInv, TypeOK, Tidy, Topup
<1>2. Topped(r) \in Int /\ Topped(r) > 0
  BY DEF IncrementBalance, Topped, Base, IInv, RechargesValid, NonNegative, TypeOK, Terms
<1>3. /\ receipt'[r].new = Topped(r)
      /\ \A q \in Recharges \ {r} : receipt'[q].new = receipt[q].new
  BY <1>1
<1>4. RechargeAmounts' = RechargeAmounts /\ RechargeAmounts[r] = terms[r].amount
      /\ terms[r].amount \in Int
  BY <1>1 DEF RechargeAmounts, Base, IInv, TypeOK, Terms
<1>5. r \notin Applied(w)
  BY <1>1 DEF Applied
<1>6. CASE w = terms[r].payee
  <2>1. Applied(w)' = Applied(w) \cup {r}
    BY <1>1, <1>2, <1>3, <1>6 DEF Applied
  <2>2. Total(RechargeAmounts, Applied(w) \cup {r}) = Total(RechargeAmounts, Applied(w)) + RechargeAmounts[r]
    BY <1>4, <1>5, Summable, TotalJoin
  <2> QED BY <1>4, <1>6, <2>1, <2>2 DEF Topups
<1>7. CASE w # terms[r].payee
  <2>1. Applied(w)' = Applied(w)
    BY <1>1, <1>3, <1>7 DEF Applied
  <2> QED BY <1>4, <1>7, <2>1, SumsTyped DEF Topups
<1> QED BY <1>6, <1>7

\* What the four steps of a confirmation that move or book money do to the sums of
\* its orders: other confirmations stay where they are.
LEMMA OthersStay ==
  ASSUME Base, [Next]_vars, NEW h \in Confirms,
         WriteSource(h) \/ WriteDest(h) \/ LogDebit(h) \/ LogCredit(h)
  PROVE  /\ \A g \in Confirms \ {h} : /\ moved'[g] = moved[g]
                                      /\ HasDebit(g)' = HasDebit(g)
                                      /\ HasCredit(g)' = HasCredit(g)
         /\ \A g \in Confirms : Payer(g)' = Payer(g) /\ Payee(g)' = Payee(g)
         /\ OrderAmounts' = OrderAmounts /\ OrderAmounts[h] = Amount(h)
         /\ Payer(h) \in Wallets /\ Payee(h) \in Wallets /\ Amount(h) \in Int
<1>1. moved \in [Confirms -> {"nothing", "debited", "both"}]
  BY DEF Base, IInv, TypeOK
<1>2. \A g \in Confirms \ {h} : moved'[g] = moved[g]
  BY <1>1 DEF WriteSource, WriteDest, LogDebit, LogCredit, history
<1>3. \/ ledger' = ledger
      \/ ledger' = ledger \cup {DebitRow(h)} \/ ledger' = ledger \cup {CreditRow(h)}
  BY DEF WriteSource, WriteDest, LogDebit, LogCredit
<1>4. DebitRow(h).by = h /\ CreditRow(h).by = h
  BY DEF DebitRow, CreditRow
<1>5. \A g \in Confirms \ {h} : HasDebit(g)' = HasDebit(g) /\ HasCredit(g)' = HasCredit(g)
  BY <1>3, <1>4, RowsSame, RowsOfOthers
<1>6. UNCHANGED <<terms, target>>
  BY DEF WriteSource, WriteDest, LogDebit, LogCredit, locals
<1>7. pc[h] \notin {"new", "done"}
  BY DEF WriteSource, WriteDest, LogDebit, LogCredit
<1> QED BY <1>2, <1>5, <1>6, <1>7, AtWork DEF Base, Payer, Payee, Amount, OrderAmounts

LEMMA WriteSourceSums ==
  ASSUME Base, [Next]_vars, NEW h \in Confirms, WriteSource(h), NEW w \in Wallets
  PROVE  /\ Credits(w)' = Credits(w)
         /\ Debits(w)' = Debits(w) + (IF w = Payer(h) THEN Amount(h) ELSE 0)
<1>1. /\ moved[h] = "nothing" /\ moved'[h] = "debited" /\ ledger' = ledger
  BY DEF WriteSource, Base, StageInv, Stage, IInv, TypeOK
<1>2. /\ ~HasDebit(h)' /\ ~HasDebit(h) /\ \A type : RowsOf(w, type)' = RowsOf(w, type)
  BY <1>1, RowsSame DEF Base, TrailInv, Trail, Booked, RowsOf
<1>3. Credited(w)' = Credited(w) /\ h \notin Debited(w)
  BY <1>1, OthersStay DEF Credited, Debited
<1>4. CASE w = Payer(h)
  <2>1. Debited(w)' = Debited(w) \cup {h}
    BY <1>1, <1>2, <1>4, OthersStay DEF Debited
  <2>2. Total(OrderAmounts, Debited(w) \cup {h}) = Total(OrderAmounts, Debited(w)) + Amount(h)
        /\ Total(OrderAmounts, Debited(w)) \in Int
    <3>1. OrderAmounts[h] = Amount(h) /\ Amount(h) \in Int
      BY OthersStay
    <3> QED BY <1>3, <3>1, Summable, TotalJoin
  <2>3. SumOf(RowsOf(w, "payment")) \in Int
    BY Summable, SumOfInt
  <2> QED BY <1>2, <1>3, <1>4, <2>1, <2>2, <2>3, OthersStay DEF Credits, Debits
<1>5. CASE w # Payer(h)
  <2>1. Debited(w)' = Debited(w)
    BY <1>1, <1>5, OthersStay DEF Debited
  <2> QED BY <1>2, <1>3, <1>5, <2>1, OthersStay, SumsTyped DEF Credits, Debits
<1> QED BY <1>4, <1>5

LEMMA WriteDestSums ==
  ASSUME Base, [Next]_vars, NEW h \in Confirms, WriteDest(h), NEW w \in Wallets
  PROVE  /\ Debits(w)' = Debits(w)
         /\ Credits(w)' = Credits(w) + (IF w = Payee(h) THEN Amount(h) ELSE 0)
<1>1. /\ moved[h] = "debited" /\ moved'[h] = "both" /\ ledger' = ledger
  BY DEF WriteDest, Base, StageInv, Stage, IInv, TypeOK
<1>2. /\ HasDebit(h)' = HasDebit(h) /\ ~HasCredit(h)' /\ ~HasCredit(h)
      /\ \A type : RowsOf(w, type)' = RowsOf(w, type)
  BY <1>1, RowsSame DEF Base, TrailInv, Trail, Booked, RowsOf
<1>3. Debited(w)' = Debited(w) /\ h \notin Credited(w)
  BY <1>1, <1>2, OthersStay DEF Credited, Debited
<1>4. CASE w = Payee(h)
  <2>1. Credited(w)' = Credited(w) \cup {h}
    BY <1>1, <1>2, <1>4, OthersStay DEF Credited
  <2>2. Total(OrderAmounts, Credited(w) \cup {h}) = Total(OrderAmounts, Credited(w)) + Amount(h)
        /\ Total(OrderAmounts, Credited(w)) \in Int
    <3>1. OrderAmounts[h] = Amount(h) /\ Amount(h) \in Int
      BY OthersStay
    <3> QED BY <1>3, <3>1, Summable, TotalJoin
  <2>3. SumOf(RowsOf(w, "recharge")) \in Int
    BY Summable, SumOfInt
  <2> QED BY <1>2, <1>3, <1>4, <2>1, <2>2, <2>3, OthersStay DEF Credits, Debits
<1>5. CASE w # Payee(h)
  <2>1. Credited(w)' = Credited(w)
    BY <1>1, <1>5, OthersStay DEF Credited
  <2> QED BY <1>2, <1>3, <1>5, <2>1, OthersStay, SumsTyped DEF Credits, Debits
<1> QED BY <1>4, <1>5

\* A row takes over from the order it books.
LEMMA LogDebitSums ==
  ASSUME Base, [Next]_vars, NEW h \in Confirms, LogDebit(h), NEW w \in Wallets
  PROVE  Credits(w)' = Credits(w) /\ Debits(w)' = Debits(w)
<1>1. /\ moved[h] = "both" /\ moved' = moved /\ ledger' = ledger \cup {DebitRow(h)}
      /\ ~HasDebit(h)
  BY DEF LogDebit, Base, StageInv, Stage, Tidy, Ordered, history
<1>2. /\ DebitRow(h).type = "payment" /\ DebitRow(h).wallet = Payer(h)
      /\ DebitRow(h).amount = Amount(h) /\ DebitRow(h).by = h
  BY DEF DebitRow
<1>3. HasDebit(h)' /\ HasCredit(h)' = HasCredit(h) /\ DebitRow(h) \notin ledger
  BY <1>1, <1>2 DEF HasDebit, HasCredit
<1>4. Credited(w)' = Credited(w) /\ RowsOf(w, "recharge")' = RowsOf(w, "recharge")
  BY <1>1, <1>2, <1>3, OthersStay DEF Credited, RowsOf
<1>5. Debited(w)' = Debited(w) \ {h}
  BY <1>1, <1>3, OthersStay DEF Debited
<1>6. CASE w = Payer(h)
  <2>1. RowsOf(w, "payment")' = RowsOf(w, "payment") \cup {DebitRow(h)}
    BY <1>1, <1>2, <1>6 DEF RowsOf
  <2>2. DebitRow(h) \notin RowsOf(w, "payment") /\ h \in Debited(w)
    BY <1>1, <1>3, <1>6 DEF RowsOf, Debited
  <2>3. SumOf(RowsOf(w, "payment") \cup {DebitRow(h)}) = SumOf(RowsOf(w, "payment")) + Amount(h)
    BY <1>2, <2>2, OthersStay, Summable, SumOfAdd
  <2>4. Total(OrderAmounts, Debited(w) \ {h}) = Total(OrderAmounts, Debited(w)) - Amount(h)
        /\ Total(OrderAmounts, Debited(w)) \in Int
    BY <2>2, OthersStay, Summable, TotalLeave
  <2>5. SumOf(RowsOf(w, "payment")) \in Int
    BY Summable, SumOfInt
  <2>6. Debits(w)' = SumOf(RowsOf(w, "payment") \cup {DebitRow(h)})
                      + Total(OrderAmounts, Debited(w) \ {h})
    BY <1>5, <2>1, OthersStay DEF Debits
  <2>7. Amount(h) \in Int
    BY OthersStay
  <2>8. Debits(w)' = Debits(w)
    BY <2>3, <2>4, <2>5, <2>6, <2>7 DEF Debits
  <2> QED BY <1>4, <2>8, OthersStay DEF Credits
<1>7. CASE w # Payer(h)
  <2>1. RowsOf(w, "payment")' = RowsOf(w, "payment") /\ Debited(w)' = Debited(w)
    BY <1>1, <1>2, <1>5, <1>7 DEF RowsOf, Debited
  <2> QED BY <1>4, <2>1, OthersStay DEF Credits, Debits
<1> QED BY <1>6, <1>7

LEMMA LogCreditSums ==
  ASSUME Base, [Next]_vars, NEW h \in Confirms, LogCredit(h), NEW w \in Wallets
  PROVE  Credits(w)' = Credits(w) /\ Debits(w)' = Debits(w)
<1>1. /\ moved[h] = "both" /\ moved' = moved /\ ledger' = ledger \cup {CreditRow(h)}
      /\ ~HasCredit(h)
  BY DEF LogCredit, Base, StageInv, Stage, Tidy, Ordered, history
<1>2. /\ CreditRow(h).type = "recharge" /\ CreditRow(h).wallet = Payee(h)
      /\ CreditRow(h).amount = Amount(h) /\ CreditRow(h).by = h
  BY DEF CreditRow
<1>3. HasCredit(h)' /\ HasDebit(h)' = HasDebit(h) /\ CreditRow(h) \notin ledger
  BY <1>1, <1>2 DEF HasDebit, HasCredit
<1>4. Debited(w)' = Debited(w) /\ RowsOf(w, "payment")' = RowsOf(w, "payment")
  BY <1>1, <1>2, <1>3, OthersStay DEF Debited, RowsOf
<1>5. Credited(w)' = Credited(w) \ {h}
  BY <1>1, <1>3, OthersStay DEF Credited
<1>6. CASE w = Payee(h)
  <2>1. RowsOf(w, "recharge")' = RowsOf(w, "recharge") \cup {CreditRow(h)}
    BY <1>1, <1>2, <1>6 DEF RowsOf
  <2>2. CreditRow(h) \notin RowsOf(w, "recharge") /\ h \in Credited(w)
    BY <1>1, <1>3, <1>6 DEF RowsOf, Credited
  <2>3. SumOf(RowsOf(w, "recharge") \cup {CreditRow(h)})
          = SumOf(RowsOf(w, "recharge")) + Amount(h)
    BY <1>2, <2>2, OthersStay, Summable, SumOfAdd
  <2>4. Total(OrderAmounts, Credited(w) \ {h}) = Total(OrderAmounts, Credited(w)) - Amount(h)
        /\ Total(OrderAmounts, Credited(w)) \in Int
    BY <2>2, OthersStay, Summable, TotalLeave
  <2>5. SumOf(RowsOf(w, "recharge")) \in Int
    BY Summable, SumOfInt
  <2>6. Credits(w)' = SumOf(RowsOf(w, "recharge") \cup {CreditRow(h)})
                      + Total(OrderAmounts, Credited(w) \ {h})
    BY <1>5, <2>1, OthersStay DEF Credits
  <2>7. Amount(h) \in Int
    BY OthersStay
  <2>8. Credits(w)' = Credits(w)
    BY <2>3, <2>4, <2>5, <2>6, <2>7 DEF Credits
  <2> QED BY <1>4, <2>8, OthersStay DEF Debits
<1>7. CASE w # Payee(h)
  <2>1. RowsOf(w, "recharge")' = RowsOf(w, "recharge") /\ Credited(w)' = Credited(w)
    BY <1>1, <1>2, <1>5, <1>7 DEF RowsOf, Credited
  <2> QED BY <1>4, <2>1, OthersStay DEF Credits, Debits
<1> QED BY <1>6, <1>7

-----------------------------------------------------------------------------
(***************************************************************************)
(* The books explain what is owed.                                         *)
(***************************************************************************)
\* A step that moves no money and writes no row.
LEMMA ExplainedQuiet ==
  ASSUME Base, Explained, [Next]_vars, UNCHANGED <<owed, moved, ledger>>,
         \A r \in Recharges : receipt'[r].new = receipt[r].new
  PROVE  Explained'
BY TopupsSame, PaymentsSame DEF Explained

LEMMA NextExplained == Base /\ Explained /\ [Next]_vars => Explained'
<1> SUFFICES ASSUME Base, Explained, [Next]_vars PROVE Explained'
  OBVIOUS
<1> USE DEF db, locals, history
<1>a. /\ receipt \in [Recharges -> [previous : Int, new : Int]] /\ owed \in [Wallets -> Int]
  BY DEF Base, IInv, TypeOK
<1>1. ASSUME NEW s \in Creates, CreateStep(s) \/ PassExpiry(s) PROVE Explained'
  <2>1. UNCHANGED <<owed, moved, ledger, receipt>>
    BY <1>1 DEF CreateStep, RequestPayment, SendPayment, Open, InsertSession,
       SendOtpEmail, PassExpiry, Refuse
  <2> QED BY <2>1, ExplainedQuiet
<1>2. ASSUME NEW h \in Confirms,
             \/ ReadSession(h) \/ CheckSession(h) \/ MarkExpired(h)
             \/ ReadSource(h) \/ ReadDest(h) \/ MarkConfirmed(h)
      PROVE  Explained'
  <2>1. UNCHANGED <<owed, moved, ledger, receipt>>
    BY <1>2 DEF ReadSession, CheckSession, MarkExpired, ReadSource, ReadDest,
       MarkConfirmed, Refuse
  <2> QED BY <2>1, ExplainedQuiet
<1>3. ASSUME NEW h \in Confirms, WriteSource(h) PROVE Explained'
  <2>1. receipt' = receipt /\ Payer(h) \in Wallets /\ Amount(h) \in Int
        /\ owed' = [owed EXCEPT ![Payer(h)] = @ + (-Amount(h))]
    BY <1>3, OthersStay DEF WriteSource, Write
  <2>2. ASSUME NEW w \in Wallets
        PROVE  owed'[w] = Start[w] + Topups(w)' + Credits(w)' - Debits(w)'
    <3>1. owed'[w] = owed[w] - (IF w = Payer(h) THEN Amount(h) ELSE 0)
      BY <1>a, <2>1
    <3> QED BY <1>3, <2>1, <3>1, TopupsSame, WriteSourceSums, SumsTyped DEF Explained
  <2> QED BY <2>2 DEF Explained
<1>4. ASSUME NEW h \in Confirms, WriteDest(h) PROVE Explained'
  <2>1. receipt' = receipt /\ Payee(h) \in Wallets /\ Amount(h) \in Int
        /\ owed' = [owed EXCEPT ![Payee(h)] = @ + Amount(h)]
    BY <1>4, OthersStay DEF WriteDest, Write
  <2>2. ASSUME NEW w \in Wallets
        PROVE  owed'[w] = Start[w] + Topups(w)' + Credits(w)' - Debits(w)'
    <3>1. owed'[w] = owed[w] + (IF w = Payee(h) THEN Amount(h) ELSE 0)
      BY <1>a, <2>1
    <3> QED BY <1>4, <2>1, <3>1, TopupsSame, WriteDestSums, SumsTyped DEF Explained
  <2> QED BY <2>2 DEF Explained
<1>5. ASSUME NEW h \in Confirms, LogDebit(h) \/ LogCredit(h) PROVE Explained'
  <2>1. UNCHANGED <<owed, receipt>>
    BY <1>5 DEF LogDebit, LogCredit
  <2> QED BY <1>5, <2>1, TopupsSame, LogDebitSums, LogCreditSums DEF Explained
<1>6. ASSUME NEW r \in Recharges, Recharge(r) PROVE Explained'
  <2>1. UNCHANGED <<owed, moved, ledger>> /\ \A q \in Recharges : receipt'[q].new = receipt[q].new
    BY <1>a, <1>6 DEF Recharge, Refuse
  <2> QED BY <2>1, ExplainedQuiet
<1>7. ASSUME NEW r \in Recharges, IncrementBalance(r) PROVE Explained'
  <2>1. /\ UNCHANGED <<moved, ledger>> /\ terms[r].payee \in Wallets /\ terms[r].amount \in Int
        /\ owed' = [owed EXCEPT ![terms[r].payee] = @ + terms[r].amount]
    BY <1>7 DEF IncrementBalance, Write, Base, IInv, RechargesValid, TypeOK, Terms
  <2>2. ASSUME NEW w \in Wallets
        PROVE  owed'[w] = Start[w] + Topups(w)' + Credits(w)' - Debits(w)'
    <3>1. owed'[w] = owed[w] + (IF w = terms[r].payee THEN terms[r].amount ELSE 0)
      BY <1>a, <2>1
    <3> QED BY <1>7, <2>1, <3>1, PaymentsSame, IncrementTopups, SumsTyped DEF Explained
  <2> QED BY <2>2 DEF Explained
<1>8. ASSUME \/ \E h \in Requests : DbError(h) \/ Timeout(h)
             \/ Crash \/ UNCHANGED vars
      PROVE  Explained'
  <2>1. UNCHANGED <<owed, moved, ledger, receipt>>
    BY <1>8 DEF DbError, Timeout, Crash, vars
  <2> QED BY <2>1, ExplainedQuiet
<1> QED BY <1>1, <1>2, <1>3, <1>4, <1>5, <1>6, <1>7, <1>8
        DEF Next, ConfirmStep, RechargeStep, Idle

LEMMA InitTidy == Init => Tidy
<1> SUFFICES ASSUME Init PROVE Tidy
  OBVIOUS
<1>1. Started = {} /\ ledger = {}
  BY DEF Init, Started
<1>2. Finite
  BY <1>1, FS_EmptySet DEF Finite
<1>3. \A h \in Confirms : Ordered(h)
  BY DEF Init, Ordered, Requests
<1>4. \A r \in Recharges : Topup(r)
  BY DEF Init, Topup, Requests
<1> QED BY <1>2, <1>3, <1>4 DEF Tidy

LEMMA InitExplained == Init => Explained
<1> SUFFICES ASSUME Init, NEW w \in Wallets
             PROVE  owed[w] = Start[w] + Topups(w) + Credits(w) - Debits(w)
  BY DEF Explained
<1>1. Applied(w) = {} /\ Debited(w) = {} /\ Credited(w) = {}
  BY DEF Init, Applied, Debited, Credited
<1>2. \A type : RowsOf(w, type) = {}
  BY DEF Init, RowsOf
<1>3. SumOf({}) = 0
  BY SumOfTotal, TotalEmpty, FS_EmptySet
<1>4. Total(RechargeAmounts, {}) = 0 /\ Total(OrderAmounts, {}) = 0
  BY TotalEmpty
<1>5. Topups(w) = 0 /\ Credits(w) = 0 /\ Debits(w) = 0
  BY <1>1, <1>2, <1>3, <1>4 DEF Topups, Credits, Debits
<1> QED BY <1>5 DEF Init

\* At every moment and under every fault, what is owed to a wallet is explained by
\* its opening balance, the recharges applied, its rows, and the money that is on
\* its way to a row.
LEMMA ExplainedAlways == Spec => [](Base /\ AInv /\ Explained)
<1>1. Init => StageInv
  BY InitRefines
<1>2. Init => Base /\ AInv /\ Explained
  BY <1>1, InitIInv, InitTrail, InitPaper, InitTidy, InitExplained, InitAInv DEF Base
<1>3. Base /\ AInv /\ Explained /\ [Next]_vars => Base' /\ AInv' /\ Explained'
  BY NextIInv, NextStageInv, NextTrail, NextPaper, NextTidy, NextExplained, NextAInv DEF Base
<1> QED BY <1>2, <1>3, PTL DEF Spec

\* Whatever fails, what the applied operations owe to a wallet can be told from its
\* rows and from the confirmations that have not booked what they moved.
THEOREM OwedExplained == Spec => []Explained
BY ExplainedAlways, PTL

\* Once all is done without faults, nothing is on its way.
LEMMA NothingOnItsWay ==
  ASSUME Base, Faults \subseteq {"slow"}, AllDone, NEW w \in Wallets
  PROVE  /\ Debited(w) = {} /\ Credited(w) = {}
         /\ Applied(w) = {r \in Recharges : terms[r].payee = w}
<1>1. \A h \in Confirms : Whole(h) /\ pc[h] = "done"
  BY DEF Base, TrailInv, Trail, AllDone, Requests
<1>2. \A r \in Recharges : terms[r].payee = w => receipt[r].new > 0
  BY DEF Base, Tidy, Topup, AllDone, Requests
<1> QED BY <1>1, <1>2 DEF Whole, Debited, Credited, Applied

LEMMA RechargedTotal ==
  ASSUME NEW w, IsFiniteSet({r \in Recharges : terms[r].payee = w})
  PROVE  Recharged(w) = Total(RechargeAmounts, {r \in Recharges : terms[r].payee = w})
<1> DEFINE S == {r \in Recharges : terms[r].payee = w}
           AmountSums(sum) ==
             sum = [s \in SUBSET S |->
                      IF s = {} THEN 0 ELSE terms[Pick(s)].amount + sum[s \ {Pick(s)}]]
<1>1. Recharged(w) = (CHOOSE sum : AmountSums(sum))[S]
  BY DEF Recharged, MapThenSumSet, MapThenFoldSet, Pick
<1>2. \A s \in SUBSET S : s # {} => RechargeAmounts[Pick(s)] = terms[Pick(s)].amount
  BY DEF Pick, RechargeAmounts
<1>3. \A sum : AmountSums(sum) <=> Sums(sum, RechargeAmounts, S)
  BY <1>2 DEF Sums
<1>4. PICK total : Sums(total, RechargeAmounts, S) /\ Total(RechargeAmounts, S) = total[S]
  BY TotalDef
<1>5. PICK sum : AmountSums(sum) /\ Recharged(w) = sum[S]
  <2> HIDE DEF AmountSums
  <2> QED BY <1>1, <1>3, <1>4
<1>6. sum[S] = total[S]
  <2>1. Sums(sum, RechargeAmounts, S)
    BY <1>3, <1>5
  <2> QED BY <1>4, <2>1, SumsAgree
<1> QED BY <1>4, <1>5, <1>6

\* Without database errors and crashes, when all is done the transactions collection
\* explains the balance of every wallet that nobody wrote under a snapshot.
THEOREM BalancesExplained == Spec => []LedgerExplains
<1>1. Base /\ AInv /\ Explained => LedgerExplains
  <2> SUFFICES ASSUME Base, AInv, Explained, Faults \subseteq {"slow"}, AllDone,
                      NEW w \in Wallets \ mixed
               PROVE  balance[w] = Start[w] + Recharged(w)
                        + SumOf(RowsOf(w, "recharge")) - SumOf(RowsOf(w, "payment"))
    BY DEF LedgerExplains
  <2>1. /\ Debited(w) = {} /\ Credited(w) = {}
        /\ Applied(w) = {r \in Recharges : terms[r].payee = w}
    BY NothingOnItsWay
  <2>2. Recharged(w) = Topups(w)
    BY <2>1, Summable, RechargedTotal DEF Topups
  <2>3. /\ Credits(w) = SumOf(RowsOf(w, "recharge")) /\ Debits(w) = SumOf(RowsOf(w, "payment"))
    BY <2>1, Summable, SumOfInt, TotalEmpty DEF Credits, Debits
  <2>4. balance[w] = owed[w]
    BY DEF AInv, Accounted
  <2> QED BY <2>2, <2>3, <2>4 DEF Explained
<1> QED BY <1>1, ExplainedAlways, PTL
=============================================================================
