--------------------------- MODULE PaymentsProofs ---------------------------
(***************************************************************************)
(* Proofs about Payments, for any users, wallets, requests and amounts.    *)
(***************************************************************************)
EXTENDS Payments, TLAPS

-----------------------------------------------------------------------------
(***************************************************************************)
(* The inductive invariant behind TypeOK and NonNegative.                  *)
(***************************************************************************)
GoodTerms(t) ==
  /\ t.payer \in Wallets /\ t.payee \in Wallets /\ t.payer # t.payee
  /\ t.amount > 0

\* A session that is about to be stored, or stored, has valid terms.
SessionsValid ==
  \A s \in Creates :
    /\ pc[s] \in {"new", "insert"} => status[s] = "none"
    /\ pc[s] = "insert" \/ status[s] # "none" => GoodTerms(terms[s])

\* A confirmation at work has found a stored session.
TargetsStored ==
  \A h \in Confirms :
    pc[h] \notin {"new", "done"} =>
      target[h] \in Creates /\ status[target[h]] # "none"

RechargesValid ==
  \A r \in Recharges :
    pc[r] = "inc" => terms[r].payee \in Wallets /\ terms[r].amount > 0

\* The balances a confirmation will write are not negative.
SnapshotsCover ==
  \A h \in Confirms :
    /\ pc[h] \in {"readDest", "writeSource"} => read[h].source >= Amount(h)
    /\ pc[h] \in {"writeSource", "writeDest"} => read[h].dest >= 0

IInv ==
  /\ TypeOK /\ NonNegative
  /\ SessionsValid /\ TargetsStored /\ RechargesValid /\ SnapshotsCover

USE UsersAssumption, RequestsAssumption, MoneyAssumption

\* It holds initially.
LEMMA InitIInv == Init => IInv
BY DEF Init, IInv, TypeOK, ControlOK, NonNegative, SessionsValid, TargetsStored,
       RechargesValid, SnapshotsCover, Requests, CreateSteps, ConfirmSteps,
       RechargeSteps, Answers, Statuses, Terms

\* A handler that goes on to a step of its kind, or ends, keeps its control state typed.
LEMMA GotoControl ==
  ASSUME ControlOK, NEW h \in Requests, NEW step, Goto(h, step),
         h \in Creates => step \in CreateSteps,
         h \in Confirms => step \in ConfirmSteps,
         h \in Recharges => step \in RechargeSteps
  PROVE  ControlOK'
BY DEF ControlOK, Goto, Requests

LEMMA ReplyControl ==
  ASSUME ControlOK, NEW h \in Requests, NEW a \in Answers, Reply(h, a)
  PROVE  ControlOK'
BY DEF ControlOK, Reply, Requests, CreateSteps, ConfirmSteps, RechargeSteps

\* A refusal changes nothing but the handler that ends.
LEMMA RefuseStep ==
  ASSUME IInv, NEW h \in Requests, Refuse(h), ControlOK'
  PROVE  IInv'
<1> USE DEF IInv, db, locals, history
<1>1. TypeOK' /\ NonNegative' /\ SessionsValid' /\ TargetsStored'
  BY DEF Refuse, Reply, TypeOK, NonNegative, SessionsValid, TargetsStored,
     ControlOK, Requests
<1>2. RechargesValid' /\ SnapshotsCover'
  BY DEF Refuse, Reply, TypeOK, ControlOK, RechargesValid, SnapshotsCover,
     Amount, Requests
<1> QED BY <1>1, <1>2

\* requestPayment and sendPayment from the lookup of the payee on: only a session
\* with valid terms goes on to the insert, and no confirmation has found it yet.
LEMMA OpenStep ==
  ASSUME IInv, NEW s \in Creates, pc[s] = "new", NEW u \in Users, NEW v \in Users,
         NEW a \in Amounts, Open(s, u, v, a), ControlOK'
  PROVE  IInv'
<1> USE DEF IInv, db, locals, history
<1>1. CASE ~Payable(u, v, a)
  BY <1>1, RefuseStep DEF Open, Requests
<1>2. CASE Payable(u, v, a)
  <2>1. terms' = [terms EXCEPT ![s] = [payer |-> u, payee |-> v, amount |-> a]]
        /\ [payer |-> u, payee |-> v, amount |-> a] \in Terms
        /\ GoodTerms([payer |-> u, payee |-> v, amount |-> a])
    BY <1>2 DEF Open, Payable, Terms, GoodTerms
  <2>2. TypeOK'
    BY <1>2, <2>1 DEF Open, TypeOK
  <2>3. NonNegative' /\ SessionsValid' /\ TargetsStored' /\ RechargesValid'
    BY <1>2, <2>1, <2>2 DEF Open, Goto, TypeOK, ControlOK, NonNegative,
       SessionsValid, TargetsStored,
     RechargesValid, Requests
  <2>4. \A h \in Confirms : pc'[h] = pc[h] 
        /\ (pc[h] \notin {"new", "done"} => target[h] # s)
    BY <1>2 DEF Open, Goto, TypeOK, ControlOK, SessionsValid, TargetsStored,
       Requests
  <2>5. \A h \in Confirms :
          pc'[h] \in {"readDest", "writeSource", "writeDest"} => Amount(h)' = Amount(h)
    BY <1>2, <2>1, <2>4 DEF Open, TypeOK, Amount, TargetsStored
  <2>6. SnapshotsCover'
    BY <1>2, <2>4, <2>5 DEF Open, SnapshotsCover
  <2> QED BY <2>2, <2>3, <2>6
<1> QED BY <1>1, <1>2

\* The three steps whose type correctness needs a fact about a record or a wallet.
LEMMA ReadDestTyped ==
  ASSUME IInv, ControlOK', NEW h \in Confirms, ReadDest(h) PROVE TypeOK'
<1>1. balance[Payee(h)] \in Int
  BY DEF IInv, ReadDest, TargetsStored, SessionsValid, GoodTerms, TypeOK, Payee
<1>2. read' \in [Confirms -> [source : Int, dest : Int]]
  BY <1>1 DEF IInv, TypeOK, ReadDest
<1> QED BY <1>2 DEF IInv, TypeOK, ReadDest, db, locals, history

\* A balance write keeps the types, and no wallet overdrawn if the new balance is not.
LEMMA WriteTyped ==
  ASSUME TypeOK, NEW h \in Requests, NEW w \in Wallets, NEW to \in Int,
         NEW change \in Int, Write(h, w, to, change)
  PROVE /\ balance' \in [Wallets -> Int] /\ owed' \in [Wallets -> Int]
        /\ mixed' \subseteq Wallets
        /\ NonNegative /\ to >= 0 => NonNegative'
BY DEF TypeOK, Write, NonNegative

LEMMA RechargeTyped ==
  ASSUME IInv, ControlOK', NEW r \in Recharges, Recharge(r) PROVE TypeOK'
<1>1. CASE Refuse(r)
  BY <1>1 DEF IInv, Refuse, TypeOK, db, locals, history
<1>2. PICK u \in Users, a \in Amounts :
        \/ Refuse(r)
        \/ /\ u \in Wallets /\ a > 0
          /\ terms' = [terms EXCEPT ![r] =
                         [payer |-> None, payee |-> u, amount |-> a]]
          /\ receipt' = [receipt EXCEPT ![r].previous = balance[u]]
          /\ Goto(r, "inc")
          /\ UNCHANGED <<db, overdue, target, read, history>>
  BY DEF Recharge
<1>3. [payer |-> None, payee |-> u, amount |-> a] \in Terms
  BY DEF Terms
<1>4. CASE ~Refuse(r)
  <2>1. terms' \in [Creates \cup Recharges -> Terms]
    BY <1>2, <1>3, <1>4 DEF IInv, TypeOK
  <2>2. receipt' \in [Recharges -> [previous : Int, new : Int]]
    BY <1>2, <1>4 DEF IInv, TypeOK
  <2> QED BY <1>2, <1>4, <2>1, <2>2 DEF IInv, TypeOK, db, history
<1> QED BY <1>1, <1>4

LEMMA RechargeSnapshots ==
  ASSUME IInv, NEW r \in Recharges, Recharge(r) PROVE SnapshotsCover'
<1>1. /\ \A h \in Confirms : pc'[h] = pc[h]
      /\ \A s \in Creates : terms'[s] = terms[s]
      /\ UNCHANGED <<target, read>>
  BY DEF Recharge, Goto, Refuse, Reply, locals, IInv, TypeOK, ControlOK, Requests
<1> QED BY <1>1 DEF IInv, SnapshotsCover, Amount, TargetsStored

LEMMA IncrementTyped ==
  ASSUME IInv, ControlOK', NEW r \in Recharges, IncrementBalance(r)
  PROVE  TypeOK' /\ NonNegative'
<1>1. /\ terms[r].payee \in Wallets /\ terms[r].amount \in Int /\ terms[r].amount > 0
      /\ balance[terms[r].payee] \in Int /\ balance[terms[r].payee] >= 0
  BY DEF IncrementBalance, IInv, RechargesValid, TypeOK, NonNegative, Terms
<1>2. Topped(r) \in Int /\ Topped(r) >= 0
  BY <1>1 DEF Topped
<1>3. r \in Requests /\ Write(r, terms[r].payee, Topped(r), terms[r].amount)
  BY DEF IncrementBalance, Requests
<1>4. /\ NonNegative' /\ balance' \in [Wallets -> Int] /\ owed' \in [Wallets -> Int]
      /\ mixed' \subseteq Wallets
  BY <1>1, <1>2, <1>3, WriteTyped DEF IInv
<1> QED BY <1>2, <1>4 DEF IncrementBalance, IInv, TypeOK

\* What a confirmation at work may rely on.
LEMMA AtWork ==
  ASSUME IInv, NEW h \in Confirms, pc[h] \notin {"new", "done"}
  PROVE  /\ h \in Requests /\ target[h] \in Creates
         /\ Payer(h) \in Wallets /\ Payee(h) \in Wallets /\ Payer(h) # Payee(h)
         /\ Amount(h) \in Int /\ Amount(h) > 0
         /\ read[h].source \in Int /\ read[h].dest \in Int
BY DEF IInv, TypeOK, Terms, TargetsStored, SessionsValid, GoodTerms, Payer,
       Payee, Amount, Requests

\* The two writes: the snapshots cover what they write.
LEMMA WriteSourceBalance ==
  ASSUME IInv, NEW h \in Confirms, WriteSource(h) PROVE NonNegative'
<1>1. pc[h] = "writeSource" /\ Write(h, Payer(h), SourceAfter(h), -Amount(h))
  BY DEF WriteSource
<1>2. SourceAfter(h) \in Int /\ SourceAfter(h) >= 0 /\ -Amount(h) \in Int
  BY <1>1, AtWork DEF SourceAfter, IInv, SnapshotsCover
<1> QED BY <1>1, <1>2, AtWork, WriteTyped DEF IInv

LEMMA WriteDestBalance ==
  ASSUME IInv, ControlOK', NEW h \in Confirms, WriteDest(h)
  PROVE  TypeOK' /\ NonNegative'
<1>1. /\ pc[h] = "writeDest"
      /\ Write(h, Payee(h), read[h].dest + Amount(h), Amount(h))
  BY DEF WriteDest
<1>2. read[h].dest + Amount(h) \in Int /\ read[h].dest + Amount(h) >= 0
  BY <1>1, AtWork DEF IInv, SnapshotsCover
<1>3. /\ balance' \in [Wallets -> Int] /\ owed' \in [Wallets -> Int]
      /\ mixed' \subseteq Wallets /\ NonNegative'
  BY <1>1, <1>2, AtWork, WriteTyped DEF IInv
<1> QED BY <1>3 DEF WriteDest, IInv, TypeOK, locals

\* A step of a confirmation concerns no session at its creation and no recharge.
LEMMA ConfirmKeeps ==
  ASSUME ControlOK, SessionsValid, RechargesValid, NEW h \in Confirms, NEW step,
         pc' = [pc EXCEPT ![h] = step], UNCHANGED <<status, terms>>
  PROVE  SessionsValid' /\ RechargesValid'
<1>1. \A g \in Creates \cup Recharges : pc'[g] = pc[g]
  BY DEF ControlOK, Requests
<1>2. SessionsValid'
  BY <1>1 DEF SessionsValid
<1>3. RechargesValid'
  BY <1>1 DEF RechargesValid
<1> QED BY <1>2, <1>3

\* Every step keeps the inductive invariant.
LEMMA NextIInv == IInv /\ [Next]_vars => IInv'
<1> SUFFICES ASSUME IInv, [Next]_vars PROVE IInv'
  OBVIOUS
<1> USE DEF db, locals, history
<1>a. TypeOK /\ ControlOK /\ NonNegative /\ SessionsValid /\ TargetsStored
      /\ RechargesValid /\ SnapshotsCover
  BY DEF IInv, TypeOK
<1>1. ASSUME NEW s \in Creates, InsertSession(s) PROVE IInv'
  <2>1. s \in Requests
    BY DEF Requests
  <2>2. ControlOK'
    BY <1>a, <1>1, <2>1, GotoControl, ReplyControl
    DEF InsertSession, ReplyLost, CreateSteps, Answers
  <2>3. TypeOK'
    BY <1>a, <1>1, <2>2 DEF InsertSession, TypeOK, Statuses
  <2>4. NonNegative' /\ SessionsValid' /\ TargetsStored'
        /\ RechargesValid' /\ SnapshotsCover'
    <3>1. \A g \in Confirms \cup Recharges : pc'[g] = pc[g]
      BY <1>a, <1>1, <2>1 DEF InsertSession, ReplyLost, ControlOK, Goto, Reply, Requests
    <3>2. NonNegative' /\ RechargesValid' /\ SnapshotsCover'
      BY <1>a, <1>1, <3>1 DEF InsertSession, NonNegative, RechargesValid,
         SnapshotsCover, Amount
    <3>3. TargetsStored'
      BY <1>a, <1>1, <3>1 DEF InsertSession, TypeOK, TargetsStored
    <3>4. SessionsValid'
      BY <1>a, <1>1, <2>1 DEF InsertSession, ReplyLost, TypeOK, ControlOK, Goto, Reply,
         SessionsValid, Requests
    <3> QED BY <3>2, <3>3, <3>4
  <2> QED BY <2>3, <2>4 DEF IInv
<1>2. ASSUME NEW s \in Creates, SendOtpEmail(s) PROVE IInv'
  <2>1. s \in Requests
    BY DEF Requests
  <2>2. ControlOK'
    BY <1>a, <1>2, <2>1, GotoControl, ReplyControl
    DEF SendOtpEmail, CreateSteps, Answers
  <2>3. TypeOK'
    BY <1>a, <1>2, <2>2 DEF SendOtpEmail, TypeOK
  <2>4. NonNegative' /\ SessionsValid' /\ TargetsStored'
        /\ RechargesValid' /\ SnapshotsCover'
    BY <1>a, <1>2, <2>1 DEF SendOtpEmail, TypeOK, ControlOK, Goto, Reply,
       NonNegative, SessionsValid, TargetsStored, RechargesValid,
       SnapshotsCover, Requests, Payer, Payee, Amount
  <2> QED BY <2>3, <2>4 DEF IInv
<1>3. ASSUME NEW h \in Confirms, ReadSession(h) PROVE IInv'
  <2>1. h \in Requests
    BY DEF Requests
  <2>2. ControlOK'
    BY <1>a, <1>3, <2>1, GotoControl, ReplyControl
    DEF ReadSession, Confirmable, Refuse, ConfirmSteps, Answers
  <2>3. TypeOK'
    BY <1>a, <1>3, <2>2 DEF ReadSession, TypeOK, Refuse
  <2>4. NonNegative'
    BY <1>a, <1>3 DEF ReadSession, Confirmable, Refuse, TypeOK, NonNegative,
       TargetsStored, SessionsValid, SnapshotsCover, Payer, Amount
  <2>5. SessionsValid' /\ TargetsStored' /\ RechargesValid'
    <3>1. UNCHANGED <<status, terms>> /\ \E step : pc' = [pc EXCEPT ![h] = step]
      BY <1>3 DEF ReadSession, Refuse, Goto, Reply
    <3>2. SessionsValid' /\ RechargesValid'
      BY <1>a, <3>1, ConfirmKeeps
    <3>3. TargetsStored'
      BY <1>a, <1>3, <2>1 DEF ReadSession, Confirmable, Refuse, TypeOK, ControlOK,
         Goto, Reply, TargetsStored, Requests
    <3> QED BY <3>2, <3>3
  <2>6. SnapshotsCover'
    BY <1>a, <1>3, <2>1 DEF ReadSession, Confirmable, Refuse, TypeOK, ControlOK,
       Goto, Reply,
       NonNegative, SessionsValid, TargetsStored, SnapshotsCover, GoodTerms,
       Requests, Payer, Payee, Amount
  <2> QED BY <2>3, <2>4, <2>5, <2>6 DEF IInv
<1>4. ASSUME NEW h \in Confirms, CheckSession(h) PROVE IInv'
  <2>1. h \in Requests
    BY DEF Requests
  <2>2. ControlOK'
    BY <1>a, <1>4, <2>1, GotoControl, ReplyControl
    DEF CheckSession, ConfirmSteps, Answers
  <2>3. TypeOK'
    BY <1>a, <1>4, <2>2 DEF CheckSession, TypeOK
  <2>4. NonNegative' /\ SessionsValid' /\ TargetsStored'
        /\ RechargesValid' /\ SnapshotsCover'
    BY <1>a, <1>4, <2>1 DEF CheckSession, TypeOK, ControlOK, Goto, Reply,
       NonNegative, SessionsValid, TargetsStored, RechargesValid,
       SnapshotsCover, Requests, Payer, Payee, Amount
  <2> QED BY <2>3, <2>4 DEF IInv
<1>5. ASSUME NEW h \in Confirms, MarkExpired(h) PROVE IInv'
  <2>1. h \in Requests
    BY DEF Requests
  <2>2. ControlOK'
    BY <1>a, <1>5, <2>1, GotoControl, ReplyControl
    DEF MarkExpired, ConfirmSteps, Answers
  <2>3. TypeOK'
    BY <1>a, <1>5, <2>2 DEF MarkExpired, TypeOK, Statuses, TargetsStored
  <2>4. NonNegative' /\ SessionsValid' /\ TargetsStored'
        /\ RechargesValid' /\ SnapshotsCover'
    BY <1>a, <1>5, <2>1 DEF MarkExpired, TypeOK, ControlOK, Goto, Reply,
       NonNegative, SessionsValid, TargetsStored, RechargesValid,
       SnapshotsCover, Requests, Payer, Payee, Amount
  <2> QED BY <2>3, <2>4 DEF IInv
<1>6. ASSUME NEW h \in Confirms, ReadSource(h) PROVE IInv'
  <2>1. h \in Requests
    BY DEF Requests
  <2>2. ControlOK'
    BY <1>a, <1>6, <2>1, GotoControl, ReplyControl
    DEF ReadSource, Refuse, ConfirmSteps, Answers
  <2>3. TypeOK'
    BY <1>a, <1>6, <2>2 DEF ReadSource, TypeOK, Refuse, TargetsStored,
       SessionsValid, GoodTerms, Payer
  <2>4. NonNegative'
    BY <1>a, <1>6 DEF ReadSource, Refuse, Covered, TypeOK, NonNegative,
       TargetsStored, SessionsValid, SnapshotsCover, Payer, Amount
  <2>5. SessionsValid' /\ TargetsStored' /\ RechargesValid'
    <3>1. UNCHANGED <<status, terms>> /\ \E step : pc' = [pc EXCEPT ![h] = step]
      BY <1>6 DEF ReadSource, Refuse, Goto, Reply
    <3>2. SessionsValid' /\ RechargesValid'
      BY <1>a, <3>1, ConfirmKeeps
    <3>3. TargetsStored'
      BY <1>a, <1>6, <2>1 DEF ReadSource, Refuse, ControlOK, Goto, Reply,
         TargetsStored, Requests
    <3> QED BY <3>2, <3>3
  <2>6. SnapshotsCover'
    BY <1>a, <1>6, <2>1 DEF ReadSource, Refuse, Covered, TypeOK, ControlOK,
       Goto, Reply,
       NonNegative, SessionsValid, TargetsStored, SnapshotsCover, GoodTerms,
       Requests, Payer, Payee, Amount
  <2> QED BY <2>3, <2>4, <2>5, <2>6 DEF IInv
<1>7. ASSUME NEW h \in Confirms, ReadDest(h) PROVE IInv'
  <2>1. h \in Requests
    BY DEF Requests
  <2>2. ControlOK'
    BY <1>a, <1>7, <2>1, GotoControl, ReplyControl
    DEF ReadDest, ConfirmSteps, Answers
  <2>3. TypeOK'
    BY <1>7, <2>2, ReadDestTyped
  <2>4. NonNegative'
    BY <1>a, <1>7 DEF ReadDest, TypeOK, NonNegative,
       TargetsStored, SessionsValid, SnapshotsCover, Payer, Amount
  <2>5. SessionsValid' /\ TargetsStored' /\ RechargesValid'
    BY <1>a, <1>7, <2>1 DEF ReadDest, TypeOK, ControlOK, Goto, Reply,
       SessionsValid, TargetsStored, RechargesValid, Requests
  <2>6. SnapshotsCover'
    BY <1>a, <1>7, <2>1 DEF ReadDest, TypeOK, ControlOK, Goto, Reply,
       NonNegative, SessionsValid, TargetsStored, SnapshotsCover, GoodTerms,
       Requests, Payer, Payee, Amount
  <2> QED BY <2>3, <2>4, <2>5, <2>6 DEF IInv
<1>8. ASSUME NEW h \in Confirms, WriteSource(h) PROVE IInv'
  <2>1. h \in Requests
    BY DEF Requests
  <2>2. ControlOK'
    BY <1>a, <1>8, <2>1, GotoControl, ReplyControl
    DEF WriteSource, ReplyLost, ConfirmSteps, Answers
  <2>3. TypeOK'
    BY <1>a, <1>8, <2>2 DEF WriteSource, TypeOK, SourceAfter, Write,
       TargetsStored, SessionsValid, GoodTerms, Payer, Amount, Terms
  <2>4. NonNegative'
    BY <1>8, WriteSourceBalance
  <2>5. SessionsValid' /\ TargetsStored' /\ RechargesValid'
    <3>1. UNCHANGED <<status, terms>> /\ \E step : pc' = [pc EXCEPT ![h] = step]
      BY <1>8 DEF WriteSource, ReplyLost, Goto, Reply
    <3>2. SessionsValid' /\ RechargesValid'
      BY <1>a, <3>1, ConfirmKeeps
    <3>3. TargetsStored'
      BY <1>a, <1>8, <2>1 DEF WriteSource, ReplyLost, ControlOK, Goto, Reply,
         TargetsStored, Requests
    <3> QED BY <3>2, <3>3
  <2>6. SnapshotsCover'
    BY <1>a, <1>8, <2>1 DEF WriteSource, ReplyLost, ControlOK, Goto, Reply,
       SnapshotsCover, Requests, Amount
  <2> QED BY <2>3, <2>4, <2>5, <2>6 DEF IInv
<1>9. ASSUME NEW h \in Confirms, WriteDest(h) PROVE IInv'
  <2>1. h \in Requests
    BY DEF Requests
  <2>2. ControlOK'
    BY <1>a, <1>9, <2>1, GotoControl, ReplyControl
    DEF WriteDest, ReplyLost, ConfirmSteps, Answers
  <2>3. TypeOK' /\ NonNegative'
    BY <1>9, <2>2, WriteDestBalance
  <2>4. SessionsValid' /\ TargetsStored'
        /\ RechargesValid' /\ SnapshotsCover'
    <3>1. UNCHANGED <<status, terms>> /\ \E step : pc' = [pc EXCEPT ![h] = step]
      BY <1>9 DEF WriteDest, ReplyLost, Goto, Reply
    <3>2. SessionsValid' /\ RechargesValid'
      BY <1>a, <3>1, ConfirmKeeps
    <3>3. TargetsStored'
      BY <1>a, <1>9, <2>1 DEF WriteDest, ReplyLost, ControlOK, Goto, Reply,
         TargetsStored, Requests
    <3>4. SnapshotsCover'
      BY <1>a, <1>9, <2>1 DEF WriteDest, ReplyLost, ControlOK, Goto, Reply,
         SnapshotsCover, Requests, Amount
    <3> QED BY <3>2, <3>3, <3>4
  <2> QED BY <2>3, <2>4 DEF IInv
<1>10. ASSUME NEW h \in Confirms, LogDebit(h) PROVE IInv'
  <2>1. h \in Requests
    BY DEF Requests
  <2>2. ControlOK'
    BY <1>a, <1>10, <2>1, GotoControl, ReplyControl
    DEF LogDebit, ReplyLost, ConfirmSteps, Answers
  <2>3. TypeOK'
    <3>1. DebitRow(h) \in Rows
      BY <1>a, <1>10 DEF LogDebit, TypeOK, DebitRow, Rows, TargetsStored,
         SessionsValid, GoodTerms, Payer, Amount, Terms
    <3> QED BY <1>a, <1>10, <2>2, <3>1 DEF LogDebit, TypeOK
  <2>4. NonNegative' /\ SessionsValid' /\ TargetsStored'
        /\ RechargesValid' /\ SnapshotsCover'
    BY <1>a, <1>10, <2>1 DEF LogDebit, ReplyLost, TypeOK, ControlOK, Goto, Reply,
       NonNegative, SessionsValid, TargetsStored, RechargesValid,
       SnapshotsCover, Requests, Payer, Payee, Amount
  <2> QED BY <2>3, <2>4 DEF IInv
<1>11. ASSUME NEW h \in Confirms, LogCredit(h) PROVE IInv'
  <2>1. h \in Requests
    BY DEF Requests
  <2>2. ControlOK'
    BY <1>a, <1>11, <2>1, GotoControl, ReplyControl
    DEF LogCredit, ReplyLost, ConfirmSteps, Answers
  <2>3. TypeOK'
    <3>1. CreditRow(h) \in Rows
      BY <1>a, <1>11 DEF LogCredit, TypeOK, CreditRow, Rows, TargetsStored,
         SessionsValid, GoodTerms, Payee, Amount, Terms
    <3> QED BY <1>a, <1>11, <2>2, <3>1 DEF LogCredit, TypeOK
  <2>4. NonNegative' /\ SessionsValid' /\ TargetsStored'
        /\ RechargesValid' /\ SnapshotsCover'
    BY <1>a, <1>11, <2>1 DEF LogCredit, ReplyLost, TypeOK, ControlOK, Goto, Reply,
       NonNegative, SessionsValid, TargetsStored, RechargesValid,
       SnapshotsCover, Requests, Payer, Payee, Amount
  <2> QED BY <2>3, <2>4 DEF IInv
<1>12. ASSUME NEW h \in Confirms, MarkConfirmed(h) PROVE IInv'
  <2>1. h \in Requests
    BY DEF Requests
  <2>2. ControlOK'
    BY <1>a, <1>12, <2>1, GotoControl, ReplyControl
    DEF MarkConfirmed, ConfirmSteps, Answers
  <2>3. TypeOK'
    BY <1>a, <1>12, <2>2 DEF MarkConfirmed, TypeOK, Statuses, TargetsStored
  <2>4. NonNegative' /\ SessionsValid' /\ TargetsStored'
        /\ RechargesValid' /\ SnapshotsCover'
    BY <1>a, <1>12, <2>1 DEF MarkConfirmed, TypeOK, ControlOK, Goto, Reply,
       NonNegative, SessionsValid, TargetsStored, RechargesValid,
       SnapshotsCover, Requests, Payer, Payee, Amount
  <2> QED BY <2>3, <2>4 DEF IInv
<1>13. ASSUME NEW s \in Creates, RequestPayment(s) \/ SendPayment(s) PROVE IInv'
  <2>1. s \in Requests /\ pc[s] = "new"
    BY <1>13 DEF RequestPayment, SendPayment, Requests
  <2>2. ControlOK'
    BY <1>a, <1>13, <2>1, GotoControl, ReplyControl
    DEF RequestPayment, SendPayment, Open, Refuse, CreateSteps, Answers
  <2>3. ASSUME NEW u \in Users, NEW v \in Users, NEW a \in Amounts, Open(s, u, v, a)
        PROVE  IInv'
    BY <2>1, <2>2, <2>3, OpenStep
  <2>4. ASSUME Refuse(s) PROVE IInv'
    BY <2>1, <2>2, <2>4, RefuseStep
  <2> QED BY <1>13, <2>3, <2>4 DEF RequestPayment, SendPayment
<1>14. ASSUME NEW r \in Recharges, Recharge(r) PROVE IInv'
  <2>1. r \in Requests
    BY DEF Requests
  <2>2. ControlOK'
    BY <1>a, <1>14, <2>1, GotoControl, ReplyControl
    DEF Recharge, Refuse, RechargeSteps, Answers
  <2>3. TypeOK'
    BY <1>14, <2>2, RechargeTyped
  <2>4. NonNegative' /\ SessionsValid' /\ TargetsStored' /\ RechargesValid'
    BY <1>a, <1>14, <2>1 DEF Recharge, Refuse, TypeOK, ControlOK, Goto, Reply,
       NonNegative, SessionsValid, TargetsStored, RechargesValid, Requests
  <2>5. SnapshotsCover'
    BY <1>14, RechargeSnapshots
  <2> QED BY <2>3, <2>4, <2>5 DEF IInv
<1>15. ASSUME NEW r \in Recharges, IncrementBalance(r) PROVE IInv'
  <2>1. r \in Requests
    BY DEF Requests
  <2>2. ControlOK'
    BY <1>a, <1>15, <2>1, ReplyControl DEF IncrementBalance, ReplyLost, Answers
  <2>3. TypeOK' /\ NonNegative'
    BY <1>15, <2>2, IncrementTyped
  <2>4. SessionsValid' /\ TargetsStored' /\ RechargesValid' /\ SnapshotsCover'
    BY <1>a, <1>15, <2>1 DEF IncrementBalance, ReplyLost, TypeOK, ControlOK, Reply,
       SessionsValid, TargetsStored, RechargesValid, SnapshotsCover, Requests, Amount
  <2> QED BY <2>3, <2>4 DEF IInv
<1>16. ASSUME NEW h \in Requests, DbError(h) PROVE IInv'
  <2>1. PICK a \in Answers : Reply(h, a)
    BY <1>16 DEF DbError, ErrorAnswers, Answers
  <2>2. ControlOK' /\ TypeOK'
    BY <1>a, <1>16, <2>1, ReplyControl DEF DbError, TypeOK
  <2>3. /\ NonNegative' /\ SessionsValid' /\ TargetsStored' /\ RechargesValid'
        /\ SnapshotsCover'
    BY <1>a, <1>16, <2>1 DEF DbError, TypeOK, ControlOK, Reply, NonNegative,
       SessionsValid, TargetsStored, RechargesValid, SnapshotsCover, Requests, Amount
  <2> QED BY <2>2, <2>3 DEF IInv
<1>17. ASSUME NEW h \in Requests, Timeout(h) PROVE IInv'
  BY <1>a, <1>17 DEF Timeout, IInv, TypeOK, ControlOK, Answers, NonNegative,
     SessionsValid, TargetsStored, RechargesValid, SnapshotsCover, Amount
<1>18. ASSUME NEW s \in Creates, PassExpiry(s) PROVE IInv'
  BY <1>a, <1>18 DEF PassExpiry, IInv, TypeOK, ControlOK, NonNegative,
     SessionsValid, TargetsStored, RechargesValid, SnapshotsCover, Amount
<1>19. ASSUME Crash PROVE IInv'
  <2>1. ControlOK' /\ TypeOK'
    BY <1>a, <1>19 DEF Crash, TypeOK, ControlOK, Running, Answers, CreateSteps,
       ConfirmSteps, RechargeSteps, Requests
  <2>2. \A h \in Requests : pc'[h] \in {pc[h], "done"}
    BY <1>19 DEF Crash
  <2>3. /\ NonNegative' /\ SessionsValid' /\ TargetsStored' /\ RechargesValid'
        /\ SnapshotsCover'
    BY <1>a, <1>19, <2>2 DEF Crash, NonNegative,
       SessionsValid, TargetsStored, RechargesValid, SnapshotsCover, Requests, Amount
  <2> QED BY <2>1, <2>3 DEF IInv
<1>20. ASSUME UNCHANGED vars PROVE IInv'
  BY <1>a, <1>20 DEF vars, IInv, TypeOK, ControlOK, NonNegative,
     SessionsValid, TargetsStored, RechargesValid, SnapshotsCover, Amount
<1> QED
  BY <1>1, <1>2, <1>3, <1>4, <1>5, <1>6, <1>7, <1>8, <1>9, <1>10, <1>11, <1>12,
     <1>13, <1>14, <1>15, <1>16, <1>17, <1>18, <1>19, <1>20
  DEF Next, CreateStep, ConfirmStep, RechargeStep, Idle

\* Every behaviour of Payments is well typed.
THEOREM TypeCorrect == Spec => []TypeOK
<1>1. IInv => TypeOK
  BY DEF IInv
<1> QED BY <1>1, InitIInv, NextIInv, PTL DEF Spec

\* No interleaving of handlers, fault or crash overdraws a wallet, for any number
\* of users, requests and amounts.
THEOREM NeverOverdrawn == Spec => []NonNegative
<1>1. IInv => NonNegative
  BY DEF IInv
<1> QED BY <1>1, InitIInv, NextIInv, PTL DEF Spec

-----------------------------------------------------------------------------
(***************************************************************************)
(* Accounted.  What makes a snapshot safe to write back is that nobody     *)
(* wrote the wallet since: as long as a wallet is not mixed, the snapshots *)
(* that confirmations hold of it are its balance.                          *)
(***************************************************************************)
SnapshotsFresh ==
  \A h \in Confirms :
    /\ pc[h] \in {"readDest", "writeSource"} /\ Payer(h) \notin mixed
         => read[h].source = balance[Payer(h)]
    /\ pc[h] \in {"writeSource", "writeDest"} /\ Payee(h) \notin mixed
         => read[h].dest = balance[Payee(h)]

AInv == Accounted /\ SnapshotsFresh

LEMMA InitAInv == Init => AInv
BY DEF Init, AInv, Accounted, SnapshotsFresh, Requests

\* A confirmation looks its session up once.
LEMMA StableTarget ==
  ASSUME IInv, [Next]_vars, NEW h \in Confirms, pc[h] # "new"
  PROVE  target'[h] = target[h]
<1> USE DEF db, locals, history
<1>1. ASSUME NEW g \in Confirms, ReadSession(g) PROVE target'[h] = target[h]
  BY <1>1 DEF ReadSession, Refuse, IInv, TypeOK
<1>2. ASSUME NEW s \in Creates, CreateStep(s) \/ PassExpiry(s) PROVE target' = target
  BY <1>2 DEF CreateStep, RequestPayment, SendPayment, Open, InsertSession,
     SendOtpEmail, PassExpiry, Refuse
<1>3. ASSUME NEW g \in Confirms, ConfirmStep(g), ~ReadSession(g) PROVE target' = target
  BY <1>3 DEF ConfirmStep, CheckSession, MarkExpired, ReadSource, ReadDest,
     WriteSource, WriteDest, LogDebit, LogCredit, MarkConfirmed, Refuse
<1>4. ASSUME NEW r \in Recharges, RechargeStep(r) PROVE target' = target
  BY <1>4 DEF RechargeStep, Recharge, IncrementBalance, Refuse
<1>5. ASSUME (\E g \in Requests : DbError(g) \/ Timeout(g)) \/ Crash \/ UNCHANGED vars
      PROVE  target' = target
  BY <1>5 DEF DbError, Timeout, Crash, vars
<1> QED BY <1>1, <1>2, <1>3, <1>4, <1>5 DEF Next, Idle

\* The terms of a session are settled when its request starts.
LEMMA StableSession ==
  ASSUME IInv, [Next]_vars, NEW s \in Creates, pc[s] # "new"
  PROVE  terms'[s] = terms[s]
<1> USE DEF db, locals, history
<1>1. ASSUME NEW q \in Creates, RequestPayment(q) \/ SendPayment(q)
      PROVE  terms'[s] = terms[s]
  BY <1>1 DEF RequestPayment, SendPayment, Open, Refuse, IInv, TypeOK
<1>2. ASSUME NEW q \in Creates, InsertSession(q) \/ SendOtpEmail(q) \/ PassExpiry(q)
      PROVE  terms' = terms
  BY <1>2 DEF InsertSession, SendOtpEmail, PassExpiry
<1>3. ASSUME NEW g \in Confirms, ConfirmStep(g) PROVE terms' = terms
  BY <1>3 DEF ConfirmStep, ReadSession, CheckSession, MarkExpired, ReadSource, ReadDest,
     WriteSource, WriteDest, LogDebit, LogCredit, MarkConfirmed, Refuse
<1>4. ASSUME NEW r \in Recharges, RechargeStep(r) PROVE terms'[s] = terms[s]
  BY <1>4 DEF RechargeStep, Recharge, IncrementBalance, Refuse, IInv, TypeOK
<1>5. ASSUME (\E g \in Requests : DbError(g) \/ Timeout(g)) \/ Crash \/ UNCHANGED vars
      PROVE  terms' = terms
  BY <1>5 DEF DbError, Timeout, Crash, vars
<1> QED BY <1>1, <1>2, <1>3, <1>4, <1>5 DEF Next, CreateStep, Idle

\* The terms of a session that a confirmation works on do not change.
LEMMA StableTerms ==
  ASSUME IInv, [Next]_vars, NEW h \in Confirms, pc[h] \notin {"new", "done"}
  PROVE  /\ target'[h] = target[h]
         /\ Payer(h)' = Payer(h) /\ Payee(h)' = Payee(h) /\ Amount(h)' = Amount(h)
<1>1. target[h] \in Creates /\ pc[target[h]] # "new"
  BY DEF IInv, TargetsStored, SessionsValid
<1> QED BY <1>1, StableTarget, StableSession DEF Payer, Payee, Amount

\* Steps that write no wallet and read none: a confirmation that holds a snapshot
\* afterwards held the same one before.
LEMMA QuietStep ==
  ASSUME IInv, [Next]_vars, AInv, UNCHANGED <<balance, owed, mixed, read>>,
         \A h \in Confirms : /\ pc'[h] \in {"readDest", "writeSource", "writeDest"}
                             => pc'[h] = pc[h]
  PROVE  AInv'
<1>1. Accounted'
  BY DEF AInv, Accounted
<1>2. SnapshotsFresh'
  BY StableTerms DEF AInv, SnapshotsFresh
<1> QED BY <1>1, <1>2 DEF AInv

\* A balance write: the other holders of the wallet make it mixed, so that the
\* snapshots still vouched for are those of other wallets.
LEMMA WriteStep ==
  ASSUME IInv, [Next]_vars, AInv, NEW h \in Requests, NEW w \in Wallets, NEW to \in Int,
         NEW change \in Int, Write(h, w, to, change), UNCHANGED read,
         w \notin mixed => to = balance[w] + change,
         \A g \in Confirms \ {h} : pc'[g] = pc[g],
         h \in Confirms =>
           \/ pc'[h] \notin {"readDest", "writeSource", "writeDest"}
           \/ pc[h] = "writeSource" /\ pc'[h] = "writeDest" /\ w = Payer(h)
  PROVE  AInv'
<1>1. Accounted'
  BY DEF AInv, Accounted, Write, IInv, TypeOK
<1>2. ASSUME NEW g \in Confirms, pc'[g] \in {"readDest", "writeSource"}, Payer(g)' \notin mixed'
      PROVE  read'[g].source = balance'[Payer(g)']
  <2>1. g # h /\ pc'[g] = pc[g] /\ Payer(g)' = Payer(g) /\ Payer(g) \in Wallets
    BY <1>2, StableTerms, AtWork
  <2>2. Payer(g) # w /\ Payer(g) \notin mixed
    BY <1>2, <2>1 DEF Write, Holds
  <2> QED BY <1>2, <2>1, <2>2 DEF AInv, SnapshotsFresh, Write, IInv, TypeOK
<1>3. ASSUME NEW g \in Confirms, pc'[g] \in {"writeSource", "writeDest"}, Payee(g)' \notin mixed'
      PROVE  read'[g].dest = balance'[Payee(g)']
  <2>1. /\ pc[g] \in {"writeSource", "writeDest"} /\ Payee(g)' = Payee(g)
        /\ Payee(g) \in Wallets /\ Payee(g) # Payer(g)
    BY <1>3, StableTerms, AtWork
  <2>2. Payee(g) # w /\ Payee(g) \notin mixed
    BY <1>3, <2>1 DEF Write, Holds
  <2> QED BY <1>3, <2>1, <2>2 DEF AInv, SnapshotsFresh, Write, IInv, TypeOK
<1> QED BY <1>1, <1>2, <1>3 DEF AInv, SnapshotsFresh

LEMMA NextAInv == IInv /\ AInv /\ [Next]_vars => AInv'
<1> SUFFICES ASSUME IInv, AInv, [Next]_vars PROVE AInv'
  OBVIOUS
<1> USE DEF db, locals, history
<1>a. pc \in [Requests -> CreateSteps \cup ConfirmSteps \cup RechargeSteps]
      /\ read \in [Confirms -> [source : Int, dest : Int]]
  BY DEF IInv, TypeOK, ControlOK
<1>1. ASSUME NEW s \in Creates, CreateStep(s) \/ PassExpiry(s) PROVE AInv'
  <2>1. \A h \in Confirms : pc'[h] = pc[h]
    BY <1>a, <1>1 DEF CreateStep, RequestPayment, SendPayment, Open, InsertSession,
       SendOtpEmail, PassExpiry, Refuse, Goto, Reply, ReplyLost, Requests
  <2>2. UNCHANGED <<balance, owed, mixed, read>>
    BY <1>1 DEF CreateStep, RequestPayment, SendPayment, Open, InsertSession,
       SendOtpEmail, PassExpiry, Refuse
  <2> QED BY <2>1, <2>2, QuietStep
<1>2. ASSUME NEW h \in Confirms,
             \/ ReadSession(h) \/ CheckSession(h) \/ MarkExpired(h)
             \/ LogDebit(h) \/ LogCredit(h) \/ MarkConfirmed(h)
      PROVE  AInv'
  <2>1. \E step \in {"check", "expire", "readSource", "logCredit", "markConfirmed", "done"} :
          pc' = [pc EXCEPT ![h] = step]
    BY <1>2 DEF ReadSession, CheckSession, MarkExpired, LogDebit, LogCredit,
       MarkConfirmed, Refuse, Goto, Reply, ReplyLost
  <2>2. UNCHANGED <<balance, owed, mixed, read>>
    BY <1>2 DEF ReadSession, CheckSession, MarkExpired, LogDebit, LogCredit,
       MarkConfirmed, Refuse
  <2> QED BY <1>a, <2>1, <2>2, QuietStep DEF Requests
<1>3. ASSUME NEW h \in Confirms, ReadSource(h) PROVE AInv'
  <2>1. CASE Refuse(h)
    BY <1>a, <2>1, QuietStep DEF Refuse, Reply
  <2>2. CASE ~Refuse(h)
    <3>1. /\ pc' = [pc EXCEPT ![h] = "readDest"]
          /\ read' = [read EXCEPT ![h].source = balance[Payer(h)]]
          /\ UNCHANGED <<balance, owed, mixed, target, terms>>
      BY <1>3, <2>2 DEF ReadSource, Goto
    <3> QED BY <1>a, <3>1 DEF AInv, Accounted, SnapshotsFresh, Payer, Payee, Requests
  <2> QED BY <2>1, <2>2
<1>4. ASSUME NEW h \in Confirms, ReadDest(h) PROVE AInv'
  <2>1. /\ pc[h] = "readDest" /\ pc' = [pc EXCEPT ![h] = "writeSource"]
        /\ read' = [read EXCEPT ![h].dest = balance[Payee(h)]]
        /\ UNCHANGED <<balance, owed, mixed, target, terms>>
    BY <1>4 DEF ReadDest, Goto
  <2> QED BY <1>a, <2>1 DEF AInv, Accounted, SnapshotsFresh, Payer, Payee, Requests
<1>5. ASSUME NEW h \in Confirms, WriteSource(h) PROVE AInv'
  <2>1. /\ pc[h] = "writeSource" /\ UNCHANGED read
        /\ Write(h, Payer(h), SourceAfter(h), -Amount(h))
        /\ pc' = [pc EXCEPT ![h] = "writeDest"] \/ pc' = [pc EXCEPT ![h] = "done"]
    BY <1>5 DEF WriteSource, Goto, Reply, ReplyLost
  <2>2. SourceAfter(h) \in Int /\ -Amount(h) \in Int
    BY <2>1, AtWork DEF SourceAfter
  <2>3. Payer(h) \notin mixed => SourceAfter(h) = balance[Payer(h)] + (-Amount(h))
    BY <2>1, AtWork DEF AInv, SnapshotsFresh, SourceAfter
  <2>4. /\ \A g \in Confirms \ {h} : pc'[g] = pc[g]
        /\ pc'[h] = "writeDest" \/ pc'[h] = "done"
    BY <1>a, <2>1 DEF Requests
  <2>5. h \in Requests /\ Payer(h) \in Wallets
    BY <2>1, AtWork
  <2> QED BY <2>1, <2>2, <2>3, <2>4, <2>5, WriteStep
<1>6. ASSUME NEW h \in Confirms, WriteDest(h) PROVE AInv'
  <2>1. /\ pc[h] = "writeDest" /\ UNCHANGED read
        /\ Write(h, Payee(h), read[h].dest + Amount(h), Amount(h))
        /\ pc' = [pc EXCEPT ![h] = "logDebit"] \/ pc' = [pc EXCEPT ![h] = "done"]
    BY <1>6 DEF WriteDest, Goto, Reply, ReplyLost
  <2>2. read[h].dest + Amount(h) \in Int
    BY <2>1, AtWork
  <2>3. Payee(h) \notin mixed => read[h].dest + Amount(h) = balance[Payee(h)] + Amount(h)
    BY <2>1 DEF AInv, SnapshotsFresh
  <2>4. /\ \A g \in Confirms \ {h} : pc'[g] = pc[g]
        /\ pc'[h] = "logDebit" \/ pc'[h] = "done"
    BY <1>a, <2>1 DEF Requests
  <2>5. h \in Requests /\ Payee(h) \in Wallets /\ Amount(h) \in Int
    BY <2>1, AtWork
  <2> QED BY <2>1, <2>2, <2>3, <2>4, <2>5, WriteStep
<1>7. ASSUME NEW r \in Recharges, Recharge(r) PROVE AInv'
  <2>1. (\A h \in Confirms : pc'[h] = pc[h]) /\ UNCHANGED <<balance, owed, mixed, read>>
    BY <1>a, <1>7 DEF Recharge, Refuse, Goto, Reply, Requests
  <2> QED BY <2>1, QuietStep
<1>8. ASSUME NEW r \in Recharges, IncrementBalance(r) PROVE AInv'
  <2>1. /\ r \in Requests /\ r \notin Confirms /\ UNCHANGED read
        /\ Write(r, terms[r].payee, Topped(r), terms[r].amount)
        /\ \A h \in Confirms : pc'[h] = pc[h]
    BY <1>a, <1>8 DEF IncrementBalance, Reply, ReplyLost, Requests
  <2>2. /\ terms[r].payee \in Wallets /\ terms[r].amount \in Int
        /\ balance[terms[r].payee] \in Int
    BY <1>8 DEF IncrementBalance, IInv, RechargesValid, TypeOK, Terms
  <2> QED BY <2>1, <2>2, WriteStep DEF Topped
<1>9. ASSUME NEW h \in Requests, DbError(h) PROVE AInv'
  BY <1>a, <1>9, QuietStep DEF DbError, Reply
<1>10. ASSUME (\E h \in Requests : Timeout(h)) \/ Crash \/ UNCHANGED vars PROVE AInv'
  <2>1. /\ \A g \in Confirms : pc'[g] \in {"readDest", "writeSource", "writeDest"}
                               => pc'[g] = pc[g]
        /\ UNCHANGED <<balance, owed, mixed, read>>
    BY <1>10 DEF Timeout, Crash, vars, Requests
  <2> QED BY <2>1, QuietStep
<1> QED
  BY <1>1, <1>2, <1>3, <1>4, <1>5, <1>6, <1>7, <1>8, <1>9, <1>10
  DEF Next, ConfirmStep, RechargeStep, Idle

\* Whatever fails, a wallet that no two handlers wrote over each other holds what
\* the debits, credits and recharges applied to it add up to.
THEOREM NothingLostUnmixed == Spec => []Accounted
<1>1. IInv /\ AInv => Accounted
  BY DEF AInv
<1> QED BY <1>1, InitIInv, NextIInv, InitAInv, NextAInv, PTL DEF Spec

=============================================================================
