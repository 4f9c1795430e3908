----------------------- MODULE PaymentsRefinementProofs -----------------------
(***************************************************************************)
(* Payments implements Bank, for any users, wallets, requests and amounts: *)
(* the initial state maps to an initial state, every step to a step of the *)
(* bank or to a stutter.                                                   *)
(***************************************************************************)
EXTENDS PaymentsRefinement, PaymentsProofs

-----------------------------------------------------------------------------
(***************************************************************************)
(* What the mapping needs beyond IInv and AInv: the program counter tells  *)
(* how far the money is, a session is expired only by a handler that saw   *)
(* the clock, and what is booked is an amount some client sent.            *)
(***************************************************************************)
Stage(h) ==
  /\ pc[h] \in {"new", "check", "expire", "readSource", "readDest", "writeSource"}
       => moved[h] = "nothing"
  /\ pc[h] = "writeDest" => moved[h] = "debited"
  /\ pc[h] \in {"logDebit", "logCredit", "markConfirmed"} => moved[h] = "both"
  /\ pc[h] = "expire" => target[h] \in overdue
StageInv == \A h \in Confirms : Stage(h)
AmountsSent ==
  /\ \A s \in Creates :
       pc[s] = "insert" \/ status[s] # "none" => terms[s].amount \in Amounts
  /\ \A r \in Recharges : pc[r] = "inc" => terms[r].amount \in Amounts

USE UsersAssumption, RequestsAssumption, MoneyAssumption

\* The initial state is an initial state of the bank.
LEMMA InitRefines == Init => B!Init /\ StageInv /\ AmountsSent
<1> SUFFICES ASSUME Init PROVE B!Init /\ StageInv /\ AmountsSent
  OBVIOUS
<1>1. Books = Start
  <2>1. Wallets \ mixed = Wallets
    BY DEF Init
  <2> QED BY <2>1 DEF Init, Books
<1>2. Deals = [s \in Creates |-> B!NoDeal]
  BY DEF Init, Deals, DealOf, B!NoDeal
<1>3. Stages = [h \in Confirms |-> "none"]
  BY DEF Init, Stages, StageOf, Requests
<1>4. StageInv /\ AmountsSent
  BY DEF Init, StageInv, Stage, AmountsSent, Requests
<1> QED BY <1>1, <1>2, <1>3, <1>4 DEF Init, B!Init

-----------------------------------------------------------------------------
(***************************************************************************)
(* The mapped variables.                                                   *)
(***************************************************************************)
\* A step of one confirmation changes the stage of that order at most.
LEMMA StagesAt ==
  ASSUME NEW h \in Confirms, NEW st, StageOf(h)' = st,
         \A g \in Confirms \ {h} : pc'[g] = pc[g] /\ moved'[g] = moved[g]
  PROVE  Stages' = [Stages EXCEPT ![h] = st]
<1>1. \A g \in Confirms \ {h} : StageOf(g)' = StageOf(g)
  BY DEF StageOf
<1> QED BY <1>1 DEF Stages

LEMMA StagesSame ==
  ASSUME \A g \in Confirms : StageOf(g)' = StageOf(g)
  PROVE  Stages' = Stages
BY DEF Stages

\* The terms of a stored session do not change, and no session is ever removed.
LEMMA DealsSame ==
  ASSUME \A s \in Creates : status'[s] = "none" <=> status[s] = "none",
         \A s \in Creates : status[s] # "none" => terms'[s] = terms[s]
  PROVE  Deals' = Deals
<1>1. \A s \in Creates : DealOf(s)' = DealOf(s)
  BY DEF DealOf
<1> QED BY <1>1 DEF Deals

LEMMA BooksSame == ASSUME UNCHANGED <<balance, mixed>> PROVE Books' = Books
BY DEF Books

\* A confirmation at work is an order at work on the wallets of its session.
LEMMA OrderAtWork ==
  ASSUME IInv, StageInv, NEW h \in Confirms, pc[h] \notin {"new", "done"}
  PROVE  /\ B!From(h) = Payer(h) /\ B!To(h) = Payee(h) /\ B!Sum(h) = Amount(h)
         /\ pc[h] \in {"check", "expire", "readSource", "readDest", "writeSource"}
              => Stages[h] = "ordered"
         /\ pc[h] = "writeDest" => Stages[h] = "debited"
         /\ pc[h] \in {"logDebit", "logCredit", "markConfirmed"} => Stages[h] = "paid"
<1>1. target[h] \in Creates /\ status[target[h]] # "none"
  BY DEF IInv, TargetsStored
<1>2. Deals[target[h]] = terms[target[h]]
  BY <1>1 DEF Deals, DealOf
<1>3. Stages[h] = StageOf(h) /\ Stage(h)
  BY DEF Stages, StageInv
<1> QED BY <1>2, <1>3 DEF B!From, B!To, B!Sum, Payer, Payee, Amount, Stage, StageOf

\* A balance write is a posting: the books stay exact, or another order is at
\* work on the wallet.
LEMMA PostStep ==
  ASSUME IInv, StageInv, NEW h \in Requests, NEW w \in Wallets, NEW to \in Int,
         NEW change \in Int, Write(h, w, to, change),
         w \notin mixed => to = balance[w] + change
  PROVE  B!Post(w, change, Confirms \ {h})
<1>a. DOMAIN Books = Wallets \ mixed /\ balance \in [Wallets -> Int]
  BY DEF Books, IInv, TypeOK
<1>1. CASE w \in mixed
  <2>1. mixed' = mixed /\ \A v \in Wallets \ mixed : balance'[v] = balance[v]
    BY <1>1, <1>a DEF Write
  <2> QED BY <1>1, <1>a, <2>1 DEF Books, B!Post
<1>2. CASE w \notin mixed /\ mixed' = mixed
  <2>1. Books' = [Books EXCEPT ![w] = Books[w] + change]
    BY <1>2, <1>a DEF Write, Books
  <2> QED BY <1>2, <1>a, <2>1 DEF B!Post
<1>3. CASE w \notin mixed /\ mixed' # mixed
  <2>1. PICK g \in Confirms \ {h} : Holds(g, w)
    BY <1>3 DEF Write
  <2>2. B!Contended(w, Confirms \ {h})
    BY <2>1, OrderAtWork DEF Holds, B!Contended
  <2>3. mixed' = mixed \cup {w}
    BY <1>3 DEF Write
  <2>4. Books' = [v \in DOMAIN Books \ {w} |-> Books[v]]
    BY <1>a, <2>3 DEF Write, Books
  <2> QED BY <2>2, <2>4 DEF B!Post
<1> QED BY <1>1, <1>2, <1>3

\* Orders end: a single one that is refused or fails, or all of them in a crash.
LEMMA GiveUpStep ==
  ASSUME IInv, NEW hs \in SUBSET Confirms,
         \A h \in hs : pc'[h] = "done",
         \A h \in Confirms \ hs : pc'[h] = pc[h],
         UNCHANGED <<balance, status, overdue, terms, target, moved, mixed>>
  PROVE  B!Next
<1>1. moved \in [Confirms -> {"nothing", "debited", "both"}]
  BY DEF IInv, TypeOK
<1>2. ASSUME NEW h \in hs PROVE StageOf(h)' = B!Ended(StageOf(h))
  BY <1>1, <1>2 DEF StageOf, B!Ended
<1>3. \A h \in Confirms \ hs : StageOf(h)' = StageOf(h)
  BY DEF StageOf
<1>4. Stages' = [h \in Confirms |-> IF h \in hs THEN B!Ended(Stages[h]) ELSE Stages[h]]
  BY <1>2, <1>3 DEF Stages
<1>5. B!GiveUp(hs)
  BY <1>4, BooksSame, DealsSame DEF B!GiveUp
<1> QED BY <1>5 DEF B!Next

\* Steps the bank does not see.
LEMMA UnseenStep ==
  ASSUME UNCHANGED <<balance, status, overdue, target, mixed>>,
         \A s \in Creates : status[s] # "none" => terms'[s] = terms[s],
         \A h \in Confirms : StageOf(h)' = StageOf(h)
  PROVE  UNCHANGED B!vars
BY BooksSame, DealsSame, StagesSame DEF B!vars

-----------------------------------------------------------------------------
(***************************************************************************)
(* The strengthening is inductive.                                         *)
(***************************************************************************)
\* Handlers stay where they are, or end.
LEMMA StageKept ==
  ASSUME StageInv, overdue \subseteq overdue',
         \A h \in Confirms :
           \/ pc'[h] = "done"
           \/ pc'[h] = pc[h] /\ moved'[h] = moved[h] /\ target'[h] = target[h]
  PROVE  StageInv'
BY DEF StageInv, Stage

\* One handler goes on.
LEMMA StageMoves ==
  ASSUME IInv, StageInv, NEW h \in Confirms, NEW step,
         pc' = [pc EXCEPT ![h] = step], overdue' = overdue,
         \A g \in Confirms \ {h} : moved'[g] = moved[g] /\ target'[g] = target[g],
         Stage(h)'
  PROVE  StageInv'
<1>1. \A g \in Confirms \ {h} : pc'[g] = pc[g]
  BY DEF IInv, TypeOK, ControlOK, Requests
<1>2. \A g \in Confirms \ {h} : Stage(g)'
  BY <1>1 DEF StageInv, Stage
<1> QED BY <1>2 DEF StageInv

LEMMA NextStageInv == IInv /\ StageInv /\ [Next]_vars => StageInv'
<1> SUFFICES ASSUME IInv, StageInv, [Next]_vars PROVE StageInv'
  OBVIOUS
<1> USE DEF db, locals, history
<1>a. /\ pc \in [Requests -> CreateSteps \cup ConfirmSteps \cup RechargeSteps]
      /\ moved \in [Confirms -> {"nothing", "debited", "both"}]
      /\ target \in [Confirms -> Creates \cup {None}]
  BY DEF IInv, TypeOK, ControlOK
<1>b. \A h \in Confirms : h \in Requests /\ h \notin Creates /\ h \notin Recharges
  BY DEF Requests
<1>1. ASSUME NEW s \in Creates, CreateStep(s) \/ PassExpiry(s) PROVE StageInv'
  <2>1. \A h \in Confirms : pc'[h] = pc[h]
    BY <1>a, <1>b, <1>1 DEF CreateStep, RequestPayment, SendPayment, Open, InsertSession,
       SendOtpEmail, PassExpiry, Refuse, Goto, Reply, ReplyLost, Requests
  <2>2. UNCHANGED <<moved, target>> /\ overdue \subseteq overdue'
    BY <1>1 DEF CreateStep, RequestPayment, SendPayment, Open, InsertSession,
       SendOtpEmail, PassExpiry, Refuse
  <2> QED BY <2>1, <2>2, StageKept
<1>2. ASSUME NEW r \in Recharges, RechargeStep(r) PROVE StageInv'
  <2>1. \A h \in Confirms : pc'[h] = pc[h]
    BY <1>a, <1>b, <1>2 DEF RechargeStep, Recharge, IncrementBalance, Refuse, Goto, Reply,
       ReplyLost, Requests
  <2>2. UNCHANGED <<moved, target, overdue>>
    BY <1>2 DEF RechargeStep, Recharge, IncrementBalance, Refuse
  <2> QED BY <2>1, <2>2, StageKept
<1>3. ASSUME NEW h \in Confirms, ReadSession(h) PROVE StageInv'
  <2>1. PICK step : pc' = [pc EXCEPT ![h] = step] /\ step \in {"check", "done"}
    BY <1>3 DEF ReadSession, Refuse, Goto, Reply
  <2>2. UNCHANGED <<moved, overdue>> /\ \A g \in Confirms \ {h} : target'[g] = target[g]
    BY <1>a, <1>3 DEF ReadSession, Refuse
  <2>3. pc[h] = "new" /\ Stage(h)
    BY <1>3 DEF ReadSession, StageInv
  <2>4. Stage(h)'
    BY <1>a, <1>b, <2>1, <2>2, <2>3 DEF Stage
  <2> QED BY <2>1, <2>2, <2>4, StageMoves
<1>4. ASSUME NEW h \in Confirms,
             \/ CheckSession(h) \/ MarkExpired(h) \/ ReadSource(h) \/ ReadDest(h)
             \/ LogDebit(h) \/ LogCredit(h) \/ MarkConfirmed(h)
      PROVE  StageInv'
  <2>1. UNCHANGED <<moved, overdue, target>>
    BY <1>4 DEF CheckSession, MarkExpired, ReadSource, ReadDest, LogDebit, LogCredit,
       MarkConfirmed, Refuse
  <2>2. PICK step : /\ pc' = [pc EXCEPT ![h] = step]
                    /\ \/ step = "done"
                       \/ pc[h] = "check" /\ step = "expire" /\ target[h] \in overdue
                       \/ <<pc[h], step>> \in {<<"check", "readSource">>,
                            <<"readSource", "readDest">>, <<"readDest", "writeSource">>,
                            <<"logDebit", "logCredit">>, <<"logCredit", "markConfirmed">>}
    BY <1>4 DEF CheckSession, MarkExpired, ReadSource, ReadDest, LogDebit, LogCredit,
       MarkConfirmed, Refuse, Goto, Reply, ReplyLost, PastExpiry
  <2>3. Stage(h)'
    BY <1>a, <1>b, <2>1, <2>2 DEF StageInv, Stage
  <2> QED BY <2>1, <2>2, <2>3, StageMoves
<1>5. ASSUME NEW h \in Confirms, WriteSource(h) \/ WriteDest(h) PROVE StageInv'
  <2>1. UNCHANGED <<overdue, target>>
    BY <1>5 DEF WriteSource, WriteDest
  <2>2. PICK step : /\ pc' = [pc EXCEPT ![h] = step]
                    /\ \/ step = "done" /\ \E m : moved' = [moved EXCEPT ![h] = m]
                       \/ step = "writeDest" /\ moved' = [moved EXCEPT ![h] = "debited"]
                       \/ step = "logDebit" /\ moved' = [moved EXCEPT ![h] = "both"]
    BY <1>5 DEF WriteSource, WriteDest, Goto, Reply, ReplyLost
  <2>3. Stage(h)'
    BY <1>a, <1>b, <2>1, <2>2 DEF Stage
  <2> QED BY <1>a, <2>1, <2>2, <2>3, StageMoves
<1>6. ASSUME (\E h \in Requests : DbError(h) \/ Timeout(h)) \/ Crash \/ UNCHANGED vars
      PROVE  StageInv'
  <2>1. UNCHANGED <<moved, target, overdue>>
    BY <1>6 DEF DbError, Timeout, Crash, vars
  <2>2. \A h \in Confirms : pc'[h] \in {pc[h], "done"}
    BY <1>a, <1>b, <1>6 DEF DbError, Timeout, Crash, Reply, vars
  <2> QED BY <2>1, <2>2, StageKept
<1> QED BY <1>1, <1>2, <1>3, <1>4, <1>5, <1>6 DEF Next, ConfirmStep, Idle

LEMMA NextAmountsSent == IInv /\ AmountsSent /\ [Next]_vars => AmountsSent'
<1> SUFFICES ASSUME IInv, AmountsSent, [Next]_vars PROVE AmountsSent'
  OBVIOUS
<1> USE DEF db, locals, history
<1>a. /\ pc \in [Requests -> CreateSteps \cup ConfirmSteps \cup RechargeSteps]
      /\ status \in [Creates -> Statuses]
      /\ terms \in [Creates \cup Recharges -> Terms]
  BY DEF IInv, TypeOK, ControlOK
<1>1. ASSUME NEW s \in Creates, RequestPayment(s) \/ SendPayment(s) PROVE AmountsSent'
  <2>1. PICK u \in Users, v \in Users, a \in Amounts : Open(s, u, v, a) \/ Refuse(s)
    BY <1>1 DEF RequestPayment, SendPayment
  <2>2. /\ pc[s] = "new" /\ status[s] = "none" /\ status' = status
        /\ \A g \in Requests \ {s} : pc'[g] = pc[g]
    BY <1>a, <1>1, <2>1 DEF RequestPayment, SendPayment, Open, Refuse, Goto, Reply, IInv,
       SessionsValid, Requests
  <2>3. /\ \A g \in (Creates \cup Recharges) \ {s} : terms'[g] = terms[g]
        /\ pc'[s] = "insert" => terms'[s].amount = a
    BY <1>a, <2>1, <2>2 DEF Open, Refuse, Goto, Reply, Requests
  <2> QED BY <2>2, <2>3 DEF AmountsSent, Requests
<1>2. ASSUME NEW s \in Creates, InsertSession(s) \/ SendOtpEmail(s) \/ PassExpiry(s)
      PROVE  AmountsSent'
  <2>1. /\ terms' = terms /\ \A g \in Requests \ {s} : pc'[g] = pc[g]
        /\ pc'[s] # "insert" \/ pc'[s] = pc[s]
        /\ \A t \in Creates : status'[t] = status[t] \/ (t = s /\ pc[s] = "insert")
    BY <1>a, <1>2 DEF InsertSession, SendOtpEmail, PassExpiry, Goto, Reply, ReplyLost,
       Requests
  <2> QED BY <2>1 DEF AmountsSent, Requests
<1>3. ASSUME NEW h \in Confirms, ConfirmStep(h) PROVE AmountsSent'
  <2>1. terms' = terms /\ \A s \in Creates : status'[s] # "none" => status[s] # "none"
    BY <1>a, <1>3 DEF ConfirmStep, ReadSession, CheckSession, MarkExpired, ReadSource, ReadDest,
       WriteSource, WriteDest, LogDebit, LogCredit, MarkConfirmed, Refuse, IInv, TargetsStored
  <2>2. \E step : pc' = [pc EXCEPT ![h] = step]
    BY <1>3 DEF ConfirmStep, ReadSession, CheckSession, MarkExpired, ReadSource, ReadDest,
       WriteSource, WriteDest, LogDebit, LogCredit, MarkConfirmed, Refuse, Goto, Reply, ReplyLost
  <2>3. \A g \in Creates \cup Recharges : pc'[g] = pc[g]
    BY <1>a, <2>2 DEF Requests
  <2> QED BY <2>1, <2>3 DEF AmountsSent
<1>4. ASSUME NEW r \in Recharges, RechargeStep(r) PROVE AmountsSent'
  <2>1. /\ status' = status /\ \A g \in Requests \ {r} : pc'[g] = pc[g]
        /\ \A s \in (Creates \cup Recharges) \ {r} : terms'[s] = terms[s]
        /\ pc'[r] = "inc" => terms'[r].amount \in Amounts
    BY <1>a, <1>4 DEF RechargeStep, Recharge, IncrementBalance, Refuse, Goto, Reply,
       ReplyLost, Requests
  <2> QED BY <2>1 DEF AmountsSent, Requests
<1>5. ASSUME (\E h \in Requests : DbError(h) \/ Timeout(h)) \/ Crash \/ UNCHANGED vars
      PROVE  AmountsSent'
  <2>1. UNCHANGED <<status, terms>> /\ \A g \in Requests : pc'[g] \in {pc[g], "done"}
    BY <1>a, <1>5 DEF DbError, Timeout, Crash, Reply, vars
  <2> QED BY <2>1 DEF AmountsSent, Requests
<1> QED BY <1>1, <1>2, <1>3, <1>4, <1>5 DEF Next, CreateStep, Idle

-----------------------------------------------------------------------------
(***************************************************************************)
(* The step simulation.                                                    *)
(***************************************************************************)
LEMMA NextRefines ==
  IInv /\ AInv /\ StageInv /\ StageInv' /\ AmountsSent /\ [Next]_vars => [B!Next]_(B!vars)
<1> SUFFICES ASSUME IInv, AInv, StageInv, StageInv', AmountsSent, [Next]_vars
             PROVE  B!Next \/ UNCHANGED B!vars
  OBVIOUS
<1> USE DEF db, locals, history
<1>a. /\ pc \in [Requests -> CreateSteps \cup ConfirmSteps \cup RechargeSteps]
      /\ status \in [Creates -> Statuses]
      /\ terms \in [Creates \cup Recharges -> Terms]
      /\ moved \in [Confirms -> {"nothing", "debited", "both"}]
      /\ target \in [Confirms -> Creates \cup {None}]
  BY DEF IInv, TypeOK, ControlOK
<1>b. \A h \in Confirms : h \in Requests /\ h \notin Creates /\ h \notin Recharges
  BY DEF Requests
<1>1. ASSUME NEW s \in Creates, RequestPayment(s) \/ SendPayment(s) PROVE UNCHANGED B!vars
  <2>1. pc[s] = "new" /\ status[s] = "none"
    BY <1>1 DEF RequestPayment, SendPayment, IInv, SessionsValid
  <2>2. /\ UNCHANGED <<balance, status, overdue, target, moved, mixed>>
        /\ \A g \in Creates \ {s} : terms'[g] = terms[g]
        /\ \A h \in Confirms : pc'[h] = pc[h]
    BY <1>a, <1>b, <1>1 DEF RequestPayment, SendPayment, Open, Refuse, Goto, Reply
  <2> QED BY <2>1, <2>2, UnseenStep DEF StageOf
<1>2. ASSUME NEW s \in Creates, InsertSession(s) PROVE B!Next
  <2>1. /\ pc[s] = "insert" /\ status[s] = "none" /\ terms[s].amount \in Amounts
        /\ terms[s] \in Terms /\ GoodTerms(terms[s])
    BY <1>a, <1>2 DEF InsertSession, IInv, SessionsValid, AmountsSent
  <2>2. terms[s] \in B!Deals
    BY <2>1 DEF B!Deals, GoodTerms, Terms
  <2>3. /\ status' = [status EXCEPT ![s] = "pending"]
        /\ UNCHANGED <<balance, overdue, terms, target, moved, mixed>>
        /\ \A h \in Confirms : pc'[h] = pc[h]
    BY <1>a, <1>b, <1>2 DEF InsertSession, Goto, Reply, ReplyLost
  <2>4. Stages' = Stages
    BY <2>3, StagesSame DEF StageOf
  <2>5. Deals' = [Deals EXCEPT ![s] = terms[s]]
    <3>1. \A t \in Creates \ {s} : DealOf(t)' = DealOf(t)
      BY <1>a, <2>3 DEF DealOf
    <3>2. DealOf(s)' = terms[s]
      BY <1>a, <2>3 DEF DealOf
    <3> QED BY <3>1, <3>2 DEF Deals
  <2>6. B!Open(s, terms[s])
    BY <2>1, <2>3, <2>4, <2>5, BooksSame DEF B!Open
  <2> QED BY <2>2, <2>6 DEF B!Next
<1>3. ASSUME NEW s \in Creates, SendOtpEmail(s) PROVE UNCHANGED B!vars
  <2>1. /\ UNCHANGED <<balance, status, overdue, target, terms, moved, mixed>>
        /\ \A h \in Confirms : pc'[h] = pc[h]
    BY <1>a, <1>b, <1>3 DEF SendOtpEmail, Reply
  <2> QED BY <2>1, UnseenStep DEF StageOf
<1>4. ASSUME NEW s \in Creates, PassExpiry(s) PROVE B!Next
  <2>1. UNCHANGED <<Books, Deals, Stages, status, target>>
    BY <1>4, BooksSame, DealsSame, StagesSame DEF PassExpiry, StageOf
  <2>2. B!Lapse(s)
    BY <1>4, <2>1 DEF PassExpiry, B!Lapse
  <2> QED BY <2>2 DEF B!Next
<1>5. ASSUME NEW h \in Confirms, Refuse(h) PROVE B!Next
  <2>1. /\ UNCHANGED <<balance, status, overdue, terms, target, moved, mixed>>
        /\ pc'[h] = "done" /\ \A g \in Confirms \ {h} : pc'[g] = pc[g]
    BY <1>a, <1>b, <1>5 DEF Refuse, Reply
  <2>2. {h} \in SUBSET Confirms
    OBVIOUS
  <2> QED BY <2>1, <2>2, GiveUpStep
<1>6. ASSUME NEW h \in Confirms, ReadSession(h), ~Refuse(h) PROVE B!Next
  <2>1. PICK s \in Creates : /\ status[s] = "pending"
                             /\ target' = [target EXCEPT ![h] = s]
                             /\ pc[h] = "new" /\ pc' = [pc EXCEPT ![h] = "check"]
                             /\ UNCHANGED <<balance, status, overdue, terms, moved, mixed>>
    BY <1>6 DEF ReadSession, Confirmable, Goto
  <2>2. Stages[h] = "none" /\ StageOf(h)' = "ordered"
    BY <1>a, <1>b, <2>1 DEF Stages, StageOf, StageInv, Stage
  <2>3. Stages' = [Stages EXCEPT ![h] = "ordered"]
    BY <1>a, <1>b, <2>1, <2>2, StagesAt
  <2>4. B!Order(h, s)
    BY <2>1, <2>2, <2>3, BooksSame, DealsSame DEF B!Order
  <2> QED BY <2>4 DEF B!Next
<1>7. ASSUME NEW h \in Confirms, CheckSession(h) PROVE B!Next \/ UNCHANGED B!vars
  <2>1. /\ UNCHANGED <<balance, status, overdue, terms, target, moved, mixed>>
        /\ \A g \in Confirms \ {h} : pc'[g] = pc[g]
        /\ pc[h] = "check" /\ pc'[h] \in {"expire", "readSource", "done"}
    BY <1>a, <1>b, <1>7 DEF CheckSession, Goto, Reply
  <2>2. CASE pc'[h] = "done"
    BY <2>1, <2>2, GiveUpStep, {h} \in SUBSET Confirms
  <2>3. CASE pc'[h] # "done"
    <3>1. \A g \in Confirms : StageOf(g)' = StageOf(g)
      BY <1>a, <2>1, <2>3 DEF StageOf
    <3> QED BY <2>1, <3>1, UnseenStep
  <2> QED BY <2>2, <2>3
<1>8. ASSUME NEW h \in Confirms, MarkExpired(h) PROVE B!Next
  <2>1. /\ pc[h] = "expire" /\ pc' = [pc EXCEPT ![h] = "done"]
        /\ status' = [status EXCEPT ![target[h]] = "expired"]
        /\ UNCHANGED <<balance, overdue, terms, target, moved, mixed>>
    BY <1>8 DEF MarkExpired, Reply
  <2>2. /\ target[h] \in Creates /\ status[target[h]] # "none" /\ target[h] \in overdue
        /\ moved[h] = "nothing" /\ Stages[h] = "ordered"
    BY <2>1, OrderAtWork DEF IInv, TargetsStored, StageInv, Stage
  <2>3. Stages' = [Stages EXCEPT ![h] = "dropped"]
    <3>1. StageOf(h)' = "dropped"
      BY <1>a, <1>b, <2>1, <2>2 DEF StageOf
    <3> QED BY <1>a, <1>b, <2>1, <3>1, StagesAt
  <2>4. Deals' = Deals
    BY <1>a, <2>1, <2>2, DealsSame
  <2>5. B!Expire(h)
    BY <2>1, <2>2, <2>3, <2>4, BooksSame DEF B!Expire
  <2> QED BY <2>5 DEF B!Next
<1>9. ASSUME NEW h \in Confirms, (ReadSource(h) /\ ~Refuse(h)) \/ ReadDest(h)
      PROVE  UNCHANGED B!vars
  <2>1. /\ UNCHANGED <<balance, status, overdue, terms, target, moved, mixed>>
        /\ \A g \in Confirms \ {h} : pc'[g] = pc[g]
        /\ pc[h] \in {"readSource", "readDest"} /\ pc'[h] \in {"readDest", "writeSource"}
    BY <1>a, <1>b, <1>9 DEF ReadSource, ReadDest, Goto
  <2>2. \A g \in Confirms : StageOf(g)' = StageOf(g)
    BY <1>a, <2>1 DEF StageOf
  <2> QED BY <2>1, <2>2, UnseenStep
<1>10. ASSUME NEW h \in Confirms, WriteSource(h) PROVE B!Next
  <2>1. /\ pc[h] = "writeSource" /\ Write(h, Payer(h), SourceAfter(h), -Amount(h))
        /\ moved' = [moved EXCEPT ![h] = "debited"]
        /\ pc' = [pc EXCEPT ![h] = "writeDest"] \/ pc' = [pc EXCEPT ![h] = "done"]
        /\ UNCHANGED <<status, overdue, terms, target>>
    BY <1>10 DEF WriteSource, Goto, Reply, ReplyLost
  <2>2. /\ h \in Requests /\ Payer(h) \in Wallets /\ Amount(h) \in Int
        /\ read[h].source \in Int
        /\ B!From(h) = Payer(h) /\ B!Sum(h) = Amount(h) /\ Stages[h] = "ordered"
    BY <2>1, AtWork, OrderAtWork
  <2>3. /\ Payer(h) \notin mixed => read[h].source = balance[Payer(h)]
        /\ read[h].source >= Amount(h)
    BY <2>1 DEF AInv, SnapshotsFresh, IInv, SnapshotsCover
  <2>4. SourceAfter(h) \in Int /\ -Amount(h) \in Int
        /\ (Payer(h) \notin mixed => SourceAfter(h) = balance[Payer(h)] + (-Amount(h)))
    BY <2>2, <2>3 DEF SourceAfter
  <2>5. B!Post(Payer(h), -Amount(h), Confirms \ {h})
    BY <2>1, <2>2, <2>4, PostStep
  <2>6. Payer(h) \in DOMAIN Books => Books[Payer(h)] >= Amount(h)
    BY <2>2, <2>3 DEF Books
  <2>7. \E end \in {"debited", "stranded"} : Stages' = [Stages EXCEPT ![h] = end]
    <3>1. StageOf(h)' \in {"debited", "stranded"}
      BY <1>a, <1>b, <2>1 DEF StageOf
    <3> QED BY <1>a, <1>b, <2>1, <3>1, StagesAt
  <2>8. B!Debit(h)
    BY <2>1, <2>2, <2>5, <2>6, <2>7, DealsSame DEF B!Debit
  <2> QED BY <2>8 DEF B!Next
<1>11. ASSUME NEW h \in Confirms, WriteDest(h) PROVE B!Next
  <2>1. /\ pc[h] = "writeDest" /\ Write(h, Payee(h), read[h].dest + Amount(h), Amount(h))
        /\ moved' = [moved EXCEPT ![h] = "both"]
        /\ pc' = [pc EXCEPT ![h] = "logDebit"] \/ pc' = [pc EXCEPT ![h] = "done"]
        /\ UNCHANGED <<status, overdue, terms, target>>
    BY <1>11 DEF WriteDest, Goto, Reply, ReplyLost
  <2>2. /\ h \in Requests /\ Payee(h) \in Wallets /\ Amount(h) \in Int
        /\ read[h].dest \in Int
        /\ B!To(h) = Payee(h) /\ B!Sum(h) = Amount(h) /\ Stages[h] = "debited"
    BY <2>1, AtWork, OrderAtWork
  <2>3. Payee(h) \notin mixed => read[h].dest = balance[Payee(h)]
    BY <2>1 DEF AInv, SnapshotsFresh
  <2>4. B!Post(Payee(h), Amount(h), Confirms \ {h})
    BY <2>1, <2>2, <2>3, PostStep
  <2>5. Stages' = [Stages EXCEPT ![h] = "paid"]
    <3>1. StageOf(h)' = "paid"
      BY <1>a, <2>1 DEF StageOf
    <3> QED BY <1>a, <1>b, <2>1, <3>1, StagesAt
  <2>6. B!Credit(h)
    BY <2>1, <2>2, <2>4, <2>5, DealsSame DEF B!Credit
  <2> QED BY <2>6 DEF B!Next
<1>12. ASSUME NEW h \in Confirms, LogDebit(h) \/ LogCredit(h) PROVE UNCHANGED B!vars
  <2>1. /\ UNCHANGED <<balance, status, overdue, terms, target, moved, mixed>>
        /\ \A g \in Confirms \ {h} : pc'[g] = pc[g]
        /\ pc[h] \in {"logDebit", "logCredit"}
    BY <1>a, <1>b, <1>12 DEF LogDebit, LogCredit, Goto, Reply, ReplyLost
  <2>2. \A g \in Confirms : StageOf(g)' = StageOf(g)
    BY <2>1 DEF StageOf, StageInv, Stage
  <2> QED BY <2>1, <2>2, UnseenStep
<1>13. ASSUME NEW h \in Confirms, MarkConfirmed(h) PROVE B!Next
  <2>1. /\ pc[h] = "markConfirmed" /\ pc' = [pc EXCEPT ![h] = "done"]
        /\ status' = [status EXCEPT ![target[h]] = "confirmed"]
        /\ UNCHANGED <<balance, overdue, terms, target, moved, mixed>>
    BY <1>13 DEF MarkConfirmed, Reply
  <2>2. /\ target[h] \in Creates /\ status[target[h]] # "none"
        /\ moved[h] = "both" /\ Stages[h] = "paid"
    BY <2>1, OrderAtWork DEF IInv, TargetsStored, StageInv, Stage
  <2>3. Stages' = Stages
    <3>1. \A g \in Confirms : StageOf(g)' = StageOf(g)
      BY <1>a, <1>b, <2>1, <2>2 DEF StageOf
    <3> QED BY <3>1, StagesSame
  <2>4. Deals' = Deals
    BY <1>a, <2>1, <2>2, DealsSame
  <2>5. B!Confirm(h)
    BY <2>1, <2>2, <2>3, <2>4, BooksSame DEF B!Confirm
  <2> QED BY <2>5 DEF B!Next
<1>14. ASSUME NEW r \in Recharges, Recharge(r) PROVE UNCHANGED B!vars
  <2>1. /\ UNCHANGED <<balance, status, overdue, target, moved, mixed>>
        /\ \A s \in Creates : terms'[s] = terms[s]
        /\ \A h \in Confirms : pc'[h] = pc[h]
    BY <1>a, <1>b, <1>14 DEF Recharge, Refuse, Goto, Reply
  <2> QED BY <2>1, UnseenStep DEF StageOf
<1>15. ASSUME NEW r \in Recharges, IncrementBalance(r) PROVE B!Next
  <2>1. /\ pc[r] = "inc" /\ Write(r, terms[r].payee, Topped(r), terms[r].amount)
        /\ \A h \in Confirms : pc'[h] = pc[h]
        /\ UNCHANGED <<status, overdue, terms, target, moved>>
    BY <1>a, <1>b, <1>15 DEF IncrementBalance, Reply, ReplyLost
  <2>2. /\ terms[r].payee \in Wallets /\ terms[r].amount > 0 /\ terms[r].amount \in Amounts
        /\ terms[r].amount \in Int /\ balance[terms[r].payee] \in Int
    BY <2>1 DEF IInv, RechargesValid, AmountsSent, TypeOK
  <2>3. r \in Requests /\ Confirms \ {r} = Confirms
    BY DEF Requests
  <2>4. B!Post(terms[r].payee, terms[r].amount, Confirms)
    BY <2>1, <2>2, <2>3, PostStep DEF Topped
  <2>5. Stages' = Stages /\ Deals' = Deals
    BY <2>1, StagesSame, DealsSame DEF StageOf
  <2>6. B!Deposit(terms[r].payee, terms[r].amount)
    BY <2>1, <2>2, <2>4, <2>5 DEF B!Deposit
  <2> QED BY <2>2, <2>6 DEF B!Next
<1>16. ASSUME NEW h \in Requests, DbError(h) PROVE B!Next
  <2>1. /\ UNCHANGED <<balance, status, overdue, terms, target, moved, mixed>>
        /\ pc'[h] = "done" /\ \A g \in Confirms \ {h} : pc'[g] = pc[g]
    BY <1>a, <1>b, <1>16 DEF DbError, Reply
  <2>2. \A g \in {h} \cap Confirms : pc'[g] = "done"
    BY <2>1
  <2>3. \A g \in Confirms \ ({h} \cap Confirms) : pc'[g] = pc[g]
    BY <2>1
  <2>4. {h} \cap Confirms \in SUBSET Confirms
    OBVIOUS
  <2> QED BY <2>1, <2>2, <2>3, <2>4, GiveUpStep
<1>17. ASSUME NEW h \in Requests, Timeout(h) PROVE UNCHANGED B!vars
  BY <1>17, UnseenStep DEF Timeout, StageOf
<1>18. ASSUME Crash PROVE B!Next
  <2>1. /\ UNCHANGED <<balance, status, overdue, terms, target, moved, mixed>>
        /\ \A g \in Confirms : pc'[g] = IF Running(g) THEN "done" ELSE pc[g]
    BY <1>b, <1>18 DEF Crash
  <2>2. {g \in Confirms : Running(g)} \in SUBSET Confirms
    OBVIOUS
  <2> QED BY <2>1, <2>2, GiveUpStep
<1>19. ASSUME UNCHANGED vars PROVE UNCHANGED B!vars
  BY <1>19, UnseenStep DEF vars, StageOf
<1> QED
  BY <1>1, <1>2, <1>3, <1>4, <1>5, <1>6, <1>7, <1>8, <1>9, <1>10, <1>11, <1>12, <1>13,
     <1>14, <1>15, <1>16, <1>17, <1>18, <1>19
  DEF Next, CreateStep, ConfirmStep, RechargeStep, Idle, ReadSession, ReadSource

\* The handlers of the money path implement the bank: for any users, wallets,
\* requests and amounts, every interleaving, failed call and crash is one of the
\* bank's behaviours.
THEOREM PaymentsImplementsBank == Spec => ImplementsBank
<1>1. Init => B!Init /\ StageInv /\ AmountsSent
  BY InitRefines
<1> QED
  BY <1>1, InitIInv, NextIInv, InitAInv, NextAInv, NextStageInv, NextAmountsSent,
     NextRefines, PTL
  DEF Spec, ImplementsBank, B!Spec
=============================================================================
