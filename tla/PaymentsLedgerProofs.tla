------------------------- MODULE PaymentsLedgerProofs -------------------------
(***************************************************************************)
(* What Payments leaves behind, for any users, wallets, requests, amounts  *)
(* and faults: transaction rows, session status and answers tell the truth *)
(* about the money, and a closed or overdue session never pays again.      *)
(***************************************************************************)
EXTENDS PaymentsRefinementProofs

USE UsersAssumption, RequestsAssumption, MoneyAssumption

\* A step leaves confirmation h alone: at most its client gets a 408, or a crash
\* ends it.
LeftAlone(h) ==
  /\ \/ pc'[h] = pc[h] /\ answer'[h] \in {answer[h], "timeout"}
     \/ pc'[h] = "done" /\ answer'[h] \in {answer[h], "lost"} /\ "crash" \in Faults
  /\ moved'[h] = moved[h] /\ read'[h] = read[h] /\ target'[h] = target[h]
  /\ HasDebit(h)' = HasDebit(h) /\ HasCredit(h)' = HasCredit(h)

\* A row by one confirmation is none by another.
LEMMA RowsOfOthers ==
  ASSUME NEW g, NEW row, row.by # g, ledger' = ledger \cup {row}
  PROVE  HasDebit(g)' = HasDebit(g) /\ HasCredit(g)' = HasCredit(g)
<1>1. HasDebit(g)' <=> HasDebit(g)
  BY DEF HasDebit
<1>2. HasCredit(g)' <=> HasCredit(g)
  BY DEF HasCredit
<1> QED BY <1>1, <1>2 DEF HasDebit, HasCredit

LEMMA RowsSame ==
  ASSUME NEW g, ledger' = ledger
  PROVE  HasDebit(g)' = HasDebit(g) /\ HasCredit(g)' = HasCredit(g)
BY DEF HasDebit, HasCredit

\* Rows stay, and count for the confirmation that wrote them.
LEMMA RowsStay ==
  ASSUME NEW g, ledger \subseteq ledger'
  PROVE  /\ HasDebit(g) => HasDebit(g)'
         /\ HasCredit(g) => HasCredit(g)'
BY DEF HasDebit, HasCredit

LEMMA OwnRows ==
  ASSUME NEW h
  PROVE  /\ DebitRow(h) \in ledger' => HasDebit(h)'
         /\ CreditRow(h) \in ledger' => HasCredit(h)'
<1>1. DebitRow(h).by = h /\ DebitRow(h).type = "payment"
  BY DEF DebitRow
<1>2. CreditRow(h).by = h /\ CreditRow(h).type = "recharge"
  BY DEF CreditRow
<1> QED BY <1>1, <1>2 DEF HasDebit, HasCredit

\* A step is a step of confirmation h, or leaves h alone.
LEMMA OwnStepOrNone ==
  ASSUME IInv, [Next]_vars, NEW h \in Confirms
  PROVE  ConfirmStep(h) \/ DbError(h) \/ LeftAlone(h)
<1> USE DEF db, locals, history
<1>a. /\ pc \in [Requests -> CreateSteps \cup ConfirmSteps \cup RechargeSteps]
      /\ answer \in [Requests -> Answers]
      /\ target \in [Confirms -> Creates \cup {None}]
      /\ read \in [Confirms -> [source : Int, dest : Int]]
      /\ moved \in [Confirms -> {"nothing", "debited", "both"}]
      /\ h \in Requests /\ h \notin Creates /\ h \notin Recharges
  BY DEF IInv, TypeOK, ControlOK, Requests
<1>1. ASSUME NEW s \in Creates, CreateStep(s) \/ PassExpiry(s) PROVE LeftAlone(h)
  <2>1. pc'[h] = pc[h] /\ answer'[h] = answer[h]
    BY <1>a, <1>1 DEF CreateStep, RequestPayment, SendPayment, Open, InsertSession,
       SendOtpEmail, PassExpiry, Refuse, Goto, Reply, ReplyLost
  <2>2. UNCHANGED <<moved, read, target, ledger>>
    BY <1>1 DEF CreateStep, RequestPayment, SendPayment, Open, InsertSession,
       SendOtpEmail, PassExpiry, Refuse
  <2> QED BY <2>1, <2>2, RowsSame DEF LeftAlone
<1>2. ASSUME NEW r \in Recharges, RechargeStep(r) PROVE LeftAlone(h)
  <2>1. pc'[h] = pc[h] /\ answer'[h] = answer[h]
    BY <1>a, <1>2 DEF RechargeStep, Recharge, IncrementBalance, Refuse, Goto, Reply, ReplyLost
  <2>2. UNCHANGED <<moved, read, target, ledger>>
    BY <1>2 DEF RechargeStep, Recharge, IncrementBalance, Refuse
  <2> QED BY <2>1, <2>2, RowsSame DEF LeftAlone
<1>3. ASSUME NEW g \in Confirms, g # h, ConfirmStep(g) PROVE LeftAlone(h)
  <2>1. pc'[h] = pc[h] /\ answer'[h] = answer[h]
    BY <1>a, <1>3 DEF ConfirmStep, ReadSession, CheckSession, MarkExpired, ReadSource, ReadDest,
       WriteSource, WriteDest, LogDebit, LogCredit, MarkConfirmed, Refuse, Goto, Reply, ReplyLost
  <2>2. moved'[h] = moved[h] /\ read'[h] = read[h] /\ target'[h] = target[h]
    BY <1>a, <1>3 DEF ConfirmStep, ReadSession, CheckSession, MarkExpired, ReadSource, ReadDest,
       WriteSource, WriteDest, LogDebit, LogCredit, MarkConfirmed, Refuse
  <2>3. \/ ledger' = ledger
        \/ ledger' = ledger \cup {DebitRow(g)} \/ ledger' = ledger \cup {CreditRow(g)}
    BY <1>3 DEF ConfirmStep, ReadSession, CheckSession, MarkExpired, ReadSource, ReadDest,
       WriteSource, WriteDest, LogDebit, LogCredit, MarkConfirmed, Refuse
  <2>4. DebitRow(g).by # h /\ CreditRow(g).by # h
    BY <1>3 DEF DebitRow, CreditRow
  <2>5. HasDebit(h)' = HasDebit(h) /\ HasCredit(h)' = HasCredit(h)
    BY <2>3, <2>4, RowsSame, RowsOfOthers
  <2> QED BY <2>1, <2>2, <2>5 DEF LeftAlone
<1>4. ASSUME NEW g \in Requests, g # h, DbError(g) PROVE LeftAlone(h)
  BY <1>a, <1>4, RowsSame DEF DbError, Reply, LeftAlone
<1>5. ASSUME NEW g \in Requests, Timeout(g) PROVE LeftAlone(h)
  BY <1>a, <1>5, RowsSame DEF Timeout, LeftAlone
<1>6. ASSUME Crash \/ UNCHANGED vars PROVE LeftAlone(h)
  BY <1>a, <1>6, RowsSame DEF Crash, LeftAlone, vars
<1> QED BY <1>1, <1>2, <1>3, <1>4, <1>5, <1>6 DEF Next, Idle

-----------------------------------------------------------------------------
(***************************************************************************)
(* Closed sessions.                                                        *)
(***************************************************************************)
\* A confirmation starts to work only on a pending session, and to pay only on
\* one that is not overdue.
LEMMA WorkStarts ==
  ASSUME IInv, [Next]_vars, NEW h \in Confirms, NEW s \in Creates
  PROVE  /\ Working(h, s)' => Working(h, s) \/ status[s] = "pending"
         /\ Paying(h, s)' => Paying(h, s) \/ s \notin overdue
<1> USE DEF db, locals, history, Working, Paying, Running
<1>a. /\ pc \in [Requests -> CreateSteps \cup ConfirmSteps \cup RechargeSteps]
      /\ target \in [Confirms -> Creates \cup {None}] /\ h \in Requests
  BY DEF IInv, TypeOK, ControlOK, Requests
<1>1. CASE LeftAlone(h)
  BY <1>1 DEF LeftAlone
<1>2. CASE DbError(h)
  BY <1>2, <1>a DEF DbError, Reply
<1>3. CASE ReadSession(h)
  BY <1>3, <1>a DEF ReadSession, Confirmable, Refuse, Goto, Reply
<1>4. CASE CheckSession(h)
  BY <1>4, <1>a DEF CheckSession, PastExpiry, Goto, Reply
<1>5. CASE /\ ConfirmStep(h) /\ ~ReadSession(h) /\ ~CheckSession(h)
  <2>1. target' = target /\ pc[h] \notin {"new", "check", "done"}
    BY <1>5 DEF ConfirmStep, MarkExpired, ReadSource, ReadDest, WriteSource, WriteDest,
       LogDebit, LogCredit, MarkConfirmed, Refuse
  <2>2. pc[h] = "expire" => pc'[h] = "done"
    BY <1>5, <1>a DEF ConfirmStep, MarkExpired, ReadSource, ReadDest, WriteSource, WriteDest,
       LogDebit, LogCredit, MarkConfirmed, Reply
  <2> QED BY <2>1, <2>2
<1> QED BY <1>1, <1>2, <1>3, <1>4, <1>5, OwnStepOrNone

\* No step but that of a confirmation at work changes the status of a stored session.
LEMMA StatusKept ==
  ASSUME IInv, [Next]_vars, NEW s \in Creates,
         status[s] # "none", \A h \in Confirms : ~Working(h, s)
  PROVE  status'[s] = status[s]
<1> USE DEF db, locals, history
<1>a. status \in [Creates -> Statuses]
  BY DEF IInv, TypeOK
<1>1. ASSUME NEW q \in Creates, CreateStep(q) \/ PassExpiry(q) PROVE status'[s] = status[s]
  BY <1>a, <1>1 DEF CreateStep, RequestPayment, SendPayment, Open, InsertSession,
     SendOtpEmail, PassExpiry, Refuse, IInv, SessionsValid
<1>2. ASSUME NEW h \in Confirms, ConfirmStep(h) PROVE status'[s] = status[s]
  BY <1>a, <1>2 DEF ConfirmStep, ReadSession, CheckSession, MarkExpired, ReadSource, ReadDest,
     WriteSource, WriteDest, LogDebit, LogCredit, MarkConfirmed, Refuse, Working, Running
<1>3. ASSUME NEW r \in Recharges, RechargeStep(r) PROVE status' = status
  BY <1>3 DEF RechargeStep, Recharge, IncrementBalance, Refuse
<1>4. ASSUME (\E h \in Requests : DbError(h) \/ Timeout(h)) \/ Crash \/ UNCHANGED vars
      PROVE  status' = status
  BY <1>4 DEF DbError, Timeout, Crash, vars
<1> QED BY <1>1, <1>2, <1>3, <1>4 DEF Next, Idle

\* The clock does not run backwards.
LEMMA OverdueKept == ASSUME [Next]_vars PROVE overdue \subseteq overdue'
BY DEF Next, CreateStep, RequestPayment, SendPayment, Open, InsertSession, SendOtpEmail,
   PassExpiry, ConfirmStep, ReadSession, CheckSession, MarkExpired, ReadSource, ReadDest,
   WriteSource, WriteDest, LogDebit, LogCredit, MarkConfirmed, RechargeStep, Recharge,
   IncrementBalance, DbError, Timeout, Crash, Idle, Refuse, vars, db, locals, history

LEMMA SettledStep ==
  IInv /\ [Next]_vars => [\A s \in Creates : Settled(s) => Settled(s)']_vars
<1> SUFFICES ASSUME IInv, [Next]_vars, NEW s \in Creates, Settled(s) PROVE Settled(s)'
  OBVIOUS
<1>1. status'[s] = status[s]
  BY StatusKept DEF Settled
<1>2. \A h \in Confirms : ~Working(h, s)'
  BY WorkStarts DEF Settled
<1> QED BY <1>1, <1>2 DEF Settled

LEMMA LapsedStep ==
  IInv /\ [Next]_vars => [\A s \in Creates : Lapsed(s) => Lapsed(s)']_vars
<1> SUFFICES ASSUME IInv, [Next]_vars, NEW s \in Creates, Lapsed(s) PROVE Lapsed(s)'
  OBVIOUS
<1> QED BY OverdueKept, WorkStarts DEF Lapsed

\* A session that is confirmed or expired, and on which nobody is at work, is never
\* worked on again, whatever requests arrive and whatever fails.
THEOREM ClosedForGood == Spec => SettledForever
BY SettledStep, InitIInv, NextIInv, PTL DEF Spec, SettledForever

\* A session that is past its time, and that nobody is paying, is never paid again.
THEOREM OverdueForGood == Spec => LapsedForever
BY LapsedStep, InitIInv, NextIInv, PTL DEF Spec, LapsedForever

-----------------------------------------------------------------------------
(***************************************************************************)
(* Rows, status and answers.  Beyond Stage, which ties the program counter *)
(* to the money: which rows a confirmation has written at which step, and  *)
(* that nobody has answered for it before it ends, but the timer.          *)
(***************************************************************************)
Booked(h) ==
  /\ moved[h] # "both" => ~HasDebit(h) /\ ~HasCredit(h)
  /\ pc[h] \in {"logCredit", "markConfirmed"} => HasDebit(h)
  /\ pc[h] = "markConfirmed" => HasCredit(h)
  /\ HasCredit(h) => HasDebit(h)
Told(h) ==
  /\ pc[h] # "done" => answer[h] \in {"none", "timeout"}
  /\ answer[h] = "ok" => moved[h] = "both" /\ HasDebit(h) /\ HasCredit(h)
  /\ answer[h] = "rejected" => moved[h] = "nothing" /\ ~HasDebit(h)
Whole(h) ==
  Faults \subseteq {"slow"} /\ pc[h] = "done" =>
    \/ moved[h] = "nothing" /\ ~HasDebit(h) /\ ~HasCredit(h)
    \/ moved[h] = "both" /\ HasDebit(h) /\ HasCredit(h)
Trail(h) == Booked(h) /\ Told(h) /\ Whole(h)
TrailInv == \A h \in Confirms : Trail(h)

LEMMA TrailLeft ==
  ASSUME NEW h \in Confirms, Trail(h), LeftAlone(h) PROVE Trail(h)'
BY DEF Trail, Booked, Told, Whole, LeftAlone

\* A handler that has moved nothing goes on, or refuses, or fails.
LEMMA TrailEarly ==
  ASSUME IInv, NEW h \in Confirms, Trail(h), moved[h] = "nothing", moved' = moved,
         ledger' = ledger, pc[h] # "done",
         \/ Goto(h, "check") \/ Goto(h, "expire") \/ Goto(h, "readSource")
         \/ Goto(h, "readDest") \/ Goto(h, "writeSource")
         \/ Reply(h, "rejected") \/ (Reply(h, "error") /\ "db" \in Faults)
  PROVE  Trail(h)'
<1>1. HasDebit(h)' = HasDebit(h) /\ HasCredit(h)' = HasCredit(h)
  BY RowsSame
<1>2. ~HasDebit(h) /\ ~HasCredit(h) /\ answer[h] \in {"none", "timeout"}
  BY DEF Trail, Booked, Told
<1>3. /\ pc'[h] \in {"check", "expire", "readSource", "readDest", "writeSource", "done"}
      /\ answer'[h] \in {"none", "timeout", "rejected", "error"}
      /\ pc'[h] # "done" => answer'[h] = answer[h]
  BY <1>2 DEF Goto, Reply, IInv, TypeOK, ControlOK, Requests
<1> QED BY <1>1, <1>2, <1>3 DEF Trail, Booked, Told, Whole

\* What each step of a confirmation does to its own trail.
LEMMA TrailStep ==
  ASSUME IInv, NEW h \in Confirms, Stage(h), Trail(h), ConfirmStep(h)
  PROVE  Trail(h)'
<1> USE DEF db, locals, history
<1>a. /\ pc \in [Requests -> CreateSteps \cup ConfirmSteps \cup RechargeSteps]
      /\ answer \in [Requests -> Answers]
      /\ moved \in [Confirms -> {"nothing", "debited", "both"}] /\ h \in Requests
  BY DEF IInv, TypeOK, ControlOK, Requests
<1>1. CASE ReadSession(h) \/ CheckSession(h) \/ MarkExpired(h) \/ ReadSource(h) \/ ReadDest(h)
  <2>1. moved[h] = "nothing" /\ pc[h] # "done" /\ UNCHANGED <<moved, ledger>>
    BY <1>1 DEF ReadSession, CheckSession, MarkExpired, ReadSource, ReadDest, Refuse, Stage
  <2>2. \/ Goto(h, "check") \/ Goto(h, "expire") \/ Goto(h, "readSource")
        \/ Goto(h, "readDest") \/ Goto(h, "writeSource") \/ Reply(h, "rejected")
    BY <1>1 DEF ReadSession, CheckSession, MarkExpired, ReadSource, ReadDest, Refuse
  <2> QED BY <2>1, <2>2, TrailEarly
<1>2. CASE WriteSource(h) \/ WriteDest(h)
  <2>1. moved[h] # "both" /\ pc[h] # "done" /\ ledger' = ledger
    BY <1>2 DEF WriteSource, WriteDest, Stage
  <2>2. HasDebit(h)' = HasDebit(h) /\ HasCredit(h)' = HasCredit(h)
        /\ ~HasDebit(h) /\ ~HasCredit(h)
    BY <2>1, RowsSame DEF Trail, Booked
  <2>3. /\ \/ pc'[h] \in {"writeDest", "logDebit"} /\ answer'[h] = answer[h]
           \/ pc'[h] = "done" /\ answer'[h] \in {answer[h], "error"} /\ "db" \in Faults
    BY <1>a, <1>2 DEF WriteSource, WriteDest, Goto, Reply, ReplyLost
  <2> QED BY <2>1, <2>2, <2>3 DEF Trail, Booked, Told, Whole
<1>3. CASE LogDebit(h)
  <2>1. HasDebit(h)'
    BY <1>3, OwnRows DEF LogDebit
  <2>2. moved'[h] = "both" /\ pc[h] # "done"
    BY <1>3 DEF LogDebit, Stage
  <2>3. \/ pc'[h] = "logCredit" /\ answer'[h] = answer[h]
        \/ pc'[h] = "done" /\ answer'[h] \in {answer[h], "error"} /\ "db" \in Faults
    BY <1>a, <1>3 DEF LogDebit, Goto, Reply, ReplyLost
  <2> QED BY <2>1, <2>2, <2>3 DEF Trail, Booked, Told, Whole
<1>4. CASE LogCredit(h)
  <2>1. HasDebit(h)' /\ HasCredit(h)'
    BY <1>4, OwnRows, RowsStay DEF LogCredit, Trail, Booked
  <2>2. moved'[h] = "both" /\ pc[h] # "done"
    BY <1>4 DEF LogCredit, Stage
  <2>3. \/ pc'[h] = "markConfirmed" /\ answer'[h] = answer[h]
        \/ pc'[h] = "done" /\ answer'[h] \in {answer[h], "error"}
    BY <1>a, <1>4 DEF LogCredit, Goto, Reply, ReplyLost
  <2> QED BY <2>1, <2>2, <2>3 DEF Trail, Booked, Told, Whole
<1>5. CASE MarkConfirmed(h)
  <2>1. HasDebit(h)' /\ HasCredit(h)'
    BY <1>5, RowsSame DEF MarkConfirmed, Trail, Booked
  <2>2. moved'[h] = "both" /\ pc[h] # "done"
    BY <1>5 DEF MarkConfirmed, Stage
  <2>3. pc'[h] = "done" /\ answer'[h] \in {answer[h], "ok"}
    BY <1>a, <1>5 DEF MarkConfirmed, Reply
  <2> QED BY <2>1, <2>2, <2>3 DEF Trail, Booked, Told, Whole
<1> QED BY <1>1, <1>2, <1>3, <1>4, <1>5 DEF ConfirmStep

\* A call that fails: a handler that has moved nothing may refuse, one that has
\* moved money reports an error, and one that has written both rows a success.
LEMMA TrailError ==
  ASSUME IInv, NEW h \in Confirms, Stage(h), Trail(h), DbError(h)
  PROVE  Trail(h)'
<1> USE DEF db, locals, history
<1>a. /\ pc \in [Requests -> CreateSteps \cup ConfirmSteps \cup RechargeSteps]
      /\ answer \in [Requests -> Answers] /\ h \in Requests /\ pc[h] \in ConfirmSteps
  BY DEF IInv, TypeOK, ControlOK, Requests
<1>1. HasDebit(h)' = HasDebit(h) /\ HasCredit(h)' = HasCredit(h)
      /\ moved' = moved /\ "db" \in Faults
  BY RowsSame DEF DbError
<1>2. PICK a \in ErrorAnswers(h) : Reply(h, a)
  BY DEF DbError
<1>3. /\ a = "rejected" => pc[h] \in {"new", "expire"}
      /\ a = "ok" => pc[h] = "markConfirmed"
      /\ a \in {"rejected", "ok", "error"}
  BY <1>a DEF ErrorAnswers, DbError, ConfirmSteps
<1>4. pc'[h] = "done" /\ answer'[h] \in {answer[h], a} /\ pc[h] # "done"
  BY <1>a, <1>2 DEF Reply, DbError
<1>5. /\ a = "rejected" => moved[h] = "nothing"
      /\ a = "ok" => moved[h] = "both"
  BY <1>3 DEF Stage
<1> QED BY <1>1, <1>3, <1>4, <1>5 DEF Trail, Booked, Told, Whole

LEMMA InitTrail == Init => TrailInv
BY DEF Init, TrailInv, Trail, Booked, Told, Whole, HasDebit, HasCredit, Requests

LEMMA NextTrail == IInv /\ StageInv /\ TrailInv /\ [Next]_vars => TrailInv'
<1> SUFFICES ASSUME IInv, StageInv, TrailInv, [Next]_vars, NEW h \in Confirms
             PROVE  Trail(h)'
  BY DEF TrailInv
<1> QED BY OwnStepOrNone, TrailLeft, TrailStep, TrailError DEF StageInv, TrailInv

\* What the client is told of a confirmation is true of money and rows.
THEOREM AnswersTrue == Spec => []AnswerIsTruthful
<1>1. TrailInv => AnswerIsTruthful
  BY DEF TrailInv, Trail, Told, AnswerIsTruthful
<1>2. Init => StageInv
  BY InitRefines
<1> QED BY <1>1, <1>2, InitIInv, NextIInv, NextStageInv, InitTrail, NextTrail, PTL DEF Spec

\* Without database errors and crashes a confirmation does all of its work or none,
\* with a timeout at any moment.
THEOREM WholeOrNothing == Spec => []AllOrNothing
<1>1. TrailInv => AllOrNothing
  BY DEF TrailInv, Trail, Whole, AllOrNothing
<1>2. Init => StageInv
  BY InitRefines
<1> QED BY <1>1, <1>2, InitIInv, NextIInv, NextStageInv, InitTrail, NextTrail, PTL DEF Spec

-----------------------------------------------------------------------------
(***************************************************************************)
(* The rows themselves.  A row repeats what its confirmation has in its    *)
(* locals, which no longer change once the money has moved.                *)
(***************************************************************************)
SessionsOfRows == \A row \in ledger : status[row.session] # "none"
PaperInv == LedgerFaithful /\ SessionsOfRows /\ ConfirmedIsPaid

\* The snapshots are taken before the money moves.
LEMMA StableRead ==
  ASSUME IInv, [Next]_vars, NEW h \in Confirms, pc[h] \notin {"readSource", "readDest"}
  PROVE  read'[h] = read[h]
<1> USE DEF db, locals, history
<1>1. CASE LeftAlone(h) \/ DbError(h)
  BY <1>1 DEF LeftAlone, DbError
<1>2. CASE ConfirmStep(h)
  BY <1>2 DEF ConfirmStep, ReadSession, CheckSession, MarkExpired, ReadSource, ReadDest,
     WriteSource, WriteDest, LogDebit, LogCredit, MarkConfirmed, Refuse
<1> QED BY <1>1, <1>2, OwnStepOrNone

\* A session that is stored stays stored.
LEMMA StoredStays ==
  ASSUME IInv, [Next]_vars, NEW s \in Creates, status[s] # "none"
  PROVE  status'[s] # "none"
<1> USE DEF db, locals, history
<1>a. status \in [Creates -> Statuses]
  BY DEF IInv, TypeOK
<1>1. ASSUME NEW q \in Creates, CreateStep(q) \/ PassExpiry(q) PROVE status'[s] # "none"
  BY <1>a, <1>1 DEF CreateStep, RequestPayment, SendPayment, Open, InsertSession,
     SendOtpEmail, PassExpiry, Refuse
<1>2. ASSUME NEW h \in Confirms, ConfirmStep(h) PROVE status'[s] # "none"
  BY <1>a, <1>2 DEF ConfirmStep, ReadSession, CheckSession, MarkExpired, ReadSource, ReadDest,
     WriteSource, WriteDest, LogDebit, LogCredit, MarkConfirmed, Refuse
<1>3. ASSUME NEW r \in Recharges, RechargeStep(r) PROVE status' = status
  BY <1>3 DEF RechargeStep, Recharge, IncrementBalance, Refuse
<1>4. ASSUME (\E h \in Requests : DbError(h) \/ Timeout(h)) \/ Crash \/ UNCHANGED vars
      PROVE  status' = status
  BY <1>4 DEF DbError, Timeout, Crash, vars
<1> QED BY <1>1, <1>2, <1>3, <1>4 DEF Next, Idle

\* Rows are only ever added, by a confirmation that has moved the money; a session
\* is confirmed only by one that has written both rows.
LEMMA WhoWrites ==
  ASSUME IInv, [Next]_vars
  PROVE  /\ \/ ledger' = ledger
            \/ \E h \in Confirms : LogDebit(h) \/ LogCredit(h)
         /\ \A s \in Creates : status'[s] = "confirmed" =>
              \/ status[s] = "confirmed"
              \/ \E h \in Confirms : pc[h] = "markConfirmed" /\ target[h] = s
<1> USE DEF db, locals, history
<1>a. status \in [Creates -> Statuses]
  BY DEF IInv, TypeOK
<1>1. ASSUME NEW q \in Creates, CreateStep(q) \/ PassExpiry(q)
      PROVE  /\ ledger' = ledger
             /\ \A s \in Creates : status'[s] = "confirmed" => status[s] = "confirmed"
  BY <1>a, <1>1 DEF CreateStep, RequestPayment, SendPayment, Open, InsertSession,
     SendOtpEmail, PassExpiry, Refuse
<1>2. ASSUME NEW h \in Confirms, ConfirmStep(h)
      PROVE  /\ ledger' = ledger \/ LogDebit(h) \/ LogCredit(h)
             /\ \A s \in Creates : status'[s] = "confirmed" =>
                  status[s] = "confirmed" \/ (pc[h] = "markConfirmed" /\ target[h] = s)
  BY <1>a, <1>2 DEF ConfirmStep, ReadSession, CheckSession, MarkExpired, ReadSource, ReadDest,
     WriteSource, WriteDest, LogDebit, LogCredit, MarkConfirmed, Refuse
<1>3. ASSUME NEW r \in Recharges, RechargeStep(r) PROVE UNCHANGED <<status, ledger>>
  BY <1>3 DEF RechargeStep, Recharge, IncrementBalance, Refuse
<1>4. ASSUME (\E h \in Requests : DbError(h) \/ Timeout(h)) \/ Crash \/ UNCHANGED vars
      PROVE  UNCHANGED <<status, ledger>>
  BY <1>4 DEF DbError, Timeout, Crash, vars
<1> QED BY <1>1, <1>2, <1>3, <1>4 DEF Next, Idle

LEMMA LedgerGrows == ASSUME IInv, [Next]_vars PROVE ledger \subseteq ledger'
BY WhoWrites DEF LogDebit, LogCredit

\* Once both wallets are written, nothing the rows are made of changes.
LEMMA PaidStays ==
  ASSUME IInv, StageInv, [Next]_vars, NEW h \in Confirms, moved[h] = "both"
  PROVE  /\ moved'[h] = "both" /\ target'[h] = target[h] /\ read'[h] = read[h]
         /\ target[h] \in Creates /\ status[target[h]] # "none" =>
              DebitRow(h)' = DebitRow(h) /\ CreditRow(h)' = CreditRow(h)
<1>1. pc[h] \in {"logDebit", "logCredit", "markConfirmed", "done"}
  BY DEF StageInv, Stage, IInv, TypeOK, ControlOK, ConfirmSteps
<1>2. target'[h] = target[h] /\ read'[h] = read[h]
  BY <1>1, StableTarget, StableRead
<1>3. moved'[h] = "both"
  <2>1. CASE LeftAlone(h) \/ DbError(h)
    BY <2>1 DEF LeftAlone, DbError, history
  <2>2. CASE ConfirmStep(h)
    BY <1>1, <2>2 DEF ConfirmStep, ReadSession, CheckSession, MarkExpired, ReadSource, ReadDest,
       WriteSource, WriteDest, LogDebit, LogCredit, MarkConfirmed, history
  <2> QED BY <2>1, <2>2, OwnStepOrNone
<1>4. ASSUME target[h] \in Creates, status[target[h]] # "none"
      PROVE  DebitRow(h)' = DebitRow(h) /\ CreditRow(h)' = CreditRow(h)
  <2>1. pc[target[h]] # "new"
    BY <1>4 DEF IInv, SessionsValid
  <2>2. terms'[target[h]] = terms[target[h]]
    BY <1>4, <2>1, StableSession
  <2> QED BY <1>2, <2>2 DEF DebitRow, CreditRow, Payer, Payee, Amount
<1> QED BY <1>2, <1>3, <1>4

LEMMA NextPaper ==
  IInv /\ StageInv /\ TrailInv /\ PaperInv /\ [Next]_vars => PaperInv'
<1> SUFFICES ASSUME IInv, StageInv, TrailInv, PaperInv, [Next]_vars PROVE PaperInv'
  OBVIOUS
<1>a. ledger \subseteq Rows
  BY DEF IInv, TypeOK
<1>1. ASSUME NEW row \in ledger
      PROVE  /\ row \in {DebitRow(row.by), CreditRow(row.by)}'
             /\ moved'[row.by] = "both" /\ HasDebit(row.by)'
             /\ status'[row.session] # "none"
  <2>1. row.by \in Confirms /\ row.session \in Creates
    BY <1>a DEF Rows
  <2>2. /\ row \in {DebitRow(row.by), CreditRow(row.by)}
        /\ moved[row.by] = "both" /\ HasDebit(row.by) /\ status[row.session] # "none"
    BY DEF PaperInv, LedgerFaithful, SessionsOfRows
  <2>3. target[row.by] = row.session
    BY <2>2 DEF DebitRow, CreditRow
  <2> QED BY <2>1, <2>2, <2>3, PaidStays, StoredStays, LedgerGrows, RowsStay
<1>2. ASSUME NEW h \in Confirms, LogDebit(h) \/ LogCredit(h), NEW row \in ledger' \ ledger
      PROVE  /\ row \in {DebitRow(row.by), CreditRow(row.by)}'
             /\ moved'[row.by] = "both" /\ HasDebit(row.by)'
             /\ status'[row.session] # "none"
  <2>1. row \in {DebitRow(h), CreditRow(h)} /\ UNCHANGED <<terms, target, read, moved, status>>
    BY <1>2 DEF LogDebit, LogCredit, locals, history
  <2>2. row.by = h /\ row.session = target[h]
    BY <2>1 DEF DebitRow, CreditRow
  <2>3. moved[h] = "both" /\ status[target[h]] # "none"
    BY <1>2 DEF LogDebit, LogCredit, StageInv, Stage, IInv, TargetsStored
  <2>4. HasDebit(h)'
    BY <1>2, OwnRows, RowsStay, LedgerGrows
    DEF LogDebit, LogCredit, TrailInv, Trail, Booked
  <2>5. DebitRow(h)' = DebitRow(h) /\ CreditRow(h)' = CreditRow(h)
    BY <2>1 DEF DebitRow, CreditRow, Payer, Payee, Amount
  <2> QED BY <2>1, <2>2, <2>3, <2>4, <2>5
<1>3. LedgerFaithful' /\ SessionsOfRows'
  BY <1>1, <1>2, WhoWrites DEF LedgerFaithful, SessionsOfRows
<1>4. ASSUME NEW s \in Creates, status'[s] = "confirmed"
      PROVE  \E h \in Confirms :
               target'[h] = s /\ moved'[h] = "both" /\ HasDebit(h)' /\ HasCredit(h)'
  <2>1. PICK h \in Confirms :
          target[h] = s /\ moved[h] = "both" /\ HasDebit(h) /\ HasCredit(h)
    BY <1>4, WhoWrites
    DEF PaperInv, ConfirmedIsPaid, StageInv, Stage, TrailInv, Trail, Booked
  <2> QED BY <2>1, PaidStays, LedgerGrows, RowsStay
<1>5. ConfirmedIsPaid'
  BY <1>4 DEF ConfirmedIsPaid
<1> QED BY <1>3, <1>5 DEF PaperInv

LEMMA InitPaper == Init => PaperInv
BY DEF Init, PaperInv, LedgerFaithful, SessionsOfRows, ConfirmedIsPaid

LEMMA PaperAlways == Spec => []PaperInv
<1>1. Init => StageInv
  BY InitRefines
<1> QED BY <1>1, InitIInv, NextIInv, NextStageInv, InitTrail, NextTrail, InitPaper, NextPaper,
        PTL DEF Spec

\* Every transaction row tells what its confirmation did, for ever.
THEOREM LedgerTrue == Spec => []LedgerFaithful
<1>1. PaperInv => LedgerFaithful
  BY DEF PaperInv
<1> QED BY <1>1, PaperAlways, PTL

\* There is no status CONFIRMED without the money and both rows.
THEOREM ConfirmedPaid == Spec => []ConfirmedIsPaid
<1>1. PaperInv => ConfirmedIsPaid
  BY DEF PaperInv
<1> QED BY <1>1, PaperAlways, PTL
=============================================================================
