------------------------------ MODULE Payments ------------------------------
(***************************************************************************)
(* The money path of the wallet server: opening a payment session, the     *)
(* confirmation that moves the money, and wallet recharges, as concurrent  *)
(* HTTP handlers over MongoDB.  No handler uses a transaction or a lock;   *)
(* what is atomic is one database call together with the synchronous code  *)
(* that runs when it returns.  Each action is one such stretch of a        *)
(* handler, and pc[h] names the call the handler is about to make.         *)
(*                                                                         *)
(* A request is handled once: Creates, Confirms and Recharges are the      *)
(* requests of a behaviour.  A session is named by the request that        *)
(* creates it, a wallet by the user who owns it.                           *)
(***************************************************************************)
EXTENDS Integers, FiniteSets, FiniteSetsExt

CONSTANTS
  Users,      \* signed-in users
  Wallets,    \* the users whose registration got as far as the wallet
  Creates,    \* POST /payments/request and /payments/send requests
  Confirms,   \* POST /payments/confirm requests
  Recharges,  \* POST /customers/wallet/recharge requests
  Amounts,    \* the amounts clients send
  Start,      \* the balance each wallet starts with
  Faults,     \* what the environment may do: "slow", "db", "crash"
  None        \* no session, no user

Requests == Creates \cup Confirms \cup Recharges

ASSUME UsersAssumption == Wallets \subseteq Users /\ None \notin Users
ASSUME RequestsAssumption ==
  /\ Creates \cap Confirms = {} /\ Creates \cap Recharges = {}
  /\ Confirms \cap Recharges = {} /\ None \notin Requests
ASSUME MoneyAssumption == Amounts \subseteq Int /\ Start \in [Wallets -> Nat]
ASSUME FaultsAssumption == Faults \subseteq {"slow", "db", "crash"}

VARIABLES
  balance,  \* wallets collection: the balance of each wallet
  status,   \* paymentsessions collection: "none" until the row is inserted
  overdue,  \* the sessions whose expiresAt the clock has passed
  ledger,   \* transactions collection: a set of rows
  pc,       \* the database call each handler makes next
  answer,   \* what the client of each request was told
  terms,    \* payer, payee and amount: of a session, and of a recharge
  target,   \* the session each confirmation found
  read,     \* the wallet balances a confirmation read and keeps
  receipt,  \* the balances a recharge replies
  moved,    \* history: how far each confirmation moved the money
  owed,     \* history: the balance the applied operations add up to
  mixed     \* history: wallets written under a confirmation's snapshot

db      == <<balance, status, ledger>>
locals  == <<terms, target, read, receipt>>
history == <<moved, owed, mixed>>
vars    == <<balance, status, overdue, ledger, pc, answer, terms, target,
             read, receipt, moved, owed, mixed>>

CreateSteps   == {"new", "insert", "email", "done"}
ConfirmSteps  == {"new", "check", "expire", "readSource", "readDest",
                  "writeSource", "writeDest", "logDebit", "logCredit",
                  "markConfirmed", "done"}
RechargeSteps == {"new", "inc", "done"}
Answers == {"none", "ok", "rejected", "error", "timeout", "lost"}
Statuses == {"none", "pending", "confirmed", "expired"}

Payer(h)  == terms[target[h]].payer
Payee(h)  == terms[target[h]].payee
Amount(h) == terms[target[h]].amount

DebitRow(h) ==
  [by |-> h, session |-> target[h], type |-> "payment", wallet |-> Payer(h),
   amount |-> Amount(h), before |-> read[h].source,
   after |-> read[h].source - Amount(h)]
\* Mutant: the credit is booked on the payer's wallet.
CreditRow_payer(h) ==
  [DebitRow(h) EXCEPT !.type = "recharge", !.before = read[h].dest,
                      !.after = read[h].dest + Amount(h)]
CreditRow(h) ==
  [by |-> h, session |-> target[h], type |-> "recharge", wallet |-> Payee(h),
   amount |-> Amount(h), before |-> read[h].dest,
   after |-> read[h].dest + Amount(h)]

Init ==
  /\ balance = Start
  /\ status = [s \in Creates |-> "none"]
  /\ overdue = {}
  /\ ledger = {}
  /\ pc = [h \in Requests |-> "new"]
  /\ answer = [h \in Requests |-> "none"]
  /\ terms = [h \in Creates \cup Recharges |->
                [payer |-> None, payee |-> None, amount |-> 0]]
  /\ target = [h \in Confirms |-> None]
  /\ read = [h \in Confirms |-> [source |-> 0, dest |-> 0]]
  /\ receipt = [h \in Recharges |-> [previous |-> 0, new |-> 0]]
  /\ moved = [h \in Confirms |-> "nothing"]
  /\ owed = Start
  /\ mixed = {}

-----------------------------------------------------------------------------
(***************************************************************************)
(* How a handler goes on.  A handler that has been answered for (408 by    *)
(* the timeout interceptor) runs to its end; its own answer goes nowhere.  *)
(***************************************************************************)
Goto(h, step) == pc' = [pc EXCEPT ![h] = step] /\ UNCHANGED answer

Reply(h, a) ==
  /\ pc' = [pc EXCEPT ![h] = "done"]
  /\ answer' = [answer EXCEPT ![h] = IF @ = "none" THEN a ELSE @]

Refuse(h) == Reply(h, "rejected") /\ UNCHANGED <<db, overdue, locals, history>>

\* A write was applied; the driver may still report an error (lost reply),
\* which the services turn into a 500.
ReplyLost(h) == "db" \in Faults /\ Reply(h, "error")

\* The confirmations that will yet write wallet w from a balance they read.
Holds(h, w) ==
  \/ pc[h] \in {"readDest", "writeSource"} /\ w = Payer(h)
  \/ pc[h] \in {"writeSource", "writeDest"} /\ w = Payee(h)

\* h writes wallet w: the new balance, what it should be, and whether some
\* other confirmation now holds a stale balance of w.
Write(h, w, to, change) ==
  /\ balance' = [balance EXCEPT ![w] = to]
  /\ owed' = [owed EXCEPT ![w] = @ + change]
  /\ mixed' = IF \E g \in Confirms \ {h} : Holds(g, w)
                THEN mixed \cup {w} ELSE mixed

-----------------------------------------------------------------------------
(***************************************************************************)
(* requestPayment and sendPayment.  The lookups read rows that never       *)
(* change, but for the payer's balance: one step.                          *)
(***************************************************************************)
\* Mutant: a user may pay themselves.
Payable_self(u, v, a) == a > 0 /\ {u, v} \subseteq Wallets /\ balance[u] >= a
Payable(u, v, a) ==
  /\ a > 0
  /\ {u, v} \subseteq Wallets
  /\ u # v
  /\ balance[u] >= a

Open(s, u, v, a) ==
  \/ /\ Payable(u, v, a)
     /\ terms' = [terms EXCEPT ![s] = [payer |-> u, payee |-> v, amount |-> a]]
     /\ Goto(s, "insert")
     /\ UNCHANGED <<db, overdue, target, read, receipt, history>>
  \/ ~Payable(u, v, a) /\ Refuse(s)

RequestPayment(s) ==
  /\ pc[s] = "new"
  /\ \E u \in Users, merchant \in Users, a \in Amounts : Open(s, u, merchant, a)

\* The recipient is the customer with this document and this phone, both unique.
SendPayment(s) ==
  /\ pc[s] = "new"
  /\ \E u \in Users, document \in Users, phone \in Users, a \in Amounts :
       \/ document = phone /\ Open(s, u, document, a)
       \/ document # phone /\ Refuse(s)

InsertSession(s) ==
  /\ pc[s] = "insert"
  /\ status' = [status EXCEPT ![s] = "pending"]
  /\ Goto(s, "email") \/ ReplyLost(s)
  /\ UNCHANGED <<balance, ledger, overdue, locals, history>>

\* _sendOtpEmail swallows every error.
SendOtpEmail(s) ==
  /\ pc[s] = "email"
  /\ Reply(s, "ok")
  /\ UNCHANGED <<db, overdue, locals, history>>

\* Five minutes after it was made, the session is past its expiresAt.  Nothing
\* happens then: expireSessions has no caller.
PassExpiry(s) ==
  /\ status[s] # "none"
  /\ s \notin overdue
  /\ overdue' = overdue \cup {s}
  /\ UNCHANGED <<db, pc, answer, locals, history>>

-----------------------------------------------------------------------------
(***************************************************************************)
(* confirmPayment.                                                         *)
(***************************************************************************)
\* The session is looked up by id and by the customer of the caller (404), and
\* its status is checked in the snapshot (400).
\* Mutant: an expired session may be confirmed again.
Confirmable_expired(s, u) ==
  status[s] \in {"pending", "expired"} /\ terms[s].payer = u
Confirmable(s, u) == status[s] = "pending" /\ terms[s].payer = u

ReadSession(h) ==
  /\ pc[h] = "new"
  /\ \E u \in Users, s \in Creates :
       \/ /\ Confirmable(s, u)
          /\ target' = [target EXCEPT ![h] = s]
          /\ Goto(h, "check")
          /\ UNCHANGED <<db, overdue, terms, read, receipt, history>>
       \/ ~Confirmable(s, u) /\ Refuse(h)

\* Mutant: the status is believed, not the clock.
PastExpiry_status(h) == status[target[h]] = "expired"
PastExpiry(h) == target[h] \in overdue

\* The clock, then the OTP (a hash comparison, right or wrong).
\* Mutant: a wrong OTP expires the session.
CheckSession_otp(h) ==
  /\ pc[h] = "check"
  /\ Goto(h, "expire") \/ (~PastExpiry(h) /\ Goto(h, "readSource"))
  /\ UNCHANGED <<db, overdue, locals, history>>
CheckSession(h) ==
  /\ pc[h] = "check"
  /\ \/ PastExpiry(h) /\ Goto(h, "expire")
     \/ ~PastExpiry(h) /\ Goto(h, "readSource")
     \/ ~PastExpiry(h) /\ Reply(h, "rejected")
  /\ UNCHANGED <<db, overdue, locals, history>>

\* Mutants: the session is cancelled instead; the update is forgotten.
MarkExpired_cancel(h) ==
  /\ pc[h] = "expire"
  /\ status' = [status EXCEPT ![target[h]] = "cancelled"]
  /\ Reply(h, "rejected")
  /\ UNCHANGED <<balance, ledger, overdue, locals, history>>
MarkExpired_forget(h) == pc[h] = "expire" /\ Refuse(h)
MarkExpired(h) ==
  /\ pc[h] = "expire"
  /\ status' = [status EXCEPT ![target[h]] = "expired"]
  /\ Reply(h, "rejected")
  /\ UNCHANGED <<balance, ledger, overdue, locals, history>>

\* Mutant: only an empty wallet is turned away.
Covered_some(h) == balance[Payer(h)] > 0
Covered(h) == balance[Payer(h)] >= Amount(h)

ReadSource(h) ==
  /\ pc[h] = "readSource"
  /\ \/ /\ Covered(h)
        /\ read' = [read EXCEPT ![h].source = balance[Payer(h)]]
        /\ Goto(h, "readDest")
        /\ UNCHANGED <<db, overdue, terms, target, receipt, history>>
     \/ ~Covered(h) /\ Refuse(h)

ReadDest(h) ==
  /\ pc[h] = "readDest"
  /\ read' = [read EXCEPT ![h].dest = balance[Payee(h)]]
  /\ Goto(h, "writeSource")
  /\ UNCHANGED <<db, overdue, terms, target, receipt, history>>

\* $set to the balance computed from the snapshot.
\* Mutant: an atomic $inc, without a condition on the balance.
SourceAfter_inc(h) == balance[Payer(h)] - Amount(h)
SourceAfter(h) == read[h].source - Amount(h)

WriteSource(h) ==
  /\ pc[h] = "writeSource"
  /\ Write(h, Payer(h), SourceAfter(h), -Amount(h))
  /\ moved' = [moved EXCEPT ![h] = "debited"]
  /\ Goto(h, "writeDest") \/ ReplyLost(h)
  /\ UNCHANGED <<status, ledger, overdue, locals>>

WriteDest(h) ==
  /\ pc[h] = "writeDest"
  /\ Write(h, Payee(h), read[h].dest + Amount(h), Amount(h))
  /\ moved' = [moved EXCEPT ![h] = "both"]
  /\ Goto(h, "logDebit") \/ ReplyLost(h)
  /\ UNCHANGED <<status, ledger, overdue, locals>>

\* Mutants: the row shows the balance the wallet has by now; the credit row is
\* left out.
LogDebit_reread(h) ==
  /\ pc[h] = "logDebit"
  /\ ledger' = ledger \cup {[DebitRow(h) EXCEPT !.after = balance[Payer(h)]]}
  /\ Goto(h, "logCredit") \/ ReplyLost(h)
  /\ UNCHANGED <<balance, status, overdue, locals, history>>
LogDebit_only(h) ==
  /\ pc[h] = "logDebit"
  /\ ledger' = ledger \cup {DebitRow(h)}
  /\ Goto(h, "markConfirmed") \/ ReplyLost(h)
  /\ UNCHANGED <<balance, status, overdue, locals, history>>
LogDebit(h) ==
  /\ pc[h] = "logDebit"
  /\ ledger' = ledger \cup {DebitRow(h)}
  /\ Goto(h, "logCredit") \/ ReplyLost(h)
  /\ UNCHANGED <<balance, status, overdue, locals, history>>

LogCredit(h) ==
  /\ pc[h] = "logCredit"
  /\ ledger' = ledger \cup {CreditRow(h)}
  /\ Goto(h, "markConfirmed") \/ ReplyLost(h)
  /\ UNCHANGED <<balance, status, overdue, locals, history>>

\* Unconditional, whatever the status has become.
MarkConfirmed(h) ==
  /\ pc[h] = "markConfirmed"
  /\ status' = [status EXCEPT ![target[h]] = "confirmed"]
  /\ Reply(h, "ok")
  /\ UNCHANGED <<balance, ledger, overdue, locals, history>>

-----------------------------------------------------------------------------
(***************************************************************************)
(* rechargeByUserId: the balance is read for the receipt and incremented.  *)
(***************************************************************************)
Recharge(r) ==
  /\ pc[r] = "new"
  /\ \E u \in Users, a \in Amounts :
       \/ /\ u \in Wallets /\ a > 0
          /\ terms' = [terms EXCEPT ![r] =
                         [payer |-> None, payee |-> u, amount |-> a]]
          /\ receipt' = [receipt EXCEPT ![r].previous = balance[u]]
          /\ Goto(r, "inc")
          /\ UNCHANGED <<db, overdue, target, read, history>>
       \/ ~(u \in Wallets /\ a > 0) /\ Refuse(r)

\* Mutant: $set to the balance that was read.
Topped_set(r) == receipt[r].previous + terms[r].amount
Topped(r) == balance[terms[r].payee] + terms[r].amount

IncrementBalance(r) ==
  /\ pc[r] = "inc"
  /\ Write(r, terms[r].payee, Topped(r), terms[r].amount)
  /\ receipt' = [receipt EXCEPT ![r].new = Topped(r)]
  /\ Reply(r, "ok") \/ ReplyLost(r)
  /\ UNCHANGED <<status, ledger, overdue, terms, target, read, moved>>

-----------------------------------------------------------------------------
(***************************************************************************)
(* The environment.                                                        *)
(***************************************************************************)
Running(h) == pc[h] \notin {"new", "done"}

\* What a failed call makes of the request: confirmPayment ignores the result
\* of updateStatus, _sendOtpEmail its own errors, and findByIdAndCustomerId
\* reports an error as "not found".
\* Mutant: an error of the driver is reported as a bad request.
ErrorAnswers_bad(h) == {"rejected"}
ErrorAnswers(h) ==
  CASE pc[h] = "expire"                      -> {"rejected"}
    [] pc[h] \in {"email", "markConfirmed"}  -> {"ok"}
    [] pc[h] = "new" /\ h \in Confirms       -> {"error", "rejected"}
    [] OTHER                                 -> {"error"}

\* The call pc[h] fails and changes nothing.
DbError(h) ==
  /\ "db" \in Faults
  /\ pc[h] \notin {"check", "done"}
  /\ \E a \in ErrorAnswers(h) : Reply(h, a)
  /\ UNCHANGED <<db, overdue, locals, history>>

\* 5 s have passed: 408, and the handler runs on.
\* Mutants: the handler is stopped; only confirmations are timed.
Timeout_stop(h) ==
  /\ "slow" \in Faults
  /\ Running(h) /\ Reply(h, "timeout")
  /\ UNCHANGED <<db, overdue, locals, history>>
Timeout_confirms(h) ==
  /\ "slow" \in Faults
  /\ h \in Confirms /\ Running(h) /\ answer[h] = "none"
  /\ answer' = [answer EXCEPT ![h] = "timeout"]
  /\ UNCHANGED <<db, overdue, pc, locals, history>>
Timeout(h) ==
  /\ "slow" \in Faults
  /\ Running(h) /\ answer[h] = "none"
  /\ answer' = [answer EXCEPT ![h] = "timeout"]
  /\ UNCHANGED <<db, overdue, pc, locals, history>>

\* The process dies and is restarted; requests that come later find the database.
Crash ==
  /\ "crash" \in Faults
  /\ \E h \in Requests : Running(h)
  /\ pc' = [h \in Requests |-> IF Running(h) THEN "done" ELSE pc[h]]
  /\ answer' = [h \in Requests |->
                  IF Running(h) /\ answer[h] = "none" THEN "lost" ELSE answer[h]]
  /\ UNCHANGED <<db, overdue, locals, history>>

\* Every request has been handled.
Idle == (\A h \in Requests : pc[h] = "done") /\ UNCHANGED vars

CreateStep(s) ==
  RequestPayment(s) \/ SendPayment(s) \/ InsertSession(s) \/ SendOtpEmail(s)
ConfirmStep(h) ==
  \/ ReadSession(h) \/ CheckSession(h) \/ MarkExpired(h)
  \/ ReadSource(h) \/ ReadDest(h) \/ WriteSource(h) \/ WriteDest(h)
  \/ LogDebit(h) \/ LogCredit(h) \/ MarkConfirmed(h)
RechargeStep(r) == Recharge(r) \/ IncrementBalance(r)

Next ==
  \/ \E s \in Creates : CreateStep(s) \/ PassExpiry(s)
  \/ \E h \in Confirms : ConfirmStep(h)
  \/ \E r \in Recharges : RechargeStep(r)
  \/ \E h \in Requests : DbError(h) \/ Timeout(h)
  \/ Crash
  \/ Idle

Spec == Init /\ [][Next]_vars

\* The event loop and MongoDB serve every handler and the interceptor's timer fires;
\* the mail server may hang.
FairSpec ==
  /\ Spec
  /\ \A s \in Creates : WF_vars(InsertSession(s))
  /\ \A h \in Confirms : WF_vars(ConfirmStep(h) /\ Running(h))
  /\ \A r \in Recharges : WF_vars(RechargeStep(r) /\ Running(r))
  /\ \A h \in Requests : WF_vars(Timeout(h))

-----------------------------------------------------------------------------
(***************************************************************************)
(* Properties.                                                             *)
(***************************************************************************)
\* Every variable has its type; rows, snapshots and balances are integers
\* (that balances are not negative is a property of its own).
Terms == [payer : Users \cup {None}, payee : Users \cup {None}, amount : Int]
Rows == [by : Confirms, session : Creates, type : {"payment", "recharge"},
         wallet : Wallets, amount : Int, before : Int, after : Int]
ControlOK ==
  /\ pc \in [Requests -> CreateSteps \cup ConfirmSteps \cup RechargeSteps]
  /\ \A s \in Creates : pc[s] \in CreateSteps
  /\ \A h \in Confirms : pc[h] \in ConfirmSteps
  /\ \A r \in Recharges : pc[r] \in RechargeSteps
  /\ answer \in [Requests -> Answers]
TypeOK ==
  /\ ControlOK
  /\ balance \in [Wallets -> Int]
  /\ status \in [Creates -> Statuses]
  /\ overdue \subseteq Creates
  /\ ledger \subseteq Rows
  /\ terms \in [Creates \cup Recharges -> Terms]
  /\ target \in [Confirms -> Creates \cup {None}]
  /\ read \in [Confirms -> [source : Int, dest : Int]]
  /\ receipt \in [Recharges -> [previous : Int, new : Int]]
  /\ moved \in [Confirms -> {"nothing", "debited", "both"}]
  /\ owed \in [Wallets -> Int]
  /\ mixed \subseteq Wallets

\* No wallet is ever overdrawn, however confirmations and recharges interleave
\* and whatever fails: the funds check of confirmPayment and the balance it
\* writes come from the same snapshot (nothing in the schema enforces it, min: 0
\* is not run by findByIdAndUpdate).
NonNegative == \A w \in Wallets : balance[w] >= 0

\* A wallet nobody wrote under a confirmation's snapshot holds exactly what the
\* applied debits, credits and recharges add up to, across faults and crashes.
\* The lost update needs two handlers on one wallet; nothing else loses money.
Accounted == \A w \in Wallets \ mixed : balance[w] = owed[w]

HasDebit(h)  == \E row \in ledger : row.by = h /\ row.type = "payment"
HasCredit(h) == \E row \in ledger : row.by = h /\ row.type = "recharge"

\* Every transaction row tells what its confirmation really did: session,
\* wallet, amount and the two balances; the money had moved when it was written,
\* and a credit row never stands without its debit row.
LedgerFaithful ==
  \A row \in ledger :
    /\ row \in {DebitRow(row.by), CreditRow(row.by)}
    /\ moved[row.by] = "both"
    /\ HasDebit(row.by)

\* A session is CONFIRMED only if some confirmation of it moved the money and
\* wrote both transaction rows: the status is written last, so that a crash
\* or a failed call can leave money without status, never status without money.
ConfirmedIsPaid ==
  \A s \in Creates : status[s] = "confirmed" =>
    \E h \in Confirms :
      target[h] = s /\ moved[h] = "both" /\ HasDebit(h) /\ HasCredit(h)

\* What the client is told of a confirmation: 200 only after the money moved and
\* both rows were written, 4xx only if nothing moved, whatever failed on the way.
AnswerIsTruthful ==
  \A h \in Confirms :
    /\ answer[h] = "ok" => moved[h] = "both" /\ HasDebit(h) /\ HasCredit(h)
    /\ answer[h] = "rejected" => moved[h] = "nothing" /\ ~HasDebit(h)

\* Without database errors and crashes a finished confirmation moved the money
\* with both rows, or did nothing at all, also when its client got a 408.
AllOrNothing ==
  Faults \subseteq {"slow"} =>
    \A h \in Confirms : pc[h] = "done" =>
      \/ moved[h] = "nothing" /\ ~HasDebit(h) /\ ~HasCredit(h)
      \/ moved[h] = "both" /\ HasDebit(h) /\ HasCredit(h)

AllDone == \A h \in Requests : pc[h] = "done"
RowsOf(w, type) == {row \in ledger : row.wallet = w /\ row.type = type}
SumOf(rows) == MapThenSumSet(LAMBDA row : row.amount, rows)
Recharged(w) ==
  MapThenSumSet(LAMBDA r : terms[r].amount, {r \in Recharges : terms[r].payee = w})

\* Without database errors and crashes the transactions collection explains the
\* balances: when all is done, a wallet written under nobody's snapshot holds
\* its opening balance plus credits and recharges minus debits.
LedgerExplains ==
  (Faults \subseteq {"slow"} /\ AllDone) =>
    \A w \in Wallets \ mixed :
      balance[w] = Start[w] + Recharged(w)
                   + SumOf(RowsOf(w, "recharge")) - SumOf(RowsOf(w, "payment"))

\* A confirmation that found session s and has not ended.
Working(h, s) == target[h] = s /\ Running(h)
Paying(h, s) == Working(h, s) /\ pc[h] \notin {"check", "expire"}

\* A session that is confirmed or expired, and that no handler found while it was
\* pending, is closed for good: no later confirmation works on it again.
Settled(s) ==
  /\ status[s] \in {"confirmed", "expired"}
  /\ \A h \in Confirms : ~Working(h, s)
SettledForever == [][\A s \in Creates : Settled(s) => Settled(s)']_vars

\* Once the clock has passed expiresAt and nobody is past the clock check, the
\* session never pays again, whatever its status says and whatever is retried.
Lapsed(s) == s \in overdue /\ \A h \in Confirms : ~Paying(h, s)
LapsedForever == [][\A s \in Creates : Lapsed(s) => Lapsed(s)']_vars

\* Every request that starts is answered, even if it awaits a mail server that
\* hangs: the timeout interceptor sees to it.
EventuallyAnswered ==
  \A h \in Requests : pc[h] # "new" ~> answer[h] # "none"

\* Money that left the payer arrives, also when the client has got a 408 in the
\* meantime: the interceptor does not stop the handler.
DebitIsCredited ==
  \A h \in Confirms : moved[h] = "debited" ~> moved[h] = "both"

\* A confirmation attempt on an overdue pending session ends its pending status.
OverdueSettles ==
  \A h \in Confirms, s \in Creates :
    (pc[h] = "check" /\ target[h] = s /\ s \in overdue)
      ~> status[s] \in {"expired", "confirmed"}

=============================================================================
