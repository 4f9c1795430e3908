--------------------------------- MODULE Bank ---------------------------------
(***************************************************************************)
(* What the money path promises, without handlers, database calls or       *)
(* snapshots: accounts, payment sessions, and orders to pay a session.     *)
(* Money leaves the payer in one step and arrives in another.  An order    *)
(* may be given up at any time; only money already in transit is then      *)
(* stranded.  The books are exact for every account except those posted    *)
(* to while another order was at work on them, which leave the books.      *)
(***************************************************************************)
EXTENDS Integers

CONSTANTS
  Accounts,  \* the accounts of the bank
  Sessions,  \* payment sessions
  Orders,    \* attempts to pay a session
  Amounts,   \* amounts of money
  Opening,   \* the balance each account starts with
  None       \* no session, no account

VARIABLES
  books,     \* the balance of each account the bank vouches for
  session,   \* "none", "pending", "confirmed" or "expired"
  late,      \* the sessions that are past their time
  deal,      \* payer, payee and amount of each session
  order,     \* the session each order is for
  stage      \* how far each order has come

vars == <<books, session, late, deal, order, stage>>

NoDeal == [payer |-> None, payee |-> None, amount |-> 0]
Deals == {d \in [payer : Accounts, payee : Accounts, amount : Amounts] :
            d.payer # d.payee /\ d.amount > 0}

From(h) == deal[order[h]].payer
To(h)   == deal[order[h]].payee
Sum(h)  == deal[order[h]].amount

Init ==
  /\ books = Opening
  /\ session = [s \in Sessions |-> "none"]
  /\ late = {}
  /\ deal = [s \in Sessions |-> NoDeal]
  /\ order = [h \in Orders |-> None]
  /\ stage = [h \in Orders |-> "none"]

\* Some order of hs is at work on account w.
Contended(w, hs) ==
  \E h \in hs : stage[h] \in {"ordered", "debited"} /\ w \in {From(h), To(h)}

\* The balance of w changes.  The bank may lose track of w only if other
\* orders are at work on it.
Post(w, change, others) ==
  \/ w \in DOMAIN books /\ books' = [books EXCEPT ![w] = @ + change]
  \/ w \notin DOMAIN books /\ UNCHANGED books
  \/ /\ Contended(w, others)
     /\ books' = [v \in DOMAIN books \ {w} |-> books[v]]

Open(s, d) ==
  /\ session[s] = "none"
  /\ session' = [session EXCEPT ![s] = "pending"]
  /\ deal' = [deal EXCEPT ![s] = d]
  /\ UNCHANGED <<books, late, order, stage>>

Lapse(s) ==
  /\ session[s] # "none"
  /\ late' = late \cup {s}
  /\ UNCHANGED <<books, session, deal, order, stage>>

\* Only a pending session is paid.
Order(h, s) ==
  /\ stage[h] = "none" /\ session[s] = "pending"
  /\ order' = [order EXCEPT ![h] = s]
  /\ stage' = [stage EXCEPT ![h] = "ordered"]
  /\ UNCHANGED <<books, session, late, deal>>

\* A payer the bank vouches for has the money at the moment it leaves.
Debit(h) ==
  /\ stage[h] = "ordered"
  /\ From(h) \in DOMAIN books => books[From(h)] >= Sum(h)
  /\ Post(From(h), -Sum(h), Orders \ {h})
  /\ \E end \in {"debited", "stranded"} : stage' = [stage EXCEPT ![h] = end]
  /\ UNCHANGED <<session, late, deal, order>>

Credit(h) ==
  /\ stage[h] = "debited"
  /\ Post(To(h), Sum(h), Orders \ {h})
  /\ stage' = [stage EXCEPT ![h] = "paid"]
  /\ UNCHANGED <<session, late, deal, order>>

Deposit(w, a) ==
  /\ a > 0
  /\ Post(w, a, Orders)
  /\ UNCHANGED <<session, late, deal, order, stage>>

\* A paid order confirms its session.
Confirm(h) ==
  /\ stage[h] = "paid"
  /\ session' = [session EXCEPT ![order[h]] = "confirmed"]
  /\ UNCHANGED <<books, late, deal, order, stage>>

\* An order that finds its session late moves no money and expires it.
Expire(h) ==
  /\ stage[h] = "ordered" /\ order[h] \in late
  /\ session' = [session EXCEPT ![order[h]] = "expired"]
  /\ stage' = [stage EXCEPT ![h] = "dropped"]
  /\ UNCHANGED <<books, late, deal, order>>

\* Orders end early, each for itself or all at once.
Ended(st) == CASE st \in {"none", "ordered"} -> "dropped"
               [] st = "debited"             -> "stranded"
               [] OTHER                      -> st
GiveUp(hs) ==
  /\ stage' = [h \in Orders |-> IF h \in hs THEN Ended(stage[h]) ELSE stage[h]]
  /\ UNCHANGED <<books, session, late, deal, order>>

Next ==
  \/ \E s \in Sessions : Lapse(s) \/ \E d \in Deals : Open(s, d)
  \/ \E h \in Orders :
       \/ \E s \in Sessions : Order(h, s)
       \/ Debit(h) \/ Credit(h) \/ Confirm(h) \/ Expire(h)
  \/ \E w \in Accounts, a \in Amounts : Deposit(w, a)
  \/ \E hs \in SUBSET Orders : GiveUp(hs)

Spec == Init /\ [][Next]_vars
=============================================================================
