-------------------------- MODULE PaymentsRefinement --------------------------
(***************************************************************************)
(* The handlers of Payments implement Bank.  The mapping reads an order's  *)
(* stage off the program counter and what has been moved, hides a session  *)
(* until its row is stored, and vouches for the wallets that were never    *)
(* written under another confirmation's snapshot.                          *)
(***************************************************************************)
EXTENDS Payments

StageOf(h) ==
  CASE moved[h] = "both"                       -> "paid"
    [] moved[h] = "debited" /\ pc[h] = "done"  -> "stranded"
    [] moved[h] = "debited" /\ pc[h] # "done"  -> "debited"
    [] moved[h] = "nothing" /\ pc[h] = "new"   -> "none"
    [] moved[h] = "nothing" /\ pc[h] = "done"  -> "dropped"
    [] OTHER                                   -> "ordered"

DealOf(s) ==
  IF status[s] = "none" THEN [payer |-> None, payee |-> None, amount |-> 0]
                        ELSE terms[s]

Books  == [w \in Wallets \ mixed |-> balance[w]]
Deals  == [s \in Creates |-> DealOf(s)]
Stages == [h \in Confirms |-> StageOf(h)]

B == INSTANCE Bank WITH
  Accounts <- Wallets, Sessions <- Creates, Orders <- Confirms, Opening <- Start,
  books <- Books, session <- status, late <- overdue, deal <- Deals,
  order <- target, stage <- Stages

\* The money path keeps the bank's promise: only pending sessions are paid, the
\* payer has the money when it leaves, only a paid order confirms a session and
\* only a late one expires; a crash or a failed call strands at most money in
\* transit, and the books are wrong only of a wallet that two handlers wrote
\* at a time.
ImplementsBank == B!Spec
=============================================================================
