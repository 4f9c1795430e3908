--------------------------- MODULE PaymentsClaims ---------------------------
(***************************************************************************)
(* What the documentation, a comment or a test of the repository says of   *)
(* the money path, and what the code does not keep: each of these is       *)
(* refuted by a run, and README.md tells the behaviour that refutes it.    *)
(***************************************************************************)
EXTENDS Payments

\* payment.e2e-spec.ts:420, "should fail with 400 when session is already
\* confirmed": one session is confirmed with a 200 at most once.
ConfirmedOnce ==
  \A g, h \in Confirms :
    (target[g] = target[h] /\ answer[g] = "ok" /\ answer[h] = "ok") => g = h

\* README.md:186-188, the session is CONFIRMED before "200 OK": a payment that was
\* acknowledged is found confirmed.  (MarkExpired of another confirmation
\* overwrites the status unconditionally.)
AcknowledgedIsConfirmed ==
  \A h \in Confirms : answer[h] = "ok" => status[target[h]] = "confirmed"

\* wallet.e2e-spec.ts:116, "should accumulate balance on multiple recharges": when all
\* is done, every wallet holds what was put in and not taken out.
NothingIsLost == AllDone => \A w \in Wallets : balance[w] = owed[w]
=============================================================================
