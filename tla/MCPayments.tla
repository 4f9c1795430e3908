----------------------------- MODULE MCPayments -----------------------------
(* Small instances of Payments for TLC.                                    *)
EXTENDS PaymentsClaims, PaymentsRefinement, TLC

CONSTANTS alice, bob, carol

\* alice and bob have wallets; carol is a user whose registration stopped short.
MCUsers == {alice, bob, carol}
MCWallets == {alice, bob}
\* alice can pay an amount of 1 twice, and not three times; bob once.
MCStart == alice :> 2 @@ bob :> 1

Symmetry ==
  Permutations(Creates) \cup Permutations(Confirms) \cup Permutations(Recharges)
=============================================================================
