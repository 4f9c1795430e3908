--------------------------- MODULE MCRegistration ---------------------------
(* Small instances of Registration for TLC.                                *)
EXTENDS RegistrationClaims, TLC

CONSTANTS shop, e1, d1, p1

\* The seeder is tested against clients who use the merchant's data as well.
MCEmails == {shop, e1}
MCDocuments == {shop, d1}
MCPhones == {shop, p1}

Symmetry ==
  UNION {Permutations(S) : S \in {Registers, Signups, Updates, Deletes}}
=============================================================================
