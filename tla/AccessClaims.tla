----------------------------- MODULE AccessClaims -----------------------------
(***************************************************************************)
(* What the repository says of access and the code does not keep.          *)
(***************************************************************************)
EXTENDS Access

\* merchant-seeder.service.ts:99 logs the password of the merchant it made: a
\* login with the password that is on record all along is not turned away.
\* (The seeder hashes it, and the setter of the schema hashes the hash.)
SeededCanLogIn ==
  \A h \in Requests :
    kind[h] = "login" /\ had[h] = {secret[h]} => answer[h] # "rejected"
=============================================================================
