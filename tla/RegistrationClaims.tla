------------------------- MODULE RegistrationClaims -------------------------
(***************************************************************************)
(* What the documentation or a test says of the users and customers, and   *)
(* what the code does not keep: each is refuted by a run.                  *)
(***************************************************************************)
EXTENDS Registration

\* README.md:94, "string email UK": an e-mail is a unique key of the users.
EmailIsUnique ==
  \A u, v \in UserIds : (users[u] = users[v] /\ users[u] # None) => u = v

=============================================================================
