------------------------------- MODULE MCAccess -------------------------------
(* Small instances of Access for TLC.                                      *)
EXTENDS AccessClaims, TLC

CONSTANTS ann, ben, p1, p2

MCInitial == ann :> p1 @@ ben :> p2

\* Requests are alike, and what is checked is invariants.
Interchangeable == Permutations(Requests)
=============================================================================
