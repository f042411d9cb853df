----------------------------- MODULE MCSQLConnector -----------------------------
(* The instance of SQLConnector that TLC checks.                           *)
EXTENDS SQLConnector, TLC

\* No definition tells two clients or two valid names apart.
Symmetry == Permutations(Clients) \cup Permutations(Names \ Invalid)
=============================================================================
