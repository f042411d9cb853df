------------------------------- MODULE MCServer -------------------------------
(* Instances of Server for TLC. *)
EXTENDS Server, TLC

\* The workers run the same code and the clients send from like addresses:
\* used in the runs without liveness.
Symmetric == Permutations(Workers) \cup Permutations(Clients)

=============================================================================
