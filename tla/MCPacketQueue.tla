----------------------------- MODULE MCPacketQueue -----------------------------
(* Instances of PacketQueue for TLC. *)
EXTENDS PacketQueue, TLC

\* The workers run the same code: used in the runs without liveness.
WorkerSymmetry == Permutations(Workers)
=============================================================================
