-------------------------------- MODULE Exchange --------------------------------
(***************************************************************************)
(* What a client takes for granted: it asks, the server serves the request *)
(* once, the client reads the answer and is free to ask again.  An answer  *)
(* it cannot read ends it.                                                 *)
(*                                                                         *)
(* This is promised for as long as the network repeats no datagram.        *)
(***************************************************************************)
CONSTANT Clients

VARIABLES
  stage,     \* of each client: "ready", "asked", "served", "ended"
  repeated   \* has the network repeated a datagram?

Init ==
  /\ stage = [c \in Clients |-> "ready"]
  /\ repeated = FALSE

Go(c, from, to) == stage[c] = from /\ stage' = [stage EXCEPT ![c] = to]

Ask(c) == Go(c, "ready", "asked")

Serve(c) == Go(c, "asked", "served")

Read(c) == Go(c, "served", "ready")

End(c) == Go(c, "ready", "ended") \/ Go(c, "served", "ended")

Step == \E c \in Clients : Ask(c) \/ Serve(c) \/ Read(c) \/ End(c)

\* From the first repetition on a client may find itself anywhere.
AfterRepetition == repeated'

Next == (Step /\ UNCHANGED repeated) \/ AfterRepetition

Spec == Init /\ [][Next]_<<stage, repeated>>
=============================================================================
