------------------------------- MODULE PacketPool -------------------------------
(***************************************************************************)
(* What the server's packet queue promises, without threads or locks:      *)
(* packets, numbered as they are accepted, are served first come, first    *)
(* served; each is served once, by one worker at a time.                   *)
(***************************************************************************)
EXTENDS Naturals, Sequences

VARIABLES
  accepted,    \* number of packets accepted so far
  backlog,     \* accepted packets that wait, oldest first
  inService,   \* packets a worker is handling
  finished     \* packets whose handler has returned

vars == <<accepted, backlog, inService, finished>>

Init ==
  /\ accepted = 0
  /\ backlog = <<>>
  /\ inService = {}
  /\ finished = {}

Accept ==
  /\ accepted' = accepted + 1
  /\ backlog' = Append(backlog, accepted + 1)
  /\ UNCHANGED <<inService, finished>>

Take ==
  /\ backlog # <<>>
  /\ backlog' = Tail(backlog)
  /\ inService' = inService \cup {Head(backlog)}
  /\ UNCHANGED <<accepted, finished>>

Finish(p) ==
  /\ p \in inService
  /\ inService' = inService \ {p}
  /\ finished' = finished \cup {p}
  /\ UNCHANGED <<accepted, backlog>>

Next == Accept \/ Take \/ \E p \in inService : Finish(p)

Spec == Init /\ [][Next]_vars

-----------------------------------------------------------------------------
(* What follows from it, and so holds of whatever implements the pool.     *)

\* No packet is lost on the way and none is in two places: those that wait are
\* the last to have come, without a gap, and all before them are being served
\* or were.
EveryPacketIsSomewhere ==
  /\ Len(backlog) <= accepted
  /\ \A i \in 1 .. Len(backlog) : backlog[i] = accepted - Len(backlog) + i
  /\ inService \cup finished = 1 .. accepted - Len(backlog)
  /\ inService \cap finished = {}

\* A packet that was served is not served again.
ServedOnce == [][finished \subseteq finished' /\ finished \cap inService' = {}]_vars
=============================================================================
