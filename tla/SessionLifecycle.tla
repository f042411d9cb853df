--------------------------- MODULE SessionLifecycle ---------------------------
(***************************************************************************)
(* What the server promises about session ids, without threads, handlers   *)
(* or sets: ids are issued in the order 1, 2, 3 ..., an open session may   *)
(* have a character selected, and a closed id never comes back to life.    *)
(***************************************************************************)
EXTENDS Naturals

CONSTANT MaxSessions   \* bound on the ids that are followed

VARIABLE status        \* of each id: "unissued", "open", "selected", "closed"

Ids == 1 .. MaxSessions

Init == status = [s \in Ids |-> "unissued"]

Become(s, new) == status' = [status EXCEPT ![s] = new]

Open(s) ==
  /\ status[s] = "unissued"
  /\ \A i \in Ids : i < s => status[i] # "unissued"
  /\ Become(s, "open")

Select(s) == status[s] = "open" /\ Become(s, "selected")

Close(s) == status[s] \in {"open", "selected"} /\ Become(s, "closed")

Next == \E s \in Ids : Open(s) \/ Select(s) \/ Close(s)

Spec == Init /\ [][Next]_status
=============================================================================
