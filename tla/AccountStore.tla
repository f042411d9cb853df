----------------------------- MODULE AccountStore -----------------------------
(***************************************************************************)
(* What the class SQLConnector promises about accounts, without statements,*)
(* connections, counters or other processes in between: an account is      *)
(* inserted and its id returned in one step, names are unique, and no id is*)
(* issued twice until the table is dropped and all is forgotten.           *)
(***************************************************************************)
CONSTANTS
  Processes,   \* whoever uses the store
  Names,       \* the account names
  Ids          \* the ids there are

VARIABLES
  table,       \* the accounts: their ids and names
  used,        \* the ids issued since the table was created
  returned     \* what each process was returned last: an id, or Nothing

vars == <<table, used, returned>>

Nothing == 0

Init ==
  /\ table = {}
  /\ used = {}
  /\ returned = [p \in Processes |-> Nothing]

Insert(p, name) ==
  /\ \A a \in table : a.name # name
  /\ \E id \in Ids \ used :
       /\ table' = table \cup {[id |-> id, name |-> name]}
       /\ used' = used \cup {id}
       /\ returned' = [returned EXCEPT ![p] = id]

Delete(a) ==
  /\ table' = table \ {a}
  /\ UNCHANGED <<used, returned>>

Forget ==
  /\ table' = {}
  /\ used' = {}
  /\ UNCHANGED returned

Next ==
  \/ \E p \in Processes, name \in Names : Insert(p, name)
  \/ \E a \in table : Delete(a)
  \/ Forget

Spec == Init /\ [][Next]_vars
=============================================================================
