--------------------------- MODULE SQLConnectorProofs ---------------------------
(***************************************************************************)
(* Proofs about SQLConnector, for any number of processes, names, rows and *)
(* initialisations.  Four inductive invariants: which ids are in use       *)
(* (IdInv), what a process that is in the script has left behind it        *)
(* (RenewInv), why a table may be missing (MissingIsExplained), and that   *)
(* ids and names are nobody else's (StoreInv).  The last one carries the   *)
(* refinement of AccountStore.                                             *)
(***************************************************************************)
EXTENDS SQLConnector, TLAPS

\* The rows of account are those of the table as it was last created, and their
\* ids were issued since.
RowsInv ==
  /\ "account" \notin tables => accounts = {}
  /\ \A a \in accounts : a.era = era /\ a.id >= 1 /\ a.id <= issued["account"]
  /\ \A r \in accounts \cup users : r.serial <= rows

\* An id that is held, or that a user was given not too early, and belongs to the
\* table as it is, was issued by it; and it is the id of the row it was issued
\* for, or of one that is older than the user.
IdInv ==
  /\ \A p \in Processes :
       /\ held[p].era <= era
       /\ "account" \in tables /\ held[p].era = era => IdOf(p) <= issued["account"]
       /\ \A a \in accounts : IdOf(p) = a.id /\ held[p].era = a.era => held[p].serial = a.serial
  /\ \A u \in users :
       /\ u.era <= era
       /\ "account" \in tables /\ u.era = era /\ ~u.early => u.account <= issued["account"]
       /\ \A a \in accounts :
            u.account = a.id /\ u.era = a.era /\ ~u.early => a.serial < u.serial

\* In the script the rows of a table that was dropped are gone.
OldRowsGone(p) ==
  /\ begun[p] <= rows
  /\ pc[p] = "renewed" \/ next[p] > 1 => \A a \in accounts : a.serial > begun[p]
  /\ pc[p] = "renewed" \/ next[p] > 3 => \A u \in users : u.serial > begun[p]

RenewInv == \A p \in Clients \ unread : pc[p] \in {"script", "renewed"} => OldRowsGone(p)

\* Of a file that is not there nothing comes but the return.
UnreadInv == \A p \in unread : pc[p] = "renewed"

\* A script starts with its first statement.
NextInv == \A p \in Processes : pc[p] # "script" => next[p] = 1

\* While its id is not read a row is held without one.
HeldInv == \A p \in Processes : pc[p] = "inserted" => held[p].id = 0

\* In a script that nobody disturbs the tables created so far are there.
AloneInv ==
  \A p \in alone :
    /\ pc[p] \in {"script", "renewed"}
    /\ pc[p] = "script" =>
         /\ next[p] > 2 => "account" \in tables
         /\ next[p] > 4 => "user" \in tables
    /\ pc[p] = "renewed" => tables = Tables

IInv ==
  /\ TypeOK /\ RowsInv /\ IdInv /\ NextInv /\ HeldInv
  /\ UnreadInv /\ RenewInv /\ AloneInv

-----------------------------------------------------------------------------
\* init_db.sql drops and creates one table after the other.
LEMMA ScriptLines ==
  /\ Len(Script) = 6
  /\ Script[1] = [do |-> "drop", table |-> "account"]
  /\ Script[2] = [do |-> "create", table |-> "account"]
  /\ Script[3] = [do |-> "drop", table |-> "user"]
  /\ Script[4] = [do |-> "create", table |-> "user"]
  /\ Script[5] = [do |-> "drop", table |-> "view_user"]
  /\ Script[6] = [do |-> "create", table |-> "view_user"]
BY DEF Script

\* A statement of the script, by its number.
LEMMA Statements ==
  ASSUME TypeOK, NEW p \in Processes, ScriptStatement(p)
  PROVE  \/ next[p] = 1 /\ Drop("account")
         \/ next[p] = 2 /\ Create("account")
         \/ next[p] = 3 /\ Drop("user")
         \/ next[p] = 4 /\ Create("user")
         \/ next[p] = 5 /\ Drop("view_user")
         \/ next[p] = 6 /\ Create("view_user")
<1>1. next[p] \in 1 .. 6
  BY ScriptLines DEF TypeOK
<1>2. PICK statement : /\ statement = Script[next[p]]
                       /\ \/ statement.do = "drop" /\ Drop(statement.table)
                          \/ statement.do = "create" /\ Create(statement.table)
  BY DEF ScriptStatement
<1>3. next[p] = 1 \/ next[p] = 2 \/ next[p] = 3 \/ next[p] = 4 \/ next[p] = 5 \/ next[p] = 6
  BY <1>1
<1> QED
  BY <1>2, <1>3, ScriptLines

\* A process goes one statement further, or to the end.
LEMMA Advances ==
  ASSUME TypeOK, NEW p \in Processes, Advance(p)
  PROVE  /\ next' \in [Processes -> 1 .. Len(Script)]
         /\ pc' \in [Processes -> {"idle", "script", "inserted", "renewed", "ended"}]
         /\ \A q \in Processes \ {p} : next'[q] = next[q] /\ pc'[q] = pc[q]
         /\ next[p] < 6 => next'[p] = next[p] + 1 /\ pc'[p] = pc[p]
         /\ next[p] = 6 => next'[p] = 1 /\ pc'[p] = "renewed"
<1>1. /\ Len(Script) = 6
      /\ next[p] \in 1 .. 6
      /\ next \in [Processes -> 1 .. 6]
      /\ pc \in [Processes -> {"idle", "script", "inserted", "renewed", "ended"}]
  BY ScriptLines DEF TypeOK
<1>2. CASE next[p] < 6
  <2>1. next' = [next EXCEPT ![p] = next[p] + 1] /\ pc' = pc
    BY <1>1, <1>2 DEF Advance
  <2>2. next[p] + 1 \in 1 .. 6
    BY <1>1, <1>2
  <2> QED
    BY <1>1, <1>2, <2>1, <2>2
<1>3. CASE next[p] = 6
  <2>1. next' = [next EXCEPT ![p] = 1] /\ pc' = [pc EXCEPT ![p] = "renewed"]
    BY <1>1, <1>3 DEF Advance, Goto
  <2>2. 1 \in 1 .. 6
    OBVIOUS
  <2> QED
    BY <1>1, <1>3, <2>1, <2>2
<1> QED
  BY <1>1, <1>2, <1>3

\* An empty file satisfies all of it.
LEMMA InitIInv == Init => IInv /\ MissingIsExplained
<1> SUFFICES ASSUME Init PROVE IInv /\ MissingIsExplained
  OBVIOUS
<1>1. 1 \in 1 .. Len(Script)
  BY ScriptLines
<1>2. TypeOK
  BY <1>1 DEF Init, TypeOK
<1>3. RowsInv
  BY DEF Init, RowsInv
<1>4. IdInv
  BY DEF Init, IdInv
<1>5. RenewInv /\ UnreadInv
  BY DEF Init, RenewInv, UnreadInv, Processes
<1>6. AloneInv
  BY DEF Init, AloneInv
<1>7. MissingIsExplained
  BY DEF Init, MissingIsExplained
<1>8. NextInv
  BY DEF Init, NextInv
<1>9. HeldInv
  BY DEF Init, HeldInv
<1> QED
  BY <1>2, <1>3, <1>4, <1>5, <1>6, <1>7, <1>8, <1>9 DEF IInv

\* The steps that neither touch a row nor issue an id.
Quiet ==
  \/ \E p \in Processes : ScriptBegins(p) \/ ScriptFails(p) \/ ScriptReturns(p)
  \/ \E p \in Clients : ScriptUnreadable(p)
  \/ InstallerGoesOn
  \/ ListAccountsThrows
  \/ UNCHANGED vars

\* They leave the store and what processes hold as they are.
LEMMA QuietSteps ==
  ASSUME TypeOK, Quiet
  PROVE  /\ UNCHANGED <<tables, accounts, users, issued, lastRowid, held, rows, era>>
         /\ \A p \in Processes : pc'[p] = "inserted" <=> pc[p] = "inserted"
<1>1. ASSUME NEW p \in Processes, ScriptBegins(p) \/ ScriptFails(p) \/ ScriptReturns(p)
      PROVE  /\ UNCHANGED <<tables, accounts, users, issued, lastRowid, held, rows, era>>
             /\ \A q \in Processes : pc'[q] = "inserted" <=> pc[q] = "inserted"
  BY <1>1 DEF ScriptBegins, ScriptFails, ScriptReturns, StatementFails, Leave, Goto, Ready,
              store, TypeOK
<1>2. CASE InstallerGoesOn
  <2>1. Installer \in Processes /\ pc[Installer] = "script"
    BY <1>2 DEF InstallerGoesOn, StatementFails, Processes
  <2>2. /\ \A q \in Processes \ {Installer} : pc'[q] = pc[q]
        /\ pc'[Installer] \in {"script", "renewed"}
    <3>1. next[Installer] < 6 \/ next[Installer] = 6
      BY <2>1, ScriptLines DEF TypeOK
    <3> QED
      BY <1>2, <2>1, <3>1, Advances DEF InstallerGoesOn
  <2> QED
    BY <1>2, <2>1, <2>2 DEF InstallerGoesOn, store
<1>3. CASE ListAccountsThrows
  BY <1>3 DEF ListAccountsThrows, Goto, Ready, store, histories, TypeOK
<1>4. CASE UNCHANGED vars
  BY <1>4 DEF vars, store, histories
<1>5. ASSUME NEW p \in Clients, ScriptUnreadable(p)
      PROVE  /\ UNCHANGED <<tables, accounts, users, issued, lastRowid, held, rows, era>>
             /\ \A q \in Processes : pc'[q] = "inserted" <=> pc[q] = "inserted"
  BY <1>5 DEF ScriptUnreadable, Goto, Ready, store, TypeOK
<1> QED
  BY <1>1, <1>2, <1>3, <1>4, <1>5 DEF Quiet

\* Every step keeps the types.
LEMMA NextTypeOK == TypeOK /\ [Next]_vars => TypeOK'
<1> SUFFICES ASSUME TypeOK, [Next]_vars PROVE TypeOK'
  OBVIOUS
<1>1. ASSUME NEW p \in Processes, ScriptBegins(p) PROVE TypeOK'
  BY <1>1 DEF ScriptBegins, Goto, store, TypeOK
<1>2. ASSUME NEW p \in Processes, ScriptStatement(p) PROVE TypeOK'
  <2>1. /\ pc' \in [Processes -> {"idle", "script", "inserted", "renewed", "ended"}]
        /\ next' \in [Processes -> 1 .. Len(Script)]
    BY <1>2, Advances DEF ScriptStatement
  <2>2. ASSUME NEW table \in Tables, Drop(table) \/ Create(table)
        PROVE  /\ tables' \in SUBSET Tables
               /\ accounts' \in SUBSET Accounts
               /\ users' \in SUBSET Users
               /\ issued' \in [{"account", "user"} -> Nat]
               /\ era' \in Nat
    BY <2>2 DEF Drop, Create, TypeOK
  <2>3. /\ tables' \in SUBSET Tables
        /\ accounts' \in SUBSET Accounts
        /\ users' \in SUBSET Users
        /\ issued' \in [{"account", "user"} -> Nat]
        /\ era' \in Nat
    BY <1>2, <2>2, Statements DEF Tables
  <2> QED
    BY <1>2, <2>1, <2>3 DEF ScriptStatement, TypeOK
<1>3. ASSUME NEW p \in Processes, ScriptFails(p) PROVE TypeOK'
  <2>1. 1 \in 1 .. Len(Script)
    BY ScriptLines
  <2> QED
    BY <1>3, <2>1 DEF ScriptFails, StatementFails, Leave, Goto, store, TypeOK
<1>4. ASSUME NEW p \in Processes, ScriptReturns(p) PROVE TypeOK'
  BY <1>4 DEF ScriptReturns, Leave, Goto, store, TypeOK
<1>5. CASE InstallerGoesOn
  <2>1. /\ pc' \in [Processes -> {"idle", "script", "inserted", "renewed", "ended"}]
        /\ next' \in [Processes -> 1 .. Len(Script)]
    BY <1>5, Advances DEF InstallerGoesOn, Processes
  <2> QED
    BY <1>5, <2>1 DEF InstallerGoesOn, StatementFails, store, TypeOK
<1>6. ASSUME NEW p \in Clients, NEW name \in Names, InsertAccount(p, name) PROVE TypeOK'
  <2>1. NextId("account") \in Nat /\ rows + 1 \in Nat /\ p \in Processes
    BY DEF TypeOK, Processes, NextId
  <2>2. [id |-> NextId("account"), name |-> name, era |-> era, serial |-> rows + 1]
          \in Accounts
    BY <2>1 DEF Accounts, TypeOK
  <2>3. accounts' \in SUBSET Accounts /\ users' \in SUBSET Users
    BY <1>6, <2>2 DEF InsertAccount, TypeOK
  <2>4. held' \in [Processes -> [id : Nat, era : Nat, serial : Nat]]
    BY <1>6, <2>1 DEF InsertAccount, TypeOK
  <2>5. /\ issued' \in [{"account", "user"} -> Nat]
        /\ lastRowid' \in [Processes -> Nat]
        /\ pc' \in [Processes -> {"idle", "script", "inserted", "renewed", "ended"}]
        /\ rows' \in Nat
    BY <1>6, <2>1 DEF InsertAccount, Goto, TypeOK
  <2> QED
    BY <1>6, <2>3, <2>4, <2>5 DEF InsertAccount, TypeOK
<1>7. ASSUME NEW p \in Clients, ReadRowid(p) PROVE TypeOK'
  <2>1. held' \in [Processes -> [id : Nat, era : Nat, serial : Nat]]
    BY <1>7 DEF ReadRowid, TypeOK, Processes
  <2> QED
    BY <1>7, <2>1 DEF ReadRowid, Goto, store, histories, TypeOK
<1>8. ASSUME NEW p \in Clients, NEW account \in Given, InsertUser(p, account) PROVE TypeOK'
  <2>1. NextId("user") \in Nat /\ rows + 1 \in Nat /\ p \in Processes
    BY DEF TypeOK, Processes, NextId
  <2>2. [id |-> NextId("user"), account |-> account, era |-> era,
         early |-> account > issued["account"], serial |-> rows + 1]
          \in Users
    BY <2>1, SQLConnectorAssumption DEF Users, TypeOK
  <2>3. accounts' \in SUBSET Accounts /\ users' \in SUBSET Users
    BY <1>8, <2>2 DEF InsertUser, TypeOK
  <2>4. held' \in [Processes -> [id : Nat, era : Nat, serial : Nat]]
    BY <1>8 DEF InsertUser, TypeOK
  <2>5. /\ issued' \in [{"account", "user"} -> Nat]
        /\ lastRowid' \in [Processes -> Nat]
        /\ pc' \in [Processes -> {"idle", "script", "inserted", "renewed", "ended"}]
        /\ rows' \in Nat
    BY <1>8, <2>1 DEF InsertUser, Goto, TypeOK
  <2> QED
    BY <1>8, <2>3, <2>4, <2>5 DEF InsertUser, TypeOK
<1>9. CASE ListAccountsThrows
  BY <1>9 DEF ListAccountsThrows, Goto, store, histories, TypeOK
<1>10. CASE ExecuteDelete
  BY <1>10 DEF ExecuteDelete, histories, TypeOK
<1>11. CASE ExecuteDrop
  BY <1>11 DEF ExecuteDrop, Drop, TypeOK
<1>12. CASE UNCHANGED vars
  BY <1>12 DEF vars, store, histories, TypeOK
<1>13. ASSUME NEW p \in Clients, ScriptUnreadable(p) PROVE TypeOK'
  BY <1>13 DEF ScriptUnreadable, Goto, store, TypeOK
<1> QED
  BY <1>1, <1>2, <1>3, <1>4, <1>5, <1>6, <1>7, <1>8, <1>9, <1>10, <1>11, <1>12, <1>13
     DEF Next

\* A step changes rows and ids by a statement of the script, an insertion, a
\* deletion or a drop, or not at all.
LEMMA Steps ==
  ASSUME [Next]_vars
  PROVE  \/ Quiet
         \/ \E p \in Processes : ScriptStatement(p)
         \/ \E p \in Clients, name \in Names : InsertAccount(p, name)
         \/ \E p \in Clients : ReadRowid(p)
         \/ \E p \in Clients, account \in Given : InsertUser(p, account)
         \/ ExecuteDelete
         \/ ExecuteDrop
BY DEF Next, Quiet

\* What a drop and a creation do to rows and ids.
LEMMA RowsAfterDrop ==
  ASSUME TypeOK, RowsInv, NEW table \in Tables, Drop(table), rows' = rows
  PROVE  RowsInv'
BY DEF TypeOK, RowsInv, Drop, Tables, Accounts, Users

\* A creation adds no row.
LEMMA RowsAfterCreate ==
  ASSUME TypeOK, RowsInv, NEW table \in Tables, Create(table), rows' = rows
  PROVE  RowsInv'
BY DEF TypeOK, RowsInv, Create, Tables, Accounts, Users

\* Every step leaves the rows with ids of their own table.
LEMMA NextRowsInv == IInv /\ [Next]_vars => RowsInv'
<1> SUFFICES ASSUME IInv, [Next]_vars PROVE RowsInv'
  OBVIOUS
<1> USE DEF IInv
<1>1. CASE Quiet
  <2>1. UNCHANGED <<tables, accounts, users, issued, era>>
    BY <1>1, QuietSteps
  <2>2. rows' = rows
    BY <1>1, QuietSteps DEF IInv
  <2> QED
    BY <2>1, <2>2 DEF RowsInv
<1>2. ASSUME NEW p \in Processes, ScriptStatement(p) PROVE RowsInv'
  <2>1. rows' = rows
    BY <1>2 DEF ScriptStatement
  <2>2. \E table \in Tables : Drop(table) \/ Create(table)
    BY <1>2, Statements DEF Tables
  <2> QED
    BY <2>1, <2>2, RowsAfterDrop, RowsAfterCreate
<1>3. ASSUME NEW p \in Clients, NEW name \in Names, InsertAccount(p, name) PROVE RowsInv'
  <2>1. /\ NextId("account") \in Nat /\ NextId("account") = issued["account"] + 1
        /\ issued'["account"] = NextId("account")
        /\ rows \in Nat /\ rows' = rows + 1 /\ issued["account"] \in Nat
    BY <1>3 DEF InsertAccount, NextId, TypeOK
  <2>2. ASSUME NEW a \in accounts'
        PROVE  a.era = era' /\ a.id >= 1 /\ a.id <= issued'["account"] /\ a.serial <= rows'
    <3>1. CASE a \in accounts
      <4>1. /\ a.era = era /\ a.id >= 1 /\ a.id <= issued["account"] /\ a.serial <= rows
            /\ a.id \in Nat /\ a.serial \in Nat
        BY <3>1 DEF RowsInv, TypeOK, Accounts
      <4> QED
        BY <1>3, <2>1, <4>1 DEF InsertAccount
    <3>2. CASE a = [id |-> NextId("account"), name |-> name, era |-> era,
                    serial |-> rows + 1]
      BY <1>3, <2>1, <3>2 DEF InsertAccount
    <3> QED
      BY <1>3, <3>1, <3>2 DEF InsertAccount
  <2>3. \A u \in users' : u.serial <= rows'
    BY <1>3, <2>1 DEF InsertAccount, RowsInv, TypeOK, Users
  <2>4. "account" \in tables'
    BY <1>3 DEF InsertAccount, Insertable
  <2> QED
    BY <2>2, <2>3, <2>4 DEF RowsInv
<1>4. ASSUME NEW p \in Clients, ReadRowid(p) PROVE RowsInv'
  BY <1>4 DEF ReadRowid, store, histories, RowsInv
<1>5. ASSUME NEW p \in Clients, NEW account \in Given, InsertUser(p, account) PROVE RowsInv'
  <2>1. rows \in Nat /\ rows' = rows + 1 /\ issued'["account"] = issued["account"]
    BY <1>5 DEF InsertUser, TypeOK
  <2>2. \A u \in users' : u.serial <= rows'
    BY <1>5, <2>1 DEF InsertUser, RowsInv, TypeOK, Users
  <2>3. \A a \in accounts : a.serial <= rows'
    BY <2>1 DEF RowsInv, TypeOK, Accounts
  <2> QED
    BY <1>5, <2>1, <2>2, <2>3 DEF InsertUser, RowsInv
<1>6. CASE ExecuteDelete
  BY <1>6 DEF ExecuteDelete, histories, RowsInv
<1>7. CASE ExecuteDrop
  BY <1>7, RowsAfterDrop DEF ExecuteDrop, TypeOK
<1> QED
  BY <1>1, <1>2, <1>3, <1>4, <1>5, <1>6, <1>7, Steps

-----------------------------------------------------------------------------
\* A drop leaves no account an id could be confused with, and a creation starts
\* a new era.
LEMMA IdsAfterDrop ==
  ASSUME IInv, NEW table \in Tables, Drop(table), UNCHANGED held,
         \A p \in Processes : IdOf(p)' = IdOf(p)
  PROVE  IdInv'
<1>1. /\ era' = era
      /\ accounts' \subseteq accounts /\ users' \subseteq users /\ tables' \subseteq tables
      /\ "account" \in tables' => issued'["account"] = issued["account"]
  BY DEF Drop, IInv, TypeOK
<1> QED
  BY <1>1 DEF IInv, IdInv

\* A creation of account ends the meaning of every id issued before.
LEMMA IdsAfterCreate ==
  ASSUME IInv, NEW table \in Tables, Create(table), UNCHANGED held,
         \A p \in Processes : IdOf(p)' = IdOf(p)
  PROVE  IdInv'
<1>1. CASE table = "account"
  <2>1. accounts' = {} /\ users' = users /\ era' = era + 1 /\ era \in Nat
    BY <1>1 DEF Create, IInv, TypeOK, RowsInv
  <2>2. \A p \in Processes : held'[p].era <= era' /\ held'[p].era # era'
    BY <2>1 DEF IInv, TypeOK, IdInv
  <2>3. \A u \in users' : u.era <= era' /\ u.era # era'
    BY <2>1 DEF IInv, TypeOK, Users, IdInv
  <2> QED
    BY <2>1, <2>2, <2>3 DEF IdInv
<1>2. CASE table # "account"
  <2>1. /\ era' = era /\ accounts' = accounts /\ users' = users /\ issued' = issued
        /\ "account" \in tables' => "account" \in tables
    BY <1>2 DEF Create
  <2> QED
    BY <2>1 DEF IInv, IdInv
<1> QED
  BY <1>1, <1>2

\* Every step leaves each id the meaning it has.
LEMMA NextIdInv == IInv /\ [Next]_vars => IdInv'
<1> SUFFICES ASSUME IInv, [Next]_vars PROVE IdInv'
  OBVIOUS
<1>0. /\ rows \in Nat /\ era \in Nat /\ issued["account"] \in Nat
      /\ \A p \in Processes : IdOf(p) \in Nat /\ held[p].era \in Nat /\ held[p].serial \in Nat
  BY DEF IInv, TypeOK, IdOf
<1>1. CASE Quiet
  <2>1. /\ UNCHANGED <<tables, accounts, users, issued, lastRowid, held, rows, era>>
        /\ \A p \in Processes : pc'[p] = "inserted" <=> pc[p] = "inserted"
    BY <1>1, QuietSteps DEF IInv
  <2>2. \A p \in Processes : IdOf(p)' = IdOf(p)
    BY <2>1 DEF IdOf
  <2> QED
    BY <2>1, <2>2 DEF IInv, IdInv
<1>2. ASSUME NEW p \in Processes, ScriptStatement(p) PROVE IdInv'
  <2>1. \A q \in Processes : pc'[q] = "inserted" <=> pc[q] = "inserted"
    <3>1. pc[p] = "script" /\ (next[p] < 6 \/ next[p] = 6) /\ Advance(p)
      BY <1>2, ScriptLines DEF ScriptStatement, IInv, TypeOK
    <3> QED
      BY <3>1, Advances DEF IInv
  <2>2. \A q \in Processes : IdOf(q)' = IdOf(q)
    BY <1>2, <2>1 DEF ScriptStatement, IdOf
  <2>3. \E table \in Tables : Drop(table) \/ Create(table)
    BY <1>2, Statements DEF Tables, IInv
  <2>4. held' = held
    BY <1>2 DEF ScriptStatement
  <2> QED
    BY <2>2, <2>3, <2>4, IdsAfterDrop, IdsAfterCreate
<1>3. ASSUME NEW p \in Clients, NEW name \in Names, InsertAccount(p, name) PROVE IdInv'
  <2> DEFINE row == [id |-> NextId("account"), name |-> name, era |-> era, serial |-> rows + 1]
  <2>1. /\ p \in Processes
        /\ NextId("account") = issued["account"] + 1
        /\ issued'["account"] = issued["account"] + 1
        /\ accounts' = accounts \cup {row}
        /\ row.id = issued["account"] + 1 /\ row.era = era /\ row.serial = rows + 1
        /\ "account" \in tables /\ UNCHANGED <<tables, users, era>>
    BY <1>3 DEF InsertAccount, Insertable, NextId, IInv, TypeOK, Processes
  <2>2. /\ IdOf(p)' = issued["account"] + 1
        /\ held'[p].era = era /\ held'[p].serial = rows + 1
    BY <1>3, <2>1 DEF InsertAccount, Goto, IdOf, IInv, TypeOK
  <2>3. ASSUME NEW q \in Processes \ {p}
        PROVE  IdOf(q)' = IdOf(q) /\ held'[q] = held[q]
    BY <1>3, <2>3 DEF InsertAccount, Goto, IdOf, IInv, TypeOK
  <2>4. \A a \in accounts : a.id <= issued["account"] /\ a.id \in Nat
    BY DEF IInv, RowsInv, TypeOK, Accounts
  <2>5. ASSUME NEW q \in Processes
        PROVE  /\ held'[q].era <= era'
               /\ "account" \in tables' /\ held'[q].era = era' =>
                    IdOf(q)' <= issued'["account"]
               /\ \A a \in accounts' :
                    IdOf(q)' = a.id /\ held'[q].era = a.era => held'[q].serial = a.serial
    <3>1. CASE q = p
      <4>1. \A a \in accounts : a.id # issued["account"] + 1
        BY <1>0, <2>4
      <4> QED
        BY <1>0, <2>1, <2>2, <3>1, <4>1
    <3>2. CASE q # p
      <4>1. /\ held[q].era <= era
            /\ held[q].era = era => IdOf(q) <= issued["account"]
            /\ \A a \in accounts :
                 IdOf(q) = a.id /\ held[q].era = a.era => held[q].serial = a.serial
        BY <2>1 DEF IInv, IdInv
      <4>2. held[q].era = era => IdOf(q) # row.id /\ IdOf(q) <= issued["account"] + 1
        BY <1>0, <2>1, <4>1
      <4> QED
        BY <2>1, <2>3, <3>2, <4>1, <4>2
    <3> QED
      BY <3>1, <3>2
  <2>6. ASSUME NEW u \in users'
        PROVE  /\ u.era <= era'
               /\ "account" \in tables' /\ u.era = era' /\ ~u.early =>
                    u.account <= issued'["account"]
               /\ \A a \in accounts' :
                    u.account = a.id /\ u.era = a.era /\ ~u.early => a.serial < u.serial
    <3>1. /\ u.era <= era
          /\ u.era = era /\ ~u.early => u.account <= issued["account"]
          /\ \A a \in accounts :
               u.account = a.id /\ u.era = a.era /\ ~u.early => a.serial < u.serial
          /\ u.account \in Nat
      BY <2>1 DEF IInv, IdInv, TypeOK, Users
    <3>2. u.era = era /\ ~u.early => u.account # row.id /\ u.account <= issued["account"] + 1
      BY <1>0, <2>1, <3>1
    <3> QED
      BY <2>1, <3>1, <3>2
  <2> QED
    BY <2>5, <2>6 DEF IdInv
<1>4. ASSUME NEW p \in Clients, ReadRowid(p) PROVE IdInv'
  <2>1. \A q \in Processes :
          IdOf(q)' = IdOf(q) /\ held'[q].era = held[q].era /\ held'[q].serial = held[q].serial
    BY <1>4 DEF ReadRowid, Goto, IdOf, IInv, TypeOK, Processes
  <2>2. UNCHANGED <<tables, accounts, users, issued, era>>
    BY <1>4 DEF ReadRowid, store, histories
  <2> QED
    BY <2>1, <2>2 DEF IInv, IdInv
<1>5. ASSUME NEW p \in Clients, NEW account \in Given, InsertUser(p, account) PROVE IdInv'
  <2> DEFINE row == [id |-> NextId("user"), account |-> account, era |-> era,
                     early |-> account > issued["account"], serial |-> rows + 1]
  <2>1. /\ p \in Processes
        /\ users' = users \cup {row}
        /\ row.account = account /\ row.era = era /\ row.serial = rows + 1
        /\ issued'["account"] = issued["account"]
        /\ UNCHANGED <<tables, accounts, held, era>>
    BY <1>5 DEF InsertUser, IInv, TypeOK, Processes
  <2>5. ~row.early => account <= issued["account"]
    <3>1. row.early = (account > issued["account"])
      OBVIOUS
    <3>2. account \in Nat /\ ~(account > issued["account"]) => account <= issued["account"]
      BY <1>0
    <3> QED
      BY <3>1, <3>2, SQLConnectorAssumption
  <2>2. \A q \in Processes : IdOf(q)' = IdOf(q)
    BY <1>5, <2>1 DEF InsertUser, Ready, IdOf, IInv, TypeOK
  <2>4. \A a \in accounts : a.serial < rows + 1
    BY <1>0 DEF IInv, RowsInv, TypeOK, Accounts
  <2>3. ASSUME NEW u \in users'
        PROVE  /\ u.era <= era'
               /\ "account" \in tables' /\ u.era = era' /\ ~u.early =>
                    u.account <= issued'["account"]
               /\ \A a \in accounts' :
                    u.account = a.id /\ u.era = a.era /\ ~u.early => a.serial < u.serial
    <3>1. CASE u \in users
      BY <2>1, <3>1 DEF IInv, IdInv
    <3>2. CASE u = row
      BY <1>0, <2>1, <2>4, <2>5, <3>2
    <3> QED
      BY <2>1, <3>1, <3>2
  <2> QED
    BY <2>1, <2>2, <2>3 DEF IInv, IdInv
<1>6. CASE ExecuteDelete
  <2>1. accounts' \subseteq accounts /\ UNCHANGED <<tables, users, issued, pc, lastRowid, held, era>>
    BY <1>6 DEF ExecuteDelete, histories
  <2>2. \A q \in Processes : IdOf(q)' = IdOf(q)
    BY <2>1 DEF IdOf
  <2> QED
    BY <2>1, <2>2 DEF IInv, IdInv
<1>7. CASE ExecuteDrop
  <2>1. \A q \in Processes : IdOf(q)' = IdOf(q)
    BY <1>7 DEF ExecuteDrop, IdOf
  <2> QED
    BY <1>7, <2>1, IdsAfterDrop DEF ExecuteDrop, IInv, TypeOK
<1> QED
  BY <1>1, <1>2, <1>3, <1>4, <1>5, <1>6, <1>7, Steps

-----------------------------------------------------------------------------
\* Rows that are added are newer than any script that has begun.
LEMMA NextRenewInv == IInv /\ [Next]_vars => RenewInv'
<1> SUFFICES ASSUME IInv, [Next]_vars,
                    NEW q \in Clients, q \notin unread', pc'[q] \in {"script", "renewed"}
             PROVE  OldRowsGone(q)'
  BY DEF RenewInv
<1>0. /\ q \in Processes /\ q # Installer /\ q # Shell
      /\ rows \in Nat /\ begun[q] \in Nat /\ next[q] \in 1 .. 6
      /\ \A a \in accounts : a.serial \in Nat
      /\ \A u \in users : u.serial \in Nat
  BY SQLConnectorAssumption, ScriptLines DEF IInv, TypeOK, Processes, Accounts, Users
<1>u. q \notin unread
  <2>1. unread \subseteq unread' \/ \E p \in Processes : Leave(p)
    BY Steps DEF Quiet, ScriptBegins, ScriptFails, ScriptReturns, ScriptUnreadable,
       InstallerGoesOn, ListAccountsThrows, ScriptStatement, InsertAccount, ReadRowid,
       InsertUser, ExecuteDelete, ExecuteDrop, vars, histories
  <2>2. ASSUME NEW p \in Processes, Leave(p)
        PROVE  q \notin unread
    BY <1>0, <2>2 DEF Leave, Goto, IInv, TypeOK
  <2> QED
    BY <2>1, <2>2
<1>1. ASSUME pc[q] \in {"script", "renewed"}
      PROVE  OldRowsGone(q)
  BY <1>1, <1>u DEF IInv, RenewInv
\* A step that takes q no further.
<1>2. ASSUME pc'[q] = pc[q], next'[q] = next[q], begun'[q] = begun[q],
             rows' \in Nat, rows <= rows',
             \A a \in accounts' : a \in accounts \/ a.serial = rows + 1,
             \A u \in users' : u \in users \/ u.serial = rows + 1
      PROVE  OldRowsGone(q)'
  <2>1. begun[q] <= rows'
    BY <1>0, <1>1, <1>2 DEF OldRowsGone
  <2>2. begun[q] < rows + 1
    BY <1>0, <1>1, <1>2 DEF OldRowsGone
  <2> QED
    BY <1>1, <1>2, <2>1, <2>2 DEF OldRowsGone
<1>3. ASSUME NEW p \in Processes, ScriptBegins(p)
      PROVE  OldRowsGone(q)'
  <2>1. CASE p # q
    BY <1>0, <1>2, <1>3, <2>1 DEF ScriptBegins, Goto, store, IInv, TypeOK
  <2>2. CASE p = q
    <3>1. pc'[q] = "script" /\ next'[q] = next[q] /\ begun'[q] = rows /\ rows' = rows
      BY <1>0, <1>3, <2>2 DEF ScriptBegins, Goto, IInv, TypeOK
    <3>2. next[q] = 1
      BY <1>0, <1>3, <2>2 DEF ScriptBegins, Ready, IInv, NextInv
    <3> QED
      BY <1>0, <3>1, <3>2 DEF OldRowsGone
  <2> QED
    BY <2>1, <2>2
<1>4. ASSUME NEW p \in Processes, ScriptFails(p) \/ ScriptReturns(p)
      PROVE  OldRowsGone(q)'
  <2>1. p # q
    BY <1>0, <1>4 DEF ScriptFails, ScriptReturns, Leave, Goto, IInv, TypeOK
  <2>2. /\ pc'[q] = pc[q] /\ next'[q] = next[q] /\ begun'[q] = begun[q]
        /\ UNCHANGED <<accounts, users, rows>>
    <3>1. CASE ScriptFails(p)
      BY <1>0, <2>1, <3>1 DEF ScriptFails, Leave, Goto, store, IInv, TypeOK
    <3>2. CASE ScriptReturns(p)
      BY <1>0, <2>1, <3>2 DEF ScriptReturns, Leave, Goto, store, IInv, TypeOK
    <3> QED
      BY <1>4, <3>1, <3>2
  <2> QED
    BY <1>0, <1>2, <2>2
<1>5. CASE InstallerGoesOn
  <2>1. Installer \in Processes /\ (next[Installer] < 6 \/ next[Installer] = 6)
    BY ScriptLines DEF Processes, IInv, TypeOK
  <2>2. pc'[q] = pc[q] /\ next'[q] = next[q]
    BY <1>0, <1>5, <2>1, Advances DEF InstallerGoesOn, IInv
  <2> QED
    BY <1>0, <1>2, <1>5, <2>2 DEF InstallerGoesOn, store
<1>6. CASE ListAccountsThrows
  BY <1>0, <1>2, <1>6 DEF ListAccountsThrows, Goto, store, histories, IInv, TypeOK
<1>7. CASE UNCHANGED vars
  BY <1>0, <1>2, <1>7 DEF vars, store, histories
<1>8. ASSUME NEW p \in Processes, ScriptStatement(p)
      PROVE  OldRowsGone(q)'
  <2>1. /\ accounts' \subseteq accounts /\ users' \subseteq users
        /\ rows' = rows /\ begun' = begun
    <3>1. \E table \in Tables : Drop(table) \/ Create(table)
      BY <1>8, Statements DEF Tables, IInv
    <3> QED
      BY <1>8, <3>1 DEF ScriptStatement, Drop, Create
  <2>2. CASE p # q
    <3>1. pc'[q] = pc[q] /\ next'[q] = next[q]
      BY <1>0, <1>8, <2>2, Advances DEF ScriptStatement, IInv
    <3> QED
      BY <1>0, <1>2, <2>1, <3>1
  <2>3. CASE p = q
    <3>1. /\ pc[q] = "script"
          /\ next[q] < 6 => next'[q] = next[q] + 1 /\ pc'[q] = pc[q]
          /\ next[q] = 6 => next'[q] = 1 /\ pc'[q] = "renewed"
      BY <1>8, <2>3, Advances DEF ScriptStatement, IInv
    <3>2. next[q] = 1 => accounts' = {}
      BY <1>0, <1>8, <2>3, Statements DEF Drop, IInv
    <3>3. next[q] = 3 => users' = {}
      BY <1>0, <1>8, <2>3, Statements DEF Drop, IInv
    <3>4. next[q] # 1 => next[q] > 1
      BY <1>0
    <3>5. pc'[q] = "renewed" \/ next'[q] > 3 => next[q] = 3 \/ next[q] > 3
      BY <1>0, <3>1
    <3>6. \A a \in accounts' : a.serial > begun'[q]
      BY <1>1, <2>1, <3>1, <3>2, <3>4 DEF OldRowsGone
    <3>7. pc'[q] = "renewed" \/ next'[q] > 3 => \A u \in users' : u.serial > begun'[q]
      BY <1>1, <2>1, <3>1, <3>3, <3>5 DEF OldRowsGone
    <3> QED
      BY <1>1, <2>1, <3>1, <3>6, <3>7 DEF OldRowsGone
  <2> QED
    BY <2>2, <2>3
<1>9. ASSUME NEW p \in Clients, NEW name \in Names, InsertAccount(p, name)
      PROVE  OldRowsGone(q)'
  <2>1. p # q /\ p \in Processes
    BY <1>0, <1>9 DEF InsertAccount, Goto, IInv, TypeOK, Processes
  <2>2. /\ pc'[q] = pc[q] /\ next'[q] = next[q] /\ begun'[q] = begun[q]
        /\ rows' \in Nat /\ rows <= rows' /\ users' = users
    BY <1>0, <1>9, <2>1 DEF InsertAccount, Goto, IInv, TypeOK
  <2>3. \A a \in accounts' : a \in accounts \/ a.serial = rows + 1
    BY <1>9 DEF InsertAccount
  <2> QED
    BY <1>2, <2>2, <2>3
<1>10. ASSUME NEW p \in Clients, ReadRowid(p)
      PROVE  OldRowsGone(q)'
  <2>1. p # q /\ p \in Processes
    BY <1>0, <1>10 DEF ReadRowid, Goto, IInv, TypeOK, Processes
  <2> QED
    BY <1>0, <1>2, <1>10, <2>1 DEF ReadRowid, Goto, store, histories, IInv, TypeOK
<1>11. ASSUME NEW p \in Clients, NEW account \in Given, InsertUser(p, account)
      PROVE  OldRowsGone(q)'
  <2>1. p # q /\ p \in Processes
    BY <1>0, <1>11 DEF InsertUser, Ready, IInv, TypeOK, Processes
  <2>2. /\ pc'[q] = pc[q] /\ next'[q] = next[q] /\ begun'[q] = begun[q]
        /\ rows' \in Nat /\ rows <= rows' /\ accounts' = accounts
    BY <1>0, <1>11, <2>1 DEF InsertUser, Goto, IInv, TypeOK
  <2>3. \A u \in users' : u \in users \/ u.serial = rows + 1
    BY <1>11 DEF InsertUser
  <2> QED
    BY <1>2, <2>2, <2>3
<1>12. CASE ExecuteDelete
  BY <1>0, <1>2, <1>12 DEF ExecuteDelete, histories
<1>13. CASE ExecuteDrop
  BY <1>0, <1>2, <1>13 DEF ExecuteDrop, Drop
<1>14. ASSUME NEW p \in Clients, ScriptUnreadable(p)
       PROVE  OldRowsGone(q)'
  <2>1. p # q
    BY <1>0, <1>14 DEF ScriptUnreadable
  <2>2. pc'[q] = pc[q] /\ begun'[q] = begun[q]
    BY <1>14, <2>1 DEF ScriptUnreadable, Goto, IInv, TypeOK
  <2> QED
    BY <1>0, <1>2, <1>14, <2>2 DEF ScriptUnreadable, store
<1> QED
  BY <1>3, <1>4, <1>5, <1>6, <1>7, <1>8, <1>9, <1>10, <1>11, <1>12, <1>13, <1>14, Steps
     DEF Quiet

\* Who was handed no script is at its end.
LEMMA NextUnreadInv == IInv /\ [Next]_vars => UnreadInv'
<1> SUFFICES ASSUME IInv, [Next]_vars, NEW q \in unread'
             PROVE  pc'[q] = "renewed"
  BY DEF UnreadInv
<1>0. TypeOK /\ (q \in unread => pc[q] = "renewed")
  BY DEF IInv, UnreadInv
<1>1. ASSUME NEW p \in Processes, ScriptFails(p) \/ ScriptReturns(p)
      PROVE  pc'[q] = "renewed"
  <2>1. Leave(p)
    BY <1>1 DEF ScriptFails, ScriptReturns
  <2> QED
    BY <1>0, <2>1 DEF Leave, Goto, TypeOK, Processes
<1>2. ASSUME NEW p \in Clients, ScriptUnreadable(p)
      PROVE  pc'[q] = "renewed"
  BY <1>0, <1>2 DEF ScriptUnreadable, Goto, TypeOK, Processes
<1>3. ASSUME NEW p \in Processes, pc[p] = "script", Advance(p), unread' = unread
      PROVE  pc'[q] = "renewed"
  BY <1>0, <1>3, Advances DEF TypeOK, Processes
<1>4. CASE InstallerGoesOn
  BY <1>3, <1>4 DEF InstallerGoesOn, StatementFails, Processes
<1>5. ASSUME NEW p \in Processes, ScriptStatement(p)
      PROVE  pc'[q] = "renewed"
  BY <1>3, <1>5 DEF ScriptStatement
<1>6. ASSUME NEW p \in Processes, ScriptBegins(p)
      PROVE  pc'[q] = "renewed"
  BY <1>0, <1>6 DEF ScriptBegins, Ready, Goto, TypeOK
<1>7. ASSUME NEW p \in Clients, NEW name \in Names, InsertAccount(p, name)
      PROVE  pc'[q] = "renewed"
  BY <1>0, <1>7 DEF InsertAccount, Ready, Goto, TypeOK
<1>8. ASSUME NEW p \in Clients, ReadRowid(p)
      PROVE  pc'[q] = "renewed"
  BY <1>0, <1>8 DEF ReadRowid, Goto, histories, TypeOK
<1>9. ASSUME NEW p \in Clients, NEW account \in Given, InsertUser(p, account)
      PROVE  pc'[q] = "renewed"
  BY <1>0, <1>9 DEF InsertUser
<1>10. CASE ListAccountsThrows
  BY <1>0, <1>10 DEF ListAccountsThrows, Ready, Goto, histories, TypeOK
<1>11. CASE ExecuteDelete \/ ExecuteDrop \/ UNCHANGED vars
  BY <1>0, <1>11 DEF ExecuteDelete, ExecuteDrop, histories, vars
<1> QED
  BY <1>1, <1>2, <1>4, <1>5, <1>6, <1>7, <1>8, <1>9, <1>10, <1>11, Steps DEF Quiet

\* Who leaves the script begins it anew.
LEMMA NextNextInv == IInv /\ [Next]_vars => NextInv'
<1> SUFFICES ASSUME IInv, [Next]_vars, NEW q \in Processes, pc'[q] # "script"
             PROVE  next'[q] = 1
  BY DEF NextInv
<1>0. /\ TypeOK /\ (pc[q] # "script" => next[q] = 1)
      /\ \A p \in Processes : next[p] < 6 \/ next[p] = 6
  <2>1. \A p \in Processes : next[p] \in 1 .. 6
    BY ScriptLines DEF IInv, TypeOK
  <2>2. \A p \in Processes : next[p] < 6 \/ next[p] = 6
    BY <2>1
  <2>3. TypeOK /\ (pc[q] # "script" => next[q] = 1)
    BY DEF IInv, NextInv
  <2> QED
    BY <2>2, <2>3
<1>1. ASSUME NEW p \in Processes, ScriptBegins(p)
      PROVE  next'[q] = 1
  BY <1>0, <1>1 DEF ScriptBegins, Ready, Goto, TypeOK
<1>2. ASSUME NEW p \in Processes, Advance(p), pc[p] = "script"
      PROVE  next'[q] = 1
  BY <1>0, <1>2, Advances
<1>3. ASSUME NEW p \in Processes, ScriptFails(p)
      PROVE  next'[q] = 1
  <2>1. next' = [next EXCEPT ![p] = 1] /\ pc' = [pc EXCEPT ![p] = "idle"]
    BY <1>3 DEF ScriptFails, Leave, Goto
  <2>2. next'[q] = next[q] \/ next'[q] = 1
    BY <2>1, <1>0 DEF TypeOK
  <2>3. q # p => pc'[q] = pc[q]
    BY <2>1, <1>0 DEF TypeOK
  <2>4. q = p => next'[q] = 1
    BY <2>1, <1>0 DEF TypeOK
  <2> QED
    BY <1>0, <2>2, <2>3, <2>4
<1>4. ASSUME NEW p \in Processes, ScriptReturns(p)
      PROVE  next'[q] = 1
  BY <1>0, <1>4 DEF ScriptReturns, Leave, Goto, TypeOK
<1>5. CASE InstallerGoesOn
  BY <1>2, <1>5 DEF InstallerGoesOn, StatementFails, Processes
<1>6. ASSUME NEW p \in Clients, NEW name \in Names, InsertAccount(p, name)
      PROVE  next'[q] = 1
  BY <1>0, <1>6 DEF InsertAccount, Ready, Goto, TypeOK
<1>7. ASSUME NEW p \in Clients, ReadRowid(p) \/ \E account \in Given : InsertUser(p, account)
      PROVE  next'[q] = 1
  BY <1>0, <1>7 DEF ReadRowid, InsertUser, Ready, Goto, TypeOK
<1>8. CASE ListAccountsThrows
  BY <1>0, <1>8 DEF ListAccountsThrows, Ready, Goto, TypeOK
<1>9. CASE ExecuteDelete \/ ExecuteDrop \/ UNCHANGED vars
  BY <1>0, <1>9 DEF ExecuteDelete, ExecuteDrop, vars
<1>10. ASSUME NEW p \in Processes, ScriptStatement(p)
       PROVE  next'[q] = 1
  BY <1>2, <1>10 DEF ScriptStatement
<1>11. ASSUME NEW p \in Clients, ScriptUnreadable(p)
       PROVE  next'[q] = 1
  <2>1. p \in Processes /\ pc[p] = "idle" /\ next' = next
        /\ pc' = [pc EXCEPT ![p] = "renewed"]
    BY <1>11 DEF ScriptUnreadable, Ready, Goto, Processes
  <2> QED
    BY <1>0, <2>1 DEF TypeOK
<1> QED
  BY <1>1, <1>3, <1>4, <1>5, <1>6, <1>7, <1>8, <1>9, <1>10, <1>11, Steps DEF Quiet

\* A row that is inserted is held without an id until that is read.
LEMMA NextHeldInv == IInv /\ [Next]_vars => HeldInv'
<1> SUFFICES ASSUME IInv, [Next]_vars, NEW q \in Processes, pc'[q] = "inserted"
             PROVE  held'[q].id = 0
  BY DEF HeldInv
<1>0. TypeOK /\ (pc[q] = "inserted" => held[q].id = 0)
  BY DEF IInv, HeldInv
<1>1. CASE Quiet
  BY <1>0, <1>1, QuietSteps
<1>2. ASSUME NEW p \in Processes, ScriptStatement(p)
      PROVE  held'[q].id = 0
  <2>1. pc[p] = "script" /\ (next[p] < 6 \/ next[p] = 6) /\ Advance(p) /\ held' = held
    BY <1>0, <1>2, ScriptLines DEF ScriptStatement, TypeOK
  <2>2. pc[q] = "inserted"
    BY <1>0, <2>1, Advances
  <2> QED
    BY <1>0, <2>1, <2>2
<1>3. ASSUME NEW p \in Clients, NEW name \in Names, InsertAccount(p, name)
      PROVE  held'[q].id = 0
  BY <1>0, <1>3 DEF InsertAccount, Goto, TypeOK, Processes
<1>4. ASSUME NEW p \in Clients, ReadRowid(p)
      PROVE  held'[q].id = 0
  BY <1>0, <1>4 DEF ReadRowid, Goto, TypeOK, Processes
<1>5. ASSUME NEW p \in Clients, NEW account \in Given, InsertUser(p, account)
      PROVE  held'[q].id = 0
  BY <1>0, <1>5 DEF InsertUser, Goto, TypeOK, Processes
<1>6. CASE ExecuteDelete \/ ExecuteDrop
  BY <1>0, <1>6 DEF ExecuteDelete, ExecuteDrop
<1> QED
  BY <1>1, <1>2, <1>3, <1>4, <1>5, <1>6, Steps

\* What a process in the script has created is dropped by nobody it shares the
\* tables with, or it is no longer alone.
LEMMA NextAloneInv == IInv /\ [Next]_vars => AloneInv'
<1> DEFINE Kept(q) == /\ pc[q] \in {"script", "renewed"}
                      /\ pc[q] = "script" =>
                           /\ next[q] > 2 => "account" \in tables
                           /\ next[q] > 4 => "user" \in tables
                      /\ pc[q] = "renewed" => tables = Tables
<1> SUFFICES ASSUME IInv, [Next]_vars, NEW q \in alone'
             PROVE  Kept(q)'
  BY DEF AloneInv
<1>0. TypeOK /\ (\A p \in Processes : next[p] < 6 \/ next[p] = 6) /\ (q \in alone => Kept(q))
  <2>1. \A p \in Processes : next[p] \in 1 .. 6
    BY ScriptLines DEF IInv, TypeOK
  <2>2. \A p \in Processes : next[p] < 6 \/ next[p] = 6
    BY <2>1
  <2> QED
    BY <2>2 DEF IInv, AloneInv
<1>1. ASSUME q \in alone, pc'[q] = pc[q], next'[q] = next[q], tables' = tables
      PROVE  Kept(q)'
  BY <1>0, <1>1
<1>2. ASSUME NEW p \in Processes, ScriptBegins(p)
      PROVE  Kept(q)'
  <2>1. tables' = tables /\ next' = next /\ alone' = alone \cup ({p} \cap Clients)
    BY <1>2 DEF ScriptBegins, store
  <2>2. CASE q = p
    <3>1. pc'[q] = "script" /\ next'[q] = 1
      BY <1>0, <1>2, <2>1, <2>2 DEF ScriptBegins, Ready, Goto, IInv, NextInv, TypeOK
    <3> QED
      BY <3>1
  <2>3. CASE q # p
    <3>1. pc'[q] = pc[q] /\ q \in alone
      BY <1>0, <1>2, <2>1, <2>3 DEF ScriptBegins, Goto, TypeOK
    <3> QED
      BY <1>1, <2>1, <3>1
  <2> QED
    BY <2>2, <2>3
<1>3. ASSUME NEW p \in Processes, ScriptFails(p) \/ ScriptReturns(p)
      PROVE  Kept(q)'
  <2>1. Leave(p) /\ tables' = tables /\ (next' = next \/ next' = [next EXCEPT ![p] = 1])
    <3>1. CASE ScriptFails(p)
      BY <3>1 DEF ScriptFails, store
    <3>2. CASE ScriptReturns(p)
      BY <3>2 DEF ScriptReturns, store
    <3> QED
      BY <1>3, <3>1, <3>2
  <2>2. q \in alone /\ q # p /\ pc'[q] = pc[q] /\ next'[q] = next[q]
    BY <1>0, <2>1 DEF Leave, Goto, TypeOK, Processes
  <2> QED
    BY <1>1, <2>1, <2>2
<1>4. CASE InstallerGoesOn
  <2>1. tables' = tables /\ q \in alone \ {Installer} /\ q \in Processes
    BY <1>0, <1>4 DEF InstallerGoesOn, store, TypeOK, Processes
  <2>2. pc'[q] = pc[q] /\ next'[q] = next[q]
    BY <1>0, <1>4, <2>1, Advances DEF InstallerGoesOn, Processes
  <2> QED
    BY <1>1, <2>1, <2>2
<1>5. ASSUME NEW p \in Processes, ScriptStatement(p)
      PROVE  Kept(q)'
  <2>1. q = p /\ p \in alone /\ pc[p] = "script" /\ Advance(p)
    BY <1>5 DEF ScriptStatement
  <2>2. /\ next[p] < 6 => next'[p] = next[p] + 1 /\ pc'[p] = "script"
        /\ next[p] = 6 => next'[p] = 1 /\ pc'[p] = "renewed"
    BY <1>0, <2>1, Advances
  <2>3. CASE next[p] = 1 /\ Drop("account")
    BY <2>1, <2>2, <2>3
  <2>4. CASE next[p] = 2 /\ Create("account")
    BY <2>1, <2>2, <2>4 DEF Create
  <2>5. CASE next[p] = 3 /\ Drop("user")
    BY <1>0, <2>1, <2>2, <2>5 DEF Drop
  <2>6. CASE next[p] = 4 /\ Create("user")
    BY <1>0, <2>1, <2>2, <2>6 DEF Create
  <2>7. CASE next[p] = 5 /\ Drop("view_user")
    BY <1>0, <2>1, <2>2, <2>7 DEF Drop
  <2>8. CASE next[p] = 6 /\ Create("view_user")
    <3>1. "account" \in tables /\ "user" \in tables
      BY <1>0, <2>1, <2>8
    <3>2. tables \subseteq Tables /\ tables' = tables \cup {"view_user"}
      BY <1>0, <2>8 DEF Create, TypeOK
    <3>3. tables' = Tables
      BY <3>1, <3>2 DEF Tables
    <3> QED
      BY <2>1, <2>2, <2>8, <3>3
  <2> QED
    BY <1>0, <1>5, <2>3, <2>4, <2>5, <2>6, <2>7, <2>8, Statements
<1>6. ASSUME NEW p \in Clients, NEW name \in Names, InsertAccount(p, name)
      PROVE  Kept(q)'
  <2>1. /\ UNCHANGED <<tables, next, alone>> /\ pc' = [pc EXCEPT ![p] = "inserted"]
        /\ pc[p] = "idle"
    BY <1>6 DEF InsertAccount, Ready, Goto
  <2> QED
    BY <1>0, <1>1, <2>1 DEF TypeOK
<1>7. ASSUME NEW p \in Clients, ReadRowid(p)
      PROVE  Kept(q)'
  <2>1. /\ UNCHANGED <<tables, next, alone>> /\ pc' = [pc EXCEPT ![p] = "idle"]
        /\ pc[p] = "inserted"
    BY <1>7 DEF ReadRowid, Goto, store, histories
  <2> QED
    BY <1>0, <1>1, <2>1 DEF TypeOK
<1>11. ASSUME NEW p \in Clients, NEW account \in Given, InsertUser(p, account)
       PROVE  Kept(q)'
  BY <1>1, <1>11 DEF InsertUser
<1>12. ASSUME NEW p \in Clients, ScriptUnreadable(p)
       PROVE  Kept(q)'
  <2>1. /\ UNCHANGED <<tables, next, alone>> /\ pc' = [pc EXCEPT ![p] = "renewed"]
        /\ pc[p] = "idle"
    BY <1>12 DEF ScriptUnreadable, Ready, Goto, store
  <2> QED
    BY <1>0, <1>1, <2>1 DEF TypeOK
<1>8. CASE ListAccountsThrows
  <2>1. /\ UNCHANGED <<tables, next, alone>> /\ pc' = [pc EXCEPT ![Shell] = "ended"]
        /\ pc[Shell] = "idle"
    BY <1>8 DEF ListAccountsThrows, Ready, Goto, store, histories
  <2> QED
    BY <1>0, <1>1, <2>1 DEF TypeOK
<1>9. CASE ExecuteDelete \/ UNCHANGED vars
  BY <1>1, <1>9 DEF ExecuteDelete, vars, store, histories
<1>10. CASE ExecuteDrop
  BY <1>10 DEF ExecuteDrop
<1> QED
  BY <1>2, <1>3, <1>4, <1>5, <1>6, <1>7, <1>8, <1>9, <1>10, <1>11, <1>12, Steps DEF Quiet

-----------------------------------------------------------------------------
\* Somebody is yet to create the table.
Awaited(table, r) ==
  /\ pc[r] = "script"
  /\ \E i \in next[r] .. Len(Script) : Script[i] = [do |-> "create", table |-> table]

\* A drop is followed by the creation of the same table.
LEMMA DropsAreFollowed ==
  ASSUME TypeOK, NEW p \in Processes, ScriptStatement(p),
         NEW table \in tables, table \notin tables'
  PROVE  Awaited(table, p)'
<1>1. /\ \/ next[p] = 1 /\ table = "account"
         \/ next[p] = 3 /\ table = "user"
         \/ next[p] = 5 /\ table = "view_user"
      /\ pc[p] = "script" /\ Advance(p)
  BY Statements DEF ScriptStatement, Drop, Create
<1>2. next'[p] = next[p] + 1 /\ pc'[p] = "script"
  BY <1>1, Advances
<1>3. next[p] + 1 \in next[p] + 1 .. 6 /\ Len(Script) = 6
  BY <1>1, ScriptLines
<1>4. Script[next[p] + 1] = [do |-> "create", table |-> table]
  BY <1>1, ScriptLines
<1> QED
  BY <1>2, <1>3, <1>4 DEF Awaited

\* A creation that is ahead stays ahead until it is done.
LEMMA StaysAwaited ==
  ASSUME TypeOK, NEW p \in Processes, ScriptStatement(p),
         NEW table \in Tables, table \notin tables', NEW r \in Processes, Awaited(table, r)
  PROVE  Awaited(table, r)'
<1>1. pc[p] = "script" /\ Advance(p) /\ Len(Script) = 6 /\ next[p] \in 1 .. 6
  BY ScriptLines DEF ScriptStatement, TypeOK
<1>2. CASE r # p
  <2>1. next'[r] = next[r] /\ pc'[r] = pc[r]
    BY <1>1, <1>2, Advances
  <2> QED
    BY <2>1 DEF Awaited
<1>3. CASE r = p
  <2>1. PICK i \in next[p] .. 6 : Script[i] = [do |-> "create", table |-> table]
    BY <1>1, <1>3 DEF Awaited
  <2>2. i # next[p]
    <3>1. Script[next[p]].do = "drop" \/ Script[next[p]].table \in tables'
      BY Statements, ScriptLines DEF Create
    <3> QED
      BY <2>1, <3>1
  <2>3. next[p] < 6 /\ i \in next[p] + 1 .. 6
    BY <1>1, <2>1, <2>2
  <2>4. next'[p] = next[p] + 1 /\ pc'[p] = "script"
    BY <1>1, <2>3, Advances
  <2> QED
    BY <1>1, <1>3, <2>1, <2>3, <2>4 DEF Awaited
<1> QED
  BY <1>2, <1>3

\* When the table account is created the tables that are missing lie ahead.
LEMMA FirstEra ==
  ASSUME TypeOK, NEW p \in Processes, ScriptStatement(p), era' # era,
         NEW table \in Tables, table \notin tables'
  PROVE  Awaited(table, p)'
<1>1. next[p] = 2 /\ Create("account") /\ pc[p] = "script" /\ Advance(p)
  BY Statements DEF ScriptStatement, Drop, Create
<1>2. next'[p] = 3 /\ pc'[p] = "script"
  BY <1>1, Advances
<1>3. table = "user" \/ table = "view_user"
  BY <1>1 DEF Create, Tables
<1>4. 4 \in 3 .. 6 /\ 6 \in 3 .. 6 /\ Len(Script) = 6
  BY ScriptLines
<1> QED
  BY <1>2, <1>3, <1>4, ScriptLines DEF Awaited

\* Every step that drops a table says why it is missing.
LEMMA NextMissing == IInv /\ MissingIsExplained /\ [Next]_vars => MissingIsExplained'
<1> SUFFICES ASSUME IInv, MissingIsExplained, [Next]_vars,
                    NEW table \in Tables, table \notin tables', era' # 0, broken' # "yes"
             PROVE  \E r \in Processes : Awaited(table, r)'
  BY DEF MissingIsExplained, Awaited
<1>0. TypeOK
  BY DEF IInv
<1>1. ASSUME table \notin tables, era # 0, broken # "yes"
      PROVE  \E r \in Processes : Awaited(table, r)
  BY <1>1 DEF MissingIsExplained, Awaited
\* A step that leaves the tables alone and takes no process out of the script.
<1>2. ASSUME tables' = tables, era' = era, broken' = broken,
             \A r \in Processes : pc[r] = "script" => pc'[r] = "script" /\ next'[r] = next[r]
      PROVE  \E r \in Processes : Awaited(table, r)'
  <2>1. PICK r \in Processes : Awaited(table, r)
    BY <1>1, <1>2
  <2> QED
    BY <1>2, <2>1 DEF Awaited
<1>3. ASSUME NEW p \in Processes, ScriptBegins(p)
      PROVE  \E r \in Processes : Awaited(table, r)'
  <2>1. UNCHANGED <<tables, era, broken, next>> /\ pc' = [pc EXCEPT ![p] = "script"]
    BY <1>3 DEF ScriptBegins, Goto, store
  <2> QED
    BY <1>0, <1>2, <2>1 DEF TypeOK
<1>4. ASSUME NEW p \in Processes, ScriptReturns(p)
      PROVE  \E r \in Processes : Awaited(table, r)'
  <2>1. /\ UNCHANGED <<tables, era, broken, next>> /\ pc' = [pc EXCEPT ![p] = "idle"]
        /\ pc[p] = "renewed"
    BY <1>4 DEF ScriptReturns, Leave, Goto, store
  <2> QED
    BY <1>0, <1>2, <2>1 DEF TypeOK
<1>5. ASSUME NEW p \in Processes, ScriptFails(p) \/ InstallerGoesOn
      PROVE  broken' = "yes"
  BY <1>5 DEF ScriptFails, InstallerGoesOn, StatementFails
<1>6. ASSUME NEW p \in Processes, ScriptStatement(p)
      PROVE  \E r \in Processes : Awaited(table, r)'
  <2>1. broken' = broken
    BY <1>6 DEF ScriptStatement
  <2>2. CASE table \in tables
    BY <1>0, <1>6, <2>2, DropsAreFollowed
  <2>3. CASE era' # era
    BY <1>0, <1>6, <2>3, FirstEra
  <2>4. CASE table \notin tables /\ era' = era
    <3>1. PICK r \in Processes : Awaited(table, r)
      BY <1>1, <2>1, <2>4
    <3> QED
      BY <1>0, <1>6, <3>1, StaysAwaited
  <2> QED
    BY <2>2, <2>3, <2>4
<1>7. ASSUME NEW p \in Clients, NEW name \in Names, InsertAccount(p, name)
      PROVE  \E r \in Processes : Awaited(table, r)'
  <2>1. /\ UNCHANGED <<tables, era, broken, next>> /\ pc' = [pc EXCEPT ![p] = "inserted"]
        /\ pc[p] = "idle"
    BY <1>7 DEF InsertAccount, Ready, Goto
  <2> QED
    BY <1>0, <1>2, <2>1 DEF TypeOK
<1>8. ASSUME NEW p \in Clients, ReadRowid(p)
      PROVE  \E r \in Processes : Awaited(table, r)'
  <2>1. /\ UNCHANGED <<tables, era, broken, next>> /\ pc' = [pc EXCEPT ![p] = "idle"]
        /\ pc[p] # "script"
    BY <1>8 DEF ReadRowid, Goto, store, histories
  <2> QED
    BY <1>0, <1>2, <2>1 DEF TypeOK
<1>12. ASSUME NEW p \in Clients, NEW account \in Given, InsertUser(p, account)
       PROVE  \E r \in Processes : Awaited(table, r)'
  BY <1>2, <1>12 DEF InsertUser
<1>13. ASSUME NEW p \in Clients, ScriptUnreadable(p)
       PROVE  \E r \in Processes : Awaited(table, r)'
  <2>1. /\ UNCHANGED <<tables, era, broken, next>> /\ pc' = [pc EXCEPT ![p] = "renewed"]
        /\ pc[p] = "idle"
    BY <1>13 DEF ScriptUnreadable, Ready, Goto, store
  <2> QED
    BY <1>0, <1>2, <2>1 DEF TypeOK
<1>9. CASE ListAccountsThrows
  <2>1. /\ UNCHANGED <<tables, era, broken, next>> /\ pc' = [pc EXCEPT ![Shell] = "ended"]
        /\ pc[Shell] = "idle"
    BY <1>9 DEF ListAccountsThrows, Ready, Goto, store, histories
  <2> QED
    BY <1>0, <1>2, <2>1 DEF TypeOK
<1>10. CASE ExecuteDelete \/ UNCHANGED vars
  BY <1>2, <1>10 DEF ExecuteDelete, vars, store, histories
<1>11. CASE ExecuteDrop
  BY <1>11 DEF ExecuteDrop
<1> QED
  BY <1>3, <1>4, <1>5, <1>6, <1>7, <1>8, <1>9, <1>10, <1>11, <1>12, <1>13, Steps
     DEF Quiet, Processes

-----------------------------------------------------------------------------
\* So all of it holds in every reachable state.
LEMMA Inductive == Spec => [](IInv /\ MissingIsExplained)
<1>1. IInv /\ MissingIsExplained /\ [Next]_vars => (IInv /\ MissingIsExplained)'
  BY NextTypeOK, NextRowsInv, NextIdInv, NextNextInv, NextHeldInv, NextUnreadInv,
     NextRenewInv, NextAloneInv, NextMissing DEF IInv
<1> QED
  BY InitIInv, <1>1, PTL DEF Spec

\* The variables keep their types: no process leaves the script but by its end
\* or a failure.
THEOREM TypeCorrect == Spec => []TypeOK
<1>1. IInv => TypeOK
  BY DEF IInv
<1> QED
  BY Inductive, <1>1, PTL

\* The id InsertAccount returns is that of the row it inserted, for any number
\* of processes that insert at the same time and of deletions.
THEOREM RowidsOwn == Spec => []OwnRowid
<1>1. IInv => OwnRowid
  <2> SUFFICES ASSUME IInv, NEW p \in Clients, NEW a \in accounts,
                      held[p].id = a.id, held[p].era = a.era
               PROVE  held[p].serial = a.serial
    BY DEF OwnRowid
  <2>1. p \in Processes /\ a.id >= 1 /\ a.id \in Nat
    BY DEF IInv, RowsInv, TypeOK, Accounts, Processes
  <2>2. pc[p] # "inserted"
    BY <2>1 DEF IInv, HeldInv
  <2> QED
    BY <2>1, <2>2 DEF IInv, IdInv, IdOf
<1> QED
  BY Inductive, <1>1, PTL

\* No account inherits a user who was inserted before it, while the table lives,
\* unless he was given an id that had not been issued.
THEOREM UsersBelong == Spec => []UserBelongs
<1>1. IInv => UserBelongs
  <2> SUFFICES ASSUME IInv, NEW u \in users, NEW a \in accounts,
                      a.id = u.account, a.era = u.era, ~u.early
               PROVE  a.serial < u.serial
    BY DEF UserBelongs, GetUserList
  <2> QED
    BY DEF IInv, IdInv
<1> QED
  BY Inductive, <1>1, PTL

\* After an initialisation whose script could be read no row is left from before,
\* and all tables are there if nobody else was at them.
THEOREM RenewsAll == Spec => []RenewedIsNew
<1>1. IInv => RenewedIsNew
  <2> SUFFICES ASSUME IInv, NEW p \in Clients \ unread, pc[p] = "renewed"
               PROVE  /\ \A row \in accounts \cup users : row.serial > begun[p]
                      /\ p \in alone => tables = Tables
    BY DEF RenewedIsNew
  <2> QED
    BY DEF IInv, RenewInv, OldRowsGone, AloneInv
<1> QED
  BY Inductive, <1>1, PTL

\* A missing table has one of four reasons.
THEOREM MissingTables == Spec => []MissingIsExplained
BY Inductive, PTL

-----------------------------------------------------------------------------
(* The refinement: to a caller an insertion is one step.                   *)

\* Two accounts have neither the id nor the name in common, and there is a row
\* for each id that was issued since the table was created.
StoreInv ==
  /\ rows <= MaxRows
  /\ issued["account"] <= rows
  /\ \A a, b \in accounts : a.id = b.id \/ a.name = b.name => a = b

\* No id is read by a step but the one by which it is returned.
LEMMA ScriptKeepsIds ==
  ASSUME IInv, NEW p \in Processes, ScriptStatement(p)
  PROVE  /\ \A q \in Processes : IdOf(q)' = IdOf(q)
         /\ rows' = rows
         /\ \E table \in Tables : Drop(table) \/ Create(table)
<1>1. \A q \in Processes : pc'[q] = "inserted" <=> pc[q] = "inserted"
  <2>1. pc[p] = "script" /\ (next[p] < 6 \/ next[p] = 6) /\ Advance(p)
    BY ScriptLines DEF ScriptStatement, IInv, TypeOK
  <2> QED
    BY <2>1, Advances DEF IInv
<1>2. \A q \in Processes : IdOf(q)' = IdOf(q)
  BY <1>1 DEF ScriptStatement, IdOf
<1>3. \E table \in Tables : Drop(table) \/ Create(table)
  BY Statements DEF Tables, IInv
<1> QED
  BY <1>2, <1>3 DEF ScriptStatement

LEMMA QuietKeepsIds ==
  ASSUME IInv, Quiet
  PROVE  /\ \A q \in Processes : IdOf(q)' = IdOf(q)
         /\ UNCHANGED <<accounts, issued, rows>>
  BY QuietSteps DEF IInv, IdOf

\* A drop forgets the accounts with their ids or leaves both.
LEMMA DropForgets ==
  ASSUME IInv, NEW table \in Tables, Drop(table)
  PROVE  \/ accounts' = {} /\ issued'["account"] = 0
         \/ accounts' = accounts /\ issued'["account"] = issued["account"]
  BY DEF Drop, IInv, TypeOK

LEMMA StoreStep == IInv /\ StoreInv /\ [Next]_vars => StoreInv'
<1> SUFFICES ASSUME IInv, StoreInv, [Next]_vars PROVE StoreInv'
  OBVIOUS
<1>q. /\ rows \in Nat /\ issued["account"] \in Nat /\ MaxRows \in Nat
      /\ \A a \in accounts : a.id \in Nat /\ a.id <= issued["account"]
      /\ issued \in [{"account", "user"} -> Nat]
  BY SQLConnectorAssumption DEF IInv, TypeOK, RowsInv, Accounts
<1>1. CASE Quiet
  BY <1>1, QuietKeepsIds DEF StoreInv
<1>2. ASSUME NEW table \in Tables, Drop(table), rows' = rows PROVE StoreInv'
  BY <1>2, <1>q, DropForgets DEF StoreInv
<1>3. ASSUME NEW table \in Tables, Create(table), rows' = rows PROVE StoreInv'
  BY <1>3 DEF Create, StoreInv
<1>4. ASSUME NEW p \in Clients, NEW name \in Names, InsertAccount(p, name) PROVE StoreInv'
  <2> DEFINE row == [id |-> issued["account"] + 1, name |-> name, era |-> era,
                     serial |-> rows + 1]
  <2>1. /\ accounts' = accounts \cup {row} /\ issued'["account"] = issued["account"] + 1
        /\ rows' = rows + 1 /\ rows < MaxRows
        /\ \A a \in accounts : a.name # row.name
    BY <1>4, <1>q DEF InsertAccount, Insertable, NextId
  <2>2. \A a \in accounts : a.id # row.id
    BY <1>q
  <2>3. \A a, b \in accounts' : a.id = b.id \/ a.name = b.name => a = b
    BY <2>1, <2>2 DEF StoreInv
  <2>4. rows' <= MaxRows /\ issued'["account"] <= rows'
    BY <1>q, <2>1 DEF StoreInv
  <2> QED
    BY <2>3, <2>4 DEF StoreInv
<1>5. ASSUME NEW p \in Clients, ReadRowid(p) PROVE StoreInv'
  BY <1>5 DEF ReadRowid, store, histories, StoreInv
<1>6. ASSUME NEW p \in Clients, NEW account \in Given, InsertUser(p, account) PROVE StoreInv'
  <2>1. /\ accounts' = accounts /\ issued'["account"] = issued["account"]
        /\ rows' = rows + 1 /\ rows < MaxRows
    BY <1>6, <1>q DEF InsertUser
  <2> QED
    BY <1>q, <2>1 DEF StoreInv
<1>7. CASE ExecuteDelete
  BY <1>7 DEF ExecuteDelete, histories, StoreInv
<1>8. ASSUME NEW p \in Processes, ScriptStatement(p) PROVE StoreInv'
  BY <1>2, <1>3, <1>8, ScriptKeepsIds
<1>9. CASE ExecuteDrop
  <2>1. rows' = rows /\ \E table \in Tables : Drop(table)
    BY <1>9 DEF ExecuteDrop, IInv, TypeOK
  <2> QED
    BY <1>2, <2>1
<1> QED
  BY <1>1, <1>4, <1>5, <1>6, <1>7, <1>8, <1>9, Steps

Listed == {[id |-> a.id, name |-> a.name] : a \in accounts}

Returned == [p \in Processes |-> IdOf(p)]

LEMMA StoreKept ==
  ASSUME accounts' = accounts, issued'["account"] = issued["account"],
         \A q \in Processes : IdOf(q)' = IdOf(q)
  PROVE  UNCHANGED Store!vars
<1>1. Listed' = Listed /\ Returned' = Returned
  BY DEF Listed, Returned
<1> QED
  BY <1>1 DEF Store!vars, Listed, Returned

\* With the table go the ids that were issued.
LEMMA DropImplements ==
  ASSUME IInv, NEW table \in Tables, Drop(table),
         \A q \in Processes : IdOf(q)' = IdOf(q)
  PROVE  [Store!Next]_(Store!vars)
<1>1. CASE accounts' = {} /\ issued'["account"] = 0
  <2>1. Listed' = {} /\ 1 .. issued'["account"] = {} /\ Returned' = Returned
    BY <1>1 DEF Listed, Returned
  <2>2. Store!Forget
    BY <2>1 DEF Store!Forget, Listed, Returned
  <2> QED
    BY <2>2 DEF Store!Next
<1>2. CASE accounts' = accounts /\ issued'["account"] = issued["account"]
  BY <1>2, StoreKept
<1> QED
  BY <1>1, <1>2, DropForgets

LEMMA StoreImplements == IInv /\ StoreInv /\ [Next]_vars => [Store!Next]_(Store!vars)
<1> SUFFICES ASSUME IInv, StoreInv, [Next]_vars PROVE [Store!Next]_(Store!vars)
  OBVIOUS
<1>q. /\ rows \in Nat /\ issued["account"] \in Nat /\ MaxRows \in Nat
      /\ issued \in [{"account", "user"} -> Nat]
      /\ pc \in [Processes -> {"idle", "script", "inserted", "renewed", "ended"}]
      /\ lastRowid \in [Processes -> Nat]
      /\ held \in [Processes -> [id : Nat, era : Nat, serial : Nat]]
      /\ Clients \subseteq Processes
  BY SQLConnectorAssumption DEF IInv, TypeOK, Processes
<1>1. CASE Quiet
  BY <1>1, QuietKeepsIds, StoreKept
<1>2. ASSUME NEW p \in Processes, ScriptStatement(p) PROVE [Store!Next]_(Store!vars)
  <2>1. ASSUME NEW table \in Tables, Create(table) PROVE UNCHANGED Store!vars
    BY <1>2, <2>1, ScriptKeepsIds, StoreKept DEF Create
  <2> QED
    BY <1>2, <2>1, ScriptKeepsIds, DropImplements
<1>3. ASSUME NEW p \in Clients, NEW name \in Names, InsertAccount(p, name)
      PROVE  Store!Next
  <2> DEFINE id == issued["account"] + 1
             row == [id |-> id, name |-> name, era |-> era, serial |-> rows + 1]
  <2>1. /\ accounts' = accounts \cup {row} /\ row.id = id /\ row.name = name
        /\ issued'["account"] = id /\ rows < MaxRows
        /\ \A a \in accounts : a.name # name
        /\ lastRowid' = [lastRowid EXCEPT ![p] = id]
        /\ pc' = [pc EXCEPT ![p] = "inserted"]
        /\ held' = [held EXCEPT ![p] = [id |-> 0, era |-> era, serial |-> rows + 1]]
    BY <1>3, <1>q DEF InsertAccount, Insertable, NextId, Goto
  <2>2. id \in (1 .. MaxRows) \ (1 .. issued["account"])
    BY <1>q, <2>1 DEF StoreInv
  <2>3. 1 .. issued'["account"] = (1 .. issued["account"]) \cup {id}
    <3>1. \A n \in Nat : 1 .. n + 1 = (1 .. n) \cup {n + 1}
      OBVIOUS
    <3> QED
      BY <1>q, <2>1, <3>1
  <2>4. Listed' = Listed \cup {[id |-> id, name |-> name]}
    <3> HIDE DEF row
    <3> QED
      BY <2>1 DEF Listed
  <2>5. \A r \in Listed : r.name # name
    BY <2>1 DEF Listed
  <2>6. Returned' = [Returned EXCEPT ![p] = id]
    <3>1. \A q \in Processes : IdOf(q)' = IF q = p THEN id ELSE IdOf(q)
      BY <1>q, <2>1 DEF IdOf
    <3> QED
      BY <1>q, <3>1 DEF Returned
  <2>7. Store!Insert(p, name)
    BY <2>2, <2>3, <2>4, <2>5, <2>6 DEF Store!Insert, Listed, Returned
  <2> QED
    BY <1>q, <2>7 DEF Store!Next
<1>4. ASSUME NEW p \in Clients, ReadRowid(p) PROVE UNCHANGED Store!vars
  <2>1. /\ accounts' = accounts /\ issued' = issued /\ lastRowid' = lastRowid
        /\ pc[p] = "inserted" /\ pc' = [pc EXCEPT ![p] = "idle"]
        /\ held' = [held EXCEPT ![p].id = lastRowid[p]]
    BY <1>4 DEF ReadRowid, store, Goto
  <2>2. \A q \in Processes : IdOf(q)' = IdOf(q)
    BY <1>q, <2>1 DEF IdOf
  <2> QED
    BY <2>1, <2>2, StoreKept
<1>5. ASSUME NEW p \in Clients, NEW account \in Given, InsertUser(p, account) PROVE UNCHANGED Store!vars
  <2>1. /\ accounts' = accounts /\ issued'["account"] = issued["account"] /\ held' = held
        /\ pc[p] = "idle" /\ pc' = pc
        /\ \A q \in Processes \ {p} : lastRowid'[q] = lastRowid[q]
    BY <1>5, <1>q DEF InsertUser, Ready
  <2>2. \A q \in Processes : IdOf(q)' = IdOf(q)
    BY <1>q, <2>1 DEF IdOf
  <2> QED
    BY <2>1, <2>2, StoreKept
<1>6. CASE ExecuteDelete
  <2>1. PICK a \in accounts : accounts' = accounts \ {a}
    BY <1>6 DEF ExecuteDelete
  <2>2. /\ issued' = issued
        /\ \A q \in Processes : IdOf(q)' = IdOf(q)
    BY <1>6 DEF ExecuteDelete, IdOf
  <2> DEFINE r == [id |-> a.id, name |-> a.name]
  <2>3. \A b \in accounts : [id |-> b.id, name |-> b.name] = r => b = a
    BY DEF StoreInv
  <2>4. Listed' = Listed \ {r} /\ r \in Listed
    BY <2>1, <2>3 DEF Listed
  <2>5. Returned' = Returned
    BY <2>2 DEF Returned
  <2>6. PICK gone \in Listed : gone = r
    BY <2>4
  <2>7. Store!Delete(gone)
    BY <2>2, <2>4, <2>5, <2>6 DEF Store!Delete, Listed, Returned
  <2> QED
    BY <2>6, <2>7 DEF Store!Next, Listed
<1>7. CASE ExecuteDrop
  <2>1. PICK table \in Tables : Drop(table)
    BY <1>7 DEF ExecuteDrop, IInv, TypeOK
  <2>2. \A q \in Processes : IdOf(q)' = IdOf(q)
    BY <1>7 DEF ExecuteDrop, IdOf
  <2> QED
    BY <2>1, <2>2, DropImplements
<1> QED
  BY <1>1, <1>2, <1>3, <1>4, <1>5, <1>6, <1>7, Steps

LEMMA StoreInit == Init => StoreInv /\ Store!Init
<1> SUFFICES ASSUME Init PROVE StoreInv /\ Store!Init
  OBVIOUS
<1>1. Listed = {} /\ 1 .. issued["account"] = {} /\ Returned = [p \in Processes |-> 0]
  BY DEF Init, Listed, Returned, IdOf
<1>2. StoreInv
  BY SQLConnectorAssumption DEF Init, StoreInv
<1> QED
  BY <1>1, <1>2 DEF Store!Init, Store!Nothing, Listed, Returned

\* InsertAccount's two statements are one insertion of a new id that is returned
\* to who asked for it, for any number of processes.
THEOREM AccountsImplementStore == Spec => ImplementsStore
<1>1. IInv /\ MissingIsExplained => IInv
  OBVIOUS
<1>2. IInv /\ StoreInv /\ [Next]_vars => StoreInv'
  BY StoreStep
<1>3. IInv /\ StoreInv /\ [Next]_vars => [Store!Next]_(Store!vars)
  BY StoreImplements
<1> QED
  BY <1>1, <1>2, <1>3, StoreInit, Inductive, PTL DEF Spec, ImplementsStore, Store!Spec
=============================================================================
