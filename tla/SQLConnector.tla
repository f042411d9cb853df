------------------------------ MODULE SQLConnector ------------------------------
(***************************************************************************)
(* The account store: processes that share one SQLite file.  The server's  *)
(* shell lists the accounts and executes what is typed (AdminShell.cpp);   *)
(* programs that use the class SQLConnector, such as the unit tests,       *)
(* initialise the tables and insert accounts and users; the installer      *)
(* feeds the same script to the command line tool (db/init_db.sh).         *)
(*                                                                         *)
(* SQLite runs one statement at a time and commits each on its own: a      *)
(* statement is one action.  No busy timeout is set, so a statement fails  *)
(* at once when another process holds a lock (Locked).                     *)
(*                                                                         *)
(* Rows carry what they do not have in the code, to say which row is       *)
(* which: their number among all rows ever inserted (serial), and the      *)
(* incarnation of the table account they were inserted in (era).           *)
(***************************************************************************)
EXTENDS Naturals, Sequences, FiniteSets

CONSTANTS
  Clients,       \* the processes that call the class's other methods
  Shell,         \* the server, by its administrator's shell
  Installer,     \* init_db.sh
  Names,         \* the account names, those that differ in case only being one
  Invalid,       \* the names SanitizeAccountName refuses
  Given,         \* the numbers passed to InsertUser for an account's id
  MaxRows,       \* bound: rows ever inserted
  MaxEras        \* bound: times the table account is created

Processes == Clients \cup {Shell, Installer}

ASSUME SQLConnectorAssumption ==
  /\ Shell \notin Clients /\ Installer \notin Clients /\ Shell # Installer
  /\ Given \subseteq Nat
  /\ MaxRows \in Nat
  /\ MaxEras \in Nat

VARIABLES
  tables,      \* the tables and the view that exist
  accounts,    \* the rows of account
  users,       \* the rows of user
  issued,      \* the last id AUTOINCREMENT issued, for each table
  pc,          \* where each process is: "idle", "script", "inserted" (its row is
               \* in, its id not read), "renewed" (ExecuteSqlFile returns true) or
               \* "ended"
  next,        \* the statement of the script that comes next
  lastRowid,   \* each connection's last inserted rowid
  held,        \* the id that InsertAccount returned last, and the row it is of
  rows,        \* history: the number of rows ever inserted
  era,         \* history: how often the table account was created
  begun,       \* history: rows when the process began the script
  unread,      \* history: the processes whose script was not there to be read
  alone,       \* history: the processes whose script nobody else disturbed
  broken       \* history: a script lost a statement, or a table was dropped by hand

store == <<tables, accounts, users, issued>>
histories == <<rows, era, begun, unread, alone, broken>>
vars == <<store, pc, next, lastRowid, held, histories>>

Tables == {"account", "user", "view_user"}

\* init_db.sql
Script == << [do |-> "drop", table |-> "account"],   [do |-> "create", table |-> "account"],
             [do |-> "drop", table |-> "user"],      [do |-> "create", table |-> "user"],
             [do |-> "drop", table |-> "view_user"], [do |-> "create", table |-> "view_user"] >>

Accounts == [id : Nat, name : Names, era : Nat, serial : Nat]
\* early: no account had been issued the id when the user was given it.
Users == [id : Nat, account : Nat, era : Nat, early : BOOLEAN, serial : Nat]

TypeOK ==
  /\ tables \in SUBSET Tables
  /\ accounts \in SUBSET Accounts
  /\ users \in SUBSET Users
  /\ issued \in [{"account", "user"} -> Nat]
  /\ pc \in [Processes -> {"idle", "script", "inserted", "renewed", "ended"}]
  /\ next \in [Processes -> 1 .. Len(Script)]
  /\ lastRowid \in [Processes -> Nat]
  /\ held \in [Processes -> [id : Nat, era : Nat, serial : Nat]]
  /\ rows \in Nat /\ era \in Nat
  /\ begun \in [Clients -> Nat]
  /\ unread \in SUBSET Clients
  /\ alone \in SUBSET Clients
  /\ broken \in {"no", "yes"}

-----------------------------------------------------------------------------
\* The file is created empty when it is not there (SQLite::OPEN_CREATE).
Init ==
  /\ tables = {}
  /\ accounts = {}
  /\ users = {}
  /\ issued = [table \in {"account", "user"} |-> 0]
  /\ pc = [p \in Processes |-> "idle"]
  /\ next = [p \in Processes |-> 1]
  /\ lastRowid = [p \in Processes |-> 0]
  /\ held = [p \in Processes |-> [id |-> 0, era |-> 0, serial |-> 0]]
  /\ rows = 0
  /\ era = 0
  /\ begun = [p \in Clients |-> 0]
  /\ unread = {}
  /\ alone = {}
  /\ broken = "no"

\* Between two calls.
Ready(p) == pc[p] = "idle"

\* Another process may hold a lock.
Locked(p) == Processes \ {p} # {}

Goto(p, label) == pc' = [pc EXCEPT ![p] = label]

\* (mutant of Drop) the table user outlives the script.
DropKeepsUsers(table) ==
  /\ tables' = tables \ {table}
  /\ accounts' = IF table = "account" THEN {} ELSE accounts
  /\ issued' = [t \in {"account", "user"} |-> IF t = table THEN 0 ELSE issued[t]]
  /\ UNCHANGED <<users, era>>

\* DROP TABLE IF EXISTS, DROP VIEW IF EXISTS: with a table go its rows and its
\* counter.
Drop(table) ==
  /\ tables' = tables \ {table}
  /\ accounts' = IF table = "account" THEN {} ELSE accounts
  /\ users' = IF table = "user" THEN {} ELSE users
  /\ issued' = [t \in {"account", "user"} |-> IF t = table THEN 0 ELSE issued[t]]
  /\ UNCHANGED era

\* CREATE TABLE, CREATE VIEW
Create(table) ==
  /\ table \notin tables
  /\ table = "account" => era < MaxEras
  /\ tables' = tables \cup {table}
  /\ era' = IF table = "account" THEN era + 1 ELSE era
  /\ UNCHANGED <<accounts, users, issued>>

\* ExecuteSqlFile, or init_db.sh: the script is read and handed over.
ScriptBegins(p) ==
  /\ p # Shell
  /\ Ready(p)
  /\ era < MaxEras
  /\ Goto(p, "script")
  /\ begun' = [c \in Clients |-> IF c = p THEN rows ELSE begun[c]]
  /\ alone' = alone \cup ({p} \cap Clients)
  /\ UNCHANGED <<store, next, lastRowid, held, rows, era, unread, broken>>

\* ExecuteSqlFile does not look whether the file was opened.  What it reads then
\* is the empty string, which is executed without an error: it returns true.
ScriptUnreadable(p) ==
  /\ Ready(p)
  /\ Goto(p, "renewed")
  /\ begun' = [c \in Clients |-> IF c = p THEN rows ELSE begun[c]]
  /\ unread' = unread \cup {p}
  /\ UNCHANGED <<store, next, lastRowid, held, rows, era, alone, broken>>

\* (mutant of Advance) the last statement is not reached.
AdvanceTooFar(p) ==
  IF next[p] + 1 < Len(Script)
  THEN next' = [next EXCEPT ![p] = @ + 1] /\ UNCHANGED pc
  ELSE Goto(p, "renewed") /\ next' = [next EXCEPT ![p] = 1]

\* (mutant of Advance) no end.
AdvanceForever(p) ==
  IF next[p] <= Len(Script)
  THEN next' = [next EXCEPT ![p] = @ + 1] /\ UNCHANGED pc
  ELSE Goto(p, "renewed") /\ next' = [next EXCEPT ![p] = 1]

\* The next statement, or the end of the script.
Advance(p) ==
  IF next[p] < Len(Script)
  THEN next' = [next EXCEPT ![p] = @ + 1] /\ UNCHANGED pc
  ELSE Goto(p, "renewed") /\ next' = [next EXCEPT ![p] = 1]

ScriptStatement(p) ==
  /\ pc[p] = "script"
  /\ LET statement == Script[next[p]] IN
       \/ statement.do = "drop" /\ Drop(statement.table)
       \/ statement.do = "create" /\ Create(statement.table)
  /\ Advance(p)
  /\ alone' = alone \cap {p}
  /\ UNCHANGED <<lastRowid, held, rows, begun, unread, broken>>

\* A table that exists cannot be created, and nothing can be done behind a lock.
StatementFails(p) ==
  /\ pc[p] = "script"
  /\ \/ Script[next[p]].do = "create" /\ Script[next[p]].table \in tables
     \/ Locked(p)
  /\ broken' = "yes"

\* Back to the caller.
Leave(p) ==
  /\ Goto(p, "idle")
  /\ begun' = [c \in Clients |-> IF c = p THEN 0 ELSE begun[c]]
  /\ unread' = unread \ {p}
  /\ alone' = alone \ {p}

\* ExecuteSqlFile returns true, or the tool has come to the end of its input.
ScriptReturns(p) ==
  /\ pc[p] = "renewed"
  /\ Leave(p)
  /\ UNCHANGED <<store, next, lastRowid, held, rows, era, broken>>

\* sqlite3_exec stops at the first error and ExecuteSqlFile returns false.
ScriptFails(p) ==
  /\ p # Installer
  /\ StatementFails(p)
  /\ Leave(p)
  /\ next' = [next EXCEPT ![p] = 1]
  /\ UNCHANGED <<store, lastRowid, held, rows, era>>

\* The command line tool goes on.
InstallerGoesOn ==
  /\ StatementFails(Installer)
  /\ Advance(Installer)
  /\ alone' = alone \ {Installer}
  /\ UNCHANGED <<store, lastRowid, held, rows, era, begun, unread>>

-----------------------------------------------------------------------------
\* (mutant of NextId) without AUTOINCREMENT: one more than the largest in use.
NextIdReused(table) ==
  LET ids == {r.id : r \in IF table = "account" THEN accounts ELSE users}
  IN  CHOOSE id \in 1 .. Cardinality(ids) + issued[table] + 1 :
        id - 1 \in ids \cup {0} /\ \A other \in ids : other < id

\* AUTOINCREMENT does not issue an id twice while the table lives.
NextId(table) == issued[table] + 1

\* The name is sanitised and unique, whatever its case.  InsertAccount returns 0
\* and changes nothing if it is not, and if the statement throws.
Insertable(name) ==
  /\ name \notin Invalid
  /\ "account" \in tables
  /\ \A a \in accounts : a.name # name

\* InsertAccount up to exec().  What it will return is read by ReadRowid.
InsertAccount(p, name) ==
  /\ Ready(p)
  /\ rows < MaxRows
  /\ Insertable(name)
  /\ accounts' = accounts \cup
       {[id |-> NextId("account"), name |-> name, era |-> era, serial |-> rows + 1]}
  /\ issued' = [issued EXCEPT !["account"] = NextId("account")]
  /\ lastRowid' = [lastRowid EXCEPT ![p] = NextId("account")]
  /\ held' = [held EXCEPT ![p] = [id |-> 0, era |-> era, serial |-> rows + 1]]
  /\ rows' = rows + 1
  /\ Goto(p, "inserted")
  /\ UNCHANGED <<tables, users, next, era, begun, unread, alone, broken>>

\* (mutant of ReadRowid) the largest id in the table is asked for.
ReadLargestId(p) ==
  /\ pc[p] = "inserted"
  /\ held' = [held EXCEPT ![p].id = issued["account"]]
  /\ Goto(p, "idle")
  /\ UNCHANGED <<store, next, lastRowid, histories>>

\* getLastInsertRowid(), which each connection keeps for itself.
ReadRowid(p) ==
  /\ pc[p] = "inserted"
  /\ held' = [held EXCEPT ![p].id = lastRowid[p]]
  /\ Goto(p, "idle")
  /\ UNCHANGED <<store, next, lastRowid, histories>>

\* The id of the account is whatever number the caller passes: one that
\* InsertAccount returned, the 0 of one that failed, or a literal
\* (UnitTest.cpp:101).  Nobody looks whether there is such an account; the table
\* names no foreign key.
InsertUser(p, account) ==
  /\ Ready(p)
  /\ rows < MaxRows
  /\ "user" \in tables
  /\ users' = users \cup
       {[id |-> NextId("user"), account |-> account, era |-> era,
         early |-> account > issued["account"], serial |-> rows + 1]}
  /\ issued' = [issued EXCEPT !["user"] = NextId("user")]
  /\ lastRowid' = [lastRowid EXCEPT ![p] = NextId("user")]
  /\ rows' = rows + 1
  /\ UNCHANGED <<tables, accounts, pc, next, held, era, begun, unread, alone, broken>>

\* "/list accounts": GetAccounts does not catch what the statement throws, nor
\* does the shell's thread, and the server ends.
ListAccountsThrows ==
  /\ Ready(Shell)
  /\ "account" \notin tables \/ Locked(Shell)
  /\ Goto(Shell, "ended")
  /\ UNCHANGED <<store, next, lastRowid, held, histories>>

\* "/db delete from account where ...": one row or another.
ExecuteDelete ==
  /\ Ready(Shell)
  /\ "account" \in tables
  /\ \E a \in accounts : accounts' = accounts \ {a}
  /\ UNCHANGED <<tables, users, issued, pc, next, lastRowid, held, histories>>

\* "/db drop table ..."; what comes behind the first statement is not executed.
ExecuteDrop ==
  /\ Ready(Shell)
  /\ \E table \in tables : Drop(table)
  /\ alone' = {}
  /\ broken' = "yes"
  /\ UNCHANGED <<pc, next, lastRowid, held, rows, begun, unread>>

Next ==
  \/ \E p \in Processes :
       ScriptBegins(p) \/ ScriptStatement(p) \/ ScriptFails(p) \/ ScriptReturns(p)
  \/ InstallerGoesOn
  \/ \E p \in Clients :
       \/ ScriptUnreadable(p)
       \/ \E name \in Names : InsertAccount(p, name)
       \/ ReadRowid(p)
       \/ \E account \in Given : InsertUser(p, account)
  \/ ListAccountsThrows \/ ExecuteDelete \/ ExecuteDrop

Spec == Init /\ [][Next]_vars

-----------------------------------------------------------------------------
(* Properties.                                                             *)

\* GetUserList: the view joins the two tables by the account's id.
GetUserList(name) ==
  {u \in users : \E a \in accounts : a.name = name /\ a.id = u.account}

\* The id a process has, or is about to read and will have.
IdOf(p) == IF pc[p] = "inserted" THEN lastRowid[p] ELSE held[p].id

Store == INSTANCE AccountStore WITH
  Ids      <- 1 .. MaxRows,
  table    <- {[id |-> a.id, name |-> a.name] : a \in accounts},
  used     <- 1 .. issued["account"],
  returned <- [p \in Processes |-> IdOf(p)]

\* The two statements of InsertAccount, the insertion and the question for the
\* id, do together what a caller takes for one step, whatever other processes
\* insert, delete or initialise between them; and no id is issued twice while
\* the table lives (module AccountStore; SQLConnector.cpp:119-126,
\* init_db.sql:8).
ImplementsStore == Store!Spec

\* The id InsertAccount returns is that of the row it inserted, whoever inserts
\* between the statement and the question for its id; and it never comes to
\* mean another account while the table lives (SQLConnector.cpp:119-126).
OwnRowid ==
  \A p \in Clients, a \in accounts :
    held[p].id = a.id /\ held[p].era = a.era => held[p].serial = a.serial

\* No account inherits a user who was inserted before it.  An account that is
\* deleted leaves its users behind, and who is created next does not get them:
\* ids are issued once (SQLConnector.cpp:208-222, init_db.sql:8, 20, 39).  That
\* is so as long as the account table is not created anew, and of a user whose
\* account's id had been issued when he was inserted.  One who was inserted too
\* early is listed under the account that comes to be issued the id.
UserBelongs ==
  \A name \in Names : \A u \in GetUserList(name) : \A a \in accounts :
    a.id = u.account /\ a.era = u.era /\ ~u.early => a.serial < u.serial

\* When ExecuteSqlFile returns true, and there was a file to be read, no row is
\* left from before; and if nobody else changed the tables meanwhile, all of them
\* are there (SQLConnector.cpp:23-38, init_db.sql:6-40).
RenewedIsNew ==
  \A p \in Clients \ unread :
    pc[p] = "renewed" =>
      /\ \A row \in accounts \cup users : row.serial > begun[p]
      /\ p \in alone => tables = Tables

\* A table that is missing, so that the shell's /list accounts ends the server,
\* was never created, or somebody's script is yet to create it, or a script
\* lost a statement, or it was dropped by hand (SQLConnector.cpp:196-205).
MissingIsExplained ==
  \A table \in Tables \ tables :
    \/ era = 0
    \/ broken = "yes"
    \/ \E p \in Processes :
         /\ pc[p] = "script"
         /\ \E i \in next[p] .. Len(Script) : Script[i] = [do |-> "create", table |-> table]
=============================================================================
