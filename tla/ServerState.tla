------------------------------ MODULE ServerState ------------------------------
(***************************************************************************)
(* The server's session table (src/ServerState.cpp): the state its methods *)
(* keep and what each method does to it.  The methods take no lock: their  *)
(* callers, the handlers of module Server, hold serverStateMutex.          *)
(*                                                                         *)
(* sessionAccounts is kept as the set of its keys: the only writer,        *)
(* GetSessionAccountName, inserts empty names.  The vector users is never  *)
(* filled and is left out.  curSession is an int that the code lets grow   *)
(* without limit; MaxSessions bounds it here.                              *)
(***************************************************************************)
EXTENDS Naturals

CONSTANT MaxSessions    \* bound on the session ids that are issued

ASSUME SessionsAssumption == MaxSessions \in Nat

VARIABLES
  curSession,       \* the next id to issue
  sessions,         \* the ids of the open sessions
  activeSessions,   \* the open sessions that selected a character
  sessionAccounts   \* the sessions with an entry in the account table

stateVars == <<curSession, sessions, activeSessions, sessionAccounts>>

Ids == 1 .. MaxSessions

StateTypeOK ==
  /\ curSession \in 1 .. MaxSessions + 1
  /\ sessions \subseteq Ids
  /\ activeSessions \subseteq Ids
  /\ sessionAccounts \subseteq Ids

\* (mutant of StateInit) the constructor counts from zero.
StateInitZero ==
  /\ curSession = 0
  /\ sessions = {}
  /\ activeSessions = {}
  /\ sessionAccounts = {}

StateInit ==
  /\ curSession = 1
  /\ sessions = {}
  /\ activeSessions = {}
  /\ sessionAccounts = {}

VerifySession(s) == s \in sessions

\* What GenerateSession returns: the id itself when it is already open.
GeneratedId(s) == IF VerifySession(s) THEN s ELSE curSession

\* (mutant of GenerateSession) the id is inserted after the increment.
GenerateSessionLate(s) ==
  \/ VerifySession(s) /\ UNCHANGED stateVars
  \/ /\ ~VerifySession(s)
     /\ curSession < MaxSessions
     /\ sessions' = sessions \cup {curSession + 1}
     /\ curSession' = curSession + 1
     /\ UNCHANGED <<activeSessions, sessionAccounts>>

\* (mutant of GenerateSession) the counter is not incremented.
GenerateSessionAgain(s) ==
  \/ VerifySession(s) /\ UNCHANGED stateVars
  \/ /\ ~VerifySession(s)
     /\ curSession <= MaxSessions
     /\ sessions' = sessions \cup {curSession}
     /\ UNCHANGED <<curSession, activeSessions, sessionAccounts>>

GenerateSession(s) ==
  \/ VerifySession(s) /\ UNCHANGED stateVars
  \/ /\ ~VerifySession(s)
     /\ curSession <= MaxSessions
     /\ sessions' = sessions \cup {curSession}
     /\ curSession' = curSession + 1
     /\ UNCHANGED <<activeSessions, sessionAccounts>>

\* (mutant of DisconnectSession) the newest id is given out again.
DisconnectSessionReuse(s) ==
  /\ activeSessions' = activeSessions \ {s}
  /\ sessions' = sessions \ {s}
  /\ curSession' = IF s = curSession - 1 THEN s ELSE curSession
  /\ UNCHANGED sessionAccounts

\* (mutant of DisconnectSession) the selected character stays behind.
DisconnectSessionHalf(s) ==
  /\ sessions' = sessions \ {s}
  /\ UNCHANGED <<curSession, activeSessions, sessionAccounts>>

DisconnectSession(s) ==
  /\ activeSessions' = activeSessions \ {s}
  /\ sessions' = sessions \ {s}
  /\ UNCHANGED <<curSession, sessionAccounts>>

SelectPlayer(s) ==
  /\ activeSessions' = IF s \in sessions THEN activeSessions \cup {s}
                       ELSE activeSessions
  /\ UNCHANGED <<curSession, sessions, sessionAccounts>>

\* map::operator[] inserts an empty name when there is none.
GetSessionAccountName(s) ==
  /\ sessionAccounts' = sessionAccounts \cup {s}
  /\ UNCHANGED <<curSession, sessions, activeSessions>>

-----------------------------------------------------------------------------
\* The life of each id as the session table shows it, and what is promised of it
\* (module SessionLifecycle).
SessionStatus ==
  [s \in Ids |-> IF s \in activeSessions THEN "selected"
                 ELSE IF s \in sessions THEN "open"
                 ELSE IF s < curSession THEN "closed" ELSE "unissued"]

Lifecycle == INSTANCE SessionLifecycle WITH status <- SessionStatus
=============================================================================
