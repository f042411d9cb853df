-------------------------------- MODULE Commands --------------------------------
(***************************************************************************)
(* A typed line on its way to other people's terminals: read by the        *)
(* administrator's shell or sent by a player's client, split into tokens   *)
(* (Utils.cpp), dispatched on its verb (ServerState.cpp, AdminShell.cpp),  *)
(* and what it says wrapped and sent on (Server.cpp).                      *)
(*                                                                         *)
(* Positions in a line count from 1.  Behind the last character of a       *)
(* string comes one terminator, and reading further is undefined.  A token *)
(* is kept as the positions of its first and last character; the last is   *)
(* one less than the first if it is empty.  One line is followed at a      *)
(* time: all that is said here of a line is in locals of its thread.       *)
(***************************************************************************)
EXTENDS Naturals, Sequences, FiniteSets

CONSTANTS
  Clients,       \* the clients that are connected
  Admin,         \* the one who types at the server's shell
  Char,          \* the characters of a line
  MaxLine,       \* bound: the longest line typed
  Packing,       \* at most so many bytes does packing add to a text
  Envelope,      \* at most so many characters are put around a relayed text
  PayloadMax,    \* MSGPCK_MAX_PAYLOAD_SIZE
  MaxPayload     \* the longest payload sendto() takes

Space == " "
Say == <<"/", "s">>
Help == <<"/", "h">>

ASSUME CommandsAssumption ==
  /\ Admin \notin Clients
  /\ MaxLine \in Nat
  /\ Packing \in Nat
  /\ Envelope \in Nat
  /\ PayloadMax \in Nat
  /\ MaxPayload \in Nat

\* Both prompts skip empty lines.
Lines == UNION {[1 .. n -> Char] : n \in 1 .. MaxLine}

VARIABLES
  pc,        \* where the line is: "prompt" (nowhere), "sent", "split",
             \* "dispatch", "relay"; the server is gone: "thrown", "undefined"
  typist,    \* who typed it
  line,      \* the line
  start,     \* Tokenfy: where the token at hand starts
  end,       \* Tokenfy: where the next delimiter is, Len(line) + 1 for npos
  tokens,    \* Tokenfy: the tokens so far
  text,      \* where the part of the line to be relayed starts
  ended      \* the clients whose listener ended by an exception

vars == <<pc, typist, line, start, end, tokens, text, ended>>

TypeOK ==
  /\ pc \in {"prompt", "sent", "split", "dispatch", "relay", "thrown", "undefined"}
  /\ typist \in Clients \cup {Admin}
  /\ line \in Seq(Char)
  /\ start \in 1 .. Len(line) + 1
  /\ end \in 1 .. Len(line) + 1
  /\ tokens \in Seq([first : 1 .. Len(line) + 1, last : 0 .. Len(line)])
  /\ text \in 0 .. Len(line) + 1
  /\ ended \in SUBSET Clients

-----------------------------------------------------------------------------
\* (mutant of TooLarge) off by one.
TooLargeByOne(size) == size >= PayloadMax

TooLarge(size) == size > PayloadMax

\* Where find_first_of may say the next delimiter is.
FindFirstOf(l, from) ==
  {e \in from .. Len(l) + 1 :
     /\ \A i \in from .. e - 1 : l[i] # Space
     /\ e <= Len(l) => l[e] = Space}

Init ==
  /\ pc = "prompt"
  /\ typist = Admin
  /\ line = <<>>
  /\ start = 1
  /\ end = 1
  /\ tokens = <<>>
  /\ text = 0
  /\ ended = {}

\* The locals of the round are gone.
Done ==
  /\ pc' = "prompt"
  /\ typist' = Admin
  /\ line' = <<>>
  /\ start' = 1
  /\ end' = 1
  /\ tokens' = <<>>
  /\ text' = 0

\* Tokenfy is called and looks for the first delimiter.
EnterTokenfy(l) ==
  /\ pc' = "split"
  /\ start' = 1
  /\ end' \in FindFirstOf(l, 1)
  /\ tokens' = <<>>

AdminTypes ==
  /\ pc = "prompt"
  /\ typist' = Admin
  /\ \E l \in Lines : line' = l /\ EnterTokenfy(l)
  /\ UNCHANGED <<text, ended>>

PlayerTypes ==
  /\ pc = "prompt"
  /\ typist' \in Clients \ ended
  /\ \E l \in Lines : line' = l
  /\ pc' = "sent"
  /\ UNCHANGED <<start, end, tokens, text, ended>>

\* The datagram is lost, sendto() refuses it for its size, or the server does
\* not know the session.
PacketLost == pc = "sent" /\ Done /\ UNCHANGED ended

ServerReceives ==
  /\ pc = "sent"
  /\ \E packing \in 0 .. Packing : ~TooLarge(Len(line) + packing)
  /\ EnterTokenfy(line)
  /\ UNCHANGED <<typist, line, text, ended>>

\* The empty string is unpacked in place of a payload that is too large, which
\* throws, and the worker does not catch it.
WorkerThrows ==
  /\ pc = "sent"
  /\ \E packing \in 0 .. Packing : TooLarge(Len(line) + packing)
  /\ pc' = "thrown"
  /\ UNCHANGED <<typist, line, start, end, tokens, text, ended>>

\* (mutant of NextToken) an empty token is left out, and the delimiter not
\* stepped over.
NextTokenStuck ==
  /\ pc = "split"
  /\ end <= Len(line)
  /\ tokens' = IF start = end THEN tokens
                              ELSE Append(tokens, [first |-> start, last |-> end - 1])
  /\ start' = end
  /\ end' \in FindFirstOf(line, start')
  /\ UNCHANGED <<pc, typist, line, text, ended>>

\* (mutant of NextToken) runs of delimiters are taken for one.
NextTokenSkipsEmpty ==
  /\ pc = "split"
  /\ end <= Len(line)
  /\ tokens' = IF start = end THEN tokens
                              ELSE Append(tokens, [first |-> start, last |-> end - 1])
  /\ start' = end + 1
  /\ end' \in FindFirstOf(line, start')
  /\ UNCHANGED <<pc, typist, line, text, ended>>

\* A round of Tokenfy's loop.
NextToken ==
  /\ pc = "split"
  /\ end <= Len(line)
  /\ tokens' = Append(tokens, [first |-> start, last |-> end - 1])
  /\ start' = end + 1
  /\ end' \in FindFirstOf(line, start')
  /\ UNCHANGED <<pc, typist, line, text, ended>>

\* (mutant of LastToken) the last token takes in the terminator.
LastTokenTooLong ==
  /\ pc = "split"
  /\ end > Len(line)
  /\ tokens' = Append(tokens, [first |-> start, last |-> end])
  /\ pc' = "dispatch"
  /\ UNCHANGED <<typist, line, start, end, text, ended>>

\* Its last round: no delimiter was found.
LastToken ==
  /\ pc = "split"
  /\ end > Len(line)
  /\ tokens' = Append(tokens, [first |-> start, last |-> Len(line)])
  /\ pc' = "dispatch"
  /\ UNCHANGED <<typist, line, start, end, text, ended>>

-----------------------------------------------------------------------------
Verb == SubSeq(line, tokens[1].first, tokens[1].last)

Length(i) == tokens[i].last + 1 - tokens[i].first

\* A text is read from this position to the terminator.  Behind the terminator
\* there is nothing to be read.
ReadFrom(position) ==
  \/ /\ position <= Len(line) + 1
     /\ text' = position
     /\ pc' = "relay"
  \/ /\ position > Len(line) + 1
     /\ text' = text
     /\ pc' = "undefined"

\* (mutant of SayPosition) the delimiter behind the recipient is forgotten.
SayPositionOffByOne == Length(1) + 1 + Length(2) + 1

\* msgPointer, counted from 1.
SayPosition == Length(1) + 1 + Length(2) + 1 + 1

\* pCommand.substr(3) and adminCommand.c_str()+3, counted from 1.
HelpPosition == 4

\* "/s" without a recipient: tokens[1] is not there.
NoRecipient ==
  /\ pc = "dispatch"
  /\ Verb = Say
  /\ Len(tokens) < 2
  /\ pc' = "undefined"
  /\ UNCHANGED <<typist, line, start, end, tokens, text, ended>>

SayCommand ==
  /\ pc = "dispatch"
  /\ Verb = Say
  /\ Len(tokens) >= 2
  /\ ReadFrom(SayPosition)
  /\ UNCHANGED <<typist, line, start, end, tokens, ended>>

\* The shell does not look whether there is a text.
AdminHelp ==
  /\ pc = "dispatch"
  /\ Verb = Help
  /\ typist = Admin
  /\ ReadFrom(HelpPosition)
  /\ UNCHANGED <<typist, line, start, end, tokens, ended>>

\* The server does.  So a delimiter follows the verb, and substr(3) is defined.
PlayerHelp ==
  /\ pc = "dispatch"
  /\ Verb = Help
  /\ typist # Admin
  /\ Len(tokens) > 1
  /\ pc' = "relay"
  /\ text' = HelpPosition
  /\ UNCHANGED <<typist, line, start, end, tokens, ended>>

HelpWithoutText ==
  /\ pc = "dispatch"
  /\ Verb = Help
  /\ typist # Admin
  /\ Len(tokens) = 1
  /\ Done
  /\ UNCHANGED ended

\* Every other verb relays nothing.
OtherVerb ==
  /\ pc = "dispatch"
  /\ Verb \notin {Say, Help}
  /\ Done
  /\ UNCHANGED ended

\* A broadcast goes to all other clients and a message to one or to nobody;
\* the network may lose any of it.
Hearers ==
  {hearers \in SUBSET (Clients \ ended) : Verb = Say => Cardinality(hearers) <= 1}

\* The text is wrapped, packed and sent.  sendto() refuses what is too long for
\* a datagram; what is too large for a packet makes each listener that gets it
\* unpack an empty string, which throws and ends the client.
Relay ==
  /\ pc = "relay"
  /\ \E hearers \in Hearers, more \in 0 .. Packing + Envelope :
       LET size == Len(line) + 1 - text + more IN
       ended' = IF TooLarge(size) /\ size <= MaxPayload THEN ended \cup hearers ELSE ended
  /\ Done

Tokenfy == NextToken \/ LastToken

Next ==
  \/ AdminTypes \/ PlayerTypes
  \/ PacketLost \/ ServerReceives \/ WorkerThrows
  \/ Tokenfy
  \/ NoRecipient \/ SayCommand \/ AdminHelp \/ PlayerHelp \/ HelpWithoutText \/ OtherVerb
  \/ Relay

\* A thread that is in a loop goes on with it.
Spec == Init /\ [][Next]_vars /\ WF_vars(Tokenfy)

-----------------------------------------------------------------------------
(* Properties.                                                             *)

\* The tokens are the fields of the line, in their order: the first begins where
\* the line does, the last ends with it, each is followed by one delimiter and
\* contains none.  So they put together are the line, empty tokens and a
\* delimiter at the end included (Utils.cpp:27-39).
TokensAreFields ==
  pc \in {"dispatch", "relay"} =>
    /\ tokens # <<>>
    /\ tokens[1].first = 1
    /\ tokens[Len(tokens)].last = Len(line)
    /\ \A k \in 1 .. Len(tokens) :
         /\ \A i \in tokens[k].first .. tokens[k].last : line[i] # Space
         /\ k < Len(tokens) => /\ tokens[k + 1].first = tokens[k].last + 2
                               /\ line[tokens[k].last + 1] = Space

\* The tokens ahead of the text: the verb, and the recipient of "/s".
Ahead == IF Verb = Say THEN 2 ELSE 1

\* What is relayed is the rest of the line behind the verb and the recipient,
\* character for character.  A command reads where nothing is only if it has no
\* such rest: "/s" and "/s 1", and the shell's "/h" (ServerState.cpp:52-73,
\* AdminShell.cpp:86-94).
TextIsRest ==
  /\ pc = "relay" => Ahead < Len(tokens) /\ text = tokens[Ahead + 1].first
  /\ pc = "undefined" => Len(tokens) <= Ahead

\* A line that fits a packet and does not outgrow it by what is put around it.
\* Of every line that is relayed at least three characters are not.
Short == /\ Len(line) + Packing <= PayloadMax
         /\ Len(line) + Packing + Envelope <= PayloadMax + 3

\* A command that relays a text has one.  Only the player's "/h" may lack it.
Complete ==
  pc = "dispatch" =>
    \/ Verb \notin {Say, Help}
    \/ Ahead < Len(tokens)
    \/ Verb = Help /\ typist # Admin

\* Only a long line, or one that lacks its text, ends the server or another
\* client's listener: what fits on the way to the server may be too large on the
\* way back, and where the text should be the server reads what is not there
\* (Server.cpp:206-289, ServerState.cpp:52-73, AdminShell.cpp:86-94,
\* Utils.cpp:297-308).
ShortLinesHarmNobody ==
  [][Short /\ Complete => ended' = ended /\ pc' \notin {"thrown", "undefined"}]_vars

\* Tokenfy returns, although the condition of its loop is always true
\* (Utils.cpp:31, end <= npos).
SplitEnds == pc = "split" ~> pc = "dispatch"
=============================================================================
