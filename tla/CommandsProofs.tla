----------------------------- MODULE CommandsProofs -----------------------------
(***************************************************************************)
(* Proofs about Commands, for every alphabet, length of lines, size of a   *)
(* packet and number of clients.  The loop of Tokenfy keeps an invariant   *)
(* (SplitInv): the tokens so far tile the line up to where the next one    *)
(* starts.  What is relayed, and what is undefined, follow from where the  *)
(* second and the third token start.                                       *)
(***************************************************************************)
EXTENDS Commands, FiniteSetTheorems, TLAPS

\* A token t of the line l: no delimiter in it, and not longer than the line.
Undelimited(l, t) ==
  /\ t.first <= t.last + 1
  /\ \A i \in t.first .. t.last : l[i] # Space

\* Token u follows token t, with one delimiter between them.
Follows(l, t, u) ==
  /\ u.first = t.last + 2
  /\ l[t.last + 1] = Space

\* The tokens ts tile the line l from its beginning.
Tiled(l, ts) ==
  /\ ts # <<>> => ts[1].first = 1
  /\ \A k \in 1 .. Len(ts) : Undelimited(l, ts[k])
  /\ \A k \in 1 .. Len(ts) : k < Len(ts) => Follows(l, ts[k], ts[k + 1])

\* The loop of Tokenfy: behind the last token so far comes a delimiter, then the
\* next token, which ends before the next delimiter or with the line.
SplitInv ==
  pc = "split" =>
    /\ end \in FindFirstOf(line, start)
    /\ IF tokens = <<>> THEN start = 1
       ELSE Follows(line, tokens[Len(tokens)], [first |-> start, last |-> end - 1])

\* After the loop the tokens are the whole line.
SplitDone ==
  pc \in {"dispatch", "relay", "undefined"} =>
    /\ tokens # <<>>
    /\ tokens[Len(tokens)].last = Len(line)

\* The verb and what follows it are three characters at least.
TextInv == pc = "relay" => text >= 4

\* Between two lines, and while one is under way, Tokenfy has no locals.
IdleInv ==
  pc \in {"prompt", "sent"} => start = 1 /\ end = 1 /\ tokens = <<>> /\ text = 0

IInv ==
  /\ TypeOK
  /\ IdleInv
  /\ Tiled(line, tokens)
  /\ SplitInv
  /\ SplitDone
  /\ TextIsRest
  /\ TextInv

Token(l) == [first : 1 .. Len(l) + 1, last : 0 .. Len(l)]

-----------------------------------------------------------------------------
\* A line is a sequence of characters.
LEMMA LinesAreSeqs ==
  ASSUME NEW l \in Lines
  PROVE  l \in Seq(Char)
BY CommandsAssumption DEF Lines

\* A token added behind the others tiles the line further.
LEMMA AppendTiles ==
  ASSUME NEW l \in Seq(Char), NEW ts \in Seq(Token(l)), NEW t \in Token(l),
         Tiled(l, ts), Undelimited(l, t),
         IF ts = <<>> THEN t.first = 1 ELSE Follows(l, ts[Len(ts)], t)
  PROVE  /\ Append(ts, t) \in Seq(Token(l))
         /\ Append(ts, t) # <<>>
         /\ Append(ts, t)[Len(Append(ts, t))] = t
         /\ Tiled(l, Append(ts, t))
<1> DEFINE us == Append(ts, t)
<1>1. /\ us \in Seq(Token(l))
      /\ Len(us) = Len(ts) + 1
      /\ Len(ts) \in Nat
      /\ us[Len(us)] = t
      /\ \A k \in 1 .. Len(ts) : us[k] = ts[k]
  OBVIOUS
<1>2. us # <<>>
  BY <1>1
<1>3. us[1].first = 1
  <2>1. CASE ts = <<>>
    BY <1>1, <2>1
  <2>2. CASE ts # <<>>
    <3>1. 1 \in 1 .. Len(ts)
      BY <1>1, <2>2
    <3> QED
      BY <1>1, <2>2, <3>1 DEF Tiled
  <2> QED
    BY <2>1, <2>2
<1>4. \A k \in 1 .. Len(us) : Undelimited(l, us[k])
  <2> SUFFICES ASSUME NEW k \in 1 .. Len(us) PROVE Undelimited(l, us[k])
    OBVIOUS
  <2>1. k \in 1 .. Len(ts) \/ k = Len(us)
    BY <1>1
  <2> QED
    BY <1>1, <2>1 DEF Tiled
<1>5. \A k \in 1 .. Len(us) : k < Len(us) => Follows(l, us[k], us[k + 1])
  <2> SUFFICES ASSUME NEW k \in 1 .. Len(us), k < Len(us)
               PROVE  Follows(l, us[k], us[k + 1])
    OBVIOUS
  <2>1. CASE k < Len(ts)
    <3>1. k \in 1 .. Len(ts) /\ k + 1 \in 1 .. Len(ts)
      BY <1>1, <2>1
    <3>2. us[k] = ts[k] /\ us[k + 1] = ts[k + 1]
      BY <1>1, <3>1
    <3> QED
      BY <2>1, <3>1, <3>2 DEF Tiled
  <2>2. CASE k = Len(ts)
    <3>1. ts # <<>> /\ k \in 1 .. Len(ts) /\ k + 1 = Len(us)
      BY <1>1, <2>2
    <3> QED
      BY <1>1, <2>2, <3>1
  <2> QED
    BY <1>1, <2>1, <2>2
<1> QED
  BY <1>1, <1>2, <1>3, <1>4, <1>5 DEF Tiled

\* Where find_first_of stops is in the line or right behind it, and no delimiter
\* comes before.
LEMMA FoundInLine ==
  ASSUME NEW l \in Seq(Char), NEW from \in 1 .. Len(l) + 1, NEW e \in FindFirstOf(l, from)
  PROVE  /\ e \in 1 .. Len(l) + 1
         /\ from <= e
         /\ \A i \in from .. e - 1 : l[i] # Space
         /\ e <= Len(l) => l[e] = Space
BY DEF FindFirstOf

\* No tokens tile every line.
LEMMA EmptyTiles ==
  ASSUME NEW l
  PROVE  Tiled(l, <<>>)
BY DEF Tiled

\* At the prompt nothing is split.
LEMMA InitIInv == Init => IInv
<1> SUFFICES ASSUME Init PROVE IInv
  OBVIOUS
<1>1. TypeOK
  BY DEF Init, TypeOK
<1> QED
  BY <1>1, EmptyTiles DEF Init, IInv, SplitInv, SplitDone, TextIsRest, TextInv, IdleInv

\* When a round is over nothing is left of it.
LEMMA DoneIInv ==
  ASSUME IInv, Done, ended' \in SUBSET Clients
  PROVE  IInv'
<1>1. TypeOK'
  BY DEF Done, TypeOK
<1>2. Tiled(line', tokens')
  BY EmptyTiles DEF Done
<1> QED
  BY <1>1, <1>2 DEF Done, IInv, SplitInv, SplitDone, TextIsRest, TextInv, IdleInv

\* Tokenfy starts with no tokens.
LEMMA EnterIInv ==
  ASSUME IInv, NEW l \in Seq(Char), line' = l, EnterTokenfy(l),
         typist' \in Clients \cup {Admin}, text' \in 0 .. Len(l) + 1, UNCHANGED ended
  PROVE  IInv'
<1>1. Len(l) \in Nat /\ 1 \in 1 .. Len(l) + 1
  OBVIOUS
<1>2. end' \in 1 .. Len(l) + 1
  BY <1>1, FoundInLine DEF EnterTokenfy
<1>3. TypeOK'
  BY <1>1, <1>2 DEF EnterTokenfy, TypeOK, IInv
<1>4. Tiled(line', tokens')
  BY EmptyTiles DEF EnterTokenfy
<1>5. SplitInv'
  BY DEF EnterTokenfy, SplitInv
<1> QED
  BY <1>3, <1>4, <1>5 DEF EnterTokenfy, IInv, SplitDone, TextIsRest, TextInv, IdleInv

\* The types are those of TypeOK, and positions are numbers.
LEMMA Positions ==
  ASSUME IInv
  PROVE  /\ line \in Seq(Char)
         /\ Len(line) \in Nat
         /\ start \in 1 .. Len(line) + 1
         /\ end \in 1 .. Len(line) + 1
         /\ tokens \in Seq(Token(line))
         /\ Len(tokens) \in Nat
BY DEF IInv, TypeOK, Token

\* A round of Tokenfy's loop adds a field.
LEMMA NextTokenIInv ==
  ASSUME IInv, NextToken
  PROVE  IInv'
<1> DEFINE t == [first |-> start, last |-> end - 1]
<1>1. /\ end \in FindFirstOf(line, start)
      /\ IF tokens = <<>> THEN start = 1 ELSE Follows(line, tokens[Len(tokens)], t)
  BY DEF IInv, NextToken, SplitInv
<1>2. /\ start <= end
      /\ \A i \in start .. end - 1 : line[i] # Space
      /\ line[end] = Space
  BY <1>1, Positions, FoundInLine DEF NextToken
<1>3. /\ t \in Token(line)
      /\ Undelimited(line, t)
  BY <1>2, Positions DEF NextToken, Token, Undelimited
<1>4. Tiled(line, tokens)
  BY DEF IInv
<1>5. IF tokens = <<>> THEN t.first = 1 ELSE Follows(line, tokens[Len(tokens)], t)
  BY <1>1
<1>6. tokens' = Append(tokens, t)
  BY DEF NextToken
<1>7. /\ tokens' \in Seq(Token(line))
      /\ tokens' # <<>>
      /\ tokens'[Len(tokens')] = t
      /\ Tiled(line, tokens')
  BY <1>3, <1>4, <1>5, <1>6, Positions, AppendTiles
<1>8. start' = end + 1 /\ start' \in 1 .. Len(line) + 1
  BY Positions DEF NextToken
<1>9. end' \in FindFirstOf(line, start') /\ end' \in 1 .. Len(line) + 1
  BY <1>8, Positions, FoundInLine DEF NextToken
<1>10. Follows(line, t, [first |-> start', last |-> end' - 1])
  <2>1. t.last + 1 = end /\ t.last + 2 = start'
    BY <1>8, Positions
  <2> QED
    BY <1>2, <2>1 DEF Follows
<1>11. TypeOK'
  BY <1>7, <1>8, <1>9 DEF NextToken, IInv, TypeOK, Token
<1>12. SplitInv'
  BY <1>7, <1>9, <1>10 DEF NextToken, SplitInv
<1>13. Tiled(line', tokens') /\ pc' = "split"
  BY <1>7 DEF NextToken
<1> QED
  BY <1>11, <1>12, <1>13 DEF IInv, SplitDone, TextIsRest, TextInv, IdleInv

\* Its last round adds the field that ends with the line.
LEMMA LastTokenIInv ==
  ASSUME IInv, LastToken
  PROVE  IInv'
<1> DEFINE t == [first |-> start, last |-> Len(line)]
<1>1. /\ end \in FindFirstOf(line, start)
      /\ IF tokens = <<>> THEN start = 1
         ELSE Follows(line, tokens[Len(tokens)], [first |-> start, last |-> end - 1])
  BY DEF IInv, LastToken, SplitInv
<1>2. end = Len(line) + 1 /\ end - 1 = Len(line)
  BY Positions DEF LastToken
<1>3. /\ start <= end
      /\ \A i \in start .. Len(line) : line[i] # Space
  BY <1>1, <1>2, Positions, FoundInLine
<1>4. /\ t \in Token(line)
      /\ Undelimited(line, t)
  BY <1>2, <1>3, Positions DEF Token, Undelimited
<1>5. IF tokens = <<>> THEN t.first = 1 ELSE Follows(line, tokens[Len(tokens)], t)
  BY <1>1 DEF Follows
<1>6. tokens' = Append(tokens, t) /\ Tiled(line, tokens)
  BY DEF LastToken, IInv
<1>7. /\ tokens' \in Seq(Token(line))
      /\ tokens' # <<>>
      /\ tokens'[Len(tokens')] = t
      /\ Tiled(line, tokens')
  BY <1>4, <1>5, <1>6, Positions, AppendTiles
<1>8. TypeOK'
  BY <1>7 DEF LastToken, IInv, TypeOK, Token
<1>9. SplitDone'
  BY <1>7 DEF LastToken, SplitDone
<1>10. Tiled(line', tokens') /\ pc' = "dispatch"
  BY <1>7 DEF LastToken
<1> QED
  BY <1>8, <1>9, <1>10 DEF IInv, SplitInv, TextIsRest, TextInv, IdleInv

\* At the dispatch the tokens are the fields of the line (Utils.cpp:27-39).
LEMMA DispatchFields ==
  ASSUME IInv, pc = "dispatch"
  PROVE  /\ Len(tokens) >= 1
         /\ \A k \in 1 .. Len(tokens) :
              /\ tokens[k].first \in Nat /\ tokens[k].last \in Nat
              /\ tokens[k].first <= tokens[k].last + 1
              /\ tokens[k].last <= Len(line)
         /\ tokens[1].first = 1
         /\ tokens[Len(tokens)].last = Len(line)
         /\ \A k \in 1 .. Len(tokens) :
              k < Len(tokens) => tokens[k + 1].first = tokens[k].last + 2
<1>1. tokens # <<>> /\ tokens[Len(tokens)].last = Len(line)
  BY DEF IInv, SplitDone
<1>2. Len(tokens) >= 1
  BY <1>1, Positions
<1>3. \A k \in 1 .. Len(tokens) : tokens[k] \in Token(line) /\ Undelimited(line, tokens[k])
  BY Positions DEF IInv, Tiled
<1>4. \A k \in 1 .. Len(tokens) :
        /\ tokens[k].first \in Nat /\ tokens[k].last \in Nat
        /\ tokens[k].first <= tokens[k].last + 1
        /\ tokens[k].last <= Len(line)
  BY <1>3, Positions DEF Token, Undelimited
<1>5. /\ tokens[1].first = 1
      /\ \A k \in 1 .. Len(tokens) :
           k < Len(tokens) => tokens[k + 1].first = tokens[k].last + 2
  BY <1>1 DEF IInv, Tiled, Follows
<1> QED
  BY <1>1, <1>2, <1>4, <1>5

\* A verb of two characters ends at the second one.
LEMMA VerbLength ==
  ASSUME IInv, pc = "dispatch", Verb = Say \/ Verb = Help
  PROVE  tokens[1].last = 2
<1>1. /\ tokens[1].first = 1
      /\ tokens[1].last \in Nat
      /\ tokens[1].last <= Len(line)
      /\ line \in Seq(Char)
  BY DispatchFields, Positions
<1>2. Len(SubSeq(line, 1, tokens[1].last)) = tokens[1].last
  BY <1>1
<1>3. Len(Say) = 2 /\ Len(Help) = 2
  BY DEF Say, Help
<1> QED
  BY <1>1, <1>2, <1>3 DEF Verb

\* The cases of a length of two tokens or more.
LEMMA AtLeastTwo ==
  ASSUME NEW n \in Nat, n >= 2
  PROVE  n = 2 \/ n > 2
OBVIOUS

\* The two verbs that relay are not the same.
LEMMA VerbsDiffer == Say # Help
<1>1. Say[2] = "s" /\ Help[2] = "h"
  BY DEF Say, Help
<1> QED
  BY <1>1

\* msgPointer is the position behind the second token and a delimiter: where the
\* third token begins, or behind the terminator (ServerState.cpp:56,
\* AdminShell.cpp:92).
LEMMA SayPositionIsRest ==
  ASSUME IInv, pc = "dispatch", Verb = Say, Len(tokens) >= 2
  PROVE  /\ SayPosition \in Nat
         /\ SayPosition >= 4
         /\ SayPosition <= Len(line) + 1 =>
              2 < Len(tokens) /\ SayPosition = tokens[3].first
         /\ SayPosition > Len(line) + 1 => Len(tokens) <= 2
<1>1. /\ tokens[1].first = 1 /\ tokens[1].last = 2
      /\ 1 \in 1 .. Len(tokens) /\ 2 \in 1 .. Len(tokens)
      /\ Len(tokens) \in Nat /\ Len(line) \in Nat
  BY DispatchFields, VerbLength, Positions
<1>2. /\ tokens[2].first = 4
      /\ tokens[2].last \in Nat
      /\ 4 <= tokens[2].last + 1
  <2>1. 1 < Len(tokens)
    BY <1>1
  <2>2. tokens[1 + 1].first = tokens[1].last + 2
    BY <1>1, <2>1, DispatchFields
  <2> QED
    BY <1>1, <2>2, DispatchFields
<1>3. Length(1) = 2 /\ Length(2) = tokens[2].last + 1 - 4
  BY <1>1, <1>2 DEF Length
<1>4. SayPosition = tokens[2].last + 2
  BY <1>2, <1>3 DEF SayPosition
<1>5. CASE Len(tokens) = 2
  <2>1. tokens[2].last = Len(line)
    BY <1>5, DispatchFields
  <2> QED
    BY <1>1, <1>2, <1>4, <1>5, <2>1
<1>6. CASE Len(tokens) > 2
  <2>1. 3 \in 1 .. Len(tokens)
    BY <1>1, <1>6
  <2>2. tokens[2 + 1].first = tokens[2].last + 2
    BY <1>1, <1>6, DispatchFields
  <2>3. tokens[3] \in Token(line)
    BY <2>1, Positions
  <2>4. tokens[3].first \in 1 .. Len(line) + 1
    BY <2>3 DEF Token
  <2> QED
    BY <1>1, <1>2, <1>4, <1>6, <2>2, <2>4
<1>7. Len(tokens) = 2 \/ Len(tokens) > 2
  BY <1>1, AtLeastTwo
<1> QED
  BY <1>5, <1>6, <1>7

\* Three characters behind the start of a line with the verb "/h" its second
\* token begins, or the terminator is passed (ServerState.cpp:72,
\* AdminShell.cpp:87).
LEMMA HelpPositionIsRest ==
  ASSUME IInv, pc = "dispatch", Verb = Help
  PROVE  /\ HelpPosition <= Len(line) + 1 =>
              1 < Len(tokens) /\ HelpPosition = tokens[2].first
         /\ HelpPosition > Len(line) + 1 => Len(tokens) <= 1
         /\ Len(tokens) > 1 => HelpPosition <= Len(line) + 1
<1>1. /\ tokens[1].last = 2
      /\ 1 \in 1 .. Len(tokens)
      /\ Len(tokens) \in Nat /\ Len(line) \in Nat
  BY DispatchFields, VerbLength, Positions
<1>2. CASE Len(tokens) = 1
  <2>1. Len(line) = 2
    BY <1>1, <1>2, DispatchFields
  <2> QED
    BY <1>2, <2>1 DEF HelpPosition
<1>3. CASE Len(tokens) > 1
  <2>1. tokens[1 + 1].first = tokens[1].last + 2
    BY <1>1, <1>3, DispatchFields
  <2>2. 2 \in 1 .. Len(tokens)
    BY <1>1, <1>3
  <2>3. tokens[2] \in Token(line)
    BY <2>2, Positions
  <2>4. tokens[2].first \in 1 .. Len(line) + 1
    BY <2>3 DEF Token
  <2> QED
    BY <1>1, <1>3, <2>1, <2>4 DEF HelpPosition
<1>4. Len(tokens) = 1 \/ Len(tokens) > 1
  BY <1>1
<1> QED
  BY <1>2, <1>3, <1>4

-----------------------------------------------------------------------------
\* A command that is dispatched keeps the line and its tokens.
LEMMA DispatchIInv ==
  ASSUME IInv, pc = "dispatch", UNCHANGED <<typist, line, start, end, tokens, ended>>,
         pc' \in {"relay", "undefined"},
         text' \in 0 .. Len(line) + 1,
         pc' = "relay" => /\ Ahead < Len(tokens) /\ text' = tokens[Ahead + 1].first
                          /\ text' >= 4,
         pc' = "undefined" => Len(tokens) <= Ahead
  PROVE  IInv'
<1>1. TypeOK'
  BY DEF IInv, TypeOK
<1>2. Ahead' = Ahead
  BY DEF Ahead, Verb
<1> QED
  BY <1>1, <1>2 DEF IInv, SplitInv, SplitDone, TextIsRest, TextInv, IdleInv

\* Every step keeps the invariant.
LEMMA NextIInv == IInv /\ [Next]_vars => IInv'
<1> SUFFICES ASSUME IInv, [Next]_vars PROVE IInv'
  OBVIOUS
<1> USE Positions
<1>1. CASE AdminTypes
  <2>1. PICK l \in Lines : line' = l /\ EnterTokenfy(l)
    BY <1>1 DEF AdminTypes
  <2>2. l \in Seq(Char) /\ Len(l) \in Nat
    BY <2>1, LinesAreSeqs
  <2>3. text' \in 0 .. Len(l) + 1
    BY <1>1, <2>2 DEF AdminTypes, IInv, IdleInv
  <2>4. typist' \in Clients \cup {Admin} /\ UNCHANGED ended
    BY <1>1 DEF AdminTypes
  <2> QED
    BY <2>1, <2>2, <2>3, <2>4, EnterIInv
<1>2. CASE PlayerTypes
  <2>1. PICK l \in Lines : line' = l
    BY <1>2 DEF PlayerTypes
  <2>2. l \in Seq(Char) /\ Len(l) \in Nat
    BY <2>1, LinesAreSeqs
  <2>3. /\ start' = 1 /\ end' = 1 /\ tokens' = <<>> /\ text' = 0 /\ pc' = "sent"
        /\ typist' \in Clients /\ ended' = ended
    BY <1>2 DEF PlayerTypes, IInv, IdleInv
  <2>4. TypeOK'
    BY <2>1, <2>2, <2>3 DEF IInv, TypeOK
  <2> QED
    BY <2>3, <2>4, EmptyTiles DEF IInv, SplitInv, SplitDone, TextIsRest, TextInv, IdleInv
<1>3. CASE PacketLost
  <2>1. ended' \in SUBSET Clients
    BY <1>3 DEF PacketLost, IInv, TypeOK
  <2> QED
    BY <1>3, <2>1, DoneIInv DEF PacketLost
<1>4. CASE ServerReceives
  <2>1. /\ EnterTokenfy(line) /\ line' = line /\ typist' = typist
        /\ text' = text /\ ended' = ended
    BY <1>4 DEF ServerReceives
  <2>2. typist' \in Clients \cup {Admin} /\ text' \in 0 .. Len(line) + 1
    BY <2>1 DEF IInv, TypeOK
  <2> QED
    BY <2>1, <2>2, EnterIInv
<1>5. CASE WorkerThrows
  BY <1>5 DEF WorkerThrows, IInv, TypeOK, SplitInv, SplitDone, TextIsRest, TextInv, IdleInv
<1>6. CASE NextToken
  BY <1>6, NextTokenIInv
<1>7. CASE LastToken
  BY <1>7, LastTokenIInv
<1>8. CASE NoRecipient
  <2>1. Len(tokens) <= Ahead
    BY <1>8 DEF NoRecipient, Ahead
  <2>2. text' \in 0 .. Len(line) + 1
    BY <1>8 DEF NoRecipient, IInv, TypeOK
  <2> QED
    BY <1>8, <2>1, <2>2, DispatchIInv DEF NoRecipient
<1>9. CASE SayCommand
  <2>1. Ahead = 2
    BY <1>9 DEF SayCommand, Ahead
  <2>2. CASE SayPosition <= Len(line) + 1
    <3>1. pc' = "relay" /\ text' = SayPosition
      BY <1>9, <2>2, SayPositionIsRest DEF SayCommand, ReadFrom
    <3>2. /\ Ahead < Len(tokens) /\ text' = tokens[Ahead + 1].first /\ text' >= 4
          /\ text' \in 0 .. Len(line) + 1
      BY <1>9, <2>1, <2>2, <3>1, SayPositionIsRest DEF SayCommand
    <3> QED
      BY <1>9, <3>1, <3>2, DispatchIInv DEF SayCommand
  <2>3. CASE SayPosition > Len(line) + 1
    <3>1. pc' = "undefined" /\ text' = text
      BY <1>9, <2>3, SayPositionIsRest DEF SayCommand, ReadFrom
    <3>2. Len(tokens) <= Ahead /\ text' \in 0 .. Len(line) + 1
      BY <1>9, <2>1, <2>3, <3>1, SayPositionIsRest DEF SayCommand, IInv, TypeOK
    <3> QED
      BY <1>9, <3>1, <3>2, DispatchIInv DEF SayCommand
  <2> QED
    BY <1>9, <2>2, <2>3, SayPositionIsRest DEF SayCommand
<1>10. CASE AdminHelp
  <2>1. Ahead = 1
    BY <1>10, VerbsDiffer DEF AdminHelp, Ahead
  <2>2. CASE HelpPosition <= Len(line) + 1
    <3>1. pc' = "relay" /\ text' = HelpPosition
      BY <1>10, <2>2 DEF AdminHelp, ReadFrom, HelpPosition
    <3>2. /\ Ahead < Len(tokens) /\ text' = tokens[Ahead + 1].first /\ text' >= 4
          /\ text' \in 0 .. Len(line) + 1
      BY <1>10, <2>1, <2>2, <3>1, HelpPositionIsRest DEF AdminHelp, HelpPosition
    <3> QED
      BY <1>10, <3>1, <3>2, DispatchIInv DEF AdminHelp
  <2>3. CASE HelpPosition > Len(line) + 1
    <3>1. pc' = "undefined" /\ text' = text
      BY <1>10, <2>3 DEF AdminHelp, ReadFrom, HelpPosition
    <3>2. Len(tokens) <= Ahead /\ text' \in 0 .. Len(line) + 1
      BY <1>10, <2>1, <2>3, <3>1, HelpPositionIsRest DEF AdminHelp, IInv, TypeOK
    <3> QED
      BY <1>10, <3>1, <3>2, DispatchIInv DEF AdminHelp
  <2> QED
    BY <2>2, <2>3 DEF HelpPosition
<1>11. CASE PlayerHelp
  <2>1. Ahead = 1
    BY <1>11, VerbsDiffer DEF PlayerHelp, Ahead
  <2>2. /\ Ahead < Len(tokens) /\ text' = tokens[Ahead + 1].first /\ text' >= 4
        /\ text' \in 0 .. Len(line) + 1 /\ pc' = "relay"
    BY <1>11, <2>1, HelpPositionIsRest DEF PlayerHelp, HelpPosition
  <2> QED
    BY <1>11, <2>2, DispatchIInv DEF PlayerHelp
<1>12. CASE HelpWithoutText
  <2>1. ended' \in SUBSET Clients
    BY <1>12 DEF HelpWithoutText, IInv, TypeOK
  <2> QED
    BY <1>12, <2>1, DoneIInv DEF HelpWithoutText
<1>13. CASE OtherVerb
  <2>1. ended' \in SUBSET Clients
    BY <1>13 DEF OtherVerb, IInv, TypeOK
  <2> QED
    BY <1>13, <2>1, DoneIInv DEF OtherVerb
<1>14. CASE Relay
  <2>1. PICK hearers \in Hearers : ended' \in {ended, ended \cup hearers}
    BY <1>14 DEF Relay
  <2>2. ended' \in SUBSET Clients
    BY <2>1 DEF Hearers, IInv, TypeOK
  <2> QED
    BY <1>14, <2>2, DoneIInv DEF Relay
<1>15. CASE UNCHANGED vars
  <2>1. Ahead' = Ahead
    BY <1>15 DEF vars, Ahead, Verb
  <2> QED
    BY <1>15, <2>1 DEF vars, IInv, TypeOK, SplitInv, SplitDone, TextIsRest, TextInv, IdleInv
<1> QED
  BY <1>1, <1>2, <1>3, <1>4, <1>5, <1>6, <1>7, <1>8, <1>9, <1>10, <1>11, <1>12, <1>13,
     <1>14, <1>15 DEF Next, Tokenfy

\* So it holds in every reachable state.
LEMMA Inductive == Spec => []IInv
<1>1. Init => IInv
  BY InitIInv
<1>2. IInv /\ [Next]_vars => IInv'
  BY NextIInv
<1> QED
  BY <1>1, <1>2, PTL DEF Spec

-----------------------------------------------------------------------------
\* The variables keep their types; in particular no token and no text begins or
\* ends outside the line (Utils.cpp:32, substr).
THEOREM TypeCorrect == Spec => []TypeOK
<1>1. IInv => TypeOK
  BY DEF IInv
<1> QED
  BY <1>1, Inductive, PTL

\* Tokenfy cuts every line into its fields.
THEOREM SplitsIntoFields == Spec => []TokensAreFields
<1>1. IInv => TokensAreFields
  BY DEF IInv, Tiled, SplitDone, Undelimited, Follows, TokensAreFields
<1> QED
  BY <1>1, Inductive, PTL

\* What is relayed is the rest of the line; a command that has one is defined.
THEOREM RelaysRest == Spec => []TextIsRest
<1>1. IInv => TextIsRest
  BY DEF IInv
<1> QED
  BY <1>1, Inductive, PTL

\* A short line that does not lack its text ends neither the server nor a
\* listener.
THEOREM SafeLines == Spec => ShortLinesHarmNobody
<1>1. IInv /\ [Next]_vars =>
        [Short /\ Complete => ended' = ended /\ pc' \notin {"thrown", "undefined"}]_vars
  <2> SUFFICES ASSUME IInv, Next, Short, Complete
               PROVE  ended' = ended /\ pc' # "thrown" /\ pc' # "undefined"
    BY DEF vars
  <2>1. ~WorkerThrows
    <3> SUFFICES ASSUME NEW packing \in 0 .. Packing, TooLarge(Len(line) + packing)
                 PROVE  FALSE
      BY DEF WorkerThrows
    <3> QED
      BY Positions, CommandsAssumption DEF Short, TooLarge
  <2>2. CASE Relay
    <3>1. ASSUME NEW more \in 0 .. Packing + Envelope
          PROVE  ~TooLarge(Len(line) + 1 - text + more)
      <4>1. text >= 4 /\ text \in 0 .. Len(line) + 1
        BY <2>2 DEF Relay, IInv, TextInv, TypeOK
      <4> QED
        BY <4>1, Positions, CommandsAssumption DEF Short, TooLarge
    <3> QED
      BY <2>2, <3>1 DEF Relay, Done
  <2>3. ASSUME pc' = "undefined", NoRecipient \/ SayCommand \/ AdminHelp
        PROVE  FALSE
    <3>1. /\ pc = "dispatch"
          /\ UNCHANGED <<typist, line, tokens>>
          /\ Verb = Say \/ (Verb = Help /\ typist = Admin)
      BY <2>3 DEF NoRecipient, SayCommand, AdminHelp
    <3>2. Ahead' = Ahead
      BY <3>1 DEF Ahead, Verb
    <3>3. Len(tokens) <= Ahead
      BY <2>3, <3>1, <3>2, NextIInv DEF IInv, TextIsRest
    <3>4. Ahead < Len(tokens)
      BY <3>1, VerbsDiffer DEF Complete
    <3>5. Ahead \in Nat
      BY DEF Ahead
    <3> QED
      BY <3>3, <3>4, <3>5, Positions
  <2> QED
    BY <2>1, <2>2, <2>3 DEF Next, Tokenfy, AdminTypes, PlayerTypes, PacketLost, ServerReceives,
       NextToken, LastToken, NoRecipient, SayCommand, AdminHelp, PlayerHelp, ReadFrom,
       HelpWithoutText, OtherVerb, Done, EnterTokenfy
<1> QED
  BY <1>1, Inductive, PTL DEF Spec, ShortLinesHarmNobody

-----------------------------------------------------------------------------
(* How Tokenfy ends.  Each round passes one delimiter and leaves one token;*)
(* that a round is taken is the fairness of Spec, and that there is a last *)
(* one is proved here: the safety part of the liveness property SplitEnds. *)

Delimiters(l, n) == {i \in 1 .. n : l[i] = Space}

\* A line has one token more than it has delimiters.
OneTokenMore ==
  pc \in {"dispatch", "relay", "undefined"} =>
    Len(tokens) = Cardinality(Delimiters(line, Len(line))) + 1

CountInv ==
  /\ pc = "split" => Len(tokens) = Cardinality(Delimiters(line, start - 1))
  /\ OneTokenMore

LEMMA DelimitersFinite ==
  ASSUME NEW l, NEW n \in Nat
  PROVE  /\ IsFiniteSet(Delimiters(l, n))
         /\ Cardinality(Delimiters(l, n)) \in Nat
<1>1. IsFiniteSet(1 .. n)
  BY FS_Interval
<1>2. Delimiters(l, n) \in SUBSET (1 .. n)
  BY DEF Delimiters
<1> QED
  BY <1>1, <1>2, FS_Subset, FS_CardinalityType

\* Between where a round starts and the delimiter it finds there is none.
LEMMA NoneBetween ==
  ASSUME IInv, pc = "split"
  PROVE  Delimiters(line, end - 1) = Delimiters(line, start - 1)
<1>1. start <= end /\ \A i \in start .. end - 1 : line[i] # Space
  BY Positions, FoundInLine DEF IInv, SplitInv
<1>2. \A i \in 1 .. end - 1 : i \in 1 .. start - 1 \/ i \in start .. end - 1
  BY Positions
<1>3. \A i \in 1 .. start - 1 : i \in 1 .. end - 1
  BY Positions, <1>1
<1> QED
  BY <1>1, <1>2, <1>3 DEF Delimiters

LEMMA CountStep == IInv /\ CountInv /\ [Next]_vars => CountInv'
<1> SUFFICES ASSUME IInv, CountInv, [Next]_vars PROVE CountInv'
  OBVIOUS
<1>1. CASE NextToken
  <2>1. Len(tokens') = Len(tokens) + 1 /\ pc = "split" /\ end <= Len(line)
        /\ pc' = "split" /\ line' = line /\ start' = end + 1
    BY <1>1, Positions DEF NextToken
  <2>2. line[end] = Space
    BY <2>1, Positions, FoundInLine DEF IInv, SplitInv
  <2>3. end \in Nat /\ end - 1 \in Nat /\ start' - 1 = end /\ end \notin 1 .. end - 1
    BY <2>1, Positions
  <2>4. Delimiters(line, end) = Delimiters(line, end - 1) \cup {end}
    <3>1. 1 .. end = (1 .. end - 1) \cup {end}
      BY Positions
    <3> QED
      BY <2>2, <3>1 DEF Delimiters
  <2>5. end \notin Delimiters(line, end - 1)
    BY <2>3 DEF Delimiters
  <2>6. Cardinality(Delimiters(line, end)) = Cardinality(Delimiters(line, end - 1)) + 1
    <3>1. IsFiniteSet(Delimiters(line, end - 1))
      BY <2>3, DelimitersFinite
    <3> QED
      BY <2>4, <2>5, <3>1, FS_AddElement
  <2>7. Len(tokens) = Cardinality(Delimiters(line, end - 1))
    BY <2>1, NoneBetween DEF CountInv
  <2> QED
    BY <2>1, <2>3, <2>6, <2>7 DEF CountInv, OneTokenMore
<1>2. CASE LastToken
  <2>1. Len(tokens') = Len(tokens) + 1 /\ pc = "split" /\ pc' = "dispatch" /\ line' = line
    BY <1>2, Positions DEF LastToken
  <2>2. end - 1 = Len(line)
    BY <1>2, Positions DEF LastToken
  <2>3. Len(tokens) = Cardinality(Delimiters(line, Len(line)))
    BY <2>1, <2>2, NoneBetween DEF CountInv
  <2> QED
    BY <2>1, <2>3 DEF CountInv, OneTokenMore
<1>3. CASE AdminTypes \/ ServerReceives
  <2>1. pc' = "split" /\ start' = 1 /\ tokens' = <<>>
    BY <1>3 DEF AdminTypes, ServerReceives, EnterTokenfy
  <2>2. Delimiters(line', start' - 1) = {}
    BY <2>1 DEF Delimiters
  <2>3. Len(tokens') = Cardinality(Delimiters(line', start' - 1))
    BY <2>1, <2>2, FS_EmptySet
  <2> QED
    BY <2>1, <2>3 DEF CountInv, OneTokenMore
<1>4. CASE NoRecipient \/ SayCommand \/ AdminHelp \/ PlayerHelp
  <2>1. UNCHANGED <<line, tokens>> /\ pc = "dispatch" /\ pc' \in {"relay", "undefined"}
    BY <1>4 DEF NoRecipient, SayCommand, AdminHelp, PlayerHelp, ReadFrom
  <2> QED
    BY <2>1 DEF CountInv, OneTokenMore
<1>5. CASE PlayerTypes \/ PacketLost \/ WorkerThrows \/ HelpWithoutText \/ OtherVerb \/ Relay
  BY <1>5 DEF PlayerTypes, PacketLost, WorkerThrows, HelpWithoutText, OtherVerb, Relay, Done,
     CountInv, OneTokenMore
<1>6. CASE UNCHANGED vars
  BY <1>6 DEF vars, CountInv, OneTokenMore
<1> QED
  BY <1>1, <1>2, <1>3, <1>4, <1>5, <1>6 DEF Next, Tokenfy

\* A line has one token more than it has delimiters, empty tokens included: the
\* loop of Tokenfy is run once for each delimiter and once for the end
\* (Utils.cpp:27-39).
THEOREM TokensAreCounted == Spec => []OneTokenMore
<1>1. Init => CountInv
  BY DEF Init, CountInv, OneTokenMore
<1>2. CountInv => OneTokenMore
  BY DEF CountInv
<1> QED
  BY <1>1, <1>2, CountStep, Inductive, PTL DEF Spec

\* Each round of Tokenfy is the last or starts the next one further on, and never
\* further than one behind the line.
RoundsGoForward ==
  [][pc = "split" =>
       /\ line' = line
       /\ \/ pc' = "dispatch"
          \/ pc' = "split" /\ start < start' /\ start' <= Len(line) + 1]_vars

\* So it is over after as many rounds as the line has characters and one, although
\* the condition of the loop is always true (Utils.cpp:31).
THEOREM RoundsAreBounded == Spec => RoundsGoForward
<1>1. IInv /\ [Next]_vars =>
        [pc = "split" =>
           /\ line' = line
           /\ \/ pc' = "dispatch"
              \/ pc' = "split" /\ start < start' /\ start' <= Len(line) + 1]_vars
  <2> SUFFICES ASSUME IInv, Next, pc = "split"
               PROVE  /\ line' = line
                      /\ \/ pc' = "dispatch"
                         \/ pc' = "split" /\ start < start' /\ start' <= Len(line) + 1
    BY DEF vars
  <2>1. NextToken \/ LastToken
    BY DEF Next, Tokenfy, AdminTypes, PlayerTypes, PacketLost, ServerReceives, WorkerThrows,
       NoRecipient, SayCommand, AdminHelp, PlayerHelp, HelpWithoutText, OtherVerb, Relay
  <2>2. CASE NextToken
    <3>1. start <= end
      BY Positions, FoundInLine DEF IInv, SplitInv
    <3> QED
      BY <2>2, <3>1, Positions DEF NextToken
  <2>3. CASE LastToken
    BY <2>3 DEF LastToken
  <2> QED
    BY <2>1, <2>2, <2>3
<1> QED
  BY <1>1, Inductive, PTL DEF Spec, RoundsGoForward
=============================================================================
