----------------------------- MODULE NetHandler -----------------------------
(***************************************************************************)
(* Text from the network: setUpKeymaps() reads the charmap, a line at a    *)
(* time, and NetHandler::actOnData() turns the text of a connection, which *)
(* comes in pieces cut anywhere, into outputs.                             *)
(*                                                                         *)
(* One client is served at a time.  What is left of its text stays in      *)
(* buffer, which belongs to the handler and not to the connection.  An     *)
(* output is named, not sent (that is OutEvent's SendClick).               *)
(***************************************************************************)
EXTENDS Integers, Sequences, FiniteSetsExt

CONSTANTS
    Chars,      \* what text is made of
    Outputs,    \* right sides of charmap lines
    Unmapped,   \* the OutEvent that charmap[] makes up for other characters
    Charmaps,   \* charmap files: sequences of [left, right, width]
    Pieces,     \* texts that one read() of the socket can return
    MaxText     \* bound: characters one handler receives

\* A line maps left to right; width is right.length(), the characters of the
\* output's description.
Line == [left : Seq(Chars) \ {<<>>}, right : Outputs, width : Nat]

ASSUME CharmapsAreFiles ==
    /\ Charmaps \subseteq Seq(Line)
    /\ Pieces \subseteq Seq(Chars)
    /\ Unmapped \notin Outputs
    /\ MaxText \in Nat

VARIABLES
    toRead,                  \* the lines setUpKeymaps() has not read yet
    charmap, specialmap,     \* the globals of keydefs.cpp: sets of lines
    max_sequence_length,
    sequence_starting_chars,
    connected,               \* run() has a client
    text,                    \* what actOnData() still has to look at
    buffer,                  \* NetHandler::buffer
    received,                \* everything this handler was sent
    typed,                   \* every output it sent, in order
    taken                    \* history: the triggers of these outputs, joined

mapVars == <<charmap, specialmap, max_sequence_length, sequence_starting_chars>>
textVars == <<text, buffer, received, typed, taken>>
vars == <<toRead, connected, mapVars, textVars>>

TypeOK ==
    /\ toRead \in Seq(Line) /\ connected \in BOOLEAN
    /\ charmap \in SUBSET Line /\ specialmap \in SUBSET Line
    /\ max_sequence_length \in Nat
    /\ sequence_starting_chars \in SUBSET Chars
    /\ text \in Seq(Chars) /\ buffer \in Seq(Chars) /\ received \in Seq(Chars)
    /\ typed \in Seq(Outputs \cup {Unmapped}) /\ taken \in Seq(Chars)

\* setUpKeymaps() reads the charmap, or gives up before it comes to it.
Init ==
    /\ \/ toRead \in Charmaps /\ max_sequence_length = 1
       \/ toRead = <<>> /\ max_sequence_length = 0
    /\ charmap = {} /\ specialmap = {}
    /\ sequence_starting_chars = {}
    /\ connected = FALSE
    /\ text = <<>> /\ buffer = <<>> /\ received = <<>> /\ typed = <<>> /\ taken = <<>>

-----------------------------------------------------------------------------
(* setUpKeymaps(), the charmap.                                            *)

\* A later line for the same trigger replaces the earlier one.
Put(map, line) == {l \in map : l.left # line.left} \cup {line}

ReadCharLine ==
    /\ toRead # <<>> /\ Len(Head(toRead).left) = 1
    /\ charmap' = Put(charmap, Head(toRead))
    /\ toRead' = Tail(toRead)
    /\ UNCHANGED <<specialmap, max_sequence_length, sequence_starting_chars, connected, textVars>>

\* Slip: the last character of a sequence is taken for its first.
ReadSequenceLineBackwards ==
    /\ toRead # <<>> /\ Len(Head(toRead).left) > 1
    /\ LET line == Head(toRead)
       IN  /\ specialmap' = Put(specialmap, line)
           /\ max_sequence_length' = IF line.width > max_sequence_length
                                     THEN Len(line.left) ELSE max_sequence_length
           /\ sequence_starting_chars' = sequence_starting_chars \cup {line.left[Len(line.left)]}
    /\ toRead' = Tail(toRead)
    /\ UNCHANGED <<charmap, connected, textVars>>

\* The length is taken from the left side when the right side is longer
\* than the length so far.
ReadSequenceLine ==
    /\ toRead # <<>> /\ Len(Head(toRead).left) > 1
    /\ LET line == Head(toRead)
       IN  /\ specialmap' = Put(specialmap, line)
           /\ max_sequence_length' = IF line.width > max_sequence_length
                                     THEN Len(line.left) ELSE max_sequence_length
           /\ sequence_starting_chars' = sequence_starting_chars \cup {line.left[1]}
    /\ toRead' = Tail(toRead)
    /\ UNCHANGED <<charmap, connected, textVars>>

-----------------------------------------------------------------------------
(* NetHandler::actOnData(); one step is one turn of its loop.              *)

Serving == toRead = <<>>

\* run(): nextPendingConnection(); others wait until this one is gone.
Connect ==
    /\ Serving /\ ~connected
    /\ connected' = TRUE
    /\ UNCHANGED <<toRead, mapVars, textVars>>

\* All it sent was read; what was kept stays.
Disconnect ==
    /\ connected /\ text = <<>>
    /\ connected' = FALSE
    /\ UNCHANGED <<toRead, mapVars, textVars>>

\* Slip: what was kept is forgotten.
ReceiveForgetful(piece) ==
    /\ connected /\ text = <<>>
    /\ Len(received) + Len(piece) <= MaxText
    /\ text' = piece
    /\ buffer' = <<>>
    /\ received' = received \o piece
    /\ UNCHANGED <<toRead, connected, mapVars, typed, taken>>

\* A call begins: what was kept comes before what was read.
Receive(piece) ==
    /\ connected /\ text = <<>>
    /\ Len(received) + Len(piece) <= MaxText
    /\ text' = buffer \o piece
    /\ buffer' = <<>>
    /\ received' = received \o piece
    /\ UNCHANGED <<toRead, connected, mapVars, typed, taken>>

Starting == text # <<>> /\ Head(text) \in sequence_starting_chars

\* Slip: the character itself instead of its output.
TypeCharItself ==
    /\ typed' = Append(typed, Head(text))
    /\ taken' = Append(taken, Head(text))
    /\ text' = Tail(text)
    /\ UNCHANGED <<toRead, connected, mapVars, buffer, received>>

\* charmap[c].send() for the first character.
TypeChar ==
    /\ typed' = Append(typed, IF \E l \in charmap : l.left = <<Head(text)>>
                              THEN (CHOOSE l \in charmap : l.left = <<Head(text)>>).right
                              ELSE Unmapped)
    /\ taken' = Append(taken, Head(text))
    /\ text' = Tail(text)
    /\ UNCHANGED <<toRead, connected, mapVars, buffer, received>>

PlainChar == text # <<>> /\ ~Starting /\ TypeChar

\* Slips in KeepRest: one character too many, or no return.
KeepRestEager ==
    /\ Starting
    /\ Len(text) <= max_sequence_length
    /\ buffer' = text
    /\ text' = <<>>
    /\ UNCHANGED <<toRead, connected, mapVars, received, typed, taken>>

KeepRestLooping ==
    /\ Starting
    /\ Len(text) < max_sequence_length
    /\ buffer' = text
    /\ UNCHANGED <<text, toRead, connected, mapVars, received, typed, taken>>

\* Possibly a sequence, possibly incomplete: all the rest is kept.
KeepRest ==
    /\ Starting
    /\ Len(text) < max_sequence_length
    /\ buffer' = text
    /\ text' = <<>>
    /\ UNCHANGED <<toRead, connected, mapVars, received, typed, taken>>

\* The lines whose sequence the text begins with.
Candidates == {l \in specialmap : /\ Len(l.left) \in 2..max_sequence_length
                                  /\ Len(l.left) <= Len(text)
                                  /\ SubSeq(text, 1, Len(l.left)) = l.left}

IsShortest(line) == \A l \in Candidates : Len(line.left) <= Len(l.left)

\* Slip: the loop's own step over the first character is forgotten.
TypeSequenceFar ==
    /\ Starting
    /\ Len(text) >= max_sequence_length
    /\ \E line \in Candidates :
        /\ IsShortest(line)
        /\ typed' = Append(typed, line.right)
        /\ taken' = taken \o line.left
        /\ text' = SubSeq(text, Len(line.left) + 2, Len(text))
    /\ UNCHANGED <<toRead, connected, mapVars, buffer, received>>

TypeSequence ==
    /\ Starting
    /\ Len(text) >= max_sequence_length
    /\ \E line \in Candidates :
        /\ IsShortest(line)
        /\ typed' = Append(typed, line.right)
        /\ taken' = taken \o line.left
        /\ text' = SubSeq(text, Len(line.left) + 1, Len(text))
    /\ UNCHANGED <<toRead, connected, mapVars, buffer, received>>

\* No sequence after all.
StartingChar ==
    /\ Starting
    /\ Len(text) >= max_sequence_length
    /\ Candidates = {}
    /\ TypeChar

-----------------------------------------------------------------------------
\* reReadConfig(): the thread has ended between two calls; setUpKeymaps()
\* clears the maps and starts on the file, and there is a new NetHandler.
Restart ==
    /\ Serving /\ text = <<>>
    /\ charmap' = {} /\ specialmap' = {}
    /\ connected' = FALSE
    /\ buffer' = <<>> /\ received' = <<>> /\ typed' = <<>> /\ taken' = <<>>
    /\ UNCHANGED <<sequence_starting_chars, text>>

Reread(file) ==
    /\ Restart
    /\ toRead' = file
    /\ max_sequence_length' = 1

\* The keymap or the axismap cannot be read: setUpKeymaps() returns.
RereadFails ==
    /\ Restart
    /\ UNCHANGED <<toRead, max_sequence_length>>

ReadLine == ReadCharLine \/ ReadSequenceLine
ActOnData == PlainChar \/ KeepRest \/ TypeSequence \/ StartingChar

Next ==
    \/ ReadLine
    \/ ActOnData
    \/ Connect \/ Disconnect
    \/ \E piece \in Pieces : Receive(piece)
    \/ \E file \in Charmaps : Reread(file)
    \/ RereadFails

Fairness == WF_vars(ReadLine) /\ WF_vars(ActOnData)

Spec == Init /\ [][Next]_vars
FairSpec == Spec /\ Fairness

-----------------------------------------------------------------------------
(* Properties.                                                             *)

\* What the charmap says, all of it.
Dictionary == [plain |-> charmap, sequences |-> specialmap,
               longest |-> max_sequence_length, starts |-> sequence_starting_chars]

\* The sequences that lie in a text at i, and the shortest of some.
SequencesAt(d, s, i) == {l \in d.sequences : /\ Len(l.left) <= d.longest
                                             /\ i + Len(l.left) - 1 <= Len(s)
                                             /\ SubSeq(s, i, i + Len(l.left) - 1) = l.left}
Shortest(lines) == CHOOSE l \in lines : \A m \in lines : Len(l.left) <= Len(m.left)

PlainFor(d, c) == LET lines == {l \in d.plain : l.left = <<c>>}
                  IN  IF lines = {} THEN Unmapped ELSE (CHOOSE l \in lines : TRUE).right

\* What a text means from i on, if after tells what it means further on: the
\* outputs, and how many characters at the end still wait for more.
Followed(output, rest) == [out |-> <<output>> \o rest.out, wait |-> rest.wait]

MeaningAt(d, s, i, after) ==
    IF i > Len(s) THEN [out |-> <<>>, wait |-> 0]
    ELSE IF s[i] \in d.starts /\ Len(s) - i + 1 < d.longest
    THEN [out |-> <<>>, wait |-> Len(s) - i + 1]
    ELSE IF SequencesAt(d, s, i) # {}
    THEN LET line == Shortest(SequencesAt(d, s, i))
         IN  Followed(line.right, after[i + Len(line.left)])
    ELSE Followed(PlainFor(d, s[i]), after[i + 1])

\* What a whole text means, read from its first character to its last.
Meanings(d, s) ==
    LET from[i \in 1..(Len(s) + 1)] == MeaningAt(d, s, i, from)
    IN  from
Meaning(s) == Meanings(Dictionary, s)[1]

\* Where the network cuts the text, and where one client ends and the next
\* begins, does not matter: at the end of every call the outputs are those of
\* the whole text so far, and what waits is its end (NET in the README,
\* "Possibly unfinished input will be buffered").
ChunksDoNotMatter ==
    Serving /\ text = <<>> =>
        /\ typed = Meaning(received).out
        /\ buffer = SubSeq(received, Len(received) - Meaning(received).wait + 1, Len(received))

\* No character is lost, repeated or moved, in the middle of a call or
\* between two: all are in an output's trigger, kept, or still looked at.
NothingLost == taken \o buffer \o text = received

\* What waits, and is put before the text of the next client, is shorter than
\* the longest sequence and may begin one, so the next characters are sure to
\* set it free.
BufferIsShort ==
    Serving => \/ buffer = <<>>
               \/ /\ Len(buffer) < max_sequence_length
                  /\ buffer[1] \in sequence_starting_chars

\* No sequence of the charmap is overlooked because its first character is
\* taken for a plain one.
StartsAreKnown == \A l \in specialmap : l.left[1] \in sequence_starting_chars

\* A call of actOnData() comes to its end, whatever the charmap says.
CallsEnd == text # <<>> ~> text = <<>>

\* "length of the longest multicharacter input sequence in charmap", the
\* comment of max_sequence_length in keydefs.h.
MaxIsLongest ==
    Serving /\ specialmap # {} => max_sequence_length = Max({Len(l.left) : l \in specialmap})
=============================================================================
