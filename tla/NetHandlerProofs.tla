-------------------------- MODULE NetHandlerProofs --------------------------
(***************************************************************************)
(* Proofs about NetHandler for any characters, charmaps and texts: nothing *)
(* is lost on the way, little is kept between two calls, and the outputs   *)
(* are what the whole text means, wherever it was cut (ChunksThm).         *)
(***************************************************************************)
EXTENDS NetHandler, LeastNumber, SequenceTheorems, TLAPS

\* The text is looked at by one call at a time, which begins with all that
\* was kept; and while the charmap is read there is no handler at work.
CallsAlternate ==
    /\ text # <<>> => buffer = <<>> /\ Serving
    /\ ~Serving => buffer = <<>> /\ received = <<>> /\ taken = <<>>
    /\ connected => Serving

\* The inductive invariant.
IInv == TypeOK /\ CallsAlternate /\ StartsAreKnown /\ BufferIsShort /\ NothingLost

-----------------------------------------------------------------------------
\* What a line is, for the steps below.
LEMMA LineFacts ==
    ASSUME NEW l \in Line
    PROVE  /\ l.left \in Seq(Chars) /\ l.left # <<>>
           /\ Len(l.left) \in Nat /\ l.left[1] \in Chars
           /\ l.right \in Outputs /\ l.width \in Nat
<1>1. l.left \in Seq(Chars) /\ l.left # <<>> /\ l.right \in Outputs /\ l.width \in Nat
    BY DEF Line
<1>2. Len(l.left) \in Nat \ {0}
    BY <1>1, EmptySeq
<1> QED
    BY <1>1, <1>2, ElementOfSeq

\* Texts can be joined in any order.
LEMMA TextsJoin ==
    ASSUME NEW s \in Seq(Chars), NEW t \in Seq(Chars), NEW u \in Seq(Chars)
    PROVE  (s \o t) \o u = s \o (t \o u)
<1> QED
    BY ConcatAssociative

\* The type invariant holds at the start.
LEMMA TypeInit == Init => TypeOK
<1> SUFFICES ASSUME Init PROVE TypeOK
    OBVIOUS
<1>1. toRead \in Seq(Line) /\ max_sequence_length \in Nat
    <2>1. CASE toRead \in Charmaps /\ max_sequence_length = 1
        BY <2>1, CharmapsAreFiles
    <2>2. CASE toRead = <<>> /\ max_sequence_length = 0
        BY <2>2, EmptySeq
    <2> QED
        BY <2>1, <2>2 DEF Init
<1>2. /\ text \in Seq(Chars) /\ buffer \in Seq(Chars) /\ received \in Seq(Chars)
      /\ typed \in Seq(Outputs \cup {Unmapped}) /\ taken \in Seq(Chars)
    BY EmptySeq DEF Init
<1>3. connected \in BOOLEAN
    BY Zenon DEF Init
<1>4. /\ charmap \in SUBSET Line /\ specialmap \in SUBSET Line
      /\ sequence_starting_chars \in SUBSET Chars
    BY DEF Init
<1> QED
    BY <1>1, <1>2, <1>3, <1>4 DEF TypeOK

\* The output of one character, whether the charmap has it or not.
LEMMA TypeCharTypes ==
    ASSUME TypeOK, text # <<>>, TypeChar
    PROVE  /\ typed' \in Seq(Outputs \cup {Unmapped})
           /\ taken' \in Seq(Chars) /\ text' \in Seq(Chars)
<1>1. Head(text) \in Chars /\ Tail(text) \in Seq(Chars)
    BY HeadTailProperties DEF TypeOK
<1> DEFINE out == IF \E l \in charmap : l.left = <<Head(text)>>
                  THEN (CHOOSE l \in charmap : l.left = <<Head(text)>>).right
                  ELSE Unmapped
<1>2. out \in Outputs \cup {Unmapped}
    <2>1. CASE \E l \in charmap : l.left = <<Head(text)>>
        <3>1. (CHOOSE l \in charmap : l.left = <<Head(text)>>) \in charmap
            BY <2>1
        <3>2. (CHOOSE l \in charmap : l.left = <<Head(text)>>) \in Line
            BY <3>1 DEF TypeOK
        <3> QED
            BY <3>2, <2>1, LineFacts
    <2>2. CASE ~ \E l \in charmap : l.left = <<Head(text)>>
        BY <2>2
    <2> QED
        BY <2>1, <2>2
<1>3. typed' = Append(typed, out)
    BY DEF TypeChar
<1> HIDE DEF out
<1>4. typed' \in Seq(Outputs \cup {Unmapped})
    BY <1>2, <1>3, AppendProperties DEF TypeOK
<1>5. taken' \in Seq(Chars)
    BY <1>1, AppendProperties DEF TypeChar, TypeOK
<1> QED
    BY <1>1, <1>4, <1>5 DEF TypeChar

\* The line a sequence is typed for, and how it lies in the text.
LEMMA CandidateFacts ==
    ASSUME TypeOK, NEW line \in Candidates
    PROVE  /\ line \in Line /\ line.left \in Seq(Chars) /\ line.right \in Outputs
           /\ Len(line.left) \in 1..Len(text)
           /\ SubSeq(text, 1, Len(line.left)) = line.left
           /\ SubSeq(text, Len(line.left) + 1, Len(text)) \in Seq(Chars)
           /\ line.left \o SubSeq(text, Len(line.left) + 1, Len(text)) = text
<1>1. line \in Line /\ Len(line.left) <= Len(text) /\ SubSeq(text, 1, Len(line.left)) = line.left
    BY DEF Candidates, TypeOK
<1>2. line.left \in Seq(Chars) /\ line.left # <<>> /\ line.right \in Outputs
    BY <1>1, LineFacts
<1>3. Len(line.left) \in Nat \ {0} /\ text \in Seq(Chars) /\ Len(text) \in Nat
    BY <1>2, EmptySeq, LenProperties DEF TypeOK
<1>4. Len(line.left) \in 1..Len(text)
    BY <1>1, <1>3
<1> DEFINE n == Len(line.left)
<1>5. n \in 1..Len(text)
    BY <1>4
<1> HIDE DEF n
<1>6. SubSeq(text, n + 1, Len(text)) \in Seq(Chars)
    <2>1. \A i \in (n + 1)..Len(text) : text[i] \in Chars
        BY <1>3, <1>5, ElementOfSeq
    <2> QED
        BY <1>3, <1>5, <2>1, SubSeqProperties
<1>7. SubSeq(text, 1, n) \o SubSeq(text, n + 1, Len(text)) = SubSeq(text, 1, Len(text))
    BY <1>3, <1>5, ConcatAdjacentSubSeq
<1>8. SubSeq(text, 1, Len(text)) = text
    BY <1>3, SubSeqFull
<1> QED
    BY <1>1, <1>2, <1>4, <1>6, <1>7, <1>8 DEF n

\* Every step keeps the types.
LEMMA TypeStep == TypeOK /\ [Next]_vars => TypeOK'
<1> SUFFICES ASSUME TypeOK, [Next]_vars PROVE TypeOK'
    OBVIOUS
<1>1. CASE UNCHANGED vars
    BY <1>1 DEF vars, mapVars, textVars, TypeOK
<1>2. CASE ReadLine
    <2>1. toRead # <<>>
        BY <1>2 DEF ReadLine, ReadCharLine, ReadSequenceLine
    <2>2. Head(toRead) \in Line /\ toRead' \in Seq(Line)
        BY <1>2, <2>1, HeadTailProperties DEF ReadLine, ReadCharLine, ReadSequenceLine, TypeOK
    <2>3. charmap' \in SUBSET Line /\ specialmap' \in SUBSET Line
        BY <1>2, <2>2 DEF ReadLine, ReadCharLine, ReadSequenceLine, Put, TypeOK
    <2>4. max_sequence_length' \in Nat /\ sequence_starting_chars' \in SUBSET Chars
        BY <1>2, <2>2, LineFacts DEF ReadLine, ReadCharLine, ReadSequenceLine, TypeOK
    <2> QED
        BY <1>2, <2>2, <2>3, <2>4 DEF ReadLine, ReadCharLine, ReadSequenceLine, textVars, TypeOK
<1>3. CASE PlainChar
    BY <1>3, TypeCharTypes DEF PlainChar, TypeChar, mapVars, TypeOK
<1>4. CASE KeepRest
    BY <1>4, EmptySeq DEF KeepRest, mapVars, TypeOK
<1>5. CASE TypeSequence
    <2>1. PICK line \in Candidates :
             /\ typed' = Append(typed, line.right)
             /\ taken' = taken \o line.left
             /\ text' = SubSeq(text, Len(line.left) + 1, Len(text))
        BY <1>5 DEF TypeSequence
    <2>2. typed' \in Seq(Outputs \cup {Unmapped})
        BY <2>1, CandidateFacts, AppendProperties DEF TypeOK
    <2>3. taken' \in Seq(Chars)
        BY <2>1, CandidateFacts, ConcatProperties DEF TypeOK
    <2>4. text' \in Seq(Chars)
        BY <2>1, CandidateFacts
    <2> QED
        BY <1>5, <2>2, <2>3, <2>4 DEF TypeSequence, mapVars, TypeOK
<1>6. CASE StartingChar
    BY <1>6, TypeCharTypes DEF StartingChar, Starting, TypeChar, mapVars, TypeOK
<1>7. ASSUME NEW piece \in Pieces, Receive(piece) PROVE TypeOK'
    <2>1. piece \in Seq(Chars)
        BY CharmapsAreFiles
    <2>2. text' \in Seq(Chars) /\ received' \in Seq(Chars) /\ buffer' \in Seq(Chars)
        BY <1>7, <2>1, ConcatProperties, EmptySeq DEF Receive, TypeOK
    <2> QED
        BY <1>7, <2>2 DEF Receive, mapVars, TypeOK
<1>8. ASSUME NEW file \in Charmaps, Reread(file) PROVE TypeOK'
    <2>1. file \in Seq(Line)
        BY CharmapsAreFiles
    <2> QED
        BY <1>8, <2>1, EmptySeq DEF Reread, Restart, TypeOK
<1>9. CASE Connect \/ Disconnect
    BY <1>9 DEF Connect, Disconnect, mapVars, textVars, TypeOK
<1>10. CASE RereadFails
    BY <1>10, EmptySeq DEF RereadFails, Restart, TypeOK
<1> QED
    BY <1>1, <1>2, <1>3, <1>4, <1>5, <1>6, <1>7, <1>8, <1>9, <1>10 DEF Next, ActOnData

-----------------------------------------------------------------------------
\* The inductive invariant holds at the start.
LEMMA IInvInit == Init => IInv
<1> SUFFICES ASSUME Init PROVE IInv
    OBVIOUS
<1>1. NothingLost
    BY ConcatEmptySeq, EmptySeq DEF Init, NothingLost
<1> QED
    BY <1>1, TypeInit DEF Init, IInv, CallsAlternate, StartsAreKnown, BufferIsShort

\* One character typed: it moves from the text to what is taken.
LEMMA TypeCharMoves ==
    ASSUME TypeOK, text # <<>>, TypeChar
    PROVE  taken' \o text' = taken \o text
<1>1. Head(text) \in Chars /\ Tail(text) \in Seq(Chars) /\ text \in Seq(Chars)
      /\ taken \in Seq(Chars)
    BY HeadTailProperties DEF TypeOK
<1>2. <<Head(text)>> \in Seq(Chars)
    BY <1>1
<1>3. text = <<Head(text)>> \o Tail(text)
    BY <1>1
<1>4. taken' = taken \o <<Head(text)>>
    BY <1>1, AppendIsConcat DEF TypeChar
<1>5. (taken \o <<Head(text)>>) \o Tail(text) = taken \o (<<Head(text)>> \o Tail(text))
    BY <1>1, <1>2, TextsJoin
<1> QED
    BY <1>3, <1>4, <1>5 DEF TypeChar

\* A call that has something to look at keeps nothing, and the account of
\* all characters is that of taken and text alone.
LEMMA AccountInCall ==
    ASSUME IInv, text # <<>>
    PROVE  /\ buffer = <<>> /\ Serving
           /\ taken \o text = received
<1>1. buffer = <<>> /\ Serving
    BY DEF IInv, CallsAlternate
<1>2. taken \in Seq(Chars)
    BY DEF IInv, TypeOK
<1>3. taken \o buffer = taken
    BY <1>1, <1>2, ConcatEmptySeq
<1> QED
    BY <1>1, <1>3 DEF IInv, NothingLost

\* A step that types something and moves it from text to taken keeps all
\* but the types.
LEMMA TypingStep ==
    ASSUME IInv, TypeOK', text # <<>>, taken' \o text' = taken \o text,
           UNCHANGED <<toRead, connected, mapVars, buffer, received>>
    PROVE  IInv'
<1>1. buffer = <<>> /\ Serving /\ taken \o text = received
    BY AccountInCall
<1>2. taken' \in Seq(Chars) /\ buffer' = <<>>
    BY <1>1 DEF TypeOK
<1>3. taken' \o buffer' = taken'
    BY <1>2, ConcatEmptySeq
<1>4. NothingLost'
    BY <1>1, <1>3 DEF NothingLost
<1> QED
    BY <1>1, <1>4 DEF IInv, CallsAlternate, StartsAreKnown, BufferIsShort, Serving, mapVars

\* Every step keeps the inductive invariant: one case for each action.
LEMMA IInvStep == IInv /\ [Next]_vars => IInv'
<1> SUFFICES ASSUME IInv, [Next]_vars PROVE IInv'
    OBVIOUS
<1>0. TypeOK /\ TypeOK'
    BY TypeStep DEF IInv
<1>1. CASE UNCHANGED vars
    BY <1>0, <1>1 DEF vars, mapVars, textVars, IInv, CallsAlternate, StartsAreKnown,
                      BufferIsShort, NothingLost, Serving
<1>2. CASE ReadLine
    <2>1. toRead # <<>>
        BY <1>2 DEF ReadLine, ReadCharLine, ReadSequenceLine
    <2>2. /\ text = <<>> /\ buffer = <<>> /\ received = <<>> /\ taken = <<>>
          /\ text' = <<>> /\ buffer' = <<>> /\ received' = <<>> /\ taken' = <<>>
        BY <1>2, <2>1 DEF ReadLine, ReadCharLine, ReadSequenceLine, textVars, IInv,
                          CallsAlternate, Serving
    <2>3. Head(toRead) \in Line
        BY <1>0, <2>1, HeadTailProperties DEF TypeOK
    <2>4. ~connected'
        BY <1>2, <2>1 DEF ReadLine, ReadCharLine, ReadSequenceLine, IInv, CallsAlternate, Serving
    <2>5. StartsAreKnown'
        BY <1>2 DEF ReadLine, ReadCharLine, ReadSequenceLine, Put, IInv, StartsAreKnown
    <2>6. NothingLost'
        BY <2>2 DEF IInv, NothingLost
    <2> QED
        BY <1>0, <2>2, <2>4, <2>5, <2>6 DEF IInv, CallsAlternate, BufferIsShort
<1>3. CASE PlainChar
    <2>1. text # <<>> /\ TypeChar
        BY <1>3 DEF PlainChar
    <2> QED
        BY <1>0, <2>1, TypeCharMoves, TypingStep DEF TypeChar
<1>4. CASE KeepRest
    <2>1. text # <<>> /\ Head(text) \in sequence_starting_chars
          /\ Len(text) < max_sequence_length /\ buffer' = text /\ text' = <<>>
        BY <1>4 DEF KeepRest, Starting
    <2>2. text[1] = Head(text)
        BY <1>0, <2>1 DEF TypeOK
    <2>3. BufferIsShort'
        BY <1>4, <2>1, <2>2 DEF KeepRest, BufferIsShort, mapVars
    <2>4. taken' \o buffer' = received' /\ received' \in Seq(Chars)
        BY <1>0, <1>4, <2>1, AccountInCall DEF KeepRest, TypeOK
    <2>5. NothingLost'
        BY <2>1, <2>4, ConcatEmptySeq DEF NothingLost
    <2>6. Serving
        BY <2>1, AccountInCall
    <2> QED
        BY <1>0, <1>4, <2>1, <2>3, <2>5, <2>6 DEF KeepRest, IInv, CallsAlternate,
                                                   StartsAreKnown, Serving, mapVars
<1>5. CASE TypeSequence
    <2>1. PICK line \in Candidates :
             /\ taken' = taken \o line.left
             /\ text' = SubSeq(text, Len(line.left) + 1, Len(text))
        BY <1>5 DEF TypeSequence
    <2>2. /\ line.left \in Seq(Chars) /\ text' \in Seq(Chars) /\ taken \in Seq(Chars)
          /\ line.left \o text' = text
        BY <1>0, <2>1, CandidateFacts DEF TypeOK
    <2>3. (taken \o line.left) \o text' = taken \o (line.left \o text')
        BY <2>2, TextsJoin
    <2>4. taken' \o text' = taken \o text
        BY <2>1, <2>2, <2>3
    <2>5. text # <<>> /\ UNCHANGED <<toRead, connected, mapVars, buffer, received>>
        BY <1>5 DEF TypeSequence, Starting
    <2> QED
        BY <1>0, <2>4, <2>5, TypingStep
<1>6. CASE StartingChar
    <2>1. text # <<>> /\ TypeChar
        BY <1>6 DEF StartingChar, Starting
    <2> QED
        BY <1>0, <2>1, TypeCharMoves, TypingStep DEF TypeChar
<1>7. ASSUME NEW piece \in Pieces, Receive(piece) PROVE IInv'
    <2>1. /\ piece \in Seq(Chars) /\ buffer \in Seq(Chars) /\ taken \in Seq(Chars)
          /\ buffer \o piece \in Seq(Chars) /\ taken \o buffer \in Seq(Chars)
        BY <1>0, CharmapsAreFiles, ConcatProperties DEF TypeOK
    <2>2. taken \o buffer = received
        BY <1>7, <2>1, ConcatEmptySeq DEF Receive, IInv, NothingLost
    <2>3. taken \o (buffer \o piece) = received \o piece
        BY <2>1, <2>2, TextsJoin
    <2>4. taken' \o buffer' = taken
        BY <1>7, <2>1, ConcatEmptySeq DEF Receive
    <2>5. NothingLost'
        BY <1>7, <2>3, <2>4 DEF Receive, NothingLost
    <2> QED
        BY <1>0, <1>7, <2>5 DEF Receive, IInv, CallsAlternate, StartsAreKnown, BufferIsShort,
                                Serving, mapVars
<1>8. ASSUME NEW file \in Charmaps, Reread(file) PROVE IInv'
    <2>1. NothingLost'
        BY <1>8, ConcatEmptySeq, EmptySeq DEF Reread, Restart, NothingLost
    <2> QED
        BY <1>0, <1>8, <2>1 DEF Reread, Restart, IInv, CallsAlternate, StartsAreKnown, BufferIsShort
<1>9. CASE Connect \/ Disconnect
    BY <1>0, <1>9 DEF Connect, Disconnect, mapVars, textVars, IInv, CallsAlternate,
                      StartsAreKnown, BufferIsShort, NothingLost, Serving
<1>10. CASE RereadFails
    <2>1. NothingLost'
        BY <1>10, ConcatEmptySeq, EmptySeq DEF RereadFails, Restart, NothingLost
    <2> QED
        BY <1>0, <1>10, <2>1 DEF RereadFails, Restart, IInv, CallsAlternate, StartsAreKnown,
                                 BufferIsShort, Serving
<1> QED
    BY <1>1, <1>2, <1>3, <1>4, <1>5, <1>6, <1>7, <1>8, <1>9, <1>10 DEF Next, ActOnData

\* The inductive invariant holds in every reachable state.
LEMMA Invariance == Spec => []IInv
<1> QED
    BY IInvInit, IInvStep, PTL DEF Spec

-----------------------------------------------------------------------------
\* The variables of the network text keep their types, whatever the charmaps.
THEOREM NetTypeCorrect == Spec => []TypeOK
<1>1. IInv => TypeOK
    BY DEF IInv
<1> QED
    BY <1>1, Invariance, PTL

\* No character is lost, repeated or moved by actOnData(), however long the
\* texts are and wherever they are cut.
THEOREM NothingLostThm == Spec => []NothingLost
<1>1. IInv => NothingLost
    BY DEF IInv
<1> QED
    BY <1>1, Invariance, PTL

\* actOnData() never keeps as much as the longest sequence has characters.
THEOREM BufferIsShortThm == Spec => []BufferIsShort
<1>1. IInv => BufferIsShort
    BY DEF IInv
<1> QED
    BY <1>1, Invariance, PTL

\* setUpKeymaps() knows the first character of every sequence, also after
\* any number of rereads.
THEOREM StartsAreKnownThm == Spec => []StartsAreKnown
<1>1. IInv => StartsAreKnown
    BY DEF IInv
<1> QED
    BY <1>1, Invariance, PTL

-----------------------------------------------------------------------------
(* What a text means, for any dictionary of lines.                         *)

\* The meanings that a text can have from some place on.
Readings == [out : Seq(Outputs \cup {Unmapped}), wait : Nat]

HasLines(d) == d.plain \subseteq Line /\ d.sequences \subseteq Line

\* after is known from i on to the end of the text s.
KnownFrom(s, i, after) == \A j \in i..(Len(s) + 1) : after[j] \in Readings

\* f tells what s means from i on.
ReadsFrom(d, s, i, f) == \A j \in i..(Len(s) + 1) : f[j] = MeaningAt(d, s, j, f)

\* Some lines that are not longer than n have a shortest one.
LEMMA ShortestIsOne ==
    ASSUME NEW lines \in SUBSET Line, lines # {}, NEW n \in Nat,
           \A l \in lines : Len(l.left) <= n
    PROVE  /\ Shortest(lines) \in lines
           /\ \A m \in lines : Len(Shortest(lines).left) <= Len(m.left)
<1> DEFINE S == {Len(l.left) : l \in lines}
<1>1. S \subseteq 0..n
    BY LineFacts
<1>2. S # {}
    OBVIOUS
<1>3. PICK i \in S : \A j \in S : i <= j
    <2> HIDE DEF S
    <2> QED
        BY <1>1, <1>2, Smallest
<1>4. PICK l \in lines : Len(l.left) = i
    OBVIOUS
<1>5. \A m \in lines : Len(l.left) <= Len(m.left)
    BY <1>3, <1>4
<1> QED
    BY <1>5 DEF Shortest

\* The lines that lie in a text are lines, and end in it.
LEMMA SequencesFacts ==
    ASSUME NEW d, HasLines(d), NEW s \in Seq(Chars), NEW i \in 1..Len(s)
    PROVE  /\ SequencesAt(d, s, i) \subseteq Line
           /\ \A l \in SequencesAt(d, s, i) :
                 Len(l.left) \in Nat \ {0} /\ i + Len(l.left) \in (i + 1)..(Len(s) + 1)
<1>1. SequencesAt(d, s, i) \subseteq Line
    BY DEF SequencesAt, HasLines
<1>2. ASSUME NEW l \in SequencesAt(d, s, i)
      PROVE  Len(l.left) \in Nat \ {0} /\ i + Len(l.left) \in (i + 1)..(Len(s) + 1)
    <2>1. l \in Line
        BY <1>1
    <2>2. Len(l.left) \in Nat \ {0}
        BY <2>1, LineFacts, EmptySeq
    <2>3. i + Len(l.left) - 1 <= Len(s) /\ Len(s) \in Nat
        BY LenProperties DEF SequencesAt
    <2> QED
        BY <2>2, <2>3
<1> QED
    BY <1>1, <1>2

\* The shortest of the lines that lie in a text is one of them.
LEMMA ShortestAt ==
    ASSUME NEW d, HasLines(d), NEW s \in Seq(Chars), NEW i \in 1..Len(s),
           SequencesAt(d, s, i) # {}
    PROVE  /\ Shortest(SequencesAt(d, s, i)) \in SequencesAt(d, s, i)
           /\ \A m \in SequencesAt(d, s, i) :
                 Len(Shortest(SequencesAt(d, s, i)).left) <= Len(m.left)
<1>1. SequencesAt(d, s, i) \subseteq Line
    BY SequencesFacts
<1>2. Len(s) \in Nat
    BY LenProperties
<1>3. \A l \in SequencesAt(d, s, i) : Len(l.left) <= Len(s)
    BY <1>2, SequencesFacts
<1> QED
    BY <1>1, <1>2, <1>3, ShortestIsOne

\* What a character means alone is an output or the one that is made up.
LEMMA PlainForTypes ==
    ASSUME NEW d, HasLines(d), NEW c
    PROVE  PlainFor(d, c) \in Outputs \cup {Unmapped}
<1> DEFINE lines == {l \in d.plain : l.left = <<c>>}
<1>1. lines \subseteq Line
    BY DEF HasLines
<1>2. CASE lines # {}
    <2>1. (CHOOSE l \in lines : TRUE) \in lines
        BY <1>2
    <2>2. (CHOOSE l \in lines : TRUE).right \in Outputs
        BY <1>1, <2>1, LineFacts
    <2> QED
        BY <1>2, <2>2 DEF PlainFor
<1>3. CASE lines = {}
    BY <1>3 DEF PlainFor
<1> QED
    BY <1>2, <1>3

\* An output and a reading are a reading.
LEMMA FollowedTypes ==
    ASSUME NEW o \in Outputs \cup {Unmapped}, NEW rest \in Readings
    PROVE  Followed(o, rest) \in Readings
<1>1. rest.out \in Seq(Outputs \cup {Unmapped}) /\ rest.wait \in Nat
    BY DEF Readings
<1>2. <<o>> \in Seq(Outputs \cup {Unmapped})
    OBVIOUS
<1>3. <<o>> \o rest.out \in Seq(Outputs \cup {Unmapped})
    BY <1>1, <1>2, ConcatProperties
<1> QED
    BY <1>1, <1>3 DEF Followed, Readings

\* What a text means at i depends only on what it means further on,
LEMMA LooksAhead ==
    ASSUME NEW d, HasLines(d), NEW s \in Seq(Chars), NEW i \in 1..(Len(s) + 1),
           NEW f, NEW g, \A j \in (i + 1)..(Len(s) + 1) : f[j] = g[j]
    PROVE  MeaningAt(d, s, i, f) = MeaningAt(d, s, i, g)
<1>0. Len(s) \in Nat
    BY LenProperties
<1>1. CASE i > Len(s)
    BY <1>1 DEF MeaningAt
<1>2. CASE i <= Len(s)
    <2>1. i \in 1..Len(s) /\ i + 1 \in (i + 1)..(Len(s) + 1)
        BY <1>0, <1>2
    <2>2. f[i + 1] = g[i + 1]
        BY <2>1
    <2>3. CASE SequencesAt(d, s, i) # {}
        <3>1. i + Len(Shortest(SequencesAt(d, s, i)).left) \in (i + 1)..(Len(s) + 1)
            BY <2>1, <2>3, ShortestAt, SequencesFacts
        <3>2. f[i + Len(Shortest(SequencesAt(d, s, i)).left)]
                = g[i + Len(Shortest(SequencesAt(d, s, i)).left)]
            BY <3>1
        <3> QED
            BY <2>3, <3>2 DEF MeaningAt
    <2>4. CASE SequencesAt(d, s, i) = {}
        BY <2>4, <2>2 DEF MeaningAt
    <2> QED
        BY <2>3, <2>4
<1> QED
    BY <1>0, <1>1, <1>2

\* ... and it is a reading when that is known.
LEMMA MeaningAtTypes ==
    ASSUME NEW d, HasLines(d), NEW s \in Seq(Chars), NEW i \in 1..(Len(s) + 1),
           NEW f, KnownFrom(s, i + 1, f)
    PROVE  MeaningAt(d, s, i, f) \in Readings
<1>0. Len(s) \in Nat
    BY LenProperties
<1>a. \A w \in Nat : [out |-> <<>>, wait |-> w] \in Readings
    BY EmptySeq DEF Readings
<1>1. CASE i > Len(s)
    BY <1>1, <1>a DEF MeaningAt
<1>2. CASE i <= Len(s)
    <2>1. i \in 1..Len(s) /\ i + 1 \in (i + 1)..(Len(s) + 1) /\ Len(s) - i + 1 \in Nat
        BY <1>0, <1>2
    <2>2. Followed(PlainFor(d, s[i]), f[i + 1]) \in Readings
        BY <2>1, PlainForTypes, FollowedTypes DEF KnownFrom
    <2>3. ASSUME SequencesAt(d, s, i) # {}
          PROVE  LET line == Shortest(SequencesAt(d, s, i))
                 IN  Followed(line.right, f[i + Len(line.left)]) \in Readings
        <3> DEFINE line == Shortest(SequencesAt(d, s, i))
        <3>1. line \in SequencesAt(d, s, i)
            BY <2>1, <2>3, ShortestAt
        <3> HIDE DEF line
        <3>2. i + Len(line.left) \in (i + 1)..(Len(s) + 1) /\ line \in Line
            BY <2>1, <3>1, SequencesFacts
        <3>3. f[i + Len(line.left)] \in Readings /\ line.right \in Outputs
            BY <3>2, LineFacts DEF KnownFrom
        <3>4. Followed(line.right, f[i + Len(line.left)]) \in Readings
            BY <3>3, FollowedTypes
        <3> QED
            BY <3>4 DEF line
    <2> QED
        BY <1>2, <1>a, <2>1, <2>2, <2>3 DEF MeaningAt
<1> QED
    BY <1>0, <1>1, <1>2

\* A text can be read from its end to any place k.
LEMMA ReadFromEnd ==
    ASSUME NEW d, HasLines(d), NEW s \in Seq(Chars), NEW k \in 1..(Len(s) + 1)
    PROVE  \E f \in [k..(Len(s) + 1) -> Readings] : ReadsFrom(d, s, k, f)
<1>0. PICK n \in Nat : n = Len(s) + 1
    BY LenProperties
<1> DEFINE Readable(i) == \E f \in [i..n -> Readings] : ReadsFrom(d, s, i, f)
           S == {i \in 1..n : ~ Readable(i)}
<1>1. SUFFICES ASSUME S # {} PROVE FALSE
    BY <1>0
<1>2. PICK i \in S : \A j \in S : j <= i
    <2>1. S \in SUBSET (0..n)
        OBVIOUS
    <2> HIDE DEF S
    <2> QED
        BY <1>1, <2>1, Largest
<1>3. i \in 1..n /\ ~ Readable(i)
    BY <1>2
<1>4. PICK f \in [(i + 1)..n -> Readings] : ReadsFrom(d, s, i + 1, f)
    <2>1. CASE i = n
        <3>1. [j \in (i + 1)..n |-> [out |-> <<>>, wait |-> 0]] \in [(i + 1)..n -> Readings]
            BY <2>1
        <3>2. (i + 1)..n = {}
            BY <2>1, <1>3
        <3> QED
            BY <3>1, <3>2, <1>0 DEF ReadsFrom
    <2>2. CASE i # n
        <3>1. i + 1 \in 1..n
            BY <2>2, <1>3
        <3>2. i + 1 \notin S
            BY <1>2, <1>3
        <3> QED
            BY <3>1, <3>2
    <2> QED
        BY <2>1, <2>2
<1> DEFINE g == [j \in i..n |-> IF j = i THEN MeaningAt(d, s, i, f) ELSE f[j]]
<1>5. KnownFrom(s, i + 1, f)
    BY <1>0 DEF KnownFrom
<1>6. MeaningAt(d, s, i, f) \in Readings
    BY <1>0, <1>3, <1>5, MeaningAtTypes
<1>7. g \in [i..n -> Readings]
    <2>1. \A j \in i..n : j # i => j \in (i + 1)..n
        BY <1>3
    <2>2. \A j \in i..n : (IF j = i THEN MeaningAt(d, s, i, f) ELSE f[j]) \in Readings
        BY <1>6, <2>1
    <2> QED
        BY <2>2
<1>8. g[i] = MeaningAt(d, s, i, f)
    BY <1>3
<1>9. \A j \in (i + 1)..n : j \in i..n /\ g[j] = f[j]
    BY <1>3
<1> HIDE DEF g
<1>10. ASSUME NEW j \in i..n PROVE g[j] = MeaningAt(d, s, j, g)
    <2>1. j \in 1..(Len(s) + 1)
        BY <1>0, <1>3
    <2>2. \A m \in (j + 1)..(Len(s) + 1) : f[m] = g[m]
        BY <1>0, <1>3, <1>9
    <2>3. MeaningAt(d, s, j, f) = MeaningAt(d, s, j, g)
        BY <2>1, <2>2, LooksAhead
    <2>4. CASE j = i
        BY <2>3, <2>4, <1>8
    <2>5. CASE j # i
        <3>1. j \in (i + 1)..n
            BY <2>5, <1>3
        <3>2. f[j] = MeaningAt(d, s, j, f)
            BY <3>1, <1>4, <1>0 DEF ReadsFrom
        <3> QED
            BY <3>1, <3>2, <2>3, <1>9
    <2> QED
        BY <2>4, <2>5
<1>11. ReadsFrom(d, s, i, g)
    BY <1>10, <1>0 DEF ReadsFrom
<1> QED
    BY <1>3, <1>7, <1>11

\* So Meanings is what it is defined to be, and its values are readings.
LEMMA MeaningsFacts ==
    ASSUME NEW d, HasLines(d), NEW s \in Seq(Chars)
    PROVE  \A i \in 1..(Len(s) + 1) :
              /\ Meanings(d, s)[i] = MeaningAt(d, s, i, Meanings(d, s))
              /\ Meanings(d, s)[i] \in Readings
<1>0. PICK n \in Nat : n = Len(s) + 1
    BY LenProperties
<1> DEFINE r == Meanings(d, s)
<1>1. \E f : f = [i \in 1..(Len(s) + 1) |-> MeaningAt(d, s, i, f)]
    <2>1. 1 \in 1..(Len(s) + 1)
        BY LenProperties
    <2>2. PICK f \in [1..(Len(s) + 1) -> Readings] : ReadsFrom(d, s, 1, f)
        BY <2>1, ReadFromEnd
    <2>3. f = [i \in 1..(Len(s) + 1) |-> MeaningAt(d, s, i, f)]
        BY <2>2 DEF ReadsFrom
    <2> QED
        BY <2>3
<1>2. r = [i \in 1..(Len(s) + 1) |-> MeaningAt(d, s, i, r)]
    BY <1>1 DEF Meanings
<1> HIDE DEF r
<1>3. \A i \in 1..(Len(s) + 1) : r[i] = MeaningAt(d, s, i, r)
    BY <1>2
<1> DEFINE S == {i \in 1..n : r[i] \notin Readings}
<1>4. S = {}
    <2> SUFFICES ASSUME S # {} PROVE FALSE
        OBVIOUS
    <2>1. PICK i \in S : \A j \in S : j <= i
        <3>1. S \in SUBSET (0..n)
            OBVIOUS
        <3> HIDE DEF S
        <3> QED
            BY <3>1, Largest
    <2>2. i \in 1..(Len(s) + 1) /\ r[i] \notin Readings
        BY <2>1, <1>0
    <2>3. KnownFrom(s, i + 1, r)
        <3>1. ASSUME NEW j \in (i + 1)..(Len(s) + 1) PROVE r[j] \in Readings
            <4>1. j \in 1..n /\ ~ (j <= i)
                BY <1>0, <2>2
            <4> QED
                BY <4>1, <2>1
        <3> QED
            BY <3>1 DEF KnownFrom
    <2>4. MeaningAt(d, s, i, r) \in Readings
        BY <2>2, <2>3, MeaningAtTypes
    <2> QED
        BY <2>2, <2>4, <1>3
<1>5. \A i \in 1..(Len(s) + 1) : r[i] \in Readings
    BY <1>4, <1>0
<1> QED
    BY <1>3, <1>5 DEF r

-----------------------------------------------------------------------------
(* The call in progress, and the text as a whole.                          *)

\* No two lines of a map have the same trigger, and those of specialmap are
\* longer than a character.
LinesAreUnique ==
    /\ \A l, m \in charmap : l.left = m.left => l = m
    /\ \A l, m \in specialmap : l.left = m.left => l = m
    /\ \A l \in specialmap : Len(l.left) > 1

\* While the charmap is read nothing is typed.
NothingTypedYet == ~Serving => typed = <<>>

Prefixed(outs, rest) == [out |-> outs \o rest.out, wait |-> rest.wait]

\* However the text goes on, what it means as a whole is what was typed and
\* then what it means from the first character on that is not taken.
AgreesFor(t) ==
    Meanings(Dictionary, received \o t)[1]
       = Prefixed(typed, Meanings(Dictionary, received \o t)[Len(taken) + 1])
Agrees == \A t \in Seq(Chars) : AgreesFor(t)

\* The inductive invariant of what is typed.
ReadInv == IInv /\ LinesAreUnique /\ NothingTypedYet /\ Agrees

\* The charmap's maps are a dictionary.
LEMMA DictionaryHasLines ==
    ASSUME TypeOK
    PROVE  HasLines(Dictionary)
<1> QED
    BY DEF TypeOK, HasLines, Dictionary

\* Outputs can be joined in any order, too.
LEMMA OutsJoin ==
    ASSUME NEW a \in Seq(Outputs \cup {Unmapped}), NEW b \in Seq(Outputs \cup {Unmapped}),
           NEW c \in Seq(Outputs \cup {Unmapped})
    PROVE  (a \o b) \o c = a \o (b \o c)
<1> QED
    BY ConcatAssociative

\* The next output can be typed before the rest is read or with it.
LEMMA FollowedThenPrefixed ==
    ASSUME NEW outs \in Seq(Outputs \cup {Unmapped}), NEW o \in Outputs \cup {Unmapped},
           NEW rest \in Readings
    PROVE  Prefixed(outs, Followed(o, rest)) = Prefixed(Append(outs, o), rest)
<1>1. rest.out \in Seq(Outputs \cup {Unmapped}) /\ <<o>> \in Seq(Outputs \cup {Unmapped})
    BY DEF Readings
<1>2. Append(outs, o) = outs \o <<o>>
    BY AppendIsConcat
<1>3. (outs \o <<o>>) \o rest.out = outs \o (<<o>> \o rest.out)
    BY <1>1, OutsJoin
<1> QED
    BY <1>2, <1>3 DEF Prefixed, Followed

\* Before anything is typed there is only the rest.
LEMMA NothingPrefixed ==
    ASSUME NEW rest \in Readings
    PROVE  Prefixed(<<>>, rest) = rest
<1>1. rest.out \in Seq(Outputs \cup {Unmapped})
    BY DEF Readings
<1>2. <<>> \o rest.out = rest.out
    BY <1>1, ConcatEmptySeq
<1> QED
    BY <1>2 DEF Prefixed, Readings

\* A text in the middle of another.
LEMMA TextInside ==
    ASSUME NEW a \in Seq(Chars), NEW b \in Seq(Chars), b # <<>>, NEW c \in Seq(Chars)
    PROVE  /\ (a \o b) \o c \in Seq(Chars)
           /\ Len((a \o b) \o c) = Len(a) + Len(b) + Len(c)
           /\ Len(a) + 1 \in 1..Len((a \o b) \o c)
           /\ ((a \o b) \o c)[Len(a) + 1] = b[1] /\ b[1] = Head(b)
           /\ \A n \in 1..Len(b) : SubSeq((a \o b) \o c, Len(a) + 1, Len(a) + n) = SubSeq(b, 1, n)
<1> DEFINE s == (a \o b) \o c
<1>1. Len(a) \in Nat /\ Len(b) \in Nat \ {0} /\ Len(c) \in Nat
    BY LenProperties, EmptySeq
<1>2. a \o b \in Seq(Chars) /\ Len(a \o b) = Len(a) + Len(b)
      /\ \A i \in 1..(Len(a) + Len(b)) :
            (a \o b)[i] = IF i <= Len(a) THEN a[i] ELSE b[i - Len(a)]
    BY ConcatProperties
<1>3. s \in Seq(Chars) /\ Len(s) = Len(a) + Len(b) + Len(c)
      /\ \A i \in 1..(Len(a \o b) + Len(c)) :
            s[i] = IF i <= Len(a \o b) THEN (a \o b)[i] ELSE c[i - Len(a \o b)]
    BY <1>2, ConcatProperties
<1>4. \A j \in 1..Len(b) : s[Len(a) + j] = b[j]
    <2> TAKE j \in 1..Len(b)
    <2>1. Len(a) + j \in 1..(Len(a) + Len(b)) /\ Len(a) + j \in 1..(Len(a \o b) + Len(c))
        BY <1>1, <1>2
    <2>2. s[Len(a) + j] = (a \o b)[Len(a) + j]
        BY <1>1, <1>2, <1>3, <2>1
    <2> HIDE DEF s
    <2> QED
        BY <1>1, <1>2, <2>1, <2>2
<1> HIDE DEF s
<1>5. ASSUME NEW n \in 1..Len(b)
      PROVE  SubSeq(s, Len(a) + 1, Len(a) + n) = SubSeq(b, 1, n)
    <2> DEFINE u == SubSeq(s, Len(a) + 1, Len(a) + n)
               v == SubSeq(b, 1, n)
    <2>1. \A i \in (Len(a) + 1)..(Len(a) + n) : s[i] \in Chars
        BY <1>1, <1>3, ElementOfSeq
    <2>2. \A i \in 1..n : b[i] \in Chars
        BY <1>1, ElementOfSeq
    <2>3. u \in Seq(Chars) /\ Len(u) = n
          /\ \A i \in 1..n : u[i] = s[Len(a) + 1 + i - 1]
        BY <1>1, <2>1, SubSeqProperties
    <2>4. v \in Seq(Chars) /\ Len(v) = n /\ \A i \in 1..n : v[i] = b[1 + i - 1]
        BY <1>1, <2>2, SubSeqProperties
    <2> HIDE DEF u, v
    <2>5. ASSUME NEW i \in 1..n PROVE u[i] = v[i]
        <3>1. i \in 1..Len(b) /\ Len(a) + 1 + i - 1 = Len(a) + i /\ 1 + i - 1 = i
            BY <1>1
        <3>2. u[i] = s[Len(a) + i] /\ v[i] = b[i]
            BY <2>3, <2>4, <3>1
        <3> QED
            BY <1>4, <3>1, <3>2
    <2>6. u = v
        BY <2>3, <2>4, <2>5, SeqEqual
    <2> QED
        BY <2>6 DEF u, v
<1>6. s[Len(a) + 1] = b[1] /\ b[1] = Head(b) /\ Len(a) + 1 \in 1..Len(s)
    BY <1>1, <1>3, <1>4
<1> QED
    BY <1>3, <1>5, <1>6 DEF s

\* A step that types the output of the next n characters keeps the agreement,
\* if the text means this output there, however it goes on.
LEMMA TypingAgrees ==
    ASSUME IInv, IInv', Agrees, NEW o \in Outputs \cup {Unmapped}, NEW n \in Nat \ {0},
           UNCHANGED <<mapVars, received>>,
           typed' = Append(typed, o), Len(taken') = Len(taken) + n,
           \A t \in Seq(Chars) :
              MeaningAt(Dictionary, received \o t, Len(taken) + 1,
                        Meanings(Dictionary, received \o t))
                 = Followed(o, Meanings(Dictionary, received \o t)[Len(taken) + n + 1])
    PROVE  Agrees'
<1>1. Dictionary' = Dictionary /\ received' = received
    BY DEF Dictionary, mapVars
<1>2. ASSUME NEW t \in Seq(Chars) PROVE AgreesFor(t)'
    <2> DEFINE s == received \o t
               r == Meanings(Dictionary, s)
    <2>0. /\ taken \in Seq(Chars) /\ received \in Seq(Chars) /\ typed \in Seq(Outputs \cup {Unmapped})
          /\ taken' \in Seq(Chars) /\ buffer' \in Seq(Chars) /\ text' \in Seq(Chars)
        BY DEF IInv, TypeOK
    <2>1. s \in Seq(Chars) /\ Len(s) = Len(received) + Len(t)
        BY <2>0, ConcatProperties
    <2>2. Len(taken') <= Len(received)
        <3>1. received = (taken' \o buffer') \o text'
            BY <1>1 DEF IInv, NothingLost
        <3>2. taken' \o buffer' \in Seq(Chars) /\ Len(taken' \o buffer') = Len(taken') + Len(buffer')
            BY <2>0, ConcatProperties
        <3>3. Len(received) = Len(taken') + Len(buffer') + Len(text')
            BY <2>0, <3>1, <3>2, ConcatProperties
        <3> QED
            BY <2>0, <3>3, LenProperties
    <2>3. Len(taken) + 1 \in 1..(Len(s) + 1) /\ Len(taken) + n + 1 \in 1..(Len(s) + 1)
        BY <2>0, <2>1, <2>2, LenProperties
    <2>4. HasLines(Dictionary)
        BY DictionaryHasLines DEF IInv
    <2>5. r[Len(taken) + 1] = MeaningAt(Dictionary, s, Len(taken) + 1, r)
          /\ r[Len(taken) + n + 1] \in Readings
        BY <2>1, <2>3, <2>4, MeaningsFacts
    <2>6. r[Len(taken) + 1] = Followed(o, r[Len(taken) + n + 1])
        BY <2>5
    <2>7. r[1] = Prefixed(typed, r[Len(taken) + 1])
        BY DEF Agrees, AgreesFor
    <2> HIDE DEF s, r
    <2>8. r[1] = Prefixed(typed', r[Len(taken) + n + 1])
        <3>1. PICK rest \in Readings : rest = r[Len(taken) + n + 1]
            BY <2>5
        <3>2. Prefixed(typed, Followed(o, rest)) = Prefixed(Append(typed, o), rest)
            BY <2>0, FollowedThenPrefixed
        <3> QED
            BY <2>6, <2>7, <3>1, <3>2
    <2>9. Len(taken') + 1 = Len(taken) + n + 1
        BY <2>0, LenProperties
    <2>10. r[1] = Prefixed(typed', r[Len(taken') + 1])
        BY <2>8, <2>9
    <2> QED
        BY <1>1, <2>10 DEF AgreesFor, r, s
<1> QED
    BY <1>2 DEF Agrees

\* In a call, where the text is in what was received and what may follow.
LEMMA WhereTextIs ==
    ASSUME IInv, text # <<>>, NEW t \in Seq(Chars)
    PROVE  /\ received \o t \in Seq(Chars)
           /\ Len(taken) + 1 \in 1..Len(received \o t)
           /\ Len(received \o t) = Len(taken) + Len(text) + Len(t)
           /\ (received \o t)[Len(taken) + 1] = text[1] /\ text[1] = Head(text)
           /\ \A n \in 1..Len(text) :
                 SubSeq(received \o t, Len(taken) + 1, Len(taken) + n) = SubSeq(text, 1, n)
<1>1. taken \in Seq(Chars) /\ text \in Seq(Chars)
    BY DEF IInv, TypeOK
<1>2. received = taken \o text
    BY AccountInCall
<1>3. /\ (taken \o text) \o t \in Seq(Chars)
      /\ Len((taken \o text) \o t) = Len(taken) + Len(text) + Len(t)
      /\ Len(taken) + 1 \in 1..Len((taken \o text) \o t)
      /\ ((taken \o text) \o t)[Len(taken) + 1] = text[1] /\ text[1] = Head(text)
    BY <1>1, TextInside
<1>4. \A n \in 1..Len(text) :
         SubSeq((taken \o text) \o t, Len(taken) + 1, Len(taken) + n) = SubSeq(text, 1, n)
    BY <1>1, TextInside
<1> QED
    BY <1>2, <1>3, <1>4

\* What TypeChar types is what the character means alone.
LEMMA TypeCharTypesPlain ==
    ASSUME TypeOK, LinesAreUnique, text # <<>>, TypeChar
    PROVE  /\ typed' = Append(typed, PlainFor(Dictionary, Head(text)))
           /\ Len(taken') = Len(taken) + 1
<1> DEFINE c == Head(text)
           lines == {l \in charmap : l.left = <<c>>}
<1>1. CASE \E l \in charmap : l.left = <<c>>
    <2>1. (CHOOSE l \in charmap : l.left = <<c>>) \in lines
        BY <1>1
    <2>2. (CHOOSE l \in lines : TRUE) \in lines
        BY <1>1
    <2>3. \A l, m \in lines : l = m
        BY DEF LinesAreUnique
    <2>4. (CHOOSE l \in charmap : l.left = <<c>>).right = PlainFor(Dictionary, c)
        BY <1>1, <2>1, <2>2, <2>3 DEF PlainFor, Dictionary
    <2> QED
        BY <1>1, <2>4 DEF TypeChar
<1>2. CASE ~ \E l \in charmap : l.left = <<c>>
    BY <1>2 DEF TypeChar, PlainFor, Dictionary
<1>3. Len(taken') = Len(taken) + 1
    BY HeadTailProperties, AppendProperties DEF TypeChar, TypeOK
<1> QED
    BY <1>1, <1>2, <1>3

\* The sequences that lie in the text as a whole are those actOnData() finds,
\* when it looks for them.
LEMMA SequencesAreCandidates ==
    ASSUME IInv, LinesAreUnique, text # <<>>, Len(text) >= max_sequence_length,
           NEW t \in Seq(Chars)
    PROVE  SequencesAt(Dictionary, received \o t, Len(taken) + 1) = Candidates
<1>0. /\ text \in Seq(Chars) /\ taken \in Seq(Chars) /\ specialmap \subseteq Line
      /\ max_sequence_length \in Nat
    BY DEF IInv, TypeOK
<1> DEFINE s == received \o t
<1>1. /\ Len(s) = Len(taken) + Len(text) + Len(t)
      /\ \A n \in 1..Len(text) : SubSeq(s, Len(taken) + 1, Len(taken) + n) = SubSeq(text, 1, n)
    BY WhereTextIs
<1> HIDE DEF s
<1>2. Len(taken) \in Nat /\ Len(text) \in Nat /\ Len(t) \in Nat
    BY <1>0, LenProperties
<1>3. ASSUME NEW l \in specialmap
      PROVE  l \in SequencesAt(Dictionary, s, Len(taken) + 1) <=> l \in Candidates
    <2>1. Len(l.left) \in Nat /\ Len(l.left) > 1
        BY <1>0, LineFacts DEF LinesAreUnique
    <2>0. PICK n \in Nat : n = Len(l.left)
        BY <2>1
    <2>2. n > 1 /\ (Len(taken) + 1) + n - 1 = Len(taken) + n
        <3>1. n > 1
            BY <2>0, <2>1
        <3>2. \A i, j \in Nat : (i + 1) + j - 1 = i + j
            OBVIOUS
        <3> QED
            BY <3>1, <3>2, <1>2
    <2>3. l \in Candidates <=> /\ n <= max_sequence_length /\ n <= Len(text)
                               /\ SubSeq(text, 1, n) = l.left
        BY <2>0, <2>2, <1>0 DEF Candidates
    <2>4. l \in SequencesAt(Dictionary, s, Len(taken) + 1)
             <=> /\ n <= max_sequence_length /\ Len(taken) + n <= Len(s)
                 /\ SubSeq(s, Len(taken) + 1, Len(taken) + n) = l.left
        BY <2>0, <2>2 DEF SequencesAt, Dictionary
    <2>5. CASE n <= max_sequence_length
        <3>1. n \in 1..Len(text) /\ n <= Len(text) /\ Len(taken) + n <= Len(s)
            BY <1>0, <1>1, <1>2, <2>2, <2>5
        <3>2. SubSeq(s, Len(taken) + 1, Len(taken) + n) = SubSeq(text, 1, n)
            BY <1>1, <3>1
        <3> QED
            BY Zenon, <2>3, <2>4, <2>5, <3>1, <3>2
    <2>6. CASE ~ (n <= max_sequence_length)
        BY <2>3, <2>4, <2>6
    <2> QED
        BY <2>5, <2>6
<1>4. SequencesAt(Dictionary, s, Len(taken) + 1) \subseteq specialmap /\ Candidates \subseteq specialmap
    BY DEF SequencesAt, Candidates, Dictionary
<1>5. SequencesAt(Dictionary, s, Len(taken) + 1) = Candidates
    BY <1>3, <1>4
<1> QED
    BY <1>5 DEF s

\* None lies where the text begins with another character.
LEMMA NoneWithoutStart ==
    ASSUME IInv, text # <<>>, ~Starting, NEW t \in Seq(Chars)
    PROVE  SequencesAt(Dictionary, received \o t, Len(taken) + 1) = {}
<1> DEFINE s == received \o t
<1>1. /\ s \in Seq(Chars) /\ Len(taken) + 1 \in 1..Len(s)
      /\ s[Len(taken) + 1] = Head(text)
    BY WhereTextIs
<1> HIDE DEF s
<1>2. PICK p \in 1..Len(s) : p = Len(taken) + 1
    BY <1>1
<1>3. HasLines(Dictionary)
    BY DictionaryHasLines DEF IInv
<1>4. SUFFICES ASSUME NEW l \in SequencesAt(Dictionary, s, p) PROVE FALSE
    BY <1>2 DEF s
<1>5. Len(l.left) \in Nat \ {0} /\ p + Len(l.left) \in (p + 1)..(Len(s) + 1)
    BY <1>1, <1>3, SequencesFacts
<1>6. SubSeq(s, p, p + Len(l.left) - 1) = l.left /\ l \in specialmap
    BY DEF SequencesAt, Dictionary
<1>7. SubSeq(s, p, p + Len(l.left) - 1)[1] = s[p]
    <2>1. Len(s) \in Nat
        BY <1>1, LenProperties
    <2>2. \A i \in p..(p + Len(l.left) - 1) : s[i] \in Chars
        BY <1>1, <1>5, <2>1, ElementOfSeq
    <2>3. SubSeq(s, p, p + Len(l.left) - 1)[1] = s[p + 1 - 1]
        <3>1. 1 \in 1..(p + Len(l.left) - 1 - p + 1)
            BY <1>5
        <3>2. p \in Int /\ p + Len(l.left) - 1 \in Int
            BY <1>5
        <3> QED
            BY <2>2, <3>1, <3>2, SubSeqProperties
    <2>4. p + 1 - 1 = p
        BY <2>1
    <2> QED
        BY <2>3, <2>4
<1>8. Head(text) \in sequence_starting_chars
    BY <1>1, <1>2, <1>6, <1>7 DEF IInv, StartsAreKnown
<1> QED
    BY <1>8 DEF Starting

\* A character is typed alone when the text means it alone.
LEMMA CharAgrees ==
    ASSUME IInv, IInv', LinesAreUnique, Agrees, text # <<>>, TypeChar,
           \A t \in Seq(Chars) :
              /\ SequencesAt(Dictionary, received \o t, Len(taken) + 1) = {}
              /\ Starting => Len(text) >= max_sequence_length
    PROVE  Agrees'
<1>1. UNCHANGED <<mapVars, received>>
    BY DEF TypeChar
<1>2. typed' = Append(typed, PlainFor(Dictionary, Head(text))) /\ Len(taken') = Len(taken) + 1
    BY TypeCharTypesPlain DEF IInv
<1>3. PlainFor(Dictionary, Head(text)) \in Outputs \cup {Unmapped}
    BY DictionaryHasLines, PlainForTypes DEF IInv
<1>4. ASSUME NEW t \in Seq(Chars)
      PROVE  MeaningAt(Dictionary, received \o t, Len(taken) + 1,
                       Meanings(Dictionary, received \o t))
                = Followed(PlainFor(Dictionary, Head(text)),
                           Meanings(Dictionary, received \o t)[Len(taken) + 1 + 1])
    <2> DEFINE s == received \o t
    <2>1. /\ Len(taken) + 1 \in 1..Len(s) /\ s[Len(taken) + 1] = Head(text)
          /\ Len(s) = Len(taken) + Len(text) + Len(t)
        BY WhereTextIs
    <2>2. SequencesAt(Dictionary, s, Len(taken) + 1) = {}
        OBVIOUS
    <2> HIDE DEF s
    <2>3. Len(taken) \in Nat /\ Len(text) \in Nat /\ Len(t) \in Nat /\ max_sequence_length \in Nat
        BY LenProperties DEF IInv, TypeOK
    <2>4. ~ (Len(taken) + 1 > Len(s))
        BY <2>1, <2>3
    <2>5. ~ (s[Len(taken) + 1] \in Dictionary.starts
               /\ Len(s) - (Len(taken) + 1) + 1 < Dictionary.longest)
        <3>1. Dictionary.starts = sequence_starting_chars
              /\ Dictionary.longest = max_sequence_length
            BY DEF Dictionary
        <3>2. CASE Starting
            <4>1. Len(text) >= max_sequence_length
                BY <3>2
            <4> QED
                BY <3>1, <4>1, <2>1, <2>3
        <3>3. CASE ~ Starting
            BY <2>1, <3>1, <3>3 DEF Starting
        <3> QED
            BY <3>2, <3>3
    <2>6. MeaningAt(Dictionary, s, Len(taken) + 1, Meanings(Dictionary, s))
             = Followed(PlainFor(Dictionary, s[Len(taken) + 1]),
                        Meanings(Dictionary, s)[Len(taken) + 1 + 1])
        BY <2>2, <2>4, <2>5 DEF MeaningAt
    <2> QED
        BY <2>1, <2>6 DEF s
<1> QED
    BY <1>1, <1>2, <1>3, <1>4, TypingAgrees

\* There is one shortest line to type a sequence for.
LEMMA ShortestIsUnique ==
    ASSUME TypeOK, LinesAreUnique, NEW line \in Candidates, NEW other \in Candidates,
           IsShortest(line), \A l \in Candidates : Len(other.left) <= Len(l.left)
    PROVE  line = other
<1>1. /\ Len(line.left) \in Nat /\ Len(other.left) \in Nat
      /\ SubSeq(text, 1, Len(line.left)) = line.left
      /\ SubSeq(text, 1, Len(other.left)) = other.left
    BY CandidateFacts, LenProperties
<1>2. Len(line.left) = Len(other.left)
    BY <1>1 DEF IsShortest
<1>3. line.left = other.left
    BY <1>1, <1>2
<1> QED
    BY <1>3 DEF LinesAreUnique, Candidates

\* A sequence is typed when the text means it.
LEMMA SequenceAgrees ==
    ASSUME IInv, IInv', LinesAreUnique, Agrees, TypeSequence
    PROVE  Agrees'
<1>0. /\ text # <<>> /\ Head(text) \in sequence_starting_chars
      /\ Len(text) >= max_sequence_length
      /\ UNCHANGED <<mapVars, received>>
    BY DEF TypeSequence, Starting
<1>1. PICK line \in Candidates : /\ IsShortest(line)
                                 /\ typed' = Append(typed, line.right)
                                 /\ taken' = taken \o line.left
    BY DEF TypeSequence
<1>2. PICK n \in Nat \ {0} : n = Len(line.left)
    <2>1. line \in Line
        BY CandidateFacts DEF IInv
    <2> QED
        BY <2>1, LineFacts, EmptySeq
<1>3. line.right \in Outputs \cup {Unmapped} /\ line.left \in Seq(Chars) /\ line \in Line
    BY CandidateFacts DEF IInv
<1>4. Len(taken') = Len(taken) + n
    BY <1>1, <1>2, <1>3, ConcatProperties DEF IInv, TypeOK
<1>5. ASSUME NEW t \in Seq(Chars)
      PROVE  MeaningAt(Dictionary, received \o t, Len(taken) + 1,
                       Meanings(Dictionary, received \o t))
                = Followed(line.right, Meanings(Dictionary, received \o t)[Len(taken) + n + 1])
    <2> DEFINE s == received \o t
    <2>1. /\ Len(taken) + 1 \in 1..Len(s) /\ s[Len(taken) + 1] = Head(text)
          /\ Len(s) = Len(taken) + Len(text) + Len(t) /\ s \in Seq(Chars)
        BY <1>0, WhereTextIs
    <2>2. SequencesAt(Dictionary, s, Len(taken) + 1) = Candidates
        BY <1>0, SequencesAreCandidates
    <2> HIDE DEF s
    <2>3. Len(taken) \in Nat /\ Len(text) \in Nat /\ Len(t) \in Nat /\ max_sequence_length \in Nat
        BY LenProperties DEF IInv, TypeOK
    <2>4. PICK p \in 1..Len(s) : p = Len(taken) + 1
        BY <2>1
    <2>5. HasLines(Dictionary)
        BY DictionaryHasLines DEF IInv
    <2>6. SequencesAt(Dictionary, s, p) = Candidates /\ SequencesAt(Dictionary, s, p) # {}
        BY <2>2, <2>4
    <2>7. /\ Shortest(SequencesAt(Dictionary, s, p)) \in SequencesAt(Dictionary, s, p)
          /\ \A m \in SequencesAt(Dictionary, s, p) :
                Len(Shortest(SequencesAt(Dictionary, s, p)).left) <= Len(m.left)
        BY <2>1, <2>5, <2>6, ShortestAt
    <2>8. line = Shortest(SequencesAt(Dictionary, s, p))
        <3> DEFINE other == Shortest(SequencesAt(Dictionary, s, p))
        <3>1. other \in Candidates /\ \A l \in Candidates : Len(other.left) <= Len(l.left)
            BY <2>6, <2>7
        <3> HIDE DEF other
        <3>2. line = other
            BY <1>1, <3>1, ShortestIsUnique DEF IInv
        <3> QED
            BY <3>2 DEF other
    <2>9. ~ (p > Len(s)) /\ p + n = Len(taken) + n + 1
        BY <2>1, <2>3, <2>4
    <2>10. ~ (s[p] \in Dictionary.starts /\ Len(s) - p + 1 < Dictionary.longest)
        <3>1. Dictionary.longest = max_sequence_length
            BY DEF Dictionary
        <3> QED
            BY <1>0, <3>1, <2>1, <2>3, <2>4
    <2>11. MeaningAt(Dictionary, s, p, Meanings(Dictionary, s))
             = Followed(line.right, Meanings(Dictionary, s)[p + n])
        BY <1>2, <2>6, <2>8, <2>9, <2>10 DEF MeaningAt
    <2> QED
        BY <2>4, <2>9, <2>11 DEF s
<1> QED
    BY <1>0, <1>1, <1>2, <1>3, <1>4, <1>5, TypingAgrees

\* Where nothing is received there is nothing to agree on.
LEMMA AgreesAtFirst ==
    TypeOK /\ received = <<>> /\ typed = <<>> /\ taken = <<>> => Agrees
<1> SUFFICES ASSUME TypeOK, received = <<>>, typed = <<>>, taken = <<>> PROVE Agrees
    OBVIOUS
<1>1. SUFFICES ASSUME NEW t \in Seq(Chars) PROVE AgreesFor(t)
    BY DEF Agrees
<1>2. received \o t = t
    BY ConcatEmptySeq
<1>3. 1 \in 1..(Len(t) + 1) /\ Len(taken) + 1 = 1
    BY LenProperties, EmptySeq
<1>4. Meanings(Dictionary, t)[1] \in Readings
    BY <1>3, DictionaryHasLines, MeaningsFacts
<1> QED
    BY <1>2, <1>3, <1>4, NothingPrefixed DEF AgreesFor

\* The maps stay maps while they are read.
LEMMA LinesStep == TypeOK /\ LinesAreUnique /\ [Next]_vars => LinesAreUnique'
<1> SUFFICES ASSUME TypeOK, LinesAreUnique, [Next]_vars PROVE LinesAreUnique'
    OBVIOUS
<1>1. CASE UNCHANGED mapVars
    BY <1>1 DEF mapVars, LinesAreUnique
<1>2. CASE ReadCharLine
    BY <1>2 DEF ReadCharLine, Put, LinesAreUnique
<1>3. CASE ReadSequenceLine
    BY <1>3 DEF ReadSequenceLine, Put, LinesAreUnique
<1>4. CASE charmap' = {} /\ specialmap' = {}
    BY <1>4 DEF LinesAreUnique
<1>5. CASE UNCHANGED vars
    BY <1>1, <1>5 DEF vars
<1>6. CASE ActOnData
    BY <1>1, <1>6 DEF ActOnData, PlainChar, KeepRest, TypeSequence, StartingChar, TypeChar
<1>7. ASSUME NEW piece \in Pieces, Receive(piece) PROVE UNCHANGED mapVars
    BY <1>7 DEF Receive
<1>8. ASSUME NEW file \in Charmaps, Reread(file) PROVE charmap' = {} /\ specialmap' = {}
    BY <1>8 DEF Reread, Restart
<1> QED
    BY <1>1, <1>2, <1>3, <1>4, <1>5, <1>6, <1>7, <1>8
       DEF Next, ReadLine, Connect, Disconnect, RereadFails, Restart

\* The invariant of what is typed holds at the start.
LEMMA ReadInit == Init => ReadInv
<1> SUFFICES ASSUME Init PROVE ReadInv
    OBVIOUS
<1>1. IInv /\ TypeOK
    BY IInvInit DEF IInv
<1>2. received = <<>> /\ typed = <<>> /\ taken = <<>> /\ charmap = {} /\ specialmap = {}
    BY DEF Init
<1>3. Agrees
    BY <1>1, <1>2, AgreesAtFirst
<1> QED
    BY <1>1, <1>2, <1>3 DEF ReadInv, LinesAreUnique, NothingTypedYet

\* A step that leaves what was received and typed alone keeps the agreement.
LEMMA StillAgrees ==
    ASSUME Agrees, UNCHANGED <<mapVars, received, typed, taken>>
    PROVE  Agrees'
<1>1. Dictionary' = Dictionary
    BY DEF Dictionary, mapVars
<1> QED
    BY <1>1 DEF Agrees, AgreesFor

\* More text is one of the ways in which the text may go on.
LEMMA ReceiveAgrees ==
    ASSUME TypeOK, Agrees, NEW piece \in Seq(Chars), received' = received \o piece,
           UNCHANGED <<mapVars, typed, taken>>
    PROVE  Agrees'
<1>1. Dictionary' = Dictionary
    BY DEF Dictionary, mapVars
<1>2. ASSUME NEW t \in Seq(Chars) PROVE AgreesFor(t)'
    <2>1. PICK u \in Seq(Chars) : u = piece \o t
        BY ConcatProperties
    <2>2. (received \o piece) \o t = received \o (piece \o t)
        <3>1. received \in Seq(Chars)
            BY DEF TypeOK
        <3> QED
            BY <3>1, TextsJoin
    <2>3. received' \o t = received \o u
        BY <2>1, <2>2
    <2>4. AgreesFor(u)
        BY DEF Agrees
    <2> QED
        BY <1>1, <2>3, <2>4 DEF AgreesFor
<1> QED
    BY <1>2 DEF Agrees

\* Every step keeps the invariant of what is typed.
LEMMA ReadStep == ReadInv /\ [Next]_vars => ReadInv'
<1> SUFFICES ASSUME ReadInv, [Next]_vars PROVE ReadInv'
    OBVIOUS
<1>0. /\ IInv /\ IInv' /\ TypeOK /\ TypeOK' /\ LinesAreUnique /\ LinesAreUnique'
      /\ Agrees /\ NothingTypedYet
    BY IInvStep, LinesStep DEF ReadInv, IInv
<1>a. ASSUME Agrees', NothingTypedYet' PROVE ReadInv'
    BY Zenon, <1>0, <1>a DEF ReadInv
<1>b. ASSUME UNCHANGED <<toRead, typed>> PROVE NothingTypedYet'
    BY <1>0, <1>b DEF NothingTypedYet, Serving
<1>1. CASE UNCHANGED vars
    <2>1. Agrees'
        BY <1>0, <1>1, StillAgrees DEF vars, textVars
    <2> QED
        BY <1>a, <1>b, <1>1, <2>1 DEF vars, textVars
<1>2. CASE ReadLine
    <2>1. ~ Serving /\ UNCHANGED textVars
        BY <1>2 DEF ReadLine, ReadCharLine, ReadSequenceLine, Serving
    <2>2. received = <<>> /\ taken = <<>> /\ typed = <<>>
        BY <1>0, <2>1 DEF IInv, CallsAlternate, NothingTypedYet
    <2>3. received' = <<>> /\ taken' = <<>> /\ typed' = <<>>
        BY <2>1, <2>2 DEF textVars
    <2>4. Agrees'
        <3>1. (TypeOK /\ received = <<>> /\ typed = <<>> /\ taken = <<>>)' => Agrees'
            BY AgreesAtFirst, PTL
        <3> QED
            BY <1>0, <2>3, <3>1
    <2> QED
        BY <1>a, <2>3, <2>4 DEF NothingTypedYet
<1>3. CASE ActOnData
    <2>1. text # <<>> /\ Serving /\ UNCHANGED toRead
        BY <1>0, <1>3, AccountInCall DEF ActOnData, PlainChar, KeepRest, TypeSequence,
                                         StartingChar, Starting, TypeChar
    <2>2. ASSUME PlainChar PROVE Agrees'
        <3>1. TypeChar /\ ~Starting
            BY <2>2 DEF PlainChar
        <3>2. \A t \in Seq(Chars) : SequencesAt(Dictionary, received \o t, Len(taken) + 1) = {}
            BY <1>0, <2>1, <3>1, NoneWithoutStart
        <3> QED
            BY <1>0, <2>1, <3>1, <3>2, CharAgrees
    <2>3. ASSUME StartingChar PROVE Agrees'
        <3>1. TypeChar /\ Len(text) >= max_sequence_length /\ Candidates = {}
            BY <2>3 DEF StartingChar
        <3>2. \A t \in Seq(Chars) : SequencesAt(Dictionary, received \o t, Len(taken) + 1) = {}
            BY <1>0, <2>1, <3>1, SequencesAreCandidates
        <3> QED
            BY <1>0, <2>1, <3>1, <3>2, CharAgrees
    <2>4. ASSUME TypeSequence PROVE Agrees'
        BY <1>0, <2>4, SequenceAgrees
    <2>5. ASSUME KeepRest PROVE Agrees'
        BY <1>0, <2>5, StillAgrees DEF KeepRest
    <2>6. Agrees'
        BY <1>3, <2>2, <2>3, <2>4, <2>5 DEF ActOnData
    <2> QED
        BY <1>a, <2>1, <2>6 DEF NothingTypedYet, Serving
<1>4. CASE Connect \/ Disconnect
    <2>1. UNCHANGED <<toRead, mapVars, textVars>>
        BY <1>4 DEF Connect, Disconnect
    <2>2. Agrees'
        BY <1>0, <2>1, StillAgrees DEF textVars
    <2> QED
        BY <1>a, <1>b, <2>1, <2>2 DEF textVars
<1>5. ASSUME NEW piece \in Pieces, Receive(piece) PROVE ReadInv'
    <2>1. piece \in Seq(Chars)
        BY CharmapsAreFiles
    <2>2. Agrees'
        BY <1>0, <1>5, <2>1, ReceiveAgrees DEF Receive
    <2> QED
        BY <1>a, <1>b, <1>5, <2>2 DEF Receive
<1>6. CASE Restart
    <2>1. received' = <<>> /\ taken' = <<>> /\ typed' = <<>>
        BY <1>6 DEF Restart
    <2>2. Agrees'
        <3>1. (TypeOK /\ received = <<>> /\ typed = <<>> /\ taken = <<>>)' => Agrees'
            BY AgreesAtFirst, PTL
        <3> QED
            BY <1>0, <2>1, <3>1
    <2> QED
        BY <1>a, <2>1, <2>2 DEF NothingTypedYet
<1> QED
    BY <1>1, <1>2, <1>3, <1>4, <1>5, <1>6 DEF Next, Reread, RereadFails

\* At the end of a call nothing is left to look at but what is kept.
LEMMA ReadToTheEnd ==
    ASSUME ReadInv, Serving, text = <<>>
    PROVE  Meaning(received) = [out |-> typed, wait |-> Len(buffer)]
<1>0. /\ received \in Seq(Chars) /\ taken \in Seq(Chars) /\ buffer \in Seq(Chars)
      /\ typed \in Seq(Outputs \cup {Unmapped})
    BY DEF ReadInv, IInv, TypeOK
<1>1. received = taken \o buffer
    <2>1. taken \o buffer \in Seq(Chars)
        BY <1>0, ConcatProperties
    <2>2. (taken \o buffer) \o <<>> = taken \o buffer
        BY <2>1, ConcatEmptySeq
    <2> QED
        BY <2>2 DEF ReadInv, IInv, NothingLost
<1>2. /\ Len(received) = Len(taken) + Len(buffer)
      /\ \A i \in 1..(Len(taken) + Len(buffer)) :
            received[i] = IF i <= Len(taken) THEN taken[i] ELSE buffer[i - Len(taken)]
    BY <1>0, <1>1, ConcatProperties
<1>3. Len(taken) \in Nat /\ Len(buffer) \in Nat
    BY <1>0, LenProperties
<1>4. received \o <<>> = received
    BY <1>0, ConcatEmptySeq
<1> DEFINE r == Meanings(Dictionary, received)
<1>5. r[1] = Prefixed(typed, r[Len(taken) + 1])
    <2>1. AgreesFor(<<>>)
        BY EmptySeq DEF ReadInv, Agrees
    <2> QED
        BY <1>4, <2>1 DEF AgreesFor
<1>6. r[Len(taken) + 1] = MeaningAt(Dictionary, received, Len(taken) + 1, r)
    <2>1. Len(taken) + 1 \in 1..(Len(received) + 1)
        BY <1>2, <1>3
    <2> QED
        BY <1>0, <2>1, DictionaryHasLines, MeaningsFacts DEF ReadInv, IInv
<1> HIDE DEF r
<1>7. r[Len(taken) + 1] = [out |-> <<>>, wait |-> Len(buffer)]
    <2>1. CASE buffer = <<>>
        <3>1. Len(taken) + 1 > Len(received) /\ Len(buffer) = 0
            BY <1>2, <1>3, <2>1, EmptySeq
        <3> QED
            BY <1>6, <3>1 DEF MeaningAt
    <2>2. CASE buffer # <<>>
        <3>1. Len(buffer) < max_sequence_length /\ buffer[1] \in sequence_starting_chars
            BY <2>2 DEF ReadInv, IInv, BufferIsShort
        <3>2. Len(buffer) > 0
            BY <1>0, <2>2, EmptySeq
        <3>3. /\ ~ (Len(taken) + 1 > Len(received))
              /\ Len(received) - (Len(taken) + 1) + 1 = Len(buffer)
              /\ Len(taken) + 1 \in 1..(Len(taken) + Len(buffer))
              /\ ~ (Len(taken) + 1 <= Len(taken))
              /\ (Len(taken) + 1) - Len(taken) = 1
            BY <1>2, <1>3, <3>2
        <3>4. received[Len(taken) + 1] = buffer[1]
            BY <1>2, <3>3
        <3>5. received[Len(taken) + 1] \in Dictionary.starts
              /\ Len(received) - (Len(taken) + 1) + 1 < Dictionary.longest
            BY <3>1, <3>3, <3>4 DEF Dictionary
        <3> QED
            BY <1>6, <3>3, <3>5 DEF MeaningAt
    <2> QED
        BY <2>1, <2>2
<1>8. typed \o <<>> = typed
    BY <1>0, ConcatEmptySeq
<1>9. r[1] = [out |-> typed, wait |-> Len(buffer)]
    BY <1>5, <1>7, <1>8 DEF Prefixed
<1> QED
    BY <1>9 DEF r, Meaning

\* Between two calls what is kept is the end of what was received.
LEMMA BufferIsEnd ==
    ASSUME IInv, text = <<>>
    PROVE  buffer = SubSeq(received, Len(received) - Len(buffer) + 1, Len(received))
<1>0. received \in Seq(Chars) /\ taken \in Seq(Chars) /\ buffer \in Seq(Chars)
    BY DEF IInv, TypeOK
<1>1. received = taken \o buffer
    <2>1. taken \o buffer \in Seq(Chars)
        BY <1>0, ConcatProperties
    <2>2. (taken \o buffer) \o <<>> = taken \o buffer
        BY <2>1, ConcatEmptySeq
    <2> QED
        BY <2>2 DEF IInv, NothingLost
<1>2. Len(received) = Len(taken) + Len(buffer)
    BY <1>0, <1>1, ConcatProperties
<1>3. Len(taken) \in Nat /\ Len(buffer) \in Nat
    BY <1>0, LenProperties
<1>4. CASE buffer = <<>>
    <2>1. Len(received) - Len(buffer) + 1 > Len(received) /\ Len(received) \in Int
        BY <1>2, <1>3, <1>4, EmptySeq
    <2> QED
        BY <1>4, <2>1, SubSeqEmpty
<1>5. CASE buffer # <<>>
    <2>1. Len(buffer) \in 1..Len(buffer) /\ Len(received) - Len(buffer) + 1 = Len(taken) + 1
        BY <1>0, <1>2, <1>3, <1>5, EmptySeq
    <2>2. SubSeq((taken \o buffer) \o <<>>, Len(taken) + 1, Len(taken) + Len(buffer))
             = SubSeq(buffer, 1, Len(buffer))
        <3>1. PICK none \in Seq(Chars) : none = <<>>
            BY EmptySeq
        <3>2. \A n \in 1..Len(buffer) :
                 SubSeq((taken \o buffer) \o none, Len(taken) + 1, Len(taken) + n)
                    = SubSeq(buffer, 1, n)
            BY <1>0, <1>5, TextInside
        <3> QED
            BY <2>1, <3>1, <3>2
    <2>3. (taken \o buffer) \o <<>> = received
        BY <1>0, <1>1, ConcatEmptySeq
    <2>4. SubSeq(buffer, 1, Len(buffer)) = buffer
        BY <1>0, SubSeqFull
    <2> QED
        BY <1>2, <2>1, <2>2, <2>3, <2>4
<1> QED
    BY <1>4, <1>5

\* Where the network cuts a text, and where one client ends and the next
\* begins, makes no difference to what actOnData() types and keeps, whatever
\* the charmap and however long the text.
THEOREM ChunksThm == Spec => []ChunksDoNotMatter
<1>1. ReadInv => ChunksDoNotMatter
    <2> SUFFICES ASSUME ReadInv, Serving, text = <<>>
                 PROVE  /\ typed = Meaning(received).out
                        /\ buffer = SubSeq(received, Len(received) - Meaning(received).wait + 1,
                                           Len(received))
        BY DEF ChunksDoNotMatter
    <2>1. Meaning(received).out = typed /\ Meaning(received).wait = Len(buffer)
        BY ReadToTheEnd
    <2>2. buffer = SubSeq(received, Len(received) - Len(buffer) + 1, Len(received))
        BY BufferIsEnd DEF ReadInv
    <2> QED
        BY <2>1, <2>2
<1>2. Spec => []ReadInv
    BY ReadInit, ReadStep, PTL DEF Spec
<1> QED
    BY <1>1, <1>2, PTL
=============================================================================
