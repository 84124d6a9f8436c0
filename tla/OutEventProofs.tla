--------------------------- MODULE OutEventProofs ---------------------------
(***************************************************************************)
(* What an output definition can make of an event: writes of the codes it  *)
(* mentions to virtual devices there are, and itself as an output of the   *)
(* same kind and code; and what it leaves pressed until its input key is   *)
(* released.  No state: TranslationProofs builds on it.                    *)
(***************************************************************************)
EXTENDS OutEvent, LeastNumber, SequenceTheorems

-----------------------------------------------------------------------------
(* Sequences.                                                              *)

\* The unfinished concatenations of FlattenSeq().
Partial(f, ss, m) ==
    /\ f = [i \in 1..m |-> f[i]]
    /\ \A i \in 1..m : f[i] = IF i = 1 THEN ss[i] ELSE f[i - 1] \o ss[i]

\* There is one up to any part of the sequence.
LEMMA PartialExists ==
    ASSUME NEW T, NEW ss \in Seq(Seq(T)), NEW n \in Nat, n <= Len(ss)
    PROVE  \E f : Partial(f, ss, n)
<1> DEFINE Bad == {m \in 0..n : ~ \E f : Partial(f, ss, m)}
<1> SUFFICES ASSUME Bad # {} PROVE FALSE
  <2>1. n \in 0..n
    OBVIOUS
  <2> QED BY <2>1
<1>1. PICK m \in Bad : \A j \in Bad : m <= j
  <2> HIDE DEF Bad
  <2>1. Bad \in SUBSET (0..n)
    BY DEF Bad
  <2> QED BY <2>1, Smallest
<1>2. CASE m = 0
  <2>1. Partial([i \in 1..0 |-> i], ss, 0)
    BY DEF Partial
  <2> QED BY <2>1, <1>2
<1>3. CASE m # 0
  <2>1. m \in 1..n /\ m - 1 \in 0..n
    BY <1>3
  <2>2. PICK f : Partial(f, ss, m - 1)
    <3>1. m - 1 \notin Bad
      <4> HIDE DEF Bad
      <4> SUFFICES ASSUME m - 1 \in Bad PROVE FALSE
        OBVIOUS
      <4>1. m <= m - 1
        BY <1>1
      <4> QED BY <4>1, <2>1
    <3> QED BY <2>1, <3>1
  <2> DEFINE g == [i \in 1..m |-> IF i < m THEN f[i]
                                  ELSE IF i = 1 THEN ss[i] ELSE f[i - 1] \o ss[i]]
  <2>3. Partial(g, ss, m)
    <3>1. g = [i \in 1..m |-> g[i]]
      OBVIOUS
    <3>2. ASSUME NEW i \in 1..m
          PROVE  g[i] = IF i = 1 THEN ss[i] ELSE g[i - 1] \o ss[i]
      <4>1. CASE i < m
        <5>1. i \in 1..(m - 1) /\ g[i] = f[i]
          BY <4>1, <2>1
        <5>2. i # 1 => g[i - 1] = f[i - 1]
          BY <4>1, <2>1
        <5> QED BY <5>1, <5>2, <2>2 DEF Partial
      <4>2. CASE i = m
        <5>1. i # 1 => i - 1 \in 1..m /\ i - 1 < m
          BY <4>2, <2>1
        <5>2. i # 1 => g[i - 1] = f[i - 1]
          BY <5>1
        <5>3. g[i] = IF i = 1 THEN ss[i] ELSE f[i - 1] \o ss[i]
          BY <4>2, <2>1
        <5> QED BY <5>2, <5>3
      <4> QED BY <4>1, <4>2, <2>1
    <3> HIDE DEF g
    <3> QED BY <3>1, <3>2 DEF Partial
  <2> HIDE DEF g
  <2> QED BY <2>3
<1> QED BY <1>2, <1>3

\* What is flattened has the elements of its parts.
LEMMA FlattenSeqIn ==
    ASSUME NEW T, NEW ss \in Seq(Seq(T))
    PROVE  FlattenSeq(ss) \in Seq(T)
<1>1. CASE Len(ss) = 0
  BY <1>1 DEF FlattenSeq
<1>2. CASE Len(ss) # 0
  <2> DEFINE n == Len(ss)
             F(f) == f = [i \in 1..n |-> IF i = 1 THEN ss[i] ELSE f[i - 1] \o ss[i]]
             flatten == CHOOSE f : F(f)
             Bad == {m \in 0..n : m # 0 /\ flatten[m] \notin Seq(T)}
  <2>1. n \in Nat
    OBVIOUS
  <2>2. \E f : F(f)
    <3>1. PICK f : Partial(f, ss, n)
      BY <2>1, PartialExists
    <3>2. \A i \in 1..n : f[i] = IF i = 1 THEN ss[i] ELSE f[i - 1] \o ss[i]
      BY <3>1 DEF Partial
    <3>3. f = [i \in 1..n |-> f[i]]
      BY <3>1 DEF Partial
    <3> QED BY <3>2, <3>3
  <2>3. F(flatten)
    <3> HIDE DEF F
    <3> QED BY <2>2
  <2>4. FlattenSeq(ss) = flatten[n]
    BY <1>2 DEF FlattenSeq
  <2>5. \A i \in 1..n : flatten[i] = IF i = 1 THEN ss[i] ELSE flatten[i - 1] \o ss[i]
    <3> HIDE DEF flatten
    <3> QED BY <2>3
  <2>6. Bad = {}
    <3> HIDE DEF flatten
    <3> SUFFICES ASSUME Bad # {} PROVE FALSE
      OBVIOUS
    <3>1. PICK m \in Bad : \A j \in Bad : m <= j
      <4>1. Bad \in SUBSET (0..n)
        OBVIOUS
      <4> HIDE DEF Bad
      <4> QED BY <4>1, <2>1, Smallest
    <3>2. m \in 1..n /\ ss[m] \in Seq(T)
      BY <2>1
    <3>3. m # 1
      BY <3>2, <2>5
    <3>4. flatten[m - 1] \in Seq(T)
      BY <3>1, <3>2, <3>3
    <3>5. flatten[m] = flatten[m - 1] \o ss[m]
      BY <3>2, <3>3, <2>5
    <3> QED BY <3>2, <3>4, <3>5, ConcatProperties
  <2> HIDE DEF flatten
  <2> QED BY <2>1, <2>4, <2>6, <1>2
<1> QED BY <1>1, <1>2

-----------------------------------------------------------------------------
(* The kinds of outputs.                                                   *)

\* What Max() is where a rate is bounded.
LEMMA MaxOfTwo ==
    ASSUME NEW m \in Nat
    PROVE  /\ Max({1, m}) \in Nat
           /\ 1 <= Max({1, m}) /\ m <= Max({1, m})
<1> DEFINE M(x) == x \in {1, m} /\ \A y \in {1, m} : x >= y
<1>1. \E x : M(x)
  <2>1. CASE m <= 1
    <3>1. M(1)
      BY <2>1
    <3> QED BY <3>1
  <2>2. CASE m > 1
    <3>1. M(m)
      BY <2>2
    <3> QED BY <3>1
  <2> QED BY <2>1, <2>2
<1>2. M(CHOOSE x : M(x))
  <2> HIDE DEF M
  <2> QED BY <1>1
<1>3. Max({1, m}) = CHOOSE x : M(x)
  BY DEF Max
<1> QED BY <1>2, <1>3

\* Codes of C make writes of C, local or not.
LEMMA WriteIn ==
    ASSUME NEW C, NEW dev \in VDevices, NEW evs \in Seq(EventsOn(C) \cup {Junk})
    PROVE  /\ WriteTo(dev, evs) \in WritesOn(C)
           /\ Local(WriteTo(dev, evs)) \in WritesOn(C)
BY DEF WriteTo, Local, WritesOn

\* sendSimple() is one write.
LEMMA SendSimpleIn ==
    ASSUME NEW C, NEW out, out.type \in Types, out.code \in C, NEW value \in Int
    PROVE  /\ SendSimple(out, value) \in Seq(WritesOn(C))
           /\ Len(SendSimple(out, value)) = 1
           /\ SendSimple(out, value)[1] \in WritesOn(C)
<1>1. SimpleDevice(out.type, out.code) \in VDevices
  BY DEF SimpleDevice, VDevices, Types
<1>2. Event(out.type, out.code, value) \in EventsOn(C)
  BY DEF Event, EventsOn
<1>3. << Event(out.type, out.code, value) >> \in Seq(EventsOn(C) \cup {Junk})
  BY <1>2
<1>4. WriteTo(SimpleDevice(out.type, out.code), << Event(out.type, out.code, value) >>)
          \in WritesOn(C)
  BY <1>1, <1>3, WriteIn
<1> QED BY <1>4 DEF SendSimple

\* The array of a combo has one element more than it has modifiers.
LEMMA ComboEventsIn ==
    ASSUME NEW C, NEW out, out.code \in C, out.mods \in Seq(C), NEW value \in Int
    PROVE  /\ ComboEvents(out, value) \in Seq(EventsOn(C) \cup {Junk})
           /\ Len(ComboEvents(out, value)) = Len(out.mods) + 1
<1> DEFINE E    == EventsOn(C) \cup {Junk}
           key  == Event("KEY", out.code, value)
           mods == [i \in DOMAIN out.mods |-> Event("KEY", out.mods[i], value)]
           rest == [i \in DOMAIN out.mods |-> Junk]
<1>1. key \in E
  BY DEF Event, EventsOn, Types
<1>2. <<key>> \in Seq(E) /\ Len(<<key>>) = 1
  BY <1>1
<1>3. mods \in Seq(E) /\ Len(mods) = Len(out.mods)
  <2>1. \A i \in DOMAIN out.mods : Event("KEY", out.mods[i], value) \in E
    BY DEF Event, EventsOn, Types
  <2> QED BY <2>1
<1>4. rest \in Seq(E) /\ Len(rest) = Len(out.mods)
  OBVIOUS
<1>5. ComboEvents(out, value) = IF value # 2 THEN mods \o <<key>> ELSE <<key>> \o rest
  BY DEF ComboEvents
<1>6. Len(out.mods) \in Nat
  OBVIOUS
<1> HIDE DEF E, key, mods, rest
<1>7. mods \o <<key>> \in Seq(E) /\ Len(mods \o <<key>>) = Len(out.mods) + 1
  BY <1>2, <1>3, <1>6, ConcatProperties
<1>8. <<key>> \o rest \in Seq(E) /\ Len(<<key>> \o rest) = Len(out.mods) + 1
  BY <1>2, <1>4, <1>6, ConcatProperties
<1> QED BY <1>5, <1>7, <1>8 DEF E

\* sendCombo() writes nothing but the key and its modifiers.
LEMMA SendComboIn ==
    ASSUME NEW C, NEW out, out.code \in C, out.mods \in Seq(C), NEW value \in Int
    PROVE  SendCombo(out, value) \in Seq(WritesOn(C))
<1> DEFINE evs == ComboEvents(out, value)
           E   == EventsOn(C) \cup {Junk}
<1>1. evs \in Seq(E) /\ Len(evs) = Len(out.mods) + 1 /\ Len(out.mods) \in Nat
  <2>1. Len(out.mods) \in Nat
    OBVIOUS
  <2>2. /\ ComboEvents(out, value) \in Seq(EventsOn(C) \cup {Junk})
        /\ Len(ComboEvents(out, value)) = Len(out.mods) + 1
    BY ComboEventsIn
  <2> QED BY <2>1, <2>2
<1>2. SubSeq(evs, 1, Len(out.mods)) \in Seq(E)
  <2>1. \A i \in 1..Len(out.mods) : evs[i] \in E
    <3> HIDE DEF evs, E
    <3> QED BY <1>1
  <2> HIDE DEF evs, E
  <2> QED BY <1>1, <2>1, SubSeqProperties
<1>3. << Event("KEY", out.code, value) >> \in Seq(E)
  BY DEF Event, EventsOn, Types
<1>4. "kbd" \in VDevices /\ "mouse" \in VDevices
  BY DEF VDevices
<1>5. /\ WriteTo("kbd", SubSeq(evs, 1, Len(out.mods))) \in WritesOn(C)
      /\ Local(WriteTo("mouse", << Event("KEY", out.code, value) >>)) \in WritesOn(C)
      /\ WriteTo("kbd", evs) \in WritesOn(C)
  <2> HIDE DEF evs
  <2> QED BY <1>1, <1>2, <1>3, <1>4, WriteIn
<1> QED BY <1>5 DEF SendCombo

\* sendMacro() for one part, and for all of them.
LEMMA PartOpsIn ==
    ASSUME NEW C, NEW part \in PartsOn(C)
    PROVE  PartOps(part) \in Seq(WritesOn(C))
<1>1. /\ part.type \in Types /\ part.code \in C /\ part.mods \in Seq(C)
      /\ part.value \in Int
  BY DEF PartsOn
<1>2. SendSimple(part, part.value) \in Seq(WritesOn(C))
  BY <1>1, SendSimpleIn
<1>3. SendCombo(part, 1) \in Seq(WritesOn(C)) /\ SendCombo(part, 0) \in Seq(WritesOn(C))
  BY <1>1, SendComboIn
<1>4. SendCombo(part, 1) \o SendCombo(part, 0) \in Seq(WritesOn(C))
  BY <1>3, ConcatProperties
<1> QED BY <1>2, <1>4 DEF PartOps

\* A macro writes what its parts write.
LEMMA MacroOpsIn ==
    ASSUME NEW C, NEW parts \in Seq(PartsOn(C))
    PROVE  MacroOps(parts) \in Seq(WritesOn(C))
<1>1. \A i \in DOMAIN parts : PartOps(parts[i]) \in Seq(WritesOn(C))
  BY PartOpsIn
<1>2. [i \in DOMAIN parts |-> PartOps(parts[i])] \in Seq(Seq(WritesOn(C)))
  BY <1>1
<1> QED BY <1>2, FlattenSeqIn DEF MacroOps

-----------------------------------------------------------------------------
(* OutEvent::send().                                                       *)

\* The writes of an output, and the output itself after them.
Fine(C, r, out) ==
    /\ r.ops \in Seq(WritesOn(C))
    /\ r.out \in OutputsOn(C)
    /\ r.out.kind = out.kind /\ r.out.type = out.type /\ r.out.code = out.code
    /\ r.out.mods = out.mods /\ r.out.parts = out.parts

\* An output has fields of their types.
LEMMA OutputFields ==
    ASSUME NEW C, NEW out \in OutputsOn(C)
    PROVE  /\ out.kind \in Kinds /\ out.type \in Types /\ out.code \in C
           /\ out.mods \in Seq(C) /\ out.parts \in Seq(PartsOn(C))
           /\ out.custom \in {0, 1} /\ out.sent \in {0, 1, 2}
           /\ out.rate \in Nat /\ out.count \in Nat /\ out.step \in Nat
           /\ out.max \in Nat /\ out.min \in Nat
           /\ out.rate <= Max({1, out.max}) /\ out.count <= out.min
           /\ out.kind = "Debounce" => out.type = "KEY"
BY DEF OutputsOn

\* One simple write, whatever the output remembers of it.
LEMMA SimpleFine ==
    ASSUME NEW C, NEW out \in OutputsOn(C), NEW new \in OutputsOn(C), NEW value \in Int,
           new.kind = out.kind, new.type = out.type, new.code = out.code,
           new.mods = out.mods, new.parts = out.parts
    PROVE  Fine(C, Sends(SendSimple(out, value), new), out)
<1>1. SendSimple(out, value) \in Seq(WritesOn(C))
  BY OutputFields, SendSimpleIn
<1> QED BY <1>1 DEF Fine, Sends

\* Autofire keeps the halves of a click apart.
LEMMA SendRepeatFine ==
    ASSUME NEW C, NEW out \in OutputsOn(C), NEW value \in Int
    PROVE  Fine(C, SendRepeat(out, value), out)
<1>1. out.custom \in {0, 1}
  BY OutputFields
<1>2. CASE value = 1
  <2> DEFINE new == [out EXCEPT !.custom = 0]
  <2>1. new \in OutputsOn(C) /\ new.kind = out.kind /\ new.type = out.type
        /\ new.code = out.code /\ new.mods = out.mods /\ new.parts = out.parts
    BY DEF OutputsOn
  <2>2. SendRepeat(out, value) = Sends(SendSimple(out, 1), new)
    BY <1>2 DEF SendRepeat
  <2> HIDE DEF new
  <2> QED BY <2>1, <2>2, SimpleFine
<1>3. CASE value = 2
  <2> DEFINE new == [out EXCEPT !.custom = 1 - out.custom]
  <2>1. new \in OutputsOn(C) /\ new.kind = out.kind /\ new.type = out.type
        /\ new.code = out.code /\ new.mods = out.mods /\ new.parts = out.parts
    <3> DEFINE other == 1 - out.custom
    <3>1. other \in {0, 1}
      BY <1>1
    <3>2. new = [out EXCEPT !.custom = other]
      OBVIOUS
    <3> HIDE DEF other, new
    <3> QED BY <3>1, <3>2 DEF OutputsOn
  <2>2. SendRepeat(out, value) = Sends(SendSimple(out, out.custom), new)
    BY <1>3 DEF SendRepeat
  <2> HIDE DEF new
  <2> QED BY <1>1, <2>1, <2>2, SimpleFine
<1>4. CASE value # 1 /\ value # 2
  <2>1. Fine(C, Sends(SendSimple(out, 0), out), out)
    BY SimpleFine
  <2> QED BY <2>1, <1>4 DEF SendRepeat
<1> QED BY <1>2, <1>3, <1>4

\* What is debounced remembers the value of a key.
LEMMA SendDebouncedFine ==
    ASSUME NEW C, NEW out \in OutputsOn(C), NEW value \in {0, 1, 2}, NEW short \in BOOLEAN
    PROVE  Fine(C, SendDebounced(out, value, short), out)
<1> DEFINE new == [out EXCEPT !.sent = value]
<1>1. Fine(C, Sends(SendSimple(out, value), new), out)
  <2>1. new \in OutputsOn(C) /\ new.kind = out.kind /\ new.type = out.type
        /\ new.code = out.code /\ new.mods = out.mods /\ new.parts = out.parts
    BY DEF OutputsOn
  <2> HIDE DEF new
  <2> QED BY <2>1, SimpleFine
<1>2. Fine(C, Sends(<<>>, out), out)
  BY DEF Fine, Sends
<1> QED BY <1>1, <1>2 DEF SendDebounced

\* The rate stays below maxRate, or is 1, and the counter below
\* minKeyPresses.
LEMMA SendAcceleratedFine ==
    ASSUME NEW C, NEW out \in OutputsOn(C), NEW value \in Int, NEW short \in BOOLEAN
    PROVE  Fine(C, SendAccelerated(out, value, short), out)
<1> DEFINE count == IF out.count < out.min THEN out.count + 1 ELSE out.min
           rate  == IF count < out.min THEN out.rate
                    ELSE IF out.rate + out.step > out.max THEN out.max
                    ELSE out.rate + out.step
           again == [i \in 1..(2 * rate) |->
                        SendSimple(out, IF i % 2 = 1 THEN 0 ELSE value)[1]]
           first == [out EXCEPT !.count = 0, !.rate = 1]
           next  == [out EXCEPT !.count = count, !.rate = rate]
<1>1. /\ out.count \in Nat /\ out.min \in Nat /\ out.rate \in Nat /\ out.step \in Nat
      /\ out.max \in Nat /\ out.rate <= Max({1, out.max})
      /\ Max({1, out.max}) \in Nat /\ 1 <= Max({1, out.max})
      /\ out.max <= Max({1, out.max})
  BY OutputFields, MaxOfTwo
<1>2. count \in Nat /\ count <= out.min
  BY <1>1
<1>3. rate \in Nat /\ rate <= Max({1, out.max})
  BY <1>1, <1>2
<1>4. CASE ~short
  <2>1. first \in OutputsOn(C) /\ first.kind = out.kind /\ first.type = out.type
        /\ first.code = out.code /\ first.mods = out.mods /\ first.parts = out.parts
    <3> DEFINE zero == 0
               one  == 1
    <3>1. zero \in Nat /\ zero <= out.min /\ one \in Nat /\ one <= Max({1, out.max})
      BY <1>1
    <3>2. first = [out EXCEPT !.count = zero, !.rate = one]
      OBVIOUS
    <3> HIDE DEF zero, one, first
    <3> QED BY <3>1, <3>2 DEF OutputsOn
  <2>2. SendAccelerated(out, value, short) = Sends(SendSimple(out, value), first)
    BY <1>4 DEF SendAccelerated
  <2> HIDE DEF first
  <2> QED BY <2>1, <2>2, SimpleFine
<1>5. CASE short /\ value \in {1, -1}
  <2>1. next \in OutputsOn(C) /\ next.kind = out.kind /\ next.type = out.type
        /\ next.code = out.code /\ next.mods = out.mods /\ next.parts = out.parts
    <3> HIDE DEF count, rate
    <3> QED BY <1>2, <1>3 DEF OutputsOn
  <2>2. again \in Seq(WritesOn(C))
    <3> HIDE DEF rate
    <3>1. \A i \in 1..(2 * rate) :
            SendSimple(out, IF i % 2 = 1 THEN 0 ELSE value)[1] \in WritesOn(C)
      <4>1. \A v \in Int : SendSimple(out, v)[1] \in WritesOn(C)
        BY OutputFields, SendSimpleIn
      <4> QED BY <4>1
    <3>2. 2 * rate \in Nat
      BY <1>3
    <3> QED BY <3>1, <3>2
  <2>3. SendAccelerated(out, value, short) =
          Sends(SendSimple(out, value) \o again \o SendSimple(out, value), next)
    BY <1>5 DEF SendAccelerated
  <2>4. SendSimple(out, value) \in Seq(WritesOn(C))
    BY OutputFields, SendSimpleIn
  <2> HIDE DEF again, next
  <2>5. SendSimple(out, value) \o again \o SendSimple(out, value) \in Seq(WritesOn(C))
    BY <2>2, <2>4, ConcatProperties
  <2> QED BY <2>1, <2>3, <2>5 DEF Fine, Sends
<1>6. CASE short /\ value \notin {1, -1}
  <2>1. SendAccelerated(out, value, short) = Sends(SendSimple(out, value), out)
    BY <1>6 DEF SendAccelerated
  <2> QED BY <2>1, SimpleFine
<1> QED BY <1>4, <1>5, <1>6

\* What is debounced is only ever given the values of a key.
LEMMA SendFine ==
    ASSUME NEW C, NEW out \in OutputsOn(C), NEW value \in Int, NEW short \in BOOLEAN,
           out.type = "KEY" => value \in {0, 1, 2}
    PROVE  Fine(C, Send(out, value, short), out)
<1>1. CASE out.kind = "Simple"
  <2>1. Send(out, value, short) = Sends(SendSimple(out, value), out)
    BY <1>1 DEF Send
  <2> QED BY <2>1, SimpleFine
<1>2. CASE out.kind = "Combo"
  <2>1. Send(out, value, short) = Sends(SendCombo(out, value), out)
    BY <1>2 DEF Send
  <2>2. SendCombo(out, value) \in Seq(WritesOn(C))
    BY OutputFields, SendComboIn
  <2> QED BY <2>1, <2>2 DEF Fine, Sends
<1>3. CASE out.kind = "Repeat"
  <2>1. Send(out, value, short) = SendRepeat(out, value)
    BY <1>3 DEF Send
  <2> QED BY <2>1, SendRepeatFine
<1>4. CASE out.kind = "Macro"
  <2> DEFINE ops == IF value = 1 THEN MacroOps(out.parts) ELSE <<>>
  <2>1. Send(out, value, short) = Sends(ops, out)
    BY <1>4 DEF Send
  <2>2. ops \in Seq(WritesOn(C))
    <3>1. MacroOps(out.parts) \in Seq(WritesOn(C))
      BY OutputFields, MacroOpsIn
    <3> QED BY <3>1
  <2> HIDE DEF ops
  <2> QED BY <2>1, <2>2 DEF Fine, Sends
<1>5. CASE out.kind = "Accelerate"
  <2>1. Send(out, value, short) = SendAccelerated(out, value, short)
    BY <1>5 DEF Send
  <2> QED BY <2>1, SendAcceleratedFine
<1>6. CASE out.kind = "Debounce"
  <2>1. Send(out, value, short) = SendDebounced(out, value, short)
    BY <1>6 DEF Send
  <2>2. value \in {0, 1, 2}
    BY <1>6, OutputFields
  <2> QED BY <2>1, <2>2, SendDebouncedFine
<1>7. out.kind \in Kinds
  BY OutputFields
<1> QED BY <1>1, <1>2, <1>3, <1>4, <1>5, <1>6, <1>7 DEF Kinds

\* A click is what a press makes and then what a release makes.
LEMMA SendClickFine ==
    ASSUME NEW C, NEW out \in OutputsOn(C), NEW short \in BOOLEAN
    PROVE  Fine(C, SendClick(out, short), out)
<1> DEFINE down == Send(out, 1, short)
           up   == Send(down.out, 0, TRUE)
<1>1. Fine(C, down, out)
  BY SendFine
<1>2. Fine(C, up, down.out)
  <2>1. down.out \in OutputsOn(C)
    BY <1>1 DEF Fine
  <2> HIDE DEF down
  <2>2. \A late \in BOOLEAN : Fine(C, Send(down.out, 0, late), down.out)
    BY <2>1, SendFine
  <2> QED BY <2>2, Zenon
<1>3. SendClick(out, short) = Sends(down.ops \o up.ops, up.out)
  BY DEF SendClick
<1> HIDE DEF down, up
<1>4. down.ops \o up.ops \in Seq(WritesOn(C))
  BY <1>1, <1>2, ConcatProperties DEF Fine
<1> QED BY <1>1, <1>2, <1>3, <1>4 DEF Fine, Sends

\* From any input to any output.
LEMMA SendFromFine ==
    ASSUME NEW C, NEW out \in OutputsOn(C), NEW source, NEW value \in Int,
           NEW short \in BOOLEAN,
           source = "KEY" => value \in {0, 1, 2}
    PROVE  Fine(C, SendFrom(out, source, value, short), out)
<1>1. CASE out.type = source
  <2> DEFINE v == IF source # "KEY" /\ Opposite(out.sign, value) THEN -value ELSE value
  <2>1. v \in Int /\ (out.type = "KEY" => v \in {0, 1, 2})
    BY <1>1
  <2>2. SendFrom(out, source, value, short) = Send(out, v, short)
    BY <1>1 DEF SendFrom
  <2> HIDE DEF v
  <2> QED BY <2>1, <2>2, SendFine
<1>2. CASE out.type # source /\ source = "REL" /\ out.type = "KEY"
  <2>1. SendFrom(out, source, value, short) = SendClick(out, short)
    BY <1>2 DEF SendFrom
  <2> QED BY <2>1, SendClickFine
<1>3. CASE out.type # source /\ source = "KEY" /\ out.type = "REL" /\ value # 0
  <2> DEFINE v == IF out.sign = "Negative" THEN -1 ELSE 1
  <2>1. v \in Int /\ out.type # "KEY"
    BY <1>3
  <2>2. SendFrom(out, source, value, short) = Send(out, v, short)
    BY <1>3 DEF SendFrom
  <2> HIDE DEF v
  <2> QED BY <2>1, <2>2, SendFine
<1>4. CASE /\ out.type # source
           /\ ~(source = "REL" /\ out.type = "KEY")
           /\ ~(source = "KEY" /\ out.type = "REL" /\ value # 0)
  <2>1. SendFrom(out, source, value, short) = Sends(<<>>, out)
    BY <1>4 DEF SendFrom
  <2> QED BY <2>1 DEF Fine, Sends
<1> QED BY <1>1, <1>2, <1>3, <1>4

-----------------------------------------------------------------------------
(* device_write().                                                         *)

\* An event that changes whether a key is pressed.
Changes(ev, k) == ev.type = "KEY" /\ ev.code = k /\ ev.value # 2

\* The greatest of one number.
LEMMA MaxOfOne ==
    ASSUME NEW n \in Int
    PROVE  Max({n}) = n
<1>1. \A x : x \in {n} /\ (\A y \in {n} : x >= y) <=> x = n
  OBVIOUS
<1> QED BY <1>1 DEF Max

\* A write presses keys of its own device only.
LEMMA ApplyDevices ==
    ASSUME NEW down, NEW dev, NEW evs, NEW d \in Apply(down, dev, evs)
    PROVE  d \in down \/ d[1] = dev
BY DEF Apply

\* Events of other keys leave a key as it is.
LEMMA ApplyOthers ==
    ASSUME NEW down, NEW dev, NEW own, NEW k, NEW n \in Nat, NEW evs,
           DOMAIN evs = 1..n, \A i \in 1..n : ~Changes(evs[i], k)
    PROVE  <<own, k>> \in Apply(down, dev, evs) <=> <<own, k>> \in down
<1> DEFINE changes(code) == {i \in DOMAIN evs : /\ Accepts(dev, evs[i])
                                                /\ evs[i].type = "KEY" /\ evs[i].code = code
                                                /\ evs[i].value # 2}
           last == {i \in DOMAIN evs : /\ i = Max({0} \cup changes(evs[i].code))
                                       /\ evs[i].value # 0}
           pressed == {evs[i].code : i \in last}
<1>1. Apply(down, dev, evs) =
        {d \in down : d[1] = dev => changes(d[2]) = {}} \cup ({dev} \X pressed)
  BY DEF Apply
<1>2. changes(k) = {}
  BY DEF Changes
<1>3. k \notin pressed
  <2> SUFFICES ASSUME NEW i \in last, evs[i].code = k PROVE FALSE
    OBVIOUS
  <2>1. i = Max({0} \cup changes(k)) /\ i \in 1..n
    OBVIOUS
  <2>2. {0} \cup changes(k) = {0}
    BY <1>2
  <2>3. i = 0
    <3> HIDE DEF changes, last
    <3> QED BY <2>1, <2>2, MaxOfOne
  <2> QED BY <2>1, <2>3
<1> HIDE DEF changes, pressed
<1> QED BY <1>1, <1>2, <1>3

\* An event of a key the device takes is what the key becomes.
LEMMA ApplyOne ==
    ASSUME NEW down, NEW dev, NEW k, NEW evs, DOMAIN evs = {1},
           Accepts(dev, evs[1]), Changes(evs[1], k)
    PROVE  <<dev, k>> \in Apply(down, dev, evs) <=> evs[1].value # 0
<1> DEFINE changes(code) == {i \in DOMAIN evs : /\ Accepts(dev, evs[i])
                                                /\ evs[i].type = "KEY" /\ evs[i].code = code
                                                /\ evs[i].value # 2}
           last == {i \in DOMAIN evs : /\ i = Max({0} \cup changes(evs[i].code))
                                       /\ evs[i].value # 0}
           pressed == {evs[i].code : i \in last}
<1>1. Apply(down, dev, evs) =
        {d \in down : d[1] = dev => changes(d[2]) = {}} \cup ({dev} \X pressed)
  BY DEF Apply
<1>2. changes(k) = {1}
  BY DEF Changes
<1>3. Max({0} \cup changes(k)) = 1
  <2>1. {0} \cup changes(k) = {0, 1}
    BY <1>2
  <2>2. \A x : x \in {0, 1} /\ (\A y \in {0, 1} : x >= y) <=> x = 1
    OBVIOUS
  <2> HIDE DEF changes
  <2> QED BY <2>1, <2>2 DEF Max
<1>4. evs[1].code = k
  BY DEF Changes
<1>5. k \in pressed <=> evs[1].value # 0
  <2>1. 1 \in last <=> evs[1].value # 0
    <3> HIDE DEF changes
    <3> QED BY <1>3, <1>4
  <2>2. last \subseteq {1}
    OBVIOUS
  <2> HIDE DEF last
  <2> QED BY <2>1, <2>2, <1>4
<1>6. \A p : <<dev, p>> \in {dev} \X pressed <=> p \in pressed
  OBVIOUS
<1>7. <<dev, k>> \notin {d \in down : d[1] = dev => changes(d[2]) = {}}
  BY <1>2
<1> HIDE DEF changes, pressed
<1> QED BY <1>1, <1>5, <1>6, <1>7
-----------------------------------------------------------------------------
(* What writes leave pressed.                                              *)

\* An event of the program changes whether x is pressed.
Alters(ev, x) == ev # Junk /\ Changes(ev, x)

\* A write has events of x on dev, and leaves x pressed there.
Touches(op, dev, x) == op.dev = dev /\ \E i \in DOMAIN op.evs : Alters(op.evs[i], x)
Leaves(op, dev, x) ==
    /\ op.dev = dev
    /\ \E i \in DOMAIN op.evs :
          /\ Alters(op.evs[i], x) /\ op.evs[i].value # 0
          /\ \A j \in DOMAIN op.evs : j > i => ~Alters(op.evs[j], x)

\* The same of several writes, and what they make of the keys D.
LeftPressed(ops, dev, x) ==
    \E n \in DOMAIN ops :
        /\ Leaves(ops[n], dev, x)
        /\ \A m \in DOMAIN ops : m > n => ~Touches(ops[m], dev, x)
Untouched(ops, dev, x) == \A n \in DOMAIN ops : ~Touches(ops[n], dev, x)
Afterwards(ops, D, dev, x) ==
    LeftPressed(ops, dev, x) \/ (Untouched(ops, dev, x) /\ <<dev, x>> \in D)

\* What the later writes do counts.
LEMMA LeftByOneOfTwo ==
    ASSUME NEW T, NEW s \in Seq(T), NEW t \in Seq(T), NEW dev, NEW x,
           LeftPressed(s \o t, dev, x)
    PROVE  LeftPressed(t, dev, x) \/ (Untouched(t, dev, x) /\ LeftPressed(s, dev, x))
<1> DEFINE both == s \o t
           a == Len(s)
           b == Len(t)
<1>1. /\ a \in Nat /\ b \in Nat /\ DOMAIN s = 1..a /\ DOMAIN t = 1..b
      /\ DOMAIN both = 1..(a + b)
      /\ \A i \in 1..a : both[i] = s[i]
      /\ \A i \in 1..b : both[a + i] = t[i]
  OBVIOUS
<1>2. PICK n \in DOMAIN both : /\ Leaves(both[n], dev, x)
                               /\ \A m \in DOMAIN both : m > n => ~Touches(both[m], dev, x)
  BY DEF LeftPressed
<1> HIDE DEF both, a, b
<1>3. CASE n > a
  <2>1. n - a \in 1..b /\ both[n] = t[n - a]
    <3>1. n - a \in 1..b /\ a + (n - a) = n
      BY <1>1, <1>3
    <3> QED BY <1>1, <3>1
  <2>2. ASSUME NEW m \in 1..b, m > n - a
        PROVE  ~Touches(t[m], dev, x)
    <3>1. a + m \in 1..(a + b) /\ a + m > n
      BY <1>1, <1>3, <2>2
    <3> QED BY <1>1, <1>2, <3>1
  <2>3. LeftPressed(t, dev, x)
    BY <1>1, <1>2, <2>1, <2>2 DEF LeftPressed
  <2> QED BY <2>3
<1>4. CASE n <= a
  <2>1. n \in 1..a /\ both[n] = s[n]
    BY <1>1, <1>4
  <2>2. ASSUME NEW m \in 1..b
        PROVE  ~Touches(t[m], dev, x)
    <3>1. a + m \in 1..(a + b) /\ a + m > n
      BY <1>1, <1>4
    <3> QED BY <1>1, <1>2, <3>1
  <2>3. ASSUME NEW m \in 1..a, m > n
        PROVE  ~Touches(s[m], dev, x)
    <3>1. m \in 1..(a + b)
      BY <1>1
    <3> QED BY <1>1, <1>2, <2>3, <3>1
  <2>4. Untouched(t, dev, x) /\ LeftPressed(s, dev, x)
    BY <1>1, <1>2, <2>1, <2>2, <2>3 DEF LeftPressed, Untouched
  <2> QED BY <2>4
<1>5. n \in Int /\ a \in Int
  BY <1>1
<1> QED BY <1>3, <1>4, <1>5

\* Writes of some codes leave nothing else pressed.
LEMMA LeftOfThose ==
    ASSUME NEW C, NEW ops \in Seq(WritesOn(C)), NEW dev, NEW x, LeftPressed(ops, dev, x)
    PROVE  dev \in VDevices /\ x \in C
<1>1. PICK n \in DOMAIN ops : Leaves(ops[n], dev, x)
  BY DEF LeftPressed
<1>2. PICK op \in WritesOn(C) : op = ops[n]
  <2> DEFINE W == WritesOn(C)
  <2>1. ops \in Seq(W) /\ n \in DOMAIN ops
    OBVIOUS
  <2> HIDE DEF W
  <2>2. ops[n] \in W
    BY <2>1
  <2> QED BY <2>2 DEF W
<1>3. PICK i \in DOMAIN op.evs : Alters(op.evs[i], x)
  BY <1>1, <1>2 DEF Leaves
<1>4. op.evs[i] \in EventsOn(C) \cup {Junk} /\ op.dev \in VDevices
  <2>1. op.evs \in Seq(EventsOn(C) \cup {Junk}) /\ op.dev \in VDevices
    BY DEF WritesOn
  <2> QED BY <2>1
<1>5. op.evs[i].code \in C
  BY <1>3, <1>4 DEF Alters, EventsOn
<1> QED BY <1>1, <1>2, <1>3, <1>4, <1>5 DEF Leaves, Alters, Changes

\* The input core takes the key x on the virtual device dev.
Pressable(dev, x) == Accepts(dev, Event("KEY", x, 0))

\* The greatest of zero and some indices.
LEMMA MaxOfIndices ==
    ASSUME NEW n \in Nat, NEW S \in SUBSET (1..n)
    PROVE  /\ Max({0} \cup S) \in {0} \cup S
           /\ \A i \in S : i <= Max({0} \cup S)
<1> DEFINE Z == {0} \cup S
           M(m) == m \in Z /\ \A y \in Z : m >= y
<1>1. Z \in SUBSET (0..n) /\ Z # {}
  OBVIOUS
<1>2. \E m : M(m)
  <2>1. PICK m \in Z : \A j \in Z : j <= m
    <3> HIDE DEF Z
    <3> QED BY <1>1, Largest
  <2>2. \A y \in Z : m >= y
    BY <1>1, <2>1
  <2> QED BY <2>2
<1>3. M(CHOOSE m : M(m))
  <2> HIDE DEF M
  <2> QED BY <1>2
<1>4. Max(Z) = CHOOSE m : M(m)
  BY DEF Max
<1>5. M(Max(Z))
  BY <1>3, <1>4
<1>6. \A i \in S : i <= Max(Z)
  <2> HIDE DEF Z
  <2>1. \A i \in Z : Max(Z) >= i /\ Max(Z) \in Z
    BY <1>5
  <2>2. S \subseteq Z
    BY DEF Z
  <2> QED BY <1>1, <2>1, <2>2
<1> QED BY <1>5, <1>6
\* After a write a key is pressed if the write leaves it so, or if it was
\* pressed and the write has no event of it.
LEMMA AppliedLeaves ==
    ASSUME NEW down, NEW op, NEW n \in Nat, DOMAIN op.evs = 1..n, NEW junk,
           NEW evs,
           evs = [i \in DOMAIN op.evs |-> IF op.evs[i] = Junk THEN junk ELSE op.evs[i]],
           NEW dev, NEW x, Pressable(dev, x),
           \A i \in 1..n : op.evs[i] = Junk => junk.type # "KEY" \/ junk.code # x,
           <<dev, x>> \in Apply(down, op.dev, evs)
    PROVE  Leaves(op, dev, x) \/ (~Touches(op, dev, x) /\ <<dev, x>> \in down)
<1> DEFINE changes(code) == {i \in DOMAIN evs : /\ Accepts(op.dev, evs[i])
                                                /\ evs[i].type = "KEY" /\ evs[i].code = code
                                                /\ evs[i].value # 2}
           last == {i \in DOMAIN evs : /\ i = Max({0} \cup changes(evs[i].code))
                                       /\ evs[i].value # 0}
           pressed == {evs[i].code : i \in last}
<1>1. Apply(down, op.dev, evs) =
        {d \in down : d[1] = op.dev => changes(d[2]) = {}} \cup ({op.dev} \X pressed)
  BY DEF Apply
<1>2. DOMAIN evs = 1..n
  OBVIOUS
<1>3. ASSUME dev = op.dev
      PROVE  \A i \in 1..n : i \in changes(x) <=> Alters(op.evs[i], x)
  <2> SUFFICES ASSUME NEW i \in 1..n PROVE i \in changes(x) <=> Alters(op.evs[i], x)
    OBVIOUS
  <2>1. CASE op.evs[i] = Junk
    <3>1. evs[i] = junk
      BY <2>1
    <3> QED BY <2>1, <3>1 DEF Alters
  <2>2. CASE op.evs[i] # Junk
    <3>1. evs[i] = op.evs[i]
      BY <2>2
    <3>2. evs[i].type = "KEY" /\ evs[i].code = x => Accepts(dev, evs[i])
      BY DEF Pressable, Accepts, Event
    <3> QED BY <1>2, <1>3, <2>2, <3>1, <3>2 DEF Alters, Changes
  <2> QED BY <2>1, <2>2
<1>4. CASE \E i \in last : evs[i].code = x /\ dev = op.dev
  <2> DEFINE S == changes(x)
  <2>1. PICK i \in 1..n : /\ i = Max({0} \cup S) /\ evs[i].value # 0
                          /\ dev = op.dev
    <3>1. PICK i \in last : evs[i].code = x /\ dev = op.dev
      <4> HIDE DEF last
      <4> QED BY <1>4
    <3>2. i \in 1..n /\ i = Max({0} \cup changes(evs[i].code)) /\ evs[i].value # 0
      BY <1>2
    <3>3. i = Max({0} \cup S)
      BY <3>1, <3>2
    <3> HIDE DEF S, last
    <3> QED BY <3>1, <3>2, <3>3
  <2>2. S \in SUBSET (1..n)
    BY <1>2
  <2>3. \A j \in 1..n : j \in S <=> Alters(op.evs[j], x)
    BY <1>3, <2>1
  <2> HIDE DEF S
  <2>4. i \in S /\ \A j \in S : j <= i
    <3> DEFINE m == Max({0} \cup S)
    <3>1. m \in {0} \cup S /\ \A j \in S : j <= m
      BY <2>2, MaxOfIndices
    <3>2. i = m
      BY <2>1
    <3> HIDE DEF m
    <3> QED BY <3>1, <3>2
  <2>5. Alters(op.evs[i], x) /\ op.evs[i].value # 0
    <3>1. Alters(op.evs[i], x)
      BY <2>3, <2>4
    <3>2. evs[i] = op.evs[i]
      BY <3>1 DEF Alters
    <3> QED BY <2>1, <3>1, <3>2
  <2>6. ASSUME NEW j \in 1..n, j > i PROVE ~Alters(op.evs[j], x)
    <3>1. j \notin S
      BY <2>4, <2>6
    <3> QED BY <2>3, <3>1
  <2> QED BY <2>1, <2>5, <2>6 DEF Leaves
<1>5. CASE ~ \E i \in last : evs[i].code = x /\ dev = op.dev
  <2>1. <<dev, x>> \notin {op.dev} \X pressed
    BY <1>5
  <2>2. <<dev, x>> \in down /\ (dev = op.dev => changes(x) = {})
    <3> HIDE DEF changes, pressed
    <3> QED BY <1>1, <2>1
  <2>3. ~Touches(op, dev, x)
    <3> HIDE DEF changes, last
    <3> QED BY <1>3, <2>2 DEF Touches
  <2> QED BY <2>2, <2>3
<1> QED BY <1>4, <1>5

\* What is pressed after a write is pressable if it was before.
LEMMA AppliedPressable ==
    ASSUME NEW down, \A d \in down : d = <<d[1], d[2]>> /\ Pressable(d[1], d[2]),
           NEW dev, NEW n \in Nat, NEW evs, DOMAIN evs = 1..n, NEW d \in Apply(down, dev, evs)
    PROVE  d = <<d[1], d[2]>> /\ Pressable(d[1], d[2])
<1> DEFINE changes(code) == {i \in DOMAIN evs : /\ Accepts(dev, evs[i])
                                                /\ evs[i].type = "KEY" /\ evs[i].code = code
                                                /\ evs[i].value # 2}
           last == {i \in DOMAIN evs : /\ i = Max({0} \cup changes(evs[i].code))
                                       /\ evs[i].value # 0}
           pressed == {evs[i].code : i \in last}
<1>1. Apply(down, dev, evs) =
        {c \in down : c[1] = dev => changes(c[2]) = {}} \cup ({dev} \X pressed)
  BY DEF Apply
<1>2. CASE d \in down
  BY <1>2
<1>3. CASE d \in {dev} \X pressed
  <2>1. PICK p \in pressed : d = <<dev, p>>
    <3> HIDE DEF pressed
    <3> QED BY <1>3
  <2>2. PICK i \in last : p = evs[i].code
    <3> HIDE DEF last
    <3> QED BY <2>1
  <2> DEFINE S == changes(evs[i].code)
  <2>3. i \in 1..n /\ i = Max({0} \cup S) /\ S \in SUBSET (1..n)
    OBVIOUS
  <2>4. i \in S
    <3> HIDE DEF S, last
    <3>1. Max({0} \cup S) \in {0} \cup S
      BY <2>3, MaxOfIndices
    <3> QED BY <2>3, <3>1
  <2>5. Accepts(dev, evs[i]) /\ evs[i].type = "KEY"
    BY <2>4
  <2>6. Pressable(dev, evs[i].code)
    BY <2>5 DEF Pressable, Accepts, Event
  <2> QED BY <2>1, <2>2, <2>6
<1>4. d \in down \/ d \in {dev} \X pressed
  <2> HIDE DEF changes, pressed
  <2> QED BY <1>1
<1> QED BY <1>2, <1>3, <1>4
-----------------------------------------------------------------------------
(* Which output releases what is pressed.                                  *)

\* The key of an output, on the device sendSimple() chooses.
Own(out, dev, x) == x = out.code /\ dev = SimpleDevice("KEY", out.code)

\* The key of a combo, on the device sendCombo() chooses.
OwnCombo(out, dev, x) ==
    x = out.code /\ dev = IF out.code \in MouseCodes THEN "mouse" ELSE "kbd"

\* The output has x released on dev when its input key is released.
Frees(out, dev, x) ==
    /\ out.type = "KEY"
    /\ CASE out.kind = "Combo"    -> OwnCombo(out, dev, x) \/ (dev = "kbd" /\ x \in ToSet(out.mods))
         [] out.kind = "Debounce" -> Own(out, dev, x) /\ out.sent # 0
         [] out.kind = "Macro"    -> FALSE
         [] OTHER                 -> Own(out, dev, x)

\* An output that leaves nothing pressed for good: what is pressed with
\* modifiers is a key, and a macro releases all it presses.
LetsGo(out, C) ==
    /\ out.kind = "Combo" => out.type = "KEY"
    /\ out.kind = "Macro" =>
          \A dev \in VDevices, x \in C : ~LeftPressed(MacroOps(out.parts), dev, x)

\* What one simple write is.
LEMMA SimpleOp ==
    ASSUME NEW out, NEW w
    PROVE  /\ DOMAIN SendSimple(out, w) = {1}
           /\ SendSimple(out, w)[1].dev = SimpleDevice(out.type, out.code)
           /\ SendSimple(out, w)[1].evs = << Event(out.type, out.code, w) >>
BY DEF SendSimple, WriteTo

\* Simple writes concern the key of the output.
LEMMA SimpleTouches ==
    ASSUME NEW out, NEW w, NEW dev, NEW x, Touches(SendSimple(out, w)[1], dev, x)
    PROVE  out.type = "KEY" /\ Own(out, dev, x)
<1>1. PICK ev : ev = Event(out.type, out.code, w)
  OBVIOUS
<1>2. /\ SendSimple(out, w)[1].dev = dev
      /\ Alters(ev, x)
  BY <1>1, SimpleOp DEF Touches
<1>3. ev.type = out.type /\ ev.code = out.code
  BY <1>1 DEF Event
<1> QED BY <1>2, <1>3, SimpleOp DEF Alters, Changes, Own

\* So what they leave pressed is that key ...
LEMMA SimplesLeave ==
    ASSUME NEW out, NEW ops, \A n \in DOMAIN ops : \E w : ops[n] = SendSimple(out, w)[1],
           NEW dev, NEW x, LeftPressed(ops, dev, x)
    PROVE  out.type = "KEY" /\ Own(out, dev, x)
<1>1. PICK n \in DOMAIN ops : Leaves(ops[n], dev, x)
  BY DEF LeftPressed
<1>2. Touches(ops[n], dev, x)
  BY <1>1 DEF Leaves, Touches
<1> QED BY <1>2, SimpleTouches

\* ... and a single one with 0 releases it.
LEMMA SimpleReleases ==
    ASSUME NEW C, Junk \notin EventsOn(C), NEW out, out.type = "KEY", out.code \in C
    PROVE  \A dev, x :
             /\ ~LeftPressed(SendSimple(out, 0), dev, x)
             /\ Own(out, dev, x) => ~Untouched(SendSimple(out, 0), dev, x)
<1> SUFFICES ASSUME NEW dev, NEW x
             PROVE  /\ ~LeftPressed(SendSimple(out, 0), dev, x)
                    /\ Own(out, dev, x) => ~Untouched(SendSimple(out, 0), dev, x)
  OBVIOUS
<1>1. PICK ops : ops = SendSimple(out, 0)
  OBVIOUS
<1>2. PICK ev : ev = Event("KEY", out.code, 0)
  OBVIOUS
<1>3. /\ DOMAIN ops = {1} /\ ops[1].dev = SimpleDevice("KEY", out.code)
      /\ DOMAIN ops[1].evs = {1} /\ ops[1].evs[1] = ev
  BY <1>1, <1>2, SimpleOp
<1>4. ev # Junk /\ ev.value = 0 /\ ev.type = "KEY" /\ ev.code = out.code
  BY <1>2 DEF EventsOn, Event, Types
<1>5. ~LeftPressed(ops, dev, x)
  BY <1>3, <1>4 DEF LeftPressed, Leaves
<1>6. ASSUME Own(out, dev, x) PROVE ~Untouched(ops, dev, x)
  <2>1. Alters(ev, x)
    BY <1>4, <1>6 DEF Alters, Changes, Own
  <2>2. Touches(ops[1], dev, x)
    BY <1>3, <1>6, <2>1 DEF Touches, Own
  <2> QED BY <1>3, <2>2 DEF Untouched
<1> QED BY <1>1, <1>5, <1>6

\* The array of a combo, element by element.
LEMMA ComboElements ==
    ASSUME NEW C, NEW out, out.mods \in Seq(C), NEW value
    PROVE  /\ DOMAIN ComboEvents(out, value) = 1..(Len(out.mods) + 1)
           /\ value # 2 =>
                /\ \A i \in 1..Len(out.mods) :
                      ComboEvents(out, value)[i] = Event("KEY", out.mods[i], value)
                /\ ComboEvents(out, value)[Len(out.mods) + 1] = Event("KEY", out.code, value)
           /\ value = 2 =>
                /\ ComboEvents(out, value)[1] = Event("KEY", out.code, value)
                /\ \A i \in 2..(Len(out.mods) + 1) : ComboEvents(out, value)[i] = Junk
<1> DEFINE n    == Len(out.mods)
           key  == Event("KEY", out.code, value)
           mods == [i \in DOMAIN out.mods |-> Event("KEY", out.mods[i], value)]
           rest == [i \in DOMAIN out.mods |-> Junk]
           E    == {key, Junk} \cup {Event("KEY", c, value) : c \in C}
<1>1. n \in Nat /\ DOMAIN out.mods = 1..n
  OBVIOUS
<1>2. key \in E /\ Junk \in E /\ \A i \in 1..n : Event("KEY", out.mods[i], value) \in E
  <2>1. \A i \in 1..n : out.mods[i] \in C
    OBVIOUS
  <2> QED BY <2>1
<1>3. <<key>> \in Seq(E) /\ Len(<<key>>) = 1 /\ <<key>>[1] = key
  BY <1>2
<1>4. mods \in Seq(E) /\ Len(mods) = n /\ \A i \in 1..n : mods[i] = Event("KEY", out.mods[i], value)
  <2> HIDE DEF E, key, n
  <2> QED BY <1>1, <1>2
<1>5. rest \in Seq(E) /\ Len(rest) = n /\ \A i \in 1..n : rest[i] = Junk
  <2> HIDE DEF E, key, n
  <2> QED BY <1>1, <1>2
<1>6. ComboEvents(out, value) = IF value # 2 THEN mods \o <<key>> ELSE <<key>> \o rest
  BY DEF ComboEvents
<1> HIDE DEF E, mods, rest, key, n
<1>7. PICK one \in Seq(E) : one = <<key>>
  BY <1>3
<1>8. /\ Len(mods \o one) = n + 1 /\ mods \o one \in Seq(E)
      /\ \A i \in 1..n : (mods \o one)[i] = mods[i]
      /\ (mods \o one)[n + 1] = key
  BY <1>1, <1>3, <1>4, <1>7
<1>9. /\ Len(one \o rest) = n + 1 /\ one \o rest \in Seq(E)
      /\ (one \o rest)[1] = key
      /\ \A i \in 2..(n + 1) : (one \o rest)[i] = Junk
  <2>1. Len(one \o rest) = n + 1 /\ one \o rest \in Seq(E) /\ (one \o rest)[1] = key
    BY <1>1, <1>3, <1>5, <1>7
  <2>2. ASSUME NEW i \in 2..(n + 1) PROVE (one \o rest)[i] = Junk
    <3>1. i - 1 \in 1..n
      BY <1>1
    <3>2. (one \o rest)[i] = rest[i - 1]
      BY <1>1, <1>3, <1>5, <1>7
    <3> QED BY <1>5, <3>1, <3>2
  <2> QED BY <2>1, <2>2
<1>10. CASE value # 2
  <2>1. ComboEvents(out, value) = mods \o one
    BY <1>6, <1>7, <1>10
  <2> QED BY <1>1, <1>4, <1>8, <1>10, <2>1 DEF n, key
<1>11. CASE value = 2
  <2>1. ComboEvents(out, value) = one \o rest
    BY <1>6, <1>7, <1>11
  <2>2. DOMAIN ComboEvents(out, value) = 1..(n + 1)
    BY <1>1, <1>9, <2>1
  <2> QED BY <1>1, <1>9, <1>11, <2>1, <2>2 DEF n, key
<1> QED BY <1>10, <1>11
\* The writes of a combo: all at once to the keyboard, or the modifiers
\* there and then the button to the mouse.
LEMMA ComboOps ==
    ASSUME NEW C, NEW out, out.mods \in Seq(C), NEW value,
           NEW n \in DOMAIN SendCombo(out, value)
    PROVE  LET op   == SendCombo(out, value)[n]
               evs  == ComboEvents(out, value)
               high == out.code \in MouseCodes
           IN  /\ DOMAIN SendCombo(out, value) = IF high THEN {1, 2} ELSE {1}
               /\ n = 1 => /\ op.dev = "kbd"
                           /\ DOMAIN op.evs = 1..(IF high THEN Len(out.mods) ELSE Len(out.mods) + 1)
                           /\ \A i \in DOMAIN op.evs : op.evs[i] = evs[i]
               /\ n = 2 => high /\ op.dev = "mouse" /\ op.evs = << Event("KEY", out.code, value) >>
<1> DEFINE evs == ComboEvents(out, value)
           m   == Len(out.mods)
           sub == SubSeq(evs, 1, m)
<1>1. m \in Nat /\ DOMAIN evs = 1..(m + 1)
  BY ComboElements
<1>2. DOMAIN sub = 1..m /\ \A i \in 1..m : sub[i] = evs[i]
  <2> HIDE DEF evs, m
  <2> QED BY <1>1
<1>3. SendCombo(out, value) =
        IF out.code \in MouseCodes
        THEN << WriteTo("kbd", sub),
                Local(WriteTo("mouse", << Event("KEY", out.code, value) >>)) >>
        ELSE << WriteTo("kbd", evs) >>
  BY DEF SendCombo
<1> HIDE DEF sub, evs, m
<1>4. CASE out.code \in MouseCodes
  <2>1. /\ DOMAIN SendCombo(out, value) = {1, 2}
        /\ SendCombo(out, value)[1] = WriteTo("kbd", sub)
        /\ SendCombo(out, value)[2] =
             Local(WriteTo("mouse", << Event("KEY", out.code, value) >>))
    BY <1>3, <1>4
  <2>2. WriteTo("kbd", sub).dev = "kbd" /\ WriteTo("kbd", sub).evs = sub
    BY DEF WriteTo
  <2>3. \A l : Local(WriteTo("mouse", l)).dev = "mouse" /\ Local(WriteTo("mouse", l)).evs = l
    BY DEF WriteTo, Local
  <2> QED BY <1>1, <1>2, <1>4, <2>1, <2>2, <2>3 DEF evs, m
<1>5. CASE out.code \notin MouseCodes
  <2>1. /\ DOMAIN SendCombo(out, value) = {1}
        /\ SendCombo(out, value)[1] = WriteTo("kbd", evs)
    BY <1>3, <1>5
  <2>2. WriteTo("kbd", evs).dev = "kbd" /\ WriteTo("kbd", evs).evs = evs
    BY DEF WriteTo
  <2> QED BY <1>1, <1>5, <2>1, <2>2 DEF evs, m
<1> QED BY <1>4, <1>5

\* A combo has no events but of its key and its modifiers: one of them is
\* what it leaves pressed, and neither by a release nor by a repeat.
LEMMA ComboLeaves ==
    ASSUME NEW C, NEW out, out.mods \in Seq(C), NEW value,
           NEW dev, NEW x, LeftPressed(SendCombo(out, value), dev, x)
    PROVE  /\ value # 0
           /\ OwnCombo(out, dev, x) \/ (dev = "kbd" /\ x \in ToSet(out.mods))
<1> DEFINE evs == ComboEvents(out, value)
           m   == Len(out.mods)
<1>1. PICK ops : ops = SendCombo(out, value)
  OBVIOUS
<1>2. PICK n \in DOMAIN ops : Leaves(ops[n], dev, x)
  BY <1>1 DEF LeftPressed
<1>3. PICK i \in DOMAIN ops[n].evs : Alters(ops[n].evs[i], x) /\ ops[n].evs[i].value # 0
  BY <1>2 DEF Leaves
<1>4. ops[n].dev = dev
  BY <1>2 DEF Leaves
<1>5. /\ DOMAIN ops = IF out.code \in MouseCodes THEN {1, 2} ELSE {1}
      /\ n = 1 => /\ ops[n].dev = "kbd"
                  /\ DOMAIN ops[n].evs = 1..(IF out.code \in MouseCodes THEN m ELSE m + 1)
                  /\ \A j \in DOMAIN ops[n].evs : ops[n].evs[j] = evs[j]
      /\ n = 2 => /\ out.code \in MouseCodes /\ ops[n].dev = "mouse"
                  /\ ops[n].evs = << Event("KEY", out.code, value) >>
  BY <1>1, ComboOps
<1>6. \A c : /\ Event("KEY", c, value).value = value
             /\ Alters(Event("KEY", c, value), x) => c = x /\ value # 2
  BY DEF Event, Alters, Changes
<1>7. CASE n = 2
  <2>1. ops[n].evs[i] = Event("KEY", out.code, value)
    BY <1>4, <1>5, <1>7
  <2> QED BY <1>3, <1>4, <1>5, <1>6, <1>7, <2>1 DEF OwnCombo
<1>8. CASE n = 1
  <2>1. ops[n].evs[i] = evs[i] /\ dev = "kbd" /\ i \in 1..(m + 1) /\ m \in Nat
    BY <1>3, <1>4, <1>5, <1>8
  <2>2. CASE value # 2 /\ i \in 1..m
    <3>1. evs[i] = Event("KEY", out.mods[i], value)
      BY <2>2, ComboElements
    <3>2. out.mods[i] = x
      BY <1>3, <1>4, <1>6, <2>1, <3>1
    <3>3. x \in ToSet(out.mods)
      <4>1. i \in DOMAIN out.mods
        BY <2>2
      <4> QED BY <3>2, <4>1 DEF ToSet
    <3> QED BY <1>3, <1>4, <1>6, <2>1, <3>1, <3>3
  <2>3. CASE value # 2 /\ i = m + 1
    <3>1. evs[i] = Event("KEY", out.code, value)
      BY <2>3, ComboElements
    <3>2. out.code \notin MouseCodes
      BY <1>3, <1>4, <1>5, <1>8, <2>1, <2>3
    <3> QED BY <1>3, <1>4, <1>6, <2>1, <3>1, <3>2 DEF OwnCombo
  <2>4. CASE value = 2
    <3>1. i = 1 => evs[i] = Event("KEY", out.code, value)
      BY <2>4, ComboElements
    <3>2. i # 1 => evs[i] = Junk
      <4> SUFFICES ASSUME i # 1 PROVE evs[i] = Junk
        OBVIOUS
      <4>1. i \in 2..(m + 1)
        BY <2>1
      <4> QED BY <2>4, <4>1, ComboElements
    <3>3. ~Alters(evs[i], x)
      BY <1>6, <2>4, <3>1, <3>2 DEF Alters
    <3> QED BY <1>3, <2>1, <3>3
  <2> QED BY <2>1, <2>2, <2>3, <2>4
<1> QED BY <1>1, <1>5, <1>7, <1>8

\* The release of a combo releases both.
LEMMA ComboReleases ==
    ASSUME NEW C, Junk \notin EventsOn(C), NEW out, out.code \in C, out.mods \in Seq(C),
           NEW dev, NEW x, OwnCombo(out, dev, x) \/ (dev = "kbd" /\ x \in ToSet(out.mods))
    PROVE  ~Untouched(SendCombo(out, 0), dev, x)
<1> DEFINE evs == ComboEvents(out, 0)
           m   == Len(out.mods)
<1>1. PICK ops : ops = SendCombo(out, 0)
  OBVIOUS
<1>2. 1 \in DOMAIN ops /\ (out.code \in MouseCodes => 2 \in DOMAIN ops)
  <2>1. out.code \in MouseCodes => DOMAIN ops = {1, 2}
    BY <1>1 DEF SendCombo
  <2>2. out.code \notin MouseCodes => DOMAIN ops = {1}
    BY <1>1 DEF SendCombo
  <2> QED BY <2>1, <2>2
<1>3. /\ ops[1].dev = "kbd"
      /\ DOMAIN ops[1].evs = 1..(IF out.code \in MouseCodes THEN m ELSE m + 1)
      /\ \A j \in DOMAIN ops[1].evs : ops[1].evs[j] = evs[j]
  BY <1>1, <1>2, ComboOps
<1>4. out.code \in MouseCodes => /\ ops[2].dev = "mouse"
                                /\ ops[2].evs = << Event("KEY", out.code, 0) >>
  BY <1>1, <1>2, ComboOps
<1>5. x \in C /\ Alters(Event("KEY", x, 0), x)
  <2>1. x \in C
    <3>1. ToSet(out.mods) \subseteq C
      BY DEF ToSet
    <3> QED BY <3>1 DEF OwnCombo
  <2>2. Event("KEY", x, 0) \in EventsOn(C)
    BY <2>1 DEF Event, EventsOn, Types
  <2> QED BY <2>1, <2>2 DEF Event, Alters, Changes
<1>6. m \in Nat
  OBVIOUS
<1>7. CASE dev = "kbd" /\ x \in ToSet(out.mods)
  <2>1. PICK i \in 1..m : x = out.mods[i]
    BY <1>7 DEF ToSet
  <2>2. evs[i] = Event("KEY", x, 0)
    BY <2>1, ComboElements
  <2>3. i \in DOMAIN ops[1].evs
    BY <1>3, <1>6
  <2>4. Touches(ops[1], dev, x)
    BY <1>3, <1>5, <1>7, <2>2, <2>3 DEF Touches
  <2> QED BY <1>1, <1>2, <2>4 DEF Untouched
<1>8. CASE OwnCombo(out, dev, x) /\ out.code \in MouseCodes
  <2>1. dev = "mouse" /\ x = out.code
    BY <1>8 DEF OwnCombo
  <2>2. Touches(ops[2], dev, x)
    BY <1>4, <1>5, <1>8, <2>1 DEF Touches
  <2> QED BY <1>1, <1>2, <1>8, <2>2 DEF Untouched
<1>9. CASE OwnCombo(out, dev, x) /\ out.code \notin MouseCodes
  <2>1. dev = "kbd" /\ x = out.code
    BY <1>9 DEF OwnCombo
  <2>2. evs[m + 1] = Event("KEY", x, 0)
    BY <2>1, ComboElements
  <2>3. m + 1 \in DOMAIN ops[1].evs
    BY <1>3, <1>6, <1>9
  <2>4. Touches(ops[1], dev, x)
    BY <1>3, <1>5, <2>1, <2>2, <2>3 DEF Touches
  <2> QED BY <1>1, <1>2, <2>4 DEF Untouched
<1> QED BY <1>7, <1>8, <1>9
\* What one simple write leaves pressed.
LEMMA SimpleLeaves ==
    ASSUME NEW out, NEW value, NEW dev, NEW x, LeftPressed(SendSimple(out, value), dev, x)
    PROVE  out.type = "KEY" /\ Own(out, dev, x) /\ value # 0
<1>1. PICK ops : ops = SendSimple(out, value)
  OBVIOUS
<1>2. DOMAIN ops = {1} /\ ops[1].evs = << Event(out.type, out.code, value) >>
  BY <1>1, SimpleOp
<1>3. \A n \in DOMAIN ops : \E w : ops[n] = SendSimple(out, w)[1]
  BY <1>1, <1>2
<1>4. out.type = "KEY" /\ Own(out, dev, x)
  BY <1>1, <1>3, SimplesLeave
<1>5. Event(out.type, out.code, value).value = value
  BY DEF Event
<1>6. value # 0
  BY <1>1, <1>2, <1>5 DEF LeftPressed, Leaves
<1> QED BY <1>4, <1>6

\* Nothing is written, nothing is left.
LEMMA NothingLeft ==
    ASSUME NEW dev, NEW x
    PROVE  ~LeftPressed(<<>>, dev, x) /\ Untouched(<<>>, dev, x)
BY DEF LeftPressed, Untouched

\* An output is as good as before after it was sent.
LEMMA StillLetsGo ==
    ASSUME NEW C, NEW out, NEW r, Fine(C, r, out), LetsGo(out, C)
    PROVE  LetsGo(r.out, C)
BY DEF Fine, LetsGo

\* For most outputs what they release does not depend on what they remember.
LEMMA FreesSame ==
    ASSUME NEW out, NEW new, NEW dev, NEW x,
           new.kind = out.kind, new.type = out.type, new.code = out.code,
           new.mods = out.mods, new.kind = "Debounce" => new.sent = out.sent
    PROVE  Frees(new, dev, x) <=> Frees(out, dev, x)
<1>1. /\ Own(new, dev, x) <=> Own(out, dev, x)
      /\ OwnCombo(new, dev, x) <=> OwnCombo(out, dev, x)
  BY DEF Own, OwnCombo
<1> QED BY <1>1 DEF Frees

\* Accelerated outputs only write their key, and a release once.
LEMMA AcceleratedLeaves ==
    ASSUME NEW C, NEW out \in OutputsOn(C), NEW value \in Int, NEW short \in BOOLEAN,
           NEW dev, NEW x, LeftPressed(SendAccelerated(out, value, short).ops, dev, x)
    PROVE  out.type = "KEY" /\ Own(out, dev, x) /\ value # 0
<1> DEFINE count == IF out.count < out.min THEN out.count + 1 ELSE out.min
           rate  == IF count < out.min THEN out.rate
                    ELSE IF out.rate + out.step > out.max THEN out.max
                    ELSE out.rate + out.step
           W     == WritesOn(C)
           one   == SendSimple(out, value)
           again == [i \in 1..(2 * rate) |->
                        SendSimple(out, IF i % 2 = 1 THEN 0 ELSE value)[1]]
           next  == [out EXCEPT !.count = count, !.rate = rate]
<1>1. CASE ~(short /\ value \in {1, -1})
  <2>1. SendAccelerated(out, value, short).ops = one
    BY <1>1 DEF SendAccelerated, Sends
  <2> QED BY <2>1, SimpleLeaves
<1>2. CASE short /\ value \in {1, -1}
  <2>1. SendAccelerated(out, value, short).ops = one \o again \o one
    <3>1. SendAccelerated(out, value, short) = Sends(one \o again \o one, next)
      BY <1>2 DEF SendAccelerated
    <3> HIDE DEF one, again, next
    <3> QED BY <3>1 DEF Sends
  <2>2. one \in Seq(W) /\ \A v \in Int : SendSimple(out, v)[1] \in W
    BY OutputFields, SendSimpleIn
  <2>3. again \in Seq(W)
    <3>1. 2 * rate \in Nat
      <4>1. /\ out.count \in Nat /\ out.min \in Nat /\ out.rate \in Nat
            /\ out.step \in Nat /\ out.max \in Nat
        BY OutputFields
      <4>2. rate \in Nat
        <5> HIDE DEF count
        <5> QED BY <4>1
      <4> HIDE DEF rate
      <4> QED BY <4>2
    <3>2. \A i \in 1..(2 * rate) :
            SendSimple(out, IF i % 2 = 1 THEN 0 ELSE value)[1] \in W
      <4> HIDE DEF rate, W
      <4> QED BY <2>2
    <3> HIDE DEF rate, W
    <3> QED BY <3>1, <3>2
  <2>4. \A n \in DOMAIN again : \E w : again[n] = SendSimple(out, w)[1]
    <3> HIDE DEF rate
    <3> QED OBVIOUS
  <2> HIDE DEF one, again, W
  <2>5. one \o again \in Seq(W)
    BY <2>2, <2>3, ConcatProperties
  <2>6. LeftPressed((one \o again) \o one, dev, x)
    BY <2>1
  <2>7. LeftPressed(one, dev, x) \/ LeftPressed(one \o again, dev, x)
    BY <2>2, <2>5, <2>6, LeftByOneOfTwo
  <2>8. LeftPressed(one, dev, x) \/ LeftPressed(again, dev, x)
    BY <2>2, <2>3, <2>7, LeftByOneOfTwo
  <2>9. LeftPressed(one, dev, x) => out.type = "KEY" /\ Own(out, dev, x)
    BY SimpleLeaves DEF one
  <2>10. LeftPressed(again, dev, x) => out.type = "KEY" /\ Own(out, dev, x)
    BY <2>4, SimplesLeave
  <2> QED BY <1>2, <2>8, <2>9, <2>10
<1> QED BY <1>1, <1>2

\* What an output leaves pressed it will have released.
LEMMA SendLeaves ==
    ASSUME NEW C, NEW out \in OutputsOn(C), LetsGo(out, C), NEW value \in Int,
           NEW short \in BOOLEAN, out.type = "KEY" => value \in {0, 1, 2},
           NEW dev, NEW x, LeftPressed(Send(out, value, short).ops, dev, x)
    PROVE  value # 0 /\ Frees(Send(out, value, short).out, dev, x)
<1>1. PICK r : r = Send(out, value, short)
  OBVIOUS
<1>2. Fine(C, r, out)
  BY <1>1, SendFine
<1>3. /\ r.out.kind = out.kind /\ r.out.type = out.type /\ r.out.code = out.code
      /\ r.out.mods = out.mods
  BY <1>2 DEF Fine
<1>4. ASSUME out.type = "KEY", Own(out, dev, x), value # 0,
             out.kind \in {"Simple", "Repeat", "Accelerate"}
      PROVE  value # 0 /\ Frees(r.out, dev, x)
  BY <1>3, <1>4 DEF Frees, Own
<1>5. CASE out.kind = "Simple"
  <2>1. r.ops = SendSimple(out, value)
    BY <1>1, <1>5 DEF Send, Sends
  <2> QED BY <1>1, <1>4, <1>5, <2>1, SimpleLeaves
<1>6. CASE out.kind = "Combo"
  <2>1. r = Sends(SendCombo(out, value), out)
    BY <1>1, <1>6 DEF Send
  <2>2. r.ops = SendCombo(out, value) /\ r.out = out
    BY <2>1 DEF Sends
  <2>3. out.type = "KEY" /\ out.mods \in Seq(C)
    BY <1>6, OutputFields DEF LetsGo
  <2>4. value # 0 /\ (OwnCombo(out, dev, x) \/ (dev = "kbd" /\ x \in ToSet(out.mods)))
    BY <1>1, <2>2, <2>3, ComboLeaves
  <2> QED BY <1>1, <1>6, <2>2, <2>3, <2>4 DEF Frees
<1>7. CASE out.kind = "Repeat"
  <2>1. PICK v : r.ops = SendSimple(out, v) /\ (value = 0 => v = 0)
    <3>1. r = SendRepeat(out, value)
      BY <1>1, <1>7 DEF Send
    <3>2. \/ r.ops = SendSimple(out, 1) /\ value = 1
          \/ r.ops = SendSimple(out, out.custom) /\ value = 2
          \/ r.ops = SendSimple(out, 0)
      BY <3>1 DEF SendRepeat, Sends
    <3> QED BY <3>2
  <2>2. out.type = "KEY" /\ Own(out, dev, x) /\ v # 0
    BY <1>1, <2>1, SimpleLeaves
  <2> QED BY <1>1, <1>4, <1>7, <2>1, <2>2
<1>8. CASE out.kind = "Macro"
  <2>1. r.ops = IF value = 1 THEN MacroOps(out.parts) ELSE <<>>
    BY <1>1, <1>8 DEF Send, Sends
  <2>2. LeftPressed(MacroOps(out.parts), dev, x)
    BY <1>1, <2>1, NothingLeft
  <2>3. MacroOps(out.parts) \in Seq(WritesOn(C))
    BY OutputFields, MacroOpsIn
  <2>4. dev \in VDevices /\ x \in C
    BY <2>2, <2>3, LeftOfThose
  <2> QED BY <1>8, <2>2, <2>4 DEF LetsGo
<1>9. CASE out.kind = "Accelerate"
  <2>1. r = SendAccelerated(out, value, short)
    BY <1>1, <1>9 DEF Send
  <2> QED BY <1>1, <1>4, <1>9, <2>1, AcceleratedLeaves
<1>10. CASE out.kind = "Debounce"
  <2>1. r = SendDebounced(out, value, short)
    BY <1>1, <1>10 DEF Send
  <2>2. \/ r = Sends(SendSimple(out, value), [out EXCEPT !.sent = value])
        \/ r = Sends(<<>>, out)
    BY <2>1 DEF SendDebounced
  <2>3. r = Sends(SendSimple(out, value), [out EXCEPT !.sent = value])
    <3>1. r = Sends(<<>>, out) => r.ops = <<>>
      BY DEF Sends
    <3> QED BY <1>1, <2>2, <3>1, NothingLeft
  <2>4. r.ops = SendSimple(out, value) /\ r.out.sent = value
    <3>1. r.ops = SendSimple(out, value) /\ r.out = [out EXCEPT !.sent = value]
      BY <2>3 DEF Sends
    <3>2. [out EXCEPT !.sent = value].sent = value
      BY DEF OutputsOn
    <3> QED BY <3>1, <3>2
  <2>5. out.type = "KEY" /\ Own(out, dev, x) /\ value # 0
    BY <1>1, <2>4, SimpleLeaves
  <2> QED BY <1>1, <1>3, <1>10, <2>4, <2>5 DEF Frees, Own
<1>11. out.kind \in Kinds
  BY OutputFields
<1> QED BY <1>5, <1>6, <1>7, <1>8, <1>9, <1>10, <1>11 DEF Kinds
\* A release writes to all the output has pressed.
LEMMA SendReleases ==
    ASSUME NEW C, Junk \notin EventsOn(C), NEW out \in OutputsOn(C), NEW short \in BOOLEAN,
           NEW dev, NEW x, Frees(out, dev, x)
    PROVE  ~Untouched(Send(out, 0, short).ops, dev, x)
<1>1. PICK ops : ops = Send(out, 0, short).ops
  OBVIOUS
<1>2. out.type = "KEY" /\ out.code \in C /\ out.mods \in Seq(C) /\ out.kind \in Kinds
  BY OutputFields DEF Frees
<1>3. CASE out.kind = "Combo"
  <2>1. ops = SendCombo(out, 0)
    BY <1>1, <1>3 DEF Send, Sends
  <2>2. OwnCombo(out, dev, x) \/ (dev = "kbd" /\ x \in ToSet(out.mods))
    BY <1>3 DEF Frees
  <2> QED BY <1>1, <1>2, <2>1, <2>2, ComboReleases
<1>4. CASE out.kind \in {"Simple", "Repeat", "Accelerate", "Debounce"}
  <2>1. Own(out, dev, x) /\ (out.kind = "Debounce" => out.sent # 0)
    BY <1>4 DEF Frees
  <2>2. ops = SendSimple(out, 0)
    BY <1>1, <1>4, <2>1 DEF Send, SendRepeat, SendAccelerated, SendDebounced, Sends
  <2> QED BY <1>1, <1>2, <2>1, <2>2, SimpleReleases
<1>5. out.kind # "Macro"
  BY DEF Frees
<1> QED BY <1>2, <1>3, <1>4, <1>5 DEF Kinds

\* Until then it will.
LEMMA SendStillFrees ==
    ASSUME NEW C, NEW out \in OutputsOn(C), NEW value \in {1, 2}, NEW short \in BOOLEAN,
           NEW dev, NEW x, Frees(out, dev, x)
    PROVE  Frees(Send(out, value, short).out, dev, x)
<1>1. PICK r : r = Send(out, value, short)
  OBVIOUS
<1>2. Fine(C, r, out)
  BY <1>1, SendFine
<1>3. /\ r.out.kind = out.kind /\ r.out.type = out.type /\ r.out.code = out.code
      /\ r.out.mods = out.mods
  BY <1>2 DEF Fine
<1>4. CASE out.kind # "Debounce"
  <2>1. Frees(r.out, dev, x) <=> Frees(out, dev, x)
    BY <1>3, <1>4, FreesSame
  <2> QED BY <1>1, <2>1
<1>5. CASE out.kind = "Debounce"
  <2>1. r = SendDebounced(out, value, short)
    BY <1>1, <1>5 DEF Send
  <2>2. PICK new : new = [out EXCEPT !.sent = value]
    OBVIOUS
  <2>3. r.out = new \/ r.out = out
    BY <2>1, <2>2 DEF SendDebounced, Sends
  <2>4. out.sent # 0 /\ new.sent # 0
    <3>1. new.sent = value
      BY <2>2 DEF OutputsOn
    <3> QED BY <1>5, <3>1 DEF Frees
  <2>5. r.out.sent # 0
    BY <2>3, <2>4
  <2> QED BY <1>1, <1>3, <1>5, <2>5 DEF Frees, Own
<1> QED BY <1>4, <1>5

\* A click leaves nothing.
LEMMA ClickLeaves ==
    ASSUME NEW C, Junk \notin EventsOn(C), NEW out \in OutputsOn(C), LetsGo(out, C),
           out.type = "KEY", NEW short \in BOOLEAN, NEW dev, NEW x
    PROVE  ~LeftPressed(SendClick(out, short).ops, dev, x)
<1>1. PICK d : d = Send(out, 1, short)
  OBVIOUS
<1>2. Fine(C, d, out)
  BY <1>1, SendFine
<1>3. PICK mid \in OutputsOn(C) : mid = d.out
  BY <1>2 DEF Fine
<1>4. mid.type = "KEY" /\ LetsGo(mid, C)
  BY <1>2, <1>3, StillLetsGo DEF Fine
<1>5. PICK u : u = Send(mid, 0, TRUE)
  OBVIOUS
<1>6. Fine(C, u, mid)
  <2>1. TRUE \in BOOLEAN
    OBVIOUS
  <2>2. \A late \in BOOLEAN : Fine(C, Send(mid, 0, late), mid)
    BY SendFine
  <2> QED BY <1>5, <2>1, <2>2, Zenon
<1>7. SendClick(out, short).ops = d.ops \o u.ops
  BY <1>1, <1>3, <1>5 DEF SendClick, Sends
<1>8. SUFFICES ASSUME LeftPressed(d.ops \o u.ops, dev, x) PROVE FALSE
  BY <1>7
<1>9. d.ops \in Seq(WritesOn(C)) /\ u.ops \in Seq(WritesOn(C))
  BY <1>2, <1>6 DEF Fine
<1>10. \/ LeftPressed(u.ops, dev, x)
       \/ Untouched(u.ops, dev, x) /\ LeftPressed(d.ops, dev, x)
  BY <1>8, <1>9, LeftByOneOfTwo
<1>11. ~LeftPressed(u.ops, dev, x)
  <2>1. \A late \in BOOLEAN : ~LeftPressed(Send(mid, 0, late).ops, dev, x)
    BY <1>4, SendLeaves
  <2> QED BY <1>5, <2>1, Zenon
<1>12. LeftPressed(d.ops, dev, x) => Frees(mid, dev, x)
  BY <1>1, <1>3, SendLeaves
<1>13. Frees(mid, dev, x) => ~Untouched(u.ops, dev, x)
  <2>1. \A late \in BOOLEAN :
          Frees(mid, dev, x) => ~Untouched(Send(mid, 0, late).ops, dev, x)
    BY SendReleases
  <2> QED BY <1>5, <2>1, Zenon
<1> QED BY <1>10, <1>11, <1>12, <1>13

\* From any input to any output: only a key leaves something pressed, and
\* what the output then releases.
LEMMA SendFromLeaves ==
    ASSUME NEW C, Junk \notin EventsOn(C), NEW out \in OutputsOn(C), LetsGo(out, C),
           NEW source, NEW value \in Int, NEW short \in BOOLEAN,
           source = "KEY" => value \in {0, 1, 2},
           NEW dev, NEW x, LeftPressed(SendFrom(out, source, value, short).ops, dev, x)
    PROVE  /\ source = "KEY" /\ value # 0
           /\ Frees(SendFrom(out, source, value, short).out, dev, x)
<1>1. PICK r : r = SendFrom(out, source, value, short)
  OBVIOUS
<1>2. Fine(C, r, out)
  BY <1>1, SendFromFine
<1>3. ASSUME NEW v \in Int, r = Send(out, v, short), out.type = "KEY" => v \in {0, 1, 2}
      PROVE  v # 0 /\ Frees(r.out, dev, x) /\ out.type = "KEY"
  <2>1. LeftPressed(Send(out, v, short).ops, dev, x)
    BY <1>1, <1>3
  <2>2. v # 0 /\ Frees(Send(out, v, short).out, dev, x)
    BY <1>3, <2>1, SendLeaves
  <2>3. r.out.type = "KEY"
    BY <1>3, <2>2 DEF Frees
  <2> QED BY <1>2, <1>3, <2>2, <2>3 DEF Fine
<1>4. CASE out.type = source
  <2> DEFINE v == IF source # "KEY" /\ Opposite(out.sign, value) THEN -value ELSE value
  <2>1. v \in Int /\ (out.type = "KEY" => v \in {0, 1, 2} /\ v = value)
    BY <1>4
  <2>2. r = Send(out, v, short)
    BY <1>1, <1>4 DEF SendFrom
  <2> HIDE DEF v
  <2> QED BY <1>1, <1>3, <1>4, <2>1, <2>2
<1>5. CASE out.type # source /\ source = "REL" /\ out.type = "KEY"
  <2>1. r = SendClick(out, short)
    BY <1>1, <1>5 DEF SendFrom
  <2> QED BY <1>1, <1>5, <2>1, ClickLeaves
<1>6. CASE out.type # source /\ source = "KEY" /\ out.type = "REL" /\ value # 0
  <2> DEFINE v == IF out.sign = "Negative" THEN -1 ELSE 1
  <2>1. v \in Int /\ out.type # "KEY"
    BY <1>6
  <2>2. r = Send(out, v, short)
    BY <1>1, <1>6 DEF SendFrom
  <2> HIDE DEF v
  <2> QED BY <1>3, <2>1, <2>2
<1>7. CASE /\ out.type # source
           /\ ~(source = "REL" /\ out.type = "KEY")
           /\ ~(source = "KEY" /\ out.type = "REL" /\ value # 0)
  <2>1. r = Sends(<<>>, out)
    BY <1>1, <1>7 DEF SendFrom
  <2>2. r.ops = <<>>
    BY <2>1 DEF Sends
  <2> QED BY <1>1, <2>2, NothingLeft
<1> QED BY <1>4, <1>5, <1>6, <1>7

\* A key's release writes to all the output has pressed, its other events
\* leave the output about to do so.
LEMMA SendFromReleases ==
    ASSUME NEW C, Junk \notin EventsOn(C), NEW out \in OutputsOn(C), NEW short \in BOOLEAN,
           NEW dev, NEW x, Frees(out, dev, x)
    PROVE  /\ ~Untouched(SendFrom(out, "KEY", 0, short).ops, dev, x)
           /\ \A value \in {1, 2} : Frees(SendFrom(out, "KEY", value, short).out, dev, x)
<1>1. out.type = "KEY"
  BY DEF Frees
<1>2. \A value \in {0, 1, 2} : SendFrom(out, "KEY", value, short) = Send(out, value, short)
  BY <1>1 DEF SendFrom
<1>3. ~Untouched(Send(out, 0, short).ops, dev, x)
  BY SendReleases
<1>4. \A value \in {1, 2} : Frees(Send(out, value, short).out, dev, x)
  BY SendStillFrees
<1> QED BY <1>2, <1>3, <1>4
-----------------------------------------------------------------------------
(* A key that one output alone writes.                                     *)

\* A write that leaves a key pressed presses it, and one that has no event of
\* it keeps it pressed.
LEMMA LeavesApplied ==
    ASSUME NEW down, NEW op, NEW n \in Nat, DOMAIN op.evs = 1..n, NEW junk,
           NEW evs,
           evs = [i \in DOMAIN op.evs |-> IF op.evs[i] = Junk THEN junk ELSE op.evs[i]],
           NEW dev, NEW x, Pressable(dev, x),
           \A i \in 1..n : op.evs[i] = Junk => junk.type # "KEY" \/ junk.code # x,
           Leaves(op, dev, x) \/ (~Touches(op, dev, x) /\ <<dev, x>> \in down)
    PROVE  <<dev, x>> \in Apply(down, op.dev, evs)
<1> DEFINE changes(code) == {i \in DOMAIN evs : /\ Accepts(op.dev, evs[i])
                                                /\ evs[i].type = "KEY" /\ evs[i].code = code
                                                /\ evs[i].value # 2}
           last == {i \in DOMAIN evs : /\ i = Max({0} \cup changes(evs[i].code))
                                       /\ evs[i].value # 0}
           pressed == {evs[i].code : i \in last}
<1>1. Apply(down, op.dev, evs) =
        {d \in down : d[1] = op.dev => changes(d[2]) = {}} \cup ({op.dev} \X pressed)
  BY DEF Apply
<1>2. DOMAIN evs = 1..n
  OBVIOUS
<1>3. ASSUME dev = op.dev
      PROVE  \A i \in 1..n : i \in changes(x) <=> Alters(op.evs[i], x)
  <2> SUFFICES ASSUME NEW i \in 1..n PROVE i \in changes(x) <=> Alters(op.evs[i], x)
    OBVIOUS
  <2>1. CASE op.evs[i] = Junk
    <3>1. evs[i] = junk
      BY <2>1
    <3> QED BY <2>1, <3>1 DEF Alters
  <2>2. CASE op.evs[i] # Junk
    <3>1. evs[i] = op.evs[i]
      BY <2>2
    <3>2. evs[i].type = "KEY" /\ evs[i].code = x => Accepts(dev, evs[i])
      BY DEF Pressable, Accepts, Event
    <3> QED BY <1>2, <1>3, <2>2, <3>1, <3>2 DEF Alters, Changes
  <2> QED BY <2>1, <2>2
<1>4. CASE Leaves(op, dev, x)
  <2> DEFINE S == changes(x)
  <2>1. /\ dev = op.dev
        /\ \E i \in 1..n : /\ Alters(op.evs[i], x) /\ op.evs[i].value # 0
                           /\ \A j \in 1..n : j > i => ~Alters(op.evs[j], x)
    BY <1>4 DEF Leaves
  <2>2. PICK i \in 1..n : /\ Alters(op.evs[i], x) /\ op.evs[i].value # 0
                          /\ \A j \in 1..n : j > i => ~Alters(op.evs[j], x)
    BY <2>1
  <2>3. S \in SUBSET (1..n) /\ \A j \in 1..n : j \in S <=> Alters(op.evs[j], x)
    BY <1>2, <1>3, <2>1
  <2>4. evs[i] = op.evs[i] /\ evs[i].code = x
    BY <2>2 DEF Alters, Changes
  <2> HIDE DEF S
  <2>5. Max({0} \cup S) = i
    <3> DEFINE m == Max({0} \cup S)
    <3>1. m \in {0} \cup S /\ \A j \in S : j <= m
      BY <2>3, MaxOfIndices
    <3>2. i \in S
      BY <2>2, <2>3
    <3> HIDE DEF m
    <3>3. i <= m
      BY <3>1, <3>2
    <3>4. m \in 1..n
      BY <2>3, <3>1, <3>3
    <3>5. ~(m > i)
      <4>1. m \in S
        BY <3>1, <3>4
      <4> QED BY <2>2, <2>3, <3>4, <4>1
    <3>6. m = i
      BY <3>3, <3>4, <3>5
    <3> QED BY <3>6 DEF m
  <2>6. i \in last
    <3>1. i = Max({0} \cup changes(evs[i].code)) /\ evs[i].value # 0
      BY <2>2, <2>4, <2>5 DEF S
    <3> QED BY <1>2, <3>1
  <2>7. x \in pressed
    <3> HIDE DEF last
    <3> QED BY <2>4, <2>6
  <2> HIDE DEF changes, pressed
  <2> QED BY <1>1, <2>1, <2>7
<1>5. CASE ~Touches(op, dev, x) /\ <<dev, x>> \in down
  <2>1. dev = op.dev => changes(x) = {}
    <3>1. ASSUME dev = op.dev, NEW i \in changes(x) PROVE FALSE
      <4>1. i \in 1..n
        BY <1>2
      <4>2. Alters(op.evs[i], x)
        <5> HIDE DEF changes
        <5> QED BY <1>3, <3>1, <4>1
      <4> QED BY <1>5, <3>1, <4>1, <4>2 DEF Touches
    <3> HIDE DEF changes
    <3> QED BY <3>1
  <2> HIDE DEF changes, pressed
  <2>2. <<dev, x>> \in {d \in down : d[1] = op.dev => changes(d[2]) = {}}
    BY <1>5, <2>1
  <2> QED BY <1>1, <2>2
<1> QED BY <1>4, <1>5

\* The codes that an output mentions.
Mentions(out) ==
    {out.code} \cup ToSet(out.mods)
        \cup (UNION {{part.code} \cup ToSet(part.mods) : part \in ToSet(out.parts)})

\* They are all it needs ...
LEMMA OnMentions ==
    ASSUME NEW C, NEW out \in OutputsOn(C)
    PROVE  out \in OutputsOn(Mentions(out))
<1> DEFINE M == Mentions(out)
<1>1. out.mods \in Seq(M) /\ out.code \in M
  <2>1. out.mods \in Seq(C)
    BY OutputFields
  <2>2. \A i \in DOMAIN out.mods : out.mods[i] \in M
    BY DEF Mentions, ToSet
  <2> HIDE DEF M
  <2>3. out.mods \in Seq(M)
    BY <2>1, <2>2
  <2>4. out.code \in M
    BY DEF M, Mentions
  <2> QED BY <2>3, <2>4
<1>2. out.parts \in Seq(PartsOn(M))
  <2>1. out.parts \in Seq(PartsOn(C))
    BY DEF OutputsOn
  <2>2. ASSUME NEW i \in DOMAIN out.parts PROVE out.parts[i] \in PartsOn(M)
    <3>1. PICK part \in PartsOn(C) : part = out.parts[i]
      <4> DEFINE P == PartsOn(C)
      <4>1. out.parts \in Seq(P)
        BY <2>1
      <4> HIDE DEF P
      <4>2. out.parts[i] \in P
        BY <4>1
      <4> QED BY <4>2 DEF P
    <3>2. part.code \in M /\ \A n \in DOMAIN part.mods : part.mods[n] \in M
      <4>1. part \in ToSet(out.parts)
        BY <3>1 DEF ToSet
      <4>2. {part.code} \cup ToSet(part.mods) \subseteq M
        BY <4>1 DEF Mentions
      <4> QED BY <4>2 DEF ToSet
    <3> HIDE DEF M
    <3>3. part.mods \in Seq(M)
      <4>1. part.mods \in Seq(C)
        BY DEF PartsOn
      <4> QED BY <3>2, <4>1
    <3> QED BY <3>1, <3>2, <3>3 DEF PartsOn
  <2> DEFINE P == PartsOn(C)
             Q == PartsOn(M)
  <2>3. out.parts \in Seq(P) /\ \A i \in DOMAIN out.parts : out.parts[i] \in Q
    BY <2>1, <2>2
  <2> HIDE DEF P, Q
  <2>4. out.parts \in Seq(Q)
    BY <2>3
  <2> QED BY <2>4 DEF Q
<1> HIDE DEF M
<1>3. out \in OutputsOn(M)
  BY <1>1, <1>2 DEF OutputsOn
<1> QED BY <1>3 DEF M

\* ... and all it writes.
LEMMA OthersUntouched ==
    ASSUME NEW C, NEW out \in OutputsOn(C), NEW source, NEW value \in Int,
           NEW short \in BOOLEAN, source = "KEY" => value \in {0, 1, 2},
           NEW dev, NEW x, x \notin Mentions(out)
    PROVE  Untouched(SendFrom(out, source, value, short).ops, dev, x)
<1> DEFINE M == Mentions(out)
<1>1. out \in OutputsOn(M) /\ x \notin M
  BY OnMentions
<1> HIDE DEF M
<1>2. PICK r : r = SendFrom(out, source, value, short)
  OBVIOUS
<1>3. Fine(M, r, out)
  BY <1>1, <1>2, SendFromFine
<1>4. ASSUME NEW n \in DOMAIN r.ops PROVE ~Touches(r.ops[n], dev, x)
  <2> DEFINE W == WritesOn(M)
  <2>1. r.ops \in Seq(W)
    BY <1>3 DEF Fine
  <2> HIDE DEF W
  <2>2. PICK op \in W : op = r.ops[n]
    BY <2>1
  <2>3. op.evs \in Seq(EventsOn(M) \cup {Junk})
    BY DEF W, WritesOn
  <2> DEFINE E == EventsOn(M) \cup {Junk}
  <2>4. op.evs \in Seq(E)
    BY <2>3
  <2> HIDE DEF E
  <2>5. \A i \in DOMAIN op.evs : op.evs[i] \in E
    BY <2>4
  <2>6. \A ev \in E : ~Alters(ev, x)
    BY <1>1 DEF E, EventsOn, Alters, Changes
  <2> QED BY <2>2, <2>5, <2>6 DEF Touches
<1> QED BY <1>2, <1>4 DEF Untouched

\* It does not mention more for having been sent.
LEMMA MentionsSame ==
    ASSUME NEW C, NEW r, NEW out, Fine(C, r, out)
    PROVE  Mentions(r.out) = Mentions(out)
BY DEF Fine, Mentions

\* The simple output of a key writes what its key does.
LEMMA SimpleSends ==
    ASSUME NEW out, out.kind = "Simple", out.type = "KEY", NEW value \in {0, 1, 2},
           Event("KEY", out.code, value) # Junk
    PROVE  \A short, dev :
             /\ LeftPressed(SendFrom(out, "KEY", value, short).ops, dev, out.code)
                  <=> dev = SimpleDevice("KEY", out.code) /\ value = 1
             /\ Untouched(SendFrom(out, "KEY", value, short).ops, dev, out.code)
                  <=> dev # SimpleDevice("KEY", out.code) \/ value = 2
<1> TAKE short, dev
<1>1. PICK ops : ops = SendFrom(out, "KEY", value, short).ops
  OBVIOUS
<1>2. PICK ev : ev = Event("KEY", out.code, value)
  OBVIOUS
<1>3. ops = SendSimple(out, value)
  <2>1. SendFrom(out, "KEY", value, short) = Send(out, value, short)
    BY DEF SendFrom
  <2>2. Send(out, value, short) = Sends(SendSimple(out, value), out)
    BY DEF Send
  <2> QED BY <1>1, <2>1, <2>2 DEF Sends
<1>4. /\ DOMAIN ops = {1} /\ ops[1].dev = SimpleDevice("KEY", out.code)
      /\ DOMAIN ops[1].evs = {1} /\ ops[1].evs[1] = ev
  BY <1>2, <1>3, SimpleOp
<1>5. ev # Junk /\ ev.value = value /\ ev.type = "KEY" /\ ev.code = out.code
  BY <1>2 DEF Event
<1>6. Alters(ev, out.code) <=> value # 2
  BY <1>5 DEF Alters, Changes
<1>7. Touches(ops[1], dev, out.code) <=> dev = SimpleDevice("KEY", out.code) /\ value # 2
  BY <1>4, <1>6 DEF Touches
<1>8. Leaves(ops[1], dev, out.code) <=> dev = SimpleDevice("KEY", out.code) /\ value = 1
  <2>1. \A i, j \in {1} : ~(j > i)
    OBVIOUS
  <2> QED BY <1>4, <1>5, <1>6, <2>1 DEF Leaves
<1>9. LeftPressed(ops, dev, out.code) <=> Leaves(ops[1], dev, out.code)
  <2>1. \A i, j \in {1} : ~(j > i)
    OBVIOUS
  <2> QED BY <1>4, <2>1 DEF LeftPressed
<1>10. Untouched(ops, dev, out.code) <=> ~Touches(ops[1], dev, out.code)
  BY <1>4 DEF Untouched
<1> QED BY <1>1, <1>7, <1>8, <1>9, <1>10
=============================================================================
