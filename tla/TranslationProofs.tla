------------------------- MODULE TranslationProofs -------------------------
(***************************************************************************)
(* For every device and configuration: a key without <signal> reaches the  *)
(* virtual device as if nobody had grabbed the real one, what is pressed   *)
(* is released when the user lets go, if the outputs release what they     *)
(* press, and a simple output is pressed while its key is, if it shares    *)
(* its key with no other; each up to what sendCombo() writes from an       *)
(* uninitialised element.                                                  *)
(***************************************************************************)
EXTENDS Translation, OutEventProofs

-----------------------------------------------------------------------------
(* The inductive invariant.                                                *)

InputEvents ==
    [type : {"KEY"}, code : Keys, value : {0, 1, 2}]
    \cup [type : {"REL"}, code : Axes, value : {-1, 1}]

\* What a device writes: its outputs, or one event passed on.
Ours == Seq(WritesOn(WrittenBy(device)))
PassedOn(ev) == Local(WriteTo(OwnDevice, <<ev>>))

Flags == freed \in BOOLEAN /\ reading \in BOOLEAN /\ crashed \in BOOLEAN

Typed ==
    /\ device \in Devices
    /\ held \in SUBSET Keys
    /\ repeating \in held \cup {NoKey}
    /\ queue \in Seq(InputEvents) /\ Len(queue) <= QueueMax
    /\ batch \in Seq(InputEvents) /\ Len(batch) <= BufferSize
    /\ todo \in Ours \/ \E ev \in InputEvents : todo = <<PassedOn(ev)>>
    /\ outputs \in Seq(OutputsOn(WrittenBy(device)))
    /\ window \in Windows /\ known \in Windows
    /\ Flags
    /\ \A d \in down : d[1] \in VDevices
    /\ stale \subseteq {junk.code : junk \in JunkEvents}
    /\ disturbed \in {"never", "by a window", "by a reread"}

\* The outputs are those for the window the daemon knows of, but for what
\* they remember.
OutputsForKnown ==
    /\ Len(outputs) = Len(Config[known])
    /\ \A j \in DOMAIN outputs :
          /\ outputs[j].kind = Config[known][j].kind
          /\ outputs[j].code = Config[known][j].code

\* What some events do to a key: nothing, or the last one presses it.
Quiet(evs, k) == \A i \in DOMAIN evs : ~Changes(evs[i], k)
Presses(evs, k) ==
    \E i \in DOMAIN evs :
        /\ Changes(evs[i], k) /\ evs[i].value = 1
        /\ \A j \in DOMAIN evs : j > i => ~Changes(evs[j], k)

\* A key is pressed once the writes t under way are done, and D is pressed
\* now ...
Written(t, D, k) ==
    \/ \E ev \in InputEvents : t = <<PassedOn(ev)>> /\ Changes(ev, k) /\ ev.value = 1
    \/ /\ \A ev \in InputEvents : t = <<PassedOn(ev)>> => ~Changes(ev, k)
       /\ <<OwnDevice, k>> \in D

\* ... and once the events of the batch b and the queue q are handled.
Handled(q, b, t, D, k) ==
    \/ Presses(q, k)
    \/ Quiet(q, k) /\ Presses(b, k)
    \/ Quiet(q, k) /\ Quiet(b, k) /\ Written(t, D, k)

\* A key without <signal> will be what it is on the real device, unless some
\* uninitialised element was an event of it.
WillMirror ==
    disturbed # "by a reread" /\ ~crashed =>
        \A k \in PassedKeys \ stale : k \in held <=> Handled(queue, batch, todo, down, k)

IInv == Typed /\ OutputsForKnown /\ WillMirror

-----------------------------------------------------------------------------
(* Types.                                                                  *)

\* The outputs of any window fit the inputs of the device.
LEMMA ConfigFits ==
    ASSUME NEW d \in Devices, NEW w \in Windows
    PROVE  /\ About[d].config[w] \in Seq(OutputsOn(WrittenBy(d)))
           /\ Len(About[d].config[w]) = Len(About[d].inputs)
BY ConfigIsOfOutputs, ConfigMatchesInputs

\* A bound is a number.
LEMMA QueueMaxNat ==
    ASSUME device \in Devices
    PROVE  QueueMax \in Nat
BY QueueMaxAssumption DEF QueueMax

\* The same where the types are right.
LEMMA QueueMaxTyped ==
    ASSUME Typed
    PROVE  QueueMax \in Nat
BY QueueMaxNat DEF Typed

\* The invariant's types: at the start, and after every step.
LEMMA InitTyped ==
    ASSUME Init
    PROVE  Typed
<1>1. outputs \in Seq(OutputsOn(WrittenBy(device)))
  BY ConfigFits, WindowsAssumption DEF Init, Config
<1>2. todo \in Ours /\ queue \in Seq(InputEvents) /\ batch \in Seq(InputEvents)
  BY DEF Init, Ours
<1>3. Flags
  BY Zenon DEF Init, Flags
<1>4. /\ Len(queue) <= QueueMax /\ Len(batch) <= BufferSize
      /\ held \in SUBSET Keys /\ repeating \in held \cup {NoKey}
      /\ window \in Windows /\ known \in Windows
      /\ \A d \in down : d[1] \in VDevices
      /\ stale \subseteq {junk.code : junk \in JunkEvents}
      /\ disturbed \in {"never", "by a window", "by a reread"}
  BY QueueMaxNat, WindowsAssumption DEF Init, BufferSize
<1> QED BY <1>1, <1>2, <1>3, <1>4 DEF Init, Typed

\* What is constant for a device stays so.
LEMMA SameDevice ==
    ASSUME [Next]_vars
    PROVE  /\ device' = device
           /\ Keys' = Keys /\ Axes' = Axes /\ Inputs' = Inputs /\ Config' = Config
           /\ InputEvents' = InputEvents /\ Ours' = Ours /\ OwnDevice' = OwnDevice
           /\ PassedKeys' = PassedKeys
           /\ WrittenBy(device)' = WrittenBy(device) /\ QueueMax' = QueueMax
<1>1. device' = device
  BY DEF Next, PressKey, ReleaseKey, RepeatKey, Turn, Outside, ThreadStep, ReadBatch,
         Translate, PassThrough, Write, LoseRest, Crash, ChangeWindow, StopReading,
         StartReading, vars
<1> QED BY <1>1 DEF Keys, Axes, Inputs, Config, InputEvents, Ours, OwnDevice, DevType,
                    PassedKeys, PassedBy, WrittenBy, QueueMax

\* Truth values stay such.
LEMMA NextFlags ==
    ASSUME Flags, [Next]_vars
    PROVE  Flags'
BY Zenon DEF Next, PressKey, ReleaseKey, RepeatKey, Turn, Outside, ThreadStep, ReadBatch,
       Translate, PassThrough, Write, LoseRest, Crash, ChangeWindow, StopReading,
       StartReading, vars, threadVars, Flags

\* Only a write adds to what uninitialised elements were events of, and it is
\* what they hold.
LEMMA NextStale ==
    ASSUME [Next]_vars
    PROVE  /\ stale \subseteq stale'
           /\ stale' # stale => Write
           /\ stale' \subseteq stale \cup {junk.code : junk \in JunkEvents}
<1>1. CASE Write
  BY <1>1 DEF Write
<1>2. CASE ~Write
  BY <1>2 DEF Next, PressKey, ReleaseKey, RepeatKey, Turn, Outside, ThreadStep, ReadBatch,
         Translate, PassThrough, LoseRest, Crash, ChangeWindow, StopReading,
         StartReading, vars
<1> QED BY <1>1, <1>2

\* The same of a write alone.
LEMMA NextStaleWrite == Write => stale \subseteq stale'
BY DEF Write

\* What is written, and what is not initialised in it.
LEMMA WriteIs ==
    ASSUME Write
    PROVE  \E junk \in JunkEvents : \E evs :
              /\ evs = [i \in DOMAIN Head(todo).evs |->
                          IF Head(todo).evs[i] = Junk THEN junk ELSE Head(todo).evs[i]]
              /\ down' = Apply(down, Head(todo).dev, evs)
              /\ \A x : x \notin stale' => \A i \in DOMAIN Head(todo).evs :
                    Head(todo).evs[i] = Junk => junk.type # "KEY" \/ junk.code # x
<1>1. PICK op : op = Head(todo)
  OBVIOUS
<1>2. PICK junk \in JunkEvents :
        /\ down' = Apply(down, op.dev,
                         [i \in DOMAIN op.evs |-> IF op.evs[i] = Junk THEN junk ELSE op.evs[i]])
        /\ stale' = stale \cup {junk.code : i \in {i \in DOMAIN op.evs :
                                    op.evs[i] = Junk /\ junk.type = "KEY"}}
  BY <1>1 DEF Write
<1>3. PICK evs : evs = [i \in DOMAIN op.evs |-> IF op.evs[i] = Junk THEN junk ELSE op.evs[i]]
  OBVIOUS
<1>4. ASSUME NEW i \in DOMAIN op.evs, op.evs[i] = Junk, junk.type = "KEY"
      PROVE  junk.code \in stale'
  <2>1. i \in {n \in DOMAIN op.evs : op.evs[n] = Junk /\ junk.type = "KEY"}
    BY <1>4
  <2> QED BY <1>2, <2>1
<1> QED BY <1>1, <1>2, <1>3, <1>4

\* An event that arrives keeps the queue in its bound.
LEMMA ArrivesTyped ==
    ASSUME Typed, NEW ev \in InputEvents, Arrives(ev)
    PROVE  queue' \in Seq(InputEvents) /\ Len(queue') <= QueueMax
<1>1. CASE reading
  <2>1. queue' = Append(queue, ev) /\ Len(queue) < QueueMax /\ queue \in Seq(InputEvents)
    BY <1>1 DEF Arrives, Typed
  <2>2. QueueMax \in Nat
    BY QueueMaxTyped
  <2> QED BY <2>1, <2>2, AppendProperties
<1>2. CASE ~reading
  BY <1>2 DEF Arrives, Typed
<1> QED BY <1>1, <1>2

\* What the user and the kernel change.
InputTyped ==
    /\ held \in SUBSET Keys
    /\ repeating \in held \cup {NoKey}
    /\ queue \in Seq(InputEvents) /\ Len(queue) <= QueueMax
    /\ disturbed \in {"never", "by a window", "by a reread"}

\* What the thread and the main thread change.
WorkTyped ==
    /\ batch \in Seq(InputEvents) /\ Len(batch) <= BufferSize
    /\ todo \in Ours \/ \E ev \in InputEvents : todo = <<PassedOn(ev)>>
    /\ outputs \in Seq(OutputsOn(WrittenBy(device)))
    /\ window \in Windows /\ known \in Windows
    /\ \A d \in down : d[1] \in VDevices

\* The first half of a queue is read, the second stays.
LEMMA ReadBatchTyped ==
    ASSUME Typed, ReadBatch
    PROVE  \E n \in 1..Len(queue) :
              /\ batch' = SubSeq(queue, 1, n) /\ queue' = SubSeq(queue, n + 1, Len(queue))
              /\ batch' \in Seq(InputEvents) /\ queue' \in Seq(InputEvents)
              /\ Len(batch') <= BufferSize /\ Len(queue') <= QueueMax
<1> DEFINE n == IF Len(queue) < BufferSize THEN Len(queue) ELSE BufferSize
<1>1. /\ queue \in Seq(InputEvents) /\ Len(queue) \in Nat /\ Len(queue) <= QueueMax
      /\ queue # <<>>
  <2>1. queue \in Seq(InputEvents) /\ Len(queue) <= QueueMax
    BY DEF Typed
  <2>2. queue # <<>>
    BY DEF ReadBatch
  <2> QED BY <2>1, <2>2
<1>2. n \in 1..Len(queue) /\ n <= BufferSize
  BY <1>1 DEF BufferSize
<1>3. batch' = SubSeq(queue, 1, n) /\ queue' = SubSeq(queue, n + 1, Len(queue))
  BY DEF ReadBatch
<1> HIDE DEF n
<1>4. \A i \in 1..Len(queue) : queue[i] \in InputEvents
  BY <1>1
<1>5. SubSeq(queue, 1, n) \in Seq(InputEvents) /\ Len(SubSeq(queue, 1, n)) = n
  BY <1>2, <1>4, SubSeqProperties
<1>6. /\ SubSeq(queue, n + 1, Len(queue)) \in Seq(InputEvents)
      /\ Len(SubSeq(queue, n + 1, Len(queue))) <= Len(queue)
  <2>1. \A i \in (n + 1)..Len(queue) : queue[i] \in InputEvents
    BY <1>1, <1>2, <1>4
  <2>2. n + 1 \in Int /\ Len(queue) \in Int
    BY <1>1, <1>2
  <2>3. SubSeq(queue, n + 1, Len(queue)) \in Seq(InputEvents)
        /\ Len(SubSeq(queue, n + 1, Len(queue))) =
             IF n + 1 <= Len(queue) THEN Len(queue) - (n + 1) + 1 ELSE 0
    BY <2>1, <2>2, SubSeqProperties
  <2> QED BY <1>1, <1>2, <2>3
<1>7. Len(batch') <= BufferSize /\ Len(queue') <= QueueMax
  <2>1. QueueMax \in Nat
    BY QueueMaxTyped
  <2> QED BY <1>1, <1>2, <1>3, <1>5, <1>6, <2>1 DEF BufferSize
<1> QED BY <1>2, <1>3, <1>5, <1>6, <1>7

\* To have nothing to write is the device's own.
LEMMA NothingIsOurs == <<>> \in Ours
BY DEF Ours

\* The write of an output.
LEMMA OursIn ==
    ASSUME NEW ops \in Ours
    PROVE  /\ AtOnce(ops) \in Ours
           /\ ops # <<>> => Head(ops) \in WritesOn(WrittenBy(device)) /\ Tail(ops) \in Ours
<1> DEFINE W == WritesOn(WrittenBy(device))
<1>1. CASE ops = <<>>
  BY <1>1 DEF AtOnce
<1>2. CASE ops # <<>>
  <2>1. 1 \in 1..Len(ops) /\ ops[1] \in W /\ ops \in Seq(W)
    BY <1>2 DEF Ours
  <2>2. Local(ops[1]) \in W
    BY <2>1 DEF Local, WritesOn
  <2>3. AtOnce(ops) = [ops EXCEPT ![1] = Local(ops[1])]
    BY <1>2 DEF AtOnce
  <2>4. [ops EXCEPT ![1] = Local(ops[1])] \in Seq(W)
    <3> HIDE DEF W
    <3> QED BY <2>1, <2>2, ExceptSeq
  <2>5. Head(ops) \in W /\ Tail(ops) \in Seq(W)
    <3> HIDE DEF W
    <3> QED BY <1>2, <2>1, HeadTailProperties
  <2> QED BY <2>3, <2>4, <2>5 DEF Ours
<1> QED BY <1>1, <1>2

\* What the thread handles, and the output it chooses.
LEMMA TranslateTyped ==
    ASSUME Typed, Translate
    PROVE  /\ todo' \in Ours /\ outputs' \in Seq(OutputsOn(WrittenBy(device)))
           /\ Len(outputs') = Len(outputs)
           /\ \A i \in DOMAIN outputs : /\ outputs'[i].kind = outputs[i].kind
                                        /\ outputs'[i].code = outputs[i].code
<1> DEFINE C  == WrittenBy(device)
           ev == Head(batch)
<1>1. ev \in InputEvents
  BY HeadTailProperties DEF Translate, Typed
<1>2. PICK j \in Matching(ev) : \E short \in BOOLEAN :
        /\ todo' = AtOnce(SendFrom(outputs[j], ev.type, ev.value, short).ops)
        /\ outputs' = [outputs EXCEPT
                          ![j] = SendFrom(outputs[j], ev.type, ev.value, short).out]
  BY DEF Translate
<1>3. PICK short \in BOOLEAN :
        /\ todo' = AtOnce(SendFrom(outputs[j], ev.type, ev.value, short).ops)
        /\ outputs' = [outputs EXCEPT
                          ![j] = SendFrom(outputs[j], ev.type, ev.value, short).out]
  BY <1>2
<1>4. outputs \in Seq(OutputsOn(C)) /\ j \in 1..Len(outputs) /\ outputs[j] \in OutputsOn(C)
  <2>1. outputs \in Seq(OutputsOn(C)) /\ j \in DOMAIN outputs
    BY DEF Typed, Matching
  <2> HIDE DEF C
  <2> QED BY <2>1
<1>5. ev.value \in Int /\ (ev.type = "KEY" => ev.value \in {0, 1, 2})
  BY <1>1 DEF InputEvents
<1> DEFINE sent == SendFrom(outputs[j], ev.type, ev.value, short)
<1>6. Fine(C, sent, outputs[j])
  <2> HIDE DEF C, ev
  <2> QED BY <1>4, <1>5, SendFromFine
<1>7. todo' \in Ours
  <2>1. sent.ops \in Ours
    BY <1>6 DEF Fine, Ours
  <2> HIDE DEF sent
  <2>2. AtOnce(sent.ops) \in Ours
    BY <2>1, OursIn
  <2> QED BY <1>3, <2>2 DEF sent
<1>8. /\ outputs' \in Seq(OutputsOn(C)) /\ Len(outputs') = Len(outputs)
      /\ \A i \in 1..Len(outputs) : outputs'[i] = IF i = j THEN sent.out ELSE outputs[i]
  <2>1. sent.out \in OutputsOn(C) /\ outputs' = [outputs EXCEPT ![j] = sent.out]
    BY <1>3, <1>6 DEF Fine
  <2> HIDE DEF C, sent
  <2> QED BY <1>4, <2>1, ExceptSeq
<1>9. DOMAIN outputs = 1..Len(outputs)
  BY <1>4
<1> HIDE DEF sent
<1> QED BY <1>6, <1>7, <1>8, <1>9 DEF Fine

\* sendRaw() for keyboards and mice.
LEMMA PassedOnIs ==
    ASSUME Typed, NEW ev \in InputEvents
    PROVE  SendRaw(ev.type, ev.code, ev.value, DevType) = <<PassedOn(ev)>>
<1>1. Event(ev.type, ev.code, ev.value) = ev
  BY DEF Event, InputEvents
<1>2. RawDevices(DevType) = <<OwnDevice>>
  BY ConfigIsOfOutputs DEF Typed, RawDevices, OwnDevice, DevType
<1> QED BY <1>1, <1>2 DEF SendRaw, PassedOn

\* What the handler's thread does.
LEMMA ThreadTyped ==
    ASSUME Typed, ThreadStep
    PROVE  /\ batch' \in Seq(InputEvents) /\ Len(batch') <= BufferSize
           /\ queue' \in Seq(InputEvents) /\ Len(queue') <= QueueMax
           /\ todo' \in Ours \/ \E ev \in InputEvents : todo' = <<PassedOn(ev)>>
           /\ outputs' \in Seq(OutputsOn(WrittenBy(device)))
           /\ \A d \in down' : d[1] \in VDevices
<1>1. CASE ReadBatch
  <2>1. UNCHANGED <<todo, outputs, down>>
    BY <1>1 DEF ReadBatch
  <2> QED BY <1>1, <2>1, ReadBatchTyped DEF Typed
<1>2. ASSUME batch # <<>>, batch' = Tail(batch)
      PROVE  batch' \in Seq(InputEvents) /\ Len(batch') <= BufferSize
  <2>1. batch \in Seq(InputEvents) /\ Len(batch) <= BufferSize
    BY DEF Typed
  <2> QED BY <1>2, <2>1, HeadTailProperties DEF BufferSize
<1>3. CASE Translate
  <2>1. UNCHANGED <<queue, down>> /\ batch # <<>> /\ batch' = Tail(batch)
    BY <1>3 DEF Translate
  <2> QED BY <1>2, <1>3, <2>1, TranslateTyped DEF Typed
<1>4. CASE PassThrough
  <2>1. UNCHANGED <<queue, outputs, down>> /\ batch # <<>> /\ batch' = Tail(batch)
    BY <1>4 DEF PassThrough
  <2>2. Head(batch) \in InputEvents
    BY <2>1, HeadTailProperties DEF Typed
  <2>3. todo' = <<PassedOn(Head(batch))>>
    BY <1>4, <2>2, PassedOnIs DEF PassThrough
  <2> QED BY <1>2, <2>1, <2>2, <2>3 DEF Typed
<1>5. CASE Write
  <2>1. UNCHANGED <<queue, batch, outputs>> /\ todo # <<>> /\ todo' = Tail(todo)
    BY <1>5 DEF Write
  <2>2. todo' \in Ours /\ Head(todo).dev \in VDevices
    <3>1. CASE todo \in Ours
      <4>1. Head(todo) \in WritesOn(WrittenBy(device)) /\ Tail(todo) \in Ours
        BY <2>1, <3>1, OursIn
      <4> QED BY <2>1, <4>1 DEF WritesOn
    <3>2. CASE \E ev \in InputEvents : todo = <<PassedOn(ev)>>
      <4>1. PICK ev \in InputEvents : todo = <<PassedOn(ev)>>
        BY <3>2
      <4>2. Tail(todo) = <<>> /\ Head(todo) = PassedOn(ev)
        BY <4>1
      <4>3. PassedOn(ev).dev \in VDevices
        BY DEF PassedOn, Local, WriteTo, OwnDevice, VDevices
      <4> QED BY <2>1, <4>2, <4>3, NothingIsOurs
    <3>3. todo \in Ours \/ \E ev \in InputEvents : todo = <<PassedOn(ev)>>
      BY DEF Typed
    <3> QED BY <3>1, <3>2, <3>3
  <2>3. \A d \in down' : d[1] \in VDevices
    <3>1. PICK evs : down' = Apply(down, Head(todo).dev, evs)
      BY <1>5 DEF Write
    <3>2. \A d \in down' : d \in down \/ d[1] = Head(todo).dev
      BY <3>1, ApplyDevices
    <3> QED BY <2>2, <3>2 DEF Typed
  <2> QED BY <2>1, <2>2, <2>3 DEF Typed
<1>6. CASE LoseRest
  <2>1. UNCHANGED <<queue, batch, outputs, down>> /\ todo' = <<>>
    BY <1>6 DEF LoseRest
  <2>2. todo' \in Ours
    BY <2>1 DEF Ours
  <2> QED BY <2>1, <2>2 DEF Typed
<1>7. CASE Crash
  <2>1. UNCHANGED <<outputs, down>> /\ todo' = <<>> /\ batch' = <<>> /\ queue' = <<>>
    BY <1>7 DEF Crash
  <2>2. Len(batch') <= BufferSize /\ Len(queue') <= QueueMax
    <3>1. QueueMax \in Nat
      BY QueueMaxTyped
    <3> QED BY <2>1, <3>1 DEF BufferSize
  <2>3. todo' \in Ours /\ batch' \in Seq(InputEvents) /\ queue' \in Seq(InputEvents)
    BY <2>1 DEF Ours
  <2> QED BY <2>1, <2>2, <2>3 DEF Typed
<1> QED BY <1>1, <1>3, <1>4, <1>5, <1>6, <1>7 DEF ThreadStep

\* What the user, the kernel and the main thread do.
LEMMA OutsideTyped ==
    ASSUME Typed, Outside, queue' \in Seq(InputEvents), Len(queue') <= QueueMax,
           held' \in SUBSET Keys, repeating' \in held' \cup {NoKey},
           disturbed' = disturbed \/ disturbed' = "by a reread"
    PROVE  InputTyped' /\ WorkTyped'
<1>1. device' = device /\ Keys' = Keys /\ InputEvents' = InputEvents /\ Ours' = Ours
      /\ WrittenBy(device)' = WrittenBy(device) /\ QueueMax' = QueueMax
  BY DEF Outside, Keys, Axes, InputEvents, Ours, WrittenBy, QueueMax
<1>2. InputTyped'
  BY <1>1 DEF Typed, InputTyped
<1>3. WorkTyped'
  <2>1. \A ev : PassedOn(ev)' = PassedOn(ev)
    BY <1>1 DEF PassedOn, OwnDevice, DevType
  <2> QED BY <1>1, <2>1 DEF Typed, WorkTyped, Outside, threadVars, mainVars
<1> QED BY <1>2, <1>3

\* Every step keeps the types.
LEMMA NextTyped ==
    ASSUME Typed, [Next]_vars
    PROVE  Typed'
<1>1. /\ device' = device /\ InputEvents' = InputEvents /\ Ours' = Ours
      /\ Keys' = Keys /\ WrittenBy(device)' = WrittenBy(device) /\ QueueMax' = QueueMax
      /\ \A ev : PassedOn(ev)' = PassedOn(ev)
  BY SameDevice DEF PassedOn
<1>2. ASSUME NEW k \in Keys, PressKey(k) \/ ReleaseKey(k)
      PROVE  InputTyped' /\ WorkTyped'
  <2>1. Event("KEY", k, 1) \in InputEvents /\ Event("KEY", k, 0) \in InputEvents
    BY DEF Event, InputEvents
  <2>2. Arrives(Event("KEY", k, 1)) \/ Arrives(Event("KEY", k, 0))
    BY <1>2 DEF PressKey, ReleaseKey
  <2>3. queue' \in Seq(InputEvents) /\ Len(queue') <= QueueMax
    BY <2>1, <2>2, ArrivesTyped
  <2>4. /\ held' \in SUBSET Keys /\ repeating' \in held' \cup {NoKey}
        /\ disturbed' = disturbed \/ disturbed' = "by a reread"
    BY <1>2 DEF PressKey, ReleaseKey, Typed
  <2> QED BY <1>2, <2>3, <2>4, OutsideTyped DEF PressKey, ReleaseKey
<1>3. ASSUME RepeatKey
      PROVE  InputTyped' /\ WorkTyped'
  <2>1. Event("KEY", repeating, 2) \in InputEvents
    BY <1>3 DEF RepeatKey, Typed, Event, InputEvents
  <2>2. queue' \in Seq(InputEvents) /\ Len(queue') <= QueueMax
    BY <1>3, <2>1, ArrivesTyped DEF RepeatKey
  <2> QED BY <1>3, <2>2, OutsideTyped DEF RepeatKey, userVars, Typed
<1>4. ASSUME NEW a \in Axes, NEW v \in {-1, 1}, Turn(a, v)
      PROVE  InputTyped' /\ WorkTyped'
  <2>1. Event("REL", a, v) \in InputEvents
    BY DEF Event, InputEvents
  <2>2. queue' \in Seq(InputEvents) /\ Len(queue') <= QueueMax
    BY <1>4, <2>1, ArrivesTyped DEF Turn
  <2> QED BY <1>4, <2>2, OutsideTyped DEF Turn, userVars, Typed
<1>5. ASSUME ThreadStep
      PROVE  InputTyped' /\ WorkTyped'
  <2>1. UNCHANGED <<userVars, disturbed, mainVars>>
    BY <1>5 DEF ThreadStep, ReadBatch, Translate, PassThrough, Write, LoseRest, Crash
  <2>2. InputTyped'
    BY <1>1, <1>5, <2>1, ThreadTyped DEF InputTyped, Typed, userVars
  <2>3. WorkTyped'
    BY <1>1, <1>5, <2>1, ThreadTyped DEF WorkTyped, Typed, mainVars
  <2> QED BY <2>2, <2>3
<1>6. ASSUME NEW w \in Windows, ChangeWindow(w)
      PROVE  InputTyped' /\ WorkTyped'
  <2>1. outputs' \in Seq(OutputsOn(WrittenBy(device)))
    BY <1>6, ConfigFits DEF ChangeWindow, Config, Typed
  <2>2. InputTyped'
    BY <1>1, <1>6 DEF ChangeWindow, Disturbs, userVars, Typed, InputTyped
  <2>3. WorkTyped'
    BY <1>1, <1>6, <2>1 DEF ChangeWindow, Typed, WorkTyped
  <2> QED BY <2>2, <2>3
<1>7. ASSUME StopReading
      PROVE  InputTyped' /\ WorkTyped'
  <2>1. queue' \in Seq(InputEvents) /\ Len(queue') <= QueueMax
    <3>1. queue' = <<>>
      BY <1>7 DEF StopReading
    <3>2. QueueMax \in Nat
      BY QueueMaxTyped
    <3> QED BY <3>1, <3>2
  <2>2. InputTyped'
    BY <1>1, <1>7, <2>1 DEF StopReading, Disturbs, userVars, Typed, InputTyped
  <2>3. WorkTyped'
    BY <1>1, <1>7 DEF StopReading, threadVars, mainVars, Typed, WorkTyped
  <2> QED BY <2>2, <2>3
<1>8. ASSUME StartReading
      PROVE  InputTyped' /\ WorkTyped'
  <2>1. known' \in Windows /\ outputs' = About[device].config[known']
    BY <1>8, WindowsAssumption DEF StartReading, Config, Typed
  <2>2. outputs' \in Seq(OutputsOn(WrittenBy(device)))
    BY <2>1, ConfigFits DEF Typed
  <2>3. InputTyped'
    BY <1>1, <1>8 DEF StartReading, userVars, Typed, InputTyped
  <2>4. WorkTyped'
    BY <1>1, <1>8, <2>1, <2>2 DEF StartReading, threadVars, Typed, WorkTyped
  <2> QED BY <2>3, <2>4
<1>9. ASSUME UNCHANGED vars
      PROVE  InputTyped' /\ WorkTyped'
  <2>1. InputTyped'
    BY <1>1, <1>9 DEF vars, userVars, Typed, InputTyped
  <2>2. WorkTyped'
    BY <1>1, <1>9 DEF vars, threadVars, mainVars, Typed, WorkTyped
  <2> QED BY <2>1, <2>2
<1>10. InputTyped' /\ WorkTyped'
  BY <1>2, <1>3, <1>4, <1>5, <1>6, <1>7, <1>8, <1>9 DEF Next
<1>11. Flags'
  BY NextFlags DEF Typed
<1>12. device' \in Devices /\ stale' \subseteq {junk.code : junk \in JunkEvents}
  BY <1>1, NextStale DEF Typed
<1> QED BY <1>10, <1>11, <1>12 DEF Typed, InputTyped, WorkTyped

-----------------------------------------------------------------------------
(* The outputs are those of the window the daemon knows of.                *)

\* The outputs are the known window's at the start ...
LEMMA InitOutputs ==
    ASSUME Init
    PROVE  OutputsForKnown
BY DEF Init, OutputsForKnown

\* ... and after every step: only setOutputs() and a reread replace them.
LEMMA NextOutputs ==
    ASSUME Typed, OutputsForKnown, [Next]_vars
    PROVE  OutputsForKnown'
<1>1. Config' = Config
  BY SameDevice
<1>2. CASE Translate
  <2>1. /\ outputs' \in Seq(OutputsOn(WrittenBy(device))) /\ Len(outputs') = Len(outputs)
        /\ \A i \in DOMAIN outputs : /\ outputs'[i].kind = outputs[i].kind
                                     /\ outputs'[i].code = outputs[i].code
    BY <1>2, TranslateTyped
  <2>2. DOMAIN outputs' = DOMAIN outputs
    <3> DEFINE O == OutputsOn(WrittenBy(device))
    <3>1. outputs \in Seq(O) /\ outputs' \in Seq(O) /\ Len(outputs') = Len(outputs)
      BY <2>1 DEF Typed
    <3> HIDE DEF O
    <3> QED BY <3>1
  <2>3. known' = known
    BY <1>2 DEF Translate, mainVars
  <2> QED BY <1>1, <2>1, <2>2, <2>3 DEF OutputsForKnown
<1>3. CASE (\E w \in Windows : ChangeWindow(w)) \/ StartReading
  <2>1. outputs' = Config[known']
    BY <1>3 DEF ChangeWindow, StartReading
  <2> QED BY <1>1, <2>1 DEF OutputsForKnown
<1>4. CASE UNCHANGED <<outputs, known>>
  BY <1>1, <1>4 DEF OutputsForKnown
<1>5. \/ Translate \/ (\E w \in Windows : ChangeWindow(w)) \/ StartReading
      \/ UNCHANGED <<outputs, known>>
  BY DEF Next, PressKey, ReleaseKey, RepeatKey, Turn, Outside, ThreadStep, ReadBatch,
         PassThrough, Write, LoseRest, Crash, StopReading, vars, mainVars
<1> QED BY <1>2, <1>3, <1>4, <1>5

\* What outputs there are and what they remember stays in bounds, and the
\* thread never writes to a virtual device there is not (OutEvent::send()).
THEOREM TypesThm == Spec => []TypeOK
<1>1. Init => Typed /\ OutputsForKnown
  BY InitTyped, InitOutputs
<1>2. Typed /\ OutputsForKnown /\ [Next]_vars => (Typed /\ OutputsForKnown)'
  BY NextTyped, NextOutputs
<1>3. Typed /\ OutputsForKnown => TypeOK
  <2> SUFFICES ASSUME Typed, OutputsForKnown PROVE TypeOK
    OBVIOUS
  <2>1. Len(outputs) = Len(Inputs)
    BY ConfigFits DEF Typed, OutputsForKnown, Config, Inputs
  <2>2. ASSUME NEW j \in DOMAIN outputs
        PROVE  /\ outputs[j].custom \in {0, 1} /\ outputs[j].sent \in {0, 1, 2}
               /\ outputs[j].rate \in 0..Max({1, outputs[j].max})
               /\ outputs[j].count \in 0..outputs[j].min
    <3>1. outputs[j] \in OutputsOn(WrittenBy(device))
      <4>1. outputs \in Seq(OutputsOn(WrittenBy(device)))
        BY DEF Typed
      <4> QED BY <4>1
    <3>2. PICK out \in OutputsOn(WrittenBy(device)) : out = outputs[j]
      BY <3>1
    <3>3. /\ out.custom \in {0, 1} /\ out.sent \in {0, 1, 2}
          /\ out.rate \in Nat /\ out.count \in Nat /\ out.max \in Nat /\ out.min \in Nat
          /\ out.rate <= Max({1, out.max}) /\ out.count <= out.min
      BY OutputFields
    <3>4. out.rate \in 0..Max({1, out.max}) /\ out.count \in 0..out.min
      BY <3>3, MaxOfTwo
    <3> QED BY <3>2, <3>3, <3>4
  <2>3. \A i \in DOMAIN todo : todo[i].dev \in VDevices
    <3>1. CASE todo \in Ours
      <4>1. \A i \in DOMAIN todo : todo[i] \in WritesOn(WrittenBy(device))
        BY <3>1 DEF Ours
      <4> QED BY <4>1 DEF WritesOn
    <3>2. CASE \E ev \in InputEvents : todo = <<PassedOn(ev)>>
      BY <3>2 DEF PassedOn, Local, WriteTo, OwnDevice, VDevices
    <3>3. todo \in Ours \/ \E ev \in InputEvents : todo = <<PassedOn(ev)>>
      BY DEF Typed
    <3> QED BY <3>1, <3>2, <3>3
  <2>4. freed \in BOOLEAN /\ reading \in BOOLEAN /\ crashed \in BOOLEAN
    BY Zenon DEF Typed, Flags
  <2>5. /\ device \in Devices /\ held \in SUBSET Keys /\ repeating \in held \cup {NoKey}
        /\ Len(queue) <= QueueMax /\ Len(batch) <= BufferSize
        /\ window \in Windows /\ known \in Windows
        /\ \A d \in down : d[1] \in VDevices
        /\ stale \subseteq {junk.code : junk \in JunkEvents}
        /\ disturbed \in {"never", "by a window", "by a reread"}
    BY DEF Typed
  <2> HIDE DEF Typed
  <2> QED BY <2>1, <2>2, <2>3, <2>4, <2>5, Zenon DEF TypeOK
<1> QED BY <1>1, <1>2, <1>3, PTL DEF Spec

-----------------------------------------------------------------------------
(* A key without <signal>.                                                 *)

\* No events do nothing.
LEMMA NoEventsAreQuiet ==
    ASSUME NEW k
    PROVE  Quiet(<<>>, k) /\ ~Presses(<<>>, k)
BY DEF Quiet, Presses

\* What one more event at the end changes.
LEMMA OneMore ==
    ASSUME NEW evs \in Seq(InputEvents), NEW ev \in InputEvents, NEW k
    PROVE  /\ Quiet(Append(evs, ev), k) <=> Quiet(evs, k) /\ ~Changes(ev, k)
           /\ Presses(Append(evs, ev), k) <=>
                \/ Changes(ev, k) /\ ev.value = 1
                \/ ~Changes(ev, k) /\ Presses(evs, k)
<1> DEFINE n   == Len(evs)
           all == Append(evs, ev)
<1>1. /\ n \in Nat /\ DOMAIN evs = 1..n /\ DOMAIN all = 1..(n + 1)
      /\ all[n + 1] = ev /\ \A i \in 1..n : all[i] = evs[i]
  OBVIOUS
<1> HIDE DEF n, all
<1>2. Quiet(all, k) <=> Quiet(evs, k) /\ ~Changes(ev, k)
  <2>1. \A i \in 1..(n + 1) : i \in 1..n \/ i = n + 1
    BY <1>1
  <2>2. n + 1 \in 1..(n + 1) /\ \A i \in 1..n : i \in 1..(n + 1)
    BY <1>1
  <2> QED BY <1>1, <2>1, <2>2 DEF Quiet
<1>3. CASE Changes(ev, k)
  <2>1. Presses(all, k) => ev.value = 1
    <3> SUFFICES ASSUME NEW i \in 1..(n + 1), Changes(all[i], k), all[i].value = 1,
                        \A j \in 1..(n + 1) : j > i => ~Changes(all[j], k)
                 PROVE  ev.value = 1
      BY <1>1 DEF Presses
    <3>1. i = n + 1
      BY <1>1, <1>3
    <3> QED BY <1>1, <3>1
  <2>2. ev.value = 1 => Presses(all, k)
    <3>1. n + 1 \in 1..(n + 1) /\ \A j \in 1..(n + 1) : ~(j > n + 1)
      BY <1>1
    <3> QED BY <1>1, <1>3, <3>1 DEF Presses
  <2> QED BY <1>2, <1>3, <2>1, <2>2 DEF all
<1>4. CASE ~Changes(ev, k)
  <2>1. ASSUME Presses(all, k) PROVE Presses(evs, k)
    <3>1. PICK i \in 1..(n + 1) : /\ Changes(all[i], k) /\ all[i].value = 1
                                  /\ \A j \in 1..(n + 1) : j > i => ~Changes(all[j], k)
      BY <1>1, <2>1 DEF Presses
    <3>2. i \in 1..n
      BY <1>1, <1>4, <3>1
    <3>3. \A j \in 1..n : j \in 1..(n + 1)
      BY <1>1
    <3> QED BY <1>1, <3>1, <3>2, <3>3 DEF Presses
  <2>2. ASSUME Presses(evs, k) PROVE Presses(all, k)
    <3>1. PICK i \in 1..n : /\ Changes(evs[i], k) /\ evs[i].value = 1
                            /\ \A j \in 1..n : j > i => ~Changes(evs[j], k)
      BY <1>1, <2>2 DEF Presses
    <3>2. i \in 1..(n + 1) /\ \A j \in 1..(n + 1) : j \in 1..n \/ j = n + 1
      BY <1>1
    <3>3. \A j \in 1..(n + 1) : j > i => ~Changes(all[j], k)
      BY <1>1, <1>4, <3>1, <3>2
    <3> QED BY <1>1, <3>1, <3>2, <3>3 DEF Presses
  <2> QED BY <1>2, <1>4, <2>1, <2>2 DEF all
<1> QED BY <1>3, <1>4

\* What the first of some events changes.
LEMMA FirstOfThem ==
    ASSUME NEW evs \in Seq(InputEvents), evs # <<>>, NEW k
    PROVE  /\ Quiet(evs, k) <=> ~Changes(Head(evs), k) /\ Quiet(Tail(evs), k)
           /\ Presses(evs, k) <=>
                \/ Presses(Tail(evs), k)
                \/ Quiet(Tail(evs), k) /\ Changes(Head(evs), k) /\ Head(evs).value = 1
<1> DEFINE n    == Len(evs)
           rest == Tail(evs)
           ev   == Head(evs)
<1>1. /\ n \in Nat \ {0} /\ DOMAIN evs = 1..n /\ DOMAIN rest = 1..(n - 1)
      /\ evs[1] = ev /\ \A i \in 1..(n - 1) : rest[i] = evs[i + 1]
  <2>1. /\ rest \in Seq(InputEvents) /\ Len(rest) = n - 1
        /\ \A i \in 1..Len(rest) : rest[i] = evs[i + 1]
    BY HeadTailProperties
  <2> HIDE DEF rest
  <2> QED BY <2>1
<1> HIDE DEF n, rest, ev
<1>2. \A i \in 1..n : i = 1 \/ (i - 1 \in 1..(n - 1) /\ rest[i - 1] = evs[i])
  BY <1>1
<1>3. 1 \in 1..n /\ \A i \in 1..(n - 1) : i + 1 \in 1..n /\ i + 1 # 1
  BY <1>1
<1>4. Quiet(evs, k) <=> ~Changes(ev, k) /\ Quiet(rest, k)
  <2>1. ASSUME Quiet(evs, k) PROVE ~Changes(ev, k) /\ Quiet(rest, k)
    BY <1>1, <1>3, <2>1 DEF Quiet
  <2>2. ASSUME ~Changes(ev, k), Quiet(rest, k) PROVE Quiet(evs, k)
    BY <1>1, <1>2, <2>2 DEF Quiet
  <2> QED BY <2>1, <2>2
<1>5. ASSUME Presses(evs, k)
      PROVE  Presses(rest, k) \/ (Quiet(rest, k) /\ Changes(ev, k) /\ ev.value = 1)
  <2>1. PICK i \in 1..n : /\ Changes(evs[i], k) /\ evs[i].value = 1
                          /\ \A j \in 1..n : j > i => ~Changes(evs[j], k)
    BY <1>1, <1>5 DEF Presses
  <2>2. CASE i = 1
    <3>1. \A j \in 1..(n - 1) : j + 1 \in 1..n /\ j + 1 > 1 /\ rest[j] = evs[j + 1]
      BY <1>1
    <3> QED BY <1>1, <2>1, <2>2, <3>1 DEF Quiet
  <2>3. CASE i # 1
    <3>1. i - 1 \in 1..(n - 1) /\ rest[i - 1] = evs[i]
      BY <1>2, <2>3
    <3>2. \A j \in 1..(n - 1) : j > i - 1 =>
             j + 1 \in 1..n /\ j + 1 > i /\ rest[j] = evs[j + 1]
      BY <1>1
    <3>3. \A j \in 1..(n - 1) : j > i - 1 => ~Changes(rest[j], k)
      BY <2>1, <3>2
    <3> QED BY <1>1, <2>1, <3>1, <3>3 DEF Presses
  <2> QED BY <2>2, <2>3
<1>6. ASSUME Presses(rest, k)
      PROVE  Presses(evs, k)
  <2>1. PICK i \in 1..(n - 1) : /\ Changes(rest[i], k) /\ rest[i].value = 1
                                /\ \A j \in 1..(n - 1) : j > i => ~Changes(rest[j], k)
    BY <1>1, <1>6 DEF Presses
  <2>2. i + 1 \in 1..n /\ evs[i + 1] = rest[i]
    BY <1>1
  <2>3. \A j \in 1..n : j > i + 1 => j - 1 \in 1..(n - 1) /\ j - 1 > i /\ rest[j - 1] = evs[j]
    BY <1>1
  <2>4. \A j \in 1..n : j > i + 1 => ~Changes(evs[j], k)
    BY <2>1, <2>3
  <2> QED BY <1>1, <2>1, <2>2, <2>4 DEF Presses
<1>7. ASSUME Quiet(rest, k), Changes(ev, k), ev.value = 1
      PROVE  Presses(evs, k)
  <2>1. \A j \in 1..n : j > 1 => j - 1 \in 1..(n - 1) /\ rest[j - 1] = evs[j]
    BY <1>1
  <2>2. \A j \in 1..n : j > 1 => ~Changes(evs[j], k)
    BY <1>1, <1>7, <2>1 DEF Quiet
  <2> QED BY <1>1, <1>3, <1>7, <2>2 DEF Presses
<1>8. Presses(evs, k) <=> Presses(rest, k) \/ (Quiet(rest, k) /\ Changes(ev, k) /\ ev.value = 1)
  BY <1>5, <1>6, <1>7
<1> QED BY <1>4, <1>8 DEF rest, ev

\* What some events do is what two halves of them do in turn.
LEMMA InTwoParts ==
    ASSUME NEW evs \in Seq(InputEvents), NEW n \in 1..Len(evs), NEW k
    PROVE  /\ Quiet(evs, k) <=> /\ Quiet(SubSeq(evs, 1, n), k)
                                /\ Quiet(SubSeq(evs, n + 1, Len(evs)), k)
           /\ Presses(evs, k) <=>
                \/ Presses(SubSeq(evs, n + 1, Len(evs)), k)
                \/ /\ Quiet(SubSeq(evs, n + 1, Len(evs)), k)
                   /\ Presses(SubSeq(evs, 1, n), k)
<1> DEFINE m   == Len(evs)
           one == SubSeq(evs, 1, n)
           two == SubSeq(evs, n + 1, m)
<1>1. /\ m \in Nat /\ n \in 1..m /\ DOMAIN evs = 1..m
      /\ DOMAIN one = 1..n /\ \A i \in 1..n : one[i] = evs[i]
      /\ DOMAIN two = 1..(m - n) /\ \A i \in 1..(m - n) : two[i] = evs[n + i]
  <2>1. /\ m \in Nat /\ n \in Nat /\ n <= m /\ DOMAIN evs = 1..m
        /\ \A i \in 1..m : evs[i] \in InputEvents
    OBVIOUS
  <2>2. one \in Seq(InputEvents) /\ Len(one) = n /\ \A i \in 1..n : one[i] = evs[i]
    <3>1. \A i \in 1..n : evs[i] \in InputEvents
      BY <2>1
    <3>2. /\ SubSeq(evs, 1, n) \in Seq(InputEvents)
          /\ Len(SubSeq(evs, 1, n)) = IF 1 <= n THEN n - 1 + 1 ELSE 0
          /\ \A i \in 1..(n - 1 + 1) : SubSeq(evs, 1, n)[i] = evs[1 + i - 1]
      BY <2>1, <3>1, SubSeqProperties
    <3> QED BY <2>1, <3>2 DEF one
  <2>3. /\ two \in Seq(InputEvents) /\ Len(two) = m - n
        /\ \A i \in 1..(m - n) : two[i] = evs[n + i]
    <3>1. \A i \in (n + 1)..m : evs[i] \in InputEvents
      BY <2>1
    <3>2. n + 1 \in Int /\ m \in Int
      BY <2>1
    <3> HIDE DEF m
    <3>3. /\ SubSeq(evs, n + 1, m) \in Seq(InputEvents)
          /\ Len(SubSeq(evs, n + 1, m)) = IF n + 1 <= m THEN m - (n + 1) + 1 ELSE 0
          /\ \A i \in 1..(m - (n + 1) + 1) : SubSeq(evs, n + 1, m)[i] = evs[n + 1 + i - 1]
      BY <3>1, <3>2, SubSeqProperties
    <3> QED BY <2>1, <3>3
  <2> HIDE DEF m, one, two
  <2>4. DOMAIN one = 1..n
    BY <2>2
  <2>5. DOMAIN two = 1..(m - n)
    BY <2>3
  <2> QED BY <2>1, <2>2, <2>3, <2>4, <2>5
<1> HIDE DEF m, one, two
<1>2. \A i \in 1..m : i \in 1..n \/ (i - n \in 1..(m - n) /\ two[i - n] = evs[i])
  BY <1>1
<1>3. \A i \in 1..n : i \in 1..m
  BY <1>1
<1>4. \A i \in 1..(m - n) : n + i \in 1..m /\ n + i > n
  BY <1>1
<1>5. Quiet(evs, k) <=> Quiet(one, k) /\ Quiet(two, k)
  <2>1. ASSUME Quiet(evs, k) PROVE Quiet(one, k) /\ Quiet(two, k)
    BY <1>1, <1>3, <1>4, <2>1 DEF Quiet
  <2>2. ASSUME Quiet(one, k), Quiet(two, k) PROVE Quiet(evs, k)
    BY <1>1, <1>2, <2>2 DEF Quiet
  <2> QED BY <2>1, <2>2
<1>6. ASSUME Presses(evs, k)
      PROVE  Presses(two, k) \/ (Quiet(two, k) /\ Presses(one, k))
  <2>1. PICK i \in 1..m : /\ Changes(evs[i], k) /\ evs[i].value = 1
                          /\ \A j \in 1..m : j > i => ~Changes(evs[j], k)
    BY <1>1, <1>6 DEF Presses
  <2>2. CASE i \in 1..n
    <3>1. \A j \in 1..(m - n) : n + j > i
      BY <1>1, <2>2
    <3>2. Quiet(two, k)
      BY <1>1, <1>4, <2>1, <3>1 DEF Quiet
    <3>3. Presses(one, k)
      BY <1>1, <1>3, <2>1, <2>2 DEF Presses
    <3> QED BY <3>2, <3>3
  <2>3. CASE i \notin 1..n
    <3>1. i - n \in 1..(m - n) /\ two[i - n] = evs[i]
      BY <1>2, <2>3
    <3>2. \A j \in 1..(m - n) : j > i - n => n + j > i
      BY <1>1
    <3>3. \A j \in 1..(m - n) : j > i - n => ~Changes(two[j], k)
      BY <1>1, <1>4, <2>1, <3>2
    <3>4. \E l \in 1..(m - n) : /\ Changes(two[l], k) /\ two[l].value = 1
                                /\ \A j \in 1..(m - n) : j > l => ~Changes(two[j], k)
      BY <2>1, <3>1, <3>3
    <3> QED BY <1>1, <3>4 DEF Presses
  <2> QED BY <2>2, <2>3
<1>7. ASSUME Presses(two, k) PROVE Presses(evs, k)
  <2>1. PICK i \in 1..(m - n) : /\ Changes(two[i], k) /\ two[i].value = 1
                                /\ \A j \in 1..(m - n) : j > i => ~Changes(two[j], k)
    BY <1>1, <1>7 DEF Presses
  <2>2. n + i \in 1..m /\ evs[n + i] = two[i]
    BY <1>1, <1>4
  <2>3. \A j \in 1..m : j > n + i => j - n \in 1..(m - n) /\ j - n > i /\ two[j - n] = evs[j]
    BY <1>1, <1>2
  <2>4. \A j \in 1..m : j > n + i => ~Changes(evs[j], k)
    BY <2>1, <2>3
  <2> QED BY <1>1, <2>1, <2>2, <2>4 DEF Presses
<1>8. ASSUME Quiet(two, k), Presses(one, k) PROVE Presses(evs, k)
  <2>1. PICK i \in 1..n : /\ Changes(one[i], k) /\ one[i].value = 1
                          /\ \A j \in 1..n : j > i => ~Changes(one[j], k)
    BY <1>1, <1>8 DEF Presses
  <2>2. i \in 1..m /\ evs[i] = one[i]
    BY <1>1, <1>3
  <2>3. \A j \in 1..m : j > i => ~Changes(evs[j], k)
    BY <1>1, <1>2, <1>8, <2>1 DEF Quiet
  <2> QED BY <1>1, <2>1, <2>2, <2>3 DEF Presses
<1>9. Presses(evs, k) <=> Presses(two, k) \/ (Quiet(two, k) /\ Presses(one, k))
  BY <1>6, <1>7, <1>8
<1> QED BY <1>5, <1>9 DEF m, one, two

\* What comes from the device was initialised.
LEMMA InputIsNotJunk ==
    ASSUME Typed, NEW ev \in InputEvents
    PROVE  ev # Junk
<1> DEFINE C == About[device].keys \cup About[device].axes \cup WrittenBy(device)
<1>1. ev \in EventsOn(C)
  BY DEF InputEvents, EventsOn, Types, Keys, Axes
<1>2. Junk \notin EventsOn(C)
  BY JunkIsNoEvent DEF Typed
<1> QED BY <1>1, <1>2

\* No output of the device touches such a key.
LEMMA OursWritten ==
    ASSUME Typed, NEW k \in PassedKeys, NEW t \in Ours, NEW D
    PROVE  Written(t, D, k) <=> <<OwnDevice, k>> \in D
<1>1. ASSUME NEW ev \in InputEvents, t = <<PassedOn(ev)>>
      PROVE  ~Changes(ev, k)
  <2> DEFINE C == WrittenBy(device)
  <2>1. PassedOn(ev) \in WritesOn(C)
    <3>1. t[1] \in WritesOn(C)
      BY <1>1 DEF Ours
    <3> QED BY <1>1, <3>1
  <2>2. ev \in EventsOn(C) \cup {Junk}
    <3>1. PassedOn(ev).evs = <<ev>>
      BY DEF PassedOn, Local, WriteTo
    <3>2. PassedOn(ev).evs \in Seq(EventsOn(C) \cup {Junk})
      BY <2>1 DEF WritesOn
    <3> QED BY <3>1, <3>2
  <2>3. ev # Junk
    BY InputIsNotJunk
  <2>4. ev.code \in C
    BY <2>2, <2>3 DEF EventsOn
  <2>5. k \notin C
    BY PassedKeysAreNotWritten DEF Typed, PassedKeys
  <2> QED BY <2>4, <2>5 DEF Changes
<1> QED BY <1>1 DEF Written

\* An event that is passed on is written.
LEMMA PassedWritten ==
    ASSUME NEW ev \in InputEvents, NEW k, NEW D
    PROVE  Written(<<PassedOn(ev)>>, D, k) <=>
              \/ Changes(ev, k) /\ ev.value = 1
              \/ ~Changes(ev, k) /\ <<OwnDevice, k>> \in D
<1>1. \A other : <<PassedOn(ev)>> = <<PassedOn(other)>> => other = ev
  <2> SUFFICES ASSUME NEW other, <<PassedOn(ev)>> = <<PassedOn(other)>> PROVE other = ev
    OBVIOUS
  <2>1. PassedOn(ev).evs = <<ev>> /\ PassedOn(other).evs = <<other>>
    BY DEF PassedOn, Local, WriteTo
  <2>2. PassedOn(ev) = PassedOn(other)
    OBVIOUS
  <2>3. <<ev>> = <<other>>
    BY <2>1, <2>2
  <2> QED BY <2>3
<1> QED BY <1>1 DEF Written

\* A write of an output leaves the key as it is.
LEMMA WriteOursKeeps ==
    ASSUME Typed, NEW k \in PassedKeys, NEW op \in WritesOn(WrittenBy(device)),
           NEW junk \in JunkEvents, NEW D, NEW evs,
           evs = [i \in DOMAIN op.evs |-> IF op.evs[i] = Junk THEN junk ELSE op.evs[i]],
           \A i \in DOMAIN op.evs : op.evs[i] = Junk => junk.type # "KEY" \/ junk.code # k
    PROVE  <<OwnDevice, k>> \in Apply(D, op.dev, evs) <=> <<OwnDevice, k>> \in D
<1> DEFINE C == WrittenBy(device)
           n == Len(op.evs)
<1>1. op.evs \in Seq(EventsOn(C) \cup {Junk})
  BY DEF WritesOn
<1>2. /\ n \in Nat /\ DOMAIN op.evs = 1..n
      /\ \A i \in 1..n : op.evs[i] \in EventsOn(C) \cup {Junk}
  BY <1>1
<1>3. DOMAIN evs = 1..n
  BY <1>2
<1>4. k \notin C
  BY PassedKeysAreNotWritten DEF Typed, PassedKeys
<1>5. \A i \in 1..n : ~Changes(evs[i], k)
  <2> SUFFICES ASSUME NEW i \in 1..n PROVE ~Changes(evs[i], k)
    OBVIOUS
  <2>1. CASE op.evs[i] = Junk
    <3>1. evs[i] = junk /\ (junk.type # "KEY" \/ junk.code # k)
      BY <1>2, <2>1
    <3> QED BY <3>1 DEF Changes
  <2>2. CASE op.evs[i] # Junk
    <3>1. evs[i] = op.evs[i] /\ op.evs[i] \in EventsOn(C)
      BY <1>2, <2>2
    <3>2. evs[i].code \in C
      BY <3>1 DEF EventsOn
    <3> QED BY <1>4, <3>2 DEF Changes
  <2> QED BY <2>1, <2>2
<1> HIDE DEF n
<1> QED BY <1>2, <1>3, <1>5, ApplyOthers

\* The write of an event makes its key what the event says.
LEMMA WritePassedKeeps ==
    ASSUME Typed, NEW k \in PassedKeys, NEW ev \in InputEvents,
           NEW junk \in JunkEvents, NEW D, NEW op, op = PassedOn(ev), NEW evs,
           evs = [i \in DOMAIN op.evs |-> IF op.evs[i] = Junk THEN junk ELSE op.evs[i]]
    PROVE  <<OwnDevice, k>> \in Apply(D, op.dev, evs) <=> Written(<<PassedOn(ev)>>, D, k)
<1>1. op.evs = <<ev>> /\ op.dev = OwnDevice
  BY DEF PassedOn, Local, WriteTo
<1>2. ev # Junk
  BY InputIsNotJunk
<1>3. DOMAIN evs = {1} /\ evs[1] = ev
  BY <1>1, <1>2
<1>4. CASE Changes(ev, k)
  <2>1. Accepts(OwnDevice, ev)
    <3>1. ev.type = "KEY" /\ ev.code \in Keys
      BY <1>4 DEF Changes, InputEvents
    <3>2. OwnDevice = "kbd" \/ (OwnDevice = "mouse" /\ Keys \subseteq Buttons)
      BY ConfigIsOfOutputs DEF Typed, OwnDevice, DevType, Keys
    <3> QED BY <3>1, <3>2 DEF Accepts
  <2>2. <<OwnDevice, k>> \in Apply(D, OwnDevice, evs) <=> ev.value # 0
    BY <1>3, <1>4, <2>1, ApplyOne
  <2>3. ev.value \in {0, 1}
    BY <1>4 DEF Changes, InputEvents
  <2> QED BY <1>1, <1>4, <2>2, <2>3, PassedWritten
<1>5. CASE ~Changes(ev, k)
  <2>1. <<OwnDevice, k>> \in Apply(D, OwnDevice, evs) <=> <<OwnDevice, k>> \in D
    <3>1. DOMAIN evs = 1..1 /\ \A i \in 1..1 : ~Changes(evs[i], k)
      BY <1>3, <1>5
    <3> QED BY <3>1, ApplyOthers
  <2> QED BY <1>1, <1>5, <2>1, PassedWritten
<1> QED BY <1>4, <1>5

-----------------------------------------------------------------------------
(* The steps: what is handled in the end stays what is held.               *)

\* A new event, when the device is read, changes what is handled as it says.
LEMMA ArrivesMirrors ==
    ASSUME Typed, NEW ev \in InputEvents, Arrives(ev), reading,
           UNCHANGED <<batch, todo, down>>, NEW k
    PROVE  Handled(queue', batch', todo', down', k) <=>
              \/ Changes(ev, k) /\ ev.value = 1
              \/ ~Changes(ev, k) /\ Handled(queue, batch, todo, down, k)
<1>1. queue' = Append(queue, ev) /\ queue \in Seq(InputEvents)
  BY DEF Arrives, Typed
<1>2. /\ Quiet(queue', k) <=> Quiet(queue, k) /\ ~Changes(ev, k)
      /\ Presses(queue', k) <=>
           \/ Changes(ev, k) /\ ev.value = 1
           \/ ~Changes(ev, k) /\ Presses(queue, k)
  BY <1>1, OneMore
<1> QED BY <1>2 DEF Handled

\* To read a batch moves its events, in their order.
LEMMA ReadBatchSplits ==
    ASSUME Typed, ReadBatch, NEW k
    PROVE  /\ Quiet(queue, k) <=> Quiet(batch', k) /\ Quiet(queue', k)
           /\ Presses(queue, k) <=>
                 Presses(queue', k) \/ (Quiet(queue', k) /\ Presses(batch', k))
           /\ Quiet(batch, k) /\ ~Presses(batch, k)
<1>1. PICK n \in 1..Len(queue) :
        batch' = SubSeq(queue, 1, n) /\ queue' = SubSeq(queue, n + 1, Len(queue))
  BY ReadBatchTyped
<1>2. queue \in Seq(InputEvents) /\ batch = <<>>
  BY DEF Typed, ReadBatch
<1>3. /\ Quiet(queue, k) <=> Quiet(batch', k) /\ Quiet(queue', k)
      /\ Presses(queue, k) <=>
            Presses(queue', k) \/ (Quiet(queue', k) /\ Presses(batch', k))
  <2> DEFINE one == SubSeq(queue, 1, n)
             two == SubSeq(queue, n + 1, Len(queue))
  <2>1. /\ Quiet(queue, k) <=> Quiet(one, k) /\ Quiet(two, k)
        /\ Presses(queue, k) <=> Presses(two, k) \/ (Quiet(two, k) /\ Presses(one, k))
    BY <1>2, InTwoParts
  <2>2. batch' = one /\ queue' = two
    BY <1>1
  <2> HIDE DEF one, two
  <2> QED BY <2>1, <2>2
<1>4. Quiet(batch, k) /\ ~Presses(batch, k)
  BY <1>2, NoEventsAreQuiet
<1> QED BY <1>3, <1>4

\* So what is handled stays the same.
LEMMA ReadBatchMirrors ==
    ASSUME Typed, ReadBatch, NEW k
    PROVE  Handled(queue', batch', todo', down', k) <=> Handled(queue, batch, todo, down, k)
<1>1. UNCHANGED <<todo, down>>
  BY DEF ReadBatch
<1> QED BY <1>1, ReadBatchSplits DEF Handled

\* A key without <signal> matches no input.
LEMMA TranslateMirrors ==
    ASSUME Typed, OutputsForKnown, Translate, NEW k \in PassedKeys
    PROVE  Handled(queue', batch', todo', down', k) <=> Handled(queue, batch, todo, down, k)
<1>1. /\ batch \in Seq(InputEvents) /\ batch # <<>> /\ batch' = Tail(batch)
      /\ todo = <<>> /\ UNCHANGED <<queue, down>>
  BY DEF Typed, Translate
<1>2. ~Changes(Head(batch), k)
  <2>1. PICK j \in DOMAIN outputs : Matches(Inputs[j], Head(batch))
    BY DEF Translate, Matching
  <2>2. j \in DOMAIN Inputs
    <3>1. Len(outputs) = Len(Inputs)
      BY ConfigFits DEF Typed, OutputsForKnown, Config, Inputs
    <3>2. DOMAIN outputs = 1..Len(outputs)
      <4>1. outputs \in Seq(OutputsOn(WrittenBy(device)))
        BY DEF Typed
      <4> QED BY <4>1
    <3>3. DOMAIN Inputs = 1..Len(Inputs)
      <4> DEFINE S == ToSet(Inputs)
      <4>1. Inputs \in Seq(S)
        BY InputsAreSequences DEF Typed, Inputs
      <4> HIDE DEF S
      <4> QED BY <4>1
    <3> QED BY <3>1, <3>2, <3>3
  <2>3. Inputs[j].code # k
    BY <2>2 DEF PassedKeys, PassedBy, Inputs
  <2> QED BY <2>1, <2>3 DEF Matches, Changes
<1>3. Written(todo, down, k) <=> <<OwnDevice, k>> \in down
  BY <1>1, NothingIsOurs, OursWritten
<1>4. Written(todo', down', k) <=> <<OwnDevice, k>> \in down'
  <2>1. todo' \in Ours
    BY TranslateTyped
  <2> QED BY <2>1, OursWritten
<1>5. /\ Quiet(batch, k) <=> Quiet(batch', k)
      /\ Presses(batch, k) <=> Presses(batch', k)
  BY <1>1, <1>2, FirstOfThem
<1> QED BY <1>1, <1>3, <1>4, <1>5 DEF Handled

\* An event without output is written as it came.
LEMMA PassThroughMirrorsToo ==
    ASSUME Typed, PassThrough, NEW k \in PassedKeys
    PROVE  Handled(queue', batch', todo', down', k) <=> Handled(queue, batch, todo, down, k)
<1> DEFINE ev == Head(batch)
<1>1. /\ batch \in Seq(InputEvents) /\ batch # <<>> /\ batch' = Tail(batch)
      /\ todo = <<>> /\ UNCHANGED <<queue, down>>
  BY DEF Typed, PassThrough
<1>2. ev \in InputEvents
  BY <1>1, HeadTailProperties
<1>3. todo' = <<PassedOn(ev)>>
  BY <1>2, PassedOnIs DEF PassThrough
<1>4. Written(todo, down, k) <=> <<OwnDevice, k>> \in down
  BY <1>1, NothingIsOurs, OursWritten
<1>5. Written(todo', down', k) <=>
         \/ Changes(ev, k) /\ ev.value = 1
         \/ ~Changes(ev, k) /\ <<OwnDevice, k>> \in down
  BY <1>1, <1>2, <1>3, PassedWritten
<1>6. /\ Quiet(batch, k) <=> ~Changes(ev, k) /\ Quiet(batch', k)
      /\ Presses(batch, k) <=>
            \/ Presses(batch', k)
            \/ Quiet(batch', k) /\ Changes(ev, k) /\ ev.value = 1
  BY <1>1, FirstOfThem
<1> HIDE DEF ev
<1> QED BY <1>1, <1>4, <1>5, <1>6 DEF Handled

\* A write is what was under way.
LEMMA WriteMirrors ==
    ASSUME Typed, Write, NEW k \in PassedKeys, k \notin stale'
    PROVE  Handled(queue', batch', todo', down', k) <=> Handled(queue, batch, todo, down, k)
<1>1. UNCHANGED <<queue, batch>> /\ todo # <<>> /\ todo' = Tail(todo)
  BY DEF Write
<1>2. PICK op : op = Head(todo)
  OBVIOUS
<1>3. PICK junk \in JunkEvents : \E evs :
        /\ evs = [i \in DOMAIN op.evs |-> IF op.evs[i] = Junk THEN junk ELSE op.evs[i]]
        /\ down' = Apply(down, op.dev, evs)
        /\ \A i \in DOMAIN op.evs : op.evs[i] = Junk => junk.type # "KEY" \/ junk.code # k
  BY <1>2, WriteIs
<1>4. PICK evs :
        /\ evs = [i \in DOMAIN op.evs |-> IF op.evs[i] = Junk THEN junk ELSE op.evs[i]]
        /\ down' = Apply(down, op.dev, evs)
        /\ \A i \in DOMAIN op.evs : op.evs[i] = Junk => junk.type # "KEY" \/ junk.code # k
  BY <1>3
<1>5. Written(todo', down', k) <=> Written(todo, down, k)
  <2>1. CASE todo \in Ours
    <3>1. Head(todo) \in WritesOn(WrittenBy(device)) /\ todo' \in Ours
      BY <1>1, <2>1, OursIn
    <3>2. <<OwnDevice, k>> \in down' <=> <<OwnDevice, k>> \in down
      BY <1>2, <1>4, <3>1, WriteOursKeeps
    <3> QED BY <2>1, <3>1, <3>2, OursWritten
  <2>2. CASE \E ev \in InputEvents : todo = <<PassedOn(ev)>>
    <3>1. PICK ev \in InputEvents : todo = <<PassedOn(ev)>>
      BY <2>2
    <3>2. Head(todo) = PassedOn(ev) /\ todo' = <<>>
      BY <1>1, <3>1
    <3>3. <<OwnDevice, k>> \in down' <=> Written(<<PassedOn(ev)>>, down, k)
      BY <1>2, <1>4, <3>2, WritePassedKeeps
    <3>4. todo' \in Ours
      BY <3>2 DEF Ours
    <3> QED BY <3>1, <3>3, <3>4, OursWritten
  <2>3. todo \in Ours \/ \E ev \in InputEvents : todo = <<PassedOn(ev)>>
    BY DEF Typed
  <2> QED BY <2>1, <2>2, <2>3
<1> QED BY <1>1, <1>5 DEF Handled

\* Only an output that is read from memory that is gone is cut short.
LEMMA LoseRestMirrors ==
    ASSUME Typed, LoseRest, NEW k \in PassedKeys
    PROVE  Handled(queue', batch', todo', down', k) <=> Handled(queue, batch, todo, down, k)
<1>1. UNCHANGED <<queue, batch, down>> /\ todo' = <<>> /\ todo # <<>> /\ ~Head(todo).local
  BY DEF LoseRest
<1>2. todo \in Ours
  <2>1. ASSUME NEW ev \in InputEvents, todo = <<PassedOn(ev)>> PROVE FALSE
    <3>1. Head(todo).local = TRUE
      BY <2>1 DEF PassedOn, Local, WriteTo
    <3> QED BY <1>1, <3>1
  <2>2. todo \in Ours \/ \E ev \in InputEvents : todo = <<PassedOn(ev)>>
    BY DEF Typed
  <2> QED BY <2>1, <2>2
<1>3. todo' \in Ours
  BY <1>1 DEF Ours
<1>4. Written(todo', down', k) <=> Written(todo, down, k)
  BY <1>1, <1>2, <1>3, OursWritten
<1> QED BY <1>1, <1>4 DEF Handled

\* The two events that change a key.
LEMMA KeyChanges ==
    ASSUME NEW j, NEW k
    PROVE  /\ Changes(Event("KEY", j, 1), k) <=> j = k
           /\ Changes(Event("KEY", j, 0), k) <=> j = k
           /\ Event("KEY", j, 1).value = 1
           /\ ~(Event("KEY", j, 0).value = 1)
BY DEF Changes, Event

\* Nothing but its own events changes what such a key will be.
LEMMA NextMirrors ==
    ASSUME IInv, [Next]_vars, ~crashed', disturbed' # "by a reread", NEW k \in PassedKeys,
           k \notin stale'
    PROVE  k \in held' <=> Handled(queue', batch', todo', down', k)
<1>1. Typed
  BY DEF IInv
<1>2. ~crashed /\ disturbed # "by a reread"
  <2>1. ~crashed
    BY Zenon DEF Next, PressKey, ReleaseKey, RepeatKey, Turn, Outside, ThreadStep,
           ReadBatch, Translate, PassThrough, Write, LoseRest, Crash, ChangeWindow,
           StopReading, StartReading, vars
  <2>2. disturbed # "by a reread"
    BY DEF Next, PressKey, ReleaseKey, RepeatKey, Turn, Outside, ThreadStep, ReadBatch,
           Translate, PassThrough, Write, LoseRest, Crash, ChangeWindow, Disturbs,
           StopReading, StartReading, vars
  <2> QED BY <2>1, <2>2
<1>3. k \in held <=> Handled(queue, batch, todo, down, k)
  BY <1>2, NextStale DEF IInv, WillMirror
<1>4. CASE UNCHANGED <<held, queue, batch, todo, down>>
  BY <1>3, <1>4
<1>5. ASSUME NEW j \in Keys, PressKey(j)
      PROVE  k \in held' <=> Handled(queue', batch', todo', down', k)
  <2> DEFINE ev == Event("KEY", j, 1)
  <2> HIDE DEF ev
  <2>1. ev \in InputEvents
    BY DEF ev, Event, InputEvents
  <2>2. Arrives(ev) /\ reading /\ UNCHANGED <<batch, todo, down>>
    BY <1>5 DEF ev, PressKey, Outside, threadVars
  <2>3. (Changes(ev, k) <=> j = k) /\ ev.value = 1
    BY KeyChanges DEF ev
  <2>4. held' = held \cup {j}
    BY <1>5 DEF PressKey
  <2> QED BY <1>1, <1>3, <2>1, <2>2, <2>3, <2>4, ArrivesMirrors
<1>6. ASSUME NEW j \in Keys, ReleaseKey(j)
      PROVE  k \in held' <=> Handled(queue', batch', todo', down', k)
  <2> DEFINE ev == Event("KEY", j, 0)
  <2> HIDE DEF ev
  <2>1. ev \in InputEvents
    BY DEF ev, Event, InputEvents
  <2>2. Arrives(ev) /\ reading /\ UNCHANGED <<batch, todo, down>>
    BY <1>6 DEF ev, ReleaseKey, Outside, threadVars
  <2>3. (Changes(ev, k) <=> j = k) /\ ~(ev.value = 1)
    BY KeyChanges DEF ev
  <2>4. held' = held \ {j}
    BY <1>6 DEF ReleaseKey
  <2> QED BY <1>1, <1>3, <2>1, <2>2, <2>3, <2>4, ArrivesMirrors
<1>7. ASSUME NEW ev \in InputEvents, ~Changes(ev, k), Arrives(ev), Outside, held' = held
      PROVE  k \in held' <=> Handled(queue', batch', todo', down', k)
  <2>1. UNCHANGED <<batch, todo, down>>
    BY <1>7 DEF Outside, threadVars
  <2>2. CASE reading
    BY <1>1, <1>3, <1>7, <2>1, <2>2, ArrivesMirrors
  <2>3. CASE ~reading
    BY <1>4, <1>7, <2>1, <2>3 DEF Arrives
  <2> QED BY <2>2, <2>3
<1>8. CASE RepeatKey
  <2> DEFINE ev == Event("KEY", repeating, 2)
  <2>1. ev \in InputEvents
    BY <1>1, <1>8 DEF RepeatKey, Typed, Event, InputEvents
  <2>2. ~Changes(ev, k)
    BY DEF Event, Changes
  <2>3. Arrives(ev) /\ Outside /\ held' = held
    BY <1>8 DEF RepeatKey, userVars
  <2> HIDE DEF ev
  <2> QED BY <1>7, <2>1, <2>2, <2>3
<1>9. ASSUME NEW a \in Axes, NEW v \in {-1, 1}, Turn(a, v)
      PROVE  k \in held' <=> Handled(queue', batch', todo', down', k)
  <2> DEFINE ev == Event("REL", a, v)
  <2>1. ev \in InputEvents
    BY DEF Event, InputEvents
  <2>2. ~Changes(ev, k)
    BY DEF Event, Changes
  <2>3. Arrives(ev) /\ Outside /\ held' = held
    BY <1>9 DEF Turn, userVars
  <2> HIDE DEF ev
  <2> QED BY <1>7, <2>1, <2>2, <2>3
<1>10. CASE ThreadStep
  <2>1. held' = held
    BY <1>10 DEF ThreadStep, ReadBatch, Translate, PassThrough, Write, LoseRest, Crash,
                 userVars
  <2>2. ~Crash
    BY DEF Crash
  <2> QED BY <1>1, <1>3, <1>10, <2>1, <2>2, ReadBatchMirrors, TranslateMirrors,
             PassThroughMirrorsToo, WriteMirrors, LoseRestMirrors DEF ThreadStep, IInv
<1>11. CASE (\E w \in Windows : ChangeWindow(w)) \/ StartReading
  <2>1. UNCHANGED <<held, queue, batch, todo, down>>
    BY <1>11 DEF ChangeWindow, StartReading, userVars, threadVars
  <2> QED BY <1>4, <2>1
<1>12. CASE StopReading
  <2>1. AtRest
    BY <1>2, <1>12 DEF StopReading, Disturbs
  <2>2. UNCHANGED <<held, queue, batch, todo, down>>
    BY <1>12, <2>1 DEF StopReading, AtRest, userVars, threadVars
  <2> QED BY <1>4, <2>2
<1>13. CASE UNCHANGED vars
  BY <1>4, <1>13 DEF vars, userVars, threadVars
<1> QED BY <1>5, <1>6, <1>8, <1>9, <1>10, <1>11, <1>12, <1>13 DEF Next

\* The invariant: at the start, and after every step.
LEMMA InitIInv ==
    ASSUME Init
    PROVE  IInv
<1>1. Typed /\ OutputsForKnown
  BY InitTyped, InitOutputs
<1>2. ASSUME NEW k \in PassedKeys
      PROVE  ~Handled(queue, batch, todo, down, k)
  <2>1. todo \in Ours /\ queue = <<>> /\ batch = <<>> /\ down = {}
    BY DEF Init, Ours
  <2>2. ~Written(todo, down, k)
    <3>1. Written(todo, down, k) <=> <<OwnDevice, k>> \in down
      BY <1>1, <2>1, OursWritten
    <3>2. <<OwnDevice, k>> \notin down
      BY <2>1
    <3> QED BY <3>1, <3>2
  <2> QED BY <2>1, <2>2, NoEventsAreQuiet DEF Handled
<1> QED BY <1>1, <1>2 DEF IInv, WillMirror, Init

\* Every step keeps the invariant.
LEMMA NextIInv ==
    ASSUME IInv, [Next]_vars
    PROVE  IInv'
<1>1. Typed' /\ OutputsForKnown'
  BY NextTyped, NextOutputs DEF IInv
<1>2. /\ InputEvents' = InputEvents /\ OwnDevice' = OwnDevice /\ PassedKeys' = PassedKeys
  BY SameDevice
<1>3. \A k : Handled(queue, batch, todo, down, k)' <=> Handled(queue', batch', todo', down', k)
  BY <1>2 DEF Handled, Written, PassedOn
<1>4. WillMirror'
  BY <1>2, <1>3, NextMirrors DEF WillMirror
<1> QED BY <1>1, <1>4 DEF IInv

\* A key without <signal> behaves as if nobody had grabbed its device: once
\* all is handled it is pressed exactly if it is held, whatever the outputs
\* of other keys do and however often windows change (DevHandler::run()),
\* unless the repeat of a combo wrote an uninitialised element that happened
\* to be an event of this key.
THEOREM PassThroughThm == Spec => []PassThroughMirrors
<1>1. Init => IInv
  BY InitIInv
<1>2. IInv /\ [Next]_vars => IInv'
  BY NextIInv
<1>3. IInv => PassThroughMirrors
  <2> SUFFICES ASSUME IInv, Idle, queue = <<>>, disturbed # "by a reread", ~crashed,
                      NEW k \in PassedKeys \ stale
               PROVE  k \in held <=> <<OwnDevice, k>> \in down
    BY DEF PassThroughMirrors
  <2>1. k \in held <=> Handled(queue, batch, todo, down, k)
    BY DEF IInv, WillMirror
  <2>2. todo \in Ours /\ batch = <<>>
    BY NothingIsOurs DEF Idle
  <2>3. Written(todo, down, k) <=> <<OwnDevice, k>> \in down
    BY <2>2, OursWritten DEF IInv
  <2> QED BY <2>1, <2>2, <2>3, NoEventsAreQuiet DEF Handled
<1> QED BY <1>1, <1>2, <1>3, PTL DEF Spec
-----------------------------------------------------------------------------
(* What is pressed will be released.                                       *)

\* No output of any window presses something for good.
NothingSticks ==
    \A d \in Devices, w \in Windows : \A j \in DOMAIN About[d].config[w] :
        LetsGo(About[d].config[w][j], WrittenBy(d))

\* The events that still have to be handled.
Pending == batch \o queue

\* A key is held, or its release is among the events p.
Releases(ev, k) == ev.type = "KEY" /\ ev.code = k /\ ev.value = 0
ComesUp(p, H, k) == k \in H \/ \E i \in DOMAIN p : Releases(p[i], k)

\* A key that is pressed or repeated by one of them comes up after that.
Balanced(p, H) ==
    \A i \in DOMAIN p : p[i].type = "KEY" /\ p[i].value # 0 =>
        \/ p[i].code \in H
        \/ \E j \in DOMAIN p : j > i /\ Releases(p[j], p[i].code)

\* The first of the outputs that the key k triggers, as operator== finds it.
Triggers(k, j) == Inputs[j].type = "KEY" /\ Inputs[j].code = k
TriggersFirst(k, j, outs) ==
    Triggers(k, j) /\ \A i \in DOMAIN outs : Triggers(k, i) => j <= i

\* When k comes up, x is released on dev.
FreedBy(k, outs, dev, x) ==
    \/ \E j \in DOMAIN outs : TriggersFirst(k, j, outs) /\ Frees(outs[j], dev, x)
    \/ (\A j \in DOMAIN outs : ~Triggers(k, j)) /\ dev = OwnDevice /\ x = k

\* All that is pressed, or will be by the writes under way, is freed by a key
\* that comes up; but for what uninitialised elements were events of.
Owed ==
    \A dev, x : x \notin stale /\ Afterwards(todo, down, dev, x) =>
        \E k \in Keys : ComesUp(Pending, held, k) /\ FreedBy(k, outputs, dev, x)

PressablesDown == \A d \in down : d = <<d[1], d[2]>> /\ Pressable(d[1], d[2])
OutputsLetGo == \A j \in DOMAIN outputs : LetsGo(outputs[j], WrittenBy(device))
Calm == ~freed /\ (~reading => AtRest) /\ Balanced(Pending, held) /\ Owed

ReleaseInv ==
    /\ PressablesDown
    /\ OutputsLetGo
    /\ disturbed = "never" => Calm

\* At rest nothing is owed.
LEMMA NothingOwed ==
    ASSUME PressablesDown, Owed, AtRest
    PROVE  \A d \in down : d[2] \in stale
<1> SUFFICES ASSUME NEW d \in down, d[2] \notin stale PROVE FALSE
  OBVIOUS
<1>1. d = <<d[1], d[2]>>
  BY DEF PressablesDown
<1>2. todo = <<>> /\ Pending = <<>> /\ held = {}
  <2>1. batch = <<>> /\ queue = <<>> /\ todo = <<>> /\ held = {}
    BY DEF AtRest, Idle
  <2>2. <<>> \o <<>> = <<>>
    OBVIOUS
  <2> QED BY <2>1, <2>2 DEF Pending
<1>3. Afterwards(todo, down, d[1], d[2])
  <2>1. <<d[1], d[2]>> \in down
    BY <1>1
  <2>2. Untouched(todo, d[1], d[2])
    BY <1>2, NothingLeft
  <2> QED BY <2>1, <2>2 DEF Afterwards
<1>4. PICK k \in Keys : ComesUp(Pending, held, k)
  BY <1>3 DEF Owed
<1> QED BY <1>2, <1>4 DEF ComesUp

\* How the events that have to be handled change.
LEMMA PendingTyped ==
    ASSUME Typed
    PROVE  Pending \in Seq(InputEvents)
BY ConcatProperties DEF Typed, Pending

\* One more at the end ...
LEMMA PendingMore ==
    ASSUME Typed, NEW ev \in InputEvents, Arrives(ev), reading, batch' = batch
    PROVE  Pending' = Append(Pending, ev)
<1>1. queue' = Append(queue, ev) /\ queue \in Seq(InputEvents) /\ batch \in Seq(InputEvents)
  BY DEF Arrives, Typed
<1> DEFINE S == InputEvents
<1> HIDE DEF S
<1>2. ASSUME NEW b \in Seq(S), NEW q \in Seq(S), NEW e \in S
      PROVE  b \o Append(q, e) = Append(b \o q, e)
  BY <1>2
<1>3. batch \o Append(queue, ev) = Append(batch \o queue, ev)
  BY <1>1, <1>2 DEF S
<1> QED BY <1>1, <1>3 DEF Pending

\* ... the same when they are read ...
LEMMA PendingRead ==
    ASSUME Typed, ReadBatch
    PROVE  Pending' = Pending
<1>1. PICK n \in 1..Len(queue) :
        batch' = SubSeq(queue, 1, n) /\ queue' = SubSeq(queue, n + 1, Len(queue))
  BY ReadBatchTyped
<1>2. queue \in Seq(InputEvents) /\ batch = <<>>
  BY DEF Typed, ReadBatch
<1> DEFINE S == InputEvents
<1> HIDE DEF S
<1>3. ASSUME NEW q \in Seq(S), NEW m \in 1..Len(q)
      PROVE  SubSeq(q, 1, m) \o SubSeq(q, m + 1, Len(q)) = <<>> \o q
  <2> DEFINE one == SubSeq(q, 1, m)
             two == SubSeq(q, m + 1, Len(q))
  <2>1. one \in Seq(S) /\ Len(one) = m /\ \A i \in 1..m : one[i] = q[i]
    OBVIOUS
  <2>2. two \in Seq(S) /\ Len(two) = Len(q) - m /\ \A i \in 1..(Len(q) - m) : two[i] = q[m + i]
    OBVIOUS
  <2> HIDE DEF one, two
  <2>3. one \o two \in Seq(S) /\ Len(one \o two) = Len(q)
    BY <2>1, <2>2
  <2>4. ASSUME NEW i \in 1..Len(q) PROVE (one \o two)[i] = q[i]
    <3>1. CASE i <= m
      BY <2>1, <2>2, <3>1
    <3>2. CASE i > m
      <4>1. i - m \in 1..(Len(q) - m) /\ (one \o two)[i] = two[i - m]
        BY <2>1, <2>2, <3>2
      <4>2. m + (i - m) = i
        <5>1. m \in Int /\ i \in Int
          OBVIOUS
        <5> QED BY <5>1
      <4> QED BY <2>2, <4>1, <4>2
    <3>3. i <= m \/ i > m
      <4>1. m \in Int /\ i \in Int
        OBVIOUS
      <4> QED BY <4>1
    <3> QED BY <3>1, <3>2, <3>3
  <2>5. one \o two = q
    BY <2>3, <2>4, SeqEqual
  <2>6. <<>> \o q = q
    OBVIOUS
  <2> QED BY <2>5, <2>6 DEF one, two
<1>4. batch' \o queue' = <<>> \o queue
  BY <1>1, <1>2, <1>3 DEF S
<1> QED BY <1>2, <1>4 DEF Pending

\* ... and one less at the front when one is handled.
LEMMA PendingLess ==
    ASSUME Typed, batch # <<>>, batch' = Tail(batch), queue' = queue
    PROVE  Pending # <<>> /\ Head(Pending) = Head(batch) /\ Pending' = Tail(Pending)
<1>1. queue \in Seq(InputEvents) /\ batch \in Seq(InputEvents)
  BY DEF Typed
<1> DEFINE S == InputEvents
<1> HIDE DEF S
<1>2. ASSUME NEW b \in Seq(S), b # <<>>, NEW q \in Seq(S)
      PROVE  b \o q # <<>> /\ Head(b \o q) = Head(b) /\ Tail(b) \o q = Tail(b \o q)
  BY <1>2
<1>3. /\ batch \o queue # <<>> /\ Head(batch \o queue) = Head(batch)
      /\ Tail(batch) \o queue = Tail(batch \o queue)
  BY <1>1, <1>2 DEF S
<1> QED BY <1>3 DEF Pending

\* A new event keeps the balance if what it presses is held, and what is
\* held no more it releases.
LEMMA BalancedMore ==
    ASSUME NEW p \in Seq(InputEvents), NEW ev \in InputEvents, NEW H, NEW H2,
           \A k \in H : k \in H2 \/ Releases(ev, k),
           ev.type = "KEY" /\ ev.value # 0 => ev.code \in H2
    PROVE  /\ Balanced(p, H) => Balanced(Append(p, ev), H2)
           /\ \A k : ComesUp(p, H, k) => ComesUp(Append(p, ev), H2, k)
<1> DEFINE q == Append(p, ev)
           n == Len(p)
<1>1. /\ n \in Nat /\ DOMAIN p = 1..n /\ DOMAIN q = 1..(n + 1)
      /\ \A i \in 1..n : q[i] = p[i]
      /\ q[n + 1] = ev
  <2> DEFINE S == InputEvents
  <2> HIDE DEF S
  <2>1. p \in Seq(S) /\ ev \in S
    BY DEF S
  <2> QED BY <2>1
<1> HIDE DEF q, n
<1>2. n + 1 \in DOMAIN q /\ \A i \in 1..n : n + 1 > i /\ i \in DOMAIN q
  BY <1>1
<1>3. \A k : ComesUp(p, H, k) => ComesUp(q, H2, k)
  BY <1>1, <1>2 DEF ComesUp
<1>4. ASSUME Balanced(p, H), NEW i \in DOMAIN q, q[i].type = "KEY", q[i].value # 0
      PROVE  q[i].code \in H2 \/ \E j \in DOMAIN q : j > i /\ Releases(q[j], q[i].code)
  <2>1. CASE i = n + 1
    BY <1>1, <1>4, <2>1
  <2>2. CASE i \in 1..n
    <3>1. p[i].code \in H \/ \E j \in DOMAIN p : j > i /\ Releases(p[j], p[i].code)
      BY <1>1, <1>4, <2>2 DEF Balanced
    <3> QED BY <1>1, <1>2, <2>2, <3>1
  <2> QED BY <1>1, <2>1, <2>2
<1>5. Balanced(p, H) => Balanced(q, H2)
  BY <1>4 DEF Balanced
<1> QED BY <1>3, <1>5 DEF q

\* So does the first one once it is handled, and what it pressed still comes
\* up.
LEMMA BalancedLess ==
    ASSUME NEW p \in Seq(InputEvents), p # <<>>, NEW H
    PROVE  /\ Balanced(p, H) => Balanced(Tail(p), H)
           /\ \A k : ComesUp(p, H, k) /\ ~Releases(Head(p), k) => ComesUp(Tail(p), H, k)
           /\ Balanced(p, H) /\ Head(p).type = "KEY" /\ Head(p).value # 0
                => ComesUp(Tail(p), H, Head(p).code)
<1> DEFINE q == Tail(p)
           n == Len(p)
<1>1. /\ n \in Nat \ {0} /\ DOMAIN p = 1..n /\ DOMAIN q = 1..(n - 1)
      /\ \A i \in 1..(n - 1) : q[i] = p[i + 1]
      /\ Head(p) = p[1]
  <2> DEFINE S == InputEvents
  <2> HIDE DEF S
  <2>1. p \in Seq(S)
    BY DEF S
  <2> QED BY <2>1
<1> HIDE DEF q, n
<1>2. /\ \A i \in 1..(n - 1) : i + 1 \in DOMAIN p
      /\ \A i \in DOMAIN p : i # 1 => i - 1 \in DOMAIN q /\ q[i - 1] = p[i]
  <2>1. ASSUME NEW i \in DOMAIN p, i # 1 PROVE i - 1 \in DOMAIN q /\ q[i - 1] = p[i]
    <3>1. i - 1 \in 1..(n - 1) /\ (i - 1) + 1 = i
      BY <1>1, <2>1
    <3> QED BY <1>1, <3>1
  <2> QED BY <1>1, <2>1
<1>3. ASSUME NEW k, ComesUp(p, H, k), ~Releases(Head(p), k)
      PROVE  ComesUp(q, H, k)
  BY <1>1, <1>2, <1>3 DEF ComesUp
<1>4. ASSUME Balanced(p, H), NEW i \in DOMAIN p, p[i].type = "KEY", p[i].value # 0
      PROVE  p[i].code \in H \/ \E j \in DOMAIN q : j > i - 1 /\ Releases(q[j], p[i].code)
  <2>1. CASE p[i].code \in H
    BY <2>1
  <2>2. CASE \E j \in DOMAIN p : j > i /\ Releases(p[j], p[i].code)
    <3>1. PICK j \in DOMAIN p : j > i /\ Releases(p[j], p[i].code)
      BY <2>2
    <3>2. j # 1 /\ j - 1 > i - 1
      BY <1>1, <3>1
    <3>3. j - 1 \in DOMAIN q /\ q[j - 1] = p[j]
      BY <1>2, <3>2
    <3> QED BY <3>1, <3>2, <3>3
  <2> QED BY <1>4, <2>1, <2>2 DEF Balanced
<1>5. ASSUME Balanced(p, H) PROVE Balanced(q, H)
  <2> SUFFICES ASSUME NEW i \in DOMAIN q, q[i].type = "KEY", q[i].value # 0
               PROVE  q[i].code \in H \/ \E j \in DOMAIN q : j > i /\ Releases(q[j], q[i].code)
    BY DEF Balanced
  <2>1. i + 1 \in DOMAIN p /\ q[i] = p[i + 1] /\ (i + 1) - 1 = i
    BY <1>1, <1>2
  <2> QED BY <1>4, <1>5, <2>1
<1>6. ASSUME Balanced(p, H), Head(p).type = "KEY", Head(p).value # 0
      PROVE  ComesUp(q, H, Head(p).code)
  <2>1. 1 \in DOMAIN p
    BY <1>1
  <2> QED BY <1>1, <1>4, <1>6, <2>1 DEF ComesUp
<1> QED BY <1>3, <1>5, <1>6 DEF q
-----------------------------------------------------------------------------
(* The steps: what is pressed stays owed.                                  *)

\* Who writes first, or without another look, writes the same.
LEMMA AtOnceLeaves ==
    ASSUME NEW ops \in Ours, NEW dev, NEW x
    PROVE  /\ LeftPressed(AtOnce(ops), dev, x) <=> LeftPressed(ops, dev, x)
           /\ Untouched(AtOnce(ops), dev, x) <=> Untouched(ops, dev, x)
<1> DEFINE W == WritesOn(WrittenBy(device))
<1>1. CASE ops = <<>>
  BY <1>1 DEF AtOnce
<1>2. CASE ops # <<>>
  <2>1. PICK new : new = AtOnce(ops)
    OBVIOUS
  <2>2. /\ ops \in Seq(W) /\ 1 \in DOMAIN ops
        /\ new = [ops EXCEPT ![1] = Local(ops[1])]
    BY <1>2, <2>1 DEF AtOnce, Ours
  <2> HIDE DEF W
  <2>3. /\ DOMAIN new = DOMAIN ops
        /\ \A n \in DOMAIN ops : new[n] = IF n = 1 THEN Local(ops[1]) ELSE ops[n]
    BY <2>2
  <2>4. ASSUME NEW n \in DOMAIN ops
        PROVE  new[n].dev = ops[n].dev /\ new[n].evs = ops[n].evs
    <3>1. ops[1] \in W
      BY <2>2
    <3>2. Local(ops[1]).dev = ops[1].dev /\ Local(ops[1]).evs = ops[1].evs
      BY <3>1 DEF W, Local, WritesOn
    <3> QED BY <2>3, <3>2
  <2>5. \A n \in DOMAIN ops : /\ Leaves(new[n], dev, x) <=> Leaves(ops[n], dev, x)
                              /\ Touches(new[n], dev, x) <=> Touches(ops[n], dev, x)
    BY <2>4 DEF Leaves, Touches
  <2>6. LeftPressed(new, dev, x) <=> LeftPressed(ops, dev, x)
    BY <2>3, <2>5 DEF LeftPressed
  <2>7. Untouched(new, dev, x) <=> Untouched(ops, dev, x)
    BY <2>3, <2>5 DEF Untouched
  <2> QED BY <2>1, <2>6, <2>7
<1> QED BY <1>1, <1>2

\* What a write under way is made of.
LEMMA TodoFacts ==
    ASSUME Typed, todo # <<>>
    PROVE  /\ \E n \in Nat : DOMAIN Head(todo).evs = 1..n
           /\ \E n \in Nat \ {0} : DOMAIN todo = 1..n /\ DOMAIN Tail(todo) = 1..(n - 1)
           /\ \A i \in DOMAIN Tail(todo) : Tail(todo)[i] = todo[i + 1]
           /\ Head(todo) = todo[1]
<1>1. CASE todo \in Ours
  <2> DEFINE W == WritesOn(WrittenBy(device))
  <2>1. todo \in Seq(W) /\ Head(todo) \in W
    BY <1>1, OursIn DEF Ours
  <2>2. PICK op \in W : op = Head(todo)
    BY <2>1
  <2>3. op.evs \in Seq(EventsOn(WrittenBy(device)) \cup {Junk})
    BY DEF WritesOn
  <2>4. PICK n \in Nat : DOMAIN op.evs = 1..n
    BY <2>3
  <2> HIDE DEF W
  <2>5. Len(todo) \in Nat \ {0} /\ DOMAIN todo = 1..Len(todo)
    BY <2>1
  <2>6. /\ DOMAIN Tail(todo) = 1..(Len(todo) - 1)
        /\ \A i \in DOMAIN Tail(todo) : Tail(todo)[i] = todo[i + 1]
        /\ Head(todo) = todo[1]
    BY <2>1, <2>5
  <2> QED BY <2>2, <2>4, <2>5, <2>6
<1>2. ASSUME NEW ev \in InputEvents, todo = <<PassedOn(ev)>>
      PROVE  /\ \E n \in Nat : DOMAIN Head(todo).evs = 1..n
             /\ \E n \in Nat \ {0} : DOMAIN todo = 1..n /\ DOMAIN Tail(todo) = 1..(n - 1)
             /\ \A i \in DOMAIN Tail(todo) : Tail(todo)[i] = todo[i + 1]
             /\ Head(todo) = todo[1]
  <2>1. PICK op : op = PassedOn(ev)
    OBVIOUS
  <2>2. op.evs = <<ev>>
    BY <2>1 DEF PassedOn, Local, WriteTo
  <2>3. DOMAIN op.evs = 1..1
    BY <2>2
  <2>4. /\ todo = <<op>> /\ Head(todo) = op /\ todo[1] = op /\ Tail(todo) = <<>>
        /\ DOMAIN todo = 1..1
    BY <1>2, <2>1
  <2>5. DOMAIN <<>> = 1..(1 - 1) /\ 1 \in Nat \ {0}
    OBVIOUS
  <2>6. \E n \in Nat : DOMAIN Head(todo).evs = 1..n
    BY <2>3, <2>4
  <2>7. \E n \in Nat \ {0} : DOMAIN todo = 1..n /\ DOMAIN Tail(todo) = 1..(n - 1)
    BY <2>4, <2>5
  <2>8. \A i \in DOMAIN Tail(todo) : Tail(todo)[i] = todo[i + 1]
    BY <2>4
  <2>9. Head(todo) = todo[1]
    BY <2>4
  <2> QED BY <2>6, <2>7, <2>8, <2>9
<1> QED BY <1>1, <1>2 DEF Typed

\* A write does what was to be expected.
LEMMA WriteOwes ==
    ASSUME Typed, PressablesDown, Write
    PROVE  /\ PressablesDown'
           /\ \A dev, x : x \notin stale' /\ Afterwards(todo', down', dev, x)
                            => Afterwards(todo, down, dev, x)
<1>1. todo # <<>> /\ todo' = Tail(todo)
  BY DEF Write
<1>2. PICK op : op = Head(todo)
  OBVIOUS
<1>0. PICK junk \in JunkEvents : \E evs :
        /\ evs = [i \in DOMAIN op.evs |-> IF op.evs[i] = Junk THEN junk ELSE op.evs[i]]
        /\ down' = Apply(down, op.dev, evs)
        /\ \A x : x \notin stale' => \A i \in DOMAIN op.evs :
              op.evs[i] = Junk => junk.type # "KEY" \/ junk.code # x
  BY <1>2, WriteIs
<1>3. PICK evs :
        /\ evs = [i \in DOMAIN op.evs |-> IF op.evs[i] = Junk THEN junk ELSE op.evs[i]]
        /\ down' = Apply(down, op.dev, evs)
        /\ \A x : x \notin stale' => \A i \in DOMAIN op.evs :
              op.evs[i] = Junk => junk.type # "KEY" \/ junk.code # x
  BY <1>0
<1>4. evs = [i \in DOMAIN op.evs |-> IF op.evs[i] = Junk THEN junk ELSE op.evs[i]]
  BY <1>3
<1>5. down' = Apply(down, op.dev, evs)
  BY <1>3
<1>6. PICK n \in Nat : DOMAIN op.evs = 1..n
  BY <1>1, <1>2, TodoFacts
<1>7. PressablesDown'
  <2>1. DOMAIN evs = 1..n
    BY <1>4, <1>6
  <2>2. ASSUME NEW d \in Apply(down, op.dev, evs)
        PROVE  d = <<d[1], d[2]>> /\ Pressable(d[1], d[2])
    BY <2>1, AppliedPressable DEF PressablesDown
  <2> QED BY <1>5, <2>2 DEF PressablesDown
<1>8. ASSUME NEW dev, NEW x, x \notin stale', Afterwards(todo', down', dev, x)
      PROVE  Afterwards(todo, down, dev, x)
  <2>1. PICK m \in Nat \ {0} : DOMAIN todo = 1..m /\ DOMAIN todo' = 1..(m - 1)
    BY <1>1, TodoFacts
  <2>2. todo[1] = op /\ \A i \in DOMAIN todo' : todo'[i] = todo[i + 1] /\ i + 1 \in DOMAIN todo
    <3>1. todo[1] = op /\ \A i \in DOMAIN todo' : todo'[i] = todo[i + 1]
      BY <1>1, <1>2, TodoFacts
    <3> QED BY <2>1, <3>1
  <2>3. \A i \in DOMAIN todo : i # 1 => i - 1 \in DOMAIN todo' /\ todo'[i - 1] = todo[i]
    <3>1. ASSUME NEW i \in DOMAIN todo, i # 1
          PROVE  i - 1 \in DOMAIN todo' /\ todo'[i - 1] = todo[i]
      <4>1. i - 1 \in 1..(m - 1) /\ (i - 1) + 1 = i
        BY <2>1, <3>1
      <4> QED BY <2>1, <2>2, <4>1
    <3> QED BY <3>1
  <2>4. CASE LeftPressed(todo', dev, x)
    <3>1. PICK i \in DOMAIN todo' :
            /\ Leaves(todo'[i], dev, x)
            /\ \A j \in DOMAIN todo' : j > i => ~Touches(todo'[j], dev, x)
      BY <2>4 DEF LeftPressed
    <3>2. i + 1 \in DOMAIN todo /\ Leaves(todo[i + 1], dev, x)
      BY <2>2, <3>1
    <3>3. ASSUME NEW j \in DOMAIN todo, j > i + 1 PROVE ~Touches(todo[j], dev, x)
      <4>1. j # 1 /\ j - 1 > i
        BY <2>1, <3>3
      <4> QED BY <2>3, <3>1, <4>1
    <3> QED BY <3>2, <3>3 DEF LeftPressed, Afterwards
  <2>5. CASE Untouched(todo', dev, x) /\ <<dev, x>> \in down'
    <3>1. Pressable(dev, x)
      <4>1. PICK d \in down' : d = <<dev, x>>
        BY <2>5
      <4>2. Pressable(d[1], d[2])
        BY <1>7 DEF PressablesDown
      <4> QED BY <4>1, <4>2
    <3>2. Leaves(op, dev, x) \/ (~Touches(op, dev, x) /\ <<dev, x>> \in down)
      <4>1. \A i \in 1..n : op.evs[i] = Junk => junk.type # "KEY" \/ junk.code # x
        BY <1>3, <1>6, <1>8
      <4> QED BY <1>4, <1>5, <1>6, <2>5, <3>1, <4>1, AppliedLeaves
    <3>3. \A j \in DOMAIN todo : j # 1 => ~Touches(todo[j], dev, x)
      BY <2>3, <2>5 DEF Untouched
    <3>4. 1 \in DOMAIN todo
      BY <2>1
    <3>5. CASE Leaves(op, dev, x)
      <4>1. \A j \in DOMAIN todo : j > 1 => ~Touches(todo[j], dev, x)
        BY <2>1, <3>3
      <4> QED BY <2>2, <3>4, <3>5, <4>1 DEF LeftPressed, Afterwards
    <3>6. CASE ~Touches(op, dev, x) /\ <<dev, x>> \in down
      <4>1. Untouched(todo, dev, x)
        BY <2>2, <3>3, <3>6 DEF Untouched
      <4> QED BY <3>6, <4>1 DEF Afterwards
    <3> QED BY <3>2, <3>5, <3>6
  <2> QED BY <1>8, <2>4, <2>5 DEF Afterwards
<1> QED BY <1>7, <1>8
\* operator== for an event of a key.
LEMMA KeyMatches ==
    ASSUME NEW ev, ev.type = "KEY", NEW i
    PROVE  Matches(Inputs[i], ev) <=> Triggers(ev.code, i)
BY DEF Matches, Triggers

\* The output that is sent, and how.
LEMMA TranslateSends ==
    ASSUME Typed, Translate
    PROVE  \E j \in DOMAIN outputs, short \in BOOLEAN :
              /\ Matches(Inputs[j], Head(batch))
              /\ \A i \in DOMAIN outputs : Matches(Inputs[i], Head(batch)) => j <= i
              /\ outputs[j] \in OutputsOn(WrittenBy(device))
              /\ todo' = AtOnce(SendFrom(outputs[j], Head(batch).type,
                                         Head(batch).value, short).ops)
              /\ outputs' = [outputs EXCEPT
                               ![j] = SendFrom(outputs[j], Head(batch).type,
                                               Head(batch).value, short).out]
<1> DEFINE ev == Head(batch)
<1>1. PICK j \in Matching(ev) :
        /\ \A i \in Matching(ev) : j <= i
        /\ \E short \in BOOLEAN :
             /\ todo' = AtOnce(SendFrom(outputs[j], ev.type, ev.value, short).ops)
             /\ outputs' = [outputs EXCEPT
                              ![j] = SendFrom(outputs[j], ev.type, ev.value, short).out]
  BY DEF Translate
<1>2. PICK short \in BOOLEAN :
        /\ todo' = AtOnce(SendFrom(outputs[j], ev.type, ev.value, short).ops)
        /\ outputs' = [outputs EXCEPT
                         ![j] = SendFrom(outputs[j], ev.type, ev.value, short).out]
  BY <1>1
<1> HIDE DEF ev
<1>3. /\ j \in DOMAIN outputs /\ Matches(Inputs[j], ev)
      /\ \A i \in DOMAIN outputs : Matches(Inputs[i], ev) => j <= i
  BY <1>1 DEF Matching
<1>4. outputs[j] \in OutputsOn(WrittenBy(device))
  <2> DEFINE O == OutputsOn(WrittenBy(device))
  <2>1. outputs \in Seq(O)
    BY DEF Typed
  <2> HIDE DEF O
  <2>2. outputs[j] \in O
    BY <1>3, <2>1
  <2> QED BY <2>2 DEF O
<1> QED BY <1>2, <1>3, <1>4 DEF ev

\* An output that is sent leaves pressed what its input's release will free.
LEMMA SentOwes ==
    ASSUME Typed, NEW ev \in InputEvents, NEW out \in OutputsOn(WrittenBy(device)),
           LetsGo(out, WrittenBy(device)), NEW short \in BOOLEAN,
           NEW sent, sent = SendFrom(out, ev.type, ev.value, short),
           NEW dev, NEW x, LeftPressed(sent.ops, dev, x)
    PROVE  ev.type = "KEY" /\ ev.value # 0 /\ Frees(sent.out, dev, x)
<1> DEFINE C == WrittenBy(device)
<1>1. Junk \notin EventsOn(C)
  <2> DEFINE D == About[device].keys \cup About[device].axes \cup C
  <2>1. Junk \notin EventsOn(D)
    BY JunkIsNoEvent DEF Typed
  <2>2. EventsOn(C) \subseteq EventsOn(D)
    BY DEF EventsOn
  <2> QED BY <2>1, <2>2
<1>2. \E source : \E value \in Int :
        /\ source = ev.type /\ value = ev.value
        /\ source = "KEY" => value \in {0, 1, 2}
  BY DEF InputEvents
<1> PICK source : \E value \in Int :
        /\ source = ev.type /\ value = ev.value
        /\ source = "KEY" => value \in {0, 1, 2}
  BY <1>2
<1>3. PICK value \in Int :
        /\ source = ev.type /\ value = ev.value
        /\ source = "KEY" => value \in {0, 1, 2}
  OBVIOUS
<1>4. LeftPressed(SendFrom(out, source, value, short).ops, dev, x)
  BY <1>3
<1>5. out \in OutputsOn(C) /\ LetsGo(out, C)
  OBVIOUS
<1> HIDE DEF C
<1>6. /\ source = "KEY" /\ value # 0
      /\ Frees(SendFrom(out, source, value, short).out, dev, x)
  BY <1>1, <1>3, <1>4, <1>5, SendFromLeaves
<1> QED BY <1>3, <1>6

\* What an output presses is owed to the key that made it, and the release
\* of a key pays.
LEMMA TranslateOwes ==
    ASSUME Typed, OutputsLetGo, Balanced(Pending, held), Owed, Translate
    PROVE  Balanced(Pending, held)' /\ Owed'
<1> DEFINE C == WrittenBy(device)
<1>1. PICK ev \in InputEvents : ev = Head(batch)
  BY HeadTailProperties DEF Typed, Translate
<1>2. PICK j \in DOMAIN outputs, short \in BOOLEAN :
        /\ Matches(Inputs[j], ev)
        /\ \A i \in DOMAIN outputs : Matches(Inputs[i], ev) => j <= i
        /\ outputs[j] \in OutputsOn(C)
        /\ todo' = AtOnce(SendFrom(outputs[j], ev.type, ev.value, short).ops)
        /\ outputs' = [outputs EXCEPT
                         ![j] = SendFrom(outputs[j], ev.type, ev.value, short).out]
  BY <1>1, TranslateSends
<1>3. PICK out \in OutputsOn(C) : out = outputs[j]
  BY <1>2
<1>4. PICK sent : sent = SendFrom(out, ev.type, ev.value, short)
  OBVIOUS
<1>5. /\ todo' = AtOnce(sent.ops)
      /\ DOMAIN outputs' = DOMAIN outputs
      /\ outputs'[j] = sent.out
      /\ \A i \in DOMAIN outputs : i # j => outputs'[i] = outputs[i]
  BY <1>2, <1>3, <1>4
<1>6. Junk \notin EventsOn(C)
  <2> DEFINE D == About[device].keys \cup About[device].axes \cup C
  <2>1. Junk \notin EventsOn(D)
    BY JunkIsNoEvent DEF Typed
  <2>2. EventsOn(C) \subseteq EventsOn(D)
    BY DEF EventsOn
  <2> QED BY <2>1, <2>2
<1>7. /\ ev.value \in Int
      /\ ev.type = "KEY" => ev.value \in {0, 1, 2} /\ ev.code \in Keys
  BY DEF InputEvents
<1>8. UNCHANGED <<device, held, down, stale>> /\ C' = C /\ Inputs' = Inputs /\ Keys' = Keys
      /\ OwnDevice' = OwnDevice
  BY DEF Translate, userVars, WrittenBy, Inputs, Keys, OwnDevice, DevType
<1>9. Fine(C, sent, out)
  BY <1>4, <1>7, SendFromFine
<1>10. LetsGo(out, C)
  BY <1>2, <1>3 DEF OutputsLetGo
<1>11. /\ Pending \in Seq(InputEvents) /\ Pending # <<>>
       /\ Head(Pending) = ev /\ Pending' = Tail(Pending)
  <2>1. batch # <<>> /\ batch' = Tail(batch) /\ queue' = queue
    BY DEF Translate
  <2> QED BY <1>1, <2>1, PendingTyped, PendingLess
<1> HIDE DEF C
<1>12. /\ Balanced(Pending', held)
       /\ \A k : ComesUp(Pending, held, k) /\ ~Releases(ev, k) => ComesUp(Pending', held, k)
       /\ ev.type = "KEY" /\ ev.value # 0 => ComesUp(Pending', held, ev.code)
  BY <1>11, BalancedLess
<1>13. \A k : ev.type = "KEY" /\ ev.code = k => TriggersFirst(k, j, outputs)
  BY <1>2, KeyMatches DEF TriggersFirst
<1>14. \A k, i : TriggersFirst(k, i, outputs') <=> TriggersFirst(k, i, outputs)
  BY <1>5 DEF TriggersFirst
<1>15. ASSUME NEW dev, NEW x, x \notin stale, Afterwards(todo', down, dev, x)
       PROVE  \E k \in Keys : ComesUp(Pending', held, k) /\ FreedBy(k, outputs', dev, x)
  <2>1. sent.ops \in Ours
    BY <1>9 DEF Fine, Ours, C
  <2>2. LeftPressed(sent.ops, dev, x) \/ (Untouched(sent.ops, dev, x) /\ <<dev, x>> \in down)
    BY <1>5, <1>15, <2>1, AtOnceLeaves DEF Afterwards
  <2>3. CASE LeftPressed(sent.ops, dev, x)
    <3>1. ev.type = "KEY" /\ ev.value # 0 /\ Frees(sent.out, dev, x)
      BY <1>1, <1>4, <1>10, <2>3, SentOwes DEF C
    <3>2. FreedBy(ev.code, outputs', dev, x)
      BY <1>2, <1>5, <1>13, <1>14, <3>1 DEF FreedBy
    <3> QED BY <1>7, <1>12, <3>1, <3>2
  <2>4. CASE Untouched(sent.ops, dev, x) /\ <<dev, x>> \in down
    <3>1. Afterwards(todo, down, dev, x)
      <4>1. todo = <<>>
        BY DEF Translate
      <4> QED BY <2>4, <4>1, NothingLeft DEF Afterwards
    <3>2. PICK k \in Keys : ComesUp(Pending, held, k) /\ FreedBy(k, outputs, dev, x)
      BY <1>15, <3>1 DEF Owed
    <3>3. CASE ev.type = "KEY" /\ ev.code = k
      <4>1. TriggersFirst(k, j, outputs) /\ Triggers(k, j)
        BY <1>13, <3>3 DEF TriggersFirst
      <4>2. PICK i \in DOMAIN outputs :
              TriggersFirst(k, i, outputs) /\ Frees(outputs[i], dev, x)
        BY <1>2, <3>2, <4>1 DEF FreedBy
      <4>3. i = j
        <5>1. i <= j /\ j <= i
          BY <1>2, <4>1, <4>2 DEF TriggersFirst
        <5>2. DOMAIN outputs \subseteq Int
          <6> DEFINE O == OutputsOn(WrittenBy(device))
          <6>1. outputs \in Seq(O)
            BY DEF Typed
          <6> HIDE DEF O
          <6> QED BY <6>1
        <5>3. i \in Int /\ j \in Int
          BY <5>2
        <5> QED BY <5>1, <5>3
      <4>4. Frees(out, dev, x)
        BY <1>3, <4>2, <4>3
      <4>5. /\ ~Untouched(SendFrom(out, "KEY", 0, short).ops, dev, x)
            /\ \A value \in {1, 2} : Frees(SendFrom(out, "KEY", value, short).out, dev, x)
        BY <1>6, <4>4, SendFromReleases
      <4>6. ev.value \in {1, 2}
        BY <1>4, <1>7, <2>4, <3>3, <4>5
      <4>7. Frees(outputs'[j], dev, x)
        BY <1>4, <1>5, <3>3, <4>5, <4>6
      <4>8. FreedBy(k, outputs', dev, x)
        BY <1>5, <1>14, <4>1, <4>7 DEF FreedBy
      <4>9. ~Releases(ev, k)
        BY <4>6 DEF Releases
      <4> QED BY <1>12, <3>2, <4>8, <4>9
    <3>4. CASE ~(ev.type = "KEY" /\ ev.code = k)
      <4>1. ~Releases(ev, k)
        BY <3>4 DEF Releases
      <4>2. ~Triggers(k, j)
        BY <1>2, <3>4 DEF Triggers, Matches
      <4>3. FreedBy(k, outputs', dev, x)
        <5>1. CASE \E i \in DOMAIN outputs :
                     TriggersFirst(k, i, outputs) /\ Frees(outputs[i], dev, x)
          <6>1. PICK i \in DOMAIN outputs :
                  TriggersFirst(k, i, outputs) /\ Frees(outputs[i], dev, x)
            BY <5>1
          <6>2. i # j
            BY <4>2, <6>1 DEF TriggersFirst
          <6> QED BY <1>5, <1>14, <6>1, <6>2 DEF FreedBy
        <5>2. CASE (\A i \in DOMAIN outputs : ~Triggers(k, i)) /\ dev = OwnDevice /\ x = k
          BY <1>5, <5>2 DEF FreedBy
        <5> QED BY <3>2, <5>1, <5>2 DEF FreedBy
      <4> QED BY <1>12, <3>2, <4>1, <4>3
    <3> QED BY <3>3, <3>4
  <2> QED BY <2>2, <2>3, <2>4
<1>16. Balanced(Pending, held)'
  <2>1. Balanced(Pending', held')
    BY <1>8, <1>12
  <2> QED BY <2>1 DEF Balanced, Releases
<1>17. Owed'
  BY <1>8, <1>15 DEF Owed, Afterwards, FreedBy, TriggersFirst, Triggers
<1> QED BY <1>16, <1>17
\* What is passed on is owed to its own key.
LEMMA PassThroughOwes ==
    ASSUME Typed, Balanced(Pending, held), Owed, PassThrough
    PROVE  Balanced(Pending, held)' /\ Owed'
<1>1. PICK ev \in InputEvents : ev = Head(batch)
  BY HeadTailProperties DEF Typed, PassThrough
<1>2. todo' = <<PassedOn(ev)>>
  BY <1>1, PassedOnIs DEF PassThrough
<1>3. ev # Junk /\ (ev.type = "KEY" => ev.value \in {0, 1, 2} /\ ev.code \in Keys)
  <2>1. ev # Junk
    BY InputIsNotJunk
  <2>2. ev.type = "KEY" => ev.value \in {0, 1, 2} /\ ev.code \in Keys
    BY DEF InputEvents
  <2> QED BY <2>1, <2>2
<1>4. /\ UNCHANGED <<device, held, down, stale, outputs>> /\ Inputs' = Inputs /\ Keys' = Keys
      /\ OwnDevice' = OwnDevice
  BY DEF PassThrough, userVars, Inputs, Keys, OwnDevice, DevType
<1>5. /\ Pending \in Seq(InputEvents) /\ Pending # <<>>
      /\ Head(Pending) = ev /\ Pending' = Tail(Pending)
  <2>1. batch # <<>> /\ batch' = Tail(batch) /\ queue' = queue
    BY DEF PassThrough
  <2> QED BY <1>1, <2>1, PendingTyped, PendingLess
<1>6. /\ Balanced(Pending', held)
      /\ \A k : ComesUp(Pending, held, k) /\ ~Releases(ev, k) => ComesUp(Pending', held, k)
      /\ ev.type = "KEY" /\ ev.value # 0 => ComesUp(Pending', held, ev.code)
  BY <1>5, BalancedLess
<1>7. ev.type = "KEY" => \A j \in DOMAIN outputs : ~Triggers(ev.code, j)
  <2>1. \A j \in DOMAIN outputs : ~Matches(Inputs[j], ev)
    BY <1>1 DEF PassThrough, Matching
  <2> QED BY <2>1, KeyMatches
<1>8. PICK op : op = PassedOn(ev)
  OBVIOUS
<1>9. /\ DOMAIN todo' = {1} /\ todo'[1] = op
      /\ op.dev = OwnDevice /\ DOMAIN op.evs = {1} /\ op.evs[1] = ev
  <2>1. op.dev = OwnDevice /\ op.evs = <<ev>>
    BY <1>8 DEF PassedOn, Local, WriteTo
  <2>2. todo' = <<op>>
    BY <1>2, <1>8
  <2> QED BY <2>1, <2>2
<1>10. \A dev, x : Touches(op, dev, x) <=> dev = OwnDevice /\ Changes(ev, x)
  BY <1>3, <1>9 DEF Touches, Alters
<1>11. \A dev, x : Leaves(op, dev, x) => dev = OwnDevice /\ Changes(ev, x) /\ ev.value # 0
  BY <1>9 DEF Leaves, Alters
<1>12. ASSUME NEW dev, NEW x, x \notin stale, Afterwards(todo', down, dev, x)
       PROVE  \E k \in Keys : ComesUp(Pending', held, k) /\ FreedBy(k, outputs, dev, x)
  <2>1. CASE LeftPressed(todo', dev, x)
    <3>1. Leaves(op, dev, x)
      BY <1>9, <2>1 DEF LeftPressed
    <3>2. dev = OwnDevice /\ ev.type = "KEY" /\ ev.code = x /\ ev.value # 0
      BY <1>11, <3>1 DEF Changes
    <3>3. FreedBy(ev.code, outputs, dev, x)
      BY <1>7, <3>2 DEF FreedBy
    <3> QED BY <1>3, <1>6, <3>2, <3>3
  <2>2. CASE Untouched(todo', dev, x) /\ <<dev, x>> \in down
    <3>1. ~Touches(op, dev, x)
      BY <1>9, <2>2 DEF Untouched
    <3>2. Afterwards(todo, down, dev, x)
      <4>1. todo = <<>>
        BY DEF PassThrough
      <4> QED BY <2>2, <4>1, NothingLeft DEF Afterwards
    <3>3. PICK k \in Keys : ComesUp(Pending, held, k) /\ FreedBy(k, outputs, dev, x)
      BY <1>12, <3>2 DEF Owed
    <3>4. ~Releases(ev, k)
      <4>1. SUFFICES ASSUME Releases(ev, k) PROVE FALSE
        OBVIOUS
      <4>2. ev.type = "KEY" /\ ev.code = k /\ Changes(ev, k)
        BY <4>1 DEF Releases, Changes
      <4>3. dev = OwnDevice /\ x = k
        BY <1>7, <3>3, <4>2 DEF FreedBy, TriggersFirst
      <4> QED BY <1>10, <3>1, <4>2, <4>3
    <3> QED BY <1>6, <3>3, <3>4
  <2> QED BY <1>12, <2>1, <2>2 DEF Afterwards
<1>13. Balanced(Pending, held)'
  <2>1. Balanced(Pending', held')
    BY <1>4, <1>6
  <2> QED BY <2>1 DEF Balanced, Releases
<1>14. Owed'
  BY <1>4, <1>12 DEF Owed, Afterwards, FreedBy, TriggersFirst, Triggers
<1> QED BY <1>13, <1>14

\* What the user does is owed, too.
LEMMA InputOwes ==
    ASSUME Typed, Balanced(Pending, held), Owed, reading, Outside,
           NEW ev \in InputEvents, Arrives(ev),
           \A k \in held : k \in held' \/ Releases(ev, k),
           ev.type = "KEY" /\ ev.value # 0 => ev.code \in held'
    PROVE  Balanced(Pending, held)' /\ Owed'
<1>1. /\ UNCHANGED <<device, todo, batch, down, stale, outputs>> /\ Inputs' = Inputs
      /\ Keys' = Keys /\ OwnDevice' = OwnDevice
  BY DEF Outside, threadVars, Inputs, Keys, OwnDevice, DevType
<1>2. Pending \in Seq(InputEvents) /\ Pending' = Append(Pending, ev)
  BY <1>1, PendingTyped, PendingMore
<1>3. PICK H : H = held'
  OBVIOUS
<1>4. /\ Balanced(Append(Pending, ev), H)
      /\ \A k : ComesUp(Pending, held, k) => ComesUp(Append(Pending, ev), H, k)
  <2>1. /\ \A k \in held : k \in H \/ Releases(ev, k)
        /\ ev.type = "KEY" /\ ev.value # 0 => ev.code \in H
    BY <1>3
  <2> QED BY <1>2, <2>1, BalancedMore
<1>5. Balanced(Pending, held)'
  <2>1. Balanced(Pending', held')
    BY <1>2, <1>3, <1>4
  <2> QED BY <2>1 DEF Balanced, Releases
<1>6. \A k : ComesUp(Pending, held, k) => ComesUp(Pending', held', k)
  BY <1>2, <1>3, <1>4
<1>7. Owed'
  <2>1. ASSUME NEW dev, NEW x, x \notin stale, Afterwards(todo, down, dev, x)
        PROVE  \E k \in Keys : ComesUp(Pending', held', k) /\ FreedBy(k, outputs, dev, x)
    BY <1>6, <2>1 DEF Owed
  <2> QED BY <1>1, <2>1 DEF Owed, Afterwards, FreedBy, TriggersFirst, Triggers, ComesUp,
                            Releases
<1> QED BY <1>5, <1>7

\* At rest everything has been paid, so other outputs owe nothing.
LEMMA RestOwes ==
    ASSUME PressablesDown, Owed, AtRest, down' = down, stale' = stale,
           AtRest'
    PROVE  Balanced(Pending, held)' /\ Owed'
<1>1. \A d \in down' : d[2] \in stale'
  BY NothingOwed
<1>2. todo' = <<>> /\ batch' = <<>> /\ queue' = <<>>
  BY DEF AtRest, Idle
<1>3. Pending' = <<>>
  <2>1. <<>> \o <<>> = <<>>
    OBVIOUS
  <2> QED BY <1>2, <2>1 DEF Pending
<1>4. Balanced(Pending, held)'
  BY <1>3 DEF Balanced
<1>5. ASSUME NEW dev, NEW x, Afterwards(todo', down', dev, x)
      PROVE  x \in stale'
  <2>1. <<dev, x>> \in down'
    BY <1>2, <1>5, NothingLeft DEF Afterwards
  <2>2. <<dev, x>>[2] = x
    OBVIOUS
  <2> QED BY <1>1, <2>1, <2>2
<1>6. Owed'
  BY <1>5 DEF Owed, Afterwards
<1> QED BY <1>4, <1>6
\* Reading events, and what changes nothing of this, leaves it so.
LEMMA UnchangedOwes ==
    ASSUME Balanced(Pending, held), Owed, Pending' = Pending,
           UNCHANGED <<device, held, todo, down, stale, outputs>>
    PROVE  Balanced(Pending, held)' /\ Owed'
<1>1. Inputs' = Inputs /\ Keys' = Keys /\ OwnDevice' = OwnDevice
  BY DEF Inputs, Keys, OwnDevice, DevType
<1>2. Balanced(Pending, held)'
  <2>1. Balanced(Pending', held')
    OBVIOUS
  <2> QED BY <2>1 DEF Balanced, Releases
<1>3. Owed'
  BY <1>1 DEF Owed, Afterwards, FreedBy, TriggersFirst, Triggers, ComesUp, Releases
<1> QED BY <1>2, <1>3

\* A write pays or makes what was to be expected.
LEMMA WritePays ==
    ASSUME Typed, PressablesDown, Balanced(Pending, held), Owed, Write
    PROVE  Balanced(Pending, held)' /\ Owed'
<1>1. UNCHANGED <<device, held, queue, batch, outputs>>
  BY DEF Write, userVars
<1>2. Inputs' = Inputs /\ Keys' = Keys /\ OwnDevice' = OwnDevice /\ Pending' = Pending
  BY <1>1 DEF Inputs, Keys, OwnDevice, DevType, Pending
<1>3. Balanced(Pending, held)'
  <2>1. Balanced(Pending', held')
    BY <1>1, <1>2
  <2> QED BY <2>1 DEF Balanced, Releases
<1>4. ASSUME NEW dev, NEW x, x \notin stale', Afterwards(todo', down', dev, x)
      PROVE  \E k \in Keys : ComesUp(Pending, held, k) /\ FreedBy(k, outputs, dev, x)
  BY <1>4, WriteOwes, NextStaleWrite DEF Owed
<1>5. Owed'
  BY <1>1, <1>2, <1>4
     DEF Owed, Afterwards, FreedBy, TriggersFirst, Triggers, ComesUp, Releases
<1> QED BY <1>3, <1>5

\* Only what can be pressed is pressed.
LEMMA NextPressables ==
    ASSUME Typed, PressablesDown, [Next]_vars
    PROVE  PressablesDown'
<1>1. Write \/ UNCHANGED down
  BY DEF Next, PressKey, ReleaseKey, RepeatKey, Turn, Outside, ThreadStep, ReadBatch,
         Translate, PassThrough, LoseRest, Crash, ChangeWindow, StopReading,
         StartReading, vars
<1> QED BY <1>1, WriteOwes DEF PressablesDown

\* An output that was sent is as good as before.
LEMMA TranslateLetsGo ==
    ASSUME Typed, OutputsLetGo, Translate
    PROVE  OutputsLetGo'
<1> DEFINE C == WrittenBy(device)
<1>1. PICK ev \in InputEvents : ev = Head(batch)
  BY HeadTailProperties DEF Typed, Translate
<1>2. PICK j \in DOMAIN outputs, short \in BOOLEAN :
        /\ outputs[j] \in OutputsOn(C)
        /\ outputs' = [outputs EXCEPT
                         ![j] = SendFrom(outputs[j], ev.type, ev.value, short).out]
  BY <1>1, TranslateSends
<1>3. PICK out \in OutputsOn(C) : out = outputs[j]
  BY <1>2
<1>4. PICK sent : sent = SendFrom(out, ev.type, ev.value, short)
  OBVIOUS
<1>5. /\ DOMAIN outputs' = DOMAIN outputs /\ outputs'[j] = sent.out
      /\ \A i \in DOMAIN outputs : i # j => outputs'[i] = outputs[i]
  BY <1>2, <1>3, <1>4
<1>6. ev.value \in Int /\ (ev.type = "KEY" => ev.value \in {0, 1, 2})
  BY DEF InputEvents
<1>7. LetsGo(sent.out, C)
  <2>1. Fine(C, sent, out)
    BY <1>4, <1>6, SendFromFine
  <2>2. LetsGo(out, C)
    BY <1>3 DEF OutputsLetGo
  <2> QED BY <2>1, <2>2, StillLetsGo
<1>8. \A i \in DOMAIN outputs' : LetsGo(outputs'[i], C)
  BY <1>5, <1>7 DEF OutputsLetGo
<1>9. C' = C
  BY DEF Translate, WrittenBy
<1> QED BY <1>8, <1>9 DEF OutputsLetGo

\* Nor do the outputs of another window press something for good.
LEMMA NextLetsGo ==
    ASSUME NothingSticks, Typed, OutputsLetGo, [Next]_vars
    PROVE  OutputsLetGo'
<1>1. device' = device /\ WrittenBy(device)' = WrittenBy(device) /\ Config' = Config
  BY SameDevice
<1>2. CASE Translate
  BY <1>2, TranslateLetsGo
<1>3. CASE (\E w \in Windows : ChangeWindow(w)) \/ StartReading
  <2>1. PICK w \in Windows : outputs' = About[device].config[w]
    BY <1>3, WindowsAssumption DEF ChangeWindow, StartReading, Config, Typed
  <2>2. \A j \in DOMAIN outputs' : LetsGo(outputs'[j], WrittenBy(device))
    BY <2>1 DEF NothingSticks, Typed
  <2> QED BY <1>1, <2>2 DEF OutputsLetGo
<1>4. CASE UNCHANGED outputs
  BY <1>1, <1>4 DEF OutputsLetGo
<1>5. \/ Translate \/ (\E w \in Windows : ChangeWindow(w)) \/ StartReading
      \/ UNCHANGED outputs
  BY DEF Next, PressKey, ReleaseKey, RepeatKey, Turn, Outside, ThreadStep, ReadBatch,
         PassThrough, Write, LoseRest, Crash, StopReading, vars
<1> QED BY <1>2, <1>3, <1>4, <1>5
\* Only rest disturbs nothing that a window or a reread interrupts.
LEMMA NextNever ==
    ASSUME [Next]_vars, disturbed' = "never"
    PROVE  /\ disturbed = "never"
           /\ \A w \in Windows : ChangeWindow(w) => AtRest
           /\ StopReading => AtRest
           /\ \A k \in Keys : PressKey(k) \/ ReleaseKey(k) => reading
BY DEF Next, PressKey, ReleaseKey, RepeatKey, Turn, Outside, ThreadStep, ReadBatch,
       Translate, PassThrough, Write, LoseRest, Crash, ChangeWindow, Disturbs,
       StopReading, StartReading, vars

\* The user's steps keep the calm.
LEMMA InputCalm ==
    ASSUME Typed, Calm, NEW ev \in InputEvents, Arrives(ev), Outside,
           ~reading => held' = held,
           \A k \in held : k \in held' \/ Releases(ev, k),
           ev.type = "KEY" /\ ev.value # 0 => ev.code \in held'
    PROVE  Calm'
<1>1. UNCHANGED <<device, batch, todo, down, stale, outputs>> /\ (~freed /\ reading' = reading)
  BY DEF Outside, threadVars, Calm
<1>2. ~freed'
  BY Zenon DEF Outside, threadVars, Calm
<1>3. ~reading => held' = held /\ queue' = queue
  BY DEF Arrives
<1>4. ~reading' => AtRest'
  BY <1>1, <1>3 DEF Calm, AtRest, Idle
<1>5. Balanced(Pending, held)' /\ Owed'
  <2>1. CASE reading
    BY <2>1, InputOwes DEF Calm
  <2>2. CASE ~reading
    <3>1. Pending' = Pending
      BY <1>1, <1>3, <2>2 DEF Pending
    <3> QED BY <1>1, <1>3, <2>2, <3>1, UnchangedOwes DEF Calm
  <2> QED BY <2>1, <2>2
<1> QED BY <1>2, <1>4, <1>5 DEF Calm

\* So do the thread's.
LEMMA ThreadCalm ==
    ASSUME Typed, PressablesDown, OutputsLetGo, Calm, ThreadStep
    PROVE  Calm'
<1>1. ~LoseRest /\ ~Crash
  BY Zenon DEF LoseRest, Crash, Calm
<1>2. reading /\ reading' = reading
  <2>1. ~AtRest
    BY <1>1 DEF ThreadStep, ReadBatch, Translate, PassThrough, Write, AtRest, Idle
  <2>2. reading
    BY <2>1 DEF Calm
  <2>3. reading' = reading
    BY <1>1, Zenon DEF ThreadStep, ReadBatch, Translate, PassThrough, Write
  <2> QED BY <2>2, <2>3
<1>3. ~freed'
  BY <1>1, Zenon DEF ThreadStep, ReadBatch, Translate, PassThrough, Write, Calm
<1>4. Balanced(Pending, held) /\ Owed
  BY DEF Calm
<1>5. CASE ReadBatch
  <2>1. UNCHANGED <<device, held, todo, down, stale, outputs>>
    BY <1>5 DEF ReadBatch, userVars
  <2>2. Pending' = Pending
    BY <1>5, PendingRead
  <2> QED BY <1>2, <1>3, <1>4, <2>1, <2>2, UnchangedOwes DEF Calm
<1>6. CASE Translate
  BY <1>2, <1>3, <1>4, <1>6, TranslateOwes DEF Calm
<1>7. CASE PassThrough
  BY <1>2, <1>3, <1>4, <1>7, PassThroughOwes DEF Calm
<1>8. CASE Write
  BY <1>2, <1>3, <1>4, <1>8, WritePays DEF Calm
<1> QED BY <1>1, <1>5, <1>6, <1>7, <1>8 DEF ThreadStep

\* And the main thread's, which come while nothing happens.
LEMMA MainCalm ==
    ASSUME PressablesDown, Calm, AtRest,
           (\E w \in Windows : ChangeWindow(w)) \/ StopReading \/ StartReading
    PROVE  Calm'
<1>1. UNCHANGED <<held, batch, todo, down, stale>> /\ (queue' = queue \/ queue' = <<>>)
  BY DEF ChangeWindow, StopReading, StartReading, userVars, threadVars
<1>2. AtRest'
  BY <1>1 DEF AtRest, Idle
<1>3. ~freed'
  <2>1. todo = <<>> /\ ~freed
    BY DEF AtRest, Idle, Calm
  <2> QED BY <2>1, Zenon DEF ChangeWindow, StopReading, StartReading, threadVars
<1>4. Balanced(Pending, held)' /\ Owed'
  BY <1>1, <1>2, RestOwes DEF Calm
<1> QED BY <1>2, <1>3, <1>4 DEF Calm

\* The invariant of what is owed: after every step ...
LEMMA NextReleases ==
    ASSUME NothingSticks, Typed, ReleaseInv, [Next]_vars
    PROVE  ReleaseInv'
<1>1. PressablesDown' /\ OutputsLetGo'
  BY NextPressables, NextLetsGo DEF ReleaseInv
<1>2. ASSUME disturbed' = "never"
      PROVE  Calm'
  <2>1. PressablesDown /\ OutputsLetGo /\ Calm
    BY <1>2, NextNever DEF ReleaseInv
  <2>2. ASSUME NEW k \in Keys, PressKey(k) PROVE Calm'
    <3> DEFINE ev == Event("KEY", k, 1)
    <3>1. ev \in InputEvents /\ ev.code = k
      BY DEF Event, InputEvents
    <3>2. Arrives(ev) /\ Outside /\ held' = held \cup {k} /\ reading
      BY <1>2, <2>2, NextNever DEF PressKey
    <3> HIDE DEF ev
    <3>3. /\ \A j \in held : j \in held' \/ Releases(ev, j)
          /\ ev.type = "KEY" /\ ev.value # 0 => ev.code \in held'
      BY <3>1, <3>2
    <3> QED BY <2>1, <3>1, <3>2, <3>3, InputCalm
  <2>3. ASSUME NEW k \in Keys, ReleaseKey(k) PROVE Calm'
    <3> DEFINE ev == Event("KEY", k, 0)
    <3>1. ev \in InputEvents /\ Releases(ev, k) /\ ev.value = 0
      BY DEF Event, InputEvents, Releases
    <3>2. Arrives(ev) /\ Outside /\ held' = held \ {k} /\ reading
      BY <1>2, <2>3, NextNever DEF ReleaseKey
    <3> HIDE DEF ev
    <3>3. /\ \A j \in held : j \in held' \/ Releases(ev, j)
          /\ ev.type = "KEY" /\ ev.value # 0 => ev.code \in held'
      BY <3>1, <3>2
    <3> QED BY <2>1, <3>1, <3>2, <3>3, InputCalm
  <2>4. CASE RepeatKey
    <3> DEFINE ev == Event("KEY", repeating, 2)
    <3>1. ev \in InputEvents /\ ev.code \in held
      BY <2>4 DEF RepeatKey, Typed, Event, InputEvents
    <3>2. Arrives(ev) /\ Outside /\ held' = held
      BY <2>4 DEF RepeatKey, userVars
    <3> HIDE DEF ev
    <3> QED BY <2>1, <3>1, <3>2, InputCalm
  <2>5. ASSUME NEW a \in Axes, NEW v \in {-1, 1}, Turn(a, v) PROVE Calm'
    <3> DEFINE ev == Event("REL", a, v)
    <3>1. ev \in InputEvents /\ ev.type # "KEY"
      BY DEF Event, InputEvents
    <3>2. Arrives(ev) /\ Outside /\ held' = held
      BY <2>5 DEF Turn, userVars
    <3> HIDE DEF ev
    <3> QED BY <2>1, <3>1, <3>2, InputCalm
  <2>6. CASE ThreadStep
    BY <2>1, <2>6, ThreadCalm
  <2>7. CASE (\E w \in Windows : ChangeWindow(w)) \/ StopReading \/ StartReading
    <3>1. AtRest
      <4>1. StartReading => ~reading
        BY DEF StartReading
      <4> QED BY <1>2, <2>1, <2>7, <4>1, NextNever DEF Calm
    <3> QED BY <2>1, <2>7, <3>1, MainCalm
  <2>8. CASE UNCHANGED vars
    <3>1. UNCHANGED <<device, held, todo, down, stale, outputs, queue, batch, reading>>
      BY <2>8 DEF vars, userVars, threadVars
    <3>2. ~freed'
      BY <2>1, <2>8, Zenon DEF vars, threadVars, Calm
    <3>3. Pending' = Pending /\ AtRest' = AtRest
      BY <3>1 DEF Pending, AtRest, Idle
    <3>4. Balanced(Pending, held)' /\ Owed'
      BY <2>1, <3>1, <3>3, UnchangedOwes DEF Calm
    <3> QED BY <2>1, <3>1, <3>2, <3>3, <3>4 DEF Calm
  <2> QED BY <2>2, <2>3, <2>4, <2>5, <2>6, <2>7, <2>8 DEF Next
<1> QED BY <1>1, <1>2 DEF ReleaseInv

\* ... and at the start.
LEMMA InitReleases ==
    ASSUME NothingSticks, Init
    PROVE  ReleaseInv
<1>1. down = {} /\ AtRest
  BY DEF Init, AtRest, Idle
<1>2. PressablesDown
  BY <1>1 DEF PressablesDown
<1>3. OutputsLetGo
  <2>1. outputs = About[device].config[FirstWindow] /\ device \in Devices
    BY DEF Init, Config
  <2> QED BY <2>1, WindowsAssumption DEF NothingSticks, OutputsLetGo
<1>4. Pending = <<>> /\ todo = <<>>
  <2>1. <<>> \o <<>> = <<>>
    OBVIOUS
  <2> QED BY <2>1 DEF Init, Pending
<1>5. Balanced(Pending, held)
  BY <1>4 DEF Balanced
<1>6. Owed
  BY <1>1, <1>4, NothingLeft DEF Owed, Afterwards
<1>7. ~freed
  BY Zenon DEF Init
<1> QED BY <1>1, <1>2, <1>3, <1>5, <1>6, <1>7 DEF ReleaseInv, Calm

\* When no output presses something for good, whatever the user did with
\* whatever device: once the user has let go of everything and all events are
\* handled, no virtual key is left pressed (DevHandler::run(), OutEvent::send()),
\* but for those the repeat of a combo pressed with what it had not initialised.
THEOREM AllReleasedThm ==
    ASSUME NothingSticks
    PROVE  Spec => []AllReleased
<1>1. Init => Typed /\ ReleaseInv
  BY InitTyped, InitReleases
<1>2. Typed /\ ReleaseInv /\ [Next]_vars => (Typed /\ ReleaseInv)'
  BY NextTyped, NextReleases
<1>3. Typed /\ ReleaseInv => AllReleased
  BY NothingOwed DEF ReleaseInv, Calm, AllReleased
<1> QED BY <1>1, <1>2, <1>3, PTL DEF Spec
-----------------------------------------------------------------------------
(* The simple output of a key.                                             *)

\* The input j is a key and its output the simple one of a key ...
SimpleKey(outs, ins, j) ==
    ins[j].type = "KEY" /\ outs[j].type = "KEY" /\ outs[j].kind = "Simple"

\* ... which no other output mentions and no event is passed on as, and the
\* key j is the input of no other output.
Alone(outs, ins, keys, j) ==
    SimpleKey(outs, ins, j) =>
        /\ \A i \in DOMAIN outs : i # j =>
              /\ outs[j].code \notin Mentions(outs[i])
              /\ ~(ins[i].type = "KEY" /\ ins[i].code = ins[j].code)
        /\ outs[j].code \in keys =>
              \E i \in DOMAIN outs : ins[i].type = "KEY" /\ ins[i].code = outs[j].code

NothingShared ==
    \A d \in Devices, w \in Windows : \A j \in DOMAIN About[d].config[w] :
        Alone(About[d].config[w], About[d].inputs, About[d].keys, j)

\* The key x will be pressed on dev when all that k has to do with is handled.
Comes(k, dev, x) ==
    \/ Presses(queue, k)
    \/ Quiet(queue, k) /\ Presses(batch, k)
    \/ Quiet(queue, k) /\ Quiet(batch, k) /\ Afterwards(todo, down, dev, x)

\* x will be what k is, on the virtual device it belongs to, if that was made
\* for it, and on no other.
Mirrored(k, x) ==
    /\ Pressable(SimpleDevice("KEY", x), x) => (k \in held <=> Comes(k, SimpleDevice("KEY", x), x))
    /\ \A dev : dev # SimpleDevice("KEY", x) => ~Afterwards(todo, down, dev, x)

OutputsAlone == \A j \in DOMAIN outputs : Alone(outputs, Inputs, Keys, j)
MirrorInv ==
    /\ OutputsAlone
    /\ disturbed = "never" =>
          \A j \in DOMAIN outputs :
              SimpleKey(outputs, Inputs, j) /\ outputs[j].code \notin stale =>
                  Mirrored(Inputs[j].code, outputs[j].code)

\* sendSimple() has a device for every key but those numbered above the
\* buttons.
LEMMA LateKeysAreNot ==
    ASSUME NEW x
    PROVE  Pressable(SimpleDevice("KEY", x), x) <=> x \notin LateKeys
BY CodesAssumption DEF Pressable, SimpleDevice, HighCodes, Accepts, Event

\* At rest, with nothing pressed, everything is what its key is: released.
LEMMA RestMirrored ==
    AtRest /\ (\A d \in down : d[2] \in stale) => \A c, y : y \notin stale => Mirrored(c, y)
<1> SUFFICES ASSUME AtRest, \A d \in down : d[2] \in stale, NEW k, NEW x, x \notin stale
             PROVE  Mirrored(k, x)
  OBVIOUS
<1>1. held = {} /\ batch = <<>> /\ queue = <<>> /\ todo = <<>>
  BY DEF AtRest, Idle
<1>2. ASSUME NEW dev, Afterwards(todo, down, dev, x) PROVE FALSE
  <2>1. <<dev, x>> \in down
    BY <1>1, <1>2, NothingLeft DEF Afterwards
  <2>2. <<dev, x>>[2] = x
    OBVIOUS
  <2> QED BY <2>1, <2>2
<1>3. /\ Quiet(queue, k) /\ ~Presses(queue, k)
      /\ Quiet(batch, k) /\ ~Presses(batch, k)
  BY <1>1, NoEventsAreQuiet
<1> QED BY <1>1, <1>2, <1>3 DEF Mirrored, Comes

\* The same after a step.
LEMMA RestMirroredThen ==
    (AtRest /\ (\A d \in down : d[2] \in stale)
        => \A c, y : y \notin stale => Mirrored(c, y))'
BY RestMirrored, PTL

\* An event of the user changes the key and what it will come to alike.
LEMMA InputMirrored ==
    ASSUME Typed, NEW ev \in InputEvents, Arrives(ev), Outside, NEW k, NEW x, Mirrored(k, x),
           \/ ~reading /\ held' = held
           \/ reading /\ (k \in held' <=> \/ Changes(ev, k) /\ ev.value = 1
                                          \/ ~Changes(ev, k) /\ k \in held)
    PROVE  Mirrored(k, x)'
<1>1. UNCHANGED <<batch, todo, down>>
  BY DEF Outside, threadVars
<1>2. \A dev : Afterwards(todo, down, dev, x)' <=> Afterwards(todo, down, dev, x)
  BY <1>1 DEF Afterwards
<1> DEFINE dev == SimpleDevice("KEY", x)
<1>3. CASE reading
  <2>1. queue' = Append(queue, ev) /\ queue \in Seq(InputEvents)
    BY <1>3 DEF Arrives, Typed
  <2>2. /\ Quiet(queue', k) <=> Quiet(queue, k) /\ ~Changes(ev, k)
        /\ Presses(queue', k) <=>
             \/ Changes(ev, k) /\ ev.value = 1
             \/ ~Changes(ev, k) /\ Presses(queue, k)
    BY <2>1, OneMore
  <2>3. Pressable(dev, x) => (k \in held <=> Comes(k, dev, x))
    BY DEF Mirrored
  <2>4. Pressable(dev, x) => (k \in held' <=>
          \/ Presses(queue', k)
          \/ Quiet(queue', k) /\ Presses(batch', k)
          \/ Quiet(queue', k) /\ Quiet(batch', k) /\ Afterwards(todo, down, dev, x)')
    BY <1>1, <1>2, <1>3, <2>2, <2>3 DEF Comes
  <2>5. (Pressable(dev, x) => (k \in held <=> Comes(k, dev, x)))'
    BY <2>4 DEF Comes, Quiet, Presses
  <2> QED BY <1>2, <2>5 DEF Mirrored
<1>4. CASE ~reading
  <2>1. UNCHANGED <<held, queue>>
    BY <1>4 DEF Arrives
  <2> QED BY <1>1, <1>2, <2>1 DEF Mirrored, Comes, Quiet, Presses
<1> QED BY <1>3, <1>4

\* To read events changes nothing of it.
LEMMA ReadBatchMirrored ==
    ASSUME Typed, ReadBatch, NEW k, NEW x, Mirrored(k, x)
    PROVE  Mirrored(k, x)'
<1>1. UNCHANGED <<held, todo, down>>
  BY DEF ReadBatch, userVars
<1>2. \A dev : Afterwards(todo, down, dev, x)' <=> Afterwards(todo, down, dev, x)
  BY <1>1 DEF Afterwards
<1> DEFINE dev == SimpleDevice("KEY", x)
<1>3. Pressable(dev, x) => (k \in held' <=>
        \/ Presses(queue', k)
        \/ Quiet(queue', k) /\ Presses(batch', k)
        \/ Quiet(queue', k) /\ Quiet(batch', k) /\ Afterwards(todo, down, dev, x)')
  BY <1>1, <1>2, ReadBatchSplits DEF Mirrored, Comes
<1>4. (Pressable(dev, x) => (k \in held <=> Comes(k, dev, x)))'
  BY <1>3 DEF Comes, Quiet, Presses
<1> QED BY <1>2, <1>4 DEF Mirrored

\* To handle an event does what it says.
LEMMA HandledMirrored ==
    ASSUME Typed, NEW k, NEW x, Mirrored(k, x), UNCHANGED <<held, queue>>,
           batch # <<>>, batch' = Tail(batch),
           NEW ev, ev = Head(batch),
           \A dev : Afterwards(todo', down', dev, x) <=>
               IF dev = SimpleDevice("KEY", x) /\ Changes(ev, k) THEN ev.value = 1
               ELSE Afterwards(todo, down, dev, x)
    PROVE  Mirrored(k, x)'
<1> DEFINE own == SimpleDevice("KEY", x)
<1>1. batch \in Seq(InputEvents)
  BY DEF Typed
<1>2. /\ Quiet(batch, k) <=> ~Changes(ev, k) /\ Quiet(batch', k)
      /\ Presses(batch, k) <=>
            \/ Presses(batch', k)
            \/ Quiet(batch', k) /\ Changes(ev, k) /\ ev.value = 1
  BY <1>1, FirstOfThem
<1>3. /\ Afterwards(todo', down', own, x) <=>
            \/ Changes(ev, k) /\ ev.value = 1
            \/ ~Changes(ev, k) /\ Afterwards(todo, down, own, x)
      /\ \A dev : dev # own => (Afterwards(todo', down', dev, x) <=> Afterwards(todo, down, dev, x))
  OBVIOUS
<1> HIDE DEF own
<1>4. Pressable(own, x) => (k \in held' <=>
        \/ Presses(queue', k)
        \/ Quiet(queue', k) /\ Presses(batch', k)
        \/ Quiet(queue', k) /\ Quiet(batch', k) /\ Afterwards(todo', down', own, x))
  <2>1. Pressable(own, x) => (k \in held <=> Comes(k, own, x))
    BY DEF Mirrored, own
  <2> QED BY <1>2, <1>3, <2>1 DEF Comes
<1>5. (Pressable(own, x) => (k \in held <=> Comes(k, own, x)))'
  BY <1>4 DEF Comes, Quiet, Presses, Afterwards
<1>6. \A dev : dev # own => ~Afterwards(todo, down, dev, x)'
  <2>1. \A dev : dev # own => ~Afterwards(todo', down', dev, x)
    BY <1>3 DEF Mirrored, own
  <2> QED BY <2>1 DEF Afterwards
<1> QED BY <1>5, <1>6 DEF Mirrored, own
\* What is left alone is not left pressed by it.
LEMMA UntouchedIsNotLeft ==
    ASSUME NEW ops, NEW dev, NEW x, Untouched(ops, dev, x)
    PROVE  ~LeftPressed(ops, dev, x)
BY DEF Untouched, LeftPressed, Touches, Leaves

\* An event is sent by the output alone that its key belongs to.
LEMMA TranslateMirrored ==
    ASSUME Typed, OutputsAlone, Translate,
           NEW j \in DOMAIN outputs, SimpleKey(outputs, Inputs, j),
           NEW k, k = Inputs[j].code, NEW x, x = outputs[j].code, Mirrored(k, x)
    PROVE  Mirrored(k, x)'
<1> DEFINE C == WrittenBy(device)
           own == SimpleDevice("KEY", x)
<1>1. PICK ev \in InputEvents : ev = Head(batch)
  BY HeadTailProperties DEF Typed, Translate
<1>2. PICK i \in DOMAIN outputs, short \in BOOLEAN :
        /\ Matches(Inputs[i], ev)
        /\ \A n \in DOMAIN outputs : Matches(Inputs[n], ev) => i <= n
        /\ outputs[i] \in OutputsOn(C)
        /\ todo' = AtOnce(SendFrom(outputs[i], ev.type, ev.value, short).ops)
  BY <1>1, TranslateSends
<1>3. PICK out \in OutputsOn(C) : out = outputs[i]
  BY <1>2
<1>4. PICK sent : sent = SendFrom(out, ev.type, ev.value, short)
  OBVIOUS
<1>5. /\ ev.value \in Int
      /\ ev.type = "KEY" => ev.value \in {0, 1, 2}
  BY DEF InputEvents
<1>6. /\ UNCHANGED <<held, queue, down>> /\ batch # <<>> /\ batch' = Tail(batch)
      /\ todo = <<>>
  BY DEF Translate, userVars
<1>7. sent.ops \in Ours
  <2>1. Fine(C, sent, out)
    BY <1>4, <1>5, SendFromFine
  <2> QED BY <2>1 DEF Fine, Ours
<1>8. todo' = AtOnce(sent.ops)
  BY <1>2, <1>3, <1>4
<1>9. \A dev : /\ LeftPressed(todo', dev, x) <=> LeftPressed(sent.ops, dev, x)
               /\ Untouched(todo', dev, x) <=> Untouched(sent.ops, dev, x)
  BY <1>7, <1>8, AtOnceLeaves
<1>10. \A dev : Afterwards(todo, down, dev, x) <=> <<dev, x>> \in down
  BY <1>6, NothingLeft DEF Afterwards
<1>11. /\ outputs[j].kind = "Simple" /\ Inputs[j].type = "KEY" /\ outputs[j].type = "KEY"
       /\ \A n \in DOMAIN outputs : n # j =>
             /\ x \notin Mentions(outputs[n])
             /\ ~(Inputs[n].type = "KEY" /\ Inputs[n].code = k)
  BY DEF OutputsAlone, Alone, SimpleKey
<1>12. ASSUME NEW dev
       PROVE  Afterwards(todo', down', dev, x) <=>
                IF dev = own /\ Changes(ev, k) THEN ev.value = 1
                ELSE Afterwards(todo, down, dev, x)
  <2>1. Afterwards(todo', down', dev, x) <=>
          LeftPressed(sent.ops, dev, x) \/ (Untouched(sent.ops, dev, x) /\ <<dev, x>> \in down)
    BY <1>6, <1>9 DEF Afterwards
  <2>2. CASE i = j
    <3>1. ev.type = "KEY" /\ ev.code = k
      BY <1>2, <1>11, <2>2 DEF Matches
    <3>2. ev.value \in {0, 1, 2} /\ (Changes(ev, k) <=> ev.value # 2)
      BY <1>5, <3>1 DEF Changes
    <3>3. PICK value \in {0, 1, 2} : value = ev.value
      BY <3>2
    <3>4. sent = SendFrom(out, "KEY", value, short)
      BY <1>4, <3>1, <3>3
    <3>5. out.kind = "Simple" /\ out.type = "KEY" /\ out.code = x /\ x \in C
      <4>1. out.kind = "Simple" /\ out.type = "KEY" /\ out.code = x
        BY <1>3, <1>11, <2>2
      <4>2. out.code \in C
        BY OutputFields
      <4> QED BY <4>1, <4>2
    <3>6. Event("KEY", out.code, value) # Junk
      <4> DEFINE D == About[device].keys \cup About[device].axes \cup C
      <4>1. Junk \notin EventsOn(D)
        BY JunkIsNoEvent DEF Typed
      <4>2. out.code \in D /\ value \in Int
        BY <3>5
      <4> HIDE DEF D
      <4>3. Event("KEY", out.code, value) \in EventsOn(D)
        BY <4>2 DEF Event, EventsOn, Types
      <4> QED BY <4>1, <4>3
    <3>7. /\ LeftPressed(SendFrom(out, "KEY", value, short).ops, dev, out.code)
                <=> dev = SimpleDevice("KEY", out.code) /\ value = 1
          /\ Untouched(SendFrom(out, "KEY", value, short).ops, dev, out.code)
                <=> dev # SimpleDevice("KEY", out.code) \/ value = 2
      BY <3>5, <3>6, SimpleSends
    <3>8. /\ LeftPressed(sent.ops, dev, x) <=> dev = own /\ value = 1
          /\ Untouched(sent.ops, dev, x) <=> dev # own \/ value = 2
      BY <3>4, <3>5, <3>7
    <3> QED BY <1>10, <2>1, <3>2, <3>3, <3>8
  <2>3. CASE i # j
    <3>1. ~Changes(ev, k)
      BY <1>2, <1>11, <2>3 DEF Matches, Changes
    <3>2. Untouched(sent.ops, dev, x)
      <4>1. x \notin Mentions(out)
        BY <1>3, <1>11, <2>3
      <4>2. \E source : \E value \in Int :
              /\ source = ev.type /\ value = ev.value
              /\ source = "KEY" => value \in {0, 1, 2}
        BY <1>5
      <4> PICK source : \E value \in Int :
              /\ source = ev.type /\ value = ev.value
              /\ source = "KEY" => value \in {0, 1, 2}
        BY <4>2
      <4>3. PICK value \in Int :
              /\ source = ev.type /\ value = ev.value
              /\ source = "KEY" => value \in {0, 1, 2}
        OBVIOUS
      <4> HIDE DEF C
      <4>4. Untouched(SendFrom(out, source, value, short).ops, dev, x)
        BY <4>1, <4>3, OthersUntouched
      <4> QED BY <1>4, <4>3, <4>4
    <3> QED BY <1>10, <2>1, <3>1, <3>2, UntouchedIsNotLeft
  <2> QED BY <2>2, <2>3
<1> QED BY <1>1, <1>6, <1>12, HandledMirrored

\* What is passed on is another key.
LEMMA PassThroughMirrored ==
    ASSUME Typed, OutputsAlone, PassThrough,
           NEW j \in DOMAIN outputs, SimpleKey(outputs, Inputs, j),
           NEW k, k = Inputs[j].code, NEW x, x = outputs[j].code, Mirrored(k, x)
    PROVE  Mirrored(k, x)'
<1>1. PICK ev \in InputEvents : ev = Head(batch)
  BY HeadTailProperties DEF Typed, PassThrough
<1>2. todo' = <<PassedOn(ev)>>
  BY <1>1, PassedOnIs DEF PassThrough
<1>3. /\ UNCHANGED <<held, queue, down>> /\ batch # <<>> /\ batch' = Tail(batch)
      /\ todo = <<>>
  BY DEF PassThrough, userVars
<1>4. \A n \in DOMAIN outputs : ~(ev.type = "KEY" /\ Inputs[n].type = "KEY" /\ Inputs[n].code = ev.code)
  <2>1. \A n \in DOMAIN outputs : ~Matches(Inputs[n], ev)
    BY <1>1 DEF PassThrough, Matching
  <2> QED BY <2>1 DEF Matches
<1>5. ~Changes(ev, k)
  BY <1>4 DEF SimpleKey, Changes
<1>6. ~Changes(ev, x)
  <2>1. ev.type = "KEY" => ev.code \in Keys
    BY DEF InputEvents
  <2>2. x \in Keys => \E n \in DOMAIN outputs : Inputs[n].type = "KEY" /\ Inputs[n].code = x
    BY DEF OutputsAlone, Alone
  <2> QED BY <1>4, <2>1, <2>2 DEF Changes
<1>7. ASSUME NEW dev PROVE Untouched(todo', dev, x)
  <2>1. PICK op : op = PassedOn(ev)
    OBVIOUS
  <2>2. op.evs = <<ev>>
    BY <2>1 DEF PassedOn, Local, WriteTo
  <2>3. DOMAIN op.evs = {1} /\ op.evs[1] = ev
    BY <2>2
  <2>4. ~Touches(op, dev, x)
    BY <1>6, <2>3 DEF Touches, Alters
  <2>5. todo' = <<op>>
    BY <1>2, <2>1
  <2>6. DOMAIN todo' = {1} /\ todo'[1] = op
    BY <2>5
  <2> QED BY <2>4, <2>6 DEF Untouched
<1>8. \A dev : Afterwards(todo', down', dev, x) <=>
        IF dev = SimpleDevice("KEY", x) /\ Changes(ev, k) THEN ev.value = 1
        ELSE Afterwards(todo, down, dev, x)
  BY <1>3, <1>5, <1>7, NothingLeft, UntouchedIsNotLeft DEF Afterwards
<1> QED BY <1>1, <1>3, <1>8, HandledMirrored

\* A write does all that was to be expected.
LEMMA WriteDoes ==
    ASSUME Typed, Write, NEW dev, NEW x, x \notin stale', Pressable(dev, x),
           Afterwards(todo, down, dev, x)
    PROVE  Afterwards(todo', down', dev, x)
<1>1. todo # <<>> /\ todo' = Tail(todo)
  BY DEF Write
<1>2. PICK op : op = Head(todo)
  OBVIOUS
<1>0. PICK junk \in JunkEvents : \E evs :
        /\ evs = [i \in DOMAIN op.evs |-> IF op.evs[i] = Junk THEN junk ELSE op.evs[i]]
        /\ down' = Apply(down, op.dev, evs)
        /\ \A i \in DOMAIN op.evs : op.evs[i] = Junk => junk.type # "KEY" \/ junk.code # x
  BY <1>2, WriteIs
<1>3. PICK evs :
        /\ evs = [i \in DOMAIN op.evs |-> IF op.evs[i] = Junk THEN junk ELSE op.evs[i]]
        /\ down' = Apply(down, op.dev, evs)
        /\ \A i \in DOMAIN op.evs : op.evs[i] = Junk => junk.type # "KEY" \/ junk.code # x
  BY <1>0
<1>4. evs = [i \in DOMAIN op.evs |-> IF op.evs[i] = Junk THEN junk ELSE op.evs[i]]
  BY <1>3
<1>5. down' = Apply(down, op.dev, evs)
  BY <1>3
<1>6. PICK n \in Nat : DOMAIN op.evs = 1..n
  BY <1>1, <1>2, TodoFacts
<1>7. PICK m \in Nat \ {0} : DOMAIN todo = 1..m /\ DOMAIN todo' = 1..(m - 1)
  BY <1>1, TodoFacts
<1>8. todo[1] = op /\ 1 \in DOMAIN todo
      /\ \A i \in DOMAIN todo' : todo'[i] = todo[i + 1] /\ i + 1 \in DOMAIN todo
  <2>1. todo[1] = op /\ \A i \in DOMAIN todo' : todo'[i] = todo[i + 1]
    BY <1>1, <1>2, TodoFacts
  <2> QED BY <1>7, <2>1
<1>9. Leaves(op, dev, x) \/ (~Touches(op, dev, x) /\ <<dev, x>> \in down)
        => <<dev, x>> \in down'
  <2>1. \A i \in 1..n : op.evs[i] = Junk => junk.type # "KEY" \/ junk.code # x
    BY <1>3, <1>6
  <2> QED BY <1>4, <1>5, <1>6, <2>1, LeavesApplied
<1>10. CASE LeftPressed(todo, dev, x)
  <2>1. PICK i \in DOMAIN todo :
          /\ Leaves(todo[i], dev, x)
          /\ \A j \in DOMAIN todo : j > i => ~Touches(todo[j], dev, x)
    BY <1>10 DEF LeftPressed
  <2>2. CASE i = 1
    <3>1. <<dev, x>> \in down'
      BY <1>8, <1>9, <2>1, <2>2
    <3>2. ASSUME NEW j \in DOMAIN todo' PROVE ~Touches(todo'[j], dev, x)
      <4>1. j + 1 > i /\ j + 1 \in DOMAIN todo
        BY <1>7, <2>2
      <4> QED BY <1>8, <2>1, <4>1
    <3> QED BY <3>1, <3>2 DEF Untouched, Afterwards
  <2>3. CASE i # 1
    <3>1. i - 1 \in DOMAIN todo' /\ (i - 1) + 1 = i
      BY <1>7, <2>3
    <3>2. Leaves(todo'[i - 1], dev, x)
      BY <1>8, <2>1, <3>1
    <3>3. ASSUME NEW j \in DOMAIN todo', j > i - 1 PROVE ~Touches(todo'[j], dev, x)
      <4>1. j + 1 > i /\ j + 1 \in DOMAIN todo
        BY <1>7, <3>3
      <4> QED BY <1>8, <2>1, <4>1
    <3> QED BY <3>1, <3>2, <3>3 DEF LeftPressed, Afterwards
  <2> QED BY <2>2, <2>3
<1>11. CASE Untouched(todo, dev, x) /\ <<dev, x>> \in down
  <2>1. <<dev, x>> \in down'
    BY <1>8, <1>9, <1>11 DEF Untouched
  <2>2. Untouched(todo', dev, x)
    BY <1>8, <1>11 DEF Untouched
  <2> QED BY <2>1, <2>2 DEF Afterwards
<1> QED BY <1>10, <1>11 DEF Afterwards

\* So a write changes nothing of what is to come.
LEMMA WriteMirrored ==
    ASSUME Typed, PressablesDown, Write, NEW k, NEW x, x \notin stale',
           Mirrored(k, x)
    PROVE  Mirrored(k, x)'
<1> DEFINE own == SimpleDevice("KEY", x)
<1>1. UNCHANGED <<held, queue, batch>>
  BY DEF Write, userVars
<1>2. /\ Pressable(own, x) =>
            (Afterwards(todo', down', own, x) <=> Afterwards(todo, down, own, x))
      /\ \A dev : Afterwards(todo', down', dev, x) => Afterwards(todo, down, dev, x)
  BY WriteOwes, WriteDoes
<1> HIDE DEF own
<1>3. (Pressable(own, x) => (k \in held <=> Comes(k, own, x)))'
  BY <1>1, <1>2 DEF Mirrored, own, Comes, Quiet, Presses, Afterwards
<1>4. \A dev : dev # own => ~Afterwards(todo, down, dev, x)'
  <2>1. \A dev : dev # own => ~Afterwards(todo', down', dev, x)
    BY <1>2 DEF Mirrored, own
  <2> QED BY <2>1 DEF Afterwards
<1> QED BY <1>3, <1>4 DEF Mirrored, own
\* An output that was sent is still the same key's, and mentions the same.
LEMMA TranslateAlone ==
    ASSUME Typed, Translate
    PROVE  /\ DOMAIN outputs' = DOMAIN outputs
           /\ \A i \in DOMAIN outputs :
                 /\ outputs'[i].kind = outputs[i].kind /\ outputs'[i].type = outputs[i].type
                 /\ outputs'[i].code = outputs[i].code
                 /\ Mentions(outputs'[i]) = Mentions(outputs[i])
<1> DEFINE C == WrittenBy(device)
<1>1. PICK ev \in InputEvents : ev = Head(batch)
  BY HeadTailProperties DEF Typed, Translate
<1>2. PICK j \in DOMAIN outputs, short \in BOOLEAN :
        /\ outputs[j] \in OutputsOn(C)
        /\ outputs' = [outputs EXCEPT
                         ![j] = SendFrom(outputs[j], ev.type, ev.value, short).out]
  BY <1>1, TranslateSends
<1>3. PICK out \in OutputsOn(C) : out = outputs[j]
  BY <1>2
<1>4. PICK sent : sent = SendFrom(out, ev.type, ev.value, short)
  OBVIOUS
<1>5. /\ DOMAIN outputs' = DOMAIN outputs /\ outputs'[j] = sent.out
      /\ \A i \in DOMAIN outputs : i # j => outputs'[i] = outputs[i]
  BY <1>2, <1>3, <1>4
<1>6. ev.value \in Int /\ (ev.type = "KEY" => ev.value \in {0, 1, 2})
  BY DEF InputEvents
<1>7. Fine(C, sent, out)
  BY <1>4, <1>6, SendFromFine
<1>8. /\ sent.out.kind = out.kind /\ sent.out.type = out.type /\ sent.out.code = out.code
      /\ Mentions(sent.out) = Mentions(out)
  BY <1>7, MentionsSame DEF Fine
<1> QED BY <1>3, <1>5, <1>8

\* Keys that share nothing share nothing in any window and at any time.
LEMMA NextAlone ==
    ASSUME NothingShared, Typed, OutputsAlone, [Next]_vars
    PROVE  OutputsAlone'
<1>1. device' = device /\ Inputs' = Inputs /\ Keys' = Keys /\ Config' = Config
  BY SameDevice
<1>2. CASE Translate
  <2>1. \A j \in DOMAIN outputs' : Alone(outputs', Inputs, Keys, j)
    BY <1>2, TranslateAlone DEF OutputsAlone, Alone, SimpleKey
  <2> QED BY <1>1, <2>1 DEF OutputsAlone, Alone, SimpleKey
<1>3. CASE (\E w \in Windows : ChangeWindow(w)) \/ StartReading
  <2>1. PICK w \in Windows : outputs' = About[device].config[w]
    BY <1>3, WindowsAssumption DEF ChangeWindow, StartReading, Config, Typed
  <2>2. \A j \in DOMAIN outputs' : Alone(outputs', Inputs, Keys, j)
    BY <2>1 DEF NothingShared, Typed, Inputs, Keys
  <2> QED BY <1>1, <2>2 DEF OutputsAlone, Alone, SimpleKey
<1>4. CASE UNCHANGED outputs
  BY <1>1, <1>4 DEF OutputsAlone, Alone, SimpleKey
<1>5. \/ Translate \/ (\E w \in Windows : ChangeWindow(w)) \/ StartReading
      \/ UNCHANGED outputs
  BY DEF Next, PressKey, ReleaseKey, RepeatKey, Turn, Outside, ThreadStep, ReadBatch,
         PassThrough, Write, LoseRest, Crash, StopReading, vars
<1> QED BY <1>2, <1>3, <1>4, <1>5

\* The steps of the user and the kernel, for one key.
LEMMA InputsMirrored ==
    ASSUME Typed, Calm, [Next]_vars, disturbed' = "never", NEW k, NEW x, Mirrored(k, x),
           \/ \E j \in Keys : PressKey(j) \/ ReleaseKey(j)
           \/ RepeatKey
           \/ \E a \in Axes, v \in {-1, 1} : Turn(a, v)
    PROVE  Mirrored(k, x)'
<1>1. ASSUME NEW j \in Keys, PressKey(j) PROVE Mirrored(k, x)'
  <2> DEFINE ev == Event("KEY", j, 1)
  <2>1. ev \in InputEvents
    BY DEF Event, InputEvents
  <2>2. (Changes(ev, k) <=> j = k) /\ ev.value = 1
    BY KeyChanges
  <2>3. Arrives(ev) /\ Outside /\ held' = held \cup {j} /\ reading
    BY <1>1, NextNever DEF PressKey
  <2> HIDE DEF ev
  <2> QED BY <2>1, <2>2, <2>3, InputMirrored
<1>2. ASSUME NEW j \in Keys, ReleaseKey(j) PROVE Mirrored(k, x)'
  <2> DEFINE ev == Event("KEY", j, 0)
  <2>1. ev \in InputEvents
    BY DEF Event, InputEvents
  <2>2. (Changes(ev, k) <=> j = k) /\ ~(ev.value = 1)
    BY KeyChanges
  <2>3. Arrives(ev) /\ Outside /\ held' = held \ {j} /\ reading
    BY <1>2, NextNever DEF ReleaseKey
  <2> HIDE DEF ev
  <2> QED BY <2>1, <2>2, <2>3, InputMirrored
<1>3. ASSUME NEW ev \in InputEvents, ~Changes(ev, k), Arrives(ev), Outside, held' = held
      PROVE  Mirrored(k, x)'
  BY <1>3, InputMirrored
<1>4. CASE RepeatKey
  <2> DEFINE ev == Event("KEY", repeating, 2)
  <2>1. ev \in InputEvents
    BY <1>4 DEF RepeatKey, Typed, Event, InputEvents
  <2>2. ~Changes(ev, k)
    BY DEF Event, Changes
  <2>3. Arrives(ev) /\ Outside /\ held' = held
    BY <1>4 DEF RepeatKey, userVars
  <2> HIDE DEF ev
  <2> QED BY <1>3, <2>1, <2>2, <2>3
<1>5. ASSUME NEW a \in Axes, NEW v \in {-1, 1}, Turn(a, v) PROVE Mirrored(k, x)'
  <2> DEFINE ev == Event("REL", a, v)
  <2>1. ev \in InputEvents
    BY DEF Event, InputEvents
  <2>2. ~Changes(ev, k)
    BY DEF Event, Changes
  <2>3. Arrives(ev) /\ Outside /\ held' = held
    BY <1>5 DEF Turn, userVars
  <2> HIDE DEF ev
  <2> QED BY <1>3, <2>1, <2>2, <2>3
<1> QED BY <1>1, <1>2, <1>4, <1>5

\* The steps of the thread, for the key of one output.
LEMMA ThreadMirrored ==
    ASSUME Typed, PressablesDown, OutputsAlone, Calm, ThreadStep,
           NEW j \in DOMAIN outputs, SimpleKey(outputs, Inputs, j),
           NEW k, k = Inputs[j].code, NEW x, x = outputs[j].code, x \notin stale',
           Mirrored(k, x)
    PROVE  Mirrored(k, x)'
<1>1. ~LoseRest /\ ~Crash
  BY Zenon DEF LoseRest, Crash, Calm
<1>2. CASE ReadBatch
  BY <1>2, ReadBatchMirrored
<1>3. CASE Translate
  BY <1>3, TranslateMirrored
<1>4. CASE PassThrough
  BY <1>4, PassThroughMirrored
<1>5. CASE Write
  BY <1>5, WriteMirrored
<1> QED BY <1>1, <1>2, <1>3, <1>4, <1>5 DEF ThreadStep

\* The invariant of simple outputs: after every step ...
LEMMA NextMirrorInv ==
    ASSUME NothingShared, Typed, ReleaseInv, MirrorInv, [Next]_vars
    PROVE  MirrorInv'
<1>1. OutputsAlone'
  BY NextAlone DEF MirrorInv
<1>2. ASSUME disturbed' = "never",
             NEW j \in DOMAIN outputs', SimpleKey(outputs', Inputs', j),
             NEW k, k = Inputs'[j].code, NEW x, x = outputs'[j].code, x \notin stale'
      PROVE  Mirrored(k, x)'
  <2>1. disturbed = "never" /\ Calm /\ PressablesDown /\ OutputsAlone /\ x \notin stale
    BY <1>2, NextNever, NextStale DEF ReleaseInv, MirrorInv
  <2>2. CASE (\E w \in Windows : ChangeWindow(w)) \/ StopReading \/ StartReading
    <3>1. AtRest
      <4>1. StartReading => ~reading
        BY DEF StartReading
      <4> QED BY <1>2, <2>1, <2>2, <4>1, NextNever DEF Calm
    <3>2. \A d \in down : d[2] \in stale
      BY <2>1, <3>1, NothingOwed DEF Calm
    <3>3. UNCHANGED <<held, batch, todo, down, stale>> /\ (queue' = queue \/ queue' = <<>>)
      BY <2>2 DEF ChangeWindow, StopReading, StartReading, userVars, threadVars
    <3>4. AtRest' /\ \A d \in down' : d[2] \in stale'
      BY <3>1, <3>2, <3>3 DEF AtRest, Idle
    <3>5. \A c, y : y \notin stale' => Mirrored(c, y)'
      BY <3>4, RestMirroredThen
    <3> QED BY <1>2, <3>5
  <2>3. CASE ~((\E w \in Windows : ChangeWindow(w)) \/ StopReading \/ StartReading)
    <3>1. Inputs' = Inputs
      BY SameDevice
    <3>2. /\ j \in DOMAIN outputs /\ SimpleKey(outputs, Inputs, j)
          /\ x = outputs[j].code /\ k = Inputs[j].code
      <4>1. CASE Translate
        BY <1>2, <3>1, <4>1, TranslateAlone DEF SimpleKey
      <4>2. CASE UNCHANGED outputs
        BY <1>2, <3>1, <4>2 DEF SimpleKey
      <4>3. Translate \/ UNCHANGED outputs
        BY <2>3 DEF Next, PressKey, ReleaseKey, RepeatKey, Turn, Outside, ThreadStep,
                    ReadBatch, PassThrough, Write, LoseRest, Crash, vars
      <4> QED BY <4>1, <4>2, <4>3
    <3>3. Mirrored(k, x)
      BY <2>1, <3>2 DEF MirrorInv
    <3>4. CASE ThreadStep
      BY <1>2, <2>1, <3>2, <3>3, <3>4, ThreadMirrored
    <3>5. CASE \/ \E c \in Keys : PressKey(c) \/ ReleaseKey(c)
               \/ RepeatKey
               \/ \E a \in Axes, v \in {-1, 1} : Turn(a, v)
      BY <1>2, <2>1, <3>3, <3>5, InputsMirrored
    <3>6. CASE UNCHANGED vars
      <4>1. UNCHANGED <<held, queue, batch, todo, down>>
        BY <3>6 DEF vars, userVars, threadVars
      <4> QED BY <3>3, <4>1 DEF Mirrored, Comes, Quiet, Presses, Afterwards
    <3> QED BY <2>3, <3>4, <3>5, <3>6 DEF Next
  <2> QED BY <2>2, <2>3
<1>3. (disturbed = "never" =>
          \A j \in DOMAIN outputs :
              SimpleKey(outputs, Inputs, j) /\ outputs[j].code \notin stale =>
                  Mirrored(Inputs[j].code, outputs[j].code))'
  <2>1. ASSUME disturbed' = "never",
               NEW j \in DOMAIN outputs', SimpleKey(outputs', Inputs', j),
               outputs'[j].code \notin stale'
        PROVE  Mirrored(Inputs[j].code, outputs[j].code)'
    <3>1. PICK k, x : k = Inputs'[j].code /\ x = outputs'[j].code
      OBVIOUS
    <3>2. Mirrored(k, x)'
      BY <1>2, <2>1, <3>1
    <3> QED BY <3>1, <3>2 DEF Mirrored, Comes
  <2> QED BY <2>1 DEF SimpleKey
<1> QED BY <1>1, <1>3 DEF MirrorInv

\* ... and at the start.
LEMMA InitMirrorInv ==
    ASSUME NothingShared, Init
    PROVE  MirrorInv
<1>1. OutputsAlone
  <2>1. outputs = About[device].config[FirstWindow] /\ device \in Devices
    BY DEF Init, Config
  <2> QED BY <2>1, WindowsAssumption DEF NothingShared, OutputsAlone, Inputs, Keys
<1>2. AtRest /\ down = {}
  BY DEF Init, AtRest, Idle
<1>3. \A k, x : x \notin stale => Mirrored(k, x)
  BY <1>2, RestMirrored
<1> QED BY <1>1, <1>3 DEF MirrorInv

\* When no output presses something for good and the simple output of a key
\* shares its key with no other output, no key that is passed on, and its input
\* with no other: once all events are handled its key is pressed exactly if the
\* input is held and the key is not numbered above the buttons, unless an
\* uninitialised element was an event of it (OutEvent::sendSimple(),
\* DevHandler::run()).
THEOREM SimpleMirrorsThm ==
    ASSUME NothingSticks, NothingShared
    PROVE  Spec => []SimpleMirrors
<1>1. Init => Typed /\ ReleaseInv /\ MirrorInv
  BY InitTyped, InitReleases, InitMirrorInv
<1>2. Typed /\ ReleaseInv /\ MirrorInv /\ [Next]_vars
        => (Typed /\ ReleaseInv /\ MirrorInv)'
  BY NextTyped, NextReleases, NextMirrorInv
<1>3. Typed /\ ReleaseInv /\ MirrorInv => SimpleMirrors
  <2> SUFFICES ASSUME Typed, PressablesDown, MirrorInv, Idle, queue = <<>>, disturbed = "never",
                      NEW j \in DOMAIN outputs, SimpleKey(outputs, Inputs, j),
                      outputs[j].code \notin stale
               PROVE  Inputs[j].code \in held /\ outputs[j].code \notin LateKeys
                        <=> \E dev \in VDevices : <<dev, outputs[j].code>> \in down
    BY DEF SimpleMirrors, SimpleKey, ReleaseInv
  <2>1. PICK k, x : k = Inputs[j].code /\ x = outputs[j].code
    OBVIOUS
  <2>2. Mirrored(k, x)
    BY <2>1 DEF MirrorInv
  <2>3. batch = <<>> /\ todo = <<>>
    BY DEF Idle
  <2>4. \A dev : Afterwards(todo, down, dev, x) <=> <<dev, x>> \in down
    BY <2>3, NothingLeft DEF Afterwards
  <2>5. Comes(k, SimpleDevice("KEY", x), x) <=> <<SimpleDevice("KEY", x), x>> \in down
    BY <2>3, <2>4, NoEventsAreQuiet DEF Comes
  <2>6. SimpleDevice("KEY", x) \in VDevices
    BY DEF SimpleDevice, VDevices
  <2>7. Pressable(SimpleDevice("KEY", x), x) <=> x \notin LateKeys
    BY LateKeysAreNot
  <2>8. ASSUME <<SimpleDevice("KEY", x), x>> \in down
        PROVE  Pressable(SimpleDevice("KEY", x), x)
    <3>1. PICK d \in down : d = <<SimpleDevice("KEY", x), x>>
      BY <2>8
    <3>2. Pressable(d[1], d[2])
      BY DEF PressablesDown
    <3> QED BY <3>1, <3>2
  <2> QED BY <2>1, <2>2, <2>4, <2>5, <2>6, <2>7, <2>8 DEF Mirrored
<1> QED BY <1>1, <1>2, <1>3, PTL DEF Spec
=============================================================================
