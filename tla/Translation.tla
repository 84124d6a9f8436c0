---------------------------- MODULE Translation ----------------------------
(***************************************************************************)
(* One device from the finger to the virtual devices: its DevHandler       *)
(* thread reads events and has them translated by the outputs of the       *)
(* active window, and the main thread replaces those outputs, without a    *)
(* lock, whenever the window changes.                                      *)
(***************************************************************************)
EXTENDS OutEvent, FiniteSetsExt

CONSTANTS
    Devices,      \* the devices of the daemon
    About,        \* what there is to know of each, see below
    Windows,      \* what the active window can be: class and title
    Untitled,     \* the same class with the title ""
    FirstWindow,
    JunkEvents    \* what an uninitialised element can hold

BufferSize == 4

NoKey == "no key"
NoEvent == Event("SYN", NoKey, 0)

ASSUME QueueMaxAssumption == \A d \in Devices : About[d].queueMax \in Nat

ASSUME WindowsAssumption ==
    /\ FirstWindow \in Windows
    /\ Untitled \in [Windows -> Windows]

ASSUME InputsAreSequences ==
    \A d \in Devices : About[d].inputs \in Seq(ToSet(About[d].inputs))

ASSUME ConfigMatchesInputs ==
    \A d \in Devices, w \in Windows : Len(About[d].config[w]) = Len(About[d].inputs)

\* Every code the outputs of a device mention, and the keys without a <signal>.
WrittenBy(d) ==
    UNION {{o.code} \cup ToSet(o.mods)
              \cup UNION {{part.code} \cup ToSet(part.mods) : part \in ToSet(o.parts)} :
           o \in UNION {ToSet(About[d].config[w]) : w \in Windows}}
PassedBy(d) == {k \in About[d].keys : \A j \in DOMAIN About[d].inputs :
                                          About[d].inputs[j].code # k}

ASSUME ConfigIsOfOutputs ==
    \A d \in Devices :
        /\ NoKey \notin About[d].keys
        /\ About[d].type \in {"Keyboard", "Mouse"}
        /\ About[d].type = "Mouse" => About[d].keys \subseteq Buttons
        /\ \A w \in Windows : About[d].config[w] \in Seq(OutputsOn(WrittenBy(d)))

\* Otherwise what a key without <signal> does would not be told apart.
ASSUME PassedKeysAreNotWritten ==
    \A d \in Devices : PassedBy(d) \cap WrittenBy(d) = {}

ASSUME JunkIsNoEvent ==
    \A d \in Devices :
        Junk \notin EventsOn(About[d].keys \cup About[d].axes \cup WrittenBy(d))

VARIABLES
    device,    \* the device this is about, any one of them; never changes
    held,      \* the keys the user holds down
    repeating, \* the key the kernel repeats
    queue,     \* input events the kernel has for the thread
    batch,     \* input events the thread has read and not handled
    todo,      \* the writes still to come of the output that sends
    freed,     \* the vector it is an element of was freed under it
    outputs,   \* AbstractInputHandler::outputs
    window,    \* the active window
    known,     \* InputMangler::wm_class and wm_title
    reading,   \* the device is open and grabbed
    crashed,
    down,      \* what is pressed on the virtual devices
    stale,     \* history: the keys uninitialised elements were events of
    disturbed  \* history: what happened before all input was handled

\* A device has keys and relative axes, DevHandler::devtype and inputs, a
\* sequence of [type, code, sign]; the kernel may repeat its keys.  Config is
\* TransformationStructure::getOutputs(), the outputs for a window.  Bounds:
\* windows change while input is not handled, the configuration is reread,
\* and the events that wait in the kernel.
Keys       == About[device].keys
Axes       == About[device].axes
KeyRepeats == About[device].repeats
DevType    == About[device].type
Inputs     == About[device].inputs
Config     == About[device].config
AnyTime    == About[device].anyTime
Rereads    == About[device].rereads
QueueMax   == About[device].queueMax

userVars   == <<held, repeating>>
threadVars == <<batch, todo, freed>>
mainVars   == <<window, known>>
vars == <<device, userVars, queue, threadVars, outputs, mainVars, reading, crashed,
          down, stale, disturbed>>

TypeOK ==
    /\ device \in Devices
    /\ held \in SUBSET Keys
    /\ repeating \in held \cup {NoKey}
    /\ Len(queue) <= QueueMax
    /\ Len(batch) <= BufferSize
    /\ \A i \in DOMAIN todo : todo[i].dev \in VDevices
    /\ freed \in BOOLEAN
    /\ Len(outputs) = Len(Inputs)
    /\ \A j \in DOMAIN outputs :
          /\ outputs[j].custom \in {0, 1} /\ outputs[j].sent \in {0, 1, 2}
          /\ outputs[j].rate \in 0..Max({1, outputs[j].max})
          /\ outputs[j].count \in 0..outputs[j].min
    /\ window \in Windows /\ known \in Windows
    /\ reading \in BOOLEAN /\ crashed \in BOOLEAN
    /\ \A d \in down : d[1] \in VDevices
    /\ stale \subseteq {junk.code : junk \in JunkEvents}
    /\ disturbed \in {"never", "by a window", "by a reread"}

Init ==
    /\ device \in Devices
    /\ held = {} /\ repeating = NoKey
    /\ queue = <<>>
    /\ batch = <<>> /\ todo = <<>> /\ freed = FALSE
    /\ window = FirstWindow /\ known = FirstWindow
    /\ outputs = Config[FirstWindow]
    /\ reading = TRUE
    /\ crashed = FALSE
    /\ down = {} /\ stale = {}
    /\ disturbed = "never"

\* The thread waits in poll(); and the user does nothing, either.
Idle == batch = <<>> /\ todo = <<>>
AtRest == held = {} /\ queue = <<>> /\ Idle

-----------------------------------------------------------------------------
(* The user and the kernel.                                                *)

\* An input event, when somebody has the device open and grabbed.
Arrives(ev) ==
    IF reading
    THEN Len(queue) < QueueMax /\ queue' = Append(queue, ev)
    ELSE UNCHANGED queue

Outside == UNCHANGED <<device, threadVars, outputs, mainVars, reading, crashed, down, stale>>

PressKey(k) ==
    /\ reading \/ AnyTime
    /\ k \notin held
    /\ held' = held \cup {k}
    /\ repeating' = IF KeyRepeats THEN k ELSE NoKey
    /\ Arrives(Event("KEY", k, 1))
    /\ disturbed' = IF reading THEN disturbed ELSE "by a reread"
    /\ Outside

\* The kernel repeats the key that was pressed last.
RepeatKey ==
    /\ repeating # NoKey
    /\ Arrives(Event("KEY", repeating, 2))
    /\ UNCHANGED <<userVars, disturbed>>
    /\ Outside

ReleaseKey(k) ==
    /\ k \in held
    /\ held' = held \ {k}
    /\ repeating' = NoKey
    /\ Arrives(Event("KEY", k, 0))
    /\ disturbed' = IF reading THEN disturbed ELSE "by a reread"
    /\ Outside

Turn(a, v) ==
    /\ Arrives(Event("REL", a, v))
    /\ UNCHANGED <<userVars, disturbed>>
    /\ Outside

-----------------------------------------------------------------------------
(* The handler's thread: DevHandler::run().                                *)

\* Slip: the thread gives up once its outputs were replaced while it worked.
ReadBatchOnce ==
    /\ reading /\ ~freed
    /\ batch = <<>> /\ todo = <<>>
    /\ queue # <<>>
    /\ LET n == IF Len(queue) < BufferSize THEN Len(queue) ELSE BufferSize
       IN  /\ batch' = SubSeq(queue, 1, n)
           /\ queue' = SubSeq(queue, n + 1, Len(queue))
    /\ UNCHANGED <<device, disturbed, userVars, todo, freed, outputs,
                   mainVars, reading, crashed, down, stale>>

\* read() takes as many events as the buffer holds.
ReadBatch ==
    /\ reading
    /\ batch = <<>> /\ todo = <<>>
    /\ queue # <<>>
    /\ LET n == IF Len(queue) < BufferSize THEN Len(queue) ELSE BufferSize
       IN  /\ batch' = SubSeq(queue, 1, n)
           /\ queue' = SubSeq(queue, n + 1, Len(queue))
    /\ UNCHANGED <<device, disturbed, userVars, todo, freed, outputs,
                   mainVars, reading, crashed, down, stale>>

\* Slip: the code is not compared.
MatchesAnyCode(in, ev) ==
    /\ in.type = ev.type
    /\ ev.type = "REL" =>
         CASE in.sign = "Positive" -> ev.value > 0
           [] in.sign = "Negative" -> ev.value < 0
           [] OTHER -> TRUE

\* InputEvent::operator==: the direction counts for relative axes only.
Matches(in, ev) ==
    /\ in.type = ev.type /\ in.code = ev.code
    /\ ev.type = "REL" =>
         CASE in.sign = "Positive" -> ev.value > 0
           [] in.sign = "Negative" -> ev.value < 0
           [] OTHER -> TRUE

Matching(ev) == {j \in DOMAIN outputs : Matches(Inputs[j], ev)}

\* The first write follows without another look at the output.
AtOnce(ops) == IF ops = <<>> THEN <<>> ELSE [ops EXCEPT ![1] = Local(@)]

\* The first output whose input matches sends the event; the vector is its
\* own copy by then, and what the output remembers changes in that copy.
Translate ==
    /\ batch # <<>> /\ todo = <<>>
    /\ \E ev \in {Head(batch)}, j \in Matching(Head(batch)) :
         /\ \A i \in Matching(ev) : j <= i
         /\ \E sent \in {SendFrom(outputs[j], ev.type, ev.value, short) : short \in BOOLEAN} :
              /\ todo' = AtOnce(sent.ops)
              /\ outputs' = [outputs EXCEPT ![j] = sent.out]
    /\ batch' = Tail(batch)
    /\ freed' = FALSE
    /\ UNCHANGED <<device, disturbed, userVars, queue, mainVars, reading,
                   crashed, down, stale>>

\* Nothing matches: the event is passed through to the device of its kind.
PassThrough ==
    /\ batch # <<>> /\ todo = <<>>
    /\ Matching(Head(batch)) = {}
    /\ LET ev == Head(batch)
       IN  todo' = SendRaw(ev.type, ev.code, ev.value, DevType)
    /\ batch' = Tail(batch)
    /\ freed' = FALSE
    /\ UNCHANGED <<device, disturbed, userVars, queue, outputs, mainVars,
                   reading, crashed, down, stale>>

\* The next write(), when the output it comes from is still there (or is
\* not looked at).  What was not initialised is written all the same.
Write ==
    /\ todo # <<>>
    /\ \E junk \in JunkEvents :
         LET op == Head(todo)
         IN  /\ down' = Apply(down, op.dev,
                              [i \in DOMAIN op.evs |->
                                 IF op.evs[i] = Junk THEN junk ELSE op.evs[i]])
             /\ stale' = stale \cup {junk.code : i \in {i \in DOMAIN op.evs :
                                          op.evs[i] = Junk /\ junk.type = "KEY"}}
    /\ todo' = Tail(todo)
    /\ UNCHANGED <<device, disturbed, userVars, queue, batch, freed, outputs,
                   mainVars, reading, crashed>>

\* The output was freed: reading it may work (Write), end the sequence ...
LoseRest ==
    /\ todo # <<>> /\ freed /\ ~Head(todo).local
    /\ todo' = <<>>
    /\ UNCHANGED <<device, disturbed, userVars, queue, batch, freed,
                   outputs, mainVars, reading, crashed, down, stale>>

\* ... or end the process.
Crash ==
    /\ todo # <<>> /\ freed /\ ~Head(todo).local
    /\ crashed' = TRUE
    /\ todo' = <<>> /\ batch' = <<>> /\ queue' = <<>>
    /\ reading' = FALSE
    /\ UNCHANGED <<device, disturbed, userVars, freed, outputs, mainVars, down, stale>>

-----------------------------------------------------------------------------
(* The main thread.                                                        *)

\* History: something happened while a key was held or input not handled.
Disturbs(what) ==
    disturbed' = IF AtRest \/ disturbed = "by a reread" THEN disturbed ELSE what

\* Slip: what the thread has read is thrown away with the outputs.
ChangeWindowFlushing(w) ==
    /\ ~crashed
    /\ AnyTime \/ AtRest
    /\ reading
    /\ w # window
    /\ window' = w /\ known' = w
    /\ outputs' = Config[w]
    /\ freed' = (freed \/ todo # <<>>)
    /\ batch' = <<>>
    /\ Disturbs("by a window")
    /\ UNCHANGED <<device, userVars, queue, todo, reading, crashed, down, stale>>

\* activeWindowChanged() and setOutputs(): the new outputs are as configured,
\* and the old vector, which only this handler had, is gone.
ChangeWindow(w) ==
    /\ ~crashed
    /\ AnyTime \/ AtRest
    /\ reading
    /\ w # window
    /\ window' = w /\ known' = w
    /\ outputs' = Config[w]
    /\ freed' = (freed \/ todo # <<>>)
    /\ Disturbs("by a window")
    /\ UNCHANGED <<device, userVars, queue, batch, todo, reading, crashed, down, stale>>

\* reReadConfig(): the thread ends between two batches, and what the kernel
\* still has for it is lost when it closes the device.
StopReading ==
    /\ Rereads
    /\ AnyTime \/ AtRest
    /\ reading /\ Idle
    /\ reading' = FALSE
    /\ queue' = <<>>
    /\ Disturbs("by a reread")
    /\ UNCHANGED <<device, userVars, threadVars, outputs, mainVars, crashed, down, stale>>

\* readConf(): a new handler with new outputs, for the class the daemon
\* remembers and an empty title.
StartReading ==
    /\ ~crashed
    /\ ~reading
    /\ reading' = TRUE
    /\ known' = Untitled[known]
    /\ outputs' = Config[known']
    /\ UNCHANGED <<device, disturbed, userVars, queue, threadVars, window,
                   crashed, down, stale>>

-----------------------------------------------------------------------------
ThreadStep == ReadBatch \/ Translate \/ PassThrough \/ Write \/ LoseRest \/ Crash

Next ==
    \/ \E k \in Keys : PressKey(k) \/ ReleaseKey(k)
    \/ RepeatKey
    \/ \E a \in Axes, v \in {-1, 1} : Turn(a, v)
    \/ ThreadStep
    \/ \E w \in Windows : ChangeWindow(w)
    \/ StopReading \/ StartReading

\* The thread is scheduled, and a reread comes to its end.
Fairness == WF_vars(ThreadStep) /\ WF_vars(StartReading)

Spec == Init /\ [][Next]_vars
FairSpec == Spec /\ Fairness

-----------------------------------------------------------------------------
(* Properties.                                                             *)

\* The virtual device that keys of this device are passed through to.
OwnDevice == IF DevType = "Keyboard" THEN "kbd" ELSE "mouse"

PassedKeys == PassedBy(device)

\* When the user has let go of everything and every event is handled, no
\* virtual key or button is left pressed, but for those the repeat of a combo
\* took from uninitialised memory (sendCombo(2)).
AllReleased ==
    AtRest /\ reading /\ disturbed = "never" => \A d \in down : d[2] \in stale

\* A key that has no <signal> behaves as if nobody had grabbed the device,
\* whatever the outputs of the other keys do and whenever windows change.
PassThroughMirrors ==
    Idle /\ queue = <<>> /\ disturbed # "by a reread" /\ ~crashed =>
        \A k \in PassedKeys \ stale : k \in held <=> <<OwnDevice, k>> \in down

\* Whatever the user did, once nothing is held any more all that was
\* pressed is released, as long as the user does not start again.
ReleasedInTheEnd ==
    held = {} ~> \/ \A d \in down : d[2] \in stale
                 \/ held # {} \/ disturbed # "never"

\* The thread gets on with the input: a full queue is read, also one that
\* takes more than one read().
QueueIsServed == Len(queue) = QueueMax ~> Len(queue) < QueueMax

\* The process survives a change of the window (README, OUT 3: a sequence
\* that switches windows goes on to its end).
NeverCrashes == ~crashed

\* The simple output of a key is pressed while that key is held, and only
\* then, but for keys a repeated combo took from uninitialised memory.
\* README, OUT, expects it "in theory" of "every key and button supported by
\* Linux"; the keys that Linux numbers above the buttons are never pressed,
\* since sendSimple() writes them to the mouse, which was not made for them.
SimpleMirrors ==
    Idle /\ queue = <<>> /\ reading /\ disturbed = "never" =>
        \A j \in DOMAIN outputs :
            /\ Inputs[j].type = "KEY" /\ outputs[j].type = "KEY"
            /\ outputs[j].kind = "Simple" /\ outputs[j].code \notin stale
            => (Inputs[j].code \in held /\ outputs[j].code \notin LateKeys
                    <=> \E dev \in VDevices : <<dev, outputs[j].code>> \in down)

\* "release f, release Left Shift, release Left Control" (README, OUT 2): a
\* combo's key is never pressed without all of its modifiers.
ModifiersOutlastKey ==
    \A j \in DOMAIN outputs : outputs[j].kind = "Combo" =>
        \A i \in DOMAIN outputs[j].mods :
            (\E dev \in VDevices : <<dev, outputs[j].code>> \in down)
                => <<"kbd", outputs[j].mods[i]>> \in down
=============================================================================
