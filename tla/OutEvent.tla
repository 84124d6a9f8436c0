------------------------------ MODULE OutEvent ------------------------------
(***************************************************************************)
(* The output definitions of inputmangler (class OutEvent): what one input *)
(* event makes an output write, to which virtual device, and what the      *)
(* output remembers.  Constant operators only: Translation runs them.      *)
(*                                                                         *)
(* A sleep writes nothing and is left out: time enters only as the answer  *)
(* to "was this output triggered a short time ago?" (timeDiff()).          *)
(***************************************************************************)
EXTENDS Integers, Sequences, SequencesExt

CONSTANTS
    Buttons,   \* codes from BTN_MISC up to BTN_GEAR_UP, mouse buttons
    MiscButtons, \* those of them below BTN_MOUSE: BTN_0 to BTN_9
    LateKeys,  \* KEY_ codes whose numbers lie above those of the buttons
    Junk       \* an array element nobody initialised

\* The codes from BTN_MISC up, and the codes from BTN_MOUSE up.
HighCodes == Buttons \cup LateKeys
MouseCodes == HighCodes \ MiscButtons

ASSUME CodesAssumption ==
    MiscButtons \subseteq Buttons /\ Buttons \cap LateKeys = {}

VDevices == {"kbd", "mouse", "tablet", "joystick"}

\* struct VEvent, and a write() of some of them to one device.  A write is
\* local when nothing of the OutEvent is read between it and the one before.
Event(type, code, value) == [type |-> type, code |-> code, value |-> value]
WriteTo(dev, evs) == [dev |-> dev, evs |-> evs, local |-> FALSE]
Local(op) == [op EXCEPT !.local = TRUE]

\* An OutEvent as its constructors leave it; kind is outType.
Blank == [kind |-> "Simple", type |-> "KEY", code |-> Junk, sign |-> "All",
          mods |-> <<>>, parts |-> <<>>, custom |-> 0, sent |-> 0,
          rate |-> 0, count |-> 0, step |-> 0, max |-> 0, min |-> 0]

Simple(type, code, sign) == [Blank EXCEPT !.type = type, !.code = code, !.sign = sign]
Key(code)         == Simple("KEY", code, "All")
Combo(code, mods) == [Key(code) EXCEPT !.kind = "Combo", !.mods = mods]
AutoRepeat(code)  == [Key(code) EXCEPT !.kind = "Repeat"]
Debounce(code)    == [Key(code) EXCEPT !.kind = "Debounce"]
Macro(parts)      == [Simple(parts[1].type, parts[1].code, parts[1].sign)
                        EXCEPT !.kind = "Macro", !.parts = parts]
Accelerate(out, step, max, min) ==
    [out EXCEPT !.kind = "Accelerate", !.step = step, !.max = max, !.min = min]

\* The outputs that mention no other codes than C, and the writes of such
\* codes.  What is debounced is a key.
Kinds == {"Simple", "Combo", "Repeat", "Macro", "Accelerate", "Debounce"}
Types == {"KEY", "REL", "ABS"}
Signs == {"All", "Positive", "Negative"}
PartsOn(C) == [set : BOOLEAN, type : Types, code : C, sign : Signs, mods : Seq(C),
               value : Int]
OutputsOn(C) ==
    {o \in [kind : Kinds, type : Types, code : C, sign : Signs,
            mods : Seq(C), parts : Seq(PartsOn(C)), custom : {0, 1}, sent : {0, 1, 2},
            rate : Nat, count : Nat, step : Nat, max : Nat, min : Nat] :
        /\ o.rate <= Max({1, o.max}) /\ o.count <= o.min
        /\ o.kind = "Debounce" => o.type = "KEY"}
EventsOn(C) == [type : Types, code : C, value : Int]
WritesOn(C) == [dev : VDevices, evs : Seq(EventsOn(C) \cup {Junk}), local : BOOLEAN]

\* The parts of a macro: a key or combo, and a key or axis with a value; the
\* name of an axis says its direction.  A macro is of its first part's type.
Strike(code, mods) == [set |-> FALSE, type |-> "KEY", code |-> code, sign |-> "All",
                       mods |-> mods, value |-> 0]
Give(type, code, sign, value) == [set |-> TRUE, type |-> type, code |-> code,
                                  sign |-> sign, mods |-> <<>>, value |-> value]

-----------------------------------------------------------------------------
\* sendSimple(): codes from BTN_MISC up go to the mouse, whatever they are,
\* the others to the device of their event type.
SimpleDevice(type, code) ==
    CASE type = "KEY" /\ code \in HighCodes    -> "mouse"
      [] type = "KEY" /\ code \notin HighCodes -> "kbd"
      [] type = "REL"                          -> "mouse"
      [] type = "ABS"                          -> "tablet"

SendSimple(out, value) ==
    << WriteTo(SimpleDevice(out.type, out.code),
               << Event(out.type, out.code, value) >>) >>

\* sendCombo(): the modifiers with the value, then the key with the value.
\* A key repeat skips the modifiers but not their number: what is written
\* after the key is whatever the array held.
ComboEvents(out, value) ==
    LET key == Event("KEY", out.code, value)
    IN  IF value # 2
        THEN [i \in DOMAIN out.mods |-> Event("KEY", out.mods[i], value)] \o <<key>>
        ELSE <<key>> \o [i \in DOMAIN out.mods |-> Junk]

\* A button from BTN_MOUSE up goes to the mouse, after the keyboard got as
\* many elements from the start of the array as there are modifiers.
SendCombo(out, value) ==
    LET evs == ComboEvents(out, value)
        n   == Len(out.mods)
    IN  IF out.code \in MouseCodes
        THEN << WriteTo("kbd", SubSeq(evs, 1, n)),
               Local(WriteTo("mouse", << Event("KEY", out.code, value) >>)) >>
        ELSE << WriteTo("kbd", evs) >>

\* sendMacro() for one part, and proceed() through all of them.
PartOps(part) ==
    IF part.set
    THEN SendSimple(part, part.value)
    ELSE SendCombo(part, 1) \o SendCombo(part, 0)

MacroOps(parts) == FlattenSeq([i \in DOMAIN parts |-> PartOps(parts[i])])

\* What a call returns: the writes, and the output as the call leaves it.
Sends(ops, out) == [ops |-> ops, out |-> out]

\* Slip: the halves of the clicks are counted.
SendRepeatCounting(out, value) ==
    CASE value = 1 -> Sends(SendSimple(out, 1), [out EXCEPT !.custom = 0])
      [] value = 2 -> Sends(SendSimple(out, out.custom),
                            [out EXCEPT !.custom = 1 + out.custom])
      [] OTHER     -> Sends(SendSimple(out, 0), out)

\* Repeat in send(value): a key repeat sends one half of a click.
SendRepeat(out, value) ==
    CASE value = 1 -> Sends(SendSimple(out, 1), [out EXCEPT !.custom = 0])
      [] value = 2 -> Sends(SendSimple(out, out.custom),
                            [out EXCEPT !.custom = 1 - out.custom])
      [] OTHER     -> Sends(SendSimple(out, 0), out)

\* sendAccelerated(): a quick trigger writes the value, then releases and
\* presses as often as the rate says, then writes the value once more.  The
\* counter is not told apart once it has reached minKeyPresses.
SendAccelerated(out, value, short) ==
    LET count == IF out.count < out.min THEN out.count + 1 ELSE out.min
        rate  == IF count < out.min THEN out.rate
                 ELSE IF out.rate + out.step > out.max THEN out.max
                 ELSE out.rate + out.step
        again == [i \in 1..(2 * rate) |-> SendSimple(out, IF i % 2 = 1 THEN 0 ELSE value)[1]]
    IN  CASE ~short -> Sends(SendSimple(out, value),
                             [out EXCEPT !.count = 0, !.rate = 1])
          [] short /\ value \in {1, -1} ->
                Sends(SendSimple(out, value) \o again \o SendSimple(out, value),
                      [out EXCEPT !.count = count, !.rate = rate])
          [] OTHER -> Sends(SendSimple(out, value), out)

\* Slip: a release is debounced like a press.
SendDebouncedAll(out, value, short) ==
    IF ~short THEN Sends(SendSimple(out, value), [out EXCEPT !.sent = value])
              ELSE Sends(<<>>, out)

\* sendDebounced(): a press that comes too early is dropped, and so is a
\* release when the last thing sent was one.
SendDebounced(out, value, short) ==
    IF (value # 0 /\ ~short) \/ (value = 0 /\ out.sent # 0)
    THEN Sends(SendSimple(out, value), [out EXCEPT !.sent = value])
    ELSE Sends(<<>>, out)

\* OutEvent::send(value, time).
Send(out, value, short) ==
    CASE out.kind = "Simple"     -> Sends(SendSimple(out, value), out)
      [] out.kind = "Combo"      -> Sends(SendCombo(out, value), out)
      [] out.kind = "Repeat"     -> SendRepeat(out, value)
      [] out.kind = "Macro"      -> Sends(IF value = 1 THEN MacroOps(out.parts) ELSE <<>>, out)
      [] out.kind = "Accelerate" -> SendAccelerated(out, value, short)
      [] out.kind = "Debounce"   -> SendDebounced(out, value, short)

\* Slip: a click without its release.
SendClickHalf(out, short) == Send(out, 1, short)

\* OutEvent::send(): a press and a release, 5 ms apart.
SendClick(out, short) ==
    LET down == Send(out, 1, short)
        up   == Send(down.out, 0, TRUE)
    IN  Sends(down.ops \o up.ops, up.out)

\* The output wants the other direction.
Opposite(sign, value) == (sign = "Positive" /\ value < 0) \/ (sign = "Negative" /\ value > 0)

\* OutEvent::send(value, sourceType, time): from a key or an axis to a key
\* or an axis.  Everything else writes nothing.
SendFrom(out, source, value, short) ==
    CASE out.type = source ->
            Send(out,
                 IF source # "KEY" /\ Opposite(out.sign, value) THEN -value ELSE value,
                 short)
      [] source = "REL" /\ out.type = "KEY" -> SendClick(out, short)
      [] source = "KEY" /\ out.type = "REL" /\ value # 0 ->
            Send(out, IF out.sign = "Negative" THEN -1 ELSE 1, short)
      [] OTHER -> Sends(<<>>, out)

\* The virtual devices an event of a device of this type is passed on to.
RawDevices(dtype) ==
    CASE dtype = "Keyboard" -> <<"kbd">>
      [] dtype = "Mouse"    -> <<"mouse">>
      [] dtype = "Tablet"   -> <<"tablet">>
      [] dtype = "Joystick" -> <<"joystick">>
      [] dtype = "TabletOrJoystick" -> <<"tablet", "joystick">>

\* sendRaw() with the type of the device the event came from.
SendRaw(type, code, value, dtype) ==
    LET devs == RawDevices(dtype)
    IN  [i \in DOMAIN devs |-> Local(WriteTo(devs[i], << Event(type, code, value) >>))]

-----------------------------------------------------------------------------
\* inputdummy_init(): the events a virtual device was registered for; the
\* input core drops the others.
Accepts(dev, ev) ==
    \/ ev.type = "KEY" /\ (dev = "kbd" \/ (dev = "mouse" /\ ev.code \in Buttons))
    \/ ev.type = "REL" /\ dev = "mouse"

\* device_write() hands every event to the input core, which keeps what is
\* down: 1 presses, 0 releases, 2 changes nothing.
Apply(down, dev, evs) ==
    LET changes(code) == {i \in DOMAIN evs : /\ Accepts(dev, evs[i])
                                             /\ evs[i].type = "KEY" /\ evs[i].code = code
                                             /\ evs[i].value # 2}
        pressed == {evs[i].code : i \in {i \in DOMAIN evs :
                        i = Max({0} \cup changes(evs[i].code)) /\ evs[i].value # 0}}
    IN  {d \in down : d[1] = dev => changes(d[2]) = {}} \cup ({dev} \X pressed)
=============================================================================
