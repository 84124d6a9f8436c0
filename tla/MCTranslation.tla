--------------------------- MODULE MCTranslation ---------------------------
(***************************************************************************)
(* Devices and configurations on which TLC runs Translation.               *)
(***************************************************************************)
EXTENDS Translation

In(type, code, sign) == [type |-> type, code |-> code, sign |-> sign]

AllButtons == {"BTN_0", "BTN_LEFT", "BTN_MIDDLE", "BTN_SIDE"}
AllMisc    == {"BTN_0"}
AllLate    == {"KEY_TITLE"}

\* What an uninitialised array element holds: nothing that matters, or what
\* an earlier combo left there.
AnyJunk == {NoEvent, Event("KEY", "SHIFT", 1)}

\* Two windows of one class; that of the editor has no title.
TwoWindows == {"editor", "game"}
NoTitle    == [w \in TwoWindows |-> "editor"]

\* Outputs for the two windows.
Outputs(editor, game) == [w \in TwoWindows |-> IF w = "editor" THEN editor ELSE game]

\* Press a button, move, switch the window with Alt-Tab, release.
DragAndSwitch ==
    Macro(<< Give("KEY", "BTN_LEFT", "All", 1), Strike("TAB", <<"ALT">>),
             Give("KEY", "BTN_LEFT", "All", 0) >>)

\* Keyboards; windows change, and rereads happen, at any time or at rest.
Keyboard(keys, inputs, anyTime, config) ==
    [type |-> "Keyboard", repeats |-> TRUE, keys |-> keys, axes |-> {},
     inputs |-> [i \in DOMAIN inputs |-> In("KEY", inputs[i], "All")],
     anyTime |-> anyTime, rereads |-> TRUE, queueMax |-> 2, config |-> config]

\* Simple, debounced and autofire outputs, a macro and a key without output.
TwoOutputs ==
    Keyboard({"k1", "k2", "k3"}, <<"k1", "k2">>, FALSE,
             Outputs(<< Key("x"), Debounce("y") >>,
                     << DragAndSwitch, AutoRepeat("BTN_SIDE") >>))

\* A key with a macro and one without an output.
OneOutput ==
    Keyboard({"k1", "k3"}, <<"k1">>, TRUE,
             Outputs(<< DragAndSwitch >>, << AutoRepeat("BTN_SIDE") >>))

\* A mouse: a button and both directions of the wheel.
Mouse ==
    [type |-> "Mouse", repeats |-> FALSE,
     keys |-> {"BTN_LEFT", "BTN_SIDE"}, axes |-> {"WHEEL"},
     anyTime |-> FALSE, rereads |-> FALSE, queueMax |-> 2,
     inputs |-> << In("KEY", "BTN_SIDE", "All"), In("REL", "WHEEL", "Positive"),
                   In("REL", "WHEEL", "Negative") >>,
     config |->
        Outputs(<< Combo("c", <<"CTRL", "SHIFT">>),
                   Accelerate(Simple("REL", "WHEEL", "Positive"), 1, 2, 1),
                   Accelerate(Key("DOWN"), 1, 2, 1) >>,
                << Combo("BTN_MIDDLE", <<"CTRL">>),
                   Simple("REL", "HWHEEL", "Negative"),
                   Macro(<< Give("REL", "HWHEEL", "Positive", 1) >>) >>)]

\* Combos on a keyboard that repeats, and a key numbered above the buttons.
Shortcuts ==
    Keyboard({"k1", "k2"}, <<"k1", "k2">>, FALSE,
             Outputs(<< Combo("c", <<"CTRL", "SHIFT">>), Key("KEY_TITLE") >>,
                     << Combo("BTN_0", <<"CTRL">>), Key("x") >>))

\* More input than one read() takes.
Burst ==
    [Keyboard({"k1", "k3"}, <<"k1">>, FALSE, Outputs(<< Key("x") >>, << Key("x") >>))
        EXCEPT !.repeats = FALSE, !.rereads = FALSE, !.queueMax = 5]

\* The outputs two promises of the README are broken with.
MacroInEditor ==
    Keyboard({"k1", "k2"}, <<"k1", "k2">>, TRUE,
             Outputs(<< DragAndSwitch, Key("x") >>, << Key("w"), Key("x") >>))
ButtonCombo ==
    Keyboard({"k1", "k2"}, <<"k1", "k2">>, FALSE,
             Outputs(<< Combo("BTN_LEFT", <<"CTRL">>), Key("x") >>,
                     << Combo("BTN_LEFT", <<"CTRL">>), Key("x") >>))

DeviceTable ==
    [d \in {"two outputs", "one output", "mouse", "shortcuts", "burst", "macro", "combo"} |->
       CASE d = "two outputs" -> TwoOutputs
         [] d = "one output"  -> OneOutput
         [] d = "mouse"       -> Mouse
         [] d = "shortcuts"   -> Shortcuts
         [] d = "burst"       -> Burst
         [] d = "macro"       -> MacroInEditor
         [] d = "combo"       -> ButtonCombo]
=============================================================================
