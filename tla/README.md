# inputmangler in TLA+

inputmangler is a daemon that grabs input devices, translates their events by
rules that depend on the active window, and writes the result to virtual
devices of its own kernel module. It also types text that comes from the
network. This directory holds a formal model of it: TLA+ modules, TLC
configurations, and proofs for TLAPS. All paths below are relative to the
repository.

## 1. Inventory

| Component | Source | State it keeps | Operations | Model |
|---|---|---|---|---|
| Life cycle | `src/inputmangler.cpp`, `src/main.cpp`, `src/qtsignalhandler.cpp` | `handlers`, `wsets`, `sd.terminating`, the socket pair | `readConf`, `cleanUp`, `reReadConfig`, signals | `Lifecycle` |
| Handler threads | `src/handlers/*.cpp` | device, server, buffers | `parseXml`, the `run()` loops | `Lifecycle`, `Translation`, `Configuration` |
| Output definitions | `src/output.cpp` | `customValue`, `next`, `time` | `send*`, `proceed` | `OutEvent` |
| Window switching | `src/inputmangler.cpp`, `abstractinputhandler.cpp` | `wm_class`, `wm_title`, `outputs` | `activeWindowChanged`, `setOutputs` | `Translation`, `Configuration` |
| Network text | `src/handlers/nethandler.cpp` | `buffer`, the client | `actOnData` | `NetHandler` |
| Key maps | `src/keydefs.cpp` | `charmap`, `specialmap`, `max_sequence_length`, `sequence_starting_chars`, `keymap` | `setUpKeymaps` | `NetHandler` (charmap) |
| Configuration | `src/ConfParser.cpp`, `src/transformationstructure.cpp` | `wsets`: outputs by id, class and title | `parse*`, `readWindowSettings`, `getOutputs`, `sanityCheck` | `Configuration` |
| Kernel module | `inputdummy/inputdummy.c` | `Device_Open`, what is pressed | `open`, `write`, `release` | `OutEvent` (write), `VirtualDevice` (open, release) |
| Window notification | `kwinscript/`, `scripts/trackCurrentWindow.sh` | the last window reported | D-Bus calls | `WindowNotify` |
| D-Bus interface | `src/imdbusinterface.cpp` | nothing | forwards calls | `WindowNotify` |

**How they interact.** The main thread runs a Qt event loop. Unix signals come
through a socket pair, window changes through D-Bus; both end in slots of
`InputMangler`. Every handler is a `QThread` of its own. The threads share with
the main thread `sd.terminating`, their `outputs` vector and the descriptors of
the virtual devices, all without a lock.

**What is hard here.**
* A stop or a reread has to collect every thread, which look at a flag only
  between two waits; `wait(4000)` may give up, and nobody looks.
* The outputs are replaced, and the old ones freed, while a thread uses them.
* What an output remembers, and what is pressed on the virtual devices, must
  fit together over window changes, key repeats and rereads.
* Text is cut by the network anywhere, in the middle of a sequence, too.
* Outputs are inherited from `<signal>`s through groups, windows and titles, by
  position; a handler's thread indexes them without a check of its own.
* Two scripts tell the daemon of windows, in several calls and with a memory of
  their own, and the daemon forgets at every restart and reread.
* `Device_Open` is tested and counted without a lock.

**What makes each part right.** The life cycle: stops are complete before
anything is closed, deleted or set up again, and signals are answered. The
translation: no key stays pressed, keys without rule are not disturbed, outputs
belong to the active window. The outputs: the order of keys and modifiers, and
the device an event goes to. The text: its meaning does not depend on how it is
cut. The configuration: every started handler has exactly one output per input,
that of the innermost element that says something about it. The notification:
KWin's script never makes the daemon mix two windows; the shell script, which
asks twice, may do so for one round; and with both the daemon ends up with the
current window, unless it forgot (a restart, a reread) or the shell script takes
the old title, as a text, to match the new one as a pattern. The virtual
devices: each is open once. `PROJECT.json` lists the single hazards with their
lines.

## 2. Modules

| Module | What it is |
|---|---|
| `Daemon` | abstract: serving with workers, complete stops, restart |
| `Lifecycle` | the code's life cycle with threads, flag, signals and time; refines `Daemon` |
| `LifecycleProofs` | its theorems |
| `OutEvent` | constant operators: what each kind of output writes for an event |
| `Translation` | one `DevHandler` thread, the main thread that replaces outputs, the kernel's queue, the virtual devices |
| `OutEventProofs`, `TranslationProofs` | lemmas about the outputs; the theorems of `Translation` |
| `LeastNumber` | lemmas the proofs share: a set of numbers that is not empty has a smallest member, and a largest if it is bounded |
| `NetHandler` | the reading of the charmap and `actOnData()` |
| `NetHandlerProofs` | its theorems |
| `Configuration` | the document read element by element, `wsets`, the sanity check, the outputs for the active window |
| `ConfigurationProofs` | its theorems |
| `WindowNotify` | the desktop, both scripts, the D-Bus calls under way, the daemon's view |
| `WindowNotifyProofs` | its theorems |
| `VirtualDevice` | processes that open and close the virtual devices, `device_open()` and `device_release()` step by step |
| `MCLifecycle`, `MCLifecycleTimely`, `MCTranslation`, `MCNetHandler`, `MCConfiguration`, `MCWindowNotify` | instances for TLC |

Operators under a comment that begins with "Slip" are not part of the model.
Each is a definition as a plausible mistake in the code would have it;
`PROJECT.json` ("mutants") says which property notices it.

### Lifecycle

`pc` is the place of the main thread: `setup` and `parse` and `starting` are
`readConf()`, `loop` is `exec()`, `joining` and `deleting` are `cleanUp()`;
`after` tells `reReadConfig()` from the end. `thread[h]` is where the thread of
`h` is: opening its device, waiting (`poll`, `waitForNewConnection`,
`waitForReadyRead`), working on what it read, or ended. `BeginWait`/`EndWait`
are one `h->wait(4000)`, which ends with the thread or with the time.
`DeleteHandler` of a running thread aborts, as `QThread`'s destructor does.
A signal before `QtSignalHandler` is constructed kills the process.

Time counts in ticks of half a second: `timer[h]` and `waitLeft` are
countdowns, and `Tick` may not pass one that is due. Opening a device takes no
tick. `MaxBusy` is how long a thread works between two waits. USR1 and USR2 only
print and are left out; INT is TERM.

### OutEvent and Translation

An output is a record of what its constructor leaves. `Send` and its helpers
return the `write()` calls an event leads to and the output afterwards;
`Translation` executes the writes one at a time, so that window changes come
between them. A write is `local` when nothing of the output is read before it
after the write before. If the main thread has freed the vector meanwhile
(`freed`), a write that is not local may work, may be the end of the sequence
(`LoseRest`), or of the process (`Crash`): reading freed memory is undefined
and these are what the build does. (What a freed output *stores* is left out.)
The replacement of the vector itself is one step.

Time is left out: a trigger is near enough to the one before, or not (`short`).
Numbers that are told apart no longer are capped: the counter of an accelerated
output at its minimum. SYN events, absolute axes and `Wait` parts write nothing
the properties see, and are left out. `Apply` is what the input core keeps
pressed, with the codes `inputdummy_init()` registers.

The model is about one device of several: `device` is chosen at the start, and
the table `About` has what there is to know of each: its keys and axes, whether
the kernel repeats its keys, its inputs, the outputs of every window, and its
bounds.

The numbers of codes matter in two places, which do not agree: `sendSimple()`
sends everything from `BTN_MISC` up to the mouse (`HighCodes`), `sendCombo()`
everything from `BTN_MOUSE` up (`MouseCodes`), so `MiscButtons` (`BTN_0` to
`BTN_9`) of a combo go to the keyboard. `LateKeys` are the `KEY_` codes above
the buttons, which no virtual mouse has. When the kernel repeats a combo,
`sendCombo(2)` writes elements it never filled in: `Junk` in the model, which
`Write` replaces by any of `JunkEvents`, a key event among them. `stale` is
history: the keys that were events of such elements. The properties of
`Translation` leave these keys out by name, and no others.

The user (`PressKey`, `ReleaseKey`, `Turn`) and the kernel's autorepeat
(`RepeatKey`) are external. Bounds, per device: `QueueMax` events wait in the
kernel's queue; `anyTime` says whether windows change while input is not
handled, and `rereads` whether the configuration is reread. `disturbed` is
history: it remembers that a window change or a reread met input that was not
handled, and properties that the code cannot give after that exclude it by name.

### NetHandler

`ReadCharLine` and `ReadSequenceLine` read one line of the charmap each;
`toRead` is what is left of the file. One turn of the loop in `actOnData()` is
one step: `PlainChar`, `KeepRest`, `TypeSequence`, `StartingChar`. `text` is
the string from `i` on. Clients come and go (`Connect`, `Disconnect`); `buffer`
is the handler's and survives them, until a reread makes a new handler.
`setUpKeymaps()` may return before it comes to the charmap, at the start and at
a reread (`RereadFails`): then the maps are empty while
`max_sequence_length` and `sequence_starting_chars` are those of before.
`taken` is history: the triggers of all outputs so far. `MaxText` bounds the
text.

### Configuration

`phase` is where `readConf()` is. In `handlers`, `ReadHandler` is one child of
`<handlers>` with any devices plugged in: a handler for every device that
matches. `BeginWindows` makes the handlers' outputs the defaults of their ids.
In `windows`, `ReadGroup` copies outputs and flags into a new scope, as the
recursive call does, and `EndGroup` returns from it; `ReadWindow` is
`readWindowSettings()`, with its titles. `Start` is the rest of `readConf()`:
the first look-up of outputs, and a thread for each handler that passes
`SanityCheck`. `ChangeWindow` is a look-up for a new active window, `Reread`
starts over, with the class that was known and the `infoCache` that stays.
The document is not given but chosen as it is read, out of a stock of elements;
`doc`, `path` and the `signals` of a handler (its outputs before any window) are
history, from which `InheritsFromNearest` and `SendsTheInnermost` work out what
a window should get without looking at `wsets`. `LevelsFor` are the elements
around what is active, from the outermost group over the window to the title;
`InheritsFromNearest` says what the README does, that every input gets what the
innermost of them says of it. The code breaks it in both notations, and two runs
show it: `~` takes the neighbour's output, and a title with `<long>` builds on
the group instead of the window. `SendsTheInnermost` is what is left: it allows
just these two, input by input, and nothing else.

Outputs and inputs are names; an assignment is a sequence of outputs (short) or
a function from inputs to outputs (long). Regular expressions are the sets of
titles they match. What would make the parser read past a vector or through a
null pointer is one step to the phase `undefined` (`ReadBadGroup`,
`ReadBadWindow`), after which nothing is promised. The characters of the XML and
of the output definitions are left out. Bounds: `MaxHandlers`, `MaxElements`,
`MaxDepth`.

### WindowNotify

`Activate` and `SetCaption` are what the desktop does, together with what KWin's
script does in its callbacks; `AskTitle`, `AskClass` and `NextRound` are one
round of the shell script, which asks twice and compares with what it sent last.
It compares with `!=` and no quotes in bash's `[[ ]]`, so the new title and
class are patterns: `PassesFor` says that the old window passes for the new one,
by the table `Glob` of what matches what. `calls` are D-Bus calls under way, in
their order; without a daemon they are lost. `Handle` is the daemon's slot,
`Reread` its HUP, `StartDaemon` and `StopDaemon` the D-Bus object's constructor
and destructor. `forgotten` is history: which half of what the daemon knows does
not come from a call. `MaxCalls` bounds the calls under way.

### VirtualDevice

A process goes through the devices as `generalSetup()` does and tries each
`MaxTries` times (`FindFree`, `FindBusy`), and closes them as
`closeVirtualDevices()`, or the kernel at the end of a process, does.
`++Device_Open[i]` and `--Device_Open[i]` are a load and a store. `Parallel`
says whether the kernel runs calls of several processes at a time, which Linux
does: only a test in the module itself could prevent it.

## 3. Runs

| Run | Question | Bounds |
|---|---|---|
| `Lifecycle_timely` | Are stops and rereads complete, is `Daemon` implemented, and are TERM and HUP answered? | a device, a debug and a network handler; real ticks (poll 3, accept 2, join 8), work up to 4; two signals waiting |
| `Lifecycle_longwork` | violation: work longer than `wait(4000)` aborts the daemon | work up to 11 |
| `Translation_devices` | Is everything released and mirrored, is the queue served? | five devices: 3 keys with key outputs, repeats and quiet changes; 2 keys with changes and rereads at any moment; 2 keys with combos that are repeated, one of `BTN_0`, and `KEY_TITLE`; 2 keys with a queue of 5 for a `read()` of 4; 2 buttons with combos and an accelerated wheel; 2 windows, a queue of 2 elsewhere |
| `Translation_macro` | violation: a sequence that switches windows has its outputs freed under it | a keyboard of 2 keys |
| `Translation_combo` | violation: modifiers are released before the button | a keyboard of 2 keys |
| `Net_text` | Does it matter where text is cut? Does each call end? | 7 characters in pieces of 1 to 3, two charmaps, rereads and clients between them |
| `Net_readme` | violation: the README's charmap knows no sequence | |
| `Config_windows` | Do outputs fit and come from the right element, and who is left idle or undefined? | 7 handler elements, 3 groups, 6 windows, two of them with `~` and two with titles, 3 devices; documents of 2 handlers and 3 groups and windows, groups 2 deep; 5 active windows, any number of rereads |
| `Config_tilde` | violation: `~` inherits the neighbour's output | the README's example, cut to two inputs |
| `Config_titles` | violation: a title inherits from the group, past its window | a window with a title that gives one of two inputs another output |
| `WindowNotify` | Does the daemon see one window, and in the end the current one? | 2 windows, 2 titles, one of which matches the other as a pattern, 3 calls under way |
| `Device_parallel` | violation: two processes get a device | 2 processes, 2 devices, 2 tries |

The bounds are enough for the cases that matter: two waits one after the other
while a third thread works; a signal that arrives during a reread; a change of
window between any two writes of a four-write macro; press, repeat and release
in one batch and in several; a burst that `read()` cuts; three rates of
acceleration; a sequence of three characters cut at each place, and one inside
another, and cut by the end of a client; a window in a group in a group, after
another window of its class; a title with `<long>` that is the first to match;
handlers that share an id; a window that changes between the two questions, and
both before a call arrives.

**Fairness.** `Lifecycle`: the main thread and the handler threads are
scheduled and time passes; nobody has to send anything. `Translation`: the
thread is scheduled and a reread ends. `NetHandler`: the loops go on.
`WindowNotify`: the shell script's loop goes on and the daemon's event loop
serves every call. None is assumed of users, windows, signals or the network.
`Configuration` and `VirtualDevice` claim no liveness. Deadlock is checked
everywhere but in the `Config_*` runs: there the daemon stops, by `exit(1)` or
in what is undefined.

**What the violations show.** Each quotes a line of the documentation in
`PROJECT.json` ("findings"). More came up while modelling and are not runs of
their own:
* a key pressed in one window and released in another leaves the first output
  pressed, and a debounced output then swallows the release (`AllReleased`
  excludes it by `disturbed`);
* a combo with key repeat writes uninitialised elements (`output.cpp:354`), and
  presses whatever keys an earlier send left there: the device "shortcuts" does
  it, and the properties exclude the keys it presses by `stale`;
* keys above the buttons (`KEY_TITLE`) are written to the virtual mouse, which
  drops them (`output.cpp:327`): "shortcuts" has such an output, and
  `SimpleMirrors` says that it is never pressed;
* a combo of `BTN_0` to `BTN_9` is written to the keyboard, a simple output of
  the same button to the mouse (`output.cpp:348`);
* a reread forgets the title of the window (`inputmangler.cpp:69`), so that
  outputs do not depend on the active window until it changes, and the shell
  script does not tell it again (`forgotten` in `SeesCurrentWindow`);
* with the shell script a title that changes from `foo.c` to `*foo.c` is never
  told (`trackCurrentWindow.sh:8`; `PassesFor` in `SeesCurrentWindow`);
* a short `<title>` with `~` inherits from an id that is named like its whole
  text, that is from nothing, and reads past it (`ConfParser.cpp:187`;
  `UndefinedOnlyIfFlawed` names it);
* a `<debug>` element with the id of a device, placed after it, makes every
  `<long>` of that device ineffective (`ConfParser.cpp:68`; `InheritsFromNearest`
  and `SendsTheInnermost` exclude it).

## 4. Proofs

`LifecycleProofs` proves, for any handlers and times, type correctness, the
five safety properties of `Lifecycle_timely`, and the refinement of `Daemon`.
The one assumption besides types is `JoinOutlastsWork`: the longest work and the
longest wait together are shorter than `wait(4000)`. The code depends on it
without saying so, and `Lifecycle_longwork` shows what happens otherwise.
The properties are not inductive: the invariant `IInv`, a property of
`Lifecycle_timely` itself and proved as `Invariance`, adds what each phase of
the main thread means for the threads (`PhasesOK`) and that a thread that is
waited for needs less time than the wait has left (`DeadlinesOK`). The last is
the heart: each step of a thread shortens `Remaining(h)` or leaves it, once the
flag is set, and `Tick` takes one from both sides.

`NetHandlerProofs` proves, for any charmaps and texts, type correctness and
that no character is lost (`NothingLost`), that little is kept
(`BufferIsShort`), and that starting characters are known (`StartsAreKnown`).
`CallsAlternate` is the strengthening: only one of `buffer` and `text` is in use.

`ChunksThm` is the theorem about the meaning of a text: wherever it was cut, the
outputs after a call are those of the whole text so far. What a text means is
read from its end to its start (`MeaningAt`): a function on positions, each
value out of a later one, so that no induction over data is needed. Such a
function exists for every text: otherwise there is a smallest position from
which on it does, and `ReadFromEnd` adds one before it. It is unique by the same
argument. `Agrees` is the strengthening, and speaks of every text that could
still come, not only of the one received: what has been typed in this call and
what the rest means make up the meaning of the whole. A step of the loop reads
one character or sequence off the front (`CharAgrees`, `SequenceAgrees`), where
the code's search, which tries lengths one by one, finds the shortest sequence
(`SequencesAreCandidates`) because the charmap has no two lines of the same
characters (`LinesAreUnique`; the map overwrites).

`ConfigurationProofs` proves, for any stock of elements and any devices and
windows, all five properties of `Config_windows`. Assumed of the stock is what
the parser cannot change: a handler has a default per input
(`HandlersAssumption`; `addInput()` appends to both vectors), and elements are
lists of assignments (`DocumentAssumption`). Otherwise the document may be as
wrong as it likes.
* `OutputsFit`: a thread never indexes past its outputs. The heart is that
  `sanityCheck()` looks at everything `getOutputs()` can return
  (`CheckedOutputsFit`): the default, the outputs of a class, and those of the
  first title that matches, which exists because a set of numbers that is not
  empty has a smallest member. `IInv` adds that handlers are well formed and
  that started ones have passed the check against the `wsets` there are.
* `TypeOK`, with `TypesInv`: there is one set of inherited outputs more than
  open groups, and what `<long>` searches (`byId`) are the signals of a
  handler of that id.
* `OnlyMisfitsAreIdle`: the check refuses no device that is right. `OutputsInv`
  says of every set of outputs in `wsets` and on the stack that it is as long
  as the inputs of the handlers of its id, unless two of them differ or a
  short assignment of another number came by (`Misfit`).
* `UndefinedOnlyIfFlawed`, which names what is flawed: an id without a device, a
  misfit, a `~` as the last field or in a title, a `<window>` before any device.
* `SendsTheInnermost`, provided no device names an input twice (`NoRepeats`): of
  two, `<long>` means the first only, as `byId` is searched from the start.
  `NearInv` says of the stack (`ScopesInv`), of the classes and titles
  (`ClassesInv`) and of the active window (`CurrentInv`) that each output is the
  `Nearest` one along the history of the document or an element inside of that
  one asks with a `~` (`Follows`), and that the defaults are the `<signal>`s
  (`SignalsInv`). `InheritsFromNearest`, the README's stronger promise, is false
  of the code and has no theorem.

`WindowNotifyProofs` proves `TypeOK` and `NeverMixed` for any windows, titles
and number of calls under way. The property is about the last calls; `IInv` says
of the class (`ClassComes`) and of the title (`TitleComes`) that it is either
the one to come, or forgotten with no call under way that brings it, and that
only the active client is listened to (`Listening`).

`TranslationProofs` proves, for any keyboards and mice, configurations, windows
and lengths of the queue:
* `TypeOK`. That the writes are what they should be rests on `OutEventProofs`,
  which goes through every kind of output: `Send` writes only codes the output
  mentions, to virtual devices there are, and leaves an output of the same kind
  and code whose memory keeps its bounds (`SendFromFine`). Macros are
  concatenated by recursion (`FlattenSeqIn`).
* `PassThroughMirrors`. It says something only when everything is handled, so
  `WillMirror` looks ahead: `Handled` works out what a key will be once the
  writes under way, the batch and the queue are through. A press or release adds
  one event at the end of the queue (`OneMore`), `ReadBatch` cuts the queue in
  two (`InTwoParts`), the thread takes the first of the batch (`FirstOfThem`),
  and a write makes the key what the event says (`WritePassedKeeps`) or is of
  other keys (`WriteOursKeeps`).
* `AllReleased`, provided no output of any window presses something for good
  (`NothingSticks`): combos are of keys and macros release all they press. The
  code demands neither: a combo of an axis presses its modifiers and never
  releases them, and a macro ends as it was written. Nothing is assumed of
  uninitialised elements; the keys they were events of are in `stale`.
  `ReleaseInv` says that everything pressed, or to be pressed by the writes
  under way, is `Owed`: there is a key that is held, or whose release waits in
  the batch or the queue, and the first output this key triggers still frees it
  (`FreedBy`). `Balanced` says that no press waits without its release or the
  key being held. Translating an event is the hard step: what its output
  presses, its own key owes (`SendFromLeaves`), its release frees what was owed
  (`SendFromReleases`), and an output that is sent never forgets what it owes
  (`SendStillFrees`). Windows and rereads replace the outputs only at rest,
  where nothing is owed (`NothingOwed`), or the run is `disturbed`.
* `SimpleMirrors`, if also the keys of simple outputs share nothing
  (`NothingShared`): no other output of the window mentions such an output's
  key, no second input has the same key and no event is passed on as it. The
  code does not demand it: two outputs of one key release it for each other.
  That the virtual device has the key is not assumed: the theorem says of keys
  above the buttons that they are never pressed (`Pressable`). `MirrorInv` looks
  ahead as `WillMirror` does (`Comes`), over the writes of any output
  (`Afterwards`): the output's own event writes what the key does
  (`SimpleSends`), all others write nothing of it (`OthersUntouched`), and a
  write does neither more (`WriteOwes`) nor less (`WriteDoes`) than was to be
  expected. A new window starts with nothing pressed, which is where
  `ReleaseInv` is needed again.

The last two conditions are of the configuration alone, and the devices of
`Translation_devices` meet both.

The assumptions about a configuration are in `Translation` and evaluated by the
runs: one output per input (what `ConfigurationProofs` proves of the parser), a
mouse has no keys but buttons, what is not initialised is told apart from an
event (`JunkIsNoEvent`: it is the name of an array element, for which `Write`
puts in any event there is), and no output writes a key that is passed
through (`PassedKeysAreNotWritten`): otherwise the virtual device could not tell
who pressed it.

Only model-checked: liveness (`TermEndsDaemon`, `HupComesBack`,
`ReleasedInTheEnd`, `QueueIsServed`, `CallsEnd`, `SeesCurrentWindow`), which the
provers do not reach; and what the runs that expect a violation show, `OneHolder`
of `VirtualDevice` among it. Every safety property of the runs that pass is a
theorem, some under the conditions named here.

## 5. Plan

In order of importance:

1. The loading of the kernel module, with its failures.
2. The axismap and keymap, and absolute axes.

## 6. Not modelled

`printConfig` and `printWinInfo` print. D-Bus `sendRaw` writes one event.
`setUpKeymaps()`'s keymap and axismap give names to codes. Absolute axes are
scaled, in floating point, and passed on. The characters of XML, of output
definitions and of regular expressions. Loading the kernel module runs once, in
one thread. The setup scripts copy files. `XWatcher` is a stub in the code
(`CannotRun`).
