---------------------------- MODULE Configuration ----------------------------
(***************************************************************************)
(* From config.xml to the outputs of the handlers: the daemon reads the    *)
(* <handlers> and then the <windowConf> element by element, starts the     *)
(* handlers that pass the sanity check and gives all of them the outputs   *)
(* of the active window.  HUP starts over.                                 *)
(*                                                                         *)
(* The document is chosen as it is read.  An assignment in it is           *)
(* [how |-> "short", id, outs] for ID="&,&", outs in the order of the      *)
(* signals, or [how |-> "long", id, by] for <long id="ID">@=&</long>, the  *)
(* outputs by input.  Outputs and inputs are just names.                   *)
(***************************************************************************)
EXTENDS Integers, Sequences, FiniteSets, SequencesExt

CONSTANTS
    HandlerElements, \* possible children of <handlers>
    GroupElements,   \* possible <group>s: sequences of assignments
    WindowElements,  \* possible <window>s: [class, assigns, titles], where
                     \* titles are [regex, assign]; a <title> with several
                     \* assignments is as good as several titles
    Devices,         \* what /proc/bus/input/devices may list: [phys, vendor]
    Ids,             \* every id of a document, "" if there is none
    Windows,         \* what the active window can be: [class, title]
    FirstWindow,
    MaxHandlers,     \* bound: children of <handlers>
    MaxElements,     \* bound: <group>s and <window>s
    MaxDepth         \* bound: groups in groups

Tilde == "~"

\* What is read from the file is numbered from 1.
IsList(s) == Len(s) \in Nat /\ DOMAIN s = 1..Len(s)

\* addInput() appends to both the inputs and the outputs; only DevHandler
\* calls it.
ASSUME HandlersAssumption ==
    /\ IsFiniteSet(Devices)
    /\ \A e \in HandlerElements :
          /\ e.id \in Ids \cup {""}
          /\ e.inputs \in Seq(STRING) /\ e.defaults \in Seq(STRING)
          /\ Len(e.inputs) = Len(e.defaults)
          /\ e.tag # "device" => e.inputs = <<>>

IsAssignment(a) ==
    a.id \in Ids /\ (a.how = "long" \/ (a.how = "short" /\ IsList(a.outs)))

ASSUME DocumentAssumption ==
    /\ "" \notin Ids
    /\ \A g \in GroupElements : IsList(g) /\ \A i \in DOMAIN g : IsAssignment(g[i])
    /\ \A w \in WindowElements :
          /\ IsList(w.assigns) /\ \A i \in DOMAIN w.assigns : IsAssignment(w.assigns[i])
          /\ IsList(w.titles) /\ \A t \in DOMAIN w.titles : IsAssignment(w.titles[t].assign)

ASSUME BoundsAssumption == MaxHandlers \in Nat /\ MaxElements \in Nat /\ MaxDepth \in Nat

VARIABLES
    phase,        \* handlers, windows, running, exited or undefined
    handlers,     \* InputMangler::handlers; signals is history: the outputs of
                  \* the <signal>s
    byId,         \* ConfParser::handlersById: id -> inputs of that handler
    read,         \* how many children of <handlers> were read
    inputsForIds, \* the ids in sd.infoCache["inputsForIds"] ...
    cached,       \* ... once it is there
    ids,          \* ConfParser::ids
    wsets,        \* InputMangler::wsets
    scopes,       \* defaultOutputs and used of every open group
    known,        \* InputMangler::wm_class and wm_title
    started,      \* the handlers whose thread was started
    path,         \* history: the open groups
    doc           \* history: every <group> and <window>, with its groups

handlerVars == <<handlers, byId, read, inputsForIds, cached>>
parserVars  == <<ids, scopes, path, doc>>
vars == <<phase, handlerVars, wsets, parserVars, known, started>>

\* QMap::insert().
Insert(map, key, value) ==
    [k \in DOMAIN map \cup {key} |-> IF k = key THEN value ELSE map[k]]

NoClasses == [c \in {} |-> <<>>]
NoSettings == [def |-> <<>>, classes |-> NoClasses]
Nothing == [i \in {} |-> <<>>]

Init ==
    /\ phase = "handlers"
    /\ handlers = <<>> /\ byId = Nothing /\ read = 0
    /\ inputsForIds = {} /\ cached = FALSE
    /\ ids = {} /\ scopes = <<>>
    /\ wsets = [id \in Ids |-> NoSettings]
    /\ known = FirstWindow
    /\ started = {}
    /\ path = <<>> /\ doc = <<>>

-----------------------------------------------------------------------------
(* <handlers>.                                                             *)

\* DevHandler: _hasWindowSpecificSettings.
HasWindowSettings(h) == h.tag = "device" /\ h.id # ""

\* idevs::operator==; vendor stands for vendor and product.
Same(e, d) == e.phys = d.phys \/ e.vendor = d.vendor

\* parseXml() of the element's kind: a handler with the same signals for every
\* device that matches, or one that needs no device.
HandlersFor(e, plugged) ==
    [i \in 1..(IF e.tag = "net" THEN 1 ELSE Cardinality({d \in plugged : Same(e, d)})) |->
        [tag |-> e.tag, id |-> e.id, inputs |-> e.inputs, outputs |-> e.defaults,
         signals |-> e.defaults]]

\* One child of <handlers>.  The last one with an id is the one <long> uses.
ReadHandler(e) ==
    /\ phase = "handlers"
    /\ read < MaxHandlers
    /\ \E plugged \in SUBSET Devices :
         LET new == HandlersFor(e, plugged)
         IN  /\ handlers' = handlers \o new
             /\ byId' = IF new # <<>> /\ e.id # ""
                        THEN Insert(byId, e.id, e.inputs) ELSE byId
    /\ cached' = (cached \/ e.tag = "device")
    /\ inputsForIds' = IF e.tag = "device" /\ e.inputs # <<>>
                       THEN inputsForIds \cup {e.id} ELSE inputsForIds
    /\ read' = read + 1
    /\ UNCHANGED <<phase, wsets, parserVars, known, started>>

\* "no input Handlers loaded!": exit(1).
NoHandlers ==
    /\ phase = "handlers" /\ handlers = <<>>
    /\ phase' = "exited"
    /\ UNCHANGED <<handlerVars, wsets, parserVars, known, started>>

FirstOf(S) == CHOOSE i \in S : \A j \in S : i <= j
LastOf(S)  == CHOOSE i \in S : \A j \in S : j <= i

\* The outputs the handlers have now become the default of their id; of
\* several handlers with an id the last one counts.
WithId(id) == {i \in DOMAIN handlers : HasWindowSettings(handlers[i])
                                        /\ handlers[i].id = id}

BeginWindows ==
    /\ phase = "handlers" /\ handlers # <<>>
    /\ phase' = "windows"
    /\ ids' = {id \in Ids : WithId(id) # {}}
    /\ wsets' = [id \in Ids |->
                   IF id \in ids' THEN [wsets[id] EXCEPT
                                          !.def = handlers[LastOf(WithId(id))].outputs]
                                  ELSE wsets[id]]
    /\ scopes' = << [outputs |-> [id \in Ids |-> wsets'[id].def],
                     used |-> [id \in Ids |-> FALSE]] >>
    /\ UNCHANGED <<handlerVars, known, started, path, doc>>

-----------------------------------------------------------------------------
(* <windowConf>.                                                           *)

\* parseOutputsShort(): vec.size() + 1 is one further than what is meant.
Short(outs, parent) ==
    [i \in DOMAIN outs |-> IF outs[i] = Tilde THEN parent[i + 1] ELSE outs[i]]
ShortDefined(outs, parent) ==
    \A i \in DOMAIN outs : outs[i] = Tilde => i + 1 <= Len(parent)

\* parseOutputsLong(): getInputIndex() of each key; unknown keys are skipped.
IndexOf(id, key) == FirstOf({i \in DOMAIN byId[id] : byId[id][i] = key})
Assigned(id, by) == {key \in DOMAIN by : \E i \in DOMAIN byId[id] : byId[id][i] = key}
Long(id, by, parent) ==
    [i \in DOMAIN parent |->
        IF \E key \in Assigned(id, by) : IndexOf(id, key) = i
        THEN by[byId[id][i]] ELSE parent[i]]
\* Slip: the index of an unknown key is used, too.
LongDefinedUnchecked(id, by, parent) ==
    DOMAIN by # {} =>
    /\ id \in DOMAIN byId
    /\ \A key \in DOMAIN by : key \in Assigned(id, by) /\ IndexOf(id, key) <= Len(parent)

LongDefined(id, by, parent) ==
    DOMAIN by # {} =>
    /\ id \in DOMAIN byId
    /\ \A key \in Assigned(id, by) : IndexOf(id, key) <= Len(parent)

\* An assignment under outputs inherited for each id.  Short ones are only
\* looked for under the ids there are.
Outs(a, inherited) ==
    IF a.how = "short" THEN Short(a.outs, inherited[a.id])
                       ELSE Long(a.id, a.by, inherited[a.id])
Counts(a) == a.how = "long" \/ a.id \in ids
Defined(a, inherited) ==
    Counts(a) => IF a.how = "short" THEN ShortDefined(a.outs, inherited[a.id])
                                    ELSE LongDefined(a.id, a.by, inherited[a.id])

\* Of several assignments for an id the last one stands, alone.
Relevant(assigns, id) == {i \in DOMAIN assigns : assigns[i].id = id /\ Counts(assigns[i])}

Scope == scopes[Len(scopes)]

\* <group>: parseWindowSettings() goes on inside with copies of the outputs
\* and of the flags.
ReadGroup(g) ==
    /\ phase = "windows"
    /\ Len(doc) < MaxElements /\ Len(path) < MaxDepth
    /\ \A i \in DOMAIN g : Defined(g[i], Scope.outputs)
    /\ scopes' = Append(scopes,
         [outputs |-> [id \in Ids |->
              IF Relevant(g, id) = {} THEN Scope.outputs[id]
              ELSE Outs(g[LastOf(Relevant(g, id))], Scope.outputs)],
          used |-> [id \in Ids |-> Scope.used[id] \/ Relevant(g, id) # {}]])
    /\ path' = Append(path, g)
    /\ doc' = Append(doc, [kind |-> "group", path |-> path, assigns |-> g])
    /\ UNCHANGED <<phase, handlerVars, ids, wsets, known, started>>

\* Slip: the outputs of the group go on after its end.
EndGroupKeeping ==
    /\ phase = "windows" /\ path # <<>>
    /\ path' = Front(path)
    /\ UNCHANGED <<phase, handlerVars, ids, scopes, doc, wsets, known, started>>

EndGroup ==
    /\ phase = "windows" /\ path # <<>>
    /\ scopes' = Front(scopes)
    /\ path' = Front(path)
    /\ UNCHANGED <<phase, handlerVars, ids, doc, wsets, known, started>>

\* readWindowSettings(): the <title>s that assign something to the id, in
\* their order.  A short one has nothing to inherit from, a long one the
\* outputs of the group.
TitleParent(a) == IF a.how = "short" THEN [Scope.outputs EXCEPT ![a.id] = <<>>]
                                     ELSE Scope.outputs
TitleEntries(titles, id) ==
    [t \in {t \in DOMAIN titles : titles[t].assign.id = id} |->
        [regex |-> titles[t].regex,
         outs  |-> Outs(titles[t].assign, TitleParent(titles[t].assign))]]

\* A <long> for an id no handler has settings for finds no WindowSettings.
HasSettings(a) == a.how = "long" => a.id \in ids
WindowDefined(w) ==
    /\ cached
    /\ inputsForIds # {} =>
        /\ \A i \in DOMAIN w.assigns :
              HasSettings(w.assigns[i]) /\ Defined(w.assigns[i], Scope.outputs)
        /\ \A t \in DOMAIN w.titles :
              LET a == w.titles[t].assign
              IN  HasSettings(a) /\ Defined(a, TitleParent(a))

Mentions(w, id) ==
    \/ Relevant(w.assigns, id) # {}
    \/ \E t \in DOMAIN w.titles : w.titles[t].assign.id = id

\* Slip: a window with titles only is left without outputs.
SettingsBare(w, id) ==
    [def |-> IF Relevant(w.assigns, id) = {} THEN <<>>
             ELSE Outs(w.assigns[LastOf(Relevant(w.assigns, id))], Scope.outputs),
     titles |-> TitleEntries(w.titles, id)]

\* What a <window> says of an id; without outputs of its own it has the
\* group's.
Settings(w, id) ==
    [def |-> IF Relevant(w.assigns, id) = {} THEN Scope.outputs[id]
             ELSE Outs(w.assigns[LastOf(Relevant(w.assigns, id))], Scope.outputs),
     titles |-> TitleEntries(w.titles, id)]

Seen(w) == doc' = Append(doc, [kind |-> "window", path |-> path, class |-> w.class,
                               assigns |-> w.assigns, titles |-> w.titles])

\* <window>: what is assigned here or in a group around it replaces what
\* another <window> of the class said of that id.
ReadWindow(w) ==
    /\ phase = "windows"
    /\ Len(doc) < MaxElements
    /\ WindowDefined(w)
    /\ wsets' = [id \in Ids |->
          IF inputsForIds # {} /\ id \in ids /\ (Scope.used[id] \/ Mentions(w, id))
          THEN [wsets[id] EXCEPT !.classes = Insert(@, w.class, Settings(w, id))]
          ELSE wsets[id]]
    /\ Seen(w)
    /\ UNCHANGED <<phase, handlerVars, ids, scopes, path, known, started>>

\* An element that makes the parser read what is not there.
ReadBadGroup(g) ==
    /\ phase = "windows"
    /\ Len(doc) < MaxElements /\ Len(path) < MaxDepth
    /\ \E i \in DOMAIN g : ~Defined(g[i], Scope.outputs)
    /\ phase' = "undefined"
    /\ doc' = Append(doc, [kind |-> "group", path |-> path, assigns |-> g])
    /\ UNCHANGED <<handlerVars, ids, scopes, path, wsets, known, started>>

ReadBadWindow(w) ==
    /\ phase = "windows"
    /\ Len(doc) < MaxElements
    /\ ~WindowDefined(w)
    /\ phase' = "undefined"
    /\ Seen(w)
    /\ UNCHANGED <<handlerVars, ids, scopes, path, wsets, known, started>>

-----------------------------------------------------------------------------
(* The running daemon.                                                     *)

\* TransformationStructure::getOutputs(): the first title that matches.
GetOutputs(ts, w) ==
    IF w.class \notin DOMAIN ts.classes THEN ts.def
    ELSE LET s    == ts.classes[w.class]
             hits == {i \in DOMAIN s.titles : w.title \in s.titles[i].regex}
         IN  IF hits = {} THEN s.def
             ELSE s.titles[FirstOf(hits)].outs

\* Slip in SanityCheck: the outputs of titles are not looked at.
SanityCheckClasses(ts, n) ==
    /\ Len(ts.def) = n
    /\ \A c \in DOMAIN ts.classes : Len(ts.classes[c].def) = n

\* TransformationStructure::sanityCheck().
SanityCheck(ts, n) ==
    /\ Len(ts.def) = n
    /\ \A c \in DOMAIN ts.classes :
          /\ Len(ts.classes[c].def) = n
          /\ \A i \in DOMAIN ts.classes[c].titles : Len(ts.classes[c].titles[i].outs) = n

\* activeWindowChanged() and setOutputs().
ActiveWindowChanged(w) ==
    /\ known' = w
    /\ handlers' = [i \in DOMAIN handlers |->
          IF HasWindowSettings(handlers[i])
          THEN [handlers[i] EXCEPT !.outputs = GetOutputs(wsets[handlers[i].id], w)]
          ELSE handlers[i]]

\* The end of readConf(): the title is taken to be empty, and the handlers
\* that fit their outputs are started.
Start ==
    /\ phase = "windows" /\ path = <<>>
    /\ phase' = "running"
    /\ ActiveWindowChanged([class |-> known.class, title |-> ""])
    /\ started' = {i \in DOMAIN handlers :
          HasWindowSettings(handlers[i]) =>
             SanityCheck(wsets[handlers[i].id], Len(handlers[i].inputs))}
    /\ UNCHANGED <<byId, read, inputsForIds, cached, parserVars, wsets>>

\* The file cannot be parsed: no handler, and the daemon goes on.
Unreadable ==
    /\ phase = "handlers" /\ read = 0
    /\ phase' = "running"
    /\ known' = [class |-> known.class, title |-> ""]
    /\ UNCHANGED <<handlerVars, parserVars, wsets, started>>

ChangeWindow(w) ==
    /\ phase = "running"
    /\ ActiveWindowChanged(w)
    /\ UNCHANGED <<phase, byId, read, inputsForIds, cached, parserVars, wsets, started>>

\* Slip: the old windows are kept.
RereadKeeping ==
    /\ phase = "running"
    /\ phase' = "handlers"
    /\ handlers' = <<>> /\ byId' = Nothing /\ read' = 0
    /\ ids' = {} /\ scopes' = <<>>
    /\ started' = {}
    /\ path' = <<>> /\ doc' = <<>>
    /\ UNCHANGED <<inputsForIds, cached, known, wsets>>

\* reReadConfig(): cleanUp(), and a new ConfParser.
Reread ==
    /\ phase = "running"
    /\ phase' = "handlers"
    /\ handlers' = <<>> /\ byId' = Nothing /\ read' = 0
    /\ ids' = {} /\ scopes' = <<>>
    /\ wsets' = [id \in Ids |-> NoSettings]
    /\ started' = {}
    /\ path' = <<>> /\ doc' = <<>>
    /\ UNCHANGED <<inputsForIds, cached, known>>

-----------------------------------------------------------------------------
Parse ==
    \/ \E e \in HandlerElements : ReadHandler(e)
    \/ NoHandlers \/ Unreadable \/ BeginWindows
    \/ \E g \in GroupElements : ReadGroup(g) \/ ReadBadGroup(g)
    \/ EndGroup
    \/ \E w \in WindowElements : ReadWindow(w) \/ ReadBadWindow(w)
    \/ Start

Next == Parse \/ (\E w \in Windows : ChangeWindow(w)) \/ Reread

Spec == Init /\ [][Next]_vars

-----------------------------------------------------------------------------
(* Properties.                                                             *)

TypeOK ==
    /\ phase \in {"handlers", "windows", "running", "exited", "undefined"}
    /\ read \in 0..MaxHandlers
    /\ DOMAIN byId \subseteq {handlers[i].id : i \in DOMAIN handlers}
    /\ ids \subseteq Ids /\ cached \in BOOLEAN
    /\ DOMAIN wsets = Ids
    /\ phase = "windows" => Len(scopes) = Len(path) + 1
    /\ Len(doc) <= MaxElements /\ Len(path) <= MaxDepth
    /\ started \subseteq DOMAIN handlers

\* A thread indexes its outputs with the number of the input that matched
\* (devhandler.cpp:116): whatever the document says and whichever window
\* comes up, a started handler has as many outputs as inputs.
OutputsFit ==
    phase = "running" =>
        \A i \in started : Len(handlers[i].outputs) = Len(handlers[i].inputs)

\* What an element says of input p of an id: one output, or nothing; with a
\* "~" it asks for what the elements around it say.
Says(assigns, id, inputs, p) ==
    IF Relevant(assigns, id) = {} THEN {}
    ELSE LET a == assigns[LastOf(Relevant(assigns, id))]
         IN  IF a.how = "short"
             THEN {a.outs[q] : q \in DOMAIN a.outs \cap {p}} \ {Tilde}
             ELSE {a.by[key] : key \in DOMAIN a.by \cap {inputs[p]}}
Asks(assigns, id, p) ==
    /\ Relevant(assigns, id) # {}
    /\ LET a == assigns[LastOf(Relevant(assigns, id))]
       IN  a.how = "short" /\ p \in DOMAIN a.outs /\ a.outs[p] = Tilde

\* The <signal>s of an id: of several handlers the last one counts.
SignalsOf(id) == handlers[LastOf(WithId(id))].signals

\* The innermost element that says something of it, or the <signal>.
Nearest(levels, id, inputs, p) ==
    LET ks == {k \in DOMAIN levels : Says(levels[k], id, inputs, p) # {}}
    IN  IF ks = {} THEN SignalsOf(id)[p]
        ELSE CHOOSE o \in Says(levels[LastOf(ks)], id, inputs, p) : TRUE

\* An element inside of that one asks with a "~".
Tilded(levels, id, inputs, p) ==
    \E k \in DOMAIN levels :
        /\ Asks(levels[k], id, p)
        /\ \A j \in DOMAIN levels : Says(levels[j], id, inputs, p) # {} => j < k

\* Something in or around a <window> is about the id.
About(e, id) ==
    \/ e.kind = "window" /\ Mentions(e, id)
    \/ \E k \in DOMAIN e.path : Relevant(e.path[k], id) # {}

\* The last <window> of the class that is about the id, if there is one, and
\* in it the first <title> that matches and is about the id.
WindowFor(id, w) == {n \in DOMAIN doc :
                        doc[n].kind = "window" /\ doc[n].class = w.class /\ About(doc[n], id)}
TitlesFor(e, id, w) == {t \in DOMAIN e.titles :
                           w.title \in e.titles[t].regex /\ e.titles[t].assign.id = id}
HasLevels(id, w) == WindowFor(id, w) # {} /\ inputsForIds # {}
Inside(around, e, t) == IF t = {} THEN around
                        ELSE Append(around, << e.titles[FirstOf(t)].assign >>)

\* The elements around what is active, from the outermost group to the title;
\* and the same without the <window> around a title.
LevelsFor(id, w) ==
    IF ~HasLevels(id, w) THEN <<>>
    ELSE LET e == doc[LastOf(WindowFor(id, w))]
         IN  Inside(Append(e.path, e.assigns), e, TitlesFor(e, id, w))
LevelsPastWindow(id, w) ==
    IF ~HasLevels(id, w) THEN <<>>
    ELSE LET e == doc[LastOf(WindowFor(id, w))]
             t == TitlesFor(e, id, w)
         IN  Inside(IF t = {} THEN Append(e.path, e.assigns) ELSE e.path, e, t)

\* A started handler with outputs that depend on the window; no later handler
\* took its id.
Inheriting == {i \in started : HasWindowSettings(handlers[i])
                                /\ byId[handlers[i].id] = handlers[i].inputs}

\* README, OUT: "To inherit an output from the parent element, you can use '~'
\* in short notation. In long notation, just don't assign anything to that
\* particular key."  What a handler sends for the active window is, input by
\* input, what the innermost group, window or title around it says.  The
\* code breaks this in two ways, one for each notation: Config_tilde and
\* Config_titles.
InheritsFromNearest ==
    phase = "running" =>
        \A i \in Inheriting :
            LET h == handlers[i]
            IN  h.outputs = [p \in DOMAIN h.inputs |->
                                Nearest(LevelsFor(h.id, known), h.id, h.inputs, p)]

\* README, <group>: "Can be used to give certain defaults to a group of
\* windows."  What a handler sends for the active window is, input by input,
\* what the innermost element around it says, and nothing that another group,
\* window or title or an earlier configuration said.  Left open are the two
\* faults above: what a "~" inside of that element makes of it, and whether
\* a <title>, which with <long> may leave inputs out, inherits from the
\* <window> or only from the groups.
SendsTheInnermost ==
    phase = "running" =>
        \A i \in Inheriting :
            LET h == handlers[i]
            IN  \A p \in DOMAIN h.inputs :
                    \E levels \in {LevelsFor(h.id, known), LevelsPastWindow(h.id, known)} :
                        \/ Tilded(levels, h.id, h.inputs, p)
                        \/ h.outputs[p] = Nearest(levels, h.id, h.inputs, p)

\* Every assignment of the document.
Assignments ==
    UNION {LET e == doc[n]
           IN  ToSet(e.assigns) \cup (UNION {ToSet(e.path[k]) : k \in DOMAIN e.path})
               \cup IF e.kind = "group" THEN {}
                    ELSE {e.titles[t].assign : t \in DOMAIN e.titles}
           : n \in DOMAIN doc}

\* Handlers that share an id have different numbers of inputs, or a short
\* assignment "has [not] the exact number of fields" (README, <window>).
Misfit(id) ==
    \/ \E i, j \in WithId(id) : Len(handlers[i].inputs) # Len(handlers[j].inputs)
    \/ \E a \in Assignments, i \in WithId(id) :
          a.id = id /\ a.how = "short" /\ Len(a.outs) # Len(handlers[i].inputs)

\* The sanity check refuses nothing that is right: a device without a thread
\* has an assignment with too many or too few fields.
OnlyMisfitsAreIdle ==
    phase = "running" =>
        \A i \in DOMAIN handlers \ started : Misfit(handlers[i].id)

\* The assignments of the titles.
TitleAssignments ==
    UNION {{doc[n].titles[t].assign : t \in DOMAIN doc[n].titles}
           : n \in {n \in DOMAIN doc : doc[n].kind = "window"}}

\* It builds on what is inherited.
Inherits(a) == a.how = "long" \/ \E i \in DOMAIN a.outs : a.outs[i] = Tilde

\* The parser reads what is not there only where an assignment that inherits
\* is for an id that no device has or a misfit, where a "~" is the last field
\* or in a <title> (the index of ConfParser.cpp:224 and the key of :187), or
\* where there is a <window> although no <device> was ever read.
UndefinedOnlyIfFlawed ==
    phase = "undefined" =>
        \/ ~cached
        \/ \E a \in Assignments : Inherits(a) /\
              \/ a.how = "long" /\ a.id \notin ids
              \/ Misfit(a.id)
              \/ a.how = "short" /\ (a.outs[Len(a.outs)] = Tilde \/ a \in TitleAssignments)
=============================================================================
