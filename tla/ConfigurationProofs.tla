------------------------ MODULE ConfigurationProofs ------------------------
(***************************************************************************)
(* What holds of the outputs for every document, every set of devices and  *)
(* every change of the window.                                             *)
(*                                                                         *)
(*  - OutputsAlwaysFit: a started handler has as many outputs as inputs,   *)
(*    as the sanity check looks at everything getOutputs() can return.     *)
(*  - TypesThm: the variables of the parser have their types.              *)
(*  - OnlyMisfitsThm: the sanity check refuses nothing that is right.      *)
(*  - FlawedThm: only a flawed document is undefined.                      *)
(*  - InnermostThm: the innermost element around the active window         *)
(*    decides, input by input, but for "~" and for the <window> around a   *)
(*    <title>.                                                             *)
(***************************************************************************)
EXTENDS Configuration, LeastNumber

\* The handlers as parseXml() leaves them.
Fresh == {[tag |-> e.tag, id |-> e.id, inputs |-> e.inputs, outputs |-> e.defaults,
           signals |-> e.defaults] : e \in HandlerElements}

\* The titles of a class are numbered.
Numbered(settings) == \E n \in Nat : DOMAIN settings.titles \subseteq 0..n

WsetsInv ==
    /\ DOMAIN wsets = Ids
    /\ wsets = [id \in Ids |-> [def |-> wsets[id].def, classes |-> wsets[id].classes]]
    /\ \A id \in Ids : \A c \in DOMAIN wsets[id].classes :
          Numbered(wsets[id].classes[c])

\* Records of these fields; the outputs that are never set fit.
WellFormed(hs) ==
    /\ hs = [i \in DOMAIN hs |-> [tag |-> hs[i].tag, id |-> hs[i].id,
                                  inputs |-> hs[i].inputs, outputs |-> hs[i].outputs,
                                  signals |-> hs[i].signals]]
    /\ \A i \in DOMAIN hs :
          /\ hs[i].id \in Ids \cup {""}
          /\ ~HasWindowSettings(hs[i]) => Len(hs[i].outputs) = Len(hs[i].inputs)

HandlersInv == WellFormed(handlers)

StartedInv ==
    phase = "running" =>
        /\ started \subseteq DOMAIN handlers
        /\ \A i \in started : HasWindowSettings(handlers[i]) =>
              /\ SanityCheck(wsets[handlers[i].id], Len(handlers[i].inputs))
              /\ Len(handlers[i].outputs) = Len(handlers[i].inputs)

\* Strengthens OutputsFit until it is inductive.
IInv ==
    /\ WsetsInv
    /\ HandlersInv
    /\ phase \in {"handlers", "windows"} => handlers \in Seq(Fresh)
    /\ phase = "handlers" => started = {}
    /\ StartedInv

-----------------------------------------------------------------------------
\* FirstOf() of some numbers is one of them.
LEMMA FirstOfIsOne ==
    ASSUME NEW n \in Nat, NEW S \in SUBSET (0..n), S # {}
    PROVE  FirstOf(S) \in S
<1>1. \E i \in S : \A j \in S : i <= j
  BY Smallest
<1> QED BY <1>1 DEF FirstOf

\* getOutputs() returns nothing the sanity check did not look at.
LEMMA CheckedOutputsFit ==
    ASSUME NEW ts, NEW n, NEW w, SanityCheck(ts, n),
           \A c \in DOMAIN ts.classes : Numbered(ts.classes[c])
    PROVE  Len(GetOutputs(ts, w)) = n
<1>1. CASE w.class \notin DOMAIN ts.classes
  BY <1>1 DEF GetOutputs, SanityCheck
<1>2. CASE w.class \in DOMAIN ts.classes
  <2> DEFINE s    == ts.classes[w.class]
             hits == {i \in DOMAIN s.titles : w.title \in s.titles[i].regex}
  <2>1. Len(s.def) = n /\ \A i \in DOMAIN s.titles : Len(s.titles[i].outs) = n
    BY <1>2 DEF SanityCheck
  <2>2. GetOutputs(ts, w) = IF hits = {} THEN s.def ELSE s.titles[FirstOf(hits)].outs
    BY <1>2 DEF GetOutputs
  <2>3. hits # {} => FirstOf(hits) \in DOMAIN s.titles
    <3>1. PICK m \in Nat : DOMAIN s.titles \subseteq 0..m
      BY <1>2 DEF Numbered
    <3>2. hits \in SUBSET (0..m)
      BY <3>1
    <3>3. ASSUME hits # {} PROVE FirstOf(hits) \in hits
      <4> HIDE DEF hits
      <4> QED BY <3>2, <3>3, FirstOfIsOne
    <3> QED BY <3>3
  <2> HIDE DEF s, hits
  <2> QED BY <2>1, <2>2, <2>3
<1> QED BY <1>1, <1>2

-----------------------------------------------------------------------------
\* What parseXml() gives is well-formed.
LEMMA FreshHandlers ==
    ASSUME NEW hs \in Seq(Fresh)
    PROVE  WellFormed(hs)
<1>1. \A i \in DOMAIN hs : hs[i] \in Fresh
  OBVIOUS
<1>2. hs = [i \in DOMAIN hs |-> hs[i]]
  OBVIOUS
<1>3. ASSUME NEW i \in DOMAIN hs
      PROVE  /\ hs[i] = [tag |-> hs[i].tag, id |-> hs[i].id,
                               inputs |-> hs[i].inputs,
                               outputs |-> hs[i].outputs, signals |-> hs[i].signals]
             /\ hs[i].id \in Ids \cup {""}
             /\ Len(hs[i].outputs) = Len(hs[i].inputs)
  <2>1. PICK e \in HandlerElements :
          hs[i] = [tag |-> e.tag, id |-> e.id, inputs |-> e.inputs,
                         outputs |-> e.defaults, signals |-> e.defaults]
    BY <1>1 DEF Fresh
  <2>2. e.id \in Ids \cup {""} /\ Len(e.inputs) = Len(e.defaults)
    BY HandlersAssumption
  <2>3. /\ hs[i].tag = e.tag /\ hs[i].id = e.id
        /\ hs[i].inputs = e.inputs /\ hs[i].outputs = e.defaults
        /\ hs[i].signals = e.defaults
    BY <2>1
  <2>4. hs[i] = [tag |-> hs[i].tag, id |-> hs[i].id,
                       inputs |-> hs[i].inputs, outputs |-> hs[i].outputs,
                       signals |-> hs[i].signals]
    BY <2>1, <2>3
  <2> QED BY <2>2, <2>3, <2>4
<1> QED BY <1>2, <1>3 DEF WellFormed

\* HandlersFor() gives handlers as parseXml() does.
LEMMA NewHandlers ==
    ASSUME NEW e \in HandlerElements, NEW plugged \in SUBSET Devices
    PROVE  HandlersFor(e, plugged) \in Seq(Fresh)
<1> DEFINE matching == {d \in plugged : Same(e, d)}
           n == IF e.tag = "net" THEN 1 ELSE Cardinality(matching)
<1>1. IsFiniteSet(matching)
  BY HandlersAssumption, FS_Subset
<1>2. n \in Nat
  BY <1>1, FS_CardinalityType
<1>3. [tag |-> e.tag, id |-> e.id, inputs |-> e.inputs, outputs |-> e.defaults,
       signals |-> e.defaults] \in Fresh
  BY DEF Fresh
<1>4. HandlersFor(e, plugged) =
        [i \in 1..n |->
          [tag |-> e.tag, id |-> e.id, inputs |-> e.inputs, outputs |-> e.defaults,
           signals |-> e.defaults]]
  BY DEF HandlersFor
<1> HIDE DEF n
<1> QED BY <1>2, <1>3, <1>4

LEMMA InitIInv == Init => IInv
<1> SUFFICES ASSUME Init PROVE IInv
  OBVIOUS
<1> USE DEF Init
<1>1. WsetsInv
  BY DEF WsetsInv, NoSettings, NoClasses
<1>2. handlers \in Seq(Fresh)
  OBVIOUS
<1> QED BY <1>1, <1>2, FreshHandlers DEF IInv, StartedInv, HandlersInv

\* activeWindowChanged() keeps what the handlers are and lets the checked
\* ones have outputs that fit.
LEMMA WindowKeepsHandlers ==
    ASSUME NEW w, ActiveWindowChanged(w), HandlersInv, WsetsInv
    PROVE  /\ HandlersInv'
           /\ DOMAIN handlers' = DOMAIN handlers
           /\ \A i \in DOMAIN handlers :
                 /\ handlers'[i].id = handlers[i].id
                 /\ handlers'[i].inputs = handlers[i].inputs
                 /\ handlers'[i].signals = handlers[i].signals
                 /\ HasWindowSettings(handlers[i])' <=> HasWindowSettings(handlers[i])
                 /\ HasWindowSettings(handlers[i])
                       /\ SanityCheck(wsets[handlers[i].id], Len(handlers[i].inputs))
                    => Len(handlers'[i].outputs) = Len(handlers[i].inputs)
<1> DEFINE outs == [i \in DOMAIN handlers |-> GetOutputs(wsets[handlers[i].id], w)]
           set  == {i \in DOMAIN handlers : HasWindowSettings(handlers[i])}
<1>1. handlers' = [i \in DOMAIN handlers |->
          IF i \in set THEN [handlers[i] EXCEPT !.outputs = outs[i]] ELSE handlers[i]]
  BY DEF ActiveWindowChanged
<1>2. \A i \in DOMAIN handlers : HasWindowSettings(handlers[i]) <=> i \in set
  OBVIOUS
<1>3. ASSUME NEW i \in set, SanityCheck(wsets[handlers[i].id], Len(handlers[i].inputs))
      PROVE  Len(outs[i]) = Len(handlers[i].inputs)
  <2>1. i \in DOMAIN handlers /\ handlers[i].id \in Ids
    BY DEF HandlersInv, WellFormed, HasWindowSettings
  <2>2. \A c \in DOMAIN wsets[handlers[i].id].classes :
            Numbered(wsets[handlers[i].id].classes[c])
    BY <2>1 DEF WsetsInv
  <2>3. Len(GetOutputs(wsets[handlers[i].id], w)) = Len(handlers[i].inputs)
    BY <1>3, <2>2, CheckedOutputsFit
  <2> QED BY <2>1, <2>3
<1> HIDE DEF outs, set
<1>4. ASSUME NEW i \in DOMAIN handlers
      PROVE  handlers'[i] = [tag |-> handlers[i].tag, id |-> handlers[i].id,
                             inputs |-> handlers[i].inputs,
                             outputs |-> IF i \in set THEN outs[i] ELSE handlers[i].outputs,
                             signals |-> handlers[i].signals]
  <2>1. handlers[i] = [tag |-> handlers[i].tag, id |-> handlers[i].id,
                       inputs |-> handlers[i].inputs, outputs |-> handlers[i].outputs,
                       signals |-> handlers[i].signals]
    BY DEF HandlersInv, WellFormed
  <2>2. CASE i \in set
    <3>1. handlers'[i] = [handlers[i] EXCEPT !.outputs = outs[i]]
      BY <1>1, <2>2
    <3> QED BY <2>1, <2>2, <3>1
  <2>3. CASE i \notin set
    BY <1>1, <2>1, <2>3
  <2> QED BY <2>2, <2>3
<1>5. DOMAIN handlers' = DOMAIN handlers /\ handlers' = [i \in DOMAIN handlers' |-> handlers'[i]]
  BY <1>1
<1>6. ASSUME NEW i \in DOMAIN handlers
      PROVE  /\ handlers'[i].tag = handlers[i].tag
             /\ handlers'[i].id = handlers[i].id
             /\ handlers'[i].inputs = handlers[i].inputs
             /\ handlers'[i].signals = handlers[i].signals
             /\ handlers'[i].outputs = IF i \in set THEN outs[i] ELSE handlers[i].outputs
             /\ handlers'[i] = [tag |-> handlers'[i].tag, id |-> handlers'[i].id,
                                inputs |-> handlers'[i].inputs,
                                outputs |-> handlers'[i].outputs,
                                signals |-> handlers'[i].signals]
  <2>1. handlers'[i] = [tag |-> handlers[i].tag, id |-> handlers[i].id,
                        inputs |-> handlers[i].inputs,
                        outputs |-> IF i \in set THEN outs[i] ELSE handlers[i].outputs,
                        signals |-> handlers[i].signals]
    BY <1>4
  <2>2. /\ handlers'[i].tag = handlers[i].tag
        /\ handlers'[i].id = handlers[i].id
        /\ handlers'[i].inputs = handlers[i].inputs
        /\ handlers'[i].signals = handlers[i].signals
        /\ handlers'[i].outputs = IF i \in set THEN outs[i] ELSE handlers[i].outputs
    BY <2>1
  <2> QED BY <2>1, <2>2
<1>7. ASSUME NEW i \in DOMAIN handlers
      PROVE  HasWindowSettings(handlers[i])' <=> HasWindowSettings(handlers[i])
  BY <1>6 DEF HasWindowSettings
<1>8. HandlersInv'
  <2>1. ASSUME NEW i \in DOMAIN handlers, ~HasWindowSettings(handlers[i])'
        PROVE  Len(handlers'[i].outputs) = Len(handlers'[i].inputs)
    <3>1. ~HasWindowSettings(handlers[i])
      BY <1>7, <2>1
    <3>2. i \notin set
      BY <1>2, <3>1
    <3>3. Len(handlers[i].outputs) = Len(handlers[i].inputs)
      BY <3>1 DEF HandlersInv, WellFormed
    <3> QED BY <1>6, <3>2, <3>3
  <2>2. ASSUME NEW i \in DOMAIN handlers
        PROVE  handlers'[i].id \in Ids \cup {""}
    BY <1>6 DEF HandlersInv, WellFormed
  <2>3. handlers' = [i \in DOMAIN handlers' |->
            [tag |-> handlers'[i].tag, id |-> handlers'[i].id,
             inputs |-> handlers'[i].inputs, outputs |-> handlers'[i].outputs,
             signals |-> handlers'[i].signals]]
    BY <1>5, <1>6
  <2> QED BY <1>5, <2>1, <2>2, <2>3 DEF HandlersInv, WellFormed
<1>9. ASSUME NEW i \in DOMAIN handlers, HasWindowSettings(handlers[i]),
             SanityCheck(wsets[handlers[i].id], Len(handlers[i].inputs))
      PROVE  Len(handlers'[i].outputs) = Len(handlers[i].inputs)
  <2>1. i \in set
    BY <1>2, <1>9
  <2> QED BY <1>3, <1>6, <1>9, <2>1
<1> QED BY <1>5, <1>6, <1>7, <1>8, <1>9

-----------------------------------------------------------------------------
(* One lemma per action that changes what IInv is about.                   *)

LEMMA ReadHandlerKeepsIInv ==
    ASSUME IInv, NEW e \in HandlerElements, ReadHandler(e)
    PROVE  IInv'
<1>1. phase = "handlers" /\ phase' = "handlers" /\ wsets' = wsets /\ started' = {}
  BY DEF ReadHandler, IInv
<1>2. PICK plugged \in SUBSET Devices : handlers' = handlers \o HandlersFor(e, plugged)
  BY DEF ReadHandler
<1>3. handlers' \in Seq(Fresh)
  <2>1. handlers \in Seq(Fresh)
    BY <1>1 DEF IInv
  <2>2. HandlersFor(e, plugged) \in Seq(Fresh)
    BY NewHandlers
  <2> QED BY <1>2, <2>1, <2>2
<1>4. HandlersInv'
  BY <1>3, FreshHandlers DEF HandlersInv
<1>5. WsetsInv'
  BY <1>1 DEF IInv, WsetsInv, Numbered
<1> QED BY <1>1, <1>3, <1>4, <1>5 DEF IInv, StartedInv

LEMMA BeginWindowsKeepsIInv ==
    ASSUME IInv, BeginWindows
    PROVE  IInv'
<1> USE DEF BeginWindows
<1>1. /\ phase = "handlers" /\ phase' = "windows"
      /\ handlers' = handlers /\ handlers \in Seq(Fresh)
  BY DEF IInv, handlerVars
<1>2. HandlersInv'
  BY <1>1 DEF IInv, HandlersInv, WellFormed, HasWindowSettings
<1>3. WsetsInv'
  <2>1. DOMAIN wsets' = Ids
    OBVIOUS
  <2>2. ASSUME NEW id \in Ids
        PROVE  /\ wsets'[id] = [def |-> wsets'[id].def, classes |-> wsets'[id].classes]
               /\ wsets'[id].classes = wsets[id].classes
    <3>1. wsets[id] = [def |-> wsets[id].def, classes |-> wsets[id].classes]
      BY DEF IInv, WsetsInv
    <3>2. PICK d : wsets'[id] = [wsets[id] EXCEPT !.def = d] \/ wsets'[id] = wsets[id]
      OBVIOUS
    <3>3. CASE wsets'[id] = [wsets[id] EXCEPT !.def = d]
      BY <3>1, <3>3
    <3> QED BY <3>1, <3>2, <3>3
  <2>3. wsets' = [id \in Ids |-> [def |-> wsets'[id].def, classes |-> wsets'[id].classes]]
    <3>1. wsets' = [id \in Ids |-> wsets'[id]]
      OBVIOUS
    <3> QED BY <2>2, <3>1
  <2> QED BY <2>1, <2>2, <2>3 DEF IInv, WsetsInv, Numbered
<1> QED BY <1>1, <1>2, <1>3 DEF IInv, StartedInv

LEMMA ReadWindowKeepsIInv ==
    ASSUME IInv, NEW w \in WindowElements, ReadWindow(w)
    PROVE  IInv'
<1> USE DEF ReadWindow
<1>1. /\ phase = "windows" /\ phase' = "windows" /\ handlers' = handlers
      /\ handlers \in Seq(Fresh)
  BY DEF IInv, handlerVars
<1>2. HandlersInv'
  BY <1>1 DEF IInv, HandlersInv, WellFormed, HasWindowSettings
<1>3. ASSUME NEW id \in Ids
      PROVE  Numbered(Settings(w, id))
  <2>1. DOMAIN Settings(w, id).titles \subseteq DOMAIN w.titles
    BY DEF Settings, TitleEntries
  <2>2. Len(w.titles) \in Nat /\ DOMAIN w.titles \subseteq 0..Len(w.titles)
    <3>1. IsList(w.titles)
      BY DocumentAssumption
    <3> QED BY <3>1 DEF IsList
  <2> QED BY <2>1, <2>2 DEF Numbered
<1>4. WsetsInv'
  <2> DEFINE set(id) == /\ inputsForIds # {} /\ id \in ids
                        /\ Scope.used[id] \/ Mentions(w, id)
  <2>1. wsets' = [id \in Ids |-> IF set(id)
            THEN [wsets[id] EXCEPT !.classes = Insert(@, w.class, Settings(w, id))]
            ELSE wsets[id]]
    OBVIOUS
  <2> HIDE DEF set
  <2>2. ASSUME NEW id \in Ids
        PROVE  /\ wsets'[id] = [def |-> wsets'[id].def, classes |-> wsets'[id].classes]
               /\ \A c \in DOMAIN wsets'[id].classes : Numbered(wsets'[id].classes[c])
    <3> DEFINE new == Insert(wsets[id].classes, w.class, Settings(w, id))
    <3>1. /\ wsets[id] = [def |-> wsets[id].def, classes |-> wsets[id].classes]
          /\ \A c \in DOMAIN wsets[id].classes : Numbered(wsets[id].classes[c])
      BY DEF IInv, WsetsInv
    <3>2. \A c \in DOMAIN new : Numbered(new[c])
      <4>1. DOMAIN new = {w.class} \cup DOMAIN wsets[id].classes
        BY DEF Insert
      <4>2. ASSUME NEW c \in DOMAIN new
            PROVE  new[c] = IF c = w.class THEN Settings(w, id)
                            ELSE wsets[id].classes[c]
        BY DEF Insert
      <4> HIDE DEF new
      <4> QED BY <1>3, <3>1, <4>1, <4>2
    <3>3. CASE set(id)
      <4>1. wsets'[id] = [wsets[id] EXCEPT !.classes = new]
        BY <2>1, <3>3
      <4> HIDE DEF new
      <4>2. wsets'[id] = [def |-> wsets[id].def, classes |-> new]
        BY <3>1, <4>1
      <4> QED BY <3>2, <4>2
    <3>4. CASE ~set(id)
      BY <2>1, <3>1, <3>4
    <3> QED BY <3>3, <3>4
  <2>3. DOMAIN wsets' = Ids /\ wsets' = [id \in Ids |-> wsets'[id]]
    BY <2>1
  <2>4. wsets' = [id \in Ids |-> [def |-> wsets'[id].def, classes |-> wsets'[id].classes]]
    BY <2>2, <2>3
  <2> QED BY <2>2, <2>3, <2>4 DEF WsetsInv
<1> QED BY <1>1, <1>2, <1>4 DEF IInv, StartedInv

LEMMA StartKeepsIInv ==
    ASSUME IInv, Start
    PROVE  IInv'
<1> USE DEF Start
<1>1. wsets' = wsets /\ phase' = "running"
  OBVIOUS
<1>2. WsetsInv'
  BY <1>1 DEF IInv, WsetsInv, Numbered
<1>3. /\ HandlersInv'
      /\ DOMAIN handlers' = DOMAIN handlers
      /\ \A i \in DOMAIN handlers :
            /\ handlers'[i].id = handlers[i].id
            /\ handlers'[i].inputs = handlers[i].inputs
            /\ HasWindowSettings(handlers[i])' <=> HasWindowSettings(handlers[i])
            /\ HasWindowSettings(handlers[i])
                  /\ SanityCheck(wsets[handlers[i].id], Len(handlers[i].inputs))
               => Len(handlers'[i].outputs) = Len(handlers[i].inputs)
  BY WindowKeepsHandlers DEF IInv
<1>4. started' = {i \in DOMAIN handlers : HasWindowSettings(handlers[i]) =>
                    SanityCheck(wsets[handlers[i].id], Len(handlers[i].inputs))}
  OBVIOUS
<1>5. ASSUME NEW i \in started', HasWindowSettings(handlers[i])'
      PROVE  /\ SanityCheck(wsets[handlers[i].id], Len(handlers[i].inputs))'
             /\ Len(handlers'[i].outputs) = Len(handlers'[i].inputs)
  <2>1. i \in DOMAIN handlers
    BY <1>4
  <2>2. HasWindowSettings(handlers[i])
    BY <1>3, <1>5, <2>1
  <2>3. SanityCheck(wsets[handlers[i].id], Len(handlers[i].inputs))
    BY <1>4, <2>1, <2>2
  <2> QED BY <1>1, <1>3, <2>1, <2>2, <2>3 DEF SanityCheck
<1> QED BY <1>1, <1>2, <1>3, <1>4, <1>5 DEF IInv, StartedInv

LEMMA ChangeWindowKeepsIInv ==
    ASSUME IInv, NEW w, ChangeWindow(w)
    PROVE  IInv'
<1> USE DEF ChangeWindow
<1>1. wsets' = wsets /\ phase = "running" /\ phase' = "running" /\ started' = started
  OBVIOUS
<1>2. WsetsInv'
  BY <1>1 DEF IInv, WsetsInv, Numbered
<1>3. /\ HandlersInv'
      /\ DOMAIN handlers' = DOMAIN handlers
      /\ \A i \in DOMAIN handlers :
            /\ handlers'[i].id = handlers[i].id
            /\ handlers'[i].inputs = handlers[i].inputs
            /\ HasWindowSettings(handlers[i])' <=> HasWindowSettings(handlers[i])
            /\ HasWindowSettings(handlers[i])
                  /\ SanityCheck(wsets[handlers[i].id], Len(handlers[i].inputs))
               => Len(handlers'[i].outputs) = Len(handlers[i].inputs)
  BY WindowKeepsHandlers DEF IInv
<1>4. ASSUME NEW i \in started', HasWindowSettings(handlers[i])'
      PROVE  /\ SanityCheck(wsets[handlers[i].id], Len(handlers[i].inputs))'
             /\ Len(handlers'[i].outputs) = Len(handlers'[i].inputs)
  <2>1. i \in started /\ i \in DOMAIN handlers
    BY <1>1 DEF IInv, StartedInv
  <2>2. HasWindowSettings(handlers[i])
    BY <1>3, <1>4, <2>1
  <2>3. SanityCheck(wsets[handlers[i].id], Len(handlers[i].inputs))
    BY <1>1, <2>1, <2>2 DEF IInv, StartedInv
  <2> QED BY <1>1, <1>3, <2>1, <2>2, <2>3 DEF SanityCheck
<1> QED BY <1>1, <1>2, <1>3, <1>4 DEF IInv, StartedInv

LEMMA RereadKeepsIInv ==
    ASSUME IInv, Reread
    PROVE  IInv'
<1> USE DEF Reread
<1>1. WsetsInv'
  BY DEF WsetsInv, NoSettings, NoClasses
<1>2. HandlersInv'
  BY DEF HandlersInv, WellFormed
<1> QED BY <1>1, <1>2 DEF IInv, StartedInv

\* The steps that touch neither the handlers nor the settings.
LEMMA OthersKeepIInv ==
    ASSUME IInv, UNCHANGED <<handlers, wsets, started>>,
           \/ phase = "windows" /\ phase' = "windows"
           \/ phase' \in {"exited", "undefined"}
           \/ phase = "handlers" /\ phase' = "running"
           \/ phase' = phase
    PROVE  IInv'
<1>1. WsetsInv' /\ HandlersInv'
  BY DEF IInv, WsetsInv, Numbered, HandlersInv, WellFormed, HasWindowSettings
<1>2. StartedInv'
  BY DEF IInv, StartedInv, SanityCheck, HasWindowSettings
<1> QED BY <1>1, <1>2 DEF IInv

LEMMA NextIInv == IInv /\ [Next]_vars => IInv'
<1> SUFFICES ASSUME IInv, [Next]_vars PROVE IInv'
  OBVIOUS
<1>1. CASE \E e \in HandlerElements : ReadHandler(e)
  BY <1>1, ReadHandlerKeepsIInv
<1>2. CASE NoHandlers
  BY <1>2, OthersKeepIInv DEF NoHandlers, handlerVars
<1>3. CASE Unreadable
  BY <1>3, OthersKeepIInv DEF Unreadable, handlerVars
<1>4. CASE BeginWindows
  BY <1>4, BeginWindowsKeepsIInv
<1>5. CASE \E g \in GroupElements : ReadGroup(g) \/ ReadBadGroup(g)
  BY <1>5, OthersKeepIInv DEF ReadGroup, ReadBadGroup, handlerVars
<1>6. CASE EndGroup
  BY <1>6, OthersKeepIInv DEF EndGroup, handlerVars
<1>7. CASE \E w \in WindowElements : ReadWindow(w)
  BY <1>7, ReadWindowKeepsIInv
<1>8. CASE \E w \in WindowElements : ReadBadWindow(w)
  BY <1>8, OthersKeepIInv DEF ReadBadWindow, handlerVars
<1>9. CASE Start
  BY <1>9, StartKeepsIInv
<1>10. CASE \E w \in Windows : ChangeWindow(w)
  BY <1>10, ChangeWindowKeepsIInv
<1>11. CASE Reread
  BY <1>11, RereadKeepsIInv
<1>12. CASE UNCHANGED vars
  BY <1>12, OthersKeepIInv DEF vars, handlerVars
<1> QED
  BY <1>1, <1>2, <1>3, <1>4, <1>5, <1>6, <1>7, <1>8, <1>9, <1>10, <1>11, <1>12
  DEF Next, Parse

LEMMA IInvOutputsFit == IInv => OutputsFit
<1> SUFFICES ASSUME IInv, phase = "running", NEW i \in started
             PROVE  Len(handlers[i].outputs) = Len(handlers[i].inputs)
  BY DEF OutputsFit
<1>1. i \in DOMAIN handlers
  BY DEF IInv, StartedInv
<1>2. CASE HasWindowSettings(handlers[i])
  BY <1>2 DEF IInv, StartedInv
<1>3. CASE ~HasWindowSettings(handlers[i])
  BY <1>1, <1>3 DEF IInv, HandlersInv, WellFormed
<1> QED BY <1>2, <1>3

\* Whatever the document, the devices and the windows: the thread of a
\* started handler finds an output for every input.
THEOREM OutputsAlwaysFit == Spec => []OutputsFit
<1>1. Init => IInv
  BY InitIInv
<1>2. IInv /\ [Next]_vars => IInv'
  BY NextIInv
<1>3. IInv => OutputsFit
  BY IInvOutputsFit
<1> QED BY <1>1, <1>2, <1>3, PTL DEF Spec

-----------------------------------------------------------------------------
(* Lists and what they say.                                                *)

\* A list of its own, as every list of outputs is.
Listed(s) == Len(s) \in Nat /\ s = [i \in 1..Len(s) |-> s[i]]

\* What is numbered from 1 to n is a list of n.
LEMMA ListOf ==
    ASSUME NEW n \in Nat, NEW s, s = [i \in 1..n |-> s[i]]
    PROVE  Len(s) = n /\ Listed(s)
<1> DEFINE R == {s[i] : i \in 1..n}
<1>1. \A i \in 1..n : s[i] \in R
  OBVIOUS
<1>2. s \in [1..n -> R]
  <2> HIDE DEF R
  <2> QED BY <1>1
<1>3. s \in Seq(R) /\ Len(s) = n
  <2> HIDE DEF R
  <2> QED BY <1>2
<1> QED BY <1>3 DEF Listed

\* A sequence is such a list.
LEMMA SeqIsListed ==
    ASSUME NEW S, NEW s \in Seq(S)
    PROVE  Listed(s) /\ IsList(s)
BY DEF Listed, IsList

\* LastOf() of some numbers is one of them, and no other is later.
LEMMA LastOfIsOne ==
    ASSUME NEW n \in Nat, NEW S \in SUBSET (0..n), S # {}
    PROVE  LastOf(S) \in S /\ \A j \in S : j <= LastOf(S)
<1>1. \E i \in S : \A j \in S : j <= i
  BY Largest
<1> QED BY <1>1 DEF LastOf

\* The latest of them is LastOf().
LEMMA LastOfUnique ==
    ASSUME NEW n \in Nat, NEW S \in SUBSET (0..n), NEW m \in S, \A j \in S : j <= m
    PROVE  LastOf(S) = m
<1>1. LastOf(S) \in S /\ \A j \in S : j <= LastOf(S)
  BY LastOfIsOne
<1>2. LastOf(S) <= m /\ m <= LastOf(S) /\ m \in 0..n /\ LastOf(S) \in 0..n
  BY <1>1
<1> HIDE DEF LastOf
<1> QED BY <1>2

\* FirstOf() of some numbers is none but the first.
LEMMA FirstOfUnique ==
    ASSUME NEW n \in Nat, NEW S \in SUBSET (0..n), NEW m \in S, \A j \in S : m <= j
    PROVE  FirstOf(S) = m
<1>1. FirstOf(S) \in S /\ \A j \in S : FirstOf(S) <= j
  <2>1. \E i \in S : \A j \in S : i <= j
    BY Smallest
  <2> QED BY <2>1 DEF FirstOf
<1>2. FirstOf(S) <= m /\ m <= FirstOf(S) /\ m \in 0..n /\ FirstOf(S) \in 0..n
  BY <1>1
<1> QED BY <1>2

\* The assignment for an id that stands is one of those that count.
LEMMA RelevantIsOne ==
    ASSUME NEW g, IsList(g), \A i \in DOMAIN g : IsAssignment(g[i]),
           NEW id, Relevant(g, id) # {}
    PROVE  LET a == g[LastOf(Relevant(g, id))]
           IN  /\ LastOf(Relevant(g, id)) \in DOMAIN g
               /\ IsAssignment(a) /\ a.id = id /\ Counts(a)
<1>1. Relevant(g, id) \in SUBSET (0..Len(g)) /\ Len(g) \in Nat
  BY DEF Relevant, IsList
<1>2. LastOf(Relevant(g, id)) \in Relevant(g, id)
  BY <1>1, LastOfIsOne
<1> QED BY <1>2 DEF Relevant

\* parseOutputsShort() gives as many outputs as it is given, and
\* parseOutputsLong() as many as there were.
LEMMA OutsListed ==
    ASSUME NEW a, IsAssignment(a), NEW inherited,
           a.how = "long" => Listed(inherited[a.id])
    PROVE  /\ Listed(Outs(a, inherited))
           /\ Len(Outs(a, inherited)) = IF a.how = "short" THEN Len(a.outs)
                                        ELSE Len(inherited[a.id])
<1> DEFINE outs == Outs(a, inherited)
<1>1. CASE a.how = "short"
  <2>1. Len(a.outs) \in Nat /\ DOMAIN a.outs = 1..Len(a.outs)
    BY <1>1 DEF IsAssignment, IsList
  <2>2. outs = [i \in 1..Len(a.outs) |->
                  IF a.outs[i] = Tilde THEN inherited[a.id][i + 1] ELSE a.outs[i]]
    BY <1>1, <2>1 DEF Outs, Short
  <2>3. outs = [i \in 1..Len(a.outs) |-> outs[i]]
    BY <2>2
  <2> HIDE DEF outs
  <2>4. Len(outs) = Len(a.outs) /\ Listed(outs)
    BY <2>1, <2>3, ListOf
  <2> QED BY <1>1, <2>4 DEF outs
<1>2. CASE a.how # "short"
  <2> DEFINE parent == inherited[a.id]
  <2>1. Len(parent) \in Nat /\ DOMAIN parent = 1..Len(parent)
    BY <1>2 DEF IsAssignment, Listed
  <2>2. outs = [i \in 1..Len(parent) |->
        IF \E key \in Assigned(a.id, a.by) : IndexOf(a.id, key) = i
        THEN a.by[byId[a.id][i]] ELSE parent[i]]
    BY <1>2, <2>1 DEF Outs, Long
  <2>3. outs = [i \in 1..Len(parent) |-> outs[i]]
    BY <2>2
  <2> HIDE DEF outs, parent
  <2>4. Len(outs) = Len(parent) /\ Listed(outs)
    BY <2>1, <2>3, ListOf
  <2> QED BY <1>2, <2>4 DEF parent, outs
<1> QED BY <1>1, <1>2

\* The outputs are indexed with one of the numbers of the key.
LEMMA IndexIsOne ==
    ASSUME NEW id, IsList(byId[id]), NEW by, NEW key \in Assigned(id, by)
    PROVE  IndexOf(id, key) \in DOMAIN byId[id] /\ byId[id][IndexOf(id, key)] = key
<1> DEFINE S == {i \in DOMAIN byId[id] : byId[id][i] = key}
<1>1. S \in SUBSET (0..Len(byId[id])) /\ Len(byId[id]) \in Nat /\ S # {}
  BY DEF IsList, Assigned
<1>2. FirstOf(S) \in S
  <2> HIDE DEF S
  <2> QED BY <1>1, FirstOfIsOne
<1>3. IndexOf(id, key) = FirstOf(S)
  BY DEF IndexOf
<1> QED BY <1>2, <1>3

-----------------------------------------------------------------------------
(* What there is while the file is read and after it.                      *)

\* One longer, or one shorter.
LEMMA ListedAppend ==
    ASSUME NEW s, Listed(s), NEW x
    PROVE  /\ Listed(Append(s, x)) /\ Len(Append(s, x)) = Len(s) + 1
           /\ \A i \in 1..Len(s) : Append(s, x)[i] = s[i]
           /\ Append(s, x)[Len(s) + 1] = x
<1> DEFINE R == {s[i] : i \in 1..Len(s)} \cup {x}
           n == Len(s)
<1>1. n \in Nat /\ s \in [1..n -> R]
  BY DEF Listed
<1> HIDE DEF R
<1>2. s \in Seq(R)
  BY <1>1
<1>3. x \in R
  BY DEF R
<1>4. /\ Append(s, x) \in Seq(R) /\ Len(Append(s, x)) = n + 1
      /\ \A i \in 1..n : Append(s, x)[i] = s[i]
      /\ Append(s, x)[n + 1] = x
  BY <1>2, <1>3
<1>5. Listed(Append(s, x))
  BY <1>4, SeqIsListed
<1> QED BY <1>4, <1>5

LEMMA ListedFront ==
    ASSUME NEW s, Listed(s), s # <<>>
    PROVE  /\ Listed(Front(s)) /\ Len(Front(s)) = Len(s) - 1 /\ Len(s) # 0
           /\ \A i \in 1..(Len(s) - 1) : Front(s)[i] = s[i]
<1> DEFINE R == {s[i] : i \in 1..Len(s)}
           n == Len(s)
<1>1. n \in Nat /\ s \in [1..n -> R]
  BY DEF Listed
<1> HIDE DEF R
<1>2. s \in Seq(R)
  BY <1>1
<1>3. n # 0
  BY <1>2
<1>4. Front(s) = SubSeq(s, 1, n - 1)
  BY DEF Front
<1>5. Front(s) \in Seq(R)
  BY <1>2, <1>3, <1>4
<1> QED BY <1>2, <1>3, <1>4, <1>5 DEF Listed

LEMMA FrontOfSeq ==
    ASSUME NEW S, NEW s \in Seq(S), s # <<>>
    PROVE  Front(s) \in Seq(S) /\ Len(Front(s)) = Len(s) - 1
<1>1. Front(s) = SubSeq(s, 1, Len(s) - 1)
  BY DEF Front
<1>2. Len(s) \in Nat /\ Len(s) # 0
  OBVIOUS
<1>3. Front(s) \in Seq(S)
  BY <1>1, <1>2
<1>4. Len(Front(s)) = Len(s) - 1
  BY SeqIsListed, ListedFront
<1> QED BY <1>3, <1>4

\* One list after the other.
LEMMA Concatenated ==
    ASSUME NEW S, NEW s \in Seq(S), NEW t \in Seq(S)
    PROVE  /\ Len(s) \in Nat /\ Len(t) \in Nat
           /\ DOMAIN s = 1..Len(s) /\ DOMAIN t = 1..Len(t)
           /\ DOMAIN (s \o t) = 1..(Len(s) + Len(t))
           /\ \A i \in 1..Len(s) : (s \o t)[i] = s[i]
           /\ \A j \in 1..Len(t) : (s \o t)[Len(s) + j] = t[j]
           /\ t # <<>> <=> Len(t) # 0
OBVIOUS

\* What doc holds.
Entries ==
    [kind : {"group"}, path : Seq(GroupElements), assigns : GroupElements]
    \cup [kind : {"window"}, path : Seq(GroupElements),
          class : {w.class : w \in WindowElements},
          assigns : {w.assigns : w \in WindowElements},
          titles : {w.titles : w \in WindowElements}]

BeforeInv ==
    phase = "handlers" =>
        /\ ids = {} /\ path = <<>> /\ doc = <<>> /\ scopes = <<>>
        /\ \A id \in Ids : wsets[id] = NoSettings
        /\ read = 0 => handlers = <<>>

\* What <long> uses are the signals of an element, and for an id with
\* settings, if there are any, those of a handler with it.
ByIdInv ==
    /\ DOMAIN byId \subseteq {handlers[i].id : i \in DOMAIN handlers} \ {""}
    /\ \A i \in DOMAIN handlers : handlers[i].id # "" => handlers[i].id \in DOMAIN byId
    /\ \A id \in DOMAIN byId :
          /\ \E e \in HandlerElements : byId[id] = e.inputs
          /\ byId[id] = <<>> \/ \E i \in WithId(id) : byId[id] = handlers[i].inputs

IdsInv ==
    /\ ids \subseteq Ids
    /\ phase \in {"windows", "running", "undefined"} => ids = {id \in Ids : WithId(id) # {}}

DocInv ==
    /\ path \in Seq(GroupElements) /\ Len(path) <= MaxDepth
    /\ doc \in Seq(Entries) /\ Len(doc) <= MaxElements
    /\ Listed(scopes)
    /\ phase = "windows" => Len(scopes) = Len(path) + 1

\* Strengthens TypeOK until it is inductive.
TypesInv ==
    /\ phase \in {"handlers", "windows", "running", "exited", "undefined"}
    /\ read \in 0..MaxHandlers
    /\ cached \in BOOLEAN
    /\ started \subseteq DOMAIN handlers
    /\ phase \in {"handlers", "windows"} => started = {}
    /\ BeforeInv /\ ByIdInv /\ IdsInv /\ DocInv

LEMMA InitTypes == Init => TypesInv
<1> SUFFICES ASSUME Init PROVE TypesInv
  OBVIOUS
<1> USE DEF Init
<1>1. ByIdInv
  BY DEF ByIdInv, Nothing
<1>2. DocInv
  <2>1. Listed(scopes)
    <3>1. scopes \in Seq({})
      OBVIOUS
    <3> QED BY <3>1, SeqIsListed
  <2>2. Len(path) = 0 /\ Len(doc) = 0
    OBVIOUS
  <2> QED BY <2>1, <2>2, BoundsAssumption DEF DocInv
<1>3. cached \in BOOLEAN
  BY Zenon
<1> QED BY <1>1, <1>2, <1>3, BoundsAssumption DEF TypesInv, BeforeInv, IdsInv

\* One child of <handlers>.
LEMMA ReadHandlerKeepsTypes ==
    ASSUME IInv, TypesInv, NEW e \in HandlerElements, ReadHandler(e)
    PROVE  TypesInv'
<1>1. PICK plugged \in SUBSET Devices :
        /\ handlers' = handlers \o HandlersFor(e, plugged)
        /\ byId' = IF HandlersFor(e, plugged) # <<>> /\ e.id # ""
                   THEN Insert(byId, e.id, e.inputs) ELSE byId
  BY DEF ReadHandler
<1> DEFINE new == HandlersFor(e, plugged)
           n == Len(handlers)
           m == Len(new)
<1>2. handlers \in Seq(Fresh) /\ new \in Seq(Fresh)
  BY NewHandlers DEF ReadHandler, IInv
<1>3. \A j \in DOMAIN new : new[j] = [tag |-> e.tag, id |-> e.id, inputs |-> e.inputs,
                                      outputs |-> e.defaults, signals |-> e.defaults]
  BY DEF HandlersFor
<1>4. \A j \in DOMAIN new : new[j].tag = e.tag /\ new[j].id = e.id /\ new[j].inputs = e.inputs
  <2> HIDE DEF new
  <2> QED BY <1>3
<1> HIDE DEF new
<1>5. /\ n \in Nat /\ m \in Nat
      /\ DOMAIN handlers' = 1..(n + m) /\ DOMAIN handlers = 1..n /\ DOMAIN new = 1..m
      /\ \A i \in 1..n : handlers'[i] = handlers[i]
      /\ \A j \in 1..m : handlers'[n + j] = new[j]
      /\ new # <<>> <=> m # 0
  <2>1. handlers \in Seq(Fresh) /\ new \in Seq(Fresh) /\ handlers' = handlers \o new
    BY <1>1, <1>2 DEF new
  <2> QED BY <2>1, Concatenated
<1>6. \A i \in DOMAIN handlers' : i \in 1..n \/ \E j \in 1..m : i = n + j
  <2>1. \A i \in DOMAIN handlers' : i \in 1..n \/ (i - n) \in 1..m
    BY <1>5
  <2> QED BY <1>5, <2>1
<1>7. \A j \in 1..m : handlers'[n + j].tag = e.tag /\ handlers'[n + j].id = e.id
                      /\ handlers'[n + j].inputs = e.inputs
  BY <1>4, <1>5
<1>8. \A i \in 1..n : i \in DOMAIN handlers'
  BY <1>5
<1>9. \A j \in 1..m : n + j \in DOMAIN handlers'
  BY <1>5
<1>10. DOMAIN byId' = IF m # 0 /\ e.id # "" THEN DOMAIN byId \cup {e.id} ELSE DOMAIN byId
  BY <1>1, <1>5 DEF new, Insert
<1>11. \A id \in DOMAIN byId' : byId'[id] = IF m # 0 /\ id = e.id THEN e.inputs ELSE byId[id]
  <2>1. e.id = "" => "" \notin DOMAIN byId
    BY DEF TypesInv, ByIdInv
  <2>2. \A id \in DOMAIN Insert(byId, e.id, e.inputs) :
           Insert(byId, e.id, e.inputs)[id] = IF id = e.id THEN e.inputs ELSE byId[id]
    BY DEF Insert
  <2>3. CASE m # 0 /\ e.id # ""
    BY <1>1, <1>5, <2>2, <2>3 DEF new
  <2>4. CASE ~(m # 0 /\ e.id # "")
    <3>1. byId' = byId
      BY <1>1, <1>5, <2>4 DEF new
    <3>2. \A id \in DOMAIN byId : ~(m # 0 /\ id = e.id)
      BY <2>1, <2>4 DEF TypesInv, ByIdInv
    <3> QED BY <3>1, <3>2
  <2> QED BY <2>3, <2>4
<1>12. ByIdInv'
  <2>1. DOMAIN byId' \subseteq {handlers'[i].id : i \in DOMAIN handlers'} \ {""}
    <3>1. DOMAIN byId \subseteq {handlers'[i].id : i \in DOMAIN handlers'} \ {""}
      <4>1. ASSUME NEW id \in DOMAIN byId
            PROVE  \E i \in DOMAIN handlers' : id = handlers'[i].id
        <5>1. PICK i \in DOMAIN handlers : id = handlers[i].id
          BY DEF TypesInv, ByIdInv
        <5> QED BY <1>5, <1>8, <5>1
      <4> QED BY <4>1 DEF TypesInv, ByIdInv
    <3>2. m # 0 => e.id \in {handlers'[i].id : i \in DOMAIN handlers'}
      <4>1. m # 0 => 1 \in 1..m
        BY <1>5
      <4> QED BY <1>7, <1>9, <4>1
    <3> QED BY <1>10, <3>1, <3>2
  <2>2. ASSUME NEW i \in DOMAIN handlers', handlers'[i].id # ""
        PROVE  handlers'[i].id \in DOMAIN byId'
    <3>1. CASE i \in 1..n
      BY <1>5, <1>10, <2>2, <3>1 DEF TypesInv, ByIdInv
    <3>2. CASE \E j \in 1..m : i = n + j
      <4>1. m # 0 /\ handlers'[i].id = e.id
        BY <1>5, <1>7, <3>2
      <4> QED BY <1>10, <2>2, <4>1
    <3> QED BY <1>6, <3>1, <3>2
  <2>3. ASSUME NEW id \in DOMAIN byId'
        PROVE  /\ \E f \in HandlerElements : byId'[id] = f.inputs
               /\ byId'[id] = <<>> \/ \E i \in WithId(id)' : byId'[id] = handlers'[i].inputs
    <3>1. CASE m # 0 /\ id = e.id
      <4>1. byId'[id] = e.inputs
        BY <1>11, <3>1
      <4>2. CASE e.tag = "device"
        <5>1. 1 \in 1..m
          BY <1>5, <3>1
        <5>2. id # ""
          BY <1>10, <3>1 DEF TypesInv, ByIdInv
        <5>3. n + 1 \in DOMAIN handlers' /\ handlers'[n + 1].tag = "device"
              /\ handlers'[n + 1].id = id
          BY <1>7, <1>9, <3>1, <4>2, <5>1
        <5>4. n + 1 \in WithId(id)'
          BY <5>2, <5>3 DEF WithId, HasWindowSettings
        <5> QED BY <1>7, <4>1, <5>1, <5>4
      <4>3. CASE e.tag # "device"
        BY <4>1, <4>3, HandlersAssumption
      <4> QED BY <4>1, <4>2, <4>3
    <3>2. CASE ~(m # 0 /\ id = e.id)
      <4>1. byId'[id] = byId[id] /\ id \in DOMAIN byId
        BY <1>10, <1>11, <3>2
      <4>2. \A i \in WithId(id) : i \in WithId(id)' /\ handlers'[i].inputs = handlers[i].inputs
        BY <1>5, <1>8 DEF WithId, HasWindowSettings
      <4> QED BY <4>1, <4>2 DEF TypesInv, ByIdInv
    <3> QED BY <3>1, <3>2
  <2> QED BY <2>1, <2>2, <2>3 DEF ByIdInv
<1>13. /\ phase = "handlers" /\ phase' = "handlers" /\ read' = read + 1 /\ read < MaxHandlers
       /\ UNCHANGED <<wsets, ids, scopes, path, doc, started>>
  BY DEF ReadHandler, parserVars
<1>14. BeforeInv' /\ DocInv' /\ IdsInv'
  BY <1>13 DEF TypesInv, BeforeInv, DocInv, IdsInv
<1>15. read' \in 0..MaxHandlers
  BY <1>13, BoundsAssumption DEF TypesInv
<1>16. cached' \in BOOLEAN
  BY Zenon DEF ReadHandler
<1> QED BY <1>12, <1>13, <1>14, <1>15, <1>16 DEF TypesInv

\* A change of the window leaves the handlers what they are.
LEMMA WindowKeepsIds ==
    ASSUME NEW w, ActiveWindowChanged(w), HandlersInv, WsetsInv
    PROVE  /\ DOMAIN handlers' = DOMAIN handlers
           /\ \A i \in DOMAIN handlers : /\ handlers'[i].id = handlers[i].id
                                         /\ handlers'[i].inputs = handlers[i].inputs
           /\ \A id : WithId(id)' = WithId(id)
BY WindowKeepsHandlers DEF WithId

\* The end of readConf() and every change of the window after it.
LEMMA WindowKeepsTypes ==
    ASSUME TypesInv, NEW w, ActiveWindowChanged(w), HandlersInv, WsetsInv,
           phase \in {"windows", "running"}, phase' = "running", started' \subseteq DOMAIN handlers,
           UNCHANGED <<byId, read, inputsForIds, cached, parserVars, wsets>>
    PROVE  TypesInv'
<1>1. /\ DOMAIN handlers' = DOMAIN handlers
      /\ \A i \in DOMAIN handlers : /\ handlers'[i].id = handlers[i].id
                                    /\ handlers'[i].inputs = handlers[i].inputs
      /\ \A id : WithId(id)' = WithId(id)
  BY WindowKeepsIds
<1>2. /\ UNCHANGED <<byId, ids, path, doc, scopes, read, cached>>
  BY DEF parserVars
<1>3. ByIdInv'
  <2>1. {handlers'[i].id : i \in DOMAIN handlers'} = {handlers[i].id : i \in DOMAIN handlers}
    BY <1>1
  <2>2. \A id : \A i \in WithId(id) : i \in DOMAIN handlers
    BY DEF WithId
  <2>3. ASSUME NEW id \in DOMAIN byId
        PROVE  byId[id] = <<>> \/ \E i \in WithId(id)' : byId[id] = handlers'[i].inputs
    <3>1. byId[id] = <<>> \/ \E i \in WithId(id) : byId[id] = handlers[i].inputs
      BY DEF TypesInv, ByIdInv
    <3> QED BY <1>1, <2>2, <3>1
  <2>4. \A i \in DOMAIN handlers' : handlers'[i].id # "" => handlers'[i].id \in DOMAIN byId
    BY <1>1 DEF TypesInv, ByIdInv
  <2>5. \A id \in DOMAIN byId : \E e \in HandlerElements : byId[id] = e.inputs
    BY DEF TypesInv, ByIdInv
  <2>6. DOMAIN byId \subseteq {handlers[i].id : i \in DOMAIN handlers} \ {""}
    BY DEF TypesInv, ByIdInv
  <2>7. DOMAIN byId' \subseteq {handlers'[i].id : i \in DOMAIN handlers'} \ {""}
    BY <1>2, <2>1, <2>6
  <2> QED BY <1>2, <2>3, <2>4, <2>5, <2>7 DEF ByIdInv
<1>4. IdsInv'
  BY <1>1, <1>2 DEF TypesInv, IdsInv
<1>5. BeforeInv' /\ DocInv'
  BY <1>2 DEF TypesInv, BeforeInv, DocInv
<1> QED BY <1>1, <1>2, <1>3, <1>4, <1>5 DEF TypesInv

\* What stays when neither the handlers nor what is known of them changes.
LEMMA SameHandlersSameIds ==
    ASSUME TypesInv, UNCHANGED <<handlers, byId>>
    PROVE  ByIdInv' /\ \A id : WithId(id)' = WithId(id)
<1>1. \A id : WithId(id)' = WithId(id)
  BY DEF WithId, HasWindowSettings
<1>2. ByIdInv'
  BY <1>1 DEF TypesInv, ByIdInv
<1> QED BY <1>1, <1>2

LEMMA BeginWindowsKeepsTypes ==
    ASSUME TypesInv, BeginWindows
    PROVE  TypesInv'
<1>1. /\ phase = "handlers" /\ phase' = "windows"
      /\ UNCHANGED <<handlers, byId, read, cached, started, path, doc>>
      /\ ids' = {id \in Ids : WithId(id) # {}}
  BY DEF BeginWindows, handlerVars
<1>2. ByIdInv' /\ \A id : WithId(id)' = WithId(id)
  BY <1>1, SameHandlersSameIds
<1>3. DocInv'
  <2>1. PICK x : scopes' = <<x>>
    BY DEF BeginWindows
  <2>2. Len(scopes') = 1 /\ Listed(scopes')
    <3>1. scopes' \in Seq({x}) /\ Len(scopes') = 1
      BY <2>1
    <3> QED BY <3>1, SeqIsListed
  <2>3. Len(path) = 0 /\ path' = path /\ doc' = doc
    BY <1>1 DEF TypesInv, BeforeInv
  <2> QED BY <2>2, <2>3 DEF TypesInv, DocInv
<1> QED BY <1>1, <1>2, <1>3 DEF TypesInv, BeforeInv, IdsInv

\* A group begins, or an element is bad.
LEMMA GroupKeepsTypes ==
    ASSUME TypesInv, NEW g \in GroupElements, ReadGroup(g) \/ ReadBadGroup(g)
    PROVE  TypesInv'
<1> DEFINE entry == [kind |-> "group", path |-> path, assigns |-> g]
<1>1. /\ phase = "windows" /\ phase' \in {"windows", "undefined"}
      /\ UNCHANGED <<handlers, byId, ids, read, cached, started>>
      /\ doc' = Append(doc, entry) /\ Len(doc) < MaxElements
  BY DEF ReadGroup, ReadBadGroup, handlerVars
<1>2. ByIdInv' /\ \A id : WithId(id)' = WithId(id)
  BY <1>1, SameHandlersSameIds
<1>3. IdsInv'
  BY <1>1, <1>2 DEF TypesInv, IdsInv
<1>4. entry \in Entries
  BY DEF Entries, TypesInv, DocInv
<1> HIDE DEF entry
<1>5. doc' \in Seq(Entries) /\ Len(doc') <= MaxElements
  BY <1>1, <1>4, BoundsAssumption DEF TypesInv, DocInv
<1>6. DocInv'
  <2>1. CASE ReadGroup(g)
    <3>1. PICK x : scopes' = Append(scopes, x)
      BY <2>1 DEF ReadGroup
    <3>2. path' = Append(path, g) /\ Len(path) < MaxDepth
      BY <2>1 DEF ReadGroup
    <3>3. path' \in Seq(GroupElements) /\ Len(path') = Len(path) + 1 /\ Len(path') <= MaxDepth
      BY <3>2, BoundsAssumption DEF TypesInv, DocInv
    <3>4. Listed(scopes') /\ Len(scopes') = Len(scopes) + 1
      BY <3>1, ListedAppend DEF TypesInv, DocInv
    <3> QED BY <1>1, <1>5, <3>3, <3>4 DEF TypesInv, DocInv
  <2>2. CASE ReadBadGroup(g)
    BY <1>1, <1>5, <2>2 DEF ReadBadGroup, TypesInv, DocInv
  <2> QED BY <2>1, <2>2
<1> QED BY <1>1, <1>2, <1>3, <1>6 DEF TypesInv, BeforeInv

LEMMA EndGroupKeepsTypes ==
    ASSUME TypesInv, EndGroup
    PROVE  TypesInv'
<1>1. /\ phase = "windows" /\ phase' = "windows" /\ path # <<>>
      /\ UNCHANGED <<handlers, byId, ids, read, cached, started, doc>>
      /\ scopes' = Front(scopes) /\ path' = Front(path)
  BY DEF EndGroup, handlerVars
<1>2. ByIdInv' /\ \A id : WithId(id)' = WithId(id)
  BY <1>1, SameHandlersSameIds
<1>3. Listed(scopes) /\ Len(scopes) = Len(path) + 1 /\ path \in Seq(GroupElements)
      /\ Len(path) <= MaxDepth
  BY <1>1 DEF TypesInv, DocInv
<1>4. Len(path) \in Nat /\ Len(path) > 0
  BY <1>1, <1>3
<1>5. path' \in Seq(GroupElements) /\ Len(path') = Len(path) - 1 /\ Len(path') <= MaxDepth
  <2>1. path' \in Seq(GroupElements) /\ Len(path') = Len(path) - 1
    BY <1>1, <1>3, FrontOfSeq
  <2> QED BY <1>3, <1>4, <2>1, BoundsAssumption
<1>6. Listed(scopes') /\ Len(scopes') = Len(scopes) - 1
  <2>1. scopes # <<>>
    BY <1>3, <1>4
  <2> QED BY <1>1, <1>3, <2>1, ListedFront
<1>7. DocInv'
  BY <1>1, <1>3, <1>4, <1>5, <1>6 DEF TypesInv, DocInv
<1>8. IdsInv'
  BY <1>1, <1>2 DEF TypesInv, IdsInv
<1> QED BY <1>1, <1>2, <1>7, <1>8 DEF TypesInv, BeforeInv

LEMMA WindowElementKeepsTypes ==
    ASSUME TypesInv, NEW w \in WindowElements, ReadWindow(w) \/ ReadBadWindow(w)
    PROVE  TypesInv'
<1> DEFINE entry == [kind |-> "window", path |-> path, class |-> w.class,
                     assigns |-> w.assigns, titles |-> w.titles]
<1>1. /\ phase = "windows" /\ phase' \in {"windows", "undefined"}
      /\ UNCHANGED <<handlers, byId, ids, read, cached, started, scopes, path>>
      /\ doc' = Append(doc, entry) /\ Len(doc) < MaxElements
  BY DEF ReadWindow, ReadBadWindow, handlerVars, Seen
<1>2. ByIdInv' /\ \A id : WithId(id)' = WithId(id)
  BY <1>1, SameHandlersSameIds
<1>3. IdsInv'
  BY <1>1, <1>2 DEF TypesInv, IdsInv
<1>4. entry \in Entries
  BY DEF Entries, TypesInv, DocInv
<1> HIDE DEF entry
<1>5. doc' \in Seq(Entries) /\ Len(doc') <= MaxElements
  BY <1>1, <1>4, BoundsAssumption DEF TypesInv, DocInv
<1>6. DocInv'
  BY <1>1, <1>5 DEF TypesInv, DocInv
<1> QED BY <1>1, <1>2, <1>3, <1>6 DEF TypesInv, BeforeInv

\* The daemon ends, does without a file, or starts over.
LEMMA OthersKeepTypes ==
    ASSUME TypesInv, NoHandlers \/ Unreadable \/ Reread \/ UNCHANGED vars
    PROVE  TypesInv'
<1>1. CASE NoHandlers
  <2>1. /\ phase' = "exited"
        /\ UNCHANGED <<handlers, byId, ids, read, cached, started, scopes, path, doc>>
    BY <1>1 DEF NoHandlers, handlerVars, parserVars
  <2>2. ByIdInv'
    BY <2>1, SameHandlersSameIds
  <2> QED BY <2>1, <2>2 DEF TypesInv, BeforeInv, IdsInv, DocInv
<1>2. CASE Unreadable
  <2>1. /\ phase = "handlers" /\ read = 0 /\ phase' = "running"
        /\ UNCHANGED <<handlers, byId, ids, read, cached, started, scopes, path, doc>>
    BY <1>2 DEF Unreadable, handlerVars, parserVars
  <2>2. ByIdInv' /\ \A id : WithId(id)' = WithId(id)
    BY <2>1, SameHandlersSameIds
  <2>3. handlers = <<>> /\ ids = {}
    BY <2>1 DEF TypesInv, BeforeInv
  <2>4. \A id : WithId(id) = {}
    BY <2>3 DEF WithId
  <2>5. IdsInv'
    BY <2>1, <2>2, <2>3, <2>4 DEF IdsInv
  <2> QED BY <2>1, <2>2, <2>5 DEF TypesInv, BeforeInv, DocInv
<1>3. CASE Reread
  <2>1. /\ phase' = "handlers" /\ handlers' = <<>> /\ byId' = Nothing /\ read' = 0
        /\ ids' = {} /\ scopes' = <<>> /\ started' = {} /\ path' = <<>> /\ doc' = <<>>
        /\ wsets' = [id \in Ids |-> NoSettings] /\ cached' = cached
    BY <1>3 DEF Reread
  <2>2. ByIdInv'
    BY <2>1 DEF ByIdInv, Nothing
  <2>3. Listed(scopes')
    <3>1. scopes' \in Seq({})
      BY <2>1
    <3> QED BY <3>1, SeqIsListed
  <2>4. Len(path') = 0 /\ Len(doc') = 0 /\ path' \in Seq(GroupElements) /\ doc' \in Seq(Entries)
    BY <2>1
  <2>5. DocInv'
    BY <2>1, <2>3, <2>4, BoundsAssumption DEF DocInv
  <2> QED BY <2>1, <2>2, <2>5, BoundsAssumption DEF TypesInv, BeforeInv, IdsInv
<1>4. CASE UNCHANGED vars
  <2>1. UNCHANGED <<phase, handlers, byId, ids, read, cached, started, scopes, path, doc, wsets>>
    BY <1>4 DEF vars, handlerVars, parserVars
  <2>2. ByIdInv' /\ \A id : WithId(id)' = WithId(id)
    BY <2>1, SameHandlersSameIds
  <2> QED BY <2>1, <2>2 DEF TypesInv, BeforeInv, IdsInv, DocInv
<1> QED BY <1>1, <1>2, <1>3, <1>4

LEMMA NextTypes == IInv /\ TypesInv /\ [Next]_vars => TypesInv'
<1> SUFFICES ASSUME IInv, TypesInv, [Next]_vars PROVE TypesInv'
  OBVIOUS
<1>1. CASE Start
  <2>1. /\ ActiveWindowChanged([class |-> known.class, title |-> ""])
        /\ phase = "windows" /\ phase' = "running" /\ started' \subseteq DOMAIN handlers
        /\ UNCHANGED <<byId, read, inputsForIds, cached, parserVars, wsets>>
    BY <1>1 DEF Start
  <2> QED BY <2>1, WindowKeepsTypes DEF IInv
<1>2. CASE \E w \in Windows : ChangeWindow(w)
  <2>1. PICK w \in Windows : ChangeWindow(w)
    BY <1>2
  <2>2. /\ ActiveWindowChanged(w)
        /\ phase = "running" /\ phase' = "running" /\ started' \subseteq DOMAIN handlers
        /\ UNCHANGED <<byId, read, inputsForIds, cached, parserVars, wsets>>
    BY <2>1 DEF ChangeWindow, TypesInv
  <2> QED BY <2>2, WindowKeepsTypes DEF IInv
<1> QED
  BY <1>1, <1>2, ReadHandlerKeepsTypes, BeginWindowsKeepsTypes, GroupKeepsTypes,
     EndGroupKeepsTypes, WindowElementKeepsTypes, OthersKeepTypes DEF Next, Parse

LEMMA TypesAlways == Spec => [](IInv /\ TypesInv)
<1>1. Init => IInv /\ TypesInv
  BY InitIInv, InitTypes
<1>2. IInv /\ TypesInv /\ [Next]_vars => IInv' /\ TypesInv'
  BY NextIInv, NextTypes
<1> QED BY <1>1, <1>2, PTL DEF Spec

\* What the parser keeps: for any document and any devices every variable has
\* its type, <long> only knows the ids of handlers, and while windows are read
\* there is one set of inherited outputs for every open group and one more.
THEOREM TypesThm == Spec => []TypeOK
<1>1. IInv /\ TypesInv => TypeOK
  <2> SUFFICES ASSUME IInv, TypesInv PROVE TypeOK
    OBVIOUS
  <2>1. ids \subseteq Ids
    BY DEF TypesInv, IdsInv
  <2> QED BY <2>1 DEF IInv, TypesInv, TypeOK, WsetsInv, DocInv, ByIdInv
<1> QED BY <1>1, TypesAlways, PTL

-----------------------------------------------------------------------------
(* Of what length the outputs are, and which devices have no thread.       *)

\* What the assignments g make of the outputs inherited for an id.
Made(g, id, inherited) ==
    IF Relevant(g, id) = {} THEN inherited[id]
    ELSE Outs(g[LastOf(Relevant(g, id))], inherited)

\* It is a list, and of the length of what is inherited if every short
\* assignment is.
LEMMA MadeListed ==
    ASSUME NEW g, IsList(g), \A i \in DOMAIN g : IsAssignment(g[i]),
           NEW id, NEW inherited, Listed(inherited[id])
    PROVE  /\ Listed(Made(g, id, inherited))
           /\ \A n : /\ Len(inherited[id]) = n
                     /\ \A i \in DOMAIN g : g[i].id = id /\ g[i].how = "short"
                                               => Len(g[i].outs) = n
                     => Len(Made(g, id, inherited)) = n
<1>1. CASE Relevant(g, id) = {}
  BY <1>1 DEF Made
<1>2. CASE Relevant(g, id) # {}
  <2> DEFINE l == LastOf(Relevant(g, id))
             a == g[l]
  <2>1. l \in DOMAIN g /\ IsAssignment(a) /\ a.id = id
    BY <1>2, RelevantIsOne
  <2>2. Made(g, id, inherited) = Outs(a, inherited)
    BY <1>2 DEF Made
  <2> HIDE DEF l
  <2>3. /\ Listed(Outs(a, inherited))
        /\ Len(Outs(a, inherited)) = IF a.how = "short" THEN Len(a.outs)
                                     ELSE Len(inherited[a.id])
    BY <2>1, OutsListed
  <2> QED BY <2>1, <2>2, <2>3
<1> QED BY <1>1, <1>2

\* The assignments in an element and in the groups around it.
AssignsIn(e) ==
    ToSet(e.assigns) \cup (UNION {ToSet(e.path[k]) : k \in DOMAIN e.path})
    \cup IF e.kind = "group" THEN {} ELSE {e.titles[t].assign : t \in DOMAIN e.titles}

\* With an element more there are its assignments, too.
LEMMA DocGrows ==
    ASSUME NEW e \in Entries, doc \in Seq(Entries), doc' = Append(doc, e)
    PROVE  Assignments \subseteq Assignments' /\ AssignsIn(e) \subseteq Assignments'
<1>1. /\ Assignments = UNION {AssignsIn(doc[n]) : n \in DOMAIN doc}
      /\ Assignments' = UNION {AssignsIn(doc'[n]) : n \in DOMAIN doc'}
  BY DEF Assignments, AssignsIn
<1> DEFINE m == Len(doc)
<1>2. /\ m \in Nat /\ DOMAIN doc = 1..m /\ DOMAIN doc' = 1..(m + 1)
      /\ \A n \in 1..m : doc'[n] = doc[n]
      /\ doc'[m + 1] = e
  OBVIOUS
<1>3. \A n \in 1..m : n \in 1..(m + 1)
  BY <1>2
<1>4. m + 1 \in 1..(m + 1)
  BY <1>2
<1> QED BY <1>1, <1>2, <1>3, <1>4

\* An id that fits now fitted before, and every short assignment does.
LEMMA MisfitGrows ==
    ASSUME handlers' = handlers, Assignments \subseteq Assignments', NEW id, ~Misfit(id)'
    PROVE  /\ ~Misfit(id) /\ WithId(id)' = WithId(id)
           /\ \A i, j \in WithId(id) : Len(handlers[i].inputs) = Len(handlers[j].inputs)
           /\ \A a \in Assignments', i \in WithId(id) :
                 a.id = id /\ a.how = "short" => Len(a.outs) = Len(handlers[i].inputs)
<1>1. WithId(id)' = WithId(id)
  BY DEF WithId, HasWindowSettings
<1> QED BY <1>1 DEF Misfit

\* Nothing is a misfit that was none while the handlers keep their inputs.
LEMMA MisfitStays ==
    ASSUME doc' = doc, NEW id, WithId(id)' = WithId(id),
           \A i \in WithId(id) : handlers'[i].inputs = handlers[i].inputs
    PROVE  Misfit(id)' <=> Misfit(id)
<1>1. Assignments' = Assignments
  BY DEF Assignments
<1> QED BY <1>1 DEF Misfit

ListedSettings(ts) ==
    /\ Listed(ts.def)
    /\ \A c \in DOMAIN ts.classes :
          /\ Listed(ts.classes[c].def)
          /\ \A t \in DOMAIN ts.classes[c].titles : Listed(ts.classes[c].titles[t].outs)

\* Every list of outputs has as many as the handlers have inputs, unless the
\* id is a misfit.
OutputsInv ==
    phase \in {"windows", "running"} =>
        \A id \in ids :
            /\ \A k \in 1..Len(scopes) : Listed(scopes[k].outputs[id])
            /\ ListedSettings(wsets[id])
            /\ \A i \in WithId(id) : ~Misfit(id) =>
                  /\ SanityCheck(wsets[id], Len(handlers[i].inputs))
                  /\ \A k \in 1..Len(scopes) :
                        Len(scopes[k].outputs[id]) = Len(handlers[i].inputs)

\* The sanity check found something at every device without a thread.
IdleInv ==
    phase = "running" =>
        \A i \in DOMAIN handlers \ started :
            /\ HasWindowSettings(handlers[i])
            /\ ~SanityCheck(wsets[handlers[i].id], Len(handlers[i].inputs))

LEMMA BeginWindowsKeepsOutputs ==
    ASSUME IInv, TypesInv, TypesInv', BeginWindows
    PROVE  OutputsInv'
<1>1. /\ phase = "handlers" /\ handlers' = handlers /\ doc' = doc
      /\ ids' = {id \in Ids : WithId(id) # {}}
  BY DEF BeginWindows, handlerVars
<1>2. handlers \in Seq(Fresh)
  BY <1>1 DEF IInv
<1>3. ASSUME NEW id \in ids'
      PROVE  /\ \A k \in 1..Len(scopes)' : Listed(scopes'[k].outputs[id])
             /\ ListedSettings(wsets'[id])
             /\ \A i \in WithId(id)' : ~Misfit(id)' =>
                   /\ SanityCheck(wsets'[id], Len(handlers'[i].inputs))
                   /\ \A k \in 1..Len(scopes)' :
                         Len(scopes'[k].outputs[id]) = Len(handlers'[i].inputs)
  <2> DEFINE l == LastOf(WithId(id))
             def == handlers[l].outputs
  <2>1. id \in Ids /\ WithId(id) # {} /\ WithId(id) \in SUBSET (0..Len(handlers))
        /\ Len(handlers) \in Nat
    BY <1>1, <1>2 DEF WithId
  <2>2. l \in WithId(id) /\ l \in DOMAIN handlers
    <3>1. l \in WithId(id)
      BY <2>1, LastOfIsOne
    <3> QED BY <3>1 DEF WithId
  <2>3. wsets'[id] = [wsets[id] EXCEPT !.def = def]
    BY <2>1 DEF BeginWindows
  <2>4. wsets[id] = [def |-> <<>>, classes |-> NoClasses]
    BY <1>1, <2>1 DEF TypesInv, BeforeInv, NoSettings
  <2> HIDE DEF l
  <2>5. Listed(def) /\ Len(def) = Len(handlers[l].inputs)
    <3>1. PICK e \in HandlerElements :
            handlers[l] = [tag |-> e.tag, id |-> e.id, inputs |-> e.inputs,
                           outputs |-> e.defaults, signals |-> e.defaults]
      BY <1>2, <2>2 DEF Fresh
    <3>2. handlers[l].outputs = e.defaults /\ handlers[l].inputs = e.inputs
      BY <3>1
    <3>3. e.defaults \in Seq(STRING) /\ Len(e.inputs) = Len(e.defaults)
      BY HandlersAssumption
    <3> QED BY <3>2, <3>3, SeqIsListed
  <2> HIDE DEF def
  <2>6. wsets'[id].def = def /\ wsets'[id].classes = NoClasses
    BY <2>3, <2>4
  <2>7. DOMAIN NoClasses = {}
    BY DEF NoClasses
  <2>8. Len(scopes') = 1 /\ scopes'[1].outputs[id] = def
    <3> DEFINE x == [outputs |-> [d \in Ids |-> wsets'[d].def],
                     used |-> [d \in Ids |-> FALSE]]
    <3>1. scopes' = <<x>> /\ x.outputs[id] = wsets'[id].def
      BY <2>1 DEF BeginWindows
    <3> HIDE DEF x
    <3> QED BY <2>6, <3>1
  <2>9. ASSUME NEW i \in WithId(id)', ~Misfit(id)'
        PROVE  Len(def) = Len(handlers'[i].inputs)
    <3>1. WithId(id)' = WithId(id)
      BY <1>1 DEF WithId, HasWindowSettings
    <3>2. Len(handlers[i].inputs) = Len(handlers[l].inputs)
      BY <1>1, <2>2, <2>9, <3>1 DEF Misfit
    <3> QED BY <1>1, <2>5, <3>2
  <2> QED BY <2>5, <2>6, <2>7, <2>8, <2>9 DEF ListedSettings, SanityCheck
<1> QED BY <1>3 DEF OutputsInv

LEMMA ReadGroupKeepsOutputs ==
    ASSUME IInv, TypesInv, OutputsInv, NEW g \in GroupElements, ReadGroup(g)
    PROVE  OutputsInv'
<1> DEFINE entry == [kind |-> "group", path |-> path, assigns |-> g]
           n == Len(scopes)
<1>1. /\ phase = "windows"
      /\ UNCHANGED <<handlers, byId, ids, wsets>>
      /\ doc' = Append(doc, entry)
  BY DEF ReadGroup, handlerVars
<1>2. IsList(g) /\ \A i \in DOMAIN g : IsAssignment(g[i])
  BY DocumentAssumption
<1>3. entry \in Entries /\ AssignsIn(entry) = ToSet(g) \cup (UNION {ToSet(path[k]) : k \in DOMAIN path})
  BY DEF Entries, TypesInv, DocInv, AssignsIn
<1> HIDE DEF entry
<1>4. Assignments \subseteq Assignments' /\ \A i \in DOMAIN g : g[i] \in Assignments'
  <2>1. Assignments \subseteq Assignments' /\ AssignsIn(entry) \subseteq Assignments'
    BY <1>1, <1>3, DocGrows DEF TypesInv, DocInv
  <2>2. \A i \in DOMAIN g : g[i] \in ToSet(g)
    BY DEF ToSet
  <2> QED BY <1>3, <2>1, <2>2
<1>5. /\ n \in Nat /\ n # 0 /\ Len(scopes') = n + 1
      /\ \A k \in 1..n : scopes'[k] = scopes[k]
      /\ \A id \in Ids : scopes'[n + 1].outputs[id] = Made(g, id, scopes[n].outputs)
  <2> DEFINE x == [outputs |-> [id \in Ids |-> Made(g, id, scopes[n].outputs)],
                   used |-> [id \in Ids |-> Scope.used[id] \/ Relevant(g, id) # {}]]
  <2>1. scopes' = Append(scopes, x)
    BY DEF ReadGroup, Made, Scope
  <2>2. \A id \in Ids : x.outputs[id] = Made(g, id, scopes[n].outputs)
    OBVIOUS
  <2> HIDE DEF x
  <2>3. Listed(scopes) /\ n = Len(path) + 1 /\ Len(path) \in Nat
    BY <1>1 DEF TypesInv, DocInv
  <2>4. /\ Len(scopes') = n + 1 /\ \A k \in 1..n : scopes'[k] = scopes[k]
        /\ scopes'[n + 1] = x
    BY <2>1, <2>3, ListedAppend
  <2> QED BY <2>2, <2>3, <2>4
<1> HIDE DEF n
<1>6. ASSUME NEW id \in ids
      PROVE  /\ \A k \in 1..(n + 1) : Listed(scopes'[k].outputs[id])
             /\ ListedSettings(wsets[id])
             /\ \A i \in WithId(id)' : ~Misfit(id)' =>
                   /\ SanityCheck(wsets[id], Len(handlers[i].inputs))
                   /\ \A k \in 1..(n + 1) :
                         Len(scopes'[k].outputs[id]) = Len(handlers[i].inputs)
  <2>1. id \in Ids /\ n \in 1..n /\ \A k \in 1..(n + 1) : k \in 1..n \/ k = n + 1
    BY <1>5 DEF TypesInv, IdsInv
  <2>2. /\ \A k \in 1..n : Listed(scopes[k].outputs[id])
        /\ ListedSettings(wsets[id])
        /\ \A i \in WithId(id) : ~Misfit(id) =>
              /\ SanityCheck(wsets[id], Len(handlers[i].inputs))
              /\ \A k \in 1..n : Len(scopes[k].outputs[id]) = Len(handlers[i].inputs)
    BY <1>1 DEF OutputsInv, n
  <2>3. /\ Listed(scopes'[n + 1].outputs[id])
        /\ \A m : /\ Len(scopes[n].outputs[id]) = m
                  /\ \A i \in DOMAIN g : g[i].id = id /\ g[i].how = "short"
                                            => Len(g[i].outs) = m
                  => Len(scopes'[n + 1].outputs[id]) = m
    BY <1>2, <1>5, <2>1, <2>2, MadeListed
  <2>4. ASSUME NEW i \in WithId(id)', ~Misfit(id)'
        PROVE  /\ SanityCheck(wsets[id], Len(handlers[i].inputs))
               /\ \A k \in 1..(n + 1) : Len(scopes'[k].outputs[id]) = Len(handlers[i].inputs)
    <3>1. /\ ~Misfit(id) /\ i \in WithId(id)
          /\ \A j \in DOMAIN g : g[j].id = id /\ g[j].how = "short"
                                    => Len(g[j].outs) = Len(handlers[i].inputs)
      BY <1>1, <1>4, <2>4, MisfitGrows
    <3>2. Len(scopes[n].outputs[id]) = Len(handlers[i].inputs)
      BY <2>1, <2>2, <3>1
    <3>3. Len(scopes'[n + 1].outputs[id]) = Len(handlers[i].inputs)
      BY <2>3, <3>1, <3>2
    <3> QED BY <1>5, <2>1, <2>2, <3>1, <3>3
  <2> QED BY <1>5, <2>1, <2>2, <2>3, <2>4
<1> QED BY <1>1, <1>5, <1>6 DEF OutputsInv

LEMMA EndGroupKeepsOutputs ==
    ASSUME IInv, TypesInv, OutputsInv, EndGroup
    PROVE  OutputsInv'
<1>1. /\ phase = "windows" /\ path # <<>> /\ scopes' = Front(scopes)
      /\ UNCHANGED <<handlers, ids, wsets, doc>>
  BY DEF EndGroup, handlerVars
<1>2. /\ Len(scopes) \in Nat /\ Len(scopes') = Len(scopes) - 1
      /\ \A k \in 1..Len(scopes') : k \in 1..Len(scopes) /\ scopes'[k] = scopes[k]
  <2>1. Listed(scopes) /\ Len(scopes) = Len(path) + 1 /\ Len(path) \in Nat /\ Len(path) # 0
    BY <1>1 DEF TypesInv, DocInv
  <2>2. scopes # <<>>
    BY <2>1
  <2> QED BY <1>1, <2>1, <2>2, ListedFront
<1>3. \A id : WithId(id)' = WithId(id)
  BY <1>1 DEF WithId, HasWindowSettings
<1>4. \A id : Misfit(id)' <=> Misfit(id)
  BY <1>1, <1>3, MisfitStays
<1> QED BY <1>1, <1>2, <1>3, <1>4 DEF OutputsInv

\* What readWindowSettings() keeps for an id.
LEMMA SettingsListed ==
    ASSUME NEW w \in WindowElements, NEW id, Listed(Scope.outputs[id])
    PROVE  /\ Listed(Settings(w, id).def)
           /\ DOMAIN Settings(w, id).titles =
                 {t \in DOMAIN w.titles : w.titles[t].assign.id = id}
           /\ \A t \in DOMAIN Settings(w, id).titles : Listed(Settings(w, id).titles[t].outs)
           /\ \A n : /\ Len(Scope.outputs[id]) = n
                     /\ \A i \in DOMAIN w.assigns :
                           w.assigns[i].id = id /\ w.assigns[i].how = "short"
                              => Len(w.assigns[i].outs) = n
                     /\ \A t \in DOMAIN w.titles :
                           w.titles[t].assign.id = id /\ w.titles[t].assign.how = "short"
                              => Len(w.titles[t].assign.outs) = n
                     => /\ Len(Settings(w, id).def) = n
                        /\ \A t \in DOMAIN Settings(w, id).titles :
                              Len(Settings(w, id).titles[t].outs) = n
<1> DEFINE def == Made(w.assigns, id, Scope.outputs)
           mine == {t \in DOMAIN w.titles : w.titles[t].assign.id = id}
           outs(t) == Outs(w.titles[t].assign, TitleParent(w.titles[t].assign))
<1>1. /\ IsList(w.assigns) /\ \A i \in DOMAIN w.assigns : IsAssignment(w.assigns[i])
      /\ IsList(w.titles) /\ \A t \in DOMAIN w.titles : IsAssignment(w.titles[t].assign)
  BY DocumentAssumption
<1>2. Settings(w, id) = [def |-> def,
                         titles |-> [t \in mine |-> [regex |-> w.titles[t].regex,
                                                     outs |-> outs(t)]]]
  BY DEF Settings, TitleEntries, Made
<1>3. /\ Settings(w, id).def = def
      /\ DOMAIN Settings(w, id).titles = mine
      /\ \A t \in mine : Settings(w, id).titles[t].outs = outs(t)
  <2> HIDE DEF def, mine, outs
  <2> QED BY <1>2
<1>4. /\ Listed(def)
      /\ \A n : /\ Len(Scope.outputs[id]) = n
                /\ \A i \in DOMAIN w.assigns : w.assigns[i].id = id /\ w.assigns[i].how = "short"
                                                  => Len(w.assigns[i].outs) = n
                => Len(def) = n
  BY <1>1, MadeListed
<1>5. ASSUME NEW t \in mine
      PROVE  /\ Listed(outs(t))
             /\ Len(outs(t)) = IF w.titles[t].assign.how = "short"
                               THEN Len(w.titles[t].assign.outs) ELSE Len(Scope.outputs[id])
  <2> DEFINE a == w.titles[t].assign
  <2>1. IsAssignment(a) /\ a.id = id
    BY <1>1
  <2>2. a.how = "long" => TitleParent(a) = Scope.outputs
    BY DEF TitleParent
  <2>3. a.how = "short" \/ a.how = "long"
    BY <2>1 DEF IsAssignment
  <2> HIDE DEF a
  <2>4. /\ Listed(Outs(a, TitleParent(a)))
        /\ Len(Outs(a, TitleParent(a))) = IF a.how = "short" THEN Len(a.outs)
                                          ELSE Len(TitleParent(a)[a.id])
    BY <2>1, <2>2, OutsListed
  <2>5. /\ Listed(Outs(a, TitleParent(a)))
        /\ Len(Outs(a, TitleParent(a))) = IF a.how = "short" THEN Len(a.outs)
                                          ELSE Len(Scope.outputs[id])
    BY <2>1, <2>2, <2>3, <2>4
  <2> QED BY <2>5 DEF a
<1>6. \A t \in mine : t \in DOMAIN w.titles /\ w.titles[t].assign.id = id
  OBVIOUS
<1> HIDE DEF def, outs
<1> QED BY <1>3, <1>4, <1>5, <1>6

LEMMA ReadWindowKeepsOutputs ==
    ASSUME IInv, TypesInv, OutputsInv, NEW w \in WindowElements, ReadWindow(w)
    PROVE  OutputsInv'
<1> DEFINE entry == [kind |-> "window", path |-> path, class |-> w.class,
                     assigns |-> w.assigns, titles |-> w.titles]
<1>1. /\ phase = "windows"
      /\ UNCHANGED <<handlers, byId, ids, scopes>>
      /\ doc' = Append(doc, entry)
  BY DEF ReadWindow, handlerVars, Seen
<1>2. /\ entry \in Entries
      /\ ToSet(w.assigns) \subseteq AssignsIn(entry)
      /\ {w.titles[t].assign : t \in DOMAIN w.titles} \subseteq AssignsIn(entry)
  <2>1. entry \in Entries
    BY DEF Entries, TypesInv, DocInv
  <2>2. entry.kind # "group" /\ entry.assigns = w.assigns /\ entry.titles = w.titles
    OBVIOUS
  <2> HIDE DEF entry
  <2>3. ToSet(w.assigns) \subseteq AssignsIn(entry)
    BY <2>2, Zenon DEF AssignsIn
  <2>4. {w.titles[t].assign : t \in DOMAIN w.titles} \subseteq AssignsIn(entry)
    <3> DEFINE S == {w.titles[t].assign : t \in DOMAIN w.titles}
    <3>1. AssignsIn(entry) = ToSet(entry.assigns)
             \cup (UNION {ToSet(entry.path[k]) : k \in DOMAIN entry.path}) \cup S
      BY <2>2 DEF AssignsIn
    <3> HIDE DEF S
    <3>2. S \subseteq AssignsIn(entry)
      BY <3>1, Zenon
    <3> QED BY <3>2 DEF S
  <2> QED BY <2>1, <2>3, <2>4
<1> HIDE DEF entry
<1>3. /\ Assignments \subseteq Assignments'
      /\ \A i \in DOMAIN w.assigns : w.assigns[i] \in Assignments'
      /\ \A t \in DOMAIN w.titles : w.titles[t].assign \in Assignments'
  <2>1. Assignments \subseteq Assignments' /\ AssignsIn(entry) \subseteq Assignments'
    BY <1>1, <1>2, DocGrows DEF TypesInv, DocInv
  <2>2. \A i \in DOMAIN w.assigns : w.assigns[i] \in ToSet(w.assigns)
    BY DEF ToSet
  <2> QED BY <1>2, <2>1, <2>2
<1>4. ASSUME NEW id \in ids
      PROVE  /\ \A k \in 1..Len(scopes) : Listed(scopes[k].outputs[id])
             /\ ListedSettings(wsets'[id])
             /\ \A i \in WithId(id)' : ~Misfit(id)' =>
                   /\ SanityCheck(wsets'[id], Len(handlers[i].inputs))
                   /\ \A k \in 1..Len(scopes) :
                         Len(scopes[k].outputs[id]) = Len(handlers[i].inputs)
  <2> DEFINE new == Insert(wsets[id].classes, w.class, Settings(w, id))
             s == Settings(w, id)
  <2>1. id \in Ids
    BY DEF TypesInv, IdsInv
  <2>2. /\ \A k \in 1..Len(scopes) : Listed(scopes[k].outputs[id])
        /\ ListedSettings(wsets[id])
        /\ \A i \in WithId(id) : ~Misfit(id) =>
              /\ SanityCheck(wsets[id], Len(handlers[i].inputs))
              /\ \A k \in 1..Len(scopes) : Len(scopes[k].outputs[id]) = Len(handlers[i].inputs)
    BY <1>1 DEF OutputsInv
  <2>3. Len(scopes) \in 1..Len(scopes)
    BY <1>1 DEF TypesInv, DocInv
  <2>4. Listed(Scope.outputs[id])
    BY <2>2, <2>3 DEF Scope
  <2>5. wsets'[id] = wsets[id] \/ wsets'[id] = [wsets[id] EXCEPT !.classes = new]
    BY <2>1 DEF ReadWindow
  <2>6. wsets[id] = [def |-> wsets[id].def, classes |-> wsets[id].classes]
    BY <2>1 DEF IInv, WsetsInv
  <2>7. /\ DOMAIN new = {w.class} \cup DOMAIN wsets[id].classes
        /\ \A c \in DOMAIN new : new[c] = IF c = w.class THEN s ELSE wsets[id].classes[c]
    BY DEF Insert
  <2> HIDE DEF new, s
  <2>8. /\ wsets'[id].def = wsets[id].def
        /\ wsets'[id].classes = wsets[id].classes \/ wsets'[id].classes = new
    BY <2>5, <2>6
  <2>9. /\ Listed(s.def)
        /\ \A t \in DOMAIN s.titles : Listed(s.titles[t].outs)
        /\ \A n : /\ Len(Scope.outputs[id]) = n
                  /\ \A i \in DOMAIN w.assigns :
                        w.assigns[i].id = id /\ w.assigns[i].how = "short"
                           => Len(w.assigns[i].outs) = n
                  /\ \A t \in DOMAIN w.titles :
                        w.titles[t].assign.id = id /\ w.titles[t].assign.how = "short"
                           => Len(w.titles[t].assign.outs) = n
                  => /\ Len(s.def) = n
                     /\ \A t \in DOMAIN s.titles : Len(s.titles[t].outs) = n
    BY <2>4, SettingsListed DEF s
  <2>10. ListedSettings(wsets'[id])
    BY <2>2, <2>7, <2>8, <2>9 DEF ListedSettings
  <2>11. ASSUME NEW i \in WithId(id)', ~Misfit(id)'
         PROVE  /\ SanityCheck(wsets'[id], Len(handlers[i].inputs))
                /\ \A k \in 1..Len(scopes) :
                      Len(scopes[k].outputs[id]) = Len(handlers[i].inputs)
    <3> DEFINE n == Len(handlers[i].inputs)
    <3>1. /\ ~Misfit(id) /\ i \in WithId(id)
          /\ \A a \in Assignments' : a.id = id /\ a.how = "short" => Len(a.outs) = n
      BY <1>1, <1>3, <2>11, MisfitGrows
    <3>2. /\ SanityCheck(wsets[id], n)
          /\ \A k \in 1..Len(scopes) : Len(scopes[k].outputs[id]) = n
      BY <2>2, <3>1
    <3>3. Len(Scope.outputs[id]) = n
      BY <2>3, <3>2 DEF Scope
    <3> HIDE DEF n
    <3>4. Len(s.def) = n /\ \A t \in DOMAIN s.titles : Len(s.titles[t].outs) = n
      BY <1>3, <2>9, <3>1, <3>3
    <3>5. SanityCheck(wsets'[id], n)
      BY <2>7, <2>8, <3>2, <3>4 DEF SanityCheck
    <3> QED BY <3>2, <3>5 DEF n
  <2> QED BY <2>2, <2>10, <2>11
<1> QED BY <1>1, <1>4 DEF OutputsInv

\* A change of the window, and everything else.
LEMMA WindowKeepsOutputs ==
    ASSUME IInv, TypesInv, OutputsInv, NEW w, ActiveWindowChanged(w),
           phase \in {"windows", "running"},
           UNCHANGED <<parserVars, wsets>>
    PROVE  OutputsInv'
<1>1. /\ \A id : WithId(id)' = WithId(id)
      /\ \A i \in DOMAIN handlers : handlers'[i].inputs = handlers[i].inputs
  BY WindowKeepsIds DEF IInv
<1>2. UNCHANGED <<ids, scopes, doc, wsets>>
  BY DEF parserVars
<1>3. \A id : \A i \in WithId(id) : i \in DOMAIN handlers
  BY DEF WithId
<1>4. \A id : Misfit(id)' <=> Misfit(id)
  <2> TAKE id
  <2>1. WithId(id)' = WithId(id)
    BY <1>1
  <2>2. \A i \in WithId(id) : handlers'[i].inputs = handlers[i].inputs
    BY <1>1, <1>3
  <2> QED BY <1>2, <2>1, <2>2, MisfitStays
<1>5. ASSUME NEW id \in ids
      PROVE  /\ \A k \in 1..Len(scopes) : Listed(scopes[k].outputs[id])
             /\ ListedSettings(wsets[id])
             /\ \A i \in WithId(id)' : ~Misfit(id)' =>
                   /\ SanityCheck(wsets[id], Len(handlers'[i].inputs))
                   /\ \A k \in 1..Len(scopes) :
                         Len(scopes[k].outputs[id]) = Len(handlers'[i].inputs)
  <2>1. /\ \A k \in 1..Len(scopes) : Listed(scopes[k].outputs[id])
        /\ ListedSettings(wsets[id])
        /\ \A i \in WithId(id) : ~Misfit(id) =>
              /\ SanityCheck(wsets[id], Len(handlers[i].inputs))
              /\ \A k \in 1..Len(scopes) : Len(scopes[k].outputs[id]) = Len(handlers[i].inputs)
    BY DEF OutputsInv
  <2>2. ASSUME NEW i \in WithId(id)'
        PROVE  i \in WithId(id) /\ handlers'[i].inputs = handlers[i].inputs
    BY <1>1, <1>3
  <2> QED BY <1>4, <2>1, <2>2
<1> QED BY <1>2, <1>5 DEF OutputsInv

LEMMA NextOutputs == IInv /\ TypesInv /\ TypesInv' /\ OutputsInv /\ [Next]_vars => OutputsInv'
<1> SUFFICES ASSUME IInv, TypesInv, TypesInv', OutputsInv, [Next]_vars PROVE OutputsInv'
  OBVIOUS
<1>1. CASE \E e \in HandlerElements : ReadHandler(e)
  BY <1>1 DEF ReadHandler, OutputsInv
<1>2. CASE NoHandlers \/ \E g \in GroupElements : ReadBadGroup(g)
  BY <1>2 DEF NoHandlers, ReadBadGroup, OutputsInv
<1>3. CASE Reread \/ \E w \in WindowElements : ReadBadWindow(w)
  BY <1>3 DEF Reread, ReadBadWindow, OutputsInv
<1>4. CASE Unreadable
  <2>1. phase = "handlers" /\ ids' = ids
    BY <1>4 DEF Unreadable, parserVars
  <2> QED BY <2>1 DEF TypesInv, BeforeInv, OutputsInv
<1>5. CASE BeginWindows
  BY <1>5, BeginWindowsKeepsOutputs
<1>6. CASE \E g \in GroupElements : ReadGroup(g)
  BY <1>6, ReadGroupKeepsOutputs
<1>7. CASE EndGroup
  BY <1>7, EndGroupKeepsOutputs
<1>8. CASE \E w \in WindowElements : ReadWindow(w)
  BY <1>8, ReadWindowKeepsOutputs
<1>9. CASE Start
  BY <1>9, WindowKeepsOutputs DEF Start
<1>10. CASE \E w \in Windows : ChangeWindow(w)
  BY <1>10, WindowKeepsOutputs DEF ChangeWindow
<1>11. CASE UNCHANGED vars
  <2>1. UNCHANGED <<phase, handlers, ids, scopes, wsets, doc>>
    BY <1>11 DEF vars, handlerVars, parserVars
  <2>2. \A id : WithId(id)' = WithId(id)
    BY <2>1 DEF WithId, HasWindowSettings
  <2>3. \A id : Misfit(id)' <=> Misfit(id)
    BY <2>1, <2>2, MisfitStays
  <2> QED BY <2>1, <2>2, <2>3 DEF OutputsInv
<1> QED
  BY <1>1, <1>2, <1>3, <1>4, <1>5, <1>6, <1>7, <1>8, <1>9, <1>10, <1>11 DEF Next, Parse

LEMMA NextIdle == IInv /\ TypesInv /\ IdleInv /\ [Next]_vars => IdleInv'
<1> SUFFICES ASSUME IInv, TypesInv, IdleInv, [Next]_vars, phase' = "running" PROVE IdleInv'
  BY DEF IdleInv
<1>1. CASE Start
  <2>1. wsets' = wsets /\ started' = {i \in DOMAIN handlers : HasWindowSettings(handlers[i]) =>
                    SanityCheck(wsets[handlers[i].id], Len(handlers[i].inputs))}
    BY <1>1 DEF Start
  <2>2. /\ DOMAIN handlers' = DOMAIN handlers
        /\ \A i \in DOMAIN handlers :
              /\ handlers'[i].id = handlers[i].id
              /\ handlers'[i].inputs = handlers[i].inputs
              /\ HasWindowSettings(handlers[i])' <=> HasWindowSettings(handlers[i])
    BY <1>1, WindowKeepsHandlers DEF Start, IInv
  <2>3. \A i \in DOMAIN handlers :
           SanityCheck(wsets'[handlers'[i].id], Len(handlers'[i].inputs))
              <=> SanityCheck(wsets[handlers[i].id], Len(handlers[i].inputs))
    BY <2>1, <2>2
  <2> QED BY <2>1, <2>2, <2>3 DEF IdleInv
<1>2. CASE \E w \in Windows : ChangeWindow(w)
  <2>1. wsets' = wsets /\ started' = started /\ phase = "running"
    BY <1>2 DEF ChangeWindow
  <2>2. /\ DOMAIN handlers' = DOMAIN handlers
        /\ \A i \in DOMAIN handlers :
              /\ handlers'[i].id = handlers[i].id
              /\ handlers'[i].inputs = handlers[i].inputs
              /\ HasWindowSettings(handlers[i])' <=> HasWindowSettings(handlers[i])
    BY <1>2, WindowKeepsHandlers DEF ChangeWindow, IInv
  <2>3. \A i \in DOMAIN handlers :
           SanityCheck(wsets'[handlers'[i].id], Len(handlers'[i].inputs))
              <=> SanityCheck(wsets[handlers[i].id], Len(handlers[i].inputs))
    BY <2>1, <2>2
  <2> QED BY <2>1, <2>2, <2>3 DEF IdleInv
<1>3. CASE Unreadable
  <2>1. handlers' = <<>>
    BY <1>3 DEF Unreadable, handlerVars, TypesInv, BeforeInv
  <2> QED BY <2>1 DEF IdleInv
<1>4. CASE UNCHANGED vars
  <2>1. UNCHANGED <<phase, handlers, started, wsets>>
    BY <1>4 DEF vars, handlerVars
  <2> QED BY <2>1 DEF IdleInv, SanityCheck, HasWindowSettings
<1>5. CASE ~(Start \/ (\E w \in Windows : ChangeWindow(w)) \/ Unreadable \/ UNCHANGED vars)
  BY <1>5 DEF Next, Parse, ReadHandler, NoHandlers, BeginWindows, ReadGroup, ReadBadGroup,
              EndGroup, ReadWindow, ReadBadWindow, Reread
<1> QED BY <1>1, <1>2, <1>3, <1>4, <1>5

LEMMA OutputsAlways == Spec => [](IInv /\ TypesInv /\ OutputsInv /\ IdleInv)
<1>1. Init => OutputsInv /\ IdleInv
  BY DEF Init, OutputsInv, IdleInv
<1>2. IInv /\ TypesInv /\ TypesInv' /\ OutputsInv /\ [Next]_vars => OutputsInv'
  BY NextOutputs
<1>3. IInv /\ TypesInv /\ IdleInv /\ [Next]_vars => IdleInv'
  BY NextIdle
<1> QED BY <1>1, <1>2, <1>3, TypesAlways, PTL DEF Spec

\* The sanity check refuses nothing that is right: for any document and any
\* devices, a device without a thread shares its id with one of another
\* number of signals, or has an assignment with too many or too few outputs.
THEOREM OnlyMisfitsThm == Spec => []OnlyMisfitsAreIdle
<1>1. IInv /\ TypesInv /\ OutputsInv /\ IdleInv => OnlyMisfitsAreIdle
  <2> SUFFICES ASSUME IInv, TypesInv, OutputsInv, IdleInv, phase = "running",
                      NEW i \in DOMAIN handlers \ started
               PROVE  Misfit(handlers[i].id)
    BY DEF OnlyMisfitsAreIdle
  <2>1. /\ HasWindowSettings(handlers[i])
        /\ ~SanityCheck(wsets[handlers[i].id], Len(handlers[i].inputs))
    BY DEF IdleInv
  <2>2. handlers[i].id \in Ids
    BY <2>1 DEF IInv, HandlersInv, WellFormed, HasWindowSettings
  <2>3. i \in WithId(handlers[i].id)
    BY <2>1 DEF WithId
  <2>4. handlers[i].id \in ids
    BY <2>2, <2>3 DEF TypesInv, IdsInv
  <2> QED BY <2>1, <2>3, <2>4 DEF OutputsInv
<1> QED BY <1>1, OutputsAlways, PTL

-----------------------------------------------------------------------------
(* When the parser reads what is not there.                                *)

\* A <long> for an id that has a device finds an output for each of its
\* signals, if there is one for every signal.
LEMMA LongIsDefined ==
    ASSUME TypesInv, phase = "windows", NEW id \in ids, NEW parent,
           \A i \in WithId(id) : Len(parent) = Len(handlers[i].inputs), NEW by
    PROVE  LongDefined(id, by, parent)
<1>1. id \in DOMAIN byId
  <2>1. PICK i : i \in WithId(id)
    BY DEF TypesInv, IdsInv
  <2> QED BY <2>1 DEF TypesInv, ByIdInv, WithId, HasWindowSettings
<1>2. IsList(byId[id])
  <2>1. PICK e \in HandlerElements : byId[id] = e.inputs
    BY <1>1 DEF TypesInv, ByIdInv
  <2>2. e.inputs \in Seq(STRING)
    BY HandlersAssumption
  <2> QED BY <2>1, <2>2, SeqIsListed
<1>3. ASSUME NEW key \in Assigned(id, by)
      PROVE  IndexOf(id, key) <= Len(parent)
  <2>1. IndexOf(id, key) \in DOMAIN byId[id]
    BY <1>2, IndexIsOne
  <2>2. byId[id] # <<>>
    BY <2>1
  <2>3. PICK i \in WithId(id) : byId[id] = handlers[i].inputs
    BY <1>1, <2>2 DEF TypesInv, ByIdInv
  <2>4. IndexOf(id, key) \in 1..Len(byId[id]) /\ Len(byId[id]) \in Nat
        /\ Len(parent) = Len(byId[id])
    BY <1>2, <2>1, <2>3 DEF IsList
  <2> HIDE DEF IndexOf
  <2> QED BY <2>4
<1> QED BY <1>1, <1>3 DEF LongDefined

\* What is wrong with an assignment the parser cannot read.
Flaw(a) ==
    /\ Inherits(a)
    /\ \/ a.how = "long" /\ a.id \notin ids
       \/ Misfit(a.id)
       \/ a.how = "short" /\ (a.outs[Len(a.outs)] = Tilde \/ a \in TitleAssignments)

\* A short assignment with a field for every input goes past what is inherited
\* with its last one only.
LEMMA ShortIsDefined ==
    ASSUME NEW outs, IsList(outs), NEW parent, Len(parent) = Len(outs),
           outs[Len(outs)] # Tilde
    PROVE  ShortDefined(outs, parent)
<1> SUFFICES ASSUME NEW i \in DOMAIN outs, outs[i] = Tilde
             PROVE  i + 1 <= Len(parent)
  BY DEF ShortDefined
<1>1. i \in 1..Len(outs) /\ Len(outs) \in Nat /\ i # Len(outs)
  BY DEF IsList
<1> QED BY <1>1

\* An assignment that is not defined has a flaw.
LEMMA BadIsFlawed ==
    ASSUME TypesInv, OutputsInv, phase = "windows", UNCHANGED <<handlers, ids>>,
           Assignments \subseteq Assignments',
           NEW a \in Assignments', IsAssignment(a),
           \/ ~HasSettings(a) \/ ~Defined(a, Scope.outputs)
           \/ a \in TitleAssignments' /\ ~Defined(a, TitleParent(a))
    PROVE  Flaw(a)'
<1>1. Inherits(a)' /\ (a.how = "long" \/ (a.how = "short" /\ IsList(a.outs)))
  <2>1. a.how = "long" \/ (a.how = "short" /\ IsList(a.outs))
    BY DEF IsAssignment
  <2>2. CASE a.how = "long"
    BY <2>1, <2>2 DEF Inherits
  <2>3. CASE a.how = "short"
    <3>1. PICK inherited : ~Defined(a, inherited)
      BY <2>3 DEF HasSettings
    <3>2. \E i \in DOMAIN a.outs : a.outs[i] = Tilde
      BY <2>3, <3>1 DEF Defined, ShortDefined
    <3> QED BY <2>1, <3>2 DEF Inherits
  <2> QED BY <2>1, <2>2, <2>3
<1>2. SUFFICES ASSUME ~Misfit(a.id)', a.how = "long" => a.id \in ids,
                      a.how = "short" => a.outs[Len(a.outs)] # Tilde
                                         /\ a \notin TitleAssignments'
               PROVE  FALSE
  BY <1>1 DEF Flaw
<1>3. ~Defined(a, Scope.outputs)
  BY <1>1, <1>2 DEF HasSettings, TitleParent
<1>4. a.id \in ids
  BY <1>1, <1>2, <1>3 DEF Defined, Counts
<1>5. /\ ~Misfit(a.id)
      /\ \A i \in WithId(a.id) : a.how = "short" => Len(a.outs) = Len(handlers[i].inputs)
  BY <1>2, MisfitGrows
<1>6. \A i \in WithId(a.id) : Len(Scope.outputs[a.id]) = Len(handlers[i].inputs)
  <2>1. Len(scopes) \in 1..Len(scopes)
    BY DEF TypesInv, DocInv
  <2> QED BY <1>4, <1>5, <2>1 DEF OutputsInv, Scope
<1>7. CASE a.how = "long"
  <2>1. LongDefined(a.id, a.by, Scope.outputs[a.id])
    BY <1>4, <1>6, LongIsDefined
  <2> QED BY <1>3, <1>7, <2>1 DEF Defined
<1>8. CASE a.how = "short"
  <2>1. Len(Scope.outputs[a.id]) = Len(a.outs)
    <3>1. PICK i : i \in WithId(a.id)
      BY <1>4 DEF TypesInv, IdsInv
    <3> QED BY <1>5, <1>6, <1>8, <3>1
  <2>2. ShortDefined(a.outs, Scope.outputs[a.id])
    BY <1>1, <1>2, <1>8, <2>1, ShortIsDefined
  <2> QED BY <1>3, <1>8, <2>2 DEF Defined
<1> QED BY <1>1, <1>7, <1>8

\* A <window> more adds the assignments of its titles.
LEMMA TitlesGrow ==
    ASSUME NEW e \in Entries, e.kind = "window", doc \in Seq(Entries), doc' = Append(doc, e)
    PROVE  {e.titles[t].assign : t \in DOMAIN e.titles} \subseteq TitleAssignments'
<1> DEFINE m == Len(doc)
<1>1. m + 1 \in DOMAIN doc' /\ doc'[m + 1] = e
  OBVIOUS
<1> HIDE DEF m
<1> QED BY <1>1 DEF TitleAssignments

LEMMA NextFlawed ==
    IInv /\ TypesInv /\ OutputsInv /\ UndefinedOnlyIfFlawed /\ [Next]_vars
        => UndefinedOnlyIfFlawed'
<1> SUFFICES ASSUME IInv, TypesInv, OutputsInv, UndefinedOnlyIfFlawed, [Next]_vars,
                    phase' = "undefined"
             PROVE  ~cached' \/ \E a \in Assignments' : Flaw(a)'
  BY DEF UndefinedOnlyIfFlawed, Flaw
<1>1. CASE \E g \in GroupElements : ReadBadGroup(g)
  <2>1. PICK g \in GroupElements : ReadBadGroup(g)
    BY <1>1
  <2> DEFINE entry == [kind |-> "group", path |-> path, assigns |-> g]
  <2>2. /\ phase = "windows" /\ UNCHANGED <<handlers, ids>>
        /\ doc' = Append(doc, entry)
    BY <2>1 DEF ReadBadGroup, handlerVars
  <2>3. PICK i \in DOMAIN g : ~Defined(g[i], Scope.outputs)
    BY <2>1 DEF ReadBadGroup
  <2>4. IsAssignment(g[i])
    BY DocumentAssumption
  <2>5. entry \in Entries /\ ToSet(g) \subseteq AssignsIn(entry)
    BY DEF Entries, TypesInv, DocInv, AssignsIn
  <2> HIDE DEF entry
  <2>6. g[i] \in Assignments' /\ Assignments \subseteq Assignments'
    <3>1. Assignments \subseteq Assignments' /\ AssignsIn(entry) \subseteq Assignments'
      BY <2>2, <2>5, DocGrows DEF TypesInv, DocInv
    <3>2. g[i] \in ToSet(g)
      BY DEF ToSet
    <3> QED BY <2>5, <3>1, <3>2
  <2>7. Flaw(g[i])'
    BY <2>2, <2>3, <2>4, <2>6, BadIsFlawed
  <2> QED BY <2>6, <2>7
<1>2. CASE \E w \in WindowElements : ReadBadWindow(w)
  <2>1. PICK w \in WindowElements : ReadBadWindow(w)
    BY <1>2
  <2> DEFINE entry == [kind |-> "window", path |-> path, class |-> w.class,
                       assigns |-> w.assigns, titles |-> w.titles]
             named == {w.titles[t].assign : t \in DOMAIN w.titles}
  <2>2. /\ phase = "windows" /\ UNCHANGED <<handlers, ids, cached>>
        /\ doc' = Append(doc, entry)
    BY <2>1 DEF ReadBadWindow, handlerVars, Seen
  <2>3. \/ ~cached
        \/ \E a \in ToSet(w.assigns) \cup named :
              \/ ~HasSettings(a) \/ ~Defined(a, Scope.outputs)
              \/ a \in named /\ ~Defined(a, TitleParent(a))
    <3>1. ~WindowDefined(w)
      BY <2>1 DEF ReadBadWindow
    <3>2. \A i \in DOMAIN w.assigns : w.assigns[i] \in ToSet(w.assigns)
      BY DEF ToSet
    <3> QED BY <3>1, <3>2 DEF WindowDefined
  <2>4. \A a \in ToSet(w.assigns) \cup named : IsAssignment(a)
    BY DocumentAssumption DEF ToSet
  <2>5. /\ entry \in Entries
        /\ entry.kind = "window" /\ entry.assigns = w.assigns /\ entry.titles = w.titles
    BY DEF Entries, TypesInv, DocInv
  <2> HIDE DEF entry
  <2>6. AssignsIn(entry) = ToSet(w.assigns)
           \cup (UNION {ToSet(entry.path[k]) : k \in DOMAIN entry.path}) \cup named
    BY <2>5 DEF AssignsIn
  <2>7. named \subseteq TitleAssignments'
    BY <2>2, <2>5, TitlesGrow DEF TypesInv, DocInv
  <2> HIDE DEF named
  <2>8. Assignments \subseteq Assignments' /\ AssignsIn(entry) \subseteq Assignments'
    BY <2>2, <2>5, DocGrows DEF TypesInv, DocInv
  <2>9. ToSet(w.assigns) \cup named \subseteq Assignments'
    BY <2>6, <2>8
  <2>10. CASE cached
    <3>1. PICK a \in ToSet(w.assigns) \cup named :
              \/ ~HasSettings(a) \/ ~Defined(a, Scope.outputs)
              \/ a \in TitleAssignments' /\ ~Defined(a, TitleParent(a))
      BY <2>3, <2>7, <2>10
    <3>2. a \in Assignments' /\ IsAssignment(a)
      BY <2>4, <2>9
    <3>3. Flaw(a)'
      BY <2>2, <2>8, <3>1, <3>2, BadIsFlawed
    <3> QED BY <3>2, <3>3
  <2> QED BY <2>2, <2>10
<1>3. CASE UNCHANGED vars
  <2>1. UNCHANGED <<phase, handlers, ids, cached, doc>>
    BY <1>3 DEF vars, handlerVars, parserVars
  <2>2. \A id : WithId(id)' = WithId(id)
    BY <2>1 DEF WithId, HasWindowSettings
  <2>3. \A id : Misfit(id)' <=> Misfit(id)
    BY <2>1, <2>2, MisfitStays
  <2>4. Assignments' = Assignments /\ TitleAssignments' = TitleAssignments
    BY <2>1 DEF Assignments, TitleAssignments
  <2>5. \A a : Flaw(a)' <=> Flaw(a)
    BY <2>1, <2>3, <2>4 DEF Flaw, Inherits
  <2> QED BY <2>1, <2>4, <2>5 DEF UndefinedOnlyIfFlawed, Flaw
<1>4. CASE Next /\ ~(\E g \in GroupElements : ReadBadGroup(g))
                /\ ~(\E w \in WindowElements : ReadBadWindow(w))
  BY <1>4 DEF Next, Parse, ReadHandler, NoHandlers, Unreadable, BeginWindows, ReadGroup,
              EndGroup, ReadWindow, Start, ChangeWindow, Reread
<1> QED BY <1>1, <1>2, <1>3, <1>4

\* The parser reads what is not there only where the document is flawed: what
\* inherits is for an id without a device or a misfit, a "~" is the last field
\* or in a title, or a <window> comes before any <device> was ever read.
THEOREM FlawedThm == Spec => []UndefinedOnlyIfFlawed
<1>1. Init => UndefinedOnlyIfFlawed
  BY DEF Init, UndefinedOnlyIfFlawed
<1>2. IInv /\ TypesInv /\ OutputsInv /\ UndefinedOnlyIfFlawed /\ [Next]_vars
         => UndefinedOnlyIfFlawed'
  BY NextFlawed
<1> QED BY <1>1, <1>2, OutputsAlways, PTL DEF Spec

-----------------------------------------------------------------------------
(* What the outputs say: the innermost element counts.                     *)

\* No device has a signal twice: of two, <long> would only mean the first.
NoRepeats ==
    \A e \in HandlerElements :
        \A i, j \in DOMAIN e.inputs : e.inputs[i] = e.inputs[j] => i = j

\* Signal by signal, the outputs are what the elements around say, but for
\* what a "~" makes of them.
Follows(outs, levels, id) ==
    \A p \in DOMAIN outs \cap DOMAIN byId[id] :
        Tilded(levels, id, byId[id], p) \/ outs[p] = Nearest(levels, id, byId[id], p)

\* The groups around what is read under the k-th set of outputs.
Around(k) == [j \in 1..(k - 1) |-> path[j]]

\* What a set of outputs and flags says of the ids, if levels are around it.
ScopeAgrees(s, levels) ==
    /\ DOMAIN s.outputs = Ids
    /\ \A id \in ids :
          /\ s.used[id] <=> \E j \in DOMAIN levels : Relevant(levels[j], id) # {}
          /\ Follows(s.outputs[id], levels, id)

ScopesInv ==
    phase = "windows" => \A k \in 1..Len(scopes) : ScopeAgrees(scopes[k], Around(k))

\* The <window>s that are about an id, and the last one of a class.
WindowsAbout(id) == {n \in DOMAIN doc : doc[n].kind = "window" /\ About(doc[n], id)}
Found(id, c) == doc[LastOf(WindowFor(id, [class |-> c]))]

\* What is kept of a <window> e is what it says.
SettingsFollow(s, e, id) ==
    /\ Follows(s.def, Append(e.path, e.assigns), id)
    /\ DOMAIN s.titles = {t \in DOMAIN e.titles : e.titles[t].assign.id = id}
    /\ \A t \in DOMAIN s.titles :
          /\ s.titles[t].regex = e.titles[t].regex
          /\ Follows(s.titles[t].outs, Append(e.path, <<e.titles[t].assign>>), id)

ClassesInv ==
    phase \in {"windows", "running"} =>
        \A id \in ids :
            /\ DOMAIN wsets[id].classes =
                  IF inputsForIds = {} THEN {} ELSE {doc[n].class : n \in WindowsAbout(id)}
            /\ \A c \in DOMAIN wsets[id].classes :
                  SettingsFollow(wsets[id].classes[c], Found(id, c), id)

\* What an id has if no <window> is about it are its <signal>s.
SignalsInv ==
    phase \in {"windows", "running"} =>
        \A id \in ids :
            LastOf(WithId(id)) \in WithId(id) /\ wsets[id].def = SignalsOf(id)

\* The outputs in use are those of the active window.
CurrentInv ==
    phase = "running" =>
        \A i \in DOMAIN handlers : HasWindowSettings(handlers[i]) =>
            handlers[i].outputs = GetOutputs(wsets[handlers[i].id], known)

\* The inputs <long> uses.
LEMMA KnownInputs ==
    ASSUME TypesInv, phase \in {"windows", "running"}, NEW id \in ids
    PROVE  /\ IsList(byId[id])
           /\ NoRepeats => \A i, j \in DOMAIN byId[id] : byId[id][i] = byId[id][j] => i = j
<1>1. PICK i : i \in WithId(id)
  BY DEF TypesInv, IdsInv
<1>2. id \in DOMAIN byId
  BY <1>1 DEF TypesInv, ByIdInv, WithId, HasWindowSettings
<1>3. PICK e \in HandlerElements : byId[id] = e.inputs
  BY <1>2 DEF TypesInv, ByIdInv
<1>4. e.inputs \in Seq(STRING)
  BY HandlersAssumption
<1>5. IsList(byId[id])
  BY <1>3, <1>4, SeqIsListed
<1> QED BY <1>3, <1>5 DEF NoRepeats

TheOne(S) == CHOOSE o \in S : TRUE

\* The elements around something, and g inside of them.
OneMore(levels, n, g, more) ==
    /\ n \in Nat
    /\ DOMAIN levels = 1..n /\ DOMAIN more = 1..(n + 1)
    /\ \A j \in 1..n : more[j] = levels[j]
    /\ more[n + 1] = g

LEMMA NearestAppend ==
    ASSUME NEW levels, NEW n, NEW g, NEW more, OneMore(levels, n, g, more),
           NEW id, NEW inputs, NEW p
    PROVE  Nearest(more, id, inputs, p) =
             IF Says(g, id, inputs, p) # {}
             THEN TheOne(Says(g, id, inputs, p))
             ELSE Nearest(levels, id, inputs, p)
<1> DEFINE ks == {k \in DOMAIN levels : Says(levels[k], id, inputs, p) # {}}
           ms == {k \in DOMAIN more : Says(more[k], id, inputs, p) # {}}
<1>1. /\ Nearest(levels, id, inputs, p) =
            IF ks = {} THEN SignalsOf(id)[p]
            ELSE TheOne(Says(levels[LastOf(ks)], id, inputs, p))
      /\ Nearest(more, id, inputs, p) =
            IF ms = {} THEN SignalsOf(id)[p]
            ELSE TheOne(Says(more[LastOf(ms)], id, inputs, p))
  BY DEF Nearest, TheOne
<1>0. /\ n \in Nat /\ DOMAIN levels = 1..n /\ DOMAIN more = 1..(n + 1)
      /\ \A j \in 1..n : more[j] = levels[j]
      /\ more[n + 1] = g
  BY DEF OneMore
<1>2. \A k \in 1..(n + 1) : k \in 1..n \/ k = n + 1
  BY <1>0
<1>3. \A k \in 1..n : k \in 1..(n + 1)
  BY <1>0
<1>4. n + 1 \in 1..(n + 1) /\ n + 1 \in Nat
  BY <1>0
<1>5. CASE Says(g, id, inputs, p) # {}
  <2>1. n + 1 \in ms /\ ms \in SUBSET (0..(n + 1)) /\ \A k \in ms : k <= n + 1
    BY <1>0, <1>4, <1>5
  <2> HIDE DEF ms
  <2>2. LastOf(ms) = n + 1
    BY <1>4, <2>1, LastOfUnique
  <2> QED BY <1>0, <1>1, <1>5, <2>1, <2>2
<1>6. CASE Says(g, id, inputs, p) = {}
  <2>1. ms = ks
    BY <1>0, <1>2, <1>3, <1>6
  <2>2. ks # {} => more[LastOf(ks)] = levels[LastOf(ks)]
    <3>1. ks \in SUBSET (0..n)
      BY <1>0
    <3>2. ks # {} => LastOf(ks) \in ks
      <4> HIDE DEF ks
      <4> QED BY <1>0, <3>1, LastOfIsOne
    <3> QED BY <1>0, <3>2
  <2> HIDE DEF ks, ms
  <2> QED BY <1>1, <1>6, <2>1, <2>2
<1> QED BY <1>5, <1>6

\* A "~" in g, or one further out of which g says nothing.
LEMMA TildedAppend ==
    ASSUME NEW levels, NEW n, NEW g, NEW more, OneMore(levels, n, g, more),
           NEW id, NEW inputs, NEW p,
           Asks(g, id, p) \/ (Tilded(levels, id, inputs, p) /\ Says(g, id, inputs, p) = {})
    PROVE  Tilded(more, id, inputs, p)
<1>1. /\ n \in Nat /\ DOMAIN levels = 1..n /\ DOMAIN more = 1..(n + 1)
      /\ \A j \in 1..n : more[j] = levels[j]
      /\ more[n + 1] = g
  BY DEF OneMore
<1>2. /\ \A k \in 1..(n + 1) : k \in 1..n \/ k = n + 1
      /\ \A k \in 1..n : k \in 1..(n + 1) /\ k < n + 1
      /\ n + 1 \in 1..(n + 1)
  BY <1>1
<1>3. CASE Asks(g, id, p)
  <2>1. Says(g, id, inputs, p) = {}
    <3> DEFINE a == g[LastOf(Relevant(g, id))]
    <3>1. a.how = "short" /\ p \in DOMAIN a.outs /\ a.outs[p] = Tilde
      BY <1>3 DEF Asks
    <3>2. Says(g, id, inputs, p) = {a.outs[q] : q \in DOMAIN a.outs \cap {p}} \ {Tilde}
      BY <1>3, <3>1 DEF Says, Asks
    <3> HIDE DEF a
    <3> QED BY <3>1, <3>2
  <2>2. \A j \in DOMAIN more : Says(more[j], id, inputs, p) # {} => j < n + 1
    BY <1>1, <1>2, <2>1
  <2>3. Asks(more[n + 1], id, p)
    BY <1>1, <1>3
  <2> QED BY <1>1, <1>2, <2>2, <2>3 DEF Tilded
<1>4. CASE Tilded(levels, id, inputs, p) /\ Says(g, id, inputs, p) = {}
  <2>1. PICK k \in DOMAIN levels :
           /\ Asks(levels[k], id, p)
           /\ \A j \in DOMAIN levels : Says(levels[j], id, inputs, p) # {} => j < k
    BY <1>4 DEF Tilded
  <2>2. k \in DOMAIN more /\ Asks(more[k], id, p)
    BY <1>1, <1>2, <2>1
  <2>3. \A j \in DOMAIN more : Says(more[j], id, inputs, p) # {} => j < k
    BY <1>1, <1>2, <1>4, <2>1
  <2> QED BY <2>2, <2>3 DEF Tilded
<1> QED BY <1>3, <1>4

\* What an assignment says of input p, and whether it has a "~" there.
Asked(a, p) == a.how = "short" /\ p \in DOMAIN a.outs /\ a.outs[p] = Tilde
Said(a, p) ==
    IF a.how = "short" THEN {a.outs[q] : q \in DOMAIN a.outs \cap {p}} \ {Tilde}
    ELSE {a.by[key] : key \in DOMAIN a.by \cap {byId[a.id][p]}}

\* What an assignment makes of inherited outputs is what it says, and where
\* it says nothing what was inherited.
LEMMA OutsFollow ==
    ASSUME NEW a, IsAssignment(a), NEW inherited,
           a.how = "long" => Listed(inherited[a.id]), IsList(byId[a.id]),
           \A i, j \in DOMAIN byId[a.id] : byId[a.id][i] = byId[a.id][j] => i = j,
           NEW p \in DOMAIN byId[a.id], p \in DOMAIN Outs(a, inherited), ~Asked(a, p)
    PROVE  IF Said(a, p) # {} THEN Outs(a, inherited)[p] = TheOne(Said(a, p))
           ELSE p \in DOMAIN inherited[a.id] /\ Outs(a, inherited)[p] = inherited[a.id][p]
<1> DEFINE out == Outs(a, inherited)
           short == {a.outs[q] : q \in DOMAIN a.outs \cap {p}} \ {Tilde}
           key == byId[a.id][p]
           long == {a.by[k] : k \in DOMAIN a.by \cap {key}}
<1>1. CASE a.how = "short"
  <2>1. out = [i \in DOMAIN a.outs |->
                 IF a.outs[i] = Tilde THEN inherited[a.id][i + 1] ELSE a.outs[i]]
    BY <1>1 DEF Outs, Short
  <2>2. p \in DOMAIN a.outs /\ a.outs[p] # Tilde
    BY <1>1, <2>1 DEF Asked
  <2>3. out[p] = a.outs[p] /\ short = {a.outs[p]} /\ TheOne({a.outs[p]}) = a.outs[p]
    BY <2>1, <2>2 DEF TheOne
  <2> HIDE DEF out, short
  <2>4. short # {} /\ out[p] = TheOne(short)
    BY <2>3
  <2> QED BY <1>1, <2>4 DEF out, short, Said
<1>2. CASE a.how # "short"
  <2> DEFINE parent == inherited[a.id]
  <2>1. out = [i \in DOMAIN parent |->
        IF \E k \in Assigned(a.id, a.by) : IndexOf(a.id, k) = i
        THEN a.by[byId[a.id][i]] ELSE parent[i]]
    BY <1>2 DEF Outs, Long
  <2>2. p \in DOMAIN parent
    BY <2>1
  <2>3. CASE key \in DOMAIN a.by
    <3>1. key \in Assigned(a.id, a.by)
      BY <2>3 DEF Assigned
    <3>2. IndexOf(a.id, key) = p
      <4>1. IndexOf(a.id, key) \in DOMAIN byId[a.id] /\ byId[a.id][IndexOf(a.id, key)] = key
        BY <3>1, IndexIsOne
      <4> QED BY <4>1
    <3>3. out[p] = a.by[key]
      BY <2>1, <2>2, <3>1, <3>2
    <3>4. long = {a.by[key]} /\ TheOne({a.by[key]}) = a.by[key]
      BY <2>3 DEF TheOne
    <3> HIDE DEF out, long
    <3>5. long # {} /\ out[p] = TheOne(long)
      BY <3>3, <3>4
    <3> QED BY <1>2, <3>5 DEF out, long, Said
  <2>4. CASE key \notin DOMAIN a.by
    <3>1. long = {}
      BY <2>4
    <3>2. ~\E k \in Assigned(a.id, a.by) : IndexOf(a.id, k) = p
      <4> SUFFICES ASSUME NEW k \in Assigned(a.id, a.by), IndexOf(a.id, k) = p
                   PROVE  FALSE
        OBVIOUS
      <4>1. byId[a.id][IndexOf(a.id, k)] = k
        BY IndexIsOne
      <4>2. k \in DOMAIN a.by
        BY DEF Assigned
      <4> QED BY <2>4, <4>1, <4>2
    <3>3. out[p] = parent[p]
      BY <2>1, <2>2, <3>2
    <3> QED BY <1>2, <2>2, <3>1, <3>3 DEF Said
  <2> QED BY <2>3, <2>4
<1> QED BY <1>1, <1>2

\* So what a list of assignments makes of outputs that follow the elements
\* around follows these and the list.
LEMMA MadeFollows ==
    ASSUME NEW g, IsList(g), \A i \in DOMAIN g : IsAssignment(g[i]),
           NEW id, IsList(byId[id]),
           \A i, j \in DOMAIN byId[id] : byId[id][i] = byId[id][j] => i = j,
           NEW levels, NEW n, NEW more, OneMore(levels, n, g, more),
           NEW inherited, Listed(inherited[id]), Follows(inherited[id], levels, id)
    PROVE  Follows(Made(g, id, inherited), more, id)
<1> SUFFICES ASSUME NEW p \in DOMAIN byId[id], p \in DOMAIN Made(g, id, inherited)
             PROVE  \/ Tilded(more, id, byId[id], p)
                    \/ Made(g, id, inherited)[p] = Nearest(more, id, byId[id], p)
  BY DEF Follows
<1>1. Nearest(more, id, byId[id], p) =
        IF Says(g, id, byId[id], p) # {} THEN TheOne(Says(g, id, byId[id], p))
        ELSE Nearest(levels, id, byId[id], p)
  BY NearestAppend
<1>0. \/ Asks(g, id, p)
      \/ Tilded(levels, id, byId[id], p) /\ Says(g, id, byId[id], p) = {}
      => Tilded(more, id, byId[id], p)
  BY TildedAppend
<1>2. CASE Relevant(g, id) = {}
  <2>1. Says(g, id, byId[id], p) = {}
    BY <1>2 DEF Says
  <2> QED BY <1>0, <1>1, <1>2, <2>1 DEF Made, Follows
<1>3. CASE Relevant(g, id) # {}
  <2> DEFINE a == g[LastOf(Relevant(g, id))]
  <2>1. IsAssignment(a) /\ a.id = id
    BY <1>3, RelevantIsOne
  <2>2. Says(g, id, byId[id], p) = Said(a, p) /\ (Asks(g, id, p) <=> Asked(a, p))
    BY <1>3, <2>1 DEF Says, Said, Asks, Asked
  <2>3. Made(g, id, inherited) = Outs(a, inherited)
    BY <1>3 DEF Made
  <2> HIDE DEF a
  <2>4. CASE ~Asked(a, p)
    <3> SUFFICES IF Said(a, p) # {} THEN Outs(a, inherited)[p] = TheOne(Said(a, p))
                 ELSE p \in DOMAIN inherited[id] /\ Outs(a, inherited)[p] = inherited[id][p]
      BY <1>0, <1>1, <1>3, <2>2, <2>3 DEF Follows
    <3>1. /\ a.how = "long" => Listed(inherited[a.id])
          /\ IsList(byId[a.id])
          /\ \A i, j \in DOMAIN byId[a.id] : byId[a.id][i] = byId[a.id][j] => i = j
          /\ p \in DOMAIN byId[a.id] /\ p \in DOMAIN Outs(a, inherited)
      BY <2>1, <2>3
    <3>2. IF Said(a, p) # {} THEN Outs(a, inherited)[p] = TheOne(Said(a, p))
          ELSE p \in DOMAIN inherited[a.id] /\ Outs(a, inherited)[p] = inherited[a.id][p]
      BY <2>1, <2>4, <3>1, OutsFollow
    <3> QED BY <2>1, <3>2
  <2>5. CASE Asked(a, p)
    BY <1>0, <2>2, <2>5
  <2> QED BY <2>4, <2>5
<1> QED BY <1>2, <1>3

\* The elements that say something of input p of an id.
Saying(levels, id, inputs, p) == {k \in DOMAIN levels : Says(levels[k], id, inputs, p) # {}}

LEMMA SignalsStay ==
    ASSUME handlers' = handlers
    PROVE  \A id : SignalsOf(id)' = SignalsOf(id) /\ WithId(id)' = WithId(id)
BY DEF SignalsOf, WithId, HasWindowSettings

\* What is nearest stays so while the ids and the <signal>s do.
LEMMA NearestStays ==
    ASSUME ids' = ids, NEW id, SignalsOf(id)' = SignalsOf(id)
    PROVE  /\ \A levels, inputs, p :
                 /\ Nearest(levels, id, inputs, p)' = Nearest(levels, id, inputs, p)
                 /\ Tilded(levels, id, inputs, p)' <=> Tilded(levels, id, inputs, p)
           /\ \A g : Relevant(g, id)' = Relevant(g, id)
<1>1. \A g : Relevant(g, id)' = Relevant(g, id)
  BY DEF Relevant, Counts
<1>2. \A g, inputs, p : /\ Says(g, id, inputs, p)' = Says(g, id, inputs, p)
                        /\ Asks(g, id, p)' <=> Asks(g, id, p)
  BY <1>1 DEF Says, Asks
<1>3. ASSUME NEW levels, NEW inputs, NEW p
      PROVE  Nearest(levels, id, inputs, p)' = Nearest(levels, id, inputs, p)
  <2>1. Nearest(levels, id, inputs, p) =
           IF Saying(levels, id, inputs, p) = {} THEN SignalsOf(id)[p]
           ELSE TheOne(Says(levels[LastOf(Saying(levels, id, inputs, p))], id, inputs, p))
    BY DEF Nearest, TheOne, Saying
  <2>2. Nearest(levels, id, inputs, p)' =
           IF Saying(levels, id, inputs, p)' = {} THEN SignalsOf(id)'[p]
           ELSE TheOne(Says(levels[LastOf(Saying(levels, id, inputs, p))], id, inputs, p)')
    BY DEF Nearest, TheOne, Saying
  <2>3. Saying(levels, id, inputs, p)' = Saying(levels, id, inputs, p)
    BY <1>2 DEF Saying
  <2> QED BY <1>2, <2>1, <2>2, <2>3
<1>4. \A levels, inputs, p : Tilded(levels, id, inputs, p)' <=> Tilded(levels, id, inputs, p)
  BY <1>2 DEF Tilded
<1> QED BY <1>1, <1>3, <1>4

LEMMA FollowsStays ==
    ASSUME ids' = ids, byId' = byId, NEW id, SignalsOf(id)' = SignalsOf(id)
    PROVE  \A outs, levels : Follows(outs, levels, id)' <=> Follows(outs, levels, id)
BY NearestStays DEF Follows

LEMMA ScopeStays ==
    ASSUME ids' = ids, byId' = byId, \A id \in ids : SignalsOf(id)' = SignalsOf(id)
    PROVE  \A s, levels : ScopeAgrees(s, levels)' <=> ScopeAgrees(s, levels)
<1>1. \A id \in ids : /\ \A outs, levels : Follows(outs, levels, id)' <=> Follows(outs, levels, id)
                      /\ \A g : Relevant(g, id)' = Relevant(g, id)
  BY FollowsStays, NearestStays
<1> QED BY <1>1 DEF ScopeAgrees

LEMMA SettingsStay ==
    ASSUME ids' = ids, byId' = byId, NEW id, SignalsOf(id)' = SignalsOf(id)
    PROVE  \A s, e : SettingsFollow(s, e, id)' <=> SettingsFollow(s, e, id)
<1>1. \A outs, levels : Follows(outs, levels, id)' <=> Follows(outs, levels, id)
  BY FollowsStays
<1> QED BY <1>1 DEF SettingsFollow

NearInv == ScopesInv /\ ClassesInv /\ SignalsInv /\ CurrentInv

LEMMA AroundStays ==
    ASSUME NEW k, \A j \in 1..(k - 1) : path'[j] = path[j]
    PROVE  Around(k)' = Around(k)
BY DEF Around

\* The settings say the same of a document with a <group> more.
LEMMA ClassesStay ==
    ASSUME TypesInv, ClassesInv, phase \in {"windows", "running"},
           UNCHANGED <<ids, byId, wsets, inputsForIds>>,
           \A id \in ids : SignalsOf(id)' = SignalsOf(id),
           doc' = doc \/ \E e \in Entries : e.kind = "group" /\ doc' = Append(doc, e)
    PROVE  ClassesInv'
<1> DEFINE m == Len(doc)
<1>1. m \in Nat /\ DOMAIN doc = 1..m
  BY DEF TypesInv, DocInv
<1>2. /\ DOMAIN doc' = 1..m \/ (DOMAIN doc' = 1..(m + 1) /\ doc'[m + 1].kind # "window")
      /\ \A n \in 1..m : doc'[n] = doc[n]
  BY <1>1 DEF TypesInv, DocInv
<1> HIDE DEF m
<1>3. \A n : n \in 1..(m + 1) => n \in 1..m \/ n = m + 1
  BY <1>1
<1>4. \A n : n \in 1..m => n \in 1..(m + 1)
  BY <1>1
<1>5. \A e, id : About(e, id)' <=> About(e, id)
  BY DEF About, Mentions, Relevant, Counts
<1>6. \A n : n \in DOMAIN doc' /\ doc'[n].kind = "window"
                <=> n \in DOMAIN doc /\ doc[n].kind = "window"
  BY <1>1, <1>2, <1>3, <1>4
<1>7. \A n \in DOMAIN doc : doc'[n] = doc[n]
  BY <1>1, <1>2
<1>8. \A id, w : WindowFor(id, w)' = WindowFor(id, w)
  BY <1>5, <1>6, <1>7 DEF WindowFor
<1>9. \A id : WindowsAbout(id)' = WindowsAbout(id)
  BY <1>5, <1>6, <1>7 DEF WindowsAbout
<1>10. ASSUME NEW id \in ids
       PROVE  /\ DOMAIN wsets[id].classes =
                    IF inputsForIds = {} THEN {} ELSE {doc'[n].class : n \in WindowsAbout(id)'}
              /\ \A c \in DOMAIN wsets[id].classes :
                    SettingsFollow(wsets[id].classes[c], Found(id, c), id)'
  <2>1. /\ DOMAIN wsets[id].classes =
              IF inputsForIds = {} THEN {} ELSE {doc[n].class : n \in WindowsAbout(id)}
        /\ \A c \in DOMAIN wsets[id].classes :
              SettingsFollow(wsets[id].classes[c], Found(id, c), id)
    BY DEF ClassesInv
  <2>2. {doc'[n].class : n \in WindowsAbout(id)'} = {doc[n].class : n \in WindowsAbout(id)}
    BY <1>7, <1>9 DEF WindowsAbout
  <2>3. ASSUME NEW c \in DOMAIN wsets[id].classes
        PROVE  Found(id, c)' = Found(id, c)
    <3> DEFINE ns == WindowFor(id, [class |-> c])
    <3>1. ns # {}
      BY <2>1 DEF WindowFor, WindowsAbout
    <3>2. ns \in SUBSET DOMAIN doc
      BY DEF WindowFor
    <3>3. ns' = ns
      BY <1>8
    <3>4. Found(id, c) = doc[LastOf(ns)] /\ Found(id, c)' = doc'[LastOf(ns')]
      BY DEF Found
    <3> HIDE DEF ns
    <3>5. ns \in SUBSET (0..m)
      BY <1>1, <3>2
    <3>6. LastOf(ns) \in DOMAIN doc
      BY <1>1, <3>1, <3>2, <3>5, LastOfIsOne
    <3> QED BY <1>7, <3>3, <3>4, <3>6
  <2>4. ASSUME NEW c \in DOMAIN wsets[id].classes
        PROVE  SettingsFollow(wsets[id].classes[c], Found(id, c), id)'
    <3>1. \A s, e : SettingsFollow(s, e, id)' <=> SettingsFollow(s, e, id)
      BY SettingsStay
    <3> QED BY <2>1, <2>3, <2>4, <3>1
  <2> QED BY <2>1, <2>2, <2>4
<1> QED BY <1>10 DEF ClassesInv

LEMMA BeginWindowsKeepsNear ==
    ASSUME IInv, TypesInv, BeginWindows
    PROVE  NearInv'
<1>1. /\ phase = "handlers" /\ phase' = "windows" /\ path' = path /\ doc' = <<>>
      /\ ids' \subseteq Ids
  BY DEF BeginWindows, TypesInv, BeforeInv
<1>4. SignalsInv'
  <2> SUFFICES ASSUME NEW id \in ids'
               PROVE  LastOf(WithId(id))' \in WithId(id)' /\ wsets'[id].def = SignalsOf(id)'
    BY DEF SignalsInv
  <2>1. handlers' = handlers /\ handlers \in Seq(Fresh)
    BY DEF BeginWindows, handlerVars, IInv
  <2>2. wsets[id] = [def |-> <<>>, classes |-> NoClasses]
    BY <1>1 DEF TypesInv, BeforeInv, NoSettings
  <2>3. wsets'[id] = [wsets[id] EXCEPT !.def = handlers[LastOf(WithId(id))].outputs]
    BY <1>1 DEF BeginWindows
  <2>4. wsets'[id].def = handlers[LastOf(WithId(id))].outputs
    BY <2>2, <2>3
  <2>5. LastOf(WithId(id)) \in WithId(id)
    <3>1. WithId(id) # {} /\ WithId(id) \in SUBSET (0..Len(handlers)) /\ Len(handlers) \in Nat
      BY <1>1, <2>1 DEF BeginWindows, WithId
    <3> QED BY <3>1, LastOfIsOne
  <2>6. handlers[LastOf(WithId(id))].outputs = handlers[LastOf(WithId(id))].signals
    <3>1. PICK l : l = LastOf(WithId(id))
      OBVIOUS
    <3>2. handlers[l] \in Fresh
      BY <2>1, <2>5, <3>1 DEF WithId
    <3>3. handlers[l].outputs = handlers[l].signals
      BY <3>2 DEF Fresh
    <3> QED BY <3>1, <3>3
  <2>7. SignalsOf(id)' = SignalsOf(id) /\ WithId(id)' = WithId(id)
    BY <2>1, SignalsStay
  <2>8. wsets'[id].def = SignalsOf(id)'
    <3>1. SignalsOf(id) = handlers[LastOf(WithId(id))].signals
      BY DEF SignalsOf
    <3> QED BY <2>4, <2>6, <2>7, <3>1
  <2> QED BY <2>5, <2>7, <2>8
<1>2. ScopesInv'
  <2>1. PICK s : s = [outputs |-> [id \in Ids |-> wsets'[id].def],
                      used |-> [id \in Ids |-> FALSE]]
    OBVIOUS
  <2>2. /\ scopes' = <<s>>
        /\ DOMAIN s.outputs = Ids
        /\ \A id \in Ids : s.outputs[id] = wsets'[id].def /\ s.used[id] = FALSE
    BY <2>1 DEF BeginWindows
  <2>3. Len(scopes') = 1 /\ scopes'[1] = s
    BY <2>2
  <2>4. DOMAIN Around(1)' = {}
    BY DEF Around
  <2>5. \A id, inputs, p : Nearest(Around(1), id, inputs, p)' = SignalsOf(id)'[p]
    BY <2>4 DEF Nearest
  <2>6. ASSUME NEW id \in ids'
        PROVE  /\ s.used[id] <=> \E j \in DOMAIN Around(1)' : Relevant(Around(1)[j], id)' # {}
               /\ Follows(s.outputs[id], Around(1), id)'
    <3>1. s.used[id] = FALSE /\ s.outputs[id] = wsets'[id].def
      BY <1>1, <2>2
    <3>2. wsets'[id].def = SignalsOf(id)'
      BY <1>1, <1>4 DEF SignalsInv
    <3> QED BY <2>4, <2>5, <3>1, <3>2 DEF Follows
  <2> QED BY <2>2, <2>3, <2>6 DEF ScopesInv, ScopeAgrees
<1>3. ClassesInv'
  <2>1. \A id \in ids' : wsets'[id].classes = NoClasses
    <3> SUFFICES ASSUME NEW id \in ids' PROVE wsets'[id].classes = NoClasses
      OBVIOUS
    <3>1. wsets[id] = [def |-> <<>>, classes |-> NoClasses]
      BY <1>1 DEF TypesInv, BeforeInv, NoSettings
    <3>2. PICK d : wsets'[id] = [wsets[id] EXCEPT !.def = d] \/ wsets'[id] = wsets[id]
      BY <1>1 DEF BeginWindows
    <3> QED BY <3>1, <3>2
  <2>2. DOMAIN NoClasses = {}
    BY DEF NoClasses
  <2>3. \A id : WindowsAbout(id)' = {}
    BY <1>1 DEF WindowsAbout
  <2> QED BY <2>1, <2>2, <2>3 DEF ClassesInv
<1> QED BY <1>1, <1>2, <1>3, <1>4 DEF NearInv, CurrentInv

\* Where the parser is inherits from the groups that are open.
LEMMA ReadGroupKeepsNear ==
    ASSUME NoRepeats, IInv, TypesInv, OutputsInv, NearInv,
           NEW g \in GroupElements, ReadGroup(g)
    PROVE  NearInv'
<1>0. PICK n : n = Len(scopes)
  OBVIOUS
<1>1. /\ phase = "windows" /\ phase' = "windows"
      /\ UNCHANGED <<ids, byId, wsets, inputsForIds>>
      /\ \A id : SignalsOf(id)' = SignalsOf(id) /\ WithId(id)' = WithId(id)
      /\ path' = Append(path, g)
      /\ doc' = Append(doc, [kind |-> "group", path |-> path, assigns |-> g])
  BY SignalsStay DEF ReadGroup, handlerVars
<1>2. /\ IsList(g) /\ \A i \in DOMAIN g : IsAssignment(g[i])
      /\ ids \subseteq Ids
  BY DocumentAssumption DEF TypesInv, IdsInv
<1>3. PICK s : s = [outputs |-> [id \in Ids |-> Made(g, id, Scope.outputs)],
                    used |-> [id \in Ids |-> Scope.used[id] \/ Relevant(g, id) # {}]]
  OBVIOUS
<1>4. scopes' = Append(scopes, s)
  BY <1>3 DEF ReadGroup, Made
<1>5. /\ DOMAIN s.outputs = Ids
      /\ \A id \in Ids : s.outputs[id] = Made(g, id, Scope.outputs)
  BY <1>3
<1>6. \A id \in Ids : s.used[id] <=> Scope.used[id] \/ Relevant(g, id) # {}
  BY <1>3, Zenon
<1>7. /\ Len(path) \in Nat /\ n = Len(path) + 1
      /\ \A j \in 1..Len(path) : path'[j] = path[j]
      /\ path'[n] = g
  BY <1>0, <1>1 DEF TypesInv, DocInv
<1>8. /\ Len(scopes') = n + 1 /\ \A k \in 1..n : scopes'[k] = scopes[k]
      /\ scopes'[n + 1] = s
  BY <1>0, <1>4, ListedAppend DEF TypesInv, DocInv
<1>9. n \in 1..n /\ n \in Nat /\ \A k \in 1..(n + 1) : k \in 1..n \/ k = n + 1
  BY <1>7
<1>10. \A t, levels : ScopeAgrees(t, levels)' <=> ScopeAgrees(t, levels)
  BY <1>1, ScopeStays
<1>11. \A k \in 1..n : Around(k)' = Around(k)
  <2> TAKE k \in 1..n
  <2>1. \A j \in 1..(k - 1) : j \in 1..Len(path)
    BY <1>7
  <2>2. \A j \in 1..(k - 1) : path'[j] = path[j]
    BY <1>7, <2>1
  <2> QED BY <2>2, AroundStays
<1>12. ScopeAgrees(Scope, Around(n))
  BY <1>0, <1>1, <1>9 DEF NearInv, ScopesInv, Scope
<1>13. OneMore(Around(n), n - 1, g, Around(n + 1)')
  <2>1. /\ Around(n) = [j \in 1..(n - 1) |-> path[j]]
        /\ Around(n + 1)' = [j \in 1..((n + 1) - 1) |-> path'[j]]
    BY DEF Around
  <2>2. (n + 1) - 1 = n /\ (n - 1) + 1 = n /\ n - 1 \in Nat /\ n - 1 = Len(path)
    BY <1>7
  <2> QED BY <1>7, <1>9, <2>1, <2>2 DEF OneMore
<1>14. ASSUME NEW id \in ids
       PROVE  /\ s.used[id] <=> \E j \in DOMAIN Around(n + 1)' : Relevant(Around(n + 1)'[j], id) # {}
              /\ Follows(s.outputs[id], Around(n + 1)', id)
  <2>1. id \in Ids
    BY <1>2
  <2>2. /\ Scope.used[id] <=> \E j \in DOMAIN Around(n) : Relevant(Around(n)[j], id) # {}
        /\ Follows(Scope.outputs[id], Around(n), id)
    BY <1>12 DEF ScopeAgrees
  <2>3. s.used[id] <=> \E j \in DOMAIN Around(n + 1)' : Relevant(Around(n + 1)'[j], id) # {}
    <3> DEFINE levels == Around(n)
               more == Around(n + 1)'
    <3>1. /\ DOMAIN levels = 1..(n - 1) /\ DOMAIN more = 1..((n - 1) + 1)
          /\ \A j \in 1..(n - 1) : more[j] = levels[j]
          /\ more[(n - 1) + 1] = g
      BY <1>13 DEF OneMore
    <3>2. (n - 1) + 1 = n /\ \A j \in 1..n : j \in 1..(n - 1) \/ j = n
      BY <1>9
    <3>3. \A j \in 1..(n - 1) : j \in 1..n
      BY <1>9
    <3> HIDE DEF levels, more
    <3>4. (\E j \in DOMAIN more : Relevant(more[j], id) # {})
             <=> (\E j \in DOMAIN levels : Relevant(levels[j], id) # {}) \/ Relevant(g, id) # {}
      BY <1>9, <3>1, <3>2, <3>3
    <3>5. s.used[id] <=> Scope.used[id] \/ Relevant(g, id) # {}
      BY <1>6, <2>1
    <3>6. Scope.used[id] <=> \E j \in DOMAIN levels : Relevant(levels[j], id) # {}
      BY <2>2 DEF levels
    <3>7. s.used[id] <=> \E j \in DOMAIN more : Relevant(more[j], id) # {}
      BY <3>4, <3>5, <3>6, Zenon
    <3> QED BY <3>7 DEF more
  <2>4. Follows(s.outputs[id], Around(n + 1)', id)
    <3>1. Listed(Scope.outputs[id])
      BY <1>0, <1>1, <1>9 DEF OutputsInv, Scope
    <3>2. /\ IsList(byId[id])
          /\ \A i, j \in DOMAIN byId[id] : byId[id][i] = byId[id][j] => i = j
      BY <1>1, KnownInputs
    <3>3. Follows(Made(g, id, Scope.outputs), Around(n + 1)', id)
      BY <1>2, <1>13, <2>2, <3>1, <3>2, MadeFollows
    <3> QED BY <1>5, <2>1, <3>3
  <2> QED BY <2>3, <2>4
<1>15. ScopeAgrees(s, Around(n + 1)')
  BY <1>5, <1>14 DEF ScopeAgrees
<1>16. ScopesInv'
  <2>1. ASSUME NEW k \in 1..(n + 1)
        PROVE  ScopeAgrees(scopes[k], Around(k))'
    <3>1. CASE k \in 1..n
      <4>1. ScopeAgrees(scopes[k], Around(k))
        BY <1>0, <1>1, <3>1 DEF NearInv, ScopesInv
      <4> QED BY <1>8, <1>10, <1>11, <3>1, <4>1
    <3>2. CASE k = n + 1
      BY <1>8, <1>10, <1>15, <3>2
    <3> QED BY <1>9, <3>1, <3>2
  <2> QED BY <1>8, <2>1 DEF ScopesInv
<1>17. ClassesInv'
  <2> DEFINE e == [kind |-> "group", path |-> path, assigns |-> g]
  <2>1. e \in Entries /\ e.kind = "group"
    BY DEF Entries, TypesInv, DocInv
  <2> HIDE DEF e
  <2>2. \E f \in Entries : f.kind = "group" /\ doc' = Append(doc, f)
    BY <1>1, <2>1 DEF e
  <2> QED BY <1>1, <2>2, ClassesStay DEF NearInv
<1>18. SignalsInv'
  BY <1>1 DEF NearInv, SignalsInv
<1> QED BY <1>1, <1>16, <1>17, <1>18 DEF NearInv, CurrentInv

LEMMA EndGroupKeepsNear ==
    ASSUME TypesInv, NearInv, EndGroup
    PROVE  NearInv'
<1>1. /\ phase = "windows" /\ phase' = "windows" /\ path # <<>>
      /\ UNCHANGED <<ids, byId, wsets, inputsForIds, doc>>
      /\ \A id : SignalsOf(id)' = SignalsOf(id) /\ WithId(id)' = WithId(id)
      /\ path' = Front(path) /\ scopes' = Front(scopes)
  BY SignalsStay DEF EndGroup, handlerVars
<1>2. /\ Listed(path) /\ Listed(scopes) /\ Len(scopes) = Len(path) + 1 /\ Len(path) \in Nat
  BY <1>1, SeqIsListed DEF TypesInv, DocInv
<1>3. /\ Len(path) # 0 /\ \A j \in 1..(Len(path) - 1) : path'[j] = path[j]
  BY <1>1, <1>2, ListedFront
<1>4. /\ Len(scopes') = Len(path) /\ \A k \in 1..Len(path) : scopes'[k] = scopes[k]
  <2>1. scopes # <<>>
    BY <1>2
  <2> QED BY <1>1, <1>2, <2>1, ListedFront
<1>5. \A s, levels : ScopeAgrees(s, levels)' <=> ScopeAgrees(s, levels)
  BY <1>1, ScopeStays
<1>6. ScopesInv'
  <2>1. ASSUME NEW k \in 1..Len(path)
        PROVE  ScopeAgrees(scopes[k], Around(k))'
    <3>1. \A j \in 1..(k - 1) : j \in 1..(Len(path) - 1)
      BY <1>2
    <3>2. Around(k)' = Around(k)
      BY <1>3, <3>1, AroundStays
    <3>3. k \in 1..Len(scopes)
      BY <1>2
    <3>4. ScopeAgrees(scopes[k], Around(k))
      BY <1>1, <3>3 DEF NearInv, ScopesInv
    <3> QED BY <1>4, <1>5, <3>2, <3>4
  <2> QED BY <1>4, <2>1 DEF ScopesInv
<1>7. ClassesInv'
  BY <1>1, ClassesStay DEF NearInv
<1>8. SignalsInv'
  BY <1>1 DEF NearInv, SignalsInv
<1> QED BY <1>1, <1>6, <1>7, <1>8 DEF NearInv, CurrentInv

\* What readWindowSettings() keeps is what the <window> and the groups around
\* it say.
LEMMA SettingsFollowWindow ==
    ASSUME NoRepeats, IInv, TypesInv, OutputsInv, NearInv, phase = "windows",
           NEW w \in WindowElements, NEW e,
           e.path = path, e.assigns = w.assigns, e.titles = w.titles, NEW id \in ids
    PROVE  SettingsFollow(Settings(w, id), e, id)
<1> DEFINE n == Len(path)
           out == Scope.outputs
           mine == {t \in DOMAIN w.titles : w.titles[t].assign.id = id}
<1>1. /\ n \in Nat /\ Len(scopes) = n + 1 /\ Len(scopes) \in 1..Len(scopes)
      /\ Listed(path) /\ DOMAIN path = 1..n
      /\ Around(Len(scopes)) = [j \in 1..n |-> path[j]]
  <2>1. n \in Nat /\ Len(scopes) = n + 1 /\ Listed(path) /\ DOMAIN path = 1..n
    BY SeqIsListed DEF TypesInv, DocInv
  <2>2. Len(scopes) - 1 = n
    BY <2>1
  <2> QED BY <2>1, <2>2 DEF Around
<1>2. Follows(out[id], path, id) /\ Listed(out[id])
  <2>1. ScopeAgrees(Scope, Around(Len(scopes)))
    BY <1>1 DEF NearInv, ScopesInv, Scope
  <2>2. path = Around(Len(scopes))
    BY <1>1 DEF Listed
  <2> QED BY <1>1, <2>1, <2>2 DEF ScopeAgrees, OutputsInv, Scope
<1>3. /\ IsList(w.assigns)
      /\ \A i \in DOMAIN w.assigns : IsAssignment(w.assigns[i])
      /\ \A t \in DOMAIN w.titles : IsAssignment(w.titles[t].assign)
  BY DocumentAssumption
<1>4. /\ IsList(byId[id])
      /\ \A i, j \in DOMAIN byId[id] : byId[id][i] = byId[id][j] => i = j
  BY KnownInputs
<1>5. \A g : OneMore(path, n, g, Append(path, g))
  <2> TAKE g
  <2>1. /\ Listed(Append(path, g)) /\ Len(Append(path, g)) = n + 1
        /\ \A i \in 1..n : Append(path, g)[i] = path[i]
        /\ Append(path, g)[n + 1] = g
    BY <1>1, ListedAppend
  <2>2. DOMAIN Append(path, g) = 1..(n + 1)
    BY <2>1 DEF Listed
  <2> QED BY <1>1, <2>1, <2>2 DEF OneMore
<1>6. Follows(Made(w.assigns, id, out), Append(path, w.assigns), id)
  <2> HIDE DEF n, out
  <2> QED BY <1>2, <1>3, <1>4, <1>5, MadeFollows
<1>7. /\ Settings(w, id).def = Made(w.assigns, id, out)
      /\ DOMAIN Settings(w, id).titles = mine
      /\ \A t \in mine : /\ Settings(w, id).titles[t].regex = w.titles[t].regex
                         /\ Settings(w, id).titles[t].outs
                               = Outs(w.titles[t].assign, TitleParent(w.titles[t].assign))
  <2> DEFINE def == Made(w.assigns, id, out)
             outs(t) == Outs(w.titles[t].assign, TitleParent(w.titles[t].assign))
  <2>1. Settings(w, id) = [def |-> def,
                           titles |-> [t \in mine |-> [regex |-> w.titles[t].regex,
                                                       outs |-> outs(t)]]]
    BY DEF Settings, TitleEntries, Made
  <2> HIDE DEF def, mine, outs
  <2>2. /\ Settings(w, id).def = def
        /\ DOMAIN Settings(w, id).titles = mine
        /\ \A t \in mine : /\ Settings(w, id).titles[t].regex = w.titles[t].regex
                           /\ Settings(w, id).titles[t].outs = outs(t)
    BY <2>1
  <2> QED BY <2>2 DEF def, outs
<1>8. ASSUME NEW t \in mine
      PROVE  Follows(Outs(w.titles[t].assign, TitleParent(w.titles[t].assign)),
                     Append(path, <<w.titles[t].assign>>), id)
  <2> DEFINE a == w.titles[t].assign
             g == <<a>>
             parent == TitleParent(a)
  <2>1. IsAssignment(a) /\ a.id = id
    BY <1>3
  <2>2. Listed(parent[id]) /\ Follows(parent[id], path, id)
    <3>1. CASE a.how = "short"
      <4>1. id \in DOMAIN out
        <5>1. ScopeAgrees(Scope, Around(Len(scopes)))
          BY <1>1 DEF NearInv, ScopesInv, Scope
        <5> QED BY <5>1 DEF ScopeAgrees, TypesInv, IdsInv
      <4>2. parent[id] = <<>>
        BY <2>1, <3>1, <4>1 DEF TitleParent
      <4>3. Listed(<<>>)
        <5>1. <<>> \in Seq({})
          OBVIOUS
        <5> QED BY <5>1, SeqIsListed
      <4> QED BY <4>2, <4>3 DEF Follows
    <3>2. CASE a.how # "short"
      <4>1. parent = out
        BY <3>2 DEF TitleParent
      <4> QED BY <1>2, <4>1
    <3> QED BY <3>1, <3>2
  <2> HIDE DEF a, parent
  <2>3. IsList(g) /\ DOMAIN g = {1} /\ g[1] = a
    BY DEF IsList
  <2>4. Relevant(g, id) = {1}
    BY <2>1, <2>3 DEF Relevant, Counts, IsAssignment
  <2>5. LastOf({1}) = 1
    <3>1. {1} \in SUBSET (0..1) /\ 1 \in Nat
      OBVIOUS
    <3> QED BY <3>1, LastOfUnique
  <2>6. Made(g, id, parent) = Outs(a, parent)
    BY <2>3, <2>4, <2>5 DEF Made
  <2> HIDE DEF g, n
  <2>7. Follows(Made(g, id, parent), Append(path, g), id)
    BY <1>4, <1>5, <2>1, <2>2, <2>3, MadeFollows
  <2> QED BY <2>6, <2>7 DEF a, g, parent
<1> QED BY <1>6, <1>7, <1>8 DEF SettingsFollow

\* A <window> is about the ids it or a group around it mentions, and only
\* these get what it says.
LEMMA ReadWindowKeepsNear ==
    ASSUME NoRepeats, IInv, TypesInv, OutputsInv, NearInv,
           NEW w \in WindowElements, ReadWindow(w)
    PROVE  NearInv'
<1>1. /\ phase = "windows" /\ phase' = "windows"
      /\ UNCHANGED <<ids, byId, inputsForIds, scopes, path>>
      /\ \A id : SignalsOf(id)' = SignalsOf(id) /\ WithId(id)' = WithId(id)
      /\ ids \subseteq Ids
  BY SignalsStay DEF ReadWindow, handlerVars, TypesInv, IdsInv
<1>2. PICK e : e = [kind |-> "window", path |-> path, class |-> w.class,
                    assigns |-> w.assigns, titles |-> w.titles]
  OBVIOUS
<1>3. /\ doc' = Append(doc, e)
      /\ e.kind = "window" /\ e.path = path /\ e.class = w.class
      /\ e.assigns = w.assigns /\ e.titles = w.titles
  BY <1>2 DEF ReadWindow, Seen
<1>4. PICK m : m = Len(doc)
  OBVIOUS
<1>5. /\ m \in Nat /\ DOMAIN doc = 1..m /\ DOMAIN doc' = 1..(m + 1)
      /\ \A n \in 1..m : doc'[n] = doc[n]
      /\ doc'[m + 1] = e
      /\ \A n : n \in 1..(m + 1) <=> n \in 1..m \/ n = m + 1
  <2>1. /\ m \in Nat /\ DOMAIN doc = 1..m /\ DOMAIN doc' = 1..(m + 1)
        /\ \A n \in 1..m : doc'[n] = doc[n]
        /\ doc'[m + 1] = e
    BY <1>3, <1>4 DEF TypesInv, DocInv
  <2> QED BY <2>1
<1>6. ASSUME NEW id \in ids
      PROVE  /\ wsets'[id].def = wsets[id].def
             /\ wsets'[id].classes =
                   IF inputsForIds # {} /\ (Scope.used[id] \/ Mentions(w, id))
                   THEN Insert(wsets[id].classes, w.class, Settings(w, id))
                   ELSE wsets[id].classes
  <2> DEFINE set == inputsForIds # {} /\ (Scope.used[id] \/ Mentions(w, id))
             new == Insert(wsets[id].classes, w.class, Settings(w, id))
  <2>1. wsets'[id] = IF set THEN [wsets[id] EXCEPT !.classes = new] ELSE wsets[id]
    BY <1>1 DEF ReadWindow
  <2>2. wsets[id] = [def |-> wsets[id].def, classes |-> wsets[id].classes]
    BY <1>1 DEF IInv, WsetsInv
  <2> HIDE DEF set, new
  <2>3. /\ wsets'[id].def = wsets[id].def
        /\ wsets'[id].classes = IF set THEN new ELSE wsets[id].classes
    BY <2>1, <2>2
  <2> QED BY <2>3 DEF set, new
<1>7. ScopesInv'
  <2>1. \A s, levels : ScopeAgrees(s, levels)' <=> ScopeAgrees(s, levels)
    BY <1>1, <1>6, ScopeStays
  <2>2. \A k : Around(k)' = Around(k)
    BY <1>1 DEF Around
  <2>3. \A k \in 1..Len(scopes) : ScopeAgrees(scopes[k], Around(k))
    BY <1>1 DEF NearInv, ScopesInv
  <2> QED BY <1>1, <2>1, <2>2, <2>3 DEF ScopesInv
<1>8. \A f, id : About(f, id)' <=> About(f, id)
  BY <1>1 DEF About, Mentions, Relevant, Counts
<1>9. ASSUME NEW id \in ids
      PROVE  About(e, id) <=> Scope.used[id] \/ Mentions(w, id)
  <2>1. Mentions(e, id) <=> Mentions(w, id)
    BY <1>3 DEF Mentions
  <2>2. Scope.used[id] <=> \E j \in DOMAIN path : Relevant(path[j], id) # {}
    <3>1. Len(scopes) \in 1..Len(scopes) /\ 1..(Len(scopes) - 1) = DOMAIN path
      <4>1. Len(path) \in Nat /\ Len(scopes) = Len(path) + 1 /\ DOMAIN path = 1..Len(path)
        BY <1>1 DEF TypesInv, DocInv
      <4>2. Len(scopes) - 1 = Len(path)
        BY <4>1
      <4> QED BY <4>1, <4>2
    <3>2. ScopeAgrees(Scope, Around(Len(scopes)))
      BY <1>1, <3>1 DEF NearInv, ScopesInv, Scope
    <3>3. /\ DOMAIN Around(Len(scopes)) = DOMAIN path
          /\ \A j \in DOMAIN path : Around(Len(scopes))[j] = path[j]
      BY <3>1 DEF Around
    <3>4. Scope.used[id] <=> \E j \in DOMAIN Around(Len(scopes)) :
                                Relevant(Around(Len(scopes))[j], id) # {}
      BY <3>2 DEF ScopeAgrees
    <3> QED BY <3>3, <3>4
  <2> QED BY <1>3, <2>1, <2>2 DEF About
<1>10. ASSUME NEW id \in ids
       PROVE  /\ DOMAIN wsets'[id].classes =
                    IF inputsForIds = {} THEN {} ELSE {doc'[n].class : n \in WindowsAbout(id)'}
              /\ \A c \in DOMAIN wsets'[id].classes :
                    SettingsFollow(wsets[id].classes[c], Found(id, c), id)'
  <2>1. /\ DOMAIN wsets[id].classes =
              IF inputsForIds = {} THEN {} ELSE {doc[n].class : n \in WindowsAbout(id)}
        /\ \A c \in DOMAIN wsets[id].classes :
              SettingsFollow(wsets[id].classes[c], Found(id, c), id)
    BY <1>1 DEF NearInv, ClassesInv
  <2>2. \A s, f : SettingsFollow(s, f, id)' <=> SettingsFollow(s, f, id)
    BY <1>1, <1>6, SettingsStay
  <2>3. WindowsAbout(id)' = WindowsAbout(id) \cup (IF About(e, id) THEN {m + 1} ELSE {})
    BY <1>3, <1>5, <1>8 DEF WindowsAbout
  <2>4. \A c : WindowFor(id, [class |-> c])' =
                  WindowFor(id, [class |-> c])
                     \cup (IF About(e, id) /\ c = w.class THEN {m + 1} ELSE {})
    BY <1>3, <1>5, <1>8 DEF WindowFor
  <2>5. {doc'[n].class : n \in WindowsAbout(id)'} =
           {doc[n].class : n \in WindowsAbout(id)}
              \cup (IF About(e, id) THEN {w.class} ELSE {})
    <3>1. \A n \in WindowsAbout(id) : doc'[n] = doc[n]
      BY <1>5 DEF WindowsAbout
    <3>2. doc'[m + 1].class = w.class
      BY <1>3, <1>5
    <3> QED BY <2>3, <3>1, <3>2
  <2>6. ASSUME NEW c, \E n \in WindowsAbout(id) : doc[n].class = c,
               ~(About(e, id) /\ c = w.class)
        PROVE  Found(id, c)' = Found(id, c)
    <3>1. PICK ns : ns = WindowFor(id, [class |-> c])
      OBVIOUS
    <3>2. ns # {} /\ ns \in SUBSET (1..m)
      BY <1>5, <2>6, <3>1 DEF WindowFor, WindowsAbout
    <3>3. WindowFor(id, [class |-> c])' = ns
      BY <2>4, <2>6, <3>1
    <3>4. Found(id, c) = doc[LastOf(ns)] /\ Found(id, c)' = doc'[LastOf(ns)]
      BY <3>1, <3>3 DEF Found
    <3>5. ns \in SUBSET (0..m)
      BY <3>2
    <3>6. LastOf(ns) \in 1..m
      BY <1>5, <3>2, <3>5, LastOfIsOne
    <3> QED BY <1>5, <3>4, <3>6
  <2>7. CASE inputsForIds # {} /\ About(e, id)
    <3> DEFINE new == Insert(wsets[id].classes, w.class, Settings(w, id))
    <3>1. wsets'[id].classes = new
      BY <1>6, <1>9, <2>7
    <3>2. /\ DOMAIN new = {w.class} \cup DOMAIN wsets[id].classes
          /\ \A c \in DOMAIN new :
                new[c] = IF c = w.class THEN Settings(w, id) ELSE wsets[id].classes[c]
      BY DEF Insert
    <3> HIDE DEF new
    <3>3. Found(id, w.class)' = e
      <4>1. PICK ns : ns = WindowFor(id, [class |-> w.class])'
        OBVIOUS
      <4>2. m + 1 \in ns /\ ns \in SUBSET (0..(m + 1)) /\ \A j \in ns : j <= m + 1
        <5>1. ns \in SUBSET (1..(m + 1))
          BY <1>5, <4>1 DEF WindowFor
        <5>2. m + 1 \in ns
          BY <2>4, <2>7, <4>1
        <5> QED BY <1>5, <5>1, <5>2
      <4>3. LastOf(ns) = m + 1
        <5>1. m + 1 \in Nat
          BY <1>5
        <5> QED BY <4>2, <5>1, LastOfUnique
      <4>4. Found(id, w.class)' = doc'[LastOf(ns)]
        BY <4>1 DEF Found
      <4> QED BY <1>5, <4>3, <4>4
    <3>4. SettingsFollow(Settings(w, id), e, id)
      BY <1>1, <1>3, SettingsFollowWindow
    <3>5. ASSUME NEW c \in DOMAIN new
          PROVE  SettingsFollow(wsets[id].classes[c], Found(id, c), id)'
      <4>1. CASE c = w.class
        BY <2>2, <3>1, <3>2, <3>3, <3>4, <4>1
      <4>2. CASE c # w.class
        <5>1. c \in DOMAIN wsets[id].classes /\ new[c] = wsets[id].classes[c]
          BY <3>2, <4>2
        <5>2. Found(id, c)' = Found(id, c)
          BY <2>1, <2>6, <4>2, <5>1
        <5> QED BY <2>1, <2>2, <3>1, <5>1, <5>2
      <4> QED BY <4>1, <4>2
    <3>6. DOMAIN new = {doc'[n].class : n \in WindowsAbout(id)'}
      BY <2>1, <2>5, <2>7, <3>2
    <3> QED BY <2>7, <3>1, <3>5, <3>6
  <2>8. CASE inputsForIds = {} \/ ~About(e, id)
    <3>1. wsets'[id].classes = wsets[id].classes
      BY <1>6, <1>9, <2>8
    <3>2. DOMAIN wsets'[id].classes =
             IF inputsForIds = {} THEN {} ELSE {doc'[n].class : n \in WindowsAbout(id)'}
      BY <2>1, <2>5, <2>8, <3>1
    <3>3. ASSUME NEW c \in DOMAIN wsets'[id].classes
          PROVE  SettingsFollow(wsets[id].classes[c], Found(id, c), id)'
      <4>1. c \in DOMAIN wsets[id].classes /\ inputsForIds # {} /\ ~About(e, id)
        BY <2>1, <2>8, <3>1
      <4>2. Found(id, c)' = Found(id, c)
        BY <2>1, <2>6, <4>1
      <4> QED BY <2>1, <2>2, <3>1, <4>1, <4>2
    <3> QED BY <3>2, <3>3
  <2> QED BY <2>7, <2>8
<1>11. ClassesInv'
  BY <1>1, <1>10 DEF ClassesInv
<1>12. SignalsInv'
  BY <1>1, <1>6 DEF NearInv, SignalsInv
<1> QED BY <1>1, <1>7, <1>11, <1>12 DEF NearInv, CurrentInv

\* The end of readConf() and every change of the window after it.
LEMMA WindowKeepsNear ==
    ASSUME IInv, TypesInv, NearInv, NEW w, ActiveWindowChanged(w),
           phase \in {"windows", "running"}, phase' = "running",
           UNCHANGED <<byId, inputsForIds, parserVars, wsets>>
    PROVE  NearInv'
<1>1. ScopesInv'
  BY DEF ScopesInv
<1>4. ASSUME NEW id \in ids
      PROVE  SignalsOf(id)' = SignalsOf(id) /\ WithId(id)' = WithId(id)
  <2>1. /\ DOMAIN handlers' = DOMAIN handlers
        /\ \A i \in DOMAIN handlers :
              /\ handlers'[i].id = handlers[i].id /\ handlers'[i].signals = handlers[i].signals
              /\ HasWindowSettings(handlers[i])' <=> HasWindowSettings(handlers[i])
    BY WindowKeepsHandlers DEF IInv
  <2>2. WithId(id)' = WithId(id)
    BY <2>1 DEF WithId
  <2>3. LastOf(WithId(id)) \in DOMAIN handlers
    BY DEF NearInv, SignalsInv, WithId
  <2> QED BY <2>1, <2>2, <2>3 DEF SignalsOf
<1>2. ClassesInv'
  <2>1. UNCHANGED <<ids, byId, wsets, inputsForIds, doc>>
    BY DEF parserVars
  <2> QED BY <1>4, <2>1, ClassesStay DEF NearInv
<1>5. SignalsInv'
  BY <1>4 DEF NearInv, SignalsInv, parserVars
<1>3. CurrentInv'
  <2> SUFFICES ASSUME NEW i \in DOMAIN handlers', HasWindowSettings(handlers[i])'
               PROVE  handlers'[i].outputs = GetOutputs(wsets[handlers[i].id], known)'
    BY DEF CurrentInv
  <2>1. /\ known' = w
        /\ handlers' = [j \in DOMAIN handlers |->
              IF HasWindowSettings(handlers[j])
              THEN [handlers[j] EXCEPT !.outputs = GetOutputs(wsets[handlers[j].id], w)]
              ELSE handlers[j]]
    BY DEF ActiveWindowChanged
  <2>2. i \in DOMAIN handlers
    BY <2>1
  <2>3. /\ HasWindowSettings(handlers[i])' <=> HasWindowSettings(handlers[i])
        /\ handlers'[i].id = handlers[i].id
    BY <2>2, WindowKeepsHandlers DEF IInv
  <2>4. handlers'[i] = [handlers[i] EXCEPT !.outputs = GetOutputs(wsets[handlers[i].id], w)]
    BY <2>1, <2>2, <2>3
  <2>5. handlers[i] = [tag |-> handlers[i].tag, id |-> handlers[i].id,
                       inputs |-> handlers[i].inputs, outputs |-> handlers[i].outputs,
                       signals |-> handlers[i].signals]
    BY <2>2 DEF IInv, HandlersInv, WellFormed
  <2>6. handlers'[i].outputs = GetOutputs(wsets[handlers[i].id], w)
    BY <2>4, <2>5
  <2> QED BY <2>1, <2>3, <2>6 DEF GetOutputs
<1> QED BY <1>1, <1>2, <1>3, <1>5 DEF NearInv

LEMMA NextNear ==
    ASSUME NoRepeats
    PROVE  IInv /\ TypesInv /\ OutputsInv /\ NearInv /\ [Next]_vars => NearInv'
<1> SUFFICES ASSUME IInv, TypesInv, OutputsInv, NearInv, [Next]_vars PROVE NearInv'
  OBVIOUS
<1>1. CASE \E e \in HandlerElements : ReadHandler(e)
  BY <1>1 DEF ReadHandler, NearInv, ScopesInv, ClassesInv, SignalsInv, CurrentInv
<1>2. CASE \/ NoHandlers \/ Reread \/ \E g \in GroupElements : ReadBadGroup(g)
           \/ \E w \in WindowElements : ReadBadWindow(w)
  BY <1>2 DEF NoHandlers, Reread, ReadBadGroup, ReadBadWindow,
              NearInv, ScopesInv, ClassesInv, SignalsInv, CurrentInv
<1>3. CASE Unreadable
  <2>1. ids' = {} /\ handlers' = <<>> /\ phase' = "running"
    BY <1>3 DEF Unreadable, handlerVars, parserVars, TypesInv, BeforeInv
  <2> QED BY <2>1 DEF NearInv, ScopesInv, ClassesInv, SignalsInv, CurrentInv
<1>4. CASE BeginWindows
  BY <1>4, BeginWindowsKeepsNear
<1>5. CASE \E g \in GroupElements : ReadGroup(g)
  BY <1>5, ReadGroupKeepsNear
<1>6. CASE EndGroup
  BY <1>6, EndGroupKeepsNear
<1>7. CASE \E w \in WindowElements : ReadWindow(w)
  BY <1>7, ReadWindowKeepsNear
<1>8. CASE Start
  BY <1>8, WindowKeepsNear DEF Start
<1>9. CASE \E w \in Windows : ChangeWindow(w)
  BY <1>9, WindowKeepsNear DEF ChangeWindow
<1>10. CASE UNCHANGED vars
  <2>1. UNCHANGED <<phase, handlers, byId, inputsForIds, ids, scopes, path, doc, wsets, known>>
    BY <1>10 DEF vars, handlerVars, parserVars
  <2>5. \A id : SignalsOf(id)' = SignalsOf(id) /\ WithId(id)' = WithId(id)
    BY <2>1, SignalsStay
  <2>6. SignalsInv'
    BY <2>1, <2>5 DEF NearInv, SignalsInv
  <2>2. ScopesInv'
    <3>1. \A s, levels : ScopeAgrees(s, levels)' <=> ScopeAgrees(s, levels)
      BY <2>1, <2>5, ScopeStays
    <3>2. \A k : Around(k)' = Around(k)
      BY <2>1 DEF Around
    <3> QED BY <2>1, <3>1, <3>2 DEF NearInv, ScopesInv
  <2>3. ClassesInv'
    <3>1. CASE phase \in {"windows", "running"}
      BY <2>1, <2>5, <3>1, ClassesStay DEF NearInv
    <3>2. CASE phase \notin {"windows", "running"}
      BY <2>1, <3>2 DEF ClassesInv
    <3> QED BY <3>1, <3>2
  <2>4. CurrentInv'
    BY <2>1 DEF NearInv, CurrentInv, HasWindowSettings
  <2> QED BY <2>2, <2>3, <2>4, <2>6 DEF NearInv
<1> QED
  BY <1>1, <1>2, <1>3, <1>4, <1>5, <1>6, <1>7, <1>8, <1>9, <1>10 DEF Next, Parse

\* What the active window's outputs are.
LEMMA NearInherits ==
    ASSUME IInv, TypesInv, OutputsInv, NearInv, phase = "running", NEW i \in Inheriting
    PROVE  LET h == handlers[i]
           IN  \A p \in DOMAIN h.inputs :
                   LET levels == LevelsPastWindow(h.id, known)
                   IN  \/ Tilded(levels, h.id, h.inputs, p)
                       \/ h.outputs[p] = Nearest(levels, h.id, h.inputs, p)
<1>1. PICK h : h = handlers[i]
  OBVIOUS
<1>2. PICK id : id = h.id
  OBVIOUS
<1> DEFINE ts == wsets[id]
           fors == WindowFor(id, known)
<1>3. /\ i \in started /\ HasWindowSettings(h) /\ byId[id] = h.inputs
      /\ i \in DOMAIN handlers /\ i \in WithId(id) /\ id \in ids
  <2>1. i \in started /\ HasWindowSettings(h) /\ byId[id] = h.inputs /\ i \in DOMAIN handlers
    BY <1>1, <1>2 DEF Inheriting, TypesInv
  <2>2. id \in Ids
    BY <1>1, <1>2, <2>1 DEF IInv, HandlersInv, WellFormed, HasWindowSettings
  <2> QED BY <1>1, <1>2, <2>1, <2>2 DEF WithId, TypesInv, IdsInv
<1>4. h.outputs = GetOutputs(ts, known)
  BY <1>1, <1>2, <1>3 DEF NearInv, CurrentInv
<1>5. Len(h.outputs) = Len(h.inputs)
  BY <1>1, <1>3 DEF IInv, StartedInv
<1>6. IsList(h.inputs)
  BY <1>3, KnownInputs
<1>7. ListedSettings(ts) /\ \A c \in DOMAIN ts.classes : Numbered(ts.classes[c])
  BY <1>3 DEF OutputsInv, IInv, WsetsInv, TypesInv, IdsInv
<1>8. /\ DOMAIN ts.classes =
            IF inputsForIds = {} THEN {} ELSE {doc[n].class : n \in WindowsAbout(id)}
      /\ \A c \in DOMAIN ts.classes : SettingsFollow(ts.classes[c], Found(id, c), id)
      /\ ts.def = SignalsOf(id)
  BY <1>3 DEF NearInv, ClassesInv, SignalsInv
<1>9. Follows(h.outputs, LevelsPastWindow(id, known), id) /\ Listed(h.outputs)
  <2>1. CASE known.class \notin DOMAIN ts.classes
    <3>1. h.outputs = ts.def
      BY <1>4, <2>1 DEF GetOutputs
    <3>2. fors = {} \/ inputsForIds = {}
      BY <1>8, <2>1 DEF WindowFor, WindowsAbout
    <3>3. LevelsPastWindow(id, known) = <<>>
      BY <3>2 DEF LevelsPastWindow, HasLevels
    <3>4. \A inputs, p : Nearest(<<>>, id, inputs, p) = SignalsOf(id)[p]
      BY DEF Nearest
    <3> QED BY <1>7, <1>8, <3>1, <3>3, <3>4 DEF ListedSettings, Follows
  <2>2. CASE known.class \in DOMAIN ts.classes
    <3> DEFINE s == ts.classes[known.class]
               e == Found(id, known.class)
               hits == {t \in DOMAIN s.titles : known.title \in s.titles[t].regex}
    <3>1. fors # {} /\ inputsForIds # {}
      BY <1>8, <2>2 DEF WindowFor, WindowsAbout
    <3>2. e = doc[LastOf(fors)]
      BY DEF Found, WindowFor
    <3>3. SettingsFollow(s, e, id) /\ Numbered(s)
      BY <1>7, <1>8, <2>2
    <3>4. h.outputs = IF hits = {} THEN s.def ELSE s.titles[FirstOf(hits)].outs
      BY <1>4, <2>2 DEF GetOutputs
    <3>5. LevelsPastWindow(id, known) =
             IF TitlesFor(e, id, known) = {} THEN Append(e.path, e.assigns)
             ELSE Append(e.path, << e.titles[FirstOf(TitlesFor(e, id, known))].assign >>)
      BY <3>1, <3>2 DEF LevelsPastWindow, HasLevels, Inside
    <3>6. Listed(s.def) /\ \A t \in DOMAIN s.titles : Listed(s.titles[t].outs)
      BY <1>7, <2>2 DEF ListedSettings
    <3> HIDE DEF s, e
    <3>7. TitlesFor(e, id, known) = hits
      BY <3>3 DEF TitlesFor, SettingsFollow
    <3>8. CASE hits = {}
      BY <3>3, <3>4, <3>5, <3>6, <3>7, <3>8 DEF SettingsFollow
    <3>9. CASE hits # {}
      <4>1. FirstOf(hits) \in hits
        <5>1. PICK n \in Nat : hits \in SUBSET (0..n)
          BY <3>3 DEF Numbered
        <5> HIDE DEF hits
        <5> QED BY <3>9, <5>1, FirstOfIsOne
      <4> QED BY <3>3, <3>4, <3>5, <3>6, <3>7, <3>9, <4>1 DEF SettingsFollow
    <3> QED BY <3>8, <3>9
  <2> QED BY <2>1, <2>2
<1>10. DOMAIN h.outputs = DOMAIN h.inputs
  BY <1>5, <1>6, <1>9 DEF Listed, IsList
<1> QED BY <1>1, <1>2, <1>3, <1>9, <1>10 DEF Follows

LEMMA NearAlways ==
    ASSUME NoRepeats
    PROVE  Spec => [](IInv /\ TypesInv /\ OutputsInv /\ NearInv)
<1>1. Init => NearInv
  BY DEF Init, NearInv, ScopesInv, ClassesInv, SignalsInv, CurrentInv
<1>2. IInv /\ TypesInv /\ OutputsInv /\ NearInv /\ [Next]_vars => NearInv'
  BY NextNear
<1> QED BY <1>1, <1>2, OutputsAlways, PTL DEF Spec

\* README, <group>: for any document, any devices without repeated signals and
\* any windows, what a started device sends is, input by input, what the
\* innermost element around the active window says of it, or the <signal>;
\* nothing that another group, window, title or an earlier configuration said
\* comes through.  Not said is what a "~" inside of that element makes of it,
\* and whether a title inherits from its window.
THEOREM InnermostThm ==
    ASSUME NoRepeats
    PROVE  Spec => []SendsTheInnermost
<1>1. IInv /\ TypesInv /\ OutputsInv /\ NearInv => SendsTheInnermost
  BY NearInherits DEF SendsTheInnermost
<1> QED BY <1>1, NearAlways, PTL
=============================================================================
