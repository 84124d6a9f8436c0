-------------------------- MODULE WindowNotifyProofs --------------------------
(***************************************************************************)
(* With KWin's script the daemon never takes the class of one window with  *)
(* the title of another, for any windows and any number of calls under     *)
(* way (NeverMixedThm), and the calls are a list within its bound          *)
(* (TypesThm).                                                             *)
(***************************************************************************)
EXTENDS WindowNotify, TLAPS

Classes == {ClassOf[c] : c \in Clients} \cup {""}
Titles  == Captions \cup {""}
Pairs   == [class : Classes, title : Titles]

Messages ==
    [slot : {"activeWindowChanged"}, window : Pairs]
    \cup [slot : {"activeWindowTitleChanged"}, title : Titles]

Types ==
    /\ active \in Clients \cup {NoClient}
    /\ activeclient \in Clients \cup {NoClient}
    /\ caption \in [Clients -> Captions]
    /\ wname \in Titles
    /\ calls \in Seq(Messages)
    /\ known \in Pairs
    /\ forgotten \subseteq {"class", "title"}

\* Only the active window is listened to, and none before the first.
Listening ==
    connected = IF activeclient = NoClient THEN {} ELSE {activeclient}

\* The last call with a class has the right one; if there is none, the class
\* that is known is right, or forgotten.
ClassComes ==
    \/ \E i \in WindowCalls :
          /\ \A j \in WindowCalls : j <= i
          /\ calls[i].window.class = Shown.class
    \/ /\ WindowCalls = {}
       /\ "class" \in forgotten \/ known.class = Shown.class

TitleComes ==
    \/ "title" \in forgotten /\ calls = <<>>
    \/ ComingTitle = Shown.title

\* Strengthens NeverMixed until it is inductive.
IInv ==
    /\ Types
    /\ notifier = "kwin" =>
        /\ Listening
        /\ ~up => calls = <<>>
        /\ up => ClassComes /\ TitleComes

-----------------------------------------------------------------------------
LEMMA InitIInv == Init => IInv
<1> SUFFICES ASSUME Init PROVE IInv
  OBVIOUS
<1>1. Types
  <2>1. calls = <<>>
    BY DEF Init
  <2>2. calls \in Seq(Messages)
    BY <2>1
  <2> USE DEF Init
  <2>3. known \in Pairs
    BY DEF Nothing, Pairs, Classes, Titles
  <2>4. forgotten \subseteq {"class", "title"}
    BY Zenon
  <2>5. active \in Clients \cup {NoClient} /\ activeclient \in Clients \cup {NoClient}
    BY Zenon
  <2>6. wname \in Titles
    BY DEF Titles
  <2> QED BY <2>2, <2>3, <2>4, <2>5, <2>6 DEF Types
<1>2. Listening /\ calls = <<>> /\ ~up
  BY DEF Init, Listening
<1> QED BY <1>1, <1>2 DEF IInv

LEMMA IInvNeverMixed == IInv => NeverMixed
<1> SUFFICES ASSUME IInv, notifier = "kwin", up
             PROVE  /\ \/ "class" \in forgotten /\ WindowCalls = {}
                       \/ ComingClass = Shown.class
                    /\ \/ "title" \in forgotten /\ calls = <<>>
                       \/ ComingTitle = Shown.title
  BY DEF NeverMixed
<1>1. ClassComes /\ TitleComes
  BY DEF IInv
<1>2. \A i, j \in WindowCalls : i <= j /\ j <= i => i = j
  BY DEF IInv, Types, WindowCalls
<1>3. CASE WindowCalls = {}
  BY <1>1, <1>3 DEF ClassComes, TitleComes, ComingClass
<1>4. CASE WindowCalls # {}
  <2>1. PICK i \in WindowCalls : /\ \A j \in WindowCalls : j <= i
                                 /\ calls[i].window.class = Shown.class
    BY <1>1, <1>4 DEF ClassComes
  <2>2. i = CHOOSE k \in WindowCalls : \A j \in WindowCalls : j <= k
    BY <1>2, <2>1
  <2>3. ComingClass = Shown.class
    BY <1>4, <2>1, <2>2 DEF ComingClass
  <2> QED BY <1>1, <2>3 DEF TitleComes
<1> QED BY <1>3, <1>4

-----------------------------------------------------------------------------
(* Calls join at the end and leave at the front.                           *)

\* A call with a class settles both halves.
LEMMA WindowCallSettles ==
    ASSUME Types, NEW w, calls' = Append(calls, [slot |-> "activeWindowChanged", window |-> w]),
           Shown' = w
    PROVE  ClassComes' /\ TitleComes'
<1> DEFINE n == Len(calls) + 1
<1>1. n \in Nat /\ Len(calls') = n /\ DOMAIN calls' = 1..n
      /\ calls'[n] = [slot |-> "activeWindowChanged", window |-> w] /\ calls' # <<>>
  BY DEF Types
<1>2. n \in WindowCalls' /\ \A j \in WindowCalls' : j <= n
  BY <1>1 DEF WindowCalls
<1>3. calls'[n].window = w /\ calls'[n].slot = "activeWindowChanged"
  BY <1>1
<1> QED BY <1>1, <1>2, <1>3 DEF ClassComes, TitleComes, ComingTitle, LastCall

\* A call with a title only leaves the class as it comes.
LEMMA TitleCallSettles ==
    ASSUME Types, NEW t,
           calls' = Append(calls, [slot |-> "activeWindowTitleChanged", title |-> t]),
           Shown'.title = t, Shown'.class = Shown.class,
           ClassComes, UNCHANGED <<known, forgotten>>
    PROVE  ClassComes' /\ TitleComes'
<1> DEFINE n == Len(calls) + 1
<1>1. /\ n \in Nat /\ Len(calls') = n /\ DOMAIN calls' = 1..n /\ DOMAIN calls = 1..(n - 1)
      /\ calls'[n] = [slot |-> "activeWindowTitleChanged", title |-> t] /\ calls' # <<>>
      /\ \A i \in 1..(n - 1) : calls'[i] = calls[i]
  BY DEF Types
<1>2. calls'[n].title = t /\ calls'[n].slot = "activeWindowTitleChanged"
  BY <1>1
<1>3. WindowCalls' = WindowCalls
  BY <1>1, <1>2 DEF WindowCalls
<1>4. \A i \in WindowCalls : calls'[i] = calls[i]
  BY <1>1 DEF WindowCalls
<1>5. ClassComes'
  BY <1>3, <1>4 DEF ClassComes
<1>6. TitleComes'
  BY <1>1, <1>2 DEF TitleComes, ComingTitle, LastCall
<1> QED BY <1>5, <1>6

\* What arrives becomes known, and what comes stays the same.
LEMMA HandleSettles ==
    ASSUME Types, Handle, ClassComes, TitleComes, Shown' = Shown
    PROVE  ClassComes' /\ TitleComes'
<1> DEFINE n == Len(calls)
           call == Head(calls)
<1>1. /\ n \in Nat /\ n > 0 /\ DOMAIN calls = 1..n /\ call = calls[1] /\ call \in Messages
      /\ Len(calls') = n - 1 /\ DOMAIN calls' = 1..(n - 1) /\ calls' = Tail(calls)
      /\ \A i \in 1..(n - 1) : calls'[i] = calls[i + 1]
  BY DEF Handle, Types
<1>2. /\ call.slot = "activeWindowChanged" => known' = call.window /\ forgotten' = {}
      /\ call.slot # "activeWindowChanged" =>
            /\ known' = [known EXCEPT !.title = call.title]
            /\ forgotten' = forgotten \ {"title"}
  BY DEF Handle
<1>3. known \in Pairs /\ known = [class |-> known.class, title |-> known.title]
  BY DEF Types, Pairs
<1>4. WindowCalls' = {i \in 1..(n - 1) : i + 1 \in WindowCalls}
  BY <1>1 DEF WindowCalls
<1>5. WindowCalls \subseteq 1..n /\ (1 \in WindowCalls <=> call.slot = "activeWindowChanged")
  BY <1>1 DEF WindowCalls
<1>6. ClassComes'
  <2>1. CASE WindowCalls = {}
    <3>1. WindowCalls' = {} /\ known'.class = known.class
      BY <1>2, <1>3, <1>4, <1>5, <2>1
    <3>2. "class" \in forgotten => "class" \in forgotten'
      BY <1>2, <1>5, <2>1
    <3> QED BY <2>1, <3>1, <3>2 DEF ClassComes
  <2>2. CASE WindowCalls # {}
    <3>1. PICK i \in WindowCalls : /\ \A j \in WindowCalls : j <= i
                                   /\ calls[i].window.class = Shown.class
      BY <2>2 DEF ClassComes
    <3>2. CASE i = 1
      <4>1. WindowCalls' = {}
        BY <1>1, <1>4, <1>5, <3>1, <3>2
      <4>2. known'.class = Shown.class
        BY <1>1, <1>2, <1>5, <3>1, <3>2
      <4> QED BY <4>1, <4>2 DEF ClassComes
    <3>3. CASE i # 1
      <4>1. i - 1 \in WindowCalls'
        BY <1>1, <1>4, <1>5, <3>3
      <4>2. \A j \in WindowCalls' : j <= i - 1
        BY <1>1, <1>4, <1>5, <3>1
      <4>3. calls'[i - 1] = calls[i]
        BY <1>1, <1>5, <3>3
      <4> QED BY <3>1, <4>1, <4>2, <4>3 DEF ClassComes
    <3> QED BY <3>2, <3>3
  <2> QED BY <2>1, <2>2
<1>7. TitleComes'
  <2>1. ComingTitle = Shown.title
    BY DEF Handle, TitleComes
  <2>2. CASE n = 1
    <3>1. calls' = <<>>
      BY <1>1, <2>2
    <3>2. known'.title = IF call.slot = "activeWindowChanged" THEN call.window.title
                         ELSE call.title
      <4> HIDE DEF call
      <4> QED BY <1>2, <1>3
    <3>3. ComingTitle = IF call.slot = "activeWindowChanged" THEN call.window.title
                        ELSE call.title
      <4>1. LastCall = call /\ calls # <<>>
        BY <1>1, <2>2 DEF LastCall
      <4> QED BY <4>1 DEF ComingTitle
    <3> QED BY <2>1, <3>1, <3>2, <3>3 DEF TitleComes, ComingTitle
  <2>3. CASE n # 1
    <3>1. calls' # <<>> /\ calls # <<>>
      BY <1>1, <2>3
    <3>2. n - 1 \in 1..(n - 1) /\ Len(calls') = n - 1
      BY <1>1, <2>3
    <3>3. calls'[n - 1] = calls[n]
      <4>1. calls'[n - 1] = calls[(n - 1) + 1]
        BY <1>1, <3>2
      <4>2. n \in Nat /\ (n - 1) + 1 = n
        BY <1>1
      <4> HIDE DEF n
      <4> QED BY <4>1, <4>2
    <3>4. calls'[Len(calls')] = calls[Len(calls)]
      BY <3>2, <3>3
    <3> HIDE DEF n, call
    <3> QED BY <2>1, <3>1, <3>4 DEF TitleComes, ComingTitle, LastCall
  <2> QED BY <2>2, <2>3
<1> QED BY <1>6, <1>7

-----------------------------------------------------------------------------
LEMMA ActivateKeepsIInv ==
    ASSUME IInv, NEW c \in Clients \cup {NoClient}, Activate(c)
    PROVE  IInv'
<1>1. CASE notifier = "kwin" /\ c # NoClient
  <2>1. /\ c \in Clients /\ activeclient' = c /\ connected' = {c} /\ active' = c
        /\ UNCHANGED <<notifier, caption, wname, up, known, forgotten>>
    BY <1>1, ClientsAssumption DEF IInv, Listening, Activate, tracker, daemon
  <2>2. calls' = IF up THEN Append(calls, [slot |-> "activeWindowChanged",
                                           window |-> Window(c, caption[c])])
                 ELSE calls
    BY <1>1 DEF Activate, WindowChanged, Call
  <2>3. Window(c, caption[c]) \in Pairs
    BY <2>1 DEF Window, IInv, Types, Pairs, Classes, Titles
  <2>4. calls' \in Seq(Messages)
    <3>1. [slot |-> "activeWindowChanged", window |-> Window(c, caption[c])] \in Messages
      BY <2>3 DEF Messages
    <3> QED BY <2>2, <3>1 DEF IInv, Types
  <2>5. Types'
    BY <2>1, <2>4 DEF IInv, Types
  <2>6. Shown' = Window(c, caption[c])
    BY <1>1, <2>1 DEF Shown, Window
  <2>7. up => ClassComes' /\ TitleComes'
    BY <2>2, <2>6, WindowCallSettles DEF IInv
  <2>8. Listening' /\ (~up' => calls' = <<>>)
    BY <1>1, <2>1, <2>2 DEF Listening, IInv
  <2> QED BY <1>1, <2>1, <2>5, <2>7, <2>8 DEF IInv
<1>2. CASE ~(notifier = "kwin" /\ c # NoClient)
  <2>1. UNCHANGED <<notifier, caption, activeclient, connected, calls, wname, up, known, forgotten>>
        /\ active' = c
    BY <1>2 DEF Activate, script, tracker, daemon
  <2>2. Types'
    BY <2>1 DEF IInv, Types
  <2>3. notifier = "kwin" => Shown' = Shown
    BY <2>1 DEF Shown, Window
  <2> QED BY <2>1, <2>2, <2>3 DEF IInv, Listening, ClassComes, TitleComes, WindowCalls,
             ComingTitle, LastCall
<1> QED BY <1>1, <1>2

LEMMA SetCaptionKeepsIInv ==
    ASSUME IInv, NEW c \in Clients, NEW t \in Captions, SetCaption(c, t)
    PROVE  IInv'
<1>1. /\ caption' = [caption EXCEPT ![c] = t] /\ caption' \in [Clients -> Captions]
      /\ UNCHANGED <<notifier, active, activeclient, connected, wname, up, known, forgotten>>
  BY DEF SetCaption, script, tracker, daemon, IInv, Types
<1>2. CASE notifier = "kwin" /\ c \in connected
  <2>1. c = activeclient /\ c # NoClient /\ caption'[activeclient] = t
    BY <1>1, <1>2, ClientsAssumption DEF IInv, Types, Listening
  <2>2. calls' = IF up THEN Append(calls, [slot |-> "activeWindowTitleChanged", title |-> t])
                 ELSE calls
    BY <1>2, <2>1 DEF SetCaption, TitleChanged, Call
  <2>3. calls' \in Seq(Messages)
    <3>1. [slot |-> "activeWindowTitleChanged", title |-> t] \in Messages
      BY DEF Messages, Titles
    <3> QED BY <2>2, <3>1 DEF IInv, Types
  <2>4. Types'
    BY <1>1, <2>3 DEF IInv, Types
  <2>5. Shown'.title = t /\ Shown'.class = Shown.class
    BY <1>1, <1>2, <2>1 DEF Shown, Window
  <2>6. up => ClassComes' /\ TitleComes'
    BY <1>1, <1>2, <2>2, <2>5, TitleCallSettles DEF IInv
  <2>7. Listening' /\ (~up' => calls' = <<>>)
    BY <1>1, <1>2, <2>2 DEF IInv, Listening
  <2> QED BY <1>1, <2>4, <2>6, <2>7 DEF IInv
<1>3. CASE ~(notifier = "kwin" /\ c \in connected)
  <2>1. calls' = calls
    BY <1>3 DEF SetCaption
  <2>2. Types'
    BY <1>1, <2>1 DEF IInv, Types
  <2>3. notifier = "kwin" => Shown' = Shown
    <3>1. notifier = "kwin" /\ activeclient # NoClient => activeclient # c
      BY <1>3 DEF IInv, Listening
    <3>2. notifier = "kwin" /\ activeclient # NoClient =>
            caption'[activeclient] = caption[activeclient]
      BY <1>1, <3>1 DEF IInv, Types
    <3> QED BY <1>1, <3>2 DEF Shown, Window
  <2> QED BY <1>1, <2>1, <2>2, <2>3 DEF IInv, Listening, ClassComes, TitleComes,
             WindowCalls, ComingTitle, LastCall
<1> QED BY <1>2, <1>3

LEMMA TrackKeepsIInv ==
    ASSUME IInv, Track
    PROVE  IInv'
<1>1. /\ notifier = "tracker"
      /\ UNCHANGED <<notifier, active, caption, activeclient, up, known, forgotten>>
  BY DEF Track, AskTitle, AskClass, NextRound, desktop, script, daemon
<1>2. wname' \in Titles
  BY DEF Track, AskTitle, AskClass, NextRound, IInv, Types, Titles
<1>3. calls' \in Seq(Messages)
  <2>1. CASE AskClass
    <3> DEFINE w == [class |-> IF active = NoClient THEN "" ELSE ClassOf[active],
                     title |-> wname]
    <3>1. w \in Pairs
      BY DEF IInv, Types, Pairs, Classes
    <3>2. [slot |-> "activeWindowChanged", window |-> w] \in Messages
      BY <3>1 DEF Messages
    <3>3. calls' = calls \/ calls' = Append(calls, [slot |-> "activeWindowChanged", window |-> w])
      BY <2>1 DEF AskClass, WindowChanged, Call
    <3> HIDE DEF w
    <3> QED BY <3>2, <3>3 DEF IInv, Types
  <2>2. CASE ~AskClass
    BY <2>2 DEF Track, AskTitle, NextRound, IInv, Types
  <2> QED BY <2>1, <2>2
<1> QED BY <1>1, <1>2, <1>3 DEF IInv, Types

LEMMA HandleKeepsIInv ==
    ASSUME IInv, Handle
    PROVE  IInv'
<1>1. UNCHANGED <<notifier, active, caption, activeclient, connected, wname, up>> /\ up
  BY DEF Handle, desktop, script, tracker
<1>2. calls' \in Seq(Messages) /\ Head(calls) \in Messages
  BY DEF Handle, IInv, Types
<1>3. /\ known' \in Pairs
      /\ forgotten' \subseteq {"class", "title"}
  <2>1. CASE Head(calls).slot = "activeWindowChanged"
    <3>1. Head(calls).window \in Pairs
      BY <1>2, <2>1 DEF Messages
    <3> QED BY <2>1, <3>1 DEF Handle
  <2>2. CASE Head(calls).slot # "activeWindowChanged"
    <3>1. Head(calls).title \in Titles
      BY <1>2, <2>2 DEF Messages
    <3>2. /\ known' = [known EXCEPT !.title = Head(calls).title]
          /\ forgotten' = forgotten \ {"title"}
      BY <2>2 DEF Handle
    <3> QED BY <3>1, <3>2 DEF IInv, Types, Pairs
  <2> QED BY <2>1, <2>2
<1>4. Shown' = Shown
  BY <1>1 DEF Shown, Window
<1>5. notifier = "kwin" => ClassComes' /\ TitleComes'
  BY <1>1, <1>4, HandleSettles DEF IInv
<1> QED BY <1>1, <1>2, <1>3, <1>5 DEF IInv, Types, Listening

LEMMA UpsetKeepsIInv ==
    ASSUME IInv, Upset
    PROVE  IInv'
<1>1. UNCHANGED <<notifier, active, caption, activeclient, connected, wname>>
  BY DEF Upset, Reread, StartDaemon, StopDaemon, desktop, script, tracker
<1>2. Shown' = Shown
  BY <1>1 DEF Shown, Window
<1>3. CASE Reread
  <2>1. /\ known' = [known EXCEPT !.title = ""] /\ known'.class = known.class
        /\ forgotten' = forgotten \cup {"title"} /\ calls' = calls /\ up' = up
    <3>1. known = [class |-> known.class, title |-> known.title]
      BY DEF IInv, Types, Pairs
    <3> QED BY <1>3, <3>1 DEF Reread
  <2>2. Types'
    BY <1>1, <2>1 DEF IInv, Types, Pairs, Titles
  <2>3. ClassComes => ClassComes'
    BY <1>2, <2>1 DEF ClassComes, WindowCalls
  <2>4. TitleComes => TitleComes'
    BY <1>2, <2>1 DEF TitleComes, ComingTitle, LastCall
  <2> QED BY <1>1, <2>1, <2>2, <2>3, <2>4 DEF IInv, Listening
<1>4. CASE StartDaemon
  <2>1. /\ ~up /\ up' /\ calls' = calls /\ known' = [class |-> "", title |-> ""]
        /\ forgotten' = {"class", "title"}
    BY <1>4 DEF StartDaemon, Nothing, IInv, Types
  <2>2. Types'
    <3>1. known' \in Pairs
      BY <2>1 DEF Pairs, Classes, Titles
    <3>2. forgotten' \subseteq {"class", "title"}
      BY <2>1, Zenon
    <3> QED BY <1>1, <2>1, <3>1, <3>2 DEF IInv, Types
  <2>3. notifier = "kwin" => calls' = <<>> /\ WindowCalls' = {}
    <3>1. notifier = "kwin" => calls = <<>>
      BY <2>1 DEF IInv
    <3>2. notifier = "kwin" => calls' = <<>>
      BY <2>1, <3>1
    <3>3. calls' = <<>> => WindowCalls' = {}
      BY DEF WindowCalls
    <3> QED BY <3>2, <3>3
  <2> QED BY <1>1, <2>1, <2>2, <2>3 DEF IInv, Listening, ClassComes, TitleComes
<1>5. CASE StopDaemon
  <2>1. up' = FALSE /\ calls' = <<>> /\ UNCHANGED <<known, forgotten>>
    BY <1>5 DEF StopDaemon
  <2> QED BY <1>1, <2>1 DEF IInv, Types, Listening
<1> QED BY <1>3, <1>4, <1>5 DEF Upset

LEMMA NextIInv == IInv /\ [Next]_vars => IInv'
<1> SUFFICES ASSUME IInv, [Next]_vars PROVE IInv'
  OBVIOUS
<1>1. CASE \E c \in Clients \cup {NoClient} : Activate(c)
  BY <1>1, ActivateKeepsIInv
<1>2. CASE \E c \in Clients, t \in Captions : SetCaption(c, t)
  BY <1>2, SetCaptionKeepsIInv
<1>3. CASE Track
  BY <1>3, TrackKeepsIInv
<1>4. CASE Handle
  BY <1>4, HandleKeepsIInv
<1>5. CASE Upset
  BY <1>5, UpsetKeepsIInv
<1>6. CASE UNCHANGED vars
  <2>1. UNCHANGED <<notifier, active, caption, activeclient, connected, wname, calls, up,
                    known, forgotten>>
    BY <1>6 DEF vars, desktop, script, tracker, daemon
  <2> QED BY <2>1 DEF IInv, Types, Listening, ClassComes, TitleComes, WindowCalls,
             ComingTitle, LastCall, Shown, Window
<1> QED BY <1>1, <1>2, <1>3, <1>4, <1>5, <1>6 DEF Next, Change

\* KWin's script and the daemon: class and title are of one window, however
\* many calls are under way, and wherever the daemon starts over.
THEOREM NeverMixedThm == Spec => []NeverMixed
<1>1. Init => IInv
  BY InitIInv
<1>2. IInv /\ [Next]_vars => IInv'
  BY NextIInv
<1>3. IInv => NeverMixed
  BY IInvNeverMixed
<1> QED BY <1>1, <1>2, <1>3, PTL DEF Spec

-----------------------------------------------------------------------------
(* What the variables may be, and that no more calls are under way than    *)
(* the scripts let there be.                                               *)

\* With IInv, strengthens TypeOK until it is inductive: the shell script has
\* no call under way unless it waits for it.
TypesInv ==
    /\ notifier \in {"kwin", "tracker"}
    /\ connected \subseteq Clients
    /\ asking \in {"title", "class", "wait"}
    /\ last \in Views
    /\ Len(calls) <= MaxCalls
    /\ ~up => calls = <<>>
    /\ notifier = "tracker" => (asking # "wait" => calls = <<>>)

LEMMA InitTypes == Init => TypesInv
<1> SUFFICES ASSUME Init PROVE TypesInv
  OBVIOUS
<1>1. last \in Views
  BY DEF Init, Nothing, Views
<1>2. Len(calls) <= MaxCalls /\ calls = <<>>
  <2>1. calls = <<>>
    BY DEF Init
  <2> QED BY <2>1, CallsAssumption
<1> QED BY <1>1, <1>2 DEF Init, TypesInv

\* One call more.
LEMMA OneMore ==
    ASSUME calls \in Seq(Messages), NEW m \in Messages,
           Len(calls) < MaxCalls, calls' = IF up THEN Append(calls, m) ELSE calls
    PROVE  Len(calls') <= MaxCalls
BY CallsAssumption

LEMMA ActivateKeepsTypes ==
    ASSUME IInv, TypesInv, NEW c \in Clients \cup {NoClient}, Activate(c)
    PROVE  TypesInv'
<1>1. UNCHANGED <<notifier, caption, asking, last, up>>
  BY DEF Activate, tracker, daemon
<1>2. CASE notifier = "kwin" /\ c # NoClient
  <2>1. c \in Clients /\ Len(calls) < MaxCalls /\ connected' \subseteq Clients
    BY <1>2 DEF Activate, TypesInv
  <2>2. calls' = IF up THEN Append(calls, [slot |-> "activeWindowChanged",
                                           window |-> Window(c, caption[c])])
                 ELSE calls
    BY <1>2 DEF Activate, WindowChanged, Call
  <2>3. [slot |-> "activeWindowChanged", window |-> Window(c, caption[c])] \in Messages
    BY <2>1 DEF Window, IInv, Types, Pairs, Classes, Titles, Messages
  <2>4. Len(calls') <= MaxCalls
    BY <2>1, <2>2, <2>3, OneMore DEF IInv, Types
  <2>5. ~up' => calls' = <<>>
    BY <1>1, <2>2 DEF TypesInv
  <2> QED BY <1>1, <1>2, <2>1, <2>4, <2>5 DEF TypesInv
<1>3. CASE ~(notifier = "kwin" /\ c # NoClient)
  BY <1>1, <1>3 DEF Activate, script, TypesInv
<1> QED BY <1>2, <1>3

LEMMA SetCaptionKeepsTypes ==
    ASSUME IInv, TypesInv, NEW c \in Clients, NEW t \in Captions, SetCaption(c, t)
    PROVE  TypesInv'
<1>1. UNCHANGED <<notifier, connected, asking, last, up>>
  BY DEF SetCaption, script, tracker, daemon
<1>2. CASE notifier = "kwin" /\ c \in connected
  <2> DEFINE m == [slot |-> "activeWindowTitleChanged", title |-> caption'[activeclient]]
  <2>1. Len(calls) < MaxCalls /\ calls' = IF up THEN Append(calls, m) ELSE calls
    BY <1>2 DEF SetCaption, TitleChanged, Call
  <2>2. m \in Messages
    <3>1. activeclient = c
      BY <1>2 DEF IInv, Listening
    <3>2. caption'[activeclient] \in Titles
      BY <3>1 DEF IInv, Types, SetCaption, Titles
    <3> QED BY <3>2 DEF Messages
  <2> HIDE DEF m
  <2>3. Len(calls') <= MaxCalls
    BY <2>1, <2>2, OneMore DEF IInv, Types
  <2>4. ~up' => calls' = <<>>
    BY <1>1, <2>1 DEF TypesInv
  <2> QED BY <1>1, <1>2, <2>3, <2>4 DEF TypesInv
<1>3. CASE ~(notifier = "kwin" /\ c \in connected)
  BY <1>1, <1>3 DEF SetCaption, TypesInv
<1> QED BY <1>2, <1>3

LEMMA TrackKeepsTypes ==
    ASSUME IInv, TypesInv, Track
    PROVE  TypesInv'
<1>1. UNCHANGED <<notifier, connected, up>> /\ notifier = "tracker"
  BY DEF Track, AskTitle, AskClass, NextRound, script, daemon
<1>2. CASE AskClass
  <2> DEFINE w == [class |-> IF active = NoClient THEN "" ELSE ClassOf[active],
                   title |-> wname]
             m == [slot |-> "activeWindowChanged", window |-> w]
  <2>1. w \in Views
    BY DEF IInv, Types, Views, Titles
  <2>2. calls = <<>> /\ asking' = "wait"
    BY <1>1, <1>2 DEF AskClass, TypesInv
  <2>3. /\ calls' = calls \/ calls' = (IF up THEN Append(calls, m) ELSE calls)
        /\ last' = last \/ last' = w
    BY <1>2 DEF AskClass, WindowChanged, Call
  <2> HIDE DEF w, m
  <2>4. Len(calls') <= MaxCalls
    BY <2>2, <2>3, CallsAssumption
  <2>5. ~up' => calls' = <<>>
    BY <1>1, <2>2, <2>3
  <2> QED BY <1>1, <2>1, <2>2, <2>3, <2>4, <2>5 DEF TypesInv
<1>3. CASE AskTitle \/ NextRound
  BY <1>1, <1>3 DEF AskTitle, NextRound, TypesInv
<1> QED BY <1>2, <1>3 DEF Track

LEMMA DaemonKeepsTypes ==
    ASSUME IInv, TypesInv, Handle \/ Upset
    PROVE  TypesInv'
<1>1. UNCHANGED <<notifier, connected, asking, last>>
  BY DEF Handle, Upset, Reread, StartDaemon, StopDaemon, script, tracker
<1>2. CASE Handle
  <2>1. up' = up /\ up /\ calls # <<>> /\ calls' = Tail(calls)
    BY <1>2 DEF Handle
  <2>2. Len(calls') <= Len(calls) /\ Len(calls) \in Nat /\ Len(calls') \in Nat
    BY <2>1 DEF IInv, Types
  <2>3. Len(calls') <= MaxCalls
    BY <2>2, CallsAssumption DEF TypesInv
  <2>4. calls # <<>> => notifier # "tracker" \/ asking = "wait"
    BY DEF TypesInv
  <2> QED BY <1>1, <2>1, <2>3, <2>4 DEF TypesInv
<1>3. CASE Reread
  BY <1>1, <1>3 DEF Reread, TypesInv
<1>4. CASE StartDaemon
  BY <1>1, <1>4 DEF StartDaemon, TypesInv
<1>5. CASE StopDaemon
  <2>1. calls' = <<>> /\ Len(calls') <= MaxCalls
    BY <1>5, CallsAssumption DEF StopDaemon
  <2> QED BY <1>1, <2>1 DEF TypesInv
<1> QED BY <1>2, <1>3, <1>4, <1>5 DEF Upset

LEMMA NextTypes == IInv /\ TypesInv /\ [Next]_vars => TypesInv'
<1> SUFFICES ASSUME IInv, TypesInv, [Next]_vars PROVE TypesInv'
  OBVIOUS
<1>1. CASE UNCHANGED vars
  BY <1>1 DEF vars, script, tracker, daemon, TypesInv
<1>2. CASE Next
  BY <1>2, ActivateKeepsTypes, SetCaptionKeepsTypes, TrackKeepsTypes, DaemonKeepsTypes
  DEF Next, Change
<1> QED BY <1>1, <1>2

\* What the windows and titles are, what the scripts hold and what is under
\* way: for any number of windows every variable has its type, no call is
\* under way to a daemon that is down, and never more than MaxCalls are.
THEOREM TypesThm == Spec => []TypeOK
<1>1. Init => IInv /\ TypesInv
  BY InitIInv, InitTypes
<1>2. IInv /\ TypesInv /\ [Next]_vars => IInv' /\ TypesInv'
  BY NextIInv, NextTypes
<1>3. IInv /\ TypesInv => TypeOK
  BY DEF IInv, Types, TypesInv, TypeOK, Pairs, Views, Classes, Titles
<1> QED BY <1>1, <1>2, <1>3, PTL DEF Spec
=============================================================================
