----------------------------- MODULE WindowNotify -----------------------------
(***************************************************************************)
(* How the daemon learns which window is active: KWin runs a script that   *)
(* calls it by D-Bus, or a shell script asks X again and again and calls   *)
(* when something is new.  The daemon may be started, reread its           *)
(* configuration and be stopped at any time.                               *)
(*                                                                         *)
(* The desktop, X and D-Bus are external.  D-Bus keeps the order of the    *)
(* calls; without a daemon they are lost.                                  *)
(***************************************************************************)
EXTENDS Integers, Sequences

CONSTANTS
    Clients,  \* the windows of the desktop
    ClassOf,  \* their class
    Captions, \* what they may have as title
    NoClient, \* no window is active
    Glob,     \* <<text, pattern>>: bash's [[ text == pattern ]], for what
              \* titles and classes are as texts and as patterns
    MaxCalls  \* bound: calls under way

ASSUME ClientsAssumption ==
    /\ NoClient \notin Clients
    /\ \A c \in Clients : ClassOf[c] # ""
    /\ "" \notin Captions

\* The shell script's call is under way alone.
ASSUME CallsAssumption == MaxCalls \in Nat \ {0}

Nothing == [class |-> "", title |-> ""]

VARIABLES
    notifier,     \* which of the scripts runs: kwin or tracker
    active,       \* the active window
    caption,      \* the title of each window
    activeclient, \* main.js
    connected,    \* the windows whose captionChanged is connected in main.js
    asking,       \* what the shell script does next: title, class or wait
    wname,        \* WNAME
    last,         \* LASTWCLASS and LASTWNAME
    calls,        \* D-Bus calls under way
    up,           \* the daemon runs
    known,        \* InputMangler::wm_class and wm_title
    forgotten     \* history: which halves of known are not from a call

desktop == <<active, caption>>
script  == <<activeclient, connected>>
tracker == <<asking, wname, last>>
daemon  == <<up, known, forgotten>>
vars == <<notifier, desktop, script, tracker, calls, daemon>>

Init ==
    /\ notifier \in {"kwin", "tracker"}
    /\ active \in Clients \cup {NoClient} /\ caption \in [Clients -> Captions]
    /\ activeclient = NoClient /\ connected = {}
    /\ asking = "title" /\ wname = "" /\ last = Nothing
    /\ calls = <<>>
    /\ up = FALSE /\ known = Nothing /\ forgotten = {"class", "title"}

Window(c, title) == [class |-> ClassOf[c], title |-> title]

\* A call nobody answers is lost; both scripts go on.
Call(message) == calls' = IF up THEN Append(calls, message) ELSE calls
WindowChanged(w) == Call([slot |-> "activeWindowChanged", window |-> w])
TitleChanged(t)  == Call([slot |-> "activeWindowTitleChanged", title |-> t])

-----------------------------------------------------------------------------
(* The desktop, and main.js in KWin.                                       *)

\* clientActivated: for null the script does nothing, and goes on to listen.
Activate(c) ==
    /\ c # active
    /\ active' = c
    /\ IF notifier = "kwin" /\ c # NoClient
       THEN /\ Len(calls) < MaxCalls
            /\ activeclient' = c
            /\ connected' = (connected \ {activeclient}) \cup {c}
            /\ WindowChanged(Window(c, caption[c]))
       ELSE UNCHANGED <<script, calls>>
    /\ UNCHANGED <<notifier, caption, tracker, daemon>>

\* Slip: the script listens to every window.
SetCaptionOfAny(c, t) ==
    /\ t # caption[c]
    /\ caption' = [caption EXCEPT ![c] = t]
    /\ IF notifier = "kwin"
       THEN Len(calls) < MaxCalls /\ TitleChanged(t)
       ELSE UNCHANGED calls
    /\ UNCHANGED <<notifier, active, script, tracker, daemon>>

\* captionChanged: onCaptionChange() sends the title of activeclient.
SetCaption(c, t) ==
    /\ t # caption[c]
    /\ caption' = [caption EXCEPT ![c] = t]
    /\ IF notifier = "kwin" /\ c \in connected
       THEN Len(calls) < MaxCalls /\ TitleChanged(caption'[activeclient])
       ELSE UNCHANGED calls
    /\ UNCHANGED <<notifier, active, script, tracker, daemon>>

-----------------------------------------------------------------------------
(* trackCurrentWindow.sh.  Without an active window xdotool and xprop      *)
(* print nothing.                                                          *)

AskTitle ==
    /\ notifier = "tracker" /\ asking = "title"
    /\ wname' = IF active = NoClient THEN "" ELSE caption[active]
    /\ asking' = "class"
    /\ UNCHANGED <<notifier, desktop, script, last, calls, daemon>>

\* Slip in AskClass: nothing is sent unless both are new.
AskClassBoth ==
    /\ notifier = "tracker" /\ asking = "class"
    /\ LET wclass == IF active = NoClient THEN "" ELSE ClassOf[active]
       IN  IF /\ <<last.title, wname>> \notin Glob
              /\ <<last.class, wclass>> \notin Glob
           THEN /\ WindowChanged([class |-> wclass, title |-> wname])
                /\ last' = [class |-> wclass, title |-> wname]
           ELSE UNCHANGED <<calls, last>>
    /\ asking' = "wait"
    /\ UNCHANGED <<notifier, desktop, script, wname, daemon>>

\* Slip in AskClass: the arguments of the call are swapped.
AskClassSwapped ==
    /\ notifier = "tracker" /\ asking = "class"
    /\ LET wclass == IF active = NoClient THEN "" ELSE ClassOf[active]
           w == [class |-> wname, title |-> wclass]
       IN  IF last # w THEN WindowChanged(w) /\ last' = w
                       ELSE UNCHANGED <<calls, last>>
    /\ asking' = "wait"
    /\ UNCHANGED <<notifier, desktop, script, wname, daemon>>

\* What is right of != without quotes is a pattern: the old window passes
\* for the new one if both its halves match the new ones.
PassesFor(old, new) == <<old.title, new.title>> \in Glob /\ <<old.class, new.class>> \in Glob

\* Asks for the class, compares, and calls if one of them is new.
AskClass ==
    /\ notifier = "tracker" /\ asking = "class"
    /\ LET w == [class |-> IF active = NoClient THEN "" ELSE ClassOf[active],
                 title |-> wname]
       IN  IF PassesFor(last, w) THEN UNCHANGED <<calls, last>>
                                 ELSE WindowChanged(w) /\ last' = w
    /\ asking' = "wait"
    /\ UNCHANGED <<notifier, desktop, script, wname, daemon>>

\* qdbus returns after the call, then comes the sleep.
NextRound ==
    /\ notifier = "tracker" /\ asking = "wait" /\ calls = <<>>
    /\ asking' = "title"
    /\ UNCHANGED <<notifier, desktop, script, wname, last, calls, daemon>>

-----------------------------------------------------------------------------
(* The daemon.                                                             *)

\* activeWindowChanged() and activeWindowTitleChanged().
Handle ==
    /\ up /\ calls # <<>>
    /\ calls' = Tail(calls)
    /\ LET call == Head(calls)
       IN  IF call.slot = "activeWindowChanged"
           THEN known' = call.window /\ forgotten' = {}
           ELSE /\ known' = [known EXCEPT !.title = call.title]
                /\ forgotten' = forgotten \ {"title"}
    /\ UNCHANGED <<notifier, desktop, script, tracker, up>>

\* HUP: reReadConfig(), which ends with activeWindowTitleChanged("").
Reread ==
    /\ up
    /\ known' = [known EXCEPT !.title = ""]
    /\ forgotten' = forgotten \cup {"title"}
    /\ UNCHANGED <<notifier, desktop, script, tracker, calls, up>>

StartDaemon ==
    /\ ~up
    /\ up' = TRUE
    /\ known' = Nothing /\ forgotten' = {"class", "title"}
    /\ UNCHANGED <<notifier, desktop, script, tracker, calls>>

\* What was under way gets no answer.
StopDaemon ==
    /\ up
    /\ up' = FALSE
    /\ calls' = <<>>
    /\ UNCHANGED <<notifier, desktop, script, tracker, known, forgotten>>

-----------------------------------------------------------------------------
Change ==
    \/ \E c \in Clients \cup {NoClient} : Activate(c)
    \/ \E c \in Clients, t \in Captions : SetCaption(c, t)
Track  == AskTitle \/ AskClass \/ NextRound
Upset  == Reread \/ StartDaemon \/ StopDaemon

Next == Change \/ Track \/ Handle \/ Upset

\* The script's loop goes on, and the daemon's event loop serves every call.
Spec == Init /\ [][Next]_vars /\ WF_vars(Track) /\ WF_vars(Handle)

-----------------------------------------------------------------------------
(* Properties.                                                             *)

Views == [class : {ClassOf[c] : c \in Clients} \cup {""}, title : Captions \cup {""}]

TypeOK ==
    /\ notifier \in {"kwin", "tracker"}
    /\ active \in Clients \cup {NoClient} /\ caption \in [Clients -> Captions]
    /\ activeclient \in Clients \cup {NoClient} /\ connected \subseteq Clients
    /\ asking \in {"title", "class", "wait"}
    /\ wname \in Captions \cup {""} /\ last \in Views
    /\ Len(calls) <= MaxCalls
    /\ ~up => calls = <<>>
    /\ known \in Views /\ forgotten \subseteq {"class", "title"}

\* What is to be known: without an active window KWin's script stays with the
\* last one.
Shown ==
    LET c == IF notifier = "kwin" THEN activeclient ELSE active
    IN  IF c = NoClient THEN Nothing ELSE Window(c, caption[c])

\* The daemon's view once the calls under way have arrived.
WindowCalls == {i \in DOMAIN calls : calls[i].slot = "activeWindowChanged"}
LastCall == calls[Len(calls)]
ComingTitle ==
    IF calls = <<>> THEN known.title
    ELSE IF LastCall.slot = "activeWindowChanged" THEN LastCall.window.title
    ELSE LastCall.title
ComingClass ==
    IF WindowCalls = {} THEN known.class
    ELSE calls[CHOOSE i \in WindowCalls : \A j \in WindowCalls : j <= i].window.class

\* KWin's script tells of every switch and every title as it happens, and of
\* the active window only: wherever windows, calls, rereads and restarts fall,
\* the class and the title the daemon is about to know are those of one
\* window, the active one, but for what it forgot.
NeverMixed ==
    notifier = "kwin" /\ up =>
        /\ \/ "class" \in forgotten /\ WindowCalls = {}
           \/ ComingClass = Shown.class
        /\ \/ "title" \in forgotten /\ calls = <<>>
           \/ ComingTitle = Shown.title

\* README, "printWinInfo": "Print class and title of current Window, as seen
\* by inputmangler."  When the windows and the daemon come to rest, what is
\* seen is the current window, also when it changed between the two questions
\* of the shell script.  There are two exceptions, and no others: what the
\* daemon forgot and nobody told it again, and, with the shell script, a
\* window that matches class and title of the current one as patterns
\* ("foo.c" stays when it becomes "*foo.c").
SeesCurrentWindow ==
    \/ []<><<Change>>_desktop
    \/ []<><<Upset>>_daemon
    \/ <>[](up /\ forgotten = {} =>
               known = Shown \/ (notifier = "tracker" /\ PassesFor(known, Shown)))
=============================================================================
