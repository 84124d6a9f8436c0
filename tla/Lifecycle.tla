----------------------------- MODULE Lifecycle -----------------------------
(***************************************************************************)
(* The life of the inputmangler daemon: InputMangler (readConf, cleanUp,   *)
(* reReadConfig), main(), QtSignalHandler, and the run() loops of the      *)
(* handler threads as far as starting, waiting, working and ending go.     *)
(*                                                                         *)
(* Time is counted in ticks of half a second.  A deadline is a countdown,  *)
(* and Tick cannot pass one: what is due happens before time goes on.      *)
(***************************************************************************)
EXTENDS Naturals, Sequences

CONSTANTS
    Devices,     \* DevHandler threads
    Debuggers,   \* DebugHandler threads
    Servers,     \* NetHandler threads
    Watchers,    \* XWatcher threads
    Windowed,    \* the handlers that have an id, and so window settings
    NoHandler,
    PollTicks,   \* poll(&p, 1, 1500)
    AcceptTicks, \* waitForNewConnection(1000), waitForReadyRead(1000)
    JoinTicks,   \* h->wait(4000)
    MaxBusy,     \* the longest time a thread works between two waits
    MaxSignals   \* bound: signals that fit into the socket pair

Handlers == Devices \cup Debuggers \cup Servers \cup Watchers

\* The threads that write to the virtual devices.
Writers == Devices \cup Servers

ASSUME TimesAreNat ==
    /\ PollTicks \in Nat /\ AcceptTicks \in Nat /\ JoinTicks \in Nat
    /\ MaxBusy \in Nat /\ MaxSignals \in Nat

ASSUME HandlersAreDistinct ==
    /\ NoHandler \notin Handlers
    /\ Servers \cap (Devices \cup Debuggers \cup Watchers) = {}

VARIABLES
    pc,          \* where the main thread is
    after,       \* what follows cleanUp(): "reread" or "quit"
    signals,     \* signal numbers written to the socket pair, not read yet
    installed,   \* QtSignalHandler was constructed
    handlers,    \* InputMangler::handlers
    toStart,     \* handlers the loop of readConf() has not come to
    toJoin,      \* handlers the wait loop of cleanUp() has not come to
    joinee,      \* the handler cleanUp() is waiting for
    waitLeft,    \* what is left of wait(4000)
    terminating, \* AbstractInputHandler::sd.terminating
    vdev,        \* OutEvent::fds
    thread,      \* the state of every handler's thread
    timer        \* time until the thread's wait or work is over

mainVars   == <<pc, after, handlers, toStart, toJoin, joinee, terminating,
                vdev>>
signalVars == <<signals, installed>>
vars == <<mainVars, signalVars, waitLeft, thread, timer>>

Waiting == {"polling", "accepting", "awaiting"}
Active  == Waiting \cup {"starting", "busy"}
ThreadStates == Active \cup {"none", "idle", "finished"}
Ended == {"exited", "aborted", "killed"}

\* The signals that do more than print; INT is handled like TERM.
SignalNames == {"HUP", "TERM"}

\* QThread::isRunning().
Running(h) == thread[h] \in Active

Patience(h) == IF h \in Servers THEN AcceptTicks ELSE PollTicks

TypeOK ==
    /\ pc \in {"setup", "parse", "starting", "loop", "joining", "deleting"}
              \cup Ended
    /\ after \in {"reread", "quit"}
    /\ signals \in Seq(SignalNames)
    /\ installed \in BOOLEAN
    /\ handlers \in SUBSET Handlers
    /\ toStart \in SUBSET Handlers
    /\ toJoin \in SUBSET Handlers
    /\ joinee \in Handlers \cup {NoHandler}
    /\ waitLeft \in 0..JoinTicks
    /\ terminating \in BOOLEAN
    /\ vdev \in {"unopened", "open", "failed", "closed"}
    /\ thread \in [Handlers -> ThreadStates]
    /\ timer \in [Handlers -> Nat]

Init ==
    /\ pc = "setup"
    /\ after = "quit"
    /\ signals = <<>>
    /\ installed = FALSE
    /\ handlers = {}
    /\ toStart = {}
    /\ toJoin = {}
    /\ joinee = NoHandler
    /\ waitLeft = 0
    /\ terminating = FALSE
    /\ vdev = "unopened"
    /\ thread = [h \in Handlers |-> "none"]
    /\ timer = [h \in Handlers |-> 0]

-----------------------------------------------------------------------------
(* The main thread: InputMangler::readConf().                              *)

\* The two generalSetup() calls.  A device that cannot be opened is noticed
\* by nobody: its descriptor stays -1.
OpenDevices ==
    /\ pc = "setup"
    /\ vdev' \in {"open", "failed"}
    /\ terminating' = FALSE
    /\ pc' = "parse"
    /\ UNCHANGED <<after, handlers, toStart, toJoin, joinee, signalVars,
                   waitLeft, thread, timer>>

\* ConfParser::readConf() finds some handlers, or fails to load the file
\* and returns with none.  The list is fresh: nothing is left in it.
ParseConfig ==
    /\ pc = "parse"
    /\ \E H \in SUBSET Handlers :
        /\ handlers' = H
        /\ toStart' = H
        /\ thread' = [h \in Handlers |-> IF h \in H THEN "idle" ELSE thread[h]]
    /\ pc' = "starting"
    /\ UNCHANGED <<after, toJoin, joinee, terminating, vdev, signalVars,
                   waitLeft, timer>>

\* A well-formed file that names no handler: exit(1).
NothingToHandle ==
    /\ pc = "parse"
    /\ pc' = "exited"
    /\ UNCHANGED <<after, handlers, toStart, toJoin, joinee, terminating,
                   vdev, signalVars, waitLeft, thread, timer>>

StartHandler(h) ==
    /\ pc = "starting"
    /\ h \in toStart
    /\ toStart' = toStart \ {h}
    /\ thread' = [thread EXCEPT ![h] = "starting"]
    /\ UNCHANGED <<pc, after, handlers, toJoin, joinee, terminating, vdev,
                   signalVars, waitLeft, timer>>

\* Window settings that fail the sanity check: the thread is not started,
\* but its handler stays in the list.
SkipInsane(h) ==
    /\ pc = "starting"
    /\ h \in toStart \cap Windowed
    /\ toStart' = toStart \ {h}
    /\ UNCHANGED <<pc, after, handlers, toJoin, joinee, terminating, vdev,
                   signalVars, waitLeft, thread, timer>>

\* Slip: a daemon that waits for handlers before it serves.
EnterLoopWithHandlers ==
    /\ handlers # {}
    /\ pc = "starting"
    /\ toStart = {}
    /\ pc' = "loop"
    /\ installed' = TRUE
    /\ UNCHANGED <<after, handlers, toStart, toJoin, joinee, terminating,
                   vdev, signals, waitLeft, thread, timer>>

\* readConf() returns; main() installs the signal handlers the first time
\* it gets here, and runs the event loop.
EnterLoop ==
    /\ pc = "starting"
    /\ toStart = {}
    /\ pc' = "loop"
    /\ installed' = TRUE
    /\ UNCHANGED <<after, handlers, toStart, toJoin, joinee, terminating,
                   vdev, signals, waitLeft, thread, timer>>

-----------------------------------------------------------------------------
(* Signals.                                                                *)

\* A signal arrives at any time.  Before the handlers are installed its
\* default action ends the process, and with it every thread.
RaiseSignal(s) ==
    /\ pc \notin Ended
    /\ IF installed
       THEN /\ Len(signals) < MaxSignals
            /\ signals' = Append(signals, s)
            /\ UNCHANGED <<pc, thread>>
       ELSE /\ pc' = "killed"
            /\ thread' = [h \in Handlers |-> "none"]
            /\ UNCHANGED signals
    /\ UNCHANGED <<after, installed, handlers, toStart, toJoin, joinee,
                   terminating, vdev, waitLeft, timer>>

\* Slip: HUP reads the configuration without cleaning up first.
HandleSignalHastily ==
    /\ pc = "loop"
    /\ signals # <<>>
    /\ signals' = Tail(signals)
    /\ after' = IF Head(signals) = "HUP" THEN "reread" ELSE "quit"
    /\ terminating' = TRUE
    /\ toJoin' = handlers
    /\ pc' = IF Head(signals) = "HUP" THEN "setup" ELSE "joining"
    /\ UNCHANGED <<installed, handlers, toStart, joinee, vdev, waitLeft,
                   thread, timer>>

\* socketReady(): HUP is reReadConfig(); TERM and INT leave the event loop,
\* and aboutToQuit() is connected to cleanUp().
HandleSignal ==
    /\ pc = "loop"
    /\ signals # <<>>
    /\ signals' = Tail(signals)
    /\ after' = IF Head(signals) = "HUP" THEN "reread" ELSE "quit"
    /\ terminating' = TRUE
    /\ toJoin' = handlers
    /\ pc' = "joining"
    /\ UNCHANGED <<installed, handlers, toStart, joinee, vdev, waitLeft,
                   thread, timer>>

-----------------------------------------------------------------------------
(* The main thread: InputMangler::cleanUp().                               *)

\* Slip: the flag is taken back as soon as the waiting begins.
BeginWaitForgetful(h) ==
    /\ pc = "joining"
    /\ joinee = NoHandler
    /\ h \in toJoin
    /\ joinee' = h
    /\ toJoin' = toJoin \ {h}
    /\ waitLeft' = JoinTicks
    /\ terminating' = FALSE
    /\ UNCHANGED <<pc, after, handlers, toStart, vdev, signalVars, thread, timer>>

\* Slip: one poll more than wait() allows.
BeginWaitLonger(h) ==
    /\ pc = "joining"
    /\ joinee = NoHandler
    /\ h \in toJoin
    /\ joinee' = h
    /\ toJoin' = toJoin \ {h}
    /\ waitLeft' = JoinTicks + PollTicks
    /\ UNCHANGED <<pc, after, handlers, toStart, terminating, vdev,
                   signalVars, thread, timer>>

BeginWait(h) ==
    /\ pc = "joining"
    /\ joinee = NoHandler
    /\ h \in toJoin
    /\ joinee' = h
    /\ toJoin' = toJoin \ {h}
    /\ waitLeft' = JoinTicks
    /\ UNCHANGED <<pc, after, handlers, toStart, terminating, vdev,
                   signalVars, thread, timer>>

\* Slip: wait(0).
EndWaitAtOnce ==
    /\ joinee # NoHandler
    /\ joinee' = NoHandler
    /\ waitLeft' = 0
    /\ UNCHANGED <<pc, after, handlers, toStart, toJoin, terminating, vdev,
                   signalVars, thread, timer>>

\* wait() returns when the thread has ended or was never started, and when
\* the time is up; the result is not looked at.
EndWait ==
    /\ joinee # NoHandler
    /\ ~Running(joinee) \/ waitLeft = 0
    /\ joinee' = NoHandler
    /\ waitLeft' = 0
    /\ UNCHANGED <<pc, after, handlers, toStart, toJoin, terminating, vdev,
                   signalVars, thread, timer>>

\* Slip: the devices are closed before the threads are waited for.
CloseDevicesFirst ==
    /\ pc = "joining"
    /\ joinee = NoHandler
    /\ vdev' = "closed"
    /\ pc' = IF toJoin = {} THEN "deleting" ELSE pc
    /\ UNCHANGED <<after, handlers, toStart, toJoin, joinee, terminating,
                   signalVars, waitLeft, thread, timer>>

CloseDevices ==
    /\ pc = "joining"
    /\ toJoin = {}
    /\ joinee = NoHandler
    /\ vdev' = "closed"
    /\ pc' = "deleting"
    /\ UNCHANGED <<after, handlers, toStart, toJoin, joinee, terminating,
                   signalVars, waitLeft, thread, timer>>

\* Deleting the object of a running thread aborts the process.
DeleteHandler(h) ==
    /\ pc = "deleting"
    /\ h \in handlers
    /\ IF Running(h)
       THEN /\ pc' = "aborted"
            /\ thread' = [g \in Handlers |-> "none"]
            /\ UNCHANGED handlers
       ELSE /\ handlers' = handlers \ {h}
            /\ thread' = [thread EXCEPT ![h] = "none"]
            /\ UNCHANGED pc
    /\ UNCHANGED <<after, toStart, toJoin, joinee, terminating, vdev,
                   signalVars, waitLeft, timer>>

\* Slip: every signal is handled like HUP ...
CleanUpDoneRereads ==
    /\ pc = "deleting"
    /\ handlers = {}
    /\ pc' = "setup"
    /\ UNCHANGED <<after, handlers, toStart, toJoin, joinee, terminating,
                   vdev, signalVars, waitLeft, thread, timer>>

\* ... or HUP goes back to the event loop without readConf().
CleanUpDoneIdles ==
    /\ pc = "deleting"
    /\ handlers = {}
    /\ pc' = IF after = "reread" THEN "loop" ELSE "exited"
    /\ UNCHANGED <<after, handlers, toStart, toJoin, joinee, terminating,
                   vdev, signalVars, waitLeft, thread, timer>>

CleanUpDone ==
    /\ pc = "deleting"
    /\ handlers = {}
    /\ pc' = IF after = "reread" THEN "setup" ELSE "exited"
    /\ UNCHANGED <<after, handlers, toStart, toJoin, joinee, terminating,
                   vdev, signalVars, waitLeft, thread, timer>>

-----------------------------------------------------------------------------
(* The handler threads.                                                    *)

\* Thread h goes to state s, with t ticks until what it does there is over.
Become(h, s, t) ==
    /\ thread' = [thread EXCEPT ![h] = s]
    /\ timer' = [timer EXCEPT ![h] = t]
    /\ UNCHANGED <<mainVars, signalVars, waitLeft>>

\* open() and EVIOCGRAB, or listen(), succeed.
Opened(h) ==
    /\ thread[h] = "starting"
    /\ \/ h \in Devices \cup Debuggers /\ Become(h, "polling", PollTicks)
       \/ h \in Servers /\ Become(h, "accepting", AcceptTicks)

\* They fail; and the XWatcher is not implemented, its run() returns.
CannotRun(h) ==
    /\ thread[h] = "starting"
    /\ Become(h, "finished", 0)

\* poll() reports POLLERR, POLLHUP or POLLNVAL.
DeviceRemoved(h) ==
    /\ thread[h] = "polling"
    /\ Become(h, "finished", 0)

\* The wait is over, by data or by time, and sd.terminating is set.
SeeTerminating(h) ==
    /\ thread[h] \in Waiting
    /\ terminating
    /\ Become(h, "finished", 0)

\* Slip: the thread does not look at the flag when its wait times out.
WaitAgainDeaf(h) ==
    /\ thread[h] \in Waiting
    /\ timer[h] = 0
    /\ Become(h, thread[h], Patience(h))

\* The time is up, nothing came and nobody asks the thread to end.
WaitAgain(h) ==
    /\ thread[h] \in Waiting
    /\ timer[h] = 0
    /\ ~terminating
    /\ Become(h, thread[h], Patience(h))

\* Input to work on: at most MaxBusy ticks of writes and sleeps.
DataArrives(h) ==
    /\ thread[h] \in {"polling", "awaiting"}
    /\ ~terminating
    /\ \E d \in 0..MaxBusy : Become(h, "busy", d)

ClientConnects(h) ==
    /\ thread[h] = "accepting"
    /\ ~terminating
    /\ Become(h, "awaiting", Patience(h))

ClientDisconnects(h) ==
    /\ thread[h] = "awaiting"
    /\ ~terminating
    /\ Become(h, "accepting", Patience(h))

\* The last event of the batch is written; back to the wait.
WorkDone(h) ==
    /\ thread[h] = "busy"
    /\ timer[h] = 0
    /\ Become(h, IF h \in Servers THEN "awaiting" ELSE "polling", Patience(h))

-----------------------------------------------------------------------------
\* Half a second passes.  Nothing that is due can be passed over, and a
\* thread takes no measurable time to open its device.
Tick ==
    /\ \A h \in Handlers : Running(h) => thread[h] # "starting" /\ timer[h] > 0
    /\ joinee # NoHandler => Running(joinee) /\ waitLeft > 0
    /\ timer' = [h \in Handlers |-> IF Running(h) THEN timer[h] - 1 ELSE timer[h]]
    /\ waitLeft' = IF joinee # NoHandler THEN waitLeft - 1 ELSE waitLeft
    /\ UNCHANGED <<mainVars, signalVars, thread>>

MainStep ==
    \/ OpenDevices \/ ParseConfig \/ NothingToHandle \/ EnterLoop
    \/ HandleSignal \/ EndWait \/ CloseDevices \/ CleanUpDone
    \/ \E h \in Handlers : \/ StartHandler(h) \/ SkipInsane(h)
                           \/ BeginWait(h) \/ DeleteHandler(h)

\* What a thread does by itself ...
ThreadStep(h) ==
    \/ Opened(h) \/ CannotRun(h) \/ SeeTerminating(h) \/ WaitAgain(h)
    \/ WorkDone(h)

\* ... and what somebody outside does to it.
Outside(h) ==
    DeviceRemoved(h) \/ DataArrives(h) \/ ClientConnects(h) \/ ClientDisconnects(h)

Next ==
    \/ MainStep
    \/ \E s \in SignalNames : RaiseSignal(s)
    \/ \E h \in Handlers : ThreadStep(h) \/ Outside(h)
    \/ Tick

\* The scheduler runs the main thread and every handler's thread, and time
\* passes.  Nobody has to send signals or input.
Fairness ==
    /\ WF_vars(MainStep)
    /\ WF_vars(Tick)
    /\ \A h \in Handlers : WF_vars(timer[h] = 0 /\ ThreadStep(h))

Spec == Init /\ [][Next]_vars

FairSpec == Spec /\ Fairness

-----------------------------------------------------------------------------
(* Properties.                                                             *)

\* No handler object is ever deleted while its thread runs, which would end
\* the daemon by qFatal() instead of rereading or quitting (cleanUp()).
NeverAborted == pc # "aborted"

\* A wait of cleanUp() ends because the thread did, never because four
\* seconds went by: the ignored result of wait(4000) is always true.
WaitsAreLongEnough ==
    joinee # NoHandler /\ Running(joinee) => waitLeft > 0

\* No thread writes events after closeVirtualDevices(): the descriptors it
\* would use are closed, or belong to somebody else by then.
NoWriteAfterClose ==
    \A h \in Writers : thread[h] = "busy" => vdev # "closed"

\* When the daemon sets itself up afresh, no thread of the configuration
\* before is still there to share the new virtual devices and the flag.
CleanRestart ==
    pc \in {"setup", "parse"} => \A h \in Handlers : ~Running(h)

\* sd.terminating is taken back (generalSetup(), readConf()) only after every
\* thread it was meant for has seen it: none can miss it and live on.
TerminatingIsSeen ==
    [][terminating /\ ~terminating' => \A h \in Handlers : ~Running(h)]_vars

\* A TERM, whenever it comes and whatever comes before it, ends the daemon
\* (README, SIG).
TermEndsDaemon ==
    (\E i \in 1..MaxSignals : i <= Len(signals) /\ signals[i] = "TERM")
        ~> pc = "exited"

\* A HUP brings the daemon back to its event loop with the new
\* configuration, unless that configuration has nothing to handle.
HupComesBack == (pc = "joining" /\ after = "reread") ~> pc \in {"loop", "exited"}

-----------------------------------------------------------------------------
(* The abstract daemon this module implements.                             *)

Mode ==
    CASE pc \in {"setup", "parse"} -> "down"
      [] pc \in {"starting", "loop"} -> "serving"
      [] pc = "joining" -> "stopping"
      [] pc = "deleting" -> "drained"
      [] pc \in {"exited", "killed"} -> "stopped"
      [] pc = "aborted" -> "aborted"

D == INSTANCE Daemon WITH Workers <- Handlers, mode <- Mode,
                          workers <- {h \in Handlers : Running(h)}

\* The daemon as its documentation describes it: stops are complete, and a
\* HUP is "a restart without a restart".
ImplementsDaemon == D!DaemonSpec
=============================================================================
