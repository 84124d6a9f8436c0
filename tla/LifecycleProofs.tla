-------------------------- MODULE LifecycleProofs --------------------------
(***************************************************************************)
(* Proofs about Lifecycle for any handlers and any times, under the one    *)
(* assumption the code relies on without saying so: a thread is done with  *)
(* its work and its next wait before cleanUp() loses its patience.         *)
(***************************************************************************)
EXTENDS Lifecycle, TLAPS

\* The timing assumption.  A macro with long delays, or a long text from the
\* network, breaks it: the run Lifecycle_longwork shows what happens then.
ASSUME JoinOutlastsWork ==
    /\ PollTicks + MaxBusy < JoinTicks
    /\ AcceptTicks + MaxBusy < JoinTicks

\* The time after which thread h has surely looked at sd.terminating.
Remaining(h) ==
    CASE thread[h] = "starting" -> Patience(h)
      [] thread[h] \in Waiting  -> timer[h]
      [] thread[h] = "busy"     -> timer[h] + Patience(h)
      [] OTHER                  -> 0

\* What the phases of the main thread mean for the threads it owns.
PhasesOK ==
    /\ pc # "aborted"
    /\ \A h \in Handlers \ handlers : thread[h] = "none"
    /\ pc \in {"setup", "parse"} \cup Ended => \A h \in Handlers : ~Running(h)
    /\ pc \in {"setup", "parse"} => handlers = {}
    /\ pc \in {"parse", "starting", "loop"} => ~terminating
    /\ pc \in {"joining", "deleting"} => terminating
    /\ toStart \subseteq handlers /\ (toStart # {} => pc \in {"starting"} \cup Ended)
    /\ pc = "joining" =>
         \A h \in Handlers : Running(h) => h \in toJoin \cup {joinee}
    /\ pc = "deleting" => \A h \in Handlers : ~Running(h)
    /\ joinee # NoHandler => pc = "joining"
    /\ ~installed => pc \in {"setup", "parse", "starting"} \cup Ended
    /\ vdev = "closed" => pc \in {"deleting", "setup"} \cup Ended

\* A thread that is waited for needs less time than the wait has left.
DeadlinesOK ==
    /\ \A h \in Handlers : Running(h) => Remaining(h) <= Patience(h) + MaxBusy
    /\ joinee # NoHandler /\ Running(joinee) => Remaining(joinee) < waitLeft

\* The inductive invariant.
IInv == TypeOK /\ PhasesOK /\ DeadlinesOK

-----------------------------------------------------------------------------
\* The facts about constants the proofs use, in one place.
LEMMA ConstantFacts ==
    /\ NoHandler \notin Handlers
    /\ \A h \in Handlers : /\ Patience(h) \in Nat
                           /\ Patience(h) + MaxBusy < JoinTicks
    /\ MaxBusy \in Nat /\ JoinTicks \in Nat /\ MaxSignals \in Nat
BY TimesAreNat, HandlersAreDistinct, JoinOutlastsWork DEF Patience

\* The type invariant holds at the start.
LEMMA TypeInit == Init => TypeOK
<1> SUFFICES ASSUME Init PROVE TypeOK
    OBVIOUS
<1>1. signals \in Seq(SignalNames)
    BY DEF Init
<1>2. thread \in [Handlers -> ThreadStates] /\ timer \in [Handlers -> Nat]
    BY DEF Init, ThreadStates
<1>3. waitLeft \in 0..JoinTicks /\ joinee \in Handlers \cup {NoHandler}
    BY ConstantFacts DEF Init
<1>4. handlers \in SUBSET Handlers /\ toStart \in SUBSET Handlers
      /\ toJoin \in SUBSET Handlers
    BY DEF Init
<1> QED BY <1>1, <1>2, <1>3, <1>4 DEF Init, TypeOK

\* The type invariant is preserved by every step (main thread, signals,
\* handler threads and the clock).
LEMMA TypeStep == TypeOK /\ [Next]_vars => TypeOK'
<1> SUFFICES ASSUME TypeOK, [Next]_vars PROVE TypeOK'
    OBVIOUS
<1> USE ConstantFacts
<1>1. CASE OpenDevices \/ ParseConfig \/ NothingToHandle \/ EnterLoop
    BY <1>1 DEF TypeOK, OpenDevices, ParseConfig, NothingToHandle, EnterLoop,
                signalVars, ThreadStates, Active, Waiting, Ended
<1>2. CASE EndWait \/ CloseDevices \/ CleanUpDone
    BY <1>2 DEF TypeOK, EndWait, CloseDevices, CleanUpDone,
                signalVars, Ended
<1>3. ASSUME NEW h \in Handlers, \/ StartHandler(h) \/ SkipInsane(h)
                                 \/ BeginWait(h) \/ DeleteHandler(h)
      PROVE  TypeOK'
    BY <1>3 DEF TypeOK, StartHandler, SkipInsane, BeginWait, DeleteHandler,
                signalVars, ThreadStates, Active, Waiting, Ended
<1>4. ASSUME NEW s \in SignalNames, RaiseSignal(s) PROVE TypeOK'
  <2>1. signals' \in Seq(SignalNames)
    <3>1. signals \in Seq(SignalNames)
        BY DEF TypeOK
    <3>2. Append(signals, s) \in Seq(SignalNames)
        BY <3>1
    <3> QED BY <1>4, <3>1, <3>2 DEF RaiseSignal
  <2>2. thread' \in [Handlers -> ThreadStates]
      BY <1>4 DEF TypeOK, RaiseSignal, ThreadStates
  <2> QED BY <1>4, <2>1, <2>2 DEF TypeOK, RaiseSignal, Ended
<1>5. ASSUME NEW h \in Handlers, ThreadStep(h) \/ Outside(h) PROVE TypeOK'
  <2>1. PICK s \in ThreadStates, t \in Nat : Become(h, s, t)
      BY <1>5, TimesAreNat
      DEF TypeOK, ThreadStep, Outside, Opened, CannotRun, SeeTerminating,
          WaitAgain, WorkDone, DeviceRemoved, DataArrives, ClientConnects,
          ClientDisconnects, ThreadStates, Active, Waiting, Patience
  <2> QED BY <2>1 DEF TypeOK, Become, mainVars, signalVars
<1>6. CASE Tick
    BY <1>6 DEF TypeOK, Tick, mainVars, signalVars
<1>7. CASE UNCHANGED vars
    BY <1>7 DEF TypeOK, vars, mainVars, signalVars
<1>8. CASE HandleSignal
    BY <1>8 DEF TypeOK, HandleSignal
<1> QED BY <1>1, <1>2, <1>3, <1>4, <1>5, <1>6, <1>7, <1>8 DEF Next, MainStep

\* Every variable keeps its type, whatever the handlers and the times.
THEOREM TypeCorrect == Spec => []TypeOK
BY TypeInit, TypeStep, PTL DEF Spec

-----------------------------------------------------------------------------
\* The inductive invariant holds at the start.
LEMMA IInvInit == Init => IInv
<1> SUFFICES ASSUME Init PROVE PhasesOK /\ DeadlinesOK
    BY TypeInit DEF IInv
<1>1. \A h \in Handlers : ~Running(h) /\ thread[h] = "none"
    BY DEF Init, Running, Active, Waiting
<1>2. PhasesOK
    BY <1>1 DEF Init, PhasesOK
<1>3. DeadlinesOK
    BY <1>1 DEF Init, DeadlinesOK
<1> QED BY <1>2, <1>3

\* How Running follows from the state of the thread.
LEMMA RunningStates ==
    \A h \in Handlers :
        /\ Running(h) <=> thread[h] \in Active
        /\ thread[h] = "none" => ~Running(h)
        /\ thread[h] = "idle" => ~Running(h)
        /\ thread[h] = "finished" => ~Running(h)
BY DEF Running, Active, Waiting

\* The time remaining is a number.
LEMMA RemainingIsNat == TypeOK => \A h \in Handlers : Remaining(h) \in Nat
BY ConstantFacts DEF TypeOK, Remaining

\* Every step of the main thread keeps the phases.
LEMMA PhasesMainStep == IInv /\ MainStep => PhasesOK'
<1> SUFFICES ASSUME IInv, MainStep PROVE PhasesOK'
    OBVIOUS
<1> USE DEF IInv
<1>1. CASE OpenDevices
    BY <1>1 DEF PhasesOK, signalVars, OpenDevices, Running, Ended
<1>2. CASE ParseConfig
  <2>1. PICK H \in SUBSET Handlers :
            /\ handlers' = H
            /\ thread' = [h \in Handlers |-> IF h \in H THEN "idle" ELSE thread[h]]
      BY <1>2 DEF ParseConfig
  <2>2. \A h \in Handlers \ H : thread'[h] = "none"
      BY <1>2, <2>1 DEF PhasesOK, signalVars, ParseConfig
  <2> QED BY <1>2, <2>1, <2>2 DEF PhasesOK, signalVars, ParseConfig, Ended
<1>3. CASE NothingToHandle
    BY <1>3 DEF PhasesOK, signalVars, NothingToHandle, Running, Ended
<1>4. CASE EnterLoop
    BY <1>4 DEF PhasesOK, signalVars, EnterLoop, Running, Ended
<1>5. CASE HandleSignal
    BY <1>5, RunningStates DEF PhasesOK, signalVars, HandleSignal, Running, Ended
<1>6. CASE EndWait
  <2>1. ~Running(joinee)
      BY <1>6, RemainingIsNat DEF EndWait, DeadlinesOK, TypeOK
  <2> QED BY <1>6, <2>1 DEF PhasesOK, signalVars, EndWait, Running, Ended
<1>7. CASE CloseDevices
    BY <1>7, ConstantFacts DEF PhasesOK, signalVars, CloseDevices, Running, Ended
<1>8. CASE CleanUpDone
    BY <1>8 DEF PhasesOK, signalVars, CleanUpDone, Running, Ended, TypeOK
<1>9. ASSUME NEW h \in Handlers, StartHandler(h) PROVE PhasesOK'
    BY <1>9 DEF PhasesOK, signalVars, StartHandler, Ended, TypeOK
<1>10. ASSUME NEW h \in Handlers, SkipInsane(h) PROVE PhasesOK'
    BY <1>10 DEF PhasesOK, signalVars, SkipInsane, Running, Ended
<1>11. ASSUME NEW h \in Handlers, BeginWait(h) PROVE PhasesOK'
    BY <1>11, ConstantFacts DEF PhasesOK, signalVars, BeginWait, Running, Ended
<1>12. ASSUME NEW h \in Handlers, DeleteHandler(h) PROVE PhasesOK'
    BY <1>12 DEF PhasesOK, signalVars, DeleteHandler, Running, Ended, TypeOK, Active, Waiting
<1> QED BY <1>1, <1>2, <1>3, <1>4, <1>5, <1>6, <1>7, <1>8, <1>9, <1>10,
           <1>11, <1>12 DEF MainStep

\* What a thread does to itself, seen from outside: it may end or change its
\* state, but nobody starts to run and nothing else changes.
LEMMA ThreadStepEffect ==
    ASSUME IInv, NEW h \in Handlers, ThreadStep(h) \/ Outside(h)
    PROVE  /\ UNCHANGED <<mainVars, signalVars, waitLeft>>
           /\ Running(h) /\ thread'[h] # "none"
           /\ \A g \in Handlers \ {h} : /\ thread'[g] = thread[g]
                                        /\ timer'[g] = timer[g]
           /\ thread' \in [Handlers -> ThreadStates]
<1>1. PICK s \in ThreadStates \ {"none"}, t \in Nat : Become(h, s, t)
    BY ConstantFacts, TimesAreNat
    DEF IInv, TypeOK, ThreadStep, Outside, Opened, CannotRun, SeeTerminating,
        WaitAgain, WorkDone, DeviceRemoved, DataArrives, ClientConnects,
        ClientDisconnects, ThreadStates, Active, Waiting
<1>2. Running(h)
    BY DEF ThreadStep, Outside, Opened, CannotRun, SeeTerminating, WaitAgain,
           WorkDone, DeviceRemoved, DataArrives, ClientConnects,
           ClientDisconnects, Running, Active, Waiting
<1> QED BY <1>1, <1>2 DEF Become, IInv, TypeOK

\* The other threads keep running, or not, as they did.
LEMMA OthersKeepRunning ==
    ASSUME NEW h \in Handlers, thread'[h] = thread[h]
    PROVE  Running(h)' <=> Running(h)
BY DEF Running

\* The steps of signals, threads and the clock keep the phases.
LEMMA PhasesOtherStep ==
    ASSUME IInv,
           \/ \E s \in SignalNames : RaiseSignal(s)
           \/ \E h \in Handlers : ThreadStep(h) \/ Outside(h)
           \/ Tick
           \/ UNCHANGED vars
    PROVE  PhasesOK'
<1>1. ASSUME NEW s \in SignalNames, RaiseSignal(s) PROVE PhasesOK'
  <2>1. CASE installed
      BY <1>1, <2>1 DEF IInv, PhasesOK, RaiseSignal, Running
  <2>2. CASE ~installed
    <3>1. /\ pc' = "killed"
          /\ \A h \in Handlers : thread'[h] = "none" /\ ~Running(h)'
        BY <1>1, <2>2 DEF RaiseSignal, Running, Active, Waiting
    <3> QED BY <1>1, <2>2, <3>1 DEF IInv, PhasesOK, RaiseSignal, Ended
  <2> QED BY <2>1, <2>2
<1>2. ASSUME NEW h \in Handlers, ThreadStep(h) \/ Outside(h) PROVE PhasesOK'
  <2>1. /\ UNCHANGED <<mainVars, signalVars>>
        /\ Running(h) /\ thread'[h] # "none"
        /\ \A g \in Handlers \ {h} : thread'[g] = thread[g]
      BY <1>2, ThreadStepEffect
  <2>2. \A g \in Handlers : Running(g)' => Running(g)
      BY <2>1 DEF Running
  <2>3. h \in handlers
      BY <2>1, RunningStates DEF IInv, PhasesOK
  <2> QED BY <2>1, <2>2, <2>3 DEF IInv, PhasesOK, mainVars, signalVars
<1>3. CASE Tick \/ UNCHANGED vars
  <2>1. UNCHANGED <<mainVars, thread>>
      BY <1>3 DEF Tick, vars
  <2> QED BY <1>3, <2>1
             DEF IInv, PhasesOK, Tick, vars, mainVars, signalVars, Running
<1> QED BY <1>1, <1>2, <1>3

-----------------------------------------------------------------------------
\* A thread that does not change state keeps the time it needs.
LEMMA SameRemaining ==
    ASSUME NEW h \in Handlers, thread'[h] = thread[h], timer'[h] = timer[h]
    PROVE  Remaining(h)' = Remaining(h) /\ (Running(h)' <=> Running(h))
BY DEF Remaining, Running, Patience

\* Every step of the main thread keeps the deadlines: only waiting for the
\* next thread starts a new one, and that is long enough.
LEMMA DeadlinesMainStep == IInv /\ MainStep => DeadlinesOK'
<1> SUFFICES ASSUME IInv, MainStep PROVE DeadlinesOK'
    OBVIOUS
<1> USE DEF IInv
<1>1. CASE \/ OpenDevices \/ NothingToHandle \/ EnterLoop \/ HandleSignal
           \/ CloseDevices \/ CleanUpDone
           \/ \E h \in Handlers : SkipInsane(h)
  <2>1. UNCHANGED <<thread, timer, waitLeft, joinee>>
      BY <1>1 DEF OpenDevices, NothingToHandle, EnterLoop, HandleSignal,
                  CloseDevices, CleanUpDone, SkipInsane
  <2> QED BY <2>1, SameRemaining DEF DeadlinesOK, TypeOK
<1>2. CASE EndWait
  <2>1. joinee' = NoHandler /\ UNCHANGED <<thread, timer>>
      BY <1>2 DEF EndWait
  <2> QED BY <2>1, SameRemaining DEF DeadlinesOK
<1>3. CASE ParseConfig
  <2>1. \A h \in Handlers : ~Running(h)'
      BY <1>3 DEF ParseConfig, PhasesOK, Running, Active, Waiting
  <2> QED BY <1>3, <2>1 DEF ParseConfig, PhasesOK, DeadlinesOK, TypeOK
<1>4. ASSUME NEW h \in Handlers, StartHandler(h) PROVE DeadlinesOK'
  <2>1. /\ joinee' = NoHandler
        /\ thread'[h] = "starting"
        /\ \A g \in Handlers \ {h} : /\ thread'[g] = thread[g]
                                     /\ timer'[g] = timer[g]
      BY <1>4 DEF StartHandler, PhasesOK, TypeOK
  <2>2. Remaining(h)' = Patience(h)
      BY <2>1 DEF Remaining, Patience, Waiting
  <2> QED BY <2>1, <2>2, SameRemaining, ConstantFacts DEF DeadlinesOK, Patience
<1>5. ASSUME NEW h \in Handlers, BeginWait(h) PROVE DeadlinesOK'
  <2>1. joinee' = h /\ waitLeft' = JoinTicks /\ UNCHANGED <<thread, timer>>
      BY <1>5 DEF BeginWait
  <2>2. Running(h) => Remaining(h) < JoinTicks
      BY ConstantFacts, RemainingIsNat DEF DeadlinesOK
  <2> QED BY <2>1, <2>2, SameRemaining DEF DeadlinesOK, Patience
<1>6. ASSUME NEW h \in Handlers, DeleteHandler(h) PROVE DeadlinesOK'
  <2>1. \A g \in Handlers : ~Running(g)'
      BY <1>6 DEF DeleteHandler, PhasesOK, Running, TypeOK, Active, Waiting
  <2> QED BY <1>6, <2>1 DEF DeleteHandler, PhasesOK, DeadlinesOK
<1> QED BY <1>1, <1>2, <1>3, <1>4, <1>5, <1>6 DEF MainStep

\* A step of a thread never lengthens the time until it sees
\* sd.terminating, once that is set.
LEMMA RemainingShrinks ==
    ASSUME IInv, NEW h \in Handlers, ThreadStep(h) \/ Outside(h)
    PROVE  Running(h)' => /\ Remaining(h)' <= Patience(h) + MaxBusy
                          /\ terminating => Remaining(h)' <= Remaining(h)
<1> USE ConstantFacts, TimesAreNat DEF IInv, TypeOK
<1>1. CASE CannotRun(h) \/ DeviceRemoved(h) \/ SeeTerminating(h)
    BY <1>1 DEF CannotRun, DeviceRemoved, SeeTerminating, Become, Running,
                Active, Waiting
<1>2. CASE Opened(h)
    BY <1>2, HandlersAreDistinct
    DEF Opened, Become, Remaining, Patience, Active, Waiting
<1>3. CASE WaitAgain(h)
    BY <1>3 DEF WaitAgain, Become, Remaining, Waiting
<1>4. CASE WorkDone(h)
    BY <1>4 DEF WorkDone, Become, Remaining, Waiting
<1>5. CASE DataArrives(h)
  <2>1. PICK d \in 0..MaxBusy : Become(h, "busy", d)
      BY <1>5 DEF DataArrives
  <2>2. Remaining(h)' = d + Patience(h)
      BY <2>1 DEF Become, Remaining, Waiting, Patience
  <2> QED BY <1>5, <2>2 DEF DataArrives
<1>6. CASE ClientConnects(h) \/ ClientDisconnects(h)
    BY <1>6 DEF ClientConnects, ClientDisconnects, Become, Remaining, Waiting,
                Patience
<1> QED BY <1>1, <1>2, <1>3, <1>4, <1>5, <1>6 DEF ThreadStep, Outside

\* The steps of signals, threads and the clock keep the deadlines.
LEMMA DeadlinesOtherStep ==
    ASSUME IInv,
           \/ \E s \in SignalNames : RaiseSignal(s)
           \/ \E h \in Handlers : ThreadStep(h) \/ Outside(h)
           \/ Tick
           \/ UNCHANGED vars
    PROVE  DeadlinesOK'
<1> USE DEF IInv
<1>1. ASSUME NEW s \in SignalNames, RaiseSignal(s) PROVE DeadlinesOK'
  <2>1. CASE installed
    <3>1. UNCHANGED <<thread, timer, waitLeft, joinee>>
        BY <1>1, <2>1 DEF RaiseSignal
    <3> QED BY <3>1, SameRemaining DEF DeadlinesOK, TypeOK
  <2>2. CASE ~installed
    <3>1. \A h \in Handlers : ~Running(h)'
        BY <1>1, <2>2 DEF RaiseSignal, Running, Active, Waiting
    <3> QED BY <1>1, <3>1 DEF RaiseSignal, DeadlinesOK, TypeOK
  <2> QED BY <2>1, <2>2
<1>2. ASSUME NEW h \in Handlers, ThreadStep(h) \/ Outside(h) PROVE DeadlinesOK'
  <2>1. /\ UNCHANGED <<mainVars, signalVars, waitLeft>>
        /\ Running(h)
        /\ \A g \in Handlers \ {h} : /\ thread'[g] = thread[g]
                                     /\ timer'[g] = timer[g]
      BY <1>2, ThreadStepEffect
  <2>2. Running(h)' => /\ Remaining(h)' <= Patience(h) + MaxBusy
                       /\ terminating => Remaining(h)' <= Remaining(h)
      BY <1>2, RemainingShrinks
  <2>3. joinee # NoHandler => terminating
      BY DEF PhasesOK
  <2>4. \A g \in Handlers : Remaining(g) \in Nat /\ Remaining(g)' \in Nat
    <3>1. TypeOK'
        BY <1>2, TypeStep DEF Next
    <3>2. \A g \in Handlers : Remaining(g)' \in Nat
        BY <3>1, TimesAreNat DEF TypeOK, Remaining, Patience, Waiting
    <3> QED BY <3>2, RemainingIsNat
  <2>5. \A g \in Handlers \ {h} : /\ Remaining(g)' = Remaining(g)
                                  /\ Running(g)' <=> Running(g)
    <3> TAKE g \in Handlers \ {h}
    <3>1. g \in Handlers /\ thread'[g] = thread[g] /\ timer'[g] = timer[g]
        BY <2>1
    <3> QED BY <3>1, SameRemaining
  <2>6. \A g \in Handlers :
            Running(g)' => Remaining(g)' <= Patience(g) + MaxBusy
      BY <2>2, <2>5 DEF DeadlinesOK
  <2>7. ASSUME joinee # NoHandler, Running(joinee)'
        PROVE  Remaining(joinee)' < waitLeft
    <3>1. joinee' = joinee /\ joinee \in Handlers
        BY <2>1, <2>7 DEF TypeOK, mainVars
    <3>2. CASE joinee = h
        BY <2>1, <2>2, <2>3, <2>4, <2>7, <3>1, <3>2 DEF DeadlinesOK, TypeOK
    <3>3. CASE joinee # h
        BY <2>1, <2>5, <2>7, <3>1, <3>3 DEF DeadlinesOK
    <3> QED BY <3>2, <3>3
  <2> QED BY <2>1, <2>6, <2>7 DEF DeadlinesOK, mainVars, Patience
<1>3. CASE Tick
  <2>1. UNCHANGED <<joinee, thread>>
      BY <1>3 DEF Tick, mainVars
  <2>2. \A h \in Handlers : Running(h)' => Remaining(h)' = Remaining(h) - 1
      BY <1>3, <2>1, ConstantFacts
      DEF Tick, TypeOK, Remaining, Running, Patience, Active, Waiting
  <2>3. joinee # NoHandler => waitLeft' = waitLeft - 1
      BY <1>3 DEF Tick
  <2> QED BY <2>1, <2>2, <2>3, ConstantFacts, RemainingIsNat
          DEF DeadlinesOK, TypeOK, Running, Patience
<1>4. CASE UNCHANGED vars
    BY <1>4, SameRemaining DEF DeadlinesOK, TypeOK, vars, mainVars, Patience
<1> QED BY <1>1, <1>2, <1>3, <1>4

\* The inductive invariant is preserved.
LEMMA IInvStep == IInv /\ [Next]_vars => IInv'
BY TypeStep, PhasesMainStep, PhasesOtherStep, DeadlinesMainStep,
   DeadlinesOtherStep
DEF IInv, Next

\* What the phases of the main thread mean for the threads it owns, and that
\* a thread that is waited for needs less time than the wait has left, holds
\* of every state of every behaviour.
THEOREM Invariance == Spec => []IInv
<1>1. Init => IInv
  BY IInvInit
<1>2. IInv /\ [Next]_vars => IInv'
  BY IInvStep
<1> QED BY <1>1, <1>2, PTL DEF Spec

\* cleanUp() never deletes the object of a running thread.
THEOREM NeverAbortedThm == Spec => []NeverAborted
<1>1. IInv => NeverAborted
    BY DEF IInv, PhasesOK, NeverAborted
<1> QED BY <1>1, Invariance, PTL

\* wait(4000) always returns because the thread has ended.
THEOREM WaitsAreLongEnoughThm == Spec => []WaitsAreLongEnough
<1>1. IInv => WaitsAreLongEnough
    BY RemainingIsNat DEF IInv, DeadlinesOK, TypeOK, WaitsAreLongEnough
<1> QED BY <1>1, Invariance, PTL

\* No thread writes after closeVirtualDevices().
THEOREM NoWriteAfterCloseThm == Spec => []NoWriteAfterClose
<1>1. IInv => NoWriteAfterClose
    BY DEF IInv, PhasesOK, NoWriteAfterClose, Running, Active, Writers, Handlers
<1> QED BY <1>1, Invariance, PTL

\* No thread outlives the configuration it was started for.
THEOREM CleanRestartThm == Spec => []CleanRestart
<1>1. IInv => CleanRestart
    BY DEF IInv, PhasesOK, CleanRestart
<1> QED BY <1>1, Invariance, PTL

\* sd.terminating is taken back only when nobody is left to see it.
THEOREM TerminatingIsSeenThm == Spec => TerminatingIsSeen
<1>1. ASSUME IInv, [Next]_vars, terminating, ~terminating'
      PROVE  \A h \in Handlers : ~Running(h)
  <2>1. OpenDevices
      BY <1>1 DEF Next, MainStep, ThreadStep, Outside, vars, mainVars,
         OpenDevices, ParseConfig, NothingToHandle, EnterLoop, HandleSignal,
         EndWait, CloseDevices, CleanUpDone, StartHandler, SkipInsane,
         BeginWait, DeleteHandler, RaiseSignal, Tick, Become, Opened,
         CannotRun, SeeTerminating, WaitAgain, WorkDone, DeviceRemoved,
         DataArrives, ClientConnects, ClientDisconnects
  <2> QED BY <1>1, <2>1 DEF OpenDevices, IInv, PhasesOK
<1>2. IInv /\ [Next]_vars =>
        [terminating /\ ~terminating' => \A h \in Handlers : ~Running(h)]_vars
    BY <1>1
<1> QED BY <1>2, Invariance, PTL DEF Spec, TerminatingIsSeen

-----------------------------------------------------------------------------
(* Lifecycle implements Daemon.                                            *)

Working == {h \in Handlers : Running(h)}

\* Steps of the main thread are steps of the abstract daemon.
LEMMA MainRefines ==
    ASSUME IInv, IInv', MainStep
    PROVE  [D!DaemonNext]_(D!dvars)
<1> SUFFICES D!DaemonNext \/ (Mode' = Mode /\ Working' = Working)
    BY DEF D!dvars, Working
<1> USE DEF Working
<1>1. CASE UNCHANGED <<pc, thread>>
    BY <1>1 DEF Mode, Running
<1>2. CASE OpenDevices
    BY <1>2 DEF OpenDevices, Mode, Running
<1>3. CASE ParseConfig
  <2>1. pc = "parse" /\ pc' = "starting"
      BY <1>3 DEF ParseConfig
  <2>2. \A h \in Handlers : ~Running(h) /\ ~Running(h)'
      BY <1>3 DEF ParseConfig, IInv, PhasesOK, Running, Active, Waiting
  <2> QED BY <2>1, <2>2 DEF Mode, D!DaemonNext, D!Serve
<1>4. CASE NothingToHandle
    BY <1>4 DEF NothingToHandle, Mode, Running, D!DaemonNext, D!Exit
<1>5. CASE EnterLoop
    BY <1>5 DEF EnterLoop, Mode, Running
<1>6. CASE HandleSignal
    BY <1>6 DEF HandleSignal, Mode, Running, D!DaemonNext, D!Stop
<1>7. CASE CloseDevices
  <2>1. /\ pc = "joining" /\ pc' = "deleting"
        /\ \A h \in Handlers : ~Running(h)' /\ (Running(h)' <=> Running(h))
      BY <1>7 DEF CloseDevices, IInv, PhasesOK, Running
  <2> QED BY <2>1 DEF Mode, D!DaemonNext, D!Drained
<1>8. CASE CleanUpDone
    BY <1>8 DEF CleanUpDone, Mode, Running, D!DaemonNext, D!Restart, D!Exit
<1>9. ASSUME NEW h \in Handlers, StartHandler(h)
      PROVE  D!DaemonNext
  <2>1. /\ pc = "starting" /\ pc' = "starting"
        /\ thread' = [thread EXCEPT ![h] = "starting"]
      BY <1>9 DEF StartHandler
  <2>2. Running(h)' /\ \A g \in Handlers \ {h} : Running(g)' <=> Running(g)
      BY <2>1 DEF Running, Active, Waiting, IInv, TypeOK
  <2>3. Working' = Working \cup {h}
      BY <2>2
  <2> QED BY <2>1, <2>3 DEF Mode, D!DaemonNext, D!StartWorker
<1>10. ASSUME NEW h \in Handlers, DeleteHandler(h)
       PROVE  Mode' = Mode /\ Working' = Working
  <2>1. /\ pc = "deleting" /\ ~Running(h)
        /\ pc' = pc /\ thread' = [thread EXCEPT ![h] = "none"]
      BY <1>10 DEF DeleteHandler, IInv, PhasesOK
  <2>2. \A g \in Handlers : Running(g)' <=> Running(g)
      BY <2>1 DEF Running, Active, Waiting, IInv, TypeOK
  <2> QED BY <2>1, <2>2 DEF Mode
<1>11. CASE EndWait \/ \E h \in Handlers : SkipInsane(h) \/ BeginWait(h)
    BY <1>1, <1>11 DEF EndWait, SkipInsane, BeginWait
<1> QED BY <1>2, <1>3, <1>4, <1>5, <1>6, <1>7, <1>8, <1>9, <1>10, <1>11
        DEF MainStep

\* Steps of signals, threads and the clock are, too.
LEMMA OthersRefine ==
    ASSUME IInv, IInv',
           \/ \E s \in SignalNames : RaiseSignal(s)
           \/ \E h \in Handlers : ThreadStep(h) \/ Outside(h)
           \/ Tick
           \/ UNCHANGED vars
    PROVE  [D!DaemonNext]_(D!dvars)
<1> SUFFICES D!DaemonNext \/ (Mode' = Mode /\ Working' = Working)
    BY DEF D!dvars, Working
<1> USE DEF Working
<1>1. CASE UNCHANGED <<pc, thread>>
    BY <1>1 DEF Mode, Running
<1>2. ASSUME NEW s \in SignalNames, RaiseSignal(s)
      PROVE  D!DaemonNext \/ UNCHANGED <<pc, thread>>
  <2>1. CASE installed
      BY <1>2, <2>1 DEF RaiseSignal
  <2>2. CASE ~installed
    <3>1. /\ pc \in {"setup", "parse", "starting"} /\ pc' = "killed"
          /\ \A h \in Handlers : ~Running(h)'
        BY <1>2, <2>2
        DEF RaiseSignal, IInv, PhasesOK, Running, Active, Waiting
    <3> QED BY <3>1 DEF Mode, D!DaemonNext, D!Killed
  <2> QED BY <2>1, <2>2
<1>3. ASSUME NEW h \in Handlers, ThreadStep(h) \/ Outside(h)
      PROVE  D!DaemonNext \/ (Mode' = Mode /\ Working' = Working)
  <2>1. /\ pc' = pc /\ Running(h)
        /\ \A g \in Handlers \ {h} : Running(g)' <=> Running(g)
      BY <1>3, ThreadStepEffect DEF mainVars, Running
  <2>2. Mode' = Mode
      BY <2>1 DEF Mode
  <2>3. CASE Running(h)'
      BY <2>1, <2>2, <2>3
  <2>4. CASE ~Running(h)'
    <3>1. Working' = Working \ {h}
        BY <2>1, <2>4
    <3> QED BY <2>1, <2>2, <3>1 DEF D!DaemonNext, D!EndWorker
  <2> QED BY <2>3, <2>4
<1>4. CASE Tick \/ UNCHANGED vars
    BY <1>1, <1>4 DEF Tick, vars, mainVars
<1> QED BY <1>1, <1>2, <1>3, <1>4

\* The daemon of the code behaves as the abstract daemon: every stop is
\* complete before a new configuration is set up or the process exits.
THEOREM ImplementsDaemonThm == Spec => ImplementsDaemon
<1>1. Init => D!DaemonInit
    BY DEF Init, Mode, Running, Active, Waiting, D!DaemonInit
<1>2. IInv /\ IInv' /\ [Next]_vars => [D!DaemonNext]_(D!dvars)
    BY MainRefines, OthersRefine DEF Next
<1> QED BY <1>1, <1>2, Invariance, PTL DEF Spec, ImplementsDaemon, D!DaemonSpec
=============================================================================
