------------------------------- MODULE Daemon -------------------------------
(***************************************************************************)
(* What the README and the comments of inputmangler promise of the         *)
(* daemon's life, without threads' inner states, timeouts or files: it     *)
(* serves with a set of workers, it is stopped by a signal, and a stop is  *)
(* complete, with every worker ended, before the daemon is set up afresh   *)
(* or exits.  Lifecycle is shown to implement this module.                 *)
(***************************************************************************)

CONSTANT Workers

VARIABLES mode,     \* what the daemon as a whole is doing
          workers   \* the workers that are running

dvars == <<mode, workers>>

Modes == {"down", "serving", "stopping", "drained", "stopped"}

DaemonTypeOK == mode \in Modes /\ workers \in SUBSET Workers

DaemonInit == mode = "down" /\ workers = {}

\* The configuration was read: from here on workers may be started.
Serve == mode = "down" /\ mode' = "serving" /\ UNCHANGED workers

StartWorker(w) == /\ mode = "serving"
                  /\ workers' = workers \cup {w}
                  /\ UNCHANGED mode

\* A worker ends when told to, or on its own when its device is removed.
EndWorker(w) == /\ w \in workers
                /\ workers' = workers \ {w}
                /\ UNCHANGED mode

\* A signal asks for a restart or for the end.
Stop == mode = "serving" /\ mode' = "stopping" /\ UNCHANGED workers

\* The stop is complete only when nobody works any more.
Drained == /\ mode = "stopping"
           /\ workers = {}
           /\ mode' = "drained"
           /\ UNCHANGED workers

Restart == mode = "drained" /\ mode' = "down" /\ UNCHANGED workers

\* The end: after a stop, or at once when there is nothing to serve.
Exit == /\ mode \in {"drained", "down"}
        /\ mode' = "stopped"
        /\ UNCHANGED workers

\* A signal whose handler is not installed yet ends the whole process.
Killed == mode \in {"down", "serving"} /\ mode' = "stopped" /\ workers' = {}

DaemonNext == \/ Serve \/ Stop \/ Drained \/ Restart \/ Exit \/ Killed
              \/ \E w \in Workers : StartWorker(w) \/ EndWorker(w)

DaemonSpec == DaemonInit /\ [][DaemonNext]_dvars
=============================================================================
