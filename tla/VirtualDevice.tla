----------------------------- MODULE VirtualDevice -----------------------------
(***************************************************************************)
(* Who has the virtual devices open: processes that go through the devices *)
(* as OutEvent::generalSetup() does, each try an open() that device_open() *)
(* answers, and close them again.  The kernel may run calls of different   *)
(* processes in parallel, and then a load and a store of Device_Open are   *)
(* steps of their own.                                                     *)
(***************************************************************************)
EXTENDS Integers

CONSTANTS
    Processes, \* daemons, or anything else that opens the devices
    Last,      \* the virtual devices are 1..Last
    MaxTries,  \* how often open() is tried
    Parallel   \* the kernel runs calls of several processes at a time

Devices == 1..Last

VARIABLES
    pc,          \* where a process is: see Where
    num,         \* the device openVDevice() or closeVirtualDevices() is at
    numtries,    \* openVDevice()
    loaded,      \* Device_Open[num] as ++ or -- has read it
    fds,         \* which descriptors are open, per process
    Device_Open  \* per device

vars == <<pc, num, numtries, loaded, fds, Device_Open>>

Where == {"off", "opening", "entered", "loaded", "serving", "closing", "releasing"}

Init ==
    /\ pc = [p \in Processes |-> "off"]
    /\ num = [p \in Processes |-> 1]
    /\ numtries = [p \in Processes |-> MaxTries]
    /\ loaded = [p \in Processes |-> 0]
    /\ fds = [p \in Processes |-> {}]
    /\ Device_Open = [d \in Devices |-> 0]

\* In the middle of device_open() or device_release().
InKernel(p) == pc[p] \in {"entered", "loaded", "releasing"}
MayEnter(p) == Parallel \/ \A q \in Processes : ~InKernel(q)

\* On to the next device, or after the last one to where the loop leads.
Proceed(p, stage, end) ==
    /\ num' = [num EXCEPT ![p] = IF @ = Last THEN 1 ELSE @ + 1]
    /\ numtries' = [numtries EXCEPT ![p] = MaxTries]
    /\ pc' = [pc EXCEPT ![p] = IF num[p] = Last THEN end ELSE stage]

-----------------------------------------------------------------------------
\* generalSetup(), by readConf().
StartOpening(p) ==
    /\ pc[p] = "off"
    /\ pc' = [pc EXCEPT ![p] = "opening"]
    /\ num' = [num EXCEPT ![p] = 1]
    /\ numtries' = [numtries EXCEPT ![p] = MaxTries]
    /\ UNCHANGED <<loaded, fds, Device_Open>>

\* device_open() finds the device free.
FindFree(p) ==
    /\ pc[p] = "opening" /\ MayEnter(p)
    /\ Device_Open[num[p]] = 0
    /\ pc' = [pc EXCEPT ![p] = "entered"]
    /\ UNCHANGED <<num, numtries, loaded, fds, Device_Open>>

\* It does not: -EBUSY, and openVDevice() tries again, or goes on without.
FindBusy(p) ==
    /\ pc[p] = "opening" /\ MayEnter(p)
    /\ Device_Open[num[p]] # 0
    /\ IF numtries[p] > 1
       THEN /\ numtries' = [numtries EXCEPT ![p] = @ - 1]
            /\ UNCHANGED <<pc, num>>
       ELSE Proceed(p, "opening", "serving")
    /\ UNCHANGED <<loaded, fds, Device_Open>>

\* ++Device_Open[devNum]: the load ...
Load(p) ==
    /\ pc[p] = "entered"
    /\ loaded' = [loaded EXCEPT ![p] = Device_Open[num[p]]]
    /\ pc' = [pc EXCEPT ![p] = "loaded"]
    /\ UNCHANGED <<num, numtries, fds, Device_Open>>

\* ... and the store, and open() returns a descriptor.
Store(p) ==
    /\ pc[p] = "loaded"
    /\ Device_Open' = [Device_Open EXCEPT ![num[p]] = loaded[p] + 1]
    /\ fds' = [fds EXCEPT ![p] = @ \cup {num[p]}]
    /\ Proceed(p, "opening", "serving")
    /\ UNCHANGED loaded

\* closeVirtualDevices(), or the kernel at the end of a process, which may
\* come while it is opening.
StartClosing(p) ==
    /\ pc[p] \in {"opening", "serving"}
    /\ pc' = [pc EXCEPT ![p] = "closing"]
    /\ num' = [num EXCEPT ![p] = 1]
    /\ UNCHANGED <<numtries, loaded, fds, Device_Open>>

\* close(-1) does nothing.
CloseNothing(p) ==
    /\ pc[p] = "closing" /\ num[p] \notin fds[p]
    /\ Proceed(p, "closing", "off")
    /\ UNCHANGED <<loaded, fds, Device_Open>>

\* device_release(): --Device_Open[...], the load ...
LoadToRelease(p) ==
    /\ pc[p] = "closing" /\ num[p] \in fds[p] /\ MayEnter(p)
    /\ loaded' = [loaded EXCEPT ![p] = Device_Open[num[p]]]
    /\ pc' = [pc EXCEPT ![p] = "releasing"]
    /\ UNCHANGED <<num, numtries, fds, Device_Open>>

\* ... and the store.
StoreToRelease(p) ==
    /\ pc[p] = "releasing"
    /\ Device_Open' = [Device_Open EXCEPT ![num[p]] = loaded[p] - 1]
    /\ fds' = [fds EXCEPT ![p] = @ \ {num[p]}]
    /\ Proceed(p, "closing", "off")
    /\ UNCHANGED loaded

Step(p) ==
    \/ StartOpening(p) \/ FindFree(p) \/ FindBusy(p) \/ Load(p) \/ Store(p)
    \/ StartClosing(p) \/ CloseNothing(p) \/ LoadToRelease(p) \/ StoreToRelease(p)

Next == \E p \in Processes : Step(p)

Spec == Init /\ [][Next]_vars

-----------------------------------------------------------------------------
\* inputdummy.c, Device_Open: "Is device open?  Used to prevent multiple
\* access to the device".  No device is open in two processes.
OneHolder ==
    \A p, q \in Processes : p # q => fds[p] \cap fds[q] = {}
=============================================================================
