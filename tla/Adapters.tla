------------------------------- MODULE Adapters -------------------------------
(* All kinds of adapters, one kind per behaviour: what AtlasRuntime relies on  *)
(* when it takes the end of connect() and of disconnect() for the state of an  *)
(* adapter.                                                                    *)
EXTENDS AtlasAdapter

CONSTANT Commands       \* bound: commands of an adapter before its monitor

ASSUME BoundsAssumption ==
    MaxAdapters \in Nat /\ MaxFaults \in Nat /\ Commands \in Nat

VARIABLE kind           \* the kind of the adapters

SocketCan == INSTANCE SocketCanAdapter
Slcan == INSTANCE SlcanAdapter
Obdlink == INSTANCE HelperAdapter WITH Vlinker <- FALSE
VlinkerWindows == INSTANCE HelperAdapter WITH Vlinker <- TRUE
VlinkerAndroid == INSTANCE VlinkerMsAdapter
GsUsb == INSTANCE UsbAdapter WITH AwaitsLoop <- FALSE
Canalystii == INSTANCE UsbAdapter WITH AwaitsLoop <- TRUE

allVars == <<kind, vars>>

Init ==
    \/ kind = "socketcan" /\ SocketCan!Init
    \/ kind = "slcan" /\ Slcan!Init
    \/ kind = "obdlink" /\ Obdlink!Init
    \/ kind = "vlinker windows" /\ VlinkerWindows!Init
    \/ kind = "vlinker android" /\ VlinkerAndroid!Init
    \/ kind = "gs_usb" /\ GsUsb!Init
    \/ kind = "canalystii" /\ Canalystii!Init

(* connect() of an object goes on, and disconnect().                           *)
Connecting(a) ==
    \/ kind = "socketcan" /\ SocketCan!ConnectStep(a)
    \/ kind = "slcan" /\ Slcan!ConnectStep(a)
    \/ kind = "obdlink" /\ Obdlink!ConnectStep(a)
    \/ kind = "vlinker windows" /\ VlinkerWindows!ConnectStep(a)
    \/ kind = "vlinker android" /\ VlinkerAndroid!ConnectStep(a)

Disconnecting(a) ==
    \/ kind = "socketcan" /\ SocketCan!ReleaseStep(a)
    \/ kind = "slcan" /\ Slcan!ReleaseStep(a)
    \/ kind = "obdlink" /\ Obdlink!ReleaseStep(a)
    \/ kind = "vlinker windows" /\ VlinkerWindows!ReleaseStep(a)
    \/ kind = "vlinker android" /\ VlinkerAndroid!ReleaseStep(a)
    \/ kind = "gs_usb" /\ GsUsb!ReleaseStep(a)
    \/ kind = "canalystii" /\ Canalystii!ReleaseStep(a)

(* A polling loop goes on, the plugin does a call, a thread a step.            *)
Polling(a) ==
    \/ kind = "gs_usb" /\ GsUsb!LoopStep(a)
    \/ kind = "canalystii" /\ Canalystii!LoopStep(a)

Plugin ==
    \/ kind = "gs_usb" /\ GsUsb!PluginStep
    \/ kind = "canalystii" /\ Canalystii!PluginStep

Threads(a) == kind = "vlinker android" /\ VlinkerAndroid!NativeStep(a)

(* The runtime calls, or something goes wrong outside. Where objects share     *)
(* nothing outside, one of them is enough.                                     *)
Happens(a) ==
    \/ a = 1 /\ kind = "socketcan" /\ SocketCan!Event(a)
    \/ a = 1 /\ kind = "slcan" /\ Slcan!Event(a)
    \/ a = 1 /\ kind = "obdlink" /\ Obdlink!Event(a)
    \/ a = 1 /\ kind = "vlinker windows" /\ VlinkerWindows!Event(a)
    \/ kind = "vlinker android" /\ VlinkerAndroid!Event(a)
    \/ kind = "gs_usb" /\ GsUsb!Event(a)
    \/ kind = "canalystii" /\ Canalystii!Event(a)

Next ==
    /\ UNCHANGED kind
    /\ \/ Plugin
       \/ \E a \in Adapters : \/ Connecting(a) \/ Disconnecting(a) \/ Polling(a)
                              \/ Threads(a) \/ Happens(a)

(* Timers fire, processes end, threads run, and the plugin answers; that a     *)
(* device ever sends a prompt or a frame is not assumed.                       *)
Fairness ==
    /\ WF_allVars(Plugin /\ UNCHANGED kind)
    /\ \A a \in Adapters :
          /\ WF_allVars(Connecting(a) /\ UNCHANGED kind)
          /\ WF_allVars(Disconnecting(a) /\ UNCHANGED kind)
          /\ WF_allVars(Polling(a) /\ UNCHANGED kind)
          /\ WF_allVars(Threads(a) /\ UNCHANGED kind)

Spec == Init /\ [][Next]_allVars /\ Fairness

-----------------------------------------------------------------------------
InUse(a) ==
    \/ kind = "socketcan" /\ SocketCan!InUse(a)
    \/ kind = "slcan" /\ Slcan!InUse(a)
    \/ kind = "obdlink" /\ Obdlink!InUse(a)
    \/ kind = "vlinker windows" /\ VlinkerWindows!InUse(a)
    \/ kind = "vlinker android" /\ VlinkerAndroid!InUse(a)
    \/ kind = "gs_usb" /\ GsUsb!InUse(a)
    \/ kind = "canalystii" /\ Canalystii!InUse(a)

Holds(a) ==
    \/ kind = "socketcan" /\ SocketCan!Holds(a)
    \/ kind = "slcan" /\ Slcan!Holds(a)
    \/ kind = "obdlink" /\ Obdlink!Holds(a)
    \/ kind = "vlinker windows" /\ VlinkerWindows!Holds(a)
    \/ kind = "vlinker android" /\ VlinkerAndroid!Holds(a)
    \/ kind = "gs_usb" /\ GsUsb!Holds(a)
    \/ kind = "canalystii" /\ Canalystii!Holds(a)

(* What AtlasRuntime takes for granted. An object that says it is connected    *)
(* uses what it has opened, or is about to tell that it is lost, unless it was *)
(* lost untold. One whose connect() threw or whose disconnect() has returned   *)
(* holds no process, port, socket or device any more, whatever was lost on the *)
(* way: a command that failed, a timeout, or a helper that exited. Objects     *)
(* whose calls met are left out of both.                                       *)
KeepsPromise ==
    \A a \in Adapters \ met :
        /\ state[a] = "connected" /\ release[a] = "unused" /\ a \notin unheard
              => InUse(a)
        /\ connect[a] = "threw" \/ release[a] = "over"
              => state[a] # "connected" /\ ~Holds(a)

(* Every connect() and every disconnect() ends, whatever is lost, whoever else *)
(* works on the device, and whether or not it answers.                         *)
CallsEnd ==
    \A a \in Adapters :
        /\ Pending(a) ~> ~Pending(a)
        /\ Releasing(a) ~> ~Releasing(a)
=============================================================================
