----------------------------- MODULE UsbAdapter -----------------------------
(* The USB adapters on Windows: canalystii_adapter.dart,                     *)
(* lys_usbcan_adapter.dart and gs_usb_adapter.dart, with their plugins. A    *)
(* plugin has one device for all objects and does the calls one by one in    *)
(* the order they come; each object polls it in a loop of its own.           *)
EXTENDS AtlasAdapter

CONSTANT AwaitsLoop     \* disconnect() waits for the loop: all but gs_usb

(* on: _running or _polling; loop: _poll() or _readLoop().                   *)
Fresh == [on |-> FALSE, loop |-> "none"]

(* The object that has opened the device, whether it is lost, and the calls. *)
Init == InitWith(Fresh, [opener |-> None, lost |-> FALSE, calls |-> <<>>])

Send(a, what) == Append(native.calls, [by |-> a, what |-> what])

(* The calls but the one that is done; what its object sends next.           *)
Rest == Tail(native.calls)

Polls(a) == fields[a].on /\ fields[a].loop # "none"

AtWork(a) == Pending(a) \/ Releasing(a) \/ native.opener = a \/ fields[a].on

Connect(a) ==
    /\ Begin(a, {b \in 1 .. made : AtWork(b)})
    /\ Show(a, "connecting") /\ Go(a, "opening")
    /\ native' = [native EXCEPT !.calls = Send(a, "open")]
    /\ UNCHANGED fields

NotOpen == [native EXCEPT !.opener = None, !.lost = FALSE, !.calls = Rest]

(* OpenDevice closes what is open; a device that opens is polled at once.    *)
Opens(a) ==
    \/ /\ Go(a, "returned") /\ Show(a, "connected")
       /\ fields' = [fields EXCEPT ![a] = [on |-> TRUE, loop |-> "reading"]]
       /\ native' = [opener |-> a, lost |-> FALSE,
                     calls |-> Append(Rest, [by |-> a, what |-> "read"])]
    \/ /\ Go(a, "threw") /\ Show(a, "error")
       /\ native' = NotOpen /\ UNCHANGED fields

(* A read of no device has no frames. One of a lost device fails: the loop   *)
(* ends, and shows it unless it is to end anyway.                            *)
Reads(a) ==
    /\ native' = [native EXCEPT !.calls = Rest]
    /\ IF native.opener # None /\ native.lost
       THEN /\ fields' = [fields EXCEPT ![a] =
                             [on |-> AwaitsLoop /\ @.on, loop |-> "none"]]
            /\ IF fields[a].on THEN Show(a, "error") ELSE UNCHANGED state
       ELSE /\ fields' = [fields EXCEPT ![a].loop = "pausing"]
            /\ UNCHANGED state
    /\ UNCHANGED <<connect, release>>

(* The device is closed whoever has opened it.                               *)
Closes(a) ==
    /\ native' = NotOpen /\ UNCHANGED fields
    /\ Ends(a, "release") /\ Show(a, "disconnected")

(* The plugin does the next call, and its object gets the answer.            *)
PluginStep ==
    /\ native.calls # <<>> /\ Quiet
    /\ LET call == Head(native.calls) IN
       \/ call.what = "open" /\ Opens(call.by)
       \/ call.what = "read" /\ Reads(call.by)
       \/ call.what = "close" /\ Closes(call.by)

(* The loop goes on while it is to, that of gs_usb while connected.          *)
LoopStep(a) ==
    /\ fields[a].loop = "pausing" /\ Quiet
    /\ IF fields[a].on /\ (AwaitsLoop \/ state[a] = "connected")
       THEN /\ fields' = [fields EXCEPT ![a].loop = "reading"]
            /\ native' = [native EXCEPT !.calls = Send(a, "read")]
       ELSE /\ fields' = [fields EXCEPT ![a].loop = "none"]
            /\ UNCHANGED native
    /\ UNCHANGED <<state, connect, release>>

Disconnect(a) ==
    /\ Called(a)
    /\ fields' = [fields EXCEPT ![a].on = FALSE]
    /\ IF AwaitsLoop /\ fields[a].loop # "none"
       THEN Wait(a, "release", "loop") /\ UNCHANGED native
       ELSE /\ Wait(a, "release", "closing")
            /\ native' = [native EXCEPT !.calls = Send(a, "close")]
    /\ UNCHANGED state

LoopAwaited(a) ==
    /\ Is(a, "release", "loop") /\ fields[a].loop = "none" /\ Quiet
    /\ Wait(a, "release", "closing")
    /\ native' = [native EXCEPT !.calls = Send(a, "close")]
    /\ UNCHANGED <<state, fields>>

Unplugged(a) ==
    /\ native.opener = a /\ ~native.lost /\ Fault(a)
    /\ native' = [native EXCEPT !.lost = TRUE]
    /\ UNCHANGED <<state, connect, release, fields>>

ReleaseStep(a) == LoopAwaited(a)
Event(a) == Connect(a) \/ Disconnect(a) \/ Unplugged(a)

(* It polls the device it has opened, and nobody else does.                  *)
InUse(a) ==
    native.opener = a /\ Polls(a) /\ \A b \in Adapters \ {a} : ~Polls(b)
Holds(a) == native.opener = a \/ Polls(a)
=============================================================================
