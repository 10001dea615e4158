-------------------------- MODULE VlinkerMsAdapter --------------------------
(* vlinker_ms_adapter.dart on Android, with AtlasAndroidRfcommPlugin.kt: the *)
(* plugin has one socket field and one event sink for all objects. A thread  *)
(* opens the socket, and another reads it until it is closed.                *)
EXTENDS AtlasAdapter

CONSTANT Commands       \* bound: commands before the monitor

(* sub: _androidBytesSubscription; first: _firstFrame is not null.           *)
Fresh == [sub |-> FALSE, monitoring |-> FALSE, disconnecting |-> FALSE,
          first |-> FALSE, left |-> 0]

(* The object whose socket the field holds, the sockets that are open, the   *)
(* object that hears the sink, and the two threads of each connection.       *)
Init == InitWith(Fresh, [socket |-> None, open |-> {}, sink |-> None,
                         thread |-> [a \in Adapters |-> "none"],
                         reader |-> [a \in Adapters |-> "none"]])

Closed == [native EXCEPT !.open = @ \ {native.socket}, !.socket = None]

(* Text comes from the socket that is read to the object that hears it.      *)
Hears(a) == native.sink = a /\ \E b \in native.open : native.reader[b] = "reading"

AtWork(a) ==
    \/ Pending(a) \/ Releasing(a) \/ a \in native.open \/ native.sink = a
    \/ native.thread[a] \in {"begun", "opening"}

(* disconnect(): the monitor is stopped with a delay, then the subscription  *)
(* is cancelled, which empties the sink whoever hears it, and the socket is  *)
(* closed.                                                                   *)
Stop(a, t) ==
    /\ fields' = [fields EXCEPT ![a].disconnecting = TRUE]
    /\ Wait(a, t, "stopping") /\ UNCHANGED <<state, native>>

Stopped(a, t) ==
    /\ Is(a, t, "stopping") /\ Ends(a, t) /\ Quiet
    /\ native' = [Closed EXCEPT !.sink = IF fields[a].sub THEN None ELSE @]
    /\ fields' = [fields EXCEPT ![a].sub = FALSE, ![a].monitoring = FALSE,
                                ![a].first = FALSE]
    /\ Show(a, "disconnected")

Connect(a) ==
    /\ Begin(a, {b \in 1 .. made : AtWork(b)})
    /\ Show(a, "connecting") /\ Go(a, "permission")
    /\ fields' = [fields EXCEPT ![a].first = TRUE]
    /\ UNCHANGED native

(* The operator permits the connection or not, or cannot be asked. The new   *)
(* subscription takes the sink, and the plugin starts its thread.            *)
Asked(a) ==
    /\ At(a, "permission") /\ Quiet
    /\ \/ /\ Go(a, "native")
          /\ fields' = [fields EXCEPT ![a].sub = TRUE]
          /\ native' = [native EXCEPT !.sink = a, !.thread[a] = "begun"]
          /\ UNCHANGED state
       \/ /\ Go(a, "threw") /\ (Show(a, "error") \/ UNCHANGED state)
          /\ UNCHANGED <<fields, native>>

(* The connection is there, or the prompt of a command: the next is written. *)
Prompt(a) ==
    LET left == IF At(a, "native") THEN Commands ELSE fields[a].left - 1 IN
    /\ \/ At(a, "native") /\ native.thread[a] = "opened"
       \/ At(a, "command") /\ Hears(a)
    /\ native.socket # None /\ Quiet
    /\ IF left > 0
       THEN Go(a, "command") /\ fields' = [fields EXCEPT ![a].left = left]
       ELSE /\ fields[a].first /\ Go(a, "frame")
            /\ fields' = [fields EXCEPT ![a].left = 0, ![a].monitoring = TRUE]
    /\ UNCHANGED <<state, native>>

(* The connection failed, a command was rejected or could not be written, a  *)
(* timeout, or no future of the first frame left to wait for.                *)
GivesUp(a) ==
    /\ \/ At(a, "native") /\ native.thread[a] = "failed"
       \/ At(a, "native") /\ native.thread[a] = "opened" /\ native.socket = None
       \/ At(a, "command") \/ At(a, "frame")
    /\ Stop(a, "connect") /\ Quiet

(* Twelve seconds; the thread that opens the socket goes on.                 *)
TimesOut(a) ==
    /\ At(a, "native") /\ Stop(a, "connect")
    /\ met' = met \cup {a} /\ UNCHANGED <<made, unheard, faults>>

FirstFrame(a) ==
    /\ At(a, "frame") /\ Hears(a) /\ fields[a].monitoring
    /\ Go(a, "returned") /\ Show(a, "connected") /\ UNCHANGED native
    /\ \/ UNCHANGED fields /\ Quiet
       \/ Fault(a) /\ fields' = [fields EXCEPT ![a].monitoring = FALSE]

Disconnect(a) == Called(a) /\ Stop(a, "release")

-----------------------------------------------------------------------------
(* The thread of a connection: what the field holds is closed first.         *)
ThreadStep(a) ==
    /\ Quiet /\ UNCHANGED <<state, connect, release, fields>>
    /\ \/ /\ native.thread[a] = "begun"
          /\ native' = [Closed EXCEPT !.thread[a] = "opening"]
       \/ /\ native.thread[a] = "opening"
          /\ native' = [native EXCEPT !.thread[a] = "opened", !.socket = a,
                                      !.open = @ \cup {a}, !.reader[a] = "reading"]
       \/ /\ native.thread[a] = "opening"
          /\ native' = [Closed EXCEPT !.thread[a] = "failed"]

(* The exception of a read: shown by the object that hears the sink.         *)
Reports(a) ==
    /\ native' = [native EXCEPT !.reader[a] = "ending"]
    /\ state' = [b \in Adapters |-> IF b = native.sink /\ ~fields[b].disconnecting
                                    THEN "error" ELSE state[b]]
    /\ UNCHANGED <<connect, release, fields>>

(* The end of the stream, and a socket found closed before the next read,    *)
(* are told to nobody.                                                       *)
EndsQuietly(a) ==
    /\ native' = [native EXCEPT !.reader[a] = "ending"]
    /\ UNCHANGED <<state, connect, release, fields>>

(* The reader of a closed socket; in the end it closes what the field holds, *)
(* which may be the socket of a later connection.                            *)
ReaderStep(a) ==
    \/ /\ native.reader[a] = "reading" /\ a \notin native.open
       /\ \/ Reports(a) /\ Quiet
          \/ EndsQuietly(a) /\ unheard' = unheard \cup {a}
             /\ UNCHANGED <<made, met, faults>>
    \/ /\ native.reader[a] = "ending" /\ Quiet
       /\ native' = [Closed EXCEPT !.reader[a] = "done"]
       /\ UNCHANGED <<state, connect, release, fields>>

(* The vLinker is lost: an exception, or the end of the stream.              *)
LinkLost(a) ==
    /\ a \in native.open /\ native.reader[a] = "reading"
    /\ \/ Fault(a) /\ Reports(a)
       \/ /\ faults < MaxFaults /\ faults' = faults + 1 /\ EndsQuietly(a)
          /\ unheard' = unheard \cup {a} /\ UNCHANGED <<made, met>>

(* BUFFER FULL, STOPPED and the like, also while the monitor is stopped.     *)
MonitorEnds(a) ==
    /\ Hears(a) /\ fields[a].monitoring
    /\ faults < MaxFaults /\ faults' = faults + 1
    /\ fields' = [fields EXCEPT ![a].monitoring = FALSE]
    /\ Show(a, "error")
    /\ UNCHANGED <<made, met, unheard, connect, release, native>>

ConnectStep(a) ==
    \/ Asked(a) \/ Prompt(a) \/ GivesUp(a) \/ TimesOut(a) \/ FirstFrame(a)
    \/ Stopped(a, "connect")
ReleaseStep(a) == Stopped(a, "release")
NativeStep(a) == ThreadStep(a) \/ ReaderStep(a)
Event(a) == Connect(a) \/ Disconnect(a) \/ LinkLost(a) \/ MonitorEnds(a)

(* What it reads reaches it, or the end of it will.                          *)
InUse(a) ==
    native.reader[a] = "reading" /\ native.sink = a /\ fields[a].monitoring
Holds(a) == a \in native.open \/ native.sink = a
=============================================================================
