-------------------------- MODULE SocketCanAdapter --------------------------
(* socketcan_adapter.dart: frames come from a candump process. native[a] is  *)
(* the process an object has started.                                        *)
EXTENDS AtlasAdapter

Fresh == [candump |-> FALSE, listening |-> FALSE, disconnecting |-> FALSE]

Init == InitWith(Fresh, [a \in Adapters |-> "none"])

Connect(a) ==
    /\ Begin(a, {}) /\ Show(a, "connecting") /\ Go(a, "listing")
    /\ UNCHANGED <<fields, native>>

(* availableInterfaces() has the interface, or not.                          *)
Listed(a) ==
    /\ At(a, "listing")
    /\ \/ Go(a, "starting") /\ UNCHANGED state
       \/ Go(a, "threw") /\ Show(a, "error")
    /\ Quiet /\ UNCHANGED <<fields, native>>

(* candump runs, or could not be started. A disconnect() that came before    *)
(* found no process to end.                                                  *)
Started(a) ==
    /\ At(a, "starting")
    /\ \/ /\ fields' = [fields EXCEPT ![a].candump = TRUE, ![a].listening = TRUE]
          /\ native' = [native EXCEPT ![a] = "running"]
          /\ Go(a, "returned") /\ Show(a, "connected")
       \/ Go(a, "threw") /\ Show(a, "error") /\ UNCHANGED <<fields, native>>
    /\ Quiet

Disconnect(a) ==
    /\ Called(a)
    /\ IF state[a] = "disconnected" /\ ~fields[a].candump
       THEN Ends(a, "release") /\ UNCHANGED <<state, fields>>
       ELSE /\ fields' = [fields EXCEPT ![a] = [Fresh EXCEPT !.disconnecting = TRUE]]
            /\ IF fields[a].candump THEN Wait(a, "release", "exiting") /\ UNCHANGED state
               ELSE Ends(a, "release") /\ Show(a, "disconnected")
    /\ UNCHANGED native

(* The process ends on SIGTERM, or after two seconds on SIGKILL.             *)
Ended(a) ==
    /\ Is(a, "release", "exiting") /\ Ends(a, "release")
    /\ native' = [native EXCEPT ![a] = "exited"]
    /\ Show(a, "disconnected") /\ Quiet /\ UNCHANGED fields

(* candump exits by itself, with an error or without.                        *)
ProcessExits(a) ==
    /\ native[a] = "running" /\ Fault(a)
    /\ native' = [native EXCEPT ![a] = "exited"]
    /\ IF fields[a].disconnecting THEN UNCHANGED state
       ELSE Show(a, "error") \/ Show(a, "disconnected")
    /\ UNCHANGED <<connect, release, fields>>

StreamError(a) ==
    /\ native[a] = "running" /\ fields[a].listening /\ ~fields[a].disconnecting
    /\ Fault(a) /\ Show(a, "error")
    /\ UNCHANGED <<connect, release, fields, native>>

ConnectStep(a) == Listed(a) \/ Started(a)
ReleaseStep(a) == Ended(a)
Event(a) == Connect(a) \/ Disconnect(a) \/ ProcessExits(a) \/ StreamError(a)

InUse(a) == native[a] = "running" /\ fields[a].listening
Holds(a) == native[a] = "running"
=============================================================================
