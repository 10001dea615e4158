---------------------------- MODULE HelperAdapter ----------------------------
(* linux_obdlink_mx_adapter.dart, and vlinker_ms_adapter.dart on Windows: a   *)
(* helper process owns the port, the commands are sent one by one, each after *)
(* the prompt of the one before, and connect() waits for the first frame.     *)
(* native[a] is the process an object has started.                            *)
EXTENDS AtlasAdapter

CONSTANTS
    Vlinker,        \* the vLinker MS, not the OBDLink MX+
    Commands        \* bound: commands before the monitor

(* process: _process is set and listened to; first: _firstFrame is not null. *)
Fresh == [process |-> FALSE, monitoring |-> FALSE, disconnecting |-> FALSE,
          first |-> FALSE, left |-> 0]

Init == InitWith(Fresh, [a \in Adapters |-> "none"])

Runs(a) == fields[a].process /\ native[a] = "running"

(* disconnect() up to the exit of the helper, and from there.                *)
Finish(a, t) ==
    /\ fields' = [fields EXCEPT ![a] = [Fresh EXCEPT !.disconnecting = TRUE]]
    /\ native' = IF fields[a].process THEN [native EXCEPT ![a] = "exited"]
                 ELSE native
    /\ Show(a, "disconnected") /\ Ends(a, t)

Stop(a, t) ==
    \/ /\ fields[a].process /\ Wait(a, t, "exiting")
       /\ fields' = [fields EXCEPT ![a].disconnecting = TRUE]
       /\ UNCHANGED <<state, native>>
    \/ ~fields[a].process /\ Finish(a, t)

(* The helper exits because its input ends or it is told to, or it is killed *)
(* after two seconds.                                                        *)
Stopped(a, t) == Is(a, t, "exiting") /\ Finish(a, t) /\ Quiet

Connect(a) ==
    /\ Begin(a, {}) /\ Show(a, "connecting") /\ Go(a, "starting")
    /\ fields' = [fields EXCEPT ![a].first = TRUE]
    /\ UNCHANGED native

(* The process runs, or could not be started, which only the vLinker shows.  *)
Started(a) ==
    /\ At(a, "starting") /\ Quiet
    /\ \/ /\ Go(a, "ready")
          /\ fields' = [fields EXCEPT ![a].process = TRUE]
          /\ native' = [native EXCEPT ![a] = "running"] /\ UNCHANGED state
       \/ /\ Go(a, "threw") /\ IF Vlinker THEN Show(a, "error") ELSE UNCHANGED state
          /\ UNCHANGED <<fields, native>>

(* READY, or the prompt of a command: the next one is written. After the     *)
(* last comes the monitor.                                                   *)
Prompt(a) ==
    LET left == IF At(a, "ready") THEN Commands ELSE fields[a].left - 1 IN
    /\ At(a, "ready") \/ At(a, "command")
    /\ Runs(a) /\ Quiet
    /\ IF left > 0
       THEN /\ fields' = [fields EXCEPT ![a].left = left]
            /\ Go(a, "command") /\ UNCHANGED <<state, native>>
       ELSE /\ fields[a].first /\ Go(a, "frame")
            /\ fields' = [fields EXCEPT ![a].left = 0, ![a].monitoring = TRUE]
            /\ UNCHANGED <<state, native>>

\* Mutant: no timeout while a command or the first frame is awaited.
GivesUpNever(a) == At(a, "ready") /\ Stop(a, "connect") /\ Quiet

(* An error instead of READY, a rejected command, a timeout, or no future of *)
(* the first frame left to wait for.                                         *)
GivesUp(a) ==
    /\ At(a, "ready") \/ At(a, "command") \/ At(a, "frame")
    /\ Stop(a, "connect") /\ Quiet

(* The first frame; it may be in the pipe of a helper that has exited, and   *)
(* the text behind it may end the monitor.                                   *)
FirstFrame(a) ==
    /\ At(a, "frame") /\ fields[a].process /\ fields[a].monitoring
    /\ Go(a, "returned") /\ Show(a, "connected") /\ UNCHANGED native
    /\ \/ UNCHANGED fields /\ Quiet
       \/ (fields[a].disconnecting => Vlinker) /\ Fault(a)
          /\ fields' = [fields EXCEPT ![a].monitoring = FALSE]

Disconnect(a) == Called(a) /\ Stop(a, "release")

HelperExits(a) ==
    /\ native[a] = "running" /\ Fault(a)
    /\ native' = [native EXCEPT ![a] = "exited"]
    /\ IF fields[a].disconnecting \/ state[a] = "disconnected" THEN UNCHANGED state
       ELSE Show(a, "error")
    /\ UNCHANGED <<connect, release, fields>>

(* BUFFER FULL, STOPPED and the like; a vLinker that is being stopped shows  *)
(* it too.                                                                   *)
MonitorEnds(a) ==
    /\ Runs(a) /\ fields[a].monitoring /\ (fields[a].disconnecting => Vlinker)
    /\ faults < MaxFaults /\ faults' = faults + 1
    /\ fields' = [fields EXCEPT ![a].monitoring = FALSE]
    /\ Show(a, "error")
    /\ UNCHANGED <<made, met, unheard, connect, release, native>>

StreamError(a) ==
    /\ Runs(a) /\ (fields[a].disconnecting => ~Vlinker)
    /\ Fault(a) /\ Show(a, "error")
    /\ UNCHANGED <<connect, release, fields, native>>

ConnectStep(a) ==
    \/ Started(a) \/ Prompt(a) \/ GivesUp(a) \/ FirstFrame(a)
    \/ Stopped(a, "connect")
ReleaseStep(a) == Stopped(a, "release")
Event(a) ==
    \/ Connect(a) \/ Disconnect(a)
    \/ HelperExits(a) \/ MonitorEnds(a) \/ StreamError(a)

InUse(a) == Runs(a) /\ fields[a].monitoring
Holds(a) == native[a] = "running"
=============================================================================
