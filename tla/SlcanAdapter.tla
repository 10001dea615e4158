---------------------------- MODULE SlcanAdapter ----------------------------
(* slcan_adapter.dart: a serial port that an object opens at once, and three *)
(* commands with a delay of 60 ms after each. native[a] is the port.         *)
EXTENDS AtlasAdapter

Fresh == [port |-> FALSE, listening |-> FALSE]

Init == InitWith(Fresh, [a \in Adapters |-> "closed"])

CanWrite(a) == fields[a].port /\ native[a] = "open"

(* A command cannot be written: the port is closed or lost, or the write     *)
(* falls short.                                                              *)
WriteFails(a) ==
    \/ ~CanWrite(a) /\ Quiet
    \/ faults < MaxFaults /\ faults' = faults + 1 /\ UNCHANGED <<made, met, unheard>>

(* disconnect() from the delay after its command on.                         *)
Finish(a, t) ==
    /\ fields' = [fields EXCEPT ![a] = Fresh]
    /\ native' = [native EXCEPT ![a] = "closed"]
    /\ Show(a, "disconnected") /\ Ends(a, t)

\* Mutant: a command that fails leaves the port open.
StopForgets(a, t) ==
    Ends(a, t) /\ Show(a, "error") /\ UNCHANGED <<fields, native>>

(* disconnect() up to that delay: a port that does not take the closing      *)
(* command has none.                                                         *)
Stop(a, t) ==
    \/ /\ CanWrite(a) /\ Wait(a, t, "closing")
       /\ UNCHANGED <<state, fields, native>>
    \/ Finish(a, t)

Stopped(a, t) == Is(a, t, "closing") /\ Finish(a, t) /\ Quiet

Connect(a) ==
    /\ Begin(a, {})
    /\ \/ /\ Go(a, "C") /\ Show(a, "connecting")
          /\ fields' = [fields EXCEPT ![a] = [port |-> TRUE, listening |-> TRUE]]
          /\ native' = [native EXCEPT ![a] = "open"]
       \/ Go(a, "threw") /\ Show(a, "error") /\ UNCHANGED <<fields, native>>

(* The delay after a command is over and the next one is written.            *)
Command(a, label, next) ==
    /\ At(a, label)
    /\ \/ /\ CanWrite(a) /\ Go(a, next) /\ Quiet
          /\ UNCHANGED <<state, fields, native>>
       \/ WriteFails(a) /\ Stop(a, "connect")

Connected(a) ==
    /\ At(a, "O") /\ Go(a, "returned") /\ Show(a, "connected")
    /\ Quiet /\ UNCHANGED <<fields, native>>

Disconnect(a) == Called(a) /\ Stop(a, "release")

(* The stick is pulled: the reader reports an error.                         *)
Unplugged(a) ==
    /\ native[a] = "open" /\ Fault(a)
    /\ native' = [native EXCEPT ![a] = "lost"]
    /\ IF fields[a].listening THEN Show(a, "error") ELSE UNCHANGED state
    /\ UNCHANGED <<connect, release, fields>>

ConnectStep(a) ==
    \/ Command(a, "C", "S") \/ Command(a, "S", "O") \/ Connected(a)
    \/ Stopped(a, "connect")
ReleaseStep(a) == Stopped(a, "release")
Event(a) == Connect(a) \/ Disconnect(a) \/ Unplugged(a)

InUse(a) == native[a] = "open" /\ fields[a].listening
Holds(a) == native[a] # "closed"
=============================================================================
