---------------------------- MODULE AtlasAdapter ----------------------------
(***************************************************************************)
(* The interface of atlas_adapter.dart: an object is connected once, which *)
(* AtlasRuntime does with each one it creates, and disconnected once. Both *)
(* methods await, and other calls and events come in between. The modules  *)
(* of the single kinds of adapters extend this one; Adapters has them all. *)
(*                                                                         *)
(* disconnect() is run by the runtime, and by connect() when it fails: the *)
(* two tasks of an object, which may run it at the same time.              *)
(***************************************************************************)
EXTENDS Naturals, Sequences

CONSTANTS
    MaxAdapters,    \* bound: objects of a kind
    MaxFaults       \* bound: devices lost, streams in error, short writes

VARIABLES
    made,           \* the number of objects; each has its number as name
    state,          \* _state
    connect,        \* what connect() of each object is waiting for
    release,        \* what disconnect(), called by the runtime, waits for
    fields,         \* the other fields of each object
    native,         \* what lies outside Dart: processes, ports, sockets
    met,            \* history: objects with calls that came during others
    unheard,        \* history: objects that lost something untold
    faults          \* history: number of faults

vars == <<made, state, connect, release, fields, native, met, unheard, faults>>

Adapters == 1 .. MaxAdapters
Tasks == {"connect", "release"}
None == 0

Pending(a) == connect[a] \notin {"unused", "returned", "threw"}
Releasing(a) == release[a] \notin {"unused", "over"}

(* All objects and what lies outside at the start.                         *)
InitWith(record, outside) ==
    /\ made = 0 /\ met = {} /\ unheard = {} /\ faults = 0
    /\ state = [a \in Adapters |-> "disconnected"]
    /\ connect = [a \in Adapters |-> "unused"]
    /\ release = [a \in Adapters |-> "unused"]
    /\ fields = [a \in Adapters |-> record]
    /\ native = outside

Show(a, s) == state' = [state EXCEPT ![a] = s]
At(a, label) == connect[a] = label
Go(a, label) == connect' = [connect EXCEPT ![a] = label] /\ UNCHANGED release

(* The same for a disconnect() that either task runs.                      *)
Is(a, t, label) == label = IF t = "connect" THEN connect[a] ELSE release[a]
Wait(a, t, label) ==
    \/ t = "connect" /\ Go(a, label)
    \/ t = "release" /\ release' = [release EXCEPT ![a] = label]
       /\ UNCHANGED connect
Ends(a, t) == Wait(a, t, IF t = "connect" THEN "threw" ELSE "over")

(* A new object is asked to connect. A kind of adapter has the same slots  *)
(* every time, so that those before it were told to disconnect. Where they *)
(* share one thing outside Dart, it meets those still at work on it.       *)
Begin(a, others) ==
    /\ a = made + 1 /\ a \in Adapters /\ made' = a
    /\ \A b \in 1 .. made : release[b] # "unused"
    /\ met' = met \cup IF others = {} THEN {} ELSE others \cup {a}
    /\ UNCHANGED <<unheard, faults>>

(* The runtime calls disconnect() of an object it has asked to connect.    *)
Called(a) ==
    /\ connect[a] # "unused" /\ release[a] = "unused"
    /\ met' = met \cup IF Pending(a) THEN {a} ELSE {}
    /\ UNCHANGED <<made, unheard, faults>>

(* A fault; what an object loses while it connects, its connect() may not  *)
(* be told.                                                                *)
Fault(a) ==
    /\ faults < MaxFaults /\ faults' = faults + 1
    /\ unheard' = unheard \cup IF Pending(a) THEN {a} ELSE {}
    /\ UNCHANGED <<made, met>>

Quiet == UNCHANGED <<made, met, unheard, faults>>
=============================================================================
