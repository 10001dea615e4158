--------------------------- MODULE AtlasRuntime ---------------------------
(***************************************************************************)
(* AtlasRuntime (atlas_runtime.dart): the channel slots, the adapters that *)
(* feed them, and the capture with its discovery. Every method runs up to  *)
(* an await, and others run before it goes on. A call is a task of its     *)
(* own; each connect call creates the adapter object of its number.        *)
(*                                                                         *)
(* Cancelling a subscription takes microtasks only and is one step with    *)
(* what follows; the awaits left are adapter.connect(),                    *)
(* adapter.disconnect() and the stop of the capture.                       *)
(***************************************************************************)
EXTENDS Naturals, FiniteSets, Sequences

CONSTANTS
    Channels,       \* the number of channel slots
    Offers,         \* what can be connected: [field, base, width]
    MaxCalls,       \* bound: connects and disconnects
    MaxOperations,  \* bounds: operations on the capture beside n calls
    MaxFaults,      \* bound: adapters that break, disconnects that throw
    MaxDisturbed,   \* bound: slots on which calls meet
    MaxCaptures, MaxLines       \* bounds of SignalDiscovery

VARIABLES
    slots,          \* channels: adapter, state and subscription of a slot
    shared,         \* the three fields for adapters of several slots
    adapters,       \* each adapter: its offer, its link, a pending connect
    heard,          \* the adapters with a live subscription
    calls,          \* what each call is waiting for
    rates,          \* the rate timer runs
    made, acts,     \* history: connects and disconnects; other operations
    faults,         \* history: number of faults
    disturbed,      \* history: slots on which calls met, or one threw
    phase, pending, opened, lines, awaiting, discovery, counts, result,
    validating, observed, reporting

None == 0
Fields == <<"canalyst", "lys", "pair">>
Slots == 1 .. Channels
Calls == 1 .. MaxCalls

ASSUME BoundsAssumption ==
    /\ Channels \in Nat /\ MaxCalls \in Nat /\ MaxFaults \in Nat
    /\ MaxCaptures \in Nat

(* An adapter of several slots has a field of its own, and the pages       *)
(* always ask for it on the same slots.                                    *)
ASSUME OffersAssumption ==
    /\ \A offer \in Offers :
          /\ offer \in [field: {"none", "canalyst", "lys", "pair"},
                        base: Slots, width: Nat \ {0}]
          /\ offer.base + offer.width - 1 \in Slots
          /\ offer.field = "none" => offer.width = 1
    /\ \A o, p \in Offers : o.field = p.field /\ o.field # "none" => o = p

D == INSTANCE SignalDiscovery

runtimeVars == <<slots, shared, adapters, heard, calls, rates, made, faults,
                 disturbed>>
captureVars == <<phase, pending, opened, lines, awaiting, discovery, counts,
                 result, validating, observed, reporting>>
vars == <<runtimeVars, acts, captureVars>>

SlotsOf(offer) == offer.base .. offer.base + offer.width - 1
Held(a) == {c \in Slots : slots[c].adapter = a}
AnyConnected == \E c \in Slots : slots[c].state = "connected"

\* Mutant: the field of the CANalyst-II is forgotten.
IsSharedOther(a, fields) == \E f \in {"lys", "pair"} : fields[f] = a

IsShared(a, fields) == \E f \in DOMAIN fields : fields[f] = a

NoOffer == [field |-> "none", base |-> 0, width |-> 0]
NoCall == [kind |-> "none", at |-> "unused", fields |-> <<>>, from |-> 1,
           upto |-> 0, target |-> None, affected |-> {}]
Over == [NoCall EXCEPT !.at = "over"]

Init ==
    /\ slots = [c \in Slots |-> [adapter |-> None, state |-> "disconnected",
                                 subscription |-> None]]
    /\ shared = [f \in {"canalyst", "lys", "pair"} |-> None]
    /\ adapters = [a \in Calls |-> [offer |-> NoOffer, link |-> "closed",
                                    connecting |-> FALSE]]
    /\ heard = {} /\ calls = [t \in Calls |-> NoCall] /\ rates = FALSE
    /\ made = 0 /\ acts = 0 /\ faults = 0 /\ disturbed = {}
    /\ D!Init

-----------------------------------------------------------------------------
(* The slots a call works on, with those that share their adapters.        *)
Reach(channels) ==
    channels \cup
    {c \in Slots : slots[c].adapter # None
                   /\ \E d \in channels : slots[d].adapter = slots[c].adapter}

Active(t) == calls[t].at \in {"ready", "stopping", "releasing", "connecting"}

ReachOf(t) ==
    Reach(IF calls[t].kind = "connect" THEN SlotsOf(adapters[t].offer)
          ELSE IF calls[t].kind = "channel" THEN {calls[t].upto} ELSE Slots)
    \cup calls[t].affected

(* The slots on which a new call of this kind and reach meets the calls    *)
(* under way: both their slots, because a shared adapter carries the       *)
(* damage from one slot to the others; of a call on all slots, those of    *)
(* the other.                                                              *)
Met(kind, reach, t) == IF "all" \in {kind, calls[t].kind} THEN reach \cap ReachOf(t)
                                                       ELSE reach \cup ReachOf(t)

Meets(kind, reach) ==
    UNION {Met(kind, reach, t) :
              t \in {u \in Calls : Active(u) /\ ReachOf(u) \cap reach # {}}}

Show(channels, state) ==
    [c \in Slots |-> IF c \in channels THEN [slots[c] EXCEPT !.state = state]
                     ELSE slots[c]]

(* An event of an adapter reaches the slots its subscription was made for. *)
Told(a, state) ==
    IF a \in heard THEN Show(SlotsOf(adapters[a].offer), state) ELSE slots

(* The subscriptions of these slots are cancelled.                         *)
Silence(channels) == heard \ {slots[c].subscription : c \in channels}

-----------------------------------------------------------------------------
(* _disconnectSharedAdapter up to the await of adapter.disconnect().       *)
ReleaseShared(t, call, a) ==
    /\ heard' = Silence(Held(a))
    /\ slots' = [c \in Slots |-> IF c \in Held(a)
                                 THEN [slots[c] EXCEPT !.subscription = None]
                                 ELSE slots[c]]
    /\ calls' = [calls EXCEPT ![t] = [call EXCEPT
                    !.at = "releasing", !.target = a, !.affected = Held(a)]]
    /\ UNCHANGED rates

(* The end of disconnectChannel: the timers stop with the last connection. *)
Cleared(t, call) ==
    /\ calls' = [calls EXCEPT ![t] = [call EXCEPT
                    !.at = "ready", !.from = @ + 1,
                    !.target = None, !.affected = {}]]
    /\ rates' = (rates /\ \E c \in Slots : slots'[c].state = "connected")

(* disconnectChannel up to its first await, with these shared fields.      *)
Release(t, call, fields) ==
    LET c == call.from  a == slots[c].adapter IN
    \/ a # None /\ IsShared(a, fields) /\ ReleaseShared(t, call, a)
    \/ /\ a # None /\ ~IsShared(a, fields)
       /\ heard' = Silence({c})
       /\ slots' = [slots EXCEPT ![c].adapter = None, ![c].subscription = None]
       /\ calls' = [calls EXCEPT ![t] = [call EXCEPT
                       !.at = "releasing", !.target = a]]
       /\ UNCHANGED rates
    \/ /\ a = None
       /\ heard' = Silence({c})
       /\ slots' = [slots EXCEPT ![c].subscription = None,
                                 ![c].state = "disconnected"]
       /\ Cleared(t, call)

Call(t, kind, reach) ==
    /\ t = made + 1 /\ t \in Calls /\ made' = t
    /\ acts <= MaxOperations[t]
    /\ disturbed' = disturbed \cup Meets(kind, reach)
    /\ Cardinality(disturbed') <= MaxDisturbed
    /\ UNCHANGED faults

(* connectX: a shared adapter takes its field before anything is released. *)
Connect(t, offer) ==
    LET fields == [f \in DOMAIN shared |->
                      IF f = offer.field THEN t ELSE shared[f]]
        call == [NoCall EXCEPT !.kind = "connect", !.from = offer.base,
                               !.upto = offer.base + offer.width - 1]
    IN
    /\ Call(t, "connect", Reach(SlotsOf(offer)))
    /\ adapters' = [adapters EXCEPT ![t].offer = offer]
    /\ shared' = fields
    /\ Release(t, call, fields)
    /\ UNCHANGED <<acts, captureVars>>

DisconnectChannel(t, c) ==
    /\ Call(t, "channel", Reach({c}))
    /\ Release(t, [NoCall EXCEPT !.kind = "channel", !.from = c, !.upto = c],
               shared)
    /\ UNCHANGED <<shared, adapters, acts, captureVars>>

(* disconnect(), unless one is under way: it stops the capture first.      *)
Disconnect(t) ==
    /\ \A u \in Calls : calls[u].kind = "all" => ~Active(u)
    /\ Call(t, "all", Slots)
    /\ calls' = [calls EXCEPT ![t] = [NoCall EXCEPT
                    !.kind = "all", !.at = "stopping",
                    !.fields = Fields, !.upto = Channels]]
    /\ D!StopCapture
    /\ UNCHANGED <<slots, shared, adapters, heard, rates, acts>>

(* The stop of the capture has ended, well or not.                         *)
Stopped(t) ==
    /\ calls[t].at = "stopping" /\ phase \in {"idle", "starting", "recording"}
    /\ calls' = [calls EXCEPT ![t].at = "ready"]
    /\ UNCHANGED <<slots, shared, adapters, heard, rates, made, faults,
                   disturbed, acts, captureVars>>

\* Mutant: a field is not tested for null.
NextFieldUnchecked(t) ==
    /\ calls[t].at = "ready" /\ calls[t].fields # <<>>
    /\ ReleaseShared(t, calls[t], shared[Head(calls[t].fields)])
    /\ UNCHANGED <<shared, adapters, made, faults, disturbed, acts, captureVars>>

(* disconnect() goes through the shared fields, then through the channels. *)
NextField(t) ==
    LET f == Head(calls[t].fields)
        call == [calls[t] EXCEPT !.fields = Tail(@)]
    IN
    /\ calls[t].at = "ready" /\ calls[t].fields # <<>>
    /\ IF shared[f] # None THEN ReleaseShared(t, calls[t], shared[f])
       ELSE /\ calls' = [calls EXCEPT ![t] = call]
            /\ UNCHANGED <<slots, heard, rates>>
    /\ UNCHANGED <<shared, adapters, made, faults, disturbed, acts, captureVars>>

NextChannel(t) ==
    /\ calls[t].at = "ready" /\ calls[t].fields = <<>>
    /\ calls[t].from <= calls[t].upto
    /\ Release(t, calls[t], shared)
    /\ UNCHANGED <<shared, adapters, made, faults, disturbed, acts, captureVars>>

(* adapter.disconnect() returns: the slot is cleared, or, of a shared      *)
(* adapter, its fields and the slots that held it at the call, if any.     *)
Released(t) ==
    LET call == calls[t]  a == call.target
        shown == Told(a, "disconnected")
    IN
    /\ call.at = "releasing"
    /\ adapters' = [adapters EXCEPT ![a].link = "closed"]
    /\ IF call.affected = {} /\ call.fields = <<>>
       THEN /\ slots' = [shown EXCEPT ![call.from].state = "disconnected"]
            /\ UNCHANGED shared
       ELSE /\ slots' = [c \in Slots |-> IF c \in call.affected
                            THEN [shown[c] EXCEPT !.adapter = None,
                                                  !.state = "disconnected"]
                            ELSE shown[c]]
            /\ shared' = [f \in DOMAIN shared |->
                             IF shared[f] = a THEN None ELSE shared[f]]
    /\ IF call.fields = <<>> THEN Cleared(t, call)
       ELSE /\ calls' = [calls EXCEPT ![t] = [call EXCEPT
                            !.at = "ready", !.fields = Tail(@),
                            !.target = None, !.affected = {}]]
            /\ UNCHANGED rates
    /\ UNCHANGED <<heard, made, faults, disturbed, acts, captureVars>>

(* adapter.disconnect() throws: the call ends where it is.                 *)
ReleaseThrows(t) ==
    /\ calls[t].at = "releasing" /\ faults < MaxFaults
    /\ faults' = faults + 1 /\ disturbed' = disturbed \cup ReachOf(t)
    /\ calls' = [calls EXCEPT ![t] = Over]
    /\ rates' = (rates /\ calls[t].kind # "all")
    /\ UNCHANGED <<slots, shared, adapters, heard, made, acts, captureVars>>

(* A disconnect has gone through all its channels.                         *)
Finished(t) ==
    /\ calls[t].at = "ready" /\ calls[t].kind # "connect"
    /\ calls[t].fields = <<>> /\ calls[t].from > calls[t].upto
    /\ calls' = [calls EXCEPT ![t] = Over]
    /\ rates' = (rates /\ calls[t].kind # "all")
    /\ UNCHANGED <<slots, shared, adapters, heard, made, faults, disturbed,
                   acts, captureVars>>

(* The slots are free: the adapter is installed, subscribed to and asked   *)
(* to connect.                                                             *)
Install(t) ==
    LET mine == SlotsOf(adapters[t].offer)  first == adapters[t].offer.base IN
    /\ calls[t].at = "ready" /\ calls[t].kind = "connect"
    /\ calls[t].from > calls[t].upto
    /\ slots' = [c \in Slots |-> IF c \notin mine THEN slots[c]
                    ELSE [adapter |-> t, state |-> "connecting",
                          subscription |-> IF c = first THEN t
                                           ELSE slots[c].subscription]]
    /\ heard' = heard \cup {t}
    /\ adapters' = [adapters EXCEPT ![t].connecting = TRUE]
    /\ calls' = [calls EXCEPT ![t].at = "connecting"]
    /\ UNCHANGED <<shared, rates, made, faults, disturbed, acts, captureVars>>

-----------------------------------------------------------------------------
(* An adapter, of which Adapters checks what is assumed here. A connect    *)
(* that is pending when disconnect() arrives may still succeed afterwards: *)
(* candump or the native device is then opened.                            *)
Connected(t) ==
    /\ adapters[t].connecting
    /\ adapters' = [adapters EXCEPT ![t].connecting = FALSE, ![t].link = "open"]
    /\ slots' = Told(t, "connected") /\ rates' = TRUE
    /\ calls' = [calls EXCEPT ![t] = Over]
    /\ UNCHANGED <<shared, heard, made, faults, disturbed, acts, captureVars>>

(* The error is shown by the slots the adapter was installed in.           *)
ConnectFails(t) ==
    /\ adapters[t].connecting
    /\ adapters' = [adapters EXCEPT ![t].connecting = FALSE,
                                    ![t].link = "closed"]
    /\ slots' = Show(SlotsOf(adapters[t].offer), "error")
    /\ calls' = [calls EXCEPT ![t] = Over]
    /\ UNCHANGED <<shared, heard, rates, made, faults, disturbed, acts, captureVars>>

(* The device is lost, its process exits, or its stream is in error, which *)
(* an adapter also shows while it connects.                                *)
Breaks(a, state) ==
    /\ adapters[a].link = "open" \/ (adapters[a].connecting /\ state = "error")
    /\ faults < MaxFaults /\ faults' = faults + 1
    /\ adapters' = IF adapters[a].connecting THEN adapters
                   ELSE [adapters EXCEPT ![a].link = "broken"]
    /\ slots' = Told(a, state)
    /\ UNCHANGED <<shared, heard, calls, rates, made, disturbed, acts, captureVars>>

-----------------------------------------------------------------------------
(* The operator and the capture, as in SignalDiscovery. A capture can be   *)
(* started while a slot shows a connection; frames come from subscribed    *)
(* adapters, of some of them before connect() has returned.                *)
Operate ==
    /\ made # 0 /\ acts < MaxOperations[made] /\ acts' = acts + 1
    /\ \/ AnyConnected /\ \E who \in D!Callers : D!StartCapture(who)
       \/ D!isRecording /\ D!StopCapture
       \/ D!MarkEventStart \/ D!MarkEventEnd
       \/ AnyConnected /\ D!ValidateRecording
       \/ D!MarkStep \/ D!FinishValidation
    /\ UNCHANGED runtimeVars

FrameArrives ==
    /\ \E a \in heard : adapters[a].link = "open" \/ adapters[a].connecting
    /\ \E frame \in D!Frames : D!Frame(frame)
    /\ UNCHANGED <<runtimeVars, acts>>

CaptureProceeds ==
    /\ \/ D!FileOpened \/ D!FileFails \/ D!Closed \/ D!WriteFails
       \/ D!ReportWritten
    /\ UNCHANGED <<runtimeVars, acts>>

Next ==
    \/ \E t \in Calls :
          \/ \E offer \in Offers : Connect(t, offer)
          \/ \E c \in Slots : DisconnectChannel(t, c)
          \/ Disconnect(t) \/ Stopped(t) \/ NextField(t) \/ NextChannel(t)
          \/ Released(t) \/ ReleaseThrows(t) \/ Finished(t)
          \/ Install(t) \/ Connected(t) \/ ConnectFails(t)
          \/ \E state \in {"error", "disconnected"} : Breaks(t, state)
    \/ Operate \/ FrameArrives \/ CaptureProceeds

Spec == Init /\ [][Next]_vars

-----------------------------------------------------------------------------
(* Every variable stays in its domain; a call that waits for a disconnect  *)
(* has an adapter to disconnect.                                           *)
TypeOK ==
    /\ slots \in [Slots -> [adapter : {None} \cup Calls,
                            state : {"disconnected", "connecting",
                                     "connected", "error"},
                            subscription : {None} \cup Calls]]
    /\ shared \in [{"canalyst", "lys", "pair"} -> {None} \cup Calls]
    /\ adapters \in [Calls -> [offer : Offers \cup {NoOffer},
                               link : {"closed", "open", "broken"},
                               connecting : BOOLEAN]]
    /\ heard \subseteq Calls /\ rates \in BOOLEAN
    /\ made \in 0 .. MaxCalls /\ acts \in Nat /\ faults \in 0 .. MaxFaults
    /\ disturbed \subseteq Slots
    /\ \A t \in Calls :
          /\ calls[t].target \in {None} \cup Calls
          /\ calls[t].at = "releasing" => calls[t].target \in Calls
    /\ D!TypeOK

(* No call is at work on the slot.                                         *)
AtRest(c) == \A t \in Calls : Active(t) => c \notin ReachOf(t)

(* A connected slot at rest holds an adapter that is open and heard, and   *)
(* its rates are published; and the frames of a channel come at any time   *)
(* only from the adapter its slot holds.                                   *)
ShownIsSo(c) ==
    /\ slots[c].state = "connected" /\ AtRest(c) =>
          /\ slots[c].adapter \in heard /\ rates
          /\ adapters[slots[c].adapter].link = "open"
    /\ \A a \in heard : c \in SlotsOf(adapters[a].offer) => slots[c].adapter = a

(* An adapter that is open, or will be, is held by its slots or is being   *)
(* disconnected: nothing stays connected that no slot shows.               *)
IsShown(a) ==
    adapters[a].link = "open" \/ adapters[a].connecting =>
        \/ \A c \in SlotsOf(adapters[a].offer) : slots[c].adapter = a
        \/ \E t \in Calls : calls[t].at = "releasing" /\ calls[t].target = a

(* What the slots show is so, and what is so they show, except where calls *)
(* met or a disconnect threw: a connect that fails late, a disconnect that *)
(* does not wait for it, or a shared field overwritten early does no harm  *)
(* to the other slots, and none where one call follows the other.          *)
SlotsTruthful ==
    /\ \A c \in Slots \ disturbed : ShownIsSo(c)
    /\ \A a \in Calls :
          SlotsOf(adapters[a].offer) \cap disturbed = {} => IsShown(a)

(* What is observed during a capture is what its file holds: the windows   *)
(* of the discovery and the samples of a validation, whatever connects,    *)
(* disconnects, fails or stops the capture meanwhile.                      *)
ObservedIsRecorded == D!WindowsAreRecorded /\ D!SamplesAreRecorded
=============================================================================
