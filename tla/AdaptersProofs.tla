---------------------------- MODULE AdaptersProofs ----------------------------
(***************************************************************************)
(* What the adapters promise AtlasRuntime, proved for any number of        *)
(* objects, faults and commands. Each kind has its inductive invariant: of *)
(* an object on which no calls met, how far its connect() and disconnect() *)
(* have come says what it holds outside Dart.                              *)
(***************************************************************************)
EXTENDS Adapters, Functions, TLAPS

States == {"disconnected", "connecting", "connected", "error"}

(* An object is used in the order of the numbers, and the runtime's calls  *)
(* of one that is not in met come one after the other.                     *)
CallsInOrder(working, releasing) ==
    /\ made \in 0 .. MaxAdapters
    /\ met \subseteq Adapters /\ \A a \in met : a <= made
    /\ unheard \subseteq Adapters
    /\ state \in [Adapters -> States]
    /\ connect \in [Adapters -> {"unused", "returned", "threw"} \cup working]
    /\ release \in [Adapters -> {"unused", "over"} \cup releasing]
    /\ \A a \in Adapters : connect[a] = "unused" <=> a > made
    /\ \A a \in Adapters : a > made => release[a] = "unused"
    /\ \A a \in Adapters \ met : release[a] # "unused" => ~Pending(a)
    /\ \A a \in Adapters : a > made => state[a] = "disconnected"

-----------------------------------------------------------------------------
SocketCanTypes ==
    /\ CallsInOrder({"listing", "starting"}, {"exiting"})
    /\ fields \in [Adapters -> [candump : BOOLEAN, listening : BOOLEAN,
                                disconnecting : BOOLEAN]]
    /\ native \in [Adapters -> {"none", "running", "exited"}]

(* connect() starts the process last of all; disconnect() waits for its    *)
(* end.                                                                    *)
SocketCanObject(a) ==
    /\ connect[a] # "returned" =>
          native[a] = "none" /\ ~fields[a].candump /\ state[a] # "connected"
    /\ release[a] = "unused" => ~fields[a].disconnecting
    /\ release[a] = "exiting" => connect[a] = "returned"
    /\ connect[a] = "returned" /\ release[a] = "unused" =>
          /\ fields[a].candump /\ fields[a].listening
          /\ state[a] = "connected" => native[a] = "running"
    /\ release[a] = "over" => native[a] # "running" /\ state[a] # "connected"

SocketCanInv == SocketCanTypes /\ \A a \in Adapters \ met : SocketCanObject(a)

SlcanTypes ==
    /\ CallsInOrder({"C", "S", "O", "closing"}, {"closing"})
    /\ fields \in [Adapters -> [port : BOOLEAN, listening : BOOLEAN]]
    /\ native \in [Adapters -> {"closed", "open", "lost"}]

(* The port is open from the beginning of connect() to the end of a        *)
(* disconnect(), or lost.                                                  *)
SlcanObject(a) ==
    /\ connect[a] \in {"unused", "threw"} => native[a] = "closed"
    /\ connect[a] # "returned" => state[a] # "connected"
    /\ connect[a] \in {"C", "S", "O", "returned"} /\ release[a] = "unused" =>
          fields[a].port /\ fields[a].listening
    /\ connect[a] \in {"C", "S", "O"} /\ a \notin unheard => native[a] = "open"
    /\ /\ connect[a] = "returned" /\ state[a] = "connected"
       /\ release[a] = "unused" /\ a \notin unheard
       => native[a] = "open"
    /\ release[a] = "over" => native[a] = "closed" /\ state[a] # "connected"

SlcanInv == SlcanTypes /\ \A a \in Adapters \ met : SlcanObject(a)

HelperWork == {"starting", "ready", "command", "frame", "exiting"}

HelperFields == [process : BOOLEAN, monitoring : BOOLEAN, disconnecting : BOOLEAN,
                 first : BOOLEAN, left : Nat]

HelperTypes ==
    /\ CallsInOrder(HelperWork, {"exiting"})
    /\ fields \in [Adapters -> HelperFields]
    /\ native \in [Adapters -> {"none", "running", "exited"}]

(* _process is set as long as the process may run, and disconnect() does   *)
(* not return before it has exited.                                        *)
HelperObject(a) ==
    /\ connect[a] \in {"unused", "starting"} => native[a] = "none" /\ ~fields[a].process
    /\ connect[a] # "returned" => state[a] # "connected"
    /\ connect[a] \in {"ready", "command", "frame", "exiting"} => fields[a].process
    /\ connect[a] \in {"ready", "command", "frame"} /\ a \notin unheard =>
          native[a] = "running"
    /\ connect[a] = "returned" /\ release[a] # "over" => fields[a].process
    /\ connect[a] \notin {"exiting", "threw"} /\ release[a] = "unused" =>
          ~fields[a].disconnecting
    /\ connect[a] = "threw" \/ release[a] = "over" =>
          native[a] # "running" /\ ~fields[a].process /\ state[a] # "connected"
    /\ /\ connect[a] = "returned" /\ state[a] = "connected"
       /\ release[a] = "unused" /\ a \notin unheard
       => native[a] = "running" /\ fields[a].monitoring

HelperInv == HelperTypes /\ \A a \in Adapters \ met : HelperObject(a)

-----------------------------------------------------------------------------
VlinkerWork == {"permission", "native", "command", "frame", "stopping"}

VlinkerFields == [sub : BOOLEAN, monitoring : BOOLEAN, disconnecting : BOOLEAN,
                  first : BOOLEAN, left : Nat]

VlinkerNative ==
    [socket : {None} \cup Adapters, open : SUBSET Adapters, sink : {None} \cup Adapters,
     thread : [Adapters -> {"none", "begun", "opening", "opened", "failed"}],
     reader : [Adapters -> {"none", "reading", "ending", "done"}]]

VlinkerTypes ==
    /\ CallsInOrder(VlinkerWork, {"stopping"})
    /\ fields \in [Adapters -> VlinkerFields] /\ native \in VlinkerNative

(* Of the objects that share the plugin, an object on which no calls met   *)
(* is the last one, or is at work no more, and the last one has found the  *)
(* others so: then the socket that is open is its own.                     *)
VlinkerShared ==
    /\ \A a \in Adapters : a < made /\ (a \notin met \/ made \notin met) =>
                              ~VlinkerAndroid!AtWork(a)
    /\ \A a \in Adapters : a < made => release[a] # "unused"
    /\ native.socket # None => native.socket \in native.open
    /\ made \notin met /\ made \in native.open => native.socket = made

VlinkerEarly(a) ==
    connect[a] \in {"unused", "permission"} =>
        /\ native.thread[a] = "none" /\ a \notin native.open
        /\ native.sink # a /\ ~fields[a].sub

VlinkerObject(a) ==
    /\ connect[a] # "returned" => state[a] # "connected"
    /\ connect[a] # "native" => native.thread[a] \notin {"begun", "opening"}
    /\ native.sink = a => fields[a].sub
    /\ connect[a] \in {"native", "command", "frame"} => native.sink = a
    /\ connect[a] = "threw" \/ release[a] = "over" =>
          a \notin native.open /\ native.sink # a /\ state[a] # "connected"
    /\ connect[a] \notin {"stopping", "threw"} /\ release[a] = "unused" =>
          ~fields[a].disconnecting
    /\ connect[a] = "returned" /\ state[a] = "connected" /\ release[a] = "unused" =>
          /\ native.sink = a
          /\ a \notin unheard => fields[a].monitoring /\ native.reader[a] = "reading"

VlinkerInv ==
    /\ VlinkerTypes /\ VlinkerShared /\ \A a \in Adapters : VlinkerEarly(a)
    /\ \A a \in Adapters \ met : VlinkerObject(a)

-----------------------------------------------------------------------------
UsbCalls == [by : Adapters, what : {"open", "read", "close"}]

UsbFields == [on : BOOLEAN, loop : {"none", "reading", "pausing"}]

UsbTypes ==
    /\ CallsInOrder({"opening"}, {"loop", "closing"})
    /\ fields \in [Adapters -> UsbFields]
    /\ native \in [opener : {None} \cup Adapters, lost : BOOLEAN, calls : Seq(UsbCalls)]

(* Whoever has sent a call waits for its answer.                           *)
Waits(call) ==
    /\ call.what = "open" => connect[call.by] = "opening"
    /\ call.what = "close" => release[call.by] = "closing"
    /\ call.what = "read" => fields[call.by].loop = "reading"

UsbQueue ==
    /\ IsInjective(native.calls)
    /\ \A call \in Range(native.calls) : Waits(call)

UsbShared ==
    /\ \A a \in Adapters : a < made /\ (a \notin met \/ made \notin met) =>
                              ~GsUsb!AtWork(a)
    /\ \A a \in Adapters : a < made => release[a] # "unused"

UsbEarly(a) ==
    connect[a] # "returned" =>
        ~fields[a].on /\ fields[a].loop = "none" /\ native.opener # a

(* An object has opened the device and polls it as long as it says that it *)
(* is connected and is not told to disconnect.                             *)
UsbObject(a) ==
    /\ connect[a] # "returned" => state[a] # "connected"
    /\ release[a] # "unused" => ~fields[a].on
    /\ release[a] = "over" => native.opener # a /\ state[a] # "connected"
    /\ connect[a] = "returned" /\ state[a] = "connected" /\ release[a] = "unused" =>
          native.opener = a /\ GsUsb!Polls(a)

UsbInv ==
    /\ UsbTypes /\ UsbQueue /\ UsbShared /\ \A a \in Adapters : UsbEarly(a)
    /\ \A a \in Adapters \ met : UsbObject(a)

-----------------------------------------------------------------------------
Kinds == {"socketcan", "slcan", "obdlink", "vlinker windows", "vlinker android", "gs_usb",
          "canalystii"}

AdaptersInv ==
    /\ kind \in Kinds
    /\ kind = "socketcan" => SocketCanInv
    /\ kind = "slcan" => SlcanInv
    /\ kind \in {"obdlink", "vlinker windows"} => HelperInv
    /\ kind = "vlinker android" => VlinkerInv
    /\ kind \in {"gs_usb", "canalystii"} => UsbInv

-----------------------------------------------------------------------------
(* What a step leaves alone: all objects but one.                          *)
Elsewhere(a) ==
    \A b \in Adapters \ {a} :
        /\ state'[b] = state[b] /\ connect'[b] = connect[b]
        /\ release'[b] = release[b]

OutsideOf(a) ==
    \A b \in Adapters \ {a} : fields'[b] = fields[b] /\ native'[b] = native[b]

Typed(working, releasing) ==
    /\ state' \in [Adapters -> States]
    /\ connect' \in [Adapters -> {"unused", "returned", "threw"} \cup working]
    /\ release' \in [Adapters -> {"unused", "over"} \cup releasing]

(* A new object is asked to connect.                                       *)
LEMMA CallsBegin ==
    ASSUME NEW W, NEW R, CallsInOrder(W, R), NEW a \in Adapters,
           a = made + 1, made' = a, unheard' = unheard,
           met \subseteq met', met' \subseteq met \cup 1 .. a,
           Typed(W, R), Elsewhere(a), connect'[a] # "unused", release' = release
    PROVE  CallsInOrder(W, R)'
<1>1. made' \in 0 .. MaxAdapters /\ made \in Nat
  BY BoundsAssumption DEF CallsInOrder, Adapters
<1>2. /\ met' \subseteq Adapters /\ met \subseteq met' /\ unheard' \subseteq Adapters
      /\ \A b \in met' : b <= made'
  BY <1>1, BoundsAssumption DEF CallsInOrder, Adapters
<1>3. \A b \in Adapters : connect'[b] = "unused" <=> b > made'
  BY <1>1 DEF CallsInOrder, Elsewhere, Adapters
<1>4. \A b \in Adapters : b > made' => release'[b] = "unused" /\ state'[b] = "disconnected"
  BY <1>1 DEF CallsInOrder, Elsewhere, Adapters
<1>5. release'[a] = "unused"
  BY <1>1 DEF CallsInOrder
<1>6. \A b \in Adapters \ met' : release'[b] # "unused" => ~Pending(b)'
  BY <1>2, <1>5 DEF CallsInOrder, Elsewhere, Pending
<1>q. QED BY <1>1, <1>2, <1>3, <1>4, <1>6 DEF CallsInOrder, Typed

(* An object goes on that has been asked to.                               *)
LEMMA CallsGoOn ==
    ASSUME NEW W, NEW R, CallsInOrder(W, R), NEW a \in Adapters,
           connect[a] # "unused", connect'[a] # "unused",
           made' = made, met \subseteq met', met' \subseteq met \cup {a},
           unheard' \subseteq unheard \cup {a}, Typed(W, R), Elsewhere(a),
           a \notin met' /\ release'[a] # "unused" => ~Pending(a)'
    PROVE  CallsInOrder(W, R)'
<1>1. made' \in 0 .. MaxAdapters /\ made \in Nat
  BY BoundsAssumption DEF CallsInOrder
<1>2. /\ met' \subseteq Adapters /\ met \subseteq met' /\ unheard' \subseteq Adapters
      /\ \A b \in met' : b <= made'
  <2>1. a <= made
    BY <1>1, BoundsAssumption DEF CallsInOrder, Adapters
  <2>q. QED BY <2>1 DEF CallsInOrder
<1>3. \A b \in Adapters : connect'[b] = "unused" <=> b > made'
  BY DEF CallsInOrder, Elsewhere
<1>4. \A b \in Adapters : b > made' => release'[b] = "unused" /\ state'[b] = "disconnected"
  BY DEF CallsInOrder, Elsewhere
<1>6. \A b \in Adapters \ met' : release'[b] # "unused" => ~Pending(b)'
  BY DEF CallsInOrder, Elsewhere, Pending
<1>q. QED BY <1>1, <1>2, <1>3, <1>4, <1>6 DEF CallsInOrder, Typed

-----------------------------------------------------------------------------
LEMMA SocketCanInit == ASSUME SocketCan!Init PROVE SocketCanInv
  BY BoundsAssumption DEF SocketCan!Init, SocketCan!InitWith, SocketCan!Adapters, Adapters,
     SocketCan!Fresh, SocketCanInv, SocketCanTypes, SocketCanObject, CallsInOrder, States,
     Pending

(* A function with one value overwritten.                                  *)
LEMMA Updated ==
    ASSUME NEW S, NEW T, NEW f \in [S -> T], NEW a \in S, NEW v \in T,
           NEW g, g = [f EXCEPT ![a] = v]
    PROVE  g \in [S -> T] /\ g[a] = v /\ \A b \in S \ {a} : g[b] = f[b]
  OBVIOUS

(* A step of one object.                                                   *)
LEMMA SocketCanKept ==
    ASSUME SocketCanInv, NEW a \in Adapters, SocketCanTypes', met \subseteq met',
           Elsewhere(a), OutsideOf(a), a \notin met' => SocketCanObject(a)'
    PROVE  SocketCanInv'
<1>1. ASSUME NEW b \in Adapters, b \notin met', b # a PROVE SocketCanObject(b)'
  BY <1>1 DEF SocketCanInv, SocketCanObject, Elsewhere, OutsideOf
<1>q. QED BY <1>1 DEF SocketCanInv

LEMMA SocketCanConnects ==
    ASSUME SocketCanInv, NEW a \in Adapters, SocketCan!Connect(a) PROVE SocketCanInv'
  BY BoundsAssumption DEF SocketCan!Connect, SocketCan!Begin, SocketCan!Show, SocketCan!Go,
     SocketCan!Adapters, Adapters, SocketCanInv, SocketCanTypes, SocketCanObject, CallsInOrder,
     States, Pending

LEMMA SocketCanConnecting ==
    ASSUME SocketCanInv, NEW a \in Adapters, SocketCan!Listed(a) \/ SocketCan!Started(a)
    PROVE  SocketCanInv'
<1>1. /\ connect[a] \in {"listing", "starting"} /\ UNCHANGED <<release, made, met, unheard>>
      /\ \/ /\ connect' = [connect EXCEPT ![a] = "starting"]
            /\ UNCHANGED <<state, fields, native>>
         \/ /\ connect' = [connect EXCEPT ![a] = "threw"]
            /\ state' = [state EXCEPT ![a] = "error"] /\ UNCHANGED <<fields, native>>
         \/ /\ connect' = [connect EXCEPT ![a] = "returned"]
            /\ state' = [state EXCEPT ![a] = "connected"]
            /\ fields' = [fields EXCEPT ![a].candump = TRUE, ![a].listening = TRUE]
            /\ native' = [native EXCEPT ![a] = "running"]
  BY DEF SocketCan!Listed, SocketCan!Started, SocketCan!Show, SocketCan!Go, SocketCan!At,
         SocketCan!Quiet
<1>t. /\ state \in [Adapters -> States]
      /\ connect \in [Adapters -> {"unused", "returned", "threw"} \cup {"listing", "starting"}]
      /\ release \in [Adapters -> {"unused", "over"} \cup {"exiting"}]
      /\ fields \in [Adapters -> [candump : BOOLEAN, listening : BOOLEAN,
                                  disconnecting : BOOLEAN]]
      /\ native \in [Adapters -> {"none", "running", "exited"}]
  BY DEF SocketCanInv, SocketCanTypes, CallsInOrder
<1>3. Typed({"listing", "starting"}, {"exiting"}) /\ Elsewhere(a) /\ connect'[a] # "unused"
  <2>1. \/ state' = state
        \/ state' = [state EXCEPT ![a] = "error"]
        \/ state' = [state EXCEPT ![a] = "connected"]
    BY <1>1
  <2>2. state' \in [Adapters -> States] /\ \A b \in Adapters \ {a} : state'[b] = state[b]
    <3>1. "error" \in States /\ "connected" \in States
      BY DEF States
    <3>2. CASE state' = state
      BY <1>t, <3>2
    <3>3. CASE state' = [state EXCEPT ![a] = "error"]
      BY <1>t, <3>1, <3>3, Updated
    <3>4. CASE state' = [state EXCEPT ![a] = "connected"]
      BY <1>t, <3>1, <3>4, Updated
    <3>q. QED BY <2>1, <3>2, <3>3, <3>4
  <2>3. \E v \in {"starting", "threw", "returned"} : connect' = [connect EXCEPT ![a] = v]
    BY <1>1
  <2>4. /\ connect' \in [Adapters -> {"unused", "returned", "threw"} \cup {"listing", "starting"}]
        /\ \A b \in Adapters \ {a} : connect'[b] = connect[b]
        /\ connect'[a] # "unused"
    BY <1>t, <2>3, Updated
  <2>5. release' = release
    BY <1>1
  <2>q. QED BY <1>t, <2>2, <2>4, <2>5 DEF Typed, Elsewhere
<1> USE DEF SocketCanInv, SocketCanTypes
<1>2. a \notin met => release[a] = "unused"
  BY <1>1 DEF CallsInOrder, Pending
<1>4. CallsInOrder({"listing", "starting"}, {"exiting"})'
  BY <1>1, <1>2, <1>3, CallsGoOn
<1>5. fields' = fields \/ fields' = [fields EXCEPT ![a].candump = TRUE, ![a].listening = TRUE]
  BY <1>1
<1>6. /\ fields' \in [Adapters -> [candump : BOOLEAN, listening : BOOLEAN,
                                   disconnecting : BOOLEAN]]
      /\ \A b \in Adapters \ {a} : fields'[b] = fields[b]
  <2> HIDE DEF SocketCanInv, SocketCanTypes
  <2>1. CASE fields' = fields
    BY <1>t, <2>1
  <2>2. CASE fields' = [fields EXCEPT ![a].candump = TRUE, ![a].listening = TRUE]
    <3>1. fields' = [fields EXCEPT ![a] = [fields[a] EXCEPT !.candump = TRUE, !.listening = TRUE]]
      BY <1>t, <2>2
    <3>2. [fields[a] EXCEPT !.candump = TRUE, !.listening = TRUE]
             \in [candump : BOOLEAN, listening : BOOLEAN, disconnecting : BOOLEAN]
      <4> DEFINE had == fields[a]
      <4>1. had \in [candump : BOOLEAN, listening : BOOLEAN, disconnecting : BOOLEAN]
        BY <1>t
      <4> HIDE DEF had
      <4>2. [had EXCEPT !.candump = TRUE, !.listening = TRUE]
               \in [candump : BOOLEAN, listening : BOOLEAN, disconnecting : BOOLEAN]
        BY <4>1
      <4>q. QED BY <4>2 DEF had
    <3>q. QED BY <1>t, <3>1, <3>2, Updated
  <2>q. QED BY <1>5, <2>1, <2>2
<1>7. /\ native' \in [Adapters -> {"none", "running", "exited"}]
      /\ \A b \in Adapters \ {a} : native'[b] = native[b]
  BY <1>1
<1>8. a \notin met' => SocketCanObject(a)'
  <2>1. CASE UNCHANGED <<state, fields, native>> /\ connect' = [connect EXCEPT ![a] = "starting"]
    BY <1>1, <1>2, <2>1 DEF SocketCanObject, CallsInOrder
  <2>2. CASE connect' = [connect EXCEPT ![a] = "threw"]
    BY <1>1, <1>2, <2>2 DEF SocketCanObject, CallsInOrder
  <2>3. CASE connect' = [connect EXCEPT ![a] = "returned"]
    BY <1>1, <1>2, <2>3 DEF SocketCanObject, CallsInOrder
  <2>q. QED BY <1>1, <2>1, <2>2, <2>3
<1>q. QED BY <1>1, <1>3, <1>4, <1>6, <1>7, <1>8, SocketCanKept DEF OutsideOf

LEMMA SocketCanReleasing ==
    ASSUME SocketCanInv, NEW a \in Adapters, SocketCan!Disconnect(a) \/ SocketCan!Ended(a)
    PROVE  SocketCanInv'
<1>1. CASE SocketCan!Disconnect(a)
  <2>1. /\ connect[a] # "unused" /\ release[a] = "unused"
        /\ met' = met \cup IF Pending(a) THEN {a} ELSE {}
        /\ UNCHANGED <<connect, made, unheard, native>>
        /\ \/ state' = state /\ fields' = fields /\ ~fields[a].candump
              /\ state[a] = "disconnected" /\ release' = [release EXCEPT ![a] = "over"]
           \/ /\ fields' = [fields EXCEPT ![a] = [SocketCan!Fresh EXCEPT !.disconnecting = TRUE]]
              /\ \/ release' = [release EXCEPT ![a] = "exiting"] /\ state' = state
                    /\ fields[a].candump
                 \/ release' = [release EXCEPT ![a] = "over"] /\ ~fields[a].candump
                    /\ state' = [state EXCEPT ![a] = "disconnected"]
    BY <1>1 DEF SocketCan!Disconnect, SocketCan!Called, SocketCan!Pending, Pending,
       SocketCan!Wait, SocketCan!Ends, SocketCan!Show
  <2> USE DEF SocketCanInv, SocketCanTypes
  <2>2. a \notin met' => ~Pending(a) /\ a \notin met
    BY <2>1
  <2>3. Typed({"listing", "starting"}, {"exiting"}) /\ Elsewhere(a) /\ connect'[a] # "unused"
    <3>1. state' \in [Adapters -> States] /\ \A b \in Adapters \ {a} : state'[b] = state[b]
      BY <2>1 DEF CallsInOrder, States
    <3>2. /\ release' \in [Adapters -> {"unused", "over"} \cup {"exiting"}]
          /\ \A b \in Adapters \ {a} : release'[b] = release[b]
      <4>1. \E v \in {"exiting", "over"} : release' = [release EXCEPT ![a] = v]
        BY <2>1
      <4>2. release \in [Adapters -> {"unused", "over"} \cup {"exiting"}]
        BY DEF CallsInOrder
      <4> HIDE DEF SocketCanInv, SocketCanTypes
      <4>q. QED BY <4>1, <4>2, Updated
    <3>q. QED BY <2>1, <3>1, <3>2 DEF CallsInOrder, Typed, Elsewhere
  <2>4. CallsInOrder({"listing", "starting"}, {"exiting"})'
    BY <2>1, <2>2, <2>3, CallsGoOn DEF Pending
  <2>5. /\ fields' \in [Adapters -> [candump : BOOLEAN, listening : BOOLEAN,
                                     disconnecting : BOOLEAN]]
        /\ \A b \in Adapters \ {a} : fields'[b] = fields[b]
    <3> DEFINE put == [SocketCan!Fresh EXCEPT !.disconnecting = TRUE]
    <3>1. put \in [candump : BOOLEAN, listening : BOOLEAN, disconnecting : BOOLEAN]
      BY DEF SocketCan!Fresh
    <3>2. fields' = fields \/ fields' = [fields EXCEPT ![a] = put]
      BY <2>1
    <3>3. fields \in [Adapters -> [candump : BOOLEAN, listening : BOOLEAN,
                                   disconnecting : BOOLEAN]]
      OBVIOUS
    <3> HIDE DEF put, SocketCanInv, SocketCanTypes
    <3>q. QED BY <3>1, <3>2, <3>3, Updated
  <2>6. a \notin met' => SocketCanObject(a)'
    <3>1. /\ a \notin met' => connect[a] \in {"returned", "threw"} /\ SocketCanObject(a)
          /\ connect' = connect /\ native' = native
      BY <2>1, <2>2 DEF CallsInOrder, Pending
    <3>2. CASE release'[a] = "exiting"
      <4>1. fields[a].candump /\ state'[a] = state[a]
        BY <2>1, <3>2 DEF CallsInOrder
      <4>q. QED BY <3>1, <3>2, <4>1 DEF SocketCanObject
    <3>3. CASE release'[a] # "exiting"
      <4>1. /\ ~fields[a].candump /\ ~fields'[a].candump /\ release'[a] = "over"
            /\ state'[a] = "disconnected"
        BY <2>1, <3>3 DEF CallsInOrder, SocketCan!Fresh
      <4>q. QED BY <2>1, <3>1, <4>1 DEF SocketCanObject
    <3>q. QED BY <3>2, <3>3
  <2>q. QED BY <2>1, <2>3, <2>4, <2>5, <2>6, SocketCanKept DEF OutsideOf
<1>2. CASE SocketCan!Ended(a)
  <2>1. /\ release[a] = "exiting" /\ release' = [release EXCEPT ![a] = "over"]
        /\ state' = [state EXCEPT ![a] = "disconnected"]
        /\ native' = [native EXCEPT ![a] = "exited"]
        /\ UNCHANGED <<connect, made, met, unheard, fields>>
    BY <1>2 DEF SocketCan!Ended, SocketCan!Is, SocketCan!Wait, SocketCan!Ends, SocketCan!Show,
                SocketCan!Quiet
  <2> USE DEF SocketCanInv, SocketCanTypes
  <2>3. Typed({"listing", "starting"}, {"exiting"}) /\ Elsewhere(a)
    BY <2>1 DEF CallsInOrder, Typed, Elsewhere, States
  <2>4. CallsInOrder({"listing", "starting"}, {"exiting"})'
    BY <2>1, <2>3, CallsGoOn DEF Pending, CallsInOrder
  <2>6. SocketCanTypes' /\ OutsideOf(a)
    BY <2>1, <2>4 DEF OutsideOf
  <2>7. a \notin met' => SocketCanObject(a)'
    BY <2>1 DEF SocketCanObject, CallsInOrder, Pending
  <2>q. QED BY <2>1, <2>3, <2>6, <2>7, SocketCanKept
<1>q. QED BY <1>1, <1>2

LEMMA SocketCanFaults ==
    ASSUME SocketCanInv, NEW a \in Adapters,
           SocketCan!ProcessExits(a) \/ SocketCan!StreamError(a)
    PROVE  SocketCanInv'
<1>1. /\ native[a] = "running" /\ UNCHANGED <<connect, release, fields, made, met>>
      /\ unheard' \subseteq unheard \cup {a}
      /\ native' = native \/ native' = [native EXCEPT ![a] = "exited"]
      /\ \/ state' = state /\ fields[a].disconnecting
         \/ \E s \in {"error", "disconnected"} : state' = [state EXCEPT ![a] = s]
  BY DEF SocketCan!ProcessExits, SocketCan!StreamError, SocketCan!Fault, SocketCan!Show
<1> USE DEF SocketCanInv, SocketCanTypes
<1>2. state' \in [Adapters -> States] /\ \A b \in Adapters \ {a} : state'[b] = state[b]
  BY <1>1 DEF CallsInOrder, States
<1>3. Typed({"listing", "starting"}, {"exiting"}) /\ Elsewhere(a)
  BY <1>1, <1>2 DEF CallsInOrder, Typed, Elsewhere
<1>4. connect[a] # "unused" /\ (a \notin met => connect[a] = "returned")
  BY <1>1, BoundsAssumption DEF CallsInOrder, SocketCanObject, Adapters
<1>5. CallsInOrder({"listing", "starting"}, {"exiting"})'
  BY <1>1, <1>3, <1>4, CallsGoOn DEF Pending
<1>6. SocketCanTypes' /\ OutsideOf(a)
  BY <1>1, <1>5 DEF OutsideOf
<1>7. a \notin met' => SocketCanObject(a)'
  BY <1>1, <1>4 DEF SocketCanObject, CallsInOrder
<1>q. QED BY <1>1, <1>3, <1>6, <1>7, SocketCanKept

LEMMA SocketCanStep ==
    ASSUME SocketCanInv, NEW a \in Adapters,
           SocketCan!ConnectStep(a) \/ SocketCan!ReleaseStep(a) \/ SocketCan!Event(a)
    PROVE  SocketCanInv'
  BY SocketCanConnects, SocketCanConnecting, SocketCanReleasing, SocketCanFaults
     DEF SocketCan!ConnectStep, SocketCan!ReleaseStep, SocketCan!Event

LEMMA SocketCanPromise ==
    ASSUME SocketCanInv, kind = "socketcan" PROVE KeepsPromise
  BY DEF KeepsPromise, InUse, Holds, SocketCan!InUse, SocketCan!Holds, SocketCanInv,
         SocketCanObject, SocketCanTypes, CallsInOrder, Pending

-----------------------------------------------------------------------------
LEMMA SlcanInit == ASSUME Slcan!Init PROVE SlcanInv
  BY BoundsAssumption DEF Slcan!Init, Slcan!InitWith, Slcan!Adapters, Adapters, Slcan!Fresh,
     SlcanInv, SlcanTypes, SlcanObject, CallsInOrder, States, Pending

LEMMA SlcanKept ==
    ASSUME SlcanInv, NEW a \in Adapters, SlcanTypes', met \subseteq met',
           unheard \subseteq unheard',
           Elsewhere(a), OutsideOf(a), a \notin met' => SlcanObject(a)'
    PROVE  SlcanInv'
<1>1. ASSUME NEW b \in Adapters, b \notin met', b # a PROVE SlcanObject(b)'
  BY <1>1 DEF SlcanInv, SlcanObject, Elsewhere, OutsideOf
<1>q. QED BY <1>1 DEF SlcanInv

LEMMA SlcanConnects ==
    ASSUME SlcanInv, NEW a \in Adapters, Slcan!Connect(a) PROVE SlcanInv'
<1>1. /\ a = made + 1 /\ made' = a /\ UNCHANGED <<met, unheard, release>>
      /\ \/ /\ connect' = [connect EXCEPT ![a] = "C"]
            /\ state' = [state EXCEPT ![a] = "connecting"]
            /\ fields' = [fields EXCEPT ![a] = [port |-> TRUE, listening |-> TRUE]]
            /\ native' = [native EXCEPT ![a] = "open"]
         \/ /\ connect' = [connect EXCEPT ![a] = "threw"]
            /\ state' = [state EXCEPT ![a] = "error"] /\ UNCHANGED <<fields, native>>
  BY DEF Slcan!Connect, Slcan!Begin, Slcan!Show, Slcan!Go
<1> USE DEF SlcanInv, SlcanTypes
<1>2. a \notin met /\ connect[a] = "unused" /\ release[a] = "unused"
  BY <1>1, BoundsAssumption DEF CallsInOrder, Adapters
<1>3. Typed({"C", "S", "O", "closing"}, {"closing"}) /\ Elsewhere(a) /\ connect'[a] # "unused"
  <2>1. state' \in [Adapters -> States] /\ \A b \in Adapters \ {a} : state'[b] = state[b]
    BY <1>1 DEF CallsInOrder, States
  <2>2. /\ connect' \in [Adapters -> {"unused", "returned", "threw"}
                                     \cup {"C", "S", "O", "closing"}]
        /\ \A b \in Adapters \ {a} : connect'[b] = connect[b]
        /\ connect'[a] # "unused"
    BY <1>1 DEF CallsInOrder
  <2>q. QED BY <1>1, <2>1, <2>2 DEF CallsInOrder, Typed, Elsewhere
<1>4. CallsInOrder({"C", "S", "O", "closing"}, {"closing"})'
  BY <1>1, <1>3, CallsBegin
<1>5. SlcanTypes' /\ OutsideOf(a)
  <2>1. \/ fields' = fields
        \/ fields' = [fields EXCEPT ![a] = [port |-> TRUE, listening |-> TRUE]]
    BY <1>1
  <2>2. native' = native \/ native' = [native EXCEPT ![a] = "open"]
    BY <1>1
  <2>3. /\ fields' \in [Adapters -> [port : BOOLEAN, listening : BOOLEAN]]
        /\ \A b \in Adapters \ {a} : fields'[b] = fields[b]
    <3>1. CASE fields' = [fields EXCEPT ![a] = [port |-> TRUE, listening |-> TRUE]]
      <4>1. [port |-> TRUE, listening |-> TRUE] \in [port : BOOLEAN, listening : BOOLEAN]
        OBVIOUS
      <4>q. QED BY <3>1, <4>1
    <3>q. QED BY <2>1, <3>1
  <2>q. QED BY <1>4, <2>2, <2>3 DEF OutsideOf
<1>6. SlcanObject(a)'
  BY <1>1, <1>2 DEF SlcanObject, CallsInOrder
<1>q. QED BY <1>1, <1>3, <1>5, <1>6, SlcanKept

(* A disconnect() that either task runs goes on, or ends.                  *)
LEMMA SlcanStops ==
    ASSUME SlcanInv, NEW a \in Adapters, NEW t \in {"connect", "release"},
           Slcan!Stop(a, t) \/ Slcan!Finish(a, t),
           connect[a] # "unused", made' = made, met \subseteq met', met' \subseteq met \cup {a},
           unheard' = unheard,
           a \notin met' => IF t = "connect" THEN Pending(a) ELSE ~Pending(a)
    PROVE  SlcanInv'
<1>1. /\ \/ t = "connect" /\ release' = release
            /\ \/ connect' = [connect EXCEPT ![a] = "threw"]
               \/ connect' = [connect EXCEPT ![a] = "closing"] /\ Slcan!CanWrite(a)
         \/ t = "release" /\ connect' = connect
            /\ \/ release' = [release EXCEPT ![a] = "over"]
               \/ release' = [release EXCEPT ![a] = "closing"] /\ Slcan!CanWrite(a)
      /\ \/ /\ fields' = [fields EXCEPT ![a] = Slcan!Fresh]
            /\ native' = [native EXCEPT ![a] = "closed"]
            /\ state' = [state EXCEPT ![a] = "disconnected"]
         \/ UNCHANGED <<state, fields, native>> /\ ~(t = "connect" /\ connect'[a] = "threw")
            /\ ~(t = "release" /\ release'[a] = "over")
  BY DEF Slcan!Stop, Slcan!Finish, Slcan!Wait, Slcan!Go, Slcan!Ends, Slcan!Show, SlcanInv,
         SlcanTypes, CallsInOrder
<1> USE DEF SlcanInv, SlcanTypes
<1>3. Typed({"C", "S", "O", "closing"}, {"closing"}) /\ Elsewhere(a) /\ connect'[a] # "unused"
  <2>1. state' \in [Adapters -> States] /\ \A b \in Adapters \ {a} : state'[b] = state[b]
    BY <1>1 DEF CallsInOrder, States
  <2>2. /\ connect' \in [Adapters -> {"unused", "returned", "threw"}
                                     \cup {"C", "S", "O", "closing"}]
        /\ \A b \in Adapters \ {a} : connect'[b] = connect[b]
        /\ connect'[a] # "unused"
    <3>1. \/ connect' = connect
          \/ connect' = [connect EXCEPT ![a] = "threw"]
          \/ connect' = [connect EXCEPT ![a] = "closing"]
      BY <1>1
    <3>q. QED BY <3>1 DEF CallsInOrder
  <2>3. /\ release' \in [Adapters -> {"unused", "over"} \cup {"closing"}]
        /\ \A b \in Adapters \ {a} : release'[b] = release[b]
    <3>1. release' = release \/ \E v \in {"closing", "over"} : release' = [release EXCEPT ![a] = v]
      BY <1>1
    <3>2. release \in [Adapters -> {"unused", "over"} \cup {"closing"}]
      BY DEF CallsInOrder
    <3> HIDE DEF SlcanInv, SlcanTypes
    <3>q. QED BY <3>1, <3>2, Updated
  <2>q. QED BY <2>1, <2>2, <2>3 DEF Typed, Elsewhere
<1>4. a \notin met' /\ release'[a] # "unused" => ~Pending(a)'
  BY <1>1 DEF CallsInOrder, Pending
<1>5. CallsInOrder({"C", "S", "O", "closing"}, {"closing"})'
  BY <1>3, <1>4, CallsGoOn
<1>6. /\ fields' \in [Adapters -> [port : BOOLEAN, listening : BOOLEAN]]
      /\ \A b \in Adapters \ {a} : fields'[b] = fields[b]
  <2>1. fields' = fields \/ fields' = [fields EXCEPT ![a] = Slcan!Fresh]
    BY <1>1
  <2>2. Slcan!Fresh \in [port : BOOLEAN, listening : BOOLEAN]
    BY DEF Slcan!Fresh
  <2>q. QED BY <2>1, <2>2
<1>7. /\ native' \in [Adapters -> {"closed", "open", "lost"}]
      /\ \A b \in Adapters \ {a} : native'[b] = native[b]
  BY <1>1
<1>8. ASSUME a \notin met' PROVE SlcanObject(a)'
  <2>1. SlcanObject(a) /\ a \notin met /\ (release[a] # "unused" => ~Pending(a))
    BY <1>8 DEF CallsInOrder
  <2>2. CASE t = "connect"
    <3>1. Pending(a) /\ release'[a] = "unused"
      BY <1>1, <1>8, <2>1, <2>2
    <3>2. CASE connect'[a] = "threw"
      <4>1. native'[a] = "closed" /\ state'[a] = "disconnected"
        BY <1>1, <2>2, <3>2 DEF CallsInOrder
      <4>q. QED BY <3>1, <3>2, <4>1 DEF SlcanObject
    <3>3. CASE connect'[a] = "closing"
      BY <1>1, <2>1, <2>2, <3>1, <3>3 DEF SlcanObject, Pending, CallsInOrder
    <3>q. QED BY <1>1, <2>2, <3>2, <3>3 DEF CallsInOrder
  <2>3. CASE t = "release"
    <3>1. connect[a] \in {"returned", "threw"} /\ connect' = connect
      BY <1>1, <1>8, <2>3 DEF Pending, CallsInOrder
    <3>2. CASE release'[a] = "over"
      <4>1. native'[a] = "closed" /\ state'[a] = "disconnected"
        BY <1>1, <2>3, <3>2 DEF CallsInOrder
      <4>q. QED BY <3>1, <3>2, <4>1 DEF SlcanObject
    <3>3. CASE release'[a] = "closing"
      BY <1>1, <2>1, <2>3, <3>1, <3>3 DEF SlcanObject, CallsInOrder, Slcan!CanWrite
    <3>q. QED BY <1>1, <2>3, <3>2, <3>3 DEF CallsInOrder
  <2>q. QED BY <2>2, <2>3
<1>q. QED BY <1>3, <1>5, <1>6, <1>7, <1>8, SlcanKept DEF OutsideOf

(* The commands are written one after the other.                           *)
LEMMA SlcanConnecting ==
    ASSUME SlcanInv, NEW a \in Adapters, Slcan!ConnectStep(a) PROVE SlcanInv'
<1>1. CASE \/ Slcan!Command(a, "C", "S") /\ ~Slcan!Stop(a, "connect")
           \/ Slcan!Command(a, "S", "O") /\ ~Slcan!Stop(a, "connect")
           \/ Slcan!Connected(a)
  <2>1. /\ UNCHANGED <<release, fields, native, made, met, unheard>>
        /\ connect[a] \in {"C", "S", "O"}
        /\ \/ \E l \in {"S", "O"} : connect' = [connect EXCEPT ![a] = l] /\ state' = state
           \/ /\ connect' = [connect EXCEPT ![a] = "returned"]
              /\ state' = [state EXCEPT ![a] = "connected"]
    BY <1>1 DEF Slcan!Command, Slcan!Connected, Slcan!At, Slcan!Go, Slcan!Show, Slcan!Quiet
  <2> USE DEF SlcanInv, SlcanTypes
  <2>2. Typed({"C", "S", "O", "closing"}, {"closing"}) /\ Elsewhere(a) /\ connect'[a] # "unused"
    <3>1. state' \in [Adapters -> States] /\ \A b \in Adapters \ {a} : state'[b] = state[b]
      BY <2>1 DEF CallsInOrder, States
    <3>2. /\ connect' \in [Adapters -> {"unused", "returned", "threw"}
                                       \cup {"C", "S", "O", "closing"}]
          /\ \A b \in Adapters \ {a} : connect'[b] = connect[b]
          /\ connect'[a] \in {"S", "O", "returned"}
      BY <2>1 DEF CallsInOrder
    <3>q. QED BY <2>1, <3>1, <3>2 DEF CallsInOrder, Typed, Elsewhere
  <2>3. a \notin met => release[a] = "unused"
    BY <2>1 DEF CallsInOrder, Pending
  <2>4. CallsInOrder({"C", "S", "O", "closing"}, {"closing"})'
    BY <2>1, <2>2, <2>3, CallsGoOn
  <2>5. SlcanTypes' /\ OutsideOf(a)
    BY <2>1, <2>4 DEF OutsideOf
  <2>6. a \notin met' => SlcanObject(a)'
    BY <2>1, <2>3 DEF SlcanObject, CallsInOrder
  <2>q. QED BY <2>1, <2>2, <2>5, <2>6, SlcanKept
<1>2. CASE Slcan!Stopped(a, "connect") \/ Slcan!Stop(a, "connect")
  <2>1. /\ Slcan!Stop(a, "connect") \/ Slcan!Finish(a, "connect")
        /\ connect[a] \in {"C", "S", "O", "closing"} /\ UNCHANGED <<made, met, unheard>>
    BY <1>2 DEF Slcan!ConnectStep, Slcan!Command, Slcan!WriteFails, Slcan!Stopped, Slcan!Is,
                Slcan!At, Slcan!Quiet, Slcan!Connected
  <2>q. QED BY <2>1, SlcanStops DEF Pending
<1>q. QED BY <1>1, <1>2 DEF Slcan!ConnectStep

LEMMA SlcanReleasing ==
    ASSUME SlcanInv, NEW a \in Adapters, Slcan!Disconnect(a) \/ Slcan!ReleaseStep(a)
    PROVE  SlcanInv'
<1>1. /\ Slcan!Stop(a, "release") \/ Slcan!Finish(a, "release")
      /\ UNCHANGED <<made, unheard>> /\ met \subseteq met' /\ met' \subseteq met \cup {a}
      /\ \/ connect[a] # "unused" /\ (a \notin met' => ~Pending(a))
         \/ release[a] = "closing" /\ met' = met
  BY DEF Slcan!Disconnect, Slcan!Called, Slcan!ReleaseStep, Slcan!Stopped, Slcan!Is,
         Slcan!Quiet, Slcan!Pending, Pending
<1>2. connect[a] # "unused" /\ (a \notin met' => ~Pending(a))
  BY <1>1 DEF SlcanInv, SlcanTypes, CallsInOrder
<1>q. QED BY <1>1, <1>2, SlcanStops

LEMMA SlcanUnplugged ==
    ASSUME SlcanInv, NEW a \in Adapters, Slcan!Unplugged(a) PROVE SlcanInv'
<1>1. /\ native[a] = "open" /\ UNCHANGED <<connect, release, fields, made, met>>
      /\ unheard' = unheard \cup IF Pending(a) THEN {a} ELSE {}
      /\ native' = [native EXCEPT ![a] = "lost"]
      /\ state' = IF fields[a].listening THEN [state EXCEPT ![a] = "error"] ELSE state
  BY DEF Slcan!Unplugged, Slcan!Fault, Slcan!Show, Slcan!Pending, Pending
<1> USE DEF SlcanInv, SlcanTypes
<1>2. state' \in [Adapters -> States] /\ \A b \in Adapters \ {a} : state'[b] = state[b]
  BY <1>1 DEF CallsInOrder, States
<1>3. Typed({"C", "S", "O", "closing"}, {"closing"}) /\ Elsewhere(a)
  BY <1>1, <1>2 DEF CallsInOrder, Typed, Elsewhere
<1>4. connect[a] # "unused"
  BY <1>1, BoundsAssumption DEF CallsInOrder, SlcanObject, Adapters
<1>5. CallsInOrder({"C", "S", "O", "closing"}, {"closing"})'
  BY <1>1, <1>3, <1>4, CallsGoOn DEF Pending, CallsInOrder
<1>6. SlcanTypes' /\ OutsideOf(a)
  BY <1>1, <1>5 DEF OutsideOf
<1>7. a \notin met' => SlcanObject(a)'
  BY <1>1, <1>4 DEF SlcanObject, CallsInOrder, Pending
<1>q. QED BY <1>1, <1>3, <1>6, <1>7, SlcanKept

LEMMA SlcanStep ==
    ASSUME SlcanInv, NEW a \in Adapters,
           Slcan!ConnectStep(a) \/ Slcan!ReleaseStep(a) \/ Slcan!Event(a)
    PROVE  SlcanInv'
  BY SlcanConnects, SlcanConnecting, SlcanReleasing, SlcanUnplugged DEF Slcan!Event

LEMMA SlcanPromise ==
    ASSUME SlcanInv, kind = "slcan" PROVE KeepsPromise
  BY DEF KeepsPromise, InUse, Holds, Slcan!InUse, Slcan!Holds, SlcanInv, SlcanObject,
         SlcanTypes, CallsInOrder, Pending

-----------------------------------------------------------------------------
(* The helpers of the OBDLink MX+ and of the vLinker MS on Windows.        *)
LEMMA HelperInit ==
    ASSUME Obdlink!Init \/ VlinkerWindows!Init PROVE HelperInv
<1>1. /\ made = 0 /\ met = {} /\ unheard = {}
      /\ state = [a \in Adapters |-> "disconnected"]
      /\ connect = [a \in Adapters |-> "unused"]
      /\ release = [a \in Adapters |-> "unused"]
      /\ fields = [a \in Adapters |-> [process |-> FALSE, monitoring |-> FALSE,
                                       disconnecting |-> FALSE, first |-> FALSE, left |-> 0]]
      /\ native = [a \in Adapters |-> "none"]
  BY DEF Obdlink!Init, Obdlink!InitWith, Obdlink!Adapters, Obdlink!Fresh, VlinkerWindows!Init,
         VlinkerWindows!InitWith, VlinkerWindows!Adapters, VlinkerWindows!Fresh, Adapters
<1>2. CallsInOrder(HelperWork, {"exiting"})
  BY <1>1, BoundsAssumption DEF CallsInOrder, States, Pending, Adapters
<1>3. fields \in [Adapters -> HelperFields]
  BY <1>1 DEF HelperFields
<1>q. QED BY <1>1, <1>2, <1>3 DEF HelperInv, HelperTypes, HelperObject

LEMMA HelperKept ==
    ASSUME HelperInv, NEW a \in Adapters, HelperTypes', met \subseteq met',
           unheard \subseteq unheard',
           Elsewhere(a), OutsideOf(a), a \notin met' => HelperObject(a)'
    PROVE  HelperInv'
<1>1. ASSUME NEW b \in Adapters, b \notin met', b # a PROVE HelperObject(b)'
  BY <1>1 DEF HelperInv, HelperObject, Elsewhere, OutsideOf
<1>q. QED BY <1>1 DEF HelperInv

LEMMA HelperConnects ==
    ASSUME HelperInv, NEW a \in Adapters, Obdlink!Connect(a) \/ VlinkerWindows!Connect(a)
    PROVE  HelperInv'
<1>1. /\ a = made + 1 /\ made' = a /\ UNCHANGED <<met, unheard, release, native>>
      /\ connect' = [connect EXCEPT ![a] = "starting"]
      /\ state' = [state EXCEPT ![a] = "connecting"]
      /\ fields' = [fields EXCEPT ![a].first = TRUE]
  BY DEF Obdlink!Connect, Obdlink!Begin, Obdlink!Show, Obdlink!Go, VlinkerWindows!Connect,
         VlinkerWindows!Begin, VlinkerWindows!Show, VlinkerWindows!Go
<1> USE DEF HelperInv, HelperTypes
<1>2. a \notin met /\ connect[a] = "unused" /\ release[a] = "unused"
  BY <1>1, BoundsAssumption DEF CallsInOrder, Adapters
<1>3. Typed(HelperWork, {"exiting"}) /\ Elsewhere(a) /\ connect'[a] # "unused"
  BY <1>1 DEF CallsInOrder, States, Typed, Elsewhere, HelperWork
<1>4. CallsInOrder(HelperWork, {"exiting"})'
  BY <1>1, <1>3, CallsBegin
<1>5. HelperTypes' /\ OutsideOf(a)
  <2>1. [fields[a] EXCEPT !.first = TRUE] \in HelperFields
    BY DEF HelperFields
  <2>2. fields' = [fields EXCEPT ![a] = [fields[a] EXCEPT !.first = TRUE]] /\ native' = native
    BY <1>1
  <2>3. fields' \in [Adapters -> HelperFields] /\ \A b \in Adapters \ {a} : fields'[b] = fields[b]
    BY <2>1, <2>2
  <2>q. QED BY <1>4, <2>2, <2>3 DEF OutsideOf
<1>6. HelperObject(a)'
  <2>1. /\ fields'[a].process = fields[a].process
        /\ fields'[a].disconnecting = fields[a].disconnecting
        /\ connect'[a] = "starting" /\ state'[a] = "connecting"
        /\ native'[a] = native[a] /\ release'[a] = "unused"
    BY <1>1, <1>2 DEF CallsInOrder, HelperFields
  <2>q. QED BY <1>2, <2>1 DEF HelperObject
<1>q. QED BY <1>1, <1>3, <1>5, <1>6, HelperKept

(* A disconnect() that either task runs waits for the exit, or ends.       *)
LEMMA HelperStops ==
    ASSUME HelperInv, NEW a \in Adapters, NEW t \in {"connect", "release"},
           \/ Obdlink!Stop(a, t) \/ Obdlink!Finish(a, t)
           \/ VlinkerWindows!Stop(a, t) \/ VlinkerWindows!Finish(a, t),
           connect[a] # "unused", made' = made, met \subseteq met', met' \subseteq met \cup {a},
           unheard' = unheard,
           a \notin met' => IF t = "connect" THEN Pending(a) ELSE ~Pending(a)
    PROVE  HelperInv'
<1> USE DEF HelperInv, HelperTypes
<1>1. \/ /\ fields[a].process /\ UNCHANGED <<state, native>>
         /\ fields' = [fields EXCEPT ![a].disconnecting = TRUE]
         /\ \/ t = "connect" /\ release' = release
               /\ connect' = [connect EXCEPT ![a] = "exiting"]
            \/ t = "release" /\ connect' = connect
               /\ release' = [release EXCEPT ![a] = "exiting"]
      \/ /\ native' = IF fields[a].process THEN [native EXCEPT ![a] = "exited"] ELSE native
         /\ fields' = [fields EXCEPT ![a] = [Obdlink!Fresh EXCEPT !.disconnecting = TRUE]]
         /\ state' = [state EXCEPT ![a] = "disconnected"]
         /\ \/ t = "connect" /\ release' = release
               /\ connect' = [connect EXCEPT ![a] = "threw"]
            \/ t = "release" /\ connect' = connect
               /\ release' = [release EXCEPT ![a] = "over"]
  BY DEF Obdlink!Stop, Obdlink!Finish, Obdlink!Wait, Obdlink!Go, Obdlink!Ends, Obdlink!Show,
         VlinkerWindows!Stop, VlinkerWindows!Finish, VlinkerWindows!Wait, VlinkerWindows!Go,
         VlinkerWindows!Ends, VlinkerWindows!Show, Obdlink!Fresh, VlinkerWindows!Fresh
<1>2. Typed(HelperWork, {"exiting"}) /\ Elsewhere(a) /\ connect'[a] # "unused"
  <2>1. state' \in [Adapters -> States] /\ \A b \in Adapters \ {a} : state'[b] = state[b]
    BY <1>1 DEF CallsInOrder, States
  <2>2. /\ connect' \in [Adapters -> {"unused", "returned", "threw"} \cup HelperWork]
        /\ \A b \in Adapters \ {a} : connect'[b] = connect[b]
        /\ connect'[a] # "unused"
    BY <1>1 DEF CallsInOrder, HelperWork
  <2>3. /\ release' \in [Adapters -> {"unused", "over"} \cup {"exiting"}]
        /\ \A b \in Adapters \ {a} : release'[b] = release[b]
    BY <1>1 DEF CallsInOrder
  <2>q. QED BY <2>1, <2>2, <2>3 DEF Typed, Elsewhere
<1>3. a \notin met' /\ release'[a] # "unused" => ~Pending(a)'
  BY <1>1 DEF CallsInOrder, Pending
<1>4. CallsInOrder(HelperWork, {"exiting"})'
  BY <1>2, <1>3, CallsGoOn
<1>5. fields' \in [Adapters -> HelperFields] /\ \A b \in Adapters \ {a} : fields'[b] = fields[b]
  <2>1. \/ fields' = [fields EXCEPT ![a].disconnecting = TRUE]
        \/ fields' = [fields EXCEPT ![a] = [Obdlink!Fresh EXCEPT !.disconnecting = TRUE]]
    BY <1>1
  <2>2. [Obdlink!Fresh EXCEPT !.disconnecting = TRUE] \in HelperFields
    BY DEF Obdlink!Fresh, HelperFields
  <2>3. [fields[a] EXCEPT !.disconnecting = TRUE] \in HelperFields
    BY DEF HelperFields
  <2>q. QED BY <2>1, <2>2, <2>3
<1>6. /\ native' \in [Adapters -> {"none", "running", "exited"}]
      /\ \A b \in Adapters \ {a} : native'[b] = native[b]
  BY <1>1
<1>7. ASSUME a \notin met' PROVE HelperObject(a)'
  <2>1. HelperObject(a) /\ a \notin met /\ (release[a] # "unused" => ~Pending(a))
    BY <1>7 DEF CallsInOrder
  <2>2. CASE connect'[a] = "exiting"
    <3>1. t = "connect" /\ fields[a].process /\ state'[a] = state[a] /\ release'[a] = release[a]
      BY <1>1, <1>7, <2>2 DEF CallsInOrder, Pending
    <3>2. Pending(a) /\ release[a] = "unused" /\ fields'[a].process
      BY <1>1, <1>7, <2>1, <2>2, <3>1 DEF CallsInOrder, HelperFields
    <3>q. QED BY <2>1, <2>2, <3>1, <3>2 DEF HelperObject, Pending
  <2>3. CASE connect'[a] # "exiting" /\ release'[a] = "exiting"
    <3>1. t = "release" /\ fields[a].process /\ state'[a] = state[a] /\ connect'[a] = connect[a]
          /\ ~Pending(a) /\ native'[a] = native[a]
      BY <1>1, <1>7, <2>3, <2>1 DEF CallsInOrder, Pending
    <3>2. connect[a] = "returned" /\ fields'[a].process
      BY <1>1, <2>1, <2>3, <3>1 DEF CallsInOrder, HelperFields, HelperObject, Pending
    <3>q. QED BY <2>1, <2>3, <3>1, <3>2 DEF HelperObject
  <2>4. CASE connect'[a] # "exiting" /\ release'[a] # "exiting"
    <3>1. /\ fields'[a] = [Obdlink!Fresh EXCEPT !.disconnecting = TRUE]
          /\ state'[a] = "disconnected"
          /\ native'[a] = IF fields[a].process THEN "exited" ELSE native[a]
          /\ \/ t = "connect" /\ release'[a] = release[a] /\ connect'[a] = "threw"
             \/ t = "release" /\ connect'[a] = connect[a] /\ release'[a] = "over"
      <4>1. connect' # [connect EXCEPT ![a] = "exiting"]
            /\ release' # [release EXCEPT ![a] = "exiting"]
        BY <2>4 DEF CallsInOrder
      <4>2. /\ native' = IF fields[a].process THEN [native EXCEPT ![a] = "exited"] ELSE native
            /\ fields' = [fields EXCEPT ![a] = [Obdlink!Fresh EXCEPT !.disconnecting = TRUE]]
            /\ state' = [state EXCEPT ![a] = "disconnected"]
        BY <1>1, <4>1
      <4>3. \/ t = "connect" /\ release' = release /\ connect' = [connect EXCEPT ![a] = "threw"]
            \/ t = "release" /\ connect' = connect /\ release' = [release EXCEPT ![a] = "over"]
        BY <1>1, <4>1
      <4>4. \/ t = "connect" /\ release'[a] = release[a] /\ connect'[a] = "threw"
            \/ t = "release" /\ connect'[a] = connect[a] /\ release'[a] = "over"
        BY <4>3 DEF CallsInOrder
      <4>q. QED BY <4>2, <4>4 DEF CallsInOrder
    <3>2. ~fields'[a].process
      BY <3>1 DEF Obdlink!Fresh
    <3>3. native'[a] # "running"
      BY <2>1, <3>1, <1>7 DEF HelperObject, Pending, CallsInOrder, HelperWork
    <3>4. t = "connect" => release[a] = "unused"
      BY <1>7, <2>1
    <3>5. t = "release" => connect[a] \in {"returned", "threw"}
      BY <1>7 DEF Pending, CallsInOrder
    <3>q. QED BY <3>1, <3>2, <3>3, <3>4, <3>5 DEF HelperObject
  <2>q. QED BY <2>2, <2>3, <2>4
<1>q. QED BY <1>2, <1>4, <1>5, <1>6, <1>7, HelperKept DEF OutsideOf

(* The helper starts, answers the commands and delivers the first frame.   *)
LEMMA HelperConnecting ==
    ASSUME HelperInv, NEW a \in Adapters,
           \/ Obdlink!Started(a) \/ Obdlink!Prompt(a) \/ Obdlink!FirstFrame(a)
           \/ VlinkerWindows!Started(a) \/ VlinkerWindows!Prompt(a)
           \/ VlinkerWindows!FirstFrame(a)
    PROVE  HelperInv'
<1> USE DEF HelperInv, HelperTypes
<1>1. /\ UNCHANGED <<release, made, met>>
      /\ unheard' = unheard \/ unheard' = unheard \cup {a}
      /\ \/ connect[a] = "starting" /\ connect' = [connect EXCEPT ![a] = "ready"]
            /\ fields' = [fields EXCEPT ![a].process = TRUE]
            /\ native' = [native EXCEPT ![a] = "running"] /\ state' = state
         \/ connect[a] = "starting" /\ connect' = [connect EXCEPT ![a] = "threw"]
            /\ (state' = state \/ state' = [state EXCEPT ![a] = "error"])
            /\ UNCHANGED <<fields, native>>
         \/ connect[a] \in {"ready", "command"} /\ UNCHANGED <<state, native>>
            /\ connect' = [connect EXCEPT ![a] = "command"]
            /\ \E n \in Nat : fields' = [fields EXCEPT ![a].left = n]
         \/ connect[a] \in {"ready", "command"} /\ UNCHANGED <<state, native>>
            /\ connect' = [connect EXCEPT ![a] = "frame"]
            /\ fields' = [fields EXCEPT ![a].left = 0, ![a].monitoring = TRUE]
         \/ connect[a] = "frame" /\ connect' = [connect EXCEPT ![a] = "returned"]
            /\ fields[a].monitoring
            /\ state' = [state EXCEPT ![a] = "connected"] /\ native' = native
            /\ \/ fields' = fields
               \/ fields' = [fields EXCEPT ![a].monitoring = FALSE]
                  /\ unheard' = unheard \cup {a}
  <2>1. CASE Obdlink!Started(a) \/ VlinkerWindows!Started(a)
    BY <2>1 DEF Obdlink!Started, Obdlink!At, Obdlink!Go, Obdlink!Show, Obdlink!Quiet,
       VlinkerWindows!Started, VlinkerWindows!At, VlinkerWindows!Go, VlinkerWindows!Show,
       VlinkerWindows!Quiet
  <2>2. CASE Obdlink!Prompt(a) \/ VlinkerWindows!Prompt(a)
    <3> DEFINE left == IF connect[a] = "ready" THEN Commands ELSE fields[a].left - 1
    <3>1. left > 0 => left \in Nat
      BY BoundsAssumption DEF HelperFields
    <3>2. /\ connect[a] \in {"ready", "command"}
          /\ UNCHANGED <<state, native, release, made, met, unheard>>
          /\ \/ left > 0 /\ connect' = [connect EXCEPT ![a] = "command"]
                /\ fields' = [fields EXCEPT ![a].left = left]
             \/ /\ connect' = [connect EXCEPT ![a] = "frame"]
                /\ fields' = [fields EXCEPT ![a].left = 0, ![a].monitoring = TRUE]
      BY <2>2 DEF Obdlink!Prompt, Obdlink!At, Obdlink!Go, Obdlink!Quiet, VlinkerWindows!Prompt,
                  VlinkerWindows!At, VlinkerWindows!Go, VlinkerWindows!Quiet
    <3> HIDE DEF left
    <3>q. QED BY <3>1, <3>2
  <2>3. CASE Obdlink!FirstFrame(a) \/ VlinkerWindows!FirstFrame(a)
    BY <2>3 DEF Obdlink!FirstFrame, Obdlink!At, Obdlink!Go, Obdlink!Show, Obdlink!Quiet,
       Obdlink!Fault, Obdlink!Pending, VlinkerWindows!FirstFrame, VlinkerWindows!At,
       VlinkerWindows!Go, VlinkerWindows!Show, VlinkerWindows!Quiet, VlinkerWindows!Fault,
       VlinkerWindows!Pending
  <2>q. QED BY <2>1, <2>2, <2>3
<1>2. Typed(HelperWork, {"exiting"}) /\ Elsewhere(a) /\ connect'[a] # "unused"
  <2>1. state' \in [Adapters -> States] /\ \A b \in Adapters \ {a} : state'[b] = state[b]
    BY <1>1 DEF CallsInOrder, States
  <2>2. /\ connect' \in [Adapters -> {"unused", "returned", "threw"} \cup HelperWork]
        /\ \A b \in Adapters \ {a} : connect'[b] = connect[b]
        /\ connect'[a] # "unused"
    <3>1. \E l \in HelperWork \cup {"returned", "threw"} : connect' = [connect EXCEPT ![a] = l]
      BY <1>1 DEF HelperWork
    <3>q. QED BY <3>1 DEF CallsInOrder, HelperWork
  <2>q. QED BY <1>1, <2>1, <2>2 DEF CallsInOrder, Typed, Elsewhere
<1>3. Pending(a) /\ connect[a] # "unused"
  BY <1>1 DEF Pending
<1>4. CallsInOrder(HelperWork, {"exiting"})'
  <2>1. a \notin met' /\ release'[a] # "unused" => ~Pending(a)'
    BY <1>1, <1>3 DEF CallsInOrder
  <2>q. QED BY <1>1, <1>2, <1>3, <2>1, CallsGoOn
<1>5. fields' \in [Adapters -> HelperFields] /\ \A b \in Adapters \ {a} : fields'[b] = fields[b]
  <2>1. \/ fields' = fields \/ fields' = [fields EXCEPT ![a].process = TRUE]
        \/ \E n \in Nat : fields' = [fields EXCEPT ![a].left = n]
        \/ fields' = [fields EXCEPT ![a].left = 0, ![a].monitoring = TRUE]
        \/ fields' = [fields EXCEPT ![a].monitoring = FALSE]
    BY <1>1
  <2>2. CASE fields' = [fields EXCEPT ![a].left = 0, ![a].monitoring = TRUE]
    <3> DEFINE put == [fields[a] EXCEPT !.left = 0, !.monitoring = TRUE]
    <3>1. put \in HelperFields
      BY DEF HelperFields
    <3>2. fields' = [fields EXCEPT ![a] = put] /\ fields \in [Adapters -> HelperFields]
      BY <2>2
    <3> HIDE DEF put, HelperInv, HelperTypes
    <3>q. QED BY <3>1, <3>2, Updated
  <2>3. CASE \E n \in Nat : fields' = [fields EXCEPT ![a].left = n]
    BY <2>3 DEF HelperFields
  <2>4. CASE fields' = fields \/ fields' = [fields EXCEPT ![a].process = TRUE]
    <3> DEFINE put == [fields[a] EXCEPT !.process = TRUE]
    <3>1. put \in HelperFields
      BY DEF HelperFields
    <3>2. fields' = fields \/ fields' = [fields EXCEPT ![a] = put]
      BY <2>4
    <3>3. fields \in [Adapters -> HelperFields]
      OBVIOUS
    <3> HIDE DEF put, HelperInv, HelperTypes
    <3>q. QED BY <3>1, <3>2, <3>3, Updated
  <2>5. CASE fields' = [fields EXCEPT ![a].monitoring = FALSE]
    BY <2>5 DEF HelperFields
  <2>q. QED BY <2>1, <2>2, <2>3, <2>4, <2>5
<1>6. /\ native' \in [Adapters -> {"none", "running", "exited"}]
      /\ \A b \in Adapters \ {a} : native'[b] = native[b]
  BY <1>1
<1>7. ASSUME a \notin met' PROVE HelperObject(a)'
  <2>1. HelperObject(a) /\ a \notin met /\ release[a] = "unused" /\ release' = release
    BY <1>1, <1>3, <1>7 DEF CallsInOrder
  <2>2. CASE connect'[a] \in {"ready", "threw"}
    <3>1. /\ connect[a] = "starting" /\ state'[a] # "connected"
          /\ fields'[a].disconnecting = fields[a].disconnecting
          /\ \/ connect'[a] = "ready" /\ fields'[a].process /\ native'[a] = "running"
             \/ connect'[a] = "threw" /\ fields'[a].process = fields[a].process
                /\ native'[a] = native[a]
      BY <1>1, <2>1, <2>2 DEF CallsInOrder, HelperFields, HelperObject
    <3>q. QED BY <2>1, <3>1 DEF HelperObject
  <2>3. CASE connect'[a] \in {"command", "frame"}
    <3>1. /\ connect[a] \in {"ready", "command"} /\ state' = state /\ native' = native
          /\ fields'[a].disconnecting = fields[a].disconnecting
          /\ fields'[a].process = fields[a].process
      BY <1>1, <2>3 DEF CallsInOrder, HelperFields
    <3>q. QED BY <1>1, <2>1, <2>3, <3>1 DEF HelperObject
  <2>4. CASE connect'[a] = "returned"
    <3>1. /\ connect[a] = "frame" /\ native' = native /\ fields[a].monitoring
          /\ fields'[a].disconnecting = fields[a].disconnecting
          /\ fields'[a].process = fields[a].process
          /\ fields'[a].monitoring = fields[a].monitoring \/ a \in unheard'
      BY <1>1, <2>4 DEF CallsInOrder, HelperFields
    <3>q. QED BY <1>1, <2>1, <2>4, <3>1 DEF HelperObject
  <2>q. QED BY <1>1, <2>2, <2>3, <2>4 DEF CallsInOrder
<1>q. QED BY <1>1, <1>2, <1>4, <1>5, <1>6, <1>7, HelperKept DEF OutsideOf

(* The helper exits, its stream is in error, or the monitor ends.          *)
LEMMA HelperFaults ==
    ASSUME HelperInv, NEW a \in Adapters,
           \/ Obdlink!HelperExits(a) \/ Obdlink!MonitorEnds(a) \/ Obdlink!StreamError(a)
           \/ VlinkerWindows!HelperExits(a) \/ VlinkerWindows!MonitorEnds(a)
           \/ VlinkerWindows!StreamError(a)
    PROVE  HelperInv'
<1> USE DEF HelperInv, HelperTypes
<1>1. /\ native[a] = "running" /\ UNCHANGED <<connect, release, made, met>>
      /\ \/ unheard' = unheard /\ state' = [state EXCEPT ![a] = "error"]
         \/ unheard' = unheard \cup IF Pending(a) THEN {a} ELSE {}
      /\ native' = native \/ native' = [native EXCEPT ![a] = "exited"]
      /\ fields' = fields \/ fields' = [fields EXCEPT ![a].monitoring = FALSE]
      /\ \/ state' = state /\ (fields[a].disconnecting \/ state[a] = "disconnected")
            /\ fields' = fields
         \/ state' = [state EXCEPT ![a] = "error"]
      /\ unheard' = unheard => ~Pending(a) \/ a \in unheard \/ native' = native
  BY DEF Obdlink!HelperExits, Obdlink!MonitorEnds, Obdlink!StreamError, Obdlink!Fault,
         Obdlink!Show, Obdlink!Pending, Obdlink!Runs, VlinkerWindows!HelperExits,
         VlinkerWindows!MonitorEnds, VlinkerWindows!StreamError, VlinkerWindows!Fault,
         VlinkerWindows!Show, VlinkerWindows!Pending, VlinkerWindows!Runs, Pending
<1>2. state' \in [Adapters -> States] /\ \A b \in Adapters \ {a} : state'[b] = state[b]
  BY <1>1 DEF CallsInOrder, States
<1>3. Typed(HelperWork, {"exiting"}) /\ Elsewhere(a)
  BY <1>1, <1>2 DEF CallsInOrder, Typed, Elsewhere
<1>4. connect[a] # "unused"
  BY <1>1, BoundsAssumption DEF CallsInOrder, HelperObject, Adapters
<1>5. CallsInOrder(HelperWork, {"exiting"})'
  <2>1. made' = made /\ met' = met /\ unheard' \subseteq unheard \cup {a} /\ connect'[a] # "unused"
    BY <1>1, <1>4
  <2>2. a \notin met' /\ release'[a] # "unused" => ~Pending(a)'
    BY <1>1 DEF Pending, CallsInOrder
  <2>q. QED BY <1>3, <1>4, <2>1, <2>2, CallsGoOn
<1>6. fields' \in [Adapters -> HelperFields] /\ \A b \in Adapters \ {a} : fields'[b] = fields[b]
  <2>1. CASE fields' = [fields EXCEPT ![a].monitoring = FALSE]
    BY <2>1 DEF HelperFields
  <2>q. QED BY <1>1, <2>1
<1>7. /\ native' \in [Adapters -> {"none", "running", "exited"}]
      /\ \A b \in Adapters \ {a} : native'[b] = native[b]
  BY <1>1
<1>8. ASSUME a \notin met' PROVE HelperObject(a)'
  <2>1. HelperObject(a) /\ a \notin met /\ (release[a] # "unused" => ~Pending(a))
    BY <1>1, <1>8 DEF CallsInOrder
  <2>2. /\ fields'[a].process = fields[a].process
        /\ fields'[a].disconnecting = fields[a].disconnecting
    BY <1>1 DEF HelperFields
  <2>3. /\ connect[a] \notin {"threw", "unused", "starting"} /\ release[a] # "over"
        /\ connect' = connect /\ release' = release
    BY <1>1, <2>1 DEF HelperObject
  <2>4. state'[a] = "error" \/ (state' = state /\ (fields[a].disconnecting \/ state[a] = "disconnected"))
    BY <1>1 DEF CallsInOrder
  <2>5. Pending(a) /\ a \notin unheard' => native' = native /\ a \notin unheard
    BY <1>1
  <2>q. QED BY <2>1, <2>2, <2>3, <2>4, <2>5 DEF HelperObject, Pending
<1>q. QED BY <1>1, <1>3, <1>5, <1>6, <1>7, <1>8, HelperKept DEF OutsideOf

LEMMA HelperStep ==
    ASSUME HelperInv, NEW a \in Adapters,
           \/ Obdlink!ConnectStep(a) \/ Obdlink!ReleaseStep(a) \/ Obdlink!Event(a)
           \/ VlinkerWindows!ConnectStep(a) \/ VlinkerWindows!ReleaseStep(a)
           \/ VlinkerWindows!Event(a)
    PROVE  HelperInv'
<1>1. CASE Obdlink!Connect(a) \/ VlinkerWindows!Connect(a)
  BY <1>1, HelperConnects
<1>2. CASE \/ Obdlink!Started(a) \/ Obdlink!Prompt(a) \/ Obdlink!FirstFrame(a)
           \/ VlinkerWindows!Started(a) \/ VlinkerWindows!Prompt(a)
           \/ VlinkerWindows!FirstFrame(a)
  BY <1>2, HelperConnecting
<1>3. CASE \/ Obdlink!HelperExits(a) \/ Obdlink!MonitorEnds(a) \/ Obdlink!StreamError(a)
           \/ VlinkerWindows!HelperExits(a) \/ VlinkerWindows!MonitorEnds(a)
           \/ VlinkerWindows!StreamError(a)
  BY <1>3, HelperFaults
<1>4. CASE \/ Obdlink!GivesUp(a) \/ Obdlink!Stopped(a, "connect")
           \/ VlinkerWindows!GivesUp(a) \/ VlinkerWindows!Stopped(a, "connect")
  <2>1. /\ \/ Obdlink!Stop(a, "connect") \/ Obdlink!Finish(a, "connect")
           \/ VlinkerWindows!Stop(a, "connect") \/ VlinkerWindows!Finish(a, "connect")
        /\ connect[a] \in {"ready", "command", "frame", "exiting"}
        /\ UNCHANGED <<made, met, unheard>>
    BY <1>4 DEF Obdlink!GivesUp, Obdlink!Stopped, Obdlink!At, Obdlink!Is, Obdlink!Quiet,
       VlinkerWindows!GivesUp, VlinkerWindows!Stopped, VlinkerWindows!At, VlinkerWindows!Is,
       VlinkerWindows!Quiet
  <2>q. QED BY <2>1, HelperStops DEF Pending
<1>5. CASE \/ Obdlink!Disconnect(a) \/ Obdlink!Stopped(a, "release")
           \/ VlinkerWindows!Disconnect(a) \/ VlinkerWindows!Stopped(a, "release")
  <2>1. /\ \/ Obdlink!Stop(a, "release") \/ Obdlink!Finish(a, "release")
           \/ VlinkerWindows!Stop(a, "release") \/ VlinkerWindows!Finish(a, "release")
        /\ UNCHANGED <<made, unheard>> /\ met \subseteq met' /\ met' \subseteq met \cup {a}
        /\ \/ connect[a] # "unused" /\ (a \notin met' => ~Pending(a))
           \/ release[a] = "exiting" /\ met' = met
    BY <1>5 DEF Obdlink!Disconnect, Obdlink!Called, Obdlink!Pending, Obdlink!Stopped, Obdlink!Is,
       Obdlink!Quiet, VlinkerWindows!Disconnect, VlinkerWindows!Called, VlinkerWindows!Pending,
       VlinkerWindows!Stopped, VlinkerWindows!Is, VlinkerWindows!Quiet, Pending
  <2>2. connect[a] # "unused" /\ (a \notin met' => ~Pending(a))
    BY <2>1 DEF HelperInv, HelperTypes, CallsInOrder
  <2>q. QED BY <2>1, <2>2, HelperStops
<1>q. QED BY <1>1, <1>2, <1>3, <1>4, <1>5
      DEF Obdlink!ConnectStep, Obdlink!ReleaseStep, Obdlink!Event,
          VlinkerWindows!ConnectStep, VlinkerWindows!ReleaseStep, VlinkerWindows!Event

LEMMA HelperPromise ==
    ASSUME HelperInv, kind \in {"obdlink", "vlinker windows"} PROVE KeepsPromise
  BY DEF KeepsPromise, InUse, Holds, Obdlink!InUse, Obdlink!Holds, Obdlink!Runs,
         VlinkerWindows!InUse, VlinkerWindows!Holds, VlinkerWindows!Runs,
         HelperInv, HelperObject, HelperTypes, CallsInOrder, Pending

-----------------------------------------------------------------------------
(* The vLinker MS on Android, whose objects share the plugin.              *)
LEMMA VlinkerInit == ASSUME VlinkerAndroid!Init PROVE VlinkerInv
<1>1. /\ made = 0 /\ met = {} /\ unheard = {}
      /\ state = [a \in Adapters |-> "disconnected"]
      /\ connect = [a \in Adapters |-> "unused"]
      /\ release = [a \in Adapters |-> "unused"]
      /\ fields = [a \in Adapters |-> [sub |-> FALSE, monitoring |-> FALSE,
                                       disconnecting |-> FALSE, first |-> FALSE, left |-> 0]]
      /\ native = [socket |-> None, open |-> {}, sink |-> None,
                   thread |-> [a \in Adapters |-> "none"],
                   reader |-> [a \in Adapters |-> "none"]]
  BY DEF VlinkerAndroid!Init, VlinkerAndroid!InitWith, VlinkerAndroid!Adapters,
         VlinkerAndroid!Fresh, VlinkerAndroid!None, None, Adapters
<1>2. CallsInOrder(VlinkerWork, {"stopping"})
  BY <1>1, BoundsAssumption DEF CallsInOrder, States, Pending, Adapters
<1>3. fields \in [Adapters -> VlinkerFields]
  BY <1>1 DEF VlinkerFields
<1>4. native \in VlinkerNative
  BY <1>1 DEF VlinkerNative
<1>5. \A a \in Adapters : VlinkerEarly(a) /\ VlinkerObject(a)
  BY <1>1, BoundsAssumption DEF VlinkerEarly, VlinkerObject, None, Adapters
<1>6. VlinkerShared
  BY <1>1, BoundsAssumption DEF VlinkerShared, None, Adapters
<1>q. QED BY <1>2, <1>3, <1>4, <1>5, <1>6 DEF VlinkerInv, VlinkerTypes

(* An object at work on which no calls met is alone.                       *)
LEMMA VlinkerAlone ==
    ASSUME VlinkerInv, NEW a \in Adapters, VlinkerAndroid!AtWork(a) \/ a = made
    PROVE  /\ a <= made /\ (a \notin met => a = made)
           /\ \A b \in Adapters \ {a} : b \notin met \/ a \notin met =>
                 /\ ~VlinkerAndroid!AtWork(b)
                 /\ connect[b] = "unused" \/ release[b] = "over"
<1> USE DEF VlinkerInv, VlinkerTypes
<1>1. \A b \in Adapters : b > made => ~VlinkerAndroid!AtWork(b) /\ connect[b] = "unused"
  BY DEF CallsInOrder, VlinkerEarly, VlinkerAndroid!AtWork, VlinkerAndroid!Pending,
         VlinkerAndroid!Releasing
<1>2. made \in Nat /\ Adapters \subseteq Nat
  BY BoundsAssumption DEF CallsInOrder, Adapters
<1>3. \A b \in Adapters : b < made /\ (b \notin met \/ made \notin met) =>
                             ~VlinkerAndroid!AtWork(b)
  BY DEF VlinkerShared
<1>4. a <= made /\ (a \notin met => a = made)
  BY <1>1, <1>2, <1>3
<1>5. ASSUME NEW b \in Adapters \ {a}, b \notin met \/ a \notin met
      PROVE  /\ ~VlinkerAndroid!AtWork(b)
             /\ connect[b] = "unused" \/ release[b] = "over"
  <2>1. CASE b > made
    BY <2>1, <1>1
  <2>2. CASE b < made
    <3>1. ~VlinkerAndroid!AtWork(b)
      BY <2>2, <1>3, <1>4, <1>5
    <3>2. release[b] # "unused"
      BY <2>2 DEF VlinkerShared
    <3>q. QED BY <3>1, <3>2 DEF VlinkerAndroid!AtWork, VlinkerAndroid!Releasing
  <2>3. CASE b = made
    <3>1. a < made /\ made \notin met
      BY <2>3, <1>2, <1>4, <1>5
    <3>q. QED BY <3>1, <1>2, <1>3
  <2>q. QED BY <2>1, <2>2, <2>3, <1>2
<1>q. QED BY <1>4, <1>5

(* A step of an object at work, or of the last one.                        *)
LEMMA VlinkerKept ==
    ASSUME VlinkerInv, NEW a \in Adapters, VlinkerAndroid!AtWork(a) \/ a = made, VlinkerTypes',
           made' = made, met \subseteq met', unheard \subseteq unheard', Elsewhere(a),
           \A b \in Adapters \ {a} : /\ fields'[b] = fields[b]
                                     /\ native'.thread[b] = native.thread[b]
                                     /\ native'.reader[b] = native.reader[b],
           native'.open \subseteq native.open \cup {a},
           native'.sink \in {native.sink, None, a},
           native'.socket # None => native'.socket \in native'.open,
           a \notin met' /\ a \in native'.open => native'.socket = a,
           release[a] # "unused" => release'[a] # "unused",
           VlinkerEarly(a)', a \notin met' => VlinkerObject(a)'
    PROVE  VlinkerInv'
<1>1. /\ a <= made /\ (a \notin met => a = made)
      /\ \A b \in Adapters \ {a} : b \notin met \/ a \notin met =>
            /\ ~VlinkerAndroid!AtWork(b)
            /\ connect[b] = "unused" \/ release[b] = "over"
  BY VlinkerAlone
<1>2. None \notin Adapters /\ Adapters \subseteq Nat
  BY BoundsAssumption DEF Adapters, None
<1>3. ASSUME NEW b \in Adapters \ {a}, ~VlinkerAndroid!AtWork(b)
      PROVE  ~VlinkerAndroid!AtWork(b)'
  BY <1>2, <1>3 DEF VlinkerAndroid!AtWork, VlinkerAndroid!Pending, VlinkerAndroid!Releasing,
                    Elsewhere
<1>4. ASSUME NEW b \in Adapters \ {a} PROVE VlinkerEarly(b)'
  BY <1>2 DEF VlinkerInv, VlinkerEarly, Elsewhere
<1>5. ASSUME NEW b \in Adapters \ {a}, b \notin met' PROVE VlinkerObject(b)'
  <2>1. /\ VlinkerObject(b) /\ ~VlinkerAndroid!AtWork(b) /\ b \notin met
        /\ connect[b] = "unused" \/ release[b] = "over"
    BY <1>1, <1>5 DEF VlinkerInv
  <2>2. native'.sink # b /\ b \notin native'.open
    BY <1>2, <2>1 DEF VlinkerAndroid!AtWork
  <2>3. connect[b] \notin {"native", "command", "frame"}
    BY <2>1 DEF VlinkerAndroid!AtWork, VlinkerAndroid!Pending
  <2>q. QED BY <2>1, <2>2, <2>3 DEF VlinkerObject, Elsewhere
<1>6. VlinkerShared'
  <2>1. ASSUME NEW b \in Adapters, b < made', b \notin met' \/ made' \notin met'
        PROVE  ~VlinkerAndroid!AtWork(b)'
    <3>1. ~VlinkerAndroid!AtWork(b)
      BY <2>1 DEF VlinkerInv, VlinkerShared
    <3>2. b # a
      BY <3>1, <2>1, <1>1, <1>2
    <3>q. QED BY <3>1, <3>2, <1>3
  <2>2. \A b \in Adapters : b < made' => release'[b] # "unused"
    BY DEF VlinkerInv, VlinkerShared, Elsewhere
  <2>3. ASSUME made' \notin met', made' \in native'.open PROVE native'.socket = made'
    <3>1. CASE a = made
      BY <2>3, <3>1
    <3>2. CASE a # made
      <4>1. made \in Adapters /\ made \notin met /\ made \in native.open
        <5>1. made \in native.open
          BY <2>3, <3>2
        <5>q. QED BY <5>1, <2>3 DEF VlinkerInv, VlinkerTypes, VlinkerNative
      <4>2. VlinkerAndroid!AtWork(made)
        BY <4>1 DEF VlinkerAndroid!AtWork
      <4>q. QED BY <4>1, <4>2, <1>1, <3>2
    <3>q. QED BY <3>1, <3>2
  <2>q. QED BY <2>1, <2>2, <2>3 DEF VlinkerShared
<1>q. QED BY <1>4, <1>5, <1>6 DEF VlinkerInv

LEMMA VlinkerConnects ==
    ASSUME VlinkerInv, NEW a \in Adapters, VlinkerAndroid!Connect(a) PROVE VlinkerInv'
<1> DEFINE others == {b \in 1 .. made : VlinkerAndroid!AtWork(b)}
<1>1. /\ a = made + 1 /\ made' = a /\ UNCHANGED <<unheard, release, native>>
      /\ \A b \in 1 .. made : release[b] # "unused"
      /\ met' = met \cup IF others = {} THEN {} ELSE others \cup {a}
      /\ connect' = [connect EXCEPT ![a] = "permission"]
      /\ state' = [state EXCEPT ![a] = "connecting"]
      /\ fields' = [fields EXCEPT ![a].first = TRUE]
  BY DEF VlinkerAndroid!Connect, VlinkerAndroid!Begin, VlinkerAndroid!Show, VlinkerAndroid!Go
<1> USE DEF VlinkerInv, VlinkerTypes
<1>2. /\ a \notin met /\ connect[a] = "unused" /\ release[a] = "unused"
      /\ made \in Nat /\ Adapters \subseteq Nat \ {0}
      /\ 1 .. made = {b \in Adapters : b < a}
  BY <1>1, BoundsAssumption DEF CallsInOrder, Adapters
<1>3. Typed(VlinkerWork, {"stopping"}) /\ Elsewhere(a) /\ connect'[a] # "unused"
  BY <1>1 DEF CallsInOrder, States, Typed, Elsewhere, VlinkerWork
<1>4. met \subseteq met' /\ met' \subseteq met \cup 1 .. a
  BY <1>1, <1>2
<1>5. CallsInOrder(VlinkerWork, {"stopping"})'
  BY <1>1, <1>3, <1>4, CallsBegin
<1>6. fields' \in [Adapters -> VlinkerFields] /\ \A b \in Adapters \ {a} : fields'[b] = fields[b]
  BY <1>1 DEF VlinkerFields
<1>7. /\ fields'[a].sub = fields[a].sub /\ fields'[a].disconnecting = fields[a].disconnecting
      /\ connect'[a] = "permission" /\ state'[a] = "connecting"
  BY <1>1 DEF VlinkerFields, CallsInOrder
<1>8. \A b \in Adapters : VlinkerEarly(b)'
  BY <1>1, <1>2, <1>3, <1>6, <1>7 DEF VlinkerEarly, Elsewhere
<1>9. VlinkerObject(a) /\ VlinkerEarly(a)
  BY <1>2
<1>10. VlinkerObject(a)'
  BY <1>1, <1>2, <1>7, <1>9 DEF VlinkerObject, VlinkerEarly
<1>11. ASSUME NEW b \in Adapters \ {a}, b \notin met' PROVE VlinkerObject(b)'
  BY <1>1, <1>3, <1>4, <1>6, <1>11 DEF VlinkerObject, Elsewhere
<1>12. VlinkerShared'
  <2>1. ASSUME NEW b \in Adapters, b < made', b \notin met' \/ made' \notin met'
        PROVE  ~VlinkerAndroid!AtWork(b)'
    <3>1. b \in 1 .. made
      BY <1>1, <1>2, <2>1
    <3>2. ~VlinkerAndroid!AtWork(b)
      BY <1>1, <2>1, <3>1
    <3>q. QED BY <1>1, <1>2, <1>3, <3>1, <3>2
              DEF VlinkerAndroid!AtWork, VlinkerAndroid!Pending, VlinkerAndroid!Releasing,
                  Elsewhere
  <2>q. QED BY <2>1, <1>1, <1>2, <1>9 DEF VlinkerShared, VlinkerEarly
<1>q. QED BY <1>1, <1>5, <1>6, <1>8, <1>10, <1>11, <1>12

(* A step that leaves the plugin alone.                                    *)
LEMMA VlinkerWorks ==
    ASSUME VlinkerInv, NEW a \in Adapters, VlinkerAndroid!AtWork(a) \/ a = made,
           native' = native, connect[a] # "unused",
           connect'[a] \notin {"unused", "permission"} \/ (connect' = connect /\ VlinkerEarly(a)'),
           fields' \in [Adapters -> VlinkerFields], Typed(VlinkerWork, {"stopping"}),
           made' = made, met \subseteq met', met' \subseteq met \cup {a},
           unheard \subseteq unheard', unheard' \subseteq unheard \cup {a}, Elsewhere(a),
           \A b \in Adapters \ {a} : fields'[b] = fields[b],
           release[a] # "unused" => release'[a] # "unused",
           a \notin met' /\ release'[a] # "unused" => ~Pending(a)',
           a \notin met' => VlinkerObject(a)'
    PROVE  VlinkerInv'
<1>1. CallsInOrder(VlinkerWork, {"stopping"})'
  BY CallsGoOn DEF VlinkerInv, VlinkerTypes
<1>2. VlinkerTypes' /\ VlinkerEarly(a)'
  BY <1>1 DEF VlinkerInv, VlinkerTypes, VlinkerEarly
<1>3. a \notin met' /\ a \in native.open => native.socket = a
  <2>1. a \notin met => a = made
    BY VlinkerAlone
  <2>q. QED BY <2>1 DEF VlinkerInv, VlinkerShared
<1>q. QED BY <1>2, <1>3, VlinkerKept DEF VlinkerInv, VlinkerShared

LEMMA VlinkerConnecting ==
    ASSUME VlinkerInv, NEW a \in Adapters,
           VlinkerAndroid!Prompt(a) \/ VlinkerAndroid!FirstFrame(a)
    PROVE  VlinkerInv'
<1> USE DEF VlinkerInv, VlinkerTypes
<1>1. /\ UNCHANGED <<release, made, met, native>>
      /\ unheard' = unheard \/ unheard' = unheard \cup {a}
      /\ \/ /\ (connect[a] = "native" /\ native.thread[a] = "opened") \/ connect[a] = "command"
            /\ state' = state
            /\ \/ connect' = [connect EXCEPT ![a] = "command"]
                  /\ \E n \in Nat : fields' = [fields EXCEPT ![a].left = n]
               \/ connect' = [connect EXCEPT ![a] = "frame"]
                  /\ fields' = [fields EXCEPT ![a].left = 0, ![a].monitoring = TRUE]
         \/ connect[a] = "frame" /\ connect' = [connect EXCEPT ![a] = "returned"]
            /\ fields[a].monitoring /\ VlinkerAndroid!Hears(a)
            /\ state' = [state EXCEPT ![a] = "connected"]
            /\ \/ fields' = fields
               \/ fields' = [fields EXCEPT ![a].monitoring = FALSE]
                  /\ unheard' = unheard \cup {a}
  <2>1. CASE VlinkerAndroid!Prompt(a)
    <3> DEFINE left == IF connect[a] = "native" THEN Commands ELSE fields[a].left - 1
    <3>1. left > 0 => left \in Nat
      BY BoundsAssumption DEF VlinkerFields
    <3>2. /\ (connect[a] = "native" /\ native.thread[a] = "opened") \/ connect[a] = "command"
          /\ UNCHANGED <<state, native, release, made, met, unheard>>
          /\ \/ left > 0 /\ connect' = [connect EXCEPT ![a] = "command"]
                /\ fields' = [fields EXCEPT ![a].left = left]
             \/ /\ connect' = [connect EXCEPT ![a] = "frame"]
                /\ fields' = [fields EXCEPT ![a].left = 0, ![a].monitoring = TRUE]
      BY <2>1 DEF VlinkerAndroid!Prompt, VlinkerAndroid!At, VlinkerAndroid!Go,
                  VlinkerAndroid!Quiet
    <3> HIDE DEF left
    <3>q. QED BY <3>1, <3>2
  <2>2. CASE VlinkerAndroid!FirstFrame(a)
    BY <2>2 DEF VlinkerAndroid!FirstFrame, VlinkerAndroid!At, VlinkerAndroid!Go,
       VlinkerAndroid!Show, VlinkerAndroid!Quiet, VlinkerAndroid!Fault, VlinkerAndroid!Pending
  <2>q. QED BY <2>1, <2>2
<1>2. /\ state' \in [Adapters -> States] /\ \A b \in Adapters \ {a} : state'[b] = state[b]
  BY <1>1 DEF CallsInOrder, States
<1>3. /\ connect' \in [Adapters -> {"unused", "returned", "threw"} \cup VlinkerWork]
      /\ \A b \in Adapters \ {a} : connect'[b] = connect[b]
      /\ connect'[a] \in {"command", "frame", "returned"}
  BY <1>1 DEF CallsInOrder, VlinkerWork
<1>4. fields' \in [Adapters -> VlinkerFields] /\ \A b \in Adapters \ {a} : fields'[b] = fields[b]
  <2>1. \/ fields' = fields
        \/ \E n \in Nat : fields' = [fields EXCEPT ![a].left = n]
        \/ fields' = [fields EXCEPT ![a].left = 0, ![a].monitoring = TRUE]
        \/ fields' = [fields EXCEPT ![a].monitoring = FALSE]
    BY <1>1
  <2>2. CASE fields' = [fields EXCEPT ![a].left = 0, ![a].monitoring = TRUE]
    BY <2>2 DEF VlinkerFields
  <2>3. CASE \E n \in Nat : fields' = [fields EXCEPT ![a].left = n]
    BY <2>3 DEF VlinkerFields
  <2>4. CASE fields' = [fields EXCEPT ![a].monitoring = FALSE]
    BY <2>4 DEF VlinkerFields
  <2>q. QED BY <2>1, <2>2, <2>3, <2>4
<1>5. Pending(a) /\ VlinkerAndroid!AtWork(a) /\ connect[a] \in {"native", "command", "frame"}
  BY <1>1 DEF Pending, VlinkerAndroid!AtWork, VlinkerAndroid!Pending
<1>6. a \notin met => release[a] = "unused"
  BY <1>5 DEF CallsInOrder
<1>7. ASSUME a \notin met PROVE VlinkerObject(a)'
  <2>1. VlinkerObject(a) /\ release' = release /\ native' = native /\ release[a] = "unused"
    BY <1>1, <1>6, <1>7
  <2>2. /\ fields'[a].sub = fields[a].sub
        /\ fields'[a].disconnecting = fields[a].disconnecting
    BY <1>1 DEF VlinkerFields
  <2>3. CASE connect'[a] # "returned"
    <3>1. state' = state /\ native.thread[a] \notin {"begun", "opening"}
      BY <1>1, <2>1, <2>3 DEF VlinkerObject, CallsInOrder
    <3>q. QED BY <1>3, <1>5, <2>1, <2>2, <2>3, <3>1 DEF VlinkerObject
  <2>4. CASE connect'[a] = "returned"
    <3>1. /\ connect[a] = "frame" /\ VlinkerAndroid!Hears(a) /\ state'[a] = "connected"
          /\ a \notin unheard' => fields'[a].monitoring
      BY <1>1, <2>4 DEF CallsInOrder, VlinkerFields
    <3>2. PICK b \in native.open : native.reader[b] = "reading" /\ native.sink = a
      BY <3>1 DEF VlinkerAndroid!Hears
    <3>3. b = a
      BY <1>5, <1>7, <3>2, VlinkerAlone DEF VlinkerAndroid!AtWork, VlinkerNative
    <3>q. QED BY <2>1, <2>2, <2>4, <3>1, <3>2, <3>3 DEF VlinkerObject
  <2>q. QED BY <2>3, <2>4
<1>8. Typed(VlinkerWork, {"stopping"}) /\ Elsewhere(a)
  BY <1>1, <1>2, <1>3 DEF CallsInOrder, Typed, Elsewhere
<1>9. /\ connect'[a] \notin {"unused", "permission"} /\ connect[a] # "unused"
      /\ release' = release /\ made' = made /\ native' = native
      /\ met \subseteq met' /\ met' \subseteq met \cup {a} /\ met' = met
      /\ unheard \subseteq unheard' /\ unheard' \subseteq unheard \cup {a}
      /\ VlinkerAndroid!AtWork(a) \/ a = made
  BY <1>1, <1>3, <1>5
<1> HIDE DEF VlinkerInv, VlinkerTypes
<1>10. a \notin met' => VlinkerObject(a)' /\ (release'[a] # "unused" => ~Pending(a)')
  BY <1>6, <1>7, <1>9
<1>q. QED BY <1>4, <1>8, <1>9, <1>10, VlinkerWorks

(* A disconnect() that either task runs stops the monitor.                 *)
LEMMA VlinkerStops ==
    ASSUME VlinkerInv, NEW a \in Adapters,
           \/ VlinkerAndroid!GivesUp(a) \/ VlinkerAndroid!TimesOut(a)
           \/ VlinkerAndroid!Disconnect(a)
    PROVE  VlinkerInv'
<1> USE DEF VlinkerInv, VlinkerTypes
<1>1. /\ UNCHANGED <<state, native, made, unheard>>
      /\ fields' = [fields EXCEPT ![a].disconnecting = TRUE]
      /\ met \subseteq met' /\ met' \subseteq met \cup {a}
      /\ \/ /\ connect[a] \in {"native", "command", "frame"} /\ release' = release
            /\ connect' = [connect EXCEPT ![a] = "stopping"]
            /\ connect[a] = "native" /\ native.thread[a] \in {"begun", "opening"} => a \in met'
         \/ /\ connect[a] # "unused" /\ release[a] = "unused" /\ connect' = connect
            /\ release' = [release EXCEPT ![a] = "stopping"]
            /\ Pending(a) => a \in met'
  BY DEF VlinkerAndroid!GivesUp, VlinkerAndroid!TimesOut, VlinkerAndroid!Disconnect,
         VlinkerAndroid!Stop, VlinkerAndroid!Called, VlinkerAndroid!Wait, VlinkerAndroid!Go,
         VlinkerAndroid!At, VlinkerAndroid!Quiet, VlinkerAndroid!Pending, Pending
<1>2. /\ connect' \in [Adapters -> {"unused", "returned", "threw"} \cup VlinkerWork]
      /\ \A b \in Adapters \ {a} : connect'[b] = connect[b]
      /\ connect'[a] = "stopping" \/ connect'[a] = connect[a]
  BY <1>1 DEF CallsInOrder, VlinkerWork
<1>3. /\ release' \in [Adapters -> {"unused", "over"} \cup {"stopping"}]
      /\ \A b \in Adapters \ {a} : release'[b] = release[b]
  BY <1>1 DEF CallsInOrder
<1>4. Typed(VlinkerWork, {"stopping"}) /\ Elsewhere(a)
  BY <1>1, <1>2, <1>3 DEF CallsInOrder, Typed, Elsewhere
<1>5. /\ fields' \in [Adapters -> VlinkerFields] /\ \A b \in Adapters \ {a} : fields'[b] = fields[b]
      /\ fields'[a].sub = fields[a].sub /\ fields'[a].monitoring = fields[a].monitoring
  BY <1>1 DEF VlinkerFields
<1>6. VlinkerAndroid!AtWork(a) \/ a = made
  <2>1. CASE connect[a] \in {"native", "command", "frame"}
    BY <2>1 DEF VlinkerAndroid!AtWork, VlinkerAndroid!Pending
  <2>2. CASE connect[a] # "unused" /\ release[a] = "unused"
    BY <2>2, BoundsAssumption DEF VlinkerShared, CallsInOrder, Adapters
  <2>q. QED BY <1>1, <2>1, <2>2
<1>7. ASSUME a \notin met' PROVE VlinkerObject(a)' /\ (release'[a] # "unused" => ~Pending(a)')
  <2>1. VlinkerObject(a) /\ a \notin met /\ (release[a] # "unused" => ~Pending(a))
    BY <1>1, <1>7 DEF CallsInOrder
  <2>2. CASE connect[a] \in {"native", "command", "frame"} /\ connect'[a] = "stopping"
    <3>1. release[a] = "unused" /\ release' = release
      BY <1>1, <2>1, <2>2 DEF Pending
    <3>2. native.thread[a] \notin {"begun", "opening"}
      BY <1>1, <1>7, <2>1, <2>2, <3>1 DEF VlinkerObject
    <3>q. QED BY <1>1, <1>5, <2>1, <2>2, <3>1, <3>2 DEF VlinkerObject
  <2>3. CASE release'[a] = "stopping" /\ connect' = connect
    <3>1. ~Pending(a) /\ release[a] = "unused"
      BY <1>1, <1>7, <2>1, <2>3 DEF CallsInOrder
    <3>q. QED BY <1>1, <1>5, <2>1, <2>3, <3>1 DEF VlinkerObject, Pending
  <2>q. QED BY <1>1, <2>2, <2>3 DEF CallsInOrder
<1>8. connect[a] # "unused" /\ release[a] # "unused" => release'[a] # "unused"
  BY <1>1 DEF CallsInOrder
<1>9. connect[a] # "unused"
  BY <1>1
<1>10. connect'[a] \notin {"unused", "permission"} \/ (connect' = connect /\ VlinkerEarly(a)')
  BY <1>1, <1>5 DEF CallsInOrder, VlinkerEarly
<1>q. QED BY <1>1, <1>4, <1>5, <1>6, <1>7, <1>8, <1>9, <1>10, VlinkerWorks

(* ... and then cancels its subscription and closes the socket.            *)
LEMMA VlinkerStopped ==
    ASSUME VlinkerInv, NEW a \in Adapters, NEW t \in {"connect", "release"},
           VlinkerAndroid!Stopped(a, t)
    PROVE  VlinkerInv'
<1> USE DEF VlinkerInv, VlinkerTypes
<1>1. /\ UNCHANGED <<made, met, unheard>>
      /\ native' = [native EXCEPT !.open = @ \ {native.socket}, !.socket = None,
                                  !.sink = IF fields[a].sub THEN None ELSE @]
      /\ fields' = [fields EXCEPT ![a].sub = FALSE, ![a].monitoring = FALSE,
                                  ![a].first = FALSE]
      /\ state' = [state EXCEPT ![a] = "disconnected"]
      /\ \/ /\ connect[a] = "stopping" /\ release' = release
            /\ connect' = [connect EXCEPT ![a] = "threw"]
         \/ /\ release[a] = "stopping" /\ connect' = connect
            /\ release' = [release EXCEPT ![a] = "over"]
  BY DEF VlinkerAndroid!Stopped, VlinkerAndroid!Is, VlinkerAndroid!Ends, VlinkerAndroid!Wait,
         VlinkerAndroid!Go, VlinkerAndroid!Quiet, VlinkerAndroid!Closed, VlinkerAndroid!Show,
         VlinkerAndroid!None, None
<1>2. /\ connect' \in [Adapters -> {"unused", "returned", "threw"} \cup VlinkerWork]
      /\ \A b \in Adapters \ {a} : connect'[b] = connect[b]
      /\ connect'[a] = "threw" \/ connect'[a] = connect[a]
  BY <1>1 DEF CallsInOrder, VlinkerWork
<1>3. /\ release' \in [Adapters -> {"unused", "over"} \cup {"stopping"}]
      /\ \A b \in Adapters \ {a} : release'[b] = release[b]
      /\ release[a] # "unused" => release'[a] # "unused"
  BY <1>1 DEF CallsInOrder
<1>4. Typed(VlinkerWork, {"stopping"}) /\ Elsewhere(a) /\ state'[a] = "disconnected"
  BY <1>1, <1>2, <1>3 DEF CallsInOrder, Typed, Elsewhere, States
<1>5. /\ fields' \in [Adapters -> VlinkerFields] /\ \A b \in Adapters \ {a} : fields'[b] = fields[b]
      /\ ~fields'[a].sub /\ fields'[a].disconnecting = fields[a].disconnecting
  <2> DEFINE put == [fields[a] EXCEPT !.sub = FALSE, !.monitoring = FALSE, !.first = FALSE]
  <2>1. put \in VlinkerFields /\ ~put.sub /\ put.disconnecting = fields[a].disconnecting
    BY DEF VlinkerFields
  <2>2. fields' = [fields EXCEPT ![a] = put]
    BY <1>1
  <2>3. fields \in [Adapters -> VlinkerFields]
    OBVIOUS
  <2> HIDE DEF put, VlinkerInv, VlinkerTypes
  <2>q. QED BY <2>1, <2>2, <2>3
<1>6. /\ native' \in VlinkerNative
      /\ native'.thread = native.thread /\ native'.reader = native.reader
      /\ native'.open = native.open \ {native.socket} /\ native'.socket = None
      /\ native'.sink = IF fields[a].sub THEN None ELSE native.sink
  BY <1>1 DEF VlinkerNative
<1>7. VlinkerAndroid!AtWork(a) /\ connect[a] # "unused" /\ connect'[a] # "unused"
  BY <1>1 DEF VlinkerAndroid!AtWork, VlinkerAndroid!Pending, VlinkerAndroid!Releasing,
              CallsInOrder
<1>8. a \notin met => (release'[a] # "unused" => ~Pending(a)')
  BY <1>1 DEF CallsInOrder, Pending
<1>9. VlinkerTypes'
  BY <1>1, <1>4, <1>5, <1>6, <1>7, <1>8, CallsGoOn
<1>10. VlinkerEarly(a)'
  BY <1>1, <1>2, <1>5, <1>6, BoundsAssumption DEF VlinkerEarly, Adapters, None, CallsInOrder
<1>11. ASSUME a \notin met PROVE VlinkerObject(a)'
  <2>1. /\ VlinkerObject(a) /\ a = made
        /\ (release[a] # "unused" => ~Pending(a))
    BY <1>7, <1>11, VlinkerAlone DEF CallsInOrder
  <2>2. a \notin native'.open /\ native'.sink # a
    BY <1>6, <1>11, <2>1, BoundsAssumption DEF VlinkerShared, VlinkerObject, Adapters, None
  <2>3. connect'[a] \in {"returned", "threw"} /\ connect[a] # "native"
    BY <1>1, <2>1 DEF CallsInOrder, Pending, VlinkerWork
  <2>4. connect'[a] = "returned" => release'[a] = "over"
    BY <1>1, <2>3 DEF CallsInOrder
  <2>q. QED BY <1>4, <1>5, <1>6, <2>1, <2>2, <2>3, <2>4 DEF VlinkerObject
<1>q. QED BY <1>1, <1>3, <1>4, <1>5, <1>6, <1>7, <1>9, <1>10, <1>11, VlinkerKept, VlinkerAlone
          DEF VlinkerShared

(* The subscription takes the sink and the thread begins, or the operator  *)
(* does not permit it.                                                     *)
LEMMA VlinkerAsked ==
    ASSUME VlinkerInv, NEW a \in Adapters, VlinkerAndroid!Asked(a) PROVE VlinkerInv'
<1> USE DEF VlinkerInv, VlinkerTypes
<1>1. /\ connect[a] = "permission" /\ UNCHANGED <<release, made, met, unheard>>
      /\ \/ /\ connect' = [connect EXCEPT ![a] = "native"] /\ state' = state
            /\ fields' = [fields EXCEPT ![a].sub = TRUE]
            /\ native' = [native EXCEPT !.sink = a, !.thread[a] = "begun"]
         \/ /\ connect' = [connect EXCEPT ![a] = "threw"]
            /\ state' = [state EXCEPT ![a] = "error"] \/ state' = state
            /\ UNCHANGED <<fields, native>>
  BY DEF VlinkerAndroid!Asked, VlinkerAndroid!At, VlinkerAndroid!Go, VlinkerAndroid!Quiet,
         VlinkerAndroid!Show
<1>2. /\ state' \in [Adapters -> States] /\ \A b \in Adapters \ {a} : state'[b] = state[b]
      /\ state'[a] = "error" \/ state'[a] = state[a]
  BY <1>1 DEF CallsInOrder, States
<1>3. /\ connect' \in [Adapters -> {"unused", "returned", "threw"} \cup VlinkerWork]
      /\ \A b \in Adapters \ {a} : connect'[b] = connect[b]
      /\ connect'[a] \in {"native", "threw"}
  BY <1>1 DEF CallsInOrder, VlinkerWork
<1>4. Typed(VlinkerWork, {"stopping"}) /\ Elsewhere(a)
  BY <1>1, <1>2, <1>3 DEF CallsInOrder, Typed, Elsewhere
<1>5. /\ fields' \in [Adapters -> VlinkerFields] /\ \A b \in Adapters \ {a} : fields'[b] = fields[b]
      /\ fields'[a].disconnecting = fields[a].disconnecting
      /\ connect'[a] = "native" => fields'[a].sub
      /\ connect'[a] = "threw" => fields'[a].sub = fields[a].sub
  <2>1. CASE fields' = [fields EXCEPT ![a].sub = TRUE] /\ connect'[a] = "native"
    BY <2>1 DEF VlinkerFields
  <2>2. CASE fields' = fields /\ connect'[a] = "threw"
    BY <2>2
  <2>q. QED BY <1>1, <2>1, <2>2 DEF CallsInOrder
<1>6. /\ native' \in VlinkerNative /\ native'.socket = native.socket
      /\ native'.open = native.open /\ native'.reader = native.reader
      /\ \A b \in Adapters \ {a} : native'.thread[b] = native.thread[b]
      /\ connect'[a] = "native" => native'.sink = a
      /\ connect'[a] = "threw" => native' = native
  <2>1. CASE native' = [native EXCEPT !.sink = a, !.thread[a] = "begun"] /\ connect'[a] = "native"
    BY <2>1 DEF VlinkerNative
  <2>2. CASE native' = native /\ connect'[a] = "threw"
    BY <2>2
  <2>q. QED BY <1>1, <2>1, <2>2 DEF CallsInOrder
<1>7. Pending(a) /\ VlinkerAndroid!AtWork(a) /\ connect[a] # "unused"
  BY <1>1 DEF Pending, VlinkerAndroid!AtWork, VlinkerAndroid!Pending
<1>8. a \notin met => release[a] = "unused" /\ a = made
  BY <1>7, VlinkerAlone DEF CallsInOrder
<1>9. VlinkerTypes'
  BY <1>1, <1>3, <1>4, <1>5, <1>6, <1>7, <1>8, CallsGoOn
<1>10. VlinkerEarly(a) /\ VlinkerEarly(a)'
  BY <1>3 DEF VlinkerEarly
<1>11. a \notin met => VlinkerObject(a)'
  BY <1>1, <1>2, <1>3, <1>5, <1>6, <1>8, <1>10 DEF VlinkerObject, VlinkerEarly
<1>12. native'.socket # None => native'.socket \in native'.open
  BY <1>6 DEF VlinkerShared
<1>13. native'.sink \in {native.sink, None, a} /\ native'.open \subseteq native.open \cup {a}
  BY <1>3, <1>6
<1>14. a \notin native'.open
  BY <1>1, <1>6, <1>10 DEF VlinkerEarly
<1> HIDE DEF VlinkerInv, VlinkerTypes
<1>q. QED BY <1>1, <1>4, <1>5, <1>6, <1>7, <1>9, <1>10, <1>11, <1>12, <1>13, <1>14,
             VlinkerKept

(* The thread of a connection closes what is open, opens its own socket,   *)
(* or fails.                                                               *)
LEMMA VlinkerThread ==
    ASSUME VlinkerInv, NEW a \in Adapters, VlinkerAndroid!ThreadStep(a) PROVE VlinkerInv'
<1> USE DEF VlinkerInv, VlinkerTypes
<1>1. /\ native.thread[a] \in {"begun", "opening"}
      /\ UNCHANGED <<made, met, unheard, state, connect, release, fields>>
      /\ \/ \E l \in {"opening", "failed"} :
               native' = [native EXCEPT !.open = @ \ {native.socket}, !.socket = None,
                                        !.thread[a] = l]
         \/ native' = [native EXCEPT !.thread[a] = "opened", !.socket = a,
                                     !.open = @ \cup {a}, !.reader[a] = "reading"]
  BY DEF VlinkerAndroid!ThreadStep, VlinkerAndroid!Quiet, VlinkerAndroid!Closed,
         VlinkerAndroid!None, None
<1>2. /\ native' \in VlinkerNative /\ native'.sink = native.sink
      /\ \A b \in Adapters \ {a} : /\ native'.thread[b] = native.thread[b]
                                   /\ native'.reader[b] = native.reader[b]
      /\ \/ /\ native'.open = native.open \ {native.socket}
            /\ native'.socket = None
            /\ native'.reader = native.reader
         \/ /\ native'.open = native.open \cup {a}
            /\ native'.socket = a
            /\ native'.reader[a] = "reading"
  <2>1. ASSUME NEW l \in {"opening", "failed"},
               native' = [native EXCEPT !.open = @ \ {native.socket}, !.socket = None,
                                        !.thread[a] = l]
        PROVE  /\ native' \in VlinkerNative /\ native'.sink = native.sink
               /\ \A b \in Adapters \ {a} : /\ native'.thread[b] = native.thread[b]
                                            /\ native'.reader[b] = native.reader[b]
               /\ \/ /\ native'.open = native.open \ {native.socket}
                     /\ native'.socket = None
                     /\ native'.reader = native.reader
                  \/ /\ native'.open = native.open \cup {a}
                     /\ native'.socket = a
                     /\ native'.reader[a] = "reading"
    BY <2>1 DEF VlinkerNative
  <2>2. CASE native' = [native EXCEPT !.thread[a] = "opened", !.socket = a,
                                      !.open = @ \cup {a}, !.reader[a] = "reading"]
    BY <2>2 DEF VlinkerNative
  <2>q. QED BY <1>1, <2>1, <2>2
<1>3. VlinkerAndroid!AtWork(a)
  BY <1>1 DEF VlinkerAndroid!AtWork
<1>4. connect[a] \notin {"unused", "permission"}
  BY <1>1 DEF VlinkerEarly
<1>5. a \notin met => connect[a] = "native" /\ release[a] = "unused" /\ a = made
  <2>1. a \notin met => connect[a] = "native"
    BY <1>1 DEF VlinkerObject
  <2>q. QED BY <1>3, <2>1, VlinkerAlone DEF CallsInOrder, Pending
<1>6. Elsewhere(a) /\ VlinkerEarly(a)' /\ VlinkerTypes'
  BY <1>1, <1>2, <1>4 DEF Elsewhere, VlinkerEarly, CallsInOrder, Pending
<1>7. a \notin met => VlinkerObject(a)'
  BY <1>1, <1>2, <1>5 DEF VlinkerObject
<1>8. native'.socket # None => native'.socket \in native'.open
  BY <1>2
<1>9. a \notin met /\ a \in native'.open => native'.socket = a
  BY <1>2, <1>5 DEF VlinkerShared
<1>10. native'.open \subseteq native.open \cup {a}
  BY <1>2
<1> HIDE DEF VlinkerInv, VlinkerTypes
<1>q. QED BY <1>1, <1>2, <1>3, <1>6, <1>7, <1>8, <1>9, <1>10, VlinkerKept

(* A reader ends: what is shown is an error, and what is open is closed.   *)
LEMMA VlinkerReaderKeeps ==
    ASSUME VlinkerInv, UNCHANGED <<connect, release, fields, made, met>>,
           unheard \subseteq unheard', unheard' \subseteq Adapters,
           native' \in VlinkerNative, native'.sink = native.sink,
           native'.thread = native.thread,
           \/ /\ native'.open = native.open
              /\ native'.socket = native.socket
           \/ /\ native'.open = native.open \ {native.socket}
              /\ native'.socket = None,
           state' \in [Adapters -> States],
           \A b \in Adapters : \/ state'[b] = state[b]
                               \/ /\ state'[b] = "error"
                                  /\ native.sink = b,
           \A b \in Adapters \ met :
               connect[b] = "returned" /\ release[b] = "unused" /\ state'[b] = "connected"
               /\ b \notin unheard' /\ native.sink = b /\ native.reader[b] = "reading"
               /\ ~fields[b].disconnecting => native'.reader[b] = "reading"
    PROVE  VlinkerInv'
<1> USE DEF VlinkerInv, VlinkerTypes
<1>1. CallsInOrder(VlinkerWork, {"stopping"})'
  BY DEF CallsInOrder, Pending, VlinkerEarly
<1>2. \A b \in Adapters : VlinkerEarly(b)'
  BY DEF VlinkerEarly
<1>3. ASSUME NEW b \in Adapters, b \notin met' PROVE VlinkerObject(b)'
  <2>1. VlinkerObject(b)
    BY <1>3
  <2>q. QED BY <2>1, <1>3 DEF VlinkerObject
<1>4. \A b \in Adapters : VlinkerAndroid!AtWork(b)' => VlinkerAndroid!AtWork(b)
  BY DEF VlinkerAndroid!AtWork, VlinkerAndroid!Pending, VlinkerAndroid!Releasing
<1>5. VlinkerShared'
  BY <1>4 DEF VlinkerShared
<1>q. QED BY <1>1, <1>2, <1>3, <1>5

LEMMA VlinkerReader ==
    ASSUME VlinkerInv, NEW a \in Adapters,
           VlinkerAndroid!ReaderStep(a) \/ VlinkerAndroid!LinkLost(a)
    PROVE  VlinkerInv'
<1> USE DEF VlinkerInv, VlinkerTypes
<1>1. CASE VlinkerAndroid!Reports(a)
  <2>1. /\ UNCHANGED <<connect, release, fields, made, met>>
        /\ unheard \subseteq unheard' /\ unheard' \subseteq unheard \cup {a}
        /\ native' = [native EXCEPT !.reader[a] = "ending"]
        /\ state' = [b \in Adapters |-> IF b = native.sink /\ ~fields[b].disconnecting
                                        THEN "error" ELSE state[b]]
    BY <1>1 DEF VlinkerAndroid!Reports, VlinkerAndroid!ReaderStep, VlinkerAndroid!LinkLost,
                VlinkerAndroid!EndsQuietly, VlinkerAndroid!Fault, VlinkerAndroid!Quiet,
                VlinkerAndroid!Adapters, Adapters
  <2>2. /\ native' \in VlinkerNative /\ native'.sink = native.sink
        /\ native'.thread = native.thread /\ native'.open = native.open
        /\ native'.socket = native.socket
        /\ \A b \in Adapters \ {a} : native'.reader[b] = native.reader[b]
    BY <2>1 DEF VlinkerNative
  <2>3. unheard' \subseteq Adapters /\ state' \in [Adapters -> States]
    BY <2>1 DEF CallsInOrder, States
  <2>4. \A b \in Adapters : \/ state'[b] = state[b]
                            \/ /\ state'[b] = "error"
                               /\ native.sink = b
    BY <2>1
  <2>5. \A b \in Adapters : (state'[b] = "connected" /\ native.sink = b /\ ~fields[b].disconnecting)
                             => FALSE
    BY <2>1
  <2>q. QED BY <2>1, <2>2, <2>3, <2>4, <2>5, VlinkerReaderKeeps
<1>2. CASE ~VlinkerAndroid!Reports(a)
  <2>1. /\ UNCHANGED <<state, connect, release, fields, made, met>>
        /\ \/ unheard' = unheard \cup {a} /\ native' = [native EXCEPT !.reader[a] = "ending"]
           \/ /\ unheard' = unheard /\ native.reader[a] = "ending"
              /\ native' = [native EXCEPT !.open = @ \ {native.socket}, !.socket = None,
                                          !.reader[a] = "done"]
    BY <1>2 DEF VlinkerAndroid!ReaderStep, VlinkerAndroid!LinkLost, VlinkerAndroid!EndsQuietly,
                VlinkerAndroid!Quiet, VlinkerAndroid!Closed, VlinkerAndroid!None, None
  <2>2. CASE unheard' = unheard \cup {a} /\ native' = [native EXCEPT !.reader[a] = "ending"]
    <3>1. /\ native' \in VlinkerNative /\ native'.sink = native.sink
          /\ native'.thread = native.thread /\ native'.open = native.open
          /\ native'.socket = native.socket
          /\ \A b \in Adapters \ {a} : native'.reader[b] = native.reader[b]
      BY <2>2 DEF VlinkerNative
    <3>2. unheard' \subseteq Adapters /\ state' \in [Adapters -> States]
      BY <2>1, <2>2 DEF CallsInOrder
    <3>q. QED BY <2>1, <2>2, <3>1, <3>2, VlinkerReaderKeeps
  <2>3. CASE /\ unheard' = unheard /\ native.reader[a] = "ending"
             /\ native' = [native EXCEPT !.open = @ \ {native.socket}, !.socket = None,
                                         !.reader[a] = "done"]
    <3>1. /\ native' \in VlinkerNative /\ native'.sink = native.sink
          /\ native'.thread = native.thread
          /\ native'.open = native.open \ {native.socket} /\ native'.socket = None
          /\ \A b \in Adapters \ {a} : native'.reader[b] = native.reader[b]
      BY <2>3 DEF VlinkerNative
    <3>2. unheard' \subseteq Adapters /\ state' \in [Adapters -> States]
      BY <2>1, <2>3 DEF CallsInOrder
    <3>q. QED BY <2>1, <2>3, <3>1, <3>2, VlinkerReaderKeeps
  <2>q. QED BY <2>1, <2>2, <2>3
<1>q. QED BY <1>1, <1>2

LEMMA VlinkerMonitorEnds ==
    ASSUME VlinkerInv, NEW a \in Adapters, VlinkerAndroid!MonitorEnds(a) PROVE VlinkerInv'
<1> USE DEF VlinkerInv, VlinkerTypes
<1>1. /\ native.sink = a /\ UNCHANGED <<made, met, unheard, connect, release, native>>
      /\ fields' = [fields EXCEPT ![a].monitoring = FALSE]
      /\ state' = [state EXCEPT ![a] = "error"]
  BY DEF VlinkerAndroid!MonitorEnds, VlinkerAndroid!Hears, VlinkerAndroid!Show
<1>2. Typed(VlinkerWork, {"stopping"}) /\ Elsewhere(a) /\ state'[a] = "error"
  BY <1>1 DEF CallsInOrder, Typed, Elsewhere, States
<1>3. /\ fields' \in [Adapters -> VlinkerFields] /\ \A b \in Adapters \ {a} : fields'[b] = fields[b]
      /\ fields'[a].sub = fields[a].sub /\ fields'[a].disconnecting = fields[a].disconnecting
  BY <1>1 DEF VlinkerFields
<1>4. VlinkerAndroid!AtWork(a) /\ connect[a] \notin {"unused", "permission"}
  BY <1>1 DEF VlinkerAndroid!AtWork, VlinkerEarly
<1>5. a \notin met => VlinkerObject(a)' /\ (release[a] # "unused" => ~Pending(a)')
  BY <1>1, <1>2, <1>3 DEF VlinkerObject, CallsInOrder, Pending
<1>6. release' = release /\ connect' = connect /\ native' = native /\ made' = made
      /\ met' = met /\ unheard' = unheard
  BY <1>1
<1> HIDE DEF VlinkerInv, VlinkerTypes
<1>q. QED BY <1>2, <1>3, <1>4, <1>5, <1>6, VlinkerWorks

LEMMA VlinkerStep ==
    ASSUME VlinkerInv, NEW a \in Adapters,
           \/ VlinkerAndroid!ConnectStep(a) \/ VlinkerAndroid!ReleaseStep(a)
           \/ VlinkerAndroid!NativeStep(a) \/ VlinkerAndroid!Event(a)
    PROVE  VlinkerInv'
  BY VlinkerConnects, VlinkerAsked, VlinkerConnecting, VlinkerStops, VlinkerStopped,
     VlinkerThread, VlinkerReader, VlinkerMonitorEnds
     DEF VlinkerAndroid!ConnectStep, VlinkerAndroid!ReleaseStep, VlinkerAndroid!NativeStep,
         VlinkerAndroid!Event

LEMMA VlinkerPromise ==
    ASSUME VlinkerInv, kind = "vlinker android" PROVE KeepsPromise
  BY DEF KeepsPromise, InUse, Holds, VlinkerAndroid!InUse, VlinkerAndroid!Holds,
         VlinkerInv, VlinkerObject, VlinkerTypes, CallsInOrder, Pending

-----------------------------------------------------------------------------
(* The USB adapters on Windows, whose objects share the plugin and its     *)
(* queue of calls.                                                         *)
LEMMA UsbInit ==
    ASSUME GsUsb!Init \/ Canalystii!Init PROVE UsbInv
<1>1. /\ made = 0 /\ met = {} /\ unheard = {}
      /\ state = [a \in Adapters |-> "disconnected"]
      /\ connect = [a \in Adapters |-> "unused"]
      /\ release = [a \in Adapters |-> "unused"]
      /\ fields = [a \in Adapters |-> [on |-> FALSE, loop |-> "none"]]
      /\ native = [opener |-> None, lost |-> FALSE, calls |-> <<>>]
  BY DEF GsUsb!Init, GsUsb!InitWith, GsUsb!Adapters, GsUsb!Fresh, GsUsb!None, Canalystii!Init,
         Canalystii!InitWith, Canalystii!Adapters, Canalystii!Fresh, Canalystii!None, None,
         Adapters
<1>2. CallsInOrder({"opening"}, {"loop", "closing"})
  BY <1>1, BoundsAssumption DEF CallsInOrder, States, Pending, Adapters
<1>3. fields \in [Adapters -> UsbFields]
  BY <1>1 DEF UsbFields
<1>4. <<>> \in Seq(UsbCalls) /\ DOMAIN <<>> = {}
  OBVIOUS
<1>5. UsbTypes /\ UsbQueue
  BY <1>1, <1>2, <1>3, <1>4 DEF UsbTypes, UsbQueue, IsInjective, Range
<1>6. \A a \in Adapters : UsbEarly(a) /\ UsbObject(a)
  BY <1>1, BoundsAssumption DEF UsbEarly, UsbObject, None, Adapters
<1>7. UsbShared
  BY <1>1, BoundsAssumption DEF UsbShared, Adapters
<1>q. QED BY <1>5, <1>6, <1>7 DEF UsbInv

(* A call comes last, and the first one is done: no call is there twice.   *)
LEMMA UsbSent ==
    ASSUME NEW calls \in Seq(UsbCalls), IsInjective(calls), NEW call \in UsbCalls,
           call \notin Range(calls)
    PROVE  /\ Append(calls, call) \in Seq(UsbCalls) /\ IsInjective(Append(calls, call))
           /\ Range(Append(calls, call)) = Range(calls) \cup {call}
<1> DEFINE more == Append(calls, call)
<1>1. /\ more \in Seq(UsbCalls) /\ Len(calls) \in Nat /\ DOMAIN calls = 1 .. Len(calls)
      /\ DOMAIN more = 1 .. Len(calls) + 1
      /\ more[Len(calls) + 1] = call /\ \A i \in 1 .. Len(calls) : more[i] = calls[i]
  OBVIOUS
<1>2. \A i \in DOMAIN more : i \in DOMAIN calls \/ i = Len(calls) + 1
  BY <1>1
<1> HIDE DEF more
<1>3. IsInjective(more)
  BY <1>1, <1>2 DEF IsInjective, Range
<1>4. Range(more) = Range(calls) \cup {call}
  <2>1. Range(more) \subseteq Range(calls) \cup {call}
    BY <1>1, <1>2 DEF Range
  <2>2. call \in Range(more)
    BY <1>1 DEF Range
  <2>3. Range(calls) \subseteq Range(more)
    BY <1>1 DEF Range
  <2>q. QED BY <2>1, <2>2, <2>3
<1>q. QED BY <1>1, <1>3, <1>4 DEF more

LEMMA UsbDone ==
    ASSUME NEW calls \in Seq(UsbCalls), IsInjective(calls), calls # <<>>
    PROVE  /\ Head(calls) \in Range(calls) /\ Range(calls) \subseteq UsbCalls
           /\ Tail(calls) \in Seq(UsbCalls) /\ IsInjective(Tail(calls))
           /\ Range(Tail(calls)) = Range(calls) \ {Head(calls)}
<1> DEFINE rest == Tail(calls)
<1>1. /\ rest \in Seq(UsbCalls) /\ Len(calls) \in Nat \ {0} /\ DOMAIN calls = 1 .. Len(calls)
      /\ DOMAIN rest = 1 .. Len(calls) - 1 /\ Head(calls) = calls[1]
      /\ \A i \in 1 .. Len(calls) - 1 : rest[i] = calls[i + 1]
      /\ \A i \in 1 .. Len(calls) : calls[i] \in UsbCalls
  OBVIOUS
<1> HIDE DEF rest
<1>2. IsInjective(rest)
  <2>1. ASSUME NEW i \in DOMAIN rest, NEW j \in DOMAIN rest, rest[i] = rest[j] PROVE i = j
    <3>1. i + 1 \in DOMAIN calls /\ j + 1 \in DOMAIN calls /\ calls[i + 1] = calls[j + 1]
      BY <1>1, <2>1
    <3>2. i + 1 = j + 1
      BY <3>1 DEF IsInjective
    <3>q. QED BY <1>1, <3>2
  <2>q. QED BY <2>1 DEF IsInjective
<1>3. ASSUME NEW i \in DOMAIN calls PROVE calls[i] \in Range(rest) \cup {Head(calls)}
  <2>1. CASE i = 1
    BY <1>1, <2>1
  <2>2. CASE i # 1
    <3>1. i - 1 \in DOMAIN rest /\ rest[i - 1] = calls[i]
      BY <1>1, <2>2
    <3>q. QED BY <3>1 DEF Range
  <2>q. QED BY <2>1, <2>2
<1>4. ASSUME NEW i \in DOMAIN rest PROVE rest[i] \in Range(calls) /\ rest[i] # Head(calls)
  <2>1. i + 1 \in DOMAIN calls /\ 1 \in DOMAIN calls /\ i + 1 # 1 /\ rest[i] = calls[i + 1]
    BY <1>1
  <2>q. QED BY <1>1, <2>1 DEF Range, IsInjective
<1>5. Range(rest) = Range(calls) \ {Head(calls)}
  BY <1>3, <1>4 DEF Range
<1>6. Head(calls) \in Range(calls) /\ Range(calls) \subseteq UsbCalls
  BY <1>1 DEF Range
<1>q. QED BY <1>1, <1>2, <1>5, <1>6 DEF rest

(* An object at work on which no calls met is alone.                       *)
LEMMA UsbAlone ==
    ASSUME UsbInv, NEW a \in Adapters, GsUsb!AtWork(a) \/ a = made
    PROVE  /\ a <= made /\ (a \notin met => a = made)
           /\ \A b \in Adapters \ {a} : b \notin met \/ a \notin met => ~GsUsb!AtWork(b)
<1> USE DEF UsbInv, UsbTypes
<1>1. \A b \in Adapters : b > made => ~GsUsb!AtWork(b)
  BY DEF CallsInOrder, UsbEarly, GsUsb!AtWork, GsUsb!Pending, GsUsb!Releasing
<1>2. made \in Nat /\ Adapters \subseteq Nat
  BY BoundsAssumption DEF CallsInOrder, Adapters
<1>3. \A b \in Adapters : b < made /\ (b \notin met \/ made \notin met) => ~GsUsb!AtWork(b)
  BY DEF UsbShared
<1>4. a <= made /\ (a \notin met => a = made)
  BY <1>1, <1>2, <1>3
<1>5. ASSUME NEW b \in Adapters \ {a}, b \notin met \/ a \notin met PROVE ~GsUsb!AtWork(b)
  BY <1>1, <1>2, <1>3, <1>4, <1>5
<1>q. QED BY <1>4, <1>5

(* A step of an object, which takes or gives up the device only at work.   *)
LEMMA UsbKept ==
    ASSUME UsbInv, NEW a \in Adapters, UsbTypes', UsbQueue',
           made' = made, met \subseteq met', Elsewhere(a),
           \A b \in Adapters \ {a} : fields'[b] = fields[b],
           native'.opener \in {native.opener, None, a},
           native'.opener # native.opener => GsUsb!AtWork(a),
           GsUsb!AtWork(a)' => GsUsb!AtWork(a) \/ a = made,
           release[a] # "unused" => release'[a] # "unused",
           UsbEarly(a)', a \notin met' => UsbObject(a)'
    PROVE  UsbInv'
<1>1. None \notin Adapters /\ Adapters \subseteq Nat
  BY BoundsAssumption DEF Adapters, None
<1>2. ASSUME NEW b \in Adapters \ {a}, ~GsUsb!AtWork(b) PROVE ~GsUsb!AtWork(b)'
  BY <1>1, <1>2 DEF GsUsb!AtWork, GsUsb!Pending, GsUsb!Releasing, Elsewhere
<1>3. ASSUME NEW b \in Adapters \ {a} PROVE UsbEarly(b)'
  BY <1>1 DEF UsbInv, UsbEarly, Elsewhere
<1>4. ASSUME NEW b \in Adapters \ {a}, b \notin met' PROVE UsbObject(b)'
  <2>1. UsbObject(b) /\ b \notin met
    BY <1>4 DEF UsbInv
  <2>2. native.opener = b => native'.opener = b
    BY <2>1, UsbAlone DEF GsUsb!AtWork
  <2>3. native'.opener = b => native.opener = b
    BY <1>1
  <2>q. QED BY <2>1, <2>2, <2>3 DEF UsbObject, Elsewhere, GsUsb!Polls
<1>5. UsbShared'
  <2>1. ASSUME NEW b \in Adapters, b < made', b \notin met' \/ made' \notin met'
        PROVE  ~GsUsb!AtWork(b)'
    <3>1. ~GsUsb!AtWork(b)
      BY <2>1 DEF UsbInv, UsbShared
    <3>2. CASE b = a
      BY <3>1, <3>2, <2>1, <1>1
    <3>q. QED BY <3>1, <3>2, <1>2
  <2>2. \A b \in Adapters : b < made' => release'[b] # "unused"
    BY DEF UsbInv, UsbShared, Elsewhere
  <2>q. QED BY <2>1, <2>2 DEF UsbShared
<1>q. QED BY <1>3, <1>4, <1>5 DEF UsbInv

LEMMA UsbConnects ==
    ASSUME UsbInv, NEW a \in Adapters, GsUsb!Connect(a) \/ Canalystii!Connect(a)
    PROVE  UsbInv'
<1> DEFINE others == {b \in 1 .. made : GsUsb!AtWork(b)}
           call == [by |-> a, what |-> "open"]
<1>1. /\ a = made + 1 /\ made' = a /\ UNCHANGED <<unheard, release, fields>>
      /\ \A b \in 1 .. made : release[b] # "unused"
      /\ met' = met \cup IF others = {} THEN {} ELSE others \cup {a}
      /\ connect' = [connect EXCEPT ![a] = "opening"]
      /\ state' = [state EXCEPT ![a] = "connecting"]
      /\ native' = [native EXCEPT !.calls = Append(native.calls, call)]
  <2>1. CASE GsUsb!Connect(a)
    BY <2>1 DEF GsUsb!Connect, GsUsb!Begin, GsUsb!Show, GsUsb!Go, GsUsb!Send
  <2>2. CASE Canalystii!Connect(a)
    <3>1. others = {b \in 1 .. made : Canalystii!AtWork(b)}
      BY DEF GsUsb!AtWork, GsUsb!Pending, GsUsb!Releasing, Canalystii!AtWork,
             Canalystii!Pending, Canalystii!Releasing
    <3> HIDE DEF others
    <3>q. QED BY <2>2, <3>1 DEF Canalystii!Connect, Canalystii!Begin, Canalystii!Show,
                                Canalystii!Go, Canalystii!Send
  <2>q. QED BY <2>1, <2>2
<1> USE DEF UsbInv, UsbTypes
<1>2. /\ a \notin met /\ connect[a] = "unused" /\ release[a] = "unused"
      /\ made \in Nat /\ Adapters \subseteq Nat \ {0}
      /\ 1 .. made = {b \in Adapters : b < a}
  BY <1>1, BoundsAssumption DEF CallsInOrder, Adapters
<1>3. Typed({"opening"}, {"loop", "closing"}) /\ Elsewhere(a) /\ connect'[a] = "opening"
  BY <1>1 DEF CallsInOrder, States, Typed, Elsewhere
<1>4. met \subseteq met' /\ met' \subseteq met \cup 1 .. a
  BY <1>1, <1>2
<1>5. CallsInOrder({"opening"}, {"loop", "closing"})'
  BY <1>1, <1>3, <1>4, CallsBegin
<1>6. call \in UsbCalls /\ call \notin Range(native.calls)
  BY <1>2 DEF UsbCalls, UsbQueue, Waits
<1>7. /\ Append(native.calls, call) \in Seq(UsbCalls)
      /\ IsInjective(Append(native.calls, call))
      /\ Range(Append(native.calls, call)) = Range(native.calls) \cup {call}
  BY <1>6, UsbSent DEF UsbQueue
<1>8. /\ native'.opener = native.opener /\ native'.calls = Append(native.calls, call)
      /\ native' \in [opener : {None} \cup Adapters, lost : BOOLEAN, calls : Seq(UsbCalls)]
  BY <1>1, <1>7
<1>9. UsbQueue'
  <2>1. \A c \in Range(native.calls) : c.by # a \/ c.what # "open"
    BY <1>2 DEF UsbQueue, Waits
  <2>2. \A c \in Range(native.calls) : c \in UsbCalls
    BY DEF Range
  <2>3. ASSUME NEW c \in Range(native.calls) PROVE Waits(c)'
    BY <1>1, <1>3, <2>1, <2>2 DEF UsbQueue, Waits, Elsewhere, UsbCalls
  <2>4. Waits(call)'
    BY <1>3 DEF Waits
  <2> HIDE DEF call
  <2>q. QED BY <1>7, <1>8, <2>3, <2>4 DEF UsbQueue
<1>10. \A b \in Adapters : UsbEarly(b)'
  BY <1>1, <1>2, <1>3, <1>8 DEF UsbEarly, Elsewhere
<1>11. UsbObject(a)'
  BY <1>1, <1>2, <1>3, <1>8 DEF UsbObject, CallsInOrder
<1>12. ASSUME NEW b \in Adapters \ {a}, b \notin met' PROVE UsbObject(b)'
  BY <1>1, <1>3, <1>4, <1>8, <1>12 DEF UsbObject, Elsewhere, GsUsb!Polls
<1>13. UsbShared'
  <2>1. ASSUME NEW b \in Adapters, b < made', b \notin met' \/ made' \notin met'
        PROVE  ~GsUsb!AtWork(b)'
    <3>1. b \in 1 .. made
      BY <1>1, <1>2, <2>1
    <3>2. ~GsUsb!AtWork(b)
      BY <1>1, <2>1, <3>1
    <3>q. QED BY <1>1, <1>2, <1>3, <1>8, <3>1, <3>2
              DEF GsUsb!AtWork, GsUsb!Pending, GsUsb!Releasing, Elsewhere
  <2>q. QED BY <2>1, <1>1, <1>2 DEF UsbShared
<1>q. QED BY <1>1, <1>5, <1>8, <1>9, <1>10, <1>11, <1>12, <1>13

(* The plugin has opened the device, or could not.                         *)
LEMMA UsbOpens ==
    ASSUME UsbInv, NEW a \in Adapters, UNCHANGED <<made, met, unheard>>,
           native.calls # <<>>, Head(native.calls) = [by |-> a, what |-> "open"],
           GsUsb!Opens(a) \/ Canalystii!Opens(a)
    PROVE  UsbInv'
<1> DEFINE rest == Tail(native.calls)
           read == [by |-> a, what |-> "read"]
<1>1. /\ release' = release
      /\ \/ /\ connect' = [connect EXCEPT ![a] = "returned"]
            /\ state' = [state EXCEPT ![a] = "connected"]
            /\ fields' = [fields EXCEPT ![a] = [on |-> TRUE, loop |-> "reading"]]
            /\ native' = [opener |-> a, lost |-> FALSE, calls |-> Append(rest, read)]
         \/ /\ connect' = [connect EXCEPT ![a] = "threw"] /\ fields' = fields
            /\ state' = [state EXCEPT ![a] = "error"]
            /\ native' = [native EXCEPT !.opener = None, !.lost = FALSE, !.calls = rest]
  BY DEF GsUsb!Opens, GsUsb!Go, GsUsb!Show, GsUsb!Rest, GsUsb!NotOpen, GsUsb!None,
         Canalystii!Opens, Canalystii!Go, Canalystii!Show, Canalystii!Rest,
         Canalystii!NotOpen, Canalystii!None, None
<1> USE DEF UsbInv, UsbTypes
<1>2. /\ [by |-> a, what |-> "open"] \in Range(native.calls)
      /\ rest \in Seq(UsbCalls) /\ IsInjective(rest)
      /\ Range(rest) = Range(native.calls) \ {[by |-> a, what |-> "open"]}
      /\ Range(native.calls) \subseteq UsbCalls
  BY UsbDone DEF UsbQueue
<1> HIDE DEF rest
<1>3. connect[a] = "opening" /\ GsUsb!AtWork(a) /\ Pending(a)
  BY <1>2 DEF UsbQueue, Waits, GsUsb!AtWork, GsUsb!Pending, Pending
<1>4. ~fields[a].on /\ fields[a].loop = "none" /\ native.opener # a
  BY <1>3 DEF UsbEarly
<1>5. \A c \in Range(rest) : /\ c \in UsbCalls /\ Waits(c) /\ c # [by |-> a, what |-> "open"]
                             /\ c # read
  BY <1>2, <1>4 DEF UsbQueue, Waits
<1>6. \A c \in Range(rest) : c.by = a => c.what = "close"
  BY <1>5 DEF UsbCalls
<1>7. /\ Append(rest, read) \in Seq(UsbCalls) /\ IsInjective(Append(rest, read))
      /\ Range(Append(rest, read)) = Range(rest) \cup {read}
  <2>1. read \in UsbCalls /\ read \notin Range(rest)
    BY <1>5 DEF UsbCalls
  <2>q. QED BY <1>2, <2>1, UsbSent
<1>8. /\ state' \in [Adapters -> States]
      /\ connect' \in [Adapters -> {"unused", "returned", "threw"} \cup {"opening"}]
      /\ \A b \in Adapters \ {a} : state'[b] = state[b] /\ connect'[b] = connect[b]
      /\ connect'[a] \in {"returned", "threw"}
  <2>1. \E v \in {"connected", "error"} : state' = [state EXCEPT ![a] = v]
    BY <1>1
  <2>2. \E v \in {"returned", "threw"} : connect' = [connect EXCEPT ![a] = v]
    BY <1>1
  <2>3. /\ state \in [Adapters -> States]
        /\ connect \in [Adapters -> {"unused", "returned", "threw"} \cup {"opening"}]
    BY DEF CallsInOrder
  <2> HIDE DEF UsbInv, UsbTypes
  <2>4. state' \in [Adapters -> States] /\ \A b \in Adapters \ {a} : state'[b] = state[b]
    BY <2>1, <2>3, Updated DEF States
  <2>q. QED BY <2>2, <2>3, <2>4, Updated
<1>9. /\ fields' \in [Adapters -> UsbFields]
      /\ \A b \in Adapters \ {a} : fields'[b] = fields[b]
  <2>1. CASE fields' = [fields EXCEPT ![a] = [on |-> TRUE, loop |-> "reading"]]
    BY <2>1 DEF UsbFields
  <2>q. QED BY <1>1, <2>1
<1>10. Typed({"opening"}, {"loop", "closing"}) /\ Elsewhere(a)
  BY <1>1, <1>8 DEF Typed, Elsewhere, CallsInOrder
<1>11. CallsInOrder({"opening"}, {"loop", "closing"})'
  BY <1>3, <1>8, <1>10, CallsGoOn DEF Pending
<1>12. /\ native' \in [opener : {None} \cup Adapters, lost : BOOLEAN, calls : Seq(UsbCalls)]
       /\ \/ native'.opener = a /\ native'.calls = Append(rest, read)
          \/ native'.opener = None /\ native'.calls = rest
  <2>1. CASE native' = [opener |-> a, lost |-> FALSE, calls |-> Append(rest, read)]
    BY <2>1, <1>7
  <2>2. CASE native' = [native EXCEPT !.opener = None, !.lost = FALSE, !.calls = rest]
    BY <2>2, <1>2
  <2>q. QED BY <1>1, <2>1, <2>2
<1>13. \A c \in Range(rest) : Waits(c)'
  BY <1>1, <1>5, <1>6, <1>8, <1>9 DEF Waits, UsbCalls
<1>14. UsbQueue' /\ UsbEarly(a)' /\ (a \notin met => UsbObject(a)')
  <2>1. CASE connect'[a] = "returned"
    <3>1. /\ state'[a] = "connected" /\ native'.opener = a
          /\ fields'[a] = [on |-> TRUE, loop |-> "reading"]
          /\ native'.calls = Append(rest, read)
      <4>1. /\ state' = [state EXCEPT ![a] = "connected"]
            /\ fields' = [fields EXCEPT ![a] = [on |-> TRUE, loop |-> "reading"]]
            /\ native' = [opener |-> a, lost |-> FALSE, calls |-> Append(rest, read)]
        BY <1>1, <2>1 DEF CallsInOrder
      <4>q. QED BY <4>1 DEF CallsInOrder
    <3>2. Waits(read)'
      BY <3>1 DEF Waits
    <3>3. a \notin met => release'[a] = "unused"
      BY <1>1, <1>3 DEF CallsInOrder
    <3> HIDE DEF read
    <3>q. QED BY <2>1, <3>1, <3>2, <3>3, <1>7, <1>13 DEF UsbQueue, UsbEarly, UsbObject, GsUsb!Polls
  <2>2. CASE connect'[a] = "threw"
    <3>1. /\ state'[a] = "error" /\ native'.opener = None /\ fields' = fields
          /\ native'.calls = rest
      <4>1. connect' # [connect EXCEPT ![a] = "returned"]
        BY <2>2 DEF CallsInOrder
      <4>2. /\ state' = [state EXCEPT ![a] = "error"] /\ fields' = fields
            /\ native' = [native EXCEPT !.opener = None, !.lost = FALSE, !.calls = rest]
        BY <1>1, <4>1
      <4>q. QED BY <4>2 DEF CallsInOrder
    <3>2. None \notin Adapters
      BY BoundsAssumption DEF None, Adapters
    <3>q. QED BY <2>2, <3>1, <3>2, <1>2, <1>4, <1>13 DEF UsbQueue, UsbEarly, UsbObject
  <2>q. QED BY <1>8, <2>1, <2>2
<1>15. native'.opener \in {native.opener, None, a}
  BY <1>12
<1> HIDE DEF UsbInv
<1>q. QED BY <1>1, <1>3, <1>9, <1>10, <1>11, <1>12, <1>14, <1>15, UsbKept

(* A loop has read from the device, or has met its end.                    *)
LEMMA UsbReads ==
    ASSUME UsbInv, NEW a \in Adapters, UNCHANGED <<made, met, unheard>>,
           native.calls # <<>>, Head(native.calls) = [by |-> a, what |-> "read"],
           GsUsb!Reads(a) \/ Canalystii!Reads(a)
    PROVE  UsbInv'
<1> DEFINE rest == Tail(native.calls)
<1> USE DEF UsbInv, UsbTypes
<1>1. /\ UNCHANGED <<connect, release>> /\ native' = [native EXCEPT !.calls = rest]
      /\ \/ /\ state' = IF fields[a].on THEN [state EXCEPT ![a] = "error"] ELSE state
            /\ fields' = [fields EXCEPT ![a] = [on |-> FALSE, loop |-> "none"]]
               \/ fields' = [fields EXCEPT ![a] = [on |-> fields[a].on, loop |-> "none"]]
         \/ fields' = [fields EXCEPT ![a].loop = "pausing"] /\ state' = state
  BY DEF GsUsb!Reads, GsUsb!Show, GsUsb!Rest, GsUsb!None, Canalystii!Reads, Canalystii!Show,
         Canalystii!Rest, Canalystii!None, None, UsbFields
<1>2. /\ [by |-> a, what |-> "read"] \in Range(native.calls)
      /\ rest \in Seq(UsbCalls) /\ IsInjective(rest)
      /\ Range(rest) = Range(native.calls) \ {[by |-> a, what |-> "read"]}
      /\ Range(native.calls) \subseteq UsbCalls
  BY UsbDone DEF UsbQueue
<1> HIDE DEF rest
<1>3. fields[a].loop = "reading" /\ connect[a] = "returned"
  BY <1>2 DEF UsbQueue, Waits, UsbEarly
<1>4. \A c \in Range(rest) : /\ c \in UsbCalls /\ Waits(c)
                             /\ c.by = a => c.what # "read"
  BY <1>2 DEF UsbQueue, UsbCalls
<1>5. /\ fields' \in [Adapters -> UsbFields]
      /\ \A b \in Adapters \ {a} : fields'[b] = fields[b]
      /\ fields'[a].on => fields[a].on
      /\ \/ /\ fields[a].on => state'[a] = "error"
            /\ ~fields[a].on => state' = state
         \/ state' = state /\ fields'[a] = [on |-> fields[a].on, loop |-> "pausing"]
  <2>1. CASE fields' = [fields EXCEPT ![a].loop = "pausing"] /\ state' = state
    BY <2>1 DEF UsbFields
  <2>2. CASE /\ state' = IF fields[a].on THEN [state EXCEPT ![a] = "error"] ELSE state
             /\ fields' = [fields EXCEPT ![a] = [on |-> FALSE, loop |-> "none"]]
    BY <2>2 DEF UsbFields, CallsInOrder
  <2>3. CASE /\ state' = IF fields[a].on THEN [state EXCEPT ![a] = "error"] ELSE state
             /\ fields' = [fields EXCEPT ![a] = [on |-> fields[a].on, loop |-> "none"]]
    BY <2>3 DEF UsbFields, CallsInOrder
  <2>q. QED BY <1>1, <2>1, <2>2, <2>3
<1>6. Typed({"opening"}, {"loop", "closing"}) /\ Elsewhere(a)
  BY <1>1 DEF Typed, Elsewhere, CallsInOrder, States
<1>7. CallsInOrder({"opening"}, {"loop", "closing"})'
  BY <1>1, <1>3, <1>6, CallsGoOn DEF Pending
<1>8. /\ native' \in [opener : {None} \cup Adapters, lost : BOOLEAN, calls : Seq(UsbCalls)]
      /\ native'.opener = native.opener /\ native'.calls = rest
  BY <1>1, <1>2
<1>9. UsbQueue'
  BY <1>1, <1>2, <1>4, <1>5, <1>8 DEF UsbQueue, Waits, UsbCalls
<1>10. UsbEarly(a)'
  BY <1>1, <1>3 DEF UsbEarly
<1>11. ASSUME a \notin met PROVE UsbObject(a)'
  <2>1. UsbObject(a)
    BY <1>11
  <2>q. QED BY <1>1, <1>3, <1>5, <1>8, <2>1 DEF UsbObject, GsUsb!Polls
<1>12. GsUsb!AtWork(a)' => GsUsb!AtWork(a)
  BY <1>1, <1>5, <1>8 DEF GsUsb!AtWork, GsUsb!Pending, GsUsb!Releasing
<1> HIDE DEF UsbInv
<1>q. QED BY <1>1, <1>5, <1>6, <1>7, <1>8, <1>9, <1>10, <1>11, <1>12, UsbKept DEF UsbTypes

(* The plugin has closed the device.                                       *)
LEMMA UsbCloses ==
    ASSUME UsbInv, NEW a \in Adapters, UNCHANGED <<made, met, unheard>>,
           native.calls # <<>>, Head(native.calls) = [by |-> a, what |-> "close"],
           GsUsb!Closes(a) \/ Canalystii!Closes(a)
    PROVE  UsbInv'
<1> DEFINE rest == Tail(native.calls)
<1> USE DEF UsbInv, UsbTypes
<1>1. /\ UNCHANGED <<connect, fields>>
      /\ native' = [native EXCEPT !.opener = None, !.lost = FALSE, !.calls = rest]
      /\ release' = [release EXCEPT ![a] = "over"]
      /\ state' = [state EXCEPT ![a] = "disconnected"]
  BY DEF GsUsb!Closes, GsUsb!Show, GsUsb!Rest, GsUsb!NotOpen, GsUsb!Ends, GsUsb!Wait,
         GsUsb!None, Canalystii!Closes, Canalystii!Show, Canalystii!Rest, Canalystii!NotOpen,
         Canalystii!Ends, Canalystii!Wait, Canalystii!None, None
<1>2. /\ [by |-> a, what |-> "close"] \in Range(native.calls)
      /\ rest \in Seq(UsbCalls) /\ IsInjective(rest)
      /\ Range(rest) = Range(native.calls) \ {[by |-> a, what |-> "close"]}
      /\ Range(native.calls) \subseteq UsbCalls
  BY UsbDone DEF UsbQueue
<1> HIDE DEF rest
<1>3. release[a] = "closing" /\ GsUsb!AtWork(a) /\ connect[a] # "unused"
  BY <1>2, BoundsAssumption
     DEF UsbQueue, Waits, GsUsb!AtWork, GsUsb!Releasing, CallsInOrder, Adapters
<1>4. \A c \in Range(rest) : /\ c \in UsbCalls /\ Waits(c)
                             /\ c.by = a => c.what # "close"
  BY <1>2 DEF UsbQueue, UsbCalls
<1>5. /\ state' \in [Adapters -> States] /\ \A b \in Adapters \ {a} : state'[b] = state[b]
      /\ release' \in [Adapters -> {"unused", "over"} \cup {"loop", "closing"}]
      /\ \A b \in Adapters \ {a} : release'[b] = release[b]
      /\ release'[a] = "over" /\ state'[a] = "disconnected"
  BY <1>1 DEF CallsInOrder, States
<1>6. Typed({"opening"}, {"loop", "closing"}) /\ Elsewhere(a)
  BY <1>1, <1>5 DEF Typed, Elsewhere, CallsInOrder
<1>7. a \notin met => ~Pending(a)'
  BY <1>1, <1>3 DEF CallsInOrder, Pending
<1>8. CallsInOrder({"opening"}, {"loop", "closing"})'
  BY <1>1, <1>3, <1>6, <1>7, CallsGoOn
<1>9. /\ native' \in [opener : {None} \cup Adapters, lost : BOOLEAN, calls : Seq(UsbCalls)]
      /\ native'.opener = None /\ native'.calls = rest
  BY <1>1, <1>2
<1>10. UsbQueue'
  BY <1>1, <1>2, <1>4, <1>5, <1>9 DEF UsbQueue, Waits, UsbCalls
<1>11. None \notin Adapters
  BY BoundsAssumption DEF None, Adapters
<1>12. UsbEarly(a)' /\ (a \notin met => UsbObject(a)')
  BY <1>1, <1>3, <1>5, <1>9, <1>11 DEF UsbEarly, UsbObject
<1>13. /\ UsbTypes' /\ native'.opener \in {native.opener, None, a}
       /\ GsUsb!AtWork(a)' => GsUsb!AtWork(a)
  BY <1>1, <1>3, <1>8, <1>9
<1>14. \A b \in Adapters \ {a} : fields'[b] = fields[b]
  BY <1>1
<1> HIDE DEF UsbInv, UsbTypes
<1>q. QED BY <1>1, <1>3, <1>5, <1>6, <1>10, <1>12, <1>13, <1>14, UsbKept

LEMMA UsbPlugin ==
    ASSUME UsbInv, GsUsb!PluginStep \/ Canalystii!PluginStep PROVE UsbInv'
<1> DEFINE call == Head(native.calls)
<1>1. /\ native.calls # <<>> /\ UNCHANGED <<made, met, unheard>>
      /\ \/ call.what = "open" /\ (GsUsb!Opens(call.by) \/ Canalystii!Opens(call.by))
         \/ call.what = "read" /\ (GsUsb!Reads(call.by) \/ Canalystii!Reads(call.by))
         \/ call.what = "close" /\ (GsUsb!Closes(call.by) \/ Canalystii!Closes(call.by))
  BY DEF GsUsb!PluginStep, GsUsb!Quiet, Canalystii!PluginStep, Canalystii!Quiet
<1>2. call \in UsbCalls
  BY <1>1, UsbDone DEF UsbInv, UsbTypes, UsbQueue
<1>3. call.by \in Adapters /\ call = [by |-> call.by, what |-> call.what]
  BY <1>2 DEF UsbCalls
<1>q. QED BY <1>1, <1>3, UsbOpens, UsbReads, UsbCloses

(* A loop goes on with the next read, or ends.                             *)
LEMMA UsbLoops ==
    ASSUME UsbInv, NEW a \in Adapters, GsUsb!LoopStep(a) \/ Canalystii!LoopStep(a)
    PROVE  UsbInv'
<1> DEFINE read == [by |-> a, what |-> "read"]
<1> USE DEF UsbInv, UsbTypes
<1>1. /\ fields[a].loop = "pausing"
      /\ UNCHANGED <<made, met, unheard, state, connect, release>>
      /\ \/ /\ fields' = [fields EXCEPT ![a].loop = "reading"]
            /\ native' = [native EXCEPT !.calls = Append(native.calls, read)]
         \/ /\ ~fields[a].on \/ state[a] # "connected"
            /\ fields' = [fields EXCEPT ![a].loop = "none"] /\ native' = native
  BY DEF GsUsb!LoopStep, GsUsb!Quiet, GsUsb!Send, Canalystii!LoopStep, Canalystii!Quiet,
         Canalystii!Send
<1>2. connect[a] = "returned"
  BY <1>1 DEF UsbEarly
<1>3. \A c \in Range(native.calls) : /\ c \in UsbCalls /\ Waits(c)
                                     /\ c.by = a => c.what # "read"
  <2>1. \A c \in Range(native.calls) : c \in UsbCalls
    BY DEF Range
  <2>q. QED BY <1>1, <2>1 DEF UsbQueue, UsbCalls, Waits
<1>4. /\ Append(native.calls, read) \in Seq(UsbCalls)
      /\ IsInjective(Append(native.calls, read))
      /\ Range(Append(native.calls, read)) = Range(native.calls) \cup {read}
  <2>1. read \in UsbCalls /\ read \notin Range(native.calls)
    BY <1>3 DEF UsbCalls
  <2>q. QED BY <2>1, UsbSent DEF UsbQueue
<1>5. /\ fields' \in [Adapters -> UsbFields]
      /\ \A b \in Adapters \ {a} : fields'[b] = fields[b]
      /\ fields'[a].on = fields[a].on
      /\ \/ /\ fields'[a].loop = "reading"
            /\ native' = [native EXCEPT !.calls = Append(native.calls, read)]
         \/ /\ ~fields[a].on \/ state[a] # "connected"
            /\ native' = native
  <2>1. CASE /\ fields' = [fields EXCEPT ![a].loop = "reading"]
             /\ native' = [native EXCEPT !.calls = Append(native.calls, read)]
    BY <2>1 DEF UsbFields
  <2>2. CASE /\ ~fields[a].on \/ state[a] # "connected"
             /\ fields' = [fields EXCEPT ![a].loop = "none"] /\ native' = native
    BY <2>2 DEF UsbFields
  <2>q. QED BY <1>1, <2>1, <2>2
<1>6. /\ native' \in [opener : {None} \cup Adapters, lost : BOOLEAN, calls : Seq(UsbCalls)]
      /\ native'.opener = native.opener
      /\ \/ fields'[a].loop = "reading" /\ native'.calls = Append(native.calls, read)
         \/ native'.calls = native.calls
  BY <1>4, <1>5
<1>7. Typed({"opening"}, {"loop", "closing"}) /\ Elsewhere(a)
  BY <1>1 DEF Typed, Elsewhere, CallsInOrder
<1>8. CallsInOrder({"opening"}, {"loop", "closing"})'
  BY <1>1, <1>2, <1>7, CallsGoOn DEF CallsInOrder, Pending
<1>9. \A c \in Range(native.calls) : Waits(c)'
  BY <1>1, <1>3, <1>5 DEF Waits, UsbCalls
<1>10. UsbQueue'
  <2>1. CASE fields'[a].loop = "reading" /\ native'.calls = Append(native.calls, read)
    <3>1. Waits(read)'
      BY <2>1 DEF Waits
    <3> HIDE DEF read
    <3>q. QED BY <1>4, <1>9, <2>1, <3>1 DEF UsbQueue
  <2>2. CASE native'.calls = native.calls
    BY <1>9, <2>2 DEF UsbQueue
  <2>q. QED BY <1>6, <2>1, <2>2
<1>11. UsbEarly(a)' /\ (a \notin met => UsbObject(a)')
  BY <1>1, <1>2, <1>5, <1>6 DEF UsbEarly, UsbObject, GsUsb!Polls
<1>12. GsUsb!AtWork(a)' => GsUsb!AtWork(a)
  BY <1>1, <1>5, <1>6 DEF GsUsb!AtWork, GsUsb!Pending, GsUsb!Releasing
<1>13. UsbTypes'
  BY <1>5, <1>6, <1>8
<1> HIDE DEF UsbInv, UsbTypes
<1>q. QED BY <1>1, <1>5, <1>6, <1>7, <1>10, <1>11, <1>12, <1>13, UsbKept

(* disconnect() tells the loop to end, waits for it, or sends its call.    *)
LEMMA UsbDisconnects ==
    ASSUME UsbInv, NEW a \in Adapters,
           \/ GsUsb!Disconnect(a) \/ GsUsb!LoopAwaited(a)
           \/ Canalystii!Disconnect(a) \/ Canalystii!LoopAwaited(a)
    PROVE  UsbInv'
<1> DEFINE call == [by |-> a, what |-> "close"]
<1> USE DEF UsbInv, UsbTypes
<1>1. /\ UNCHANGED <<made, unheard, state, connect>> /\ met \subseteq met'
      /\ met' \subseteq met \cup {a}
      /\ \/ /\ connect[a] # "unused" /\ release[a] = "unused"
            /\ Pending(a) => a \in met'
            /\ fields' = [fields EXCEPT ![a].on = FALSE]
         \/ release[a] = "loop" /\ fields' = fields
      /\ \/ release' = [release EXCEPT ![a] = "loop"] /\ native' = native
         \/ /\ release' = [release EXCEPT ![a] = "closing"]
            /\ native' = [native EXCEPT !.calls = Append(native.calls, call)]
  BY DEF GsUsb!Disconnect, GsUsb!LoopAwaited, GsUsb!Called, GsUsb!Wait, GsUsb!Send, GsUsb!Is,
         GsUsb!Quiet, GsUsb!Pending, Canalystii!Disconnect, Canalystii!LoopAwaited,
         Canalystii!Called, Canalystii!Wait, Canalystii!Send, Canalystii!Is, Canalystii!Quiet,
         Canalystii!Pending, Pending
<1>2. /\ connect[a] # "unused" /\ release[a] \in {"unused", "loop"}
      /\ GsUsb!AtWork(a) \/ a = made
  <2>1. CASE connect[a] # "unused" /\ release[a] = "unused"
    BY <2>1, BoundsAssumption DEF CallsInOrder, Adapters, UsbShared
  <2>2. CASE release[a] = "loop"
    <3>1. connect[a] # "unused"
      BY <2>2 DEF CallsInOrder
    <3>2. GsUsb!AtWork(a)
      BY <2>2 DEF GsUsb!AtWork, GsUsb!Releasing
    <3>q. QED BY <2>2, <3>1, <3>2
  <2>q. QED BY <1>1, <2>1, <2>2
<1>3. \A c \in Range(native.calls) : /\ c \in UsbCalls /\ Waits(c)
                                     /\ c.by = a => c.what # "close"
  <2>1. \A c \in Range(native.calls) : c \in UsbCalls
    BY DEF Range
  <2>q. QED BY <1>2, <2>1 DEF UsbQueue, UsbCalls, Waits
<1>4. /\ Append(native.calls, call) \in Seq(UsbCalls)
      /\ IsInjective(Append(native.calls, call))
      /\ Range(Append(native.calls, call)) = Range(native.calls) \cup {call}
  <2>1. call \in UsbCalls /\ call \notin Range(native.calls)
    BY <1>3 DEF UsbCalls
  <2>q. QED BY <2>1, UsbSent DEF UsbQueue
<1>5. /\ fields' \in [Adapters -> UsbFields]
      /\ \A b \in Adapters \ {a} : fields'[b] = fields[b]
      /\ fields'[a].loop = fields[a].loop
      /\ release[a] = "unused" => ~fields'[a].on
      /\ fields'[a].on => fields[a].on
  <2>1. CASE fields' = [fields EXCEPT ![a].on = FALSE]
    BY <2>1 DEF UsbFields
  <2>2. CASE fields' = fields /\ release[a] = "loop"
    BY <2>2
  <2>q. QED BY <1>1, <2>1, <2>2
<1>6. /\ release' \in [Adapters -> {"unused", "over"} \cup {"loop", "closing"}]
      /\ \A b \in Adapters \ {a} : release'[b] = release[b]
      /\ release'[a] \in {"loop", "closing"}
  BY <1>1 DEF CallsInOrder
<1>7. /\ native' \in [opener : {None} \cup Adapters, lost : BOOLEAN, calls : Seq(UsbCalls)]
      /\ native'.opener = native.opener
      /\ \/ release'[a] = "closing" /\ native'.calls = Append(native.calls, call)
         \/ native'.calls = native.calls
  <2>1. CASE release' = [release EXCEPT ![a] = "closing"]
             /\ native' = [native EXCEPT !.calls = Append(native.calls, call)]
    <3>1. release'[a] = "closing"
      BY <2>1 DEF CallsInOrder
    <3>q. QED BY <1>4, <2>1, <3>1
  <2>2. CASE native' = native
    BY <2>2
  <2>q. QED BY <1>1, <2>1, <2>2
<1>8. Typed({"opening"}, {"loop", "closing"}) /\ Elsewhere(a)
  BY <1>1, <1>6 DEF Typed, Elsewhere, CallsInOrder
<1>9. a \notin met' => ~Pending(a)' /\ a \notin met
  BY <1>1 DEF CallsInOrder, Pending
<1>10. CallsInOrder({"opening"}, {"loop", "closing"})'
  BY <1>1, <1>2, <1>8, <1>9, CallsGoOn
<1>11. \A c \in Range(native.calls) : Waits(c)'
  BY <1>1, <1>3, <1>5, <1>6 DEF Waits, UsbCalls
<1>12. UsbQueue'
  <2>1. CASE release'[a] = "closing" /\ native'.calls = Append(native.calls, call)
    <3>1. Waits(call)'
      BY <2>1 DEF Waits
    <3> HIDE DEF call
    <3>q. QED BY <1>4, <1>11, <2>1, <3>1 DEF UsbQueue
  <2>2. CASE native'.calls = native.calls
    BY <1>11, <2>2 DEF UsbQueue
  <2>q. QED BY <1>7, <2>1, <2>2
<1>13. UsbEarly(a)'
  BY <1>1, <1>5, <1>7 DEF UsbEarly
<1>14. ASSUME a \notin met' PROVE UsbObject(a)'
  <2>1. UsbObject(a)
    BY <1>9, <1>14
  <2>2. ~fields'[a].on
    BY <1>2, <1>5, <2>1 DEF UsbObject, UsbFields
  <2>q. QED BY <1>1, <1>6, <2>1, <2>2 DEF UsbObject
<1>15. UsbTypes' /\ made' = made /\ (GsUsb!AtWork(a)' => GsUsb!AtWork(a) \/ a = made)
  BY <1>1, <1>2, <1>5, <1>7, <1>10
<1> HIDE DEF UsbInv, UsbTypes
<1>q. QED BY <1>1, <1>5, <1>6, <1>7, <1>8, <1>12, <1>13, <1>14, <1>15, UsbKept

LEMMA UsbUnplugged ==
    ASSUME UsbInv, NEW a \in Adapters, GsUsb!Unplugged(a) \/ Canalystii!Unplugged(a)
    PROVE  UsbInv'
<1> USE DEF UsbInv, UsbTypes
<1>1. /\ native.opener = a /\ native' = [native EXCEPT !.lost = TRUE]
      /\ UNCHANGED <<made, met, state, connect, release, fields>>
      /\ unheard' \subseteq unheard \cup {a}
  BY DEF GsUsb!Unplugged, GsUsb!Fault, Canalystii!Unplugged, Canalystii!Fault
<1>2. /\ native' \in [opener : {None} \cup Adapters, lost : BOOLEAN, calls : Seq(UsbCalls)]
      /\ native'.opener = native.opener /\ native'.calls = native.calls
  BY <1>1
<1>3. connect[a] = "returned"
  BY <1>1 DEF UsbEarly
<1>4. Typed({"opening"}, {"loop", "closing"}) /\ Elsewhere(a)
  BY <1>1 DEF Typed, Elsewhere, CallsInOrder
<1>5. CallsInOrder({"opening"}, {"loop", "closing"})'
  BY <1>1, <1>3, <1>4, CallsGoOn DEF CallsInOrder, Pending
<1>6. UsbQueue' /\ UsbEarly(a)' /\ (a \notin met => UsbObject(a)')
  BY <1>1, <1>2 DEF UsbQueue, Waits, UsbEarly, UsbObject, GsUsb!Polls
<1>7. GsUsb!AtWork(a)' => GsUsb!AtWork(a)
  BY <1>1 DEF GsUsb!AtWork
<1>q. QED BY <1>1, <1>2, <1>4, <1>5, <1>6, <1>7, UsbKept

LEMMA UsbStep ==
    ASSUME UsbInv, NEW a \in Adapters,
           \/ GsUsb!LoopStep(a) \/ GsUsb!ReleaseStep(a) \/ GsUsb!Event(a)
           \/ Canalystii!LoopStep(a) \/ Canalystii!ReleaseStep(a) \/ Canalystii!Event(a)
    PROVE  UsbInv'
  BY UsbConnects, UsbLoops, UsbDisconnects, UsbUnplugged
     DEF GsUsb!ReleaseStep, GsUsb!Event, Canalystii!ReleaseStep, Canalystii!Event

LEMMA UsbPromise ==
    ASSUME UsbInv, kind = "gs_usb" \/ kind = "canalystii" PROVE KeepsPromise
<1> USE DEF UsbInv, UsbTypes
<1>1. ASSUME NEW a \in Adapters \ met
      PROVE  connect[a] = "threw" \/ release[a] = "over" =>
                state[a] # "connected" /\ native.opener # a /\ ~GsUsb!Polls(a)
  BY DEF UsbObject, UsbEarly, GsUsb!Polls
<1>2. ASSUME NEW a \in Adapters \ met, state[a] = "connected", release[a] = "unused"
      PROVE  native.opener = a /\ GsUsb!Polls(a) /\ \A b \in Adapters \ {a} : ~GsUsb!Polls(b)
  <2>1. native.opener = a /\ GsUsb!Polls(a)
    BY <1>2 DEF UsbObject
  <2>2. \A b \in Adapters \ {a} : ~GsUsb!AtWork(b)
    BY <1>2, <2>1, UsbAlone DEF GsUsb!AtWork
  <2>q. QED BY <2>1, <2>2 DEF GsUsb!AtWork, GsUsb!Polls
<1>q. QED BY <1>1, <1>2
          DEF KeepsPromise, InUse, Holds, GsUsb!InUse, GsUsb!Holds, GsUsb!Polls,
              GsUsb!Adapters, Canalystii!InUse, Canalystii!Holds, Canalystii!Polls,
              Canalystii!Adapters, Adapters

-----------------------------------------------------------------------------
LEMMA AdaptersInit == ASSUME Init PROVE AdaptersInv
  BY SocketCanInit, SlcanInit, HelperInit, VlinkerInit, UsbInit DEF Init, AdaptersInv, Kinds

LEMMA AdaptersStep == ASSUME AdaptersInv, [Next]_allVars PROVE AdaptersInv'
<1>1. ASSUME UNCHANGED allVars PROVE AdaptersInv'
  <2>1. /\ kind' = kind /\ made' = made /\ state' = state /\ connect' = connect
        /\ release' = release /\ fields' = fields /\ native' = native /\ met' = met
        /\ unheard' = unheard
    BY <1>1 DEF allVars, vars
  <2>2. \A W, R : CallsInOrder(W, R) => CallsInOrder(W, R)'
    BY <2>1 DEF CallsInOrder, Pending
  <2>3. SocketCanInv => SocketCanInv'
    BY <2>1, <2>2 DEF SocketCanInv, SocketCanTypes, SocketCanObject
  <2>4. SlcanInv => SlcanInv'
    BY <2>1, <2>2 DEF SlcanInv, SlcanTypes, SlcanObject
  <2>5. HelperInv => HelperInv'
    BY <2>1, <2>2 DEF HelperInv, HelperTypes, HelperObject
  <2>6. VlinkerInv => VlinkerInv'
    BY <2>1, <2>2 DEF VlinkerInv, VlinkerTypes, VlinkerShared, VlinkerEarly, VlinkerObject,
       VlinkerAndroid!AtWork, VlinkerAndroid!Pending, VlinkerAndroid!Releasing
  <2>7. UsbInv => UsbInv'
    BY <2>1, <2>2 DEF UsbInv, UsbTypes, UsbQueue, Waits, UsbShared, UsbEarly, UsbObject,
       GsUsb!AtWork, GsUsb!Pending, GsUsb!Releasing, GsUsb!Polls
  <2>q. QED BY <2>1, <2>3, <2>4, <2>5, <2>6, <2>7 DEF AdaptersInv
<1>2. ASSUME UNCHANGED kind, Plugin PROVE AdaptersInv'
  BY <1>2, UsbPlugin DEF AdaptersInv, Plugin
<1>3. ASSUME UNCHANGED kind, NEW a \in Adapters, Connecting(a) PROVE AdaptersInv'
  BY <1>3, SocketCanStep, SlcanStep, HelperStep, VlinkerStep DEF AdaptersInv, Connecting
<1>4. ASSUME UNCHANGED kind, NEW a \in Adapters, Disconnecting(a) PROVE AdaptersInv'
  BY <1>4, SocketCanStep, SlcanStep, HelperStep, VlinkerStep, UsbStep
     DEF AdaptersInv, Disconnecting
<1>5. ASSUME UNCHANGED kind, NEW a \in Adapters, Polling(a) PROVE AdaptersInv'
  BY <1>5, UsbStep DEF AdaptersInv, Polling
<1>6. ASSUME UNCHANGED kind, NEW a \in Adapters, Threads(a) PROVE AdaptersInv'
  BY <1>6, VlinkerStep DEF AdaptersInv, Threads
<1>7. ASSUME UNCHANGED kind, NEW a \in Adapters, Happens(a) PROVE AdaptersInv'
  BY <1>7, SocketCanStep, SlcanStep, HelperStep, VlinkerStep, UsbStep DEF AdaptersInv, Happens
<1>q. QED BY <1>1, <1>2, <1>3, <1>4, <1>5, <1>6, <1>7 DEF Next

(* Whatever kind the adapters are of, how far the calls of each object     *)
(* have come says what it holds.                                           *)
THEOREM AdaptersInvariant == Spec => []AdaptersInv
  BY AdaptersInit, AdaptersStep, PTL DEF Spec

(* An object that says it is connected uses what it has opened, and one    *)
(* whose connect() threw or whose disconnect() has returned holds nothing, *)
(* whatever the calls, the faults and the other objects were.              *)
THEOREM AdaptersKeepPromise == Spec => []KeepsPromise
<1>1. AdaptersInv => KeepsPromise
  BY SocketCanPromise, SlcanPromise, HelperPromise, VlinkerPromise, UsbPromise
     DEF AdaptersInv, Kinds
<1>q. QED BY <1>1, AdaptersInvariant, PTL
=============================================================================
