# Verification of OBD Atlas

OBD Atlas records CAN traffic and diagnostic-tool traffic of a car as evidence:
a Flutter application (`lib/`) with USB, Bluetooth and SocketCAN adapters, a C++
DLL that stands between a vendor tool and its J2534 interface
(`native/j2534_proxy/`), native plugins (`packages/`) and Python tools
(`tool/`, `atlas.py`, `dbc.py`) that store, check and analyse what was recorded,
and drive a bench. What has to be right is the evidence: nothing lost, repeated,
reordered or mixed up between the vehicle, the file and the database, whatever
the order of callbacks and processes, the failures of a disk, or the moment at
which a process dies; and what is derived from it must be of the evidence it
names.

## Inventory

| Part | State | Operations | What is hard | What makes it correct |
|---|---|---|---|---|
| Capture session (`lib/core/capture_session.dart`) | phase, start and stop futures, output, periodic timer, chain of flush links, counters, last error | `start`, `writeLine`, `writeAnnotation`, `stop`, timer, output error | a stop during the start; flushes in flight at a stop; a failed append that stops the capture from inside a flush | a completed file holds exactly the accepted lines; an idle session is quiet; a stop always completes |
| Local store (`lib/core/local_store.dart`) | files | `createCaptureFile`, `importLog`, reports | names with a resolution of one second | one file per capture |
| Atlas runtime (`lib/core/atlas_runtime.dart`) | five channel slots, three fields for adapters of several slots, subscriptions, timers, capture, discovery | connect one, two or four slots, disconnect one or all, frames, markers | every method awaits adapters and writes slots afterwards; connects that succeed or fail after their slot was given away | a slot shows its own adapter and its state; no adapter is connected that no slot shows |
| Signal discovery (`signal_discovery.dart`) and candidate validation (`fleetcarma_signal_candidates.dart`) | window and its frames; samples and steps | mark, observe, finish; start, step, report | a capture that stops, fails or restarts between two of their steps; a report that is written while a new capture runs | what was observed in a window is what the file holds there |
| Voice annotation (`voice_annotation_capture.dart`) | recorder process, stop future, bound capture | `start`, `stop`, listener of the capture | the capture stops while the recorder starts; timeouts; failing metadata | the recorder never outlives the capture |
| Capture page (`linux_capture_page.dart`, `main*.dart`) | `_starting`, `_stopping` | start and stop flows | awaits between runtime, capture and voice | a stop reaches both |
| J2534 proxy (`native/j2534_proxy/j2534_proxy.cpp`) | once-initialised globals, two counters, record mutex, trace handle | `Initialize`, 14 `PassThru*` functions, `BeginCall`, `EndCall`, `WriteLine` | concurrent callers; failing writes; process and power failures; restart on the same path | records in order; begin before forward before end; nothing forwarded without a trace; committed evidence never changes |
| Flush policy (`trace_flush_policy.cpp`) | records since the last commit, force flag, age | write, flush | failed flush; bound of the group | a boundary is on disk before the call returns; the exposed group is bounded |
| Programming-voltage policy | environment | read, forward | the environment changes during a call | a voltage is forwarded only under a record that allows it |
| Trace writer and reader (`tool/j2534_trace.py`) | sequence, call numbers, open calls | `begin_call`, `end_call`, `read_trace` | rows of two threads; a row that never reaches the file; truncated and torn traces | the reader accepts exactly the well-formed traces, and what the writer leaves |
| Offline database (`atlas.py`) | SQLite tables: sessions with frames, metrics, annotations; DBC sources with messages, signals, values, passthrough | `ingest`, `discover`, `correlate`, `dbc-import`, `dbc-export` | each command a process; reads before the transaction; a replacement between two reads; a malformed line in the middle; a killed process | what is committed is whole; what is derived is of one stored import |
| DBC codec (`dbc.py`) | none | parse, write, round trip | statements in any order; names section; escapes; identifiers with flags; numbers of too many digits | what is accepted is kept |
| Battery mapping (`correlate_gen1_bms_networks.py`, `aggregate_gen1_bms_mapping_sessions.py`) | none | pair readings, assign slots, compare sessions | one pass over two series; ties; sessions that lack a cell | the nearest reading; a stable assignment; a repeatable cell is one no session contradicts |
| GDS2 bench (`gds2_bench_simulator.py`, `gds2_dynamic_discovery.py`, `uc2_vcx_bench.py`) | adapter flags, definitions and schedules of packets, samples due, the transfer in progress | open, receive, decide, answer in segments, sample, close | flow control that waits, is late or never comes; requests in the middle of a transfer; redefinition of a scheduled packet; calls that fail and Ctrl+C anywhere | segments as granted; samples as agreed; the adapter released |
| GM extraction and bundle (`extract_gm_tool_session.py`, `extract_gds2_dids.py`, `build_gm_tool_evidence_bundle.py`) | reassembly buffers, queues of requests, definitions | one pass over a log and a trace | interleaved and truncated transfers; unframed records that look like frames; pending and late answers; two clocks | messages that were sent; requests with their own answers |
| Live diagnostic monitor | reassembly per channel and identifier, pending requests | `analyze` | lost, repeated and equal-time frames | a payload is never assembled from two transfers |
| Adapters (`lib/adapters/`) | connection state, child process or port, response buffer | connect, disconnect, commands, read loops | disconnect during connect; late answers; one native device for several adapter objects | a connected adapter uses what it opened, one whose calls are over owns nothing, and both calls end |
| Android RFCOMM plugin | one socket field | connect, read and write threads | threads of an old connection act on the new one | the reader of an old connection leaves the new one alone |
| Windows USB plugins | one device for all objects | open, read, close, one call after the other | a close or an open that belongs to another object | the device is polled by the object that opened it |
| Gen1 analyzers, FleetCarma import, status service, decode scripts, inventory | none kept between calls | pure or file-to-file | numeric boundaries | see "Not modelled" |

The parts interact as follows. Adapters emit frames and states to the runtime,
which shows the states in its slots, hands each frame to
`CaptureSession.writeLine`, to a running validation and, while recording, to the
discovery. The page starts and stops the runtime's capture and the voice
recorder; the recorder also listens to the capture. The session appends to a
file named by the local store. Independently, a vendor tool loads the proxy DLL,
whose trace is later read by `read_trace` and bundled with the CAN log by the GM
tools. `atlas.py` imports captures and DBC files into one database; its commands
share nothing but that file. The bench programs speak to a diagnostic
application through a USB adapter.

## Modules

| Module | Models | Notes |
|---|---|---|
| `EvidenceLog` | nothing in the code: the abstract promise of a capture | implemented by `CaptureSession` |
| `CaptureSession` | `capture_session.dart` with `_FileCaptureOutput`; `createCaptureFile` | one action per synchronous stretch of Dart |
| `CaptureLifecycle` | the phases of a capture as listeners see them | implemented by `CaptureSession`; `VoiceAnnotation` and `SignalDiscovery` are built on it |
| `VoiceAnnotation` | `voice_annotation_capture.dart`, the start and stop flows of `linux_capture_page.dart` | one action per stretch between two awaits, over all parts it touches |
| `SignalDiscovery` | `signal_discovery.dart`, the validation of `fleetcarma_signal_candidates.dart`, and how the runtime and `main.dart` drive them | over `CaptureLifecycle` |
| `AtlasRuntime` | `atlas_runtime.dart`: slots, adapters, connects and disconnects | composes `SignalDiscovery`; `MCAtlasRuntime` names its adapters |
| `AtlasAdapter` | the interface of `atlas_adapter.dart`: an object's two calls, and what is common to the kinds | extended by the next four |
| `SocketCanAdapter`, `SlcanAdapter` | `socketcan_adapter.dart`, `slcan_adapter.dart` | |
| `HelperAdapter` | `linux_obdlink_mx_adapter.dart`, and `vlinker_ms_adapter.dart` on Windows | a constant tells them apart |
| `VlinkerMsAdapter` | `vlinker_ms_adapter.dart` on Android with `AtlasAndroidRfcommPlugin.kt` | |
| `UsbAdapter` | `gs_usb_adapter.dart`, `canalystii_adapter.dart`, `lys_usbcan_adapter.dart` with their plugins | a constant tells the first from the others |
| `Adapters` | nothing more: one kind in each behaviour, and what the runtime relies on | instances of the above |
| `J2534Trace` | trace records, `IsImmediateCommitBoundary`, `read_trace` | used by the proxy, the Python writer and the readers |
| `J2534Proxy` | `j2534_proxy.cpp`, both policies, process crash, power failure, restart | one action per critical section or lock-free stretch of a thread |
| `J2534Writer` | the writer class of `j2534_trace.py` | |
| `DbcCodec` | `dbc.py` | functions on statements |
| `BmsMapping` | the two battery mapping tools | functions on series and scores |
| `AtlasSessions` | `ingest`, `discover`, `correlate` of `atlas.py` | one action per SELECT, per `executemany` and per commit |
| `AtlasDbc` | `dbc-import`, `dbc-export` | the same |
| `AtlasDatabase` | all of them on one file | composes the two; `MCAtlasDatabase` names captures and files |
| `Gds2Bench` | the three bench programs, the adapter and the application behind it | `MCGds2Bench` names identifiers and requests |
| `GmSession` | the two extractors and the correlation of the bundle, on every capture of a conversation | |
| `GmLiveMonitor` | `gm_live_diagnostic_monitor.dart` on the same captures | `MCGmSession` names what is said |
| `MCReaders` | the inputs of `J2534Trace`, `J2534Writer`, `DbcCodec`, `BmsMapping` and `GmLiveMonitor`, built record by record | |
| `CaptureSessionProofs`, `VoiceAnnotationProofs`, `J2534ProxyProofs`, `AtlasDatabaseProofs`, `Gds2BenchProofs`, `AdaptersProofs` | | TLAPS proofs about the module of the name |
| `AtlasRuntimeProofs` | | TLAPS proofs about `AtlasRuntime`: its capture and discovery, then its slots |
| `ReadersProofs` | | TLAPS proofs about `MCReaders`: what `J2534Trace`, `J2534Writer`, `BmsMapping`, the identifiers of `DbcCodec` and `GmSession` make of any input |

### CaptureSession

Each variable up to `lastCompleted` is a field of the class (`starting` and
`stopping` say whether `_starting` and `_stopping` are set, `stopping` also
which `await` of `stop()` is pending; `closing` is the pair of locals `output`
and `file`). `flushTask` is the chain `_flushTask`: the links not yet run.
`buffer`, `writes` and `broken` are the fields of `_FileCaptureOutput`; `disk`
is what it has put in its file.

Dart runs one callback at a time. An action is a public method up to its first
`await`, or the code between two awaits; which ready continuation runs next is
left open, which admits every order of the microtask queue and some it does not
produce. An append may write any number of whole lines of its batch and fail (a
part of a line counts as not written). Listeners are not called back
in this module: the one that matters, the voice annotation, does not call into
the session again, and is composed with its lifecycle below. A capture is given
the default output; a custom `CaptureOutputFactory` exists for tests only.

### VoiceAnnotation

`VoiceAnnotationCapture` is one object for the whole application; a capture page
exists only while it is shown, but its `_startCapture` and `_stopCapture` go on
after it is gone, so each page keeps its own flow (`startFlow`, `stopFlow`: the
await it is at). The capture is `CaptureLifecycle`: an action of the capture
notifies the recorder's listener (`CaptureChanged`) within the same step, as
`notifyListeners` does. `process` and the recorder processes are numbers, `Null`
is `null`. `stopFuture` is `_stopFuture`, which stays set, failed, when the
metadata cannot be written. The continuation of a completed `start()` of the
capture runs the page's flow in the same step: nothing but microtasks lies
between them. A file name and a time of day are represented by the number of the
capture they belong to: `audio` and `flowFile` say whose name a file has,
`anchor` at whose start `_startRequestedUtc` was taken. The deletion of old
sidecar files is one step with the start of the process. `lastError` and the
messages to the operator are left out.

### J2534Proxy

`pc[t]` is where thread `t` is between the API function's entry and its return.
`BeginCall`, `WriteSession` and `EndCall` hold `g_record_mutex` (`recorder`)
from taking the number to the end of `WriteLine`; inside it the write and the
flush are two steps, because the process may die between them. `init` merges
`call_once` and `g_initialized`. `aged` says that 100 ms have passed since the
last commit. `file` lists what each `WriteFile` put in the trace, `Torn` being a
part of a line; `durable` is how much has been committed physically. The
functions fall into three kinds: those whose end is a commit boundary,
`PassThruSetProgrammingVoltage`, and all others. The policy variable of the
environment may change at any time, so `Admit` reads any value. A power failure
keeps what was committed and any part of the rest. A crash or a power failure
starts a new process on the same path, which `CREATE_NEW` makes it refuse unless
the file vanished.

### AtlasRuntime and SignalDiscovery

`slots` is `channels`: the adapter, the state and the subscription of each.
`shared` are the three fields for adapters of several slots. Each connect call
creates an adapter of its own, which has the number of the call; `heard` are the
adapters whose subscription is live. A call is a task, and `calls[t]` is the
await it is at: the stop of the capture, `adapter.disconnect()`,
`adapter.connect()`, or none (`ready`: between two of them). Cancelling a
subscription takes microtasks only and is one step with what follows. An adapter
is external to this module: its connect may end at any time, and may still
succeed after its `disconnect()`, as `SocketCanAdapter.connect` does when it was
awaiting the list of interfaces or `candump`, and `VlinkerMsAdapter` when the
native connect outlives its timeout.

What the code does when calls meet on a slot is worth knowing: the field of a
shared adapter is overwritten before its slots are released, which are then
released one by one; a slot shows "connected" while its adapter is already
closed until its call is over (`AtRest`); and a connect that is overtaken leaves
an adapter open that no slot shows, and that goes on feeding frames
(`disturbed`). `SlotsTruthful` says that this reaches no slot but those on which
calls met. Two calls meet on the slots that both work on (`ReachOf`, with the
slots that share an adapter) and disturb all their slots, because a shared
adapter carries the damage from one to the others; only with `disconnect()`,
which works on every slot, do they disturb no more than the slots of the other
call. A slot does not recover: `disturbed` only grows.

`SignalDiscovery` is the capture with what observes it: the discovery and the
validation of a candidate. `lines` is what the file has accepted, markers among
frames, so that the windows can be read off it. It admits what the code does in
unusual orders: a validation started while a capture closes clears the
candidates of the discovery that has just finished; a report that is written
while another capture runs stops that one. One report at a time, counters,
labels, the lists of recent frames and of identifiers seen are the
simplifications; the bit counts of the discovery are represented by the number
of frames they were taken from. No page calls `runtime.disconnect()`; it is
modelled as the method it is.

### Adapters

`AtlasRuntime` takes an adapter for something that connects, may be lost, and is
gone when `disconnect()` returns. These modules have what the adapters do. An
object is made for one connection (`made`); `connect[a]` and `release[a]` are the
awaits its two calls are at. A connect that fails runs `disconnect()` itself, so
`Stop` and `Finish` take the call that runs them. `native` is what lies outside
Dart: candump, the serial port, the helper process, the socket and the event sink
of the Bluetooth plugin, the device of a USB plugin with the calls queued for it.
Where each object has a resource of its own, one object is modelled; where all
share one, two. Timers are steps that are always possible, so that a late answer
and a timeout race.

The code does not keep its word whenever calls meet or a link ends in silence,
and `KeepsPromise` names the exceptions by two history variables. `met` has the
objects whose `disconnect()` came during their `connect()`, and those of a shared
resource that were made while another one was still at work:

- `disconnect()` while `SocketCanAdapter.connect()` awaits the list of interfaces
  or `candump`: the process is started afterwards and stays;
- the twelve seconds of the Android connect pass: the thread of the plugin goes on
  and may open the socket (`vlinker_ms_adapter.dart:338`);
- the reader of an old connection ends and closes the socket of the new one
  (`AtlasAndroidRfcommPlugin.kt:243`); the subscription of an old object is
  cancelled and empties the sink of the new one;
- `disconnect()` of a USB adapter comes while its device is being opened: the
  loop starts afterwards, and takes frames of the next object.

`unheard` has the objects that were lost while they connected, or whose stream
ended without an exception:

- the vLinker closes its end, or the reader finds the socket closed: the object
  shows "connected" and hears nothing (`AtlasAndroidRfcommPlugin.kt:232`);
- the SLCAN stick is pulled during the last delay of `connect()`, or the text that
  ends a monitor is in the same chunk as the first frame: the error is shown
  first and "connected" afterwards.

What remains is what the runtime can rely on: failed commands, timeouts, helpers
that exit and devices that are pulled leave nothing open. That both calls always
end (`CallsEnd`) has no exception. A disconnect during a connect reaches
`AtlasRuntime` as a connect that succeeds after its disconnect, and a lost link
as `Breaks`; it assumes no more than these modules show. An OBDLink whose helper
cannot be started leaves the object "connecting", and a serial port is disposed
of twice when both calls close it; neither is stated.

### AtlasSessions, AtlasDbc and AtlasDatabase

A process of `atlas.py` runs one command and ends. A SELECT outside a
transaction reads the last committed state (`db`); `with connection` begins a
transaction at its first write: the process becomes the `writer` and works on
its own copy (`work`) until it commits or rolls back. This is SQLite in WAL mode
with the default isolation of the `sqlite3` module, modelled from how the code
uses it. A process that waits for the writer may give up (`BusyTimeout`); a
process may be killed at any point, which drops its copy. Rows are represented by
what they came from: a frame by its capture and its line, a metric by the set of
frames it was computed from, a row of a DBC source by its file and its number.
`doomed`, `outrun`, `stale` and `overtaken` remember which command was overtaken
by a replacement; the code does not know it. `AtlasDatabase` lets session and
DBC processes alternate as writers of one file; `summary` and `dbc-list` only
print.

### DbcCodec, J2534Writer, BmsMapping and MCReaders

`DbcCodec` is the parser and the writer as functions on statements: a line once
the regular expression of its kind has taken it apart. Texts are sequences of
quotes, backslashes and other characters, so that escaping is what it is in the
code; a number is represented by the digits it needs. `J2534Writer` is the
writer class with threads: its row is numbered before it is written, and the two
are not one step. `BmsMapping` has the pairing pass of the correlation, the
assignment and the aggregation; the arithmetic of a score is represented by its
result. `MCReaders` builds their inputs, and the conversations of `GmSession`,
record by record, one kind in each behaviour, so that every prefix is an input
too.

### Gds2Bench

`tool` says which of the three programs runs; `opened` and `started` are the
flags of the `finally` clause, `device` the adapter as it is. The program is one
thread: `pc` is the call it is in. The application behind the adapter is
external: it asks what it likes when it likes, grants any block, asks to wait,
or gives up (`AppGivesUp`), and a request may arrive while the program waits for
flow control, where it is read and goes unanswered. `scheduled` is the table of
periodic packets with the ticks to `next_due`; a tick passes at any point, up to
`MaxLate` behind. Rescheduling a packet restarts its grid. `agreed` remembers
what the answers sent have promised. Logging is left out.

Ctrl+C may come at every step. A call and the flag it sets are two steps
(`OpenDevice`, `MarkOpened`; `StartCan`, `MarkStarted`), and so are the two calls
of the `finally` clause, whose results the programs ignore. `except Exception`
does not catch `KeyboardInterrupt`, so Ctrl+C leaves the clause where it is
(`CutShort`), as does a summary that cannot be printed. `lapses` remembers what
kept the program from tidying up, and `ReleasedAtEnd` says exactly what each gap
can do: the adapter stays open after Ctrl+C between `VCI_OpenDevice` and
`opened = True` or in the clause, or a close that failed; it is closed without a
reset (`dropped`) after Ctrl+C between `VCI_StartCAN` and `started = True`, or a
reset that failed. In all other cases it is reset and closed.

### GmSession

The bus is external: a tester and a module that speak ISO-TP, several messages
under way at once. `capture` holds the frames the log got, `sent` what was really
said. The extractors are functions of `capture`, and the properties compare what
they make of it with `sent`: the reassembly with and without a check of the
sequence number, the classification of framed and unframed records, the pairing
of transactions and of identifiers, the labels of packet samples, and the
correlation of a J2534 trace whose clock is off. A frame keeps its first byte,
because the extractors decide by it, and the name of the message it is part of.
`Reassembly` is a function of the number of frames read, which says what each
extractor keeps after each of them, as `Pairing` does for the pairs of DIDs and
the messages. The payloads are those of one module and its tester
(`TrafficAssumption`): a flow-control frame that asks to wait has the first byte
31, a service as well, and is left out, as is an unframed 62. Of a redacted
response the trace has no payload and its service byte is not sensitive, so that
only its time tells it apart; `CorrelatedToItself` says nothing of it.

`GmLiveMonitor` is what the capture page shows of the same conversation. The
page analyses the frames the runtime still holds (the last 500), so the monitor
is judged on every last part of the capture. Frames of equal time, which it
sees in reverse, are left out. A request repeated while the answer to the first
is in transit gets a negative latency, because a message bears the time of its
first frame (`:312`, `:326`); `AsksInTurn` excludes it.

## Runs

| Run | Bounds | Shows |
|---|---|---|
| `capture_session` | 2 captures, 3 lines each, 2 queued flush links, 2 seconds | type invariant; a sealed capture is exact; idle means quiet; errors belong to the latest capture; accepted lines are stored and a failure ends the capture; `EvidenceLog` (the file is a prefix of the accepted lines) and `CaptureLifecycle` are implemented, the latter with its fairness |
| `capture_session_name` (violation) | 2 captures, 1 line | two captures of one second share a file |
| `voice_annotation` | 3 captures, 2 pages, 3 recorders, 1 fault | the recorder does not outlive the capture; metadata gives the start of its own recording; a stop of the recorder ends and a stop requested on a page reaches the capture |
| `voice_coupling` (violation) | 1 capture, 1 page, 1 recorder | a capture stopped during the voice start leaves a recorder running |
| `atlas_runtime` | 3 slots, single adapters on 1 and 3, a CANalyst-II on 1 and 2; 3 calls, with 5, 2 and 0 operations on the capture beside 1, 2 and 3 of them; 1 fault; calls meet on at most 2 slots; 1 capture of 3 lines | type invariant; slots tell the truth except where calls met; what the discovery and a validation observed is what the file holds |
| `adapters` | 2 objects of each of 7 kinds, 1 where nothing is shared; 1 fault; 1 command before the monitor | who says it is connected uses what it opened; whose calls are over holds nothing; every connect and disconnect ends |
| `j2534_proxy` | 2 threads, 2 calls per process, groups of 3 records, 1 failed write, 1 failed flush, 2 processes | the trace is readable, bounded loss, boundaries committed, reported calls survive, forwarded as recorded, fails closed, committed records never change, every call returns |
| `j2534_sequence` (violation) | 1 call, 1 failed write | a failed write leaves a gap in the numbers |
| `readers` | traces of 4 records about 2 calls; a writer with 2 threads and 3 calls; DBC files of 4 statements, identifiers of 3 bits and a flag; series of 3 readings within 6 instants; 3 sessions of 2 cells and 2 slots; conversations of 3 requests and 6 frames, at most one missed, with messages of one, two and three frames, refusals, pending answers, reads of two DIDs, unframed and redacted records, a window of 4 and a clock off by -1, 0 or 2 | `read_trace` accepts exactly the well-formed files and what the writer leaves; an accepted DBC file is read as it is written, the last statement counting where one is repeated, and exported as it was read; pairs, assignments and repeatable cells are what the readings say; reassembled messages were sent; transactions are exact; what the bundle attributes was said; a latency shown live is that of the request answered |
| `atlas_database` | 2 session and 2 DBC processes, 3 commands; 5 captures of one session (one malformed, one with a wrong count, one refused); 4 DBC files (one that conflicts with itself, one that does not parse) | types; what is committed is whole; what is derived is of one import, and of the present one unless overtaken; nothing disappears; the writer lets go |
| `atlas_dbc_export` (violation) | the same | a replacement between two SELECTs leaves an export no import contained |
| `gds2_bench` | 2 packets and a reserved one; answers of one, three and four frames; blocks of 0, 1 and 2; a level every tick, one every two, one not configured; 2 ticks late | types; both ends of a segmented answer agree; the adapter is released but for the gaps of the `finally` clause; samples are as agreed and of a deadline of their own; sampling goes on |

Two captures are enough for what one leaves to the next; three lines put one in
the file, one in an append and one in the buffer at once; two links are a flush
in progress and one behind it. Three captures and recorders let a recorder of one
meet the start of the next and the metadata of both; the second page is opened
while the flow of the first waits; the fault is a recorder that ignores both
signals, or metadata that cannot be written. Three slots give a shared adapter, a
single one on one of its slots and one beside it; two calls meet and a third
comes after or between; five operations are a start, both marks, a validation
and a stop, three lines a marker and a frame on each side of it.
`kMaxRecordsPerCommit` is scaled from 256 to 3, so that a group fills within one
call and the begin of the next. Two threads meet at every lock; two processes are
a crash and a restart. Four records are the shortest trace with a call inside
another; four DBC statements are a message, its signal and two that refer to it. Three
commands are one that stores, one that derives and one that replaces in between;
a batch of one row makes a log of two lines two batches. Six frames are two
transfers of three frames, interleaved in every way; three requests are one, its
repetition or a likeness of it, and one of the other module. Two objects are a
connection and the one that follows it, one fault a loss at any moment of either,
and one command has all the awaits of twelve. `CHECK_DEADLOCK` is off in
the runs because a program nobody calls does nothing, and the bounds end every
behaviour.

Fairness. For the session: the event loop runs each ready continuation, the file
system answers each request, an active periodic timer fires. Each is weak
fairness; nobody is obliged to start, write or stop. For the voice annotation:
every awaited call completes (the waits for the recorder's exit have timeouts, 3
and 2 seconds), and the capture has the fairness of `CaptureLifecycle`, which
`capture_session` shows the session to provide; no recorder is obliged to exit.
For the proxy: each thread gets strong fairness, because a mutex
(`g_record_mutex`, `call_once`) is taken by competitors in between; a provider
returns. Process and power failures, and the passing of 100 ms, are never
obliged to happen. For the database: the operating system runs every process
(weak fairness of its steps). For the bench: the program makes its calls, the
wait for flow control has its deadline (one second in the code, a condition of
its own), and time passes; the application promises nothing. For the adapters: the
event loop goes on, timers fire, processes end when they are killed, the threads
of the plugin run, a plugin answers its calls and the operator the permission
dialog; no device is obliged to answer or to send. `AtlasRuntime`,
`SignalDiscovery`, `GmSession`, `GmLiveMonitor` and the readers state safety only.

## Disagreements with the documents

- A capture started within a second of the previous one gets its name, and the
  output appends (`local_store.dart:73`, `capture_session.dart:31`), though a
  session "Owns one capture file" (`capture_session.dart:50`). Run
  `capture_session_name`.
- A capture that stops while `start()` of the recorder awaits (`arecord` being
  looked for or started) notifies a listener that finds no process
  (`voice_annotation_capture.dart:73`, `:136`); the recorder started afterwards
  runs on. The comment at `voice_annotation_capture.dart:61` says a CAN stop from
  any source closes the audio. Run `voice_coupling`. The next `start()` then
  returns the file of the old recorder (`:112`). `MicrophoneCoupled` and
  `SidecarOwn` say what holds when this has not happened (`overlap`).
- A failed or short `WriteFile` consumes a sequence number
  (`j2534_proxy.cpp:544`, `:561`), though `docs/J2534_TRACE_FORMAT.md:21` calls
  the sequence contiguous; `read_trace` refuses such a trace altogether. Run
  `j2534_sequence`.
- `dbc-export` reads a source with many SELECTs outside a transaction
  (`atlas.py:901`). When `dbc-import --replace` commits in between, the export
  lacks what the cascade took away, and the comparison of `docs/DBC_SUPPORT.md:36`
  is made with what was read. Run `atlas_dbc_export`; `DerivedFaithful` says what
  holds of an export that was not overtaken.

Smaller ones, met while modelling and stated by no run:

- `extract_gm_tool_session.py:433` classifies "unframed legacy GM
  request/response records"; the third frame of a framed request, whose first
  byte is 22, passes for an unframed one (`:449`). `LookalikesContinue`, in
  `TransactionsExact`, says that no other frame does.
- `docs/GM_TOOL_EVIDENCE_BUNDLE.md:35` compares "the full logged payload and the
  suffix after those four bytes"; the code uses `endswith`. The model takes
  payloads as equal or not.
- A DBC signal without receivers, or a factor of sixteen digits, is imported and
  never exported: the writer's file does not read back as the same database.
  `WritableRoundTrips`, in `DbcIsKept`, excludes them. A 29-bit identifier
  without the flag gets it in the export, while passthrough attributes keep the
  old number.
- `dbc.py:5` says that importing "does not silently discard vendor extensions",
  and it does not. But a `VERSION`, a `VAL_` or a `CM_` that is repeated
  overwrites the one before (`:128`, `:211`, `:217`, `:224`), and of two signals of
  one name in a message only the first gets them. `LastSaidCounts` says so.
- The bench programs leave the adapter open when Ctrl+C comes a second time,
  during `VCI_ResetCAN`: `except Exception` (`gds2_bench_simulator.py:474`) does
  not catch it. `ReleasedAtEnd` names this gap and the others.
- The aggregation of battery mappings counts reports, not independent sessions;
  a session in which a cell lost every slot to others is not counted against it;
  and a slot may be repeatable for two cells that never appear together.
- `decode_gen1_hpcm2_contactor_state.py:171` calls a start that failed (68, 6A,
  6F, 68) "stableHvOff". Not modelled.

## Proofs

`CaptureSessionProofs` proves, for any number of captures, lines, links and
seconds, each safety property of run `capture_session`, that the file is a prefix of
the accepted lines (`DiskIsPrefix`), and that every step maps
to a step of `EvidenceLog` or a stutter. The invariants are not inductive: that
a sealed file is exact depends on where each accepted line is. The inductive
invariant `IInv` adds, to `TypeOK`:

- `ControlInv`: which fields are set in each phase and at each `await` of
  `stop()`; every pending link belongs to the active file;
- `OutputsInv`: an output that is not the active one has nothing buffered or in
  flight, and has an outcome when its capture is over;
- `LinesInv`: `disk \o writes \o buffer` is what was accepted, unless the output
  is broken, and then the disk holds a prefix and nothing is in flight;
- `CountsInv`: `recordedFrames` counts the frames accepted by the active capture,
  `lastCompleted` those of the sealed file;
- `ErrorInv`: while a start is pending there is no error.

`Invariance` shows `Spec => []IInv`; each theorem takes from it what it states.
`Implementation` maps each action by hand (an action summary says what it does
to `Status`, `accepted` and `disk`). The proofs assume `BoundsAssumption`, and
nothing of the order of continuations.

`LifecycleSafety` shows the safety part of `CaptureLifecycle` from `ControlInv`
alone; its fairness is left to run `capture_session`.

`VoiceAnnotationProofs` proves its `TypeOK`, `MicrophoneCoupled` and `SidecarOwn` for
any number of captures, pages, recorders and faults, from `VoiceAssumption`. Its
`IInv` has a part that always holds, `FilesInv` (at most one flow awaits the
file of the capture, a flow inside `start()` knows its capture, a tracked
recorder has files), and a part that holds until a capture stops in the middle
of a voice start:

- `StartInv`: only one flow is inside `start()`, only while its capture records,
  and past its first await it finds neither a recorder nor a stop;
- `RecorderInv`: a living recorder is the tracked one or was given up, the stop
  under way is a stop of it, and outside a capture it is being stopped;
- `AnchorInv`: the start time and the file names belong to one capture.

The last part needs the first two: a second `start()` would replace the process
that a stop is waiting for.

`J2534ProxyProofs` proves its `TypeOK` and each safety property of run
`j2534_proxy`, for any number of threads, calls, faults and processes and any
size of a group, from `ProxyAssumption`. The theorems say little of a thread
between two of its steps, so `IInv` follows the holder of the record mutex:

- `CallsBounded`: every call that will take a number finds one (the bound of the
  model, needed for the types of the counters);
- `StagesInv`, `SessionInv`: one thread initialises, alone, and the session
  record is first and whole before the proxy is ready;
- `DueInv`: an uncommitted boundary record makes a commit due, and nothing is due
  when the mutex is free unless a flush failed;
- `GroupInv`: in a process that has opened its trace, uncommitted records are
  counted; a full group is not left when the mutex is released;
- `BeginInv`, `VoltageInv`: a thread past its begin record finds it in the file;
- `EndInv`: at the flush of an end record the record is in the file and, for a
  boundary, due; so the flush succeeds or is a fault, and what it commits stays
  (`KeptStep`, which is also the action property `CommittedKept`).

`TraceReadable` joins two programs: what the proxy leaves, whatever its threads
were doing when it died, is accepted by `read_trace` as far as it was written. It
takes a second invariant, `ReadInv`, which holds until a write fails (the rows are
accepted so far, their number is the next sequence number, and a thread between
its two records has its call, and no other thread's, open in the file), and the
theory of the reader described under `ReadersProofs`.

`AtlasDatabaseProofs` proves, for any number of processes, commands, captures and
DBC files, batches and lines, that the types hold, that what is committed is
whole (`StoredWhole`), `DerivedFaithful` and `NothingDisappears`, from
`ProcessesAssumption`, `CapturesAssumption` and `FilesAssumption`. The committed state says nothing of a
transaction in progress, so its `IInv` follows the copy of the writer:

- `SharedTypes`, `SessionTypes`, `DbcTypes`; a key is below the last one given
  out and is never given out twice (`DoomedKnown`);
- `InHand`, `InStore`, `WorkInv`: what each process holds at its `pc`; the copy of
  an importer is the database with the part of the capture read so far in place
  of its session;
- `SessionWhole`, `MetricsOfOneImport`, `MetricsCurrent` for the committed state;
- `Sound` for both the committed DBC tables and the copy: typed, keyed, owned,
  filled; `ImportInHand`, `CopyInv`: how far the import of the writer has come.

The file changes hands only between nobody and one process, which is what lets
each kind of process be treated with the other kind's tables unchanged.

An exported file is about states that are long gone when it is written, so
`DerivedFaithful` needs a second invariant, `ExportInv`, proved relative to `IInv`:

- `CopyGrows`: compared with the committed tables, a new row of the writer's copy
  has a key never given out, and a row is missing only with its source. A commit
  therefore changes nothing of what a reader may still come back to, except that
  all of it may go (`ReadsGo`);
- `Reads`: the keys an export holds between its SELECTs are, as long as rows have
  them, those of rows of the source it looked up; if the source is still there,
  the rows are, and nothing was missed so far (`NothingMissed`);
- `PartOf`, `OutputInv`: what is loaded, then written, has parts of one file, and
  all of them unless the export was overtaken.

It rests on `AUTOINCREMENT`: with a key that could be given out again an export
could read the signals of another file's message.

`Gds2BenchProofs` proves `TypeOK` and each safety property of run `gds2_bench`,
in two arguments. The first is about the adapter and the transfers
(`ReleasedAtEnd`, `TransfersAgreed`), for answers of any length and any block
sizes. Its `IInv` is `TypesInv`, `FlagsInv` (how far the
adapter is at each place of the program, and what the flags of the `finally`
clause miss of it), `FlowInv` (who has to send what in a transfer) and
`CountInv` (the frames that are left, granted and awaited). `RequestsAssumption`
says that what the decision sends fits a number of bytes; the fold that adds them
up is beyond the prover, and TLC evaluates the assumption. The second is about the
samples (`SamplesAsAgreed`), for any packets, periods and lateness. Its `SInv` adds:

- `DefinitionsInv`: what is defined is known and fits a packet, and what is
  scheduled is defined and has a period;
- `GridInv`: `next_due` is late by whole periods of the grid on which the packet
  was scheduled (`phase`), and only when a deadline has passed for which a sample
  is owed;
- `AgreedInv`: the application takes as agreed what is defined (or will, once the
  answer that is ready has been sent), and a sample that is due has that content.

`GridInv` rests on a lemma about whole periods (`WholePeriods`): `poll_due` moves
a late `next_due` to the one deadline of the grid that comes next
(`AdvanceMeetsGrid`). `RequestsAssumption` says what requests consist of; TLC
evaluates it.

`AdaptersProofs` proves `KeepsPromise` for all seven kinds of adapters and any
number of objects, faults and commands, from `BoundsAssumption`. The promise
is of an object that is not in `met`, so every inductive invariant speaks of such
objects only. `CallsInOrder` is common: objects are used in the order of their
numbers, and of one on which no calls met `disconnect()` follows `connect()`. Each
kind adds what an object holds at each await of its two calls
(`SocketCanObject`, `SlcanObject`, `HelperObject`, `VlinkerObject`, `UsbObject`).
Where the objects share a plugin this needs the others too: `VlinkerShared` and
`UsbShared` say that an object on which no calls met is the last one made or is
at work no more, so that the open socket or device is its own; `VlinkerEarly` and
`UsbEarly` that the plugin knows nothing of an object that has not come to ask
for it; `UsbQueue` that each call in the plugin's queue is awaited by the one who
sent it.

`AtlasRuntimeProofs` begins with what `AtlasRuntime` says of the capture, for any
number of slots, calls, captures and lines. `RuntimeDrivesDiscovery` shows that
each step of the runtime is a step of `SignalDiscovery` or leaves the capture
alone, so that what is proved of the discovery holds whatever the adapters do.
`ObservationIsRecorded` (property `ObservedIsRecorded`) takes `ControlInv` (which
phases a new, running or complete discovery is found in) and `WindowsInv`: while a
capture records, the counts of the discovery are those of the file, window by
window, and what `finish` has computed stays that of the file. The samples of a
validation need the cardinality lemmas (`FramesAppended`, `SamplesAppended`): a
line that is appended adds itself to the set of its kind and nothing else.

It then proves `TypeOK` and `SlotsTruthful`, for any number of slots,
calls and faults and any adapters that can be connected, from `BoundsAssumption`
and `OffersAssumption`. The latter says that an adapter of several slots has one
of the three fields and is always asked for on the same slots: the pages give
fixed base channels (`main.dart:284`, `:289`, `main_linux.dart:268`). The argument
treats the state as a value (`View`, one function for each field), because
`connect` and `disconnectChannel` are best taken in two: the call is noted, and
its field overwritten (`Begins`); then the first slot is released (`Frees...`), as
in every later step of a call. Each kind of step is one relation between two
views (`Begins`, `Proceeds`, `FreesShared`, `FreesOwn`, `FreesEmpty`, `Clears`,
`Throws`, `Finishes`, `Installs`, `Connects`, `BreaksDown`) and one lemma that it
keeps the invariant; a second lemma shows that the action is such a step.
`SlotsTruthful` says nothing of a slot between two steps of a call, so the
inductive `ViewInv` follows the calls:

- `Shape`, `Place`: how far each kind of call is; an adapter is held, heard and in
  its field only where it belongs, and a release under way knows whom it releases;
- `Apart`: calls whose areas overlap have disturbed them. On a slot that is not
  disturbed a call is therefore alone, which every other part relies on;
- `HolderInv`: whatever holds an undisturbed slot holds all its slots, is heard
  by its subscription and known to its field (`Whole`), or a connect for the same
  shared slots is replacing it (`Replaced`); a channel is fed by its holder only;
  a slot that is being released of its own adapter is empty, one of a shared
  adapter is among those that will be cleared;
- `ShownInv`: a slot that shows a connection has one, with rates published, or a
  call will still see to it; `disconnect()` leaves no connection behind; what is
  open, or connecting, is held or is being disconnected;
- `CallInv`: a shared release touches no slot of another adapter and has silenced
  its own; the slots that a connect has passed belong to nobody else; a shared
  connect keeps the field it has taken.

`RuntimeInvariant` adds the types and `Numbered` (calls are numbered as they are
made). The proof depends on two details of the code that no small run brings out:
when `disconnect()` releases a shared adapter that no slot holds, the end of the
release clears its fields and touches no slot; and a call on one slot may reach
all of them without being a `disconnect()`, so the kind of a call, not its reach,
says what it disturbs.

`ReadersProofs` is about functions of data of any size. No induction theorem with
an operator as its parameter can be used, so a function defined by recursion is
unfolded one step at a time and compared with a closed form: were they to differ,
they would differ at a least number (`Smallest`, from the well-foundedness of `<`
on the naturals), and the step to that number shows that they do not. The first
four of these results are shown so; the last two follow the conversation with the
fourth.

- `ReaderExact`: `read_trace`, a pass over rows with the expected number and the
  set of open calls, accepts a trace if and only if its rows are numbered from 0,
  the session is first and only first, and calls begin and end as they should. The
  open calls after n rows are those begun and not ended since (`UnderWay`).
  `TracesRead` gives property `TracesAreRead` from it. For the Python writer it
  needs `WriterInv`: the types; `NumbersInv`, that a row in the file or in the
  hands of a thread has a number given out and not lost; and `OrderlyInv`, that
  until two threads overlap or a row is missed the file is accepted so far, one
  row at most waits to be written, it would be accepted next, and what the writer
  holds open is what the reader will. `NoneAssumption` says that no row is taken
  for "nothing to write". `J2534ProxyProofs` repeats the theory of the reader,
  because the variables of the two developments have the same names.
- `PairsAreNearest`: the pass of `_nearest_pairs`, whose second pointer never goes
  back, pairs each reading with the nearest one of the other series, for any two
  sorted series. What the pointer has passed can be nearest to no later reading.
- `AssignmentIsStable` and `CandidatesAreBest`: the greedy assignment takes scores
  in the order of their rank and leaves no cell and slot that both would rather
  have each other; a cell that becomes repeatable has a claim no session
  contradicts, and one with such a claim becomes repeatable. With `SeriesInv`
  (both series are sorted as they grow) and `MappingAssumption` (finitely many
  cells and slots, named by numbers as in the code), these three make property
  `MappingEvidence` (`MappingsAreEvidence`).
- `MessagesAreRecovered`: both reassemblers of the GM tools recover what was said,
  for any payloads of any length, any interleaving of the two sides and any bounds
  (property `MessagesWereSent`): everything if the capture misses no frame, nothing
  else if it misses one at most. `HearingInv` follows the conversation and the
  buffers together: `OneEach`, that a side has one message under way; `OnlySpoken`
  and `AllSpoken` for the messages already put together; `Underway` and
  `AllUnderway` for the buffer of a side that is speaking, which holds `Exactly`
  the frames sent so far, is idle, or is `Short`: after a missed frame it has too
  few chunks to be taken for a message, and the next first frame replaces it. With two
  missed frames, the last of one message and the first of the next, what is left
  may be joined, so the property asks for one at most.
  `BusAssumption` says what a payload is: a length of twelve bits, and for an
  unframed record a first byte that is not that of a single, first or consecutive
  frame. An unframed 22 or 2C would be one; the tools cannot tell them apart.
- `TransactionsAreExact` (property `TransactionsExact`): on a complete capture each
  request has its own responses and no other, under the conditions the property
  names (`Orderly`, no `Lookalikes`), which are of the traffic and not of the code.
  `TalkInv` adds to `HearingInv` that a response answers an earlier request of its
  service (`WordsFit`), that nothing follows a final answer (`LastIsFinal`), that
  messages begin one after the other (`InTime`), and that every captured frame
  opens a message, goes on with one, or is a flow control or a sample
  (`FramesFit`). From it the events are those of the messages (`EventsAre`), and
  `ResponsesAre` finds in them the answers up to the next request of the service.
- `BundleIsTrue` (property `BundleAttributes`), in four parts. `Correlates` needs
  `TalkInv` only: an event of the same payload ranks before one of another, and the
  own event before the like ones, which are too far apart. `Labels` needs `TurnInv`:
  the messages of a side are whole before its next one begins (`InTurn`), an answer
  begins after the whole of its request and has its DID (`Asked`), and a sample has
  the definition accepted last (`SamplesFit`). `PairsHold` needs `BundleInv`, that
  says of the queues and pairs after each message (`PairFits`): they hold reads
  that were heard, in their order; a pair is never of a read younger than the one
  answered; if answers come in the order of reads, a read after the last one
  answered waits in its queue, so that the first one in the window is no younger
  than the right one; and if all reads were answered, an answered one is gone from
  the queue, so that it is the right one. The proof treats what was said as a value,
  because more is said while what was paired stays (`PairsStay`, `PairedStays`).

`IdentifierIsKept` needs no induction: an identifier that the importer accepts is
exported as one that it reads as the same, for any widths (`WidthAssumption`).

Checked by TLC only:

- liveness, since the prover has neither fairness nor `ENABLED`: the fairness of
  `ImplementsLifecycle`, and `LinesSettle`, `StopsComplete`, `CallReturns`,
  `WriterLetsGo`, `SamplesContinue`, `CallsEnd` and the recorder's stop;
- `DbcIsKept`, but for its identifiers: parser, writer and escapes are folds that
  build databases and texts, and a closed form of each would repeat them;
- `LatencyIsOwn`: the monitor begins anywhere in the capture, so that it would
  need the like of `MessagesAreRecovered` for every last part of it, where a
  message whose first frame is gone is neither heard nor missed.

## Plan

What is left, in this order:

1. A step of `AtlasRuntime`'s adapter as the abstraction of each kind of adapter.
2. Frames of equal time in `GmLiveMonitor`.
3. `PrechargeAnalyzer` and the contactor classification as operators against
   reference definitions.

## Not modelled

- The UC2 adapters: `connect()` opens the port in one synchronous stretch, an
  object owns its port, and the pages use one channel of a pair; what they compute
  of a burst of bytes is arithmetic on one buffer. Of all adapters, the parsing of
  lines and records; of the Windows plugins, the USB transfers and the queues of
  the LYS plugin; the helper scripts.
- The JSON store of `local_store.dart` (`readJson`, `writeJson`) is called by
  nothing in `lib/`.
- The Gen1 analyzers, the import of FleetCarma files and their statistics, the
  decode and import scripts: sequential passes over a list or a file, with nothing
  kept between calls; the first are in the plan.
- Widgets and layout; the status service, which keeps no state; the J2534
  inventory, which reads the registry; the diagnosis script of the UC2.
- In the proxy, the layout and redaction of arguments; in the Python tools,
  reports, endpoint statistics, operator markers and logging. In the voice
  annotation, ALSA itself: a recorder is a process that may exit at any time.
