--------------------------- MODULE CaptureSession ---------------------------
(***************************************************************************)
(* lib/core/capture_session.dart: the object that owns the one capture     *)
(* file of the application, with its default output _FileCaptureOutput and *)
(* the file naming of LocalStore.createCaptureFile.                        *)
(*                                                                         *)
(* Dart runs one callback at a time, so an action is one synchronous       *)
(* stretch of code: a public method up to its first await, or the          *)
(* continuation of an await up to the next one. The order in which ready   *)
(* continuations run is left open. A capture is numbered when its file is  *)
(* opened; 0 stands for null.                                              *)
(***************************************************************************)
EXTENDS Naturals, Sequences, SequencesExt, FiniteSets

CONSTANTS
    MaxCaptures,    \* bound: files opened in a behaviour
    MaxLines,       \* bound: lines one capture accepts
    MaxTicks,       \* bound: flush links the timer has appended and not run
    MaxClock        \* bound: seconds that pass

ASSUME BoundsAssumption ==
    /\ MaxCaptures \in Nat \ {0}
    /\ MaxLines \in Nat
    /\ MaxTicks \in Nat \ {0}
    /\ MaxClock \in Nat

Captures == 1 .. MaxCaptures
Lines == {"frame", "note"}          \* writeLine, writeAnnotation
Null == 0

VARIABLES
    (* the fields of CaptureSession *)
    phase,
    starting,       \* _starting is not null
    stopRequested,
    stopping,       \* where the body of stop() waits; "none": _stopping is null
    output,
    activeFile,
    closing,        \* the capture whose output and file stop() holds as locals
    timer,          \* _flushTimer is active
    flushTask,      \* links appended to _flushTask and not run: their outputs
    flushing,       \* the output whose flush() the running link awaits
    lastError,      \* none, create or write
    recordedFrames,
    lastCompleted,  \* lastCompletedFile and lastCompletedFrames
    (* the outputs: one _FileCaptureOutput per opened file *)
    opened,         \* how many files have been opened
    fileName,       \* the second in the name of the file
    buffer,         \* _buffer
    writes,         \* lines handed to the _writes chain and not on disk
    broken,         \* _writes is a failed future
    disk,           \* what this output has appended to its file
    (* environment and history *)
    clock,
    accepted,       \* lines taken by writeLine and writeAnnotation
    outcome         \* how stop() completed: none, sealed or failed

control == <<phase, starting, stopRequested, stopping>>
current == <<output, activeFile, closing>>
flushes == <<timer, flushTask, flushing>>
results == <<lastError, recordedFrames, lastCompleted>>
files   == <<opened, fileName, clock>>
storage == <<buffer, writes, broken, disk>>
history == <<accepted, outcome>>
vars == <<control, current, flushes, results, files, storage, history>>

FrameCount(s) == Cardinality({i \in DOMAIN s : s[i] = "frame"})

Init ==
    /\ phase = "idle" /\ starting = FALSE /\ stopRequested = FALSE
    /\ stopping = "none"
    /\ output = Null /\ activeFile = Null /\ closing = Null
    /\ timer = FALSE /\ flushTask = <<>> /\ flushing = Null
    /\ lastError = "none" /\ recordedFrames = 0
    /\ lastCompleted = [file |-> Null, frames |-> 0]
    /\ opened = 0 /\ fileName = [c \in Captures |-> 0] /\ clock = 0
    /\ buffer = [c \in Captures |-> <<>>]
    /\ writes = [c \in Captures |-> <<>>]
    /\ broken = [c \in Captures |-> FALSE]
    /\ disk = [c \in Captures |-> <<>>]
    /\ accepted = [c \in Captures |-> <<>>]
    /\ outcome = [c \in Captures |-> "none"]

-----------------------------------------------------------------------------
(* start() *)

(* LocalStore.createCaptureFile: the file is named after the second.       *)
CreateCaptureFile(c) == fileName' = [fileName EXCEPT ![c] = clock]

(* Mutants: a start that keeps the frame count, and one that keeps the     *)
(* error, of the capture before it.                                        *)
StartKeepsCount ==
    /\ phase = "idle" /\ opened < MaxCaptures
    /\ phase' = "starting" /\ starting' = TRUE /\ stopRequested' = FALSE
    /\ lastError' = "none"
    /\ UNCHANGED <<stopping, recordedFrames, lastCompleted, current, flushes,
                   files, storage, history>>

StartKeepsError ==
    /\ phase = "idle" /\ opened < MaxCaptures
    /\ phase' = "starting" /\ starting' = TRUE /\ stopRequested' = FALSE
    /\ recordedFrames' = 0
    /\ UNCHANGED <<stopping, lastError, lastCompleted, current, flushes,
                   files, storage, history>>

Start ==
    /\ phase = "idle"
    /\ opened < MaxCaptures                          \* bound
    /\ phase' = "starting" /\ starting' = TRUE /\ stopRequested' = FALSE
    /\ lastError' = "none" /\ recordedFrames' = 0
    /\ UNCHANGED <<stopping, lastCompleted, current, flushes, files, storage,
                   history>>

(* Mutant: the start that arms no timer.                                   *)
CreateWithoutTimer ==
    LET c == opened + 1 IN
    /\ starting
    /\ opened' = c /\ CreateCaptureFile(c)
    /\ activeFile' = c /\ output' = c
    /\ phase' = IF stopRequested THEN "stopping" ELSE "recording"
    /\ starting' = FALSE
    /\ UNCHANGED <<stopRequested, stopping, closing, flushes, results, clock,
                   storage, history>>

(* _createFile() answers: the file is named after the current second, its  *)
(* output is opened, and the timer starts unless a stop arrived meanwhile. *)
CreateSucceeds ==
    LET c == opened + 1 IN
    /\ starting
    /\ opened' = c
    /\ CreateCaptureFile(c)
    /\ activeFile' = c /\ output' = c
    /\ phase' = IF stopRequested THEN "stopping" ELSE "recording"
    /\ timer' = ~stopRequested
    /\ starting' = FALSE
    /\ UNCHANGED <<stopRequested, stopping, closing, flushTask, flushing,
                   results, clock, storage, history>>

CreateFails ==
    /\ starting
    /\ lastError' = "create"
    /\ phase' = IF stopRequested THEN phase ELSE "idle"
    /\ starting' = FALSE
    /\ UNCHANGED <<stopRequested, stopping, current, flushes, recordedFrames,
                   lastCompleted, files, storage, history>>

-----------------------------------------------------------------------------
(* writeLine() and writeAnnotation() *)

Write(line) ==
    /\ phase = "recording"
    /\ output # Null
    /\ Len(accepted[output]) < MaxLines              \* bound
    /\ buffer' = [buffer EXCEPT ![output] = Append(@, line)]
    /\ accepted' = [accepted EXCEPT ![output] = Append(@, line)]
    /\ recordedFrames' = IF line = "frame" THEN recordedFrames + 1
                                           ELSE recordedFrames
    /\ UNCHANGED <<control, current, flushes, lastError, lastCompleted, files,
                   writes, broken, disk, outcome>>

-----------------------------------------------------------------------------
(* stop() and _onOutputError() *)

(* The synchronous part of stop(), shared by its two callers.              *)
RequestStop ==
    /\ stopRequested' = TRUE
    /\ timer' = FALSE
    /\ phase' = "stopping"
    /\ IF starting
       THEN stopping' = "awaitStart" /\ UNCHANGED <<output, closing>>
       ELSE stopping' = "awaitFlushTask" /\ closing' = output /\ output' = Null
    /\ UNCHANGED <<starting, activeFile>>

Stop ==
    /\ stopping = "none"
    /\ phase # "idle"
    /\ RequestStop
    /\ UNCHANGED <<flushTask, flushing, results, files, storage, history>>

(* _onOutputError for a failed write: it stops a running capture itself.   *)
OnOutputError ==
    /\ lastError' = IF lastError = "none" THEN "write" ELSE lastError
    /\ IF phase \in {"recording", "starting"} /\ stopping = "none"
       THEN RequestStop
       ELSE UNCHANGED <<control, current, timer>>

-----------------------------------------------------------------------------
(* The periodic timer and the chain of flushes it builds *)

TimerTick ==
    /\ timer
    /\ Len(flushTask) < MaxTicks                     \* bound
    /\ flushTask' = Append(flushTask, activeFile)
    /\ UNCHANGED <<control, current, timer, flushing, results, files, storage,
                   history>>

(* flush(): the buffer moves to the write chain.                           *)
Flush(c) ==
    /\ writes' = [writes EXCEPT ![c] = IF broken[c] THEN @ ELSE @ \o buffer[c]]
    /\ buffer' = [buffer EXCEPT ![c] = <<>>]
    /\ UNCHANGED <<broken, disk>>

(* The first link runs once the one before it is done.                     *)
FlushLinkRuns ==
    /\ flushing = Null /\ flushTask # <<>>
    /\ flushTask' = Tail(flushTask)
    /\ IF output = Head(flushTask) /\ phase = "recording"
       THEN flushing' = output /\ Flush(output)
       ELSE UNCHANGED <<flushing, storage>>
    /\ UNCHANGED <<control, current, timer, results, files, history>>

FlushLinkDone ==
    /\ flushing # Null
    /\ ~broken[flushing] /\ writes[flushing] = <<>>
    /\ flushing' = Null
    /\ UNCHANGED <<control, current, timer, flushTask, results, files, storage,
                   history>>

(* Mutant: the error handler awaits the stop that awaits the handler.      *)
FlushLinkAwaitsStop ==
    /\ flushing # Null
    /\ broken[flushing]
    /\ OnOutputError
    /\ UNCHANGED <<flushTask, flushing, recordedFrames, lastCompleted, files,
                   storage, history>>

FlushLinkThrows ==
    /\ flushing # Null
    /\ broken[flushing]
    /\ flushing' = Null
    /\ OnOutputError
    /\ UNCHANGED <<flushTask, recordedFrames, lastCompleted, files, storage,
                   history>>

-----------------------------------------------------------------------------
(* The operating system: the append handed to it succeeds or, having       *)
(* written any part of the batch, fails.                                   *)

WriteSucceeds(c) ==
    /\ writes[c] # <<>>
    /\ disk' = [disk EXCEPT ![c] = @ \o writes[c]]
    /\ writes' = [writes EXCEPT ![c] = <<>>]
    /\ UNCHANGED <<control, current, flushes, results, files, buffer, broken,
                   history>>

(* Mutant: a failed append leaves the chain of writes usable.              *)
WriteFailsAndContinues(c) ==
    /\ writes[c] # <<>>
    /\ \E n \in 0 .. Len(writes[c]) :
          disk' = [disk EXCEPT ![c] = @ \o SubSeq(writes[c], 1, n)]
    /\ writes' = [writes EXCEPT ![c] = <<>>]
    /\ UNCHANGED <<control, current, flushes, results, files, buffer, broken,
                   history>>

WriteFails(c) ==
    /\ writes[c] # <<>>
    /\ \E n \in 0 .. Len(writes[c]) :
          disk' = [disk EXCEPT ![c] = @ \o SubSeq(writes[c], 1, n)]
    /\ writes' = [writes EXCEPT ![c] = <<>>]
    /\ broken' = [broken EXCEPT ![c] = TRUE]
    /\ UNCHANGED <<control, current, flushes, results, files, buffer, history>>

-----------------------------------------------------------------------------
(* The body of stop() after each of its awaits *)

StopAfterStart ==
    /\ stopping = "awaitStart"
    /\ ~starting
    /\ stopping' = "awaitFlushTask" /\ closing' = output /\ output' = Null
    /\ UNCHANGED <<phase, starting, stopRequested, activeFile, flushes,
                   results, files, storage, history>>

(* Mutants: stop() does not flush what is left in the buffer, or does not  *)
(* wait for the flush that is running.                                     *)
StopWithoutFinish ==
    /\ stopping = "awaitFlushTask"
    /\ flushTask = <<>> /\ flushing = Null
    /\ stopping' = "awaitFinish"
    /\ UNCHANGED <<phase, starting, stopRequested, current, flushes, results,
                   files, storage, history>>

StopWithoutAwaitingFlush ==
    /\ stopping = "awaitFlushTask"
    /\ stopping' = "awaitFinish"
    /\ IF closing # Null THEN Flush(closing) ELSE UNCHANGED storage
    /\ UNCHANGED <<phase, starting, stopRequested, current, flushes, results,
                   files, history>>

StopAfterFlushTask ==
    /\ stopping = "awaitFlushTask"
    /\ flushTask = <<>> /\ flushing = Null
    /\ stopping' = "awaitFinish"
    /\ IF closing # Null THEN Flush(closing) ELSE UNCHANGED storage
    /\ UNCHANGED <<phase, starting, stopRequested, current, flushes, results,
                   files, history>>

(* The finally block of stop().                                            *)
Reset ==
    /\ phase' = "idle" /\ starting' = FALSE /\ stopRequested' = FALSE
    /\ stopping' = "none"
    /\ output' = Null /\ activeFile' = Null /\ closing' = Null
    /\ timer' = FALSE /\ flushTask' = <<>>

StopSucceeds ==
    /\ stopping = "awaitFinish"
    /\ closing # Null => ~broken[closing] /\ writes[closing] = <<>>
    /\ IF closing # Null
       THEN /\ lastCompleted' = [file |-> closing, frames |-> recordedFrames]
            /\ outcome' = [outcome EXCEPT ![closing] = "sealed"]
       ELSE UNCHANGED <<lastCompleted, outcome>>
    /\ Reset
    /\ UNCHANGED <<flushing, lastError, recordedFrames, files, storage,
                   accepted>>

StopThrows ==
    /\ stopping = "awaitFinish"
    /\ closing # Null
    /\ broken[closing]
    /\ lastError' = IF lastError = "none" THEN "write" ELSE lastError
    /\ outcome' = [outcome EXCEPT ![closing] = "failed"]
    /\ Reset
    /\ UNCHANGED <<flushing, recordedFrames, lastCompleted, files, storage,
                   accepted>>

-----------------------------------------------------------------------------
ClockTick ==
    /\ clock < MaxClock                              \* bound
    /\ clock' = clock + 1
    /\ UNCHANGED <<control, current, flushes, results, opened, fileName,
                   storage, history>>

Disk == \E c \in Captures : WriteSucceeds(c) \/ WriteFails(c)

FlushChain == FlushLinkRuns \/ FlushLinkDone \/ FlushLinkThrows

StopBody == StopAfterStart \/ StopAfterFlushTask \/ StopSucceeds \/ StopThrows

Next ==
    \/ Start \/ CreateSucceeds \/ CreateFails
    \/ \E line \in Lines : Write(line)
    \/ Stop
    \/ TimerTick \/ FlushChain
    \/ Disk
    \/ StopBody
    \/ ClockTick

(* The event loop runs every ready continuation, the file system answers   *)
(* every request and an active timer fires. Nothing obliges a user to      *)
(* start, write or stop.                                                   *)
Fairness ==
    /\ WF_vars(CreateSucceeds \/ CreateFails)
    /\ WF_vars(TimerTick)
    /\ WF_vars(FlushChain)
    /\ WF_vars(Disk)
    /\ WF_vars(StopBody)

Spec == Init /\ [][Next]_vars /\ Fairness

-----------------------------------------------------------------------------
(* Every variable stays in its domain; the frame counter counts the frames *)
(* of the capture in progress and never those of an earlier one.           *)
CaptureOrNull == Captures \cup {Null}

TypeOK ==
    /\ phase \in {"idle", "starting", "recording", "stopping"}
    /\ starting \in BOOLEAN /\ stopRequested \in BOOLEAN
    /\ stopping \in {"none", "awaitStart", "awaitFlushTask", "awaitFinish"}
    /\ output \in CaptureOrNull /\ activeFile \in CaptureOrNull
    /\ closing \in CaptureOrNull
    /\ timer \in BOOLEAN
    /\ flushTask \in Seq(Captures) /\ flushing \in CaptureOrNull
    /\ lastError \in {"none", "create", "write"}
    /\ recordedFrames \in 0 .. MaxLines
    /\ lastCompleted \in [file : CaptureOrNull, frames : 0 .. MaxLines]
    /\ opened \in 0 .. MaxCaptures
    /\ clock \in 0 .. MaxClock /\ fileName \in [Captures -> 0 .. MaxClock]
    /\ buffer \in [Captures -> Seq(Lines)]
    /\ writes \in [Captures -> Seq(Lines)]
    /\ broken \in [Captures -> BOOLEAN]
    /\ disk \in [Captures -> Seq(Lines)]
    /\ accepted \in [Captures -> Seq(Lines)]
    /\ outcome \in [Captures -> {"none", "sealed", "failed"}]

(* What a capture has put in its file is always a prefix of what it        *)
(* accepted: no line is lost in the middle, repeated or reordered by the   *)
(* buffer, the chained appends, or an append that failed half way.         *)
DiskIsPrefix == \A c \in Captures : IsPrefix(disk[c], accepted[c])

(* When stop() completes with a file, every accepted line is in that file  *)
(* and lastCompletedFrames counts the frames this capture put in it.       *)
SealedExact ==
    /\ \A c \in Captures : outcome[c] = "sealed" => disk[c] = accepted[c]
    /\ lastCompleted.file # Null =>
          lastCompleted.frames = FrameCount(disk[lastCompleted.file])

(* An idle session has nothing left that could act later: no timer, no     *)
(* pending or running flush link, no append in flight, no buffered line;   *)
(* and every file it opened was closed by a stop that completed.           *)
IdleIsQuiescent ==
    phase = "idle" =>
        /\ stopping = "none" /\ ~starting /\ ~stopRequested
        /\ output = Null /\ activeFile = Null
        /\ ~timer /\ flushTask = <<>> /\ flushing = Null
        /\ \A c \in 1 .. opened :
              writes[c] = <<>> /\ buffer[c] = <<>> /\ outcome[c] # "none"

(* A reported write error belongs to the latest capture: a late failure of *)
(* an earlier one is never shown against the capture that followed.        *)
ErrorIsOwn == lastError = "write" => opened # 0 /\ broken[opened]

(* A line accepted from the bus reaches the file without anyone asking, or *)
(* the output fails: frames do not sit in the buffer until stop.           *)
AcceptedIsStored ==
    \A c \in Captures : \A n \in 1 .. MaxLines :
        Len(accepted[c]) >= n ~> (Len(disk[c]) >= n \/ broken[c])

(* A failed append ends the capture by itself: it does not go on recording *)
(* lines that can no longer be stored.                                     *)
FailureEndsCapture ==
    \A c \in Captures : broken[c] ~> outcome[c] = "failed"

(* What is accepted is settled by itself: a line is stored, or its capture *)
(* ends and is known to have failed.                                       *)
LinesSettle == AcceptedIsStored /\ FailureEndsCapture

(* The capture as EvidenceLog sees it.                                     *)
Status(c) ==
    IF c > opened THEN "new"
    ELSE IF outcome[c] # "none" THEN outcome[c]
    ELSE IF phase = "recording" THEN "open"
    ELSE "closing"

Log == INSTANCE EvidenceLog WITH
    status <- [c \in Captures |-> Status(c)],
    lines <- accepted,
    stored <- disk

(* CaptureSession implements the evidence log: captures do not overlap,    *)
(* lines are accepted only while open, a sealed capture is complete, and   *)
(* no sealed or failed capture is written again.                           *)
ImplementsEvidenceLog == Log!Spec

Lifecycle == INSTANCE CaptureLifecycle WITH pending <- starting

(* CaptureSession implements the lifecycle its listeners are written for,  *)
(* with its fairness: a phase is never skipped or taken back, a file that  *)
(* appears after a stop does not reopen the capture, and a stop gets       *)
(* through, whatever the start, the queued flushes and the disk are doing  *)
(* when it arrives.                                                        *)
ImplementsLifecycle == Lifecycle!Spec

(* "Owns one capture file": what is in a capture file comes from one       *)
(* capture. The name of the file is the second at which it was created.    *)
FileHoldsOneCapture ==
    \A c, d \in 1 .. opened :
        (c # d /\ disk[c] # <<>> /\ disk[d] # <<>>) => fileName[c] # fileName[d]
=============================================================================
