--------------------------- MODULE VoiceAnnotation ---------------------------
(***************************************************************************)
(* lib/core/voice_annotation_capture.dart, the microphone recorder that    *)
(* accompanies a CAN capture, with the capture page that starts and stops  *)
(* both (lib/linux_capture_page.dart) and the capture as CaptureLifecycle. *)
(*                                                                         *)
(* The recorder is a child process (arecord). VoiceAnnotationCapture is    *)
(* shared by all pages and listens to the phases of the capture; a page    *)
(* comes and goes while its start or stop is awaiting. An action is the    *)
(* code between two awaits. 0 stands for null.                             *)
(***************************************************************************)
EXTENDS CaptureLifecycle, FiniteSets

CONSTANTS
    MaxPages,       \* bound: times the capture page is opened
    MaxRecorders,   \* bound: recorder processes started
    MaxFaults       \* bound: recorders that ignore signals, failed metadata

ASSUME VoiceAssumption ==
    /\ MaxCaptures \in Nat /\ MaxPages \in Nat \ {0}
    /\ MaxRecorders \in Nat /\ MaxFaults \in Nat

Captures == 1 .. MaxCaptures
Pages == 1 .. MaxPages
Recorders == 1 .. MaxRecorders
Null == 0

VARIABLES
    (* VoiceAnnotationCapture *)
    process,        \* _process
    stopping,       \* _stopping
    stopFuture,     \* _stopFuture: none, pending or failed
    audio,          \* the capture of activeAudioFile and activeMetadataFile
    anchor,         \* the capture for which _startRequestedUtc was taken
    stopBody,       \* where _stopProcess waits: none, exit or metadata
    target,         \* the process _stopProcess was given
    sidecar,        \* the metadata it is writing
    (* the capture pages *)
    page,           \* the one on the screen
    startFlow,      \* where the page's _startCapture waits
    flowFile,       \* the capture that flow started
    stopFlow,       \* where the page's _stopCapture waits
    (* the recorder processes, and the files they leave *)
    recorders,      \* how many have been started
    running,        \* those still alive
    sidecars,       \* metadata files written
    (* history *)
    overlap,        \* a capture stopped while a voice start was under way
    givenUp,        \* recorders that ignored both signals
    faults

capture == <<phase, pending, opened>>
stopState == <<stopFuture, stopBody, target, sidecar>>
voice == <<process, stopping, audio, anchor, stopState>>
flows == <<startFlow, flowFile, stopFlow>>
processes == <<recorders, running, sidecars>>
history == <<overlap, givenUp, faults>>
allVars == <<capture, voice, page, flows, processes, history>>

VoiceInit ==
    /\ Init
    /\ process = Null /\ stopping = FALSE /\ stopFuture = "none"
    /\ audio = Null /\ anchor = Null /\ stopBody = "none" /\ target = Null
    /\ sidecar = [audio |-> Null, anchor |-> Null]
    /\ page = 1
    /\ startFlow = [p \in Pages |-> "out"] /\ stopFlow = [p \in Pages |-> "out"]
    /\ flowFile = [p \in Pages |-> Null]
    /\ recorders = 0 /\ running = {} /\ sidecars = {}
    /\ overlap = FALSE /\ givenUp = {} /\ faults = 0

(* Every flow that waits at label goes to next.                            *)
Resume(flow, label, next) ==
    [p \in Pages |-> IF flow[p] = label THEN next ELSE flow[p]]

-----------------------------------------------------------------------------
(* stop() of the recorder, and its listener on the capture *)

(* _stopProcess up to its first await: SIGINT is sent.                     *)
StopProcess ==
    /\ stopping' = TRUE /\ stopFuture' = "pending"
    /\ stopBody' = "exit" /\ target' = process
    /\ UNCHANGED <<process, audio, anchor, sidecar>>

(* Mutant: the listener waits for the capture to be idle.                  *)
CaptureChangedOnIdle(newPhase) ==
    IF process # Null /\ ~stopping /\ stopFuture = "none" /\ newPhase = "idle"
    THEN StopProcess
    ELSE UNCHANGED voice

(* _captureChanged, called from within every notification of the capture.  *)
CaptureChanged(newPhase) ==
    IF /\ process # Null /\ ~stopping /\ stopFuture = "none"
       /\ newPhase \in {"stopping", "idle"}
    THEN StopProcess
    ELSE UNCHANGED voice

(* The recorder has exited; or it has ignored SIGINT and SIGTERM until the *)
(* timeouts and is given up.                                               *)
RecorderStops ==
    /\ stopBody = "exit"
    /\ \/ running' = running \ {target} /\ UNCHANGED <<givenUp, faults>>
       \/ /\ faults < MaxFaults                      \* bound
          /\ target \in running
          /\ givenUp' = givenUp \cup {target} /\ faults' = faults + 1
          /\ UNCHANGED running
    /\ sidecar' = [audio |-> audio, anchor |-> anchor]
    /\ stopBody' = "metadata"
    /\ UNCHANGED <<capture, process, stopping, audio, anchor, stopFuture,
                   target, page, flows, recorders, sidecars, overlap>>

MetadataWritten ==
    /\ stopBody = "metadata"
    /\ sidecars' = sidecars \cup {sidecar}
    /\ process' = Null /\ audio' = Null /\ stopping' = FALSE
    /\ stopFuture' = "none" /\ stopBody' = "none" /\ target' = Null
    /\ startFlow' = Resume(startFlow, "awaitStop", "stopped")
    /\ stopFlow' = Resume(stopFlow, "awaitVoice", "voiceStopped")
    /\ UNCHANGED <<capture, anchor, sidecar, page, flowFile, recorders,
                   running, history>>

(* What _stopProcess resets after the metadata stays as it is, and its     *)
(* future fails for whoever waits for it now or later.                     *)
MetadataFails ==
    /\ stopBody = "metadata"
    /\ faults < MaxFaults                            \* bound
    /\ faults' = faults + 1
    /\ stopFuture' = "failed" /\ stopBody' = "none" /\ target' = Null
    /\ startFlow' = Resume(startFlow, "awaitStop", "out")
    /\ stopFlow' = Resume(stopFlow, "awaitVoice", "out")
    /\ UNCHANGED <<capture, process, stopping, audio, anchor, sidecar, page,
                   flowFile, processes, overlap, givenUp>>

(* A recorder ends by itself; the handler of its exit code forgets it.     *)
RecorderExits(r) ==
    /\ r \in running
    /\ running' = running \ {r}
    /\ process' = IF process = r /\ ~stopping THEN Null ELSE process
    /\ UNCHANGED <<capture, stopping, audio, anchor, stopState, page, flows,
                   recorders, sidecars, history>>

-----------------------------------------------------------------------------
(* start() of the recorder, called by a page's _startCapture *)

(* Where start() first waits; out: it returns or throws at once.           *)
FirstWait ==
    CASE stopFuture = "pending" -> "awaitStop"
      [] stopFuture = "failed"  -> "out"
      [] OTHER -> IF process # Null THEN "out" ELSE "awaitAvailable"

StartAfterStop(p) ==
    /\ startFlow[p] = "stopped"
    /\ startFlow' = [startFlow EXCEPT ![p] =
                        IF process # Null THEN "out" ELSE "awaitAvailable"]
    /\ UNCHANGED <<capture, voice, page, flowFile, stopFlow, processes, history>>

(* Mutant: the anchor of the first start is kept.                          *)
AvailableKeepsAnchor(p) ==
    /\ startFlow[p] = "awaitAvailable"
    /\ \/ /\ startFlow' = [startFlow EXCEPT ![p] = "awaitProcess"]
          /\ stopping' = FALSE
          /\ anchor' = IF anchor = Null THEN flowFile[p] ELSE anchor
       \/ /\ startFlow' = [startFlow EXCEPT ![p] = "out"]
          /\ UNCHANGED <<stopping, anchor>>
    /\ UNCHANGED <<capture, process, audio, stopState, page, flowFile, stopFlow,
                   processes, history>>

(* arecord is installed, or start() throws.                                *)
Available(p) ==
    /\ startFlow[p] = "awaitAvailable"
    /\ \/ /\ startFlow' = [startFlow EXCEPT ![p] = "awaitProcess"]
          /\ stopping' = FALSE
          /\ anchor' = flowFile[p]
       \/ /\ startFlow' = [startFlow EXCEPT ![p] = "out"]
          /\ UNCHANGED <<stopping, anchor>>
    /\ UNCHANGED <<capture, process, audio, stopState, page, flowFile, stopFlow,
                   processes, history>>

(* The old sidecar files are deleted and the process is started, or one of *)
(* these throws.                                                           *)
ProcessStarted(p) ==
    /\ startFlow[p] = "awaitProcess"
    /\ startFlow' = [startFlow EXCEPT ![p] = "out"]
    /\ \/ /\ recorders < MaxRecorders                \* bound
          /\ recorders' = recorders + 1
          /\ running' = running \cup {recorders'}
          /\ process' = recorders' /\ audio' = flowFile[p]
       \/ UNCHANGED <<recorders, running, process, audio>>
    /\ UNCHANGED <<capture, stopping, anchor, stopState, page, flowFile,
                   stopFlow, sidecars, history>>

-----------------------------------------------------------------------------
(* The capture page, and the capture *)

OpenPage ==
    /\ page < MaxPages                               \* bound
    /\ page' = page + 1
    /\ UNCHANGED <<capture, voice, flows, processes, history>>

(* The start button of the page, or a start made elsewhere.                *)
StartCapture ==
    /\ Begin
    /\ CaptureChanged("starting")
    /\ \/ /\ startFlow[page] = "out"
          /\ startFlow' = [startFlow EXCEPT ![page] = "awaitFile"]
       \/ UNCHANGED startFlow
    /\ UNCHANGED <<page, flowFile, stopFlow, processes, history>>

(* The file exists: the page's flow goes on to the voice recorder, if its  *)
(* marker mode uses voice and no stop has arrived.                         *)
CaptureOpened ==
    /\ FileOpened
    /\ CaptureChanged(phase')
    /\ \E usesVoice \in BOOLEAN :
          startFlow' = Resume(startFlow, "awaitFile",
                              IF usesVoice /\ phase' = "recording"
                              THEN FirstWait ELSE "out")
    /\ flowFile' = [p \in Pages |-> IF startFlow[p] = "awaitFile"
                                    THEN opened' ELSE flowFile[p]]
    /\ UNCHANGED <<page, stopFlow, processes, history>>

CaptureFails ==
    /\ FileFails
    /\ IF phase = "starting" THEN CaptureChanged("idle") ELSE UNCHANGED voice
    /\ startFlow' = Resume(startFlow, "awaitFile", "out")
    /\ UNCHANGED <<page, flowFile, stopFlow, processes, history>>

VoiceStarting ==
    \E p \in Pages : startFlow[p] \in {"awaitStop", "stopped", "awaitAvailable",
                                       "awaitProcess"}

(* capture.stop(), from a page, a disconnect or a write error.             *)
StopCapture ==
    /\ RequestStop
    /\ CaptureChanged("stopping")
    /\ overlap' = (overlap \/ VoiceStarting)

StopElsewhere ==
    /\ StopCapture
    /\ UNCHANGED <<page, flows, processes, givenUp, faults>>

(* The stop button, without a recorder and with one.                       *)
VoiceActive == process # Null \/ stopping

StopPressed ==
    /\ phase = "recording" /\ stopFlow[page] = "out"
    /\ ~VoiceActive
    /\ StopCapture
    /\ stopFlow' = [stopFlow EXCEPT ![page] = "awaitCapture"]
    /\ UNCHANGED <<page, startFlow, flowFile, processes, givenUp, faults>>

StopPressedWithVoice ==
    /\ phase = "recording" /\ stopFlow[page] = "out"
    /\ VoiceActive
    /\ IF stopFuture = "none" THEN StopProcess ELSE UNCHANGED voice
    /\ stopFlow' = [stopFlow EXCEPT ![page] =
                       IF stopFuture = "failed" THEN "out" ELSE "awaitVoice"]
    /\ UNCHANGED <<capture, page, startFlow, flowFile, processes, history>>

(* Mutant: the flow of a page that is gone does not stop the capture.      *)
StopAfterVoiceIfMounted(p) ==
    /\ stopFlow[p] = "voiceStopped"
    /\ IF p = page /\ phase \in Open
       THEN StopCapture
       ELSE UNCHANGED <<capture, voice, overlap>>
    /\ stopFlow' = [stopFlow EXCEPT ![p] =
                       IF p # page \/ phase = "idle" THEN "out" ELSE "awaitCapture"]
    /\ UNCHANGED <<page, startFlow, flowFile, processes, givenUp, faults>>

StopAfterVoice(p) ==
    /\ stopFlow[p] = "voiceStopped"
    /\ IF phase \in Open
       THEN StopCapture
       ELSE UNCHANGED <<capture, voice, overlap>>
    /\ stopFlow' = [stopFlow EXCEPT ![p] =
                       IF phase = "idle" THEN "out" ELSE "awaitCapture"]
    /\ UNCHANGED <<page, startFlow, flowFile, processes, givenUp, faults>>

(* A write error while the capture is stopping only notifies.              *)
CaptureNotifies ==
    /\ phase = "stopping" /\ ~pending
    /\ CaptureChanged("stopping")
    /\ UNCHANGED <<capture, page, flows, processes, history>>

CaptureClosed ==
    /\ Closed
    /\ CaptureChanged("idle")
    /\ stopFlow' = Resume(stopFlow, "awaitCapture", "out")
    /\ UNCHANGED <<page, startFlow, flowFile, processes, history>>

VoiceNext ==
    \/ RecorderStops \/ MetadataWritten \/ MetadataFails
    \/ \E r \in Recorders : RecorderExits(r)
    \/ \E p \in Pages : \/ StartAfterStop(p) \/ Available(p)
                        \/ ProcessStarted(p) \/ StopAfterVoice(p)
    \/ OpenPage
    \/ StartCapture \/ CaptureOpened \/ CaptureFails
    \/ StopElsewhere \/ StopPressed \/ StopPressedWithVoice
    \/ CaptureNotifies \/ CaptureClosed

(* The event loop runs every ready continuation; the file system, the      *)
(* process launcher and the timeouts answer; the capture behaves as        *)
(* CaptureLifecycle says. Recorders need not exit and users need not act.  *)
VoiceFairness ==
    /\ WF_allVars(RecorderStops)
    /\ WF_allVars(MetadataWritten \/ MetadataFails)
    /\ WF_allVars(CaptureOpened \/ CaptureFails)
    /\ WF_allVars(CaptureClosed)
    /\ \A p \in Pages :
          /\ WF_allVars(StartAfterStop(p))
          /\ WF_allVars(Available(p))
          /\ WF_allVars(ProcessStarted(p))
          /\ WF_allVars(StopAfterVoice(p))

VoiceSpec == VoiceInit /\ [][VoiceNext]_allVars /\ VoiceFairness

-----------------------------------------------------------------------------
(* Every variable stays in its domain; a stop is remembered as long as it  *)
(* runs, and always knows the files it has to describe.                    *)
CaptureOrNull == Captures \cup {Null}
RecorderOrNull == Recorders \cup {Null}
Sidecar == [audio : CaptureOrNull, anchor : CaptureOrNull]

TypeOK ==
    /\ phase \in {"idle", "starting", "recording", "stopping"}
    /\ pending \in BOOLEAN /\ opened \in 0 .. MaxCaptures
    /\ process \in RecorderOrNull /\ stopping \in BOOLEAN
    /\ stopFuture \in {"none", "pending", "failed"}
    /\ stopping => stopFuture # "none"
    /\ audio \in CaptureOrNull /\ anchor \in CaptureOrNull
    /\ stopBody \in {"none", "exit", "metadata"}
    /\ stopBody # "none" <=> stopFuture = "pending"
    /\ stopBody # "none" => audio # Null /\ target # Null
    /\ target \in RecorderOrNull /\ sidecar \in Sidecar
    /\ page \in Pages
    /\ startFlow \in [Pages -> {"out", "awaitFile", "awaitStop", "stopped",
                                "awaitAvailable", "awaitProcess"}]
    /\ stopFlow \in [Pages -> {"out", "awaitVoice", "voiceStopped",
                               "awaitCapture"}]
    /\ flowFile \in [Pages -> CaptureOrNull]
    /\ recorders \in 0 .. MaxRecorders
    /\ running \subseteq Recorders /\ sidecars \subseteq Sidecar
    /\ overlap \in BOOLEAN /\ givenUp \subseteq Recorders
    /\ faults \in 0 .. MaxFaults

(* Unless a capture stopped in the middle of a voice start, no recorder is *)
(* listening when there is no capture: each one still alive is being       *)
(* stopped, or ignored the signals, or its metadata could not be written.  *)
MicrophoneCoupled ==
    (phase \notin Open /\ ~overlap /\ stopFuture # "failed") =>
        \A r \in running : r \in givenUp \/ (r = target /\ stopBody = "exit")

(* Under the same condition, a metadata file gives the start of the very   *)
(* recording it describes.                                                 *)
SidecarOwn ==
    ~overlap => \A s \in sidecars : s.anchor = s.audio /\ s.audio # Null

(* Stopping the recorder comes to an end even if the process does not.     *)
VoiceSettles == stopFuture = "pending" ~> stopFuture # "pending"

(* A page that waits for the recorder before it stops the capture does     *)
(* stop the capture, even if the user has left it, unless the metadata     *)
(* could not be written.                                                   *)
StopReachesCapture ==
    \A p \in Pages :
        stopFlow[p] = "awaitVoice" ~> (phase \notin Open \/ stopFuture = "failed")

(* A stop comes to its end, for the recorder and for the capture behind it.*)
StopsComplete == VoiceSettles /\ StopReachesCapture

(* "A CAN stop from any source automatically closes the audio sidecar as   *)
(* well": once nothing is under way any more, no recorder is left.         *)
RecorderEndsWithCapture ==
    (phase = "idle" /\ ~VoiceStarting /\ stopFuture = "none" /\ faults = 0)
        => running = {}
=============================================================================
