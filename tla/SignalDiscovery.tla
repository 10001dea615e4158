-------------------------- MODULE SignalDiscovery --------------------------
(***************************************************************************)
(* What is observed during a capture beside its file: the three windows of *)
(* signal_discovery.dart, and the validation of a candidate of             *)
(* fleetcarma_signal_candidates.dart, as AtlasRuntime and the capture page *)
(* of main.dart drive them. The capture is CaptureLifecycle. An action is  *)
(* a call up to its first await, or what follows an await: of the callers  *)
(* that wait for startCapture, the continuation lies only microtasks after *)
(* the opening of the file and is part of it.                              *)
(***************************************************************************)
EXTENDS Naturals, Sequences, FiniteSets

CONSTANTS
    MaxCaptures,    \* bound: files opened in a behaviour
    MaxLines        \* bound: lines of a capture, and of a validation

VARIABLES
    phase, pending, opened,     \* the capture, as in CaptureLifecycle
    lines,          \* what its file, or the last one, has accepted
    awaiting,       \* the callers that wait for startCapture
    discovery,      \* the window of the discovery: its phase
    counts,         \* the frames observed in each window
    result,         \* the counts its candidates were computed from
    validating,     \* a validation is active
    observed,       \* its samples and steps, in order
    reporting       \* its report is being written

captureVars == <<phase, pending, opened>>
discoveryVars == <<discovery, counts, result>>
validationVars == <<validating, observed, reporting>>
vars == <<captureVars, lines, awaiting, discoveryVars, validationVars>>

Capture == INSTANCE CaptureLifecycle

Callers == {"button", "fleetcarma"}
Windows == {"baseline", "event", "after"}
None == <<>>
Nothing == [w \in Windows |-> 0]

(* Data frames, and frames without data; the markers of the evidence that  *)
(* delimit windows and steps. Other markers are left out.                  *)
Frames == {"data", "empty"}
Markers == {"event start", "event end", "validation", "step"}

isRecording == phase = "recording"
isRunning == discovery \in Windows

Init ==
    /\ Capture!Init
    /\ lines = <<>> /\ awaiting = {}
    /\ discovery = "idle" /\ counts = Nothing /\ result = None
    /\ validating = FALSE /\ observed = <<>> /\ reporting = FALSE

(* SignalDiscoverySession.finish                                           *)
Finish ==
    /\ discovery' = "complete"
    /\ result' = IF discovery = "after" THEN counts ELSE None
    /\ UNCHANGED counts

FinishIfRunning == IF isRunning THEN Finish ELSE UNCHANGED discoveryVars

-----------------------------------------------------------------------------
(* startCapture up to capture.start(). The button is shown when no capture *)
(* is open; a validation starts one unless one records. A capture that is  *)
(* still closing refuses, and the discovery is finished.                   *)
MayStart(who) ==
    \/ who = "button" /\ phase = "idle"
    \/ who = "fleetcarma" /\ ~isRecording /\ ~validating

StartCapture(who) ==
    /\ MayStart(who)
    /\ result' = None /\ counts' = Nothing
    /\ \/ /\ phase = "idle" /\ Capture!Begin
          /\ awaiting' = {who} /\ discovery' = "baseline"
       \/ /\ phase = "starting" /\ UNCHANGED captureVars
          /\ awaiting' = awaiting \cup {who} /\ discovery' = "baseline"
       \/ /\ phase = "stopping" /\ UNCHANGED <<captureVars, awaiting>>
          /\ discovery' = "complete"
    /\ UNCHANGED <<lines, validationVars>>

(* A marker of a recording capture is accepted, or fails and stops it.     *)
Write(line) ==
    \/ /\ Len(lines) < MaxLines
       /\ lines' = Append(lines, line) /\ UNCHANGED captureVars
    \/ Capture!RequestStop /\ UNCHANGED lines

\* Mutant: the samples of the validation before are kept.
StartValidationKeeps ==
    /\ validating' = TRUE
    /\ UNCHANGED <<observed, reporting>>

(* startValidation.                                                        *)
StartValidation ==
    /\ validating' = TRUE /\ observed' = <<>>
    /\ UNCHANGED reporting

(* The file of the capture is there: the callers go on, unless a stop has  *)
(* come before it.                                                         *)
FileOpened ==
    /\ pending /\ awaiting' = {}
    /\ IF phase = "starting"
       THEN /\ UNCHANGED discoveryVars
            /\ IF "fleetcarma" \in awaiting
               THEN /\ StartValidation
                    /\ \/ Capture!FileOpened /\ lines' = <<"validation">>
                       \/ /\ lines' = <<>>       \* its marker fails
                          /\ phase' = "stopping" /\ pending' = FALSE
                          /\ opened' = opened + 1
               ELSE /\ Capture!FileOpened /\ lines' = <<>>
                    /\ UNCHANGED validationVars
       ELSE Capture!FileOpened /\ lines' = <<>> /\ Finish
            /\ UNCHANGED validationVars

FileFails ==
    /\ Capture!FileFails /\ awaiting' = {} /\ Finish
    /\ UNCHANGED <<lines, validationVars>>

(* stopCapture: the discovery ends at once, the file when it is closed.    *)
StopCapture ==
    /\ FinishIfRunning
    /\ \/ Capture!RequestStop
       \/ phase \notin Capture!Open /\ UNCHANGED captureVars
    /\ UNCHANGED <<lines, awaiting, validationVars>>

Closed ==
    /\ Capture!Closed
    /\ UNCHANGED <<lines, awaiting, discoveryVars, validationVars>>

(* A flush fails: the capture stops, the discovery does not.               *)
WriteFails ==
    /\ isRecording /\ Capture!RequestStop
    /\ UNCHANGED <<lines, awaiting, discoveryVars, validationVars>>

-----------------------------------------------------------------------------
(* _onFrame: the file, then the validation, then the discovery if the      *)
(* capture still records.                                                  *)
Sampled(frame) ==
    IF validating /\ frame = "data" THEN Append(observed, "data") ELSE observed

Frame(frame) ==
    /\ Len(observed) < MaxLines
    /\ observed' = Sampled(frame)
    /\ IF isRecording THEN Write(frame) ELSE UNCHANGED <<captureVars, lines>>
    /\ counts' = IF phase' = "recording" /\ isRunning /\ frame = "data"
                 THEN [counts EXCEPT ![discovery] = @ + 1] ELSE counts
    /\ UNCHANGED <<awaiting, discovery, result, validating, reporting>>

(* The marks of the discovery; their buttons are shown while recording.    *)
Mark(from, to, marker) ==
    /\ isRecording /\ discovery = from
    /\ discovery' = to /\ Write(marker)
    /\ UNCHANGED <<awaiting, counts, result, validationVars>>

MarkEventStart == Mark("baseline", "event", "event start")
MarkEventEnd == Mark("event", "after", "event end")

(* A validation begins in a capture that records already.                  *)
ValidateRecording ==
    /\ isRecording /\ ~validating
    /\ StartValidation /\ Write("validation")
    /\ UNCHANGED <<awaiting, discoveryVars>>

(* markStep precedes its marker, which is refused outside a recording.     *)
MarkStep ==
    /\ validating /\ Len(observed) < MaxLines
    /\ observed' = Append(observed, "step")
    /\ IF isRecording THEN Write("step") ELSE UNCHANGED <<captureVars, lines>>
    /\ UNCHANGED <<awaiting, discoveryVars, validating, reporting>>

FinishValidation ==
    /\ validating /\ ~reporting
    /\ validating' = FALSE /\ reporting' = TRUE
    /\ UNCHANGED <<captureVars, lines, awaiting, discoveryVars, observed>>

(* The report is on disk: the capture that records now is stopped.         *)
ReportWritten ==
    /\ reporting /\ reporting' = FALSE
    /\ IF isRecording THEN FinishIfRunning /\ Capture!RequestStop
       ELSE UNCHANGED <<captureVars, discoveryVars>>
    /\ UNCHANGED <<lines, awaiting, validating, observed>>

Next ==
    \/ \E who \in Callers : StartCapture(who)
    \/ FileOpened \/ FileFails \/ StopCapture \/ Closed \/ WriteFails
    \/ \E frame \in Frames : Frame(frame)
    \/ MarkEventStart \/ MarkEventEnd
    \/ ValidateRecording \/ MarkStep \/ FinishValidation \/ ReportWritten

Spec == Init /\ [][Next]_vars

-----------------------------------------------------------------------------
TypeOK ==
    /\ phase \in {"idle", "starting", "recording", "stopping"}
    /\ pending \in BOOLEAN /\ opened \in 0 .. MaxCaptures
    /\ lines \in Seq(Frames \cup Markers) /\ awaiting \subseteq Callers
    /\ discovery \in Windows \cup {"idle", "complete"}
    /\ counts \in [Windows -> Nat]
    /\ result = None \/ result \in [Windows -> Nat]
    /\ validating \in BOOLEAN /\ reporting \in BOOLEAN
    /\ observed \in Seq({"data", "step"})

(* The windows that the file itself shows: its markers part its frames.    *)
Marked(marker, k) == \E i \in 1 .. k : lines[i] = marker

WindowAt(k) ==
    IF ~Marked("event start", k) THEN "baseline"
    ELSE IF ~Marked("event end", k) THEN "event" ELSE "after"

FramesIn(w) == {k \in DOMAIN lines : lines[k] = "data" /\ WindowAt(k) = w}

Recorded == [w \in Windows |-> Cardinality(FramesIn(w))]

(* The discovery of a recording capture has counted in each window exactly *)
(* the frames its file holds between the same markers, and the candidates  *)
(* shown are those of the last file.                                       *)
WindowsAreRecorded ==
    /\ isRecording => /\ discovery = WindowAt(Len(lines))
                      /\ counts = Recorded
    /\ result # None => result = Recorded

(* The samples and steps up to line k, since the last marker of a          *)
(* validation.                                                             *)
Begun == {k \in DOMAIN lines : lines[k] = "validation"}

SamplesUpTo(k) ==
    {i \in 1 .. k : lines[i] \in {"data", "step"} /\ \A b \in Begun : b < i}

(* What a validation has sampled is in the capture it was started in, as   *)
(* long as that one records: the same frames at the same steps, in the     *)
(* same order.                                                             *)
SamplesAreRecorded ==
    validating /\ isRecording /\ Begun # {} =>
        /\ Len(observed) = Cardinality(SamplesUpTo(Len(lines)))
        /\ \A k \in SamplesUpTo(Len(lines)) :
              observed[Cardinality(SamplesUpTo(k))] = lines[k]
=============================================================================
