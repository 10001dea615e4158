------------------------ MODULE VoiceAnnotationProofs ------------------------
(***************************************************************************)
(* Proofs about VoiceAnnotation for any number of captures, pages,         *)
(* recorders and faults.                                                   *)
(***************************************************************************)
EXTENDS VoiceAnnotation, TLAPS

(* The flows that are inside start() of the recorder.                      *)
InStart(p) == startFlow[p] \in {"awaitStop", "stopped", "awaitAvailable",
                                "awaitProcess"}

(* What holds whatever happens: a file under way is within the bound, one  *)
(* flow waits for it at most, a flow inside start() knows its capture, and *)
(* a recorder that is tracked has files.                                   *)
FilesInv ==
    /\ pending => opened < MaxCaptures
    /\ phase = "starting" => pending
    /\ phase \in {"idle", "recording"} => ~pending
    /\ \A p \in Pages : startFlow[p] = "awaitFile" => pending
    /\ \A p, q \in Pages :
          (startFlow[p] = "awaitFile" /\ startFlow[q] = "awaitFile") => p = q
    /\ \A p \in Pages : InStart(p) => flowFile[p] # Null
    /\ process # Null => audio # Null

(* What holds until a capture stops in the middle of a voice start: start() *)
(* is entered once per capture, and does not meet a recorder or a stop.    *)
StartInv ==
    /\ phase # "recording" => \A p \in Pages : ~InStart(p)
    /\ pending => \A p \in Pages : ~InStart(p)
    /\ \A p, q \in Pages : (InStart(p) /\ InStart(q)) => p = q
    /\ \A p \in Pages :
          /\ startFlow[p] = "awaitStop" => stopFuture = "pending"
          /\ startFlow[p] \in {"stopped", "awaitAvailable", "awaitProcess"}
                => process = Null /\ stopFuture = "none"
          /\ startFlow[p] = "awaitProcess" => anchor = flowFile[p]

RecorderInv ==
    /\ \A r \in running : r = process \/ r \in givenUp
    /\ stopFuture # "none" => stopping /\ process # Null
    /\ stopBody # "none" => target = process
    /\ stopBody = "metadata" => process \notin running \/ process \in givenUp
    /\ (process # Null /\ phase \notin Open) => stopFuture # "none"

AnchorInv ==
    /\ process # Null => anchor = audio
    /\ stopBody = "metadata" => sidecar.anchor = sidecar.audio /\ sidecar.audio # Null
    /\ \A s \in sidecars : s.anchor = s.audio /\ s.audio # Null

(* TypeOK in three parts, for the provers.                                 *)
FlagsOK == pending \in BOOLEAN /\ stopping \in BOOLEAN /\ overlap \in BOOLEAN

RecorderOK ==
    /\ process \in RecorderOrNull
    /\ stopFuture \in {"none", "pending", "failed"}
    /\ stopping => stopFuture # "none"
    /\ audio \in CaptureOrNull /\ anchor \in CaptureOrNull
    /\ stopBody \in {"none", "exit", "metadata"}
    /\ stopBody # "none" <=> stopFuture = "pending"
    /\ stopBody # "none" => audio # Null /\ target # Null
    /\ target \in RecorderOrNull /\ sidecar \in Sidecar
    /\ recorders \in 0 .. MaxRecorders
    /\ running \subseteq Recorders /\ sidecars \subseteq Sidecar
    /\ givenUp \subseteq Recorders

FlowsOK ==
    /\ phase \in {"idle", "starting", "recording", "stopping"}
    /\ opened \in 0 .. MaxCaptures
    /\ page \in Pages
    /\ startFlow \in [Pages -> {"out", "awaitFile", "awaitStop", "stopped",
                                "awaitAvailable", "awaitProcess"}]
    /\ stopFlow \in [Pages -> {"out", "awaitVoice", "voiceStopped",
                               "awaitCapture"}]
    /\ flowFile \in [Pages -> CaptureOrNull]
    /\ faults \in 0 .. MaxFaults

IInv ==
    /\ TypeOK /\ FilesInv
    /\ ~overlap => StartInv /\ RecorderInv /\ AnchorInv
-----------------------------------------------------------------------------
USE DEF capture, stopState, voice, flows, processes, history, allVars

LEMMA TypeParts == TypeOK <=> FlagsOK /\ RecorderOK /\ FlowsOK
  BY Zenon DEF TypeOK, FlagsOK, RecorderOK, FlowsOK

LEMMA InitInvariant == VoiceInit => IInv
<1> SUFFICES ASSUME VoiceInit PROVE IInv
  OBVIOUS
<1> USE VoiceAssumption DEF VoiceInit, Init, Null
<1>1. FlagsOK
  BY Zenon DEF FlagsOK
<1>2. RecorderOK
  BY DEF RecorderOK, CaptureOrNull, RecorderOrNull, Sidecar
<1>3. FlowsOK
  BY DEF FlowsOK, CaptureOrNull, Pages
<1>4. FilesInv
  BY DEF FilesInv, InStart
<1>5. StartInv /\ RecorderInv /\ AnchorInv
  BY DEF StartInv, RecorderInv, AnchorInv, InStart
<1> QED
  BY <1>1, <1>2, <1>3, <1>4, <1>5, TypeParts DEF IInv

(* What the capture does in its own steps.                                 *)
LEMMA CaptureSteps ==
    ASSUME FlowsOK, FilesInv, Begin \/ FileOpened \/ FileFails \/ RequestStop \/ Closed
    PROVE  /\ phase' \in {"idle", "starting", "recording", "stopping"}
           /\ opened' \in 0 .. MaxCaptures
           /\ pending' => opened' < MaxCaptures
           /\ phase' = "starting" => pending'
           /\ phase' \in {"idle", "recording"} => ~pending'
  BY VoiceAssumption
  DEF FlowsOK, FilesInv, Begin, FileOpened, FileFails, RequestStop, Closed, Open

(* What a notification of the capture may do to the recorder.              *)
LEMMA ListenerSteps ==
    ASSUME NEW newPhase, CaptureChanged(newPhase)
    PROVE  /\ UNCHANGED <<process, audio, anchor, sidecar>>
           /\ \/ UNCHANGED <<stopping, stopFuture, stopBody, target>>
              \/ /\ process # Null /\ ~stopping /\ stopFuture = "none"
                 /\ newPhase \in {"stopping", "idle"}
                 /\ StopProcess
           /\ (process # Null /\ newPhase \in {"stopping", "idle"})
                 => stopFuture' # "none" \/ stopping
  BY DEF CaptureChanged, StopProcess

LEMMA FlagsStep == FlagsOK /\ [VoiceNext]_allVars => FlagsOK'
<1> SUFFICES ASSUME FlagsOK, [VoiceNext]_allVars PROVE FlagsOK'
  OBVIOUS
<1> USE DEF FlagsOK
<1>1. CASE RecorderStops
  BY <1>1, Zenon DEF RecorderStops
<1>2. CASE MetadataWritten
  BY <1>2, Zenon DEF MetadataWritten
<1>3. CASE MetadataFails
  BY <1>3, Zenon DEF MetadataFails
<1>4. ASSUME NEW r \in Recorders, RecorderExits(r) PROVE FlagsOK'
  BY <1>4, Zenon DEF RecorderExits
<1>5. ASSUME NEW p \in Pages, StartAfterStop(p) PROVE FlagsOK'
  BY <1>5, Zenon DEF StartAfterStop
<1>6. ASSUME NEW p \in Pages, Available(p) PROVE FlagsOK'
  BY <1>6, Zenon DEF Available
<1>7. ASSUME NEW p \in Pages, ProcessStarted(p) PROVE FlagsOK'
  BY <1>7, Zenon DEF ProcessStarted
<1>8. ASSUME NEW p \in Pages, StopAfterVoice(p) PROVE FlagsOK'
  BY <1>8, Zenon DEF StopAfterVoice, StopCapture, RequestStop, CaptureChanged, StopProcess
<1>9. CASE OpenPage
  BY <1>9, Zenon DEF OpenPage
<1>10. CASE StartCapture
  BY <1>10, Zenon DEF StartCapture, Begin, CaptureChanged, StopProcess
<1>11. CASE CaptureOpened
  BY <1>11, Zenon DEF CaptureOpened, FileOpened, CaptureChanged, StopProcess
<1>12. CASE CaptureFails
  BY <1>12, Zenon DEF CaptureFails, FileFails, CaptureChanged, StopProcess
<1>13. CASE StopElsewhere
  BY <1>13, Zenon DEF StopElsewhere, StopCapture, RequestStop, CaptureChanged, StopProcess
<1>14. CASE StopPressed
  BY <1>14, Zenon DEF StopPressed, StopCapture, RequestStop, CaptureChanged, StopProcess
<1>15. CASE StopPressedWithVoice
  BY <1>15, Zenon DEF StopPressedWithVoice, StopProcess
<1>16. CASE CaptureNotifies
  BY <1>16, Zenon DEF CaptureNotifies, CaptureChanged, StopProcess
<1>17. CASE CaptureClosed
  BY <1>17, Zenon DEF CaptureClosed, Closed, CaptureChanged, StopProcess
<1>18. CASE UNCHANGED allVars
  BY <1>18, Zenon
<1> QED
  BY <1>1, <1>2, <1>3, <1>4, <1>5, <1>6, <1>7, <1>8, <1>9, <1>10, <1>11, <1>12,
     <1>13, <1>14, <1>15, <1>16, <1>17, <1>18, Zenon DEF VoiceNext

LEMMA FlowsStep == FlowsOK /\ FilesInv /\ [VoiceNext]_allVars => FlowsOK'
<1> SUFFICES ASSUME FlowsOK, FilesInv, [VoiceNext]_allVars PROVE FlowsOK'
  OBVIOUS
<1> USE VoiceAssumption DEF FlowsOK, CaptureOrNull, Captures, Pages, Null, FilesInv
<1>1. CASE RecorderStops
  BY <1>1 DEF RecorderStops
<1>2. CASE MetadataWritten
  BY <1>2 DEF MetadataWritten, Resume
<1>3. CASE MetadataFails
  BY <1>3 DEF MetadataFails, Resume
<1>4. ASSUME NEW r \in Recorders, RecorderExits(r) PROVE FlowsOK'
  BY <1>4 DEF RecorderExits
<1>5. ASSUME NEW p \in Pages, StartAfterStop(p) PROVE FlowsOK'
  BY <1>5 DEF StartAfterStop
<1>6. ASSUME NEW p \in Pages, Available(p) PROVE FlowsOK'
  BY <1>6 DEF Available
<1>7. ASSUME NEW p \in Pages, ProcessStarted(p) PROVE FlowsOK'
  BY <1>7 DEF ProcessStarted
<1>8. ASSUME NEW p \in Pages, StopAfterVoice(p) PROVE FlowsOK'
  BY <1>8 DEF StopAfterVoice, StopCapture, RequestStop
<1>9. CASE OpenPage
  BY <1>9 DEF OpenPage
<1>10. CASE StartCapture
  BY <1>10 DEF StartCapture, Begin
<1>11. CASE CaptureOpened
  BY <1>11 DEF CaptureOpened, FileOpened, Resume, FirstWait
<1>12. CASE CaptureFails
  BY <1>12 DEF CaptureFails, FileFails, Resume
<1>13. CASE StopElsewhere
  BY <1>13 DEF StopElsewhere, StopCapture, RequestStop
<1>14. CASE StopPressed
  BY <1>14 DEF StopPressed, StopCapture, RequestStop
<1>15. CASE StopPressedWithVoice
  BY <1>15 DEF StopPressedWithVoice, StopProcess
<1>16. CASE CaptureNotifies
  BY <1>16 DEF CaptureNotifies
<1>17. CASE CaptureClosed
  BY <1>17 DEF CaptureClosed, Closed, Resume
<1>18. CASE UNCHANGED allVars
  BY <1>18
<1> QED
  BY <1>1, <1>2, <1>3, <1>4, <1>5, <1>6, <1>7, <1>8, <1>9, <1>10, <1>11, <1>12,
     <1>13, <1>14, <1>15, <1>16, <1>17, <1>18 DEF VoiceNext

LEMMA RecorderStep == RecorderOK /\ FlowsOK /\ FilesInv /\ [VoiceNext]_allVars => RecorderOK'
<1> SUFFICES ASSUME RecorderOK, FlowsOK, FilesInv, [VoiceNext]_allVars PROVE RecorderOK'
  OBVIOUS
<1> USE VoiceAssumption DEF RecorderOK, CaptureOrNull, RecorderOrNull, Sidecar, Recorders, Null, FilesInv
<1>1. CASE RecorderStops
  BY <1>1 DEF RecorderStops
<1>2. CASE MetadataWritten
  BY <1>2 DEF MetadataWritten, Resume
<1>3. CASE MetadataFails
  BY <1>3 DEF MetadataFails, Resume
<1>4. ASSUME NEW r \in Recorders, RecorderExits(r) PROVE RecorderOK'
  BY <1>4 DEF RecorderExits
<1>5. ASSUME NEW p \in Pages, StartAfterStop(p) PROVE RecorderOK'
  BY <1>5 DEF StartAfterStop
<1>6. ASSUME NEW p \in Pages, Available(p) PROVE RecorderOK'
  BY <1>6 DEF Available, FlowsOK
<1>7. ASSUME NEW p \in Pages, ProcessStarted(p) PROVE RecorderOK'
  <2>1. flowFile[p] \in 1 .. MaxCaptures
    BY <1>7 DEF ProcessStarted, FlowsOK, InStart, CaptureOrNull, Captures
  <2>2. CASE recorders < MaxRecorders /\ recorders' = recorders + 1
             /\ running' = running \cup {recorders'}
             /\ process' = recorders' /\ audio' = flowFile[p]
    <3>1. recorders' \in Recorders
      BY <2>2
    <3>2. running' \subseteq Recorders
      BY <2>2, <3>1
    <3>3. UNCHANGED <<stopping, anchor, stopState, sidecars, givenUp>>
      BY <1>7 DEF ProcessStarted
    <3>4. recorders' \in 0 .. MaxRecorders
      BY <2>2
    <3> QED
      BY <2>1, <2>2, <3>1, <3>2, <3>3, <3>4 DEF Captures
  <2>3. CASE UNCHANGED <<recorders, running, process, audio>>
    BY <1>7, <2>3 DEF ProcessStarted
  <2> QED
    BY <1>7, <2>2, <2>3 DEF ProcessStarted
<1>8. ASSUME NEW p \in Pages, StopAfterVoice(p) PROVE RecorderOK'
  BY <1>8 DEF StopAfterVoice, StopCapture, RequestStop, CaptureChanged, StopProcess
<1>9. CASE OpenPage
  BY <1>9 DEF OpenPage
<1>10. CASE StartCapture
  BY <1>10 DEF StartCapture, CaptureChanged, StopProcess
<1>11. CASE CaptureOpened
  BY <1>11 DEF CaptureOpened, CaptureChanged, StopProcess, Resume, FirstWait
<1>12. CASE CaptureFails
  BY <1>12 DEF CaptureFails, CaptureChanged, StopProcess, Resume
<1>13. CASE StopElsewhere
  BY <1>13 DEF StopElsewhere, StopCapture, RequestStop, CaptureChanged, StopProcess
<1>14. CASE StopPressed
  BY <1>14 DEF StopPressed, StopCapture, RequestStop, CaptureChanged, StopProcess
<1>15. CASE StopPressedWithVoice
  BY <1>15 DEF StopPressedWithVoice, StopProcess, VoiceActive
<1>16. CASE CaptureNotifies
  BY <1>16 DEF CaptureNotifies, CaptureChanged, StopProcess
<1>17. CASE CaptureClosed
  BY <1>17 DEF CaptureClosed, CaptureChanged, StopProcess, Resume
<1>18. CASE UNCHANGED allVars
  BY <1>18
<1> QED
  BY <1>1, <1>2, <1>3, <1>4, <1>5, <1>6, <1>7, <1>8, <1>9, <1>10, <1>11, <1>12,
     <1>13, <1>14, <1>15, <1>16, <1>17, <1>18 DEF VoiceNext

LEMMA FilesStep == RecorderOK /\ FlowsOK /\ FilesInv /\ [VoiceNext]_allVars => FilesInv'
<1> SUFFICES ASSUME RecorderOK, FlowsOK, FilesInv, [VoiceNext]_allVars PROVE FilesInv'
  OBVIOUS
<1> USE VoiceAssumption DEF RecorderOK, FlowsOK, Null, FilesInv, InStart
<1>1. CASE RecorderStops
  BY <1>1 DEF RecorderStops
<1>2. CASE MetadataWritten
  BY <1>2 DEF MetadataWritten, Resume
<1>3. CASE MetadataFails
  BY <1>3 DEF MetadataFails, Resume
<1>4. ASSUME NEW r \in Recorders, RecorderExits(r) PROVE FilesInv'
  BY <1>4 DEF RecorderExits
<1>5. ASSUME NEW p \in Pages, StartAfterStop(p) PROVE FilesInv'
  BY <1>5 DEF StartAfterStop
<1>6. ASSUME NEW p \in Pages, Available(p) PROVE FilesInv'
  BY <1>6 DEF Available
<1>7. ASSUME NEW p \in Pages, ProcessStarted(p) PROVE FilesInv'
  BY <1>7 DEF ProcessStarted
<1>8. ASSUME NEW p \in Pages, StopAfterVoice(p) PROVE FilesInv'
  BY <1>8 DEF StopAfterVoice, StopCapture, RequestStop, CaptureChanged, StopProcess
<1>9. CASE OpenPage
  BY <1>9 DEF OpenPage
<1>10. CASE StartCapture
  BY <1>10 DEF StartCapture, Begin, CaptureChanged, StopProcess
<1>11. CASE CaptureOpened
  BY <1>11 DEF CaptureOpened, FileOpened, CaptureChanged, StopProcess, Resume, FirstWait
<1>12. CASE CaptureFails
  BY <1>12 DEF CaptureFails, FileFails, CaptureChanged, StopProcess, Resume
<1>13. CASE StopElsewhere
  BY <1>13 DEF StopElsewhere, StopCapture, RequestStop, CaptureChanged, StopProcess
<1>14. CASE StopPressed
  BY <1>14 DEF StopPressed, StopCapture, RequestStop, CaptureChanged, StopProcess
<1>15. CASE StopPressedWithVoice
  BY <1>15 DEF StopPressedWithVoice, StopProcess
<1>16. CASE CaptureNotifies
  BY <1>16 DEF CaptureNotifies, CaptureChanged, StopProcess
<1>17. CASE CaptureClosed
  BY <1>17 DEF CaptureClosed, Closed, CaptureChanged, StopProcess, Resume
<1>18. CASE UNCHANGED allVars
  BY <1>18
<1> QED
  BY <1>1, <1>2, <1>3, <1>4, <1>5, <1>6, <1>7, <1>8, <1>9, <1>10, <1>11, <1>12,
     <1>13, <1>14, <1>15, <1>16, <1>17, <1>18 DEF VoiceNext
(* A stop in the middle of a voice start is never forgotten.               *)
LEMMA OverlapStays == [VoiceNext]_allVars => (overlap => overlap')
  BY DEF VoiceNext, RecorderStops, MetadataWritten, MetadataFails, RecorderExits,
         StartAfterStop, Available, ProcessStarted, StopAfterVoice, OpenPage,
         StartCapture, CaptureOpened, CaptureFails, StopElsewhere, StopPressed,
         StopPressedWithVoice, CaptureNotifies, CaptureClosed, StopCapture

LEMMA StartStep == RecorderOK /\ FlowsOK /\ FilesInv /\ StartInv /\ RecorderInv 
        /\ ~overlap' /\ [VoiceNext]_allVars => StartInv'
<1> SUFFICES ASSUME RecorderOK, FlowsOK, FilesInv, StartInv, RecorderInv, ~overlap', [VoiceNext]_allVars PROVE StartInv'
  OBVIOUS
<1> USE VoiceAssumption DEF RecorderOK, FlowsOK, Null, FilesInv, InStart, StartInv, RecorderInv, Open, VoiceStarting, VoiceActive
<1>1. CASE RecorderStops
  BY <1>1 DEF RecorderStops
<1>2. CASE MetadataWritten
  BY <1>2 DEF MetadataWritten, Resume
<1>3. CASE MetadataFails
  BY <1>3 DEF MetadataFails, Resume
<1>4. ASSUME NEW r \in Recorders, RecorderExits(r) PROVE StartInv'
  BY <1>4 DEF RecorderExits
<1>5. ASSUME NEW p \in Pages, StartAfterStop(p) PROVE StartInv'
  BY <1>5 DEF StartAfterStop
<1>6. ASSUME NEW p \in Pages, Available(p) PROVE StartInv'
  BY <1>6 DEF Available
<1>7. ASSUME NEW p \in Pages, ProcessStarted(p) PROVE StartInv'
  BY <1>7 DEF ProcessStarted
<1>8. ASSUME NEW p \in Pages, StopAfterVoice(p) PROVE StartInv'
  BY <1>8 DEF StopAfterVoice, StopCapture, RequestStop, CaptureChanged, StopProcess
<1>9. CASE OpenPage
  BY <1>9 DEF OpenPage
<1>10. CASE StartCapture
  BY <1>10 DEF StartCapture, Begin, CaptureChanged, StopProcess
<1>11. CASE CaptureOpened
  BY <1>11 DEF CaptureOpened, FileOpened, CaptureChanged, StopProcess, Resume, FirstWait
<1>12. CASE CaptureFails
  BY <1>12 DEF CaptureFails, FileFails, CaptureChanged, StopProcess, Resume
<1>13. CASE StopElsewhere
  BY <1>13 DEF StopElsewhere, StopCapture, RequestStop, CaptureChanged, StopProcess
<1>14. CASE StopPressed
  BY <1>14 DEF StopPressed, StopCapture, RequestStop, CaptureChanged, StopProcess
<1>15. CASE StopPressedWithVoice
  BY <1>15 DEF StopPressedWithVoice, StopProcess
<1>16. CASE CaptureNotifies
  BY <1>16 DEF CaptureNotifies, CaptureChanged, StopProcess
<1>17. CASE CaptureClosed
  BY <1>17 DEF CaptureClosed, Closed, CaptureChanged, StopProcess, Resume
<1>18. CASE UNCHANGED allVars
  BY <1>18
<1> QED
  BY <1>1, <1>2, <1>3, <1>4, <1>5, <1>6, <1>7, <1>8, <1>9, <1>10, <1>11, <1>12,
     <1>13, <1>14, <1>15, <1>16, <1>17, <1>18 DEF VoiceNext

LEMMA ProcessStep == RecorderOK /\ FlowsOK /\ FilesInv /\ StartInv /\ RecorderInv 
        /\ ~overlap' /\ [VoiceNext]_allVars => RecorderInv'
<1> SUFFICES ASSUME RecorderOK, FlowsOK, FilesInv, StartInv, RecorderInv, ~overlap', [VoiceNext]_allVars PROVE RecorderInv'
  OBVIOUS
<1> USE VoiceAssumption DEF RecorderOK, FlowsOK, Null, FilesInv, InStart, StartInv, RecorderInv, Open, VoiceStarting, VoiceActive
<1>1. CASE RecorderStops
  BY <1>1 DEF RecorderStops
<1>2. CASE MetadataWritten
  BY <1>2 DEF MetadataWritten, Resume
<1>3. CASE MetadataFails
  BY <1>3 DEF MetadataFails, Resume
<1>4. ASSUME NEW r \in Recorders, RecorderExits(r) PROVE RecorderInv'
  BY <1>4 DEF RecorderExits
<1>5. ASSUME NEW p \in Pages, StartAfterStop(p) PROVE RecorderInv'
  BY <1>5 DEF StartAfterStop
<1>6. ASSUME NEW p \in Pages, Available(p) PROVE RecorderInv'
  BY <1>6 DEF Available
<1>7. ASSUME NEW p \in Pages, ProcessStarted(p) PROVE RecorderInv'
  <2>1. /\ process = 0 /\ stopFuture = "none" /\ stopBody = "none"
        /\ phase = "recording"
        /\ UNCHANGED <<phase, stopFuture, stopping, stopBody, target, givenUp>>
    BY <1>7 DEF ProcessStarted
  <2>2. \A r \in running : r \in givenUp
    BY <2>1 DEF Recorders
  <2>3. \A r \in running' : r = process' \/ r \in givenUp
    BY <1>7, <2>1, <2>2 DEF ProcessStarted
  <2> QED
    BY <2>1, <2>3
<1>8. ASSUME NEW p \in Pages, StopAfterVoice(p) PROVE RecorderInv'
  BY <1>8 DEF StopAfterVoice, StopCapture, RequestStop, CaptureChanged, StopProcess
<1>9. CASE OpenPage
  BY <1>9 DEF OpenPage
<1>10. CASE StartCapture
  BY <1>10 DEF StartCapture, Begin, CaptureChanged, StopProcess
<1>11. CASE CaptureOpened
  BY <1>11 DEF CaptureOpened, FileOpened, CaptureChanged, StopProcess, Resume, FirstWait
<1>12. CASE CaptureFails
  BY <1>12 DEF CaptureFails, FileFails, CaptureChanged, StopProcess, Resume
<1>13. CASE StopElsewhere
  BY <1>13 DEF StopElsewhere, StopCapture, RequestStop, CaptureChanged, StopProcess
<1>14. CASE StopPressed
  BY <1>14 DEF StopPressed, StopCapture, RequestStop, CaptureChanged, StopProcess
<1>15. CASE StopPressedWithVoice
  BY <1>15 DEF StopPressedWithVoice, StopProcess
<1>16. CASE CaptureNotifies
  BY <1>16 DEF CaptureNotifies, CaptureChanged, StopProcess
<1>17. CASE CaptureClosed
  BY <1>17 DEF CaptureClosed, Closed, CaptureChanged, StopProcess, Resume
<1>18. CASE UNCHANGED allVars
  BY <1>18
<1> QED
  BY <1>1, <1>2, <1>3, <1>4, <1>5, <1>6, <1>7, <1>8, <1>9, <1>10, <1>11, <1>12,
     <1>13, <1>14, <1>15, <1>16, <1>17, <1>18 DEF VoiceNext

LEMMA AnchorStep == RecorderOK /\ FlowsOK /\ FilesInv /\ StartInv /\ RecorderInv /\ AnchorInv 
        /\ ~overlap' /\ [VoiceNext]_allVars => AnchorInv'
<1> SUFFICES ASSUME RecorderOK, FlowsOK, FilesInv, StartInv, RecorderInv, AnchorInv, ~overlap', [VoiceNext]_allVars PROVE AnchorInv'
  OBVIOUS
<1> USE VoiceAssumption DEF RecorderOK, FlowsOK, Null, FilesInv, InStart, StartInv, RecorderInv, Open, VoiceStarting, VoiceActive, AnchorInv
<1>1. CASE RecorderStops
  BY <1>1 DEF RecorderStops
<1>2. CASE MetadataWritten
  BY <1>2 DEF MetadataWritten, Resume
<1>3. CASE MetadataFails
  BY <1>3 DEF MetadataFails, Resume
<1>4. ASSUME NEW r \in Recorders, RecorderExits(r) PROVE AnchorInv'
  BY <1>4 DEF RecorderExits
<1>5. ASSUME NEW p \in Pages, StartAfterStop(p) PROVE AnchorInv'
  BY <1>5 DEF StartAfterStop
<1>6. ASSUME NEW p \in Pages, Available(p) PROVE AnchorInv'
  BY <1>6 DEF Available
<1>7. ASSUME NEW p \in Pages, ProcessStarted(p) PROVE AnchorInv'
  BY <1>7 DEF ProcessStarted
<1>8. ASSUME NEW p \in Pages, StopAfterVoice(p) PROVE AnchorInv'
  BY <1>8 DEF StopAfterVoice, StopCapture, RequestStop, CaptureChanged, StopProcess
<1>9. CASE OpenPage
  BY <1>9 DEF OpenPage
<1>10. CASE StartCapture
  BY <1>10 DEF StartCapture, Begin, CaptureChanged, StopProcess
<1>11. CASE CaptureOpened
  BY <1>11 DEF CaptureOpened, FileOpened, CaptureChanged, StopProcess, Resume, FirstWait
<1>12. CASE CaptureFails
  BY <1>12 DEF CaptureFails, FileFails, CaptureChanged, StopProcess, Resume
<1>13. CASE StopElsewhere
  BY <1>13 DEF StopElsewhere, StopCapture, RequestStop, CaptureChanged, StopProcess
<1>14. CASE StopPressed
  BY <1>14 DEF StopPressed, StopCapture, RequestStop, CaptureChanged, StopProcess
<1>15. CASE StopPressedWithVoice
  BY <1>15 DEF StopPressedWithVoice, StopProcess
<1>16. CASE CaptureNotifies
  BY <1>16 DEF CaptureNotifies, CaptureChanged, StopProcess
<1>17. CASE CaptureClosed
  BY <1>17 DEF CaptureClosed, Closed, CaptureChanged, StopProcess, Resume
<1>18. CASE UNCHANGED allVars
  BY <1>18
<1> QED
  BY <1>1, <1>2, <1>3, <1>4, <1>5, <1>6, <1>7, <1>8, <1>9, <1>10, <1>11, <1>12,
     <1>13, <1>14, <1>15, <1>16, <1>17, <1>18 DEF VoiceNext
-----------------------------------------------------------------------------
LEMMA Inductive == IInv /\ [VoiceNext]_allVars => IInv'
<1> SUFFICES ASSUME IInv, [VoiceNext]_allVars PROVE IInv'
  OBVIOUS
<1>1. FlagsOK /\ RecorderOK /\ FlowsOK /\ FilesInv
  BY TypeParts DEF IInv
<1>2. TypeOK'
  <2>1. FlagsOK' /\ RecorderOK' /\ FlowsOK'
    BY <1>1, FlagsStep, RecorderStep, FlowsStep
  <2> QED
    BY <2>1 DEF TypeOK, FlagsOK, RecorderOK, FlowsOK
<1>3. FilesInv'
  BY <1>1, FilesStep
<1>4. ASSUME ~overlap' PROVE (StartInv /\ RecorderInv /\ AnchorInv)'
  <2>1. StartInv /\ RecorderInv /\ AnchorInv
    BY <1>4, OverlapStays DEF IInv
  <2> QED
    BY <1>1, <1>4, <2>1, StartStep, ProcessStep, AnchorStep
<1> QED
  BY <1>2, <1>3, <1>4 DEF IInv

LEMMA Invariance == VoiceSpec => []IInv
  BY InitInvariant, Inductive, PTL DEF VoiceSpec

(* Every variable keeps its type: a stop always knows the files it         *)
(* describes, whatever order starts, stops and recorder exits come in.     *)
THEOREM TypeCorrect == VoiceSpec => []TypeOK
<1>1. IInv => TypeOK
  BY DEF IInv
<1> QED
  BY Invariance, <1>1, PTL

(* The recorder does not outlive the capture, except after a stop in the   *)
(* middle of a voice start.                                                *)
THEOREM Coupling == VoiceSpec => []MicrophoneCoupled
<1>1. IInv => MicrophoneCoupled
  <2> SUFFICES ASSUME IInv, phase \notin Open, ~overlap, stopFuture # "failed",
                      NEW r \in running
               PROVE  r \in givenUp \/ (r = target /\ stopBody = "exit")
    BY DEF MicrophoneCoupled
  <2>1. RecorderOK /\ RecorderInv
    BY TypeParts DEF IInv
  <2>2. CASE r = process
    <3>1. process # Null
      BY <2>1, <2>2, VoiceAssumption DEF RecorderOK, Recorders, Null
    <3>2. stopBody \in {"exit", "metadata"} /\ target = process
      BY <2>1, <3>1 DEF RecorderOK, RecorderInv
    <3> QED
      BY <2>1, <2>2, <3>2 DEF RecorderInv
  <2> QED
    BY <2>1, <2>2 DEF RecorderInv
<1> QED
  BY Invariance, <1>1, PTL

(* A metadata file gives the start of the recording it describes, except   *)
(* after a stop in the middle of a voice start.                            *)
THEOREM SidecarOwnership == VoiceSpec => []SidecarOwn
<1>1. IInv => SidecarOwn
  BY DEF IInv, AnchorInv, SidecarOwn
<1> QED
  BY Invariance, <1>1, PTL
=============================================================================
