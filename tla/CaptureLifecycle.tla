-------------------------- MODULE CaptureLifecycle --------------------------
(***************************************************************************)
(* The phases of a capture as its listeners and callers see them: what the *)
(* rest of the application may rely on, without outputs, flushes or disk.  *)
(* CaptureSession implements this module, VoiceAnnotation is built on it.  *)
(***************************************************************************)
EXTENDS Naturals

CONSTANT MaxCaptures    \* bound: files opened in a behaviour

VARIABLES
    phase,      \* idle, starting, recording or stopping
    pending,    \* the file of the capture is being created
    opened      \* how many files have been opened

vars == <<phase, pending, opened>>

Open == {"starting", "recording"}

Init == phase = "idle" /\ pending = FALSE /\ opened = 0

Begin ==
    /\ phase = "idle" /\ opened < MaxCaptures
    /\ phase' = "starting" /\ pending' = TRUE
    /\ UNCHANGED opened

(* The file exists. A stop that arrived meanwhile stands.                  *)
FileOpened ==
    /\ pending
    /\ pending' = FALSE /\ opened' = opened + 1
    /\ phase' = IF phase = "starting" THEN "recording" ELSE phase

FileFails ==
    /\ pending
    /\ pending' = FALSE
    /\ phase' = IF phase = "starting" THEN "idle" ELSE phase
    /\ UNCHANGED opened

(* The user, a disconnect or a write error stops the capture.              *)
RequestStop ==
    /\ phase \in Open
    /\ phase' = "stopping"
    /\ UNCHANGED <<pending, opened>>

Closed ==
    /\ phase = "stopping" /\ ~pending
    /\ phase' = "idle"
    /\ UNCHANGED <<pending, opened>>

Next == Begin \/ FileOpened \/ FileFails \/ RequestStop \/ Closed

(* A file request is answered, and a stop completes.                       *)
Spec == /\ Init /\ [][Next]_vars
        /\ WF_vars(FileOpened \/ FileFails) /\ WF_vars(Closed)
=============================================================================
