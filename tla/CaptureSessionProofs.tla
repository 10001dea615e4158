------------------------ MODULE CaptureSessionProofs ------------------------
(***************************************************************************)
(* Proofs about CaptureSession for any number of captures, lines, queued   *)
(* timer ticks and seconds.                                                *)
(***************************************************************************)
EXTENDS CaptureSession, FiniteSetTheorems, SequenceTheorems, TLAPS

(* The inductive invariant. What the fields look like in each phase:       *)
IdleFields ==
    /\ ~starting /\ ~stopRequested /\ stopping = "none"
    /\ output = Null /\ activeFile = Null /\ closing = Null
    /\ ~timer /\ flushTask = <<>> /\ flushing = Null

StartingFields ==
    /\ starting /\ ~stopRequested /\ stopping = "none"
    /\ output = Null /\ activeFile = Null /\ closing = Null
    /\ ~timer /\ flushTask = <<>> /\ flushing = Null

RecordingFields ==
    /\ ~starting /\ ~stopRequested /\ stopping = "none"
    /\ output = activeFile /\ activeFile = opened /\ opened # Null
    /\ closing = Null

AwaitStartFields ==
    /\ stopping = "awaitStart"
    /\ output = activeFile /\ closing = Null
    /\ starting => output = Null
    /\ flushTask = <<>> /\ flushing = Null

AwaitFlushFields ==
    /\ stopping = "awaitFlushTask"
    /\ ~starting /\ output = Null /\ closing = activeFile

AwaitFinishFields ==
    /\ stopping = "awaitFinish"
    /\ ~starting /\ output = Null /\ closing = activeFile
    /\ flushTask = <<>> /\ flushing = Null
    /\ closing # Null => buffer[closing] = <<>>

StoppingFields ==
    /\ stopRequested /\ ~timer
    /\ AwaitStartFields \/ AwaitFlushFields \/ AwaitFinishFields

ControlInv ==
    /\ \/ phase = "idle" /\ IdleFields
       \/ phase = "starting" /\ StartingFields
       \/ phase = "recording" /\ RecordingFields
       \/ phase = "stopping" /\ StoppingFields
    /\ activeFile \in {Null, opened}
    /\ flushing \in {Null, activeFile}
    /\ flushTask # <<>> => activeFile # Null
    /\ \A i \in 1 .. Len(flushTask) : flushTask[i] = activeFile

(* An unopened output is untouched; a capture that is over left nothing    *)
(* behind and has an outcome; the one in progress has none.                *)
OutputState(c) ==
    /\ c > opened => accepted[c] = <<>> /\ disk[c] = <<>> /\ ~broken[c]
    /\ c # activeFile => buffer[c] = <<>> /\ writes[c] = <<>>
    /\ outcome[c] = "none" <=> (c > opened \/ c = activeFile)
    /\ outcome[c] = "sealed" => ~broken[c]

OutputsInv == \A c \in Captures : OutputState(c)

(* Where the accepted lines are.                                           *)
LinesPlaced(c) ==
    /\ ~broken[c] => (disk[c] \o writes[c]) \o buffer[c] = accepted[c]
    /\ broken[c] => IsPrefix(disk[c], accepted[c]) /\ writes[c] = <<>>

LinesInv == \A c \in Captures : LinesPlaced(c)

(* What the counters count.                                                *)
CountsInv ==
    /\ \A c \in Captures : Len(accepted[c]) <= MaxLines
    /\ activeFile # Null => recordedFrames = FrameCount(accepted[activeFile])
    /\ starting => recordedFrames = 0 /\ opened < MaxCaptures
    /\ lastCompleted.file # Null =>
          /\ outcome[lastCompleted.file] = "sealed"
          /\ lastCompleted.frames = FrameCount(accepted[lastCompleted.file])

ErrorInv ==
    /\ starting => lastError = "none"
    /\ ErrorIsOwn

(* TypeOK in three parts, for the provers.                                 *)
FlagsOK ==
    /\ starting \in BOOLEAN /\ stopRequested \in BOOLEAN
    /\ timer \in BOOLEAN
    /\ broken \in [Captures -> BOOLEAN]

FieldsOK ==
    /\ phase \in {"idle", "starting", "recording", "stopping"}
    /\ stopping \in {"none", "awaitStart", "awaitFlushTask", "awaitFinish"}
    /\ output \in CaptureOrNull /\ activeFile \in CaptureOrNull
    /\ closing \in CaptureOrNull
    /\ flushTask \in Seq(Captures) /\ flushing \in CaptureOrNull
    /\ lastError \in {"none", "create", "write"}
    /\ recordedFrames \in 0 .. MaxLines
    /\ lastCompleted \in [file : CaptureOrNull, frames : 0 .. MaxLines]

OutputsOK ==
    /\ opened \in 0 .. MaxCaptures
    /\ clock \in 0 .. MaxClock /\ fileName \in [Captures -> 0 .. MaxClock]
    /\ buffer \in [Captures -> Seq(Lines)]
    /\ writes \in [Captures -> Seq(Lines)]
    /\ disk \in [Captures -> Seq(Lines)]
    /\ accepted \in [Captures -> Seq(Lines)]
    /\ outcome \in [Captures -> {"none", "sealed", "failed"}]

IInv ==
    /\ TypeOK /\ ControlInv /\ OutputsInv /\ LinesInv /\ CountsInv /\ ErrorInv

-----------------------------------------------------------------------------
(* Facts about sequences of lines.                                         *)

LEMMA Associativity ==
    \A x, y, z \in Seq(Lines) : (x \o y) \o z = x \o (y \o z)
  BY ConcatAssociative

LEMMA AppendToTail ==
    ASSUME NEW S, NEW s \in Seq(S), NEW t \in Seq(S), NEW e \in S
    PROVE  s \o Append(t, e) = Append(s \o t, e)
<1>1. Append(t, e) \in Seq(S) /\ Append(t, e) = t \o <<e>>
  BY AppendIsConcat, AppendProperties
<1>2. s \o t \in Seq(S) /\ Append(s \o t, e) = (s \o t) \o <<e>>
  BY AppendIsConcat, ConcatProperties
<1>3. <<e>> \in Seq(S)
  OBVIOUS
<1> QED
  BY <1>1, <1>2, <1>3, ConcatAssociative

LEMMA ConcatHasPrefix ==
    ASSUME NEW S, NEW s \in Seq(S), NEW t \in Seq(S)
    PROVE  IsPrefix(s, s \o t)
<1>1. /\ s \o t \in Seq(S) /\ Len(s \o t) = Len(s) + Len(t)
      /\ \A i \in 1 .. Len(s) : (s \o t)[i] = s[i]
  BY ConcatProperties, LenProperties
<1>2. SubSeq(s \o t, 1, Len(s)) = s
  <2>1. \A i \in 1 .. Len(s) : (s \o t)[i] \in S
    BY <1>1, ElementOfSeq
  <2>2. /\ SubSeq(s \o t, 1, Len(s)) \in Seq(S)
        /\ Len(SubSeq(s \o t, 1, Len(s))) = Len(s)
        /\ \A i \in 1 .. Len(s) : SubSeq(s \o t, 1, Len(s))[i] = (s \o t)[i]
    BY <2>1, SubSeqProperties, LenProperties
  <2> QED
    BY <2>2, <1>1, SeqEqual
<1>3. SubSeq(s, 1, Len(s)) = s
  BY SubSeqFull
<1>4. Len(s) <= Len(s \o t)
  BY <1>1, LenProperties
<1> QED
  BY <1>2, <1>3, <1>4 DEF IsPrefix

LEMMA PrefixIsSubSeq ==
    ASSUME NEW S, NEW s \in Seq(S), NEW t \in Seq(S), IsPrefix(s, t)
    PROVE  Len(s) <= Len(t) /\ s = SubSeq(t, 1, Len(s))
  BY SubSeqFull DEF IsPrefix

LEMMA PrefixOfAppend ==
    ASSUME NEW S, NEW s \in Seq(S), NEW t \in Seq(S), NEW e \in S,
           IsPrefix(s, t)
    PROVE  IsPrefix(s, Append(t, e))
<1>1. Len(s) \in Nat /\ Len(t) \in Nat /\ Len(s) <= Len(t)
      /\ s = SubSeq(t, 1, Len(s))
  BY PrefixIsSubSeq, LenProperties
<1>2. Len(Append(t, e)) = Len(t) + 1
      /\ \A i \in 1 .. Len(t) : Append(t, e)[i] = t[i]
  BY AppendProperties, LenProperties
<1>3. SubSeq(Append(t, e), 1, Len(s)) = s
  <2>1. \A i \in 1 .. Len(s) : Append(t, e)[i] = t[i] /\ t[i] \in S
    BY <1>1, <1>2, ElementOfSeq
  <2>2. /\ SubSeq(Append(t, e), 1, Len(s)) \in Seq(S)
        /\ Len(SubSeq(Append(t, e), 1, Len(s))) = Len(s)
        /\ \A i \in 1 .. Len(s) :
              SubSeq(Append(t, e), 1, Len(s))[i] = Append(t, e)[i]
    BY <1>1, <2>1, SubSeqProperties
  <2>3. \A i \in 1 .. Len(s) : SubSeq(t, 1, Len(s))[i] = t[i]
    BY <1>1, <2>1, SubSeqProperties
  <2> QED
    BY <1>1, <2>1, <2>2, <2>3, SeqEqual
<1> QED
  BY <1>1, <1>2, <1>3, SubSeqFull DEF IsPrefix

(* An append that fails half way leaves a prefix of what was to be there.  *)
LEMMA PartialAppendIsPrefix ==
    ASSUME NEW d \in Seq(Lines), NEW w \in Seq(Lines), NEW b \in Seq(Lines),
           NEW n \in 0 .. Len(w)
    PROVE  /\ d \o SubSeq(w, 1, n) \in Seq(Lines)
           /\ IsPrefix(d \o SubSeq(w, 1, n), (d \o w) \o b)
<1> DEFINE u == SubSeq(w, 1, n)
           v == SubSeq(w, n + 1, Len(w))
<1>1. u \in Seq(Lines) /\ v \in Seq(Lines)
  BY SubSeqProperties, ElementOfSeq, LenProperties
<1>2. u \o v = w
  <2>1. CASE n = 0
    BY <2>1, SubSeqEmpty, SubSeqFull, ConcatEmptySeq
  <2>2. CASE n = Len(w)
    BY <2>2, SubSeqEmpty, SubSeqFull, ConcatEmptySeq, LenProperties
  <2>3. CASE n # 0 /\ n # Len(w)
    <3>1. Len(u) = n /\ Len(v) = Len(w) - n
          /\ (\A i \in 1 .. n : u[i] = w[i])
          /\ (\A i \in 1 .. Len(w) - n : v[i] = w[n + i])
      <4>1. \A i \in 1 .. n : w[i] \in Lines
        BY ElementOfSeq, LenProperties
      <4>2. \A i \in n + 1 .. Len(w) : w[i] \in Lines
        BY ElementOfSeq, LenProperties
      <4> QED
        BY <4>1, <4>2, <2>3, SubSeqProperties, LenProperties
    <3> HIDE DEF u, v
    <3>2. /\ u \o v \in Seq(Lines)
          /\ Len(u \o v) = Len(u) + Len(v)
          /\ \A i \in 1 .. Len(u) + Len(v) :
                (u \o v)[i] = IF i <= Len(u) THEN u[i] ELSE v[i - Len(u)]
      BY <1>1, ConcatProperties
    <3>3. Len(w) \in Nat /\ n \in Nat /\ n <= Len(w)
      BY LenProperties
    <3>4. Len(u \o v) = Len(w)
      BY <3>1, <3>2, <3>3
    <3>5. ASSUME NEW i \in 1 .. Len(w)
          PROVE  (u \o v)[i] = w[i]
      <4>1. CASE i <= n
        BY <4>1, <3>1, <3>2, <3>3
      <4>2. CASE ~(i <= n)
        <5>1. i - n \in 1 .. Len(w) - n /\ n + (i - n) = i
          BY <4>2, <3>3
        <5>2. (u \o v)[i] = v[i - n]
          BY <4>2, <3>1, <3>2, <3>3
        <5> QED
          BY <5>1, <5>2, <3>1
      <4> QED
        BY <4>1, <4>2
    <3> QED
      BY <3>2, <3>4, <3>5, SeqEqual
  <2> QED
    BY <2>1, <2>2, <2>3
<1> HIDE DEF u, v
<1>3. d \o u \in Seq(Lines) /\ v \o b \in Seq(Lines)
  BY <1>1, ConcatProperties
<1>4. (d \o w) \o b = (d \o u) \o (v \o b)
  <2> DEFINE du == d \o u
  <2>1. du \in Seq(Lines) /\ v \in Seq(Lines) /\ b \in Seq(Lines)
    BY <1>1, <1>3
  <2>2. (d \o u) \o v = d \o (u \o v)
    BY Associativity, <1>1, ZenonT(30)
  <2>3. du \o v = d \o w
    BY <2>2, <1>2
  <2> HIDE DEF du
  <2>4. (du \o v) \o b = du \o (v \o b)
    BY <2>1, Associativity, ZenonT(30)
  <2> QED
    BY <2>3, <2>4 DEF du
<1> QED
  BY <1>3, <1>4, ConcatHasPrefix DEF u

LEMMA FrameCountProperties ==
    ASSUME NEW s \in Seq(Lines), NEW line \in Lines
    PROVE  /\ FrameCount(s) \in 0 .. Len(s)
           /\ FrameCount(<<>>) = 0
           /\ FrameCount(Append(s, line)) =
                 IF line = "frame" THEN FrameCount(s) + 1 ELSE FrameCount(s)
<1> DEFINE F(t) == {i \in DOMAIN t : t[i] = "frame"}
<1>0. /\ FrameCount(s) = Cardinality(F(s))
      /\ FrameCount(<<>>) = Cardinality(F(<<>>))
      /\ FrameCount(Append(s, line)) = Cardinality(F(Append(s, line)))
  BY Zenon DEF FrameCount
<1>1. IsFiniteSet(F(s)) /\ Cardinality(F(s)) \in Nat /\ Cardinality(F(s)) <= Len(s)
  <2>1. IsFiniteSet(1 .. Len(s)) /\ Cardinality(1 .. Len(s)) = Len(s)
    <3>1. Len(s) \in Nat
      BY LenProperties
    <3>2. /\ IsFiniteSet(1 .. Len(s))
          /\ Cardinality(1 .. Len(s)) =
                IF 1 > Len(s) THEN 0 ELSE Len(s) - 1 + 1
      BY <3>1, FS_Interval, SMT
    <3> QED
      BY <3>1, <3>2
  <2>2. F(s) \in SUBSET (1 .. Len(s))
    BY LenProperties
  <2> HIDE DEF F
  <2> QED
    BY <2>1, <2>2, FS_Subset, FS_CardinalityType
<1>2. F(<<>>) = {}
  OBVIOUS
<1>3. CASE line = "frame"
  <2>1. F(Append(s, line)) = F(s) \cup {Len(s) + 1} /\ Len(s) + 1 \notin F(s)
    BY <1>3, AppendProperties, LenProperties
  <2> HIDE DEF F
  <2>2. Cardinality(F(Append(s, line))) = Cardinality(F(s)) + 1
    BY <2>1, <1>1, FS_AddElement
  <2>3. Len(s) \in Nat /\ Cardinality(F(<<>>)) = 0
    BY <1>2, FS_EmptySet, LenProperties
  <2> QED
    BY <1>0, <1>1, <1>3, <2>2, <2>3
<1>4. CASE line # "frame"
  <2>1. F(Append(s, line)) = F(s)
    BY <1>4, AppendProperties, LenProperties
  <2>2. Len(s) \in Nat /\ Cardinality(F(<<>>)) = 0
    BY <1>2, FS_EmptySet, LenProperties
  <2> HIDE DEF F
  <2> QED
    BY <1>0, <1>1, <1>4, <2>1, <2>2
<1> QED
  BY <1>3, <1>4

-----------------------------------------------------------------------------
(* The inductive step, one lemma per part of the invariant.                *)

USE DEF control, current, flushes, results, files, storage, history, vars

LEMMA InitInvariant == Init => IInv
<1> SUFFICES ASSUME Init PROVE IInv
  OBVIOUS
<1> USE DEF Init, Null, CaptureOrNull, Captures
<1>1. TypeOK
  <2>1. <<>> \in Seq(Lines) /\ <<>> \in Seq(1 .. MaxCaptures)
    BY EmptySeq
  <2>2. FlagsOK
    BY Zenon DEF FlagsOK
  <2>3. FieldsOK
    BY <2>1, BoundsAssumption DEF FieldsOK
  <2>4. OutputsOK
    BY <2>1, BoundsAssumption DEF OutputsOK
  <2> QED
    BY <2>2, <2>3, <2>4 DEF TypeOK, FlagsOK, FieldsOK, OutputsOK
<1>2. ControlInv
  BY DEF ControlInv, IdleFields
<1>3. OutputsInv
  BY BoundsAssumption DEF OutputsInv, OutputState
<1>4. LinesInv
  BY ConcatEmptySeq, EmptySeq DEF LinesInv, LinesPlaced, Lines
<1>5. CountsInv
  BY BoundsAssumption DEF CountsInv
<1>6. ErrorInv
  BY DEF ErrorInv, ErrorIsOwn
<1> QED
  BY <1>1, <1>2, <1>3, <1>4, <1>5, <1>6 DEF IInv

LEMMA TypeParts == TypeOK <=> FlagsOK /\ FieldsOK /\ OutputsOK
  BY DEF TypeOK, FlagsOK, FieldsOK, OutputsOK

LEMMA FlagsStep == ASSUME FlagsOK, Next PROVE FlagsOK'
<1> USE DEF FlagsOK
<1>1. CASE Start
  BY <1>1, Zenon DEF Start
<1>2. CASE CreateSucceeds
  BY <1>2, Zenon DEF CreateSucceeds, CreateCaptureFile
<1>3. CASE CreateFails
  BY <1>3, Zenon DEF CreateFails
<1>4. ASSUME NEW line \in Lines, Write(line) PROVE FlagsOK'
  BY <1>4, Zenon DEF Write
<1>5. CASE Stop
  BY <1>5, Zenon DEF Stop, RequestStop
<1>6. CASE TimerTick
  BY <1>6, Zenon DEF TimerTick
<1>7. CASE FlushLinkRuns
  BY <1>7, Zenon DEF FlushLinkRuns, Flush
<1>8. CASE FlushLinkDone
  BY <1>8, Zenon DEF FlushLinkDone
<1>9. CASE FlushLinkThrows
  BY <1>9, Zenon DEF FlushLinkThrows, OnOutputError, RequestStop
<1>10. ASSUME NEW c \in Captures, WriteSucceeds(c) PROVE FlagsOK'
  BY <1>10, Zenon DEF WriteSucceeds
<1>11. ASSUME NEW c \in Captures, WriteFails(c) PROVE FlagsOK'
  BY <1>11 DEF WriteFails
<1>12. CASE StopAfterStart
  BY <1>12, Zenon DEF StopAfterStart
<1>13. CASE StopAfterFlushTask
  BY <1>13, Zenon DEF StopAfterFlushTask, Flush
<1>14. CASE StopSucceeds
  BY <1>14, Zenon DEF StopSucceeds, Reset
<1>15. CASE StopThrows
  BY <1>15, Zenon DEF StopThrows, Reset
<1>16. CASE ClockTick
  BY <1>16, Zenon DEF ClockTick
<1> QED
  BY <1>1, <1>2, <1>3, <1>4, <1>5, <1>6, <1>7, <1>8, <1>9, <1>10, <1>11,
     <1>12, <1>13, <1>14, <1>15, <1>16 DEF Next, FlushChain, Disk, StopBody

(* While the timer runs or lines are taken, output is the latest capture.  *)
LEMMA RecordingOutput ==
    ASSUME IInv, timer \/ phase = "recording"
    PROVE  /\ phase = "recording" /\ RecordingFields
           /\ output = opened /\ activeFile = opened
           /\ opened # Null /\ opened \in Captures
<1>1. phase = "recording" /\ RecordingFields
  BY DEF IInv, ControlInv, IdleFields, StartingFields, StoppingFields
<1> QED
  BY <1>1, TypeParts, BoundsAssumption
  DEF IInv, OutputsOK, RecordingFields, Captures, Null

(* Where the session is when a continuation is ready.                      *)
LEMMA StartStage ==
    ASSUME IInv, starting
    PROVE  /\ \/ phase = "starting" /\ StartingFields
              \/ phase = "stopping" /\ stopRequested /\ AwaitStartFields
           /\ output = Null /\ activeFile = Null /\ closing = Null
           /\ flushTask = <<>> /\ flushing = Null /\ ~timer
           /\ opened < MaxCaptures /\ opened + 1 \in Captures
<1>1. \/ phase = "starting" /\ StartingFields
      \/ phase = "stopping" /\ StoppingFields /\ AwaitStartFields
  BY Zenon DEF IInv, ControlInv, IdleFields, RecordingFields, StoppingFields,
               AwaitFlushFields, AwaitFinishFields
<1>2. opened < MaxCaptures /\ opened + 1 \in Captures
  <2>1. opened < MaxCaptures
    BY Zenon DEF IInv, CountsInv
  <2>2. opened \in 0 .. MaxCaptures /\ MaxCaptures \in Nat
    BY TypeParts, BoundsAssumption DEF IInv, OutputsOK
  <2> QED
    BY <2>1, <2>2 DEF Captures
<1> QED
  BY <1>1, <1>2, Zenon DEF StartingFields, StoppingFields, AwaitStartFields

LEMMA FlushStage ==
    ASSUME IInv, flushing # Null \/ flushTask # <<>>
    PROVE  /\ \/ phase = "recording" /\ RecordingFields
              \/ phase = "stopping" /\ StoppingFields /\ AwaitFlushFields
           /\ activeFile = opened /\ activeFile # Null /\ ~starting
           /\ activeFile \in Captures
<1>1. \/ phase = "recording" /\ RecordingFields
      \/ phase = "stopping" /\ StoppingFields /\ AwaitFlushFields
  BY Zenon DEF IInv, ControlInv, IdleFields, StartingFields, StoppingFields,
               AwaitStartFields, AwaitFinishFields
<1>2. activeFile = opened /\ activeFile # Null
  BY Zenon DEF IInv, ControlInv
<1>3. activeFile \in Captures
  BY <1>2, TypeParts DEF IInv, FieldsOK, CaptureOrNull
<1>4. ~starting
  BY <1>1, Zenon DEF RecordingFields, AwaitFlushFields
<1> QED
  BY <1>1, <1>2, <1>3, <1>4

LEMMA StopStage ==
    ASSUME IInv, stopping # "none"
    PROVE  phase = "stopping" /\ StoppingFields
  BY Zenon DEF IInv, ControlInv, IdleFields, StartingFields, RecordingFields

LEMMA FinishStage ==
    ASSUME IInv, stopping = "awaitFinish"
    PROVE  /\ phase = "stopping" /\ AwaitFinishFields
           /\ closing = activeFile
           /\ closing # Null => closing = opened /\ closing \in Captures
<1>1. phase = "stopping" /\ AwaitFinishFields
  BY StopStage DEF StoppingFields, AwaitStartFields, AwaitFlushFields
<1>2. closing = activeFile
  BY <1>1 DEF AwaitFinishFields
<1> QED
  BY <1>1, <1>2, TypeParts DEF IInv, ControlInv, FieldsOK, CaptureOrNull

LEMMA FlushTypes ==
    ASSUME OutputsOK, NEW c \in Captures, Flush(c),
           UNCHANGED <<accepted, outcome, files>>
    PROVE  OutputsOK'
<1>1. <<>> \in Seq(Lines) /\ writes[c] \o buffer[c] \in Seq(Lines)
  BY EmptySeq, ConcatProperties DEF OutputsOK
<1> QED
  BY <1>1 DEF OutputsOK, Flush

LEMMA OutputsStep == ASSUME IInv, Next PROVE OutputsOK'
<1> USE DEF OutputsOK, Null, CaptureOrNull, Captures
<1>0. /\ FieldsOK /\ OutputsOK /\ ControlInv /\ CountsInv
      /\ MaxCaptures \in Nat /\ MaxClock \in Nat
  BY TypeParts, BoundsAssumption DEF IInv
<1>1. CASE Start
  BY <1>0, <1>1 DEF Start
<1>2. CASE CreateSucceeds
  <2>1. /\ opened' = opened + 1 /\ UNCHANGED <<clock, storage, history>>
        /\ fileName' = [fileName EXCEPT ![opened + 1] = clock]
        /\ opened < MaxCaptures
    BY <1>0, <1>2 DEF CreateSucceeds, CreateCaptureFile, CountsInv
  <2>2. opened' \in 0 .. MaxCaptures
    BY <1>0, <2>1
  <2>3. fileName' \in [Captures -> 0 .. MaxClock]
    BY <1>0, <2>1
  <2> QED
    BY <1>0, <2>1, <2>2, <2>3, Zenon DEF storage, history
<1>3. CASE CreateFails
  BY <1>0, <1>3 DEF CreateFails
<1>4. ASSUME NEW line \in Lines, Write(line) PROVE OutputsOK'
  <2>1. output \in 1 .. MaxCaptures
    BY <1>0, <1>4 DEF Write, FieldsOK
  <2>2. /\ Append(buffer[output], line) \in Seq(Lines)
        /\ Append(accepted[output], line) \in Seq(Lines)
    BY <1>0, <1>4, <2>1, AppendProperties
  <2> QED
    BY <1>0, <1>4, <2>1, <2>2 DEF Write
<1>5. CASE Stop
  BY <1>0, <1>5 DEF Stop, RequestStop
<1>6. CASE TimerTick
  BY <1>0, <1>6 DEF TimerTick
<1>7. CASE FlushLinkRuns
  <2>1. CASE output = Head(flushTask) /\ phase = "recording"
    <3>1. Flush(output) /\ UNCHANGED <<accepted, outcome, files>>
      BY <1>7, <2>1 DEF FlushLinkRuns
    <3>2. output \in 1 .. MaxCaptures
      BY <2>1, RecordingOutput
    <3> QED
      BY <1>0, <3>1, <3>2, FlushTypes
  <2>2. CASE ~(output = Head(flushTask) /\ phase = "recording")
    BY <1>0, <1>7, <2>2 DEF FlushLinkRuns
  <2> QED
    BY <2>1, <2>2
<1>8. CASE FlushLinkDone
  BY <1>0, <1>8 DEF FlushLinkDone
<1>9. CASE FlushLinkThrows
  BY <1>0, <1>9 DEF FlushLinkThrows, OnOutputError, RequestStop
<1>10. ASSUME NEW c \in Captures, WriteSucceeds(c) PROVE OutputsOK'
  <2>1. /\ disk' = [disk EXCEPT ![c] = disk[c] \o writes[c]]
        /\ writes' = [writes EXCEPT ![c] = <<>>]
        /\ UNCHANGED <<opened, clock, fileName, buffer, accepted, outcome>>
    BY <1>0, <1>10 DEF WriteSucceeds, files, history
  <2>2. disk[c] \o writes[c] \in Seq(Lines) /\ <<>> \in Seq(Lines)
    BY <1>0, EmptySeq, ConcatProperties
  <2>3. disk' \in [Captures -> Seq(Lines)] /\ writes' \in [Captures -> Seq(Lines)]
    BY <1>0, <2>1, <2>2, Zenon
  <2> QED
    BY <1>0, <2>1, <2>3, Zenon
<1>11. ASSUME NEW c \in Captures, WriteFails(c) PROVE OutputsOK'
  <2>1. PICK n \in 0 .. Len(writes[c]) :
              disk' = [disk EXCEPT ![c] = @ \o SubSeq(writes[c], 1, n)]
    BY <1>11 DEF WriteFails
  <2>2. disk[c] \o SubSeq(writes[c], 1, n) \in Seq(Lines)
    BY <1>0, EmptySeq, PartialAppendIsPrefix
  <2>3. <<>> \in Seq(Lines)
    BY EmptySeq
  <2> QED
    BY <1>0, <1>11, <2>1, <2>2, <2>3 DEF WriteFails
<1>12. CASE StopAfterStart
  BY <1>0, <1>12 DEF StopAfterStart
<1>13. CASE StopAfterFlushTask
  <2>1. CASE closing # Null
    <3>1. Flush(closing) /\ UNCHANGED <<accepted, outcome, files>>
      BY <1>13, <2>1 DEF StopAfterFlushTask
    <3>2. closing \in 1 .. MaxCaptures
      BY <1>0, <2>1 DEF FieldsOK
    <3> QED
      BY <1>0, <3>1, <3>2, FlushTypes
  <2>2. CASE closing = Null
    BY <1>0, <1>13, <2>2 DEF StopAfterFlushTask
  <2> QED
    BY <2>1, <2>2
<1>14. CASE StopSucceeds
  BY <1>0, <1>14 DEF StopSucceeds, Reset
<1>15. CASE StopThrows
  BY <1>0, <1>15 DEF StopThrows, Reset
<1>16. CASE ClockTick
  BY <1>0, <1>16 DEF ClockTick
<1> QED
  BY <1>1, <1>2, <1>3, <1>4, <1>5, <1>6, <1>7, <1>8, <1>9, <1>10, <1>11,
     <1>12, <1>13, <1>14, <1>15, <1>16 DEF Next, FlushChain, Disk, StopBody
LEMMA FieldsStep ==
    ASSUME IInv, Next, OutputsOK', CountsInv' PROVE FieldsOK'
<1> USE DEF FieldsOK, Null, CaptureOrNull, Captures
<1>0. /\ FieldsOK /\ OutputsOK /\ ControlInv /\ CountsInv
      /\ MaxCaptures \in Nat /\ MaxLines \in Nat
  BY TypeParts, BoundsAssumption DEF IInv
<1>1. CASE Start
  BY <1>0, <1>1 DEF Start
<1>2. CASE CreateSucceeds
  BY <1>0, <1>2 DEF CreateSucceeds, CreateCaptureFile, OutputsOK, CountsInv
<1>3. CASE CreateFails
  BY <1>0, <1>3 DEF CreateFails
<1>4. ASSUME NEW line \in Lines, Write(line) PROVE FieldsOK'
  <2>1. activeFile' # Null /\ activeFile' \in Captures
    BY <1>0, <1>4, RecordingOutput DEF Write
  <2>2. /\ accepted'[activeFile'] \in Seq(Lines)
        /\ Len(accepted'[activeFile']) <= MaxLines
        /\ recordedFrames' = FrameCount(accepted'[activeFile'])
    BY <2>1 DEF OutputsOK, CountsInv
  <2>3. recordedFrames' \in 0 .. MaxLines
    <3>1. FrameCount(accepted'[activeFile']) \in 0 .. Len(accepted'[activeFile'])
      BY <2>2, <1>4, FrameCountProperties
    <3> QED
      BY <1>0, <2>2, <3>1, LenProperties
  <2> QED
    BY <1>0, <1>4, <2>3 DEF Write
<1>5. CASE Stop
  BY <1>0, <1>5 DEF Stop, RequestStop
<1>6. CASE TimerTick
  <2>1. activeFile \in 1 .. MaxCaptures
    BY <1>6, RecordingOutput DEF TimerTick
  <2>2. Append(flushTask, activeFile) \in Seq(1 .. MaxCaptures)
    BY <1>0, <2>1, AppendProperties
  <2> QED
    BY <1>0, <1>6, <2>2 DEF TimerTick
<1>7. CASE FlushLinkRuns
  <2>1. Tail(flushTask) \in Seq(1 .. MaxCaptures)
    BY <1>0, <1>7, HeadTailProperties DEF FlushLinkRuns
  <2> QED
    BY <1>0, <1>7, <2>1 DEF FlushLinkRuns, Flush
<1>8. CASE FlushLinkDone
  BY <1>0, <1>8 DEF FlushLinkDone
<1>9. CASE FlushLinkThrows
  BY <1>0, <1>9 DEF FlushLinkThrows, OnOutputError, RequestStop
<1>10. ASSUME NEW c \in Captures, WriteSucceeds(c) PROVE FieldsOK'
  BY <1>0, <1>10 DEF WriteSucceeds
<1>11. ASSUME NEW c \in Captures, WriteFails(c) PROVE FieldsOK'
  BY <1>0, <1>11 DEF WriteFails
<1>12. CASE StopAfterStart
  BY <1>0, <1>12 DEF StopAfterStart
<1>13. CASE StopAfterFlushTask
  BY <1>0, <1>13 DEF StopAfterFlushTask, Flush
<1>14. CASE StopSucceeds
  BY <1>0, <1>14 DEF StopSucceeds, Reset
<1>15. CASE StopThrows
  BY <1>0, <1>15 DEF StopThrows, Reset
<1>16. CASE ClockTick
  BY <1>0, <1>16 DEF ClockTick
<1> QED
  BY <1>1, <1>2, <1>3, <1>4, <1>5, <1>6, <1>7, <1>8, <1>9, <1>10, <1>11,
     <1>12, <1>13, <1>14, <1>15, <1>16 DEF Next, FlushChain, Disk, StopBody

LEMMA ControlStep == ASSUME IInv, Next PROVE ControlInv'
<1> USE DEF ControlInv, IdleFields, StartingFields, RecordingFields, StoppingFields,
            AwaitStartFields, AwaitFlushFields, AwaitFinishFields, Null, Captures,
            CaptureOrNull
<1>0. FlagsOK /\ FieldsOK /\ OutputsOK /\ ControlInv
  BY TypeParts, BoundsAssumption DEF IInv
<1>1. CASE Start
  BY <1>0, <1>1 DEF Start
<1>2. CASE CreateSucceeds
  <2>1. /\ activeFile' = opened' /\ output' = opened' /\ closing' = Null
        /\ flushTask' = <<>> /\ flushing' = Null /\ starting' = FALSE
        /\ opened' # Null
    BY <1>2, StartStage DEF CreateSucceeds, CreateCaptureFile
  <2>2. CASE stopRequested
    <3>1. /\ phase' = "stopping" /\ stopRequested' /\ ~timer'
          /\ stopping' = "awaitStart"
      BY <1>2, <2>2, StartStage DEF CreateSucceeds, CreateCaptureFile
    <3> QED
      BY <2>1, <3>1
  <2>3. CASE ~stopRequested
    <3>1. /\ phase' = "recording" /\ ~stopRequested' /\ stopping' = "none"
      BY <1>2, <2>3, StartStage DEF CreateSucceeds, CreateCaptureFile
    <3> QED
      BY <2>1, <3>1
  <2> QED
    BY <2>2, <2>3
<1>3. CASE CreateFails
  BY <1>0, <1>3 DEF CreateFails
<1>4. ASSUME NEW line \in Lines, Write(line) PROVE ControlInv'
  BY <1>0, <1>4 DEF Write
<1>5. CASE Stop
  BY <1>0, <1>5 DEF Stop, RequestStop
<1>6. CASE TimerTick
  BY <1>0, <1>6 DEF TimerTick
<1>7. CASE FlushLinkRuns
  <2>1. /\ flushTask # <<>> /\ flushTask' = Tail(flushTask)
        /\ flushing' \in {Null, activeFile}
        /\ UNCHANGED <<control, current, timer, opened>>
        /\ stopping # "awaitFinish"
    BY <1>7, FlushStage DEF FlushLinkRuns
  <2>2. \A i \in 1 .. Len(flushTask') : flushTask'[i] = activeFile
    BY <1>0, <2>1, HeadTailProperties
  <2>3. activeFile # Null
    BY <2>1, FlushStage
  <2>4. \/ phase' = "recording" /\ RecordingFields'
        \/ phase' = "stopping" /\ StoppingFields'
    BY <2>1, FlushStage
  <2> HIDE DEF RecordingFields, StoppingFields
  <2> QED
    BY <1>0, <2>1, <2>2, <2>3, <2>4
<1>8. CASE FlushLinkDone
  BY <1>0, <1>8 DEF FlushLinkDone
<1>9. CASE FlushLinkThrows
  BY <1>0, <1>9 DEF FlushLinkThrows, OnOutputError, RequestStop
<1>10. ASSUME NEW c \in Captures, WriteSucceeds(c) PROVE ControlInv'
  BY <1>0, <1>10 DEF WriteSucceeds
<1>11. ASSUME NEW c \in Captures, WriteFails(c) PROVE ControlInv'
  BY <1>0, <1>11 DEF WriteFails
<1>12. CASE StopAfterStart
  BY <1>0, <1>12 DEF StopAfterStart
<1>13. CASE StopAfterFlushTask
  <2>1. /\ phase = "stopping" /\ StoppingFields /\ AwaitFlushFields
    BY <1>13, StopStage DEF StopAfterFlushTask
  <2>2. /\ stopping' = "awaitFinish" /\ flushTask' = <<>> /\ flushing' = Null
        /\ UNCHANGED <<phase, starting, stopRequested, current, timer, opened>>
    BY <1>13 DEF StopAfterFlushTask
  <2>3. closing # Null => buffer'[closing] = <<>>
    <3>1. closing \in CaptureOrNull /\ buffer \in [Captures -> Seq(Lines)]
      BY <1>0 DEF FieldsOK, OutputsOK
    <3> QED
      BY <1>13, <3>1 DEF StopAfterFlushTask, Flush
  <2>4. AwaitFinishFields' /\ StoppingFields'
    BY <2>1, <2>2, <2>3
  <2> QED
    BY <1>0, <2>1, <2>2, <2>4
<1>14. CASE StopSucceeds
  BY <1>0, <1>14 DEF StopSucceeds, Reset
<1>15. CASE StopThrows
  BY <1>0, <1>15 DEF StopThrows, Reset
<1>16. CASE ClockTick
  BY <1>0, <1>16 DEF ClockTick
<1> QED
  BY <1>1, <1>2, <1>3, <1>4, <1>5, <1>6, <1>7, <1>8, <1>9, <1>10, <1>11,
     <1>12, <1>13, <1>14, <1>15, <1>16 DEF Next, FlushChain, Disk, StopBody


LEMMA OnlyActiveWrites ==
    ASSUME IInv, NEW c \in Captures, writes[c] # <<>>
    PROVE  /\ c = activeFile /\ c = opened /\ ~(c > opened)
           /\ outcome[c] = "none" /\ ~broken[c]
<1>1. c = activeFile
  BY DEF IInv, OutputsInv, OutputState
<1>2. c = opened
  BY <1>1 DEF IInv, ControlInv, Captures, Null
<1>3. outcome[c] = "none"
  BY <1>1 DEF IInv, OutputsInv, OutputState
<1>4. ~broken[c]
  BY DEF IInv, LinesInv, LinesPlaced
<1>5. ~(c > opened)
  BY <1>2 DEF Captures
<1> QED
  BY <1>1, <1>2, <1>3, <1>4, <1>5

LEMMA FlushOutputs ==
    ASSUME IInv, NEW c \in Captures, c = activeFile, Flush(c),
           UNCHANGED <<activeFile, opened, outcome, accepted>>
    PROVE  OutputsInv'
<1>1. OutputsOK /\ OutputsInv /\ c = opened
  BY TypeParts DEF IInv, ControlInv, Captures, Null
<1>2. /\ UNCHANGED <<disk, broken>>
      /\ \A d \in Captures : d # c =>
            buffer'[d] = buffer[d] /\ writes'[d] = writes[d]
  BY <1>1 DEF Flush, OutputsOK
<1> SUFFICES ASSUME NEW d \in Captures PROVE OutputState(d)'
  BY DEF OutputsInv
<1> QED
  BY <1>1, <1>2 DEF OutputsInv, OutputState

LEMMA OutputsInvStep == ASSUME IInv, Next PROVE OutputsInv'
<1> USE DEF OutputsInv, OutputState, Null, Captures
<1>0. FlagsOK /\ FieldsOK /\ OutputsOK /\ ControlInv /\ OutputsInv /\ LinesInv
  BY TypeParts, BoundsAssumption DEF IInv
<1>1. CASE Start
  BY <1>0, <1>1 DEF Start
<1>2. CASE CreateSucceeds
  <2>1. /\ activeFile = Null /\ activeFile' = opened' /\ opened' = opened + 1
        /\ opened \in 0 .. MaxCaptures /\ UNCHANGED <<storage, history>>
    BY <1>0, <1>2, StartStage DEF CreateSucceeds, CreateCaptureFile, OutputsOK
  <2> SUFFICES ASSUME NEW d \in Captures PROVE OutputState(d)'
    BY DEF OutputsInv
  <2>2. OutputState(d) /\ d \in 1 .. MaxCaptures
    BY <1>0
  <2>3. (d > opened' => d > opened) /\ (d # Null)
        /\ (d > opened <=> (d > opened' \/ d = opened'))
    BY <2>1, <2>2, BoundsAssumption
  <2> QED
    BY <2>1, <2>2, <2>3
<1>3. CASE CreateFails
  BY <1>0, <1>3 DEF CreateFails
<1>4. ASSUME NEW line \in Lines, Write(line) PROVE OutputsInv'
  <2>1. /\ output = activeFile /\ activeFile = opened /\ opened \in Captures
        /\ UNCHANGED <<opened, activeFile, disk, broken, writes, outcome>>
        /\ \A d \in Captures : d # activeFile =>
              buffer'[d] = buffer[d] /\ accepted'[d] = accepted[d]
    BY <1>0, <1>4, RecordingOutput DEF Write, OutputsOK
  <2> SUFFICES ASSUME NEW d \in Captures PROVE OutputState(d)'
    BY DEF OutputsInv
  <2>2. OutputState(d) /\ (d = activeFile => ~(d > opened))
    BY <1>0, <2>1
  <2> QED
    BY <2>1, <2>2
<1>5. CASE Stop
  BY <1>0, <1>5 DEF Stop, RequestStop
<1>6. CASE TimerTick
  BY <1>0, <1>6 DEF TimerTick
<1>7. CASE FlushLinkRuns
  <2>1. CASE output = Head(flushTask) /\ phase = "recording"
    BY <1>0, <1>7, <2>1, RecordingOutput, FlushOutputs DEF FlushLinkRuns
  <2>2. CASE ~(output = Head(flushTask) /\ phase = "recording")
    BY <1>0, <1>7, <2>2 DEF FlushLinkRuns
  <2> QED
    BY <2>1, <2>2
<1>8. CASE FlushLinkDone
  BY <1>0, <1>8 DEF FlushLinkDone
<1>9. CASE FlushLinkThrows
  BY <1>0, <1>9 DEF FlushLinkThrows, OnOutputError, RequestStop
<1>10. ASSUME NEW c \in Captures, WriteSucceeds(c) PROVE OutputsInv'
  <2>1. c = activeFile /\ ~(c > opened)
    BY <1>0, <1>10, OnlyActiveWrites DEF WriteSucceeds
  <2>2. /\ UNCHANGED <<activeFile, opened, outcome, buffer, broken, accepted>>
        /\ \A d \in Captures : d # c =>
              writes'[d] = writes[d] /\ disk'[d] = disk[d]
    BY <1>0, <1>10 DEF WriteSucceeds, OutputsOK
  <2> SUFFICES ASSUME NEW d \in Captures PROVE OutputState(d)'
    BY DEF OutputsInv
  <2> QED
    BY <1>0, <2>1, <2>2
<1>11. ASSUME NEW c \in Captures, WriteFails(c) PROVE OutputsInv'
  <2>1. c = activeFile /\ ~(c > opened) /\ outcome[c] = "none"
    BY <1>0, <1>11, OnlyActiveWrites DEF WriteFails
  <2>2. /\ UNCHANGED <<activeFile, opened, outcome, buffer, accepted>>
        /\ \A d \in Captures : d # c =>
              writes'[d] = writes[d] /\ disk'[d] = disk[d]
              /\ broken'[d] = broken[d]
    BY <1>0, <1>11 DEF WriteFails, OutputsOK, FlagsOK
  <2> SUFFICES ASSUME NEW d \in Captures PROVE OutputState(d)'
    BY DEF OutputsInv
  <2> QED
    BY <1>0, <2>1, <2>2
<1>12. CASE StopAfterStart
  BY <1>0, <1>12 DEF StopAfterStart
<1>13. CASE StopAfterFlushTask
  <2>1. CASE closing # Null
    <3>1. closing = activeFile /\ closing \in Captures /\ Flush(closing)
      BY <1>0, <1>13, <2>1, StopStage
      DEF StopAfterFlushTask, StoppingFields, AwaitStartFields,
          AwaitFlushFields, AwaitFinishFields, FieldsOK, CaptureOrNull
    <3> QED
      BY <1>0, <1>13, <3>1, FlushOutputs DEF StopAfterFlushTask
  <2>2. CASE closing = Null
    BY <1>0, <1>13, <2>2 DEF StopAfterFlushTask
  <2> QED
    BY <2>1, <2>2
<1>14. CASE StopSucceeds
  <2>1. /\ closing = activeFile /\ (closing # Null => closing = opened)
        /\ (closing # Null => closing \in Captures /\ buffer[closing] = <<>>)
    BY <1>14, FinishStage DEF StopSucceeds, AwaitFinishFields
  <2>2. /\ activeFile' = Null /\ UNCHANGED <<opened, storage, accepted>>
        /\ closing # Null => writes[closing] = <<>>
        /\ \A d \in Captures : d # closing => outcome'[d] = outcome[d]
        /\ closing # Null => outcome'[closing] # "none"
        /\ closing # Null /\ outcome'[closing] = "sealed" => ~broken[closing]
    BY <1>0, <1>14, <2>1 DEF StopSucceeds, Reset, OutputsOK, LinesInv, LinesPlaced
  <2>3. opened \in Nat
    BY <1>0 DEF OutputsOK
  <2> SUFFICES ASSUME NEW d \in Captures PROVE OutputState(d)'
    BY DEF OutputsInv
  <2>4. OutputState(d) /\ d \in Nat /\ d # Null
    BY <1>0
  <2> QED
    BY <2>1, <2>2, <2>3, <2>4
<1>15. CASE StopThrows
  <2>1. /\ closing = activeFile /\ (closing # Null => closing = opened)
        /\ (closing # Null => closing \in Captures /\ buffer[closing] = <<>>)
    BY <1>15, FinishStage DEF StopThrows, AwaitFinishFields
  <2>2. /\ activeFile' = Null /\ UNCHANGED <<opened, storage, accepted>>
        /\ closing # Null => writes[closing] = <<>>
        /\ \A d \in Captures : d # closing => outcome'[d] = outcome[d]
        /\ closing # Null => outcome'[closing] # "none"
        /\ closing # Null /\ outcome'[closing] = "sealed" => ~broken[closing]
    BY <1>0, <1>15, <2>1 DEF StopThrows, Reset, OutputsOK, LinesInv, LinesPlaced
  <2>3. opened \in Nat
    BY <1>0 DEF OutputsOK
  <2> SUFFICES ASSUME NEW d \in Captures PROVE OutputState(d)'
    BY DEF OutputsInv
  <2>4. OutputState(d) /\ d \in Nat /\ d # Null
    BY <1>0
  <2> QED
    BY <2>1, <2>2, <2>3, <2>4
<1>16. CASE ClockTick
  BY <1>0, <1>16 DEF ClockTick
<1> QED
  BY <1>1, <1>2, <1>3, <1>4, <1>5, <1>6, <1>7, <1>8, <1>9, <1>10, <1>11,
     <1>12, <1>13, <1>14, <1>15, <1>16 DEF Next, FlushChain, Disk, StopBody


LEMMA FlushLines ==
    ASSUME IInv, NEW c \in Captures, Flush(c), UNCHANGED accepted
    PROVE  LinesInv'
<1>1. OutputsOK /\ LinesInv
  BY TypeParts DEF IInv
<1>2. /\ UNCHANGED <<disk, broken>>
      /\ \A d \in Captures : d # c =>
            buffer'[d] = buffer[d] /\ writes'[d] = writes[d]
      /\ buffer'[c] = <<>>
      /\ writes'[c] = IF broken[c] THEN writes[c] ELSE writes[c] \o buffer[c]
  BY <1>1 DEF Flush, OutputsOK
<1>3. ASSUME ~broken[c]
      PROVE  (disk[c] \o (writes[c] \o buffer[c])) \o <<>>
                = (disk[c] \o writes[c]) \o buffer[c]
  <2>1. disk[c] \in Seq(Lines) /\ writes[c] \in Seq(Lines)
        /\ buffer[c] \in Seq(Lines)
    BY <1>1 DEF OutputsOK
  <2>2. (disk[c] \o writes[c]) \o buffer[c] = disk[c] \o (writes[c] \o buffer[c])
    BY <2>1, Associativity
  <2>3. disk[c] \o (writes[c] \o buffer[c]) \in Seq(Lines)
    BY <2>1, ConcatProperties
  <2> QED
    BY <2>2, <2>3, ConcatEmptySeq
<1> SUFFICES ASSUME NEW d \in Captures PROVE LinesPlaced(d)'
  BY DEF LinesInv
<1>4. LinesPlaced(d)
  BY <1>1 DEF LinesInv
<1>5. CASE d = c
  BY <1>2, <1>3, <1>4, <1>5 DEF LinesPlaced
<1>6. CASE d # c
  BY <1>2, <1>4, <1>6 DEF LinesPlaced
<1> QED
  BY <1>5, <1>6

LEMMA LinesStep == ASSUME IInv, Next PROVE LinesInv'
<1> USE DEF LinesInv, LinesPlaced, Null, Captures
<1>0. FlagsOK /\ FieldsOK /\ OutputsOK /\ ControlInv /\ OutputsInv /\ LinesInv
  BY TypeParts, BoundsAssumption DEF IInv
<1>1. CASE Start
  BY <1>0, <1>1 DEF Start
<1>2. CASE CreateSucceeds
  BY <1>0, <1>2 DEF CreateSucceeds, CreateCaptureFile
<1>3. CASE CreateFails
  BY <1>0, <1>3 DEF CreateFails
<1>4. ASSUME NEW line \in Lines, Write(line) PROVE LinesInv'
  <2>1. /\ output \in Captures /\ UNCHANGED <<disk, writes, broken>>
        /\ buffer'[output] = Append(buffer[output], line)
        /\ accepted'[output] = Append(accepted[output], line)
        /\ \A d \in Captures : d # output =>
              buffer'[d] = buffer[d] /\ accepted'[d] = accepted[d]
    BY <1>0, <1>4, RecordingOutput DEF Write, OutputsOK
  <2>2. /\ disk[output] \in Seq(Lines) /\ writes[output] \in Seq(Lines)
        /\ buffer[output] \in Seq(Lines) /\ accepted[output] \in Seq(Lines)
    BY <1>0, <2>1 DEF OutputsOK
  <2>3. disk[output] \o writes[output] \in Seq(Lines)
    BY <2>2, ConcatProperties
  <2> SUFFICES ASSUME NEW d \in Captures PROVE LinesPlaced(d)'
    BY DEF LinesInv
  <2>4. LinesPlaced(d)
    BY <1>0
  <2>5. CASE d # output
    BY <2>1, <2>4, <2>5
  <2>6. CASE d = output /\ ~broken[output]
    <3>1. (disk[output] \o writes[output]) \o Append(buffer[output], line)
            = Append((disk[output] \o writes[output]) \o buffer[output], line)
      <4>1. \A s, t \in Seq(Lines) : \A e \in Lines :
               s \o Append(t, e) = Append(s \o t, e)
        BY AppendToTail
      <4> QED
        BY <1>4, <2>2, <2>3, <4>1
    <3> QED
      BY <2>1, <2>4, <2>6, <3>1
  <2>7. CASE d = output /\ broken[output]
    <3>1. IsPrefix(disk[output], Append(accepted[output], line))
      BY <1>4, <2>2, <2>4, <2>7, PrefixOfAppend
    <3> QED
      BY <2>1, <2>4, <2>7, <3>1
  <2> QED
    BY <2>5, <2>6, <2>7
<1>5. CASE Stop
  BY <1>0, <1>5 DEF Stop, RequestStop
<1>6. CASE TimerTick
  BY <1>0, <1>6 DEF TimerTick
<1>7. CASE FlushLinkRuns
  <2>1. CASE output = Head(flushTask) /\ phase = "recording"
    BY <1>7, <2>1, RecordingOutput, FlushLines DEF FlushLinkRuns
  <2>2. CASE ~(output = Head(flushTask) /\ phase = "recording")
    BY <1>0, <1>7, <2>2 DEF FlushLinkRuns
  <2> QED
    BY <2>1, <2>2
<1>8. CASE FlushLinkDone
  BY <1>0, <1>8 DEF FlushLinkDone
<1>9. CASE FlushLinkThrows
  BY <1>0, <1>9 DEF FlushLinkThrows, OnOutputError, RequestStop
<1>10. ASSUME NEW c \in Captures, WriteSucceeds(c) PROVE LinesInv'
  <2>1. /\ disk[c] \in Seq(Lines) /\ writes[c] \in Seq(Lines)
        /\ buffer[c] \in Seq(Lines)
    BY <1>0 DEF OutputsOK
  <2>2. (disk[c] \o writes[c]) \o <<>> = disk[c] \o writes[c]
    BY <2>1, ConcatProperties, ConcatEmptySeq
  <2>3. /\ UNCHANGED <<accepted, buffer, broken>>
        /\ disk'[c] = disk[c] \o writes[c] /\ writes'[c] = <<>>
        /\ \A d \in Captures : d # c =>
              disk'[d] = disk[d] /\ writes'[d] = writes[d]
        /\ ~broken[c]
    BY <1>0, <1>10, OnlyActiveWrites DEF WriteSucceeds, OutputsOK
  <2> SUFFICES ASSUME NEW d \in Captures PROVE LinesPlaced(d)'
    BY DEF LinesInv
  <2>4. LinesPlaced(d)
    BY <1>0
  <2> QED
    BY <2>2, <2>3, <2>4
<1>11. ASSUME NEW c \in Captures, WriteFails(c) PROVE LinesInv'
  <2>1. /\ disk[c] \in Seq(Lines) /\ writes[c] \in Seq(Lines)
        /\ buffer[c] \in Seq(Lines)
    BY <1>0 DEF OutputsOK
  <2>2. PICK n \in 0 .. Len(writes[c]) :
              disk' = [disk EXCEPT ![c] = @ \o SubSeq(writes[c], 1, n)]
    BY <1>11 DEF WriteFails
  <2>3. IsPrefix(disk[c] \o SubSeq(writes[c], 1, n),
                 (disk[c] \o writes[c]) \o buffer[c])
    BY <2>1, PartialAppendIsPrefix
  <2>4. /\ UNCHANGED <<accepted, buffer>>
        /\ disk'[c] = disk[c] \o SubSeq(writes[c], 1, n) /\ writes'[c] = <<>>
        /\ broken'[c] = TRUE
        /\ \A d \in Captures : d # c =>
              disk'[d] = disk[d] /\ writes'[d] = writes[d]
              /\ broken'[d] = broken[d]
        /\ ~broken[c]
    BY <1>0, <1>11, <2>2, OnlyActiveWrites DEF WriteFails, OutputsOK, FlagsOK
  <2> SUFFICES ASSUME NEW d \in Captures PROVE LinesPlaced(d)'
    BY DEF LinesInv
  <2>5. LinesPlaced(d)
    BY <1>0
  <2> QED
    BY <2>3, <2>4, <2>5
<1>12. CASE StopAfterStart
  BY <1>0, <1>12 DEF StopAfterStart
<1>13. CASE StopAfterFlushTask
  <2>1. CASE closing # Null
    <3>1. closing \in Captures
      BY <1>0, <2>1 DEF FieldsOK, CaptureOrNull
    <3> QED
      BY <1>13, <2>1, <3>1, FlushLines DEF StopAfterFlushTask
  <2>2. CASE closing = Null
    BY <1>0, <1>13, <2>2 DEF StopAfterFlushTask
  <2> QED
    BY <2>1, <2>2
<1>14. CASE StopSucceeds
  BY <1>0, <1>14 DEF StopSucceeds, Reset
<1>15. CASE StopThrows
  BY <1>0, <1>15 DEF StopThrows, Reset
<1>16. CASE ClockTick
  BY <1>0, <1>16 DEF ClockTick
<1> QED
  BY <1>1, <1>2, <1>3, <1>4, <1>5, <1>6, <1>7, <1>8, <1>9, <1>10, <1>11,
     <1>12, <1>13, <1>14, <1>15, <1>16 DEF Next, FlushChain, Disk, StopBody


LEMMA CountsStep == ASSUME IInv, Next PROVE CountsInv'
<1> USE DEF CountsInv, Null, Captures
<1>0. FlagsOK /\ FieldsOK /\ OutputsOK /\ ControlInv /\ OutputsInv /\ CountsInv
  BY TypeParts, BoundsAssumption DEF IInv
<1>1. CASE Start
  <2>1. activeFile = Null
    BY <1>0, <1>1, Zenon DEF Start, ControlInv, IdleFields
  <2> QED
    BY <1>0, <1>1, <2>1 DEF Start
<1>2. CASE CreateSucceeds
  <2>1. /\ activeFile' = opened + 1 /\ opened + 1 \in Captures
        /\ starting' = FALSE
        /\ UNCHANGED <<accepted, outcome, recordedFrames, lastCompleted>>
    BY <1>2, StartStage DEF CreateSucceeds, CreateCaptureFile
  <2>2. accepted[opened + 1] = <<>>
    BY <1>0, <2>1 DEF OutputsInv, OutputState, OutputsOK
  <2>3. recordedFrames = 0
    BY <1>0, <1>2 DEF CreateSucceeds, CreateCaptureFile
  <2>4. FrameCount(<<>>) = 0
    <3>1. <<>> \in Seq(Lines) /\ "note" \in Lines
      BY EmptySeq DEF Lines
    <3> QED
      BY <3>1, FrameCountProperties
  <2> QED
    BY <1>0, <2>1, <2>2, <2>3, <2>4
<1>3. CASE CreateFails
  BY <1>0, <1>3 DEF CreateFails
<1>4. ASSUME NEW line \in Lines, Write(line) PROVE CountsInv'
  <2>1. /\ output = activeFile /\ activeFile \in Captures /\ ~starting
        /\ UNCHANGED <<activeFile, starting, lastCompleted, outcome>>
        /\ accepted'[output] = Append(accepted[output], line)
        /\ Len(accepted[output]) < MaxLines
        /\ \A d \in Captures : d # output => accepted'[d] = accepted[d]
        /\ accepted[output] \in Seq(Lines)
        /\ recordedFrames' = IF line = "frame" THEN recordedFrames + 1
                                               ELSE recordedFrames
    BY <1>0, <1>4, RecordingOutput DEF Write, OutputsOK, RecordingFields
  <2>2. \A d \in Captures : Len(accepted'[d]) <= MaxLines
    <3>1. Len(accepted'[output]) = Len(accepted[output]) + 1
          /\ Len(accepted[output]) \in Nat
      BY <1>4, <2>1, AppendProperties, LenProperties
    <3>2. MaxLines \in Nat
      BY BoundsAssumption
    <3> QED
      BY <1>0, <2>1, <3>1, <3>2
  <2>3. recordedFrames' = FrameCount(accepted'[activeFile'])
    <3>1. recordedFrames = FrameCount(accepted[output])
      BY <1>0, <2>1
    <3>2. FrameCount(Append(accepted[output], line)) =
             IF line = "frame" THEN FrameCount(accepted[output]) + 1
                               ELSE FrameCount(accepted[output])
      BY <1>4, <2>1, FrameCountProperties
    <3> QED
      BY <2>1, <3>1, <3>2
  <2>4. ASSUME lastCompleted.file # Null
        PROVE  /\ outcome'[lastCompleted.file] = "sealed"
               /\ lastCompleted.frames = FrameCount(accepted'[lastCompleted.file])
    <3>1. lastCompleted.file \in Captures /\ outcome[lastCompleted.file] = "sealed"
      BY <1>0, <2>4 DEF FieldsOK, CaptureOrNull
    <3>2. lastCompleted.file # output
      BY <1>0, <2>1, <3>1 DEF OutputsInv, OutputState
    <3> QED
      BY <1>0, <2>1, <2>4, <3>1, <3>2
  <2> QED
    BY <2>1, <2>2, <2>3, <2>4
<1>5. CASE Stop
  BY <1>0, <1>5 DEF Stop, RequestStop
<1>6. CASE TimerTick
  BY <1>0, <1>6 DEF TimerTick
<1>7. CASE FlushLinkRuns
  BY <1>0, <1>7 DEF FlushLinkRuns, Flush
<1>8. CASE FlushLinkDone
  BY <1>0, <1>8 DEF FlushLinkDone
<1>9. CASE FlushLinkThrows
  BY <1>0, <1>9 DEF FlushLinkThrows, OnOutputError, RequestStop
<1>10. ASSUME NEW c \in Captures, WriteSucceeds(c) PROVE CountsInv'
  BY <1>0, <1>10 DEF WriteSucceeds
<1>11. ASSUME NEW c \in Captures, WriteFails(c) PROVE CountsInv'
  BY <1>0, <1>11 DEF WriteFails
<1>12. CASE StopAfterStart
  BY <1>0, <1>12 DEF StopAfterStart
<1>13. CASE StopAfterFlushTask
  BY <1>0, <1>13 DEF StopAfterFlushTask, Flush
<1>14. CASE StopSucceeds
  <2>1. /\ closing = activeFile /\ (closing # Null => closing \in Captures)
        /\ activeFile' = Null /\ starting' = FALSE
        /\ UNCHANGED accepted
    BY <1>14, FinishStage DEF StopSucceeds, Reset
  <2>2. CASE closing # Null
    <3>1. /\ lastCompleted' = [file |-> closing, frames |-> recordedFrames]
          /\ outcome'[closing] = "sealed"
      BY <1>0, <1>14, <2>1, <2>2 DEF StopSucceeds, OutputsOK
    <3>2. recordedFrames = FrameCount(accepted[closing])
      BY <1>0, <2>1, <2>2
    <3> QED
      BY <1>0, <2>1, <3>1, <3>2
  <2>3. CASE closing = Null
    BY <1>0, <1>14, <2>1, <2>3 DEF StopSucceeds
  <2> QED
    BY <2>2, <2>3
<1>15. CASE StopThrows
  <2>1. /\ closing = activeFile /\ closing \in Captures /\ closing # Null
        /\ activeFile' = Null /\ starting' = FALSE
        /\ UNCHANGED <<accepted, lastCompleted>>
        /\ \A d \in Captures : d # closing => outcome'[d] = outcome[d]
    BY <1>0, <1>15, FinishStage DEF StopThrows, Reset, OutputsOK
  <2>2. outcome[closing] = "none"
    BY <1>0, <2>1 DEF OutputsInv, OutputState
  <2>3. lastCompleted.file # Null =>
          lastCompleted.file \in Captures /\ lastCompleted.file # closing
    BY <1>0, <2>2 DEF FieldsOK, CaptureOrNull
  <2> QED
    BY <1>0, <2>1, <2>3
<1>16. CASE ClockTick
  BY <1>0, <1>16 DEF ClockTick
<1> QED
  BY <1>1, <1>2, <1>3, <1>4, <1>5, <1>6, <1>7, <1>8, <1>9, <1>10, <1>11,
     <1>12, <1>13, <1>14, <1>15, <1>16 DEF Next, FlushChain, Disk, StopBody


LEMMA ErrorStep == ASSUME IInv, Next PROVE ErrorInv'
<1> USE DEF ErrorInv, ErrorIsOwn, Null, Captures
<1>0. FlagsOK /\ FieldsOK /\ OutputsOK /\ ControlInv /\ OutputsInv /\ ErrorInv
  BY TypeParts, BoundsAssumption DEF IInv
<1>1. CASE Start
  BY <1>0, <1>1 DEF Start
<1>2. CASE CreateSucceeds
  BY <1>0, <1>2 DEF CreateSucceeds, CreateCaptureFile
<1>3. CASE CreateFails
  BY <1>0, <1>3 DEF CreateFails
<1>4. ASSUME NEW line \in Lines, Write(line) PROVE ErrorInv'
  BY <1>0, <1>4 DEF Write
<1>5. CASE Stop
  BY <1>0, <1>5 DEF Stop, RequestStop
<1>6. CASE TimerTick
  BY <1>0, <1>6 DEF TimerTick
<1>7. CASE FlushLinkRuns
  BY <1>0, <1>7 DEF FlushLinkRuns, Flush
<1>8. CASE FlushLinkDone
  BY <1>0, <1>8 DEF FlushLinkDone
<1>9. CASE FlushLinkThrows
  <2>1. /\ flushing = activeFile /\ flushing = opened /\ flushing # Null
        /\ ~starting /\ broken[flushing]
    BY <1>0, <1>9, FlushStage, Zenon DEF FlushLinkThrows, ControlInv
  <2>2. UNCHANGED <<starting, opened, broken>>
    BY <1>9, Zenon DEF FlushLinkThrows, OnOutputError, RequestStop
  <2> QED
    BY <2>1, <2>2
<1>10. ASSUME NEW c \in Captures, WriteSucceeds(c) PROVE ErrorInv'
  BY <1>0, <1>10 DEF WriteSucceeds
<1>11. ASSUME NEW c \in Captures, WriteFails(c) PROVE ErrorInv'
  BY <1>0, <1>11 DEF WriteFails
<1>12. CASE StopAfterStart
  BY <1>0, <1>12 DEF StopAfterStart
<1>13. CASE StopAfterFlushTask
  BY <1>0, <1>13 DEF StopAfterFlushTask, Flush
<1>14. CASE StopSucceeds
  BY <1>0, <1>14 DEF StopSucceeds, Reset
<1>15. CASE StopThrows
  <2>1. closing = opened /\ closing # Null /\ broken[closing]
    BY <1>15, FinishStage DEF StopThrows
  <2>2. starting' = FALSE /\ UNCHANGED <<opened, broken>>
    BY <1>15, Zenon DEF StopThrows, Reset
  <2> QED
    BY <2>1, <2>2
<1>16. CASE ClockTick
  BY <1>0, <1>16 DEF ClockTick
<1> QED
  BY <1>1, <1>2, <1>3, <1>4, <1>5, <1>6, <1>7, <1>8, <1>9, <1>10, <1>11,
     <1>12, <1>13, <1>14, <1>15, <1>16 DEF Next, FlushChain, Disk, StopBody

LEMMA StutterStep == ASSUME IInv, UNCHANGED vars PROVE IInv'
<1>1. TypeOK'
  BY Zenon DEF IInv, TypeOK
<1>2. ControlInv'
  BY Zenon DEF IInv, ControlInv, IdleFields, StartingFields, RecordingFields,
               StoppingFields, AwaitStartFields, AwaitFlushFields, AwaitFinishFields
<1>3. OutputsInv'
  BY Zenon DEF IInv, OutputsInv, OutputState
<1>4. LinesInv'
  BY Zenon DEF IInv, LinesInv, LinesPlaced
<1>5. CountsInv' /\ ErrorInv'
  BY Zenon DEF IInv, CountsInv, ErrorInv, ErrorIsOwn
<1> QED
  BY <1>1, <1>2, <1>3, <1>4, <1>5 DEF IInv

LEMMA InvariantStep == ASSUME IInv, Next PROVE IInv'
<1>1. ControlInv' /\ OutputsInv' /\ LinesInv' /\ CountsInv' /\ ErrorInv'
  BY ControlStep, OutputsInvStep, LinesStep, CountsStep, ErrorStep
<1>2. FlagsOK' /\ OutputsOK'
  BY FlagsStep, OutputsStep, TypeParts DEF IInv
<1>3. FieldsOK'
  BY <1>1, <1>2, FieldsStep
<1>4. TypeOK'
  BY <1>2, <1>3 DEF TypeOK, FlagsOK, FieldsOK, OutputsOK
<1> QED
  BY <1>1, <1>4 DEF IInv

(* Every reachable state of a capture session satisfies the invariant.     *)
THEOREM Invariance == Spec => []IInv
<1>1. IInv /\ [Next]_vars => IInv'
  BY InvariantStep, StutterStep
<1> QED
  BY <1>1, InitInvariant, PTL DEF Spec

-----------------------------------------------------------------------------
(* The properties of CaptureSession, for every value of the bounds.        *)

(* The fields keep their types and no frame of an earlier capture is ever  *)
(* counted again.                                                          *)
THEOREM TypeCorrect == Spec => []TypeOK
<1>1. IInv => TypeOK
  BY DEF IInv
<1> QED
  BY <1>1, Invariance, PTL

(* The file of a capture is always a prefix of the lines it accepted,      *)
(* whatever appends fail and whenever they fail.                           *)
THEOREM DiskPrefix == Spec => []DiskIsPrefix
<1>1. IInv => DiskIsPrefix
  <2> SUFFICES ASSUME IInv, NEW c \in Captures
               PROVE  IsPrefix(disk[c], accepted[c])
    BY DEF DiskIsPrefix
  <2>1. LinesPlaced(c)
    BY DEF IInv, LinesInv
  <2>2. CASE broken[c]
    BY <2>1, <2>2 DEF LinesPlaced
  <2>3. CASE ~broken[c]
    <3>1. /\ disk[c] \in Seq(Lines) /\ writes[c] \in Seq(Lines)
          /\ buffer[c] \in Seq(Lines)
      BY TypeParts DEF IInv, OutputsOK
    <3>2. writes[c] \o buffer[c] \in Seq(Lines)
      BY <3>1, ConcatProperties
    <3>3. accepted[c] = disk[c] \o (writes[c] \o buffer[c])
      BY <2>1, <2>3, <3>1, Associativity DEF LinesPlaced
    <3> QED
      BY <3>1, <3>2, <3>3, ConcatHasPrefix
  <2> QED
    BY <2>2, <2>3
<1> QED
  BY <1>1, Invariance, PTL

LEMMA StoredIsWhole ==
    ASSUME IInv, NEW c \in Captures, ~broken[c], writes[c] = <<>>,
           buffer[c] = <<>>
    PROVE  disk[c] = accepted[c]
<1>1. (disk[c] \o <<>>) \o <<>> = accepted[c] /\ disk[c] \in Seq(Lines)
  BY TypeParts DEF IInv, LinesInv, LinesPlaced, OutputsOK
<1>2. disk[c] \o <<>> = disk[c]
  BY <1>1, ConcatEmptySeq
<1> QED
  BY <1>1, <1>2

(* A capture that stop() reported as complete is stored entirely and its   *)
(* frame count is right, for good.                                         *)
THEOREM CompletedIsExact == Spec => []SealedExact
<1>1. IInv => SealedExact
  <2> SUFFICES ASSUME IInv PROVE SealedExact
    OBVIOUS
  <2>1. ASSUME NEW c \in Captures, outcome[c] = "sealed"
        PROVE  disk[c] = accepted[c]
    <3>1. OutputState(c)
      BY DEF IInv, OutputsInv
    <3>2. ~broken[c] /\ c # activeFile
      BY <2>1, <3>1 DEF OutputState
    <3> QED
      BY <3>1, <3>2, StoredIsWhole DEF OutputState
  <2>2. ASSUME lastCompleted.file # Null
        PROVE  lastCompleted.frames = FrameCount(disk[lastCompleted.file])
    <3>1. lastCompleted.file \in Captures
      BY <2>2, TypeParts DEF IInv, FieldsOK, CaptureOrNull
    <3> QED
      BY <2>1, <2>2, <3>1 DEF IInv, CountsInv
  <2> QED
    BY <2>1, <2>2 DEF SealedExact
<1> QED
  BY <1>1, Invariance, PTL

(* Nothing of a capture outlives it: an idle session has no timer, flush,  *)
(* append or buffered line left.                                           *)
THEOREM IdleQuiescence == Spec => []IdleIsQuiescent
<1>1. IInv => IdleIsQuiescent
  <2> SUFFICES ASSUME IInv, phase = "idle" PROVE IdleIsQuiescent
    BY DEF IdleIsQuiescent
  <2>1. IdleFields
    BY Zenon DEF IInv, ControlInv, IdleFields
  <2>2. ASSUME NEW c \in 1 .. opened
        PROVE  writes[c] = <<>> /\ buffer[c] = <<>> /\ outcome[c] # "none"
    <3>1. c \in Captures /\ ~(c > opened) /\ c # Null
      <4>1. opened \in 0 .. MaxCaptures /\ MaxCaptures \in Nat
        BY TypeParts, BoundsAssumption DEF IInv, OutputsOK
      <4> QED
        BY <4>1 DEF Captures, Null
    <3>2. OutputState(c) /\ c # activeFile
      BY <2>1, <3>1 DEF IInv, OutputsInv, IdleFields
    <3> QED
      BY <3>1, <3>2 DEF OutputState
  <2> QED
    BY <2>1, <2>2 DEF IdleIsQuiescent, IdleFields
<1> QED
  BY <1>1, Invariance, PTL

(* A write error on display is one of the latest capture.                  *)
THEOREM ErrorOwnership == Spec => []ErrorIsOwn
<1>1. IInv => ErrorIsOwn
  BY DEF IInv, ErrorInv
<1> QED
  BY <1>1, Invariance, PTL

-----------------------------------------------------------------------------
(* Refinement of EvidenceLog.                                              *)

Stage(c) ==
    IF c > opened THEN "new"
    ELSE IF c = activeFile
         THEN IF phase = "recording" THEN "open" ELSE "closing"
         ELSE outcome[c]

StatusIsStage ==
    \A c \in Captures :
        /\ Status(c) = Stage(c)
        /\ c = activeFile => ~(c > opened) /\ c = opened
        /\ c # activeFile => Status(c) \in {"new", "sealed", "failed"}

LEMMA StatusNow == ASSUME IInv PROVE StatusIsStage
<1>1. OutputsOK /\ OutputsInv /\ activeFile \in {Null, opened}
  BY TypeParts DEF IInv, ControlInv
<1> SUFFICES ASSUME NEW c \in Captures
             PROVE  /\ Status(c) = Stage(c)
                    /\ c = activeFile => ~(c > opened) /\ c = opened
                    /\ c # activeFile => Status(c) \in {"new", "sealed", "failed"}
  BY DEF StatusIsStage
<1>2. OutputState(c) /\ outcome[c] \in {"none", "sealed", "failed"}
  BY <1>1 DEF OutputsInv, OutputsOK
<1>3. c = activeFile => c = opened /\ ~(c > opened)
  BY <1>1 DEF Captures, Null
<1> QED
  BY <1>2, <1>3 DEF OutputState, Status, Stage

LEMMA StatusNext == ASSUME IInv' PROVE StatusIsStage'
<1>1. OutputsOK' /\ OutputsInv' /\ activeFile' \in {Null, opened'}
  BY DEF IInv, ControlInv, TypeOK, OutputsOK
<1> SUFFICES ASSUME NEW c \in Captures
             PROVE  /\ Status(c)' = Stage(c)'
                    /\ c = activeFile' => ~(c > opened') /\ c = opened'
                    /\ c # activeFile' => Status(c)' \in {"new", "sealed", "failed"}
  BY DEF StatusIsStage
<1>2. OutputState(c)' /\ outcome'[c] \in {"none", "sealed", "failed"}
  BY <1>1 DEF OutputsInv, OutputsOK
<1>3. c = activeFile' => c = opened' /\ ~(c > opened')
  BY <1>1 DEF Captures, Null
<1> QED
  BY <1>2, <1>3 DEF OutputState, Status, Stage

LEMMA RefineInit == Init => Log!Init
  BY DEF Init, Log!Init, Status, Captures

(* A step that neither opens nor ends a capture and moves no line.         *)
LEMMA RefineStutter ==
    ASSUME IInv, IInv',
           UNCHANGED <<opened, activeFile, outcome, accepted, disk>>,
           activeFile # Null => (phase = "recording" <=> phase' = "recording")
    PROVE  UNCHANGED Log!vars
<1>1. \A c \in Captures : Status(c)' = Status(c)
  BY StatusNow, StatusNext DEF StatusIsStage, Stage, Captures, Null
<1> QED
  BY <1>1 DEF Log!vars

LEMMA RefineClose ==
    ASSUME IInv, IInv', phase = "recording", phase' = "stopping",
           UNCHANGED <<opened, activeFile, outcome, accepted, disk>>
    PROVE  \E c \in Captures : Log!Close(c)
<1>1. activeFile = opened /\ opened \in Captures
  BY RecordingOutput
<1>2. \A c \in Captures : c # opened => Status(c)' = Status(c)
  BY <1>1, StatusNow, StatusNext DEF StatusIsStage, Stage
<1>3. Status(opened) = "open" /\ Status(opened)' = "closing"
  <2>1. Status(opened) = Stage(opened) /\ ~(opened > opened)
    BY <1>1, StatusNow DEF StatusIsStage
  <2>2. \A c \in Captures : Status(c)' = Stage(c)'
    BY StatusNext DEF StatusIsStage
  <2>3. Status(opened)' = Stage(opened)'
    BY <1>1, <2>2
  <2> QED
    BY <1>1, <2>1, <2>3 DEF Stage
<1>4. Log!Close(opened)
  BY <1>1, <1>2, <1>3 DEF Log!Close
<1> QED
  BY <1>1, <1>4

LEMMA RefineBegin ==
    ASSUME IInv, IInv', CreateSucceeds
    PROVE  Log!Begin(opened + 1)
<1>1. /\ opened + 1 \in Captures /\ opened' = opened + 1
      /\ activeFile = Null /\ activeFile' = opened + 1
      /\ UNCHANGED <<outcome, accepted, disk>>
      /\ opened \in 0 .. MaxCaptures
      /\ phase' \in {"recording", "stopping"}
  BY StartStage, TypeParts DEF CreateSucceeds, CreateCaptureFile, IInv, OutputsOK
<1>2. \A c \in Captures : c # activeFile
  BY <1>1 DEF Captures, Null
<1>3. \A c \in Captures : Status(c) \in {"new", "sealed", "failed"}
  BY <1>2, StatusNow DEF StatusIsStage
<1>4. Status(opened + 1) = "new"
  BY <1>1, StatusNow DEF StatusIsStage, Stage
<1>5. \A c \in Captures : c # opened + 1 => Status(c)' = Status(c)
  BY <1>1, <1>2, StatusNow, StatusNext DEF StatusIsStage, Stage, Captures
<1>6. \A c \in Captures :
         c = opened + 1 => Status(c)' \in {"open", "closing"}
  BY <1>1, StatusNext DEF StatusIsStage, Stage
<1>7. [c \in Captures |-> Status(c)]' =
         [[c \in Captures |-> Status(c)] EXCEPT
            ![opened + 1] = [c \in Captures |-> Status(c)]'[opened + 1]]
  BY <1>1, <1>5
<1>8. [c \in Captures |-> Status(c)]'[opened + 1] \in {"open", "closing"}
  BY <1>1, <1>6
<1> QED
  BY <1>1, <1>3, <1>4, <1>7, <1>8 DEF Log!Begin, Log!Settled

LEMMA RefineAccept ==
    ASSUME IInv, IInv', NEW line \in Lines, Write(line)
    PROVE  Log!Accept(output, line)
<1>1. /\ output = opened /\ activeFile = opened /\ opened \in Captures
      /\ UNCHANGED <<phase, opened, activeFile, outcome, disk>>
      /\ accepted' = [accepted EXCEPT ![output] = Append(@, line)]
      /\ phase = "recording"
  BY RecordingOutput DEF Write
<1>2. \A c \in Captures : Status(c)' = Status(c)
  BY <1>1, StatusNow, StatusNext DEF StatusIsStage, Stage
<1>3. Status(output) = "open"
  BY <1>1, StatusNow DEF StatusIsStage, Stage
<1> QED
  BY <1>1, <1>2, <1>3 DEF Log!Accept

(* Any append, complete or not, extends the stored prefix.                 *)
LEMMA RefineStore ==
    ASSUME IInv, IInv', NEW c \in Captures, NEW n \in 0 .. Len(writes[c]),
           writes[c] # <<>>,
           disk' = [disk EXCEPT ![c] = @ \o SubSeq(writes[c], 1, n)],
           UNCHANGED <<phase, opened, activeFile, outcome, accepted, buffer>>
    PROVE  Log!Store(c)
<1>1. c = activeFile /\ ~broken[c]
  BY OnlyActiveWrites
<1>2. /\ disk[c] \in Seq(Lines) /\ writes[c] \in Seq(Lines)
      /\ buffer[c] \in Seq(Lines) /\ accepted[c] \in Seq(Lines)
  BY TypeParts DEF IInv, OutputsOK
<1>3. accepted[c] = (disk[c] \o writes[c]) \o buffer[c]
  BY <1>1 DEF IInv, LinesInv, LinesPlaced
<1> DEFINE more == disk[c] \o SubSeq(writes[c], 1, n)
<1>4. more \in Seq(Lines) /\ IsPrefix(more, accepted[c])
  BY <1>2, <1>3, PartialAppendIsPrefix
<1>5. Len(disk[c]) <= Len(more)
  <2> DEFINE part == SubSeq(writes[c], 1, n)
  <2>1. part \in Seq(Lines) /\ more = disk[c] \o part
    BY <1>2, SubSeqProperties, ElementOfSeq, LenProperties
  <2> HIDE DEF part, more
  <2>2. /\ Len(more) = Len(disk[c]) + Len(part)
        /\ Len(disk[c]) \in Nat /\ Len(part) \in Nat
    BY <1>2, <2>1, ConcatProperties, LenProperties
  <2> QED
    BY <2>2
<1>6. disk' = [disk EXCEPT ![c] = more]
  OBVIOUS
<1> HIDE DEF more
<1>7. /\ Len(more) \in Len(disk[c]) .. Len(accepted[c])
      /\ more = SubSeq(accepted[c], 1, Len(more))
  BY <1>2, <1>4, <1>5, PrefixIsSubSeq, LenProperties
<1>8. \A d \in Captures : Status(d)' = Status(d)
  BY StatusNow, StatusNext DEF StatusIsStage, Stage
<1>9. Status(c) \in {"open", "closing"}
  BY <1>1, StatusNow DEF StatusIsStage, Stage
<1>10. \E k \in Len(disk[c]) .. Len(accepted[c]) :
          disk' = [disk EXCEPT ![c] = SubSeq(accepted[c], 1, k)]
  BY <1>6, <1>7
<1> QED
  BY <1>8, <1>9, <1>10 DEF Log!Store

(* The end of stop() with a file settles that file.                        *)
LEMMA RefineSettle ==
    ASSUME IInv, IInv', stopping = "awaitFinish", closing # Null,
           activeFile' = Null, UNCHANGED <<opened, accepted, disk>>,
           NEW s \in {"sealed", "failed"},
           outcome' = [outcome EXCEPT ![closing] = s]
    PROVE  /\ closing \in Captures /\ Status(closing) = "closing"
           /\ [c \in Captures |-> Status(c)]' =
                 [[c \in Captures |-> Status(c)] EXCEPT ![closing] = s]
<1>1. /\ phase = "stopping" /\ closing = activeFile /\ closing = opened
      /\ closing \in Captures
  BY FinishStage
<1>2. Status(closing) = "closing"
  BY <1>1, StatusNow DEF StatusIsStage, Stage
<1>3. outcome \in [Captures -> {"none", "sealed", "failed"}]
  BY TypeParts DEF IInv, OutputsOK
<1>4. \A c \in Captures : Status(c)' = IF c = closing THEN s ELSE Status(c)
  <2> SUFFICES ASSUME NEW c \in Captures
               PROVE  Status(c)' = IF c = closing THEN s ELSE Status(c)
    OBVIOUS
  <2>1. Status(c) = Stage(c) /\ Status(c)' = Stage(c)'
        /\ (c = activeFile => ~(c > opened))
    BY StatusNow, StatusNext DEF StatusIsStage
  <2>2. c # activeFile'
    BY DEF Captures, Null
  <2> QED
    BY <1>1, <1>3, <2>1, <2>2 DEF Stage
<1> QED
  BY <1>1, <1>2, <1>4

LEMMA RefineStep ==
    ASSUME IInv, IInv', [Next]_vars
    PROVE  [Log!Next]_(Log!vars)
<1> SUFFICES Log!Next \/ UNCHANGED Log!vars
  OBVIOUS
<1> USE DEF Null
<1>1. CASE Start
  <2>1. activeFile = Null
    BY <1>1, Zenon DEF Start, IInv, ControlInv, IdleFields
  <2> QED
    BY <1>1, <2>1, RefineStutter DEF Start
<1>2. CASE CreateSucceeds
  <2>1. Log!Begin(opened + 1)
    BY <1>2, RefineBegin
  <2>2. opened + 1 \in Captures
    BY <1>2, StartStage DEF CreateSucceeds, CreateCaptureFile
  <2> QED
    BY <2>1, <2>2, Zenon DEF Log!Next
<1>3. CASE CreateFails
  BY <1>3, RefineStutter, StartStage DEF CreateFails
<1>4. ASSUME NEW line \in Lines, Write(line) PROVE Log!Next
  <2>1. output \in Captures
    BY <1>4, RecordingOutput DEF Write
  <2> QED
    BY <1>4, <2>1, RefineAccept DEF Log!Next
<1>5. CASE Stop
  <2>1. /\ phase' = "stopping"
        /\ UNCHANGED <<opened, activeFile, outcome, accepted, disk>>
    BY <1>5 DEF Stop, RequestStop
  <2>2. CASE phase = "recording"
    BY <2>1, <2>2, RefineClose DEF Log!Next
  <2>3. CASE phase # "recording"
    BY <2>1, <2>3, RefineStutter
  <2> QED
    BY <2>2, <2>3
<1>6. CASE TimerTick
  BY <1>6, RefineStutter DEF TimerTick
<1>7. CASE FlushLinkRuns
  BY <1>7, RefineStutter DEF FlushLinkRuns, Flush
<1>8. CASE FlushLinkDone
  BY <1>8, RefineStutter DEF FlushLinkDone
<1>9. CASE FlushLinkThrows
  <2>1. UNCHANGED <<opened, activeFile, outcome, accepted, disk>>
    BY <1>9 DEF FlushLinkThrows, OnOutputError, RequestStop
  <2>2. CASE phase = "recording" /\ phase' = "stopping"
    BY <2>1, <2>2, RefineClose DEF Log!Next
  <2>3. CASE ~(phase = "recording" /\ phase' = "stopping")
    <3>1. phase = "recording" <=> phase' = "recording"
      <4>1. phase' \in {phase, "stopping"}
        BY <1>9 DEF FlushLinkThrows, OnOutputError, RequestStop
      <4> QED
        BY <2>3, <4>1
    <3> QED
      BY <2>1, <3>1, RefineStutter
  <2> QED
    BY <2>2, <2>3
<1>10. ASSUME NEW c \in Captures, WriteSucceeds(c) PROVE Log!Next
  <2>1. writes[c] \in Seq(Lines) /\ Len(writes[c]) \in 0 .. Len(writes[c])
    BY TypeParts, LenProperties DEF IInv, OutputsOK
  <2>2. SubSeq(writes[c], 1, Len(writes[c])) = writes[c]
    BY <2>1, SubSeqFull
  <2>3. /\ writes[c] # <<>>
        /\ disk' = [disk EXCEPT ![c] = @ \o SubSeq(writes[c], 1, Len(writes[c]))]
        /\ UNCHANGED <<phase, opened, activeFile, outcome, accepted, buffer>>
    BY <1>10, <2>2 DEF WriteSucceeds
  <2>4. Log!Store(c)
    BY <2>1, <2>3, RefineStore
  <2> QED
    BY <2>4 DEF Log!Next
<1>11. ASSUME NEW c \in Captures, WriteFails(c) PROVE Log!Next
  <2>1. PICK n \in 0 .. Len(writes[c]) :
              disk' = [disk EXCEPT ![c] = @ \o SubSeq(writes[c], 1, n)]
    BY <1>11 DEF WriteFails
  <2>2. /\ writes[c] # <<>>
        /\ UNCHANGED <<phase, opened, activeFile, outcome, accepted, buffer>>
    BY <1>11 DEF WriteFails
  <2>3. Log!Store(c)
    BY <2>1, <2>2, RefineStore
  <2> QED
    BY <2>3 DEF Log!Next
<1>12. CASE StopAfterStart
  BY <1>12, RefineStutter DEF StopAfterStart
<1>13. CASE StopAfterFlushTask
  BY <1>13, RefineStutter DEF StopAfterFlushTask, Flush
<1>14. CASE StopSucceeds
  <2>1. /\ stopping = "awaitFinish" /\ activeFile' = Null
        /\ UNCHANGED <<opened, accepted, disk>>
    BY <1>14 DEF StopSucceeds, Reset
  <2>2. CASE closing = Null
    BY <1>14, <2>1, <2>2, FinishStage, RefineStutter DEF StopSucceeds
  <2>3. CASE closing # Null
    <3>1. /\ outcome' = [outcome EXCEPT ![closing] = "sealed"]
          /\ ~broken[closing] /\ writes[closing] = <<>>
      BY <1>14, <2>3 DEF StopSucceeds
    <3>2. buffer[closing] = <<>> /\ closing \in Captures
      BY <2>1, <2>3, FinishStage DEF AwaitFinishFields
    <3>3. disk[closing] = accepted[closing]
      BY <3>1, <3>2, StoredIsWhole
    <3>4. Log!Seal(closing)
      BY <2>1, <2>3, <3>1, <3>3, RefineSettle DEF Log!Seal
    <3> QED
      BY <3>2, <3>4 DEF Log!Next
  <2> QED
    BY <2>2, <2>3
<1>15. CASE StopThrows
  <2>1. /\ stopping = "awaitFinish" /\ activeFile' = Null /\ closing # Null
        /\ UNCHANGED <<opened, accepted, disk>>
        /\ outcome' = [outcome EXCEPT ![closing] = "failed"]
    BY <1>15 DEF StopThrows, Reset
  <2>2. Log!Fail(closing) /\ closing \in Captures
    BY <2>1, RefineSettle DEF Log!Fail
  <2> QED
    BY <2>2 DEF Log!Next
<1>16. CASE ClockTick
  BY <1>16, RefineStutter DEF ClockTick
<1>17. CASE UNCHANGED vars
  BY <1>17, RefineStutter
<1> QED
  BY <1>1, <1>2, <1>3, <1>4, <1>5, <1>6, <1>7, <1>8, <1>9, <1>10, <1>11,
     <1>12, <1>13, <1>14, <1>15, <1>16, <1>17
  DEF Next, FlushChain, Disk, StopBody

(* The session behaves as the evidence log: captures one at a time, each   *)
(* sealed only when complete and untouched afterwards.                     *)
THEOREM Implementation == Spec => ImplementsEvidenceLog
<1>1. IInv /\ IInv' /\ [Next]_vars => [Log!Next]_(Log!vars)
  BY RefineStep
<1> QED
  BY <1>1, RefineInit, Invariance, PTL DEF Spec, ImplementsEvidenceLog, Log!Spec

-----------------------------------------------------------------------------
(* The session implements the lifecycle, fairness apart.                   *)

USE DEF Lifecycle!Next, Lifecycle!vars

LEMMA LifecycleStep ==
    ASSUME IInv, [Next]_vars PROVE [Lifecycle!Next]_(Lifecycle!vars)
<1> USE DEF IInv, ControlInv, IdleFields, StartingFields, RecordingFields, StoppingFields
<1>1. CASE Start
  BY <1>1 DEF Start, Lifecycle!Begin
<1>2. CASE CreateSucceeds
  BY <1>2 DEF CreateSucceeds, Lifecycle!FileOpened
<1>3. CASE CreateFails
  BY <1>3 DEF CreateFails, Lifecycle!FileFails
<1>4. ASSUME NEW line \in Lines, Write(line)
      PROVE  UNCHANGED <<phase, starting, opened>>
  BY <1>4 DEF Write
<1>5. CASE Stop
  BY <1>5 DEF Stop, RequestStop, Lifecycle!RequestStop, Lifecycle!Open
<1>6. CASE TimerTick \/ FlushLinkRuns \/ FlushLinkDone
  BY <1>6 DEF TimerTick, FlushLinkRuns, FlushLinkDone
<1>7. CASE FlushLinkThrows
  BY <1>7 DEF FlushLinkThrows, OnOutputError, RequestStop,
              Lifecycle!RequestStop, Lifecycle!Open
<1>8. ASSUME NEW c \in Captures, WriteSucceeds(c) \/ WriteFails(c)
      PROVE  UNCHANGED <<phase, starting, opened>>
  BY <1>8 DEF WriteSucceeds, WriteFails
<1>9. CASE StopAfterStart \/ StopAfterFlushTask
  BY <1>9 DEF StopAfterStart, StopAfterFlushTask
<1>10. CASE StopSucceeds \/ StopThrows
  <2>1. /\ stopping = "awaitFinish" /\ phase' = "idle" /\ starting' = FALSE
        /\ UNCHANGED opened
    BY <1>10 DEF StopSucceeds, StopThrows, Reset
  <2>2. phase = "stopping" /\ ~starting
    BY <2>1, FinishStage DEF AwaitFinishFields
  <2>3. starting = FALSE
    BY <2>2, TypeParts, Zenon DEF FlagsOK, IInv
  <2> QED
    BY <2>1, <2>2, <2>3 DEF Lifecycle!Closed
<1>11. CASE ClockTick
  BY <1>11 DEF ClockTick
<1>12. CASE UNCHANGED vars
  BY <1>12
<1> QED
  BY <1>1, <1>2, <1>3, <1>4, <1>5, <1>6, <1>7, <1>8, <1>9, <1>10, <1>11, <1>12
  DEF Next, FlushChain, Disk, StopBody

(* Listeners see only the lifecycle's steps: no phase is skipped or taken  *)
(* back, and a file that appears after a stop does not reopen the capture. *)
THEOREM LifecycleSafety ==
    Spec => Lifecycle!Init /\ [][Lifecycle!Next]_(Lifecycle!vars)
<1>1. Init => Lifecycle!Init
  BY DEF Init, Lifecycle!Init
<1>2. IInv /\ [Next]_vars => [Lifecycle!Next]_(Lifecycle!vars)
  BY LifecycleStep
<1> QED
  BY <1>1, <1>2, Invariance, PTL DEF Spec
=============================================================================
