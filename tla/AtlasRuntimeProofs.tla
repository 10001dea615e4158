------------------------- MODULE AtlasRuntimeProofs -------------------------
(***************************************************************************)
(* Proofs about AtlasRuntime: first its capture and what observes it, for  *)
(* any number of captures, lines and slots, then its slots, for any number *)
(* of calls and faults and for any adapters that can be connected.         *)
(***************************************************************************)
EXTENDS AtlasRuntime, FiniteSetTheorems, TLAPS

(* The capture, its discovery and the validation.                          *)
Kinds == D!Frames \cup D!Markers

(* While the file is being created the discovery is new, or over already;  *)
(* nothing has been computed for a capture that records.                   *)
ControlInv ==
    /\ phase = "starting" => /\ pending
                             /\ discovery = "baseline" /\ counts = D!Nothing
    /\ pending => /\ phase \in {"starting", "stopping"} /\ opened < MaxCaptures
                  /\ discovery \in {"baseline", "complete"}
                  /\ result = D!None
    /\ D!isRecording => result = D!None

(* The counts follow the file until they have become the result; the last  *)
(* window keeps them when a write error has ended the capture.             *)
WindowsInv ==
    /\ D!Marked("event end", Len(lines)) => D!Marked("event start", Len(lines))
    /\ D!isRecording => discovery = D!WindowAt(Len(lines))
    /\ D!isRecording \/ discovery = "after" => counts = D!Recorded
    /\ result # D!None => result = D!Recorded

CaptureInv == D!TypeOK /\ ControlInv /\ WindowsInv /\ D!SamplesAreRecorded

-----------------------------------------------------------------------------
(* The cardinality of the instance is that of the theorems.                *)
LEMMA SameCardinality == \A S : D!Cardinality(S) = Cardinality(S)
  BY DEF D!Cardinality, Cardinality

LEMMA AppendedIsSeq ==
    ASSUME NEW S, NEW s \in Seq(S), NEW x \in S PROVE Append(s, x) \in Seq(S)
  OBVIOUS

(* A line that is appended leaves the windows of the others as they are.   *)
LEMMA WindowsKept ==
    ASSUME lines \in Seq(Kinds), NEW x \in Kinds, lines' = Append(lines, x)
    PROVE  /\ \A m : \A k \in 0 .. Len(lines) : D!Marked(m, k)' <=> D!Marked(m, k)
           /\ \A k \in 0 .. Len(lines) : D!WindowAt(k)' = D!WindowAt(k)
           /\ \A m : D!Marked(m, Len(lines))' <=> (D!Marked(m, Len(lines)) \/ m = x)
<1>1. Len(lines') = Len(lines) + 1 /\ Len(lines) \in Nat
  OBVIOUS
<1>2. \A i \in 1 .. Len(lines) : lines'[i] = lines[i]
  OBVIOUS
<1>3. lines'[Len(lines) + 1] = x
  OBVIOUS
<1>4. ASSUME NEW m, NEW k \in 0 .. Len(lines) PROVE D!Marked(m, k)' <=> D!Marked(m, k)
  BY <1>1, <1>2 DEF D!Marked
<1>5. ASSUME NEW m
      PROVE  D!Marked(m, Len(lines))' <=> (D!Marked(m, Len(lines)) \/ m = x)
  BY <1>1, <1>2, <1>3 DEF D!Marked
<1>q. QED BY <1>4, <1>5 DEF D!WindowAt

(* ... and adds a frame to the window it is in.                            *)
LEMMA FramesAppended ==
    ASSUME lines \in Seq(Kinds), NEW x \in Kinds, lines' = Append(lines, x),
           NEW w
    PROVE  D!FramesIn(w)' = IF x = "data" /\ w = D!WindowAt(Len(lines))'
                            THEN D!FramesIn(w) \cup {Len(lines) + 1}
                            ELSE D!FramesIn(w)
<1>1. Len(lines') = Len(lines) + 1 /\ Len(lines) \in Nat
  OBVIOUS
<1>2. \A k \in 1 .. Len(lines) : lines'[k] = lines[k]
  OBVIOUS
<1>3. lines'[Len(lines) + 1] = x
  OBVIOUS
<1>4. \A k \in 1 .. Len(lines) : D!WindowAt(k)' = D!WindowAt(k)
  BY WindowsKept
<1>5. DOMAIN lines = 1 .. Len(lines) /\ DOMAIN (lines') = 1 .. Len(lines) + 1
  BY <1>1
<1>6. ASSUME NEW k
      PROVE  k \in D!FramesIn(w)' <=>
                \/ k \in D!FramesIn(w)
                \/ x = "data" /\ w = D!WindowAt(Len(lines))' /\ k = Len(lines) + 1
  <2>1. CASE k = Len(lines) + 1
    BY <2>1, <1>1, <1>3, <1>5 DEF D!FramesIn
  <2>2. CASE k \in 1 .. Len(lines)
    BY <2>2, <1>1, <1>2, <1>4, <1>5 DEF D!FramesIn
  <2>3. CASE k \notin 1 .. Len(lines) + 1
    BY <2>3, <1>1, <1>5 DEF D!FramesIn
  <2>q. QED BY <2>1, <2>2, <2>3, <1>1
<1>q. QED BY <1>6

LEMMA FramesFinite ==
    ASSUME lines \in Seq(Kinds), NEW w
    PROVE  /\ IsFiniteSet(D!FramesIn(w)) /\ Cardinality(D!FramesIn(w)) \in Nat
           /\ Len(lines) + 1 \notin D!FramesIn(w)
<1>1. IsFiniteSet(1 .. Len(lines))
  BY FS_Interval
<1>2. D!FramesIn(w) \subseteq 1 .. Len(lines)
  BY DEF D!FramesIn
<1>q. QED BY <1>1, <1>2, FS_Subset, FS_CardinalityType

LEMMA RecordedAppended ==
    ASSUME lines \in Seq(Kinds), NEW x \in Kinds, lines' = Append(lines, x)
    PROVE  D!Recorded' = IF x = "data"
                         THEN [D!Recorded EXCEPT ![D!WindowAt(Len(lines))'] = @ + 1]
                         ELSE D!Recorded
<1>1. ASSUME NEW w \in D!Windows
      PROVE  D!Cardinality(D!FramesIn(w)') =
                IF x = "data" /\ w = D!WindowAt(Len(lines))'
                THEN D!Cardinality(D!FramesIn(w)) + 1 ELSE D!Cardinality(D!FramesIn(w))
  <2>1. Cardinality(D!FramesIn(w) \cup {Len(lines) + 1}) = Cardinality(D!FramesIn(w)) + 1
    BY FramesFinite, FS_AddElement
  <2>q. QED BY <2>1, FramesAppended, SameCardinality
<1>2. D!Recorded' = [w \in D!Windows |-> D!Cardinality(D!FramesIn(w)')]
  BY DEF D!Recorded
<1>q. QED BY <1>1, <1>2 DEF D!Recorded

(* A line that is no marker of a validation is a sample, or it is not.     *)
LEMMA SamplesAppended ==
    ASSUME lines \in Seq(Kinds), NEW x \in Kinds \ {"validation"},
           lines' = Append(lines, x)
    PROVE  /\ D!Begun' = D!Begun
           /\ \A k \in 0 .. Len(lines) : D!SamplesUpTo(k)' = D!SamplesUpTo(k)
           /\ D!SamplesUpTo(Len(lines))' =
                 IF x \in {"data", "step"}
                 THEN D!SamplesUpTo(Len(lines)) \cup {Len(lines) + 1}
                 ELSE D!SamplesUpTo(Len(lines))
<1>1. Len(lines') = Len(lines) + 1 /\ Len(lines) \in Nat
  OBVIOUS
<1>2. \A k \in 1 .. Len(lines) : lines'[k] = lines[k]
  OBVIOUS
<1>3. lines'[Len(lines) + 1] = x
  OBVIOUS
<1>4. DOMAIN lines = 1 .. Len(lines) /\ DOMAIN (lines') = 1 .. Len(lines) + 1
  BY <1>1
<1>5. D!Begun' = D!Begun
  BY <1>1, <1>2, <1>3, <1>4 DEF D!Begun
<1>6. \A k \in 0 .. Len(lines) : D!SamplesUpTo(k)' = D!SamplesUpTo(k)
  BY <1>1, <1>2, <1>5 DEF D!SamplesUpTo
<1>7. \A b \in D!Begun : b < Len(lines) + 1
  BY <1>1 DEF D!Begun
<1>8. ASSUME NEW k
      PROVE  k \in D!SamplesUpTo(Len(lines))' <=>
                \/ k \in D!SamplesUpTo(Len(lines))
                \/ x \in {"data", "step"} /\ k = Len(lines) + 1
  <2>1. CASE k = Len(lines) + 1
    BY <2>1, <1>1, <1>3, <1>5, <1>7 DEF D!SamplesUpTo
  <2>2. CASE k # Len(lines) + 1
    BY <2>2, <1>1, <1>2, <1>5 DEF D!SamplesUpTo
  <2>q. QED BY <2>1, <2>2
<1>q. QED BY <1>5, <1>6, <1>8

LEMMA SamplesFinite ==
    ASSUME lines \in Seq(Kinds), NEW k \in 0 .. Len(lines)
    PROVE  /\ IsFiniteSet(D!SamplesUpTo(k)) /\ D!SamplesUpTo(k) \subseteq 1 .. k
           /\ D!Cardinality(D!SamplesUpTo(k)) \in 0 .. k
<1>1. IsFiniteSet(1 .. k) /\ Cardinality(1 .. k) = k
  BY FS_Interval
<1>2. D!SamplesUpTo(k) \subseteq 1 .. k
  BY DEF D!SamplesUpTo
<1>q. QED BY <1>1, <1>2, FS_Subset, FS_CardinalityType, SameCardinality

(* A sample that the file takes as well.                                   *)
LEMMA SampleTaken ==
    ASSUME lines \in Seq(Kinds), observed \in Seq({"data", "step"}),
           NEW x \in {"data", "step"},
           lines' = Append(lines, x), observed' = Append(observed, x),
           D!Begun # {}, D!isRecording, validating, D!SamplesAreRecorded
    PROVE  D!SamplesAreRecorded'
<1>n. PICK n \in Nat : n = Len(lines)
  OBVIOUS
<1>x. x \in Kinds \ {"validation"}
  BY DEF Kinds, D!Frames, D!Markers
<1>l. Len(lines') = n + 1 /\ lines'[n + 1] = x
  BY <1>n
<1>0. n = Len(lines) /\ x \in Kinds \ {"validation"} /\ Len(lines') = n + 1
  BY <1>n, <1>x, <1>l
<1>1. /\ Len(observed) = D!Cardinality(D!SamplesUpTo(n))
      /\ \A k \in D!SamplesUpTo(n) : observed[D!Cardinality(D!SamplesUpTo(k))] = lines[k]
  BY <1>0 DEF D!SamplesAreRecorded
<1>2. /\ \A k \in 0 .. n : D!SamplesUpTo(k)' = D!SamplesUpTo(k)
      /\ D!SamplesUpTo(Len(lines))' = D!SamplesUpTo(n) \cup {n + 1}
  BY <1>0, SamplesAppended
<1>3. D!SamplesUpTo(n + 1)' = D!SamplesUpTo(n) \cup {n + 1}
  BY <1>0, <1>2 DEF D!SamplesUpTo
<1>4. /\ n + 1 \notin D!SamplesUpTo(n) /\ D!SamplesUpTo(n) \subseteq 1 .. n
      /\ IsFiniteSet(D!SamplesUpTo(n))
  BY <1>0, SamplesFinite
<1>5. D!Cardinality(D!SamplesUpTo(n) \cup {n + 1}) = Len(observed) + 1
  BY <1>1, <1>4, FS_AddElement, SameCardinality
<1>6. Len(observed') = D!Cardinality(D!SamplesUpTo(Len(lines)))'
  BY <1>2, <1>5
<1>7. ASSUME NEW k \in D!SamplesUpTo(n)
      PROVE  observed'[D!Cardinality(D!SamplesUpTo(k)')] = lines'[k]
  <2>1. k \in 1 .. n /\ D!SamplesUpTo(k)' = D!SamplesUpTo(k)
    BY <1>2, <1>4
  <2>2. D!SamplesUpTo(k) \subseteq D!SamplesUpTo(n) /\ k \in D!SamplesUpTo(k)
    BY <1>0, <2>1, <1>7 DEF D!SamplesUpTo
  <2>3. D!Cardinality(D!SamplesUpTo(k)) \in 1 .. Len(observed)
    <3>1. Cardinality(D!SamplesUpTo(k)) <= Cardinality(D!SamplesUpTo(n))
      BY <1>4, <2>2, FS_Subset
    <3>2. IsFiniteSet(D!SamplesUpTo(k)) /\ D!Cardinality(D!SamplesUpTo(k)) \in 0 .. k
      BY <1>0, <2>1, SamplesFinite
    <3>3. Cardinality(D!SamplesUpTo(k)) # 0
      BY <2>2, <3>2, FS_EmptySet
    <3>q. QED BY <1>1, <3>1, <3>2, <3>3, SameCardinality
  <2>q. QED BY <1>1, <2>1, <2>3, <1>0
<1>8. observed'[D!Cardinality(D!SamplesUpTo(n + 1)')] = lines'[n + 1]
  <2>1. observed'[Len(observed) + 1] = x
    OBVIOUS
  <2>q. QED BY <1>l, <1>3, <1>5, <2>1
<1>9. \A k \in D!SamplesUpTo(Len(lines))' :
          observed'[D!Cardinality(D!SamplesUpTo(k)')] = lines'[k]
  BY <1>2, <1>7, <1>8
<1>q. QED BY <1>6, <1>9 DEF D!SamplesAreRecorded

(* A line that is no sample.                                               *)
LEMMA OtherTaken ==
    ASSUME lines \in Seq(Kinds), NEW x \in Kinds \ {"validation", "data", "step"},
           lines' = Append(lines, x), UNCHANGED <<observed, validating, phase>>,
           D!SamplesAreRecorded
    PROVE  D!SamplesAreRecorded'
<1>1. /\ D!Begun' = D!Begun /\ D!SamplesUpTo(Len(lines))' = D!SamplesUpTo(Len(lines))
      /\ \A k \in 0 .. Len(lines) : D!SamplesUpTo(k)' = D!SamplesUpTo(k)
  BY SamplesAppended
<1>2. D!SamplesUpTo(Len(lines)) \subseteq 1 .. Len(lines)
  BY SamplesFinite
<1>3. \A k \in 1 .. Len(lines) : lines'[k] = lines[k]
  OBVIOUS
<1>q. QED BY <1>1, <1>2, <1>3 DEF D!SamplesAreRecorded, D!isRecording

(* A validation begins with nothing.                                       *)
LEMMA ValidationTaken ==
    ASSUME lines \in Seq(Kinds), lines' = Append(lines, "validation"),
           observed' = <<>>
    PROVE  D!SamplesAreRecorded'
<1>1. Len(lines') = Len(lines) + 1 /\ Len(lines) \in Nat
  OBVIOUS
<1>2. Len(lines) + 1 \in D!Begun'
  BY <1>1 DEF D!Begun
<1>3. D!SamplesUpTo(Len(lines))' = {}
  BY <1>1, <1>2 DEF D!SamplesUpTo
<1>4. D!Cardinality({}) = 0
  BY FS_EmptySet, SameCardinality
<1>q. QED BY <1>3, <1>4 DEF D!SamplesAreRecorded

(* What the file shows depends on its lines alone; an empty one shows      *)
(* nothing.                                                                *)
LEMMA SameLines ==
    ASSUME lines' = lines
    PROVE  /\ D!Recorded' = D!Recorded
           /\ D!WindowAt(Len(lines))' = D!WindowAt(Len(lines))
           /\ \A m : D!Marked(m, Len(lines))' <=> D!Marked(m, Len(lines))
           /\ D!Begun' = D!Begun
           /\ \A k : D!SamplesUpTo(k)' = D!SamplesUpTo(k)
           /\ D!SamplesUpTo(Len(lines))' = D!SamplesUpTo(Len(lines))
  BY DEF D!Recorded, D!FramesIn, D!WindowAt, D!Marked, D!Begun, D!SamplesUpTo

LEMMA EmptyFile ==
    lines = <<>> =>
        /\ D!Recorded = D!Nothing /\ D!Begun = {}
        /\ D!WindowAt(Len(lines)) = "baseline"
        /\ \A m : ~D!Marked(m, Len(lines))
<1> SUFFICES ASSUME lines = <<>>
             PROVE  /\ D!Recorded = D!Nothing /\ D!Begun = {}
                    /\ D!WindowAt(Len(lines)) = "baseline"
                    /\ \A m : ~D!Marked(m, Len(lines))
  OBVIOUS
<1>1. Len(lines) = 0 /\ DOMAIN lines = {} /\ 1 .. Len(lines) = {}
  OBVIOUS
<1>2. \A w : D!FramesIn(w) = {}
  BY <1>1 DEF D!FramesIn
<1>3. D!Cardinality({}) = 0
  BY FS_EmptySet, SameCardinality
<1>4. D!Recorded = D!Nothing
  BY <1>2, <1>3 DEF D!Recorded, D!Nothing
<1>5. \A m : ~D!Marked(m, Len(lines))
  BY <1>1 DEF D!Marked
<1>q. QED BY <1>1, <1>4, <1>5 DEF D!Begun, D!WindowAt

LEMMA EmptyFileNext ==
    lines' = <<>> =>
        /\ D!Recorded' = D!Nothing /\ D!Begun' = {}
        /\ D!WindowAt(Len(lines))' = "baseline"
        /\ \A m : ~D!Marked(m, Len(lines))'
<1>1. (lines = <<>> =>
        /\ D!Recorded = D!Nothing /\ D!Begun = {}
        /\ D!WindowAt(Len(lines)) = "baseline"
        /\ \A m : ~D!Marked(m, Len(lines)))'
  BY EmptyFile, PTL
<1>q. QED BY <1>1 DEF D!Nothing

-----------------------------------------------------------------------------
LEMMA CaptureInit ==
    ASSUME D!Init PROVE CaptureInv
<1>1. lines = <<>> /\ observed = <<>> /\ phase = "idle" /\ pending = FALSE
  BY DEF D!Init, D!Capture!Init
<1>2. D!TypeOK
  <2>1. lines \in Seq(D!Frames \cup D!Markers) /\ observed \in Seq({"data", "step"})
    BY <1>1
  <2>2. opened \in 0 .. MaxCaptures
    BY BoundsAssumption DEF D!Init, D!Capture!Init
  <2>q. QED BY <1>1, <2>1, <2>2 DEF D!Init, D!TypeOK, D!Nothing
<1>3. ControlInv /\ WindowsInv
  BY <1>1, EmptyFile DEF D!Init, ControlInv, WindowsInv, D!isRecording
<1>4. D!SamplesAreRecorded
  BY <1>1 DEF D!SamplesAreRecorded, D!isRecording
<1>q. QED BY <1>2, <1>3, <1>4 DEF CaptureInv

LEMMA CaptureStutters ==
    ASSUME CaptureInv, UNCHANGED captureVars PROVE CaptureInv'
<1>1. D!TypeOK'
  BY DEF CaptureInv, captureVars, D!TypeOK
<1>2. ControlInv' /\ WindowsInv'
  BY SameLines DEF CaptureInv, captureVars, ControlInv, WindowsInv, D!isRecording
<1>3. D!SamplesAreRecorded'
  BY SameLines DEF CaptureInv, captureVars, D!SamplesAreRecorded, D!isRecording
<1>q. QED BY <1>1, <1>2, <1>3 DEF CaptureInv

(* A new capture; the lines of the last one are still there.               *)
LEMMA StartCaptureKeeps ==
    ASSUME CaptureInv, NEW who \in D!Callers, D!StartCapture(who)
    PROVE  CaptureInv'
<1>1. lines' = lines /\ result' = D!None /\ counts' = D!Nothing
      /\ discovery' \in {"baseline", "complete"}
      /\ UNCHANGED <<validating, observed, reporting>>
  BY DEF D!StartCapture, D!validationVars
<1>2. D!TypeOK'
  BY DEF D!StartCapture, D!Capture!Begin, D!captureVars, D!validationVars,
         D!TypeOK, D!Nothing, D!Windows, CaptureInv
<1>3. ControlInv' /\ ~D!isRecording'
  BY DEF CaptureInv, ControlInv, D!StartCapture, D!Capture!Begin, D!captureVars,
         D!isRecording, D!TypeOK
<1>4. WindowsInv'
  BY <1>1, <1>3, SameLines DEF CaptureInv, WindowsInv
<1>5. D!SamplesAreRecorded'
  BY <1>3 DEF D!SamplesAreRecorded
<1>q. QED BY <1>2, <1>3, <1>4, <1>5 DEF CaptureInv

(* A capture whose file is made has its number, and may begin with the     *)
(* marker of a validation.                                                 *)
LEMMA FileTypes ==
    ASSUME CaptureInv, pending
    PROVE  /\ opened + 1 \in 0 .. MaxCaptures
           /\ <<>> \in Seq(D!Frames \cup D!Markers)
           /\ <<"validation">> \in Seq(D!Frames \cup D!Markers)
<1>1. opened < MaxCaptures /\ opened \in 0 .. MaxCaptures
  BY DEF CaptureInv, ControlInv, D!TypeOK
<1>2. "validation" \in D!Frames \cup D!Markers
  BY DEF D!Markers
<1>q. QED BY <1>1, <1>2, BoundsAssumption

(* The file is there, or it cannot be made.                                *)
LEMMA FileOpenedKeeps ==
    ASSUME CaptureInv, D!FileOpened PROVE CaptureInv'
<1> USE DEF CaptureInv
<1>0. pending
  BY DEF D!FileOpened
<1>1. CASE phase = "starting" /\ "fleetcarma" \notin awaiting
  <2>1. /\ lines' = <<>> /\ phase' = "recording" /\ pending' = FALSE /\ opened' = opened + 1
        /\ awaiting' = {}
        /\ UNCHANGED <<discovery, counts, result, validating, observed, reporting>>
    BY <1>1 DEF D!FileOpened, D!Capture!FileOpened, D!discoveryVars, D!validationVars
  <2>2. D!TypeOK'
    BY <2>1, <1>0, FileTypes DEF D!TypeOK
  <2>3. ControlInv' /\ WindowsInv'
    BY <1>1, <2>1, EmptyFileNext DEF ControlInv, WindowsInv, D!isRecording
  <2>4. D!SamplesAreRecorded'
    BY <2>1, EmptyFileNext DEF D!SamplesAreRecorded
  <2>q. QED BY <2>2, <2>3, <2>4
<1>2. CASE phase = "starting" /\ "fleetcarma" \in awaiting
  <2>1. /\ pending' = FALSE /\ opened' = opened + 1 /\ awaiting' = {}
        /\ \/ phase' = "recording" /\ lines' = <<"validation">>
           \/ phase' = "stopping" /\ lines' = <<>>
        /\ validating' = TRUE /\ observed' = <<>>
        /\ UNCHANGED <<discovery, counts, result, reporting>>
    BY <1>2 DEF D!FileOpened, D!Capture!FileOpened, D!discoveryVars, D!StartValidation
  <2>2. D!TypeOK'
    <3>0. lines' \in Seq(D!Frames \cup D!Markers)
      <4>1. lines' = <<"validation">> \/ lines' = <<>>
        BY <2>1
      <4>q. QED BY <4>1, <1>0, FileTypes
    <3>1. observed' \in Seq({"data", "step"})
      BY <2>1
    <3>2. phase' \in {"idle", "starting", "recording", "stopping"}
      BY <2>1
    <3>q. QED BY <2>1, <3>0, <3>1, <3>2, <1>0, FileTypes DEF D!TypeOK
  <2>3. discovery = "baseline" /\ counts = D!Nothing /\ result = D!None
    BY <1>2 DEF ControlInv
  <2>4. CASE phase' = "stopping"
    <3>1. lines' = <<>>
      BY <2>1, <2>4
    <3>q. QED BY <2>1, <2>2, <2>3, <2>4, <3>1, EmptyFileNext
              DEF ControlInv, WindowsInv, D!isRecording, D!SamplesAreRecorded
  <2>5. CASE phase' = "recording"
    <3>1. lines' = <<"validation">> /\ Len(lines') = 1 /\ DOMAIN (lines') = {1}
          /\ lines'[1] = "validation"
      BY <2>1, <2>5
    <3>2. \A w : D!FramesIn(w)' = {}
      BY <3>1 DEF D!FramesIn
    <3>3. D!Cardinality({}) = 0
      BY FS_EmptySet, SameCardinality
    <3>4. D!Recorded' = D!Nothing
      BY <3>2, <3>3 DEF D!Recorded, D!Nothing
    <3>5. ~D!Marked("event start", Len(lines))' /\ ~D!Marked("event end", Len(lines))'
      <4>1. \A i \in 1 .. Len(lines') : lines'[i] = "validation"
        BY <3>1
      <4>q. QED BY <4>1 DEF D!Marked
    <3>6. ControlInv' /\ WindowsInv'
      BY <2>1, <2>3, <2>5, <3>4, <3>5 DEF ControlInv, WindowsInv, D!isRecording, D!WindowAt
    <3>7. D!SamplesUpTo(Len(lines))' = {}
      BY <3>1 DEF D!SamplesUpTo
    <3>8. D!SamplesAreRecorded'
      BY <2>1, <3>3, <3>7 DEF D!SamplesAreRecorded
    <3>q. QED BY <2>2, <3>6, <3>8
  <2>q. QED BY <2>1, <2>2, <2>4, <2>5
<1>3. CASE phase # "starting"
  <2>1. /\ lines' = <<>> /\ phase' = phase /\ pending' = FALSE /\ opened' = opened + 1
        /\ awaiting' = {} /\ discovery' = "complete" /\ counts' = counts
        /\ result' = IF discovery = "after" THEN counts ELSE D!None
        /\ UNCHANGED <<validating, observed, reporting>> /\ pending
    BY <1>3 DEF D!FileOpened, D!Capture!FileOpened, D!validationVars, D!Finish
  <2>2. D!TypeOK'
    BY <2>1, <1>0, FileTypes DEF D!TypeOK
  <2>3. phase' = "stopping" /\ result' = D!None
    BY <1>3, <2>1 DEF ControlInv
  <2>4. ControlInv' /\ WindowsInv' /\ D!SamplesAreRecorded'
    BY <2>1, <2>3, EmptyFileNext DEF ControlInv, WindowsInv, D!isRecording, D!SamplesAreRecorded
  <2>q. QED BY <2>2, <2>4
<1>q. QED BY <1>1, <1>2, <1>3

LEMMA FileFailsKeeps ==
    ASSUME CaptureInv, D!FileFails PROVE CaptureInv'
<1> USE DEF CaptureInv
<1>1. /\ lines' = lines /\ pending /\ pending' = FALSE /\ opened' = opened
      /\ phase' = IF phase = "starting" THEN "idle" ELSE phase
      /\ awaiting' = {} /\ discovery' = "complete" /\ counts' = counts
      /\ result' = IF discovery = "after" THEN counts ELSE D!None
      /\ UNCHANGED <<validating, observed, reporting>>
  BY DEF D!FileFails, D!Capture!FileFails, D!validationVars, D!Finish
<1>2. D!TypeOK'
  BY <1>1 DEF D!TypeOK, D!FileFails, D!Capture!FileFails
<1>3. phase' \in {"idle", "stopping"} /\ result' = D!None
  BY <1>1 DEF ControlInv
<1>4. ControlInv' /\ WindowsInv' /\ D!SamplesAreRecorded'
  BY <1>1, <1>3, SameLines DEF ControlInv, WindowsInv, D!isRecording, D!SamplesAreRecorded
<1>q. QED BY <1>2, <1>4

LEMMA StopCaptureKeeps ==
    ASSUME CaptureInv, D!StopCapture PROVE CaptureInv'
<1> USE DEF CaptureInv
<1>1. /\ lines' = lines /\ UNCHANGED <<pending, opened, counts, awaiting>>
      /\ phase' = IF phase \in {"starting", "recording"} THEN "stopping" ELSE phase
      /\ UNCHANGED <<validating, observed, reporting>>
  BY DEF D!StopCapture, D!FinishIfRunning, D!Finish, D!Capture!RequestStop, D!Capture!Open,
         D!captureVars, D!discoveryVars, D!validationVars
<1>2. \/ /\ discovery' = "complete"
         /\ result' = IF discovery = "after" THEN counts ELSE D!None
      \/ UNCHANGED <<discovery, result>>
  BY DEF D!StopCapture, D!FinishIfRunning, D!Finish, D!discoveryVars
<1>3. D!TypeOK'
  BY <1>1, <1>2 DEF D!TypeOK
<1>4. ControlInv' /\ phase' # "recording"
  BY <1>1, <1>2 DEF ControlInv, D!isRecording, D!TypeOK
<1>5. WindowsInv'
  BY <1>1, <1>2, <1>4, SameLines DEF WindowsInv, D!isRecording
<1>6. D!SamplesAreRecorded'
  BY <1>4 DEF D!SamplesAreRecorded, D!isRecording
<1>q. QED BY <1>3, <1>4, <1>5, <1>6

(* A stop that is not the operator's leaves the discovery as it is.        *)
LEMMA StopsKeep ==
    ASSUME CaptureInv, phase' \in {"idle", "stopping"}, phase \in {"recording", "stopping"},
           phase' = "idle" => ~pending,
           UNCHANGED <<pending, opened, lines, awaiting, discovery, counts, result>>,
           validating' \in BOOLEAN, reporting' \in BOOLEAN,
           observed' \in Seq({"data", "step"})
    PROVE  CaptureInv'
<1> USE DEF CaptureInv
<1>1. D!TypeOK'
  BY DEF D!TypeOK
<1>2. ControlInv'
  BY DEF ControlInv, D!isRecording
<1>3. WindowsInv' /\ D!SamplesAreRecorded'
  BY SameLines DEF WindowsInv, D!isRecording, D!SamplesAreRecorded
<1>q. QED BY <1>1, <1>2, <1>3

LEMMA ClosedKeeps ==
    ASSUME CaptureInv, D!Closed \/ D!WriteFails PROVE CaptureInv'
<1>1. /\ phase' \in {"idle", "stopping"} /\ phase \in {"recording", "stopping"}
      /\ phase' = "idle" => ~pending
      /\ UNCHANGED <<pending, opened, lines, awaiting, discovery, counts, result>>
      /\ UNCHANGED <<validating, observed, reporting>>
  BY DEF D!Closed, D!WriteFails, D!Capture!Closed, D!Capture!RequestStop, D!isRecording,
         D!discoveryVars, D!validationVars
<1>q. QED BY <1>1, StopsKeep DEF CaptureInv, D!TypeOK

(* A line is taken, or the capture stops.                                  *)
LEMMA WriteSummary ==
    ASSUME NEW x, D!Write(x)
    PROVE  \/ lines' = Append(lines, x) /\ UNCHANGED <<phase, pending, opened>>
           \/ phase' = "stopping" /\ UNCHANGED <<pending, opened, lines>>
  BY DEF D!Write, D!Capture!RequestStop, D!captureVars

LEMMA FrameKeeps ==
    ASSUME CaptureInv, NEW frame \in D!Frames, D!Frame(frame) PROVE CaptureInv'
<1> USE DEF CaptureInv
<1>0. /\ UNCHANGED <<awaiting, discovery, result, validating, reporting>>
      /\ observed' = D!Sampled(frame)
      /\ counts' = IF phase' = "recording" /\ D!isRunning /\ frame = "data"
                   THEN [counts EXCEPT ![discovery] = @ + 1] ELSE counts
  BY DEF D!Frame
<1>1. observed' \in Seq({"data", "step"})
  BY <1>0 DEF D!Sampled, D!TypeOK
<1>2. CASE ~D!isRecording
  <2>1. UNCHANGED <<phase, pending, opened, lines>>
    BY <1>2 DEF D!Frame, D!captureVars
  <2>2. counts' = counts
    BY <1>0, <1>2, <2>1 DEF D!isRecording
  <2>3. D!TypeOK' /\ ControlInv'
    BY <1>0, <1>1, <2>1, <2>2 DEF D!TypeOK, ControlInv, D!isRecording
  <2>4. WindowsInv' /\ D!SamplesAreRecorded'
    BY <1>0, <1>2, <2>1, <2>2, SameLines DEF WindowsInv, D!isRecording, D!SamplesAreRecorded
  <2>q. QED BY <2>3, <2>4
<1>3. CASE D!isRecording /\ phase' = "stopping" /\ UNCHANGED <<pending, opened, lines>>
  BY <1>0, <1>1, <1>3, StopsKeep DEF D!isRecording, D!TypeOK
<1>4. CASE /\ D!isRecording /\ lines' = Append(lines, frame)
           /\ UNCHANGED <<phase, pending, opened>>
  <2>1. lines \in Seq(Kinds) /\ frame \in Kinds /\ lines' \in Seq(Kinds)
    BY <1>4 DEF D!TypeOK, Kinds
  <2>2. frame \notin {"event start", "event end", "validation", "step"}
    BY DEF D!Frames
  <2>3. D!WindowAt(Len(lines))' = D!WindowAt(Len(lines))
        /\ (D!Marked("event end", Len(lines))' => D!Marked("event start", Len(lines))')
    BY <1>4, <2>1, <2>2, WindowsKept DEF D!WindowAt, WindowsInv
  <2>4. discovery = D!WindowAt(Len(lines)) /\ counts = D!Recorded /\ result = D!None
    BY <1>4 DEF WindowsInv, ControlInv
  <2>5. D!isRunning
    BY <2>4 DEF D!isRunning, D!WindowAt, D!Windows
  <2>6. counts' = D!Recorded'
    BY <1>0, <1>4, <2>1, <2>3, <2>4, <2>5, RecordedAppended DEF D!isRecording
  <2>7. WindowsInv'
    BY <1>0, <2>3, <2>4, <2>6 DEF WindowsInv
  <2>8. counts' \in [D!Windows -> Nat]
    <3>1. counts \in [D!Windows -> Nat] /\ discovery \in D!Windows
      BY <2>5 DEF D!TypeOK, D!isRunning
    <3>2. [counts EXCEPT ![discovery] = @ + 1] \in [D!Windows -> Nat]
      BY <3>1
    <3>q. QED BY <1>0, <3>1, <3>2
  <2>9. D!TypeOK' /\ ControlInv'
    BY <1>0, <1>1, <1>4, <2>1, <2>4, <2>8 DEF D!TypeOK, ControlInv, D!isRecording, Kinds
  <2>10. D!SamplesAreRecorded'
    <3>1. CASE frame = "empty"
      <4>1. observed' = observed
        BY <1>0, <3>1 DEF D!Sampled
      <4>q. QED BY <1>0, <1>4, <2>1, <3>1, <4>1, OtherTaken
    <3>2. CASE frame = "data" /\ validating /\ D!Begun # {}
      <4>1. observed' = Append(observed, "data")
        BY <1>0, <3>2 DEF D!Sampled
      <4>q. QED BY <1>4, <2>1, <3>2, <4>1, SampleTaken DEF D!TypeOK
    <3>3. CASE frame = "data" /\ (~validating \/ D!Begun = {})
      <4>1. ~validating' \/ D!Begun' = {}
        BY <1>0, <1>4, <2>1, <2>2, <3>3, SamplesAppended
      <4>q. QED BY <4>1 DEF D!SamplesAreRecorded
    <3>q. QED BY <3>1, <3>2, <3>3 DEF D!Frames
  <2>q. QED BY <2>7, <2>9, <2>10
<1>5. D!isRecording => D!Write(frame)
  BY DEF D!Frame
<1>q. QED BY <1>2, <1>3, <1>4, <1>5, WriteSummary

(* A marker of a window moves the discovery with the file.                 *)
LEMMA MarkKeeps ==
    ASSUME CaptureInv, D!MarkEventStart \/ D!MarkEventEnd PROVE CaptureInv'
<1> USE DEF CaptureInv
<1>1. PICK x \in {"event start", "event end"} :
         /\ D!isRecording /\ D!Write(x)
         /\ \/ x = "event start" /\ discovery = "baseline" /\ discovery' = "event"
            \/ x = "event end" /\ discovery = "event" /\ discovery' = "after"
         /\ UNCHANGED <<awaiting, counts, result, validating, observed, reporting>>
  BY DEF D!MarkEventStart, D!MarkEventEnd, D!Mark, D!validationVars
<1>2. x \in Kinds \ {"validation", "data", "step"}
  BY DEF Kinds, D!Markers, D!Frames
<1>3. lines \in Seq(Kinds) /\ discovery' \in D!Windows
  BY <1>1 DEF D!TypeOK, Kinds, D!Windows
<1>4. CASE lines' = Append(lines, x) /\ UNCHANGED <<phase, pending, opened>>
  <2>1. D!TypeOK' /\ ControlInv'
    <3>1. lines' \in Seq(Kinds)
      <4>1. x \in Kinds
        BY <1>2
      <4>q. QED BY <4>1, <1>3, <1>4, AppendedIsSeq
    <3>q. QED BY <1>1, <1>3, <1>4, <3>1 DEF D!TypeOK, ControlInv, D!isRecording, Kinds
  <2>2. discovery = D!WindowAt(Len(lines)) /\ counts = D!Recorded /\ result = D!None
    BY <1>1 DEF WindowsInv, ControlInv
  <2>3. /\ D!Marked("event end", Len(lines))' => D!Marked("event start", Len(lines))'
        /\ discovery' = D!WindowAt(Len(lines))'
    BY <1>1, <1>2, <1>3, <1>4, <2>2, WindowsKept DEF D!WindowAt, WindowsInv
  <2>4. D!Recorded' = D!Recorded
    BY <1>2, <1>3, <1>4, RecordedAppended
  <2>5. WindowsInv'
    BY <1>1, <2>2, <2>3, <2>4 DEF WindowsInv
  <2>6. D!SamplesAreRecorded'
    BY <1>1, <1>2, <1>3, <1>4, OtherTaken
  <2>q. QED BY <2>1, <2>5, <2>6
<1>5. CASE phase' = "stopping" /\ UNCHANGED <<pending, opened, lines>>
  <2>1. D!TypeOK'
    BY <1>1, <1>3, <1>5 DEF D!TypeOK
  <2>2. ~D!isRecording' /\ ~pending
    BY <1>1, <1>5 DEF D!isRecording, ControlInv
  <2>3. ControlInv' /\ D!SamplesAreRecorded'
    BY <1>1, <1>5, <2>2 DEF ControlInv, D!SamplesAreRecorded
  <2>4. counts = D!Recorded /\ result = D!None
    BY <1>1 DEF WindowsInv, ControlInv
  <2>5. WindowsInv'
    BY <1>1, <1>5, <2>2, <2>4, SameLines DEF WindowsInv
  <2>q. QED BY <2>1, <2>3, <2>5
<1>q. QED BY <1>1, <1>4, <1>5, WriteSummary

(* A line that belongs to no window leaves what the windows hold.          *)
LEMMA LineKeepsWindows ==
    ASSUME CaptureInv, D!isRecording, NEW x \in {"validation", "step"},
           lines' = Append(lines, x), UNCHANGED <<phase, pending, opened>>,
           UNCHANGED <<awaiting, discovery, counts, result, reporting>>,
           validating' \in BOOLEAN, observed' \in Seq({"data", "step"})
    PROVE  D!TypeOK' /\ ControlInv' /\ WindowsInv'
<1> USE DEF CaptureInv
<1>1. x \in Kinds /\ x \notin {"data", "event start", "event end"}
  BY DEF Kinds, D!Markers
<1>2. lines \in Seq(Kinds) /\ lines' \in Seq(Kinds)
  <2>1. lines \in Seq(Kinds)
    BY DEF D!TypeOK, Kinds
  <2>q. QED BY <1>1, <2>1, AppendedIsSeq
<1>3. D!TypeOK' /\ ControlInv'
  BY <1>2 DEF D!TypeOK, ControlInv, D!isRecording, Kinds
<1>4. /\ D!Marked("event end", Len(lines))' => D!Marked("event start", Len(lines))'
      /\ D!WindowAt(Len(lines))' = D!WindowAt(Len(lines))
  BY <1>1, <1>2, WindowsKept DEF D!WindowAt, WindowsInv
<1>5. D!Recorded' = D!Recorded
  BY <1>1, <1>2, RecordedAppended
<1>6. WindowsInv'
  BY <1>4, <1>5 DEF WindowsInv, D!isRecording
<1>q. QED BY <1>3, <1>6

LEMMA ValidateRecordingKeeps ==
    ASSUME CaptureInv, D!ValidateRecording PROVE CaptureInv'
<1>1. /\ D!isRecording /\ D!Write("validation")
      /\ validating' = TRUE /\ observed' = <<>>
      /\ UNCHANGED <<awaiting, discovery, counts, result, reporting>>
  BY DEF D!ValidateRecording, D!StartValidation, D!discoveryVars
<1>2. observed' \in Seq({"data", "step"})
  BY <1>1
<1>3. CASE lines' = Append(lines, "validation") /\ UNCHANGED <<phase, pending, opened>>
  <2>1. D!TypeOK' /\ ControlInv' /\ WindowsInv'
    BY <1>1, <1>2, <1>3, LineKeepsWindows
  <2>2. lines \in Seq(Kinds)
    BY DEF CaptureInv, D!TypeOK, Kinds
  <2>q. QED BY <1>1, <1>3, <2>1, <2>2, ValidationTaken DEF CaptureInv
<1>4. CASE phase' = "stopping" /\ UNCHANGED <<pending, opened, lines>>
  BY <1>1, <1>2, <1>4, StopsKeep DEF CaptureInv, D!TypeOK, D!isRecording
<1>q. QED BY <1>1, <1>3, <1>4, WriteSummary

LEMMA MarkStepKeeps ==
    ASSUME CaptureInv, D!MarkStep PROVE CaptureInv'
<1>1. /\ validating /\ observed' = Append(observed, "step")
      /\ IF D!isRecording THEN D!Write("step") ELSE UNCHANGED <<phase, pending, opened, lines>>
      /\ UNCHANGED <<awaiting, discovery, counts, result, validating, reporting>>
  BY DEF D!MarkStep, D!discoveryVars, D!captureVars
<1>2. observed \in Seq({"data", "step"}) /\ observed' \in Seq({"data", "step"})
  BY <1>1 DEF CaptureInv, D!TypeOK
<1>3. CASE D!isRecording /\ lines' = Append(lines, "step") /\ UNCHANGED <<phase, pending, opened>>
  <2>1. D!TypeOK' /\ ControlInv' /\ WindowsInv'
    BY <1>1, <1>2, <1>3, LineKeepsWindows DEF CaptureInv, D!TypeOK
  <2>2. lines \in Seq(Kinds) /\ "step" \in Kinds \ {"validation"}
    BY DEF CaptureInv, D!TypeOK, Kinds, D!Markers
  <2>3. CASE D!Begun # {}
    BY <1>1, <1>2, <1>3, <2>1, <2>2, <2>3, SampleTaken DEF CaptureInv
  <2>4. CASE D!Begun = {}
    <3>1. D!Begun' = {}
      BY <1>3, <2>2, <2>4, SamplesAppended
    <3>q. QED BY <2>1, <3>1 DEF CaptureInv, D!SamplesAreRecorded
  <2>q. QED BY <2>3, <2>4
<1>4. CASE D!isRecording /\ phase' = "stopping" /\ UNCHANGED <<pending, opened, lines>>
  BY <1>1, <1>2, <1>4, StopsKeep DEF CaptureInv, D!TypeOK, D!isRecording
<1>5. CASE ~D!isRecording
  <2>1. UNCHANGED <<phase, pending, opened, lines>>
    BY <1>1, <1>5
  <2>2. D!TypeOK' /\ ControlInv'
    BY <1>1, <1>2, <2>1 DEF CaptureInv, D!TypeOK, ControlInv, D!isRecording
  <2>3. WindowsInv' /\ D!SamplesAreRecorded'
    BY <1>1, <1>5, <2>1, SameLines
       DEF CaptureInv, WindowsInv, D!isRecording, D!SamplesAreRecorded
  <2>q. QED BY <2>2, <2>3 DEF CaptureInv
<1>q. QED BY <1>1, <1>3, <1>4, <1>5, WriteSummary

LEMMA FinishValidationKeeps ==
    ASSUME CaptureInv, D!FinishValidation PROVE CaptureInv'
<1>1. /\ validating' = FALSE /\ reporting' = TRUE
      /\ UNCHANGED <<phase, pending, opened, lines, awaiting, discovery, counts, result, observed>>
  BY DEF D!FinishValidation, D!captureVars, D!discoveryVars
<1>2. D!TypeOK' /\ ControlInv'
  BY <1>1 DEF CaptureInv, D!TypeOK, ControlInv, D!isRecording
<1>3. WindowsInv' /\ D!SamplesAreRecorded'
  BY <1>1, SameLines DEF CaptureInv, WindowsInv, D!isRecording, D!SamplesAreRecorded
<1>q. QED BY <1>2, <1>3 DEF CaptureInv

(* The report stops the capture that records when it is written.           *)
LEMMA ReportWrittenKeeps ==
    ASSUME CaptureInv, D!ReportWritten PROVE CaptureInv'
<1>1. reporting' = FALSE /\ UNCHANGED <<lines, awaiting, validating, observed>>
  BY DEF D!ReportWritten
<1>2. CASE ~D!isRecording
  <2>1. UNCHANGED <<phase, pending, opened, discovery, counts, result>>
    BY <1>2 DEF D!ReportWritten, D!captureVars, D!discoveryVars
  <2>2. D!TypeOK' /\ ControlInv'
    BY <1>1, <2>1 DEF CaptureInv, D!TypeOK, ControlInv, D!isRecording
  <2>3. WindowsInv' /\ D!SamplesAreRecorded'
    BY <1>1, <2>1, SameLines
       DEF CaptureInv, WindowsInv, D!isRecording, D!SamplesAreRecorded
  <2>q. QED BY <2>2, <2>3 DEF CaptureInv
<1>3. CASE D!isRecording
  <2>1. /\ phase = "recording" /\ phase' = "stopping" /\ UNCHANGED <<pending, opened>>
        /\ counts' = counts
        /\ \/ /\ discovery' = "complete"
              /\ result' = IF discovery = "after" THEN counts ELSE D!None
           \/ UNCHANGED <<discovery, result>>
    BY <1>3 DEF D!ReportWritten, D!FinishIfRunning, D!Finish, D!Capture!RequestStop,
                D!discoveryVars, D!isRecording
  <2>2. ~pending /\ result = D!None /\ counts = D!Recorded
    BY <1>3, <2>1 DEF CaptureInv, ControlInv, WindowsInv
  <2>3. D!TypeOK'
    BY <1>1, <2>1 DEF CaptureInv, D!TypeOK
  <2>4. ControlInv'
    BY <2>1, <2>2 DEF ControlInv, D!isRecording
  <2>5. WindowsInv' /\ D!SamplesAreRecorded'
    BY <1>1, <2>1, <2>2, SameLines
       DEF CaptureInv, WindowsInv, D!isRecording, D!SamplesAreRecorded
  <2>q. QED BY <2>3, <2>4, <2>5 DEF CaptureInv
<1>q. QED BY <1>2, <1>3

-----------------------------------------------------------------------------
(* AtlasRuntime moves the capture by the actions of SignalDiscovery only.  *)
LEMMA StepOfDiscovery ==
    ASSUME [Next]_vars PROVE D!Next \/ UNCHANGED captureVars
<1>1. CASE UNCHANGED vars
  BY <1>1 DEF vars
<1>2. CASE \E t \in Calls : \/ \E offer \in Offers : Connect(t, offer)
                           \/ \E c \in Slots : DisconnectChannel(t, c)
  BY <1>2 DEF Connect, DisconnectChannel
<1>3. CASE \E t \in Calls : Disconnect(t)
  BY <1>3 DEF Disconnect, D!Next
<1>4. CASE \E t \in Calls : \/ Stopped(t) \/ NextField(t) \/ NextChannel(t)
                           \/ Released(t) \/ ReleaseThrows(t) \/ Finished(t)
  BY <1>4 DEF Stopped, NextField, NextChannel, Released, ReleaseThrows, Finished
<1>5. CASE \E t \in Calls : \/ Install(t) \/ Connected(t) \/ ConnectFails(t)
                           \/ \E state \in {"error", "disconnected"} : Breaks(t, state)
  BY <1>5 DEF Install, Connected, ConnectFails, Breaks
<1>6. CASE Operate
  BY <1>6 DEF Operate, D!Next
<1>7. CASE FrameArrives \/ CaptureProceeds
  BY <1>7 DEF FrameArrives, CaptureProceeds, D!Next
<1>q. QED BY <1>1, <1>2, <1>3, <1>4, <1>5, <1>6, <1>7 DEF Next

LEMMA CaptureStep ==
    ASSUME CaptureInv, [Next]_vars PROVE CaptureInv'
<1>1. CASE UNCHANGED captureVars
  BY <1>1, CaptureStutters
<1>2. CASE \E who \in D!Callers : D!StartCapture(who)
  BY <1>2, StartCaptureKeeps
<1>3. CASE D!FileOpened \/ D!FileFails
  BY <1>3, FileOpenedKeeps, FileFailsKeeps
<1>4. CASE D!StopCapture
  BY <1>4, StopCaptureKeeps
<1>5. CASE D!Closed \/ D!WriteFails
  BY <1>5, ClosedKeeps
<1>6. CASE \E frame \in D!Frames : D!Frame(frame)
  BY <1>6, FrameKeeps
<1>7. CASE D!MarkEventStart \/ D!MarkEventEnd
  BY <1>7, MarkKeeps
<1>8. CASE D!ValidateRecording
  BY <1>8, ValidateRecordingKeeps
<1>9. CASE D!MarkStep
  BY <1>9, MarkStepKeeps
<1>10. CASE D!FinishValidation
  BY <1>10, FinishValidationKeeps
<1>11. CASE D!ReportWritten
  BY <1>11, ReportWrittenKeeps
<1>q. QED BY <1>1, <1>2, <1>3, <1>4, <1>5, <1>6, <1>7, <1>8, <1>9, <1>10, <1>11,
             StepOfDiscovery DEF D!Next

-----------------------------------------------------------------------------
(* The runtime is a user of the capture that keeps to its rules: whatever  *)
(* connects, disconnects or breaks, what is seen of the capture is a       *)
(* behaviour of SignalDiscovery (startCapture, stopCapture, _onFrame).     *)
THEOREM RuntimeDrivesDiscovery == Spec => D!Spec
<1>1. Init => D!Init
  BY DEF Init
<1>2. [Next]_vars => [D!Next]_(D!vars)
  <2> SUFFICES ASSUME [Next]_vars PROVE D!Next \/ UNCHANGED D!vars
    OBVIOUS
  <2>1. UNCHANGED captureVars => UNCHANGED D!vars
    BY DEF captureVars, D!vars, D!captureVars, D!discoveryVars, D!validationVars
  <2>q. QED BY <2>1, StepOfDiscovery
<1>q. QED BY <1>1, <1>2, PTL DEF Spec, D!Spec

(* The inductive invariant of the capture and of what observes it.         *)
THEOREM CaptureInvariant == Spec => []CaptureInv
<1>1. Init => CaptureInv
  BY CaptureInit DEF Init
<1>2. CaptureInv /\ [Next]_vars => CaptureInv'
  BY CaptureStep
<1>q. QED BY <1>1, <1>2, PTL DEF Spec

(* The windows of the discovery, its result and the samples of a           *)
(* validation are what the capture's file holds, whatever connects,        *)
(* disconnects, fails or stops the capture meanwhile.                      *)
THEOREM ObservationIsRecorded == Spec => []ObservedIsRecorded
<1>1. CaptureInv => ObservedIsRecorded
  BY DEF CaptureInv, WindowsInv, ObservedIsRecorded, D!WindowsAreRecorded
<1>q. QED BY <1>1, CaptureInvariant, PTL
-----------------------------------------------------------------------------
(* The slots.                                                              *)
Names == {"canalyst", "lys", "pair"}

States == {"disconnected", "connecting", "connected", "error"}
Stages == {"unused", "ready", "stopping", "releasing", "connecting", "over"}

SlotTypes == [Slots -> [adapter : {None} \cup Calls, state : States,
                        subscription : {None} \cup Calls]]

AdapterTypes == [Calls -> [offer : Offers \cup {NoOffer},
                           link : {"closed", "open", "broken"},
                           connecting : BOOLEAN]]

CallRecords == [kind : {"none", "connect", "channel", "all"},
                at : Stages, fields : Seq(Names), from : Nat, upto : Nat,
                target : {None} \cup Calls, affected : SUBSET Slots]

RuntimeTypes ==
    /\ slots \in SlotTypes
    /\ shared \in [Names -> {None} \cup Calls]
    /\ adapters \in AdapterTypes
    /\ calls \in [Calls -> CallRecords]
    /\ heard \subseteq Calls /\ rates \in BOOLEAN
    /\ made \in 0 .. MaxCalls /\ faults \in 0 .. MaxFaults
    /\ disturbed \subseteq Slots

-----------------------------------------------------------------------------
(* What the slots show and the calls do, as a value: one function for each *)
(* field, so that a step may be taken in two (a connect call takes its     *)
(* field first and then releases its first slot).                          *)
View ==
    [holder |-> [c \in Slots |-> slots[c].adapter],
     state |-> [c \in Slots |-> slots[c].state],
     source |-> [c \in Slots |-> slots[c].subscription],
     shared |-> shared, heard |-> heard, rates |-> rates,
     disturbed |-> disturbed,
     offer |-> [a \in Calls |-> adapters[a].offer],
     link |-> [a \in Calls |-> adapters[a].link],
     kind |-> [t \in Calls |-> calls[t].kind],
     at |-> [t \in Calls |-> calls[t].at],
     fields |-> [t \in Calls |-> calls[t].fields],
     from |-> [t \in Calls |-> calls[t].from],
     upto |-> [t \in Calls |-> calls[t].upto],
     target |-> [t \in Calls |-> calls[t].target],
     affected |-> [t \in Calls |-> calls[t].affected]]

ViewTypes(s) ==
    /\ s.holder \in [Slots -> {None} \cup Calls]
    /\ s.state \in [Slots -> States]
    /\ s.source \in [Slots -> {None} \cup Calls]
    /\ s.shared \in [Names -> {None} \cup Calls]
    /\ s.heard \subseteq Calls /\ s.rates \in BOOLEAN /\ s.disturbed \subseteq Slots
    /\ s.offer \in [Calls -> Offers \cup {NoOffer}]
    /\ s.link \in [Calls -> {"closed", "open", "broken"}]
    /\ s.kind \in [Calls -> {"none", "connect", "channel", "all"}]
    /\ s.at \in [Calls -> Stages]
    /\ s.fields \in [Calls -> Seq(Names)]
    /\ s.from \in [Calls -> Nat] /\ s.upto \in [Calls -> Nat]
    /\ s.target \in [Calls -> {None} \cup Calls]
    /\ s.affected \in [Calls -> SUBSET Slots]

(* The slots of an adapter; what a call has still to release.              *)
Mine(s, a) == SlotsOf(s.offer[a])
First(s, a) == s.offer[a].base
Todo(s, t) == s.from[t] .. s.upto[t]

Live(s, t) == s.at[t] \in {"ready", "stopping", "releasing", "connecting"}
Busy(s, t) == s.at[t] \in {"ready", "releasing"}
Installed(s, a) == s.at[a] \in {"connecting", "over"}

(* How far each kind of call is.                                           *)
CallShape(s, t) ==
    /\ Live(s, t) <=> s.kind[t] # "none"
    /\ s.at[t] = "unused" => s.offer[t] = NoOffer /\ s.link[t] = "closed"
    /\ s.kind[t] = "connect" =>
         /\ s.offer[t] \in Offers /\ s.fields[t] = <<>>
         /\ s.upto[t] = First(s, t) + s.offer[t].width - 1
         /\ First(s, t) <= s.from[t] /\ s.from[t] <= s.upto[t] + 1
         /\ s.at[t] # "stopping"
    /\ s.kind[t] = "channel" =>
         /\ s.fields[t] = <<>> /\ s.upto[t] \in Slots
         /\ s.from[t] \in {s.upto[t], s.upto[t] + 1}
         /\ s.at[t] # "stopping"
    /\ s.kind[t] = "all" =>
         /\ s.upto[t] = Channels
         /\ 1 <= s.from[t] /\ s.from[t] <= Channels + 1
         /\ s.fields[t] # <<>> => s.from[t] = 1
    /\ s.at[t] = "stopping" => s.fields[t] # <<>>
    /\ s.at[t] = "connecting" => s.kind[t] = "connect" /\ s.from[t] > s.upto[t]
    /\ s.at[t] = "releasing" =>
         /\ s.target[t] \in Calls
         /\ s.fields[t] = <<>> => s.from[t] <= s.upto[t]
    /\ s.affected[t] # {} => s.at[t] = "releasing"

Shape(s) == \A t \in Calls : CallShape(s, t)

(* An adapter is held, heard and known to its field only where it belongs; *)
(* a call in the middle of a release knows whom it releases.               *)
Place(s) ==
    /\ \A c \in Slots : s.holder[c] # None =>
          Installed(s, s.holder[c]) /\ c \in Mine(s, s.holder[c])
    /\ \A c \in Slots : s.source[c] # None =>
          Installed(s, s.source[c]) /\ c = First(s, s.source[c])
    /\ \A a \in s.heard : Installed(s, a)
    /\ \A f \in Names : s.shared[f] # None => s.offer[s.shared[f]].field = f
    /\ \A t \in Calls : s.at[t] = "releasing" =>
          /\ s.affected[t] # {} => Installed(s, s.target[t])
                                   /\ s.affected[t] \subseteq Mine(s, s.target[t])
          /\ s.fields[t] = <<>> =>
                /\ Installed(s, s.target[t])
                /\ s.from[t] \in Mine(s, s.target[t])
                /\ s.affected[t] # {} => s.from[t] \in s.affected[t]

(* ReachOf: the slots a call works on, with those that share adapters.     *)
Zone(s, channels) ==
    channels \cup
    {c \in Slots : s.holder[c] # None
                   /\ \E d \in channels : s.holder[d] = s.holder[c]}
Work(s, t) == IF s.kind[t] = "connect" THEN Mine(s, t)
              ELSE IF s.kind[t] = "channel" THEN {s.upto[t]} ELSE Slots
Area(s, t) == Zone(s, Work(s, t)) \cup s.affected[t]

(* Calls that meet have disturbed the slots they have in common, and all   *)
(* slots of a call that is not for all.                                    *)
Apart(s) ==
    \A t, u \in Calls :
       t # u /\ Live(s, t) /\ Live(s, u) /\ Area(s, t) \cap Area(s, u) # {} =>
          /\ Area(s, t) \cap Area(s, u) \subseteq s.disturbed
          /\ s.kind[u] # "all" => Area(s, u) \subseteq s.disturbed

Intact(s) == Slots \ s.disturbed

(* Everything that belongs to a is where it should be; or a connect for    *)
(* the same shared slots is about to release them.                         *)
Whole(s, a) ==
    /\ \A d \in Mine(s, a) : s.holder[d] = a
    /\ a \in s.heard => s.source[First(s, a)] = a
    /\ s.offer[a].field # "none" => s.shared[s.offer[a].field] = a
Replaces(s, t, a) ==
    /\ s.kind[t] = "connect" /\ Busy(s, t) /\ s.affected[t] = {}
    /\ s.offer[t] = s.offer[a] /\ s.offer[a].field # "none"
    /\ \A d \in Todo(s, t) :
          s.holder[d] = a \/ (d = s.from[t] /\ s.at[t] = "releasing")
    /\ a \in s.heard => /\ s.from[t] = First(s, a) /\ s.at[t] = "ready"
                        /\ s.source[First(s, a)] = a
Replaced(s, a, c) ==
    /\ \A f \in Names : s.shared[f] # a
    /\ \E t \in Calls : Replaces(s, t, a) /\ c \in Todo(s, t)

HeldWhole(s) ==
    \A c \in Intact(s) : s.holder[c] # None =>
       Whole(s, s.holder[c]) \/ Replaced(s, s.holder[c], c)

(* A channel is fed by its holder only.                                    *)
HeardHeld(s) ==
    \A c \in Intact(s) : \A a \in s.heard : c \in Mine(s, a) => s.holder[c] = a

(* A slot that shows a connection has one, or a call will see to it.       *)
Pending(s, c) ==
    \E t \in Calls : Live(s, t) /\ c \in Todo(s, t) \cup s.affected[t]
ShownLive(s) ==
    \A c \in Intact(s) : s.state[c] = "connected" =>
       \/ /\ s.holder[c] \in s.heard /\ s.rates = TRUE
          /\ s.link[s.holder[c]] = "open"
       \/ Pending(s, c)

(* disconnect() leaves no connection behind it.                            *)
PassedQuiet(s) ==
    \A t \in Calls : s.kind[t] = "all" /\ Busy(s, t) =>
       \A c \in Intact(s) : c < s.from[t] => s.state[c] # "connected"

(* A slot that is being released of its own adapter is empty; one that     *)
(* holds a shared adapter being released is among those to be cleared.     *)
FreedEmpty(s) ==
    \A t \in Calls :
       (/\ s.at[t] = "releasing" /\ s.fields[t] = <<>>
        /\ s.affected[t] = {} /\ s.from[t] \in Intact(s)) =>
          s.holder[s.from[t]] = None
Covered(s) ==
    \A t \in Calls :
       (s.at[t] = "releasing" /\ (s.affected[t] # {} \/ s.fields[t] # <<>>)) =>
          \A c \in Intact(s) : s.holder[c] = s.target[t] => c \in s.affected[t]

(* What is open, or will be, is held, or is being disconnected.            *)
LinkShown(s) ==
    \A a \in Calls : Mine(s, a) \subseteq Intact(s) =>
       /\ s.at[a] = "connecting" => \A d \in Mine(s, a) : s.holder[d] = a
       /\ s.link[a] = "open" =>
             \/ \A d \in Mine(s, a) : s.holder[d] = a
             \/ \E t \in Calls : s.at[t] = "releasing" /\ s.target[t] = a

(* A shared release touches no slot of another adapter, and silences its   *)
(* own.                                                                    *)
AffectedOwn(s) ==
    \A c \in Intact(s) : \A t \in Calls :
       s.holder[c] # None /\ s.target[t] # s.holder[c] =>
          s.affected[t] \cap Mine(s, s.holder[c]) = {}
AffectedSilent(s) ==
    \A t \in Calls : s.affected[t] \cap Intact(s) # {} => s.target[t] \notin s.heard

(* The slots a connect has passed belong to nobody, or to an adapter it    *)
(* replaces; a shared one keeps the field it has taken.                    *)
Passed(s, t) ==
    {d \in Mine(s, t) : \/ d < s.from[t]
                        \/ d = s.from[t] /\ s.at[t] = "releasing" /\ s.affected[t] = {}}
PassedApart(s) ==
    \A c \in Intact(s) : \A t \in Calls :
       s.holder[c] # None /\ s.kind[t] = "connect" /\ Busy(s, t) =>
          \/ Passed(s, t) \cap Mine(s, s.holder[c]) = {}
          \/ Replaces(s, t, s.holder[c]) /\ c \in Todo(s, t)
ClaimsField(s) ==
    \A t \in Calls :
       (/\ s.kind[t] = "connect" /\ Busy(s, t) /\ s.offer[t].field # "none"
        /\ Mine(s, t) \cap Intact(s) # {}) =>
          s.shared[s.offer[t].field] = t

HolderInv(s) == HeldWhole(s) /\ HeardHeld(s) /\ FreedEmpty(s) /\ Covered(s)
ShownInv(s) == ShownLive(s) /\ PassedQuiet(s) /\ LinkShown(s)
CallInv(s) == AffectedOwn(s) /\ AffectedSilent(s) /\ PassedApart(s) /\ ClaimsField(s)
ViewInv(s) == /\ ViewTypes(s) /\ Shape(s) /\ Place(s) /\ Apart(s)
              /\ HolderInv(s) /\ ShownInv(s) /\ CallInv(s)

-----------------------------------------------------------------------------
LEMMA OfferTypes ==
    /\ NoOffer = [field |-> "none", base |-> 0, width |-> 0]
    /\ \A offer \in Offers :
          /\ offer.field \in {"none"} \cup Names
          /\ offer.base \in Slots /\ offer.base \in Nat
          /\ offer.width \in Nat /\ offer.width > 0
          /\ offer.base + offer.width - 1 \in Slots
          /\ offer.base + offer.width - 1 \in Nat
          /\ offer.base \in SlotsOf(offer) /\ SlotsOf(offer) \subseteq Slots
          /\ SlotsOf(offer) = offer.base .. offer.base + offer.width - 1
          /\ offer.field = "none" => SlotsOf(offer) = {offer.base}
<1>1. Channels \in Nat
  BY BoundsAssumption
<1>2. \A offer \in Offers :
        /\ offer \in [field: {"none", "canalyst", "lys", "pair"},
                      base: Slots, width: Nat \ {0}]
        /\ offer.base + offer.width - 1 \in Slots
        /\ offer.field = "none" => offer.width = 1
  BY OffersAssumption
<1>3. ASSUME NEW offer \in Offers
      PROVE  /\ offer.field \in {"none"} \cup Names
             /\ offer.base \in Slots /\ offer.base \in Nat
             /\ offer.width \in Nat /\ offer.width > 0
             /\ offer.base + offer.width - 1 \in Slots
             /\ offer.base + offer.width - 1 \in Nat
  BY <1>1, <1>2 DEF Names, Slots
<1>4. ASSUME NEW offer \in Offers
      PROVE  /\ offer.base \in SlotsOf(offer) /\ SlotsOf(offer) \subseteq Slots
             /\ offer.field = "none" => SlotsOf(offer) = {offer.base}
  BY <1>1, <1>2, <1>3 DEF SlotsOf, Slots
<1>q. QED BY <1>3, <1>4 DEF NoOffer, SlotsOf

LEMMA CallTypes == NoCall \in CallRecords /\ Over \in CallRecords /\ None \notin Calls
<1>1. <<>> \in Seq(Names) /\ {} \in SUBSET Slots /\ 1 \in Nat /\ 0 \in Nat
  OBVIOUS
<1>2. NoCall \in CallRecords
  BY <1>1 DEF NoCall, CallRecords, Stages
<1>3. Over \in CallRecords
  BY <1>2 DEF Over, CallRecords, Stages
<1>4. None \notin Calls
  BY BoundsAssumption DEF None, Calls
<1>q. QED BY <1>2, <1>3, <1>4

LEMMA HeldSlots == ASSUME NEW a PROVE Held(a) \in SUBSET Slots
  BY DEF Held

LEMMA ShowTypes ==
    ASSUME RuntimeTypes, NEW channels,
           NEW state \in States
    PROVE  Show(channels, state) \in SlotTypes
  BY DEF RuntimeTypes, SlotTypes, States, Show

LEMMA ToldTypes ==
    ASSUME RuntimeTypes, NEW a,
           NEW state \in States
    PROVE  Told(a, state) \in SlotTypes
  BY ShowTypes DEF RuntimeTypes, Told

(* What the three ways to release a slot change.                           *)
LEMMA ReleaseSharedTypes ==
    ASSUME RuntimeTypes, NEW t \in Calls, NEW call \in CallRecords,
           NEW a \in Calls, ReleaseShared(t, call, a)
    PROVE  /\ slots' \in SlotTypes /\ heard' \subseteq Calls /\ rates' \in BOOLEAN
           /\ calls' \in [Calls -> CallRecords]
<1>1. Held(a) \in SUBSET Slots
  BY HeldSlots
<1>2. [call EXCEPT !.at = "releasing", !.target = a, !.affected = Held(a)]
         \in CallRecords
  BY <1>1 DEF CallRecords, Stages
<1>3. calls' \in [Calls -> CallRecords]
  BY <1>2 DEF RuntimeTypes, ReleaseShared
<1>q. QED BY <1>3 DEF RuntimeTypes, SlotTypes, States, ReleaseShared, Silence

LEMMA ClearedTypes ==
    ASSUME RuntimeTypes, NEW t \in Calls, NEW call \in CallRecords,
           Cleared(t, call)
    PROVE  rates' \in BOOLEAN /\ calls' \in [Calls -> CallRecords]
<1> DEFINE next == [call EXCEPT !.at = "ready", !.from = @ + 1,
                                !.target = None, !.affected = {}]
<1>1. next \in CallRecords
  <2> DEFINE n == call.from + 1
  <2>1. n \in Nat /\ {} \in SUBSET Slots /\ None \in {None} \cup Calls
    BY DEF CallRecords, Stages
  <2>2. next = [call EXCEPT !.at = "ready", !.from = n,
                            !.target = None, !.affected = {}]
    OBVIOUS
  <2> HIDE DEF n
  <2>q. QED BY <2>1, <2>2 DEF CallRecords, Stages
<1>q. QED BY <1>1 DEF RuntimeTypes, Cleared

LEMMA ReleaseTypes ==
    ASSUME RuntimeTypes, NEW t \in Calls, NEW call \in CallRecords,
           call.from \in Slots, NEW fields, Release(t, call, fields)
    PROVE  /\ slots' \in SlotTypes /\ heard' \subseteq Calls /\ rates' \in BOOLEAN
           /\ calls' \in [Calls -> CallRecords]
<1> DEFINE c == call.from
           a == slots[c].adapter
<1>1. a \in {None} \cup Calls /\ None \notin Calls
  BY CallTypes DEF RuntimeTypes, SlotTypes, States
<1>2. CASE a # None /\ ReleaseShared(t, call, a)
  BY <1>1, <1>2, ReleaseSharedTypes
<1>3. CASE /\ a # None
           /\ heard' = Silence({c})
           /\ slots' = [slots EXCEPT ![c].adapter = None, ![c].subscription = None]
           /\ calls' = [calls EXCEPT ![t] = [call EXCEPT !.at = "releasing",
                                                         !.target = a]]
           /\ UNCHANGED rates
  <2>1. [call EXCEPT !.at = "releasing", !.target = a] \in CallRecords
    BY <1>1 DEF CallRecords, Stages
  <2>q. QED BY <1>3, <2>1 DEF RuntimeTypes, SlotTypes, States, Silence
<1>4. CASE /\ heard' = Silence({c})
           /\ slots' = [slots EXCEPT ![c].subscription = None,
                                     ![c].state = "disconnected"]
           /\ Cleared(t, call)
  BY <1>4, ClearedTypes DEF RuntimeTypes, SlotTypes, States, Silence
<1>q. QED BY <1>2, <1>3, <1>4 DEF Release

-----------------------------------------------------------------------------
(* What a view says of one call, one adapter, one slot.                    *)
LEMMA AreaFacts ==
    ASSUME NEW s, ViewTypes(s), Shape(s), NEW t \in Calls
    PROVE  /\ Mine(s, t) \subseteq Slots /\ Work(s, t) \subseteq Slots
           /\ Work(s, t) \subseteq Area(s, t)
           /\ Area(s, t) \subseteq Slots /\ s.affected[t] \subseteq Area(s, t)
           /\ s.kind[t] = "connect" =>
                Mine(s, t) \subseteq Area(s, t) /\ Mine(s, t) = First(s, t) .. s.upto[t]
           /\ Live(s, t) => Todo(s, t) \subseteq Work(s, t)
           /\ Live(s, t) => Todo(s, t) \subseteq Area(s, t)
           /\ s.kind[t] = "all" => Area(s, t) = Slots
<1>1. /\ s.offer[t] \in Offers \cup {NoOffer} /\ s.affected[t] \subseteq Slots
      /\ s.from[t] \in Nat /\ s.upto[t] \in Nat
      /\ s.kind[t] \in {"none", "connect", "channel", "all"}
  BY DEF ViewTypes
<1>2. Mine(s, t) \subseteq Slots
  <2>1. CASE s.offer[t] \in Offers
    BY <2>1, OfferTypes DEF Mine
  <2>2. CASE s.offer[t] = NoOffer
    BY <2>2, OfferTypes DEF Mine, SlotsOf
  <2>q. QED BY <1>1, <2>1, <2>2
<1>3. CallShape(s, t)
  BY DEF Shape
<1>4. s.kind[t] = "connect" => Mine(s, t) = First(s, t) .. s.upto[t]
  <2> SUFFICES ASSUME s.kind[t] = "connect" PROVE Mine(s, t) = First(s, t) .. s.upto[t]
    OBVIOUS
  <2>1. s.offer[t] \in Offers /\ s.upto[t] = s.offer[t].base + s.offer[t].width - 1
    BY <1>3 DEF CallShape, First
  <2>q. QED BY <2>1, OfferTypes DEF Mine, First
<1>5. Work(s, t) \subseteq Slots
  BY <1>2, <1>3 DEF Work, CallShape
<1>6. Live(s, t) => Todo(s, t) \subseteq Work(s, t)
  <2>1. CASE s.kind[t] = "connect"
    <3>1. First(s, t) <= s.from[t] /\ First(s, t) \in Nat
      <4>1. First(s, t) <= s.from[t] /\ s.offer[t] \in Offers
        BY <1>3, <2>1 DEF CallShape
      <4>q. QED BY <4>1, OfferTypes DEF First
    <3>q. QED BY <1>1, <1>4, <2>1, <3>1 DEF Todo, Work
  <2>2. CASE s.kind[t] = "channel"
    <3>1. s.from[t] \in {s.upto[t], s.upto[t] + 1}
      BY <1>3, <2>2 DEF CallShape
    <3>q. QED BY <1>1, <2>2, <3>1 DEF Todo, Work
  <2>3. CASE s.kind[t] = "all"
    <3>1. s.upto[t] = Channels /\ 1 <= s.from[t]
      BY <1>3, <2>3 DEF CallShape
    <3>q. QED BY <1>1, <2>3, <3>1, BoundsAssumption DEF Todo, Work, Slots
  <2>4. Live(s, t) => s.kind[t] # "none"
    BY <1>3 DEF CallShape
  <2>q. QED BY <1>1, <2>1, <2>2, <2>3, <2>4
<1>7. Work(s, t) \subseteq Area(s, t) /\ Area(s, t) \subseteq Slots
      /\ s.affected[t] \subseteq Area(s, t)
  BY <1>1, <1>5 DEF Area, Zone
<1>8. s.kind[t] = "connect" => Mine(s, t) = Work(s, t)
  BY DEF Work
<1>9. s.kind[t] = "all" => Work(s, t) = Slots
  BY DEF Work
<1>q. QED BY <1>2, <1>4, <1>5, <1>6, <1>7, <1>8, <1>9

(* Slots with the same holder lie in the same areas.                       *)
LEMMA SameHolder ==
    ASSUME NEW s, NEW t \in Calls, NEW c \in Slots, NEW d \in Work(s, t),
           s.holder[c] # None, s.holder[c] = s.holder[d]
    PROVE  c \in Area(s, t)
  BY DEF Area, Zone

LEMMA Meeting ==
    ASSUME NEW s, Apart(s), NEW t \in Calls, NEW u \in Calls, t # u,
           Live(s, t), Live(s, u), NEW d, d \in Area(s, t), d \in Area(s, u)
    PROVE  /\ d \notin Intact(s)
           /\ s.kind[u] # "all" => \A c \in Area(s, u) : c \notin Intact(s)
  BY DEF Apart, Intact

LEMMA HolderFacts ==
    ASSUME NEW s, ViewTypes(s), Place(s), NEW c \in Slots, s.holder[c] # None
    PROVE  LET a == s.holder[c] IN
           /\ a \in Calls /\ Installed(s, a) /\ c \in Mine(s, a)
           /\ s.offer[a] \in Offers /\ First(s, a) \in Mine(s, a)
           /\ First(s, a) \in Slots /\ Mine(s, a) \subseteq Slots
           /\ s.offer[a].field \in {"none"} \cup Names
           /\ s.offer[a].field = "none" => Mine(s, a) = {c}
<1> DEFINE a == s.holder[c]
<1>1. a \in Calls /\ s.offer[a] \in Offers \cup {NoOffer}
  BY DEF ViewTypes
<1>2. Installed(s, a) /\ c \in Mine(s, a)
  BY DEF Place
<1>3. s.offer[a] # NoOffer
  BY <1>2, OfferTypes DEF Mine, SlotsOf
<1>4. s.offer[a] \in Offers
  BY <1>1, <1>3
<1> HIDE DEF a
<1>5. /\ First(s, a) \in Mine(s, a) /\ Mine(s, a) \subseteq Slots
      /\ s.offer[a].field \in {"none"} \cup Names
      /\ s.offer[a].field = "none" => Mine(s, a) = {First(s, a)}
  BY <1>4, OfferTypes DEF Mine, First
<1>q. QED BY <1>1, <1>2, <1>4, <1>5 DEF a

(* Only the call that replaces an adapter works on its slots.              *)
LEMMA OnlyReplacer ==
    ASSUME NEW s, ViewTypes(s), Shape(s), Apart(s), NEW t \in Calls, Live(s, t),
           NEW a, NEW c \in Intact(s), Replaced(s, a, c),
           NEW d, d \in Area(s, t), d \in Mine(s, a) \/ d = c
    PROVE  Replaces(s, t, a) /\ c \in Todo(s, t)
<1>1. PICK z \in Calls : Replaces(s, z, a) /\ c \in Todo(s, z)
  BY DEF Replaced
<1>2. Live(s, z) /\ s.kind[z] = "connect" /\ Mine(s, z) = Mine(s, a)
  BY <1>1 DEF Replaces, Live, Busy, Mine
<1>3. Mine(s, z) \subseteq Area(s, z) /\ c \in Area(s, z)
  BY <1>1, <1>2, AreaFacts
<1>4. d \in Area(s, z)
  BY <1>2, <1>3
<1>5. z = t
  BY <1>2, <1>3, <1>4, Meeting
<1>q. QED BY <1>1, <1>5

(* A slot about to be released holds whatever belongs there.               *)
LEMMA AtFrom ==
    ASSUME NEW s, ViewInv(s), NEW t \in Calls, s.at[t] = "ready",
           s.from[t] \in Todo(s, t), NEW c \in Intact(s), s.holder[c] # None,
           s.from[t] \in Mine(s, s.holder[c])
    PROVE  /\ s.holder[s.from[t]] = s.holder[c]
           /\ \/ Whole(s, s.holder[c])
              \/ Replaces(s, t, s.holder[c]) /\ c \in Todo(s, t)
<1>1. Live(s, t) /\ ViewTypes(s) /\ Shape(s) /\ Apart(s)
  BY DEF Live, ViewInv
<1>2. CASE Whole(s, s.holder[c])
  BY <1>2 DEF Whole
<1>3. CASE Replaced(s, s.holder[c], c)
  <2>1. s.from[t] \in Area(s, t)
    BY <1>1, AreaFacts
  <2>2. Replaces(s, t, s.holder[c]) /\ c \in Todo(s, t)
    BY <1>1, <1>3, <2>1, OnlyReplacer
  <2>q. QED BY <2>2 DEF Replaces
<1>4. Whole(s, s.holder[c]) \/ Replaced(s, s.holder[c], c)
  BY DEF ViewInv, HolderInv, HeldWhole
<1>q. QED BY <1>2, <1>3, <1>4

LEMMA ApartKept ==
    ASSUME NEW s, NEW n, Apart(s), s.disturbed \subseteq n.disturbed,
           \A u \in Calls : Live(n, u) =>
              /\ Live(s, u) /\ n.kind[u] = s.kind[u]
              /\ Area(n, u) \subseteq Area(s, u)
    PROVE  Apart(n)
<1> SUFFICES ASSUME NEW t \in Calls, NEW u \in Calls, t # u, Live(n, t), Live(n, u),
                    Area(n, t) \cap Area(n, u) # {}
             PROVE  /\ Area(n, t) \cap Area(n, u) \subseteq n.disturbed
                    /\ n.kind[u] # "all" => Area(n, u) \subseteq n.disturbed
  BY DEF Apart
<1>1. /\ Area(s, t) \cap Area(s, u) \subseteq s.disturbed
      /\ s.kind[u] # "all" => Area(s, u) \subseteq s.disturbed
  BY DEF Apart
<1>q. QED BY <1>1

LEMMA AreaShrinks ==
    ASSUME NEW s, NEW n, NEW u \in Calls,
           \A c \in Slots : n.holder[c] \in {None, s.holder[c]},
           n.kind[u] = s.kind[u], n.upto[u] = s.upto[u], n.offer[u] = s.offer[u],
           Work(s, u) \subseteq Slots, n.affected[u] \subseteq Area(s, u)
    PROVE  Area(n, u) \subseteq Area(s, u)
<1>1. Work(n, u) = Work(s, u)
  BY DEF Work, Mine
<1>2. Zone(n, Work(s, u)) \subseteq Zone(s, Work(s, u))
  BY DEF Zone
<1>q. QED BY <1>1, <1>2 DEF Area
-----------------------------------------------------------------------------
(* Steps that leave the adapters in their slots, and take calls out of     *)
(* those that release.                                                     *)
SameCall(s, n, u) ==
    /\ n.kind[u] = s.kind[u] /\ n.at[u] = s.at[u] /\ n.fields[u] = s.fields[u]
    /\ n.from[u] = s.from[u] /\ n.upto[u] = s.upto[u]
    /\ n.target[u] = s.target[u] /\ n.affected[u] = s.affected[u]

Still(s, n) ==
    /\ n.holder = s.holder /\ n.source = s.source /\ n.shared = s.shared
    /\ n.heard = s.heard /\ n.offer = s.offer /\ s.disturbed \subseteq n.disturbed

Settles(s, n, u) ==
    /\ Installed(s, u) => Installed(n, u)
    /\ n.affected[u] = {} /\ n.at[u] # "releasing"
    /\ ~(n.kind[u] = "connect" /\ Busy(n, u))
    /\ Live(n, u) => Live(s, u) /\ n.kind[u] = s.kind[u] /\ n.upto[u] = s.upto[u]
    /\ s.kind[u] = "connect" /\ Busy(s, u) => Area(s, u) \subseteq n.disturbed

LEMMA SameCallFacts ==
    ASSUME NEW s, NEW n, NEW t, SameCall(s, n, t)
    PROVE  /\ Live(n, t) <=> Live(s, t)
           /\ Busy(n, t) <=> Busy(s, t)
           /\ Installed(n, t) <=> Installed(s, t)
           /\ Todo(n, t) = Todo(s, t)
  BY DEF SameCall, Live, Busy, Installed, Todo

LEMMA SameOffers ==
    ASSUME NEW s, NEW n, n.offer = s.offer
    PROVE  \A a : Mine(n, a) = Mine(s, a) /\ First(n, a) = First(s, a)
  BY DEF Mine, First

LEMMA StillReplaces ==
    ASSUME NEW s, NEW n, Still(s, n), NEW t \in Calls, NEW a, SameCall(s, n, t)
    PROVE  Replaces(s, t, a) <=> Replaces(n, t, a)
<1>1. \A b : Mine(n, b) = Mine(s, b) /\ First(n, b) = First(s, b)
  BY SameOffers DEF Still
<1>2. (Busy(n, t) <=> Busy(s, t)) /\ Todo(n, t) = Todo(s, t)
  BY SameCallFacts
<1>q. QED BY <1>1, <1>2 DEF Replaces, Still, SameCall

LEMMA SettledKeeps ==
    ASSUME NEW s, NEW n, ViewInv(s), Still(s, n), ViewTypes(n),
           \A u \in Calls : SameCall(s, n, u) \/ Settles(s, n, u)
    PROVE  Place(n) /\ Apart(n) /\ HolderInv(n) /\ CallInv(n)
<1> USE DEF Still
<1>1. ViewTypes(s) /\ Shape(s) /\ Place(s) /\ Apart(s) /\ HolderInv(s) /\ CallInv(s)
  BY DEF ViewInv
<1>2. \A a : Mine(n, a) = Mine(s, a) /\ First(n, a) = First(s, a)
  BY SameOffers
<1>3. \A c : c \in Intact(n) => c \in Intact(s)
  BY DEF Intact
<1>4. \A a \in Calls : Installed(s, a) => Installed(n, a)
  BY SameCallFacts DEF Settles
<1>5. \A a : Whole(n, a) <=> Whole(s, a)
  BY <1>2 DEF Whole
<1>6. ASSUME NEW t \in Calls, n.at[t] = "releasing" \/ n.affected[t] # {}
             \/ (n.kind[t] = "connect" /\ Busy(n, t))
      PROVE  SameCall(s, n, t)
  BY <1>6 DEF Settles
<1>7. Place(n)
  <2>1. \A c \in Slots : s.holder[c] # None => s.holder[c] \in Calls
    BY <1>1 DEF ViewTypes
  <2>2. \A c \in Slots : s.source[c] # None => s.source[c] \in Calls
    BY <1>1 DEF ViewTypes
  <2>3. s.heard \subseteq Calls
    BY <1>1 DEF ViewTypes
  <2>4. ASSUME NEW t \in Calls, n.at[t] = "releasing"
        PROVE  /\ n.affected[t] # {} => Installed(n, n.target[t])
                                   /\ n.affected[t] \subseteq Mine(n, n.target[t])
               /\ n.fields[t] = <<>> =>
                  /\ Installed(n, n.target[t])
                  /\ n.from[t] \in Mine(n, n.target[t])
                  /\ n.affected[t] # {} => n.from[t] \in n.affected[t]
    <3>1. SameCall(s, n, t)
      BY <1>6, <2>4
    <3>2. s.at[t] = "releasing" /\ s.target[t] \in Calls
      BY <1>1, <2>4, <3>1 DEF SameCall, Shape, CallShape
    <3>3. /\ s.affected[t] # {} => Installed(s, s.target[t])
                                   /\ s.affected[t] \subseteq Mine(s, s.target[t])
          /\ s.fields[t] = <<>> =>
                  /\ Installed(s, s.target[t])
                  /\ s.from[t] \in Mine(s, s.target[t])
                  /\ s.affected[t] # {} => s.from[t] \in s.affected[t]
      BY <1>1, <3>2 DEF Place
    <3>q. QED BY <1>2, <1>4, <3>1, <3>2, <3>3 DEF SameCall
  <2>q. QED BY <1>1, <1>2, <1>4, <2>1, <2>2, <2>3, <2>4 DEF Place
<1>8. Apart(n)
  <2>1. ASSUME NEW u \in Calls, Live(n, u)
        PROVE  Live(s, u) /\ n.kind[u] = s.kind[u] /\ Area(n, u) \subseteq Area(s, u)
    <3>1. Live(s, u) /\ n.kind[u] = s.kind[u] /\ n.upto[u] = s.upto[u]
          /\ (n.affected[u] = s.affected[u] \/ n.affected[u] = {})
      BY <2>1, SameCallFacts DEF SameCall, Settles
    <3>2. Work(s, u) \subseteq Slots /\ s.affected[u] \subseteq Area(s, u)
      BY <1>1, AreaFacts
    <3>3. Area(n, u) \subseteq Area(s, u)
      BY <3>1, <3>2, AreaShrinks
    <3>q. QED BY <3>1, <3>3
  <2>q. QED BY <1>1, <2>1, ApartKept
<1>9. HeldWhole(n)
  <2> SUFFICES ASSUME NEW c \in Intact(n), s.holder[c] # None
               PROVE  Whole(n, s.holder[c]) \/ Replaced(n, s.holder[c], c)
    BY DEF HeldWhole
  <2> DEFINE a == s.holder[c]
  <2>1. Whole(s, a) \/ Replaced(s, a, c)
    BY <1>1, <1>3 DEF HolderInv, HeldWhole
  <2>2. ASSUME Replaced(s, a, c) PROVE Replaced(n, a, c)
    <3>1. PICK z \in Calls : Replaces(s, z, a) /\ c \in Todo(s, z)
      BY <2>2 DEF Replaced
    <3>2. SameCall(s, n, z)
      <4>1. s.kind[z] = "connect" /\ Busy(s, z) /\ Live(s, z)
        BY <3>1 DEF Replaces, Busy, Live
      <4>2. c \in Area(s, z)
        BY <1>1, <3>1, <4>1, AreaFacts
      <4>q. QED BY <4>1, <4>2 DEF Settles, Intact
    <3>3. Replaces(n, z, a) /\ c \in Todo(n, z)
      BY <3>1, <3>2, StillReplaces, SameCallFacts
    <3>q. QED BY <2>2, <3>3 DEF Replaced
  <2>q. QED BY <1>5, <2>1, <2>2
<1>10. HeardHeld(n) /\ FreedEmpty(n) /\ Covered(n)
  BY <1>1, <1>2, <1>3, <1>6 DEF HolderInv, HeardHeld, FreedEmpty, Covered, SameCall
<1>11. AffectedOwn(n) /\ AffectedSilent(n) /\ ClaimsField(n)
  <2>1. AffectedOwn(n)
    <3> SUFFICES ASSUME NEW c \in Intact(n), NEW t \in Calls, s.holder[c] # None,
                        n.target[t] # s.holder[c]
                 PROVE  n.affected[t] \cap Mine(s, s.holder[c]) = {}
      BY <1>2 DEF AffectedOwn
    <3>1. n.affected[t] = {} \/ SameCall(s, n, t)
      BY <1>6
    <3>q. QED BY <1>1, <1>3, <3>1 DEF CallInv, AffectedOwn, SameCall
  <2>2. AffectedSilent(n)
    BY <1>1, <1>3, <1>6 DEF CallInv, AffectedSilent, SameCall
  <2>3. ClaimsField(n)
    BY <1>1, <1>2, <1>3, <1>6, SameCallFacts DEF CallInv, ClaimsField, SameCall
  <2>q. QED BY <2>1, <2>2, <2>3
<1>12. PassedApart(n)
  <2> SUFFICES ASSUME NEW c \in Intact(n), NEW t \in Calls, s.holder[c] # None,
                      n.kind[t] = "connect", Busy(n, t)
               PROVE  \/ Passed(n, t) \cap Mine(n, s.holder[c]) = {}
                      \/ Replaces(n, t, s.holder[c]) /\ c \in Todo(n, t)
    BY DEF PassedApart
  <2>1. SameCall(s, n, t)
    BY <1>6
  <2>2. Passed(n, t) = Passed(s, t)
    BY <1>2, <2>1 DEF Passed, SameCall
  <2>3. \/ Passed(s, t) \cap Mine(s, s.holder[c]) = {}
        \/ Replaces(s, t, s.holder[c]) /\ c \in Todo(s, t)
    BY <1>1, <1>3, <2>1, SameCallFacts DEF CallInv, PassedApart, SameCall
  <2>q. QED BY <1>2, <2>1, <2>2, <2>3, StillReplaces, SameCallFacts
<1>q. QED BY <1>7, <1>8, <1>9, <1>10, <1>11, <1>12 DEF HolderInv, CallInv
-----------------------------------------------------------------------------
(* The steps as views show them. First those that move no adapter.         *)
Others(s, n, t) == \A u \in Calls : u # t => SameCall(s, n, u)

Ends(s, n, t) ==
    /\ Others(s, n, t) /\ n.kind[t] = "none" /\ n.at[t] = "over"
    /\ n.affected[t] = {}

Proceeds(s, n, t) ==
    /\ s.at[t] \in {"stopping", "ready"} /\ s.fields[t] # <<>>
    /\ Others(s, n, t) /\ n.at[t] = "ready" /\ n.kind[t] = s.kind[t]
    /\ n.from[t] = s.from[t] /\ n.upto[t] = s.upto[t]
    /\ n.target[t] = s.target[t] /\ n.affected[t] = s.affected[t]
    /\ Still(s, n) /\ n.disturbed = s.disturbed
    /\ n.state = s.state /\ n.link = s.link /\ n.rates = s.rates

Throws(s, n, t) ==
    /\ s.at[t] = "releasing" /\ Ends(s, n, t)
    /\ Still(s, n) /\ n.disturbed = s.disturbed \cup Area(s, t)
    /\ n.state = s.state /\ n.link = s.link
    /\ s.rates = TRUE /\ s.kind[t] # "all" => n.rates = TRUE

Finishes(s, n, t) ==
    /\ s.at[t] = "ready" /\ s.kind[t] # "connect" /\ s.from[t] > s.upto[t]
    /\ Ends(s, n, t) /\ Still(s, n) /\ n.disturbed = s.disturbed
    /\ n.state = s.state /\ n.link = s.link
    /\ s.rates = TRUE /\ s.kind[t] # "all" => n.rates = TRUE

Connects(s, n, t) ==
    /\ s.at[t] = "connecting" /\ Ends(s, n, t)
    /\ Still(s, n) /\ n.disturbed = s.disturbed /\ n.rates = TRUE
    /\ \A a \in Calls : n.link[a] = IF a = t THEN "open" ELSE s.link[a]
    /\ \A c \in Slots : n.state[c] = IF t \in s.heard /\ c \in Mine(s, t)
                                     THEN "connected" ELSE s.state[c]

Fails(s, n, t) ==
    /\ s.at[t] = "connecting" /\ Ends(s, n, t)
    /\ Still(s, n) /\ n.disturbed = s.disturbed /\ n.rates = s.rates
    /\ \A a \in Calls : n.link[a] = IF a = t THEN "closed" ELSE s.link[a]
    /\ \A c \in Slots : n.state[c] = IF c \in Mine(s, t) THEN "error" ELSE s.state[c]

BreaksDown(s, n, t) ==
    /\ s.at[t] # "unused" /\ \A u \in Calls : SameCall(s, n, u)
    /\ Still(s, n) /\ n.disturbed = s.disturbed /\ n.rates = s.rates
    /\ \A a \in Calls : n.link[a] = s.link[a] \/ (a = t /\ n.link[a] = "broken")
    /\ \A c \in Slots : IF t \in s.heard /\ c \in Mine(s, t)
                        THEN n.state[c] # "connected" ELSE n.state[c] = s.state[c]

(* The shape of the calls that a step leaves alone.                        *)
LEMMA SameShape ==
    ASSUME NEW s, NEW n, NEW u \in Calls, CallShape(s, u), SameCall(s, n, u),
           n.offer[u] = s.offer[u], n.link[u] = s.link[u] \/ s.at[u] # "unused"
    PROVE  CallShape(n, u)
<1>1. (Live(n, u) <=> Live(s, u)) /\ First(n, u) = First(s, u)
  BY SameCallFacts DEF First
<1>q. QED BY <1>1 DEF CallShape, SameCall

LEMMA OverShape ==
    ASSUME NEW n, NEW u \in Calls, n.kind[u] = "none", n.at[u] = "over",
           n.affected[u] = {}
    PROVE  CallShape(n, u)
  BY DEF CallShape, Live

LEMMA EndSettles ==
    ASSUME NEW s, NEW n, NEW t \in Calls, Ends(s, n, t),
           s.kind[t] = "connect" /\ Busy(s, t) => Area(s, t) \subseteq n.disturbed
    PROVE  \A u \in Calls : SameCall(s, n, u) \/ Settles(s, n, u)
<1>1. Settles(s, n, t)
  BY DEF Ends, Settles, Installed, Busy, Live
<1>q. QED BY <1>1 DEF Ends, Others

LEMMA PendingKept ==
    ASSUME NEW s, NEW n, NEW t \in Calls, NEW c, Others(s, n, t), Pending(s, c),
           Live(s, t) /\ c \in Todo(s, t) \cup s.affected[t] => Pending(n, c)
    PROVE  Pending(n, c)
<1>1. PICK u \in Calls : Live(s, u) /\ c \in Todo(s, u) \cup s.affected[u]
  BY DEF Pending
<1>2. CASE u = t
  BY <1>1, <1>2
<1>3. CASE u # t
  <2>1. SameCall(s, n, u)
    BY <1>3 DEF Others
  <2>q. QED BY <1>1, <2>1, SameCallFacts DEF SameCall, Pending
<1>q. QED BY <1>2, <1>3

LEMMA ProceedsKeeps ==
    ASSUME NEW s, NEW n, NEW t \in Calls, ViewInv(s), ViewTypes(n), Proceeds(s, n, t)
    PROVE  ViewInv(n)
<1>1. /\ ViewTypes(s) /\ Shape(s) /\ Place(s) /\ ShownInv(s)
      /\ CallShape(s, t)
  BY DEF ViewInv, Shape
<1>2. Still(s, n) /\ Others(s, n, t)
  BY DEF Proceeds
<1>3. \A a : Mine(n, a) = Mine(s, a) /\ First(n, a) = First(s, a)
  BY <1>2, SameOffers DEF Still
<1>4. Live(s, t) /\ Live(n, t) /\ s.kind[t] = "all" /\ s.from[t] = 1
      /\ n.affected[t] = {} /\ Todo(n, t) = Todo(s, t)
  <2>1. Live(s, t) /\ Live(n, t) /\ s.fields[t] # <<>> /\ s.affected[t] = {}
    BY <1>1 DEF Proceeds, Live, CallShape
  <2>2. s.kind[t] \in {"none", "connect", "channel", "all"}
    BY <1>1 DEF ViewTypes
  <2>3. s.kind[t] = "all"
    BY <1>1, <2>1, <2>2 DEF CallShape
  <2>4. s.from[t] = 1
    BY <1>1, <2>1, <2>3 DEF CallShape
  <2>q. QED BY <2>1, <2>3, <2>4 DEF Proceeds, Todo
<1>5. \A u \in Calls : SameCall(s, n, u) \/ Settles(s, n, u)
  <2>1. Settles(s, n, t)
    BY <1>4 DEF Proceeds, Settles, Installed
  <2>q. QED BY <1>2, <2>1 DEF Others
<1>6. Place(n) /\ Apart(n) /\ HolderInv(n) /\ CallInv(n)
  BY <1>2, <1>5, SettledKeeps
<1>7. Shape(n)
  <2>1. CallShape(n, t)
    BY <1>1, <1>3, <1>4 DEF Proceeds, CallShape
  <2>2. \A u \in Calls : u # t => CallShape(n, u)
    BY <1>1, <1>2, SameShape DEF Shape, Others, Still, Proceeds
  <2>q. QED BY <2>1, <2>2 DEF Shape
<1>8. ShownLive(n)
  <2> SUFFICES ASSUME NEW c \in Intact(s), s.state[c] = "connected", Pending(s, c)
               PROVE  Pending(n, c)
    BY <1>1 DEF Proceeds, ShownInv, ShownLive, Intact, Still
  <2>1. Live(s, t) /\ c \in Todo(s, t) \cup s.affected[t] => Pending(n, c)
    BY <1>4 DEF Proceeds, Pending
  <2>q. QED BY <1>2, <2>1, PendingKept
<1>9. PassedQuiet(n)
  <2> SUFFICES ASSUME NEW u \in Calls, n.kind[u] = "all", Busy(n, u),
                      NEW c \in Intact(n), c < n.from[u]
               PROVE  n.state[c] # "connected"
    BY DEF PassedQuiet
  <2>1. CASE u = t
    <3>1. n.from[t] = 1 /\ c \in Nat /\ c >= 1
      BY <1>4, BoundsAssumption DEF Proceeds, Intact, Slots
    <3>q. QED BY <2>1, <3>1
  <2>2. CASE u # t
    <3>1. SameCall(s, n, u)
      BY <1>2, <2>2 DEF Others
    <3>q. QED BY <1>1, <3>1, SameCallFacts
              DEF SameCall, ShownInv, PassedQuiet, Proceeds, Intact
  <2>q. QED BY <2>1, <2>2
<1>10. LinkShown(n)
  <2>1. \A u \in Calls : s.at[u] = "releasing" => n.at[u] = "releasing" /\ n.target[u] = s.target[u]
    BY <1>2 DEF Others, SameCall, Proceeds
  <2>2. \A u \in Calls : n.at[u] = "connecting" => s.at[u] = "connecting"
    BY <1>2 DEF Others, SameCall, Proceeds
  <2>q. QED BY <1>1, <1>3, <2>1, <2>2
            DEF ShownInv, LinkShown, Proceeds, Still, Intact
<1>q. QED BY <1>6, <1>7, <1>8, <1>9, <1>10 DEF ViewInv, ShownInv

(* A call that has ended leaves the others as they are.                    *)
LEMMA EndsKeeps ==
    ASSUME NEW s, NEW n, NEW t \in Calls, ViewInv(s), ViewTypes(n), Still(s, n),
           Ends(s, n, t), s.at[t] \in {"ready", "releasing", "connecting"},
           s.kind[t] = "connect" /\ Busy(s, t) => Area(s, t) \subseteq n.disturbed,
           \A a \in Calls : s.at[a] = "unused" => n.link[a] = s.link[a]
    PROVE  Shape(n) /\ Place(n) /\ Apart(n) /\ HolderInv(n) /\ CallInv(n)
<1>1. \A u \in Calls : SameCall(s, n, u) \/ Settles(s, n, u)
  BY EndSettles
<1>2. Place(n) /\ Apart(n) /\ HolderInv(n) /\ CallInv(n)
  BY <1>1, SettledKeeps
<1>3. CallShape(n, t)
  BY OverShape DEF Ends
<1>4. \A u \in Calls : u # t => CallShape(n, u)
  BY SameShape DEF Ends, Others, ViewInv, Shape, Still
<1>q. QED BY <1>2, <1>3, <1>4 DEF Shape

LEMMA EndsQuiet ==
    ASSUME NEW s, NEW n, NEW t \in Calls, PassedQuiet(s), Ends(s, n, t),
           s.disturbed \subseteq n.disturbed,
           \A c \in Intact(n) : n.state[c] = "connected" => s.state[c] = "connected"
    PROVE  PassedQuiet(n)
<1> SUFFICES ASSUME NEW u \in Calls, n.kind[u] = "all", Busy(n, u),
                    NEW c \in Intact(n), c < n.from[u]
             PROVE  n.state[c] # "connected"
  BY DEF PassedQuiet
<1>1. u # t
  BY DEF Ends
<1>2. SameCall(s, n, u)
  BY <1>1 DEF Ends, Others
<1>3. c \in Intact(s)
  BY DEF Intact
<1>q. QED BY <1>2, <1>3, SameCallFacts DEF PassedQuiet, SameCall

LEMMA ThrowsKeeps ==
    ASSUME NEW s, NEW n, NEW t \in Calls, ViewInv(s), ViewTypes(n), Throws(s, n, t)
    PROVE  ViewInv(n)
<1>1. /\ ViewTypes(s) /\ Shape(s) /\ Place(s) /\ ShownInv(s)
      /\ CallShape(s, t) /\ Still(s, n) /\ Ends(s, n, t) /\ Others(s, n, t)
  BY DEF ViewInv, Shape, Throws, Ends
<1>2. \A a : Mine(n, a) = Mine(s, a) /\ First(n, a) = First(s, a)
  BY <1>1, SameOffers DEF Still
<1>3. Live(s, t) /\ Todo(s, t) \cup s.affected[t] \subseteq Area(s, t)
  BY <1>1, AreaFacts DEF Throws, Live
<1>4. Shape(n) /\ Place(n) /\ Apart(n) /\ HolderInv(n) /\ CallInv(n)
  BY <1>1, EndsKeeps DEF Throws
<1>5. ShownLive(n)
  <2> SUFFICES ASSUME NEW c \in Intact(n), s.state[c] = "connected"
               PROVE  \/ /\ s.holder[c] \in s.heard /\ n.rates = TRUE
                         /\ s.link[s.holder[c]] = "open"
                      \/ Pending(n, c)
    BY <1>1 DEF Throws, ShownLive, Still
  <2>1. c \in Intact(s) /\ c \in Slots /\ c \notin Area(s, t)
    BY DEF Throws, Intact
  <2>2. s.kind[t] # "all"
    BY <1>1, <2>1, AreaFacts
  <2>3. Pending(s, c) => Pending(n, c)
    BY <1>1, <1>3, <2>1, PendingKept
  <2>q. QED BY <1>1, <2>1, <2>2, <2>3 DEF ShownInv, ShownLive, Throws
<1>6. PassedQuiet(n)
  BY <1>1, EndsQuiet DEF Throws, ShownInv, Still
<1>7. LinkShown(n)
  <2> SUFFICES ASSUME NEW a \in Calls, Mine(s, a) \subseteq Intact(n)
               PROVE  /\ n.at[a] = "connecting" => \A d \in Mine(s, a) : s.holder[d] = a
                      /\ s.link[a] = "open" =>
                           \/ \A d \in Mine(s, a) : s.holder[d] = a
                           \/ \E u \in Calls : n.at[u] = "releasing" /\ n.target[u] = a
    BY <1>1, <1>2 DEF LinkShown, Throws, Still
  <2>1. Mine(s, a) \subseteq Intact(s) /\ Mine(s, a) \cap Area(s, t) = {}
    BY DEF Throws, Intact
  <2>2. n.at[a] = "connecting" => s.at[a] = "connecting"
    BY <1>1 DEF Ends, Others, SameCall
  <2>3. s.target[t] = a => Mine(s, a) = {}
    <3> SUFFICES ASSUME s.target[t] = a PROVE Mine(s, a) = {}
      OBVIOUS
    <3>1. CASE s.fields[t] = <<>>
      <4>1. s.from[t] \in Mine(s, a)
        BY <1>1, <3>1 DEF Place, Throws
      <4>2. s.from[t] \in Todo(s, t)
        BY <1>1, <3>1 DEF CallShape, Throws, Todo, ViewTypes
      <4>q. QED BY <1>3, <2>1, <4>1, <4>2
    <3>2. CASE s.fields[t] # <<>>
      <4>1. s.kind[t] = "all"
        BY <1>1, <1>3, <3>2 DEF CallShape, ViewTypes
      <4>q. QED BY <1>1, <2>1, <4>1, AreaFacts
    <3>q. QED BY <3>1, <3>2
  <2>4. ASSUME NEW u \in Calls, s.at[u] = "releasing", s.target[u] = a, u # t
        PROVE  n.at[u] = "releasing" /\ n.target[u] = a
    BY <1>1, <2>4 DEF Others, SameCall
  <2>q. QED BY <1>1, <2>1, <2>2, <2>3, <2>4 DEF ShownInv, LinkShown
<1>q. QED BY <1>4, <1>5, <1>6, <1>7 DEF ViewInv, ShownInv

LEMMA FinishesKeeps ==
    ASSUME NEW s, NEW n, NEW t \in Calls, ViewInv(s), ViewTypes(n), Finishes(s, n, t)
    PROVE  ViewInv(n)
<1>1. /\ ViewTypes(s) /\ Shape(s) /\ Place(s) /\ ShownInv(s)
      /\ CallShape(s, t) /\ Still(s, n) /\ Ends(s, n, t) /\ Others(s, n, t)
  BY DEF ViewInv, Shape, Finishes, Ends
<1>2. \A a : Mine(n, a) = Mine(s, a) /\ First(n, a) = First(s, a)
  BY <1>1, SameOffers DEF Still
<1>3. Todo(s, t) = {} /\ s.affected[t] = {}
  BY <1>1 DEF Finishes, Todo, CallShape, ViewTypes
<1>4. Shape(n) /\ Place(n) /\ Apart(n) /\ HolderInv(n) /\ CallInv(n)
  BY <1>1, EndsKeeps DEF Finishes
<1>5. ShownLive(n)
  <2> SUFFICES ASSUME NEW c \in Intact(s), s.state[c] = "connected"
               PROVE  \/ /\ s.holder[c] \in s.heard /\ n.rates = TRUE
                         /\ s.link[s.holder[c]] = "open"
                      \/ Pending(n, c)
    BY <1>1 DEF Finishes, ShownLive, Still, Intact
  <2>1. s.kind[t] # "all"
    <3> SUFFICES ASSUME s.kind[t] = "all" PROVE FALSE
      OBVIOUS
    <3>1. c < s.from[t]
      <4>1. c \in 1 .. Channels /\ s.upto[t] = Channels /\ s.from[t] > s.upto[t]
        BY <1>1 DEF CallShape, Finishes, Intact, Slots
      <4>q. QED BY <1>1, <4>1, BoundsAssumption DEF ViewTypes
    <3>q. QED BY <1>1, <3>1 DEF ShownInv, PassedQuiet, Finishes, Busy
  <2>2. Pending(s, c) => Pending(n, c)
    BY <1>1, <1>3, PendingKept
  <2>q. QED BY <1>1, <2>1, <2>2 DEF ShownInv, ShownLive, Finishes
<1>6. PassedQuiet(n)
  BY <1>1, EndsQuiet DEF Finishes, ShownInv, Still
<1>7. LinkShown(n)
  <2>1. \A u \in Calls : s.at[u] = "releasing" => n.at[u] = "releasing" /\ n.target[u] = s.target[u]
    BY <1>1 DEF Others, SameCall, Finishes
  <2>2. \A u \in Calls : n.at[u] = "connecting" => s.at[u] = "connecting"
    BY <1>1 DEF Others, SameCall, Ends
  <2>q. QED BY <1>1, <1>2, <2>1, <2>2
            DEF ShownInv, LinkShown, Finishes, Still, Intact
<1>q. QED BY <1>4, <1>5, <1>6, <1>7 DEF ViewInv, ShownInv

LEMMA ConnectsKeeps ==
    ASSUME NEW s, NEW n, NEW t \in Calls, ViewInv(s), ViewTypes(n),
           Connects(s, n, t) \/ Fails(s, n, t)
    PROVE  ViewInv(n)
<1>1. /\ ViewTypes(s) /\ Shape(s) /\ Place(s) /\ ShownInv(s) /\ HolderInv(s)
      /\ CallShape(s, t) /\ Still(s, n) /\ Ends(s, n, t) /\ Others(s, n, t)
      /\ s.at[t] = "connecting" /\ n.disturbed = s.disturbed
  BY DEF ViewInv, Shape, Connects, Fails, Ends
<1>2. \A a : Mine(n, a) = Mine(s, a) /\ First(n, a) = First(s, a)
  BY <1>1, SameOffers DEF Still
<1>3. Todo(s, t) = {} /\ s.affected[t] = {} /\ s.kind[t] = "connect" /\ Live(s, t)
  BY <1>1 DEF Todo, CallShape, ViewTypes, Live
<1>4. Shape(n) /\ Place(n) /\ Apart(n) /\ HolderInv(n) /\ CallInv(n)
  <2>1. \A a \in Calls : s.at[a] = "unused" => n.link[a] = s.link[a]
    BY <1>1 DEF Connects, Fails
  <2>2. ~Busy(s, t)
    BY <1>1 DEF Busy
  <2>q. QED BY <1>1, <2>1, <2>2, EndsKeeps
<1>5. ShownLive(n)
  <2> SUFFICES ASSUME NEW c \in Intact(s), n.state[c] = "connected"
               PROVE  \/ /\ s.holder[c] \in s.heard /\ n.rates = TRUE
                         /\ n.link[s.holder[c]] = "open"
                      \/ Pending(n, c)
    BY <1>1 DEF ShownLive, Still, Intact
  <2>0. c \in Slots /\ s.heard \subseteq Calls
    BY <1>1 DEF Intact, ViewTypes
  <2>1. Pending(s, c) => Pending(n, c)
    BY <1>1, <1>3, PendingKept
  <2>2. s.holder[c] \in s.heard => c \in Mine(s, s.holder[c])
    BY <1>1, <2>0, CallTypes DEF Place
  <2>3. CASE Connects(s, n, t)
    <3>1. CASE t \in s.heard /\ c \in Mine(s, t)
      <4>1. s.holder[c] = t
        BY <1>1, <3>1 DEF HolderInv, HeardHeld
      <4>q. QED BY <2>3, <3>1, <4>1 DEF Connects
    <3>2. CASE ~(t \in s.heard /\ c \in Mine(s, t))
      <4>1. s.state[c] = "connected"
        BY <2>0, <2>3, <3>2 DEF Connects
      <4>2. s.holder[c] \in s.heard /\ s.link[s.holder[c]] = "open" =>
              n.link[s.holder[c]] = "open"
        BY <2>0, <2>3 DEF Connects
      <4>q. QED BY <1>1, <2>1, <2>3, <4>1, <4>2 DEF ShownInv, ShownLive, Connects
    <3>q. QED BY <3>1, <3>2
  <2>4. CASE Fails(s, n, t)
    <3>1. c \notin Mine(s, t) /\ s.state[c] = "connected"
      BY <2>0, <2>4 DEF Fails
    <3>2. s.holder[c] \in s.heard => n.link[s.holder[c]] = s.link[s.holder[c]]
      BY <2>0, <2>2, <2>4, <3>1 DEF Fails
    <3>q. QED BY <1>1, <2>1, <2>4, <3>1, <3>2 DEF ShownInv, ShownLive, Fails
  <2>q. QED BY <2>3, <2>4
<1>6. PassedQuiet(n)
  <2>1. CASE Fails(s, n, t)
    <3>1. \A c \in Intact(n) : n.state[c] = "connected" => s.state[c] = "connected"
      BY <2>1 DEF Fails, Intact
    <3>q. QED BY <1>1, <3>1, EndsQuiet DEF ShownInv
  <2>2. CASE Connects(s, n, t)
    <3> SUFFICES ASSUME NEW u \in Calls, n.kind[u] = "all", Busy(n, u),
                        NEW c \in Intact(s), c < n.from[u], n.state[c] = "connected"
                 PROVE  FALSE
      BY <1>1 DEF PassedQuiet, Intact
    <3>1. u # t /\ SameCall(s, n, u)
      BY <1>1 DEF Ends, Others
    <3>2. Live(s, u) /\ s.kind[u] = "all" /\ Busy(s, u)
      BY <3>1, SameCallFacts DEF Live, Busy, SameCall
    <3>3. c \in Area(s, u) /\ c \in Slots
      BY <1>1, <3>2, AreaFacts DEF Intact
    <3>4. c \notin Mine(s, t)
      <4>1. Mine(s, t) \subseteq Area(s, t)
        BY <1>1, <1>3, AreaFacts
      <4>q. QED BY <1>3, <3>1, <3>2, <3>3, <4>1, Meeting DEF ViewInv
    <3>5. s.state[c] = "connected"
      BY <2>2, <3>3, <3>4 DEF Connects
    <3>q. QED BY <1>1, <3>1, <3>2, <3>5 DEF ShownInv, PassedQuiet, SameCall
  <2>q. QED BY <2>1, <2>2
<1>7. LinkShown(n)
  <2> SUFFICES ASSUME NEW a \in Calls, Mine(s, a) \subseteq Intact(s)
               PROVE  /\ n.at[a] = "connecting" => \A d \in Mine(s, a) : s.holder[d] = a
                      /\ n.link[a] = "open" =>
                           \/ \A d \in Mine(s, a) : s.holder[d] = a
                           \/ \E u \in Calls : n.at[u] = "releasing" /\ n.target[u] = a
    BY <1>1, <1>2 DEF LinkShown, Still, Intact
  <2>1. \A u \in Calls : s.at[u] = "releasing" => n.at[u] = "releasing" /\ n.target[u] = s.target[u]
    BY <1>1 DEF Others, SameCall
  <2>2. n.at[a] = "connecting" => s.at[a] = "connecting"
    BY <1>1 DEF Others, SameCall, Ends
  <2>3. n.link[a] = "open" => a = t \/ s.link[a] = "open"
    BY DEF Connects, Fails
  <2>q. QED BY <1>1, <2>1, <2>2, <2>3 DEF ShownInv, LinkShown
<1>q. QED BY <1>4, <1>5, <1>6, <1>7 DEF ViewInv, ShownInv

LEMMA BreaksKeeps ==
    ASSUME NEW s, NEW n, NEW t \in Calls, ViewInv(s), ViewTypes(n), BreaksDown(s, n, t)
    PROVE  ViewInv(n)
<1>1. /\ ViewTypes(s) /\ Shape(s) /\ Place(s) /\ ShownInv(s)
      /\ Still(s, n) /\ \A u \in Calls : SameCall(s, n, u)
      /\ n.disturbed = s.disturbed
  BY DEF ViewInv, BreaksDown
<1>2. \A a : Mine(n, a) = Mine(s, a) /\ First(n, a) = First(s, a)
  BY <1>1, SameOffers DEF Still
<1>3. Place(n) /\ Apart(n) /\ HolderInv(n) /\ CallInv(n)
  BY <1>1, SettledKeeps
<1>4. Shape(n)
  BY <1>1, SameShape DEF Shape, BreaksDown, Still
<1>5. \A c \in Slots : n.state[c] = "connected" =>
         s.state[c] = "connected" /\ ~(t \in s.heard /\ c \in Mine(s, t))
  BY DEF BreaksDown
<1>6. ShownLive(n)
  <2> SUFFICES ASSUME NEW c \in Intact(s), n.state[c] = "connected"
               PROVE  \/ /\ s.holder[c] \in s.heard /\ n.rates = TRUE
                         /\ n.link[s.holder[c]] = "open"
                      \/ Pending(n, c)
    BY <1>1 DEF ShownLive, Still, Intact
  <2>0. c \in Slots /\ s.heard \subseteq Calls
    BY <1>1 DEF Intact, ViewTypes
  <2>1. Pending(s, c) => Pending(n, c)
    BY <1>1, SameCallFacts DEF Pending, SameCall
  <2>2. s.holder[c] \in s.heard => c \in Mine(s, s.holder[c])
    BY <1>1, <2>0, CallTypes DEF Place
  <2>3. s.holder[c] \in s.heard => n.link[s.holder[c]] = s.link[s.holder[c]]
    BY <1>5, <2>0, <2>2 DEF BreaksDown
  <2>q. QED BY <1>1, <1>5, <2>0, <2>1, <2>3 DEF ShownInv, ShownLive, BreaksDown
<1>7. PassedQuiet(n)
  BY <1>1, <1>5, SameCallFacts DEF ShownInv, PassedQuiet, SameCall, Intact
<1>8. LinkShown(n)
  <2>1. \A u \in Calls : n.at[u] = s.at[u] /\ n.target[u] = s.target[u]
    BY <1>1 DEF SameCall
  <2>2. \A a \in Calls : n.link[a] = "open" => s.link[a] = "open"
    BY DEF BreaksDown
  <2>q. QED BY <1>1, <1>2, <2>1, <2>2 DEF ShownInv, LinkShown, Still, Intact
<1>q. QED BY <1>3, <1>4, <1>6, <1>7, <1>8 DEF ViewInv, ShownInv
-----------------------------------------------------------------------------
(* The steps that release a slot: of a shared adapter, of an adapter of    *)
(* its own, and of none.                                                   *)
HeldBy(s, a) == {c \in Slots : s.holder[c] = a}
Here(s, t) == s.fields[t] = <<>> /\ s.from[t] \in Todo(s, t) \cap Slots

Cancels(s, n, R) ==
    /\ \A c \in Slots : n.source[c] = IF c \in R THEN None ELSE s.source[c]
    /\ n.heard = s.heard \ {s.source[c] : c \in R}

Frees(s, n, t) ==
    /\ s.at[t] = "ready" /\ Others(s, n, t)
    /\ n.kind[t] = s.kind[t] /\ n.fields[t] = s.fields[t] /\ n.upto[t] = s.upto[t]
    /\ n.shared = s.shared /\ n.offer = s.offer /\ n.link = s.link
    /\ n.disturbed = s.disturbed

FreesShared(s, n, t, a) ==
    /\ Frees(s, n, t) /\ \E f \in Names : s.shared[f] = a
    /\ \/ Here(s, t) /\ s.holder[s.from[t]] = a
       \/ s.kind[t] = "all" /\ s.fields[t] # <<>>
    /\ Cancels(s, n, HeldBy(s, a))
    /\ n.holder = s.holder /\ n.state = s.state /\ n.rates = s.rates
    /\ n.at[t] = "releasing" /\ n.from[t] = s.from[t]
    /\ n.target[t] = a /\ n.affected[t] = HeldBy(s, a)

FreesOwn(s, n, t) ==
    /\ Frees(s, n, t) /\ Here(s, t)
    /\ s.holder[s.from[t]] # None
    /\ \A f \in Names : s.shared[f] # s.holder[s.from[t]]
    /\ Cancels(s, n, {s.from[t]})
    /\ \A c \in Slots : n.holder[c] = IF c = s.from[t] THEN None ELSE s.holder[c]
    /\ n.state = s.state /\ n.rates = s.rates
    /\ n.at[t] = "releasing" /\ n.from[t] = s.from[t]
    /\ n.target[t] = s.holder[s.from[t]] /\ n.affected[t] = {}

FreesEmpty(s, n, t) ==
    /\ Frees(s, n, t) /\ Here(s, t) /\ s.holder[s.from[t]] = None
    /\ Cancels(s, n, {s.from[t]}) /\ n.holder = s.holder
    /\ \A c \in Slots : n.state[c] = IF c = s.from[t] THEN "disconnected"
                                     ELSE s.state[c]
    /\ s.rates = TRUE /\ (\E c \in Slots : n.state[c] = "connected") =>
          n.rates = TRUE
    /\ n.at[t] = "ready" /\ n.from[t] = s.from[t] + 1
    /\ n.target[t] = None /\ n.affected[t] = {}

LEMMA CancelsSource ==
    ASSUME NEW s, NEW n, NEW R, Cancels(s, n, R), NEW a, NEW c \in Slots,
           s.source[c] = a, a \in n.heard
    PROVE  n.source[c] = a /\ a \in s.heard
  BY DEF Cancels

LEMMA CancelsWhole ==
    ASSUME NEW s, NEW n, NEW R, Cancels(s, n, R), n.offer = s.offer,
           n.shared = s.shared, NEW a, First(s, a) \in Slots, Whole(s, a),
           \A d \in Mine(s, a) : n.holder[d] = a
    PROVE  Whole(n, a)
<1>1. Mine(n, a) = Mine(s, a) /\ First(n, a) = First(s, a)
  BY SameOffers
<1>2. a \in n.heard => n.source[First(s, a)] = a
  BY CancelsSource DEF Whole, Cancels
<1>q. QED BY <1>1, <1>2 DEF Whole

LEMMA CancelsReplaces ==
    ASSUME NEW s, NEW n, NEW R, Cancels(s, n, R), n.offer = s.offer,
           NEW a, First(s, a) \in Slots, NEW t, SameCall(s, n, t),
           Replaces(s, t, a), \A d \in Todo(s, t) : n.holder[d] = s.holder[d]
    PROVE  Replaces(n, t, a) /\ Todo(n, t) = Todo(s, t)
<1>1. First(n, a) = First(s, a)
  BY SameOffers
<1>2. a \in n.heard => /\ s.from[t] = First(s, a) /\ s.at[t] = "ready"
                       /\ n.source[First(s, a)] = a
  BY CancelsSource DEF Replaces, Cancels
<1>3. (Busy(n, t) <=> Busy(s, t)) /\ Todo(n, t) = Todo(s, t)
  BY SameCallFacts
<1>q. QED BY <1>1, <1>2, <1>3 DEF Replaces, SameCall

(* A release changes the call's stage and cancels subscriptions.           *)
LEMMA FreesFacts ==
    ASSUME NEW s, NEW n, NEW t \in Calls, ViewInv(s), Frees(s, n, t)
    PROVE  /\ ViewTypes(s) /\ Shape(s) /\ Place(s) /\ Apart(s)
           /\ CallShape(s, t) /\ Live(s, t) /\ Busy(s, t)
           /\ \A a : Mine(n, a) = Mine(s, a) /\ First(n, a) = First(s, a)
           /\ s.affected[t] = {} /\ Intact(n) = Intact(s)
           /\ Intact(s) \subseteq Slots
<1>1. ViewTypes(s) /\ Shape(s) /\ Place(s) /\ Apart(s)
  BY DEF ViewInv
<1>2. CallShape(s, t) /\ s.at[t] = "ready"
  BY <1>1 DEF Shape, Frees
<1>3. s.affected[t] = {}
  BY <1>2 DEF CallShape
<1>4. \A a : Mine(n, a) = Mine(s, a) /\ First(n, a) = First(s, a)
  BY SameOffers DEF Frees
<1>q. QED BY <1>1, <1>2, <1>3, <1>4 DEF Live, Busy, Intact, Frees

LEMMA FreesShape ==
    ASSUME NEW s, NEW n, NEW t \in Calls, ViewInv(s), Frees(s, n, t), CallShape(n, t)
    PROVE  Shape(n)
<1>1. Shape(s)
  BY DEF ViewInv
<1>2. \A u \in Calls : u # t => CallShape(n, u)
  BY <1>1, SameShape DEF Shape, Frees, Others
<1>q. QED BY <1>2 DEF Shape

LEMMA FreesApart ==
    ASSUME NEW s, NEW n, NEW t \in Calls, ViewInv(s), Frees(s, n, t),
           \A c \in Slots : n.holder[c] \in {None, s.holder[c]},
           n.affected[t] \subseteq Area(s, t)
    PROVE  Apart(n)
<1>1. ViewTypes(s) /\ Shape(s) /\ Apart(s) /\ Live(s, t)
  BY FreesFacts
<1>2. ASSUME NEW u \in Calls, Live(n, u)
      PROVE  Live(s, u) /\ n.kind[u] = s.kind[u] /\ Area(n, u) \subseteq Area(s, u)
  <2>1. Work(s, u) \subseteq Slots /\ s.affected[u] \subseteq Area(s, u)
    BY <1>1, AreaFacts
  <2>2. CASE u = t
    BY <1>1, <2>1, <2>2, AreaShrinks DEF Frees
  <2>3. CASE u # t
    <3>1. SameCall(s, n, u)
      BY <2>3 DEF Frees, Others
    <3>2. /\ n.kind[u] = s.kind[u] /\ n.upto[u] = s.upto[u]
          /\ n.offer[u] = s.offer[u] /\ n.affected[u] = s.affected[u]
      BY <3>1 DEF SameCall, Frees
    <3>q. QED BY <1>2, <2>1, <3>1, <3>2, AreaShrinks, SameCallFacts
  <2>q. QED BY <2>2, <2>3
<1>q. QED BY <1>1, <1>2, ApartKept DEF Frees

LEMMA FreesPlace ==
    ASSUME NEW s, NEW n, NEW t \in Calls, ViewInv(s), Frees(s, n, t),
           NEW R, Cancels(s, n, R),
           \A c \in Slots : n.holder[c] \in {None, s.holder[c]},
           n.at[t] \in {"ready", "releasing"},
           n.at[t] = "releasing" =>
              /\ n.affected[t] # {} => Installed(s, n.target[t])
                                 /\ n.affected[t] \subseteq Mine(s, n.target[t])
              /\ n.fields[t] = <<>> =>
                  /\ Installed(s, n.target[t])
                  /\ n.from[t] \in Mine(s, n.target[t])
                  /\ n.affected[t] # {} => n.from[t] \in n.affected[t],
           n.at[t] = "releasing" => n.target[t] \in Calls
    PROVE  Place(n)
<1>1. /\ ViewTypes(s) /\ Shape(s) /\ Place(s)
      /\ \A a : Mine(n, a) = Mine(s, a) /\ First(n, a) = First(s, a)
  BY FreesFacts
<1>2. \A a \in Calls : Installed(s, a) => Installed(n, a)
  BY SameCallFacts DEF Frees, Others, Installed
<1>3. \A c \in Slots : n.holder[c] # None =>
         Installed(n, n.holder[c]) /\ c \in Mine(n, n.holder[c])
  BY <1>1, <1>2 DEF Place, ViewTypes
<1>4. \A c \in Slots : n.source[c] # None =>
         Installed(n, n.source[c]) /\ c = First(n, n.source[c])
  <2>1. \A c \in Slots : n.source[c] \in {None, s.source[c]}
    BY DEF Cancels
  <2>q. QED BY <1>1, <1>2, <2>1 DEF Place, ViewTypes
<1>5. \A a \in n.heard : Installed(n, a)
  <2>1. n.heard \subseteq s.heard /\ s.heard \subseteq Calls
    BY <1>1 DEF Cancels, ViewTypes
  <2>q. QED BY <1>1, <1>2, <2>1 DEF Place
<1>6. \A f \in Names : n.shared[f] # None => n.offer[n.shared[f]].field = f
  BY <1>1 DEF Place, Frees
<1>7. ASSUME NEW u \in Calls, n.at[u] = "releasing"
      PROVE  /\ n.affected[u] # {} => Installed(n, n.target[u])
                                 /\ n.affected[u] \subseteq Mine(n, n.target[u])
             /\ n.fields[u] = <<>> =>
                  /\ Installed(n, n.target[u])
                  /\ n.from[u] \in Mine(n, n.target[u])
                  /\ n.affected[u] # {} => n.from[u] \in n.affected[u]
  <2>1. CASE u = t
    BY <1>1, <1>2, <1>7, <2>1
  <2>2. CASE u # t
    <3>1. SameCall(s, n, u)
      BY <2>2 DEF Frees, Others
    <3>2. s.at[u] = "releasing" /\ s.target[u] \in Calls
      BY <1>1, <1>7, <3>1 DEF SameCall, Shape, CallShape
    <3>3. /\ s.affected[u] # {} => Installed(s, s.target[u])
                                   /\ s.affected[u] \subseteq Mine(s, s.target[u])
          /\ s.fields[u] = <<>> =>
                  /\ Installed(s, s.target[u])
                  /\ s.from[u] \in Mine(s, s.target[u])
                  /\ s.affected[u] # {} => s.from[u] \in s.affected[u]
      BY <1>1, <3>2 DEF Place
    <3>q. QED BY <1>1, <1>2, <3>1, <3>2, <3>3 DEF SameCall
  <2>q. QED BY <2>1, <2>2
<1>q. QED BY <1>3, <1>4, <1>5, <1>6, <1>7 DEF Place

(* What the slots of a released call held, when it releases a shared       *)
(* adapter: everything that shares the slot shares the adapter.            *)
LEMMA SharedFacts ==
    ASSUME NEW s, NEW n, NEW t \in Calls, NEW a \in Calls, ViewInv(s),
           FreesShared(s, n, t, a)
    PROVE  /\ HeldBy(s, a) \subseteq Area(s, t)
           /\ HeldBy(s, a) \subseteq Mine(s, a)
           /\ HeldBy(s, a) # {} => Installed(s, a)
           /\ \A c : ~Replaced(s, a, c)
           /\ \A b \in Calls : Replaces(s, t, b) => b = a
<1>1. ViewTypes(s) /\ Shape(s) /\ Place(s) /\ CallShape(s, t) /\ Live(s, t)
      /\ Frees(s, n, t)
  BY FreesFacts DEF FreesShared
<1>2. HeldBy(s, a) \subseteq Area(s, t)
  <2> SUFFICES ASSUME NEW c \in Slots, s.holder[c] = a PROVE c \in Area(s, t)
    BY DEF HeldBy
  <2>1. CASE Here(s, t) /\ s.holder[s.from[t]] = a
    <3>1. s.from[t] \in Work(s, t)
      BY <1>1, <2>1, AreaFacts DEF Here
    <3>2. a # None
      BY CallTypes
    <3>q. QED BY <2>1, <3>1, <3>2, SameHolder
  <2>2. CASE s.kind[t] = "all"
    BY <1>1, <2>2, AreaFacts
  <2>q. QED BY <2>1, <2>2 DEF FreesShared
<1>3. HeldBy(s, a) \subseteq Mine(s, a) /\ (HeldBy(s, a) # {} => Installed(s, a))
  BY <1>1, CallTypes DEF HeldBy, Place
<1>4. \A c : ~Replaced(s, a, c)
  BY DEF FreesShared, Replaced
<1>5. ASSUME NEW b \in Calls, Replaces(s, t, b) PROVE b = a
  <2>1. s.kind[t] = "connect" /\ s.at[t] = "ready"
    BY <1>1, <1>5 DEF Replaces, Frees
  <2>2. Here(s, t) /\ s.holder[s.from[t]] = a
    BY <2>1 DEF FreesShared
  <2>q. QED BY <1>5, <2>1, <2>2 DEF Here, Replaces
<1>q. QED BY <1>2, <1>3, <1>4, <1>5

LEMMA FreesSharedKeeps ==
    ASSUME NEW s, NEW n, NEW t \in Calls, NEW a \in Calls, ViewInv(s), ViewTypes(n),
           FreesShared(s, n, t, a)
    PROVE  ViewInv(n)
<1>1. /\ ViewTypes(s) /\ Shape(s) /\ Place(s) /\ Apart(s) /\ CallShape(s, t)
      /\ Live(s, t) /\ Frees(s, n, t) /\ Cancels(s, n, HeldBy(s, a))
      /\ Others(s, n, t) /\ s.at[t] = "ready" /\ n.at[t] = "releasing"
      /\ \A b : Mine(n, b) = Mine(s, b) /\ First(n, b) = First(s, b)
      /\ s.affected[t] = {} /\ Intact(n) = Intact(s) /\ Intact(s) \subseteq Slots
      /\ n.offer = s.offer /\ n.shared = s.shared /\ n.holder = s.holder
      /\ n.state = s.state
  BY FreesFacts DEF FreesShared, Frees
<1>2. HolderInv(s) /\ ShownInv(s) /\ CallInv(s)
  BY DEF ViewInv
<1>3. /\ HeldBy(s, a) \subseteq Area(s, t)
      /\ HeldBy(s, a) \subseteq Mine(s, a)
      /\ HeldBy(s, a) # {} => Installed(s, a)
      /\ \A c : ~Replaced(s, a, c)
      /\ \A b \in Calls : Replaces(s, t, b) => b = a
  BY SharedFacts
<1>4. n.heard \subseteq s.heard
  BY <1>1 DEF Cancels
<1>5. \A c \in Slots : n.source[c] \in {None, s.source[c]}
  BY <1>1 DEF Cancels
<1>6. ASSUME NEW u \in Calls, u # t PROVE SameCall(s, n, u)
  BY <1>1, <1>6 DEF Others
<1>7. s.kind[t] # "all" =>
        Here(s, t) /\ s.holder[s.from[t]] = a /\ s.from[t] \in HeldBy(s, a)
  BY DEF FreesShared, Here, HeldBy
<1>8. /\ n.kind[t] = s.kind[t] /\ n.fields[t] = s.fields[t] /\ n.upto[t] = s.upto[t]
      /\ n.from[t] = s.from[t] /\ n.target[t] = a /\ n.affected[t] = HeldBy(s, a)
      /\ Live(n, t) /\ Busy(n, t) /\ Busy(s, t) /\ Todo(n, t) = Todo(s, t)
  BY <1>1 DEF FreesShared, Frees, Live, Busy, Todo
<1>9. s.fields[t] = <<>> =>
        Here(s, t) /\ s.holder[s.from[t]] = a /\ s.from[t] \in HeldBy(s, a)
  BY <1>7 DEF FreesShared, Here, HeldBy
<1>10. Shape(n)
  <2>1. s.fields[t] = <<>> => s.from[t] <= s.upto[t]
    BY <1>1, <1>9 DEF Here, Todo, ViewTypes
  <2>2. CallShape(n, t)
    BY <1>1, <1>8, <2>1 DEF CallShape
  <2>q. QED BY <1>1, <2>2, FreesShape
<1>11. Place(n)
  <2>1. HeldBy(s, a) \subseteq Mine(s, a) /\ n.target[t] \in Calls
    BY <1>3, <1>8
  <2>2. \A c \in Slots : n.holder[c] \in {None, s.holder[c]}
    BY <1>1
  <2>3. n.fields[t] = <<>> => /\ Installed(s, n.target[t])
                              /\ n.from[t] \in Mine(s, n.target[t])
                              /\ n.affected[t] # {} => n.from[t] \in n.affected[t]
    BY <1>3, <1>8, <1>9
  <2>q. QED BY <1>1, <1>3, <1>8, <2>1, <2>2, <2>3, FreesPlace
<1>12. Apart(n)
  BY <1>1, <1>3, <1>8, FreesApart
<1>13. ASSUME NEW c \in Intact(s), s.holder[c] # None
       PROVE  /\ s.holder[c] \in Calls /\ First(s, s.holder[c]) \in Slots
              /\ First(s, s.holder[c]) \in Mine(s, s.holder[c])
              /\ c \in Mine(s, s.holder[c]) /\ Installed(s, s.holder[c])
              /\ Mine(s, s.holder[c]) \subseteq Slots
              /\ Whole(s, s.holder[c]) \/ Replaced(s, s.holder[c], c)
  <2>1. Whole(s, s.holder[c]) \/ Replaced(s, s.holder[c], c)
    BY <1>2, <1>13 DEF HolderInv, HeldWhole
  <2>q. QED BY <1>1, <1>13, <2>1, HolderFacts
<1>14. HeldWhole(n)
  <2> SUFFICES ASSUME NEW c \in Intact(s), s.holder[c] # None
               PROVE  Whole(n, s.holder[c]) \/ Replaced(n, s.holder[c], c)
    BY <1>1 DEF HeldWhole
  <2>1. CASE Whole(s, s.holder[c])
    BY <1>1, <1>13, <2>1, CancelsWhole, SMTT(20) DEF Whole
  <2>2. CASE Replaced(s, s.holder[c], c)
    <3>1. PICK z \in Calls : Replaces(s, z, s.holder[c]) /\ c \in Todo(s, z)
      BY <2>2 DEF Replaced
    <3>2. z # t
      BY <1>3, <1>13, <2>2, <3>1
    <3>3. Replaces(n, z, s.holder[c]) /\ c \in Todo(n, z)
      BY <1>1, <1>6, <1>13, <3>1, <3>2, CancelsReplaces
    <3>q. QED BY <1>1, <2>2, <3>3 DEF Replaced
  <2>q. QED BY <1>13, <2>1, <2>2
<1>15. HeardHeld(n)
  BY <1>1, <1>2, <1>4 DEF HolderInv, HeardHeld
<1>16. FreedEmpty(n)
  <2> SUFFICES ASSUME NEW u \in Calls, n.at[u] = "releasing", n.fields[u] = <<>>,
                      n.affected[u] = {}, n.from[u] \in Intact(s)
               PROVE  s.holder[n.from[u]] = None
    BY <1>1 DEF FreedEmpty
  <2>1. u # t
    BY <1>8, <1>9
  <2>q. QED BY <1>2, <1>6, <2>1 DEF HolderInv, FreedEmpty, SameCall
<1>17. Covered(n)
  <2> SUFFICES ASSUME NEW u \in Calls, n.at[u] = "releasing",
                      n.affected[u] # {} \/ n.fields[u] # <<>>,
                      NEW c \in Intact(s), s.holder[c] = n.target[u]
               PROVE  c \in n.affected[u]
    BY <1>1 DEF Covered
  <2>1. CASE u = t
    BY <1>1, <1>8, <2>1 DEF HeldBy
  <2>2. CASE u # t
    BY <1>2, <1>6, <2>2 DEF HolderInv, Covered, SameCall
  <2>q. QED BY <2>1, <2>2
<1>18. ShownLive(n)
  <2> SUFFICES ASSUME NEW c \in Intact(s), s.state[c] = "connected"
               PROVE  \/ /\ s.holder[c] \in n.heard /\ s.rates = TRUE
                         /\ s.link[s.holder[c]] = "open"
                      \/ Pending(n, c)
    BY <1>1 DEF ShownLive, FreesShared, Frees
  <2>1. Pending(s, c) => Pending(n, c)
    <3>1. Live(s, t) /\ c \in Todo(s, t) \cup s.affected[t] => Pending(n, c)
      BY <1>1, <1>8 DEF Pending
    <3>q. QED BY <1>1, <3>1, PendingKept
  <2>2. CASE s.holder[c] = a
    <3>1. c \in n.affected[t]
      BY <1>1, <1>8, <2>2 DEF HeldBy
    <3>q. QED BY <1>8, <3>1 DEF Pending
  <2>3. CASE s.holder[c] \in s.heard \ n.heard /\ s.holder[c] # a
    <3>0. s.holder[c] # None /\ s.heard \subseteq Calls
      BY <1>1, <2>3, CallTypes DEF ViewTypes
    <3>1. PICK d \in HeldBy(s, a) : s.source[d] = s.holder[c]
      BY <1>1, <2>3 DEF Cancels
    <3>2. d \in Slots /\ s.holder[d] = a /\ d = First(s, s.holder[c])
      BY <1>1, <3>0, <3>1 DEF HeldBy, Place
    <3>3. ~Whole(s, s.holder[c])
      BY <1>13, <2>3, <3>0, <3>2 DEF Whole
    <3>4. Replaced(s, s.holder[c], c)
      BY <1>13, <3>0, <3>3
    <3>5. Pending(s, c)
      BY <3>4 DEF Replaced, Replaces, Pending, Live, Busy
    <3>q. QED BY <2>1, <3>5
  <2>q. QED BY <1>2, <2>1, <2>2, <2>3 DEF ShownInv, ShownLive
<1>19. PassedQuiet(n)
  <2> SUFFICES ASSUME NEW u \in Calls, n.kind[u] = "all", Busy(n, u),
                      NEW c \in Intact(s), c < n.from[u]
               PROVE  s.state[c] # "connected"
    BY <1>1 DEF PassedQuiet
  <2>1. s.kind[u] = "all" /\ Busy(s, u) /\ n.from[u] = s.from[u]
    BY <1>6, <1>8, SameCallFacts DEF SameCall
  <2>q. QED BY <1>2, <2>1 DEF ShownInv, PassedQuiet
<1>20. LinkShown(n)
  <2>1. \A u \in Calls : s.at[u] = "releasing" => n.at[u] = "releasing" /\ n.target[u] = s.target[u]
    BY <1>1, <1>6 DEF SameCall
  <2>2. \A u \in Calls : n.at[u] = "connecting" => s.at[u] = "connecting"
    BY <1>1, <1>6 DEF SameCall
  <2>3. n.link = s.link
    BY <1>1 DEF Frees
  <2>q. QED BY <1>1, <1>2, <2>1, <2>2, <2>3 DEF ShownInv, LinkShown
<1>21. AffectedOwn(n)
  <2> SUFFICES ASSUME NEW c \in Intact(s), NEW u \in Calls, s.holder[c] # None,
                      n.target[u] # s.holder[c]
               PROVE  n.affected[u] \cap Mine(s, s.holder[c]) = {}
    BY <1>1 DEF AffectedOwn
  <2>1. CASE u # t
    BY <1>2, <1>6, <2>1 DEF CallInv, AffectedOwn, SameCall
  <2>2. CASE u = t
    <3> SUFFICES ASSUME NEW d \in HeldBy(s, a), d \in Mine(s, s.holder[c]) PROVE FALSE
      BY <1>8, <2>2
    <3>1. s.holder[d] = a /\ s.holder[c] # a
      BY <1>8, <2>2 DEF HeldBy
    <3>2. Replaced(s, s.holder[c], c)
      BY <1>13, <3>1 DEF Whole
    <3>3. Replaces(s, t, s.holder[c])
      BY <1>1, <1>3, <3>2, OnlyReplacer
    <3>q. QED BY <1>3, <1>13, <3>1, <3>3
  <2>q. QED BY <2>1, <2>2
<1>22. AffectedSilent(n)
  <2> SUFFICES ASSUME NEW u \in Calls, NEW c \in Intact(s), c \in n.affected[u],
                      n.target[u] \in n.heard
               PROVE  FALSE
    BY <1>1 DEF AffectedSilent
  <2>1. CASE u # t
    BY <1>2, <1>4, <1>6, <2>1 DEF CallInv, AffectedSilent, SameCall
  <2>2. CASE u = t
    <3>1. s.holder[c] = a /\ a # None
      BY <1>8, <2>2, CallTypes DEF HeldBy
    <3>2. Whole(s, a) /\ First(s, a) \in Slots /\ First(s, a) \in Mine(s, a)
      BY <1>3, <1>13, <3>1
    <3>3. First(s, a) \in HeldBy(s, a) /\ s.source[First(s, a)] = a
      BY <1>4, <1>8, <2>2, <3>2 DEF Whole, HeldBy
    <3>q. QED BY <1>1, <1>8, <2>2, <3>3 DEF Cancels
  <2>q. QED BY <2>1, <2>2
<1>23. PassedApart(n)
  <2> SUFFICES ASSUME NEW c \in Intact(s), NEW u \in Calls, s.holder[c] # None,
                      n.kind[u] = "connect", Busy(n, u)
               PROVE  \/ Passed(n, u) \cap Mine(s, s.holder[c]) = {}
                      \/ Replaces(n, u, s.holder[c]) /\ c \in Todo(n, u)
    BY <1>1 DEF PassedApart
  <2>0. s.kind[u] = "connect" /\ Busy(s, u)
    BY <1>6, <1>8, SameCallFacts DEF SameCall
  <2>1. \/ Passed(s, u) \cap Mine(s, s.holder[c]) = {}
        \/ Replaces(s, u, s.holder[c]) /\ c \in Todo(s, u)
    BY <1>2, <2>0 DEF CallInv, PassedApart
  <2>2. CASE u # t
    <3>1. Passed(n, u) = Passed(s, u)
      BY <1>1, <1>6, <2>2 DEF Passed, SameCall
    <3>2. Replaces(s, u, s.holder[c]) => Replaces(n, u, s.holder[c]) /\ Todo(n, u) = Todo(s, u)
      BY <1>1, <1>6, <1>13, <2>2, CancelsReplaces
    <3>q. QED BY <2>1, <3>1, <3>2
  <2>3. CASE u = t
    <3>1. n.affected[t] # {}
      BY <1>7, <1>8, <2>0, <2>3
    <3>2. Passed(n, t) \subseteq Passed(s, t)
      BY <1>1, <1>8, <3>1 DEF Passed
    <3>3. ~(Replaces(s, t, s.holder[c]) /\ c \in Todo(s, t))
      <4> SUFFICES ASSUME Replaces(s, t, s.holder[c]), c \in Todo(s, t) PROVE FALSE
        OBVIOUS
      <4>1. s.holder[c] = a
        BY <1>3, <1>13
      <4>2. s.offer[t] = s.offer[a] /\ s.offer[a].field # "none"
        BY <4>1 DEF Replaces
      <4>3. c \in Mine(s, t)
        BY <1>1, <2>0, <2>3, AreaFacts DEF Work
      <4>4. s.shared[s.offer[t].field] = t
        BY <1>2, <1>8, <2>0, <2>3, <4>2, <4>3 DEF CallInv, ClaimsField
      <4>5. PICK f \in Names : s.shared[f] = a
        BY DEF FreesShared
      <4>6. s.offer[a].field = f
        BY <1>1, <4>5, CallTypes DEF Place
      <4>7. a = t
        BY <4>2, <4>4, <4>5, <4>6
      <4>q. QED BY <1>1, <1>13, <4>1, <4>7 DEF Installed
    <3>q. QED BY <2>1, <2>3, <3>2, <3>3
  <2>q. QED BY <2>2, <2>3
<1>24. ClaimsField(n)
  <2> SUFFICES ASSUME NEW u \in Calls, n.kind[u] = "connect", Busy(n, u),
                      s.offer[u].field # "none", Mine(s, u) \cap Intact(s) # {}
               PROVE  s.shared[s.offer[u].field] = u
    BY <1>1 DEF ClaimsField
  <2>1. s.kind[u] = "connect" /\ Busy(s, u)
    BY <1>6, <1>8, SameCallFacts DEF SameCall
  <2>q. QED BY <1>2, <2>1 DEF CallInv, ClaimsField
<1>q. QED BY <1>10, <1>11, <1>12, <1>14, <1>15, <1>16, <1>17, <1>18, <1>19, <1>20,
             <1>21, <1>22, <1>23, <1>24 DEF ViewInv, HolderInv, ShownInv, CallInv

(* What another call's adapter is to a slot about to be released.          *)
LEMMA HereFacts ==
    ASSUME NEW s, NEW n, NEW t \in Calls, ViewInv(s), Frees(s, n, t), Here(s, t)
    PROVE  /\ s.from[t] \in Slots /\ s.from[t] \in Todo(s, t)
           /\ s.from[t] \in Area(s, t) /\ s.fields[t] = <<>>
           /\ s.from[t] <= s.upto[t] /\ s.from[t] \in Nat /\ s.upto[t] \in Nat
           /\ \A b \in Calls : Replaces(s, t, b) => s.holder[s.from[t]] = b
           /\ \A c \in Intact(s) : s.holder[c] # None =>
                /\ s.holder[c] \in Calls /\ First(s, s.holder[c]) \in Slots
                /\ First(s, s.holder[c]) \in Mine(s, s.holder[c])
                /\ c \in Mine(s, s.holder[c]) /\ Installed(s, s.holder[c])
                /\ Mine(s, s.holder[c]) \subseteq Slots
                /\ Whole(s, s.holder[c]) \/ Replaced(s, s.holder[c], c)
                /\ s.from[t] \in Mine(s, s.holder[c]) =>
                     s.holder[s.from[t]] = s.holder[c]
<1>1. ViewTypes(s) /\ Shape(s) /\ Place(s) /\ Apart(s) /\ Live(s, t)
      /\ Intact(s) \subseteq Slots /\ s.at[t] = "ready"
  BY FreesFacts DEF Frees
<1>2. s.from[t] \in Slots /\ s.from[t] \in Todo(s, t) /\ s.fields[t] = <<>>
      /\ s.from[t] \in Nat /\ s.upto[t] \in Nat
  BY <1>1 DEF Here, ViewTypes
<1>3. s.from[t] \in Area(s, t) /\ s.from[t] <= s.upto[t]
  BY <1>1, <1>2, AreaFacts DEF Todo
<1>4. \A b \in Calls : Replaces(s, t, b) => s.holder[s.from[t]] = b
  BY <1>1, <1>2 DEF Replaces
<1>5. ASSUME NEW c \in Intact(s), s.holder[c] # None
      PROVE  /\ s.holder[c] \in Calls /\ First(s, s.holder[c]) \in Slots
             /\ First(s, s.holder[c]) \in Mine(s, s.holder[c])
             /\ c \in Mine(s, s.holder[c]) /\ Installed(s, s.holder[c])
             /\ Mine(s, s.holder[c]) \subseteq Slots
             /\ Whole(s, s.holder[c]) \/ Replaced(s, s.holder[c], c)
             /\ s.from[t] \in Mine(s, s.holder[c]) =>
                  s.holder[s.from[t]] = s.holder[c]
  <2>1. Whole(s, s.holder[c]) \/ Replaced(s, s.holder[c], c)
    BY <1>5 DEF ViewInv, HolderInv, HeldWhole
  <2>2. s.from[t] \in Mine(s, s.holder[c]) => s.holder[s.from[t]] = s.holder[c]
    BY <1>1, <1>2, <1>5, AtFrom
  <2>q. QED BY <1>1, <1>5, <2>1, <2>2, HolderFacts
<1>q. QED BY <1>2, <1>3, <1>4, <1>5

LEMMA OwnFacts ==
    ASSUME NEW s, NEW n, NEW t \in Calls, ViewInv(s), FreesOwn(s, n, t)
    PROVE  LET a == s.holder[s.from[t]] IN
           /\ \A c \in Intact(s) : c # s.from[t] /\ s.holder[c] = a =>
                Replaces(s, t, a) /\ c \in Todo(s, t)
           /\ s.from[t] \in Intact(s) => a \notin n.heard
           /\ \A c \in Intact(s), z \in Calls :
                s.holder[c] # None /\ Replaces(s, z, s.holder[c]) /\ c \in Todo(s, z) =>
                   Replaces(n, z, s.holder[c]) /\ c \in Todo(n, z)
<1> DEFINE d == s.from[t]
           a == s.holder[d]
<1>1. /\ ViewTypes(s) /\ Shape(s) /\ Place(s) /\ Apart(s) /\ Live(s, t)
      /\ Frees(s, n, t) /\ Here(s, t) /\ Cancels(s, n, {d}) /\ s.at[t] = "ready"
      /\ n.offer = s.offer /\ Others(s, n, t) /\ Intact(s) \subseteq Slots
      /\ a # None /\ \A f \in Names : s.shared[f] # a
  BY FreesFacts DEF FreesOwn, Frees
<1>2. /\ d \in Slots /\ d \in Todo(s, t) /\ d \in Area(s, t)
      /\ \A b \in Calls : Replaces(s, t, b) => a = b
      /\ \A c \in Intact(s) : s.holder[c] # None =>
                /\ s.holder[c] \in Calls /\ First(s, s.holder[c]) \in Slots
                /\ c \in Mine(s, s.holder[c])
                /\ Whole(s, s.holder[c]) \/ Replaced(s, s.holder[c], c)
  BY <1>1, HereFacts
<1>3. /\ a \in Calls /\ d \in Mine(s, a) /\ First(s, a) \in Mine(s, a)
      /\ First(s, a) \in Slots /\ s.offer[a].field \in {"none"} \cup Names
      /\ s.offer[a].field = "none" => Mine(s, a) = {d}
  BY <1>1, <1>2, HolderFacts
<1>4. Whole(s, a) => Mine(s, a) = {d}
  BY <1>1, <1>3 DEF Whole
<1>5. ASSUME NEW c \in Intact(s), c # d, s.holder[c] = a
      PROVE  Replaces(s, t, a) /\ c \in Todo(s, t)
  <2>1. Replaced(s, a, c)
    BY <1>1, <1>2, <1>4, <1>5
  <2>q. QED BY <1>1, <1>2, <1>3, <2>1, OnlyReplacer
<1>6. s.source[d] = a => a \notin n.heard
  BY <1>1 DEF Cancels
<1>7. Replaces(s, t, a) => a \notin n.heard
  <2>1. n.heard \subseteq s.heard
    BY <1>1 DEF Cancels
  <2>q. QED BY <1>6, <2>1 DEF Replaces
<1>8. ASSUME d \in Intact(s) PROVE a \notin n.heard
  <2>1. CASE Whole(s, a)
    <3>1. a \in s.heard => s.source[d] = a
      BY <1>3, <1>4, <2>1 DEF Whole
    <3>2. n.heard \subseteq s.heard
      BY <1>1 DEF Cancels
    <3>q. QED BY <1>6, <3>1, <3>2
  <2>2. CASE Replaced(s, a, d)
    <3>1. Replaces(s, t, a)
      BY <1>1, <1>2, <1>8, <2>2, OnlyReplacer
    <3>q. QED BY <1>7, <3>1
  <2>q. QED BY <1>1, <1>2, <1>8, <2>1, <2>2
<1>9. ASSUME NEW c \in Intact(s), NEW z \in Calls, s.holder[c] # None,
             Replaces(s, z, s.holder[c]), c \in Todo(s, z)
      PROVE  Replaces(n, z, s.holder[c]) /\ c \in Todo(n, z)
  <2>0. s.holder[c] \in Calls /\ First(s, s.holder[c]) \in Slots
    BY <1>2, <1>9
  <2>1. CASE z = t
    <3>1. s.holder[c] = a
      BY <1>2, <1>9, <2>0, <2>1
    <3>2. a \notin n.heard
      BY <1>7, <1>9, <2>1, <3>1
    <3>3. /\ n.kind[t] = s.kind[t] /\ n.upto[t] = s.upto[t] /\ n.from[t] = d
          /\ n.at[t] = "releasing" /\ n.affected[t] = {}
      BY DEF FreesOwn, Frees
    <3>4. \A e \in Todo(s, t) : s.holder[e] = a
      BY <1>1, <1>9, <2>1, <3>1 DEF Replaces
    <3>5. \A e \in Todo(s, t) : n.holder[e] = a \/ e = d
      <4>1. Todo(s, t) \subseteq Slots
        BY <1>1, AreaFacts
      <4>q. QED BY <3>4, <4>1 DEF FreesOwn
    <3>6. Todo(n, t) = Todo(s, t)
      BY <3>3 DEF Todo
    <3>q. QED BY <1>1, <1>9, <2>1, <3>1, <3>2, <3>3, <3>5, <3>6 DEF Replaces, Busy
  <2>2. CASE z # t
    <3>1. Live(s, z) /\ s.kind[z] = "connect"
      BY <1>9 DEF Replaces, Busy, Live
    <3>2. Todo(s, z) \subseteq Area(s, z) /\ Todo(s, z) \subseteq Slots
      BY <1>1, <3>1, AreaFacts
    <3>3. d \notin Todo(s, z)
      BY <1>1, <1>2, <1>9, <2>2, <3>1, <3>2, Meeting
    <3>4. \A e \in Todo(s, z) : n.holder[e] = s.holder[e]
      BY <3>2, <3>3 DEF FreesOwn
    <3>5. SameCall(s, n, z)
      BY <1>1, <2>2 DEF Others
    <3>q. QED BY <1>1, <1>9, <2>0, <3>4, <3>5, CancelsReplaces
  <2>q. QED BY <2>1, <2>2
<1>q. QED BY <1>5, <1>8, <1>9

LEMMA FreesOwnKeeps ==
    ASSUME NEW s, NEW n, NEW t \in Calls, ViewInv(s), ViewTypes(n), FreesOwn(s, n, t)
    PROVE  ViewInv(n)
<1> DEFINE d == s.from[t]
           a == s.holder[d]
<1>1. /\ ViewTypes(s) /\ Shape(s) /\ Place(s) /\ Apart(s) /\ CallShape(s, t)
      /\ Live(s, t) /\ Frees(s, n, t) /\ Here(s, t) /\ Cancels(s, n, {d})
      /\ Others(s, n, t) /\ s.at[t] = "ready" /\ n.at[t] = "releasing"
      /\ \A b : Mine(n, b) = Mine(s, b) /\ First(n, b) = First(s, b)
      /\ s.affected[t] = {} /\ Intact(n) = Intact(s) /\ Intact(s) \subseteq Slots
      /\ n.offer = s.offer /\ n.shared = s.shared /\ n.link = s.link
      /\ n.state = s.state /\ n.rates = s.rates
  BY FreesFacts DEF FreesOwn, Frees
<1>2. HolderInv(s) /\ ShownInv(s) /\ CallInv(s)
  BY DEF ViewInv
<1>3. /\ d \in Slots /\ d \in Todo(s, t) /\ d \in Area(s, t) /\ s.fields[t] = <<>>
      /\ d <= s.upto[t]
      /\ \A b \in Calls : Replaces(s, t, b) => a = b
      /\ \A c \in Intact(s) : s.holder[c] # None =>
                /\ s.holder[c] \in Calls /\ First(s, s.holder[c]) \in Slots
                /\ First(s, s.holder[c]) \in Mine(s, s.holder[c])
                /\ c \in Mine(s, s.holder[c]) /\ Installed(s, s.holder[c])
                /\ Mine(s, s.holder[c]) \subseteq Slots
                /\ Whole(s, s.holder[c]) \/ Replaced(s, s.holder[c], c)
                /\ d \in Mine(s, s.holder[c]) => a = s.holder[c]
  BY <1>1, HereFacts
<1>4. a \in Calls /\ a # None /\ Installed(s, a) /\ d \in Mine(s, a)
  BY <1>1, <1>3, HolderFacts DEF FreesOwn
<1>5. /\ \A c \in Intact(s) : c # d /\ s.holder[c] = a =>
                Replaces(s, t, a) /\ c \in Todo(s, t)
      /\ d \in Intact(s) => a \notin n.heard
      /\ \A c \in Intact(s), z \in Calls :
                s.holder[c] # None /\ Replaces(s, z, s.holder[c]) /\ c \in Todo(s, z) =>
                   Replaces(n, z, s.holder[c]) /\ c \in Todo(n, z)
  BY OwnFacts
<1>6. /\ n.kind[t] = s.kind[t] /\ n.fields[t] = <<>> /\ n.upto[t] = s.upto[t]
      /\ n.from[t] = d /\ n.target[t] = a /\ n.affected[t] = {}
      /\ Live(n, t) /\ Busy(n, t) /\ Busy(s, t) /\ Todo(n, t) = Todo(s, t)
  BY <1>1, <1>3 DEF FreesOwn, Frees, Live, Busy, Todo
<1>7. \A c \in Slots : n.holder[c] = IF c = d THEN None ELSE s.holder[c]
  BY DEF FreesOwn
<1>8. n.heard \subseteq s.heard
  BY <1>1 DEF Cancels
<1>9. ASSUME NEW u \in Calls, u # t PROVE SameCall(s, n, u)
  BY <1>1, <1>9 DEF Others
<1> HIDE DEF d, a
<1>10. Shape(n)
  <2>1. CallShape(n, t)
    BY <1>1, <1>3, <1>4, <1>6 DEF CallShape, d
  <2>q. QED BY <1>1, <2>1, FreesShape
<1>11. Place(n)
  <2>1. \A c \in Slots : n.holder[c] \in {None, s.holder[c]}
    BY <1>7
  <2>q. QED BY <1>1, <1>4, <1>6, <2>1, FreesPlace
<1>12. Apart(n)
  <2>1. \A c \in Slots : n.holder[c] \in {None, s.holder[c]}
    BY <1>7
  <2>q. QED BY <1>1, <1>6, <2>1, FreesApart
<1>13. HeldWhole(n)
  <2> SUFFICES ASSUME NEW c \in Intact(s), c # d, s.holder[c] # None
               PROVE  Whole(n, s.holder[c]) \/ Replaced(n, s.holder[c], c)
    BY <1>1, <1>7 DEF HeldWhole
  <2>1. CASE Replaced(s, s.holder[c], c)
    BY <1>1, <1>5, <2>1 DEF Replaced
  <2>2. CASE s.holder[c] = a
    <3>1. Replaced(s, a, c)
      BY <1>5, <2>2 DEF FreesOwn, Replaced, a, d
    <3>q. QED BY <2>1, <2>2, <3>1
  <2>3. CASE Whole(s, s.holder[c]) /\ s.holder[c] # a
    <3>1. \A e \in Mine(s, s.holder[c]) : e # d /\ s.holder[e] = s.holder[c]
      BY <1>3, <2>3 DEF Whole
    <3>2. \A e \in Mine(s, s.holder[c]) : n.holder[e] = s.holder[c]
      BY <1>3, <1>7, <3>1
    <3>q. QED BY <1>1, <1>3, <2>3, <3>2, CancelsWhole
  <2>q. QED BY <1>3, <2>1, <2>2, <2>3
<1>14. HeardHeld(n)
  <2> SUFFICES ASSUME NEW c \in Intact(s), NEW b \in n.heard, c \in Mine(s, b)
               PROVE  n.holder[c] = b
    BY <1>1 DEF HeardHeld
  <2>1. s.holder[c] = b
    BY <1>2, <1>8 DEF HolderInv, HeardHeld
  <2>2. c # d
    BY <1>5, <2>1 DEF a
  <2>q. QED BY <1>1, <1>7, <2>1, <2>2
<1>15. FreedEmpty(n)
  <2> SUFFICES ASSUME NEW u \in Calls, n.at[u] = "releasing", n.fields[u] = <<>>,
                      n.affected[u] = {}, n.from[u] \in Intact(s)
               PROVE  n.holder[n.from[u]] = None
    BY <1>1 DEF FreedEmpty
  <2>1. CASE u = t
    BY <1>3, <1>6, <1>7, <2>1
  <2>2. CASE u # t
    <3>1. s.holder[n.from[u]] = None
      BY <1>2, <1>9, <2>2 DEF HolderInv, FreedEmpty, SameCall
    <3>q. QED BY <1>1, <1>7, <3>1
  <2>q. QED BY <2>1, <2>2
<1>16. Covered(n)
  <2> SUFFICES ASSUME NEW u \in Calls, n.at[u] = "releasing",
                      n.affected[u] # {} \/ n.fields[u] # <<>>,
                      NEW c \in Intact(s), n.holder[c] = n.target[u]
               PROVE  c \in n.affected[u]
    BY <1>1 DEF Covered
  <2>1. u # t
    BY <1>6
  <2>2. SameCall(s, n, u)
    BY <1>9, <2>1
  <2>3. s.target[u] \in Calls
    BY <1>1, <2>2 DEF SameCall, Shape, CallShape
  <2>4. s.holder[c] = s.target[u]
    BY <1>1, <1>7, <2>2, <2>3, CallTypes DEF SameCall
  <2>q. QED BY <1>2, <2>2, <2>4 DEF HolderInv, Covered, SameCall
<1>17. ShownLive(n)
  <2> SUFFICES ASSUME NEW c \in Intact(s), s.state[c] = "connected"
               PROVE  \/ /\ n.holder[c] \in n.heard /\ s.rates = TRUE
                         /\ s.link[n.holder[c]] = "open"
                      \/ Pending(n, c)
    BY <1>1 DEF ShownLive
  <2>1. Pending(s, c) => Pending(n, c)
    <3>1. Live(s, t) /\ c \in Todo(s, t) \cup s.affected[t] => Pending(n, c)
      BY <1>1, <1>6 DEF Pending
    <3>q. QED BY <1>1, <3>1, PendingKept
  <2>2. CASE c = d
    BY <1>3, <1>6, <2>2 DEF Pending
  <2>3. CASE c # d
    <3>1. n.holder[c] = s.holder[c]
      BY <1>1, <1>7, <2>3
    <3>2. CASE s.holder[c] \in s.heard \ n.heard
      <4>0. s.holder[c] # None
        BY <1>1, <3>2, CallTypes DEF ViewTypes
      <4>1. s.source[d] = s.holder[c]
        BY <1>1, <3>2 DEF Cancels
      <4>2. d = First(s, s.holder[c])
        BY <1>1, <1>3, <4>0, <4>1 DEF Place
      <4>3. s.holder[c] = a
        BY <1>3, <4>0, <4>2
      <4>4. c \in Todo(n, t)
        BY <1>5, <1>6, <2>3, <4>3
      <4>q. QED BY <1>6, <4>4 DEF Pending
    <3>q. QED BY <1>2, <2>1, <3>1, <3>2 DEF ShownInv, ShownLive
  <2>q. QED BY <2>2, <2>3
<1>18. PassedQuiet(n)
  <2> SUFFICES ASSUME NEW u \in Calls, n.kind[u] = "all", Busy(n, u),
                      NEW c \in Intact(s), c < n.from[u]
               PROVE  s.state[c] # "connected"
    BY <1>1 DEF PassedQuiet
  <2>1. s.kind[u] = "all" /\ Busy(s, u) /\ n.from[u] = s.from[u]
    BY <1>6, <1>9, SameCallFacts DEF SameCall, d
  <2>q. QED BY <1>2, <2>1 DEF ShownInv, PassedQuiet
<1>19. LinkShown(n)
  <2> SUFFICES ASSUME NEW b \in Calls, Mine(s, b) \subseteq Intact(s)
               PROVE  /\ n.at[b] = "connecting" => \A e \in Mine(s, b) : n.holder[e] = b
                      /\ s.link[b] = "open" =>
                           \/ \A e \in Mine(s, b) : n.holder[e] = b
                           \/ \E u \in Calls : n.at[u] = "releasing" /\ n.target[u] = b
    BY <1>1 DEF LinkShown
  <2>1. CASE d \in Mine(s, b) /\ s.holder[d] = b
    <3>1. b = a
      BY <2>1 DEF a
    <3>2. n.at[b] # "connecting"
      <4> SUFFICES ASSUME n.at[b] = "connecting" PROVE FALSE
        OBVIOUS
      <4>1. b # t /\ s.at[b] = "connecting"
        BY <1>1, <1>9 DEF SameCall
      <4>2. Live(s, b) /\ s.kind[b] = "connect"
        BY <1>1, <4>1 DEF Live, Shape, CallShape
      <4>3. d \in Area(s, b)
        BY <1>1, <2>1, <4>2, AreaFacts
      <4>q. QED BY <1>1, <1>3, <2>1, <4>1, <4>2, <4>3, Meeting
    <3>q. QED BY <1>1, <1>6, <3>1, <3>2
  <2>2. CASE ~(d \in Mine(s, b) /\ s.holder[d] = b)
    <3>1. (\A e \in Mine(s, b) : s.holder[e] = b) => \A e \in Mine(s, b) : n.holder[e] = b
      BY <1>1, <1>7, <2>2
    <3>2. \A u \in Calls : s.at[u] = "releasing" => n.at[u] = "releasing" /\ n.target[u] = s.target[u]
      BY <1>1, <1>9 DEF SameCall
    <3>3. n.at[b] = "connecting" => s.at[b] = "connecting"
      BY <1>1, <1>9 DEF SameCall
    <3>q. QED BY <1>2, <3>1, <3>2, <3>3 DEF ShownInv, LinkShown
  <2>q. QED BY <2>1, <2>2
<1>20. AffectedOwn(n)
  <2> SUFFICES ASSUME NEW c \in Intact(s), NEW u \in Calls, n.holder[c] # None,
                      n.target[u] # n.holder[c]
               PROVE  n.affected[u] \cap Mine(s, n.holder[c]) = {}
    BY <1>1 DEF AffectedOwn
  <2>1. n.holder[c] = s.holder[c]
    BY <1>1, <1>7
  <2>2. CASE u # t
    BY <1>2, <1>9, <2>1, <2>2 DEF CallInv, AffectedOwn, SameCall
  <2>q. QED BY <1>6, <2>2
<1>21. AffectedSilent(n)
  BY <1>1, <1>2, <1>6, <1>8, <1>9 DEF CallInv, AffectedSilent, SameCall
<1>22. PassedApart(n)
  <2> SUFFICES ASSUME NEW c \in Intact(s), NEW u \in Calls, n.holder[c] # None,
                      n.kind[u] = "connect", Busy(n, u)
               PROVE  \/ Passed(n, u) \cap Mine(s, n.holder[c]) = {}
                      \/ Replaces(n, u, n.holder[c]) /\ c \in Todo(n, u)
    BY <1>1 DEF PassedApart
  <2>0. s.kind[u] = "connect" /\ Busy(s, u)
    BY <1>6, <1>9, SameCallFacts DEF SameCall
  <2>1. c # d /\ n.holder[c] = s.holder[c]
    BY <1>1, <1>7
  <2>2. \/ Passed(s, u) \cap Mine(s, s.holder[c]) = {}
        \/ Replaces(s, u, s.holder[c]) /\ c \in Todo(s, u)
    BY <1>2, <2>0, <2>1 DEF CallInv, PassedApart
  <2>3. CASE Replaces(s, u, s.holder[c]) /\ c \in Todo(s, u)
    BY <1>5, <2>1, <2>3
  <2>4. CASE u # t /\ Passed(s, u) \cap Mine(s, s.holder[c]) = {}
    <3>1. Passed(n, u) = Passed(s, u)
      BY <1>1, <1>9, <2>4 DEF Passed, SameCall
    <3>q. QED BY <2>1, <2>4, <3>1
  <2>5. CASE u = t /\ Passed(s, t) \cap Mine(s, s.holder[c]) = {}
    <3>1. CASE d \in Mine(s, s.holder[c])
      <4>1. s.holder[c] = a
        BY <1>3, <2>1, <3>1
      <4>q. QED BY <1>5, <2>1, <2>3, <2>5, <4>1
    <3>2. CASE d \notin Mine(s, s.holder[c])
      <4>1. Passed(n, t) \subseteq Passed(s, t) \cup {d}
        BY <1>1, <1>6 DEF Passed, d
      <4>q. QED BY <2>1, <2>5, <3>2, <4>1
    <3>q. QED BY <3>1, <3>2
  <2>q. QED BY <2>2, <2>3, <2>4, <2>5
<1>23. ClaimsField(n)
  <2> SUFFICES ASSUME NEW u \in Calls, n.kind[u] = "connect", Busy(n, u),
                      s.offer[u].field # "none", Mine(s, u) \cap Intact(s) # {}
               PROVE  s.shared[s.offer[u].field] = u
    BY <1>1 DEF ClaimsField
  <2>1. s.kind[u] = "connect" /\ Busy(s, u)
    BY <1>6, <1>9, SameCallFacts DEF SameCall
  <2>q. QED BY <1>2, <2>1 DEF CallInv, ClaimsField
<1>q. QED BY <1>10, <1>11, <1>12, <1>13, <1>14, <1>15, <1>16, <1>17, <1>18, <1>19,
             <1>20, <1>21, <1>22, <1>23 DEF ViewInv, HolderInv, ShownInv, CallInv

LEMMA FreesEmptyKeeps ==
    ASSUME NEW s, NEW n, NEW t \in Calls, ViewInv(s), ViewTypes(n), FreesEmpty(s, n, t)
    PROVE  ViewInv(n)
<1> DEFINE d == s.from[t]
<1>1. /\ ViewTypes(s) /\ Shape(s) /\ Place(s) /\ Apart(s) /\ CallShape(s, t)
      /\ Live(s, t) /\ Frees(s, n, t) /\ Here(s, t) /\ Cancels(s, n, {d})
      /\ Others(s, n, t) /\ s.at[t] = "ready" /\ n.at[t] = "ready"
      /\ \A b : Mine(n, b) = Mine(s, b) /\ First(n, b) = First(s, b)
      /\ s.affected[t] = {} /\ Intact(n) = Intact(s) /\ Intact(s) \subseteq Slots
      /\ n.offer = s.offer /\ n.shared = s.shared /\ n.link = s.link
      /\ n.holder = s.holder /\ s.holder[d] = None
      /\ s.disturbed \subseteq n.disturbed
  BY FreesFacts DEF FreesEmpty, Frees
<1>2. HolderInv(s) /\ ShownInv(s) /\ CallInv(s)
  BY DEF ViewInv
<1>3. /\ d \in Slots /\ d \in Todo(s, t) /\ s.fields[t] = <<>>
      /\ d <= s.upto[t] /\ d \in Nat /\ s.upto[t] \in Nat
      /\ \A b \in Calls : ~Replaces(s, t, b)
      /\ \A c \in Intact(s) : s.holder[c] # None =>
                /\ s.holder[c] \in Calls /\ First(s, s.holder[c]) \in Slots
                /\ First(s, s.holder[c]) \in Mine(s, s.holder[c])
                /\ Whole(s, s.holder[c]) \/ Replaced(s, s.holder[c], c)
                /\ d \notin Mine(s, s.holder[c])
  BY <1>1, HereFacts, CallTypes
<1>4. /\ n.kind[t] = s.kind[t] /\ n.fields[t] = <<>> /\ n.upto[t] = s.upto[t]
      /\ n.from[t] = d + 1 /\ n.affected[t] = {}
      /\ Live(n, t) /\ Busy(n, t) /\ Busy(s, t)
  BY <1>1, <1>3 DEF FreesEmpty, Frees, Live, Busy
<1>5. n.heard \subseteq s.heard
  BY <1>1 DEF Cancels
<1>6. ASSUME NEW u \in Calls, u # t PROVE SameCall(s, n, u)
  BY <1>1, <1>6 DEF Others
<1>7. \A c \in Slots : n.state[c] = IF c = d THEN "disconnected" ELSE s.state[c]
  BY DEF FreesEmpty
<1>8. ASSUME NEW c \in Intact(s), NEW z \in Calls, s.holder[c] # None,
             Replaces(s, z, s.holder[c])
      PROVE  Replaces(n, z, s.holder[c]) /\ Todo(n, z) = Todo(s, z)
  <2>1. z # t
    BY <1>3, <1>8
  <2>q. QED BY <1>1, <1>3, <1>6, <1>8, <2>1, CancelsReplaces
<1> HIDE DEF d
<1>9. Shape(n)
  <2> DEFINE k == d + 1
  <2>1. k \in Nat /\ s.from[t] <= k /\ k <= s.upto[t] + 1 /\ n.from[t] = k
    BY <1>3, <1>4 DEF d
  <2>2. s.kind[t] = "channel" => k = s.upto[t] + 1
    BY <1>1, <1>3 DEF CallShape, d
  <2>3. s.kind[t] = "connect" => First(s, t) <= k
    <3>1. s.kind[t] = "connect" => First(s, t) <= d /\ s.offer[t] \in Offers
      BY <1>1 DEF CallShape, d
    <3>2. s.kind[t] = "connect" => First(s, t) \in Nat
      BY <3>1, OfferTypes DEF First
    <3>q. QED BY <1>3, <3>1, <3>2
  <2>4. s.kind[t] = "all" => 1 <= k /\ k <= Channels + 1
    BY <1>1, <1>3 DEF CallShape, d
  <2>5. n.at[t] = "ready" /\ n.offer[t] = s.offer[t] /\ First(n, t) = First(s, t)
    BY <1>1
  <2> HIDE DEF k
  <2>6. CallShape(n, t)
    BY <1>1, <1>4, <2>1, <2>2, <2>3, <2>4, <2>5 DEF CallShape
  <2>q. QED BY <1>1, <2>6, FreesShape
<1>10. Place(n)
  <2>1. \A c \in Slots : n.holder[c] \in {None, s.holder[c]}
    BY <1>1
  <2>2. n.at[t] # "releasing"
    BY <1>1
  <2>q. QED BY <1>1, <2>1, <2>2, FreesPlace
<1>11. Apart(n)
  BY <1>1, <1>4, FreesApart
<1>12. HeldWhole(n)
  <2> SUFFICES ASSUME NEW c \in Intact(s), s.holder[c] # None
               PROVE  Whole(n, s.holder[c]) \/ Replaced(n, s.holder[c], c)
    BY <1>1 DEF HeldWhole
  <2>1. CASE Replaced(s, s.holder[c], c)
    BY <1>1, <1>8, <2>1 DEF Replaced
  <2>2. CASE Whole(s, s.holder[c])
    <3>1. \A e \in Mine(s, s.holder[c]) : n.holder[e] = s.holder[c]
      BY <1>1, <2>2 DEF Whole
    <3>q. QED BY <1>1, <1>3, <2>2, <3>1, CancelsWhole
  <2>q. QED BY <1>3, <2>1, <2>2
<1>13. HeardHeld(n)
  BY <1>1, <1>2, <1>5 DEF HolderInv, HeardHeld
<1>14. FreedEmpty(n)
  <2> SUFFICES ASSUME NEW u \in Calls, n.at[u] = "releasing", n.fields[u] = <<>>,
                      n.affected[u] = {}, n.from[u] \in Intact(s)
               PROVE  s.holder[n.from[u]] = None
    BY <1>1 DEF FreedEmpty
  <2>1. u # t
    BY <1>1
  <2>q. QED BY <1>2, <1>6, <2>1 DEF HolderInv, FreedEmpty, SameCall
<1>15. Covered(n)
  <2> SUFFICES ASSUME NEW u \in Calls, n.at[u] = "releasing",
                      n.affected[u] # {} \/ n.fields[u] # <<>>,
                      NEW c \in Intact(s), s.holder[c] = n.target[u]
               PROVE  c \in n.affected[u]
    BY <1>1 DEF Covered
  <2>1. u # t
    BY <1>1
  <2>q. QED BY <1>2, <1>6, <2>1 DEF HolderInv, Covered, SameCall
<1>16. ShownLive(n)
  <2> SUFFICES ASSUME NEW c \in Intact(s), n.state[c] = "connected"
               PROVE  \/ /\ s.holder[c] \in n.heard /\ n.rates = TRUE
                         /\ s.link[s.holder[c]] = "open"
                      \/ Pending(n, c)
    BY <1>1 DEF ShownLive
  <2>1. c \in Slots /\ c # d /\ s.state[c] = "connected"
    BY <1>1, <1>7
  <2>2. Pending(s, c) => Pending(n, c)
    <3>1. Live(s, t) /\ c \in Todo(s, t) \cup s.affected[t] => Pending(n, c)
      <4>1. c \in Todo(s, t) => c \in Todo(n, t)
        BY <1>3, <1>4, <2>1 DEF Todo, d
      <4>q. QED BY <1>1, <1>4, <4>1 DEF Pending
    <3>q. QED BY <1>1, <3>1, PendingKept
  <2>3. s.rates = TRUE => n.rates = TRUE
    BY <2>1 DEF FreesEmpty
  <2>4. s.holder[c] \in s.heard => s.holder[c] \in n.heard
    <3> SUFFICES ASSUME s.holder[c] \in s.heard, s.source[d] = s.holder[c] PROVE FALSE
      BY <1>1 DEF Cancels
    <3>1. s.holder[c] # None
      BY <1>1, CallTypes DEF ViewTypes
    <3>2. d = First(s, s.holder[c])
      BY <1>1, <1>3, <3>1 DEF Place
    <3>q. QED BY <1>3, <3>1, <3>2
  <2>q. QED BY <1>2, <2>1, <2>2, <2>3, <2>4 DEF ShownInv, ShownLive
<1>17. PassedQuiet(n)
  <2> SUFFICES ASSUME NEW u \in Calls, n.kind[u] = "all", Busy(n, u),
                      NEW c \in Intact(s), c < n.from[u], n.state[c] = "connected"
               PROVE  FALSE
    BY <1>1 DEF PassedQuiet
  <2>1. c \in Slots /\ c # d /\ s.state[c] = "connected" /\ c \in Nat
    BY <1>1, <1>7, BoundsAssumption DEF Slots
  <2>2. s.kind[u] = "all" /\ Busy(s, u)
    BY <1>4, <1>6, SameCallFacts DEF SameCall
  <2>3. c < s.from[u]
    <3>1. CASE u = t
      BY <1>3, <1>4, <2>1, <3>1 DEF d
    <3>2. CASE u # t
      BY <1>6, <3>2 DEF SameCall
    <3>q. QED BY <3>1, <3>2
  <2>q. QED BY <1>2, <2>1, <2>2, <2>3 DEF ShownInv, PassedQuiet
<1>18. LinkShown(n)
  <2>1. \A u \in Calls : s.at[u] = "releasing" => n.at[u] = "releasing" /\ n.target[u] = s.target[u]
    BY <1>1, <1>6 DEF SameCall
  <2>2. \A u \in Calls : n.at[u] = "connecting" => s.at[u] = "connecting"
    BY <1>1, <1>6 DEF SameCall
  <2>q. QED BY <1>1, <1>2, <2>1, <2>2 DEF ShownInv, LinkShown
<1>19. AffectedOwn(n)
  <2> SUFFICES ASSUME NEW c \in Intact(s), NEW u \in Calls, s.holder[c] # None,
                      n.target[u] # s.holder[c]
               PROVE  n.affected[u] \cap Mine(s, s.holder[c]) = {}
    BY <1>1 DEF AffectedOwn
  <2>1. CASE u # t
    BY <1>2, <1>6, <2>1 DEF CallInv, AffectedOwn, SameCall
  <2>q. QED BY <1>4, <2>1
<1>20. AffectedSilent(n)
  BY <1>1, <1>2, <1>4, <1>5, <1>6 DEF CallInv, AffectedSilent, SameCall
<1>21. PassedApart(n)
  <2> SUFFICES ASSUME NEW c \in Intact(s), NEW u \in Calls, s.holder[c] # None,
                      n.kind[u] = "connect", Busy(n, u)
               PROVE  \/ Passed(n, u) \cap Mine(s, s.holder[c]) = {}
                      \/ Replaces(n, u, s.holder[c]) /\ c \in Todo(n, u)
    BY <1>1 DEF PassedApart
  <2>0. s.kind[u] = "connect" /\ Busy(s, u)
    BY <1>4, <1>6, SameCallFacts DEF SameCall
  <2>2. \/ Passed(s, u) \cap Mine(s, s.holder[c]) = {}
        \/ Replaces(s, u, s.holder[c]) /\ c \in Todo(s, u)
    BY <1>2, <2>0 DEF CallInv, PassedApart
  <2>3. CASE Replaces(s, u, s.holder[c]) /\ c \in Todo(s, u)
    BY <1>8, <2>3
  <2>4. CASE u # t /\ Passed(s, u) \cap Mine(s, s.holder[c]) = {}
    <3>1. Passed(n, u) = Passed(s, u)
      BY <1>1, <1>6, <2>4 DEF Passed, SameCall
    <3>q. QED BY <2>4, <3>1
  <2>5. CASE u = t /\ Passed(s, t) \cap Mine(s, s.holder[c]) = {}
    <3>1. d \notin Mine(s, s.holder[c])
      BY <1>3
    <3>2. Passed(n, t) \subseteq Passed(s, t) \cup {d}
      <4> SUFFICES ASSUME NEW e \in Mine(s, t), e < d + 1, e # d PROVE e < d
        BY <1>1, <1>4 DEF Passed, d
      <4>1. e \in Nat
        <5>1. Mine(s, t) \subseteq Slots
          BY <1>1, AreaFacts
        <5>q. QED BY <5>1, BoundsAssumption DEF Slots
      <4>q. QED BY <1>3, <4>1
    <3>q. QED BY <2>5, <3>1, <3>2
  <2>q. QED BY <2>2, <2>3, <2>4, <2>5
<1>22. ClaimsField(n)
  <2> SUFFICES ASSUME NEW u \in Calls, n.kind[u] = "connect", Busy(n, u),
                      s.offer[u].field # "none", Mine(s, u) \cap Intact(s) # {}
               PROVE  s.shared[s.offer[u].field] = u
    BY <1>1 DEF ClaimsField
  <2>1. s.kind[u] = "connect" /\ Busy(s, u)
    BY <1>4, <1>6, SameCallFacts DEF SameCall
  <2>q. QED BY <1>2, <2>1 DEF CallInv, ClaimsField
<1>q. QED BY <1>9, <1>10, <1>11, <1>12, <1>13, <1>14, <1>15, <1>16, <1>17, <1>18,
             <1>19, <1>20, <1>21, <1>22 DEF ViewInv, HolderInv, ShownInv, CallInv

-----------------------------------------------------------------------------
(* adapter.disconnect() has returned: of the slot's own adapter, or of a   *)
(* shared one (affected, or one of the fields that disconnect() visits).   *)
OfShared(s, t) == s.affected[t] # {} \/ s.fields[t] # <<>>

Clears(s, n, t) ==
    LET a == s.target[t] IN
    /\ s.at[t] = "releasing" /\ Others(s, n, t)
    /\ n.kind[t] = s.kind[t] /\ n.upto[t] = s.upto[t]
    /\ n.at[t] = "ready" /\ n.target[t] = None /\ n.affected[t] = {}
    /\ IF s.fields[t] = <<>> THEN n.fields[t] = <<>> /\ n.from[t] = s.from[t] + 1
                             ELSE n.from[t] = s.from[t]
    /\ n.source = s.source /\ n.heard = s.heard /\ n.offer = s.offer
    /\ n.disturbed = s.disturbed
    /\ \A c \in Slots : n.holder[c] = IF c \in s.affected[t] THEN None
                                      ELSE s.holder[c]
    /\ \A f \in Names : n.shared[f] = IF OfShared(s, t) /\ s.shared[f] = a
                                      THEN None ELSE s.shared[f]
    /\ \A b \in Calls : n.link[b] = IF b = a THEN "closed" ELSE s.link[b]
    /\ \A c \in Slots :
          n.state[c] = IF \/ c \in s.affected[t]
                          \/ s.fields[t] = <<>> /\ c = s.from[t]
                          \/ a \in s.heard /\ c \in Mine(s, a)
                       THEN "disconnected" ELSE s.state[c]
    /\ s.rates = TRUE /\ (\E c \in Slots : n.state[c] = "connected") =>
          n.rates = TRUE

LEMMA ClearsFacts ==
    ASSUME NEW s, NEW n, NEW t \in Calls, ViewInv(s), Clears(s, n, t)
    PROVE  /\ ViewTypes(s) /\ Shape(s) /\ Place(s) /\ Apart(s)
           /\ HolderInv(s) /\ ShownInv(s) /\ CallInv(s)
           /\ CallShape(s, t) /\ Live(s, t) /\ Live(n, t) /\ Busy(s, t) /\ Busy(n, t)
           /\ \A a : Mine(n, a) = Mine(s, a) /\ First(n, a) = First(s, a)
           /\ Intact(n) = Intact(s) /\ Intact(s) \subseteq Slots
           /\ s.target[t] \in Calls /\ s.from[t] \in Nat /\ s.upto[t] \in Nat
           /\ s.affected[t] \subseteq Area(s, t) /\ s.affected[t] \subseteq Slots
           /\ s.fields[t] = <<>> => /\ s.from[t] <= s.upto[t]
                                    /\ OfShared(s, t) => s.from[t] \in s.affected[t]
           /\ s.fields[t] # <<>> => s.kind[t] = "all"
<1>1. /\ ViewTypes(s) /\ Shape(s) /\ Place(s) /\ Apart(s)
      /\ HolderInv(s) /\ ShownInv(s) /\ CallInv(s)
  BY DEF ViewInv
<1>2. CallShape(s, t) /\ s.at[t] = "releasing" /\ n.at[t] = "ready"
  BY <1>1 DEF Shape, Clears
<1>3. Live(s, t) /\ Live(n, t) /\ Busy(s, t) /\ Busy(n, t)
  BY <1>2 DEF Live, Busy
<1>4. \A a : Mine(n, a) = Mine(s, a) /\ First(n, a) = First(s, a)
  BY SameOffers DEF Clears
<1>5. /\ s.target[t] \in Calls /\ s.from[t] \in Nat /\ s.upto[t] \in Nat
      /\ s.fields[t] = <<>> => s.from[t] <= s.upto[t]
  BY <1>1, <1>2 DEF CallShape, ViewTypes
<1>6. s.affected[t] \subseteq Area(s, t) /\ s.affected[t] \subseteq Slots
  BY <1>1, AreaFacts DEF ViewTypes
<1>7. s.fields[t] = <<>> /\ OfShared(s, t) => s.from[t] \in s.affected[t]
  BY <1>1, <1>2 DEF OfShared, Place
<1>8. s.fields[t] # <<>> => s.kind[t] = "all"
  BY <1>1, <1>2, <1>3 DEF CallShape, ViewTypes
<1>q. QED BY <1>1, <1>2, <1>3, <1>4, <1>5, <1>6, <1>7, <1>8 DEF Clears, Intact

(* What an intact slot still holds is not touched by the end of a release. *)
LEMMA ClearsHolders ==
    ASSUME NEW s, NEW n, NEW t \in Calls, ViewInv(s), Clears(s, n, t),
           NEW c \in Intact(s), n.holder[c] # None
    PROVE  /\ n.holder[c] = s.holder[c] /\ c \in Slots
           /\ s.holder[c] \in Calls
           /\ First(s, s.holder[c]) \in Slots /\ Mine(s, s.holder[c]) \subseteq Slots
           /\ s.affected[t] \cap Mine(s, s.holder[c]) = {}
           /\ \A f \in Names : n.shared[f] = s.holder[c] <=> s.shared[f] = s.holder[c]
           /\ \A z \in Calls : Replaces(s, z, s.holder[c]) /\ c \in Todo(s, z) =>
                Replaces(n, z, s.holder[c]) /\ c \in Todo(n, z)
<1> DEFINE b == s.holder[c]
<1>1. /\ ViewTypes(s) /\ Shape(s) /\ Place(s) /\ HolderInv(s) /\ CallInv(s)
      /\ CallShape(s, t) /\ Live(s, t)
      /\ \A a : Mine(n, a) = Mine(s, a) /\ First(n, a) = First(s, a)
      /\ Intact(s) \subseteq Slots /\ s.at[t] = "releasing"
      /\ s.from[t] \in Nat /\ s.upto[t] \in Nat
  <2>1. s.at[t] = "releasing"
    BY DEF Clears
  <2>q. QED BY <2>1, ClearsFacts
<1>2. n.holder[c] = b /\ b # None /\ c \in Slots /\ c \notin s.affected[t]
  BY <1>1 DEF Clears
<1>3. b \in Calls /\ First(s, b) \in Slots /\ Mine(s, b) \subseteq Slots
  BY <1>1, <1>2, HolderFacts
<1>4. b = s.target[t] => ~OfShared(s, t)
  BY <1>1, <1>2 DEF HolderInv, Covered, OfShared
<1>5. s.affected[t] \cap Mine(s, b) = {}
  <2>1. CASE b = s.target[t]
    BY <1>4, <2>1 DEF OfShared
  <2>2. CASE b # s.target[t]
    BY <1>1, <1>2, <2>2 DEF CallInv, AffectedOwn
  <2>q. QED BY <2>1, <2>2
<1>6. \A f \in Names : n.shared[f] = b <=> s.shared[f] = b
  BY <1>2, <1>4 DEF Clears
<1>7. ASSUME NEW z \in Calls, Replaces(s, z, b), c \in Todo(s, z)
      PROVE  Replaces(n, z, b) /\ c \in Todo(n, z)
  <2>1. s.kind[z] = "connect" /\ Busy(s, z) /\ Live(s, z) /\ Mine(s, z) = Mine(s, b)
    BY <1>7 DEF Replaces, Busy, Live, Mine
  <2>2. Todo(s, z) \subseteq Mine(s, b)
    BY <1>1, <2>1, AreaFacts DEF Work
  <2>3. \A e \in Todo(s, z) : n.holder[e] = s.holder[e]
    BY <1>3, <1>5, <2>2 DEF Clears
  <2>4. n.source = s.source /\ n.heard = s.heard /\ n.offer = s.offer
    BY DEF Clears
  <2>5. CASE z = t
    <3>1. s.affected[t] = {} /\ s.fields[t] = <<>> /\ b \notin s.heard
      BY <1>1, <1>7, <2>1, <2>5 DEF Replaces, CallShape
    <3>2. c # s.from[t]
      BY <1>1, <1>2, <3>1 DEF HolderInv, FreedEmpty
    <3>3. Todo(n, t) = Todo(s, t) \ {s.from[t]}
      <4>1. n.from[t] = s.from[t] + 1 /\ n.upto[t] = s.upto[t]
        BY <3>1 DEF Clears
      <4>q. QED BY <1>1, <4>1 DEF Todo
    <3>4. \A e \in Todo(n, t) : n.holder[e] = b
      BY <1>7, <2>3, <2>5, <3>3 DEF Replaces
    <3>5. /\ n.kind[t] = "connect" /\ Busy(n, t) /\ n.affected[t] = {}
          /\ n.offer[t] = n.offer[b] /\ n.offer[b].field # "none"
      BY <1>7, <2>1, <2>4, <2>5 DEF Clears, Replaces, Busy
    <3>q. QED BY <1>7, <2>4, <2>5, <3>1, <3>2, <3>3, <3>4, <3>5 DEF Replaces
  <2>6. CASE z # t
    <3>1. SameCall(s, n, z)
      BY <2>6 DEF Clears, Others
    <3>2. (Busy(n, z) <=> Busy(s, z)) /\ Todo(n, z) = Todo(s, z)
      BY <3>1, SameCallFacts
    <3>q. QED BY <1>1, <1>7, <2>3, <2>4, <3>1, <3>2 DEF Replaces, SameCall
  <2>q. QED BY <2>5, <2>6
<1>q. QED BY <1>2, <1>3, <1>5, <1>6, <1>7

LEMMA ClearsKeeps ==
    ASSUME NEW s, NEW n, NEW t \in Calls, ViewInv(s), ViewTypes(n), Clears(s, n, t)
    PROVE  ViewInv(n)
<1> DEFINE a == s.target[t]
           d == s.from[t]
<1>1. /\ ViewTypes(s) /\ Shape(s) /\ Place(s) /\ Apart(s)
      /\ HolderInv(s) /\ ShownInv(s) /\ CallInv(s)
      /\ CallShape(s, t) /\ Live(s, t) /\ Live(n, t) /\ Busy(s, t) /\ Busy(n, t)
      /\ \A b : Mine(n, b) = Mine(s, b) /\ First(n, b) = First(s, b)
      /\ Intact(n) = Intact(s) /\ Intact(s) \subseteq Slots
      /\ a \in Calls /\ d \in Nat /\ s.upto[t] \in Nat
      /\ s.affected[t] \subseteq Area(s, t) /\ s.affected[t] \subseteq Slots
      /\ s.fields[t] = <<>> => /\ d <= s.upto[t]
                               /\ OfShared(s, t) => d \in s.affected[t]
      /\ s.fields[t] # <<>> => s.kind[t] = "all"
  BY ClearsFacts
<1>2. /\ s.at[t] = "releasing" /\ Others(s, n, t)
      /\ n.kind[t] = s.kind[t] /\ n.upto[t] = s.upto[t]
      /\ n.at[t] = "ready" /\ n.affected[t] = {}
      /\ s.fields[t] = <<>> => n.fields[t] = <<>> /\ n.from[t] = d + 1
      /\ s.fields[t] # <<>> => n.from[t] = d
      /\ n.source = s.source /\ n.heard = s.heard /\ n.offer = s.offer
      /\ n.disturbed = s.disturbed
  BY DEF Clears
<1>3. \A c \in Slots : n.holder[c] = IF c \in s.affected[t] THEN None ELSE s.holder[c]
  BY DEF Clears
<1>4. \A f \in Names : n.shared[f] = IF OfShared(s, t) /\ s.shared[f] = a
                                     THEN None ELSE s.shared[f]
  BY DEF Clears
<1>5. \A b \in Calls : n.link[b] = IF b = a THEN "closed" ELSE s.link[b]
  BY DEF Clears
<1>6. \A c \in Slots : n.state[c] = "connected" =>
         /\ s.state[c] = "connected" /\ c \notin s.affected[t]
         /\ ~(s.fields[t] = <<>> /\ c = d)
         /\ ~(a \in s.heard /\ c \in Mine(s, a))
  BY DEF Clears
<1>7. s.rates = TRUE /\ (\E c \in Slots : n.state[c] = "connected") => n.rates = TRUE
  BY DEF Clears
<1>8. ASSUME NEW u \in Calls, u # t PROVE SameCall(s, n, u)
  BY <1>2, <1>8 DEF Others
<1>9. ASSUME NEW c \in Intact(s), n.holder[c] # None
      PROVE  /\ n.holder[c] = s.holder[c] /\ s.holder[c] \in Calls
             /\ First(s, s.holder[c]) \in Slots /\ Mine(s, s.holder[c]) \subseteq Slots
             /\ s.affected[t] \cap Mine(s, s.holder[c]) = {}
             /\ \A f \in Names : n.shared[f] = s.holder[c] <=> s.shared[f] = s.holder[c]
             /\ \A z \in Calls : Replaces(s, z, s.holder[c]) /\ c \in Todo(s, z) =>
                  Replaces(n, z, s.holder[c]) /\ c \in Todo(n, z)
  BY <1>9, ClearsHolders
<1> HIDE DEF a, d
<1>10. Shape(n)
  <2> DEFINE k == d + 1
  <2>1. k \in Nat /\ d <= k /\ (s.fields[t] = <<>> => n.from[t] = k /\ k <= s.upto[t] + 1)
    BY <1>1, <1>2
  <2>2. s.fields[t] = <<>> => (s.kind[t] = "channel" => k = s.upto[t] + 1)
    BY <1>1 DEF CallShape, d
  <2>3. s.kind[t] = "connect" => First(s, t) <= k
    <3>1. s.kind[t] = "connect" => First(s, t) <= d /\ s.offer[t] \in Offers
      BY <1>1 DEF CallShape, d
    <3>2. s.kind[t] = "connect" => First(s, t) \in Nat
      BY <3>1, OfferTypes DEF First
    <3>q. QED BY <1>1, <2>1, <3>1, <3>2
  <2>4. s.kind[t] = "all" => 1 <= k /\ (s.fields[t] = <<>> => k <= Channels + 1)
    BY <1>1 DEF CallShape, d
  <2>5. n.offer[t] = s.offer[t] /\ First(n, t) = First(s, t)
    BY <1>1, <1>2
  <2> HIDE DEF k
  <2>6. CallShape(n, t)
    <3>1. CASE s.fields[t] = <<>>
      BY <1>1, <1>2, <2>1, <2>2, <2>3, <2>4, <2>5, <3>1 DEF CallShape
    <3>2. CASE s.fields[t] # <<>>
      BY <1>1, <1>2, <3>2 DEF CallShape, d
    <3>q. QED BY <3>1, <3>2
  <2>7. ASSUME NEW u \in Calls, u # t PROVE CallShape(n, u)
    <3>1. s.at[u] = "unused" => n.link[u] = s.link[u]
      BY <1>1, <1>5 DEF Shape, CallShape
    <3>q. QED BY <1>1, <1>2, <1>8, <2>7, <3>1, SameShape DEF Shape
  <2>q. QED BY <2>6, <2>7 DEF Shape
<1>11. Place(n)
  <2>1. \A b \in Calls : Installed(s, b) => Installed(n, b)
    BY <1>2, <1>8, SameCallFacts DEF Installed
  <2>2. \A c \in Slots : n.holder[c] # None =>
           Installed(n, n.holder[c]) /\ c \in Mine(n, n.holder[c])
    BY <1>1, <1>3, <2>1 DEF Place, ViewTypes
  <2>3. \A c \in Slots : n.source[c] # None =>
           Installed(n, n.source[c]) /\ c = First(n, n.source[c])
    BY <1>1, <1>2, <2>1 DEF Place, ViewTypes
  <2>4. \A b \in n.heard : Installed(n, b)
    BY <1>1, <1>2, <2>1 DEF Place, ViewTypes
  <2>5. \A f \in Names : n.shared[f] # None => n.offer[n.shared[f]].field = f
    BY <1>1, <1>2, <1>4 DEF Place
  <2>6. ASSUME NEW u \in Calls, n.at[u] = "releasing"
        PROVE  /\ n.affected[u] # {} => Installed(n, n.target[u])
                                 /\ n.affected[u] \subseteq Mine(n, n.target[u])
               /\ n.fields[u] = <<>> =>
                  /\ Installed(n, n.target[u])
                  /\ n.from[u] \in Mine(n, n.target[u])
                  /\ n.affected[u] # {} => n.from[u] \in n.affected[u]
    <3>1. SameCall(s, n, u)
      BY <1>2, <1>8, <2>6
    <3>2. s.at[u] = "releasing" /\ s.target[u] \in Calls
      BY <1>1, <2>6, <3>1 DEF SameCall, Shape, CallShape
    <3>3. /\ s.affected[u] # {} => Installed(s, s.target[u])
                                   /\ s.affected[u] \subseteq Mine(s, s.target[u])
          /\ s.fields[u] = <<>> =>
                  /\ Installed(s, s.target[u])
                  /\ s.from[u] \in Mine(s, s.target[u])
                  /\ s.affected[u] # {} => s.from[u] \in s.affected[u]
      BY <1>1, <3>2 DEF Place
    <3>q. QED BY <1>1, <2>1, <3>1, <3>2, <3>3 DEF SameCall
  <2>q. QED BY <2>2, <2>3, <2>4, <2>5, <2>6 DEF Place
<1>12. Apart(n)
  <2>0. \A c \in Slots : n.holder[c] \in {None, s.holder[c]}
    BY <1>3
  <2>1. ASSUME NEW u \in Calls, Live(n, u)
        PROVE  Live(s, u) /\ n.kind[u] = s.kind[u] /\ Area(n, u) \subseteq Area(s, u)
    <3>1. Work(s, u) \subseteq Slots /\ s.affected[u] \subseteq Area(s, u)
      BY <1>1, AreaFacts
    <3>2. /\ n.kind[u] = s.kind[u] /\ n.upto[u] = s.upto[u]
          /\ n.offer[u] = s.offer[u] /\ n.affected[u] \subseteq s.affected[u]
          /\ Live(s, u)
      BY <1>1, <1>2, <1>8, <2>1, SameCallFacts DEF SameCall
    <3>q. QED BY <2>0, <3>1, <3>2, AreaShrinks
  <2>q. QED BY <1>1, <1>2, <2>1, ApartKept
<1>13. HeldWhole(n)
  <2> SUFFICES ASSUME NEW c \in Intact(s), n.holder[c] # None
               PROVE  Whole(n, n.holder[c]) \/ Replaced(n, n.holder[c], c)
    BY <1>1 DEF HeldWhole
  <2> DEFINE b == s.holder[c]
  <2>0. n.holder[c] = b /\ b # None /\ b \in Calls
    BY <1>9
  <2>1. CASE Replaced(s, b, c)
    BY <1>9, <2>0, <2>1 DEF Replaced
  <2>2. CASE Whole(s, b)
    <3>1. \A e \in Mine(s, b) : n.holder[e] = b
      BY <1>3, <1>9, <2>2 DEF Whole
    <3>2. s.offer[b].field # "none" => s.offer[b].field \in Names
      BY <1>1, <2>0, HolderFacts
    <3>3. s.offer[b].field # "none" => n.shared[s.offer[b].field] = b
      BY <1>9, <2>2, <3>2 DEF Whole
    <3>q. QED BY <1>1, <1>2, <2>0, <2>2, <3>1, <3>3 DEF Whole
  <2>q. QED BY <1>1, <2>0, <2>1, <2>2 DEF HolderInv, HeldWhole
<1>14. HeardHeld(n)
  <2> SUFFICES ASSUME NEW c \in Intact(s), NEW b \in s.heard, c \in Mine(s, b)
               PROVE  n.holder[c] = b
    BY <1>1, <1>2 DEF HeardHeld
  <2>0. s.holder[c] = b /\ b # None /\ c \in Slots
    BY <1>1, CallTypes DEF HolderInv, HeardHeld, ViewTypes
  <2>1. c \notin s.affected[t]
    <3>1. CASE b = a
      BY <1>1, <3>1 DEF CallInv, AffectedSilent, a
    <3>2. CASE b # a
      BY <1>1, <2>0, <3>2 DEF CallInv, AffectedOwn, a
    <3>q. QED BY <3>1, <3>2
  <2>q. QED BY <1>3, <2>0, <2>1
<1>15. FreedEmpty(n)
  <2> SUFFICES ASSUME NEW u \in Calls, n.at[u] = "releasing", n.fields[u] = <<>>,
                      n.affected[u] = {}, n.from[u] \in Intact(s)
               PROVE  n.holder[n.from[u]] = None
    BY <1>1 DEF FreedEmpty
  <2>1. SameCall(s, n, u)
    BY <1>2, <1>8
  <2>2. s.holder[n.from[u]] = None
    BY <1>1, <2>1 DEF HolderInv, FreedEmpty, SameCall
  <2>q. QED BY <1>1, <1>3, <2>2
<1>16. Covered(n)
  <2> SUFFICES ASSUME NEW u \in Calls, n.at[u] = "releasing",
                      n.affected[u] # {} \/ n.fields[u] # <<>>,
                      NEW c \in Intact(s), n.holder[c] = n.target[u]
               PROVE  c \in n.affected[u]
    BY <1>1 DEF Covered
  <2>2. SameCall(s, n, u)
    BY <1>2, <1>8
  <2>3. s.target[u] \in Calls
    BY <1>1, <2>2 DEF SameCall, Shape, CallShape
  <2>4. s.holder[c] = s.target[u]
    BY <1>1, <1>3, <2>2, <2>3, CallTypes DEF SameCall
  <2>q. QED BY <1>1, <2>2, <2>4 DEF HolderInv, Covered, SameCall
<1>17. ShownLive(n)
  <2> SUFFICES ASSUME NEW c \in Intact(s), n.state[c] = "connected"
               PROVE  \/ /\ n.holder[c] \in s.heard /\ n.rates = TRUE
                         /\ n.link[n.holder[c]] = "open"
                      \/ Pending(n, c)
    BY <1>1, <1>2 DEF ShownLive
  <2>1. /\ c \in Slots /\ s.state[c] = "connected" /\ c \notin s.affected[t]
        /\ ~(s.fields[t] = <<>> /\ c = d)
        /\ ~(a \in s.heard /\ c \in Mine(s, a)) /\ n.holder[c] = s.holder[c]
    BY <1>1, <1>3, <1>6
  <2>2. Pending(s, c) => Pending(n, c)
    <3>1. Live(s, t) /\ c \in Todo(s, t) \cup s.affected[t] => Pending(n, c)
      <4>1. c \in Todo(s, t) => c \in Todo(n, t)
        <5>1. CASE s.fields[t] = <<>>
          BY <1>1, <1>2, <2>1, <5>1 DEF Todo, d
        <5>2. CASE s.fields[t] # <<>>
          BY <1>2, <5>2 DEF Todo, d
        <5>q. QED BY <5>1, <5>2
      <4>q. QED BY <1>1, <2>1, <4>1 DEF Pending
    <3>q. QED BY <1>2, <3>1, PendingKept
  <2>3. s.rates = TRUE => n.rates = TRUE
    BY <1>7, <2>1
  <2>4. s.holder[c] \in s.heard => s.holder[c] # a /\ s.holder[c] \in Calls
    BY <1>1, <2>1, CallTypes DEF Place, ViewTypes
  <2>q. QED BY <1>1, <1>5, <2>1, <2>2, <2>3, <2>4 DEF ShownInv, ShownLive
<1>18. PassedQuiet(n)
  <2> SUFFICES ASSUME NEW u \in Calls, n.kind[u] = "all", Busy(n, u),
                      NEW c \in Intact(s), c < n.from[u], n.state[c] = "connected"
               PROVE  FALSE
    BY <1>1 DEF PassedQuiet
  <2>1. c \in Slots /\ s.state[c] = "connected" /\ c \in Nat
        /\ ~(s.fields[t] = <<>> /\ c = d)
    BY <1>1, <1>6, BoundsAssumption DEF Slots
  <2>2. s.kind[u] = "all" /\ Busy(s, u)
    BY <1>1, <1>2, <1>8, SameCallFacts DEF SameCall
  <2>3. c < s.from[u]
    <3>1. CASE u = t
      BY <1>1, <1>2, <2>1, <3>1 DEF d
    <3>2. CASE u # t
      BY <1>8, <3>2 DEF SameCall
    <3>q. QED BY <3>1, <3>2
  <2>q. QED BY <1>1, <2>1, <2>2, <2>3 DEF ShownInv, PassedQuiet
<1>19. LinkShown(n)
  <2> SUFFICES ASSUME NEW b \in Calls, Mine(s, b) \subseteq Intact(s)
               PROVE  /\ n.at[b] = "connecting" => \A e \in Mine(s, b) : n.holder[e] = b
                      /\ n.link[b] = "open" =>
                           \/ \A e \in Mine(s, b) : n.holder[e] = b
                           \/ \E u \in Calls : n.at[u] = "releasing" /\ n.target[u] = b
    BY <1>1 DEF LinkShown
  <2>1. ASSUME n.at[b] = "connecting" PROVE \A e \in Mine(s, b) : n.holder[e] = b
    <3>1. b # t /\ s.at[b] = "connecting"
      BY <1>2, <1>8, <2>1 DEF SameCall
    <3>2. Live(s, b) /\ s.kind[b] = "connect"
      BY <1>1, <3>1 DEF Live, Shape, CallShape
    <3>3. Mine(s, b) \subseteq Area(s, b)
      BY <1>1, <3>2, AreaFacts
    <3>4. Mine(s, b) \cap s.affected[t] = {}
      BY <1>1, <3>1, <3>2, <3>3, Meeting
    <3>q. QED BY <1>1, <1>3, <3>1, <3>4 DEF ShownInv, LinkShown
  <2>2. ASSUME n.link[b] = "open"
        PROVE  \/ \A e \in Mine(s, b) : n.holder[e] = b
               \/ \E u \in Calls : n.at[u] = "releasing" /\ n.target[u] = b
    <3>1. b # a /\ s.link[b] = "open"
      BY <1>5, <2>2
    <3>2. CASE \A e \in Mine(s, b) : s.holder[e] = b
      <4>1. \A e \in Mine(s, b) : e \notin s.affected[t]
        BY <1>1, <3>1, <3>2, CallTypes DEF CallInv, AffectedOwn, a
      <4>q. QED BY <1>1, <1>3, <3>2, <4>1
    <3>3. CASE \E u \in Calls : s.at[u] = "releasing" /\ s.target[u] = b
      <4>1. PICK u \in Calls : s.at[u] = "releasing" /\ s.target[u] = b
        BY <3>3
      <4>2. SameCall(s, n, u)
        BY <1>8, <3>1, <4>1 DEF a
      <4>q. QED BY <4>1, <4>2 DEF SameCall
    <3>q. QED BY <1>1, <3>1, <3>2, <3>3 DEF ShownInv, LinkShown
  <2>q. QED BY <2>1, <2>2
<1>20. AffectedOwn(n)
  <2> SUFFICES ASSUME NEW c \in Intact(s), NEW u \in Calls, n.holder[c] # None,
                      n.target[u] # n.holder[c]
               PROVE  n.affected[u] \cap Mine(s, n.holder[c]) = {}
    BY <1>1 DEF AffectedOwn
  <2>1. n.holder[c] = s.holder[c]
    BY <1>9
  <2>2. CASE u # t
    BY <1>1, <1>8, <2>1, <2>2 DEF CallInv, AffectedOwn, SameCall
  <2>q. QED BY <1>2, <2>2
<1>21. AffectedSilent(n)
  BY <1>1, <1>2, <1>8 DEF CallInv, AffectedSilent, SameCall
<1>22. PassedApart(n)
  <2> SUFFICES ASSUME NEW c \in Intact(s), NEW u \in Calls, n.holder[c] # None,
                      n.kind[u] = "connect", Busy(n, u)
               PROVE  \/ Passed(n, u) \cap Mine(s, n.holder[c]) = {}
                      \/ Replaces(n, u, n.holder[c]) /\ c \in Todo(n, u)
    BY <1>1 DEF PassedApart
  <2>0. s.kind[u] = "connect" /\ Busy(s, u)
    BY <1>1, <1>2, <1>8, SameCallFacts DEF SameCall
  <2>1. n.holder[c] = s.holder[c] /\ s.affected[t] \cap Mine(s, s.holder[c]) = {}
    BY <1>9
  <2>2. \/ Passed(s, u) \cap Mine(s, s.holder[c]) = {}
        \/ Replaces(s, u, s.holder[c]) /\ c \in Todo(s, u)
    BY <1>1, <2>0, <2>1 DEF CallInv, PassedApart
  <2>3. CASE Replaces(s, u, s.holder[c]) /\ c \in Todo(s, u)
    BY <1>9, <2>1, <2>3
  <2>4. CASE u # t /\ Passed(s, u) \cap Mine(s, s.holder[c]) = {}
    <3>1. Passed(n, u) = Passed(s, u)
      BY <1>1, <1>8, <2>4 DEF Passed, SameCall
    <3>q. QED BY <2>1, <2>4, <3>1
  <2>5. CASE u = t /\ Passed(s, t) \cap Mine(s, s.holder[c]) = {}
    <3>1. s.fields[t] = <<>>
      BY <1>1, <2>0, <2>5
    <3>2. ASSUME NEW e \in Passed(n, t) PROVE e \in Passed(s, t) \/ e \in s.affected[t]
      <4>1. e \in Mine(s, t) /\ e \in Nat
        <5>1. Mine(s, t) \subseteq Slots
          BY <1>1, AreaFacts
        <5>q. QED BY <1>1, <5>1, BoundsAssumption DEF Passed, Slots
      <4>2. e < d \/ e = d
        BY <1>1, <1>2, <3>1, <4>1 DEF Passed
      <4>3. e = d => s.affected[t] = {} \/ e \in s.affected[t]
        BY <1>1, <3>1 DEF OfShared
      <4>q. QED BY <1>2, <4>1, <4>2, <4>3 DEF Passed, d
    <3>q. QED BY <2>1, <2>5, <3>2
  <2>q. QED BY <2>2, <2>3, <2>4, <2>5
<1>23. ClaimsField(n)
  <2> SUFFICES ASSUME NEW u \in Calls, n.kind[u] = "connect", Busy(n, u),
                      s.offer[u].field # "none", NEW c \in Mine(s, u), c \in Intact(s)
               PROVE  n.shared[s.offer[u].field] = u
    BY <1>1, <1>2 DEF ClaimsField
  <2>1. s.kind[u] = "connect" /\ Busy(s, u)
    BY <1>1, <1>2, <1>8, SameCallFacts DEF SameCall
  <2>2. s.shared[s.offer[u].field] = u /\ s.offer[u].field \in Names
    <3>1. s.offer[u] \in Offers
      BY <1>1, <2>1 DEF Shape, CallShape
    <3>q. QED BY <1>1, <2>1, <3>1, OfferTypes DEF CallInv, ClaimsField
  <2>3. u = a => ~OfShared(s, t)
    <3> SUFFICES ASSUME u = a, OfShared(s, t) PROVE FALSE
      OBVIOUS
    <3>1. CASE s.affected[t] # {}
      BY <1>1, <1>2, <2>1, <3>1 DEF Place, Installed, Busy, a
    <3>2. CASE s.fields[t] # <<>>
      <4>1. s.kind[t] = "all" /\ u # t
        BY <1>1, <2>1, <3>2
      <4>2. c \in Area(s, t) /\ c \in Area(s, u) /\ Live(s, u)
        BY <1>1, <2>1, <4>1, AreaFacts DEF Busy, Live
      <4>q. QED BY <1>1, <4>1, <4>2, Meeting
    <3>q. QED BY <3>1, <3>2 DEF OfShared
  <2>q. QED BY <1>4, <2>2, <2>3
<1>q. QED BY <1>10, <1>11, <1>12, <1>13, <1>14, <1>15, <1>16, <1>17, <1>18, <1>19,
             <1>20, <1>21, <1>22, <1>23 DEF ViewInv, HolderInv, ShownInv, CallInv

-----------------------------------------------------------------------------
(* The slots of a connect are free: its adapter takes them.                *)
Installs(s, n, t) ==
    /\ s.at[t] = "ready" /\ s.kind[t] = "connect" /\ s.from[t] > s.upto[t]
    /\ Others(s, n, t) /\ n.at[t] = "connecting"
    /\ n.kind[t] = s.kind[t] /\ n.fields[t] = s.fields[t]
    /\ n.from[t] = s.from[t] /\ n.upto[t] = s.upto[t]
    /\ n.target[t] = s.target[t] /\ n.affected[t] = s.affected[t]
    /\ n.shared = s.shared /\ n.offer = s.offer /\ n.link = s.link
    /\ n.rates = s.rates /\ n.disturbed = s.disturbed
    /\ n.heard = s.heard \cup {t}
    /\ \A c \in Slots : n.holder[c] = IF c \in Mine(s, t) THEN t ELSE s.holder[c]
    /\ \A c \in Slots : n.source[c] = IF c = First(s, t) THEN t ELSE s.source[c]
    /\ \A c \in Slots : n.state[c] = IF c \in Mine(s, t) THEN "connecting"
                                     ELSE s.state[c]

LEMMA InstallsFacts ==
    ASSUME NEW s, NEW n, NEW t \in Calls, ViewInv(s), Installs(s, n, t)
    PROVE  /\ ViewTypes(s) /\ Shape(s) /\ Place(s) /\ Apart(s)
           /\ HolderInv(s) /\ ShownInv(s) /\ CallInv(s)
           /\ CallShape(s, t) /\ Live(s, t) /\ Live(n, t) /\ Busy(s, t) /\ ~Busy(n, t)
           /\ Installed(n, t) /\ ~Installed(s, t)
           /\ \A a : Mine(n, a) = Mine(s, a) /\ First(n, a) = First(s, a)
           /\ Intact(n) = Intact(s) /\ Intact(s) \subseteq Slots
           /\ s.offer[t] \in Offers /\ s.fields[t] = <<>> /\ s.affected[t] = {}
           /\ Todo(s, t) = {} /\ Mine(s, t) \subseteq Slots
           /\ Mine(s, t) \subseteq Area(s, t) /\ Work(s, t) = Mine(s, t)
           /\ First(s, t) \in Mine(s, t) /\ Passed(s, t) = Mine(s, t)
<1>1. /\ ViewTypes(s) /\ Shape(s) /\ Place(s) /\ Apart(s)
      /\ HolderInv(s) /\ ShownInv(s) /\ CallInv(s)
  BY DEF ViewInv
<1>2. CallShape(s, t) /\ s.at[t] = "ready" /\ s.kind[t] = "connect"
      /\ n.at[t] = "connecting"
  BY <1>1 DEF Shape, Installs
<1>3. Live(s, t) /\ Live(n, t) /\ Busy(s, t) /\ ~Busy(n, t) /\ Installed(n, t)
      /\ ~Installed(s, t)
  BY <1>2 DEF Live, Busy, Installed
<1>4. \A a : Mine(n, a) = Mine(s, a) /\ First(n, a) = First(s, a)
  BY SameOffers DEF Installs
<1>5. /\ s.offer[t] \in Offers /\ s.fields[t] = <<>> /\ s.affected[t] = {}
      /\ s.from[t] \in Nat /\ s.upto[t] \in Nat /\ s.from[t] > s.upto[t]
  BY <1>1, <1>2 DEF CallShape, ViewTypes, Installs
<1>6. Todo(s, t) = {}
  BY <1>5 DEF Todo
<1>7. /\ Mine(s, t) \subseteq Slots /\ Mine(s, t) \subseteq Area(s, t)
      /\ Mine(s, t) = First(s, t) .. s.upto[t] /\ Work(s, t) = Mine(s, t)
  BY <1>1, <1>2, AreaFacts DEF Work
<1>8. First(s, t) \in Mine(s, t) /\ First(s, t) \in Nat
  BY <1>5, OfferTypes DEF First, Mine
<1>9. Passed(s, t) = Mine(s, t)
  <2>1. \A d \in Mine(s, t) : d < s.from[t]
    BY <1>5, <1>7, <1>8
  <2>q. QED BY <2>1 DEF Passed
<1>q. QED BY <1>1, <1>2, <1>3, <1>4, <1>5, <1>6, <1>7, <1>8, <1>9 DEF Installs, Intact

(* Nobody holds an intact slot of the new adapter, and no call under way   *)
(* works on one.                                                           *)
LEMMA InstallsAlone ==
    ASSUME NEW s, NEW n, NEW t \in Calls, ViewInv(s), Installs(s, n, t)
    PROVE  /\ \A c \in Slots : s.holder[c] # t /\ s.source[c] # t
           /\ t \notin s.heard
           /\ \A c \in Intact(s) : s.holder[c] # None =>
                /\ s.holder[c] \in Calls /\ s.holder[c] # t
                /\ First(s, s.holder[c]) \in Mine(s, s.holder[c])
                /\ Mine(s, s.holder[c]) \subseteq Slots
                /\ c \notin Mine(s, t) /\ n.holder[c] = s.holder[c]
                /\ Mine(s, t) \cap Mine(s, s.holder[c]) = {}
                /\ Whole(s, s.holder[c]) \/ Replaced(s, s.holder[c], c)
           /\ \A u \in Calls, d \in Mine(s, t) :
                u # t /\ Live(s, u) /\ d \in Area(s, u) =>
                  /\ \A e \in Mine(s, t) : e \notin Intact(s)
                  /\ s.kind[u] # "all" => \A e \in Area(s, u) : e \notin Intact(s)
<1>1. /\ ViewTypes(s) /\ Shape(s) /\ Place(s) /\ Apart(s)
      /\ HolderInv(s) /\ CallInv(s) /\ Live(s, t) /\ Busy(s, t)
      /\ ~Installed(s, t) /\ Intact(s) \subseteq Slots
      /\ Todo(s, t) = {} /\ Mine(s, t) \subseteq Slots /\ Passed(s, t) = Mine(s, t)
      /\ Mine(s, t) \subseteq Area(s, t) /\ s.kind[t] = "connect"
  BY InstallsFacts DEF Installs
<1>2. (\A c \in Slots : s.holder[c] # t /\ s.source[c] # t) /\ t \notin s.heard
  BY <1>1, CallTypes DEF Place
<1>3. ASSUME NEW c \in Intact(s), s.holder[c] # None
      PROVE  /\ s.holder[c] \in Calls /\ s.holder[c] # t
             /\ First(s, s.holder[c]) \in Mine(s, s.holder[c])
             /\ Mine(s, s.holder[c]) \subseteq Slots
             /\ c \notin Mine(s, t) /\ n.holder[c] = s.holder[c]
             /\ Mine(s, t) \cap Mine(s, s.holder[c]) = {}
             /\ Whole(s, s.holder[c]) \/ Replaced(s, s.holder[c], c)
  <2>1. /\ s.holder[c] \in Calls /\ First(s, s.holder[c]) \in Mine(s, s.holder[c])
        /\ Mine(s, s.holder[c]) \subseteq Slots /\ c \in Mine(s, s.holder[c])
    BY <1>1, <1>3, HolderFacts
  <2>2. Mine(s, t) \cap Mine(s, s.holder[c]) = {}
    BY <1>1, <1>3 DEF CallInv, PassedApart
  <2>3. c \notin Mine(s, t)
    BY <2>1, <2>2
  <2>4. n.holder[c] = s.holder[c]
    BY <1>1, <2>3 DEF Installs
  <2>5. Whole(s, s.holder[c]) \/ Replaced(s, s.holder[c], c)
    BY <1>1, <1>3 DEF HolderInv, HeldWhole
  <2>q. QED BY <1>1, <1>2, <2>1, <2>2, <2>3, <2>4, <2>5
<1>4. ASSUME NEW u \in Calls, NEW d \in Mine(s, t), u # t, Live(s, u), d \in Area(s, u)
      PROVE  /\ \A e \in Mine(s, t) : e \notin Intact(s)
             /\ s.kind[u] # "all" => \A e \in Area(s, u) : e \notin Intact(s)
  BY <1>1, <1>4, Meeting
<1>q. QED BY <1>2, <1>3, <1>4

LEMMA InstallsApart ==
    ASSUME NEW s, NEW n, NEW t \in Calls, ViewInv(s), Installs(s, n, t)
    PROVE  Apart(n)
<1>1. /\ ViewTypes(s) /\ Shape(s) /\ Apart(s) /\ Live(s, t) /\ s.affected[t] = {}
      /\ Mine(s, t) \subseteq Slots /\ Mine(s, t) \subseteq Area(s, t)
      /\ Work(s, t) = Mine(s, t) /\ Intact(n) = Intact(s)
      /\ \A a : Mine(n, a) = Mine(s, a)
  BY InstallsFacts
<1>2. /\ \A c \in Slots : s.holder[c] # t
      /\ \A u \in Calls, d \in Mine(s, t) :
                u # t /\ Live(s, u) /\ d \in Area(s, u) =>
                  /\ \A e \in Mine(s, t) : e \notin Intact(s)
                  /\ s.kind[u] # "all" => \A e \in Area(s, u) : e \notin Intact(s)
  BY InstallsAlone
<1>3. Area(n, t) = Mine(s, t)
  <2>1. Work(n, t) = Mine(s, t) /\ n.affected[t] = {}
    BY <1>1 DEF Work, Installs
  <2>2. Zone(n, Mine(s, t)) = Mine(s, t)
    BY <1>1, <1>2 DEF Zone, Installs
  <2>q. QED BY <2>1, <2>2 DEF Area
<1>4. ASSUME NEW u \in Calls, u # t, Live(n, u)
      PROVE  /\ Live(s, u) /\ n.kind[u] = s.kind[u]
             /\ Area(n, u) \subseteq Area(s, u) \cup Mine(s, t)
             /\ Area(n, u) \cap Mine(s, t) # {} => Area(s, u) \cap Mine(s, t) # {}
  <2>1. SameCall(s, n, u)
    BY <1>4 DEF Installs, Others
  <2>2. Live(s, u) /\ n.kind[u] = s.kind[u] /\ n.affected[u] = s.affected[u]
        /\ n.upto[u] = s.upto[u]
    BY <1>4, <2>1, SameCallFacts DEF SameCall
  <2>3. Work(n, u) = Work(s, u) /\ Work(s, u) \subseteq Area(s, u)
        /\ s.affected[u] \subseteq Area(s, u) /\ Work(s, u) \subseteq Slots
    BY <1>1, <2>2, AreaFacts DEF Work
  <2>4. ASSUME NEW c \in Slots, NEW d \in Work(s, u), n.holder[c] # None,
               n.holder[d] = n.holder[c], c \notin Area(s, u)
        PROVE  c \in Mine(s, t) /\ d \in Mine(s, t)
    <3>1. CASE c \notin Mine(s, t) /\ d \notin Mine(s, t)
      <4>1. n.holder[c] = s.holder[c] /\ n.holder[d] = s.holder[d]
        BY <2>3, <3>1 DEF Installs
      <4>q. QED BY <2>4, <4>1 DEF Area, Zone
    <3>2. CASE c \in Mine(s, t) \/ d \in Mine(s, t)
      <4>1. n.holder[c] = t /\ n.holder[d] = t
        BY <2>3, <2>4, <3>2 DEF Installs
      <4>q. QED BY <1>2, <2>3, <4>1 DEF Installs
    <3>q. QED BY <3>1, <3>2
  <2>5. ASSUME NEW c \in Area(n, u), c \notin Area(s, u)
        PROVE  c \in Mine(s, t) /\ Area(s, u) \cap Mine(s, t) # {}
    <3>1. c \notin Work(s, u) /\ c \notin s.affected[u]
      BY <2>3, <2>5
    <3>2. PICK d \in Work(s, u) : c \in Slots /\ n.holder[c] # None
                                  /\ n.holder[d] = n.holder[c]
      BY <2>2, <2>3, <2>5, <3>1 DEF Area, Zone
    <3>3. c \in Mine(s, t) /\ d \in Mine(s, t)
      BY <2>4, <2>5, <3>2
    <3>q. QED BY <2>3, <3>3
  <2>q. QED BY <2>2, <2>5
<1> SUFFICES ASSUME NEW u \in Calls, NEW v \in Calls, u # v, Live(n, u), Live(n, v),
                    NEW d \in Slots, d \in Area(n, u), d \in Area(n, v)
             PROVE  /\ d \notin Intact(s)
                    /\ n.kind[v] # "all" => \A e \in Area(n, v) : e \notin Intact(s)
  <2>1. ASSUME NEW u \in Calls PROVE Area(n, u) \subseteq Slots
    <3>1. CASE u = t
      BY <1>1, <1>3, <3>1
    <3>2. CASE u # t
      <4>1. SameCall(s, n, u)
        BY <3>2 DEF Installs, Others
      <4>2. Work(n, u) = Work(s, u) /\ Work(s, u) \subseteq Slots
            /\ n.affected[u] \subseteq Slots
        BY <1>1, <4>1, AreaFacts DEF Work, SameCall, ViewTypes
      <4>q. QED BY <4>2 DEF Area, Zone
    <3>q. QED BY <3>1, <3>2
  <2>q. QED BY <1>1, <2>1 DEF Apart, Intact
<1>5. CASE u = t
  <2>1. Live(s, v) /\ n.kind[v] = s.kind[v] /\ d \in Mine(s, t)
    BY <1>3, <1>4, <1>5
  <2>2. PICK e \in Mine(s, t) : e \in Area(s, v)
    BY <1>4, <1>5, <2>1
  <2>q. QED BY <1>2, <1>4, <1>5, <2>1, <2>2
<1>6. CASE v = t
  <2>1. Live(s, u) /\ d \in Mine(s, t)
    BY <1>3, <1>4, <1>6
  <2>2. PICK e \in Mine(s, t) : e \in Area(s, u)
    BY <1>4, <1>6, <2>1
  <2>q. QED BY <1>2, <1>3, <1>6, <2>1, <2>2
<1>7. CASE u # t /\ v # t
  <2>1. Live(s, u) /\ Live(s, v) /\ n.kind[v] = s.kind[v]
        /\ Area(n, v) \subseteq Area(s, v) \cup Mine(s, t)
        /\ Area(n, u) \subseteq Area(s, u) \cup Mine(s, t)
    BY <1>4, <1>7
  <2>2. CASE d \in Mine(s, t)
    <3>1. PICK e \in Mine(s, t) : e \in Area(s, v)
      BY <1>4, <1>7, <2>2
    <3>2. /\ \A f \in Mine(s, t) : f \notin Intact(s)
          /\ s.kind[v] # "all" => \A f \in Area(s, v) : f \notin Intact(s)
      BY <1>2, <1>7, <2>1, <3>1
    <3>q. QED BY <2>1, <2>2, <3>2
  <2>3. CASE d \notin Mine(s, t)
    <3>1. d \in Area(s, u) /\ d \in Area(s, v)
      BY <2>1, <2>3
    <3>2. /\ d \notin Intact(s)
          /\ s.kind[v] # "all" => \A e \in Area(s, v) : e \notin Intact(s)
      BY <1>1, <2>1, <3>1, Meeting
    <3>3. ASSUME s.kind[v] # "all", NEW e \in Area(n, v), e \in Mine(s, t)
          PROVE  e \notin Intact(s)
      <4>1. PICK f \in Mine(s, t) : f \in Area(s, v)
        BY <1>4, <1>7, <3>3
      <4>q. QED BY <1>2, <1>7, <2>1, <3>3, <4>1
    <3>q. QED BY <2>1, <3>2, <3>3
  <2>q. QED BY <2>2, <2>3
<1>q. QED BY <1>5, <1>6, <1>7

LEMMA InstallsKeeps ==
    ASSUME NEW s, NEW n, NEW t \in Calls, ViewInv(s), ViewTypes(n), Installs(s, n, t)
    PROVE  ViewInv(n)
<1>1. /\ ViewTypes(s) /\ Shape(s) /\ Place(s) /\ Apart(s)
      /\ HolderInv(s) /\ ShownInv(s) /\ CallInv(s)
      /\ CallShape(s, t) /\ Live(s, t) /\ Live(n, t) /\ Busy(s, t) /\ ~Busy(n, t)
      /\ Installed(n, t) /\ ~Installed(s, t)
      /\ \A a : Mine(n, a) = Mine(s, a) /\ First(n, a) = First(s, a)
      /\ Intact(n) = Intact(s) /\ Intact(s) \subseteq Slots
      /\ s.offer[t] \in Offers /\ s.fields[t] = <<>> /\ s.affected[t] = {}
      /\ Todo(s, t) = {} /\ Mine(s, t) \subseteq Slots
      /\ First(s, t) \in Mine(s, t)
  BY InstallsFacts
<1>2. /\ t \notin s.heard
      /\ \A c \in Intact(s) : s.holder[c] # None =>
           /\ s.holder[c] \in Calls /\ s.holder[c] # t
           /\ First(s, s.holder[c]) \in Mine(s, s.holder[c])
           /\ Mine(s, s.holder[c]) \subseteq Slots
           /\ c \notin Mine(s, t) /\ n.holder[c] = s.holder[c]
           /\ Mine(s, t) \cap Mine(s, s.holder[c]) = {}
           /\ Whole(s, s.holder[c]) \/ Replaced(s, s.holder[c], c)
      /\ \A u \in Calls, d \in Mine(s, t) :
           u # t /\ Live(s, u) /\ d \in Area(s, u) =>
             /\ \A e \in Mine(s, t) : e \notin Intact(s)
             /\ s.kind[u] # "all" => \A e \in Area(s, u) : e \notin Intact(s)
  BY InstallsAlone
<1>3. /\ s.at[t] = "ready" /\ s.kind[t] = "connect" /\ s.from[t] > s.upto[t]
      /\ Others(s, n, t) /\ n.at[t] = "connecting"
      /\ n.kind[t] = s.kind[t] /\ n.fields[t] = s.fields[t]
      /\ n.from[t] = s.from[t] /\ n.upto[t] = s.upto[t]
      /\ n.target[t] = s.target[t] /\ n.affected[t] = s.affected[t]
      /\ n.shared = s.shared /\ n.offer = s.offer /\ n.link = s.link
      /\ n.rates = s.rates /\ n.disturbed = s.disturbed
      /\ n.heard = s.heard \cup {t}
  BY DEF Installs
<1>4. \A c \in Slots : n.holder[c] = IF c \in Mine(s, t) THEN t ELSE s.holder[c]
  BY DEF Installs
<1>5. \A c \in Slots : n.source[c] = IF c = First(s, t) THEN t ELSE s.source[c]
  BY DEF Installs
<1>6. \A c \in Slots : n.state[c] = "connected" => c \notin Mine(s, t) /\ s.state[c] = "connected"
  BY DEF Installs
<1>7. ASSUME NEW u \in Calls, u # t PROVE SameCall(s, n, u)
  BY <1>3, <1>7 DEF Others
<1>8. \A a \in Calls : Installed(s, a) => Installed(n, a)
  BY <1>1, <1>7, SameCallFacts
<1>9. Shape(n)
  <2>1. CallShape(n, t)
    BY <1>1, <1>3 DEF CallShape, First
  <2>2. \A u \in Calls : u # t => CallShape(n, u)
    BY <1>1, <1>3, <1>7, SameShape DEF Shape
  <2>q. QED BY <2>1, <2>2 DEF Shape
<1>10. Place(n)
  <2>1. \A c \in Slots : n.holder[c] # None =>
           Installed(n, n.holder[c]) /\ c \in Mine(n, n.holder[c])
    BY <1>1, <1>4, <1>8 DEF Place, ViewTypes
  <2>2. \A c \in Slots : n.source[c] # None =>
           Installed(n, n.source[c]) /\ c = First(n, n.source[c])
    BY <1>1, <1>5, <1>8, ZenonT(30) DEF Place, ViewTypes
  <2>3. \A a \in n.heard : Installed(n, a)
    BY <1>1, <1>3, <1>8 DEF Place, ViewTypes
  <2>4. \A f \in Names : n.shared[f] # None => n.offer[n.shared[f]].field = f
    BY <1>1, <1>3 DEF Place
  <2>5. ASSUME NEW u \in Calls, n.at[u] = "releasing"
        PROVE  /\ n.affected[u] # {} => Installed(n, n.target[u])
                                 /\ n.affected[u] \subseteq Mine(n, n.target[u])
               /\ n.fields[u] = <<>> =>
                  /\ Installed(n, n.target[u])
                  /\ n.from[u] \in Mine(n, n.target[u])
                  /\ n.affected[u] # {} => n.from[u] \in n.affected[u]
    <3>1. SameCall(s, n, u)
      BY <1>3, <1>7, <2>5
    <3>2. s.at[u] = "releasing" /\ s.target[u] \in Calls
      BY <1>1, <2>5, <3>1 DEF SameCall, Shape, CallShape
    <3>3. /\ s.affected[u] # {} => Installed(s, s.target[u])
                                   /\ s.affected[u] \subseteq Mine(s, s.target[u])
          /\ s.fields[u] = <<>> =>
                  /\ Installed(s, s.target[u])
                  /\ s.from[u] \in Mine(s, s.target[u])
                  /\ s.affected[u] # {} => s.from[u] \in s.affected[u]
      BY <1>1, <3>2 DEF Place
    <3>q. QED BY <1>1, <1>8, <3>1, <3>2, <3>3 DEF SameCall
  <2>q. QED BY <2>1, <2>2, <2>3, <2>4, <2>5 DEF Place
<1>11. Apart(n)
  BY InstallsApart
<1>12. ASSUME NEW c \in Intact(s), c \in Mine(s, t)
       PROVE  /\ n.holder[c] = t /\ Whole(n, t)
              /\ \A u \in Calls : u # t /\ Live(s, u) => Area(s, u) \cap Mine(s, t) = {}
  <2>1. n.holder[c] = t
    BY <1>1, <1>4, <1>12
  <2>2. \A d \in Mine(s, t) : n.holder[d] = t
    BY <1>1, <1>4
  <2>3. n.source[First(s, t)] = t
    BY <1>1, <1>5
  <2>4. s.offer[t].field # "none" => s.shared[s.offer[t].field] = t
    BY <1>1, <1>3, <1>12 DEF CallInv, ClaimsField
  <2>5. \A u \in Calls : u # t /\ Live(s, u) => Area(s, u) \cap Mine(s, t) = {}
    BY <1>2, <1>12
  <2>q. QED BY <1>1, <1>3, <2>1, <2>2, <2>3, <2>4, <2>5 DEF Whole
<1>13. ASSUME NEW c \in Intact(s), s.holder[c] # None, NEW z \in Calls,
              Replaces(s, z, s.holder[c]), c \in Todo(s, z)
       PROVE  Replaces(n, z, s.holder[c]) /\ c \in Todo(n, z)
  <2> DEFINE b == s.holder[c]
  <2>1. z # t /\ s.kind[z] = "connect" /\ Live(s, z) /\ Mine(s, z) = Mine(s, b)
    BY <1>1, <1>13 DEF Replaces, Busy, Live, Mine
  <2>2. SameCall(s, n, z)
    BY <1>7, <2>1
  <2>3. (Busy(n, z) <=> Busy(s, z)) /\ Todo(n, z) = Todo(s, z)
    BY <2>2, SameCallFacts
  <2>4. Todo(s, z) \subseteq Mine(s, b)
    BY <1>1, <2>1, AreaFacts DEF Work
  <2>5. \A e \in Todo(s, z) : n.holder[e] = s.holder[e]
    BY <1>2, <1>4, <1>13, <2>4
  <2>6. b \in n.heard => b \in s.heard /\ n.source[First(s, b)] = s.source[First(s, b)]
    BY <1>1, <1>2, <1>3, <1>5, <1>13
  <2>q. QED BY <1>1, <1>3, <1>13, <2>2, <2>3, <2>5, <2>6 DEF Replaces, SameCall
<1>14. HeldWhole(n)
  <2> SUFFICES ASSUME NEW c \in Intact(s), n.holder[c] # None
               PROVE  Whole(n, n.holder[c]) \/ Replaced(n, n.holder[c], c)
    BY <1>1 DEF HeldWhole
  <2>1. CASE c \in Mine(s, t)
    BY <1>12, <2>1
  <2>2. CASE c \notin Mine(s, t)
    <3> DEFINE b == s.holder[c]
    <3>1. n.holder[c] = b /\ b # None
      BY <1>1, <1>4, <2>2
    <3>2. CASE Replaced(s, b, c)
      BY <1>3, <1>13, <3>1, <3>2 DEF Replaced
    <3>3. CASE Whole(s, b)
      <4>1. \A e \in Mine(s, b) : n.holder[e] = b
        BY <1>2, <1>4, <3>1, <3>3 DEF Whole
      <4>2. b \in n.heard => b \in s.heard /\ n.source[First(s, b)] = s.source[First(s, b)]
        BY <1>1, <1>2, <1>3, <1>5, <3>1
      <4>q. QED BY <1>1, <1>3, <3>1, <3>3, <4>1, <4>2 DEF Whole
    <3>q. QED BY <1>2, <3>1, <3>2, <3>3
  <2>q. QED BY <2>1, <2>2
<1>15. HeardHeld(n)
  <2> SUFFICES ASSUME NEW c \in Intact(s), NEW b \in n.heard, c \in Mine(s, b)
               PROVE  n.holder[c] = b
    BY <1>1 DEF HeardHeld
  <2>1. CASE b = t
    BY <1>12, <2>1
  <2>2. CASE b # t
    <3>1. b \in s.heard /\ b # None
      BY <1>1, <1>3, <2>2, CallTypes DEF ViewTypes
    <3>2. s.holder[c] = b
      BY <1>1, <3>1 DEF HolderInv, HeardHeld
    <3>q. QED BY <1>2, <3>1, <3>2
  <2>q. QED BY <2>1, <2>2
<1>16. FreedEmpty(n)
  <2> SUFFICES ASSUME NEW u \in Calls, n.at[u] = "releasing", n.fields[u] = <<>>,
                      n.affected[u] = {}, n.from[u] \in Intact(s)
               PROVE  n.holder[n.from[u]] = None
    BY <1>1 DEF FreedEmpty
  <2>1. u # t /\ SameCall(s, n, u)
    BY <1>3, <1>7
  <2>2. s.holder[n.from[u]] = None
    BY <1>1, <2>1 DEF HolderInv, FreedEmpty, SameCall
  <2>3. Live(s, u) /\ s.from[u] \in Todo(s, u)
    BY <1>1, <2>1 DEF Live, SameCall, Shape, CallShape, Todo, ViewTypes
  <2>4. n.from[u] \in Area(s, u)
    BY <1>1, <2>1, <2>3, AreaFacts DEF SameCall
  <2>5. n.from[u] \notin Mine(s, t)
    BY <1>12, <2>1, <2>3, <2>4
  <2>q. QED BY <1>1, <1>4, <2>2, <2>5
<1>17. ASSUME NEW u \in Calls, s.at[u] = "releasing", s.target[u] = t,
              s.affected[u] # {} \/ s.fields[u] # <<>>
       PROVE  Mine(s, t) \cap Intact(s) = {}
  <2>1. u # t /\ Live(s, u)
    BY <1>3, <1>17 DEF Live
  <2>2. s.affected[u] = {}
    BY <1>1, <1>17 DEF Place
  <2>3. s.kind[u] = "all"
    BY <1>1, <1>17, <2>1, <2>2 DEF Shape, CallShape, ViewTypes
  <2>4. Area(s, u) = Slots
    BY <1>1, <2>3, AreaFacts
  <2>q. QED BY <1>1, <1>12, <2>1, <2>4
<1>18. Covered(n)
  <2> SUFFICES ASSUME NEW u \in Calls, n.at[u] = "releasing",
                      n.affected[u] # {} \/ n.fields[u] # <<>>,
                      NEW c \in Intact(s), n.holder[c] = n.target[u]
               PROVE  c \in n.affected[u]
    BY <1>1 DEF Covered
  <2>1. SameCall(s, n, u)
    BY <1>3, <1>7
  <2>2. c \notin Mine(s, t)
    BY <1>12, <1>17, <2>1 DEF SameCall
  <2>3. s.holder[c] = s.target[u]
    BY <1>1, <1>4, <2>1, <2>2 DEF SameCall
  <2>q. QED BY <1>1, <2>1, <2>3 DEF HolderInv, Covered, SameCall
<1>19. ShownLive(n)
  <2> SUFFICES ASSUME NEW c \in Intact(s), n.state[c] = "connected"
               PROVE  \/ /\ n.holder[c] \in n.heard /\ s.rates = TRUE
                         /\ s.link[n.holder[c]] = "open"
                      \/ Pending(n, c)
    BY <1>1, <1>3 DEF ShownLive
  <2>1. c \in Slots /\ s.state[c] = "connected" /\ n.holder[c] = s.holder[c]
    BY <1>1, <1>4, <1>6
  <2>2. Pending(s, c) => Pending(n, c)
    BY <1>1, <1>3, PendingKept
  <2>q. QED BY <1>1, <1>3, <2>1, <2>2 DEF ShownInv, ShownLive
<1>20. PassedQuiet(n)
  <2> SUFFICES ASSUME NEW u \in Calls, n.kind[u] = "all", Busy(n, u),
                      NEW c \in Intact(s), c < n.from[u], n.state[c] = "connected"
               PROVE  FALSE
    BY <1>1 DEF PassedQuiet
  <2>1. s.kind[u] = "all" /\ Busy(s, u) /\ n.from[u] = s.from[u]
    BY <1>1, <1>7, SameCallFacts DEF SameCall
  <2>q. QED BY <1>1, <1>6, <2>1 DEF ShownInv, PassedQuiet
<1>21. LinkShown(n)
  <2> SUFFICES ASSUME NEW b \in Calls, Mine(s, b) \subseteq Intact(s)
               PROVE  /\ n.at[b] = "connecting" => \A e \in Mine(s, b) : n.holder[e] = b
                      /\ s.link[b] = "open" =>
                           \/ \A e \in Mine(s, b) : n.holder[e] = b
                           \/ \E u \in Calls : n.at[u] = "releasing" /\ n.target[u] = b
    BY <1>1, <1>3 DEF LinkShown
  <2>1. CASE b = t
    BY <1>1, <1>4, <2>1
  <2>2. CASE b # t
    <3>1. n.at[b] = "connecting" => s.at[b] = "connecting"
      BY <1>7, <2>2 DEF SameCall
    <3>2. (\A e \in Mine(s, b) : s.holder[e] = b) => \A e \in Mine(s, b) : n.holder[e] = b
      BY <1>2, CallTypes
    <3>3. \A u \in Calls : s.at[u] = "releasing" => n.at[u] = "releasing" /\ n.target[u] = s.target[u]
      BY <1>3, <1>7 DEF SameCall
    <3>q. QED BY <1>1, <3>1, <3>2, <3>3 DEF ShownInv, LinkShown
  <2>q. QED BY <2>1, <2>2
<1>22. ASSUME NEW c \in Intact(s), n.holder[c] # t PROVE n.holder[c] = s.holder[c]
  BY <1>1, <1>4, <1>22
<1>23. AffectedOwn(n)
  <2> SUFFICES ASSUME NEW c \in Intact(s), NEW u \in Calls, n.holder[c] # None,
                      n.target[u] # n.holder[c], n.affected[u] # {}
               PROVE  n.affected[u] \cap Mine(s, n.holder[c]) = {}
    BY <1>1 DEF AffectedOwn
  <2>1. u # t /\ SameCall(s, n, u)
    BY <1>1, <1>3, <1>7
  <2>2. CASE n.holder[c] = t
    <3>1. c \in Mine(s, t)
      BY <1>1, <1>4, <1>10, <2>2 DEF Place
    <3>2. Live(s, u)
      BY <1>1, <2>1 DEF Live, SameCall, Shape, CallShape
    <3>3. s.affected[u] \subseteq Area(s, u)
      BY <1>1, AreaFacts
    <3>q. QED BY <1>12, <2>1, <2>2, <3>1, <3>2, <3>3 DEF SameCall
  <2>3. CASE n.holder[c] # t
    BY <1>1, <1>22, <2>1, <2>3 DEF CallInv, AffectedOwn, SameCall
  <2>q. QED BY <2>2, <2>3
<1>24. AffectedSilent(n)
  <2> SUFFICES ASSUME NEW u \in Calls, NEW c \in Intact(s), c \in n.affected[u],
                      n.target[u] \in n.heard
               PROVE  FALSE
    BY <1>1 DEF AffectedSilent
  <2>1. u # t /\ SameCall(s, n, u)
    BY <1>1, <1>3, <1>7
  <2>2. s.at[u] = "releasing" /\ s.affected[u] # {}
    BY <1>1, <2>1 DEF SameCall, Shape, CallShape
  <2>3. Installed(s, s.target[u])
    BY <1>1, <2>2 DEF Place
  <2>q. QED BY <1>1, <1>3, <2>1, <2>3 DEF CallInv, AffectedSilent, SameCall
<1>25. PassedApart(n)
  <2> SUFFICES ASSUME NEW c \in Intact(s), NEW u \in Calls, n.holder[c] # None,
                      n.kind[u] = "connect", Busy(n, u)
               PROVE  \/ Passed(n, u) \cap Mine(s, n.holder[c]) = {}
                      \/ Replaces(n, u, n.holder[c]) /\ c \in Todo(n, u)
    BY <1>1 DEF PassedApart
  <2>1. u # t /\ SameCall(s, n, u)
    BY <1>1, <1>7
  <2>2. s.kind[u] = "connect" /\ Busy(s, u) /\ Live(s, u)
    BY <2>1, SameCallFacts DEF SameCall, Busy, Live
  <2>3. Passed(n, u) = Passed(s, u)
    BY <1>1, <2>1 DEF Passed, SameCall
  <2>4. CASE n.holder[c] = t
    <3>1. c \in Mine(s, t)
      BY <1>1, <1>4, <1>10, <2>4 DEF Place
    <3>2. Passed(s, u) \subseteq Area(s, u)
      BY <1>1, <2>2, AreaFacts DEF Passed
    <3>q. QED BY <1>12, <2>1, <2>2, <2>3, <2>4, <3>1, <3>2
  <2>5. CASE n.holder[c] # t
    <3>1. n.holder[c] = s.holder[c]
      BY <1>22, <2>5
    <3>2. \/ Passed(s, u) \cap Mine(s, s.holder[c]) = {}
          \/ Replaces(s, u, s.holder[c]) /\ c \in Todo(s, u)
      BY <1>1, <2>2, <3>1 DEF CallInv, PassedApart
    <3>q. QED BY <1>13, <2>3, <3>1, <3>2
  <2>q. QED BY <2>4, <2>5
<1>26. ClaimsField(n)
  <2> SUFFICES ASSUME NEW u \in Calls, n.kind[u] = "connect", Busy(n, u),
                      s.offer[u].field # "none", Mine(s, u) \cap Intact(s) # {}
               PROVE  s.shared[s.offer[u].field] = u
    BY <1>1, <1>3 DEF ClaimsField
  <2>1. s.kind[u] = "connect" /\ Busy(s, u)
    BY <1>1, <1>7, SameCallFacts DEF SameCall
  <2>q. QED BY <1>1, <2>1 DEF CallInv, ClaimsField
<1>q. QED BY <1>9, <1>10, <1>11, <1>14, <1>15, <1>16, <1>18, <1>19, <1>20, <1>21,
             <1>23, <1>24, <1>25, <1>26 DEF ViewInv, HolderInv, ShownInv, CallInv

-----------------------------------------------------------------------------
(* A new call: a connect for a shared adapter takes its field at once, and *)
(* the slots on which it meets the calls under way are disturbed.          *)
Asks(s, n, t) ==
    /\ n.kind[t] \in {"connect", "channel", "all"}
    /\ n.target[t] = None /\ n.affected[t] = {}
    /\ n.kind[t] = "connect" =>
         /\ n.at[t] = "ready" /\ n.fields[t] = <<>> /\ n.offer[t] \in Offers
         /\ n.from[t] = First(n, t)
         /\ n.upto[t] = First(n, t) + n.offer[t].width - 1
    /\ n.kind[t] = "channel" =>
         /\ n.at[t] = "ready" /\ n.fields[t] = <<>>
         /\ n.from[t] = n.upto[t] /\ n.upto[t] \in Slots
    /\ n.kind[t] = "all" =>
         /\ n.at[t] = "stopping" /\ n.fields[t] # <<>>
         /\ n.from[t] = 1 /\ n.upto[t] = Channels

Begins(s, n, t) ==
    /\ s.at[t] = "unused" /\ Others(s, n, t) /\ Asks(s, n, t)
    /\ n.holder = s.holder /\ n.source = s.source /\ n.state = s.state
    /\ n.heard = s.heard /\ n.link = s.link /\ n.rates = s.rates
    /\ \A a \in Calls : a # t => n.offer[a] = s.offer[a]
    /\ \A f \in Names :
          n.shared[f] = IF n.kind[t] = "connect" /\ f = n.offer[t].field THEN t
                        ELSE s.shared[f]
    /\ s.disturbed \subseteq n.disturbed
    /\ \A u \in Calls, d \in Slots :
          u # t /\ Live(n, u) /\ d \in Area(n, u) /\ d \in Area(n, t) =>
             /\ d \in n.disturbed
             /\ n.kind[u] # "all" => Area(n, u) \subseteq n.disturbed
             /\ n.kind[t] # "all" => Area(n, t) \subseteq n.disturbed

LEMMA BeginsFacts ==
    ASSUME NEW s, NEW n, NEW t \in Calls, ViewInv(s), ViewTypes(n), Begins(s, n, t)
    PROVE  /\ ViewTypes(s) /\ Shape(s) /\ Place(s) /\ Apart(s)
           /\ HolderInv(s) /\ ShownInv(s) /\ CallInv(s)
           /\ ~Live(s, t) /\ Live(n, t) /\ ~Busy(s, t)
           /\ n.kind[t] = "all" => ~Busy(n, t)
           /\ \A f \in Names : s.shared[f] # t
           /\ \A a \in Calls : a # t =>
                Mine(n, a) = Mine(s, a) /\ First(n, a) = First(s, a)
           /\ \A c : c \in Intact(n) => c \in Intact(s) /\ c \in Slots
           /\ s.link[t] = "closed" /\ s.affected[t] = {} /\ t \notin s.heard
           /\ \A c \in Slots : s.holder[c] # t /\ s.source[c] # t
           /\ \A c \in Slots : s.holder[c] # None =>
                /\ s.holder[c] \in Calls /\ s.offer[s.holder[c]] \in Offers
                /\ c \in Mine(s, s.holder[c])
           /\ CallShape(n, t) /\ Shape(n)
<1>1. /\ ViewTypes(s) /\ Shape(s) /\ Place(s) /\ Apart(s)
      /\ HolderInv(s) /\ ShownInv(s) /\ CallInv(s)
  BY DEF ViewInv
<1>2. CallShape(s, t) /\ s.at[t] = "unused"
  BY <1>1 DEF Shape, Begins
<1>3. s.offer[t] = NoOffer /\ s.link[t] = "closed" /\ s.affected[t] = {}
  BY <1>2 DEF CallShape
<1>4. /\ ~Live(s, t) /\ Live(n, t) /\ ~Busy(s, t) /\ ~Installed(s, t)
      /\ n.kind[t] = "all" => ~Busy(n, t)
  BY <1>2 DEF Live, Busy, Installed, Begins, Asks
<1>5. \A f \in Names : s.shared[f] # t
  BY <1>1, <1>3, OfferTypes, CallTypes DEF Place, Names
<1>6. \A a \in Calls : a # t => Mine(n, a) = Mine(s, a) /\ First(n, a) = First(s, a)
  BY DEF Mine, First, Begins
<1>7. \A c : c \in Intact(n) => c \in Intact(s) /\ c \in Slots
  BY DEF Intact, Begins
<1>8. t \notin s.heard /\ \A c \in Slots : s.holder[c] # t /\ s.source[c] # t
  BY <1>1, <1>4, CallTypes DEF Place
<1>9. \A c \in Slots : s.holder[c] # None =>
        /\ s.holder[c] \in Calls /\ s.offer[s.holder[c]] \in Offers
        /\ c \in Mine(s, s.holder[c])
  BY <1>1, HolderFacts
<1>10. CallShape(n, t)
  <2>1. CASE n.kind[t] = "connect"
    <3> DEFINE b == First(n, t)
               e == b + n.offer[t].width - 1
    <3>1. b \in Nat /\ e \in Nat /\ b <= e
      BY <2>1, OfferTypes DEF Begins, Asks, First
    <3>2. n.from[t] = b /\ n.upto[t] = e
      BY <2>1 DEF Begins, Asks
    <3>3. First(n, t) <= n.from[t] /\ n.from[t] <= n.upto[t] + 1
      BY <3>1, <3>2
    <3> HIDE DEF b, e
    <3>q. QED BY <1>4, <2>1, <3>3 DEF CallShape, Begins, Asks
  <2>2. CASE n.kind[t] = "channel"
    BY <1>4, <2>2 DEF CallShape, Begins, Asks
  <2>3. CASE n.kind[t] = "all"
    BY <1>4, <2>3, BoundsAssumption DEF CallShape, Begins, Asks
  <2>q. QED BY <2>1, <2>2, <2>3 DEF Begins, Asks
<1>11. \A u \in Calls : u # t => CallShape(n, u)
  BY <1>1, SameShape DEF Shape, Begins, Others
<1>q. QED BY <1>1, <1>3, <1>4, <1>5, <1>6, <1>7, <1>8, <1>9, <1>10, <1>11 DEF Shape

LEMMA BeginsKeeps ==
    ASSUME NEW s, NEW n, NEW t \in Calls, ViewInv(s), ViewTypes(n), Begins(s, n, t)
    PROVE  ViewInv(n)
<1>1. /\ ViewTypes(s) /\ Shape(s) /\ Place(s) /\ Apart(s)
      /\ HolderInv(s) /\ ShownInv(s) /\ CallInv(s)
      /\ ~Live(s, t) /\ Live(n, t) /\ ~Busy(s, t)
      /\ n.kind[t] = "all" => ~Busy(n, t)
      /\ \A f \in Names : s.shared[f] # t
      /\ \A a \in Calls : a # t =>
           Mine(n, a) = Mine(s, a) /\ First(n, a) = First(s, a)
      /\ \A c : c \in Intact(n) => c \in Intact(s) /\ c \in Slots
      /\ s.link[t] = "closed" /\ s.affected[t] = {} /\ t \notin s.heard
      /\ \A c \in Slots : s.holder[c] # t /\ s.source[c] # t
      /\ \A c \in Slots : s.holder[c] # None =>
           /\ s.holder[c] \in Calls /\ s.offer[s.holder[c]] \in Offers
           /\ c \in Mine(s, s.holder[c])
      /\ Shape(n)
  BY BeginsFacts
<1>2. /\ s.at[t] = "unused" /\ Others(s, n, t)
      /\ n.holder = s.holder /\ n.source = s.source /\ n.state = s.state
      /\ n.heard = s.heard /\ n.link = s.link /\ n.rates = s.rates
      /\ n.affected[t] = {} /\ n.at[t] \in {"ready", "stopping"}
      /\ \A a \in Calls : a # t => n.offer[a] = s.offer[a]
      /\ s.disturbed \subseteq n.disturbed
  BY DEF Begins, Asks
<1>3. \A f \in Names : n.shared[f] = IF n.kind[t] = "connect" /\ f = n.offer[t].field
                                     THEN t ELSE s.shared[f]
  BY DEF Begins
<1>4. ASSUME NEW u \in Calls, u # t PROVE SameCall(s, n, u)
  BY <1>2, <1>4 DEF Others
<1>5. n.kind[t] = "connect" =>
        /\ n.offer[t] \in Offers /\ n.from[t] = First(n, t) /\ n.at[t] = "ready"
        /\ Busy(n, t) /\ Todo(n, t) = Mine(n, t) /\ Passed(n, t) = {}
        /\ First(n, t) \in Mine(n, t)
  <2> SUFFICES ASSUME n.kind[t] = "connect"
               PROVE  /\ n.offer[t] \in Offers /\ n.from[t] = First(n, t)
                      /\ n.at[t] = "ready"
                      /\ Busy(n, t) /\ Todo(n, t) = Mine(n, t) /\ Passed(n, t) = {}
                      /\ First(n, t) \in Mine(n, t)
    OBVIOUS
  <2>1. /\ n.offer[t] \in Offers /\ n.from[t] = First(n, t) /\ n.at[t] = "ready"
        /\ n.upto[t] = First(n, t) + n.offer[t].width - 1
    BY DEF Begins, Asks
  <2>2. /\ Mine(n, t) = First(n, t) .. First(n, t) + n.offer[t].width - 1
        /\ First(n, t) \in Nat /\ First(n, t) \in Mine(n, t)
    BY <2>1, OfferTypes DEF Mine, First
  <2>3. Todo(n, t) = Mine(n, t)
    BY <2>1, <2>2 DEF Todo
  <2>4. Passed(n, t) = {}
    BY <2>1, <2>2, OfferTypes DEF Passed
  <2>q. QED BY <2>1, <2>2, <2>3, <2>4 DEF Busy
<1>6. Place(n)
  <2>1. \A a \in Calls : Installed(s, a) => Installed(n, a) /\ a # t
    BY <1>2, <1>4, SameCallFacts DEF Installed
  <2>2. \A c \in Slots : n.holder[c] # None =>
           Installed(n, n.holder[c]) /\ c \in Mine(n, n.holder[c])
    BY <1>1, <1>2, <2>1 DEF Place, ViewTypes
  <2>3. \A c \in Slots : n.source[c] # None =>
           Installed(n, n.source[c]) /\ c = First(n, n.source[c])
    BY <1>1, <1>2, <2>1 DEF Place, ViewTypes
  <2>4. \A a \in n.heard : Installed(n, a)
    BY <1>1, <1>2, <2>1 DEF Place, ViewTypes
  <2>5. ASSUME NEW f \in Names, n.shared[f] # None
        PROVE  n.offer[n.shared[f]].field = f
    <3>1. CASE n.kind[t] = "connect" /\ f = n.offer[t].field
      BY <1>3, <3>1
    <3>2. CASE n.shared[f] = s.shared[f]
      <4>1. s.shared[f] \in Calls /\ s.shared[f] # t
        BY <1>1, <2>5, <3>2 DEF ViewTypes
      <4>2. n.offer[s.shared[f]] = s.offer[s.shared[f]]
        BY <1>2, <4>1
      <4>3. s.offer[s.shared[f]].field = f
        BY <1>1, <2>5, <3>2 DEF Place
      <4>q. QED BY <3>2, <4>2, <4>3
    <3>q. QED BY <1>3, <3>1, <3>2
  <2>6. ASSUME NEW u \in Calls, n.at[u] = "releasing"
        PROVE  /\ n.affected[u] # {} => Installed(n, n.target[u])
                                 /\ n.affected[u] \subseteq Mine(n, n.target[u])
               /\ n.fields[u] = <<>> =>
                  /\ Installed(n, n.target[u])
                  /\ n.from[u] \in Mine(n, n.target[u])
                  /\ n.affected[u] # {} => n.from[u] \in n.affected[u]
    <3>1. SameCall(s, n, u)
      BY <1>2, <1>4, <2>6
    <3>2. s.at[u] = "releasing" /\ s.target[u] \in Calls
      BY <1>1, <2>6, <3>1 DEF SameCall, Shape, CallShape
    <3>3. /\ s.affected[u] # {} => Installed(s, s.target[u])
                                   /\ s.affected[u] \subseteq Mine(s, s.target[u])
          /\ s.fields[u] = <<>> =>
                  /\ Installed(s, s.target[u])
                  /\ s.from[u] \in Mine(s, s.target[u])
                  /\ s.affected[u] # {} => s.from[u] \in s.affected[u]
      BY <1>1, <3>2 DEF Place
    <3>q. QED BY <1>1, <2>1, <3>1, <3>2, <3>3 DEF SameCall
  <2>q. QED BY <2>2, <2>3, <2>4, <2>5, <2>6 DEF Place
<1>7. ASSUME NEW u \in Calls, u # t, Live(n, u)
      PROVE  Live(s, u) /\ n.kind[u] = s.kind[u] /\ Area(n, u) = Area(s, u)
  <2>1. SameCall(s, n, u)
    BY <1>4, <1>7
  <2>2. Work(n, u) = Work(s, u) /\ n.affected[u] = s.affected[u]
    BY <1>1, <1>7, <2>1 DEF Work, SameCall
  <2>3. Zone(n, Work(s, u)) = Zone(s, Work(s, u))
    BY <1>2 DEF Zone
  <2>q. QED BY <1>7, <2>1, <2>2, <2>3, SameCallFacts DEF Area, SameCall
<1>8. Apart(n)
  <2> SUFFICES ASSUME NEW u \in Calls, NEW v \in Calls, u # v, Live(n, u), Live(n, v),
                      Area(n, u) \cap Area(n, v) # {}
               PROVE  /\ Area(n, u) \cap Area(n, v) \subseteq n.disturbed
                      /\ n.kind[v] # "all" => Area(n, v) \subseteq n.disturbed
    BY DEF Apart
  <2>0. Area(n, u) \subseteq Slots /\ Area(n, v) \subseteq Slots
    BY <1>1, AreaFacts
  <2>1. CASE u # t /\ v # t
    <3>1. /\ Area(s, u) \cap Area(s, v) \subseteq s.disturbed
          /\ s.kind[v] # "all" => Area(s, v) \subseteq s.disturbed
      BY <1>1, <1>7, <2>1 DEF Apart
    <3>q. QED BY <1>2, <1>7, <2>1, <3>1
  <2>2. CASE u = t \/ v = t
    BY <2>0, <2>2 DEF Begins
  <2>q. QED BY <2>1, <2>2
<1>9. ASSUME NEW c \in Intact(n), s.holder[c] # None, NEW z \in Calls,
             Replaces(s, z, s.holder[c]), c \in Todo(s, z)
      PROVE  Replaces(n, z, s.holder[c]) /\ c \in Todo(n, z)
  <2>1. z # t
    BY <1>1, <1>9 DEF Replaces
  <2>2. SameCall(s, n, z) /\ s.holder[c] # t /\ s.holder[c] \in Calls
    BY <1>1, <1>4, <1>9, <2>1
  <2>3. (Busy(n, z) <=> Busy(s, z)) /\ Todo(n, z) = Todo(s, z)
    BY <2>2, SameCallFacts
  <2>q. QED BY <1>1, <1>2, <1>9, <2>1, <2>2, <2>3 DEF Replaces, SameCall
<1>10. HeldWhole(n)
  <2> SUFFICES ASSUME NEW c \in Intact(n), s.holder[c] # None
               PROVE  Whole(n, s.holder[c]) \/ Replaced(n, s.holder[c], c)
    BY <1>2 DEF HeldWhole
  <2> DEFINE b == s.holder[c]
  <2>0. /\ b \in Calls /\ b # t /\ b # None /\ s.offer[b] \in Offers /\ c \in Mine(s, b)
        /\ Mine(n, b) = Mine(s, b) /\ First(n, b) = First(s, b)
        /\ n.offer[b] = s.offer[b] /\ c \in Intact(s)
    BY <1>1, <1>2
  <2> HIDE DEF b
  <2>1. CASE Replaced(s, b, c)
    <3>1. \A f \in Names : n.shared[f] # b
      BY <1>3, <2>0, <2>1 DEF Replaced
    <3>q. QED BY <1>9, <2>1, <3>1 DEF Replaced, b
  <2>2. CASE Whole(s, b) /\ n.kind[t] = "connect" /\ n.offer[t].field = s.offer[b].field
             /\ s.offer[b].field # "none"
    <3>1. n.offer[t] = s.offer[b]
      BY <1>5, <2>0, <2>2, OffersAssumption
    <3>2. \A f \in Names : n.shared[f] # b
      BY <1>1, <1>3, <2>0, <2>2 DEF Place
    <3>3. Todo(n, t) = Mine(s, b) /\ n.from[t] = First(s, b)
      BY <1>5, <2>2, <3>1 DEF Mine, First
    <3>4. Replaces(n, t, b)
      BY <1>2, <1>5, <2>0, <2>2, <3>1, <3>3 DEF Replaces, Whole
    <3>q. QED BY <2>0, <3>2, <3>3, <3>4 DEF Replaced, b
  <2>3. CASE Whole(s, b) /\ ~(n.kind[t] = "connect" /\ n.offer[t].field = s.offer[b].field
             /\ s.offer[b].field # "none")
    <3>1. s.offer[b].field # "none" => s.offer[b].field \in Names
      BY <2>0, OfferTypes
    <3>2. s.offer[b].field # "none" => n.shared[s.offer[b].field] = b
      BY <1>3, <2>3, <3>1 DEF Whole
    <3>q. QED BY <1>2, <2>0, <2>3, <3>2 DEF Whole, b
  <2>4. Whole(s, b) \/ Replaced(s, b, c)
    BY <1>1, <2>0 DEF HolderInv, HeldWhole, b
  <2>q. QED BY <2>1, <2>2, <2>3, <2>4
<1>11. HeardHeld(n)
  <2>1. \A a \in s.heard : a \in Calls /\ a # t
    BY <1>1 DEF ViewTypes
  <2>q. QED BY <1>1, <1>2, <2>1 DEF HolderInv, HeardHeld
<1>12. FreedEmpty(n) /\ Covered(n)
  <2>1. \A u \in Calls : n.at[u] = "releasing" => SameCall(s, n, u)
    BY <1>2, <1>4
  <2>q. QED BY <1>1, <1>2, <2>1 DEF HolderInv, FreedEmpty, Covered, SameCall
<1>13. ShownLive(n)
  <2>1. \A c : Pending(s, c) => Pending(n, c)
    BY <1>1, <1>2, PendingKept
  <2>q. QED BY <1>1, <1>2, <2>1 DEF ShownInv, ShownLive
<1>14. PassedQuiet(n)
  <2> SUFFICES ASSUME NEW u \in Calls, n.kind[u] = "all", Busy(n, u),
                      NEW c \in Intact(n), c < n.from[u]
               PROVE  s.state[c] # "connected"
    BY <1>2 DEF PassedQuiet
  <2>1. SameCall(s, n, u)
    BY <1>1, <1>4
  <2>q. QED BY <1>1, <2>1, SameCallFacts DEF ShownInv, PassedQuiet, SameCall
<1>15. LinkShown(n)
  <2> SUFFICES ASSUME NEW b \in Calls, b # t, Mine(s, b) \subseteq Intact(s)
               PROVE  /\ n.at[b] = "connecting" => \A e \in Mine(s, b) : s.holder[e] = b
                      /\ s.link[b] = "open" =>
                           \/ \A e \in Mine(s, b) : s.holder[e] = b
                           \/ \E u \in Calls : n.at[u] = "releasing" /\ n.target[u] = b
    BY <1>1, <1>2 DEF LinkShown
  <2>1. n.at[b] = s.at[b]
    BY <1>4 DEF SameCall
  <2>2. \A u \in Calls : s.at[u] = "releasing" => n.at[u] = "releasing" /\ n.target[u] = s.target[u]
    BY <1>2, <1>4 DEF SameCall
  <2>q. QED BY <1>1, <2>1, <2>2 DEF ShownInv, LinkShown
<1>16. AffectedOwn(n)
  <2> SUFFICES ASSUME NEW c \in Intact(n), NEW u \in Calls, s.holder[c] # None,
                      n.target[u] # s.holder[c], n.affected[u] # {}
               PROVE  n.affected[u] \cap Mine(n, s.holder[c]) = {}
    BY <1>2 DEF AffectedOwn
  <2>1. SameCall(s, n, u) /\ Mine(n, s.holder[c]) = Mine(s, s.holder[c])
    BY <1>1, <1>2, <1>4
  <2>q. QED BY <1>1, <2>1 DEF CallInv, AffectedOwn, SameCall
<1>17. AffectedSilent(n)
  <2>1. \A u \in Calls : n.affected[u] # {} => SameCall(s, n, u)
    BY <1>2, <1>4
  <2>q. QED BY <1>1, <1>2, <2>1 DEF CallInv, AffectedSilent, SameCall
<1>18. PassedApart(n)
  <2> SUFFICES ASSUME NEW c \in Intact(n), NEW u \in Calls, u # t, s.holder[c] # None,
                      n.kind[u] = "connect", Busy(n, u)
               PROVE  \/ Passed(n, u) \cap Mine(n, s.holder[c]) = {}
                      \/ Replaces(n, u, s.holder[c]) /\ c \in Todo(n, u)
    BY <1>2, <1>5 DEF PassedApart
  <2>1. SameCall(s, n, u) /\ Mine(n, s.holder[c]) = Mine(s, s.holder[c])
        /\ Mine(n, u) = Mine(s, u)
    BY <1>1, <1>4
  <2>2. Passed(n, u) = Passed(s, u)
    BY <2>1 DEF Passed, SameCall
  <2>3. \/ Passed(s, u) \cap Mine(s, s.holder[c]) = {}
        \/ Replaces(s, u, s.holder[c]) /\ c \in Todo(s, u)
    BY <1>1, <2>1, SameCallFacts DEF CallInv, PassedApart, SameCall
  <2>q. QED BY <1>9, <2>1, <2>2, <2>3
<1>19. ClaimsField(n)
  <2> SUFFICES ASSUME NEW u \in Calls, n.kind[u] = "connect", Busy(n, u),
                      n.offer[u].field # "none", NEW c \in Mine(n, u), c \in Intact(n)
               PROVE  n.shared[n.offer[u].field] = u
    BY DEF ClaimsField
  <2>1. CASE u = t
    BY <1>3, <1>5, <2>1, OfferTypes
  <2>2. CASE u # t
    <3>1. SameCall(s, n, u) /\ Mine(n, u) = Mine(s, u) /\ n.offer[u] = s.offer[u]
      BY <1>1, <1>2, <1>4, <2>2
    <3>2. s.kind[u] = "connect" /\ Busy(s, u) /\ Live(n, u)
      BY <3>1, SameCallFacts DEF SameCall, Busy, Live
    <3>3. s.offer[u] \in Offers /\ s.offer[u].field \in Names
      <4>1. s.offer[u] \in Offers
        BY <1>1, <3>2 DEF Shape, CallShape
      <4>q. QED BY <3>1, <4>1, OfferTypes
    <3>4. s.shared[s.offer[u].field] = u
      BY <1>1, <3>1, <3>2 DEF CallInv, ClaimsField
    <3>5. ~(n.kind[t] = "connect" /\ s.offer[u].field = n.offer[t].field)
      <4> SUFFICES ASSUME n.kind[t] = "connect", s.offer[u].field = n.offer[t].field
                   PROVE  FALSE
        OBVIOUS
      <4>1. n.offer[t] = n.offer[u]
        BY <1>5, <3>1, <3>3, OffersAssumption
      <4>2. c \in Mine(n, t)
        BY <4>1 DEF Mine
      <4>3. c \in Area(n, t) /\ c \in Area(n, u)
        BY <1>1, <4>2, AreaFacts
      <4>4. c \in n.disturbed
        BY <1>1, <2>2, <3>2, <4>3 DEF Begins
      <4>q. QED BY <4>4 DEF Intact
    <3>q. QED BY <1>3, <3>1, <3>3, <3>4, <3>5
  <2>q. QED BY <2>1, <2>2
<1>q. QED BY <1>1, <1>6, <1>8, <1>10, <1>11, <1>12, <1>13, <1>14, <1>15, <1>16,
             <1>17, <1>18, <1>19 DEF ViewInv, HolderInv, ShownInv, CallInv

-----------------------------------------------------------------------------
(* From the variables to their view, and back.                             *)
Numbered ==
    \A t \in Calls : /\ calls[t].at = "unused" <=> t > made
                     /\ adapters[t].connecting <=> calls[t].at = "connecting"

RuntimeInv == RuntimeTypes /\ Numbered /\ ViewInv(View)

LEMMA ViewParts ==
    /\ \A c \in Slots : /\ View.holder[c] = slots[c].adapter
                        /\ View.state[c] = slots[c].state
                        /\ View.source[c] = slots[c].subscription
    /\ View.shared = shared /\ View.heard = heard /\ View.rates = rates
    /\ View.disturbed = disturbed
    /\ \A a \in Calls :
          /\ View.offer[a] = adapters[a].offer /\ View.link[a] = adapters[a].link
          /\ View.kind[a] = calls[a].kind /\ View.at[a] = calls[a].at
          /\ View.fields[a] = calls[a].fields
          /\ View.from[a] = calls[a].from /\ View.upto[a] = calls[a].upto
          /\ View.target[a] = calls[a].target
          /\ View.affected[a] = calls[a].affected
  BY DEF View

LEMMA NextParts ==
    /\ \A c \in Slots : /\ View'.holder[c] = slots'[c].adapter
                        /\ View'.state[c] = slots'[c].state
                        /\ View'.source[c] = slots'[c].subscription
    /\ View'.shared = shared' /\ View'.heard = heard' /\ View'.rates = rates'
    /\ View'.disturbed = disturbed'
    /\ \A a \in Calls :
          /\ View'.offer[a] = adapters'[a].offer /\ View'.link[a] = adapters'[a].link
          /\ View'.kind[a] = calls'[a].kind /\ View'.at[a] = calls'[a].at
          /\ View'.fields[a] = calls'[a].fields
          /\ View'.from[a] = calls'[a].from /\ View'.upto[a] = calls'[a].upto
          /\ View'.target[a] = calls'[a].target
          /\ View'.affected[a] = calls'[a].affected
  BY DEF View

(* What a step leaves alone, as functions.                                 *)
LEMMA SameParts ==
    /\ (\A c \in Slots : slots'[c].adapter = slots[c].adapter) =>
          View'.holder = View.holder
    /\ (\A c \in Slots : slots'[c].state = slots[c].state) =>
          View'.state = View.state
    /\ (\A c \in Slots : slots'[c].subscription = slots[c].subscription) =>
          View'.source = View.source
    /\ (\A a \in Calls : adapters'[a].offer = adapters[a].offer) =>
          View'.offer = View.offer
    /\ (\A a \in Calls : adapters'[a].link = adapters[a].link) =>
          View'.link = View.link
    /\ \A u \in Calls : calls'[u] = calls[u] => SameCall(View, View', u)
<1>1. \A u \in Calls : calls'[u] = calls[u] => SameCall(View, View', u)
  BY ViewParts, NextParts DEF SameCall
<1>q. QED BY <1>1 DEF View

LEMMA ViewTyped == RuntimeTypes => ViewTypes(View)
  BY DEF RuntimeTypes, View, ViewTypes, SlotTypes, AdapterTypes, CallRecords, Stages,
         States

LEMMA NextTyped == RuntimeTypes' => ViewTypes(View')
  BY DEF RuntimeTypes, View, ViewTypes, SlotTypes, AdapterTypes, CallRecords, Stages,
         States

LEMMA ReachZone ==
    ASSUME NEW channels \in SUBSET Slots
    PROVE  /\ Reach(channels) = Zone(View, channels)
           /\ channels \subseteq Reach(channels) /\ Reach(channels) \subseteq Slots
  BY ViewParts DEF Reach, Zone

LEMMA ReachArea ==
    ASSUME RuntimeInv, NEW t \in Calls
    PROVE  /\ ReachOf(t) = Area(View, t) /\ ReachOf(t) \subseteq Slots
           /\ Active(t) <=> Live(View, t)
<1>1. ViewTypes(View) /\ Shape(View)
  BY DEF RuntimeInv, ViewInv
<1>2. Work(View, t) \subseteq Slots /\ Area(View, t) \subseteq Slots
  BY <1>1, AreaFacts
<1>3. Work(View, t) = IF calls[t].kind = "connect" THEN SlotsOf(adapters[t].offer)
                      ELSE IF calls[t].kind = "channel" THEN {calls[t].upto} ELSE Slots
  BY ViewParts DEF Work, Mine
<1>4. ReachOf(t) = Zone(View, Work(View, t)) \cup calls[t].affected
  BY <1>2, <1>3, ReachZone DEF ReachOf
<1>q. QED BY <1>2, <1>4, ViewParts DEF Area, Active, Live

(* The steps of a call, numbered as they are made.                         *)
LEMMA NumberedKept ==
    ASSUME Numbered, RuntimeTypes, NEW t \in Calls,
           \A u \in Calls : u # t => /\ calls'[u].at = calls[u].at
                                     /\ adapters'[u].connecting = adapters[u].connecting,
           calls'[t].at # "unused",
           adapters'[t].connecting <=> calls'[t].at = "connecting",
           \/ made' = made /\ calls[t].at # "unused"
           \/ made' = t /\ t = made + 1
    PROVE  Numbered'
<1>1. made \in Nat /\ \A u \in Calls : u \in Nat
  BY BoundsAssumption DEF RuntimeTypes, Calls
<1>2. \A u \in Calls : calls'[u].at = "unused" <=> u > made'
  BY <1>1 DEF Numbered
<1>3. \A u \in Calls : adapters'[u].connecting <=> calls'[u].at = "connecting"
  BY DEF Numbered
<1>q. QED BY <1>2, <1>3 DEF Numbered

LEMMA CallSteps ==
    ASSUME RuntimeInv, NEW t \in Calls, NEW kind,
           NEW reach \in SUBSET Slots, Call(t, kind, reach)
    PROVE  /\ made' = t /\ t = made + 1 /\ made' \in 0 .. MaxCalls
           /\ UNCHANGED faults
           /\ disturbed' = disturbed \cup Meets(kind, reach)
           /\ disturbed' \subseteq Slots
<1>1. made' = t /\ t = made + 1 /\ UNCHANGED faults
      /\ disturbed' = disturbed \cup Meets(kind, reach)
  BY DEF Call
<1>2. \A u \in Calls : ReachOf(u) \subseteq Slots
  BY ReachArea
<1>3. Meets(kind, reach) \subseteq Slots
  BY <1>2 DEF Meets, Met
<1>q. QED BY <1>1, <1>3, BoundsAssumption DEF RuntimeInv, RuntimeTypes, Calls

LEMMA ConnectTypes ==
    ASSUME RuntimeInv, NEW t \in Calls, NEW offer \in Offers, Connect(t, offer)
    PROVE  RuntimeTypes'
<1> USE DEF RuntimeInv
<1> DEFINE fields == [f \in DOMAIN shared |-> IF f = offer.field THEN t ELSE shared[f]]
           call == [NoCall EXCEPT !.kind = "connect", !.from = offer.base,
                                  !.upto = offer.base + offer.width - 1]
<1>1. call \in CallRecords /\ call.from \in Slots
  <2> DEFINE n == offer.base + offer.width - 1
  <2>1. n \in Nat /\ offer.base \in Nat /\ offer.base \in Slots
    BY OfferTypes
  <2>2. call = [NoCall EXCEPT !.kind = "connect", !.from = offer.base, !.upto = n]
    OBVIOUS
  <2> HIDE DEF n
  <2>q. QED BY <2>1, <2>2, CallTypes DEF CallRecords, Stages
<1>2. Release(t, call, fields) /\ shared' = fields
      /\ adapters' = [adapters EXCEPT ![t].offer = offer]
      /\ Call(t, "connect", Reach(SlotsOf(offer)))
  BY DEF Connect
<1>3. /\ slots' \in SlotTypes /\ heard' \subseteq Calls /\ rates' \in BOOLEAN
      /\ calls' \in [Calls -> CallRecords]
  <2> HIDE DEF fields, call
  <2>q. QED BY <1>1, <1>2, ReleaseTypes
<1>4. shared' \in [Names -> {None} \cup Calls]
  BY <1>2 DEF RuntimeTypes
<1>5. adapters' \in AdapterTypes
  BY <1>2 DEF RuntimeTypes, AdapterTypes
<1>6. made' \in 0 .. MaxCalls /\ UNCHANGED faults /\ disturbed' \subseteq Slots
  <2>1. Reach(SlotsOf(offer)) \in SUBSET Slots
    BY OfferTypes, ReachZone
  <2>q. QED BY <1>2, <2>1, CallSteps
<1>q. QED BY <1>3, <1>4, <1>5, <1>6 DEF RuntimeTypes

LEMMA DisconnectChannelTypes ==
    ASSUME RuntimeInv, NEW t \in Calls, NEW c \in Slots, DisconnectChannel(t, c)
    PROVE  RuntimeTypes'
<1> USE DEF RuntimeInv
<1> DEFINE call == [NoCall EXCEPT !.kind = "channel", !.from = c, !.upto = c]
<1>1. call \in CallRecords /\ call.from \in Slots
  <2>1. c \in Nat
    BY BoundsAssumption DEF Slots
  <2>q. QED BY <2>1, CallTypes DEF CallRecords, Stages
<1>2. Release(t, call, shared) /\ UNCHANGED <<shared, adapters>>
      /\ Call(t, "channel", Reach({c}))
  BY DEF DisconnectChannel
<1>3. /\ slots' \in SlotTypes /\ heard' \subseteq Calls /\ rates' \in BOOLEAN
      /\ calls' \in [Calls -> CallRecords]
  <2> HIDE DEF call
  <2>q. QED BY <1>1, <1>2, ReleaseTypes
<1>4. made' \in 0 .. MaxCalls /\ UNCHANGED faults /\ disturbed' \subseteq Slots
  <2>1. Reach({c}) \in SUBSET Slots
    BY ReachZone
  <2>q. QED BY <1>2, <2>1, CallSteps
<1>q. QED BY <1>2, <1>3, <1>4 DEF RuntimeTypes

LEMMA DisconnectTypes ==
    ASSUME RuntimeInv, NEW t \in Calls, Disconnect(t)
    PROVE  RuntimeTypes'
<1> USE DEF RuntimeInv
<1> DEFINE call == [NoCall EXCEPT !.kind = "all", !.at = "stopping",
                                  !.fields = Fields, !.upto = Channels]
<1>1. call \in CallRecords
  <2>1. Fields \in Seq(Names)
    BY DEF Fields, Names
  <2>q. QED BY <2>1, CallTypes, BoundsAssumption DEF CallRecords, Stages
<1>2. /\ calls' = [calls EXCEPT ![t] = call]
      /\ UNCHANGED <<slots, shared, adapters, heard, rates>>
      /\ Call(t, "all", Slots)
  BY DEF Disconnect
<1> HIDE DEF call
<1>3. calls' \in [Calls -> CallRecords]
  BY <1>1, <1>2 DEF RuntimeTypes
<1>4. made' \in 0 .. MaxCalls /\ UNCHANGED faults /\ disturbed' \subseteq Slots
  BY <1>2, CallSteps
<1>q. QED BY <1>2, <1>3, <1>4 DEF RuntimeTypes

LEMMA NextFieldTypes ==
    ASSUME RuntimeInv, NEW t \in Calls, NextField(t)
    PROVE  RuntimeTypes'
<1> USE DEF RuntimeInv
<1> DEFINE f == Head(calls[t].fields)
           call == [calls[t] EXCEPT !.fields = Tail(@)]
<1>1. calls[t] \in CallRecords /\ calls[t].fields \in Seq(Names)
      /\ calls[t].fields # <<>>
  BY DEF NextField, RuntimeTypes, CallRecords, Stages
<1>2. f \in Names /\ Tail(calls[t].fields) \in Seq(Names)
  BY <1>1
<1>3. CASE shared[f] # None /\ ReleaseShared(t, calls[t], shared[f])
  <2>1. shared[f] \in Calls
    BY <1>2, <1>3 DEF RuntimeTypes
  <2>2. UNCHANGED <<shared, adapters, made, faults, disturbed>>
    BY DEF NextField
  <2>3. /\ slots' \in SlotTypes /\ heard' \subseteq Calls /\ rates' \in BOOLEAN
        /\ calls' \in [Calls -> CallRecords]
    BY <1>1, <1>3, <2>1, ReleaseSharedTypes
  <2>q. QED BY <2>2, <2>3 DEF RuntimeTypes
<1>4. CASE calls' = [calls EXCEPT ![t] = call] /\ UNCHANGED <<slots, heard, rates>>
  <2>1. call \in CallRecords
    BY <1>1, <1>2 DEF CallRecords, Stages
  <2>2. UNCHANGED <<shared, adapters, made, faults, disturbed>>
    BY DEF NextField
  <2> HIDE DEF call
  <2>q. QED BY <1>4, <2>1, <2>2 DEF RuntimeTypes
<1>q. QED BY <1>3, <1>4 DEF NextField

LEMMA NextChannelTypes ==
    ASSUME RuntimeInv, NEW t \in Calls, calls[t].from \in Slots, NextChannel(t)
    PROVE  RuntimeTypes'
<1> USE DEF RuntimeInv
<1>1. calls[t] \in CallRecords
  BY DEF RuntimeTypes
<1>2. Release(t, calls[t], shared)
      /\ UNCHANGED <<shared, adapters, made, faults, disturbed>>
  BY DEF NextChannel
<1>3. /\ slots' \in SlotTypes /\ heard' \subseteq Calls /\ rates' \in BOOLEAN
      /\ calls' \in [Calls -> CallRecords]
  BY <1>1, <1>2, ReleaseTypes
<1>q. QED BY <1>2, <1>3 DEF RuntimeTypes

LEMMA ReleasedTypes ==
    ASSUME RuntimeInv, NEW t \in Calls, calls[t].target \in Calls, Released(t)
    PROVE  RuntimeTypes'
<1> USE DEF RuntimeInv
<1> DEFINE call == calls[t]
           a == call.target
           shown == Told(a, "disconnected")
           next == [call EXCEPT !.at = "ready", !.fields = Tail(@),
                                !.target = None, !.affected = {}]
<1>1. shown \in SlotTypes
  BY ToldTypes DEF States
<1>2. call \in CallRecords
  BY DEF RuntimeTypes
<1>3. adapters' \in AdapterTypes
  <2>1. adapters' = [adapters EXCEPT ![a].link = "closed"]
    BY DEF Released
  <2>q. QED BY <2>1 DEF RuntimeTypes, AdapterTypes
<1>4. slots' \in SlotTypes
  <2>1. CASE slots' = [shown EXCEPT ![call.from].state = "disconnected"]
    <3> HIDE DEF shown
    <3>q. QED BY <1>1, <2>1 DEF SlotTypes, States
  <2>2. CASE slots' = [c \in Slots |-> IF c \in call.affected
                            THEN [shown[c] EXCEPT !.adapter = None,
                                                  !.state = "disconnected"]
                            ELSE shown[c]]
    <3> HIDE DEF shown
    <3>q. QED BY <1>1, <2>2 DEF SlotTypes, States
  <2>q. QED BY <2>1, <2>2 DEF Released
<1>5. shared' \in [Names -> {None} \cup Calls]
  BY DEF Released, RuntimeTypes
<1>6. rates' \in BOOLEAN /\ calls' \in [Calls -> CallRecords]
  <2>1. CASE Cleared(t, call)
    BY <1>2, <2>1, ClearedTypes
  <2>2. CASE /\ call.fields # <<>> /\ calls' = [calls EXCEPT ![t] = next]
             /\ UNCHANGED rates
    <3>1. call.fields \in Seq(Names)
      BY <1>2 DEF CallRecords, Stages
    <3>2. Tail(call.fields) \in Seq(Names)
      BY <2>2, <3>1
    <3>3. next \in CallRecords
      BY <1>2, <3>2 DEF CallRecords, Stages
    <3> HIDE DEF next
    <3>q. QED BY <2>2, <3>3 DEF RuntimeTypes
  <2>q. QED BY <2>1, <2>2 DEF Released
<1>7. UNCHANGED <<heard, made, faults, disturbed>>
  BY DEF Released
<1>q. QED BY <1>3, <1>4, <1>5, <1>6, <1>7 DEF RuntimeTypes

LEMMA EndTypes ==
    ASSUME RuntimeInv, NEW t \in Calls,
           ReleaseThrows(t) \/ Finished(t) \/ Stopped(t)
    PROVE  RuntimeTypes'
<1> USE DEF RuntimeInv
<1>1. calls' \in [Calls -> CallRecords]
  <2>1. [calls[t] EXCEPT !.at = "ready"] \in CallRecords
    BY DEF RuntimeTypes, CallRecords, Stages
  <2>2. Over \in CallRecords
    BY CallTypes
  <2>3. \/ calls' = [calls EXCEPT ![t] = Over]
        \/ calls' = [calls EXCEPT ![t] = [calls[t] EXCEPT !.at = "ready"]]
    BY DEF ReleaseThrows, Finished, Stopped, RuntimeTypes
  <2>q. QED BY <2>1, <2>2, <2>3 DEF RuntimeTypes
<1>2. rates' \in BOOLEAN /\ UNCHANGED <<slots, shared, adapters, heard, made>>
  BY DEF ReleaseThrows, Finished, Stopped, RuntimeTypes
<1>3. faults' \in 0 .. MaxFaults /\ disturbed' \subseteq Slots
  <2>1. ReachOf(t) \in SUBSET Slots
    BY ReachArea
  <2>q. QED BY <2>1, BoundsAssumption
            DEF ReleaseThrows, Finished, Stopped, RuntimeTypes
<1>q. QED BY <1>1, <1>2, <1>3 DEF RuntimeTypes

LEMMA InstallTypes ==
    ASSUME RuntimeInv, NEW t \in Calls, Install(t)
    PROVE  RuntimeTypes'
<1> USE DEF RuntimeInv
<1> DEFINE mine == SlotsOf(adapters[t].offer)
           first == adapters[t].offer.base
<1>1. slots' = [c \in Slots |-> IF c \notin mine THEN slots[c]
                    ELSE [adapter |-> t, state |-> "connecting",
                          subscription |-> IF c = first THEN t
                                           ELSE slots[c].subscription]]
  BY DEF Install
<1>2. slots' \in SlotTypes
  BY <1>1 DEF RuntimeTypes, SlotTypes, States
<1>3. adapters' = [adapters EXCEPT ![t].connecting = TRUE]
      /\ calls' = [calls EXCEPT ![t].at = "connecting"]
      /\ heard' = heard \cup {t} /\ UNCHANGED <<shared, rates, made, faults, disturbed>>
  BY DEF Install
<1>4. adapters' \in AdapterTypes
  BY <1>3 DEF RuntimeTypes, AdapterTypes
<1>5. calls' \in [Calls -> CallRecords]
  <2>1. [calls[t] EXCEPT !.at = "connecting"] \in CallRecords
    BY DEF RuntimeTypes, CallRecords, Stages
  <2>2. calls' = [calls EXCEPT ![t] = [calls[t] EXCEPT !.at = "connecting"]]
    BY <1>3 DEF RuntimeTypes
  <2>q. QED BY <2>1, <2>2 DEF RuntimeTypes
<1>q. QED BY <1>2, <1>3, <1>4, <1>5 DEF RuntimeTypes

LEMMA AdapterStepTypes ==
    ASSUME RuntimeInv, NEW t \in Calls,
           \/ Connected(t) \/ ConnectFails(t)
           \/ \E state \in {"error", "disconnected"} : Breaks(t, state)
    PROVE  RuntimeTypes'
<1> USE DEF RuntimeInv
<1>1. slots' \in SlotTypes
  <2>1. CASE Connected(t)
    BY <2>1, ToldTypes DEF Connected, States
  <2>2. CASE ConnectFails(t)
    BY <2>2, ShowTypes DEF ConnectFails, States
  <2>3. CASE \E state \in {"error", "disconnected"} : Breaks(t, state)
    BY <2>3, ToldTypes DEF Breaks, States
  <2>q. QED BY <2>1, <2>2, <2>3
<1>2. adapters' \in AdapterTypes
  <2>1. CASE Connected(t)
    BY <2>1 DEF RuntimeTypes, AdapterTypes, Connected
  <2>2. CASE ConnectFails(t)
    BY <2>2 DEF RuntimeTypes, AdapterTypes, ConnectFails
  <2>3. CASE \E state \in {"error", "disconnected"} : Breaks(t, state)
    BY <2>3 DEF RuntimeTypes, AdapterTypes, Breaks
  <2>q. QED BY <2>1, <2>2, <2>3
<1>3. calls' \in [Calls -> CallRecords]
  BY CallTypes DEF RuntimeTypes, Connected, ConnectFails, Breaks
<1>4. UNCHANGED <<shared, heard, made, disturbed>>
  BY DEF Connected, ConnectFails, Breaks
<1>5. rates' \in BOOLEAN
  BY DEF RuntimeTypes, Connected, ConnectFails, Breaks
<1>6. faults' \in 0 .. MaxFaults
  <2>1. UNCHANGED faults \/ (faults < MaxFaults /\ faults' = faults + 1)
    BY DEF Connected, ConnectFails, Breaks
  <2>q. QED BY <2>1, BoundsAssumption DEF RuntimeTypes
<1>q. QED BY <1>1, <1>2, <1>3, <1>4, <1>5, <1>6 DEF RuntimeTypes

-----------------------------------------------------------------------------
(* Every action is a step of the view, first those that move no adapter.   *)
LEMMA OnlyCall ==
    ASSUME RuntimeTypes, NEW t \in Calls, NEW call,
           calls' = [calls EXCEPT ![t] = call]
    PROVE  /\ calls'[t] = call /\ \A u \in Calls : u # t => calls'[u] = calls[u]
           /\ Others(View, View', t)
<1>1. calls'[t] = call /\ \A u \in Calls : u # t => calls'[u] = calls[u]
  BY DEF RuntimeTypes
<1>q. QED BY <1>1, SameParts DEF Others

LEMMA StillParts ==
    ASSUME \A c \in Slots : /\ slots'[c].adapter = slots[c].adapter
                            /\ slots'[c].subscription = slots[c].subscription,
           \A a \in Calls : adapters'[a].offer = adapters[a].offer,
           UNCHANGED <<shared, heard>>, disturbed \subseteq disturbed'
    PROVE  Still(View, View')
  BY SameParts, ViewParts, NextParts DEF Still

LEMMA InvParts ==
    ASSUME RuntimeInv
    PROVE  /\ RuntimeTypes /\ Numbered /\ ViewInv(View) /\ ViewTypes(View)
           /\ \A t \in Calls : CallShape(View, t)
  BY DEF RuntimeInv, ViewInv, Shape

LEMMA StoppedStep ==
    ASSUME RuntimeInv, NEW t \in Calls, Stopped(t)
    PROVE  RuntimeInv'
<1>1. RuntimeTypes /\ Numbered /\ ViewInv(View) /\ CallShape(View, t)
  BY InvParts
<1>2. /\ calls[t].at = "stopping" /\ calls' = [calls EXCEPT ![t].at = "ready"]
      /\ UNCHANGED <<slots, shared, adapters, heard, rates, made, faults, disturbed>>
  BY DEF Stopped
<1>3. RuntimeTypes'
  BY EndTypes
<1>4. /\ calls'[t] = [calls[t] EXCEPT !.at = "ready"]
      /\ \A u \in Calls : u # t => calls'[u] = calls[u]
      /\ Others(View, View', t)
  <2>1. calls' = [calls EXCEPT ![t] = [calls[t] EXCEPT !.at = "ready"]]
    BY <1>1, <1>2 DEF RuntimeTypes
  <2>q. QED BY <1>1, <2>1, OnlyCall
<1>5. calls'[t].at = "ready" /\ calls[t] \in CallRecords
  BY <1>1, <1>4 DEF RuntimeTypes, CallRecords, Stages
<1>6. Numbered'
  BY <1>1, <1>2, <1>4, <1>5, NumberedKept DEF Numbered
<1>7. Still(View, View') /\ View'.state = View.state /\ View'.link = View.link
      /\ View'.rates = View.rates /\ View'.disturbed = View.disturbed
  BY <1>2, StillParts, SameParts, ViewParts, NextParts
<1>8. /\ View.at[t] = "stopping" /\ View.fields[t] # <<>>
      /\ View'.at[t] = "ready" /\ View'.kind[t] = View.kind[t]
      /\ View'.from[t] = View.from[t] /\ View'.upto[t] = View.upto[t]
      /\ View'.target[t] = View.target[t] /\ View'.affected[t] = View.affected[t]
  BY <1>1, <1>2, <1>4, <1>5, ViewParts, NextParts DEF CallShape, CallRecords, Stages
<1>9. Proceeds(View, View', t)
  BY <1>4, <1>7, <1>8 DEF Proceeds
<1>10. ViewInv(View')
  BY <1>1, <1>3, <1>9, ProceedsKeeps, NextTyped
<1>q. QED BY <1>3, <1>6, <1>10 DEF RuntimeInv

LEMMA EndStep ==
    ASSUME RuntimeInv, NEW t \in Calls, ReleaseThrows(t) \/ Finished(t)
    PROVE  RuntimeInv'
<1>1. RuntimeTypes /\ Numbered /\ ViewInv(View) /\ CallShape(View, t)
  BY InvParts
<1>2. /\ calls[t].at \in {"ready", "releasing"}
      /\ calls' = [calls EXCEPT ![t] = Over]
      /\ rates' = (rates /\ calls[t].kind # "all")
      /\ UNCHANGED <<slots, shared, adapters, heard, made>>
      /\ disturbed \subseteq disturbed'
  BY DEF ReleaseThrows, Finished
<1>3. RuntimeTypes'
  BY EndTypes
<1>4. calls'[t] = Over /\ Others(View, View', t)
      /\ \A u \in Calls : u # t => calls'[u] = calls[u]
  BY <1>1, <1>2, OnlyCall
<1>5. Over.at = "over" /\ Over.kind = "none" /\ Over.affected = {}
  BY DEF Over, NoCall
<1>6. Numbered'
  <2>1. adapters'[t].connecting <=> calls'[t].at = "connecting"
    BY <1>1, <1>2, <1>4, <1>5 DEF Numbered
  <2>q. QED BY <1>1, <1>2, <1>4, <1>5, <2>1, NumberedKept
<1>7. Still(View, View') /\ View'.state = View.state /\ View'.link = View.link
  BY <1>2, StillParts, SameParts, ViewParts, NextParts
<1>8. Ends(View, View', t)
  BY <1>4, <1>5, NextParts DEF Ends
<1>9. View.rates = TRUE /\ View.kind[t] # "all" => View'.rates = TRUE
  <2>1. rates = TRUE /\ calls[t].kind # "all" => rates' = TRUE
    BY <1>2
  <2>q. QED BY <2>1, ViewParts, NextParts
<1>10. CASE ReleaseThrows(t)
  <2>1. View.at[t] = "releasing"
    BY <1>10, ViewParts DEF ReleaseThrows
  <2>2. View'.disturbed = View.disturbed \cup Area(View, t)
    <3>1. disturbed' = disturbed \cup ReachOf(t)
      BY <1>10 DEF ReleaseThrows
    <3>q. QED BY <3>1, ReachArea, ViewParts, NextParts
  <2>3. Throws(View, View', t)
    BY <1>7, <1>8, <1>9, <2>1, <2>2 DEF Throws
  <2>4. ViewInv(View')
    BY <1>1, <1>3, <2>3, ThrowsKeeps, NextTyped
  <2>q. QED BY <1>3, <1>6, <2>4 DEF RuntimeInv
<1>11. CASE Finished(t)
  <2>1. /\ View.at[t] = "ready" /\ View.kind[t] # "connect"
        /\ View.from[t] > View.upto[t] /\ View'.disturbed = View.disturbed
    BY <1>11, ViewParts, NextParts DEF Finished
  <2>2. Finishes(View, View', t)
    BY <1>7, <1>8, <1>9, <2>1 DEF Finishes
  <2>3. ViewInv(View')
    BY <1>1, <1>3, <2>2, FinishesKeeps, NextTyped
  <2>q. QED BY <1>3, <1>6, <2>3 DEF RuntimeInv
<1>q. QED BY <1>10, <1>11

(* What an event of an adapter shows.                                      *)
LEMMA ShownParts ==
    ASSUME RuntimeTypes, NEW channels, NEW state, slots' = Show(channels, state)
    PROVE  \A c \in Slots :
              /\ slots'[c].adapter = slots[c].adapter
              /\ slots'[c].subscription = slots[c].subscription
              /\ slots'[c].state = IF c \in channels THEN state ELSE slots[c].state
  BY DEF RuntimeTypes, SlotTypes, Show

LEMMA ToldParts ==
    ASSUME RuntimeTypes, NEW a \in Calls, NEW state, slots' = Told(a, state)
    PROVE  \A c \in Slots :
              /\ slots'[c].adapter = slots[c].adapter
              /\ slots'[c].subscription = slots[c].subscription
              /\ slots'[c].state = IF a \in heard /\ c \in SlotsOf(adapters[a].offer)
                                   THEN state ELSE slots[c].state
<1>1. CASE a \in heard
  <2>1. slots' = Show(SlotsOf(adapters[a].offer), state)
    BY <1>1 DEF Told
  <2>q. QED BY <1>1, <2>1, ShownParts
<1>2. CASE a \notin heard
  BY <1>2 DEF Told
<1>q. QED BY <1>1, <1>2

LEMMA AnswerStep ==
    ASSUME RuntimeInv, NEW t \in Calls, Connected(t) \/ ConnectFails(t)
    PROVE  RuntimeInv'
<1>1. RuntimeTypes /\ Numbered /\ ViewInv(View) /\ CallShape(View, t)
  BY InvParts
<1>2. /\ adapters[t].connecting /\ calls' = [calls EXCEPT ![t] = Over]
      /\ UNCHANGED <<shared, heard, made, faults, disturbed>>
  BY DEF Connected, ConnectFails
<1>3. RuntimeTypes'
  BY AdapterStepTypes
<1>4. calls'[t] = Over /\ Others(View, View', t)
      /\ \A u \in Calls : u # t => calls'[u] = calls[u]
  BY <1>1, <1>2, OnlyCall
<1>5. Over.at = "over" /\ Over.kind = "none" /\ Over.affected = {}
  BY DEF Over, NoCall
<1>6. /\ ~adapters'[t].connecting
      /\ \A a \in Calls : adapters'[a].offer = adapters[a].offer
      /\ \A a \in Calls : a # t => adapters'[a] = adapters[a]
  <2>1. CASE Connected(t)
    BY <1>1, <2>1 DEF Connected, RuntimeTypes, AdapterTypes
  <2>2. CASE ConnectFails(t)
    BY <1>1, <2>2 DEF ConnectFails, RuntimeTypes, AdapterTypes
  <2>q. QED BY <2>1, <2>2
<1>7. calls[t].at = "connecting"
  BY <1>1, <1>2 DEF Numbered
<1>8. Numbered'
  BY <1>1, <1>2, <1>4, <1>5, <1>6, <1>7, NumberedKept
<1>9. \A c \in Slots : /\ slots'[c].adapter = slots[c].adapter
                       /\ slots'[c].subscription = slots[c].subscription
  BY <1>1, ToldParts, ShownParts DEF Connected, ConnectFails
<1>10. Still(View, View') /\ View'.disturbed = View.disturbed
  BY <1>2, <1>6, <1>9, StillParts, ViewParts, NextParts
<1>11. Ends(View, View', t) /\ View.at[t] = "connecting"
  BY <1>4, <1>5, <1>7, NextParts, ViewParts DEF Ends
<1>12. CASE Connected(t)
  <2>1. \A c \in Slots : slots'[c].state =
           IF t \in heard /\ c \in SlotsOf(adapters[t].offer) THEN "connected"
           ELSE slots[c].state
    BY <1>1, <1>12, ToldParts DEF Connected
  <2>2. \A c \in Slots : View'.state[c] =
           IF t \in View.heard /\ c \in Mine(View, t) THEN "connected"
           ELSE View.state[c]
    BY <2>1, ViewParts, NextParts DEF Mine
  <2>3. adapters'[t].link = "open"
    BY <1>1, <1>12 DEF Connected, RuntimeTypes, AdapterTypes
  <2>4. \A a \in Calls : View'.link[a] = IF a = t THEN "open" ELSE View.link[a]
    BY <1>6, <2>3, ViewParts, NextParts
  <2>5. View'.rates = TRUE
    BY <1>12, NextParts DEF Connected
  <2>6. Connects(View, View', t)
    BY <1>10, <1>11, <2>2, <2>4, <2>5 DEF Connects
  <2>7. ViewInv(View')
    BY <1>1, <1>3, <2>6, ConnectsKeeps, NextTyped
  <2>q. QED BY <1>3, <1>8, <2>7 DEF RuntimeInv
<1>13. CASE ConnectFails(t)
  <2>1. \A c \in Slots : slots'[c].state =
           IF c \in SlotsOf(adapters[t].offer) THEN "error" ELSE slots[c].state
    BY <1>1, <1>13, ShownParts DEF ConnectFails
  <2>2. \A c \in Slots : View'.state[c] =
           IF c \in Mine(View, t) THEN "error" ELSE View.state[c]
    BY <2>1, ViewParts, NextParts DEF Mine
  <2>3. adapters'[t].link = "closed"
    BY <1>1, <1>13 DEF ConnectFails, RuntimeTypes, AdapterTypes
  <2>4. \A a \in Calls : View'.link[a] = IF a = t THEN "closed" ELSE View.link[a]
    BY <1>6, <2>3, ViewParts, NextParts
  <2>5. View'.rates = View.rates
    BY <1>13, ViewParts, NextParts DEF ConnectFails
  <2>6. Fails(View, View', t)
    BY <1>10, <1>11, <2>2, <2>4, <2>5 DEF Fails
  <2>7. ViewInv(View')
    BY <1>1, <1>3, <2>6, ConnectsKeeps, NextTyped
  <2>q. QED BY <1>3, <1>8, <2>7 DEF RuntimeInv
<1>q. QED BY <1>12, <1>13

LEMMA BreaksStep ==
    ASSUME RuntimeInv, NEW t \in Calls, NEW state \in {"error", "disconnected"},
           Breaks(t, state)
    PROVE  RuntimeInv'
<1>1. RuntimeTypes /\ Numbered /\ ViewInv(View) /\ CallShape(View, t)
  BY InvParts
<1>2. /\ adapters[t].link = "open" \/ adapters[t].connecting
      /\ adapters' = IF adapters[t].connecting THEN adapters
                     ELSE [adapters EXCEPT ![t].link = "broken"]
      /\ slots' = Told(t, state)
      /\ UNCHANGED <<shared, heard, calls, rates, made, disturbed>>
  BY DEF Breaks
<1>3. RuntimeTypes'
  BY AdapterStepTypes
<1>4. /\ \A a \in Calls : adapters'[a].offer = adapters[a].offer
      /\ \A a \in Calls : adapters'[a].connecting = adapters[a].connecting
      /\ \A a \in Calls : \/ adapters'[a].link = adapters[a].link
                          \/ a = t /\ adapters'[a].link = "broken"
  <2>1. CASE adapters' = adapters
    BY <2>1
  <2>2. CASE adapters' = [adapters EXCEPT ![t].link = "broken"]
    BY <1>1, <2>2 DEF RuntimeTypes, AdapterTypes
  <2>q. QED BY <1>2, <2>1, <2>2
<1>5. Numbered'
  BY <1>1, <1>2, <1>4 DEF Numbered
<1>6. View.at[t] # "unused"
  BY <1>1, <1>2, ViewParts DEF Numbered, CallShape
<1>7. \A c \in Slots :
              /\ slots'[c].adapter = slots[c].adapter
              /\ slots'[c].subscription = slots[c].subscription
              /\ slots'[c].state = IF t \in heard /\ c \in SlotsOf(adapters[t].offer)
                                   THEN state ELSE slots[c].state
  BY <1>1, <1>2, ToldParts
<1>8. Still(View, View') /\ View'.disturbed = View.disturbed /\ View'.rates = View.rates
  BY <1>2, <1>4, <1>7, StillParts, ViewParts, NextParts
<1>9. \A c \in Slots : IF t \in View.heard /\ c \in Mine(View, t)
                       THEN View'.state[c] # "connected"
                       ELSE View'.state[c] = View.state[c]
  <2>1. state # "connected"
    OBVIOUS
  <2>q. QED BY <1>7, <2>1, ViewParts, NextParts DEF Mine
<1>10. \A u \in Calls : SameCall(View, View', u)
  BY <1>2, SameParts
<1>11. \A a \in Calls : \/ View'.link[a] = View.link[a]
                        \/ a = t /\ View'.link[a] = "broken"
  BY <1>4, ViewParts, NextParts
<1>12. BreaksDown(View, View', t)
  BY <1>6, <1>8, <1>9, <1>10, <1>11 DEF BreaksDown
<1>13. ViewInv(View')
  BY <1>1, <1>3, <1>12, BreaksKeeps, NextTyped
<1>q. QED BY <1>3, <1>5, <1>13 DEF RuntimeInv

LEMMA InstallStep ==
    ASSUME RuntimeInv, NEW t \in Calls, Install(t)
    PROVE  RuntimeInv'
<1>1. RuntimeTypes /\ Numbered /\ ViewInv(View) /\ CallShape(View, t)
  BY InvParts
<1>2. /\ calls[t].at = "ready" /\ calls[t].kind = "connect"
      /\ calls[t].from > calls[t].upto
      /\ heard' = heard \cup {t}
      /\ adapters' = [adapters EXCEPT ![t].connecting = TRUE]
      /\ calls' = [calls EXCEPT ![t].at = "connecting"]
      /\ UNCHANGED <<shared, rates, made, faults, disturbed>>
  BY DEF Install
<1>3. RuntimeTypes'
  BY InstallTypes
<1>4. /\ calls'[t] = [calls[t] EXCEPT !.at = "connecting"]
      /\ \A u \in Calls : u # t => calls'[u] = calls[u]
      /\ Others(View, View', t)
  <2>1. calls' = [calls EXCEPT ![t] = [calls[t] EXCEPT !.at = "connecting"]]
    BY <1>1, <1>2 DEF RuntimeTypes
  <2>q. QED BY <1>1, <2>1, OnlyCall
<1>5. calls'[t].at = "connecting" /\ calls[t] \in CallRecords
  BY <1>1, <1>4 DEF RuntimeTypes, CallRecords, Stages
<1>6. /\ adapters'[t].connecting
      /\ \A a \in Calls : adapters'[a].offer = adapters[a].offer
      /\ \A a \in Calls : adapters'[a].link = adapters[a].link
      /\ \A a \in Calls : a # t => adapters'[a] = adapters[a]
  BY <1>1, <1>2 DEF RuntimeTypes, AdapterTypes
<1>7. Numbered'
  BY <1>1, <1>2, <1>4, <1>5, <1>6, NumberedKept
<1>8. First(View, t) \in Mine(View, t)
  <2>1. View.kind[t] = "connect"
    BY <1>2, ViewParts
  <2>2. View.offer[t] \in Offers
    BY <1>1, <2>1 DEF CallShape
  <2>q. QED BY <2>2, OfferTypes DEF First, Mine
<1>9. SlotsOf(adapters[t].offer) = Mine(View, t)
      /\ adapters[t].offer.base = First(View, t)
  BY ViewParts DEF Mine, First
<1>10. \A c \in Slots :
          /\ slots'[c].adapter = IF c \in Mine(View, t) THEN t ELSE slots[c].adapter
          /\ slots'[c].state = IF c \in Mine(View, t) THEN "connecting" ELSE slots[c].state
          /\ slots'[c].subscription = IF c = First(View, t) THEN t
                                      ELSE slots[c].subscription
  <2>1. slots' = [c \in Slots |-> IF c \notin Mine(View, t) THEN slots[c]
                    ELSE [adapter |-> t, state |-> "connecting",
                          subscription |-> IF c = First(View, t) THEN t
                                           ELSE slots[c].subscription]]
    BY <1>9 DEF Install
  <2>q. QED BY <1>8, <2>1
<1>11. /\ View.at[t] = "ready" /\ View.kind[t] = "connect" /\ View.from[t] > View.upto[t]
       /\ View'.at[t] = "connecting"
       /\ View'.kind[t] = View.kind[t] /\ View'.fields[t] = View.fields[t]
       /\ View'.from[t] = View.from[t] /\ View'.upto[t] = View.upto[t]
       /\ View'.target[t] = View.target[t] /\ View'.affected[t] = View.affected[t]
  BY <1>2, <1>4, <1>5, ViewParts, NextParts DEF CallRecords, Stages
<1>12. /\ View'.shared = View.shared /\ View'.offer = View.offer /\ View'.link = View.link
       /\ View'.rates = View.rates /\ View'.disturbed = View.disturbed
       /\ View'.heard = View.heard \cup {t}
  BY <1>2, <1>6, SameParts, ViewParts, NextParts
<1>13. \A c \in Slots :
          /\ View'.holder[c] = IF c \in Mine(View, t) THEN t ELSE View.holder[c]
          /\ View'.state[c] = IF c \in Mine(View, t) THEN "connecting" ELSE View.state[c]
          /\ View'.source[c] = IF c = First(View, t) THEN t ELSE View.source[c]
  BY <1>10, ViewParts, NextParts
<1>14. Installs(View, View', t)
  BY <1>4, <1>11, <1>12, <1>13 DEF Installs
<1>15. ViewInv(View')
  BY <1>1, <1>3, <1>14, InstallsKeeps, NextTyped
<1>q. QED BY <1>3, <1>7, <1>15 DEF RuntimeInv

LEMMA ReleasedStep ==
    ASSUME RuntimeInv, NEW t \in Calls, Released(t)
    PROVE  RuntimeInv'
<1> DEFINE call == calls[t]
           a == call.target
           d == call.from
           own == call.affected = {} /\ call.fields = <<>>
<1>1. RuntimeTypes /\ Numbered /\ ViewInv(View) /\ CallShape(View, t)
  BY InvParts
<1>2. /\ call.at = "releasing" /\ adapters' = [adapters EXCEPT ![a].link = "closed"]
      /\ UNCHANGED <<heard, made, faults, disturbed>>
  BY DEF Released
<1>3. call \in CallRecords
  BY <1>1 DEF RuntimeTypes
<1>4. a \in Calls /\ View.at[t] = "releasing"
  BY <1>1, <1>2, ViewParts DEF CallShape
<1>5. RuntimeTypes'
  BY <1>4, ReleasedTypes
<1>6. /\ \A b \in Calls : adapters'[b].offer = adapters[b].offer
      /\ \A b \in Calls : adapters'[b].connecting = adapters[b].connecting
      /\ \A b \in Calls : adapters'[b].link = IF b = a THEN "closed" ELSE adapters[b].link
  BY <1>1, <1>2, <1>4 DEF RuntimeTypes, AdapterTypes
<1>7. /\ \A u \in Calls : u # t => calls'[u] = calls[u]
      /\ Others(View, View', t)
      /\ calls'[t].at = "ready" /\ calls'[t].kind = call.kind
      /\ calls'[t].upto = call.upto /\ calls'[t].target = None
      /\ calls'[t].affected = {}
      /\ IF call.fields = <<>> THEN calls'[t].fields = <<>> /\ calls'[t].from = d + 1
                               ELSE calls'[t].from = d
  <2>1. CASE call.fields = <<>> /\ Cleared(t, call)
    <3> DEFINE k == d + 1
               next == [call EXCEPT !.at = "ready", !.from = k,
                                    !.target = None, !.affected = {}]
    <3>1. calls' = [calls EXCEPT ![t] = next]
      BY <2>1 DEF Cleared
    <3>2. calls'[t] = next /\ Others(View, View', t)
          /\ \A u \in Calls : u # t => calls'[u] = calls[u]
      <4> HIDE DEF next
      <4>q. QED BY <1>1, <3>1, OnlyCall
    <3> HIDE DEF k
    <3>3. next.at = "ready" /\ next.kind = call.kind /\ next.upto = call.upto
          /\ next.target = None /\ next.affected = {} /\ next.from = k
          /\ next.fields = call.fields
      BY <1>3 DEF CallRecords, Stages
    <3>q. QED BY <2>1, <3>2, <3>3 DEF k
  <2>2. CASE call.fields # <<>>
    <3> DEFINE next == [call EXCEPT !.at = "ready", !.fields = Tail(@),
                                    !.target = None, !.affected = {}]
    <3>1. calls' = [calls EXCEPT ![t] = next]
      BY <2>2 DEF Released
    <3>2. calls'[t] = next /\ Others(View, View', t)
          /\ \A u \in Calls : u # t => calls'[u] = calls[u]
      <4> HIDE DEF next
      <4>q. QED BY <1>1, <3>1, OnlyCall
    <3>3. next.at = "ready" /\ next.kind = call.kind /\ next.upto = call.upto
          /\ next.target = None /\ next.affected = {} /\ next.from = d
      BY <1>3 DEF CallRecords, Stages
    <3>q. QED BY <2>2, <3>2, <3>3
  <2>q. QED BY <2>1, <2>2 DEF Released
<1>8. Numbered'
  BY <1>1, <1>2, <1>6, <1>7, NumberedKept DEF Numbered
<1>9. \A c \in Slots :
         /\ slots'[c].adapter = IF c \in call.affected THEN None ELSE slots[c].adapter
         /\ slots'[c].subscription = slots[c].subscription
         /\ slots'[c].state = IF \/ c \in call.affected
                                 \/ call.fields = <<>> /\ c = d
                                 \/ a \in heard /\ c \in SlotsOf(adapters[a].offer)
                              THEN "disconnected" ELSE slots[c].state
  <2> DEFINE shown == Told(a, "disconnected")
  <2>1. /\ shown \in SlotTypes
        /\ \A c \in Slots :
              /\ shown[c].adapter = slots[c].adapter
              /\ shown[c].subscription = slots[c].subscription
              /\ shown[c].state = IF a \in heard /\ c \in SlotsOf(adapters[a].offer)
                                  THEN "disconnected" ELSE slots[c].state
    <3>1. shown \in SlotTypes
      BY <1>1, ToldTypes DEF States
    <3>2. \A c \in Slots :
              /\ shown[c].adapter = slots[c].adapter
              /\ shown[c].subscription = slots[c].subscription
              /\ shown[c].state = IF a \in heard /\ c \in SlotsOf(adapters[a].offer)
                                  THEN "disconnected" ELSE slots[c].state
      BY <1>1 DEF Told, Show, RuntimeTypes, SlotTypes
    <3>q. QED BY <3>1, <3>2
  <2>2. call.fields = <<>> /\ call.affected # {} => d \in call.affected
    BY <1>1, <1>4, ViewParts DEF ViewInv, Place
  <2>3. CASE own
    <3>1. slots' = [shown EXCEPT ![d].state = "disconnected"]
      BY <2>3 DEF Released
    <3> HIDE DEF shown
    <3>q. QED BY <2>1, <2>3, <3>1 DEF SlotTypes
  <2>4. CASE ~own
    <3>1. slots' = [c \in Slots |-> IF c \in call.affected
                            THEN [shown[c] EXCEPT !.adapter = None,
                                                  !.state = "disconnected"]
                            ELSE shown[c]]
      BY <2>4 DEF Released
    <3>2. call.fields = <<>> => d \in call.affected
      BY <2>2, <2>4
    <3> HIDE DEF shown
    <3>q. QED BY <2>1, <3>1, <3>2 DEF SlotTypes
  <2>q. QED BY <2>3, <2>4
<1>10. \A f \in Names : shared'[f] = IF ~own /\ shared[f] = a THEN None ELSE shared[f]
  BY <1>1 DEF Released, RuntimeTypes
<1>11. rates = TRUE /\ (\E c \in Slots : slots'[c].state = "connected") => rates' = TRUE
  BY DEF Released, Cleared
<1>12. /\ View'.source = View.source /\ View'.heard = View.heard
       /\ View'.offer = View.offer /\ View'.disturbed = View.disturbed
  BY <1>2, <1>6, <1>9, SameParts, ViewParts, NextParts
<1>13. OfShared(View, t) <=> ~own
  BY ViewParts DEF OfShared
<1>14. \A c \in Slots :
         /\ View'.holder[c] = IF c \in View.affected[t] THEN None ELSE View.holder[c]
         /\ View'.state[c] = IF \/ c \in View.affected[t]
                                \/ View.fields[t] = <<>> /\ c = View.from[t]
                                \/ a \in View.heard /\ c \in Mine(View, a)
                             THEN "disconnected" ELSE View.state[c]
  BY <1>4, <1>9, ViewParts, NextParts DEF Mine
<1>15. \A b \in Calls : View'.link[b] = IF b = a THEN "closed" ELSE View.link[b]
  BY <1>6, ViewParts, NextParts
<1>16. /\ View'.kind[t] = View.kind[t] /\ View'.upto[t] = View.upto[t]
       /\ View'.at[t] = "ready" /\ View'.target[t] = None /\ View'.affected[t] = {}
       /\ IF View.fields[t] = <<>>
          THEN View'.fields[t] = <<>> /\ View'.from[t] = View.from[t] + 1
          ELSE View'.from[t] = View.from[t]
  BY <1>7, ViewParts, NextParts
<1>17. \A f \in Names : View'.shared[f] = IF OfShared(View, t) /\ View.shared[f] = a
                                          THEN None ELSE View.shared[f]
  BY <1>10, <1>13, ViewParts, NextParts
<1>18. View.rates = TRUE /\ (\E c \in Slots : View'.state[c] = "connected") =>
          View'.rates = TRUE
  BY <1>11, ViewParts, NextParts
<1>19. View.target[t] = a
  BY ViewParts
<1> HIDE DEF a
<1>20. Clears(View, View', t)
  BY <1>4, <1>7, <1>12, <1>14, <1>15, <1>16, <1>17, <1>18, <1>19 DEF Clears
<1>21. ViewInv(View')
  BY <1>1, <1>5, <1>20, ClearsKeeps, NextTyped
<1>q. QED BY <1>5, <1>8, <1>21 DEF RuntimeInv

-----------------------------------------------------------------------------
(* A release, from a view m in which the call is about to make it: the     *)
(* state itself, or, of a new call, the state in which it has been noted.  *)
Before(m, t, call) ==
    /\ m.holder = View.holder /\ m.state = View.state /\ m.source = View.source
    /\ m.heard = View.heard /\ m.rates = View.rates
    /\ m.link = View.link /\ m.link = View'.link
    /\ m.shared = View'.shared /\ m.offer = View'.offer
    /\ m.disturbed = View'.disturbed
    /\ Others(View, m, t) /\ m.at[t] = "ready"
    /\ m.kind[t] = call.kind /\ m.fields[t] = call.fields
    /\ m.from[t] = call.from /\ m.upto[t] = call.upto
    /\ m.target[t] = call.target /\ m.affected[t] = call.affected

LEMMA FreesParts ==
    ASSUME RuntimeTypes, NEW t \in Calls, NEW m, NEW call, Before(m, t, call),
           NEW next, calls' = [calls EXCEPT ![t] = next],
           next.kind = call.kind, next.fields = call.fields, next.upto = call.upto
    PROVE  Frees(m, View', t)
<1>1. calls'[t] = next /\ \A u \in Calls : u # t => calls'[u] = calls[u]
  BY OnlyCall
<1>2. \A u \in Calls : u # t => SameCall(View, m, u) /\ SameCall(View, View', u)
  BY <1>1, SameParts DEF Before, Others
<1>3. Others(m, View', t)
  BY <1>2 DEF Others, SameCall
<1>4. View'.kind[t] = next.kind /\ View'.fields[t] = next.fields
      /\ View'.upto[t] = next.upto
  BY <1>1, NextParts
<1>q. QED BY <1>3, <1>4 DEF Frees, Before

(* The slots whose subscriptions are cancelled.                            *)
LEMMA CancelsParts ==
    ASSUME NEW t, NEW m, NEW call, Before(m, t, call), NEW R \in SUBSET Slots,
           heard' = Silence(R),
           \A c \in Slots : slots'[c].subscription =
              IF c \in R THEN None ELSE slots[c].subscription
    PROVE  Cancels(m, View', R)
<1>1. {slots[c].subscription : c \in R} = {m.source[c] : c \in R}
  BY ViewParts DEF Before
<1>2. View'.heard = m.heard \ {m.source[c] : c \in R}
  BY <1>1, ViewParts, NextParts DEF Silence, Before
<1>q. QED BY <1>2, ViewParts, NextParts DEF Cancels, Before

LEMMA SharedParts ==
    ASSUME RuntimeTypes, NEW t \in Calls, NEW call \in CallRecords, NEW a \in Calls,
           ReleaseShared(t, call, a), NEW m, Before(m, t, call),
           \E f \in Names : m.shared[f] = a,
           \/ Here(m, t) /\ m.holder[m.from[t]] = a
           \/ m.kind[t] = "all" /\ m.fields[t] # <<>>
    PROVE  FreesShared(m, View', t, a)
<1> DEFINE next == [call EXCEPT !.at = "releasing", !.target = a, !.affected = Held(a)]
<1>1. /\ calls' = [calls EXCEPT ![t] = next] /\ UNCHANGED rates
      /\ heard' = Silence(Held(a))
      /\ slots' = [c \in Slots |-> IF c \in Held(a)
                                 THEN [slots[c] EXCEPT !.subscription = None]
                                 ELSE slots[c]]
  BY DEF ReleaseShared
<1>2. /\ next.kind = call.kind /\ next.fields = call.fields /\ next.upto = call.upto
      /\ next.at = "releasing" /\ next.from = call.from
      /\ next.target = a /\ next.affected = Held(a)
  BY DEF CallRecords, Stages
<1> HIDE DEF next
<1>3. Frees(m, View', t)
  BY <1>1, <1>2, FreesParts
<1>4. calls'[t] = next
  BY <1>1, OnlyCall
<1>5. Held(a) = HeldBy(m, a) /\ Held(a) \in SUBSET Slots
  BY ViewParts DEF Held, HeldBy, Before
<1>6. \A c \in Slots :
         /\ slots'[c].adapter = slots[c].adapter /\ slots'[c].state = slots[c].state
         /\ slots'[c].subscription =
               IF c \in Held(a) THEN None ELSE slots[c].subscription
  BY <1>1 DEF RuntimeTypes, SlotTypes
<1>7. Cancels(m, View', HeldBy(m, a))
  BY <1>1, <1>5, <1>6, CancelsParts
<1>8. View'.holder = m.holder /\ View'.state = m.state /\ View'.rates = m.rates
  BY <1>1, <1>6, SameParts, ViewParts, NextParts DEF Before
<1>9. /\ View'.at[t] = "releasing" /\ View'.from[t] = m.from[t]
      /\ View'.target[t] = a /\ View'.affected[t] = HeldBy(m, a)
  BY <1>2, <1>4, <1>5, NextParts DEF Before
<1>q. QED BY <1>3, <1>7, <1>8, <1>9 DEF FreesShared

LEMMA OwnParts ==
    ASSUME RuntimeTypes, NEW t \in Calls, NEW call \in CallRecords,
           NEW c, c = call.from, NEW a, a = slots[c].adapter, a # None,
           heard' = Silence({c}), UNCHANGED rates,
           slots' = [slots EXCEPT ![c].adapter = None, ![c].subscription = None],
           calls' = [calls EXCEPT ![t] = [call EXCEPT !.at = "releasing", !.target = a]],
           call.affected = {},
           NEW m, Before(m, t, call), Here(m, t), \A f \in Names : m.shared[f] # a
    PROVE  FreesOwn(m, View', t)
<1> DEFINE next == [call EXCEPT !.at = "releasing", !.target = a]
<1>1. /\ next.kind = call.kind /\ next.fields = call.fields /\ next.upto = call.upto
      /\ next.at = "releasing" /\ next.from = call.from
      /\ next.target = a /\ next.affected = {}
  BY DEF CallRecords, Stages
<1>2. calls' = [calls EXCEPT ![t] = next]
  OBVIOUS
<1> HIDE DEF next
<1>3. Frees(m, View', t)
  BY <1>1, <1>2, FreesParts
<1>4. calls'[t] = next
  BY <1>2, OnlyCall
<1>5. c \in Slots /\ c = m.from[t] /\ m.holder[c] = a
  BY ViewParts DEF Here, Before
<1>6. \A e \in Slots :
         /\ slots'[e].adapter = IF e = c THEN None ELSE slots[e].adapter
         /\ slots'[e].state = slots[e].state
         /\ slots'[e].subscription = IF e \in {c} THEN None ELSE slots[e].subscription
  BY <1>5 DEF RuntimeTypes, SlotTypes
<1>7. Cancels(m, View', {c})
  BY <1>5, <1>6, CancelsParts
<1>8. View'.state = m.state /\ View'.rates = m.rates
      /\ \A e \in Slots : View'.holder[e] = IF e = c THEN None ELSE m.holder[e]
  <2>1. m.state = View.state /\ m.rates = View.rates /\ m.holder = View.holder
    BY DEF Before
  <2>2. View'.state = View.state
    BY <1>6, SameParts
  <2>3. View'.rates = View.rates
    BY ViewParts, NextParts
  <2>4. ASSUME NEW e \in Slots
        PROVE  View'.holder[e] = IF e = c THEN None ELSE View.holder[e]
    <3>1. View'.holder[e] = slots'[e].adapter
      BY NextParts
    <3>2. View.holder[e] = slots[e].adapter
      BY ViewParts
    <3>q. QED BY <1>6, <3>1, <3>2
  <2>q. QED BY <2>1, <2>2, <2>3, <2>4
<1>9. /\ View'.at[t] = "releasing" /\ View'.from[t] = m.from[t]
      /\ View'.target[t] = a /\ View'.affected[t] = {}
  BY <1>1, <1>4, NextParts DEF Before
<1>q. QED BY <1>3, <1>5, <1>7, <1>8, <1>9 DEF FreesOwn

LEMMA EmptyParts ==
    ASSUME RuntimeTypes, NEW t \in Calls, NEW call \in CallRecords,
           NEW c, c = call.from, slots[c].adapter = None,
           heard' = Silence({c}),
           slots' = [slots EXCEPT ![c].subscription = None,
                                  ![c].state = "disconnected"],
           Cleared(t, call), NEW m, Before(m, t, call), Here(m, t)
    PROVE  FreesEmpty(m, View', t)
<1> DEFINE k == c + 1
           next == [call EXCEPT !.at = "ready", !.from = k,
                                !.target = None, !.affected = {}]
<1>1. calls' = [calls EXCEPT ![t] = next]
  BY DEF Cleared
<1> HIDE DEF k
<1>2. /\ next.kind = call.kind /\ next.fields = call.fields /\ next.upto = call.upto
      /\ next.at = "ready" /\ next.from = k
      /\ next.target = None /\ next.affected = {}
  BY DEF CallRecords, Stages
<1> HIDE DEF next
<1>3. Frees(m, View', t)
  BY <1>1, <1>2, FreesParts
<1>4. calls'[t] = next
  BY <1>1, OnlyCall
<1>5. c \in Slots /\ c = m.from[t] /\ m.holder[c] = None
  BY ViewParts DEF Here, Before
<1>6. \A e \in Slots :
         /\ slots'[e].adapter = slots[e].adapter
         /\ slots'[e].state = IF e = c THEN "disconnected" ELSE slots[e].state
         /\ slots'[e].subscription = IF e \in {c} THEN None ELSE slots[e].subscription
  BY <1>5 DEF RuntimeTypes, SlotTypes
<1>7. Cancels(m, View', {c})
  BY <1>5, <1>6, CancelsParts
<1>8. View'.holder = m.holder
      /\ \A e \in Slots : View'.state[e] = IF e = c THEN "disconnected" ELSE m.state[e]
  <2>1. m.state = View.state /\ m.holder = View.holder
    BY DEF Before
  <2>2. View'.holder = View.holder
    BY <1>6, SameParts
  <2>3. ASSUME NEW e \in Slots
        PROVE  View'.state[e] = IF e = c THEN "disconnected" ELSE View.state[e]
    <3>1. View'.state[e] = slots'[e].state
      BY NextParts
    <3>2. View.state[e] = slots[e].state
      BY ViewParts
    <3>q. QED BY <1>6, <3>1, <3>2
  <2>q. QED BY <2>1, <2>2, <2>3
<1>9. /\ View'.at[t] = "ready" /\ View'.from[t] = m.from[t] + 1
      /\ View'.target[t] = None /\ View'.affected[t] = {}
  BY <1>2, <1>4, <1>5, NextParts DEF k
<1>10. m.rates = TRUE /\ (\E e \in Slots : View'.state[e] = "connected") =>
          View'.rates = TRUE
  <2>1. rates = TRUE /\ (\E e \in Slots : slots'[e].state = "connected") => rates' = TRUE
    BY DEF Cleared
  <2>2. m.rates = rates /\ View'.rates = rates'
    BY ViewParts, NextParts DEF Before
  <2>3. \A e \in Slots : View'.state[e] = slots'[e].state
    BY NextParts
  <2>q. QED BY <2>1, <2>2, <2>3
<1>q. QED BY <1>3, <1>5, <1>7, <1>8, <1>9, <1>10 DEF FreesEmpty

LEMMA ReleaseKeeps ==
    ASSUME RuntimeTypes, RuntimeTypes', NEW t \in Calls, NEW call \in CallRecords,
           NEW fields, Release(t, call, fields), call.affected = {},
           NEW m, ViewInv(m), Before(m, t, call), Here(m, t), m.shared = fields
    PROVE  ViewInv(View')
<1> DEFINE c == call.from
           a == slots[c].adapter
<1>1. ViewTypes(View') /\ ViewTypes(m)
  BY NextTyped DEF ViewInv
<1>2. c \in Slots /\ c = m.from[t] /\ m.holder[m.from[t]] = a
  BY ViewParts DEF Here, Before
<1>3. IsShared(a, fields) <=> \E f \in Names : m.shared[f] = a
  <2>1. DOMAIN fields = Names
    BY <1>1 DEF ViewTypes
  <2>q. QED BY <2>1 DEF IsShared
<1>4. CASE a # None /\ IsShared(a, fields) /\ ReleaseShared(t, call, a)
  <2>1. a \in Calls
    BY <1>2, <1>4 DEF RuntimeTypes, SlotTypes
  <2>2. FreesShared(m, View', t, a)
    <3> HIDE DEF a, c
    <3>q. QED BY <1>2, <1>3, <1>4, <2>1, SharedParts
  <2>q. QED BY <1>1, <2>1, <2>2, FreesSharedKeeps
<1>5. CASE /\ a # None /\ ~IsShared(a, fields)
           /\ heard' = Silence({c})
           /\ slots' = [slots EXCEPT ![c].adapter = None, ![c].subscription = None]
           /\ calls' = [calls EXCEPT ![t] = [call EXCEPT !.at = "releasing",
                                                         !.target = a]]
           /\ UNCHANGED rates
  <2>1. \A f \in Names : m.shared[f] # a
    BY <1>3, <1>5
  <2>2. FreesOwn(m, View', t)
    BY <1>5, <2>1, OwnParts
  <2>q. QED BY <1>1, <2>2, FreesOwnKeeps
<1>6. CASE /\ a = None /\ heard' = Silence({c})
           /\ slots' = [slots EXCEPT ![c].subscription = None,
                                     ![c].state = "disconnected"]
           /\ Cleared(t, call)
  <2>1. FreesEmpty(m, View', t)
    BY <1>6, EmptyParts
  <2>q. QED BY <1>1, <2>1, FreesEmptyKeeps
<1>q. QED BY <1>4, <1>5, <1>6 DEF Release

(* Where a release leaves the call.                                        *)
LEMMA ReleaseStage ==
    ASSUME RuntimeTypes, NEW t \in Calls, NEW call \in CallRecords,
           NEW fields, Release(t, call, fields)
    PROVE  /\ calls'[t].at \in {"ready", "releasing"}
           /\ \A u \in Calls : u # t => calls'[u] = calls[u]
<1> DEFINE a == slots[call.from].adapter
<1>1. CASE ReleaseShared(t, call, a)
  <2>1. calls' = [calls EXCEPT ![t] = [call EXCEPT !.at = "releasing", !.target = a,
                                                   !.affected = Held(a)]]
    BY <1>1 DEF ReleaseShared
  <2>q. QED BY <2>1 DEF RuntimeTypes, CallRecords, Stages
<1>2. CASE calls' = [calls EXCEPT ![t] = [call EXCEPT !.at = "releasing", !.target = a]]
  BY <1>2 DEF RuntimeTypes, CallRecords, Stages
<1>3. CASE Cleared(t, call)
  <2> DEFINE k == call.from + 1
  <2>1. calls' = [calls EXCEPT ![t] = [call EXCEPT !.at = "ready", !.from = k,
                                                   !.target = None, !.affected = {}]]
    BY <1>3 DEF Cleared
  <2> HIDE DEF k
  <2>q. QED BY <2>1 DEF RuntimeTypes, CallRecords, Stages
<1>q. QED BY <1>1, <1>2, <1>3 DEF Release


LEMMA NextFieldStep ==
    ASSUME RuntimeInv, NEW t \in Calls, NextField(t)
    PROVE  RuntimeInv'
<1> DEFINE f == Head(calls[t].fields)
           next == [calls[t] EXCEPT !.fields = Tail(@)]
<1>1. /\ RuntimeTypes /\ Numbered /\ ViewInv(View) /\ ViewTypes(View)
      /\ CallShape(View, t)
  BY InvParts
<1>2. /\ calls[t].at = "ready" /\ calls[t].fields # <<>>
      /\ UNCHANGED <<shared, adapters, made, faults, disturbed>>
  BY DEF NextField
<1>3. calls[t] \in CallRecords /\ f \in Names
  <2>1. calls[t] \in CallRecords
    BY <1>1 DEF RuntimeTypes
  <2>2. calls[t].fields \in Seq(Names)
    BY <2>1 DEF CallRecords
  <2>q. QED BY <1>2, <2>1, <2>2
<1>4. RuntimeTypes'
  BY NextFieldTypes
<1>5. ViewTypes(View')
  BY <1>4, NextTyped
<1>6. /\ View.shared = View'.shared /\ View.offer = View'.offer
      /\ View.link = View'.link /\ View.disturbed = View'.disturbed
      /\ View.at[t] = "ready" /\ View.fields[t] # <<>>
  BY <1>2, SameParts, ViewParts, NextParts
<1>7. CASE shared[f] # None /\ ReleaseShared(t, calls[t], shared[f])
  <2>1. shared[f] \in Calls /\ View.shared[f] = shared[f]
    BY <1>1, <1>3, <1>7, ViewParts DEF RuntimeTypes
  <2>2. Before(View, t, calls[t])
    <3>1. Others(View, View, t)
      BY DEF Others, SameCall
    <3>q. QED BY <1>6, <3>1, ViewParts DEF Before
  <2>3. View.kind[t] = "all"
    <3>1. View.kind[t] # "none"
      BY <1>1, <1>6 DEF CallShape, Live
    <3>2. View.kind[t] \in {"none", "connect", "channel", "all"}
      BY <1>1 DEF ViewTypes
    <3>q. QED BY <1>1, <1>6, <3>1, <3>2 DEF CallShape
  <2>4. FreesShared(View, View', t, shared[f])
    <3>1. \E g \in Names : View.shared[g] = shared[f]
      BY <1>3, <2>1
    <3> HIDE DEF f
    <3>q. QED BY <1>1, <1>3, <1>6, <1>7, <2>1, <2>2, <2>3, <3>1, SharedParts
  <2>5. ViewInv(View')
    <3> HIDE DEF f
    <3>q. QED BY <1>1, <1>5, <2>1, <2>4, FreesSharedKeeps
  <2>6. /\ calls'[t].at = "releasing"
        /\ \A u \in Calls : u # t => calls'[u] = calls[u]
    <3> DEFINE call == [calls[t] EXCEPT !.at = "releasing", !.target = shared[f],
                                        !.affected = Held(shared[f])]
    <3>1. calls' = [calls EXCEPT ![t] = call]
      BY <1>7 DEF ReleaseShared
    <3>2. call.at = "releasing"
      BY <1>3 DEF CallRecords
    <3> HIDE DEF call
    <3>q. QED BY <1>1, <3>1, <3>2, OnlyCall
  <2>7. Numbered'
    <3>1. adapters'[t].connecting <=> calls'[t].at = "connecting"
      BY <1>1, <1>2, <2>6 DEF Numbered
    <3>q. QED BY <1>1, <1>2, <2>6, <3>1, NumberedKept
  <2>q. QED BY <1>4, <2>5, <2>7 DEF RuntimeInv
<1>8. CASE calls' = [calls EXCEPT ![t] = next] /\ UNCHANGED <<slots, heard, rates>>
  <2>1. /\ next.at = "ready" /\ next.kind = calls[t].kind /\ next.from = calls[t].from
        /\ next.upto = calls[t].upto /\ next.target = calls[t].target
        /\ next.affected = calls[t].affected
    BY <1>2, <1>3 DEF CallRecords
  <2> HIDE DEF next
  <2>2. /\ calls'[t] = next /\ \A u \in Calls : u # t => calls'[u] = calls[u]
        /\ Others(View, View', t)
    BY <1>1, <1>8, OnlyCall
  <2>3. Still(View, View') /\ View'.state = View.state /\ View'.rates = View.rates
    BY <1>2, <1>8, StillParts, SameParts, ViewParts, NextParts
  <2>4. /\ View'.at[t] = "ready" /\ View'.kind[t] = View.kind[t]
        /\ View'.from[t] = View.from[t] /\ View'.upto[t] = View.upto[t]
        /\ View'.target[t] = View.target[t] /\ View'.affected[t] = View.affected[t]
    BY <2>1, <2>2, ViewParts, NextParts
  <2>5. Proceeds(View, View', t)
    BY <1>6, <2>2, <2>3, <2>4 DEF Proceeds
  <2>6. ViewInv(View')
    BY <1>1, <1>5, <2>5, ProceedsKeeps
  <2>7. Numbered'
    <3>1. adapters'[t].connecting <=> calls'[t].at = "connecting"
      BY <1>1, <1>2, <2>1, <2>2 DEF Numbered
    <3>q. QED BY <1>1, <1>2, <2>1, <2>2, <3>1, NumberedKept
  <2>q. QED BY <1>4, <2>6, <2>7 DEF RuntimeInv
<1>q. QED BY <1>7, <1>8 DEF NextField

LEMMA NextChannelStep ==
    ASSUME RuntimeInv, NEW t \in Calls, NextChannel(t)
    PROVE  RuntimeInv'
<1>1. /\ RuntimeTypes /\ Numbered /\ ViewInv(View) /\ ViewTypes(View)
      /\ CallShape(View, t)
  BY InvParts
<1>2. /\ calls[t].at = "ready" /\ calls[t].fields = <<>>
      /\ calls[t].from <= calls[t].upto /\ Release(t, calls[t], shared)
      /\ UNCHANGED <<shared, adapters, made, faults, disturbed>>
  BY DEF NextChannel
<1>3. calls[t] \in CallRecords /\ calls[t].from \in Nat /\ calls[t].upto \in Nat
  BY <1>1 DEF RuntimeTypes, CallRecords
<1>4. Here(View, t)
  <2>1. Live(View, t)
    BY <1>2, ViewParts DEF Live
  <2>2. Todo(View, t) \subseteq Slots
    <3>1. Todo(View, t) \subseteq Area(View, t) /\ Area(View, t) \subseteq Slots
      BY <1>1, <2>1, AreaFacts DEF ViewInv
    <3>q. QED BY <3>1
  <2>3. View.from[t] = calls[t].from /\ View.upto[t] = calls[t].upto
        /\ View.fields[t] = calls[t].fields
    BY ViewParts
  <2>4. View.from[t] \in Todo(View, t)
    BY <1>2, <1>3, <2>3 DEF Todo
  <2>q. QED BY <1>2, <2>2, <2>3, <2>4 DEF Here
<1>5. calls[t].from \in Slots
  BY <1>4, ViewParts DEF Here
<1>6. RuntimeTypes'
  BY <1>5, NextChannelTypes
<1>7. calls[t].affected = {}
  BY <1>1, <1>2, ViewParts DEF CallShape
<1>8. Before(View, t, calls[t]) /\ View.shared = shared
  <2>1. Others(View, View, t)
    BY DEF Others, SameCall
  <2>2. /\ View.shared = View'.shared /\ View.offer = View'.offer
        /\ View.link = View'.link /\ View.disturbed = View'.disturbed
    BY <1>2, SameParts, ViewParts, NextParts
  <2>q. QED BY <1>2, <2>1, <2>2, ViewParts DEF Before
<1>9. ViewInv(View')
  BY <1>1, <1>2, <1>3, <1>4, <1>6, <1>7, <1>8, ReleaseKeeps
<1>10. Numbered'
  <2>1. /\ calls'[t].at \in {"ready", "releasing"}
        /\ \A u \in Calls : u # t => calls'[u] = calls[u]
    BY <1>1, <1>2, <1>3, ReleaseStage
  <2>2. adapters'[t].connecting <=> calls'[t].at = "connecting"
    BY <1>1, <1>2, <2>1 DEF Numbered
  <2>q. QED BY <1>1, <1>2, <2>1, <2>2, NumberedKept
<1>q. QED BY <1>6, <1>9, <1>10 DEF RuntimeInv

(* A new call disturbs what it has in common with the calls under way.     *)
LEMMA CallMeets ==
    ASSUME RuntimeInv, NEW t \in Calls, NEW kind, NEW reach \in SUBSET Slots,
           Call(t, kind, reach), kind = "all" => reach = Slots,
           NEW u \in Calls, Live(View, u), NEW d \in reach, d \in Area(View, u)
    PROVE  /\ d \in disturbed'
           /\ calls[u].kind # "all" => Area(View, u) \subseteq disturbed'
           /\ kind # "all" => reach \subseteq disturbed'
<1>1. ReachOf(u) = Area(View, u) /\ ReachOf(u) \subseteq Slots /\ Active(u)
  BY ReachArea
<1>2. Met(kind, reach, u) \subseteq disturbed'
  <2>1. u \in {v \in Calls : Active(v) /\ ReachOf(v) \cap reach # {}}
    BY <1>1
  <2>2. Met(kind, reach, u) \subseteq Meets(kind, reach)
    BY <2>1 DEF Meets
  <2>q. QED BY <2>2, CallSteps
<1>3. CASE calls[u].kind = "all"
  <2>1. ReachOf(u) = Slots
    <3>1. View.kind[u] = "all" /\ ViewTypes(View) /\ Shape(View)
      BY <1>3, ViewParts DEF RuntimeInv, ViewInv
    <3>q. QED BY <1>1, <3>1, AreaFacts
  <2>2. Met(kind, reach, u) = reach
    BY <1>3, <2>1 DEF Met
  <2>q. QED BY <1>2, <1>3, <2>2
<1>4. CASE kind = "all"
  <2>1. Met(kind, reach, u) = ReachOf(u)
    BY <1>1, <1>4 DEF Met
  <2>q. QED BY <1>1, <1>2, <1>4, <2>1
<1>5. CASE kind # "all" /\ calls[u].kind # "all"
  <2>1. Met(kind, reach, u) = reach \cup ReachOf(u)
    BY <1>5 DEF Met
  <2>q. QED BY <1>1, <1>2, <2>1
<1>q. QED BY <1>3, <1>4, <1>5

(* The state in which a new call has been noted, and nothing released yet. *)
Noted(t, call) ==
    [holder |-> View.holder, state |-> View.state, source |-> View.source,
     shared |-> shared', heard |-> heard, rates |-> rates,
     disturbed |-> disturbed', offer |-> View'.offer, link |-> View.link,
     kind |-> [u \in Calls |-> IF u = t THEN call.kind ELSE calls[u].kind],
     at |-> [u \in Calls |-> IF u = t THEN "ready" ELSE calls[u].at],
     fields |-> [u \in Calls |-> IF u = t THEN call.fields ELSE calls[u].fields],
     from |-> [u \in Calls |-> IF u = t THEN call.from ELSE calls[u].from],
     upto |-> [u \in Calls |-> IF u = t THEN call.upto ELSE calls[u].upto],
     target |-> [u \in Calls |-> IF u = t THEN call.target ELSE calls[u].target],
     affected |-> [u \in Calls |-> IF u = t THEN call.affected
                                   ELSE calls[u].affected]]

LEMMA NotedParts ==
    ASSUME NEW t \in Calls, NEW call
    PROVE  LET m == Noted(t, call) IN
           /\ m.holder = View.holder /\ m.state = View.state
           /\ m.source = View.source /\ m.shared = shared'
           /\ m.heard = View.heard /\ m.rates = View.rates
           /\ m.disturbed = disturbed' /\ m.offer = View'.offer
           /\ m.link = View.link /\ Others(View, m, t)
           /\ m.kind[t] = call.kind /\ m.at[t] = "ready"
           /\ m.fields[t] = call.fields /\ m.from[t] = call.from
           /\ m.upto[t] = call.upto /\ m.target[t] = call.target
           /\ m.affected[t] = call.affected
<1>1. Others(View, Noted(t, call), t)
  BY ViewParts DEF Noted, Others, SameCall
<1>q. QED BY <1>1, ViewParts DEF Noted

LEMMA NotedTypes ==
    ASSUME RuntimeTypes, RuntimeTypes', NEW t \in Calls, NEW call \in CallRecords
    PROVE  ViewTypes(Noted(t, call))
<1>1. ViewTypes(View) /\ ViewTypes(View')
  BY ViewTyped, NextTyped
<1>2. /\ call.kind \in {"none", "connect", "channel", "all"} /\ call.at \in Stages
      /\ call.fields \in Seq(Names) /\ call.from \in Nat /\ call.upto \in Nat
      /\ call.target \in {None} \cup Calls /\ call.affected \subseteq Slots
  BY DEF CallRecords
<1>3. \A u \in Calls :
      /\ calls[u].kind \in {"none", "connect", "channel", "all"}
      /\ calls[u].at \in Stages
      /\ calls[u].fields \in Seq(Names) /\ calls[u].from \in Nat
      /\ calls[u].upto \in Nat
      /\ calls[u].target \in {None} \cup Calls /\ calls[u].affected \subseteq Slots
  BY DEF RuntimeTypes, CallRecords
<1> DEFINE m == Noted(t, call)
<1>4. /\ m.kind \in [Calls -> {"none", "connect", "channel", "all"}]
      /\ m.at \in [Calls -> Stages]
      /\ m.fields \in [Calls -> Seq(Names)]
      /\ m.from \in [Calls -> Nat] /\ m.upto \in [Calls -> Nat]
      /\ m.target \in [Calls -> {None} \cup Calls]
      /\ m.affected \in [Calls -> SUBSET Slots]
  BY <1>2, <1>3 DEF Noted, Stages
<1>5. /\ m.holder = View.holder /\ m.state = View.state
      /\ m.source = View.source /\ m.shared = shared'
      /\ m.heard = View.heard /\ m.rates = View.rates
      /\ m.disturbed = disturbed' /\ m.offer = View'.offer /\ m.link = View.link
  BY NotedParts
<1>6. shared' \in [Names -> {None} \cup Calls] /\ disturbed' \subseteq Slots
  BY DEF RuntimeTypes
<1> HIDE DEF m
<1>7. ViewTypes(m)
  BY <1>1, <1>4, <1>5, <1>6 DEF ViewTypes
<1>q. QED BY <1>7 DEF m

LEMMA NotedKeeps ==
    ASSUME RuntimeInv, RuntimeTypes', NEW t \in Calls, NEW call \in CallRecords,
           NEW reach \in SUBSET Slots, Call(t, call.kind, reach),
           call.kind \in {"connect", "channel"},
           call.fields = <<>>, call.target = None, call.affected = {},
           \A a \in Calls : a # t => View'.offer[a] = View.offer[a],
           \A f \in Names : shared'[f] =
              IF call.kind = "connect" /\ f = View'.offer[t].field THEN t
              ELSE shared[f],
           call.kind = "connect" =>
              /\ View'.offer[t] \in Offers /\ reach = Reach(SlotsOf(View'.offer[t]))
              /\ call.from = View'.offer[t].base
              /\ call.upto = View'.offer[t].base + View'.offer[t].width - 1,
           call.kind = "channel" =>
              /\ call.upto \in Slots /\ reach = Reach({call.upto})
              /\ call.from = call.upto
    PROVE  ViewInv(Noted(t, call)) /\ Here(Noted(t, call), t)
<1> DEFINE m == Noted(t, call)
<1>1. RuntimeTypes /\ Numbered /\ ViewInv(View) /\ ViewTypes(View)
  BY InvParts
<1>2. /\ m.holder = View.holder /\ m.state = View.state
      /\ m.source = View.source /\ m.shared = shared'
      /\ m.heard = View.heard /\ m.rates = View.rates
      /\ m.disturbed = disturbed' /\ m.offer = View'.offer
      /\ m.link = View.link /\ Others(View, m, t)
      /\ m.kind[t] = call.kind /\ m.at[t] = "ready"
      /\ m.fields[t] = call.fields /\ m.from[t] = call.from
      /\ m.upto[t] = call.upto /\ m.target[t] = call.target
      /\ m.affected[t] = call.affected
  BY NotedParts
<1>3. ViewTypes(m)
  BY <1>1, NotedTypes
<1> HIDE DEF m
<1>4. /\ t = made + 1 /\ disturbed' = disturbed \cup Meets(call.kind, reach)
  BY CallSteps
<1>5. View.at[t] = "unused"
  <2>1. t > made
    BY <1>1, <1>4 DEF RuntimeTypes
  <2>q. QED BY <1>1, <2>1, ViewParts DEF Numbered
<1>6. Asks(View, m, t)
  <2>1. CASE call.kind = "connect"
    BY <1>2, <2>1 DEF Asks, First
  <2>2. CASE call.kind = "channel"
    BY <1>2, <2>2 DEF Asks
  <2>q. QED BY <2>1, <2>2
<1>7. call.kind = "connect" => Mine(m, t) = SlotsOf(View'.offer[t])
                               /\ Mine(m, t) \subseteq Slots
  BY <1>2, OfferTypes DEF Mine
<1>8. Area(m, t) = reach
  <2>1. \A channels : Zone(m, channels) = Zone(View, channels)
    BY <1>2 DEF Zone
  <2>2. CASE call.kind = "connect"
    <3>1. Work(m, t) = SlotsOf(View'.offer[t]) /\ Work(m, t) \in SUBSET Slots
      BY <1>2, <1>7, <2>2 DEF Work
    <3>2. Zone(View, Work(m, t)) = reach
      BY <2>2, <3>1, ReachZone
    <3>q. QED BY <1>2, <2>1, <3>2 DEF Area
  <2>3. CASE call.kind = "channel"
    <3>1. Work(m, t) = {call.upto} /\ Work(m, t) \in SUBSET Slots
      BY <1>2, <2>3 DEF Work
    <3>2. Zone(View, Work(m, t)) = reach
      BY <2>3, <3>1, ReachZone
    <3>q. QED BY <1>2, <2>1, <3>2 DEF Area
  <2>q. QED BY <2>2, <2>3
<1>9. ASSUME NEW u \in Calls, u # t
      PROVE  /\ SameCall(View, m, u) /\ m.kind[u] = calls[u].kind
             /\ Area(m, u) = Area(View, u)
             /\ Live(m, u) <=> Live(View, u)
  <2>1. SameCall(View, m, u)
    BY <1>2, <1>9 DEF Others
  <2>2. Mine(m, u) = Mine(View, u)
    BY <1>2, <1>9 DEF Mine
  <2>3. Work(m, u) = Work(View, u)
    BY <2>1, <2>2 DEF Work, SameCall
  <2>4. Area(m, u) = Area(View, u)
    BY <1>2, <2>1, <2>3 DEF Area, Zone, SameCall
  <2>5. m.kind[u] = calls[u].kind
    BY <2>1, ViewParts DEF SameCall
  <2>q. QED BY <2>1, <2>4, <2>5, SameCallFacts
<1>10. ASSUME NEW u \in Calls, NEW d \in Slots, u # t, Live(m, u),
              d \in Area(m, u), d \in Area(m, t)
       PROVE  /\ d \in m.disturbed
              /\ m.kind[u] # "all" => Area(m, u) \subseteq m.disturbed
              /\ m.kind[t] # "all" => Area(m, t) \subseteq m.disturbed
  <2>1. Live(View, u) /\ d \in reach /\ d \in Area(View, u)
    BY <1>8, <1>9, <1>10
  <2>2. /\ d \in disturbed'
        /\ calls[u].kind # "all" => Area(View, u) \subseteq disturbed'
        /\ call.kind # "all" => reach \subseteq disturbed'
    BY <2>1, CallMeets
  <2>q. QED BY <1>2, <1>8, <1>9, <1>10, <2>2
<1>11. Begins(View, m, t)
  <2>1. \A f \in Names : m.shared[f] =
           IF m.kind[t] = "connect" /\ f = m.offer[t].field THEN t ELSE View.shared[f]
    BY <1>2, ViewParts
  <2>2. View.disturbed \subseteq m.disturbed
    BY <1>2, <1>4, ViewParts
  <2>q. QED BY <1>2, <1>5, <1>6, <1>10, <2>1, <2>2 DEF Begins
<1>12. ViewInv(m)
  BY <1>1, <1>3, <1>11, BeginsKeeps
<1>13. Here(m, t)
  <2>1. CASE call.kind = "connect"
    <3> DEFINE b == View'.offer[t].base
               e == b + View'.offer[t].width - 1
    <3>1. b \in Slots /\ b \in Nat /\ e \in Nat /\ b <= e
      BY <2>1, OfferTypes
    <3>2. m.from[t] = b /\ m.upto[t] = e
      BY <1>2, <2>1
    <3> HIDE DEF b, e
    <3>q. QED BY <1>2, <3>1, <3>2 DEF Here, Todo
  <2>2. CASE call.kind = "channel"
    <3>1. call.upto \in Nat
      BY DEF CallRecords
    <3>q. QED BY <1>2, <2>2, <3>1 DEF Here, Todo
  <2>q. QED BY <2>1, <2>2
<1>q. QED BY <1>12, <1>13 DEF m

(* A new call has released its first slot, or waits for the release.       *)
LEMMA CallReleases ==
    ASSUME RuntimeInv, RuntimeTypes', NEW t \in Calls, NEW call \in CallRecords,
           NEW reach \in SUBSET Slots, Call(t, call.kind, reach),
           call.target = None, call.affected = {},
           ViewInv(Noted(t, call)), Here(Noted(t, call), t),
           Release(t, call, shared'),
           \A a \in Calls : /\ adapters'[a].link = adapters[a].link
                            /\ adapters'[a].connecting = adapters[a].connecting
    PROVE  RuntimeInv'
<1>1. RuntimeTypes /\ Numbered
  BY InvParts
<1>2. View'.link = View.link
  BY SameParts
<1>3. Before(Noted(t, call), t, call) /\ Noted(t, call).shared = shared'
  BY <1>2, NotedParts, NextParts DEF Before
<1>4. ViewInv(View')
  BY <1>1, <1>3, ReleaseKeeps
<1>5. Numbered'
  <2>1. made' = t /\ t = made + 1
    BY CallSteps
  <2>2. /\ calls'[t].at \in {"ready", "releasing"}
        /\ \A u \in Calls : u # t => calls'[u] = calls[u]
    BY <1>1, ReleaseStage
  <2>3. calls[t].at = "unused"
    <3>1. t > made
      BY <1>1, <2>1 DEF RuntimeTypes
    <3>q. QED BY <1>1, <3>1 DEF Numbered
  <2>4. adapters'[t].connecting <=> calls'[t].at = "connecting"
    BY <1>1, <2>2, <2>3 DEF Numbered
  <2>q. QED BY <1>1, <2>1, <2>2, <2>4, NumberedKept
<1>q. QED BY <1>4, <1>5 DEF RuntimeInv

LEMMA ConnectStep ==
    ASSUME RuntimeInv, NEW t \in Calls, NEW offer \in Offers, Connect(t, offer)
    PROVE  RuntimeInv'
<1> DEFINE n == offer.base + offer.width - 1
           call == [NoCall EXCEPT !.kind = "connect", !.from = offer.base, !.upto = n]
           reach == Reach(SlotsOf(offer))
<1>1. RuntimeTypes /\ Numbered /\ ViewInv(View) /\ ViewTypes(View)
  BY InvParts
<1>2. /\ Call(t, "connect", reach) /\ adapters' = [adapters EXCEPT ![t].offer = offer]
      /\ shared' = [f \in DOMAIN shared |-> IF f = offer.field THEN t ELSE shared[f]]
      /\ Release(t, call, shared')
  BY DEF Connect
<1>3. reach \in SUBSET Slots
  BY OfferTypes, ReachZone
<1>4. RuntimeTypes'
  BY ConnectTypes
<1>5. n \in Nat /\ offer.base \in Nat
  BY OfferTypes
<1> HIDE DEF n, reach
<1>6. /\ call.kind = "connect" /\ call.fields = <<>>
      /\ call.from = offer.base /\ call.upto = n /\ call.target = None
      /\ call.affected = {}
  BY DEF NoCall
<1>7. call \in CallRecords
  BY <1>5, CallTypes DEF CallRecords
<1> HIDE DEF call
<1>8. \A a \in Calls : /\ adapters'[a].link = adapters[a].link
                       /\ adapters'[a].connecting = adapters[a].connecting
                       /\ adapters'[a].offer = IF a = t THEN offer ELSE adapters[a].offer
  BY <1>1, <1>2 DEF RuntimeTypes, AdapterTypes
<1>9. \A a \in Calls : View'.offer[a] = IF a = t THEN offer ELSE View.offer[a]
  BY <1>8, ViewParts, NextParts
<1>10. \A f \in Names : shared'[f] = IF f = View'.offer[t].field THEN t ELSE shared[f]
  BY <1>1, <1>2, <1>9 DEF RuntimeTypes
<1>11. /\ View'.offer[t] \in Offers /\ reach = Reach(SlotsOf(View'.offer[t]))
       /\ call.from = View'.offer[t].base
       /\ call.upto = View'.offer[t].base + View'.offer[t].width - 1
  BY <1>6, <1>9 DEF n, reach
<1>12. ViewInv(Noted(t, call)) /\ Here(Noted(t, call), t)
  <2>1. Call(t, call.kind, reach) /\ call.kind \in {"connect", "channel"}
    BY <1>2, <1>6
  <2>2. /\ \A a \in Calls : a # t => View'.offer[a] = View.offer[a]
        /\ \A f \in Names : shared'[f] =
              IF call.kind = "connect" /\ f = View'.offer[t].field THEN t ELSE shared[f]
    BY <1>6, <1>9, <1>10
  <2>3. call.kind # "channel"
    BY <1>6
  <2> HIDE DEF reach
  <2>q. QED BY <1>3, <1>4, <1>6, <1>7, <1>11, <2>1, <2>2, <2>3, NotedKeeps
<1>q. QED BY <1>2, <1>3, <1>4, <1>6, <1>7, <1>8, <1>12, CallReleases

LEMMA DisconnectChannelStep ==
    ASSUME RuntimeInv, NEW t \in Calls, NEW c \in Slots, DisconnectChannel(t, c)
    PROVE  RuntimeInv'
<1> DEFINE call == [NoCall EXCEPT !.kind = "channel", !.from = c, !.upto = c]
<1>1. /\ Call(t, "channel", Reach({c})) /\ UNCHANGED <<shared, adapters>>
      /\ Release(t, call, shared')
  BY DEF DisconnectChannel
<1>2. Reach({c}) \in SUBSET Slots /\ c \in Nat
  BY ReachZone, BoundsAssumption DEF Slots
<1>3. RuntimeTypes'
  BY DisconnectChannelTypes
<1>4. /\ call.kind = "channel" /\ call.fields = <<>>
      /\ call.from = c /\ call.upto = c /\ call.target = None /\ call.affected = {}
  BY DEF NoCall
<1>5. call \in CallRecords
  BY <1>2, CallTypes DEF CallRecords
<1> HIDE DEF call
<1>6. \A a \in Calls : /\ adapters'[a].link = adapters[a].link
                       /\ adapters'[a].connecting = adapters[a].connecting
                       /\ View'.offer[a] = View.offer[a]
  BY <1>1, ViewParts, NextParts
<1>7. ViewInv(Noted(t, call)) /\ Here(Noted(t, call), t)
  BY <1>1, <1>2, <1>3, <1>4, <1>5, <1>6, NotedKeeps
<1>q. QED BY <1>1, <1>2, <1>3, <1>4, <1>5, <1>6, <1>7, CallReleases

LEMMA DisconnectStep ==
    ASSUME RuntimeInv, NEW t \in Calls, Disconnect(t)
    PROVE  RuntimeInv'
<1> DEFINE call == [NoCall EXCEPT !.kind = "all", !.at = "stopping",
                                  !.fields = Fields, !.upto = Channels]
<1>1. RuntimeTypes /\ Numbered /\ ViewInv(View) /\ ViewTypes(View)
  BY InvParts
<1>2. /\ Call(t, "all", Slots) /\ calls' = [calls EXCEPT ![t] = call]
      /\ UNCHANGED <<slots, shared, adapters, heard, rates>>
  BY DEF Disconnect
<1>3. RuntimeTypes'
  BY DisconnectTypes
<1>4. /\ call.kind = "all" /\ call.at = "stopping" /\ call.fields # <<>>
      /\ call.from = 1 /\ call.upto = Channels /\ call.target = None
      /\ call.affected = {}
  BY DEF NoCall, Fields
<1> HIDE DEF call
<1>5. /\ calls'[t] = call /\ \A u \in Calls : u # t => calls'[u] = calls[u]
      /\ Others(View, View', t)
  BY <1>1, <1>2, OnlyCall
<1>6. /\ made' = t /\ t = made + 1
      /\ disturbed' = disturbed \cup Meets("all", Slots)
  BY <1>2, CallSteps
<1>7. View.at[t] = "unused" /\ calls[t].at = "unused"
  <2>1. t > made
    BY <1>1, <1>6 DEF RuntimeTypes
  <2>q. QED BY <1>1, <2>1, ViewParts DEF Numbered
<1>8. Numbered'
  <2>1. adapters'[t].connecting <=> calls'[t].at = "connecting"
    BY <1>1, <1>2, <1>4, <1>5, <1>7 DEF Numbered
  <2>q. QED BY <1>1, <1>2, <1>4, <1>5, <1>6, <2>1, NumberedKept
<1>9. Still(View, View') /\ View'.state = View.state /\ View'.link = View.link
      /\ View'.rates = View.rates
  BY <1>2, <1>6, StillParts, SameParts, ViewParts, NextParts
<1>10. /\ View'.kind[t] = "all" /\ View'.at[t] = "stopping" /\ View'.fields[t] # <<>>
       /\ View'.from[t] = 1 /\ View'.upto[t] = Channels /\ View'.target[t] = None
       /\ View'.affected[t] = {}
  BY <1>4, <1>5, NextParts
<1>11. ASSUME NEW u \in Calls, NEW d \in Slots, u # t, Live(View', u),
              d \in Area(View', u)
       PROVE  /\ d \in View'.disturbed
              /\ View'.kind[u] # "all" => Area(View', u) \subseteq View'.disturbed
  <2>1. SameCall(View, View', u)
    BY <1>5, <1>11 DEF Others
  <2>2. Live(View, u) /\ Area(View', u) = Area(View, u)
    <3>1. Mine(View', u) = Mine(View, u)
      BY <1>9 DEF Still, Mine
    <3>2. Work(View', u) = Work(View, u)
      BY <2>1, <3>1 DEF Work, SameCall
    <3>3. Area(View', u) = Area(View, u)
      BY <1>9, <2>1, <3>2 DEF Area, Zone, SameCall, Still
    <3>q. QED BY <1>11, <2>1, <3>3, SameCallFacts
  <2>3. View'.kind[u] = calls[u].kind
    BY <2>1, ViewParts DEF SameCall
  <2>4. /\ d \in disturbed'
        /\ calls[u].kind # "all" => Area(View, u) \subseteq disturbed'
    BY <1>2, <1>11, <2>2, CallMeets
  <2>q. QED BY <2>2, <2>3, <2>4, NextParts
<1>12. Begins(View, View', t)
  <2>1. Asks(View, View', t)
    BY <1>10 DEF Asks
  <2>q. QED BY <1>5, <1>7, <1>9, <1>10, <1>11, <2>1 DEF Begins, Still
<1>13. ViewInv(View')
  BY <1>1, <1>3, <1>12, BeginsKeeps, NextTyped
<1>q. QED BY <1>3, <1>8, <1>13 DEF RuntimeInv

-----------------------------------------------------------------------------
(* A step that concerns the capture alone.                                 *)
LEMMA RuntimeUntouched ==
    ASSUME RuntimeInv, UNCHANGED runtimeVars
    PROVE  RuntimeInv'
<1>1. UNCHANGED <<slots, shared, adapters, heard, calls, rates, made, faults, disturbed>>
  BY DEF runtimeVars
<1>2. View' = View
  BY <1>1 DEF View
<1>3. RuntimeTypes' /\ Numbered'
  BY <1>1 DEF RuntimeInv, RuntimeTypes, Numbered
<1>4. ViewInv(View')
  BY <1>2 DEF RuntimeInv
<1>q. QED BY <1>3, <1>4 DEF RuntimeInv

LEMMA RuntimeStep ==
    ASSUME RuntimeInv, [Next]_vars
    PROVE  RuntimeInv'
<1>1. CASE UNCHANGED vars
  BY <1>1, RuntimeUntouched DEF vars, runtimeVars
<1>2. CASE Operate \/ FrameArrives \/ CaptureProceeds
  <2>1. UNCHANGED runtimeVars
    BY <1>2 DEF Operate, FrameArrives, CaptureProceeds, runtimeVars
  <2>q. QED BY <2>1, RuntimeUntouched
<1>3. ASSUME NEW t \in Calls,
             \/ \E offer \in Offers : Connect(t, offer)
             \/ \E c \in Slots : DisconnectChannel(t, c)
             \/ Disconnect(t) \/ Stopped(t) \/ NextField(t) \/ NextChannel(t)
             \/ Released(t) \/ ReleaseThrows(t) \/ Finished(t)
             \/ Install(t) \/ Connected(t) \/ ConnectFails(t)
             \/ \E state \in {"error", "disconnected"} : Breaks(t, state)
      PROVE  RuntimeInv'
  BY <1>3, ConnectStep, DisconnectChannelStep, DisconnectStep, StoppedStep,
     NextFieldStep, NextChannelStep, ReleasedStep, EndStep, InstallStep, AnswerStep,
     BreaksStep
<1>q. QED BY <1>1, <1>2, <1>3 DEF Next

LEMMA RuntimeInit == Init => RuntimeInv
<1> SUFFICES ASSUME Init PROVE RuntimeInv
  OBVIOUS
<1>1. /\ slots = [c \in Slots |-> [adapter |-> None, state |-> "disconnected",
                                   subscription |-> None]]
      /\ shared = [f \in {"canalyst", "lys", "pair"} |-> None]
      /\ adapters = [a \in Calls |-> [offer |-> NoOffer, link |-> "closed",
                                      connecting |-> FALSE]]
      /\ heard = {} /\ calls = [t \in Calls |-> NoCall] /\ rates = FALSE
      /\ made = 0 /\ faults = 0 /\ disturbed = {}
  BY DEF Init
<1>2. RuntimeTypes
  <2>1. slots \in SlotTypes
    BY <1>1 DEF SlotTypes, States
  <2>2. adapters \in AdapterTypes
    <3> DEFINE unused == [offer |-> NoOffer, link |-> "closed", connecting |-> FALSE]
    <3>1. unused \in [offer : Offers \cup {NoOffer}, link : {"closed", "open", "broken"},
                      connecting : BOOLEAN]
      OBVIOUS
    <3> HIDE DEF unused
    <3>2. adapters = [a \in Calls |-> unused]
      BY <1>1 DEF unused
    <3>q. QED BY <3>1, <3>2 DEF AdapterTypes
  <2>3. calls \in [Calls -> CallRecords]
    BY <1>1, CallTypes
  <2>4. shared \in [Names -> {None} \cup Calls]
    BY <1>1 DEF Names
  <2>5. made \in 0 .. MaxCalls /\ faults \in 0 .. MaxFaults
    BY <1>1, BoundsAssumption
  <2>q. QED BY <1>1, <2>1, <2>2, <2>3, <2>4, <2>5 DEF RuntimeTypes
<1>3. Numbered
  BY <1>1, BoundsAssumption DEF Numbered, NoCall, Calls
<1>4. /\ View.heard = {}
      /\ \A c \in Slots : /\ View.holder[c] = None /\ View.source[c] = None
                          /\ View.state[c] = "disconnected"
      /\ \A f \in Names : View.shared[f] = None
      /\ \A t \in Calls : /\ View.at[t] = "unused" /\ View.kind[t] = "none"
                          /\ View.offer[t] = NoOffer /\ View.link[t] = "closed"
                          /\ View.affected[t] = {}
  BY <1>1, ViewParts DEF NoCall, Names
<1>5. \A t \in Calls : ~Live(View, t) /\ ~Busy(View, t)
  BY <1>4 DEF Live, Busy
<1>6. Shape(View)
  BY <1>4, <1>5 DEF Shape, CallShape
<1>7. Place(View) /\ Apart(View)
  BY <1>4, <1>5 DEF Place, Apart
<1>8. HolderInv(View)
  BY <1>4 DEF HolderInv, HeldWhole, HeardHeld, FreedEmpty, Covered, Intact
<1>9. ShownInv(View)
  BY <1>4 DEF ShownInv, ShownLive, PassedQuiet, LinkShown, Intact
<1>10. CallInv(View)
  BY <1>4, <1>5 DEF CallInv, AffectedOwn, AffectedSilent, PassedApart, ClaimsField, Intact
<1>q. QED BY <1>2, <1>3, <1>6, <1>7, <1>8, <1>9, <1>10, ViewTyped
          DEF RuntimeInv, ViewInv

-----------------------------------------------------------------------------
(* The inductive invariant of the slots, whatever is connected.            *)
THEOREM RuntimeInvariant == Spec => []RuntimeInv
<1>1. RuntimeInv /\ [Next]_vars => RuntimeInv'
  BY RuntimeStep
<1>q. QED BY <1>1, RuntimeInit, PTL DEF Spec

ActsTyped == acts \in Nat

LEMMA ActsCounted == ActsTyped /\ [Next]_vars => ActsTyped'
<1> SUFFICES ASSUME acts \in Nat, [Next]_vars PROVE acts' \in Nat
  BY DEF ActsTyped
<1>1. CASE UNCHANGED vars
  BY <1>1 DEF vars
<1>2. CASE Operate \/ FrameArrives \/ CaptureProceeds
  <2>1. acts' = acts + 1 \/ acts' = acts
    BY <1>2 DEF Operate, FrameArrives, CaptureProceeds
  <2>q. QED BY <2>1
<1>3. ASSUME NEW t \in Calls,
             \/ \E offer \in Offers : Connect(t, offer)
             \/ \E c \in Slots : DisconnectChannel(t, c)
             \/ Disconnect(t) \/ Stopped(t) \/ NextField(t) \/ NextChannel(t)
             \/ Released(t) \/ ReleaseThrows(t) \/ Finished(t)
             \/ Install(t) \/ Connected(t) \/ ConnectFails(t)
             \/ \E state \in {"error", "disconnected"} : Breaks(t, state)
      PROVE  acts' \in Nat
  <2>1. acts' = acts
    BY <1>3 DEF Connect, DisconnectChannel, Disconnect, Stopped, NextField, NextChannel,
       Released, ReleaseThrows, Finished, Install, Connected, ConnectFails, Breaks
  <2>q. QED BY <2>1
<1>q. QED BY <1>1, <1>2, <1>3 DEF Next

(* Every variable of the runtime and of the capture stays in its domain,   *)
(* and a call that waits for adapter.disconnect() has an adapter.          *)
THEOREM RuntimeTypeCorrect == Spec => []TypeOK
<1>1. Spec => []ActsTyped
  <2>1. Init => ActsTyped
    BY DEF Init, ActsTyped
  <2>q. QED BY <2>1, ActsCounted, PTL DEF Spec
<1>2. RuntimeInv /\ CaptureInv /\ ActsTyped => TypeOK
  <2> SUFFICES ASSUME RuntimeInv, CaptureInv, ActsTyped PROVE TypeOK
    OBVIOUS
  <2>1. RuntimeTypes /\ \A t \in Calls : CallShape(View, t)
    BY InvParts
  <2>2. D!TypeOK
    BY DEF CaptureInv
  <2>3. ASSUME NEW t \in Calls
        PROVE  /\ calls[t].target \in {None} \cup Calls
               /\ calls[t].at = "releasing" => calls[t].target \in Calls
    <3>1. calls[t].target \in {None} \cup Calls
      BY <2>1 DEF RuntimeTypes, CallRecords
    <3>2. calls[t].at = "releasing" => calls[t].target \in Calls
      BY <2>1, ViewParts DEF CallShape
    <3>q. QED BY <3>1, <3>2
  <2>4. /\ slots \in [Slots -> [adapter : {None} \cup Calls,
                                state : {"disconnected", "connecting",
                                         "connected", "error"},
                                subscription : {None} \cup Calls]]
        /\ shared \in [{"canalyst", "lys", "pair"} -> {None} \cup Calls]
        /\ adapters \in [Calls -> [offer : Offers \cup {NoOffer},
                                   link : {"closed", "open", "broken"},
                                   connecting : BOOLEAN]]
    BY <2>1 DEF RuntimeTypes, SlotTypes, States, AdapterTypes, Names
  <2>5. /\ heard \subseteq Calls /\ rates \in BOOLEAN
        /\ made \in 0 .. MaxCalls /\ faults \in 0 .. MaxFaults
        /\ disturbed \subseteq Slots
    BY <2>1 DEF RuntimeTypes
  <2>q. QED BY <2>2, <2>3, <2>4, <2>5 DEF TypeOK, ActsTyped
<1>q. QED BY <1>1, <1>2, RuntimeInvariant, CaptureInvariant, PTL

(* What the parts of the invariant say of a slot, and of an adapter.       *)
LEMMA SlotShown ==
    ASSUME RuntimeInv, NEW c \in Slots \ disturbed
    PROVE  ShownIsSo(c)
<1>1. ViewInv(View) /\ ViewTypes(View) /\ RuntimeTypes
  BY InvParts
<1>2. c \in Intact(View) /\ c \in Slots
  BY ViewParts DEF Intact
<1>3. ASSUME slots[c].state = "connected", AtRest(c)
      PROVE  /\ slots[c].adapter \in heard /\ rates
             /\ adapters[slots[c].adapter].link = "open"
  <2>1. ~Pending(View, c)
    <3> SUFFICES ASSUME NEW t \in Calls, Live(View, t),
                        c \in Todo(View, t) \cup View.affected[t]
                 PROVE  FALSE
      BY DEF Pending
    <3>1. c \in Area(View, t)
      BY <1>1, AreaFacts DEF ViewInv
    <3>2. Active(t) /\ c \in ReachOf(t)
      BY <3>1, ReachArea
    <3>q. QED BY <1>3, <3>2 DEF AtRest
  <2>2. View.state[c] = "connected"
    BY <1>2, <1>3, ViewParts
  <2>3. /\ View.holder[c] \in View.heard /\ View.rates = TRUE
        /\ View.link[View.holder[c]] = "open"
    BY <1>1, <1>2, <2>1, <2>2 DEF ViewInv, ShownInv, ShownLive
  <2>4. slots[c].adapter \in heard /\ slots[c].adapter = View.holder[c]
    BY <1>2, <2>3, ViewParts
  <2>5. slots[c].adapter \in Calls
    BY <1>1, <2>4 DEF RuntimeTypes
  <2>6. adapters[slots[c].adapter].link = "open"
    BY <2>3, <2>4, <2>5, ViewParts
  <2>7. rates = TRUE
    BY <2>3, ViewParts
  <2>q. QED BY <2>4, <2>6, <2>7
<1>4. ASSUME NEW a \in heard, c \in SlotsOf(adapters[a].offer)
      PROVE  slots[c].adapter = a
  <2>1. a \in Calls
    BY <1>1 DEF RuntimeTypes
  <2>2. a \in View.heard /\ c \in Mine(View, a)
    BY <1>4, <2>1, ViewParts DEF Mine
  <2>3. View.holder[c] = a
    BY <1>1, <1>2, <2>2 DEF ViewInv, HolderInv, HeardHeld
  <2>q. QED BY <1>2, <2>3, ViewParts
<1>q. QED BY <1>3, <1>4 DEF ShownIsSo

LEMMA LinkIsShown ==
    ASSUME RuntimeInv, NEW a \in Calls, SlotsOf(adapters[a].offer) \cap disturbed = {}
    PROVE  IsShown(a)
<1>1. ViewInv(View) /\ Numbered
  BY InvParts
<1>2. Mine(View, a) = SlotsOf(adapters[a].offer) /\ Mine(View, a) \subseteq Slots
  <2>1. Mine(View, a) \subseteq Slots
    BY <1>1, AreaFacts DEF ViewInv
  <2>q. QED BY <2>1, ViewParts DEF Mine
<1>3. Mine(View, a) \subseteq Intact(View)
  BY <1>2, ViewParts DEF Intact
<1>4. /\ View.at[a] = "connecting" => \A d \in Mine(View, a) : View.holder[d] = a
      /\ View.link[a] = "open" =>
            \/ \A d \in Mine(View, a) : View.holder[d] = a
            \/ \E t \in Calls : View.at[t] = "releasing" /\ View.target[t] = a
  BY <1>1, <1>3 DEF ViewInv, ShownInv, LinkShown
<1>5. adapters[a].connecting => View.at[a] = "connecting"
  BY <1>1, ViewParts DEF Numbered
<1>6. \A d \in Mine(View, a) : View.holder[d] = slots[d].adapter
  BY <1>2, ViewParts
<1>q. QED BY <1>2, <1>4, <1>5, <1>6, ViewParts DEF IsShown

(* What the slots show is so, and what is so they show, on every slot on   *)
(* which no calls met and no disconnect threw: for any number of slots,    *)
(* calls and faults and any adapters that can be connected.                *)
THEOREM SlotsAreTruthful == Spec => []SlotsTruthful
<1>1. RuntimeInv => SlotsTruthful
  BY SlotShown, LinkIsShown DEF SlotsTruthful
<1>q. QED BY <1>1, RuntimeInvariant, PTL
=============================================================================
