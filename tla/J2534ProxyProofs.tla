--------------------------- MODULE J2534ProxyProofs ---------------------------
(***************************************************************************)
(* Proofs about J2534Proxy for any number of threads, calls, records in a  *)
(* group, faults and processes.                                            *)
(***************************************************************************)
EXTENDS J2534Proxy, FiniteSetTheorems, SequenceTheorems, WellFoundedInduction, TLAPS

(* TypeOK in four parts, for the provers.                                  *)
FlagsOK ==
    /\ force \in BOOLEAN /\ aged \in BOOLEAN /\ exists \in BOOLEAN
    /\ policy \in [Threads -> BOOLEAN]

ThreadsOK ==
    /\ init \in {"new", "running", "ready", "failed"}
    /\ recorder \in Threads \cup {NoThread}
    /\ \A t \in Threads : recorder = t <=> pc[t] \in Recording
    /\ pc \in [Threads -> Labels] /\ api \in [Threads -> Apis]
    /\ call \in [Threads -> 0 .. MaxCalls]

TraceOK ==
    /\ sequence \in Nat /\ calls \in 0 .. MaxCalls /\ records \in Nat
    /\ file \in Seq(Row) /\ durable \in 0 .. Len(file)

HistoryOK ==
    /\ process \in 1 .. MaxProcesses
    /\ forwarded \in SUBSET [call : 0 .. MaxCalls, api : Apis, policy : BOOLEAN]
    /\ reported \subseteq 0 .. MaxCalls
    /\ writeFaults \in 0 .. MaxFaults /\ flushFaults \in 0 .. MaxFaults

(* The inductive invariant. There is room for a number for every call that *)
(* will take one.                                                          *)
CallsBounded ==
    /\ IsFiniteSet(Unnumbered)
    /\ calls + Cardinality(Unnumbered) <= MaxCalls

(* Where threads are while the proxy is initialised, and who does it.      *)
Opening == {"open", "session", "sessionFlush"}
InCall == {"begin", "beginFlush", "forward", "provider", "end", "endFlush"}

StagesInv ==
    /\ \A t \in Threads : pc[t] \in Opening => init = "running"
    /\ \A t \in Threads : pc[t] \in InCall => init = "ready"
    /\ \A t, u \in Threads : (pc[t] \in Opening /\ pc[u] \in Opening) => t = u

(* The session record comes first, and nothing happens before it.          *)
HasSession == file # <<>> /\ file[1] = Session(0)

SessionInv ==
    /\ ~exists => file = <<>>
    /\ init # "ready" => forwarded = {}
    /\ init = "new" => sequence = 0
    /\ \A t \in Threads :
          /\ pc[t] \in {"open", "session"} => sequence = 0
          /\ pc[t] = "session" => file = <<>> /\ exists
          /\ pc[t] = "sessionFlush" => HasSession
    /\ init = "ready" => HasSession

(* What is due: an uncommitted boundary makes a commit due, and a commit    *)
(* that is due is not overlooked unless its flush failed.                  *)
OwnTrace == init = "ready" \/ \E t \in Threads : pc[t] = "sessionFlush"

DueInv ==
    /\ force => records # 0
    /\ (recorder = NoThread /\ force) => flushFaults # 0
    /\ OwnTrace =>
          \A i \in durable + 1 .. Len(file) :
              IsImmediateCommitBoundary(file[i]) => force

(* The records of a call are in the file when it goes on.                  *)
HasBegin(c) ==
    \E i \in 1 .. Len(file) :
        /\ file[i].type = "callBegin" /\ file[i].call = c.call
        /\ file[i].api = c.api /\ file[i].policy = c.policy

BeginInv ==
    writeFaults = 0 =>
        /\ \A t \in Threads :
              pc[t] \in {"beginFlush", "forward"} => HasBegin(Calling(t))
        /\ \A f \in forwarded : HasBegin(f)

VoltageInv == \A f \in forwarded : f.api = "voltage" => f.policy

HasEnd(c, n) == \E i \in 1 .. n : file[i].type = "callEnd" /\ file[i].call = c

EndInv ==
    /\ \A t \in Threads :
          (pc[t] = "endFlush" /\ api[t] # "ordinary") => force
    /\ writeFaults = 0 =>
          \A t \in Threads : pc[t] = "endFlush" => HasEnd(call[t], Len(file))
    /\ (writeFaults = 0 /\ flushFaults = 0) =>
          \A c \in reported : HasEnd(c, durable)

(* A record that is not committed is counted, so a group that is full is   *)
(* committed before the mutex is released.                                 *)
GroupInv ==
    flushFaults = 0 =>
        /\ Cardinality(Uncommitted) <= MaxRecords
        /\ OwnTrace => Cardinality(Uncommitted) <= records
        /\ records <= MaxRecords
        /\ recorder = NoThread => records < MaxRecords

IInv ==
    /\ TypeOK /\ CallsBounded
    /\ StagesInv /\ SessionInv /\ DueInv
    /\ BeginInv /\ VoltageInv /\ EndInv /\ GroupInv

-----------------------------------------------------------------------------
USE DEF globals, flushPolicy, threads, disk, history, vars

LEMMA TypeParts == TypeOK <=> FlagsOK /\ ThreadsOK /\ TraceOK /\ HistoryOK
  BY Zenon DEF TypeOK, FlagsOK, ThreadsOK, TraceOK, HistoryOK

(* Facts about the rows of a trace.                                        *)
LEMMA RowTypes ==
    ASSUME NEW n \in Nat, NEW c \in Nat, NEW a \in Apis, NEW p \in BOOLEAN
    PROVE  /\ Session(n) \in Row /\ Torn \in Row
           /\ CallBegin(n, c, a, p) \in Row /\ CallEnd(n, c, a) \in Row
  BY DEF Row, Session, Torn, CallBegin, CallEnd

LEMMA FileLength ==
    ASSUME NEW s \in Seq(Row)
    PROVE  /\ Len(s) \in Nat /\ DOMAIN s = 1 .. Len(s)
           /\ \A i \in 1 .. Len(s) : s[i] \in Row
           /\ s = <<>> <=> Len(s) = 0
  BY LenProperties, ElementOfSeq, EmptySeq

LEMMA FileAppend ==
    ASSUME NEW s \in Seq(Row), NEW row \in Row
    PROVE  /\ Append(s, row) \in Seq(Row)
           /\ Len(Append(s, row)) = Len(s) + 1
           /\ \A i \in 1 .. Len(s) : Append(s, row)[i] = s[i]
           /\ Append(s, row)[Len(s) + 1] = row
  BY AppendProperties, LenProperties

LEMMA FirstRow ==
    ASSUME NEW row \in Row
    PROVE  Append(<<>>, row) # <<>> /\ Append(<<>>, row)[1] = row
<1>1. <<>> \in Seq(Row) /\ Len(<<>>) = 0
  BY EmptySeq
<1>2. Append(<<>>, row) \in Seq(Row) /\ Len(Append(<<>>, row)) = 1
      /\ Append(<<>>, row)[1] = row
  BY <1>1, FileAppend
<1> QED
  BY <1>1, <1>2, FileLength

LEMMA FileCut ==
    ASSUME NEW s \in Seq(Row), NEW n \in 0 .. Len(s)
    PROVE  /\ SubSeq(s, 1, n) \in Seq(Row)
           /\ Len(SubSeq(s, 1, n)) = n
           /\ \A i \in 1 .. n : SubSeq(s, 1, n)[i] = s[i]
<1>1. Len(s) \in Nat /\ \A i \in 1 .. n : s[i] \in Row
  BY FileLength
<1> QED
  BY <1>1, SubSeqProperties

-----------------------------------------------------------------------------
(* The reader of a trace. A set of numbers has a smallest one: what is     *)
(* said of all rows is shown at the first for which it would not hold.     *)
LEMMA Smallest ==
    ASSUME NEW T, T \subseteq Nat, T # {}
    PROVE  \E x \in T : \A y \in T : x <= y
<1> DEFINE R == OpToRel(<, Nat)
<1>1. R = {p \in Nat \X Nat : p[1] < p[2]}
  BY DEF OpToRel
<1>2. IsWellFoundedOn(R, Nat)
  BY NatLessThanWellFounded
<1> HIDE DEF R
<1>3. \E x \in T : \A y \in T : ~(<<y, x>> \in R)
  BY <1>2, WFMin
<1>4. \A x, y \in Nat : ~(<<y, x>> \in R) => x <= y
  BY <1>1
<1> QED
  BY <1>3, <1>4

LEMMA UnderWayIs ==
    ASSUME NEW rows, NEW n, NEW c
    PROVE  c \in UnderWay(rows, n) <=> BegunBy(rows, n, c)
  BY DEF UnderWay, BegunBy

LEMMA NextUnderWay ==
    ASSUME NEW rows, NEW n \in Nat
    PROVE  UnderWay(rows, n + 1) =
              CASE rows[n + 1].type = "callBegin" ->
                      UnderWay(rows, n) \cup {Under(rows[n + 1])}
                [] rows[n + 1].type = "callEnd" ->
                      UnderWay(rows, n) \ {Under(rows[n + 1])}
                [] OTHER -> UnderWay(rows, n)
<1> SUFFICES ASSUME NEW c
             PROVE  BegunBy(rows, n + 1, c) <=>
                      IF rows[n + 1].type = "callBegin"
                      THEN BegunBy(rows, n, c) \/ c = Under(rows[n + 1])
                      ELSE IF rows[n + 1].type = "callEnd"
                           THEN BegunBy(rows, n, c) /\ c # Under(rows[n + 1])
                           ELSE BegunBy(rows, n, c)
  BY UnderWayIs, Zenon
<1>1. 1 .. n + 1 = (1 .. n) \cup {n + 1} /\ n + 1 \notin 1 .. n
  OBVIOUS
<1>2. \A j \in 1 .. n : j + 1 .. n + 1 = (j + 1 .. n) \cup {n + 1}
  OBVIOUS
<1>3. n + 1 + 1 .. n + 1 = {}
  OBVIOUS
<1> QED
  BY <1>1, <1>2, <1>3 DEF BegunBy

After(rows, n) ==
    [accepted |-> \A i \in 1 .. n : AcceptedAt(rows, i), expected |-> n,
     open |-> UnderWay(rows, n)]

LEMMA NextReading ==
    ASSUME NEW rows, NEW n \in Nat
    PROVE  ReadRow(After(rows, n), rows[n + 1]) = After(rows, n + 1)
<1>1. RowAccepted(After(rows, n), rows[n + 1]) <=> AcceptedAt(rows, n + 1)
  BY DEF AcceptedAt, RowAccepted, After
<1>2. (\A i \in 1 .. n + 1 : AcceptedAt(rows, i)) <=>
      (\A i \in 1 .. n : AcceptedAt(rows, i)) /\ AcceptedAt(rows, n + 1)
  <2>1. 1 .. n + 1 = (1 .. n) \cup {n + 1}
    OBVIOUS
  <2> QED
    BY <2>1, Zenon
<1>3. ReadRow(After(rows, n), rows[n + 1]).accepted = After(rows, n + 1).accepted
  BY <1>1, <1>2 DEF ReadRow, After
<1>4. ReadRow(After(rows, n), rows[n + 1]).open = After(rows, n + 1).open
  BY NextUnderWay DEF ReadRow, After, Under
<1> QED
  BY <1>3, <1>4 DEF ReadRow, After

LEMMA ReadingIs ==
    ASSUME NEW rows, Len(rows) \in Nat
    PROVE  \A n \in 0 .. Len(rows) : Reading(rows)[n] = After(rows, n)
<1> DEFINE step(g, n) == IF n = 0 THEN [accepted |-> TRUE, expected |-> 0, open |-> {}]
                                  ELSE ReadRow(g[n - 1], rows[n])
           f == [n \in 0 .. Len(rows) |-> After(rows, n)]
<1>1. After(rows, 0) = [accepted |-> TRUE, expected |-> 0, open |-> {}]
  <2>1. UnderWay(rows, 0) = {} /\ \A i \in 1 .. 0 : AcceptedAt(rows, i)
    BY DEF UnderWay
  <2>2. (\A i \in 1 .. 0 : AcceptedAt(rows, i)) = TRUE
    BY <2>1
  <2> QED
    BY <2>1, <2>2 DEF After
<1>2. \A n \in 0 .. Len(rows) : After(rows, n) = step(f, n)
  <2> SUFFICES ASSUME NEW n \in 0 .. Len(rows), n # 0 PROVE After(rows, n) = step(f, n)
    BY <1>1
  <2>1. n - 1 \in 0 .. Len(rows) /\ n - 1 \in Nat /\ (n - 1) + 1 = n
    OBVIOUS
  <2>2. f[n - 1] = After(rows, n - 1)
    BY <2>1
  <2>3. ReadRow(After(rows, n - 1), rows[(n - 1) + 1]) = After(rows, (n - 1) + 1)
    BY <2>1, NextReading
  <2> QED
    BY <2>1, <2>2, <2>3
<1>3. f = [n \in 0 .. Len(rows) |-> step(f, n)]
  BY <1>2
<1>4. Reading(rows) = CHOOSE g : g = [n \in 0 .. Len(rows) |-> step(g, n)]
  BY DEF Reading
<1> DEFINE r == Reading(rows)
<1>5. r = [n \in 0 .. Len(rows) |-> step(r, n)]
  BY <1>3, <1>4
<1> DEFINE T == {n \in 0 .. Len(rows) : r[n] # After(rows, n)}
<1> SUFFICES ASSUME T # {} PROVE FALSE
  OBVIOUS
<1>6. PICK n \in T : \A m \in T : n <= m
  <2>1. T \subseteq Nat
    OBVIOUS
  <2> HIDE DEF T
  <2> QED
    BY <2>1, Smallest
<1>7. r[n] = step(r, n)
  BY <1>5, <1>6
<1>8. n # 0
  BY <1>1, <1>6, <1>7
<1>9. n - 1 \in Nat /\ (n - 1) + 1 = n /\ n - 1 \in 0 .. Len(rows) /\ n - 1 \notin T
  BY <1>6, <1>8
<1>10. ReadRow(After(rows, n - 1), rows[n]) = After(rows, n)
  BY <1>9, NextReading
<1> QED
  BY <1>6, <1>7, <1>8, <1>9, <1>10

(* A trace is accepted when each of its rows is, after those before it.    *)
LEMMA ReadAsRows ==
    ASSUME NEW S, NEW rows \in Seq(S)
    PROVE  ReadTrace(rows) <=> rows # <<>> /\ \A i \in 1 .. Len(rows) : AcceptedAt(rows, i)
<1>1. Len(rows) \in Nat
  BY LenProperties
<1>2. Reading(rows)[Len(rows)] = After(rows, Len(rows))
  BY <1>1, ReadingIs
<1> QED
  BY <1>2 DEF ReadTrace, After

-----------------------------------------------------------------------------
(* Types *)

LEMMA InitTypes == Init => TypeOK
<1> SUFFICES ASSUME Init PROVE TypeOK
  OBVIOUS
<1> USE ProxyAssumption DEF Init
<1>1. FlagsOK
  BY Zenon DEF FlagsOK
<1>2. ThreadsOK
  BY DEF ThreadsOK, Recording, Labels, Apis
<1>3. TraceOK
  BY EmptySeq DEF TraceOK
<1>4. HistoryOK
  BY DEF HistoryOK
<1> QED
  BY <1>1, <1>2, <1>3, <1>4, TypeParts

LEMMA FlagsStep ==
    ASSUME FlagsOK, [Next]_vars
    PROVE  FlagsOK'
<1> USE DEF FlagsOK, IsImmediateCommitBoundary
<1>1. ASSUME NEW t \in Threads, Call(t) PROVE FlagsOK'
  BY <1>1, Zenon DEF Call, Go
<1>2. ASSUME NEW t \in Threads, Initialize(t) PROVE FlagsOK'
  BY <1>2, Zenon DEF Initialize, Go
<1>3. ASSUME NEW t \in Threads, OpenTrace(t) PROVE FlagsOK'
  BY <1>3, Zenon DEF OpenTrace, Go
<1>4. ASSUME NEW t \in Threads, WriteSession(t) PROVE FlagsOK'
  BY <1>4, Zenon DEF WriteSession, Go, WriteSucceeds, WriteFails
<1>5. ASSUME NEW t \in Threads, FlushSession(t) PROVE FlagsOK'
  BY <1>5, Zenon DEF FlushSession, Go, GroupCommit, FlushSucceeds, FlushFails
<1>6. ASSUME NEW t \in Threads, Refuse(t) PROVE FlagsOK'
  BY <1>6, Zenon DEF Refuse, Go
<1>7. ASSUME NEW t \in Threads, Admit(t) PROVE FlagsOK'
  BY <1>7, Zenon DEF Admit, Go
<1>8. ASSUME NEW t \in Threads, BeginCall(t) PROVE FlagsOK'
  BY <1>8, Zenon DEF BeginCall, Go, WriteSucceeds, WriteFails
<1>9. ASSUME NEW t \in Threads, FlushBegin(t) PROVE FlagsOK'
  BY <1>9, Zenon DEF FlushBegin, Go, GroupCommit, FlushSucceeds, FlushFails
<1>10. ASSUME NEW t \in Threads, Forward(t) PROVE FlagsOK'
  BY <1>10, Zenon DEF Forward, Go, Calling
<1>11. ASSUME NEW t \in Threads, ProviderReturns(t) PROVE FlagsOK'
  BY <1>11, Zenon DEF ProviderReturns, Go
<1>12. ASSUME NEW t \in Threads, EndCall(t) PROVE FlagsOK'
  BY <1>12, Zenon DEF EndCall, Go, WriteSucceeds, WriteFails, Report
<1>13. ASSUME NEW t \in Threads, FlushEnd(t) PROVE FlagsOK'
  BY <1>13, Zenon DEF FlushEnd, Go, GroupCommit, FlushSucceeds, FlushFails, Report
<1>14. CASE AgePasses
  BY <1>14, Zenon DEF AgePasses
<1>15. CASE ProcessDies
  BY <1>15, Zenon DEF ProcessDies, FreshProcess
<1>16. CASE PowerFails
  BY <1>16, Zenon DEF PowerFails, FreshProcess
<1>17. CASE UNCHANGED vars
  BY <1>17, Zenon
<1> QED
  BY <1>1, <1>2, <1>3, <1>4, <1>5, <1>6, <1>7, <1>8, <1>9, <1>10, <1>11, <1>12, <1>13, <1>14, <1>15, <1>16, <1>17, Zenon
  DEF Next, ThreadNext

(* The bound on the calls *)

LEMMA NumberFree ==
    ASSUME ThreadsOK, TraceOK, CallsBounded, NEW t \in Threads, pc[t] = "begin"
    PROVE  calls + 1 \in 0 .. MaxCalls
<1>1. t \in Unnumbered
  BY DEF Unnumbered
<1>2. Cardinality(Unnumbered) \in Nat /\ Cardinality(Unnumbered) # 0
  BY <1>1, FS_CardinalityType, FS_EmptySet DEF CallsBounded
<1> QED
  BY <1>2, ProxyAssumption DEF CallsBounded, TraceOK

LEMMA FewerCalls ==
    ASSUME TraceOK, CallsBounded, Unnumbered' \subseteq Unnumbered,
           calls' = calls \/ calls' = 0
    PROVE  CallsBounded'
<1>1. /\ IsFiniteSet(Unnumbered') /\ Cardinality(Unnumbered') \in Nat
      /\ Cardinality(Unnumbered) \in Nat
      /\ Cardinality(Unnumbered') <= Cardinality(Unnumbered)
  BY FS_Subset, FS_CardinalityType DEF CallsBounded
<1> QED
  BY <1>1, ProxyAssumption DEF CallsBounded, TraceOK

LEMMA CallsStep ==
    ASSUME ThreadsOK, TraceOK, CallsBounded, [Next]_vars
    PROVE  CallsBounded'
<1>1. ASSUME NEW t \in Threads, Call(t) PROVE CallsBounded'
  <2>1. Unnumbered' = Unnumbered \cup {t} /\ t \notin Unnumbered
    BY <1>1 DEF Call, Go, Unnumbered, ThreadsOK
  <2>2. calls + Cardinality(Unnumbered) < MaxCalls /\ calls' = calls
    BY <1>1 DEF Call
  <2>3. /\ IsFiniteSet(Unnumbered') /\ Cardinality(Unnumbered) \in Nat
        /\ Cardinality(Unnumbered') = Cardinality(Unnumbered) + 1
    BY <2>1, FS_AddElement, FS_CardinalityType DEF CallsBounded
  <2> QED
    BY <2>2, <2>3, ProxyAssumption DEF CallsBounded, TraceOK
<1>2. ASSUME NEW t \in Threads, Initialize(t) PROVE CallsBounded'
  <2>1. Unnumbered' \subseteq Unnumbered
    BY <1>2 DEF Initialize, Go, Unnumbered, ThreadsOK
  <2>2. calls' = calls \/ calls' = 0
    BY <1>2 DEF Initialize, Go
  <2> QED
    BY <2>1, <2>2, FewerCalls
<1>3. ASSUME NEW t \in Threads, OpenTrace(t) PROVE CallsBounded'
  <2>1. Unnumbered' \subseteq Unnumbered
    BY <1>3 DEF OpenTrace, Go, Unnumbered, ThreadsOK
  <2>2. calls' = calls \/ calls' = 0
    BY <1>3 DEF OpenTrace, Go
  <2> QED
    BY <2>1, <2>2, FewerCalls
<1>4. ASSUME NEW t \in Threads, WriteSession(t) PROVE CallsBounded'
  <2>1. Unnumbered' \subseteq Unnumbered
    BY <1>4 DEF WriteSession, Go, Unnumbered, ThreadsOK
  <2>2. calls' = calls \/ calls' = 0
    BY <1>4 DEF WriteSession, Go
  <2> QED
    BY <2>1, <2>2, FewerCalls
<1>5. ASSUME NEW t \in Threads, FlushSession(t) PROVE CallsBounded'
  <2>1. Unnumbered' \subseteq Unnumbered
    BY <1>5 DEF FlushSession, Go, Unnumbered, ThreadsOK
  <2>2. calls' = calls \/ calls' = 0
    BY <1>5 DEF FlushSession, Go
  <2> QED
    BY <2>1, <2>2, FewerCalls
<1>6. ASSUME NEW t \in Threads, Refuse(t) PROVE CallsBounded'
  <2>1. Unnumbered' \subseteq Unnumbered
    BY <1>6 DEF Refuse, Go, Unnumbered, ThreadsOK
  <2>2. calls' = calls \/ calls' = 0
    BY <1>6 DEF Refuse, Go
  <2> QED
    BY <2>1, <2>2, FewerCalls
<1>7. ASSUME NEW t \in Threads, Admit(t) PROVE CallsBounded'
  <2>1. Unnumbered' \subseteq Unnumbered
    BY <1>7 DEF Admit, Go, Unnumbered, ThreadsOK
  <2>2. calls' = calls \/ calls' = 0
    BY <1>7 DEF Admit, Go
  <2> QED
    BY <2>1, <2>2, FewerCalls
<1>8. ASSUME NEW t \in Threads, BeginCall(t) PROVE CallsBounded'
  <2>1. Unnumbered' = Unnumbered \ {t} /\ t \in Unnumbered
    BY <1>8 DEF BeginCall, Go, Unnumbered, ThreadsOK
  <2>2. calls' = calls + 1
    BY <1>8 DEF BeginCall
  <2>3. /\ IsFiniteSet(Unnumbered') /\ Cardinality(Unnumbered) \in Nat
        /\ Cardinality(Unnumbered') = Cardinality(Unnumbered) - 1
    BY <2>1, FS_RemoveElement, FS_CardinalityType DEF CallsBounded
  <2> QED
    BY <2>2, <2>3, ProxyAssumption DEF CallsBounded, TraceOK
<1>9. ASSUME NEW t \in Threads, FlushBegin(t) PROVE CallsBounded'
  <2>1. Unnumbered' \subseteq Unnumbered
    BY <1>9 DEF FlushBegin, Go, Unnumbered, ThreadsOK
  <2>2. calls' = calls \/ calls' = 0
    BY <1>9 DEF FlushBegin, Go
  <2> QED
    BY <2>1, <2>2, FewerCalls
<1>10. ASSUME NEW t \in Threads, Forward(t) PROVE CallsBounded'
  <2>1. Unnumbered' \subseteq Unnumbered
    BY <1>10 DEF Forward, Go, Unnumbered, ThreadsOK
  <2>2. calls' = calls \/ calls' = 0
    BY <1>10 DEF Forward, Go
  <2> QED
    BY <2>1, <2>2, FewerCalls
<1>11. ASSUME NEW t \in Threads, ProviderReturns(t) PROVE CallsBounded'
  <2>1. Unnumbered' \subseteq Unnumbered
    BY <1>11 DEF ProviderReturns, Go, Unnumbered, ThreadsOK
  <2>2. calls' = calls \/ calls' = 0
    BY <1>11 DEF ProviderReturns, Go
  <2> QED
    BY <2>1, <2>2, FewerCalls
<1>12. ASSUME NEW t \in Threads, EndCall(t) PROVE CallsBounded'
  <2>1. Unnumbered' \subseteq Unnumbered
    BY <1>12 DEF EndCall, Go, Unnumbered, ThreadsOK
  <2>2. calls' = calls \/ calls' = 0
    BY <1>12 DEF EndCall, Go
  <2> QED
    BY <2>1, <2>2, FewerCalls
<1>13. ASSUME NEW t \in Threads, FlushEnd(t) PROVE CallsBounded'
  <2>1. Unnumbered' \subseteq Unnumbered
    BY <1>13 DEF FlushEnd, Go, Unnumbered, ThreadsOK
  <2>2. calls' = calls \/ calls' = 0
    BY <1>13 DEF FlushEnd, Go
  <2> QED
    BY <2>1, <2>2, FewerCalls
<1>14. CASE AgePasses
  <2>1. Unnumbered' \subseteq Unnumbered
    BY <1>14 DEF AgePasses, Unnumbered, ThreadsOK
  <2>2. calls' = calls \/ calls' = 0
    BY <1>14 DEF AgePasses
  <2> QED
    BY <2>1, <2>2, FewerCalls
<1>15. CASE ProcessDies
  <2>1. Unnumbered' \subseteq Unnumbered
    BY <1>15 DEF ProcessDies, FreshProcess, Unnumbered, ThreadsOK
  <2>2. calls' = calls \/ calls' = 0
    BY <1>15 DEF ProcessDies, FreshProcess
  <2> QED
    BY <2>1, <2>2, FewerCalls
<1>16. CASE PowerFails
  <2>1. Unnumbered' \subseteq Unnumbered
    BY <1>16 DEF PowerFails, FreshProcess, Unnumbered, ThreadsOK
  <2>2. calls' = calls \/ calls' = 0
    BY <1>16 DEF PowerFails, FreshProcess
  <2> QED
    BY <2>1, <2>2, FewerCalls
<1>17. CASE UNCHANGED vars
  BY <1>17, FewerCalls DEF Unnumbered
<1> QED
  BY <1>1, <1>2, <1>3, <1>4, <1>5, <1>6, <1>7, <1>8, <1>9, <1>10, <1>11, <1>12, <1>13, <1>14, <1>15, <1>16, <1>17
  DEF Next, ThreadNext

LEMMA ThreadsStep ==
    ASSUME ThreadsOK, TraceOK, CallsBounded, [Next]_vars
    PROVE  ThreadsOK'
<1> USE ProxyAssumption DEF ThreadsOK, Recording, Labels, Apis, Go
<1>1. ASSUME NEW t \in Threads, Call(t) PROVE ThreadsOK'
  BY <1>1 DEF Call
<1>2. ASSUME NEW t \in Threads, Initialize(t) PROVE ThreadsOK'
  BY <1>2 DEF Initialize
<1>3. ASSUME NEW t \in Threads, OpenTrace(t) PROVE ThreadsOK'
  BY <1>3 DEF OpenTrace
<1>4. ASSUME NEW t \in Threads, WriteSession(t) PROVE ThreadsOK'
  BY <1>4 DEF WriteSession
<1>5. ASSUME NEW t \in Threads, FlushSession(t) PROVE ThreadsOK'
  BY <1>5 DEF FlushSession
<1>6. ASSUME NEW t \in Threads, Refuse(t) PROVE ThreadsOK'
  BY <1>6 DEF Refuse
<1>7. ASSUME NEW t \in Threads, Admit(t) PROVE ThreadsOK'
  BY <1>7 DEF Admit
<1>8. ASSUME NEW t \in Threads, BeginCall(t) PROVE ThreadsOK'
  BY <1>8, NumberFree DEF BeginCall
<1>9. ASSUME NEW t \in Threads, FlushBegin(t) PROVE ThreadsOK'
  BY <1>9 DEF FlushBegin
<1>10. ASSUME NEW t \in Threads, Forward(t) PROVE ThreadsOK'
  BY <1>10 DEF Forward, Calling
<1>11. ASSUME NEW t \in Threads, ProviderReturns(t) PROVE ThreadsOK'
  BY <1>11 DEF ProviderReturns
<1>12. ASSUME NEW t \in Threads, EndCall(t) PROVE ThreadsOK'
  BY <1>12 DEF EndCall, Report
<1>13. ASSUME NEW t \in Threads, FlushEnd(t) PROVE ThreadsOK'
  BY <1>13 DEF FlushEnd, Report
<1>14. CASE AgePasses
  BY <1>14 DEF AgePasses
<1>15. CASE ProcessDies
  BY <1>15 DEF ProcessDies, FreshProcess
<1>16. CASE PowerFails
  BY <1>16 DEF PowerFails, FreshProcess
<1>17. CASE UNCHANGED vars
  BY <1>17
<1> QED
  BY <1>1, <1>2, <1>3, <1>4, <1>5, <1>6, <1>7, <1>8, <1>9, <1>10, <1>11, <1>12, <1>13, <1>14, <1>15, <1>16, <1>17
  DEF Next, ThreadNext

LEMMA HistoryStep ==
    ASSUME FlagsOK, ThreadsOK, HistoryOK, [Next]_vars
    PROVE  HistoryOK'
<1> USE ProxyAssumption DEF HistoryOK, ThreadsOK, Apis
<1>1. ASSUME NEW t \in Threads, Call(t) PROVE HistoryOK'
  BY <1>1 DEF Call
<1>2. ASSUME NEW t \in Threads, Initialize(t) PROVE HistoryOK'
  BY <1>2 DEF Initialize
<1>3. ASSUME NEW t \in Threads, OpenTrace(t) PROVE HistoryOK'
  BY <1>3 DEF OpenTrace
<1>4. ASSUME NEW t \in Threads, WriteSession(t) PROVE HistoryOK'
  BY <1>4 DEF WriteSession, WriteSucceeds, WriteFails
<1>5. ASSUME NEW t \in Threads, FlushSession(t) PROVE HistoryOK'
  BY <1>5 DEF FlushSession, GroupCommit, FlushSucceeds, FlushFails
<1>6. ASSUME NEW t \in Threads, Refuse(t) PROVE HistoryOK'
  BY <1>6 DEF Refuse
<1>7. ASSUME NEW t \in Threads, Admit(t) PROVE HistoryOK'
  BY <1>7 DEF Admit
<1>8. ASSUME NEW t \in Threads, BeginCall(t) PROVE HistoryOK'
  BY <1>8 DEF BeginCall, WriteSucceeds, WriteFails
<1>9. ASSUME NEW t \in Threads, FlushBegin(t) PROVE HistoryOK'
  BY <1>9 DEF FlushBegin, GroupCommit, FlushSucceeds, FlushFails
<1>10. ASSUME NEW t \in Threads, Forward(t) PROVE HistoryOK'
  <2>1. policy[t] \in BOOLEAN
    BY Zenon DEF FlagsOK
  <2>2. call[t] \in 0 .. MaxCalls /\ api[t] \in Apis
    BY DEF ThreadsOK
  <2>3. Calling(t) \in [call : 0 .. MaxCalls, api : Apis, policy : BOOLEAN]
    BY <2>1, <2>2 DEF Calling
  <2>4. /\ forwarded' = forwarded \/ forwarded' = forwarded \cup {Calling(t)}
        /\ UNCHANGED <<process, reported, writeFaults, flushFaults>>
    BY <1>10 DEF Forward
  <2> QED
    BY <2>3, <2>4 DEF HistoryOK
<1>11. ASSUME NEW t \in Threads, ProviderReturns(t) PROVE HistoryOK'
  BY <1>11 DEF ProviderReturns
<1>12. ASSUME NEW t \in Threads, EndCall(t) PROVE HistoryOK'
  <2>1. call[t] \in 0 .. MaxCalls
    BY DEF ThreadsOK
  <2>2. /\ reported' = reported \/ reported' = reported \cup {call[t]}
        /\ UNCHANGED <<process, forwarded>>
    BY <1>12 DEF EndCall, WriteSucceeds, WriteFails, Report
  <2>3. writeFaults' \in 0 .. MaxFaults /\ flushFaults' \in 0 .. MaxFaults
    BY <1>12, ProxyAssumption DEF EndCall, WriteSucceeds, WriteFails, Report, HistoryOK
  <2> QED
    BY <2>1, <2>2, <2>3 DEF HistoryOK
<1>13. ASSUME NEW t \in Threads, FlushEnd(t) PROVE HistoryOK'
  <2>1. call[t] \in 0 .. MaxCalls
    BY DEF ThreadsOK
  <2>2. /\ reported' = reported \/ reported' = reported \cup {call[t]}
        /\ UNCHANGED <<process, forwarded>>
    BY <1>13 DEF FlushEnd, GroupCommit, FlushSucceeds, FlushFails, Report
  <2>3. writeFaults' \in 0 .. MaxFaults /\ flushFaults' \in 0 .. MaxFaults
    BY <1>13, ProxyAssumption DEF FlushEnd, GroupCommit, FlushSucceeds, FlushFails, Report, HistoryOK
  <2> QED
    BY <2>1, <2>2, <2>3 DEF HistoryOK
<1>14. CASE AgePasses
  BY <1>14 DEF AgePasses
<1>15. CASE ProcessDies
  BY <1>15 DEF ProcessDies, FreshProcess
<1>16. CASE PowerFails
  BY <1>16 DEF PowerFails, FreshProcess
<1>17. CASE UNCHANGED vars
  BY <1>17
<1> QED
  BY <1>1, <1>2, <1>3, <1>4, <1>5, <1>6, <1>7, <1>8, <1>9, <1>10, <1>11, <1>12, <1>13, <1>14, <1>15, <1>16, <1>17
  DEF Next, ThreadNext

(* What was committed is still there when the file grows.                  *)
LEMMA GrowingFile ==
    ASSUME TraceOK, file' = file \/ \E row \in Row : file' = Append(file, row),
           sequence' \in Nat, records' \in Nat, calls' \in 0 .. MaxCalls,
           durable' = durable
    PROVE  TraceOK'
<1>1. file' \in Seq(Row) /\ Len(file') >= Len(file)
  BY FileAppend, FileLength DEF TraceOK
<1> QED
  BY <1>1, FileLength DEF TraceOK

LEMMA TraceStep ==
    ASSUME FlagsOK, ThreadsOK, TraceOK, CallsBounded, [Next]_vars
    PROVE  TraceOK'
<1> USE ProxyAssumption, FileLength DEF TraceOK
<1>1. ASSUME NEW t \in Threads, Call(t) PROVE TraceOK'
  BY <1>1 DEF Call
<1>2. ASSUME NEW t \in Threads, Initialize(t) PROVE TraceOK'
  BY <1>2 DEF Initialize
<1>3. ASSUME NEW t \in Threads, OpenTrace(t) PROVE TraceOK'
  BY <1>3 DEF OpenTrace
<1>4. ASSUME NEW t \in Threads, WriteSession(t) PROVE TraceOK'
  <2>1. file' = file \/ \E row \in Row : file' = Append(file, row)
    BY <1>4, RowTypes DEF WriteSession, WriteSucceeds, WriteFails, TraceOK, ThreadsOK, FlagsOK
  <2>2. sequence' \in Nat /\ records' \in Nat /\ calls' \in 0 .. MaxCalls
    BY <1>4 DEF WriteSession, WriteSucceeds, WriteFails, TraceOK
  <2>3. durable' = durable
    BY <1>4 DEF WriteSession
  <2> QED
    BY <2>1, <2>2, <2>3, GrowingFile
<1>5. ASSUME NEW t \in Threads, FlushSession(t) PROVE TraceOK'
  BY <1>5 DEF FlushSession, GroupCommit, FlushSucceeds, FlushFails
<1>6. ASSUME NEW t \in Threads, Refuse(t) PROVE TraceOK'
  BY <1>6 DEF Refuse
<1>7. ASSUME NEW t \in Threads, Admit(t) PROVE TraceOK'
  BY <1>7 DEF Admit
<1>8. ASSUME NEW t \in Threads, BeginCall(t) PROVE TraceOK'
  <2>1. file' = file \/ \E row \in Row : file' = Append(file, row)
    BY <1>8, RowTypes DEF BeginCall, WriteSucceeds, WriteFails, TraceOK, ThreadsOK, FlagsOK
  <2>2. sequence' \in Nat /\ records' \in Nat /\ calls' \in 0 .. MaxCalls
    BY <1>8, NumberFree DEF BeginCall, WriteSucceeds, WriteFails, TraceOK
  <2>3. durable' = durable
    BY <1>8 DEF BeginCall
  <2> QED
    BY <2>1, <2>2, <2>3, GrowingFile
<1>9. ASSUME NEW t \in Threads, FlushBegin(t) PROVE TraceOK'
  BY <1>9 DEF FlushBegin, GroupCommit, FlushSucceeds, FlushFails
<1>10. ASSUME NEW t \in Threads, Forward(t) PROVE TraceOK'
  BY <1>10 DEF Forward, Calling
<1>11. ASSUME NEW t \in Threads, ProviderReturns(t) PROVE TraceOK'
  BY <1>11 DEF ProviderReturns
<1>12. ASSUME NEW t \in Threads, EndCall(t) PROVE TraceOK'
  <2>1. file' = file \/ \E row \in Row : file' = Append(file, row)
    BY <1>12, RowTypes DEF EndCall, WriteSucceeds, WriteFails, TraceOK, ThreadsOK, FlagsOK
  <2>2. sequence' \in Nat /\ records' \in Nat /\ calls' \in 0 .. MaxCalls
    BY <1>12 DEF EndCall, WriteSucceeds, WriteFails, TraceOK
  <2>3. durable' = durable
    BY <1>12 DEF EndCall
  <2> QED
    BY <2>1, <2>2, <2>3, GrowingFile
<1>13. ASSUME NEW t \in Threads, FlushEnd(t) PROVE TraceOK'
  BY <1>13 DEF FlushEnd, GroupCommit, FlushSucceeds, FlushFails, Report
<1>14. CASE AgePasses
  BY <1>14 DEF AgePasses
<1>15. CASE ProcessDies
  BY <1>15 DEF ProcessDies, FreshProcess
<1>16. CASE PowerFails
  <2>1. \/ \E n \in durable .. Len(file) : file' = SubSeq(file, 1, n)
        \/ \E n \in durable .. Len(file) - 1 :
              file' = Append(SubSeq(file, 1, n), Torn)
        \/ durable = 0 /\ file' = <<>>
    BY <1>16 DEF PowerFails
  <2>2. Torn \in Row
    BY RowTypes DEF Apis
  <2>3. file' \in Seq(Row) /\ durable <= Len(file')
    <3>1. CASE \E n \in durable .. Len(file) : file' = SubSeq(file, 1, n)
      BY <3>1, FileCut, FileLength DEF TraceOK
    <3>2. CASE \E n \in durable .. Len(file) - 1 :
                  file' = Append(SubSeq(file, 1, n), Torn)
      <4>1. PICK n \in durable .. Len(file) - 1 :
                    file' = Append(SubSeq(file, 1, n), Torn)
        BY <3>2
      <4>2. n \in 0 .. Len(file)
        BY <4>1, FileLength DEF TraceOK
      <4>3. SubSeq(file, 1, n) \in Seq(Row) /\ Len(SubSeq(file, 1, n)) = n
        BY <4>2, FileCut DEF TraceOK
      <4>4. file' \in Seq(Row) /\ Len(file') = n + 1
        BY <4>1, <4>3, <2>2, FileAppend
      <4> QED
        BY <4>1, <4>4, FileLength DEF TraceOK
    <3>3. CASE durable = 0 /\ file' = <<>>
      BY <3>3, EmptySeq
    <3> QED
      BY <2>1, <3>1, <3>2, <3>3
  <2>4. durable' = durable /\ sequence' = 0 /\ calls' = 0 /\ records' = 0
    BY <1>16 DEF PowerFails, FreshProcess
  <2> QED
    BY <2>3, <2>4, FileLength, ProxyAssumption DEF TraceOK
<1>17. CASE UNCHANGED vars
  BY <1>17
<1> QED
  BY <1>1, <1>2, <1>3, <1>4, <1>5, <1>6, <1>7, <1>8, <1>9, <1>10, <1>11, <1>12, <1>13, <1>14, <1>15, <1>16, <1>17
  DEF Next, ThreadNext

-----------------------------------------------------------------------------
(* Stages *)

LEMMA StagesStep ==
    ASSUME ThreadsOK, StagesInv, [Next]_vars
    PROVE  StagesInv'
<1> USE DEF StagesInv, ThreadsOK, Opening, InCall, Go
<1>1. ASSUME NEW t \in Threads, Call(t) PROVE StagesInv'
  BY <1>1 DEF Call
<1>2. ASSUME NEW t \in Threads, Initialize(t) PROVE StagesInv'
  BY <1>2 DEF Initialize
<1>3. ASSUME NEW t \in Threads, OpenTrace(t) PROVE StagesInv'
  BY <1>3 DEF OpenTrace
<1>4. ASSUME NEW t \in Threads, WriteSession(t) PROVE StagesInv'
  BY <1>4 DEF WriteSession
<1>5. ASSUME NEW t \in Threads, FlushSession(t) PROVE StagesInv'
  BY <1>5 DEF FlushSession
<1>6. ASSUME NEW t \in Threads, Refuse(t) PROVE StagesInv'
  BY <1>6 DEF Refuse
<1>7. ASSUME NEW t \in Threads, Admit(t) PROVE StagesInv'
  BY <1>7 DEF Admit
<1>8. ASSUME NEW t \in Threads, BeginCall(t) PROVE StagesInv'
  BY <1>8 DEF BeginCall
<1>9. ASSUME NEW t \in Threads, FlushBegin(t) PROVE StagesInv'
  BY <1>9 DEF FlushBegin
<1>10. ASSUME NEW t \in Threads, Forward(t) PROVE StagesInv'
  BY <1>10 DEF Forward, Calling
<1>11. ASSUME NEW t \in Threads, ProviderReturns(t) PROVE StagesInv'
  BY <1>11 DEF ProviderReturns
<1>12. ASSUME NEW t \in Threads, EndCall(t) PROVE StagesInv'
  BY <1>12 DEF EndCall, Report
<1>13. ASSUME NEW t \in Threads, FlushEnd(t) PROVE StagesInv'
  BY <1>13 DEF FlushEnd, Report
<1>14. CASE AgePasses
  BY <1>14 DEF AgePasses
<1>15. CASE ProcessDies
  BY <1>15 DEF ProcessDies, FreshProcess
<1>16. CASE PowerFails
  BY <1>16 DEF PowerFails, FreshProcess
<1>17. CASE UNCHANGED vars
  BY <1>17
<1> QED
  BY <1>1, <1>2, <1>3, <1>4, <1>5, <1>6, <1>7, <1>8, <1>9, <1>10, <1>11, <1>12, <1>13, <1>14, <1>15, <1>16, <1>17
  DEF Next, ThreadNext

(* What a file keeps while its process lives.                              *)
Grows ==
    /\ file' \in Seq(Row) /\ Len(file') >= Len(file)
    /\ \A i \in 1 .. Len(file) : file'[i] = file[i]

LEMMA WriterRows ==
    ASSUME FlagsOK, ThreadsOK, TraceOK, NEW t \in Threads,
           WriteSession(t) \/ BeginCall(t) \/ EndCall(t)
    PROVE  file' = file \/ \E row \in Row : file' = Append(file, row)
<1> USE RowTypes DEF WriteSucceeds, WriteFails, TraceOK, ThreadsOK, FlagsOK
<1>1. CASE WriteSession(t)
  BY <1>1 DEF WriteSession
<1>2. CASE BeginCall(t)
  BY <1>2 DEF BeginCall
<1>3. CASE EndCall(t)
  BY <1>3 DEF EndCall
<1> QED
  BY <1>1, <1>2, <1>3

LEMMA AppendGrows ==
    ASSUME TraceOK, file' = file \/ \E row \in Row : file' = Append(file, row)
    PROVE  Grows
<1>1. CASE file' = file
  BY <1>1, FileLength DEF Grows, TraceOK
<1>2. ASSUME NEW row \in Row, file' = Append(file, row) PROVE Grows
  BY <1>2, FileAppend, FileLength DEF Grows, TraceOK
<1> QED
  BY <1>1, <1>2

LEMMA WriterGrows ==
    ASSUME FlagsOK, ThreadsOK, TraceOK, NEW t \in Threads,
           WriteSession(t) \/ BeginCall(t) \/ EndCall(t)
    PROVE  Grows
  BY WriterRows, AppendGrows

LEMMA GrowStep ==
    ASSUME FlagsOK, ThreadsOK, TraceOK, Next, ~ProcessDies, ~PowerFails
    PROVE  Grows
<1>1. file' = file \/ \E row \in Row : file' = Append(file, row)
  <2>1. ASSUME NEW t \in Threads, WriteSession(t) \/ BeginCall(t) \/ EndCall(t)
        PROVE  file' = file \/ \E row \in Row : file' = Append(file, row)
    BY <2>1, WriterRows
  <2>2. ASSUME NEW t \in Threads, Call(t) \/ Initialize(t) \/ OpenTrace(t)
               \/ FlushSession(t) \/ Refuse(t) \/ Admit(t) \/ FlushBegin(t)
               \/ Forward(t) \/ ProviderReturns(t) \/ FlushEnd(t)
        PROVE  file' = file
    BY <2>2 DEF Call, Initialize, OpenTrace, FlushSession, Refuse, Admit,
                FlushBegin, Forward, ProviderReturns, FlushEnd
  <2>3. CASE AgePasses
    BY <2>3 DEF AgePasses
  <2> QED
    BY <2>1, <2>2, <2>3 DEF Next, ThreadNext
<1> QED
  BY <1>1, AppendGrows

(* What is committed is kept by every step, a power cut included.          *)
LEMMA KeptStep ==
    ASSUME FlagsOK, ThreadsOK, TraceOK, [Next]_vars
    PROVE  /\ durable' >= durable /\ durable <= Len(file')
           /\ \A i \in 1 .. durable : file'[i] = file[i]
<1>1. CASE Next /\ ~ProcessDies /\ ~PowerFails
  <2>1. Grows
    BY <1>1, GrowStep
  <2>2. durable' = durable \/ durable' = Len(file)
    BY <1>1 DEF Next, ThreadNext, Call, Initialize, OpenTrace, WriteSession,
                FlushSession, Refuse, Admit, BeginCall, FlushBegin, Forward,
                ProviderReturns, EndCall, FlushEnd, AgePasses, GroupCommit,
                FlushSucceeds, FlushFails
  <2> QED
    BY <2>1, <2>2, FileLength DEF Grows, TraceOK
<1>2. CASE ProcessDies
  BY <1>2, FileLength DEF ProcessDies, TraceOK
<1>3. CASE PowerFails
  <2>1. durable' = durable
    BY <1>3 DEF PowerFails
  <2>2. CASE \E n \in durable .. Len(file) : file' = SubSeq(file, 1, n)
    BY <2>1, <2>2, FileCut, FileLength DEF TraceOK
  <2>3. ASSUME NEW n \in durable .. Len(file) - 1,
               file' = Append(SubSeq(file, 1, n), Torn)
        PROVE  durable <= Len(file') /\ \A i \in 1 .. durable : file'[i] = file[i]
    <3>1. n \in 0 .. Len(file)
      BY FileLength DEF TraceOK
    <3>2. /\ SubSeq(file, 1, n) \in Seq(Row) /\ Len(SubSeq(file, 1, n)) = n
          /\ \A i \in 1 .. n : SubSeq(file, 1, n)[i] = file[i]
      BY <3>1, FileCut DEF TraceOK
    <3>3. Torn \in Row
      BY RowTypes DEF Apis
    <3>4. /\ Len(file') = n + 1
          /\ \A i \in 1 .. n : file'[i] = SubSeq(file, 1, n)[i]
      BY <2>3, <3>2, <3>3, FileAppend
    <3> QED
      BY <3>1, <3>2, <3>4 DEF TraceOK
  <2>4. CASE durable = 0 /\ file' = <<>>
    BY <2>1, <2>4, EmptySeq, FileLength DEF TraceOK
  <2>5. \/ \E n \in durable .. Len(file) : file' = SubSeq(file, 1, n)
        \/ \E n \in durable .. Len(file) - 1 :
              file' = Append(SubSeq(file, 1, n), Torn)
        \/ durable = 0 /\ file' = <<>>
    BY <1>3 DEF PowerFails
  <2>6. durable' >= durable
    BY <2>1, FileLength DEF TraceOK
  <2> QED
    BY <2>2, <2>3, <2>4, <2>5, <2>6
<1>4. CASE UNCHANGED vars
  BY <1>4, FileLength DEF TraceOK
<1> QED
  BY <1>1, <1>2, <1>3, <1>4

(* The session record *)

LEMMA SessionKept ==
    ASSUME TraceOK, Grows, HasSession
    PROVE  HasSession'
  BY FileLength DEF TraceOK, Grows, HasSession

LEMMA SessionStep ==
    ASSUME FlagsOK, ThreadsOK, TraceOK, StagesInv, SessionInv, [Next]_vars
    PROVE  SessionInv'
<1> USE DEF SessionInv, StagesInv, ThreadsOK, HasSession, Opening, InCall, Go
<1>1. ASSUME NEW t \in Threads, Call(t) PROVE SessionInv'
  BY <1>1 DEF Call
<1>2. ASSUME NEW t \in Threads, Initialize(t) PROVE SessionInv'
  BY <1>2 DEF Initialize
<1>3. ASSUME NEW t \in Threads, OpenTrace(t) PROVE SessionInv'
  BY <1>3 DEF OpenTrace
<1>4. ASSUME NEW t \in Threads, WriteSession(t) PROVE SessionInv'
  <2>1. /\ sequence = 0 /\ file = <<>> /\ exists /\ init = "running"
        /\ forwarded = {}
        /\ \A u \in Threads \ {t} : pc[u] \notin Opening
    BY <1>4 DEF WriteSession, SessionInv, StagesInv, Opening
  <2>2. /\ UNCHANGED <<exists, forwarded>>
        /\ \A u \in Threads \ {t} : pc'[u] \notin Opening
    BY <1>4, <2>1 DEF WriteSession, Go, ThreadsOK
  <2>3. CASE init' = "failed"
    <3>1. \A u \in Threads : pc'[u] \notin Opening
      BY <1>4, <2>1, <2>2, <2>3 DEF WriteSession, Go, ThreadsOK, Opening
    <3> QED
      BY <2>1, <2>2, <2>3, <3>1 DEF SessionInv, Opening
  <2>4. CASE init' # "failed"
    <3>1. file' = Append(<<>>, Session(0)) /\ init' = init /\ pc'[t] = "sessionFlush"
      BY <1>4, <2>1, <2>4 DEF WriteSession, WriteSucceeds, Go, ThreadsOK
    <3>2. Session(0) \in Row
      BY RowTypes DEF Apis
    <3>3. HasSession'
      BY <3>1, <3>2, FirstRow DEF HasSession
    <3> QED
      BY <2>1, <2>2, <3>1, <3>3 DEF SessionInv, Opening
  <2> QED
    BY <2>3, <2>4
<1>5. ASSUME NEW t \in Threads, FlushSession(t) PROVE SessionInv'
  BY <1>5 DEF FlushSession
<1>6. ASSUME NEW t \in Threads, Refuse(t) PROVE SessionInv'
  BY <1>6 DEF Refuse
<1>7. ASSUME NEW t \in Threads, Admit(t) PROVE SessionInv'
  BY <1>7 DEF Admit
<1>8. ASSUME NEW t \in Threads, BeginCall(t) PROVE SessionInv'
  <2>1. init = "ready" /\ HasSession
    BY <1>8 DEF BeginCall, SessionInv, StagesInv, InCall
  <2>2. Grows
    BY <1>8, WriterGrows
  <2>3. HasSession'
    BY <2>1, <2>2, SessionKept
  <2>4. file # <<>> /\ exists' = exists /\ init' = init /\ forwarded' = forwarded
    BY <1>8, <2>1 DEF BeginCall, HasSession
  <2>5. \A u \in Threads : pc'[u] \notin Opening
    BY <1>8, <2>1 DEF BeginCall, ThreadsOK, StagesInv, Opening, Go
  <2> QED
    BY <2>1, <2>3, <2>4, <2>5 DEF SessionInv, Opening
<1>9. ASSUME NEW t \in Threads, FlushBegin(t) PROVE SessionInv'
  BY <1>9 DEF FlushBegin
<1>10. ASSUME NEW t \in Threads, Forward(t) PROVE SessionInv'
  BY <1>10 DEF Forward, Calling
<1>11. ASSUME NEW t \in Threads, ProviderReturns(t) PROVE SessionInv'
  BY <1>11 DEF ProviderReturns
<1>12. ASSUME NEW t \in Threads, EndCall(t) PROVE SessionInv'
  <2>1. init = "ready" /\ HasSession
    BY <1>12 DEF EndCall, SessionInv, StagesInv, InCall
  <2>2. Grows
    BY <1>12, WriterGrows
  <2>3. HasSession'
    BY <2>1, <2>2, SessionKept
  <2>4. file # <<>> /\ exists' = exists /\ init' = init /\ forwarded' = forwarded
    BY <1>12, <2>1 DEF EndCall, HasSession
  <2>5. \A u \in Threads : pc'[u] \notin Opening
    BY <1>12, <2>1 DEF EndCall, ThreadsOK, StagesInv, Opening, Go
  <2> QED
    BY <2>1, <2>3, <2>4, <2>5 DEF SessionInv, Opening
<1>13. ASSUME NEW t \in Threads, FlushEnd(t) PROVE SessionInv'
  BY <1>13 DEF FlushEnd, Report
<1>14. CASE AgePasses
  BY <1>14 DEF AgePasses
<1>15. CASE ProcessDies
  BY <1>15 DEF ProcessDies, FreshProcess
<1>16. CASE PowerFails
  <2>1. \A n \in durable .. Len(file) : file = <<>> => SubSeq(file, 1, n) = <<>>
    BY FileLength, FileCut, EmptySeq DEF TraceOK
  <2>2. file = <<>> => durable .. Len(file) - 1 = {}
    BY EmptySeq, FileLength DEF TraceOK
  <2>3. (~exists => file = <<>>) => (~exists' => file' = <<>>)
    BY <1>16, <2>1, <2>2 DEF PowerFails
  <2>4. /\ init' = "new" /\ forwarded' = {} /\ sequence' = 0
        /\ \A u \in Threads : pc'[u] = "out"
    BY <1>16 DEF PowerFails, FreshProcess
  <2> QED
    BY <2>3, <2>4 DEF SessionInv
<1>17. CASE UNCHANGED vars
  BY <1>17
<1> QED
  BY <1>1, <1>2, <1>3, <1>4, <1>5, <1>6, <1>7, <1>8, <1>9, <1>10, <1>11, <1>12, <1>13, <1>14, <1>15, <1>16, <1>17
  DEF Next, ThreadNext

(* What is due *)

NothingMissed ==
    \A i \in durable + 1 .. Len(file) : IsImmediateCommitBoundary(file[i]) => force

LEMMA DueAppend ==
    ASSUME TraceOK, NothingMissed, NEW row \in Row, file' = Append(file, row),
           durable' = durable, force \/ IsImmediateCommitBoundary(row) => force'
    PROVE  NothingMissed'
<1> SUFFICES ASSUME NEW i \in durable + 1 .. Len(file'),
                    IsImmediateCommitBoundary(file'[i])
             PROVE  force'
  BY DEF NothingMissed
<1>1. /\ Len(file') = Len(file) + 1 /\ file'[Len(file) + 1] = row
      /\ \A k \in 1 .. Len(file) : file'[k] = file[k]
  BY FileAppend DEF TraceOK
<1>2. CASE i = Len(file) + 1
  BY <1>1, <1>2
<1>3. CASE i # Len(file) + 1
  <2>1. i \in durable + 1 .. Len(file) /\ file'[i] = file[i]
    BY <1>1, <1>3, FileLength DEF TraceOK
  <2> QED
    BY <2>1 DEF NothingMissed
<1> QED
  BY <1>2, <1>3

(* A commit leaves nothing due, unless its flush failed.                   *)
LEMMA CommitDone ==
    ASSUME TraceOK, HistoryOK, NothingMissed, force => records # 0, file' = file,
           GroupCommit
    PROVE  /\ NothingMissed' /\ (force' => records' # 0)
           /\ force' => flushFaults' # 0
<1>1. CASE FlushSucceeds
  BY <1>1, FileLength DEF FlushSucceeds, NothingMissed, TraceOK
<1>2. CASE FlushFails
  BY <1>2 DEF FlushFails, NothingMissed, HistoryOK
<1>3. CASE ~FlushDue
  BY <1>3 DEF GroupCommit, FlushDue, NothingMissed
<1> QED
  BY <1>1, <1>2, <1>3 DEF GroupCommit

LEMMA DueStep ==
    ASSUME FlagsOK, ThreadsOK, TraceOK, HistoryOK, StagesInv, DueInv, [Next]_vars
    PROVE  DueInv'
<1>1. ASSUME NEW t \in Threads, Call(t) PROVE DueInv'
  <2>1. /\ UNCHANGED <<init, recorder, records, force, file, durable, flushFaults>>
        /\ \A u \in Threads : pc'[u] = "sessionFlush" => pc[u] = "sessionFlush"
    BY <1>1 DEF Call, Go, ThreadsOK
  <2> QED
    BY <2>1 DEF DueInv, OwnTrace
<1>2. ASSUME NEW t \in Threads, Initialize(t) PROVE DueInv'
  <2>1. UNCHANGED <<recorder, records, force, flushFaults>>
    BY <1>2 DEF Initialize
  <2>2. ~OwnTrace'
    BY <1>2 DEF Initialize, OwnTrace, Go, ThreadsOK, StagesInv, Opening
  <2> QED
    BY <2>1, <2>2 DEF DueInv
<1>3. ASSUME NEW t \in Threads, OpenTrace(t) PROVE DueInv'
  <2>1. UNCHANGED <<recorder, records, force, flushFaults>>
    BY <1>3 DEF OpenTrace
  <2>2. ~OwnTrace'
    BY <1>3 DEF OpenTrace, OwnTrace, Go, ThreadsOK, StagesInv, Opening
  <2> QED
    BY <2>1, <2>2 DEF DueInv
<1>4. ASSUME NEW t \in Threads, WriteSession(t) PROVE DueInv'
  <2>1. recorder = NoThread /\ UNCHANGED flushFaults
        /\ \A u \in Threads \ {t} : pc[u] \notin Opening
    BY <1>4 DEF WriteSession, StagesInv, Opening
  <2>2. CASE WriteSucceeds(Session(sequence)) /\ recorder' = t
    <3>1. IsImmediateCommitBoundary(Session(sequence))
      BY DEF IsImmediateCommitBoundary, Session
    <3>2. force' /\ records' = records + 1
      BY <2>2, <3>1 DEF WriteSucceeds
    <3>3. recorder' # NoThread
      BY <2>2, ProxyAssumption
    <3> QED
      BY <3>2, <3>3 DEF DueInv, TraceOK
  <2>3. CASE WriteFails /\ init' = "failed" /\ Go(t, "out") /\ recorder' = recorder
    <3>1. ~OwnTrace'
      BY <2>1, <2>3 DEF OwnTrace, Go, ThreadsOK, Opening
    <3> QED
      BY <2>1, <2>3, <3>1 DEF DueInv, WriteFails
  <2> QED
    BY <1>4, <2>2, <2>3 DEF WriteSession
<1>5. ASSUME NEW t \in Threads, FlushSession(t) PROVE DueInv'
  <2>1. NothingMissed
    BY <1>5 DEF FlushSession, NothingMissed, DueInv, OwnTrace, StagesInv, InCall
  <2>2. GroupCommit /\ file' = file
    BY <1>5 DEF FlushSession
  <2>3. NothingMissed' /\ (force' => records' # 0) /\ (force' => flushFaults' # 0)
    BY <2>1, <2>2, CommitDone DEF DueInv
  <2> QED
    BY <2>3 DEF DueInv, NothingMissed
<1>6. ASSUME NEW t \in Threads, Refuse(t) PROVE DueInv'
  <2>1. /\ UNCHANGED <<init, recorder, records, force, file, durable, flushFaults>>
        /\ \A u \in Threads : pc'[u] = "sessionFlush" => pc[u] = "sessionFlush"
    BY <1>6 DEF Refuse, Go, ThreadsOK
  <2> QED
    BY <2>1 DEF DueInv, OwnTrace
<1>7. ASSUME NEW t \in Threads, Admit(t) PROVE DueInv'
  <2>1. /\ UNCHANGED <<init, recorder, records, force, file, durable, flushFaults>>
        /\ \A u \in Threads : pc'[u] = "sessionFlush" => pc[u] = "sessionFlush"
    BY <1>7 DEF Admit, Go, ThreadsOK
  <2> QED
    BY <2>1 DEF DueInv, OwnTrace
<1>8. ASSUME NEW t \in Threads, BeginCall(t) PROVE DueInv'
  <2>1. NothingMissed /\ recorder = NoThread /\ durable' = durable
        /\ UNCHANGED flushFaults
    BY <1>8 DEF BeginCall, NothingMissed, DueInv, OwnTrace, StagesInv, InCall
  <2>2. CASE WriteSucceeds(CallBegin(sequence, calls + 1, api[t], policy[t]))
             /\ recorder' = t
    <3>1. CallBegin(sequence, calls + 1, api[t], policy[t]) \in Row
      <4>1. sequence \in Nat /\ calls + 1 \in Nat /\ call[t] \in Nat /\ api[t] \in Apis
        BY ProxyAssumption DEF TraceOK, ThreadsOK
      <4>2. policy[t] \in BOOLEAN
        BY Zenon DEF FlagsOK
      <4> QED
        BY <4>1, <4>2, RowTypes
    <3>2. file' = Append(file, CallBegin(sequence, calls + 1, api[t], policy[t])) /\ records' = records + 1
      BY <2>2 DEF WriteSucceeds
    <3>3. force \/ IsImmediateCommitBoundary(CallBegin(sequence, calls + 1, api[t], policy[t])) => force'
      BY <2>2, Zenon DEF WriteSucceeds
    <3>4. NothingMissed'
      BY <2>1, <3>1, <3>2, <3>3, DueAppend
    <3>5. recorder' # NoThread /\ records' # 0
      BY <2>2, <3>2, ProxyAssumption DEF TraceOK
    <3> QED
      BY <3>4, <3>5 DEF DueInv, NothingMissed
  <2>3. CASE WriteFails /\ recorder' = recorder
    <3>1. CASE file' = file
      BY <2>1, <2>3, <3>1 DEF DueInv, NothingMissed, WriteFails
    <3>2. CASE file' = Append(file, Torn)
      <4>1. Torn \in Row /\ ~IsImmediateCommitBoundary(Torn)
        BY RowTypes DEF Apis, Torn, IsImmediateCommitBoundary
      <4>2. force' = force /\ records' = records
        BY <2>3 DEF WriteFails
      <4>3. NothingMissed'
        BY <2>1, <3>2, <4>1, <4>2, DueAppend
      <4> QED
        BY <2>1, <2>3, <4>2, <4>3 DEF DueInv, NothingMissed
    <3> QED
      BY <2>3, <3>1, <3>2 DEF WriteFails
  <2> QED
    BY <1>8, <2>2, <2>3 DEF BeginCall
<1>9. ASSUME NEW t \in Threads, FlushBegin(t) PROVE DueInv'
  <2>1. NothingMissed
    BY <1>9 DEF FlushBegin, NothingMissed, DueInv, OwnTrace, StagesInv, InCall
  <2>2. GroupCommit /\ file' = file
    BY <1>9 DEF FlushBegin
  <2>3. NothingMissed' /\ (force' => records' # 0) /\ (force' => flushFaults' # 0)
    BY <2>1, <2>2, CommitDone DEF DueInv
  <2> QED
    BY <2>3 DEF DueInv, NothingMissed
<1>10. ASSUME NEW t \in Threads, Forward(t) PROVE DueInv'
  <2>1. /\ UNCHANGED <<init, recorder, records, force, file, durable, flushFaults>>
        /\ \A u \in Threads : pc'[u] = "sessionFlush" => pc[u] = "sessionFlush"
    BY <1>10 DEF Forward, Go, ThreadsOK
  <2> QED
    BY <2>1 DEF DueInv, OwnTrace
<1>11. ASSUME NEW t \in Threads, ProviderReturns(t) PROVE DueInv'
  <2>1. /\ UNCHANGED <<init, recorder, records, force, file, durable, flushFaults>>
        /\ \A u \in Threads : pc'[u] = "sessionFlush" => pc[u] = "sessionFlush"
    BY <1>11 DEF ProviderReturns, Go, ThreadsOK
  <2> QED
    BY <2>1 DEF DueInv, OwnTrace
<1>12. ASSUME NEW t \in Threads, EndCall(t) PROVE DueInv'
  <2>1. NothingMissed /\ recorder = NoThread /\ durable' = durable
        /\ UNCHANGED flushFaults
    BY <1>12 DEF EndCall, NothingMissed, DueInv, OwnTrace, StagesInv, InCall
  <2>2. CASE WriteSucceeds(CallEnd(sequence, call[t], api[t]))
             /\ recorder' = t
    <3>1. CallEnd(sequence, call[t], api[t]) \in Row
      <4>1. sequence \in Nat /\ calls + 1 \in Nat /\ call[t] \in Nat /\ api[t] \in Apis
        BY ProxyAssumption DEF TraceOK, ThreadsOK
      <4>2. policy[t] \in BOOLEAN
        BY Zenon DEF FlagsOK
      <4> QED
        BY <4>1, <4>2, RowTypes
    <3>2. file' = Append(file, CallEnd(sequence, call[t], api[t])) /\ records' = records + 1
      BY <2>2 DEF WriteSucceeds
    <3>3. force \/ IsImmediateCommitBoundary(CallEnd(sequence, call[t], api[t])) => force'
      BY <2>2, Zenon DEF WriteSucceeds
    <3>4. NothingMissed'
      BY <2>1, <3>1, <3>2, <3>3, DueAppend
    <3>5. recorder' # NoThread /\ records' # 0
      BY <2>2, <3>2, ProxyAssumption DEF TraceOK
    <3> QED
      BY <3>4, <3>5 DEF DueInv, NothingMissed
  <2>3. CASE WriteFails /\ recorder' = recorder
    <3>1. CASE file' = file
      BY <2>1, <2>3, <3>1 DEF DueInv, NothingMissed, WriteFails
    <3>2. CASE file' = Append(file, Torn)
      <4>1. Torn \in Row /\ ~IsImmediateCommitBoundary(Torn)
        BY RowTypes DEF Apis, Torn, IsImmediateCommitBoundary
      <4>2. force' = force /\ records' = records
        BY <2>3 DEF WriteFails
      <4>3. NothingMissed'
        BY <2>1, <3>2, <4>1, <4>2, DueAppend
      <4> QED
        BY <2>1, <2>3, <4>2, <4>3 DEF DueInv, NothingMissed
    <3> QED
      BY <2>3, <3>1, <3>2 DEF WriteFails
  <2> QED
    BY <1>12, <2>2, <2>3 DEF EndCall
<1>13. ASSUME NEW t \in Threads, FlushEnd(t) PROVE DueInv'
  <2>1. NothingMissed
    BY <1>13 DEF FlushEnd, NothingMissed, DueInv, OwnTrace, StagesInv, InCall
  <2>2. GroupCommit /\ file' = file
    BY <1>13 DEF FlushEnd
  <2>3. NothingMissed' /\ (force' => records' # 0) /\ (force' => flushFaults' # 0)
    BY <2>1, <2>2, CommitDone DEF DueInv
  <2> QED
    BY <2>3 DEF DueInv, NothingMissed
<1>14. CASE AgePasses
  BY <1>14 DEF AgePasses, DueInv, OwnTrace
<1>15. CASE ProcessDies
  BY <1>15 DEF ProcessDies, FreshProcess, DueInv, OwnTrace
<1>16. CASE PowerFails
  BY <1>16 DEF PowerFails, FreshProcess, DueInv, OwnTrace
<1>17. CASE UNCHANGED vars
  BY <1>17 DEF DueInv, OwnTrace
<1> QED
  BY <1>1, <1>2, <1>3, <1>4, <1>5, <1>6, <1>7, <1>8, <1>9, <1>10, <1>11, <1>12, <1>13, <1>14, <1>15, <1>16, <1>17
  DEF Next, ThreadNext

(* The records of a call *)

LEMMA FaultsGrow ==
    ASSUME HistoryOK, [Next]_vars
    PROVE  (writeFaults' = 0 => writeFaults = 0) /\ (flushFaults' = 0 => flushFaults = 0)
  BY DEF HistoryOK, Next, ThreadNext, Call, Initialize, OpenTrace, WriteSession, FlushSession,
      Refuse, Admit, BeginCall, FlushBegin, Forward, ProviderReturns, EndCall,
      FlushEnd, AgePasses, ProcessDies, PowerFails,
      WriteSucceeds, WriteFails, GroupCommit, FlushSucceeds, FlushFails

LEMMA CallingKept ==
    ASSUME TraceOK, Grows, NEW u \in Threads, HasBegin(Calling(u)),
           call'[u] = call[u], api'[u] = api[u], policy'[u] = policy[u]
    PROVE  HasBegin(Calling(u))'
  BY FileLength DEF TraceOK, Grows, HasBegin, Calling

LEMMA ForwardedKept ==
    ASSUME TraceOK, Grows, NEW f, HasBegin(f)
    PROVE  HasBegin(f)'
  BY FileLength DEF TraceOK, Grows, HasBegin

LEMMA CallingForwarded ==
    ASSUME TraceOK, Grows, NEW u \in Threads, HasBegin(Calling(u)),
           NEW f, f = Calling(u)
    PROVE  HasBegin(f)'
<1>1. HasBegin(f)
  BY DEF HasBegin
<1> QED
  BY <1>1, ForwardedKept

(* Steps that begin no call.                                               *)
BeginsNone ==
    /\ \A u \in Threads : pc'[u] \in {"beginFlush", "forward"} =>
          /\ pc[u] \in {"beginFlush", "forward"}
          /\ call'[u] = call[u] /\ api'[u] = api[u] /\ policy'[u] = policy[u]
    /\ \A f \in forwarded' :
          f \in forwarded \/ \E u \in Threads : pc[u] = "forward" /\ f = Calling(u)

LEMMA BeginQuiet ==
    ASSUME TraceOK, HistoryOK, BeginInv, Grows, [Next]_vars, BeginsNone
    PROVE  BeginInv'
<1> SUFFICES ASSUME writeFaults' = 0
             PROVE  /\ \A u \in Threads : pc'[u] \in {"beginFlush", "forward"}
                                            => HasBegin(Calling(u))'
                    /\ \A f \in forwarded' : HasBegin(f)'
  BY DEF BeginInv
<1>1. /\ \A u \in Threads : pc[u] \in {"beginFlush", "forward"} => HasBegin(Calling(u))
      /\ \A f \in forwarded : HasBegin(f)
  BY FaultsGrow DEF BeginInv
<1>2. ASSUME NEW u \in Threads, pc'[u] \in {"beginFlush", "forward"}
      PROVE  HasBegin(Calling(u))'
  <2>1. /\ pc[u] \in {"beginFlush", "forward"}
        /\ call'[u] = call[u] /\ api'[u] = api[u] /\ policy'[u] = policy[u]
    BY <1>2 DEF BeginsNone
  <2>2. HasBegin(Calling(u))
    BY <1>1, <2>1
  <2> QED
    BY <2>1, <2>2, CallingKept
<1>3. ASSUME NEW f \in forwarded' PROVE HasBegin(f)'
  <2>1. CASE f \in forwarded
    <3>1. HasBegin(f)
      BY <1>1, <2>1
    <3> QED
      BY <3>1, ForwardedKept
  <2>2. ASSUME NEW u \in Threads, pc[u] = "forward", f = Calling(u)
        PROVE  HasBegin(f)'
    <3>1. HasBegin(Calling(u))
      BY <1>1, <2>2
    <3> QED
      BY <2>2, <3>1, CallingForwarded
  <2> QED
    BY <1>3, <2>1, <2>2 DEF BeginsNone
<1> QED
  BY <1>2, <1>3

LEMMA BeginStep ==
    ASSUME FlagsOK, ThreadsOK, TraceOK, HistoryOK, BeginInv, [Next]_vars
    PROVE  BeginInv'
<1>1. ASSUME NEW t \in Threads, Call(t) PROVE BeginInv'
  <2>1. Grows
    BY <1>1, AppendGrows DEF Call
  <2>2. BeginsNone
    BY <1>1 DEF Call, BeginsNone, Go, ThreadsOK
  <2> QED
    BY <2>1, <2>2, BeginQuiet
<1>2. ASSUME NEW t \in Threads, Initialize(t) PROVE BeginInv'
  <2>1. Grows
    BY <1>2, AppendGrows DEF Initialize
  <2>2. BeginsNone
    BY <1>2 DEF Initialize, BeginsNone, Go, ThreadsOK
  <2> QED
    BY <2>1, <2>2, BeginQuiet
<1>3. ASSUME NEW t \in Threads, OpenTrace(t) PROVE BeginInv'
  <2>1. Grows
    BY <1>3, AppendGrows DEF OpenTrace
  <2>2. BeginsNone
    BY <1>3 DEF OpenTrace, BeginsNone, Go, ThreadsOK
  <2> QED
    BY <2>1, <2>2, BeginQuiet
<1>4. ASSUME NEW t \in Threads, WriteSession(t) PROVE BeginInv'
  <2>1. Grows
    BY <1>4, WriterGrows
  <2>2. BeginsNone
    BY <1>4 DEF WriteSession, BeginsNone, Go, ThreadsOK
  <2> QED
    BY <2>1, <2>2, BeginQuiet
<1>5. ASSUME NEW t \in Threads, FlushSession(t) PROVE BeginInv'
  <2>1. Grows
    BY <1>5, AppendGrows DEF FlushSession
  <2>2. BeginsNone
    BY <1>5 DEF FlushSession, BeginsNone, Go, ThreadsOK
  <2> QED
    BY <2>1, <2>2, BeginQuiet
<1>6. ASSUME NEW t \in Threads, Refuse(t) PROVE BeginInv'
  <2>1. Grows
    BY <1>6, AppendGrows DEF Refuse
  <2>2. BeginsNone
    BY <1>6 DEF Refuse, BeginsNone, Go, ThreadsOK
  <2> QED
    BY <2>1, <2>2, BeginQuiet
<1>7. ASSUME NEW t \in Threads, Admit(t) PROVE BeginInv'
  <2>1. Grows
    BY <1>7, AppendGrows DEF Admit
  <2>2. BeginsNone
    BY <1>7 DEF Admit, BeginsNone, Go, ThreadsOK
  <2> QED
    BY <2>1, <2>2, BeginQuiet
<1>8. ASSUME NEW t \in Threads, BeginCall(t) PROVE BeginInv'
  <2> SUFFICES ASSUME writeFaults' = 0
               PROVE  /\ \A u \in Threads : pc'[u] \in {"beginFlush", "forward"}
                                              => HasBegin(Calling(u))'
                      /\ \A f \in forwarded' : HasBegin(f)'
    BY DEF BeginInv
  <2>1. writeFaults = 0 /\ Grows
    BY <1>8, FaultsGrow, WriterGrows
  <2>2. ASSUME NEW f \in forwarded' PROVE HasBegin(f)'
    <3>1. HasBegin(f)
      BY <1>8, <2>1, <2>2 DEF BeginCall, BeginInv
    <3> QED
      BY <2>1, <3>1, ForwardedKept
  <2>3. ASSUME NEW u \in Threads, u # t, pc'[u] \in {"beginFlush", "forward"}
        PROVE  HasBegin(Calling(u))'
    <3>1. /\ pc[u] \in {"beginFlush", "forward"}
          /\ call'[u] = call[u] /\ api'[u] = api[u] /\ policy'[u] = policy[u]
      BY <1>8, <2>3 DEF BeginCall, Go, ThreadsOK
    <3>2. HasBegin(Calling(u))
      BY <2>1, <3>1 DEF BeginInv
    <3> QED
      BY <2>1, <3>1, <3>2, CallingKept
  <2>4. HasBegin(Calling(t))'
    <3> DEFINE row == CallBegin(sequence, calls + 1, api[t], policy[t])
    <3>1. WriteSucceeds(row)
      BY <1>8, <2>1 DEF BeginCall, WriteFails
    <3>2. row \in Row
      <4>1. sequence \in Nat /\ calls + 1 \in Nat /\ api[t] \in Apis
        BY ProxyAssumption DEF TraceOK, ThreadsOK
      <4>2. policy[t] \in BOOLEAN
        BY Zenon DEF FlagsOK
      <4> QED
        BY <4>1, <4>2, RowTypes
    <3>3. call'[t] = calls + 1 /\ api' = api /\ policy' = policy
      BY <1>8 DEF BeginCall, ThreadsOK
    <3>4. /\ row.type = "callBegin" /\ row.call = calls + 1
          /\ row.api = api[t] /\ row.policy = policy[t]
      BY DEF CallBegin
    <3> HIDE DEF row
    <3>5. /\ Len(file') = Len(file) + 1 /\ Len(file) \in Nat
          /\ file'[Len(file) + 1] = row
      BY <3>1, <3>2, FileAppend, FileLength DEF WriteSucceeds, TraceOK
    <3> QED
      BY <3>3, <3>4, <3>5 DEF HasBegin, Calling
  <2> QED
    BY <2>2, <2>3, <2>4
<1>9. ASSUME NEW t \in Threads, FlushBegin(t) PROVE BeginInv'
  <2>1. Grows
    BY <1>9, AppendGrows DEF FlushBegin
  <2>2. BeginsNone
    BY <1>9 DEF FlushBegin, BeginsNone, Go, ThreadsOK
  <2> QED
    BY <2>1, <2>2, BeginQuiet
<1>10. ASSUME NEW t \in Threads, Forward(t) PROVE BeginInv'
  <2>1. Grows
    BY <1>10, AppendGrows DEF Forward
  <2>2. BeginsNone
    BY <1>10 DEF Forward, BeginsNone, Go, ThreadsOK
  <2> QED
    BY <2>1, <2>2, BeginQuiet
<1>11. ASSUME NEW t \in Threads, ProviderReturns(t) PROVE BeginInv'
  <2>1. Grows
    BY <1>11, AppendGrows DEF ProviderReturns
  <2>2. BeginsNone
    BY <1>11 DEF ProviderReturns, BeginsNone, Go, ThreadsOK
  <2> QED
    BY <2>1, <2>2, BeginQuiet
<1>12. ASSUME NEW t \in Threads, EndCall(t) PROVE BeginInv'
  <2>1. Grows
    BY <1>12, WriterGrows
  <2>2. BeginsNone
    BY <1>12 DEF EndCall, BeginsNone, Go, ThreadsOK
  <2> QED
    BY <2>1, <2>2, BeginQuiet
<1>13. ASSUME NEW t \in Threads, FlushEnd(t) PROVE BeginInv'
  <2>1. Grows
    BY <1>13, AppendGrows DEF FlushEnd
  <2>2. BeginsNone
    BY <1>13 DEF FlushEnd, BeginsNone, Go, ThreadsOK
  <2> QED
    BY <2>1, <2>2, BeginQuiet
<1>14. CASE AgePasses
  <2>1. Grows
    BY <1>14, AppendGrows DEF AgePasses
  <2>2. BeginsNone
    BY <1>14 DEF AgePasses, BeginsNone, Go, ThreadsOK
  <2> QED
    BY <2>1, <2>2, BeginQuiet
<1>15. CASE ProcessDies
  BY <1>15 DEF ProcessDies, FreshProcess, BeginInv
<1>16. CASE PowerFails
  BY <1>16 DEF PowerFails, FreshProcess, BeginInv
<1>17. CASE UNCHANGED vars
  BY <1>17, BeginQuiet, AppendGrows DEF BeginsNone
<1> QED
  BY <1>1, <1>2, <1>3, <1>4, <1>5, <1>6, <1>7, <1>8, <1>9, <1>10, <1>11, <1>12, <1>13, <1>14, <1>15, <1>16, <1>17
  DEF Next, ThreadNext

LEMMA VoltageStep ==
    ASSUME VoltageInv, [Next]_vars
    PROVE  VoltageInv'
<1>1. ASSUME NEW t \in Threads, Call(t) PROVE VoltageInv'
  BY <1>1 DEF Call, VoltageInv
<1>2. ASSUME NEW t \in Threads, Initialize(t) PROVE VoltageInv'
  BY <1>2 DEF Initialize, VoltageInv
<1>3. ASSUME NEW t \in Threads, OpenTrace(t) PROVE VoltageInv'
  BY <1>3 DEF OpenTrace, VoltageInv
<1>4. ASSUME NEW t \in Threads, WriteSession(t) PROVE VoltageInv'
  BY <1>4 DEF WriteSession, VoltageInv
<1>5. ASSUME NEW t \in Threads, FlushSession(t) PROVE VoltageInv'
  BY <1>5 DEF FlushSession, VoltageInv
<1>6. ASSUME NEW t \in Threads, Refuse(t) PROVE VoltageInv'
  BY <1>6 DEF Refuse, VoltageInv
<1>7. ASSUME NEW t \in Threads, Admit(t) PROVE VoltageInv'
  BY <1>7 DEF Admit, VoltageInv
<1>8. ASSUME NEW t \in Threads, BeginCall(t) PROVE VoltageInv'
  BY <1>8 DEF BeginCall, VoltageInv
<1>9. ASSUME NEW t \in Threads, FlushBegin(t) PROVE VoltageInv'
  BY <1>9 DEF FlushBegin, VoltageInv
<1>10. ASSUME NEW t \in Threads, Forward(t) PROVE VoltageInv'
  <2>1. CASE forwarded' = forwarded
    BY <2>1 DEF VoltageInv
  <2>2. CASE /\ api[t] = "voltage" => policy[t]
             /\ forwarded' = forwarded \cup {Calling(t)}
    <3>1. Calling(t).api = "voltage" => Calling(t).policy
      BY <2>2 DEF Calling
    <3> QED
      BY <2>2, <3>1, Zenon DEF VoltageInv
  <2> QED
    BY <1>10, <2>1, <2>2 DEF Forward
<1>11. ASSUME NEW t \in Threads, ProviderReturns(t) PROVE VoltageInv'
  BY <1>11 DEF ProviderReturns, VoltageInv
<1>12. ASSUME NEW t \in Threads, EndCall(t) PROVE VoltageInv'
  BY <1>12 DEF EndCall, VoltageInv
<1>13. ASSUME NEW t \in Threads, FlushEnd(t) PROVE VoltageInv'
  BY <1>13 DEF FlushEnd, VoltageInv
<1>14. CASE AgePasses
  BY <1>14 DEF AgePasses, VoltageInv
<1>15. CASE ProcessDies
  BY <1>15 DEF ProcessDies, FreshProcess, VoltageInv
<1>16. CASE PowerFails
  BY <1>16 DEF PowerFails, FreshProcess, VoltageInv
<1>17. CASE UNCHANGED vars
  BY <1>17 DEF VoltageInv
<1> QED
  BY <1>1, <1>2, <1>3, <1>4, <1>5, <1>6, <1>7, <1>8, <1>9, <1>10, <1>11, <1>12, <1>13, <1>14, <1>15, <1>16, <1>17
  DEF Next, ThreadNext

(* The end of a call *)

(* A thread that is to commit its end record has just written it, or holds *)
(* the mutex and finds everything as it left it.                           *)
LEMMA EndFlushKept ==
    ASSUME ThreadsOK, [Next]_vars, NEW u \in Threads, pc'[u] = "endFlush"
    PROVE  \/ EndCall(u)
           \/ /\ pc[u] = "endFlush"
              /\ call'[u] = call[u] /\ api'[u] = api[u] /\ force' = force
<1> USE ProxyAssumption DEF ThreadsOK, Recording, Go
<1>1. ASSUME NEW t \in Threads, Call(t) \/ Initialize(t) \/ OpenTrace(t)
             \/ Refuse(t) \/ Admit(t) \/ Forward(t) \/ ProviderReturns(t)
      PROVE  /\ pc[u] = "endFlush"
             /\ call'[u] = call[u] /\ api'[u] = api[u] /\ force' = force
  BY <1>1 DEF Call, Initialize, OpenTrace, Refuse, Admit, Forward, ProviderReturns
<1>2. ASSUME NEW t \in Threads, WriteSession(t) \/ BeginCall(t) PROVE FALSE
  BY <1>2 DEF WriteSession, BeginCall
<1>3. ASSUME NEW t \in Threads, FlushSession(t) \/ FlushBegin(t) \/ FlushEnd(t)
      PROVE  FALSE
  BY <1>3 DEF FlushSession, FlushBegin, FlushEnd
<1>4. ASSUME NEW t \in Threads, EndCall(t) PROVE t = u
  BY <1>4 DEF EndCall
<1>5. CASE AgePasses
  BY <1>5 DEF AgePasses
<1>6. CASE ProcessDies \/ PowerFails
  BY <1>6 DEF ProcessDies, PowerFails, FreshProcess
<1> QED
  BY <1>1, <1>2, <1>3, <1>4, <1>5, <1>6 DEF Next, ThreadNext

(* What EndCall leaves behind when its write succeeds.                     *)
LEMMA EndWritten ==
    ASSUME ThreadsOK, TraceOK, NEW u \in Threads, EndCall(u), pc'[u] = "endFlush"
    PROVE  /\ call' = call /\ api' = api
           /\ api[u] # "ordinary" => force'
           /\ HasEnd(call[u], Len(file))'
<1> DEFINE row == CallEnd(sequence, call[u], api[u])
<1>1. WriteSucceeds(row) /\ call' = call /\ api' = api
  BY DEF EndCall, Go, ThreadsOK
<1>2. /\ row \in Row /\ row.type = "callEnd" /\ row.call = call[u]
      /\ row.api = api[u]
  <2>1. sequence \in Nat /\ call[u] \in Nat /\ api[u] \in Apis
    BY ProxyAssumption DEF TraceOK, ThreadsOK
  <2>2. row \in Row
    BY <2>1, RowTypes
  <2> QED
    BY <2>2 DEF CallEnd
<1>3. api[u] # "ordinary" => IsImmediateCommitBoundary(row)
  BY <1>2 DEF IsImmediateCommitBoundary, ThreadsOK, Apis
<1> HIDE DEF row
<1>4. /\ Len(file') = Len(file) + 1 /\ Len(file) \in Nat
      /\ file'[Len(file) + 1] = row
  BY <1>1, <1>2, FileAppend, FileLength DEF WriteSucceeds, TraceOK
<1>5. api[u] # "ordinary" => force'
  BY <1>1, <1>3, Zenon DEF WriteSucceeds
<1>6. HasEnd(call[u], Len(file))'
  BY <1>1, <1>2, <1>4 DEF HasEnd
<1> QED
  BY <1>1, <1>5, <1>6

(* A call is reported by a failed write, or by a commit that was due.      *)
LEMMA ReportedStep ==
    ASSUME ThreadsOK, HistoryOK, [Next]_vars, writeFaults' = 0,
           NEW c \in reported', c \notin reported
    PROVE  \E t \in Threads :
              /\ pc[t] = "endFlush" /\ api[t] # "ordinary" /\ c = call[t]
              /\ GroupCommit /\ file' = file
<1>1. ASSUME NEW t \in Threads, FlushEnd(t)
      PROVE  /\ pc[t] = "endFlush" /\ api[t] # "ordinary" /\ c = call[t]
             /\ GroupCommit /\ file' = file
  BY <1>1 DEF FlushEnd, Report
<1>2. ASSUME NEW t \in Threads, EndCall(t) PROVE FALSE
  BY <1>2 DEF EndCall, WriteFails, HistoryOK
<1>3. ASSUME NEW t \in Threads, Call(t) \/ Initialize(t) \/ OpenTrace(t)
             \/ WriteSession(t) \/ FlushSession(t) \/ Refuse(t) \/ Admit(t)
             \/ BeginCall(t) \/ FlushBegin(t) \/ Forward(t) \/ ProviderReturns(t)
      PROVE  FALSE
  BY <1>3 DEF Call, Initialize, OpenTrace, WriteSession, FlushSession, Refuse,
              Admit, BeginCall, FlushBegin, Forward, ProviderReturns
<1>4. ~AgePasses /\ ~ProcessDies /\ ~PowerFails
  BY DEF AgePasses, ProcessDies, PowerFails
<1> QED
  BY <1>1, <1>2, <1>3, <1>4 DEF Next, ThreadNext

LEMMA EndStep ==
    ASSUME FlagsOK, ThreadsOK, TraceOK, HistoryOK, CallsBounded, DueInv,
           EndInv, [Next]_vars
    PROVE  EndInv'
<1>1. ASSUME NEW u \in Threads, pc'[u] = "endFlush", api'[u] # "ordinary"
      PROVE  force'
  <2>1. CASE EndCall(u)
    BY <1>1, <2>1, EndWritten
  <2>2. CASE pc[u] = "endFlush" /\ api'[u] = api[u] /\ force' = force
    <3>1. force
      BY <1>1, <2>2 DEF EndInv
    <3> QED
      BY <2>2, <3>1
  <2> QED
    BY <1>1, <2>1, <2>2, EndFlushKept
<1>2. ASSUME writeFaults' = 0, NEW u \in Threads, pc'[u] = "endFlush"
      PROVE  HasEnd(call[u], Len(file))'
  <2>1. CASE EndCall(u)
    BY <1>2, <2>1, EndWritten
  <2>2. CASE pc[u] = "endFlush" /\ call'[u] = call[u]
    <3>1. HasEnd(call[u], Len(file))
      BY <1>2, <2>2, FaultsGrow DEF EndInv
    <3>2. ~ProcessDies /\ ~PowerFails
      BY <1>2 DEF ProcessDies, PowerFails, FreshProcess
    <3>3. Grows \/ UNCHANGED vars
      BY <3>2, GrowStep
    <3> QED
      BY <2>2, <3>1, <3>3, FileLength DEF HasEnd, Grows, TraceOK
  <2> QED
    BY <1>2, <2>1, <2>2, EndFlushKept
<1>3. ASSUME writeFaults' = 0, flushFaults' = 0, NEW c \in reported'
      PROVE  HasEnd(c, durable)'
  <2>1. writeFaults = 0 /\ flushFaults = 0
    BY <1>3, FaultsGrow
  <2>2. CASE c \in reported
    <3>1. HasEnd(c, durable)
      BY <2>1, <2>2 DEF EndInv
    <3>2. durable \in Nat /\ durable' \in Int /\ durable' >= durable
      BY KeptStep, FileLength, TraceStep DEF TraceOK
    <3>3. \A i \in 1 .. durable : file'[i] = file[i]
      BY KeptStep
    <3> QED
      BY <3>1, <3>2, <3>3 DEF HasEnd
  <2>3. ASSUME NEW t \in Threads, pc[t] = "endFlush", api[t] # "ordinary",
               c = call[t], GroupCommit, file' = file
        PROVE  HasEnd(c, durable)'
    <3>1. force /\ records # 0
      BY <2>3 DEF EndInv, DueInv
    <3>2. FlushSucceeds
      BY <1>3, <2>1, <2>3, <3>1 DEF GroupCommit, FlushDue, FlushFails
    <3>3. HasEnd(call[t], Len(file))
      BY <2>1, <2>3 DEF EndInv
    <3> QED
      BY <2>3, <3>2, <3>3 DEF HasEnd, FlushSucceeds
  <2> QED
    BY <1>3, <2>2, <2>3, ReportedStep
<1> QED
  BY <1>1, <1>2, <1>3 DEF EndInv

(* The group that may be lost *)

LEMMA UncommittedFinite ==
    ASSUME TraceOK
    PROVE  /\ IsFiniteSet(Uncommitted) /\ Cardinality(Uncommitted) \in Nat
           /\ Uncommitted \subseteq 1 .. Len(file)
<1>1. durable + 1 \in Int /\ Len(file) \in Int /\ durable \in Nat
  BY FileLength DEF TraceOK
<1>2. IsFiniteSet(durable + 1 .. Len(file))
  BY <1>1, FS_Interval
<1>3. Uncommitted \subseteq durable + 1 .. Len(file)
  BY DEF Uncommitted
<1>4. IsFiniteSet(Uncommitted)
  BY <1>2, <1>3, FS_Subset
<1> QED
  BY <1>1, <1>3, <1>4, FS_CardinalityType

LEMMA FewerUncommitted ==
    ASSUME TraceOK, Uncommitted' \subseteq Uncommitted
    PROVE  Cardinality(Uncommitted') <= Cardinality(Uncommitted)
  BY UncommittedFinite, FS_Subset

LEMMA OneMoreUncommitted ==
    ASSUME TraceOK, NEW row \in Row, file' = Append(file, row), durable' = durable
    PROVE  /\ Cardinality(Uncommitted') <= Cardinality(Uncommitted) + 1
           /\ Cardinality(Uncommitted') \in Nat
<1>1. /\ Len(file) \in Nat /\ Len(file') = Len(file) + 1 /\ durable \in Nat
      /\ \A i \in 1 .. Len(file) : file'[i] = file[i]
  BY FileAppend, FileLength DEF TraceOK
<1>2. Uncommitted' \subseteq Uncommitted \cup {Len(file) + 1}
  BY <1>1 DEF Uncommitted
<1>3. Len(file) + 1 \notin Uncommitted
  BY <1>1 DEF Uncommitted
<1>4. /\ IsFiniteSet(Uncommitted \cup {Len(file) + 1})
      /\ Cardinality(Uncommitted \cup {Len(file) + 1}) = Cardinality(Uncommitted) + 1
  BY <1>3, UncommittedFinite, FS_AddElement
<1> QED
  BY <1>2, <1>4, FS_Subset, FS_CardinalityType

LEMMA TornNotCounted ==
    ASSUME TraceOK, file' = Append(file, Torn), durable' = durable
    PROVE  Uncommitted' \subseteq Uncommitted
<1>1. Torn \in Row
  BY RowTypes DEF Apis
<1>2. /\ Len(file) \in Nat /\ Len(file') = Len(file) + 1 /\ durable \in Nat
      /\ \A i \in 1 .. Len(file) : file'[i] = file[i]
      /\ file'[Len(file) + 1] = Torn
  BY <1>1, FileAppend, FileLength DEF TraceOK
<1> QED
  BY <1>2 DEF Uncommitted

(* Whoever writes holds the mutex afterwards, or has written nothing whole. *)
LEMMA GroupWrite ==
    ASSUME TraceOK, GroupInv, recorder = NoThread, durable' = durable,
           flushFaults' = flushFaults,
           NEW row \in Row, NEW t \in Threads,
           OwnTrace \/ file = <<>>,
           \/ WriteSucceeds(row) /\ recorder' = t
           \/ WriteFails /\ recorder' = recorder /\ (OwnTrace' => OwnTrace)
    PROVE  GroupInv'
<1> SUFFICES ASSUME flushFaults = 0
             PROVE  /\ Cardinality(Uncommitted') <= MaxRecords
                    /\ OwnTrace' => Cardinality(Uncommitted') <= records'
                    /\ records' <= MaxRecords
                    /\ recorder' = NoThread => records' < MaxRecords
  BY DEF GroupInv
<1>1. /\ records < MaxRecords /\ Cardinality(Uncommitted) <= MaxRecords
      /\ OwnTrace => Cardinality(Uncommitted) <= records
      /\ records \in Nat /\ MaxRecords \in Nat
      /\ Cardinality(Uncommitted) \in Nat
  BY ProxyAssumption, UncommittedFinite DEF GroupInv, TraceOK
<1>2. CASE WriteSucceeds(row) /\ recorder' = t
  <2>1. file' = Append(file, row) /\ records' = records + 1
    BY <1>2 DEF WriteSucceeds
  <2>2. Cardinality(Uncommitted) <= records
    <3>1. CASE file = <<>>
      <4>1. Uncommitted = {}
        BY <3>1, EmptySeq, UncommittedFinite
      <4> QED
        BY <1>1, <4>1, FS_EmptySet
    <3> QED
      BY <1>1, <3>1
  <2>3. /\ Cardinality(Uncommitted') <= Cardinality(Uncommitted) + 1
        /\ Cardinality(Uncommitted') \in Nat
    BY <2>1, OneMoreUncommitted
  <2>4. recorder' # NoThread
    BY <1>2, ProxyAssumption
  <2> QED
    BY <1>1, <2>1, <2>2, <2>3, <2>4
<1>3. CASE WriteFails /\ recorder' = recorder /\ (OwnTrace' => OwnTrace)
  <2>1. records' = records
    BY <1>3 DEF WriteFails
  <2>2. Uncommitted' \subseteq Uncommitted
    BY <1>3, TornNotCounted DEF WriteFails, Uncommitted
  <2>3. Cardinality(Uncommitted') <= Cardinality(Uncommitted)
    BY <2>2, FewerUncommitted
  <2>4. Cardinality(Uncommitted') \in Nat
    BY <2>2, UncommittedFinite, FS_Subset, FS_CardinalityType
  <2> QED
    BY <1>1, <1>3, <2>1, <2>3, <2>4
<1> QED
  BY <1>2, <1>3

LEMMA GroupCommitted ==
    ASSUME TraceOK, HistoryOK, GroupInv, OwnTrace, file' = file, GroupCommit
    PROVE  GroupInv'
<1>1. /\ records \in Nat /\ MaxRecords \in Nat \ {0}
      /\ Cardinality(Uncommitted) \in Nat
  BY ProxyAssumption, UncommittedFinite DEF TraceOK
<1>2. CASE FlushSucceeds
  <2>1. records' = 0 /\ durable' = Len(file)
    BY <1>2 DEF FlushSucceeds
  <2>2. Uncommitted' = {}
    BY <2>1, FileLength DEF Uncommitted, TraceOK
  <2>3. Cardinality(Uncommitted') = 0
    BY <2>2, FS_EmptySet
  <2> QED
    BY <1>1, <2>1, <2>3 DEF GroupInv
<1>3. CASE FlushFails
  BY <1>3 DEF FlushFails, GroupInv, HistoryOK
<1>4. CASE ~FlushDue
  <2>1. UNCHANGED <<durable, flushPolicy, flushFaults>>
    BY <1>4 DEF GroupCommit
  <2>2. Uncommitted' = Uncommitted
    BY <2>1 DEF Uncommitted
  <2>3. records < MaxRecords
    BY <1>1, <1>4 DEF FlushDue
  <2> QED
    BY <1>1, <2>1, <2>2, <2>3 DEF GroupInv
<1> QED
  BY <1>2, <1>3, <1>4 DEF GroupCommit

(* A new process starts its own count, and a power cut leaves no more.      *)
LEMMA GroupCrash ==
    ASSUME TraceOK, GroupInv, FreshProcess, UNCHANGED <<durable, flushFaults>>,
           Uncommitted' \subseteq Uncommitted
    PROVE  GroupInv'
<1>1. Cardinality(Uncommitted') <= Cardinality(Uncommitted)
  BY FewerUncommitted
<1>2. /\ Cardinality(Uncommitted) \in Nat /\ Cardinality(Uncommitted') \in Nat
  BY UncommittedFinite, FS_Subset, FS_CardinalityType
<1>3. ~OwnTrace' /\ records' = 0
  BY DEF FreshProcess, OwnTrace
<1> QED
  BY <1>1, <1>2, <1>3, ProxyAssumption DEF GroupInv

LEMMA PowerCutUncommitted ==
    ASSUME TraceOK, PowerFails
    PROVE  Uncommitted' \subseteq Uncommitted
<1>1. durable' = durable /\ durable \in Nat /\ Len(file) \in Nat
  BY FileLength DEF PowerFails, TraceOK
<1>2. ASSUME NEW n \in durable .. Len(file), file' = SubSeq(file, 1, n)
      PROVE  Uncommitted' \subseteq Uncommitted
  <2>1. n \in 0 .. Len(file)
    BY <1>1
  <2>2. Len(file') = n /\ \A i \in 1 .. n : file'[i] = file[i]
    BY <1>2, <2>1, FileCut DEF TraceOK
  <2> QED
    BY <1>1, <2>1, <2>2 DEF Uncommitted
<1>3. ASSUME NEW n \in durable .. Len(file) - 1,
             file' = Append(SubSeq(file, 1, n), Torn)
      PROVE  Uncommitted' \subseteq Uncommitted
  <2>1. n \in 0 .. Len(file)
    BY <1>1
  <2>2. /\ SubSeq(file, 1, n) \in Seq(Row) /\ Len(SubSeq(file, 1, n)) = n
        /\ \A i \in 1 .. n : SubSeq(file, 1, n)[i] = file[i]
    BY <2>1, FileCut DEF TraceOK
  <2>3. Torn \in Row
    BY RowTypes DEF Apis
  <2>4. /\ Len(file') = n + 1 /\ file'[n + 1] = Torn
        /\ \A i \in 1 .. n : file'[i] = SubSeq(file, 1, n)[i]
    BY <1>3, <2>2, <2>3, FileAppend
  <2>5. \A i \in 1 .. n : file'[i] = file[i]
    BY <2>2, <2>4
  <2> QED
    BY <1>1, <2>1, <2>4, <2>5 DEF Uncommitted
<1>4. CASE file' = <<>>
  BY <1>1, <1>4, EmptySeq DEF Uncommitted
<1> QED
  BY <1>2, <1>3, <1>4 DEF PowerFails

LEMMA GroupStep ==
    ASSUME FlagsOK, ThreadsOK, TraceOK, HistoryOK, StagesInv, SessionInv,
           GroupInv, [Next]_vars
    PROVE  GroupInv'
<1>1. ASSUME UNCHANGED <<recorder, records, file, durable, flushFaults>>,
             OwnTrace' => OwnTrace
      PROVE  GroupInv'
  <2>1. Uncommitted' = Uncommitted
    BY <1>1 DEF Uncommitted
  <2> QED
    BY <1>1, <2>1 DEF GroupInv
<1>2. ASSUME NEW t \in Threads, Call(t) \/ Refuse(t) \/ Admit(t) \/ Forward(t)
             \/ ProviderReturns(t)
      PROVE  GroupInv'
  <2>1. UNCHANGED <<recorder, records, file, durable, flushFaults>>
    BY <1>2 DEF Call, Refuse, Admit, Forward, ProviderReturns
  <2>2. OwnTrace' => OwnTrace
    BY <1>2 DEF Call, Refuse, Admit, Forward, ProviderReturns, Go, OwnTrace,
                ThreadsOK
  <2> QED
    BY <1>1, <2>1, <2>2
<1>3. ASSUME NEW t \in Threads, Initialize(t) \/ OpenTrace(t) PROVE GroupInv'
  <2>1. UNCHANGED <<recorder, records, file, durable, flushFaults>>
    BY <1>3 DEF Initialize, OpenTrace
  <2>2. ~OwnTrace'
    BY <1>3 DEF Initialize, OpenTrace, Go, OwnTrace, ThreadsOK, StagesInv, Opening
  <2> QED
    BY <1>1, <2>1, <2>2
<1>4. ASSUME NEW t \in Threads, WriteSession(t) PROVE GroupInv'
  <2>1. /\ recorder = NoThread /\ UNCHANGED <<durable, flushFaults>>
        /\ file = <<>>
        /\ \A u \in Threads \ {t} : pc[u] \notin Opening
    BY <1>4 DEF WriteSession, StagesInv, SessionInv, Opening
  <2>2. Session(sequence) \in Row
    BY RowTypes DEF TraceOK, Apis
  <2>3. CASE WriteSucceeds(Session(sequence)) /\ recorder' = t
    BY <2>1, <2>2, <2>3, GroupWrite
  <2>4. CASE WriteFails /\ recorder' = recorder /\ init' = "failed" /\ Go(t, "out")
    <3>1. ~OwnTrace'
      BY <2>1, <2>4 DEF OwnTrace, Go, ThreadsOK, Opening
    <3> QED
      BY <2>1, <2>2, <2>4, <3>1, GroupWrite
  <2> QED
    BY <1>4, <2>3, <2>4 DEF WriteSession
<1>5. ASSUME NEW t \in Threads, BeginCall(t) PROVE GroupInv'
  <2>1. /\ recorder = NoThread /\ UNCHANGED <<durable, flushFaults>> /\ OwnTrace
    BY <1>5 DEF BeginCall, StagesInv, InCall, OwnTrace
  <2>2. CallBegin(sequence, calls + 1, api[t], policy[t]) \in Row
    <3>1. sequence \in Nat /\ calls + 1 \in Nat /\ api[t] \in Apis
      BY ProxyAssumption DEF TraceOK, ThreadsOK
    <3>2. policy[t] \in BOOLEAN
      BY Zenon DEF FlagsOK
    <3> QED
      BY <3>1, <3>2, RowTypes
  <2> QED
    BY <1>5, <2>1, <2>2, GroupWrite DEF BeginCall
<1>6. ASSUME NEW t \in Threads, EndCall(t) PROVE GroupInv'
  <2>1. /\ recorder = NoThread /\ UNCHANGED <<durable, flushFaults>> /\ OwnTrace
    BY <1>6 DEF EndCall, StagesInv, InCall, OwnTrace
  <2>2. CallEnd(sequence, call[t], api[t]) \in Row
    <3>1. sequence \in Nat /\ call[t] \in Nat /\ api[t] \in Apis
      BY ProxyAssumption DEF TraceOK, ThreadsOK
    <3> QED
      BY <3>1, RowTypes
  <2> QED
    BY <1>6, <2>1, <2>2, GroupWrite DEF EndCall
<1>7. ASSUME NEW t \in Threads, FlushSession(t) \/ FlushBegin(t) \/ FlushEnd(t)
      PROVE  GroupInv'
  <2>1. GroupCommit /\ file' = file /\ OwnTrace
    BY <1>7 DEF FlushSession, FlushBegin, FlushEnd, StagesInv, InCall, OwnTrace
  <2> QED
    BY <2>1, GroupCommitted
<1>8. CASE AgePasses
  BY <1>1, <1>8 DEF AgePasses, OwnTrace
<1>9. CASE ProcessDies
  <2>1. FreshProcess /\ UNCHANGED <<file, durable, flushFaults>>
    BY <1>9 DEF ProcessDies
  <2> QED
    BY <2>1, GroupCrash DEF Uncommitted
<1>10. CASE PowerFails
  <2>1. FreshProcess /\ UNCHANGED <<durable, flushFaults>>
    BY <1>10 DEF PowerFails
  <2> QED
    BY <1>10, <2>1, PowerCutUncommitted, GroupCrash
<1>11. CASE UNCHANGED vars
  BY <1>1, <1>11 DEF OwnTrace
<1> QED
  BY <1>2, <1>3, <1>4, <1>5, <1>6, <1>7, <1>8, <1>9, <1>10, <1>11
  DEF Next, ThreadNext

-----------------------------------------------------------------------------
(* What the reader makes of the file. A thread that has written the begin  *)
(* of its call and not yet the end has that call under way, under a number *)
(* of its own; the numbers under way are not beyond the last one given.    *)
Asked == {"beginFlush", "forward", "provider", "end"}

RowsRead(rows) == \A i \in 1 .. Len(rows) : rows[i] # Torn => AcceptedAt(rows, i)

OwnRows ==
    /\ Len(file) = sequence /\ \A i \in 1 .. Len(file) : file[i] # Torn
    /\ \A c \in UnderWay(file, Len(file)) : c[1] \in 0 .. calls

AskedRows ==
    /\ \A t \in Threads : pc[t] \in Asked =>
          <<call[t], api[t]>> \in UnderWay(file, Len(file)) /\ call[t] <= calls
    /\ \A t, u \in Threads :
          (t # u /\ pc[t] \in Asked /\ pc[u] \in Asked) => call[t] # call[u]

ReadInv ==
    writeFaults = 0 => RowsRead(file) /\ (OwnTrace => OwnRows) /\ AskedRows

(* Files that agree up to a row are read alike up to it.                   *)
LEMMA ReadAlike ==
    ASSUME NEW rows, NEW others, NEW n \in Nat, \A i \in 1 .. n : others[i] = rows[i]
    PROVE  /\ UnderWay(others, n) = UnderWay(rows, n)
           /\ \A i \in 1 .. n : AcceptedAt(others, i) <=> AcceptedAt(rows, i)
<1>1. ASSUME NEW m \in 0 .. n PROVE UnderWay(others, m) = UnderWay(rows, m)
  <2> SUFFICES ASSUME NEW c PROVE BegunBy(others, m, c) <=> BegunBy(rows, m, c)
    BY UnderWayIs, Zenon
  <2>1. \A j \in 1 .. m : others[j] = rows[j] /\ \A k \in j + 1 .. m : others[k] = rows[k]
    BY <1>1
  <2> QED
    BY <2>1 DEF BegunBy
<1>2. ASSUME NEW i \in 1 .. n PROVE AcceptedAt(others, i) <=> AcceptedAt(rows, i)
  <2>1. UnderWay(others, i - 1) = UnderWay(rows, i - 1)
    BY <1>1, <1>2
  <2> QED
    BY <1>2, <2>1 DEF AcceptedAt
<1> QED
  BY <1>1, <1>2

(* A row is added.                                                         *)
LEMMA RowAdded ==
    ASSUME NEW rows \in Seq(Row), NEW row \in Row, RowsRead(rows),
           RowAccepted([expected |-> Len(rows), open |-> UnderWay(rows, Len(rows))], row)
    PROVE  /\ RowsRead(Append(rows, row))
           /\ UnderWay(Append(rows, row), Len(Append(rows, row))) =
                 CASE row.type = "callBegin" -> UnderWay(rows, Len(rows)) \cup {Under(row)}
                   [] row.type = "callEnd"   -> UnderWay(rows, Len(rows)) \ {Under(row)}
                   [] OTHER                  -> UnderWay(rows, Len(rows))
<1> DEFINE n == Len(rows)
           more == Append(rows, row)
<1>1. /\ n \in Nat /\ Len(more) = n + 1 /\ more[n + 1] = row
      /\ \A i \in 1 .. n : more[i] = rows[i]
  BY FileAppend, FileLength
<1> HIDE DEF n, more
<1>2. /\ UnderWay(more, n) = UnderWay(rows, n)
      /\ \A i \in 1 .. n : AcceptedAt(more, i) <=> AcceptedAt(rows, i)
  BY <1>1, ReadAlike
<1>3. AcceptedAt(more, n + 1)
  <2>1. (n + 1) - 1 = n
    BY <1>1
  <2>2. RowAccepted([expected |-> n, open |-> UnderWay(more, n)], more[n + 1])
    BY <1>1, <1>2 DEF n
  <2> QED
    BY <2>1, <2>2 DEF AcceptedAt
<1>4. RowsRead(more)
  <2> SUFFICES ASSUME NEW i \in 1 .. n + 1, more[i] # Torn PROVE AcceptedAt(more, i)
    BY <1>1 DEF RowsRead
  <2>1. CASE i = n + 1
    BY <1>3, <2>1
  <2>2. CASE i # n + 1
    <3>1. i \in 1 .. n
      BY <1>1, <2>2
    <3> QED
      BY <3>1, <1>1, <1>2 DEF RowsRead, n
  <2> QED
    BY <2>1, <2>2
<1>5. UnderWay(more, n + 1) =
         CASE row.type = "callBegin" -> UnderWay(rows, n) \cup {Under(row)}
           [] row.type = "callEnd"   -> UnderWay(rows, n) \ {Under(row)}
           [] OTHER                  -> UnderWay(rows, n)
  BY <1>1, <1>2, NextUnderWay
<1> QED
  BY <1>1, <1>4, <1>5 DEF n, more

(* A step that writes nothing: no thread begins to have a call under way.  *)
LEMMA ReadKept ==
    ASSUME ReadInv, file' = file, writeFaults' = writeFaults,
           OwnTrace' => OwnTrace /\ UNCHANGED <<sequence, calls>>,
           \A t \in Threads : pc'[t] \in Asked =>
              pc[t] \in Asked /\ call'[t] = call[t] /\ api'[t] = api[t] /\ calls' = calls
    PROVE  ReadInv'
<1>1. AskedRows => AskedRows'
  BY DEF AskedRows
<1>2. RowsRead(file') <=> RowsRead(file)
  OBVIOUS
<1>3. OwnRows /\ (OwnTrace' => OwnTrace) /\ OwnTrace' => OwnRows'
  BY DEF OwnRows
<1> QED
  BY <1>1, <1>2, <1>3 DEF ReadInv

LEMMA ReadInit == Init => ReadInv
<1> SUFFICES ASSUME Init PROVE ReadInv
  OBVIOUS
<1>1. file = <<>> /\ Len(file) = 0 /\ 1 .. Len(file) = {}
  BY EmptySeq DEF Init
<1>2. ~OwnTrace /\ \A t \in Threads : pc[t] \notin Asked
  BY DEF Init, OwnTrace, Asked
<1> QED
  BY <1>1, <1>2 DEF ReadInv, RowsRead, AskedRows

(* The session record of a new trace.                                      *)
LEMMA SessionRead ==
    ASSUME ThreadsOK, TraceOK, HistoryOK, StagesInv, SessionInv, ReadInv,
           NEW t \in Threads, WriteSession(t), writeFaults' = 0
    PROVE  ReadInv'
<1>1. /\ pc[t] = "session" /\ sequence = 0 /\ file = <<>> /\ init = "running"
      /\ sequence' = 1 /\ calls' = calls /\ call' = call /\ api' = api
      /\ pc' = [pc EXCEPT ![t] = "sessionFlush"] \/ pc' = [pc EXCEPT ![t] = "out"]
  BY DEF WriteSession, SessionInv, StagesInv, Opening, Go
<1>2. \A u \in Threads : pc'[u] \notin Asked
  <2>1. \A u \in Threads : pc[u] \notin Asked
    BY <1>1 DEF StagesInv, InCall, Asked
  <2> QED
    BY <1>1, <2>1 DEF Asked, ThreadsOK
<1>3. Len(file) = 0 /\ UnderWay(file, 0) = {} /\ RowsRead(file)
  BY <1>1, EmptySeq DEF UnderWay, RowsRead
<1>4. Session(0) \in Row /\ Session(0).type = "session" /\ Session(0) # Torn
  BY DEF Session, Row, Torn
<1>5. file' = Append(file, Session(0)) \/ writeFaults' = writeFaults + 1
  BY <1>1 DEF WriteSession, WriteSucceeds, WriteFails
<1>6. CASE file' = Append(file, Session(0))
  <2>1. RowAccepted([expected |-> Len(file), open |-> UnderWay(file, Len(file))], Session(0))
    BY <1>3 DEF RowAccepted, Session
  <2>2. RowsRead(file') /\ UnderWay(file', Len(file')) = UnderWay(file, Len(file))
    BY <1>3, <1>4, <1>6, <2>1, RowAdded DEF TraceOK
  <2>3. Len(file') = 1 /\ file'[1] = Session(0)
    BY <1>3, <1>4, <1>6, FileAppend DEF TraceOK
  <2>4. OwnRows'
    BY <1>1, <1>3, <1>4, <2>2, <2>3 DEF OwnRows
  <2> QED
    BY <1>2, <2>2, <2>4 DEF ReadInv, AskedRows
<1>7. CASE writeFaults' = writeFaults + 1
  BY <1>7, ProxyAssumption DEF HistoryOK
<1> QED
  BY <1>5, <1>6, <1>7

(* A call begins: its number is a new one.                                 *)
LEMMA BeginRead ==
    ASSUME FlagsOK, ThreadsOK, TraceOK, HistoryOK, StagesInv, SessionInv, ReadInv,
           NEW t \in Threads, BeginCall(t), writeFaults' = 0
    PROVE  ReadInv'
<1> DEFINE row == CallBegin(sequence, calls + 1, api[t], policy[t])
<1>1. /\ pc[t] = "begin" /\ calls' = calls + 1 /\ sequence' = sequence + 1
      /\ call' = [call EXCEPT ![t] = calls + 1] /\ api' = api
      /\ init = "ready" /\ init' = init
  BY DEF BeginCall, StagesInv, InCall
<1>2. calls \in Nat /\ sequence \in Nat /\ Len(file) \in Nat /\ api[t] \in Apis
  BY ProxyAssumption, FileLength DEF TraceOK, ThreadsOK
<1>3. writeFaults = 0 /\ file' = Append(file, row) /\ Go(t, "beginFlush")
  BY ProxyAssumption DEF BeginCall, WriteSucceeds, WriteFails, HistoryOK
<1>4. /\ RowsRead(file) /\ OwnRows /\ AskedRows /\ HasSession
  BY <1>1, <1>3 DEF ReadInv, OwnTrace, SessionInv
<1>5. row \in Row
  <2>1. policy[t] \in BOOLEAN
    BY Zenon DEF FlagsOK
  <2> QED
    BY <1>2, <2>1, RowTypes
<1>6. row.type = "callBegin" /\ Under(row) = <<calls + 1, api[t]>> /\ row # Torn
      /\ row.call = calls + 1 /\ row.sequence = Len(file)
  BY <1>4 DEF CallBegin, Under, Torn, OwnRows
<1>7. Len(file) # 0
  BY <1>4, FileLength DEF HasSession, TraceOK
<1>8. \A a \in Apis : <<calls + 1, a>> \notin UnderWay(file, Len(file))
  BY <1>2, <1>4 DEF OwnRows
<1> HIDE DEF row
<1>9. RowAccepted([expected |-> Len(file), open |-> UnderWay(file, Len(file))], row)
  BY <1>6, <1>7, <1>8 DEF RowAccepted
<1>10. /\ RowsRead(file')
       /\ UnderWay(file', Len(file')) = UnderWay(file, Len(file)) \cup {<<calls + 1, api[t]>>}
  BY <1>3, <1>4, <1>5, <1>6, <1>9, RowAdded DEF TraceOK
<1>11. OwnRows'
  <2>1. /\ Len(file') = Len(file) + 1 /\ file'[Len(file) + 1] = row
        /\ \A i \in 1 .. Len(file) : file'[i] = file[i]
    BY <1>3, <1>5, FileAppend DEF TraceOK
  <2>2. \A i \in 1 .. Len(file') : file'[i] # Torn
    BY <1>2, <1>4, <1>6, <2>1 DEF OwnRows
  <2>3. \A c \in UnderWay(file', Len(file')) : c[1] \in 0 .. calls'
    BY <1>1, <1>2, <1>4, <1>10 DEF OwnRows
  <2> QED
    BY <1>1, <1>4, <2>1, <2>2, <2>3 DEF OwnRows
<1>12. AskedRows'
  <2>1. \A u \in Threads \ {t} : pc'[u] = pc[u] /\ call'[u] = call[u]
    BY <1>1, <1>3 DEF Go, ThreadsOK
  <2>2. call'[t] = calls + 1 /\ \A u \in Threads : call[u] \in Nat
    BY <1>1, ProxyAssumption DEF ThreadsOK
  <2>3. \A u \in Threads : pc'[u] \in Asked =>
           <<call'[u], api'[u]>> \in UnderWay(file', Len(file')) /\ call'[u] <= calls'
    BY <1>1, <1>2, <1>4, <1>10, <2>1, <2>2 DEF AskedRows
  <2>4. \A u, v \in Threads :
           (u # v /\ pc'[u] \in Asked /\ pc'[v] \in Asked) => call'[u] # call'[v]
    <3>1. \A u \in Threads \ {t} : pc'[u] \in Asked => call'[u] # call'[t]
      <4> SUFFICES ASSUME NEW u \in Threads \ {t}, pc'[u] \in Asked
                   PROVE  call'[u] # call'[t]
        OBVIOUS
      <4>1. call'[u] = call[u] /\ call[u] <= calls /\ call[u] \in Nat
        BY <1>4, <2>1, <2>2 DEF AskedRows
      <4> QED
        BY <1>2, <2>2, <4>1
    <3>2. \A u, v \in Threads \ {t} :
             (u # v /\ pc'[u] \in Asked /\ pc'[v] \in Asked) => call'[u] # call'[v]
      BY <1>4, <2>1 DEF AskedRows
    <3> QED
      BY <3>1, <3>2
  <2> QED
    BY <2>3, <2>4 DEF AskedRows
<1> QED
  BY <1>10, <1>11, <1>12 DEF ReadInv

(* A call ends: it was under way, and no other thread's call with it.      *)
LEMMA EndRead ==
    ASSUME ThreadsOK, TraceOK, HistoryOK, StagesInv, SessionInv, ReadInv,
           NEW t \in Threads, EndCall(t), writeFaults' = 0
    PROVE  ReadInv'
<1> DEFINE row == CallEnd(sequence, call[t], api[t])
<1>1. /\ pc[t] = "end" /\ calls' = calls /\ sequence' = sequence + 1
      /\ call' = call /\ api' = api /\ init = "ready"
  BY DEF EndCall, StagesInv, InCall
<1>2. /\ sequence \in Nat /\ Len(file) \in Nat /\ api[t] \in Apis /\ call[t] \in Nat
  BY ProxyAssumption, FileLength DEF TraceOK, ThreadsOK
<1>3. writeFaults = 0 /\ file' = Append(file, row) /\ Go(t, "endFlush")
  BY ProxyAssumption DEF EndCall, WriteSucceeds, WriteFails, HistoryOK
<1>4. /\ RowsRead(file) /\ OwnRows /\ AskedRows /\ HasSession
  BY <1>1, <1>3 DEF ReadInv, OwnTrace, SessionInv
<1>5. row \in Row
  BY <1>2, RowTypes
<1>6. row.type = "callEnd" /\ Under(row) = <<call[t], api[t]>> /\ row # Torn
      /\ row.sequence = Len(file)
  BY <1>4 DEF CallEnd, Under, Torn, OwnRows
<1>7. Len(file) # 0
  BY <1>4, FileLength DEF HasSession, TraceOK
<1>8. <<call[t], api[t]>> \in UnderWay(file, Len(file))
  BY <1>1, <1>4 DEF AskedRows, Asked
<1> HIDE DEF row
<1>9. RowAccepted([expected |-> Len(file), open |-> UnderWay(file, Len(file))], row)
  BY <1>6, <1>7, <1>8 DEF RowAccepted, Under
<1>10. /\ RowsRead(file')
       /\ UnderWay(file', Len(file')) = UnderWay(file, Len(file)) \ {<<call[t], api[t]>>}
  BY <1>3, <1>4, <1>5, <1>6, <1>9, RowAdded DEF TraceOK
<1>11. OwnRows'
  <2>1. /\ Len(file') = Len(file) + 1 /\ file'[Len(file) + 1] = row
        /\ \A i \in 1 .. Len(file) : file'[i] = file[i]
    BY <1>3, <1>5, FileAppend DEF TraceOK
  <2>2. \A i \in 1 .. Len(file') : file'[i] # Torn
    BY <1>2, <1>4, <1>6, <2>1 DEF OwnRows
  <2> QED
    BY <1>1, <1>4, <1>10, <2>1, <2>2 DEF OwnRows
<1>12. AskedRows'
  <2>1. /\ pc' = [pc EXCEPT ![t] = "endFlush"] /\ "endFlush" \notin Asked
        /\ pc[t] \in Asked
    BY <1>1, <1>3 DEF Go, Asked
  <2>2. \A u \in Threads : pc'[u] \in Asked => u # t /\ pc[u] \in Asked
    BY <2>1 DEF ThreadsOK
  <2>3. \A u \in Threads : pc'[u] \in Asked =>
           <<call[u], api[u]>> \in UnderWay(file', Len(file')) /\ call[u] <= calls
    <3> SUFFICES ASSUME NEW u \in Threads, pc'[u] \in Asked
                 PROVE  <<call[u], api[u]>> \in UnderWay(file', Len(file')) /\ call[u] <= calls
      OBVIOUS
    <3>1. u # t /\ pc[u] \in Asked
      BY <2>2
    <3>2. call[u] # call[t]
      BY <1>4, <2>1, <3>1 DEF AskedRows
    <3> QED
      BY <1>4, <1>10, <3>1, <3>2 DEF AskedRows
  <2> QED
    BY <1>1, <1>4, <2>2, <2>3 DEF AskedRows
<1> QED
  BY <1>10, <1>11, <1>12 DEF ReadInv

(* A power cut: what is left is read as it was.                            *)
LEMMA CutRead ==
    ASSUME TraceOK, ReadInv, PowerFails
    PROVE  ReadInv'
<1>1. ~OwnTrace' /\ \A t \in Threads : pc'[t] \notin Asked
  BY DEF PowerFails, FreshProcess, OwnTrace, Asked
<1>2. writeFaults' = writeFaults /\ durable \in Nat /\ Len(file) \in Nat
  BY FileLength DEF PowerFails, TraceOK
<1> SUFFICES ASSUME RowsRead(file) PROVE RowsRead(file')
  BY <1>1, <1>2 DEF ReadInv, AskedRows
<1>3. ASSUME NEW n \in 0 .. Len(file), NEW rows, \A i \in 1 .. n : rows[i] = file[i]
      PROVE  \A i \in 1 .. n : rows[i] # Torn => AcceptedAt(rows, i)
  <2>1. \A i \in 1 .. n : AcceptedAt(rows, i) <=> AcceptedAt(file, i)
    <3>1. n \in Nat
      OBVIOUS
    <3> QED
      BY <1>3, <3>1, ReadAlike
  <2>2. \A i \in 1 .. n : i \in 1 .. Len(file)
    BY <1>2
  <2> QED
    BY <1>3, <2>1, <2>2 DEF RowsRead
<1>4. ASSUME NEW n \in durable .. Len(file), file' = SubSeq(file, 1, n)
      PROVE  RowsRead(file')
  <2>1. n \in 0 .. Len(file)
    BY <1>2
  <2>2. Len(file') = n /\ \A i \in 1 .. n : file'[i] = file[i]
    BY <1>4, <2>1, FileCut DEF TraceOK
  <2> QED
    BY <1>3, <2>1, <2>2 DEF RowsRead
<1>5. ASSUME NEW n \in durable .. Len(file) - 1, file' = Append(SubSeq(file, 1, n), Torn)
      PROVE  RowsRead(file')
  <2>1. n \in 0 .. Len(file)
    BY <1>2
  <2>2. /\ SubSeq(file, 1, n) \in Seq(Row) /\ Len(SubSeq(file, 1, n)) = n
        /\ \A i \in 1 .. n : SubSeq(file, 1, n)[i] = file[i]
    BY <2>1, FileCut DEF TraceOK
  <2>3. Torn \in Row
    BY RowTypes DEF Apis
  <2>4. /\ Len(file') = n + 1 /\ file'[n + 1] = Torn
        /\ \A i \in 1 .. n : file'[i] = SubSeq(file, 1, n)[i]
    BY <1>5, <2>2, <2>3, FileAppend
  <2>5. \A i \in 1 .. n : file'[i] # Torn => AcceptedAt(file', i)
    BY <1>3, <2>1, <2>2, <2>4
  <2>6. \A i \in 1 .. n + 1 : i \in 1 .. n \/ i = n + 1
    BY <2>1
  <2> QED
    BY <2>4, <2>5, <2>6 DEF RowsRead
<1>6. CASE file' = <<>>
  BY <1>6, EmptySeq DEF RowsRead
<1> QED
  BY <1>4, <1>5, <1>6 DEF PowerFails

LEMMA ReadStep ==
    ASSUME FlagsOK, ThreadsOK, TraceOK, HistoryOK, StagesInv, SessionInv, ReadInv,
           [Next]_vars
    PROVE  ReadInv'
<1>1. ASSUME NEW t \in Threads,
             Call(t) \/ Initialize(t) \/ OpenTrace(t) \/ Refuse(t) \/ Admit(t)
             \/ Forward(t) \/ ProviderReturns(t)
      PROVE  ReadInv'
  <2>1. UNCHANGED <<file, writeFaults, sequence, calls, call>>
    BY <1>1 DEF Call, Initialize, OpenTrace, Refuse, Admit, Forward, ProviderReturns
  <2>2. OwnTrace' => OwnTrace
    BY <1>1 DEF Call, Initialize, OpenTrace, Refuse, Admit, Forward, ProviderReturns,
                Go, OwnTrace, ThreadsOK
  <2>3. \A u \in Threads : pc'[u] \in Asked => pc[u] \in Asked /\ api'[u] = api[u]
    BY <1>1 DEF Call, Initialize, OpenTrace, Refuse, Admit, Forward, ProviderReturns,
                Go, Asked, ThreadsOK
  <2> QED
    BY <2>1, <2>2, <2>3, ReadKept
<1>2. ASSUME NEW t \in Threads, FlushSession(t) \/ FlushBegin(t) \/ FlushEnd(t)
      PROVE  ReadInv'
  <2>1. UNCHANGED <<file, writeFaults, sequence, calls, call, api>>
    BY <1>2 DEF FlushSession, FlushBegin, FlushEnd
  <2>2. OwnTrace
    BY <1>2 DEF FlushSession, FlushBegin, FlushEnd, OwnTrace, StagesInv, InCall
  <2>3. \A u \in Threads : pc'[u] \in Asked => pc[u] \in Asked
    BY <1>2 DEF FlushSession, FlushBegin, FlushEnd, Go, Asked, ThreadsOK
  <2> QED
    BY <2>1, <2>2, <2>3, ReadKept
<1>3. ASSUME NEW t \in Threads, WriteSession(t) PROVE ReadInv'
  BY <1>3, SessionRead DEF ReadInv
<1>4. ASSUME NEW t \in Threads, BeginCall(t) PROVE ReadInv'
  BY <1>4, BeginRead DEF ReadInv
<1>5. ASSUME NEW t \in Threads, EndCall(t) PROVE ReadInv'
  BY <1>5, EndRead DEF ReadInv
<1>6. CASE AgePasses
  BY <1>6, ReadKept DEF AgePasses, OwnTrace
<1>7. CASE ProcessDies
  <2>1. file' = file /\ writeFaults' = writeFaults /\ ~OwnTrace'
        /\ \A t \in Threads : pc'[t] \notin Asked
    BY <1>7 DEF ProcessDies, FreshProcess, OwnTrace, Asked
  <2> QED
    BY <2>1, ReadKept
<1>8. CASE PowerFails
  BY <1>8, CutRead
<1>9. CASE UNCHANGED vars
  BY <1>9, ReadKept DEF OwnTrace
<1> QED
  BY <1>1, <1>2, <1>3, <1>4, <1>5, <1>6, <1>7, <1>8, <1>9 DEF Next, ThreadNext

-----------------------------------------------------------------------------
(* The invariant *)

LEMMA InitInvariant == Init => IInv
<1> SUFFICES ASSUME Init PROVE IInv
  OBVIOUS
<1>1. TypeOK
  BY InitTypes
<1>2. CallsBounded
  <2>1. Unnumbered = {} /\ calls = 0
    BY DEF Init, Unnumbered
  <2> QED
    BY <2>1, FS_EmptySet, ProxyAssumption DEF CallsBounded
<1>3. StagesInv /\ SessionInv
  BY DEF Init, StagesInv, SessionInv, Opening, InCall
<1>4. DueInv /\ BeginInv /\ VoltageInv /\ EndInv
  BY DEF Init, DueInv, OwnTrace, BeginInv, VoltageInv, EndInv
<1>5. GroupInv
  <2>1. file = <<>> /\ durable = 0 /\ records = 0 /\ TraceOK
    BY <1>1, TypeParts DEF Init
  <2>2. Uncommitted = {}
    BY <2>1, UncommittedFinite, EmptySeq
  <2>3. Cardinality(Uncommitted) = 0
    BY <2>2, FS_EmptySet
  <2> QED
    BY <2>1, <2>3, ProxyAssumption DEF GroupInv
<1> QED
  BY <1>1, <1>2, <1>3, <1>4, <1>5 DEF IInv

LEMMA Inductive == IInv /\ [Next]_vars => IInv'
<1> SUFFICES ASSUME IInv, [Next]_vars PROVE IInv'
  OBVIOUS
<1>1. FlagsOK /\ ThreadsOK /\ TraceOK /\ HistoryOK
  BY TypeParts DEF IInv
<1>2. /\ CallsBounded /\ StagesInv /\ SessionInv /\ DueInv
      /\ BeginInv /\ VoltageInv /\ EndInv /\ GroupInv
  BY DEF IInv
<1>3. FlagsOK' /\ ThreadsOK' /\ TraceOK' /\ HistoryOK'
  BY <1>1, <1>2, FlagsStep, ThreadsStep, TraceStep, HistoryStep
<1>4. CallsBounded' /\ StagesInv' /\ SessionInv' /\ DueInv'
  BY <1>1, <1>2, CallsStep, StagesStep, SessionStep, DueStep
<1>5. BeginInv' /\ VoltageInv' /\ EndInv' /\ GroupInv'
  BY <1>1, <1>2, BeginStep, VoltageStep, EndStep, GroupStep
<1>6. TypeOK'
  BY <1>3, TypeParts, PTL
<1> QED
  BY <1>4, <1>5, <1>6 DEF IInv

LEMMA Invariance == Spec => []IInv
  BY InitInvariant, Inductive, PTL DEF Spec

-----------------------------------------------------------------------------
(* Every variable stays in its domain, and the mutex is held exactly by     *)
(* the thread that is between writing its record and flushing it.          *)
THEOREM TypeCorrect == Spec => []TypeOK
<1>1. IInv => TypeOK
  BY DEF IInv
<1> QED
  BY <1>1, Invariance, PTL

(* A proxy that answers calls, and one that has forwarded any, has the      *)
(* whole session record at the head of its trace.                          *)
THEOREM FailClosed == Spec => []FailsClosed
<1>1. IInv => FailsClosed
  BY DEF IInv, SessionInv, HasSession, FailsClosed
<1> QED
  BY <1>1, Invariance, PTL

(* A session record or the end of Close, Disconnect, StopPeriodicMsg or     *)
(* SetProgrammingVoltage is committed before another record can be          *)
(* written, unless a flush failed; then it is still due.                   *)
THEOREM BoundariesCommitted == Spec => []BoundaryCommitted
<1>1. IInv => BoundaryCommitted
  BY DEF IInv, DueInv, OwnTrace, BoundaryCommitted
<1> QED
  BY <1>1, Invariance, PTL

(* While no flush fails, no more than one group of records is exposed to   *)
(* loss, however many threads write and wherever processes die.            *)
THEOREM ExposureBounded == Spec => []GroupBounded
<1>1. IInv => GroupBounded
  <2> SUFFICES ASSUME IInv, flushFaults = 0
               PROVE  /\ Cardinality(Uncommitted) <= MaxRecords
                      /\ (init = "ready" /\ recorder = NoThread) =>
                            Cardinality(Uncommitted) < MaxRecords
    BY DEF GroupBounded
  <2>1. TraceOK
    BY TypeParts DEF IInv
  <2>2. Cardinality(Uncommitted) \in Nat /\ records \in Nat
    BY <2>1, UncommittedFinite DEF TraceOK
  <2> QED
    BY <2>2, ProxyAssumption DEF IInv, GroupInv, OwnTrace
<1> QED
  BY <1>1, Invariance, PTL

(* While no write fails, a trace whose lines are whole is one the reader    *)
(* accepts: however the threads interleave, wherever a process dies, and    *)
(* wherever a power cut ends the file.                                     *)
THEOREM TraceIsReadable == Spec => []TraceReadable
<1>1. Init => IInv /\ ReadInv
  BY InitInvariant, ReadInit
<1>2. IInv /\ ReadInv /\ [Next]_vars => (IInv /\ ReadInv)'
  <2> SUFFICES ASSUME IInv, ReadInv, [Next]_vars PROVE IInv' /\ ReadInv'
    OBVIOUS
  <2>1. FlagsOK /\ ThreadsOK /\ TraceOK /\ HistoryOK /\ StagesInv /\ SessionInv
    BY TypeParts DEF IInv
  <2> QED
    BY <2>1, Inductive, ReadStep
<1>3. IInv /\ ReadInv => TraceReadable
  <2> SUFFICES ASSUME IInv, ReadInv, writeFaults = 0, file # <<>>,
                      \A i \in DOMAIN file : file[i] # Torn
               PROVE  ReadTrace(file)
    BY DEF TraceReadable
  <2>1. TraceOK
    BY TypeParts DEF IInv
  <2>2. file \in Seq(Row) /\ DOMAIN file = 1 .. Len(file)
    BY <2>1, FileLength DEF TraceOK
  <2>3. \A i \in 1 .. Len(file) : AcceptedAt(file, i)
    BY <2>2 DEF ReadInv, RowsRead
  <2> QED
    BY <2>2, <2>3, ReadAsRows
<1> QED
  BY <1>1, <1>2, <1>3, PTL DEF Spec

(* A call that reached the provider is announced in the trace, with the     *)
(* policy under which it was forwarded, while no write fails; and no        *)
(* programming voltage goes out under a record that withholds it.          *)
THEOREM ForwardingRecorded == Spec => []ForwardedAsRecorded
<1>1. IInv => ForwardedAsRecorded
  <2> SUFFICES ASSUME IInv, writeFaults = 0, NEW f \in forwarded
               PROVE  /\ \E i \in DOMAIN file :
                            /\ file[i].type = "callBegin"
                            /\ file[i].call = f.call /\ file[i].api = f.api
                            /\ file[i].policy = f.policy
                      /\ f.api = "voltage" => f.policy
    BY Zenon DEF ForwardedAsRecorded
  <2>1. TraceOK
    BY TypeParts DEF IInv
  <2>2. DOMAIN file = 1 .. Len(file)
    BY <2>1, FileLength DEF TraceOK
  <2>3. HasBegin(f)
    BY DEF IInv, BeginInv
  <2>4. f.api = "voltage" => f.policy
    BY Zenon DEF IInv, VoltageInv
  <2> QED
    BY <2>2, <2>3, <2>4, Zenon DEF HasBegin
<1> QED
  BY <1>1, Invariance, PTL

(* The end of a boundary call that has returned stays in the trace while    *)
(* the disk reports no error, whatever crashes and power cuts follow.      *)
THEOREM ReportSurvives == Spec => []ReportedSurvives
<1>1. IInv => ReportedSurvives
  <2> SUFFICES ASSUME IInv, writeFaults = 0, flushFaults = 0, NEW c \in reported
               PROVE  \E i \in DOMAIN file :
                         file[i].type = "callEnd" /\ file[i].call = c
    BY Zenon DEF ReportedSurvives
  <2>1. TraceOK
    BY TypeParts DEF IInv
  <2>2. DOMAIN file = 1 .. Len(file) /\ durable \in 0 .. Len(file)
    BY <2>1, FileLength DEF TraceOK
  <2>3. HasEnd(c, durable)
    BY DEF IInv, EndInv
  <2> QED
    BY <2>1, <2>2, <2>3, FileLength DEF HasEnd, TraceOK
<1> QED
  BY <1>1, Invariance, PTL

(* What is committed to the disk is never changed or taken back, neither    *)
(* by a write, a failed write, a crash or a power cut, nor by a program     *)
(* started again with the same trace path.                                 *)
THEOREM CommittedEvidenceKept == Spec => CommittedKept
<1>1. ASSUME IInv, [Next]_vars
      PROVE  /\ durable' >= durable
             /\ SubSeq(file', 1, durable) = SubSeq(file, 1, durable)
  <2>1. FlagsOK /\ ThreadsOK /\ TraceOK /\ TraceOK'
    BY <1>1, Inductive, TypeParts, PTL DEF IInv
  <2>2. /\ durable' >= durable /\ durable <= Len(file')
        /\ \A i \in 1 .. durable : file'[i] = file[i]
    BY <1>1, <2>1, KeptStep
  <2>3. /\ durable \in 0 .. Len(file) /\ durable \in 0 .. Len(file')
        /\ file \in Seq(Row) /\ file' \in Seq(Row)
    BY <2>1, <2>2, FileLength DEF TraceOK
  <2>4. /\ SubSeq(file, 1, durable) \in Seq(Row)
        /\ Len(SubSeq(file, 1, durable)) = durable
        /\ \A i \in 1 .. durable : SubSeq(file, 1, durable)[i] = file[i]
    BY <2>3, FileCut
  <2>5. /\ SubSeq(file', 1, durable) \in Seq(Row)
        /\ Len(SubSeq(file', 1, durable)) = durable
        /\ \A i \in 1 .. durable : SubSeq(file', 1, durable)[i] = file'[i]
    BY <2>3, FileCut
  <2> QED
    BY <2>2, <2>4, <2>5, SeqEqual
<1>2. IInv /\ [Next]_vars =>
         [/\ durable' >= durable
          /\ SubSeq(file', 1, durable) = SubSeq(file, 1, durable)]_vars
  BY <1>1
<1> QED
  BY <1>2, Invariance, PTL DEF Spec, CommittedKept

=============================================================================
