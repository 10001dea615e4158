---------------------------- MODULE ReadersProofs ----------------------------
(***************************************************************************)
(* What the readers of evidence files make of any trace, any two series of *)
(* readings and any scores, proved: read_trace accepts exactly the well-   *)
(* formed traces and whatever the Python writer leaves (TracesRead), the   *)
(* battery mapping says what the readings and the scores say               *)
(* (MappingsAreEvidence), the DBC codec keeps the identifiers              *)
(* (IdentifierIsKept), the reassemblers recover what was said on the bus   *)
(* (MessagesAreRecovered), the transactions of the extractor are those of  *)
(* the bus (TransactionsAreExact), and what the bundle attributes to       *)
(* requests, samples and trace messages is true (BundleIsTrue). A function *)
(* defined by recursion is unfolded one step at a time and compared with   *)
(* its closed form by the least number where they would differ. The theory *)
(* of the reader is that of J2534ProxyProofs, whose variables bear the     *)
(* names of these.                                                         *)
(***************************************************************************)
EXTENDS MCReaders, FiniteSetTheorems, SequenceTheorems, WellFoundedInduction, TLAPS

(* The reader of a trace. A set of numbers has a smallest one: what is     *)
(* said of all rows is shown at the first for which it would not hold.     *)
LEMMA Smallest ==
    ASSUME NEW T, T \subseteq Nat, T # {}
    PROVE  \E x \in T : \A y \in T : x <= y
<1> DEFINE R == OpToRel(<, Nat)
<1>1. R = {p \in Nat \X Nat : p[1] < p[2]}
  BY DEF OpToRel
<1>2. IsWellFoundedOn(R, Nat)
  BY NatLessThanWellFounded
<1> HIDE DEF R
<1>3. \E x \in T : \A y \in T : ~(<<y, x>> \in R)
  BY <1>2, WFMin
<1>4. \A x, y \in Nat : ~(<<y, x>> \in R) => x <= y
  BY <1>1
<1> QED
  BY <1>3, <1>4

LEMMA UnderWayIs ==
    ASSUME NEW trace, NEW n, NEW c
    PROVE  c \in UnderWay(trace, n) <=> BegunBy(trace, n, c)
  BY DEF UnderWay, BegunBy

LEMMA NextUnderWay ==
    ASSUME NEW trace, NEW n \in Nat
    PROVE  UnderWay(trace, n + 1) =
              CASE trace[n + 1].type = "callBegin" ->
                      UnderWay(trace, n) \cup {Under(trace[n + 1])}
                [] trace[n + 1].type = "callEnd" ->
                      UnderWay(trace, n) \ {Under(trace[n + 1])}
                [] OTHER -> UnderWay(trace, n)
<1> SUFFICES ASSUME NEW c
             PROVE  BegunBy(trace, n + 1, c) <=>
                      IF trace[n + 1].type = "callBegin"
                      THEN BegunBy(trace, n, c) \/ c = Under(trace[n + 1])
                      ELSE IF trace[n + 1].type = "callEnd"
                           THEN BegunBy(trace, n, c) /\ c # Under(trace[n + 1])
                           ELSE BegunBy(trace, n, c)
  BY UnderWayIs, Zenon
<1>1. 1 .. n + 1 = (1 .. n) \cup {n + 1} /\ n + 1 \notin 1 .. n
  OBVIOUS
<1>2. \A j \in 1 .. n : j + 1 .. n + 1 = (j + 1 .. n) \cup {n + 1}
  OBVIOUS
<1>3. n + 1 + 1 .. n + 1 = {}
  OBVIOUS
<1> QED
  BY <1>1, <1>2, <1>3 DEF BegunBy

After(trace, n) ==
    [accepted |-> \A i \in 1 .. n : AcceptedAt(trace, i), expected |-> n,
     open |-> UnderWay(trace, n)]

LEMMA NextReading ==
    ASSUME NEW trace, NEW n \in Nat
    PROVE  ReadRow(After(trace, n), trace[n + 1]) = After(trace, n + 1)
<1>1. RowAccepted(After(trace, n), trace[n + 1]) <=> AcceptedAt(trace, n + 1)
  BY DEF AcceptedAt, RowAccepted, After
<1>2. (\A i \in 1 .. n + 1 : AcceptedAt(trace, i)) <=>
      (\A i \in 1 .. n : AcceptedAt(trace, i)) /\ AcceptedAt(trace, n + 1)
  <2>1. 1 .. n + 1 = (1 .. n) \cup {n + 1}
    OBVIOUS
  <2> QED
    BY <2>1, Zenon
<1>3. ReadRow(After(trace, n), trace[n + 1]).accepted = After(trace, n + 1).accepted
  BY <1>1, <1>2 DEF ReadRow, After
<1>4. ReadRow(After(trace, n), trace[n + 1]).open = After(trace, n + 1).open
  BY NextUnderWay DEF ReadRow, After, Under
<1> QED
  BY <1>3, <1>4 DEF ReadRow, After

LEMMA ReadingIs ==
    ASSUME NEW trace, Len(trace) \in Nat
    PROVE  \A n \in 0 .. Len(trace) : Reading(trace)[n] = After(trace, n)
<1> DEFINE step(g, n) == IF n = 0 THEN [accepted |-> TRUE, expected |-> 0, open |-> {}]
                                  ELSE ReadRow(g[n - 1], trace[n])
           f == [n \in 0 .. Len(trace) |-> After(trace, n)]
<1>1. After(trace, 0) = [accepted |-> TRUE, expected |-> 0, open |-> {}]
  <2>1. UnderWay(trace, 0) = {} /\ \A i \in 1 .. 0 : AcceptedAt(trace, i)
    BY DEF UnderWay
  <2>2. (\A i \in 1 .. 0 : AcceptedAt(trace, i)) = TRUE
    BY <2>1
  <2> QED
    BY <2>1, <2>2 DEF After
<1>2. \A n \in 0 .. Len(trace) : After(trace, n) = step(f, n)
  <2> SUFFICES ASSUME NEW n \in 0 .. Len(trace), n # 0 PROVE After(trace, n) = step(f, n)
    BY <1>1
  <2>1. n - 1 \in 0 .. Len(trace) /\ n - 1 \in Nat /\ (n - 1) + 1 = n
    OBVIOUS
  <2>2. f[n - 1] = After(trace, n - 1)
    BY <2>1
  <2>3. ReadRow(After(trace, n - 1), trace[(n - 1) + 1]) = After(trace, (n - 1) + 1)
    BY <2>1, NextReading
  <2> QED
    BY <2>1, <2>2, <2>3
<1>3. f = [n \in 0 .. Len(trace) |-> step(f, n)]
  BY <1>2
<1>4. Reading(trace) = CHOOSE g : g = [n \in 0 .. Len(trace) |-> step(g, n)]
  BY DEF Reading
<1> DEFINE r == Reading(trace)
<1>5. r = [n \in 0 .. Len(trace) |-> step(r, n)]
  BY <1>3, <1>4
<1> DEFINE T == {n \in 0 .. Len(trace) : r[n] # After(trace, n)}
<1> SUFFICES ASSUME T # {} PROVE FALSE
  OBVIOUS
<1>6. PICK n \in T : \A m \in T : n <= m
  <2>1. T \subseteq Nat
    OBVIOUS
  <2> HIDE DEF T
  <2> QED
    BY <2>1, Smallest
<1>7. r[n] = step(r, n)
  BY <1>5, <1>6
<1>8. n # 0
  BY <1>1, <1>6, <1>7
<1>9. n - 1 \in Nat /\ (n - 1) + 1 = n /\ n - 1 \in 0 .. Len(trace) /\ n - 1 \notin T
  BY <1>6, <1>8
<1>10. ReadRow(After(trace, n - 1), trace[n]) = After(trace, n)
  BY <1>9, NextReading
<1> QED
  BY <1>6, <1>7, <1>8, <1>9, <1>10

(* A trace is accepted when each of its rows is, after those before it.    *)
LEMMA ReadAsRows ==
    ASSUME NEW S, NEW trace \in Seq(S)
    PROVE  ReadTrace(trace) <=> trace # <<>> /\ \A i \in 1 .. Len(trace) : AcceptedAt(trace, i)
<1>1. Len(trace) \in Nat
  BY LenProperties
<1>2. Reading(trace)[Len(trace)] = After(trace, Len(trace))
  BY <1>1, ReadingIs
<1> QED
  BY <1>2 DEF ReadTrace, After

RowsRead(trace) == \A i \in 1 .. Len(trace) : AcceptedAt(trace, i)

(* Files that agree up to a row are read alike up to it.                   *)
LEMMA ReadAlike ==
    ASSUME NEW trace, NEW other, NEW n \in Nat, \A i \in 1 .. n : other[i] = trace[i]
    PROVE  /\ UnderWay(other, n) = UnderWay(trace, n)
           /\ \A i \in 1 .. n : AcceptedAt(other, i) <=> AcceptedAt(trace, i)
<1>1. ASSUME NEW m \in 0 .. n PROVE UnderWay(other, m) = UnderWay(trace, m)
  <2> SUFFICES ASSUME NEW c PROVE BegunBy(other, m, c) <=> BegunBy(trace, m, c)
    BY UnderWayIs, Zenon
  <2>1. \A j \in 1 .. m : other[j] = trace[j] /\ \A k \in j + 1 .. m : other[k] = trace[k]
    BY <1>1
  <2> QED
    BY <2>1 DEF BegunBy
<1>2. ASSUME NEW i \in 1 .. n PROVE AcceptedAt(other, i) <=> AcceptedAt(trace, i)
  <2>1. UnderWay(other, i - 1) = UnderWay(trace, i - 1)
    BY <1>1, <1>2
  <2> QED
    BY <1>2, <2>1 DEF AcceptedAt
<1> QED
  BY <1>1, <1>2

(* A row is added.                                                         *)
LEMMA RowAdded ==
    ASSUME NEW trace \in Seq(Row), NEW row \in Row, RowsRead(trace),
           RowAccepted([expected |-> Len(trace), open |-> UnderWay(trace, Len(trace))], row)
    PROVE  /\ RowsRead(Append(trace, row))
           /\ UnderWay(Append(trace, row), Len(Append(trace, row))) =
                 CASE row.type = "callBegin" -> UnderWay(trace, Len(trace)) \cup {Under(row)}
                   [] row.type = "callEnd"   -> UnderWay(trace, Len(trace)) \ {Under(row)}
                   [] OTHER                  -> UnderWay(trace, Len(trace))
<1> DEFINE n == Len(trace)
           more == Append(trace, row)
<1>1. /\ n \in Nat /\ Len(more) = n + 1 /\ more[n + 1] = row
      /\ \A i \in 1 .. n : more[i] = trace[i]
  BY AppendProperties, LenProperties
<1> HIDE DEF n, more
<1>2. /\ UnderWay(more, n) = UnderWay(trace, n)
      /\ \A i \in 1 .. n : AcceptedAt(more, i) <=> AcceptedAt(trace, i)
  BY <1>1, ReadAlike
<1>3. AcceptedAt(more, n + 1)
  <2>1. (n + 1) - 1 = n
    BY <1>1
  <2>2. RowAccepted([expected |-> n, open |-> UnderWay(more, n)], more[n + 1])
    BY <1>1, <1>2 DEF n
  <2> QED
    BY <2>1, <2>2 DEF AcceptedAt
<1>4. RowsRead(more)
  <2> SUFFICES ASSUME NEW i \in 1 .. n + 1 PROVE AcceptedAt(more, i)
    BY <1>1 DEF RowsRead
  <2>1. CASE i = n + 1
    BY <1>3, <2>1
  <2>2. CASE i # n + 1
    <3>1. i \in 1 .. n
      BY <1>1, <2>2
    <3> QED
      BY <3>1, <1>1, <1>2 DEF RowsRead, n
  <2> QED
    BY <2>1, <2>2
<1>5. UnderWay(more, n + 1) =
         CASE row.type = "callBegin" -> UnderWay(trace, n) \cup {Under(row)}
           [] row.type = "callEnd"   -> UnderWay(trace, n) \ {Under(row)}
           [] OTHER                  -> UnderWay(trace, n)
  BY <1>1, <1>2, NextUnderWay
<1> QED
  BY <1>1, <1>4, <1>5 DEF n, more


-----------------------------------------------------------------------------
(* Its verdict without a pass over the file.                               *)

LEMMA AcceptedIsWellFormed ==
    ASSUME NEW S, NEW trace \in Seq(S), trace # <<>>, RowsRead(trace),
           \A i \in 1 .. Len(trace) : trace[i].type = "callBegin" => trace[i].api \in Apis
    PROVE  WellFormed(trace)
<1> DEFINE n == Len(trace)
           Opens(i, c) == trace[i].type = "callBegin" /\ Under(trace[i]) = c
           Closes(i, c) == trace[i].type = "callEnd" /\ Under(trace[i]) = c
<1>1. n \in Nat \ {0} /\ DOMAIN trace = 1 .. n
  BY LenProperties, EmptySeq
<1>2. ASSUME NEW i \in 1 .. n
      PROVE  /\ trace[i].type # "torn" /\ trace[i].sequence = i - 1
             /\ i = 1 => trace[i].type = "session"
             /\ trace[i].type = "callBegin" =>
                   \A a \in Apis : ~BegunBy(trace, i - 1, <<trace[i].call, a>>)
             /\ trace[i].type = "callEnd" => BegunBy(trace, i - 1, Under(trace[i]))
  BY <1>1, <1>2, UnderWayIs DEF RowsRead, AcceptedAt, RowAccepted, Under
<1>3. \A c : \A i, j \in 1 .. n :
         (i < j /\ Opens(i, c) /\ trace[j].type = "callBegin" /\ trace[j].call = c[1]) =>
            \E k \in i + 1 .. j - 1 : Closes(k, c)
  <2> SUFFICES ASSUME NEW i \in 1 .. n, NEW j \in 1 .. n, NEW c, i < j, Opens(i, c),
                      trace[j].type = "callBegin", trace[j].call = c[1],
                      \A k \in i + 1 .. j - 1 : ~Closes(k, c)
               PROVE  FALSE
    OBVIOUS
  <2>1. c = <<trace[i].call, trace[i].api>> /\ c[1] = trace[i].call /\ trace[i].api \in Apis
    BY DEF Under
  <2>2. ~BegunBy(trace, j - 1, c)
    BY <1>2, <2>1
  <2>3. i \in 1 .. j - 1
    BY <1>1
  <2> QED
    BY <2>2, <2>3 DEF BegunBy
<1>4. ASSUME NEW i \in 1 .. n, NEW j \in 1 .. i - 1, Begins(trace, i, trace[i].call),
             Begins(trace, j, trace[i].call)
      PROVE  \E k \in j + 1 .. i - 1 : Ends(trace, k, trace[i].call)
  <2>1. PICK k \in j + 1 .. i - 1 : Closes(k, Under(trace[j]))
    <3>1. j \in 1 .. n /\ j < i /\ Opens(j, Under(trace[j]))
      BY <1>4 DEF Begins
    <3>2. trace[i].type = "callBegin" /\ trace[i].call = Under(trace[j])[1]
      BY <1>4 DEF Begins, Under
    <3> QED
      BY <1>3, <3>1, <3>2
  <2>2. Ends(trace, k, trace[i].call)
    BY <1>4, <2>1 DEF Ends, Begins, Under
  <2> QED
    BY <2>2
<1>5. ASSUME NEW i \in 1 .. n, trace[i].type = "callEnd"
      PROVE  \E j \in 1 .. i - 1 :
                /\ Begins(trace, j, trace[i].call) /\ trace[j].api = trace[i].api
                /\ \A k \in j + 1 .. i - 1 : ~Ends(trace, k, trace[i].call)
  <2> DEFINE c == Under(trace[i])
  <2>1. PICK j \in 1 .. i - 1 : Opens(j, c) /\ \A k \in j + 1 .. i - 1 : ~Closes(k, c)
    BY <1>2, <1>5 DEF BegunBy
  <2>2. Begins(trace, j, trace[i].call) /\ trace[j].api = trace[i].api
    BY <2>1 DEF Begins, Under
  <2>3. ASSUME NEW k \in j + 1 .. i - 1, Ends(trace, k, trace[i].call)
        PROVE  FALSE
    <3> DEFINE d == Under(trace[k])
    <3>1. k \in 1 .. n /\ i \in 1 .. n /\ j \in 1 .. n /\ j < k /\ k < i
      OBVIOUS
    <3>2. PICK m \in 1 .. k - 1 : Opens(m, d) /\ \A l \in m + 1 .. k - 1 : ~Closes(l, d)
      BY <1>2, <2>3, <3>1 DEF BegunBy, Ends
    <3>3. d # c /\ c[1] = d[1]
      BY <2>1, <2>3 DEF Ends, Under
    <3>4. trace[m].call = c[1] /\ trace[j].call = d[1]
      BY <2>1, <3>2, <3>3 DEF Under
    <3>5. CASE m < j
      <4>1. m \in 1 .. n
        BY <3>1
      <4>2. PICK l \in m + 1 .. j - 1 : Closes(l, d)
        BY <1>3, <2>1, <3>1, <3>2, <3>4, <3>5, <4>1
      <4>3. l \in m + 1 .. k - 1
        BY <3>1
      <4> QED
        BY <3>2, <4>2, <4>3
    <3>6. CASE j < m
      <4>1. m \in 1 .. n
        BY <3>1
      <4>2. PICK l \in j + 1 .. m - 1 : Closes(l, c)
        BY <1>3, <2>1, <3>1, <3>2, <3>4, <3>6, <4>1
      <4>3. l \in j + 1 .. i - 1
        BY <3>1
      <4> QED
        BY <2>1, <4>2, <4>3
    <3>7. CASE m = j
      BY <2>1, <3>2, <3>3, <3>7
    <3> QED
      BY <3>1, <3>5, <3>6, <3>7
  <2> QED
    BY <2>2, <2>3
<1>6. trace[1].type = "session"
  BY <1>1, <1>2
<1>7. \A i \in DOMAIN trace : trace[i].type # "torn" /\ trace[i].sequence = i - 1
  BY <1>1, <1>2
<1> QED
  BY <1>1, <1>4, <1>5, <1>6, <1>7, Zenon DEF WellFormed

LEMMA WellFormedIsAccepted ==
    ASSUME NEW S, NEW trace \in Seq(S), WellFormed(trace)
    PROVE  RowsRead(trace)
<1> DEFINE n == Len(trace)
           Opens(i, c) == trace[i].type = "callBegin" /\ Under(trace[i]) = c
           Closes(i, c) == trace[i].type = "callEnd" /\ Under(trace[i]) = c
<1>1. n \in Nat \ {0} /\ DOMAIN trace = 1 .. n
  BY LenProperties, EmptySeq DEF WellFormed
<1> SUFFICES ASSUME NEW i \in 1 .. n PROVE AcceptedAt(trace, i)
  BY DEF RowsRead
<1>2. trace[i].type # "torn" /\ trace[i].sequence = i - 1 /\ (i - 1 = 0 => trace[i].type = "session")
  BY <1>1 DEF WellFormed
<1>3. ASSUME trace[i].type = "callBegin", NEW a \in Apis,
             BegunBy(trace, i - 1, <<trace[i].call, a>>)
      PROVE  FALSE
  <2> DEFINE c == trace[i].call
             T == {k \in 1 .. i - 1 : Ends(trace, k, c)}
  <2>1. PICK j \in 1 .. i - 1 :
           /\ Opens(j, <<c, a>>)
           /\ \A k \in j + 1 .. i - 1 : ~Closes(k, <<c, a>>)
    BY <1>3 DEF BegunBy
  <2>2. Begins(trace, i, c) /\ Begins(trace, j, c) /\ trace[j].api = a
    BY <1>3, <2>1 DEF Begins, Under
  <2>3. \A p, q \in 1 .. n : (p < q /\ Begins(trace, p, c) /\ Begins(trace, q, c)) =>
           \E k \in p + 1 .. q - 1 : Ends(trace, k, c)
    <3> SUFFICES ASSUME NEW p \in 1 .. n, NEW q \in 1 .. n, p < q,
                        Begins(trace, p, c), Begins(trace, q, c)
                 PROVE  \E k \in p + 1 .. q - 1 : Ends(trace, k, c)
      OBVIOUS
    <3>1. p \in 1 .. q - 1 /\ trace[q].call = c
      BY DEF Begins
    <3> QED
      BY <1>1, <3>1 DEF WellFormed
  <2> DEFINE Later == {k \in j + 1 .. i - 1 : Ends(trace, k, c)}
  <2>4. Later # {} /\ Later \subseteq Nat
    BY <2>2, <2>3
  <2>5. PICK k \in Later : \A l \in Later : k <= l
    <3> HIDE DEF Later
    <3> QED
      BY <2>4, Smallest
  <2>6. /\ k \in 1 .. n /\ j \in 1 .. n /\ j < k /\ k < i
        /\ trace[k].type = "callEnd" /\ trace[k].call = c
    BY <2>5 DEF Ends
  <2>7. PICK m \in 1 .. k - 1 :
           /\ Begins(trace, m, c) /\ trace[m].api = trace[k].api
           /\ \A l \in m + 1 .. k - 1 : ~Ends(trace, l, c)
    BY <1>1, <2>6 DEF WellFormed
  <2>8. m \in 1 .. n /\ m # j
    BY <2>1, <2>2, <2>5, <2>6, <2>7 DEF Under
  <2>9. CASE m < j
    <3>1. PICK l \in m + 1 .. j - 1 : Ends(trace, l, c)
      BY <2>2, <2>3, <2>6, <2>7, <2>8, <2>9
    <3>2. l \in m + 1 .. k - 1
      BY <2>6
    <3> QED
      BY <2>7, <3>1, <3>2
  <2>10. CASE j < m
    <3>1. PICK l \in j + 1 .. m - 1 : Ends(trace, l, c)
      BY <2>2, <2>3, <2>6, <2>7, <2>8, <2>10
    <3>2. l \in Later /\ l < k
      BY <2>6, <3>1
    <3> QED
      BY <2>5, <2>6, <3>2
  <2> QED
    BY <2>6, <2>8, <2>9, <2>10
<1>4. ASSUME trace[i].type = "callEnd"
      PROVE  BegunBy(trace, i - 1, Under(trace[i]))
  <2>1. PICK j \in 1 .. i - 1 :
           /\ Begins(trace, j, trace[i].call) /\ trace[j].api = trace[i].api
           /\ \A k \in j + 1 .. i - 1 : ~Ends(trace, k, trace[i].call)
    BY <1>1, <1>4 DEF WellFormed
  <2>2. trace[j].type = "callBegin" /\ Under(trace[j]) = Under(trace[i])
    BY <2>1 DEF Begins, Under
  <2>3. \A k \in j + 1 .. i - 1 : trace[k].type = "callEnd" => Under(trace[k]) # Under(trace[i])
    BY <2>1 DEF Ends, Under
  <2> QED
    BY <2>2, <2>3 DEF BegunBy
<1> QED
  BY <1>2, <1>3, <1>4, UnderWayIs DEF AcceptedAt, RowAccepted, Under

(* read_trace accepts exactly the well-formed traces, however long, about   *)
(* whatever calls.                                                         *)
THEOREM ReaderExact ==
    ASSUME NEW S, NEW trace \in Seq(S),
           \A i \in 1 .. Len(trace) : trace[i].type = "callBegin" => trace[i].api \in Apis
    PROVE  ReadTrace(trace) <=> WellFormed(trace)
<1>1. WellFormed(trace) => trace # <<>>
  BY DEF WellFormed
<1> QED
  BY <1>1, AcceptedIsWellFormed, WellFormedIsAccepted, ReadAsRows DEF RowsRead

-----------------------------------------------------------------------------
(* The writer. Rows that are numbered are in the file, about to be written, *)
(* or lost, and a lost one is in none of the files.                        *)

LEMMA SameReader ==
    ASSUME NEW trace
    PROVE  W!ReadTrace(trace) <=> ReadTrace(trace)
BY DEF W!ReadTrace, ReadTrace, W!Reading, Reading, W!ReadRow, ReadRow, W!RowAccepted,
       RowAccepted, W!Apis, Apis

Written(t) == unwritten[t] = None

WriterTypes ==
    /\ file \in Seq(Row) /\ unwritten \in [Threads -> Row \cup {None}]
    /\ sequence \in Nat /\ callSequence \in Nat
    /\ openCalls \subseteq Nat \X {"ordinary", "boundary"}
    /\ \A c \in openCalls : c[1] <= callSequence

NumbersInv ==
    /\ lost \subseteq 0 .. sequence - 1
    /\ \A i \in 1 .. Len(file) : file[i].sequence \in (0 .. sequence - 1) \ lost
    /\ \A t \in Threads : ~Written(t) => unwritten[t].sequence \in (0 .. sequence - 1) \ lost
    /\ gap => \E i \in 1 .. Len(file), n \in lost : n < file[i].sequence

(* With no overlap, the row of a thread is the last one numbered, and what   *)
(* the writer holds to be open is open once that row is read.               *)
Once(open, row) ==
    CASE row.type = "callBegin" -> open \cup {Under(row)}
      [] row.type = "callEnd"   -> open \ {Under(row)}
      [] OTHER                  -> open

OrderlyInv ==
    ~overlapped /\ ~gap =>
        /\ file # <<>> /\ RowsRead(file)
        /\ \A t, u \in Threads : (~Written(t) /\ ~Written(u)) => t = u
        /\ \A t \in Threads : ~Written(t) => \A n \in lost : n < unwritten[t].sequence
        /\ lost = {} =>
              /\ (\A t \in Threads : Written(t)) =>
                    sequence = Len(file) /\ openCalls = UnderWay(file, Len(file))
              /\ \A t \in Threads : ~Written(t) =>
                    /\ sequence = Len(file) + 1
                    /\ openCalls = Once(UnderWay(file, Len(file)), unwritten[t])
                    /\ RowAccepted([expected |-> Len(file), open |-> UnderWay(file, Len(file))],
                                   unwritten[t])

WriterInv == WriterTypes /\ NumbersInv /\ OrderlyInv

LEMMA WriterRows ==
    ASSUME NEW n \in Nat, NEW c \in Nat, NEW a \in {"ordinary", "boundary"}
    PROVE  /\ CallBegin(n, c, a, FALSE) \in Row /\ CallEnd(n, c, a) \in Row
           /\ Session(n) \in Row /\ None \notin Row
  BY NoneAssumption DEF CallBegin, CallEnd, Session, Row, Apis

LEMMA SameRows ==
    ASSUME NEW n, NEW c, NEW a, NEW p
    PROVE  /\ W!CallBegin(n, c, a, p) = CallBegin(n, c, a, p)
           /\ W!CallEnd(n, c, a) = CallEnd(n, c, a) /\ W!Session(n) = Session(n)
  BY DEF W!CallBegin, W!CallEnd, W!Session, CallBegin, CallEnd, Session

LEMMA InitWriter == W!Init => WriterInv
<1> SUFFICES ASSUME W!Init PROVE WriterInv
  OBVIOUS
<1> DEFINE first == Session(0)
<1>1. first \in Row /\ first.type = "session" /\ first.sequence = 0
  BY DEF Session, Row
<1>2. file = <<first>> /\ sequence = 1 /\ callSequence = 0 /\ openCalls = {} /\ lost = {}
      /\ ~gap /\ \A t \in Threads : Written(t)
  BY SameRows DEF W!Init, Written
<1> HIDE DEF first
<1>3. <<first>> \in Seq(Row) /\ Len(<<first>>) = 1 /\ <<first>>[1] = first /\ <<first>> # <<>>
  BY <1>1
<1>4. WriterTypes
  BY <1>2, <1>3 DEF WriterTypes, W!Init
<1>5. NumbersInv
  BY <1>1, <1>2, <1>3 DEF NumbersInv
<1>6. UnderWay(file, 0) = {} /\ 1 - 1 = 0
  BY DEF UnderWay
<1>7. AcceptedAt(file, 1) /\ RowsRead(file)
  BY <1>1, <1>2, <1>3, <1>6 DEF AcceptedAt, RowAccepted, RowsRead
<1>8. UnderWay(file, 1) = {}
  <2>1. 0 + 1 = 1 /\ file[0 + 1].type = "session"
    BY <1>1, <1>2, <1>3
  <2>2. UnderWay(file, 0 + 1) = UnderWay(file, 0)
    BY <2>1, NextUnderWay
  <2> QED
    BY <1>6, <2>1, <2>2
<1> QED
  BY <1>2, <1>3, <1>4, <1>5, <1>7, <1>8 DEF WriterInv, OrderlyInv

(* A row is numbered, and then about to be written or lost.                *)
LEMMA NumberedStep ==
    ASSUME WriterTypes, NumbersInv, NEW t \in Threads, NEW row \in Row,
           row.sequence = sequence, W!NumberRow(t, row)
    PROVE  NumbersInv'
<1>1. /\ sequence' = sequence + 1 /\ file' = file /\ gap' = gap /\ None \notin Row
      /\ sequence \in Nat /\ Len(file) \in Nat
  BY NoneAssumption, LenProperties DEF W!NumberRow, WriterTypes
<1>2. CASE unwritten' = [unwritten EXCEPT ![t] = row] /\ lost' = lost
  <2>1. \A u \in Threads : ~Written(u)' =>
           unwritten'[u].sequence \in (0 .. sequence) \ lost
    BY <1>1, <1>2 DEF NumbersInv, WriterTypes, Written
  <2> QED
    BY <1>1, <1>2, <2>1 DEF NumbersInv
<1>3. CASE unwritten' = unwritten /\ lost' = lost \cup {sequence}
  <2>1. \A u \in Threads : ~Written(u)' =>
           unwritten'[u].sequence \in (0 .. sequence) \ lost'
    BY <1>1, <1>3 DEF NumbersInv, Written
  <2>2. \A i \in 1 .. Len(file) : file[i].sequence \in (0 .. sequence) \ lost'
    BY <1>1, <1>3 DEF NumbersInv
  <2> QED
    BY <1>1, <1>3, <2>1, <2>2 DEF NumbersInv
<1> QED
  BY <1>2, <1>3 DEF W!NumberRow

LEMMA OrderlyNumbered ==
    ASSUME WriterTypes, NumbersInv, OrderlyInv, NEW t \in Threads, NEW row \in Row,
           row.sequence = sequence, W!NumberRow(t, row),
           row.type \in {"callBegin", "callEnd"},
           lost' = {} => openCalls' = Once(openCalls, row),
           row.type = "callEnd" => Under(row) \in openCalls,
           row.type = "callBegin" => \A a \in Apis : <<row.call, a>> \notin openCalls
    PROVE  OrderlyInv'
<1> SUFFICES ASSUME ~overlapped', ~gap' PROVE OrderlyInv'
  BY DEF OrderlyInv
<1>1. /\ ~overlapped /\ ~gap /\ file' = file /\ sequence' = sequence + 1
      /\ \A u \in Threads : Written(u)
      /\ sequence \in Nat /\ Len(file) \in Nat
  BY LenProperties DEF W!NumberRow, WriterTypes, Written
<1>2. file # <<>> /\ RowsRead(file)
  BY <1>1 DEF OrderlyInv
<1>3. CASE unwritten' = [unwritten EXCEPT ![t] = row] /\ lost' = lost
  <2>1. None # row /\ \A u \in Threads : ~Written(u)' => u = t /\ unwritten'[u] = row
    BY <1>1, <1>3, NoneAssumption DEF Written, WriterTypes
  <2>2. \A n \in lost : n < row.sequence
    BY <1>1 DEF NumbersInv
  <2>3. ~Written(t)' /\ unwritten'[t] = row
    BY <1>3, <2>1, NoneAssumption DEF Written, WriterTypes
  <2>4. ASSUME lost = {}
        PROVE  /\ sequence' = Len(file) + 1
               /\ openCalls' = Once(UnderWay(file, Len(file)), row)
               /\ RowAccepted([expected |-> Len(file), open |-> UnderWay(file, Len(file))], row)
    <3>1. sequence = Len(file) /\ openCalls = UnderWay(file, Len(file))
      BY <1>1, <2>4 DEF OrderlyInv
    <3>2. Len(file) # 0
      BY <1>2, EmptySeq DEF WriterTypes
    <3> QED
      BY <1>1, <1>3, <2>4, <3>1, <3>2 DEF RowAccepted, Under
  <2> QED
    BY <1>1, <1>2, <1>3, <2>1, <2>2, <2>3, <2>4 DEF OrderlyInv
<1>4. CASE unwritten' = unwritten /\ lost' = lost \cup {sequence}
  <2>1. \A u \in Threads : Written(u)'
    BY <1>1, <1>4 DEF Written
  <2>2. lost' # {}
    BY <1>4
  <2> QED
    BY <1>1, <1>2, <2>1, <2>2 DEF OrderlyInv
<1> QED
  BY <1>3, <1>4 DEF W!NumberRow

LEMMA BeginStep ==
    ASSUME WriterInv, NEW t \in Threads, NEW a \in {"ordinary", "boundary"},
           W!BeginCall(t, a)
    PROVE  WriterInv'
<1> DEFINE row == CallBegin(sequence, callSequence + 1, a, FALSE)
<1>1. /\ callSequence' = callSequence + 1 /\ W!NumberRow(t, row)
      /\ openCalls' = openCalls \cup {<<callSequence + 1, a>>} \/ openCalls' = openCalls
      /\ unwritten'[t] # None => openCalls' = openCalls \cup {<<callSequence + 1, a>>}
  BY SameRows DEF W!BeginCall
<1>2. /\ sequence \in Nat /\ callSequence \in Nat /\ openCalls \subseteq Nat \X {"ordinary", "boundary"}
      /\ WriterTypes /\ NumbersInv /\ OrderlyInv
  BY DEF WriterInv, WriterTypes
<1>3. row \in Row /\ row # None
  <2>1. callSequence + 1 \in Nat
    BY <1>2
  <2> QED
    BY <1>2, <2>1, WriterRows
<1>4. /\ row.sequence = sequence /\ row.type = "callBegin" /\ row.call = callSequence + 1
      /\ Under(row) = <<callSequence + 1, a>>
  BY DEF CallBegin, Under
<1> HIDE DEF row
<1>5. WriterTypes'
  <2>1. unwritten' \in [Threads -> Row \cup {None}] /\ sequence' \in Nat /\ file' \in Seq(Row)
    BY <1>1, <1>2, <1>3 DEF W!NumberRow, WriterTypes
  <2>2. openCalls' \subseteq Nat \X {"ordinary", "boundary"}
    BY <1>1, <1>2
  <2>3. \A c \in openCalls' : c[1] <= callSequence'
    BY <1>1, <1>2 DEF WriterTypes
  <2> QED
    BY <1>1, <1>2, <2>1, <2>2, <2>3 DEF WriterTypes
<1>6. \A b \in Apis : <<row.call, b>> \notin openCalls
  BY <1>2, <1>4 DEF WriterTypes
<1>7. lost' = {} => openCalls' = Once(openCalls, row)
  <2>1. lost' = {} => unwritten'[t] = row
    BY <1>1, <1>2 DEF W!NumberRow, WriterTypes
  <2> QED
    BY <1>1, <1>3, <1>4, <2>1 DEF Once
<1> QED
  BY <1>1, <1>2, <1>3, <1>4, <1>5, <1>6, <1>7, NumberedStep, OrderlyNumbered DEF WriterInv

LEMMA EndStep ==
    ASSUME WriterInv, NEW t \in Threads, W!EndCall(t)
    PROVE  WriterInv'
<1>1. PICK c \in openCalls :
         /\ openCalls' = openCalls \ {c} /\ callSequence' = callSequence
         /\ W!NumberRow(t, CallEnd(sequence, c[1], c[2]))
  BY SameRows DEF W!EndCall
<1> DEFINE row == CallEnd(sequence, c[1], c[2])
<1>2. /\ sequence \in Nat /\ c \in Nat \X {"ordinary", "boundary"}
      /\ WriterTypes /\ NumbersInv /\ OrderlyInv
  BY DEF WriterInv, WriterTypes
<1>3. row \in Row /\ row # None
  BY <1>2, WriterRows
<1>4. /\ row.sequence = sequence /\ row.type = "callEnd" /\ Under(row) = c
  BY <1>2 DEF CallEnd, Under
<1>5. W!NumberRow(t, row)
  BY <1>1
<1> HIDE DEF row
<1>6. WriterTypes'
  BY <1>1, <1>2, <1>3, <1>5 DEF W!NumberRow, WriterTypes
<1>7. openCalls' = Once(openCalls, row)
  BY <1>1, <1>4 DEF Once
<1> QED
  BY <1>1, <1>2, <1>3, <1>4, <1>5, <1>6, <1>7, NumberedStep, OrderlyNumbered DEF WriterInv

LEMMA WriteStep ==
    ASSUME WriterInv, NEW t \in Threads, W!WriteRow(t)
    PROVE  WriterInv'
<1> DEFINE row == unwritten[t]
<1>1. /\ row \in Row /\ file \in Seq(Row) /\ sequence \in Nat
      /\ unwritten' = [unwritten EXCEPT ![t] = None] /\ file' = Append(file, row)
      /\ gap' = (gap \/ \E n \in lost : n < row.sequence)
      /\ UNCHANGED <<sequence, callSequence, openCalls, overlapped, lost>>
      /\ ~Written(t)
  BY DEF WriterInv, WriterTypes, W!WriteRow, Written
<1>2. /\ Len(file) \in Nat /\ Len(file') = Len(file) + 1 /\ file'[Len(file) + 1] = row
      /\ \A i \in 1 .. Len(file) : file'[i] = file[i]
      /\ file' \in Seq(Row)
  BY <1>1, AppendProperties, LenProperties
<1>3. WriterTypes'
  BY <1>1, <1>2 DEF WriterInv, WriterTypes
<1>4. NumbersInv'
  <2>1. row.sequence \in (0 .. sequence - 1) \ lost
    BY <1>1 DEF WriterInv, NumbersInv
  <2>2. \A i \in 1 .. Len(file') : file'[i].sequence \in (0 .. sequence - 1) \ lost
    BY <1>2, <2>1 DEF WriterInv, NumbersInv
  <2>3. \A u \in Threads : ~Written(u)' => unwritten'[u] = unwritten[u] /\ ~Written(u)
    BY <1>1 DEF Written, WriterInv, WriterTypes
  <2>4. gap' => \E i \in 1 .. Len(file'), n \in lost : n < file'[i].sequence
    <3>1. CASE gap
      BY <1>2, <3>1 DEF WriterInv, NumbersInv
    <3>2. CASE \E n \in lost : n < row.sequence
      BY <1>2, <3>2
    <3> QED
      BY <1>1, <3>1, <3>2
  <2> QED
    BY <1>1, <2>2, <2>3, <2>4 DEF WriterInv, NumbersInv
<1>5. OrderlyInv'
  <2> SUFFICES ASSUME ~overlapped', ~gap' PROVE OrderlyInv'
    BY DEF OrderlyInv
  <2>1. ~overlapped /\ ~gap /\ \A n \in lost : ~(n < row.sequence)
    BY <1>1
  <2>2. lost = {}
    BY <1>1, <2>1 DEF WriterInv, OrderlyInv
  <2>3. /\ RowsRead(file) /\ sequence = Len(file) + 1
        /\ openCalls = Once(UnderWay(file, Len(file)), row)
        /\ RowAccepted([expected |-> Len(file), open |-> UnderWay(file, Len(file))], row)
        /\ \A u \in Threads : ~Written(u) => u = t
    BY <1>1, <2>1, <2>2 DEF WriterInv, OrderlyInv
  <2>4. /\ RowsRead(file')
        /\ UnderWay(file', Len(file')) = Once(UnderWay(file, Len(file)), row)
    BY <1>1, <2>3, RowAdded DEF Once
  <2>5. \A u \in Threads : Written(u)'
    BY <1>1, <2>3 DEF Written, WriterInv, WriterTypes
  <2>6. file' # <<>>
    BY <1>2, EmptySeq
  <2> QED
    BY <1>1, <1>2, <2>2, <2>3, <2>4, <2>5, <2>6 DEF OrderlyInv
<1> QED
  BY <1>3, <1>4, <1>5 DEF WriterInv

LEMMA WriterRead == WriterInv => W!TraceIsRead
<1> SUFFICES ASSUME WriterInv PROVE W!TraceIsRead
  OBVIOUS
<1>1. file \in Seq(Row) /\ Len(file) \in Nat
  BY LenProperties DEF WriterInv, WriterTypes
<1>2. ~overlapped /\ ~gap => ReadTrace(file)
  BY <1>1, ReadAsRows DEF WriterInv, OrderlyInv, RowsRead
<1>3. ASSUME gap, ReadTrace(file) PROVE FALSE
  <2>1. PICK i \in 1 .. Len(file), n \in lost : n < file[i].sequence
    BY <1>3 DEF WriterInv, NumbersInv
  <2>2. \A k \in 1 .. Len(file) : file[k].sequence = k - 1
    BY <1>1, <1>3, ReadAsRows DEF AcceptedAt, RowAccepted
  <2>3. n \in Nat /\ n + 1 \in 1 .. Len(file) /\ (n + 1) - 1 = n
    <3>1. n \in Nat /\ file[i].sequence = i - 1
      BY <2>1, <2>2 DEF WriterInv, NumbersInv, WriterTypes
    <3> QED
      BY <1>1, <2>1, <3>1
  <2> QED
    BY <2>2, <2>3 DEF WriterInv, NumbersInv
<1> QED
  BY <1>2, <1>3, SameReader DEF W!TraceIsRead

-----------------------------------------------------------------------------
(* A trace that grows row by row has functions of the API in its begins.   *)
RowsInv ==
    /\ rows \in Seq([type : {"session", "callBegin", "callEnd", "torn"}, sequence : Nat,
                     call : Calls \cup {0}, api : Apis \cup {"none"}, policy : BOOLEAN])
    /\ \A i \in 1 .. Len(rows) : rows[i].type = "callBegin" => rows[i].api \in Apis

LEMMA RowsStep ==
    ASSUME RowsInv, AddRow
    PROVE  RowsInv'
<1>1. PICK row \in Rows : rows' = Append(rows, row)
  BY DEF AddRow
<1> DEFINE S == [type : {"session", "callBegin", "callEnd", "torn"}, sequence : Nat,
                 call : Calls \cup {0}, api : Apis \cup {"none"}, policy : BOOLEAN]
<1>2. Len(rows) \in Nat /\ rows \in Seq(S)
  BY LenProperties DEF RowsInv
<1>3. row \in S /\ (row.type = "callBegin" => row.api \in Apis)
  <2> DEFINE Named == Calls \X {"ordinary", "boundary"}
             Fitting(seq) ==
               {Session(seq), Torn}
               \cup {CallBegin(seq, c[1], c[2], FALSE) : c \in Named}
               \cup {CallEnd(seq, c[1], c[2]) : c \in Named}
  <2>1. Rows = UNION {Fitting(seq) : seq \in {Len(rows), Len(rows) + 1}}
    BY Zenon DEF Rows
  <2>2. PICK seq \in Nat : row \in Fitting(seq)
    <3> HIDE DEF Fitting
    <3> QED
      BY <1>2, <2>1
  <2>3. CASE row = Session(seq)
    BY <2>2, <2>3 DEF Session
  <2>4. CASE row = Torn
    BY <2>4 DEF Torn
  <2>5. CASE row \in {CallBegin(seq, c[1], c[2], FALSE) : c \in Named}
    <3>1. PICK c \in Named : row = CallBegin(seq, c[1], c[2], FALSE)
      BY <2>5
    <3>2. c[1] \in Calls /\ c[2] \in Apis
      BY DEF Apis
    <3> QED
      BY <2>2, <3>1, <3>2 DEF CallBegin
  <2>6. CASE row \in {CallEnd(seq, c[1], c[2]) : c \in Named}
    <3>1. PICK c \in Named : row = CallEnd(seq, c[1], c[2])
      BY <2>6
    <3>2. c[1] \in Calls /\ c[2] \in Apis
      BY DEF Apis
    <3> QED
      BY <2>2, <3>1, <3>2 DEF CallEnd
  <2> HIDE DEF S
  <2> QED
    BY <2>2, <2>3, <2>4, <2>5, <2>6, Zenon
<1> HIDE DEF S
<1>4. /\ Append(rows, row) \in Seq(S) /\ Len(Append(rows, row)) = Len(rows) + 1
      /\ \A i \in 1 .. Len(rows) : Append(rows, row)[i] = rows[i]
      /\ Append(rows, row)[Len(rows) + 1] = row
  BY <1>2, <1>3, AppendProperties
<1>5. \A i \in 1 .. Len(rows') : rows'[i].type = "callBegin" => rows'[i].api \in Apis
  BY <1>1, <1>2, <1>3, <1>4 DEF RowsInv
<1> QED
  BY <1>1, <1>4, <1>5 DEF RowsInv, S

TracesInv == RowsInv /\ WriterInv

LEMMA TracesInit == Init => TracesInv
<1> SUFFICES ASSUME Init PROVE TracesInv
  OBVIOUS
<1>1. rows = <<>> /\ Len(rows) = 0
  BY EmptySeq DEF Init
<1> QED
  BY <1>1, EmptySeq, InitWriter DEF Init, TracesInv, RowsInv

LEMMA TracesKept ==
    ASSUME TracesInv, UNCHANGED <<rows, writerVars>>
    PROVE  TracesInv'
<1>1. RowsInv'
  BY DEF TracesInv, RowsInv
<1>2. WriterTypes' /\ NumbersInv'
  BY DEF TracesInv, WriterInv, WriterTypes, NumbersInv, Written, writerVars
<1>3. OrderlyInv'
  BY DEF TracesInv, WriterInv, OrderlyInv, Written, writerVars
<1> QED
  BY <1>1, <1>2, <1>3 DEF TracesInv, WriterInv

LEMMA TracesStep ==
    ASSUME TracesInv, [Next]_<<rows, lines, analysed, writerVars, conversation>>
    PROVE  TracesInv'
<1>1. CASE AddRow
  <2>1. RowsInv'
    BY <1>1, RowsStep DEF TracesInv
  <2>2. WriterInv'
    BY <1>1 DEF AddRow, TracesInv, WriterInv, WriterTypes, NumbersInv, OrderlyInv, Written,
                writerVars
  <2> QED
    BY <2>1, <2>2 DEF TracesInv
<1>2. CASE WriterStep
  <2>1. RowsInv'
    BY <1>2 DEF WriterStep, TracesInv, RowsInv
  <2>2. WriterInv'
    BY <1>2, BeginStep, EndStep, WriteStep DEF WriterStep, W!Next, TracesInv
  <2> QED
    BY <2>1, <2>2 DEF TracesInv
<1>3. CASE AddLine \/ AddReading \/ AddSession \/ AddFrame
  BY <1>3, TracesKept DEF AddLine, AddReading, AddSession, AddFrame
<1>4. CASE UNCHANGED <<rows, lines, analysed, writerVars, conversation>>
  BY <1>4, TracesKept
<1> QED
  BY <1>1, <1>2, <1>3, <1>4 DEF Next

(* read_trace accepts exactly the well-formed traces; and what the Python    *)
(* writer has written is accepted at every moment unless threads overlapped  *)
(* or a row followed a lost one, and is refused if one did.                 *)
THEOREM TracesRead == Spec => []TracesAreRead
<1>1. TracesInv => TracesAreRead
  BY ReaderExact, WriterRead DEF TracesInv, RowsInv, TracesAreRead, ReaderIsExact
<1> QED
  BY <1>1, TracesInit, TracesStep, PTL DEF Spec

(* Induction up to a number.                                               *)
LEMMA Counting ==
    ASSUME NEW N \in Nat, NEW T, 0 \in T, \A m \in 0 .. N - 1 : m \in T => m + 1 \in T
    PROVE  \A m \in 0 .. N : m \in T
<1> DEFINE U == {m \in 0 .. N : m \notin T}
<1> SUFFICES ASSUME U # {} PROVE FALSE
  OBVIOUS
<1>1. PICK m \in U : \A k \in U : m <= k
  <2>1. U \subseteq Nat
    OBVIOUS
  <2> HIDE DEF U
  <2> QED
    BY <2>1, Smallest
<1>2. m # 0 /\ m \in 0 .. N
  BY <1>1
<1>3. m - 1 \in 0 .. N - 1 /\ (m - 1) + 1 = m /\ m - 1 \notin U /\ m - 1 \in 0 .. N
  BY <1>1, <1>2
<1> QED
  BY <1>1, <1>3


-----------------------------------------------------------------------------
(* The readings of a cell paired with those of a slot.                     *)

Sorted(s) == \A k, l \in 1 .. Len(s) : k <= l => s[k] <= s[l]

LEMMA DistIs ==
    ASSUME NEW t \in Int, NEW u \in Int
    PROVE  /\ Dist(t, u) \in Nat /\ Dist(t, u) = Dist(u, t)
           /\ t <= u => Dist(t, u) = u - t
           /\ u <= t => Dist(t, u) = t - u
  BY DEF Dist

(* Of three instants in order the middle one is the nearer to the first,   *)
(* and what holds of the distances on one side of a point.                 *)
LEMMA Farther ==
    ASSUME NEW x \in Int, NEW y \in Int, NEW z \in Int, NEW t \in Int,
           x <= y, y <= z, Dist(t, y) > Dist(t, x)
    PROVE  Dist(t, z) > Dist(t, x)
  BY DEF Dist

LEMMA Later ==
    ASSUME NEW x \in Int, NEW y \in Int, NEW t \in Int, NEW u \in Int,
           x <= y, t <= u, Dist(t, y) <= Dist(t, x)
    PROVE  Dist(u, y) <= Dist(u, x)
  BY DEF Dist

LEMMA Interval ==
    ASSUME NEW n \in Nat, NEW j \in 1 .. n, NEW J \in j .. n
    PROVE  /\ J \in 1 .. n
           /\ J # n => J + 1 \in 1 .. n /\ J <= J + 1
           /\ \A k \in j .. J - 1 : /\ k \in j .. n /\ k # n /\ k \in 1 .. n
                                    /\ k + 1 \in 1 .. n /\ ~(J <= k)
           /\ \A k \in 1 .. n : k > J => J # n /\ J + 1 <= k
  OBVIOUS

LEMMA MinIs ==
    ASSUME NEW T, T \subseteq Nat, T # {}
    PROVE  Min(T) \in T /\ \A y \in T : Min(T) <= y
  BY Smallest DEF Min

(* The pass stands at the reading nearest to the last one of the other      *)
(* series, and goes on to the one nearest to the next.                     *)
LEMMA AdvanceNearest ==
    ASSUME NEW a \in Seq(Int), NEW b \in Seq(Int), Sorted(a), Sorted(b),
           NEW i \in 1 .. Len(a), NEW j \in 1 .. Len(b),
           i = 1 => j = 1,
           i > 1 => Nearest(a, b, i - 1, j)
    PROVE  /\ Advance(b, j, a[i]) \in 1 .. Len(b)
           /\ Nearest(a, b, i, Advance(b, j, a[i]))
<1> DEFINE n == Len(b)
           d(k) == Dist(a[i], b[k])
           S == {k \in j .. n : k = n \/ Dist(b[k + 1], a[i]) > Dist(b[k], a[i])}
           J == Advance(b, j, a[i])
<1>1. /\ n \in Nat /\ DOMAIN b = 1 .. n /\ a[i] \in Int /\ \A k \in 1 .. n : b[k] \in Int
      /\ Len(a) \in Nat /\ \A k \in 1 .. Len(a) : a[k] \in Int
  BY LenProperties, ElementOfSeq
<1>2. \A k \in 1 .. n : d(k) \in Nat /\ Dist(b[k], a[i]) = d(k)
  BY <1>1, DistIs
<1>3. J \in S /\ \A k \in S : J <= k
  <2>1. n \in S /\ S \subseteq Nat
    BY <1>1
  <2>2. J = Min(S)
    BY DEF Advance
  <2> HIDE DEF S, J
  <2> QED
    BY <2>1, <2>2, MinIs
<1> HIDE DEF J
<1>4. J \in Nat /\ j <= J /\ J <= n /\ j \in Nat /\ 1 <= j
  <2>1. J \in j .. n
    BY <1>3
  <2> QED
    BY <1>1, <2>1
<1>11. /\ J \in 1 .. n
       /\ J # n => J + 1 \in 1 .. n /\ J <= J + 1
       /\ \A k \in j .. J - 1 : /\ k \in j .. n /\ k # n /\ k \in 1 .. n
                                /\ k + 1 \in 1 .. n /\ ~(J <= k)
       /\ \A k \in 1 .. n : k > J => J # n /\ J + 1 <= k
  <2>1. J \in j .. n /\ n \in Nat
    BY <1>1, <1>3
  <2> HIDE DEF n
  <2> QED
    BY <2>1, Interval
<1>5. \A k \in j .. J - 1 : d(k + 1) <= d(k)
  <2> SUFFICES ASSUME NEW k \in j .. J - 1 PROVE d(k + 1) <= d(k)
    OBVIOUS
  <2>1. k \in j .. n /\ k # n /\ k \in 1 .. n /\ k + 1 \in 1 .. n /\ ~(J <= k)
    BY <1>11, Zenon
  <2>2. k \notin S
    BY <1>3, <2>1
  <2>3. ~(Dist(b[k + 1], a[i]) > Dist(b[k], a[i]))
    BY <2>1, <2>2
  <2>4. /\ d(k + 1) \in Nat /\ Dist(b[k + 1], a[i]) = d(k + 1)
        /\ d(k) \in Nat /\ Dist(b[k], a[i]) = d(k)
    BY <1>2, <2>1
  <2> HIDE DEF d
  <2> QED
    BY <2>3, <2>4
<1>6. J # n => d(J + 1) > d(J)
  <2> SUFFICES ASSUME J # n PROVE d(J + 1) > d(J)
    OBVIOUS
  <2>1. Dist(b[J + 1], a[i]) > Dist(b[J], a[i])
    BY <1>3
  <2>2. J + 1 \in 1 .. n /\ J \in 1 .. n
    BY <1>11, Zenon
  <2>3. Dist(b[J + 1], a[i]) = d(J + 1) /\ Dist(b[J], a[i]) = d(J)
    BY <1>2, <2>2
  <2> QED
    BY <2>1, <2>3, Zenon
<1> HIDE DEF S
<1>7. ASSUME NEW k \in 1 .. n, k > J PROVE d(k) > d(J)
  <2>1. J \in 1 .. n /\ J + 1 \in 1 .. n /\ J # n /\ J <= J + 1 /\ J + 1 <= k
    BY <1>7, <1>11, Zenon
  <2>2. b[J] <= b[J + 1] /\ b[J + 1] <= b[k]
    BY <2>1 DEF Sorted
  <2>3. b[J] \in Int /\ b[J + 1] \in Int /\ b[k] \in Int /\ a[i] \in Int
    BY <1>1, <2>1
  <2>4. d(J + 1) > d(J)
    BY <1>6, <2>1
  <2> QED
    BY <2>2, <2>3, <2>4, Farther
<1>8. ASSUME NEW k \in j .. J, d(k) < d(J) PROVE FALSE
  <2> DEFINE T == {l \in k .. J : d(l) > d(k)}
  <2>1. k \in 1 .. n /\ \A l \in k .. J : l \in 1 .. n
    BY <1>1, <1>4
  <2>2. J \in T /\ T \subseteq Nat
    BY <1>2, <1>4, <1>8, <2>1
  <2>3. PICK l \in T : \A m \in T : l <= m
    <3> HIDE DEF T
    <3> QED
      BY <2>2, Smallest
  <2>4. l # k /\ l \in k .. J /\ d(l) > d(k)
    BY <1>2, <2>1, <2>3
  <2>5. l - 1 \in k .. J /\ l - 1 \in j .. J - 1 /\ (l - 1) + 1 = l /\ ~(l <= l - 1)
    BY <1>4, <2>4
  <2>9. l - 1 \notin T
    BY <2>3, <2>5
  <2>6. d(l - 1) <= d(k)
    <3>1. d(l - 1) \in Nat /\ d(k) \in Nat
      BY <1>2, <2>1, <2>5
    <3>2. ~(d(l - 1) > d(k))
      BY <2>5, <2>9
    <3> HIDE DEF d
    <3> QED
      BY <3>1, <3>2
  <2>7. d(l) <= d(l - 1)
    BY <1>5, <2>5
  <2>8. d(l) \in Nat /\ d(l - 1) \in Nat /\ d(k) \in Nat
    BY <1>2, <2>1, <2>4, <2>5
  <2> HIDE DEF d
  <2> QED
    BY <2>4, <2>6, <2>7, <2>8
<1>9. ASSUME NEW k \in 1 .. n, k < j PROVE d(j) <= d(k)
  <2>1. i # 1 /\ i - 1 \in 1 .. Len(a)
    BY <1>1, <1>9
  <2>2. Dist(a[i - 1], b[j]) <= Dist(a[i - 1], b[k])
    <3>1. i > 1
      BY <2>1
    <3>2. \/ Dist(a[i - 1], b[k]) > Dist(a[i - 1], b[j])
          \/ Dist(a[i - 1], b[k]) = Dist(a[i - 1], b[j])
      BY <1>1, <3>1, Zenon DEF Nearest
    <3>3. Dist(a[i - 1], b[k]) \in Nat /\ Dist(a[i - 1], b[j]) \in Nat
      BY <1>1, <2>1, DistIs
    <3> QED
      BY <3>2, <3>3
  <2>3. i - 1 <= i /\ k <= j
    BY <1>1, <1>9, <2>1
  <2>4. b[k] <= b[j] /\ a[i - 1] <= a[i]
    BY <2>1, <2>3 DEF Sorted
  <2>5. b[k] \in Int /\ b[j] \in Int /\ a[i - 1] \in Int /\ a[i] \in Int
    BY <1>1, <2>1
  <2> QED
    BY <2>2, <2>4, <2>5, Later
<1>10. \A k \in 1 .. n : d(k) > d(J) \/ (d(k) = d(J) /\ k <= J)
  <2> SUFFICES ASSUME NEW k \in 1 .. n PROVE d(k) > d(J) \/ (d(k) = d(J) /\ k <= J)
    OBVIOUS
  <2>1. d(k) \in Nat /\ d(J) \in Nat /\ d(j) \in Nat
    BY <1>2, <1>4
  <2>2. CASE k > J
    <3>1. d(k) > d(J)
      BY <1>7, <2>2
    <3> QED
      BY <3>1, Zenon
  <2>3. CASE k \in j .. J
    <3>1. ~(d(k) < d(J))
      BY <1>8, <2>3
    <3> HIDE DEF d
    <3> QED
      BY <2>1, <2>3, <3>1, <1>4
  <2>4. CASE k < j
    <3>1. ~(d(j) < d(J))
      <4>1. j \in j .. J
        BY <1>4
      <4> QED
        BY <1>8, <4>1
    <3>2. d(j) <= d(k)
      BY <1>9, <2>4
    <3>3. k <= J
      BY <1>1, <1>4, <2>4
    <3>4. \A x, y, z \in Nat : ~(x < y) /\ x <= z => z > y \/ z = y
      OBVIOUS
    <3> HIDE DEF d
    <3> QED
      BY <2>1, <3>1, <3>2, <3>3, <3>4
  <2> QED
    BY <1>4, <2>2, <2>3, <2>4
<1> QED
  BY <1>1, <1>4, <1>10 DEF Nearest, J

(* A reading has one nearest.                                              *)
LEMMA NearestUnique ==
    ASSUME NEW a \in Seq(Int), NEW b \in Seq(Int), NEW i \in 1 .. Len(a),
           NEW j \in 1 .. Len(b), NEW k \in 1 .. Len(b),
           Nearest(a, b, i, j), Nearest(a, b, i, k)
    PROVE  j = k
<1>1. /\ DOMAIN b = 1 .. Len(b) /\ Len(b) \in Nat /\ a[i] \in Int /\ b[j] \in Int /\ b[k] \in Int
  BY LenProperties, ElementOfSeq
<1> DEFINE d == Dist(a[i], b[j])
           e == Dist(a[i], b[k])
<1>2. d \in Nat /\ e \in Nat
  BY <1>1, DistIs
<1>3. (e > d \/ (e = d /\ k <= j)) /\ (d > e \/ (d = e /\ j <= k))
  BY <1>1, Zenon DEF Nearest
<1> HIDE DEF d, e
<1> QED
  BY <1>1, <1>2, <1>3

(* Where the pass stands after i readings, and the pairs it has listed.    *)
Passed(a, b, i) ==
    [j |-> IF i = 0 THEN 1 ELSE CHOOSE j \in 1 .. Len(b) : Nearest(a, b, i, j),
     pairs |-> {p \in (1 .. i) \X (1 .. Len(b)) :
                   Dist(a[p[1]], b[p[2]]) <= MaxDelta /\ Nearest(a, b, p[1], p[2])}]

LEMMA NextPassed ==
    ASSUME NEW a \in Seq(Int), NEW b \in Seq(Int), Sorted(a), Sorted(b), b # <<>>,
           NEW i \in 1 .. Len(a),
           i > 1 => \E j \in 1 .. Len(b) : Nearest(a, b, i - 1, j)
    PROVE  /\ Pass(a, b, Passed(a, b, i - 1), i) = Passed(a, b, i)
           /\ \E j \in 1 .. Len(b) : Nearest(a, b, i, j)
<1> DEFINE j == Passed(a, b, i - 1).j
           J == Advance(b, j, a[i])
<1>1. Len(a) \in Nat /\ Len(b) \in Nat \ {0}
  BY LenProperties, EmptySeq
<1>2. j \in 1 .. Len(b) /\ (i = 1 => j = 1) /\ (i > 1 => Nearest(a, b, i - 1, j))
  <2>1. CASE i = 1
    BY <1>1, <2>1 DEF Passed
  <2>2. CASE i > 1
    <3>1. j = CHOOSE k \in 1 .. Len(b) : Nearest(a, b, i - 1, k)
      BY <2>2 DEF Passed
    <3>2. \E k \in 1 .. Len(b) : Nearest(a, b, i - 1, k)
      BY <2>2
    <3> HIDE DEF j
    <3>3. j \in 1 .. Len(b) /\ Nearest(a, b, i - 1, j)
      BY <3>1, <3>2, Zenon
    <3> QED
      BY <2>2, <3>3
  <2> QED
    BY <2>1, <2>2
<1>3. J \in 1 .. Len(b) /\ Nearest(a, b, i, J)
  <2> HIDE DEF j
  <2> QED
    BY <1>2, AdvanceNearest
<1>4. Passed(a, b, i).j = J
  <2> HIDE DEF J
  <2>1. Passed(a, b, i).j = CHOOSE k \in 1 .. Len(b) : Nearest(a, b, i, k)
    BY <1>1 DEF Passed
  <2>2. \A k \in 1 .. Len(b) : Nearest(a, b, i, k) => k = J
    BY <1>3, NearestUnique
  <2> QED
    BY <1>3, <2>1, <2>2
<1>5. Passed(a, b, i).pairs =
         IF Dist(b[J], a[i]) <= MaxDelta THEN Passed(a, b, i - 1).pairs \cup {<<i, J>>}
                                         ELSE Passed(a, b, i - 1).pairs
  <2> HIDE DEF J
  <2>1. Dist(b[J], a[i]) = Dist(a[i], b[J])
    <3>1. a[i] \in Int /\ b[J] \in Int
      BY <1>3, ElementOfSeq
    <3> QED
      BY <3>1, DistIs
  <2>2. \A k \in 1 .. Len(b) : Nearest(a, b, i, k) <=> k = J
    BY <1>3, NearestUnique
  <2>3. 1 .. i = (1 .. i - 1) \cup {i} /\ i \notin 1 .. i - 1
    BY <1>1
  <2> DEFINE Q(p) == Dist(a[p[1]], b[p[2]]) <= MaxDelta /\ Nearest(a, b, p[1], p[2])
  <2>4. \A p : p \in Passed(a, b, i).pairs <=>
                  p \in (1 .. i) \X (1 .. Len(b)) /\ Q(p)
    BY DEF Passed
  <2>5. \A p : p \in Passed(a, b, i - 1).pairs <=>
                  p \in (1 .. i - 1) \X (1 .. Len(b)) /\ Q(p)
    BY DEF Passed
  <2>6. \A p : (p \in (1 .. i) \X (1 .. Len(b)) /\ p[1] = i /\ Q(p)) <=>
                  (p = <<i, J>> /\ Dist(a[i], b[J]) <= MaxDelta)
    <3> SUFFICES ASSUME NEW p
                 PROVE  (p \in (1 .. i) \X (1 .. Len(b)) /\ p[1] = i /\ Q(p)) <=>
                        (p = <<i, J>> /\ Dist(a[i], b[J]) <= MaxDelta)
      OBVIOUS
    <3>1. ASSUME p \in (1 .. i) \X (1 .. Len(b)), p[1] = i, Q(p)
          PROVE  p = <<i, J>> /\ Dist(a[i], b[J]) <= MaxDelta
      BY <2>2, <3>1
    <3>2. ASSUME p = <<i, J>>, Dist(a[i], b[J]) <= MaxDelta
          PROVE  p \in (1 .. i) \X (1 .. Len(b)) /\ p[1] = i /\ Q(p)
      <4>1. p[1] = i /\ p[2] = J /\ i \in 1 .. i
        BY <3>2, <1>1
      <4>2. Q(p)
        BY <3>2, <4>1, <1>3, Zenon
      <4> QED
        BY <3>2, <4>1, <4>2, <1>3
    <3> QED
      BY <3>1, <3>2
  <2> HIDE DEF Q
  <2>7. \A p : p \in (1 .. i) \X (1 .. Len(b)) <=>
                  \/ p \in (1 .. i - 1) \X (1 .. Len(b))
                  \/ p \in (1 .. i) \X (1 .. Len(b)) /\ p[1] = i
    BY <2>3
  <2>8. \A p : p \in Passed(a, b, i).pairs <=>
                  \/ p \in Passed(a, b, i - 1).pairs
                  \/ p = <<i, J>> /\ Dist(b[J], a[i]) <= MaxDelta
    BY <2>1, <2>4, <2>5, <2>6, <2>7, Zenon
  <2>9. CASE Dist(b[J], a[i]) <= MaxDelta
    <3>1. \A p : p \in Passed(a, b, i).pairs <=>
                   p \in Passed(a, b, i - 1).pairs \cup {<<i, J>>}
      BY <2>8, <2>9
    <3> QED
      BY <2>9, <3>1
  <2>10. CASE ~(Dist(b[J], a[i]) <= MaxDelta)
    BY <2>8, <2>10
  <2> QED
    BY <2>9, <2>10
<1>6. Pass(a, b, Passed(a, b, i - 1), i) =
         [j |-> J, pairs |-> Passed(a, b, i).pairs]
  BY <1>5, Zenon DEF Pass
<1>7. Passed(a, b, i) = [j |-> Passed(a, b, i).j, pairs |-> Passed(a, b, i).pairs]
  BY DEF Passed
<1> QED
  BY <1>3, <1>4, <1>6, <1>7, Zenon

LEMMA PassesAre ==
    ASSUME NEW a \in Seq(Int), NEW b \in Seq(Int), Sorted(a), Sorted(b), b # <<>>
    PROVE  Passes(a, b)[Len(a)] = Passed(a, b, Len(a))
<1> DEFINE N == Len(a)
           step(g, i) == IF i = 0 THEN [j |-> 1, pairs |-> {}] ELSE Pass(a, b, g[i - 1], i)
           f == [i \in 0 .. N |-> Passed(a, b, i)]
           r == Passes(a, b)
<1>1. N \in Nat
  BY LenProperties
<1>2. \A i \in 0 .. N : i > 0 => \E j \in 1 .. Len(b) : Nearest(a, b, i, j)
  <2> DEFINE T == {i \in 0 .. N : i > 0 => \E j \in 1 .. Len(b) : Nearest(a, b, i, j)}
  <2>1. 0 \in T
    BY <1>1
  <2>2. ASSUME NEW i \in 0 .. N - 1, i \in T PROVE i + 1 \in T
    <3>1. i + 1 \in 1 .. N /\ (i + 1) - 1 = i
      BY <1>1
    <3>2. i + 1 > 1 => \E j \in 1 .. Len(b) : Nearest(a, b, (i + 1) - 1, j)
      BY <2>2, <3>1
    <3>3. \E j \in 1 .. Len(b) : Nearest(a, b, i + 1, j)
      BY <3>1, <3>2, NextPassed
    <3> QED
      BY <3>1, <3>3
  <2>3. \A i \in 0 .. N : i \in T
    <3> HIDE DEF T, N
    <3> QED
      BY <1>1, <2>1, <2>2, Counting
  <2> QED
    BY <2>3
<1>3. \A i \in 1 .. N : Pass(a, b, Passed(a, b, i - 1), i) = Passed(a, b, i)
  <2> SUFFICES ASSUME NEW i \in 1 .. N
               PROVE  Pass(a, b, Passed(a, b, i - 1), i) = Passed(a, b, i)
    OBVIOUS
  <2>1. i > 1 => \E j \in 1 .. Len(b) : Nearest(a, b, i - 1, j)
    BY <1>1, <1>2
  <2>2. i \in 1 .. Len(a)
    OBVIOUS
  <2> QED
    BY <2>1, <2>2, NextPassed, Zenon
<1>4. Passed(a, b, 0) = [j |-> 1, pairs |-> {}]
  <2>1. 1 .. 0 = {}
    OBVIOUS
  <2>2. {p \in (1 .. 0) \X (1 .. Len(b)) :
            Dist(a[p[1]], b[p[2]]) <= MaxDelta /\ Nearest(a, b, p[1], p[2])} = {}
    BY <2>1
  <2> QED
    BY <2>2, Zenon DEF Passed
<1>5. f = [i \in 0 .. N |-> step(f, i)]
  <2>1. \A i \in 0 .. N : f[i] = step(f, i)
    <3> SUFFICES ASSUME NEW i \in 0 .. N, i # 0 PROVE f[i] = step(f, i)
      BY <1>4
    <3>1. i \in 1 .. N /\ i - 1 \in 0 .. N
      BY <1>1
    <3> QED
      BY <1>3, <3>1
  <2> QED
    BY <2>1
<1>6. r = CHOOSE g : g = [i \in 0 .. N |-> step(g, i)]
  BY DEF Passes
<1>7. r = [i \in 0 .. N |-> step(r, i)]
  BY <1>5, <1>6
<1>8. r[0] = f[0]
  BY <1>1, <1>4, <1>7
<1>9. \A i \in 1 .. N : r[i - 1] = f[i - 1] => r[i] = f[i]
  <2> SUFFICES ASSUME NEW i \in 1 .. N, r[i - 1] = f[i - 1] PROVE r[i] = f[i]
    OBVIOUS
  <2>1. i \in 0 .. N /\ i - 1 \in 0 .. N /\ i # 0
    BY <1>1
  <2>2. r[i] = Pass(a, b, r[i - 1], i)
    BY <1>7, <2>1
  <2>3. f[i] = Passed(a, b, i) /\ f[i - 1] = Passed(a, b, i - 1)
    BY <2>1
  <2>4. Pass(a, b, Passed(a, b, i - 1), i) = Passed(a, b, i)
    BY <1>3
  <2> HIDE DEF f, r
  <2>5. r[i - 1] = f[i - 1]
    OBVIOUS
  <2> QED
    BY <2>2, <2>3, <2>4, <2>5, Zenon
<1> HIDE DEF r, f
<1> DEFINE T == {i \in 0 .. N : r[i] = f[i]}
<1>10. 0 \in T
  BY <1>1, <1>8
<1>11. ASSUME NEW i \in 0 .. N - 1, i \in T PROVE i + 1 \in T
  <2>1. i + 1 \in 1 .. N /\ (i + 1) - 1 = i /\ i + 1 \in 0 .. N
    BY <1>1
  <2>2. r[i] = f[i]
    BY <1>11
  <2> HIDE DEF N
  <2> QED
    BY <1>9, <2>1, <2>2
<1>12. \A i \in 0 .. N : i \in T
  <2> HIDE DEF T, N
  <2> QED
    BY <1>1, <1>10, <1>11, Counting
<1>13. r[N] = f[N] /\ f[N] = Passed(a, b, N)
  <2>1. N \in 0 .. N
    BY <1>1
  <2> HIDE DEF N
  <2> QED
    BY <1>12, <2>1 DEF f
<1> QED
  BY <1>13, Zenon DEF r

(* The pass, which never goes back, pairs every reading with the nearest    *)
(* reading of the other series, whatever the two series.                   *)
THEOREM PairsAreNearest ==
    ASSUME NEW a \in Seq(Int), NEW b \in Seq(Int), Sorted(a), Sorted(b)
    PROVE  NearestPairsExact(a, b)
<1>1. DOMAIN a = 1 .. Len(a) /\ DOMAIN b = 1 .. Len(b)
  BY LenProperties
<1>2. CASE a = <<>> \/ b = <<>>
  <2>1. DOMAIN a = {} \/ DOMAIN b = {}
    BY <1>2
  <2> QED
    BY <1>2, <2>1 DEF NearestPairs, NearestPairsExact
<1>3. CASE a # <<>> /\ b # <<>>
  <2>1. NearestPairs(a, b) = Passed(a, b, Len(a)).pairs
    BY <1>3, PassesAre, Zenon DEF NearestPairs
  <2>2. Passed(a, b, Len(a)).pairs =
           {p \in (DOMAIN a) \X (DOMAIN b) :
               Dist(a[p[1]], b[p[2]]) <= MaxDelta /\ Nearest(a, b, p[1], p[2])}
    BY <1>1, Zenon DEF Passed
  <2> QED
    BY <2>1, <2>2 DEF NearestPairsExact
<1> QED
  BY <1>2, <1>3

-----------------------------------------------------------------------------
(* The assignment of slots to cells.                                       *)

(* The scores of a session.                                                *)
Scored(scores) ==
    /\ IsFiniteSet(DOMAIN scores)
    /\ \A p \in DOMAIN scores :
          /\ p[1] \in Int /\ p[2] \in Int /\ p = <<p[1], p[2]>>
          /\ scores[p].points \in Int

(* The order in which pairs are tried is a strict total order.             *)
LEMMA BeforeOrders ==
    ASSUME NEW scores, Scored(scores)
    PROVE  /\ \A p \in DOMAIN scores : ~Before(scores, p, p)
           /\ \A p, q, r \in DOMAIN scores :
                 Before(scores, p, q) /\ Before(scores, q, r) => Before(scores, p, r)
           /\ \A p, q \in DOMAIN scores :
                 p # q => Before(scores, p, q) \/ Before(scores, q, p)
           /\ \A p, q \in DOMAIN scores :
                 Before(scores, p, q) => scores[p].points >= scores[q].points
<1>1. \A p \in DOMAIN scores : ~Before(scores, p, p)
  BY DEF Scored, Before
<1>2. ASSUME NEW p \in DOMAIN scores, NEW q \in DOMAIN scores, NEW r \in DOMAIN scores,
             Before(scores, p, q), Before(scores, q, r)
      PROVE  Before(scores, p, r)
  BY <1>2 DEF Scored, Before
<1>3. ASSUME NEW p \in DOMAIN scores, NEW q \in DOMAIN scores, p # q
      PROVE  Before(scores, p, q) \/ Before(scores, q, p)
  <2>1. p[1] # q[1] \/ p[2] # q[2]
    BY <1>3, Zenon DEF Scored
  <2> QED
    BY <2>1 DEF Scored, Before
<1>4. ASSUME NEW p \in DOMAIN scores, NEW q \in DOMAIN scores, Before(scores, p, q)
      PROVE  scores[p].points >= scores[q].points
  BY <1>4 DEF Scored, Before
<1> QED
  BY <1>1, <1>2, <1>3, <1>4

(* How many pairs are tried before one.                                    *)
Rank(scores, p) == Cardinality(Ahead(scores, p))

LEMMA RankGrows ==
    ASSUME NEW scores, Scored(scores)
    PROVE  /\ Cardinality(DOMAIN scores) \in Nat
           /\ \A p \in DOMAIN scores :
                 Rank(scores, p) \in 0 .. Cardinality(DOMAIN scores) - 1
           /\ \A p, q \in DOMAIN scores :
                 Before(scores, p, q) => Rank(scores, p) < Rank(scores, q)
<1> DEFINE D == DOMAIN scores
<1>1. IsFiniteSet(D) /\ Cardinality(D) \in Nat
  BY FS_CardinalityType DEF Scored
<1>2. \A p \in D : /\ IsFiniteSet(Ahead(scores, p)) /\ Rank(scores, p) \in Nat
                   /\ Rank(scores, p) <= Cardinality(D) - 1
  <2> SUFFICES ASSUME NEW p \in D
               PROVE  /\ IsFiniteSet(Ahead(scores, p)) /\ Rank(scores, p) \in Nat
                      /\ Rank(scores, p) <= Cardinality(D) - 1
    OBVIOUS
  <2>1. Ahead(scores, p) \in SUBSET (D \ {p})
    BY BeforeOrders DEF Ahead
  <2>2. IsFiniteSet(D \ {p}) /\ Cardinality(D \ {p}) = Cardinality(D) - 1
    BY <1>1, FS_RemoveElement
  <2>3. /\ IsFiniteSet(Ahead(scores, p))
        /\ Cardinality(Ahead(scores, p)) <= Cardinality(D \ {p})
    BY <2>1, <2>2, FS_Subset
  <2> QED
    BY <2>2, <2>3, FS_CardinalityType DEF Rank
<1>3. ASSUME NEW p \in D, NEW q \in D, Before(scores, p, q)
      PROVE  Rank(scores, p) < Rank(scores, q)
  <2>1. p \notin Ahead(scores, p) /\ Ahead(scores, p) \cup {p} \in SUBSET Ahead(scores, q)
    BY <1>3, BeforeOrders DEF Ahead
  <2>2. Cardinality(Ahead(scores, p) \cup {p}) = Rank(scores, p) + 1
    BY <1>2, <2>1, FS_AddElement DEF Rank
  <2>3. Cardinality(Ahead(scores, p) \cup {p}) <= Rank(scores, q)
    BY <1>2, <2>1, FS_Subset DEF Rank
  <2> QED
    BY <1>2, <2>2, <2>3
<1> QED
  BY <1>1, <1>2, <1>3

(* Every place of the order is taken, once.                                *)
LEMMA OrderIs ==
    ASSUME NEW scores, Scored(scores)
    PROVE  /\ \A i \in 1 .. Cardinality(DOMAIN scores) :
                 /\ ByScore(scores)[i] \in DOMAIN scores
                 /\ Rank(scores, ByScore(scores)[i]) = i - 1
           /\ \A p, q \in DOMAIN scores : Rank(scores, p) = Rank(scores, q) => p = q
<1> DEFINE D == DOMAIN scores
           N == Cardinality(D)
           f == [p \in D |-> Rank(scores, p)]
<1>1. N \in Nat /\ IsFiniteSet(D)
  BY RankGrows DEF Scored
<1>2. ASSUME NEW p \in D, NEW q \in D, Rank(scores, p) = Rank(scores, q) PROVE p = q
  <2>1. Rank(scores, p) \in Int /\ Rank(scores, q) \in Int
    BY <1>1, RankGrows
  <2>2. ~Before(scores, p, q) /\ ~Before(scores, q, p)
    BY <1>2, <2>1, RankGrows
  <2> QED
    BY <2>2, BeforeOrders
<1>3. f \in Injection(D, 0 .. N - 1)
  <2>1. f \in [D -> 0 .. N - 1]
    BY RankGrows
  <2> QED
    BY <1>2, <2>1 DEF Injection, IsInjective
<1>4. IsFiniteSet(0 .. N - 1) /\ Cardinality(0 .. N - 1) = N
  <2> HIDE DEF N
  <2> QED
    BY <1>1, FS_Interval
<1>5. f \in Surjection(D, 0 .. N - 1)
  <2> HIDE DEF f
  <2> QED
    BY <1>1, <1>3, <1>4, FS_Injection
<1>6. ASSUME NEW i \in 1 .. N
      PROVE  ByScore(scores)[i] \in D /\ Rank(scores, ByScore(scores)[i]) = i - 1
  <2>1. i - 1 \in 0 .. N - 1
    BY <1>1
  <2>2. \E p \in D : f[p] = i - 1
    <3> HIDE DEF f
    <3> QED
      BY <1>5, <2>1 DEF Surjection
  <2>3. \E p \in D : Cardinality(Ahead(scores, p)) = i - 1
    BY <2>2 DEF Rank
  <2>4. ByScore(scores)[i] = CHOOSE p \in D : Cardinality(Ahead(scores, p)) = i - 1
    BY DEF ByScore
  <2> QED
    BY <2>3, <2>4 DEF Rank
<1> QED
  BY <1>2, <1>6

(* The assignments are those the definition says.                          *)
LEMMA AssignedIs ==
    ASSUME NEW scores, Cardinality(DOMAIN scores) \in Nat
    PROVE  /\ Assigned(scores)[0] = {}
           /\ \A n \in 1 .. Cardinality(DOMAIN scores) :
                 Assigned(scores)[n] = Assign(Assigned(scores)[n - 1], ByScore(scores)[n])
<1> DEFINE N == Cardinality(DOMAIN scores)
           order == ByScore(scores)
           step(g, n) == IF n = 0 THEN {} ELSE Assign(g[n - 1], order[n])
           Built == {m \in 0 .. N : \E g : g = [n \in 0 .. m |-> step(g, n)]}
<1>1. 0 \in Built
  <2> DEFINE g == [n \in 0 .. 0 |-> {}]
  <2>1. g = [n \in 0 .. 0 |-> step(g, n)]
    OBVIOUS
  <2>2. 0 \in 0 .. N
    OBVIOUS
  <2> HIDE DEF g, step, N
  <2> QED
    BY <2>1, <2>2
<1>2. ASSUME NEW m \in 0 .. N - 1, m \in Built PROVE m + 1 \in Built
  <2>1. PICK g : g = [n \in 0 .. m |-> step(g, n)]
    BY <1>2
  <2> DEFINE h == [n \in 0 .. m + 1 |->
                      IF n = m + 1 THEN Assign(g[m], order[m + 1]) ELSE g[n]]
  <2>2. ASSUME NEW n \in 0 .. m + 1 PROVE h[n] = step(h, n)
    <3>1. CASE n = 0
      BY <2>1, <3>1
    <3>2. CASE n \in 1 .. m
      <4>1. n \in 0 .. m /\ n # 0 /\ n # m + 1 /\ n - 1 \in 0 .. m + 1 /\ n - 1 # m + 1
        BY <3>2
      <4>2. g[n] = Assign(g[n - 1], order[n])
        BY <2>1, <4>1
      <4>3. h[n] = g[n] /\ h[n - 1] = g[n - 1]
        BY <4>1
      <4> QED
        BY <4>1, <4>2, <4>3, Zenon
    <3>3. CASE n = m + 1
      <4>1. n # 0 /\ n - 1 = m /\ m \in 0 .. m + 1 /\ m # m + 1
        BY <3>3
      <4>2. h[n] = Assign(g[m], order[m + 1]) /\ h[m] = g[m]
        BY <3>3, <4>1
      <4> QED
        BY <3>3, <4>1, <4>2, Zenon
    <3> QED
      BY <3>1, <3>2, <3>3
  <2>3. h = [n \in 0 .. m + 1 |-> step(h, n)]
    <3>1. h = [n \in 0 .. m + 1 |-> h[n]]
      OBVIOUS
    <3> HIDE DEF h
    <3> QED
      BY <2>2, <3>1
  <2>4. m + 1 \in 0 .. N
    OBVIOUS
  <2> HIDE DEF h, step
  <2> QED
    BY <2>3, <2>4
<1>3. N \in Built
  <2>1. N \in Nat /\ N \in 0 .. N
    OBVIOUS
  <2> HIDE DEF N, Built
  <2> QED
    BY <1>1, <1>2, <2>1, Counting
<1>4. PICK g : g = [n \in 0 .. N |-> step(g, n)]
  BY <1>3
<1> DEFINE r == Assigned(scores)
<1>5. r = CHOOSE a : a = [n \in 0 .. N |-> step(a, n)]
  BY DEF Assigned
<1>6. r = [n \in 0 .. N |-> step(r, n)]
  <2> HIDE DEF step, r, N
  <2> QED
    BY <1>4, <1>5
<1> HIDE DEF r
<1>7. r[0] = {}
  BY <1>6
<1>8. ASSUME NEW n \in 1 .. N PROVE r[n] = Assign(r[n - 1], order[n])
  <2>1. n \in 0 .. N /\ n # 0
    OBVIOUS
  <2>2. r[n] = step(r, n)
    <3> HIDE DEF step, N
    <3> QED
      BY <1>6, <2>1
  <2> QED
    BY <2>1, <2>2, Zenon
<1> QED
  BY <1>7, <1>8 DEF r

(* What is assigned after n pairs, best first: pairs among those tried,     *)
(* none of which share a cell or a slot; and each pair tried that was not   *)
(* assigned has a rival that was tried earlier.                            *)
LEMMA AssignedAre ==
    ASSUME NEW scores, Scored(scores)
    PROVE  \A n \in 0 .. Cardinality(DOMAIN scores) :
              LET P == Assigned(scores)[n]
              IN  /\ P \subseteq {p \in DOMAIN scores : Rank(scores, p) < n}
                  /\ \A p, q \in P : p[1] = q[1] \/ p[2] = q[2] => p = q
                  /\ \A p \in DOMAIN scores : Rank(scores, p) < n /\ p \notin P =>
                        \E q \in P : /\ q[1] = p[1] \/ q[2] = p[2]
                                     /\ Before(scores, q, p)
<1> DEFINE D == DOMAIN scores
           N == Cardinality(D)
           A == Assigned(scores)
           Tried(n) == {p \in D : Rank(scores, p) < n}
           Good(n) ==
              /\ A[n] \subseteq Tried(n)
              /\ \A p, q \in A[n] : p[1] = q[1] \/ p[2] = q[2] => p = q
              /\ \A p \in Tried(n) \ A[n] :
                    \E q \in A[n] : (q[1] = p[1] \/ q[2] = p[2]) /\ Before(scores, q, p)
           T == {n \in 0 .. N : Good(n)}
<1>1. N \in Nat /\ \A p \in D : Rank(scores, p) \in 0 .. N - 1
  BY RankGrows
<1>2. 0 \in T
  <2>1. A[0] = {}
    BY <1>1, AssignedIs
  <2>2. Tried(0) = {}
    BY <1>1
  <2> QED
    BY <1>1, <2>1, <2>2
<1>3. ASSUME NEW m \in 0 .. N - 1, m \in T PROVE m + 1 \in T
  <2> DEFINE o == ByScore(scores)[m + 1]
  <2>1. m + 1 \in 1 .. N /\ (m + 1) - 1 = m /\ m + 1 \in 0 .. N
    BY <1>1
  <2>2. A[m + 1] = Assign(A[m], o)
    BY <1>1, <2>1, AssignedIs
  <2>3. o \in D /\ Rank(scores, o) = m
    <3>1. o \in D /\ Rank(scores, o) = (m + 1) - 1
      BY <2>1, OrderIs
    <3> QED
      BY <2>1, <3>1
  <2>4. Tried(m + 1) = Tried(m) \cup {o} /\ o \notin Tried(m)
    <3>1. \A p \in D : Rank(scores, p) = m => p = o
      BY <2>3, OrderIs
    <3>2. \A p \in D : Rank(scores, p) < m + 1 <=> Rank(scores, p) < m \/ Rank(scores, p) = m
      BY <1>1
    <3> QED
      BY <2>3, <3>1, <3>2
  <2>5. \A q \in Tried(m) : Before(scores, q, o)
    <3> SUFFICES ASSUME NEW q \in Tried(m) PROVE Before(scores, q, o)
      OBVIOUS
    <3>1. q \in D /\ q # o /\ Rank(scores, q) < m /\ Rank(scores, q) \in Int
      BY <1>1, <2>4
    <3>2. ~Before(scores, o, q)
      BY <2>3, <3>1, RankGrows
    <3> QED
      BY <2>3, <3>1, <3>2, BeforeOrders
  <2>6. Good(m)
    BY <1>3
  <2> HIDE DEF o, Tried, A
  <2>7. CASE \E q \in A[m] : q[1] = o[1] \/ q[2] = o[2]
    <3>1. A[m + 1] = A[m]
      BY <2>2, <2>7 DEF Assign
    <3>2. \E q \in A[m] : (q[1] = o[1] \/ q[2] = o[2]) /\ Before(scores, q, o)
      BY <2>5, <2>6, <2>7
    <3>3. Good(m + 1)
      BY <2>4, <2>6, <3>1, <3>2
    <3> QED
      BY <2>1, <3>3
  <2>8. CASE ~\E q \in A[m] : q[1] = o[1] \/ q[2] = o[2]
    <3>1. A[m + 1] = A[m] \cup {o}
      BY <2>2, <2>8 DEF Assign
    <3>2. A[m + 1] \subseteq Tried(m + 1)
      BY <2>4, <2>6, <3>1
    <3>3. \A p, q \in A[m + 1] : p[1] = q[1] \/ p[2] = q[2] => p = q
      BY <2>6, <2>8, <3>1
    <3>4. \A p \in Tried(m + 1) \ A[m + 1] :
             \E q \in A[m + 1] : (q[1] = p[1] \/ q[2] = p[2]) /\ Before(scores, q, p)
      BY <2>4, <2>6, <3>1
    <3> QED
      BY <2>1, <3>2, <3>3, <3>4
  <2> QED
    BY <2>7, <2>8
<1>4. \A n \in 0 .. N : n \in T
  <2> HIDE DEF N, T
  <2> QED
    BY <1>1, <1>2, <1>3, Counting
<1>5. ASSUME NEW n \in 0 .. N PROVE Good(n)
  BY <1>4
<1> HIDE DEF A
<1> QED
  BY <1>5 DEF A

(* What a mapping says, without its confidences.                           *)
Mapped(scores) == Assigned(scores)[Cardinality(DOMAIN scores)]

LEMMA MappedIs ==
    ASSUME NEW scores, Scored(scores)
    PROVE  /\ Mapped(scores) \subseteq DOMAIN scores
           /\ \A p, q \in Mapped(scores) : p[1] = q[1] \/ p[2] = q[2] => p = q
           /\ \A p \in (DOMAIN scores) \ Mapped(scores) :
                 \E q \in Mapped(scores) : /\ q[1] = p[1] \/ q[2] = p[2]
                                           /\ scores[q].points >= scores[p].points
<1> DEFINE D == DOMAIN scores
           N == Cardinality(D)
<1>1. N \in Nat /\ \A p \in D : Rank(scores, p) \in 0 .. N - 1
  BY RankGrows
<1>2. N \in 0 .. N /\ \A p \in D : Rank(scores, p) < N
  <2> HIDE DEF N
  <2> QED
    BY <1>1
<1>3. /\ Mapped(scores) \subseteq {p \in D : Rank(scores, p) < N}
      /\ \A p, q \in Mapped(scores) : p[1] = q[1] \/ p[2] = q[2] => p = q
      /\ \A p \in D : Rank(scores, p) < N /\ p \notin Mapped(scores) =>
            \E q \in Mapped(scores) : /\ q[1] = p[1] \/ q[2] = p[2]
                                      /\ Before(scores, q, p)
  BY <1>2, AssignedAre, Zenon DEF Mapped
<1> QED
  BY <1>2, <1>3, BeforeOrders

(* The best pairs are assigned first, so no cell and slot that were left    *)
(* would both be better served by each other, whatever the scores.         *)
THEOREM AssignmentIsStable == ASSUME NEW scores, Scored(scores) PROVE AssignmentStable(scores)
<1>1. {row[1] : row \in RankMapping(scores)} = Mapped(scores)
  <2>1. RankMapping(scores) = {<<p, Confidence(scores[p])>> : p \in Mapped(scores)}
    BY Zenon DEF RankMapping, Mapped
  <2> DEFINE c(p) == Confidence(scores[p])
  <2> HIDE DEF c
  <2> DEFINE R == {<<p, c(p)>> : p \in Mapped(scores)}
  <2>2. {row[1] : row \in R} = Mapped(scores)
    <3>1. ASSUME NEW x \in {row[1] : row \in R} PROVE x \in Mapped(scores)
      <4>1. PICK row \in R : x = row[1]
        BY <3>1
      <4>2. PICK p \in Mapped(scores) : row = <<p, c(p)>>
        BY <4>1
      <4> QED
        BY <4>1, <4>2
    <3>2. ASSUME NEW x \in Mapped(scores) PROVE x \in {row[1] : row \in R}
      <4>1. <<x, c(x)>> \in R /\ <<x, c(x)>>[1] = x
        BY <3>2
      <4> HIDE DEF R
      <4> QED
        BY <4>1
    <3> QED
      BY <3>1, <3>2
  <2> QED
    BY <2>1, <2>2, Zenon DEF c
<1> QED
  BY <1>1, MappedIs DEF AssignmentStable

-----------------------------------------------------------------------------
(* The candidates of several sessions.                                     *)

AllScored(reports) ==
    \A i \in DOMAIN reports :
        Scored(reports[i]) /\ DOMAIN reports[i] \subseteq Cells \X Slots

Mappings(reports) == [i \in DOMAIN reports |-> RankMapping(reports[i])]

Given(reports, c) ==
    {i \in DOMAIN reports : \E row \in RankMapping(reports[i]) : row[1][1] = c}

(* A report gives a cell one slot at most, so observations are counted as   *)
(* reports are.                                                            *)
LEMMA RowsAre ==
    ASSUME NEW scores
    PROVE  /\ \A row \in RankMapping(scores) :
                 /\ row[1] \in Mapped(scores) /\ row = <<row[1], row[2]>>
                 /\ row[2] = Confidence(scores[row[1]])
           /\ \A p \in Mapped(scores) : \E row \in RankMapping(scores) : row[1] = p
<1> DEFINE c(p) == Confidence(scores[p])
           R == {<<p, c(p)>> : p \in Mapped(scores)}
<1>1. RankMapping(scores) = R
  BY Zenon DEF RankMapping, Mapped
<1> HIDE DEF c
<1>2. ASSUME NEW row \in R PROVE row[1] \in Mapped(scores) /\ row = <<row[1], row[2]>> /\ row[2] = c(row[1])
  <2>1. PICK p \in Mapped(scores) : row = <<p, c(p)>>
    BY <1>2
  <2> QED
    BY <2>1
<1>3. ASSUME NEW p \in Mapped(scores) PROVE \E row \in R : row[1] = p
  <2>1. <<p, c(p)>> \in R /\ <<p, c(p)>>[1] = p
    BY <1>3
  <2> HIDE DEF R
  <2> QED
    BY <2>1
<1> HIDE DEF R
<1> QED
  BY <1>1, <1>2, <1>3, Zenon DEF c

LEMMA GivenIs ==
    ASSUME NEW reports, NEW c
    PROVE  Given(reports, c) =
              {i \in DOMAIN reports : \E p \in Mapped(reports[i]) : p[1] = c}
<1> SUFFICES ASSUME NEW i \in DOMAIN reports
             PROVE  (\E row \in RankMapping(reports[i]) : row[1][1] = c) <=>
                    (\E p \in Mapped(reports[i]) : p[1] = c)
  BY DEF Given
<1>1. \A row \in RankMapping(reports[i]) : row[1] \in Mapped(reports[i])
  BY RowsAre
<1>2. \A p \in Mapped(reports[i]) : \E row \in RankMapping(reports[i]) : row[1] = p
  BY RowsAre
<1> QED
  BY <1>1, <1>2, Zenon

(* An observation is of a report, a pair and its confidence.               *)
LEMMA ObservationsAre ==
    ASSUME NEW reports, NEW c
    PROVE  /\ \A o \in Observations(c, Mappings(reports)) :
                 /\ o = <<o[1], o[2]>> /\ o[1] \in Given(reports, c)
                 /\ o[2] = <<o[2][1], o[2][2]>>
                 /\ o[2][1] \in Mapped(reports[o[1]]) /\ o[2][1][1] = c
                 /\ o[2][2] = Confidence(reports[o[1]][o[2][1]])
           /\ \A i \in DOMAIN reports : \A p \in Mapped(reports[i]) :
                 p[1] = c =>
                    \E o \in Observations(c, Mappings(reports)) : o[1] = i /\ o[2][1] = p
<1> DEFINE M == Mappings(reports)
           Of(i) == {<<i, row>> : row \in {r \in M[i] : r[1][1] = c}}
           O == Observations(c, M)
<1>1. O = UNION {Of(i) : i \in DOMAIN reports}
  BY Zenon DEF Observations, Mappings
<1>2. \A i \in DOMAIN reports : M[i] = RankMapping(reports[i])
  BY DEF Mappings
<1>3. ASSUME NEW o \in O
      PROVE  /\ o = <<o[1], o[2]>> /\ o[1] \in DOMAIN reports
             /\ o[2] \in RankMapping(reports[o[1]]) /\ o[2][1][1] = c
  <2>1. PICK i \in DOMAIN reports : o \in Of(i)
    <3> HIDE DEF Of, O
    <3> QED
      BY <1>1, <1>3
  <2>2. PICK row \in {r \in M[i] : r[1][1] = c} : o = <<i, row>>
    BY <2>1
  <2>3. o[1] = i /\ o[2] = row
    BY <2>2
  <2> QED
    BY <1>2, <2>2, <2>3
<1>4. ASSUME NEW i \in DOMAIN reports, NEW row \in RankMapping(reports[i]), row[1][1] = c
      PROVE  <<i, row>> \in O
  <2>1. <<i, row>> \in Of(i)
    BY <1>2, <1>4
  <2> HIDE DEF Of, O
  <2> QED
    BY <1>1, <2>1
<1> HIDE DEF O
<1>5. ASSUME NEW o \in O
      PROVE  /\ o = <<o[1], o[2]>> /\ o[1] \in Given(reports, c)
             /\ o[2] = <<o[2][1], o[2][2]>>
             /\ o[2][1] \in Mapped(reports[o[1]]) /\ o[2][1][1] = c
             /\ o[2][2] = Confidence(reports[o[1]][o[2][1]])
  <2>1. /\ o = <<o[1], o[2]>> /\ o[1] \in DOMAIN reports
        /\ o[2] \in RankMapping(reports[o[1]]) /\ o[2][1][1] = c
    BY <1>3
  <2>2. o[1] \in Given(reports, c)
    BY <2>1 DEF Given
  <2>3. /\ o[2][1] \in Mapped(reports[o[1]]) /\ o[2] = <<o[2][1], o[2][2]>>
        /\ o[2][2] = Confidence(reports[o[1]][o[2][1]])
    BY <2>1, RowsAre
  <2> QED
    BY <2>1, <2>2, <2>3
<1>6. ASSUME NEW i \in DOMAIN reports, NEW p \in Mapped(reports[i]), p[1] = c
      PROVE  \E o \in O : o[1] = i /\ o[2][1] = p
  <2>1. PICK row \in RankMapping(reports[i]) : row[1] = p
    BY RowsAre
  <2>2. <<i, row>> \in O /\ <<i, row>>[1] = i /\ <<i, row>>[2] = row
    BY <1>4, <1>6, <2>1
  <2> QED
    BY <2>1, <2>2
<1> QED
  BY <1>5, <1>6 DEF O

LEMMA ObservationsCounted ==
    ASSUME NEW reports, AllScored(reports), IsFiniteSet(DOMAIN reports), NEW c
    PROVE  /\ IsFiniteSet(Observations(c, Mappings(reports)))
           /\ Cardinality(Observations(c, Mappings(reports))) =
                 Cardinality(Given(reports, c))
           /\ Cardinality(Given(reports, c)) \in Nat
<1> DEFINE O == Observations(c, Mappings(reports))
           G == Given(reports, c)
           f == [o \in O |-> o[1]]
<1>1. IsFiniteSet(G) /\ Cardinality(G) \in Nat
  <2>1. G \in SUBSET DOMAIN reports
    BY DEF Given
  <2> HIDE DEF G
  <2> QED
    BY <2>1, FS_Subset, FS_CardinalityType
<1>2. ASSUME NEW o \in O, NEW u \in O, o[1] = u[1] PROVE o = u
  <2>1. /\ o = <<o[1], o[2]>> /\ o[1] \in DOMAIN reports
        /\ o[2] = <<o[2][1], o[2][2]>>
        /\ o[2][1] \in Mapped(reports[o[1]]) /\ o[2][1][1] = c
        /\ o[2][2] = Confidence(reports[o[1]][o[2][1]])
    BY ObservationsAre DEF Given
  <2>2. /\ u = <<u[1], u[2]>>
        /\ u[2] = <<u[2][1], u[2][2]>>
        /\ u[2][1] \in Mapped(reports[u[1]]) /\ u[2][1][1] = c
        /\ u[2][2] = Confidence(reports[u[1]][u[2][1]])
    BY ObservationsAre
  <2>3. o[2][1] = u[2][1]
    <3>1. Scored(reports[o[1]])
      BY <2>1 DEF AllScored
    <3> QED
      BY <1>2, <2>1, <2>2, <3>1, MappedIs
  <2>4. o[2][2] = u[2][2]
    BY <1>2, <2>1, <2>2, <2>3, Zenon
  <2>5. o[2] = u[2]
    BY <2>1, <2>2, <2>3, <2>4, Zenon
  <2> QED
    BY <1>2, <2>1, <2>2, <2>5, Zenon
<1>3. \A i \in G : \E o \in O : o[1] = i
  <2> SUFFICES ASSUME NEW i \in G PROVE \E o \in O : o[1] = i
    OBVIOUS
  <2>1. i \in DOMAIN reports /\ \E p \in Mapped(reports[i]) : p[1] = c
    BY GivenIs
  <2> QED
    BY <2>1, ObservationsAre
<1>4. \A o \in O : o[1] \in G
  BY ObservationsAre
<1> HIDE DEF O, G
<1>5. f \in Injection(O, G) /\ f \in Surjection(O, G)
  BY <1>2, <1>3, <1>4 DEF Injection, IsInjective, Surjection
<1> HIDE DEF f
<1> QED
  BY <1>1, <1>5, FS_Injection DEF O, G

(* The slots a cell is given by the reports.                               *)
LEMMA CandidateIs ==
    ASSUME NEW reports, AllScored(reports), IsFiniteSet(DOMAIN reports), NEW c,
           Status(c, Mappings(reports)) = "repeatableCrossSessionCandidate"
    PROVE  /\ Cardinality(Given(reports, c)) >= 3
           /\ \E s \in Slots : \A i \in Given(reports, c) :
                 /\ <<c, s>> \in Mapped(reports[i])
                 /\ Confidence(reports[i][<<c, s>>]) = "strongCandidate"
<1> DEFINE O == Observations(c, Mappings(reports))
           S == {o[2][1][2] : o \in O}
<1>1. /\ ~(Cardinality(S) > 1) /\ Cardinality(O) >= 3
      /\ \A o \in O : o[2][2] = "strongCandidate"
  BY Zenon DEF Status
<1>2. IsFiniteSet(O) /\ Cardinality(O) = Cardinality(Given(reports, c)) /\ Cardinality(O) \in Nat
  BY ObservationsCounted
<1>3. \A o \in O : /\ o[1] \in Given(reports, c) /\ o[2][1] \in Mapped(reports[o[1]])
                   /\ o[2][1][1] = c
                   /\ o[2][2] = Confidence(reports[o[1]][o[2][1]])
  BY ObservationsAre
<1>4. O # {}
  <2> HIDE DEF O
  <2> QED
    BY <1>1, <1>2, FS_EmptySet
<1>5. PICK u \in O : TRUE
  BY <1>4
<1> DEFINE s == u[2][1][2]
<1>6. \A o \in O : o[2][1][2] = s
  <2> SUFFICES ASSUME NEW o \in O PROVE o[2][1][2] # s => FALSE
    OBVIOUS
  <2> HAVE o[2][1][2] # s
  <2>1. {s, o[2][1][2]} \in SUBSET S
    BY <1>5
  <2>2. IsFiniteSet(S)
    <3> DEFINE g == [x \in O |-> x[2][1][2]]
    <3> HIDE DEF O
    <3>1. g \in Surjection(O, S)
      BY DEF Surjection
    <3> HIDE DEF g, S
    <3> QED
      BY <1>2, <3>1, FS_Surjection
  <2>3. Cardinality({s, o[2][1][2]}) = 2 
    <3>1. IsFiniteSet({s}) /\ Cardinality({s}) = 1
      BY FS_Singleton
    <3>2. {s, o[2][1][2]} = {s} \cup {o[2][1][2]}
      OBVIOUS
    <3>3. o[2][1][2] \notin {s}
      OBVIOUS
    <3> DEFINE x == o[2][1][2]
    <3> HIDE DEF s, x
    <3>4. Cardinality({s} \cup {x}) = IF x \in {s} THEN Cardinality({s}) ELSE Cardinality({s}) + 1
      BY <3>1, FS_AddElement, Zenon
    <3>5. Cardinality({s} \cup {x}) = 2
      BY <3>1, <3>3, <3>4 DEF x
    <3> QED
      BY <3>2, <3>5, Zenon DEF x
  <2>4. Cardinality(S) \in Nat /\ 2 <= Cardinality(S)
    <3> HIDE DEF S, s
    <3> QED
      BY <2>1, <2>2, <2>3, FS_Subset, FS_CardinalityType
  <2> HIDE DEF S
  <2> QED
    BY <1>1, <2>4
<1>7. \A o \in O : o[2][1] = <<c, s>> /\ <<c, s>> \in Cells \X Slots
  <2> SUFFICES ASSUME NEW o \in O PROVE o[2][1] = <<c, s>> /\ <<c, s>> \in Cells \X Slots
    OBVIOUS
  <2>1. o[1] \in DOMAIN reports /\ o[2][1] \in Mapped(reports[o[1]]) /\ o[2][1][1] = c
    BY <1>3 DEF Given
  <2>2. Scored(reports[o[1]]) /\ DOMAIN reports[o[1]] \subseteq Cells \X Slots
    BY <2>1 DEF AllScored
  <2>3. o[2][1] \in Cells \X Slots
    BY <2>1, <2>2, MappedIs
  <2>4. o[2][1][2] = s
    BY <1>6
  <2> QED
    BY <2>1, <2>3, <2>4
<1>8. s \in Slots
  BY <1>5, <1>7
<1>9. ASSUME NEW i \in Given(reports, c)
      PROVE  /\ <<c, s>> \in Mapped(reports[i])
             /\ Confidence(reports[i][<<c, s>>]) = "strongCandidate"
  <2>1. i \in DOMAIN reports /\ \E p \in Mapped(reports[i]) : p[1] = c
    BY GivenIs
  <2>2. PICK o \in O : o[1] = i
    BY <2>1, ObservationsAre
  <2> QED
    BY <1>1, <1>3, <1>7, <2>2, Zenon
<1> HIDE DEF s
<1> QED
  BY <1>1, <1>2, <1>8, <1>9

(* A cell that is given one slot by three reports, always a strong         *)
(* candidate, is a repeatable one.                                         *)
LEMMA BecomesCandidate ==
    ASSUME NEW reports, AllScored(reports), IsFiniteSet(DOMAIN reports), NEW c, NEW s,
           Cardinality(Given(reports, c)) >= 3,
           \A i \in Given(reports, c) : \A p \in Mapped(reports[i]) :
              p[1] = c => /\ p[2] = s
                          /\ Confidence(reports[i][p]) = "strongCandidate"
    PROVE  Status(c, Mappings(reports)) = "repeatableCrossSessionCandidate"
<1> DEFINE O == Observations(c, Mappings(reports))
           S == {o[2][1][2] : o \in O}
<1>1. Cardinality(O) >= 3
  BY ObservationsCounted
<1>2. \A o \in O : /\ o[1] \in Given(reports, c) /\ o[2][1] \in Mapped(reports[o[1]])
                   /\ o[2][1][1] = c
                   /\ o[2][2] = Confidence(reports[o[1]][o[2][1]])
  BY ObservationsAre
<1>3. \A o \in O : o[2][1][2] = s /\ o[2][2] = "strongCandidate"
  BY <1>2
<1>4. ~(Cardinality(S) > 1)
  <2>1. S \in SUBSET {s}
    BY <1>3
  <2>2. IsFiniteSet({s}) /\ Cardinality({s}) = 1
    BY FS_Singleton
  <2>3. Cardinality(S) <= 1 /\ Cardinality(S) \in Nat
    <3> HIDE DEF S
    <3> QED
      BY <2>1, <2>2, FS_Subset, FS_CardinalityType
  <2> HIDE DEF S
  <2> QED
    BY <2>3
<1> QED
  BY <1>1, <1>3, <1>4, Zenon DEF Status

(* A slot that scored better for the cell had gone to a cell with as good   *)
(* a claim.                                                                *)
LEMMA BetterWasTaken ==
    ASSUME NEW scores, Scored(scores), DOMAIN scores \subseteq Cells \X Slots,
           NEW c, NEW s, NEW t, <<c, s>> \in Mapped(scores), <<c, t>> \in DOMAIN scores,
           scores[<<c, t>>].points > scores[<<c, s>>].points
    PROVE  \E d \in Cells : /\ <<d, t>> \in Mapped(scores)
                            /\ ~(scores[<<c, t>>].points > scores[<<d, t>>].points)
<1>1. <<c, s>> \in DOMAIN scores
  BY MappedIs
<1>2. scores[<<c, t>>].points \in Int /\ scores[<<c, s>>].points \in Int
  BY <1>1 DEF Scored
<1>3. <<c, t>> \notin Mapped(scores)
  <2> SUFFICES ASSUME <<c, t>> \in Mapped(scores) PROVE FALSE
    OBVIOUS
  <2>1. <<c, t>>[1] = <<c, s>>[1]
    OBVIOUS
  <2>2. <<c, t>> = <<c, s>>
    BY <2>1, MappedIs, Zenon
  <2> QED
    BY <1>2, <2>2
<1>4. PICK q \in Mapped(scores) : /\ q[1] = <<c, t>>[1] \/ q[2] = <<c, t>>[2]
                                  /\ scores[q].points >= scores[<<c, t>>].points
  BY <1>3, MappedIs, Zenon
<1>5. q \in DOMAIN scores /\ q \in Cells \X Slots /\ scores[q].points \in Int
  BY <1>4, MappedIs DEF Scored
<1>6. q[1] # c
  <2> SUFFICES ASSUME q[1] = c PROVE FALSE
    OBVIOUS
  <2>1. q[1] = <<c, s>>[1]
    OBVIOUS
  <2>2. q = <<c, s>>
    BY <1>4, <2>1, MappedIs, Zenon
  <2> QED
    BY <1>2, <1>4, <2>2
<1>7. q = <<q[1], t>> /\ q[1] \in Cells
  BY <1>4, <1>5, <1>6
<1>8. ~(scores[<<c, t>>].points > scores[q].points)
  BY <1>2, <1>4, <1>5
<1> QED
  BY <1>4, <1>7, <1>8, Zenon

(* A pair that beats all others of its cell and its slot is assigned.      *)
LEMMA BestIsAssigned ==
    ASSUME NEW scores, Scored(scores), NEW p \in DOMAIN scores,
           \A q \in DOMAIN scores :
              q # p /\ (q[1] = p[1] \/ q[2] = p[2]) => scores[p].points > scores[q].points
    PROVE  p \in Mapped(scores)
<1> SUFFICES ASSUME p \notin Mapped(scores) PROVE FALSE
  OBVIOUS
<1>1. PICK q \in Mapped(scores) : /\ q[1] = p[1] \/ q[2] = p[2]
                                  /\ scores[q].points >= scores[p].points
  BY MappedIs
<1>2. q \in DOMAIN scores /\ q # p
  BY <1>1, MappedIs
<1>3. scores[q].points \in Int /\ scores[p].points \in Int
  BY <1>2 DEF Scored
<1> QED
  BY <1>1, <1>2, <1>3

(* The repeatable candidates are neither too many nor too few, however many *)
(* sessions are aggregated and whatever their scores.                      *)
THEOREM CandidatesAreBest ==
    ASSUME NEW reports, AllScored(reports), IsFiniteSet(DOMAIN reports)
    PROVE  RepeatableIsBest(reports)
<1> DEFINE D == DOMAIN reports
           M == Mappings(reports)
           Known(c) == {i \in D : \E p \in DOMAIN reports[i] : p[1] = c}
           G(c) == {i \in D : \E row \in M[i] : row[1][1] = c}
           Beats(i, p, q) == reports[i][p].points > reports[i][q].points
           Others(i, p) == {q \in DOMAIN reports[i] :
                               q # p /\ (q[1] = p[1] \/ q[2] = p[2])}
           Strong(i, p) == /\ p \in DOMAIN reports[i]
                           /\ Confidence(reports[i][p]) = "strongCandidate"
           Repeatable(c) == Status(c, M) = "repeatableCrossSessionCandidate"
           Better(i, c, s, t) ==
              \E d \in Cells : /\ \E row \in M[i] : row[1] = <<d, t>>
                               /\ ~Beats(i, <<c, t>>, <<d, t>>)
           Justified(c, s) ==
              \A i \in G(c) :
                 /\ Strong(i, <<c, s>>)
                 /\ \A t \in Slots :
                       (<<c, t>> \in DOMAIN reports[i]
                          /\ Beats(i, <<c, t>>, <<c, s>>)) => Better(i, c, s, t)
           Undisputed(c, s) ==
              \A i \in Known(c) :
                 /\ Strong(i, <<c, s>>)
                 /\ \A q \in Others(i, <<c, s>>) : Beats(i, <<c, s>>, q)
<1>1. \A i \in D : M[i] = RankMapping(reports[i])
  BY DEF Mappings
<1>2. \A c : G(c) = Given(reports, c)
  BY <1>1 DEF Given
<1>3. \A i \in D : Scored(reports[i]) /\ DOMAIN reports[i] \subseteq Cells \X Slots
  BY DEF AllScored
<1>4. ASSUME NEW c \in Cells, Repeatable(c)
      PROVE  Cardinality(G(c)) >= 3 /\ \E s \in Slots : Justified(c, s)
  <2>1. Cardinality(Given(reports, c)) >= 3
    BY <1>4, CandidateIs
  <2>2. PICK s \in Slots : \A i \in Given(reports, c) :
           /\ <<c, s>> \in Mapped(reports[i])
           /\ Confidence(reports[i][<<c, s>>]) = "strongCandidate"
    BY <1>4, CandidateIs
  <2>3. ASSUME NEW i \in G(c)
        PROVE  /\ Strong(i, <<c, s>>)
               /\ \A t \in Slots :
                     (<<c, t>> \in DOMAIN reports[i]
                        /\ Beats(i, <<c, t>>, <<c, s>>)) => Better(i, c, s, t)
    <3>1. i \in D /\ <<c, s>> \in Mapped(reports[i])
          /\ Confidence(reports[i][<<c, s>>]) = "strongCandidate"
      BY <1>2, <2>2
    <3>2. Scored(reports[i]) /\ DOMAIN reports[i] \subseteq Cells \X Slots
      BY <1>3, <3>1
    <3>3. Strong(i, <<c, s>>)
      BY <3>1, <3>2, MappedIs
    <3>4. ASSUME NEW t \in Slots, <<c, t>> \in DOMAIN reports[i],
                 Beats(i, <<c, t>>, <<c, s>>)
          PROVE  Better(i, c, s, t)
      <4>1. PICK d \in Cells :
               /\ <<d, t>> \in Mapped(reports[i])
               /\ ~(reports[i][<<c, t>>].points > reports[i][<<d, t>>].points)
        BY <3>1, <3>2, <3>4, BetterWasTaken
      <4>2. \E row \in RankMapping(reports[i]) : row[1] = <<d, t>>
        BY <4>1, RowsAre
      <4>3. \E row \in M[i] : row[1] = <<d, t>>
        BY <1>1, <3>1, <4>2, Zenon
      <4> QED
        BY <4>1, <4>3, Zenon
    <3> QED
      BY <3>3, <3>4
  <2>4. Justified(c, s)
    BY <2>3
  <2> HIDE DEF Justified, G
  <2> QED
    BY <1>2, <2>1, <2>4
<1>5. ASSUME NEW c \in Cells, Cardinality(Known(c)) >= 3, NEW s \in Slots, Undisputed(c, s)
      PROVE  Repeatable(c)
  <2>1. ASSUME NEW i \in Known(c)
        PROVE  /\ i \in D /\ <<c, s>> \in Mapped(reports[i])
               /\ Confidence(reports[i][<<c, s>>]) = "strongCandidate"
    <3>1. i \in D /\ Strong(i, <<c, s>>)
          /\ \A q \in Others(i, <<c, s>>) : Beats(i, <<c, s>>, q)
      BY <1>5
    <3>2. \A q \in DOMAIN reports[i] :
             q # <<c, s>> /\ (q[1] = <<c, s>>[1] \/ q[2] = <<c, s>>[2]) =>
                reports[i][<<c, s>>].points > reports[i][q].points
      BY <3>1
    <3>3. <<c, s>> \in Mapped(reports[i])
      BY <1>3, <3>1, <3>2, BestIsAssigned
    <3> QED
      BY <3>1, <3>3
  <2>2. Given(reports, c) = Known(c)
    <3>1. ASSUME NEW i \in Given(reports, c) PROVE i \in Known(c)
      <4>1. i \in D /\ \E p \in Mapped(reports[i]) : p[1] = c
        BY GivenIs
      <4> QED
        BY <1>3, <4>1, MappedIs
    <3>2. ASSUME NEW i \in Known(c) PROVE i \in Given(reports, c)
      <4>1. i \in D /\ <<c, s>> \in Mapped(reports[i]) /\ <<c, s>>[1] = c
        BY <2>1
      <4> HIDE DEF D
      <4>2. \E p \in Mapped(reports[i]) : p[1] = c
        BY <4>1, Zenon
      <4> QED
        BY <4>1, <4>2, GivenIs DEF D
    <3> QED
      BY <3>1, <3>2
  <2>3. \A i \in Given(reports, c) : \A p \in Mapped(reports[i]) :
           p[1] = c => /\ p[2] = s
                       /\ Confidence(reports[i][p]) = "strongCandidate"
    <3> SUFFICES ASSUME NEW i \in Given(reports, c), NEW p \in Mapped(reports[i]), p[1] = c
                 PROVE  p[2] = s /\ Confidence(reports[i][p]) = "strongCandidate"
      OBVIOUS
    <3>1. /\ i \in D /\ <<c, s>> \in Mapped(reports[i])
          /\ Confidence(reports[i][<<c, s>>]) = "strongCandidate"
      BY <2>1, <2>2
    <3>2. p[1] = <<c, s>>[1]
      OBVIOUS
    <3>3. p = <<c, s>>
      BY <1>3, <3>1, <3>2, MappedIs
    <3> QED
      BY <3>1, <3>3
  <2> HIDE DEF Known, M
  <2>4. Cardinality(Given(reports, c)) >= 3
    BY <1>5, <2>2
  <2> QED
    BY <2>3, <2>4, BecomesCandidate DEF M
<1> QED
  BY <1>4, <1>5, Zenon DEF RepeatableIsBest, Mappings

-----------------------------------------------------------------------------
(* The inputs of the mapping, as they grow.                                *)
SeriesInv ==
    /\ series = [cell |-> series.cell, slot |-> series.slot]
    /\ series.cell \in Seq(Int) /\ Sorted(series.cell)
    /\ series.slot \in Seq(Int) /\ Sorted(series.slot)

MappingInv == SeriesInv /\ sessions \in Seq(AllSessions)

LEMMA StillSorted ==
    ASSUME NEW s \in Seq(Int), Sorted(s), NEW t \in Int, s # <<>> => t >= Last(s)
    PROVE  Append(s, t) \in Seq(Int) /\ Sorted(Append(s, t))
<1> DEFINE u == Append(s, t)
           n == Len(s)
<1>1. n \in Nat /\ \A k \in 1 .. n : s[k] \in Int
  BY LenProperties, ElementOfSeq
<1>2. /\ u \in Seq(Int) /\ Len(u) = n + 1 /\ u[n + 1] = t
      /\ \A k \in 1 .. n : u[k] = s[k]
  BY AppendProperties
<1>3. \A k \in 1 .. n : s[k] <= t
  <2> SUFFICES ASSUME NEW k \in 1 .. n PROVE s[k] <= t
    OBVIOUS
  <2>1. n \in 1 .. n /\ k <= n /\ s # <<>>
    BY <1>1, EmptySeq
  <2>2. s[k] <= s[n] /\ s[n] = Last(s)
    BY <2>1 DEF Sorted, Last
  <2>3. t >= s[n]
    BY <2>1, <2>2
  <2> QED
    BY <1>1, <2>1, <2>2, <2>3
<1> HIDE DEF n, u
<1>4. ASSUME NEW k \in 1 .. n + 1, NEW l \in 1 .. n + 1, k <= l PROVE u[k] <= u[l]
  <2>1. CASE l \in 1 .. n
    <3>1. k \in 1 .. n
      BY <1>1, <1>4, <2>1
    <3> QED
      BY <1>2, <1>4, <2>1, <3>1 DEF Sorted, n
  <2>2. CASE l = n + 1
    <3>1. k \in 1 .. n \/ k = n + 1
      BY <1>1
    <3> QED
      BY <1>2, <1>3, <2>2, <3>1
  <2> QED
    BY <1>1, <2>1, <2>2
<1>5. Sorted(u)
  BY <1>2, <1>4 DEF Sorted
<1> QED
  BY <1>2, <1>5 DEF u

LEMMA SessionsScored ==
    ASSUME NEW scores \in AllSessions
    PROVE  Scored(scores) /\ DOMAIN scores \subseteq Cells \X Slots
<1>1. DOMAIN scores \subseteq Cells \X Slots /\ \A p \in DOMAIN scores : scores[p] \in Scores
  <2> DEFINE F == [Cells \X Slots -> Scores]
             C == UNION {[{c} \X Slots -> Scores] : c \in Cells}
             T == UNION {[Cells \X {s} -> Scores] : s \in Slots}
  <2>4. AllSessions = F \cup C \cup T
    BY DEF AllSessions
  <2>1. CASE scores \in F
    BY <2>1
  <2>2. CASE scores \in C
    <3>1. PICK c \in Cells : scores \in [{c} \X Slots -> Scores]
      BY <2>2
    <3>2. {c} \X Slots \subseteq Cells \X Slots
      OBVIOUS
    <3> QED
      BY <3>1, <3>2
  <2>3. CASE scores \in T
    <3>1. PICK t \in Slots : scores \in [Cells \X {t} -> Scores]
      BY <2>3
    <3>2. Cells \X {t} \subseteq Cells \X Slots
      OBVIOUS
    <3> QED
      BY <3>1, <3>2
  <2> QED
    <3> HIDE DEF F, C, T
    <3> QED
      BY <2>1, <2>2, <2>3, <2>4
<1>2. IsFiniteSet(Cells \X Slots)
  BY MappingAssumption, FS_Product
<1>3. IsFiniteSet(DOMAIN scores)
  BY <1>1, <1>2, FS_Subset
<1>4. \A x \in Scores : x.points \in Int
  BY DEF Scores
<1>5. \A p \in Cells \X Slots : p[1] \in Int /\ p[2] \in Int /\ p = <<p[1], p[2]>>
  <2>1. \A p \in Cells \X Slots : p[1] \in Cells /\ p[2] \in Slots /\ p = <<p[1], p[2]>>
    OBVIOUS
  <2> QED
    BY <2>1, MappingAssumption
<1> QED
  BY <1>1, <1>3, <1>4, <1>5 DEF Scored

LEMMA InitMapping == ASSUME Init PROVE MappingInv
<1>1. <<>> \in Seq(Int) /\ Sorted(<<>>)
  BY DEF Sorted
<1> QED
  BY <1>1 DEF Init, MappingInv, SeriesInv

LEMMA MappingStep ==
    ASSUME MappingInv, [Next]_<<rows, lines, analysed, writerVars, conversation>>
    PROVE  MappingInv'
<1>1. CASE AddReading
  <2>1. PICK x \in {"cell", "slot"}, t \in 0 .. MaxInstant :
           /\ series[x] # <<>> => t >= Last(series[x])
           /\ series' = [series EXCEPT ![x] = Append(@, t)]
    BY <1>1 DEF AddReading
  <2>2. series[x] \in Seq(Int) /\ Sorted(series[x]) /\ t \in Int
    BY <2>1 DEF MappingInv, SeriesInv
  <2>3. Append(series[x], t) \in Seq(Int) /\ Sorted(Append(series[x], t))
    BY <2>1, <2>2, StillSorted
  <2>4. sessions' = sessions
    BY <1>1 DEF AddReading
  <2> QED
    BY <2>1, <2>3, <2>4 DEF MappingInv, SeriesInv
<1>2. CASE AddSession
  <2>1. PICK s \in AllSessions : sessions' = Append(sessions, s)
    BY <1>2 DEF AddSession
  <2>2. series' = series
    BY <1>2 DEF AddSession
  <2>3. sessions' \in Seq(AllSessions)
    BY <2>1, AppendProperties DEF MappingInv
  <2>4. SeriesInv'
    BY <2>2 DEF MappingInv, SeriesInv
  <2>5. AllSessions' = AllSessions
    BY DEF AllSessions, Scores
  <2> QED
    BY <2>3, <2>4, <2>5 DEF MappingInv
<1>3. CASE AddRow \/ AddLine \/ WriterStep \/ AddFrame
           \/ UNCHANGED <<rows, lines, analysed, writerVars, conversation>>
  <2>1. series' = series /\ sessions' = sessions
    BY <1>3 DEF AddRow, AddLine, WriterStep, AddFrame, analysed
  <2> QED
    BY <2>1 DEF MappingInv, SeriesInv
<1> QED
  BY <1>1, <1>2, <1>3 DEF Next

LEMMA MappingFollows == ASSUME MappingInv PROVE MappingEvidence
<1>1. NearestPairsExact(series.cell, series.slot)
  BY PairsAreNearest DEF MappingInv, SeriesInv
<1>2. /\ DOMAIN sessions = 1 .. Len(sessions) /\ Len(sessions) \in Nat
      /\ \A i \in 1 .. Len(sessions) : sessions[i] \in AllSessions
  BY LenProperties, ElementOfSeq DEF MappingInv
<1>3. sessions # <<>> => AssignmentStable(Last(sessions))
  <2> SUFFICES ASSUME sessions # <<>> PROVE AssignmentStable(Last(sessions))
    OBVIOUS
  <2>1. Last(sessions) \in AllSessions
    <3>1. Len(sessions) \in 1 .. Len(sessions)
      BY <1>2, EmptySeq DEF MappingInv
    <3> QED
      BY <1>2, <3>1 DEF Last
  <2> QED
    BY <2>1, SessionsScored, AssignmentIsStable
<1>4. RepeatableIsBest(sessions)
  <2>1. IsFiniteSet(DOMAIN sessions)
    BY <1>2, FS_Interval
  <2>2. AllScored(sessions)
    BY <1>2, SessionsScored DEF AllScored
  <2> QED
    BY <2>1, <2>2, CandidatesAreBest
<1> QED
  BY <1>1, <1>3, <1>4 DEF MappingEvidence

(* The pairs, the assignment and the candidates say what the readings and   *)
(* the scores say, however long the series and many the sessions.          *)
THEOREM MappingsAreEvidence == Spec => []MappingEvidence
<1>1. Init => MappingInv
  BY InitMapping
<1>2. MappingInv /\ [Next]_<<rows, lines, analysed, writerVars, conversation>> => MappingInv'
  BY MappingStep
<1>3. MappingInv => MappingEvidence
  BY MappingFollows
<1> QED
  BY <1>1, <1>2, <1>3, PTL DEF Spec

-----------------------------------------------------------------------------
(* The identifiers of a DBC file.                                          *)
(* An identifier that the importer accepts is exported as one that it      *)
(* reads as the same, standard or extended, whatever their widths.         *)
THEOREM IdentifierIsKept ==
    ASSUME NEW raw \in Nat, ~IsError(DecodeId(raw))
    PROVE  DecodeId(EncodeId(DecodeId(raw))) = DecodeId(raw)
<1>1. /\ MaxStandard \in Nat /\ MaxExtended \in Nat /\ Flag \in Nat
      /\ MaxStandard < MaxExtended /\ MaxExtended < Flag
  BY WidthAssumption
<1>2. ASSUME NEW id \in Nat, id <= MaxExtended
      PROVE  DecodeId(id + Flag) = [id |-> id, extended |-> TRUE]
  <2>1. /\ ~(id + Flag >= 2 * Flag) /\ id + Flag >= Flag /\ (id + Flag) - Flag = id
    BY <1>1, <1>2
  <2>2. id % (MaxExtended + 1) = id
    BY <1>1, <1>2
  <2> QED
    BY <2>1, <2>2 DEF DecodeId
<1>3. CASE raw >= 2 * Flag
  BY <1>3 DEF DecodeId, IsError, Error
<1>4. CASE ~(raw >= 2 * Flag) /\ raw >= Flag
  <2> DEFINE id == (raw - Flag) % (MaxExtended + 1)
  <2>1. id \in Nat /\ id <= MaxExtended
    BY <1>1, <1>4
  <2>2. DecodeId(raw) = [id |-> id, extended |-> TRUE]
    BY <1>4 DEF DecodeId
  <2> HIDE DEF id
  <2>3. EncodeId(DecodeId(raw)) = id + Flag
    BY <2>2 DEF EncodeId
  <2> QED
    BY <1>2, <2>1, <2>2, <2>3
<1>5. CASE ~(raw >= 2 * Flag) /\ ~(raw >= Flag) /\ raw <= MaxStandard
  <2>1. DecodeId(raw) = [id |-> raw, extended |-> FALSE]
    BY <1>5 DEF DecodeId
  <2>2. EncodeId(DecodeId(raw)) = raw
    BY <2>1 DEF EncodeId
  <2> QED
    BY <2>2
<1>6. CASE /\ ~(raw >= 2 * Flag) /\ ~(raw >= Flag) /\ ~(raw <= MaxStandard)
           /\ raw > MaxExtended
  BY <1>6 DEF DecodeId, IsError, Error
<1>7. CASE /\ ~(raw >= 2 * Flag) /\ ~(raw >= Flag) /\ ~(raw <= MaxStandard)
           /\ ~(raw > MaxExtended)
  <2>1. DecodeId(raw) = [id |-> raw, extended |-> TRUE] /\ raw <= MaxExtended
    BY <1>1, <1>7 DEF DecodeId
  <2>2. EncodeId(DecodeId(raw)) = raw + Flag
    BY <2>1 DEF EncodeId
  <2> QED
    BY <1>2, <2>1, <2>2
<1> QED
  BY <1>3, <1>4, <1>5, <1>6, <1>7

-----------------------------------------------------------------------------
(* Reassembly, frame by frame.                                             *)
Base == [active |-> [id \in Ids |-> Idle], messages |-> <<>>]

LEMMA ReassemblyIs ==
    ASSUME NEW checked, NEW frames, Len(frames) \in Nat
    PROVE  /\ Reassembly(checked, frames)[0] = Base
           /\ \A n \in 1 .. Len(frames) :
                 Reassembly(checked, frames)[n]
                    = AcceptFrame(checked, Reassembly(checked, frames)[n - 1], frames[n])
<1> DEFINE N == Len(frames)
           step(g, n) == IF n = 0 THEN Base ELSE AcceptFrame(checked, g[n - 1], frames[n])
           Built == {m \in 0 .. N : \E g : g = [n \in 0 .. m |-> step(g, n)]}
<1>1. 0 \in Built
  <2> DEFINE g == [n \in 0 .. 0 |-> Base]
  <2>1. g = [n \in 0 .. 0 |-> step(g, n)]
    OBVIOUS
  <2>2. 0 \in 0 .. N
    OBVIOUS
  <2> HIDE DEF g, step, N
  <2> QED
    BY <2>1, <2>2
<1>2. ASSUME NEW m \in 0 .. N - 1, m \in Built PROVE m + 1 \in Built
  <2>1. PICK g : g = [n \in 0 .. m |-> step(g, n)]
    BY <1>2
  <2> DEFINE h == [n \in 0 .. m + 1 |->
                      IF n = m + 1 THEN AcceptFrame(checked, g[m], frames[m + 1]) ELSE g[n]]
  <2>2. ASSUME NEW n \in 0 .. m + 1 PROVE h[n] = step(h, n)
    <3>1. CASE n = 0
      <4>1. h[0] = g[0] /\ 0 \in 0 .. m
        OBVIOUS
      <4>2. g[0] = step(g, 0)
        <5> HIDE DEF step
        <5> QED
          BY <2>1, <4>1
      <4>3. step(g, 0) = Base /\ step(h, 0) = Base
        BY Zenon
      <4> QED
        BY <3>1, <4>1, <4>2, <4>3, Zenon
    <3>2. CASE n \in 1 .. m
      <4>1. n \in 0 .. m /\ n # 0 /\ n # m + 1 /\ n - 1 \in 0 .. m + 1 /\ n - 1 # m + 1
        BY <3>2
      <4>2. g[n] = step(g, n)
        <5> HIDE DEF step
        <5> QED
          BY <2>1, <4>1
      <4>3. h[n] = g[n] /\ h[n - 1] = g[n - 1]
        BY <4>1
      <4> QED
        BY <4>1, <4>2, <4>3, Zenon
    <3>3. CASE n = m + 1
      <4>1. n # 0 /\ n - 1 = m /\ m \in 0 .. m + 1 /\ m # m + 1
        BY <3>3
      <4>2. h[n] = AcceptFrame(checked, g[m], frames[m + 1]) /\ h[m] = g[m]
        BY <3>3, <4>1
      <4> QED
        BY <3>3, <4>1, <4>2, Zenon
    <3> QED
      BY <3>1, <3>2, <3>3
  <2>3. h = [n \in 0 .. m + 1 |-> step(h, n)]
    <3>1. h = [n \in 0 .. m + 1 |-> h[n]]
      OBVIOUS
    <3> HIDE DEF h
    <3> QED
      BY <2>2, <3>1
  <2>4. m + 1 \in 0 .. N
    OBVIOUS
  <2> HIDE DEF h, step
  <2> QED
    BY <2>3, <2>4
<1>3. N \in Built
  <2>1. N \in Nat /\ N \in 0 .. N
    OBVIOUS
  <2> HIDE DEF N, Built
  <2> QED
    BY <1>1, <1>2, <2>1, Counting
<1>4. PICK g : g = [n \in 0 .. N |-> step(g, n)]
  BY <1>3
<1> DEFINE r == Reassembly(checked, frames)
<1>5. r = CHOOSE a : a = [n \in 0 .. N |-> step(a, n)]
  BY DEF Reassembly, Base
<1>6. r = [n \in 0 .. N |-> step(r, n)]
  <2> HIDE DEF step, r, N
  <2> QED
    BY <1>4, <1>5
<1> HIDE DEF r
<1>7. r[0] = Base
  <2>1. 0 \in 0 .. N
    OBVIOUS
  <2>2. r[0] = step(r, 0)
    <3> HIDE DEF step, N
    <3> QED
      BY <1>6, <2>1
  <2> QED
    BY <2>2, Zenon
<1>8. ASSUME NEW n \in 1 .. N PROVE r[n] = AcceptFrame(checked, r[n - 1], frames[n])
  <2>1. n \in 0 .. N /\ n # 0
    OBVIOUS
  <2>2. r[n] = step(r, n)
    <3> HIDE DEF step, N
    <3> QED
      BY <1>6, <2>1
  <2> QED
    BY <2>1, <2>2, Zenon
<1> QED
  BY <1>7, <1>8 DEF r

LEMMA ReassembledMore ==
    ASSUME NEW checked, NEW S, NEW frames \in Seq(S), NEW f \in S
    PROVE  Reassembly(checked, Append(frames, f))[Len(Append(frames, f))]
              = AcceptFrame(checked, Reassembly(checked, frames)[Len(frames)], f)
<1> DEFINE N == Len(frames)
           more == Append(frames, f)
           r == Reassembly(checked, frames)
           q == Reassembly(checked, more)
           T == {n \in 0 .. N : q[n] = r[n]}
<1>1. N \in Nat
  BY LenProperties
<1>2. more \in Seq(S) /\ Len(more) = N + 1 /\ more[N + 1] = f /\ \A n \in 1 .. N : more[n] = frames[n]
  BY AppendProperties
<1>3. r[0] = Base /\ \A n \in 1 .. N : r[n] = AcceptFrame(checked, r[n - 1], frames[n])
  BY <1>1, ReassemblyIs
<1>4. q[0] = Base /\ \A n \in 1 .. N + 1 : q[n] = AcceptFrame(checked, q[n - 1], more[n])
  <2>1. Len(more) \in Nat
    BY <1>1, <1>2
  <2> HIDE DEF more
  <2>2. q[0] = Base /\ \A n \in 1 .. Len(more) : q[n] = AcceptFrame(checked, q[n - 1], more[n])
    BY <2>1, ReassemblyIs
  <2> QED
    BY <1>2, <2>2
<1> HIDE DEF N, more, r, q
<1>5. 0 \in T
  BY <1>1, <1>3, <1>4
<1>6. ASSUME NEW n \in 0 .. N - 1, n \in T PROVE n + 1 \in T
  <2>1. n + 1 \in 1 .. N /\ n + 1 \in 1 .. N + 1 /\ (n + 1) - 1 = n /\ n + 1 \in 0 .. N
    BY <1>1
  <2>2. q[n] = r[n] /\ more[n + 1] = frames[n + 1]
    BY <1>2, <1>6, <2>1
  <2>3. q[n + 1] = AcceptFrame(checked, q[n], more[n + 1])
    BY <1>4, <2>1
  <2>4. r[n + 1] = AcceptFrame(checked, r[n], frames[n + 1])
    BY <1>3, <2>1
  <2> QED
    BY <2>1, <2>2, <2>3, <2>4
<1>7. \A n \in 0 .. N : n \in T
  <2> HIDE DEF T
  <2> QED
    BY <1>1, <1>5, <1>6, Counting
<1>8. q[N] = r[N]
  BY <1>1, <1>7
<1>9. q[N + 1] = AcceptFrame(checked, q[(N + 1) - 1], more[N + 1])
  BY <1>1, <1>4
<1>10. (N + 1) - 1 = N
  BY <1>1
<1> QED
  BY <1>2, <1>8, <1>9, <1>10, Zenon DEF N, more, r, q

(* What the reassemblers keep.                                             *)
Chunk == Nat \X Nat
Buffer == [time : Nat, length : Nat, next : Nat, chunks : Seq(Chunk)]
Told == [time : Nat, id : Ids, chunks : Seq(Chunk)]
Acc == [active : [Ids -> Buffer], messages : Seq(Told)]
Byte == 0 .. 255
Frame == [time : Nat, id : Ids, byte : Byte, second : Byte, chunk : Chunk]

(* What each kind of frame does to it.                                     *)
LEMMA OtherFrame ==
    ASSUME NEW checked, NEW acc, NEW f, PciType(f) \notin 0 .. 2
    PROVE  AcceptFrame(checked, acc, f) = acc
  BY DEF AcceptFrame

LEMMA SingleFrame ==
    ASSUME NEW checked, NEW acc \in Acc, NEW f \in Frame, f.byte \in 1 .. 7
    PROVE  LET new == AcceptFrame(checked, acc, f)
           IN  /\ new \in Acc /\ new.active = acc.active
               /\ new.messages = Append(acc.messages, Message(f.time, f.id, <<f.chunk>>))
<1> DEFINE new == AcceptFrame(checked, acc, f)
<1>1. PciType(f) = 0 /\ Low(f) \in 1 .. 7
  BY DEF PciType, Low, Frame, Byte
<1>2. new = [acc EXCEPT !.messages = Append(@, Message(f.time, f.id, <<f.chunk>>))]
  BY <1>1 DEF AcceptFrame
<1>3. Message(f.time, f.id, <<f.chunk>>) \in Told
  BY DEF Frame, Told, Message
<1>4. Append(acc.messages, Message(f.time, f.id, <<f.chunk>>)) \in Seq(Told)
  BY <1>3, AppendProperties DEF Acc
<1> QED
  BY <1>2, <1>4 DEF Acc

AnnouncedBy(f) == Low(f) * 256 + f.second

LEMMA FirstFrame ==
    ASSUME NEW checked, NEW acc \in Acc, NEW f \in Frame, PciType(f) = 1, AnnouncedBy(f) > 6
    PROVE  LET new == AcceptFrame(checked, acc, f)
           IN  /\ new \in Acc /\ new.messages = acc.messages
               /\ new.active[f.id] = [time |-> f.time, length |-> AnnouncedBy(f), next |-> 1,
                                      chunks |-> <<f.chunk>>]
               /\ \A id \in Ids \ {f.id} : new.active[id] = acc.active[id]
<1> DEFINE new == AcceptFrame(checked, acc, f)
           b == [time |-> f.time, length |-> AnnouncedBy(f), next |-> 1,
                 chunks |-> <<f.chunk>>]
<1>1. AnnouncedBy(f) \in Nat
  <2>1. \A x \in Byte : x % 16 \in Nat /\ x \in Nat
    BY DEF Byte
  <2>2. f.byte \in Byte /\ f.second \in Byte
    BY DEF Frame
  <2>3. f.byte % 16 \in Nat /\ f.second \in Nat
    BY <2>1, <2>2
  <2> QED
    BY <2>3 DEF AnnouncedBy, Low
<1>2. new = StartBuffer(acc, f)
  BY DEF AcceptFrame
<1>3. new = [acc EXCEPT !.active[f.id] = b]
  <2>1. StartBuffer(acc, f) =
           IF AnnouncedBy(f) <= 6 THEN acc
           ELSE [acc EXCEPT !.active[f.id] = [time |-> f.time, length |-> AnnouncedBy(f),
                                              next |-> 1, chunks |-> <<f.chunk>>]]
    BY Zenon DEF StartBuffer, AnnouncedBy
  <2>2. ~(AnnouncedBy(f) <= 6)
    BY <1>1
  <2> QED
    BY <1>2, <2>1, <2>2, Zenon
<1>4. b \in Buffer /\ f.id \in Ids
  <2>1. f.time \in Nat /\ f.chunk \in Chunk /\ f.id \in Ids /\ AnnouncedBy(f) \in Nat
    BY <1>1 DEF Frame
  <2>2. <<f.chunk>> \in Seq(Chunk)
    BY <2>1
  <2> QED
    BY <2>1, <2>2 DEF Buffer
<1> HIDE DEF b
<1>5. [acc.active EXCEPT ![f.id] = b] \in [Ids -> Buffer]
  BY <1>4 DEF Acc
<1>6. new \in Acc /\ new.messages = acc.messages /\ new.active = [acc.active EXCEPT ![f.id] = b]
  BY <1>3, <1>5 DEF Acc
<1>7. new.active[f.id] = b /\ \A id \in Ids \ {f.id} : new.active[id] = acc.active[id]
  BY <1>4, <1>6 DEF Acc
<1> QED
  BY <1>6, <1>7 DEF b

(* A consecutive frame is ignored, ends a message that is given up, or      *)
(* makes it grow, to its end or not.                                       *)
Advances(checked, acc, f, k, new) ==
    LET b == acc.active[f.id]
        chunks == Append(b.chunks, f.chunk)
    IN  /\ new \in Acc
        /\ \A id \in Ids \ {f.id} : new.active[id] = acc.active[id]
        /\ \/ b = Idle /\ new.active[f.id] = Idle /\ new.messages = acc.messages
           \/ /\ b # Idle /\ checked /\ k % 16 # b.next
              /\ new.active[f.id] = Idle /\ new.messages = acc.messages
           \/ /\ b # Idle /\ (checked => k % 16 = b.next)
              /\ 7 * Len(chunks) - 1 >= b.length
              /\ new.active[f.id] = Idle
              /\ new.messages = Append(acc.messages, Message(b.time, f.id, chunks))
           \/ /\ b # Idle /\ (checked => k % 16 = b.next)
              /\ ~(7 * Len(chunks) - 1 >= b.length)
              /\ new.active[f.id] = [time |-> b.time, length |-> b.length,
                                     next |-> (b.next + 1) % 16, chunks |-> chunks]
              /\ new.messages = acc.messages

LEMMA NextFrame ==
    ASSUME NEW checked, NEW acc \in Acc, NEW f \in Frame, NEW k \in Nat,
           f.byte = 32 + (k % 16)
    PROVE  Advances(checked, acc, f, k, AcceptFrame(checked, acc, f))
<1> DEFINE new == AcceptFrame(checked, acc, f)
           b == acc.active[f.id]
           chunks == Append(b.chunks, f.chunk)
           grown == [time |-> b.time, length |-> b.length,
                     next |-> (b.next + 1) % 16, chunks |-> chunks]
           told == Message(b.time, f.id, chunks)
<1>1. PciType(f) = 2 /\ Low(f) = k % 16
  BY DEF PciType, Low
<1>2. f.id \in Ids /\ b \in Buffer /\ f.chunk \in Chunk /\ acc.messages \in Seq(Told)
  BY DEF Acc, Frame
<1>3. chunks \in Seq(Chunk) /\ grown \in Buffer /\ told \in Told
  <2>1. chunks \in Seq(Chunk)
    BY <1>2, AppendProperties DEF Buffer
  <2> HIDE DEF chunks, b
  <2> QED
    BY <1>2, <2>1 DEF Buffer, Told, Message
<1>4. Idle \in Buffer
  BY DEF Idle, Buffer
<1>5. Append(acc.messages, told) \in Seq(Told)
  BY <1>2, <1>3, AppendProperties
<1>6. CASE b = Idle
  <2>1. new = acc
    BY <1>1, <1>6 DEF AcceptFrame
  <2> QED
    BY <1>1, <1>2, <1>6, <2>1 DEF Advances, Acc
<1>7. CASE b # Idle /\ checked /\ k % 16 # b.next
  <2>1. new = [acc EXCEPT !.active[f.id] = Idle]
    BY <1>1, <1>7 DEF AcceptFrame
  <2>2. /\ new.active = [acc.active EXCEPT ![f.id] = Idle] /\ new.messages = acc.messages
        /\ new \in Acc
    <3> HIDE DEF new
    <3> QED
      BY <1>2, <1>4, <2>1 DEF Acc
  <2>3. new.active[f.id] = Idle /\ \A id \in Ids \ {f.id} : new.active[id] = acc.active[id]
    <3> HIDE DEF new
    <3> QED
      BY <1>2, <2>2 DEF Acc
  <2> HIDE DEF new
  <2> QED
    BY <1>7, <2>2, <2>3 DEF new, Advances
<1>8. CASE b # Idle /\ (checked => k % 16 = b.next)
  <2>1. new = GrowBuffer(acc, f)
    BY <1>1, <1>8 DEF AcceptFrame
  <2>2. CASE 7 * Len(chunks) - 1 >= b.length
    <3>1. new = [acc EXCEPT !.active[f.id] = Idle, !.messages = Append(@, told)]
      BY <2>1, <2>2, Zenon DEF GrowBuffer
    <3>2. /\ new.active = [acc.active EXCEPT ![f.id] = Idle]
          /\ new.messages = Append(acc.messages, told)
          /\ new \in Acc
      <4> HIDE DEF new, told
      <4> QED
        BY <1>2, <1>4, <1>5, <3>1 DEF Acc
    <3>3. new.active[f.id] = Idle /\ \A id \in Ids \ {f.id} : new.active[id] = acc.active[id]
      <4> HIDE DEF new
      <4> QED
        BY <1>2, <3>2 DEF Acc
    <3> HIDE DEF new, b, Advances
    <3> QED
      BY <1>8, <2>2, <3>2, <3>3 DEF new, b, Advances
  <2>3. CASE ~(7 * Len(chunks) - 1 >= b.length)
    <3>1. new = [acc EXCEPT !.active[f.id] =
                    [b EXCEPT !.chunks = chunks, !.next = (@ + 1) % 16]]
      BY <2>1, <2>3, Zenon DEF GrowBuffer
    <3>2. [b EXCEPT !.chunks = chunks, !.next = (@ + 1) % 16] = grown
      <4> DEFINE c == [b EXCEPT !.chunks = chunks]
                 d == [c EXCEPT !.next = (@ + 1) % 16]
      <4> HIDE DEF b, chunks
      <4>1. c = [time |-> b.time, length |-> b.length, next |-> b.next, chunks |-> chunks]
        BY <1>2 DEF Buffer
      <4> HIDE DEF c
      <4>2. d = grown
        BY <4>1
      <4> QED
        BY <4>2 DEF c
    <3>3. new = [acc EXCEPT !.active[f.id] = grown]
      BY <3>1, <3>2, Zenon
    <3>4. /\ new.active = [acc.active EXCEPT ![f.id] = grown] /\ new.messages = acc.messages
          /\ new \in Acc
      <4> HIDE DEF new, grown
      <4> QED
        BY <1>2, <1>3, <3>3 DEF Acc
    <3>5. new.active[f.id] = grown /\ \A id \in Ids \ {f.id} : new.active[id] = acc.active[id]
      <4> HIDE DEF new, grown
      <4> QED
        BY <1>2, <3>4 DEF Acc
    <3> HIDE DEF new, b, Advances
    <3> QED
      BY <1>8, <2>3, <3>4, <3>5 DEF new, b, Advances
  <2> QED
    BY <2>2, <2>3
<1> QED
  BY <1>6, <1>7, <1>8

-----------------------------------------------------------------------------
(* The conversation: each side has at most one message under way.          *)
Talkers == {"request", "response"}

Extent == 1 .. 4095

Said == [id : Talkers, sid : Byte, of : Nat, pending : BOOLEAN, did : Nat,
         length : Extent, framed : BOOLEAN, start : Nat, answers : Nat, left : Nat,
         waits : BOOLEAN]

TalkTypes ==
    /\ time \in Nat /\ missing \in Nat
    /\ capture \in Seq(Frame)
    /\ sent \in Seq(Said)

(* Of the messages s.                                                      *)
OneEach(s) ==
    /\ s \in Seq(Said)
    /\ \A n, m \in DOMAIN s :
          s[n].left > 0 /\ s[m].left > 0 /\ s[n].id = s[m].id => n = m
    /\ \A n \in DOMAIN s : s[n].left < FramesOf(s[n])

(* The parts of a message on the bus so far, and the message they make.    *)
Parts(s, n) == FramesOf(s[n]) - s[n].left

Word(s, n) == Message(s[n].start, s[n].id, [k \in 1 .. FramesOf(s[n]) |-> <<n, k>>])

(* A buffer that holds all of them, and one that holds too few to become a  *)
(* message.                                                                *)
Exactly(b, s, n) ==
    b = [time |-> s[n].start, length |-> s[n].length, next |-> Parts(s, n) % 16,
         chunks |-> [k \in 1 .. Parts(s, n) |-> <<n, k>>]]

Short(b, s, n) == b.length = s[n].length /\ Len(b.chunks) < Parts(s, n)

Speaking(s, id) == \E n \in DOMAIN s : s[n].id = id /\ s[n].left > 0

(* What a reassembler keeps, r, holds of them when it missed m frames.     *)
OnlySpoken(r, s) ==
    \A i \in DOMAIN r.messages :
        \E n \in DOMAIN s : s[n].framed /\ s[n].left = 0 /\ r.messages[i] = Word(s, n)

AllSpoken(r, s) ==
    \A n \in DOMAIN s : s[n].framed /\ s[n].left = 0 =>
        \E i \in DOMAIN r.messages : r.messages[i] = Word(s, n)

Underway(r, s) ==
    \A n \in DOMAIN s : s[n].left > 0 =>
        \/ r.active[s[n].id] = Idle
        \/ Exactly(r.active[s[n].id], s, n)
        \/ Short(r.active[s[n].id], s, n)

AllUnderway(r, s) ==
    /\ \A n \in DOMAIN s : s[n].left > 0 => Exactly(r.active[s[n].id], s, n)
    /\ \A id \in Talkers : ~Speaking(s, id) => r.active[id] = Idle

Hears(r, s, m) ==
    /\ r \in Acc
    /\ m <= 1 => OnlySpoken(r, s) /\ Underway(r, s)
    /\ m = 0 => AllSpoken(r, s) /\ AllUnderway(r, s)

Kept(checked) == Reassembly(checked, capture)[Len(capture)]

HearingInv ==
    /\ TalkTypes /\ OneEach(sent)
    /\ \A checked \in BOOLEAN : Hears(Kept(checked), sent, missing)

LEMMA Extents ==
    ASSUME NEW L \in Extent
    PROVE  /\ L \in Nat \ {0} /\ (L > 7 <=> ~(L <= 7)) /\ L % 256 \in Byte
           /\ 16 + (L \div 256) \in Byte
           /\ L > 7 => /\ (16 + (L \div 256)) \div 16 = 1
                       /\ ((16 + (L \div 256)) % 16) * 256 + (L % 256) = L
           /\ L <= 7 => L \in Byte /\ L \in 1 .. 7
<1>1. L \in Int /\ 1 <= L /\ L <= 4095
  BY DEF Extent
<1>2. L % 256 \in 0 .. 255 /\ L \div 256 \in 0 .. 15
  BY <1>1
<1>3. (16 + (L \div 256)) \div 16 = 1 /\ (16 + (L \div 256)) % 16 = L \div 256
  BY <1>2
<1>4. (L \div 256) * 256 + (L % 256) = L
  BY <1>1
<1>5. L % 256 \in Byte /\ 16 + (L \div 256) \in Byte
  BY <1>2 DEF Byte
<1>6. L <= 7 => L \in Byte /\ L \in 1 .. 7
  BY <1>1 DEF Byte
<1>7. L \in Nat \ {0} /\ (L > 7 <=> ~(L <= 7))
  BY <1>1
<1> QED
  BY <1>3, <1>4, <1>5, <1>6, <1>7

LEMMA Lengths ==
    ASSUME NEW p, p.length \in Extent, p.framed \in BOOLEAN
    PROVE  /\ FramesOf(p) \in Nat \ {0}
           /\ ~(FramesOf(p) > 1) <=> (~p.framed \/ p.length <= 7)
           /\ FramesOf(p) > 1 => \A k \in Nat : 7 * k - 1 >= p.length <=> k >= FramesOf(p)
<1>1. PICK L \in Nat : p.length = L
  BY Extents
<1>2. /\ 1 + (L \div 7) \in Nat \ {0}
      /\ ~(L <= 7) => 1 + (L \div 7) > 1
      /\ \A k \in Nat : 7 * k - 1 >= L <=> k >= 1 + (L \div 7)
  OBVIOUS
<1>3. CASE ~p.framed \/ L <= 7
  <2>1. FramesOf(p) = 1
    BY <1>1, <1>3 DEF FramesOf
  <2> QED
    BY <1>1, <1>3, <2>1
<1>4. CASE ~(~p.framed \/ L <= 7)
  <2>1. PICK F \in Nat \ {0} : F = 1 + (L \div 7)
    BY <1>2
  <2>2. FramesOf(p) = F
    BY <1>1, <1>4, <2>1 DEF FramesOf
  <2>3. F > 1 /\ \A k \in Nat : 7 * k - 1 >= L <=> k >= F
    BY <1>2, <1>4, <2>1
  <2> QED
    BY <1>1, <1>4, <2>2, <2>3
<1> QED
  BY <1>3, <1>4

LEMMA SaidIs ==
    ASSUME NEW w \in Said
    PROVE  /\ w.id \in Talkers /\ w.id \in Ids /\ w.length \in Extent /\ w.framed \in BOOLEAN
           /\ w.start \in Nat /\ w.answers \in Nat /\ w.left \in Nat
<1>1. Talkers \subseteq Ids
  BY DEF Talkers, Ids
<1> QED
  BY <1>1 DEF Said

LEMMA FramesAre ==
    ASSUME NEW w \in Said
    PROVE  /\ FramesOf(w) \in Nat \ {0} /\ w.left \in Nat /\ w.length \in Extent
           /\ FramesOf(w) > 1 => w.framed /\ ~(w.length <= 7)
           /\ FramesOf(w) > 1 => \A k \in Nat : 7 * k - 1 >= w.length <=> k >= FramesOf(w)
<1>1. w.length \in Extent /\ w.framed \in BOOLEAN /\ w.left \in Nat
  BY SaidIs
<1> QED
  BY <1>1, Lengths, Zenon

(* A message of which a field changes.                                     *)
LEMMA LeftChanged ==
    ASSUME NEW u \in Said, NEW left \in Nat
    PROVE  LET v == [u EXCEPT !.left = left]
           IN  /\ v \in Said /\ v.id = u.id /\ v.start = u.start /\ v.length = u.length
               /\ v.framed = u.framed /\ v.left = left
  BY DEF Said

LEMMA WaitsChanged ==
    ASSUME NEW u \in Said, NEW waits, waits \in BOOLEAN
    PROVE  LET v == [u EXCEPT !.waits = waits]
           IN  /\ v \in Said /\ v.id = u.id /\ v.start = u.start /\ v.length = u.length
               /\ v.framed = u.framed /\ v.left = u.left
  BY DEF Said

LEMMA BytesFit ==
    ASSUME NEW p \in Payloads
    PROVE  /\ FirstByte(p) \in Byte /\ p.length % 256 \in Byte
           /\ p.length \in Extent /\ p.framed \in BOOLEAN /\ p.id \in Talkers
           /\ p.sid \in Byte /\ p.of \in Nat /\ p.pending \in BOOLEAN /\ p.did \in Nat
           /\ ~p.framed => FirstByte(p) \div 16 \notin 0 .. 2
           /\ p.framed /\ p.length <= 7 => FirstByte(p) \in 1 .. 7
           /\ p.framed /\ ~(p.length <= 7) => FirstByte(p) = 16 + (p.length \div 256)
<1>1. /\ p.length \in Extent /\ p.framed \in BOOLEAN /\ p.id \in Talkers
      /\ p.sid \in Byte /\ p.of \in Nat /\ p.pending \in BOOLEAN /\ p.did \in Nat
  BY BusAssumption DEF Talkers, Extent, Byte
<1>2. ~p.framed => p.sid \div 16 \notin 0 .. 2
  BY BusAssumption
<1>3. /\ p.length % 256 \in Byte /\ 16 + (p.length \div 256) \in Byte
      /\ p.length <= 7 => p.length \in Byte /\ p.length \in 1 .. 7
  BY <1>1, Extents
<1>4. CASE ~p.framed
  <2>1. FirstByte(p) = p.sid
    BY <1>4 DEF FirstByte
  <2> QED
    BY <1>1, <1>2, <1>3, <1>4, <2>1, Zenon
<1>5. CASE p.framed /\ p.length <= 7
  <2>1. FirstByte(p) = p.length
    BY <1>5 DEF FirstByte
  <2> QED
    BY <1>1, <1>3, <1>5, <2>1, Zenon
<1>6. CASE p.framed /\ ~(p.length <= 7)
  <2>1. FirstByte(p) = 16 + (p.length \div 256)
    BY <1>6 DEF FirstByte
  <2> QED
    BY <1>1, <1>3, <1>6, <2>1, Zenon
<1> QED
  BY <1>4, <1>5, <1>6, Zenon

LEMMA SaidMade ==
    ASSUME NEW p \in Payloads, NEW start \in Nat, NEW answers \in Nat, NEW left \in Nat,
           NEW waits, waits \in BOOLEAN
    PROVE  [id |-> p.id, sid |-> p.sid, of |-> p.of, pending |-> p.pending,
            did |-> p.did, length |-> p.length, framed |-> p.framed, start |-> start,
            answers |-> answers, left |-> left, waits |-> waits] \in Said
<1> DEFINE pending == p.pending
           framed == p.framed
<1>1. /\ p.id \in Talkers /\ p.sid \in Byte /\ p.of \in Nat /\ pending \in BOOLEAN
      /\ p.did \in Nat /\ p.length \in Extent /\ framed \in BOOLEAN
  BY BytesFit
<1> HIDE DEF pending, framed
<1>2. [id |-> p.id, sid |-> p.sid, of |-> p.of, pending |-> pending,
       did |-> p.did, length |-> p.length, framed |-> framed, start |-> start,
       answers |-> answers, left |-> left, waits |-> waits] \in Said
  BY <1>1 DEF Said
<1> QED
  BY <1>2 DEF pending, framed

(* A set of positions has a last one.                                      *)
LEMMA LastIs ==
    ASSUME NEW n \in Nat, NEW T, T \subseteq 1 .. n, T # {}
    PROVE  Max(T) \in T /\ \A y \in T : y <= Max(T)
<1> DEFINE U == {k \in 0 .. n : n - k \in T}
<1>1. U \subseteq Nat /\ U # {}
  <2>1. PICK x \in T : x \in 1 .. n
    OBVIOUS
  <2>2. n - (n - x) = x /\ n - x \in 0 .. n
    BY <2>1
  <2>3. n - x \in U
    BY <2>2
  <2>4. U \subseteq Nat
    OBVIOUS
  <2> HIDE DEF U
  <2> QED
    BY <2>3, <2>4
<1>2. PICK k \in U : \A l \in U : k <= l
  <2> HIDE DEF U
  <2> QED
    BY <1>1, Smallest
<1>3. n - k \in T /\ \A y \in T : n - k >= y
  <2>1. n - k \in T /\ k \in 0 .. n
    BY <1>2
  <2>2. ASSUME NEW y \in T PROVE n - k >= y
    <3>1. y \in 1 .. n /\ n - y \in 0 .. n /\ n - (n - y) = y
      OBVIOUS
    <3>2. k <= n - y
      BY <1>2, <3>1
    <3> QED
      BY <2>1, <3>1, <3>2
  <2> QED
    BY <2>1, <2>2
<1>4. \E x \in T : \A y \in T : x >= y
  BY <1>3
<1>5. Max(T) \in T /\ \A y \in T : Max(T) >= y
  BY <1>4, Zenon DEF Max
<1> QED
  BY <1>5

LEMMA InForceIs == ASSUME TalkTypes PROVE InForce \in Nat
<1> DEFINE T == {a \in DOMAIN sent : sent[a].sid = \h6C}
<1>1. DOMAIN sent = 1 .. Len(sent) /\ Len(sent) \in Nat
  BY LenProperties DEF TalkTypes
<1>2. T = {} => InForce = 0
  BY DEF InForce
<1>3. T # {} => InForce = sent[Max(T)].answers
  BY DEF InForce
<1>4. T # {} => Max(T) \in DOMAIN sent
  <2>1. T \subseteq 1 .. Len(sent)
    BY <1>1
  <2> HIDE DEF T
  <2> QED
    BY <1>1, <2>1, LastIs
<1>5. \A n \in DOMAIN sent : sent[n].answers \in Nat
  <2>1. \A n \in DOMAIN sent : sent[n] \in Said
    BY <1>1, ElementOfSeq DEF TalkTypes
  <2> QED
    BY <2>1 DEF Said
<1> HIDE DEF T
<1> QED
  BY <1>2, <1>3, <1>4, <1>5

(* A frame on the bus is in the capture, or is missed.                     *)
LEMMA Emitted ==
    ASSUME TalkTypes, NEW id \in Ids, NEW byte \in Byte, NEW second \in Byte,
           NEW message \in Nat, NEW part \in Nat, Emit(id, byte, second, message, part),
           NEW f, f = [time |-> time + 1, id |-> id, byte |-> byte, second |-> second,
                       chunk |-> <<message, part>>]
    PROVE  /\ f \in Frame /\ time' = time + 1 /\ time' \in Nat
           /\ missing' \in Nat /\ capture' \in Seq(Frame)
           /\ \/ /\ missing' = missing
                 /\ \A checked : Kept(checked)' = AcceptFrame(checked, Kept(checked), f)
              \/ /\ missing' = missing + 1
                 /\ \A checked : Kept(checked)' = Kept(checked)
<1>1. f \in Frame
  BY DEF TalkTypes, Frame, Chunk
<1>2. time' = time + 1 /\ time' \in Nat
  BY DEF Emit, TalkTypes
<1>3. CASE capture' = Append(capture, f) /\ missing' = missing
  <2>1. capture' \in Seq(Frame)
    BY <1>1, <1>3, AppendProperties DEF TalkTypes
  <2>2. ASSUME NEW checked PROVE Kept(checked)' = AcceptFrame(checked, Kept(checked), f)
    <3>1. Kept(checked)' = Reassembly(checked, Append(capture, f))[Len(Append(capture, f))]
      BY <1>3 DEF Kept
    <3> QED
      BY <1>1, <3>1, ReassembledMore DEF TalkTypes, Kept
  <2> QED
    BY <1>1, <1>2, <1>3, <2>1, <2>2 DEF TalkTypes
<1>4. CASE missing' = missing + 1 /\ capture' = capture
  <2>1. \A checked : Kept(checked)' = Kept(checked)
    BY <1>4 DEF Kept
  <2> QED
    BY <1>1, <1>2, <1>4, <2>1 DEF TalkTypes
<1> QED
  BY <1>2, <1>3, <1>4 DEF Emit

(* A message that nothing changed.                                         *)
Same(s, n, t) ==
    /\ t[n].start = s[n].start /\ t[n].id = s[n].id /\ t[n].length = s[n].length
    /\ t[n].framed = s[n].framed /\ t[n].left = s[n].left

LEMMA SameSaid ==
    ASSUME NEW s, NEW n, NEW t, Same(s, n, t)
    PROVE  /\ FramesOf(t[n]) = FramesOf(s[n])
           /\ Parts(t, n) = Parts(s, n) /\ Word(t, n) = Word(s, n)
           /\ \A b : Exactly(b, t, n) = Exactly(b, s, n)
           /\ \A b : Short(b, t, n) = Short(b, s, n)
<1>1. FramesOf(t[n]) = FramesOf(s[n])
  BY DEF Same, FramesOf
<1>2. Parts(t, n) = Parts(s, n)
  BY <1>1 DEF Same, Parts
<1>3. Word(t, n) = Word(s, n)
  BY <1>1, Zenon DEF Same, Word
<1>4. ASSUME NEW b PROVE Exactly(b, t, n) = Exactly(b, s, n) /\ Short(b, t, n) = Short(b, s, n)
  <2>1. t[n].start = s[n].start /\ t[n].length = s[n].length
    BY DEF Same
  <2> QED
    BY <1>2, <2>1, Zenon DEF Exactly, Short
<1> QED
  BY <1>1, <1>2, <1>3, <1>4

(* Nothing was said that a reassembler would hear.                         *)
LEMMA StillHears ==
    ASSUME NEW r, NEW s, NEW t, NEW m \in Nat, NEW k \in {m, m + 1}, Hears(r, s, m),
           DOMAIN t = DOMAIN s, \A n \in DOMAIN s : Same(s, n, t)
    PROVE  Hears(r, t, k)
<1>1. k <= 1 => m <= 1
  OBVIOUS
<1>2. k = 0 => m = 0
  OBVIOUS
<1>3. \A n \in DOMAIN s : /\ Word(t, n) = Word(s, n)
                          /\ \A b : Exactly(b, t, n) = Exactly(b, s, n)
                          /\ \A b : Short(b, t, n) = Short(b, s, n)
                          /\ t[n].id = s[n].id /\ t[n].framed = s[n].framed
                          /\ t[n].left = s[n].left
  <2>1. ASSUME NEW n \in DOMAIN s
        PROVE  t[n].id = s[n].id /\ t[n].framed = s[n].framed /\ t[n].left = s[n].left
    BY Zenon DEF Same
  <2>2. ASSUME NEW n \in DOMAIN s
        PROVE  /\ Word(t, n) = Word(s, n)
               /\ \A b : Exactly(b, t, n) = Exactly(b, s, n)
               /\ \A b : Short(b, t, n) = Short(b, s, n)
    BY SameSaid, Zenon
  <2> QED
    BY <2>1, <2>2, Zenon
<1>4. OnlySpoken(r, s) => OnlySpoken(r, t)
  <2> SUFFICES ASSUME OnlySpoken(r, s), NEW i \in DOMAIN r.messages
               PROVE  \E n \in DOMAIN t : /\ t[n].framed /\ t[n].left = 0
                                         /\ r.messages[i] = Word(t, n)
    BY DEF OnlySpoken
  <2>1. PICK n \in DOMAIN s : /\ s[n].framed /\ s[n].left = 0
                              /\ r.messages[i] = Word(s, n)
    BY DEF OnlySpoken
  <2> QED
    BY <1>3, <2>1
<1>5. AllSpoken(r, s) => AllSpoken(r, t)
  BY <1>3 DEF AllSpoken
<1>6. Underway(r, s) => Underway(r, t)
  BY <1>3 DEF Underway
<1>7. AllUnderway(r, s) => AllUnderway(r, t)
  <2>1. \A id : Speaking(t, id) <=> Speaking(s, id)
    BY <1>3 DEF Speaking
  <2> QED
    BY <1>3, <2>1 DEF AllUnderway
<1> QED
  BY <1>1, <1>2, <1>4, <1>5, <1>6, <1>7 DEF Hears

(* A message is begun.                                                     *)
LEMMA OneMore ==
    ASSUME NEW s, OneEach(s), NEW w \in Said, ~Speaking(s, w.id), w.left = FramesOf(w) - 1
    PROVE  LET t == Append(s, w)
           IN  /\ OneEach(t) /\ DOMAIN t = (DOMAIN s) \cup {Len(s) + 1}
               /\ Len(s) + 1 \notin DOMAIN s /\ t[Len(s) + 1] = w
               /\ \A n \in DOMAIN s : t[n] = s[n] /\ Same(s, n, t)
<1> DEFINE t == Append(s, w)
           N == Len(s) + 1
<1>1. /\ DOMAIN s = 1 .. Len(s) /\ Len(s) \in Nat
      /\ \A n \in DOMAIN s : s[n] \in Said
  BY LenProperties, ElementOfSeq DEF OneEach
<1>2. /\ t \in Seq(Said) /\ DOMAIN t = 1 .. N /\ t[N] = w
      /\ \A n \in 1 .. Len(s) : t[n] = s[n]
  <2>1. t \in Seq(Said) /\ Len(t) = N /\ t[N] = w /\ \A n \in 1 .. Len(s) : t[n] = s[n]
    BY AppendProperties DEF OneEach
  <2> QED
    BY <2>1, LenProperties
<1>3. 1 .. N = (1 .. Len(s)) \cup {N} /\ N \notin 1 .. Len(s)
  BY <1>1
<1> HIDE DEF t, N
<1>4. \A n \in DOMAIN s : t[n] = s[n] /\ Same(s, n, t)
  BY <1>1, <1>2 DEF Same
<1>5. \A n \in DOMAIN t : t[n].left < FramesOf(t[n])
  <2>1. \A n \in DOMAIN s : t[n].left < FramesOf(t[n])
    BY <1>4 DEF OneEach
  <2>2. w.left < FramesOf(w)
    <3>1. FramesOf(w) \in Nat
      BY FramesAre
    <3> QED
      BY <3>1
  <2> QED
    BY <1>1, <1>2, <1>3, <2>1, <2>2
<1>6. ASSUME NEW n \in DOMAIN t, NEW m \in DOMAIN t, t[n].left > 0, t[m].left > 0,
             t[n].id = t[m].id
      PROVE  n = m
  <2>1. CASE n \in DOMAIN s /\ m \in DOMAIN s
    BY <1>4, <1>6, <2>1 DEF OneEach
  <2>2. CASE n = N /\ m \in DOMAIN s
    BY <1>2, <1>4, <1>6, <2>2 DEF Speaking
  <2>3. CASE n \in DOMAIN s /\ m = N
    BY <1>2, <1>4, <1>6, <2>3 DEF Speaking
  <2> QED
    BY <1>1, <1>2, <1>3, <2>1, <2>2, <2>3
<1>7. OneEach(t)
  BY <1>2, <1>5, <1>6 DEF OneEach
<1> QED
  BY <1>1, <1>2, <1>3, <1>4, <1>7 DEF t, N

(* One of a single frame.                                                  *)
LEMMA HearsShort ==
    ASSUME NEW s, OneEach(s), NEW w \in Said, ~Speaking(s, w.id), w.left = 0, FramesOf(w) = 1,
           NEW r, NEW m \in Nat, Hears(r, s, m), NEW q, NEW k,
           \/ k = m /\ ~w.framed /\ q = r
           \/ /\ k = m /\ w.framed /\ q \in Acc /\ q.active = r.active
              /\ q.messages = Append(r.messages, Word(Append(s, w), Len(s) + 1))
           \/ k = m + 1 /\ q = r
    PROVE  Hears(q, Append(s, w), k)
<1> DEFINE t == Append(s, w)
           N == Len(s) + 1
<1>1. /\ OneEach(t) /\ DOMAIN t = (DOMAIN s) \cup {N} /\ N \notin DOMAIN s /\ t[N] = w
      /\ \A n \in DOMAIN s : t[n] = s[n] /\ Same(s, n, t)
  BY OneMore
<1> HIDE DEF t, N
<1>2. \A n \in DOMAIN s : /\ Word(t, n) = Word(s, n)
                          /\ \A b : Exactly(b, t, n) = Exactly(b, s, n)
                          /\ \A b : Short(b, t, n) = Short(b, s, n)
  BY <1>1, SameSaid
<1>3. ~(w.left > 0)
  OBVIOUS
<1>4. \A id : Speaking(t, id) <=> Speaking(s, id)
  BY <1>1, <1>3 DEF Speaking
<1>5. OnlySpoken(r, s) => OnlySpoken(r, t)
  BY <1>1, <1>2 DEF OnlySpoken
<1>6. Underway(r, s) => Underway(r, t)
  BY <1>1, <1>2, <1>3 DEF Underway
<1>7. AllUnderway(r, s) => AllUnderway(r, t)
  BY <1>1, <1>2, <1>3, <1>4 DEF AllUnderway
<1>8. CASE k = m /\ ~w.framed /\ q = r
  <2>1. AllSpoken(r, s) => AllSpoken(r, t)
    BY <1>1, <1>2, <1>8 DEF AllSpoken
  <2> QED
    BY <1>5, <1>6, <1>7, <1>8, <2>1, Zenon DEF Hears, t
<1>9. CASE k = m + 1 /\ q = r
  <2>1. (k <= 1 => m <= 1) /\ k # 0
    BY <1>9
  <2> QED
    BY <1>5, <1>6, <1>9, <2>1, Zenon DEF Hears, t
<1>10. CASE /\ k = m /\ w.framed /\ q \in Acc /\ q.active = r.active
            /\ q.messages = Append(r.messages, Word(t, N))
  <2>1. r.messages \in Seq(Told)
    BY DEF Hears, Acc
  <2> DEFINE l == Len(r.messages)
  <2>2. l \in Nat /\ DOMAIN r.messages = 1 .. l
    BY <2>1, LenProperties
  <2>3. Word(t, N) \in Told
    <3>1. q.messages \in Seq(Told)
      BY <1>10 DEF Acc
    <3>2. Len(q.messages) = l + 1 /\ q.messages[l + 1] = Word(t, N)
      BY <1>10, <2>1
    <3>3. l + 1 \in 1 .. Len(q.messages)
      BY <2>2, <3>2
    <3> QED
      BY <3>1, <3>2, <3>3, ElementOfSeq
  <2>4. /\ DOMAIN q.messages = 1 .. l + 1 /\ q.messages[l + 1] = Word(t, N)
        /\ \A i \in 1 .. l : q.messages[i] = r.messages[i]
    <3>1. /\ q.messages \in Seq(Told) /\ Len(q.messages) = l + 1
          /\ q.messages[l + 1] = Word(t, N)
          /\ \A i \in 1 .. l : q.messages[i] = r.messages[i]
      BY <1>10, <2>1, <2>3, AppendProperties
    <3> QED
      BY <3>1, LenProperties
  <2>5. 1 .. l + 1 = (1 .. l) \cup {l + 1}
    BY <2>2
  <2> HIDE DEF l
  <2>6. OnlySpoken(r, t) => OnlySpoken(q, t)
    <3>1. t[N].framed /\ t[N].left = 0 /\ N \in DOMAIN t
      BY <1>1, <1>10
    <3> QED
      BY <2>2, <2>4, <2>5, <3>1 DEF OnlySpoken
  <2>7. AllSpoken(r, s) => AllSpoken(q, t)
    <3> SUFFICES ASSUME AllSpoken(r, s), NEW n \in DOMAIN t, t[n].framed, t[n].left = 0
                 PROVE  \E i \in DOMAIN q.messages : q.messages[i] = Word(t, n)
      BY DEF AllSpoken
    <3>1. CASE n = N
      BY <2>4, <2>5, <3>1
    <3>2. CASE n \in DOMAIN s
      <4>1. PICK i \in DOMAIN r.messages : r.messages[i] = Word(s, n)
        BY <1>1, <3>2 DEF AllSpoken
      <4> QED
        BY <1>2, <2>2, <2>4, <2>5, <3>2, <4>1
    <3> QED
      BY <1>1, <3>1, <3>2
  <2>8. Underway(r, t) => Underway(q, t)
    BY <1>10 DEF Underway
  <2>9. AllUnderway(r, t) => AllUnderway(q, t)
    BY <1>10 DEF AllUnderway
  <2> QED
    BY <1>5, <1>6, <1>7, <1>10, <2>6, <2>7, <2>8, <2>9, Zenon DEF Hears, t
<1> QED
  BY <1>8, <1>9, <1>10 DEF t, N

(* The first frame of a longer one.                                        *)
LEMMA HearsLong ==
    ASSUME NEW s, OneEach(s), NEW w \in Said, ~Speaking(s, w.id), w.left = FramesOf(w) - 1,
           FramesOf(w) > 1,
           NEW r, NEW m \in Nat, Hears(r, s, m), NEW q, NEW k,
           \/ /\ k = m /\ q \in Acc /\ q.messages = r.messages
              /\ q.active[w.id] = [time |-> w.start, length |-> w.length, next |-> 1,
                                   chunks |-> << <<Len(s) + 1, 1>> >>]
              /\ \A id \in Ids \ {w.id} : q.active[id] = r.active[id]
           \/ k = m + 1 /\ q = r
    PROVE  Hears(q, Append(s, w), k)
<1> DEFINE t == Append(s, w)
           N == Len(s) + 1
<1>1. /\ OneEach(t) /\ DOMAIN t = (DOMAIN s) \cup {N} /\ N \notin DOMAIN s /\ t[N] = w
      /\ \A n \in DOMAIN s : t[n] = s[n] /\ Same(s, n, t)
  BY OneMore
<1>2. /\ \A n \in DOMAIN s : s[n] \in Said /\ s[n].id \in Talkers /\ s[n].left \in Nat
      /\ w.id \in Talkers /\ Talkers \subseteq Ids
  <2>1. \A n \in DOMAIN s : s[n] \in Said
    BY LenProperties, ElementOfSeq DEF OneEach
  <2>2. Talkers \subseteq Ids
    BY DEF Talkers, Ids
  <2> QED
    BY <2>1, <2>2, SaidIs, Zenon
<1> HIDE DEF t, N
<1>3. \A n \in DOMAIN s : /\ Word(t, n) = Word(s, n)
                          /\ \A b : Exactly(b, t, n) = Exactly(b, s, n)
                          /\ \A b : Short(b, t, n) = Short(b, s, n)
  BY <1>1, SameSaid
<1>4. w.left > 0 /\ Parts(t, N) = 1
  <2>1. FramesOf(w) \in Nat
    BY FramesAre
  <2> QED
    BY <1>1, <2>1 DEF Parts
<1>5. OnlySpoken(r, s) => OnlySpoken(r, t)
  BY <1>1, <1>3 DEF OnlySpoken
<1>6. AllSpoken(r, s) => AllSpoken(r, t)
  BY <1>1, <1>3, <1>4 DEF AllSpoken
<1>7. \A n \in DOMAIN s : s[n].left > 0 => s[n].id # w.id
  BY DEF Speaking
<1>8. CASE k = m + 1 /\ q = r
  <2>1. (k <= 1 => m <= 1 /\ m = 0) /\ k # 0
    BY <1>8
  <2>2. Underway(r, s) /\ AllUnderway(r, s) => Underway(r, t)
    <3>1. AllUnderway(r, s) => r.active[w.id] = Idle
      BY <1>2 DEF AllUnderway
    <3> QED
      BY <1>1, <1>3, <3>1 DEF Underway
  <2> QED
    BY <1>5, <1>8, <2>1, <2>2, Zenon DEF Hears, t
<1>9. CASE /\ k = m /\ q \in Acc /\ q.messages = r.messages
           /\ q.active[w.id] = [time |-> w.start, length |-> w.length, next |-> 1,
                                chunks |-> << <<N, 1>> >>]
           /\ \A id \in Ids \ {w.id} : q.active[id] = r.active[id]
  <2>1. Exactly(q.active[w.id], t, N)
    <3>1. << <<N, 1>> >> = [i \in 1 .. 1 |-> <<N, i>>]
      OBVIOUS
    <3>2. 1 % 16 = 1
      OBVIOUS
    <3> QED
      BY <1>1, <1>4, <1>9, <3>1, <3>2 DEF Exactly
  <2>2. \A n \in DOMAIN s : s[n].left > 0 => q.active[s[n].id] = r.active[s[n].id]
    BY <1>2, <1>7, <1>9
  <2>3. OnlySpoken(r, t) => OnlySpoken(q, t)
    BY <1>9 DEF OnlySpoken
  <2>4. AllSpoken(r, t) => AllSpoken(q, t)
    BY <1>9 DEF AllSpoken
  <2>5. Underway(r, s) => Underway(q, t)
    BY <1>1, <1>3, <2>1, <2>2 DEF Underway
  <2>6. AllUnderway(r, s) => AllUnderway(q, t)
    <3> SUFFICES ASSUME AllUnderway(r, s) PROVE AllUnderway(q, t)
      OBVIOUS
    <3>1. ASSUME NEW n \in DOMAIN t, t[n].left > 0 PROVE Exactly(q.active[t[n].id], t, n)
      <4>1. CASE n = N
        BY <1>1, <2>1, <4>1
      <4>2. CASE n \in DOMAIN s
        <5>1. s[n].left > 0 /\ t[n].id = s[n].id
          BY <1>1, <3>1, <4>2
        <5>2. Exactly(r.active[s[n].id], s, n)
          BY <4>2, <5>1 DEF AllUnderway
        <5> QED
          BY <1>3, <2>2, <4>2, <5>1, <5>2
      <4> QED
        BY <1>1, <4>1, <4>2
    <3>2. ASSUME NEW id \in Talkers, ~Speaking(t, id) PROVE q.active[id] = Idle
      <4>1. id # w.id
        BY <1>1, <1>4, <3>2 DEF Speaking
      <4>2. ~Speaking(s, id)
        BY <1>1, <3>2 DEF Speaking
      <4>3. r.active[id] = Idle
        BY <4>2 DEF AllUnderway
      <4> QED
        BY <1>2, <1>9, <4>1, <4>3
    <3> QED
      BY <3>1, <3>2 DEF AllUnderway
  <2> QED
    BY <1>5, <1>6, <1>9, <2>3, <2>4, <2>5, <2>6, Zenon DEF Hears, t
<1> QED
  BY <1>8, <1>9 DEF t, N

(* The next part of message n is sent.                                     *)
LEMMA OneLess ==
    ASSUME NEW s, OneEach(s), NEW n \in DOMAIN s, s[n].left > 0
    PROVE  LET t == [s EXCEPT ![n].left = @ - 1]
           IN  /\ OneEach(t) /\ DOMAIN t = DOMAIN s
               /\ \A j \in DOMAIN s \ {n} : t[j] = s[j] /\ Same(s, j, t)
               /\ t[n].id = s[n].id /\ t[n].start = s[n].start /\ t[n].length = s[n].length
               /\ t[n].framed = s[n].framed /\ t[n].left = s[n].left - 1 /\ t[n].left \in Nat
               /\ FramesOf(t[n]) = FramesOf(s[n]) /\ Parts(t, n) = Parts(s, n) + 1
               /\ s[n].framed /\ Parts(s, n) \in Nat \ {0} /\ FramesOf(s[n]) > 1
               /\ FramesOf(s[n]) \in Nat /\ Parts(s, n) < FramesOf(s[n])
               /\ (t[n].left = 0 <=> Parts(t, n) = FramesOf(s[n]))
<1> DEFINE t == [s EXCEPT ![n].left = @ - 1]
           v == [s[n] EXCEPT !.left = @ - 1]
<1>1. /\ DOMAIN s = 1 .. Len(s) /\ Len(s) \in Nat
      /\ \A j \in DOMAIN s : s[j] \in Said
  BY LenProperties, ElementOfSeq DEF OneEach
<1>2. t = [s EXCEPT ![n] = v]
  BY Zenon
<1>3. s[n].left - 1 \in Nat /\ s[n] \in Said
  <2>1. s[n] \in Said
    BY <1>1
  <2>2. s[n].left \in Nat
    BY <2>1, SaidIs
  <2> QED
    BY <2>1, <2>2
<1>4. /\ v \in Said /\ v.left \in Nat
      /\ v.id = s[n].id /\ v.start = s[n].start /\ v.length = s[n].length
      /\ v.framed = s[n].framed /\ v.left = s[n].left - 1
  <2> DEFINE l == s[n].left - 1
             x == [s[n] EXCEPT !.left = l]
  <2>1. l \in Nat
    BY <1>3
  <2> HIDE DEF l
  <2>2. /\ x \in Said /\ x.id = s[n].id /\ x.start = s[n].start /\ x.length = s[n].length
        /\ x.framed = s[n].framed /\ x.left = l
    BY <1>3, <2>1, LeftChanged
  <2>3. v = x
    BY Zenon DEF l
  <2> HIDE DEF x, v
  <2> QED
    BY <2>1, <2>2, <2>3 DEF l
<1> HIDE DEF v
<1>5. t \in Seq(Said) /\ DOMAIN t = DOMAIN s /\ t[n] = v /\ \A j \in DOMAIN s \ {n} : t[j] = s[j]
  <2>1. s \in Seq(Said) /\ n \in 1 .. Len(s)
    BY <1>1 DEF OneEach
  <2>2. [s EXCEPT ![n] = v] \in Seq(Said)
    BY <1>4, <2>1, ExceptSeq
  <2>3. /\ DOMAIN [s EXCEPT ![n] = v] = DOMAIN s /\ [s EXCEPT ![n] = v][n] = v
        /\ \A j \in DOMAIN s \ {n} : [s EXCEPT ![n] = v][j] = s[j]
    OBVIOUS
  <2> QED
    BY <1>2, <2>2, <2>3
<1> HIDE DEF t
<1>6. \A j \in DOMAIN s \ {n} : t[j] = s[j] /\ Same(s, j, t)
  BY <1>5 DEF Same
<1>7. FramesOf(t[n]) = FramesOf(s[n])
  BY <1>4, <1>5 DEF FramesOf
<1>8. /\ FramesOf(s[n]) \in Nat \ {0} /\ s[n].left \in Nat /\ s[n].left < FramesOf(s[n])
  <2>1. s[n] \in Said
    BY <1>1
  <2> QED
    BY <2>1, FramesAre DEF OneEach
<1>9. FramesOf(s[n]) > 1
  BY <1>8
<1>10. s[n].framed
  <2>1. s[n] \in Said
    BY <1>1
  <2> QED
    BY <1>9, <2>1, FramesAre
<1>11. /\ Parts(t, n) = Parts(s, n) + 1 /\ Parts(s, n) \in Nat \ {0}
       /\ Parts(s, n) < FramesOf(s[n]) /\ (v.left = 0 <=> Parts(t, n) = FramesOf(s[n]))
  BY <1>4, <1>5, <1>7, <1>8 DEF Parts
<1>12. OneEach(t)
  <2>1. \A j \in DOMAIN t : t[j].left < FramesOf(t[j])
    <3>1. v.left < FramesOf(s[n])
      BY <1>4, <1>8
    <3> QED
      BY <1>5, <1>6, <1>7, <3>1 DEF OneEach
  <2>2. \A j \in DOMAIN s : t[j].id = s[j].id /\ (t[j].left > 0 => s[j].left > 0)
    BY <1>4, <1>5
  <2> QED
    BY <1>5, <2>1, <2>2 DEF OneEach
<1> QED
  BY <1>4, <1>5, <1>6, <1>7, <1>8, <1>9, <1>10, <1>11, <1>12 DEF t

(* Appending keeps what there was, and adds one.                           *)
LEMMA Longer ==
    ASSUME NEW S, NEW a \in Seq(S), NEW x, Append(a, x) \in Seq(S)
    PROVE  LET b == Append(a, x)
           IN  /\ \A i \in DOMAIN b : (i \in DOMAIN a /\ b[i] = a[i]) \/ b[i] = x
               /\ \A i \in DOMAIN a : i \in DOMAIN b /\ b[i] = a[i]
               /\ \E i \in DOMAIN b : b[i] = x
<1> DEFINE b == Append(a, x)
           l == Len(a)
<1>1. l \in Nat /\ DOMAIN a = 1 .. l
  BY LenProperties
<1>2. Len(b) = l + 1 /\ b[l + 1] = x /\ \A i \in 1 .. l : b[i] = a[i]
  OBVIOUS
<1>3. DOMAIN b = 1 .. l + 1
  <2> HIDE DEF b
  <2> QED
    BY <1>2, LenProperties
<1>4. 1 .. l + 1 = (1 .. l) \cup {l + 1}
  BY <1>1
<1> HIDE DEF b, l
<1> QED
  BY <1>1, <1>2, <1>3, <1>4 DEF b

(* What that does to the buffer of the message: it is lost or too short, it *)
(* holds what there is so far, or it became the message.                    *)
Outcome(r, q, s, t, n) ==
    LET c == r.active[s[n].id]
        d == q.active[s[n].id]
    IN  /\ q \in Acc /\ \A id \in Ids \ {s[n].id} : q.active[id] = r.active[id]
        /\ \/ /\ q.messages = r.messages /\ (d = Idle \/ Short(d, t, n))
              /\ ~Exactly(c, s, n)
           \/ q.messages = r.messages /\ t[n].left > 0 /\ Exactly(d, t, n)
           \/ /\ q.messages = Append(r.messages, Word(t, n)) /\ t[n].left = 0
              /\ d = Idle

LEMMA Grown ==
    ASSUME NEW s, OneEach(s), NEW n \in DOMAIN s, s[n].left > 0,
           NEW checked, NEW r \in Acc, NEW f \in Frame,
           f.id = s[n].id, f.byte = 32 + (Parts(s, n) % 16), f.chunk = <<n, Parts(s, n) + 1>>,
           \/ r.active[s[n].id] = Idle
           \/ Exactly(r.active[s[n].id], s, n)
           \/ Short(r.active[s[n].id], s, n)
    PROVE  Outcome(r, AcceptFrame(checked, r, f), s, [s EXCEPT ![n].left = @ - 1], n)
<1> DEFINE t == [s EXCEPT ![n].left = @ - 1]
           q == AcceptFrame(checked, r, f)
           b == r.active[f.id]
           chunks == Append(b.chunks, f.chunk)
           Out ==
               \/ /\ q.messages = r.messages
                  /\ q.active[f.id] = Idle \/ Short(q.active[f.id], t, n)
                  /\ ~Exactly(b, s, n)
               \/ /\ q.messages = r.messages /\ t[n].left > 0
                  /\ Exactly(q.active[f.id], t, n)
               \/ /\ q.messages = Append(r.messages, Word(t, n)) /\ t[n].left = 0
                  /\ q.active[f.id] = Idle
<1>1. /\ t[n].id = s[n].id /\ t[n].start = s[n].start /\ t[n].length = s[n].length
      /\ t[n].framed = s[n].framed /\ t[n].left = s[n].left - 1 /\ t[n].left \in Nat
      /\ FramesOf(t[n]) = FramesOf(s[n]) /\ Parts(t, n) = Parts(s, n) + 1
      /\ s[n].framed /\ Parts(s, n) \in Nat \ {0} /\ FramesOf(s[n]) > 1
      /\ FramesOf(s[n]) \in Nat /\ Parts(s, n) < FramesOf(s[n])
      /\ (t[n].left = 0 <=> Parts(t, n) = FramesOf(s[n]))
  BY OneLess
<1> HIDE DEF t
<1>2. PICK p \in Nat \ {0} : p = Parts(s, n) /\ Parts(t, n) = p + 1 /\ p + 1 <= FramesOf(s[n])
  BY <1>1
<1>3. s[n] \in Said
  BY LenProperties, ElementOfSeq DEF OneEach
<1>4. /\ s[n].length \in Nat \ {0}
      /\ \A k \in Nat : 7 * k - 1 >= s[n].length <=> k >= FramesOf(s[n])
  <2>1. /\ s[n].length \in Extent
        /\ \A k \in Nat : 7 * k - 1 >= s[n].length <=> k >= FramesOf(s[n])
    BY <1>1, <1>3, FramesAre, Zenon
  <2>2. s[n].length \in Nat \ {0}
    BY <2>1, Extents
  <2> QED
    BY <2>1, <2>2, Zenon
<1>5. b \in Buffer /\ b.chunks \in Seq(Chunk) /\ b.next \in Nat /\ f.chunk \in Chunk
  <2>1. f.id \in Ids /\ f.chunk \in Chunk
    BY DEF Frame
  <2>2. b \in Buffer
    BY <2>1 DEF Acc
  <2> QED
    BY <2>1, <2>2 DEF Buffer
<1>6. /\ q \in Acc
      /\ \A id \in Ids \ {f.id} : q.active[id] = r.active[id]
      /\ \/ b = Idle /\ q.active[f.id] = Idle /\ q.messages = r.messages
         \/ /\ b # Idle /\ checked /\ p % 16 # b.next
            /\ q.active[f.id] = Idle /\ q.messages = r.messages
         \/ /\ b # Idle /\ (checked => p % 16 = b.next)
            /\ 7 * Len(chunks) - 1 >= b.length
            /\ q.active[f.id] = Idle
            /\ q.messages = Append(r.messages, Message(b.time, f.id, chunks))
         \/ /\ b # Idle /\ (checked => p % 16 = b.next)
            /\ ~(7 * Len(chunks) - 1 >= b.length)
            /\ q.active[f.id] = [time |-> b.time, length |-> b.length,
                                 next |-> (b.next + 1) % 16, chunks |-> chunks]
            /\ q.messages = r.messages
  <2>1. p \in Nat /\ f.byte = 32 + (p % 16)
    BY <1>2
  <2> QED
    <3>1. Advances(checked, r, f, p, q)
      BY <2>1, NextFrame
    <3> QED
      BY <3>1, Zenon DEF Advances
<1> HIDE DEF q
<1>7. PICK l \in Nat : /\ Len(b.chunks) = l /\ Len(chunks) = l + 1
                       /\ DOMAIN b.chunks = 1 .. l /\ DOMAIN chunks = 1 .. l + 1
                       /\ chunks[l + 1] = f.chunk
                       /\ \A i \in 1 .. l : chunks[i] = b.chunks[i]
                       /\ chunks \in Seq(Chunk)
  <2>1. /\ Len(b.chunks) \in Nat /\ Len(chunks) = Len(b.chunks) + 1
        /\ chunks \in Seq(Chunk)
        /\ chunks[Len(b.chunks) + 1] = f.chunk
        /\ \A i \in 1 .. Len(b.chunks) : chunks[i] = b.chunks[i]
    <3> HIDE DEF b
    <3> QED
      BY <1>5, AppendProperties, LenProperties
  <2> HIDE DEF chunks, b
  <2> QED
    BY <1>5, <2>1, LenProperties
<1> HIDE DEF b, chunks
<1>8. ASSUME Exactly(b, s, n) PROVE Out
  <2>1. /\ b.time = s[n].start /\ b.length = s[n].length /\ b.next = p % 16
        /\ b.chunks = [i \in 1 .. p |-> <<n, i>>]
    BY <1>2, <1>8 DEF Exactly
  <2>2. b # Idle
    BY <1>4, <2>1 DEF Idle
  <2>3. l = p
    <3>1. 1 .. p = 1 .. l
      BY <1>7, <2>1
    <3>2. p \in 1 .. l /\ (l = 0 \/ l \in 1 .. p)
      BY <3>1
    <3> QED
      BY <3>2
  <2>4. chunks = [i \in 1 .. p + 1 |-> <<n, i>>]
    <3>1. chunks = [i \in 1 .. p + 1 |-> chunks[i]]
      BY <1>7, <2>3
    <3>2. ASSUME NEW i \in 1 .. p + 1 PROVE chunks[i] = <<n, i>>
      <4>1. CASE i = p + 1
        BY <1>2, <1>7, <2>3, <4>1
      <4>2. CASE i \in 1 .. p
        BY <1>7, <2>1, <2>3, <4>2
      <4> QED
        BY <4>1, <4>2
    <3> QED
      BY <3>1, <3>2
  <2>5. 7 * Len(chunks) - 1 >= b.length <=> p + 1 >= FramesOf(s[n])
    <3>1. PICK k \in Nat : k = p + 1
      OBVIOUS
    <3>2. 7 * k - 1 >= s[n].length <=> k >= FramesOf(s[n])
      BY <1>4, <3>1, Zenon
    <3> QED
      BY <1>7, <2>1, <2>3, <3>1, <3>2
  <2>6. p + 1 >= FramesOf(s[n]) <=> t[n].left = 0
    BY <1>1, <1>2
  <2>7. CASE 7 * Len(chunks) - 1 >= b.length
    <3>1. Message(b.time, f.id, chunks) = Word(t, n)
      <4>1. p + 1 = FramesOf(t[n])
        BY <1>1, <1>2, <2>5, <2>7
      <4>2. chunks = [i \in 1 .. FramesOf(t[n]) |-> <<n, i>>]
        BY <2>4, <4>1, Zenon
      <4> QED
        BY <1>1, <2>1, <4>2, Zenon DEF Word
    <3>2. t[n].left = 0
      BY <2>5, <2>6, <2>7, Zenon
    <3>3. q.active[f.id] = Idle /\ q.messages = Append(r.messages, Message(b.time, f.id, chunks))
      BY <1>6, <2>1, <2>2, <2>7, Zenon
    <3> QED
      BY <3>1, <3>2, <3>3, Zenon
  <2>8. CASE ~(7 * Len(chunks) - 1 >= b.length)
    <3>1. t[n].left > 0
      <4>1. ~(t[n].left = 0) /\ t[n].left \in Nat
        BY <1>1, <2>5, <2>6, <2>8, Zenon
      <4> QED
        BY <4>1
    <3>2. (b.next + 1) % 16 = (p + 1) % 16
      BY <2>1
    <3>3. q.active[f.id] = [time |-> b.time, length |-> b.length,
                            next |-> (p + 1) % 16, chunks |-> chunks]
          /\ q.messages = r.messages
      BY <1>6, <2>1, <2>2, <2>8, <3>2
    <3>4. Exactly(q.active[f.id], t, n)
      BY <1>1, <1>2, <2>1, <2>4, <3>3, Zenon DEF Exactly
    <3> QED
      BY <3>1, <3>3, <3>4, Zenon
  <2> QED
    BY <2>7, <2>8
<1>9. ASSUME ~Exactly(b, s, n), b = Idle PROVE Out
  <2>1. q.active[f.id] = Idle /\ q.messages = r.messages
    BY <1>6, <1>9, Zenon
  <2> QED
    BY <1>9, <2>1, Zenon
<1>10. ASSUME ~Exactly(b, s, n), Short(b, s, n) PROVE Out
  <2>1. b.length = s[n].length /\ l < p
    BY <1>2, <1>7, <1>10 DEF Short
  <2>2. ~(7 * Len(chunks) - 1 >= b.length)
    <3>1. PICK k \in Nat : k = l + 1 /\ ~(k >= FramesOf(s[n]))
      BY <1>1, <1>2, <2>1
    <3>2. ~(7 * k - 1 >= s[n].length)
      BY <1>4, <3>1
    <3> QED
      BY <1>7, <2>1, <3>1, <3>2
  <2>3. l + 1 < p + 1
    BY <2>1
  <2>4. ASSUME q.active[f.id] = [time |-> b.time, length |-> b.length,
                                 next |-> (b.next + 1) % 16, chunks |-> chunks]
        PROVE  Short(q.active[f.id], t, n)
    BY <1>1, <1>2, <1>7, <2>1, <2>3, <2>4 DEF Short
  <2>5. q.messages = r.messages
    BY <1>6, <2>2, Zenon
  <2>6. q.active[f.id] = Idle \/ Short(q.active[f.id], t, n)
    BY <1>6, <2>2, <2>4, Zenon
  <2> QED
    BY <1>10, <2>5, <2>6, Zenon
<1>11. Out
  <2>1. b = Idle \/ Exactly(b, s, n) \/ Short(b, s, n)
    BY Zenon DEF b
  <2> QED
    BY <1>8, <1>9, <1>10, <2>1, Zenon
<1> QED
  <2>1. f.id = s[n].id
    OBVIOUS
  <2>2. Outcome(r, q, s, t, n)
    BY <1>6, <1>11, <2>1, Zenon DEF Outcome, b
  <2> QED
    BY <2>2 DEF q, t

LEMMA HearsNext ==
    ASSUME NEW s, OneEach(s), NEW n \in DOMAIN s, s[n].left > 0,
           NEW checked, NEW r, NEW m \in Nat, Hears(r, s, m), NEW f \in Frame,
           f.id = s[n].id, f.byte = 32 + (Parts(s, n) % 16), f.chunk = <<n, Parts(s, n) + 1>>,
           NEW q, NEW k,
           (k = m /\ q = AcceptFrame(checked, r, f)) \/ (k = m + 1 /\ q = r)
    PROVE  Hears(q, [s EXCEPT ![n].left = @ - 1], k)
<1> DEFINE t == [s EXCEPT ![n].left = @ - 1]
<1>1. /\ OneEach(t) /\ DOMAIN t = DOMAIN s
      /\ \A j \in DOMAIN s \ {n} : t[j] = s[j] /\ Same(s, j, t)
      /\ t[n].id = s[n].id /\ t[n].length = s[n].length /\ t[n].left \in Nat
      /\ Parts(t, n) = Parts(s, n) + 1 /\ Parts(s, n) \in Nat \ {0}
      /\ t[n].framed = s[n].framed /\ s[n].framed
  BY OneLess
<1>2. /\ \A j \in DOMAIN s : s[j].id \in Talkers /\ s[j].left \in Nat
      /\ Talkers \subseteq Ids
  <2>1. \A j \in DOMAIN s : s[j] \in Said
    BY LenProperties, ElementOfSeq DEF OneEach
  <2>2. Talkers \subseteq Ids
    BY DEF Talkers, Ids
  <2> QED
    BY <2>1, <2>2, SaidIs, Zenon
<1>3. \A j \in DOMAIN s \ {n} : s[j].left > 0 => s[j].id # s[n].id
  BY DEF OneEach
<1>4. r \in Acc
  BY DEF Hears
<1>5. CASE k = m + 1 /\ q = r
  <2> HIDE DEF t
  <2>1. \A j \in DOMAIN s \ {n} : /\ Word(t, j) = Word(s, j)
                                  /\ \A b : Exactly(b, t, j) = Exactly(b, s, j)
                                  /\ \A b : Short(b, t, j) = Short(b, s, j)
    BY <1>1, SameSaid
  <2>2. (k <= 1 => m <= 1 /\ m = 0) /\ k # 0
    BY <1>5
  <2>3. OnlySpoken(r, s) => OnlySpoken(r, t)
    <3>1. ~(s[n].left = 0)
      BY <1>2
    <3> QED
      BY <1>1, <2>1, <3>1 DEF OnlySpoken
  <2>4. AllUnderway(r, s) => Underway(r, t)
    <3>1. AllUnderway(r, s) => Short(r.active[s[n].id], t, n)
      <4> DEFINE b == r.active[s[n].id]
                 p == Parts(s, n)
      <4> SUFFICES ASSUME Exactly(b, s, n) PROVE Short(b, t, n)
        BY DEF AllUnderway
      <4>1. b.length = s[n].length /\ b.chunks = [i \in 1 .. p |-> <<n, i>>] /\ p \in Nat
        <5>1. p \in Nat
          BY <1>1
        <5>2. b = [time |-> s[n].start, length |-> s[n].length, next |-> p % 16,
                   chunks |-> [i \in 1 .. p |-> <<n, i>>]]
          BY Zenon DEF Exactly
        <5> HIDE DEF b, p
        <5> QED
          BY <5>1, <5>2
      <4> HIDE DEF b, p
      <4>2. Len(b.chunks) = p
        BY <4>1
      <4>3. p < p + 1
        BY <4>1
      <4> QED
        BY <1>1, <4>1, <4>2, <4>3 DEF Short, p
    <3> QED
      BY <1>1, <2>1, <3>1 DEF Underway, AllUnderway
  <2> QED
    BY <1>5, <2>2, <2>3, <2>4, Zenon DEF Hears, t
<1>6. CASE k = m /\ q = AcceptFrame(checked, r, f)
  <2> SUFFICES Hears(q, t, m)
    BY <1>6
  <2> DEFINE c == r.active[s[n].id]
             d == q.active[s[n].id]
  <2>1. q \in Acc
    <3>1. Parts(s, n) \in Nat
      BY <1>1
    <3> QED
      BY <1>4, <1>6, <3>1, NextFrame, Zenon DEF Advances
  <2> SUFFICES ASSUME m <= 1
               PROVE  /\ OnlySpoken(q, t) /\ Underway(q, t)
                      /\ m = 0 => AllSpoken(q, t) /\ AllUnderway(q, t)
    <3>1. m = 0 => m <= 1
      OBVIOUS
    <3> QED
      BY <2>1, <3>1, Zenon DEF Hears
  <2>2. /\ OnlySpoken(r, s) /\ Underway(r, s)
        /\ m = 0 => AllSpoken(r, s) /\ AllUnderway(r, s)
    BY DEF Hears
  <2>3. c = Idle \/ Exactly(c, s, n) \/ Short(c, s, n)
    BY <2>2 DEF Underway
  <2>4. /\ \A id \in Ids \ {s[n].id} : q.active[id] = r.active[id]
        /\ \/ /\ q.messages = r.messages /\ (d = Idle \/ Short(d, t, n))
              /\ ~Exactly(c, s, n)
           \/ q.messages = r.messages /\ t[n].left > 0 /\ Exactly(d, t, n)
           \/ /\ q.messages = Append(r.messages, Word(t, n)) /\ t[n].left = 0
              /\ d = Idle
    <3>1. Outcome(r, q, s, t, n)
      BY <1>4, <1>6, <2>3, Grown, Zenon
    <3> QED
      BY <3>1, Zenon DEF Outcome
  <2> HIDE DEF t, c
  <2>5. \A j \in DOMAIN s \ {n} : /\ Word(t, j) = Word(s, j)
                                  /\ \A b : Exactly(b, t, j) = Exactly(b, s, j)
                                  /\ \A b : Short(b, t, j) = Short(b, s, j)
    BY <1>1, SameSaid
  <2>6. \A j \in DOMAIN s \ {n} : s[j].left > 0 => q.active[s[j].id] = r.active[s[j].id]
    BY <1>2, <1>3, <2>4
  <2>7. m = 0 => Exactly(c, s, n)
    BY <2>2 DEF AllUnderway, c
  <2>8. ~(s[n].left = 0)
    BY <1>2
  <2>9. OnlySpoken(r, t)
    BY <1>1, <2>2, <2>5, <2>8 DEF OnlySpoken
  <2>10. t[n].left = 0 => d = Idle \/ ~Exactly(c, s, n)
    BY <1>1, <2>4
  <2>11. Underway(q, t)
    BY <1>1, <2>2, <2>4, <2>5, <2>6 DEF Underway
  <2>12. m = 0 => AllUnderway(q, t)
    <3> SUFFICES ASSUME m = 0 PROVE AllUnderway(q, t)
      OBVIOUS
    <3>1. AllUnderway(r, s) /\ Exactly(c, s, n)
      BY <2>2, <2>7
    <3>2. ASSUME NEW j \in DOMAIN t, t[j].left > 0 PROVE Exactly(q.active[t[j].id], t, j)
      <4>1. CASE j = n
        BY <1>1, <2>4, <3>1, <3>2, <4>1
      <4>2. CASE j # n
        <5>1. j \in DOMAIN s \ {n} /\ s[j].left > 0 /\ t[j].id = s[j].id
          BY <1>1, <3>2, <4>2
        <5>2. Exactly(r.active[s[j].id], s, j)
          BY <3>1, <5>1 DEF AllUnderway
        <5> QED
          BY <2>5, <2>6, <5>1, <5>2
      <4> QED
        BY <4>1, <4>2
    <3>3. ASSUME NEW id \in Talkers, ~Speaking(t, id) PROVE q.active[id] = Idle
      <4>1. CASE id = s[n].id
        <5>1. ~(t[n].left > 0)
          BY <1>1, <3>3, <4>1 DEF Speaking
        <5> QED
          BY <2>4, <3>1, <4>1, <5>1
      <4>2. CASE id # s[n].id
        <5>1. ~Speaking(s, id)
          BY <1>1, <3>3, <4>2 DEF Speaking
        <5>2. r.active[id] = Idle
          BY <3>1, <5>1 DEF AllUnderway
        <5> QED
          BY <1>2, <2>4, <4>2, <5>2
      <4> QED
        BY <4>1, <4>2
    <3> QED
      BY <3>2, <3>3 DEF AllUnderway
  <2>13. CASE q.messages = r.messages /\ ~(Exactly(c, s, n) /\ t[n].left = 0)
    <3>1. OnlySpoken(q, t)
      BY <2>9, <2>13 DEF OnlySpoken
    <3>2. m = 0 => AllSpoken(q, t)
      BY <1>1, <2>2, <2>5, <2>7, <2>13 DEF AllSpoken
    <3> QED
      BY <2>11, <2>12, <3>1, <3>2
  <2>14. CASE q.messages = Append(r.messages, Word(t, n)) /\ t[n].left = 0
    <3>1. r.messages \in Seq(Told) /\ q.messages \in Seq(Told)
      BY <1>4, <2>1 DEF Acc
    <3>2. /\ \A i \in DOMAIN q.messages : \/ i \in DOMAIN r.messages /\ q.messages[i] = r.messages[i]
                                          \/ q.messages[i] = Word(t, n)
          /\ \A i \in DOMAIN r.messages : i \in DOMAIN q.messages /\ q.messages[i] = r.messages[i]
          /\ \E i \in DOMAIN q.messages : q.messages[i] = Word(t, n)
      BY <2>14, <3>1, Longer
    <3>3. OnlySpoken(q, t)
      <4>1. t[n].framed /\ n \in DOMAIN t
        BY <1>1
      <4>2. ASSUME NEW i \in DOMAIN q.messages
            PROVE  \E j \in DOMAIN t : t[j].framed /\ t[j].left = 0 /\ q.messages[i] = Word(t, j)
        <5>1. CASE i \in DOMAIN r.messages /\ q.messages[i] = r.messages[i]
          BY <2>9, <5>1 DEF OnlySpoken
        <5>2. CASE q.messages[i] = Word(t, n)
          BY <2>14, <4>1, <5>2
        <5> QED
          BY <3>2, <4>2, <5>1, <5>2, Zenon
      <4> QED
        BY <4>2, Zenon DEF OnlySpoken
    <3>4. m = 0 => AllSpoken(q, t)
      <4> SUFFICES ASSUME AllSpoken(r, s), NEW j \in DOMAIN t, t[j].framed, t[j].left = 0
                   PROVE  \E i \in DOMAIN q.messages : q.messages[i] = Word(t, j)
        BY <2>2 DEF AllSpoken
      <4>1. CASE j = n
        BY <3>2, <4>1
      <4>2. CASE j # n
        <5>1. j \in DOMAIN s \ {n} /\ s[j].framed /\ s[j].left = 0
          BY <1>1, <4>2
        <5>2. PICK i \in DOMAIN r.messages : r.messages[i] = Word(s, j)
          BY <5>1 DEF AllSpoken
        <5> QED
          BY <2>5, <3>2, <5>1, <5>2
      <4> QED
        BY <4>1, <4>2
    <3> QED
      BY <2>11, <2>12, <3>3, <3>4
  <2>15. t[n].left > 0 => ~(t[n].left = 0)
    BY <1>1
  <2> QED
    BY <2>4, <2>13, <2>14, <2>15
<1> QED
  BY <1>5, <1>6

(* A side begins a message.                                                *)
LEMMA HearsBegin ==
    ASSUME HearingInv, NEW p \in Payloads, NEW a \in Nat, Begin(p, a)
    PROVE  HearingInv'
<1> DEFINE N == Len(sent) + 1
           w == [id |-> p.id, sid |-> p.sid, of |-> p.of, pending |-> p.pending,
                 did |-> p.did, length |-> p.length, framed |-> p.framed,
                 start |-> time + 1, answers |-> a,
                 left |-> FramesOf(p) - 1, waits |-> FramesOf(p) > 1]
           f == [time |-> time + 1, id |-> p.id, byte |-> FirstByte(p),
                 second |-> p.length % 256, chunk |-> <<N, 1>>]
<1>1. TalkTypes /\ OneEach(sent) /\ \A checked \in BOOLEAN : Hears(Kept(checked), sent, missing)
  BY DEF HearingInv
<1>2. time \in Nat /\ missing \in Nat /\ N \in Nat /\ sent \in Seq(Said)
  BY <1>1, LenProperties DEF TalkTypes
<1>3. /\ FirstByte(p) \in Byte /\ p.length % 256 \in Byte
      /\ p.length \in Extent /\ p.framed \in BOOLEAN /\ p.id \in Talkers
      /\ p.sid \in Byte /\ p.of \in Nat /\ p.pending \in BOOLEAN /\ p.did \in Nat
      /\ ~p.framed => FirstByte(p) \div 16 \notin 0 .. 2
      /\ p.framed /\ p.length <= 7 => FirstByte(p) \in 1 .. 7
      /\ p.framed /\ ~(p.length <= 7) => FirstByte(p) = 16 + (p.length \div 256)
  BY BytesFit
<1>4. /\ FramesOf(p) \in Nat \ {0}
      /\ ~(FramesOf(p) > 1) <=> (~p.framed \/ p.length <= 7)
  BY <1>3, Lengths
<1>5. p.id \in Ids
  BY <1>3 DEF Talkers, Ids
<1>6. /\ f \in Frame /\ time' \in Nat /\ missing' \in Nat /\ capture' \in Seq(Frame)
      /\ \/ /\ missing' = missing
            /\ \A checked : Kept(checked)' = AcceptFrame(checked, Kept(checked), f)
         \/ /\ missing' = missing + 1
            /\ \A checked : Kept(checked)' = Kept(checked)
  <2> DEFINE byte == FirstByte(p)
             second == p.length % 256
             id == p.id
  <2>1. byte \in Byte /\ second \in Byte /\ id \in Ids
    BY <1>3, <1>5
  <2>2. Emit(id, byte, second, N, 1)
    BY DEF Begin
  <2>3. f = [time |-> time + 1, id |-> id, byte |-> byte, second |-> second,
             chunk |-> <<N, 1>>]
    OBVIOUS
  <2>4. TalkTypes /\ N \in Nat /\ 1 \in Nat
    BY <1>1, <1>2
  <2> HIDE DEF N, byte, second, id, f
  <2> QED
    BY <2>1, <2>2, <2>3, <2>4, Emitted
<1>7. sent' = Append(sent, w)
  BY DEF Begin
<1>8. w \in Said
  <2>1. FramesOf(p) - 1 \in Nat
    BY <1>4
  <2>2. time + 1 \in Nat
    BY <1>2
  <2> QED
    <3> DEFINE left == FramesOf(p) - 1
               waits == FramesOf(p) > 1
               start == time + 1
    <3>1. left \in Nat /\ waits \in BOOLEAN /\ start \in Nat
      BY <2>1, <2>2
    <3> HIDE DEF left, waits, start
    <3>2. [id |-> p.id, sid |-> p.sid, of |-> p.of, pending |-> p.pending,
           did |-> p.did, length |-> p.length, framed |-> p.framed,
           start |-> start, answers |-> a, left |-> left, waits |-> waits] \in Said
      BY <3>1, SaidMade, Zenon
    <3> QED
      BY <3>2 DEF left, waits, start
<1>9. FramesOf(w) = FramesOf(p) /\ w.left = FramesOf(w) - 1
  BY DEF FramesOf
<1>10. ~Speaking(sent, w.id)
  BY DEF Begin, Busy, Speaking
<1>11. w.id = p.id /\ w.start = time + 1 /\ w.length = p.length /\ w.framed = p.framed
  OBVIOUS
<1>12. f.id = p.id /\ f.time = time + 1 /\ f.byte = FirstByte(p) /\ f.second = p.length % 256
       /\ f.chunk = <<N, 1>>
  OBVIOUS
<1> HIDE DEF w, f
<1>13. /\ OneEach(Append(sent, w)) /\ Append(sent, w)[N] = w
       /\ Append(sent, w) \in Seq(Said)
  <2>1. OneEach(Append(sent, w)) /\ Append(sent, w)[N] = w
    BY <1>1, <1>8, <1>9, <1>10, OneMore
  <2> QED
    BY <2>1 DEF OneEach
<1>14. ASSUME NEW checked \in BOOLEAN PROVE Hears(Kept(checked)', Append(sent, w), missing')
  <2> DEFINE r == Kept(checked)
             q == Kept(checked)'
  <2>1. Hears(r, sent, missing) /\ r \in Acc
    BY <1>1 DEF Hears
  <2>2. \/ missing' = missing /\ q = AcceptFrame(checked, r, f)
        \/ missing' = missing + 1 /\ q = r
    BY <1>6
  <2> HIDE DEF r, q
  <2>3. CASE missing' = missing + 1 /\ q = r
    <3>1. CASE FramesOf(w) > 1
      BY <1>1, <1>2, <1>8, <1>9, <1>10, <2>1, <2>3, <3>1, HearsLong DEF q
    <3>2. CASE ~(FramesOf(w) > 1)
      <4>1. FramesOf(w) = 1 /\ w.left = 0
        BY <1>4, <1>9, <3>2
      <4> QED
        BY <1>1, <1>2, <1>8, <1>10, <2>1, <2>3, <4>1, HearsShort DEF q
    <3> QED
      BY <3>1, <3>2
  <2>4. CASE missing' = missing /\ q = AcceptFrame(checked, r, f)
    <3>1. CASE FramesOf(w) > 1
      <4>1. p.framed /\ ~(p.length <= 7)
        BY <1>3, <1>4, <1>9, <3>1, Zenon
      <4>2. p.length > 6
        BY <1>3, <4>1, Extents
      <4>5. PciType(f) = 1 /\ AnnouncedBy(f) = p.length
        <5>1. f.byte = 16 + (p.length \div 256) /\ f.second = p.length % 256
          BY <1>3, <1>12, <4>1, Zenon
        <5>2. /\ (16 + (p.length \div 256)) \div 16 = 1
              /\ ((16 + (p.length \div 256)) % 16) * 256 + (p.length % 256) = p.length
          BY <1>3, <4>1, Extents
        <5> QED
          BY <5>1, <5>2, Zenon DEF PciType, AnnouncedBy, Low
      <4>3. /\ q \in Acc /\ q.messages = r.messages
            /\ q.active[f.id] = [time |-> f.time, length |-> p.length, next |-> 1,
                                 chunks |-> <<f.chunk>>]
            /\ \A id \in Ids \ {f.id} : q.active[id] = r.active[id]
        <5>1. f \in Frame /\ r \in Acc /\ AnnouncedBy(f) > 6
          BY <1>6, <2>1, <4>2, <4>5
        <5> QED
          <6>1. /\ q \in Acc /\ q.messages = r.messages
                /\ q.active[f.id] = [time |-> f.time, length |-> AnnouncedBy(f), next |-> 1,
                                     chunks |-> <<f.chunk>>]
                /\ \A id \in Ids \ {f.id} : q.active[id] = r.active[id]
            BY <2>4, <4>5, <5>1, FirstFrame
          <6> QED
            BY <4>5, <6>1, Zenon
      <4>4. /\ q.active[w.id] = [time |-> w.start, length |-> w.length, next |-> 1,
                                 chunks |-> << <<Len(sent) + 1, 1>> >>]
            /\ \A id \in Ids \ {w.id} : q.active[id] = r.active[id]
        BY <1>11, <1>12, <4>3
      <4> QED
        BY <1>1, <1>2, <1>8, <1>9, <1>10, <2>1, <2>4, <3>1, <4>3, <4>4, HearsLong DEF q
    <3>2. CASE ~(FramesOf(w) > 1) /\ ~p.framed
      <4>1. FramesOf(w) = 1 /\ w.left = 0 /\ ~w.framed
        BY <1>4, <1>9, <1>11, <3>2
      <4>2. q = r
        <5>1. PciType(f) \notin 0 .. 2
          BY <1>3, <1>12, <3>2 DEF PciType
        <5> QED
          BY <2>4, <5>1, OtherFrame
      <4> QED
        BY <1>1, <1>2, <1>8, <1>10, <2>1, <2>4, <4>1, <4>2, HearsShort DEF q
    <3>3. CASE ~(FramesOf(w) > 1) /\ p.framed
      <4>1. FramesOf(w) = 1 /\ w.left = 0 /\ w.framed /\ p.length <= 7
        BY <1>3, <1>4, <1>9, <1>11, <3>3
      <4>2. f.byte \in 1 .. 7
        BY <1>3, <1>12, <3>3, <4>1
      <4>3. /\ q \in Acc /\ q.active = r.active
            /\ q.messages = Append(r.messages, Message(f.time, f.id, <<f.chunk>>))
        BY <1>6, <2>1, <2>4, <4>2, SingleFrame
      <4>4. Message(f.time, f.id, <<f.chunk>>) = Word(Append(sent, w), Len(sent) + 1)
        <5>1. << <<N, 1>> >> = [k \in 1 .. 1 |-> <<N, k>>]
          OBVIOUS
        <5>2. Word(Append(sent, w), N) = Message(w.start, w.id, [k \in 1 .. 1 |-> <<N, k>>])
          BY <1>13, <4>1 DEF Word
        <5> QED
          BY <1>11, <1>12, <5>1, <5>2
      <4> QED
        BY <1>1, <1>2, <1>8, <1>10, <2>1, <2>4, <4>1, <4>3, <4>4, HearsShort DEF q
    <3> QED
      BY <1>3, <3>1, <3>2, <3>3
  <2> QED
    BY <2>2, <2>3, <2>4
<1>15. TalkTypes'
  BY <1>6, <1>7, <1>13 DEF TalkTypes
<1>16. \A checked \in BOOLEAN : Hears(Kept(checked), sent, missing)'
  BY <1>7, <1>14
<1> QED
  BY <1>7, <1>13, <1>15, <1>16 DEF HearingInv

(* A receiver lets the sender go on.                                       *)
LEMMA HearsFlow ==
    ASSUME HearingInv, NEW n \in DOMAIN sent, FlowControl(n)
    PROVE  HearingInv'
<1> DEFINE t == [sent EXCEPT ![n].waits = FALSE]
           v == [sent[n] EXCEPT !.waits = FALSE]
<1>1. TalkTypes /\ OneEach(sent) /\ \A checked \in BOOLEAN : Hears(Kept(checked), sent, missing)
  BY DEF HearingInv
<1>2. sent \in Seq(Said) /\ missing \in Nat /\ DOMAIN sent = 1 .. Len(sent) /\ sent[n] \in Said
  BY <1>1, LenProperties, ElementOfSeq DEF TalkTypes
<1>3. v \in Said /\ v.id = sent[n].id /\ v.start = sent[n].start /\ v.length = sent[n].length
      /\ v.framed = sent[n].framed /\ v.left = sent[n].left
  <2> DEFINE open == FALSE
             x == [sent[n] EXCEPT !.waits = open]
  <2>1. open \in BOOLEAN
    OBVIOUS
  <2> HIDE DEF open
  <2>2. /\ x \in Said /\ x.id = sent[n].id /\ x.start = sent[n].start
        /\ x.length = sent[n].length /\ x.framed = sent[n].framed /\ x.left = sent[n].left
    BY <1>2, <2>1, WaitsChanged
  <2> QED
    BY <2>2 DEF open
<1>4. sent' = t
  BY DEF FlowControl
<1>5. t = [sent EXCEPT ![n] = v]
  BY Zenon
<1> HIDE DEF v
<1>6. t \in Seq(Said) /\ DOMAIN t = DOMAIN sent /\ t[n] = v
      /\ \A j \in DOMAIN sent \ {n} : t[j] = sent[j]
  <2>1. [sent EXCEPT ![n] = v] \in Seq(Said)
    BY <1>2, <1>3, ExceptSeq
  <2>2. /\ DOMAIN [sent EXCEPT ![n] = v] = DOMAIN sent /\ [sent EXCEPT ![n] = v][n] = v
        /\ \A j \in DOMAIN sent \ {n} : [sent EXCEPT ![n] = v][j] = sent[j]
    OBVIOUS
  <2> QED
    BY <1>5, <2>1, <2>2
<1> HIDE DEF t
<1>7. \A j \in DOMAIN sent : Same(sent, j, t)
  BY <1>3, <1>6 DEF Same
<1>8. OneEach(t)
  <2>1. \A j \in DOMAIN sent : FramesOf(t[j]) = FramesOf(sent[j])
    BY <1>7, SameSaid
  <2> QED
    BY <1>1, <1>6, <1>7, <2>1 DEF OneEach, Same
<1>9. PICK byte \in FlowBytes : Emit(Other(sent[n].id), byte, 0, 0, 0)
  BY DEF FlowControl
<1> DEFINE id == Other(sent[n].id)
           f == [time |-> time + 1, id |-> id, byte |-> byte, second |-> 0, chunk |-> <<0, 0>>]
<1>10. byte \in Byte /\ 0 \in Byte /\ byte \div 16 = 3
  <2>1. byte \in \h30 .. \h3F
    BY <1>9, BusAssumption
  <2> QED
    BY <2>1 DEF Byte
<1>11. id \in Ids
  BY DEF Other, Ids
<1>12. /\ f \in Frame /\ time' \in Nat /\ missing' \in Nat /\ capture' \in Seq(Frame)
       /\ \/ /\ missing' = missing
             /\ \A checked : Kept(checked)' = AcceptFrame(checked, Kept(checked), f)
          \/ /\ missing' = missing + 1
             /\ \A checked : Kept(checked)' = Kept(checked)
  <2>1. f = [time |-> time + 1, id |-> id, byte |-> byte, second |-> 0, chunk |-> <<0, 0>>]
        /\ Emit(id, byte, 0, 0, 0) /\ TalkTypes /\ 0 \in Nat
    BY <1>1, <1>9
  <2> HIDE DEF f, id
  <2> QED
    BY <1>10, <1>11, <2>1, Emitted
<1>13. PciType(f) \notin 0 .. 2
  <2>1. PciType(f) = 3
    BY <1>10 DEF PciType
  <2> QED
    BY <2>1
<1> HIDE DEF f, id
<1>14. ASSUME NEW checked \in BOOLEAN PROVE Hears(Kept(checked)', t, missing')
  <2>1. Kept(checked)' = Kept(checked) /\ missing' \in {missing, missing + 1}
    BY <1>12, <1>13, OtherFrame
  <2>2. Hears(Kept(checked), sent, missing)
    BY <1>1
  <2>3. Hears(Kept(checked), t, missing')
    BY <1>2, <1>6, <1>7, <2>1, <2>2, StillHears
  <2> QED
    BY <2>1, <2>3
<1>15. TalkTypes'
  BY <1>4, <1>6, <1>12 DEF TalkTypes
<1> QED
  BY <1>4, <1>8, <1>14, <1>15 DEF HearingInv

(* A side goes on.                                                         *)
LEMMA HearsContinue ==
    ASSUME HearingInv, NEW n \in DOMAIN sent, Continue(n)
    PROVE  HearingInv'
<1> DEFINE t == [sent EXCEPT ![n].left = @ - 1]
           id == sent[n].id
           byte == 32 + (Parts(sent, n) % 16)
           part == Parts(sent, n) + 1
           f == [time |-> time + 1, id |-> id, byte |-> byte, second |-> 0, chunk |-> <<n, part>>]
<1>1. TalkTypes /\ OneEach(sent) /\ \A checked \in BOOLEAN : Hears(Kept(checked), sent, missing)
  BY DEF HearingInv
<1>2. sent \in Seq(Said) /\ missing \in Nat /\ DOMAIN sent = 1 .. Len(sent) /\ sent[n] \in Said
      /\ n \in Nat
  BY <1>1, LenProperties, ElementOfSeq DEF TalkTypes
<1>3. sent' = t /\ sent[n].left > 0
  BY DEF Continue
<1>4. Parts(sent, n) \in Nat \ {0} /\ OneEach(t)
  BY <1>1, <1>3, OneLess
<1>5. Emit(id, byte, 0, n, part)
  <2>1. Emit(sent[n].id, \h20 + (((Parts(sent, n) + 1) - 1) % 16), 0, n, Parts(sent, n) + 1)
    BY Zenon DEF Continue, Parts
  <2>2. (Parts(sent, n) + 1) - 1 = Parts(sent, n)
    BY <1>4
  <2> QED
    BY <2>1, <2>2
<1>6. byte \in Byte /\ 0 \in Byte /\ part \in Nat
  <2>1. \A p \in Nat : 32 + (p % 16) \in Byte
    BY DEF Byte
  <2> QED
    BY <1>4, <2>1 DEF Byte
<1>7. id \in Ids
  BY <1>2, SaidIs
<1>8. /\ f \in Frame /\ time' \in Nat /\ missing' \in Nat /\ capture' \in Seq(Frame)
      /\ \/ /\ missing' = missing
            /\ \A checked : Kept(checked)' = AcceptFrame(checked, Kept(checked), f)
         \/ /\ missing' = missing + 1
            /\ \A checked : Kept(checked)' = Kept(checked)
  <2>1. f = [time |-> time + 1, id |-> id, byte |-> byte, second |-> 0, chunk |-> <<n, part>>]
    OBVIOUS
  <2> HIDE DEF f, id, byte, part
  <2> QED
    BY <1>1, <1>2, <1>5, <1>6, <1>7, <2>1, Emitted
<1>9. f.id = id /\ f.byte = byte /\ f.chunk = <<n, part>>
  OBVIOUS
<1> HIDE DEF f
<1>10. ASSUME NEW checked \in BOOLEAN PROVE Hears(Kept(checked)', t, missing')
  <2> DEFINE r == Kept(checked)
             q == Kept(checked)'
  <2>1. Hears(r, sent, missing)
    BY <1>1
  <2>2. \/ missing' = missing /\ q = AcceptFrame(checked, r, f)
        \/ missing' = missing + 1 /\ q = r
    BY <1>8
  <2> HIDE DEF r, q
  <2>3. Hears(q, t, missing')
    BY <1>1, <1>2, <1>3, <1>8, <1>9, <2>1, <2>2, HearsNext
  <2> QED
    BY <2>3 DEF q
<1> HIDE DEF t
<1>11. TalkTypes'
  BY <1>3, <1>4, <1>8 DEF TalkTypes, OneEach
<1> QED
  BY <1>3, <1>4, <1>10, <1>11 DEF HearingInv

(* A packet goes out.                                                      *)
LEMMA HearsSample == ASSUME HearingInv, Sample PROVE HearingInv'
<1> DEFINE part == InForce
           f == [time |-> time + 1, id |-> "data", byte |-> Packet, second |-> 0,
                 chunk |-> <<part, 0>>]
<1>1. TalkTypes /\ OneEach(sent) /\ \A checked \in BOOLEAN : Hears(Kept(checked), sent, missing)
  BY DEF HearingInv
<1>2. sent' = sent /\ missing \in Nat /\ part \in Nat
  BY <1>1, InForceIs DEF Sample, TalkTypes
<1>3. Packet \in Byte /\ 0 \in Byte /\ "data" \in Ids
  BY DEF Packet, Byte, Ids
<1>4. /\ f \in Frame /\ time' \in Nat /\ missing' \in Nat /\ capture' \in Seq(Frame)
      /\ \/ /\ missing' = missing
            /\ \A checked : Kept(checked)' = AcceptFrame(checked, Kept(checked), f)
         \/ /\ missing' = missing + 1
            /\ \A checked : Kept(checked)' = Kept(checked)
  <2>1. f = [time |-> time + 1, id |-> "data", byte |-> Packet, second |-> 0,
             chunk |-> <<part, 0>>]
        /\ Emit("data", Packet, 0, part, 0) /\ 0 \in Nat
    BY DEF Sample
  <2> HIDE DEF f, part
  <2> QED
    BY <1>1, <1>2, <1>3, <2>1, Emitted
<1>5. PciType(f) \notin 0 .. 2
  <2>1. PciType(f) = 15
    BY DEF PciType, Packet
  <2> QED
    BY <2>1
<1> HIDE DEF f
<1>6. ASSUME NEW checked \in BOOLEAN PROVE Hears(Kept(checked)', sent, missing')
  <2>1. Kept(checked)' = Kept(checked) /\ missing' \in {missing, missing + 1}
    BY <1>4, <1>5, OtherFrame
  <2>2. Hears(Kept(checked), sent, missing)
    BY <1>1
  <2>3. \A j \in DOMAIN sent : Same(sent, j, sent)
    BY DEF Same
  <2>4. Hears(Kept(checked), sent, missing')
    BY <1>2, <2>1, <2>2, <2>3, StillHears
  <2> QED
    BY <2>1, <2>4
<1>7. TalkTypes'
  BY <1>1, <1>2, <1>4 DEF TalkTypes
<1> QED
  BY <1>1, <1>2, <1>6, <1>7 DEF HearingInv

LEMMA InitHearing == ASSUME Init PROVE HearingInv
<1>1. capture = <<>> /\ sent = <<>> /\ time = 0 /\ missing = 0
  BY DEF Init, Silence
<1>2. TalkTypes /\ OneEach(sent)
  <2>1. DOMAIN sent = {}
    BY <1>1
  <2> QED
    BY <1>1, <2>1 DEF TalkTypes, OneEach
<1>3. ASSUME NEW checked PROVE Kept(checked) = Base
  <2>1. Len(capture) = 0
    BY <1>1
  <2>2. Reassembly(checked, capture)[0] = Base
    BY <2>1, ReassemblyIs
  <2> QED
    BY <2>1, <2>2 DEF Kept
<1>4. Hears(Base, sent, missing)
  <2>1. Base \in Acc
    BY DEF Base, Acc, Idle, Buffer
  <2>2. DOMAIN sent = {} /\ DOMAIN Base.messages = {}
    BY <1>1 DEF Base
  <2>3. \A id \in Talkers : Base.active[id] = Idle
    BY DEF Base, Talkers, Ids
  <2> QED
    BY <2>1, <2>2, <2>3 DEF Hears, OnlySpoken, Underway, AllSpoken, AllUnderway
<1> QED
  BY <1>2, <1>3, <1>4 DEF HearingInv

LEMMA HearingStep ==
    ASSUME HearingInv, [Next]_<<rows, lines, analysed, writerVars, conversation>>
    PROVE  HearingInv'
<1>1. CASE AddFrame
  <2>1. CASE \E p \in Payloads : Request(p)
    <3>1. PICK p \in Payloads : Begin(p, 0)
      BY <2>1 DEF Request
    <3> QED
      BY <3>1, HearsBegin
  <2>2. CASE \E p \in Payloads, n \in DOMAIN sent : Answer(p, n)
    <3>1. PICK p \in Payloads, n \in DOMAIN sent : Begin(p, n)
      BY <2>2 DEF Answer
    <3>2. n \in Nat
      BY <3>1, LenProperties DEF HearingInv, TalkTypes
    <3> QED
      BY <3>1, <3>2, HearsBegin
  <2>3. CASE \E n \in DOMAIN sent : FlowControl(n)
    BY <2>3, HearsFlow
  <2>4. CASE \E n \in DOMAIN sent : Continue(n)
    BY <2>4, HearsContinue
  <2>5. CASE Sample
    BY <2>5, HearsSample
  <2> QED
    BY <1>1, <2>1, <2>2, <2>3, <2>4, <2>5 DEF AddFrame, Speak
<1>2. CASE AddRow \/ AddLine \/ WriterStep \/ AddReading \/ AddSession
           \/ UNCHANGED <<rows, lines, analysed, writerVars, conversation>>
  <2>1. capture' = capture /\ sent' = sent /\ time' = time /\ missing' = missing
    BY <1>2 DEF AddRow, AddLine, WriterStep, AddReading, AddSession, conversation
  <2>2. \A checked : Kept(checked)' = Kept(checked)
    BY <2>1 DEF Kept
  <2> QED
    BY <2>1, <2>2 DEF HearingInv, TalkTypes
<1> QED
  BY <1>1, <1>2 DEF Next

LEMMA HearingFollows == ASSUME HearingInv PROVE MessagesWereSent
<1> SUFFICES ASSUME NEW checked \in BOOLEAN
             PROVE  LET messages == Kept(checked).messages
                    IN  /\ missing <= 1 => Range(messages) \subseteq Spoken
                        /\ missing = 0 => Spoken \subseteq Range(messages)
  BY DEF MessagesWereSent, ReassembleSession, ReassembleDids, Reassembled, Kept
<1> DEFINE r == Kept(checked)
<1>1. Hears(r, sent, missing)
  BY DEF HearingInv
<1>2. \A n \in DOMAIN sent : Word(sent, n) = Message(sent[n].start, sent[n].id, ChunksOf(n))
  BY DEF Word, ChunksOf
<1>3. Range(r.messages) = {r.messages[i] : i \in DOMAIN r.messages}
  BY DEF Range
<1> HIDE DEF r
<1>4. missing <= 1 => Range(r.messages) \subseteq Spoken
  <2> SUFFICES ASSUME OnlySpoken(r, sent), NEW i \in DOMAIN r.messages
               PROVE  r.messages[i] \in Spoken
    BY <1>1, <1>3 DEF Hears
  <2>1. PICK n \in DOMAIN sent : sent[n].framed /\ sent[n].left = 0 /\ r.messages[i] = Word(sent, n)
    BY DEF OnlySpoken
  <2> QED
    BY <1>2, <2>1 DEF Spoken
<1>5. missing = 0 => Spoken \subseteq Range(r.messages)
  <2> SUFFICES ASSUME AllSpoken(r, sent), NEW n \in DOMAIN sent, sent[n].framed, sent[n].left = 0
               PROVE  Message(sent[n].start, sent[n].id, ChunksOf(n)) \in Range(r.messages)
    BY <1>1 DEF Hears, Spoken
  <2>1. PICK i \in DOMAIN r.messages : r.messages[i] = Word(sent, n)
    BY DEF AllSpoken
  <2> QED
    BY <1>2, <1>3, <2>1
<1> QED
  BY <1>4, <1>5 DEF r

(* However many messages are said and however their frames interleave, both *)
(* reassemblers of a capture that misses no frame recover exactly those     *)
(* sent to their end, and of one that misses a single frame they make up    *)
(* none and mix no two.                                                    *)
THEOREM MessagesAreRecovered == Spec => []MessagesWereSent
<1>1. Init => HearingInv
  BY InitHearing
<1>2. HearingInv /\ [Next]_<<rows, lines, analysed, writerVars, conversation>> => HearingInv'
  BY HearingStep
<1>3. HearingInv => MessagesWereSent
  BY HearingFollows
<1> QED
  BY <1>1, <1>2, <1>3, PTL DEF Spec
-----------------------------------------------------------------------------
(* The transactions. What was said so far: a request is of a service the   *)
(* extractors know, a response answers a request that came before it.      *)
WordsFit(s) ==
    \A n \in DOMAIN s :
        /\ s[n].id = "request" => s[n].answers = 0 /\ s[n].sid \in SERVICES
        /\ s[n].id = "response" =>
              /\ s[n].sid \in DOMAIN POSITIVE_TO_REQUEST \cup {Negative}
              /\ s[n].answers \in 1 .. n - 1 /\ s[s[n].answers].id = "request"
              /\ ServiceOf(s[n]) = s[s[n].answers].sid

(* Only the last answer to a request may be final.                         *)
LastIsFinal(s) ==
    \A a, b \in DOMAIN s :
        a < b /\ s[b].answers # 0 /\ s[a].answers = s[b].answers => ~Final(s[a])

(* Messages begin one after the other.                                     *)
InTime(s, t) ==
    \A n \in DOMAIN s : /\ s[n].start <= t
                        /\ \A m \in DOMAIN s : n < m => s[n].start < s[m].start

(* Where a frame comes from: it begins a message of s or goes on with one,  *)
(* controls the flow of another or carries a sample.                       *)
Opens(f, s, n) ==
    /\ f.time = s[n].start /\ f.id = s[n].id /\ f.byte = FirstByte(s[n])
    /\ f.chunk = <<n, 1>>

GoesOn(f, s, n) ==
    s[n].framed /\ f.id = s[n].id /\ f.byte \in 32 .. 47 /\ f.chunk[1] = n

ComesFrom(f, s) ==
    \/ \E n \in DOMAIN s : Opens(f, s, n) \/ GoesOn(f, s, n)
    \/ f.id \in Talkers /\ f.byte \in FlowBytes /\ f.chunk[1] = 0
    \/ f.id = "data"

(* The frames c of the messages s, of which m are missed.                  *)
FramesFit(c, s, m) ==
    /\ \A i \in DOMAIN c : ComesFrom(c[i], s)
    /\ m = 0 => \A n \in DOMAIN s : \E i \in DOMAIN c : Opens(c[i], s, n)

TalkInv ==
    /\ HearingInv
    /\ WordsFit(sent) /\ LastIsFinal(sent) /\ InTime(sent, time)
    /\ FramesFit(capture, sent, missing)

(* What t says in place of s is the same but for what is left of it.       *)
Alike(s, t) ==
    \A n \in DOMAIN s :
        /\ n \in DOMAIN t
        /\ t[n].id = s[n].id /\ t[n].sid = s[n].sid /\ t[n].of = s[n].of
        /\ t[n].pending = s[n].pending /\ t[n].length = s[n].length
        /\ t[n].framed = s[n].framed /\ t[n].start = s[n].start
        /\ t[n].answers = s[n].answers /\ t[n].did = s[n].did

LEMMA AlikeIs ==
    ASSUME NEW s, NEW t, Alike(s, t), NEW n \in DOMAIN s
    PROVE  /\ FirstByte(t[n]) = FirstByte(s[n]) /\ ServiceOf(t[n]) = ServiceOf(s[n])
           /\ Final(t[n]) = Final(s[n])
           /\ \A f : Opens(f, t, n) = Opens(f, s, n) /\ GoesOn(f, t, n) = GoesOn(f, s, n)
<1>1. /\ t[n].id = s[n].id /\ t[n].sid = s[n].sid /\ t[n].of = s[n].of
      /\ t[n].pending = s[n].pending /\ t[n].length = s[n].length
      /\ t[n].framed = s[n].framed /\ t[n].start = s[n].start
  BY Zenon DEF Alike
<1>2. FirstByte(t[n]) = FirstByte(s[n])
  BY <1>1, Zenon DEF FirstByte
<1>3. ServiceOf(t[n]) = ServiceOf(s[n])
  BY <1>1, Zenon DEF ServiceOf
<1>4. Final(t[n]) = Final(s[n])
  BY <1>1, Zenon DEF Final
<1>5. \A f : Opens(f, t, n) = Opens(f, s, n) /\ GoesOn(f, t, n) = GoesOn(f, s, n)
  BY <1>1, <1>2, Zenon DEF Opens, GoesOn
<1> QED
  BY <1>2, <1>3, <1>4, <1>5, Zenon

(* A frame more, captured or missed.                                       *)
LEMMA FramesStep ==
    ASSUME NEW c \in Seq(Frame), NEW s, NEW m \in Nat, FramesFit(c, s, m),
           NEW t, Alike(s, t), NEW f \in Frame, ComesFrom(f, t),
           \A n \in DOMAIN t \ DOMAIN s : Opens(f, t, n),
           NEW d, NEW k, (d = Append(c, f) /\ k = m) \/ (d = c /\ k = m + 1)
    PROVE  FramesFit(d, t, k)
<1>1. \A i \in DOMAIN c : ComesFrom(c[i], t)
  <2> SUFFICES ASSUME NEW i \in DOMAIN c PROVE ComesFrom(c[i], t)
    OBVIOUS
  <2>1. ComesFrom(c[i], s)
    BY DEF FramesFit
  <2>2. CASE \E n \in DOMAIN s : Opens(c[i], s, n) \/ GoesOn(c[i], s, n)
    <3>1. PICK n \in DOMAIN s : Opens(c[i], s, n) \/ GoesOn(c[i], s, n)
      BY <2>2
    <3>2. Opens(c[i], t, n) \/ GoesOn(c[i], t, n)
      BY <3>1, AlikeIs, Zenon
    <3> QED
      BY <3>2, Zenon DEF Alike, ComesFrom
  <2> QED
    BY <2>1, <2>2, Zenon DEF ComesFrom
<1>2. CASE d = c /\ k = m + 1
  <2>1. k # 0
    BY <1>2
  <2> QED
    BY <1>1, <1>2, <2>1 DEF FramesFit
<1>3. CASE d = Append(c, f) /\ k = m
  <2>1. /\ DOMAIN c = 1 .. Len(c) /\ DOMAIN d = 1 .. Len(c) + 1 /\ Len(c) \in Nat
        /\ \A i \in 1 .. Len(c) : d[i] = c[i]
        /\ d[Len(c) + 1] = f
    BY <1>3, AppendProperties, LenProperties
  <2>2. \A i \in DOMAIN d : ComesFrom(d[i], t)
    <3>1. \A i \in DOMAIN d : i \in DOMAIN c \/ i = Len(c) + 1
      BY <2>1
    <3> QED
      BY <1>1, <2>1, <3>1
  <2>3. ASSUME k = 0, NEW n \in DOMAIN t PROVE \E i \in DOMAIN d : Opens(d[i], t, n)
    <3>1. CASE n \in DOMAIN s
      <4>1. PICK i \in DOMAIN c : Opens(c[i], s, n)
        BY <1>3, <2>3, <3>1 DEF FramesFit
      <4>2. Opens(c[i], t, n)
        BY <3>1, <4>1, AlikeIs, Zenon
      <4>3. i \in DOMAIN d /\ d[i] = c[i]
        BY <2>1
      <4> QED
        BY <4>2, <4>3
    <3>2. CASE n \notin DOMAIN s
      <4>1. Len(c) + 1 \in DOMAIN d /\ Opens(d[Len(c) + 1], t, n)
        BY <2>1, <3>2
      <4> QED
        BY <4>1
    <3> QED
      BY <3>1, <3>2
  <2> QED
    BY <2>2, <2>3 DEF FramesFit
<1> QED
  BY <1>2, <1>3

(* Nothing new was said.                                                   *)
LEMMA WordsRepeated ==
    ASSUME NEW s \in Seq(Said), NEW t, DOMAIN t = DOMAIN s, Alike(s, t), NEW x \in Nat,
           WordsFit(s), LastIsFinal(s), InTime(s, x)
    PROVE  WordsFit(t) /\ LastIsFinal(t) /\ InTime(t, x + 1)
<1>0. DOMAIN s = 1 .. Len(s) /\ Len(s) \in Nat
  BY LenProperties
<1>1. \A n \in DOMAIN s :
         /\ t[n].id = s[n].id /\ t[n].sid = s[n].sid /\ t[n].start = s[n].start
         /\ t[n].answers = s[n].answers
         /\ ServiceOf(t[n]) = ServiceOf(s[n]) /\ Final(t[n]) = Final(s[n])
  <2> SUFFICES ASSUME NEW n \in DOMAIN s
               PROVE  /\ t[n].id = s[n].id /\ t[n].sid = s[n].sid /\ t[n].start = s[n].start
                      /\ t[n].answers = s[n].answers
                      /\ ServiceOf(t[n]) = ServiceOf(s[n]) /\ Final(t[n]) = Final(s[n])
    OBVIOUS
  <2>1. ServiceOf(t[n]) = ServiceOf(s[n]) /\ Final(t[n]) = Final(s[n])
    BY AlikeIs, Zenon
  <2>2. /\ t[n].id = s[n].id /\ t[n].sid = s[n].sid /\ t[n].start = s[n].start
        /\ t[n].answers = s[n].answers
    BY Zenon DEF Alike
  <2> QED
    BY <2>1, <2>2, Zenon
<1>2. WordsFit(t)
  <2> SUFFICES ASSUME NEW n \in DOMAIN s
               PROVE  /\ t[n].id = "request" => t[n].answers = 0 /\ t[n].sid \in SERVICES
                      /\ t[n].id = "response" =>
                            /\ t[n].sid \in DOMAIN POSITIVE_TO_REQUEST \cup {Negative}
                            /\ t[n].answers \in 1 .. n - 1 /\ t[t[n].answers].id = "request"
                            /\ ServiceOf(t[n]) = t[t[n].answers].sid
    BY Zenon DEF WordsFit
  <2>1. CASE s[n].id = "request"
    BY <1>1, <2>1 DEF WordsFit
  <2>2. CASE s[n].id = "response"
    <3>1. /\ s[n].sid \in DOMAIN POSITIVE_TO_REQUEST \cup {Negative}
          /\ s[n].answers \in 1 .. n - 1 /\ s[s[n].answers].id = "request"
          /\ ServiceOf(s[n]) = s[s[n].answers].sid
      BY <2>2, Zenon DEF WordsFit
    <3>2. s[n].answers \in DOMAIN s
      BY <1>0, <3>1
    <3>3. t[n].id # "request"
      BY <1>1, <2>2
    <3> QED
      BY <1>1, <3>1, <3>2, <3>3, Zenon
  <2> QED
    BY <1>1, <2>1, <2>2, Zenon
<1>3. LastIsFinal(t)
  BY <1>1, Zenon DEF LastIsFinal
<1>4. InTime(t, x + 1)
  <2>1. \A n \in DOMAIN s : s[n].start \in Nat /\ s[n].start <= x
    BY ElementOfSeq, SaidIs, <1>0 DEF InTime
  <2>2. \A n \in DOMAIN s : s[n].start <= x + 1
    BY <2>1
  <2>3. \A n, m \in DOMAIN s : n < m => s[n].start < s[m].start
    BY DEF InTime
  <2> QED
    BY <1>1, <2>2, <2>3, Zenon DEF InTime
<1> QED
  BY <1>2, <1>3, <1>4


LEMMA WordAdded ==
    ASSUME NEW s \in Seq(Said), NEW w \in Said, NEW x \in Nat,
           WordsFit(s), LastIsFinal(s), InTime(s, x), w.start = x + 1,
           w.id = "request" => w.answers = 0 /\ w.sid \in SERVICES,
           w.id = "response" =>
               /\ w.sid \in DOMAIN POSITIVE_TO_REQUEST \cup {Negative}
               /\ w.answers \in DOMAIN s /\ s[w.answers].id = "request"
               /\ ServiceOf(w) = s[w.answers].sid,
           w.answers # 0 => \A a \in DOMAIN s : s[a].answers = w.answers => ~Final(s[a])
    PROVE  LET t == Append(s, w)
           IN  /\ WordsFit(t) /\ LastIsFinal(t) /\ InTime(t, x + 1)
               /\ Alike(s, t) /\ DOMAIN t \ DOMAIN s = {Len(s) + 1} /\ t[Len(s) + 1] = w
<1> DEFINE t == Append(s, w)
           N == Len(s) + 1
<1>1. /\ DOMAIN s = 1 .. Len(s) /\ DOMAIN t = 1 .. N /\ Len(s) \in Nat /\ t \in Seq(Said)
      /\ \A n \in 1 .. Len(s) : t[n] = s[n]
      /\ t[N] = w
  BY AppendProperties, LenProperties
<1>2. \A n \in DOMAIN t : n \in DOMAIN s \/ n = N
  BY <1>1
<1>3. N \notin DOMAIN s /\ DOMAIN t \ DOMAIN s = {N}
  BY <1>1
<1>4. \A n \in DOMAIN s : t[n] = s[n] /\ n \in DOMAIN t /\ n \in Nat /\ n < N
  BY <1>1
<1>5. \A n \in DOMAIN s : s[n] \in Said
  BY <1>1, ElementOfSeq
<1> HIDE DEF t, N
<1>6. Alike(s, t)
  BY <1>4, Zenon DEF Alike
<1>7. WordsFit(t)
  <2> SUFFICES ASSUME NEW n \in DOMAIN t
               PROVE  /\ t[n].id = "request" => t[n].answers = 0 /\ t[n].sid \in SERVICES
                      /\ t[n].id = "response" =>
                            /\ t[n].sid \in DOMAIN POSITIVE_TO_REQUEST \cup {Negative}
                            /\ t[n].answers \in 1 .. n - 1 /\ t[t[n].answers].id = "request"
                            /\ ServiceOf(t[n]) = t[t[n].answers].sid
    BY Zenon DEF WordsFit
  <2>1. CASE n \in DOMAIN s
    <3>1. CASE s[n].id = "request"
      <4>1. s[n].answers = 0 /\ s[n].sid \in SERVICES
        BY <2>1, <3>1, Zenon DEF WordsFit
      <4>2. t[n] = s[n] /\ s[n].id # "response"
        BY <1>4, <2>1, <3>1
      <4> QED
        BY <4>1, <4>2, Zenon
    <3>2. CASE s[n].id = "response"
      <4>1. /\ s[n].sid \in DOMAIN POSITIVE_TO_REQUEST \cup {Negative}
            /\ s[n].answers \in 1 .. n - 1 /\ s[s[n].answers].id = "request"
            /\ ServiceOf(s[n]) = s[s[n].answers].sid
        BY <2>1, <3>2, Zenon DEF WordsFit
      <4>2. s[n].answers \in DOMAIN s
        BY <1>1, <2>1, <4>1
      <4>3. t[n] = s[n] /\ t[s[n].answers] = s[s[n].answers] /\ s[n].id # "request"
        BY <1>4, <2>1, <3>2, <4>2
      <4> QED
        BY <4>1, <4>3, Zenon
    <3>3. CASE s[n].id \notin Talkers
      BY <1>5, <2>1, <3>3, SaidIs
    <3> QED
      BY <3>1, <3>2, <3>3 DEF Talkers
  <2>2. CASE n = N
    <3>1. CASE w.id = "request"
      <4>1. w.id # "response"
        BY <3>1
      <4> QED
        BY <1>1, <2>2, <3>1, <4>1, Zenon
    <3>2. CASE w.id = "response"
      <4>1. /\ t[w.answers] = s[w.answers] /\ w.answers \in 1 .. N - 1
            /\ w.id # "request"
        BY <1>1, <1>4, <3>2 DEF N
      <4> QED
        BY <1>1, <2>2, <3>2, <4>1, Zenon
    <3>3. CASE w.id \notin Talkers
      BY <3>3, SaidIs
    <3> QED
      BY <3>1, <3>2, <3>3 DEF Talkers
  <2> QED
    BY <1>2, <2>1, <2>2
<1>8. LastIsFinal(t)
  <2> SUFFICES ASSUME NEW a \in DOMAIN t, NEW b \in DOMAIN t,
                      a < b, t[b].answers # 0, t[a].answers = t[b].answers
               PROVE  ~Final(t[a])
    BY Zenon DEF LastIsFinal
  <2>1. a \in DOMAIN s
    BY <1>1, <1>2, <1>4
  <2>2. CASE b \in DOMAIN s
    <3>1. t[a] = s[a] /\ t[b] = s[b]
      BY <1>4, <2>1, <2>2
    <3> QED
      BY <2>1, <2>2, <3>1 DEF LastIsFinal
  <2>3. CASE b = N
    <3>1. t[a] = s[a] /\ t[b] = w
      BY <1>1, <1>4, <2>1, <2>3
    <3> QED
      BY <2>1, <3>1
  <2> QED
    BY <1>2, <2>2, <2>3
<1>9. InTime(t, x + 1)
  <2>1. \A n \in DOMAIN s : s[n].start \in Nat /\ s[n].start <= x
    BY <1>5, SaidIs DEF InTime
  <2>2. \A n \in DOMAIN s : t[n] = s[n] /\ s[n].start <= x + 1 /\ s[n].start < w.start
    BY <1>4, <2>1
  <2>3. t[N].start <= x + 1 /\ t[N] = w
    BY <1>1
  <2>4. \A n \in DOMAIN t : t[n].start <= x + 1
    BY <1>2, <2>2, <2>3
  <2>5. ASSUME NEW n \in DOMAIN t, NEW m \in DOMAIN t, n < m PROVE t[n].start < t[m].start
    <3>1. n \in DOMAIN s
      BY <1>1, <1>2, <1>4, <2>5
    <3>2. CASE m \in DOMAIN s
      BY <2>2, <2>5, <3>1, <3>2 DEF InTime
    <3>3. CASE m = N
      BY <2>2, <2>3, <3>1, <3>3
    <3> QED
      BY <1>2, <3>2, <3>3
  <2> QED
    BY <2>4, <2>5, Zenon DEF InTime
<1> QED
  BY <1>1, <1>3, <1>6, <1>7, <1>8, <1>9 DEF t, N

(* The frame that is emitted.                                              *)
LEMMA FrameEmitted ==
    ASSUME TalkTypes, NEW id \in Ids, NEW byte \in Byte, NEW second \in Byte,
           NEW message \in Nat, NEW part \in Nat, Emit(id, byte, second, message, part)
    PROVE  LET f == [time |-> time + 1, id |-> id, byte |-> byte, second |-> second,
                     chunk |-> <<message, part>>]
           IN  /\ f \in Frame /\ time' = time + 1
               /\ \/ capture' = Append(capture, f) /\ missing' = missing
                  \/ capture' = capture /\ missing' = missing + 1
<1> DEFINE f == [time |-> time + 1, id |-> id, byte |-> byte, second |-> second,
                 chunk |-> <<message, part>>]
<1>1. time' = time + 1
  BY DEF Emit
<1>2. f \in Frame
  BY DEF TalkTypes, Frame, Chunk
<1>3. \/ capture' = Append(capture, f) /\ missing' = missing
      \/ capture' = capture /\ missing' = missing + 1
  BY <1>1 DEF Emit
<1> QED
  BY <1>1, <1>2, <1>3

LEMMA TalkIs ==
    ASSUME TalkInv
    PROVE  /\ HearingInv /\ TalkTypes /\ sent \in Seq(Said) /\ capture \in Seq(Frame)
           /\ time \in Nat /\ missing \in Nat
           /\ DOMAIN sent = 1 .. Len(sent) /\ Len(sent) \in Nat
           /\ \A n \in DOMAIN sent : sent[n] \in Said /\ n \in Nat
           /\ WordsFit(sent) /\ LastIsFinal(sent) /\ InTime(sent, time)
           /\ FramesFit(capture, sent, missing)
<1>1. HearingInv /\ TalkTypes /\ sent \in Seq(Said) /\ capture \in Seq(Frame)
      /\ time \in Nat /\ missing \in Nat
  BY DEF TalkInv, HearingInv, TalkTypes
<1>2. DOMAIN sent = 1 .. Len(sent) /\ Len(sent) \in Nat
  BY <1>1, LenProperties
<1>3. \A n \in DOMAIN sent : sent[n] \in Said /\ n \in Nat
  BY <1>1, <1>2, ElementOfSeq
<1> QED
  BY <1>1, <1>2, <1>3 DEF TalkInv

(* A side begins a message.                                                *)
LEMMA TalkBegin ==
    ASSUME TalkInv, HearingInv', NEW p \in Payloads, NEW answered \in Nat,
           Begin(p, answered),
           p.id = "request" => answered = 0,
           p.id = "response" =>
               /\ answered \in DOMAIN sent /\ sent[answered].id = "request"
               /\ ServiceOf(p) = sent[answered].sid
               /\ \A a \in AnswersOf(answered) : ~Final(sent[a])
    PROVE  TalkInv'
<1> DEFINE N == Len(sent) + 1
           left == FramesOf(p) - 1
           waits == FramesOf(p) > 1
           w == [id |-> p.id, sid |-> p.sid, of |-> p.of, pending |-> p.pending,
                 did |-> p.did, length |-> p.length, framed |-> p.framed,
                 start |-> time + 1, answers |-> answered, left |-> left, waits |-> waits]
           f == [time |-> time + 1, id |-> p.id, byte |-> FirstByte(p),
                 second |-> p.length % 256, chunk |-> <<N, 1>>]
<1>1. /\ HearingInv /\ TalkTypes /\ sent \in Seq(Said) /\ capture \in Seq(Frame)
      /\ time \in Nat /\ missing \in Nat
      /\ DOMAIN sent = 1 .. Len(sent) /\ Len(sent) \in Nat
      /\ WordsFit(sent) /\ LastIsFinal(sent) /\ InTime(sent, time)
      /\ FramesFit(capture, sent, missing)
  BY TalkIs
<1>2. /\ FirstByte(p) \in Byte /\ p.length % 256 \in Byte /\ p.id \in Talkers
  BY BytesFit
<1>3. sent' = Append(sent, w) /\ Emit(p.id, FirstByte(p), p.length % 256, N, 1)
  BY DEF Begin
<1>4. /\ w.id = p.id /\ w.sid = p.sid /\ w.of = p.of /\ w.pending = p.pending
      /\ w.length = p.length /\ w.framed = p.framed /\ w.start = time + 1
      /\ w.answers = answered
  OBVIOUS
<1>5. w \in Said
  <2>1. sent' \in Seq(Said) /\ Len(sent') = N /\ sent'[N] = w
    <3>1. sent' \in Seq(Said)
      BY DEF HearingInv, TalkTypes
    <3> QED
      BY <1>1, <1>3, <3>1, AppendProperties
  <2> HIDE DEF w
  <2>2. N \in 1 .. Len(sent')
    BY <1>1, <2>1
  <2> QED
    BY <2>1, <2>2, ElementOfSeq
<1>6. /\ f \in Frame /\ time' = time + 1
      /\ \/ capture' = Append(capture, f) /\ missing' = missing
         \/ capture' = capture /\ missing' = missing + 1
  <2>1. p.id \in Ids /\ N \in Nat /\ 1 \in Nat
    BY <1>1, <1>2 DEF Talkers, Ids
  <2> QED
    BY <1>1, <1>2, <1>3, <2>1, FrameEmitted
<1>7. f.time = time + 1 /\ f.id = p.id /\ f.byte = FirstByte(p) /\ f.chunk = <<N, 1>>
  OBVIOUS
<1> HIDE DEF w, f
<1>8. FirstByte(w) = FirstByte(p) /\ ServiceOf(w) = ServiceOf(p)
  BY <1>4, Zenon DEF FirstByte, ServiceOf
<1>9. /\ w.id = "request" => w.answers = 0 /\ w.sid \in SERVICES
      /\ w.id = "response" =>
           /\ w.sid \in DOMAIN POSITIVE_TO_REQUEST \cup {Negative}
           /\ w.answers \in DOMAIN sent /\ sent[w.answers].id = "request"
           /\ ServiceOf(w) = sent[w.answers].sid
  <2>1. IF p.id = "request" THEN p.sid \in SERVICES
                           ELSE p.sid \in DOMAIN POSITIVE_TO_REQUEST \cup {Negative}
    BY TrafficAssumption, Zenon
  <2>2. CASE p.id = "request"
    BY <1>4, <2>1, <2>2
  <2>3. CASE p.id = "response"
    <3>1. p.id # "request"
      BY <2>3
    <3> QED
      BY <1>4, <1>8, <2>1, <2>3, <3>1, Zenon
  <2> QED
    BY <1>2, <2>2, <2>3 DEF Talkers
<1>10. ASSUME w.answers # 0, NEW a \in DOMAIN sent, sent[a].answers = w.answers
       PROVE  ~Final(sent[a])
  <2>1. p.id = "response"
    BY <1>2, <1>4, <1>10 DEF Talkers
  <2>2. a \in AnswersOf(answered)
    BY <1>4, <1>10 DEF AnswersOf
  <2> QED
    BY <2>1, <2>2
<1> DEFINE t == Append(sent, w)
<1>11. /\ WordsFit(t) /\ LastIsFinal(t) /\ InTime(t, time + 1)
       /\ Alike(sent, t) /\ DOMAIN t \ DOMAIN sent = {N} /\ t[N] = w
  BY <1>1, <1>4, <1>5, <1>9, <1>10, WordAdded
<1>12. Opens(f, t, N)
  BY <1>4, <1>7, <1>8, <1>11 DEF Opens
<1>13. FramesFit(capture', t, missing')
  <2>1. ComesFrom(f, t) /\ \A n \in DOMAIN t \ DOMAIN sent : Opens(f, t, n)
    <3>1. N \in DOMAIN t
      BY <1>11
    <3> QED
      BY <1>11, <1>12, <3>1 DEF ComesFrom
  <2> HIDE DEF t
  <2> QED
    BY <1>1, <1>6, <1>11, <2>1, FramesStep
<1> QED
  BY <1>3, <1>6, <1>11, <1>13 DEF TalkInv

(* What is said goes on.                                                   *)
LEMMA TalkGoesOn ==
    ASSUME TalkInv, HearingInv', Alike(sent, sent'), DOMAIN sent' = DOMAIN sent,
           time' = time + 1, NEW f \in Frame, ComesFrom(f, sent),
           \/ capture' = Append(capture, f) /\ missing' = missing
           \/ capture' = capture /\ missing' = missing + 1
    PROVE  TalkInv'
<1>1. /\ sent \in Seq(Said) /\ capture \in Seq(Frame) /\ time \in Nat /\ missing \in Nat
      /\ WordsFit(sent) /\ LastIsFinal(sent) /\ InTime(sent, time)
      /\ FramesFit(capture, sent, missing)
  BY TalkIs
<1>2. WordsFit(sent') /\ LastIsFinal(sent') /\ InTime(sent', time + 1)
  BY <1>1, WordsRepeated
<1>3. ComesFrom(f, sent')
  <2>1. CASE \E n \in DOMAIN sent : Opens(f, sent, n) \/ GoesOn(f, sent, n)
    <3>1. PICK n \in DOMAIN sent : Opens(f, sent, n) \/ GoesOn(f, sent, n)
      BY <2>1
    <3>2. Opens(f, sent', n) \/ GoesOn(f, sent', n)
      BY <3>1, AlikeIs, Zenon
    <3> QED
      BY <3>2, Zenon DEF ComesFrom
  <2> QED
    BY <2>1, Zenon DEF ComesFrom
<1>4. FramesFit(capture', sent', missing')
  <2>1. DOMAIN sent' \ DOMAIN sent = {}
    OBVIOUS
  <2> QED
    BY <1>1, <1>3, <2>1, FramesStep
<1> QED
  BY <1>2, <1>4 DEF TalkInv

LEMMA TalkFlow ==
    ASSUME TalkInv, HearingInv', NEW n \in DOMAIN sent, FlowControl(n)
    PROVE  TalkInv'
<1>1. /\ HearingInv /\ TalkTypes /\ \A k \in DOMAIN sent : sent[k] \in Said
  BY TalkIs
<1>2. PICK byte \in FlowBytes : Emit(Other(sent[n].id), byte, 0, 0, 0)
  BY DEF FlowControl
<1> DEFINE id == Other(sent[n].id)
           f == [time |-> time + 1, id |-> id, byte |-> byte, second |-> 0, chunk |-> <<0, 0>>]
<1>3. id \in Talkers /\ id \in Ids /\ byte \in Byte /\ 0 \in Byte
  <2>1. byte \in \h30 .. \h3F
    BY BusAssumption
  <2> QED
    BY <2>1 DEF Other, Talkers, Ids, Byte
<1>4. /\ f \in Frame /\ time' = time + 1
      /\ \/ capture' = Append(capture, f) /\ missing' = missing
         \/ capture' = capture /\ missing' = missing + 1
  <2> HIDE DEF id
  <2> QED
    BY <1>1, <1>2, <1>3, FrameEmitted DEF id
<1>5. ComesFrom(f, sent)
  <2>1. f.id = id /\ f.byte = byte /\ f.chunk[1] = 0
    OBVIOUS
  <2> HIDE DEF f, id
  <2> QED
    BY <1>3, <2>1 DEF ComesFrom
<1>6. DOMAIN sent' = DOMAIN sent /\ Alike(sent, sent')
  <2>1. sent' = [sent EXCEPT ![n].waits = FALSE]
    BY DEF FlowControl
  <2>2. ASSUME NEW k \in DOMAIN sent
        PROVE  /\ sent'[k].id = sent[k].id /\ sent'[k].sid = sent[k].sid
               /\ sent'[k].of = sent[k].of
               /\ sent'[k].pending = sent[k].pending /\ sent'[k].length = sent[k].length
               /\ sent'[k].framed = sent[k].framed /\ sent'[k].start = sent[k].start
               /\ sent'[k].answers = sent[k].answers /\ sent'[k].did = sent[k].did
    BY <1>1, <2>1 DEF Said
  <2> QED
    BY <2>1, <2>2 DEF Alike
<1> HIDE DEF f
<1> QED
  BY <1>4, <1>5, <1>6, TalkGoesOn

LEMMA TalkContinue ==
    ASSUME TalkInv, HearingInv', NEW n \in DOMAIN sent, Continue(n)
    PROVE  TalkInv'
<1> DEFINE part == FramesOf(sent[n]) - sent[n].left + 1
           byte == \h20 + ((part - 1) % 16)
           f == [time |-> time + 1, id |-> sent[n].id, byte |-> byte, second |-> 0,
                 chunk |-> <<n, part>>]
<1>1. /\ HearingInv /\ TalkTypes /\ \A k \in DOMAIN sent : sent[k] \in Said /\ k \in Nat
  BY TalkIs
<1>2. sent' = [sent EXCEPT ![n].left = @ - 1] /\ sent[n].left > 0
      /\ Emit(sent[n].id, byte, 0, n, part)
  BY DEF Continue
<1>3. /\ FramesOf(sent[n]) \in Nat \ {0} /\ sent[n].left \in Nat
      /\ sent[n].left < FramesOf(sent[n]) /\ sent[n].id \in Ids
  BY <1>1, FramesAre, SaidIs DEF HearingInv, OneEach
<1>4. sent[n].framed
  <2>1. FramesOf(sent[n]) > 1
    BY <1>2, <1>3
  <2> QED
    BY <1>1, <2>1, FramesAre
<1>5. part \in Nat
  BY <1>3
<1>6. byte \in 32 .. 47
  <2>1. \A k \in Nat : 32 + ((k - 1) % 16) \in 32 .. 47
    OBVIOUS
  <2> HIDE DEF part
  <2> QED
    BY <1>5, <2>1
<1>7. byte \in Byte /\ 0 \in Byte
  BY <1>6 DEF Byte
<1>8. f.id = sent[n].id /\ f.byte = byte /\ f.chunk[1] = n
  OBVIOUS
<1>9. /\ f \in Frame /\ time' = time + 1
      /\ \/ capture' = Append(capture, f) /\ missing' = missing
         \/ capture' = capture /\ missing' = missing + 1
  <2> HIDE DEF part, byte
  <2> QED
    BY <1>1, <1>2, <1>3, <1>5, <1>7, FrameEmitted
<1> HIDE DEF f, byte
<1>10. ComesFrom(f, sent)
  BY <1>4, <1>6, <1>8 DEF ComesFrom, GoesOn
<1>11. DOMAIN sent' = DOMAIN sent /\ Alike(sent, sent')
  <2>1. ASSUME NEW k \in DOMAIN sent
        PROVE  /\ sent'[k].id = sent[k].id /\ sent'[k].sid = sent[k].sid
               /\ sent'[k].of = sent[k].of
               /\ sent'[k].pending = sent[k].pending /\ sent'[k].length = sent[k].length
               /\ sent'[k].framed = sent[k].framed /\ sent'[k].start = sent[k].start
               /\ sent'[k].answers = sent[k].answers /\ sent'[k].did = sent[k].did
    BY <1>1, <1>2 DEF Said
  <2> QED
    BY <1>2, <2>1 DEF Alike
<1> QED
  BY <1>9, <1>10, <1>11, TalkGoesOn

LEMMA TalkSample ==
    ASSUME TalkInv, HearingInv', Sample
    PROVE  TalkInv'
<1> DEFINE part == InForce
           f == [time |-> time + 1, id |-> "data", byte |-> Packet, second |-> 0,
                 chunk |-> <<part, 0>>]
<1>1. TalkTypes /\ HearingInv
  BY TalkIs
<1>2. sent' = sent /\ part \in Nat /\ Packet \in Byte /\ 0 \in Byte /\ "data" \in Ids
  BY <1>1, InForceIs DEF Sample, Packet, Byte, Ids
<1>3. /\ f \in Frame /\ time' = time + 1
      /\ \/ capture' = Append(capture, f) /\ missing' = missing
         \/ capture' = capture /\ missing' = missing + 1
  <2>1. Emit("data", Packet, 0, part, 0)
    BY DEF Sample
  <2> HIDE DEF part
  <2> QED
    BY <1>1, <1>2, <2>1, FrameEmitted
<1>4. ComesFrom(f, sent)
  BY DEF ComesFrom
<1>5. Alike(sent, sent') /\ DOMAIN sent' = DOMAIN sent
  BY <1>2 DEF Alike
<1> HIDE DEF f
<1> QED
  BY <1>3, <1>4, <1>5, TalkGoesOn

LEMMA TalkStep ==
    ASSUME TalkInv, [Next]_<<rows, lines, analysed, writerVars, conversation>>
    PROVE  TalkInv'
<1>1. HearingInv'
  BY HearingStep DEF TalkInv
<1>2. CASE AddFrame
  <2>1. CASE \E p \in Payloads : Request(p)
    <3>1. PICK p \in Payloads : p.id = "request" /\ Begin(p, 0)
      BY <2>1 DEF Request
    <3>2. p.id # "response" /\ 0 \in Nat
      BY <3>1
    <3> QED
      BY <1>1, <3>1, <3>2, TalkBegin
  <2>2. CASE \E p \in Payloads, n \in DOMAIN sent : Answer(p, n)
    <3>1. PICK p \in Payloads, n \in DOMAIN sent : Answer(p, n)
      BY <2>2
    <3>2. p.id # "request" /\ n \in Nat
      BY <3>1, TalkIs DEF Answer
    <3> QED
      BY <1>1, <3>1, <3>2, TalkBegin DEF Answer
  <2>3. CASE \E n \in DOMAIN sent : FlowControl(n)
    BY <1>1, <2>3, TalkFlow
  <2>4. CASE \E n \in DOMAIN sent : Continue(n)
    BY <1>1, <2>4, TalkContinue
  <2>5. CASE Sample
    BY <1>1, <2>5, TalkSample
  <2> QED
    BY <1>2, <2>1, <2>2, <2>3, <2>4, <2>5 DEF AddFrame, Speak
<1>3. CASE AddRow \/ AddLine \/ WriterStep \/ AddReading \/ AddSession
           \/ UNCHANGED <<rows, lines, analysed, writerVars, conversation>>
  <2>1. capture' = capture /\ sent' = sent /\ time' = time /\ missing' = missing
    BY <1>3 DEF AddRow, AddLine, WriterStep, AddReading, AddSession, conversation
  <2> QED
    BY <1>1, <2>1 DEF TalkInv
<1> QED
  BY <1>2, <1>3 DEF Next

LEMMA InitTalk == ASSUME Init PROVE TalkInv
<1>1. capture = <<>> /\ sent = <<>>
  BY DEF Init, Silence
<1>2. DOMAIN capture = {} /\ DOMAIN sent = {}
  BY <1>1
<1> QED
  BY <1>2, InitHearing DEF TalkInv, WordsFit, LastIsFinal, InTime, FramesFit

(* The bytes of the tables. What continues a message or controls a flow may *)
(* be a service, but no response.                                          *)
LEMMA ServicesAre ==
    /\ DOMAIN POSITIVE_TO_REQUEST =
          {68, 73, 82, 88, 129} \cup {s + 64 : s \in SERVICES}
    /\ \A s \in SERVICES : s \in Byte
    /\ \A s \in SERVICES : s \notin DOMAIN POSITIVE_TO_REQUEST \cup {Negative}
    /\ \A b \in 32 .. 63 : Recognized(b) => b \in SERVICES
<1>1. DOMAIN SPECIAL_POSITIVE = {68, 73, 82, 88, 129}
  BY DEF SPECIAL_POSITIVE
<1>2. DOMAIN POSITIVE_TO_REQUEST =
          {68, 73, 82, 88, 129} \cup {s + 64 : s \in SERVICES}
  BY <1>1 DEF POSITIVE_TO_REQUEST
<1>3. \A s \in SERVICES : s \in 4 .. 170 /\ (s < 63 \/ s \in {133, 169, 170})
  BY DEF SERVICES
<1>4. \A s \in SERVICES : s \in Byte
  BY <1>3 DEF Byte
<1>5. ASSUME NEW s \in SERVICES PROVE s \notin DOMAIN POSITIVE_TO_REQUEST \cup {Negative}
  <2>1. s \notin {68, 73, 82, 88, 129, 127}
    BY <1>3
  <2>2. \A u \in SERVICES : s # u + 64
    BY DEF SERVICES
  <2> QED
    BY <1>2, <2>1, <2>2 DEF Negative
<1>6. ASSUME NEW b \in 32 .. 63, Recognized(b) PROVE b \in SERVICES
  <2>1. b \in SERVICES \/ b \in {68, 73, 82, 88, 129} \/ b = 127
        \/ \E u \in SERVICES : b = u + 64
    BY <1>2, <1>6 DEF Recognized, Negative
  <2>2. b \notin {68, 73, 82, 88, 129, 127}
    OBVIOUS
  <2>3. \A u \in SERVICES : b # u + 64
    BY <1>3
  <2> QED
    BY <2>1, <2>2, <2>3
<1> QED
  BY <1>2, <1>4, <1>5, <1>6

(* The event that message n makes, whichever way it was framed.            *)
EventOf(n) == Classified(sent[n].start, sent[n].id, sent[n].sid, n)

LEMMA EventIs ==
    ASSUME TalkInv, NEW n \in DOMAIN sent
    PROVE  /\ EventOf(n).time = sent[n].start /\ EventOf(n).id = sent[n].id
           /\ EventOf(n).message = n
           /\ EventOf(n).direction = Direction(sent[n].sid)
           /\ Direction(sent[n].sid) = "request" <=> sent[n].id = "request"
           /\ EventOf(n).service = ServiceOf(sent[n])
           /\ EventOf(n).pending <=> ~Final(sent[n])
           /\ sent[n].sid \in SERVICES \cup DOMAIN POSITIVE_TO_REQUEST \cup {Negative}
           /\ Recognized(sent[n].sid)
<1>1. sent[n].id \in Talkers /\ WordsFit(sent)
  BY TalkIs, SaidIs
<1>2. /\ EventOf(n).time = sent[n].start /\ EventOf(n).id = sent[n].id
      /\ EventOf(n).message = n
      /\ EventOf(n).direction = Direction(sent[n].sid)
      /\ EventOf(n).service =
            IF sent[n].sid = Negative THEN sent[n].of
            ELSE IF sent[n].sid \in SERVICES THEN sent[n].sid
                 ELSE POSITIVE_TO_REQUEST[sent[n].sid]
      /\ EventOf(n).pending <=> (sent[n].sid = Negative /\ sent[n].pending)
  BY DEF EventOf, Classified
<1>3. EventOf(n).pending <=> ~Final(sent[n])
  BY <1>2 DEF Final
<1>4. CASE sent[n].id = "request"
  <2>1. sent[n].sid \in SERVICES
    BY <1>1, <1>4 DEF WordsFit
  <2>2. sent[n].sid # Negative
    BY <2>1, ServicesAre
  <2>3. ServiceOf(sent[n]) = sent[n].sid
    BY <1>4, <2>2 DEF ServiceOf
  <2>4. Direction(sent[n].sid) = "request"
    BY <2>1, <2>2 DEF Direction
  <2> QED
    BY <1>2, <1>3, <1>4, <2>1, <2>2, <2>3, <2>4 DEF Recognized
<1>5. CASE sent[n].id = "response"
  <2>1. sent[n].sid \in DOMAIN POSITIVE_TO_REQUEST \cup {Negative} /\ sent[n].id # "request"
    BY <1>1, <1>5, Zenon DEF WordsFit
  <2>2. sent[n].sid \notin SERVICES
    BY <2>1, ServicesAre
  <2>3. ServiceOf(sent[n]) = IF sent[n].sid = Negative THEN sent[n].of
                             ELSE POSITIVE_TO_REQUEST[sent[n].sid]
    BY <2>1 DEF ServiceOf
  <2>4. Direction(sent[n].sid) # "request"
    BY <2>2 DEF Direction
  <2> QED
    BY <1>2, <1>3, <1>5, <2>1, <2>2, <2>3, <2>4 DEF Recognized
<1> QED
  BY <1>1, <1>4, <1>5 DEF Talkers

(* What is framed, and said to its end, makes its event once reassembled.  *)
IsoEvents == DiagnosticEvents(ReassembleSession(capture))

LEMMA IsoEventsAre ==
    ASSUME TalkInv, missing = 0
    PROVE  IsoEvents = {EventOf(n) : n \in {n \in DOMAIN sent : sent[n].framed /\ sent[n].left = 0}}
<1> DEFINE M == Range(ReassembleSession(capture))
           D == {n \in DOMAIN sent : sent[n].framed /\ sent[n].left = 0}
           told(n) == Message(sent[n].start, sent[n].id, ChunksOf(n))
<1>1. M = Spoken
  <2>1. MessagesWereSent
    BY HearingFollows DEF TalkInv
  <2>2. 0 <= 1
    OBVIOUS
  <2>3. ReassembleSession(capture) \in {ReassembleSession(capture), ReassembleDids(capture)}
    OBVIOUS
  <2> HIDE DEF M
  <2>4. Range(ReassembleSession(capture)) \subseteq Spoken
        /\ Spoken \subseteq Range(ReassembleSession(capture))
    BY <2>1, <2>2, <2>3, Zenon DEF MessagesWereSent
  <2> QED
    BY <2>4 DEF M
<1>2. Spoken = {told(n) : n \in D}
  BY Zenon DEF Spoken
<1>3. ASSUME NEW n \in D
      PROVE  /\ PayloadOf(told(n)) = sent[n] /\ Recognized(sent[n].sid)
             /\ Classified(told(n).time, told(n).id, PayloadOf(told(n)).sid, told(n).chunks[1][1])
                  = EventOf(n)
  <2>1. FramesOf(sent[n]) \in Nat \ {0}
    BY TalkIs, FramesAre
  <2>2. 1 \in 1 .. FramesOf(sent[n])
    BY <2>1
  <2>3. ChunksOf(n)[1] = <<n, 1>>
    BY <2>2 DEF ChunksOf
  <2>4. told(n).time = sent[n].start /\ told(n).id = sent[n].id /\ told(n).chunks = ChunksOf(n)
    BY DEF Message
  <2> HIDE DEF told
  <2>5. told(n).chunks[1][1] = n
    BY <2>3, <2>4
  <2>6. PayloadOf(told(n)) = sent[n]
    BY <2>5 DEF PayloadOf
  <2>7. Recognized(sent[n].sid)
    BY EventIs
  <2> QED
    BY <2>4, <2>5, <2>6, <2>7 DEF EventOf
<1>4. IsoEvents = {Classified(m.time, m.id, PayloadOf(m).sid, m.chunks[1][1]) :
                     m \in {m \in M : Recognized(PayloadOf(m).sid)}}
  BY Zenon DEF IsoEvents, DiagnosticEvents
<1> HIDE DEF M, told, D
<1>5. {m \in M : Recognized(PayloadOf(m).sid)} = {told(n) : n \in D}
  <2>1. \A m \in {told(n) : n \in D} : Recognized(PayloadOf(m).sid)
    BY <1>3
  <2> QED
    BY <1>1, <1>2, <2>1
<1>6. IsoEvents = {EventOf(n) : n \in D}
  <2>1. \A x : x \in IsoEvents =>
           x \in {EventOf(n) : n \in D}
    <3> SUFFICES ASSUME NEW x \in IsoEvents PROVE x \in {EventOf(n) : n \in D}
      OBVIOUS
    <3>1. PICK m \in {told(n) : n \in D} :
             x = Classified(m.time, m.id, PayloadOf(m).sid, m.chunks[1][1])
      BY <1>4, <1>5, Zenon
    <3>2. PICK n \in D : m = told(n)
      BY <3>1
    <3> QED
      BY <1>3, <3>1, <3>2
  <2>2. ASSUME NEW n \in D PROVE EventOf(n) \in IsoEvents
    <3>1. told(n) \in {m \in M : Recognized(PayloadOf(m).sid)}
      BY <1>5
    <3>2. EventOf(n) =
            Classified(told(n).time, told(n).id, PayloadOf(told(n)).sid, told(n).chunks[1][1])
      BY <1>3
    <3> QED
      BY <1>4, <3>1, <3>2, Zenon
  <2> QED
    BY <2>1, <2>2
<1> QED
  BY <1>6 DEF D

(* An unframed record is taken for what its first byte says.               *)
Plays(f) ==
    IF Direction(f.byte) = "request"
    THEN RolesOf(f.id) \cap {"request", "functionalRequest"} # {}
    ELSE "normalResponse" \in RolesOf(f.id)

EventAt(f) == Classified(f.time, f.id, f.byte, f.chunk[1])

Unframed(f) ==
    /\ \A e \in IsoEvents : <<f.time, f.id>> # <<e.time, e.id>>
    /\ Recognized(f.byte) /\ Plays(f)

LEMMA LegacyEventsAre ==
    LegacyEvents(capture, IsoEvents) = {EventAt(f) : f \in {f \in Range(capture) : Unframed(f)}}
<1> DEFINE origins == {<<e.time, e.id>> : e \in IsoEvents}
<1>1. LegacyEvents(capture, IsoEvents) =
         {EventAt(f) : f \in {f \in Range(capture) :
             <<f.time, f.id>> \notin origins /\ Recognized(f.byte) /\ Plays(f)}}
  BY Zenon DEF LegacyEvents, EventAt, Plays
<1>2. \A f : <<f.time, f.id>> \notin origins <=>
               \A e \in IsoEvents : <<f.time, f.id>> # <<e.time, e.id>>
  BY Zenon
<1> HIDE DEF origins
<1>3. {f \in Range(capture) : <<f.time, f.id>> \notin origins /\ Recognized(f.byte) /\ Plays(f)}
        = {f \in Range(capture) : Unframed(f)}
  BY <1>2 DEF Unframed
<1> QED
  BY <1>1, <1>3

LEMMA EventAtIs ==
    ASSUME NEW f
    PROVE  /\ EventAt(f).time = f.time /\ EventAt(f).message = f.chunk[1]
           /\ EventAt(f).direction = Direction(f.byte)
  BY DEF EventAt, Classified

(* Whatever begins a framed message is none, nor is a sample.              *)
LEMMA NeverUnframed ==
    ASSUME TalkInv, missing = 0, Settled, NEW f, Unframed(f)
    PROVE  /\ f.id # "data"
           /\ \A n \in DOMAIN sent : Opens(f, sent, n) => ~sent[n].framed
<1>1. f.id # "data"
  <2>1. RolesOf("data") \cap {"request", "functionalRequest", "normalResponse"} = {}
    BY TrafficAssumption
  <2>2. \A roles : roles \cap {"request", "functionalRequest", "normalResponse"} = {}
           => /\ roles \cap {"request", "functionalRequest"} = {}
              /\ "normalResponse" \notin roles
    OBVIOUS
  <2>3. Plays(f)
    BY DEF Unframed
  <2> QED
    BY <2>1, <2>2, <2>3, Zenon DEF Plays
<1>2. ASSUME NEW n \in DOMAIN sent, Opens(f, sent, n), sent[n].framed PROVE FALSE
  <2>1. sent[n].left = 0
    BY DEF Settled
  <2>2. EventOf(n) \in IsoEvents
    BY <1>2, <2>1, IsoEventsAre
  <2>3. EventOf(n).time = f.time /\ EventOf(n).id = f.id
    BY <1>2, EventIs DEF Opens
  <2> QED
    BY <2>2, <2>3 DEF Unframed
<1> QED
  BY <1>1, <1>2

LEMMA FrameComes ==
    ASSUME TalkInv, NEW f \in Range(capture)
    PROVE  ComesFrom(f, sent)
  BY TalkIs DEF FramesFit, Range

LEMMA LookalikesGoOn == ASSUME TalkInv PROVE LookalikesContinue
<1> SUFFICES ASSUME missing = 0, Settled, NEW e \in Lookalikes
             PROVE  \E f \in Range(capture) :
                       /\ f.time = e.time /\ e.direction = "request"
                       /\ PciType(f) = 2 /\ f.byte \in SERVICES
  BY DEF LookalikesContinue
<1>1. e \in LegacyEvents(capture, IsoEvents) /\ (e.message = 0 \/ sent[e.message].framed)
  BY DEF Lookalikes, IsoEvents
<1>2. PICK f \in Range(capture) : Unframed(f) /\ e = EventAt(f)
  BY <1>1, LegacyEventsAre
<1>3. e.time = f.time /\ e.message = f.chunk[1] /\ e.direction = Direction(f.byte)
  BY <1>2, EventAtIs
<1>4. Recognized(f.byte)
  BY <1>2 DEF Unframed
<1>5. CASE \E n \in DOMAIN sent : Opens(f, sent, n)
  <2>1. PICK n \in DOMAIN sent : Opens(f, sent, n)
    BY <1>5
  <2>2. n # 0 /\ f.chunk[1] = n
    BY <2>1, TalkIs DEF Opens
  <2> QED
    BY <1>1, <1>2, <1>3, <2>1, <2>2, NeverUnframed
<1>6. CASE \E n \in DOMAIN sent : GoesOn(f, sent, n)
  <2>1. f.byte \in 32 .. 47
    BY <1>6 DEF GoesOn
  <2>2. f.byte \in 32 .. 63 /\ f.byte \div 16 = 2
    BY <2>1
  <2>3. f.byte \in SERVICES
    BY <1>4, <2>2, ServicesAre
  <2>4. Direction(f.byte) = "request"
    BY <2>3, ServicesAre DEF Direction
  <2> QED
    BY <1>3, <2>2, <2>3, <2>4 DEF PciType
<1>7. CASE f.byte \in FlowBytes
  <2>1. f.byte \in \h30 .. \h3F /\ f.byte \notin SERVICES
    <3>1. FlowBytes \subseteq \h30 .. \h3F
      BY BusAssumption
    <3>2. FlowBytes \cap SERVICES = {}
      BY TrafficAssumption
    <3> QED
      BY <1>7, <3>1, <3>2
  <2>2. f.byte \in 32 .. 63
    BY <2>1
  <2> QED
    BY <1>4, <2>1, <2>2, ServicesAre
<1>8. CASE f.id = "data"
  BY <1>2, <1>8, NeverUnframed
<1> QED
  BY <1>5, <1>6, <1>7, <1>8, FrameComes DEF ComesFrom

(* With no lookalikes, every message has its event, and only its own.      *)
LEMMA EventsAre ==
    ASSUME TalkInv, missing = 0, Settled, Lookalikes = {}
    PROVE  SessionEvents(capture) = {EventOf(n) : n \in DOMAIN sent}
<1>1. SessionEvents(capture) = IsoEvents \cup LegacyEvents(capture, IsoEvents)
  BY Zenon DEF SessionEvents, IsoEvents
<1>2. IsoEvents = {EventOf(n) : n \in {n \in DOMAIN sent : sent[n].framed}}
  <2>1. \A n \in DOMAIN sent : sent[n].left = 0
    BY DEF Settled
  <2>2. {n \in DOMAIN sent : sent[n].framed /\ sent[n].left = 0}
          = {n \in DOMAIN sent : sent[n].framed}
    BY <2>1
  <2> QED
    BY <2>2, IsoEventsAre
<1>3. ASSUME NEW e \in LegacyEvents(capture, IsoEvents)
      PROVE  e \in {EventOf(n) : n \in DOMAIN sent}
  <2>1. ~(e.message = 0 \/ sent[e.message].framed)
    <3>1. e \notin Lookalikes
      OBVIOUS
    <3> QED
      BY <3>1 DEF Lookalikes, IsoEvents
  <2>2. PICK f \in Range(capture) : Unframed(f) /\ e = EventAt(f)
    BY LegacyEventsAre
  <2>3. e.message = f.chunk[1]
    BY <2>2, EventAtIs
  <2>4. f.id # "data"
    BY <2>2, NeverUnframed
  <2>5. PICK n \in DOMAIN sent : Opens(f, sent, n) \/ GoesOn(f, sent, n)
    BY <2>1, <2>3, <2>4, FrameComes DEF ComesFrom
  <2>6. f.chunk[1] = n
    BY <2>5 DEF Opens, GoesOn
  <2>7. ~sent[n].framed
    BY <2>1, <2>3, <2>6
  <2>8. Opens(f, sent, n)
    BY <2>5, <2>7 DEF GoesOn
  <2>9. f.byte = sent[n].sid
    BY <2>7, <2>8 DEF Opens, FirstByte
  <2>10. EventAt(f) = EventOf(n)
    BY <2>6, <2>8, <2>9 DEF Opens, EventAt, EventOf
  <2> QED
    BY <2>2, <2>10
<1>4. ASSUME NEW n \in DOMAIN sent, ~sent[n].framed
      PROVE  EventOf(n) \in LegacyEvents(capture, IsoEvents)
  <2>1. PICK i \in DOMAIN capture : Opens(capture[i], sent, n)
    BY TalkIs DEF FramesFit
  <2> DEFINE f == capture[i]
  <2>2. f \in Range(capture) /\ Opens(f, sent, n)
    BY <2>1 DEF Range
  <2> HIDE DEF f
  <2>3. f.time = sent[n].start /\ f.id = sent[n].id /\ f.byte = sent[n].sid /\ f.chunk[1] = n
    BY <1>4, <2>2 DEF Opens, FirstByte
  <2>4. EventAt(f) = EventOf(n)
    BY <2>3 DEF EventAt, EventOf
  <2>5. ASSUME NEW e \in IsoEvents PROVE f.time # e.time
    <3>1. PICK m \in DOMAIN sent : sent[m].framed /\ e = EventOf(m)
      BY <1>2
    <3>2. e.time = sent[m].start
      BY <3>1, EventIs
    <3>3. m # n
      BY <1>4, <3>1
    <3>4. n < m \/ m < n
      BY <3>3, TalkIs
    <3>5. sent[n].start \in Nat /\ sent[m].start \in Nat
      BY TalkIs, SaidIs
    <3>6. InTime(sent, time)
      BY TalkIs
    <3> QED
      BY <2>3, <3>2, <3>4, <3>5, <3>6 DEF InTime
  <2>6. Recognized(f.byte)
    BY <2>3, EventIs
  <2>7. Plays(f)
    <3>1. PICK module : /\ ModulesOf("request", "request") = {module}
                        /\ module \in ModulesOf("response", "normalResponse")
      BY TrafficAssumption
    <3>2. sent[n].id \in {"request", "response"}
      BY TalkIs, SaidIs DEF Talkers
    <3>3. \A id, role : ModulesOf(id, role) # {} => role \in RolesOf(id)
      BY DEF ModulesOf, RolesOf
    <3>4. "request" \in RolesOf("request") /\ "normalResponse" \in RolesOf("response")
      BY <3>1, <3>3
    <3>5. Direction(f.byte) = "request" <=> sent[n].id = "request"
      BY <2>3, EventIs
    <3> QED
      BY <2>3, <3>2, <3>4, <3>5 DEF Plays
  <2>8. Unframed(f)
    BY <2>5, <2>6, <2>7 DEF Unframed
  <2> QED
    BY <2>2, <2>4, <2>8, LegacyEventsAre
<1>5. ASSUME NEW n \in DOMAIN sent PROVE EventOf(n) \in SessionEvents(capture)
  <2>1. CASE sent[n].framed
    BY <1>1, <1>2, <2>1
  <2>2. CASE ~sent[n].framed
    BY <1>1, <1>4, <2>2
  <2> QED
    BY <2>1, <2>2
<1> QED
  BY <1>1, <1>2, <1>3, <1>5

(* The responses to request n, among the events of all messages, are those  *)
(* that answer it: what answers an earlier request for the service came     *)
(* before it, what answers a later one comes after that one.               *)
LEMMA ResponsesAre ==
    ASSUME TalkInv, Orderly, NEW n \in DOMAIN sent, sent[n].id = "request",
           NEW module, ModulesOf("request", "request") = {module},
           module \in ModulesOf("response", "normalResponse"),
           NEW events, events = {EventOf(k) : k \in DOMAIN sent}
    PROVE  ResponsesTo(EventOf(n), module, events) = {EventOf(a) : a \in AnswersOf(n)}
<1> DEFINE r == EventOf(n)
           later == {e \in events : e.time > r.time /\ e.service = r.service}
           repeats == {e \in later : /\ e.direction = "request"
                                     /\ module \in ModulesOf(e.id, "request")}
           answers == {e \in later : /\ e.direction # "request"
                                     /\ module \in ModulesOf(e.id, "normalResponse")
                                     /\ \A q \in repeats : e.time < q.time}
<1>1. ResponsesTo(r, module, events)
        = {e \in answers : \A f \in answers : f.time < e.time => f.pending}
  BY Zenon DEF ResponsesTo
<1>2. \A k \in DOMAIN sent :
         /\ EventOf(k).time = sent[k].start /\ EventOf(k).id = sent[k].id
         /\ EventOf(k).direction = "request" <=> sent[k].id = "request"
         /\ EventOf(k).service = ServiceOf(sent[k])
         /\ EventOf(k).pending <=> ~Final(sent[k])
  BY EventIs
<1>3. \A k, l \in DOMAIN sent : sent[k].start < sent[l].start <=> k < l
  <2> SUFFICES ASSUME NEW k \in DOMAIN sent, NEW l \in DOMAIN sent
               PROVE  sent[k].start < sent[l].start <=> k < l
    OBVIOUS
  <2>1. sent[k].start \in Nat /\ sent[l].start \in Nat /\ k \in Nat /\ l \in Nat
    BY TalkIs, SaidIs
  <2>2. /\ k < l => sent[k].start < sent[l].start
        /\ l < k => sent[l].start < sent[k].start
    BY TalkIs DEF InTime
  <2>3. k = l \/ k < l \/ l < k
    BY <2>1
  <2> QED
    BY <2>1, <2>2, <2>3
<1>4. \A k \in DOMAIN sent :
         /\ k \in Nat /\ sent[k].start \in Nat /\ sent[k].id \in {"request", "response"}
         /\ sent[k].id = "request" => ServiceOf(sent[k]) = sent[k].sid /\ sent[k].answers = 0
         /\ sent[k].id = "response" =>
               /\ sent[k].answers \in DOMAIN sent /\ sent[k].answers < k
               /\ sent[k].answers # 0 /\ sent[sent[k].answers].id = "request"
               /\ ServiceOf(sent[k]) = sent[sent[k].answers].sid
  <2> SUFFICES ASSUME NEW k \in DOMAIN sent
               PROVE
         /\ k \in Nat /\ sent[k].start \in Nat /\ sent[k].id \in {"request", "response"}
         /\ sent[k].id = "request" => ServiceOf(sent[k]) = sent[k].sid /\ sent[k].answers = 0
         /\ sent[k].id = "response" =>
               /\ sent[k].answers \in DOMAIN sent /\ sent[k].answers < k
               /\ sent[k].answers # 0 /\ sent[sent[k].answers].id = "request"
               /\ ServiceOf(sent[k]) = sent[sent[k].answers].sid
    OBVIOUS
  <2>1. /\ k \in Nat /\ sent[k].start \in Nat /\ sent[k].id \in {"request", "response"}
        /\ WordsFit(sent) /\ DOMAIN sent = 1 .. Len(sent) /\ Len(sent) \in Nat
    BY TalkIs, SaidIs DEF Talkers
  <2>2. CASE sent[k].id = "request"
    <3>1. sent[k].answers = 0 /\ sent[k].sid \in SERVICES
      BY <2>1, <2>2 DEF WordsFit
    <3>2. sent[k].sid # Negative
      BY <3>1, ServicesAre
    <3>3. ServiceOf(sent[k]) = sent[k].sid
      BY <2>2, <3>2 DEF ServiceOf
    <3> QED
      BY <2>1, <2>2, <3>1, <3>3
  <2>3. CASE sent[k].id = "response"
    <3>1. /\ sent[k].answers \in 1 .. k - 1 /\ sent[sent[k].answers].id = "request"
          /\ ServiceOf(sent[k]) = sent[sent[k].answers].sid
      BY <2>1, <2>3, Zenon DEF WordsFit
    <3>2. sent[k].answers \in DOMAIN sent /\ sent[k].answers < k /\ sent[k].answers # 0
      BY <2>1, <3>1
    <3> QED
      BY <2>1, <2>3, <3>1, <3>2
  <2> QED
    BY <2>1, <2>2, <2>3
<1>5. r.time = sent[n].start /\ r.service = sent[n].sid
  BY <1>2, <1>4
<1>6. \A e : e \in events <=> \E k \in DOMAIN sent : e = EventOf(k)
  OBVIOUS
<1>7. ASSUME NEW k \in DOMAIN sent
      PROVE  EventOf(k) \in repeats <=>
                n < k /\ sent[k].id = "request" /\ sent[k].sid = sent[n].sid
  <2>1. EventOf(k) \in later <=> n < k /\ ServiceOf(sent[k]) = sent[n].sid
    <3>1. EventOf(k).time > r.time <=> n < k
      BY <1>2, <1>3, <1>4, <1>5
    <3> QED
      BY <1>2, <1>5, <1>6, <3>1
  <2>2. sent[k].id = "request" => module \in ModulesOf(EventOf(k).id, "request")
    BY <1>2
  <2> HIDE DEF later, r
  <2> QED
    BY <1>2, <1>4, <2>1, <2>2
<1>8. ASSUME NEW k \in DOMAIN sent
      PROVE  EventOf(k) \in answers <=>
                /\ n < k /\ sent[k].id = "response" /\ ServiceOf(sent[k]) = sent[n].sid
                /\ \A q \in DOMAIN sent :
                      n < q /\ sent[q].id = "request" /\ sent[q].sid = sent[n].sid => k < q
  <2>1. EventOf(k) \in later <=> n < k /\ ServiceOf(sent[k]) = sent[n].sid
    <3>1. EventOf(k).time > r.time <=> n < k
      BY <1>2, <1>3, <1>4, <1>5
    <3> QED
      BY <1>2, <1>5, <1>6, <3>1
  <2>2. sent[k].id = "response" => module \in ModulesOf(EventOf(k).id, "normalResponse")
    BY <1>2
  <2>3. EventOf(k).direction # "request" <=> sent[k].id = "response"
    BY <1>2, <1>4
  <2>4. (\A q \in repeats : EventOf(k).time < q.time) <=>
           \A q \in DOMAIN sent :
               n < q /\ sent[q].id = "request" /\ sent[q].sid = sent[n].sid => k < q
    <3>1. \A q \in repeats : \E l \in DOMAIN sent : q = EventOf(l)
      BY <1>6
    <3>2. \A l \in DOMAIN sent : EventOf(k).time < EventOf(l).time <=> k < l
      BY <1>2, <1>3
    <3> HIDE DEF repeats
    <3> QED
      BY <1>7, <3>1, <3>2
  <2> HIDE DEF later, r, repeats
  <2> QED
    BY <2>1, <2>2, <2>3, <2>4
<1>9. \A e \in answers : \E k \in DOMAIN sent : e = EventOf(k)
  BY <1>6
<1>10. ASSUME NEW k \in DOMAIN sent
       PROVE  EventOf(k) \in answers <=> k \in AnswersOf(n)
  <2>1. ASSUME EventOf(k) \in answers PROVE k \in AnswersOf(n)
    <3>1. /\ n < k /\ sent[k].id = "response" /\ ServiceOf(sent[k]) = sent[n].sid
          /\ \A q \in DOMAIN sent :
                n < q /\ sent[q].id = "request" /\ sent[q].sid = sent[n].sid => k < q
      BY <1>8, <2>1
    <3> DEFINE q == sent[k].answers
    <3>2. /\ q \in DOMAIN sent /\ q < k /\ q # 0 /\ sent[q].id = "request"
          /\ sent[n].sid = sent[q].sid /\ q \in Nat /\ n \in Nat /\ k \in Nat
      BY <1>4, <3>1
    <3> HIDE DEF q
    <3>3. ~(n < q)
      BY <3>1, <3>2
    <3>4. ~(q < n)
      <4>1. q < n => k < n
        BY <3>2 DEF Orderly, q
      <4> QED
        BY <3>1, <3>2, <4>1
    <3>5. q = n
      BY <3>2, <3>3, <3>4
    <3> QED
      BY <3>5 DEF q, AnswersOf
  <2>2. ASSUME k \in AnswersOf(n) PROVE EventOf(k) \in answers
    <3>1. sent[k].answers = n
      BY <2>2 DEF AnswersOf
    <3>2. sent[k].id = "response"
      <4>1. n # 0
        BY TalkIs
      <4> QED
        BY <1>4, <3>1, <4>1
    <3>3. n < k /\ ServiceOf(sent[k]) = sent[n].sid /\ n # 0
      BY <1>4, <3>1, <3>2
    <3>4. \A q \in DOMAIN sent :
             n < q /\ sent[q].id = "request" /\ sent[q].sid = sent[n].sid => k < q
      BY <3>1, <3>3 DEF Orderly
    <3> QED
      BY <1>8, <3>2, <3>3, <3>4
  <2> QED
    BY <2>1, <2>2
<1>11. ASSUME NEW k \in AnswersOf(n), NEW f \in answers, f.time < EventOf(k).time
       PROVE  f.pending
  <2>1. PICK b \in DOMAIN sent : f = EventOf(b)
    BY <1>9
  <2>2. k \in DOMAIN sent /\ b \in AnswersOf(n)
    BY <1>10, <2>1 DEF AnswersOf
  <2>3. b < k /\ sent[b].answers = n /\ sent[k].answers = n /\ n # 0
    BY <1>2, <1>3, <1>4, <1>11, <2>1, <2>2 DEF AnswersOf
  <2>4. ~Final(sent[b])
    BY <2>2, <2>3, TalkIs DEF LastIsFinal
  <2> QED
    BY <1>2, <2>1, <2>4
<1> HIDE DEF answers, later, repeats
<1>12. {e \in answers : \A f \in answers : f.time < e.time => f.pending}
         = {EventOf(a) : a \in AnswersOf(n)}
  <2>1. \A a \in AnswersOf(n) : a \in DOMAIN sent
    BY DEF AnswersOf
  <2>2. \A e \in answers : \E a \in AnswersOf(n) : e = EventOf(a)
    BY <1>9, <1>10
  <2> QED
    BY <1>10, <1>11, <2>1, <2>2
<1> QED
  BY <1>1, <1>12

LEMMA RequestsArePaired == ASSUME TalkInv PROVE RequestsPaired
<1> SUFFICES ASSUME missing = 0, Settled, Orderly, Lookalikes = {}
             PROVE  {<<t.request.time, {e.time : e \in t.responses}>> : t \in BusTransactions}
                      = {<<sent[n].start, {sent[a].start : a \in AnswersOf(n)}>> :
                            n \in {n \in DOMAIN sent : sent[n].id = "request"}}
  BY DEF RequestsPaired
<1> DEFINE events == {EventOf(n) : n \in DOMAIN sent}
           Q == {n \in DOMAIN sent : sent[n].id = "request"}
           T(n) == [request |-> EventOf(n), responses |-> {EventOf(a) : a \in AnswersOf(n)}]
<1>1. PICK module : /\ ModulesOf("request", "request") = {module}
                    /\ module \in ModulesOf("response", "normalResponse")
  BY TrafficAssumption
<1>2. BusTransactions = Transactions(events)
  BY EventsAre, Zenon DEF BusTransactions
<1> HIDE DEF events
<1>3. Transactions(events)
        = {[request |-> r,
            responses |-> ResponsesTo(r, CHOOSE m \in ModulesOf(r.id, "request") : TRUE, events)] :
              r \in {e \in events : /\ e.direction = "request"
                                    /\ Cardinality(ModulesOf(e.id, "request")) = 1}}
  BY Zenon DEF Transactions
<1>4. {e \in events : /\ e.direction = "request"
                      /\ Cardinality(ModulesOf(e.id, "request")) = 1} = {EventOf(n) : n \in Q}
  <2>1. Cardinality({module}) = 1
    BY FS_Singleton
  <2>2. \A n \in DOMAIN sent : /\ EventOf(n).direction = "request" <=> sent[n].id = "request"
                               /\ EventOf(n).id = sent[n].id
    BY EventIs
  <2> QED
    BY <1>1, <2>1, <2>2 DEF events
<1>5. ASSUME NEW n \in Q
      PROVE  [request |-> EventOf(n),
              responses |-> ResponsesTo(EventOf(n),
                               CHOOSE m \in ModulesOf(EventOf(n).id, "request") : TRUE, events)]
               = T(n)
  <2>1. ModulesOf(EventOf(n).id, "request") = {module}
    BY <1>1, EventIs
  <2>2. (CHOOSE m \in ModulesOf(EventOf(n).id, "request") : TRUE) = module
    BY <2>1
  <2>3. ResponsesTo(EventOf(n), module, events) = {EventOf(a) : a \in AnswersOf(n)}
    BY <1>1, ResponsesAre DEF events
  <2> QED
    BY <2>2, <2>3
<1>6. BusTransactions = {T(n) : n \in Q}
  <2> HIDE DEF T, Q
  <2>1. Transactions(events)
          = {[request |-> r,
              responses |-> ResponsesTo(r, CHOOSE m \in ModulesOf(r.id, "request") : TRUE, events)] :
                r \in {EventOf(n) : n \in Q}}
    BY <1>3, <1>4, Zenon
  <2>2. Transactions(events)
          = {[request |-> EventOf(n),
              responses |-> ResponsesTo(EventOf(n),
                               CHOOSE m \in ModulesOf(EventOf(n).id, "request") : TRUE, events)] :
                n \in Q}
    BY <2>1, Zenon
  <2> QED
    BY <1>2, <1>5, <2>2
<1>7. ASSUME NEW n \in Q
      PROVE  /\ T(n).request.time = sent[n].start
             /\ {e.time : e \in T(n).responses} = {sent[a].start : a \in AnswersOf(n)}
  <2>1. T(n).request = EventOf(n) /\ T(n).responses = {EventOf(a) : a \in AnswersOf(n)}
    OBVIOUS
  <2>2. \A a \in AnswersOf(n) : EventOf(a).time = sent[a].start
    BY EventIs DEF AnswersOf
  <2> HIDE DEF T
  <2>3. {e.time : e \in {EventOf(a) : a \in AnswersOf(n)}}
          = {EventOf(a).time : a \in AnswersOf(n)}
    BY Zenon
  <2>4. {EventOf(a).time : a \in AnswersOf(n)} = {sent[a].start : a \in AnswersOf(n)}
    BY <2>2
  <2> QED
    BY <2>1, <2>3, <2>4, EventIs
<1> HIDE DEF T
<1>8. {<<t.request.time, {e.time : e \in t.responses}>> : t \in BusTransactions}
        = {<<T(n).request.time, {e.time : e \in T(n).responses}>> : n \in Q}
  <2> HIDE DEF Q
  <2> QED
    BY <1>6, Zenon
<1> HIDE DEF Q
<1>9. {<<T(n).request.time, {e.time : e \in T(n).responses}>> : n \in Q}
        = {<<sent[n].start, {sent[a].start : a \in AnswersOf(n)}>> : n \in Q}
  BY <1>7
<1> QED
  BY <1>8, <1>9 DEF Q

(* The transactions of the extractor are those of the bus, for any number   *)
(* of requests, answers and messages under way: each request has its own    *)
(* responses and no other, when no answer was overtaken by a repetition of  *)
(* its request and no frame of a message passes for an unframed record; and *)
(* none but the frame that continues a request does.                       *)
THEOREM TransactionsAreExact == Spec => []TransactionsExact
<1>1. Init => TalkInv
  BY InitTalk
<1>2. TalkInv /\ [Next]_<<rows, lines, analysed, writerVars, conversation>> => TalkInv'
  BY TalkStep
<1>3. TalkInv => TransactionsExact
  BY LookalikesGoOn, RequestsArePaired DEF TransactionsExact
<1> QED
  BY <1>1, <1>2, <1>3, PTL DEF Spec

-----------------------------------------------------------------------------
(* The bundle. A message of the trace is put beside its own event: the one  *)
(* that bears its content, or for a redacted request its service, nearer    *)
(* than any other that does.                                               *)
ItemOf(n, skew) ==
    [time |-> sent[n].start + skew, message |-> n,
     direction |-> IF sent[n].id = "request" THEN "applicationToProvider"
                                             ELSE "providerToApplication",
     service |-> IF sent[n].sid \in SENSITIVE_SERVICES THEN sent[n].sid ELSE 0]

LEMMA ItemsAre ==
    ASSUME TalkInv, NEW skew \in Int, NEW n \in DOMAIN sent,
           ItemOf(n, skew).service = 0 => ServiceOf(sent[n]) \notin SENSITIVE_SERVICES,
           NEW m \in DOMAIN sent
    PROVE  LET item == ItemOf(n, skew)
           IN  /\ BusDirectionMatches(item, EventOf(m)) <=> sent[m].id = sent[n].id
               /\ Distance(item, EventOf(m)) =
                     IF sent[m].start < sent[n].start + skew
                     THEN (sent[n].start + skew) - sent[m].start
                     ELSE sent[m].start - (sent[n].start + skew)
               /\ sent[n].sid \notin SENSITIVE_SERVICES =>
                    /\ ~ServiceMatch(item, EventOf(m))
                    /\ ExactPayload(item, EventOf(m)) <=>
                          ServiceOf(sent[m]) \notin SENSITIVE_SERVICES /\ Content(n) = Content(m)
                    /\ ExactPayload(item, EventOf(n))
               /\ sent[n].sid \in SENSITIVE_SERVICES =>
                    /\ ~ExactPayload(item, EventOf(m))
                    /\ sent[m].id = sent[n].id =>
                          ServiceMatch(item, EventOf(m)) <=> sent[m].sid = sent[n].sid
<1> DEFINE item == ItemOf(n, skew)
<1>1. /\ item.time = sent[n].start + skew /\ item.message = n
      /\ item.direction = "applicationToProvider" <=> sent[n].id = "request"
      /\ item.service = IF sent[n].sid \in SENSITIVE_SERVICES THEN sent[n].sid ELSE 0
      /\ item.service = 0 => ServiceOf(sent[n]) \notin SENSITIVE_SERVICES
  BY DEF ItemOf
<1>2. \A k \in DOMAIN sent :
         /\ EventOf(k).time = sent[k].start /\ EventOf(k).message = k
         /\ EventOf(k).direction = "request" <=> sent[k].id = "request"
         /\ EventOf(k).service = ServiceOf(sent[k])
         /\ sent[k].id \in {"request", "response"}
  BY EventIs, TalkIs, SaidIs DEF Talkers
<1> HIDE DEF item
<1>3. BusDirectionMatches(item, EventOf(m)) <=> sent[m].id = sent[n].id
  BY <1>1, <1>2 DEF BusDirectionMatches
<1>4. Distance(item, EventOf(m)) =
         IF sent[m].start < sent[n].start + skew
         THEN (sent[n].start + skew) - sent[m].start
         ELSE sent[m].start - (sent[n].start + skew)
  BY <1>1, <1>2 DEF Distance
<1>5. CASE sent[n].sid \notin SENSITIVE_SERVICES
  <2>1. item.service = 0 /\ ServiceOf(sent[n]) \notin SENSITIVE_SERVICES
    BY <1>1, <1>5
  <2>2. \A k \in DOMAIN sent :
           ExactPayload(item, EventOf(k)) <=>
              ServiceOf(sent[k]) \notin SENSITIVE_SERVICES /\ Content(n) = Content(k)
    BY <1>1, <1>2, <2>1 DEF ExactPayload, Redacted
  <2> QED
    BY <1>3, <1>4, <1>5, <2>1, <2>2 DEF ServiceMatch, item
<1>6. CASE sent[n].sid \in SENSITIVE_SERVICES
  <2>1. item.service = sent[n].sid /\ sent[n].sid # 0
    BY <1>1, <1>6 DEF SENSITIVE_SERVICES
  <2>2. ~ExactPayload(item, EventOf(m))
    BY <2>1 DEF ExactPayload
  <2>3. sent[n].sid \in SERVICES
    BY <1>6 DEF SENSITIVE_SERVICES, SERVICES
  <2>4. sent[n].id = "request"
    <3>1. sent[n].id = "response" =>
             sent[n].sid \in DOMAIN POSITIVE_TO_REQUEST \cup {Negative}
      BY TalkIs DEF WordsFit
    <3> QED
      BY <1>2, <2>3, <3>1, ServicesAre
  <2>5. ASSUME sent[m].id = sent[n].id PROVE ServiceOf(sent[m]) = sent[m].sid
    <3>1. sent[m].sid \in SERVICES /\ sent[m].id = "request"
      BY <2>4, <2>5, TalkIs DEF WordsFit
    <3>2. sent[m].sid # Negative
      BY <3>1, ServicesAre
    <3> QED
      BY <3>1, <3>2 DEF ServiceOf
  <2>6. ServiceMatch(item, EventOf(m)) <=> ServiceOf(sent[m]) = sent[n].sid
    BY <1>2, <2>1 DEF ServiceMatch
  <2> QED
    BY <1>3, <1>4, <1>6, <2>2, <2>5, <2>6 DEF item
<1> QED
  BY <1>5, <1>6 DEF item

(* How two events rank. *)
LEMMA Ranks ==
    ASSUME NEW item, NEW e, NEW f
    PROVE  RanksBefore(item, e, f) <=>
             \/ ExactPayload(item, e) /\ ~ExactPayload(item, f)
             \/ /\ ExactPayload(item, e) <=> ExactPayload(item, f)
                /\ ServiceMatch(item, e) /\ ~ServiceMatch(item, f)
             \/ /\ ExactPayload(item, e) <=> ExactPayload(item, f)
                /\ ServiceMatch(item, e) <=> ServiceMatch(item, f)
                /\ Distance(item, e) < Distance(item, f)
<1> DEFINE E(x) == ExactPayload(item, x)
           S(x) == ServiceMatch(item, x)
           nearer == Distance(item, e) < Distance(item, f)
<1>1. E(e) \in BOOLEAN /\ E(f) \in BOOLEAN /\ S(e) \in BOOLEAN /\ S(f) \in BOOLEAN
  BY Zenon DEF ExactPayload, ServiceMatch
<1>2. RanksBefore(item, e, f) <=>
         \/ E(e) /\ ~E(f)
         \/ E(e) = E(f) /\ S(e) /\ ~S(f)
         \/ E(e) = E(f) /\ S(e) = S(f) /\ nearer
  BY Zenon DEF RanksBefore
<1> HIDE DEF E, S, nearer
<1>3. RanksBefore(item, e, f) <=>
         \/ E(e) /\ ~E(f)
         \/ (E(e) <=> E(f)) /\ S(e) /\ ~S(f)
         \/ (E(e) <=> E(f)) /\ (S(e) <=> S(f)) /\ nearer
  BY <1>1, <1>2, Zenon
<1> QED
  BY <1>3, Zenon DEF E, S, nearer

(* The own event of an item comes before any other.                        *)
LEMMA OwnRanksFirst ==
    ASSUME NEW item, NEW own, NEW other,
           ExactPayload(item, own), ~ServiceMatch(item, own), ~ServiceMatch(item, other),
           NEW a \in Int, NEW b \in Int, Distance(item, own) = a, Distance(item, other) = b,
           ExactPayload(item, other) => a < b
    PROVE  RanksBefore(item, own, other) /\ ~RanksBefore(item, other, own)
<1>1. CASE ExactPayload(item, other)
  <2>1. a < b /\ ~(b < a)
    BY <1>1
  <2> QED
    BY <1>1, <2>1, Ranks
<1>2. CASE ~ExactPayload(item, other)
  BY <1>2, Ranks
<1> QED
  BY <1>1, <1>2

LEMMA OwnServiceRanksFirst ==
    ASSUME NEW item, NEW own, NEW other,
           ~ExactPayload(item, own), ~ExactPayload(item, other), ServiceMatch(item, own),
           NEW a \in Int, NEW b \in Int, Distance(item, own) = a, Distance(item, other) = b,
           ServiceMatch(item, other) => a < b
    PROVE  RanksBefore(item, own, other) /\ ~RanksBefore(item, other, own)
<1>1. CASE ServiceMatch(item, other)
  <2>1. a < b /\ ~(b < a)
    BY <1>1
  <2> QED
    BY <1>1, <2>1, Ranks
<1>2. CASE ~ServiceMatch(item, other)
  BY <1>2, Ranks
<1> QED
  BY <1>1, <1>2

LEMMA Correlates == ASSUME TalkInv PROVE CorrelatedToItself
<1> DEFINE Likes(n, m) == IF sent[n].sid \in SENSITIVE_SERVICES THEN sent[n].sid = sent[m].sid
                                                               ELSE Content(n) = Content(m)
           Far(n, skew) == \A m \in DOMAIN sent \ {n} :
               Likes(n, m) => sent[m].start - sent[n].start \notin -2 * skew .. 2 * skew
           events == SessionEvents(capture)
<1> SUFFICES ASSUME missing = 0, Settled, Lookalikes = {},
                    NEW skew \in Skews, NEW item \in TraceMessages(skew),
                    skew \in -MaxSkew .. MaxSkew,
                    item.service = 0 => ServiceOf(sent[item.message]) \notin SENSITIVE_SERVICES,
                    Far(item.message, IF skew < 0 THEN -skew ELSE skew)
             PROVE  {e.message : e \in Correlate(item, events)} = {item.message}
  BY Zenon DEF CorrelatedToItself
<1>1. PICK n \in DOMAIN sent : item = ItemOf(n, skew)
  BY DEF TraceMessages, ItemOf
<1>2. item.message = n
  BY <1>1 DEF ItemOf
<1>3. skew \in Int /\ MaxSkew \in Nat
  BY BusAssumption
<1> DEFINE d == IF skew < 0 THEN -skew ELSE skew
<1>4. d \in Nat /\ d <= MaxSkew
  BY <1>3
<1>5. \A k \in DOMAIN sent : sent[k].start \in Nat
  BY TalkIs, SaidIs
<1>6. ASSUME NEW m \in DOMAIN sent, m # n, Likes(n, m)
      PROVE  sent[m].start - sent[n].start \notin -2 * d .. 2 * d
  BY <1>2, <1>6
<1>7. events = {EventOf(k) : k \in DOMAIN sent}
  BY EventsAre
<1> DEFINE Gap(m) == IF sent[m].start < sent[n].start + skew
                     THEN (sent[n].start + skew) - sent[m].start
                     ELSE sent[m].start - (sent[n].start + skew)
<1>8. ASSUME NEW m \in DOMAIN sent
      PROVE  /\ BusDirectionMatches(item, EventOf(m)) <=> sent[m].id = sent[n].id
             /\ Distance(item, EventOf(m)) = Gap(m)
             /\ sent[n].sid \notin SENSITIVE_SERVICES =>
                  /\ ~ServiceMatch(item, EventOf(m))
                  /\ ExactPayload(item, EventOf(m)) => Content(n) = Content(m)
                  /\ ExactPayload(item, EventOf(n))
             /\ sent[n].sid \in SENSITIVE_SERVICES =>
                  /\ ~ExactPayload(item, EventOf(m))
                  /\ sent[m].id = sent[n].id =>
                        ServiceMatch(item, EventOf(m)) <=> sent[m].sid = sent[n].sid
  <2>1. item.service = 0 => ServiceOf(sent[n]) \notin SENSITIVE_SERVICES
    BY <1>2
  <2> QED
    BY <1>1, <1>3, <2>1, ItemsAre
<1>9. Gap(n) = d /\ \A m \in DOMAIN sent : Gap(m) \in Int
  BY <1>3, <1>5
<1>10. ASSUME NEW m \in DOMAIN sent, m # n, Likes(n, m) PROVE d < Gap(m)
  <2>1. sent[m].start - sent[n].start \notin -2 * d .. 2 * d
    BY <1>6, <1>10
  <2>2. PICK x \in Nat : x = sent[n].start
    BY <1>5
  <2>3. PICK y \in Nat : y = sent[m].start
    BY <1>5
  <2>4. y - x < -2 * d \/ 2 * d < y - x
    BY <1>4, <2>1, <2>2, <2>3
  <2>5. d < IF y < x + skew THEN (x + skew) - y ELSE y - (x + skew)
    BY <1>3, <2>4
  <2> QED
    BY <2>2, <2>3, <2>5
<1> HIDE DEF Gap, d, events
<1>11. ASSUME NEW m \in DOMAIN sent, m # n, sent[m].id = sent[n].id
       PROVE  /\ RanksBefore(item, EventOf(n), EventOf(m))
              /\ ~RanksBefore(item, EventOf(m), EventOf(n))
  <2>1. Distance(item, EventOf(n)) = Gap(n) /\ Distance(item, EventOf(m)) = Gap(m)
        /\ Gap(n) \in Int /\ Gap(m) \in Int
    BY <1>8, <1>9
  <2>2. CASE sent[n].sid \notin SENSITIVE_SERVICES
    <3>1. ExactPayload(item, EventOf(m)) => Gap(n) < Gap(m)
      BY <1>8, <1>9, <1>10, <1>11, <2>2
    <3> QED
      BY <1>8, <2>1, <2>2, <3>1, OwnRanksFirst
  <2>3. CASE sent[n].sid \in SENSITIVE_SERVICES
    <3>1. ServiceMatch(item, EventOf(m)) => Gap(n) < Gap(m)
      BY <1>8, <1>9, <1>10, <1>11, <2>3
    <3> QED
      BY <1>8, <2>1, <2>3, <3>1, OwnServiceRanksFirst
  <2> QED
    BY <2>2, <2>3
<1>12. ~RanksBefore(item, EventOf(n), EventOf(n))
  <2>1. Gap(n) \in Int /\ ~(Gap(n) < Gap(n))
    BY <1>9
  <2>2. ~(Distance(item, EventOf(n)) < Distance(item, EventOf(n)))
    BY <1>8, <2>1
  <2> QED
    BY <2>2, Ranks
<1> DEFINE near == {e \in events : /\ BusDirectionMatches(item, e)
                                   /\ Distance(item, e) <= MaxSkew}
<1>13. EventOf(n) \in near
  BY <1>4, <1>7, <1>8, <1>9
<1>14. \A e \in near : \E m \in DOMAIN sent : e = EventOf(m) /\ sent[m].id = sent[n].id
  BY <1>7, <1>8
<1> HIDE DEF near
<1>15. Correlate(item, events) = {e \in near : \A f \in near : ~RanksBefore(item, f, e)}
  BY Zenon DEF Correlate, near
<1>16. Correlate(item, events) = {EventOf(n)}
  <2>1. \A f \in near : ~RanksBefore(item, f, EventOf(n))
    BY <1>11, <1>12, <1>14
  <2>2. ASSUME NEW e \in near, \A f \in near : ~RanksBefore(item, f, e) PROVE e = EventOf(n)
    BY <1>11, <1>13, <1>14, <2>2
  <2> QED
    BY <1>13, <1>15, <2>1, <2>2
<1>17. EventOf(n).message = n
  BY EventIs
<1> QED
  BY <1>2, <1>16, <1>17

-----------------------------------------------------------------------------
(* One step of the conversation: a frame f, and a message that begins, one  *)
(* that goes on, none, or a sample.                                        *)
Adds(f) ==
    /\ time' = time + 1 /\ f.time = time + 1
    /\ \/ capture' = Append(capture, f) /\ missing' = missing
       \/ capture' = capture /\ missing' = missing + 1

Comes(w) ==
    \E p \in Payloads : /\ w.id = p.id /\ w.sid = p.sid /\ w.did = p.did
                        /\ w.length = p.length /\ w.framed = p.framed

FollowsUp(w, s) ==
    w.id = "response" =>
        /\ w.answers \in DOMAIN s /\ s[w.answers].left = 0
        /\ w.sid # Negative => w.did = s[w.answers].did

NewWord(f, w) ==
    /\ sent' = Append(sent, w) /\ w.start = time + 1 /\ w.left = FramesOf(w) - 1
    /\ ~Busy(w.id) /\ Comes(w) /\ FollowsUp(w, sent)
    /\ f.id = w.id /\ f.id \in Talkers /\ f.chunk = <<Len(sent) + 1, 1>>

LeftIs(n, left) ==
    /\ DOMAIN sent' = DOMAIN sent /\ Alike(sent, sent')
    /\ sent'[n].left = left
    /\ \A k \in DOMAIN sent \ {n} : sent'[k].left = sent[k].left

Flowed(f, n) ==
    LeftIs(n, sent[n].left) /\ f.id \in Talkers /\ f.chunk = <<0, 0>>

WentOn(f, n) ==
    /\ LeftIs(n, sent[n].left - 1) /\ sent[n].left > 0 /\ f.id \in Talkers
    /\ f.chunk = <<n, FramesOf(sent[n]) - sent[n].left + 1>>

Sampled(f) ==
    /\ sent' = sent /\ InForce # 0
    /\ f.id = "data" /\ f.byte = Packet /\ f.chunk = <<InForce, 0>>

Spoke(f) ==
    /\ Adds(f)
    /\ \/ \E w \in Said : NewWord(f, w)
       \/ \E n \in DOMAIN sent : Flowed(f, n) \/ WentOn(f, n)
       \/ Sampled(f)

LEMMA BeginSpeaks ==
    ASSUME TalkInv, HearingInv', NEW p \in Payloads, NEW answered \in Nat,
           Begin(p, answered),
           p.id = "response" =>
               /\ answered \in DOMAIN sent /\ sent[answered].left = 0
               /\ p.sid # Negative => p.did = sent[answered].did
    PROVE  \E f \in Frame : Spoke(f)
<1> DEFINE N == Len(sent) + 1
           left == FramesOf(p) - 1
           waits == FramesOf(p) > 1
           w == [id |-> p.id, sid |-> p.sid, of |-> p.of, pending |-> p.pending,
                 did |-> p.did, length |-> p.length, framed |-> p.framed,
                 start |-> time + 1, answers |-> answered, left |-> left, waits |-> waits]
           f == [time |-> time + 1, id |-> p.id, byte |-> FirstByte(p),
                 second |-> p.length % 256, chunk |-> <<N, 1>>]
<1>1. /\ HearingInv /\ TalkTypes /\ sent \in Seq(Said)
      /\ DOMAIN sent = 1 .. Len(sent) /\ Len(sent) \in Nat
  BY TalkIs
<1>2. /\ FirstByte(p) \in Byte /\ p.length % 256 \in Byte /\ p.id \in Talkers
  BY BytesFit
<1>3. sent' = Append(sent, w) /\ Emit(p.id, FirstByte(p), p.length % 256, N, 1) /\ ~Busy(p.id)
  BY DEF Begin
<1>4. /\ w.id = p.id /\ w.sid = p.sid /\ w.did = p.did /\ w.left = left
      /\ w.length = p.length /\ w.framed = p.framed /\ w.start = time + 1
      /\ w.answers = answered
  OBVIOUS
<1>5. w \in Said
  <2>1. sent' \in Seq(Said) /\ Len(sent') = N /\ sent'[N] = w
    <3>1. sent' \in Seq(Said)
      BY DEF HearingInv, TalkTypes
    <3> QED
      BY <1>1, <1>3, <3>1, AppendProperties
  <2> HIDE DEF w
  <2>2. N \in 1 .. Len(sent')
    BY <1>1, <2>1
  <2> QED
    BY <2>1, <2>2, ElementOfSeq
<1>6. /\ f \in Frame /\ time' = time + 1
      /\ \/ capture' = Append(capture, f) /\ missing' = missing
         \/ capture' = capture /\ missing' = missing + 1
  <2>1. p.id \in Ids /\ N \in Nat /\ 1 \in Nat
    BY <1>1, <1>2 DEF Talkers, Ids
  <2> QED
    BY <1>1, <1>2, <1>3, <2>1, FrameEmitted
<1>7. f.time = time + 1 /\ f.id = p.id /\ f.chunk = <<N, 1>>
  OBVIOUS
<1> HIDE DEF w, f
<1>8. FramesOf(w) = FramesOf(p)
  BY <1>4, Zenon DEF FramesOf
<1>9. Comes(w)
  BY <1>4 DEF Comes
<1>10. FollowsUp(w, sent)
  BY <1>4 DEF FollowsUp
<1>11. NewWord(f, w)
  BY <1>2, <1>3, <1>4, <1>7, <1>8, <1>9, <1>10 DEF NewWord
<1> QED
  BY <1>5, <1>6, <1>7, <1>11 DEF Spoke, Adds

LEMMA FlowSpeaks ==
    ASSUME TalkInv, NEW n \in DOMAIN sent, FlowControl(n)
    PROVE  \E f \in Frame : Spoke(f)
<1>1. /\ HearingInv /\ TalkTypes /\ \A k \in DOMAIN sent : sent[k] \in Said
  BY TalkIs
<1>2. PICK byte \in FlowBytes : Emit(Other(sent[n].id), byte, 0, 0, 0)
  BY DEF FlowControl
<1> DEFINE id == Other(sent[n].id)
           f == [time |-> time + 1, id |-> id, byte |-> byte, second |-> 0, chunk |-> <<0, 0>>]
<1>3. id \in Talkers /\ id \in Ids /\ byte \in Byte /\ 0 \in Byte
  <2>1. byte \in \h30 .. \h3F
    BY BusAssumption
  <2> QED
    BY <2>1 DEF Other, Talkers, Ids, Byte
<1>4. /\ f \in Frame /\ time' = time + 1
      /\ \/ capture' = Append(capture, f) /\ missing' = missing
         \/ capture' = capture /\ missing' = missing + 1
  <2> HIDE DEF id
  <2> QED
    BY <1>1, <1>2, <1>3, FrameEmitted DEF id
<1>5. f.time = time + 1 /\ f.id = id /\ f.chunk = <<0, 0>>
  OBVIOUS
<1>6. LeftIs(n, sent[n].left)
  <2>1. sent' = [sent EXCEPT ![n].waits = FALSE]
    BY DEF FlowControl
  <2>2. ASSUME NEW k \in DOMAIN sent
        PROVE  /\ sent'[k].id = sent[k].id /\ sent'[k].sid = sent[k].sid
               /\ sent'[k].of = sent[k].of
               /\ sent'[k].pending = sent[k].pending /\ sent'[k].length = sent[k].length
               /\ sent'[k].framed = sent[k].framed /\ sent'[k].start = sent[k].start
               /\ sent'[k].answers = sent[k].answers /\ sent'[k].did = sent[k].did
               /\ sent'[k].left = sent[k].left
    BY <1>1, <2>1 DEF Said
  <2> QED
    BY <2>1, <2>2 DEF Alike, LeftIs
<1> HIDE DEF f, id
<1> QED
  BY <1>3, <1>4, <1>5, <1>6 DEF Spoke, Adds, Flowed

LEMMA ContinueSpeaks ==
    ASSUME TalkInv, NEW n \in DOMAIN sent, Continue(n)
    PROVE  \E f \in Frame : Spoke(f)
<1> DEFINE part == FramesOf(sent[n]) - sent[n].left + 1
           byte == \h20 + ((part - 1) % 16)
           f == [time |-> time + 1, id |-> sent[n].id, byte |-> byte, second |-> 0,
                 chunk |-> <<n, part>>]
<1>1. /\ HearingInv /\ TalkTypes /\ \A k \in DOMAIN sent : sent[k] \in Said /\ k \in Nat
  BY TalkIs
<1>2. sent' = [sent EXCEPT ![n].left = @ - 1] /\ sent[n].left > 0
      /\ Emit(sent[n].id, byte, 0, n, part)
  BY DEF Continue
<1>3. /\ FramesOf(sent[n]) \in Nat \ {0} /\ sent[n].left \in Nat
      /\ sent[n].left < FramesOf(sent[n]) /\ sent[n].id \in Ids /\ sent[n].id \in Talkers
  BY <1>1, FramesAre, SaidIs DEF HearingInv, OneEach
<1>4. part \in Nat
  BY <1>3
<1>5. byte \in Byte /\ 0 \in Byte
  <2>1. \A k \in Nat : 32 + ((k - 1) % 16) \in 0 .. 255
    OBVIOUS
  <2> HIDE DEF part
  <2> QED
    BY <1>4, <2>1 DEF Byte
<1>6. f.time = time + 1 /\ f.id = sent[n].id /\ f.chunk = <<n, part>>
  OBVIOUS
<1>7. /\ f \in Frame /\ time' = time + 1
      /\ \/ capture' = Append(capture, f) /\ missing' = missing
         \/ capture' = capture /\ missing' = missing + 1
  <2> HIDE DEF part, byte
  <2> QED
    BY <1>1, <1>2, <1>3, <1>4, <1>5, FrameEmitted
<1> HIDE DEF f, byte
<1>8. LeftIs(n, sent[n].left - 1)
  <2>1. ASSUME NEW k \in DOMAIN sent
        PROVE  /\ sent'[k].id = sent[k].id /\ sent'[k].sid = sent[k].sid
               /\ sent'[k].of = sent[k].of
               /\ sent'[k].pending = sent[k].pending /\ sent'[k].length = sent[k].length
               /\ sent'[k].framed = sent[k].framed /\ sent'[k].start = sent[k].start
               /\ sent'[k].answers = sent[k].answers /\ sent'[k].did = sent[k].did
               /\ sent'[k].left = IF k = n THEN sent[n].left - 1 ELSE sent[k].left
    BY <1>1, <1>2 DEF Said
  <2> QED
    BY <1>2, <2>1 DEF Alike, LeftIs
<1> QED
  BY <1>2, <1>3, <1>6, <1>7, <1>8 DEF Spoke, Adds, WentOn

LEMMA SampleSpeaks ==
    ASSUME TalkInv, Sample
    PROVE  \E f \in Frame : Spoke(f)
<1> DEFINE part == InForce
           f == [time |-> time + 1, id |-> "data", byte |-> Packet, second |-> 0,
                 chunk |-> <<part, 0>>]
<1>1. TalkTypes /\ HearingInv
  BY TalkIs
<1>2. sent' = sent /\ part \in Nat /\ Packet \in Byte /\ 0 \in Byte /\ "data" \in Ids
  BY <1>1, InForceIs DEF Sample, Packet, Byte, Ids
<1>3. /\ f \in Frame /\ time' = time + 1
      /\ \/ capture' = Append(capture, f) /\ missing' = missing
         \/ capture' = capture /\ missing' = missing + 1
  <2>1. Emit("data", Packet, 0, part, 0)
    BY DEF Sample
  <2> HIDE DEF part
  <2> QED
    BY <1>1, <1>2, <2>1, FrameEmitted
<1>4. f.time = time + 1 /\ f.id = "data" /\ f.byte = Packet /\ f.chunk = <<part, 0>>
  OBVIOUS
<1>5. part # 0
  BY DEF Sample
<1> HIDE DEF f
<1> QED
  BY <1>2, <1>3, <1>4, <1>5 DEF Spoke, Adds, Sampled

LEMMA SpeakSpeaks ==
    ASSUME TalkInv, HearingInv', Speak
    PROVE  \E f \in Frame : Spoke(f)
<1>1. CASE \E p \in Payloads : Request(p)
  <2>1. PICK p \in Payloads : p.id = "request" /\ Begin(p, 0)
    BY <1>1 DEF Request
  <2>2. p.id # "response" /\ 0 \in Nat
    BY <2>1
  <2> QED
    BY <2>1, <2>2, BeginSpeaks
<1>2. CASE \E p \in Payloads, n \in DOMAIN sent : Answer(p, n)
  <2>1. PICK p \in Payloads, n \in DOMAIN sent : Answer(p, n)
    BY <1>2
  <2>2. n \in Nat /\ Begin(p, n) /\ sent[n].left = 0 /\ (p.sid # Negative => p.did = sent[n].did)
    BY <2>1, TalkIs DEF Answer
  <2> QED
    BY <2>2, BeginSpeaks
<1>3. CASE \E n \in DOMAIN sent : FlowControl(n)
  BY <1>3, FlowSpeaks
<1>4. CASE \E n \in DOMAIN sent : Continue(n)
  BY <1>4, ContinueSpeaks
<1>5. CASE Sample
  BY <1>5, SampleSpeaks
<1> QED
  BY <1>1, <1>2, <1>3, <1>4, <1>5 DEF Speak

(* The messages of a side come one after the other, and an answer after the *)
(* whole of its request.                                                   *)
InTurn(s) == \A n, m \in DOMAIN s : n < m /\ s[n].id = s[m].id => s[n].left = 0

Asked(s) == \A n \in DOMAIN s : Comes(s[n]) /\ FollowsUp(s[n], s)

(* A sample bears the definition that was accepted last when it was sent.   *)
SampleFits(f, s) ==
    f.id = "data" =>
        /\ f.byte = Packet /\ \A n \in DOMAIN s : s[n].start # f.time
        /\ \E a \in DOMAIN s :
              /\ s[a].sid = \h6C /\ s[a].start < f.time /\ f.chunk[1] = s[a].answers
              /\ \A b \in DOMAIN s : s[b].sid = \h6C /\ a < b => f.time < s[b].start

SamplesFit(c, s, t) == \A i \in DOMAIN c : c[i].time <= t /\ SampleFits(c[i], s)

TurnInv ==
    /\ TalkInv
    /\ InTurn(sent) /\ Asked(sent) /\ SamplesFit(capture, sent, time)

LEMMA LeftStaysIs ==
    ASSUME NEW n \in DOMAIN sent, NEW left, LeftIs(n, left), sent[n].left = 0 => left = 0
    PROVE  \A k \in DOMAIN sent : sent[k].left = 0 => sent'[k].left = 0
  BY DEF LeftIs

LEMMA ComesAlike ==
    ASSUME NEW s, NEW t, Alike(s, t), NEW n \in DOMAIN s, Comes(s[n])
    PROVE  Comes(t[n])
<1>1. /\ t[n].id = s[n].id /\ t[n].sid = s[n].sid /\ t[n].did = s[n].did
      /\ t[n].length = s[n].length /\ t[n].framed = s[n].framed
  BY Zenon DEF Alike
<1> QED
  BY <1>1 DEF Comes

(* What follows up on a message that is whole goes on doing so.             *)
LEMMA FollowsAlike ==
    ASSUME NEW s, NEW t, Alike(s, t), NEW n \in DOMAIN s, FollowsUp(s[n], s),
           \A k \in DOMAIN s : s[k].left = 0 => t[k].left = 0
    PROVE  FollowsUp(t[n], t)
<1>1. /\ t[n].id = s[n].id /\ t[n].sid = s[n].sid /\ t[n].did = s[n].did
      /\ t[n].answers = s[n].answers
  BY Zenon DEF Alike
<1>2. ASSUME s[n].id = "response"
      PROVE  /\ s[n].answers \in DOMAIN t /\ t[s[n].answers].left = 0
             /\ s[n].sid # Negative => s[n].did = t[s[n].answers].did
  <2>1. /\ s[n].answers \in DOMAIN s /\ s[s[n].answers].left = 0
        /\ s[n].sid # Negative => s[n].did = s[s[n].answers].did
    BY <1>2 DEF FollowsUp
  <2>2. s[n].answers \in DOMAIN t /\ t[s[n].answers].did = s[s[n].answers].did
    BY <2>1, Zenon DEF Alike
  <2> QED
    BY <2>1, <2>2
<1> QED
  BY <1>1, <1>2 DEF FollowsUp

LEMMA TurnsAlike ==
    ASSUME InTurn(sent), Asked(sent), Alike(sent, sent'), DOMAIN sent' = DOMAIN sent,
           \A k \in DOMAIN sent : sent[k].left = 0 => sent'[k].left = 0
    PROVE  InTurn(sent') /\ Asked(sent')
<1>1. \A k \in DOMAIN sent : sent'[k].id = sent[k].id
  BY Zenon DEF Alike
<1>2. InTurn(sent')
  BY <1>1 DEF InTurn
<1>3. Asked(sent')
  BY ComesAlike, FollowsAlike DEF Asked
<1> QED
  BY <1>2, <1>3

LEMMA TurnsBegin ==
    ASSUME TalkInv, InTurn(sent), Asked(sent), NEW w \in Said, NEW f, NewWord(f, w)
    PROVE  /\ InTurn(sent') /\ Asked(sent') /\ Alike(sent, sent')
           /\ DOMAIN sent' = DOMAIN sent \cup {Len(sent) + 1} /\ sent'[Len(sent) + 1] = w
           /\ \A k \in DOMAIN sent : sent'[k] = sent[k] /\ k < Len(sent) + 1
           /\ \A k \in DOMAIN sent : sent[k].id = w.id => sent[k].left = 0
<1> DEFINE N == Len(sent) + 1
<1>1. /\ sent \in Seq(Said) /\ DOMAIN sent = 1 .. Len(sent) /\ Len(sent) \in Nat
      /\ \A n \in DOMAIN sent : sent[n].left \in Nat
      /\ sent' = Append(sent, w)
  BY TalkIs, SaidIs DEF NewWord
<1>2. /\ DOMAIN sent' = DOMAIN sent \cup {N} /\ sent'[N] = w
      /\ \A k \in DOMAIN sent : sent'[k] = sent[k] /\ k < N /\ k \in Nat
      /\ N \in Nat
  BY <1>1, AppendProperties, LenProperties
<1>3. ASSUME NEW k \in DOMAIN sent, sent[k].id = w.id PROVE sent[k].left = 0
  <2>1. ~(sent[k].left > 0)
    BY <1>3 DEF NewWord, Busy
  <2> QED
    BY <1>1, <2>1
<1> HIDE DEF N
<1>4. Alike(sent, sent')
  BY <1>2, Zenon DEF Alike
<1>5. InTurn(sent')
  <2> SUFFICES ASSUME NEW n \in DOMAIN sent', NEW m \in DOMAIN sent', n < m,
                      sent'[n].id = sent'[m].id
               PROVE  sent'[n].left = 0
    BY DEF InTurn
  <2>1. n \in DOMAIN sent
    BY <1>2
  <2>2. CASE m \in DOMAIN sent
    BY <1>2, <2>1, <2>2 DEF InTurn
  <2>3. CASE m = N
    BY <1>2, <1>3, <2>1, <2>3
  <2> QED
    BY <1>2, <2>2, <2>3
<1>6. Asked(sent')
  <2>1. \A k \in DOMAIN sent : sent[k].left = 0 => sent'[k].left = 0
    BY <1>2
  <2>2. \A k \in DOMAIN sent : Comes(sent'[k]) /\ FollowsUp(sent'[k], sent')
    BY <1>4, <2>1, ComesAlike, FollowsAlike DEF Asked
  <2>3. Comes(w) /\ FollowsUp(w, sent')
    <3>1. Comes(w) /\ FollowsUp(w, sent)
      BY DEF NewWord
    <3>2. \A k \in DOMAIN sent : k \in DOMAIN sent' /\ sent'[k] = sent[k]
      BY <1>2
    <3> QED
      BY <3>1, <3>2 DEF FollowsUp
  <2> QED
    BY <1>2, <2>2, <2>3 DEF Asked
<1> QED
  BY <1>2, <1>3, <1>4, <1>5, <1>6 DEF N

LEMMA SamplesStep ==
    ASSUME TalkInv, SamplesFit(capture, sent, time), Alike(sent, sent'),
           \A n \in DOMAIN sent' \ DOMAIN sent : sent'[n].start = time + 1,
           NEW f \in Frame, Adds(f), SampleFits(f, sent')
    PROVE  SamplesFit(capture', sent', time')
<1>1. capture \in Seq(Frame) /\ time \in Nat /\ time' = time + 1 /\ f.time = time + 1
  BY TalkIs DEF Adds
<1>2. DOMAIN capture = 1 .. Len(capture) /\ Len(capture) \in Nat
      /\ \A i \in DOMAIN capture : capture[i].time \in Nat
  <2>1. DOMAIN capture = 1 .. Len(capture) /\ Len(capture) \in Nat
    BY <1>1, LenProperties
  <2>2. \A i \in DOMAIN capture : capture[i] \in Frame
    BY <1>1, <2>1, ElementOfSeq
  <2> QED
    BY <2>1, <2>2 DEF Frame
<1>3. ASSUME NEW i \in DOMAIN capture
      PROVE  capture[i].time <= time + 1 /\ SampleFits(capture[i], sent')
  <2>1. capture[i].time <= time /\ SampleFits(capture[i], sent)
    BY DEF SamplesFit
  <2>2. capture[i].time < time + 1
    BY <1>1, <1>2, <2>1
  <2>3. ASSUME capture[i].id = "data"
        PROVE  /\ capture[i].byte = Packet
               /\ \A n \in DOMAIN sent' : sent'[n].start # capture[i].time
               /\ \E a \in DOMAIN sent' :
                     /\ sent'[a].sid = \h6C /\ sent'[a].start < capture[i].time
                     /\ capture[i].chunk[1] = sent'[a].answers
                     /\ \A b \in DOMAIN sent' :
                           sent'[b].sid = \h6C /\ a < b => capture[i].time < sent'[b].start
    <3>1. /\ capture[i].byte = Packet
          /\ \A n \in DOMAIN sent : sent[n].start # capture[i].time
          /\ \E a \in DOMAIN sent :
                /\ sent[a].sid = \h6C /\ sent[a].start < capture[i].time
                /\ capture[i].chunk[1] = sent[a].answers
                /\ \A b \in DOMAIN sent :
                      sent[b].sid = \h6C /\ a < b => capture[i].time < sent[b].start
      BY <2>1, <2>3 DEF SampleFits
    <3>2. \A k \in DOMAIN sent :
             /\ k \in DOMAIN sent' /\ sent'[k].sid = sent[k].sid
             /\ sent'[k].start = sent[k].start /\ sent'[k].answers = sent[k].answers
      BY Zenon DEF Alike
    <3>3. \A k \in DOMAIN sent' \ DOMAIN sent :
             sent'[k].start # capture[i].time /\ capture[i].time < sent'[k].start
      BY <1>1, <1>2, <2>2
    <3>4. \A k \in DOMAIN sent' : sent'[k].start # capture[i].time
      BY <3>1, <3>2, <3>3
    <3>5. PICK a \in DOMAIN sent :
             /\ sent[a].sid = \h6C /\ sent[a].start < capture[i].time
             /\ capture[i].chunk[1] = sent[a].answers
             /\ \A b \in DOMAIN sent :
                   sent[b].sid = \h6C /\ a < b => capture[i].time < sent[b].start
      BY <3>1
    <3>6. \A b \in DOMAIN sent' :
             sent'[b].sid = \h6C /\ a < b => capture[i].time < sent'[b].start
      BY <3>2, <3>3, <3>5
    <3> QED
      BY <3>1, <3>2, <3>4, <3>5, <3>6
  <2>4. capture[i].time <= time + 1
    BY <1>1, <1>2, <2>2
  <2> QED
    BY <2>3, <2>4 DEF SampleFits
<1>4. CASE capture' = capture
  BY <1>1, <1>3, <1>4 DEF SamplesFit
<1>5. CASE capture' = Append(capture, f)
  <2>1. /\ DOMAIN capture' = DOMAIN capture \cup {Len(capture) + 1}
        /\ \A i \in DOMAIN capture : capture'[i] = capture[i]
        /\ capture'[Len(capture) + 1] = f
    BY <1>1, <1>2, <1>5, AppendProperties, LenProperties
  <2>2. f.time <= time + 1
    BY <1>1
  <2> QED
    BY <1>1, <1>3, <2>1, <2>2 DEF SamplesFit
<1> QED
  BY <1>4, <1>5 DEF Adds

LEMMA InForceIsLast ==
    ASSUME TalkInv, InForce # 0
    PROVE  \E a \in DOMAIN sent :
              /\ sent[a].sid = \h6C /\ InForce = sent[a].answers
              /\ \A b \in DOMAIN sent : sent[b].sid = \h6C => b <= a
<1> DEFINE T == {a \in DOMAIN sent : sent[a].sid = \h6C}
<1>1. T # {} /\ InForce = sent[Max(T)].answers
  BY DEF InForce
<1>2. DOMAIN sent = 1 .. Len(sent) /\ Len(sent) \in Nat
  BY TalkIs
<1>3. T \subseteq 1 .. Len(sent)
  BY <1>2
<1>4. \A x : x \in T <=> x \in DOMAIN sent /\ sent[x].sid = \h6C
  OBVIOUS
<1> HIDE DEF T
<1>5. Max(T) \in T /\ \A y \in T : y <= Max(T)
  BY <1>1, <1>2, <1>3, LastIs
<1> QED
  BY <1>1, <1>4, <1>5

LEMMA TurnSpeaks ==
    ASSUME TurnInv, TalkInv', NEW f \in Frame, Spoke(f)
    PROVE  TurnInv'
<1>1. /\ TalkInv /\ InTurn(sent) /\ Asked(sent) /\ SamplesFit(capture, sent, time) /\ Adds(f)
  BY DEF TurnInv, Spoke
<1>2. \A n \in DOMAIN sent : n \in Nat /\ sent[n].left \in Nat /\ sent[n].start <= time
                             /\ sent[n].start \in Nat /\ time \in Nat
  BY <1>1, TalkIs, SaidIs DEF InTime
<1>3. ASSUME NEW w \in Said, NewWord(f, w) PROVE TurnInv'
  <2>1. /\ InTurn(sent') /\ Asked(sent') /\ Alike(sent, sent')
        /\ \A n \in DOMAIN sent' \ DOMAIN sent : sent'[n] = w
    BY <1>1, <1>3, TurnsBegin
  <2>2. f.id # "data" /\ w.start = time + 1
    BY <1>3 DEF NewWord, Talkers
  <2>3. SampleFits(f, sent')
    BY <2>2 DEF SampleFits
  <2> QED
    BY <1>1, <2>1, <2>2, <2>3, SamplesStep DEF TurnInv
<1>4. ASSUME NEW n \in DOMAIN sent, Flowed(f, n) \/ WentOn(f, n) PROVE TurnInv'
  <2>1. PICK left : LeftIs(n, left) /\ (sent[n].left = 0 => left = 0)
    BY <1>2, <1>4 DEF Flowed, WentOn
  <2>2. /\ DOMAIN sent' = DOMAIN sent /\ Alike(sent, sent')
        /\ \A k \in DOMAIN sent : sent[k].left = 0 => sent'[k].left = 0
    BY <2>1, LeftStaysIs DEF LeftIs
  <2>3. InTurn(sent') /\ Asked(sent')
    BY <1>1, <2>2, TurnsAlike
  <2>4. f.id # "data"
    BY <1>4 DEF Flowed, WentOn, Talkers
  <2>5. SampleFits(f, sent')
    BY <2>4 DEF SampleFits
  <2>6. DOMAIN sent' \ DOMAIN sent = {}
    BY <2>2
  <2> QED
    BY <1>1, <2>2, <2>3, <2>5, <2>6, SamplesStep DEF TurnInv
<1>5. CASE Sampled(f)
  <2>1. sent' = sent /\ InForce # 0 /\ f.byte = Packet /\ f.chunk[1] = InForce
    BY <1>5 DEF Sampled
  <2>2. PICK a \in DOMAIN sent :
              /\ sent[a].sid = \h6C /\ InForce = sent[a].answers
              /\ \A b \in DOMAIN sent : sent[b].sid = \h6C => b <= a
    BY <1>1, <2>1, InForceIsLast
  <2>3. sent[a].start < f.time
    BY <1>1, <1>2 DEF Adds
  <2>4. \A b \in DOMAIN sent : ~(sent[b].sid = \h6C /\ a < b)
    BY <1>2, <2>2
  <2>5. SampleFits(f, sent')
    <3>1. \A n \in DOMAIN sent : sent[n].start # f.time
      BY <1>1, <1>2 DEF Adds
    <3> QED
      BY <2>1, <2>2, <2>3, <2>4, <3>1 DEF SampleFits
  <2>6. Alike(sent, sent') /\ DOMAIN sent' \ DOMAIN sent = {}
    BY <2>1 DEF Alike
  <2>7. InTurn(sent') /\ Asked(sent')
    BY <1>1, <2>1
  <2> QED
    BY <1>1, <2>5, <2>6, <2>7, SamplesStep DEF TurnInv
<1> QED
  BY <1>3, <1>4, <1>5 DEF Spoke

LEMMA SilentStep ==
    ASSUME [Next]_<<rows, lines, analysed, writerVars, conversation>>, ~Speak
    PROVE  UNCHANGED conversation
<1>1. ~AddFrame
  BY DEF AddFrame
<1> QED
  BY <1>1 DEF Next, AddRow, AddLine, WriterStep, AddReading, AddSession, conversation

LEMMA TurnStep ==
    ASSUME TurnInv, [Next]_<<rows, lines, analysed, writerVars, conversation>>
    PROVE  TurnInv'
<1>1. TalkInv /\ TalkInv' /\ HearingInv'
  BY TalkStep DEF TurnInv, TalkInv
<1>2. CASE Speak
  <2>1. PICK f \in Frame : Spoke(f)
    BY <1>1, <1>2, SpeakSpeaks
  <2> QED
    BY <1>1, <2>1, TurnSpeaks
<1>3. CASE ~Speak
  <2>1. capture' = capture /\ sent' = sent /\ time' = time
    BY <1>3, SilentStep DEF conversation
  <2> QED
    BY <1>1, <2>1 DEF TurnInv
<1> QED
  BY <1>2, <1>3

LEMMA InitTurn == ASSUME Init PROVE TurnInv
<1>1. DOMAIN capture = {} /\ DOMAIN sent = {}
  BY DEF Init, Silence
<1> QED
  BY <1>1, InitTalk DEF TurnInv, InTurn, Asked, SamplesFit


(* What the lenient reassembler recovers from a capture that misses none.   *)
WordOf(n) == Message(sent[n].start, sent[n].id, ChunksOf(n))
Entire == {n \in DOMAIN sent : sent[n].framed /\ sent[n].left = 0}

LEMMA WordOfIs ==
    ASSUME TalkInv, NEW n \in DOMAIN sent
    PROVE  /\ WordOf(n).time = sent[n].start /\ WordOf(n).id = sent[n].id
           /\ WordOf(n).chunks[1][1] = n /\ PayloadOf(WordOf(n)) = sent[n]
<1>1. FramesOf(sent[n]) \in Nat \ {0}
  BY TalkIs, FramesAre
<1>2. ChunksOf(n)[1] = <<n, 1>>
  BY <1>1 DEF ChunksOf
<1>3. /\ WordOf(n).time = sent[n].start /\ WordOf(n).id = sent[n].id
      /\ WordOf(n).chunks = ChunksOf(n)
  BY DEF WordOf, Message
<1>4. WordOf(n).chunks[1][1] = n
  BY <1>2, <1>3
<1> QED
  BY <1>3, <1>4 DEF PayloadOf

LEMMA DidsHeard ==
    ASSUME TalkInv, missing = 0
    PROVE  Range(ReassembleDids(capture)) = {WordOf(n) : n \in Entire}
<1>1. MessagesWereSent /\ 0 <= 1
  BY HearingFollows DEF TalkInv
<1>2. ReassembleDids(capture) \in {ReassembleSession(capture), ReassembleDids(capture)}
  OBVIOUS
<1>3. Range(ReassembleDids(capture)) = Spoken
  <2>1. Range(ReassembleDids(capture)) \subseteq Spoken
        /\ Spoken \subseteq Range(ReassembleDids(capture))
    BY <1>1, <1>2, Zenon DEF MessagesWereSent
  <2> QED
    BY <2>1
<1> QED
  BY <1>3, Zenon DEF Spoken, WordOf, Entire

(* What the payloads say: a definition is a framed request for the packet,  *)
(* what it is accepted by and what a read is answered by are responses.     *)
LEMMA SaysDefinition ==
    ASSUME TalkInv, Asked(sent), NEW n \in DOMAIN sent, sent[n].sid = \h2C
    PROVE  /\ sent[n].id = "request" /\ sent[n].framed /\ sent[n].did = Packet
           /\ sent[n].length >= 4 /\ sent[n].length % 2 = 0
<1>1. PICK p \in Payloads : /\ sent[n].id = p.id /\ sent[n].sid = p.sid /\ sent[n].did = p.did
                            /\ sent[n].length = p.length /\ sent[n].framed = p.framed
  BY DEF Asked, Comes
<1>2. ~p.framed => p.sid \div 16 \notin 0 .. 2
  BY BusAssumption
<1>3. p.framed
  <2>1. p.sid = 44 /\ 44 \div 16 \in 0 .. 2
    BY <1>1
  <2>2. p.framed \in BOOLEAN
    BY BytesFit
  <2> QED
    BY <1>2, <2>1, <2>2
<1>4. p.did = Packet /\ p.length >= 4 /\ p.length % 2 = 0
  BY <1>1, TrafficAssumption
<1>5. sent[n].id = "request"
  <2>1. sent[n].sid \in SERVICES
    BY DEF SERVICES
  <2>2. sent[n].sid \notin DOMAIN POSITIVE_TO_REQUEST \cup {Negative}
    BY <2>1, ServicesAre
  <2> QED
    BY <2>2, TalkIs, SaidIs DEF WordsFit, Talkers
<1> QED
  BY <1>1, <1>3, <1>4, <1>5

LEMMA SaysPositive ==
    ASSUME TalkInv, NEW n \in DOMAIN sent, NEW s \in {\h22, \h2C}, sent[n].sid = s + 64
    PROVE  /\ sent[n].id = "response" /\ sent[n].answers \in DOMAIN sent
           /\ sent[n].answers < n
           /\ sent[sent[n].answers].id = "request" /\ sent[sent[n].answers].sid = s
<1>1. DOMAIN SPECIAL_POSITIVE = {68, 73, 82, 88, 129}
  BY DEF SPECIAL_POSITIVE
<1>2. s \in SERVICES
  BY DEF SERVICES
<1>3. s + 64 \in DOMAIN POSITIVE_TO_REQUEST /\ s + 64 \notin DOMAIN SPECIAL_POSITIVE
  BY <1>1, <1>2, ServicesAre
<1>4. POSITIVE_TO_REQUEST[s + 64] = s
  BY <1>3 DEF POSITIVE_TO_REQUEST
<1>5. sent[n].sid # Negative
  BY DEF Negative
<1>6. sent[n].id = "response"
  <2>1. sent[n].sid \notin SERVICES
    BY <1>3, ServicesAre
  <2> QED
    BY <2>1, TalkIs, SaidIs DEF WordsFit, Talkers
<1>7. ServiceOf(sent[n]) = s
  BY <1>4, <1>5, <1>6 DEF ServiceOf
<1>8. /\ sent[n].answers \in 1 .. n - 1 /\ sent[sent[n].answers].id = "request"
      /\ ServiceOf(sent[n]) = sent[sent[n].answers].sid
  BY <1>6, TalkIs DEF WordsFit
<1>9. sent[n].answers \in DOMAIN sent /\ sent[n].answers < n
  BY <1>8, TalkIs
<1> QED
  BY <1>6, <1>7, <1>8, <1>9

LEMMA StartsInTurn ==
    ASSUME TalkInv, NEW k \in DOMAIN sent, NEW l \in DOMAIN sent
    PROVE  /\ sent[k].start < sent[l].start <=> k < l
           /\ sent[k].start <= sent[l].start <=> k <= l
           /\ sent[k].start = sent[l].start <=> k = l
<1>1. sent[k].start \in Nat /\ sent[l].start \in Nat /\ k \in Nat /\ l \in Nat
  BY TalkIs, SaidIs
<1>2. /\ k < l => sent[k].start < sent[l].start
      /\ l < k => sent[l].start < sent[k].start
  BY TalkIs DEF InTime
<1>3. k = l \/ k < l \/ l < k
  BY <1>1
<1> QED
  BY <1>1, <1>2, <1>3

LEMMA Labels == ASSUME TurnInv PROVE SamplesLabelled
<1> DEFINE M == Definitions(ReassembleDids(capture))
<1> SUFFICES ASSUME missing = 0, Orderly, NEW s \in PacketSamples(capture, ReassembleDids(capture)),
                    \A d \in DOMAIN sent : (sent[d].sid = \h2C /\ sent[d].start < s.frame.time) =>
                       \E a \in AnswersOf(d) : sent[a].sid = \h6C /\ sent[a].start < s.frame.time
             PROVE  s.definition = s.frame.chunk[1]
  BY DEF SamplesLabelled
<1>1. TalkInv /\ Asked(sent) /\ SamplesFit(capture, sent, time)
  BY DEF TurnInv
<1>2. PICK f \in Range(capture) : f.id = "data" /\ s = SampleOf(f, M)
  BY DEF PacketSamples
<1> HIDE DEF M
<1> DEFINE known == {m \in M : m.time <= f.time /\ PayloadOf(m).did = f.byte}
           last == CHOOSE m \in known : \A k \in known : k.time <= m.time
<1>3. s.frame = f /\ s.definition = IF known = {} THEN 0 ELSE last.chunks[1][1]
  BY <1>2 DEF SampleOf
<1> HIDE DEF last
<1>4. /\ f.byte = Packet /\ \A n \in DOMAIN sent : sent[n].start # f.time
      /\ \E a \in DOMAIN sent :
            /\ sent[a].sid = \h6C /\ sent[a].start < f.time /\ f.chunk[1] = sent[a].answers
            /\ \A b \in DOMAIN sent : sent[b].sid = \h6C /\ a < b => f.time < sent[b].start
      /\ f.time \in Nat
  <2>1. PICK i \in DOMAIN capture : f = capture[i]
    BY DEF Range
  <2>2. SampleFits(f, sent)
    BY <1>1, <2>1 DEF SamplesFit
  <2>3. f \in Frame
    BY <1>1, <2>1, TalkIs, ElementOfSeq, LenProperties
  <2> QED
    BY <1>2, <2>2, <2>3 DEF SampleFits, Frame
<1>5. PICK a \in DOMAIN sent :
            /\ sent[a].sid = \h6C /\ sent[a].start < f.time /\ f.chunk[1] = sent[a].answers
            /\ \A b \in DOMAIN sent : sent[b].sid = \h6C /\ a < b => f.time < sent[b].start
  BY <1>4
<1> DEFINE d == sent[a].answers
<1>6. sent[a].id = "response" /\ d \in DOMAIN sent /\ d < a /\ sent[d].sid = \h2C
  <2>1. \h2C \in {\h22, \h2C} /\ sent[a].sid = \h2C + 64
    BY <1>5
  <2> QED
    BY <1>1, <2>1, SaysPositive
<1>7. sent[d].left = 0
  BY <1>1, <1>6 DEF Asked, FollowsUp
<1> HIDE DEF d
<1>8. \A m : m \in M <=> \E n \in DOMAIN sent : m = WordOf(n) /\ sent[n].sid = \h2C /\ sent[n].left = 0
  <2>1. M = {m \in {WordOf(n) : n \in Entire} :
               /\ m.id = "request" /\ PayloadOf(m).sid = \h2C
               /\ PayloadOf(m).length >= 4 /\ PayloadOf(m).length % 2 = 0}
    BY <1>1, DidsHeard DEF M, Definitions
  <2>2. \A n \in DOMAIN sent : WordOf(n).id = sent[n].id /\ PayloadOf(WordOf(n)) = sent[n]
    BY <1>1, WordOfIs
  <2>3. \A n \in DOMAIN sent : sent[n].sid = \h2C =>
           /\ sent[n].id = "request" /\ sent[n].framed
           /\ sent[n].length >= 4 /\ sent[n].length % 2 = 0
    BY <1>1, SaysDefinition
  <2> QED
    BY <2>1, <2>2, <2>3 DEF Entire
<1>9. \A m : m \in known <=> \E n \in DOMAIN sent : /\ m = WordOf(n) /\ sent[n].sid = \h2C
                                                  /\ sent[n].left = 0 /\ sent[n].start <= f.time
  <2>1. \A n \in DOMAIN sent : WordOf(n).time = sent[n].start /\ PayloadOf(WordOf(n)) = sent[n]
    BY <1>1, WordOfIs
  <2>2. \A n \in DOMAIN sent : sent[n].sid = \h2C => sent[n].did = f.byte
    BY <1>1, <1>4, SaysDefinition
  <2>3. \A m : m \in known <=> m \in M /\ m.time <= f.time /\ PayloadOf(m).did = f.byte
    OBVIOUS
  <2> HIDE DEF known
  <2> QED
    BY <1>8, <2>1, <2>2, <2>3
<1>10. ASSUME NEW n \in DOMAIN sent, sent[n].sid = \h2C, sent[n].start <= f.time
       PROVE  n <= d
  <2>1. sent[n].start < f.time
    BY <1>1, <1>4, <1>10, TalkIs, SaidIs
  <2>2. PICK b \in AnswersOf(n) : sent[b].sid = \h6C /\ sent[b].start < f.time
    BY <1>3, <1>10, <2>1
  <2>3. b \in DOMAIN sent /\ sent[b].answers = n
    BY DEF AnswersOf
  <2>4. ~(a < b)
    <3>1. ~(f.time < sent[b].start)
      BY <1>1, <1>4, <2>2, <2>3, TalkIs, SaidIs
    <3> QED
      BY <1>5, <2>2, <2>3, <3>1
  <2>5. n < b
    <3>1. \h2C \in {\h22, \h2C} /\ sent[b].sid = \h2C + 64
      BY <2>2
    <3> QED
      BY <1>1, <2>3, <3>1, SaysPositive
  <2>6. sent[n].id = "request"
    BY <1>1, <1>10, SaysDefinition
  <2>7. d < n => a < n
    <3>1. d # 0
      BY <1>1, <1>6, TalkIs
    <3> QED
      BY <1>6, <1>10, <2>6, <3>1 DEF Orderly, d
  <2>8. a \in Nat /\ b \in Nat /\ n \in Nat /\ d \in Nat
    BY <1>1, <1>6, <2>3, TalkIs
  <2> QED
    BY <2>4, <2>5, <2>7, <2>8
<1>11. WordOf(d) \in known
  <2>1. sent[d].start <= f.time
    <3>1. sent[d].start < sent[a].start
      BY <1>1, <1>6, StartsInTurn
    <3>2. sent[d].start \in Nat /\ sent[a].start \in Nat
      BY <1>1, <1>6, TalkIs, SaidIs
    <3> QED
      BY <1>4, <1>5, <3>1, <3>2
  <2> QED
    BY <1>6, <1>7, <1>9, <2>1
<1>12. \A k \in known : k.time <= WordOf(d).time
  <2> SUFFICES ASSUME NEW k \in known PROVE k.time <= WordOf(d).time
    OBVIOUS
  <2>1. PICK n \in DOMAIN sent : k = WordOf(n) /\ sent[n].sid = \h2C /\ sent[n].start <= f.time
    BY <1>9
  <2>2. n <= d
    BY <1>10, <2>1
  <2>3. sent[n].start <= sent[d].start
    BY <1>1, <1>6, <2>2, StartsInTurn
  <2> QED
    BY <1>1, <1>6, <2>1, <2>3, WordOfIs
<1>13. last \in known /\ \A k \in known : k.time <= last.time
  BY <1>11, <1>12 DEF last
<1>14. last = WordOf(d)
  <2>1. PICK n \in DOMAIN sent : last = WordOf(n) /\ sent[n].sid = \h2C /\ sent[n].start <= f.time
    BY <1>9, <1>13
  <2>2. n <= d
    BY <1>10, <2>1
  <2>3. sent[d].start <= sent[n].start
    <3>1. WordOf(d).time <= WordOf(n).time
      BY <1>11, <1>13, <2>1
    <3> QED
      BY <1>1, <1>6, <2>1, <3>1, WordOfIs
  <2>4. d <= n
    BY <1>1, <1>6, <2>3, StartsInTurn
  <2>5. n = d
    BY <1>1, <1>6, <2>2, <2>4, TalkIs
  <2> QED
    BY <2>1, <2>5
<1>15. last.chunks[1][1] = d
  BY <1>1, <1>6, <1>14, WordOfIs
<1> QED
  BY <1>3, <1>5, <1>11, <1>15 DEF d

-----------------------------------------------------------------------------
(* The pairs of reads and their answers, message by message, among what s   *)
(* has said.                                                               *)
Nothing == [pending |-> [d \in Dids |-> <<>>], pairs |-> {}]

FitsOf(queue, m) == {i \in DOMAIN queue : m.time - queue[i].time \in 0 .. Window}

PairStep(s, acc, m) ==
    LET p == s[m.chunks[1][1]]
        queue == acc.pending[p.did]
    IN  CASE m.id = "request" /\ p.sid = \h22 ->
               [acc EXCEPT !.pending[p.did] = Append(@, m)]
          [] m.id = "response" /\ p.sid = \h62 /\ FitsOf(queue, m) # {} ->
               [acc EXCEPT !.pending[p.did] = SubSeq(@, Min(FitsOf(queue, m)) + 1, Len(@)),
                           !.pairs = @ \cup {[request |-> queue[Min(FitsOf(queue, m))],
                                              response |-> m]}]
          [] m.id = "response" /\ p.sid = \h62 /\ FitsOf(queue, m) = {} ->
               [acc EXCEPT !.pending[p.did] = <<>>]
          [] OTHER -> acc

PairedBy(s, messages) ==
    LET paired[n \in 0 .. Len(messages)] ==
            IF n = 0 THEN Nothing ELSE PairStep(s, paired[n - 1], messages[n])
    IN  paired

LEMMA PairingBy == ASSUME NEW messages PROVE Pairing(messages) = PairedBy(sent, messages)
<1>1. \A acc, m : PairMessage(acc, m) = PairStep(sent, acc, m)
  BY Zenon DEF PairMessage, PairStep, PayloadOf, FitsOf
<1> QED
  BY <1>1, Zenon DEF Pairing, PairedBy, Nothing

LEMMA PairedByIs ==
    ASSUME NEW s, NEW messages, Len(messages) \in Nat
    PROVE  /\ PairedBy(s, messages)[0] = Nothing
           /\ \A n \in 1 .. Len(messages) :
                 PairedBy(s, messages)[n] = PairStep(s, PairedBy(s, messages)[n - 1], messages[n])
<1> DEFINE N == Len(messages)
           step(g, n) == IF n = 0 THEN Nothing ELSE PairStep(s, g[n - 1], messages[n])
           Built == {m \in 0 .. N : \E g : g = [n \in 0 .. m |-> step(g, n)]}
<1>1. 0 \in Built
  <2> DEFINE g == [n \in 0 .. 0 |-> Nothing]
  <2>1. g = [n \in 0 .. 0 |-> step(g, n)]
    OBVIOUS
  <2>2. 0 \in 0 .. N
    OBVIOUS
  <2> HIDE DEF g, step, N
  <2> QED
    BY <2>1, <2>2
<1>2. ASSUME NEW m \in 0 .. N - 1, m \in Built PROVE m + 1 \in Built
  <2>1. PICK g : g = [n \in 0 .. m |-> step(g, n)]
    BY <1>2
  <2> DEFINE h == [n \in 0 .. m + 1 |->
                      IF n = m + 1 THEN PairStep(s, g[m], messages[m + 1]) ELSE g[n]]
  <2>2. ASSUME NEW n \in 0 .. m + 1 PROVE h[n] = step(h, n)
    <3>1. CASE n = 0
      <4>1. h[0] = g[0] /\ 0 \in 0 .. m
        OBVIOUS
      <4>2. g[0] = step(g, 0)
        <5> HIDE DEF step
        <5> QED
          BY <2>1, <4>1
      <4>3. step(g, 0) = Nothing /\ step(h, 0) = Nothing
        BY Zenon
      <4> QED
        BY <3>1, <4>1, <4>2, <4>3, Zenon
    <3>2. CASE n \in 1 .. m
      <4>1. n \in 0 .. m /\ n # 0 /\ n # m + 1 /\ n - 1 \in 0 .. m + 1 /\ n - 1 # m + 1
        BY <3>2
      <4>2. g[n] = step(g, n)
        <5> HIDE DEF step
        <5> QED
          BY <2>1, <4>1
      <4>3. h[n] = g[n] /\ h[n - 1] = g[n - 1]
        BY <4>1
      <4> QED
        BY <4>1, <4>2, <4>3, Zenon
    <3>3. CASE n = m + 1
      <4>1. n # 0 /\ n - 1 = m /\ m \in 0 .. m + 1 /\ m # m + 1
        BY <3>3
      <4>2. h[n] = PairStep(s, g[m], messages[m + 1]) /\ h[m] = g[m]
        BY <3>3, <4>1
      <4> QED
        BY <3>3, <4>1, <4>2, Zenon
    <3> QED
      BY <3>1, <3>2, <3>3
  <2>3. h = [n \in 0 .. m + 1 |-> step(h, n)]
    <3>1. h = [n \in 0 .. m + 1 |-> h[n]]
      OBVIOUS
    <3> HIDE DEF h
    <3> QED
      BY <2>2, <3>1
  <2>4. m + 1 \in 0 .. N
    OBVIOUS
  <2> HIDE DEF h, step
  <2> QED
    BY <2>3, <2>4
<1>3. N \in Built
  <2>1. N \in Nat /\ N \in 0 .. N
    OBVIOUS
  <2> HIDE DEF N, Built
  <2> QED
    BY <1>1, <1>2, <2>1, Counting
<1>4. PICK g : g = [n \in 0 .. N |-> step(g, n)]
  BY <1>3
<1> DEFINE r == PairedBy(s, messages)
<1>5. r = CHOOSE a : a = [n \in 0 .. N |-> step(a, n)]
  BY DEF PairedBy
<1>6. r = [n \in 0 .. N |-> step(r, n)]
  <2> HIDE DEF step, r, N
  <2> QED
    BY <1>4, <1>5
<1> HIDE DEF r
<1>7. r[0] = Nothing
  <2>1. 0 \in 0 .. N
    OBVIOUS
  <2>2. r[0] = step(r, 0)
    <3> HIDE DEF step, N
    <3> QED
      BY <1>6, <2>1
  <2> QED
    BY <2>2, Zenon
<1>8. ASSUME NEW n \in 1 .. N PROVE r[n] = PairStep(s, r[n - 1], messages[n])
  <2>1. n \in 0 .. N /\ n # 0
    OBVIOUS
  <2>2. r[n] = step(r, n)
    <3> HIDE DEF step, N
    <3> QED
      BY <1>6, <2>1
  <2> QED
    BY <2>1, <2>2, Zenon
<1> QED
  BY <1>7, <1>8 DEF r

(* What was paired stays so when more is said.                             *)
LEMMA PairedStays ==
    ASSUME NEW s, NEW t, NEW messages, NEW more,
           Len(messages) \in Nat, Len(more) \in Nat, Len(messages) <= Len(more),
           \A i \in 1 .. Len(messages) :
               /\ more[i] = messages[i]
               /\ s[messages[i].chunks[1][1]].sid = t[messages[i].chunks[1][1]].sid
               /\ s[messages[i].chunks[1][1]].did = t[messages[i].chunks[1][1]].did
    PROVE  PairedBy(t, more)[Len(messages)] = PairedBy(s, messages)[Len(messages)]
<1> DEFINE N == Len(messages)
           r == PairedBy(s, messages)
           q == PairedBy(t, more)
           T == {n \in 0 .. N : q[n] = r[n]}
<1>1. r[0] = Nothing /\ \A n \in 1 .. N : r[n] = PairStep(s, r[n - 1], messages[n])
  BY PairedByIs
<1>2. q[0] = Nothing /\ \A n \in 1 .. Len(more) : q[n] = PairStep(t, q[n - 1], more[n])
  BY PairedByIs
<1>3. \A n \in 1 .. N : n \in 1 .. Len(more)
  OBVIOUS
<1>4. ASSUME NEW i \in 1 .. N, NEW acc
      PROVE  PairStep(t, acc, more[i]) = PairStep(s, acc, messages[i])
  <2> DEFINE m == messages[i]
  <2>1. more[i] = m /\ s[m.chunks[1][1]].sid = t[m.chunks[1][1]].sid
        /\ s[m.chunks[1][1]].did = t[m.chunks[1][1]].did
    OBVIOUS
  <2> HIDE DEF m
  <2> QED
    BY <2>1, Zenon DEF PairStep, m
<1> HIDE DEF r, q
<1>5. 0 \in T
  BY <1>1, <1>2
<1>6. ASSUME NEW n \in 0 .. N - 1, n \in T PROVE n + 1 \in T
  <2>1. n + 1 \in 1 .. N /\ (n + 1) - 1 = n /\ n + 1 \in 0 .. N
    OBVIOUS
  <2>2. q[n] = r[n]
    BY <1>6
  <2>3. q[n + 1] = PairStep(t, q[n], more[n + 1])
    BY <1>2, <1>3, <2>1
  <2>4. r[n + 1] = PairStep(s, r[n], messages[n + 1])
    BY <1>1, <2>1
  <2>5. q[n + 1] = r[n + 1]
    BY <1>4, <2>1, <2>2, <2>3, <2>4
  <2> QED
    BY <2>1, <2>5
<1>7. \A n \in 0 .. N : n \in T
  <2> HIDE DEF T, N
  <2>1. N \in Nat
    BY DEF N
  <2> QED
    BY <1>5, <1>6, <2>1, Counting
<1>8. N \in T
  BY <1>7
<1> QED
  BY <1>8 DEF r, q

(* What one message does to them: a read queues, its answer takes one.      *)
Read(s, n) == s[n].sid = \h22
Positive(s, a) == s[a].sid = \h62

PairTypes(P) ==
    P \in [pending : [Dids -> Seq(Told)], pairs : SUBSET [request : Told, response : Told]]

LEMMA WordIs ==
    ASSUME NEW s \in Seq(Said), NEW n \in DOMAIN s
    PROVE  /\ Word(s, n).time = s[n].start /\ Word(s, n).id = s[n].id
           /\ Word(s, n).chunks[1][1] = n /\ Word(s, n) \in Told
<1>1. s[n] \in Said /\ n \in Nat
  BY LenProperties, ElementOfSeq
<1>2. FramesOf(s[n]) \in Nat \ {0}
  BY <1>1, FramesAre
<1> DEFINE c == [k \in 1 .. FramesOf(s[n]) |-> <<n, k>>]
<1>3. c[1][1] = n /\ c \in Seq(Chunk)
  <2>1. c[1] = <<n, 1>>
    BY <1>2
  <2>2. c \in [1 .. FramesOf(s[n]) -> Chunk]
    BY <1>1, <1>2 DEF Chunk
  <2> QED
    BY <1>2, <2>1, <2>2
<1> HIDE DEF c
<1>4. Word(s, n) = [time |-> s[n].start, id |-> s[n].id, chunks |-> c]
  BY DEF Word, Message, c
<1> QED
  BY <1>1, <1>3, <1>4, SaidIs DEF Told

LEMMA FirstIs ==
    ASSUME NEW T, T \subseteq Nat, T # {}
    PROVE  Min(T) \in T /\ \A y \in T : Min(T) <= y
<1>1. \E x \in T : \A y \in T : x <= y
  BY Smallest
<1> QED
  BY <1>1, Zenon DEF Min

(* The message m is n, about d.                                            *)
Says(s, m, n, d) == m.chunks[1][1] = n /\ s[n].did = d

(* What becomes of the queues: m is last in that of d, or k and those       *)
(* before it are gone, or all.                                             *)
Queues(P, R, d, m) ==
    LET q == P.pending[d]
    IN  /\ PairTypes(R) /\ R.pairs = P.pairs
        /\ DOMAIN q = 1 .. Len(q) /\ Len(q) \in Nat
        /\ DOMAIN R.pending[d] = 1 .. Len(q) + 1
        /\ \A i \in 1 .. Len(q) : R.pending[d][i] = q[i]
        /\ R.pending[d][Len(q) + 1] = m
        /\ \A e \in Dids \ {d} : R.pending[e] = P.pending[e]

Takes(P, R, d, m, k) ==
    LET q == P.pending[d]
    IN  /\ DOMAIN q = 1 .. Len(q) /\ Len(q) \in Nat /\ k \in DOMAIN q
        /\ m.time - q[k].time \in 0 .. Window
        /\ \A i \in DOMAIN q : m.time - q[i].time \in 0 .. Window => k <= i
        /\ PairTypes(R) /\ R.pairs = P.pairs \cup {[request |-> q[k], response |-> m]}
        /\ DOMAIN R.pending[d] = 1 .. Len(q) - k
        /\ \A i \in DOMAIN R.pending[d] : k + i \in DOMAIN q /\ R.pending[d][i] = q[k + i]
        /\ \A e \in Dids \ {d} : R.pending[e] = P.pending[e]

Drops(P, R, d) ==
    /\ PairTypes(R) /\ R.pairs = P.pairs
    /\ DOMAIN R.pending[d] = {}
    /\ \A e \in Dids \ {d} : R.pending[e] = P.pending[e]

LEMMA ReadQueues ==
    ASSUME NEW s, NEW P, PairTypes(P), NEW m \in Told, m.id = "request",
           NEW n, NEW d \in Dids, Says(s, m, n, d), Read(s, n)
    PROVE  Queues(P, PairStep(s, P, m), d, m)
<1> DEFINE R == PairStep(s, P, m)
           q == P.pending[d]
           more == Append(q, m)
<1>1. q \in Seq(Told)
  BY DEF PairTypes
<1>2. R = [P EXCEPT !.pending[d] = more]
  BY DEF PairStep, Read, Says
<1> HIDE DEF q, R
<1>3. /\ more \in Seq(Told) /\ Len(more) = Len(q) + 1 /\ DOMAIN q = 1 .. Len(q) /\ Len(q) \in Nat
      /\ \A i \in 1 .. Len(q) : more[i] = q[i]
      /\ more[Len(q) + 1] = m
  BY <1>1, AppendProperties, LenProperties
<1>4. DOMAIN more = 1 .. Len(q) + 1
  <2> HIDE DEF more
  <2> QED
    BY <1>3, LenProperties
<1> HIDE DEF more
<1>5. R.pairs = P.pairs /\ R.pending = [P.pending EXCEPT ![d] = more] /\ PairTypes(R)
  BY <1>2, <1>3 DEF PairTypes
<1>6. R.pending[d] = more /\ \A e \in Dids \ {d} : R.pending[e] = P.pending[e]
  BY <1>5 DEF PairTypes
<1> QED
  BY <1>3, <1>4, <1>5, <1>6 DEF q, R, Queues

LEMMA AnswerTakes ==
    ASSUME NEW s, NEW P, PairTypes(P), NEW m \in Told, m.id = "response",
           NEW n, NEW d \in Dids, Says(s, m, n, d), Positive(s, n),
           FitsOf(P.pending[d], m) # {}
    PROVE  \E k \in DOMAIN P.pending[d] : Takes(P, PairStep(s, P, m), d, m, k)
<1> DEFINE R == PairStep(s, P, m)
           q == P.pending[d]
           k == Min(FitsOf(q, m))
           rest == SubSeq(q, k + 1, Len(q))
           more == P.pairs \cup {[request |-> q[k], response |-> m]}
<1>1. q \in Seq(Told) /\ DOMAIN q = 1 .. Len(q) /\ Len(q) \in Nat
      /\ \A i \in DOMAIN q : q[i] \in Told
  <2>1. q \in Seq(Told)
    BY DEF PairTypes
  <2> HIDE DEF q
  <2>2. DOMAIN q = 1 .. Len(q) /\ Len(q) \in Nat
    BY <2>1, LenProperties
  <2> QED
    BY <2>1, <2>2, ElementOfSeq
<1>2. R = [P EXCEPT !.pending[d] = rest, !.pairs = more]
  BY DEF PairStep, Positive, Says
<1> HIDE DEF R, rest, more, q
<1>3. FitsOf(q, m) \subseteq 1 .. Len(q) /\ FitsOf(q, m) # {}
  BY <1>1 DEF FitsOf, q
<1>4. k \in FitsOf(q, m) /\ \A y \in FitsOf(q, m) : k <= y
  <2>1. FitsOf(q, m) \subseteq Nat
    BY <1>1, <1>3
  <2> QED
    BY <1>3, <2>1, FirstIs
<1> HIDE DEF k
<1>5. k \in DOMAIN q /\ m.time - q[k].time \in 0 .. Window /\ k \in 1 .. Len(q)
      /\ \A i \in DOMAIN q : m.time - q[i].time \in 0 .. Window => k <= i
  BY <1>1, <1>4 DEF FitsOf
<1>6. rest \in Seq(Told) /\ Len(rest) = Len(q) - k
      /\ \A i \in 1 .. Len(q) - k : rest[i] = q[k + i]
  <2>1. \A i \in k + 1 .. Len(q) : q[i] \in Told
    BY <1>1, <1>5
  <2>2. /\ rest \in Seq(Told)
        /\ Len(rest) = IF k + 1 <= Len(q) THEN Len(q) - (k + 1) + 1 ELSE 0
        /\ \A i \in 1 .. Len(q) - (k + 1) + 1 : rest[i] = q[(k + 1) + i - 1]
    <3>1. k + 1 \in Int /\ Len(q) \in Int
      BY <1>1, <1>5
    <3> QED
      BY <2>1, <3>1, SubSeqProperties DEF rest
  <2>3. Len(q) - (k + 1) + 1 = Len(q) - k /\ (~(k + 1 <= Len(q)) => Len(q) - k = 0)
        /\ \A i \in 1 .. Len(q) - k : (k + 1) + i - 1 = k + i
    BY <1>1, <1>5
  <2> QED
    BY <2>2, <2>3
<1>7. more \in SUBSET [request : Told, response : Told]
  BY <1>1, <1>5 DEF PairTypes, more
<1>8. R.pairs = more /\ R.pending = [P.pending EXCEPT ![d] = rest] /\ PairTypes(R)
  BY <1>2, <1>6, <1>7 DEF PairTypes
<1>9. R.pending[d] = rest /\ \A e \in Dids \ {d} : R.pending[e] = P.pending[e]
  BY <1>8 DEF PairTypes
<1>10. DOMAIN rest = 1 .. Len(q) - k /\ \A i \in DOMAIN rest : k + i \in DOMAIN q
  <2>1. DOMAIN rest = 1 .. Len(q) - k
    BY <1>6, LenProperties
  <2> QED
    BY <1>1, <1>5, <2>1
<1>11. /\ DOMAIN R.pending[d] = 1 .. Len(q) - k
       /\ \A i \in DOMAIN R.pending[d] :
             k + i \in DOMAIN q /\ R.pending[d][i] = q[k + i]
  BY <1>6, <1>9, <1>10
<1>12. PairTypes(R) /\ R.pairs = P.pairs \cup {[request |-> q[k], response |-> m]}
  BY <1>8 DEF more
<1>13. Takes(P, R, d, m, k)
  BY <1>1, <1>5, <1>9, <1>11, <1>12 DEF q, Takes
<1> QED
  BY <1>5, <1>13 DEF q, R

LEMMA AnswerDrops ==
    ASSUME NEW s, NEW P, PairTypes(P), NEW m \in Told, m.id = "response",
           NEW n, NEW d \in Dids, Says(s, m, n, d), Positive(s, n),
           FitsOf(P.pending[d], m) = {}
    PROVE  Drops(P, PairStep(s, P, m), d)
<1> DEFINE R == PairStep(s, P, m)
<1>1. R = [P EXCEPT !.pending[d] = <<>>]
  BY DEF PairStep, Positive, Says
<1> HIDE DEF R
<1>2. <<>> \in Seq(Told) /\ DOMAIN <<>> = {}
  OBVIOUS
<1>3. R.pairs = P.pairs /\ R.pending = [P.pending EXCEPT ![d] = <<>>] /\ PairTypes(R)
  <2> DEFINE none == <<>>
  <2>1. none \in Seq(Told) /\ R = [P EXCEPT !.pending[d] = none]
    BY <1>1, <1>2
  <2> HIDE DEF none
  <2>2. R.pairs = P.pairs /\ R.pending = [P.pending EXCEPT ![d] = none] /\ PairTypes(R)
    BY <2>1 DEF PairTypes
  <2> QED
    BY <2>2 DEF none
<1>4. R.pending[d] = <<>> /\ \A e \in Dids \ {d} : R.pending[e] = P.pending[e]
  BY <1>3 DEF PairTypes
<1> QED
  BY <1>2, <1>3, <1>4 DEF R, Drops

LEMMA OtherLeaves ==
    ASSUME NEW s, NEW P, NEW m, NEW n, m.chunks[1][1] = n,
           ~(m.id = "request" /\ Read(s, n)), ~(m.id = "response" /\ Positive(s, n))
    PROVE  PairStep(s, P, m) = P
  BY DEF PairStep, Read, Positive

(* What reads and their answers are.                                       *)
ReadsFit(s) ==
    /\ s \in Seq(Said)
    /\ \A n \in DOMAIN s : Read(s, n) =>
          s[n].id = "request" /\ s[n].framed /\ s[n].did \in Dids
    /\ \A a \in DOMAIN s : Positive(s, a) =>
          /\ s[a].id = "response" /\ s[a].framed /\ s[a].did \in Dids
          /\ s[a].answers \in DOMAIN s /\ s[a].answers < a
          /\ Read(s, s[a].answers) /\ s[s[a].answers].did = s[a].did
    /\ \A a, b \in DOMAIN s :
          Positive(s, a) /\ Positive(s, b) /\ s[a].answers = s[b].answers => a = b
    /\ \A k, l \in DOMAIN s : s[k].start < s[l].start <=> k < l

(* AnswersInOrder, and that every read before an answered one is answered.  *)
InAnswerOrder(s) ==
    \A a \in DOMAIN s : Positive(s, a) =>
        /\ s[a].start - s[s[a].answers].start <= Window
        /\ \A b \in DOMAIN s :
              Positive(s, b) /\ s[a].did = s[b].did /\ s[a].answers < s[b].answers => a < b

Answered(s, n) == \E b \in DOMAIN s : Positive(s, b) /\ s[b].answers = n

AllAnswered(s) ==
    \A a, n \in DOMAIN s :
        Positive(s, a) /\ Read(s, n) /\ s[n].did = s[a].did /\ n < s[a].answers => Answered(s, n)

(* What is pending and paired after the messages H were heard.             *)
Queued(P, s, H) ==
    \A d \in Dids : \A i \in DOMAIN P.pending[d] :
        \E n \in H : Read(s, n) /\ s[n].did = d /\ P.pending[d][i] = Word(s, n)

Queueing(P) ==
    \A d \in Dids : \A i, j \in DOMAIN P.pending[d] :
        i < j => P.pending[d][i].time < P.pending[d][j].time

PairOf(s, n, a) == [request |-> Word(s, n), response |-> Word(s, a)]

PairsFit(P, s, H) ==
    \A pair \in P.pairs : \E n, a \in H :
        /\ Read(s, n) /\ Positive(s, a) /\ pair = PairOf(s, n, a)
        /\ InAnswerOrder(s) => n <= s[a].answers
        /\ InAnswerOrder(s) /\ AllAnswered(s) => n = s[a].answers

Unanswered(s, H, n) ==
    \A a \in H : Positive(s, a) /\ s[a].did = s[n].did => s[a].answers < n

Waiting(P, s, H) ==
    \A n \in H : Read(s, n) /\ Unanswered(s, H, n) =>
        \E i \in DOMAIN P.pending[s[n].did] : P.pending[s[n].did][i] = Word(s, n)

Served(P, s, H) ==
    \A a \in H : Positive(s, a) =>
        /\ \E pair \in P.pairs : pair.response = Word(s, a)
        /\ \A d \in Dids : \A i \in DOMAIN P.pending[d] : P.pending[d][i] # Word(s, s[a].answers)

PairFits(P, s, H) ==
    /\ PairTypes(P) /\ Queued(P, s, H) /\ Queueing(P) /\ PairsFit(P, s, H)
    /\ InAnswerOrder(s) => Waiting(P, s, H)
    /\ InAnswerOrder(s) /\ AllAnswered(s) => Served(P, s, H)

(* The message n is heard after those of H, in turn.                       *)
HeardNext(s, H, n) ==
    /\ H \subseteq DOMAIN s /\ n \in DOMAIN s \ H
    /\ \A k \in H : s[k].id = s[n].id => k < n
    /\ \A k \in DOMAIN s : k < n /\ s[k].id = s[n].id /\ s[k].framed => k \in H
    /\ \A k \in H \cup {n} : Positive(s, k) => s[k].answers \in H

LEMMA ReadsAre ==
    ASSUME NEW s, ReadsFit(s)
    PROVE  \A n \in DOMAIN s :
              /\ n \in Nat /\ s[n].start \in Nat
              /\ Word(s, n).time = s[n].start /\ Word(s, n).id = s[n].id
              /\ Word(s, n).chunks[1][1] = n /\ Word(s, n) \in Told
              /\ \A k \in DOMAIN s : Word(s, n) = Word(s, k) => n = k
<1>1. s \in Seq(Said) /\ DOMAIN s = 1 .. Len(s) /\ Len(s) \in Nat
  BY LenProperties DEF ReadsFit
<1>2. \A n \in DOMAIN s : n \in Nat /\ s[n].start \in Nat
  BY <1>1, ElementOfSeq, SaidIs
<1>3. \A n \in DOMAIN s : /\ Word(s, n).time = s[n].start /\ Word(s, n).id = s[n].id
                          /\ Word(s, n).chunks[1][1] = n /\ Word(s, n) \in Told
  BY <1>1, WordIs
<1> QED
  BY <1>2, <1>3

(* A read is heard.                                                        *)
LEMMA ReadHeard ==
    ASSUME NEW s, ReadsFit(s), NEW H, NEW n, HeardNext(s, H, n), NEW P, PairFits(P, s, H),
           Read(s, n)
    PROVE  PairFits(PairStep(s, P, Word(s, n)), s, H \cup {n})
<1> DEFINE R == PairStep(s, P, Word(s, n))
           d == s[n].did
           q == P.pending[d]
           J == H \cup {n}
<1>1. /\ n \in DOMAIN s /\ H \subseteq DOMAIN s /\ n \notin H
      /\ s[n].id = "request" /\ d \in Dids /\ n \in Nat
      /\ \A k \in DOMAIN s : /\ Word(s, k).time = s[k].start /\ Word(s, k) \in Told
                             /\ \A l \in DOMAIN s : Word(s, k) = Word(s, l) => k = l
      /\ Word(s, n).id = "request" /\ Word(s, n).chunks[1][1] = n
  BY ReadsAre DEF HeardNext, ReadsFit
<1>2. ~Positive(s, n)
  BY DEF Positive, Read
<1>3. /\ PairTypes(R) /\ R.pairs = P.pairs
      /\ DOMAIN q = 1 .. Len(q) /\ Len(q) \in Nat
      /\ DOMAIN R.pending[d] = 1 .. Len(q) + 1
      /\ \A i \in 1 .. Len(q) : R.pending[d][i] = q[i]
      /\ R.pending[d][Len(q) + 1] = Word(s, n)
      /\ \A e \in Dids \ {d} : R.pending[e] = P.pending[e]
  <2>1. PairTypes(P) /\ Says(s, Word(s, n), n, d)
    BY <1>1 DEF PairFits, Says
  <2>2. d \in Dids /\ Word(s, n) \in Told /\ Word(s, n).id = "request"
    BY <1>1
  <2> HIDE DEF d
  <2>3. Queues(P, R, d, Word(s, n))
    BY <2>1, <2>2, ReadQueues
  <2> HIDE DEF R
  <2> QED
    BY <2>3 DEF Queues
<1> HIDE DEF R
<1>5. /\ DOMAIN R.pending[d] = DOMAIN q \cup {Len(q) + 1}
      /\ \A i \in DOMAIN q : R.pending[d][i] = q[i] /\ i < Len(q) + 1 /\ i \in Nat
      /\ R.pending[d][Len(q) + 1] = Word(s, n)
  <2> HIDE DEF q
  <2> QED
    BY <1>3
<1>6. ASSUME NEW e \in Dids, NEW i \in DOMAIN R.pending[e]
      PROVE  \/ i \in DOMAIN P.pending[e] /\ R.pending[e][i] = P.pending[e][i]
             \/ e = d /\ i = Len(q) + 1 /\ R.pending[e][i] = Word(s, n)
  BY <1>3, <1>5
<1>7. \A e \in Dids : \A i \in DOMAIN P.pending[e] :
         i \in DOMAIN R.pending[e] /\ R.pending[e][i] = P.pending[e][i]
  BY <1>3, <1>5
<1> HIDE DEF q, d
<1>8. Queued(R, s, J)
  <2> SUFFICES ASSUME NEW e \in Dids, NEW i \in DOMAIN R.pending[e]
               PROVE  \E k \in J : Read(s, k) /\ s[k].did = e /\ R.pending[e][i] = Word(s, k)
    BY DEF Queued
  <2>1. CASE i \in DOMAIN P.pending[e] /\ R.pending[e][i] = P.pending[e][i]
    BY <2>1 DEF PairFits, Queued
  <2>2. CASE e = d /\ R.pending[e][i] = Word(s, n)
    BY <2>2 DEF d
  <2> QED
    BY <1>6, <2>1, <2>2
<1>9. Queueing(R)
  <2> SUFFICES ASSUME NEW e \in Dids, NEW i \in DOMAIN R.pending[e],
                      NEW j \in DOMAIN R.pending[e], i < j
               PROVE  R.pending[e][i].time < R.pending[e][j].time
    BY DEF Queueing
  <2>1. CASE e # d
    <3>1. R.pending[e] = P.pending[e]
      BY <1>3, <2>1
    <3> QED
      BY <3>1 DEF PairFits, Queueing
  <2>2. CASE e = d
    <3>1. i \in DOMAIN q /\ P.pending[e] = q
      BY <1>3, <1>5, <2>2 DEF q
    <3>2. CASE j \in DOMAIN q
      BY <1>5, <2>2, <3>1, <3>2 DEF PairFits, Queueing
    <3>3. CASE j = Len(q) + 1
      <4>1. PICK k \in H : Read(s, k) /\ P.pending[e][i] = Word(s, k)
        BY <3>1 DEF PairFits, Queued
      <4>2. s[k].id = s[n].id
        BY <1>1, <4>1 DEF ReadsFit
      <4>3. k < n
        BY <4>2 DEF HeardNext
      <4>4. s[k].start < s[n].start
        BY <1>1, <4>3 DEF ReadsFit
      <4> QED
        BY <1>1, <1>5, <2>2, <3>1, <3>3, <4>1, <4>4
    <3> QED
      BY <1>5, <2>2, <3>2, <3>3
  <2> QED
    BY <2>1, <2>2
<1>10. PairsFit(R, s, J)
  <2>1. \A pair \in R.pairs : \E k, a \in H :
           /\ Read(s, k) /\ Positive(s, a) /\ pair = PairOf(s, k, a)
           /\ InAnswerOrder(s) => k <= s[a].answers
           /\ InAnswerOrder(s) /\ AllAnswered(s) => k = s[a].answers
    BY <1>3 DEF PairFits, PairsFit
  <2>2. H \subseteq J
    OBVIOUS
  <2> HIDE DEF J
  <2> QED
    BY <2>1, <2>2 DEF PairsFit
<1>11. ASSUME InAnswerOrder(s) PROVE Waiting(R, s, J)
  <2> SUFFICES ASSUME NEW k \in J, Read(s, k), Unanswered(s, J, k)
               PROVE  \E i \in DOMAIN R.pending[s[k].did] : R.pending[s[k].did][i] = Word(s, k)
    BY DEF Waiting
  <2>1. CASE k = n
    BY <1>5, <2>1 DEF d
  <2>2. CASE k \in H
    <3>1. Unanswered(s, H, k)
      BY DEF Unanswered
    <3>2. PICK i \in DOMAIN P.pending[s[k].did] : P.pending[s[k].did][i] = Word(s, k)
      BY <1>11, <2>2, <3>1 DEF PairFits, Waiting
    <3>3. s[k].did \in Dids
      BY <1>1, <2>2 DEF ReadsFit
    <3> QED
      BY <1>7, <3>2, <3>3
  <2> QED
    BY <2>1, <2>2
<1>12. ASSUME InAnswerOrder(s), AllAnswered(s) PROVE Served(R, s, J)
  <2> SUFFICES ASSUME NEW a \in J, Positive(s, a)
               PROVE  /\ \E pair \in R.pairs : pair.response = Word(s, a)
                      /\ \A e \in Dids : \A i \in DOMAIN R.pending[e] :
                            R.pending[e][i] # Word(s, s[a].answers)
    BY DEF Served
  <2>1. a \in H /\ s[a].answers \in H
    BY <1>2 DEF HeardNext
  <2>2. /\ \E pair \in P.pairs : pair.response = Word(s, a)
        /\ \A e \in Dids : \A i \in DOMAIN P.pending[e] :
              P.pending[e][i] # Word(s, s[a].answers)
    BY <1>12, <2>1 DEF PairFits, Served
  <2>3. Word(s, n) # Word(s, s[a].answers)
    BY <1>1, <2>1
  <2> QED
    BY <1>3, <1>6, <2>2, <2>3
<1> QED
  BY <1>3, <1>8, <1>9, <1>10, <1>11, <1>12 DEF PairFits, R

(* The request of an answer waits in its queue, when answers are in order,  *)
(* and no earlier one does when all are answered.                          *)
LEMMA RequestWaits ==
    ASSUME NEW s, ReadsFit(s), NEW H, NEW n, HeardNext(s, H, n), NEW P, PairFits(P, s, H),
           Positive(s, n), InAnswerOrder(s)
    PROVE  \E j \in DOMAIN P.pending[s[n].did] :
              /\ P.pending[s[n].did][j] = Word(s, s[n].answers)
              /\ Word(s, n).time - P.pending[s[n].did][j].time \in 0 .. Window
<1> DEFINE r == s[n].answers
<1>1. /\ n \in DOMAIN s /\ n \notin H /\ H \subseteq DOMAIN s /\ r \in H
  BY DEF HeardNext
<1>2. /\ s[n].id = "response" /\ r \in DOMAIN s /\ r < n /\ Read(s, r) /\ s[r].did = s[n].did
  BY <1>1 DEF ReadsFit
<1> HIDE DEF r
<1>3. Unanswered(s, H, r)
  <2> SUFFICES ASSUME NEW a \in H, Positive(s, a), s[a].did = s[r].did
               PROVE  s[a].answers < r
    BY DEF Unanswered
  <2>1. a \in DOMAIN s /\ s[a].id = "response" /\ s[a].answers \in DOMAIN s
    BY <1>1 DEF ReadsFit
  <2>2. a < n
    BY <1>2, <2>1 DEF HeardNext
  <2>3. ~(r < s[a].answers)
    <3>1. r < s[a].answers => n < a
      BY <1>1, <1>2, <2>1 DEF InAnswerOrder, r
    <3> QED
      BY <1>1, <2>1, <2>2, <3>1, ReadsAre
  <2>4. s[a].answers # r
    <3>1. s[a].answers = r => a = n
      BY <1>1, <2>1 DEF ReadsFit, r
    <3> QED
      BY <1>1, <3>1
  <2> QED
    BY <1>2, <2>1, <2>3, <2>4, ReadsAre
<1>4. PICK j \in DOMAIN P.pending[s[n].did] : P.pending[s[n].did][j] = Word(s, r)
  <2>1. \E i \in DOMAIN P.pending[s[r].did] : P.pending[s[r].did][i] = Word(s, r)
    BY <1>1, <1>2, <1>3 DEF PairFits, Waiting, r
  <2> QED
    BY <1>2, <2>1
<1>5. s[n].start - s[r].start \in 0 .. Window
  <2>1. s[r].start < s[n].start
    BY <1>1, <1>2 DEF ReadsFit
  <2>2. s[n].start - s[r].start <= Window
    BY <1>1 DEF InAnswerOrder, r
  <2>3. s[r].start \in Nat /\ s[n].start \in Nat /\ Window \in Nat
    BY <1>1, <1>2, ReadsAre, BusAssumption
  <2> QED
    BY <2>1, <2>2, <2>3
<1>6. Word(s, n).time = s[n].start /\ Word(s, r).time = s[r].start
  BY <1>1, <1>2, ReadsAre
<1> QED
  BY <1>4, <1>5, <1>6 DEF r

LEMMA NoneIsEarlier ==
    ASSUME NEW s, ReadsFit(s), NEW H, NEW n, HeardNext(s, H, n), NEW P, PairFits(P, s, H),
           Positive(s, n), InAnswerOrder(s), AllAnswered(s),
           NEW x \in H, Read(s, x), s[x].did = s[n].did,
           NEW k \in DOMAIN P.pending[s[n].did], P.pending[s[n].did][k] = Word(s, x)
    PROVE  ~(x < s[n].answers)
<1> SUFFICES ASSUME x < s[n].answers PROVE FALSE
  OBVIOUS
<1>1. n \in DOMAIN s /\ H \subseteq DOMAIN s
  BY DEF HeardNext
<1>2. s[n].id = "response" /\ s[n].did \in Dids
  BY <1>1 DEF ReadsFit
<1>3. PICK b \in DOMAIN s : Positive(s, b) /\ s[b].answers = x
  BY <1>1 DEF AllAnswered, Answered
<1>4. s[b].id = "response" /\ s[b].framed /\ s[b].did = s[n].did
  BY <1>3 DEF ReadsFit
<1>5. b < n
  BY <1>1, <1>3, <1>4 DEF InAnswerOrder
<1>6. b \in H
  BY <1>2, <1>4, <1>5 DEF HeardNext
<1>7. P.pending[s[n].did][k] # Word(s, s[b].answers)
  BY <1>2, <1>3, <1>6 DEF PairFits, Served
<1> QED
  BY <1>3, <1>7

LEMMA TakesFrom ==
    ASSUME NEW P, NEW R, NEW d, NEW m, NEW k, Takes(P, R, d, m, k), NEW i \in DOMAIN R.pending[d]
    PROVE  /\ i \in Nat \ {0} /\ k \in Nat /\ k + i \in DOMAIN P.pending[d]
           /\ R.pending[d][i] = P.pending[d][k + i]
<1>1. /\ DOMAIN P.pending[d] = 1 .. Len(P.pending[d]) /\ Len(P.pending[d]) \in Nat
      /\ DOMAIN R.pending[d] = 1 .. Len(P.pending[d]) - k /\ k \in 1 .. Len(P.pending[d])
  BY DEF Takes
<1>2. i \in 1 .. Len(P.pending[d]) - k
  BY <1>1
<1>3. i \in Nat \ {0} /\ k \in Nat /\ k + i \in 1 .. Len(P.pending[d])
  BY <1>1, <1>2
<1>4. R.pending[d][i] = P.pending[d][k + i]
  BY <1>2 DEF Takes
<1> QED
  BY <1>1, <1>3, <1>4

LEMMA AnswerHeard ==
    ASSUME NEW s, ReadsFit(s), NEW H, NEW n, HeardNext(s, H, n), NEW P, PairFits(P, s, H),
           Positive(s, n)
    PROVE  PairFits(PairStep(s, P, Word(s, n)), s, H \cup {n})
<1> DEFINE R == PairStep(s, P, Word(s, n))
           d == s[n].did
           r == s[n].answers
           q == P.pending[d]
           J == H \cup {n}
<1>1. /\ n \in DOMAIN s /\ H \subseteq DOMAIN s /\ n \notin H
      /\ s[n].id = "response" /\ d \in Dids /\ n \in Nat
      /\ \A k \in DOMAIN s : /\ Word(s, k).time = s[k].start /\ Word(s, k) \in Told
                             /\ k \in Nat /\ s[k].start \in Nat
                             /\ \A l \in DOMAIN s : Word(s, k) = Word(s, l) => k = l
      /\ Word(s, n).id = "response" /\ Word(s, n).chunks[1][1] = n
  BY ReadsAre DEF HeardNext, ReadsFit
<1>2. /\ r \in H /\ r \in DOMAIN s /\ r < n /\ Read(s, r) /\ s[r].did = d
      /\ ~Read(s, n)
  BY <1>1 DEF HeardNext, ReadsFit, Positive, Read
<1>3. \/ \E k \in DOMAIN q : Takes(P, R, d, Word(s, n), k)
      \/ Drops(P, R, d) /\ FitsOf(q, Word(s, n)) = {}
  <2>1. PairTypes(P) /\ Says(s, Word(s, n), n, d)
    BY <1>1 DEF PairFits, Says
  <2>2. d \in Dids /\ Word(s, n) \in Told /\ Word(s, n).id = "response"
    BY <1>1
  <2> HIDE DEF d
  <2>3. CASE FitsOf(P.pending[d], Word(s, n)) # {}
    BY <2>1, <2>2, <2>3, AnswerTakes
  <2>4. CASE FitsOf(P.pending[d], Word(s, n)) = {}
    <3>1. Drops(P, R, d)
      BY <2>1, <2>2, <2>4, AnswerDrops
    <3> QED
      BY <2>4, <3>1
  <2> QED
    BY <2>3, <2>4
<1> HIDE DEF R, d, r
<1>4. /\ PairTypes(R) /\ P.pairs \subseteq R.pairs
      /\ \A e \in Dids : \A i \in DOMAIN R.pending[e] :
            \E l \in DOMAIN P.pending[e] : R.pending[e][i] = P.pending[e][l]
  <2>1. CASE \E k \in DOMAIN q : Takes(P, R, d, Word(s, n), k)
    <3>1. PICK k \in DOMAIN q : Takes(P, R, d, Word(s, n), k)
      BY <2>1
    <3>2. /\ PairTypes(R) /\ P.pairs \subseteq R.pairs
          /\ \A i \in DOMAIN R.pending[d] : k + i \in DOMAIN q /\ R.pending[d][i] = q[k + i]
          /\ \A e \in Dids \ {d} : R.pending[e] = P.pending[e]
      BY <3>1 DEF Takes
    <3> QED
      BY <3>2
  <2>2. CASE Drops(P, R, d)
    BY <2>2 DEF Drops
  <2> QED
    BY <1>3, <2>1, <2>2
<1>5. Queued(R, s, J)
  <2>1. \A e \in Dids : \A i \in DOMAIN P.pending[e] :
           \E k \in H : Read(s, k) /\ s[k].did = e /\ P.pending[e][i] = Word(s, k)
    BY DEF PairFits, Queued
  <2>2. H \subseteq J
    OBVIOUS
  <2> HIDE DEF J
  <2> SUFFICES ASSUME NEW e \in Dids, NEW i \in DOMAIN R.pending[e]
               PROVE  \E k \in J : Read(s, k) /\ s[k].did = e /\ R.pending[e][i] = Word(s, k)
    BY DEF Queued
  <2>3. PICK l \in DOMAIN P.pending[e] : R.pending[e][i] = P.pending[e][l]
    BY <1>4
  <2>4. PICK k \in H : Read(s, k) /\ s[k].did = e /\ P.pending[e][l] = Word(s, k)
    BY <2>1
  <2> QED
    BY <2>2, <2>3, <2>4
<1>6. \A i, j \in DOMAIN q : i < j => q[i].time < q[j].time
  BY <1>1 DEF PairFits, Queueing, d
<1>7. Queueing(R)
  <2> SUFFICES ASSUME NEW e \in Dids, NEW i \in DOMAIN R.pending[e],
                      NEW j \in DOMAIN R.pending[e], i < j
               PROVE  R.pending[e][i].time < R.pending[e][j].time
    BY DEF Queueing
  <2>1. CASE e # d
    <3>1. R.pending[e] = P.pending[e]
      BY <1>3, <2>1 DEF Takes, Drops
    <3> QED
      BY <3>1 DEF PairFits, Queueing
  <2>2. CASE e = d
    <3>1. PICK k \in DOMAIN q : Takes(P, R, d, Word(s, n), k)
      BY <1>3, <2>2 DEF Drops
    <3>2. /\ k \in Nat /\ i \in Nat /\ j \in Nat /\ k + i \in DOMAIN q /\ k + j \in DOMAIN q
          /\ R.pending[d][i] = q[k + i] /\ R.pending[d][j] = q[k + j]
      BY <2>2, <3>1, TakesFrom
    <3>3. k + i < k + j
      BY <3>2
    <3> QED
      BY <1>6, <2>2, <3>2, <3>3
  <2> QED
    BY <2>1, <2>2
<1>8. ASSUME InAnswerOrder(s), NEW k \in DOMAIN q, Takes(P, R, d, Word(s, n), k)
      PROVE  \E j \in DOMAIN q : k <= j /\ q[j] = Word(s, r) /\ k \in Nat /\ j \in Nat
  <2>1. PICK j \in DOMAIN q : /\ q[j] = Word(s, r)
                              /\ Word(s, n).time - q[j].time \in 0 .. Window
    BY <1>8, RequestWaits DEF d, r
  <2> QED
    BY <1>8, <2>1 DEF Takes
<1>9. ASSUME NEW k \in DOMAIN q, Takes(P, R, d, Word(s, n), k)
      PROVE  \E x \in H : /\ Read(s, x) /\ s[x].did = d /\ q[k] = Word(s, x)
                          /\ InAnswerOrder(s) => x <= r
                          /\ InAnswerOrder(s) /\ AllAnswered(s) => x = r
  <2>1. PICK x \in H : Read(s, x) /\ s[x].did = d /\ q[k] = Word(s, x)
    BY <1>1 DEF PairFits, Queued
  <2>2. ASSUME InAnswerOrder(s) PROVE x <= r
    <3>1. PICK j \in DOMAIN q : k <= j /\ q[j] = Word(s, r) /\ k \in Nat /\ j \in Nat
      BY <1>8, <1>9, <2>2
    <3>2. k = j \/ k < j
      BY <3>1
    <3>3. q[k].time <= q[j].time
      BY <1>1, <1>2, <1>6, <2>1, <3>1, <3>2
    <3>4. ~(s[r].start < s[x].start)
      BY <1>1, <1>2, <2>1, <3>1, <3>3
    <3>5. ~(r < x)
      BY <1>1, <1>2, <3>4 DEF ReadsFit
    <3> QED
      BY <1>1, <1>2, <3>5
  <2>3. ASSUME InAnswerOrder(s), AllAnswered(s) PROVE x = r
    <3>1. ~(x < r)
      BY <2>1, <2>3, NoneIsEarlier DEF d, r
    <3> QED
      BY <1>1, <1>2, <2>2, <2>3, <3>1
  <2> QED
    BY <2>1, <2>2, <2>3
<1>10. PairsFit(R, s, J)
  <2>1. \A pair \in P.pairs : \E k, a \in H :
           /\ Read(s, k) /\ Positive(s, a) /\ pair = PairOf(s, k, a)
           /\ InAnswerOrder(s) => k <= s[a].answers
           /\ InAnswerOrder(s) /\ AllAnswered(s) => k = s[a].answers
    BY DEF PairFits, PairsFit
  <2>2. H \subseteq J /\ n \in J
    OBVIOUS
  <2> HIDE DEF J
  <2> SUFFICES ASSUME NEW pair \in R.pairs
               PROVE  \E k, a \in J :
                         /\ Read(s, k) /\ Positive(s, a) /\ pair = PairOf(s, k, a)
                         /\ InAnswerOrder(s) => k <= s[a].answers
                         /\ InAnswerOrder(s) /\ AllAnswered(s) => k = s[a].answers
    BY DEF PairsFit
  <2>3. CASE pair \in P.pairs
    BY <2>1, <2>2, <2>3
  <2>4. CASE pair \notin P.pairs
    <3>1. PICK k \in DOMAIN q : Takes(P, R, d, Word(s, n), k)
      BY <1>3, <2>4 DEF Drops
    <3>2. pair = [request |-> q[k], response |-> Word(s, n)]
      BY <2>4, <3>1 DEF Takes
    <3>3. PICK x \in H : /\ Read(s, x) /\ q[k] = Word(s, x)
                         /\ InAnswerOrder(s) => x <= r
                         /\ InAnswerOrder(s) /\ AllAnswered(s) => x = r
      BY <1>9, <3>1
    <3>4. pair = PairOf(s, x, n)
      BY <3>2, <3>3 DEF PairOf
    <3> QED
      BY <2>2, <3>3, <3>4 DEF r
  <2> QED
    BY <2>3, <2>4
<1>11. ASSUME InAnswerOrder(s) PROVE \E k \in DOMAIN q : Takes(P, R, d, Word(s, n), k)
  <2>1. PICK j \in DOMAIN q : Word(s, n).time - q[j].time \in 0 .. Window
    BY <1>11, RequestWaits DEF d
  <2>2. j \in FitsOf(q, Word(s, n))
    BY <2>1 DEF FitsOf
  <2> QED
    BY <1>3, <2>2
<1>12. ASSUME InAnswerOrder(s) PROVE Waiting(R, s, J)
  <2> SUFFICES ASSUME NEW x \in J, Read(s, x), Unanswered(s, J, x)
               PROVE  \E i \in DOMAIN R.pending[s[x].did] : R.pending[s[x].did][i] = Word(s, x)
    BY DEF Waiting
  <2>1. x \in H /\ x \in DOMAIN s /\ s[x].did \in Dids
    BY <1>1, <1>2 DEF ReadsFit
  <2>2. Unanswered(s, H, x)
    BY DEF Unanswered
  <2>3. PICK i \in DOMAIN P.pending[s[x].did] : P.pending[s[x].did][i] = Word(s, x)
    BY <1>12, <2>1, <2>2 DEF PairFits, Waiting
  <2>4. CASE s[x].did # d
    <3>1. R.pending[s[x].did] = P.pending[s[x].did]
      BY <1>3, <2>1, <2>4 DEF Takes, Drops
    <3> QED
      BY <2>3, <3>1
  <2>5. CASE s[x].did = d
    <3>1. PICK k \in DOMAIN q : Takes(P, R, d, Word(s, n), k)
      BY <1>11, <1>12
    <3>2. PICK j \in DOMAIN q : k <= j /\ q[j] = Word(s, r) /\ k \in Nat /\ j \in Nat
      BY <1>8, <1>12, <3>1
    <3>3. r < x
      <4>1. n \in J /\ Positive(s, n) /\ s[n].did = s[x].did
        BY <2>5 DEF d
      <4> QED
        BY <4>1 DEF Unanswered, r
    <3>4. s[r].start < s[x].start
      BY <1>2, <2>1, <3>3 DEF ReadsFit
    <3>5. i \in DOMAIN q /\ q[i] = Word(s, x) /\ i \in Nat /\ DOMAIN q = 1 .. Len(q)
          /\ Len(q) \in Nat
      BY <2>3, <2>5, <3>1 DEF Takes
    <3>6. ~(i <= j)
      <4>1. i <= j => q[i].time <= q[j].time
        <5>1. CASE i = j
          BY <1>1, <1>2, <3>2, <5>1
        <5>2. CASE i < j
          <6>1. q[i].time < q[j].time
            BY <1>6, <3>2, <3>5, <5>2
          <6>2. q[i].time = s[x].start /\ q[j].time = s[r].start
            BY <1>1, <1>2, <2>1, <3>2, <3>5
          <6>3. s[x].start \in Nat /\ s[r].start \in Nat
            BY <1>1, <1>2, <2>1
          <6> QED
            BY <6>1, <6>2, <6>3
        <5> QED
          BY <3>2, <3>5, <5>1, <5>2
      <4> QED
        BY <1>1, <1>2, <2>1, <3>2, <3>4, <3>5, <4>1
    <3>7. i - k \in 1 .. Len(q) - k /\ k + (i - k) = i
      BY <3>2, <3>5, <3>6
    <3>8. R.pending[d][i - k] = q[i] /\ i - k \in DOMAIN R.pending[d]
      BY <3>1, <3>7 DEF Takes
    <3> QED
      BY <2>5, <3>5, <3>8
  <2> QED
    BY <2>4, <2>5
<1>13. ASSUME InAnswerOrder(s), AllAnswered(s) PROVE Served(R, s, J)
  <2> SUFFICES ASSUME NEW a \in J, Positive(s, a)
               PROVE  /\ \E pair \in R.pairs : pair.response = Word(s, a)
                      /\ \A e \in Dids : \A i \in DOMAIN R.pending[e] :
                            R.pending[e][i] # Word(s, s[a].answers)
    BY DEF Served
  <2>1. CASE a \in H
    <3>1. /\ \E pair \in P.pairs : pair.response = Word(s, a)
          /\ \A e \in Dids : \A i \in DOMAIN P.pending[e] :
                P.pending[e][i] # Word(s, s[a].answers)
      BY <1>13, <2>1 DEF PairFits, Served
    <3> QED
      BY <1>4, <3>1
  <2>2. CASE a = n
    <3>1. PICK k \in DOMAIN q : Takes(P, R, d, Word(s, n), k)
      BY <1>11, <1>13
    <3>2. q[k] = Word(s, r)
      BY <1>9, <1>13, <3>1
    <3>3. [request |-> q[k], response |-> Word(s, n)] \in R.pairs
      BY <3>1 DEF Takes
    <3>4. ASSUME NEW e \in Dids, NEW i \in DOMAIN R.pending[e]
          PROVE  R.pending[e][i] # Word(s, r)
      <4>1. CASE e = d
        <5>1. /\ i \in Nat \ {0} /\ k \in Nat /\ k + i \in DOMAIN q
              /\ R.pending[e][i] = q[k + i]
          BY <3>1, <4>1, TakesFrom
        <5>2. k < k + i
          BY <5>1
        <5>3. q[k].time < q[k + i].time
          BY <1>6, <5>1, <5>2
        <5> QED
          BY <1>1, <1>2, <3>2, <5>1, <5>3
      <4>2. CASE e # d
        <5>1. PICK y \in J : s[y].did = e /\ R.pending[e][i] = Word(s, y)
          BY <1>5 DEF Queued
        <5>2. y \in DOMAIN s /\ y # r
          BY <1>1, <1>2, <4>2, <5>1
        <5> QED
          BY <1>1, <1>2, <5>1, <5>2
      <4> QED
        BY <4>1, <4>2
    <3> QED
      BY <2>2, <3>3, <3>4 DEF r
  <2> QED
    BY <2>1, <2>2
<1> QED
  BY <1>4, <1>5, <1>7, <1>10, <1>12, <1>13 DEF PairFits, R

(* Anything else is of no concern.                                         *)
LEMMA OtherHeard ==
    ASSUME NEW s, ReadsFit(s), NEW H, NEW n, HeardNext(s, H, n), NEW P, PairFits(P, s, H),
           ~Read(s, n), ~Positive(s, n)
    PROVE  PairFits(PairStep(s, P, Word(s, n)), s, H \cup {n})
<1> DEFINE J == H \cup {n}
<1>1. n \in DOMAIN s /\ Word(s, n).chunks[1][1] = n
  BY ReadsAre DEF HeardNext
<1>2. PairStep(s, P, Word(s, n)) = P
  BY <1>1, OtherLeaves
<1>3. H \subseteq J /\ (\A k \in J : Read(s, k) \/ Positive(s, k) => k \in H)
  OBVIOUS
<1> HIDE DEF J
<1>4. Queued(P, s, J)
  <2>1. Queued(P, s, H)
    BY DEF PairFits
  <2> QED
    BY <1>3, <2>1 DEF Queued
<1>5. PairsFit(P, s, J)
  <2>1. PairsFit(P, s, H)
    BY DEF PairFits
  <2> QED
    BY <1>3, <2>1 DEF PairsFit
<1>6. ASSUME InAnswerOrder(s) PROVE Waiting(P, s, J)
  <2>1. Waiting(P, s, H)
    BY <1>6 DEF PairFits
  <2>2. \A k : Unanswered(s, J, k) => Unanswered(s, H, k)
    BY <1>3 DEF Unanswered
  <2> QED
    BY <1>3, <2>1, <2>2 DEF Waiting
<1>7. ASSUME InAnswerOrder(s), AllAnswered(s) PROVE Served(P, s, J)
  <2>1. Served(P, s, H)
    BY <1>7 DEF PairFits
  <2> QED
    BY <1>3, <2>1 DEF Served
<1>8. PairFits(P, s, J)
  BY <1>4, <1>5, <1>6, <1>7 DEF PairFits
<1> QED
  BY <1>2, <1>8 DEF J

-----------------------------------------------------------------------------
(* The pairs of the capture. What was heard of it without a gap, and what   *)
(* was made of that, message by message.                                   *)
Heard == ReassembleDids(capture)
Paired == PairedBy(sent, Heard)[Len(Heard)]

BundleInv ==
    /\ TurnInv
    /\ missing = 0 => PairFits(Paired, sent, Entire)

LEMMA KeptIs == ASSUME HearingInv PROVE Kept(FALSE) \in Acc
  BY DEF HearingInv, Hears

LEMMA HeardIs ==
    ASSUME TalkInv
    PROVE  Heard \in Seq(Told) /\ DOMAIN Heard = 1 .. Len(Heard) /\ Len(Heard) \in Nat
<1>1. Kept(FALSE) \in Acc
  BY KeptIs DEF TalkInv
<1>2. Heard = Kept(FALSE).messages
  BY DEF Heard, ReassembleDids, Reassembled, Kept
<1>3. Heard \in Seq(Told)
  BY <1>1, <1>2 DEF Acc
<1> QED
  BY <1>3, LenProperties

(* A value is read by the one request of it, and answered by one response.  *)
LEMMA TurnReads == TurnInv => ReadsFit(sent)
<1> SUFFICES ASSUME TurnInv PROVE ReadsFit(sent)
  OBVIOUS
<1>1. TalkInv /\ Asked(sent) /\ sent \in Seq(Said) /\ DOMAIN sent = 1 .. Len(sent)
      /\ Len(sent) \in Nat
  BY TalkIs DEF TurnInv
<1>2. ASSUME NEW n \in DOMAIN sent
      PROVE  \E p \in Payloads : /\ sent[n].id = p.id /\ sent[n].sid = p.sid
                                 /\ sent[n].did = p.did /\ sent[n].framed = p.framed
  BY <1>1 DEF Asked, Comes
<1>3. ASSUME NEW n \in DOMAIN sent PROVE sent[n].did \in Dids
  BY <1>2 DEF Dids
<1>4. ASSUME NEW n \in DOMAIN sent, Read(sent, n)
      PROVE  sent[n].id = "request" /\ sent[n].framed
  <2>1. PICK p \in Payloads : /\ sent[n].id = p.id /\ sent[n].sid = p.sid
                              /\ sent[n].framed = p.framed
    BY <1>2
  <2>2. p.sid = 34 /\ 34 \div 16 \in 0 .. 2
    BY <1>4, <2>1 DEF Read
  <2>3. p.framed
    BY <2>2, BytesFit, BusAssumption
  <2>4. sent[n].sid \in SERVICES
    BY <1>4 DEF Read, SERVICES
  <2>5. sent[n].sid \notin DOMAIN POSITIVE_TO_REQUEST \cup {Negative}
    BY <2>4, ServicesAre
  <2>6. sent[n].id = "request"
    BY <1>1, <2>5, TalkIs, SaidIs DEF WordsFit, Talkers
  <2> QED
    BY <2>1, <2>3, <2>6
<1>5. ASSUME NEW a \in DOMAIN sent, Positive(sent, a)
      PROVE  /\ sent[a].id = "response" /\ sent[a].framed
             /\ sent[a].answers \in DOMAIN sent /\ sent[a].answers < a
             /\ Read(sent, sent[a].answers) /\ sent[sent[a].answers].did = sent[a].did
             /\ Final(sent[a]) /\ sent[a].answers # 0 /\ a \in Nat
  <2>1. \h22 \in {\h22, \h2C} /\ sent[a].sid = \h22 + 64 /\ sent[a].sid # Negative
    BY <1>5 DEF Positive, Negative
  <2>2. /\ sent[a].id = "response" /\ sent[a].answers \in DOMAIN sent
        /\ sent[a].answers < a /\ sent[sent[a].answers].sid = \h22
    BY <1>1, <2>1, SaysPositive
  <2>3. sent[a].framed
    <3>1. PICK p \in Payloads : sent[a].sid = p.sid /\ sent[a].framed = p.framed
      BY <1>2
    <3>2. p.sid = \h62
      BY <1>5, <3>1 DEF Positive
    <3> QED
      BY <3>1, <3>2, TrafficAssumption
  <2>4. sent[sent[a].answers].did = sent[a].did
    BY <1>1, <2>1, <2>2 DEF Asked, FollowsUp
  <2>5. Final(sent[a])
    BY <2>1 DEF Final
  <2>6. sent[a].answers # 0 /\ a \in Nat
    BY <1>1, <2>2
  <2> QED
    BY <2>2, <2>3, <2>4, <2>5, <2>6 DEF Read
<1>6. ASSUME NEW a \in DOMAIN sent, NEW b \in DOMAIN sent, Positive(sent, a), Positive(sent, b),
             sent[a].answers = sent[b].answers
      PROVE  a = b
  <2>1. ~(a < b) /\ ~(b < a)
    BY <1>1, <1>5, <1>6, TalkIs DEF TalkInv, LastIsFinal
  <2> QED
    BY <1>5, <1>6, <2>1
<1>7. \A k, l \in DOMAIN sent : sent[k].start < sent[l].start <=> k < l
  BY <1>1, StartsInTurn
<1> QED
  BY <1>1, <1>3, <1>4, <1>5, <1>6, <1>7 DEF ReadsFit

(* What is known of the pairs stays known when more is said.               *)
LEMMA PairsStay ==
    ASSUME NEW s, NEW t, ReadsFit(s), ReadsFit(t), Alike(s, t), NEW H, H \subseteq DOMAIN s,
           NEW P, PairFits(P, s, H)
    PROVE  PairFits(P, t, H)
<1>1. /\ \A n \in DOMAIN s : /\ n \in DOMAIN t /\ t[n].sid = s[n].sid /\ t[n].did = s[n].did
                             /\ t[n].start = s[n].start /\ t[n].answers = s[n].answers
      /\ \A n \in H : n \in DOMAIN s
  BY Zenon DEF Alike
<1>2. \A n \in DOMAIN s : (Read(t, n) <=> Read(s, n)) /\ (Positive(t, n) <=> Positive(s, n))
  BY <1>1 DEF Read, Positive
<1>3. ASSUME NEW n \in DOMAIN s PROVE Word(t, n) = Word(s, n)
  <2>1. /\ t[n].id = s[n].id /\ t[n].start = s[n].start
        /\ t[n].framed = s[n].framed /\ t[n].length = s[n].length
    BY Zenon DEF Alike
  <2>2. FramesOf(t[n]) = FramesOf(s[n])
    BY <2>1, Zenon DEF FramesOf
  <2> QED
    BY <2>1, <2>2, Zenon DEF Word
<1>4. ASSUME InAnswerOrder(t) PROVE InAnswerOrder(s)
  <2>1. \A a \in DOMAIN s : Positive(s, a) => s[a].answers \in DOMAIN s
    BY DEF ReadsFit
  <2> SUFFICES ASSUME NEW a \in DOMAIN s, Positive(s, a)
               PROVE  /\ s[a].start - s[s[a].answers].start <= Window
                      /\ \A b \in DOMAIN s :
                            Positive(s, b) /\ s[a].did = s[b].did
                               /\ s[a].answers < s[b].answers => a < b
    BY DEF InAnswerOrder
  <2>2. /\ a \in DOMAIN t /\ Positive(t, a)
        /\ t[a].start = s[a].start /\ t[t[a].answers].start = s[s[a].answers].start
    BY <1>1, <1>2, <2>1
  <2>3. t[a].start - t[t[a].answers].start <= Window
    BY <1>4, <2>2 DEF InAnswerOrder
  <2>4. \A b \in DOMAIN t : Positive(t, b) /\ t[a].did = t[b].did
                              /\ t[a].answers < t[b].answers => a < b
    BY <1>4, <2>2 DEF InAnswerOrder
  <2> QED
    BY <1>1, <1>2, <2>2, <2>3, <2>4
<1>5. ASSUME InAnswerOrder(t), AllAnswered(t) PROVE AllAnswered(s)
  <2> SUFFICES ASSUME NEW a \in DOMAIN s, NEW n \in DOMAIN s, Positive(s, a), Read(s, n),
                      s[n].did = s[a].did, n < s[a].answers
               PROVE  Answered(s, n)
    BY DEF AllAnswered
  <2>1. /\ a \in DOMAIN t /\ n \in DOMAIN t /\ Positive(t, a) /\ Read(t, n)
        /\ t[n].did = t[a].did /\ n < t[a].answers
    BY <1>1, <1>2
  <2>2. PICK b \in DOMAIN t : Positive(t, b) /\ t[b].answers = n
    BY <1>5, <2>1 DEF AllAnswered, Answered
  <2>3. t[b].did = t[a].did
    BY <2>1, <2>2 DEF ReadsFit
  <2>4. b < a
    BY <1>5, <2>1, <2>2, <2>3 DEF InAnswerOrder
  <2>5. b \in DOMAIN s
    <3>1. s \in Seq(Said) /\ t \in Seq(Said)
      BY DEF ReadsFit
    <3>2. /\ DOMAIN s = 1 .. Len(s) /\ Len(s) \in Nat
          /\ DOMAIN t = 1 .. Len(t) /\ Len(t) \in Nat
      BY <3>1, LenProperties
    <3> QED
      BY <2>4, <3>2
  <2> QED
    BY <1>1, <1>2, <2>2, <2>5 DEF Answered
<1>6. Queued(P, t, H)
  <2>1. Queued(P, s, H)
    BY DEF PairFits
  <2> QED
    BY <1>1, <1>2, <1>3, <2>1 DEF Queued
<1>7. PairsFit(P, t, H)
  <2> SUFFICES ASSUME NEW pair \in P.pairs
               PROVE  \E n, a \in H :
                         /\ Read(t, n) /\ Positive(t, a) /\ pair = PairOf(t, n, a)
                         /\ InAnswerOrder(t) => n <= t[a].answers
                         /\ InAnswerOrder(t) /\ AllAnswered(t) => n = t[a].answers
    BY DEF PairsFit
  <2>1. PICK n \in H, a \in H :
           /\ Read(s, n) /\ Positive(s, a) /\ pair = PairOf(s, n, a)
           /\ InAnswerOrder(s) => n <= s[a].answers
           /\ InAnswerOrder(s) /\ AllAnswered(s) => n = s[a].answers
    BY DEF PairFits, PairsFit
  <2>2. Read(t, n) /\ Positive(t, a) /\ t[a].answers = s[a].answers
    BY <1>1, <1>2, <2>1
  <2>3. PairOf(t, n, a) = PairOf(s, n, a)
    BY <1>1, <1>3 DEF PairOf
  <2> QED
    BY <1>4, <1>5, <2>1, <2>2, <2>3
<1>8. ASSUME InAnswerOrder(t) PROVE Waiting(P, t, H)
  <2>1. Waiting(P, s, H)
    BY <1>4, <1>8 DEF PairFits
  <2>2. \A n \in H : Unanswered(t, H, n) => Unanswered(s, H, n)
    BY <1>1, <1>2 DEF Unanswered
  <2> QED
    BY <1>1, <1>2, <1>3, <2>1, <2>2 DEF Waiting
<1>9. ASSUME InAnswerOrder(t), AllAnswered(t) PROVE Served(P, t, H)
  <2>1. Served(P, s, H)
    BY <1>4, <1>5, <1>9 DEF PairFits
  <2>2. \A a \in H : Positive(t, a) =>
           /\ Positive(s, a) /\ Word(t, a) = Word(s, a)
           /\ Word(t, t[a].answers) = Word(s, s[a].answers)
    <3>1. \A a \in H : Positive(s, a) => s[a].answers \in DOMAIN s
      BY <1>1 DEF ReadsFit
    <3> QED
      BY <1>1, <1>2, <1>3, <3>1
  <2> QED
    BY <2>1, <2>2 DEF Served
<1>10. PairTypes(P) /\ Queueing(P)
  BY DEF PairFits
<1> QED
  BY <1>6, <1>7, <1>8, <1>9, <1>10 DEF PairFits

LEMMA RangeAppended ==
    ASSUME NEW S, NEW s \in Seq(S), NEW e
    PROVE  Range(Append(s, e)) = Range(s) \cup {e}
<1>1. s \in Seq(S \cup {e}) /\ e \in S \cup {e}
  OBVIOUS
<1>2. /\ DOMAIN s = 1 .. Len(s) /\ Len(s) \in Nat
      /\ DOMAIN Append(s, e) = 1 .. Len(s) + 1
      /\ \A i \in 1 .. Len(s) : Append(s, e)[i] = s[i]
      /\ Append(s, e)[Len(s) + 1] = e
  BY <1>1, AppendProperties, LenProperties
<1>3. 1 .. Len(s) + 1 = 1 .. Len(s) \cup {Len(s) + 1}
  BY <1>2
<1> QED
  BY <1>2, <1>3 DEF Range

(* The last frame of a message is the last of its parts.                   *)
LEMMA LastChunkIs ==
    ASSUME NEW s \in Seq(Said), NEW n \in DOMAIN s
    PROVE  /\ Len(Word(s, n).chunks) = FramesOf(s[n])
           /\ Word(s, n).chunks[FramesOf(s[n])] = <<n, FramesOf(s[n])>>
<1> DEFINE N == FramesOf(s[n])
           c == [k \in 1 .. N |-> <<n, k>>]
<1>1. N \in Nat \ {0}
  BY LenProperties, ElementOfSeq, FramesAre
<1>2. Word(s, n).chunks = c
  BY DEF Word, Message
<1>3. Len(c) = N /\ c[N] = <<n, N>>
  <2> HIDE DEF N
  <2> QED
    BY <1>1
<1> QED
  BY <1>2, <1>3

(* A frame adds a message of which it is the last, or none.                 *)
EndsWith(m, chunk) == Len(m.chunks) \in Nat /\ m.chunks[Len(m.chunks)] = chunk

HeardBy(r, f, q) ==
    \/ q.messages = r.messages
    \/ \E m : q.messages = Append(r.messages, m) /\ EndsWith(m, f.chunk)

LEMMA FrameHeard ==
    ASSUME NEW r \in Acc, NEW f \in Frame, NEW checked
    PROVE  HeardBy(r, f, AcceptFrame(checked, r, f))
<1> DEFINE q == AcceptFrame(checked, r, f)
           grown == Append(r.active[f.id].chunks, f.chunk)
<1>1. /\ f.id \in Ids /\ f.byte \in 0 .. 255 /\ f.chunk \in Chunk
      /\ r \in [active : [Ids -> Buffer], messages : Seq(Told)]
  BY DEF Frame, Byte, Acc
<1>2. Len(grown) \in Nat /\ grown[Len(grown)] = f.chunk
  <2>1. r.active[f.id].chunks \in Seq(Chunk)
    BY <1>1 DEF Buffer
  <2> QED
    BY <1>1, <2>1, AppendProperties
<1> HIDE DEF grown
<1>3. CASE PciType(f) = 0 /\ Low(f) \in 1 .. 7
  <2> DEFINE m == Message(f.time, f.id, <<f.chunk>>)
  <2>1. EndsWith(m, f.chunk)
    BY DEF Message, EndsWith
  <2> HIDE DEF m
  <2>2. q = [r EXCEPT !.messages = Append(@, m)]
    BY <1>3 DEF AcceptFrame, m
  <2> HIDE DEF q
  <2>3. q.messages = Append(r.messages, m)
    BY <1>1, <2>2
  <2> QED
    BY <2>1, <2>3 DEF HeardBy, q
<1>4. CASE PciType(f) = 1
  <2>1. q = StartBuffer(r, f)
    BY <1>4 DEF AcceptFrame
  <2> HIDE DEF q
  <2>2. q.messages = r.messages
    BY <1>1, <2>1 DEF StartBuffer
  <2> QED
    BY <2>2 DEF HeardBy, q
<1>5. CASE PciType(f) = 2 /\ r.active[f.id] # Idle
  <2>1. q = [r EXCEPT !.active[f.id] = Idle] \/ q = GrowBuffer(r, f)
    BY <1>5 DEF AcceptFrame
  <2> DEFINE m == Message(r.active[f.id].time, f.id, grown)
  <2>2. EndsWith(m, f.chunk)
    BY <1>2 DEF Message, EndsWith
  <2> HIDE DEF m, q
  <2>3. q.messages = r.messages \/ q.messages = Append(r.messages, m)
    BY <1>1, <2>1 DEF GrowBuffer, m, grown
  <2> QED
    BY <2>2, <2>3 DEF HeardBy, q
<1>6. CASE /\ PciType(f) # 1 /\ ~(PciType(f) = 0 /\ Low(f) \in 1 .. 7)
           /\ ~(PciType(f) = 2 /\ r.active[f.id] # Idle)
  <2>1. q = r
    BY <1>6 DEF AcceptFrame
  <2> HIDE DEF q
  <2> QED
    BY <2>1 DEF HeardBy, q
<1> QED
  BY <1>3, <1>4, <1>5, <1>6

(* What follows the step of a frame that was captured.                     *)
LEMMA HeardAlike ==
    ASSUME TalkInv, TalkInv', NEW n \in DOMAIN sent, Alike(sent, sent')
    PROVE  Word(sent', n) = Word(sent, n)
<1>1. /\ sent'[n].id = sent[n].id /\ sent'[n].start = sent[n].start
      /\ sent'[n].framed = sent[n].framed /\ sent'[n].length = sent[n].length
  BY Zenon DEF Alike
<1>2. FramesOf(sent'[n]) = FramesOf(sent[n])
  BY <1>1, Zenon DEF FramesOf
<1> QED
  BY <1>1, <1>2, Zenon DEF Word

LEMMA HeardWords ==
    TalkInv /\ missing = 0 => Range(Heard) = {Word(sent, n) : n \in Entire}
<1> SUFFICES ASSUME TalkInv, missing = 0 PROVE Range(Heard) = {Word(sent, n) : n \in Entire}
  OBVIOUS
<1>1. Range(ReassembleDids(capture)) = {WordOf(n) : n \in Entire}
  BY DidsHeard
<1>2. \A n : WordOf(n) = Word(sent, n)
  BY Zenon DEF WordOf, Word, ChunksOf
<1> QED
  BY <1>1, <1>2, Zenon DEF Heard

(* A frame more is heard: what it completes is heard, if anything.          *)
LEMMA HeardMore ==
    ASSUME TurnInv, TurnInv', NEW f \in Frame, Spoke(f), missing' = 0
    PROVE  /\ missing = 0 /\ Alike(sent, sent') /\ Entire \subseteq DOMAIN sent
           /\ \/ Heard' = Heard /\ Entire' = Entire
              \/ \E n \in DOMAIN sent' \ Entire :
                    Entire' = Entire \cup {n} /\ Heard' = Append(Heard, Word(sent', n))
<1>1. /\ TalkInv /\ TalkInv' /\ HearingInv /\ capture \in Seq(Frame) /\ missing \in Nat
      /\ sent \in Seq(Said) /\ DOMAIN sent = 1 .. Len(sent) /\ Len(sent) \in Nat
  BY TalkIs DEF TurnInv
<1>2. sent' \in Seq(Said) /\ DOMAIN sent' = 1 .. Len(sent') /\ Len(sent') \in Nat
  <2>1. sent' \in Seq(Said)
    BY <1>1 DEF TalkInv, HearingInv, TalkTypes
  <2> QED
    BY <2>1, LenProperties
<1>3. missing = 0 /\ capture' = Append(capture, f)
  BY <1>1 DEF Spoke, Adds
<1>4. Kept(FALSE)' = AcceptFrame(FALSE, Kept(FALSE), f) /\ Kept(FALSE) \in Acc
  BY <1>1, <1>3, ReassembledMore, KeptIs DEF Kept
<1>5. Heard = Kept(FALSE).messages /\ Heard' = Kept(FALSE)'.messages
  BY DEF Heard, ReassembleDids, Reassembled, Kept
<1>6. \/ Heard' = Heard
      \/ \E m : Heard' = Append(Heard, m) /\ EndsWith(m, f.chunk)
  <2>1. HeardBy(Kept(FALSE), f, Kept(FALSE)')
    BY <1>4, FrameHeard
  <2> QED
    BY <1>5, <2>1 DEF HeardBy
<1>7. Range(Heard) = {Word(sent, n) : n \in Entire}
  BY <1>1, <1>3, HeardWords
<1>8. Range(Heard)' = {Word(sent', n) : n \in Entire'}
  <2>1. (TalkInv /\ missing = 0 => Range(Heard) = {Word(sent, n) : n \in Entire})'
    BY HeardWords, PTL
  <2> QED
    BY <1>1, <2>1
<1>9. Alike(sent, sent')
  <2>1. ASSUME NEW w \in Said, NewWord(f, w) PROVE Alike(sent, sent')
    BY <1>1, <2>1, TurnsBegin DEF TurnInv
  <2>2. ASSUME NEW n \in DOMAIN sent, Flowed(f, n) \/ WentOn(f, n) PROVE Alike(sent, sent')
    BY <2>2 DEF Flowed, WentOn, LeftIs
  <2>3. CASE Sampled(f)
    BY <2>3 DEF Sampled, Alike
  <2> QED
    BY <2>1, <2>2, <2>3 DEF Spoke
<1>10. /\ \A n \in DOMAIN sent : n \in DOMAIN sent' /\ Word(sent', n) = Word(sent, n)
       /\ Entire \subseteq DOMAIN sent /\ Entire' \subseteq DOMAIN sent'
       /\ \A n \in DOMAIN sent' : Word(sent', n).chunks[1][1] = n
  <2>1. \A n \in DOMAIN sent : n \in DOMAIN sent'
    BY <1>9 DEF Alike
  <2>2. \A n \in DOMAIN sent' : Word(sent', n).chunks[1][1] = n
    BY <1>2, WordIs
  <2>3. Entire \subseteq DOMAIN sent /\ Entire' \subseteq DOMAIN sent'
    BY DEF Entire
  <2> QED
    BY <1>1, <1>9, <2>1, <2>2, <2>3, HeardAlike
<1>11. Entire \subseteq DOMAIN sent' /\ Range(Heard) = {Word(sent', n) : n \in Entire}
  BY <1>7, <1>10
<1>12. CASE Heard' = Heard
  <2>1. Range(Heard)' = Range(Heard)
    BY <1>12
  <2>2. {Word(sent', n) : n \in Entire'} = {Word(sent', n) : n \in Entire}
    BY <1>8, <1>11, <2>1
  <2>3. ASSUME NEW n \in Entire PROVE n \in Entire'
    <3>1. PICK k \in Entire' : Word(sent', n) = Word(sent', k)
      BY <2>2
    <3> QED
      BY <1>10, <1>11, <3>1
  <2>4. ASSUME NEW n \in Entire' PROVE n \in Entire
    <3>1. PICK k \in Entire : Word(sent', n) = Word(sent', k)
      BY <2>2
    <3> QED
      BY <1>10, <1>11, <3>1
  <2> QED
    BY <1>3, <1>9, <1>10, <1>12, <2>3, <2>4
<1>13. ASSUME NEW m, Heard' = Append(Heard, m), EndsWith(m, f.chunk)
       PROVE  \E n \in DOMAIN sent' \ Entire :
                  Entire' = Entire \cup {n} /\ Heard' = Append(Heard, Word(sent', n))
  <2>1. Range(Heard)' = Range(Heard) \cup {m}
    <3>1. Heard \in Seq(Told)
      BY <1>1, HeardIs
    <3>2. Range(Append(Heard, m)) = Range(Heard) \cup {m}
      BY <3>1, RangeAppended
    <3>3. Range(Heard)' = Range(Heard')
      BY DEF Range
    <3> QED
      BY <1>13, <3>2, <3>3
  <2>2. PICK n \in Entire' : m = Word(sent', n)
    BY <1>8, <2>1
  <2>3. n \in DOMAIN sent'
    BY <1>10, <2>2
  <2>4. f.chunk = <<n, FramesOf(sent'[n])>> /\ FramesOf(sent'[n]) \in Nat \ {0}
    <3>1. Len(m.chunks) = FramesOf(sent'[n])
          /\ m.chunks[FramesOf(sent'[n])] = <<n, FramesOf(sent'[n])>>
      BY <1>2, <2>2, <2>3, LastChunkIs
    <3>2. sent'[n] \in Said
      BY <1>2, <2>3, ElementOfSeq
    <3> QED
      BY <1>13, <3>1, <3>2, FramesAre DEF EndsWith
  <2>5. n \notin Entire
    <3>1. ASSUME NEW w \in Said, NewWord(f, w) PROVE n \notin Entire
      <4>1. f.chunk = <<Len(sent) + 1, 1>>
        BY <3>1 DEF NewWord
      <4>2. n = Len(sent) + 1
        BY <2>4, <4>1
      <4> QED
        BY <1>1, <1>10, <4>2
    <3>2. ASSUME NEW k \in DOMAIN sent, Flowed(f, k) PROVE n \notin Entire
      <4>1. f.chunk = <<0, 0>>
        BY <3>2 DEF Flowed
      <4> QED
        BY <2>4, <4>1
    <3>3. ASSUME NEW k \in DOMAIN sent, WentOn(f, k) PROVE n \notin Entire
      <4>1. f.chunk = <<k, FramesOf(sent[k]) - sent[k].left + 1>> /\ sent[k].left > 0
        BY <3>3 DEF WentOn
      <4>2. n = k
        BY <2>4, <4>1
      <4> QED
        BY <4>1, <4>2 DEF Entire
    <3>4. CASE Sampled(f)
      <4>1. f.chunk = <<InForce, 0>>
        BY <3>4 DEF Sampled
      <4> QED
        BY <2>4, <4>1
    <3> QED
      BY <3>1, <3>2, <3>3, <3>4 DEF Spoke
  <2>6. Entire' = Entire \cup {n}
    <3>1. {Word(sent', k) : k \in Entire'} = {Word(sent', k) : k \in Entire} \cup {Word(sent', n)}
      BY <1>8, <1>11, <2>1, <2>2
    <3> QED
      BY <1>10, <1>11, <2>3, <3>1
  <2> QED
    BY <1>13, <2>2, <2>3, <2>5, <2>6
<1> QED
  BY <1>3, <1>6, <1>9, <1>10, <1>12, <1>13

(* The messages of one side are heard in the order they were begun in, a    *)
(* read before its answer.                                                 *)
LEMMA HeardInTurn ==
    ASSUME TurnInv, TurnInv', Alike(sent, sent'), ReadsFit(sent), ReadsFit(sent'),
           NEW n \in DOMAIN sent' \ Entire, Entire' = Entire \cup {n}
    PROVE  HeardNext(sent', Entire, n)
<1>1. /\ \A k \in DOMAIN sent : /\ k \in DOMAIN sent' /\ sent'[k].id = sent[k].id
                                /\ sent'[k].framed = sent[k].framed
                                /\ sent'[k].sid = sent[k].sid
                                /\ sent'[k].answers = sent[k].answers
      /\ \A k : k \in Entire <=> k \in DOMAIN sent /\ sent[k].framed /\ sent[k].left = 0
      /\ \A k : k \in Entire' <=> k \in DOMAIN sent' /\ sent'[k].framed /\ sent'[k].left = 0
  BY Zenon DEF Alike, Entire
<1>2. /\ DOMAIN sent = 1 .. Len(sent) /\ Len(sent) \in Nat
      /\ DOMAIN sent' = 1 .. Len(sent') /\ Len(sent') \in Nat
  <2>1. sent \in Seq(Said) /\ sent' \in Seq(Said)
    BY DEF ReadsFit
  <2> QED
    BY <2>1, LenProperties
<1>3. /\ InTurn(sent) /\ Asked(sent)
      /\ InTurn(sent') /\ Asked(sent')
  BY DEF TurnInv
<1> HIDE DEF Entire
<1>4. Entire \subseteq DOMAIN sent'
  BY <1>1
<1>5. ASSUME NEW k \in Entire, sent'[k].id = sent'[n].id PROVE k < n
  <2> SUFFICES ASSUME ~(k < n) PROVE FALSE
    OBVIOUS
  <2>1. k \in DOMAIN sent /\ k # n
    BY <1>1
  <2>2. n < k /\ n \in DOMAIN sent
    BY <1>2, <2>1
  <2>3. sent[n].left = 0
    BY <1>1, <1>3, <1>5, <2>1, <2>2 DEF InTurn
  <2>4. sent[n].framed
    BY <1>1, <2>2
  <2> QED
    BY <1>1, <2>2, <2>3, <2>4
<1>6. ASSUME NEW k \in DOMAIN sent', k < n, sent'[k].id = sent'[n].id, sent'[k].framed
      PROVE  k \in Entire
  <2>1. sent'[k].left = 0
    BY <1>3, <1>6 DEF InTurn
  <2>2. k \in Entire' /\ k # n
    BY <1>1, <1>2, <1>6, <2>1
  <2> QED
    BY <2>2
<1>7. ASSUME NEW k \in Entire \cup {n}, Positive(sent', k)
      PROVE  sent'[k].answers \in Entire
  <2>1. CASE k \in Entire
    <3>1. k \in DOMAIN sent /\ Positive(sent, k)
      BY <1>1, <1>7, <2>1 DEF Positive
    <3>2. /\ sent[k].id = "response" /\ sent[k].answers \in DOMAIN sent
          /\ Read(sent, sent[k].answers)
      BY <3>1 DEF ReadsFit
    <3>3. sent[sent[k].answers].framed
      BY <3>2 DEF ReadsFit
    <3>4. sent[sent[k].answers].left = 0
      BY <1>3, <3>1, <3>2 DEF Asked, FollowsUp
    <3> QED
      BY <1>1, <3>1, <3>2, <3>3, <3>4
  <2>2. CASE k = n
    <3>1. /\ sent'[n].id = "response" /\ sent'[n].answers \in DOMAIN sent'
          /\ Read(sent', sent'[n].answers) /\ sent'[n].answers < n
      BY <1>7, <2>2 DEF ReadsFit
    <3>2. sent'[sent'[n].answers].framed
      BY <3>1 DEF ReadsFit
    <3>3. sent'[sent'[n].answers].left = 0
      BY <1>3, <3>1 DEF Asked, FollowsUp
    <3>4. sent'[n].answers \in Entire' /\ sent'[n].answers # n
      BY <1>1, <1>2, <3>1, <3>2, <3>3
    <3> QED
      BY <2>2, <3>4
  <2> QED
    BY <2>1, <2>2
<1> QED
  BY <1>4, <1>5, <1>6, <1>7 DEF HeardNext

(* What was paired before stays so.                                        *)
LEMMA PairedBefore ==
    ASSUME TalkInv, missing = 0, Alike(sent, sent'), NEW more, Len(more) \in Nat,
           Len(Heard) <= Len(more), \A i \in 1 .. Len(Heard) : more[i] = Heard[i]
    PROVE  PairedBy(sent', more)[Len(Heard)] = Paired
<1>1. DOMAIN Heard = 1 .. Len(Heard) /\ Len(Heard) \in Nat
  BY HeardIs
<1>2. ASSUME NEW i \in 1 .. Len(Heard)
      PROVE  /\ sent[Heard[i].chunks[1][1]].sid = sent'[Heard[i].chunks[1][1]].sid
             /\ sent[Heard[i].chunks[1][1]].did = sent'[Heard[i].chunks[1][1]].did
  <2>1. Heard[i] \in Range(Heard)
    BY <1>1 DEF Range
  <2>2. PICK n \in Entire : Heard[i] = Word(sent, n)
    BY <2>1, HeardWords
  <2>3. n \in DOMAIN sent /\ sent \in Seq(Said)
    BY TalkIs DEF Entire
  <2>4. Heard[i].chunks[1][1] = n
    BY <2>2, <2>3, WordIs
  <2>5. sent[n].sid = sent'[n].sid /\ sent[n].did = sent'[n].did
    BY <2>3, Zenon DEF Alike
  <2> QED
    BY <2>4, <2>5, Zenon
<1>3. ASSUME NEW i \in 1 .. Len(Heard)
      PROVE  /\ more[i] = Heard[i]
             /\ sent[Heard[i].chunks[1][1]].sid = sent'[Heard[i].chunks[1][1]].sid
             /\ sent[Heard[i].chunks[1][1]].did = sent'[Heard[i].chunks[1][1]].did
  BY <1>2
<1>4. Len(Heard) \in Nat /\ Len(more) \in Nat /\ Len(Heard) <= Len(more)
  BY <1>1
<1>5. PairedBy(sent', more)[Len(Heard)] = PairedBy(sent, Heard)[Len(Heard)]
  BY <1>3, <1>4, PairedStays
<1> QED
  BY <1>5 DEF Paired

LEMMA BundleSpeaks ==
    ASSUME BundleInv, TurnInv', NEW f \in Frame, Spoke(f), missing' = 0
    PROVE  PairFits(Paired', sent', Entire')
<1>1. /\ TurnInv /\ TalkInv /\ ReadsFit(sent) /\ ReadsFit(sent')
      /\ Heard \in Seq(Told) /\ DOMAIN Heard = 1 .. Len(Heard) /\ Len(Heard) \in Nat
  <2>1. (TurnInv => ReadsFit(sent))'
    BY TurnReads, PTL
  <2> QED
    BY <2>1, TurnReads, HeardIs DEF BundleInv, TurnInv
<1>2. /\ missing = 0 /\ Alike(sent, sent') /\ Entire \subseteq DOMAIN sent
      /\ \/ Heard' = Heard /\ Entire' = Entire
         \/ \E n \in DOMAIN sent' \ Entire :
               Entire' = Entire \cup {n} /\ Heard' = Append(Heard, Word(sent', n))
  BY <1>1, HeardMore
<1>3. PairFits(Paired, sent', Entire)
  BY <1>1, <1>2, PairsStay DEF BundleInv
<1>4. Paired' = PairedBy(sent', Heard')[Len(Heard')]
  BY DEF Paired
<1>5. CASE Heard' = Heard /\ Entire' = Entire
  <2>1. PairedBy(sent', Heard)[Len(Heard)] = Paired
    BY <1>1, <1>2, PairedBefore
  <2> QED
    BY <1>3, <1>4, <1>5, <2>1
<1>6. ASSUME NEW n \in DOMAIN sent' \ Entire, Entire' = Entire \cup {n},
             Heard' = Append(Heard, Word(sent', n))
      PROVE  PairFits(Paired', sent', Entire')
  <2>1. Word(sent', n) \in Told
    BY <1>1, ReadsAre
  <2>2. /\ Len(Heard') = Len(Heard) + 1 /\ Heard'[Len(Heard) + 1] = Word(sent', n)
        /\ \A i \in 1 .. Len(Heard) : Heard'[i] = Heard[i]
    BY <1>1, <1>6, <2>1, AppendProperties
  <2>3. /\ Len(Heard') \in Nat /\ Len(Heard) <= Len(Heard')
        /\ Len(Heard') \in 1 .. Len(Heard') /\ Len(Heard') - 1 = Len(Heard)
    BY <1>1, <2>2
  <2>4. PairedBy(sent', Heard')[Len(Heard)] = Paired
    BY <1>1, <1>2, <2>2, <2>3, PairedBefore
  <2>5. Paired' = PairStep(sent', Paired, Word(sent', n))
    <3>1. PairedBy(sent', Heard')[Len(Heard')]
             = PairStep(sent', PairedBy(sent', Heard')[Len(Heard') - 1], Heard'[Len(Heard')])
      BY <2>3, PairedByIs
    <3> QED
      BY <1>4, <2>2, <2>3, <2>4, <3>1
  <2>6. HeardNext(sent', Entire, n)
    BY <1>1, <1>2, <1>6, HeardInTurn
  <2>7. PairFits(PairStep(sent', Paired, Word(sent', n)), sent', Entire \cup {n})
    <3>1. CASE Read(sent', n)
      BY <1>1, <1>3, <2>6, <3>1, ReadHeard
    <3>2. CASE Positive(sent', n)
      BY <1>1, <1>3, <2>6, <3>2, AnswerHeard
    <3>3. CASE ~Read(sent', n) /\ ~Positive(sent', n)
      BY <1>1, <1>3, <2>6, <3>3, OtherHeard
    <3> QED
      BY <3>1, <3>2, <3>3
  <2> QED
    BY <1>6, <2>5, <2>7
<1> QED
  BY <1>2, <1>5, <1>6

LEMMA BundleStep ==
    ASSUME BundleInv, [Next]_<<rows, lines, analysed, writerVars, conversation>>
    PROVE  BundleInv'
<1>1. TurnInv /\ TurnInv' /\ TalkInv /\ HearingInv'
  BY TurnStep DEF BundleInv, TurnInv, TalkInv
<1>2. CASE Speak
  <2>1. PICK f \in Frame : Spoke(f)
    BY <1>1, <1>2, SpeakSpeaks
  <2>2. missing' = 0 => PairFits(Paired', sent', Entire')
    BY <1>1, <2>1, BundleSpeaks
  <2> QED
    BY <1>1, <2>2 DEF BundleInv
<1>3. CASE ~Speak
  <2>1. capture' = capture /\ sent' = sent /\ missing' = missing
    BY <1>3, SilentStep DEF conversation
  <2>2. Paired' = Paired /\ Entire' = Entire
    <3>1. Heard' = Heard
      BY <2>1 DEF Heard, ReassembleDids, Reassembled, Reassembly, AcceptFrame, StartBuffer,
                  GrowBuffer
    <3>2. Paired' = Paired
      BY <2>1, <3>1 DEF Paired
    <3> QED
      BY <2>1, <3>2 DEF Entire
  <2> QED
    BY <1>1, <2>1, <2>2 DEF BundleInv
<1> QED
  BY <1>2, <1>3

LEMMA InitBundle == ASSUME Init PROVE BundleInv
<1>1. TurnInv /\ TalkInv /\ DOMAIN sent = {} /\ sent = <<>> /\ missing = 0
  BY InitTurn DEF TurnInv, Init, Silence
<1>2. Entire = {}
  BY <1>1 DEF Entire
<1>3. Len(Heard) = 0
  <2>1. Range(Heard) = {}
    BY <1>1, <1>2, HeardWords
  <2>2. Heard \in Seq(Told) /\ DOMAIN Heard = 1 .. Len(Heard) /\ Len(Heard) \in Nat
    BY <1>1, HeardIs
  <2>3. 1 \notin DOMAIN Heard
    BY <2>1 DEF Range
  <2> QED
    BY <2>2, <2>3
<1>4. Paired = Nothing
  <2>1. Len(Heard) \in Nat /\ PairedBy(sent, Heard)[0] = Nothing
    BY <1>3, PairedByIs
  <2> QED
    BY <1>3, <2>1 DEF Paired
<1>5. /\ Nothing.pairs = {} /\ Nothing.pending = [d \in Dids |-> <<>>]
      /\ PairTypes(Nothing)
  BY DEF Nothing, PairTypes
<1>6. PairFits(Nothing, sent, {})
  BY <1>5 DEF PairFits, Queued, Queueing, PairsFit, Waiting, Served
<1> QED
  BY <1>1, <1>2, <1>4, <1>6 DEF BundleInv

(* No latency is understated, and the pairs of reads that were all answered *)
(* are exact.                                                              *)
LEMMA PairsHold == ASSUME BundleInv PROVE LatencyNotUnderstated /\ PairsExact
<1>1. TurnInv /\ TalkInv /\ ReadsFit(sent)
  BY TurnReads DEF BundleInv, TurnInv
<1>2. DidTransactions = Paired.pairs
  BY PairingBy DEF DidTransactions, DidPairs, Paired, Heard
<1>3. /\ \A n \in DOMAIN sent : /\ Word(sent, n).time = sent[n].start
                                /\ Word(sent, n).chunks[1][1] = n
      /\ \A n, m \in DOMAIN sent : Word(sent, n) = Word(sent, m) => n = m
      /\ Entire \subseteq DOMAIN sent
      /\ \A n \in DOMAIN sent : n \in Nat
  BY <1>1, ReadsAre DEF Entire
<1>4. ASSUME AnswersInOrder PROVE InAnswerOrder(sent)
  <2> DEFINE positives == {a \in DOMAIN sent : sent[a].sid = \h62}
  <2>1. \A a \in positives :
            /\ sent[a].start - sent[sent[a].answers].start <= Window
            /\ \A b \in positives : (sent[a].did = sent[b].did
                                       /\ sent[a].answers < sent[b].answers) => a < b
    BY <1>4 DEF AnswersInOrder
  <2>2. \A a : a \in positives <=> a \in DOMAIN sent /\ Positive(sent, a)
    BY DEF Positive
  <2> HIDE DEF positives
  <2> QED
    BY <2>1, <2>2 DEF InAnswerOrder
<1>5. ASSUME missing = 0, NEW pair \in DidTransactions
      PROVE  \E n, a \in Entire :
                /\ Read(sent, n) /\ Positive(sent, a) /\ pair = PairOf(sent, n, a)
                /\ InAnswerOrder(sent) => n <= sent[a].answers
                /\ InAnswerOrder(sent) /\ AllAnswered(sent) => n = sent[a].answers
  BY <1>2, <1>5 DEF BundleInv, PairFits, PairsFit
<1>6. LatencyNotUnderstated
  <2> SUFFICES ASSUME missing = 0, AnswersInOrder, NEW pair \in DidTransactions
               PROVE  pair.request.time <= sent[PayloadOf(pair.response).answers].start
    BY DEF LatencyNotUnderstated
  <2>1. PICK n \in Entire, a \in Entire :
              /\ Read(sent, n) /\ Positive(sent, a) /\ pair = PairOf(sent, n, a)
              /\ n <= sent[a].answers
    BY <1>4, <1>5
  <2>2. pair.request.time = sent[n].start /\ PayloadOf(pair.response) = sent[a]
    BY <1>3, <2>1 DEF PairOf, PayloadOf
  <2>3. sent[a].answers \in DOMAIN sent /\ n \in DOMAIN sent
    BY <1>1, <1>3, <2>1 DEF ReadsFit
  <2>4. sent[n].start <= sent[sent[a].answers].start
    BY <1>1, <2>1, <2>3, StartsInTurn
  <2> QED
    BY <2>2, <2>4
<1>7. PairsExact
  <2> DEFINE reads == {n \in DOMAIN sent : sent[n].sid = \h22}
             given == {na \in reads \X DOMAIN sent : /\ na[2] \in AnswersOf(na[1])
                                                     /\ sent[na[2]].sid = \h62}
             found == {<<pair.request.time, pair.response.time>> : pair \in DidTransactions}
             real == {<<sent[na[1]].start, sent[na[2]].start>> : na \in given}
  <2> SUFFICES ASSUME missing = 0, Settled, AnswersInOrder,
                      \A n \in reads : \E a \in AnswersOf(n) : sent[a].sid = \h62
               PROVE  found = real
    BY DEF PairsExact
  <2>1. InAnswerOrder(sent)
    BY <1>4
  <2>2. AllAnswered(sent)
    <3>1. \A n \in DOMAIN sent : Read(sent, n) =>
             \E a \in DOMAIN sent : sent[a].answers = n /\ sent[a].sid = \h62
      BY DEF Read, AnswersOf
    <3> QED
      BY <3>1 DEF AllAnswered, Answered, Positive
  <2>3. \A na : na \in given <=> \E n, a \in DOMAIN sent :
                  /\ na = <<n, a>> /\ Read(sent, n) /\ Positive(sent, a)
                  /\ sent[a].answers = n
    BY DEF Read, Positive, AnswersOf
  <2> HIDE DEF reads, given
  <2>4. ASSUME NEW pair \in DidTransactions
        PROVE  <<pair.request.time, pair.response.time>> \in real
    <3>1. PICK n \in Entire, a \in Entire :
                /\ Read(sent, n) /\ Positive(sent, a) /\ pair = PairOf(sent, n, a)
                /\ n = sent[a].answers
      BY <1>5, <2>1, <2>2
    <3>2. n \in DOMAIN sent /\ a \in DOMAIN sent
      BY <1>3
    <3>3. pair.request.time = sent[n].start /\ pair.response.time = sent[a].start
      BY <1>3, <3>1, <3>2 DEF PairOf
    <3>4. <<n, a>> \in given
      BY <2>3, <3>1, <3>2
    <3> QED
      BY <3>3, <3>4
  <2>5. ASSUME NEW na \in given
        PROVE  \E pair \in DidTransactions :
                  /\ pair.request.time = sent[na[1]].start
                  /\ pair.response.time = sent[na[2]].start
    <3>1. PICK n \in DOMAIN sent, a \in DOMAIN sent :
                  /\ na = <<n, a>> /\ Read(sent, n) /\ Positive(sent, a)
                  /\ sent[a].answers = n
      BY <2>3
    <3>2. a \in Entire
      <4>1. sent[a].framed /\ sent[a].left = 0
        BY <1>1, <3>1 DEF ReadsFit, Settled
      <4> QED
        BY <4>1 DEF Entire
    <3>3. PICK pair \in Paired.pairs : pair.response = Word(sent, a)
      BY <2>1, <2>2, <3>1, <3>2 DEF BundleInv, PairFits, Served
    <3>4. PICK m \in Entire, b \in Entire :
                pair = PairOf(sent, m, b) /\ m = sent[b].answers
      BY <1>2, <1>5, <2>1, <2>2
    <3>5. b = a
      BY <1>3, <3>3, <3>4 DEF PairOf
    <3>6. pair.request.time = sent[n].start /\ pair.response.time = sent[a].start
      BY <1>3, <3>1, <3>4, <3>5 DEF PairOf
    <3> QED
      BY <1>2, <3>1, <3>6
  <2> QED
    BY <2>4, <2>5
<1> QED
  BY <1>6, <1>7

(* What the bundle says of a request, a definition or a trace message is    *)
(* true of what was said, whatever the traffic and in any order of frames:  *)
(* the pairs of a read and its answer that name_dids takes from a complete  *)
(* capture never understate the latency and are exact when every read was   *)
(* answered, a sample bears the definition it was sent by and a message of  *)
(* the trace is correlated to itself.                                      *)
THEOREM BundleIsTrue == Spec => []BundleAttributes
<1>1. Init => BundleInv
  BY InitBundle
<1>2. BundleInv /\ [Next]_<<rows, lines, analysed, writerVars, conversation>> => BundleInv'
  BY BundleStep
<1>3. BundleInv => BundleAttributes
  BY Labels, Correlates, PairsHold DEF BundleAttributes, BundleInv, TurnInv
<1> QED
  BY <1>1, <1>2, <1>3, PTL DEF Spec
==============================================================================
