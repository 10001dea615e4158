----------------------------- MODULE BmsMapping -----------------------------
(***************************************************************************)
(* The tools that look for the cell a slot of the 500 kbit/s battery       *)
(* network measures: correlate_gen1_bms_networks.py pairs the readings of  *)
(* one session and assigns slots to cells, aggregate_gen1_bms_mapping_     *)
(* sessions.py compares the assignments of several sessions. A series is   *)
(* the sorted sequence of the times of its readings. The arithmetic of a   *)
(* score is represented by its result: points of a hundred, whether the    *)
(* voltages are within three millivolts, and how many readings overlap.    *)
(***************************************************************************)
EXTENDS Integers, Sequences, FiniteSets, FiniteSetsExt, SequencesExt

CONSTANTS
    Cells, Slots,   \* numbers, in the order of their names
    MaxDelta,       \* max_delta_s
    MinPairs        \* min_pairs

ASSUME MappingAssumption ==
    /\ IsFiniteSet(Cells) /\ Cells \subseteq Int
    /\ IsFiniteSet(Slots) /\ Slots \subseteq Int

Dist(t, u) == IF t < u THEN u - t ELSE t - u

-----------------------------------------------------------------------------
(* The position of the second pointer once it stops, at j or after it.     *)
Advance(b, j, t) ==
    Min({k \in j .. Len(b) : k = Len(b) \/ Dist(b[k + 1], t) > Dist(b[k], t)})

(* _nearest_pairs: one pass over both series. A pair is of positions; the   *)
(* list of pairs is ordered by the first, so the set says as much.         *)
Pass(a, b, acc, i) ==
    LET j == Advance(b, acc.j, a[i]) IN
    [j |-> j,
     pairs |-> IF Dist(b[j], a[i]) <= MaxDelta THEN acc.pairs \cup {<<i, j>>}
                                               ELSE acc.pairs]

(* After i readings of a.                                                  *)
Passes(a, b) ==
    LET passes[i \in 0 .. Len(a)] ==
            IF i = 0 THEN [j |-> 1, pairs |-> {}] ELSE Pass(a, b, passes[i - 1], i)
    IN  passes

NearestPairs(a, b) == IF a = <<>> \/ b = <<>> THEN {} ELSE Passes(a, b)[Len(a)].pairs

-----------------------------------------------------------------------------
(* rank_mapping; scores maps the pairs of a session to their scores.       *)

(* sorted() is stable, and the pairs were listed by cell and then by slot. *)
Before(scores, p, q) ==
    \/ scores[p].points > scores[q].points
    \/ /\ scores[p].points = scores[q].points
       /\ p[1] < q[1] \/ (p[1] = q[1] /\ p[2] < q[2])

Ahead(scores, p) == {q \in DOMAIN scores : Before(scores, q, p)}

ByScore(scores) ==
    [i \in 1 .. Cardinality(DOMAIN scores) |->
        CHOOSE p \in DOMAIN scores : Cardinality(Ahead(scores, p)) = i - 1]

Confidence(score) ==
    CASE score.overlap < MinPairs -> "insufficientOverlap"
      [] score.overlap >= MinPairs /\ score.points >= 90 /\ score.close ->
            "strongCandidate"
      [] score.overlap >= MinPairs /\ score.points >= 75
            /\ ~(score.points >= 90 /\ score.close) -> "candidate"
      [] OTHER -> "weakCandidate"

(* Mutant: a slot that is taken is given again.                            *)
AssignShared(taken, p) ==
    IF p[1] \in {q[1] : q \in taken} THEN taken ELSE taken \cup {p}

Assign(taken, p) ==
    IF \E q \in taken : q[1] = p[1] \/ q[2] = p[2] THEN taken ELSE taken \cup {p}

(* The pairs assigned after n of the list, best first.                     *)
Assigned(scores) ==
    LET order == ByScore(scores)
        assigned[n \in 0 .. Cardinality(DOMAIN scores)] ==
            IF n = 0 THEN {} ELSE Assign(assigned[n - 1], order[n])
    IN  assigned

(* Each pair assigned with its confidence.                                 *)
RankMapping(scores) ==
    {<<p, Confidence(scores[p])>> :
        p \in Assigned(scores)[Cardinality(DOMAIN scores)]}

-----------------------------------------------------------------------------
(* aggregate: a cell and the reports, a sequence of mappings, that map it. *)
Observations(cell, reports) ==
    UNION {{<<i, row>> : row \in {r \in reports[i] : r[1][1] = cell}} :
              i \in DOMAIN reports}

(* A strong candidate has ninety points and three millivolts anyway.       *)
Status(cell, reports) ==
    LET observed == Observations(cell, reports)
        slots == {o[2][1][2] : o \in observed}
    IN IF Cardinality(slots) > 1 THEN "inconsistentAcrossSessions"
       ELSE IF /\ Cardinality(observed) >= 3
               /\ \A o \in observed : o[2][2] = "strongCandidate"
         THEN "repeatableCrossSessionCandidate"
       ELSE "needsMoreEvidence"

-----------------------------------------------------------------------------
(* A reading is paired with the nearest of the other series, the later one *)
(* of two, if there is one within MaxDelta, although the pass never goes   *)
(* back.                                                                   *)
Nearest(a, b, i, j) ==
    \A k \in DOMAIN b : \/ Dist(a[i], b[k]) > Dist(a[i], b[j])
                        \/ Dist(a[i], b[k]) = Dist(a[i], b[j]) /\ k <= j

NearestPairsExact(a, b) ==
    NearestPairs(a, b) =
        {p \in (DOMAIN a) \X (DOMAIN b) :
            Dist(a[p[1]], b[p[2]]) <= MaxDelta /\ Nearest(a, b, p[1], p[2])}

(* No cell and slot that were not assigned to each other both have a worse *)
(* partner, or none; and none is assigned twice.                           *)
AssignmentStable(scores) ==
    LET pairs == {row[1] : row \in RankMapping(scores)}
        Rivals(p) == {q \in pairs : q[1] = p[1] \/ q[2] = p[2]}
    IN /\ \A p, q \in pairs : p[1] = q[1] \/ p[2] = q[2] => p = q
       /\ \A p \in (DOMAIN scores) \ pairs :
            \E q \in Rivals(p) : scores[q].points >= scores[p].points

(* The repeatable candidates are neither too many nor too few: a cell that *)
(* becomes one has three sessions or more that gave it a slot, always the  *)
(* same, and a slot that scored better for it had gone to a cell with as   *)
(* good a claim; and a pair that is strong and beats all others of its     *)
(* cell and its slot wherever the cell is known does become one.           *)
RepeatableIsBest(sessions) ==
    LET reports == [i \in DOMAIN sessions |-> RankMapping(sessions[i])]
        Known(c) == {i \in DOMAIN sessions : \E p \in DOMAIN sessions[i] : p[1] = c}
        Given(c) == {i \in DOMAIN sessions : \E row \in reports[i] : row[1][1] = c}
        Beats(i, p, q) == sessions[i][p].points > sessions[i][q].points
        Others(i, p) == {q \in DOMAIN sessions[i] :
                            q # p /\ (q[1] = p[1] \/ q[2] = p[2])}
        Strong(i, p) == /\ p \in DOMAIN sessions[i]
                        /\ Confidence(sessions[i][p]) = "strongCandidate"
        Repeatable(c) == Status(c, reports) = "repeatableCrossSessionCandidate"
        Justified(c, s) ==
            \A i \in Given(c) :
                /\ Strong(i, <<c, s>>)
                /\ \A t \in Slots :
                      (<<c, t>> \in DOMAIN sessions[i]
                         /\ Beats(i, <<c, t>>, <<c, s>>)) =>
                      \E d \in Cells : /\ \E row \in reports[i] : row[1] = <<d, t>>
                                       /\ ~Beats(i, <<c, t>>, <<d, t>>)
        Undisputed(c, s) ==
            \A i \in Known(c) :
                /\ Strong(i, <<c, s>>)
                /\ \A q \in Others(i, <<c, s>>) : Beats(i, <<c, s>>, q)
    IN \A c \in Cells :
        /\ Repeatable(c) =>
              Cardinality(Given(c)) >= 3 /\ \E s \in Slots : Justified(c, s)
        /\ (Cardinality(Known(c)) >= 3 /\ \E s \in Slots : Undisputed(c, s))
              => Repeatable(c)
=============================================================================
