---------------------------- MODULE TemporalSignals ----------------------------
(***************************************************************************)
(* The daily signal of collections of a site, its expected range and the   *)
(* assessment of a closed day against it (backend/app/temporal_store.py,   *)
(* temporal_projection.py, temporal_expectations.py,                       *)
(* temporal_deviations.py).                                                *)
(*                                                                         *)
(* A collection belongs to the day it was observed on.  It is known from   *)
(* the day its transaction began, which may commit later.  Nothing that is *)
(* computed is stored: an assessment can be asked for again at any time.   *)
(* Values are counted in quarters, ranges in millionths.                   *)
(***************************************************************************)
EXTENDS Integers, FiniteSets, FiniteSetsExt, SequencesExt

CONSTANTS
    LastDay,      \* bound on the clock
    MaxRows,      \* bound on the collections
    MaxSameDay,   \* bound on those of one day that are known from one day
    Expectation,  \* lengths of history, rolling sample and season, and the sample sizes needed
    Persistence   \* consecutive days outside the range that a candidate takes

ASSUME TemporalConstants ==
    LastDay \in Nat \ {0} /\ Persistence \in Nat \ {0} /\ MaxSameDay \in Nat

VARIABLES
    today,        \* the clock
    collections,  \* how many collections of each day are known from each day
    committing,   \* collections that are not committed yet
    told          \* an assessment that somebody was told

temporalVars == <<today, collections, committing, told>>

Days == 1..LastDay
Slots == {s \in Days \X Days : s[1] <= s[2]}
NobodyTold == [target |-> 0]

TemporalTypeOK ==
    /\ today \in Days
    /\ collections \in [Slots -> 0..MaxSameDay]
    /\ committing \subseteq Slots
    /\ told.target \in 0..LastDay

TemporalInit ==
    /\ today = 1 /\ collections = [s \in Slots |-> 0]
    /\ committing = {} /\ told = NobodyTold

--------------------------------------------------------------------------------
(* The expected range.                                                     *)

MiddleOf(n) == n \div 2 + 1
\* Mutant of MedianOf: the middle is one too low.
LowMedianOf(values) == SortSeq(values, <)[IF Len(values) = 1 THEN 1 ELSE Len(values) \div 2]
MedianOf(values) ==
    LET ordered == SortSeq(values, <)
        m == MiddleOf(Len(values))
    IN  IF Len(values) % 2 = 1 THEN ordered[m] ELSE (ordered[m - 1] + ordered[m]) \div 2

Distance(x, y) == IF x < y THEN y - x ELSE x - y

\* robust_expected_range: three times the scaled median deviation around the median.
RangeOf(values) ==
    LET quarters == [i \in DOMAIN values |-> 4 * values[i]]
        center == MedianOf(quarters)
        width == MedianOf([i \in DOMAIN quarters |-> Distance(quarters[i], center)]) * 1111950
        middle == center * 250000
    IN  [expected |-> middle, lower |-> Max({0, middle - width}), upper |-> middle + width]

\* The expectation for a day from the value of each day before that has one, with the
\* days of a season if there are enough of them.
ExpectationFrom(value, target) ==
    LET known == {d \in DOMAIN value : d \in target - Expectation.history .. target - 1}
        season == {d \in known : (target - d) % Expectation.period = 0}
        rolling == {d \in known : d >= target - Expectation.rolling}
        seasonal == Cardinality(season) >= Expectation.minSeasonal
        sample == IF seasonal THEN season ELSE rolling
        n == Cardinality(sample)
        enough == IF seasonal THEN TRUE ELSE n >= Expectation.minRolling
        medium == IF seasonal THEN Expectation.mediumSeasonal ELSE Expectation.mediumRolling
        strong == IF seasonal THEN Expectation.strongSeasonal ELSE Expectation.strongRolling
        covers(tenths) == 10 * Cardinality(known) >= tenths * Expectation.history
    IN  [known |-> [d \in known |-> value[d]],
         range |-> IF enough
                   THEN {RangeOf([i \in 1..n |-> value[SetToSortSeq(sample, <)[i]]])} ELSE {},
         confidence |-> IF ~enough THEN "none"
                        ELSE IF covers(8) /\ n >= strong THEN "high"
                        ELSE IF covers(5) /\ n >= medium THEN "medium" ELSE "low"]

--------------------------------------------------------------------------------
(* Signals and assessments.                                                *)

CountOf(counts) == MapThenSumSet(LAMBDA s : counts[s], DOMAIN counts)

\* Mutant of KnownBefore: all that is stored counts, whenever it came.
KnownEver(day, cutoff) ==
    CountOf([s \in {x \in Slots : x[1] = day} |-> collections[s]])
\* The collections of a day that are known before a cutoff; a day without one has no
\* value.
KnownBefore(day, cutoff) ==
    CountOf([s \in {x \in Slots : x[1] = day /\ x[2] < cutoff} |-> collections[s]])
ValuesBefore(cutoff) ==
    LET days == {d \in Days : d < cutoff /\ KnownBefore(d, cutoff) > 0}
    IN  [d \in days |-> KnownBefore(d, cutoff)]

\* A day against what was to be expected at its start, from what was known at its end.
DirectionOf(expectation, observed, target) ==
    LET value == observed[target] * 1000000
        range == CHOOSE r \in expectation.range : TRUE
    IN  IF target \notin DOMAIN observed \/ expectation.confidence \notin {"medium", "high"}
        THEN "unknown"
        ELSE IF value < range.lower THEN "below"
        ELSE IF value > range.upper THEN "above" ELSE "inside"

DeviationFrom(expectation, target) ==
    [expectation |-> expectation,
     direction   |-> DirectionOf(expectation, ValuesBefore(target + 1), target)]
Deviation(target) == DeviationFrom(ExpectationFrom(ValuesBefore(target), target), target)

\* The run of days before a target that deviate as it does, as far as it matters.
Support(direction, target) ==
    {d \in target - Persistence + 1 .. target - 1 :
        \A e \in d..target - 1 : e \in Days /\ Deviation(e).direction = direction}

AssessmentOf(deviation, support) ==
    [expectation |-> deviation.expectation, direction |-> deviation.direction,
     state |-> CASE deviation.direction = "unknown" -> "blocked"
                 [] deviation.direction = "inside" -> "within-range"
                 [] OTHER -> IF Cardinality(support) + 1 >= Persistence THEN "candidate"
                             ELSE "pending-persistence",
     support |-> IF deviation.direction \in {"above", "below"}
                 THEN [d \in support |-> Deviation(d)] ELSE <<>>]
AssessmentFrom(deviation, target) ==
    AssessmentOf(deviation, Support(deviation.direction, target))
Assessment(target) == AssessmentFrom(Deviation(target), target)

--------------------------------------------------------------------------------
(* Actions.                                                                *)

Midnight ==
    /\ today < LastDay /\ today' = today + 1
    /\ UNCHANGED <<collections, committing, told>>

\* A collection of this or an earlier day is being stored.
BeginStore(day) ==
    /\ day <= today /\ committing = {}
    /\ CountOf(collections) < MaxRows
    /\ collections[<<day, today>>] < MaxSameDay
    /\ committing' = {<<day, today>>}
    /\ UNCHANGED <<today, collections, told>>

CommitStore(s) ==
    /\ s \in committing
    /\ collections' = [collections EXCEPT ![s] = @ + 1]
    /\ committing' = committing \ {s}
    /\ UNCHANGED <<today, told>>

\* assessment, of a day that is closed.  Its reads are transactions of their own; when
\* all that was known at the end of the day is committed, they read of it the same.
Tell(target) ==
    /\ told = NobodyTold
    /\ target < today
    /\ \A s \in committing : s[2] > target
    /\ told' = [target |-> target, assessment |-> Assessment(target)]
    /\ UNCHANGED <<today, collections, committing>>

TemporalNext ==
    \/ Midnight
    \/ \E day \in Days : BeginStore(day) \/ Tell(day)
    \/ \E s \in committing : CommitStore(s)

TemporalSpec == TemporalInit /\ [][TemporalNext]_temporalVars

--------------------------------------------------------------------------------
(* Properties.                                                             *)

\* What somebody was told of a day stays what the hub would say of it, whatever comes
\* later, of that day or the days before; and a candidate is a run of days that were
\* each outside of what was to be expected, on the same side.
CutoffSafe ==
    told # NobodyTold =>
        /\ told.assessment = Assessment(told.target)
        /\ told.assessment.state = "candidate" =>
              \A i \in 0..Persistence - 1 :
                  LET value == KnownBefore(told.target - i, told.target - i + 1) * 1000000
                      ranges == ExpectationFrom(ValuesBefore(told.target - i), told.target - i).range
                  IN  \E r \in ranges :
                        IF told.assessment.direction = "above" THEN value > r.upper ELSE value < r.lower

\* The inductive invariant behind it: what may still be committed is known too late to
\* count for what was told.
ToldFinal ==
    told # NobodyTold =>
        /\ told.target \in Days /\ told.target < today
        /\ \A s \in committing : s[2] > told.target
        /\ told.assessment = Assessment(told.target)
TemporalInv ==
    /\ today \in Days /\ committing \subseteq Slots
    /\ collections \in [Slots -> Nat] /\ ToldFinal

\* At least half of a sample is within the range that is expected from it, the center
\* among it; a value more of the center leaves the center.
RangeSoundOn(values) ==
    LET r == RangeOf(values)
    IN  /\ r.lower <= r.expected /\ r.expected <= r.upper
        /\ 2 * Cardinality({i \in DOMAIN values :
                  r.lower <= values[i] * 1000000 /\ values[i] * 1000000 <= r.upper}) >= Len(values)
        /\ r.expected % 1000000 = 0 =>
              RangeOf(Append(values, r.expected \div 1000000)).expected = r.expected
================================================================================
