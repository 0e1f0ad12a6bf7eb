------------------------------ MODULE Classifier ------------------------------
(***************************************************************************)
(* The deterministic classification of an asset from its evidence          *)
(* (backend/app/classification.py).  Weights, scores and confidences are   *)
(* in millionths, exact where the code has floating point.                 *)
(***************************************************************************)
EXTENDS Integers, FiniteSets, FiniteSetsExt

\* What a piece of evidence says of an attribute: a base weight, times the confidence
\* of its source in percent, times a factor for its age.
BaseWeight ==
    [direct_category |-> 98, direct_role |-> 94, direct_server_os |-> 96,
     direct_workstation_os |-> 91, mdns |-> 78, ssdp |-> 76, dhcp |-> 73, nbns |-> 43,
     hostname |-> 34]
AgeFactor == [fresh |-> 100, aging |-> 80, stale |-> 35, unknown |-> 45, revoked |-> 10]

Signal(source, value, kind, confidence, age) ==
    [source |-> source, attribute |-> "category", value |-> value,
     direct |-> kind \in {"direct_category", "direct_role", "direct_server_os",
                          "direct_workstation_os"},
     weight |-> BaseWeight[kind] * confidence * AgeFactor[age]]

\* Values are numbered in their alphabetical order.
Unknown == 0

Least(x, y) == IF x < y THEN x ELSE y

\* The vote of each source for a value: of a category its direct signals come first,
\* of other attributes its strongest.
Better(s, t) ==
    IF s.attribute = "category"
    THEN (s.direct /\ ~t.direct) \/ (s.direct = t.direct /\ s.weight > t.weight)
    ELSE s.weight > t.weight \/ (s.weight = t.weight /\ s.direct /\ ~t.direct)
Votes(signals, value) ==
    {s \in signals : s.value = value /\ \A t \in signals :
        t.source = s.source /\ t.value = value => ~Better(t, s)}

SourcesOf(signals, value) == {s.source : s \in {t \in signals : t.value = value}}

\* Mutant of Agreement: repeated signals of a source agree with each other.
AgreementOfSignals(signals, value) ==
    Least((Cardinality({s \in signals : s.value = value}) - 1) * 50000, 100000)
Agreement(signals, value) ==
    Least((Cardinality(SourcesOf(signals, value)) - 1) * 50000, 100000)

\* The score of each value, and whether a direct vote is among its own.
Values(signals) == {s.value : s \in signals}
Rank(signals) ==
    [v \in Values(signals) |->
        LET votes == Votes(signals, v)
        IN  [score |-> Least(Max({s.weight : s \in votes}) + Agreement(signals, v), 990000),
             direct |-> \E s \in votes : s.direct]]

Above(rank, v, w) ==
    \/ rank[v].score > rank[w].score
    \/ /\ rank[v].score = rank[w].score
       /\ (rank[v].direct /\ ~rank[w].direct) \/ (rank[v].direct = rank[w].direct /\ v > w)

FirstOf(rank, values) == CHOOSE v \in values : \A w \in values \ {v} : Above(rank, v, w)

\* A disagreement of independent sources that both clear the fixed thresholds.
Clears(rank, v, w) ==
    IF rank[v].direct
    THEN rank[w].score >= 620000 \/ (rank[w].direct /\ rank[w].score >= 550000)
    ELSE rank[w].score >= 580000

\* The first two values of an attribute, if they are in conflict.
Disputed(signals, rank, v, w) ==
    ~(SourcesOf(signals, w) \subseteq SourcesOf(signals, v)) /\ Clears(rank, v, w)
ConflictBy(signals, rank) ==
    UNION {{{v, w} : w \in {u \in Values(signals) \ {v} :
                              /\ u = FirstOf(rank, Values(signals) \ {v})
                              /\ Disputed(signals, rank, v, u)}} :
              v \in {FirstOf(rank, Values(signals))}}
Conflict(signals) == IF signals = {} THEN {} ELSE UNION ConflictBy(signals, Rank(signals))

Of(signals, attribute) == {s \in signals : s.attribute = attribute}
AttributeConflicts(signals) ==
    {Conflict(Of(signals, a)) : a \in {"subtype", "os_family", "os_version_hint"}} \ {{}}

\* Twenty thousandths for each attribute that has a value.
Completeness(signals) ==
    Cardinality({a \in {"manufacturer", "subtype", "product_hint", "os_family"} :
                    Of(signals, a) # {}}) * 20000

Leader(votes, rank) ==
    IF votes = {} THEN [category |-> Unknown, score |-> 0]
    ELSE [category |-> FirstOf(rank, Values(votes)),
          score    |-> Max({rank[v].score : v \in Values(votes)})]

Result(category, status, confidence, conflicts) ==
    [category |-> category, status |-> status, confidence |-> confidence, conflicts |-> conflicts]

\* Of the leading category, the score with what completes it, and the conflicts.
ResultOf(signals, leader, scored, conflicts) ==
    IF conflicts # {}
    THEN Result(leader.category, "conflicting",
                IF scored > 220000 THEN Least(scored - 220000, 990000) ELSE 0, conflicts)
    ELSE IF leader.category = Unknown
    THEN Result(Unknown, IF signals = {} THEN "unknown" ELSE "insufficient-evidence",
                Least(Max({s.weight : s \in signals} \cup {0}), 390000), {})
    ELSE IF leader.score >= 720000
    THEN Result(leader.category, "classified", Least(scored, 990000), {})
    ELSE IF leader.score >= 450000
    THEN Result(leader.category, "partially-classified", Least(scored, 990000), {})
    ELSE Result(Unknown, "insufficient-evidence", Least(scored, 440000), {})

ClassifyBy(signals, leader, conflicts) ==
    ResultOf(signals, leader, leader.score + Completeness(signals), conflicts)

Classify(signals) ==
    LET votes == Of(signals, "category")
    IN  ClassifyBy(signals, Leader(votes, Rank(votes)),
                   ({Conflict(votes)} \ {{}}) \cup AttributeConflicts(signals))

--------------------------------------------------------------------------------
(* Properties, of one set of signals.                                      *)

\* A confidence of 0.45 or more is given exactly to what is classified or in conflict;
\* a category conflict is between two categories that would each be taken on its own,
\* it needs two sources, and where every source names one category each material
\* disagreement with the chosen one is reported; a repeated or weaker signal of a source
\* for a value it names changes nothing.
ClassifierSoundOn(signals) ==
    LET votes == Of(signals, "category")
        same(s, t) == /\ s.source = t.source /\ s.attribute = t.attribute
                      /\ s.value = t.value /\ s.direct = t.direct
    IN  \A r \in {Classify(signals)}, conflict \in {Conflict(votes)} :
        /\ r.status \in {"classified", "partially-classified"} <=>
              r.confidence >= 450000 /\ r.conflicts = {}
        /\ \A c \in {conflict} \ {{}} :
              /\ r.category \in c
              /\ \A v \in c : Classify({s \in votes : s.value = v}).category = v
              /\ Cardinality({s.source : s \in votes}) > 1
        /\ (\A s, t \in votes : s.source = t.source => s.value = t.value) =>
              \A v \in Values(votes) \ {r.category} :
                  r.category # Unknown /\ Clears(Rank(votes), r.category, v) => conflict # {}
        /\ \A s \in signals : (\E t \in signals : same(s, t) /\ s.weight < t.weight) =>
              Classify(signals \ {s}) = r
================================================================================
