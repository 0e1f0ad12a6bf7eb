--------------------------- MODULE ComponentMatching ---------------------------
(***************************************************************************)
(* The comparison of versions (backend/app/version_intelligence.py) in the *)
(* ecosystems that the hub parses itself, and what the hub says by it of a *)
(* component and an advisory (backend/app/vulnerability_matching.py and    *)
(* vulnerability_service.py).                                              *)
(*                                                                         *)
(* The order of Python versions is that of a library.  A version is the    *)
(* sequence of its character codes.  Code.c gives the code of c; the       *)
(* bounds on segments and their lengths are left out.                      *)
(*                                                                         *)
(* A component: [ecosystem, identifier, name, vendor, active, source,      *)
(* current, architecture, platform, confirmed, version]; `confirmed` says  *)
(* that evidence of firmware is direct and confident, and a version is     *)
(* <<>> or <<v>>.  An affected record of the advisory: [ecosystem,         *)
(* identifier, name, vendor, architectures, platforms, withdrawn, exact,   *)
(* ranges].  Unsaid stands for a missing text.                             *)
(***************************************************************************)
EXTENDS Integers, FiniteSets, Sequences, SequencesExt, FiniteSetsExt, TLC

--------------------------------------------------------------------------------
(* The comparison of versions.                                             *)

Code == [tilde |-> 126, dot |-> 46, dash |-> 45, plus |-> 43, colon |-> 58]
IsDigit(c) == c \in 48..57
IsLetter(c) == c \in (65..90) \cup (97..122)

\* Incomparable stands for the answers unsupported and invalid.
Incomparable == 2
Sign(x, y) == IF x < y THEN -1 ELSE IF x > y THEN 1 ELSE 0

\* The first difference decides.
FirstDifference(orders) ==
    LET differences == SelectSeq(orders, LAMBDA o : o # 0)
    IN  IF differences = <<>> THEN 0 ELSE differences[1]

\* Tuples and strings in Python: the first difference decides, then the length.
Lexicographic(s, t, Order(_, _)) ==
    FirstDifference([i \in 1..(IF Len(s) < Len(t) THEN Len(s) ELSE Len(t)) |-> Order(s[i], t[i])]
                    \o <<Sign(Len(s), Len(t))>>)
Text(s, t) == Lexicographic(s, t, Sign)

NumberOf(digits) == FoldLeft(LAMBDA n, c : 10 * n + (c - 48), 0, digits)

\* Where the class of characters changes, a token begins.
ClassOf(c) == IF IsDigit(c) THEN "digit" ELSE IF IsLetter(c) THEN "letter" ELSE "other"
Starts(v) == {i \in DOMAIN v : i = 1 \/ ClassOf(v[i]) # ClassOf(v[i - 1])}
TokenAt(v, i) ==
    SubSeq(v, i, CHOOSE j \in i..Len(v) :
        /\ \A k \in i..j : ClassOf(v[k]) = ClassOf(v[i])
        /\ j = Len(v) \/ ClassOf(v[j + 1]) # ClassOf(v[i]))
TokensOf(v) == [k \in 1..Cardinality(Starts(v)) |-> TokenAt(v, SetToSortSeq(Starts(v), <)[k])]
Words(v) == SelectSeq(TokensOf(v), LAMBDA t : ClassOf(t[1]) # "other")
IsNumber(token) == IsDigit(token[1])

LowerCase(token) == [i \in DOMAIN token |-> IF token[i] \in 65..90 THEN token[i] + 32 ELSE token[i]]

\* Numbers come after names.
TokenOrder(s, t) ==
    IF IsNumber(s) # IsNumber(t) THEN IF IsNumber(s) THEN 1 ELSE -1
    ELSE IF IsNumber(s) THEN Sign(NumberOf(s), NumberOf(t)) ELSE Text(LowerCase(s), LowerCase(t))

GenericOrder(v, w) ==
    IF Words(v) = <<>> \/ Words(w) = <<>> THEN Incomparable
    ELSE Lexicographic(Words(v), Words(w), TokenOrder)

--------------------------------------------------------------------------------
(* Debian and Alpine, and RPM.                                             *)

Positions(v, c) == {i \in DOMAIN v : v[i] = c}
FirstAt(v, c) == CHOOSE i \in Positions(v, c) : \A j \in Positions(v, c) : i <= j
LastAt(v, c) == CHOOSE i \in Positions(v, c) : \A j \in Positions(v, c) : i >= j
Before(v, i) == SubSeq(v, 1, i - 1)
After(v, i) == SubSeq(v, i + 1, Len(v))

\* The epoch is a number before a colon; anything else before it is invalid.
HasEpoch(v) == Positions(v, Code.colon) # {}
EpochText(v) == IF HasEpoch(v) THEN Before(v, FirstAt(v, Code.colon)) ELSE <<48>>
ValidEpoch(v) == EpochText(v) # <<>> /\ \A i \in DOMAIN EpochText(v) : IsDigit(EpochText(v)[i])
WithoutEpoch(v) == IF HasEpoch(v) THEN After(v, FirstAt(v, Code.colon)) ELSE v

\* Mutant of NonDigitOrder: a tilde is punctuation like any other.
NonDigitAfter(c) == IF IsLetter(c) THEN c ELSE c + 256
NonDigitOrder(c) == IF c = Code.tilde THEN -1 ELSE IF IsLetter(c) THEN c ELSE c + 256

\* Two parts are read, each from an index on, as pairs of other characters and digits;
\* characters are compared one by one, and the end of them sorts before all but a tilde.
NonDigits(v) == SelectInSeq(v \o <<48>>, IsDigit) - 1
RestDigits(v) == LET rest == After(v, NonDigits(v))
                 IN  SelectInSeq(rest \o <<0>>, LAMBDA c : ~IsDigit(c)) - 1
PartOrder(v, w) ==
    LET orderFrom[i \in 0 .. Len(v), j \in 0 .. Len(w)] ==
            IF i = Len(v) /\ j = Len(w) THEN 0
            ELSE LET x == After(v, i)
                     y == After(w, j)
                     n == NonDigits(x)
                     m == NonDigits(y)
                     d == n + RestDigits(x)
                     e == m + RestDigits(y)
                     At(s, k, end) == IF k <= end THEN NonDigitOrder(s[k]) ELSE 0
                 IN  FirstDifference(
                        [k \in 1..(IF n > m THEN n ELSE m) |-> Sign(At(x, k, n), At(y, k, m))]
                        \o <<Sign(NumberOf(SubSeq(x, n + 1, d)), NumberOf(SubSeq(y, m + 1, e))),
                             orderFrom[i + d, j + e]>>)
    IN  orderFrom[0, 0]

Upstream(v) == IF Positions(v, Code.dash) = {} THEN v ELSE Before(v, LastAt(v, Code.dash))
Revision(v) == IF Positions(v, Code.dash) = {} THEN <<48>> ELSE After(v, LastAt(v, Code.dash))

DebianOrder(v, w) ==
    IF ~ValidEpoch(v) \/ ~ValidEpoch(w) THEN Incomparable
    ELSE LET x == WithoutEpoch(v)
             y == WithoutEpoch(w)
         IN  FirstDifference(<<Sign(NumberOf(EpochText(v)), NumberOf(EpochText(w))),
                               PartOrder(Upstream(x), Upstream(y)),
                               PartOrder(Revision(x), Revision(y))>>)

\* Each tilde is a segment below all others; but the end of a version is lower still.
Segments(v) ==
    FlattenSeq([k \in DOMAIN TokensOf(v) |->
        IF ClassOf(TokensOf(v)[k][1]) # "other" THEN <<TokensOf(v)[k]>>
        ELSE LET tildes == SelectSeq(TokensOf(v)[k], LAMBDA c : c = Code.tilde)
             IN  [i \in DOMAIN tildes |-> <<Code.tilde>>]])
SegmentOrder(s, t) ==
    IF s = <<Code.tilde>> \/ t = <<Code.tilde>>
    THEN Sign(IF s = <<Code.tilde>> THEN 0 ELSE 1, IF t = <<Code.tilde>> THEN 0 ELSE 1)
    ELSE TokenOrder(s, t)
RpmOrder(v, w) ==
    IF ~ValidEpoch(v) \/ ~ValidEpoch(w) THEN Incomparable
    ELSE FirstDifference(<<Sign(NumberOf(EpochText(v)), NumberOf(EpochText(w))),
                           Lexicographic(Segments(WithoutEpoch(v)), Segments(WithoutEpoch(w)),
                                         SegmentOrder)>>)

--------------------------------------------------------------------------------
(* Semantic versions and Maven.                                            *)

Pieces(v) ==
    LET dots == SetToSortSeq(Positions(v, Code.dot) \cup {0, Len(v) + 1}, <)
    IN  [i \in 1..(Len(dots) - 1) |-> SubSeq(v, dots[i] + 1, dots[i + 1] - 1)]

\* A v, then one to three numbers without leading zeros, then a pre-release after the first dash
\* and a build after the first plus.
Plain(v) == IF v # <<>> /\ v[1] \in {86, 118} THEN Tail(v) ELSE v
Unbuilt(v) ==
    LET p == Plain(v)
    IN  IF Positions(p, Code.plus) = {} THEN p ELSE Before(p, FirstAt(p, Code.plus))
HasPre(v) == Positions(Unbuilt(v), Code.dash) # {}
ReleaseOf(v) == Pieces(IF HasPre(v) THEN Before(Unbuilt(v), FirstAt(Unbuilt(v), Code.dash))
                       ELSE Unbuilt(v))
PreOf(v) == After(Unbuilt(v), FirstAt(Unbuilt(v), Code.dash))
Identifier(s) == s # <<>> /\ \A i \in DOMAIN s : IsDigit(s[i]) \/ IsLetter(s[i])
                                                 \/ s[i] \in {Code.dot, Code.dash}
IsSemver(v) ==
    /\ Len(ReleaseOf(v)) \in 1..3
    /\ \A i \in DOMAIN ReleaseOf(v) :
          LET piece == ReleaseOf(v)[i]
          IN  /\ piece # <<>> /\ \A j \in DOMAIN piece : IsDigit(piece[j])
              /\ piece[1] = 48 => Len(piece) = 1
    /\ HasPre(v) => Identifier(PreOf(v))
    /\ Positions(v, Code.plus) # {} => Identifier(After(v, FirstAt(v, Code.plus)))

AllDigits(s) == s # <<>> /\ \A i \in DOMAIN s : IsDigit(s[i])
PieceOrder(s, t) ==
    IF AllDigits(s) # AllDigits(t) THEN IF AllDigits(s) THEN -1 ELSE 1
    ELSE IF AllDigits(s) THEN Sign(NumberOf(s), NumberOf(t)) ELSE Text(s, t)

\* Mutant of PreOrder: a release and its pre-releases are one.
PreOrderOfBoth(v, w) ==
    IF HasPre(v) /\ HasPre(w) THEN Lexicographic(Pieces(PreOf(v)), Pieces(PreOf(w)), PieceOrder)
    ELSE 0
PreOrder(v, w) ==
    IF HasPre(v) /\ HasPre(w) THEN Lexicographic(Pieces(PreOf(v)), Pieces(PreOf(w)), PieceOrder)
    ELSE Sign(IF HasPre(v) THEN 0 ELSE 1, IF HasPre(w) THEN 0 ELSE 1)

SemverOrder(v, w) ==
    IF ~IsSemver(v) \/ ~IsSemver(w) THEN Incomparable
    ELSE LET Number(x, i) == IF i \in DOMAIN ReleaseOf(x) THEN NumberOf(ReleaseOf(x)[i]) ELSE 0
         IN  FirstDifference([i \in 1..3 |-> Sign(Number(v, i), Number(w, i))]
                             \o <<PreOrder(v, w)>>)

\* The names with a rank of their own, of which the long forms are left out; an unknown
\* name comes after them.
QualifierRank == (<<97>> :> -5) @@ (<<98>> :> -4) @@ (<<109>> :> -3) @@ (<<114, 99>> :> -2)
                 @@ (<<99, 114>> :> -2) @@ (<<103, 97>> :> 0) @@ (<<115, 112>> :> 1)
RankOf(name) == IF name \in DOMAIN QualifierRank THEN QualifierRank[name] ELSE 2

\* The numbers up to the first name, without the zeros at their end but the first.
Leading(words) == SelectInSeq(words \o <<<<97>>>>, LAMBDA t : ~IsNumber(t)) - 1
MavenRelease(v) ==
    LET numbers == [i \in 1..Leading(Words(v)) |-> NumberOf(Words(v)[i])]
    IN  IF numbers = <<>> THEN <<>>
        ELSE SubSeq(numbers, 1, Max({1} \cup {i \in DOMAIN numbers : numbers[i] # 0}))
Qualifiers(v) == [i \in 1..(Len(Words(v)) - Leading(Words(v))) |->
                     LowerCase(Words(v)[Leading(Words(v)) + i])]
QualifierOrder(q, r) ==
    LET Rank(s) == IF s = <<>> THEN 0 ELSE RankOf(s[1])
        Name(s) == IF s = <<>> \/ s[1] \in DOMAIN QualifierRank THEN <<>> ELSE s[1]
        Number(s) == IF Len(s) > 1 /\ IsNumber(s[2]) THEN NumberOf(s[2]) ELSE 0
    IN  FirstDifference(<<Sign(Rank(q), Rank(r)), Text(Name(q), Name(r)),
                          Sign(Number(q), Number(r)),
                          Lexicographic(SubSeq(q, 3, Len(q)), SubSeq(r, 3, Len(r)), Text)>>)

MavenPunctuation == {Code.dot, 95, Code.dash}
IsMaven(v) == Words(v) # <<>> /\ \A i \in DOMAIN v : IsDigit(v[i]) \/ IsLetter(v[i])
                                                     \/ v[i] \in MavenPunctuation
MavenOrder(v, w) ==
    IF ~IsMaven(v) \/ ~IsMaven(w) THEN Incomparable
    ELSE FirstDifference(<<Lexicographic(MavenRelease(v), MavenRelease(w), Sign),
                           QualifierOrder(Qualifiers(v), Qualifiers(w))>>)

--------------------------------------------------------------------------------
(* Comparisons and ranges.                                                 *)

Ecosystems == {"semver", "deb", "rpm", "maven", "generic"}

\* Equal texts are equal versions, even when they cannot be parsed.
CompareVersions(ecosystem, v, w) ==
    IF v = w THEN 0
    ELSE CASE ecosystem = "semver" -> SemverOrder(v, w)
           [] ecosystem = "deb" -> DebianOrder(v, w)
           [] ecosystem = "rpm" -> RpmOrder(v, w)
           [] ecosystem = "maven" -> MavenOrder(v, w)
           [] OTHER -> GenericOrder(v, w)

\* A bound of a range is <<>> or <<[version, inclusive]>>.
Unbounded == <<>>
Outside(order, bound, side) == order = side \/ (order = 0 /\ ~bound.inclusive)

\* How the version compares with each of the others.
OrderOf(ecosystem, v, others) == [w \in others |-> CompareVersions(ecosystem, v, w)]

\* Mutant of RangeStatus: a version that cannot be compared with the end is within.
RangeStatusLenient(order, range) ==
    LET Past(bound, side) ==
            bound # Unbounded /\ Outside(order[bound[1].version], bound[1], side)
    IN  IF Past(range.introduced, -1) THEN "not-affected"
        ELSE IF Past(range.fixed, 1) THEN "fixed"
        ELSE IF Past(range.last, 1) THEN "not-affected" ELSE "affected"
RangeStatus(order, range) ==
    LET Past(bound, side) ==
            bound # Unbounded /\ Outside(order[bound[1].version], bound[1], side)
        Unclear(bound) == bound # Unbounded /\ order[bound[1].version] = Incomparable
    IN  IF Unclear(range.introduced) THEN "unsupported-comparison"
        ELSE IF Past(range.introduced, -1) THEN "not-affected"
        ELSE IF Unclear(range.fixed) THEN "unsupported-comparison"
        ELSE IF Past(range.fixed, 1) THEN "fixed"
        ELSE IF Unclear(range.last) THEN "unsupported-comparison"
        ELSE IF Past(range.last, 1) THEN "not-affected" ELSE "affected"

EndsOf(range) ==
    {bound[1].version : bound \in {range.introduced, range.fixed, range.last} \ {Unbounded}}

\* Mutant of RangeLoads: two ends that are equal, whether they belong to it or not.
RangeLoadsOrdered(ecosystem, range) ==
    range.introduced # Unbounded /\ range.fixed \o range.last # Unbounded =>
        CompareVersions(ecosystem, range.introduced[1].version,
                        (range.fixed \o range.last)[1].version) \in {-1, 0}

\* The ranges with which a catalog loads: one upper end at most, and two ends that can be
\* compared and have something between them.
RangeLoads(ecosystem, range) ==
    LET upper == range.fixed \o range.last
    IN  /\ Len(upper) <= 1
        /\ range.introduced # Unbounded /\ upper # Unbounded =>
              \E order \in {CompareVersions(ecosystem, range.introduced[1].version,
                                            upper[1].version)} :
                  order = -1 \/ (order = 0 /\ range.introduced[1].inclusive /\ upper[1].inclusive)

--------------------------------------------------------------------------------
(* Properties of the comparison.                                           *)

\* Versions that can be compared are ordered: what holds of two holds the other way
\* around, and what is at most a version is at most all that come after it.
OrderedOn(order, x, y, z) ==
    LET AtMost(v, w) == order[v][w] \in {-1, 0}
    IN  /\ order[x][y] = (IF order[y][x] = Incomparable THEN Incomparable ELSE -order[y][x])
        /\ AtMost(x, y) /\ AtMost(y, z) => AtMost(x, z)

\* What a range says along the versions: whatever lies between two affected versions is
\* affected, an affected version is never above one that is fixed, and what does not
\* compare with an end of the range is neither.
RangeHolds(order, x, y, z, range) ==
    \A status \in {[v \in {x, y, z} |-> RangeStatus(order[v], range)]} :
        order[x][y] = -1 =>
            /\ status[x] = "affected" /\ status[z] = "affected" /\ order[y][z] = -1
                  => status[y] = "affected"
            /\ status[x] = "fixed" => status[y] # "affected"
            /\ status[x] \in {"affected", "fixed"} =>
                  \/ \A end \in EndsOf(range) : order[x][end] # Incomparable
                  \/ status[x] = "fixed" /\ order[x][range.fixed[1].version] # Incomparable

\* A range that loads is not empty: the versions it names as its ends, if they belong to
\* it, are affected.
EndsHold(ecosystem, range) ==
    RangeLoads(ecosystem, range) =>
        \A bound \in {range.introduced, range.fixed, range.last} \ {Unbounded} :
            bound[1].inclusive =>
                RangeStatus(OrderOf(ecosystem, bound[1].version, EndsOf(range)), range)
                    = "affected"

VersionsSoundOn(ecosystem, x, y, z, range) ==
    /\ EndsHold(ecosystem, range)
    /\ \A order \in {[v \in {x, y, z} |-> OrderOf(ecosystem, v, {x, y, z} \cup EndsOf(range))]} :
          OrderedOn(order, x, y, z) /\ RangeHolds(order, x, y, z, range)

\* A pre-release is before its release in the ecosystems that have one.
PreReleaseFirst ==
    /\ DebianOrder(<<49, 126>>, <<49>>) = -1
    /\ SemverOrder(<<49, 45, 97>>, <<49>>) = -1
    /\ MavenOrder(<<49, 45, 114, 99>>, <<49>>) = -1

--------------------------------------------------------------------------------
(* Matching.                                                               *)

Unsaid == "unsaid"

\* The records with which a catalog loads: something is affected, of a vendor where names
\* alone say little.
RecordLoads(a) ==
    /\ a.ranges # {} \/ a.exact # {}
    /\ a.identifier = Unsaid /\ a.vendor = Unsaid =>
          a.ecosystem \notin {"firmware", "generic", "operating-system"}
    /\ \A r \in a.ranges : RangeLoads(a.ecosystem, r)

\* How precisely the record is of the component.
IdentityOf(c, a) ==
    IF c.ecosystem # a.ecosystem THEN "none"
    ELSE IF c.identifier # Unsaid /\ a.identifier # Unsaid
    THEN IF c.identifier = a.identifier THEN "precise" ELSE "none"
    ELSE IF c.name # a.name \/ (a.vendor # Unsaid /\ a.vendor # c.vendor) THEN "none"
    ELSE IF c.ecosystem = "firmware" /\ c.vendor # Unsaid THEN "precise" ELSE "uncertain"

\* The records that the indexes give; the others are not looked at.
CandidatesOf(c, records) ==
    {a \in records :
        /\ a.ecosystem = c.ecosystem
        /\ a.name = c.name \/ (c.identifier # Unsaid /\ a.identifier = c.identifier)}

Permits(allowed, actual) == allowed = {} \/ actual \in allowed

\* What the versions listed and every range say.
OutcomesBy(order, a) ==
    {RangeStatus(order, r) : r \in a.ranges} \cup
    (IF a.exact = {} THEN {}
     ELSE IF \E v \in a.exact : order[v] = 0 THEN {"affected"}
     ELSE IF \E v \in a.exact : order[v] = Incomparable THEN {"unsupported-comparison"}
     ELSE {"not-affected"})

VersionOutcomes(c, a) ==
    OutcomesBy(OrderOf(c.ecosystem, c.version[1], a.exact \cup UNION {EndsOf(r) : r \in a.ranges}),
               a)

VerdictOf(outcomes) ==
    IF "affected" \in outcomes THEN "affected"
    ELSE IF "unsupported-comparison" \in outcomes THEN "unsupported-comparison"
    ELSE IF "fixed" \in outcomes THEN "fixed" ELSE "not-affected"

Authoritative == {"endpoint-collector", "reviewed-connector"}

MatchStatusOf(c, a) ==
    IF a.withdrawn THEN "advisory-withdrawn"
    ELSE IF ~c.active THEN "fixed"
    ELSE IF c.source \notin Authoritative \/ ~c.current THEN "insufficient-evidence"
    ELSE IF IdentityOf(c, a) = "uncertain" THEN "identity-uncertain"
    ELSE IF ~Permits(a.architectures, c.architecture) \/ ~Permits(a.platforms, c.platform)
    THEN "not-affected"
    ELSE IF c.ecosystem = "firmware" /\ ~c.confirmed THEN "insufficient-evidence"
    ELSE IF c.version = <<>> THEN "version-unknown"
    ELSE VerdictOf(VersionOutcomes(c, a))

Precedence ==
    [s \in {"affected", "version-unknown", "identity-uncertain", "unsupported-comparison",
            "insufficient-evidence", "fixed", "not-affected", "advisory-withdrawn", "none"} |->
        CASE s = "affected" -> 8 [] s = "version-unknown" -> 7 [] s = "identity-uncertain" -> 6
          [] s = "unsupported-comparison" -> 5 [] s = "insufficient-evidence" -> 4
          [] s = "fixed" -> 3 [] s = "not-affected" -> 2 [] s = "advisory-withdrawn" -> 1
          [] OTHER -> 0]

StatusesOf(c, records) ==
    {MatchStatusOf(c, a) : a \in {r \in CandidatesOf(c, records) : IdentityOf(c, r) # "none"}}

First(statuses) == CHOOSE s \in statuses : \A t \in statuses : Precedence[s] >= Precedence[t]

\* Mutant of MostCautious: what settles a match goes first.
SettledFirst(statuses) ==
    IF statuses \cap {"fixed", "not-affected"} # {} THEN "fixed" ELSE First(statuses)

\* The records of one advisory together: the most cautious answer that one of them gives.
MostCautious(statuses) == First(statuses)
Verdict(c, records) == MostCautious(StatusesOf(c, records) \cup {"none"})

--------------------------------------------------------------------------------
(* Properties of matching.                                                 *)

\* The component with less evidence: aged, of another source, without its version, or
\* without its identifier where the records say the name and the vendor as it does: those
\* with its identifier have its name, and those of firmware, which its vendor and its name
\* stand for as well, have no other.
WithLess(c, records) ==
    {[c EXCEPT !.current = FALSE], [c EXCEPT !.source = "passive-network-sensor"],
     [c EXCEPT !.version = <<>>]}
    \cup {d \in {[c EXCEPT !.identifier = Unsaid]} :
              \A a \in records :
                  /\ a.vendor \in {Unsaid, c.vendor}
                  /\ a.identifier = c.identifier => a.name = c.name
                  /\ c.ecosystem = "firmware" => a.identifier \in {Unsaid, c.identifier}}

Safe == {"fixed", "not-affected", "advisory-withdrawn", "none"}

\* Losing evidence never makes an affected component a safe one, nor one that is safe an
\* affected one; a record added to an advisory never hides what another says; and no
\* record that is of the component is lost in the indexes.
MatchingSoundOn(c, records) ==
    \A verdict \in {[d \in WithLess(c, records) \cup {c} |->
                        [some \in {records} \cup {{a} : a \in records} |-> Verdict(d, some)]]} :
        /\ \A d \in WithLess(c, records) :
              /\ verdict[c][records] = "affected" => verdict[d][records] \notin Safe
              /\ verdict[c][records] # "affected" => verdict[d][records] # "affected"
        /\ \A a \in records : verdict[c][{a}] = "affected" => verdict[c][records] = "affected"
        /\ verdict[c][records] \in Safe => \A a \in records : verdict[c][{a}] \in Safe
        /\ \A a \in records : IdentityOf(c, a) # "none" => a \in CandidatesOf(c, records)
================================================================================
