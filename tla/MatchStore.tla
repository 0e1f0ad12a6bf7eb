------------------------------- MODULE MatchStore -------------------------------
(***************************************************************************)
(* The matches of components and advisories (backend/app                   *)
(* vulnerability_store.py) with the catalogs of known exploited            *)
(* vulnerabilities (kev_store.py): evaluation runs overlap, and every      *)
(* match they change, like every catalog that becomes active, decides      *)
(* anew which matches are of a known exploited vulnerability (a factor).   *)
(*                                                                         *)
(* The two hold one lock while they write, so each is one step.  What an   *)
(* evaluation finds of a match is a fact; the version is left out.         *)
(***************************************************************************)
EXTENDS Integers, FiniteSets, Sequences, Functions, TLC

CONSTANTS
    ComponentMatches, SiteOf, AdvisoryOf,
    MatchRuns,
    KevCatalogs,    \* [known, ransomware]: the CVEs and those used in ransomware campaigns
    NewAdvisories,  \* what an advisory catalog may make of an advisory: [current, aliases]
    FirstAdvisories,
    MaxNews         \* bound on the changes of facts and advisories

\* A match is at a site.
ASSUME MatchAssumption == DOMAIN SiteOf = ComponentMatches

VARIABLES
    finds,         \* what an evaluation finds of each match
    advisory,      \* each advisory: whether it is current, and the CVEs it names
    news,          \* the changes so far
    matchRow,           \* the stored match
    matchRun,
    runsBegun,     \* the time
    kevActive, kevHeld,
    correlated,    \* the current pairs of advisory and CVE
    factor,        \* <<catalog, match, CVE>> to whether it is current and of ransomware
    kevEvent,      \* the last history row of a CVE's record
    written,       \* of the step: the history rows of matches and of factors, and the sites
                   \* that an activation reports for evaluation
    newest,        \* what the newest run that wrote or looked at a match found
    drifted,       \* an advisory changed after the catalog was activated
    everAgain      \* a catalog was activated a second time

matchVars ==
    <<finds, advisory, news, matchRow, matchRun, runsBegun, kevActive, kevHeld, correlated, factor,
      kevEvent, written, newest, drifted, everAgain>>
factVars == <<finds, advisory, news, drifted>>
kevVars == <<kevActive, kevHeld, correlated, kevEvent, everAgain>>

MatchSites == Range(SiteOf)
OfAdvisories == Range(AdvisoryOf)
CVEs == UNION {c.known : c \in KevCatalogs}
Everywhere == "everywhere"
Unstored == [status |-> "none", at |-> 0]
NoRun == [pc |-> "new"]
NothingWritten == [matches |-> <<>>, factors |-> <<>>, sites |-> {}]
NoCatalog == [known |-> {}, ransomware |-> {}]

MatchTypeOK ==
    /\ \A m \in ComponentMatches :
          matchRow[m].status \in {"none", "affected", "uncertain", "not-affected",
                                 "advisory-withdrawn"}
    /\ DOMAIN factor \subseteq KevCatalogs \X ComponentMatches \X CVEs
    /\ correlated \subseteq OfAdvisories \X CVEs
    /\ kevActive \in kevHeld \cup {NoCatalog} /\ written.sites \subseteq MatchSites

MatchInit ==
    /\ finds = [m \in ComponentMatches |-> "affected"]
    /\ advisory = FirstAdvisories
    /\ news = 0 /\ matchRow = [m \in ComponentMatches |-> Unstored]
    /\ matchRun = [r \in MatchRuns |-> NoRun] /\ runsBegun = 0
    /\ kevActive = NoCatalog /\ kevHeld = {} /\ correlated = {} /\ factor = <<>>
    /\ kevEvent = [v \in CVEs |-> "none"]
    /\ written = NothingWritten
    /\ newest = [m \in ComponentMatches |-> Unstored] /\ drifted = FALSE /\ everAgain = FALSE

--------------------------------------------------------------------------------
(* The factors.                                                            *)

IsCurrent(f, id) == id \in DOMAIN f /\ f[id].current
CurrentOf(f) == {id \in DOMAIN f : f[id].current}

\* The factors that the catalog, the correlations and the matches ask for.
Desired(catalog, pairs, rows, matches) ==
    IF catalog = NoCatalog THEN {}
    ELSE {<<catalog, m, v>> : m \in {n \in matches : rows[n].status = "affected"},
                              v \in catalog.known}
         \cap {id \in KevCatalogs \X ComponentMatches \X CVEs :
                  <<AdvisoryOf[id[2]], id[3]>> \in pairs}

WithFactors(f, off, on) ==
    [id \in DOMAIN f \cup on |->
        IF id \in on THEN [current |-> TRUE, ransomware |-> id[3] \in id[1].ransomware]
        ELSE IF id \in off THEN [current |-> FALSE, ransomware |-> f[id].ransomware] ELSE f[id]]

\* The history rows: the deactivations come first.
FactorRows(f, off, on) ==
    [id \in off \cup {o \in on : o \in off \/ ~IsCurrent(f, o)} |->
        IF id \notin on THEN <<FALSE>> ELSE IF id \in off THEN <<FALSE, TRUE>> ELSE <<TRUE>>]

--------------------------------------------------------------------------------
(* The evaluation of matches.                                              *)

InScope(m, scope) == scope \in {Everywhere, SiteOf[m]}

BeginMatchRun(r, scope) ==
    /\ matchRun[r].pc = "new" /\ runsBegun' = runsBegun + 1
    /\ matchRun' = [matchRun EXCEPT ![r] = [pc |-> "begun", at |-> runsBegun + 1, scope |-> scope]]
    /\ written' = NothingWritten /\ UNCHANGED <<factVars, matchRow, kevVars, factor, newest>>

\* A withdrawn advisory is found like any other.
Finding(m) ==
    IF finds[m] # "gone" /\ ~advisory[AdvisoryOf[m]].current THEN "advisory-withdrawn"
    ELSE finds[m]

\* A run of a site knows which advisories had matches there.
ReadInputs(r) ==
    /\ matchRun[r].pc = "begun"
    /\ LET InRun == {m \in ComponentMatches : InScope(m, matchRun[r].scope)}
       IN  matchRun' = [matchRun EXCEPT ![r] =
              [pc |-> "read", at |-> matchRun[r].at, scope |-> matchRun[r].scope,
               found |-> [m \in InRun |-> Finding(m)],
               prior |-> IF matchRun[r].scope = Everywhere THEN {}
                         ELSE {AdvisoryOf[m] : m \in {n \in InRun : matchRow[n] # Unstored}}]]
    /\ written' = NothingWritten
    /\ UNCHANGED <<factVars, matchRow, runsBegun, kevVars, factor, newest>>

\* Mutant of Overwrites: the last to come wins.
OverwritesAnyTime(r, m) == TRUE
Overwrites(r, m) == matchRow[m].at <= matchRun[r].at

\* A match that was found is stored; one that is stored and was not found is over, in the
\* scope of a run of a site, unless its status says so already.
Stored(r) == {m \in DOMAIN matchRun[r].found : matchRun[r].found[m] # "gone" /\ Overwrites(r, m)}
WhenGone(m) == IF advisory[AdvisoryOf[m]].current THEN "not-affected" ELSE "advisory-withdrawn"
Ended(r) ==
    {m \in DOMAIN matchRun[r].found :
        /\ matchRun[r].found[m] = "gone" /\ matchRow[m] # Unstored /\ Overwrites(r, m)
        /\ AdvisoryOf[m] \in matchRun[r].prior /\ matchRow[m].status # WhenGone(m)}

\* Mutant of Refreshed: a match that ended keeps its factors.
RefreshedStored(r) == Stored(r)
Refreshed(r) == Stored(r) \cup Ended(r)

ReconcileMatches(r) ==
    /\ matchRun[r].pc = "read"
    /\ LET found == matchRun[r].found
           At(status) == [status |-> status, at |-> matchRun[r].at]
           rows == [m \in ComponentMatches |-> IF m \in Stored(r) THEN At(found[m])
                                      ELSE IF m \in Ended(r) THEN At(WhenGone(m)) ELSE matchRow[m]]
           on == Desired(kevActive, correlated, rows, Refreshed(r))
           off == {id \in CurrentOf(factor) : id[2] \in Refreshed(r) /\ id \notin on}
       IN  /\ matchRow' = rows /\ factor' = WithFactors(factor, off, on)
           /\ written' = [factors |-> FactorRows(factor, off, on), sites |-> {},
                          matches |-> [m \in {n \in ComponentMatches :
                                                 rows[n].status # matchRow[n].status} |->
                                         <<matchRow[m].status, rows[m].status>>]]
           /\ newest' = [m \in ComponentMatches |->
                IF m \in DOMAIN found /\ matchRun[r].at >= newest[m].at THEN At(found[m])
                ELSE newest[m]]
    /\ matchRun' = [matchRun EXCEPT ![r] = [pc |-> "ended"]]
    /\ UNCHANGED <<factVars, runsBegun, kevVars>>

\* A limit, an error or a restart before the reconciliation: nothing is written.
FailMatchRun(r) ==
    /\ matchRun[r].pc \in {"begun", "read"}
    /\ matchRun' = [matchRun EXCEPT ![r] = [pc |-> "ended"]]
    /\ written' = NothingWritten
    /\ UNCHANGED <<factVars, matchRow, runsBegun, kevVars, factor, newest>>

--------------------------------------------------------------------------------
(* The catalogs of known exploited vulnerabilities.                        *)

Correlations(catalog) ==
    {p \in OfAdvisories \X catalog.known :
        advisory[p[1]].current /\ p[2] \in advisory[p[1]].aliases}

RecordOf(catalog, v) == <<v \in catalog.known, v \in catalog.ransomware>>
ChangedCVEs(catalog) == {v \in CVEs : RecordOf(catalog, v) # RecordOf(kevActive, v)}

\* Mutant of KevEventOf: a record that is left out is not recorded.
EventOfRecords(catalog, v) ==
    IF v \notin catalog.known THEN kevEvent[v]
    ELSE IF v \notin kevActive.known THEN "added"
    ELSE IF v \in ChangedCVEs(catalog) THEN "updated" ELSE kevEvent[v]
KevEventOf(catalog, v) ==
    IF catalog \in kevHeld THEN IF v \in catalog.known THEN "reactivated" ELSE kevEvent[v]
    ELSE IF v \notin catalog.known
         THEN IF v \in kevActive.known THEN "removed" ELSE kevEvent[v]
    ELSE IF v \notin kevActive.known THEN "added"
    ELSE IF v \in ChangedCVEs(catalog) THEN "updated" ELSE kevEvent[v]

\* Mutant of SitesOfChange: only the factors that are current now are asked.
SitesOfCurrent(catalog, factors) ==
    {SiteOf[id[2]] : id \in {f \in CurrentOf(factors) : f[3] \in ChangedCVEs(catalog)}}
SitesOfChange(catalog, factors) ==
    {SiteOf[id[2]] : id \in {f \in DOMAIN factors : f[3] \in ChangedCVEs(catalog)}}

ImportedFactors(catalog, pairs) == Desired(catalog, pairs, matchRow, ComponentMatches)

\* The sites are those of the factors as they become.
ActivateKev(catalog, sites) ==
    LET pairs == Correlations(catalog)
        on == ImportedFactors(catalog, pairs)
        off == CurrentOf(factor)
    IN  /\ kevActive' = catalog /\ kevHeld' = kevHeld \cup {catalog}
        /\ correlated' = pairs /\ factor' = WithFactors(factor, off, on)
        /\ kevEvent' = [v \in CVEs |-> KevEventOf(catalog, v)]
        /\ written' = [matches |-> <<>>, factors |-> FactorRows(factor, off, on),
                       sites |-> sites]
        /\ drifted' = FALSE
        /\ everAgain' = (everAgain \/ catalog \in kevHeld)
        /\ UNCHANGED <<finds, advisory, news, matchRow, matchRun, runsBegun, newest>>

\* A new catalog or one that is rolled back to.
ImportKev(catalog) == ActivateKev(catalog, SitesOfChange(catalog, factor'))

RebuildKev ==
    kevActive # NoCatalog /\ ActivateKev(kevActive, {SiteOf[id[2]] : id \in CurrentOf(factor')})

--------------------------------------------------------------------------------
(* What changes around them.                                               *)

News == news < MaxNews /\ news' = news + 1 /\ written' = NothingWritten

Becomes(m, what) ==
    /\ what # finds[m] /\ News /\ finds' = [finds EXCEPT ![m] = what]
    /\ UNCHANGED <<advisory, drifted, matchRow, matchRun, runsBegun, kevVars, factor, newest>>

\* An advisory catalog is imported; the evaluation that follows is a run.
ImportAdvisories(a, content) ==
    /\ content # advisory[a] /\ News /\ advisory' = [advisory EXCEPT ![a] = content]
    /\ drifted' = TRUE
    /\ UNCHANGED <<finds, matchRow, matchRun, runsBegun, kevVars, factor, newest>>

MatchNext ==
    \/ \E r \in MatchRuns :
          \/ \E scope \in MatchSites \cup {Everywhere} : BeginMatchRun(r, scope)
          \/ ReadInputs(r) \/ ReconcileMatches(r) \/ FailMatchRun(r)
    \/ (\E c \in KevCatalogs : ImportKev(c)) \/ RebuildKev
    \/ \E m \in ComponentMatches, what \in {"affected", "uncertain", "gone"} : Becomes(m, what)
    \/ \E a \in OfAdvisories, c \in NewAdvisories : ImportAdvisories(a, c)

MatchSpec == MatchInit /\ [][MatchNext]_matchVars

--------------------------------------------------------------------------------
(* Properties.                                                             *)

\* Between any runs and activations: the current factors are those of the matches that are
\* affected now and the CVEs correlated in the active catalog, with what it says of them,
\* so that nothing that was fixed, withdrawn or left out still counts.
FactorsFollow ==
    /\ CurrentOf(factor) = Desired(kevActive, correlated, matchRow, ComponentMatches)
    /\ \A id \in CurrentOf(factor) : factor[id].ransomware = (id[3] \in kevActive.ransomware)
    /\ ~everAgain =>
          \A v \in CVEs : (kevEvent[v] \in {"added", "updated"}) = (v \in kevActive.known)

\* A match has the status that the newest run found, in whatever order runs end, unless
\* that run no longer found it: a match that was over before is not stamped by it.
NewestRunWins ==
    \A m \in ComponentMatches : newest[m].status # "gone" => matchRow[m] = newest[m]

\* The history of a factor has a row for every change and alternates; and a site whose
\* factors an activation changes is evaluated, unless an advisory had changed before it.
Alternate(rows, before, after) ==
    /\ rows # <<>> /\ after = rows[Len(rows)]
    /\ \A i \in DOMAIN rows : rows[i] # (IF i = 1 THEN before ELSE rows[i - 1])
HistoryAlternates ==
    /\ \A id \in DOMAIN written'.factors :
          Alternate(written'.factors[id], IsCurrent(factor, id), IsCurrent(factor', id))
    /\ \A id \in DOMAIN factor' : IsCurrent(factor', id) # IsCurrent(factor, id)
                                     => id \in DOMAIN written'.factors
Weighs(f) == {<<id[2], id[3], f[id].ransomware>> : id \in CurrentOf(f)}
SitesAreTold ==
    kevActive' # kevActive /\ ~drifted =>
        LET Changed == (Weighs(factor) \ Weighs(factor')) \cup (Weighs(factor') \ Weighs(factor))
        IN  \A w \in Changed : SiteOf[w[1]] \in written'.sites
ActivationTells == [][HistoryAlternates /\ SitesAreTold]_matchVars

\* All of it.
MatchesSound == [](FactorsFollow /\ NewestRunWins) /\ ActivationTells

--------------------------------------------------------------------------------
(* The inductive invariant behind MatchesSound.                            *)

MatchTyped ==
    /\ DOMAIN factor \subseteq KevCatalogs \X ComponentMatches \X CVEs
    /\ \A id \in DOMAIN factor : factor[id].current \in BOOLEAN
    /\ kevHeld \subseteq KevCatalogs /\ kevActive \in kevHeld \cup {NoCatalog}
    /\ runsBegun \in Nat
    /\ \A r \in MatchRuns :
          /\ matchRun[r].pc \in {"begun", "read"} => matchRun[r].at \in Nat
          /\ matchRun[r].pc = "read" => DOMAIN matchRun[r].found \subseteq ComponentMatches
    /\ DOMAIN matchRun = MatchRuns
    /\ \A m \in ComponentMatches : matchRow[m].at \in Nat /\ newest[m].at \in Nat

\* A row is not of a later run than the newest that looked at the match.
RowsAreKnown == \A m \in ComponentMatches : matchRow[m].at <= newest[m].at
\* Until an advisory changes, what the active catalog correlates is stored.
CorrelatedNow == ~drifted => correlated = Correlations(kevActive)

MatchInv ==
    /\ MatchTyped /\ RowsAreKnown /\ CorrelatedNow /\ FactorsFollow /\ NewestRunWins
================================================================================
