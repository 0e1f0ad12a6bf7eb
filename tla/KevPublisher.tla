----------------------------- MODULE KevPublisher -----------------------------
(***************************************************************************)
(* The publisher of the CISA KEV catalog.  Runs of one state file exclude  *)
(* each other with a lock the kernel releases when a process ends.  A run  *)
(* fetches the catalog the source serves, compares it with the state,      *)
(* reserves its sequence in the state, renames the signed bundle into the  *)
(* output directory and then marks the state published; it may end between *)
(* any two of these.  The source may serve an older catalog again, or      *)
(* other bytes under the same version.                                     *)
(*                                                                         *)
(* A release is a version, which names its release time, and its bytes.    *)
(* Keys, formats, paths and their permissions are left out; the deadline   *)
(* is a run that ends.                                                     *)
(***************************************************************************)
EXTENDS Naturals

CONSTANTS
    Publishers,      \* processes that share the state file
    Versions,        \* release times of the catalog, each with its own version
    CatalogBytes,    \* bytes of a catalog
    Floors,          \* values of --sequence-floor
    MaxKevSequence   \* bound: sequences ever reserved

ASSUME KevPublisherAssumption ==
    /\ Versions \subseteq Nat /\ Floors \subseteq Nat /\ "nobody" \notin Publishers
    /\ MaxKevSequence \in Nat

VARIABLES
    kevSource,    \* the release the source serves
    kevState,     \* the state file, or NoKevState
    kevOutputs,   \* the bundles in the output directory
    kevLock,      \* the process that holds the state lock, or NoHolder
    kevRun        \* each process's run

kevPublisherVars == <<kevSource, kevState, kevOutputs, kevLock, kevRun>>

KevRelease == [version : Versions, bytes : CatalogBytes]
NoKevState == [sequence |-> 0]
NoHolder == "nobody"
NotRunning == [at |-> "none"]

Issued == kevState.sequence
SameRelease(kept, release) ==
    kept.version = release.version /\ kept.bytes = release.bytes

(***************************************************************************)
(* One run.                                                                *)
(***************************************************************************)
\* The lock is asked for without waiting: a second run ends at once.
LockState(p) ==
    /\ kevRun[p] = NotRunning
    /\ kevLock = NoHolder
    /\ kevLock' = p
    /\ kevRun' = [kevRun EXCEPT ![p] = [at |-> "fetch"]]
    /\ UNCHANGED <<kevSource, kevState, kevOutputs>>

EndKevRun(p) ==
    /\ kevRun[p] # NotRunning
    /\ kevRun' = [kevRun EXCEPT ![p] = NotRunning]
    /\ kevLock' = IF kevLock = p THEN NoHolder ELSE kevLock
    /\ UNCHANGED <<kevSource, kevState, kevOutputs>>

FetchCatalog(p) ==
    /\ kevRun[p].at = "fetch"
    /\ kevRun' = [kevRun EXCEPT ![p] = [at |-> "compare", release |-> kevSource]]
    /\ UNCHANGED <<kevSource, kevState, kevOutputs, kevLock>>

\* The catalog may not be older than the state's, nor differ under its version.
MayFollow(release) ==
    kevState # NoKevState =>
        /\ release.version >= kevState.version
        /\ release.version = kevState.version => release.bytes = kevState.bytes

\* An unchanged catalog is skipped only when its bundle is known to be out.
Unchanged(release) ==
    kevState # NoKevState /\ kevState.status = "published" /\ SameRelease(kevState, release)

NextSequence(floor) == (IF Issued > floor THEN Issued ELSE floor) + 1

Reserved(release, sequence) ==
    [sequence |-> sequence, version |-> release.version, bytes |-> release.bytes,
     status |-> "reserved"]

\* Mutant: the sequence is not reserved before the bundle is out.
ReserveNothing(p, floor) ==
    LET release == kevRun[p].release
    IN  /\ kevRun[p].at = "compare"
        /\ MayFollow(release)
        /\ ~Unchanged(release)
        /\ NextSequence(floor) <= MaxKevSequence
        /\ kevRun' = [kevRun EXCEPT ![p] = [at |-> "output", release |-> release,
                                            sequence |-> NextSequence(floor)]]
        /\ UNCHANGED <<kevSource, kevState, kevOutputs, kevLock>>

\* The state is replaced in one step, before the bundle is in the output.
Reserve(p, floor) ==
    LET release == kevRun[p].release
        sequence == NextSequence(floor)
    IN  /\ kevRun[p].at = "compare"
        /\ MayFollow(release)
        /\ ~Unchanged(release)
        /\ sequence <= MaxKevSequence
        /\ kevState' = Reserved(release, sequence)
        /\ kevRun' = [kevRun EXCEPT ![p] = [at |-> "output", release |-> release,
                                            sequence |-> sequence]]
        /\ UNCHANGED <<kevSource, kevOutputs, kevLock>>

PublishOutput(p) ==
    LET bundle == [sequence |-> kevRun[p].sequence,
                   version |-> kevRun[p].release.version,
                   bytes |-> kevRun[p].release.bytes]
    IN  /\ kevRun[p].at = "output"
        /\ bundle \notin kevOutputs
        /\ kevOutputs' = kevOutputs \cup {bundle}
        /\ kevRun' = [kevRun EXCEPT ![p].at = "mark"]
        /\ UNCHANGED <<kevSource, kevState, kevLock>>

MarkPublished(p) ==
    /\ kevRun[p].at = "mark"
    /\ kevState' = [Reserved(kevRun[p].release, kevRun[p].sequence)
                    EXCEPT !.status = "published"]
    /\ kevRun' = [kevRun EXCEPT ![p].at = "done"]
    /\ UNCHANGED <<kevSource, kevOutputs, kevLock>>

SourceServes(release) ==
    /\ kevSource' = release
    /\ UNCHANGED <<kevState, kevOutputs, kevLock, kevRun>>

-----------------------------------------------------------------------------
KevPublisherInit ==
    /\ kevSource \in KevRelease
    /\ kevState = NoKevState
    /\ kevOutputs = {}
    /\ kevLock = NoHolder
    /\ kevRun = [p \in Publishers |-> NotRunning]

KevPublisherNext ==
    \/ \E p \in Publishers :
          \/ LockState(p)
          \/ FetchCatalog(p)
          \/ \E floor \in Floors : Reserve(p, floor)
          \/ PublishOutput(p)
          \/ MarkPublished(p)
          \/ EndKevRun(p)
    \/ \E release \in KevRelease : SourceServes(release)

KevPublisherSpec == KevPublisherInit /\ [][KevPublisherNext]_kevPublisherVars

-----------------------------------------------------------------------------
KevPublisherTypeOK ==
    /\ kevSource \in KevRelease
    /\ \/ kevState = NoKevState
       \/ /\ kevState.sequence \in 1 .. MaxKevSequence
          /\ [version |-> kevState.version, bytes |-> kevState.bytes] \in KevRelease
          /\ kevState.status \in {"reserved", "published"}
    /\ kevOutputs \subseteq [sequence : 1 .. MaxKevSequence, version : Versions, bytes : CatalogBytes]
    /\ kevLock \in Publishers \cup {NoHolder}
    /\ \A p \in Publishers :
          kevRun[p].at \in {"none", "fetch", "compare", "output", "mark", "done"}

\* No two bundles carry one sequence, whenever the runs ended.
SequenceIssuedOnce ==
    \A a, b \in kevOutputs : a.sequence = b.sequence => a = b

\* A hub that follows the sequences never goes back to an older catalog and never
\* sees two contents of one version.
SequencesFollowReleases ==
    \A a, b \in kevOutputs : a.sequence < b.sequence =>
        /\ a.version <= b.version
        /\ a.version = b.version => a.bytes = b.bytes

\* A catalog is skipped as unchanged only while its bundle is in the output.
PublishedIsOut ==
    kevState # NoKevState /\ kevState.status = "published" =>
        [sequence |-> kevState.sequence, version |-> kevState.version, bytes |-> kevState.bytes]
            \in kevOutputs

KevPublisherSound == SequenceIssuedOnce /\ SequencesFollowReleases /\ PublishedIsOut
=============================================================================
