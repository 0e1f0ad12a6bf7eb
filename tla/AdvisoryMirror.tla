---------------------------- MODULE AdvisoryMirror ----------------------------
(***************************************************************************)
(* The publication of the signed advisory mirror: one serialized workflow  *)
(* run restores the checkpoint of the last publication, copies the mirror  *)
(* the static host serves, refuses a replayed one, gives the new bundle a  *)
(* sequence above both, builds the next mirror over the copied one,        *)
(* deploys it whole and then saves the checkpoint.  The host may serve any *)
(* mirror ever deployed and change it between two requests of one run; the *)
(* runner's clock is arbitrary; a run may end at any step.                 *)
(*                                                                         *)
(* A catalog stands for one signed bundle: its sequence and the upstream   *)
(* release that its version names.  The digest of an index is its          *)
(* catalogs.  Signatures, keys, expiry and byte limits are the business of *)
(* SignedFeed and are left out.                                            *)
(***************************************************************************)
EXTENDS Naturals, Sequences, FiniteSets

CONSTANTS
    RetainPrior,     \* catalogs kept besides the new one (the workflow: 3)
    SourceReleases,        \* upstream releases
    MaxTime,         \* bound: readings of the runner's clock
    MaxDeployments   \* bound: mirrors ever deployed

ASSUME MirrorAssumption ==
    /\ {RetainPrior, MaxTime, MaxDeployments} \subseteq Nat
    /\ MaxTime > 0

VARIABLES
    deployed,     \* mirrors in the order they were deployed
    serving,      \* the one the static host serves, 0 before the first
    checkpoint,   \* the index of the last recorded publication, or NoMirror
    saved,        \* which deployments had their checkpoint recorded
    bootstrap,    \* the operator's one-time bootstrap variable
    publication   \* the workflow run

mirrorVars == <<deployed, serving, checkpoint, saved, bootstrap, publication>>

MaxMirrorSequence == MaxTime + MaxDeployments + 1
Catalog == [sequence : 1 .. MaxMirrorSequence, release : SourceReleases]
NoMirror == <<>>
Idle == [at |-> "idle"]

CatalogsOf(index) == {index[i] : i \in DOMAIN index}
LatestSequence(index) == index[Len(index)].sequence
Higher(a, b) == IF a > b THEN a ELSE b
\* Mutant: the first n catalogs are kept.
FirstKept(n, index) == IF Len(index) <= n THEN index ELSE SubSeq(index, 1, n)

LastOf(n, index) ==
    IF Len(index) <= n THEN index ELSE SubSeq(index, Len(index) - n + 1, Len(index))

IsIndex(index) ==
    /\ index \in Seq(Catalog)
    /\ Len(index) \in 1 .. RetainPrior + 1
    /\ \A i, j \in DOMAIN index : i < j =>
          /\ index[i].sequence < index[j].sequence
          /\ index[i].release # index[j].release

(***************************************************************************)
(* The workflow run.                                                       *)
(***************************************************************************)
\* A normal run needs the checkpoint; the deliberate bootstrap needs its absence.
MayStart(boot) ==
    IF boot THEN bootstrap /\ checkpoint = NoMirror ELSE checkpoint # NoMirror

StartPublication(boot) ==
    /\ publication = Idle
    /\ Len(deployed) < MaxDeployments
    /\ MayStart(boot)
    /\ publication' = [at    |-> IF boot THEN "floor" ELSE "index",
                       trust |-> checkpoint, index |-> NoMirror]
    /\ UNCHANGED <<deployed, serving, checkpoint, saved, bootstrap>>

EndPublication ==
    /\ publication # Idle
    /\ publication' = Idle
    /\ UNCHANGED <<deployed, serving, checkpoint, saved, bootstrap>>

CopyIndex ==
    /\ publication.at = "index"
    /\ publication' = [at |-> "signature", trust |-> publication.trust,
                       index |-> deployed[serving]]
    /\ UNCHANGED <<deployed, serving, checkpoint, saved, bootstrap>>

\* The signature is a second request: it verifies only the index it belongs to.
CopySignature ==
    /\ publication.at = "signature"
    /\ publication' = IF deployed[serving] = publication.index
                      THEN [at |-> "artifacts", trust |-> publication.trust,
                            index |-> publication.index, copied |-> 0]
                      ELSE Idle
    /\ UNCHANGED <<deployed, serving, checkpoint, saved, bootstrap>>

\* Every artifact lies under a directory named by its sequence and digest, and is
\* compared with the size and the digest the verified index gives.
CopyCatalog ==
    /\ publication.at = "artifacts"
    /\ LET entry == publication.index[publication.copied + 1]
       IN  publication' =
              IF entry \notin CatalogsOf(deployed[serving]) THEN Idle
              ELSE IF publication.copied + 1 = Len(publication.index)
              THEN [at |-> "continuity", trust |-> publication.trust,
                    index |-> publication.index]
              ELSE [at |-> "artifacts", trust |-> publication.trust,
                    index |-> publication.index, copied |-> publication.copied + 1]
    /\ UNCHANGED <<deployed, serving, checkpoint, saved, bootstrap>>

\* Mutant: a replayed mirror is taken.
ContinuityOfSameSequence(trust, index) ==
    LatestSequence(index) = LatestSequence(trust) => index = trust

verify_publication_continuity(trust, index) ==
    /\ LatestSequence(index) >= LatestSequence(trust)
    /\ LatestSequence(index) = LatestSequence(trust) => index = trust

SequenceFloor(index, time) == Higher(LatestSequence(index), time)

CheckContinuity(time) ==
    /\ publication.at = "continuity"
    /\ publication' =
          IF verify_publication_continuity(publication.trust, publication.index)
          THEN [at |-> "bundle", index |-> publication.index,
                floor |-> SequenceFloor(publication.index, time)]
          ELSE Idle
    /\ UNCHANGED <<deployed, serving, checkpoint, saved, bootstrap>>

FirstFloor(time) ==
    /\ publication.at = "floor"
    /\ publication' = [at |-> "bundle", index |-> NoMirror, floor |-> time]
    /\ UNCHANGED <<deployed, serving, checkpoint, saved, bootstrap>>

\* The stateless full publisher: whatever release the upstream listing shows.
PublishBundle(release) ==
    /\ publication.at = "bundle"
    /\ publication' = [at |-> "build", index |-> publication.index,
                       new |-> [sequence |-> publication.floor + 1, release |-> release]]
    /\ UNCHANGED <<deployed, serving, checkpoint, saved, bootstrap>>

\* The new bundle must advance the copied mirror, and no version may have two
\* sequences; the lowest sequences beyond the retention are dropped.
MayBuild(index, new) ==
    /\ index # NoMirror => new.sequence > LatestSequence(index)
    /\ \A old \in CatalogsOf(index) : old.release # new.release

build_advisory_mirror ==
    /\ publication.at = "build"
    /\ publication' =
          IF MayBuild(publication.index, publication.new)
          THEN [at |-> "deploy",
                built |-> LastOf(RetainPrior + 1, Append(publication.index, publication.new))]
          ELSE Idle
    /\ UNCHANGED <<deployed, serving, checkpoint, saved, bootstrap>>

Deploy ==
    /\ publication.at = "deploy"
    /\ deployed' = Append(deployed, publication.built)
    /\ serving' = Len(deployed')
    /\ publication' = [at |-> "save", built |-> publication.built]
    /\ UNCHANGED <<checkpoint, saved, bootstrap>>

SaveCheckpoint ==
    /\ publication.at = "save"
    /\ checkpoint' = publication.built
    /\ saved' = saved \cup {Len(deployed)}
    /\ publication' = Idle
    /\ UNCHANGED <<deployed, serving, bootstrap>>

(***************************************************************************)
(* The host, the cache of checkpoints and the operator.                    *)
(***************************************************************************)
HostServes(i) ==
    /\ serving' = i
    /\ UNCHANGED <<deployed, checkpoint, saved, bootstrap, publication>>

EvictCheckpoint ==
    /\ checkpoint # NoMirror
    /\ ~bootstrap
    /\ checkpoint' = NoMirror
    /\ UNCHANGED <<deployed, serving, saved, bootstrap, publication>>

\* The reviewed way back when the checkpoint is gone.
RestoreCheckpoint ==
    /\ checkpoint = NoMirror
    /\ ~bootstrap
    /\ publication = Idle
    /\ deployed # <<>>
    /\ checkpoint' = deployed[Len(deployed)]
    /\ saved' = saved \cup {Len(deployed)}
    /\ UNCHANGED <<deployed, serving, bootstrap, publication>>

DisableBootstrap ==
    /\ bootstrap
    /\ deployed # <<>>
    /\ bootstrap' = FALSE
    /\ UNCHANGED <<deployed, serving, checkpoint, saved, publication>>

-----------------------------------------------------------------------------
MirrorInit ==
    /\ deployed = <<>> /\ serving = 0
    /\ checkpoint = NoMirror /\ saved = {}
    /\ bootstrap = TRUE
    /\ publication = Idle

MirrorNext ==
    \/ \E boot \in BOOLEAN : StartPublication(boot)
    \/ EndPublication
    \/ CopyIndex
    \/ CopySignature
    \/ CopyCatalog
    \/ \E time \in 1 .. MaxTime : CheckContinuity(time) \/ FirstFloor(time)
    \/ \E release \in SourceReleases : PublishBundle(release)
    \/ build_advisory_mirror
    \/ Deploy
    \/ SaveCheckpoint
    \/ \E i \in DOMAIN deployed : HostServes(i)
    \/ EvictCheckpoint
    \/ RestoreCheckpoint
    \/ DisableBootstrap

MirrorSpec == MirrorInit /\ [][MirrorNext]_mirrorVars

-----------------------------------------------------------------------------
\* Every mirror is an index its readers accept.
MirrorTypeOK ==
    /\ \A i \in DOMAIN deployed : IsIndex(deployed[i])
    /\ serving \in 0 .. Len(deployed)
    /\ checkpoint = NoMirror \/ \E i \in DOMAIN deployed : checkpoint = deployed[i]
    /\ saved \subseteq DOMAIN deployed
    /\ bootstrap \in BOOLEAN
    /\ publication.at \in {"idle", "index", "signature", "artifacts", "continuity", "floor",
                           "bundle", "build", "deploy", "save"}

\* A mirror deployed after a recorded publication has a higher latest sequence,
\* whatever mirror the host served to the run and whatever its clock said.
SequencesAdvance ==
    \A i \in saved, j \in DOMAIN deployed :
        i < j => LatestSequence(deployed[j]) > LatestSequence(deployed[i])

AllSaved(i) == 1 .. i \subseteq saved

\* While every publication was recorded, the next mirror holds what the last one
\* held, but for the catalogs that retention drops, and one catalog more.
HistoryKept ==
    \A i \in DOMAIN deployed : i + 1 \in DOMAIN deployed /\ AllSaved(i) =>
        deployed[i + 1] = LastOf(RetainPrior + 1,
                                 Append(deployed[i], deployed[i + 1][Len(deployed[i + 1])]))

\* While every publication was recorded, a sequence stands for one catalog in
\* every mirror ever deployed.
SequenceIsOneCatalog ==
    \A i, j \in DOMAIN deployed : i < j /\ AllSaved(i) =>
        \A a \in CatalogsOf(deployed[i]), b \in CatalogsOf(deployed[j]) :
            a.sequence = b.sequence => a = b

MirrorSound == SequencesAdvance /\ HistoryKept /\ SequenceIsOneCatalog
=============================================================================
