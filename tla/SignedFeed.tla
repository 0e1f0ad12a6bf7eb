------------------------------ MODULE SignedFeed ------------------------------
(***************************************************************************)
(* How the hub's worker gets one signed bundle (execute_remote_run and     *)
(* execute_local_run of backend/app/advisory_sync_service.py, with         *)
(* advisory_transport.py, advisory_bundle.py and advisory_mirror.py): it   *)
(* asks the host for one file after the other, verifies the index, then    *)
(* the manifest before it asks for the payload, then the whole bundle, and *)
(* removes its staging directory before the bundle waits for approval.     *)
(* The host answers every request with any file there is; time passes      *)
(* between any two steps; the hub may stop at each, and an administrator   *)
(* may sweep abandoned staging directories.                                *)
(*                                                                         *)
(* A file is a record of what its readers look at, and is its own digest;  *)
(* a signature names what was signed and the key that signed.  Schemas,    *)
(* encodings, licences and counts are `reviewed`, true or not.  What       *)
(* becomes of the bundle that is kept is AdvisoryFeed's.                   *)
(***************************************************************************)
EXTENDS Integers, FiniteSets, Sequences

CONSTANTS
    Keyring,         \* publishers.json: [status, from, until, material] of each key
    BundleKeys,      \* trusted_publisher_key_ids
    IndexKeys,       \* trusted_index_key_ids
    HostIndexes,     \* the files the host may serve
    HostManifests,
    HostPayloads,
    HostSignatures,
    MaxStored,       \* maximum_compressed_bytes
    MaxPlain,        \* maximum_uncompressed_bytes
    MaxExpansion,    \* maximum_expansion_ratio
    TotalTimeout,    \* total_timeout_seconds
    FutureSkew,      \* MAX_MANIFEST_FUTURE_SKEW
    IndexLife,       \* maximum_mirror_index_age_seconds
    AbandonedAfter,  \* older_than_seconds of the sweep
    LastFeedTime,    \* bound: the clock
    MaxRetrievals    \* bound: runs

\* What the reviewed registry must be to be loaded: keys that are valid at some time,
\* limits that agree, and no key that signs both bundles and indexes.
KeysValid ==
    \A k \in DOMAIN Keyring :
        {Keyring[k].from, Keyring[k].until} \subseteq Int /\ Keyring[k].from < Keyring[k].until
LimitsAgree == MaxStored <= MaxPlain
RolesApart ==
    /\ BundleKeys \cup IndexKeys \subseteq DOMAIN Keyring
    /\ \A b \in BundleKeys, i \in IndexKeys : b # i /\ Keyring[b].material # Keyring[i].material

ASSUME RegistryAssumption == KeysValid /\ LimitsAgree /\ RolesApart

ASSUME RetrievalAssumption ==
    {TotalTimeout, FutureSkew, IndexLife, AbandonedAfter, LastFeedTime, MaxRetrievals}
        \subseteq Nat

\* What a file says of times is a time.
ASSUME HostAssumption ==
    /\ \A m \in HostManifests : {m.created, m.expires} \subseteq Int
    /\ \A i \in HostIndexes : i.published \in Int

VARIABLES
    feedTime,    \* the hub's clock
    feedRuns,    \* advisory_feed_runs.state of each run
    retrieval,   \* what the worker does and has in memory
    staged,      \* staging directories: whose, and when they were last changed
    kept         \* the bundles that wait for approval

signedVars == <<feedTime, feedRuns, retrieval, staged, kept>>

Nothing == [is |-> "nothing"]
FileKinds == {"index", "index_signature", "manifest", "signature", "payload"}

\* The steps of a run: a mirror is asked for its index before the bundle; a reviewed
\* bundle of the repository needs no directory before it was read.
RemoteSteps(mode) ==
    IF mode = "mirror"
    THEN <<"stage", "index", "index_signature", "verify_index", "manifest", "signature",
           "verify_manifest", "payload", "write", "verify_bundle", "clear", "save">>
    ELSE <<"stage", "manifest", "signature", "verify_manifest", "payload", "write",
           "verify_bundle", "clear", "save">>
LocalSteps ==
    <<"manifest", "signature", "verify_manifest", "payload", "stage", "write", "verify_bundle",
      "clear", "save">>

SignedFeedTypeOK ==
    /\ feedTime \in 0 .. LastFeedTime
    /\ feedRuns \in [1 .. MaxRetrievals ->
                        {"unused", "downloading", "verifying", "pending_approval", "failed"}]
    /\ retrieval = Nothing \/
          (retrieval.run \in 1 .. MaxRetrievals /\ DOMAIN retrieval.held \subseteq FileKinds)
    /\ staged \subseteq [run : 1 .. MaxRetrievals, changed : 0 .. LastFeedTime]
    /\ DOMAIN kept \subseteq 1 .. MaxRetrievals

SignedFeedInit ==
    /\ feedTime = 0
    /\ feedRuns = [r \in 1 .. MaxRetrievals |-> "unused"]
    /\ retrieval = Nothing
    /\ staged = {}
    /\ kept = <<>>

--------------------------------------------------------------------------------
(* Verification.                                                           *)

\* A key signs for a time at which it is valid, and is active and valid now.
KeySigns(k, time, now) ==
    /\ Keyring[k].status = "active"
    /\ \A t \in {time, now} : Keyring[k].from <= t /\ t < Keyring[k].until

\* A manifest that can be read at all: it expires after it was made, and a plain payload
\* is as long as its contents.
ManifestParses(m) == m.created < m.expires /\ (m.format = "plain" => m.stored = m.plain)

\* verify_manifest: of this source, by its publisher, for now and within the limits.
ManifestTrusted(m, signature, now) ==
    /\ ManifestParses(m) /\ m.source = "this" /\ m.reviewed
    /\ m.key \in BundleKeys /\ KeySigns(m.key, m.created, now)
    /\ m.created <= now + FutureSkew /\ now < m.expires
    /\ m.stored <= MaxStored /\ m.plain <= MaxPlain
    /\ signature = [of |-> m, key |-> m.key]

\* The catalogs of an index: their sequences increase, and the last is the latest.
InSequence(index) ==
    /\ index.catalogs # <<>>
    /\ \A i, j \in DOMAIN index.catalogs :
          i < j => index.catalogs[i].sequence < index.catalogs[j].sequence
    /\ index.latest = index.catalogs[Len(index.catalogs)].sequence

LatestOf(index) == index.catalogs[Len(index.catalogs)]

\* verify_mirror_index.
IndexTrusted(index, signature, now) ==
    /\ index.source = "this" /\ index.reviewed /\ InSequence(index)
    /\ index.key \in IndexKeys /\ KeySigns(index.key, index.published, now)
    /\ index.published <= now + FutureSkew /\ now - index.published <= IndexLife
    /\ now < LatestOf(index).expires
    /\ \A i \in DOMAIN index.catalogs :
          index.catalogs[i].key \in BundleKeys /\ index.catalogs[i].stored <= MaxStored
    /\ signature = [of |-> index, key |-> index.key]

\* _decompress_gzip: one whole stream that grows no more than it may.
Unpacks(p) ==
    \/ p.format = "plain"
    \/ p.format = "gzip" /\ p.plain <= MaxPlain /\ p.plain <= p.stored * MaxExpansion

\* The catalog in the payload is the one the manifest speaks of.
CatalogAgrees(m, p) == p.version = m.version

\* verify_bundle, of the payload: the bytes that were signed, unpacked as they say.
PayloadTrusted(m, p) ==
    /\ p.stored = m.stored /\ p.digest = m.digest
    /\ p.format = m.format /\ Unpacks(p) /\ p.plain = m.plain
    /\ CatalogAgrees(m, p)

--------------------------------------------------------------------------------
(* The worker.                                                             *)

FileOf(kind) == retrieval.held[kind]
Doing(step) == retrieval # Nothing /\ Head(retrieval.todo) = step
Proceed == retrieval' = [retrieval EXCEPT !.todo = Tail(@)]
OwnDirectories == {d \in staged : d.run = retrieval.run}
InTime == feedTime - retrieval.began <= TotalTimeout

\* In a run by the mirror: what the file must be by the index.
IndexEntry == LatestOf(FileOf("index"))
OfEntry(kind, file) == retrieval.mode = "mirror" => IndexEntry[kind] = file

\* Whether a run may begin is AdvisoryFeed's question.
BeginRetrieval(mode, todo) ==
    /\ retrieval = Nothing
    /\ \E r \in 1 .. MaxRetrievals :
          /\ feedRuns[r] = "unused" /\ \A q \in 1 .. r - 1 : feedRuns[q] # "unused"
          /\ feedRuns' = [feedRuns EXCEPT ![r] = "downloading"]
          /\ retrieval' = [run |-> r, mode |-> mode, todo |-> todo, asked |-> FALSE,
                           began |-> feedTime, received |-> feedTime, held |-> <<>>]
    /\ UNCHANGED <<feedTime, staged, kept>>

CreateRunDirectory ==
    /\ Doing("stage") /\ Proceed
    /\ staged' = staged \cup {[run |-> retrieval.run, changed |-> feedTime]}
    /\ UNCHANGED <<feedTime, feedRuns, kept>>

\* A request gets the time that remains of the run.
AskHost ==
    /\ \E kind \in FileKinds : Doing(kind)
    /\ retrieval.mode # "local" /\ ~retrieval.asked
    /\ feedTime - retrieval.began < TotalTimeout
    /\ retrieval' = [retrieval EXCEPT !.asked = TRUE]
    /\ UNCHANGED <<feedTime, feedRuns, staged, kept>>

FilesOf(kind) ==
    CASE kind = "index" -> HostIndexes
      [] kind = "manifest" -> HostManifests
      [] kind = "payload" -> {p \in HostPayloads : p.stored <= MaxStored}
      [] OTHER -> HostSignatures

TakeFile(kind) ==
    /\ Doing(kind) /\ InTime
    /\ \E file \in FilesOf(kind) :
          retrieval' = [retrieval EXCEPT
              !.todo = Tail(@), !.asked = FALSE, !.received = feedTime,
              !.held = [k \in DOMAIN @ \cup {kind} |-> IF k = kind THEN file ELSE @[k]]]
    /\ UNCHANGED <<feedTime, feedRuns, staged, kept>>

\* The whole answer, in time and within its limit.
ReceiveAnswer == \E kind \in FileKinds : TakeFile(kind) /\ retrieval.asked

\* A file of the repository's, which others may replace between two reads.
ReadFixture == \E kind \in FileKinds : TakeFile(kind) /\ retrieval.mode = "local"

VerifyIndex ==
    /\ Doing("verify_index") /\ Proceed
    /\ IndexTrusted(FileOf("index"), FileOf("index_signature"), feedTime)
    /\ UNCHANGED <<feedTime, feedRuns, staged, kept>>

VerifyManifest ==
    /\ Doing("verify_manifest") /\ Proceed
    /\ OfEntry("manifest", FileOf("manifest")) /\ OfEntry("signature", FileOf("signature"))
    /\ ManifestTrusted(FileOf("manifest"), FileOf("signature"), feedTime)
    /\ feedRuns' = [feedRuns EXCEPT ![retrieval.run] = "verifying"]
    /\ UNCHANGED <<feedTime, staged, kept>>

WriteArtifacts ==
    /\ Doing("write") /\ Proceed
    /\ OfEntry("digest", FileOf("payload").digest)
    /\ OwnDirectories # {}
    /\ staged' = (staged \ OwnDirectories) \cup {[run |-> retrieval.run, changed |-> feedTime]}
    /\ UNCHANGED <<feedTime, feedRuns, kept>>

\* Mutant of VerifyBundle: the manifest was verified before.
VerifyPayloadOnly ==
    /\ Doing("verify_bundle") /\ Proceed
    /\ PayloadTrusted(FileOf("manifest"), FileOf("payload"))
    /\ UNCHANGED <<feedTime, feedRuns, staged, kept>>

\* The manifest is verified again, as of now; the index must have said the same of it.
VerifyBundle ==
    /\ Doing("verify_bundle") /\ Proceed
    /\ ManifestTrusted(FileOf("manifest"), FileOf("signature"), feedTime)
    /\ PayloadTrusted(FileOf("manifest"), FileOf("payload"))
    /\ \A claim \in {"version", "sequence", "expires", "key"} :
          OfEntry(claim, FileOf("manifest")[claim])
    /\ UNCHANGED <<feedTime, feedRuns, staged, kept>>

\* A directory that was swept away is missed.
ClearDirectory ==
    /\ Doing("clear") /\ Proceed
    /\ OwnDirectories # {} /\ staged' = staged \ OwnDirectories
    /\ UNCHANGED <<feedTime, feedRuns, kept>>

KeepBundle ==
    /\ Doing("save")
    /\ kept' = [r \in DOMAIN kept \cup {retrieval.run} |->
                   IF r = retrieval.run THEN retrieval ELSE kept[r]]
    /\ feedRuns' = [feedRuns EXCEPT ![retrieval.run] = "pending_approval"]
    /\ retrieval' = Nothing
    /\ UNCHANGED <<feedTime, staged>>

\* A refused answer or file, or an error: the directory goes, unless that fails too.
RetrievalFails ==
    /\ retrieval # Nothing
    /\ feedRuns' = [feedRuns EXCEPT ![retrieval.run] = "failed"]
    /\ staged' \in {staged, staged \ OwnDirectories}
    /\ retrieval' = Nothing
    /\ UNCHANGED <<feedTime, kept>>

--------------------------------------------------------------------------------
(* What happens meanwhile.                                                 *)

HubStops ==
    /\ retrieval # Nothing /\ retrieval' = Nothing
    /\ UNCHANGED <<feedTime, feedRuns, staged, kept>>

\* cleanup_abandoned, by the command line.
SweepStaging ==
    /\ staged' = {d \in staged : d.changed > feedTime - AbandonedAfter}
    /\ staged' # staged
    /\ UNCHANGED <<feedTime, feedRuns, retrieval, kept>>

FeedTimePasses ==
    /\ feedTime < LastFeedTime /\ feedTime' = feedTime + 1
    /\ UNCHANGED <<feedRuns, retrieval, staged, kept>>

SignedFeedNext ==
    \/ \E mode \in {"mirror", "direct"} : BeginRetrieval(mode, RemoteSteps(mode))
    \/ BeginRetrieval("local", LocalSteps)
    \/ CreateRunDirectory \/ AskHost \/ ReceiveAnswer \/ ReadFixture \/ VerifyIndex \/ VerifyManifest
    \/ WriteArtifacts \/ VerifyBundle \/ ClearDirectory \/ KeepBundle \/ RetrievalFails
    \/ HubStops \/ SweepStaging \/ FeedTimePasses

SignedFeedSpec == SignedFeedInit /\ [][SignedFeedNext]_signedVars

--------------------------------------------------------------------------------
(* The preview of a catalog against the active one: advisories by their    *)
(* identifier, [content, withdrawn].                                       *)

AddedRecords(old, new) == DOMAIN new \ DOMAIN old
UpdatedRecords(old, new) == {i \in DOMAIN new \cap DOMAIN old : new[i] # old[i]}
WithdrawnRecords(old, new) ==
    (DOMAIN old \ DOMAIN new) \cup
    {i \in DOMAIN new : new[i].withdrawn /\ (i \in DOMAIN old => ~old[i].withdrawn)}

\* preview_bundle.
PreviewOf(old, new) ==
    [total |-> Cardinality(DOMAIN new),
     added |-> Cardinality(AddedRecords(old, new)),
     updated |-> Cardinality(UpdatedRecords(old, new)),
     withdrawn |-> Cardinality(WithdrawnRecords(old, new)),
     changed |-> AddedRecords(old, new) \cup UpdatedRecords(old, new)
                    \cup WithdrawnRecords(old, new)]

\* changed_record_ids: what the activation will evaluate anew.
ChangedRecords(old, new) ==
    {i \in DOMAIN old \cup DOMAIN new :
        i \in DOMAIN old \cap DOMAIN new => old[i] # new[i]}

--------------------------------------------------------------------------------
(* Properties.                                                             *)

\* What waits for approval is one bundle that one trusted publisher signed for this
\* source, whatever the host served between two requests: its payload is the signed one,
\* it had not expired when its last byte was received, nor had its key, and in a mirror
\* it is the latest catalog of an index that its own key signed and that was fresh when
\* the run began.
KeptIsGenuine ==
    \A r \in DOMAIN kept :
        LET m == kept[r].held["manifest"]
            p == kept[r].held["payload"]
        IN  /\ m.source = "this" /\ m.key \in BundleKeys
            /\ [of |-> m, key |-> m.key] \in HostSignatures
            /\ p.digest = m.digest /\ p.version = m.version /\ p.plain <= MaxPlain
            /\ kept[r].received < m.expires /\ kept[r].received < Keyring[m.key].until
            /\ kept[r].mode = "mirror" =>
                  LET i == kept[r].held["index"]
                  IN  /\ i.key \in IndexKeys /\ [of |-> i, key |-> i.key] \in HostSignatures
                      /\ i.catalogs[Len(i.catalogs)].manifest = m
                      /\ kept[r].began <= i.published + IndexLife

\* "Remove private staging before making the verified run available for approval": no
\* bundle waits for approval while its files are still staged.
KeptIsCleared == \A d \in staged : d.run \notin DOMAIN kept

SignedFeedSound == KeptIsGenuine /\ KeptIsCleared

\* The preview an administrator approves names the advisories that the activation will
\* evaluate anew, none if nothing changes; and its counts add up.
PreviewSoundOn(old, new) ==
    LET preview == PreviewOf(old, new)
    IN  /\ preview.changed = ChangedRecords(old, new)
        /\ (preview.changed = {}) = (old = new)
        /\ preview.total + Cardinality(DOMAIN old \ DOMAIN new)
              = Cardinality(DOMAIN old) + preview.added
        /\ Cardinality(preview.changed) <= preview.added + preview.updated + preview.withdrawn
================================================================================
