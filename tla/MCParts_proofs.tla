----------------------------- MODULE MCParts_proofs -----------------------------
(***************************************************************************)
(* Proofs about the hub's parts taken together (MCParts), from those about *)
(* each of them: the ones of HubParts_proofs, and two that come first      *)
(* here: the retrieval of a signed bundle (SignedFeed), for any keys,      *)
(* clocks and files that hosts serve, and the trust in a model             *)
(* (ModelTrust), for any settings, files and suites.  Then come the types  *)
(* of all parts, their composition, and three of the algorithms for every  *)
(* input: the rules of the findings, the preview and the matching.         *)
(***************************************************************************)
EXTENDS MCParts, HubParts_proofs

--------------------------------------------------------------------------------
(* The retrieval of a signed bundle.                                       *)

RetrievalSteps ==
    FileKinds \cup {"stage", "verify_index", "verify_manifest", "write", "verify_bundle", "clear",
                    "save"}

\* What comes after a step in every list of steps: a file is verified after it is there, and
\* a directory cleared after it was made.
Needs(step) ==
    CASE step \in {"index", "index_signature"} -> {"verify_index"}
      [] step \in {"manifest", "signature", "verify_index"} -> {"verify_manifest"}
      [] step \in {"payload", "verify_manifest"} -> {"verify_bundle"}
      [] step \in {"stage", "write"} -> {"clear"}
      [] step \in {"verify_bundle", "clear"} -> {"save"}
      [] OTHER -> {}

\* What is still to do, of a list in which no step is twice.
Coming(s) == {s[i] : i \in DOMAIN s}
Ordered(s) ==
    /\ s \in Seq(RetrievalSteps)
    /\ \A i, j \in 1 .. Len(s) : i < j => s[i] # s[j]
    /\ \A i \in 1 .. Len(s) : \A x \in Needs(s[i]) : \E j \in i + 1 .. Len(s) : s[j] = x

LEMMA TailIsOrdered ==
    ASSUME NEW s, Ordered(s), s # <<>>
    PROVE  /\ Ordered(Tail(s)) /\ Coming(Tail(s)) = Coming(s) \ {Head(s)}
           /\ Head(s) \in Coming(s) /\ Head(s) \notin Coming(Tail(s))
           /\ \A x \in Coming(s) : Needs(x) \subseteq Coming(Tail(s))
<1>1. /\ s \in Seq(RetrievalSteps) /\ Len(s) \in Nat /\ Len(s) > 0 /\ Head(s) = s[1]
      /\ Tail(s) \in Seq(RetrievalSteps) /\ Len(Tail(s)) = Len(s) - 1
    BY DEF Ordered
<1>2. \A i \in 1 .. Len(s) - 1 : Tail(s)[i] = s[i + 1]
    BY <1>1
<1>3. DOMAIN s = 1 .. Len(s) /\ DOMAIN Tail(s) = 1 .. Len(s) - 1
    BY <1>1
<1>4. Coming(Tail(s)) = {s[i] : i \in 2 .. Len(s)}
    <2>1. ASSUME NEW i \in 1 .. Len(s) - 1 PROVE Tail(s)[i] \in {s[k] : k \in 2 .. Len(s)}
        <3>1. Tail(s)[i] = s[i + 1] /\ i + 1 \in 2 .. Len(s)
            BY <1>1, <1>2
        <3> QED
            BY <3>1
    <2>2. ASSUME NEW i \in 2 .. Len(s) PROVE s[i] \in {Tail(s)[k] : k \in 1 .. Len(s) - 1}
        <3>1. i - 1 \in 1 .. Len(s) - 1 /\ Tail(s)[i - 1] = s[i - 1 + 1] /\ i - 1 + 1 = i
            BY <1>1, <1>2
        <3> QED
            BY <3>1
    <2> QED
        BY <1>3, <2>1, <2>2 DEF Coming
<1>5. Coming(s) = {s[i] : i \in 1 .. Len(s)}
    BY <1>3 DEF Coming
<1>6. \A i \in 2 .. Len(s) : s[i] # s[1]
    BY <1>1 DEF Ordered
<1>7. Coming(Tail(s)) = Coming(s) \ {Head(s)} /\ Head(s) \in Coming(s)
    BY <1>1, <1>4, <1>5, <1>6
<1>8. \A x \in Coming(s) : Needs(x) \subseteq Coming(Tail(s))
    <2>1. ASSUME NEW i \in 1 .. Len(s), NEW x \in Needs(s[i]) PROVE \E j \in 2 .. Len(s) : s[j] = x
        <3>1. PICK j \in i + 1 .. Len(s) : s[j] = x
            BY DEF Ordered
        <3>2. j \in 2 .. Len(s)
            BY <1>1
        <3> QED
            BY <3>1, <3>2
    <2> QED
        BY <1>4, <1>5, <2>1
<1>9. Ordered(Tail(s))
    <2>1. ASSUME NEW i \in 1 .. Len(s) - 1, NEW j \in 1 .. Len(s) - 1, i < j
          PROVE  Tail(s)[i] # Tail(s)[j]
        <3>1. i + 1 \in 1 .. Len(s) /\ j + 1 \in 1 .. Len(s) /\ i + 1 < j + 1
            BY <1>1, <2>1
        <3> QED
            BY <1>2, <3>1 DEF Ordered
    <2>2. ASSUME NEW i \in 1 .. Len(s) - 1, NEW x \in Needs(Tail(s)[i])
          PROVE  \E j \in i + 1 .. Len(s) - 1 : Tail(s)[j] = x
        <3>1. i + 1 \in 1 .. Len(s) /\ x \in Needs(s[i + 1])
            BY <1>1, <1>2
        <3>2. PICK j \in i + 1 + 1 .. Len(s) : s[j] = x
            BY <3>1 DEF Ordered
        <3>3. j - 1 \in i + 1 .. Len(s) - 1 /\ j - 1 \in 1 .. Len(s) - 1 /\ j - 1 + 1 = j
            BY <1>1
        <3> QED
            BY <1>2, <3>2, <3>3
    <2>3. 1 .. Len(Tail(s)) = 1 .. Len(s) - 1
        BY <1>1
    <2>4. \A i, j \in 1 .. Len(Tail(s)) : i < j => Tail(s)[i] # Tail(s)[j]
        BY <2>1, <2>3
    <2>5. \A i \in 1 .. Len(Tail(s)) : \A x \in Needs(Tail(s)[i]) :
              \E j \in i + 1 .. Len(Tail(s)) : Tail(s)[j] = x
        BY <1>1, <2>2, <2>3
    <2> QED
        BY <1>1, <2>4, <2>5 DEF Ordered
<1> QED
    BY <1>7, <1>8, <1>9

\* The lists.
LEMMA NeedsAre ==
    /\ Needs("index") = {"verify_index"} /\ Needs("index_signature") = {"verify_index"}
    /\ Needs("manifest") = {"verify_manifest"} /\ Needs("signature") = {"verify_manifest"}
    /\ Needs("verify_index") = {"verify_manifest"} /\ Needs("payload") = {"verify_bundle"}
    /\ Needs("verify_manifest") = {"verify_bundle"} /\ Needs("stage") = {"clear"}
    /\ Needs("write") = {"clear"} /\ Needs("verify_bundle") = {"save"} /\ Needs("clear") = {"save"}
    /\ Needs("save") = {}
BY DEF Needs

LEMMA MirrorSteps ==
    ASSUME NEW s, s = RemoteSteps("mirror")
    PROVE  /\ Ordered(s) /\ s # <<>>
           /\ {"verify_manifest", "verify_bundle", "clear", "save", "manifest", "signature",
               "payload", "index", "index_signature", "verify_index"} \subseteq Coming(s)
<1>1. s \in Seq(RetrievalSteps) /\ Len(s) = 12 /\ \A i, j \in 1 .. 12 : i < j => s[i] # s[j]
    BY DEF RemoteSteps, RetrievalSteps, FileKinds
<1>2. /\ s[1] = "stage" /\ s[2] = "index" /\ s[3] = "index_signature" /\ s[4] = "verify_index"
      /\ s[5] = "manifest" /\ s[6] = "signature" /\ s[7] = "verify_manifest" /\ s[8] = "payload"
      /\ s[9] = "write" /\ s[10] = "verify_bundle" /\ s[11] = "clear" /\ s[12] = "save"
    BY DEF RemoteSteps
<1>3. /\ Needs(s[1]) = {s[11]} /\ Needs(s[2]) = {s[4]} /\ Needs(s[3]) = {s[4]}
      /\ Needs(s[4]) = {s[7]} /\ Needs(s[5]) = {s[7]} /\ Needs(s[6]) = {s[7]}
      /\ Needs(s[7]) = {s[10]} /\ Needs(s[8]) = {s[10]} /\ Needs(s[9]) = {s[11]}
      /\ Needs(s[10]) = {s[12]} /\ Needs(s[11]) = {s[12]} /\ Needs(s[12]) = {}
    BY <1>2, NeedsAre
<1>4. \A i \in 1 .. 12 : \A x \in Needs(s[i]) : \E j \in i + 1 .. 12 : s[j] = x
    BY <1>3
<1>5. DOMAIN s = 1 .. 12
    BY <1>1
<1>6. \A i \in 1 .. 12 : s[i] \in Coming(s)
    BY <1>5 DEF Coming
<1>7. Ordered(s)
    <2>1. \A i, j \in 1 .. Len(s) : i < j => s[i] # s[j]
        BY <1>1
    <2>2. ASSUME NEW i \in 1 .. Len(s), NEW x \in Needs(s[i])
          PROVE  \E j \in i + 1 .. Len(s) : s[j] = x
        <3>1. i \in 1 .. 12
            BY <1>1
        <3>2. PICK j \in i + 1 .. 12 : s[j] = x
            BY <1>4, <3>1
        <3> QED
            BY <1>1, <3>2
    <2> QED
        BY <1>1, <2>1, <2>2 DEF Ordered
<1>9. s # <<>>
    BY <1>1
<1>8. /\ s[1] \in Coming(s) /\ s[2] \in Coming(s) /\ s[3] \in Coming(s) /\ s[4] \in Coming(s)
      /\ s[5] \in Coming(s) /\ s[6] \in Coming(s) /\ s[7] \in Coming(s) /\ s[8] \in Coming(s)
      /\ s[9] \in Coming(s) /\ s[10] \in Coming(s) /\ s[11] \in Coming(s) /\ s[12] \in Coming(s)
    BY <1>6
<1> QED
    BY <1>2, <1>7, <1>8, <1>9

LEMMA DirectSteps ==
    ASSUME NEW s, s = RemoteSteps("direct")
    PROVE  /\ Ordered(s) /\ s # <<>>
           /\ {"verify_manifest", "verify_bundle", "clear", "save", "manifest", "signature",
               "payload"} \subseteq Coming(s)
<1>1. s \in Seq(RetrievalSteps) /\ Len(s) = 9 /\ \A i, j \in 1 .. 9 : i < j => s[i] # s[j]
    BY DEF RemoteSteps, RetrievalSteps, FileKinds
<1>2. /\ s[1] = "stage" /\ s[2] = "manifest" /\ s[3] = "signature" /\ s[4] = "verify_manifest"
      /\ s[5] = "payload" /\ s[6] = "write" /\ s[7] = "verify_bundle" /\ s[8] = "clear"
      /\ s[9] = "save"
    BY DEF RemoteSteps
<1>3. /\ Needs(s[1]) = {s[8]} /\ Needs(s[2]) = {s[4]} /\ Needs(s[3]) = {s[4]}
      /\ Needs(s[4]) = {s[7]} /\ Needs(s[5]) = {s[7]} /\ Needs(s[6]) = {s[8]}
      /\ Needs(s[7]) = {s[9]} /\ Needs(s[8]) = {s[9]} /\ Needs(s[9]) = {}
    BY <1>2, NeedsAre
<1>4. \A i \in 1 .. 9 : \A x \in Needs(s[i]) : \E j \in i + 1 .. 9 : s[j] = x
    BY <1>3
<1>5. DOMAIN s = 1 .. 9
    BY <1>1
<1>6. \A i \in 1 .. 9 : s[i] \in Coming(s)
    BY <1>5 DEF Coming
<1>7. Ordered(s)
    <2>1. \A i, j \in 1 .. Len(s) : i < j => s[i] # s[j]
        BY <1>1
    <2>2. ASSUME NEW i \in 1 .. Len(s), NEW x \in Needs(s[i])
          PROVE  \E j \in i + 1 .. Len(s) : s[j] = x
        <3>1. i \in 1 .. 9
            BY <1>1
        <3>2. PICK j \in i + 1 .. 9 : s[j] = x
            BY <1>4, <3>1
        <3> QED
            BY <1>1, <3>2
    <2> QED
        BY <1>1, <2>1, <2>2 DEF Ordered
<1>9. s # <<>>
    BY <1>1
<1>8. /\ s[1] \in Coming(s) /\ s[2] \in Coming(s) /\ s[3] \in Coming(s) /\ s[4] \in Coming(s)
      /\ s[5] \in Coming(s) /\ s[6] \in Coming(s) /\ s[7] \in Coming(s) /\ s[8] \in Coming(s)
      /\ s[9] \in Coming(s)
    BY <1>6
<1> QED
    BY <1>2, <1>7, <1>8, <1>9

LEMMA ReviewedSteps ==
    ASSUME NEW s, s = LocalSteps
    PROVE  /\ Ordered(s) /\ s # <<>>
           /\ {"verify_manifest", "verify_bundle", "clear", "save", "manifest", "signature",
               "payload"} \subseteq Coming(s)
<1>1. s \in Seq(RetrievalSteps) /\ Len(s) = 9 /\ \A i, j \in 1 .. 9 : i < j => s[i] # s[j]
    BY DEF LocalSteps, RetrievalSteps, FileKinds
<1>2. /\ s[1] = "manifest" /\ s[2] = "signature" /\ s[3] = "verify_manifest" /\ s[4] = "payload"
      /\ s[5] = "stage" /\ s[6] = "write" /\ s[7] = "verify_bundle" /\ s[8] = "clear"
      /\ s[9] = "save"
    BY DEF LocalSteps
<1>3. /\ Needs(s[1]) = {s[3]} /\ Needs(s[2]) = {s[3]} /\ Needs(s[3]) = {s[7]}
      /\ Needs(s[4]) = {s[7]} /\ Needs(s[5]) = {s[8]} /\ Needs(s[6]) = {s[8]}
      /\ Needs(s[7]) = {s[9]} /\ Needs(s[8]) = {s[9]} /\ Needs(s[9]) = {}
    BY <1>2, NeedsAre
<1>4. \A i \in 1 .. 9 : \A x \in Needs(s[i]) : \E j \in i + 1 .. 9 : s[j] = x
    BY <1>3
<1>5. DOMAIN s = 1 .. 9
    BY <1>1
<1>6. \A i \in 1 .. 9 : s[i] \in Coming(s)
    BY <1>5 DEF Coming
<1>7. Ordered(s)
    <2>1. \A i, j \in 1 .. Len(s) : i < j => s[i] # s[j]
        BY <1>1
    <2>2. ASSUME NEW i \in 1 .. Len(s), NEW x \in Needs(s[i])
          PROVE  \E j \in i + 1 .. Len(s) : s[j] = x
        <3>1. i \in 1 .. 9
            BY <1>1
        <3>2. PICK j \in i + 1 .. 9 : s[j] = x
            BY <1>4, <3>1
        <3> QED
            BY <1>1, <3>2
    <2> QED
        BY <1>1, <2>1, <2>2 DEF Ordered
<1>9. s # <<>>
    BY <1>1
<1>8. /\ s[1] \in Coming(s) /\ s[2] \in Coming(s) /\ s[3] \in Coming(s) /\ s[4] \in Coming(s)
      /\ s[5] \in Coming(s) /\ s[6] \in Coming(s) /\ s[7] \in Coming(s) /\ s[8] \in Coming(s)
      /\ s[9] \in Coming(s)
    BY <1>6
<1> QED
    BY <1>2, <1>7, <1>8, <1>9


Modes == {"mirror", "direct", "local"}
HeldFiles == UNION {[kinds -> UNION {FilesOf(k) : k \in FileKinds}] : kinds \in SUBSET FileKinds}
Retrievals ==
    [run : 1 .. MaxRetrievals, mode : Modes, todo : Seq(RetrievalSteps), asked : BOOLEAN,
     began : Nat, received : Nat, held : HeldFiles]

\* What was found out of the index, of the manifest and of the whole bundle.
IndexFound(t) ==
    LET i == t.held["index"]
    IN  /\ i.key \in IndexKeys /\ [of |-> i, key |-> i.key] \in HostSignatures
        /\ t.began <= i.published + IndexLife
ManifestFound(t) ==
    LET m == t.held["manifest"]
    IN  /\ m.source = "this" /\ m.key \in BundleKeys /\ m.plain <= MaxPlain
        /\ [of |-> m, key |-> m.key] \in HostSignatures
        /\ t.mode = "mirror" => LatestOf(t.held["index"]).manifest = m
BundleFound(t) ==
    LET m == t.held["manifest"]
        p == t.held["payload"]
    IN  /\ p.digest = m.digest /\ p.version = m.version /\ p.plain = m.plain
        /\ t.received < m.expires /\ t.received < Keyring[m.key].until

\* A bundle is kept when all of it was found.
Genuine(t) ==
    /\ ManifestFound(t) /\ BundleFound(t)
    /\ t.mode = "mirror" => IndexFound(t)

\* What is there of the files: those that the run need not ask for any more.
Fetched(t) ==
    /\ \A k \in {"manifest", "signature", "payload"} :
          k \notin Coming(t.todo) => k \in DOMAIN t.held /\ t.held[k] \in FilesOf(k)
    /\ t.mode = "mirror" =>
          \A k \in {"index", "index_signature"} :
              k \notin Coming(t.todo) => k \in DOMAIN t.held /\ t.held[k] \in FilesOf(k)
Found(t) ==
    /\ (t.mode = "mirror" /\ "verify_index" \notin Coming(t.todo)) => IndexFound(t)
    /\ "verify_manifest" \notin Coming(t.todo) => ManifestFound(t)
    /\ "verify_bundle" \notin Coming(t.todo) => BundleFound(t)

\* A run that works is one that was begun and not kept, and no step of it comes before one
\* that it needs; after its directory was cleared there is none.
Works(t) ==
    /\ t \in Retrievals
    /\ t.began <= feedTime /\ t.received <= feedTime
    /\ t.run \notin DOMAIN kept /\ feedRuns[t.run] # "unused"
    /\ Ordered(t.todo) /\ "save" \in Coming(t.todo)
    /\ "clear" \notin Coming(t.todo) => \A d \in staged : d.run # t.run

SignedInv ==
    /\ feedTime \in 0 .. LastFeedTime
    /\ feedRuns \in [1 .. MaxRetrievals ->
                        {"unused", "downloading", "verifying", "pending_approval", "failed"}]
    /\ staged \subseteq [run : 1 .. MaxRetrievals, changed : 0 .. LastFeedTime]
    /\ DOMAIN kept \subseteq 1 .. MaxRetrievals
    /\ \A r \in DOMAIN kept : feedRuns[r] # "unused" /\ Genuine(kept[r])
    /\ KeptIsCleared
    /\ retrieval # Nothing => Works(retrieval) /\ Fetched(retrieval) /\ Found(retrieval)


\* A step that the first one needs done is not to come any more.
LEMMA DoneBefore ==
    ASSUME NEW s, Ordered(s), s # <<>>, NEW x, Head(s) \in Needs(x)
    PROVE  x \notin Coming(s)
BY TailIsOrdered

LEMMA TakenFile ==
    ASSUME NEW h \in HeldFiles, NEW kind \in FileKinds, NEW file \in FilesOf(kind),
           NEW g, g = [k \in DOMAIN h \cup {kind} |-> IF k = kind THEN file ELSE h[k]]
    PROVE  /\ g \in HeldFiles /\ DOMAIN g = DOMAIN h \cup {kind} /\ g[kind] = file
           /\ \A k \in DOMAIN h \ {kind} : g[k] = h[k]
<1> DEFINE Files == UNION {FilesOf(k) : k \in FileKinds}
<1>1. PICK kinds \in SUBSET FileKinds : h \in [kinds -> Files]
    BY DEF HeldFiles
<1>2. file \in Files
    OBVIOUS
<1> HIDE DEF Files
<1>3. DOMAIN h = kinds /\ \A k \in kinds : h[k] \in Files
    BY <1>1
<1>4. g \in [kinds \cup {kind} -> Files]
    BY <1>2, <1>3
<1>5. kinds \cup {kind} \in SUBSET FileKinds
    BY <1>1
<1>6. g \in HeldFiles
    BY <1>4, <1>5 DEF HeldFiles, Files
<1> QED
    BY <1>3, <1>6

LEMMA Proceeds ==
    ASSUME NEW t \in Retrievals, Ordered(t.todo), "save" \in Coming(t.todo), t.todo # <<>>,
           Fetched(t), Found(t), Head(t.todo) \notin FileKinds \cup {"save"},
           (t.mode = "mirror" /\ Head(t.todo) = "verify_index") => IndexFound(t),
           Head(t.todo) = "verify_manifest" => ManifestFound(t),
           Head(t.todo) = "verify_bundle" => BundleFound(t),
           NEW u, u = [t EXCEPT !.todo = Tail(@)]
    PROVE  /\ u \in Retrievals /\ u.run = t.run /\ u.began = t.began /\ u.received = t.received
           /\ Ordered(u.todo) /\ "save" \in Coming(u.todo) /\ Fetched(u) /\ Found(u)
           /\ Coming(u.todo) = Coming(t.todo) \ {Head(t.todo)}
           /\ \A x \in Coming(t.todo) : Needs(x) \subseteq Coming(u.todo)
<1>1. /\ u.run = t.run /\ u.began = t.began /\ u.received = t.received /\ u.mode = t.mode
      /\ u.held = t.held /\ u.todo = Tail(t.todo) /\ u.asked = t.asked
    BY DEF Retrievals
<1>2. /\ Ordered(u.todo) /\ Coming(u.todo) = Coming(t.todo) \ {Head(t.todo)}
      /\ \A x \in Coming(t.todo) : Needs(x) \subseteq Coming(u.todo)
    BY <1>1, TailIsOrdered
<1>3. u.todo \in Seq(RetrievalSteps)
    BY <1>2 DEF Ordered
<1>4. u \in Retrievals
    BY <1>3, <1>1 DEF Retrievals
<1>5. Fetched(u)
    BY <1>1, <1>2 DEF Fetched, FileKinds
<1>6. /\ IndexFound(t) => IndexFound(u)
      /\ ManifestFound(t) => ManifestFound(u)
      /\ BundleFound(t) => BundleFound(u)
    BY <1>1 DEF IndexFound, ManifestFound, BundleFound
<1>7. Found(u)
    BY <1>1, <1>2, <1>6 DEF Found
<1>8. "save" \in Coming(u.todo)
    BY <1>2
<1> QED
    BY <1>1, <1>2, <1>4, <1>5, <1>7, <1>8

LEMMA Takes ==
    ASSUME NEW t \in Retrievals, Ordered(t.todo), "save" \in Coming(t.todo), t.todo # <<>>,
           Fetched(t), Found(t), NEW kind \in FileKinds, Head(t.todo) = kind,
           NEW u \in Retrievals, u.run = t.run, u.mode = t.mode, u.began = t.began,
           u.todo = Tail(t.todo), DOMAIN u.held = DOMAIN t.held \cup {kind},
           u.held[kind] \in FilesOf(kind), \A k \in DOMAIN t.held \ {kind} : u.held[k] = t.held[k]
    PROVE  /\ Ordered(u.todo) /\ "save" \in Coming(u.todo) /\ Fetched(u) /\ Found(u)
           /\ Coming(u.todo) = Coming(t.todo) \ {kind}
<1>2. /\ Ordered(u.todo) /\ Coming(u.todo) = Coming(t.todo) \ {kind}
      /\ \A x \in Coming(t.todo) : Needs(x) \subseteq Coming(u.todo)
      /\ kind \in Coming(t.todo)
    BY TailIsOrdered
<1>7. \A k \in FileKinds :
          (k \notin Coming(u.todo) /\ (k \notin Coming(t.todo) => k \in DOMAIN t.held /\ t.held[k] \in FilesOf(k)))
              => k \in DOMAIN u.held /\ u.held[k] \in FilesOf(k)
    BY <1>2
<1>8. Fetched(u)
    BY <1>7 DEF Fetched, FileKinds
<1>9. Found(u)
    <2>1. CASE kind \in {"index", "index_signature"}
        <3>1. "verify_index" \in Coming(u.todo)
            BY <1>2, <2>1, NeedsAre
        <3>2. "verify_manifest" \in Coming(u.todo)
            BY <1>2, <3>1, NeedsAre
        <3>3. "verify_bundle" \in Coming(u.todo)
            BY <1>2, <3>2, NeedsAre
        <3> QED
            BY <3>1, <3>2, <3>3 DEF Found
    <2>2. CASE kind \in {"manifest", "signature", "payload"}
        <3>1. kind # "payload" => "verify_manifest" \in Coming(u.todo)
            BY <1>2, <2>2, NeedsAre
        <3>2. "verify_bundle" \in Coming(u.todo)
            BY <1>2, <2>2, <3>1, NeedsAre
        <3>3. ASSUME "verify_manifest" \notin Coming(u.todo) PROVE ManifestFound(u)
            <4>1. "manifest" \notin Coming(t.todo) /\ kind = "payload"
                BY <1>2, <2>2, <3>1, <3>3, NeedsAre
            <4>2. "verify_manifest" \notin Coming(t.todo)
                BY <1>2, <3>3, <4>1
            <4>3. u.held["manifest"] = t.held["manifest"]
                BY <4>1 DEF Fetched
            <4>4. ASSUME t.mode = "mirror" PROVE u.held["index"] = t.held["index"]
                <5>1. "verify_index" \notin Coming(t.todo)
                    BY <1>2, <3>3, NeedsAre
                <5>2. "index" \notin Coming(t.todo)
                    BY <1>2, <4>1, <5>1, NeedsAre
                <5> QED
                    BY <4>1, <4>4, <5>2 DEF Fetched
            <4> QED
                BY <4>2, <4>3, <4>4 DEF Found, ManifestFound
        <3>4. ASSUME t.mode = "mirror", "verify_index" \notin Coming(u.todo) PROVE IndexFound(u)
            <4>1. "verify_index" \notin Coming(t.todo)
                BY <1>2, <2>2, <3>4
            <4>2. "index" \notin Coming(t.todo)
                BY <1>2, <3>4, NeedsAre
            <4>3. u.held["index"] = t.held["index"]
                BY <2>2, <3>4, <4>2 DEF Fetched
            <4> QED
                BY <3>4, <4>1, <4>3 DEF Found, IndexFound
        <3> QED
            BY <3>2, <3>3, <3>4 DEF Found
    <2> QED
        BY <2>1, <2>2 DEF FileKinds
<1>10. "save" \in Coming(u.todo)
    BY <1>2 DEF FileKinds
<1> QED
    BY <1>2, <1>8, <1>9, <1>10


\* What is common to a step that is done: the run goes on to the next.
LEMMA DoingIs ==
    ASSUME SignedInv, NEW step, Doing(step)
    PROVE  /\ retrieval # Nothing /\ Works(retrieval) /\ Fetched(retrieval) /\ Found(retrieval)
           /\ retrieval \in Retrievals /\ Ordered(retrieval.todo)
           /\ "save" \in Coming(retrieval.todo) /\ retrieval.todo # <<>>
           /\ Head(retrieval.todo) = step
           /\ \A x : step \in Needs(x) => x \notin Coming(retrieval.todo)
<1>1. /\ retrieval # Nothing /\ Works(retrieval) /\ Fetched(retrieval) /\ Found(retrieval)
      /\ Head(retrieval.todo) = step
    BY DEF SignedInv, Doing
<1>2. /\ retrieval \in Retrievals /\ Ordered(retrieval.todo) /\ "save" \in Coming(retrieval.todo)
    BY <1>1 DEF Works
<1>3. retrieval.todo # <<>>
    BY <1>2 DEF Coming
<1> QED
    BY <1>1, <1>2, <1>3, DoneBefore

\* A step of the run that keeps nothing.
LEMMA NextWorks ==
    ASSUME SignedInv, NEW step, Doing(step), step \notin FileKinds \cup {"save"}, Proceed,
           UNCHANGED <<feedTime, kept>>,
           (retrieval.mode = "mirror" /\ step = "verify_index") => IndexFound(retrieval),
           step = "verify_manifest" => ManifestFound(retrieval),
           step = "verify_bundle" => BundleFound(retrieval),
           feedRuns'[retrieval.run] # "unused",
           "clear" \notin Coming(retrieval.todo) \ {step} => \A d \in staged' : d.run # retrieval.run
    PROVE  Works(retrieval)' /\ Fetched(retrieval)' /\ Found(retrieval)'
<1>1. /\ Works(retrieval) /\ Fetched(retrieval) /\ Found(retrieval)
      /\ retrieval \in Retrievals /\ Ordered(retrieval.todo) /\ "save" \in Coming(retrieval.todo)
      /\ retrieval.todo # <<>> /\ Head(retrieval.todo) = step
    BY DoingIs
<1>2. retrieval' = [retrieval EXCEPT !.todo = Tail(@)]
    BY DEF Proceed
<1>3. /\ retrieval' \in Retrievals /\ retrieval'.run = retrieval.run
      /\ retrieval'.began = retrieval.began /\ retrieval'.received = retrieval.received
      /\ Ordered(retrieval'.todo) /\ "save" \in Coming(retrieval'.todo)
      /\ Fetched(retrieval') /\ Found(retrieval')
      /\ Coming(retrieval'.todo) = Coming(retrieval.todo) \ {step}
    BY <1>1, <1>2, Proceeds
<1>4. Works(retrieval)'
    BY <1>1, <1>3 DEF Works
<1>5. Fetched(retrieval)'
    BY <1>3 DEF Fetched
<1>6. Found(retrieval)'
    BY <1>3 DEF Found, IndexFound, ManifestFound, BundleFound
<1> QED
    BY <1>4, <1>5, <1>6

LEMMA InitSigned ==
    ASSUME SignedFeedInit
    PROVE  SignedInv
<1>1. DOMAIN kept = {} /\ 0 \in 0 .. LastFeedTime
    BY RetrievalAssumption DEF SignedFeedInit
<1> QED
    BY <1>1 DEF SignedFeedInit, SignedInv, KeptIsCleared

LEMMA BeginStep ==
    ASSUME SignedInv, NEW mode \in Modes, NEW todo, BeginRetrieval(mode, todo),
           Ordered(todo),
           {"verify_manifest", "verify_bundle", "clear", "save", "manifest", "signature",
            "payload"} \subseteq Coming(todo),
           mode = "mirror" =>
               {"index", "index_signature", "verify_index"} \subseteq Coming(todo)
    PROVE  SignedInv'
<1>1. PICK r \in 1 .. MaxRetrievals :
          /\ feedRuns[r] = "unused"
          /\ feedRuns' = [feedRuns EXCEPT ![r] = "downloading"]
          /\ retrieval' = [run |-> r, mode |-> mode, todo |-> todo, asked |-> FALSE,
                           began |-> feedTime, received |-> feedTime, held |-> <<>>]
    BY DEF BeginRetrieval
<1>2. UNCHANGED <<feedTime, staged, kept>>
    BY DEF BeginRetrieval
<1>3. r \notin DOMAIN kept
    BY <1>1 DEF SignedInv
<1>4. feedTime \in Nat
    BY DEF SignedInv
<1>5. retrieval' \in Retrievals
    <2>1. <<>> \in HeldFiles
        <3>1. <<>> \in [{} -> UNION {FilesOf(k) : k \in FileKinds}]
            OBVIOUS
        <3> QED
            BY <3>1 DEF HeldFiles
    <2>2. todo \in Seq(RetrievalSteps)
        BY DEF Ordered
    <2> QED
        BY <1>1, <1>4, <2>1, <2>2 DEF Retrievals
<1>6. /\ retrieval'.run = r /\ retrieval'.mode = mode /\ retrieval'.todo = todo
      /\ retrieval'.began = feedTime /\ retrieval'.received = feedTime
    BY <1>1
<1>7. feedRuns'[r] # "unused" /\ \A q \in 1 .. MaxRetrievals : q # r => feedRuns'[q] = feedRuns[q]
    BY <1>1 DEF SignedInv
<1>8. Works(retrieval)'
    BY <1>2, <1>3, <1>4, <1>5, <1>6, <1>7 DEF Works
<1>9. Fetched(retrieval)' /\ Found(retrieval)'
    BY <1>6 DEF Fetched, Found
<1>10. /\ (feedTime \in 0 .. LastFeedTime)' /\ (KeptIsCleared)'
       /\ (staged \subseteq [run : 1 .. MaxRetrievals, changed : 0 .. LastFeedTime])'
       /\ (DOMAIN kept \subseteq 1 .. MaxRetrievals)'
    BY <1>2 DEF SignedInv, KeptIsCleared
<1>11. (feedRuns \in [1 .. MaxRetrievals ->
                        {"unused", "downloading", "verifying", "pending_approval", "failed"}])'
    BY <1>1 DEF SignedInv
<1>12. (\A q \in DOMAIN kept : feedRuns[q] # "unused" /\ Genuine(kept[q]))'
    BY <1>2, <1>3, <1>7 DEF SignedInv
<1> QED
    BY <1>8, <1>9, <1>10, <1>11, <1>12 DEF SignedInv


\* What no step of the run may change, and what it may: the directories that are its own.
LEMMA Unkept ==
    ASSUME SignedInv, UNCHANGED <<feedTime, kept>>,
           (feedRuns \in [1 .. MaxRetrievals ->
                        {"unused", "downloading", "verifying", "pending_approval", "failed"}])',
           \A r \in 1 .. MaxRetrievals : feedRuns[r] # "unused" => feedRuns'[r] # "unused",
           (staged \subseteq [run : 1 .. MaxRetrievals, changed : 0 .. LastFeedTime])',
           \A d \in staged' : d.run \in DOMAIN kept => \E e \in staged : e.run = d.run,
           retrieval' # Nothing => Works(retrieval)' /\ Fetched(retrieval)' /\ Found(retrieval)'
    PROVE  SignedInv'
<1>1. /\ (feedTime \in 0 .. LastFeedTime)' /\ (KeptIsCleared)'
      /\ (DOMAIN kept \subseteq 1 .. MaxRetrievals)'
      /\ (\A q \in DOMAIN kept : feedRuns[q] # "unused" /\ Genuine(kept[q]))'
    BY DEF SignedInv, KeptIsCleared
<1> QED
    BY <1>1 DEF SignedInv

LEMMA StageStep ==
    ASSUME SignedInv, CreateRunDirectory
    PROVE  SignedInv'
<1>1. Doing("stage") /\ Proceed /\ UNCHANGED <<feedTime, feedRuns, kept>>
      /\ staged' = staged \cup {[run |-> retrieval.run, changed |-> feedTime]}
    BY DEF CreateRunDirectory
<1>2. /\ Works(retrieval) /\ retrieval \in Retrievals /\ Ordered(retrieval.todo)
      /\ retrieval.todo # <<>> /\ Head(retrieval.todo) = "stage"
    BY <1>1, DoingIs
<1>3. "clear" \in Coming(retrieval.todo)
    BY <1>2, TailIsOrdered, NeedsAre
<1>4. /\ retrieval.run \in 1 .. MaxRetrievals /\ retrieval.run \notin DOMAIN kept
      /\ feedRuns[retrieval.run] # "unused" /\ feedTime \in 0 .. LastFeedTime
    BY <1>2 DEF Works, Retrievals, SignedInv
<1>5. Works(retrieval)' /\ Fetched(retrieval)' /\ Found(retrieval)'
    BY <1>1, <1>3, <1>4, NextWorks DEF FileKinds
<1> QED
    BY <1>1, <1>4, <1>5, Unkept DEF SignedInv

LEMMA AskStep ==
    ASSUME SignedInv, AskHost
    PROVE  SignedInv'
<1>1. /\ retrieval # Nothing /\ UNCHANGED <<feedTime, feedRuns, staged, kept>>
      /\ retrieval' = [retrieval EXCEPT !.asked = TRUE]
    BY DEF AskHost, Doing
<1>2. Works(retrieval) /\ Fetched(retrieval) /\ Found(retrieval) /\ retrieval \in Retrievals
    BY <1>1 DEF SignedInv, Works
<1>3. /\ retrieval' \in Retrievals /\ retrieval'.run = retrieval.run
      /\ retrieval'.mode = retrieval.mode /\ retrieval'.held = retrieval.held
      /\ retrieval'.began = retrieval.began /\ retrieval'.received = retrieval.received
      /\ retrieval'.todo = retrieval.todo
    BY <1>1, <1>2 DEF Retrievals
<1>4. Works(retrieval)'
    BY <1>1, <1>2, <1>3 DEF Works
<1>5. Fetched(retrieval)'
    BY <1>2, <1>3 DEF Fetched
<1>6. Found(retrieval)'
    BY <1>2, <1>3 DEF Found, IndexFound, ManifestFound, BundleFound
<1> QED
    BY <1>1, <1>4, <1>5, <1>6, Unkept DEF SignedInv

LEMMA FileStep ==
    ASSUME SignedInv, NEW kind \in FileKinds, TakeFile(kind)
    PROVE  SignedInv'
<1>1. Doing(kind) /\ UNCHANGED <<feedTime, feedRuns, staged, kept>>
    BY DEF TakeFile
<1>2. PICK file \in FilesOf(kind) :
          retrieval' = [retrieval EXCEPT
              !.todo = Tail(@), !.asked = FALSE, !.received = feedTime,
              !.held = [k \in DOMAIN @ \cup {kind} |-> IF k = kind THEN file ELSE @[k]]]
    BY DEF TakeFile
<1>3. /\ Works(retrieval) /\ Fetched(retrieval) /\ Found(retrieval)
      /\ retrieval \in Retrievals /\ Ordered(retrieval.todo) /\ "save" \in Coming(retrieval.todo)
      /\ retrieval.todo # <<>> /\ Head(retrieval.todo) = kind
    BY <1>1, DoingIs
<1>4. feedTime \in Nat
    BY DEF SignedInv
<1> DEFINE h == retrieval.held
           g == [k \in DOMAIN h \cup {kind} |-> IF k = kind THEN file ELSE h[k]]
<1>10. h \in HeldFiles
    BY <1>3 DEF Retrievals
<1>11. /\ g \in HeldFiles /\ DOMAIN g = DOMAIN h \cup {kind} /\ g[kind] = file
       /\ \A k \in DOMAIN h \ {kind} : g[k] = h[k]
    <2> HIDE DEF h
    <2> QED
        BY <1>10, TakenFile
<1>12. retrieval' = [retrieval EXCEPT
          !.todo = Tail(@), !.asked = FALSE, !.received = feedTime, !.held = g]
    BY <1>2
<1> HIDE DEF g
<1>13. /\ retrieval'.run = retrieval.run /\ retrieval'.mode = retrieval.mode
       /\ retrieval'.began = retrieval.began /\ retrieval'.received = feedTime
       /\ retrieval'.todo = Tail(retrieval.todo) /\ retrieval'.held = g
    BY <1>3, <1>12 DEF Retrievals
<1>14. retrieval' \in Retrievals
    <2>1. Tail(retrieval.todo) \in Seq(RetrievalSteps)
        BY <1>3, TailIsOrdered DEF Ordered
    <2> QED
        BY <1>3, <1>4, <1>11, <1>12, <2>1 DEF Retrievals
<1>5. /\ Ordered(retrieval'.todo) /\ "save" \in Coming(retrieval'.todo)
      /\ Fetched(retrieval') /\ Found(retrieval')
      /\ Coming(retrieval'.todo) = Coming(retrieval.todo) \ {kind}
    <2>1. /\ DOMAIN retrieval'.held = DOMAIN retrieval.held \cup {kind}
          /\ retrieval'.held[kind] \in FilesOf(kind)
          /\ \A k \in DOMAIN retrieval.held \ {kind} : retrieval'.held[k] = retrieval.held[k]
        BY <1>11, <1>13
    <2> QED
        BY <1>3, <1>13, <1>14, <2>1, Takes
<1>6. "clear" \notin FileKinds
    BY DEF FileKinds
<1>7. Works(retrieval)'
    BY <1>1, <1>3, <1>4, <1>5, <1>6, <1>13, <1>14 DEF Works
<1>8. Fetched(retrieval)'
    BY <1>5 DEF Fetched
<1>9. Found(retrieval)'
    BY <1>5 DEF Found, IndexFound, ManifestFound, BundleFound
<1> QED
    BY <1>1, <1>7, <1>8, <1>9, Unkept DEF SignedInv

LEMMA FilesAre ==
    /\ FilesOf("index") = HostIndexes /\ FilesOf("manifest") = HostManifests
    /\ FilesOf("payload") \subseteq HostPayloads
    /\ FilesOf("index_signature") = HostSignatures /\ FilesOf("signature") = HostSignatures
BY DEF FilesOf

LEMMA IndexStep ==
    ASSUME SignedInv, VerifyIndex
    PROVE  SignedInv'
<1>1. Doing("verify_index") /\ Proceed /\ UNCHANGED <<feedTime, feedRuns, staged, kept>>
      /\ IndexTrusted(FileOf("index"), FileOf("index_signature"), feedTime)
    BY DEF VerifyIndex
<1>2. /\ retrieval # Nothing /\ Works(retrieval) /\ Fetched(retrieval)
      /\ retrieval \in Retrievals
      /\ \A x : "verify_index" \in Needs(x) => x \notin Coming(retrieval.todo)
    BY <1>1, DoingIs
<1>3. "index" \notin Coming(retrieval.todo) /\ "index_signature" \notin Coming(retrieval.todo)
    BY <1>2, NeedsAre
<1>4. ASSUME retrieval.mode = "mirror" PROVE IndexFound(retrieval)
    <2>1. retrieval.held["index"] \in HostIndexes
          /\ retrieval.held["index_signature"] \in HostSignatures
        BY <1>2, <1>3, <1>4, FilesAre DEF Fetched
    <2>2. /\ retrieval.held["index"].key \in IndexKeys
          /\ feedTime - retrieval.held["index"].published <= IndexLife
          /\ retrieval.held["index_signature"] =
                [of |-> retrieval.held["index"], key |-> retrieval.held["index"].key]
        BY <1>1 DEF IndexTrusted, FileOf
    <2>3. retrieval.held["index"].published \in Int
        BY <2>1, HostAssumption
    <2>4. retrieval.began <= feedTime /\ retrieval.began \in Nat /\ feedTime \in Nat
        BY <1>2 DEF Works, Retrievals, SignedInv
    <2>5. retrieval.began <= retrieval.held["index"].published + IndexLife
        BY <2>2, <2>3, <2>4, RetrievalAssumption
    <2> QED
        BY <2>1, <2>2, <2>5 DEF IndexFound
<1>5. /\ feedRuns'[retrieval.run] # "unused"
      /\ "clear" \notin Coming(retrieval.todo) => \A d \in staged' : d.run # retrieval.run
    BY <1>1, <1>2 DEF Works
<1>6. Works(retrieval)' /\ Fetched(retrieval)' /\ Found(retrieval)'
    BY <1>1, <1>4, <1>5, NextWorks DEF FileKinds
<1> QED
    BY <1>1, <1>6, Unkept DEF SignedInv

LEMMA ManifestIsFound ==
    ASSUME SignedInv, retrieval # Nothing,
           {"index", "manifest", "signature"} \cap Coming(retrieval.todo) = {},
           OfEntry("manifest", FileOf("manifest")),
           ManifestTrusted(FileOf("manifest"), FileOf("signature"), feedTime)
    PROVE  ManifestFound(retrieval)
<1>1. Fetched(retrieval)
    BY DEF SignedInv
<1>2. /\ retrieval.held["manifest"] \in HostManifests
      /\ retrieval.held["signature"] \in HostSignatures
    BY <1>1, FilesAre DEF Fetched
<1>3. /\ retrieval.held["manifest"].source = "this" /\ retrieval.held["manifest"].key \in BundleKeys
      /\ retrieval.held["manifest"].stored <= MaxStored /\ retrieval.held["manifest"].plain <= MaxPlain
      /\ retrieval.held["signature"] =
            [of |-> retrieval.held["manifest"], key |-> retrieval.held["manifest"].key]
    BY DEF ManifestTrusted, FileOf
<1>4. retrieval.mode = "mirror" => LatestOf(retrieval.held["index"]).manifest = retrieval.held["manifest"]
    BY DEF OfEntry, IndexEntry, FileOf
<1> QED
    BY <1>2, <1>3, <1>4 DEF ManifestFound

LEMMA ManifestStep ==
    ASSUME SignedInv, VerifyManifest
    PROVE  SignedInv'
<1>1. Doing("verify_manifest") /\ Proceed /\ UNCHANGED <<feedTime, staged, kept>>
      /\ OfEntry("manifest", FileOf("manifest"))
      /\ ManifestTrusted(FileOf("manifest"), FileOf("signature"), feedTime)
      /\ feedRuns' = [feedRuns EXCEPT ![retrieval.run] = "verifying"]
    BY DEF VerifyManifest
<1>2. /\ retrieval # Nothing /\ Works(retrieval) /\ Fetched(retrieval)
      /\ retrieval \in Retrievals /\ Ordered(retrieval.todo) /\ retrieval.todo # <<>>
      /\ Head(retrieval.todo) = "verify_manifest"
      /\ \A x : "verify_manifest" \in Needs(x) => x \notin Coming(retrieval.todo)
    BY <1>1, DoingIs
<1>3. {"manifest", "signature", "verify_index"} \cap Coming(retrieval.todo) = {}
    BY <1>2, NeedsAre
<1>4. "index" \notin Coming(retrieval.todo)
    BY <1>2, <1>3, TailIsOrdered, NeedsAre
<1>5. ManifestFound(retrieval)
    BY <1>1, <1>2, <1>3, <1>4, ManifestIsFound
<1>6. /\ retrieval.run \in 1 .. MaxRetrievals /\ feedRuns'[retrieval.run] # "unused"
      /\ "clear" \notin Coming(retrieval.todo) => \A d \in staged' : d.run # retrieval.run
    BY <1>1, <1>2 DEF Works, Retrievals, SignedInv
<1>7. Works(retrieval)' /\ Fetched(retrieval)' /\ Found(retrieval)'
    BY <1>1, <1>5, <1>6, NextWorks DEF FileKinds
<1>8. /\ (feedRuns \in [1 .. MaxRetrievals ->
                        {"unused", "downloading", "verifying", "pending_approval", "failed"}])'
      /\ \A r \in 1 .. MaxRetrievals : feedRuns[r] # "unused" => feedRuns'[r] # "unused"
    BY <1>1, <1>6 DEF SignedInv
<1> QED
    BY <1>1, <1>7, <1>8, Unkept DEF SignedInv


LEMMA WriteStep ==
    ASSUME SignedInv, WriteArtifacts
    PROVE  SignedInv'
<1>1. Doing("write") /\ Proceed /\ UNCHANGED <<feedTime, feedRuns, kept>>
      /\ staged' = (staged \ OwnDirectories) \cup {[run |-> retrieval.run, changed |-> feedTime]}
    BY DEF WriteArtifacts
<1>2. /\ Works(retrieval) /\ retrieval \in Retrievals /\ Ordered(retrieval.todo)
      /\ retrieval.todo # <<>> /\ Head(retrieval.todo) = "write"
    BY <1>1, DoingIs
<1>3. "clear" \in Coming(retrieval.todo)
    BY <1>2, TailIsOrdered, NeedsAre
<1>4. /\ retrieval.run \in 1 .. MaxRetrievals /\ retrieval.run \notin DOMAIN kept
      /\ feedRuns[retrieval.run] # "unused" /\ feedTime \in 0 .. LastFeedTime
    BY <1>2 DEF Works, Retrievals, SignedInv
<1>5. Works(retrieval)' /\ Fetched(retrieval)' /\ Found(retrieval)'
    BY <1>1, <1>3, <1>4, NextWorks DEF FileKinds
<1> QED
    BY <1>1, <1>4, <1>5, Unkept DEF SignedInv

LEMMA BundleStep ==
    ASSUME SignedInv, VerifyBundle
    PROVE  SignedInv'
<1>1. Doing("verify_bundle") /\ Proceed /\ UNCHANGED <<feedTime, feedRuns, staged, kept>>
      /\ ManifestTrusted(FileOf("manifest"), FileOf("signature"), feedTime)
      /\ PayloadTrusted(FileOf("manifest"), FileOf("payload"))
    BY DEF VerifyBundle
<1>2. /\ retrieval # Nothing /\ Works(retrieval) /\ Fetched(retrieval) /\ Found(retrieval)
      /\ retrieval \in Retrievals /\ Ordered(retrieval.todo) /\ retrieval.todo # <<>>
      /\ Head(retrieval.todo) = "verify_bundle"
      /\ \A x : "verify_bundle" \in Needs(x) => x \notin Coming(retrieval.todo)
    BY <1>1, DoingIs
<1>3. {"payload", "verify_manifest"} \cap Coming(retrieval.todo) = {}
    BY <1>2, NeedsAre
<1>4. "manifest" \notin Coming(retrieval.todo)
    BY <1>2, <1>3, TailIsOrdered, NeedsAre
<1> DEFINE m == retrieval.held["manifest"]
           p == retrieval.held["payload"]
<1>5. m \in HostManifests
    BY <1>2, <1>4, FilesAre DEF Fetched
<1>6. BundleFound(retrieval)
    <2>1. m.key \in BundleKeys /\ feedTime < m.expires /\ feedTime < Keyring[m.key].until
        BY <1>1 DEF ManifestTrusted, KeySigns, FileOf
    <2>2. p.digest = m.digest /\ p.version = m.version /\ p.plain = m.plain
        BY <1>1 DEF PayloadTrusted, CatalogAgrees, FileOf
    <2>3. m.expires \in Int
        BY <1>5, HostAssumption
    <2>4. Keyring[m.key].until \in Int
        BY <2>1, RegistryAssumption DEF KeysValid, RolesApart
    <2>5. retrieval.received <= feedTime /\ retrieval.received \in Nat /\ feedTime \in Nat
        BY <1>2 DEF Works, Retrievals, SignedInv
    <2> HIDE DEF m, p
    <2>6. retrieval.received < m.expires /\ retrieval.received < Keyring[m.key].until
        BY <2>1, <2>3, <2>4, <2>5
    <2> QED
        BY <2>2, <2>6 DEF BundleFound, m, p
<1>7. /\ feedRuns'[retrieval.run] # "unused"
      /\ "clear" \notin Coming(retrieval.todo) => \A d \in staged' : d.run # retrieval.run
    BY <1>1, <1>2 DEF Works
<1>8. Works(retrieval)' /\ Fetched(retrieval)' /\ Found(retrieval)'
    BY <1>1, <1>6, <1>7, NextWorks DEF FileKinds
<1> QED
    BY <1>1, <1>8, Unkept DEF SignedInv

LEMMA ClearStep ==
    ASSUME SignedInv, ClearDirectory
    PROVE  SignedInv'
<1>1. Doing("clear") /\ Proceed /\ UNCHANGED <<feedTime, feedRuns, kept>>
      /\ staged' = staged \ OwnDirectories
    BY DEF ClearDirectory
<1>2. /\ Works(retrieval) /\ retrieval \in Retrievals
    BY <1>1, DoingIs
<1>3. \A d \in staged' : d \in staged /\ d.run # retrieval.run
    BY <1>1 DEF OwnDirectories
<1>4. feedRuns'[retrieval.run] # "unused"
    BY <1>1, <1>2 DEF Works
<1>5. Works(retrieval)' /\ Fetched(retrieval)' /\ Found(retrieval)'
    BY <1>1, <1>3, <1>4, NextWorks DEF FileKinds
<1> QED
    BY <1>1, <1>3, <1>5, Unkept DEF SignedInv

LEMMA KeepStep ==
    ASSUME SignedInv, KeepBundle
    PROVE  SignedInv'
<1>1. Doing("save") /\ UNCHANGED <<feedTime, staged>> /\ retrieval' = Nothing
      /\ kept' = [r \in DOMAIN kept \cup {retrieval.run} |->
                     IF r = retrieval.run THEN retrieval ELSE kept[r]]
      /\ feedRuns' = [feedRuns EXCEPT ![retrieval.run] = "pending_approval"]
    BY DEF KeepBundle
<1>2. /\ Works(retrieval) /\ Found(retrieval) /\ retrieval \in Retrievals
      /\ Ordered(retrieval.todo) /\ retrieval.todo # <<>> /\ Head(retrieval.todo) = "save"
      /\ \A x : "save" \in Needs(x) => x \notin Coming(retrieval.todo)
    BY <1>1, DoingIs
<1>3. "verify_bundle" \notin Coming(retrieval.todo) /\ "clear" \notin Coming(retrieval.todo)
    BY <1>2, NeedsAre
<1>4. "verify_manifest" \notin Coming(retrieval.todo)
    BY <1>2, <1>3, TailIsOrdered, NeedsAre
<1>5. "verify_index" \notin Coming(retrieval.todo)
    BY <1>2, <1>4, TailIsOrdered, NeedsAre
<1>6. Genuine(retrieval)
    BY <1>2, <1>3, <1>4, <1>5 DEF Found, Genuine
<1>7. retrieval.run \in 1 .. MaxRetrievals /\ \A d \in staged : d.run # retrieval.run
    BY <1>2, <1>3 DEF Works, Retrievals
<1>8. /\ DOMAIN kept' = DOMAIN kept \cup {retrieval.run} /\ kept'[retrieval.run] = retrieval
      /\ \A r \in DOMAIN kept : r # retrieval.run => kept'[r] = kept[r]
    BY <1>1
<1>9. (feedRuns \in [1 .. MaxRetrievals ->
                        {"unused", "downloading", "verifying", "pending_approval", "failed"}])'
      /\ feedRuns'[retrieval.run] # "unused"
      /\ \A r \in 1 .. MaxRetrievals : feedRuns[r] # "unused" => feedRuns'[r] # "unused"
    BY <1>1, <1>7 DEF SignedInv
<1>10. /\ (feedTime \in 0 .. LastFeedTime)' /\ (DOMAIN kept \subseteq 1 .. MaxRetrievals)'
       /\ (staged \subseteq [run : 1 .. MaxRetrievals, changed : 0 .. LastFeedTime])'
    BY <1>1, <1>7, <1>8 DEF SignedInv
<1>11. (KeptIsCleared)'
    BY <1>1, <1>7, <1>8 DEF SignedInv, KeptIsCleared
<1>12. ASSUME NEW q \in DOMAIN kept' PROVE feedRuns'[q] # "unused" /\ Genuine(kept'[q])
    BY <1>6, <1>8, <1>9 DEF SignedInv
<1> QED
    BY <1>1, <1>9, <1>10, <1>11, <1>12 DEF SignedInv, Genuine, ManifestFound, IndexFound, BundleFound

LEMMA FailStep ==
    ASSUME SignedInv, RetrievalFails
    PROVE  SignedInv'
<1>1. /\ retrieval # Nothing /\ retrieval' = Nothing /\ UNCHANGED <<feedTime, kept>>
      /\ feedRuns' = [feedRuns EXCEPT ![retrieval.run] = "failed"]
      /\ staged' \subseteq staged
    BY DEF RetrievalFails, OwnDirectories
<1>2. /\ (feedRuns \in [1 .. MaxRetrievals ->
                        {"unused", "downloading", "verifying", "pending_approval", "failed"}])'
      /\ \A r \in 1 .. MaxRetrievals : feedRuns[r] # "unused" => feedRuns'[r] # "unused"
    BY <1>1 DEF SignedInv
<1> QED
    BY <1>1, <1>2, Unkept DEF SignedInv

LEMMA StopStep ==
    ASSUME SignedInv, HubStops
    PROVE  SignedInv'
BY Unkept DEF SignedInv, HubStops

LEMMA SweepStep ==
    ASSUME SignedInv, SweepStaging
    PROVE  SignedInv'
<1>1. /\ staged' \subseteq staged /\ UNCHANGED <<feedTime, feedRuns, retrieval, kept>>
    BY DEF SweepStaging
<1>2. ASSUME retrieval # Nothing
      PROVE  Works(retrieval)' /\ Fetched(retrieval)' /\ Found(retrieval)'
    <2>1. Works(retrieval) /\ Fetched(retrieval) /\ Found(retrieval)
        BY <1>2 DEF SignedInv
    <2>2. Works(retrieval)'
        BY <1>1, <2>1 DEF Works
    <2>3. Fetched(retrieval)'
        BY <1>1, <2>1 DEF Fetched
    <2>4. Found(retrieval)'
        BY <1>1, <2>1 DEF Found, IndexFound, ManifestFound, BundleFound
    <2> QED
        BY <2>2, <2>3, <2>4
<1> QED
    BY <1>1, <1>2, Unkept DEF SignedInv

LEMMA TimeStep ==
    ASSUME SignedInv, FeedTimePasses
    PROVE  SignedInv'
<1>1. /\ feedTime' = feedTime + 1 /\ feedTime < LastFeedTime
      /\ UNCHANGED <<feedRuns, retrieval, staged, kept>>
    BY DEF FeedTimePasses
<1>2. feedTime \in 0 .. LastFeedTime /\ feedTime' \in 0 .. LastFeedTime
    BY <1>1, RetrievalAssumption DEF SignedInv
<1>3. ASSUME retrieval # Nothing
      PROVE  Works(retrieval)' /\ Fetched(retrieval)' /\ Found(retrieval)'
    <2>1. Works(retrieval) /\ Fetched(retrieval) /\ Found(retrieval)
        BY <1>3 DEF SignedInv
    <2>2. /\ retrieval \in Retrievals /\ retrieval.began \in Nat /\ retrieval.received \in Nat
          /\ retrieval.began <= feedTime /\ retrieval.received <= feedTime
        BY <2>1 DEF Works, Retrievals
    <2>3. retrieval.began <= feedTime' /\ retrieval.received <= feedTime'
        BY <1>1, <1>2, <2>2
    <2>4. Works(retrieval)'
        BY <1>1, <2>1, <2>3 DEF Works
    <2>5. Fetched(retrieval)'
        BY <1>1, <2>1 DEF Fetched
    <2>6. Found(retrieval)'
        BY <1>1, <2>1 DEF Found, IndexFound, ManifestFound, BundleFound
    <2> QED
        BY <2>4, <2>5, <2>6
<1>4. (\A q \in DOMAIN kept : feedRuns[q] # "unused" /\ Genuine(kept[q]))'
    BY <1>1 DEF SignedInv
<1> QED
    BY <1>1, <1>2, <1>3, <1>4 DEF SignedInv, KeptIsCleared

LEMMA NextSigned ==
    ASSUME SignedInv, SignedFeedNext
    PROVE  SignedInv'
<1>1. ASSUME NEW mode \in {"mirror", "direct"}, BeginRetrieval(mode, RemoteSteps(mode))
      PROVE  SignedInv'
    <2>1. CASE mode = "mirror"
        BY <1>1, <2>1, MirrorSteps, BeginStep DEF Modes
    <2>2. CASE mode = "direct"
        BY <1>1, <2>2, DirectSteps, BeginStep DEF Modes
    <2> QED
        BY <2>1, <2>2
<1>2. ASSUME BeginRetrieval("local", LocalSteps) PROVE SignedInv'
    BY <1>2, ReviewedSteps, BeginStep DEF Modes
<1>3. CASE ReceiveAnswer \/ ReadFixture
    BY <1>3, FileStep DEF ReceiveAnswer, ReadFixture
<1> QED
    BY <1>1, <1>2, <1>3, StageStep, AskStep, IndexStep, ManifestStep, WriteStep, BundleStep,
       ClearStep, KeepStep, FailStep, StopStep, SweepStep, TimeStep DEF SignedFeedNext

LEMMA StaySigned ==
    ASSUME SignedInv, UNCHANGED signedVars
    PROVE  SignedInv'
<1>1. UNCHANGED <<feedTime, feedRuns, retrieval, staged, kept>>
    BY DEF signedVars
<1>2. ASSUME retrieval # Nothing
      PROVE  Works(retrieval)' /\ Fetched(retrieval)' /\ Found(retrieval)'
    <2>1. Works(retrieval) /\ Fetched(retrieval) /\ Found(retrieval)
        BY <1>2 DEF SignedInv
    <2>2. Works(retrieval)'
        BY <1>1, <2>1 DEF Works
    <2>3. Fetched(retrieval)'
        BY <1>1, <2>1 DEF Fetched
    <2>4. Found(retrieval)'
        BY <1>1, <2>1 DEF Found, IndexFound, ManifestFound, BundleFound
    <2> QED
        BY <2>2, <2>3, <2>4
<1> QED
    BY <1>1, <1>2, Unkept DEF SignedInv

LEMMA SignedRight ==
    ASSUME SignedInv
    PROVE  SignedFeedTypeOK /\ SignedFeedSound
<1>1. SignedFeedTypeOK
    <2>1. ASSUME retrieval # Nothing
          PROVE  retrieval.run \in 1 .. MaxRetrievals /\ DOMAIN retrieval.held \subseteq FileKinds
        <3>1. retrieval \in Retrievals
            BY <2>1 DEF SignedInv, Works
        <3>2. retrieval.run \in 1 .. MaxRetrievals /\ retrieval.held \in HeldFiles
            BY <3>1 DEF Retrievals
        <3> QED
            BY <3>2 DEF HeldFiles
    <2> QED
        BY <2>1 DEF SignedInv, SignedFeedTypeOK
<1>2. KeptIsGenuine
    <2>1. ASSUME NEW r \in DOMAIN kept, NEW m, m = kept[r].held["manifest"],
                 NEW p, p = kept[r].held["payload"]
          PROVE  /\ m.source = "this" /\ m.key \in BundleKeys
                 /\ [of |-> m, key |-> m.key] \in HostSignatures
                 /\ p.digest = m.digest /\ p.version = m.version /\ p.plain <= MaxPlain
                 /\ kept[r].received < m.expires /\ kept[r].received < Keyring[m.key].until
        <3>1. ManifestFound(kept[r]) /\ BundleFound(kept[r])
            BY DEF SignedInv, Genuine
        <3> QED
            BY <2>1, <3>1 DEF ManifestFound, BundleFound
    <2>2. ASSUME NEW r \in DOMAIN kept, kept[r].mode = "mirror", NEW i, i = kept[r].held["index"]
          PROVE  /\ i.key \in IndexKeys /\ [of |-> i, key |-> i.key] \in HostSignatures
                 /\ i.catalogs[Len(i.catalogs)].manifest = kept[r].held["manifest"]
                 /\ kept[r].began <= i.published + IndexLife
        <3>1. ManifestFound(kept[r]) /\ IndexFound(kept[r])
            BY <2>2 DEF SignedInv, Genuine
        <3> QED
            BY <2>2, <3>1 DEF ManifestFound, IndexFound, LatestOf
    <2> QED
        BY <2>1, <2>2 DEF KeptIsGenuine
<1>3. KeptIsCleared
    BY DEF SignedInv
<1> QED
    BY <1>1, <1>2, <1>3 DEF SignedFeedSound

THEOREM KeptBundlesAreSound == SignedFeedSpec => [](SignedFeedTypeOK /\ SignedFeedSound)
<1>1. SignedInv /\ [SignedFeedNext]_signedVars => SignedInv'
    BY NextSigned, StaySigned
<1>2. SignedFeedInit => SignedInv
    BY InitSigned
<1>3. SignedInv => SignedFeedTypeOK /\ SignedFeedSound
    BY SignedRight
<1> QED
    BY <1>1, <1>2, <1>3, PTL DEF SignedFeedSpec

--------------------------------------------------------------------------------
(* The trust in a model.                                                   *)

\* A local model may be used only when what was read of the files says so.
LEMMA AllowedIsTrusted ==
    ASSUME NEW s, NEW file, NEW manifest, NEW records, NEW suite,
           LocalModelTrust(s, file, manifest, records, suite).allows
    PROVE  /\ s.qualification =>
                 file # Unread /\ IsOf(file[1], s) /\ IsApproved(file[1], suite)
           /\ s.manifest =>
                 /\ manifest # Unread /\ ManifestIsValid(manifest[1])
                 /\ manifest[1].provenance = "complete" /\ s.qualification
                 /\ file[1].binding # Unread
                 /\ file[1].binding[1] = BindingOf(manifest[1], suite, suite)
                 /\ s.registry =>
                       /\ records # Unread
                       /\ \A a \in records[1] :
                             Hits(a, manifest[1], file[1].binding) => a.action = "informational"
<1> DEFINE state == QualificationState(s, file, suite)
           m == LoadedManifest(manifest)
           binding == IF state \in {"approved", "rejected"} THEN file[1].binding ELSE Unread
<1>1. state = "approved" => s.qualification /\ file # Unread /\ IsOf(file[1], s) /\ IsApproved(file[1], suite)
    BY DEF QualificationState
<1>2. (state = "not-configured") => ~s.qualification
    BY DEF QualificationState
<1>3. m # Unread => m = manifest /\ manifest # Unread /\ ManifestIsValid(manifest[1])
    BY DEF LoadedManifest
<1> HIDE DEF state
<1>4. CASE ~s.manifest
    <2>1. WithoutManifest(s, state).allows
        BY <1>4 DEF LocalModelTrust, state
    <2>2. WithoutManifest(s, state).allows => state \in {"not-configured", "approved"}
        BY DEF WithoutManifest, Trust
    <2> QED
        BY <1>1, <1>2, <1>4, <2>1, <2>2
<1>5. CASE s.manifest
    <2> HIDE DEF m
    <2>1. m # Unread /\ m[1].model = s.model
        BY <1>5 DEF LocalModelTrust, Trust, m, state
    <2>2. WithManifest(s, state, m[1], binding, records, suite).allows
        BY <1>5, <2>1 DEF LocalModelTrust, m, state
    <2> DEFINE bound == BindingState(m[1], binding, suite)
               hits == IF s.registry /\ records # Unread
                       THEN {a \in records[1] : Hits(a, m[1], binding)} ELSE {}
               blocking == IF hits = {} THEN {} ELSE Blocking(records[1], m[1], binding)
               unreadable == s.registry /\ records = Unread
    <2>3. /\ m[1].provenance = "complete" /\ state = "approved" /\ bound = "matched"
          /\ blocking = {} /\ ~unreadable
        BY <2>2 DEF WithManifest, Trust
    <2>4. binding = file[1].binding
        BY <2>3
    <2>5. file[1].binding # Unread /\ file[1].binding[1] = BindingOf(m[1], suite, suite)
        BY <2>3, <2>4 DEF BindingState
    <2>6. ASSUME s.registry
          PROVE  /\ records # Unread
                 /\ \A a \in records[1] :
                       Hits(a, m[1], file[1].binding) => a.action = "informational"
        <3>1. records # Unread
            BY <2>3, <2>6
        <3>2. ASSUME NEW a \in records[1], Hits(a, m[1], file[1].binding),
                     a.action # "informational"
              PROVE  FALSE
            <4>1. a \in hits
                BY <2>4, <2>6, <3>1, <3>2
            <4>2. a \in blocking
                BY <2>4, <3>2, <4>1 DEF Blocking
            <4> QED
                BY <2>3, <4>2
        <3> QED
            BY <3>1, <3>2
    <2> QED
        BY <1>1, <1>3, <1>5, <2>1, <2>3, <2>5, <2>6
<1> QED
    BY <1>4, <1>5


\* What a qualification that ended writes of what it tested.
BindingTested(t) ==
    IF t.manifest = Unread THEN Unread ELSE <<BindingOf(t.manifest[1], t.suite, t.fixtures)>>
RunResult(t) ==
    LET id(i) == IF t.manifest = Unread THEN Unstated ELSE t.manifest[1].ids[i]
    IN  <<[url |-> t.url, model |-> t.model, passed |-> t.passed, artifact |-> id("artifact"),
           runtime |-> id("runtime"), binding |-> BindingTested(t)]>>
WasTested(file) == \E t \in aiTested : file = RunResult(t)

\* A file is absent or has one content.
IsFile(file) == file = Unread \/ file = <<file[1]>>

AskedOf(request) ==
    /\ request.at \in {"idle", "manifest", "registry", "answered"}
    /\ request.at # "idle" => (request.qualification = Unread \/ WasTested(request.qualification))
    /\ request.at \in {"registry", "answered"} => request.manifest \in Manifests

TrustInv ==
    /\ aiSetting \in AdvisorSettings /\ aiRelease \in DOMAIN SuiteVersions
    /\ aiManifest \in Manifests /\ aiRegistry \in Registries /\ aiOperations \in 0 .. MaxOperations
    /\ aiQualification = Unread \/ WasTested(aiQualification)
    /\ aiScript.running \in BOOLEAN
    /\ aiScript.running =>
          /\ IsFile(aiScript.manifest)
          /\ aiScript = [running |-> TRUE, passed |-> FALSE, url |-> aiScript.url,
                         model |-> aiScript.model, manifest |-> aiScript.manifest,
                         suite |-> aiScript.suite, fixtures |-> aiScript.fixtures]
    /\ \A t \in aiTested : IsFile(t.manifest)
    /\ AskedOf(aiRequest) /\ AskedIsTested

LEMMA InitTrust == TrustInit => TrustInv
BY TrustAssumption DEF TrustInit, TrustInv, NoScript, NoRequest, AskedOf, AskedIsTested

\* What is said of the request stays said when more is tested.
LEMMA StaysAsked ==
    ASSUME TrustInv, UNCHANGED <<aiSetting, aiRelease, aiRequest>>, aiTested \subseteq aiTested'
    PROVE  /\ AskedOf(aiRequest)' /\ AskedIsTested'
           /\ \A file : WasTested(file) => WasTested(file)'
<1>1. \A file : WasTested(file) => WasTested(file)'
    BY DEF WasTested
<1>2. AskedOf(aiRequest)'
    BY <1>1 DEF TrustInv, AskedOf
<1>3. AskedIsTested'
    <2>1. AskedIsTested
        BY DEF TrustInv
    <2> SUFFICES ASSUME aiRequest.at = "answered", aiRequest.reached \notin {"nothing", "provider"}
                 PROVE  AskedIsTested'
        BY DEF AskedIsTested
    <2> QED
        BY <2>1 DEF AskedIsTested
<1> QED
    BY <1>1, <1>2, <1>3

\* The operator's files.
LEMMA OperatorStep ==
    ASSUME TrustInv,
           (\E m \in Manifests : ReplaceManifest(m)) \/ (\E r \in Registries : ReplaceRegistry(r))
    PROVE  TrustInv'
<1>1. /\ UNCHANGED <<aiSetting, aiRelease, aiQualification, aiScript, aiTested, aiRequest>>
      /\ aiManifest' \in Manifests /\ aiRegistry' \in Registries
      /\ aiOperations < MaxOperations /\ aiOperations' = aiOperations + 1
    BY DEF ReplaceManifest, ReplaceRegistry, Operate, TrustInv
<1>2. aiOperations' \in 0 .. MaxOperations
    BY <1>1, TrustAssumption DEF TrustInv
<1>3. AskedOf(aiRequest)' /\ AskedIsTested' /\ \A file : WasTested(file) => WasTested(file)'
    BY <1>1, StaysAsked
<1> QED
    BY <1>1, <1>2, <1>3 DEF TrustInv

LEMMA UpgradeStep ==
    ASSUME TrustInv, UpgradeHub
    PROVE  TrustInv'
<1>1. /\ UNCHANGED <<aiSetting, aiManifest, aiRegistry, aiQualification, aiScript, aiTested>>
      /\ aiRequest' = NoRequest /\ aiRelease' = aiRelease + 1 /\ aiRelease < Len(SuiteVersions)
      /\ aiOperations < MaxOperations /\ aiOperations' = aiOperations + 1
    BY DEF UpgradeHub, Operate
<1>2. aiOperations' \in 0 .. MaxOperations /\ aiRelease' \in DOMAIN SuiteVersions
    BY <1>1, TrustAssumption DEF TrustInv
<1>3. AskedOf(aiRequest)' /\ AskedIsTested'
    BY <1>1 DEF AskedOf, AskedIsTested, NoRequest
<1>4. \A file : WasTested(file) => WasTested(file)'
    BY <1>1 DEF WasTested
<1> QED
    BY <1>1, <1>2, <1>3, <1>4 DEF TrustInv

LEMMA StartStep ==
    ASSUME TrustInv, NEW q \in Qualifications, StartQualification(q)
    PROVE  TrustInv'
<1> DEFINE m == IF q.manifest THEN LoadedManifest(aiManifest) ELSE Unread
<1>1. /\ UNCHANGED <<aiSetting, aiRelease, aiManifest, aiRegistry, aiQualification, aiTested, aiRequest>>
      /\ aiScript' =
            [running |-> TRUE, passed |-> FALSE, url |-> q.url, model |-> q.model, manifest |-> m,
             suite |-> SuiteVersions[aiRelease],
             fixtures |-> IF q.current THEN SuiteVersions[aiRelease] ELSE "other"]
      /\ aiOperations < MaxOperations /\ aiOperations' = aiOperations + 1
    BY DEF StartQualification, Operate
<1>2. aiOperations' \in 0 .. MaxOperations
    BY <1>1, TrustAssumption DEF TrustInv
<1>3. IsFile(m)
    BY TrustAssumption DEF TrustInv, LoadedManifest, IsFile
<1> HIDE DEF m
<1>4. /\ aiScript'.running = TRUE /\ IsFile(aiScript'.manifest)
      /\ aiScript' = [running |-> TRUE, passed |-> FALSE, url |-> aiScript'.url,
                      model |-> aiScript'.model, manifest |-> aiScript'.manifest,
                      suite |-> aiScript'.suite, fixtures |-> aiScript'.fixtures]
    BY <1>1, <1>3
<1>5. AskedOf(aiRequest)' /\ AskedIsTested' /\ \A file : WasTested(file) => WasTested(file)'
    BY <1>1, StaysAsked
<1> QED
    BY <1>1, <1>2, <1>4, <1>5 DEF TrustInv, IsFile

LEMMA EndStep ==
    ASSUME TrustInv, NEW passed \in BOOLEAN, EndQualification(passed)
    PROVE  TrustInv'
<1> DEFINE t == [aiScript EXCEPT !.passed = passed]
<1>1. /\ aiScript.running /\ aiTested' = aiTested \cup {t} /\ aiScript' = NoScript
      /\ UNCHANGED <<aiSetting, aiRelease, aiManifest, aiRegistry, aiRequest, aiOperations>>
    BY DEF EndQualification
<1>2. /\ IsFile(aiScript.manifest)
      /\ aiScript = [running |-> TRUE, passed |-> FALSE, url |-> aiScript.url,
                     model |-> aiScript.model, manifest |-> aiScript.manifest,
                     suite |-> aiScript.suite, fixtures |-> aiScript.fixtures]
    BY <1>1 DEF TrustInv
<1>3. /\ t.url = aiScript.url /\ t.model = aiScript.model /\ t.passed = passed
      /\ t.manifest = aiScript.manifest /\ t.suite = aiScript.suite
      /\ t.fixtures = aiScript.fixtures
    BY <1>2
<1>4. aiQualification' = RunResult(t)
    <2> HIDE DEF t
    <2> QED
        BY <1>3 DEF EndQualification, RunResult, BindingTested
<1> HIDE DEF t
<1>5. WasTested(aiQualification)'
    BY <1>1, <1>4 DEF WasTested
<1>6. AskedOf(aiRequest)' /\ AskedIsTested'
    BY <1>1, StaysAsked
<1>7. \A u \in aiTested' : IsFile(u.manifest)
    BY <1>1, <1>2, <1>3 DEF TrustInv
<1>8. aiScript'.running = FALSE
    BY <1>1 DEF NoScript
<1> QED
    BY <1>1, <1>5, <1>6, <1>7, <1>8 DEF TrustInv

LEMMA ReadStep ==
    ASSUME TrustInv, ReadQualification \/ ReadManifest
    PROVE  TrustInv'
<1>1. UNCHANGED <<aiSetting, aiRelease, aiManifest, aiRegistry, aiQualification, aiScript,
                  aiTested, aiOperations>>
    BY DEF ReadQualification, ReadManifest
<1>2. \A file : WasTested(file) => WasTested(file)'
    BY <1>1 DEF WasTested
<1>3. AskedOf(aiRequest)' /\ AskedIsTested'
    BY <1>2 DEF TrustInv, ReadQualification, ReadManifest, AskedOf, AskedIsTested
<1> QED
    BY <1>1, <1>2, <1>3 DEF TrustInv


\* The model is asked: what was allowed of the files was tested.
LEMMA AskedStep ==
    ASSUME TrustInv, NEW addresses, AskTheModel(addresses)
    PROVE  TrustInv'
<1> DEFINE file == aiRequest.qualification
           manifest == aiRequest.manifest
           suite == SuiteVersions[aiRelease]
           s == aiSetting
           may == MayUse(s, file, manifest, aiRegistry, suite)
           mode == IF s.provider = "demo" THEN "demo" ELSE ProviderMode(s)
<1>1. /\ UNCHANGED <<aiSetting, aiRelease, aiManifest, aiRegistry, aiQualification, aiScript,
                     aiTested, aiOperations>>
      /\ aiRequest.at = "registry"
    BY DEF AskTheModel
<1>2. PICK reached \in IF ~may \/ mode = "demo" THEN {"nothing"}
                       ELSE IF mode = "external" THEN {"provider"}
                       ELSE IF AreLocal(addresses) THEN addresses ELSE {"nothing"} :
          aiRequest' = [at |-> "answered", qualification |-> file, manifest |-> manifest,
                        registry |-> aiRegistry, reached |-> reached]
    BY DEF AskTheModel
<1>3. \A f : WasTested(f) => WasTested(f)'
    BY <1>1 DEF WasTested
<1>4. (file = Unread \/ WasTested(file)) /\ manifest \in Manifests
    BY <1>1 DEF TrustInv, AskedOf
<1>5. AskedOf(aiRequest)'
    BY <1>2, <1>3, <1>4 DEF AskedOf
<1>6. ASSUME reached \notin {"nothing", "provider"}
      PROVE  /\ reached \in LocalAddresses
             /\ LocalModelTrust(s, file, manifest, aiRegistry, suite).allows
    <2>1. may /\ mode # "demo" /\ mode # "external" /\ AreLocal(addresses) /\ reached \in addresses
        BY <1>2, <1>6
    <2>2. mode = ProviderMode(s) /\ s.provider # "demo"
        BY <2>1
    <2>3. LocalModelTrust(s, file, manifest, aiRegistry, suite).allows
        BY <2>1, <2>2 DEF MayUse
    <2> QED
        BY <2>1, <2>3 DEF AreLocal
<1>7. ASSUME reached \notin {"nothing", "provider"}, s.qualification
      PROVE  \E t \in aiTested :
                 /\ t.passed /\ t.url = s.url /\ t.model = s.model
                 /\ s.manifest =>
                       /\ t.manifest = manifest /\ t.suite = suite /\ t.fixtures = t.suite
    <2>1. /\ file # Unread /\ IsOf(file[1], s) /\ IsApproved(file[1], suite)
          /\ s.manifest =>
                /\ manifest # Unread /\ file[1].binding # Unread
                /\ file[1].binding[1] = BindingOf(manifest[1], suite, suite)
        <3> HIDE DEF file, manifest, suite, s
        <3> QED
            BY <1>6, <1>7, AllowedIsTrusted
    <2>2. PICK t \in aiTested : file = RunResult(t)
        BY <1>4, <2>1 DEF WasTested
    <2> HIDE DEF file, manifest, suite, s
    <2>3. /\ file[1].url = t.url /\ file[1].model = t.model /\ file[1].passed = t.passed
          /\ file[1].binding = BindingTested(t)
        BY <2>2 DEF RunResult
    <2>4. t.passed /\ t.url = s.url /\ t.model = s.model
        BY <2>1, <2>3 DEF IsOf, IsApproved
    <2>5. ASSUME s.manifest
          PROVE  t.manifest = manifest /\ t.suite = suite /\ t.fixtures = t.suite
        <3>1. BindingTested(t) # Unread /\ BindingTested(t)[1] = BindingOf(manifest[1], suite, suite)
            BY <2>1, <2>3, <2>5
        <3>2. t.manifest # Unread
              /\ BindingOf(t.manifest[1], t.suite, t.fixtures) = BindingOf(manifest[1], suite, suite)
            BY <3>1 DEF BindingTested
        <3>3. t.manifest[1] = manifest[1] /\ t.suite = suite /\ t.fixtures = suite
            BY <3>2 DEF BindingOf
        <3>4. t.manifest = <<t.manifest[1]>>
            BY <3>2 DEF TrustInv, IsFile
        <3>5. manifest = <<manifest[1]>>
            BY <1>4, <2>1, <2>5, TrustAssumption
        <3> QED
            BY <3>3, <3>4, <3>5
    <2> QED
        BY <2>4, <2>5
<1>8. ASSUME reached \notin {"nothing", "provider"}, s.manifest, NEW m, m = manifest[1]
      PROVE  /\ \A l \in Links : m.ids[l[1]] = m.ids[l[2]] /\ m.ids[l[1]] # Unstated
             /\ s.registry =>
                   \A a \in aiRegistry[1] :
                      a.action # "informational" => ~Hits(a, m, file[1].binding)
    <2>1. /\ ManifestIsValid(m) /\ m.provenance = "complete"
          /\ s.registry =>
                \A a \in aiRegistry[1] : Hits(a, m, file[1].binding) => a.action = "informational"
        <3> HIDE DEF file, manifest, suite, s
        <3> QED
            BY <1>6, <1>8, AllowedIsTrusted
    <2>2. \A i \in Lineage : m.ids[i] # Unstated
        BY <2>1 DEF ManifestIsValid
    <2>3. \A l \in Links : Unstated \in {m.ids[l[1]], m.ids[l[2]]} \/ m.ids[l[1]] = m.ids[l[2]]
        BY <2>1 DEF ManifestIsValid
    <2>4. \A l \in Links : l[1] \in Lineage /\ l[2] \in Lineage
        BY DEF Links, Lineage
    <2> QED
        BY <2>1, <2>2, <2>3, <2>4
<1>9. AskedIsTested'
    <2>1. /\ aiRequest'.at = "answered" /\ aiRequest'.reached = reached
          /\ aiRequest'.manifest = manifest /\ aiRequest'.qualification = file
          /\ aiRequest'.registry = aiRegistry
        BY <1>2
    <2> HIDE DEF file, manifest
    <2> QED
        BY <1>1, <1>6, <1>7, <1>8, <2>1 DEF AskedIsTested
<1> QED
    BY <1>1, <1>3, <1>5, <1>9 DEF TrustInv

LEMMA NextTrust == TrustInv /\ [TrustNext]_aiVars => TrustInv'
<1> SUFFICES ASSUME TrustInv, [TrustNext]_aiVars PROVE TrustInv'
    OBVIOUS
<1>1. CASE UNCHANGED aiVars
    <2>1. UNCHANGED <<aiSetting, aiRelease, aiManifest, aiRegistry, aiQualification, aiScript,
                      aiTested, aiRequest, aiOperations>>
        BY <1>1 DEF aiVars
    <2>2. AskedOf(aiRequest)' /\ AskedIsTested' /\ \A file : WasTested(file) => WasTested(file)'
        BY <2>1, StaysAsked
    <2> QED
        BY <2>1, <2>2 DEF TrustInv
<1>2. CASE TrustNext
    BY <1>2, OperatorStep, UpgradeStep, StartStep, EndStep, ReadStep, AskedStep DEF TrustNext
<1> QED
    BY <1>1, <1>2

\* Whatever files the operator replaces, and when: a local model that is asked was tested.
THEOREM AskedModelWasTested == TrustInit /\ [][TrustNext]_aiVars => []AskedIsTested
<1>1. TrustInv => AskedIsTested
    BY DEF TrustInv
<1> HIDE DEF TrustInv
<1> QED
    BY InitTrust, NextTrust, <1>1, PTL

LEMMA TrustRight == TrustInv => TrustTypeOK
<1> SUFFICES ASSUME TrustInv PROVE TrustTypeOK
    OBVIOUS
<1>1. Len(aiQualification) <= 1
    <2>1. CASE aiQualification = Unread
        BY <2>1 DEF Unread
    <2>2. CASE WasTested(aiQualification)
        BY <2>2 DEF WasTested, RunResult
    <2> QED
        BY <2>1, <2>2 DEF TrustInv
<1> QED
    BY <1>1 DEF TrustInv, TrustTypeOK, AskedOf

\* Where a model may be asked.
LEMMA PlaceOfModel ==
    ASSUME NEW s
    PROVE  /\ ProviderMode(s) \in {"invalid", "local", "external"}
           /\ ProviderMode(s) = "external" =>
                 /\ TrustedHosts(s.hosts) /\ s.url.scheme = "https"
                 /\ s.url.host.kind # "private_address"
           /\ ProviderMode(s) = "local" =>
                 /\ IsLocal(s) /\ TrustedHosts(s.hosts)
                 /\ s.url.host.kind = "name" \/ s.url.host.name \in BuiltInLocalHosts
<1>1. /\ ProviderMode(s) \in {"invalid", "local", "external"}
      /\ ProviderMode(s) = "external" =>
            /\ TrustedHosts(s.hosts) /\ s.url.scheme \in {"http", "https"} /\ s.url.scheme # "http"
            /\ s.url.host.kind # "private_address"
      /\ ProviderMode(s) = "local" => IsLocal(s) /\ TrustedHosts(s.hosts)
    BY DEF ProviderMode
<1>2. IsLocal(s) /\ TrustedHosts(s.hosts) =>
          s.url.host.kind = "name" \/ s.url.host.name \in BuiltInLocalHosts
    BY DEF IsLocal, TrustedHosts
<1> QED
    BY <1>1, <1>2

\* A refusal shows in what is reported.
LEMMA RefusalShows ==
    ASSUME NEW s, NEW file, NEW manifest, NEW records, NEW suite,
           NEW trust, trust = LocalModelTrust(s, file, manifest, records, suite), ~trust.allows
    PROVE  \/ trust.qualification \in {"invalid", "rejected"}
           \/ trust.manifest \in {"invalid", "required-missing"}
           \/ trust.provenance \notin {"complete", "unknown"}
           \/ trust.binding \in {"required-missing", "invalid", "mismatch"}
           \/ trust.advisories = "invalid"
<1> DEFINE state == QualificationState(s, file, suite)
           m == LoadedManifest(manifest)
           binding == IF state \in {"approved", "rejected"} THEN file[1].binding ELSE Unread
<1>1. state \in {"not-configured", "invalid", "approved", "rejected"}
    BY DEF QualificationState
<1> HIDE DEF state
<1>2. CASE ~s.manifest
    <2>1. trust = WithoutManifest(s, state)
        BY <1>2 DEF LocalModelTrust, state
    <2>2. CASE s.required
        BY <2>1, <2>2 DEF WithoutManifest, Trust
    <2>3. CASE ~s.required
        <3>1. trust.qualification = state /\ (s.registry => trust.advisories = "invalid")
            BY <2>1, <2>3 DEF WithoutManifest, Trust
        <3>2. WithoutManifest(s, state).allows
                  <=> (~s.registry /\ state \in {"not-configured", "approved"})
            BY <2>3 DEF WithoutManifest, Trust
        <3> QED
            BY <1>1, <2>1, <3>1, <3>2
    <2> QED
        BY <2>2, <2>3
<1>3. CASE s.manifest
    <2> HIDE DEF m
    <2>1. CASE m = Unread
        BY <1>3, <2>1 DEF LocalModelTrust, Trust, m, state
    <2>2. CASE m # Unread /\ m[1].model # s.model
        BY <1>3, <2>2 DEF LocalModelTrust, Trust, m, state
    <2>3. CASE m # Unread /\ m[1].model = s.model
        <3> DEFINE bound == BindingState(m[1], binding, suite)
                   hits == IF s.registry /\ records # Unread
                           THEN {a \in records[1] : Hits(a, m[1], binding)} ELSE {}
                   blocking == IF hits = {} THEN {} ELSE Blocking(records[1], m[1], binding)
                   unreadable == s.registry /\ records = Unread
        <3>1. trust = WithManifest(s, state, m[1], binding, records, suite)
            BY <1>3, <2>3 DEF LocalModelTrust, m, state
        <3>2. /\ trust.qualification = state /\ trust.binding = bound
              /\ blocking # {} => trust.provenance \in {"invalid", "requalification-required"}
              /\ unreadable => trust.advisories = "invalid"
              /\ trust.allows <=>
                    /\ m[1].provenance = "complete" /\ state = "approved" /\ bound = "matched"
                    /\ blocking = {} /\ ~unreadable
            <4>1. trust.qualification = state /\ trust.binding = bound
                BY <3>1 DEF WithManifest, Trust
            <4>2. blocking # {} => trust.provenance \in {"invalid", "requalification-required"}
                BY <3>1 DEF WithManifest, Trust
            <4>3. unreadable => trust.advisories = "invalid"
                BY <3>1 DEF WithManifest, Trust
            <4>4. WithManifest(s, state, m[1], binding, records, suite).allows <=>
                    /\ m[1].provenance = "complete" /\ state = "approved" /\ bound = "matched"
                    /\ blocking = {} /\ ~unreadable
                BY DEF WithManifest, Trust
            <4> HIDE DEF bound, blocking, hits, unreadable
            <4> QED
                BY <3>1, <4>1, <4>2, <4>3, <4>4
        <3>3. bound \in {"required-missing", "invalid", "mismatch", "matched"}
              /\ (m[1].provenance # "complete" => bound # "matched")
              /\ (state = "not-configured" => bound # "matched")
            BY DEF BindingState
        <3> HIDE DEF bound, blocking, hits, unreadable
        <3> QED
            BY <1>1, <3>2, <3>3
    <2> QED
        BY <2>1, <2>2, <2>3
<1> QED
    BY <1>2, <1>3

\* One advisory less refuses nothing that was allowed.
LEMMA FewerAdvisories ==
    ASSUME NEW s, NEW file, NEW manifest, NEW records, NEW suite, records # Unread,
           NEW fewer, fewer # Unread, fewer[1] \subseteq records[1],
           LocalModelTrust(s, file, manifest, records, suite).allows
    PROVE  LocalModelTrust(s, file, manifest, fewer, suite).allows
<1> DEFINE state == QualificationState(s, file, suite)
           m == LoadedManifest(manifest)
           binding == IF state \in {"approved", "rejected"} THEN file[1].binding ELSE Unread
<1>1. CASE ~s.manifest
    <2>1. WithoutManifest(s, state).allows
        BY <1>1 DEF LocalModelTrust
    <2> QED
        BY <1>1, <2>1 DEF LocalModelTrust
<1>2. CASE s.manifest
    <2> HIDE DEF m, state
    <2>1. m # Unread /\ m[1].model = s.model
        BY <1>2 DEF LocalModelTrust, Trust, m, state
    <2>2. WithManifest(s, state, m[1], binding, records, suite).allows
        BY <1>2, <2>1 DEF LocalModelTrust, m, state
    <2> DEFINE Hit(r) == IF s.registry /\ r # Unread
                         THEN {a \in r[1] : Hits(a, m[1], binding)} ELSE {}
               Blocks(r) == IF Hit(r) = {} THEN {} ELSE Blocking(r[1], m[1], binding)
    <2> HIDE DEF binding
    <2>3. \A r : WithManifest(s, state, m[1], binding, r, suite).allows <=>
              /\ m[1].provenance = "complete" /\ state = "approved"
              /\ BindingState(m[1], binding, suite) = "matched"
              /\ Blocks(r) = {} /\ ~(s.registry /\ r = Unread)
        BY DEF WithManifest, Trust
    <2>4. Blocks(records) = {} => Blocks(fewer) = {}
        <3>1. Blocking(fewer[1], m[1], binding) \subseteq Blocking(records[1], m[1], binding)
            BY DEF Blocking
        <3>2. Hit(fewer) \subseteq Hit(records)
            OBVIOUS
        <3> QED
            BY <3>1, <3>2
    <2>5. WithManifest(s, state, m[1], binding, fewer, suite).allows
        <3> HIDE DEF Blocks
        <3> QED
            BY <2>2, <2>3, <2>4
    <2> QED
        BY <1>2, <2>1, <2>5 DEF LocalModelTrust, m, state, binding
<1> QED
    BY <1>1, <1>2

\* For every setting and every content of the files.
THEOREM TrustIsSound ==
    ASSUME NEW s, NEW file, NEW manifest, NEW records, NEW suite
    PROVE  TrustSoundOn(s, file, manifest, records, suite)
<1> DEFINE status == ProviderStatus(s, file, manifest, records, suite)
           may == MayUse(s, file, manifest, records, suite)
           trust == LocalModelTrust(s, file, manifest, records, suite)
           mode == IF s.provider = "demo" THEN "demo" ELSE ProviderMode(s)
<1> HIDE DEF trust
<1>1. /\ status.sharing <=>
             /\ TrustedHosts(s.hosts) /\ s.provider = "openai-compatible" /\ s.model # Unstated
             /\ mode = "external" /\ HostedIsEnabled(s)
      /\ status.enabled <=>
             /\ TrustedHosts(s.hosts)
             /\ \/ mode = "demo"
                \/ /\ mode = "local" /\ s.provider = "openai-compatible" /\ s.model # Unstated
                   /\ trust.allows
                \/ mode \notin {"demo", "local"} /\ status.sharing
    BY DEF ProviderStatus, trust
<1> HIDE DEF status
<1>2. may <=>
          /\ TrustedHosts(s.hosts)
          /\ \/ s.provider = "demo"
             \/ /\ s.provider = "openai-compatible" /\ s.model # Unstated
                /\ \/ ProviderMode(s) = "external" /\ HostedIsEnabled(s)
                   \/ ProviderMode(s) = "local" /\ trust.allows
    BY DEF MayUse, trust
<1>3. status.enabled <=> may
    BY <1>1, <1>2, PlaceOfModel
<1>4. may /\ s.provider # "demo" =>
          \/ /\ s.external /\ s.key /\ s.url.scheme = "https" /\ status.sharing
             /\ s.url.host.kind # "private_address"
          \/ /\ IsLocal(s) /\ ~status.sharing
             /\ s.url.host.kind = "name" \/ s.url.host.name \in BuiltInLocalHosts
    BY <1>1, <1>2, PlaceOfModel DEF HostedIsEnabled
<1>5. ~trust.allows =>
          \/ trust.qualification \in {"invalid", "rejected"}
          \/ trust.manifest \in {"invalid", "required-missing"}
          \/ trust.provenance \notin {"complete", "unknown"}
          \/ trust.binding \in {"required-missing", "invalid", "mismatch"}
          \/ trust.advisories = "invalid"
    BY RefusalShows DEF trust
<1>6. ASSUME may, records # Unread, NEW a \in records[1]
      PROVE  MayUse(s, file, manifest, <<records[1] \ {a}>>, suite)
    <2>1. /\ <<records[1] \ {a}>> # Unread
          /\ <<records[1] \ {a}>>[1] \subseteq records[1]
        BY DEF Unread
    <2>2. trust.allows => LocalModelTrust(s, file, manifest, <<records[1] \ {a}>>, suite).allows
        BY <1>6, <2>1, FewerAdvisories DEF trust
    <2> QED
        BY <1>2, <1>6, <2>2 DEF MayUse
<1> QED
    BY <1>3, <1>4, <1>5, <1>6 DEF TrustSoundOn, status, trust

--------------------------------------------------------------------------------
(* The types that TLC checks beside the invariants, with the bounds of     *)
(* each part: first the publishers.                                        *)

\* No sequence is above the bound, and the lock is of a publisher.
KevPlain ==
    /\ kevState # NoKevState => kevState.sequence <= MaxKevSequence
    /\ kevLock \in Publishers \cup {NoHolder}

LEMMA KevPlainKept ==
    ASSUME KevInv, KevPlain, [KevPublisherNext]_kevPublisherVars
    PROVE  KevPlain'
<1>1. CASE UNCHANGED kevPublisherVars
    BY <1>1 DEF kevPublisherVars, KevPlain
<1>2. ASSUME NEW p \in Publishers, LockState(p) \/ FetchCatalog(p) \/ EndKevRun(p)
      PROVE  KevPlain'
    BY <1>2 DEF LockState, FetchCatalog, EndKevRun, KevPlain
<1>3. ASSUME NEW p \in Publishers, NEW floor \in Floors, Reserve(p, floor)
      PROVE  KevPlain'
    BY <1>3 DEF Reserve, Reserved, KevPlain
<1>4. ASSUME NEW p \in Publishers, PublishOutput(p)
      PROVE  KevPlain'
    BY <1>4 DEF PublishOutput, KevPlain
<1>5. ASSUME NEW p \in Publishers, MarkPublished(p)
      PROVE  KevPlain'
    <2>1. kevRun[p].at = "mark" /\ kevState = Reserved(kevRun[p].release, kevRun[p].sequence)
        BY <1>5 DEF MarkPublished, KevInv, RunIsReserved
    <2>2. kevState # NoKevState
        BY <2>1 DEF Reserved, NoKevState
    <2>3. kevState'.sequence = kevState.sequence /\ kevLock' = kevLock
        BY <1>5, <2>1 DEF MarkPublished, Reserved
    <2> QED
        BY <2>2, <2>3 DEF KevPlain
<1>6. ASSUME NEW release \in KevRelease, SourceServes(release)
      PROVE  KevPlain'
    BY <1>6 DEF SourceServes, KevPlain
<1> QED
    BY <1>1, <1>2, <1>3, <1>4, <1>5, <1>6 DEF KevPublisherNext

LEMMA KevPlainFirst == KevPublisherInit => KevPlain
BY DEF KevPublisherInit, KevPlain

LEMMA KevTyping ==
    ASSUME KevInv, KevPlain
    PROVE  KevPublisherTypeOK
<1>1. KevTyped /\ StateCovers
    BY DEF KevInv
<1>2. kevSource \in KevRelease /\ kevState \in {NoKevState} \cup KevStates
      /\ kevOutputs \subseteq KevBundles /\ kevRun \in [Publishers -> KevRuns]
    BY <1>1 DEF KevTyped
<1>3. ASSUME kevState # NoKevState
      PROVE  /\ kevState.sequence \in 1 .. MaxKevSequence
             /\ [version |-> kevState.version, bytes |-> kevState.bytes] \in KevRelease
             /\ kevState.status \in {"reserved", "published"}
    <2>1. kevState \in KevStates /\ kevState.sequence <= MaxKevSequence
        BY <1>2, <1>3 DEF KevPlain
    <2> QED
        BY <2>1 DEF KevStates, KevRelease
<1>4. kevOutputs \subseteq [sequence : 1 .. MaxKevSequence, version : Versions, bytes : CatalogBytes]
    <2> SUFFICES ASSUME NEW b \in kevOutputs
                 PROVE  b \in [sequence : 1 .. MaxKevSequence, version : Versions, bytes : CatalogBytes]
        OBVIOUS
    <2>1. b \in KevBundles /\ kevState # NoKevState /\ b.sequence <= kevState.sequence
        BY <1>1, <1>2 DEF StateCovers
    <2>2. kevState \in KevStates /\ kevState.sequence \in 1 .. MaxKevSequence
        BY <1>2, <1>3, <2>1
    <2>3. b.sequence \in Nat \ {0} /\ kevState.sequence \in Nat
        BY <2>1, <2>2 DEF KevBundles, KevStates
    <2>4. b.sequence \in 1 .. MaxKevSequence
        BY <2>1, <2>2, <2>3, KevPublisherAssumption
    <2> QED
        BY <2>1, <2>4 DEF KevBundles
<1>5. \A p \in Publishers :
          kevRun[p].at \in {"none", "fetch", "compare", "output", "mark", "done"}
    <2> SUFFICES ASSUME NEW p \in Publishers
                 PROVE  kevRun[p].at \in {"none", "fetch", "compare", "output", "mark", "done"}
        OBVIOUS
    <2>1. kevRun[p] \in KevRuns
        BY <1>2
    <2> QED
        BY <2>1 DEF KevRuns, NotRunning
<1> QED
    BY <1>2, <1>3, <1>4, <1>5 DEF KevPlain, KevPublisherTypeOK

\* Each bundle takes the sequence after the one it replaces, up to the bound.
OsvPlain ==
    /\ sourceTime \in 1 .. LastChange
    /\ removed \subseteq OsvIds /\ removed \cap DOMAIN listing = {}
    /\ osvState # NoOsvState => osvState.sequence \in 1 .. MaxBundles
    /\ osvRun.at \in {"none", "index", "records", "state"}
    /\ osvRun.at \in {"index", "records"} => SequenceAfter(osvRun.state) \in 1 .. MaxBundles
    /\ osvRun.at = "state" => osvRun.bundle.sequence \in 1 .. MaxBundles

LEMMA OsvPlainKept ==
    ASSUME OsvInv, OsvPlain, [OsvNext]_osvVars
    PROVE  OsvPlain'
<1>1. CASE UNCHANGED osvVars
    BY <1>1 DEF osvVars, OsvPlain, SequenceAfter
<1>2. CASE Tick
    BY <1>2, OsvPublisherAssumption DEF Tick, OsvPlain, SequenceAfter
<1>3. ASSUME NEW r \in OsvIds, NEW modified \in 1 .. LastChange, NEW withdrawn \in BOOLEAN,
             Change(r, modified, withdrawn)
      PROVE  OsvPlain'
    <2>1. r \notin removed /\ UNCHANGED <<sourceTime, removed, osvState, osvRun>>
          /\ DOMAIN listing' = DOMAIN listing \cup {r}
        BY <1>3 DEF Change, WithEntry
    <2> QED
        BY <2>1 DEF OsvPlain, SequenceAfter
<1>4. ASSUME NEW r \in OsvIds, DropRecord(r)
      PROVE  OsvPlain'
    <2>1. r \in DOMAIN listing /\ removed' = removed \cup {r}
          /\ UNCHANGED <<sourceTime, osvState, osvRun>>
          /\ DOMAIN listing' = DOMAIN listing \ {r}
        BY <1>4 DEF DropRecord, Restrict
    <2> QED
        BY <2>1 DEF OsvPlain, SequenceAfter
<1>5. ASSUME NEW full \in BOOLEAN, StartRun(full)
      PROVE  OsvPlain'
    <2>1. SequenceAfter(osvState) \in 1 .. MaxBundles
        BY <1>5, OsvPublisherAssumption DEF StartRun, SequenceAfter, OsvPlain
    <2>2. osvRun'.at = "index" /\ osvRun'.state = osvState
          /\ UNCHANGED <<sourceTime, listing, removed, osvState>>
        BY <1>5 DEF StartRun
    <2> QED
        BY <2>1, <2>2 DEF OsvPlain, SequenceAfter
<1>6. CASE ReadIndex
    <2>1. osvRun.at = "index" /\ osvRun'.at = "records" /\ osvRun'.state = osvRun.state
          /\ UNCHANGED <<sourceTime, listing, removed, osvState>>
        BY <1>6 DEF ReadIndex
    <2> QED
        BY <2>1 DEF OsvPlain, SequenceAfter
<1>7. ASSUME NEW r \in OsvIds, FetchRecord(r)
      PROVE  OsvPlain'
    <2>1. osvRun.at = "records" /\ osvRun'.at = "records" /\ osvRun'.state = osvRun.state
          /\ UNCHANGED <<sourceTime, listing, removed, osvState>>
        BY <1>7 DEF FetchRecord
    <2> QED
        BY <2>1 DEF OsvPlain, SequenceAfter
<1>8. CASE Publish
    <2>1. osvRun.at = "records" /\ osvRun'.at = "state"
          /\ osvRun'.bundle.sequence = SequenceAfter(osvRun.state)
          /\ UNCHANGED <<sourceTime, listing, removed, osvState>>
        BY <1>8 DEF Publish
    <2> QED
        BY <2>1 DEF OsvPlain
<1>9. CASE write_publisher_state
    <2>1. osvRun.at = "state" /\ osvRun'.at = "none"
          /\ osvState'.sequence = osvRun.bundle.sequence
          /\ UNCHANGED <<sourceTime, listing, removed>>
        BY <1>9 DEF write_publisher_state, NoOsvRun
    <2> QED
        BY <2>1 DEF OsvPlain
<1>10. CASE EndOsvRun
    BY <1>10 DEF EndOsvRun, NoOsvRun, OsvPlain
<1> QED
    BY <1>1, <1>2, <1>3, <1>4, <1>5, <1>6, <1>7, <1>8, <1>9, <1>10 DEF OsvNext

LEMMA OsvPlainFirst == OsvInit => OsvPlain
BY OsvPublisherAssumption DEF OsvInit, OsvPlain, NoOsvRun, NoRecords

LEMMA OsvTyping ==
    ASSUME OsvInv, OsvPlain
    PROVE  OsvTypeOK
<1>1. IsListing(listing)
    BY DEF OsvInv, SourceFits, RecordsFit
<1>2. removed \subseteq OsvIds \ DOMAIN listing
    BY DEF OsvPlain
<1>3. ASSUME osvState # NoOsvState
      PROVE  osvState.sequence \in 1 .. MaxBundles /\ IsListing(osvState.records)
    <2>1. StateFits
        BY DEF OsvInv
    <2> QED
        BY <1>3, <2>1 DEF StateFits, RecordsFit, OsvPlain
<1> QED
    BY <1>1, <1>2, <1>3 DEF OsvPlain, OsvTypeOK

--------------------------------------------------------------------------------
(* The mirror: how far the sequences of what it holds may go.              *)

\* An index that the readers of a mirror accept, with sequences up to n.
UpTo(index, n) ==
    /\ index \in Seq([sequence : 1 .. n, release : SourceReleases])
    /\ Len(index) \in 1 .. RetainPrior + 1
    /\ \A i, j \in 1 .. Len(index) : i < j =>
          /\ index[i].sequence < index[j].sequence
          /\ index[i].release # index[j].release

\* How far the sequences of the n-th mirror go.
Reach(n) == MaxTime + n
NewestReach == Reach(Len(deployed))

\* Every mirror has room for one sequence more than the one before it, and a run that would
\* deploy another has found that there may be one.
MirrorPlain ==
    /\ serving \in 0 .. Len(deployed)
    /\ Len(deployed) <= MaxDeployments
    /\ \A i \in 1 .. Len(deployed) : UpTo(deployed[i], Reach(i))
    /\ bootstrap \in BOOLEAN
    /\ publication.at \in {"idle", "index", "signature", "artifacts", "continuity", "floor",
                           "bundle", "build", "deploy", "save"}
    /\ publication.at \notin {"idle", "save"} => Len(deployed) < MaxDeployments
    /\ publication.at = "bundle" => publication.floor \in 1 .. NewestReach
    /\ publication.at = "build" =>
          /\ publication.new \in Numbered
          /\ publication.new.sequence \in 1 .. NewestReach + 1
    /\ publication.at = "deploy" => UpTo(publication.built, NewestReach + 1)

LEMMA MirrorPlainFirst == MirrorInit => MirrorPlain
<1> SUFFICES ASSUME MirrorInit PROVE MirrorPlain
    OBVIOUS
<1>1. /\ Len(deployed) = 0 /\ serving = 0 /\ bootstrap = TRUE /\ publication.at = "idle"
    BY DEF MirrorInit, Idle
<1> QED
    BY <1>1, MirrorAssumption DEF MirrorPlain

\* A mirror may hold higher sequences.
LEMMA UpToMore ==
    ASSUME NEW index, NEW n \in Nat, NEW m \in Nat, n <= m, UpTo(index, n)
    PROVE  UpTo(index, m)
<1>1. [sequence : 1 .. n, release : SourceReleases] \subseteq [sequence : 1 .. m, release : SourceReleases]
    OBVIOUS
<1>2. index \in Seq([sequence : 1 .. m, release : SourceReleases])
    BY <1>1, SeqMonotonic DEF UpTo
<1> QED
    BY <1>2 DEF UpTo

\* The next mirror over one that is deployed, or over none.
LEMMA BuiltUpTo ==
    ASSUME NEW index, NEW n \in Nat, index = NoMirror \/ UpTo(index, n),
           NEW new \in Numbered, new.sequence \in 1 .. n + 1, MayBuild(index, new)
    PROVE  UpTo(LastOf(RetainPrior + 1, Append(index, new)), n + 1)
<1> DEFINE T == [sequence : 1 .. n + 1, release : SourceReleases]
           all == Append(index, new)
           built == LastOf(RetainPrior + 1, all)
<1>1. new \in T
    BY DEF Numbered
<1>2. index \in Seq(T) /\ Len(index) \in Nat
    <2>1. CASE index = NoMirror
        BY <2>1 DEF NoMirror
    <2>2. CASE UpTo(index, n)
        <3>1. UpTo(index, n + 1)
            BY <2>2, UpToMore
        <3> QED
            BY <3>1 DEF UpTo
    <2> QED
        BY <2>1, <2>2
<1>3. \A i, j \in 1 .. Len(index) : i < j =>
          index[i].sequence < index[j].sequence /\ index[i].release # index[j].release
    BY DEF UpTo, NoMirror
<1>4. \A i \in 1 .. Len(index) : index[i] \in T /\ index[i].sequence \in 1 .. n + 1
    <2>1. \A i \in 1 .. Len(index) : index[i] \in T
        BY <1>2, ElementOfSeq
    <2> QED
        BY <2>1
<1>5. \A i \in 1 .. Len(index) :
          index[i].sequence < new.sequence /\ index[i].release # new.release
    <2> SUFFICES ASSUME NEW i \in 1 .. Len(index)
                 PROVE  index[i].sequence < new.sequence /\ index[i].release # new.release
        OBVIOUS
    <2>1. index # NoMirror /\ Len(index) \in 1 .. Len(index)
        BY <1>2 DEF NoMirror
    <2>2. new.sequence > index[Len(index)].sequence
        BY <2>1 DEF MayBuild, LatestSequence
    <2>3. index[i].sequence <= index[Len(index)].sequence
        BY <1>2, <1>3, <1>4, <2>1
    <2>4. index[i].release # new.release
        BY <1>2 DEF MayBuild, CatalogsOf
    <2> QED
        BY <1>4, <2>1, <2>2, <2>3, <2>4
<1>6. /\ all \in Seq(T) /\ Len(all) = Len(index) + 1 /\ all[Len(index) + 1] = new
      /\ \A i \in 1 .. Len(index) : all[i] = index[i]
    BY <1>1, <1>2
<1>7. \A i, j \in 1 .. Len(all) : i < j =>
          all[i].sequence < all[j].sequence /\ all[i].release # all[j].release
    <2> SUFFICES ASSUME NEW i \in 1 .. Len(all), NEW j \in 1 .. Len(all), i < j
                 PROVE  all[i].sequence < all[j].sequence /\ all[i].release # all[j].release
        OBVIOUS
    <2>1. i \in 1 .. Len(index) /\ (j \in 1 .. Len(index) \/ j = Len(index) + 1)
        BY <1>2, <1>6
    <2> QED
        BY <1>3, <1>5, <1>6, <2>1
<1> HIDE DEF T, all
<1>8. RetainPrior + 1 \in Nat \ {0} /\ Len(all) \in Nat \ {0}
    BY <1>2, <1>6, MirrorAssumption
<1>9. /\ built \in Seq(T) /\ Len(built) \in 1 .. Len(all)
      /\ \A i \in 1 .. Len(built) : built[i] = all[i + (Len(all) - Len(built))]
    <2> HIDE DEF built
    <2>1. Len(all) > 0
        BY <1>8
    <2>2. /\ LastOf(RetainPrior + 1, all) \in Seq(T)
          /\ Len(LastOf(RetainPrior + 1, all)) \in 1 .. Len(all)
          /\ \A i \in 1 .. Len(LastOf(RetainPrior + 1, all)) :
                LastOf(RetainPrior + 1, all)[i]
                    = all[i + (Len(all) - Len(LastOf(RetainPrior + 1, all)))]
        BY <1>6, <1>8, <2>1, LastOfIs
    <2> QED
        BY <2>2 DEF built
<1>10. Len(built) \in 1 .. RetainPrior + 1
    <2>1. CASE Len(all) <= RetainPrior + 1
        BY <1>8, <1>9, <2>1
    <2>2. CASE ~(Len(all) <= RetainPrior + 1)
        <3>1. built = SubSeq(all, Len(all) - (RetainPrior + 1) + 1, Len(all))
            BY <2>2 DEF LastOf
        <3>2. Len(all) - (RetainPrior + 1) + 1 \in 1 .. Len(all)
            BY <1>8, <2>2
        <3> DEFINE first == Len(all) - (RetainPrior + 1) + 1
        <3>3. Len(SubSeq(all, first, Len(all))) = Len(all) - first + 1
            BY <1>6, <1>8, <3>2
        <3> QED
            BY <1>8, <3>1, <3>3
    <2> QED
        BY <2>1, <2>2
<1> HIDE DEF built
<1>11. \A i, j \in 1 .. Len(built) : i < j =>
          built[i].sequence < built[j].sequence /\ built[i].release # built[j].release
    <2> SUFFICES ASSUME NEW i \in 1 .. Len(built), NEW j \in 1 .. Len(built), i < j
                 PROVE  built[i].sequence < built[j].sequence /\ built[i].release # built[j].release
        OBVIOUS
    <2> DEFINE a == i + (Len(all) - Len(built))
               b == j + (Len(all) - Len(built))
    <2>1. a \in 1 .. Len(all) /\ b \in 1 .. Len(all) /\ a < b
        BY <1>8, <1>9
    <2>2. built[i] = all[a] /\ built[j] = all[b]
        BY <1>9
    <2> HIDE DEF a, b
    <2> QED
        BY <1>7, <2>1, <2>2
<1> QED
    BY <1>9, <1>10, <1>11 DEF UpTo, T, built, all

\* The newest sequence of a deployed mirror.
LEMMA LatestUpTo ==
    ASSUME NEW index, NEW n \in Nat, UpTo(index, n)
    PROVE  LatestSequence(index) \in 1 .. n
<1>1. Len(index) \in 1 .. Len(index) /\ index \in Seq([sequence : 1 .. n, release : SourceReleases])
    BY MirrorAssumption DEF UpTo
<1>2. index[Len(index)] \in [sequence : 1 .. n, release : SourceReleases]
    BY <1>1, ElementOfSeq
<1> QED
    BY <1>2 DEF LatestSequence

LEMMA MirrorPlainKept ==
    ASSUME MirrorInv, MirrorPlain, [MirrorNext]_mirrorVars
    PROVE  MirrorPlain'
<1>1. /\ deployed \in Seq(Mirrors) /\ Len(deployed) \in Nat /\ DOMAIN deployed = 1 .. Len(deployed)
      /\ {MaxTime, MaxDeployments, RetainPrior} \subseteq Nat
    BY MirrorAssumption DEF MirrorInv, MirrorTyped
<1>2. NewestReach \in Nat /\ \A i \in 1 .. Len(deployed) : Reach(i) \in Nat /\ Reach(i) <= NewestReach
    BY <1>1 DEF Reach, NewestReach
<1>3. RunKnows
    BY DEF MirrorInv
\* The mirrors stay, and the run goes on.
<1>4. ASSUME UNCHANGED <<deployed, serving>>, bootstrap' \in BOOLEAN,
             publication'.at \in {"idle", "index", "signature", "artifacts", "continuity", "floor",
                                  "bundle", "build", "deploy"},
             publication'.at # "idle" => Len(deployed) < MaxDeployments,
             publication'.at = "bundle" => publication'.floor \in 1 .. NewestReach,
             publication'.at = "build" =>
                 /\ publication'.new \in Numbered
                 /\ publication'.new.sequence \in 1 .. NewestReach + 1,
             publication'.at = "deploy" => UpTo(publication'.built, NewestReach + 1)
      PROVE  MirrorPlain'
    <2>1. NewestReach' = NewestReach /\ \A i \in 1 .. Len(deployed) : UpTo(deployed[i], Reach(i))'
        BY <1>4 DEF MirrorPlain, UpTo, Reach, NewestReach
    <2>2. publication'.at = "deploy" => UpTo(publication.built, NewestReach + 1)'
        BY <1>4, <2>1 DEF UpTo
    <2> QED
        BY <1>4, <2>1, <2>2 DEF MirrorPlain
<1>5. ASSUME UNCHANGED <<deployed, publication>>, bootstrap' \in BOOLEAN,
             serving' \in 0 .. Len(deployed)
      PROVE  MirrorPlain'
    <2>1. NewestReach' = NewestReach /\ \A i \in 1 .. Len(deployed) : UpTo(deployed[i], Reach(i))'
        BY <1>5 DEF MirrorPlain, UpTo, Reach, NewestReach
    <2>2. publication'.at = "deploy" => UpTo(publication.built, NewestReach + 1)'
        BY <1>5, <2>1 DEF UpTo, MirrorPlain
    <2> QED
        BY <1>5, <2>1, <2>2 DEF MirrorPlain
<1>6. CASE UNCHANGED mirrorVars
    <2>1. UNCHANGED <<deployed, serving, bootstrap, publication>>
        BY <1>6 DEF mirrorVars
    <2> QED
        BY <1>5, <2>1 DEF MirrorPlain
<1>7. ASSUME NEW boot \in BOOLEAN, StartPublication(boot)
      PROVE  MirrorPlain'
    <2>1. UNCHANGED <<deployed, serving, bootstrap>> /\ Len(deployed) < MaxDeployments
          /\ publication'.at \in {"index", "floor"}
        BY <1>7 DEF StartPublication
    <2> QED
        BY <1>4, <2>1 DEF MirrorPlain
<1>8. CASE EndPublication
    <2>1. UNCHANGED <<deployed, serving, bootstrap>> /\ publication'.at = "idle"
        BY <1>8 DEF EndPublication, Idle
    <2> QED
        BY <1>4, <2>1 DEF MirrorPlain
<1>9. CASE CopyIndex \/ CopySignature \/ CopyCatalog
    <2>1. /\ UNCHANGED <<deployed, serving, bootstrap>>
          /\ publication'.at \in {"idle", "signature", "artifacts", "continuity"}
          /\ publication.at \in {"index", "signature", "artifacts"}
        BY <1>9 DEF CopyIndex, CopySignature, CopyCatalog, Idle
    <2> QED
        BY <1>4, <2>1 DEF MirrorPlain
<1>10. ASSUME NEW time \in 1 .. MaxTime, CheckContinuity(time)
       PROVE  MirrorPlain'
    <2>1. /\ UNCHANGED <<deployed, serving, bootstrap>> /\ publication.at = "continuity"
          /\ \/ publication'.at = "idle"
             \/ /\ publication'.at = "bundle"
                /\ publication'.floor = SequenceFloor(publication.index, time)
        BY <1>10 DEF CheckContinuity, Idle
    <2>2. PICK k \in 1 .. Len(deployed) : publication.index = deployed[k]
        BY <1>1, <1>3, <2>1 DEF RunKnows, IsDeployed
    <2>3. UpTo(publication.index, Reach(k))
        BY <2>2 DEF MirrorPlain
    <2>4. LatestSequence(publication.index) \in 1 .. Reach(k)
        BY <1>2, <2>2, <2>3, LatestUpTo
    <2>5. SequenceFloor(publication.index, time) \in 1 .. NewestReach
        BY <1>1, <1>2, <2>4 DEF SequenceFloor, Higher, NewestReach, Reach
    <2> QED
        BY <1>4, <2>1, <2>5 DEF MirrorPlain
<1>11. ASSUME NEW time \in 1 .. MaxTime, FirstFloor(time)
       PROVE  MirrorPlain'
    <2>1. /\ UNCHANGED <<deployed, serving, bootstrap>> /\ publication.at = "floor"
          /\ publication'.at = "bundle" /\ publication'.floor = time
        BY <1>11 DEF FirstFloor
    <2>2. time \in 1 .. NewestReach
        BY <1>1 DEF NewestReach, Reach
    <2> QED
        BY <1>4, <2>1, <2>2 DEF MirrorPlain
<1>12. ASSUME NEW release \in SourceReleases, PublishBundle(release)
       PROVE  MirrorPlain'
    <2>1. /\ UNCHANGED <<deployed, serving, bootstrap>> /\ publication.at = "bundle"
          /\ publication'.at = "build"
          /\ publication'.new = [sequence |-> publication.floor + 1, release |-> release]
        BY <1>12 DEF PublishBundle
    <2>2. publication.floor \in 1 .. NewestReach /\ Len(deployed) < MaxDeployments
        BY <2>1 DEF MirrorPlain
    <2>3. publication.floor + 1 \in 1 .. NewestReach + 1
        BY <1>2, <2>2
    <2>4. publication'.new \in Numbered /\ publication'.new.sequence \in 1 .. NewestReach + 1
        BY <2>1, <2>3 DEF Numbered
    <2> QED
        BY <1>4, <2>1, <2>2, <2>4 DEF MirrorPlain
<1>13. CASE build_advisory_mirror
    <2>1. /\ UNCHANGED <<deployed, serving, bootstrap>> /\ publication.at = "build"
          /\ \/ publication'.at = "idle"
             \/ /\ publication'.at = "deploy" /\ MayBuild(publication.index, publication.new)
                /\ publication'.built =
                      LastOf(RetainPrior + 1, Append(publication.index, publication.new))
        BY <1>13 DEF build_advisory_mirror, Idle
    <2>2. /\ publication.new \in Numbered /\ publication.new.sequence \in 1 .. NewestReach + 1
          /\ Len(deployed) < MaxDeployments
        BY <2>1 DEF MirrorPlain
    <2>3. publication.index = NoMirror \/ UpTo(publication.index, NewestReach)
        <3>1. Grounded(publication.index)
            BY <1>3, <2>1 DEF RunKnows
        <3>2. ASSUME publication.index # NoMirror
              PROVE  UpTo(publication.index, NewestReach)
            <4>1. PICK k \in 1 .. Len(deployed) : publication.index = deployed[k]
                BY <1>1, <3>1, <3>2 DEF Grounded, IsDeployed
            <4>2. UpTo(deployed[k], Reach(k))
                BY DEF MirrorPlain
            <4> QED
                BY <1>2, <4>1, <4>2, UpToMore
        <3> QED
            BY <3>2
    <2>4. publication'.at = "deploy" => UpTo(publication'.built, NewestReach + 1)
        BY <1>2, <2>1, <2>2, <2>3, BuiltUpTo
    <2> QED
        BY <1>4, <2>1, <2>2, <2>4 DEF MirrorPlain
<1>14. CASE Deploy
    <2>1. /\ publication.at = "deploy" /\ deployed' = Append(deployed, publication.built)
          /\ serving' = Len(deployed') /\ publication'.at = "save" /\ bootstrap' = bootstrap
        BY <1>14 DEF Deploy
    <2>2. UpTo(publication.built, NewestReach + 1) /\ Len(deployed) < MaxDeployments
        BY <2>1 DEF MirrorPlain
    <2>3. /\ Len(deployed') = Len(deployed) + 1 /\ deployed'[Len(deployed) + 1] = publication.built
          /\ \A i \in 1 .. Len(deployed) : deployed'[i] = deployed[i]
        BY <1>1, <2>1
    <2>4. Reach(Len(deployed) + 1) = NewestReach + 1
        BY <1>1 DEF Reach, NewestReach
    <2>5. \A i \in 1 .. Len(deployed) : UpTo(deployed[i], Reach(i))
        BY DEF MirrorPlain
    <2>6. \A i \in 1 .. Len(deployed') : UpTo(deployed'[i], Reach(i))
        BY <1>1, <2>2, <2>3, <2>4, <2>5
    <2>7. \A i \in 1 .. Len(deployed') : UpTo(deployed[i], Reach(i))'
        BY <2>6 DEF UpTo, Reach
    <2>8. Len(deployed') <= MaxDeployments /\ serving' \in 0 .. Len(deployed')
        BY <1>1, <2>1, <2>2, <2>3
    <2> QED
        BY <2>1, <2>7, <2>8 DEF MirrorPlain
<1>15. CASE SaveCheckpoint
    <2>1. UNCHANGED <<deployed, serving, bootstrap>> /\ publication'.at = "idle"
        BY <1>15 DEF SaveCheckpoint, Idle
    <2> QED
        BY <1>4, <2>1 DEF MirrorPlain
<1>16. ASSUME NEW i \in DOMAIN deployed, HostServes(i)
       PROVE  MirrorPlain'
    <2>1. UNCHANGED <<deployed, bootstrap, publication>> /\ serving' \in 0 .. Len(deployed)
        BY <1>1, <1>16 DEF HostServes
    <2> QED
        BY <1>5, <2>1 DEF MirrorPlain
<1>17. CASE EvictCheckpoint \/ RestoreCheckpoint \/ DisableBootstrap
    <2>1. UNCHANGED <<deployed, serving, publication>> /\ bootstrap' \in BOOLEAN
        BY <1>17 DEF EvictCheckpoint, RestoreCheckpoint, DisableBootstrap, MirrorPlain
    <2> QED
        BY <1>5, <2>1 DEF MirrorPlain
<1> HIDE DEF MirrorPlain
<1> QED
    BY <1>6, <1>7, <1>8, <1>9, <1>10, <1>11, <1>12, <1>13, <1>14, <1>15, <1>16, <1>17
    DEF MirrorNext

LEMMA MirrorTyping ==
    ASSUME MirrorInv, MirrorPlain
    PROVE  MirrorTypeOK
<1>1. /\ deployed \in Seq(Mirrors) /\ Len(deployed) \in Nat /\ DOMAIN deployed = 1 .. Len(deployed)
      /\ {MaxTime, MaxDeployments, RetainPrior} \subseteq Nat
    BY MirrorAssumption DEF MirrorInv, MirrorTyped
<1>2. ASSUME NEW i \in DOMAIN deployed
      PROVE  IsIndex(deployed[i])
    <2>1. UpTo(deployed[i], Reach(i)) /\ Reach(i) \in Nat /\ MaxMirrorSequence \in Nat
          /\ Reach(i) <= MaxMirrorSequence
        BY <1>1 DEF MirrorPlain, Reach, MaxMirrorSequence
    <2>2. UpTo(deployed[i], MaxMirrorSequence)
        BY <2>1, UpToMore
    <2>3. deployed[i] \in Seq(Catalog) /\ DOMAIN deployed[i] = 1 .. Len(deployed[i])
        BY <2>2 DEF UpTo, Catalog
    <2> QED
        BY <2>2, <2>3 DEF UpTo, IsIndex
<1>3. checkpoint = NoMirror \/ \E i \in DOMAIN deployed : checkpoint = deployed[i]
    BY DEF MirrorInv, MirrorTyped, IsDeployed
<1>4. saved \subseteq DOMAIN deployed
    BY DEF MirrorInv, MirrorTyped
<1> QED
    BY <1>2, <1>3, <1>4 DEF MirrorPlain, MirrorTypeOK

--------------------------------------------------------------------------------
(* The migrations and the inventory.                                       *)

\* Nothing is recorded, or applied, before there is a registry.
SchemaPlain ==
    /\ DOMAIN objects = Objects
    /\ registry \in BOOLEAN
    /\ ~registry => ledger = <<>>
    /\ \A p \in Processes : IsAt(p, "applying") => registry

LEMMA SchemaPlainFirst == MigrationInit => SchemaPlain
<1> SUFFICES ASSUME MigrationInit PROVE SchemaPlain
    OBVIOUS
<1>1. objects \in Databases /\ DOMAIN objects = Objects
    BY SchemaConstants DEF MigrationInit
<1>2. registry \in BOOLEAN /\ ledger = <<>>
    BY DEF MigrationInit
<1>3. \A p \in Processes : ~IsAt(p, "applying")
    BY DEF MigrationInit, IsAt, Off
<1> QED
    BY <1>1, <1>2, <1>3 DEF SchemaPlain

LEMMA SchemaPlainKept ==
    ASSUME SchemaInv, SchemaPlain, [MigrationNext]_migrationVars
    PROVE  SchemaPlain'
<1>1. runner \in [Processes -> {Off} \cup Running]
    BY DEF SchemaInv, SchemaTyped
<1>2. ASSUME NEW p \in Processes, UNCHANGED <<objects, ledger, registry>>,
             runner' = [runner EXCEPT ![p] = runner'[p]], runner'[p].pc # "applying"
      PROVE  SchemaPlain'
    <2>1. \A q \in Processes : IsAt(q, "applying")' => IsAt(q, "applying")
        BY <1>1, <1>2 DEF IsAt
    <2> QED
        BY <1>2, <2>1 DEF SchemaPlain
<1>3. CASE UNCHANGED migrationVars
    BY <1>3 DEF migrationVars, SchemaPlain, IsAt
<1>4. ASSUME NEW p \in Processes, NEW r \in Releases, StartUp(p, r)
      PROVE  SchemaPlain'
    <2>1. runner' = [runner EXCEPT ![p] = runner'[p]] /\ runner'[p].pc = "waiting"
        BY <1>1, <1>4 DEF StartUp
    <2> QED
        BY <1>2, <1>4, <2>1 DEF StartUp, SchemaStays
<1>5. ASSUME NEW p \in Processes, TryLock(p)
      PROVE  SchemaPlain'
    <2>1. runner[p] \in Running
        BY <1>1, <1>5 DEF TryLock, IsAt, Off
    <2>2. runner' = [runner EXCEPT ![p] = runner'[p]] /\ runner'[p].pc = "locked"
        BY <1>1, <1>5, <2>1 DEF TryLock, Running
    <2> QED
        BY <1>2, <1>5, <2>2 DEF TryLock, SchemaStays
<1>6. ASSUME NEW p \in Processes, NEW pc \in {"off", "ready", "failed"}, ~IsAt(p, "off"),
             StopAs(p, pc), SchemaStays
      PROVE  SchemaPlain'
    <2>1. runner'[p].pc = pc
        BY <1>6, StopKeeps DEF SchemaInv
    <2>2. runner' = [runner EXCEPT ![p] = runner'[p]]
        BY <1>1, <1>6 DEF StopAs
    <2> QED
        BY <1>2, <1>6, <2>1, <2>2 DEF SchemaStays
<1>7. ASSUME NEW p \in Processes, LockTimeout(p) \/ InspectFails(p) \/ ApplyFails(p)
      PROVE  SchemaPlain'
    BY <1>6, <1>7 DEF LockTimeout, InspectFails, ApplyFails, IsAt
<1>8. ASSUME NEW p \in Processes, FinalCheck(p)
      PROVE  SchemaPlain'
    BY <1>6, <1>8 DEF FinalCheck, IsAt
<1>9. ASSUME NEW p \in Processes, Exit(p)
      PROVE  SchemaPlain'
    BY <1>6, <1>9 DEF Exit
<1>10. ASSUME NEW p \in Processes, Inspect(p)
       PROVE  SchemaPlain'
    BY <1>10 DEF Inspect, SchemaPlain
<1>11. ASSUME NEW p \in Processes, ApplyMigration(p)
       PROVE  SchemaPlain'
    <2>1. registry /\ registry' = registry
        BY <1>11 DEF ApplyMigration, SchemaPlain
    <2>2. DOMAIN objects' = Objects
        BY <1>11 DEF ApplyMigration, Execute
    <2> QED
        BY <2>1, <2>2 DEF SchemaPlain
<1> QED
    BY <1>3, <1>4, <1>5, <1>7, <1>8, <1>9, <1>10, <1>11 DEF MigrationNext

LEMMA SchemaTyping ==
    ASSUME SchemaInv, SchemaPlain
    PROVE  MigrationTypeOK
<1>1. SchemaTyped
    BY DEF SchemaInv
<1>2. \A p \in Processes :
         runner[p].pc \in {"off", "waiting", "locked", "applying", "ready", "failed"}
    BY <1>1 DEF SchemaTyped, Off, Running
<1> QED
    BY <1>1, <1>2 DEF SchemaTyped, SchemaPlain, MigrationTypeOK

\* A presence is of a report.
ComponentPlain ==
    /\ \A c \in Components, n \in NativeSources :
          presence[c][n] = NoPresence \/ presence[c][n].at > 0
    /\ firstRaced \subseteq Components

LEMMA ComponentPlainFirst == ComponentInit => ComponentPlain
BY DEF ComponentInit, ComponentPlain

LEMMA ComponentPlainKept ==
    ASSUME ComponentInv, ComponentPlain, [ComponentNext]_componentVars
    PROVE  ComponentPlain'
<1>1. CASE UNCHANGED componentVars
    BY <1>1 DEF componentVars, ComponentPlain
<1>2. ASSUME UNCHANGED <<presence, firstRaced>>
      PROVE  ComponentPlain'
    BY <1>2 DEF ComponentPlain
<1>3. ASSUME NEW p \in Projections, Upsert(p)
      PROVE  ComponentPlain'
    <2>1. projection[p].pc = "upsert" /\ presence' = presence
          /\ firstRaced' \subseteq firstRaced \cup {Head(projection[p].left)}
        BY <1>3 DEF Upsert
    <2>2. projection[p] # NoProjection
        BY <2>1 DEF NoProjection
    <2>3. TaskFits(projection[p], component, firstRaced)
        BY <2>2 DEF ComponentInv, TasksFit
    <2>4. projection[p].left \in Seq(Components) /\ projection[p].left # <<>>
        BY <2>1, <2>3 DEF TaskFits
    <2>5. Head(projection[p].left) \in Components
        BY <2>4, HeadTailProperties
    <2> QED
        BY <2>1, <2>5 DEF ComponentPlain
<1>4. ASSUME NEW p \in Projections, CommitNative(p)
      PROVE  ComponentPlain'
    <2> DEFINE r == projection[p].report
    <2>1. r \in Reports
        BY <1>4, CommitFacts DEF CommitNative
    <2>2. r.at \in Nat /\ r.at > 0
        BY <2>1, ReportFacts
    <2>3. ASSUME NEW c \in Components, NEW n \in NativeSources
          PROVE  presence'[c][n] = NoPresence \/ presence'[c][n].at > 0
        <3>1. presence'[c][n] = IF c \in Withdrawn(r, n)
                                THEN [active |-> FALSE, at |-> presence[c][n].at, gone |-> r.at]
                                ELSE Present(presence[c][n], r, n, c)
            BY <1>4 DEF CommitNative
        <3>2. presence[c][n] \in [active : BOOLEAN, at : Nat, gone : Nat]
              /\ (presence[c][n] = NoPresence \/ presence[c][n].at > 0)
            BY DEF ComponentInv, PresenceFollows, ComponentPlain
        <3> HIDE DEF r
        <3>3. CASE c \in Withdrawn(r, n)
            <4>1. presence[c][n].active
                BY <3>3 DEF Withdrawn
            <4>2. presence[c][n].at > 0
                BY <3>2, <4>1 DEF NoPresence
            <4> QED
                BY <3>1, <3>3, <4>2
        <3>4. CASE c \notin Withdrawn(r, n)
            <4>1. presence'[c][n] = Present(presence[c][n], r, n, c)
                BY <3>1, <3>4
            <4> QED
                BY <2>2, <3>2, <4>1 DEF Present, LaterOf
        <3> QED
            BY <3>3, <3>4
    <2>4. firstRaced' = firstRaced
        BY <1>4 DEF CommitNative
    <2> QED
        BY <2>3, <2>4 DEF ComponentPlain
<1>5. ASSUME NEW p \in Projections,
             \/ \E r \in Reports : BeginProjection(p, r)
             \/ ReadRow(p) \/ RollBackProjection(p) \/ CommitPartial(p) \/ CommitComplete(p)
      PROVE  ComponentPlain'
    <2>1. UNCHANGED <<presence, firstRaced>>
        BY <1>5 DEF BeginProjection, ReadRow, RollBackProjection, CommitPartial, CommitComplete,
                    StoresStay
    <2> QED
        BY <1>2, <2>1
<1> QED
    BY <1>1, <1>3, <1>4, <1>5 DEF ComponentNext, ProjectionStep

\* No two of a set.
LEMMA AtMostOne ==
    ASSUME NEW S, \A x, y \in S : x = y
    PROVE  Cardinality(S) <= 1
<1>1. CASE S = {}
    BY <1>1, FS_EmptySet
<1>2. ASSUME NEW x \in S
      PROVE  Cardinality(S) <= 1
    <2>1. S = {x}
        BY <1>2
    <2> QED
        BY <2>1, FS_Singleton
<1> QED
    BY <1>1, <1>2

LEMMA ComponentTyping ==
    ASSUME ComponentInv, ComponentPlain
    PROVE  ComponentTypeOK
<1>1. ASSUME NEW c \in Components
      PROVE  /\ component[c].active => component[c].at > 0
             /\ presence[c] \in [NativeSources -> {NoPresence} \cup
                   [active : BOOLEAN, at : Nat \ {0}, gone : Nat]]
    <2>1. component[c].active => component[c] # NoRow
        BY DEF NoRow
    <2>2. component[c].active => component[c].at > 0
        BY <2>1 DEF ComponentInv, RowsFollow
    <2>3. presence[c] = [n \in NativeSources |-> presence[c][n]]
        BY DEF ComponentInv, StoresAreMaps
    <2>4. ASSUME NEW n \in NativeSources
          PROVE  presence[c][n] \in {NoPresence} \cup [active : BOOLEAN, at : Nat \ {0}, gone : Nat]
        <3>1. presence[c][n] \in [active : BOOLEAN, at : Nat, gone : Nat]
            BY DEF ComponentInv, PresenceFollows
        <3>2. presence[c][n] = NoPresence \/ presence[c][n].at > 0
            BY DEF ComponentPlain
        <3> QED
            BY <3>1, <3>2
    <2> QED
        BY <2>2, <2>3, <2>4
<1>2. ASSUME NEW n \in NativeSources
      PROVE  attempt[n] \subseteq Reports /\ Cardinality(attempt[n]) <= 1
    <2>1. attempt[n] \subseteq applied /\ applied \subseteq Reports
          /\ \A last \in attempt[n], r \in applied : r = last \/ r.at < last.at
        BY DEF ComponentInv, NativeInOrder, Native
    <2>2. \A x, y \in attempt[n] : x = y
        <3> SUFFICES ASSUME NEW x \in attempt[n], NEW y \in attempt[n], x # y
                     PROVE  FALSE
            OBVIOUS
        <3>1. x.at < y.at /\ y.at < x.at
            BY <2>1
        <3>2. x.at \in Nat /\ y.at \in Nat
            BY <2>1, ReportFacts
        <3> QED
            BY <3>1, <3>2
    <2> QED
        BY <2>1, <2>2, AtMostOne
<1>3. applied \subseteq Reports /\ dismissed \cup firstRaced \subseteq Components
    BY DEF ComponentInv, NativeInOrder, Native, StoresAreMaps, ComponentPlain
<1>4. ASSUME NEW c \in Components
      PROVE  Cardinality(Held(c)) <= 1
    <2>1. \A p, q \in Held(c) : p = q
        BY DEF ComponentInv, TasksFit
    <2> QED
        BY <2>1, AtMostOne
<1>5. ASSUME NEW p \in Projections, projection[p] # NoProjection
      PROVE  projection[p].report \in Reports /\ projection[p].locks \subseteq Components
    <2>1. TaskFits(projection[p], component, firstRaced)
        BY <1>5 DEF ComponentInv, TasksFit
    <2> QED
        BY <2>1 DEF TaskFits
<1> QED
    BY <1>1, <1>2, <1>3, <1>4, <1>5 DEF ComponentTypeOK

--------------------------------------------------------------------------------
(* The days and the matches.                                               *)

\* A store that commits found room for one collection more.
TemporalPlain ==
    /\ collections \in [Slots -> 0 .. MaxSameDay]
    /\ \A s \in committing : collections[s] < MaxSameDay

LEMMA TemporalPlainFirst == TemporalInit => TemporalPlain
BY TemporalConstants DEF TemporalInit, TemporalPlain

LEMMA TemporalPlainKept ==
    ASSUME TemporalInv, TemporalPlain, [TemporalNext]_temporalVars
    PROVE  TemporalPlain'
<1>1. CASE UNCHANGED temporalVars
    BY <1>1 DEF temporalVars, TemporalPlain, Slots, Days
<1>2. CASE Midnight
    BY <1>2 DEF Midnight, TemporalPlain, Slots, Days
<1>3. ASSUME NEW date \in Days, BeginStore(date)
      PROVE  TemporalPlain'
    <2>1. committing' = {<<date, today>>} /\ collections' = collections
          /\ collections[<<date, today>>] < MaxSameDay
        BY <1>3 DEF BeginStore
    <2> QED
        BY <2>1 DEF TemporalPlain, Slots, Days
<1>4. ASSUME NEW target \in Days, Tell(target)
      PROVE  TemporalPlain'
    BY <1>4 DEF Tell, TemporalPlain, Slots, Days
<1>5. ASSUME NEW s \in committing, CommitStore(s)
      PROVE  TemporalPlain'
    <2>1. s \in Slots /\ collections[s] \in 0 .. MaxSameDay /\ collections[s] < MaxSameDay
        BY DEF TemporalInv, TemporalPlain
    <2>2. collections' = [collections EXCEPT ![s] = collections[s] + 1]
          /\ committing' = committing \ {s}
        BY <1>5 DEF CommitStore
    <2>3. collections[s] + 1 \in 0 .. MaxSameDay
        BY <2>1, TemporalConstants
    <2>4. collections' \in [Slots -> 0 .. MaxSameDay]
        BY <2>2, <2>3 DEF TemporalPlain
    <2>5. \A x \in committing' : collections'[x] = collections[x] /\ x \in committing
        BY <2>2 DEF TemporalInv, TemporalPlain
    <2> QED
        BY <2>4, <2>5 DEF TemporalPlain, Slots, Days
<1> QED
    BY <1>1, <1>2, <1>3, <1>4, <1>5 DEF TemporalNext

LEMMA TemporalTyping ==
    ASSUME TemporalInv, TemporalPlain
    PROVE  TemporalTypeOK
<1>1. told.target \in 0 .. LastDay
    <2>1. CASE told = NobodyTold
        BY <2>1, TemporalConstants DEF NobodyTold
    <2>2. CASE told # NobodyTold
        <3>1. told.target \in Days
            BY <2>2 DEF TemporalInv, ToldFinal
        <3> QED
            BY <3>1 DEF Days
    <2> QED
        BY <2>1, <2>2
<1> QED
    BY <1>1 DEF TemporalInv, TemporalPlain, TemporalTypeOK

MatchStatuses == {"none", "affected", "uncertain", "not-affected", "advisory-withdrawn"}
FoundStatuses == {"affected", "uncertain", "gone", "advisory-withdrawn"}

\* What runs find, rows say and rebuilds write is of the statuses, the correlations and the
\* sites there are.
MatchPlain ==
    /\ finds \in [ComponentMatches -> {"affected", "uncertain", "gone"}]
    /\ \A m \in ComponentMatches : matchRow[m].status \in MatchStatuses
    /\ \A r \in MatchRuns : matchRun[r].pc = "read" =>
          \A m \in DOMAIN matchRun[r].found : matchRun[r].found[m] \in FoundStatuses
    /\ correlated \subseteq OfAdvisories \X CVEs
    /\ written.sites \subseteq MatchSites

LEMMA MatchPlainFirst == MatchInit => MatchPlain
<1> SUFFICES ASSUME MatchInit PROVE MatchPlain
    OBVIOUS
<1>1. finds \in [ComponentMatches -> {"affected", "uncertain", "gone"}]
    BY DEF MatchInit
<1>2. \A m \in ComponentMatches : matchRow[m].status \in MatchStatuses
    BY DEF MatchInit, Unstored, MatchStatuses
<1>3. \A r \in MatchRuns : matchRun[r].pc # "read"
    BY DEF MatchInit, NoRun
<1>4. correlated = {} /\ written.sites = {}
    BY DEF MatchInit, NothingWritten
<1> QED
    BY <1>1, <1>2, <1>3, <1>4 DEF MatchPlain

\* The sites of factors, and the correlations of a catalog.
LEMMA SitesOfFactors ==
    ASSUME NEW ids, ids \subseteq KevCatalogs \X ComponentMatches \X CVEs
    PROVE  {SiteOf[id[2]] : id \in ids} \subseteq MatchSites
BY MatchAssumption DEF MatchSites, Range

LEMMA CorrelationsAreOf ==
    ASSUME NEW catalog \in KevCatalogs
    PROVE  Correlations(catalog) \subseteq OfAdvisories \X CVEs
BY DEF Correlations, CVEs

LEMMA MatchPlainKept ==
    ASSUME MatchInv, MatchInv', MatchPlain, [MatchNext]_matchVars
    PROVE  MatchPlain'
<1>1. DOMAIN matchRun = MatchRuns
      /\ kevHeld \subseteq KevCatalogs /\ kevActive \in kevHeld \cup {NoCatalog}
      /\ (DOMAIN factor)' \subseteq KevCatalogs \X ComponentMatches \X CVEs
    BY DEF MatchInv, MatchTyped
<1>2. ASSUME UNCHANGED <<matchRow, correlated>>,
             finds' \in [ComponentMatches -> {"affected", "uncertain", "gone"}],
             written'.sites \subseteq MatchSites,
             \A r \in MatchRuns : matchRun'[r].pc = "read" =>
                \/ matchRun'[r] = matchRun[r]
                \/ \A m \in DOMAIN matchRun'[r].found : matchRun'[r].found[m] \in FoundStatuses
      PROVE  MatchPlain'
    <2>1. \A r \in MatchRuns : matchRun'[r].pc = "read" =>
             \A m \in DOMAIN matchRun'[r].found : matchRun'[r].found[m] \in FoundStatuses
        BY <1>2 DEF MatchPlain
    <2> QED
        BY <1>2, <2>1 DEF MatchPlain
<1>3. CASE UNCHANGED matchVars
    <2>1. UNCHANGED <<finds, matchRow, matchRun, correlated, written>>
        BY <1>3 DEF matchVars
    <2> QED
        BY <1>2, <2>1 DEF MatchPlain
<1>5. NothingWritten.sites \subseteq MatchSites
    BY DEF NothingWritten
<1>6. ASSUME NEW r \in MatchRuns, NEW scope \in MatchSites \cup {Everywhere}, BeginMatchRun(r, scope)
      PROVE  MatchPlain'
    <2>1. UNCHANGED <<matchRow, correlated, finds>> /\ written' = NothingWritten
        BY <1>6 DEF BeginMatchRun, factVars, kevVars
    <2>2. matchRun'[r].pc = "begun" /\ \A q \in MatchRuns \ {r} : matchRun'[q] = matchRun[q]
        BY <1>1, <1>6 DEF BeginMatchRun
    <2> QED
        BY <1>2, <1>5, <2>1, <2>2 DEF MatchPlain
<1>7. ASSUME NEW r \in MatchRuns, FailMatchRun(r)
      PROVE  MatchPlain'
    <2>1. UNCHANGED <<matchRow, correlated, finds>> /\ written' = NothingWritten
        BY <1>7 DEF FailMatchRun, factVars, kevVars
    <2>2. matchRun'[r].pc = "ended" /\ \A q \in MatchRuns \ {r} : matchRun'[q] = matchRun[q]
        BY <1>1, <1>7 DEF FailMatchRun
    <2> QED
        BY <1>2, <1>5, <2>1, <2>2 DEF MatchPlain
<1>8. \A m \in ComponentMatches : Finding(m) \in FoundStatuses
    BY DEF Finding, MatchPlain, FoundStatuses
<1>9. ASSUME NEW r \in MatchRuns, ReadInputs(r)
      PROVE  MatchPlain'
    <2> DEFINE InRun == {m \in ComponentMatches : InScope(m, matchRun[r].scope)}
               found == [m \in InRun |-> Finding(m)]
    <2>1. UNCHANGED <<matchRow, correlated, finds>> /\ written' = NothingWritten
        BY <1>9 DEF ReadInputs, factVars, kevVars
    <2>2. \A m \in DOMAIN found : found[m] \in FoundStatuses
        BY <1>8
    <2>3. matchRun'[r].found = found /\ \A q \in MatchRuns \ {r} : matchRun'[q] = matchRun[q]
        BY <1>1, <1>9 DEF ReadInputs
    <2> HIDE DEF found
    <2> QED
        BY <1>2, <1>5, <2>1, <2>2, <2>3 DEF MatchPlain
<1>10. ASSUME NEW r \in MatchRuns, ReconcileMatches(r)
       PROVE  MatchPlain'
    <2> DEFINE found == matchRun[r].found
    <2>1. /\ matchRun[r].pc = "read" /\ UNCHANGED <<correlated, finds>> /\ written'.sites = {}
          /\ matchRow' = [m \in ComponentMatches |->
                IF m \in Stored(r) THEN [status |-> found[m], at |-> matchRun[r].at]
                ELSE IF m \in Ended(r) THEN [status |-> WhenGone(m), at |-> matchRun[r].at]
                ELSE matchRow[m]]
        BY <1>10 DEF ReconcileMatches, factVars, kevVars
    <2>2. matchRun'[r].pc = "ended" /\ \A q \in MatchRuns \ {r} : matchRun'[q] = matchRun[q]
        BY <1>1, <1>10 DEF ReconcileMatches
    <2>3. \A m \in Stored(r) : found[m] \in FoundStatuses /\ found[m] # "gone"
        BY <2>1 DEF Stored, MatchPlain
    <2> HIDE DEF found
    <2>4. ASSUME NEW m \in ComponentMatches
          PROVE  matchRow'[m].status \in MatchStatuses
        <3>1. CASE m \in Stored(r)
            BY <2>1, <2>3, <3>1 DEF FoundStatuses, MatchStatuses
        <3>2. CASE m \notin Stored(r) /\ m \in Ended(r)
            BY <2>1, <3>2 DEF WhenGone, MatchStatuses
        <3>3. CASE m \notin Stored(r) /\ m \notin Ended(r)
            BY <2>1, <3>3 DEF MatchPlain
        <3> QED
            BY <3>1, <3>2, <3>3
    <2>5. \A q \in MatchRuns : matchRun'[q].pc = "read" =>
             \A m \in DOMAIN matchRun'[q].found : matchRun'[q].found[m] \in FoundStatuses
        BY <2>2 DEF MatchPlain
    <2> QED
        BY <2>1, <2>4, <2>5 DEF MatchPlain
<1>11. ASSUME NEW catalog \in KevCatalogs, NEW sites, ActivateKev(catalog, sites),
              sites \subseteq MatchSites
       PROVE  MatchPlain'
    <2>1. UNCHANGED <<matchRow, matchRun, finds>> /\ written'.sites = sites
          /\ correlated' = Correlations(catalog)
        BY <1>11 DEF ActivateKev
    <2> QED
        BY <1>11, <2>1, CorrelationsAreOf DEF MatchPlain
<1>12. ASSUME NEW catalog \in KevCatalogs, ImportKev(catalog)
       PROVE  MatchPlain'
    <2>1. SitesOfChange(catalog, factor') \subseteq MatchSites
        BY <1>1, SitesOfFactors DEF SitesOfChange
    <2> QED
        BY <1>11, <1>12, <2>1 DEF ImportKev
<1>13. CASE RebuildKev
    <2>1. kevActive \in KevCatalogs
        BY <1>1, <1>13 DEF RebuildKev
    <2>2. {SiteOf[id[2]] : id \in CurrentOf(factor')} \subseteq MatchSites
        BY <1>1, SitesOfFactors DEF CurrentOf
    <2> QED
        BY <1>11, <1>13, <2>1, <2>2 DEF RebuildKev
<1>14. ASSUME NEW m \in ComponentMatches, NEW what \in {"affected", "uncertain", "gone"},
              Becomes(m, what)
       PROVE  MatchPlain'
    <2>1. /\ UNCHANGED <<matchRow, matchRun, correlated>> /\ written' = NothingWritten
          /\ finds' = [finds EXCEPT ![m] = what]
        BY <1>14 DEF Becomes, News, kevVars
    <2>2. finds' \in [ComponentMatches -> {"affected", "uncertain", "gone"}]
        BY <2>1 DEF MatchPlain
    <2> QED
        BY <1>2, <1>5, <2>1, <2>2
<1>15. ASSUME NEW a \in OfAdvisories, NEW content \in NewAdvisories, ImportAdvisories(a, content)
       PROVE  MatchPlain'
    <2>1. UNCHANGED <<matchRow, matchRun, correlated, finds>> /\ written' = NothingWritten
        BY <1>15 DEF ImportAdvisories, News, kevVars
    <2> QED
        BY <1>2, <1>5, <2>1 DEF MatchPlain
<1> HIDE DEF MatchPlain
<1> QED
    BY <1>3, <1>6, <1>7, <1>9, <1>10, <1>12, <1>13, <1>14, <1>15 DEF MatchNext

LEMMA MatchTyping ==
    ASSUME MatchInv, MatchPlain
    PROVE  MatchTypeOK
BY DEF MatchInv, MatchTyped, MatchPlain, MatchStatuses, MatchTypeOK

--------------------------------------------------------------------------------
(* The classification and the findings.                                    *)

\* The clock and what the sources were seen at stay within the bounds.
ClassificationPlain ==
    /\ day <= MaxDay /\ alterations \in 0 .. MaxAlterations
    /\ \A s \in Reporters, c \in ReportedCategories : sighted[s][c] <= MaxDay

LEMMA ClassificationPlainFirst == ClassificationInit => ClassificationPlain
<1> SUFFICES ASSUME ClassificationInit PROVE ClassificationPlain
    OBVIOUS
<1>1. 1 <= MaxDay /\ 0 <= MaxDay /\ 0 \in 0 .. MaxAlterations
    BY ClassificationConstants
<1>2. \A s \in Reporters, c \in ReportedCategories : sighted[s][c] \in {0, 1}
    BY DEF ClassificationInit
<1> QED
    BY <1>1, <1>2 DEF ClassificationInit, ClassificationPlain

LEMMA ClassificationPlainKept ==
    ASSUME ClassificationInv, ClassificationPlain, [ClassificationNext]_classificationVars
    PROVE  ClassificationPlain'
<1>1. sighted \in [Reporters -> [ReportedCategories -> Nat]] /\ day \in Nat
    BY DEF ClassificationInv, ClassificationTyped
<1>2. ASSUME day' = day, sighted' = sighted, alterations' = alterations
      PROVE  ClassificationPlain'
    BY <1>2 DEF ClassificationPlain
<1>3. ASSUME Alter PROVE alterations' \in 0 .. MaxAlterations
    BY <1>3, ClassificationConstants DEF Alter, ClassificationPlain
<1>4. CASE NextDay
    BY <1>1, <1>4, ClassificationConstants DEF NextDay, ClassificationPlain
<1>5. ASSUME NEW s \in Reporters, RevokeReporter(s)
      PROVE  ClassificationPlain'
    BY <1>3, <1>5 DEF RevokeReporter, ClassificationPlain
<1>6. ASSUME NEW s \in Reporters, NEW c \in ReportedCategories, NEW at \in 1 .. MaxDay,
             Observe(s, c, at)
      PROVE  ClassificationPlain'
    <2>1. sighted[s][c] \in Nat /\ at \in Nat /\ at <= MaxDay /\ sighted[s][c] <= MaxDay
        BY <1>1, ClassificationConstants DEF ClassificationPlain
    <2>2. Max({at, sighted[s][c]}) \in {at, sighted[s][c]}
        BY <2>1, LaterDay
    <2>3. sighted' = [sighted EXCEPT ![s] = [sighted[s] EXCEPT ![c] = Max({at, sighted[s][c]})]]
        BY <1>1, <1>6 DEF Observe
    <2>4. \A r \in Reporters, d \in ReportedCategories :
              sighted'[r][d] = (IF r = s /\ d = c THEN Max({at, sighted[s][c]}) ELSE sighted[r][d])
        BY <1>1, <2>3
    <2>5. \A r \in Reporters, d \in ReportedCategories : sighted'[r][d] <= MaxDay
        BY <2>1, <2>2, <2>4 DEF ClassificationPlain
    <2>6. day' = day /\ alterations' \in 0 .. MaxAlterations
        BY <1>3, <1>6 DEF Observe
    <2> QED
        BY <2>5, <2>6 DEF ClassificationPlain
<1>7. ASSUME NEW e \in Evaluators,
             \/ BeginCall(e) \/ LoadEvidence(e) \/ ReconcileClassification(e)
             \/ EvaluateFindings(e) \/ EndCall(e)
      PROVE  ClassificationPlain'
    <2>1. EvidenceStays
        BY <1>7 DEF BeginCall, LoadEvidence, ReconcileClassification, EvaluateFindings, EndCall
    <2> QED
        BY <1>2, <2>1 DEF EvidenceStays
<1>8. CASE UNCHANGED classificationVars
    BY <1>2, <1>8 DEF classificationVars
<1> QED
    BY <1>4, <1>5, <1>6, <1>7, <1>8 DEF ClassificationNext

LEMMA ClassificationTyping ==
    ASSUME ClassificationInv, ClassificationPlain
    PROVE  ClassificationTypeOK
<1>1. ClassificationTyped
    BY DEF ClassificationInv
<1>2. /\ day \in 1 .. MaxDay /\ altered \in 0 .. MaxDay /\ row.at \in 0 .. MaxDay
      /\ alterations \in 0 .. MaxAlterations
    BY <1>1, ClassificationConstants DEF ClassificationTyped, ClassificationPlain
<1>3. sighted \in [Reporters -> [ReportedCategories -> 0 .. MaxDay]]
    <2>1. \A s \in Reporters, c \in ReportedCategories : sighted[s][c] \in 0 .. MaxDay
        BY <1>1, ClassificationConstants DEF ClassificationTyped, ClassificationPlain
    <2> QED
        BY <1>1, <2>1 DEF ClassificationTyped
<1>4. \A e \in Evaluators : call[e].pc \in {"idle", "started", "loaded", "stored"}
    BY <1>1, CallFields
<1> QED
    BY <1>1, <1>2, <1>3, <1>4 DEF ClassificationTyped, ClassificationTypeOK

--------------------------------------------------------------------------------
\* Evaluations that have begun, whatever became of them: those that are neither new nor asked.
Begun == {r \in Evaluations : run[r].pc \notin {"idle", "asked"}}

\* No more evaluations begin than there are, and no more changes happen than are allowed.
FindingPlain == changes \in 0 .. MaxChanges /\ began <= Cardinality(Begun)

LEMMA BegunAreFinite ==
    /\ IsFiniteSet(Begun) /\ Cardinality(Begun) \in Nat
    /\ Cardinality(Begun) <= Cardinality(Evaluations)
BY LifecycleConstants, FS_Subset, FS_CardinalityType DEF Begun

LEMMA FindingPlainFirst == FindingInit => FindingPlain
<1>1. Cardinality(Begun) \in Nat
    BY BegunAreFinite
<1>2. MaxChanges \in Nat
    BY LifecycleConstants
<1> QED
    BY <1>1, <1>2 DEF FindingInit, FindingPlain

LEMMA FindingPlainKept ==
    ASSUME FindingInv, FindingPlain, [FindingNext]_findingVars
    PROVE  FindingPlain'
<1>1. run \in [Evaluations -> Runs] /\ began \in Nat /\ changes \in 0 .. MaxChanges
      /\ began <= Cardinality(Begun)
    BY DEF FindingInv, LifecycleTyped, FindingPlain
<1>2. /\ IsFiniteSet(Begun) /\ Cardinality(Begun) \in Nat
      /\ IsFiniteSet(Begun')
    <2>1. Begun' \subseteq Evaluations
        BY DEF Begun
    <2> QED
        BY <2>1, BegunAreFinite, LifecycleConstants, FS_Subset
<1>3. Cardinality(Begun') \in Nat
    BY <1>2, FS_CardinalityType
<1>4. ASSUME began' = began, changes' \in 0 .. MaxChanges, Begun \subseteq Begun'
      PROVE  FindingPlain'
    <2>1. Cardinality(Begun) <= Cardinality(Begun')
        BY <1>2, <1>4, FS_Subset
    <2> QED
        BY <1>1, <1>2, <1>3, <1>4, <2>1 DEF FindingPlain
<1>6. CASE ChangeFacts
    <2>1. changes' \in 0 .. MaxChanges
        BY <1>1, <1>6, LifecycleConstants DEF ChangeFacts
    <2> QED
        BY <1>4, <1>6, <2>1 DEF ChangeFacts, Begun
<1>7. ASSUME NEW k \in Handled, Acknowledge(k)
      PROVE  FindingPlain'
    BY <1>1, <1>4, <1>7 DEF Acknowledge, Begun
<1>8. ASSUME NEW k \in Handled, NEW r \in Evaluations, Suppress(k, r)
      PROVE  FindingPlain'
    <2>1. /\ run' = [run EXCEPT ![r] = [pc |-> "asked"]] /\ run[r].pc = "idle"
          /\ began' = began /\ changes' = changes
        BY <1>8 DEF Suppress, NoEvaluation
    <2>2. Begun \subseteq Begun'
        BY <1>1, <2>1 DEF Begun
    <2> QED
        BY <1>1, <1>4, <2>1, <2>2
<1>9. ASSUME NEW r \in Evaluations, BeginEvaluation(r)
      PROVE  FindingPlain'
    <2>1. /\ run[r].pc \in {"idle", "asked"} /\ began' = began + 1 /\ changes' = changes
          /\ run'[r].pc = "begun"
          /\ \A x \in Evaluations \ {r} : run'[x] = run[x]
        <3>1. PICK scope \in {Site, Asset, Sensor} :
                  run' = [run EXCEPT ![r] = [pc |-> "begun", start |-> began + 1, scope |-> scope]]
            BY <1>9 DEF BeginEvaluation
        <3> DEFINE new == [pc |-> "begun", start |-> began + 1, scope |-> scope]
        <3>2. run'[r] = new /\ \A x \in Evaluations \ {r} : run'[x] = run[x]
            BY <1>1, <3>1
        <3>3. /\ run[r].pc \in {"idle", "asked"} /\ began' = began + 1 /\ changes' = changes
            BY <1>9 DEF BeginEvaluation
        <3> QED
            BY <3>2, <3>3
    <2>2. Begun' = Begun \cup {r} /\ r \notin Begun
        BY <1>1, <2>1 DEF Begun
    <2>3. Cardinality(Begun') = Cardinality(Begun) + 1
        BY <1>2, <2>2, FS_AddElement
    <2> QED
        BY <1>1, <1>2, <2>1, <2>3 DEF FindingPlain
<1>10. ASSUME NEW r \in Evaluations,
              \/ LoadAssets(r) \/ LoadMatches(r) \/ Reconcile(r) \/ ReadOpen(r)
              \/ ReplaceRisk(r) \/ CompleteEvaluation(r) \/ FailEvaluation(r)
       PROVE  FindingPlain'
    <2>1. began' = began /\ changes' = changes
        BY <1>10 DEF LoadAssets, LoadMatches, Reconcile, ReadOpen, ReplaceRisk,
                     CompleteEvaluation, FailEvaluation, Quiet
    <2>2. /\ \A x \in Evaluations \ {r} : run'[x] = run[x]
          /\ run'[r].pc \notin {"idle", "asked"}
        <3>1. CASE LoadAssets(r) \/ LoadMatches(r)
            BY <1>1, <3>1 DEF LoadAssets, LoadMatches
        <3>2. CASE Reconcile(r) \/ ReadOpen(r)
            BY <1>1, <3>2 DEF Reconcile, ReadOpen
        <3>3. CASE FailEvaluation(r)
            BY <1>1, <3>3 DEF FailEvaluation
        <3>4. CASE ReplaceRisk(r) \/ CompleteEvaluation(r)
            <4>1. PICK stage \in {"scored", "completed"} : run' = [run EXCEPT ![r].pc = stage]
                BY <3>4 DEF ReplaceRisk, CompleteEvaluation
            <4>2. run[r].pc \in {"read", "scored"}
                BY <3>4 DEF ReplaceRisk, CompleteEvaluation, Evaluating
            <4>3. run[r] \in [pc : {"read", "scored", "completed"}, start : Nat,
                               scope : SUBSET Keys, open : SUBSET Keys]
                BY <4>2, RunFields DEF FindingInv
            <4>4. run'[r].pc = stage
                BY <1>1, <4>1, <4>3
            <4> QED
                BY <1>1, <4>1, <4>4
        <3> QED
            BY <1>10, <3>1, <3>2, <3>3, <3>4
    <2>3. Begun \subseteq Begun'
        BY <2>2 DEF Begun
    <2> QED
        BY <1>1, <1>4, <2>1, <2>3
<1>11. CASE UNCHANGED findingVars
    BY <1>1, <1>4, <1>11 DEF findingVars, Begun
<1> QED
    BY <1>6, <1>7, <1>8, <1>9, <1>10, <1>11 DEF FindingNext, EvaluationStep

LEMMA FindingTyping ==
    ASSUME FindingInv, FindingPlain
    PROVE  FindingTypeOK
<1>1. LifecycleTyped /\ RowsGuard
    BY DEF FindingInv
<1>2. began \in Nat /\ Cardinality(Evaluations) \in Nat /\ began <= Cardinality(Evaluations)
    BY <1>1, BegunAreFinite, LifecycleConstants, FS_CardinalityType
        DEF LifecycleTyped, FindingPlain
<1>3. began \in Times /\ 0 .. began \subseteq Times /\ 1 .. began \subseteq Times
    BY <1>2 DEF Times
<1>4. /\ changed \in Times /\ risk.start \in Times /\ risk.open \subseteq Keys
      /\ reconciled \in [Keys -> Times]
    BY <1>1, <1>3 DEF LifecycleTyped
<1>5. ASSUME NEW k \in Keys, finding[k] # NoFinding
      PROVE  /\ finding[k].status \in {"active", "acknowledged", "suppressed", "resolved"}
             /\ finding[k].at \in Times /\ finding[k].until \in Nat
    <2>1. finding[k] \in RowKind
        BY <1>1, <1>5, RowOrNone DEF LifecycleTyped
    <2>2. /\ finding[k].status \in {"active", "acknowledged", "suppressed", "resolved"}
          /\ finding[k].at \in Nat /\ finding[k].until \in Nat
        BY <2>1 DEF RowKind
    <2>3. finding[k].at <= reconciled[k] /\ reconciled[k] \in 0 .. began
        BY <1>1, <1>5 DEF RowsGuard, LifecycleTyped
    <2>4. finding[k].at \in 0 .. began
        BY <1>2, <2>2, <2>3
    <2> QED
        BY <1>3, <2>2, <2>4
<1>6. ASSUME NEW r \in Evaluations, run[r].pc \notin {"idle", "asked", "failed"}
      PROVE  run[r].start \in Times /\ run[r].scope \subseteq Keys
    <2>1. run[r].start \in 1 .. began
        BY <1>6 DEF FindingInv, StartsDiffer, Started
    <2>2. Started(r)
        BY <1>6 DEF Started
    <2>3. run[r].scope \subseteq Keys
        BY <1>1, <2>2, RunFields
    <2> QED
        BY <1>3, <2>1, <2>3
<1> QED
    BY <1>1, <1>3, <1>4, <1>5, <1>6 DEF FindingTypeOK, LifecycleTyped, FindingPlain

--------------------------------------------------------------------------------
(* The advisor, whose type is an invariant as it stands.                   *)

\* The tables are those of the order in which they are read.
LEMMA AdvisorTables ==
    ASSUME AdvisorInit
    PROVE  DOMAIN advisorTables = UNION ToSet(ReadOrder)
<1>1. ToSet(ReadOrder) = {ReadOrder[k] : k \in DOMAIN ReadOrder}
    BY DEF ToSet
<1> QED
    BY <1>1 DEF AdvisorInit

LEMMA AdvisorFirst == AdvisorInit => AdvisorTypeOK
<1> SUFFICES ASSUME AdvisorInit PROVE AdvisorTypeOK
    OBVIOUS
<1>1. Len(ReadOrder) \in Nat
    BY DEF ReadOrder
<1> QED
    BY <1>1, AdvisorTables DEF AdvisorInit, AdvisorTypeOK, NoReply

\* Whoever replies, the status is one of four.
LEMMA RepliesAreOfAStatus ==
    ASSUME NEW c, NEW by, NEW reply, Replies(c, by, reply),
           reply.status \in {"completed", "invalid-provider-output", "provider-unavailable"}
    PROVE  /\ advisorReply'.status \in
                 {"completed", "failed", "invalid-provider-output", "provider-unavailable"}
           /\ UNCHANGED <<advisorHistory, advisorNow, advisorReading, advisorTables>>
BY DEF Replies

LEMMA SupportsHasStatus ==
    ASSUME NEW c, NEW ids
    PROVE  Supports(c, ids).status \in {"completed", "invalid-provider-output"}
BY DEF Supports

LEMMA AdvisorKept ==
    ASSUME AdvisorTypeOK, [AdvisorNext]_advisorVars
    PROVE  AdvisorTypeOK'
<1>1. DOMAIN ReadOrder = 1 .. Len(ReadOrder) /\ Len(ReadOrder) \in Nat
    BY DEF ReadOrder
<1>2. CASE HubChanges
    BY <1>2 DEF HubChanges, AdvisorTypeOK
<1>3. CASE ReadTable
    <2>1. advisorReading' \in 1 .. Len(ReadOrder) + 1
        BY <1>1, <1>3 DEF ReadTable
    <2>2. DOMAIN advisorTables' = DOMAIN advisorTables
        BY <1>3 DEF ReadTable
    <2> QED
        BY <1>3, <2>1, <2>2 DEF ReadTable, AdvisorTypeOK
<1>4. ASSUME NEW q \in Questions, NEW site \in AskedSites, NEW asset \in AskedAssets,
             \/ AskAmbiguously(q, site, asset) \/ AskBuiltIn(q, site, asset)
             \/ AskModel(q, site, asset) \/ ModelUnavailable(q, site, asset)
      PROVE  AdvisorTypeOK'
    <2>1. \E c, by, reply :
              /\ Replies(c, by, reply)
              /\ reply.status \in {"completed", "invalid-provider-output", "provider-unavailable"}
        <3>1. CASE AskAmbiguously(q, site, asset)
            BY <3>1 DEF AskAmbiguously
        <3>2. CASE AskBuiltIn(q, site, asset)
            <4>1. PICK c : Replies(c, "built-in", Supports(c, Cites(c)))
                BY <3>2 DEF AskBuiltIn
            <4> QED
                BY <4>1, SupportsHasStatus
        <3>3. CASE AskModel(q, site, asset)
            <4>1. PICK c, id : Replies(c, "model", Supports(c, <<id>>))
                BY <3>3 DEF AskModel
            <4> QED
                BY <4>1, SupportsHasStatus
        <3>4. CASE ModelUnavailable(q, site, asset)
            BY <3>4 DEF ModelUnavailable
        <3> QED
            BY <1>4, <3>1, <3>2, <3>3, <3>4
    <2>2. /\ advisorReply'.status \in
                 {"completed", "failed", "invalid-provider-output", "provider-unavailable"}
          /\ UNCHANGED <<advisorHistory, advisorNow, advisorReading, advisorTables>>
        BY <2>1, RepliesAreOfAStatus
    <2> QED
        BY <2>2 DEF AdvisorTypeOK
<1>5. CASE UNCHANGED advisorVars
    BY <1>5 DEF advisorVars, AdvisorTypeOK
<1> QED
    BY <1>2, <1>3, <1>4, <1>5 DEF AdvisorNext

--------------------------------------------------------------------------------
(* The parts together.                                                     *)

\* Each part has its invariant, with its bounds; a behaviour is of one part.
PartsInv ==
    /\ part = "findings" => FindingInv /\ FindingPlain
    /\ part = "components" => ComponentInv /\ ComponentPlain
    /\ part = "migrations" => SchemaInv /\ SchemaPlain
    /\ part = "classifications" => ClassificationInv /\ ClassificationPlain
    /\ part = "days" => TemporalInv /\ TemporalPlain
    /\ part = "matches" => MatchInv /\ MatchPlain
    /\ part = "mirror" => MirrorInv /\ MirrorPlain
    /\ part = "kev" => KevInv /\ KevPlain
    /\ part = "osv" => OsvInv /\ OsvPlain
    /\ part = "retrieval" => SignedInv
    /\ part = "model" => TrustInv
    /\ part = "advisor" => AdvisorTypeOK

LEMMA InitParts == Init => PartsInv
<1> SUFFICES ASSUME Init PROVE PartsInv
    OBVIOUS
<1>1. /\ FindingInit /\ ComponentInit /\ MigrationInit /\ ClassificationInit /\ TemporalInit
      /\ MatchInit /\ MirrorInit /\ KevPublisherInit /\ OsvInit /\ SignedFeedInit
      /\ AdvisorInit /\ TrustInit
    BY DEF Init
<1>2. /\ FindingInv /\ FindingPlain /\ ComponentInv /\ ComponentPlain
      /\ SchemaInv /\ SchemaPlain /\ ClassificationInv /\ ClassificationPlain
    BY <1>1, InitFinding, FindingPlainFirst, ComponentInitInv, ComponentPlainFirst, InitSchema,
       SchemaPlainFirst, InitClassification, ClassificationPlainFirst
<1>3. /\ TemporalInv /\ TemporalPlain /\ MatchInv /\ MatchPlain /\ MirrorInv /\ MirrorPlain
      /\ KevInv /\ KevPlain /\ OsvInv /\ OsvPlain
    BY <1>1, InitTemporal, TemporalPlainFirst, InitMatch, MatchPlainFirst, InitMirror,
       MirrorPlainFirst, InitKevPublisher, KevPlainFirst, InitOsv, OsvPlainFirst
<1>4. SignedInv /\ TrustInv /\ AdvisorTypeOK
    BY <1>1, InitSigned, InitTrust, AdvisorFirst
<1> QED
    BY <1>2, <1>3, <1>4 DEF PartsInv

LEMMA NextParts == ASSUME PartsInv, [Next]_partVars PROVE PartsInv'
<1>1. part' = part
    BY DEF Next, partVars
<1>2. CASE part = "findings"
    <2>1. [FindingNext]_findingVars /\ FindingInv /\ FindingPlain
        BY <1>2 DEF Next, partVars, PartsInv
    <2>2. FindingInv' /\ FindingPlain'
        BY <2>1, NextFinding, FindingPlainKept
    <2> QED
        BY <1>1, <1>2, <2>2 DEF PartsInv
<1>3. CASE part = "components"
    <2>1. [ComponentNext]_componentVars /\ ComponentInv /\ ComponentPlain
        BY <1>3 DEF Next, partVars, PartsInv
    <2>2. ComponentInv' /\ ComponentPlain'
        BY <2>1, ComponentsStep, ComponentPlainKept
    <2> QED
        BY <1>1, <1>3, <2>2 DEF PartsInv
<1>4. CASE part = "migrations"
    <2>1. [MigrationNext]_migrationVars /\ SchemaInv /\ SchemaPlain
        BY <1>4 DEF Next, partVars, PartsInv
    <2>2. SchemaInv' /\ SchemaPlain'
        BY <2>1, NextSchema, SchemaPlainKept
    <2> QED
        BY <1>1, <1>4, <2>2 DEF PartsInv
<1>5. CASE part = "classifications"
    <2>1. [ClassificationNext]_classificationVars /\ ClassificationInv /\ ClassificationPlain
        BY <1>5 DEF Next, partVars, PartsInv
    <2>2. ClassificationInv' /\ ClassificationPlain'
        BY <2>1, NextClassification, ClassificationPlainKept
    <2> QED
        BY <1>1, <1>5, <2>2 DEF PartsInv
<1>6. CASE part = "days"
    <2>1. [TemporalNext]_temporalVars /\ TemporalInv /\ TemporalPlain
        BY <1>6 DEF Next, partVars, PartsInv
    <2>2. TemporalInv' /\ TemporalPlain'
        BY <2>1, StepTemporal, TemporalPlainKept
    <2> QED
        BY <1>1, <1>6, <2>2 DEF PartsInv
<1>7. CASE part = "matches"
    <2>1. [MatchNext]_matchVars /\ MatchInv /\ MatchPlain
        BY <1>7 DEF Next, partVars, PartsInv
    <2>2. MatchInv'
        BY <2>1, NextMatch
    <2>3. MatchPlain'
        BY <2>1, <2>2, MatchPlainKept
    <2> QED
        BY <1>1, <1>7, <2>2, <2>3 DEF PartsInv
<1>8. CASE part = "mirror"
    <2>1. [MirrorNext]_mirrorVars /\ MirrorInv /\ MirrorPlain
        BY <1>8 DEF Next, partVars, PartsInv
    <2>2. MirrorInv' /\ MirrorPlain'
        BY <2>1, NextMirror, MirrorPlainKept
    <2> QED
        BY <1>1, <1>8, <2>2 DEF PartsInv
<1>9. CASE part = "kev"
    <2>1. [KevPublisherNext]_kevPublisherVars /\ KevInv /\ KevPlain
        BY <1>9 DEF Next, partVars, PartsInv
    <2>2. KevInv' /\ KevPlain'
        BY <2>1, NextKevPublisher, KevPlainKept
    <2> QED
        BY <1>1, <1>9, <2>2 DEF PartsInv
<1>10. CASE part = "osv"
    <2>1. [OsvNext]_osvVars /\ OsvInv /\ OsvPlain
        BY <1>10 DEF Next, partVars, PartsInv
    <2>2. OsvInv' /\ OsvPlain'
        BY <2>1, NextOsv, OsvPlainKept
    <2> QED
        BY <1>1, <1>10, <2>2 DEF PartsInv
<1>11. CASE part = "retrieval"
    <2>1. (SignedFeedNext \/ UNCHANGED signedVars) /\ SignedInv
        BY <1>11 DEF Next, partVars, PartsInv
    <2>2. SignedInv'
        BY <2>1, NextSigned, StaySigned
    <2> QED
        BY <1>1, <1>11, <2>2 DEF PartsInv
<1>12. CASE part = "model"
    <2>1. [TrustNext]_aiVars /\ TrustInv
        BY <1>12 DEF Next, partVars, PartsInv
    <2>2. TrustInv'
        BY <2>1, NextTrust
    <2> QED
        BY <1>1, <1>12, <2>2 DEF PartsInv
<1>13. CASE part = "advisor"
    <2>1. [AdvisorNext]_advisorVars /\ AdvisorTypeOK
        BY <1>13 DEF Next, partVars, PartsInv
    <2>2. AdvisorTypeOK'
        BY <2>1, AdvisorKept
    <2> QED
        BY <1>1, <1>13, <2>2 DEF PartsInv
<1>14. CASE part \notin Behaviours
    BY <1>1, <1>14 DEF PartsInv, Behaviours
<1> QED
    BY <1>2, <1>3, <1>4, <1>5, <1>6, <1>7, <1>8, <1>9, <1>10, <1>11, <1>12, <1>13, <1>14 DEF Behaviours

LEMMA PartsRight == PartsInv => PartsTypeOK /\ PublicationsSound
<1> SUFFICES ASSUME PartsInv PROVE PartsTypeOK /\ PublicationsSound
    OBVIOUS
<1>1. /\ part = "findings" => FindingTypeOK
      /\ part = "components" => ComponentTypeOK
      /\ part = "migrations" => MigrationTypeOK
      /\ part = "classifications" => ClassificationTypeOK
    BY FindingTyping, ComponentTyping, SchemaTyping, ClassificationTyping DEF PartsInv
<1>2. /\ part = "days" => TemporalTypeOK
      /\ part = "matches" => MatchTypeOK
      /\ part = "mirror" => MirrorTypeOK
    BY TemporalTyping, MatchTyping, MirrorTyping DEF PartsInv
<1>3. /\ part = "kev" => KevPublisherTypeOK
      /\ part = "osv" => OsvTypeOK
      /\ part = "retrieval" => SignedFeedTypeOK /\ SignedFeedSound
      /\ part = "model" => TrustTypeOK
    BY KevTyping, OsvTyping, SignedRight, TrustRight DEF PartsInv
<1>4. /\ MirrorInv => MirrorSound
      /\ KevInv => KevPublisherSound
      /\ OsvInv => OsvPublisherSound
    BY DEF MirrorInv, KevInv, OsvInv, KevPublisherSound, OsvPublisherSound
<1> QED
    BY <1>1, <1>2, <1>3, <1>4 DEF PartsInv, PartsTypeOK, PublicationsSound

\* The inductive invariant of the hub's parts.
THEOREM PartsInvariance == Spec => []PartsInv
<1>1. PartsInv /\ [Next]_partVars => PartsInv'
    BY NextParts
<1> HIDE DEF PartsInv
<1> QED
    BY <1>1, InitParts, PTL DEF Spec

\* Whatever any of them does: a sequence or a version that a publisher or the mirror gave stands
\* for one content and is never taken back, and what a hub keeps of what hosts serve is one
\* bundle, whole and signed.
THEOREM PublicationsAreSound == Spec => []PublicationsSound
<1> HIDE DEF PartsInv, PublicationsSound, PartsTypeOK
<1> QED
    BY PartsRight, PartsInvariance, PTL

\* And the state of every part has its type, within its bounds.
THEOREM PartsTypeCorrect == Spec => []PartsTypeOK
<1> HIDE DEF PartsInv, PublicationsSound, PartsTypeOK
<1> QED
    BY PartsRight, PartsInvariance, PTL

--------------------------------------------------------------------------------
(* The rules of the findings.                                              *)

\* What the keys of findings are, and which of them the facts call for and may resolve.
LEMMA KindsOfKeys ==
    ASSUME NEW k \in Keys
    PROVE  \/ /\ k[1] \in {"asset-stale", "unknown-asset", "passive-only-asset",
                           "security-coverage-gap", "classification-conflict",
                           "identity-conflict"}
              /\ k[2] = "asset" /\ k = <<k[1], "asset">>
           \/ k = <<"sensor-stale", "sensor">>
           \/ k[2] \in Matches /\ k = <<"vulnerable-component", k[2]>>
           \/ k = <<"component-version-unavailable", "component">>
           \/ k = <<"advisory-identity-uncertain", "component">>
BY DEF Keys

LEMMA AssetKeys ==
    ASSUME NEW f \in Facts, NEW r
    PROVE  /\ <<r, "asset">> \in Candidates(f) <=> r \in AssetRules(f)
           /\ <<r, "asset">> \in Eligible(f) <=> r \in EligibleAsset(f)
<1>1. \A m : <<"vulnerable-component", m>> = <<r, "asset">> => m = "asset"
    OBVIOUS
<1> QED
    BY <1>1 DEF Candidates, Eligible, VulnerableComponents, VersionUnavailable, IdentityUncertain,
               EligibleMatches, With, Matches, ComponentOf, Listed

LEMMA OtherKeys ==
    ASSUME NEW f \in Facts
    PROVE  /\ <<"sensor-stale", "sensor">> \in Candidates(f) <=> SensorStale(f)
           /\ <<"sensor-stale", "sensor">> \in Eligible(f) <=> f.sensor = "recent"
           /\ \A m \in Matches :
                 /\ <<"vulnerable-component", m>> \in Candidates(f) <=> f.matches[m] = "affected"
                 /\ <<"vulnerable-component", m>> \in Eligible(f)
                       <=> f.matches[m] = "not-affected"
           /\ <<"component-version-unavailable", "component">> \in Candidates(f)
                 <=> With(f, "version-unknown") # {}
           /\ <<"component-version-unavailable", "component">> \in Eligible(f)
                 <=> Listed(f) # {} /\ With(f, "version-unknown") = {}
           /\ <<"advisory-identity-uncertain", "component">> \in Candidates(f)
                 <=> With(f, "identity-uncertain") # {}
           /\ <<"advisory-identity-uncertain", "component">> \in Eligible(f)
                 <=> Listed(f) # {} /\ With(f, "identity-uncertain") = {}
BY DEF Candidates, Eligible, VulnerableComponents, VersionUnavailable, IdentityUncertain,
       EligibleMatches, With, Matches, ComponentOf, Listed

\* For all facts: a finding is resolved only as the registry of rules says, and with fresh
\* evidence it is called for or resolved unless its evidence is silent.
THEOREM RulesAreSound == \A f \in Facts : SoundOn(f)
<1> TAKE f \in Facts
<1>1. ASSUME NEW k \in Resolves(f)
      PROVE  Documented(k, f)
    <2>1. k \in Eligible(f) /\ k \notin Candidates(f)
        BY <1>1 DEF Resolves
    <2>2. k \in Keys
        BY <2>1 DEF Eligible, Keys, EligibleAsset, EligibleMatches, With, Listed, ComponentOf
    <2>3. CASE k[2] = "asset" /\ k = <<k[1], "asset">>
        <3>1. k[1] \in EligibleAsset(f) /\ k[1] \notin AssetRules(f)
            BY <2>1, <2>3, AssetKeys
        <3> QED
            BY <3>1 DEF EligibleAsset, AssetRules, Documented, AssetStale, UnknownAsset, PassiveOnly,
                        CoverageGap, ClassificationConflict, IdentityConflict, IsFresh, IsOverdue,
                        Recognized, Facts
    <2>4. CASE k = <<"sensor-stale", "sensor">>
        BY <2>1, <2>4, OtherKeys DEF Documented
    <2>5. CASE k[2] \in Matches /\ k = <<"vulnerable-component", k[2]>>
        <3>1. <<"vulnerable-component", k[2]>> \in Eligible(f) /\ k[2] \in Matches
            BY <2>1, <2>5
        <3>2. f.matches[k[2]] = "not-affected" /\ k[1] = "vulnerable-component"
            BY <2>5, <3>1, OtherKeys
        <3> QED
            BY <3>2 DEF Documented
    <2>6. CASE k = <<"component-version-unavailable", "component">>
        BY <2>1, <2>6, OtherKeys DEF Documented
    <2>7. CASE k = <<"advisory-identity-uncertain", "component">>
        BY <2>1, <2>7, OtherKeys DEF Documented
    <2> QED
        BY <2>2, <2>3, <2>4, <2>5, <2>6, <2>7, KindsOfKeys
<1>2. ASSUME IsFresh(f), NEW k \in Keys \ (Opens(f) \cup Resolves(f))
      PROVE  Silent(k, f)
    <2>1. k \notin Candidates(f) /\ k \notin Eligible(f) /\ k \in Keys
        BY <1>2 DEF Opens, Resolves
    <2>2. CASE k[2] = "asset" /\ k = <<k[1], "asset">>
               /\ k[1] \in {"asset-stale", "unknown-asset", "passive-only-asset",
                            "security-coverage-gap", "classification-conflict",
                            "identity-conflict"}
        <3>1. k[1] \notin EligibleAsset(f) /\ k[1] \notin AssetRules(f)
            BY <2>1, <2>2, AssetKeys
        <3> QED
            BY <1>2, <2>2, <3>1
            DEF EligibleAsset, AssetRules, Silent, AssetStale, UnknownAsset, PassiveOnly,
                CoverageGap, ClassificationConflict, IdentityConflict, IsFresh, IsOverdue,
                Recognized, Facts, Named, Categories
    <2>3. CASE k = <<"sensor-stale", "sensor">>
        BY <2>1, <2>3, OtherKeys DEF Silent, SensorStale, Facts
    <2>4. CASE k[2] \in Matches /\ k = <<"vulnerable-component", k[2]>>
        BY <2>1, <2>4, OtherKeys DEF Silent
    <2>5. CASE k = <<"component-version-unavailable", "component">>
        BY <2>1, <2>5, OtherKeys DEF Silent
    <2>6. CASE k = <<"advisory-identity-uncertain", "component">>
        BY <2>1, <2>6, OtherKeys DEF Silent
    <2> QED
        BY <2>1, <2>2, <2>3, <2>4, <2>5, <2>6, KindsOfKeys
<1> QED
    BY <1>1, <1>2 DEF SoundOn

--------------------------------------------------------------------------------
(* The preview of a catalog.                                               *)

\* How many two sets have together.
LEMMA UnionCounts ==
    ASSUME NEW X, NEW Y, IsFiniteSet(X), IsFiniteSet(Y)
    PROVE  /\ IsFiniteSet(X \cup Y) /\ Cardinality(X \cup Y) \in Nat
           /\ Cardinality(X) \in Nat /\ Cardinality(Y) \in Nat
           /\ Cardinality(X \cup Y) <= Cardinality(X) + Cardinality(Y)
           /\ X \cap Y = {} => Cardinality(X \cup Y) = Cardinality(X) + Cardinality(Y)
<1>1. /\ IsFiniteSet(X \cup Y)
      /\ Cardinality(X \cup Y) = Cardinality(X) + Cardinality(Y) - Cardinality(X \cap Y)
    BY FS_Union
<1>2. IsFiniteSet(X \cap Y)
    BY FS_Intersection
<1>3. /\ Cardinality(X) \in Nat /\ Cardinality(Y) \in Nat /\ Cardinality(X \cap Y) \in Nat
      /\ Cardinality(X \cup Y) \in Nat
    BY <1>1, <1>2, FS_CardinalityType
<1>4. X \cap Y = {} => Cardinality(X \cap Y) = 0
    BY FS_EmptySet
<1> QED
    BY <1>1, <1>3, <1>4

\* For all finite catalogs, which say of an advisory what it is and whether it is withdrawn: the
\* preview names what the activation will evaluate anew, and its counts add up.
THEOREM PreviewIsSound ==
    ASSUME NEW Contents, NEW O, NEW N, IsFiniteSet(O), IsFiniteSet(N),
           NEW old \in [O -> [content : Contents, withdrawn : BOOLEAN]],
           NEW new \in [N -> [content : Contents, withdrawn : BOOLEAN]]
    PROVE  PreviewSoundOn(old, new)
<1> DEFINE added == N \ O
           updated == {i \in N \cap O : new[i] # old[i]}
           gone == O \ N
           withdrawn == gone \cup
               {i \in N : new[i].withdrawn /\ (i \in O => ~old[i].withdrawn)}
           preview == PreviewOf(old, new)
<1>1. /\ AddedRecords(old, new) = added /\ UpdatedRecords(old, new) = updated
      /\ WithdrawnRecords(old, new) = withdrawn /\ DOMAIN old = O /\ DOMAIN new = N
    BY DEF AddedRecords, UpdatedRecords, WithdrawnRecords
<1>2. /\ preview.total = Cardinality(N) /\ preview.added = Cardinality(added)
      /\ preview.updated = Cardinality(updated) /\ preview.withdrawn = Cardinality(withdrawn)
      /\ preview.changed = added \cup updated \cup withdrawn
    BY <1>1 DEF PreviewOf
<1>3. preview.changed = ChangedRecords(old, new)
    <2>1. ASSUME NEW i \in N, i \in O, new[i].withdrawn, ~old[i].withdrawn
          PROVE  new[i] # old[i]
        BY <2>1
    <2> QED
        BY <1>1, <1>2, <2>1 DEF ChangedRecords
<1>4. (preview.changed = {}) = (old = new)
    <2>1. ChangedRecords(old, new) = {} => O = N /\ \A i \in O : old[i] = new[i]
        BY <1>1 DEF ChangedRecords
    <2>2. O = N /\ (\A i \in O : old[i] = new[i]) => old = new
        OBVIOUS
    <2>3. old = new => ChangedRecords(old, new) = {}
        BY <1>1 DEF ChangedRecords
    <2> QED
        BY <1>3, <2>1, <2>2, <2>3
<1>5. /\ IsFiniteSet(added) /\ IsFiniteSet(updated) /\ IsFiniteSet(withdrawn) /\ IsFiniteSet(gone)
    <2>1. IsFiniteSet(N \cup O)
        BY FS_Union
    <2>2. /\ added \subseteq N \cup O /\ updated \subseteq N \cup O
          /\ withdrawn \subseteq N \cup O /\ gone \subseteq N \cup O
        OBVIOUS
    <2> QED
        BY <2>1, <2>2, FS_Subset
<1> HIDE DEF added, updated, gone, withdrawn, preview
<1>6. preview.total + Cardinality(DOMAIN old \ DOMAIN new)
        = Cardinality(DOMAIN old) + preview.added
    <2>1. N \cup gone = O \cup added /\ N \cap gone = {} /\ O \cap added = {}
        BY DEF gone, added
    <2>2. Cardinality(N \cup gone) = Cardinality(N) + Cardinality(gone)
        BY <1>5, <2>1, UnionCounts
    <2>3. Cardinality(O \cup added) = Cardinality(O) + Cardinality(added)
        BY <1>5, <2>1, UnionCounts
    <2> QED
        BY <1>1, <1>2, <2>1, <2>2, <2>3 DEF gone
<1>7. Cardinality(preview.changed) <= preview.added + preview.updated + preview.withdrawn
    <2> DEFINE first == added \cup updated
    <2>1. /\ Cardinality(first) <= Cardinality(added) + Cardinality(updated)
          /\ IsFiniteSet(first) /\ Cardinality(first) \in Nat
          /\ Cardinality(added) \in Nat /\ Cardinality(updated) \in Nat
        BY <1>5, UnionCounts
    <2>2. preview.changed = first \cup withdrawn
        BY <1>2
    <2> HIDE DEF first
    <2>3. /\ Cardinality(first \cup withdrawn) <= Cardinality(first) + Cardinality(withdrawn)
          /\ Cardinality(withdrawn) \in Nat /\ Cardinality(first \cup withdrawn) \in Nat
        BY <1>5, <2>1, UnionCounts
    <2>4. Cardinality(first \cup withdrawn)
            <= Cardinality(added) + Cardinality(updated) + Cardinality(withdrawn)
        BY <2>1, <2>3
    <2>5. /\ preview.added = Cardinality(added) /\ preview.updated = Cardinality(updated)
          /\ preview.withdrawn = Cardinality(withdrawn)
        BY <1>2
    <2> QED
        BY <2>2, <2>4, <2>5
<1> QED
    BY <1>3, <1>4, <1>6, <1>7 DEF PreviewSoundOn, preview

--------------------------------------------------------------------------------
(* The matching of components.                                             *)

\* The order of the answers.
LEMMA PrecedenceIs ==
    /\ Precedence["affected"] = 8 /\ Precedence["version-unknown"] = 7
    /\ Precedence["identity-uncertain"] = 6 /\ Precedence["unsupported-comparison"] = 5
    /\ Precedence["insufficient-evidence"] = 4 /\ Precedence["fixed"] = 3
    /\ Precedence["not-affected"] = 2 /\ Precedence["advisory-withdrawn"] = 1
    /\ Precedence["none"] = 0
BY DEF Precedence

Answers == DOMAIN Precedence
LEMMA AnswersAre ==
    Answers = {"affected", "version-unknown", "identity-uncertain", "unsupported-comparison",
               "insufficient-evidence", "fixed", "not-affected", "advisory-withdrawn", "none"}
BY DEF Answers, Precedence

\* The answer of some that goes before the others.
LEMMA FirstIs ==
    ASSUME NEW S \in SUBSET Answers, S # {}
    PROVE  First(S) \in S /\ \A t \in S : Precedence[First(S)] >= Precedence[t]
<1> DEFINE T == {n \in Nat : \E s \in S : n = 8 - Precedence[s]}
<1>1. \A s \in S : Precedence[s] \in 0 .. 8
    BY AnswersAre, PrecedenceIs
<1>2. T \in SUBSET Nat /\ T # {}
    <2>1. PICK s \in S : TRUE
        OBVIOUS
    <2>2. 8 - Precedence[s] \in T
        BY <1>1, <2>1
    <2> QED
        BY <2>2
<1>3. PICK n \in T : \A m \in T : n <= m
    <2> HIDE DEF T
    <2> QED
        BY <1>2, LeastNatural
<1>4. PICK s \in S : n = 8 - Precedence[s]
    OBVIOUS
<1>5. \A t \in S : Precedence[s] >= Precedence[t]
    BY <1>1, <1>3, <1>4
<1> QED
    BY <1>5 DEF First

\* What a component and a record give.
LEMMA StatusKinds ==
    ASSUME NEW c, NEW a
    PROVE  MatchStatusOf(c, a) \in Answers \ {"none"}
BY AnswersAre DEF MatchStatusOf, VerdictOf

LEMMA VerdictIs ==
    ASSUME NEW c, NEW records
    PROVE  /\ Verdict(c, records) \in Answers
           /\ Verdict(c, records) = "affected" <=> "affected" \in StatusesOf(c, records)
           /\ Verdict(c, records) \in Safe <=> StatusesOf(c, records) \subseteq Safe
<1> DEFINE S == StatusesOf(c, records) \cup {"none"}
<1>1. S \in SUBSET Answers /\ S # {} /\ "none" \in S
    BY StatusKinds, AnswersAre DEF StatusesOf
<1>2. Verdict(c, records) = First(S)
    BY DEF Verdict, MostCautious
<1> HIDE DEF S
<1>3. First(S) \in S /\ \A t \in S : Precedence[First(S)] >= Precedence[t]
    BY <1>1, FirstIs
<1>4. First(S) \in Answers
    BY <1>1, <1>3
<1>5. First(S) = "affected" <=> "affected" \in S
    <2>1. "affected" \in S => Precedence[First(S)] >= 8
        BY <1>3, PrecedenceIs
    <2>2. Precedence[First(S)] >= 8 => First(S) = "affected"
        BY <1>4, AnswersAre, PrecedenceIs
    <2> QED
        BY <1>3, <2>1, <2>2
<1>6. First(S) \in Safe <=> S \subseteq Safe
    <2>1. First(S) \in Safe => Precedence[First(S)] <= 3
        BY PrecedenceIs DEF Safe
    <2>2. ASSUME First(S) \in Safe, NEW t \in S
          PROVE  t \in Safe
        <3>1. t \in Answers /\ Precedence[First(S)] >= Precedence[t]
              /\ Precedence[First(S)] \in Nat /\ Precedence[t] \in Nat
            BY <1>1, <1>3, <1>4, AnswersAre, PrecedenceIs
        <3>2. Precedence[t] <= 3
            BY <2>1, <2>2, <3>1
        <3> QED
            BY <3>1, <3>2, AnswersAre, PrecedenceIs DEF Safe
    <2> QED
        BY <1>3, <2>2
<1> QED
    BY <1>2, <1>4, <1>5, <1>6 DEF S, Safe

\* What a record says of a component, if it is of it.
Says(c, records, a, status) ==
    a \in CandidatesOf(c, records) /\ IdentityOf(c, a) # "none" /\ MatchStatusOf(c, a) = status

LEMMA StatusesSaid ==
    ASSUME NEW c, NEW records, NEW status
    PROVE  status \in StatusesOf(c, records) <=> \E a \in records : Says(c, records, a, status)
BY DEF StatusesOf, Says, CandidatesOf

\* It is enough to compare what each record says.
LEMMA LessFromRecords ==
    ASSUME NEW c, NEW d, NEW records,
           \A a \in records : Says(c, records, a, "affected") =>
               \E s \in Answers \ Safe : Says(d, records, a, s),
           \A a \in records : Says(d, records, a, "affected") => Says(c, records, a, "affected")
    PROVE  /\ Verdict(c, records) = "affected" => Verdict(d, records) \notin Safe
           /\ Verdict(c, records) # "affected" => Verdict(d, records) # "affected"
<1>1. ASSUME Verdict(c, records) = "affected"
      PROVE  Verdict(d, records) \notin Safe
    <2>1. PICK a \in records : Says(c, records, a, "affected")
        BY <1>1, VerdictIs, StatusesSaid
    <2>2. PICK s \in Answers \ Safe : Says(d, records, a, s)
        BY <2>1
    <2>3. s \in StatusesOf(d, records)
        BY <2>2, StatusesSaid
    <2> QED
        BY <2>2, <2>3, VerdictIs
<1>2. ASSUME Verdict(d, records) = "affected"
      PROVE  Verdict(c, records) = "affected"
    <2>1. PICK a \in records : Says(d, records, a, "affected")
        BY <1>2, VerdictIs, StatusesSaid
    <2>2. Says(c, records, a, "affected")
        BY <2>1
    <2> QED
        BY <2>2, VerdictIs, StatusesSaid
<1> QED
    BY <1>1, <1>2

\* A component that is the same but for its evidence.
LEMMA SameIdentity ==
    ASSUME NEW c, NEW d, NEW a, NEW records,
           d.ecosystem = c.ecosystem, d.identifier = c.identifier, d.name = c.name,
           d.vendor = c.vendor
    PROVE  /\ IdentityOf(d, a) = IdentityOf(c, a)
           /\ a \in CandidatesOf(d, records) <=> a \in CandidatesOf(c, records)
BY DEF IdentityOf, CandidatesOf

\* What it takes for a record to say that a component is affected.
LEMMA AffectedNeeds ==
    ASSUME NEW c, NEW a, MatchStatusOf(c, a) = "affected"
    PROVE  /\ ~a.withdrawn /\ c.active /\ c.source \in Authoritative /\ c.current
           /\ IdentityOf(c, a) # "uncertain"
           /\ Permits(a.architectures, c.architecture) /\ Permits(a.platforms, c.platform)
           /\ ~(c.ecosystem = "firmware" /\ ~c.confirmed)
           /\ c.version # <<>> /\ VerdictOf(VersionOutcomes(c, a)) = "affected"
BY DEF MatchStatusOf

ComponentsOf(Texts, Readings) ==
    [ecosystem : Texts, identifier : Texts, name : Texts, vendor : Texts, active : BOOLEAN,
     source : Texts, current : BOOLEAN, architecture : Texts, platform : Texts,
     confirmed : BOOLEAN, version : Readings]

\* Less of the evidence: it aged, is of another source, or has no version.
LEMMA LessEvidence ==
    ASSUME NEW Texts, NEW Readings, NEW c \in ComponentsOf(Texts, Readings), NEW records,
           NEW d \in {[c EXCEPT !.current = FALSE], [c EXCEPT !.source = "passive-network-sensor"],
                      [c EXCEPT !.version = <<>>]}
    PROVE  /\ Verdict(c, records) = "affected" => Verdict(d, records) \notin Safe
           /\ Verdict(c, records) # "affected" => Verdict(d, records) # "affected"
<1>1. /\ d.ecosystem = c.ecosystem /\ d.identifier = c.identifier /\ d.name = c.name
      /\ d.vendor = c.vendor /\ d.active = c.active /\ d.architecture = c.architecture
      /\ d.platform = c.platform /\ d.confirmed = c.confirmed
    BY DEF ComponentsOf
<1>2. \/ d.current = FALSE \/ d.source = "passive-network-sensor"
      \/ d.version = <<>> /\ d.current = c.current /\ d.source = c.source
    BY DEF ComponentsOf
<1>3. \A a : MatchStatusOf(d, a) # "affected"
    BY <1>2, AffectedNeeds DEF Authoritative
<1>4. ASSUME NEW a \in records, Says(c, records, a, "affected")
      PROVE  \E s \in Answers \ Safe : Says(d, records, a, s)
    <2>1. IdentityOf(d, a) = IdentityOf(c, a) /\ a \in CandidatesOf(d, records)
          /\ IdentityOf(d, a) # "none"
        BY <1>1, <1>4, SameIdentity DEF Says
    <2>2. MatchStatusOf(d, a) \in {"insufficient-evidence", "version-unknown"}
        <3>1. MatchStatusOf(c, a) = "affected"
            BY <1>4 DEF Says
        <3>2. /\ ~a.withdrawn /\ d.active /\ IdentityOf(d, a) # "uncertain"
              /\ Permits(a.architectures, d.architecture) /\ Permits(a.platforms, d.platform)
              /\ ~(d.ecosystem = "firmware" /\ ~d.confirmed)
            BY <1>1, <2>1, <3>1, AffectedNeeds
        <3>3. CASE d.source \notin Authoritative \/ ~d.current
            BY <3>2, <3>3 DEF MatchStatusOf
        <3>4. CASE d.version = <<>>
            BY <3>2, <3>4 DEF MatchStatusOf
        <3> QED
            BY <1>2, <3>3, <3>4 DEF Authoritative
    <2> QED
        BY <2>1, <2>2, AnswersAre DEF Says, Safe
<1> QED
    BY <1>3, <1>4, LessFromRecords DEF Says

\* Without the identifier the name, or for firmware the vendor, is left.
LEMMA LessIdentity ==
    ASSUME NEW Texts, NEW Readings, NEW c \in ComponentsOf(Texts, Readings), NEW records,
           \A a \in records :
               /\ a.vendor \in {Unsaid, c.vendor}
               /\ a.identifier = c.identifier => a.name = c.name
               /\ c.ecosystem = "firmware" => a.identifier \in {Unsaid, c.identifier},
           NEW d \in {[c EXCEPT !.identifier = Unsaid]}
    PROVE  /\ Verdict(c, records) = "affected" => Verdict(d, records) \notin Safe
           /\ Verdict(c, records) # "affected" => Verdict(d, records) # "affected"
<1>1. /\ d.ecosystem = c.ecosystem /\ d.identifier = Unsaid /\ d.name = c.name
      /\ d.vendor = c.vendor /\ d.active = c.active /\ d.architecture = c.architecture
      /\ d.platform = c.platform /\ d.confirmed = c.confirmed /\ d.current = c.current
      /\ d.source = c.source /\ d.version = c.version
    BY DEF ComponentsOf
<1>2. ASSUME NEW a, IdentityOf(d, a) = IdentityOf(c, a)
      PROVE  MatchStatusOf(d, a) = MatchStatusOf(c, a)
    <2>1. VersionOutcomes(d, a) = VersionOutcomes(c, a)
        BY <1>1 DEF VersionOutcomes
    <2> QED
        BY <1>1, <1>2, <2>1 DEF MatchStatusOf
<1>3. ASSUME NEW a \in records, Says(c, records, a, "affected")
      PROVE  \E s \in Answers \ Safe : Says(d, records, a, s)
    <2>1. /\ IdentityOf(c, a) = "precise" /\ a.vendor \in {Unsaid, c.vendor}
          /\ a.identifier = c.identifier => a.name = c.name
          /\ a.ecosystem = c.ecosystem /\ MatchStatusOf(c, a) = "affected"
        BY <1>3, AffectedNeeds DEF Says, IdentityOf
    <2>2. a.name = c.name
        BY <2>1 DEF IdentityOf
    <2>3. a \in CandidatesOf(d, records)
        BY <1>1, <2>1, <2>2 DEF CandidatesOf
    <2>4. IdentityOf(d, a) \in {"precise", "uncertain"}
        BY <1>1, <2>1, <2>2 DEF IdentityOf
    <2>5. CASE IdentityOf(d, a) = "precise"
        <3>1. MatchStatusOf(d, a) = "affected"
            BY <1>2, <2>1, <2>5
        <3> QED
            BY <2>3, <2>5, <3>1, AnswersAre DEF Says, Safe
    <2>6. CASE IdentityOf(d, a) = "uncertain"
        <3>1. ~a.withdrawn /\ d.active /\ d.source \in Authoritative /\ d.current
            BY <1>1, <2>1, AffectedNeeds
        <3>2. MatchStatusOf(d, a) = "identity-uncertain"
            BY <2>6, <3>1 DEF MatchStatusOf
        <3> QED
            BY <2>3, <2>6, <3>2, AnswersAre DEF Says, Safe
    <2> QED
        BY <2>4, <2>5, <2>6
<1>4. ASSUME NEW a \in records, Says(d, records, a, "affected")
      PROVE  Says(c, records, a, "affected")
    <2>1. IdentityOf(d, a) \notin {"none", "uncertain"} /\ MatchStatusOf(d, a) = "affected"
        BY <1>4, AffectedNeeds DEF Says
    <2>2. /\ c.ecosystem = "firmware" /\ c.ecosystem = a.ecosystem /\ a.name = c.name
          /\ a.identifier \in {Unsaid, c.identifier} /\ c.vendor # Unsaid
          /\ a.vendor = Unsaid \/ a.vendor = c.vendor
        BY <1>1, <2>1 DEF IdentityOf
    <2>3. IdentityOf(c, a) = "precise" /\ IdentityOf(d, a) = "precise"
        BY <1>1, <2>2 DEF IdentityOf
    <2>4. MatchStatusOf(c, a) = "affected"
        BY <1>2, <2>1, <2>3
    <2>5. a \in CandidatesOf(c, records)
        BY <2>2 DEF CandidatesOf
    <2> QED
        BY <2>3, <2>4, <2>5 DEF Says
<1> QED
    BY <1>3, <1>4, LessFromRecords

\* For every component and all records, whatever the comparison of versions says: less evidence
\* makes an affected component no safe one and no other an affected one, and no record hides
\* what another says.
THEOREM MatchingIsSound ==
    ASSUME NEW Texts, NEW Readings, NEW c \in ComponentsOf(Texts, Readings), NEW records
    PROVE  MatchingSoundOn(c, records)
<1>1. ASSUME NEW d \in WithLess(c, records)
      PROVE  /\ Verdict(c, records) = "affected" => Verdict(d, records) \notin Safe
             /\ Verdict(c, records) # "affected" => Verdict(d, records) # "affected"
    <2>1. CASE d \in {[c EXCEPT !.current = FALSE], [c EXCEPT !.source = "passive-network-sensor"],
                      [c EXCEPT !.version = <<>>]}
        BY <2>1, LessEvidence
    <2>2. CASE d \in {[c EXCEPT !.identifier = Unsaid]}
               /\ \A a \in records :
                      /\ a.vendor \in {Unsaid, c.vendor}
                      /\ a.identifier = c.identifier => a.name = c.name
                      /\ c.ecosystem = "firmware" => a.identifier \in {Unsaid, c.identifier}
        BY <2>2, LessIdentity
    <2> QED
        BY <2>1, <2>2 DEF WithLess
<1>2. ASSUME NEW a \in records
      PROVE  StatusesOf(c, {a}) \subseteq StatusesOf(c, records)
    BY DEF StatusesOf, CandidatesOf
<1>3. \A a \in records : Verdict(c, {a}) = "affected" => Verdict(c, records) = "affected"
    BY <1>2, VerdictIs
<1>4. Verdict(c, records) \in Safe => \A a \in records : Verdict(c, {a}) \in Safe
    BY <1>2, VerdictIs
<1>5. \A a \in records : IdentityOf(c, a) # "none" => a \in CandidatesOf(c, records)
    BY DEF IdentityOf, CandidatesOf
<1> DEFINE verdict == [d \in WithLess(c, records) \cup {c} |->
                          [some \in {records} \cup {{a} : a \in records} |-> Verdict(d, some)]]
<1>6. /\ \A d \in WithLess(c, records) \cup {c} : verdict[d][records] = Verdict(d, records)
      /\ \A a \in records : verdict[c][{a}] = Verdict(c, {a})
    OBVIOUS
<1> HIDE DEF verdict
<1>7. /\ \A d \in WithLess(c, records) :
             /\ verdict[c][records] = "affected" => verdict[d][records] \notin Safe
             /\ verdict[c][records] # "affected" => verdict[d][records] # "affected"
      /\ \A a \in records : verdict[c][{a}] = "affected" => verdict[c][records] = "affected"
      /\ verdict[c][records] \in Safe => \A a \in records : verdict[c][{a}] \in Safe
    BY <1>1, <1>3, <1>4, <1>6
<1> QED
    BY <1>5, <1>7 DEF MatchingSoundOn, verdict
================================================================================
