----------------------- MODULE CanonicalIngestion_proofs -----------------------
(***************************************************************************)
(* Proofs about CanonicalIngestion and EvaluationQueue, for every set of   *)
(* sources, assets and requests, every window, limit and bound: what the   *)
(* hub stored, and that no accepted work is forgotten.                     *)
(***************************************************************************)
EXTENDS MCHubIngestion, FiniteSetTheorems, TLAPS

\* The fields of requests, handlers and rows.
LEMMA RequestFields ==
    ASSUME NEW q \in Requests
    PROVE  /\ IdOf(q) \in Ids /\ IdOf(q)[1] = q.source /\ IdOf(q) # NoName
           /\ q.source \in Sources /\ Rank[q.source] \in Nat
           /\ q.observed \in Nat /\ q.assets \subseteq Assets
  BY IngestionConstants DEF IdOf, Ids, NoName

LEMMA CallFields ==
    ASSUME IngestTypeOK, NEW c \in Calls, call[c].pc # "idle"
    PROVE  /\ call[c] \in Handling
           /\ call[c].q \in Requests /\ call[c].at \in 0..MaxTime
<1>1. call[c] # NoCall
  BY DEF NoCall
<1> QED BY <1>1 DEF IngestTypeOK, Handling

LEMMA RowFields ==
    ASSUME IngestTypeOK, NEW i \in Stored
    PROVE  /\ i \in Ids /\ rows[i] \in Row
           /\ rows[i].state \in EvaluationState /\ rows[i].q \in Requests
           /\ rows[i].at \in 0..MaxTime /\ rows[i].work \subseteq rows[i].q.assets
           /\ IdOf(rows[i].q) = i
<1>1. i \in Ids /\ rows[i] # NoRow /\ rows[i] \in Row
  BY DEF IngestTypeOK, Stored
<1> QED BY <1>1 DEF IngestTypeOK, Row

\* An evaluation state is one of a stored collection.
LEMMA StateIsStored ==
    ASSUME IngestTypeOK, NEW i \in Ids, rows[i].state # "none"
    PROVE  i \in Stored
  BY DEF Stored, NoRow

LEMMA InitIngest == IngestInit => IngestInv
<1> SUFFICES ASSUME IngestInit PROVE IngestInv
  OBVIOUS
<1> USE DEF IngestInit
<1>1. IngestTypeOK
  BY IngestionConstants DEF IngestTypeOK
<1>2. Stored = {}
  BY DEF Stored
<1>3. IsFiniteSet(Stored)
  BY <1>2, FS_EmptySet
<1>4. AuthorityIsStored /\ StrongestWins /\ AnswerIsStored
  BY <1>2 DEF AuthorityIsStored, StrongestWins, AnswerIsStored
<1>5. AdmissionBound
  <2> SUFFICES ASSUME NEW t \in -Window..MaxTime, NEW s \in Sources
               PROVE  Cardinality({i \in Scope(s) : /\ s \in Bound \/ i[1] \notin Bound
                                      /\ t < rows[i].at /\ rows[i].at <= t + Window}) <= Limit
    BY DEF AdmissionBound
  <2> DEFINE X == {i \in Scope(s) : /\ s \in Bound \/ i[1] \notin Bound
                                    /\ t < rows[i].at /\ rows[i].at <= t + Window}
  <2>1. X = {}
    BY <1>2 DEF Scope
  <2> HIDE DEF X
  <2>2. Cardinality(X) = 0
    BY <2>1, FS_EmptySet
  <2>3. Cardinality(X) <= Limit
    BY <2>2, IngestionConstants
  <2> QED BY <2>3 DEF X
<1> QED BY <1>1, <1>3, <1>4, <1>5 DEF IngestInv

--------------------------------------------------------------------------------
(* Steps that store no collection.                                         *)

\* Nothing but the evaluation states of the stored collections moves, and nothing
\* is answered that is not stored.
RowsKept ==
    /\ Stored' = Stored
    /\ \A i \in Stored : rows'[i].q = rows[i].q /\ rows'[i].at = rows[i].at
                         /\ rows'[i].work = rows[i].work
    /\ UNCHANGED <<authority, table>>
    /\ \A q \in told' : q \in told \/ Identical(q)

LEMMA RowsKeptKeep ==
    ASSUME IngestInv, IngestTypeOK', RowsKept
    PROVE  IngestInv'
<1> USE DEF IngestInv, RowsKept
<1>1. IsFiniteSet(Stored)'
  OBVIOUS
<1>2. AuthorityIsStored'
  BY DEF AuthorityIsStored
<1>3. StrongestWins'
  BY DEF StrongestWins
<1>4. AdmissionBound'
  <2> SUFFICES ASSUME NEW t \in -Window..MaxTime, NEW s \in Sources
               PROVE  Cardinality({i \in Scope(s)' : /\ s \in Bound \/ i[1] \notin Bound
                                      /\ t < rows'[i].at /\ rows'[i].at <= t + Window}) <= Limit
    BY DEF AdmissionBound
  <2>1. Scope(s)' = Scope(s) /\ Scope(s) \subseteq Stored
    BY DEF Scope
  <2>2. {i \in Scope(s)' : /\ s \in Bound \/ i[1] \notin Bound
                           /\ t < rows'[i].at /\ rows'[i].at <= t + Window}
          = {i \in Scope(s) : /\ s \in Bound \/ i[1] \notin Bound
                              /\ t < rows[i].at /\ rows[i].at <= t + Window}
    BY <2>1
  <2> QED BY <2>2 DEF AdmissionBound
<1>5. AnswerIsStored'
  <2> SUFFICES ASSUME NEW q \in told' PROVE Identical(q)'
    BY DEF AnswerIsStored
  <2>1. Identical(q)
    BY DEF AnswerIsStored
  <2>2. q \in Requests
    BY DEF IngestTypeOK
  <2>3. IdOf(q) \in Stored
    BY <2>1, <2>2, RequestFields DEF Identical, Stored
  <2>4. rows'[IdOf(q)] # NoRow /\ rows'[IdOf(q)].q.content = q.content
    BY <2>1, <2>3 DEF Identical, Stored
  <2> QED BY <2>4 DEF Identical
<1> QED BY <1>1, <1>2, <1>3, <1>4, <1>5

\* The steps of a request that do not store it.
LEMMA StepUnstored ==
    ASSUME IngestInv,
           Tick \/ \E c \in Calls : \/ Receive(c) \/ LookupReplay(c) \/ PersistReplay(c)
                                    \/ RollBack(c) \/ Answer(c)
    PROVE  /\ IngestInv' /\ UNCHANGED rows
           /\ \A c \in Calls : call'[c].pc = "accepted" => call'[c] = call[c]
<1> USE DEF IngestInv
<1>1. UNCHANGED <<rows, authority, table>>
  BY DEF Tick, Receive, LookupReplay, PersistReplay, Replay, RollBack, Answer
<1>2. now' \in 0..MaxTime
  BY IngestionConstants DEF Tick, Receive, LookupReplay, PersistReplay, Replay, RollBack, Answer,
     IngestTypeOK
<1>3. /\ call' \in [Calls -> Handling \cup {NoCall}]
      /\ \A c \in Calls : call'[c].pc = "accepted" => call'[c] = call[c]
  <2>1. CASE UNCHANGED call
    BY <2>1 DEF IngestTypeOK
  <2>2. ASSUME NEW c \in Calls, NEW w \in Handling \cup {NoCall}, w.pc # "accepted",
               call' = [call EXCEPT ![c] = w]
        PROVE  /\ call' \in [Calls -> Handling \cup {NoCall}]
               /\ \A k \in Calls : call'[k].pc = "accepted" => call'[k] = call[k]
    BY <2>2 DEF IngestTypeOK
  <2>3. ASSUME NEW c \in Calls, call' = [call EXCEPT ![c] = NoCall]
        PROVE  /\ call' \in [Calls -> Handling \cup {NoCall}]
               /\ \A k \in Calls : call'[k].pc = "accepted" => call'[k] = call[k]
    <3>1. NoCall.pc # "accepted"
      BY DEF NoCall
    <3> QED BY <2>2, <2>3, <3>1
  <2>4. ASSUME NEW c \in Calls, Receive(c)
        PROVE  /\ call' \in [Calls -> Handling \cup {NoCall}]
               /\ \A k \in Calls : call'[k].pc = "accepted" => call'[k] = call[k]
    <3>1. PICK q \in Requests :
            call' = [call EXCEPT ![c] = [pc |-> IF q.source \in Bound THEN "persist" ELSE "lookup",
                                         q |-> q, at |-> now]]
      BY <2>4 DEF Receive
    <3> DEFINE w == [pc |-> IF q.source \in Bound THEN "persist" ELSE "lookup",
                     q |-> q, at |-> now]
    <3>2. w \in Handling /\ w.pc # "accepted"
      BY DEF Handling, IngestTypeOK
    <3> HIDE DEF w
    <3>3. call' = [call EXCEPT ![c] = w]
      BY <3>1 DEF w
    <3> QED BY <2>2, <3>2, <3>3
  <2>5. ASSUME NEW c \in Calls, LookupReplay(c)
        PROVE  /\ call' \in [Calls -> Handling \cup {NoCall}]
               /\ \A k \in Calls : call'[k].pc = "accepted" => call'[k] = call[k]
    <3> DEFINE w == [call[c] EXCEPT !.pc = "persist"]
    <3>1. w \in Handling /\ w.pc # "accepted"
      BY <2>5, CallFields DEF LookupReplay, Handling
    <3>2. call' = [call EXCEPT ![c] = w] \/ call' = [call EXCEPT ![c] = NoCall]
      BY <2>5 DEF LookupReplay, Replay
    <3> HIDE DEF w
    <3> QED BY <2>2, <2>3, <3>1, <3>2
  <2> QED BY <2>1, <2>3, <2>4, <2>5 DEF Tick, PersistReplay, Replay, RollBack, Answer
<1>4. seen' \in [Sources -> 0..MaxTime]
  <2>1. CASE UNCHANGED seen
    BY <2>1 DEF IngestTypeOK
  <2>2. ASSUME NEW c \in Calls, PersistReplay(c) PROVE seen' \in [Sources -> 0..MaxTime]
    <3>1. call[c].q.source \in Sources /\ call[c].at \in 0..MaxTime
      BY <2>2, CallFields, RequestFields DEF PersistReplay
    <3> QED BY <2>2, <3>1 DEF PersistReplay, Saw, IngestTypeOK
  <2> QED BY <2>1, <2>2 DEF Tick, Receive, LookupReplay, RollBack, Answer
<1>5. told' \subseteq Requests /\ \A q \in told' : q \in told \/ Identical(q)
  <2>1. CASE UNCHANGED told
    BY <2>1 DEF IngestTypeOK
  <2>2. ASSUME NEW c \in Calls, call[c].pc \in {"lookup", "persist"}, Replay(c)
        PROVE  told' \subseteq Requests /\ \A q \in told' : q \in told \/ Identical(q)
    BY <2>2, CallFields DEF Replay, IngestTypeOK
  <2> QED BY <2>1, <2>2 DEF Tick, Receive, LookupReplay, PersistReplay, RollBack, Answer
<1>6. IngestTypeOK'
  BY <1>1, <1>2, <1>3, <1>4, <1>5 DEF IngestTypeOK
<1>7. RowsKept
  BY <1>1, <1>5 DEF RowsKept, Stored
<1> QED BY <1>1, <1>3, <1>6, <1>7, RowsKeptKeep

--------------------------------------------------------------------------------
(* The step that stores a collection.                                      *)

LEMMA StoreRows ==
    ASSUME IngestInv, NEW c \in Calls, Store(c)
    PROVE  LET q == call[c].q
               won == {a \in q.assets : Replaces(q, a)}
           IN  /\ q \in Requests /\ call[c].at \in 0..MaxTime
               /\ IdOf(q) \in Ids \ Stored
               /\ Stored' = Stored \cup {IdOf(q)}
               /\ rows'[IdOf(q)].q = q /\ rows'[IdOf(q)].at = call[c].at
               /\ rows'[IdOf(q)].work = won /\ rows'[IdOf(q)] # NoRow
               /\ \A i \in Ids : i # IdOf(q) => rows'[i] = rows[i]
               /\ IngestTypeOK'
               /\ \A k \in Calls : k # c => call'[k] = call[k]
               /\ call'[c].pc \in {"idle", "accepted"}
               /\ call'[c].pc = "accepted" => call'[c].q = q
               /\ rows'[IdOf(q)].state \in {"queued", "not-required"}
               /\ rows'[IdOf(q)].state = "queued" => call'[c].pc = "accepted"
<1> DEFINE q == call[c].q
           at == call[c].at
           won == {a \in q.assets : Replaces(q, a)}
           i0 == IdOf(q)
<1> USE DEF IngestInv
<1>1. /\ call[c].pc = "persist" /\ call[c] \in Handling
      /\ q \in Requests /\ at \in 0..MaxTime /\ i0 \in Ids
  BY CallFields, RequestFields DEF Store
<1>2. q.source \in Sources /\ Rank[q.source] \in Nat /\ q.observed \in Nat /\ q.assets \subseteq Assets
  BY <1>1, RequestFields
<1>3. i0 \notin Stored
  BY DEF Store, Unclaimed, Stored
<1> DEFINE row == Collection(q, at, won)
<1>4. row \in Row /\ row # NoRow /\ row.q = q /\ row.work = won /\ row.at = at
      /\ row.state \in {"queued", "not-required"}
      /\ (row.state = "queued" <=> won # {})
  <2>1. won \subseteq Assets
    BY <1>2
  <2>2. row.state \in {"queued", "not-required"}
    BY DEF Collection
  <2>3. row # NoRow
    BY <2>2 DEF NoRow
  <2> QED BY <1>1, <2>1, <2>2, <2>3 DEF Collection, Row, EvaluationState
<1>5. rows' = [rows EXCEPT ![i0] = row]
  BY DEF Store
<1> HIDE DEF row
<1>6. rows' \in [Ids -> Row \cup {NoRow}] /\ rows'[i0] = row
      /\ \A i \in Ids : i # i0 => rows'[i] = rows[i]
  BY <1>1, <1>4, <1>5 DEF IngestTypeOK
<1>7. Stored' = Stored \cup {i0}
  <2>1. i0 \in Ids
    BY <1>1
  <2> HIDE DEF i0
  <2> QED BY <1>4, <1>6, <2>1 DEF Stored
<1>8. /\ authority' \in [Assets -> Authority \cup {NoAsset}]
      /\ table' \in [Assets -> Description \cup {NoAsset}]
  <2>1. authority' = [a \in Assets |-> IF a \in won THEN Attributed(q) ELSE authority[a]]
    BY DEF Store
  <2>2. table' = [a \in Assets |-> IF a \in won THEN Describe(q, a) ELSE table[a]]
    BY DEF Store
  <2>3. Attributed(q) \in Authority
    BY <1>1, <1>2 DEF Attributed, Authority
  <2>4. Own(q) \in Ids \cup {NoName}
    BY <1>1 DEF Own
  <2>5. ASSUME NEW a \in won PROVE Describe(q, a) \in Description \cup {NoAsset}
    <3>1. a \in Assets /\ table[a] \in Description \cup {NoAsset}
      BY <1>2 DEF IngestTypeOK
    <3>2. Overwritten(q) \in Description
      BY <1>1, <1>2, <2>4 DEF Overwritten, Description
    <3>3. ASSUME table[a] # NoAsset
          PROVE  [observed |-> q.observed, by |-> IdOf(q),
                  name |-> IF q.named THEN IdOf(q) ELSE table[a].name] \in Description
      BY <1>1, <1>2, <3>1, <3>3 DEF Description
    <3>4. authority[a] # NoAsset => table[a] # NoAsset
      BY <3>1 DEF AuthorityIsStored
    <3> QED BY <3>1, <3>2, <3>3, <3>4 DEF Describe
  <2> HIDE DEF won
  <2> QED BY <2>1, <2>2, <2>3, <2>5 DEF IngestTypeOK
<1>9. seen' \in [Sources -> 0..MaxTime] /\ told' \subseteq Requests /\ now' \in 0..MaxTime
  BY <1>1, <1>2 DEF Store, Saw, IngestTypeOK
<1>10. /\ call' \in [Calls -> Handling \cup {NoCall}]
       /\ \A k \in Calls : k # c => call'[k] = call[k]
       /\ call'[c].pc \in {"idle", "accepted"}
       /\ call'[c].pc = "accepted" => call'[c].q = q
       /\ won # {} => call'[c].pc = "accepted"
  <2> DEFINE w == [call[c] EXCEPT !.pc = "accepted"]
  <2>1. w \in Handling /\ w.pc = "accepted" /\ w.q = q
    BY <1>1 DEF Handling
  <2>2. call' = [call EXCEPT ![c] = IF won = {} THEN NoCall ELSE w]
    BY DEF Store
  <2> HIDE DEF w, won
  <2>3. /\ call' \in [Calls -> Handling \cup {NoCall}]
        /\ \A k \in Calls : k # c => call'[k] = call[k]
        /\ call'[c] = IF won = {} THEN NoCall ELSE w
    BY <2>1, <2>2 DEF IngestTypeOK
  <2> QED BY <2>1, <2>3 DEF NoCall
<1>11. \A i \in Ids : rows'[i] # NoRow =>
          IdOf(rows'[i].q) = i /\ rows'[i].work \subseteq rows'[i].q.assets
  <2> SUFFICES ASSUME NEW i \in Ids, rows'[i] # NoRow
               PROVE  IdOf(rows'[i].q) = i /\ rows'[i].work \subseteq rows'[i].q.assets
    OBVIOUS
  <2>1. CASE i = i0
    BY <1>4, <1>6, <2>1
  <2>2. CASE i # i0
    BY <1>6, <2>2 DEF IngestTypeOK
  <2> QED BY <2>1, <2>2
<1>12. IngestTypeOK'
  BY <1>6, <1>8, <1>9, <1>10, <1>11 DEF IngestTypeOK
<1> QED BY <1>1, <1>3, <1>4, <1>6, <1>7, <1>10, <1>12

\* The asset rows after a collection was stored.
LEMMA StoreKeepsAuthority ==
    ASSUME IngestInv, NEW c \in Calls, Store(c)
    PROVE  AuthorityIsStored' /\ StrongestWins'
<1> USE DEF IngestInv
<1>q. PICK q \in Requests : q = call[c].q
  BY StoreRows
<1>w. PICK won \in SUBSET Assets : won = {a \in q.assets : Replaces(q, a)}
  BY RequestFields
<1>i. PICK i0 \in Ids : i0 = IdOf(q)
  BY RequestFields
<1>1. /\ i0 \notin Stored /\ Stored' = Stored \cup {i0}
      /\ rows'[i0].q = q /\ rows'[i0].work = won
      /\ \A i \in Stored : rows'[i] = rows[i]
  BY <1>q, <1>w, <1>i, StoreRows DEF Stored
<1>2. /\ authority' = [a \in Assets |-> IF a \in won THEN Attributed(q) ELSE authority[a]]
      /\ table' = [a \in Assets |-> IF a \in won THEN Describe(q, a) ELSE table[a]]
  BY <1>q, <1>w DEF Store
<1>3. /\ Rank[q.source] \in Nat /\ q.observed \in Nat
      /\ i0 # NoName /\ i0[1] = q.source
  BY <1>i, RequestFields
<1>4. Attributed(q) # NoAsset /\ Attributed(q).by = i0 /\ Attributed(q).rank = Rank[q.source]
      /\ Attributed(q).observed = q.observed
  BY <1>3, <1>i DEF Attributed, NoAsset
\* An asset the collection won.
<1>5. ASSUME NEW a \in won
      PROVE  /\ Describe(q, a).by = i0 /\ Describe(q, a).observed = q.observed
             /\ Describe(q, a) # NoAsset
             /\ Describe(q, a).name # NoName => Rank[Describe(q, a).name[1]] = Rank[q.source]
  <2>1. a \in Assets /\ a \in q.assets /\ Replaces(q, a)
    BY <1>w
  <2>2. CASE authority[a] = NoAsset \/ Rank[q.source] > authority[a].rank
    <3>1. Describe(q, a) = Overwritten(q)
      BY <2>2 DEF Describe
    <3> QED BY <1>3, <1>i, <3>1 DEF Overwritten, Own, NoAsset
  <2>3. CASE ~(authority[a] = NoAsset \/ Rank[q.source] > authority[a].rank)
    <3>1. /\ authority[a] # NoAsset /\ Rank[q.source] = authority[a].rank
          /\ q.observed >= authority[a].observed
      BY <2>1, <2>3 DEF Replaces
    <3>2. /\ table[a].observed = authority[a].observed
          /\ table[a].name # NoName => Rank[table[a].name[1]] = authority[a].rank
      BY <2>1, <3>1 DEF AuthorityIsStored
    <3>3. Describe(q, a) = [observed |-> q.observed, by |-> IdOf(q),
                            name |-> IF q.named THEN IdOf(q) ELSE table[a].name]
      BY <2>3, <3>1, <3>2 DEF Describe
    <3> QED BY <1>3, <1>i, <3>1, <3>2, <3>3 DEF NoAsset
  <2> QED BY <2>2, <2>3
<1>6. AuthorityIsStored'
  <2> SUFFICES ASSUME NEW a \in Assets, authority'[a] # NoAsset
               PROVE  /\ authority'[a].by \in Stored' /\ a \in rows'[authority'[a].by].work
                      /\ table'[a] # NoAsset
                      /\ table'[a].by = authority'[a].by
                      /\ table'[a].observed = authority'[a].observed
                      /\ table'[a].name # NoName =>
                           Rank[table'[a].name[1]] = authority'[a].rank
    BY DEF AuthorityIsStored
  <2>1. CASE a \in won
    <3>1. authority'[a] = Attributed(q) /\ table'[a] = Describe(q, a)
      BY <1>2, <2>1
    <3> QED BY <1>1, <1>4, <1>5, <2>1, <3>1
  <2>2. CASE a \notin won
    <3>1. authority'[a] = authority[a] /\ table'[a] = table[a]
      BY <1>2, <2>2
    <3> QED BY <1>1, <3>1 DEF AuthorityIsStored
  <2> QED BY <2>1, <2>2
<1>7. StrongestWins'
  <2> SUFFICES ASSUME NEW a \in Assets, NEW i \in Stored', a \in rows'[i].q.assets
               PROVE  /\ authority'[a] # NoAsset
                      /\ \/ Rank[i[1]] < authority'[a].rank
                         \/ /\ Rank[i[1]] = authority'[a].rank
                            /\ rows'[i].q.observed <= authority'[a].observed
    BY <1>6 DEF StrongestWins, AuthorityIsStored
  <2>0. authority[a] # NoAsset => authority[a].rank \in Nat /\ authority[a].observed \in Nat
    BY DEF IngestTypeOK, Authority
  <2>1. CASE a \in won
    <3>1. authority'[a] = Attributed(q)
      BY <1>2, <2>1
    <3>2. CASE i = i0
      BY <1>1, <1>3, <1>4, <3>1, <3>2
    <3>3. CASE i \in Stored
      <4>1. /\ authority[a] # NoAsset
            /\ \/ Rank[i[1]] < authority[a].rank
               \/ Rank[i[1]] = authority[a].rank /\ rows[i].q.observed <= authority[a].observed
        BY <1>1, <3>3 DEF StrongestWins
      <4>2. \/ Rank[q.source] > authority[a].rank
            \/ Rank[q.source] = authority[a].rank /\ q.observed >= authority[a].observed
        BY <1>w, <2>1, <4>1 DEF Replaces
      <4>3. Rank[i[1]] \in Nat /\ rows[i].q.observed \in Nat /\ rows'[i] = rows[i]
        BY <1>1, <3>3, RowFields, RequestFields
      <4> QED BY <1>3, <1>4, <2>0, <3>1, <4>1, <4>2, <4>3
    <3> QED BY <1>1, <3>2, <3>3
  <2>2. CASE a \notin won
    <3>1. authority'[a] = authority[a]
      BY <1>2, <2>2
    <3>2. CASE i = i0
      <4>1. ~Replaces(q, a)
        BY <1>1, <1>w, <2>2, <3>2
      <4> QED BY <1>1, <1>3, <2>0, <3>1, <3>2, <4>1 DEF Replaces
    <3>3. CASE i \in Stored
      BY <1>1, <3>1, <3>3 DEF StrongestWins
    <3> QED BY <1>1, <3>2, <3>3
  <2> QED BY <2>1, <2>2
<1> QED BY <1>6, <1>7

\* Admission: the collections that share a window with the new one were counted.
LEMMA StoreKeepsAdmission ==
    ASSUME IngestInv, NEW c \in Calls, Store(c)
    PROVE  IsFiniteSet(Stored)' /\ AdmissionBound'
<1> USE DEF IngestInv
<1>q. PICK q \in Requests : q = call[c].q
  BY StoreRows
<1>a. PICK at \in 0..MaxTime : at = call[c].at
  BY StoreRows
<1>i. PICK i0 \in Ids : i0 = IdOf(q)
  BY RequestFields
<1>1. /\ i0 \notin Stored /\ Stored' = Stored \cup {i0} /\ rows'[i0].at = at
      /\ \A i \in Stored : rows'[i] = rows[i]
  BY <1>q, <1>a, <1>i, StoreRows DEF Stored
<1>2. IsFiniteSet(Stored')
  BY <1>1, FS_AddElement
<1>3. Cardinality({i \in Scope(q.source) : rows[i].at > at - Window}) < Limit
  BY <1>q, <1>a DEF Store, Admitted
<1>4. Limit \in Nat /\ Window \in Nat /\ i0[1] = q.source /\ q.source \in Sources
  BY <1>i, IngestionConstants, RequestFields
<1>5. ASSUME NEW t \in -Window..MaxTime, NEW s \in Sources
      PROVE  Cardinality({i \in Scope(s)' : /\ s \in Bound \/ i[1] \notin Bound
                             /\ t < rows'[i].at /\ rows'[i].at <= t + Window}) <= Limit
  <2> DEFINE X == {i \in Scope(s) : /\ s \in Bound \/ i[1] \notin Bound
                                    /\ t < rows[i].at /\ rows[i].at <= t + Window}
             Y == {i \in Scope(s)' : /\ s \in Bound \/ i[1] \notin Bound
                                     /\ t < rows'[i].at /\ rows'[i].at <= t + Window}
             Z == {i \in Scope(q.source) : rows[i].at > at - Window}
  <2>1. /\ Scope(s) \subseteq Stored /\ Scope(s)' \subseteq Stored'
        /\ \A i \in Stored : i \in Scope(s)' <=> i \in Scope(s)
    BY <1>1 DEF Scope
  <2>2. X \subseteq Stored /\ Z \subseteq Stored
    BY <2>1 DEF Scope
  <2>3. IsFiniteSet(X) /\ IsFiniteSet(Z)
    BY <2>2, FS_Subset
  <2>4. Cardinality(X) <= Limit
    BY DEF AdmissionBound
  <2>5. Y \ {i0} = X
    BY <1>1, <2>1
  <2>6. CASE i0 \notin Y
    <3>1. Y = X
      BY <2>5, <2>6
    <3> HIDE DEF X, Y
    <3>2. Cardinality(Y) <= Limit
      BY <2>4, <3>1
    <3> QED BY <3>2 DEF Y
  <2>7. CASE i0 \in Y
    <3>1. /\ s \in Bound \/ q.source \notin Bound
          /\ t < at /\ at <= t + Window
          /\ IF s \in Bound THEN q.source = s ELSE Adapter[q.source] = Adapter[s]
      BY <1>1, <1>4, <2>7 DEF Scope
    <3>2. X \subseteq Z
      <4> SUFFICES ASSUME NEW i \in X PROVE i \in Z
        OBVIOUS
      <4>1. i \in Stored /\ rows[i].at \in 0..MaxTime
        BY <2>2, RowFields
      <4>2. rows[i].at > at - Window
        BY <1>4, <3>1, <4>1
      <4>3. i \in Scope(q.source)
        BY <3>1, <4>1 DEF Scope
      <4> QED BY <4>2, <4>3
    <3>3. Y = X \cup {i0} /\ i0 \notin X
      BY <1>1, <2>2, <2>5, <2>7
    <3>4. Cardinality(Z) < Limit
      BY <1>3
    <3> HIDE DEF X, Y, Z
    <3>5. Cardinality(X) <= Cardinality(Z) /\ Cardinality(X) \in Nat /\ Cardinality(Z) \in Nat
      BY <2>3, <3>2, FS_Subset, FS_CardinalityType
    <3>6. Cardinality(Y) = Cardinality(X) + 1
      BY <2>3, <3>3, FS_AddElement
    <3>7. Cardinality(Y) <= Limit
      BY <1>4, <3>4, <3>5, <3>6
    <3> QED BY <3>7 DEF Y
  <2> QED BY <2>6, <2>7
<1>6. AdmissionBound'
  BY <1>5 DEF AdmissionBound
<1> QED BY <1>2, <1>6

LEMMA StepStore ==
    ASSUME IngestInv, NEW c \in Calls, Store(c)
    PROVE  IngestInv'
<1> USE DEF IngestInv
<1>1. IngestTypeOK'
  BY StoreRows
<1>2. AuthorityIsStored' /\ StrongestWins'
  BY StoreKeepsAuthority
<1>3. IsFiniteSet(Stored)' /\ AdmissionBound'
  BY StoreKeepsAdmission
<1>4. AnswerIsStored'
  <2>1. PICK q \in Requests : q = call[c].q
    BY StoreRows
  <2>2. /\ rows'[IdOf(q)].q = q /\ rows'[IdOf(q)] # NoRow
        /\ IdOf(q) \notin Stored
        /\ \A i \in Ids : i # IdOf(q) => rows'[i] = rows[i]
    BY <2>1, StoreRows
  <2>3. told' = told \cup {q}
    BY <2>1 DEF Store
  <2>4. Identical(q)'
    BY <2>2 DEF Identical
  <2>5. ASSUME NEW r \in told PROVE Identical(r)'
    <3>1. Identical(r) /\ r \in Requests
      BY DEF AnswerIsStored, IngestTypeOK
    <3>2. IdOf(r) \in Ids /\ IdOf(r) # IdOf(q)
      BY <2>2, <3>1, RequestFields DEF Identical, Stored
    <3> QED BY <2>2, <3>1, <3>2 DEF Identical
  <2> QED BY <2>3, <2>4, <2>5 DEF AnswerIsStored
<1> QED BY <1>1, <1>2, <1>3, <1>4

LEMMA StutterIngest ==
    ASSUME IngestInv, UNCHANGED ingestVars
    PROVE  IngestInv'
<1> USE DEF IngestInv, ingestVars
<1>1. IngestTypeOK'
  BY DEF IngestTypeOK
<1>2. RowsKept
  BY DEF RowsKept, Stored
<1> QED BY <1>1, <1>2, RowsKeptKeep

--------------------------------------------------------------------------------
(* The evaluation queue.                                                   *)

HubStates == {"none", "scheduled", "claimed", "projected", "evaluated", "failing", "leaving"}

LEMMA InitHub == HubInit => HubInv
<1> SUFFICES ASSUME HubInit PROVE HubInv
  OBVIOUS
<1> USE DEF HubInit
<1>1. IngestInv
  BY InitIngest
<1>2. QueueTypeOK
  BY <1>1, QueueConstants DEF QueueTypeOK, IngestInv
<1>3. \A i \in Ids : rows[i].state = "none" /\ worker[i] = "none"
  BY DEF IngestInit, NoRow
<1>4. HandsHoldStored
  BY <1>3 DEF HandsHoldStored, IngestInit, NoCall
<1>5. NotForgotten /\ RunningHasTask /\ QueuedHasHand
  BY <1>3 DEF NotForgotten, Unfinished, RunningHasTask, QueuedHasHand
<1> QED BY <1>1, <1>2, <1>4, <1>5 DEF HubInv

\* A hand on a collection that is not the task's own.
Claimant(i) ==
    \/ \E c \in Calls : call[c].pc = "accepted" /\ IdOf(call[c].q) = i
    \/ \E d \in Admins : retry[d].pc = "requeued" /\ retry[d].id = i

\* What the invariant says of one collection.
Held(i) ==
    /\ Unfinished(i) => worker[i] # "none" \/ Claimant(i) \/ i \in abandoned \cup crossed
    /\ worker[i] \in {"claimed", "projected", "evaluated"} => rows[i].state = "running"
    /\ rows[i].state = "running" =>
          worker[i] \in {"claimed", "projected", "evaluated", "failing"} \/ i \in abandoned
    /\ rows[i].state = "queued" =>
          worker[i] \in {"scheduled", "failing"} \/ Claimant(i) \/ i \in abandoned \cup crossed

LEMMA HeldIs ==
    NotForgotten /\ RunningHasTask /\ QueuedHasHand <=> \A i \in Ids : Held(i)
  BY DEF NotForgotten, RunningHasTask, QueuedHasHand, Held, Claimant, InHand

LEMMA HeldIsNext ==
    ASSUME \A i \in Ids : Held(i)'
    PROVE  NotForgotten' /\ RunningHasTask' /\ QueuedHasHand'
  BY DEF NotForgotten, RunningHasTask, QueuedHasHand, Held, Claimant, InHand

\* Setting the state of a stored collection.
LEMMA SetStateEffect ==
    ASSUME IngestInv, NEW i \in Stored, NEW s \in EvaluationState, SetState(i, s)
    PROVE  /\ rows' \in [Ids -> Row \cup {NoRow}]
           /\ Stored' = Stored
           /\ \A k \in Stored : rows'[k].q = rows[k].q /\ rows'[k].at = rows[k].at
                                /\ rows'[k].work = rows[k].work
           /\ \A k \in Ids : rows'[k] # NoRow =>
                 IdOf(rows'[k].q) = k /\ rows'[k].work \subseteq rows'[k].q.assets
           /\ rows'[i].state = s
           /\ \A k \in Ids : k # i => rows'[k] = rows[k]
<1> USE DEF IngestInv
<1>1. i \in Ids /\ rows[i] \in Row /\ rows[i] # NoRow
  BY RowFields DEF Stored
<1> DEFINE w == [rows[i] EXCEPT !.state = s]
<1>2. /\ w \in Row /\ w.q = rows[i].q /\ w.at = rows[i].at /\ w.work = rows[i].work
      /\ w.state = s
  BY <1>1 DEF Row
<1>3. w # NoRow
  BY <1>2 DEF NoRow, EvaluationState
<1>4. rows' = [rows EXCEPT ![i] = w]
  BY DEF SetState
<1> HIDE DEF w
<1>5. /\ rows' \in [Ids -> Row \cup {NoRow}] /\ rows'[i] = w
      /\ \A k \in Ids : k # i => rows'[k] = rows[k]
  BY <1>1, <1>2, <1>4 DEF IngestTypeOK
<1>6. Stored' = Stored
  BY <1>1, <1>3, <1>5 DEF Stored
<1>7. \A k \in Stored : rows'[k].q = rows[k].q /\ rows'[k].at = rows[k].at
                        /\ rows'[k].work = rows[k].work
  BY <1>2, <1>5 DEF Stored
<1>8. ASSUME NEW k \in Ids, rows'[k] # NoRow
      PROVE  IdOf(rows'[k].q) = k /\ rows'[k].work \subseteq rows'[k].q.assets
  BY <1>1, <1>2, <1>5, <1>8 DEF IngestTypeOK
<1> QED BY <1>2, <1>5, <1>6, <1>7, <1>8

\* The hub's own steps keep what ingestion stored.
LEMMA StateStep ==
    ASSUME IngestInv,
           UNCHANGED rows \/ \E i \in Stored, s \in EvaluationState : SetState(i, s),
           UNCHANGED <<now, authority, table, seen, told>>,
           call' \in [Calls -> Handling \cup {NoCall}]
    PROVE  IngestInv' /\ Stored' = Stored
<1> USE DEF IngestInv
<1>1. /\ rows' \in [Ids -> Row \cup {NoRow}]
      /\ Stored' = Stored
      /\ \A k \in Stored : rows'[k].q = rows[k].q /\ rows'[k].at = rows[k].at
                           /\ rows'[k].work = rows[k].work
      /\ \A k \in Ids : rows'[k] # NoRow =>
            IdOf(rows'[k].q) = k /\ rows'[k].work \subseteq rows'[k].q.assets
  <2>1. CASE UNCHANGED rows
    BY <2>1 DEF IngestTypeOK, Stored
  <2>2. CASE \E i \in Stored, s \in EvaluationState : SetState(i, s)
    BY <2>2, SetStateEffect
  <2> QED BY <2>1, <2>2
<1>2. IngestTypeOK'
  BY <1>1 DEF IngestTypeOK
<1>3. RowsKept
  BY <1>1 DEF RowsKept
<1> QED BY <1>1, <1>2, <1>3, RowsKeptKeep

\* Nobody but the queueing handler ends a call that was accepted.
LEMMA AcceptedStays ==
    ASSUME IngestTypeOK, Tick \/ \E c \in Calls : Handle(c),
           NEW k \in Calls, call[k].pc = "accepted"
    PROVE  call'[k] = call[k]
<1>1. CASE UNCHANGED call
  BY <1>1
<1>2. ASSUME NEW c \in Calls, call[c].pc # "accepted", NEW w, call' = [call EXCEPT ![c] = w]
      PROVE  call'[k] = call[k]
  BY <1>2 DEF IngestTypeOK
<1>3. ASSUME NEW c \in Calls, Handle(c)
      PROVE  call[c].pc # "accepted" /\ \E w : call' = [call EXCEPT ![c] = w]
  <2>1. call[c].pc # "accepted"
    BY <1>3 DEF Handle, Receive, LookupReplay, PersistReplay, Store, RollBack, NoCall
  <2>2. CASE Receive(c)
    <3>1. PICK q \in Requests :
            call' = [call EXCEPT ![c] = [pc |-> IF q.source \in Bound THEN "persist" ELSE "lookup",
                                         q |-> q, at |-> now]]
      BY <2>2 DEF Receive
    <3> QED BY <2>1, <3>1
  <2>3. CASE LookupReplay(c) \/ PersistReplay(c) \/ RollBack(c)
    BY <2>3 DEF LookupReplay, PersistReplay, Replay, RollBack
  <2>4. CASE Store(c)
    BY <2>4 DEF Store
  <2> QED BY <1>3, <2>1, <2>2, <2>3, <2>4 DEF Handle
<1> QED BY <1>1, <1>2, <1>3 DEF Tick

\* A request, with the queue left alone.
LEMMA StepRequest ==
    ASSUME HubInv, Tick \/ \E c \in Calls : Handle(c), UNCHANGED queueVars
    PROVE  HubInv'
<1> USE DEF HubInv
<1>1. UNCHANGED <<pending, worker, retry, failures, restarts, abandoned, crossed>>
  BY DEF queueVars
<1>2. IngestInv'
  BY StepUnstored, StepStore DEF Handle
<1>3. QueueTypeOK'
  BY <1>1, <1>2 DEF QueueTypeOK, IngestInv
<1>4. \A i \in Ids : Claimant(i) => Claimant(i)'
  BY <1>1, AcceptedStays DEF Claimant, IngestInv
<1>5. CASE UNCHANGED rows /\ \A c \in Calls : call'[c].pc = "accepted" => call'[c] = call[c]
  <2>1. HandsHoldStored'
    BY <1>1, <1>5 DEF HandsHoldStored, Stored
  <2>2. \A i \in Ids : Held(i)'
    <3> SUFFICES ASSUME NEW i \in Ids PROVE Held(i)'
      OBVIOUS
    <3>1. Held(i)
      BY HeldIs
    <3> QED BY <1>1, <1>4, <1>5, <3>1 DEF Held, Unfinished
  <2> QED BY <1>2, <1>3, <2>1, <2>2, HeldIsNext
<1>6. ASSUME NEW c \in Calls, Store(c) PROVE HubInv'
  <2>q. PICK q \in Requests : q = call[c].q
    BY <1>6, StoreRows
  <2>i. PICK i0 \in Ids : i0 = IdOf(q)
    BY RequestFields
  <2>1. /\ i0 \notin Stored /\ Stored' = Stored \cup {i0}
        /\ \A i \in Ids : i # i0 => rows'[i] = rows[i]
        /\ \A k \in Calls : k # c => call'[k] = call[k]
        /\ call'[c].pc \in {"idle", "accepted"}
        /\ call'[c].pc = "accepted" => IdOf(call'[c].q) = i0
        /\ rows'[i0].state \in {"queued", "not-required"}
        /\ rows'[i0].state = "queued" => call'[c].pc = "accepted"
    BY <1>6, <2>q, <2>i, StoreRows
  <2>2. HandsHoldStored'
    <3>1. \A k \in Calls : call'[k].pc = "accepted" => IdOf(call'[k].q) \in Stored'
      BY <2>1 DEF HandsHoldStored
    <3> QED BY <1>1, <2>1, <3>1 DEF HandsHoldStored
  <2>3. ASSUME NEW i \in Ids PROVE Held(i)'
    <3>1. CASE i # i0
      <4>1. Held(i)
        BY HeldIs
      <4> QED BY <1>1, <1>4, <2>1, <3>1, <4>1 DEF Held, Unfinished
    <3>2. CASE i = i0
      <4>1. worker[i] = "none"
        BY <2>1, <3>2 DEF HandsHoldStored
      <4>2. rows'[i].state = "queued" => Claimant(i)'
        BY <2>1, <3>2 DEF Claimant
      <4> QED BY <1>1, <2>1, <3>2, <4>1, <4>2 DEF Held, Unfinished
    <3> QED BY <3>1, <3>2
  <2> QED BY <1>2, <1>3, <2>2, <2>3, HeldIsNext
<1> QED BY <1>5, <1>6, StepUnstored DEF Handle, IngestInv

\* _queue_canonical_evaluation: the collection is pending already, is recorded as
\* failed, or gets a task.
LEMMA QueueEffect ==
    ASSUME HubInv, NEW i \in Stored, Queue(i)
    PROVE  /\ UNCHANGED rows \/ SetState(i, "retryable-failure")
           /\ pending' \subseteq Ids /\ worker' \in [Ids -> HubStates]
           /\ failures' \in 0..MaxFailures
           /\ abandoned \subseteq abandoned' /\ abandoned' \subseteq Ids
           /\ crossed \subseteq crossed' /\ crossed' \subseteq Ids
           /\ \A k \in Ids : k # i => worker'[k] = worker[k] /\ (k \in pending' <=> k \in pending)
           /\ worker'[i] # "none" <=> i \in pending'
           /\ \/ i \in crossed' /\ UNCHANGED rows /\ worker'[i] = worker[i]
              \/ /\ worker[i] = "none" /\ worker'[i] = "none"
                 /\ SetState(i, "retryable-failure") \/ (UNCHANGED rows /\ i \in abandoned')
              \/ worker[i] = "none" /\ worker'[i] = "scheduled" /\ UNCHANGED rows
<1> USE DEF HubInv, QueueTypeOK, HubStates
<1>1. i \in Ids /\ (worker[i] # "none" <=> i \in pending)
  BY DEF Stored, HandsHoldStored
<1>2. CASE i \in pending
  BY <1>1, <1>2 DEF Queue
<1>3. CASE i \notin pending /\ UNCHANGED <<pending, worker, crossed>> /\ RecordFailed(i)
  <2>1. failures' \in 0..MaxFailures
    BY <1>3, QueueConstants DEF RecordFailed
  <2>2. worker[i] = "none" /\ worker' = worker /\ pending' = pending /\ crossed' = crossed
    BY <1>1, <1>3
  <2>3. /\ SetState(i, "retryable-failure") \/ (UNCHANGED rows /\ i \in abandoned')
        /\ abandoned' = abandoned \/ abandoned' = abandoned \cup {i}
    <3>1. CASE SetState(i, "retryable-failure") /\ UNCHANGED abandoned
      BY <3>1
    <3>2. CASE abandoned' = abandoned \cup {i} /\ UNCHANGED rows
      BY <3>2
    <3> QED BY <1>3, <3>1, <3>2 DEF RecordFailed
  <2> QED BY <1>1, <2>1, <2>2, <2>3
<1>4. CASE /\ i \notin pending
           /\ pending' = pending \cup {i}
           /\ worker' = [worker EXCEPT ![i] = "scheduled"]
           /\ UNCHANGED <<rows, crossed, failures, abandoned>>
  BY <1>1, <1>4
<1> QED BY <1>2, <1>3, <1>4 DEF Queue

\* A claimant of collection i gives its claim to the queue.
LEMMA StepQueues ==
    ASSUME HubInv, NEW i \in Stored, Queue(i),
           call' \in [Calls -> Handling \cup {NoCall}],
           retry' \in [Admins -> [pc : {"checked", "requeued"}, id : Ids] \cup {NoRetry}],
           \A c \in Calls : call'[c].pc = "accepted" => call'[c] = call[c],
           \A d \in Admins : retry'[d] # NoRetry => retry'[d] = retry[d],
           \A k \in Ids : k # i /\ Claimant(k) => Claimant(k)',
           UNCHANGED <<now, authority, table, seen, told, restarts>>
    PROVE  HubInv'
<1> USE DEF HubInv
<1>1. /\ UNCHANGED rows \/ SetState(i, "retryable-failure")
      /\ pending' \subseteq Ids /\ worker' \in [Ids -> HubStates]
      /\ failures' \in 0..MaxFailures
      /\ abandoned \subseteq abandoned' /\ abandoned' \subseteq Ids
      /\ crossed \subseteq crossed' /\ crossed' \subseteq Ids
      /\ \A k \in Ids : k # i => worker'[k] = worker[k] /\ (k \in pending' <=> k \in pending)
      /\ worker'[i] # "none" <=> i \in pending'
      /\ \/ i \in crossed' /\ UNCHANGED rows /\ worker'[i] = worker[i]
         \/ /\ worker[i] = "none" /\ worker'[i] = "none"
            /\ SetState(i, "retryable-failure") \/ (UNCHANGED rows /\ i \in abandoned')
         \/ worker[i] = "none" /\ worker'[i] = "scheduled" /\ UNCHANGED rows
  BY QueueEffect
<1>2. IngestInv' /\ Stored' = Stored
  <2>1. "retryable-failure" \in EvaluationState
    BY DEF EvaluationState
  <2> QED BY <1>1, <2>1, StateStep
<1>3. QueueTypeOK'
  BY <1>1, <1>2 DEF QueueTypeOK, IngestInv, HubStates
<1>4. \A k \in Ids : k # i => rows'[k] = rows[k]
  <2>1. "retryable-failure" \in EvaluationState
    BY DEF EvaluationState
  <2> QED BY <1>1, <2>1, SetStateEffect
<1>5. SetState(i, "retryable-failure") => rows'[i].state = "retryable-failure"
  BY SetStateEffect DEF EvaluationState
<1>6. HandsHoldStored'
  <2>1. \A k \in Ids : /\ worker'[k] # "none" => k \in Stored'
                       /\ worker'[k] # "none" <=> k \in pending'
    BY <1>1, <1>2 DEF HandsHoldStored
  <2> QED BY <1>2, <2>1 DEF HandsHoldStored
<1>7. ASSUME NEW k \in Ids PROVE Held(k)'
  <2>1. Held(k)
    BY HeldIs
  <2>2. CASE k # i
    BY <1>1, <1>4, <2>1, <2>2 DEF Held, Unfinished
  <2>3. CASE k = i
    BY <1>1, <1>5, <2>1, <2>3 DEF Held, Unfinished
  <2> QED BY <2>2, <2>3
<1> QED BY <1>2, <1>3, <1>6, <1>7, HeldIsNext

LEMMA StepQueueAccepted ==
    ASSUME HubInv, NEW c \in Calls, QueueAccepted(c)
    PROVE  HubInv'
<1> USE DEF HubInv
<1>1. PICK i \in Stored : i = IdOf(call[c].q)
  BY DEF QueueAccepted, HandsHoldStored
<1>2. /\ Queue(i) /\ call' = [call EXCEPT ![c] = NoCall]
      /\ UNCHANGED <<now, authority, table, seen, told, retry, restarts>>
  BY <1>1 DEF QueueAccepted
<1>3. /\ call' \in [Calls -> Handling \cup {NoCall}]
      /\ call'[c].pc # "accepted"
      /\ \A k \in Calls : k # c => call'[k] = call[k]
  BY <1>2 DEF IngestInv, IngestTypeOK, NoCall
<1>4. \A k \in Ids : k # i /\ Claimant(k) => Claimant(k)'
  BY <1>1, <1>2, <1>3 DEF Claimant
<1>5. retry' \in [Admins -> [pc : {"checked", "requeued"}, id : Ids] \cup {NoRetry}]
  BY <1>2 DEF QueueTypeOK
<1> QED BY <1>2, <1>3, <1>4, <1>5, StepQueues

LEMMA StepRetryQueue ==
    ASSUME HubInv, NEW d \in Admins, RetryQueue(d)
    PROVE  HubInv'
<1> USE DEF HubInv
<1>0. retry[d] # NoRetry
  BY DEF RetryQueue, NoRetry
<1>1. PICK i \in Stored : i = retry[d].id
  BY <1>0 DEF HandsHoldStored
<1>2. /\ Queue(i) /\ retry' = [retry EXCEPT ![d] = NoRetry]
      /\ UNCHANGED <<now, call, authority, table, seen, told, restarts>>
  BY <1>1 DEF RetryQueue, Others
<1>3. /\ retry' \in [Admins -> [pc : {"checked", "requeued"}, id : Ids] \cup {NoRetry}]
      /\ retry'[d] = NoRetry
      /\ \A k \in Admins : k # d => retry'[k] = retry[k]
  BY <1>2 DEF QueueTypeOK
<1>4. \A k \in Ids : k # i /\ Claimant(k) => Claimant(k)'
  BY <1>1, <1>2, <1>3 DEF Claimant
<1>5. call' \in [Calls -> Handling \cup {NoCall}]
  BY <1>2 DEF IngestInv, IngestTypeOK
<1>6. \A k \in Admins : retry'[k] # NoRetry => retry'[k] = retry[k]
  BY <1>3
<1> QED BY <1>2, <1>3, <1>4, <1>5, <1>6, StepQueues

\* The retry endpoint looks, and requeues.
LEMMA StepRetryRequeue ==
    ASSUME HubInv, NEW d \in Admins, RetryCheck(d) \/ RetryRequeue(d)
    PROVE  HubInv'
<1> USE DEF HubInv, Others
<1>1. UNCHANGED <<now, call, authority, table, seen, told,
                  pending, worker, failures, restarts, abandoned, crossed>>
  BY DEF RetryCheck, RetryRequeue
<1>c. call' \in [Calls -> Handling \cup {NoCall}]
  BY <1>1 DEF IngestInv, IngestTypeOK
<1>2. CASE RetryCheck(d)
  <2>1. PICK i \in Stored :
          retry[d] = NoRetry /\ retry' = [retry EXCEPT ![d] = [pc |-> "checked", id |-> i]]
    BY <1>2 DEF RetryCheck
  <2>2. rows' = rows /\ i \in Ids /\ retry[d].pc # "requeued"
    BY <1>2, <2>1 DEF RetryCheck, Stored, NoRetry
  <2>3. /\ retry' \in [Admins -> [pc : {"checked", "requeued"}, id : Ids] \cup {NoRetry}]
        /\ retry'[d].id = i
        /\ \A k \in Admins : k # d => retry'[k] = retry[k]
    BY <2>1, <2>2 DEF QueueTypeOK
  <2>4. IngestInv' /\ Stored' = Stored
    BY <1>1, <1>c, <2>2, StateStep
  <2>5. QueueTypeOK'
    BY <1>1, <2>3, <2>4 DEF QueueTypeOK, IngestInv
  <2>6. HandsHoldStored'
    BY <1>1, <2>3, <2>4 DEF HandsHoldStored
  <2>7. \A k \in Ids : Claimant(k) => Claimant(k)'
    BY <1>1, <2>2, <2>3 DEF Claimant
  <2>8. ASSUME NEW k \in Ids PROVE Held(k)'
    <3>1. Held(k)
      BY HeldIs
    <3> QED BY <1>1, <2>2, <2>7, <3>1 DEF Held, Unfinished
  <2> QED BY <2>4, <2>5, <2>6, <2>8, HeldIsNext
<1>3. CASE RetryRequeue(d)
  <2>1. PICK i \in Stored : i = retry[d].id
    BY <1>3 DEF RetryRequeue, HandsHoldStored, NoRetry
  <2>2. /\ i \in Ids /\ retry[d].pc = "checked" /\ retry[d] \in [pc : {"checked", "requeued"}, id : Ids]
    BY <1>3 DEF RetryRequeue, QueueTypeOK, NoRetry, Stored
  <2>3. \/ /\ rows[i].state = "retryable-failure" /\ SetState(i, "queued")
           /\ retry' = [retry EXCEPT ![d] = [retry[d] EXCEPT !.pc = "requeued"]]
        \/ UNCHANGED rows /\ retry' = [retry EXCEPT ![d] = NoRetry]
    BY <1>3, <2>1 DEF RetryRequeue
  <2>4. [retry[d] EXCEPT !.pc = "requeued"] = [pc |-> "requeued", id |-> i]
    BY <2>1, <2>2
  <2>5. /\ retry' \in [Admins -> [pc : {"checked", "requeued"}, id : Ids] \cup {NoRetry}]
        /\ retry'[d] # NoRetry => retry'[d].id = i
        /\ \A k \in Admins : k # d => retry'[k] = retry[k]
        /\ rows' # rows => retry'[d].pc = "requeued" /\ retry'[d].id = i
    BY <2>2, <2>3, <2>4 DEF QueueTypeOK
  <2>6. "queued" \in EvaluationState
    BY DEF EvaluationState
  <2>7. IngestInv' /\ Stored' = Stored
    BY <1>1, <1>c, <2>3, <2>6, StateStep
  <2>8. QueueTypeOK'
    BY <1>1, <2>5, <2>7 DEF QueueTypeOK, IngestInv
  <2>9. HandsHoldStored'
    BY <1>1, <2>5, <2>7 DEF HandsHoldStored
  <2>10. \A k \in Ids : Claimant(k) => Claimant(k)'
    BY <1>1, <2>2, <2>5 DEF Claimant
  <2>11. ASSUME NEW k \in Ids PROVE Held(k)'
    <3>1. Held(k)
      BY HeldIs
    <3>2. CASE rows'[k] = rows[k]
      BY <1>1, <2>10, <3>1, <3>2 DEF Held, Unfinished
    <3>3. CASE rows'[k] # rows[k]
      <4>1. SetState(i, "queued") /\ rows[i].state = "retryable-failure" /\ rows' # rows
        BY <2>3, <3>3
      <4>2. k = i /\ rows'[k].state = "queued"
        BY <2>6, <3>3, <4>1, SetStateEffect
      <4>3. Claimant(k)'
        BY <2>5, <4>1, <4>2 DEF Claimant
      <4> QED BY <1>1, <3>1, <4>1, <4>2, <4>3 DEF Held, Unfinished
    <3> QED BY <3>2, <3>3
  <2> QED BY <2>7, <2>8, <2>9, <2>11, HeldIsNext
<1> QED BY <1>2, <1>3

\* A step of the background task: the task moves, and may set the state.
LEMMA StepTask ==
    ASSUME HubInv, NEW i \in Ids, NEW to \in HubStates,
           worker[i] # "none", worker' = [worker EXCEPT ![i] = to],
           UNCHANGED <<now, call, authority, table, seen, told, retry, restarts, crossed>>,
           UNCHANGED rows \/ \E s \in EvaluationState : SetState(i, s),
           pending' = IF to = "none" THEN pending \ {i} ELSE pending,
           failures' \in 0..MaxFailures,
           abandoned' = abandoned \/ abandoned' = abandoned \cup {i},
           Held(i)'
    PROVE  HubInv'
<1> USE DEF HubInv
<1>1. i \in Stored
  BY DEF HandsHoldStored
<1>c. call' \in [Calls -> Handling \cup {NoCall}]
  BY DEF IngestInv, IngestTypeOK
<1>2. IngestInv' /\ Stored' = Stored
  BY <1>1, <1>c, StateStep
<1>3. \A k \in Ids : k # i => rows'[k] = rows[k]
  BY <1>1, SetStateEffect
<1>4. /\ worker' \in [Ids -> HubStates] /\ worker'[i] = to
      /\ \A k \in Ids : k # i => worker'[k] = worker[k]
  BY DEF QueueTypeOK, HubStates
<1>5. QueueTypeOK'
  BY <1>2, <1>4 DEF QueueTypeOK, HubStates, IngestInv
<1>6. HandsHoldStored'
  <2>1. \A k \in Ids : /\ worker'[k] # "none" => k \in Stored'
                       /\ worker'[k] # "none" <=> k \in pending'
    BY <1>1, <1>2, <1>4 DEF HandsHoldStored
  <2> QED BY <1>2, <2>1 DEF HandsHoldStored
<1>7. ASSUME NEW k \in Ids, k # i PROVE Held(k)'
  <2>1. Held(k)
    BY HeldIs
  <2>2. Claimant(k)' <=> Claimant(k)
    BY DEF Claimant
  <2> QED BY <1>3, <1>4, <1>7, <2>1, <2>2 DEF Held, Unfinished
<1> QED BY <1>2, <1>5, <1>6, <1>7, HeldIsNext

LEMMA StepWork ==
    ASSUME HubInv, NEW i \in Ids, Work(i)
    PROVE  HubInv'
<1> USE DEF HubInv, Working, Others
<1>1. Held(i) /\ (worker[i] # "none" => i \in Stored)
  BY HeldIs DEF HandsHoldStored
<1>2. Claimant(i)' <=> Claimant(i)
  BY DEF Claimant, Work, Claim, Project, Evaluate, Complete, StepFails, RecordFailure, Leave
<1>3. failures \in 0..MaxFailures /\ worker \in [Ids -> HubStates]
  BY DEF QueueTypeOK, HubStates
<1>4. ASSUME NEW s \in EvaluationState, i \in Stored, SetState(i, s)
      PROVE  rows'[i].state = s
  BY <1>4, SetStateEffect
<1>5. "running" \in EvaluationState /\ "completed" \in EvaluationState
      /\ "retryable-failure" \in EvaluationState
  BY DEF EvaluationState
<1>6. CASE Claim(i)
  <2>1. CASE rows[i].state = "queued"
    <3>1. /\ worker[i] = "scheduled" /\ worker' = [worker EXCEPT ![i] = "claimed"]
          /\ SetState(i, "running")
          /\ UNCHANGED <<now, call, authority, table, seen, told, retry, restarts, crossed,
                         pending, failures, abandoned>>
      BY <1>6, <2>1 DEF Claim
    <3>2. rows'[i].state = "running" /\ worker'[i] = "claimed"
      BY <1>1, <1>3, <1>4, <1>5, <3>1
    <3>3. Held(i)'
      BY <3>2 DEF Held, Unfinished
    <3> QED BY <1>3, <1>5, <3>1, <3>3, StepTask DEF HubStates
  <2>2. CASE rows[i].state # "queued"
    <3>1. /\ worker[i] = "scheduled" /\ worker' = [worker EXCEPT ![i] = "leaving"]
          /\ UNCHANGED <<rows, now, call, authority, table, seen, told, retry, restarts, crossed,
                         pending, failures, abandoned>>
      BY <1>6, <2>2 DEF Claim
    <3>2. worker'[i] = "leaving"
      BY <1>3, <3>1
    <3>3. Held(i)'
      BY <1>1, <2>2, <3>1, <3>2 DEF Held, Unfinished
    <3> QED BY <1>3, <3>1, <3>3, StepTask DEF HubStates
  <2> QED BY <2>1, <2>2
<1>7. CASE Project(i) \/ Evaluate(i)
  <2>1. PICK to \in {"projected", "evaluated"} :
          /\ worker[i] \in {"claimed", "projected"} /\ worker' = [worker EXCEPT ![i] = to]
          /\ UNCHANGED <<rows, now, call, authority, table, seen, told, retry, restarts, crossed,
                         pending, failures, abandoned>>
    BY <1>7 DEF Project, Evaluate
  <2>2. worker'[i] = to
    BY <1>3, <2>1
  <2>3. Held(i)'
    BY <1>1, <2>1, <2>2 DEF Held, Unfinished
  <2> QED BY <1>3, <2>1, <2>3, StepTask DEF HubStates
<1>8. CASE Complete(i)
  <2>1. PICK to \in {"leaving", "failing"} :
          /\ worker[i] = "evaluated" /\ worker' = [worker EXCEPT ![i] = to]
          /\ SetState(i, "completed")
          /\ UNCHANGED <<now, call, authority, table, seen, told, retry, restarts, crossed,
                         pending, abandoned>>
    BY <1>8 DEF Complete
  <2>2. failures' \in 0..MaxFailures
    BY <1>3, <1>8, QueueConstants DEF Complete
  <2>3. rows'[i].state = "completed" /\ worker'[i] = to
    BY <1>1, <1>3, <1>4, <1>5, <2>1
  <2>4. Held(i)'
    BY <2>3 DEF Held, Unfinished
  <2> QED BY <1>5, <2>1, <2>2, <2>4, StepTask DEF HubStates
<1>9. CASE StepFails(i)
  <2>1. /\ worker[i] \in {"scheduled", "claimed", "projected", "evaluated"}
        /\ worker' = [worker EXCEPT ![i] = "failing"]
        /\ UNCHANGED <<rows, now, call, authority, table, seen, told, retry, restarts, crossed,
                       pending, abandoned>>
    BY <1>9 DEF StepFails
  <2>2. failures' \in 0..MaxFailures
    BY <1>3, <1>9, QueueConstants DEF StepFails
  <2>3. worker'[i] = "failing"
    BY <1>3, <2>1
  <2>4. Held(i)'
    BY <1>1, <2>1, <2>3 DEF Held, Unfinished
  <2> QED BY <2>1, <2>2, <2>4, StepTask DEF HubStates
<1>10. CASE RecordFailure(i)
  <2>1. /\ worker[i] = "failing" /\ worker' = [worker EXCEPT ![i] = "leaving"]
        /\ RecordFailed(i)
        /\ UNCHANGED <<now, call, authority, table, seen, told, retry, restarts, crossed, pending>>
    BY <1>10 DEF RecordFailure
  <2>2. failures' \in 0..MaxFailures
    BY <1>3, <2>1, QueueConstants DEF RecordFailed
  <2>3. worker'[i] = "leaving"
    BY <1>3, <2>1
  <2>4. CASE SetState(i, "retryable-failure") /\ abandoned' = abandoned
    <3>1. rows'[i].state = "retryable-failure"
      BY <1>1, <1>4, <1>5, <2>1, <2>4
    <3>2. Held(i)'
      BY <2>3, <3>1 DEF Held, Unfinished
    <3> QED BY <1>5, <2>1, <2>2, <2>4, <3>2, StepTask DEF HubStates
  <2>5. CASE UNCHANGED rows /\ abandoned' = abandoned \cup {i}
    <3>1. Held(i)'
      BY <1>1, <2>1, <2>3, <2>5 DEF Held, Unfinished
    <3> QED BY <2>1, <2>2, <2>5, <3>1, StepTask DEF HubStates
  <2> QED BY <2>1, <2>4, <2>5 DEF RecordFailed
<1>11. CASE Leave(i)
  <2>1. /\ worker[i] = "leaving" /\ worker' = [worker EXCEPT ![i] = "none"]
        /\ pending' = pending \ {i}
        /\ UNCHANGED <<rows, now, call, authority, table, seen, told, retry, restarts, crossed,
                       failures, abandoned>>
    BY <1>11 DEF Leave
  <2>2. worker'[i] = "none"
    BY <1>3, <2>1
  <2>3. Held(i)'
    BY <1>1, <1>2, <2>1, <2>2 DEF Held, Unfinished
  <2> QED BY <1>3, <2>1, <2>3, StepTask DEF HubStates
<1> QED BY <1>6, <1>7, <1>8, <1>9, <1>10, <1>11 DEF Work

\* The process ends: what anybody had in hand is abandoned.
LEMMA StepHubRestart ==
    ASSUME HubInv, HubRestart
    PROVE  HubInv'
<1> USE DEF HubInv
<1>1. /\ abandoned' = abandoned \cup {i \in Ids : InHand(i)}
      /\ UNCHANGED <<now, rows, authority, table, seen, told, failures, crossed>>
      /\ pending' = {}
  BY DEF HubRestart
<1>2. /\ worker' \in [Ids -> HubStates] /\ \A i \in Ids : worker'[i] = "none"
      /\ call' \in [Calls -> Handling \cup {NoCall}] /\ \A c \in Calls : call'[c].pc = "idle"
      /\ retry' = [d \in Admins |-> NoRetry]
  BY DEF HubRestart, HubStates, NoCall
<1>3. restarts' \in 0..MaxRestarts
  BY QueueConstants DEF HubRestart, QueueTypeOK
<1>4. IngestInv' /\ Stored' = Stored
  BY <1>1, <1>2, StateStep
<1>5. QueueTypeOK'
  BY <1>1, <1>2, <1>3, <1>4 DEF QueueTypeOK, IngestInv, HubStates
<1>6. HandsHoldStored'
  BY <1>1, <1>2 DEF HandsHoldStored
<1>7. ASSUME NEW i \in Ids PROVE Held(i)'
  <2>1. Held(i) /\ (worker[i] # "none" \/ Claimant(i) => i \in abandoned')
    BY <1>1, HeldIs DEF InHand, Claimant
  <2> QED BY <1>1, <1>2, <2>1 DEF Held, Unfinished
<1> QED BY <1>4, <1>5, <1>6, <1>7, HeldIsNext

LEMMA StutterHub ==
    ASSUME HubInv, UNCHANGED hubVars
    PROVE  HubInv'
<1> USE DEF HubInv, hubVars, queueVars
<1>1. IngestInv'
  BY StutterIngest
<1>2. QueueTypeOK' /\ HandsHoldStored'
  BY <1>1 DEF QueueTypeOK, HandsHoldStored, Stored, IngestInv, ingestVars
<1>3. ASSUME NEW i \in Ids PROVE Held(i)'
  <2>1. Held(i)
    BY HeldIs
  <2> QED BY <2>1 DEF Held, Unfinished, Claimant, ingestVars
<1> QED BY <1>1, <1>2, <1>3, HeldIsNext

--------------------------------------------------------------------------------
(* The theorems.                                                           *)

\* Ingestion on its own, with requests answered at once, keeps its invariant.
THEOREM IngestInvariance == IngestSpec => []IngestInv
<1>1. IngestInit => IngestInv
  BY InitIngest
<1>2. IngestInv /\ [IngestNext]_ingestVars => IngestInv'
  BY StepUnstored, StepStore, StutterIngest DEF IngestNext, Handle
<1> QED BY <1>1, <1>2, PTL DEF IngestSpec

\* Every step of the two keeps the invariant of both.
LEMMA NextHub == ASSUME HubInv, [HubNext]_hubVars PROVE HubInv'
<1>1. CASE \/ \E c \in Calls : Handle(c) /\ UNCHANGED queueVars
           \/ Tick /\ UNCHANGED queueVars
  BY <1>1, StepRequest
<1>2. CASE \E c \in Calls : QueueAccepted(c)
  BY <1>2, StepQueueAccepted
<1>3. CASE \E d \in Admins : RetryCheck(d) \/ RetryRequeue(d) \/ RetryQueue(d)
  BY <1>3, StepRetryRequeue, StepRetryQueue
<1>4. CASE \E i \in Ids : Work(i)
  BY <1>4, StepWork
<1>5. CASE HubRestart
  BY <1>5, StepHubRestart
<1>6. CASE UNCHANGED hubVars
  BY <1>6, StutterHub
<1> QED BY <1>1, <1>2, <1>3, <1>4, <1>5, <1>6 DEF HubNext

\* Ingestion together with the evaluation queue keeps the invariant of both.
THEOREM HubInvariance == HubSpec => []HubInv
<1>1. HubInv /\ [HubNext]_hubVars => HubInv'
  BY NextHub
<1> HIDE DEF HubInv
<1> QED BY <1>1, InitHub, PTL DEF HubSpec

\* Type correctness of requests, rows, tasks and retries.
THEOREM HubTypeCorrect == HubSpec => []QueueTypeOK
<1>1. HubInv => QueueTypeOK
  BY DEF HubInv
<1> QED BY <1>1, HubInvariance, PTL

\* should_replace_asset_authority and the upsert of the asset row: whatever the order
\* of storing, an asset is described by the strongest source and its newest report.
THEOREM AuthorityIsStrongest == (IngestSpec => []StrongestWins) /\ (HubSpec => []StrongestWins)
<1>1. IngestInv => StrongestWins
  BY DEF IngestInv
<1>2. HubInv => IngestInv
  BY DEF HubInv
<1> QED BY <1>1, <1>2, IngestInvariance, HubInvariance, PTL

\* _admit_collection: no window holds more collections than the limit, although
\* they are stored in another order than that of their times.
THEOREM AdmissionIsBounded == (IngestSpec => []AdmissionBound) /\ (HubSpec => []AdmissionBound)
<1>1. IngestInv => AdmissionBound
  BY DEF IngestInv
<1>2. HubInv => IngestInv
  BY DEF HubInv
<1> QED BY <1>1, <1>2, IngestInvariance, HubInvariance, PTL

\* An answered request is stored with its content, beside copies of it and beside
\* another content under its key.
THEOREM AnswersAreStored == (IngestSpec => []AnswerIsStored) /\ (HubSpec => []AnswerIsStored)
<1>1. IngestInv => AnswerIsStored
  BY DEF IngestInv
<1>2. HubInv => IngestInv
  BY DEF HubInv
<1> QED BY <1>1, <1>2, IngestInvariance, HubInvariance, PTL

\* Accepted work is in somebody's hands until it is recorded as done or failed,
\* and nobody evaluates what is recorded as finished; the exceptions are work that
\* died with its process and retries that crossed the end of a task.
THEOREM NoWorkIsForgotten == HubSpec => []NotForgotten
<1>1. HubInv => NotForgotten
  BY DEF HubInv
<1> QED BY <1>1, HubInvariance, PTL

\* The same of the behaviours that are checked, in which the queue is examined with few
\* requests and a fair scheduler.
THEOREM WorkIsKept == Spec => []Kept
<1> DEFINE I == part = "evaluate" => HubInv
<1>1. Init => I
  BY InitHub DEF Init
<1>2. I /\ [Next]_<<hubVars, part>> => I'
  <2> SUFFICES ASSUME I, [Next]_<<hubVars, part>>, part' = "evaluate" PROVE HubInv'
    OBVIOUS
  <2>1. part = "evaluate" /\ HubInv
    BY DEF Next
  <2>2. [HubNext]_hubVars
    BY <2>1 DEF Next
  <2> QED BY <2>1, <2>2, NextHub
<1>3. I => Kept
  BY DEF Kept, HubInv
<1> HIDE DEF I
<1> QED BY <1>1, <1>2, <1>3, PTL DEF Spec
================================================================================
