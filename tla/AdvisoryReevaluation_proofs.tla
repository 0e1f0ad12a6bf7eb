---------------------- MODULE AdvisoryReevaluation_proofs ----------------------
(***************************************************************************)
(* Proofs about AdvisoryReevaluation, for every set of catalogs and        *)
(* advisories, every content and every bound: its inductive invariant and  *)
(* the two safety properties it implies.                                   *)
(***************************************************************************)
EXTENDS AdvisoryReevaluation, TLAPS

JobPc == {"idle", "mark", "load", "start", "write", "finish"}

\* The fields of an activation and of a job.
LEMMA ActFields ==
    ASSUME TypeOK, NEW i \in 1..Len(acts)
    PROVE  /\ acts[i] \in Activation
           /\ acts[i].catalog \in Catalogs
           /\ acts[i].previous \in Catalogs \cup {None}
           /\ acts[i].action \in {"activate", "rollback"}
           /\ acts[i].status \in Status
           /\ acts[i].impact \in BOOLEAN
<1>1. acts[i] \in Activation
  BY DEF TypeOK
<1> QED BY <1>1 DEF Activation

LEMMA JobFields ==
    ASSUME TypeOK, NEW j \in Jobs
    PROVE  /\ job[j] \in Job
           /\ job[j].act \in 0..MaxActs
           /\ job[j].pc \in JobPc
           /\ job[j].sites \in BOOLEAN
           /\ job[j].ids \subseteq Advisories
           /\ job[j].rows \in [Advisories -> Nat]
           /\ job[j].at \in Nat
  BY DEF TypeOK, Job, JobPc

\* Rows and changes of catalogs.
LEMMA RowsType == \A c \in Catalogs \cup {None} : Rows(c) \in [Advisories -> Nat]
  BY ReevaluationConstants DEF Rows, NoRows

LEMMA IdleIsJob == Idle \in Job
<1>1. 0 \in 0..MaxActs
  BY ReevaluationConstants
<1>2. NoRows \in [Advisories -> Nat]
  BY DEF NoRows
<1> QED BY <1>1, <1>2 DEF Idle, Job

LEMMA InitReevaluation == Init => ReevaluationInv
<1> SUFFICES ASSUME Init PROVE ReevaluationInv
  OBVIOUS
<1> USE DEF Init, Register!Init
<1>1. TypeOK
  <2>1. job \in [Jobs -> Job]
    BY IdleIsJob
  <2>2. acts \in Seq(Activation) /\ Len(acts) <= MaxActs
    BY ReevaluationConstants
  <2>3. match \in [Advisories -> Nat] /\ evalAt \in [Advisories -> Nat]
    BY DEF NoRows
  <2>4. clock \in Nat /\ faults \in 0..MaxFaults
    BY ReevaluationConstants
  <2>5. /\ current \in Catalogs \cup {None} /\ history \subseteq Catalogs
        /\ degraded \subseteq history /\ abandoned \subseteq 1..MaxActs
        /\ overlapped \in BOOLEAN /\ blind \in BOOLEAN
    OBVIOUS
  <2> QED BY <2>1, <2>2, <2>3, <2>4, <2>5 DEF TypeOK
<1>2. \A j \in Jobs : job[j].pc = "idle" /\ job[j].at = 0
  BY DEF Idle
<1>3. JobsKnowActs /\ ActivatedOnce /\ NotHidden /\ SitesKnown
  BY <1>2 DEF JobsKnowActs, ActivatedOnce, NotHidden, SitesKnown
<1>4. StampedInThePast
  BY <1>2 DEF StampedInThePast, NoRows
<1>5. AloneInv
  BY <1>2, ReevaluationConstants DEF AloneInv, WorksOnCurrent, Rows, NoRows
<1> QED BY <1>1, <1>3, <1>4, <1>5 DEF ReevaluationInv

--------------------------------------------------------------------------------
(* What the helpers of the actions do.                                     *)

\* The activations keep what was recorded when they were made.
SameActs ==
    /\ acts' \in Seq(Activation) /\ Len(acts') = Len(acts)
    /\ \A i \in 1..Len(acts) :
         /\ acts'[i].catalog = acts[i].catalog
         /\ acts'[i].previous = acts[i].previous
         /\ acts'[i].action = acts[i].action
    /\ UNCHANGED registerVars

LEMMA SameActsKeep ==
    ASSUME ReevaluationInv, SameActs
    PROVE  /\ ActivatedOnce'
           /\ \A i \in 1..Len(acts') : acts'[i].catalog \in history'
           /\ \A i \in 1..Len(acts) : ChangedBy(i)' = ChangedBy(i)
           /\ Len(acts') <= MaxActs
           /\ Rows(current)' = Rows(current)
<1> USE DEF SameActs, ReevaluationInv, registerVars
<1>1. ActivatedOnce'
  BY DEF ActivatedOnce
<1>2. \A i \in 1..Len(acts') : acts'[i].catalog \in history'
  BY DEF JobsKnowActs
<1>3. \A i \in 1..Len(acts) : ChangedBy(i)' = ChangedBy(i)
  BY DEF ChangedBy, Changed, Rows
<1> QED BY <1>1, <1>2, <1>3 DEF TypeOK, Rows

\* mark_reevaluation changes one activation, and the degraded state of its run.
LEMMA MarkEffect ==
    ASSUME ReevaluationInv, NEW i \in 1..Len(acts), NEW s \in Status, NEW im \in BOOLEAN,
           Mark(i, s, im), UNCHANGED registerVars
    PROVE  /\ SameActs
           /\ degraded' \subseteq history'
           /\ acts'[i].status = s /\ acts'[i].impact = im
           /\ \A k \in 1..Len(acts) : k # i => acts'[k] = acts[k]
           /\ \A k \in 1..Len(acts) :
                k # i /\ acts[k].action = "activate" /\ acts[k].catalog \in degraded
                    => acts[k].catalog \in degraded'
           /\ s = "failed" /\ acts[i].action = "activate" => acts[i].catalog \in degraded'
<1> USE DEF ReevaluationInv
<1>1. acts \in Seq(Activation) /\ acts[i] \in Activation
  BY ActFields DEF TypeOK
<1>2. acts' = [acts EXCEPT ![i] = [acts[i] EXCEPT !.status = s, !.impact = im]]
  BY <1>1 DEF Mark
<1>3. [acts[i] EXCEPT !.status = s, !.impact = im] \in Activation
  BY <1>1 DEF Activation
<1>4. acts' \in Seq(Activation) /\ Len(acts') = Len(acts)
  BY <1>1, <1>2, <1>3
<1>5. /\ acts'[i].status = s /\ acts'[i].impact = im
      /\ \A k \in 1..Len(acts) : k # i => acts'[k] = acts[k]
  BY <1>1, <1>2 DEF Activation
<1>6. SameActs
  BY <1>1, <1>2, <1>4 DEF SameActs, Activation
<1>7. acts[i].catalog \in history
  BY DEF JobsKnowActs
<1>8. degraded' \subseteq history'
  BY <1>7 DEF Mark, TypeOK, registerVars
<1>9. ASSUME NEW k \in 1..Len(acts), k # i, acts[k].action = "activate",
             acts[k].catalog \in degraded
      PROVE  acts[k].catalog \in degraded'
  <2>1. acts[i].action # "rollback" => acts[i].action = "activate"
    BY ActFields
  <2>2. i < k \/ k < i
    BY <1>9
  <2>3. acts[i].action # "rollback" => acts[i].catalog # acts[k].catalog
    BY <1>9, <2>1, <2>2 DEF ActivatedOnce
  <2> QED BY <1>9, <2>3 DEF Mark
<1>10. s = "failed" /\ acts[i].action = "activate" => acts[i].catalog \in degraded'
  BY DEF Mark
<1> QED BY <1>5, <1>6, <1>8, <1>9, <1>10

\* A job moves to w, the others stay where they are.
JobMoves(j, w) == job' = [job EXCEPT ![j] = w]

LEMMA JobMovesEffect ==
    ASSUME TypeOK, NEW j \in Jobs, NEW w \in Job, JobMoves(j, w)
    PROVE  /\ job' \in [Jobs -> Job]
           /\ job'[j] = w
           /\ \A k \in Jobs : k # j => job'[k] = job[k]
  BY DEF TypeOK, JobMoves

\* A job starts only where none was under way, or the overlap is remembered.
LEMMA StartJobEffect ==
    ASSUME TypeOK, NEW i \in 1..MaxActs, NEW s \in BOOLEAN, StartJob(i, s)
    PROVE  /\ job' \in [Jobs -> Job]
           /\ overlapped' \in BOOLEAN
           /\ \E j \in Jobs :
                /\ job[j].pc = "idle"
                /\ job'[j].pc = "mark" /\ job'[j].act = i /\ job'[j].sites = s /\ job'[j].at = 0
                /\ \A k \in Jobs : k # j => job'[k] = job[k]
           /\ ~overlapped' => ~overlapped /\ \A k \in Jobs : job[k].pc = "idle"
<1>1. PICK j \in Jobs :
        /\ job[j].pc = "idle"
        /\ job' = [job EXCEPT ![j] = [Idle EXCEPT !.act = i, !.pc = "mark", !.sites = s]]
  BY DEF StartJob
<1> DEFINE w == [Idle EXCEPT !.act = i, !.pc = "mark", !.sites = s]
<1>2. w \in Job /\ w.pc = "mark" /\ w.act = i /\ w.sites = s /\ w.at = 0
  <2>1. i \in 0..MaxActs
    BY ReevaluationConstants
  <2>2. w \in Job
    BY <2>1, IdleIsJob, Zenon DEF Job
  <2>3. w.pc = "mark" /\ w.act = i /\ w.sites = s /\ w.at = 0
    BY DEF Idle
  <2> QED BY <2>2, <2>3
<1>3. /\ job' \in [Jobs -> Job] /\ job'[j] = w
      /\ \A k \in Jobs : k # j => job'[k] = job[k]
  <2> HIDE DEF w
  <2>1. JobMoves(j, w)
    BY <1>1 DEF JobMoves, w
  <2> QED BY <1>2, <2>1, JobMovesEffect
<1>4. overlapped' = (overlapped \/ \E k \in Jobs : job[k].pc # "idle")
  BY DEF StartJob
<1>5. overlapped' \in BOOLEAN
  BY <1>4, Zenon
<1>6. ~overlapped' => ~overlapped /\ \A k \in Jobs : job[k].pc = "idle"
  BY <1>4, Zenon
<1>7. job[j].pc = "idle"
  BY <1>1
<1>8. job'[j].pc = "mark" /\ job'[j].act = i /\ job'[j].sites = s /\ job'[j].at = 0
  BY <1>2, <1>3
<1> HIDE DEF w
<1> QED BY <1>3, <1>5, <1>6, <1>7, <1>8

LEMMA UnderwayIs ==
    ASSUME NEW i
    PROVE  i \in Underway <=> \E j \in Jobs : job[j].pc # "idle" /\ job[j].act = i
  BY DEF Underway

--------------------------------------------------------------------------------
(* The steps.                                                              *)

\* An activation or a rollback: the catalog switches, and its re-evaluation starts.
LEMMA StepSwitch ==
    ASSUME ReevaluationInv, NEW c \in Catalogs, Activate(c) \/ Rollback(c)
    PROVE  ReevaluationInv'
<1> USE DEF ReevaluationInv
<1>n. PICK n \in Nat : n = Len(acts) + 1
  BY DEF TypeOK
<1> USE <1>n
<1>1. PICK action \in {"activate", "rollback"} :
        /\ RecordActivation(action, c)
        /\ current' = c /\ history' = history \cup {c}
        /\ action = "activate" => c \notin history
  BY DEF Activate, Rollback, Register!Publish, Register!Revert
<1>2. /\ n \in 1..MaxActs
      /\ StartJob(n, Kev)
      /\ UNCHANGED <<degraded, match, evalAt, clock, faults, blind, abandoned>>
  BY <1>1, ReevaluationConstants DEF RecordActivation, resultVars, TypeOK
<1> DEFINE new == [action |-> action, catalog |-> c, previous |-> current,
                   status |-> "pending", impact |-> FALSE]
<1>3. new \in Activation /\ acts' = Append(acts, new)
  BY <1>1 DEF RecordActivation, Activation, Status, TypeOK
<1>4. /\ acts' \in Seq(Activation) /\ Len(acts') = n
      /\ acts'[n] = new /\ \A i \in 1..Len(acts) : acts'[i] = acts[i]
  <2> HIDE DEF new
  <2> QED BY <1>3 DEF TypeOK
<1>5. /\ job' \in [Jobs -> Job]
      /\ overlapped' \in BOOLEAN
      /\ ~overlapped' => ~overlapped /\ \A k \in Jobs : job[k].pc = "idle"
  BY <1>2, StartJobEffect, ReevaluationConstants
<1>6. PICK j \in Jobs :
        /\ job[j].pc = "idle"
        /\ job'[j].pc = "mark" /\ job'[j].act = n /\ job'[j].sites = Kev /\ job'[j].at = 0
        /\ \A k \in Jobs : k # j => job'[k] = job[k]
  BY <1>2, StartJobEffect, ReevaluationConstants
<1> HIDE DEF new
<1>old. \A i \in 1..n : i = n \/ i \in 1..Len(acts)
  BY DEF TypeOK
<1>new. acts'[n].catalog = c /\ acts'[n].previous = current /\ acts'[n].status = "pending"
        /\ acts'[n].action = action
  BY <1>4 DEF new
<1>7. TypeOK'
  BY <1>1, <1>2, <1>3, <1>4, <1>5 DEF TypeOK
<1>8. JobsKnowActs'
  <2>1. \A k \in Jobs : job'[k].pc # "idle" => job'[k].act \in 1..Len(acts')
    BY <1>4, <1>6 DEF JobsKnowActs, TypeOK
  <2>2. \A i \in 1..Len(acts') : acts'[i].catalog \in history'
    BY <1>1, <1>4, <1>old, <1>new DEF JobsKnowActs
  <2> QED BY <2>1, <2>2 DEF JobsKnowActs
<1>9. ActivatedOnce'
  <2> SUFFICES ASSUME NEW i \in 1..n, NEW k \in 1..n, acts'[k].action = "activate", i < k
               PROVE  acts'[i].catalog # acts'[k].catalog
    BY <1>4 DEF ActivatedOnce
  <2>1. i \in 1..Len(acts) /\ acts'[i] = acts[i]
    BY <1>4, <1>old DEF TypeOK
  <2>2. CASE k = n
    BY <1>1, <1>new, <2>1, <2>2 DEF JobsKnowActs
  <2>3. CASE k \in 1..Len(acts)
    BY <1>4, <2>1, <2>3 DEF ActivatedOnce
  <2> QED BY <1>old, <2>2, <2>3
<1>10. NotHidden'
  <2> SUFFICES ASSUME NEW i \in 1..n, acts'[i].status # "completed",
                      i \notin Underway' \cup abandoned'
               PROVE  /\ acts'[i].status = "failed"
                      /\ acts'[i].action = "activate" => acts'[i].catalog \in degraded'
    BY <1>4 DEF NotHidden
  <2>1. i # n
    BY <1>6 DEF Underway
  <2>2. i \in 1..Len(acts) /\ acts'[i] = acts[i]
    BY <1>4, <2>1 DEF TypeOK
  <2>3. i \notin Underway
    <3> SUFFICES ASSUME NEW k \in Jobs, job[k].pc # "idle", job[k].act = i PROVE FALSE
      BY UnderwayIs
    <3> QED BY <1>6 DEF Underway
  <2> QED BY <1>2, <2>2, <2>3 DEF NotHidden
<1>11. StampedInThePast'
  BY <1>2, <1>6 DEF StampedInThePast, TypeOK
<1>12. SitesKnown'
  <2> SUFFICES ASSUME Kev, ~blind
               PROVE  /\ \A k \in Jobs : job'[k].pc # "idle" => job'[k].sites
                      /\ \A i \in 1..n : acts'[i].status = "failed" => acts'[i].impact
    BY <1>2, <1>4 DEF SitesKnown
  <2>1. /\ \A k \in Jobs : job[k].pc # "idle" => job[k].sites
        /\ \A i \in 1..Len(acts) : acts[i].status = "failed" => acts[i].impact
    BY DEF SitesKnown
  <2>2. \A k \in Jobs : job'[k].pc # "idle" => job'[k].sites
    BY <1>6, <2>1, Zenon
  <2>3. \A i \in 1..n : acts'[i].status = "failed" => acts'[i].impact
    BY <1>4, <1>old, <1>new, <2>1
  <2> QED BY <2>2, <2>3
<1>13. AloneInv'
  <2> SUFFICES ASSUME ~overlapped'
               PROVE  /\ \A k, l \in Jobs : job'[k].pc # "idle" /\ job'[l].pc # "idle" => k = l
                      /\ ~blind' => \A k \in Jobs : WorksOnCurrent(k)'
                      /\ ~blind' => \A a \in Advisories :
                            \/ match'[a] = Rows(current')[a]
                            \/ \E i \in 1..Len(acts') :
                                 a \in ChangedBy(i)' /\ acts'[i].status # "completed" /\ ~Renewed(i)'
    BY DEF AloneInv, Rows
  <2>1. ~overlapped /\ \A k \in Jobs : job[k].pc = "idle"
    BY <1>5
  <2>2. \A k \in Jobs : job'[k].pc \in {"idle", "mark"} /\ (k # j => job'[k].pc = "idle")
    BY <1>6, <2>1
  <2>3. \A k \in Jobs : WorksOnCurrent(k)'
    BY <2>2 DEF WorksOnCurrent
  <2>4. \A k \in Jobs : job'[k].pc # "finish"
    BY <2>2
  <2>5. ASSUME ~blind', NEW a \in Advisories, match'[a] # Rows(current')[a]
        PROVE  \E i \in 1..Len(acts') :
                 a \in ChangedBy(i)' /\ acts'[i].status # "completed"
    <3>1. CASE match[a] = Rows(current)[a]
      <4>1. a \in ChangedBy(n)'
        <5>1. Rows(c)[a] # Rows(current)[a]
          BY <1>1, <1>2, <2>5, <3>1
        <5>2. ChangedBy(n)' = Changed(c, current)
          BY <1>new DEF ChangedBy, Changed, Rows
        <5> QED BY <5>1, <5>2 DEF Changed
      <4>2. acts'[n].status # "completed" /\ n \in 1..Len(acts')
        BY <1>4, <1>new DEF TypeOK
      <4> QED BY <4>1, <4>2
    <3>2. CASE match[a] # Rows(current)[a]
      <4>1. PICK i \in 1..Len(acts) : a \in ChangedBy(i) /\ acts[i].status # "completed"
        BY <1>2, <2>1, <2>5, <3>2 DEF AloneInv
      <4>2. i \in 1..Len(acts') /\ a \in ChangedBy(i)' /\ acts'[i].status # "completed"
        BY <1>4, <4>1 DEF ChangedBy, TypeOK
      <4> QED BY <4>2
    <3> QED BY <3>1, <3>2
  <2> QED BY <2>2, <2>3, <2>4, <2>5 DEF Renewed
<1> QED BY <1>7, <1>8, <1>9, <1>10, <1>11, <1>12, <1>13

\* A retry starts a job on an activation marked failed.
LEMMA StepRetry ==
    ASSUME ReevaluationInv, NEW i \in 1..Len(acts), Retry(i)
    PROVE  ReevaluationInv'
<1> USE DEF ReevaluationInv
<1>1. /\ acts[i].status = "failed" /\ StartJob(i, acts[i].impact)
      /\ UNCHANGED <<acts, current, history, degraded, match, evalAt, clock, faults, blind,
                     abandoned>>
  BY DEF Retry, registerVars, resultVars
<1>2. i \in 1..MaxActs /\ acts[i].impact \in BOOLEAN
  BY ActFields, ReevaluationConstants DEF TypeOK
<1>3. /\ job' \in [Jobs -> Job]
      /\ overlapped' \in BOOLEAN
      /\ ~overlapped' => ~overlapped /\ \A k \in Jobs : job[k].pc = "idle"
  BY <1>1, <1>2, StartJobEffect
<1>4. PICK j \in Jobs :
        /\ job[j].pc = "idle"
        /\ job'[j].pc = "mark" /\ job'[j].act = i /\ job'[j].sites = acts[i].impact
        /\ job'[j].at = 0
        /\ \A k \in Jobs : k # j => job'[k] = job[k]
  BY <1>1, <1>2, StartJobEffect
<1>5. TypeOK'
  BY <1>1, <1>3 DEF TypeOK
<1>6. JobsKnowActs' /\ ActivatedOnce'
  BY <1>1, <1>4 DEF JobsKnowActs, ActivatedOnce
<1>7. NotHidden'
  <2>1. Underway \subseteq Underway'
    BY <1>4 DEF Underway
  <2> QED BY <1>1, <2>1 DEF NotHidden
<1>8. StampedInThePast'
  <2>1. \A a \in Advisories : evalAt'[a] <= clock'
    BY <1>1 DEF StampedInThePast
  <2>2. 0 <= clock /\ \A k \in Jobs : job[k].at <= clock
    BY DEF StampedInThePast, TypeOK
  <2>3. \A k \in Jobs : job'[k].at <= clock'
    BY <1>1, <1>4, <2>2
  <2> QED BY <2>1, <2>3 DEF StampedInThePast
<1>9. SitesKnown'
  <2> SUFFICES ASSUME Kev, ~blind
               PROVE  /\ \A k \in Jobs : job'[k].pc # "idle" => job'[k].sites
                      /\ \A k \in 1..Len(acts) : acts[k].status = "failed" => acts[k].impact
    BY <1>1 DEF SitesKnown
  <2>1. /\ \A k \in Jobs : job[k].pc # "idle" => job[k].sites
        /\ \A k \in 1..Len(acts) : acts[k].status = "failed" => acts[k].impact
    BY DEF SitesKnown
  <2> QED BY <1>1, <1>4, <2>1, Zenon
<1>10. AloneInv'
  <2>1. ASSUME ~overlapped' PROVE \A k \in Jobs : job'[k].pc # "finish"
    BY <1>3, <1>4, <2>1
  <2>2. ASSUME ~overlapped'
        PROVE  \A k \in Jobs : job'[k].pc # "idle" => k = j /\ job'[k].pc = "mark"
    BY <1>3, <1>4, <2>2
  <2>3. ASSUME ~overlapped', NEW k \in Jobs PROVE WorksOnCurrent(k)'
    BY <2>2, <2>3 DEF WorksOnCurrent
  <2>4. ASSUME ~overlapped', ~blind', NEW a \in Advisories
        PROVE  \/ match[a] = Rows(current)[a]
               \/ \E k \in 1..Len(acts) : a \in ChangedBy(k) /\ acts[k].status # "completed"
    BY <1>1, <1>3, <2>4 DEF AloneInv
  <2> QED BY <1>1, <2>1, <2>2, <2>3, <2>4 DEF AloneInv, Renewed, ChangedBy, Changed, Rows
<1> QED BY <1>5, <1>6, <1>7, <1>8, <1>9, <1>10

\* What a step of job j owes to AloneInv: its own work is on the active catalog, and
\* it gives up a changed advisory only when its match comes from there.
LEMMA AloneKept ==
    ASSUME ReevaluationInv, SameActs, NEW j \in Jobs, job[j].pc # "idle",
           UNCHANGED overlapped, blind => blind',
           \A k \in Jobs : k # j => job'[k] = job[k],
           ~overlapped /\ ~blind' => WorksOnCurrent(j)',
           ~overlapped /\ ~blind' =>
             \A a \in Advisories :
               /\ match'[a] = match[a] \/ match'[a] = Rows(current)[a]
               /\ \A i \in 1..Len(acts) :
                    a \in ChangedBy(i) /\ acts[i].status # "completed" /\ ~Renewed(i)
                      => \/ match'[a] = Rows(current)[a]
                         \/ /\ acts'[i].status # "completed"
                            /\ ~(job'[j].pc = "finish" /\ job'[j].act = i)
    PROVE  AloneInv'
<1> USE DEF ReevaluationInv
<1>1. /\ \A i \in 1..Len(acts) : ChangedBy(i)' = ChangedBy(i)
      /\ Rows(current)' = Rows(current) /\ Len(acts') = Len(acts)
  BY SameActsKeep DEF SameActs
<1> SUFFICES ASSUME ~overlapped'
             PROVE  /\ \A k, l \in Jobs : job'[k].pc # "idle" /\ job'[l].pc # "idle" => k = l
                    /\ ~blind' => \A k \in Jobs : WorksOnCurrent(k)'
                    /\ ~blind' => \A a \in Advisories :
                         \/ match'[a] = Rows(current)'[a]
                         \/ \E i \in 1..Len(acts') :
                              /\ a \in ChangedBy(i)' /\ acts'[i].status # "completed"
                              /\ ~\E k \in Jobs : job'[k].pc = "finish" /\ job'[k].act = i
  BY DEF AloneInv, Renewed
<1>2. \A k \in Jobs : k # j => job[k].pc = "idle" /\ job'[k].pc = "idle"
  BY DEF AloneInv
<1>3. ~blind' => \A k \in Jobs : WorksOnCurrent(k)'
  <2> SUFFICES ASSUME ~blind', NEW k \in Jobs, k # j PROVE WorksOnCurrent(k)'
    OBVIOUS
  <2>1. job'[k].pc = "idle"
    BY <1>2
  <2> QED BY <2>1 DEF WorksOnCurrent
<1>4. ASSUME ~blind', NEW a \in Advisories, match'[a] # Rows(current)[a]
      PROVE  \E i \in 1..Len(acts) :
               /\ a \in ChangedBy(i) /\ acts'[i].status # "completed"
               /\ ~\E k \in Jobs : job'[k].pc = "finish" /\ job'[k].act = i
  <2>1. match[a] # Rows(current)[a]
    BY <1>4
  <2>2. PICK i \in 1..Len(acts) :
          a \in ChangedBy(i) /\ acts[i].status # "completed" /\ ~Renewed(i)
    BY <1>4, <2>1 DEF AloneInv
  <2>3. acts'[i].status # "completed" /\ ~(job'[j].pc = "finish" /\ job'[j].act = i)
    BY <1>4, <2>2
  <2>4. \A k \in Jobs : k # j => job'[k].pc # "finish"
    BY <1>2
  <2> QED BY <2>2, <2>3, <2>4
<1>5. ASSUME ~blind', NEW a \in Advisories
      PROVE  \/ match'[a] = Rows(current)'[a]
             \/ \E i \in 1..Len(acts') :
                  /\ a \in ChangedBy(i)' /\ acts'[i].status # "completed"
                  /\ ~\E k \in Jobs : job'[k].pc = "finish" /\ job'[k].act = i
  BY <1>1, <1>4, <1>5
<1> QED BY <1>2, <1>3, <1>5

\* A job that is under way and stays with its activation, or finishes.
LEMMA StepJobMark ==
    ASSUME ReevaluationInv, NEW j \in Jobs, JobMark(j)
    PROVE  ReevaluationInv'
<1> USE DEF ReevaluationInv
<1>i. PICK i \in 1..Len(acts) : i = job[j].act
  BY DEF JobMark, JobsKnowActs
<1> USE <1>i
<1>1. /\ job[j].pc = "mark" /\ Mark(i, "running", FALSE)
      /\ UNCHANGED <<current, history, match, evalAt, clock, faults, overlapped, blind,
                     abandoned>>
  BY DEF JobMark, registerVars, resultVars
<1>2. /\ SameActs /\ degraded' \subseteq history'
      /\ acts'[i].status = "running"
      /\ \A k \in 1..Len(acts) : k # i => acts'[k] = acts[k]
      /\ \A k \in 1..Len(acts) :
           k # i /\ acts[k].action = "activate" /\ acts[k].catalog \in degraded
             => acts[k].catalog \in degraded'
  BY <1>1, MarkEffect DEF Status, registerVars
<1> DEFINE w == [job[j] EXCEPT !.pc = "load"]
<1>3. w \in Job /\ w.pc = "load" /\ w.act = i /\ w.sites = job[j].sites /\ w.at = job[j].at
  BY JobFields DEF Job
<1> HIDE DEF w
<1>4. /\ job' \in [Jobs -> Job] /\ job'[j] = w
      /\ \A k \in Jobs : k # j => job'[k] = job[k]
  <2>1. JobMoves(j, w)
    BY DEF JobMark, JobMoves, w
  <2> QED BY <1>3, <2>1, JobMovesEffect
<1>5. TypeOK'
  BY <1>1, <1>2, <1>4, SameActsKeep DEF TypeOK, SameActs
<1>6. JobsKnowActs' /\ ActivatedOnce'
  BY <1>1, <1>2, <1>3, <1>4, SameActsKeep DEF JobsKnowActs, SameActs
<1>7. NotHidden'
  <2>1. Underway' = Underway
    BY <1>1, <1>3, <1>4 DEF Underway
  <2>2. i \in Underway
    BY <1>1 DEF Underway
  <2> QED BY <1>1, <1>2, <2>1, <2>2 DEF NotHidden, SameActs
<1>8. StampedInThePast'
  BY <1>1, <1>3, <1>4 DEF StampedInThePast
<1>9. SitesKnown'
  <2>1. Kev /\ ~blind => \A k \in Jobs : job'[k].pc # "idle" => job'[k].sites
    BY <1>1, <1>3, <1>4 DEF SitesKnown
  <2>2. Kev /\ ~blind =>
          \A k \in 1..Len(acts') : acts'[k].status = "failed" => acts'[k].impact
    BY <1>2 DEF SitesKnown, SameActs
  <2> QED BY <1>1, <2>1, <2>2 DEF SitesKnown
<1>10. AloneInv'
  <2>1. WorksOnCurrent(j)'
    BY <1>3, <1>4 DEF WorksOnCurrent
  <2>2. \A k \in 1..Len(acts) : acts[k].status # "completed" => acts'[k].status # "completed"
    BY <1>2
  <2> QED BY <1>1, <1>2, <1>3, <1>4, <2>1, <2>2, AloneKept
<1> QED BY <1>5, <1>6, <1>7, <1>8, <1>9, <1>10

\* The steps that mark nothing: load, start and write.
LEMMA StepJobWorks ==
    ASSUME ReevaluationInv, NEW j \in Jobs, JobLoad(j) \/ JobStart(j) \/ JobWrite(j)
    PROVE  ReevaluationInv'
<1> USE DEF ReevaluationInv
<1>i. PICK i \in 1..Len(acts) : i = job[j].act
  BY DEF JobLoad, JobStart, JobWrite, JobsKnowActs
<1> USE <1>i
<1>1. UNCHANGED <<current, history, acts, degraded, faults, overlapped, blind, abandoned>>
  BY DEF JobLoad, JobStart, JobWrite, registerVars, resultVars
<1>2. PICK w \in Job : /\ JobMoves(j, w)
                       /\ w.pc \in {"start", "write", "finish"}
                       /\ w.act = i /\ w.sites = job[j].sites
                       /\ w.at = IF JobStart(j) THEN clock + 1 ELSE job[j].at
                       /\ w.ids = IF JobLoad(j) THEN Scope(j) ELSE job[j].ids
                       /\ w.pc # "finish" => w.rows = IF JobLoad(j) THEN Rows(current)
                                                      ELSE job[j].rows
                       /\ JobLoad(j) => (w.pc = "finish" <=> Scope(j) = {}) /\ w.pc # "write"
                       /\ JobStart(j) => w.pc = "write"
                       /\ JobWrite(j) => w.pc = "finish"
  <2>1. CASE JobLoad(j)
    <3> DEFINE w == [job[j] EXCEPT !.ids = Scope(j), !.rows = Rows(current),
                                   !.pc = IF Scope(j) = {} THEN "finish" ELSE "start"]
    <3>1. Scope(j) \subseteq Advisories /\ Rows(current) \in [Advisories -> Nat]
      BY RowsType DEF Scope, Changed, TypeOK
    <3>2. /\ w \in Job /\ w.act = i /\ w.sites = job[j].sites /\ w.at = job[j].at
          /\ w.ids = Scope(j) /\ w.rows = Rows(current)
          /\ w.pc = IF Scope(j) = {} THEN "finish" ELSE "start"
      <4> HIDE DEF Scope, Rows
      <4> QED BY <3>1, JobFields DEF Job
    <3>3. JobMoves(j, w) /\ job[j].pc = "load" /\ ~JobStart(j) /\ ~JobWrite(j)
      BY <2>1 DEF JobLoad, JobStart, JobWrite, JobMoves
    <3> HIDE DEF w
    <3> QED BY <2>1, <3>2, <3>3
  <2>2. CASE JobStart(j)
    <3> DEFINE w == [job[j] EXCEPT !.at = clock + 1, !.pc = "write"]
    <3>1. /\ w \in Job /\ w.act = i /\ w.sites = job[j].sites /\ w.at = clock + 1
          /\ w.ids = job[j].ids /\ w.rows = job[j].rows /\ w.pc = "write"
      <4>1. clock + 1 \in Nat
        BY DEF TypeOK
      <4> QED BY <4>1, JobFields DEF Job
    <3>2. JobMoves(j, w) /\ job[j].pc = "start" /\ ~JobLoad(j) /\ ~JobWrite(j)
      BY <2>2 DEF JobLoad, JobStart, JobWrite, JobMoves
    <3> HIDE DEF w
    <3> QED BY <2>2, <3>1, <3>2
  <2>3. CASE JobWrite(j)
    <3> DEFINE w == [job[j] EXCEPT !.pc = "finish", !.rows = NoRows]
    <3>1. NoRows \in [Advisories -> Nat]
      BY DEF NoRows
    <3>2. /\ w \in Job /\ w.act = i /\ w.sites = job[j].sites /\ w.at = job[j].at
          /\ w.ids = job[j].ids /\ w.pc = "finish"
      BY <3>1, JobFields DEF Job
    <3>3. JobMoves(j, w) /\ job[j].pc = "write" /\ ~JobLoad(j) /\ ~JobStart(j)
      BY <2>3 DEF JobLoad, JobStart, JobWrite, JobMoves
    <3> HIDE DEF w
    <3> QED BY <2>3, <3>2, <3>3
  <2> QED BY <2>1, <2>2, <2>3
<1>3. /\ job' \in [Jobs -> Job] /\ job'[j] = w
      /\ \A k \in Jobs : k # j => job'[k] = job[k]
  BY <1>2, JobMovesEffect
<1>4. /\ match' \in [Advisories -> Nat] /\ evalAt' \in [Advisories -> Nat]
      /\ clock' = IF JobStart(j) THEN clock + 1 ELSE clock
      /\ ~JobWrite(j) => UNCHANGED <<match, evalAt>>
      /\ \A a \in Advisories : evalAt'[a] = IF JobWrite(j) /\ Applies(j, a) THEN job[j].at
                                            ELSE evalAt[a]
      /\ \A a \in Advisories :
           match'[a] = IF JobWrite(j) /\ Applies(j, a)
                       THEN IF Kev THEN Rows(current)[a] ELSE job[j].rows[a]
                       ELSE match[a]
  <2>1. CASE JobLoad(j) \/ JobStart(j)
    <3>1. ~JobWrite(j) /\ UNCHANGED <<match, evalAt>>
      BY <2>1 DEF JobLoad, JobStart, JobWrite, resultVars
    <3>2. clock' = IF JobStart(j) THEN clock + 1 ELSE clock
      BY <2>1 DEF JobLoad, JobStart, resultVars
    <3> QED BY <3>1, <3>2 DEF TypeOK
  <2>2. CASE JobWrite(j)
    <3>1. ~JobStart(j) /\ clock' = clock
      BY <2>2 DEF JobStart, JobWrite
    <3>2. /\ job[j].rows \in [Advisories -> Nat] /\ job[j].at \in Nat
          /\ Rows(current) \in [Advisories -> Nat]
      BY JobFields, RowsType DEF TypeOK
    <3>3. /\ evalAt' = [a \in Advisories |-> IF Applies(j, a) THEN job[j].at ELSE evalAt[a]]
          /\ match' = [a \in Advisories |-> IF ~Applies(j, a) THEN match[a]
                                            ELSE IF Kev THEN Rows(current)[a]
                                            ELSE job[j].rows[a]]
      BY <2>2 DEF JobWrite
    <3>4. evalAt' \in [Advisories -> Nat] /\ match' \in [Advisories -> Nat]
      BY <3>2, <3>3 DEF TypeOK
    <3> QED BY <2>2, <3>1, <3>3, <3>4
  <2> QED BY <2>1, <2>2
<1>5. job[j].pc \in {"load", "start", "write"}
  BY DEF JobLoad, JobStart, JobWrite
<1>6. TypeOK'
  <2>1. clock' \in Nat
    BY <1>4 DEF TypeOK
  <2> QED BY <1>1, <1>3, <1>4, <2>1 DEF TypeOK
<1>7. JobsKnowActs' /\ ActivatedOnce'
  BY <1>1, <1>2, <1>3 DEF JobsKnowActs, ActivatedOnce
<1>8. NotHidden'
  <2>1. Underway' = Underway
    BY <1>2, <1>3, <1>5 DEF Underway
  <2> QED BY <1>1, <2>1 DEF NotHidden
<1>9. StampedInThePast'
  <2>1. clock <= clock' /\ clock \in Nat /\ clock' \in Nat
    BY <1>4 DEF TypeOK
  <2>2. \A k \in Jobs : job[k].at <= clock /\ job[k].at \in Nat
    BY JobFields DEF StampedInThePast
  <2>3. \A a \in Advisories : evalAt[a] <= clock /\ evalAt[a] \in Nat
    BY DEF StampedInThePast, TypeOK
  <2>4. \A k \in Jobs : job'[k].at <= clock'
    BY <1>2, <1>3, <1>4, <2>1, <2>2
  <2>5. \A a \in Advisories : evalAt'[a] <= clock'
    BY <1>4, <2>1, <2>2, <2>3
  <2> QED BY <2>4, <2>5 DEF StampedInThePast
<1>10. SitesKnown'
  BY <1>1, <1>2, <1>3, <1>5 DEF SitesKnown
<1>11. AloneInv'
  <2>1. SameActs
    BY <1>1 DEF SameActs, TypeOK, registerVars
  <2>2. ASSUME ~blind
        PROVE  JobLoad(j) => Scope(j) = ChangedBy(i)
    <3>1. Kev => job[j].sites
      BY <1>5, <2>2 DEF SitesKnown
    <3> QED BY <3>1 DEF Scope, ChangedBy
  <2>3. ASSUME ~overlapped, ~blind
        PROVE  WorksOnCurrent(j)'
    <3> SUFFICES /\ w.pc \in {"start", "write"} => w.ids = ChangedBy(i) /\ w.rows = Rows(current)
                 /\ w.pc = "write" => w.at = clock'
      BY <1>1, <1>2, <1>3 DEF WorksOnCurrent, ChangedBy, Changed, Rows
    <3>1. WorksOnCurrent(j)
      BY <2>3 DEF AloneInv
    <3>2. CASE JobLoad(j)
      BY <1>2, <2>2, <2>3, <3>2
    <3>3. CASE JobStart(j)
      <4>1. job[j].pc = "start" /\ ~JobLoad(j)
        BY <3>3 DEF JobStart, JobLoad
      <4> QED BY <1>2, <1>4, <3>1, <3>3, <4>1 DEF WorksOnCurrent
    <3>4. CASE JobWrite(j)
      BY <1>2, <3>4
    <3> QED BY <3>2, <3>3, <3>4
  <2>4. ASSUME ~overlapped, ~blind, JobWrite(j), NEW a \in Advisories
        PROVE  match'[a] = IF a \in ChangedBy(i) THEN Rows(current)[a] ELSE match[a]
    <3>1. job[j].pc = "write"
      BY <2>4 DEF JobWrite
    <3>2. job[j].ids = ChangedBy(i) /\ job[j].rows = Rows(current) /\ job[j].at = clock
      BY <2>4, <3>1 DEF AloneInv, WorksOnCurrent
    <3>3. Applies(j, a) <=> a \in ChangedBy(i)
      BY <3>2 DEF Applies, StampedInThePast
    <3> QED BY <1>4, <2>4, <3>2, <3>3
  <2>5. ASSUME ~overlapped, ~blind, NEW a \in Advisories
        PROVE  /\ match'[a] = match[a] \/ match'[a] = Rows(current)[a]
               /\ \A k \in 1..Len(acts) :
                    a \in ChangedBy(k) /\ acts[k].status # "completed" /\ ~Renewed(k)
                      => \/ match'[a] = Rows(current)[a]
                         \/ /\ acts'[k].status # "completed"
                            /\ ~(job'[j].pc = "finish" /\ job'[j].act = k)
    <3>1. CASE JobWrite(j)
      BY <1>1, <1>2, <1>3, <2>4, <2>5, <3>1
    <3>2. CASE ~JobWrite(j)
      <4>1. match'[a] = match[a]
        BY <1>4, <3>2
      <4>2. ASSUME w.pc = "finish" PROVE ChangedBy(i) = {}
        <5>1. JobLoad(j)
          BY <1>2, <3>2, <4>2
        <5> QED BY <1>2, <2>2, <2>5, <4>2, <5>1
      <4> QED BY <1>1, <1>2, <1>3, <4>1, <4>2
    <3> QED BY <3>1, <3>2
  <2> QED BY <1>1, <1>3, <1>5, <2>1, <2>3, <2>5, AloneKept
<1> QED BY <1>6, <1>7, <1>8, <1>9, <1>10, <1>11

\* A job ends: with a result, failed, or unrecorded.
JobEnds(j) == JobMoves(j, Idle)

LEMMA JobEndsEffect ==
    ASSUME ReevaluationInv, NEW j \in Jobs, JobEnds(j)
    PROVE  /\ job' \in [Jobs -> Job]
           /\ job'[j].pc = "idle" /\ job'[j].at = 0
           /\ \A k \in Jobs : k # j => job'[k] = job[k]
           /\ WorksOnCurrent(j)'
           /\ Underway \ {job[j].act} \subseteq Underway'
<1>1. /\ job' \in [Jobs -> Job] /\ job'[j] = Idle
      /\ \A k \in Jobs : k # j => job'[k] = job[k]
  BY IdleIsJob, JobMovesEffect DEF JobEnds, ReevaluationInv
<1>2. job'[j].pc = "idle" /\ job'[j].at = 0
  BY <1>1 DEF Idle
<1>3. WorksOnCurrent(j)'
  BY <1>2 DEF WorksOnCurrent
<1>4. Underway \ {job[j].act} \subseteq Underway'
  BY <1>1 DEF Underway
<1> QED BY <1>1, <1>2, <1>3, <1>4

LEMMA StepJobRecords ==
    ASSUME ReevaluationInv, NEW j \in Jobs, JobComplete(j) \/ JobFails(j)
    PROVE  ReevaluationInv'
<1> USE DEF ReevaluationInv
<1>i. PICK i \in 1..Len(acts) : i = job[j].act
  BY DEF JobComplete, JobFails, JobsKnowActs
<1> USE <1>i
<1>1. /\ job[j].pc # "idle" /\ JobEnds(j)
      /\ UNCHANGED <<current, history, match, evalAt, clock, faults, overlapped, abandoned>>
  BY DEF JobComplete, JobFails, JobEnds, JobMoves, registerVars, resultVars
<1>2. PICK s \in {"completed", "failed"}, im \in BOOLEAN :
        /\ Mark(i, s, im)
        /\ s = "completed" => job[j].pc = "finish" /\ blind' = blind
        /\ s = "failed" => /\ blind' = (blind \/ (Kev /\ job[j].pc \in {"mark", "load"}))
                           /\ im = (job[j].sites /\ job[j].pc \notin {"mark", "load"})
  <2>1. job[j].sites \in BOOLEAN
    BY JobFields
  <2>2. CASE JobComplete(j)
    BY <2>1, <2>2 DEF JobComplete
  <2>3. CASE JobFails(j)
    BY <2>1, <2>3 DEF JobFails
  <2> QED BY <2>2, <2>3
<1>3. /\ SameActs /\ degraded' \subseteq history'
      /\ acts'[i].status = s /\ acts'[i].impact = im
      /\ \A k \in 1..Len(acts) : k # i => acts'[k] = acts[k]
      /\ \A k \in 1..Len(acts) :
           k # i /\ acts[k].action = "activate" /\ acts[k].catalog \in degraded
             => acts[k].catalog \in degraded'
      /\ s = "failed" /\ acts[i].action = "activate" => acts[i].catalog \in degraded'
  BY <1>1, <1>2, MarkEffect DEF Status, registerVars
<1>4. /\ job' \in [Jobs -> Job]
      /\ job'[j].pc = "idle" /\ job'[j].at = 0
      /\ \A k \in Jobs : k # j => job'[k] = job[k]
      /\ WorksOnCurrent(j)'
      /\ Underway \ {i} \subseteq Underway'
  BY <1>1, JobEndsEffect
<1>5. blind' \in BOOLEAN /\ (blind => blind')
  <2>1. CASE s = "completed"
    BY <1>2, <2>1 DEF TypeOK
  <2>2. CASE s = "failed"
    BY <1>2, <2>2 DEF TypeOK
  <2> QED BY <2>1, <2>2
<1>6. TypeOK'
  BY <1>1, <1>3, <1>4, <1>5, SameActsKeep DEF TypeOK, SameActs
<1>7. JobsKnowActs' /\ ActivatedOnce'
  BY <1>1, <1>3, <1>4, SameActsKeep DEF JobsKnowActs, SameActs
<1>8. NotHidden'
  <2> SUFFICES ASSUME NEW k \in 1..Len(acts), acts'[k].status # "completed",
                      k \notin Underway' \cup abandoned'
               PROVE  /\ acts'[k].status = "failed"
                      /\ acts'[k].action = "activate" => acts'[k].catalog \in degraded'
    BY <1>3 DEF NotHidden, SameActs
  <2>1. CASE k = i
    BY <1>3, <2>1 DEF SameActs
  <2>2. CASE k # i
    <3>1. k \notin Underway \cup abandoned
      BY <1>1, <1>4, <2>2
    <3>2. /\ acts[k].status = "failed"
          /\ acts[k].action = "activate" => acts[k].catalog \in degraded
      BY <1>3, <2>2, <3>1 DEF NotHidden
    <3> QED BY <1>3, <2>2, <3>2
  <2> QED BY <2>1, <2>2
<1>9. StampedInThePast'
  <2>1. 0 <= clock /\ \A k \in Jobs : job[k].at <= clock
    BY DEF StampedInThePast, TypeOK
  <2>2. \A k \in Jobs : job'[k].at <= clock'
    BY <1>1, <1>4, <2>1
  <2>3. \A a \in Advisories : evalAt'[a] <= clock'
    BY <1>1 DEF StampedInThePast
  <2> QED BY <2>2, <2>3 DEF StampedInThePast
<1>10. SitesKnown'
  <2> SUFFICES ASSUME Kev, ~blind'
               PROVE  /\ \A k \in Jobs : job'[k].pc # "idle" => job'[k].sites
                      /\ \A k \in 1..Len(acts) : acts'[k].status = "failed" => acts'[k].impact
    BY <1>3 DEF SitesKnown, SameActs
  <2>1. /\ \A k \in Jobs : job[k].pc # "idle" => job[k].sites
        /\ \A k \in 1..Len(acts) : acts[k].status = "failed" => acts[k].impact
    BY <1>5 DEF SitesKnown
  <2>2. s = "failed" => im
    BY <1>1, <1>2, <2>1
  <2> QED BY <1>3, <1>4, <2>1, <2>2
<1>11. AloneInv'
  <2>1. ASSUME NEW k \in 1..Len(acts), acts[k].status # "completed", ~Renewed(k)
        PROVE  acts'[k].status # "completed"
    <3>1. CASE k = i
      BY <1>2, <1>3, <2>1, <3>1 DEF Renewed
    <3>2. CASE k # i
      BY <1>3, <2>1, <3>2
    <3> QED BY <3>1, <3>2
  <2> QED BY <1>1, <1>3, <1>4, <1>5, <2>1, AloneKept
<1> QED BY <1>6, <1>7, <1>8, <1>9, <1>10, <1>11

LEMMA StepJobLost ==
    ASSUME ReevaluationInv, NEW j \in Jobs, JobLost(j)
    PROVE  ReevaluationInv'
<1> USE DEF ReevaluationInv
<1>i. PICK i \in 1..Len(acts) : i = job[j].act
  BY DEF JobLost, JobsKnowActs
<1> USE <1>i
<1>1. /\ job[j].pc # "idle" /\ JobEnds(j) /\ abandoned' = abandoned \cup {i}
      /\ UNCHANGED <<current, history, acts, degraded, match, evalAt, clock, overlapped, blind>>
  BY DEF JobLost, JobEnds, JobMoves, registerVars, resultVars
<1>2. /\ job' \in [Jobs -> Job]
      /\ job'[j].pc = "idle" /\ job'[j].at = 0
      /\ \A k \in Jobs : k # j => job'[k] = job[k]
      /\ WorksOnCurrent(j)'
      /\ Underway \ {i} \subseteq Underway'
  BY <1>1, JobEndsEffect
<1>3. TypeOK'
  <2>1. faults' \in 0..MaxFaults
    BY ReevaluationConstants DEF JobLost, TypeOK
  <2>2. i \in 1..MaxActs
    BY ReevaluationConstants DEF TypeOK
  <2> QED BY <1>1, <1>2, <2>1, <2>2 DEF TypeOK
<1>4. JobsKnowActs' /\ ActivatedOnce'
  BY <1>1, <1>2 DEF JobsKnowActs, ActivatedOnce
<1>5. NotHidden'
  BY <1>1, <1>2 DEF NotHidden
<1>6. StampedInThePast'
  <2>1. 0 <= clock /\ \A k \in Jobs : job[k].at <= clock
    BY DEF StampedInThePast, TypeOK
  <2>2. \A k \in Jobs : job'[k].at <= clock'
    BY <1>1, <1>2, <2>1
  <2>3. \A a \in Advisories : evalAt'[a] <= clock'
    BY <1>1 DEF StampedInThePast
  <2> QED BY <2>2, <2>3 DEF StampedInThePast
<1>7. SitesKnown'
  BY <1>1, <1>2 DEF SitesKnown
<1>8. AloneInv'
  <2>1. SameActs
    BY <1>1 DEF SameActs, TypeOK, registerVars
  <2> QED BY <1>1, <1>2, <2>1, AloneKept
<1> QED BY <1>3, <1>4, <1>5, <1>6, <1>7, <1>8

LEMMA StepHubRestart ==
    ASSUME ReevaluationInv, HubRestart
    PROVE  ReevaluationInv'
<1> USE DEF ReevaluationInv
<1>1. /\ abandoned' = abandoned \cup Underway
      /\ UNCHANGED <<current, history, acts, degraded, match, evalAt, clock, overlapped, blind>>
  BY DEF HubRestart, registerVars, resultVars
<1>2. job' \in [Jobs -> Job] /\ \A k \in Jobs : job'[k].pc = "idle" /\ job'[k].at = 0
  <2>1. Idle.pc = "idle" /\ Idle.at = 0
    BY DEF Idle
  <2> QED BY <2>1, IdleIsJob DEF HubRestart
<1>3. TypeOK'
  <2>1. faults' \in 0..MaxFaults
    BY ReevaluationConstants DEF HubRestart, TypeOK
  <2>2. Underway \subseteq 1..MaxActs
    <3> SUFFICES ASSUME NEW k \in Jobs, job[k].pc # "idle" PROVE job[k].act \in 1..MaxActs
      BY DEF Underway
    <3>1. job[k].act \in 1..Len(acts)
      BY DEF JobsKnowActs
    <3> QED BY <3>1, ReevaluationConstants DEF TypeOK
  <2> QED BY <1>1, <1>2, <2>1, <2>2 DEF TypeOK
<1>4. JobsKnowActs' /\ ActivatedOnce'
  BY <1>1, <1>2 DEF JobsKnowActs, ActivatedOnce
<1>5. NotHidden'
  BY <1>1 DEF NotHidden
<1>6. StampedInThePast'
  BY <1>1, <1>2 DEF StampedInThePast, TypeOK
<1>7. SitesKnown'
  BY <1>1, <1>2 DEF SitesKnown
<1>8. AloneInv'
  <2>1. \A k \in Jobs : WorksOnCurrent(k)'
    BY <1>2 DEF WorksOnCurrent
  <2>2. \A k \in Jobs : job'[k].pc # "finish"
    BY <1>2
  <2>3. ASSUME ~overlapped, ~blind, NEW a \in Advisories
        PROVE  \/ match[a] = Rows(current)[a]
               \/ \E k \in 1..Len(acts) : a \in ChangedBy(k) /\ acts[k].status # "completed"
    BY <2>3 DEF AloneInv
  <2> QED BY <1>1, <1>2, <2>1, <2>2, <2>3 DEF AloneInv, Renewed, ChangedBy, Changed, Rows
<1> QED BY <1>3, <1>4, <1>5, <1>6, <1>7, <1>8

LEMMA StutterReevaluation ==
    ASSUME ReevaluationInv, UNCHANGED vars
    PROVE  ReevaluationInv'
<1> USE DEF ReevaluationInv, vars, registerVars, resultVars
<1>1. TypeOK' /\ JobsKnowActs' /\ ActivatedOnce'
  BY DEF TypeOK, JobsKnowActs, ActivatedOnce
<1>2. NotHidden' /\ StampedInThePast' /\ SitesKnown'
  BY DEF NotHidden, Underway, StampedInThePast, SitesKnown
<1>3. AloneInv'
  BY DEF AloneInv, WorksOnCurrent, Renewed, ChangedBy, Changed, Rows
<1> QED BY <1>1, <1>2, <1>3

--------------------------------------------------------------------------------
(* The theorems.                                                           *)

\* The inductive invariant holds of every state: the workers of
\* _reevaluate_activation, the retries and the restarts of the hub never leave it.
THEOREM ReevaluationInvariance == Spec => []ReevaluationInv
<1>1. Init => ReevaluationInv
  BY InitReevaluation
<1>2. ReevaluationInv /\ [Next]_vars => ReevaluationInv'
  <2> SUFFICES ASSUME ReevaluationInv, [Next]_vars PROVE ReevaluationInv'
    OBVIOUS
  <2>1. CASE \E c \in Catalogs : Activate(c) \/ Rollback(c)
    BY <2>1, StepSwitch
  <2>2. CASE \E j \in Jobs : JobStep(j) \/ JobLost(j)
    BY <2>2, StepJobMark, StepJobWorks, StepJobRecords, StepJobLost DEF JobStep
  <2>3. CASE \E i \in 1..Len(acts) : Retry(i)
    BY <2>3, StepRetry
  <2>4. CASE HubRestart
    BY <2>4, StepHubRestart
  <2>5. CASE UNCHANGED vars
    BY <2>5, StutterReevaluation
  <2> QED BY <2>1, <2>2, <2>3, <2>4, <2>5 DEF Next
<1> QED BY <1>1, <1>2, PTL DEF Spec

\* Type correctness of the activations, jobs, matches and stamps.
THEOREM ReevaluationTypeCorrect == Spec => []TypeOK
<1>1. ReevaluationInv => TypeOK
  BY DEF ReevaluationInv
<1> QED BY <1>1, ReevaluationInvariance, PTL

\* An activation that was not re-evaluated is worked on, or marked failed with its
\* run degraded, so that retry_reevaluation can find it.
THEOREM FailureIsNotHidden == Spec => []NotHidden
<1>1. ReevaluationInv => NotHidden
  BY DEF ReevaluationInv
<1> QED BY <1>1, ReevaluationInvariance, PTL

\* Re-evaluating only what a catalog changed is enough: when everything is recorded
\* as completed and nothing overlapped, the stored matches are those of the active
\* catalog, whatever failed and in whatever order it was retried.
THEOREM ChangesAreEnough == Spec => []MatchesCurrent
<1>1. ReevaluationInv => MatchesCurrent
  <2> SUFFICES ASSUME ReevaluationInv, AllCompleted, ~overlapped, ~blind
               PROVE  match = Rows(current)
    BY DEF MatchesCurrent
  <2>1. \A a \in Advisories : match[a] = Rows(current)[a]
    BY DEF ReevaluationInv, AloneInv, AllCompleted
  <2>2. match \in [Advisories -> Nat] /\ Rows(current) \in [Advisories -> Nat]
    BY RowsType DEF ReevaluationInv, TypeOK
  <2> QED BY <2>1, <2>2
<1> QED BY <1>1, ReevaluationInvariance, PTL
================================================================================
