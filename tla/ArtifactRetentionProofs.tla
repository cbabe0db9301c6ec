------------------------ MODULE ArtifactRetentionProofs ------------------------
(***************************************************************************)
(* RetentionInv is an invariant of ArtifactLifecycle: the revisions that   *)
(* max_history promises to keep stay restorable through updates, stops and *)
(* reconciliations.  TempInv is another: no update leaves a file where the *)
(* next one has to put its snapshot.                                       *)
(***************************************************************************)
EXTENDS ArtifactRecoveryProofs, FiniteSetTheorems

USE LifecycleAssumption, ZenonT(30) DEF At, Goto, Return, Works, Fails, db, fs

-----------------------------------------------------------------------------
(* The retained revisions. *)

\* Every step keeps the retained revisions.
LEMMA NextRetention == IndInv /\ RecoveryInv /\ RetentionInv /\ [Next]_vars => RetentionInv'
\* A set of revisions is finite, and a part of it is not larger.
<1>RevisionCount.
  ASSUME NEW S, NEW T, S \subseteq T, T \subseteq Revisions
  PROVE  Cardinality(S) \in Nat /\ Cardinality(T) \in Nat /\ Cardinality(S) <= Cardinality(T)
  <2> USE <1>RevisionCount
  <2>1. IsFiniteSet(Revisions)
    BY FS_Interval, SMTT(20) DEF Revisions
  <2>2. IsFiniteSet(T)
    BY <2>1, FS_Subset
  <2>3. IsFiniteSet(S) /\ Cardinality(S) <= Cardinality(T)
    BY <2>2, FS_Subset
  <2> QED BY <2>2, <2>3, FS_CardinalityType

\* The greatest of a set of revisions.
<1>LastRevision.
  ASSUME NEW T \in SUBSET Revisions, T # {}
  PROVE  \E m \in T : \A s \in T : s <= m
  <2> USE <1>LastRevision
  <2> DEFINE D == {d \in Nat : \E s \in T : d = MaxRevision - s}
  <2>1. \A s \in T : s \in Int /\ MaxRevision - s \in Nat
    BY SMTT(20) DEF Revisions
  <2>2. D \in SUBSET Nat /\ D # {}
    BY <2>1
  <2>3. PICK R : R = OpToRel(<, Nat)
    OBVIOUS
  <2>4. IsWellFoundedOn(R, Nat)
    BY <2>3, NatLessThanWellFounded
  <2>5. PICK d \in D : \A e \in D : ~(<<e, d>> \in R)
    BY <2>2, <2>4, WFMin
  <2>6. R = {ss \in Nat \X Nat : ss[1] < ss[2]}
    BY <2>3 DEF OpToRel
  <2>7. PICK m \in T : d = MaxRevision - m
    BY <2>5
  <2>8. ASSUME NEW s \in T PROVE s <= m
    <3>1. MaxRevision - s \in D /\ d \in Nat
      BY <2>1
    <3>2. ~(MaxRevision - s < d)
      BY <2>5, <2>6, <3>1
    <3> QED BY <2>1, <2>7, <3>2, SMTT(20)
  <2> QED BY <2>8

\* Only the rows below n count.
<1>NewestSame.
  ASSUME NEW f, NEW g, NEW n, \A r \in Revisions : r < n => f[r] = g[r]
  PROVE  Newest(f, n) = Newest(g, n)
  <2> USE <1>NewestSame
  <2>1. Older(f, n) = Older(g, n)
    BY DEF Older
  <2> QED BY <2>1 DEF Newest

\* One more revision retains nothing that was not retained, but the last one.
<1>NewestNext.
  ASSUME NEW f, NEW n \in Revisions, NEW r \in Newest(f, n + 1), r # n
  PROVE  r \in Newest(f, n)
  <2> USE <1>NewestNext
  <2> DEFINE S == {s \in Older(f, n) : s > r}
             T == {s \in Older(f, n + 1) : s > r}
  <2>1. r \in Older(f, n + 1) /\ ~(Cardinality(T) >= MaxHistory)
    BY DEF Newest
  <2>2. n \in Int /\ Revisions \subseteq Int
    BY SMTT(20) DEF Revisions
  <2>3. \A s \in Revisions : s < n => s < n + 1
    BY <2>2, SMTT(20)
  <2>4. r \in Revisions /\ r < n /\ f[r] # NoBody
    <3>1. r \in Revisions /\ r < n + 1 /\ f[r] # NoBody
      BY <2>1 DEF Older
    <3> QED BY <2>2, <3>1, SMTT(20)
  <2>5. r \in Older(f, n) /\ S \subseteq T /\ T \subseteq Revisions
    BY <2>3, <2>4 DEF Older
  <2>6. Cardinality(S) \in Nat /\ Cardinality(T) \in Nat /\ Cardinality(S) <= Cardinality(T)
    BY <2>5, <1>RevisionCount
  <2>7. ~(Cardinality(S) >= MaxHistory)
    <3> HIDE DEF S, T
    <3> QED BY <2>1, <2>6, SMTT(20)
  <2> QED BY <2>5, <2>7 DEF Newest

\* Dropping rows of revisions that are not retained, some or all of them, brings
\* none of them back.
<1>NewestPruned.
  ASSUME NEW f, NEW g, NEW n,
         \A r \in Revisions : g[r] = f[r] \/ (g[r] = NoBody /\ r \in Older(f, n) \ Newest(f, n)),
         NEW r \in Newest(g, n)
  PROVE  r \in Newest(f, n)
  <2> USE <1>NewestPruned
  <2> DEFINE P == Older(f, n) \ Newest(f, n)
             above(h, x) == {s \in Older(h, n) : s > x}
  <2>1. r \in Older(g, n) /\ ~(Cardinality(above(g, r)) >= MaxHistory)
    BY DEF Newest
  <2>2. r \in Revisions /\ r \in Older(f, n)
    BY <2>1 DEF Older
  <2> SUFFICES ASSUME r \in P PROVE FALSE
    BY <2>2
  <2>3. P \in SUBSET Revisions
    BY DEF Older
  <2>4. PICK p \in P : \A s \in P : s <= p
    BY <2>3, <1>LastRevision
  <2>5. Cardinality(above(f, p)) >= MaxHistory
    BY <2>4 DEF Newest
  <2>6. Revisions \subseteq Int /\ r <= p /\ p \in Revisions
    BY <2>3, <2>4, SMTT(20) DEF Revisions
  <2>7. above(f, p) \subseteq above(g, r) /\ above(g, r) \subseteq Revisions
    <3>1. ASSUME NEW s \in above(f, p) PROVE s \in above(g, r)
      <4>1. s \in Revisions /\ s < n /\ f[s] # NoBody /\ s > p
        BY <3>1 DEF Older
      <4>2. s \notin P /\ s > r
        BY <2>2, <2>4, <2>6, <4>1, SMTT(20)
      <4>3. g[s] = f[s]
        BY <4>1, <4>2
      <4> QED BY <4>1, <4>2, <4>3 DEF Older
    <3> QED BY <3>1 DEF Older
  <2>8. /\ Cardinality(above(f, p)) \in Nat /\ Cardinality(above(g, r)) \in Nat
        /\ Cardinality(above(f, p)) <= Cardinality(above(g, r))
    BY <2>7, <1>RevisionCount
  <2> HIDE DEF above
  <2> QED BY <2>1, <2>5, <2>8, SMTT(20)

\* Who is retained when nothing of the artifact changed.
<1>RetainedFrame.
  ASSUME NEW j \in Ids, Retained(j), row'[j] = row[j], revs'[j] = revs[j],
         intent'[j] = intent[j], history'[j] = history[j]
  PROVE  Retained(j)'
  BY <1>RetainedFrame DEF Retained, Committed, Outgoing

\* When only the intent changed, and no revision is owed to history any more.
<1>RetainedClosed.
  ASSUME NEW id \in Ids, Retained(id), row'[id] = row[id], revs'[id] = revs[id],
         history'[id] = history[id],
         intent[id].op = "update" /\ Committed(id) =>
           revs[id][Outgoing(id)] \in {NoBody, history[id][Outgoing(id)]}
  PROVE  Retained(id)'
  <2> USE <1>RetainedClosed
  <2>1. \A r \in Newest(revs[id], row[id].rev) : revs[id][r] # NoBody
    BY DEF Newest, Older
  <2>2. row[id] # NoRow => \A r \in Newest(revs[id], row[id].rev) : history[id][r] = revs[id][r]
    BY <2>1 DEF Retained
  <2> QED BY <2>2 DEF Retained

\* When only the outgoing body of a committed update moved.
<1>RetainedOpen.
  ASSUME NEW id \in Ids, Retained(id), row'[id] = row[id], revs'[id] = revs[id],
         intent'[id] = intent[id], intent[id].op = "update", Committed(id),
         \A r \in Revisions : r # Outgoing(id) => history'[id][r] = history[id][r]
  PROVE  Retained(id)'
  <2> USE <1>RetainedOpen
  <2>1. \A r \in Newest(revs[id], row[id].rev) : r \in Revisions
    BY DEF Newest, Older
  <2> QED BY <2>1 DEF Retained, Committed, Outgoing

\* A first revision supersedes none.
<1>RetainedFirst.
  ASSUME NEW id \in Ids, row'[id] = NoRow \/ row'[id].rev = 1
  PROVE  Retained(id)'
  <2> USE <1>RetainedFirst
  <2>1. \A f : Newest(f, 1) = {}
    <3>1. \A r \in Revisions : ~(r < 1)
      BY SMTT(20) DEF Revisions
    <3> QED BY <3>1 DEF Newest, Older
  <2> QED BY <2>1 DEF Retained

\* The steps of an update.
<1>UpdateRetention.
  ASSUME NEW id \in Ids, DbType, FsType, HistoryShape(id), UpdateShape(id),
         UpdateRunning(id), intent[id].op = "update", UpdateStep(id), Retention(id)
  PROVE  Retention(id)'
  <2> USE <1>UpdateRetention
  <2> DEFINE p  == intent[id].prior
             t  == intent[id].target
             o  == Outgoing(id)
             S2 == {"updSnapshot", "updCopy", "updSwap", "updUndoSnapshot",
                    "updUndoStaging", "updRevert"}
             S3 == {"updDurable", "updPrune", "updFinalize"}
  <2>t. /\ p \in Bodies /\ t \in Revisions /\ o \in Revisions /\ t \in Int /\ o \in Int
        /\ o = t - 1 /\ NoBody \notin Bodies
        /\ history[id] \in [Revisions -> Digests] /\ revs[id] \in [Revisions -> Digests]
    BY UpdateTypes
  <2>r. /\ row[id] # NoRow /\ (Committed(id) => row[id].rev = t /\ row[id].rev # o)
        /\ ~Committed(id) => row[id].rev = o
    <3>1. o # t
      BY <2>t, SMTT(20)
    <3>2. row[id] # NoRow
      BY UpdateRowCases
    <3>3. row[id].rev \in {o, t}
      BY SMTT(20) DEF UpdateShape
    <3> QED BY <3>1, <3>2, <3>3 DEF Committed
  <2>i. Retained(id) /\ RevertRetains(id) /\ SnapshotTaken(id)
    BY DEF Retention
  \* A step that leaves the rows, the intent and history alone.
  <2>q. ASSUME UNCHANGED <<row, revs, intent, history>>,
               cur' = id /\ pc' \in S2 => cur = id /\ pc \in S2,
               cur' = id /\ pc' \in S3 => cur = id /\ pc \in S3
        PROVE  Retention(id)'
    <3>1. Retained(id)'
      BY <2>q, <2>i, <1>RetainedFrame
    <3>2. RevertRetains(id)' /\ SnapshotTaken(id)'
      BY <2>q, <2>i DEF RevertRetains, SnapshotTaken, Outgoing
    <3> QED BY <3>1, <3>2 DEF Retention
  \* A step after which neither a revert nor the end of the update follows.
  <2>e. ASSUME Retained(id)', ~(cur' = id /\ pc' \in S2 \cup S3)
        PROVE  Retention(id)'
    BY <2>e DEF Retention, RevertRetains, SnapshotTaken
  <2>1. CASE UpdateWrite(id) \/ UpdateSync(id) \/ UpdateDropStaging(id) \/ UpdateUndoTemp(id)
    BY <2>1, <2>q DEF UpdateWrite, UpdateSync, UpdateDropStaging, UpdateUndoTemp
  <2>2. CASE UpdateDurable(id) \/ UpdateUndoStaging(id)
    BY <2>2, <2>q DEF UpdateDurable, UpdateUndoStaging
  <2>3. CASE UpdateCommit(id)
    <3>1. CASE UNCHANGED <<row, revs>> /\ ~(cur' = id /\ pc' = "updSnapshot")
      BY <2>3, <3>1, <2>q DEF UpdateCommit
    <3>2. CASE /\ row' = [row EXCEPT ![id] = [rev |-> t, sha |-> intent[id].expected]]
               /\ revs' = [revs EXCEPT ![id] =
                             [r \in Revisions |-> IF r = t THEN intent[id].expected
                                                  ELSE IF r = o /\ revs[id][r] = NoBody
                                                  THEN p ELSE revs[id][r]]]
               /\ pc' = "updSnapshot" /\ UNCHANGED <<intent, fs>>
      <4>1. ~Committed(id)
        BY <2>3 DEF UpdateCommit, UpdateRunning
      <4>2. row[id].rev = o
        BY <2>r, <4>1
      <4>3. row'[id] = [rev |-> t, sha |-> intent[id].expected]
        BY <3>2 DEF DbType
      <4>4. row'[id].rev = t
        BY <4>3, SMTT(20)
      <4>5. revs'[id] = [r \in Revisions |-> IF r = t THEN intent[id].expected
                                             ELSE IF r = o /\ revs[id][r] = NoBody
                                             THEN p ELSE revs[id][r]]
        BY <3>2 DEF DbType
      <4>6. \A r \in Revisions : r < o => revs'[id][r] = revs[id][r]
        BY <2>t, <4>5, SMTT(20) DEF Revisions
      <4>7. Newest(revs'[id], o) = Newest(revs[id], o)
        BY <4>6, <1>NewestSame
      <4>8. \A r \in Newest(revs[id], o) : history[id][r] = revs[id][r] /\ r \in Revisions /\ r < o
        BY <2>i, <2>r, <4>1, <4>2 DEF Retained, Newest, Older
      <4>9. \A r \in Newest(revs'[id], o) : history'[id][r] = revs'[id][r]
        BY <3>2, <4>6, <4>7, <4>8
      <4>10. o + 1 = t
        BY <2>t, SMTT(20)
      <4>11. \A r \in Newest(revs'[id], t) : r = o \/ history'[id][r] = revs'[id][r]
        BY <2>t, <4>9, <4>10, <1>NewestNext
      <4>12. Retained(id)'
        BY <3>2, <4>4, <4>11 DEF Retained, Committed, Outgoing
      <4>13. RevertRetains(id)' /\ SnapshotTaken(id)'
        BY <3>2, <4>9 DEF RevertRetains, SnapshotTaken, Outgoing
      <4> QED BY <4>12, <4>13 DEF Retention
    <3> QED BY <2>3, <3>1, <3>2 DEF UpdateCommit

  <2>4. CASE UpdateSnapshot(id)
    <3>1. CASE UNCHANGED history /\ ~(cur' = id /\ pc' = "updSwap")
      BY <2>4, <3>1, <2>q DEF UpdateSnapshot
    <3>2. CASE /\ history' = [history EXCEPT ![id][o] = final[id]]
               /\ UNCHANGED <<row, revs, intent>> /\ pc' \notin S3
      <4>1. Committed(id) /\ cur = id /\ pc \in S2
        BY <2>4 DEF UpdateSnapshot, UpdateRunning
      <4>2. \A r \in Revisions : r # o => history'[id][r] = history[id][r]
        BY <2>t, <3>2 DEF FsType
      <4>3. Retained(id)'
        BY <2>i, <3>2, <4>1, <4>2, <1>RetainedOpen
      <4>4. \A r \in Newest(revs[id], o) : history'[id][r] = history[id][r]
        <5>1. \A r \in Newest(revs[id], o) : r \in Revisions /\ r < o
          BY DEF Newest, Older
        <5> QED BY <2>t, <4>2, <5>1, SMTT(20)
      <4>5. RevertRetains(id)' /\ SnapshotTaken(id)'
        BY <2>i, <3>2, <4>1, <4>4 DEF RevertRetains, SnapshotTaken, Outgoing
      <4> QED BY <4>3, <4>5 DEF Retention
    <3> QED BY <2>4, <3>1, <3>2 DEF UpdateSnapshot
  <2>5. CASE UpdateCopy(id)
    <3>1. CASE UNCHANGED history /\ pc' = "updUndoStaging"
      BY <2>5, <3>1, <2>q DEF UpdateCopy
    <3>2. CASE /\ history' = [history EXCEPT ![id][o] = final[id]]
               /\ UNCHANGED <<row, revs, intent>> /\ pc' \notin S2
      <4>1. Committed(id) /\ final[id] = p
        BY <2>5 DEF UpdateCopy, UpdateRunning
      <4>2. (\A r \in Revisions : r # o => history'[id][r] = history[id][r]) /\ history'[id][o] = p
        BY <2>t, <3>2, <4>1 DEF FsType
      <4>3. Retained(id)'
        BY <2>i, <3>2, <4>1, <4>2, <1>RetainedOpen
      <4>4. RevertRetains(id)' /\ SnapshotTaken(id)'
        BY <3>2, <4>2 DEF RevertRetains, SnapshotTaken, Outgoing
      <4> QED BY <4>3, <4>4 DEF Retention
    <3> QED BY <2>5, <3>1, <3>2 DEF UpdateCopy
  <2>6. CASE UpdateSwap(id)
    <3>1. UNCHANGED <<row, revs, intent, history>> /\ cur = id /\ pc = "updSwap"
      BY <2>6 DEF UpdateSwap
    <3>2. history[id][o] = p
      BY <3>1 DEF UpdateRunning, UpdateShape
    <3>3. Retained(id)'
      BY <2>i, <3>1, <1>RetainedFrame
    <3>4. RevertRetains(id)' /\ SnapshotTaken(id)'
      BY <2>i, <3>1, <3>2 DEF RevertRetains, SnapshotTaken, Outgoing
    <3> QED BY <3>3, <3>4 DEF Retention
  <2>7. CASE UpdatePrune(id)
    <3>1. /\ Committed(id) /\ UNCHANGED <<row, intent>> /\ pc' = "updFinalize" /\ cur = id
          /\ pc = "updPrune"
      BY <2>7 DEF UpdatePrune, UpdateRunning
    <3>2. PICK keptRows \in SUBSET Prunable(id), keptBodies \in SUBSET Prunable(id) :
            /\ revs' = [revs EXCEPT ![id] =
                          [r \in Revisions |-> IF r \in Prunable(id) \ keptRows
                                               THEN NoBody ELSE revs[id][r]]]
            /\ history' = [history EXCEPT ![id] =
                             [r \in Revisions |-> IF r \in Prunable(id) \ keptBodies
                                                  THEN NoBody ELSE history[id][r]]]
      BY <2>7 DEF UpdatePrune
    <3>3. \A r \in Revisions :
            /\ revs'[id][r] = revs[id][r] \/ (revs'[id][r] = NoBody /\ r \in Prunable(id))
            /\ r \notin Prunable(id) => revs'[id][r] = revs[id][r] /\ history'[id][r] = history[id][r]
      BY <3>2 DEF DbType, FsType
    <3>4. Prunable(id) = Older(revs[id], t) \ Newest(revs[id], t)
      <4>1. row[id].rev = t
        BY <2>r, <3>1
      <4>2. Superseded(id) = Older(revs[id], t)
        BY <4>1 DEF Superseded, Older
      <4> QED BY <4>2 DEF Prunable, Newest
    <3>5. ASSUME NEW r \in Newest(revs'[id], t)
          PROVE  history'[id][r] = revs'[id][r] \/ r = o
      <4>1. r \in Newest(revs[id], t)
        BY <3>3, <3>4, <1>NewestPruned
      <4>2. r \notin Prunable(id) /\ r \in Revisions
        BY <3>4, <4>1 DEF Newest, Older
      <4>3. history[id][r] = revs[id][r] \/ r = o
        BY <2>i, <2>r, <3>1, <4>1 DEF Retained
      <4> QED BY <3>3, <4>2, <4>3
    <3>6. Retained(id)'
      <4>1. row'[id].rev = t /\ Committed(id)' /\ Outgoing(id)' = o /\ intent'[id].op = "update"
        BY <2>r, <3>1 DEF Committed, Outgoing
      <4> QED BY <3>5, <4>1 DEF Retained
    <3>7. history'[id][o] = p
      <4>1. o \notin Prunable(id)
        BY <2>t, <2>r, <3>1, OutgoingKept, SMTT(20)
      <4> QED BY <2>i, <2>t, <3>1, <3>3, <4>1 DEF SnapshotTaken
    <3>8. RevertRetains(id)' /\ SnapshotTaken(id)'
      BY <3>1, <3>7 DEF RevertRetains, SnapshotTaken, Outgoing
    <3> QED BY <3>6, <3>8 DEF Retention
  <2>8. CASE UpdateFinalize(id)
    <3>1. /\ UNCHANGED <<row, revs, history>> /\ cur = id /\ pc = "updFinalize" /\ cur' = NoId
      BY <2>8 DEF UpdateFinalize
    <3>2. history[id][o] = p /\ p # NoBody
      BY <2>i, <2>t, <3>1 DEF SnapshotTaken
    <3>3. revs[id][o] \in {NoBody, history[id][o]}
      BY <2>t, <3>2 DEF HistoryShape
    <3>4. Retained(id)'
      BY <2>i, <3>1, <3>3, <1>RetainedClosed
    <3> QED BY <2>e, <3>1, <3>4
  <2>9. CASE UpdateUndoSnapshot(id)
    <3>1. CASE UNCHANGED history
      BY <2>9, <3>1, <2>q DEF UpdateUndoSnapshot
    <3>2. CASE /\ history' = [history EXCEPT ![id][o] = NoBody]
               /\ UNCHANGED <<row, revs, intent>> /\ pc' \notin S3
      <4>1. Committed(id) /\ cur = id /\ pc \in S2
        BY <2>9 DEF UpdateUndoSnapshot, UpdateRunning
      <4>2. \A r \in Revisions : r # o => history'[id][r] = history[id][r]
        BY <2>t, <3>2 DEF FsType
      <4>3. Retained(id)'
        BY <2>i, <3>2, <4>1, <4>2, <1>RetainedOpen
      <4>4. \A r \in Newest(revs[id], o) : history'[id][r] = history[id][r]
        <5>1. \A r \in Newest(revs[id], o) : r \in Revisions /\ r < o
          BY DEF Newest, Older
        <5> QED BY <2>t, <4>2, <5>1, SMTT(20)
      <4>5. RevertRetains(id)' /\ SnapshotTaken(id)'
        BY <2>i, <3>2, <4>1, <4>4 DEF RevertRetains, SnapshotTaken, Outgoing
      <4> QED BY <4>3, <4>5 DEF Retention
    <3> QED BY <2>9, <3>1, <3>2 DEF UpdateUndoSnapshot
  <2>10. CASE UpdateRevert(id)
    <3>1. CASE UNCHANGED <<row, revs>> /\ cur' = NoId
      BY <2>10, <3>1, <2>q DEF UpdateRevert
    <3>2. CASE /\ row' = [row EXCEPT ![id] = [rev |-> o, sha |-> p]]
               /\ revs' = [revs EXCEPT ![id][t] = NoBody]
               /\ pc' = "updUndoTemp" /\ UNCHANGED fs
      <4>1. row'[id].rev = o
        <5>1. row'[id] = [rev |-> o, sha |-> p]
          BY <3>2 DEF DbType
        <5> QED BY <5>1, SMTT(20)
      <4>2. \A r \in Revisions : r # t => revs'[id][r] = revs[id][r]
        BY <2>t, <3>2 DEF DbType
      <4>3. \A r \in Revisions : r < o => revs'[id][r] = revs[id][r]
        BY ONLY <2>t, <4>2, SMTT(20) DEF Revisions
      <4>4. Newest(revs'[id], o) = Newest(revs[id], o)
        BY <4>3, <1>NewestSame
      <4>5. \A r \in Newest(revs[id], o) : history[id][r] = revs[id][r] /\ r \in Revisions /\ r < o
        BY <2>10, <2>i DEF UpdateRevert, RevertRetains, Newest, Older
      <4>6. Retained(id)'
        BY <3>2, <4>1, <4>3, <4>4, <4>5 DEF Retained
      <4> QED BY <2>e, <3>2, <4>6
    <3> QED BY <2>10, <3>1, <3>2 DEF UpdateRevert
  <2>11. CASE UpdateCancel(id) \/ UpdateDropIntent(id)
    <3>1. UNCHANGED <<row, revs, history>> /\ ~Committed(id) /\ cur' = NoId
      BY <2>11 DEF UpdateCancel, UpdateDropIntent, UpdateRunning
    <3>2. Retained(id)'
      BY <2>i, <3>1, <1>RetainedClosed
    <3> QED BY <2>e, <3>1, <3>2
  <2> QED BY <2>1, <2>2, <2>3, <2>4, <2>5, <2>6, <2>7, <2>8, <2>9, <2>10, <2>11
     DEF UpdateStep

\* Outside the steps of an update only the revisions below the row count.
<1>RetentionOutside.
  ASSUME NEW id \in Ids, Retained(id)', cur' # id \/ pc' \notin UpdateSteps
  PROVE  Retention(id)'
  BY <1>RetentionOutside DEF Retention, RevertRetains, SnapshotTaken, UpdateSteps

\* The steps of a publish: there is one revision at most.
<1>PublishRetention.
  ASSUME IndInv, NEW id \in Ids, PublishStep(id)
  PROVE  Retention(id)'
  <2> USE <1>PublishRetention
  <2>1. /\ DbType /\ PublishShape(id) /\ (cur' = id => pc' \in PublishSteps)
        /\ (cur' # id => cur' = NoId)
    BY PublishControl DEF IndInv, TypeOK, Running, Shape
  <2>2. row[id] = NoRow \/ row[id].rev = 1
    BY <2>1, SMTT(20) DEF PublishShape
  <2>3. \/ row'[id] = row[id] \/ row'[id] = NoRow
        \/ row'[id] = [rev |-> 1, sha |-> intent[id].expected]
    BY <2>1 DEF PublishStep, PublishWrite, PublishSync, PublishInsert, PublishAdvance,
       PublishRename, PublishDurable, PublishFinalize, PublishDropStaging, PublishDropIntent,
       PublishUndoRow, PublishUndoStaging, PublishUndoFinal, PublishCancel, DbType
  <2>4. row'[id] = NoRow \/ row'[id].rev = 1
    BY <2>2, <2>3, SMTT(20)
  <2>5. cur' # id \/ pc' \notin UpdateSteps
    BY <2>1 DEF PublishSteps, UpdateSteps
  <2> QED BY <2>4, <2>5, <1>RetainedFirst, <1>RetentionOutside

\* The steps of a delete: the rows of revisions and history go with the row.
<1>DeleteRetention.
  ASSUME IndInv, NEW id \in Ids, DeleteStep(id), Retained(id)
  PROVE  Retention(id)'
  <2> USE <1>DeleteRetention
  <2>1. /\ DbType /\ FsType /\ intent[id].op = "delete" /\ DeleteRunning(id)
        /\ (cur' = id => pc' \in DeleteSteps) /\ (cur' # id => cur' = NoId)
    BY DeleteControl DEF IndInv, TypeOK, Running
  <2>2. \/ row'[id] = NoRow
        \/ row'[id] = row[id] /\ revs'[id] = revs[id] /\ history'[id] = history[id]
    <3>1. CASE DeleteRow(id)
      BY <2>1, <3>1 DEF DeleteRow, DbType
    <3>2. CASE DeleteHistoryRemove(id)
      BY <2>1, <3>2 DEF DeleteHistoryRemove, DeleteRunning
    <3> QED BY <2>1, <3>1, <3>2 DEF DeleteStep, DeleteTrash, DeleteTrashRemove, DeleteDurable,
           DeleteFinalize, DeleteRestore, DeleteCancel
  <2>3. Retained(id)'
    BY <2>1, <2>2, <1>RetainedFirst, <1>RetainedClosed
  <2>4. cur' # id \/ pc' \notin UpdateSteps
    BY <2>1 DEF DeleteSteps, UpdateSteps
  <2> QED BY <2>3, <2>4, <1>RetentionOutside

\* recover_prepared_intent and resolve_durability_intents close an intent with the
\* live body in place when the snapshot of the revision it replaced is in history.
<1>FinishRetention.
  ASSUME NEW id \in Ids, NEW w, NEW result, DbType, FsType, HistoryShape(id), UpdateShape(id),
         intent[id].op = "update", final[id] = intent[id].expected,
         FinishCurrentBody(id, w, result), Retained(id)
  PROVE  Retained(id)'
  <2> USE <1>FinishRetention
  <2> DEFINE o == Outgoing(id)
  <2>t. /\ o \in Revisions /\ intent[id].prior \in Bodies /\ NoBody \notin Bodies
        /\ history[id] \in [Revisions -> Digests]
    BY UpdateTypes
  <2>r. Committed(id) => row[id].rev - 1 = o
    BY UpdateRowCases
  <2>1. UNCHANGED <<row, revs>>
    BY DEF FinishCurrentBody, Complete, Settle
  <2>2. CASE UNCHANGED <<intent, history>>
    BY <2>1, <2>2, <1>RetainedFrame
  <2>3. CASE /\ UNCHANGED intent /\ Classify(id) = "committed"
             /\ history' = [history EXCEPT ![id][row[id].rev - 1] = final[id]]
    <3>1. Committed(id)
      BY <2>3 DEF Classify
    <3>2. \A r \in Revisions : r # o => history'[id][r] = history[id][r]
      BY <2>t, <2>r, <2>3, <3>1 DEF FsType
    <3> QED BY <2>1, <2>3, <3>1, <3>2, <1>RetainedOpen
  <2>4. CASE /\ UNCHANGED history
             /\ Classify(id) = "committed" => history[id][row[id].rev - 1] # NoBody
    <3>1. ASSUME Committed(id) PROVE history[id][o] # NoBody
      <4>1. CASE MetadataOnly(id)
        <5>1. row[id].sha = intent[id].prior
          BY <3>1, <4>1, UpdateRowCases DEF MetadataOnly
        <5>2. Classify(id) = "committed"
          BY <3>1, <4>1, <5>1 DEF Classify
        <5> QED BY <2>r, <2>4, <3>1, <5>2
      <4>2. CASE ~MetadataOnly(id)
        <5>1. history[id][o] = intent[id].prior
          BY <4>2, SMTT(20) DEF UpdateShape, MetadataOnly
        <5> QED BY <2>t, <5>1
      <4> QED BY <4>1, <4>2
    <3>2. Committed(id) => revs[id][o] \in {NoBody, history[id][o]}
      BY <2>t, <3>1 DEF HistoryShape
    <3> QED BY <2>1, <2>4, <3>2, <1>RetainedClosed
  <2> QED BY <2>2, <2>3, <2>4 DEF FinishCurrentBody

\* The intent of a publish or a delete owes history nothing.
<1>FinishedElsewhere.
  ASSUME NEW id \in Ids, NEW w, NEW result, FinishCurrentBody(id, w, result),
         intent[id].op # "update", Retained(id)
  PROVE  Retained(id)'
  <2> USE <1>FinishedElsewhere
  <2>1. Classify(id) = "notApplicable"
    BY DEF Classify
  <2>2. UNCHANGED <<row, revs, history>>
    BY <2>1 DEF FinishCurrentBody, Complete, Settle
  <2> QED BY <2>2, <1>RetainedClosed

\* The start of a mutation moves nothing.
<1>BeginRetention.
  ASSUME IndInv, NEW id \in Ids, Begin(id), Retained(id)
  PROVE  Retention(id)'
  <2> USE <1>BeginRetention
  <2>1. DbType /\ FsType
    BY DEF IndInv, TypeOK
  <2>2. /\ UNCHANGED <<row, revs, history>> /\ intent[id] = NoIntent
        /\ pc' \in {"pubWrite", "updWrite", "updCommit", "delTrash"}
    BY <2>1, BeginApart
  <2>3. Retained(id)'
    BY <2>2, <1>RetainedClosed, SMTT(20) DEF NoIntent
  <2> QED BY <2>2, <2>3 DEF Retention, RevertRetains, SnapshotTaken

\* recover_prepared_intent, at the artifact of the intent.
<1>RecoverRetention.
  ASSUME IndInv, NEW w, NEW id \in Ids, id = w.id, RecoverIntent(w), Retained(id)
  PROVE  Retained(id)'
  <2> USE <1>RecoverRetention
  <2>1. /\ DbType /\ FsType /\ HistoryShape(id)
        /\ intent[id].op = "update" => UpdateShape(id)
    BY DEF IndInv, TypeOK, Shape
  <2>2. CASE AbortCurrentBody(id, w) /\ final[id] # intent[id].expected /\ row[id].sha = intent[id].prior
             /\ final[id] = intent[id].prior
    <3>1. UNCHANGED <<row, revs, history>>
      BY <2>2 DEF AbortCurrentBody, Complete, Settle
    <3>2. intent[id].op = "update" => ~Committed(id)
      BY <2>1, <2>2, UpdateRowCases
    <3> QED BY <3>1, <3>2, <1>RetainedClosed
  <2>3. CASE intent[id].op = "delete" /\ RecoverDelete(id, w)
    <3>1. UNCHANGED <<row, revs>> /\ (row[id] = NoRow \/ UNCHANGED history)
      BY <2>3 DEF RecoverDelete, Complete, Settle
    <3> QED BY <2>3, <3>1, <1>RetainedFirst, <1>RetainedClosed
  <2>4. CASE intent[id].op = "publish" /\ UNCHANGED <<row, revs, history>>
    BY <2>4, <1>RetainedClosed
  <2>5. CASE FinishCurrentBody(id, w, "recovered") /\ final[id] = intent[id].expected
    BY <2>1, <2>5, <1>FinishedElsewhere, <1>FinishRetention
  <2>6. CASE UNCHANGED <<db, fs>>
    BY <2>6, <1>RetainedFrame
  <2> QED BY <2>2, <2>3, <2>4, <2>5, <2>6 DEF RecoverIntent

\* resolve_durability_intents, at the artifact of the intent.
<1>ResolveRetention.
  ASSUME IndInv, NEW w, NEW id \in Ids, id = w.id, ResolveIntent(w), Retained(id)
  PROVE  Retained(id)'
  <2> USE <1>ResolveRetention
  <2>1. /\ DbType /\ FsType /\ HistoryShape(id)
        /\ intent[id].op = "update" => UpdateShape(id)
    BY DEF IndInv, TypeOK, Shape
  <2>2. CASE intent[id].op \in {"delete", "publish"} /\ UNCHANGED <<row, revs, history>>
    BY <2>2, <1>RetainedClosed
  <2>3. ASSUME NEW result, FinishCurrentBody(id, w, result), final[id] = intent[id].expected
        PROVE  Retained(id)'
    BY <2>1, <2>3, <1>FinishedElsewhere, <1>FinishRetention
  <2>4. CASE UNCHANGED <<db, fs>>
    BY <2>4, <1>RetainedFrame
  <2> QED BY <2>2, <2>3, <2>4 DEF ResolveIntent

\* reconcile_transient, at the artifact of the path.
<1>SweepRetention.
  ASSUME IndInv, NEW w, NEW id \in Ids, id = w.id, Retained(id),
         SweepKeeps(w) \/ SweepDiscards(w) \/ SweepInstalls(w) \/ SweepPreserves(w)
  PROVE  Retained(id)'
  <2> USE <1>SweepRetention
  <2>1. DbType /\ FsType /\ (intent[id].op = "update" => UpdateShape(id))
    BY DEF IndInv, TypeOK, Shape
  <2>2. CASE UNCHANGED <<db, history>>
    BY <2>2, <1>RetainedFrame
  <2>3. CASE SweepPreserves(w)
    <3>1. /\ UNCHANGED <<row, revs, intent>> /\ intent[id].op = "update"
          /\ final[id] # row[id].sha
          /\ history' = [history EXCEPT ![id][Outgoing(id)] = final[id]]
      BY <2>3 DEF SweepPreserves
    <3>2. Committed(id) /\ history[id] \in [Revisions -> Digests]
      BY <2>1, <3>1, UpdateRowCases, UpdateTypes
    <3>3. \A r \in Revisions : r # Outgoing(id) => history'[id][r] = history[id][r]
      BY <2>1, <3>1, <3>2 DEF FsType
    <3> QED BY <3>1, <3>2, <3>3, <1>RetainedOpen
  <2> QED BY <2>2, <2>3 DEF SweepKeeps, SweepDiscards, SweepInstalls

\* A step that leaves the other artifacts alone.
<1>RetentionOthers.
  ASSUME NEW id \in Ids, RetentionInv, \A j \in Ids \ {id} : SameAt(j), Retention(id)',
         cur' \in {id, NoId} \/ pc' \notin UpdateSteps
  PROVE  RetentionInv'
  <2> USE <1>RetentionOthers
  <2>1. ASSUME NEW j \in Ids \ {id} PROVE Retention(j)'
    <3>1. Retained(j)'
      BY <2>1, <1>RetainedFrame DEF RetentionInv, Retention, SameAt
    <3> QED BY <3>1, <1>RetentionOutside
  <2> QED BY <2>1 DEF RetentionInv

\* The steps of a mutation.
<1>StepRetention.
  ASSUME IndInv, RetentionInv, Step
  PROVE  RetentionInv'
  <2> USE <1>StepRetention
  <2>1. DbType /\ FsType /\ \A j \in Ids : Retained(j) /\ Retention(j)
    BY DEF IndInv, TypeOK, RetentionInv, Retention
  <2>2. ASSUME NEW id \in Ids, PublishStep(id) PROVE RetentionInv'
    <3>1. Retention(id)' /\ cur' \in {id, NoId} /\ \A j \in Ids \ {id} : SameAt(j)
      BY <2>1, <2>2, <1>PublishRetention, PublishControl, PublishApart DEF Apart, AllSameAt
    <3> QED BY <3>1, <1>RetentionOthers
  <2>3. ASSUME NEW id \in Ids, UpdateStep(id) PROVE RetentionInv'
    <3>1. /\ cur = id /\ pc \in UpdateSteps /\ cur' \in {id, NoId}
          /\ \A j \in Ids \ {id} : SameAt(j)
      BY <2>1, <2>3, UpdateControl, UpdateApart DEF Apart, AllSameAt
    <3>2. intent[id].op = "update" /\ UpdateRunning(id) /\ UpdateShape(id) /\ HistoryShape(id)
      BY <3>1 DEF IndInv, Running, Shape
    <3>3. Retention(id)'
      BY <2>1, <2>3, <3>2, <1>UpdateRetention
    <3> QED BY <3>1, <3>3, <1>RetentionOthers
  <2>4. ASSUME NEW id \in Ids, DeleteStep(id) PROVE RetentionInv'
    <3>1. Retention(id)' /\ cur' \in {id, NoId} /\ \A j \in Ids \ {id} : SameAt(j)
      BY <2>1, <2>4, <1>DeleteRetention, DeleteControl, DeleteApart DEF Apart, AllSameAt
    <3> QED BY <3>1, <1>RetentionOthers
  <2> QED BY <2>2, <2>3, <2>4 DEF Step

\* The steps of a start, the stop and the start of a mutation.
<1>ReconcileRetention.
  ASSUME IndInv, RecoveryInv, RetentionInv, Reconcile
  PROVE  RetentionInv'
  <2> USE <1>ReconcileRetention
  <2>1. /\ DbType /\ FsType /\ CtlType /\ (\A i \in Ids : Fallback(i))
        /\ \A j \in Ids : Retained(j)
    BY DEF IndInv, TypeOK, RecoveryInv, RetentionInv, Retention
  <2>2. \A p \in Phases : p \notin UpdateSteps
    BY DEF Phases, UpdateSteps
  <2>3. {"recover", "sweep", "resolve", "idle"} \subseteq Phases
    BY DEF Phases
  <2>4. CASE Restart \/ EnterSweep \/ FinishStart
    <3>1. UNCHANGED <<row, revs, intent, history>> /\ pc' \notin UpdateSteps
      BY <2>2, <2>3, <2>4 DEF Restart, EnterSweep, FinishStart
    <3>2. ASSUME NEW j \in Ids PROVE Retention(j)'
      BY <2>1, <3>1, <1>RetainedFrame, <1>RetentionOutside
    <3> QED BY <3>2 DEF RetentionInv
  <2>5. CASE ReclaimOrphanHistory
    <3>1. /\ UNCHANGED <<row, revs, intent>> /\ pc' \notin UpdateSteps
          /\ \A j \in Ids : row[j] = NoRow \/ history'[j] = history[j]
      BY <2>2, <2>3, <2>5 DEF ReclaimOrphanHistory
    <3>2. ASSUME NEW j \in Ids PROVE Retained(j)'
      BY <2>1, <3>1, <1>RetainedFrame, <1>RetainedFirst
    <3> QED BY <3>1, <3>2, <1>RetentionOutside DEF RetentionInv
  <2>6. ASSUME NEW w \in todo, RecoverIntent(w) PROVE RetentionInv'
    <3>1. w.id \in Ids /\ RecoverEffect(w)
      BY <2>1, <2>6, RecoverCases
    <3>2. PICK id \in Ids : id = w.id
      BY <3>1
    <3>3. \A j \in Ids \ {id} : SameAt(j)
      BY <2>1, <3>1, <3>2, EffectFrame DEF RecoverEffect, AllSameAt
    <3>4. Retained(id)'
      BY <2>1, <2>6, <3>2, <1>RecoverRetention
    <3>5. pc' \notin UpdateSteps
      BY <2>2, <2>3, <2>6 DEF RecoverIntent
    <3> QED BY <3>3, <3>4, <3>5, <1>RetentionOutside, <1>RetentionOthers
  <2>7. ASSUME NEW w \in todo, SweepTransient(w) PROVE RetentionInv'
    <3>1. /\ w.id \in Ids
          /\ SweepKeeps(w) \/ SweepDiscards(w) \/ SweepInstalls(w) \/ SweepPreserves(w)
      BY <2>7, SweepCases
    <3>2. PICK id \in Ids : id = w.id
      BY <3>1
    <3>3. \A j \in Ids \ {id} : SameAt(j)
      BY <3>1, <3>2, SweepFrame DEF AllSameAt
    <3>4. Retained(id)'
      BY <2>1, <3>1, <3>2, <1>SweepRetention
    <3>5. pc' \notin UpdateSteps
      BY <2>2, <2>3, <2>7 DEF SweepTransient
    <3> QED BY <3>3, <3>4, <3>5, <1>RetentionOutside, <1>RetentionOthers
  <2>8. ASSUME NEW w \in todo, ResolveIntent(w) PROVE RetentionInv'
    <3>1. w.id \in Ids /\ ResolveEffect(w)
      BY <2>8, ResolveCases
    <3>2. PICK id \in Ids : id = w.id
      BY <3>1
    <3>3. \A j \in Ids \ {id} : SameAt(j)
      BY <2>1, <3>1, <3>2, EffectFrame DEF ResolveEffect, AllSameAt
    <3>4. Retained(id)'
      BY <2>1, <2>8, <3>2, <1>ResolveRetention
    <3>5. pc' \notin UpdateSteps
      BY <2>2, <2>3, <2>8 DEF ResolveIntent
    <3> QED BY <3>3, <3>4, <3>5, <1>RetentionOutside, <1>RetentionOthers
  <2> QED BY <2>4, <2>5, <2>6, <2>7, <2>8 DEF Reconcile

<1> SUFFICES ASSUME IndInv, RecoveryInv, RetentionInv, [Next]_vars PROVE RetentionInv'
  OBVIOUS
<1>1. /\ DbType /\ FsType /\ NoId \notin Ids /\ \A j \in Ids : Retained(j)
  BY DEF IndInv, TypeOK, RetentionInv, Retention
<1>2. ASSUME NEW id \in Ids, Begin(id) PROVE RetentionInv'
  <2>1. cur' \in {id, NoId} /\ \A j \in Ids \ {id} : SameAt(j)
    BY <1>1, <1>2, BeginApart DEF Apart, AllSameAt
  <2> QED BY <1>1, <1>2, <2>1, <1>BeginRetention, <1>RetentionOthers
<1>3. CASE Crash
  <2>1. UNCHANGED <<row, revs, intent, history>> /\ cur' = NoId
    BY <1>3 DEF Crash
  <2>2. ASSUME NEW j \in Ids PROVE Retention(j)'
    <3>1. cur' # j
      BY <1>1, <2>1
    <3> QED BY <1>1, <2>1, <3>1, <1>RetainedFrame, <1>RetentionOutside
  <2> QED BY <2>2 DEF RetentionInv
<1>4. CASE UNCHANGED vars
  <2>1. UNCHANGED <<row, revs, intent, history, cur, pc>>
    BY <1>4 DEF vars, ctl
  <2>2. ASSUME NEW j \in Ids PROVE Retention(j)'
    <3>1. Retained(j)'
      BY <1>1, <2>1, <1>RetainedFrame
    <3>2. RevertRetains(j) /\ SnapshotTaken(j)
      BY DEF RetentionInv, Retention
    <3>3. RevertRetains(j)' /\ SnapshotTaken(j)'
      BY <2>1, <3>2 DEF RevertRetains, SnapshotTaken, Outgoing
    <3> QED BY <3>1, <3>3 DEF Retention
  <2> QED BY <2>2 DEF RetentionInv
<1> QED BY <1>2, <1>3, <1>4, <1>StepRetention, <1>ReconcileRetention DEF Next

\* At every step of every mutation, and after every stop and recovery, the newest
\* max_history revisions below the row are in history: prune_history removes only
\* older ones, and the compensation of a failed update brings none back that is gone.
THEOREM RetentionInductive == Spec => []RetentionInv
<1>1. Init => RetentionInv
  <2> SUFFICES ASSUME Init, NEW id \in Ids PROVE Retention(id)
    BY DEF RetentionInv
  <2>1. row[id] = NoRow /\ cur = NoId /\ cur # id
    BY DEF Init
  <2> QED BY <2>1 DEF Retention, Retained, RevertRetains, SnapshotTaken
<1>2. IndInv /\ RecoveryInv /\ RetentionInv /\ [Next]_vars => RetentionInv'
  BY NextRetention
<1> QED BY RecoveryInductive, <1>1, <1>2, PTL DEF Spec

\* A visible artifact can be restored to each of the newest max_history revisions
\* it had, whatever failed or stopped before.
THEOREM AlwaysRetainedRevisionsRestorable == Spec => []RetainedRevisionsRestorable
<1>1. RetentionInv => RetainedRevisionsRestorable
  <2> SUFFICES ASSUME RetentionInv, NEW id \in Ids, Visible(id),
                      NEW r \in Superseded(id) \ Prunable(id)
               PROVE  history[id][r] = revs[id][r]
    BY DEF RetainedRevisionsRestorable
  <2>1. Superseded(id) = Older(revs[id], row[id].rev)
    BY DEF Superseded, Older
  <2>2. r \in Newest(revs[id], row[id].rev)
    BY <2>1 DEF Newest, Prunable
  <2>3. intent[id].op # "update" /\ row[id] # NoRow
    BY SMTT(20) DEF Visible, NoIntent
  <2> QED BY <2>2, <2>3 DEF RetentionInv, Retention, Retained
<1> QED BY RetentionInductive, <1>1, PTL

-----------------------------------------------------------------------------
(* The temporary of a snapshot. *)

\* A step that leaves an artifact's intent and its temporary alone.
LEMMA TempFrame ==
  ASSUME NEW j \in Ids, TempOwned(j), snapTmp'[j] = snapTmp[j], intent'[j] = intent[j],
         \/ cur' # j
         \/ pc' \in {"updCopy", "updUndoStaging", "updRevert", "updUndoTemp"}
         \/ cur' = cur /\ pc' = pc
  PROVE  TempOwned(j)'
BY DEF TempOwned, MetadataOnly

\* No temporary.
LEMMA TempClear ==
  ASSUME NEW j \in Ids, snapTmp'[j] = NoBody
  PROVE  TempOwned(j)'
BY DEF TempOwned

\* A step of one artifact's mutation, or of the recovery of its intent.
LEMMA TempOthers ==
  ASSUME NEW id \in Ids, TempInv, cur' \in {id, NoId}, TempOwned(id)',
         \A j \in Ids \ {id} : intent'[j] = intent[j] /\ snapTmp'[j] = snapTmp[j]
  PROVE  TempInv'
<1>1. ASSUME NEW j \in Ids, j # id PROVE TempOwned(j)'
  <2>1. cur' # j
    BY <1>1
  <2> QED BY <1>1, <2>1, TempFrame DEF TempInv
<1> QED BY <1>1 DEF TempInv

\* The steps of an update, at its artifact.
LEMMA UpdateTemp ==
  ASSUME NEW id \in Ids, FsType, NoId # id, TempOwned(id), intent[id].op = "update", cur = id,
         UpdateStep(id)
  PROVE  TempOwned(id)' /\ \A j \in Ids \ {id} : snapTmp'[j] = snapTmp[j]
<1> DEFINE Copying == {"updCopy", "updUndoStaging", "updRevert", "updUndoTemp"}
<1>1. ASSUME UNCHANGED snapTmp, pc \notin Copying
      PROVE  TempOwned(id)' /\ \A j \in Ids \ {id} : snapTmp'[j] = snapTmp[j]
  <2>1. snapTmp'[id] = NoBody
    BY <1>1 DEF TempOwned
  <2> QED BY <1>1, <2>1, TempClear
<1>2. ASSUME UNCHANGED <<snapTmp, intent>>, pc' \in Copying \/ cur' = NoId
      PROVE  TempOwned(id)' /\ \A j \in Ids \ {id} : snapTmp'[j] = snapTmp[j]
  <2>1. cur' # id \/ pc' \in Copying
    BY <1>2
  <2> QED BY <1>2, <2>1, TempFrame
<1>3. ASSUME snapTmp' = [snapTmp EXCEPT ![id] = NoBody]
      PROVE  TempOwned(id)' /\ \A j \in Ids \ {id} : snapTmp'[j] = snapTmp[j]
  <2>1. snapTmp'[id] = NoBody /\ \A j \in Ids \ {id} : snapTmp'[j] = snapTmp[j]
    BY <1>3 DEF FsType
  <2> QED BY <2>1, TempClear
<1>4. CASE \/ UpdateWrite(id) \/ UpdateSync(id) \/ UpdateCommit(id) \/ UpdateSwap(id) \/ UpdateDurable(id)
           \/ UpdatePrune(id) \/ UpdateFinalize(id) \/ UpdateUndoSnapshot(id) \/ UpdateCancel(id)
           \/ UpdateDropStaging(id) \/ UpdateDropIntent(id)
  <2>1. UNCHANGED snapTmp
    BY <1>4 DEF UpdateWrite, UpdateSync, UpdateCommit, UpdateSwap, UpdateDurable, UpdatePrune, UpdateFinalize,
       UpdateUndoSnapshot, UpdateCancel, UpdateDropStaging, UpdateDropIntent
  <2>2. pc \notin Copying
    BY <1>4 DEF UpdateWrite, UpdateSync, UpdateCommit, UpdateSwap, UpdateDurable, UpdatePrune, UpdateFinalize,
       UpdateUndoSnapshot, UpdateCancel, UpdateDropStaging, UpdateDropIntent
  <2> QED BY <1>1, <2>1, <2>2
<1>5. CASE UpdateSnapshot(id)
  <2>1. pc = "updSnapshot" /\ UNCHANGED intent
    BY <1>5 DEF UpdateSnapshot
  <2>2. CASE UNCHANGED snapTmp
    BY <1>1, <2>1, <2>2
  <2>3. CASE MetadataOnly(id) /\ snapTmp' = [snapTmp EXCEPT ![id] = Torn] /\ pc' = "updCopy"
    <3>1. TempOwned(id)'
      BY <2>1, <2>3 DEF TempOwned, MetadataOnly
    <3>2. \A j \in Ids \ {id} : snapTmp'[j] = snapTmp[j]
      BY <2>3 DEF FsType
    <3> QED BY <3>1, <3>2
  <2> QED BY <1>5, <2>2, <2>3 DEF UpdateSnapshot
<1>6. CASE UpdateCopy(id)
  BY <1>2, <1>3, <1>6 DEF UpdateCopy
<1>7. CASE UpdateUndoStaging(id) \/ UpdateRevert(id)
  BY <1>2, <1>7 DEF UpdateUndoStaging, UpdateRevert
<1>8. CASE UpdateUndoTemp(id)
  BY <1>2, <1>3, <1>8 DEF UpdateUndoTemp
<1> QED BY <1>4, <1>5, <1>6, <1>7, <1>8 DEF UpdateStep

\* Recovery closes the intent of a metadata update only when its temporary is gone.
LEMMA FinishTemp ==
  ASSUME NEW id \in Ids, NEW w, NEW result, FsType, TempOwned(id), cur' # id,
         FinishCurrentBody(id, w, result)
  PROVE  TempOwned(id)' /\ \A j \in Ids \ {id} : snapTmp'[j] = snapTmp[j]
<1>1. CASE UNCHANGED <<snapTmp, intent>>
  BY <1>1, TempFrame
<1>2. CASE snapTmp' = [snapTmp EXCEPT ![id] = NoBody]
  <2>1. snapTmp'[id] = NoBody /\ \A j \in Ids \ {id} : snapTmp'[j] = snapTmp[j]
    BY <1>2 DEF FsType
  <2> QED BY <2>1, TempClear
<1>3. CASE UNCHANGED snapTmp /\ (Classify(id) = "notApplicable" \/ snapTmp[id] = NoBody)
  <2>1. Classify(id) = "notApplicable" => intent[id].op # "update" \/ ~MetadataOnly(id)
    BY DEF Classify
  <2>2. snapTmp'[id] = NoBody
    BY <1>3, <2>1 DEF TempOwned
  <2> QED BY <1>3, <2>2, TempClear
<1> QED BY <1>1, <1>2, <1>3 DEF FinishCurrentBody

\* recover_prepared_intent and resolve_durability_intents, at the artifact of the intent.
LEMMA IntentTemp ==
  ASSUME NEW id \in Ids, NEW w, w.id = id, FsType, TempOwned(id), cur' # id,
         RecoverIntent(w) \/ ResolveIntent(w)
  PROVE  TempOwned(id)' /\ \A j \in Ids \ {id} : snapTmp'[j] = snapTmp[j]
<1>1. ASSUME UNCHANGED snapTmp, intent[id].op # "update" \/ ~MetadataOnly(id)
      PROVE  TempOwned(id)' /\ \A j \in Ids \ {id} : snapTmp'[j] = snapTmp[j]
  <2>1. snapTmp'[id] = NoBody
    BY <1>1 DEF TempOwned
  <2> QED BY <1>1, <2>1, TempClear
<1>2. CASE UNCHANGED <<db, fs>>
  BY <1>2, TempFrame
<1>3. CASE \E result : FinishCurrentBody(id, w, result)
  BY <1>3, FinishTemp
<1>4. CASE AbortCurrentBody(id, w) /\ final[id] # intent[id].expected /\ final[id] = intent[id].prior
  BY <1>1, <1>4 DEF AbortCurrentBody, MetadataOnly
<1>5. CASE intent[id].op \in {"publish", "delete"} /\ UNCHANGED snapTmp
  BY <1>1, <1>5
<1>6. intent[id].op = "delete" /\ RecoverDelete(id, w) => UNCHANGED snapTmp
  BY DEF RecoverDelete
<1>7. CASE RecoverIntent(w)
  BY <1>2, <1>3, <1>4, <1>5, <1>6, <1>7 DEF RecoverIntent
<1>8. CASE ResolveIntent(w)
  BY <1>2, <1>3, <1>5, <1>8 DEF ResolveIntent
<1> QED BY <1>7, <1>8

\* Every step.
LEMMA NextTemp == IndInv /\ RecoveryInv /\ TempInv /\ [Next]_vars => TempInv'
<1> SUFFICES ASSUME IndInv, RecoveryInv, TempInv, [Next]_vars PROVE TempInv'
  OBVIOUS
<1>0. /\ DbType /\ FsType /\ (\A j \in Ids : TempOwned(j) /\ Fallback(j))
      /\ (\A j \in Ids : NoId # j) /\ (pc \in Phases => cur = NoId)
  BY DEF IndInv, TypeOK, TempInv, RecoveryInv
<1>1. ASSUME NEW id \in Ids, PublishStep(id) \/ DeleteStep(id) PROVE TempInv'
  <2>1. /\ cur = id /\ pc \in PublishSteps \cup DeleteSteps /\ cur' \in {id, NoId}
        /\ \A j \in Ids \ {id} : SameAt(j)
    BY <1>0, <1>1, PublishControl, DeleteControl, PublishApart, DeleteApart DEF Apart, AllSameAt
  <2>2. UNCHANGED snapTmp
    BY <1>1 DEF PublishStep, PublishWrite, PublishSync, PublishInsert, PublishAdvance, PublishRename,
       PublishDurable, PublishFinalize, PublishDropStaging, PublishDropIntent, PublishUndoRow,
       PublishUndoStaging, PublishUndoFinal, PublishCancel, DeleteStep, DeleteTrash, DeleteRow,
       DeleteTrashRemove, DeleteHistoryRemove, DeleteDurable, DeleteFinalize, DeleteRestore, DeleteCancel
  <2>3. pc \notin {"updCopy", "updUndoStaging", "updRevert", "updUndoTemp"}
    BY <2>1 DEF PublishSteps, DeleteSteps
  <2>4. snapTmp'[id] = NoBody
    BY <1>0, <2>1, <2>2, <2>3 DEF TempOwned
  <2> QED BY <2>1, <2>2, <2>4, TempClear, TempOthers DEF SameAt
<1>2. ASSUME NEW id \in Ids, UpdateStep(id) PROVE TempInv'
  <2>1. /\ cur = id /\ pc \in UpdateSteps /\ cur' \in {id, NoId}
        /\ \A j \in Ids \ {id} : SameAt(j)
    BY <1>0, <1>2, UpdateControl, UpdateApart DEF Apart, AllSameAt
  <2>2. intent[id].op = "update"
    BY <2>1 DEF IndInv, Running
  <2>3. TempOwned(id)' /\ \A j \in Ids \ {id} : snapTmp'[j] = snapTmp[j]
    BY <1>0, <1>2, <2>1, <2>2, UpdateTemp
  <2> QED BY <2>1, <2>3, TempOthers DEF SameAt
<1>3. ASSUME NEW id \in Ids, Begin(id) PROVE TempInv'
  <2>1. /\ UNCHANGED snapTmp /\ cur' = id /\ intent[id] = NoIntent
        /\ \A j \in Ids \ {id} : SameAt(j)
    BY <1>0, <1>3, BeginApart DEF Apart, AllSameAt
  <2>2. intent[id].op # "update"
    BY <2>1, SMTT(20) DEF NoIntent
  <2>3. snapTmp'[id] = NoBody
    BY <1>0, <2>1, <2>2 DEF TempOwned
  <2> QED BY <2>1, <2>3, TempClear, TempOthers DEF SameAt
<1>4. CASE Crash \/ Restart \/ EnterSweep \/ ReclaimOrphanHistory \/ FinishStart
  <2>1. UNCHANGED <<snapTmp, intent>> /\ (cur' = NoId \/ cur' = cur)
    BY <1>4 DEF Crash, Restart, EnterSweep, ReclaimOrphanHistory, FinishStart
  <2>2. cur' = NoId
    BY <1>0, <1>4, <2>1 DEF Crash, Restart, EnterSweep, ReclaimOrphanHistory, FinishStart, Phases
  <2>3. ASSUME NEW j \in Ids PROVE TempOwned(j)'
    BY <1>0, <2>1, <2>2, TempFrame
  <2> QED BY <2>3 DEF TempInv
<1>5. ASSUME NEW w \in todo, RecoverIntent(w) \/ ResolveIntent(w) PROVE TempInv'
  <2>1. w.id \in Ids /\ (RecoverEffect(w) \/ ResolveEffect(w))
    BY <1>0, <1>5, RecoverCases, ResolveCases
  <2>2. PICK id \in Ids : id = w.id
    BY <2>1
  <2>3. \A j \in Ids \ {id} : SameAt(j)
    BY <1>0, <2>1, <2>2, EffectFrame DEF RecoverEffect, ResolveEffect, AllSameAt
  <2>4. cur' = NoId
    BY <1>0, <1>5 DEF RecoverIntent, ResolveIntent, Phases
  <2>5. TempOwned(id)' /\ \A j \in Ids \ {id} : snapTmp'[j] = snapTmp[j]
    BY <1>0, <1>5, <2>2, <2>4, IntentTemp
  <2> QED BY <2>3, <2>4, <2>5, TempOthers DEF SameAt
<1>6. ASSUME NEW w \in todo, SweepTransient(w) PROVE TempInv'
  <2>1. UNCHANGED <<snapTmp, intent>>
    BY <1>6, SweepCases DEF SweepKeeps, SweepDiscards, SweepInstalls, SweepPreserves
  <2>2. cur' = NoId
    BY <1>0, <1>6 DEF SweepTransient, Phases
  <2>3. ASSUME NEW j \in Ids PROVE TempOwned(j)'
    BY <1>0, <2>1, <2>2, TempFrame
  <2> QED BY <2>3 DEF TempInv
<1>7. CASE UNCHANGED vars
  <2>1. UNCHANGED <<snapTmp, intent, cur, pc>>
    BY <1>7 DEF vars, ctl
  <2>2. ASSUME NEW j \in Ids PROVE TempOwned(j)'
    BY <1>0, <2>1, TempFrame
  <2> QED BY <2>2 DEF TempInv
<1> QED BY <1>1, <1>2, <1>3, <1>4, <1>5, <1>6, <1>7 DEF Next, Step, Reconcile

\* No failed, compensated or recovered update leaves a snapshot or a temporary where
\* the next update of the artifact has to put its own.
THEOREM AlwaysUpdatePathClear == Spec => []UpdatePathClear
<1>1. Init => TempInv
  BY DEF Init, TempInv, TempOwned
<1>2. IndInv /\ RecoveryInv /\ TempInv /\ [Next]_vars => TempInv'
  BY NextTemp
<1>3. IndInv /\ TempInv => UpdatePathClear
  <2> SUFFICES ASSUME IndInv, TempInv, NEW id \in Ids, Visible(id)
               PROVE  history[id][row[id].rev] = NoBody /\ snapTmp[id] = NoBody
    BY DEF UpdatePathClear
  <2>1. intent[id].op # "update" /\ row[id] # NoRow
    BY SMTT(20) DEF Visible, NoIntent
  <2>2. row[id].rev \in Revisions /\ HistoryShape(id)
    BY <2>1, RowTypes DEF IndInv, TypeOK
  <2>3. row[id].rev >= row[id].rev
    BY <2>2, SMTT(20) DEF Revisions
  <2> QED BY <2>1, <2>2, <2>3 DEF TempInv, TempOwned, HistoryShape
<1> QED BY RecoveryInductive, <1>1, <1>2, <1>3, PTL DEF Spec

=============================================================================
