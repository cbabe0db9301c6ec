----------------------- MODULE ArtifactLifecycleProofs -----------------------
(***************************************************************************)
(* IndInv is an invariant of ArtifactLifecycle, for every number of        *)
(* artifacts, bodies, revisions, failures and stops, and the storage       *)
(* invariants follow from it.  First the steps of publish_sync,            *)
(* delete_sync, update_locked and finish_update_body with their            *)
(* compensations, then the reconciliation that the next start runs         *)
(* (recover_prepared_intents, audit_storage, resolve_durability_intents),  *)
(* the start of a mutation and a stop.                                     *)
(***************************************************************************)
EXTENDS ArtifactLifecycleInv, TLAPS

USE LifecycleAssumption, ZenonT(30) DEF At, Goto, Return, Works, Fails, db, fs

-----------------------------------------------------------------------------
(* What a step changes. *)

\* A step touches one artifact: the others keep their shape.

SameAt(j) ==
  /\ row'[j] = row[j] /\ revs'[j] = revs[j] /\ intent'[j] = intent[j]
  /\ receipt'[j] = receipt[j] /\ blocked'[j] = blocked[j]
  /\ final'[j] = final[j] /\ trash'[j] = trash[j] /\ history'[j] = history[j]

\* The facts about one artifact that a step restores, without the control state.
LocalKept(id) ==
  /\ DbType' /\ FsType' /\ \A j \in Ids \ {id} : SameAt(j)
  /\ Shape(id)' /\ HistoryShape(id)'

\* What an update step leaves behind at its artifact.
UpdateKept(id) ==
  LocalKept(id) /\ (cur' = id => intent'[id].op = "update" /\ UpdateRunning(id)')

-----------------------------------------------------------------------------
(* The steps of each mutation and the types of what they work on. *)

\* A publish step moves control inside the publish or releases the gate.
LEMMA PublishControl ==
  ASSUME IndInv, NEW id \in Ids, PublishStep(id)
  PROVE  /\ cur = id /\ pc \in PublishSteps
         /\ \/ cur' = id /\ pc' \in PublishSteps
            \/ cur' = NoId /\ pc' = "idle"
         /\ CtlType' /\ (cur = NoId <=> pc \in Phases)' /\ cur' \in {id, NoId}
<1>1. cur = id /\ pc \in PublishSteps
  BY DEF PublishStep, PublishSteps, PublishWrite, PublishSync, PublishInsert,
         PublishAdvance, PublishRename, PublishDurable, PublishFinalize,
         PublishDropStaging, PublishDropIntent, PublishUndoRow, PublishUndoStaging,
         PublishUndoFinal, PublishCancel
<1>2. \/ cur' = id /\ pc' \in PublishSteps
      \/ cur' = NoId /\ pc' = "idle"
  BY <1>1 DEF PublishStep, PublishSteps, PublishWrite, PublishSync, PublishInsert,
         PublishAdvance, PublishRename, PublishDurable, PublishFinalize,
         PublishDropStaging, PublishDropIntent, PublishUndoRow, PublishUndoStaging,
         PublishUndoFinal, PublishCancel
<1>3. todo' = todo /\ (faults' = faults \/ (faults < MaxFaults /\ faults' = faults + 1))
  BY DEF PublishStep, PublishSteps, PublishWrite, PublishSync, PublishInsert,
         PublishAdvance, PublishRename, PublishDurable, PublishFinalize,
         PublishDropStaging, PublishDropIntent, PublishUndoRow, PublishUndoStaging,
         PublishUndoFinal, PublishCancel, SafeRemoveStaging
<1>4. CtlType'
  BY <1>2, <1>3, SMTT(20) DEF IndInv, TypeOK, CtlType, Phases
<1>5. (cur = NoId <=> pc \in Phases)' /\ cur' \in {id, NoId}
  BY <1>2 DEF Phases, PublishSteps
<1> QED BY <1>1, <1>2, <1>4, <1>5

\* A delete step moves control inside the delete or releases the gate.
LEMMA DeleteControl ==
  ASSUME IndInv, NEW id \in Ids, DeleteStep(id)
  PROVE  /\ cur = id /\ pc \in DeleteSteps
         /\ \/ cur' = id /\ pc' \in DeleteSteps
            \/ cur' = NoId /\ pc' = "idle"
         /\ CtlType' /\ (cur = NoId <=> pc \in Phases)' /\ cur' \in {id, NoId}
<1>1. /\ cur = id /\ pc \in DeleteSteps
      /\ \/ cur' = id /\ pc' \in DeleteSteps
         \/ cur' = NoId /\ pc' = "idle"
      /\ todo' = todo /\ (faults' = faults \/ (faults < MaxFaults /\ faults' = faults + 1))
  BY DEF DeleteSteps, DeleteStep, DeleteTrash, DeleteRow, DeleteTrashRemove,
         DeleteHistoryRemove, DeleteDurable, DeleteFinalize, DeleteRestore, DeleteCancel
<1>2. CtlType'
  BY <1>1, SMTT(20) DEF IndInv, TypeOK, CtlType, Phases
<1>3. (cur = NoId <=> pc \in Phases)' /\ cur' \in {id, NoId}
  BY <1>1 DEF Phases, DeleteSteps
<1> QED BY <1>1, <1>2, <1>3

\* The types of the intent and of the revisions an update works with.
LEMMA UpdateTypes ==
  ASSUME NEW id \in Ids, DbType, FsType, UpdateShape(id), intent[id].op = "update"
  PROVE  /\ intent[id].expected \in Bodies /\ intent[id].prior \in Bodies
         /\ intent[id].target \in Revisions /\ Outgoing(id) \in Revisions
         /\ intent[id].target \in Int /\ Outgoing(id) \in Int
         /\ Outgoing(id) = intent[id].target - 1 /\ NoBody \notin Bodies
         /\ history[id] \in [Revisions -> Digests] /\ revs[id] \in [Revisions -> Digests]
<1>1. intent[id].target \in Revisions
  BY SMTT(20) DEF DbType, Intents, NoIntent
<1>2. Outgoing(id) \in Revisions
  BY <1>1, SMTT(20) DEF UpdateShape, Outgoing, Revisions
<1>3. history[id] \in [Revisions -> Digests] /\ revs[id] \in [Revisions -> Digests]
  BY DEF FsType, DbType, Snapshots
<1> QED BY <1>1, <1>2, <1>3, SMTT(20) DEF UpdateShape, Outgoing, Revisions

\* The revision an update replaces is not pruned by it.
LEMMA OutgoingKept ==
  ASSUME NEW id \in Ids, MaxHistory > 0, row[id].rev = intent[id].target,
         intent[id].target \in Revisions
  PROVE  Outgoing(id) \notin Prunable(id)
\* Cardinality counts no element of the empty set.
<1>CardinalityEmpty. Cardinality({}) = 0
  <2> DEFINE P(f) == f = [T \in SUBSET {} |-> IF T = {} THEN 0
                                             ELSE 1 + f[T \ {CHOOSE x : x \in T}]]
  <2>1. P([T \in SUBSET {} |-> 0])
    OBVIOUS
  <2>2. P(CHOOSE f : P(f))
    BY <2>1
  <2>3. PICK g : g = CHOOSE f : P(f)
    OBVIOUS
  <2>4. g = [T \in SUBSET {} |-> IF T = {} THEN 0 ELSE 1 + g[T \ {CHOOSE x : x \in T}]]
    BY <2>2, <2>3
  <2>5. g[{}] = 0
    <3> HIDE DEF P
    <3> QED BY <2>4
  <2> QED BY <2>3, <2>5 DEF Cardinality

<1>1. {s \in Superseded(id) : s > Outgoing(id)} = {}
  BY SMTT(20) DEF Superseded, Outgoing, Revisions
<1>2. Cardinality({s \in Superseded(id) : s > Outgoing(id)}) = 0
  BY <1>1, <1>CardinalityEmpty
<1> QED BY <1>2, SMTT(20) DEF Prunable

\* An update step moves control inside the update or releases the gate.
LEMMA UpdateControl ==
  ASSUME IndInv, NEW id \in Ids, UpdateStep(id)
  PROVE  /\ cur = id /\ pc \in UpdateSteps
         /\ \/ cur' = id /\ pc' \in UpdateSteps
            \/ cur' = NoId /\ pc' = "idle"
         /\ CtlType' /\ (cur = NoId <=> pc \in Phases)' /\ cur' \in {id, NoId}
<1>1. /\ cur = id /\ pc \in UpdateSteps
      /\ \/ cur' = id /\ pc' \in UpdateSteps
         \/ cur' = NoId /\ pc' = "idle"
      /\ todo' = todo /\ (faults' = faults \/ (faults < MaxFaults /\ faults' = faults + 1))
  <2> USE DEF UpdateStep, UpdateWrite, UpdateSync, UpdateCommit, UpdateSnapshot, UpdateCopy,
              UpdateSwap, UpdateDurable, UpdatePrune, UpdateFinalize, UpdateUndoSnapshot,
              UpdateUndoStaging, UpdateRevert, UpdateUndoTemp, UpdateCancel,
              UpdateDropStaging, UpdateDropIntent
  <2>1. cur = id /\ pc \in UpdateSteps
    BY DEF UpdateSteps
  <2>2. \/ cur' = id /\ pc' \in UpdateSteps
        \/ cur' = NoId /\ pc' = "idle"
    BY <2>1 DEF UpdateSteps
  <2>3. todo' = todo /\ (faults' = faults \/ (faults < MaxFaults /\ faults' = faults + 1))
    BY DEF SafeRemoveStaging
  <2> QED BY <2>1, <2>2, <2>3
<1>2. CtlType'
  BY <1>1, SMTT(20) DEF IndInv, TypeOK, CtlType, Phases
<1>3. (cur = NoId <=> pc \in Phases)' /\ cur' \in {id, NoId}
  BY <1>1 DEF Phases, UpdateSteps
<1> QED BY <1>1, <1>2, <1>3

\* A row is absent or has a revision and the digest of a body.
LEMMA RowTypes ==
  ASSUME NEW id \in Ids, DbType, row[id] # NoRow
  PROVE  /\ row[id].rev \in Revisions /\ row[id].sha \in Bodies
         /\ row[id].rev \in Int /\ row[id].rev >= 1 /\ row[id].sha # NoBody
         /\ row[id] = [rev |-> row[id].rev, sha |-> row[id].sha]
BY SMTT(20) DEF DbType, Rows, NoRow, Revisions

\* An open intent names one of the three operations.
LEMMA IntentTypes ==
  ASSUME NEW id \in Ids, DbType, intent[id] # NoIntent
  PROVE  intent[id].op \in Operations /\ intent[id].target \in Revisions
BY DEF DbType, Intents, NoIntent

\* A row with an update open is the outgoing one, with its body live, or the
\* committed one.
LEMMA UpdateRowCases ==
  ASSUME NEW id \in Ids, DbType, UpdateShape(id), intent[id].op = "update"
  PROVE  /\ row[id] # NoRow
         /\ \/ /\ ~Committed(id) /\ row[id].sha = intent[id].prior
               /\ final[id] = intent[id].prior
            \/ /\ Committed(id) /\ row[id].sha = intent[id].expected
               /\ row[id].rev - 1 = Outgoing(id) /\ row[id].rev = intent[id].target
         /\ Outgoing(id) \in Revisions /\ intent[id].target \in Revisions
         /\ Outgoing(id) < intent[id].target
<1>1. intent[id].target \in Revisions
  BY SMTT(20) DEF DbType, Intents, NoIntent
<1>2. /\ Outgoing(id) \in Revisions /\ Outgoing(id) < intent[id].target
      /\ Outgoing(id) # 0 /\ Outgoing(id) # intent[id].target /\ intent[id].target # 0
      /\ intent[id].target - 1 = Outgoing(id)
  BY <1>1, SMTT(20) DEF UpdateShape, Outgoing, Revisions
<1>3. CASE row[id] = [rev |-> Outgoing(id), sha |-> intent[id].prior]
  BY <1>1, <1>2, <1>3, SMTT(20) DEF UpdateShape, Committed, NoRow
<1>4. CASE row[id] = [rev |-> intent[id].target, sha |-> intent[id].expected]
  BY <1>1, <1>2, <1>4, SMTT(20) DEF UpdateShape, Committed, NoRow
<1> QED BY <1>3, <1>4 DEF UpdateShape

\* The item a recovery step works on names an artifact.
LEMMA WorkTypes ==
  ASSUME CtlType, NEW w \in todo
  PROVE  /\ w.id \in Ids /\ w.body \in Paths /\ w.kind \in {"intent", "staging", "trash"}
         /\ w.scrap \in BOOLEAN
BY DEF CtlType, Work

-----------------------------------------------------------------------------
(* IndInv is inductive. *)

\* The store starts empty.
LEMMA InitInv == Init => IndInv
<1> SUFFICES ASSUME Init PROVE IndInv
  OBVIOUS
<1>1. NoHistory \in Snapshots
  BY DEF NoHistory, Snapshots, Digests
<1>2. DbType
  BY <1>1, SMTT(20) DEF Init, DbType, Rows, Intents
<1>3. FsType
  BY <1>1 DEF Init, FsType, Digests, Paths
<1>4. CtlType
  BY SMTT(20) DEF Init, CtlType, Phases
<1>5. ASSUME NEW id \in Ids PROVE Shape(id) /\ HistoryShape(id)
  <2>1. Shape(id)
    BY DEF Init, Shape, ClosedShape, NoIntent
  <2>2. HistoryShape(id)
    BY DEF Init, HistoryShape, NoHistory
  <2> QED BY <2>1, <2>2
<1>6. cur = NoId /\ pc \in Phases
  BY DEF Init, Phases
<1> QED BY <1>2, <1>3, <1>4, <1>5, <1>6 DEF IndInv, TypeOK

\* Every step preserves the inductive invariant.
LEMMA NextInv == IndInv /\ [Next]_vars => IndInv'
\* An artifact that a step leaves alone keeps its shape.
<1>Frame.
  ASSUME NEW j \in Ids, SameAt(j), Shape(j), HistoryShape(j)
  PROVE  Shape(j)' /\ HistoryShape(j)'
  <2> USE <1>Frame
  <2>1. Shape(j)'
    BY DEF SameAt, Shape, ClosedShape, PublishShape, UpdateShape, DeleteShape, Committed,
           Outgoing, MetadataOnly, Event
  <2>2. HistoryShape(j)'
    BY DEF SameAt, HistoryShape
  <2> QED BY <2>1, <2>2

\* A step that keeps the invariant at the artifact it touches keeps it everywhere.
<1>LocalStep.
  ASSUME IndInv, NEW id \in Ids,
         DbType', FsType', CtlType', (cur = NoId <=> pc \in Phases)',
         cur' \in {id, NoId},
         \A j \in Ids \ {id} : SameAt(j),
         Shape(id)', HistoryShape(id)', cur' = id => Running(id)'
  PROVE  IndInv'
  <2> USE <1>LocalStep
  <2>1. \A j \in Ids : Shape(j)' /\ HistoryShape(j)'
    BY <1>Frame DEF IndInv
  <2>2. \A j \in Ids : (cur = j => Running(j))'
    OBVIOUS
  <2> QED BY <2>1, <2>2 DEF IndInv, TypeOK

\* Closing an intent: the types, and what is left at its artifact.
<1>SettleEffect.
  ASSUME DbType, NEW id \in Ids, NEW result \in {"success", "recovered", "failure"},
         intent[id].op \in Operations, Settle(id, result)
  PROVE  /\ row' = row /\ revs' = revs => DbType'
         /\ intent'[id] = NoIntent /\ receipt'[id] = "none" /\ blocked'[id] = {}
         /\ \A j \in Ids \ {id} : /\ intent'[j] = intent[j] /\ receipt'[j] = receipt[j]
                                  /\ blocked'[j] = blocked[j]
  <2> USE <1>SettleEffect
  <2>1. intent[id].target \in Revisions
    BY SMTT(20) DEF DbType, Intents, NoIntent, Operations
  <2>2. [op |-> intent[id].op, rev |-> intent[id].target, result |-> result] \in Outcomes
    BY <2>1 DEF Outcomes
  <2>3. ledger' \in [Ids -> Seq(Outcomes)]
    BY <2>2, SMTT(20) DEF DbType, Settle
  <2>4. announced' \in [Ids -> SUBSET Events] /\ blocked' \in [Ids -> SUBSET Events]
    BY DEF DbType, Settle
  <2>5. intent' \in [Ids -> Intents] /\ receipt' \in [Ids -> {"none", "pending"}]
    BY DEF DbType, Settle, FinishIntent, Intents
  <2>6. intent'[id] = NoIntent /\ receipt'[id] = "none" /\ blocked'[id] = {}
    BY DEF DbType, Settle, FinishIntent
  <2>7. \A j \in Ids \ {id} : /\ intent'[j] = intent[j] /\ receipt'[j] = receipt[j]
                              /\ blocked'[j] = blocked[j]
    BY DEF DbType, Settle, FinishIntent
  <2> QED BY <2>3, <2>4, <2>5, <2>6, <2>7 DEF DbType

\* Removing the staging path, or failing to, touches nothing an invariant reads.
<1>SafeRemoveType.
  ASSUME FsType, NEW id \in Ids, SafeRemoveStaging(id)
  PROVE  staging' \in [Ids -> Paths] /\ scraps' \in [Ids -> SUBSET Scraps]
  <2> USE <1>SafeRemoveType
  <2>1. Scrap("staging", staging[id]) \in SUBSET Scraps
    BY SMTT(20) DEF FsType, Scrap, Scraps, Paths, Digests
  <2> QED BY <2>1, SMTT(20) DEF FsType, SafeRemoveStaging, Paths, Digests

\* The blocked outbox rows of an intent.
<1>FanoutEffect.
  ASSUME DbType, NEW id \in Ids, intent[id].op \in Operations, Fanout(id)
  PROVE  /\ blocked' \in [Ids -> SUBSET Events]
         /\ blocked'[id] = blocked[id] \cup {Event(id)}
         /\ \A j \in Ids \ {id} : blocked'[j] = blocked[j]
  <2> USE <1>FanoutEffect
  <2>1. intent[id].target \in Revisions
    BY SMTT(20) DEF DbType, Intents, NoIntent, Operations
  <2>2. Event(id) \in Events
    BY <2>1 DEF Event, Events
  <2>3. blocked' = [blocked EXCEPT ![id] = @ \cup {Event(id)}]
    BY DEF Fanout, Event
  <2> QED BY <2>2, <2>3 DEF DbType

\* A step that touches only staging, scraps and the snapshot temporary.
<1>QuietStep.
  ASSUME IndInv, NEW id \in Ids, UNCHANGED <<db, final, trash, history>>,
         staging' \in [Ids -> Paths], snapTmp' \in [Ids -> {NoBody, Torn}],
         scraps' \in [Ids -> SUBSET Scraps],
         CtlType', (cur = NoId <=> pc \in Phases)', cur' \in {id, NoId},
         cur' = id => Running(id)'
  PROVE  IndInv'
  <2> USE <1>QuietStep
  <2>1. \A j \in Ids : SameAt(j)
    BY DEF SameAt
  <2>2. DbType' /\ FsType'
    BY DEF IndInv, TypeOK, DbType, FsType
  <2>3. Shape(id)' /\ HistoryShape(id)'
    BY <2>1, <1>Frame DEF IndInv
  <2> QED BY <2>1, <2>2, <2>3, <1>LocalStep

\* The shape after a step, from the operation that is open then.
<1>OpenShape.
  ASSUME NEW id \in Ids,
         \/ intent'[id].op = "publish" /\ PublishShape(id)'
         \/ intent'[id].op = "update" /\ UpdateShape(id)'
         \/ intent'[id].op = "delete" /\ DeleteShape(id)'
  PROVE  Shape(id)'
  BY <1>OpenShape, SMTT(20) DEF Shape, NoIntent

\* Closing an intent (Settle) leaves the shape of an artifact without one.
<1>CloseShape.
  ASSUME NEW id \in Ids, intent'[id] = NoIntent, ClosedShape(id)'
  PROVE  Shape(id)'
  BY <1>CloseShape, SMTT(20) DEF Shape, NoIntent

\* Steps that leave the row and the history of an artifact alone.
<1>HistoryKept.
  ASSUME NEW id \in Ids, HistoryShape(id),
         row'[id] = row[id], revs'[id] = revs[id], history'[id] = history[id],
         \/ row[id] # NoRow \/ intent'[id].op = "delete"
         \/ intent[id].op # "delete" \/ history[id] = NoHistory
  PROVE  HistoryShape(id)'
  BY <1>HistoryKept DEF HistoryShape

\* The history of a row after a step, from what it is at each revision.
<1>HistoryFrom.
  ASSUME NEW id \in Ids, row'[id] # NoRow, revs'[id][row'[id].rev] = row'[id].sha,
         \A r \in Revisions : r >= row'[id].rev => history'[id][r] = NoBody,
         \A r \in Revisions : history'[id][r] # NoBody /\ revs'[id][r] # NoBody
                                => history'[id][r] = revs'[id][r]
  PROVE  HistoryShape(id)'
  BY <1>HistoryFrom DEF HistoryShape

\* A step that closes the intent of an artifact whose body is in place.
<1>CloseStep.
  ASSUME IndInv, NEW id \in Ids,
         DbType', FsType', CtlType', (cur = NoId <=> pc \in Phases)', cur' = NoId,
         \A j \in Ids \ {id} : SameAt(j),
         intent'[id] = NoIntent, receipt'[id] = "none", blocked'[id] = {},
         trash'[id] = NoBody, row'[id] = row[id], revs'[id] = revs[id],
         final'[id] = final[id], history'[id] = history[id],
         row[id] = NoRow \/ final[id] = row[id].sha,
         row[id] # NoRow \/ intent[id].op # "delete" \/ history[id] = NoHistory
  PROVE  IndInv'
  <2> USE <1>CloseStep
  <2>1. ClosedShape(id)'
    BY DEF ClosedShape
  <2>2. HistoryShape(id)'
    BY <1>HistoryKept DEF IndInv
  <2> QED BY <2>1, <2>2, <1>CloseShape, <1>LocalStep

\* A step that touches only staging, scraps and the snapshot temporary keeps
\* what the database and the artifact directory hold of an artifact.
<1>QuietKept.
  ASSUME NEW id \in Ids, DbType, FsType, Shape(id), HistoryShape(id),
         UNCHANGED <<db, final, trash, history>>,
         staging' \in [Ids -> Paths], snapTmp' \in [Ids -> {NoBody, Torn}],
         scraps' \in [Ids -> SUBSET Scraps]
  PROVE  LocalKept(id)
  <2> USE <1>QuietKept
  <2>1. \A j \in Ids : SameAt(j)
    BY DEF SameAt
  <2>2. DbType' /\ FsType'
    BY DEF DbType, FsType
  <2>3. Shape(id)' /\ HistoryShape(id)'
    BY <2>1, <1>Frame
  <2> QED BY <2>1, <2>2, <2>3 DEF LocalKept

\* Closing the intent of an artifact whose body is in place (or that is gone,
\* with its history) keeps them too.
<1>CloseKept.
  ASSUME NEW id \in Ids, HistoryShape(id), DbType', FsType',
         \A j \in Ids \ {id} : SameAt(j),
         intent'[id] = NoIntent, receipt'[id] = "none", blocked'[id] = {},
         trash'[id] = NoBody, row'[id] = row[id], revs'[id] = revs[id],
         final'[id] = final[id], history'[id] = history[id],
         row[id] = NoRow \/ final[id] = row[id].sha,
         row[id] # NoRow \/ intent[id].op # "delete" \/ history[id] = NoHistory
  PROVE  LocalKept(id)
  <2> USE <1>CloseKept
  <2>1. ClosedShape(id)'
    BY DEF ClosedShape
  <2>2. HistoryShape(id)'
    BY <1>HistoryKept
  <2> QED BY <2>1, <2>2, <1>CloseShape DEF LocalKept

\* Every publish step preserves the inductive invariant.
<1>PublishStepInv.
  ASSUME IndInv, NEW id \in Ids, PublishStep(id)
  PROVE  IndInv'
  <2> USE <1>PublishStepInv
  <2>1. /\ DbType /\ FsType /\ HistoryShape(id)
        /\ PublishShape(id) /\ PublishRunning(id) /\ intent[id].op = "publish"
    BY PublishControl DEF IndInv, TypeOK, Shape, Running
  <2>2. ASSUME cur' = id => intent'[id].op = "publish" /\ PublishRunning(id)'
        PROVE  cur' = id => Running(id)'
    BY <2>2, PublishControl DEF Running, PublishSteps, UpdateSteps, DeleteSteps
  <2>3. ASSUME DbType', FsType', \A j \in Ids \ {id} : SameAt(j),
               Shape(id)', HistoryShape(id)',
               cur' = id => intent'[id].op = "publish" /\ PublishRunning(id)'
        PROVE  IndInv'
    BY <2>2, <2>3, <1>LocalStep, PublishControl
  <2>4. ASSUME UNCHANGED <<db, final, trash, history>>,
               staging' \in [Ids -> Paths], snapTmp' \in [Ids -> {NoBody, Torn}],
               scraps' \in [Ids -> SUBSET Scraps], cur' = id => PublishRunning(id)'
        PROVE  IndInv'
    BY <2>1, <2>2, <2>4, <1>QuietStep, PublishControl
  <2>5. CASE PublishWrite(id)
    <3>1. staging' \in [Ids -> Paths]
      BY <2>1, <2>5 DEF PublishWrite, FsType, Paths
    <3>2. cur' = id => PublishRunning(id)'
      BY <2>1, <2>5 DEF PublishWrite, PublishRunning, FsType
    <3> QED BY <2>1, <2>4, <2>5, <3>1, <3>2 DEF PublishWrite, FsType
  <2>6. CASE PublishSync(id)
    <3>1. staging' \in [Ids -> Paths]
      BY <2>1, <2>6 DEF PublishSync, FsType, PublishShape, Paths, Digests
    <3>2. cur' = id => PublishRunning(id)'
      BY <2>1, <2>6 DEF PublishSync, PublishRunning, FsType
    <3> QED BY <2>1, <2>4, <2>6, <3>1, <3>2 DEF PublishSync, FsType
  <2>7. CASE PublishInsert(id)
    <3>1. CASE UNCHANGED row
      <4>1. UNCHANGED <<db, fs>> /\ pc' = "pubDropStaging"
        BY <2>1, <2>7, <3>1, SMTT(20) DEF PublishInsert, PublishRunning, DbType, NoRow
      <4>2. cur' = id => PublishRunning(id)'
        BY <2>1, <2>7, <4>1 DEF PublishInsert, PublishRunning
      <4> QED BY <2>1, <2>4, <4>1, <4>2 DEF FsType
    <3>2. CASE row' # row
      <4> DEFINE e == intent[id].expected
      <4>1. /\ row' = [row EXCEPT ![id] = [rev |-> 1, sha |-> e]]
            /\ revs' = [revs EXCEPT ![id][1] = e]
            /\ ReserveReceipt(id) /\ Fanout(id) /\ cur' = id /\ pc' = "pubAdvance"
            /\ UNCHANGED <<intent, announced, ledger, fs>>
        BY <2>7, <3>2 DEF PublishInsert
      <4>2. e \in Bodies /\ 1 \in Revisions /\ [rev |-> 1, sha |-> e] \in Rows
        BY <2>1, SMTT(20) DEF PublishShape, Revisions, Rows
      <4>3. revs' \in [Ids -> Snapshots]
        BY <2>1, <4>1, <4>2 DEF DbType, Snapshots, Digests
      <4>4. blocked' \in [Ids -> SUBSET Events] /\ blocked'[id] = blocked[id] \cup {Event(id)}
        BY <2>1, <4>1, <1>FanoutEffect DEF Operations
      <4>5. DbType'
        BY <2>1, <4>1, <4>2, <4>3, <4>4 DEF DbType, ReserveReceipt
      <4>6. FsType' /\ \A j \in Ids \ {id} : SameAt(j)
        BY <2>1, <4>1 DEF FsType, DbType, SameAt, ReserveReceipt, Fanout
      <4>7. /\ row'[id] = [rev |-> 1, sha |-> e] /\ receipt'[id] = "pending"
            /\ revs'[id] = [revs[id] EXCEPT ![1] = e] /\ revs'[id][1] = e
            /\ blocked[id] = {}
            /\ history[id] = NoHistory /\ final[id] = NoBody
        BY <2>1, <2>7, <4>1, <4>2 DEF PublishInsert, DbType, Snapshots, ReserveReceipt,
           PublishShape, PublishRunning, HistoryShape
      <4>8. PublishShape(id)'
        BY <2>1, <4>1, <4>4, <4>7 DEF PublishShape, Event
      <4>9. HistoryShape(id)'
        BY ONLY <2>1, <4>1, <4>7, SMTT(20) DEF HistoryShape, NoHistory
      <4>10. PublishRunning(id)'
        BY <2>1, <2>7, <4>1, <4>7, SMTT(20) DEF PublishInsert, PublishRunning, NoRow
      <4> QED BY <2>1, <2>3, <4>1, <4>5, <4>6, <4>8, <4>9, <4>10, <1>OpenShape
    <3> QED BY <3>1, <3>2
  <2>8. CASE PublishAdvance(id)
    <3>1. cur' = id => PublishRunning(id)'
      BY <2>1, <2>8 DEF PublishAdvance, PublishRunning
    <3> QED BY <2>1, <2>4, <2>8, <3>1 DEF PublishAdvance, FsType
  <2>9. CASE PublishRename(id)
    <3>1. CASE UNCHANGED <<final, staging>>
      <4>1. cur' = id => PublishRunning(id)'
        BY <2>1, <2>9, <3>1 DEF PublishRename, PublishRunning, PublishShape, FsType
      <4> QED BY <2>1, <2>4, <2>9, <3>1, <4>1 DEF PublishRename, FsType
    <3>2. CASE ~UNCHANGED <<final, staging>>
      <4>1. /\ final' = [final EXCEPT ![id] = staging[id]]
            /\ staging' = [staging EXCEPT ![id] = NoBody]
            /\ staging[id] = intent[id].expected
            /\ UNCHANGED <<db, trash, snapTmp, history, scraps>>
            /\ cur' = id => pc' = "pubDurable"
            /\ row[id] # NoRow
        BY <2>1, <2>9, <3>2 DEF PublishRename, PublishRunning
      <4>2. DbType' /\ FsType' /\ (\A j \in Ids \ {id} : SameAt(j))
            /\ final'[id] = intent[id].expected
        BY <2>1, <4>1 DEF DbType, FsType, SameAt, PublishShape, Digests, Paths
      <4>3. PublishShape(id)'
        BY <2>1, <4>1, <4>2 DEF PublishShape, Event
      <4>4. HistoryShape(id)'
        BY <2>1, <4>1, <1>HistoryKept
      <4>5. cur' = id => PublishRunning(id)'
        BY <2>1, <4>1, <4>2 DEF PublishRunning, PublishShape
      <4> QED BY <2>1, <2>3, <4>1, <4>2, <4>3, <4>4, <4>5, <1>OpenShape
    <3> QED BY <3>1, <3>2
  <2>10. CASE PublishDurable(id)
    <3>1. cur' = id => PublishRunning(id)'
      BY <2>1, <2>10 DEF PublishDurable, PublishRunning
    <3> QED BY <2>1, <2>4, <2>10, <3>1 DEF PublishDurable, FsType
  <2>11. CASE PublishFinalize(id)
    <3>1. CASE UNCHANGED db
      <4>1. cur' = id => PublishRunning(id)'
        BY <2>1, <2>11, <3>1 DEF PublishFinalize, PublishRunning
      <4> QED BY <2>1, <2>4, <2>11, <3>1, <4>1 DEF PublishFinalize, FsType
    <3>2. CASE ~UNCHANGED db
      <4>1. Settle(id, "success") /\ cur' = NoId /\ UNCHANGED <<row, revs, fs>>
        BY <2>11, <3>2 DEF PublishFinalize
      <4>2. /\ DbType' /\ FsType'
            /\ intent'[id] = NoIntent /\ receipt'[id] = "none" /\ blocked'[id] = {}
            /\ \A j \in Ids \ {id} : SameAt(j)
        BY <2>1, <4>1, <1>SettleEffect DEF FsType, SameAt, Operations
      <4>3. ClosedShape(id)'
        BY <2>1, <2>11, <4>1, <4>2, SMTT(20) DEF PublishFinalize, ClosedShape, PublishShape, PublishRunning
      <4>4. HistoryShape(id)'
        BY <2>1, <4>1, <1>HistoryKept
      <4> QED BY <2>3, <4>1, <4>2, <4>3, <4>4, <1>CloseShape
    <3> QED BY <3>1, <3>2
  <2>12. CASE PublishDropStaging(id)
    <3>1. SafeRemoveStaging(id) /\ UNCHANGED <<db, final, trash, snapTmp, history>>
      BY <2>12 DEF PublishDropStaging
    <3>2. cur' = id => PublishRunning(id)'
      BY <2>1, <2>12, <3>1 DEF PublishDropStaging, PublishRunning
    <3> QED BY <2>1, <2>4, <3>1, <3>2, <1>SafeRemoveType DEF FsType
  <2>13. CASE PublishDropIntent(id)
    <3>1. CASE UNCHANGED intent
      BY <2>1, <2>4, <2>13, <3>1 DEF PublishDropIntent, FsType
    <3>2. CASE ~UNCHANGED intent
      <4>1. /\ intent' = [intent EXCEPT ![id] = NoIntent] /\ cur' = NoId
            /\ UNCHANGED <<row, revs, receipt, blocked, announced, ledger, fs>>
            /\ row[id] = NoRow /\ receipt[id] = "none"
        BY <2>1, <2>13, <3>2 DEF PublishDropIntent, FinishIntent, PublishRunning
      <4>2. DbType' /\ FsType' /\ \A j \in Ids \ {id} : SameAt(j)
        BY <2>1, <4>1 DEF DbType, FsType, SameAt, Intents
      <4>3. Shape(id)'
        BY <2>1, <4>1 DEF Shape, ClosedShape, PublishShape, NoIntent, DbType
      <4>4. HistoryShape(id)'
        BY <2>1, <4>1 DEF HistoryShape, NoIntent, DbType
      <4> QED BY <2>3, <4>1, <4>2, <4>3, <4>4
    <3> QED BY <3>1, <3>2
  <2>14. CASE PublishUndoRow(id)
    <3>1. CASE UNCHANGED <<row, revs>>
      <4>1. cur' = id => PublishRunning(id)'
        BY <2>1, <2>14, <3>1 DEF PublishUndoRow, PublishRunning, DbType
      <4> QED BY <2>1, <2>4, <2>14, <3>1, <4>1 DEF PublishUndoRow, FsType
    <3>2. CASE ~UNCHANGED <<row, revs>>
      <4>1. /\ row' = [row EXCEPT ![id] = NoRow] /\ revs' = [revs EXCEPT ![id] = NoHistory]
            /\ UNCHANGED <<intent, receipt, blocked, announced, ledger, fs>>
            /\ pc' = "pubUndoStaging" /\ row[id] # NoRow
        BY <2>1, <2>14, <3>2 DEF PublishUndoRow, PublishRunning
      <4>2. NoHistory \in Snapshots
        BY DEF NoHistory, Snapshots, Digests
      <4>3. DbType' /\ FsType' /\ \A j \in Ids \ {id} : SameAt(j)
        BY <2>1, <4>1, <4>2 DEF DbType, FsType, SameAt, Rows
      <4>4. row'[id] = NoRow /\ revs'[id] = NoHistory /\ history'[id] = NoHistory
        <5>1. row'[id] = NoRow /\ revs'[id] = NoHistory
          BY <2>1, <4>1 DEF DbType
        <5>2. row[id].rev = 1
          BY <2>1, <4>1, SMTT(20) DEF PublishShape
        <5>3. \A r \in Revisions : history[id][r] = NoBody
          BY <2>1, <4>1, <5>2, SMTT(20) DEF HistoryShape, Revisions
        <5>4. history[id] \in [Revisions -> Digests]
          BY <2>1 DEF FsType, Snapshots
        <5>5. history[id] = NoHistory
          BY <5>3, <5>4 DEF NoHistory
        <5> QED BY <4>1, <5>1, <5>5
      <4>5. PublishShape(id)'
        BY <2>1, <4>1, <4>4 DEF PublishShape, Event
      <4>6. HistoryShape(id)'
        BY <2>1, <4>1, <4>4 DEF HistoryShape, NoHistory
      <4>7. PublishRunning(id)'
        BY <2>1, <4>1, <4>4 DEF PublishRunning, PublishShape
      <4> QED BY <2>1, <2>3, <4>1, <4>3, <4>5, <4>6, <4>7, <1>OpenShape
    <3> QED BY <3>1, <3>2
  <2>15. CASE PublishUndoStaging(id)
    <3>1. SafeRemoveStaging(id) /\ UNCHANGED <<db, final, trash, snapTmp, history>>
      BY <2>15 DEF PublishUndoStaging
    <3>2. cur' = id => PublishRunning(id)'
      BY <2>1, <2>15, <3>1 DEF PublishUndoStaging, PublishRunning
    <3> QED BY <2>1, <2>4, <3>1, <3>2, <1>SafeRemoveType DEF FsType
  <2>16. CASE PublishUndoFinal(id)
    <3>1. /\ final' = [final EXCEPT ![id] = NoBody] \/ final' = final
          /\ UNCHANGED <<db, staging, trash, snapTmp, history, scraps>> /\ pc' = "pubCancel"
      BY <2>16 DEF PublishUndoFinal
    <3>2. DbType' /\ FsType' /\ \A j \in Ids \ {id} : SameAt(j)
      BY <2>1, <3>1 DEF DbType, FsType, SameAt, Digests
    <3>3. PublishShape(id)'
      BY <2>1, <3>1 DEF PublishShape, Event, FsType
    <3>4. HistoryShape(id)'
      BY <2>1, <3>1, <1>HistoryKept
    <3>5. PublishRunning(id)'
      BY <2>1, <2>16, <3>1 DEF PublishUndoFinal, PublishRunning
    <3> QED BY <2>1, <2>3, <3>1, <3>2, <3>3, <3>4, <3>5, <1>OpenShape
  <2>17. CASE PublishCancel(id)
    <3>1. CASE UNCHANGED db
      BY <2>1, <2>4, <2>17, <3>1 DEF PublishCancel, FsType
    <3>2. CASE ~UNCHANGED db
      <4>1. Settle(id, "failure") /\ cur' = NoId /\ UNCHANGED <<row, revs, fs>>
        BY <2>17, <3>2 DEF PublishCancel, Cancel
      <4>2. /\ DbType' /\ FsType'
            /\ intent'[id] = NoIntent /\ receipt'[id] = "none" /\ blocked'[id] = {}
            /\ \A j \in Ids \ {id} : SameAt(j)
        BY <2>1, <4>1, <1>SettleEffect DEF FsType, SameAt, Operations
      <4>3. ClosedShape(id)'
        BY <2>1, <2>17, <4>1, <4>2 DEF PublishCancel, ClosedShape, PublishShape, PublishRunning
      <4>4. HistoryShape(id)'
        BY <2>1, <4>1, <1>HistoryKept
      <4> QED BY <2>3, <4>1, <4>2, <4>3, <4>4, <1>CloseShape
    <3> QED BY <3>1, <3>2
  <2> QED BY <2>5, <2>6, <2>7, <2>8, <2>9, <2>10, <2>11, <2>12, <2>13, <2>14, <2>15,
             <2>16, <2>17, Zenon DEF PublishStep

\* Every delete step preserves the inductive invariant.
<1>DeleteStepInv.
  ASSUME IndInv, NEW id \in Ids, DeleteStep(id)
  PROVE  IndInv'
  <2> USE <1>DeleteStepInv
  <2>1. /\ DbType /\ FsType /\ HistoryShape(id)
        /\ DeleteShape(id) /\ DeleteRunning(id) /\ intent[id].op = "delete"
    BY DeleteControl DEF IndInv, TypeOK, Shape, Running
  <2>2. ASSUME cur' = id => intent'[id].op = "delete" /\ DeleteRunning(id)'
        PROVE  cur' = id => Running(id)'
    BY <2>2, DeleteControl DEF Running, PublishSteps, UpdateSteps, DeleteSteps
  <2>3. ASSUME DbType', FsType', \A j \in Ids \ {id} : SameAt(j),
               Shape(id)', HistoryShape(id)',
               cur' = id => intent'[id].op = "delete" /\ DeleteRunning(id)'
        PROVE  IndInv'
    BY <2>2, <2>3, <1>LocalStep, DeleteControl
  <2>4. ASSUME UNCHANGED <<db, fs>>, cur' = id => DeleteRunning(id)'
        PROVE  IndInv'
    BY <2>1, <2>2, <2>4, <1>QuietStep, DeleteControl DEF FsType
  <2>5. intent[id].prior \in Bodies /\ NoHistory \in Snapshots /\ NoBody \in Digests
    BY <2>1 DEF DeleteShape, NoHistory, Snapshots, Digests
  <2>6. CASE DeleteTrash(id)
    <3>1. row[id] # NoRow /\ final[id] = intent[id].prior /\ trash[id] = NoBody
      BY <2>1, <2>6 DEF DeleteTrash, DeleteRunning
    <3>2. CASE UNCHANGED <<final, trash>>
      <4>1. cur' = id => pc' = "delCancel" /\ UNCHANGED <<db, fs>>
        BY <2>1, <2>5, <2>6, <3>1, <3>2 DEF DeleteTrash, FsType
      <4>2. cur' = id => DeleteRunning(id)'
        BY <3>1, <4>1 DEF DeleteRunning
      <4> QED BY <2>4, <2>6, <3>2, <4>2 DEF DeleteTrash
    <3>3. CASE ~UNCHANGED <<final, trash>>
      <4>1. /\ trash' = [trash EXCEPT ![id] = intent[id].prior]
            /\ final' = [final EXCEPT ![id] = NoBody]
            /\ UNCHANGED <<db, staging, snapTmp, history, scraps>>
            /\ cur' = id => pc' = "delRow"
        BY <2>5, <2>6, <3>1, <3>3 DEF DeleteTrash
      <4>2. /\ DbType' /\ FsType' /\ \A j \in Ids \ {id} : SameAt(j)
            /\ trash'[id] = intent[id].prior /\ final'[id] = NoBody
        BY <2>1, <2>5, <4>1 DEF DbType, FsType, SameAt, Digests
      <4>3. DeleteShape(id)'
        BY <2>1, <2>5, <3>1, <4>1, <4>2 DEF DeleteShape, Event
      <4>4. HistoryShape(id)'
        BY <2>1, <4>1, <1>HistoryKept
      <4>5. cur' = id => DeleteRunning(id)'
        BY <3>1, <4>1, <4>2 DEF DeleteRunning
      <4> QED BY <2>1, <2>3, <4>1, <4>2, <4>3, <4>4, <4>5, <1>OpenShape
    <3> QED BY <3>2, <3>3
  <2>7. CASE DeleteRow(id)
    <3>1. row[id] # NoRow /\ final[id] = NoBody
      BY <2>1, <2>7 DEF DeleteRow, DeleteRunning
    <3>2. CASE UNCHANGED <<row, revs, blocked>>
      <4>1. pc' = "delRestore" /\ UNCHANGED <<db, fs>>
        BY <2>1, <2>7, <3>1, <3>2 DEF DeleteRow, DbType
      <4>2. DeleteRunning(id)'
        BY <3>1, <4>1 DEF DeleteRunning
      <4> QED BY <2>4, <4>1, <4>2
    <3>3. CASE ~UNCHANGED <<row, revs, blocked>>
      <4>1. /\ row' = [row EXCEPT ![id] = NoRow] /\ revs' = [revs EXCEPT ![id] = NoHistory]
            /\ Fanout(id) /\ UNCHANGED <<intent, receipt, announced, ledger, fs>>
            /\ pc' = "delRmTrash"
        BY <2>7, <3>3 DEF DeleteRow
      <4>2. /\ blocked' \in [Ids -> SUBSET Events]
            /\ blocked'[id] = blocked[id] \cup {Event(id)}
        BY <2>1, <4>1, <1>FanoutEffect DEF Operations
      <4>3. DbType' /\ FsType' /\ row'[id] = NoRow /\ revs'[id] = NoHistory
        BY <2>1, <2>5, <4>1, <4>2 DEF DbType, FsType, Rows
      <4>4. \A j \in Ids \ {id} : SameAt(j)
        BY <2>1, <4>1 DEF DbType, SameAt, Fanout
      <4>5. DeleteShape(id)'
        BY <2>1, <3>1, <4>1, <4>2, <4>3 DEF DeleteShape, Event
      <4>6. HistoryShape(id)'
        BY <2>1, <4>1, <4>3 DEF HistoryShape, NoHistory
      <4>7. DeleteRunning(id)'
        BY <4>1, <4>3 DEF DeleteRunning
      <4> QED BY <2>1, <2>3, <4>1, <4>3, <4>4, <4>5, <4>6, <4>7, <1>OpenShape
    <3> QED BY <3>2, <3>3
  <2>8. CASE DeleteTrashRemove(id)
    <3>1. row[id] = NoRow
      BY <2>1, <2>8 DEF DeleteTrashRemove, DeleteRunning
    <3>2. /\ trash' = [trash EXCEPT ![id] = NoBody] \/ (trash' = trash /\ cur' = NoId)
          /\ UNCHANGED <<db, final, staging, snapTmp, history, scraps>>
          /\ cur' = id => pc' = "delRmHistory"
      BY <2>8 DEF DeleteTrashRemove
    <3>3. /\ DbType' /\ FsType' /\ \A j \in Ids \ {id} : SameAt(j)
          /\ trash'[id] \in {NoBody, trash[id]} /\ (cur' = id => trash'[id] = NoBody)
      <4>1. CASE trash' = trash /\ cur' = NoId
        BY <2>1, <3>2, <4>1 DEF DbType, FsType, SameAt
      <4>2. CASE trash' = [trash EXCEPT ![id] = NoBody]
        BY <2>1, <2>5, <3>2, <4>2 DEF DbType, FsType, SameAt
      <4> QED BY <3>2, <4>1, <4>2
    <3>4. DeleteShape(id)'
      BY <2>1, <3>1, <3>2, <3>3 DEF DeleteShape, Event
    <3>5. HistoryShape(id)'
      BY <2>1, <3>2, <1>HistoryKept
    <3>6. cur' = id => DeleteRunning(id)'
      BY <3>1, <3>2, <3>3 DEF DeleteRunning
    <3> QED BY <2>1, <2>3, <3>2, <3>3, <3>4, <3>5, <3>6, <1>OpenShape
  <2>9. CASE DeleteHistoryRemove(id)
    <3>1. row[id] = NoRow /\ trash[id] = NoBody
      BY <2>1, <2>9 DEF DeleteHistoryRemove, DeleteRunning
    <3>2. CASE UNCHANGED history
      <4>1. UNCHANGED <<db, fs>> /\ (cur' = id => pc' = "delDurable" /\ history[id] = NoHistory)
        BY <2>1, <2>9, <3>2 DEF DeleteHistoryRemove, FsType
      <4>2. cur' = id => DeleteRunning(id)'
        BY <3>1, <4>1 DEF DeleteRunning
      <4> QED BY <2>4, <4>1, <4>2
    <3>3. CASE ~UNCHANGED history
      <4>1. /\ history' = [history EXCEPT ![id] = NoHistory] /\ pc' = "delDurable"
            /\ UNCHANGED <<db, final, staging, trash, snapTmp, scraps>>
        BY <2>9, <3>3 DEF DeleteHistoryRemove
      <4>2. /\ DbType' /\ FsType' /\ \A j \in Ids \ {id} : SameAt(j)
            /\ history'[id] = NoHistory
        BY <2>1, <2>5, <4>1 DEF DbType, FsType, SameAt
      <4>3. DeleteShape(id)'
        BY <2>1, <4>1 DEF DeleteShape, Event
      <4>4. HistoryShape(id)'
        BY <2>1, <3>1, <4>1, <4>2 DEF HistoryShape, NoHistory
      <4>5. DeleteRunning(id)'
        BY <3>1, <4>1, <4>2 DEF DeleteRunning
      <4> QED BY <2>1, <2>3, <4>1, <4>2, <4>3, <4>4, <4>5, <1>OpenShape
    <3> QED BY <3>2, <3>3
  <2>10. CASE DeleteDurable(id)
    <3>1. cur' = id => DeleteRunning(id)'
      BY <2>1, <2>10 DEF DeleteDurable, DeleteRunning
    <3> QED BY <2>4, <2>10, <3>1 DEF DeleteDurable
  <2>11. CASE DeleteFinalize(id)
    <3>1. CASE UNCHANGED db
      BY <2>4, <2>11, <3>1 DEF DeleteFinalize
    <3>2. CASE ~UNCHANGED db
      <4>1. Settle(id, "success") /\ cur' = NoId /\ UNCHANGED <<row, revs, fs>>
        BY <2>11, <3>2 DEF DeleteFinalize
      <4>2. /\ DbType' /\ FsType'
            /\ intent'[id] = NoIntent /\ receipt'[id] = "none" /\ blocked'[id] = {}
            /\ \A j \in Ids \ {id} : SameAt(j)
        BY <2>1, <4>1, <1>SettleEffect DEF FsType, SameAt, Operations
      <4>3. row[id] = NoRow /\ trash[id] = NoBody /\ history[id] = NoHistory
        BY <2>1, <2>11 DEF DeleteFinalize, DeleteRunning
      <4> QED BY <4>1, <4>2, <4>3, <1>CloseStep, DeleteControl
    <3> QED BY <3>1, <3>2
  <2>12. CASE DeleteRestore(id)
    <3> DEFINE gone == /\ "DeleteAdvance" \in FaultPoints /\ row[id] = NoRow
                       /\ trash[id] = NoBody /\ history[id] = NoHistory
    <3>1. (row[id] # NoRow /\ final[id] = NoBody /\ trash[id] = intent[id].prior) \/ gone
      BY <2>1, <2>12 DEF DeleteRestore, DeleteRunning, DeleteShape
    <3>2. CASE UNCHANGED <<final, trash>>
      <4>1. UNCHANGED <<db, fs>> /\ (cur' = id => pc' = "delCancel" /\ gone)
        BY <2>1, <2>5, <2>12, <3>1, <3>2 DEF DeleteRestore, FsType
      <4>2. cur' = id => DeleteRunning(id)'
        BY <4>1 DEF DeleteRunning
      <4> QED BY <2>4, <4>1, <4>2
    <3>3. CASE ~UNCHANGED <<final, trash>>
      <4>1. /\ final' = [final EXCEPT ![id] = IF trash[id] = NoBody THEN @ ELSE trash[id]]
            /\ trash' = [trash EXCEPT ![id] = NoBody]
            /\ UNCHANGED <<db, staging, snapTmp, history, scraps>>
            /\ cur' = id => pc' = "delCancel"
        BY <2>12, <3>3 DEF DeleteRestore
      <4>2. /\ DbType' /\ FsType' /\ \A j \in Ids \ {id} : SameAt(j)
            /\ trash'[id] = NoBody
            /\ row[id] # NoRow => final'[id] = intent[id].prior
            /\ row[id] = NoRow => final'[id] = final[id]
        BY <2>1, <2>5, <3>1, <4>1 DEF DbType, FsType, SameAt
      <4>3. DeleteShape(id)'
        BY <2>1, <2>5, <4>1, <4>2 DEF DeleteShape, Event
      <4>4. HistoryShape(id)'
        BY <2>1, <4>1, <1>HistoryKept
      <4>5. cur' = id => DeleteRunning(id)'
        BY <3>1, <4>1, <4>2 DEF DeleteRunning
      <4> QED BY <2>1, <2>3, <4>1, <4>2, <4>3, <4>4, <4>5, <1>OpenShape
    <3> QED BY <3>2, <3>3
  <2>13. CASE DeleteCancel(id)
    <3>1. CASE UNCHANGED db
      BY <2>4, <2>13, <3>1 DEF DeleteCancel
    <3>2. CASE ~UNCHANGED db
      <4>1. Settle(id, "failure") /\ cur' = NoId /\ UNCHANGED <<row, revs, fs>>
        BY <2>13, <3>2 DEF DeleteCancel, Cancel
      <4>2. /\ DbType' /\ FsType'
            /\ intent'[id] = NoIntent /\ receipt'[id] = "none" /\ blocked'[id] = {}
            /\ \A j \in Ids \ {id} : SameAt(j)
        BY <2>1, <4>1, <1>SettleEffect DEF FsType, SameAt, Operations
      <4>3. /\ trash[id] = NoBody
            /\ \/ row[id] # NoRow /\ final[id] = intent[id].prior
               \/ row[id] = NoRow /\ history[id] = NoHistory
        BY <2>1, <2>13 DEF DeleteCancel, DeleteRunning
      <4>4. row[id] # NoRow => row[id].sha = intent[id].prior
        BY <2>1, SMTT(20) DEF DeleteShape
      <4> QED BY <4>1, <4>2, <4>3, <4>4, <1>CloseStep, DeleteControl
    <3> QED BY <3>1, <3>2
  <2> QED BY <2>6, <2>7, <2>8, <2>9, <2>10, <2>11, <2>12, <2>13 DEF DeleteStep

\* Every step of update_locked, finish_update_body and their compensations keeps
\* the shapes of the artifact under update and disturbs no other.
<1>UpdateStepKept.
  ASSUME NEW id \in Ids, DbType, FsType, HistoryShape(id), UpdateShape(id),
         UpdateRunning(id), intent[id].op = "update", UpdateStep(id)
  PROVE  UpdateKept(id)
  <2> USE <1>UpdateStepKept
  <2> DEFINE e == intent[id].expected
             p == intent[id].prior
             t == intent[id].target
             o == Outgoing(id)
  <2>t. /\ e \in Bodies /\ p \in Bodies /\ t \in Revisions /\ o \in Revisions
        /\ t \in Int /\ o \in Int /\ o = t - 1 /\ NoBody \notin Bodies
        /\ history[id] \in [Revisions -> Digests] /\ revs[id] \in [Revisions -> Digests]
    BY UpdateTypes
  <2>r. /\ Committed(id) => row[id] = [rev |-> t, sha |-> e] /\ row[id].rev = t /\ row[id].sha = e
        /\ ~Committed(id) => /\ row[id] = [rev |-> o, sha |-> p] /\ final[id] = p
                             /\ row[id].rev = o /\ row[id].sha = p
        /\ row[id] # NoRow /\ trash[id] = NoBody
    <3>1. o # t /\ o # 0
      BY <2>t, SMTT(20) DEF Revisions
    <3>2. p # NoBody /\ e # NoBody
      BY DEF UpdateShape
    <3>3. CASE row[id] = [rev |-> o, sha |-> p]
      BY ONLY <3>1, <3>2, <3>3, <1>UpdateStepKept, SMTT(20) DEF UpdateShape, Committed, NoRow
    <3>4. CASE row[id] = [rev |-> t, sha |-> e]
      BY <3>1, <3>2, <3>4, SMTT(20) DEF UpdateShape, Committed, NoRow
    <3> QED BY <3>3, <3>4 DEF UpdateShape
  <2>h. /\ revs[id][row[id].rev] = row[id].sha
        /\ \A r \in Revisions : r >= row[id].rev => history[id][r] = NoBody
        /\ \A r \in Revisions :
             history[id][r] # NoBody /\ revs[id][r] # NoBody => history[id][r] = revs[id][r]
    BY <2>r DEF HistoryShape
  \* A step that touches only staging, scraps and the snapshot temporary.
  <2>q. ASSUME UNCHANGED <<db, final, trash, history>>, staging' \in [Ids -> Paths],
               snapTmp' \in [Ids -> {NoBody, Torn}], scraps' \in [Ids -> SUBSET Scraps],
               cur' = id => UpdateRunning(id)'
        PROVE  UpdateKept(id)
    <3>1. Shape(id)
      BY SMTT(20) DEF Shape, NoIntent
    <3>2. LocalKept(id)
      BY <2>q, <3>1, <1>QuietKept
    <3> QED BY <2>q, <3>2 DEF UpdateKept
  \* Writing the staged body (stage_update_body) changes only the staging path.
  <2>1. CASE UpdateWrite(id)
    <3> USE <2>1
    <3>1. staging' \in [Ids -> Paths]
      BY DEF UpdateWrite, FsType, Paths
    <3>2. cur' = id => UpdateRunning(id)'
      BY DEF UpdateWrite, UpdateRunning, FsType, Committed, Outgoing
    <3> QED BY <2>q, <3>1, <3>2 DEF UpdateWrite, FsType
  \* Syncing the staged body leaves it with the digest the intent expects.
  <2>2. CASE UpdateSync(id)
    <3> USE <2>2
    <3>1. staging' \in [Ids -> Paths]
      BY <2>t DEF UpdateSync, FsType, Paths, Digests
    <3>2. cur' = id => UpdateRunning(id)'
      BY DEF UpdateSync, UpdateRunning, FsType, Committed
    <3> QED BY <2>q, <3>1, <3>2 DEF UpdateSync, FsType
  \* commit_update: the row moves to the target revision, the body stays live.
  <2>3. CASE UpdateCommit(id)
    <3> USE <2>3
    <3>1. CASE UNCHANGED <<row, revs, receipt, blocked>>
      <4>1. cur' = id => pc' \in {"updDropStaging", "updSnapshot"}
        BY DEF UpdateCommit
      <4>2. cur' = id => UpdateRunning(id)'
        <5>1. ~(pc' = "updSnapshot" /\ cur' = id)
          BY <3>1 DEF UpdateCommit, ReserveReceipt, UpdateRunning, DbType
        <5> QED BY <3>1, <4>1, <5>1 DEF UpdateCommit, UpdateRunning, Committed
      <4> QED BY <2>q, <3>1, <4>2 DEF UpdateCommit, FsType
    <3>2. CASE ~UNCHANGED <<row, revs, receipt, blocked>>
      <4>1. /\ row' = [row EXCEPT ![id] = [rev |-> t, sha |-> e]]
            /\ revs' = [revs EXCEPT ![id] =
                          [r \in Revisions |-> IF r = t THEN e
                                               ELSE IF r = o /\ revs[id][r] = NoBody
                                               THEN p ELSE revs[id][r]]]
            /\ ReserveReceipt(id) /\ Fanout(id) /\ cur' = id /\ pc' = "updSnapshot"
            /\ UNCHANGED <<intent, announced, ledger, fs>>
        BY <3>2 DEF UpdateCommit
      <4>2. row[id] = [rev |-> o, sha |-> p] /\ final[id] = p /\ receipt[id] = "none"
        BY <2>r DEF UpdateCommit, UpdateRunning
      <4>a. row[id].rev = o /\ row[id].sha = p
        BY ONLY <4>2
      <4>3. /\ revs[id][o] = p /\ history[id][o] = NoBody
            /\ \A r \in Revisions : r >= o => history[id][r] = NoBody
        BY <2>h, <4>a, <2>t, SMTT(20)
      <4>4. revs'[id] = [r \in Revisions |-> IF r = t THEN e ELSE revs[id][r]]
        <5>1. revs'[id] = [r \in Revisions |-> IF r = t THEN e
                                               ELSE IF r = o /\ revs[id][r] = NoBody
                                               THEN p ELSE revs[id][r]]
          BY <4>1 DEF DbType
        <5> QED BY <2>t, <4>3, <5>1
      <4>5. revs' \in [Ids -> Snapshots]
        <5>1. revs'[id] \in Snapshots
          BY <2>t, <4>4 DEF Snapshots, Digests
        <5> QED BY <4>1, <5>1 DEF DbType
      <4>6. /\ blocked' \in [Ids -> SUBSET Events] /\ blocked'[id] = blocked[id] \cup {Event(id)}
        BY <4>1, <1>FanoutEffect DEF Operations
      <4>7. DbType'
        <5>1. [rev |-> t, sha |-> e] \in Rows
          BY <2>t DEF Rows
        <5>2. row' \in [Ids -> Rows] /\ receipt' \in [Ids -> {"none", "pending"}]
          BY <4>1, <5>1 DEF DbType, ReserveReceipt
        <5> QED BY <4>1, <4>5, <4>6, <5>2 DEF DbType
      <4>8. FsType' /\ \A j \in Ids \ {id} : SameAt(j)
        BY <4>1 DEF FsType, DbType, SameAt, ReserveReceipt, Fanout
      <4>9. /\ row'[id] = [rev |-> t, sha |-> e] /\ receipt'[id] = "pending"
            /\ blocked'[id] = {Event(id)} /\ revs'[id][t] = e /\ revs'[id][o] = p
        <5>1. blocked[id] = {}
          BY <4>2 DEF UpdateShape
        <5> QED BY <2>t, <4>1, <4>3, <4>4, <4>6, <5>1, SMTT(20) DEF DbType, ReserveReceipt
      <4>10. UpdateShape(id)'
        BY <2>t, <4>1, <4>2, <4>9 DEF UpdateShape, Event, Outgoing, Committed, MetadataOnly
      <4>11. HistoryShape(id)'
        <5>1. \A r \in Revisions : r >= t => history'[id][r] = NoBody
          BY ONLY <2>t, <4>1, <4>3 DEF Revisions
        <5>2. \A r \in Revisions : history'[id][r] # NoBody => revs'[id][r] = revs[id][r]
          BY ONLY <2>t, <4>1, <4>3, <4>4, SMTT(20) DEF Revisions
        <5>3. row'[id].rev = t /\ row'[id].sha = e /\ row'[id] # NoRow
          BY <2>t, <4>9, SMTT(20) DEF NoRow
        <5> QED BY <2>h, <4>1, <4>9, <5>1, <5>2, <5>3, <1>HistoryFrom
      <4>12. UpdateRunning(id)'
        <5>1. ~MetadataOnly(id) => staging[id] = e
          BY DEF UpdateCommit, UpdateRunning
        <5>2. row'[id].rev = intent'[id].target /\ row'[id].sha = intent'[id].expected
          BY ONLY <4>1, <4>9
        <5> QED BY <4>1, <4>2, <4>3, <4>9, <5>1, <5>2 DEF UpdateRunning, Committed, Outgoing,
           MetadataOnly
      <4> QED BY <4>1, <4>7, <4>8, <4>10, <4>11, <4>12, <1>OpenShape DEF LocalKept, UpdateKept
    <3> QED BY <3>1, <3>2
  \* snapshot_body: the replaced body reaches history, or the step compensates.
  <2>4. CASE UpdateSnapshot(id)
    <3> USE <2>4
    <3>1. /\ Committed(id) /\ final[id] = p /\ history[id][o] = NoBody /\ revs[id][o] = p
          /\ ~MetadataOnly(id) => staging[id] = e
      BY DEF UpdateSnapshot, UpdateRunning
    <3>2. CASE UNCHANGED <<final, history>>
      <4>1. cur' = id => pc' \in {"updCopy", "updUndoStaging"}
        BY <2>t, <3>1, <3>2 DEF UpdateSnapshot, FsType
      <4>2. snapTmp' \in [Ids -> {NoBody, Torn}]
        BY DEF UpdateSnapshot, FsType
      <4>3. cur' = id /\ pc' = "updCopy" => MetadataOnly(id)
        BY DEF UpdateSnapshot
      <4>4. cur' = id => UpdateRunning(id)'
        BY <3>1, <3>2, <4>1, <4>3 DEF UpdateSnapshot, UpdateRunning, Committed, Outgoing,
           MetadataOnly
      <4> QED BY <2>q, <3>2, <4>2, <4>4 DEF UpdateSnapshot, FsType
    <3>3. CASE ~UNCHANGED <<final, history>>
      <4>1. /\ ~MetadataOnly(id)
            /\ history' = [history EXCEPT ![id][o] = final[id]]
            /\ final' = [final EXCEPT ![id] = NoBody]
            /\ UNCHANGED <<db, staging, trash, snapTmp, scraps>>
            /\ cur' = id => pc' = "updSwap"
        BY <3>3 DEF UpdateSnapshot
      <4>2. /\ history'[id] = [history[id] EXCEPT ![o] = p] /\ history'[id][o] = p
            /\ final'[id] = NoBody
        BY <2>t, <3>1, <4>1 DEF FsType
      <4>3. history' \in [Ids -> Snapshots] /\ final' \in [Ids -> Digests]
        <5>1. history'[id] \in Snapshots
          BY <2>t, <4>2 DEF Snapshots, Digests
        <5> QED BY <4>1, <5>1 DEF FsType, Digests
      <4>4. DbType' /\ FsType' /\ \A j \in Ids \ {id} : SameAt(j)
        BY <4>1, <4>3 DEF DbType, FsType, SameAt
      <4>5. UpdateShape(id)'
        BY <2>t, <3>1, <4>1, <4>2 DEF UpdateShape, Event, Outgoing, Committed, MetadataOnly
      <4>6. HistoryShape(id)'
        <5>1. row[id].rev = t
          BY <3>1 DEF Committed
        <5>2. \A r \in Revisions : history'[id][r] = IF r = o THEN p ELSE history[id][r]
          BY <2>t, <4>2
        <5>3. \A r \in Revisions : r >= row[id].rev => history'[id][r] = NoBody
          BY ONLY <2>t, <2>h, <5>1, <5>2, SMTT(20)
        <5> QED BY ONLY <2>h, <2>r, <3>1, <4>1, <5>2, <5>3, <1>HistoryFrom, <2>4, <1>UpdateStepKept, SMTT(20)
      <4>7. cur' = id => UpdateRunning(id)'
        BY <3>1, <4>1, <4>2 DEF UpdateRunning, Committed, Outgoing, MetadataOnly
      <4> QED BY <4>1, <4>4, <4>5, <4>6, <4>7, <1>OpenShape DEF LocalKept, UpdateKept
    <3> QED BY <3>2, <3>3
  \* The copy of a metadata-only update lands in a free history slot.
  <2>5. CASE UpdateCopy(id)
    <3> USE <2>5
    <3>1. /\ Committed(id) /\ final[id] = p /\ history[id][o] = NoBody /\ revs[id][o] = p
          /\ MetadataOnly(id)
      BY DEF UpdateCopy, UpdateRunning
    <3>2. CASE UNCHANGED history
      <4>1. pc' = "updUndoStaging" /\ cur' = id /\ UNCHANGED <<db, fs>>
        <5>1. [history EXCEPT ![id][o] = final[id]][id][o] = p
          BY <2>t, <3>1 DEF FsType
        <5>2. [history EXCEPT ![id][o] = final[id]] # history
          BY <2>t, <3>1, <5>1
        <5> QED BY <3>2, <5>2 DEF UpdateCopy
      <4>2. UpdateRunning(id)'
        BY <3>1, <4>1 DEF UpdateRunning, Committed, Outgoing
      <4> QED BY <2>q, <4>1, <4>2 DEF FsType
    <3>3. CASE ~UNCHANGED history
      <4>1. /\ history' = [history EXCEPT ![id][o] = final[id]]
            /\ snapTmp' = [snapTmp EXCEPT ![id] = NoBody]
            /\ UNCHANGED <<db, final, staging, trash, scraps>>
            /\ cur' = id => pc' = "updDurable"
        BY <3>3 DEF UpdateCopy
      <4>2. history'[id] = [history[id] EXCEPT ![o] = p] /\ history'[id][o] = p
        BY <2>t, <3>1, <4>1 DEF FsType
      <4>3. history' \in [Ids -> Snapshots] /\ snapTmp' \in [Ids -> {NoBody, Torn}]
        <5>1. history'[id] \in Snapshots
          BY <2>t, <4>2 DEF Snapshots, Digests
        <5> QED BY <4>1, <5>1 DEF FsType
      <4>4. DbType' /\ FsType' /\ \A j \in Ids \ {id} : SameAt(j)
        BY <4>1, <4>3 DEF DbType, FsType, SameAt
      <4>5. UpdateShape(id)'
        BY <2>t, <3>1, <4>1, <4>2 DEF UpdateShape, Event, Outgoing, Committed, MetadataOnly
      <4>6. HistoryShape(id)'
        <5>1. row[id].rev = t
          BY <3>1 DEF Committed
        <5>2. \A r \in Revisions : history'[id][r] = IF r = o THEN p ELSE history[id][r]
          BY <2>t, <4>2
        <5>3. \A r \in Revisions : r >= row[id].rev => history'[id][r] = NoBody
          BY <2>t, <2>h, <5>1, <5>2, SMTT(20)
        <5> QED BY ONLY <2>h, <2>r, <3>1, <4>1, <5>2, <5>3, <1>HistoryFrom, SMTT(20)
      <4>7. cur' = id => UpdateRunning(id)'
        BY <3>1, <4>1, <4>2 DEF UpdateRunning, Committed, Outgoing, MetadataOnly
      <4> QED BY <4>1, <4>4, <4>5, <4>6, <4>7, <1>OpenShape DEF LocalKept, UpdateKept
    <3> QED BY <3>2, <3>3
  \* swap_body: the staged body becomes live once the old one is in history.
  <2>6. CASE UpdateSwap(id)
    <3> USE <2>6
    <3>1. /\ Committed(id) /\ final[id] = NoBody /\ ~MetadataOnly(id) /\ staging[id] = e
          /\ history[id][o] = p /\ revs[id][o] = p
      BY DEF UpdateSwap, UpdateRunning, UpdateShape
    <3>2. CASE UNCHANGED <<final, staging>>
      <4>1. pc' = "updUndoSnapshot" /\ cur' = id /\ UNCHANGED <<db, fs>>
        BY <2>t, <3>1, <3>2 DEF UpdateSwap, FsType
      <4>2. UpdateRunning(id)'
        BY <3>1, <4>1 DEF UpdateRunning, Committed, Outgoing
      <4> QED BY <2>q, <4>1, <4>2 DEF FsType
    <3>3. CASE ~UNCHANGED <<final, staging>>
      <4>1. /\ final' = [final EXCEPT ![id] = e] /\ staging' = [staging EXCEPT ![id] = NoBody]
            /\ UNCHANGED <<db, trash, snapTmp, history, scraps>>
            /\ cur' = id => pc' = "updDurable"
        BY <3>1, <3>3 DEF UpdateSwap
      <4>2. DbType' /\ FsType' /\ (\A j \in Ids \ {id} : SameAt(j)) /\ final'[id] = e
        BY <2>t, <4>1 DEF DbType, FsType, SameAt, Digests, Paths
      <4>3. UpdateShape(id)'
        BY <2>t, <3>1, <4>1, <4>2 DEF UpdateShape, Event, Outgoing, Committed, MetadataOnly
      <4>4. HistoryShape(id)'
        BY <4>1, <1>HistoryKept
      <4>5. cur' = id => UpdateRunning(id)'
        BY <3>1, <4>1, <4>2 DEF UpdateRunning, Committed, Outgoing, MetadataOnly
      <4> QED BY <4>1, <4>2, <4>3, <4>4, <4>5, <1>OpenShape DEF LocalKept, UpdateKept
    <3> QED BY <3>2, <3>3
  \* Advancing the intent to body_durable changes no file and no row.
  <2>7. CASE UpdateDurable(id)
    <3> USE <2>7
    <3>1. cur' = id => UpdateRunning(id)'
      BY DEF UpdateDurable, UpdateRunning, Committed
    <3> QED BY <2>q, <3>1 DEF UpdateDurable, FsType
  \* prune_history never takes the snapshot of the revision being replaced.
  <2>8. CASE UpdatePrune(id)
    <3> USE <2>8
    <3>1. row[id].rev = t /\ final[id] = e
      BY DEF UpdatePrune, UpdateRunning, Committed
    <3>2. PICK rows \in SUBSET Prunable(id), bodies \in SUBSET Prunable(id) :
             /\ revs' = [revs EXCEPT ![id] =
                           [r \in Revisions |-> IF r \in rows THEN NoBody ELSE revs[id][r]]]
             /\ history' = [history EXCEPT ![id] =
                           [r \in Revisions |-> IF r \in bodies THEN NoBody ELSE history[id][r]]]
      <4>1. PICK keptRows \in SUBSET Prunable(id), keptBodies \in SUBSET Prunable(id) :
               /\ revs' = [revs EXCEPT ![id] =
                             [r \in Revisions |-> IF r \in Prunable(id) \ keptRows
                                                  THEN NoBody ELSE revs[id][r]]]
               /\ history' = [history EXCEPT ![id] =
                                [r \in Revisions |-> IF r \in Prunable(id) \ keptBodies
                                                     THEN NoBody ELSE history[id][r]]]
        BY DEF UpdatePrune
      <4>2. /\ Prunable(id) \ keptRows \in SUBSET Prunable(id)
            /\ Prunable(id) \ keptBodies \in SUBSET Prunable(id)
        OBVIOUS
      <4> QED BY <4>1, <4>2
    <3>3. /\ UNCHANGED <<row, intent, receipt, blocked, announced, ledger,
                         final, staging, trash, snapTmp, scraps>>
          /\ cur' = id /\ pc' = "updFinalize"
      BY DEF UpdatePrune
    <3>4. /\ revs'[id] = [r \in Revisions |-> IF r \in rows THEN NoBody ELSE revs[id][r]]
          /\ history'[id] = [r \in Revisions |-> IF r \in bodies THEN NoBody ELSE history[id][r]]
      BY <3>2 DEF DbType, FsType
    <3>5. revs'[id] \in Snapshots /\ history'[id] \in Snapshots
      <4>1. NoBody \in Digests
        BY DEF Digests
      <4> QED BY <2>t, <3>4, <4>1, SMTT(20) DEF Snapshots
    <3>6. DbType' /\ FsType'
      <4>1. revs' \in [Ids -> Snapshots] /\ history' \in [Ids -> Snapshots]
        BY <3>2, <3>5 DEF DbType, FsType
      <4> QED BY <3>3, <4>1 DEF DbType, FsType
    <3>7. \A j \in Ids \ {id} : SameAt(j)
      BY <3>2, <3>3 DEF DbType, FsType, SameAt
    <3>8. t \notin rows
      <4>1. t \notin Superseded(id)
        BY <2>t, <3>1, SMTT(20) DEF Superseded
      <4> QED BY <4>1 DEF Prunable
    <3>9. MaxHistory > 0 => o \notin bodies
      BY <2>t, <3>1, OutgoingKept
    <3>10. UpdateShape(id)'
      <4>1. MaxHistory > 0 => history'[id][o] = history[id][o]
        BY <2>t, <3>4, <3>9
      <4>2. revs'[id][o] \in {NoBody, p}
        BY <2>t, <3>4 DEF UpdateShape
      <4> QED BY <2>t, <3>1, <3>3, <4>1, <4>2 DEF UpdateShape, Event, Outgoing, Committed,
           MetadataOnly
    <3>11. HistoryShape(id)'
      <4>1. \A r \in Revisions : /\ history'[id][r] \in {NoBody, history[id][r]}
                                 /\ revs'[id][r] \in {NoBody, revs[id][r]}
        BY <2>t, <3>4
      <4>2. revs'[id][t] = revs[id][t]
        BY <2>t, <3>4, <3>8
      <4> QED BY <2>r, <3>1, <3>3, <4>1, <4>2 DEF HistoryShape
    <3>12. UpdateRunning(id)'
      BY <3>1, <3>3 DEF UpdateRunning, Committed, Outgoing, MetadataOnly
    <3> QED BY <3>3, <3>6, <3>7, <3>10, <3>11, <3>12, <1>OpenShape DEF LocalKept, UpdateKept
  \* finalize_audit_and_intent closes an update whose body is live.
  <2>9. CASE UpdateFinalize(id)
    <3> USE <2>9
    <3>1. CASE UNCHANGED db
      BY <2>q, <3>1 DEF UpdateFinalize, FsType
    <3>2. CASE ~UNCHANGED db
      <4>1. Settle(id, "success") /\ cur' = NoId /\ UNCHANGED <<row, revs, fs>>
        BY <3>2 DEF UpdateFinalize
      <4>2. /\ DbType' /\ FsType'
            /\ intent'[id] = NoIntent /\ receipt'[id] = "none" /\ blocked'[id] = {}
            /\ \A j \in Ids \ {id} : SameAt(j)
        BY <4>1, <1>SettleEffect DEF FsType, SameAt, Operations
      <4>3. final[id] = row[id].sha
        BY <2>r DEF UpdateFinalize, UpdateRunning
      <4> QED BY <2>r, <4>1, <4>2, <4>3, <1>CloseKept DEF UpdateKept
    <3> QED BY <3>1, <3>2
  \* restore_snapshot_body puts the replaced body back on its live path.
  <2>10. CASE UpdateUndoSnapshot(id)
    <3> USE <2>10
    <3>1. /\ Committed(id) /\ final[id] = NoBody /\ ~MetadataOnly(id)
          /\ history[id][o] = p /\ revs[id][o] = p
      BY DEF UpdateUndoSnapshot, UpdateRunning, UpdateShape
    <3>2. CASE UNCHANGED <<final, history>>
      <4>1. cur' = NoId /\ UNCHANGED <<db, fs>>
        BY <2>t, <3>1, <3>2 DEF UpdateUndoSnapshot, FsType
      <4> QED BY <2>q, <4>1 DEF FsType
    <3>3. CASE ~UNCHANGED <<final, history>>
      <4>1. /\ final' = [final EXCEPT ![id] = p] /\ history' = [history EXCEPT ![id][o] = NoBody]
            /\ UNCHANGED <<db, staging, trash, snapTmp, scraps>>
            /\ cur' = id => pc' = "updUndoStaging"
        BY <3>1, <3>3 DEF UpdateUndoSnapshot
      <4>2. /\ history'[id] = [history[id] EXCEPT ![o] = NoBody] /\ history'[id][o] = NoBody
            /\ final'[id] = p
        BY <2>t, <3>1, <4>1 DEF FsType
      <4>3. history' \in [Ids -> Snapshots] /\ final' \in [Ids -> Digests]
        <5>1. history'[id] \in Snapshots
          BY <2>t, <4>2 DEF Snapshots, Digests
        <5> QED BY <2>t, <4>1, <5>1 DEF FsType, Digests
      <4>4. DbType' /\ FsType' /\ \A j \in Ids \ {id} : SameAt(j)
        BY <4>1, <4>3 DEF DbType, FsType, SameAt
      <4>5. UpdateShape(id)'
        BY <2>t, <3>1, <4>1, <4>2 DEF UpdateShape, Event, Outgoing, Committed, MetadataOnly
      <4>6. HistoryShape(id)'
        <5>1. \A r \in Revisions : history'[id][r] \in {NoBody, history[id][r]}
          BY <2>t, <4>2
        <5> QED BY <2>h, <2>r, <4>1, <5>1, <1>HistoryFrom
      <4>7. cur' = id => UpdateRunning(id)'
        BY <3>1, <4>1, <4>2 DEF UpdateRunning, Committed, Outgoing, MetadataOnly
      <4> QED BY <4>1, <4>4, <4>5, <4>6, <4>7, <1>OpenShape DEF LocalKept, UpdateKept
    <3> QED BY <3>2, <3>3
  \* The compensation discards the staged body.
  <2>11. CASE UpdateUndoStaging(id)
    <3> USE <2>11
    <3>1. SafeRemoveStaging(id) /\ UNCHANGED <<db, final, trash, snapTmp, history>>
      BY DEF UpdateUndoStaging
    <3>2. cur' = id => UpdateRunning(id)'
      BY <3>1 DEF UpdateUndoStaging, UpdateRunning, Committed, Outgoing
    <3> QED BY <2>q, <3>1, <3>2, <1>SafeRemoveType DEF FsType
  \* revert_update: row and revisions are those from before the update.
  <2>12. CASE UpdateRevert(id)
    <3> USE <2>12
    <3>0. /\ Committed(id) /\ final[id] = p /\ history[id][o] = NoBody
          /\ revs[id][o] = p
      BY DEF UpdateRevert, UpdateRunning
    <3>1. /\ row[id] = [rev |-> t, sha |-> e] /\ row[id].rev = t /\ receipt[id] = "pending"
          /\ final[id] = p /\ history[id][o] = NoBody /\ revs[id][o] = p
      BY <3>0, <2>r DEF UpdateShape
    <3>2. CASE UNCHANGED <<row, revs>>
      <4>1. cur' = NoId /\ UNCHANGED <<db, fs>>
        <5>1. [row EXCEPT ![id] = [rev |-> o, sha |-> p]] # row
          BY <2>t, <3>1, SMTT(20) DEF DbType
        <5> QED BY <3>2, <5>1 DEF UpdateRevert
      <4> QED BY <2>q, <4>1 DEF FsType
    <3>3. CASE ~UNCHANGED <<row, revs>>
      <4>1. /\ row' = [row EXCEPT ![id] = [rev |-> o, sha |-> p]]
            /\ revs' = [revs EXCEPT ![id][t] = NoBody]
            /\ UNCHANGED <<intent, receipt, blocked, announced, ledger, fs>>
            /\ cur' = id /\ pc' = "updUndoTemp"
        BY <3>3 DEF UpdateRevert
      <4>2. /\ row'[id] = [rev |-> o, sha |-> p]
            /\ revs'[id] = [revs[id] EXCEPT ![t] = NoBody] /\ revs'[id][o] = p
        <5>1. row'[id] = [rev |-> o, sha |-> p] /\ revs'[id] = [revs[id] EXCEPT ![t] = NoBody]
          BY <4>1 DEF DbType
        <5> QED BY <2>t, <3>1, <5>1, SMTT(20)
      <4>3. row' \in [Ids -> Rows] /\ revs' \in [Ids -> Snapshots]
        <5>1. revs'[id] \in Snapshots
          BY <2>t, <4>2 DEF Snapshots, Digests
        <5>2. [rev |-> o, sha |-> p] \in Rows
          BY <2>t DEF Rows
        <5> QED BY <4>1, <5>1, <5>2 DEF DbType
      <4>4. DbType' /\ FsType' /\ \A j \in Ids \ {id} : SameAt(j)
        BY <4>1, <4>3 DEF DbType, FsType, SameAt
      <4>5. UpdateShape(id)'
        BY <2>t, <3>1, <4>1, <4>2 DEF UpdateShape, Event, Outgoing, Committed, MetadataOnly
      <4>6. HistoryShape(id)'
        <5>1. \A r \in Revisions : r >= o => history[id][r] = NoBody
          BY <2>h, <2>t, <3>1, SMTT(20) DEF Revisions
        <5>2. \A r \in Revisions : revs'[id][r] \in {NoBody, revs[id][r]}
          BY <2>t, <4>2
        <5>3. row'[id] # NoRow /\ row'[id].rev = o /\ row'[id].sha = p
          BY ONLY <2>t, <4>2, SMTT(20) DEF NoRow
        <5> QED BY ONLY <2>h, <4>1, <4>2, <5>1, <5>2, <5>3, <1>HistoryFrom, SMTT(20)
      <4>7. UpdateRunning(id)'
        BY <2>t, <3>1, <4>1, <4>2, SMTT(20) DEF UpdateRunning, Committed
      <4> QED BY <4>1, <4>4, <4>5, <4>6, <4>7, <1>OpenShape DEF LocalKept, UpdateKept
    <3> QED BY <3>2, <3>3
  \* remove_snapshot_temporary changes only the temporary.
  <2>13. CASE UpdateUndoTemp(id)
    <3> USE <2>13
    <3>1. snapTmp' \in [Ids -> {NoBody, Torn}]
      BY DEF UpdateUndoTemp, FsType
    <3>2. cur' = id => UpdateRunning(id)'
      BY DEF UpdateUndoTemp, UpdateRunning, Committed
    <3> QED BY <2>q, <3>1, <3>2 DEF UpdateUndoTemp, FsType
  \* cancel_compensated_audit_intent closes an update that was undone.
  <2>14. CASE UpdateCancel(id)
    <3> USE <2>14
    <3>1. CASE UNCHANGED db
      BY <2>q, <3>1 DEF UpdateCancel, FsType
    <3>2. CASE ~UNCHANGED db
      <4>1. Settle(id, "failure") /\ cur' = NoId /\ UNCHANGED <<row, revs, fs>>
        BY <3>2 DEF UpdateCancel, Cancel
      <4>2. /\ DbType' /\ FsType'
            /\ intent'[id] = NoIntent /\ receipt'[id] = "none" /\ blocked'[id] = {}
            /\ \A j \in Ids \ {id} : SameAt(j)
        BY <4>1, <1>SettleEffect DEF FsType, SameAt, Operations
      <4>3. final[id] = row[id].sha
        BY <2>r DEF UpdateCancel, UpdateRunning
      <4> QED BY <2>r, <4>1, <4>2, <4>3, <1>CloseKept DEF UpdateKept
    <3> QED BY <3>1, <3>2
  \* An update that never committed discards its staged body.
  <2>15. CASE UpdateDropStaging(id)
    <3> USE <2>15
    <3>1. SafeRemoveStaging(id) /\ UNCHANGED <<db, final, trash, snapTmp, history>>
      BY DEF UpdateDropStaging
    <3>2. cur' = id => UpdateRunning(id)'
      BY <3>1 DEF UpdateDropStaging, UpdateRunning, Committed, Outgoing
    <3> QED BY <2>q, <3>1, <3>2, <1>SafeRemoveType DEF FsType
  \* finish_durability_intent closes an update that never committed.
  <2>16. CASE UpdateDropIntent(id)
    <3> USE <2>16
    <3>1. CASE UNCHANGED intent
      BY <2>q, <3>1 DEF UpdateDropIntent, FsType
    <3>2. CASE ~UNCHANGED intent
      <4>1. /\ intent' = [intent EXCEPT ![id] = NoIntent] /\ cur' = NoId
            /\ UNCHANGED <<row, revs, receipt, blocked, announced, ledger, fs>>
        BY <3>2 DEF UpdateDropIntent, FinishIntent
      <4>2. receipt[id] = "none" /\ blocked[id] = {} /\ final[id] = row[id].sha
        <5>1. receipt[id] = "none" /\ ~Committed(id)
          BY DEF UpdateDropIntent, UpdateRunning
        <5> QED BY <2>r, <5>1 DEF UpdateShape
      <4>3. /\ DbType' /\ FsType' /\ \A j \in Ids \ {id} : SameAt(j)
            /\ intent'[id] = NoIntent
        BY <4>1 DEF DbType, FsType, SameAt, Intents
      <4> QED BY <2>r, <4>1, <4>2, <4>3, <1>CloseKept DEF UpdateKept
    <3> QED BY <3>1, <3>2
  <2> QED BY <2>1, <2>2, <2>3, <2>4, <2>5, <2>6, <2>7, <2>8, <2>9,
     <2>10, <2>11, <2>12, <2>13, <2>14, <2>15, <2>16, ZenonT(40) DEF UpdateStep

\* Every update step preserves the inductive invariant.
<1>UpdateStepInv.
  ASSUME IndInv, NEW id \in Ids, UpdateStep(id)
  PROVE  IndInv'
  <2> USE <1>UpdateStepInv
  <2>1. /\ DbType /\ FsType /\ HistoryShape(id)
        /\ UpdateShape(id) /\ UpdateRunning(id) /\ intent[id].op = "update"
    BY UpdateControl DEF IndInv, TypeOK, Shape, Running
  <2>2. UpdateKept(id)
    BY <2>1, <1>UpdateStepKept
  <2>3. cur' = id => Running(id)'
    BY <2>2, UpdateControl DEF UpdateKept, Running, PublishSteps, UpdateSteps, DeleteSteps
  <2> QED BY <2>2, <2>3, UpdateControl, <1>LocalStep DEF UpdateKept, LocalKept

\* Closing an intent during reconciliation: Complete.
<1>CompleteKept.
  ASSUME NEW id \in Ids, NEW result \in {"success", "recovered", "failure"},
         DbType, FsType, HistoryShape(id), intent[id].op \in Operations,
         Complete(id, result), UNCHANGED <<row, revs, final, snapTmp, history>>,
         row[id] = NoRow \/ final[id] = row[id].sha,
         row[id] # NoRow \/ intent[id].op # "delete" \/ history[id] = NoHistory
  PROVE  LocalKept(id)
  <2> USE <1>CompleteKept
  <2>1. Settle(id, result)
    BY DEF Complete
  <2>2. /\ DbType' /\ intent'[id] = NoIntent /\ receipt'[id] = "none" /\ blocked'[id] = {}
        /\ \A j \in Ids \ {id} : /\ intent'[j] = intent[j] /\ receipt'[j] = receipt[j]
                                 /\ blocked'[j] = blocked[j]
    BY <2>1, <1>SettleEffect
  <2>3. /\ Scrap("staging", staging[id]) \in SUBSET Scraps
        /\ Scrap("trash", trash[id]) \in SUBSET Scraps
    BY SMTT(20) DEF FsType, Scrap, Scraps, Paths, Digests
  <2>4. /\ staging' \in [Ids -> Paths] /\ trash' \in [Ids -> Digests] /\ trash'[id] = NoBody
        /\ \A j \in Ids \ {id} : trash'[j] = trash[j]
    BY DEF Complete, FsType, Paths, Digests
  <2>5. scraps' \in [Ids -> SUBSET Scraps]
    BY <2>3 DEF Complete, FsType
  <2>6. FsType'
    BY <2>4, <2>5 DEF FsType
  <2>7. \A j \in Ids \ {id} : SameAt(j)
    BY <2>2, <2>4 DEF SameAt
  <2> QED BY <2>2, <2>4, <2>6, <2>7, <1>CloseKept

\* A publish or an update whose body is live: FinishCurrentBody.
<1>FinishCurrentBodyKept.
  ASSUME NEW id \in Ids, NEW w, NEW result \in {"recovered", "failure"},
         DbType, FsType, Shape(id), HistoryShape(id),
         intent[id].op \in {"publish", "update"}, row[id] # NoRow,
         final[id] = intent[id].expected, FinishCurrentBody(id, w, result)
  PROVE  LocalKept(id)
  <2> USE <1>FinishCurrentBodyKept
  <2> DEFINE p   == intent[id].prior
             out == row[id].rev - 1
  <2>1. final[id] = row[id].sha
    <3>1. CASE intent[id].op = "publish"
      BY <3>1, SMTT(20) DEF Shape, PublishShape
    <3>2. CASE intent[id].op = "update"
      BY <3>2, UpdateRowCases DEF Shape
    <3> QED BY <3>1, <3>2
  <2>2. \/ UNCHANGED <<db, fs>>
        \/ /\ snapTmp' = [snapTmp EXCEPT ![id] = NoBody]
           /\ UNCHANGED <<db, final, staging, trash, history, scraps>>
        \/ /\ Classify(id) = "committed" /\ history[id][out] = NoBody /\ revs[id][out] # NoBody
           /\ history' = [history EXCEPT ![id][out] = final[id]]
           /\ UNCHANGED <<db, final, staging, trash, snapTmp, scraps>>
        \/ /\ Complete(id, IF Classify(id) = "reverted" THEN "failure" ELSE result)
           /\ UNCHANGED <<row, revs, final, snapTmp, history>>
    BY DEF FinishCurrentBody
  <2>3. CASE UNCHANGED <<db, fs>>
    BY <2>3, <1>QuietKept DEF FsType
  <2>4. CASE /\ snapTmp' = [snapTmp EXCEPT ![id] = NoBody]
             /\ UNCHANGED <<db, final, staging, trash, history, scraps>>
    BY <2>4, <1>QuietKept DEF FsType
  <2>5. CASE /\ Classify(id) = "committed" /\ history[id][out] = NoBody /\ revs[id][out] # NoBody
             /\ history' = [history EXCEPT ![id][out] = final[id]]
             /\ UNCHANGED <<db, final, staging, trash, snapTmp, scraps>>
    <3>1. /\ intent[id].op = "update" /\ MetadataOnly(id) /\ row[id].sha = p /\ Committed(id)
      BY <2>5 DEF Classify
    <3>2. UpdateShape(id)
      BY <3>1 DEF Shape
    <3>3. /\ out = Outgoing(id) /\ out \in Revisions /\ final[id] = p /\ revs[id][out] = p
          /\ out < row[id].rev /\ p \in Bodies
      BY <2>1, <2>5, <3>1, <3>2, UpdateRowCases DEF UpdateShape
    <3>4. history[id] \in [Revisions -> Digests] /\ history \in [Ids -> Snapshots]
      BY DEF FsType, Snapshots
    <3>5. history'[id] = [history[id] EXCEPT ![out] = p] /\ history'[id][out] = p
      BY <2>5, <3>3, <3>4
    <3>6. history'[id] \in Snapshots
      BY <3>3, <3>4, <3>5 DEF Snapshots, Digests
    <3>7. history' \in [Ids -> Snapshots] /\ \A j \in Ids \ {id} : history'[j] = history[j]
      BY <2>5, <3>4, <3>6
    <3>8. DbType' /\ FsType' /\ \A j \in Ids \ {id} : SameAt(j)
      BY <2>5, <3>7 DEF DbType, FsType, SameAt
    <3>9. UpdateShape(id)'
      BY <2>5, <3>2, <3>3, <3>5 DEF UpdateShape, Event, Outgoing, Committed, MetadataOnly
    <3>10. HistoryShape(id)'
      <4>1. \A r \in Revisions : history'[id][r] = IF r = out THEN p ELSE history[id][r]
        BY <3>3, <3>4, <3>5
      <4>2. /\ revs[id][row[id].rev] = row[id].sha
            /\ \A r \in Revisions : r >= row[id].rev => history[id][r] = NoBody
            /\ \A r \in Revisions :
                 history[id][r] # NoBody /\ revs[id][r] # NoBody => history[id][r] = revs[id][r]
        BY DEF HistoryShape
      <4>n. row[id].rev \in Int
        BY RowTypes
      <4>3. \A r \in Revisions : r >= row[id].rev => r # out
        BY <4>n, SMTT(20) DEF Revisions
      <4> QED BY <2>5, <3>3, <4>1, <4>2, <4>3, <1>HistoryFrom
    <3> QED BY <2>5, <3>1, <3>8, <3>9, <3>10, <1>OpenShape DEF LocalKept
  <2>6. CASE /\ Complete(id, IF Classify(id) = "reverted" THEN "failure" ELSE result)
             /\ UNCHANGED <<row, revs, final, snapTmp, history>>
    BY <2>1, <2>6, <1>CompleteKept DEF Operations
  <2> QED BY <2>2, <2>3, <2>4, <2>5, <2>6

\* Reconciliation of a delete: the clean-up is finished or the intent closed.
<1>RecoverDeleteKept.
  ASSUME NEW id \in Ids, NEW w, DbType, FsType, Shape(id), HistoryShape(id),
         intent[id].op = "delete", RecoverDelete(id, w)
  PROVE  LocalKept(id)
  <2> USE <1>RecoverDeleteKept
  <2>1. DeleteShape(id)
    BY DEF Shape
  <2>2. CASE /\ row[id] = NoRow /\ trash' = [trash EXCEPT ![id] = NoBody]
             /\ UNCHANGED <<db, final, staging, snapTmp, history, scraps>>
    <3>1. /\ trash' \in [Ids -> Digests] /\ trash'[id] = NoBody
          /\ \A j \in Ids \ {id} : trash'[j] = trash[j]
      BY <2>2 DEF FsType, Digests
    <3>2. DbType' /\ FsType' /\ \A j \in Ids \ {id} : SameAt(j)
      BY <2>2, <3>1 DEF DbType, FsType, SameAt
    <3>3. DeleteShape(id)'
      BY <2>1, <2>2, <3>1 DEF DeleteShape, Event
    <3>4. HistoryShape(id)'
      BY <2>2, <1>HistoryKept
    <3> QED BY <2>2, <3>2, <3>3, <3>4, <1>OpenShape DEF LocalKept
  <2>3. CASE /\ row[id] = NoRow /\ history' = [history EXCEPT ![id] = NoHistory]
             /\ UNCHANGED <<db, final, staging, trash, snapTmp, scraps>>
    <3>1. NoHistory \in Snapshots
      BY DEF NoHistory, Snapshots, Digests
    <3>2. /\ history' \in [Ids -> Snapshots] /\ history'[id] = NoHistory
          /\ \A j \in Ids \ {id} : history'[j] = history[j]
      BY <2>3, <3>1 DEF FsType
    <3>3. DbType' /\ FsType' /\ \A j \in Ids \ {id} : SameAt(j)
      BY <2>3, <3>2 DEF DbType, FsType, SameAt
    <3>4. DeleteShape(id)'
      BY <2>1, <2>3 DEF DeleteShape, Event
    <3>5. HistoryShape(id)'
      BY <2>3, <3>2 DEF HistoryShape, NoHistory
    <3> QED BY <2>3, <3>3, <3>4, <3>5, <1>OpenShape DEF LocalKept
  <2>4. CASE /\ row[id] = NoRow => history[id] = NoHistory
             /\ row[id] = NoRow \/ final[id] = intent[id].prior
             /\ Complete(id, IF row[id] = NoRow THEN "recovered" ELSE "failure")
             /\ UNCHANGED <<row, revs, final, snapTmp, history>>
    <3>1. row[id] = NoRow \/ final[id] = row[id].sha
      BY <2>1, <2>4, SMTT(20) DEF DeleteShape
    <3> QED BY <2>4, <3>1, <1>CompleteKept DEF Operations
  <2>5. CASE UNCHANGED <<db, fs>>
    BY <2>5, <1>QuietKept DEF FsType
  <2> QED BY <2>2, <2>3, <2>4, <2>5 DEF RecoverDelete

\* Between mutations, a step that keeps the invariant at one artifact keeps it.
<1>PhaseStep.
  ASSUME IndInv, NEW id \in Ids, LocalKept(id), CtlType', cur' = NoId, pc' \in Phases
  PROVE  IndInv'
  <2> USE <1>PhaseStep
  <2>1. (cur = NoId <=> pc \in Phases)' /\ cur' \in {id, NoId} /\ ~(cur' = id)
    OBVIOUS
  <2> QED BY <2>1, <1>LocalStep DEF LocalKept

\* A step that moves no body and touches no row.
<1>PhaseQuiet.
  ASSUME IndInv, UNCHANGED <<db, fs>>, CtlType', cur' = NoId, pc' \in Phases
  PROVE  IndInv'
  <2> USE <1>PhaseQuiet
  <2>1. DbType' /\ FsType'
    BY DEF IndInv, TypeOK, DbType, FsType
  <2>2. ASSUME NEW j \in Ids PROVE Shape(j)' /\ HistoryShape(j)'
    <3>1. SameAt(j)
      BY DEF SameAt
    <3> QED BY <3>1, <1>Frame DEF IndInv
  <2> QED BY <2>1, <2>2 DEF IndInv, TypeOK

\* recover_prepared_intent.
<1>RecoverIntentInv.
  ASSUME IndInv, NEW w \in todo, RecoverIntent(w)
  PROVE  IndInv'
  <2> USE <1>RecoverIntentInv
  <2> DEFINE id == w.id
  <2>1. id \in Ids /\ CtlType /\ DbType /\ FsType /\ Shape(id) /\ HistoryShape(id)
    BY WorkTypes DEF IndInv, TypeOK
  <2>2. pc = "recover" /\ cur = NoId /\ UNCHANGED <<cur, pc>>
    BY DEF RecoverIntent, IndInv, Phases
  <2>3. todo' \subseteq todo /\ faults' \in 0..MaxFaults
    <3>1. todo' \subseteq todo
      BY DEF RecoverIntent, AbortCurrentBody, RecoverDelete, FinishCurrentBody, Done
    <3>2. faults' = faults \/ (faults < MaxFaults /\ faults' = faults + 1)
      BY DEF RecoverIntent, AbortCurrentBody
    <3>3. faults \in 0..MaxFaults
      BY <2>1 DEF CtlType
    <3> QED BY <3>1, <3>2, <3>3, SMTT(20)
  <2>4. CtlType' /\ cur' = NoId /\ pc' \in Phases
    BY <2>1, <2>2, <2>3 DEF CtlType, Phases
  <2>5. CASE UNCHANGED <<db, fs>>
    BY <2>4, <2>5, <1>PhaseQuiet
  <2>6. CASE /\ intent[id].op # "delete" /\ row[id] # NoRow /\ row[id].sha = intent[id].prior
             /\ final[id] = intent[id].prior /\ AbortCurrentBody(id, w)
    <3>1. intent[id].op \in Operations
      <4>1. row[id].sha # NoBody
        BY <2>1, <2>6, RowTypes
      <4>2. intent[id] # NoIntent
        BY <2>6, <4>1, SMTT(20) DEF NoIntent
      <4> QED BY <2>1, <4>2, IntentTypes
    <3>2. CASE /\ staging' = [staging EXCEPT ![id] = NoBody]
               /\ UNCHANGED <<db, final, trash, snapTmp, history, scraps>>
      <4>1. staging' \in [Ids -> Paths]
        BY <2>1, <3>2 DEF FsType, Paths, Digests
      <4>2. LocalKept(id)
        BY <2>1, <3>2, <4>1, <1>QuietKept DEF FsType
      <4> QED BY <2>1, <2>4, <4>2, <1>PhaseStep
    <3>3. CASE Complete(id, "failure") /\ UNCHANGED <<row, revs, final, snapTmp, history>>
      <4>1. LocalKept(id)
        BY <2>1, <2>6, <3>1, <3>3, <1>CompleteKept
      <4> QED BY <2>1, <2>4, <4>1, <1>PhaseStep
    <3> QED BY <2>6, <3>2, <3>3 DEF AbortCurrentBody
  <2>7. CASE intent[id].op = "delete" /\ RecoverDelete(id, w)
    <3>1. LocalKept(id)
      BY <2>1, <2>7, <1>RecoverDeleteKept
    <3> QED BY <2>1, <2>4, <3>1, <1>PhaseStep
  <2>8. CASE /\ row[id] = NoRow /\ intent[id].op = "publish" /\ Complete(id, "failure")
             /\ UNCHANGED <<row, revs, final, snapTmp, history>>
    <3>1. LocalKept(id)
      BY <2>1, <2>8, <1>CompleteKept DEF Operations
    <3> QED BY <2>1, <2>4, <3>1, <1>PhaseStep
  <2>9. CASE /\ intent[id].op # "delete" /\ row[id] # NoRow /\ final[id] = intent[id].expected
             /\ FinishCurrentBody(id, w, "recovered")
    <3>1. intent[id].op \in {"publish", "update"}
      <4>1. CASE intent[id] = NoIntent
        <5>1. final[id] = row[id].sha /\ final[id] = NoBody
          BY <2>1, <2>9, <4>1, SMTT(20) DEF Shape, ClosedShape, NoIntent
        <5> QED BY <2>1, <2>9, <5>1, RowTypes
      <4>2. CASE intent[id] # NoIntent
        BY <2>1, <2>9, <4>2, IntentTypes DEF Operations
      <4> QED BY <4>1, <4>2
    <3>2. LocalKept(id)
      BY <2>1, <2>9, <3>1, <1>FinishCurrentBodyKept
    <3> QED BY <2>1, <2>4, <3>2, <1>PhaseStep
  <2> QED BY <2>5, <2>6, <2>7, <2>8, <2>9 DEF RecoverIntent

\* resolve_durability_intents.
<1>ResolveIntentInv.
  ASSUME IndInv, NEW w \in todo, ResolveIntent(w)
  PROVE  IndInv'
  <2> USE <1>ResolveIntentInv
  <2> DEFINE id == w.id
  <2>1. id \in Ids /\ CtlType /\ DbType /\ FsType /\ Shape(id) /\ HistoryShape(id)
    BY WorkTypes DEF IndInv, TypeOK
  <2>2. pc = "resolve" /\ cur = NoId /\ UNCHANGED <<cur, pc, faults>>
    BY DEF ResolveIntent, IndInv, Phases
  <2>3. todo' \subseteq todo
    BY DEF ResolveIntent, FinishCurrentBody, Done
  <2>4. CtlType' /\ cur' = NoId /\ pc' \in Phases
    BY <2>1, <2>2, <2>3 DEF CtlType, Phases
  <2>5. CASE UNCHANGED <<db, fs>>
    BY <2>4, <2>5, <1>PhaseQuiet
  <2>6. CASE /\ \/ /\ intent[id].op = "delete"
                   /\ IF row[id] # NoRow THEN final[id] = intent[id].prior
                      ELSE history[id] = NoHistory
                \/ intent[id].op = "publish" /\ row[id] = NoRow
             /\ Complete(id, IF row[id] # NoRow THEN "failure" ELSE "recovered")
             /\ UNCHANGED <<row, revs, final, snapTmp, history>>
    <3>1. row[id] = NoRow \/ final[id] = row[id].sha
      <4>1. CASE row[id] # NoRow
        <5>1. intent[id].op = "delete" /\ final[id] = intent[id].prior
          BY <2>6, <4>1
        <5>2. DeleteShape(id)
          BY <2>1, <5>1 DEF Shape
        <5>3. row[id] = [rev |-> intent[id].target, sha |-> intent[id].prior]
          BY <4>1, <5>2 DEF DeleteShape
        <5> QED BY <5>1, <5>3, SMTT(20)
      <4> QED BY <4>1
    <3>2. LocalKept(id)
      BY <2>1, <2>6, <3>1, <1>CompleteKept DEF Operations
    <3> QED BY <2>1, <2>4, <3>2, <1>PhaseStep
  <2>7. CASE /\ intent[id].op # "delete" /\ row[id] # NoRow /\ final[id] = intent[id].expected
             /\ FinishCurrentBody(id, w, IF row[id].sha = intent[id].prior /\ ~MetadataOnly(id)
                                         THEN "failure" ELSE "recovered")
    <3>1. intent[id].op \in {"publish", "update"}
      <4>1. CASE intent[id] = NoIntent
        <5>1. final[id] = row[id].sha /\ final[id] = NoBody
          BY <2>1, <2>7, <4>1, SMTT(20) DEF Shape, ClosedShape, NoIntent
        <5> QED BY <2>1, <2>7, <5>1, RowTypes
      <4>2. CASE intent[id] # NoIntent
        BY <2>1, <2>7, <4>2, IntentTypes DEF Operations
      <4> QED BY <4>1, <4>2
    <3>2. LocalKept(id)
      BY <2>1, <2>7, <3>1, <1>FinishCurrentBodyKept
    <3> QED BY <2>1, <2>4, <3>2, <1>PhaseStep
  <2> QED BY <2>5, <2>6, <2>7 DEF ResolveIntent

\* A transient path that goes away changes neither rows nor live bodies.
<1>TakeTypes.
  ASSUME FsType, NEW w, w.id \in Ids, TakeTransient(w)
  PROVE  /\ staging' \in [Ids -> Paths] /\ scraps' \in [Ids -> SUBSET Scraps]
         /\ trash' \in [Ids -> Digests] /\ trash'[w.id] \in {trash[w.id], NoBody}
         /\ \A j \in Ids \ {w.id} : trash'[j] = trash[j]
         /\ w.scrap => trash' = trash
  <2> USE <1>TakeTypes
  <2>1. staging' \in [Ids -> Paths]
    BY DEF TakeTransient, FsType, Paths, Digests
  <2>2. scraps' \in [Ids -> SUBSET Scraps]
    BY DEF TakeTransient, FsType
  <2>3. /\ trash' \in [Ids -> Digests] /\ trash'[w.id] \in {trash[w.id], NoBody}
        /\ \A j \in Ids \ {w.id} : trash'[j] = trash[j]
    BY DEF TakeTransient, FsType, Digests
  <2>4. w.scrap => trash' = trash
    BY DEF TakeTransient, FsType
  <2> QED BY <2>1, <2>2, <2>3, <2>4

\* Discarding a transient path of an artifact whose body is in place.
<1>DiscardKept.
  ASSUME NEW w, w.id \in Ids, DbType, FsType, Shape(w.id), HistoryShape(w.id),
         row[w.id] = NoRow => w.scrap, row[w.id] # NoRow => final[w.id] # NoBody,
         DiscardTransient(w)
  PROVE  LocalKept(w.id)
  <2> USE <1>DiscardKept
  <2> DEFINE id == w.id
  <2>1. CASE UNCHANGED <<staging, trash, scraps>>
    BY <2>1, <1>QuietKept DEF DiscardTransient, FsType
  <2>2. CASE TakeTransient(w)
    <3>1. /\ staging' \in [Ids -> Paths] /\ scraps' \in [Ids -> SUBSET Scraps]
          /\ trash' \in [Ids -> Digests] /\ trash'[id] \in {trash[id], NoBody}
          /\ \A j \in Ids \ {id} : trash'[j] = trash[j]
          /\ w.scrap => trash' = trash
      BY <2>2, <1>TakeTypes
    <3>2. UNCHANGED <<db, final, snapTmp, history>>
      BY DEF DiscardTransient
    <3>3. DbType' /\ FsType' /\ \A j \in Ids \ {id} : SameAt(j)
      BY <3>1, <3>2 DEF DbType, FsType, SameAt
    <3>4. HistoryShape(id)'
      BY <3>2, <1>HistoryKept
    <3>5. row[id] = NoRow => trash' = trash
      BY <3>1
    <3>6. Shape(id)'
      <4>1. CASE intent[id].op # "delete"
        <5>1. trash[id] = NoBody
          BY <4>1, IntentTypes DEF Shape, ClosedShape, PublishShape, UpdateShape, Operations
        <5>2. SameAt(id)
          BY <3>1, <3>2, <5>1 DEF SameAt
        <5> QED BY <5>2, <1>Frame
      <4>2. CASE intent[id].op = "delete"
        BY <3>1, <3>2, <3>5, <4>2, <1>OpenShape DEF Shape, DeleteShape, Event
      <4> QED BY <4>1, <4>2
    <3> QED BY <3>3, <3>4, <3>6 DEF LocalKept
  <2> QED BY <2>1, <2>2 DEF DiscardTransient

\* Installing the transient body that the row names: the live path is empty, or
\* holds the outgoing body of an update that history already has.
<1>InstallKept.
  ASSUME NEW w, w.id \in Ids, DbType, FsType, Shape(w.id), HistoryShape(w.id),
         row[w.id] # NoRow, w.body = row[w.id].sha, final[w.id] # row[w.id].sha,
         \/ final[w.id] = NoBody
         \/ /\ revs[w.id][row[w.id].rev - 1] # NoBody
            /\ history[w.id][row[w.id].rev - 1] # NoBody,
         InstallTransient(w)
  PROVE  LocalKept(w.id)
  <2> USE <1>InstallKept
  <2> DEFINE id == w.id
  <2>1. row[id].sha \in Bodies /\ row[id].sha # NoBody
    BY RowTypes
  <2>2. /\ staging' \in [Ids -> Paths] /\ scraps' \in [Ids -> SUBSET Scraps]
        /\ trash' \in [Ids -> Digests] /\ trash'[id] \in {trash[id], NoBody}
        /\ \A j \in Ids \ {id} : trash'[j] = trash[j]
    BY <1>TakeTypes DEF InstallTransient
  <2>3. final' = [final EXCEPT ![id] = row[id].sha] /\ UNCHANGED <<db, snapTmp, history>>
    BY DEF InstallTransient
  <2>4. /\ final' \in [Ids -> Digests] /\ final'[id] = row[id].sha
        /\ \A j \in Ids \ {id} : final'[j] = final[j]
    BY <2>1, <2>3 DEF FsType, Digests
  <2>5. DbType' /\ FsType' /\ \A j \in Ids \ {id} : SameAt(j)
    BY <2>2, <2>3, <2>4 DEF DbType, FsType, SameAt
  <2>6. HistoryShape(id)'
    BY <2>3, <1>HistoryKept
  <2>7. Shape(id)'
    <3>1. CASE intent[id] = NoIntent
      BY <3>1 DEF Shape, ClosedShape, NoIntent
    <3>2. CASE intent[id].op = "publish"
      <4>0. PublishShape(id) /\ row[id] = [rev |-> 1, sha |-> intent[id].expected]
        BY <3>2 DEF Shape, PublishShape
      <4>1. PublishShape(id) /\ row[id].sha = intent[id].expected
        BY ONLY <4>0
      <4>2. trash'[id] = NoBody
        BY <2>2, <4>1 DEF PublishShape
      <4>3. PublishShape(id)'
        BY <2>3, <2>4, <4>1, <4>2 DEF PublishShape, Event
      <4> QED BY <2>3, <3>2, <4>3, <1>OpenShape
    <3>3. CASE intent[id].op = "update"
      <4>1. UpdateShape(id)
        BY <3>3 DEF Shape
      <4>2. Committed(id) /\ row[id].sha = intent[id].expected /\ row[id].rev - 1 = Outgoing(id)
        BY <3>3, <4>1, UpdateRowCases
      <4>3. history[id][Outgoing(id)] = intent[id].prior
        <5>1. CASE final[id] = NoBody
          BY <4>1, <5>1 DEF UpdateShape
        <5>2. CASE final[id] # NoBody
          <6>1. Outgoing(id) \in Revisions
            BY <3>3, <4>1, UpdateRowCases
          <6>2. revs[id][Outgoing(id)] # NoBody /\ history[id][Outgoing(id)] # NoBody
            BY <4>2, <5>2
          <6>3. history[id][Outgoing(id)] = revs[id][Outgoing(id)]
            BY <6>1, <6>2 DEF HistoryShape
          <6> QED BY <4>1, <6>2, <6>3 DEF UpdateShape
        <5> QED BY <5>1, <5>2
      <4>4. UpdateShape(id)'
        BY <2>1, <2>2, <2>3, <2>4, <4>1, <4>2, <4>3 DEF UpdateShape, Event, Outgoing,
           Committed, MetadataOnly
      <4> QED BY <2>3, <3>3, <4>4, <1>OpenShape
    <3>4. CASE intent[id].op = "delete"
      <4>1. DeleteShape(id) /\ row[id].sha = intent[id].prior
        BY <3>4, SMTT(20) DEF Shape, DeleteShape
      <4>2. trash'[id] \in {NoBody, intent[id].prior}
        BY <2>2, <4>1 DEF DeleteShape
      <4>3. DeleteShape(id)'
        BY <2>1, <2>3, <2>4, <4>1, <4>2 DEF DeleteShape, Event
      <4> QED BY <2>3, <3>4, <4>3, <1>OpenShape
    <3> QED BY <3>1, <3>2, <3>3, <3>4, IntentTypes DEF Operations
  <2> QED BY <2>5, <2>6, <2>7 DEF LocalKept

\* The outgoing body of a committed update reaches history before its
\* replacement is installed.
<1>PreserveKept.
  ASSUME NEW id \in Ids, DbType, FsType, Shape(id), HistoryShape(id),
         row[id] # NoRow, final[id] # NoBody, final[id] # row[id].sha,
         revs[id][row[id].rev - 1] # NoBody, history[id][row[id].rev - 1] = NoBody,
         PreserveOutgoing(id)
  PROVE  LocalKept(id)
  <2> USE <1>PreserveKept
  <2> DEFINE p == intent[id].prior
             o == Outgoing(id)
  <2>1. intent[id].op = "update" /\ UpdateShape(id)
    <3>1. intent[id] # NoIntent
      BY DEF Shape, ClosedShape
    <3>2. intent[id].op # "publish"
      BY ONLY <1>PreserveKept, SMTT(20) DEF Shape, PublishShape
    <3>3. intent[id].op # "delete"
      BY SMTT(20) DEF Shape, DeleteShape
    <3> QED BY <3>1, <3>2, <3>3, IntentTypes DEF Operations, Shape
  <2>2. /\ Committed(id) /\ row[id].sha = intent[id].expected /\ row[id].rev - 1 = o
        /\ o \in Revisions /\ row[id].rev = intent[id].target /\ o < row[id].rev
    BY <2>1, UpdateRowCases
  <2>3. final[id] = p /\ p \in Bodies /\ ~MetadataOnly(id) /\ revs[id][o] = p
    BY <2>1, <2>2 DEF UpdateShape, MetadataOnly
  <2>4. /\ history' = [history EXCEPT ![id][o] = p] /\ final' = [final EXCEPT ![id] = NoBody]
        /\ UNCHANGED <<db, staging, trash, snapTmp, scraps>>
    BY <2>2, <2>3 DEF PreserveOutgoing
  <2>5. history[id] \in [Revisions -> Digests] /\ history \in [Ids -> Snapshots]
    BY DEF FsType, Snapshots
  <2>6. history'[id] = [history[id] EXCEPT ![o] = p] /\ history'[id][o] = p
    BY <2>2, <2>4, <2>5
  <2>7. history'[id] \in Snapshots
    BY <2>2, <2>3, <2>5, <2>6 DEF Snapshots, Digests
  <2>8. /\ history' \in [Ids -> Snapshots] /\ \A j \in Ids \ {id} : history'[j] = history[j]
        /\ final' \in [Ids -> Digests] /\ final'[id] = NoBody
        /\ \A j \in Ids \ {id} : final'[j] = final[j]
    BY <2>4, <2>5, <2>7 DEF FsType, Digests
  <2>9. DbType' /\ FsType' /\ \A j \in Ids \ {id} : SameAt(j)
    BY <2>4, <2>8 DEF DbType, FsType, SameAt
  <2>10. UpdateShape(id)'
    BY <2>1, <2>2, <2>3, <2>4, <2>6, <2>8 DEF UpdateShape, Event, Outgoing, Committed,
       MetadataOnly
  <2>11. HistoryShape(id)'
    <3>1. \A r \in Revisions : history'[id][r] = IF r = o THEN p ELSE history[id][r]
      BY <2>2, <2>5, <2>6
    <3>2. /\ revs[id][row[id].rev] = row[id].sha
          /\ \A r \in Revisions : r >= row[id].rev => history[id][r] = NoBody
          /\ \A r \in Revisions :
               history[id][r] # NoBody /\ revs[id][r] # NoBody => history[id][r] = revs[id][r]
      BY DEF HistoryShape
    <3>3. \A r \in Revisions : r >= row[id].rev => r # o
      <4>1. row[id].rev \in Int
        BY RowTypes
      <4> QED BY <2>2, <4>1, SMTT(20) DEF Revisions
    <3> QED BY <2>3, <2>4, <3>1, <3>2, <3>3, <1>HistoryFrom
  <2> QED BY <2>1, <2>4, <2>9, <2>10, <2>11, <1>OpenShape DEF LocalKept

\* reconcile_transient.
<1>SweepTransientInv.
  ASSUME IndInv, NEW w \in todo, SweepTransient(w)
  PROVE  IndInv'
  <2> USE <1>SweepTransientInv
  <2> DEFINE id == w.id
  <2>1. id \in Ids /\ CtlType /\ DbType /\ FsType /\ Shape(id) /\ HistoryShape(id)
    BY WorkTypes DEF IndInv, TypeOK
  <2>2. pc = "sweep" /\ cur = NoId /\ UNCHANGED <<cur, pc>>
    BY DEF SweepTransient, IndInv, Phases
  <2>3. todo' \subseteq todo /\ faults' \in 0..MaxFaults
    <3>1. todo' \subseteq todo
      BY DEF SweepTransient, DiscardTransient, KeepTransient, InstallTransient,
                   PreserveOutgoing, Done
    <3>2. faults' = faults \/ (faults < MaxFaults /\ faults' = faults + 1)
      BY DEF SweepTransient, DiscardTransient, KeepTransient, InstallTransient,
                   PreserveOutgoing
    <3>3. faults \in 0..MaxFaults
      BY <2>1 DEF CtlType
    <3> QED BY <3>1, <3>2, <3>3, SMTT(20)
  <2>4. CtlType' /\ cur' = NoId /\ pc' \in Phases
    BY <2>1, <2>2, <2>3 DEF CtlType, Phases
  <2>5. CASE KeepTransient(w)
    BY <2>4, <2>5, <1>PhaseQuiet DEF KeepTransient
  <2>6. CASE /\ row[id] = NoRow => w.scrap
             /\ row[id] # NoRow => final[id] # NoBody
             /\ DiscardTransient(w)
    <3>1. LocalKept(id)
      BY <2>1, <2>6, <1>DiscardKept
    <3> QED BY <2>1, <2>4, <3>1, <1>PhaseStep
  <2>7. CASE /\ row[id] # NoRow /\ w.body = row[id].sha /\ InstallTransient(w)
             /\ \/ final[id] = NoBody
                \/ /\ final[id] # row[id].sha /\ revs[id][row[id].rev - 1] # NoBody
                   /\ history[id][row[id].rev - 1] # NoBody
    <3>1. final[id] # row[id].sha
      BY <2>1, <2>7, RowTypes
    <3>2. LocalKept(id)
      BY <2>1, <2>7, <3>1, <1>InstallKept
    <3> QED BY <2>1, <2>4, <3>2, <1>PhaseStep
  <2>8. CASE /\ row[id] # NoRow /\ final[id] # NoBody /\ final[id] # row[id].sha
             /\ revs[id][row[id].rev - 1] # NoBody /\ history[id][row[id].rev - 1] = NoBody
             /\ PreserveOutgoing(id)
    <3>1. LocalKept(id)
      BY <2>1, <2>8, <1>PreserveKept
    <3> QED BY <2>1, <2>4, <3>1, <1>PhaseStep
  <2> QED BY <2>5, <2>6, <2>7, <2>8 DEF SweepTransient

\* Opening an intent on an artifact that has none.
<1>BeginStep.
  ASSUME IndInv, pc = "idle", NEW id \in Ids, NEW e \in Digests, NEW p \in Digests,
         NEW t \in Revisions, NEW op \in Operations, StartIntent(id, op, e, p, t),
         receipt' \in [Ids -> {"none", "pending"}],
         \A j \in Ids \ {id} : receipt'[j] = receipt[j],
         UNCHANGED <<row, revs, blocked, announced, ledger, fs, todo, faults>>,
         Shape(id)', HistoryShape(id)', cur' = id, pc' \notin Phases,
         pc' \in PublishSteps \cup UpdateSteps \cup DeleteSteps, Running(id)'
  PROVE  IndInv'
  <2> USE <1>BeginStep
  <2>1. [op |-> op, expected |-> e, prior |-> p, target |-> t] \in Intents
    BY DEF Intents
  <2>2. intent' \in [Ids -> Intents] /\ \A j \in Ids \ {id} : intent'[j] = intent[j]
    BY <2>1 DEF StartIntent, IndInv, TypeOK, DbType
  <2>3. DbType' /\ FsType'
    BY <2>2 DEF IndInv, TypeOK, DbType, FsType
  <2>4. CtlType'
    BY DEF IndInv, TypeOK, CtlType
  <2>5. (cur = NoId <=> pc \in Phases)' /\ cur' \in {id, NoId}
    OBVIOUS
  <2>6. \A j \in Ids \ {id} : SameAt(j)
    BY <2>2 DEF SameAt
  <2> QED BY <2>3, <2>4, <2>5, <2>6, <1>LocalStep

\* publish_sync opens a publish.
<1>PublishBeginInv.
  ASSUME IndInv, NEW id \in Ids, NEW b \in Bodies, PublishBegin(id, b)
  PROVE  IndInv'
  <2> USE <1>PublishBeginInv
  <2>1. /\ DbType /\ ClosedShape(id) /\ HistoryShape(id) /\ intent \in [Ids -> Intents]
    BY DEF IndInv, TypeOK, PublishBegin, Shape, DbType
  <2>2. intent'[id] = [op |-> "publish", expected |-> b, prior |-> NoBody, target |-> 1]
    BY <2>1 DEF PublishBegin, StartIntent
  <2>3. /\ intent'[id].op = "publish" /\ intent'[id].expected = b
        /\ intent'[id].prior = NoBody /\ intent'[id].target = 1
    BY ONLY <2>2, SMTT(20)
  <2>4. /\ row[id] = NoRow /\ final[id] = NoBody /\ receipt[id] = "none" /\ blocked[id] = {}
        /\ trash[id] = NoBody /\ history[id] = NoHistory
    BY <2>1, SMTT(20) DEF ClosedShape, HistoryShape, PublishBegin, NoIntent
  <2>5. /\ UNCHANGED <<row, revs, receipt, blocked, announced, ledger, fs, todo, faults>>
        /\ cur' = id /\ pc' = "pubWrite" /\ pc = "idle"
    BY DEF PublishBegin
  <2>6. PublishShape(id)'
    BY <2>3, <2>4, <2>5 DEF PublishShape
  <2>7. HistoryShape(id)'
    BY <2>1, <2>3, <2>4, <2>5 DEF HistoryShape
  <2>8. Running(id)'
    BY <2>3, <2>4, <2>5 DEF Running, PublishRunning, PublishSteps, UpdateSteps, DeleteSteps
  <2>9. Shape(id)' /\ 1 \in Revisions /\ NoBody \in Digests /\ b \in Digests
    BY <2>3, <2>6, <1>OpenShape, SMTT(20) DEF Revisions, Digests
  <2>10. pc' \in PublishSteps /\ pc' \notin Phases /\ "publish" \in Operations
    BY <2>5 DEF PublishSteps, Phases, Operations
  <2>11. StartIntent(id, "publish", b, NoBody, 1) /\ receipt \in [Ids -> {"none", "pending"}]
    BY <2>1 DEF PublishBegin, DbType
  <2> QED BY <2>5, <2>7, <2>8, <2>9, <2>10, <2>11, <1>BeginStep

\* update_locked opens an update of a visible artifact, also for a restore.
<1>UpdateBeginInv.
  ASSUME IndInv, NEW id \in Ids, NEW b \in Bodies, NEW r, UpdateBegin(id, r, b)
  PROVE  IndInv'
  <2> USE <1>UpdateBeginInv
  <2> DEFINE p == row[id].sha
             t == row[id].rev + 1
  <2>1. /\ DbType /\ ClosedShape(id) /\ HistoryShape(id) /\ intent \in [Ids -> Intents]
        /\ row[id] # NoRow /\ intent[id] = NoIntent
    BY DEF IndInv, TypeOK, UpdateBegin, Visible, Shape, DbType
  <2>2. /\ row[id].rev \in Revisions /\ p \in Bodies /\ row[id].rev \in Int
        /\ row[id].rev >= 1 /\ row[id] = [rev |-> row[id].rev, sha |-> p]
    BY <2>1, RowTypes
  <2>3. t \in Revisions /\ t > 1 /\ t - 1 = row[id].rev /\ row[id].rev # t
    BY <2>2, SMTT(20) DEF UpdateBegin, Revisions
  <2>4. intent'[id] = [op |-> "update", expected |-> b, prior |-> p, target |-> t]
    BY <2>1 DEF UpdateBegin, StartIntent
  <2>5. /\ intent'[id].op = "update" /\ intent'[id].expected = b
        /\ intent'[id].prior = p /\ intent'[id].target = t
    BY <2>4, SMTT(20)
  <2>6. /\ final[id] = p /\ receipt[id] = "none" /\ blocked[id] = {} /\ trash[id] = NoBody
        /\ revs[id][row[id].rev] = p
        /\ \A s \in Revisions : s >= row[id].rev => history[id][s] = NoBody
        /\ \A s \in Revisions :
             history[id][s] # NoBody /\ revs[id][s] # NoBody => history[id][s] = revs[id][s]
    BY <2>1 DEF ClosedShape, HistoryShape
  <2>7. /\ UNCHANGED <<row, revs, receipt, blocked, announced, ledger, fs, todo, faults>>
        /\ cur' = id /\ pc' = (IF b = p THEN "updCommit" ELSE "updWrite") /\ pc = "idle"
        /\ StartIntent(id, "update", b, p, t)
    BY DEF UpdateBegin
  <2>8. Outgoing(id)' = row[id].rev /\ ~Committed(id)'
    BY <2>3, <2>5, <2>7 DEF Outgoing, Committed
  <2>9. UpdateShape(id)'
    <3>1. row'[id] = [rev |-> Outgoing(id)', sha |-> intent'[id].prior]
      BY <2>2, <2>5, <2>7, <2>8
    <3>2. /\ final'[id] = intent'[id].prior /\ final'[id] # NoBody /\ receipt'[id] = "none"
          /\ blocked'[id] = {} /\ trash'[id] = NoBody
          /\ revs'[id][Outgoing(id)'] = intent'[id].prior
      BY <2>2, <2>5, <2>6, <2>7, <2>8
    <3> QED BY <2>2, <2>3, <2>5, <2>8, <3>1, <3>2 DEF UpdateShape
  <2>10. HistoryShape(id)'
    BY <2>1, <2>6, <2>7, <1>HistoryFrom
  <2>11. Running(id)'
    <3>1. pc' \in {"updCommit", "updWrite"} /\ (pc' = "updCommit" => MetadataOnly(id)')
      BY <2>5, <2>7 DEF MetadataOnly
    <3>2. UpdateRunning(id)'
      BY <2>6, <2>7, <2>8, <3>1 DEF UpdateRunning
    <3> QED BY <2>5, <3>1, <3>2 DEF Running, PublishSteps, DeleteSteps
  <2>12. Shape(id)'
    BY <2>5, <2>9, <1>OpenShape
  <2>13. pc' \in UpdateSteps /\ pc' \notin Phases /\ "update" \in Operations
    BY <2>7 DEF UpdateSteps, Phases, Operations
  <2>14. p \in Digests /\ b \in Digests /\ receipt \in [Ids -> {"none", "pending"}]
    BY <2>1, <2>2 DEF Digests, DbType
  <2> QED BY <2>3, <2>7, <2>10, <2>11, <2>12, <2>13, <2>14, <1>BeginStep

\* delete_sync opens a delete of a visible artifact.
<1>DeleteBeginInv.
  ASSUME IndInv, NEW id \in Ids, DeleteBegin(id)
  PROVE  IndInv'
  <2> USE <1>DeleteBeginInv
  <2> DEFINE p == row[id].sha
             t == row[id].rev
  <2>1. /\ DbType /\ ClosedShape(id) /\ HistoryShape(id) /\ intent \in [Ids -> Intents]
        /\ row[id] # NoRow /\ intent[id] = NoIntent
    BY DEF IndInv, TypeOK, DeleteBegin, Visible, Shape, DbType
  <2>2. t \in Revisions /\ p \in Bodies /\ row[id] = [rev |-> t, sha |-> p]
    BY <2>1, RowTypes
  <2>3. intent'[id] = [op |-> "delete", expected |-> NoBody, prior |-> p, target |-> t]
    BY <2>1 DEF DeleteBegin, StartIntent
  <2>4. intent'[id].op = "delete" /\ intent'[id].prior = p /\ intent'[id].target = t
    BY <2>3, SMTT(20)
  <2>5. /\ final[id] = p /\ blocked[id] = {} /\ trash[id] = NoBody
    BY <2>1 DEF ClosedShape
  <2>6. /\ UNCHANGED <<row, revs, blocked, announced, ledger, fs, todo, faults>>
        /\ cur' = id /\ pc' = "delTrash" /\ pc = "idle" /\ ReserveReceipt(id)
        /\ StartIntent(id, "delete", NoBody, p, t)
    BY DEF DeleteBegin
  <2>7. /\ receipt' \in [Ids -> {"none", "pending"}] /\ receipt'[id] = "pending"
        /\ \A j \in Ids \ {id} : receipt'[j] = receipt[j]
    BY <2>1, <2>6 DEF DbType, ReserveReceipt
  <2>8. DeleteShape(id)'
    BY <2>1, <2>2, <2>4, <2>5, <2>6, <2>7 DEF DeleteShape
  <2>9. HistoryShape(id)'
    BY <2>1, <2>6, <1>HistoryKept
  <2>10. Running(id)'
    <3>1. DeleteRunning(id)'
      BY <2>1, <2>4, <2>5, <2>6 DEF DeleteRunning
    <3> QED BY <2>4, <2>6, <3>1 DEF Running, PublishSteps, UpdateSteps
  <2>11. Shape(id)'
    BY <2>4, <2>8, <1>OpenShape
  <2>12. pc' \in DeleteSteps /\ pc' \notin Phases /\ "delete" \in Operations
    BY <2>6 DEF DeleteSteps, Phases, Operations
  <2>13. p \in Digests /\ NoBody \in Digests
    BY <2>2 DEF Digests
  <2> QED BY <2>2, <2>6, <2>7, <2>9, <2>10, <2>11, <2>12, <2>13, <1>BeginStep

\* What is left to do in a phase is well formed.
<1>WorkLists.
  ASSUME DbType, FsType
  PROVE  IntentWork \in SUBSET Work /\ SweepWork \in SUBSET Work
  <2> USE <1>WorkLists
  <2>1. NoBody \in Paths /\ \A id \in Ids : staging[id] \in Paths /\ trash[id] \in Paths
    BY DEF FsType, Paths, Digests
  <2>2. \A id \in Ids : \A x \in scraps[id] : x.kind \in {"staging", "trash"} /\ x.body \in Paths
    BY SMTT(20) DEF FsType, Scraps, Paths, Digests
  <2>5. ASSUME NEW id \in Ids, NEW kind \in {"intent", "staging", "trash"},
               NEW scrap \in BOOLEAN, NEW body \in Paths
        PROVE  Item(id, kind, scrap, body) \in Work
    BY DEF Item, Work
  <2>3. IntentWork \in SUBSET Work
    BY <2>1, <2>5 DEF IntentWork
  <2>4. SweepWork \in SUBSET Work
    <3> SUFFICES ASSUME NEW w \in SweepWork PROVE w \in Work
      OBVIOUS
    <3>1. \/ \E id \in Ids : w = Item(id, "staging", FALSE, staging[id])
          \/ \E id \in Ids : w = Item(id, "trash", FALSE, trash[id])
          \/ \E id \in Ids : \E x \in scraps[id] : w = Item(id, x.kind, TRUE, x.body)
      BY DEF SweepWork
    <3>2. \A id \in Ids : \A x \in scraps[id] : Item(id, x.kind, TRUE, x.body) \in Work
      BY <2>2, <2>5
    <3> QED BY <2>1, <2>5, <3>1, <3>2
  <2> QED BY <2>3, <2>4

\* A stop and the steps that enter and leave the phases of a start.
<1>PhasesInv.
  ASSUME IndInv, Crash \/ Restart \/ EnterSweep \/ FinishStart
  PROVE  IndInv'
  <2> USE <1>PhasesInv
  <2>1. DbType /\ FsType /\ CtlType
    BY DEF IndInv, TypeOK
  <2>2. UNCHANGED <<db, fs>> /\ cur' = NoId /\ pc' \in Phases
    BY DEF Crash, Restart, EnterSweep, FinishStart, IndInv, Phases
  <2>3. todo' \in SUBSET Work
    BY <2>1, <1>WorkLists DEF Crash, Restart, EnterSweep, FinishStart, CtlType
  <2>4. faults' \in 0..MaxFaults
    BY <2>1, SMTT(20) DEF Crash, Restart, EnterSweep, FinishStart, CtlType
  <2>5. CtlType'
    BY <2>2, <2>3, <2>4 DEF CtlType
  <2> QED BY <2>2, <2>5, <1>PhaseQuiet

\* reclaim_orphan_history only touches the history of artifacts without a row.
<1>ReclaimInv.
  ASSUME IndInv, ReclaimOrphanHistory
  PROVE  IndInv'
  <2> USE <1>ReclaimInv
  <2>1. DbType /\ FsType /\ CtlType /\ cur = NoId
    BY DEF IndInv, TypeOK, ReclaimOrphanHistory, Phases
  <2>2. /\ UNCHANGED <<db, final, staging, trash, snapTmp, scraps, cur>>
        /\ pc' = "resolve" /\ todo' = IntentWork
    BY DEF ReclaimOrphanHistory
  <2>3. faults' \in 0..MaxFaults
    BY <2>1, SMTT(20) DEF ReclaimOrphanHistory, CtlType
  <2>4. PICK kept : history' = [id \in Ids |-> IF row[id] = NoRow /\ id \notin kept
                                               THEN NoHistory ELSE history[id]]
    BY DEF ReclaimOrphanHistory
  <2>5. NoHistory \in Snapshots
    BY DEF NoHistory, Snapshots, Digests
  <2>6. history' \in [Ids -> Snapshots]
    BY <2>1, <2>4, <2>5 DEF FsType
  <2>7. DbType' /\ FsType'
    BY <2>1, <2>2, <2>6 DEF DbType, FsType
  <2>8. CtlType' /\ cur' = NoId /\ pc' \in Phases
    BY <2>1, <2>2, <2>3, <1>WorkLists DEF CtlType, Phases
  <2>9. ASSUME NEW j \in Ids PROVE Shape(j)' /\ HistoryShape(j)'
    <3>1. Shape(j) /\ HistoryShape(j)
      BY DEF IndInv
    <3>2. CASE history'[j] = history[j]
      <4>1. SameAt(j)
        BY <2>2, <3>2 DEF SameAt
      <4> QED BY <3>1, <4>1, <1>Frame
    <3>3. CASE row[j] = NoRow /\ history'[j] = NoHistory
      <4>1. intent[j].op # "update"
        BY <2>1, <3>1, <3>3, UpdateRowCases DEF Shape
      <4>2. Shape(j)'
        BY <2>2, <3>1, <4>1 DEF Shape, ClosedShape, PublishShape, DeleteShape, Event
      <4>3. HistoryShape(j)'
        BY <2>2, <3>3 DEF HistoryShape, NoHistory
      <4> QED BY <4>2, <4>3
    <3> QED BY <2>4, <3>2, <3>3
  <2> QED BY <2>7, <2>8, <2>9 DEF IndInv, TypeOK

<1> SUFFICES ASSUME IndInv, [Next]_vars PROVE IndInv'
  OBVIOUS
<1>1. CASE Step
  BY <1>1, <1>PublishStepInv, <1>UpdateStepInv, <1>DeleteStepInv DEF Step
<1>2. CASE Reconcile
  BY <1>2, <1>PhasesInv, <1>ReclaimInv, <1>RecoverIntentInv, <1>SweepTransientInv, <1>ResolveIntentInv
     DEF Reconcile
<1>3. CASE Crash
  BY <1>3, <1>PhasesInv
<1>4. ASSUME NEW id \in Ids, Begin(id) PROVE IndInv'
  <2>1. ASSUME NEW r \in Revisions, RestoreBegin(id, r) PROVE IndInv'
    BY <2>1, <1>UpdateBeginInv DEF RestoreBegin
  <2> QED BY <1>4, <2>1, <1>PublishBeginInv, <1>UpdateBeginInv, <1>DeleteBeginInv DEF Begin
<1>5. CASE UNCHANGED vars
  <2>1. UNCHANGED <<db, fs, cur, pc, todo, faults>>
    BY <1>5 DEF vars, ctl
  <2>2. DbType' /\ FsType' /\ CtlType'
    BY <2>1 DEF IndInv, TypeOK, DbType, FsType, CtlType
  <2>3. ASSUME NEW j \in Ids PROVE Shape(j)' /\ HistoryShape(j)'
    <3>1. SameAt(j)
      BY <2>1 DEF SameAt
    <3> QED BY <3>1, <1>Frame DEF IndInv
  <2>4. ASSUME NEW j \in Ids, cur' = j PROVE Running(j)'
    <3>1. Running(j)
      BY <2>1, <2>4 DEF IndInv
    <3> QED BY <2>1, <3>1 DEF Running, PublishRunning, UpdateRunning, DeleteRunning,
          Committed, MetadataOnly, Outgoing
  <2> QED BY <2>1, <2>2, <2>3, <2>4 DEF IndInv, TypeOK
<1> QED BY <1>1, <1>2, <1>3, <1>4, <1>5 DEF Next

-----------------------------------------------------------------------------
(* The theorems. *)

\* The inductive invariant holds in every reachable state: whatever mix of
\* mutations, failures and stops led to it, each artifact is in one of the
\* states the lifecycle and its recovery know how to continue from.
THEOREM Inductive == Spec => []IndInv
<1>1. IndInv /\ [Next]_vars => IndInv'
  BY NextInv
<1> QED BY InitInv, <1>1, PTL DEF Spec

\* Rows, intents, receipts, paths and control have their types; only whole
\* bodies reach the live path and history.
THEOREM TypeCorrect == Spec => []TypeOK
<1>1. IndInv => TypeOK
  BY DEF IndInv
<1> QED BY Inductive, <1>1, PTL

\* A row that load_meta returns has the body its digest names, in every
\* reachable state.
THEOREM VisibleIntegrity == Spec => []VisibleBodyMatches
<1>1. IndInv => VisibleBodyMatches
  BY DEF IndInv, VisibleBodyMatches, Visible, Shape, ClosedShape
<1> QED BY Inductive, <1>1, PTL

\* The body an open update replaces is live or in history.
THEOREM OutgoingSafe == Spec => []OutgoingBodySurvives
<1>1. IndInv => OutgoingBodySurvives
  BY DEF IndInv, OutgoingBodySurvives, Shape, UpdateShape
<1> QED BY Inductive, <1>1, PTL

\* A snapshot is the body its revision row recorded.
THEOREM HistoryIsAuthentic == Spec => []HistoryAuthentic
<1>1. IndInv => HistoryAuthentic
  BY DEF IndInv, HistoryAuthentic, HistoryShape
<1> QED BY Inductive, <1>1, PTL

\* No receipt or blocked delivery outlives its durability intent.
THEOREM IntentClosesAll == Spec => []NothingStranded
<1>1. IndInv => NothingStranded
  BY DEF IndInv, NothingStranded, Shape, ClosedShape
<1> QED BY Inductive, <1>1, PTL

-----------------------------------------------------------------------------
(* History is written once. *)

\* What a step may do to the snapshots: HistoryImmutable without the box.
HistoryKeeps ==
  \A id \in Ids, r \in Revisions :
    history[id][r] # NoBody => history'[id][r] \in {history[id][r], NoBody}

\* A snapshot in history is removed, never replaced: a copy is only written to
\* a destination that the inductive invariant shows to be free.
THEOREM SnapshotsImmutable == Spec => HistoryImmutable
\* A snapshot is added where there is none.
<1>HistoryAdds.
  ASSUME FsType, NEW i \in Ids, NEW o, NEW b, history[i][o] = NoBody,
         history' = [history EXCEPT ![i][o] = b]
  PROVE  HistoryKeeps
  <2> USE <1>HistoryAdds
  <2>1. \A id \in Ids : history[id] \in [Revisions -> Digests]
    BY DEF FsType, Snapshots
  <2>2. history'[i] = [history[i] EXCEPT ![o] = b] /\ \A id \in Ids \ {i} : history'[id] = history[id]
    BY DEF FsType
  <2> QED BY <2>1, <2>2 DEF HistoryKeeps

\* Snapshots are removed.
<1>HistoryDrops.
  ASSUME FsType, NEW i \in Ids, \A id \in Ids \ {i} : history'[id] = history[id],
         \A r \in Revisions : history'[i][r] \in {history[i][r], NoBody}
  PROVE  HistoryKeeps
  BY <1>HistoryDrops DEF HistoryKeeps

\* Every step of Next adds, removes or keeps snapshots.
<1>HistorySteps.
  ASSUME IndInv, [Next]_vars
  PROVE  HistoryKeeps
  <2> USE <1>HistorySteps
  <2>1. FsType /\ DbType /\ CtlType
    BY DEF IndInv, TypeOK
  <2>2. CASE history' = history
    BY <2>2 DEF HistoryKeeps
  <2>3. ASSUME NEW i \in Ids, PublishStep(i) PROVE HistoryKeeps
    BY <2>2, <2>3 DEF PublishStep, PublishWrite, PublishSync, PublishInsert,
       PublishAdvance, PublishRename, PublishDurable, PublishFinalize, PublishDropStaging,
       PublishDropIntent, PublishUndoRow, PublishUndoStaging, PublishUndoFinal, PublishCancel
  <2>4. ASSUME NEW i \in Ids, UpdateStep(i) PROVE HistoryKeeps
    <3>1. CASE UpdateSnapshot(i)
      BY <2>1, <2>2, <3>1, <1>HistoryAdds DEF UpdateSnapshot, CanSnapshot
    <3>2. CASE UpdateCopy(i)
      <4>1. history[i][Outgoing(i)] = NoBody
        BY <3>2 DEF UpdateCopy, IndInv, Running, UpdateSteps, UpdateRunning
      <4> QED BY <2>1, <2>2, <3>2, <4>1, <1>HistoryAdds DEF UpdateCopy
    <3>3. CASE UpdatePrune(i)
      <4>1. PICK S : history' = [history EXCEPT ![i] =
                       [r \in Revisions |-> IF r \in S THEN NoBody ELSE history[i][r]]]
        BY <3>3 DEF UpdatePrune
      <4>2. /\ \A id \in Ids \ {i} : history'[id] = history[id]
            /\ \A r \in Revisions : history'[i][r] \in {history[i][r], NoBody}
        BY <2>1, <4>1 DEF FsType
      <4> QED BY <2>1, <4>2, <1>HistoryDrops
    <3>4. CASE UpdateUndoSnapshot(i)
      <4>1. CASE history' = [history EXCEPT ![i][Outgoing(i)] = NoBody]
        <5>1. history[i] \in [Revisions -> Digests]
          BY <2>1 DEF FsType, Snapshots
        <5>2. /\ \A id \in Ids \ {i} : history'[id] = history[id]
              /\ history'[i] = [history[i] EXCEPT ![Outgoing(i)] = NoBody]
          BY <2>1, <4>1 DEF FsType
        <5>3. \A r \in Revisions : history'[i][r] \in {history[i][r], NoBody}
          BY <5>1, <5>2
        <5> QED BY <2>1, <5>2, <5>3, <1>HistoryDrops
      <4> QED BY <2>2, <3>4, <4>1 DEF UpdateUndoSnapshot
    <3> QED BY <2>2, <2>4, <3>1, <3>2, <3>3, <3>4 DEF UpdateStep, UpdateWrite,
          UpdateSync, UpdateCommit, UpdateSwap, UpdateDurable, UpdateFinalize,
          UpdateUndoStaging, UpdateRevert, UpdateUndoTemp, UpdateCancel, UpdateDropStaging,
          UpdateDropIntent
  <2>5. ASSUME NEW i \in Ids, history' = [history EXCEPT ![i] = NoHistory]
        PROVE  HistoryKeeps
    <3>1. /\ \A id \in Ids \ {i} : history'[id] = history[id]
          /\ \A r \in Revisions : history'[i][r] \in {history[i][r], NoBody}
      BY <2>1, <2>5 DEF FsType, NoHistory
    <3> QED BY <2>1, <3>1, <1>HistoryDrops
  <2>6. ASSUME NEW i \in Ids, DeleteStep(i) PROVE HistoryKeeps
    BY <2>2, <2>5, <2>6 DEF DeleteStep, DeleteTrash, DeleteRow, DeleteTrashRemove,
       DeleteHistoryRemove, DeleteDurable, DeleteFinalize, DeleteRestore, DeleteCancel
  <2>7. ASSUME NEW i \in Ids, NEW w, NEW result, FinishCurrentBody(i, w, result)
        PROVE  HistoryKeeps
    BY <2>1, <2>2, <2>7, <1>HistoryAdds DEF FinishCurrentBody
  <2>8. ASSUME NEW w \in todo, RecoverIntent(w) PROVE HistoryKeeps
    <3>1. w.id \in Ids
      BY <2>1, WorkTypes
    <3>2. CASE RecoverDelete(w.id, w)
      BY <2>2, <2>5, <3>1, <3>2 DEF RecoverDelete
    <3>3. CASE FinishCurrentBody(w.id, w, "recovered")
      BY <2>7, <3>1, <3>3
    <3> QED BY <2>2, <2>8, <3>2, <3>3 DEF RecoverIntent, AbortCurrentBody
  <2>9. ASSUME NEW w \in todo, ResolveIntent(w) PROVE HistoryKeeps
    <3>1. w.id \in Ids
      BY <2>1, WorkTypes
    <3> QED BY <2>2, <2>7, <2>9, <3>1 DEF ResolveIntent
  <2>10. ASSUME NEW w \in todo, SweepTransient(w) PROVE HistoryKeeps
    <3>1. w.id \in Ids
      BY <2>1, WorkTypes
    <3>2. CASE PreserveOutgoing(w.id) /\ history[w.id][row[w.id].rev - 1] = NoBody
      BY <2>1, <3>1, <3>2, <1>HistoryAdds DEF PreserveOutgoing
    <3> QED BY <2>2, <2>10, <3>2 DEF SweepTransient, DiscardTransient, KeepTransient,
          InstallTransient
  <2>11. CASE ReclaimOrphanHistory
    <3>1. \A id \in Ids : history'[id] \in {history[id], NoHistory}
      BY <2>11 DEF ReclaimOrphanHistory
    <3> QED BY <3>1 DEF HistoryKeeps, NoHistory
  <2>12. CASE Crash \/ Restart \/ EnterSweep \/ FinishStart \/ UNCHANGED vars
    BY <2>2, <2>12 DEF Crash, Restart, EnterSweep, FinishStart, vars
  <2>13. ASSUME NEW i \in Ids, Begin(i) PROVE HistoryKeeps
    BY <2>2, <2>13 DEF Begin, PublishBegin, UpdateBegin, RestoreBegin, DeleteBegin
  <2> QED BY <2>3, <2>4, <2>6, <2>8, <2>9, <2>10, <2>11, <2>12, <2>13
          DEF Next, Step, Reconcile

<1>1. IndInv /\ [Next]_vars => [HistoryKeeps]_vars
  BY <1>HistorySteps
<1> QED BY Inductive, <1>1, PTL DEF Spec, HistoryImmutable, HistoryKeeps

=============================================================================
