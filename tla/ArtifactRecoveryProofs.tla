------------------------ MODULE ArtifactRecoveryProofs ------------------------
(***************************************************************************)
(* RecoveryInv is an invariant of ArtifactLifecycle: a start always finds  *)
(* the body it falls back on, and what it leaves behind is one of the two  *)
(* states that ReconciliationSettles names.  With it ArtifactLifecycle     *)
(* implements ArtifactStore: every step of a mutation, of a stop and of    *)
(* the next start is a step of the abstract store or leaves it as it is.   *)
(***************************************************************************)
EXTENDS ArtifactLifecycleProofs

USE LifecycleAssumption, ZenonT(30) DEF At, Goto, Return, Works, Fails, db, fs

-----------------------------------------------------------------------------
(* RecoveryInv: what a start falls back on, and how far it has got.         *)

\* An artifact of which a step also leaves the transient paths alone.
AllSameAt(j) == SameAt(j) /\ staging'[j] = staging[j] /\ scraps'[j] = scraps[j]

\* What recovery falls back on is still there when nothing of it moved.
LEMMA FallbackFrame ==
  ASSUME NEW j \in Ids, Fallback(j), row'[j] = row[j], revs'[j] = revs[j],
         intent'[j] = intent[j], final'[j] = final[j], staging'[j] = staging[j],
         scraps'[j] = scraps[j]
  PROVE  Fallback(j)'
BY DEF Fallback, Committed, Outgoing

\* A closed intent and a delete need nothing from the staging path.
LEMMA FallbackIdle ==
  ASSUME NEW j \in Ids, intent'[j] = NoIntent \/ intent'[j].op = "delete"
  PROVE  Fallback(j)'
BY SMTT(20) DEF Fallback, NoIntent

\* Nor an update whose live path is not empty, once its outgoing revision has a row.
LEMMA FallbackUpdate ==
  ASSUME NEW j \in Ids, intent'[j].op = "update",
         Committed(j)' => revs'[j][Outgoing(j)'] = intent'[j].prior,
         final'[j] = NoBody => \/ staging'[j] = intent'[j].expected
                               \/ [kind |-> "staging", body |-> intent'[j].expected] \in scraps'[j]
  PROVE  Fallback(j)'
BY DEF Fallback

\* Closing an intent, by FinishIntent or with its receipt.
LEMMA FinishedIntent ==
  ASSUME DbType, NEW id \in Ids, FinishIntent(id)
  PROVE  intent'[id] = NoIntent /\ \A j \in Ids \ {id} : intent'[j] = intent[j]
BY DEF DbType, FinishIntent

\* What a step of recovery or resolution does to the artifact it works on: it
\* closes the intent when the artifact is as before the mutation (a failure) or
\* as the mutation wants it (recovered), prepares that, or leaves the intent.
Closing(id, result) ==
  /\ intent[id] # NoIntent /\ Complete(id, result)
  /\ UNCHANGED <<row, revs, final, snapTmp, history>>
  /\ \/ result = "failure" /\ Served(id) = Before(id)
     \/ result = "recovered" /\ receipt[id] = "pending" /\ Served(id) = After(id)

Preparing(id) ==
  /\ UNCHANGED <<db, final>> /\ Fallback(id)'
  /\ \A j \in Ids \ {id} : AllSameAt(j)

\* What is served, from the row and the live body.
LEMMA ServedIs ==
  ASSUME NEW id \in Ids, NEW r, NEW b, row[id] = [rev |-> r, sha |-> b],
         row[id] # NoRow
  PROVE  Served(id) = [rev |-> r, body |-> final[id]]
BY SMTT(20) DEF Served

LEMMA ServedNone ==
  ASSUME NEW id \in Ids, row[id] = NoRow
  PROVE  Served(id) = [rev |-> 0, body |-> NoBody]
BY SMTT(20) DEF Served, NoRow

\* A published row with its body is what the publish wants.
LEMMA PublishServed ==
  ASSUME NEW id \in Ids, DbType, PublishShape(id), intent[id].op = "publish"
  PROVE  /\ row[id] = NoRow => Served(id) = Before(id)
         /\ row[id] # NoRow /\ final[id] = intent[id].expected =>
              receipt[id] = "pending" /\ Served(id) = After(id)
<1>1. CASE row[id] = NoRow
  BY <1>1, ServedNone DEF Before
<1>2. CASE row[id] # NoRow
  <2>1. row[id] = [rev |-> 1, sha |-> intent[id].expected] /\ receipt[id] = "pending"
    BY <1>2 DEF PublishShape
  <2>2. Served(id) = [rev |-> 1, body |-> final[id]]
    BY <1>2, <2>1, ServedIs
  <2>3. After(id) = [rev |-> 1, body |-> intent[id].expected]
    BY DEF After, PublishShape
  <2> QED BY <1>2, <2>1, <2>2, <2>3
<1> QED BY <1>1, <1>2

\* So is a committed update with its body, and an uncommitted one is as before.
LEMMA UpdateServed ==
  ASSUME NEW id \in Ids, DbType, UpdateShape(id), intent[id].op = "update"
  PROVE  /\ ~Committed(id) => Served(id) = Before(id)
         /\ Committed(id) /\ final[id] = intent[id].expected =>
              receipt[id] = "pending" /\ Served(id) = After(id)
<1>1. row[id] # NoRow
  BY UpdateRowCases
<1>2. CASE ~Committed(id)
  <2>1. row[id] = [rev |-> Outgoing(id), sha |-> intent[id].prior]
    <3>1. row[id] # [rev |-> intent[id].target, sha |-> intent[id].expected]
      BY <1>2, SMTT(20) DEF Committed
    <3> QED BY <3>1 DEF UpdateShape
  <2>2. Served(id) = [rev |-> Outgoing(id), body |-> final[id]] /\ final[id] = intent[id].prior
    BY <1>1, <1>2, <2>1, ServedIs DEF UpdateShape
  <2>3. Before(id) = [rev |-> Outgoing(id), body |-> intent[id].prior]
    BY DEF Before
  <2> QED BY <1>2, <2>2, <2>3
<1>3. CASE Committed(id)
  <2>1. row[id] = [rev |-> intent[id].target, sha |-> intent[id].expected]
    <3>1. row[id].rev = intent[id].target /\ Outgoing(id) # intent[id].target
      BY <1>3, UpdateRowCases, SMTT(20) DEF Committed, Revisions
    <3>2. row[id] # [rev |-> Outgoing(id), sha |-> intent[id].prior]
      BY <3>1, SMTT(20)
    <3> QED BY <3>2 DEF UpdateShape
  <2>2. Served(id) = [rev |-> intent[id].target, body |-> final[id]]
    BY <1>1, <2>1, ServedIs
  <2>3. After(id) = [rev |-> intent[id].target, body |-> intent[id].expected]
    BY DEF After
  <2>4. receipt[id] = "pending"
    BY <1>3 DEF UpdateShape
  <2> QED BY <1>3, <2>2, <2>3, <2>4
<1> QED BY <1>2, <1>3

\* A delete without its row is done, and with row and body it is as before.
LEMMA DeleteServed ==
  ASSUME NEW id \in Ids, DbType, DeleteShape(id), intent[id].op = "delete"
  PROVE  /\ receipt[id] = "pending"
         /\ row[id] = NoRow => Served(id) = After(id)
         /\ row[id] # NoRow /\ final[id] = intent[id].prior => Served(id) = Before(id)
         /\ row[id] # NoRow => row[id].sha = intent[id].prior
<1>1. receipt[id] = "pending"
  BY DEF DeleteShape
<1>2. CASE row[id] = NoRow
  BY <1>1, <1>2, ServedNone DEF After
<1>3. CASE row[id] # NoRow
  <2>1. row[id] = [rev |-> intent[id].target, sha |-> intent[id].prior]
    BY <1>3 DEF DeleteShape
  <2>2. Served(id) = [rev |-> intent[id].target, body |-> final[id]]
    BY <1>3, <2>1, ServedIs
  <2>3. Before(id) = [rev |-> intent[id].target, body |-> intent[id].prior]
    BY DEF Before
  <2>4. row[id].sha = intent[id].prior
    BY <2>1, SMTT(20)
  <2> QED BY <1>1, <1>3, <2>2, <2>3, <2>4
<1> QED BY <1>2, <1>3

\* What FinishCurrentBody asks of an intent is there: an intent whose body is
\* live is closed, or the snapshot of a metadata update is completed first.
LEMMA FinishCases ==
  ASSUME NEW id \in Ids, NEW w, DbType, FsType, Shape(id), HistoryShape(id), Fallback(id),
         intent[id].op \in {"publish", "update"}, row[id] # NoRow,
         final[id] = intent[id].expected, FinishCurrentBody(id, w, "recovered")
  PROVE  \/ todo' = todo /\ Preparing(id) /\ intent[id].op = "update" /\ MetadataOnly(id)
         \/ Done(w) /\ \E result \in {"recovered", "failure"} : Closing(id, result)
<1>0. intent[id] # NoIntent
  BY SMTT(20) DEF NoIntent
<1>1. CASE intent[id].op = "publish"
  <2>1. Classify(id) = "notApplicable"
    BY <1>1 DEF Classify
  <2>2. /\ Complete(id, "recovered") /\ Done(w)
        /\ UNCHANGED <<row, revs, final, snapTmp, history>>
    BY <2>1 DEF FinishCurrentBody
  <2>3. receipt[id] = "pending" /\ Served(id) = After(id)
    BY <1>1, PublishServed DEF Shape
  <2> QED BY <1>0, <2>2, <2>3 DEF Closing
<1>2. CASE intent[id].op = "update"
  <2>1. UpdateShape(id)
    BY <1>2 DEF Shape
  <2>2. CASE ~MetadataOnly(id)
    <3>1. Classify(id) = "notApplicable"
      BY <2>2 DEF Classify
    <3>2. /\ Complete(id, "recovered") /\ Done(w)
          /\ UNCHANGED <<row, revs, final, snapTmp, history>>
      BY <3>1 DEF FinishCurrentBody
    <3>3. Committed(id)
      BY <2>1, <2>2 DEF UpdateShape, MetadataOnly
    <3>4. receipt[id] = "pending" /\ Served(id) = After(id)
      BY <1>2, <2>1, <3>3, UpdateServed
    <3> QED BY <1>0, <3>2, <3>4 DEF Closing
  <2>3. CASE MetadataOnly(id)
    <3>0. row[id].sha = intent[id].prior
      BY <1>2, <2>1, <2>3, UpdateRowCases DEF MetadataOnly
    <3>1. ASSUME UNCHANGED <<db, final, staging, trash, scraps, todo>>,
                 \A j \in Ids \ {id} : history'[j] = history[j]
          PROVE  todo' = todo /\ Preparing(id)
      <4>1. Fallback(id)'
        BY <3>1, FallbackFrame
      <4>2. \A j \in Ids \ {id} : AllSameAt(j)
        BY <3>1 DEF AllSameAt, SameAt
      <4> QED BY <3>1, <4>1, <4>2 DEF Preparing
    <3>2. CASE ~Committed(id)
      <4>1. Reverted(id)
        <5>1. row[id] = [rev |-> Outgoing(id), sha |-> intent[id].prior]
          <6>1. row[id] # [rev |-> intent[id].target, sha |-> intent[id].expected]
            BY <3>2, SMTT(20) DEF Committed
          <6> QED BY <2>1, <6>1 DEF UpdateShape
        <5>2. intent[id].target \in Int
          BY <1>2, <2>1, UpdateRowCases, SMTT(20) DEF Revisions
        <5> QED BY <5>1, <5>2, SMTT(20) DEF Reverted, Outgoing
      <4>2. Classify(id) = "reverted"
        BY <1>2, <2>3, <3>0, <3>2, <4>1 DEF Classify
      <4>3. \/ /\ UNCHANGED <<db, final, staging, trash, history, scraps, todo>>
            \/ /\ Complete(id, "failure") /\ Done(w)
               /\ UNCHANGED <<row, revs, final, snapTmp, history>>
        BY <4>2 DEF FinishCurrentBody
      <4>4. Served(id) = Before(id)
        BY <1>2, <2>1, <3>2, UpdateServed
      <4> QED BY <1>0, <1>2, <2>3, <3>1, <4>3, <4>4 DEF Closing
    <3>3. CASE Committed(id)
      <4>1. Classify(id) = "committed"
        BY <1>2, <2>3, <3>0, <3>3 DEF Classify
      <4>2. row[id].rev - 1 = Outgoing(id) /\ Outgoing(id) \in Revisions
        BY <1>2, <2>1, <3>3, UpdateRowCases
      <4>3. revs[id][Outgoing(id)] = intent[id].prior /\ intent[id].prior # NoBody
        BY <1>2, <2>1, <3>3 DEF Fallback, UpdateShape
      <4>4. history[id][Outgoing(id)] \in {NoBody, intent[id].expected}
        BY <2>3, <4>2, <4>3 DEF HistoryShape, MetadataOnly
      <4>5. ~(Outgoing(id) < 1)
        BY <4>2, SMTT(20) DEF Revisions
      <4>6. \/ UNCHANGED <<db, final, staging, trash, history, scraps, todo>>
            \/ /\ history' = [history EXCEPT ![id][Outgoing(id)] = final[id]]
               /\ UNCHANGED <<db, final, staging, trash, snapTmp, scraps, todo>>
            \/ /\ Complete(id, "recovered") /\ Done(w)
               /\ UNCHANGED <<row, revs, final, snapTmp, history>>
        BY <4>1, <4>2, <4>3, <4>4, <4>5 DEF FinishCurrentBody
      <4>7. receipt[id] = "pending" /\ Served(id) = After(id)
        BY <1>2, <2>1, <3>3, UpdateServed
      <4>8. history' = [history EXCEPT ![id][Outgoing(id)] = final[id]] =>
              \A j \in Ids \ {id} : history'[j] = history[j]
        BY DEF FsType
      <4> QED BY <1>0, <1>2, <2>3, <3>1, <4>6, <4>7, <4>8 DEF Closing
    <3> QED BY <3>2, <3>3
  <2> QED BY <2>2, <2>3
<1> QED BY <1>1, <1>2

\* recover_prepared_intent closes the intent, prepares that, or leaves an intent
\* of which only the body is missing.
RecoverEffect(w) ==
  \/ todo' = todo /\ Preparing(w.id)
  \/ Done(w) /\ \E result \in {"recovered", "failure"} : Closing(w.id, result)
  \/ /\ Done(w) /\ UNCHANGED <<db, fs>>
     /\ intent[w.id] # NoIntent => Owed(w.id) /\ final[w.id] # row[w.id].sha

LEMMA RecoverCases ==
  ASSUME IndInv, \A i \in Ids : Fallback(i), NEW w \in todo, RecoverIntent(w)
  PROVE  w.id \in Ids /\ RecoverEffect(w)
\* Discarding a path of an artifact leaves the others alone.
<1>PreparingDelete.
  ASSUME NEW id \in Ids, FsType, intent[id].op = "delete", UNCHANGED <<db, final, staging, scraps>>,
         \/ trash' = [trash EXCEPT ![id] = NoBody] /\ history' = history
         \/ history' = [history EXCEPT ![id] = NoHistory] /\ trash' = trash
  PROVE  Preparing(id)
  <2> USE <1>PreparingDelete
  <2>1. Fallback(id)'
    BY FallbackIdle
  <2>2. \A j \in Ids \ {id} : trash'[j] = trash[j] /\ history'[j] = history[j]
    BY DEF FsType
  <2>3. \A j \in Ids \ {id} : AllSameAt(j)
    BY <2>2 DEF AllSameAt, SameAt
  <2> QED BY <2>1, <2>3 DEF Preparing

<1>0. PICK id : id = w.id
  OBVIOUS
<1>1. id \in Ids /\ DbType /\ FsType /\ Shape(id) /\ HistoryShape(id) /\ Fallback(id)
  BY <1>0, WorkTypes DEF IndInv, TypeOK
<1> DEFINE abort == /\ intent[id].op # "delete" /\ row[id] # NoRow
                    /\ final[id] # intent[id].expected
                    /\ row[id].sha = intent[id].prior /\ final[id] = intent[id].prior
<1>2. CASE intent[id].op = "delete"
  <2>1. DeleteShape(id) /\ RecoverDelete(id, w)
    BY <1>0, <1>1, <1>2 DEF Shape, RecoverIntent
  <2>2. intent[id] # NoIntent
    BY <1>2, SMTT(20) DEF NoIntent
  <2>3. CASE row[id] = NoRow /\ (trash[id] # NoBody \/ history[id] # NoHistory)
    <3>1. todo' = todo /\ Preparing(id)
      BY <1>1, <1>2, <2>1, <2>3, <1>PreparingDelete DEF RecoverDelete
    <3> QED BY <1>0, <1>1, <3>1 DEF RecoverEffect
  <2>4. CASE row[id] = NoRow /\ ~(trash[id] # NoBody \/ history[id] # NoHistory)
    <3>1. /\ Complete(id, "recovered") /\ Done(w)
          /\ UNCHANGED <<row, revs, final, snapTmp, history>>
      BY <2>1, <2>4 DEF RecoverDelete
    <3>2. receipt[id] = "pending" /\ Served(id) = After(id)
      BY <1>1, <1>2, <2>1, <2>4, DeleteServed
    <3> QED BY <1>0, <1>1, <2>2, <3>1, <3>2 DEF RecoverEffect, Closing
  <2>5. CASE row[id] # NoRow /\ final[id] = intent[id].prior
    <3>1. /\ Complete(id, "failure") /\ Done(w)
          /\ UNCHANGED <<row, revs, final, snapTmp, history>>
      BY <2>1, <2>5 DEF RecoverDelete
    <3>2. Served(id) = Before(id)
      BY <1>1, <1>2, <2>1, <2>5, DeleteServed
    <3> QED BY <1>0, <1>1, <2>2, <3>1, <3>2 DEF RecoverEffect, Closing
  <2>6. CASE row[id] # NoRow /\ final[id] # intent[id].prior
    <3>1. Done(w) /\ UNCHANGED <<db, fs>>
      BY <2>1, <2>6 DEF RecoverDelete
    <3>2. Owed(id) /\ final[id] # row[id].sha
      BY <1>1, <1>2, <2>1, <2>6, DeleteServed DEF Owed
    <3> QED BY <1>0, <1>1, <3>1, <3>2 DEF RecoverEffect
  <2> QED BY <2>3, <2>4, <2>5, <2>6
<1>3. CASE intent[id].op = "publish"
  <2>1. PublishShape(id) /\ intent[id] # NoIntent
    BY <1>1, <1>3, SMTT(20) DEF Shape, NoIntent
  <2>2. row[id] # NoRow => row[id].sha = intent[id].expected /\ row[id].sha # intent[id].prior
    BY <2>1, SMTT(20) DEF PublishShape
  <2>3. ~abort
    BY <2>2
  <2>4. CASE row[id] = NoRow
    <3>1. /\ Complete(id, "failure") /\ Done(w)
          /\ UNCHANGED <<row, revs, final, snapTmp, history>>
      BY <1>0, <1>3, <2>3, <2>4 DEF RecoverIntent
    <3>2. Served(id) = Before(id)
      BY <1>1, <1>3, <2>1, <2>4, PublishServed
    <3> QED BY <1>0, <1>1, <2>1, <3>1, <3>2 DEF RecoverEffect, Closing
  <2>5. CASE row[id] # NoRow /\ final[id] = intent[id].expected
    <3>1. FinishCurrentBody(id, w, "recovered")
      BY <1>0, <1>3, <2>3, <2>5 DEF RecoverIntent
    <3> QED BY <1>0, <1>1, <1>3, <2>5, <3>1, FinishCases DEF RecoverEffect
  <2>6. CASE row[id] # NoRow /\ final[id] # intent[id].expected
    <3>1. Done(w) /\ UNCHANGED <<db, fs>>
      BY <1>0, <1>3, <2>3, <2>6 DEF RecoverIntent
    <3>2. Owed(id) /\ final[id] # row[id].sha
      BY <1>3, <2>2, <2>6 DEF Owed
    <3> QED BY <1>0, <1>1, <3>1, <3>2 DEF RecoverEffect
  <2> QED BY <2>4, <2>5, <2>6
<1>4. CASE intent[id].op = "update"
  <2>1. UpdateShape(id) /\ row[id] # NoRow /\ intent[id] # NoIntent
    BY <1>1, <1>4, UpdateRowCases, SMTT(20) DEF Shape, NoIntent
  <2>2. CASE abort
    <3>1. AbortCurrentBody(id, w) /\ ~Committed(id)
      <4>1. AbortCurrentBody(id, w)
        BY <1>0, <2>2 DEF RecoverIntent
      <4>2. ~Committed(id)
        BY <1>1, <1>4, <2>1, <2>2, UpdateRowCases
      <4> QED BY <4>1, <4>2
    <3>2. Served(id) = Before(id)
      BY <1>1, <1>4, <2>1, <3>1, UpdateServed
    <3>3. CASE Complete(id, "failure") /\ Done(w) /\ UNCHANGED <<row, revs, final, snapTmp, history>>
      BY <1>0, <1>1, <2>1, <3>2, <3>3 DEF RecoverEffect, Closing
    <3>4. CASE /\ staging' = [staging EXCEPT ![id] = NoBody]
               /\ UNCHANGED <<db, final, trash, snapTmp, history, scraps, todo>>
      <4>1. final'[id] # NoBody /\ ~Committed(id)'
        BY <2>1, <2>2, <3>1, <3>4 DEF UpdateShape, Committed
      <4>2. Fallback(id)'
        BY <1>1, <1>4, <3>4, <4>1, FallbackUpdate
      <4>3. \A j \in Ids \ {id} : AllSameAt(j)
        BY <1>1, <3>4 DEF AllSameAt, SameAt, FsType
      <4> QED BY <1>0, <1>1, <3>4, <4>2, <4>3 DEF RecoverEffect, Preparing
    <3> QED BY <3>1, <3>3, <3>4 DEF AbortCurrentBody
  <2>3. CASE ~abort /\ final[id] = intent[id].expected
    <3>1. FinishCurrentBody(id, w, "recovered")
      BY <1>0, <1>4, <2>1, <2>3 DEF RecoverIntent
    <3> QED BY <1>0, <1>1, <1>4, <2>1, <2>3, <3>1, FinishCases DEF RecoverEffect
  <2>4. CASE ~abort /\ final[id] # intent[id].expected
    <3>1. Done(w) /\ UNCHANGED <<db, fs>>
      BY <1>0, <1>4, <2>1, <2>4 DEF RecoverIntent
    <3>2. Committed(id) /\ row[id].sha = intent[id].expected
      BY <1>1, <1>4, <2>1, <2>4, UpdateRowCases
    <3>3. ~MetadataOnly(id)
      BY <2>1, <2>4 DEF UpdateShape, MetadataOnly
    <3> QED BY <1>0, <1>1, <2>1, <2>4, <3>1, <3>2, <3>3 DEF RecoverEffect, Owed
  <2> QED BY <2>2, <2>3, <2>4
<1>5. CASE intent[id] = NoIntent
  <2>1. intent[id].op = "none" /\ intent[id].expected = NoBody /\ intent[id].prior = NoBody
    BY <1>5, SMTT(20) DEF NoIntent
  <2>2. row[id] # NoRow => final[id] # NoBody /\ row[id].sha # NoBody
    BY <1>1, <1>5, RowTypes DEF Shape, ClosedShape
  <2>3. Done(w) /\ UNCHANGED <<db, fs>>
    BY <1>0, <2>1, <2>2 DEF RecoverIntent
  <2> QED BY <1>0, <1>1, <1>5, <2>3 DEF RecoverEffect
<1> QED BY <1>1, <1>2, <1>3, <1>4, <1>5, IntentTypes DEF Operations

\* resolve_durability_intents closes every intent it finds but the two that stay.
ResolveEffect(w) ==
  \/ Done(w) /\ \E result \in {"recovered", "failure"} : Closing(w.id, result)
  \/ /\ Done(w) /\ UNCHANGED <<db, fs>>
     /\ intent[w.id] # NoIntent => HalfCompensated(w.id) \/ TrashLeft(w.id)

LEMMA ResolveCases ==
  ASSUME IndInv, RecoveryInv, NEW w \in todo, ResolveIntent(w)
  PROVE  w.id \in Ids /\ ResolveEffect(w)
<1>0. PICK id : id = w.id
  OBVIOUS
<1>1. id \in Ids /\ DbType /\ FsType /\ Shape(id) /\ HistoryShape(id) /\ Fallback(id)
  BY <1>0, WorkTypes DEF IndInv, TypeOK, RecoveryInv
<1>2. intent[id] # NoIntent => Owed(id) /\ (final[id] = row[id].sha \/ HalfCompensated(id))
  BY <1>1 DEF RecoveryInv, Recovering, ResolveIntent
<1>3. CASE intent[id].op = "delete"
  <2>1. DeleteShape(id) /\ intent[id] # NoIntent
    BY <1>1, <1>3, SMTT(20) DEF Shape, NoIntent
  <2>2. row[id] # NoRow /\ final[id] = intent[id].prior
    BY <1>1, <1>2, <1>3, <2>1, DeleteServed DEF Owed, HalfCompensated
  <2>3. CASE trash[id] = NoBody
    <3>1. /\ Complete(id, "failure") /\ Done(w)
          /\ UNCHANGED <<row, revs, final, snapTmp, history>>
      BY <1>0, <1>3, <2>2, <2>3 DEF ResolveIntent
    <3>2. Served(id) = Before(id)
      BY <1>1, <1>3, <2>1, <2>2, DeleteServed
    <3> QED BY <1>0, <1>1, <2>1, <3>1, <3>2 DEF ResolveEffect, Closing
  <2>4. CASE trash[id] # NoBody
    <3>0. ~(intent[id].op = "publish")
      BY <1>3
    <3>1. Done(w) /\ UNCHANGED <<db, fs>>
      BY <1>0, <1>3, <2>4, <3>0 DEF ResolveIntent
    <3>2. TrashLeft(id)
      BY <1>3, <2>1, <2>2, <2>4 DEF TrashLeft, DeleteShape
    <3> QED BY <1>0, <1>1, <3>1, <3>2 DEF ResolveEffect
  <2> QED BY <2>3, <2>4
<1>4. CASE intent[id].op \in {"publish", "update"}
  <2>0. intent[id] # NoIntent /\ intent[id].op # "delete"
    BY <1>4, SMTT(20) DEF NoIntent
  <2>1. row[id] # NoRow /\ Owed(id)
    BY <1>2, <2>0 DEF Owed
  <2>2. row[id].sha = intent[id].expected /\ (row[id].sha = intent[id].prior => MetadataOnly(id))
    <3>1. CASE intent[id].op = "publish"
      BY <1>1, <2>1, <3>1, SMTT(20) DEF Shape, PublishShape, MetadataOnly
    <3>2. CASE intent[id].op = "update"
      BY <1>1, <2>1, <3>2, UpdateRowCases DEF Shape, Owed, MetadataOnly
    <3> QED BY <1>4, <3>1, <3>2
  <2>3. CASE final[id] = intent[id].expected
    <3>1. FinishCurrentBody(id, w, "recovered")
      BY <1>0, <2>0, <2>1, <2>2, <2>3 DEF ResolveIntent
    <3>2. ~(intent[id].op = "update" /\ MetadataOnly(id))
      BY <2>1 DEF Owed
    <3> QED BY <1>0, <1>1, <1>4, <2>1, <2>3, <3>1, <3>2, FinishCases DEF ResolveEffect
  <2>4. CASE final[id] # intent[id].expected
    <3>1. Done(w) /\ UNCHANGED <<db, fs>>
      BY <1>0, <2>0, <2>1, <2>4 DEF ResolveIntent
    <3>2. HalfCompensated(id)
      BY <1>2, <2>0, <2>2, <2>4
    <3> QED BY <1>0, <1>1, <3>1, <3>2 DEF ResolveEffect
  <2> QED BY <2>3, <2>4
<1>5. CASE intent[id] = NoIntent
  <2>1. intent[id].op = "none" /\ intent[id].expected = NoBody
    BY <1>5, SMTT(20) DEF NoIntent
  <2>2. row[id] # NoRow => final[id] # NoBody
    BY <1>1, <1>5, RowTypes DEF Shape, ClosedShape
  <2>3. Done(w) /\ UNCHANGED <<db, fs>>
    BY <1>0, <2>1, <2>2 DEF ResolveIntent
  <2> QED BY <1>0, <1>1, <1>5, <2>3 DEF ResolveEffect
<1> QED BY <1>1, <1>3, <1>4, <1>5, IntentTypes DEF Operations

\* reconcile_transient keeps the path, discards it, installs it, or makes room
\* for it by moving the outgoing body of a committed update to history.
SweepKeeps(w) ==
  /\ Done(w) /\ UNCHANGED <<db, fs>>
  /\ intent[w.id] # NoIntent => w.body # row[w.id].sha

SweepDiscards(w) ==
  /\ Done(w) /\ UNCHANGED <<db, final, snapTmp, history>>
  /\ TakeTransient(w) \/ UNCHANGED <<staging, trash, scraps>>
  /\ row[w.id] = NoRow => w.scrap
  /\ row[w.id] # NoRow => final[w.id] # NoBody
  /\ row[w.id] # NoRow /\ w.kind = "staging" => final[w.id] = row[w.id].sha

SweepInstalls(w) ==
  /\ Done(w) /\ TakeTransient(w) /\ UNCHANGED <<db, snapTmp, history>>
  /\ row[w.id] # NoRow /\ final[w.id] # row[w.id].sha
  /\ final' = [final EXCEPT ![w.id] = row[w.id].sha]

SweepPreserves(w) ==
  /\ todo' = todo /\ UNCHANGED <<db, staging, trash, snapTmp, scraps>>
  /\ intent[w.id].op = "update" /\ w.kind = "staging" /\ w.body = row[w.id].sha
  /\ row[w.id] # NoRow /\ final[w.id] # row[w.id].sha
  /\ final' = [final EXCEPT ![w.id] = NoBody]
  /\ history' = [history EXCEPT ![w.id][Outgoing(w.id)] = final[w.id]]

LEMMA SweepCases ==
  ASSUME IndInv, RecoveryInv, NEW w \in todo, SweepTransient(w)
  PROVE  /\ w.id \in Ids /\ (w.kind = "trash" => \A v \in todo : v.kind = "trash")
         /\ SweepKeeps(w) \/ SweepDiscards(w) \/ SweepInstalls(w) \/ SweepPreserves(w)
<1>0. PICK id : id = w.id
  OBVIOUS
<1>1. id \in Ids /\ DbType /\ FsType /\ Shape(id) /\ Fallback(id)
  BY <1>0, WorkTypes DEF IndInv, TypeOK, RecoveryInv
<1>2. intent[id] # NoIntent => Owed(id)
  BY <1>1 DEF RecoveryInv, Recovering, SweepTransient
<1>3. w.kind = "trash" => \A v \in todo : v.kind = "trash"
  BY DEF SweepTransient
<1>4. row[id] # NoRow => row[id].sha # NoBody
  BY <1>1, RowTypes
<1>5. ASSUME row[id] # NoRow, final[id] # NoBody, final[id] # row[id].sha
      PROVE  /\ intent[id].op = "update" /\ row[id].rev - 1 = Outgoing(id)
             /\ ~(row[id].rev - 1 < 1) /\ revs[id][row[id].rev - 1] # NoBody
  <2>1. intent[id] # NoIntent
    BY <1>1, <1>5 DEF Shape, ClosedShape
  <2>2. intent[id].op # "publish"
    BY <1>1, <1>5, SMTT(20) DEF Shape, PublishShape
  <2>3. intent[id].op # "delete"
    BY <1>1, <1>5, SMTT(20) DEF Shape, DeleteShape
  <2>4. intent[id].op = "update"
    BY <1>1, <2>1, <2>2, <2>3, IntentTypes DEF Operations
  <2>5. Committed(id) /\ UpdateShape(id)
    BY <1>1, <1>2, <2>1, <2>4 DEF Owed, Shape
  <2>6. row[id].rev - 1 = Outgoing(id) /\ Outgoing(id) \in Revisions
    BY <1>1, <2>4, <2>5, UpdateRowCases
  <2>7. revs[id][Outgoing(id)] # NoBody
    BY <1>1, <2>4, <2>5 DEF Fallback, UpdateShape
  <2>8. ~(Outgoing(id) < 1)
    BY <2>6, SMTT(20) DEF Revisions
  <2> QED BY <2>4, <2>6, <2>7, <2>8
<1>6. CASE row[id] = NoRow
  <2>1. intent[id] = NoIntent
    BY <1>2, <1>6 DEF Owed
  <2>2. IF w.scrap THEN DiscardTransient(w) ELSE KeepTransient(w)
    BY <1>0, <1>6 DEF SweepTransient
  <2>3. SweepKeeps(w) \/ SweepDiscards(w)
    BY <1>0, <1>6, <2>1, <2>2 DEF SweepKeeps, SweepDiscards, DiscardTransient, KeepTransient
  <2> QED BY <1>0, <1>1, <1>3, <2>3
<1>7. CASE row[id] # NoRow /\ final[id] = NoBody
  <2>1. IF w.body = row[id].sha THEN InstallTransient(w) ELSE KeepTransient(w)
    BY <1>0, <1>7 DEF SweepTransient
  <2>2. SweepKeeps(w) \/ SweepInstalls(w)
    BY <1>0, <1>4, <1>7, <2>1 DEF SweepKeeps, SweepInstalls, InstallTransient, KeepTransient
  <2> QED BY <1>0, <1>1, <1>3, <2>2
<1>8. CASE row[id] # NoRow /\ final[id] # NoBody /\ w.kind = "staging" /\ final[id] # row[id].sha
  <2>1. IF w.body # row[id].sha THEN KeepTransient(w)
        ELSE IF history[id][row[id].rev - 1] = NoBody THEN PreserveOutgoing(id)
        ELSE InstallTransient(w)
    BY <1>0, <1>5, <1>8 DEF SweepTransient
  <2>2. CASE w.body # row[id].sha
    BY <1>0, <1>1, <1>3, <2>1, <2>2 DEF SweepKeeps, KeepTransient
  <2>3. CASE w.body = row[id].sha /\ InstallTransient(w)
    <3>1. SweepInstalls(w)
      BY <1>0, <1>8, <2>3 DEF SweepInstalls, InstallTransient
    <3> QED BY <1>0, <1>1, <1>3, <3>1
  <2>4. CASE w.body = row[id].sha /\ PreserveOutgoing(id)
    <3>1. SweepPreserves(w)
      BY <1>0, <1>5, <1>8, <2>4 DEF SweepPreserves, PreserveOutgoing
    <3> QED BY <1>0, <1>1, <1>3, <3>1
  <2> QED BY <2>1, <2>2, <2>3, <2>4
<1>9. CASE /\ row[id] # NoRow /\ final[id] # NoBody
           /\ ~(w.kind = "staging" /\ final[id] # row[id].sha)
  <2>1. DiscardTransient(w)
    BY <1>0, <1>9 DEF SweepTransient
  <2>2. SweepDiscards(w)
    BY <1>0, <1>9, <2>1 DEF SweepDiscards, DiscardTransient
  <2> QED BY <1>0, <1>1, <1>3, <2>2
<1> QED BY <1>6, <1>7, <1>8, <1>9

-----------------------------------------------------------------------------
(* What a step of reconciliation leaves alone. *)

\* Where a step of recovery or resolution stands: it changes one artifact.
LEMMA EffectFrame ==
  ASSUME NEW id \in Ids, DbType, FsType,
         Preparing(id) \/ (\E result \in {"recovered", "failure"} : Closing(id, result))
                       \/ UNCHANGED <<db, fs>>
  PROVE  \A j \in Ids \ {id} : AllSameAt(j)
<1>1. ASSUME NEW result \in {"recovered", "failure"}, Closing(id, result)
      PROVE  \A j \in Ids \ {id} : AllSameAt(j)
  <2>1. \A j \in Ids \ {id} : intent'[j] = intent[j] /\ receipt'[j] = receipt[j]
                              /\ blocked'[j] = blocked[j]
    BY <1>1 DEF Closing, Complete, Settle, FinishIntent, DbType
  <2>2. \A j \in Ids \ {id} : staging'[j] = staging[j] /\ trash'[j] = trash[j]
                              /\ scraps'[j] = scraps[j]
    BY <1>1 DEF Closing, Complete, FsType
  <2>3. UNCHANGED <<row, revs, final, history>>
    BY <1>1 DEF Closing
  <2> QED BY <2>1, <2>2, <2>3 DEF AllSameAt, SameAt
<1>2. CASE UNCHANGED <<db, fs>>
  BY <1>2 DEF AllSameAt, SameAt
<1> QED BY <1>1, <1>2 DEF Preparing

\* The transient path of a sweep item goes; nothing else moves.
LEMMA TakeFrame ==
  ASSUME FsType, NEW w, w.id \in Ids, TakeTransient(w)
  PROVE  \A j \in Ids \ {w.id} : staging'[j] = staging[j] /\ trash'[j] = trash[j]
                                 /\ scraps'[j] = scraps[j]
BY DEF TakeTransient, FsType

LEMMA SweepFrame ==
  ASSUME IndInv, NEW w, w.id \in Ids,
         SweepKeeps(w) \/ SweepDiscards(w) \/ SweepInstalls(w) \/ SweepPreserves(w)
  PROVE  \A j \in Ids \ {w.id} : AllSameAt(j)
<1>0. DbType /\ FsType
  BY DEF IndInv, TypeOK
<1>1. CASE SweepKeeps(w)
  BY <1>1 DEF SweepKeeps, AllSameAt, SameAt
<1>2. CASE SweepDiscards(w)
  BY <1>0, <1>2, TakeFrame DEF SweepDiscards, AllSameAt, SameAt
<1>3. CASE SweepInstalls(w)
  <2>1. \A j \in Ids \ {w.id} : final'[j] = final[j]
    BY <1>0, <1>3 DEF SweepInstalls, FsType
  <2> QED BY <1>0, <1>3, <2>1, TakeFrame DEF SweepInstalls, AllSameAt, SameAt
<1>4. CASE SweepPreserves(w)
  <2>1. \A j \in Ids \ {w.id} : final'[j] = final[j] /\ history'[j] = history[j]
    BY <1>0, <1>4 DEF SweepPreserves, FsType
  <2> QED BY <1>4, <2>1 DEF SweepPreserves, AllSameAt, SameAt
<1> QED BY <1>1, <1>2, <1>3, <1>4

-----------------------------------------------------------------------------
(* A step of a mutation leaves every other artifact alone. *)

Apart(j) == AllSameAt(j) /\ announced'[j] = announced[j] /\ ledger'[j] = ledger[j]

LEMMA SettleApart ==
  ASSUME NEW id \in Ids, DbType, NEW result, Settle(id, result)
  PROVE  \A j \in Ids \ {id} : /\ intent'[j] = intent[j] /\ receipt'[j] = receipt[j]
                               /\ blocked'[j] = blocked[j] /\ announced'[j] = announced[j]
                               /\ ledger'[j] = ledger[j]
BY DEF Settle, FinishIntent, DbType

LEMMA PublishApart ==
  ASSUME NEW id \in Ids, DbType, FsType, PublishStep(id)
  PROVE  \A j \in Ids \ {id} : Apart(j)
<1> SUFFICES ASSUME NEW j \in Ids, j # id PROVE Apart(j)
  OBVIOUS
<1> USE DEF Apart, AllSameAt, SameAt
<1>1. CASE PublishWrite(id) \/ PublishSync(id) \/ PublishAdvance(id) \/ PublishRename(id)
        \/ PublishDurable(id) \/ PublishUndoFinal(id)
  BY <1>1 DEF PublishWrite, PublishSync, PublishAdvance, PublishRename, PublishDurable,
     PublishUndoFinal, FsType
<1>2. CASE PublishDropStaging(id) \/ PublishUndoStaging(id)
  BY <1>2 DEF PublishDropStaging, PublishUndoStaging, SafeRemoveStaging, FsType
<1>3. CASE PublishInsert(id) \/ PublishUndoRow(id) \/ PublishDropIntent(id)
  BY <1>3 DEF PublishInsert, PublishUndoRow, PublishDropIntent, ReserveReceipt, Fanout,
     FinishIntent, DbType
<1>4. CASE PublishFinalize(id) \/ PublishCancel(id)
  BY <1>4, SettleApart DEF PublishFinalize, PublishCancel, Cancel
<1> QED BY <1>1, <1>2, <1>3, <1>4 DEF PublishStep

LEMMA UpdateApart ==
  ASSUME NEW id \in Ids, DbType, FsType, UpdateStep(id)
  PROVE  \A j \in Ids \ {id} : Apart(j)
<1> SUFFICES ASSUME NEW j \in Ids, j # id PROVE Apart(j)
  OBVIOUS
<1> USE DEF Apart, AllSameAt, SameAt
<1>1. CASE UpdateWrite(id) \/ UpdateSync(id) \/ UpdateSnapshot(id) \/ UpdateCopy(id)
        \/ UpdateSwap(id) \/ UpdateDurable(id)
  BY <1>1 DEF UpdateWrite, UpdateSync, UpdateSnapshot, UpdateCopy, UpdateSwap,
     UpdateDurable, FsType
<1>2. CASE UpdateDropStaging(id) \/ UpdateUndoStaging(id) \/ UpdateUndoSnapshot(id)
        \/ UpdateUndoTemp(id)
  BY <1>2 DEF UpdateDropStaging, UpdateUndoStaging, SafeRemoveStaging,
     UpdateUndoSnapshot, UpdateUndoTemp, FsType
<1>3. CASE UpdateCommit(id) \/ UpdateRevert(id) \/ UpdateDropIntent(id)
  BY <1>3 DEF UpdateCommit, UpdateRevert, UpdateDropIntent, ReserveReceipt, Fanout,
     FinishIntent, DbType
<1>4. CASE UpdateFinalize(id) \/ UpdateCancel(id)
  BY <1>4, SettleApart DEF UpdateFinalize, UpdateCancel, Cancel
<1>5. CASE UpdatePrune(id)
  BY <1>5 DEF UpdatePrune, DbType, FsType
<1> QED BY <1>1, <1>2, <1>3, <1>4, <1>5 DEF UpdateStep

LEMMA DeleteApart ==
  ASSUME NEW id \in Ids, DbType, FsType, DeleteStep(id)
  PROVE  \A j \in Ids \ {id} : Apart(j)
<1> SUFFICES ASSUME NEW j \in Ids, j # id PROVE Apart(j)
  OBVIOUS
<1> USE DEF Apart, AllSameAt, SameAt
<1>1. CASE DeleteTrash(id) \/ DeleteTrashRemove(id) \/ DeleteHistoryRemove(id)
        \/ DeleteDurable(id) \/ DeleteRestore(id)
  BY <1>1 DEF DeleteTrash, DeleteTrashRemove, DeleteHistoryRemove, DeleteDurable,
     DeleteRestore, FsType
<1>2. CASE DeleteRow(id)
  BY <1>2 DEF DeleteRow, Fanout, DbType
<1>3. CASE DeleteFinalize(id) \/ DeleteCancel(id)
  BY <1>3, SettleApart DEF DeleteFinalize, DeleteCancel, Cancel
<1> QED BY <1>1, <1>2, <1>3 DEF DeleteStep

LEMMA BeginApart ==
  ASSUME NEW id \in Ids, DbType, FsType, Begin(id)
  PROVE  /\ \A j \in Ids \ {id} : Apart(j)
         /\ UNCHANGED <<row, revs, blocked, announced, ledger, fs, todo, faults>>
         /\ cur' = id /\ pc' \in {"pubWrite", "updWrite", "updCommit", "delTrash"}
         /\ pc = "idle" /\ intent[id] = NoIntent
<1>1. /\ UNCHANGED <<row, revs, blocked, announced, ledger, fs, todo, faults>>
      /\ cur' = id /\ pc' \in {"pubWrite", "updWrite", "updCommit", "delTrash"}
      /\ pc = "idle" /\ intent[id] = NoIntent
  BY DEF Begin, PublishBegin, UpdateBegin, RestoreBegin, DeleteBegin, Visible
<1>2. \A j \in Ids \ {id} : intent'[j] = intent[j] /\ receipt'[j] = receipt[j]
  BY DEF Begin, PublishBegin, UpdateBegin, RestoreBegin, DeleteBegin, StartIntent,
     ReserveReceipt, DbType
<1> QED BY <1>1, <1>2 DEF Apart, AllSameAt, SameAt

-----------------------------------------------------------------------------
(* RecoveryInv is inductive. *)

\* Every step preserves what a start relies on.
LEMMA NextRecovery == IndInv /\ IndInv' /\ RecoveryInv /\ [Next]_vars => RecoveryInv'
\* Neither does a publish whose row is gone or whose body is live.
<1>FallbackPublish.
  ASSUME NEW j \in Ids, intent'[j].op = "publish",
         \/ row'[j] = NoRow \/ final'[j] = intent'[j].expected
         \/ staging'[j] = intent'[j].expected
  PROVE  Fallback(j)'
  BY <1>FallbackPublish DEF Fallback

\* Steps of a publish keep the body of the row at hand.
<1>PublishFallback.
  ASSUME IndInv, NEW id \in Ids, PublishStep(id), Fallback(id)
  PROVE  Fallback(id)'
  <2> USE <1>PublishFallback
  <2>1. /\ DbType /\ FsType /\ PublishShape(id) /\ PublishRunning(id) /\ intent[id].op = "publish"
    BY PublishControl DEF IndInv, TypeOK, Shape, Running
  <2>2. CASE FinishIntent(id)
    BY <2>1, <2>2, FinishedIntent, FallbackIdle
  <2>3. CASE UNCHANGED <<row, revs, intent, final, staging, scraps>>
    BY <2>3, FallbackFrame
  <2>4. CASE intent' = intent /\ row' = row /\ row[id] = NoRow
    BY <2>1, <2>4, <1>FallbackPublish
  <2>5. CASE PublishWrite(id) \/ PublishSync(id) \/ PublishDropStaging(id) \/ PublishUndoStaging(id)
             \/ PublishUndoFinal(id)
    BY <2>1, <2>4, <2>5 DEF PublishWrite, PublishSync, PublishDropStaging,
       PublishUndoStaging, PublishUndoFinal, PublishRunning
  <2>6. CASE PublishInsert(id)
    <3>1. staging'[id] = intent'[id].expected /\ intent' = intent
      BY <2>1, <2>6 DEF PublishInsert, PublishRunning
    <3> QED BY <2>1, <3>1, <1>FallbackPublish
  <2>7. CASE PublishRename(id)
    <3>1. CASE final' = [final EXCEPT ![id] = staging[id]]
      <4>1. final'[id] = intent'[id].expected /\ intent' = intent
        BY <2>1, <2>7, <3>1 DEF PublishRename, PublishRunning, FsType
      <4> QED BY <2>1, <4>1, <1>FallbackPublish
    <3> QED BY <2>3, <2>7, <3>1 DEF PublishRename
  <2>8. CASE PublishUndoRow(id)
    <3>1. CASE row' = [row EXCEPT ![id] = NoRow]
      <4>1. row'[id] = NoRow /\ intent' = intent
        BY <2>1, <2>8, <3>1 DEF PublishUndoRow, DbType
      <4> QED BY <2>1, <4>1, <1>FallbackPublish
    <3> QED BY <2>3, <2>8, <3>1 DEF PublishUndoRow
  <2>9. CASE PublishAdvance(id) \/ PublishDurable(id)
    BY <2>3, <2>9 DEF PublishAdvance, PublishDurable
  <2>10. CASE PublishFinalize(id) \/ PublishCancel(id) \/ PublishDropIntent(id)
    BY <2>2, <2>3, <2>10 DEF PublishFinalize, PublishCancel, PublishDropIntent, Cancel, Settle
  <2> QED BY <2>5, <2>6, <2>7, <2>8, <2>9, <2>10 DEF PublishStep

\* Steps of an update empty the live path only while the staged body is whole.
<1>UpdateFallback.
  ASSUME IndInv, IndInv', NEW id \in Ids, UpdateStep(id), Fallback(id)
  PROVE  Fallback(id)'
  <2> USE <1>UpdateFallback
  <2>1. /\ DbType /\ FsType /\ UpdateShape(id) /\ UpdateRunning(id) /\ intent[id].op = "update"
    BY UpdateControl DEF IndInv, TypeOK, Shape, Running
  <2>2. CASE FinishIntent(id)
    BY <2>1, <2>2, FinishedIntent, FallbackIdle
  <2>3. CASE UNCHANGED <<row, revs, intent, final, staging, scraps>>
    BY <2>3, FallbackFrame
  <2>p. intent[id].prior # NoBody /\ intent[id].expected # NoBody
    BY <2>1 DEF UpdateShape
  <2>4. ASSUME UNCHANGED <<row, revs, intent>>, final'[id] # NoBody PROVE Fallback(id)'
    <3>1. Committed(id)' => revs'[id][Outgoing(id)'] = intent'[id].prior
      BY <2>1, <2>4 DEF Fallback, Committed, Outgoing
    <3> QED BY <2>1, <2>4, <3>1, FallbackUpdate
  <2>5. CASE UpdateWrite(id) \/ UpdateSync(id) \/ UpdateDropStaging(id)
    <3>1. UNCHANGED <<row, revs, intent, final>> /\ ~Committed(id)
      BY <2>1, <2>5 DEF UpdateWrite, UpdateSync, UpdateDropStaging, UpdateRunning
    <3>2. final[id] = intent[id].prior
      BY <2>1, <3>1 DEF UpdateShape
    <3> QED BY <2>p, <2>4, <3>1, <3>2
  <2>6. CASE UpdateCommit(id)
    <3>1. CASE UNCHANGED <<row, revs>>
      BY <2>3, <2>6, <3>1 DEF UpdateCommit
    <3>2. CASE ~UNCHANGED <<row, revs>>
      <4>1. UNCHANGED <<intent, final>> /\ cur' = id /\ pc' = "updSnapshot" /\ ~Committed(id)
        BY <2>1, <2>6, <3>2 DEF UpdateCommit, UpdateRunning
      <4>2. UpdateRunning(id)' /\ final[id] = intent[id].prior
        BY <2>1, <4>1 DEF IndInv, Running, UpdateSteps, UpdateShape
      <4>3. revs'[id][Outgoing(id)'] = intent'[id].prior
        BY <4>1, <4>2 DEF UpdateRunning
      <4> QED BY <2>1, <2>p, <4>1, <4>2, <4>3, FallbackUpdate
    <3> QED BY <3>1, <3>2
  <2>7. CASE UpdateSnapshot(id)
    <3>1. CASE final' = final
      <4>1. final[id] = intent[id].prior /\ UNCHANGED <<row, revs, intent>>
        BY <2>1, <2>7 DEF UpdateSnapshot, UpdateRunning
      <4> QED BY <2>p, <2>4, <3>1, <4>1
    <3>2. CASE final' # final
      <4>1. UNCHANGED <<row, revs, intent, staging>> /\ staging[id] = intent[id].expected
        BY <2>1, <2>7, <3>2 DEF UpdateSnapshot, UpdateRunning
      <4>2. Committed(id)' => revs'[id][Outgoing(id)'] = intent'[id].prior
        BY <2>1, <4>1 DEF Fallback, Committed, Outgoing
      <4> QED BY <2>1, <4>1, <4>2, FallbackUpdate
    <3> QED BY <3>1, <3>2
  <2>8. CASE UpdateCopy(id) \/ UpdateUndoStaging(id)
    <3>1. final[id] = intent[id].prior /\ UNCHANGED <<row, revs, intent, final>>
      BY <2>1, <2>8 DEF UpdateCopy, UpdateUndoStaging, UpdateRunning
    <3> QED BY <2>p, <2>4, <3>1
  <2>9. CASE UpdateSwap(id)
    <3>1. CASE final' = [final EXCEPT ![id] = staging[id]]
      <4>m. ~MetadataOnly(id) /\ final[id] = NoBody
        BY <2>1, <2>9 DEF UpdateSwap, UpdateRunning, UpdateShape
      <4>1. final'[id] = intent[id].expected /\ UNCHANGED <<row, revs, intent>>
        BY <2>1, <2>9, <3>1, <4>m DEF UpdateSwap, UpdateRunning, FsType
      <4> QED BY <2>p, <2>4, <4>1
    <3> QED BY <2>3, <2>9, <3>1 DEF UpdateSwap
  <2>10. CASE UpdatePrune(id)
    <3>1. /\ final[id] = intent[id].expected /\ UNCHANGED <<row, intent, final>> /\ Committed(id)
      BY <2>1, <2>10 DEF UpdatePrune, UpdateRunning
    <3>2. PICK rows \in SUBSET Prunable(id) :
            revs' = [revs EXCEPT ![id] =
                       [r \in Revisions |-> IF r \in rows THEN NoBody ELSE revs[id][r]]]
      BY <2>10 DEF UpdatePrune
    <3>3. intent[id].target \in Revisions /\ Outgoing(id) \in Revisions
      BY <2>1, UpdateRowCases
    <3>4. Outgoing(id) \notin rows
      <4>1. MaxHistory > 0
        BY SMTT(20)
      <4> QED BY <3>1, <3>2, <3>3, <4>1, OutgoingKept DEF Committed
    <3>5. revs'[id] = [r \in Revisions |-> IF r \in rows THEN NoBody ELSE revs[id][r]]
      BY <2>1, <3>2 DEF DbType
    <3>6. revs'[id][Outgoing(id)] = intent[id].prior
      BY <2>1, <3>1, <3>3, <3>4, <3>5 DEF Fallback
    <3>7. Outgoing(id)' = Outgoing(id)
      BY <3>1 DEF Outgoing
    <3> QED BY <2>1, <2>p, <3>1, <3>6, <3>7, FallbackUpdate
  <2>11. CASE UpdateUndoSnapshot(id)
    <3>1. CASE final' = [final EXCEPT ![id] = history[id][Outgoing(id)]]
      <4>1. history[id][Outgoing(id)] = intent[id].prior
        BY <2>1, <2>11 DEF UpdateUndoSnapshot, UpdateRunning, UpdateShape
      <4>2. final'[id] = intent[id].prior /\ UNCHANGED <<row, revs, intent>>
        BY <2>1, <2>11, <3>1, <4>1 DEF UpdateUndoSnapshot, FsType
      <4> QED BY <2>p, <2>4, <4>2
    <3> QED BY <2>3, <2>11, <3>1 DEF UpdateUndoSnapshot
  <2>12. CASE UpdateRevert(id)
    <3>1. CASE UNCHANGED <<row, revs>>
      BY <2>3, <2>12, <3>1 DEF UpdateRevert
    <3>2. CASE ~UNCHANGED <<row, revs>>
      <4>1. UNCHANGED <<intent, final>> /\ cur' = id /\ pc' = "updUndoTemp" /\ final[id] = intent[id].prior
        BY <2>1, <2>12, <3>2 DEF UpdateRevert, UpdateRunning
      <4>2. ~Committed(id)'
        BY <2>1, <4>1 DEF IndInv, Running, UpdateSteps, UpdateRunning
      <4> QED BY <2>1, <2>p, <4>1, <4>2, FallbackUpdate
    <3> QED BY <3>1, <3>2
  <2>13. CASE UpdateDurable(id) \/ UpdateUndoTemp(id)
    BY <2>3, <2>13 DEF UpdateDurable, UpdateUndoTemp
  <2>14. CASE UpdateFinalize(id) \/ UpdateCancel(id) \/ UpdateDropIntent(id)
    BY <2>2, <2>3, <2>14 DEF UpdateFinalize, UpdateCancel, UpdateDropIntent, Cancel, Settle
  <2> QED BY <2>5, <2>6, <2>7, <2>8, <2>9, <2>10, <2>11, <2>12, <2>13, <2>14 DEF UpdateStep

\* Closing an intent at an artifact.
<1>ClosingEffect.
  ASSUME NEW id \in Ids, DbType, NEW result, Closing(id, result)
  PROVE  intent'[id] = NoIntent
  BY <1>ClosingEffect, FinishedIntent DEF Closing, Complete, Settle

\* The sweep keeps what recovery falls back on.
<1>SweepFallback.
  ASSUME IndInv, RecoveryInv, NEW w \in todo, pc = "sweep", w.id \in Ids,
         SweepKeeps(w) \/ SweepDiscards(w) \/ SweepInstalls(w) \/ SweepPreserves(w)
  PROVE  Fallback(w.id)'
  <2> USE <1>SweepFallback
  <2>0. PICK id : id = w.id
    OBVIOUS
  <2> SUFFICES Fallback(id)'
    BY <2>0
  <2>1. id \in Ids /\ DbType /\ FsType /\ Shape(id) /\ Fallback(id) /\ Present(w)
    BY <2>0, WorkTypes DEF IndInv, TypeOK, RecoveryInv
  <2>2. CASE SweepKeeps(w)
    BY <2>1, <2>2, FallbackFrame DEF SweepKeeps
  <2>3. ASSUME UNCHANGED db, intent[id].op = "update", final'[id] # NoBody PROVE Fallback(id)'
    <3>1. Committed(id)' => revs'[id][Outgoing(id)'] = intent'[id].prior
      BY <2>1, <2>3 DEF Fallback, Committed, Outgoing
    <3> QED BY <2>1, <2>3, <3>1, FallbackUpdate
  <2>4. CASE UNCHANGED db /\ (intent[id] = NoIntent \/ intent[id].op = "delete")
    BY <2>1, <2>4, FallbackIdle
  <2>5. CASE SweepDiscards(w)
    <3>0. UNCHANGED <<db, final>>
      BY <2>5 DEF SweepDiscards
    <3>1. CASE intent[id].op = "publish"
      <4>1. row[id] = NoRow \/ final[id] = intent[id].expected
        BY <2>0, <2>1, <2>5, <3>1 DEF SweepDiscards, Shape, PublishShape
      <4> QED BY <2>1, <3>0, <3>1, <4>1, <1>FallbackPublish
    <3>2. CASE intent[id].op = "update"
      <4>1. row[id] # NoRow
        BY <2>1, <3>2, UpdateRowCases DEF Shape
      <4>2. final'[id] # NoBody
        BY <2>0, <2>5, <3>0, <4>1 DEF SweepDiscards
      <4> QED BY <2>3, <3>0, <3>2, <4>2
    <3> QED BY <2>1, <2>4, <3>0, <3>1, <3>2, IntentTypes DEF Operations
  <2>6. CASE SweepInstalls(w)
    <3>0. UNCHANGED db /\ final'[id] = row[id].sha /\ row[id] # NoRow
      BY <2>0, <2>1, <2>6 DEF SweepInstalls, FsType
    <3>1. CASE intent[id].op = "publish"
      <4>1. row[id].sha = intent[id].expected
        BY <2>1, <3>0, <3>1, SMTT(20) DEF Shape, PublishShape
      <4> QED BY <2>1, <3>0, <3>1, <4>1, <1>FallbackPublish
    <3>2. CASE intent[id].op = "update"
      <4>1. row[id].sha # NoBody
        BY <2>1, <3>0, RowTypes
      <4> QED BY <2>3, <3>0, <3>2, <4>1
    <3> QED BY <2>1, <2>4, <3>0, <3>1, <3>2, IntentTypes DEF Operations
  <2>7. CASE SweepPreserves(w)
    <3>0. /\ UNCHANGED <<db, staging, scraps>> /\ intent[id].op = "update" /\ w.kind = "staging"
          /\ w.body = row[id].sha
      BY <2>0, <2>7 DEF SweepPreserves
    <3>1. Committed(id)
      BY <2>1, <3>0, UpdateRowCases, <2>0, <2>7 DEF Shape, SweepPreserves
    <3>2. w.body = intent[id].expected
      BY <2>1, <3>0, <3>1, UpdateRowCases DEF Shape
    <3>3. \/ staging[id] = intent[id].expected
          \/ [kind |-> "staging", body |-> intent[id].expected] \in scraps[id]
      BY <2>0, <2>1, <3>0, <3>2 DEF Present
    <3>4. Committed(id)' => revs'[id][Outgoing(id)'] = intent'[id].prior
      BY <2>1, <3>0 DEF Fallback, Committed, Outgoing
    <3> QED BY <2>1, <3>0, <3>3, <3>4, FallbackUpdate
  <2> QED BY <2>2, <2>5, <2>6, <2>7

\* Outside a start it only says what recovery could fall back on.
<1>OutsideStart.
  ASSUME \A j \in Ids : Fallback(j)', pc' \notin {"recover", "sweep", "resolve"}
  PROVE  RecoveryInv'
  BY <1>OutsideStart DEF RecoveryInv, Recovering

\* An artifact that a step leaves alone keeps what recovery falls back on.
<1>FallbackApart.
  ASSUME RecoveryInv, NEW id \in Ids, \A j \in Ids \ {id} : AllSameAt(j), Fallback(id)'
  PROVE  \A j \in Ids : Fallback(j)'
  <2> USE <1>FallbackApart
  <2>1. ASSUME NEW j \in Ids, j # id PROVE Fallback(j)'
    BY <2>1, FallbackFrame DEF AllSameAt, SameAt, RecoveryInv
  <2> QED BY <2>1

\* The steps of a mutation, and its start.
<1>StepRecovery.
  ASSUME IndInv, IndInv', RecoveryInv, NEW id \in Ids,
         PublishStep(id) \/ UpdateStep(id) \/ DeleteStep(id)
  PROVE  RecoveryInv'
  <2> USE <1>StepRecovery
  <2>0. DbType /\ FsType /\ Fallback(id) /\ (cur = id => Running(id))
    BY DEF IndInv, TypeOK, RecoveryInv
  <2>1. pc' \notin {"recover", "sweep", "resolve"}
    BY PublishControl, UpdateControl, DeleteControl
       DEF PublishSteps, UpdateSteps, DeleteSteps
  <2>2. \A j \in Ids \ {id} : AllSameAt(j)
    BY <2>0, PublishApart, UpdateApart, DeleteApart DEF Apart
  <2>3. ASSUME DeleteStep(id) PROVE Fallback(id)'
    <3>1. intent[id].op = "delete"
      BY <2>0, <2>3, DeleteControl DEF Running
    <3>2. intent'[id] = intent[id] \/ intent'[id] = NoIntent
      BY <2>0, <2>3, FinishedIntent DEF DeleteStep, DeleteTrash, DeleteRow, DeleteTrashRemove,
         DeleteHistoryRemove, DeleteDurable, DeleteFinalize, DeleteRestore, DeleteCancel, Cancel,
         Settle
    <3> QED BY <3>1, <3>2, FallbackIdle
  <2>4. Fallback(id)'
    BY <2>0, <2>3, <1>PublishFallback, <1>UpdateFallback
  <2> QED BY <2>1, <2>2, <2>4, <1>FallbackApart, <1>OutsideStart

<1>BeginRecovery.
  ASSUME IndInv, IndInv', RecoveryInv, NEW id \in Ids, Begin(id)
  PROVE  RecoveryInv'
  <2> USE <1>BeginRecovery
  <2>0. DbType /\ FsType /\ DbType' /\ Shape(id) /\ Shape(id)'
    BY DEF IndInv, TypeOK
  <2>1. /\ \A j \in Ids \ {id} : AllSameAt(j)
        /\ UNCHANGED <<row, final>>
        /\ pc' \notin {"recover", "sweep", "resolve"} /\ cur' = id
        /\ pc' \in PublishSteps \cup UpdateSteps \cup DeleteSteps
    BY <2>0, BeginApart DEF Apart, PublishSteps, UpdateSteps, DeleteSteps
  <2>2. ASSUME NEW b \in Bodies, PublishBegin(id, b) PROVE Fallback(id)'
    <3>1. row'[id] = NoRow /\ intent'[id].op = "publish"
      BY <2>0, <2>2 DEF PublishBegin, StartIntent, DbType
    <3> QED BY <3>1, <1>FallbackPublish
  <2>3. ASSUME NEW b \in Bodies, NEW r \in Revisions, UpdateBegin(id, r, b) PROVE Fallback(id)'
    <3>1. /\ intent'[id].op = "update" /\ intent'[id].target = row[id].rev + 1
          /\ row'[id] = row[id] /\ row[id] # NoRow /\ final'[id] = row[id].sha
      BY <2>0, <2>3 DEF UpdateBegin, StartIntent, DbType, Visible
    <3>2. row[id].rev \in Int /\ row[id].sha # NoBody
      BY <2>0, <3>1, RowTypes
    <3>3. ~Committed(id)'
      BY <3>1, <3>2, SMTT(20) DEF Committed
    <3> QED BY <3>1, <3>2, <3>3, FallbackUpdate
  <2>4. ASSUME DeleteBegin(id) PROVE Fallback(id)'
    <3>1. intent'[id].op = "delete"
      BY <2>0, <2>4 DEF DeleteBegin, StartIntent, DbType
    <3> QED BY <3>1, FallbackIdle
  <2>5. ASSUME NEW r \in Revisions, RestoreBegin(id, r) PROVE Fallback(id)'
    <3>1. \E b \in Bodies, s \in Revisions : UpdateBegin(id, s, b)
      <4>1. row[id].rev \in Revisions
        BY <2>0, <2>5, RowTypes DEF RestoreBegin, UpdateBegin, Visible
      <4> QED BY <2>5, <4>1 DEF RestoreBegin
    <3> QED BY <2>3, <3>1
  <2>6. Fallback(id)'
    BY <2>2, <2>3, <2>4, <2>5 DEF Begin
  <2> QED BY <2>1, <2>6, <1>FallbackApart, <1>OutsideStart

\* What the recovery phase could not close has its body at a transient path, or
\* is a half compensated update.
<1>OwedBody.
  ASSUME NEW id \in Ids, DbType, FsType, Shape(id), Fallback(id), intent[id] # NoIntent,
         Owed(id), final[id] # row[id].sha
  PROVE  \/ HalfCompensated(id)
         \/ /\ row[id].sha # NoBody
            /\ \/ staging[id] = row[id].sha
               \/ [kind |-> "staging", body |-> row[id].sha] \in scraps[id]
               \/ trash[id] = row[id].sha /\ intent[id].op = "delete"
  <2> USE <1>OwedBody
  <2>1. row[id] # NoRow /\ row[id].sha # NoBody
    BY RowTypes DEF Owed
  <2>2. CASE intent[id].op = "publish"
    <3>1. row[id].sha = intent[id].expected
      BY <2>1, <2>2, SMTT(20) DEF Shape, PublishShape
    <3> QED BY <2>1, <2>2, <3>1 DEF Fallback
  <2>3. CASE intent[id].op = "update"
    <3>1. /\ Committed(id) /\ ~MetadataOnly(id) /\ row[id].sha = intent[id].expected
          /\ row[id].rev = intent[id].target
      BY <2>3, UpdateRowCases DEF Shape, Owed
    <3>2. final[id] \in {NoBody, intent[id].prior}
      BY <2>3, <3>1 DEF Shape, UpdateShape
    <3>3. row[id] = [rev |-> intent[id].target, sha |-> intent[id].expected]
      BY <2>1, <3>1, RowTypes
    <3> QED BY <2>1, <2>3, <3>1, <3>2, <3>3 DEF Fallback, HalfCompensated
  <2>4. CASE intent[id].op = "delete"
    <3>1. row[id].sha = intent[id].prior
      BY <2>1, <2>4, SMTT(20) DEF Shape, DeleteShape
    <3> QED BY <2>1, <2>4, <3>1 DEF Shape, DeleteShape
  <2> QED BY <2>2, <2>3, <2>4, IntentTypes DEF Operations

\* The items of the sweep are the transient files.
<1>SweepItems.
  ASSUME FsType
  PROVE  /\ \A w \in SweepWork : Present(w)
         /\ \A id \in Ids :
              /\ staging[id] # NoBody => Item(id, "staging", FALSE, staging[id]) \in SweepWork
              /\ trash[id] # NoBody => Item(id, "trash", FALSE, trash[id]) \in SweepWork
              /\ \A b : [kind |-> "staging", body |-> b] \in scraps[id]
                          => Item(id, "staging", TRUE, b) \in SweepWork
  <2> USE <1>SweepItems
  <2>1. ASSUME NEW w \in SweepWork PROVE Present(w)
    <3>1. \/ \E id \in Ids : w = Item(id, "staging", FALSE, staging[id])
          \/ \E id \in Ids : w = Item(id, "trash", FALSE, trash[id])
          \/ \E id \in Ids : \E x \in scraps[id] : w = Item(id, x.kind, TRUE, x.body)
      BY DEF SweepWork
    <3>2. CASE \E id \in Ids : w = Item(id, "staging", FALSE, staging[id])
      BY <3>2, SMTT(20) DEF Present, Item
    <3>3. CASE \E id \in Ids : w = Item(id, "trash", FALSE, trash[id])
      BY <3>3, SMTT(20) DEF Present, Item
    <3>4. CASE \E id \in Ids : \E x \in scraps[id] : w = Item(id, x.kind, TRUE, x.body)
      <4>0. PICK id \in Ids : \E x \in scraps[id] : w = Item(id, x.kind, TRUE, x.body)
        BY <3>4
      <4>1. PICK x \in scraps[id] : w = Item(id, x.kind, TRUE, x.body)
        BY <4>0
      <4>2. x = [kind |-> x.kind, body |-> x.body]
        BY SMTT(20) DEF FsType, Scraps
      <4>3. w.id = id /\ w.kind = x.kind /\ w.body = x.body /\ w.scrap = TRUE
        BY <4>1 DEF Item
      <4> QED BY <4>2, <4>3 DEF Present
    <3> QED BY <3>1, <3>2, <3>3, <3>4
  <2>2. ASSUME NEW id \in Ids
        PROVE  /\ staging[id] # NoBody => Item(id, "staging", FALSE, staging[id]) \in SweepWork
               /\ trash[id] # NoBody => Item(id, "trash", FALSE, trash[id]) \in SweepWork
    BY DEF SweepWork
  <2>3. ASSUME NEW id \in Ids, NEW b, [kind |-> "staging", body |-> b] \in scraps[id]
        PROVE  Item(id, "staging", TRUE, b) \in SweepWork
    <3>1. PICK x \in scraps[id] : x = [kind |-> "staging", body |-> b]
      BY <2>3
    <3>2. x.kind = "staging" /\ x.body = b
      BY <3>1
    <3>3. PICK S : S = {Item(id, y.kind, TRUE, y.body) : y \in scraps[id]}
      OBVIOUS
    <3>4. S \in {{Item(i, y.kind, TRUE, y.body) : y \in scraps[i]} : i \in Ids}
      BY <3>3
    <3>5. Item(id, x.kind, TRUE, x.body) \in S
      BY <3>3
    <3>6. Item(id, x.kind, TRUE, x.body) \in SweepWork
      BY <3>4, <3>5 DEF SweepWork
    <3> QED BY <3>2, <3>6
  <2> QED BY <2>1, <2>2, <2>3

\* What is settled, owed or half compensated does not depend on the phase.
<1>StillOwed.
  ASSUME NEW j \in Ids, row'[j] = row[j], intent'[j] = intent[j], final'[j] = final[j],
         staging'[j] = staging[j], trash'[j] = trash[j]
  PROVE  /\ Owed(j) => Owed(j)'
         /\ HalfCompensated(j) => HalfCompensated(j)'
         /\ TrashLeft(j) => TrashLeft(j)'
  BY <1>StillOwed DEF Owed, HalfCompensated, TrashLeft, Committed, MetadataOnly

\* The stop and the steps between the phases of a start.
<1>PhasesRecovery.
  ASSUME IndInv, RecoveryInv,
         Crash \/ Restart \/ EnterSweep \/ ReclaimOrphanHistory \/ FinishStart
  PROVE  RecoveryInv'
  <2> USE <1>PhasesRecovery
  <2>0. DbType /\ FsType /\ \A j \in Ids : Shape(j) /\ Fallback(j)
    BY DEF IndInv, TypeOK, RecoveryInv
  <2>1. UNCHANGED <<row, revs, intent, final, staging, trash, scraps>>
    BY DEF Crash, Restart, EnterSweep, ReclaimOrphanHistory, FinishStart
  <2>2. \A j \in Ids : Fallback(j)'
    BY <2>0, <2>1, FallbackFrame
  <2>3. ASSUME NEW j \in Ids
        PROVE  /\ Owed(j) => Owed(j)'
               /\ HalfCompensated(j) => HalfCompensated(j)'
    BY <2>1, <1>StillOwed
  <2>4. ASSUME NEW j \in Ids, intent[j] # NoIntent PROVE IntentItem(j) \in IntentWork
    BY <2>4 DEF IntentWork, IntentItem
  <2>5. CASE Crash \/ FinishStart
    BY <2>2, <2>5, <1>OutsideStart DEF Crash, FinishStart
  <2>6. CASE Restart
    <3>1. pc' = "recover" /\ todo' = IntentWork
      BY <2>6 DEF Restart
    <3>2. ASSUME NEW j \in Ids, intent'[j] # NoIntent PROVE Recovering(j)'
      BY <2>1, <2>4, <3>1, <3>2 DEF Recovering, IntentItem, Item
    <3> QED BY <2>2, <3>1, <3>2 DEF RecoveryInv
  <2>7. CASE EnterSweep
    <3>1. pc = "recover" /\ todo = {} /\ pc' = "sweep" /\ todo' = SweepWork
      BY <2>7 DEF EnterSweep
    <3>2. \A w \in todo' : Present(w)'
      BY <2>0, <2>1, <3>1, <1>SweepItems DEF Present
    <3>3. ASSUME NEW j \in Ids, intent'[j] # NoIntent PROVE Recovering(j)'
      <4>1. Owed(j) /\ final[j] # row[j].sha
        BY <2>1, <3>1, <3>3 DEF RecoveryInv, Recovering
      <4>2. CASE HalfCompensated(j)
        BY <2>3, <3>1, <4>1, <4>2 DEF Recovering
      <4>3. ASSUME NEW kind \in {"staging", "trash"}, NEW scrap, NEW b, b = row[j].sha,
                   Item(j, kind, scrap, b) \in SweepWork,
                   kind = "staging" \/ intent[j].op = "delete"
            PROVE  Restorable(j)'
        <5>1. PICK w \in todo' : w = Item(j, kind, scrap, b)
          BY <3>1, <4>3
        <5>2. w.id = j /\ w.body = b /\ w.kind = kind
          BY <5>1 DEF Item
        <5> QED BY <2>1, <4>3, <5>2 DEF Restorable
      <4>4. ASSUME staging[j] = row[j].sha, row[j].sha # NoBody  PROVE Restorable(j)'
        BY <2>0, <4>3, <4>4, <1>SweepItems
      <4>5. ASSUME [kind |-> "staging", body |-> row[j].sha] \in scraps[j]  PROVE Restorable(j)'
        BY <2>0, <4>3, <4>5, <1>SweepItems
      <4>6. ASSUME trash[j] = row[j].sha, intent[j].op = "delete", row[j].sha # NoBody
            PROVE Restorable(j)'
        BY <2>0, <4>3, <4>6, <1>SweepItems
      <4>7. HalfCompensated(j) \/ Restorable(j)'
        BY <2>0, <2>1, <3>3, <4>1, <4>4, <4>5, <4>6, <1>OwedBody
      <4> QED BY <2>3, <3>1, <4>1, <4>2, <4>7 DEF Recovering
    <3> QED BY <2>2, <3>1, <3>2, <3>3 DEF RecoveryInv
  <2>8. CASE ReclaimOrphanHistory
    <3>1. pc = "sweep" /\ todo = {} /\ pc' = "resolve" /\ todo' = IntentWork
      BY <2>8 DEF ReclaimOrphanHistory
    <3>2. ASSUME NEW j \in Ids, intent'[j] # NoIntent PROVE Recovering(j)'
      <4>1. Owed(j) /\ (final[j] = row[j].sha \/ HalfCompensated(j))
        BY <2>1, <3>1, <3>2 DEF RecoveryInv, Recovering, Restorable
      <4>2. IntentItem(j)' \in todo'
        BY <2>1, <2>4, <3>1, <3>2 DEF IntentItem, Item
      <4> QED BY <2>1, <2>3, <3>1, <4>1, <4>2 DEF Recovering
    <3> QED BY <2>2, <3>1, <3>2 DEF RecoveryInv
  <2> QED BY <2>5, <2>6, <2>7, <2>8

\* A step on the item of one artifact leaves the recovery of the others alone.
<1>RecoveringApart.
  ASSUME RecoveryInv, NEW w, NEW j \in Ids, j # w.id, AllSameAt(j), pc' = pc,
         todo \ {w} \subseteq todo', intent'[j] # NoIntent
  PROVE  Recovering(j)'
  <2> USE <1>RecoveringApart
  <2>1. Recovering(j)
    BY DEF RecoveryInv, AllSameAt, SameAt
  <2>2. /\ Owed(j) => Owed(j)'
        /\ HalfCompensated(j) => HalfCompensated(j)'
        /\ TrashLeft(j) => TrashLeft(j)'
    BY <1>StillOwed DEF AllSameAt, SameAt
  <2>3. IntentItem(j).id = j /\ IntentItem(j)' = IntentItem(j)
    BY DEF IntentItem, Item
  <2>4. IntentItem(j) \in todo => IntentItem(j)' \in todo'
    BY <2>3
  <2>5. Restorable(j) => Restorable(j)'
    BY DEF Restorable, AllSameAt, SameAt
  <2> QED BY <2>1, <2>2, <2>4, <2>5 DEF Recovering, AllSameAt, SameAt

\* A step of a start, from what it does at its own artifact.
<1>ItemRecovery.
  ASSUME RecoveryInv, NEW w, w.id \in Ids, pc' = pc, todo \ {w} \subseteq todo',
         \A j \in Ids \ {w.id} : AllSameAt(j), Fallback(w.id)',
         intent'[w.id] # NoIntent => Recovering(w.id)',
         pc = "sweep" => \A v \in todo' : Present(v)'
  PROVE  RecoveryInv'
  <2> USE <1>ItemRecovery
  <2>1. \A j \in Ids : Fallback(j)'
    BY <1>FallbackApart
  <2>2. ASSUME NEW j \in Ids, intent'[j] # NoIntent PROVE Recovering(j)'
    BY <2>2, <1>RecoveringApart
  <2> QED BY <2>1, <2>2 DEF RecoveryInv

<1>RecoverRecovery.
  ASSUME IndInv, RecoveryInv, NEW w \in todo, RecoverIntent(w)
  PROVE  RecoveryInv'
  <2> USE <1>RecoverRecovery
  <2>0. /\ DbType /\ FsType /\ w.id \in Ids /\ RecoverEffect(w) /\ pc = "recover" /\ pc' = pc
        /\ Fallback(w.id)
    BY RecoverCases DEF IndInv, TypeOK, RecoveryInv, RecoverIntent
  <2>1. todo \ {w} \subseteq todo'
    BY <2>0 DEF RecoverEffect, Done
  <2>2. \A j \in Ids \ {w.id} : AllSameAt(j)
    BY <2>0, EffectFrame DEF RecoverEffect
  <2>3. CASE Preparing(w.id) /\ todo' = todo
    <3>1. UNCHANGED <<row, intent, final, pc, todo>> /\ Fallback(w.id)'
      BY <2>0, <2>3 DEF Preparing
    <3>2. intent'[w.id] # NoIntent => Recovering(w.id)'
      BY <2>0, <3>1 DEF RecoveryInv, Recovering, Owed, Committed, MetadataOnly,
         IntentItem, Item
    <3> QED BY <2>0, <2>1, <2>2, <3>1, <3>2, <1>ItemRecovery
  <2>4. ASSUME NEW result \in {"recovered", "failure"}, Closing(w.id, result)
        PROVE  RecoveryInv'
    <3>1. intent'[w.id] = NoIntent
      BY <2>0, <2>4, <1>ClosingEffect
    <3> QED BY <2>0, <2>1, <2>2, <3>1, FallbackIdle, <1>ItemRecovery
  <2>5. CASE /\ UNCHANGED <<db, fs>>
             /\ intent[w.id] # NoIntent => Owed(w.id) /\ final[w.id] # row[w.id].sha
    <3>1. Fallback(w.id)'
      BY <2>0, <2>5, FallbackFrame
    <3>2. intent'[w.id] # NoIntent => Recovering(w.id)'
      BY <2>0, <2>5 DEF Recovering, Owed, Committed, MetadataOnly
    <3> QED BY <2>0, <2>1, <2>2, <3>1, <3>2, <1>ItemRecovery
  <2> QED BY <2>0, <2>3, <2>4, <2>5 DEF RecoverEffect

<1>ResolveRecovery.
  ASSUME IndInv, RecoveryInv, NEW w \in todo, ResolveIntent(w)
  PROVE  RecoveryInv'
  <2> USE <1>ResolveRecovery
  <2>0. /\ DbType /\ FsType /\ w.id \in Ids /\ ResolveEffect(w) /\ pc = "resolve" /\ pc' = pc
        /\ Fallback(w.id)
    BY ResolveCases DEF IndInv, TypeOK, RecoveryInv, ResolveIntent
  <2>1. todo \ {w} \subseteq todo'
    BY <2>0 DEF ResolveEffect, Done
  <2>2. \A j \in Ids \ {w.id} : AllSameAt(j)
    BY <2>0, EffectFrame DEF ResolveEffect
  <2>4. ASSUME NEW result \in {"recovered", "failure"}, Closing(w.id, result)
        PROVE  RecoveryInv'
    <3>1. intent'[w.id] = NoIntent
      BY <2>0, <2>4, <1>ClosingEffect
    <3> QED BY <2>0, <2>1, <2>2, <3>1, FallbackIdle, <1>ItemRecovery
  <2>5. CASE /\ UNCHANGED <<db, fs>>
             /\ intent[w.id] # NoIntent => HalfCompensated(w.id) \/ TrashLeft(w.id)
    <3>1. Fallback(w.id)'
      BY <2>0, <2>5, FallbackFrame
    <3>2. /\ Owed(w.id) => Owed(w.id)'
          /\ HalfCompensated(w.id) => HalfCompensated(w.id)'
          /\ TrashLeft(w.id) => TrashLeft(w.id)'
      BY <2>0, <2>5, <1>StillOwed
    <3>3. intent'[w.id] # NoIntent => Recovering(w.id)'
      BY <2>0, <2>5, <3>2 DEF RecoveryInv, Recovering
    <3> QED BY <2>0, <2>1, <2>2, <3>1, <3>3, <1>ItemRecovery
  <2> QED BY <2>0, <2>4, <2>5 DEF ResolveEffect

\* Taking the file of one item leaves the files of the others.
<1>PresentTaken.
  ASSUME FsType, CtlType, NEW w \in todo, NEW v \in todo, v # w, Present(w), Present(v),
         TakeTransient(w)
  PROVE  Present(v)'
  <2> USE <1>PresentTaken
  <2>1. /\ w \in Work /\ v \in Work /\ w.id \in Ids /\ v.id \in Ids
        /\ w.scrap \in BOOLEAN /\ v.scrap \in BOOLEAN
    BY WorkTypes DEF CtlType
  <2>2. CASE v.id # w.id
    <3>1. staging'[v.id] = staging[v.id] /\ scraps'[v.id] = scraps[v.id]
      BY <2>1, <2>2, TakeFrame
    <3> QED BY <3>1 DEF Present
  <2>3. CASE v.id = w.id
    <3>0. PICK id \in Ids : id = w.id /\ id = v.id
      BY <2>1, <2>3
    <3>1. ~(v.kind = w.kind /\ v.scrap = w.scrap /\ v.body = w.body)
      BY <2>1, <2>3, SMTT(20) DEF Work
    <3>2. /\ staging'[id] = IF w.kind = "staging" /\ ~w.scrap THEN NoBody ELSE staging[id]
          /\ scraps'[id] = IF w.scrap THEN scraps[id] \ Scrap(w.kind, w.body) ELSE scraps[id]
      BY <3>0 DEF TakeTransient, FsType
    <3>3. CASE v.scrap
      <4>1. [kind |-> v.kind, body |-> v.body] \in scraps[id]
        BY <3>0, <3>3 DEF Present
      <4>2. w.scrap => [kind |-> v.kind, body |-> v.body] # [kind |-> w.kind, body |-> w.body]
        BY <2>1, <3>1, <3>3
      <4>3. [kind |-> v.kind, body |-> v.body] \in scraps'[id]
        BY <3>2, <4>1, <4>2 DEF Scrap
      <4> QED BY <3>0, <3>3, <4>3 DEF Present
    <3>4. CASE ~v.scrap /\ v.kind = "staging"
      <4>1. staging[id] = v.body
        BY <3>0, <3>4 DEF Present
      <4>2. ~(w.kind = "staging" /\ ~w.scrap)
        BY <2>1, <3>0, <3>1, <3>4, <4>1 DEF Present
      <4> QED BY <3>0, <3>2, <3>4, <4>1, <4>2 DEF Present
    <3> QED BY <2>1, <3>3, <3>4 DEF Present
  <2> QED BY <2>2, <2>3

<1>SweepPresent.
  ASSUME IndInv, RecoveryInv, pc = "sweep", NEW w \in todo,
         SweepKeeps(w) \/ SweepDiscards(w) \/ SweepInstalls(w) \/ SweepPreserves(w)
  PROVE  \A v \in todo' : Present(v)'
  <2> USE <1>SweepPresent
  <2>1. \A v \in todo : Present(v)
    BY DEF RecoveryInv
  <2>2. FsType /\ CtlType
    BY DEF IndInv, TypeOK
  <2>3. CASE UNCHANGED <<staging, scraps>> /\ todo' \subseteq todo
    BY <2>1, <2>3 DEF Present
  <2>4. CASE Done(w) /\ TakeTransient(w)
    BY <2>1, <2>2, <2>4, <1>PresentTaken DEF Done
  <2>5. SweepDiscards(w) => <2>3!1 \/ <2>4!1
    BY DEF SweepDiscards, Done
  <2> QED BY <2>3, <2>4, <2>5 DEF SweepKeeps, SweepInstalls, SweepPreserves, Done

<1>SweepRecovering.
  ASSUME IndInv, RecoveryInv, pc = "sweep", pc' = "sweep", NEW w \in todo, w.id \in Ids,
         SweepKeeps(w) \/ SweepDiscards(w) \/ SweepInstalls(w) \/ SweepPreserves(w),
         intent'[w.id] # NoIntent
  PROVE  Recovering(w.id)'
  <2> USE <1>SweepRecovering
  <2>0. PICK id : id = w.id
    OBVIOUS
  <2>1. id \in Ids /\ DbType /\ FsType /\ Shape(id) /\ UNCHANGED <<row, intent>>
    BY <2>0 DEF IndInv, TypeOK, SweepKeeps, SweepDiscards, SweepInstalls, SweepPreserves
  <2>2. Owed(id) /\ (final[id] = row[id].sha \/ HalfCompensated(id) \/ Restorable(id))
    BY <2>0, <2>1 DEF RecoveryInv, Recovering
  <2>3. Owed(id)' /\ row[id] # NoRow
    BY <2>1, <2>2 DEF Owed, Committed, MetadataOnly
  <2>4. SUFFICES (final[id] = row[id].sha \/ HalfCompensated(id) \/ Restorable(id))'
    BY <2>0, <2>3 DEF Recovering
  <2>5. CASE SweepKeeps(w)
    <3>1. HalfCompensated(id) => HalfCompensated(id)'
      BY <2>1, <2>5, <1>StillOwed DEF SweepKeeps
    <3>2. Restorable(id) => Restorable(id)'
      BY <2>0, <2>1, <2>5 DEF Restorable, SweepKeeps, Done
    <3> QED BY <2>2, <2>5, <3>1, <3>2 DEF SweepKeeps
  <2>6. CASE SweepDiscards(w)
    <3>1. final' = final /\ final[id] # NoBody
      BY <2>0, <2>3, <2>6 DEF SweepDiscards
    <3>2. staging'[id] \in {staging[id], NoBody}
      BY <2>0, <2>1, <2>6 DEF SweepDiscards, TakeTransient, FsType
    <3>3. ASSUME HalfCompensated(id) PROVE HalfCompensated(id)'
      <4>1. intent[id].expected # NoBody
        BY <2>1, <3>3, UpdateTypes DEF HalfCompensated, Shape
      <4> QED BY <2>1, <3>1, <3>2, <3>3, <4>1 DEF HalfCompensated, MetadataOnly
    <3>4. ASSUME Restorable(id), final[id] # row[id].sha PROVE Restorable(id)'
      <4>1. w.kind # "staging"
        BY <2>0, <2>3, <2>6, <3>4 DEF SweepDiscards
      <4>2. intent[id].op # "delete"
        BY <2>1, <2>3, <3>1, <3>4, SMTT(20) DEF Shape, DeleteShape
      <4> QED BY <2>1, <2>6, <3>4, <4>1, <4>2 DEF Restorable, SweepDiscards, Done
    <3> QED BY <2>1, <2>2, <3>1, <3>3, <3>4
  <2>7. CASE SweepInstalls(w)
    BY <2>0, <2>1, <2>7 DEF SweepInstalls, FsType
  <2>8. CASE SweepPreserves(w)
    BY <2>0, <2>1, <2>8 DEF SweepPreserves, Restorable
  <2> QED BY <2>5, <2>6, <2>7, <2>8

<1>SweepRecovery.
  ASSUME IndInv, RecoveryInv, NEW w \in todo, SweepTransient(w)
  PROVE  RecoveryInv'
  <2> USE <1>SweepRecovery
  <2>1. pc = "sweep" /\ pc' = pc
    BY DEF SweepTransient
  <2>2. /\ w.id \in Ids
        /\ SweepKeeps(w) \/ SweepDiscards(w) \/ SweepInstalls(w) \/ SweepPreserves(w)
    BY SweepCases, WorkTypes DEF IndInv, TypeOK
  <2>3. todo \ {w} \subseteq todo'
    BY <2>2 DEF SweepKeeps, SweepDiscards, SweepInstalls, SweepPreserves, Done
  <2>4. \A j \in Ids \ {w.id} : AllSameAt(j)
    BY <2>2, SweepFrame
  <2>5. Fallback(w.id)' /\ \A v \in todo' : Present(v)'
    BY <2>1, <2>2, <1>SweepFallback, <1>SweepPresent
  <2>6. intent'[w.id] # NoIntent => Recovering(w.id)'
    BY <2>1, <2>2, <1>SweepRecovering
  <2> QED BY <2>1, <2>2, <2>3, <2>4, <2>5, <2>6, <1>ItemRecovery

<1> SUFFICES ASSUME IndInv, IndInv', RecoveryInv, [Next]_vars PROVE RecoveryInv'
  OBVIOUS
<1>1. CASE Step
  BY <1>1, <1>StepRecovery DEF Step
<1>2. CASE Reconcile
  BY <1>2, <1>PhasesRecovery, <1>RecoverRecovery, <1>SweepRecovery, <1>ResolveRecovery DEF Reconcile
<1>3. CASE Crash
  BY <1>3, <1>PhasesRecovery
<1>4. ASSUME NEW id \in Ids, Begin(id) PROVE RecoveryInv'
  BY <1>4, <1>BeginRecovery
<1>5. CASE UNCHANGED vars
  <2>1. UNCHANGED <<db, fs, cur, pc, todo, faults>>
    BY <1>5 DEF vars, ctl
  <2>2. \A j \in Ids : Fallback(j)'
    BY <2>1, FallbackFrame DEF RecoveryInv
  <2>3. pc' = "sweep" => \A w \in todo' : Present(w)'
    BY <2>1 DEF RecoveryInv, Present
  <2>4. ASSUME NEW j \in Ids, intent'[j] # NoIntent PROVE Recovering(j)'
    <3>1. Recovering(j)
      BY <2>1, <2>4 DEF RecoveryInv
    <3>2. /\ Owed(j) => Owed(j)'
          /\ HalfCompensated(j) => HalfCompensated(j)'
          /\ TrashLeft(j) => TrashLeft(j)'
      BY <2>1, <1>StillOwed
    <3>3. Restorable(j) => Restorable(j)'
      BY <2>1 DEF Restorable
    <3> QED BY <2>1, <3>1, <3>2, <3>3 DEF Recovering, IntentItem, Item
  <2> QED BY <2>2, <2>3, <2>4 DEF RecoveryInv
<1> QED BY <1>1, <1>2, <1>3, <1>4, <1>5 DEF Next

\* The two inductive invariants together.
THEOREM RecoveryInductive == Spec => [](IndInv /\ RecoveryInv)
<1>1. Init => RecoveryInv
  BY SMTT(20) DEF Init, RecoveryInv, Fallback, NoIntent
<1>2. IndInv /\ RecoveryInv /\ [Next]_vars => IndInv' /\ RecoveryInv'
  BY NextInv, NextRecovery
<1> QED BY InitInv, <1>1, <1>2, PTL DEF Spec

\* A finished audit_storage(true) has settled every intent, but for an update
\* whose compensation stopped half way and a delete whose trash stayed behind:
\* whatever failures and stops came before it, and whatever it found on disk.
THEOREM AlwaysReconciliationSettles == Spec => []ReconciliationSettles
<1>1. RecoveryInv => ReconciliationSettles
  BY DEF RecoveryInv, Recovering, ReconciliationSettles
<1> QED BY RecoveryInductive, <1>1, PTL

-----------------------------------------------------------------------------
(* ArtifactLifecycle implements ArtifactStore. *)

\* A closed artifact with a row has its body: the refinement mapping shows only
\* what readers can see.
Hidden(j) ==
  /\ intent'[j] = intent[j]
  /\ intent[j] = NoIntent => row'[j] = row[j] /\ (row[j] = NoRow \/ final'[j] = final[j])

\* The steps of the store.
Simulated == Store!StoreNext \/ UNCHANGED Store!storeVars

\* Mutations are atomic: as long as the last state advance of delete_attempt does
\* not fail (the compensation of finding FailedDeleteKeepsArtifact), every step of
\* publish_sync, update_locked and delete_sync, of their compensations and of
\* the recovery of a stopped process, is a step of the store in which a mutation
\* takes effect with its event and notification or not at all, or does not show.
THEOREM ImplementsStore == "DeleteAdvance" \notin FaultPoints => (Spec => AtomicStore)
\* An artifact whose visible state does not change shows the same to the store.
<1>HiddenSame.
  ASSUME NEW j \in Ids, Hidden(j)
  PROVE  storeCurrent'[j] = storeCurrent[j] /\ storePending'[j] = storePending[j]
  BY <1>HiddenSame DEF Hidden, storeCurrent, storePending, Served, Before, After, Outgoing

\* Work on a concealed artifact does not show.
<1>StoreStutter.
  ASSUME UNCHANGED <<ledger, announced>>, \A j \in Ids : Hidden(j)
  PROVE  UNCHANGED Store!storeVars
  <2> USE <1>StoreStutter
  <2>1. \A j \in Ids : storeCurrent'[j] = storeCurrent[j] /\ storePending'[j] = storePending[j]
    BY <1>HiddenSame
  <2>2. storeCurrent' = storeCurrent
    BY <2>1 DEF storeCurrent
  <2>3. storePending' = storePending
    BY <2>1 DEF storePending
  <2> QED BY <2>2, <2>3 DEF Store!storeVars

\* A step that shows at one artifact only.
<1>StoreAt.
  ASSUME NEW id \in Ids, \A j \in Ids \ {id} : Hidden(j)
  PROVE  /\ storeCurrent' = [storeCurrent EXCEPT ![id] = storeCurrent'[id]]
         /\ storePending' = [storePending EXCEPT ![id] = storePending'[id]]
  <2> USE <1>StoreAt
  <2>1. \A j \in Ids \ {id} :
          storeCurrent'[j] = storeCurrent[j] /\ storePending'[j] = storePending[j]
    BY <1>HiddenSame
  <2>2. /\ storeCurrent = [j \in Ids |-> storeCurrent[j]]
        /\ storeCurrent' = [j \in Ids |-> storeCurrent'[j]]
        /\ storePending = [j \in Ids |-> storePending[j]]
        /\ storePending' = [j \in Ids |-> storePending'[j]]
    BY DEF storeCurrent, storePending
  <2> QED BY <2>1, <2>2

\* An open intent is a pending mutation.
<1>OpenPending.
  ASSUME NEW id \in Ids, DbType, intent[id] # NoIntent
  PROVE  /\ storePending[id].op = intent[id].op /\ storePending[id].to = After(id)
         /\ storePending[id] # Store!NoMutation
         /\ storeCurrent[id] = Before(id)
  <2> USE <1>OpenPending
  <2>1. storePending[id] = [op |-> intent[id].op, to |-> After(id)] /\ storeCurrent[id] = Before(id)
    BY DEF storePending, storeCurrent
  <2>2. intent[id].op # "none"
    BY IntentTypes DEF Operations
  <2> QED BY <2>1, <2>2, SMTT(20) DEF Store!NoMutation

\* The revision recorded for it.
<1>OpenSubject.
  ASSUME NEW id \in Ids, DbType, intent[id] # NoIntent
  PROVE  Store!Subject(id) = intent[id].target
  <2> USE <1>OpenSubject
  <2>1. /\ storePending[id].op = intent[id].op /\ storePending[id].to = After(id)
        /\ storeCurrent[id] = Before(id)
    BY <1>OpenPending
  <2>2. intent[id].op = "delete" => Before(id).rev = intent[id].target
    BY DEF Before
  <2>3. intent[id].op # "delete" => After(id).rev = intent[id].target
    BY DEF After
  <2> QED BY <2>1, <2>2, <2>3 DEF Store!Subject

\* Closing the intent: the store sees its row and body again.
<1>StoreClosed.
  ASSUME NEW id \in Ids, intent'[id] = NoIntent, \A j \in Ids \ {id} : intent'[j] = intent[j],
         UNCHANGED <<row, final>>
  PROVE  /\ storeCurrent' = [storeCurrent EXCEPT ![id] = Served(id)]
         /\ storePending' = [storePending EXCEPT ![id] = Store!NoMutation]
  <2> USE <1>StoreClosed
  <2>1. \A j \in Ids \ {id} : Hidden(j)
    BY DEF Hidden
  <2>2. Served(id)' = Served(id)
    BY DEF Served
  <2>3. storeCurrent'[id] = Served(id) /\ storePending'[id] = Store!NoMutation
    BY <2>2 DEF storeCurrent, storePending, Store!NoMutation, Store!Absent
  <2> QED BY <2>1, <2>3, <1>StoreAt

<1>CloseTakesEffect.
  ASSUME NEW id \in Ids, DbType, intent[id] # NoIntent, NEW result \in {"success", "recovered"},
         Settle(id, result), UNCHANGED <<row, final>>, receipt[id] = "pending",
         blocked[id] = {Event(id)}, Served(id) = After(id)
  PROVE  Store!TakeEffect(id)
  <2> USE <1>CloseTakesEffect
  <2>1. intent'[id] = NoIntent /\ \A j \in Ids \ {id} : intent'[j] = intent[j]
    BY FinishedIntent DEF Settle
  <2>2. /\ storeCurrent' = [storeCurrent EXCEPT ![id] = Served(id)]
        /\ storePending' = [storePending EXCEPT ![id] = Store!NoMutation]
    BY <2>1, <1>StoreClosed
  <2>3. /\ storePending[id].op = intent[id].op /\ storePending[id].to = After(id)
        /\ storePending[id] # Store!NoMutation /\ Store!Subject(id) = intent[id].target
    BY <1>OpenPending, <1>OpenSubject
  <2>4. Store!Record(id, result)
    BY <2>3 DEF Settle, Store!Record
  <2>5. announced' = [announced EXCEPT ![id] = @ \cup {[op |-> storePending[id].op,
                                                        rev |-> Store!Subject(id)]}]
    <3>1. result # "failure"
      OBVIOUS
    <3> QED BY <2>3, <3>1 DEF Settle, Event
  <2> QED BY <2>2, <2>3, <2>4, <2>5 DEF Store!TakeEffect

<1>CloseAbandons.
  ASSUME NEW id \in Ids, DbType, intent[id] # NoIntent,
         \/ Settle(id, "failure")
         \/ FinishIntent(id) /\ UNCHANGED <<announced, ledger>>,
         UNCHANGED <<row, final>>, Served(id) = Before(id)
  PROVE  Store!Abandon(id)
  <2> USE <1>CloseAbandons
  <2>1. intent'[id] = NoIntent /\ \A j \in Ids \ {id} : intent'[j] = intent[j]
    BY FinishedIntent DEF Settle
  <2>2. /\ storeCurrent' = [storeCurrent EXCEPT ![id] = Served(id)]
        /\ storePending' = [storePending EXCEPT ![id] = Store!NoMutation]
    BY <2>1, <1>StoreClosed
  <2>3. /\ storePending[id].op = intent[id].op /\ storePending[id] # Store!NoMutation
        /\ Store!Subject(id) = intent[id].target /\ storeCurrent[id] = Served(id)
    BY <1>OpenPending, <1>OpenSubject
  <2>4. storeCurrent' = storeCurrent
    <3>1. storeCurrent = [j \in Ids |-> storeCurrent[j]]
      BY DEF storeCurrent
    <3> QED BY <2>2, <2>3, <3>1
  <2>5. UNCHANGED announced
    <3>1. ASSUME Settle(id, "failure") PROVE announced' = announced
      BY <3>1 DEF Settle, DbType
    <3> QED BY <3>1
  <2>6. UNCHANGED ledger \/ Store!Record(id, "failure")
    <3>1. ASSUME Settle(id, "failure"), receipt[id] # "pending" PROVE ledger' = ledger
      BY <3>1 DEF Settle, DbType
    <3>2. ASSUME Settle(id, "failure"), receipt[id] = "pending" PROVE Store!Record(id, "failure")
      BY <2>3, <3>2 DEF Settle, Store!Record
    <3> QED BY <3>1, <3>2
  <2> QED BY <2>2, <2>3, <2>4, <2>5, <2>6 DEF Store!Abandon

\* A mutation that took effect has its one notification waiting.
<1>EventWaits.
  ASSUME NEW id \in Ids, DbType, Shape(id), intent[id] # NoIntent, receipt[id] = "pending",
         Served(id) = After(id)
  PROVE  blocked[id] = {Event(id)}
  <2> USE <1>EventWaits
  <2>1. CASE intent[id].op = "publish"
    BY <2>1 DEF Shape, PublishShape
  <2>2. CASE intent[id].op = "update"
    BY <2>2 DEF Shape, UpdateShape
  <2>3. CASE intent[id].op = "delete"
    <3>1. Served(id).rev = 0
      BY <2>3, SMTT(20) DEF After
    <3>2. row[id].rev = 0
      BY <3>1 DEF Served
    <3>3. row[id] # NoRow => row[id].rev >= 1
      BY RowTypes
    <3>4. row[id] = NoRow
      BY <3>2, <3>3, SMTT(20)
    <3> QED BY <2>3, <3>4 DEF Shape, DeleteShape
  <2> QED BY <2>1, <2>2, <2>3, IntentTypes DEF Operations

<1>SimulatedClose.
  ASSUME NEW id \in Ids, DbType, Shape(id), intent[id] # NoIntent, UNCHANGED <<row, final>>,
         \/ /\ \E result \in {"success", "recovered"} : Settle(id, result)
            /\ receipt[id] = "pending" /\ Served(id) = After(id)
         \/ /\ Settle(id, "failure") \/ (FinishIntent(id) /\ UNCHANGED <<announced, ledger>>)
            /\ Served(id) = Before(id)
  PROVE  Simulated
  <2> USE <1>SimulatedClose
  <2>1. ASSUME NEW result \in {"success", "recovered"}, Settle(id, result),
               receipt[id] = "pending", Served(id) = After(id)
        PROVE  Simulated
    BY <2>1, <1>EventWaits, <1>CloseTakesEffect DEF Simulated, Store!StoreNext
  <2>2. ASSUME Settle(id, "failure") \/ (FinishIntent(id) /\ UNCHANGED <<announced, ledger>>),
               Served(id) = Before(id)
        PROVE  Simulated
    BY <2>2, <1>CloseAbandons DEF Simulated, Store!StoreNext
  <2> QED BY <2>1, <2>2

\* A step of a mutation that closes nothing.
<1>SimulatedStutter.
  ASSUME NEW id \in Ids, intent[id] # NoIntent, \A j \in Ids \ {id} : Apart(j),
         UNCHANGED <<intent, announced, ledger>>
  PROVE  Simulated
  <2> USE <1>SimulatedStutter
  <2>1. \A j \in Ids : Hidden(j)
    BY DEF Hidden, Apart, AllSameAt, SameAt
  <2> QED BY <2>1, <1>StoreStutter DEF Simulated

<1>PublishSimulated.
  ASSUME IndInv, NEW id \in Ids, PublishStep(id)
  PROVE  Simulated
  <2> USE <1>PublishSimulated
  <2>1. /\ DbType /\ FsType /\ Shape(id) /\ PublishShape(id) /\ PublishRunning(id)
        /\ intent[id].op = "publish"
    BY PublishControl DEF IndInv, TypeOK, Shape, Running
  <2>2. intent[id] # NoIntent /\ \A j \in Ids \ {id} : Apart(j)
    BY <2>1, PublishApart, SMTT(20) DEF NoIntent
  <2>3. CASE UNCHANGED <<intent, announced, ledger>>
    BY <2>2, <2>3, <1>SimulatedStutter
  <2>4. CASE PublishFinalize(id) /\ Settle(id, "success")
    <3>1. row[id] # NoRow /\ final[id] = intent[id].expected /\ UNCHANGED <<row, final>>
      BY <2>1, <2>4 DEF PublishFinalize, PublishRunning
    <3>2. receipt[id] = "pending" /\ Served(id) = After(id)
      BY <2>1, <3>1, PublishServed
    <3> QED BY <2>1, <2>2, <2>4, <3>1, <3>2, <1>SimulatedClose
  <2>5. CASE PublishCancel(id) /\ Settle(id, "failure")
    <3>1. row[id] = NoRow /\ UNCHANGED <<row, final>>
      BY <2>1, <2>5 DEF PublishCancel, PublishRunning
    <3> QED BY <2>1, <2>2, <2>5, <3>1, PublishServed, <1>SimulatedClose
  <2>6. CASE PublishDropIntent(id) /\ FinishIntent(id)
    <3>1. row[id] = NoRow /\ UNCHANGED <<row, final, announced, ledger>>
      BY <2>1, <2>6 DEF PublishDropIntent, PublishRunning
    <3> QED BY <2>1, <2>2, <2>6, <3>1, PublishServed, <1>SimulatedClose
  <2> QED BY <2>3, <2>4, <2>5, <2>6 DEF PublishStep, PublishWrite, PublishSync,
        PublishInsert, PublishAdvance, PublishRename, PublishDurable, PublishFinalize,
        PublishDropStaging, PublishDropIntent, PublishUndoRow, PublishUndoStaging,
        PublishUndoFinal, PublishCancel, Cancel

<1>UpdateSimulated.
  ASSUME IndInv, NEW id \in Ids, UpdateStep(id)
  PROVE  Simulated
  <2> USE <1>UpdateSimulated
  <2>1. /\ DbType /\ FsType /\ Shape(id) /\ UpdateShape(id) /\ UpdateRunning(id)
        /\ intent[id].op = "update"
    BY UpdateControl DEF IndInv, TypeOK, Shape, Running
  <2>2. intent[id] # NoIntent /\ \A j \in Ids \ {id} : Apart(j)
    BY <2>1, UpdateApart, SMTT(20) DEF NoIntent
  <2>3. CASE UNCHANGED <<intent, announced, ledger>>
    BY <2>2, <2>3, <1>SimulatedStutter
  <2>4. CASE UpdateFinalize(id) /\ Settle(id, "success")
    <3>1. Committed(id) /\ final[id] = intent[id].expected /\ UNCHANGED <<row, final>>
      BY <2>1, <2>4 DEF UpdateFinalize, UpdateRunning
    <3>2. receipt[id] = "pending" /\ Served(id) = After(id)
      BY <2>1, <3>1, UpdateServed
    <3> QED BY <2>1, <2>2, <2>4, <3>1, <3>2, <1>SimulatedClose
  <2>5. CASE UpdateCancel(id) /\ Settle(id, "failure")
    <3>1. ~Committed(id) /\ UNCHANGED <<row, final>>
      BY <2>1, <2>5 DEF UpdateCancel, UpdateRunning
    <3> QED BY <2>1, <2>2, <2>5, <3>1, UpdateServed, <1>SimulatedClose
  <2>6. CASE UpdateDropIntent(id) /\ FinishIntent(id)
    <3>1. ~Committed(id) /\ UNCHANGED <<row, final, announced, ledger>>
      BY <2>1, <2>6 DEF UpdateDropIntent, UpdateRunning
    <3> QED BY <2>1, <2>2, <2>6, <3>1, UpdateServed, <1>SimulatedClose
  <2> QED BY <2>3, <2>4, <2>5, <2>6 DEF UpdateStep, UpdateWrite, UpdateSync,
        UpdateCommit, UpdateSnapshot, UpdateCopy, UpdateSwap, UpdateDurable, UpdatePrune,
        UpdateFinalize, UpdateUndoSnapshot, UpdateUndoStaging, UpdateRevert, UpdateUndoTemp,
        UpdateCancel, UpdateDropStaging, UpdateDropIntent, Cancel

<1>DeleteSimulated.
  ASSUME "DeleteAdvance" \notin FaultPoints, IndInv, NEW id \in Ids, DeleteStep(id)
  PROVE  Simulated
  <2> USE <1>DeleteSimulated
  <2>1. /\ DbType /\ FsType /\ Shape(id) /\ DeleteShape(id) /\ DeleteRunning(id)
        /\ intent[id].op = "delete"
    BY DeleteControl DEF IndInv, TypeOK, Shape, Running
  <2>2. intent[id] # NoIntent /\ \A j \in Ids \ {id} : Apart(j)
    BY <2>1, DeleteApart, SMTT(20) DEF NoIntent
  <2>3. CASE UNCHANGED <<intent, announced, ledger>>
    BY <2>2, <2>3, <1>SimulatedStutter
  <2>4. CASE DeleteFinalize(id) /\ Settle(id, "success")
    <3>1. row[id] = NoRow /\ UNCHANGED <<row, final>>
      BY <2>1, <2>4 DEF DeleteFinalize, DeleteRunning
    <3>2. receipt[id] = "pending" /\ Served(id) = After(id)
      BY <2>1, <3>1, DeleteServed
    <3> QED BY <2>1, <2>2, <2>4, <3>1, <3>2, <1>SimulatedClose
  <2>5. CASE DeleteCancel(id) /\ Settle(id, "failure")
    <3>1. row[id] # NoRow /\ final[id] = intent[id].prior /\ UNCHANGED <<row, final>>
      BY <2>1, <2>5 DEF DeleteCancel, DeleteRunning
    <3> QED BY <2>1, <2>2, <2>5, <3>1, DeleteServed, <1>SimulatedClose
  <2> QED BY <2>3, <2>4, <2>5 DEF DeleteStep, DeleteTrash, DeleteRow, DeleteTrashRemove,
        DeleteHistoryRemove, DeleteDurable, DeleteFinalize, DeleteRestore, DeleteCancel, Cancel

\* The start of a mutation is its proposal.
<1>BeginProposes.
  ASSUME NEW id \in Ids, DbType, Shape(id), NEW b \in Bodies, NEW r \in Revisions,
         PublishBegin(id, b) \/ UpdateBegin(id, r, b) \/ DeleteBegin(id)
  PROVE  Store!Propose(id)
  <2> USE <1>BeginProposes
  <2>1. /\ UNCHANGED <<row, final, announced, ledger>> /\ intent[id] = NoIntent
        /\ \A j \in Ids \ {id} : intent'[j] = intent[j]
    BY DEF PublishBegin, UpdateBegin, DeleteBegin, Visible, StartIntent, DbType
  <2>2. storeCurrent[id] = Served(id) /\ storePending[id] = Store!NoMutation
    BY <2>1 DEF storeCurrent, storePending, Store!NoMutation, Store!Absent
  <2>3. storePending' = [storePending EXCEPT ![id] = storePending'[id]]
        /\ storeCurrent' = [storeCurrent EXCEPT ![id] = storeCurrent'[id]]
    BY <2>1, <1>StoreAt DEF Hidden
  <2>4. ASSUME storeCurrent'[id] = Served(id)
        PROVE  UNCHANGED <<storeCurrent, ledger, announced>>
    <3>1. storeCurrent = [j \in Ids |-> storeCurrent[j]]
      BY DEF storeCurrent
    <3>2. storeCurrent' = storeCurrent
      BY <2>2, <2>3, <2>4, <3>1
    <3> QED BY <2>1, <3>2
  <2>5. CASE PublishBegin(id, b)
    <3>1. /\ intent'[id] = [op |-> "publish", expected |-> b, prior |-> NoBody, target |-> 1]
          /\ row[id] = NoRow
      BY <2>5 DEF PublishBegin, StartIntent, DbType
    <3>2. /\ intent'[id] # NoIntent /\ intent'[id].op = "publish" /\ intent'[id].target = 1
          /\ intent'[id].expected = b
      BY <3>1, SMTT(20) DEF NoIntent
    <3>3. Served(id) = Store!Absent
      BY <3>1, ServedNone DEF Store!Absent
    <3>4. storeCurrent'[id] = Served(id)
      BY <3>2, <3>3 DEF storeCurrent, Before, Store!Absent
    <3>5. storePending'[id] = [op |-> "publish", to |-> [rev |-> 1, body |-> b]]
      BY <3>2 DEF storePending, After
    <3> QED BY <2>2, <2>3, <2>4, <3>3, <3>4, <3>5 DEF Store!Propose, Store!Publish
  <2>6. ASSUME Visible(id)
        PROVE  /\ Served(id) = [rev |-> row[id].rev, body |-> row[id].sha]
               /\ Served(id).rev = row[id].rev /\ Served(id) # Store!Absent
               /\ row[id].rev \in Int
    <3>1. row[id] # NoRow /\ final[id] = row[id].sha
      BY <2>6 DEF Visible, Shape, ClosedShape
    <3>2. row[id].rev \in Int /\ row[id].rev >= 1
      BY <3>1, RowTypes
    <3>3. Served(id) = [rev |-> row[id].rev, body |-> row[id].sha]
      BY <3>1 DEF Served
    <3> QED BY <3>2, <3>3, SMTT(20) DEF Store!Absent
  <2>7. CASE UpdateBegin(id, r, b)
    <3>1. /\ intent'[id] = [op |-> "update", expected |-> b, prior |-> row[id].sha,
                            target |-> row[id].rev + 1]
          /\ Visible(id) /\ row[id].rev < MaxRevision
      BY <2>7 DEF UpdateBegin, StartIntent, DbType
    <3>2. /\ intent'[id] # NoIntent /\ intent'[id].op = "update"
          /\ intent'[id].target = row[id].rev + 1
          /\ intent'[id].expected = b /\ intent'[id].prior = row[id].sha
      BY <3>1, SMTT(20) DEF NoIntent
    <3>3. Outgoing(id)' = row[id].rev
      BY <2>6, <3>1, <3>2, SMTT(20) DEF Outgoing
    <3>4. storeCurrent'[id] = Served(id)
      BY <2>6, <3>1, <3>2, <3>3 DEF storeCurrent, Before
    <3>5. storePending'[id] = [op |-> "update", to |-> [rev |-> row[id].rev + 1, body |-> b]]
      BY <3>2 DEF storePending, After
    <3>6. /\ storeCurrent[id] # Store!Absent /\ storeCurrent[id].rev = row[id].rev
          /\ storeCurrent[id].rev < MaxRevision
      BY <2>2, <2>6, <3>1
    <3>7. storePending' = [storePending EXCEPT ![id] =
                             [op |-> "update",
                              to |-> [rev |-> storeCurrent[id].rev + 1, body |-> b]]]
      BY <2>3, <3>5, <3>6
    <3>8. Store!Update(id)
      BY <3>6, <3>7 DEF Store!Update
    <3> QED BY <2>2, <2>4, <3>4, <3>8 DEF Store!Propose
  <2>8. CASE DeleteBegin(id)
    <3>1. /\ intent'[id] = [op |-> "delete", expected |-> NoBody, prior |-> row[id].sha,
                            target |-> row[id].rev]
          /\ Visible(id)
      BY <2>8 DEF DeleteBegin, StartIntent, DbType
    <3>2. /\ intent'[id] # NoIntent /\ intent'[id].op = "delete"
          /\ intent'[id].target = row[id].rev /\ intent'[id].prior = row[id].sha
      BY <3>1, SMTT(20) DEF NoIntent
    <3>4. storeCurrent'[id] = Served(id)
      BY <2>6, <3>1, <3>2 DEF storeCurrent, Before
    <3>5. storePending'[id] = [op |-> "delete", to |-> Store!Absent]
      BY <3>2 DEF storePending, After, Store!Absent
    <3> QED BY <2>2, <2>3, <2>4, <2>6, <3>1, <3>4, <3>5 DEF Store!Propose, Store!Delete
  <2> QED BY <2>5, <2>7, <2>8

<1>BeginSimulated.
  ASSUME IndInv, NEW id \in Ids, Begin(id)
  PROVE  Simulated
  <2> USE <1>BeginSimulated
  <2>1. DbType /\ Shape(id) /\ 1 \in Revisions
    <3>1. 1 \in Revisions
      BY SMTT(20) DEF Revisions
    <3> QED BY <3>1 DEF IndInv, TypeOK
  <2>2. ASSUME NEW r \in Revisions, RestoreBegin(id, r)
        PROVE  \E b \in Bodies, s \in Revisions : UpdateBegin(id, s, b)
    <3>1. row[id].rev \in Revisions
      BY <2>1, <2>2, RowTypes DEF RestoreBegin, UpdateBegin, Visible
    <3> QED BY <2>2, <3>1 DEF RestoreBegin
  <2>3. ASSUME DeleteBegin(id) PROVE row[id].sha \in Bodies
    BY <2>1, <2>3, RowTypes DEF DeleteBegin, Visible
  <2>4. Store!Propose(id)
    BY <2>1, <2>2, <2>3, <1>BeginProposes DEF Begin
  <2> QED BY <2>4 DEF Simulated, Store!StoreNext

\* The steps of a start: recovery closes an intent with the outcome that shows,
\* and the sweep moves bodies of concealed artifacts only.
<1>QuietSimulated.
  ASSUME UNCHANGED <<row, intent, announced, ledger, final>>
  PROVE  Simulated
  <2> USE <1>QuietSimulated
  <2>1. \A j \in Ids : Hidden(j)
    BY DEF Hidden
  <2> QED BY <2>1, <1>StoreStutter DEF Simulated

<1>ClosingSimulated.
  ASSUME IndInv, NEW id \in Ids, NEW result \in {"recovered", "failure"}, Closing(id, result)
  PROVE  Simulated
  <2> USE <1>ClosingSimulated
  <2>1. DbType /\ Shape(id) /\ intent[id] # NoIntent /\ UNCHANGED <<row, final>>
    BY DEF IndInv, TypeOK, Closing
  <2>2. CASE result = "failure" /\ Served(id) = Before(id)
    BY <2>1, <2>2, <1>SimulatedClose DEF Closing, Complete
  <2>3. CASE result = "recovered" /\ receipt[id] = "pending" /\ Served(id) = After(id)
    BY <2>1, <2>3, <1>SimulatedClose DEF Closing, Complete
  <2> QED BY <2>2, <2>3 DEF Closing

<1>SweepSimulated.
  ASSUME IndInv, RecoveryInv, NEW w \in todo, SweepTransient(w)
  PROVE  Simulated
  <2> USE <1>SweepSimulated
  <2>0. /\ w.id \in Ids /\ DbType /\ FsType /\ Shape(w.id)
        /\ SweepKeeps(w) \/ SweepDiscards(w) \/ SweepInstalls(w) \/ SweepPreserves(w)
    BY SweepCases, WorkTypes DEF IndInv, TypeOK
  <2>1. UNCHANGED <<row, intent, announced, ledger>>
    BY <2>0 DEF SweepKeeps, SweepDiscards, SweepInstalls, SweepPreserves
  <2>2. CASE final' = final
    BY <2>1, <2>2, <1>QuietSimulated
  <2>3. CASE SweepInstalls(w) \/ SweepPreserves(w)
    <3>1. row[w.id] # NoRow /\ final[w.id] # row[w.id].sha
      BY <2>3 DEF SweepInstalls, SweepPreserves
    <3>2. intent[w.id] # NoIntent
      BY <2>0, <3>1 DEF Shape, ClosedShape
    <3>3. \A j \in Ids \ {w.id} : final'[j] = final[j]
      BY <2>0, SweepFrame DEF AllSameAt, SameAt
    <3>4. \A j \in Ids : Hidden(j)
      BY <2>1, <3>2, <3>3 DEF Hidden
    <3> QED BY <2>1, <3>4, <1>StoreStutter DEF Simulated
  <2> QED BY <2>0, <2>2, <2>3 DEF SweepKeeps, SweepDiscards

<1>ReconcileSimulated.
  ASSUME IndInv, RecoveryInv, Reconcile
  PROVE  Simulated
  <2> USE <1>ReconcileSimulated
  <2>1. CASE Restart \/ EnterSweep \/ ReclaimOrphanHistory \/ FinishStart
    BY <2>1, <1>QuietSimulated DEF Restart, EnterSweep, ReclaimOrphanHistory, FinishStart
  <2>2. ASSUME NEW w \in todo, RecoverIntent(w) PROVE Simulated
    <3>1. w.id \in Ids /\ RecoverEffect(w)
      BY <2>2, RecoverCases DEF RecoveryInv
    <3>2. CASE UNCHANGED <<db, final>>
      BY <3>2, <1>QuietSimulated
    <3> QED BY <3>1, <3>2, <1>ClosingSimulated DEF RecoverEffect, Preparing
  <2>3. ASSUME NEW w \in todo, ResolveIntent(w) PROVE Simulated
    <3>1. w.id \in Ids /\ ResolveEffect(w)
      BY <2>3, ResolveCases
    <3>2. CASE UNCHANGED <<db, final>>
      BY <3>2, <1>QuietSimulated
    <3> QED BY <3>1, <3>2, <1>ClosingSimulated DEF ResolveEffect
  <2> QED BY <2>1, <2>2, <2>3, <1>SweepSimulated DEF Reconcile

<1>NextSimulated.
  ASSUME "DeleteAdvance" \notin FaultPoints, IndInv, RecoveryInv, [Next]_vars
  PROVE  Simulated
  <2> USE <1>NextSimulated
  <2>1. CASE Step
    BY <2>1, <1>PublishSimulated, <1>UpdateSimulated, <1>DeleteSimulated DEF Step
  <2>2. CASE Crash \/ UNCHANGED vars
    BY <2>2, <1>QuietSimulated DEF Crash, vars
  <2>3. ASSUME NEW id \in Ids, Begin(id) PROVE Simulated
    BY <2>3, <1>BeginSimulated
  <2> QED BY <2>1, <2>2, <2>3, <1>ReconcileSimulated DEF Next

<1>InitSimulated. Init => Store!StoreInit
  <2> SUFFICES ASSUME Init PROVE Store!StoreInit
    OBVIOUS
  <2>1. \A id \in Ids : intent[id] = NoIntent /\ row[id] = NoRow
    BY DEF Init
  <2>2. \A id \in Ids : Served(id) = Store!Absent
    BY <2>1, ServedNone DEF Store!Absent
  <2>3. storeCurrent = [id \in Ids |-> Store!Absent]
    BY <2>1, <2>2 DEF storeCurrent
  <2>4. storePending = [id \in Ids |-> Store!NoMutation]
    BY <2>1 DEF storePending, Store!NoMutation, Store!Absent
  <2> QED BY <2>3, <2>4 DEF Init, Store!StoreInit

<1> SUFFICES ASSUME "DeleteAdvance" \notin FaultPoints PROVE Spec => AtomicStore
  OBVIOUS
<1>1. IndInv /\ RecoveryInv /\ [Next]_vars => [Store!StoreNext]_(Store!storeVars)
  BY <1>NextSimulated DEF Simulated
<1> QED BY RecoveryInductive, <1>InitSimulated, <1>1, PTL DEF Spec, AtomicStore, Store!StoreSpec

=============================================================================
