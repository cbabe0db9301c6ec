-------------------------- MODULE ArtifactLifecycle --------------------------
(***************************************************************************)
(* Publish, update, restore and delete of an artifact, and the recovery    *)
(* that a restart runs (src/src/artifacts/lifecycle, .../reconciliation).  *)
(*                                                                         *)
(* An artifact is a row in SQLite and a body in the artifact directory; no *)
(* transaction spans both.  Every step below is one durable effect: one    *)
(* SQL transaction or one rename/removal.  The process may stop between    *)
(* any two of them, and any of them may fail in process, which starts the  *)
(* code's compensation or leaves the durability intent for the next start. *)
(*                                                                         *)
(* lifecycle_gate.write() serialises the mutations: `cur' is the artifact  *)
(* of the mutation that holds it and `pc' the step it is about to take.    *)
(* A digest is represented by the body it is the digest of.                *)
(***************************************************************************)
EXTENDS Integers, Sequences, FiniteSets

CONSTANTS
  Ids,          \* artifact ids the id source may produce
  Bodies,       \* body contents (equivalently: their SHA-256 digests)
  NoBody,       \* "no file at this path" / the empty digest
  Torn,         \* a file whose write was interrupted: no digest matches it
  NoId,         \* no mutation holds the gate
  MaxRevision,  \* bound: updates stop at this revision
  MaxHistory,   \* StorageLimits.max_history
  MaxFaults,    \* bound: in-process failures plus process stops
  FaultPoints   \* where a step may fail in process ("Crash": the process stops)

ASSUME LifecycleAssumption ==
  /\ MaxRevision \in Nat \ {0}
  /\ MaxHistory \in Nat \ {0}  \* positive_integer
  /\ MaxFaults \in Nat
  /\ NoBody \notin Bodies
  /\ Torn \notin Bodies \cup {NoBody}
  /\ NoId \notin Ids

VARIABLES
  row,        \* artifacts: [rev, sha] per id, NoRow when there is none
  revs,       \* artifact_revisions: digest recorded per revision, NoBody = no row
  intent,     \* artifact_durability_intents: at most one per artifact
  receipt,    \* audit receipt of the intent: "none" or "pending"
  blocked,    \* outbox rows held by the intent
  announced,  \* outbox rows released for delivery
  ledger,     \* terminal audit events, in order
  final, staging, trash, snapTmp, history, scraps,
              \* the artifact directory: live body, the intent's staging path,
              \* trash, history snapshot temporary, history/<rev>, and staging
              \* and trash paths that no intent names any more
  cur, pc,    \* the mutation in progress (or the phase of a start)
  todo,       \* work left in the current recovery phase
  faults      \* in-process failures and stops so far

db   == <<row, revs, intent, receipt, blocked, announced, ledger>>
fs   == <<final, staging, trash, snapTmp, history, scraps>>
ctl  == <<cur, pc, todo>>
vars == <<db, fs, ctl, faults>>

Revisions  == 1..MaxRevision
Digests    == Bodies \cup {NoBody}
Paths      == Digests \cup {Torn}
Operations == {"publish", "update", "delete"}
NoRow      == [rev |-> 0, sha |-> NoBody]
Rows       == [rev : Revisions, sha : Bodies] \cup {NoRow}
NoIntent   == [op |-> "none", expected |-> NoBody, prior |-> NoBody, target |-> 0]
Intents    == [op : Operations, expected : Digests, prior : Digests,
               target : Revisions] \cup {NoIntent}
NoHistory  == [r \in Revisions |-> NoBody]
Snapshots  == [Revisions -> Digests]
Events     == [op : Operations, rev : Revisions]
Outcomes   == [op : Operations, rev : Revisions,
               result : {"success", "recovered", "failure"}]
Scraps     == [kind : {"staging", "trash"}, body : Bodies \cup {Torn}]
Work       == [id : Ids, kind : {"intent", "staging", "trash"},
               scrap : BOOLEAN, body : Paths]

PublishSteps == {"pubWrite", "pubSync", "pubInsert", "pubAdvance", "pubRename",
                 "pubDurable", "pubFinalize", "pubUndoRow", "pubUndoStaging",
                 "pubUndoFinal", "pubCancel", "pubDropStaging", "pubDropIntent"}
UpdateSteps  == {"updWrite", "updSync", "updCommit", "updSnapshot", "updCopy",
                 "updSwap", "updDurable", "updPrune", "updFinalize",
                 "updUndoSnapshot", "updUndoStaging", "updRevert", "updUndoTemp",
                 "updCancel", "updDropStaging", "updDropIntent"}
DeleteSteps  == {"delTrash", "delRow", "delRmTrash", "delRmHistory", "delDurable",
                 "delFinalize", "delRestore", "delCancel"}
Phases       == {"down", "recover", "sweep", "resolve", "idle"}

-----------------------------------------------------------------------------
(* Vocabulary shared by the operations. *)

\* load_meta: a row with a durability intent is concealed.
Visible(id) == row[id] # NoRow /\ intent[id] = NoIntent

\* A step of the running mutation, and the two ways it goes on.
At(id, p) == cur = id /\ pc = p
Goto(p)   == pc' = p /\ UNCHANGED <<cur, todo>>
\* Mutant: the gate is not given back.
ReturnHolding == pc' = "idle" /\ UNCHANGED <<cur, todo>>
Return    == pc' = "idle" /\ cur' = NoId /\ UNCHANGED todo

Works    == UNCHANGED faults
Fails(p) == p \in FaultPoints /\ faults < MaxFaults /\ faults' = faults + 1

\* start_durability_intent: at most one intent is open, because load_meta hides
\* a row that has one.
StartIntent(id, op, expected, prior, target) ==
  intent' = [intent EXCEPT ![id] = [op |-> op, expected |-> expected,
                                    prior |-> prior, target |-> target]]

\* A transient file that no intent names any more.
Scrap(kind, body) == IF body = NoBody THEN {} ELSE {[kind |-> kind, body |-> body]}

\* safe_remove of the staging path: best effort, a failure is swallowed and the
\* file is left behind.
SafeRemoveStaging(id) ==
  /\ staging' = [staging EXCEPT ![id] = NoBody]
  /\ \/ Works /\ UNCHANGED scraps
     \/ /\ Fails("SafeRemove")
        /\ scraps' = [scraps EXCEPT ![id] = @ \cup Scrap("staging", staging[id])]

\* finish_durability_intent: the marker goes, nothing was promised.
FinishIntent(id) == intent' = [intent EXCEPT ![id] = NoIntent]

\* reserve_audit: the pending receipt of the intent.
ReserveReceipt(id) == receipt' = [receipt EXCEPT ![id] = "pending"]

\* fanout_delivery: rows of the outbox blocked by the intent.
Fanout(id) ==
  blocked' = [blocked EXCEPT ![id] =
                @ \cup {[op |-> intent[id].op, rev |-> intent[id].target]}]

\* Mutant: deliveries are released whatever the outcome.
SettleAnnouncing(id, result) ==
  /\ ledger' = [ledger EXCEPT ![id] =
                  Append(@, [op |-> intent[id].op, rev |-> intent[id].target,
                             result |-> result])]
  /\ announced' = [announced EXCEPT ![id] = @ \cup blocked[id]]
  /\ blocked' = [blocked EXCEPT ![id] = {}]
  /\ receipt' = [receipt EXCEPT ![id] = "none"]
  /\ FinishIntent(id)

\* The one transaction that ends an intent: the pending receipt (if any) becomes
\* a terminal event, blocked deliveries are released or dropped, the intent goes.
\* finalize_audit_and_intent, cancel_compensated_audit_intent and
\* complete_reconciled_intent.
Settle(id, result) ==
  /\ ledger' = [ledger EXCEPT ![id] =
                  IF receipt[id] = "pending"
                  THEN Append(@, [op |-> intent[id].op, rev |-> intent[id].target,
                                  result |-> result])
                  ELSE @]
  /\ announced' = [announced EXCEPT ![id] =
                     IF result = "failure" THEN @ ELSE @ \cup blocked[id]]
  /\ blocked' = [blocked EXCEPT ![id] = {}]
  /\ receipt' = [receipt EXCEPT ![id] = "none"]
  /\ FinishIntent(id)

\* Mutant: the intent is closed without its receipt and its deliveries.
CancelIntentOnly(id) == FinishIntent(id) /\ UNCHANGED <<receipt, blocked, announced, ledger>>

\* cancel_compensated_audit_intent refuses an intent without a pending receipt.
Cancel(id) == receipt[id] = "pending" /\ Settle(id, "failure")

-----------------------------------------------------------------------------
(* publish_sync, publish_attempt, finish_publish_body *)

\* next_id, then the prepared intent.  An id that was ever used is not produced
\* again (its terminal events would still name it).
PublishBegin(id, b) ==
  /\ pc = "idle"
  /\ final[id] = NoBody /\ row[id] = NoRow /\ intent[id] = NoIntent
  /\ ledger[id] = <<>>
  /\ StartIntent(id, "publish", b, NoBody, 1)
  /\ cur' = id /\ pc' = "pubWrite" /\ Works
  /\ UNCHANGED <<row, revs, receipt, blocked, announced, ledger, fs, todo>>

PublishWrite(id) ==
  /\ At(id, "pubWrite")
  /\ \/ Works /\ staging' = [staging EXCEPT ![id] = Torn] /\ Goto("pubSync")
     \/ Fails("StageWrite") /\ Goto("pubDropStaging") /\ UNCHANGED staging
  /\ UNCHANGED <<db, final, trash, snapTmp, history, scraps>>

PublishSync(id) ==
  /\ At(id, "pubSync")
  /\ \/ /\ Works /\ Goto("pubInsert")
        /\ staging' = [staging EXCEPT ![id] = intent[id].expected]
     \/ Fails("StageSync") /\ Goto("pubDropStaging") /\ UNCHANGED staging
  /\ UNCHANGED <<db, final, trash, snapTmp, history, scraps>>

\* The insert transaction; a capacity, key or SQL error rolls all of it back.
PublishInsert(id) ==
  /\ At(id, "pubInsert")
  /\ \/ /\ Works /\ Goto("pubAdvance")
        /\ row' = [row EXCEPT ![id] = [rev |-> 1, sha |-> intent[id].expected]]
        /\ revs' = [revs EXCEPT ![id][1] = intent[id].expected]
        /\ ReserveReceipt(id)
        /\ Fanout(id)
     \/ /\ Fails("PublishInsert") /\ Goto("pubDropStaging")
        /\ UNCHANGED <<row, revs, receipt, blocked>>
  /\ UNCHANGED <<intent, announced, ledger, fs>>

\* advance_durability_intent("metadata_committed"): no reader looks at the state
\* of a publish intent, so only the failure shows.
PublishAdvance(id) ==
  /\ At(id, "pubAdvance")
  /\ \/ Works /\ Goto("pubRename")
     \/ Fails("AdvanceIntent") /\ Goto("pubUndoRow")
  /\ UNCHANGED <<db, fs>>

\* The rename may fail, or succeed and then fail its directory barrier: the
\* second must not be compensated.
PublishRename(id) ==
  /\ At(id, "pubRename")
  /\ \/ /\ final' = [final EXCEPT ![id] = staging[id]]
        /\ staging' = [staging EXCEPT ![id] = NoBody]
        /\ \/ Works /\ Goto("pubDurable")
           \/ Fails("RenameBarrier") /\ Return
     \/ Fails("Rename") /\ Goto("pubUndoRow") /\ UNCHANGED <<final, staging>>
  /\ UNCHANGED <<db, trash, snapTmp, history, scraps>>

PublishDurable(id) ==
  /\ At(id, "pubDurable")
  /\ \/ Works /\ Goto("pubFinalize")
     \/ Fails("AdvanceIntent") /\ Goto("pubUndoRow")
  /\ UNCHANGED <<db, fs>>

PublishFinalize(id) ==
  /\ At(id, "pubFinalize")
  /\ \/ Works /\ Settle(id, "success") /\ Return
     \/ /\ Fails("Finalize") /\ Goto("pubUndoRow")
        /\ UNCHANGED <<intent, receipt, blocked, announced, ledger>>
  /\ UNCHANGED <<row, revs, fs>>

\* Compensation before the row was inserted: staging goes, then the intent.
PublishDropStaging(id) ==
  /\ At(id, "pubDropStaging")
  /\ SafeRemoveStaging(id) /\ Goto("pubDropIntent")
  /\ UNCHANGED <<db, final, trash, snapTmp, history>>

PublishDropIntent(id) ==
  /\ At(id, "pubDropIntent")
  /\ \/ Works /\ FinishIntent(id)
     \/ Fails("FinishIntent") /\ UNCHANGED intent
  /\ Return
  /\ UNCHANGED <<row, revs, receipt, blocked, announced, ledger, fs>>

\* Compensation after the insert: row (its revisions cascade), staging, final,
\* then the failure event.
PublishUndoRow(id) ==
  /\ At(id, "pubUndoRow")
  /\ \/ /\ Works /\ Goto("pubUndoStaging")
        /\ row' = [row EXCEPT ![id] = NoRow]
        /\ revs' = [revs EXCEPT ![id] = NoHistory]
     \/ Fails("PublishDeleteRow") /\ Return /\ UNCHANGED <<row, revs>>
  /\ UNCHANGED <<intent, receipt, blocked, announced, ledger, fs>>

PublishUndoStaging(id) ==
  /\ At(id, "pubUndoStaging")
  /\ SafeRemoveStaging(id) /\ Goto("pubUndoFinal")
  /\ UNCHANGED <<db, final, trash, snapTmp, history>>

PublishUndoFinal(id) ==
  /\ At(id, "pubUndoFinal")
  /\ \/ Works /\ final' = [final EXCEPT ![id] = NoBody]
     \/ Fails("SafeRemove") /\ UNCHANGED final
  /\ Goto("pubCancel")
  /\ UNCHANGED <<db, staging, trash, snapTmp, history, scraps>>

PublishCancel(id) ==
  /\ At(id, "pubCancel")
  /\ \/ Works /\ Cancel(id)
     \/ /\ Fails("Cancel")
        /\ UNCHANGED <<intent, receipt, blocked, announced, ledger>>
  /\ Return
  /\ UNCHANGED <<row, revs, fs>>

-----------------------------------------------------------------------------
(* update_locked, stage_update_body, commit_update, finish_update_body *)

\* An update whose digest does not change keeps its body live and snapshots a copy.
MetadataOnly(id) == intent[id].expected = intent[id].prior

\* Mutant: the snapshot is filed under the new revision.
OutgoingOffByOne(id) == intent[id].target

\* The revision an update replaces.
Outgoing(id) == intent[id].target - 1

\* update_locked up to the prepared intent.  expected_revision must name the
\* current revision, and require_current_body proves the live body first.
UpdateBegin(id, expectedRevision, b) ==
  /\ pc = "idle"
  /\ Visible(id)
  /\ expectedRevision = row[id].rev
  /\ row[id].rev < MaxRevision
  /\ final[id] = row[id].sha
  /\ StartIntent(id, "update", b, row[id].sha, row[id].rev + 1)
  /\ cur' = id
  /\ pc' = IF b = row[id].sha THEN "updCommit" ELSE "updWrite"
  /\ Works
  /\ UNCHANGED <<row, revs, receipt, blocked, announced, ledger, fs, todo>>

\* restore_sync: the body of a retained revision replayed as a new revision.
RestoreBegin(id, r) ==
  /\ row[id].rev > r
  /\ revs[id][r] # NoBody
  /\ history[id][r] \in Bodies
  /\ UpdateBegin(id, row[id].rev, history[id][r])

UpdateWrite(id) ==
  /\ At(id, "updWrite")
  /\ \/ Works /\ staging' = [staging EXCEPT ![id] = Torn] /\ Goto("updSync")
     \/ Fails("StageWrite") /\ Goto("updDropStaging") /\ UNCHANGED staging
  /\ UNCHANGED <<db, final, trash, snapTmp, history, scraps>>

UpdateSync(id) ==
  /\ At(id, "updSync")
  /\ \/ /\ Works /\ Goto("updCommit")
        /\ staging' = [staging EXCEPT ![id] = intent[id].expected]
     \/ Fails("StageSync") /\ Goto("updDropStaging") /\ UNCHANGED staging
  /\ UNCHANGED <<db, final, trash, snapTmp, history, scraps>>

\* commit_update: metadata first, then the body.  A rejected fan-out is proven
\* uncommitted and cleans up; any other error leaves everything for recovery.
UpdateCommit(id) ==
  /\ At(id, "updCommit")
  /\ \/ /\ Works /\ Goto("updSnapshot")
        /\ row' = [row EXCEPT ![id] = [rev |-> intent[id].target,
                                       sha |-> intent[id].expected]]
        /\ revs' = [revs EXCEPT ![id] =
                      [r \in Revisions |->
                         IF r = intent[id].target THEN intent[id].expected
                         ELSE IF r = Outgoing(id) /\ revs[id][r] = NoBody
                         THEN intent[id].prior ELSE revs[id][r]]]
        /\ ReserveReceipt(id)
        /\ Fanout(id)
     \/ /\ \/ Fails("UpdateRejected") /\ Goto("updDropStaging")
           \/ Fails("UpdateCommit") /\ Return
        /\ UNCHANGED <<row, revs, receipt, blocked>>
  /\ UNCHANGED <<intent, announced, ledger, fs>>

\* snapshot_body: a content update moves the live body to history, a metadata
\* update starts a copy.  A history destination is immutable.
CanSnapshot(id) ==
  /\ final[id] # NoBody
  /\ history[id][Outgoing(id)] = NoBody
  /\ MetadataOnly(id) => snapTmp[id] = NoBody

\* swap_body: after a failure, the half that is already in place is kept for
\* recovery instead of being compensated.
SnapshotLanded(id) ==
  IF MetadataOnly(id)
  THEN final[id] # NoBody /\ history[id][Outgoing(id)] = intent[id].prior
  ELSE final[id] = NoBody /\ history[id][Outgoing(id)] # NoBody

UpdateSnapshot(id) ==
  /\ At(id, "updSnapshot")
  /\ \/ /\ CanSnapshot(id) /\ ~MetadataOnly(id)
        /\ history' = [history EXCEPT ![id][Outgoing(id)] = final[id]]
        /\ final' = [final EXCEPT ![id] = NoBody]
        /\ \/ Works /\ Goto("updSwap")
           \/ Fails("RenameBarrier") /\ Return
        /\ UNCHANGED snapTmp
     \/ /\ CanSnapshot(id) /\ MetadataOnly(id)
        /\ snapTmp' = [snapTmp EXCEPT ![id] = Torn]
        /\ Works /\ Goto("updCopy")
        /\ UNCHANGED <<final, history>>
     \/ /\ IF CanSnapshot(id) THEN Fails("Snapshot") ELSE Works
        /\ IF SnapshotLanded(id) THEN Return ELSE Goto("updUndoStaging")
        /\ UNCHANGED <<final, history, snapTmp>>
  /\ UNCHANGED <<db, staging, trash, scraps>>

\* The copy is synced and renamed to history/<rev>.
UpdateCopy(id) ==
  /\ At(id, "updCopy")
  /\ \/ /\ history' = [history EXCEPT ![id][Outgoing(id)] = final[id]]
        /\ snapTmp' = [snapTmp EXCEPT ![id] = NoBody]
        /\ \/ Works /\ Goto("updDurable")
           \/ Fails("RenameBarrier") /\ Return
     \/ Fails("Snapshot") /\ Goto("updUndoStaging") /\ UNCHANGED <<history, snapTmp>>
  /\ UNCHANGED <<db, final, staging, trash, scraps>>

UpdateSwap(id) ==
  /\ At(id, "updSwap")
  /\ \/ /\ final' = [final EXCEPT ![id] = staging[id]]
        /\ staging' = [staging EXCEPT ![id] = NoBody]
        /\ \/ Works /\ Goto("updDurable")
           \/ Fails("RenameBarrier") /\ Return
     \/ Fails("Rename") /\ Goto("updUndoSnapshot") /\ UNCHANGED <<final, staging>>
  /\ UNCHANGED <<db, trash, snapTmp, history, scraps>>

UpdateDurable(id) ==
  /\ At(id, "updDurable")
  /\ \/ Works /\ Goto("updPrune")
     \/ Fails("AdvanceIntent") /\ Return
  /\ UNCHANGED <<db, fs>>

\* prune_history: revision rows older than the newest MaxHistory superseded ones.
Superseded(id) == {r \in Revisions : r < row[id].rev /\ revs[id][r] # NoBody}
Prunable(id) ==
  {r \in Superseded(id) : Cardinality({s \in Superseded(id) : s > r}) >= MaxHistory}

\* Row and body of each prunable revision; each removal is best effort.
UpdatePrune(id) ==
  /\ At(id, "updPrune")
  /\ \E keptRows \in SUBSET Prunable(id), keptBodies \in SUBSET Prunable(id) :
       /\ \/ keptRows = {} /\ keptBodies = {} /\ Works
          \/ keptRows \cup keptBodies # {} /\ Fails("Prune")
       /\ revs' = [revs EXCEPT ![id] =
                     [r \in Revisions |-> IF r \in Prunable(id) \ keptRows
                                          THEN NoBody ELSE revs[id][r]]]
       /\ history' = [history EXCEPT ![id] =
                        [r \in Revisions |-> IF r \in Prunable(id) \ keptBodies
                                             THEN NoBody ELSE history[id][r]]]
  /\ Goto("updFinalize")
  /\ UNCHANGED <<row, intent, receipt, blocked, announced, ledger,
                 final, staging, trash, snapTmp, scraps>>

UpdateFinalize(id) ==
  /\ At(id, "updFinalize")
  /\ \/ Works /\ Settle(id, "success")
     \/ /\ Fails("Finalize")
        /\ UNCHANGED <<intent, receipt, blocked, announced, ledger>>
  /\ Return
  /\ UNCHANGED <<row, revs, fs>>

\* Mutant: the body is copied back, and its snapshot stays in history.
UpdateUndoSnapshotCopying(id) ==
  /\ At(id, "updUndoSnapshot")
  /\ final' = [final EXCEPT ![id] = history[id][Outgoing(id)]]
  /\ Works /\ Goto("updUndoStaging")
  /\ UNCHANGED <<db, staging, trash, snapTmp, history, scraps>>

\* Compensation of a committed update: the moved body goes back, staging goes,
\* the metadata is reverted, the copy's temporary goes, then the failure event.
UpdateUndoSnapshot(id) ==
  /\ At(id, "updUndoSnapshot")
  /\ \/ /\ final' = [final EXCEPT ![id] = history[id][Outgoing(id)]]
        /\ history' = [history EXCEPT ![id][Outgoing(id)] = NoBody]
        /\ \/ Works /\ Goto("updUndoStaging")
           \/ Fails("RenameBarrier") /\ Return
     \/ Fails("RestoreSnapshot") /\ Return /\ UNCHANGED <<final, history>>
  /\ UNCHANGED <<db, staging, trash, snapTmp, scraps>>

UpdateUndoStaging(id) ==
  /\ At(id, "updUndoStaging")
  /\ SafeRemoveStaging(id) /\ Goto("updRevert")
  /\ UNCHANGED <<db, final, trash, snapTmp, history>>

\* Mutant: a failed revert is compensated all the same.
UpdateRevertIgnored(id) ==
  /\ At(id, "updRevert")
  /\ Fails("UpdateRevert") /\ Goto("updUndoTemp")
  /\ UNCHANGED <<db, fs>>

UpdateRevert(id) ==
  /\ At(id, "updRevert")
  /\ \/ /\ Works /\ Goto("updUndoTemp")
        /\ row' = [row EXCEPT ![id] = [rev |-> Outgoing(id), sha |-> intent[id].prior]]
        /\ revs' = [revs EXCEPT ![id][intent[id].target] = NoBody]
     \/ Fails("UpdateRevert") /\ Return /\ UNCHANGED <<row, revs>>
  /\ UNCHANGED <<intent, receipt, blocked, announced, ledger, fs>>

UpdateUndoTemp(id) ==
  /\ At(id, "updUndoTemp")
  /\ \/ /\ snapTmp' = [snapTmp EXCEPT ![id] = NoBody]
        /\ \/ Works /\ Goto("updCancel")
           \/ Fails("TempRemoveBarrier") /\ Return
     \/ Fails("TempRemove") /\ Return /\ UNCHANGED snapTmp
  /\ UNCHANGED <<db, final, staging, trash, history, scraps>>

UpdateCancel(id) ==
  /\ At(id, "updCancel")
  /\ \/ Works /\ Cancel(id)
     \/ /\ Fails("Cancel")
        /\ UNCHANGED <<intent, receipt, blocked, announced, ledger>>
  /\ Return
  /\ UNCHANGED <<row, revs, fs>>

\* Clean-up of an update that never committed.
UpdateDropStaging(id) ==
  /\ At(id, "updDropStaging")
  /\ SafeRemoveStaging(id) /\ Goto("updDropIntent")
  /\ UNCHANGED <<db, final, trash, snapTmp, history>>

UpdateDropIntent(id) ==
  /\ At(id, "updDropIntent")
  /\ \/ Works /\ FinishIntent(id)
     \/ Fails("FinishIntent") /\ UNCHANGED intent
  /\ Return
  /\ UNCHANGED <<row, revs, receipt, blocked, announced, ledger, fs>>

-----------------------------------------------------------------------------
(* delete_sync, delete_attempt *)

\* The intent and its receipt are reserved in one transaction before the body moves.
DeleteBegin(id) ==
  /\ pc = "idle"
  /\ Visible(id)
  /\ StartIntent(id, "delete", NoBody, row[id].sha, row[id].rev)
  /\ ReserveReceipt(id)
  /\ cur' = id /\ pc' = "delTrash" /\ Works
  /\ UNCHANGED <<row, revs, blocked, announced, ledger, fs, todo>>

DeleteTrash(id) ==
  /\ At(id, "delTrash")
  /\ \/ /\ trash' = [trash EXCEPT ![id] = IF final[id] = NoBody THEN @ ELSE final[id]]
        /\ final' = [final EXCEPT ![id] = NoBody]
        /\ \/ Works /\ Goto("delRow")
           \/ Fails("RenameBarrier") /\ Return
     \/ Fails("Rename") /\ Goto("delCancel") /\ UNCHANGED <<final, trash>>
  /\ UNCHANGED <<db, staging, snapTmp, history, scraps>>

DeleteRow(id) ==
  /\ At(id, "delRow")
  /\ \/ /\ Works /\ Goto("delRmTrash")
        /\ row' = [row EXCEPT ![id] = NoRow]
        /\ revs' = [revs EXCEPT ![id] = NoHistory]
        /\ Fanout(id)
     \/ Fails("DeleteRow") /\ Goto("delRestore") /\ UNCHANGED <<row, revs, blocked>>
  /\ UNCHANGED <<intent, receipt, announced, ledger, fs>>

DeleteTrashRemove(id) ==
  /\ At(id, "delRmTrash")
  /\ \/ Works /\ trash' = [trash EXCEPT ![id] = NoBody] /\ Goto("delRmHistory")
     \/ Fails("Remove") /\ Return /\ UNCHANGED trash
  /\ UNCHANGED <<db, final, staging, snapTmp, history, scraps>>

DeleteHistoryRemove(id) ==
  /\ At(id, "delRmHistory")
  /\ \/ /\ Works /\ Goto("delDurable")
        /\ history' = [history EXCEPT ![id] = NoHistory]
     \/ Fails("Remove") /\ Return /\ UNCHANGED history
  /\ UNCHANGED <<db, final, staging, trash, snapTmp, scraps>>

\* A failure of this last advance is turned into Interrupt::from(error), which
\* compensates although the row, the trash and the history are already gone.
DeleteDurable(id) ==
  /\ At(id, "delDurable")
  /\ \/ Works /\ Goto("delFinalize")
     \/ Fails("DeleteAdvance") /\ Goto("delRestore")
  /\ UNCHANGED <<db, fs>>

DeleteFinalize(id) ==
  /\ At(id, "delFinalize")
  /\ \/ Works /\ Settle(id, "success")
     \/ /\ Fails("Finalize")
        /\ UNCHANGED <<intent, receipt, blocked, announced, ledger>>
  /\ Return
  /\ UNCHANGED <<row, revs, fs>>

\* restore_body: nothing to do when the trash is already gone.
DeleteRestore(id) ==
  /\ At(id, "delRestore")
  /\ \/ /\ final' = [final EXCEPT ![id] = IF trash[id] = NoBody THEN @ ELSE trash[id]]
        /\ trash' = [trash EXCEPT ![id] = NoBody]
        /\ \/ Works /\ Goto("delCancel")
           \/ Fails("RenameBarrier") /\ Return
     \/ Fails("Rename") /\ Return /\ UNCHANGED <<final, trash>>
  /\ UNCHANGED <<db, staging, snapTmp, history, scraps>>

DeleteCancel(id) ==
  /\ At(id, "delCancel")
  /\ \/ Works /\ Cancel(id)
     \/ /\ Fails("Cancel")
        /\ UNCHANGED <<intent, receipt, blocked, announced, ledger>>
  /\ Return
  /\ UNCHANGED <<row, revs, fs>>

-----------------------------------------------------------------------------
(* A stop, and the reconciliation of the next start (audit_storage(true)).  *)
(* Each phase works through `todo'; a failure of a recovery step aborts the *)
(* start, which is the same as a stop.                                      *)

\* The process stops: what is in flight is lost, the disk and the database stay.
Crash ==
  /\ pc # "down"
  /\ Fails("Crash")
  /\ pc' = "down" /\ cur' = NoId /\ todo' = {}
  /\ UNCHANGED <<db, fs>>

Item(id, kind, scrap, body) ==
  [id |-> id, kind |-> kind, scrap |-> scrap, body |-> body]
IntentWork ==
  {Item(id, "intent", FALSE, NoBody) : id \in {i \in Ids : intent[i] # NoIntent}}
SweepWork ==
  {Item(id, "staging", FALSE, staging[id]) : id \in {i \in Ids : staging[i] # NoBody}}
    \cup {Item(id, "trash", FALSE, trash[id]) : id \in {i \in Ids : trash[i] # NoBody}}
    \cup UNION {{Item(id, x.kind, TRUE, x.body) : x \in scraps[id]} : id \in Ids}

\* recover_prepared_intents sees every intent, whatever its state.
Restart ==
  /\ pc = "down"
  /\ pc' = "recover" /\ todo' = IntentWork
  /\ UNCHANGED <<db, fs, cur, faults>>

Done(w) == todo' = todo \ {w}

\* complete_reconciled_intent.  A transient path that the closed intent named is
\* now a scrap.
Complete(id, result) ==
  /\ Settle(id, result)
  /\ staging' = [staging EXCEPT ![id] = NoBody]
  /\ trash' = [trash EXCEPT ![id] = NoBody]
  /\ scraps' = [scraps EXCEPT ![id] = @ \cup Scrap("staging", staging[id])
                                        \cup Scrap("trash", trash[id])]

\* classify_metadata_only_intent, for an update whose digest did not change.
Committed(id) == row[id].rev = intent[id].target
Reverted(id)  == row[id].rev + 1 = intent[id].target
\* Mutant: an update that never committed is not recognised.
ClassifyCommittedOnly(id) ==
  IF intent[id].op # "update" \/ ~MetadataOnly(id) THEN "notApplicable"
  ELSE IF Committed(id) THEN "committed" ELSE "ambiguous"

Classify(id) ==
  IF intent[id].op # "update" \/ ~MetadataOnly(id) THEN "notApplicable"
  ELSE IF row[id].sha # intent[id].prior THEN "ambiguous"
  ELSE IF Committed(id) THEN "committed"
  ELSE IF Reverted(id) THEN "reverted"
  ELSE "ambiguous"

\* Mutant: the intent is closed on the live body alone, without its snapshot.
FinishCurrentBodyBare(id, w, result) ==
  /\ Complete(id, result) /\ Done(w)
  /\ UNCHANGED <<row, revs, final, snapTmp, history>>

\* The live body is the one a publish or an update wants: complete what the
\* classification asks for, one durable effect per step, then close the intent.
\* An intent that cannot be closed keeps its artifact concealed.
FinishCurrentBody(id, w, result) ==
  LET class == Classify(id)
      out   == row[id].rev - 1
  IN  IF \/ class = "ambiguous"
         \/ /\ class = "committed"
            /\ \/ out < 1 \/ revs[id][out] = NoBody
               \/ history[id][out] \notin {NoBody, intent[id].expected}
      THEN Done(w) /\ UNCHANGED <<db, fs>>
      ELSE IF class # "notApplicable" /\ snapTmp[id] # NoBody
      THEN /\ snapTmp' = [snapTmp EXCEPT ![id] = NoBody]
           /\ UNCHANGED <<db, final, staging, trash, history, scraps, todo>>
      ELSE IF class = "committed" /\ history[id][out] = NoBody
      THEN /\ history' = [history EXCEPT ![id][out] = final[id]]
           /\ UNCHANGED <<db, final, staging, trash, snapTmp, scraps, todo>>
      ELSE /\ Complete(id, IF class = "reverted" THEN "failure" ELSE result)
           /\ Done(w)
           /\ UNCHANGED <<row, revs, final, snapTmp, history>>

\* recover_prepared_delete_intent: with the row gone the clean-up is finished
\* before the intent is closed; with the row alive and its body in place the
\* delete is a failure; otherwise the sweep has to restore the trash first.
RecoverDelete(id, w) ==
  IF row[id] = NoRow /\ trash[id] # NoBody
  THEN /\ trash' = [trash EXCEPT ![id] = NoBody]
       /\ UNCHANGED <<db, final, staging, snapTmp, history, scraps, todo>>
  ELSE IF row[id] = NoRow /\ history[id] # NoHistory
  THEN /\ history' = [history EXCEPT ![id] = NoHistory]
       /\ UNCHANGED <<db, final, staging, trash, snapTmp, scraps, todo>>
  ELSE /\ Done(w)
       /\ IF row[id] = NoRow \/ final[id] = intent[id].prior
          THEN Complete(id, IF row[id] = NoRow THEN "recovered" ELSE "failure")
          ELSE UNCHANGED <<intent, receipt, blocked, announced, ledger, staging, trash, scraps>>
       /\ UNCHANGED <<row, revs, final, snapTmp, history>>

\* recover_prepared_current_body_intent, second branch: the metadata never
\* advanced, so a matching staging body is discarded (best effort) and the intent
\* is a failure.
AbortCurrentBody(id, w) ==
  \/ /\ staging[id] = intent[id].expected /\ Works
     /\ staging' = [staging EXCEPT ![id] = NoBody]
     /\ UNCHANGED <<db, final, trash, snapTmp, history, scraps, todo>>
  \/ /\ IF staging[id] = intent[id].expected THEN Fails("SafeRemove") ELSE Works
     /\ Complete(id, "failure") /\ Done(w)
     /\ UNCHANGED <<row, revs, final, snapTmp, history>>

\* recover_prepared_intent
RecoverIntent(w) ==
  LET id == w.id
      in == intent[id]
  IN  /\ pc = "recover" /\ w \in todo
      /\ IF /\ in.op # "delete" /\ row[id] # NoRow
            /\ final[id] # in.expected
            /\ row[id].sha = in.prior /\ final[id] = in.prior
         THEN AbortCurrentBody(id, w)
         ELSE /\ Works
              /\ IF in.op = "delete" THEN RecoverDelete(id, w)
                 ELSE IF row[id] = NoRow /\ in.op = "publish"
                 THEN /\ Complete(id, "failure") /\ Done(w)
                      /\ UNCHANGED <<row, revs, final, snapTmp, history>>
                 ELSE IF row[id] # NoRow /\ final[id] = in.expected
                 THEN FinishCurrentBody(id, w, "recovered")
                 ELSE Done(w) /\ UNCHANGED <<db, fs>>
      /\ UNCHANGED <<cur, pc>>

EnterSweep ==
  /\ pc = "recover" /\ todo = {}
  /\ pc' = "sweep" /\ todo' = SweepWork
  /\ UNCHANGED <<db, fs, cur, faults>>

\* The file a sweep item stands for leaves its path.
TakeTransient(w) ==
  /\ staging' = [staging EXCEPT ![w.id] =
                   IF w.kind = "staging" /\ ~w.scrap THEN NoBody ELSE @]
  /\ trash' = [trash EXCEPT ![w.id] =
                 IF w.kind = "trash" /\ ~w.scrap THEN NoBody ELSE @]
  /\ scraps' = [scraps EXCEPT ![w.id] =
                  IF w.scrap THEN @ \ Scrap(w.kind, w.body) ELSE @]

\* safe_remove of a transient path: best effort.
DiscardTransient(w) ==
  /\ Done(w)
  /\ \/ TakeTransient(w) /\ Works
     \/ UNCHANGED <<staging, trash, scraps>> /\ Fails("SafeRemove")
  /\ UNCHANGED <<db, final, snapTmp, history>>

KeepTransient(w) == Done(w) /\ Works /\ UNCHANGED <<db, fs>>

InstallTransient(w) ==
  /\ Done(w) /\ TakeTransient(w) /\ Works
  /\ final' = [final EXCEPT ![w.id] = w.body]
  /\ UNCHANGED <<db, snapTmp, history>>

\* Mutant: the replaced body is removed instead of preserved.
PreserveOutgoingDropped(id) ==
  /\ final' = [final EXCEPT ![id] = NoBody] /\ Works
  /\ UNCHANGED <<db, staging, trash, snapTmp, history, scraps, todo>>

\* Mutant: the replaced body is filed one revision too low.
PreserveOutgoingTooLow(id) ==
  /\ history' = [history EXCEPT ![id][IF row[id].rev > 2 THEN row[id].rev - 2 ELSE 1] = final[id]]
  /\ final' = [final EXCEPT ![id] = NoBody]
  /\ Works
  /\ UNCHANGED <<db, staging, trash, snapTmp, scraps, todo>>

\* preserve_outgoing_body: the replaced revision reaches history before the
\* committed body is installed over it.
PreserveOutgoing(id) ==
  /\ history' = [history EXCEPT ![id][row[id].rev - 1] = final[id]]
  /\ final' = [final EXCEPT ![id] = NoBody]
  /\ Works
  /\ UNCHANGED <<db, staging, trash, snapTmp, scraps, todo>>

\* reconcile_transient.  The intent's own staging path is evidence when no row
\* owns it; staging entries are handled before trash.
SweepTransient(w) ==
  LET id      == w.id
      staged  == w.kind = "staging"
      matches == w.body = row[id].sha
      out     == row[id].rev - 1
  IN  /\ pc = "sweep" /\ w \in todo
      /\ w.kind = "trash" => \A v \in todo : v.kind = "trash"
      /\ IF row[id] = NoRow
         THEN IF w.scrap THEN DiscardTransient(w) ELSE KeepTransient(w)
         ELSE IF final[id] = NoBody
         THEN IF matches THEN InstallTransient(w) ELSE KeepTransient(w)
         ELSE IF staged /\ final[id] # row[id].sha
         THEN IF ~matches \/ out < 1 \/ revs[id][out] = NoBody THEN KeepTransient(w)
              ELSE IF history[id][out] = NoBody THEN PreserveOutgoing(id)
              ELSE InstallTransient(w)
         ELSE DiscardTransient(w)
      /\ UNCHANGED <<cur, pc>>

\* reclaim_orphan_history (best effort), then the intents are looked at again.
ReclaimOrphanHistory ==
  /\ pc = "sweep" /\ todo = {}
  /\ \E kept \in SUBSET {id \in Ids : row[id] = NoRow /\ history[id] # NoHistory} :
       /\ IF kept = {} THEN Works ELSE Fails("SafeRemove")
       /\ history' = [id \in Ids |-> IF row[id] = NoRow /\ id \notin kept
                                     THEN NoHistory ELSE history[id]]
  /\ pc' = "resolve" /\ todo' = IntentWork
  /\ UNCHANGED <<db, final, staging, trash, snapTmp, scraps, cur>>

\* resolve_durability_intents: close an intent only when its postcondition shows.
ResolveIntent(w) ==
  LET id   == w.id
      in   == intent[id]
      here == row[id] # NoRow
  IN  /\ pc = "resolve" /\ w \in todo
      /\ IF \/ in.op = "delete" /\ trash[id] = NoBody
               /\ IF here THEN final[id] = in.prior ELSE history[id] = NoHistory
            \/ in.op = "publish" /\ ~here
         THEN /\ Complete(id, IF here THEN "failure" ELSE "recovered") /\ Done(w)
              /\ UNCHANGED <<row, revs, final, snapTmp, history>>
         ELSE IF in.op # "delete" /\ here /\ final[id] = in.expected
         THEN FinishCurrentBody(id, w,
                IF row[id].sha = in.prior /\ ~MetadataOnly(id) THEN "failure"
                                                               ELSE "recovered")
         ELSE Done(w) /\ UNCHANGED <<db, fs>>
      /\ UNCHANGED <<cur, pc, faults>>

\* Mutant: the start waits until no intent is left.
FinishStartStrict ==
  /\ pc = "resolve" /\ todo = {} /\ intent = [id \in Ids |-> NoIntent]
  /\ pc' = "idle"
  /\ UNCHANGED <<db, fs, cur, todo, faults>>

\* Storage is reconciled: mutations are admitted.
FinishStart ==
  /\ pc = "resolve" /\ todo = {}
  /\ pc' = "idle"
  /\ UNCHANGED <<db, fs, cur, todo, faults>>

-----------------------------------------------------------------------------
Init ==
  /\ row = [id \in Ids |-> NoRow]
  /\ revs = [id \in Ids |-> NoHistory]
  /\ intent = [id \in Ids |-> NoIntent]
  /\ receipt = [id \in Ids |-> "none"]
  /\ blocked = [id \in Ids |-> {}]
  /\ announced = [id \in Ids |-> {}]
  /\ ledger = [id \in Ids |-> <<>>]
  /\ final = [id \in Ids |-> NoBody]
  /\ staging = [id \in Ids |-> NoBody]
  /\ trash = [id \in Ids |-> NoBody]
  /\ snapTmp = [id \in Ids |-> NoBody]
  /\ history = [id \in Ids |-> NoHistory]
  /\ scraps = [id \in Ids |-> {}]
  /\ cur = NoId /\ pc = "idle" /\ todo = {} /\ faults = 0

Begin(id) ==
  \/ \E b \in Bodies : PublishBegin(id, b)
  \/ \E b \in Bodies, r \in Revisions : UpdateBegin(id, r, b)
  \/ \E r \in Revisions : RestoreBegin(id, r)
  \/ DeleteBegin(id)

PublishStep(id) ==
  \/ PublishWrite(id) \/ PublishSync(id) \/ PublishInsert(id) \/ PublishAdvance(id)
  \/ PublishRename(id) \/ PublishDurable(id) \/ PublishFinalize(id)
  \/ PublishDropStaging(id) \/ PublishDropIntent(id) \/ PublishUndoRow(id)
  \/ PublishUndoStaging(id) \/ PublishUndoFinal(id) \/ PublishCancel(id)

UpdateStep(id) ==
  \/ UpdateWrite(id) \/ UpdateSync(id) \/ UpdateCommit(id) \/ UpdateSnapshot(id)
  \/ UpdateCopy(id) \/ UpdateSwap(id) \/ UpdateDurable(id) \/ UpdatePrune(id)
  \/ UpdateFinalize(id) \/ UpdateUndoSnapshot(id) \/ UpdateUndoStaging(id)
  \/ UpdateRevert(id) \/ UpdateUndoTemp(id) \/ UpdateCancel(id)
  \/ UpdateDropStaging(id) \/ UpdateDropIntent(id)

DeleteStep(id) ==
  \/ DeleteTrash(id) \/ DeleteRow(id) \/ DeleteTrashRemove(id)
  \/ DeleteHistoryRemove(id) \/ DeleteDurable(id) \/ DeleteFinalize(id)
  \/ DeleteRestore(id) \/ DeleteCancel(id)

Reconcile ==
  \/ Restart \/ EnterSweep \/ ReclaimOrphanHistory \/ FinishStart
  \/ \E w \in todo : RecoverIntent(w) \/ SweepTransient(w) \/ ResolveIntent(w)

Step == \E id \in Ids : PublishStep(id) \/ UpdateStep(id) \/ DeleteStep(id)

Next == Step \/ Reconcile \/ Crash \/ \E id \in Ids : Begin(id)

\* A mutation that holds the gate runs to its end, and a stopped process is
\* started again and reconciles before it serves.
Fairness == WF_vars(Step) /\ WF_vars(Reconcile)

Spec == Init /\ [][Next]_vars /\ Fairness

-----------------------------------------------------------------------------
(* Properties *)

DbType ==
  /\ row \in [Ids -> Rows]
  /\ revs \in [Ids -> Snapshots]
  /\ intent \in [Ids -> Intents]
  /\ receipt \in [Ids -> {"none", "pending"}]
  /\ blocked \in [Ids -> SUBSET Events]
  /\ announced \in [Ids -> SUBSET Events]
  /\ ledger \in [Ids -> Seq(Outcomes)]

FsType ==
  /\ final \in [Ids -> Digests]
  /\ staging \in [Ids -> Paths]
  /\ trash \in [Ids -> Digests]
  /\ snapTmp \in [Ids -> {NoBody, Torn}]
  /\ history \in [Ids -> Snapshots]
  /\ scraps \in [Ids -> SUBSET Scraps]

CtlType ==
  /\ cur \in Ids \cup {NoId}
  /\ pc \in PublishSteps \cup UpdateSteps \cup DeleteSteps \cup Phases
  /\ todo \in SUBSET Work
  /\ faults \in 0..MaxFaults

\* The shape of the database, the artifact directory and the running mutation; in
\* particular only whole bodies are ever renamed to the live path or to history.
TypeOK == DbType /\ FsType /\ CtlType

\* A row that load_meta returns has its body in place, with the digest the row
\* records: after any failure, compensation, stop or recovery, at any step.
VisibleBodyMatches == \A id \in Ids : Visible(id) => final[id] = row[id].sha

\* While an update is open, in process or waiting for a restart, the body it
\* replaces is live or in history: no interruption loses the last good body.
OutgoingBodySurvives ==
  \A id \in Ids :
    intent[id].op = "update" /\ MaxHistory > 0
      => intent[id].prior \in {final[id], history[id][Outgoing(id)]}

\* A snapshot in history is the body that its revision row recorded, so what
\* restore_sync replays is the revision that was asked for.
HistoryAuthentic ==
  \A id \in Ids, r \in Revisions :
    history[id][r] # NoBody /\ revs[id][r] # NoBody => history[id][r] = revs[id][r]

\* A visible artifact can be restored to each of the newest max_history
\* superseded revisions: prune_history and no failed update removes those.
RetainedRevisionsRestorable ==
  \A id \in Ids : Visible(id) =>
    \A r \in Superseded(id) \ Prunable(id) : history[id][r] = revs[id][r]

\* Nothing that an interrupted update leaves behind makes the later ones fail: the
\* history destination of a visible artifact's current revision and the temporary of
\* its copy are free, which is what snapshot_body refuses to go without.
UpdatePathClear ==
  \A id \in Ids : Visible(id) => history[id][row[id].rev] = NoBody /\ snapTmp[id] = NoBody

\* A history destination is immutable: a snapshot is removed, never replaced.
HistoryImmutable ==
  [][\A id \in Ids, r \in Revisions :
       history[id][r] # NoBody => history'[id][r] \in {history[id][r], NoBody}]_vars

\* Closing an intent closes all that hangs on it: no pending receipt and no
\* blocked delivery survives its durability intent.
NothingStranded ==
  \A id \in Ids : intent[id] = NoIntent => receipt[id] = "none" /\ blocked[id] = {}

\* The two states reconciliation cannot settle.  The metadata of a content update
\* is committed, its staged body was removed by the compensation, and the row was
\* not reverted.
HalfCompensated(id) ==
  /\ intent[id].op = "update" /\ ~MetadataOnly(id)
  /\ row[id] = [rev |-> intent[id].target, sha |-> intent[id].expected]
  /\ final[id] = intent[id].prior
  /\ staging[id] # intent[id].expected

\* Or: the body of an interrupted delete was put back from an older transient
\* path with the same content, and then its own trash could not be removed.
TrashLeft(id) ==
  /\ intent[id].op = "delete"
  /\ row[id] = [rev |-> intent[id].target, sha |-> intent[id].prior]
  /\ final[id] = intent[id].prior /\ trash[id] = intent[id].prior

\* audit_storage(true) settles every intent except a half compensated update,
\* which keeps the body it was replacing, and a delete that is undone but for
\* the removal of its trash.
ReconciliationSettles ==
  pc = "resolve" /\ todo = {} =>
    \A id \in Ids : intent[id] # NoIntent => HalfCompensated(id) \/ TrashLeft(id)

\* lifecycle/mod.rs: the orderings of the lifecycle make each interruption
\* recoverable, that is, a finished reconciliation leaves no artifact concealed.
EachInterruptionRecoverable ==
  pc = "resolve" /\ todo = {} => \A id \in Ids : intent[id] = NoIntent

\* context.rs: only a proven compensation is recorded as a compensated failure,
\* so an artifact whose delete is recorded as failed is still there.
FailedDeleteKeepsArtifact ==
  \A id \in Ids :
    LET events == ledger[id]
    IN  /\ events # <<>> /\ intent[id] = NoIntent
        /\ events[Len(events)].op = "delete" /\ events[Len(events)].result = "failure"
        => row[id] # NoRow

\* A stopped process comes back to serve: no recovery phase loops or blocks.
RestartServes == pc = "down" ~> pc = "idle"

\* The lifecycle gate is always given back.
GateReleased == cur # NoId ~> cur = NoId

-----------------------------------------------------------------------------
(* The atomic store this implements: an open intent stands for the proposed  *)
(* mutation, and until it is closed the artifact is what it was before.      *)

Before(id) ==
  IF intent[id].op = "publish" THEN [rev |-> 0, body |-> NoBody]
  ELSE [rev |-> IF intent[id].op = "update" THEN Outgoing(id) ELSE intent[id].target,
        body |-> intent[id].prior]

After(id) ==
  IF intent[id].op = "delete" THEN [rev |-> 0, body |-> NoBody]
  ELSE [rev |-> intent[id].target, body |-> intent[id].expected]

Served(id) == [rev  |-> row[id].rev,
               body |-> IF row[id] = NoRow THEN NoBody ELSE final[id]]

storeCurrent ==
  [id \in Ids |-> IF intent[id] = NoIntent THEN Served(id) ELSE Before(id)]

storePending ==
  [id \in Ids |-> IF intent[id] = NoIntent
                  THEN [op |-> "none", to |-> [rev |-> 0, body |-> NoBody]]
                  ELSE [op |-> intent[id].op, to |-> After(id)]]

Store == INSTANCE ArtifactStore
           WITH current <- storeCurrent, pending <- storePending,
                outcomes <- ledger, notified <- announced

\* Every mutation is atomic: whatever fails or stops, when its intent is closed
\* the row and the served body are both those from before it, or both those it
\* asked for, with the matching audit event and notification.
AtomicStore == Store!StoreSpec
=============================================================================
