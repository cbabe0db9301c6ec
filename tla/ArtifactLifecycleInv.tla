------------------------ MODULE ArtifactLifecycleInv ------------------------
(***************************************************************************)
(* The inductive invariant of ArtifactLifecycle: what an artifact may look *)
(* like while no intent is open, while one is open (at whatever step it    *)
(* was interrupted), and at each step of the mutation that holds the gate. *)
(***************************************************************************)
EXTENDS ArtifactLifecycle

\* The notification of the open intent.
Event(id) == [op |-> intent[id].op, rev |-> intent[id].target]

\* No intent: nothing pending, and a row has its body in place.
ClosedShape(id) ==
  /\ receipt[id] = "none" /\ blocked[id] = {} /\ trash[id] = NoBody
  /\ row[id] # NoRow => final[id] = row[id].sha

PublishShape(id) ==
  /\ intent[id].expected \in Bodies /\ intent[id].prior = NoBody /\ intent[id].target = 1
  /\ row[id] \in {NoRow, [rev |-> 1, sha |-> intent[id].expected]}
  /\ row[id] # NoRow => receipt[id] = "pending"
  /\ blocked[id] = IF receipt[id] = "pending" THEN {Event(id)} ELSE {}
  /\ final[id] \in {NoBody, intent[id].expected} /\ trash[id] = NoBody

\* The body is replaced only after the row names it, and reaches history first.
UpdateShape(id) ==
  /\ intent[id].expected \in Bodies /\ intent[id].prior \in Bodies
  /\ intent[id].target > 1
  /\ row[id] \in {[rev |-> Outgoing(id), sha |-> intent[id].prior],
                  [rev |-> intent[id].target, sha |-> intent[id].expected]}
  /\ Committed(id) => receipt[id] = "pending"
  /\ ~Committed(id) => final[id] = intent[id].prior
  /\ blocked[id] = IF receipt[id] = "pending" THEN {Event(id)} ELSE {}
  /\ final[id] \in {NoBody, intent[id].prior, intent[id].expected}
  /\ final[id] = NoBody => ~MetadataOnly(id) /\ history[id][Outgoing(id)] = intent[id].prior
  /\ MaxHistory > 0 /\ final[id] # intent[id].prior
       => history[id][Outgoing(id)] = intent[id].prior
  /\ revs[id][Outgoing(id)] \in {NoBody, intent[id].prior}
  /\ trash[id] = NoBody

DeleteShape(id) ==
  /\ intent[id].prior \in Bodies /\ receipt[id] = "pending"
  /\ row[id] \in {NoRow, [rev |-> intent[id].target, sha |-> intent[id].prior]}
  /\ final[id] \in {NoBody, intent[id].prior} /\ trash[id] \in {NoBody, intent[id].prior}
  /\ IF row[id] = NoRow THEN final[id] = NoBody /\ blocked[id] = {Event(id)}
     ELSE blocked[id] = {} /\ (final[id] = NoBody => trash[id] = intent[id].prior)

Shape(id) ==
  /\ intent[id] = NoIntent => ClosedShape(id)
  /\ intent[id].op = "publish" => PublishShape(id)
  /\ intent[id].op = "update" => UpdateShape(id)
  /\ intent[id].op = "delete" => DeleteShape(id)

\* Snapshots are older than the row, and agree with the revision rows.
HistoryShape(id) ==
  /\ row[id] # NoRow => /\ revs[id][row[id].rev] = row[id].sha
                        /\ \A r \in Revisions : r >= row[id].rev => history[id][r] = NoBody
  /\ row[id] = NoRow /\ intent[id].op # "delete" => history[id] = NoHistory
  /\ \A r \in Revisions :
       history[id][r] # NoBody /\ revs[id][r] # NoBody => history[id][r] = revs[id][r]

PublishRunning(id) ==
  /\ pc \in {"pubWrite", "pubSync", "pubInsert", "pubDropStaging", "pubDropIntent"}
       => row[id] = NoRow /\ receipt[id] = "none" /\ final[id] = NoBody
  /\ pc \in {"pubInsert", "pubAdvance", "pubRename"} => staging[id] = intent[id].expected
  /\ pc \in {"pubAdvance", "pubRename", "pubDurable", "pubFinalize", "pubUndoRow"}
       => row[id] # NoRow
  /\ pc \in {"pubDurable", "pubFinalize"} => final[id] = intent[id].expected
  /\ pc \in {"pubUndoStaging", "pubUndoFinal", "pubCancel"}
       => row[id] = NoRow /\ receipt[id] = "pending"

UpdateRunning(id) ==
  /\ pc \in {"updWrite", "updSync", "updCommit", "updDropStaging", "updDropIntent"}
       => ~Committed(id) /\ receipt[id] = "none"
  /\ pc \in {"updCommit", "updSnapshot", "updSwap"} /\ ~MetadataOnly(id)
       => staging[id] = intent[id].expected
  /\ pc \in {"updSnapshot", "updCopy", "updSwap", "updDurable", "updPrune", "updFinalize",
             "updUndoSnapshot", "updUndoStaging", "updRevert"} => Committed(id)
  /\ pc \in {"updSnapshot", "updCopy", "updUndoStaging", "updRevert"}
       => final[id] = intent[id].prior /\ history[id][Outgoing(id)] = NoBody
  /\ pc \in {"updSnapshot", "updCopy", "updSwap", "updUndoSnapshot", "updUndoStaging",
             "updRevert"} => revs[id][Outgoing(id)] = intent[id].prior
  /\ pc = "updCopy" => MetadataOnly(id)
  /\ pc \in {"updSwap", "updUndoSnapshot"} => final[id] = NoBody
  /\ pc \in {"updDurable", "updPrune", "updFinalize"} => final[id] = intent[id].expected
  /\ pc \in {"updUndoTemp", "updCancel"} => ~Committed(id) /\ receipt[id] = "pending"

\* The first disjunct of the last two steps is the compensation of a delete that
\* did not take effect, the second one of a delete that did.
DeleteRunning(id) ==
  LET gone == /\ "DeleteAdvance" \in FaultPoints /\ row[id] = NoRow
              /\ trash[id] = NoBody /\ history[id] = NoHistory
  IN  /\ pc = "delTrash" => row[id] # NoRow /\ final[id] = intent[id].prior /\ trash[id] = NoBody
      /\ pc = "delRow" => row[id] # NoRow /\ final[id] = NoBody
      /\ pc \in {"delRmTrash", "delRmHistory", "delDurable", "delFinalize"} => row[id] = NoRow
      /\ pc \in {"delRmHistory", "delDurable", "delFinalize"} => trash[id] = NoBody
      /\ pc \in {"delDurable", "delFinalize"} => history[id] = NoHistory
      /\ pc = "delRestore" => (row[id] # NoRow /\ final[id] = NoBody) \/ gone
      /\ pc = "delCancel"
           => (row[id] # NoRow /\ final[id] = intent[id].prior /\ trash[id] = NoBody) \/ gone

Running(id) ==
  /\ pc \in PublishSteps => intent[id].op = "publish" /\ PublishRunning(id)
  /\ pc \in UpdateSteps => intent[id].op = "update" /\ UpdateRunning(id)
  /\ pc \in DeleteSteps => intent[id].op = "delete" /\ DeleteRunning(id)

\* Inductive: together they imply the type invariant and the storage invariants
\* of ArtifactLifecycle, and every step of Next preserves them.
IndInv ==
  /\ TypeOK
  /\ cur = NoId <=> pc \in Phases
  /\ \A id \in Ids : Shape(id) /\ HistoryShape(id)
  /\ \A id \in Ids : cur = id => Running(id)

-----------------------------------------------------------------------------
(* What a start finds to work with, and how far it has got.                 *)

\* What recovery falls back on: the body of a published row, and the body of a
\* committed update whose live path is empty, are still at a staging path, and
\* the outgoing revision keeps its row.
Fallback(id) ==
  /\ intent[id].op = "publish" /\ row[id] # NoRow /\ final[id] # intent[id].expected
       => staging[id] = intent[id].expected
  /\ intent[id].op = "update" /\ Committed(id)
       => revs[id][Outgoing(id)] = intent[id].prior
  /\ intent[id].op = "update" /\ final[id] = NoBody
       => \/ staging[id] = intent[id].expected
          \/ [kind |-> "staging", body |-> intent[id].expected] \in scraps[id]

\* The file a sweep item stands for is still there.
Present(w) ==
  /\ w.scrap => [kind |-> w.kind, body |-> w.body] \in scraps[w.id]
  /\ ~w.scrap /\ w.kind = "staging" => staging[w.id] = w.body

\* An intent that recover_prepared_intents cannot close: only the body is missing.
Owed(id) ==
  /\ row[id] # NoRow
  /\ intent[id].op = "update" => Committed(id) /\ ~MetadataOnly(id)

IntentItem(id) == Item(id, "intent", FALSE, NoBody)

\* The sweep still has the body that the row names in front of it.
Restorable(id) ==
  \E w \in todo : /\ w.id = id /\ w.body = row[id].sha
                  /\ w.kind = "staging" \/ intent[id].op = "delete"

\* The phases of a start: every intent is closed, waits for its body, or is one
\* of those that cannot be closed.
Recovering(id) ==
  /\ pc = "recover" =>
       IntentItem(id) \in todo \/ (Owed(id) /\ final[id] # row[id].sha)
  /\ pc = "sweep" =>
       Owed(id) /\ (final[id] = row[id].sha \/ HalfCompensated(id) \/ Restorable(id))
  /\ pc = "resolve" =>
       /\ Owed(id) /\ (final[id] = row[id].sha \/ HalfCompensated(id))
       /\ IntentItem(id) \in todo \/ HalfCompensated(id) \/ TrashLeft(id)

RecoveryInv ==
  /\ \A id \in Ids : Fallback(id)
  /\ pc = "sweep" => \A w \in todo : Present(w)
  /\ \A id \in Ids : intent[id] # NoIntent => Recovering(id)

-----------------------------------------------------------------------------
(* Which revisions of an artifact are in history.                           *)

\* The revisions below n with a row in f, and the newest MaxHistory of them.
Older(f, n) == {r \in Revisions : r < n /\ f[r] # NoBody}
Newest(f, n) ==
  {r \in Older(f, n) : ~(Cardinality({s \in Older(f, n) : s > r}) >= MaxHistory)}

\* The outgoing revision of a committed update may not have reached history yet.
Retained(id) ==
  row[id] # NoRow =>
    \A r \in Newest(revs[id], row[id].rev) :
      \/ history[id][r] = revs[id][r]
      \/ intent[id].op = "update" /\ Committed(id) /\ r = Outgoing(id)

\* Until prune_history has run, the revisions that a revert would bring back
\* into the retained ones are there too.
RevertRetains(id) ==
  cur = id /\ pc \in {"updSnapshot", "updCopy", "updSwap", "updUndoSnapshot",
                      "updUndoStaging", "updRevert"} =>
    \A r \in Newest(revs[id], Outgoing(id)) : history[id][r] = revs[id][r]

\* An update that goes on to its end has its snapshot.
SnapshotTaken(id) ==
  cur = id /\ pc \in {"updDurable", "updPrune", "updFinalize"} =>
    history[id][Outgoing(id)] = intent[id].prior

Retention(id) == Retained(id) /\ RevertRetains(id) /\ SnapshotTaken(id)

RetentionInv == \A id \in Ids : Retention(id)

-----------------------------------------------------------------------------
(* Who owns the temporary of a snapshot.                                    *)

\* The copy that a metadata update started, until it is renamed or removed.
TempOwned(id) ==
  snapTmp[id] # NoBody =>
    /\ intent[id].op = "update" /\ MetadataOnly(id)
    /\ cur = id => pc \in {"updCopy", "updUndoStaging", "updRevert", "updUndoTemp"}

TempInv == \A id \in Ids : TempOwned(id)

=============================================================================
