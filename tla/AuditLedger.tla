----------------------------- MODULE AuditLedger -----------------------------
(***************************************************************************)
(* The security audit ledger: security/audit/{append,chain,receipts,      *)
(* retention,verify,query}.rs.                                             *)
(*                                                                         *)
(* Four tables of one SQLite database: the retained events, keyed by their *)
(* sequence number and chained by hash; the authenticated chain head; the  *)
(* checkpoints retention leaves behind; the receipts that reserve the one  *)
(* terminal event of a mutation that also touches the file system.  Every  *)
(* writer is one IMMEDIATE transaction, hence one action.  `verify` is     *)
(* not: before retention it reads the tables in separate statements, so    *)
(* each read is a step and writers commit in between.                      *)
(*                                                                         *)
(* The keyed digests are CONSTANT operators: what holds here holds for     *)
(* every digest.  A timestamp is only "older than the cutoff or not".      *)
(***************************************************************************)
EXTENDS Integers, Sequences, FiniteSets

CONSTANTS
  Tenants,               \* organizations
  Intents,               \* durability intent identifiers (deterministic per mutation)
  TenantOf,              \* the organization each intent belongs to
  NoHash,                \* the empty string of a digest column
  Hash(_, _, _),         \* hash(sequence, previous, canonical)
  RootHash(_),           \* digest of the pending receipts
  HeadMac(_, _, _),      \* head_mac(sequence, head, pending root)
  CheckpointMac(_, _, _, _),   \* checkpoint_mac(first, last, bridge, previous)
  BatchSize,             \* rows one retention run may delete
  PageLimit,             \* rows of one query page
  MaxSequence,           \* bound: events ever appended
  MaxReservations,       \* bound: receipts ever reserved
  MaxPages               \* bound: pages one client asks for

ASSUME LedgerAssumption ==
  /\ MaxSequence \in Nat
  /\ MaxReservations \in Nat
  /\ MaxPages \in Nat
  /\ BatchSize \in Nat \ {0}
  /\ PageLimit \in Nat \ {0}
  /\ TenantOf \in [Intents -> Tenants]

VARIABLES
  events,        \* security_audit_events: sequence number -> row
  head,          \* security_audit_chain_head, the single row
  checkpoints,   \* security_audit_checkpoints in checkpoint_id order
  receipts,      \* security_audit_receipts by durability_intent_id
  reserved,      \* number of reservations made, the source of correlation ids
  old,           \* retained events whose timestamp is before the cutoff
  process,       \* the server: down, recovering (start-up), serving
  inflight,      \* intents of mutations this process is executing
  prune,         \* the retention run: which statement is next and what was read
  scan           \* a client that pages through the events of one tenant

vars == <<events, head, checkpoints, receipts, reserved, old, process, inflight,
          prune, scan>>

Results == {"success", "failure", "recovered"}
Contents == [tenant : Tenants \cup {"ledger"}, correlation : Nat, result : Results]

NoReceipt == [state |-> "none", correlation |-> 0, event |-> 0, result |-> "success"]
Receipts == [state : {"none", "pending", "finalized"}, correlation : Nat, event : Nat,
             result : Results]

PristineHead == [sequence |-> 0, head_hash |-> NoHash, head_mac |-> NoHash,
                 root |-> NoHash]

NoScan == [tenant |-> "none", after |-> 0, seen |-> {}, upto |-> 0, pages |-> 0]
\* A retention run: its next statement, the commit count it began at, the sequence and
\* hash the next row must have, and the head it loaded.
RetentionRun(at, began, next, link, h) ==
  [at |-> at, began |-> began, next |-> next, link |-> link, head |-> h]
IdlePrune == RetentionRun("idle", <<0, 0>>, 1, NoHash, PristineHead)

------------------------------------------------------------------------------
(* Digests over the tables.                                                *)

\* pending_receipts_root: the digest commits to the set of pending receipts
\* (sorted by their macs; a mac covers the intent and the correlation).
Pending(rc) == {<<i, rc[i].correlation>> : i \in {j \in Intents : rc[j].state = "pending"}}
PendingReceiptsRoot(rc) == RootHash(Pending(rc))

\* A head row with the mac over its other columns.
HeadRow(sequence, hash, root) ==
  [sequence |-> sequence, head_hash |-> hash, head_mac |-> HeadMac(sequence, hash, root),
   root |-> root]

\* initialize_head: seals the empty head a migration leaves, once.
InitializeHead(h, rc) ==
  IF h = PristineHead THEN HeadRow(h.sequence, h.head_hash, PendingReceiptsRoot(rc)) ELSE h

VerifyHeadMac(h) == h.head_mac = HeadMac(h.sequence, h.head_hash, h.root)

VerifyPendingReceipts(h, rc) == VerifyHeadMac(h) /\ h.root = PendingReceiptsRoot(rc)

\* refresh_pending_receipts_root
BadRefreshPendingReceiptsRoot(h, rc) == h
RefreshPendingReceiptsRoot(h, rc) ==
  HeadRow(h.sequence, h.head_hash, PendingReceiptsRoot(rc))

\* checked_add(1) on the sequence of the authenticated head
NextSequence(h) == h.sequence + 1

\* append_in_transaction: the row and the head that names it.
EventRow(h, content) ==
  [content |-> content, prev |-> h.head_hash,
   hash |-> Hash(NextSequence(h), h.head_hash, content)]

AppendedHead(h, content) ==
  HeadRow(NextSequence(h), EventRow(h, content).hash, h.root)

\* One transaction that appends an event to the rows `ev` and leaves the
\* receipts `rc`: append_in_transaction verifies what it extends, and a change of
\* the pending set refreshes the head's commitment to it.
AppendInTransaction(ev, content, rc) ==
  LET h == InitializeHead(head, receipts)
      s == NextSequence(h)
  IN /\ VerifyPendingReceipts(h, receipts)
     /\ s <= MaxSequence
     /\ events' = [t \in DOMAIN ev \cup {s} |-> IF t = s THEN EventRow(h, content) ELSE ev[t]]
     /\ head' = RefreshPendingReceiptsRoot(AppendedHead(h, content), rc)
     /\ receipts' = rc

------------------------------------------------------------------------------
(* verify: three stages over the four tables, written over their contents. *)

\* Stage 1: the sequence the first retained event must have and the hash it must
\* link to, given that the checkpoints are in order.
BadExpectedSequence(cp) == IF cp = <<>> THEN 1 ELSE cp[Len(cp)].last
ExpectedSequence(cp) == IF cp = <<>> THEN 1 ELSE cp[Len(cp)].last + 1
Bridge(cp) == IF cp = <<>> THEN NoHash ELSE cp[Len(cp)].bridge
PreviousCheckpoint(cp, i) == IF i = 1 THEN NoHash ELSE cp[i - 1].mac

VerifyCheckpoints(cp) ==
  \A i \in 1 .. Len(cp) :
    /\ cp[i].first = IF i = 1 THEN 1 ELSE cp[i - 1].last + 1
    /\ cp[i].last >= cp[i].first
    /\ cp[i].prev = PreviousCheckpoint(cp, i)
    /\ cp[i].mac = CheckpointMac(cp[i].first, cp[i].last, cp[i].bridge, cp[i].prev)

\* Stage 2: the rows run from `expected` to `next - 1` without a gap, each linked to
\* the one before it and hashed over what it stores.
LinkBefore(ev, s, expected, bridge) == IF s = expected THEN bridge ELSE ev[s - 1].hash

VerifyEvents(ev, expected, bridge, next) ==
  /\ next >= expected
  /\ DOMAIN ev = expected .. (next - 1)
  /\ \A s \in DOMAIN ev :
       /\ ev[s].prev = LinkBefore(ev, s, expected, bridge)
       /\ ev[s].hash = Hash(s, ev[s].prev, ev[s].content)

\* Stage 3: the head commits to the last row and to the pending set.
BadVerifyChainHead(h, root, next, link) ==
  /\ h.sequence = next - 1
  /\ h.head_hash = link
  /\ VerifyHeadMac(h)
VerifyChainHead(h, root, next, link) ==
  /\ h.sequence = next - 1
  /\ h.head_hash = link
  /\ h.root = root
  /\ h.head_mac = HeadMac(next - 1, link, root)

\* All stages on one state of the tables.
Verify(ev, cp, h, rc) ==
  /\ VerifyCheckpoints(cp)
  /\ VerifyEvents(ev, ExpectedSequence(cp), Bridge(cp), h.sequence + 1)
  /\ VerifyChainHead(h, PendingReceiptsRoot(rc), h.sequence + 1,
                     LinkBefore(ev, h.sequence + 1, ExpectedSequence(cp), Bridge(cp)))

------------------------------------------------------------------------------
Init ==
  /\ events = << >>
  /\ head = PristineHead
  /\ checkpoints = << >>
  /\ receipts = [i \in Intents |-> NoReceipt]
  /\ reserved = 0
  /\ old = {}
  /\ process = "down"
  /\ inflight = {}
  /\ prune = IdlePrune
  /\ scan = NoScan

\* ArtifactStore::from_config: seal, verify (nothing else runs yet), refuse to
\* start when the ledger does not verify.
Boot ==
  /\ process = "down"
  /\ head' = InitializeHead(head, receipts)
  /\ VerifyPendingReceipts(head', receipts)
  /\ Verify(events, checkpoints, head', receipts)
  /\ process' = "recovering"
  /\ UNCHANGED <<events, checkpoints, receipts, reserved, old, inflight, prune, scan>>

\* Reconciliation is over; an intent it could not resolve keeps its receipt.
Serve ==
  /\ process = "recovering"
  /\ process' = "serving"
  /\ UNCHANGED <<events, head, checkpoints, receipts, reserved, old, inflight, prune, scan>>

Crash ==
  /\ process # "down"
  /\ process' = "down"
  /\ inflight' = {}
  /\ prune' = IdlePrune
  /\ UNCHANGED <<events, head, checkpoints, receipts, reserved, old, scan>>

\* mutate_in_transaction: a database-only mutation and its terminal event.
Mutate(t) ==
  /\ process = "serving"
  /\ AppendInTransaction(events, [tenant |-> t, correlation |-> 0, result |-> "success"],
                         receipts)
  /\ UNCHANGED <<checkpoints, reserved, old, process, inflight, prune, scan>>

\* reserve_audit: with the intent of a mutation that will touch files.  A receipt the
\* intent already has makes the reservation, and the mutation, fail.
Reserve(i) ==
  LET h == InitializeHead(head, receipts)
      rc == [receipts EXCEPT ![i] =
               [state |-> "pending", correlation |-> reserved + 1, event |-> 0,
                result |-> "success"]]
  IN /\ process = "serving"
     /\ reserved < MaxReservations
     /\ VerifyPendingReceipts(h, receipts)
     /\ receipts[i].state = "none"
     /\ receipts' = rc
     /\ head' = RefreshPendingReceiptsRoot(h, rc)
     /\ reserved' = reserved + 1
     /\ inflight' = inflight \cup {i}
     /\ UNCHANGED <<events, checkpoints, old, process, prune, scan>>

\* The receipt a terminal event may be appended for.
BadAwaitsTerminalEvent(i) == receipts[i].state # "none"
AwaitsTerminalEvent(i) == receipts[i].state = "pending"

ReceiptContent(i, result) ==
  [tenant |-> TenantOf[i], correlation |-> receipts[i].correlation, result |-> result]

FinalizedReceipt(i, result) ==
  [state |-> "finalized", correlation |-> receipts[i].correlation,
   event |-> NextSequence(head), result |-> result]

\* finalize_receipt_in_transaction, from finalize_audit_and_intent.
Finalize(i) ==
  /\ process = "serving"
  /\ i \in inflight
  /\ AwaitsTerminalEvent(i)
  /\ AppendInTransaction(events, ReceiptContent(i, "success"),
                         [receipts EXCEPT ![i] = FinalizedReceipt(i, "success")])
  /\ inflight' = inflight \ {i}
  /\ UNCHANGED <<checkpoints, reserved, old, process, prune, scan>>

\* cancel_compensated_audit_intent: the failure event and the release of the receipt.
Cancel(i) ==
  /\ process = "serving"
  /\ i \in inflight
  /\ AwaitsTerminalEvent(i)
  /\ AppendInTransaction(events, ReceiptContent(i, "failure"),
                         [receipts EXCEPT ![i] = NoReceipt])
  /\ inflight' = inflight \ {i}
  /\ UNCHANGED <<checkpoints, reserved, old, process, prune, scan>>

\* finalize_reconciled_receipt_in_transaction: at start-up, for an intent whose
\* mutation was interrupted.  A failure releases the intent for a fresh request.
Reconcile(i, result) ==
  /\ process = "recovering"
  /\ AwaitsTerminalEvent(i)
  /\ AppendInTransaction(events, ReceiptContent(i, result),
       [receipts EXCEPT ![i] = IF result = "failure" THEN NoReceipt
                               ELSE FinalizedReceipt(i, result)])
  /\ UNCHANGED <<checkpoints, reserved, old, process, inflight, prune, scan>>

\* Time passes for one event.  Wall clocks go backwards, so any event may be the one.
Expire(s) ==
  /\ s \in DOMAIN events \ old
  /\ old' = old \cup {s}
  /\ UNCHANGED <<events, head, checkpoints, receipts, reserved, process, inflight,
                 prune, scan>>

------------------------------------------------------------------------------
(* prune_expired: verify in separate statements, then one transaction.     *)

PruneIs(at) == process = "serving" /\ prune.at = at

\* Everything but the retention run.
tables == <<events, head, checkpoints, receipts, reserved, old, process, inflight, scan>>

\* Grows with every transaction that changes the ledger or the receipts.
Commits == <<head.sequence, reserved>>

\* verify_checkpoints
PruneReadCheckpoints ==
  /\ PruneIs("idle")
  /\ prune' = RetentionRun(IF VerifyCheckpoints(checkpoints) THEN "events" ELSE "refused",
                           Commits, ExpectedSequence(checkpoints), Bridge(checkpoints),
                           PristineHead)
  /\ UNCHANGED tables

\* verify_events, from what the checkpoints said
PruneReadEvents ==
  /\ PruneIs("events")
  /\ \/ \E next \in 1 .. (MaxSequence + 1) :
          /\ VerifyEvents(events, prune.next, prune.link, next)
          /\ prune' = RetentionRun("head", prune.began, next,
                                   LinkBefore(events, next, prune.next, prune.link),
                                   prune.head)
     \/ /\ \A next \in 1 .. (MaxSequence + 1) :
             ~VerifyEvents(events, prune.next, prune.link, next)
        /\ prune' = RetentionRun("refused", prune.began, prune.next, prune.link, prune.head)
  /\ UNCHANGED tables

\* load_head
PruneReadHead ==
  /\ PruneIs("head")
  /\ prune' = RetentionRun("receipts", prune.began, prune.next, prune.link, head)
  /\ UNCHANGED tables

\* pending_receipts_root and the comparison with the head read before
PruneReadReceipts ==
  /\ PruneIs("receipts")
  /\ prune' = RetentionRun(
       IF VerifyChainHead(prune.head, PendingReceiptsRoot(receipts), prune.next, prune.link)
       THEN "verified" ELSE "refused",
       prune.began, prune.next, prune.link, prune.head)
  /\ UNCHANGED tables

\* The integrity_failure signal and the error the operator sees.
PruneRefuse ==
  /\ PruneIs("refused")
  /\ prune' = IdlePrune
  /\ UNCHANGED tables

\* The longest run of expired rows from the first retained one, at most BatchSize.
BadExpiredPrefix(last) ==
  /\ last \in old
  /\ Cardinality({s \in DOMAIN events : s <= last}) <= BatchSize
ExpiredPrefix(last) ==
  LET through(n) == {s \in DOMAIN events : s <= n}
  IN /\ last \in DOMAIN events
     /\ through(last) \subseteq old
     /\ Cardinality(through(last)) <= BatchSize
     /\ \/ Cardinality(through(last)) = BatchSize
        \/ last + 1 \notin DOMAIN events
        \/ last + 1 \notin old

PruneContent == [tenant |-> "ledger", correlation |-> 0, result |-> "success"]

\* The transaction: checkpoint, delete the prefix, append audit.prune.
PruneDelete(last) ==
  LET first == CHOOSE s \in DOMAIN events : \A t \in DOMAIN events : s <= t
      prev == IF checkpoints = <<>> THEN NoHash ELSE checkpoints[Len(checkpoints)].mac
      bridge == events[last].hash
  IN /\ PruneIs("verified")
     /\ ExpiredPrefix(last)
     /\ checkpoints' = Append(checkpoints,
          [first |-> first, last |-> last, bridge |-> bridge, prev |-> prev,
           mac |-> CheckpointMac(first, last, bridge, prev)])
     /\ AppendInTransaction([s \in {t \in DOMAIN events : t > last} |-> events[s]],
                            PruneContent, receipts)
     /\ old' = {s \in old : s > last}
     /\ prune' = IdlePrune
     /\ UNCHANGED <<reserved, process, inflight, scan>>

\* No expired prefix: the transaction commits empty.
PruneNothing ==
  /\ PruneIs("verified")
  /\ \A last \in DOMAIN events : ~ExpiredPrefix(last)
  /\ prune' = IdlePrune
  /\ UNCHANGED tables

------------------------------------------------------------------------------
(* query_authorized: one page per call, continued from a signed cursor.    *)

RowsAfter(t, after) == {s \in DOMAIN events : events[s].content.tenant = t /\ s > after}
\* The rows of one page: the first `limit` after the cursor.
PageRows(t, after) ==
  {s \in RowsAfter(t, after) : Cardinality({r \in RowsAfter(t, after) : r <= s}) <= PageLimit}

\* The cursor names the last row shown.
BadCursorOf(t, after) ==
  CHOOSE s \in RowsAfter(t, after) :
    Cardinality({r \in RowsAfter(t, after) : r <= s}) = PageLimit + 1
CursorOf(t, after) ==
  CHOOSE s \in PageRows(t, after) : \A r \in PageRows(t, after) : r <= s

\* The first page (no cursor) or the page after the cursor of the one before.  The
\* client's `upto` is how far the answers so far claim to reach: the cursor when there
\* is more, everything appended so far when there is not.
Page(t, from) ==
  LET shown == PageRows(t, from)
      more == RowsAfter(t, from) # shown
  IN /\ process = "serving"
     /\ scan = NoScan \/ (scan.tenant = t /\ from # 0)
     /\ scan.pages < MaxPages
     /\ scan' = [tenant |-> t,
                 after |-> IF more THEN CursorOf(t, from) ELSE 0,
                 seen |-> scan.seen \cup shown,
                 pages |-> scan.pages + 1,
                 upto |-> IF more THEN CursorOf(t, from) ELSE head.sequence]
     /\ UNCHANGED <<events, head, checkpoints, receipts, reserved, old, process,
                    inflight, prune>>

------------------------------------------------------------------------------
Next ==
  \/ Boot
  \/ Serve
  \/ Crash
  \/ \E t \in Tenants : Mutate(t)
  \/ \E i \in Intents : Reserve(i)
  \/ \E i \in Intents : Finalize(i)
  \/ \E i \in Intents : Cancel(i)
  \/ \E i \in Intents : \E result \in {"recovered", "failure"} : Reconcile(i, result)
  \/ \E s \in DOMAIN events : Expire(s)
  \/ PruneReadCheckpoints
  \/ PruneReadEvents
  \/ PruneReadHead
  \/ PruneReadReceipts
  \/ PruneRefuse
  \/ \E last \in DOMAIN events : PruneDelete(last)
  \/ PruneNothing
  \/ \E t \in Tenants : Page(t, scan.after)

Spec == Init /\ [][Next]_vars

------------------------------------------------------------------------------
\* The tables hold rows of the schema, none beyond the sequence of the head.
TypeOK ==
  /\ head.sequence \in 0 .. MaxSequence
  /\ DOMAIN events \subseteq 1 .. head.sequence
  /\ \A s \in DOMAIN events : events[s].content \in Contents
  /\ receipts \in [Intents -> Receipts]
  /\ reserved \in 0 .. MaxReservations
  /\ old \subseteq DOMAIN events
  /\ process \in {"down", "recovering", "serving"}
  /\ inflight \subseteq Intents
  /\ prune.at \in {"idle", "events", "head", "receipts", "verified", "refused"}

\* Whatever appends, reservations, recoveries and retention runs did in whatever
\* order, a verification of the tables as they stand succeeds once the head is sealed:
\* the start-up check (from_config) never refuses a ledger only this program wrote.
LedgerVerifies ==
  head # PristineHead => Verify(events, checkpoints, head, receipts)

\* The other direction, one change at a time: a retained event that is lost or whose
\* result is altered, a suffix that is cut off, the last checkpoint or a pending receipt
\* that is lost: `verify` says so.  (Digests are injective in the checked instance.)
TamperEvident ==
  LET without(s) == [t \in DOMAIN events \ {s} |-> events[t]]
      upTo(s) == [t \in {u \in DOMAIN events : u <= s} |-> events[t]]
  IN head # PristineHead =>
     /\ \A s \in DOMAIN events :
          /\ ~Verify(without(s), checkpoints, head, receipts)
          /\ \A c \in {[events[s].content EXCEPT !.result = r] : r \in Results}
                        \ {events[s].content} :
               ~Verify([events EXCEPT ![s].content = c], checkpoints, head, receipts)
          /\ s < head.sequence => ~Verify(upTo(s), checkpoints, head, receipts)
     /\ checkpoints # <<>> =>
          ~Verify(events, SubSeq(checkpoints, 1, Len(checkpoints) - 1), head, receipts)
     /\ \A i \in Intents : receipts[i].state = "pending" =>
          ~Verify(events, checkpoints, head, [receipts EXCEPT ![i] = NoReceipt])

\* A reservation ends in one terminal event: none while the receipt is pending, never
\* two, and the event a finalized receipt names is the reservation's own until
\* retention takes it (receipts.rs: "Finalize a reserved receipt exactly once").
OneTerminalEvent ==
  LET of(s) == events[s].content.correlation
  IN /\ \A s, t \in DOMAIN events : of(s) = of(t) /\ of(s) # 0 => s = t
     /\ \A i \in Intents :
          /\ receipts[i].state = "pending" =>
               \A s \in DOMAIN events : of(s) # receipts[i].correlation
          /\ receipts[i].state = "finalized" =>
               \/ receipts[i].event < ExpectedSequence(checkpoints)
               \/ /\ receipts[i].event \in DOMAIN events
                  /\ events[receipts[i].event].content = ReceiptContent(i, receipts[i].result)

\* `verify` before retention reads the tables in four statements.  It reports an
\* integrity failure of a sound ledger only when a writer committed between them.
RefusedOnlyByRace == prune.at = "refused" => Commits # prune.began

\* Retained rows are never rewritten, sequence numbers never reused, and a row leaves
\* only below a new checkpoint that ends at an expired row.
LedgerAppendOnly ==
  [][/\ head'.sequence >= head.sequence
     /\ \A s \in DOMAIN events \cap DOMAIN events' : events'[s] = events[s]
     /\ \A s \in DOMAIN events' \ DOMAIN events : s > head.sequence
     /\ \A s \in DOMAIN events \ DOMAIN events' :
          s \in old /\ s < ExpectedSequence(checkpoints')]_vars

\* A client that follows the cursors misses no retained event of its tenant up to where
\* the answers claim to reach, whatever was appended or pruned between its calls.
ScanComplete ==
  \A s \in DOMAIN events :
    events[s].content.tenant = scan.tenant /\ s <= scan.upto => s \in scan.seen
=============================================================================
