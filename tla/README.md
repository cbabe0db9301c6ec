# TLA+ models of Artifact MCP

Artifact MCP publishes HTML artifacts for AI agents. It is a modular monolith:
one Rust process, one SQLite database (WAL, IMMEDIATE transactions) and one
artifact directory. Six parts of it keep state across steps that other tasks,
failures and restarts come between, and they are the ones modelled:

* the **artifact lifecycle**: publish, update, restore and delete keep a database
  row and a body on disk consistent, although no transaction spans the two, and
  start-up reconciliation repairs what a stop left behind;
* the **durable delivery outbox**: notifications and discussion messages are
  inserted with the mutation that causes them and sent to Discord by two worker
  tasks, at least once, in order per target;
* the **audit ledger**: a hash chain with an authenticated head, receipts that
  reserve the one outcome of a mutation, and retention of an expired prefix;
* **Discord inbound**: a Gateway worker mirrors the messages of a thread as
  feedback, with resumed sessions, deferred fetches and local moderation;
* **push reminders**: reminders become one delivery per device, sent under a
  lease;
* **previews**: one lane renders pictures of artifact bodies for mutations, for
  the backfill of a start, for regenerations and for delivery workers.

Paths below are relative to `src/src/`.

## Inventory of the system

| part | state | operations | what makes it hard | here |
|---|---|---|---|---|
| artifact lifecycle (`artifacts/lifecycle`) | `artifacts`, `artifact_revisions`, `artifact_durability_intents` rows; live body, staging, trash, history | publish, update, restore, delete and their compensations | a failure or stop between any two durable steps; failing compensations; rename done but its fsync failed | modelled, proved |
| reconciliation (`artifacts/reconciliation`, `startup/storage.rs`) | the same | intent recovery, transient sweep, orphan history, intent resolution | interrupted recovery, stale rows, ambiguous evidence | modelled, proved |
| metadata edits, re-tenanting, reads | rows | single transactions; reads under the gate | reads during a mutation | reads as `Visible`; the edits are not modelled |
| outbox (`persistence/outbox`, `outbox_fanout.rs`) | `provider_delivery_outbox`, `provider_delivery_rate_limits` | enqueue, gate, claim, propagate, accept, retry, dead-letter, rate limit | leases that expire, dependency chains, queue limits | modelled, proved |
| delivery workers (`integrations/delivery_worker`, `delivery_runtime.rs`, `discord_delivery.rs`) | what a task holds between awaits | claim, prepare, send, persist rate limit, settle, shut down | lost answers, late settles, stops mid-attempt | modelled, proved |
| feedback and discussions (`feedback_delivery.rs`, `discussions/`) | feedback, threads, markers | submit, plan rows and their dependencies | predecessors in any state | partly: the rows it plans |
| audit ledger (`security/audit`) | events, checkpoints, authenticated head, receipts | reserve, finalize, compensate, reconcile, append, verify, prune, page | several statements per outcome, retention of a chain prefix, a verification that is not one transaction | modelled, proved |
| Discord inbound (`discord_inbound`, `discord_gateway_runtime`) | session row, inbox, message versions, policy | connect, resume, apply, defer, fetch, moderate, enable, disable, rotate | duplicated, late and lost events, fetches that race deletes and settings | modelled, proved |
| Web Push (`persistence/push`, `push_runtime`) | reminders, opt-ins, subscriptions, deliveries | arm, clear, register, sweep, claim, send, mark | takeover of a device, batch outliving its lease, unguarded marks | modelled, proved |
| preview tasks, thumbnails (`mcp/tasks.rs`, `integrations/thumbnails`, `preview.rs`, `delivery_worker/preview.rs`) | task files, pictures, a bounded queue, a cache | request, run, cancel, resume, look up; schedule, render, sweep, audit, backfill | stale jobs, cancel against complete, ignored write errors | modelled, proved |
| viewer state, reactions, views, collections, shares | independent rows | single transactions | | not modelled |
| history recovery, ingress, identity, live data, rendering, configuration, backup, migrations | | request handling, parsing, text, operator commands | | not modelled |

Interactions: a lifecycle mutation reserves its audit receipt and inserts its outbox
rows in the transaction that changes the artifact row. The outbox rows stay
`blocked` behind the durability intent until the mutation (or reconciliation)
closes the intent, which releases or deletes them and writes the audit outcome.
Each model takes its neighbours' side of such a step as an input: the outbox takes the
end of a producer, the ledger the reservation and the outcome of a mutation, the
previews the commit of a mutation.

## Modules

| module | models |
|---|---|
| `ArtifactLifecycle` | the lifecycle and the reconciliation, one action per durable step |
| `ArtifactStore` | what the lifecycle promises: an atomic store |
| `ArtifactLifecycleInv` | the inductive invariants `IndInv`, `RecoveryInv`, `RetentionInv`, `TempInv` |
| `ArtifactLifecycleProofs` | `IndInv`, and the storage properties that follow from it |
| `ArtifactRecoveryProofs` | `RecoveryInv`: what a start finds and what it settles; the refinement of `ArtifactStore` |
| `ArtifactRetentionProofs` | `RetentionInv`: which revisions stay restorable; `TempInv`: that the next update finds its way clear |
| `DeliveryOutbox`, `DeliveryOutboxProofs` | the outbox and the delivery workers |
| `AuditLedger`, `AuditLedgerProofs` | the ledger, its receipts, retention and paging |
| `DiscordInbound`, `DiscordInboundProofs` | the Gateway worker, its supervisor, the inbox and the mirror |
| `PushReminders`, `PushRemindersProofs` | reminders, subscriptions, sweeper and sender |
| `PreviewTasks`, `PreviewTasksProofs` | the render lane, the pictures and the preview tasks |
| `MCArtifactLifecycle`, `MCDeliveryOutbox`, `MCAuditLedger`, `MCDiscordInbound`, `MCPushReminders`, `MCPreviewTasks` | instances for TLC |

An operator whose comment begins with "Mutant", or whose name begins with `Bad`, is a
faulty version of the operator after it. No specification uses it; it exists to
show that the properties notice the fault.

### ArtifactLifecycle

`row`, `revs`, `intent`, `receipt`, `blocked`, `announced`, `ledger` are the database,
`final`, `staging`, `trash`, `snapTmp`, `history`, `scraps` the artifact directory.
`lifecycle_gate.write()` serialises mutations, so one pair `cur`, `pc` says which
artifact is being changed and which step comes next. Between two steps the
process may stop (`Crash`); a step may fail in process at each of the
`FaultPoints`, which takes the code's compensation path, and a compensation may
fail too. A rename whose directory sync fails is a failure *after* the effect
(`RenameBarrier`). After a stop, `Restart` runs the phases of `audit_storage(true)`:
`RecoverIntent` for each intent, `SweepTransient` for each staging or trash path,
`ReclaimOrphanHistory`, `ResolveIntent`, and only then does the process serve
(`FinishStart`). `Visible` is the predicate of `load_meta`, which conceals an
artifact while its intent is open.

Abstractions and assumptions:

* a body is a model value and stands for its digest; a half-written file is `Torn`;
  single files and bundles take the same steps and are not told apart;
* SQLite transactions are atomic and durable, and a COMMIT that reports an error
  is taken as rolled back (the code leaves an ambiguous commit to the next start,
  which the model reaches by a stop after the commit);
* because of the gate, the branches for a row changed by somebody else in the
  middle of a mutation cannot be reached and are left out;
* rows of older releases without a digest are left out; the ids of
  `next_id` are random over 33^12 values, and one is not drawn twice;
* an I/O error during a start ends that start, which is the same as a stop;
* `MaxHistory` is positive, as `config/limits.rs:51` requires. With a history of nothing an
  update would prune the revision it has just replaced, which the recovery of a
  metadata update needs to find.

### DeliveryOutbox

`box` is the outbox table, one row per event and ordering key (a webhook target or
a discussion generation); `worker` what each task holds across its awaits, `limits`
the back-offs in force, `posts` the number of messages Discord has really created.
`Claim` is the whole transaction of `claim_next`: expired leases come back or are
dead-lettered, dead predecessors propagate, one eligible row is leased. `Deliver`
separates what happened at the provider from the answer that arrives. Settling
is guarded by owner, token and version. Clock values are abstracted: a lease may run
out at any time (`late`), a retry becomes due at any time, a back-off lapses at any
time. The code claims the oldest eligible row; `created_at` is kept per key only, so
the model claims any key's first row, which includes the code's choice. A full
queue rejects the whole transaction. At most `MaxLimits` back-offs are in force at
once; a further one counts as lapsed.

### AuditLedger

`events`, `head`, `checkpoints` and `receipts` are the tables. Every writer is one
IMMEDIATE transaction and one action: a direct append (`Mutate`), `Reserve`,
`Finalize`, `Cancel` (a proven compensation), `Reconcile` at a start, and `PruneDelete`,
which checkpoints and deletes an expired prefix and appends its own event. `verify`
before retention is four reads outside the transaction, and so four steps
(`PruneReadCheckpoints` to `PruneReadReceipts`); a commit between two of them can make retention refuse an intact
ledger, and `RefusedOnlyByRace` says that nothing else does. A reader pages by cursor
(`Page`) while rows are appended and pruned. Digests and MACs are constant
operators; the instance uses injective ones, the proofs use any. A timestamp is only
older than the cutoff or not, and any retained event may become so, in any order.
`TamperEvident` is about what happens to the tables behind the code: verification notices
one change at a time: a lost event or one with another result, a lost suffix, a lost
last checkpoint or pending receipt.
The authorization of a query and the export, which only read, are left out.

### DiscordInbound

One organization, one thread. `discord` and `log` are Discord (external): its messages
and the events it dispatched. `gateway` is the session row, `policy` and `connected` the
settings of the thread, `rows` the mirrored messages, `receipts` the inbox, `worker` the
sequential Gateway task. Every database call is a step; the authorization read, the
fetch over REST and the application of a partial update are separate, so that
settings, moderation and Discord change in between. Abstractions:

* a text is the provider version that wrote it; messages by bots and webhooks and
  of unsupported kinds are left out, and so is `set_artifact_override`;
* a fetch returns a state at least as recent as the event that asked for it;
* an event is in one session, so receipts are keyed by its position in the log;
* a connection ends in `Resumed`, in `Ready`, in a `Ready` without the guild (the new session
  is stored and the worker ends), or in a close that ends the shard;
* a database call of an aborted worker finishes before its successor starts;
* `unavailable` stands for every failure; the two statements of `set_gateway_health`, the
  session row and the policies, are one step;
* enabling waits for readiness (`discussion_two_way.rs`), which may be gone when it is used;
  `connected_inbound_destination` looks at the session again in the transaction that
  enables, and that is the guard of `SetPolicy`;
* of the organization's settings only the rotation of the credential is an action;
  deactivating it, or switching outbound threads off, takes the worker's target away as
  `SetPolicy(FALSE)` does;
* the supervisor keeps an entry of a worker (`Known`) until it has reaped it, also of one
  that has ended;
* initially sync is enabled, the worker connected and the thread quiet.

`excused` is a history variable with the messages for which the mirror may stay behind
Discord: an event was not mapped, had no usable content or was dispatched to no session
that the worker resumed, or a deletion was dated by a host clock that is behind
(`normalize.rs:64`), so that it was dropped as stale or stored with a version
that a text it deletes exceeds (`Backdated`).

### PushReminders

`reminders`, `optins`, `subs`, `deliveries` are the tables. `Sweep` is the sweeper's
transaction: every due reminder is fired and queued for the recipients its scope
selects. `SendDue` (within `SenderStep`) prunes, expires and claims; each attempt then
sends and stores its outcome (`AttemptStep`), or the store fails, or the process stops.
Time is a set of flags: due, stale, expired, retry due. `SWEEP_BATCH` (100) and
`SEND_BATCH` (50) exceed every instance. The text and revision of a reminder are left
out; `viewer`, `org` and `arming` of a delivery are history variables that
`PendingAddressee` and `OncePerArming` speak of.

### PreviewTasks

One single-file artifact with the renderer enabled. `body` is its current body,
`png[d]` the body shown by the picture filed under digest `d`, `cache` the renderer's
memo, `high`, `low`, `reserved` and `lane` the queue and its drain task, `tasks` the task
files, `runner` the spawned tasks. A mutation commits (`Mutate`, `Delete`) and its handler
schedules a job later (`Schedule`), unless its client has gone and the handler was
dropped. The lane looks at the row (`LaneFind`), reads the body (`LaneRead`), looks for the
picture, renders, persists and sweeps, each a step of its own, because each ends in an
await. A regeneration, as a task or within its request (`RequestSync`), reads the body
itself, removes all pictures and enqueues a job that brings the body along. So does a
delivery worker (`DeliveryStep`) that finds no picture for the message it sends, but it
compares the digest of what it read, and removes nothing.
`Restart` audits the directory, spawns the backfill and takes up every working
task again. Abstractions: an entry of the cache is either there or evicted by the time
it is asked for; temporary files are invisible; a best-effort removal of
pictures succeeds; the release of a job's bytes and its answer are one step, and so are
the backfill's look for a picture and its enqueue; a lookup whose answer is a stored
picture is left out; so is the concealment of an artifact during a mutation.

Two history variables hold what the properties must excuse. `mixed`: a reader
looked at the row, a mutation committed, and the reader read the new body, which it
then files under the old digest; `read_body_for` does not compare the digest
(`artifacts/lifecycle/api.rs:15-37`). A later restore of the old body then shows that
picture. The comments of `integrations/thumbnails/service.rs:72-74` and
`queue.rs:5-8` promise more than that. `excused`: the last attempt at a picture
failed, was refused or never scheduled; a regeneration for an older body removed the
picture of the current one; or a job that brought an older body along was the last to
sweep (`cleanup_obsolete`, `implementation.rs:491`, spares only the picture of its own job). The
next mutation, regeneration, lookup or start makes it good.

## Runs

| run | bounds | states | shows |
|---|---|---|---|
| `lifecycle` | 1 artifact, 2 bodies, 4 revisions, history 2, 3 failures or stops | 228,330 | storage invariants, immutable history; no leftover blocks the next update; every start serves, every mutation gives the gate back |
| `lifecycle_atomic` | 2 artifacts, 2 revisions, history 1, 2 failures | 192,096 | `AtomicStore`: the lifecycle implements `ArtifactStore` |
| `lifecycle_stuck` | | | finding 1 |
| `lifecycle_delete_failure` | | | finding 2 |
| `outbox` | 2 workers, 2 events, 2 keys, 2 rows, 2 attempts, 1 back-off | 717,170 | order, dependencies, gate, leases, attempts |
| `outbox_liveness` | 1 worker, 2 rows, 2 attempts, 1 stop, 1 storage error | 165,689 | `EveryRowSettles` |
| `outbox_duplicates` | 1 worker, 1 row | | finding 3 |
| `audit` | 1 tenant, 2 intents, 3 events, 2 reservations, batch 2, pages of 1 | 581,131 | the ledger verifies, and only then; one outcome per intent; paging misses nothing |
| `inbound` | 2 messages (one a reply), 3 events, 2 fetch attempts, 2 disturbances | 1,079,728 | moderation and deletion are final, the mirror converges, only authorized threads are written |
| `inbound_resume` | the same | | finding 4 |
| `push` | 2 viewers, 2 devices, 2 reminders, 2 organizations, limits 1, 2 armings | 140,551 | addressees, once per arming, limits, final outcomes; the queue drains |
| `previews` | 2 bodies, 1 task, a publish and 1 mutation, 1 lookup or regeneration without a task, queue of 2 jobs and 3 bytes, 1 fault | 622,753 | the queue's books, pictures of the right body, a picture for the current body, tasks settle once |

`audit` checks for deadlock. In the other runs deadlock checking is off: with a bounded
number of revisions, failures, rows, events or mutations the modelled system really
comes to rest.

Why the bounds are enough. Four revisions with a history of two make pruning
happen twice, once after an interrupted update; three failures allow a failure, a
failure of its compensation and a stop during the recovery of both. Mutations of
different artifacts share only the gate, so two artifacts are needed for the
refinement and one for the storage invariants, which are also proved for any
number. Two attempts reach both retry and exhaustion; two workers are what the
runtime starts. The longest dependency chain (notification, thread, reply) has three rows;
two rows show each link, and the proof covers the chain. Three events and a batch of
two let retention prune part of the ledger and all of it, and append after both. Three
events of two messages are a post, its edit and its deletion, or a message and its
reply with one change; two disturbances (crashes, failed calls, changed settings, empty
texts) are a crash and a failed call around it, or sync switched off and readiness asked
for again; switching it on and the cleanup of the inbox are not counted. Limits of one are
exceeded by the second device or reminder. A publish and one mutation give two jobs of
different bodies, and with the task, the lookup and the backfill more requesters than the
queue has places; a second mutation, with which a restore can show the picture filed under
a wrong digest, is left to the proofs, which bound nothing. Bodies of one and two bytes make
the two limits of the queue bind at different times.

Symmetry is used in `outbox` (event ids and workers) and in `audit` (intents), which
no action tells apart; neither run has a liveness property.

`lifecycle_atomic` leaves out the single failure point `DeleteAdvance`. With it the
refinement fails, and that is finding 2. `outbox` does not stop the process and has no storage
errors: for the database either is the same as a lease that runs out, and
`outbox_liveness` and the proofs include both.

Fairness. Lifecycle: a mutation that holds the gate runs to its end (it is
synchronous code on a blocking thread) and a stopped process is started again.
Outbox: the workers poll, some lease or back-off runs out if any can, a shutdown ends (its
grace period is bounded), and mutations that produced gated rows end. The last assumption is
the interface to the lifecycle: finding 1 is a case where the intent never
closes, and then its blocked row stays, with every later row of that key.
Push: sweeper and sender loop on timers, a send has a timeout of 10 seconds, the clock
advances. Previews: the lane and spawned tasks run on, and a stopped process is started
again; handlers of mutations and the backfill may stop for ever. Nothing is assumed of clients, of Discord, or of crashes other than their bound; in `push` crashes
and lost outcomes are not bounded at all.

## Findings

1. `lifecycle_stuck`. When the swap of an update fails, `finish_update_body`
   removes the staged body before it reverts the row (`update.rs:215-218`). If the
   revert fails or the process stops in between, the row names a body that exists
   nowhere; no restart can close the intent and the artifact stays concealed.
   `lifecycle/mod.rs:3` says the orderings "make each interruption recoverable".
   The previous body is not lost (`OutgoingBodySurvives`). `ReconciliationSettles` says
   which intents a finished start may leave open: this kind and one other (`TrashLeft`), in
   which an undone delete still has its trash. The latter needs five failures: a delete is
   interrupted while an older transient path of the same content exists, the sweep puts
   the body back from that path, and the removal of the delete's own trash fails. The next
   start removes it. The run does not get that far with three failures; it was
   found in the proof of the property, which is for any number.
2. `lifecycle_delete_failure`. `trash.rs:253` compensates a failure of the last
   intent update of a delete, when row, body and history are already gone. The
   ledger records a compensated failure and the notification is dropped, although
   the artifact is deleted. `context.rs:139`: "Finish a *proven* in-process
   compensation."
3. `outbox_duplicates`. `accepted` clears `duplicate_risk` (`transition.rs:55`), so
   a row that was posted twice can end with no sign of it.
   `docs/ops/discord-durable-delivery.md:9-11`: "Such rows carry explicit
   duplicate-risk state."
4. `inbound_resume`. A starting Gateway worker writes the health `connecting`, which
   stores NULL for session, resume URL and sequence, and only then reads the session to
   resume (`discord_gateway_runtime/runtime.rs:343-357`). A worker that is started again with
   the same credential therefore never resumes, and the events dispatched meanwhile
   are not mirrored. `docs/adr/0006-discord-gateway-client-boundary.md:42-43`:
   "Gateway session ID, resume URL, and sequence are stored only with the matching
   organization credential version. Credential rotation invalidates the old resume
   boundary."

## Proofs

TLAPS checks every theorem below for all values of the constants, from the named
assumptions of the modules alone (bounds are naturals, special values are
not members of the sets they stand beside, and the like).

| module | theorem | statement |
|---|---|---|
| `ArtifactLifecycleProofs` | `Inductive`, `TypeCorrect` | `[]IndInv`, `[]TypeOK` |
| | `VisibleIntegrity` | `[]VisibleBodyMatches` |
| | `OutgoingSafe` | `[]OutgoingBodySurvives` |
| | `HistoryIsAuthentic` | `[]HistoryAuthentic` |
| | `IntentClosesAll` | `[]NothingStranded` |
| | `SnapshotsImmutable` | `HistoryImmutable` |
| `ArtifactRecoveryProofs` | `RecoveryInductive` | `[](IndInv /\ RecoveryInv)` |
| | `AlwaysReconciliationSettles` | `[]ReconciliationSettles` |
| | `ImplementsStore` | `AtomicStore`, if `"DeleteAdvance"` is not a fault point |
| `ArtifactRetentionProofs` | `RetentionInductive`, `AlwaysRetainedRevisionsRestorable` | `[]RetentionInv`, `[]RetainedRevisionsRestorable` |
| | `AlwaysUpdatePathClear` | `[]UpdatePathClear` |
| `DeliveryOutboxProofs` | `OutboxInductive`, `OutboxTyped` | `[]IndInv`, `[]TypeOK` |
| | `AlwaysPostedInOrder`, `AlwaysPostedAfterDependency` | the order of messages |
| | `AlwaysAcceptedMeansPosted`, `AlwaysPostsBounded`, `AlwaysGatedNotPosted` | rows against messages |
| | `AlwaysOneLeasePerKey`, `AlwaysNoneStarved` | leases and attempts |
| | `AlwaysClaimCheckComplete` | the pre-check of a claim |
| | `AlwaysTerminalIsFinal`, `AlwaysLeaseProtects` | what no step may do to a row |
| `AuditLedgerProofs` | `LedgerInductive` | `[]IndInv` |
| | `AlwaysVerifies`, `AlwaysOneTerminalEvent`, `AlwaysRefusedOnlyByRace`, `AlwaysScanComplete` | `[]` of the property named |
| | `AlwaysAppendOnly` | `LedgerAppendOnly` |
| | `AlwaysTamperEvident` | `[]TamperEvident`, if the digests are `CollisionFree` |
| `DiscordInboundProofs` | `InboundInductive` | `[]IndInv` |
| | `AlwaysModerationFinal`, `AlwaysConverges` | `[]` of the property named |
| | `AlwaysTombstoneFinal`, `AlwaysAuthorizedOnly` | what no step may do to a row |
| `PushRemindersProofs` | `QueueInductive`, `QueueTyped` | `[]IndInv`, `[]TypeOK` |
| | `AlwaysPendingAddressee`, `AlwaysOncePerArming`, `AlwaysLimitsHold` | `[]` of the property named |
| | `AlwaysSettledStays` | `SettledStays` |
| `PreviewTasksProofs` | `PreviewInductive` | `[](IndInv /\ LookupInv)` |
| | `AlwaysQueueAccounts`, `AlwaysPictureOfBody`, `AlwaysGalleryComplete` | `[]` of the property named |
| | `AlwaysTaskFinal` | `TaskFinal` |

**Lifecycle.** None of the storage invariants is inductive: that a visible row has its body
depends on what the disk holds when an intent is closed, and so on where the
mutation was interrupted. `IndInv` therefore has two layers. `Shape` says what an
artifact can look like while an intent of each kind is open, *whatever step it
was interrupted at*; it is all that a restart can rely on, and the recovery proofs
use nothing else. `Running` says more for the artifact whose mutation holds the
gate, step by step; a stop discards it. `HistoryShape` ties snapshots to revision
rows. The proof (`NextInv`) has one named step per action, and before them those about
what the actions share; a step of one artifact leaves the shape of the others alone (`Frame`). `SnapshotsImmutable` follows from
the same invariant: no step writes to a history destination that is occupied.

**Recovery.** That a start settles what it finds needs two things that `IndInv` does not say.
`Fallback`: the body that a published or a committed row names is still at a staging path when
it is not live, and the revision row of the body an update replaced is there; steps of
mutations keep this, one by one. `Recovering`: for each phase of a start, an open intent still has
its item on the work list, or only waits for its body, which the sweep still has in front of
it (`Restorable`), or is one of the two kinds that stay. `RecoverCases`, `SweepCases` and
`ResolveCases` reduce each step of a start to what it does to one artifact, and the
refinement uses them too.

**Refinement.** The mapping shows a closed artifact as it is and an open intent as the
proposed mutation of an artifact that still is what it was `Before`. Every step of a mutation
is hidden until the one that closes the intent, and that one is `TakeEffect` or `Abandon` of the
store: in process from `Running`, at a start from `Closing`, which says that the artifact is then as
before or as after. The hypothesis leaves out finding 2, and only that.

**Retention.** `Retained` says that the newest `MaxHistory` revisions below the row are in
history, except for the outgoing one of a committed update that is on its way there. It is not
inductive: a failed update takes the row back, and then one revision more counts as retained.
So `RevertRetains` says, until `prune_history` has run, that the revisions which a revert would
bring back are there as well, and `SnapshotTaken` that an update past its swap has its
snapshot. The counting (`NewestNext`: a new row pushes out at most the oldest; `NewestPruned`:
pruning what is not among the newest changes nothing) is in five facts about finite sets of
revisions at the beginning of `NextRetention`. `TempInv` says who owns the temporary of a
snapshot: an update of metadata whose intent is open, which conceals the artifact; a
snapshot at the row's own revision is excluded by `HistoryShape`. So a visible artifact
has neither (`AlwaysUpdatePathClear`), and `snapshot_body` finds its destination free.

**Outbox.** `RowInv` is about the table alone: numbering and attempts, that a row which was
ever claimed had its turn (`ClaimedInTurn`: every earlier row of its key is finished and
what it waits for is accepted, and neither can change back), that dependencies go from the
later rows of a discussion to its first and from there to a webhook's row (`Chained`, so the
two passes that the model makes of the code's loop reach its fixpoint,
`PropagatedFixpoint`), and that no waiting row is exhausted. `Turns` says
that a worker in the middle of a turn holds a claim that was really made and the version
of that claim. A late worker still posts a row that had its turn, and its settle finds
another version; the order of messages follows from the order of turns.

**Ledger.** `Shape` says that the rows read are rows of their tables; `Chained` that checkpoints,
retained events and head form one contiguous chain, across the pruned prefix by the bridge
of the last checkpoint; `Sealed` that the head, once written, authenticates itself and the
pending receipts. `PruneAgrees` relates what a retention run has read so far to the tables:
unless somebody committed in between, they still agree. `Terminals` says that a correlation is
handed out once and that a pending one has no event yet. Nothing is assumed of the digests,
but for `TamperEvident`, which is false with colliding ones: `CollisionFree` asks that the
content of a row and the set of pending receipts are determined by their digests. Each
kind of loss then has its lemma (`AlteredRowDetected`, `LostCheckpointDetected`,
`LostReceiptDetected`; `WrongRowsDetected` for lost rows). `ScanInv` adds to `ScanComplete` that the
reader's cursor is where its answers reach, and that they do not reach beyond the rows
there were.

**Discord inbound.** `LogInv` and `MessageInv` say that Discord's messages are what its log makes of
them. `PositionInv` and `ReceiptInv` bound what the worker and the inbox know, `FetchInv` says
that a fetched text is not older than the event that asked for it. `Mirrored` is the heart: the
row of a message is what the applied events make of it, except for updates that still wait
for their text and for a message that was deleted since. It is needed for `Converges`, which
looks only at states in which nothing waits. `BuriedInv` gives a tombstone a version that no text
exceeds, which makes it final. Its proof showed that a deletion which was *applied* with
a backdated version does not have one (an edit replayed later would revive it), so
such a deletion excuses its message as a dropped one does.

**Push.** The arming of an armed reminder is its own and has queued nothing yet
(`ArmingsUnused`), queued rows carry the number of a sweep that has happened
(`SweptBefore`), and what the sender holds is pending (`HeldPending`); with these
`OncePerArming` and `PendingAddressee` are inductive. For the devices of a viewer
`save_subscription` counts, for each, the older ones; that rank is injective, so those it keeps,
whose rank is at least the excess, are few enough (`RegisteredAssumption`: initially no
viewer has more devices than allowed).

**Previews.** `ShowsInv` says what every carrier of a picture (file, cache, lane, task) may
show. `GalleryComplete` needs an account of *what will still happen*: at any moment the current
body has its picture, or the lane's job, a queued job, a handler about to schedule one, a
task or the next start leads to it, and no job that would sweep it away is left behind
that one (`LaneOrder`; jobs that bring their body along may be, and are excused).
`LookupInv` says that a lookup under way is for a body, in a process that is up. The
assumption that tasks are not named like the other requesters of a job only keeps names
apart.

`QueueAccounts` compares the counter `reserved` with the bytes of the jobs themselves. The
model counts those as the cardinality of a set of bytes, each paired with the position of its
job, rather than by a sum over the queue: appending a job adds a disjoint set (`AppendUnits`),
picking the first one removes its bytes and shifts the rest by a bijection (`TailUnits`), so
the theorem needs facts about finite sets and no induction over the queue. `Accounts` is the
strengthening that every step keeps, next to `IndInv`.

Only model-checked: the liveness properties and the four runs that end in a violation.
Fairness and ENABLED are beyond the prover.

## Not modelled

* **One composed specification** of lifecycle, outbox and ledger. The three share
  single transactions; each module takes the other side as an input, and a product of
  their state spaces is out of TLC's reach at any bound that is of interest.
* **Feedback rows, thread markers and tombstones** of outbound discussions: only the outbox
  rows they plan, and what these wait for.
* **Metadata edits and re-tenanting**: single transactions that touch neither bodies nor
  intents. **Digest backfill**: for rows of older releases, which the models leave out.
* **Discord history recovery**: an operator's import, a read-only scan and one commit per
  batch.
* **Viewer state, reactions, views, collections, shares, webhooks, organization settings**:
  stores of independent rows in single transactions; a model would restate the SQL.
* **Ingress, HTTP and MCP dispatch, identity and access**: decoding, counters and checks
  that are functions of a request, of rows and of external services.
* **Live data, rendering, templates, configuration, migrations, backup**: text, parsing, external
  streams and offline commands. These are most of the repository's lines, and there is
  no protocol in them to check.
* **A deferred Discord update that cannot be stored** (`runtime.rs:516`) is fetched again without
  being counted; **a claimed push** is sent although its viewer opted out after the
  claim (`service.rs:739`). The models contain both; no document promises otherwise, so no
  property is stated.
