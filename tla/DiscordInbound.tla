--------------------------- MODULE DiscordInbound ---------------------------
(***************************************************************************)
(* Two-way Discord discussions: the Gateway worker of one organization,    *)
(* the inbound inbox and the mirrored messages of one artifact's thread    *)
(* (src/integrations/discord_gateway_runtime, src/integrations/            *)
(* discord_inbound, src/persistence/discord_inbound).                      *)
(*                                                                         *)
(* Every database call of the code is one step.  The worker is one         *)
(* sequential task: it applies Gateway events in order, and hydrates       *)
(* partial updates over REST between two of them.  Administrators, the     *)
(* supervisor, crashes, and Discord itself interleave with its steps.      *)
(*                                                                         *)
(* A message's text is abstracted to the provider version that wrote it;   *)
(* messages by bots and webhooks, and of unsupported kinds, are left out.  *)
(***************************************************************************)
EXTENDS Integers, Sequences, FiniteSets, Functions

CONSTANTS
  Messages,       \* the messages of the thread
  ReplyTo,        \* the message a message answers, or NoMessage
  NoMessage,
  MaxEvents,      \* bound: events Discord dispatches
  MaxFetchAttempts, \* failed hydrations before a receipt is terminal (20 in the code)
  MaxLag,         \* bound: how far the host's clock may be behind Discord's
  MaxCredential,  \* bound: credential versions
  MaxDisturbances \* bound: crashes, failed database calls, changed settings, empty texts

ASSUME BoundsAssumption ==
  /\ NoMessage \notin Messages
  /\ ReplyTo \in [Messages -> Messages \cup {NoMessage}]
  /\ MaxFetchAttempts \in Nat \ {0}
  /\ {MaxEvents, MaxLag, MaxCredential, MaxDisturbances} \subseteq Nat

VARIABLES
  discord,    \* Discord: each message's state, version and whether it has usable text
  log,        \* Discord: the events dispatched so far
  lag,        \* how far the host's clock was behind Discord's, at most
  gateway,    \* the row of discord_gateway_sessions
  credential, \* version of the organization's active bot credential
  policy,     \* the row of artifact_discord_inbound_policies
  connected,  \* artifact_discussions.state = 'connected'
  rows,       \* discord_inbound_message_state with the feedback it names
  receipts,   \* discord_inbound_events; an event is in one session, so by position in log
  worker,     \* the Gateway worker task
  excused,    \* messages with an event that was dropped for a known reason
  removed,    \* messages whose feedback was deleted locally
  missed,     \* a restarted process missed events that its stored session would have had
  disturbances

provider == <<discord, log>>
settings == <<gateway, credential, policy, connected>>
inbox    == <<rows, receipts>>
history  == <<excused, removed, missed, lag>>
vars     == <<provider, settings, inbox, worker, history, disturbances>>

Tombstone == 0
NoSequence == -1
NoRow == [state |-> "none", version |-> 0, body |-> Tombstone, parent |-> NoMessage]
Disturbance == disturbances < MaxDisturbances /\ disturbances' = disturbances + 1

NoFetch == [result |-> "none", version |-> 0, text |-> FALSE]

-----------------------------------------------------------------------------
(* Discord (external) *)

\* Every event moves Discord's clock by one, so a version is the time of its edit.
Now == Len(log)

Dispatch(event) == Len(log) < MaxEvents /\ log' = Append(log, event)

Message(state, text) == [state |-> state, version |-> Now + 1, text |-> text]

Post(m, text) ==
  /\ discord[m].state = "none"
  /\ ReplyTo[m] # NoMessage => discord[ReplyTo[m]].state # "none"
  /\ discord' = [discord EXCEPT ![m] = Message("live", text)]
  /\ Dispatch([kind |-> "create", message |-> m, version |-> Now + 1, text |-> text])

EditMessage(m, text) ==
  /\ discord[m].state = "live"
  /\ discord' = [discord EXCEPT ![m] = Message("live", text)]
  /\ Dispatch([kind |-> "update", message |-> m, version |-> Now + 1, text |-> text])

DeleteMessage(m) ==
  /\ discord[m].state = "live"
  /\ discord' = [discord EXCEPT ![m].state = "deleted"]
  /\ Dispatch([kind |-> "delete", message |-> m, version |-> Now + 1, text |-> FALSE])

\* The thread is archived, locked or deleted.
CloseThread ==
  /\ Dispatch([kind |-> "thread", message |-> NoMessage, version |-> Now + 1, text |-> FALSE])
  /\ UNCHANGED discord

DiscordMoves ==
  /\ \/ /\ \E m \in Messages : Post(m, TRUE) \/ EditMessage(m, TRUE) \/ DeleteMessage(m)
        /\ UNCHANGED disturbances
     \/ /\ \E m \in Messages : Post(m, FALSE) \/ EditMessage(m, FALSE)
        /\ Disturbance
     \/ CloseThread /\ UNCHANGED disturbances
  /\ UNCHANGED <<settings, inbox, worker, history>>

-----------------------------------------------------------------------------
(* One inbound event, in one transaction *)

\* exact_authorization
Authorized == policy.enabled /\ connected

\* An event as the transaction sees it.  `content' is FALSE for a partial update.
Inbound(e, version, content, text) ==
  [kind |-> e.kind, message |-> e.message, version |-> version,
   content |-> content, text |-> text]

\* normalize_event: an update frame loses its content, and a deletion is versioned by
\* the host's clock (current_provider_version), which is `behind' Discord's.
Normalized(e, behind) ==
  Inbound(e, IF e.kind = "delete" THEN Now - behind ELSE e.version, e.kind = "create", e.text)

\* locally_moderated_message
Moderated(e) == e.message # NoMessage /\ rows[e.message].state = "moderated"

Create(e) ==
  IF ~e.text THEN "empty_content"
  ELSE IF rows[e.message].state = "present" THEN "duplicate"
  ELSE "applied"

BadNotNewer(e) == FALSE

NotNewer(e) == e.version <= rows[e.message].version

Update(e) ==
  IF ~e.content THEN "needs_fetch"
  ELSE IF rows[e.message].state # "present" THEN "unknown_message"
  ELSE IF NotNewer(e) THEN "stale"
  ELSE IF ~e.text THEN "empty_content"
  ELSE "applied"

Delete(e) ==
  IF rows[e.message].state # "present" THEN "unknown_message"
  ELSE IF NotNewer(e) THEN "stale"
  ELSE "applied"

\* The result if a fetch carried its own authorization over.
BadProcess(e) ==
  IF e.kind = "update" /\ e.content /\ ~Moderated(e) THEN Update(e)
  ELSE IF Moderated(e) THEN "unknown_message"
  ELSE IF ~Authorized THEN "unmapped"
  ELSE CASE e.kind = "thread" -> "degraded"
         [] e.kind = "create" -> Create(e)
         [] e.kind = "update" -> Update(e)
         [] e.kind = "delete" -> Delete(e)

\* The result of apply_in_transaction, with the binding read in the same transaction
\* (locally_moderated_message, then InboundProcessor::process_once).
Process(e) ==
  IF Moderated(e) THEN "unknown_message"
  ELSE IF ~Authorized THEN "unmapped"
  ELSE CASE e.kind = "thread" -> "degraded"
         [] e.kind = "create" -> Create(e)
         [] e.kind = "update" -> Update(e)
         [] e.kind = "delete" -> Delete(e)

\* The row after an applied event (put_feedback, persist_feedback).
Stored(e) ==
  LET m == e.message
      to == ReplyTo[m]
      known == to # NoMessage /\ rows[to].state = "present"
      root == IF rows[to].parent = NoMessage THEN to ELSE rows[to].parent
  IN  CASE e.kind = "create" -> [state |-> "present", version |-> e.version, body |-> e.version,
                                 parent |-> IF known THEN root ELSE NoMessage]
        [] e.kind = "update" -> [rows[m] EXCEPT !.version = e.version, !.body = e.version]
        [] e.kind = "delete" -> [rows[m] EXCEPT !.version = e.version, !.body = Tombstone]

\* event_exists: a needs_fetch receipt does not count.
EventExists(i) == i \in DOMAIN receipts /\ receipts[i].result # "needs_fetch"

BadReceipt(i, e, result) ==
  [message |-> e.message, result |-> "done", attempts |-> 0, due |-> TRUE]

\* record_event: inserts, or overwrites a needs_fetch receipt and keeps its attempts.
Receipt(i, e, result) ==
  [message |-> e.message,
   result |-> IF result = "needs_fetch" THEN "needs_fetch" ELSE "done",
   attempts |-> IF i \in DOMAIN receipts THEN receipts[i].attempts ELSE 0,
   due |-> TRUE]

WithReceipt(i, receipt) == [j \in DOMAIN receipts \cup {i} |-> IF j = i THEN receipt ELSE receipts[j]]

\* A deletion that the host's clock dates before a text it deletes.
Backdated(e) ==
  \E j \in DOMAIN log :
    log[j].message = e.message /\ log[j].kind # "delete" /\ log[j].version > e.version

\* The reasons for which an event may leave the mirror behind Discord.
Drops(e, result) ==
  \/ result \in {"unmapped", "empty_content"}
  \/ e.kind = "delete" /\ result = "stale" /\ e.version < Now
  \/ e.kind = "delete" /\ result = "applied" /\ Backdated(e)

\* apply_in_transaction for the event at position i.
ApplyInTransaction(i, e) ==
  IF EventExists(i) THEN UNCHANGED <<inbox, policy, connected, excused>>
  ELSE LET result == Process(e) IN
    /\ rows' = IF result = "applied" THEN [rows EXCEPT ![e.message] = Stored(e)] ELSE rows
    /\ policy' = IF result = "degraded" THEN [policy EXCEPT !.health = "degraded", !.thread = TRUE]
                 ELSE policy
    /\ connected' = (connected /\ result # "degraded")
    /\ receipts' = WithReceipt(i, Receipt(i, e, result))
    /\ excused' = IF Drops(e, result) THEN excused \cup {e.message} ELSE excused

\* A database call that fails leaves its tables alone.
Fails == Disturbance

-----------------------------------------------------------------------------
(* The session row and the policy *)

\* set_gateway_health, with or without a session to store.  Its two statements are one
\* step: between them only the health that is shown differs.
PolicyAfter(health) ==
  IF policy.thread \/ (~policy.enabled /\ policy.health = "disabled") THEN policy
  ELSE [policy EXCEPT !.health = health]

SetGatewayHealth(version, health, sequence) ==
  /\ gateway' = [sequence |-> sequence, credential |-> version, health |-> health]
  /\ policy' = PolicyAfter(health)

\* gateway_resume
GatewayResume(version) ==
  IF gateway.credential = version THEN gateway.sequence ELSE NoSequence

\* gateway_targets: an enabled artifact, or one that asks for readiness.
Wanted == policy.enabled \/ policy.health = "connecting"

RequestGatewayReadiness ==
  LET same  == gateway.credential = credential
      ready == same /\ gateway.health = "ready"
      health == IF ready THEN "ready" ELSE "connecting"
  IN  /\ Disturbance
      /\ gateway' = [sequence |-> IF same THEN gateway.sequence ELSE NoSequence,
                     credential |-> credential, health |-> health]
      /\ policy' = IF policy.enabled THEN policy
                   ELSE [policy EXCEPT !.health = health, !.thread = FALSE]
      /\ UNCHANGED <<provider, credential, connected, inbox, worker, history>>

\* set_policy_audited; connected_inbound_destination guards enabling, with a look at
\* the session in the same transaction: what DiscussionTwoWay::enable polled may be gone.
SetPolicy(enabled) ==
  /\ IF enabled THEN connected /\ gateway.health = "ready" /\ UNCHANGED disturbances
     ELSE Disturbance
  /\ policy' = [enabled |-> enabled, thread |-> FALSE,
                health |-> IF enabled THEN "connecting" ELSE "disabled"]
  /\ UNCHANGED <<provider, gateway, credential, connected, inbox, worker, history>>

\* save_validated_credential_and_policy_audited with a new token.
RotateCredential ==
  /\ Disturbance
  /\ credential < MaxCredential
  /\ credential' = credential + 1
  /\ UNCHANGED <<provider, gateway, policy, connected, inbox, worker, history>>

\* The outbound mirror makes the thread again: accept_delivery_and_record_message.
ReconnectThread ==
  /\ Disturbance
  /\ ~connected /\ connected' = TRUE
  /\ UNCHANGED <<provider, gateway, credential, policy, inbox, worker, history>>

BadWithoutFeedback(m) ==
  [n \in Messages |-> IF n = m \/ rows[n].parent = m THEN NoRow ELSE rows[n]]

\* delete_as_viewer: the feedback goes, with the replies below it; feedback_id
\* of the message state becomes NULL (ON DELETE CASCADE, ON DELETE SET NULL).
WithoutFeedback(m) ==
  [n \in Messages |-> IF n = m \/ rows[n].parent = m
                      THEN [rows[n] EXCEPT !.state = "moderated", !.body = Tombstone]
                      ELSE rows[n]]

DeleteAsViewer(m) ==
  /\ rows[m].state = "present"
  /\ rows' = WithoutFeedback(m)
  /\ removed' = removed \cup {n \in Messages : n = m \/ rows[n].parent = m}
  /\ UNCHANGED <<provider, settings, receipts, worker, excused, missed, lag, disturbances>>

\* cleanup_processed_events, some time after the receipt became terminal.
CleanupProcessedEvents ==
  /\ \E i \in DOMAIN receipts :
       LET old == {j \in DOMAIN receipts : j <= i /\ receipts[j].result # "needs_fetch"}
       IN  old # {} /\ receipts' = Restrict(receipts, DOMAIN receipts \ old)
  /\ UNCHANGED <<provider, settings, rows, worker, history, disturbances>>

-----------------------------------------------------------------------------
(* The worker task *)

\* A worker that has not read anything.  What outlives it is how far events were
\* applied, and the credential of the session a crash left stored, or 0.
Fresh(phase, version, resumable) ==
  [phase |-> phase, credential |-> version, pos |-> 0, applied |-> worker.applied,
   todo |-> {}, item |-> 0, fetched |-> NoFetch, after |-> "idle", resumable |-> resumable]

Running == worker.phase # "down"

At(phase) == worker.phase = phase

\* The supervisor has an entry for the worker until it has reaped it.
Known == worker.credential # 0

\* start_missing_workers
StartMissingWorker ==
  /\ ~Known /\ Wanted
  /\ worker' = Fresh("starting", credential, worker.resumable)
  /\ UNCHANGED <<provider, settings, inbox, history, disturbances>>

\* stop_stale_workers: a worker nobody wants, or with an old credential, is aborted, and
\* one that has ended is reaped.
StopStaleWorker ==
  /\ Known
  /\ ~Running \/ ~Wanted \/ worker.credential # credential
  /\ worker' = Fresh("down", 0, IF ~Running /\ Wanted THEN worker.resumable ELSE 0)
  /\ IF Wanted THEN UNCHANGED <<gateway, policy>>
     ELSE SetGatewayHealth(worker.credential, "disabled", NoSequence)
  /\ UNCHANGED <<provider, credential, connected, inbox, history, disturbances>>

\* The process stops and starts again.
Crash ==
  /\ Known /\ Disturbance
  /\ worker' = Fresh("down", 0, IF gateway.sequence = NoSequence THEN 0 ELSE gateway.credential)
  /\ UNCHANGED <<provider, settings, inbox, history>>

\* initialize_organization_gateway up to the `connecting' write, whose error is ignored.
Initialize ==
  /\ At("starting")
  /\ \/ /\ SetGatewayHealth(worker.credential, "connecting", NoSequence)
        /\ worker' = [worker EXCEPT !.phase = "connecting"]
        /\ UNCHANGED disturbances
     \/ /\ Fails
        /\ worker' = [worker EXCEPT !.phase = "connecting"]
        /\ UNCHANGED <<gateway, policy>>
     \/ /\ SetGatewayHealth(worker.credential, "unavailable", NoSequence)
        /\ worker' = Fresh("down", worker.credential, worker.resumable)
        /\ UNCHANGED disturbances
  /\ UNCHANGED <<provider, credential, connected, inbox, history>>

\* Discord starts a new session, which dispatches only events from now on.
Skip(lost) ==
  LET skipped == {log[i].message : i \in (worker.applied + 1)..Now} \ {NoMessage}
  IN  /\ excused' = excused \cup skipped
      /\ missed' = (missed \/ (lost /\ skipped # {}))

NewSession(lost) ==
  /\ Skip(lost)
  /\ worker' = [worker EXCEPT !.phase = "persist", !.pos = Now, !.applied = Now, !.resumable = 0]

\* The worker ends after it has written why; the supervisor starts the next one.
Ends(sequence) ==
  /\ Disturbance
  /\ SetGatewayHealth(worker.credential, "unavailable", sequence)
  /\ worker' = Fresh("down", worker.credential, 0)
  /\ UNCHANGED <<excused, missed>>

\* The new session lacks the guild: it is stored, and the worker ends.
WithoutGuild(lost) ==
  /\ Disturbance
  /\ Skip(lost)
  /\ SetGatewayHealth(worker.credential, "unavailable", Now)
  /\ worker' = [Fresh("down", worker.credential, 0) EXCEPT !.applied = Now]

\* The stored session is offered, and Discord resumes it or refuses; then Resumed, or
\* Ready, which may lack the guild, or a close that ends the shard.
Connect ==
  LET resume == GatewayResume(worker.credential)
      lost   == resume = NoSequence /\ worker.resumable = worker.credential
  IN  /\ At("connecting")
      /\ \/ /\ resume # NoSequence
            /\ worker' = [worker EXCEPT !.phase = "persist", !.pos = resume, !.resumable = 0]
            /\ UNCHANGED <<gateway, policy, excused, missed, disturbances>>
         \/ NewSession(lost) /\ UNCHANGED <<gateway, policy, disturbances>>
         \/ WithoutGuild(lost)
         \/ Ends(resume)
      /\ UNCHANGED <<provider, credential, connected, inbox, removed, lag>>

\* persist_shard_health after an event; an error is ignored.
PersistShardHealth ==
  /\ At("persist")
  /\ worker' = [worker EXCEPT !.phase = "idle"]
  /\ \/ SetGatewayHealth(worker.credential, "ready", worker.pos) /\ UNCHANGED disturbances
     \/ Fails /\ UNCHANGED <<gateway, policy>>
  /\ UNCHANGED <<provider, credential, connected, inbox, history>>

\* The shard loses its connection and says so.  It reconnects by itself, and Discord
\* resumes its session or invalidates it; a fatal close code ends it.
ShardReconnects ==
  /\ At("idle")
  /\ \/ /\ Disturbance
        /\ SetGatewayHealth(worker.credential, "unavailable", worker.pos)
        /\ \/ worker' = [worker EXCEPT !.phase = "persist"] /\ UNCHANGED <<excused, missed>>
           \/ NewSession(FALSE)
     \/ Ends(worker.pos)
  /\ UNCHANGED <<provider, credential, connected, inbox, removed, lag>>

\* pending_updates
PendingUpdates(known) ==
  {i \in DOMAIN known : known[i].result = "needs_fetch" /\ known[i].due}

\* The shard yields the next event, and handle_gateway_event applies it.
HandleGatewayEvent ==
  LET i == worker.pos + 1
      read == [worker EXCEPT !.pos = i, !.applied = IF i > @ THEN i ELSE @, !.phase = "persist"]
      drain == [read EXCEPT !.phase = "drain", !.after = "persist", !.todo = PendingUpdates(receipts')]
  IN  /\ At("idle") /\ i <= Now
      /\ \/ \E behind \in IF log[i].kind = "delete" THEN 0..MaxLag ELSE {0} :
              LET e == Normalized(log[i], behind) IN
              /\ ApplyInTransaction(i, e)
              /\ worker' = IF ~EventExists(i) /\ Process(e) = "needs_fetch" THEN drain ELSE read
              /\ lag' = IF behind > lag THEN behind ELSE lag
              /\ UNCHANGED disturbances
         \/ /\ Fails
            /\ worker' = read
            /\ excused' = excused \cup ({log[i].message} \ {NoMessage})
            /\ UNCHANGED <<inbox, policy, connected, lag>>
      /\ UNCHANGED <<provider, gateway, credential, removed, missed>>

\* The pending ticker of run_organization.
PendingTick ==
  /\ At("idle") /\ PendingUpdates(receipts) # {}
  /\ worker' = [worker EXCEPT !.phase = "drain", !.todo = PendingUpdates(receipts)]
  /\ UNCHANGED <<provider, settings, inbox, history, disturbances>>

\* The next receipt of drain_pending_updates, after item i is done with.
Finished(i) ==
  LET todo == worker.todo \ {i}
  IN  [worker EXCEPT !.phase = IF todo = {} THEN worker.after ELSE "drain",
                     !.after = IF todo = {} THEN "idle" ELSE @,
                     !.todo = todo, !.item = 0, !.fetched = NoFetch]

\* authorization_for: a receipt without a binding is applied as it is, without a fetch.
Authorize ==
  /\ At("drain")
  /\ \E i \in worker.todo :
       \/ /\ worker' = [worker EXCEPT !.phase = IF Authorized THEN "fetch" ELSE "apply", !.item = i]
          /\ UNCHANGED disturbances
       \/ Fails /\ worker' = Finished(i)
  /\ UNCHANGED <<provider, settings, inbox, history>>

\* The texts a message has had since version v.
Texts(m, v) ==
  {log[j] : j \in {k \in DOMAIN log : /\ log[k].message = m /\ log[k].version >= v
                                      /\ log[k].kind \in {"create", "update"}}}

\* fetch_message (external): REST is at least as recent as the event that asks, but
\* need not have seen what came after it.  A failed request may be retried later.
FetchMessage ==
  /\ At("fetch")
  /\ LET e == log[worker.item] IN
     \/ \E found \in Texts(e.message, e.version) :
          worker' = [worker EXCEPT !.phase = "apply",
                       !.fetched = [result |-> "found", version |-> found.version,
                                    text |-> found.text]]
     \/ /\ discord[e.message].state = "deleted"
        /\ worker' = [worker EXCEPT !.phase = "settle", !.fetched.result = "missing"]
     \/ worker' = [worker EXCEPT !.phase = "settle", !.fetched.result = "retryable"]
  /\ UNCHANGED <<provider, settings, inbox, history, disturbances>>

\* The event of a receipt, partial or with the fetched message.
Hydrated(i) ==
  IF worker.fetched.result = "found"
  THEN Inbound(log[i], worker.fetched.version, TRUE, worker.fetched.text)
  ELSE Inbound(log[i], log[i].version, FALSE, FALSE)

\* apply_event for a deferred update.  A fetched message that does not validate (it
\* names no guild) is an error like any other: logged, and nothing is written.
ApplyDeferred ==
  /\ At("apply")
  /\ worker' = Finished(worker.item)
  /\ \/ ApplyInTransaction(worker.item, Hydrated(worker.item))
     \/ UNCHANGED <<inbox, policy, connected, excused>>
  /\ UNCHANGED <<provider, gateway, credential, removed, missed, lag, disturbances>>

\* complete_missing_update
CompleteMissingUpdate(i) ==
  /\ receipts' = WithReceipt(i, [receipts[i] EXCEPT !.result = "done"])
  /\ UNCHANGED <<policy, excused>>

LastAttempt(attempts) == attempts >= MaxFetchAttempts

\* defer_update_retry: the last attempt ends the receipt and degrades the policy.
DeferUpdateRetry(i) ==
  LET attempts == receipts[i].attempts + 1
      terminal == LastAttempt(attempts)
  IN  /\ receipts' = WithReceipt(i, [receipts[i] EXCEPT
                       !.attempts = attempts, !.due = terminal,
                       !.result = IF terminal THEN "done" ELSE "needs_fetch"])
      /\ policy' = IF terminal THEN [policy EXCEPT !.health = "degraded", !.thread = FALSE]
                   ELSE policy
      /\ excused' = IF terminal THEN excused \cup {receipts[i].message} ELSE excused

\* The update statements change only a receipt that still needs a fetch.
SettleDeferred ==
  LET i == worker.item
  IN  /\ At("settle")
      /\ worker' = Finished(i)
      /\ \/ /\ worker.fetched.result = "missing"
            /\ CompleteMissingUpdate(i)
            /\ UNCHANGED disturbances
         \/ /\ worker.fetched.result = "retryable"
            /\ DeferUpdateRetry(i)
            /\ UNCHANGED disturbances
         \/ Fails /\ UNCHANGED <<receipts, policy, excused>>
      /\ UNCHANGED <<provider, gateway, credential, connected, rows, removed, missed, lag>>

\* next_attempt_at passes.
RetryDue ==
  /\ \E i \in DOMAIN receipts :
       ~receipts[i].due /\ receipts' = [receipts EXCEPT ![i].due = TRUE]
  /\ UNCHANGED <<provider, settings, rows, worker, history, disturbances>>

-----------------------------------------------------------------------------

\* Two-way sync has been enabled, and the worker is connected to a quiet thread.
Init ==
  /\ discord = [m \in Messages |-> [state |-> "none", version |-> 0, text |-> FALSE]]
  /\ log = <<>>
  /\ gateway = [sequence |-> 0, credential |-> 1, health |-> "ready"]
  /\ credential = 1
  /\ policy = [enabled |-> TRUE, health |-> "ready", thread |-> FALSE]
  /\ connected = TRUE
  /\ rows = [m \in Messages |-> NoRow]
  /\ receipts = [i \in {} |-> NoRow]
  /\ worker = [phase |-> "idle", credential |-> 1, pos |-> 0, applied |-> 0, todo |-> {},
               item |-> 0, fetched |-> NoFetch, after |-> "idle", resumable |-> 0]
  /\ excused = {} /\ removed = {} /\ missed = FALSE /\ lag = 0
  /\ disturbances = 0

Supervise == StartMissingWorker \/ StopStaleWorker \/ CleanupProcessedEvents

Work ==
  \/ Initialize \/ Connect \/ PersistShardHealth \/ ShardReconnects
  \/ HandleGatewayEvent \/ PendingTick
  \/ Authorize \/ FetchMessage \/ ApplyDeferred \/ SettleDeferred

Administer ==
  \/ RequestGatewayReadiness \/ RotateCredential
  \/ \E enabled \in BOOLEAN : SetPolicy(enabled)
  \/ \E m \in Messages : DeleteAsViewer(m)

Next ==
  \/ DiscordMoves \/ ReconnectThread \/ RetryDue
  \/ Supervise \/ Work \/ Administer \/ Crash

Spec == Init /\ [][Next]_vars

-----------------------------------------------------------------------------
(* Properties *)

\* An administrator's deletion is final: no replay, late hydration or restart gives the
\* message, or a reply that went with it, its feedback back (locally_moderated_message).
ModerationFinal == \A m \in removed : rows[m].state # "present"

\* A provider deletion is final, and a text is never replaced by an older one, as long as
\* the host's clock is not behind Discord's (InboundProcessor::update and delete).
TombstoneFinal ==
  [][lag' = 0 =>
       \A m \in Messages :
         rows[m].state = "present" /\ rows'[m].state = "present" =>
           /\ rows'[m].version >= rows[m].version
           /\ rows[m].body = Tombstone => rows'[m].body = Tombstone]_vars

\* Discord changes a mirrored message only while two-way sync is enabled and the thread
\* connected, also when that ended while the message was being fetched.
AuthorizedOnly ==
  [][\A m \in Messages :
       rows'[m] # rows[m] /\ rows'[m].state = "present" => Authorized]_vars

Quiescent ==
  At("idle") /\ worker.pos = Now /\ \A i \in DOMAIN receipts : receipts[i].result # "needs_fetch"

\* Once every event is handled and nothing waits for a fetch, each message is mirrored as
\* Discord has it, unless it was deleted locally or one of its events was dropped: sync was
\* off, the process was not connected, a database call failed, the fetches were used up,
\* the text was empty, or the host's clock was behind.
Converges ==
  Quiescent =>
    \A m \in Messages \ (excused \cup removed) :
      CASE discord[m].state = "none" -> rows[m].state = "none"
        [] discord[m].state = "live" -> rows[m].state = "present" /\ rows[m].body = discord[m].version
        [] discord[m].state = "deleted" -> rows[m].state = "present" /\ rows[m].body = Tombstone

\* A process that restarts with the credential it had misses no event for want of
\* resuming its stored session; only rotation ends that session.
MissedOnlyByRotation == ~missed

=============================================================================
