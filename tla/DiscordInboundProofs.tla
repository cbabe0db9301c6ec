------------------------ MODULE DiscordInboundProofs ------------------------
(***************************************************************************)
(* The safety properties of DiscordInbound, for every number of messages,  *)
(* events, fetch attempts, disturbances and every lag of the host's clock. *)
(***************************************************************************)
EXTENDS DiscordInbound, TLAPS

Healths == {"ready", "connecting", "unavailable", "disabled", "degraded"}

Events ==
  [kind : {"create", "update", "delete", "thread"}, message : Messages \cup {NoMessage},
   version : Nat, text : BOOLEAN]

Receipts ==
  [message : Messages \cup {NoMessage}, result : {"needs_fetch", "done"}, attempts : Nat,
   due : BOOLEAN]

Rows ==
  [state : {"none", "present", "moderated"}, version : Int, body : Int,
   parent : Messages \cup {NoMessage}]

Draining == {"fetch", "apply", "settle"}

Workers ==
  [phase : {"down", "starting", "connecting", "persist", "idle", "drain"} \cup Draining,
   credential : Nat, pos : Int, applied : Nat, todo : SUBSET Nat, item : Nat,
   fetched : [result : {"none", "found", "missing", "retryable"}, version : Nat, text : BOOLEAN],
   after : {"idle", "persist"}, resumable : Nat]

ProviderType ==
  /\ discord \in [Messages -> [state : {"none", "live", "deleted"}, version : Nat, text : BOOLEAN]]
  /\ log \in Seq(Events)

SettingsType ==
  /\ gateway \in [sequence : Int, credential : Nat, health : Healths]
  /\ credential \in Nat
  /\ policy \in [enabled : BOOLEAN, health : Healths, thread : BOOLEAN]
  /\ connected \in BOOLEAN

InboxType ==
  /\ rows \in [Messages -> Rows]
  /\ receipts \in [DOMAIN receipts -> Receipts]

HistoryType ==
  /\ excused \subseteq Messages \cup {NoMessage}
  /\ removed \subseteq Messages
  /\ missed \in BOOLEAN /\ lag \in Nat /\ disturbances \in Nat

TypeOK == ProviderType /\ SettingsType /\ InboxType /\ worker \in Workers /\ HistoryType

-----------------------------------------------------------------------------
(* The inductive invariant *)

Positions == 1..Len(log)

\* Discord's log: an event is versioned by its position, a message starts with its creation
\* and ends with its deletion.
LogInv ==
  /\ \A i \in Positions :
       /\ log[i].version = i
       /\ log[i].message = NoMessage <=> log[i].kind = "thread"
       /\ log[i].message # NoMessage =>
            \E j \in 1..i : log[j].message = log[i].message /\ log[j].kind = "create"
  /\ \A i, j \in Positions :
       log[i].message = log[j].message =>
         /\ log[i].kind = "create" => i <= j
         /\ log[i].kind = "delete" => j <= i

\* A text of message m was written at position i.
IsText(i, m) == i \in Positions /\ log[i].message = m /\ log[i].kind # "delete"

\* Discord's messages are what its log says.
MessageInv ==
  \A m \in Messages :
    /\ \A i \in Positions : log[i].message = m =>
         /\ discord[m].state # "none"
         /\ log[i].kind = "delete" => discord[m].state = "deleted"
         /\ discord[m].state = "live" => i <= discord[m].version
    /\ discord[m].state = "live" => IsText(discord[m].version, m)
    /\ discord[m].state = "deleted" =>
         \E i \in Positions : log[i].message = m /\ log[i].kind = "delete"

Waiting(i) == i \in DOMAIN receipts /\ receipts[i].result = "needs_fetch"

\* No position of the worker is beyond what was applied, and no receipt is.
PositionInv ==
  /\ 0 <= worker.pos /\ worker.pos <= worker.applied /\ worker.applied <= Len(log)
  /\ -1 <= gateway.sequence /\ gateway.sequence <= worker.applied
  /\ DOMAIN receipts \subseteq 1..worker.applied

\* A receipt that waits is one of an update.
ReceiptInv ==
  \A i \in DOMAIN receipts :
    /\ receipts[i].message = log[i].message
    /\ Waiting(i) => log[i].kind = "update"

\* What the worker hydrates waits, and what it has fetched is not older than the event.
FetchInv ==
  /\ \A i \in worker.todo : Waiting(i)
  /\ worker.phase \notin Draining \cup {"drain"} => worker.todo = {}
  /\ worker.phase \in Draining => worker.item \in worker.todo
  /\ worker.phase \notin {"apply", "settle"} => worker.fetched = NoFetch
  /\ worker.phase = "apply" /\ worker.fetched.result = "found" =>
       /\ worker.item <= worker.fetched.version
       /\ IsText(worker.fetched.version, log[worker.item].message)
  /\ worker.phase = "settle" /\ worker.fetched.result = "missing" =>
       discord[log[worker.item].message].state = "deleted"

\* The feedback that was deleted locally.
RemovedInv == \A m \in Messages : m \in removed <=> rows[m].state = "moderated"

\* A mirrored text is one that Discord had.
TextInv ==
  \A m \in Messages :
    rows[m].state = "present" /\ rows[m].body # Tombstone =>
      rows[m].body = rows[m].version /\ IsText(rows[m].version, m)

\* Message m is deleted, and its row is not older than any of its texts.
Buried(m) ==
  /\ discord[m].state = "deleted"
  /\ \A i \in Positions : IsText(i, m) => i <= rows[m].version

\* A tombstone that the clock cannot have put before a text is final.
BuriedInv ==
  \A m \in Messages :
    (lag = 0 \/ m \notin excused) /\ rows[m].state = "present" /\ rows[m].body = Tombstone =>
      Buried(m)

\* The mirror of message m after the events up to the applied position.
Mirrored(m) ==
  /\ rows[m].state = "none" => \A i \in 1..worker.applied : log[i].message # m
  /\ rows[m].state # "none" => \E i \in 1..worker.applied : log[i].message = m
  /\ \A i \in 1..worker.applied : log[i].message = m =>
       /\ log[i].kind = "delete" => rows[m].body = Tombstone
       /\ \/ rows[m].body = Tombstone \/ i <= rows[m].version
          \/ Waiting(i) \/ discord[m].state = "deleted"

MirrorInv == \A m \in Messages \ (excused \cup removed) : Mirrored(m)

IndInv ==
  /\ TypeOK /\ LogInv /\ MessageInv
  /\ PositionInv /\ ReceiptInv /\ FetchInv
  /\ RemovedInv /\ TextInv /\ BuriedInv /\ MirrorInv

-----------------------------------------------------------------------------
(* Types *)

USE BoundsAssumption, ZenonT(30) DEF Tombstone, NoSequence

\* A position of the log holds an event.
LEMMA LogTypes ==
  ASSUME ProviderType
  PROVE  Len(log) \in Nat /\ DOMAIN log = Positions /\ \A i \in Positions : log[i] \in Events
BY SMTT(20) DEF ProviderType, Positions

\* An event that Discord dispatches is appended to the log.
LEMMA DispatchTypes ==
  ASSUME ProviderType, NEW e \in Events, Dispatch(e)
  PROVE  /\ log' \in Seq(Events) /\ Len(log') = Len(log) + 1
         /\ log'[Len(log) + 1] = e
         /\ \A i \in Positions : log'[i] = log[i]
BY SMTT(20) DEF ProviderType, Positions, Dispatch

\* What Discord does to a message.
LEMMA DiscordMovesType ==
  ASSUME IndInv, DiscordMoves
  PROVE  TypeOK'
<1>0. /\ UNCHANGED <<settings, inbox, worker, history>>
      /\ SettingsType /\ InboxType /\ worker \in Workers /\ HistoryType
  BY DEF IndInv, TypeOK, DiscordMoves
<1>d. disturbances' \in Nat
  <2>1. disturbances' = disturbances \/ disturbances' = disturbances + 1
    BY DEF DiscordMoves, Disturbance
  <2>2. disturbances \in Nat
    BY <1>0 DEF HistoryType
  <2> QED BY ONLY <2>1, <2>2, SMTT(20)
<1>1. SettingsType' /\ InboxType' /\ worker' \in Workers /\ HistoryType'
  BY ONLY <1>0, <1>d, ZenonT(30) DEF settings, inbox, history, SettingsType, InboxType, HistoryType
<1>2. ProviderType'
  <2>0. ProviderType /\ Now + 1 \in Nat
    BY LogTypes, SMTT(20) DEF IndInv, TypeOK, Now
  <2>1. ASSUME NEW m \in Messages, NEW text \in BOOLEAN, Post(m, text)
        PROVE  ProviderType'
    <3>1. log' \in Seq(Events)
      BY <2>0, <2>1, DispatchTypes DEF Post, Events
    <3>2. Message("live", text) \in [state : {"none", "live", "deleted"}, version : Nat, text : BOOLEAN]
      BY <2>0 DEF Message
    <3> QED BY <3>1, <3>2, <2>0, <2>1 DEF ProviderType, Post
  <2>2. ASSUME NEW m \in Messages, NEW text \in BOOLEAN, EditMessage(m, text)
        PROVE  ProviderType'
    <3>1. log' \in Seq(Events)
      BY <2>0, <2>2, DispatchTypes DEF EditMessage, Events
    <3>2. Message("live", text) \in [state : {"none", "live", "deleted"}, version : Nat, text : BOOLEAN]
      BY <2>0 DEF Message
    <3> QED BY <3>1, <3>2, <2>0, <2>2 DEF ProviderType, EditMessage
  <2>3. ASSUME NEW m \in Messages, DeleteMessage(m)
        PROVE  ProviderType'
    <3>1. log' \in Seq(Events)
      BY <2>0, <2>3, DispatchTypes DEF DeleteMessage, Events
    <3> QED BY <3>1, <2>0, <2>3 DEF ProviderType, DeleteMessage
  <2>4. CASE CloseThread
    <3>1. log' \in Seq(Events)
      BY <2>0, <2>4, DispatchTypes DEF CloseThread, Events
    <3> QED BY <3>1, <2>0, <2>4 DEF ProviderType, CloseThread
  <2> QED BY <2>1, <2>2, <2>3, <2>4 DEF DiscordMoves
<1> QED BY <1>1, <1>2 DEF TypeOK

\* The worker that a step leaves behind when it begins anew.
LEMMA FreshType ==
  ASSUME worker \in Workers, NEW p \in {"down", "starting"}, NEW c \in Nat, NEW r \in Nat
  PROVE  /\ Fresh(p, c, r) \in Workers /\ Fresh(p, c, r).phase = p
         /\ Fresh(p, c, r).pos = 0 /\ Fresh(p, c, r).applied = worker.applied
         /\ Fresh(p, c, r).todo = {} /\ Fresh(p, c, r).fetched = NoFetch
BY SMTT(20) DEF Fresh, Workers, NoFetch, Draining

\* The worker that ends.
LEMMA DownType ==
  ASSUME worker \in Workers
  PROVE  LET w == Fresh("down", worker.credential, 0)
         IN  /\ w \in Workers /\ w.phase = "down" /\ w.pos = 0 /\ w.applied = worker.applied
             /\ w.todo = {} /\ w.fetched = NoFetch
BY SMTT(20) DEF Fresh, Workers, NoFetch, Draining

\* set_gateway_health writes both rows.
LEMMA HealthType ==
  ASSUME SettingsType, NEW c \in Nat, NEW h \in Healths, NEW s \in Int,
         SetGatewayHealth(c, h, s)
  PROVE  /\ gateway' \in [sequence : Int, credential : Nat, health : Healths]
         /\ gateway'.sequence = s
         /\ policy' \in [enabled : BOOLEAN, health : Healths, thread : BOOLEAN]
BY DEF SettingsType, SetGatewayHealth, PolicyAfter

\* The event that apply_event gets, and what it is made of.
InboundEvents ==
  [kind : {"create", "update", "delete", "thread"}, message : Messages \cup {NoMessage},
   version : Int, content : BOOLEAN, text : BOOLEAN]

\* A row with another text, or without its feedback.
LEMMA RowExcept ==
  ASSUME NEW r \in Rows, NEW v \in Int, NEW b \in Int
  PROVE  /\ [r EXCEPT !.version = v, !.body = b] \in Rows
         /\ [r EXCEPT !.state = "moderated", !.body = b] \in Rows
BY DEF Rows

\* The row that an event makes of the message's row.
LEMMA StoredType ==
  ASSUME InboxType, NEW e \in InboundEvents, e.message \in Messages, e.kind # "thread"
  PROVE  Stored(e) \in Rows
<1>0. rows[e.message] \in Rows /\ e.version \in Int /\ 0 \in Int
  BY SMTT(20) DEF InboxType, InboundEvents
<1>1. /\ e.version \in Int
      /\ e.kind \in {"create", "update", "delete"}
      /\ ReplyTo[e.message] \in Messages \cup {NoMessage}
      /\ \A n \in Messages : rows[n].parent \in Messages \cup {NoMessage}
  BY DEF InboxType, InboundEvents, Rows
<1>2. CASE e.kind = "create"
  BY <1>1, <1>2 DEF Stored, Rows
<1>3. CASE e.kind = "update"
  <2>1. Stored(e) = [rows[e.message] EXCEPT !.version = e.version, !.body = e.version]
    BY <1>3 DEF Stored
  <2>2. [rows[e.message] EXCEPT !.version = e.version, !.body = e.version] \in Rows
    <3> DEFINE r == rows[e.message]
               v == e.version
    <3>1. r \in Rows /\ v \in Int
      BY <1>0
    <3> HIDE DEF r, v
    <3>2. [r EXCEPT !.version = v, !.body = v] \in Rows
      BY <3>1, RowExcept
    <3> QED BY <3>2 DEF r, v
  <2> QED BY <2>1, <2>2
<1>4. CASE e.kind = "delete"
  <2>1. Stored(e) = [rows[e.message] EXCEPT !.version = e.version, !.body = Tombstone]
    BY <1>4 DEF Stored
  <2>2. [rows[e.message] EXCEPT !.version = e.version, !.body = Tombstone] \in Rows
    <3> DEFINE r == rows[e.message]
               v == e.version
    <3>1. r \in Rows /\ v \in Int
      BY <1>0
    <3> HIDE DEF r, v
    <3>2. [r EXCEPT !.version = v, !.body = Tombstone] \in Rows
      BY <1>0, <3>1, RowExcept
    <3> QED BY <3>2 DEF r, v
  <2> QED BY <2>1, <2>2
<1> QED BY <1>1, <1>2, <1>3, <1>4

\* Only a create, an update or a delete of a message that is not moderated is applied, and
\* only while two-way sync is on.
LEMMA AppliedMeans ==
  ASSUME InboxType, NEW e \in InboundEvents, e.kind # "thread" => e.message \in Messages,
         Process(e) = "applied"
  PROVE  /\ Authorized /\ e.kind # "thread" /\ e.message \in Messages
         /\ rows[e.message].state # "moderated"
         /\ e.kind = "create" => rows[e.message].state # "present" /\ e.text
         /\ e.kind # "create" => rows[e.message].state = "present" /\ ~NotNewer(e)
         /\ e.kind = "update" => e.content
BY DEF Process, Moderated, Create, Update, Delete, InboundEvents

\* What the inbox table holds after a receipt is written.
LEMMA WithReceiptType ==
  ASSUME InboxType, NEW i, NEW r \in Receipts, receipts' = WithReceipt(i, r)
  PROVE  /\ receipts' \in [DOMAIN receipts' -> Receipts]
         /\ DOMAIN receipts' = DOMAIN receipts \cup {i}
         /\ receipts'[i] = r
         /\ \A j \in DOMAIN receipts \ {i} : receipts'[j] = receipts[j]
<1>1. /\ DOMAIN receipts' = DOMAIN receipts \cup {i}
      /\ receipts'[i] = r
      /\ \A j \in DOMAIN receipts \ {i} : receipts'[j] = receipts[j]
  BY DEF WithReceipt
<1>2. \A j \in DOMAIN receipts : receipts[j] \in Receipts
  BY DEF InboxType
<1>3. receipts' = [j \in DOMAIN receipts' |-> receipts'[j]]
  BY <1>1 DEF WithReceipt
<1>4. \A j \in DOMAIN receipts' : receipts'[j] \in Receipts
  BY <1>1, <1>2
<1> QED BY <1>1, <1>3, <1>4

\* The receipt that apply_in_transaction writes.
LEMMA ReceiptType ==
  ASSUME InboxType, NEW i, NEW e \in InboundEvents, NEW result
  PROVE  /\ Receipt(i, e, result) \in Receipts
         /\ Receipt(i, e, result).message = e.message
         /\ Receipt(i, e, result).result =
              IF result = "needs_fetch" THEN "needs_fetch" ELSE "done"
<1>1. i \in DOMAIN receipts => receipts[i].attempts \in Nat
  BY DEF InboxType, Receipts
<1>2. e.message \in Messages \cup {NoMessage}
  BY DEF InboundEvents
<1> QED BY <1>1, <1>2 DEF Receipt, Receipts

\* One inbound event keeps the tables well formed.
LEMMA ApplyType ==
  ASSUME InboxType, SettingsType, HistoryType, NEW i, NEW e \in InboundEvents,
         e.kind # "thread" => e.message \in Messages, ApplyInTransaction(i, e)
  PROVE  /\ InboxType'
         /\ policy' \in [enabled : BOOLEAN, health : Healths, thread : BOOLEAN]
         /\ connected' \in BOOLEAN
         /\ excused' \subseteq Messages \cup {NoMessage} /\ excused \subseteq excused'
<1>1. CASE EventExists(i)
  BY <1>1 DEF ApplyInTransaction, inbox, InboxType, SettingsType, HistoryType
<1>2. CASE ~EventExists(i)
  <2> DEFINE result == Process(e)
  <2>1. /\ rows' = IF result = "applied" THEN [rows EXCEPT ![e.message] = Stored(e)] ELSE rows
        /\ policy' = IF result = "degraded" THEN [policy EXCEPT !.health = "degraded", !.thread = TRUE]
                     ELSE policy
        /\ connected' = (connected /\ result # "degraded")
        /\ receipts' = WithReceipt(i, Receipt(i, e, result))
        /\ excused' = IF Drops(e, result) THEN excused \cup {e.message} ELSE excused
    BY <1>2 DEF ApplyInTransaction
  <2> HIDE DEF result
  <2>2. rows' \in [Messages -> Rows]
    <3>1. CASE result = "applied"
      <4>1. Stored(e) \in Rows
        BY <3>1, AppliedMeans, StoredType DEF result
      <4> QED BY <4>1, <3>1, <2>1 DEF InboxType
    <3>2. CASE result # "applied"
      BY <3>2, <2>1 DEF InboxType
    <3> QED BY <3>1, <3>2
  <2>3. receipts' \in [DOMAIN receipts' -> Receipts]
    BY <2>1, WithReceiptType, ReceiptType
  <2>4. policy' \in [enabled : BOOLEAN, health : Healths, thread : BOOLEAN]
    BY <2>1 DEF SettingsType, Healths
  <2>5. connected' \in BOOLEAN
    BY <2>1
  <2>6. excused' \subseteq Messages \cup {NoMessage} /\ excused \subseteq excused'
    BY <2>1 DEF HistoryType, InboundEvents
  <2> QED BY <2>2, <2>3, <2>4, <2>5, <2>6 DEF InboxType
<1> QED BY <1>1, <1>2

\* The worker after the receipt it works on is done with.
LEMMA FinishedType ==
  ASSUME worker \in Workers, NEW i
  PROVE  /\ Finished(i) \in Workers
         /\ Finished(i).todo = worker.todo \ {i} /\ Finished(i).fetched = NoFetch
         /\ Finished(i).pos = worker.pos /\ Finished(i).applied = worker.applied
         /\ Finished(i).phase \in {"drain", "idle", "persist"}
         /\ Finished(i).phase # "drain" => Finished(i).todo = {}
<1>1. worker.todo \ {i} \in SUBSET Nat /\ worker.after \in {"idle", "persist"}
  BY DEF Workers
<1>2. NoFetch \in [result : {"none", "found", "missing", "retryable"}, version : Nat, text : BOOLEAN]
  BY DEF NoFetch
<1>3. /\ Finished(i).todo = worker.todo \ {i} /\ Finished(i).fetched = NoFetch
      /\ Finished(i).pos = worker.pos /\ Finished(i).applied = worker.applied
      /\ Finished(i).phase = IF worker.todo \ {i} = {} THEN worker.after ELSE "drain"
  BY DEF Finished, Workers
<1>4. Finished(i) \in Workers
  BY <1>1, <1>2 DEF Finished, Workers
<1> QED BY <1>1, <1>3, <1>4

\* The administrators' steps, and the credential and the thread that others change.
LEMMA AdministerType ==
  ASSUME IndInv, Administer \/ ReconnectThread
  PROVE  TypeOK'
<1>0. TypeOK /\ ProviderType /\ SettingsType /\ InboxType /\ worker \in Workers /\ HistoryType
  BY DEF IndInv, TypeOK
<1>1. CASE RequestGatewayReadiness
  <2> DEFINE same == gateway.credential = credential
             sequence == IF same THEN gateway.sequence ELSE NoSequence
             health == IF same /\ gateway.health = "ready" THEN "ready" ELSE "connecting"
  <2>0. sequence \in Int /\ health \in {"ready", "connecting"}
    BY <1>0, SMTT(20) DEF SettingsType
  <2>1. /\ gateway' = [sequence |-> sequence, credential |-> credential, health |-> health]
        /\ policy' = IF policy.enabled THEN policy
                     ELSE [policy EXCEPT !.health = health, !.thread = FALSE]
        /\ UNCHANGED <<credential, connected>>
    BY <1>1 DEF RequestGatewayReadiness
  <2> HIDE DEF sequence, health
  <2>2. gateway' \in [sequence : Int, credential : Nat, health : Healths]
    BY <2>0, <2>1, <1>0 DEF SettingsType, Healths
  <2>3. policy' \in [enabled : BOOLEAN, health : Healths, thread : BOOLEAN]
    BY <2>0, <2>1, <1>0 DEF SettingsType, Healths
  <2>4. SettingsType'
    BY <2>1, <2>2, <2>3, <1>0 DEF SettingsType
  <2> QED BY <2>4, <1>0, <1>1, SMTT(20) DEF RequestGatewayReadiness, Disturbance, TypeOK, provider, inbox,
             history, ProviderType, InboxType, HistoryType
<1>2. ASSUME NEW enabled \in BOOLEAN, SetPolicy(enabled) PROVE TypeOK'
  <2>1. SettingsType'
    BY <1>0, <1>2 DEF SetPolicy, SettingsType, Healths
  <2> QED BY <2>1, <1>0, <1>2, SMTT(20) DEF SetPolicy, Disturbance, TypeOK, provider, inbox,
             history, ProviderType, InboxType, HistoryType
<1>3. CASE RotateCredential
  BY ONLY <1>0, <1>3, SMTT(20) DEF RotateCredential, Disturbance, TypeOK, provider, inbox,
             history, ProviderType, InboxType, HistoryType, SettingsType
<1>4. CASE ReconnectThread
  BY ONLY <1>0, <1>4, SMTT(20) DEF ReconnectThread, Disturbance, TypeOK, provider, inbox,
             history, ProviderType, InboxType, HistoryType, SettingsType
<1>5. ASSUME NEW m \in Messages, DeleteAsViewer(m) PROVE TypeOK'
  <2>1. \A n \in Messages : [rows[n] EXCEPT !.state = "moderated", !.body = Tombstone] \in Rows
    <3>1. \A n \in Messages : rows[n] \in Rows
      BY <1>0 DEF InboxType
    <3>2. 0 \in Int
      BY SMTT(20)
    <3> QED BY <3>1, <3>2, RowExcept
  <2>2. rows' \in [Messages -> Rows]
    BY <2>1, <1>0, <1>5 DEF DeleteAsViewer, WithoutFeedback, InboxType
  <2> QED BY <2>2, <1>0, <1>5 DEF DeleteAsViewer, TypeOK, provider, settings,
             ProviderType, InboxType, HistoryType, SettingsType
<1> QED BY <1>1, <1>2, <1>3, <1>4, <1>5 DEF Administer

\* The supervisor's steps, the retry timer and a stop of the process.
LEMMA SuperviseType ==
  ASSUME IndInv, Supervise \/ RetryDue \/ Crash
  PROVE  TypeOK'
<1>0. TypeOK /\ ProviderType /\ SettingsType /\ InboxType /\ worker \in Workers /\ HistoryType
  BY DEF IndInv, TypeOK
<1>w. worker.resumable \in Nat /\ worker.credential \in Nat
  BY <1>0 DEF Workers
<1>s. credential \in Nat /\ gateway.credential \in Nat
  BY <1>0 DEF SettingsType
<1>1. CASE StartMissingWorker
  <2>1. worker' \in Workers
    BY <1>0, <1>w, <1>s, <1>1, FreshType DEF StartMissingWorker
  <2> QED BY <2>1, <1>0, <1>1 DEF StartMissingWorker, TypeOK, provider, settings, inbox,
             history, ProviderType, InboxType, HistoryType, SettingsType
<1>2. CASE StopStaleWorker
  <2>1. worker' \in Workers
    <3>1. PICK r \in Nat : worker' = Fresh("down", 0, r)
      BY <1>w, <1>2 DEF StopStaleWorker
    <3> QED BY <1>0, <3>1, FreshType
  <2>2. SettingsType'
    <3>1. CASE Wanted
      BY <1>0, <1>2, <3>1 DEF StopStaleWorker, SettingsType
    <3>2. CASE ~Wanted
      <4>1. SetGatewayHealth(worker.credential, "disabled", NoSequence)
        BY <1>2, <3>2 DEF StopStaleWorker
      <4>2. "disabled" \in Healths /\ NoSequence \in Int
        BY SMTT(20) DEF Healths
      <4> QED BY <4>1, <4>2, <1>0, <1>w, <1>2, HealthType DEF StopStaleWorker, SettingsType
    <3> QED BY <3>1, <3>2
  <2> QED BY <2>1, <2>2, <1>0, <1>2 DEF StopStaleWorker, TypeOK, provider, inbox,
             history, ProviderType, InboxType, HistoryType
<1>3. CASE CleanupProcessedEvents
  <2>1. receipts' \in [DOMAIN receipts' -> Receipts]
    <3>1. PICK S : S \subseteq DOMAIN receipts /\ receipts' = [j \in S |-> receipts[j]]
      BY <1>3 DEF CleanupProcessedEvents, Restrict
    <3>2. \A j \in S : receipts[j] \in Receipts
      BY <1>0, <3>1 DEF InboxType
    <3> QED BY <3>1, <3>2
  <2> QED BY <2>1, <1>0, <1>3 DEF CleanupProcessedEvents, TypeOK, provider, settings,
             history, ProviderType, InboxType, HistoryType, SettingsType
<1>4. CASE RetryDue
  <2>1. receipts' \in [DOMAIN receipts' -> Receipts]
    <3>1. PICK i \in DOMAIN receipts : receipts' = [receipts EXCEPT ![i].due = TRUE]
      BY <1>4 DEF RetryDue
    <3>2. receipts[i] \in Receipts
      BY <1>0 DEF InboxType
    <3>3. [receipts[i] EXCEPT !.due = TRUE] \in Receipts
      BY <3>2 DEF Receipts
    <3>4. receipts \in [DOMAIN receipts -> Receipts] /\ DOMAIN receipts' = DOMAIN receipts
      BY <1>0, <3>1 DEF InboxType
    <3> QED BY <3>1, <3>3, <3>4
  <2> QED BY <2>1, <1>0, <1>4 DEF RetryDue, TypeOK, provider, settings,
             history, ProviderType, InboxType, HistoryType, SettingsType
<1>5. CASE Crash
  <2>1. worker' \in Workers
    BY <1>0, <1>s, <1>5, FreshType DEF Crash
  <2> QED BY ONLY <2>1, <1>0, <1>5, SMTT(20) DEF Crash, Disturbance, TypeOK, provider, settings, inbox,
             history, ProviderType, InboxType, HistoryType, SettingsType
<1> QED BY <1>1, <1>2, <1>3, <1>4, <1>5 DEF Supervise

\* The event of the log at position i, as the Gateway delivers it.
LEMMA NormalizedType ==
  ASSUME ProviderType, LogInv, NEW i \in Positions, NEW behind \in Nat
  PROVE  LET e == Normalized(log[i], behind)
         IN  /\ e \in InboundEvents /\ (e.kind # "thread" => e.message \in Messages)
             /\ e.kind = log[i].kind /\ e.message = log[i].message /\ e.text = log[i].text
             /\ e.version = IF log[i].kind = "delete" THEN Len(log) - behind ELSE i
             /\ e.content = (e.kind = "create")
<1>1. log[i] \in Events /\ Len(log) \in Nat /\ i \in Int
  BY LogTypes, SMTT(20) DEF Positions
<1>2. log[i].version = i /\ (log[i].message = NoMessage <=> log[i].kind = "thread")
  BY DEF LogInv
<1>3. /\ log[i].kind \in {"create", "update", "delete", "thread"}
      /\ log[i].message \in Messages \cup {NoMessage} /\ log[i].text \in BOOLEAN
      /\ Len(log) - behind \in Int
  BY <1>1, SMTT(20) DEF Events
<1> DEFINE e == Normalized(log[i], behind)
<1>4. e = [kind |-> log[i].kind, message |-> log[i].message,
           version |-> IF log[i].kind = "delete" THEN Len(log) - behind ELSE log[i].version,
           content |-> log[i].kind = "create", text |-> log[i].text]
  BY DEF Normalized, Inbound, Now
<1> HIDE DEF e
<1>5. e \in InboundEvents
  BY <1>1, <1>2, <1>3, <1>4 DEF InboundEvents
<1>6. /\ e.kind = log[i].kind /\ e.message = log[i].message /\ e.text = log[i].text
      /\ e.version = (IF log[i].kind = "delete" THEN Len(log) - behind ELSE i)
      /\ e.content = (e.kind = "create")
  BY <1>2, <1>4
<1> QED BY <1>2, <1>3, <1>5, <1>6 DEF e

\* The event of a receipt, partial or with what was fetched.
LEMMA HydratedType ==
  ASSUME IndInv, worker.phase = "apply"
  PROVE  LET e == Hydrated(worker.item)
             i == worker.item
             found == worker.fetched.result = "found"
         IN  /\ i \in 1..worker.applied /\ i \in Positions /\ Waiting(i)
             /\ e \in InboundEvents /\ e.message = log[i].message /\ e.message \in Messages
             /\ log[i].kind = "update" /\ e.kind = "update" /\ e.content = found
             /\ found => i <= e.version /\ IsText(e.version, e.message)
<1> DEFINE i == worker.item
           e == Hydrated(i)
           found == worker.fetched.result = "found"
<1>1. Waiting(i) /\ i \in 1..worker.applied /\ worker.applied <= Len(log) /\ worker.applied \in Nat
  BY DEF IndInv, TypeOK, Workers, FetchInv, PositionInv, Draining, Waiting
<1>2. i \in Positions /\ log[i] \in Events /\ log[i].kind = "update" /\ log[i].version = i
  BY <1>1, LogTypes, SMTT(20) DEF IndInv, TypeOK, ReceiptInv, Positions, LogInv, Waiting
<1>3. log[i].message \in Messages
  BY <1>2 DEF IndInv, LogInv, Events
<1>4. /\ worker.fetched.version \in Nat /\ worker.fetched.text \in BOOLEAN
      /\ found => i <= worker.fetched.version /\ IsText(worker.fetched.version, log[i].message)
  BY DEF IndInv, TypeOK, Workers, FetchInv
<1>5. e = [kind |-> log[i].kind, message |-> log[i].message,
           version |-> IF found THEN worker.fetched.version ELSE log[i].version,
           content |-> found, text |-> IF found THEN worker.fetched.text ELSE FALSE]
  BY DEF Hydrated, Inbound
<1> HIDE DEF e, found, i
<1>6. e \in InboundEvents
  <2>1. (IF found THEN worker.fetched.version ELSE log[i].version) \in Int
    BY <1>1, <1>2, <1>4, SMTT(20)
  <2>2. (IF found THEN worker.fetched.text ELSE FALSE) \in BOOLEAN /\ found \in BOOLEAN
    BY <1>4 DEF found
  <2> QED BY <1>2, <1>3, <1>5, <2>1, <2>2 DEF InboundEvents
<1>7. /\ e.message = log[i].message /\ e.kind = "update" /\ e.content = found
      /\ found => e.version = worker.fetched.version
  BY <1>2, <1>5
<1> QED BY <1>1, <1>2, <1>3, <1>4, <1>6, <1>7 DEF e, found, i

\* The messages of the events that a new session skips.
LEMMA SkipType ==
  ASSUME IndInv, NEW lost \in BOOLEAN, Skip(lost)
  PROVE  /\ excused \subseteq excused' /\ excused' \subseteq Messages \cup {NoMessage}
         /\ missed' \in BOOLEAN
         /\ \A i \in Positions : i > worker.applied => log[i].message \in excused' \cup {NoMessage}
<1>1. worker.applied \in Nat /\ Len(log) \in Nat
  BY LogTypes DEF IndInv, TypeOK, Workers
<1>2. \A i \in Positions : log[i].message \in Messages \cup {NoMessage}
  BY LogTypes DEF IndInv, TypeOK, Events
<1>3. (worker.applied + 1)..Len(log) \subseteq Positions
  BY <1>1, SMTT(20) DEF Positions
<1>4. \A i \in Positions : i > worker.applied => i \in (worker.applied + 1)..Len(log)
  BY <1>1, SMTT(20) DEF Positions
<1> DEFINE skipped == {log[i].message : i \in (worker.applied + 1)..Now} \ {NoMessage}
<1>5. excused' = excused \cup skipped /\ missed' = (missed \/ (lost /\ skipped # {}))
  BY DEF Skip
<1>6. skipped \subseteq Messages
  BY <1>2, <1>3 DEF Now
<1>7. excused \subseteq Messages \cup {NoMessage} /\ missed \in BOOLEAN
  BY DEF IndInv, TypeOK, HistoryType
<1>8. excused' \subseteq Messages \cup {NoMessage} /\ excused \subseteq excused'
  BY <1>5, <1>6, <1>7
<1>9. \A i \in Positions : i > worker.applied => log[i].message \in excused' \cup {NoMessage}
  BY <1>4, <1>5 DEF Now
<1> QED BY <1>5, <1>7, <1>8, <1>9

-----------------------------------------------------------------------------
(* Steps that leave the mirror alone *)

\* Discord's log stands still.
LEMMA LogFrame ==
  ASSUME LogInv, MessageInv, UNCHANGED provider
  PROVE  LogInv' /\ MessageInv'
<1>0. discord' = discord /\ log' = log
  BY DEF provider
<1>1. LogInv'
  BY <1>0, SMTT(20) DEF LogInv, Positions
<1>2. MessageInv'
  BY <1>0, SMTT(20) DEF MessageInv, IsText, Positions
<1> QED BY <1>1, <1>2

\* No row changes.
LEMMA RowsKept ==
  ASSUME IndInv, UNCHANGED <<provider, rows, removed, lag>>, excused \subseteq excused'
  PROVE  RemovedInv' /\ TextInv' /\ BuriedInv'
<1>0. UNCHANGED <<discord, log, rows, removed, lag>>
  BY DEF provider
<1>1. RemovedInv'
  BY <1>0 DEF IndInv, RemovedInv
<1>2. TextInv'
  BY <1>0 DEF IndInv, TextInv, IsText, Positions
<1>3. BuriedInv'
  <2> SUFFICES ASSUME NEW m \in Messages, (lag = 0 \/ m \notin excused)',
                      (rows[m].state = "present" /\ rows[m].body = Tombstone)'
               PROVE  Buried(m)'
    BY DEF BuriedInv
  <2>1. Buried(m)
    BY <1>0 DEF IndInv, BuriedInv
  <2> QED BY <2>1, <1>0 DEF Buried, IsText, Positions
<1> QED BY <1>1, <1>2, <1>3

\* Nor is anything that waits forgotten, or anything new applied.
LEMMA RowsFrame ==
  ASSUME IndInv, UNCHANGED <<provider, rows, removed, lag>>, excused \subseteq excused',
         worker'.applied = worker.applied, \A i : Waiting(i) => Waiting(i)'
  PROVE  RemovedInv' /\ TextInv' /\ BuriedInv' /\ MirrorInv'
<1>0. UNCHANGED <<discord, log, rows, removed, lag>>
  BY DEF provider
<1>1. MirrorInv'
  <2> SUFFICES ASSUME NEW m \in Messages \ (excused' \cup removed')
               PROVE  Mirrored(m)'
    BY DEF MirrorInv
  <2>1. Mirrored(m)
    BY <1>0 DEF IndInv, MirrorInv
  <2> QED BY <2>1, <1>0 DEF Mirrored
<1> QED BY <1>1, RowsKept

\* The tables stand still.
LEMMA ReceiptFrame ==
  ASSUME IndInv, UNCHANGED <<log, receipts>>
  PROVE  ReceiptInv' /\ \A i : Waiting(i)' <=> Waiting(i)
BY DEF IndInv, ReceiptInv, Waiting

\* A step of a worker that hydrates nothing, on tables that stand still.
LEMMA QuietStep ==
  ASSUME IndInv, TypeOK', UNCHANGED <<provider, inbox, removed, lag>>,
         excused \subseteq excused', worker'.applied = worker.applied,
         0 <= worker'.pos, worker'.pos <= worker.applied,
         -1 <= gateway'.sequence, gateway'.sequence <= worker.applied,
         worker'.todo = {}, worker'.fetched = NoFetch,
         worker'.phase \notin Draining \cup {"drain"}
  PROVE  IndInv'
<1>0. UNCHANGED <<discord, log, rows, receipts>>
  BY DEF provider, inbox
<1>1. LogInv' /\ MessageInv'
  BY LogFrame DEF IndInv
<1>2. ReceiptInv' /\ \A i : Waiting(i) => Waiting(i)'
  BY <1>0, ReceiptFrame
<1>3. RemovedInv' /\ TextInv' /\ BuriedInv' /\ MirrorInv'
  BY <1>0, <1>2, RowsFrame
<1>4. PositionInv'
  BY <1>0 DEF IndInv, PositionInv
<1>5. FetchInv'
  BY DEF FetchInv, Draining
<1> QED BY <1>1, <1>2, <1>3, <1>4, <1>5 DEF IndInv

\* The settings change, and the worker stands still.
LEMMA SettingsStep ==
  ASSUME IndInv, TypeOK', UNCHANGED <<provider, inbox, worker, history>>,
         -1 <= gateway'.sequence, gateway'.sequence <= worker.applied
  PROVE  IndInv'
<1>0. UNCHANGED <<discord, log, rows, receipts, excused, removed, lag>>
  BY DEF provider, inbox, history
<1>1. LogInv' /\ MessageInv'
  BY LogFrame DEF IndInv
<1>2. ReceiptInv' /\ \A i : Waiting(i)' <=> Waiting(i)
  BY <1>0, ReceiptFrame
<1>3. RemovedInv' /\ TextInv' /\ BuriedInv' /\ MirrorInv'
  BY <1>0, <1>2, RowsFrame
<1>4. PositionInv'
  BY <1>0 DEF IndInv, PositionInv
<1>5. FetchInv'
  BY <1>0, <1>2 DEF IndInv, FetchInv, IsText, Positions
<1> QED BY <1>1, <1>2, <1>3, <1>4, <1>5 DEF IndInv

\* A receipt becomes due again, or the ones that are settled are forgotten.
LEMMA ReceiptsStep ==
  ASSUME IndInv, TypeOK', UNCHANGED <<provider, rows, gateway, worker, history>>,
         DOMAIN receipts' \subseteq DOMAIN receipts,
         \A i \in DOMAIN receipts' : /\ receipts'[i].message = receipts[i].message
                                     /\ receipts'[i].result = receipts[i].result,
         \A i : Waiting(i) => i \in DOMAIN receipts'
  PROVE  IndInv'
<1>0. UNCHANGED <<discord, log, excused, removed, lag>>
  BY DEF provider, history
<1>1. LogInv' /\ MessageInv'
  BY LogFrame DEF IndInv
<1>2. \A i : Waiting(i)' <=> Waiting(i)
  BY DEF Waiting
<1>r. ReceiptInv'
  BY <1>0, <1>2 DEF IndInv, ReceiptInv
<1>3. RemovedInv' /\ TextInv' /\ BuriedInv' /\ MirrorInv'
  BY <1>0, <1>2, RowsFrame
<1>4. PositionInv'
  BY <1>0 DEF IndInv, PositionInv
<1>5. FetchInv'
  BY <1>0, <1>2 DEF IndInv, FetchInv, IsText, Positions
<1> QED BY <1>1, <1>r, <1>3, <1>4, <1>5 DEF IndInv

\* What administrators do to the settings keeps the invariant.
LEMMA SettingsInv ==
  ASSUME IndInv,
         \/ RequestGatewayReadiness \/ RotateCredential \/ ReconnectThread
         \/ \E enabled \in BOOLEAN : SetPolicy(enabled)
  PROVE  IndInv'
<1>1. TypeOK'
  BY AdministerType DEF Administer
<1>2. UNCHANGED <<provider, inbox, worker, history>>
  BY DEF RequestGatewayReadiness, RotateCredential, ReconnectThread, SetPolicy
<1>3. gateway'.sequence \in {gateway.sequence, -1}
  BY SMTT(20) DEF RequestGatewayReadiness, RotateCredential, ReconnectThread, SetPolicy
<1>4. /\ -1 <= gateway.sequence /\ gateway.sequence <= worker.applied
      /\ worker.applied \in Nat /\ gateway.sequence \in Int
  BY DEF IndInv, PositionInv, TypeOK, Workers, SettingsType
<1>5. -1 <= gateway'.sequence /\ gateway'.sequence <= worker.applied
  BY <1>3, <1>4, SMTT(20)
<1> QED BY <1>1, <1>2, <1>5, SettingsStep

\* The retry timer and the cleanup of settled receipts.
LEMMA ReceiptsInv ==
  ASSUME IndInv, RetryDue \/ CleanupProcessedEvents
  PROVE  IndInv'
<1>1. TypeOK'
  BY SuperviseType DEF Supervise
<1>0. receipts \in [DOMAIN receipts -> Receipts]
  BY DEF IndInv, TypeOK, InboxType
<1>2. UNCHANGED <<provider, rows, gateway, worker, history>>
  BY DEF RetryDue, CleanupProcessedEvents, settings
<1>3. CASE RetryDue
  <2>1. PICK i \in DOMAIN receipts : receipts' = [receipts EXCEPT ![i].due = TRUE]
    BY <1>3 DEF RetryDue
  <2>2. receipts[i] \in Receipts
    BY <1>0
  <2>3. /\ DOMAIN receipts' = DOMAIN receipts
        /\ \A j \in DOMAIN receipts : receipts'[j] = IF j = i THEN [receipts[i] EXCEPT !.due = TRUE]
                                                     ELSE receipts[j]
    BY <1>0, <2>1
  <2>4. /\ [receipts[i] EXCEPT !.due = TRUE].message = receipts[i].message
        /\ [receipts[i] EXCEPT !.due = TRUE].result = receipts[i].result
    BY <2>2 DEF Receipts
  <2>5. \A j \in DOMAIN receipts' : /\ receipts'[j].message = receipts[j].message
                                    /\ receipts'[j].result = receipts[j].result
    BY <2>3, <2>4
  <2> QED BY <1>1, <1>2, <2>3, <2>5, ReceiptsStep DEF Waiting
<1>4. CASE CleanupProcessedEvents
  <2>1. PICK i \in DOMAIN receipts :
          receipts' = Restrict(receipts, DOMAIN receipts \
                        {j \in DOMAIN receipts : j <= i /\ receipts[j].result # "needs_fetch"})
    BY <1>4 DEF CleanupProcessedEvents
  <2> DEFINE S == DOMAIN receipts \
                    {j \in DOMAIN receipts : j <= i /\ receipts[j].result # "needs_fetch"}
  <2>2. DOMAIN receipts' = S /\ \A j \in S : receipts'[j] = receipts[j]
    BY <2>1 DEF Restrict
  <2>3. S \subseteq DOMAIN receipts /\ \A j : Waiting(j) => j \in S
    BY DEF Waiting
  <2> HIDE DEF S
  <2> QED BY <1>1, <1>2, <2>2, <2>3, ReceiptsStep
<1> QED BY <1>3, <1>4

\* The sequence in the session row is at most what was applied.
LEMMA SequenceBound ==
  ASSUME IndInv
  PROVE  /\ worker.applied \in Nat /\ gateway.sequence \in Int /\ worker.pos \in Int
         /\ worker.credential \in Nat /\ worker.resumable \in Nat
         /\ -1 <= gateway.sequence /\ gateway.sequence <= worker.applied
         /\ 0 <= worker.pos /\ worker.pos <= worker.applied /\ worker.applied <= Len(log)
BY DEF IndInv, PositionInv, TypeOK, Workers, SettingsType

\* The supervisor starts and stops the worker, and the process dies.
LEMMA SuperviseInv ==
  ASSUME IndInv, StartMissingWorker \/ StopStaleWorker \/ Crash
  PROVE  IndInv'
<1>1. TypeOK'
  BY SuperviseType DEF Supervise
<1>2. UNCHANGED <<provider, inbox, removed, lag, excused>>
  BY DEF StartMissingWorker, StopStaleWorker, Crash, history
<1>3. worker \in Workers /\ credential \in Nat /\ gateway.credential \in Nat
  BY DEF IndInv, TypeOK, SettingsType
<1>w. worker.resumable \in Nat
  BY SequenceBound
<1>4. PICK p \in {"down", "starting"}, c \in Nat, r \in Nat : worker' = Fresh(p, c, r)
  <2>1. CASE StartMissingWorker
    BY <1>3, <2>1, SequenceBound DEF StartMissingWorker
  <2>2. CASE StopStaleWorker
    BY <1>w, <2>2 DEF StopStaleWorker
  <2>3. CASE Crash
    BY <1>3, <2>3 DEF Crash
  <2> QED BY <2>1, <2>2, <2>3
<1>5. /\ worker'.phase \notin Draining \cup {"drain"} /\ worker'.pos = 0
      /\ worker'.applied = worker.applied /\ worker'.todo = {} /\ worker'.fetched = NoFetch
  BY <1>3, <1>4, FreshType, SMTT(20) DEF Draining
<1>6. gateway'.sequence \in {gateway.sequence, -1}
  BY SMTT(20) DEF StartMissingWorker, StopStaleWorker, Crash, settings, SetGatewayHealth
<1>7. -1 <= gateway'.sequence /\ gateway'.sequence <= worker.applied /\ 0 <= worker.applied
  BY <1>6, SequenceBound, SMTT(20)
<1> QED BY <1>1, <1>2, <1>5, <1>7, QuietStep, SMTT(20)

\* The worker of a new session.
LEMMA NewWorker ==
  ASSUME worker \in Workers, NEW s \in Nat, s \in Int,
         worker' = [worker EXCEPT !.phase = "persist", !.pos = s, !.applied = s, !.resumable = 0]
  PROVE  /\ worker' \in Workers /\ worker'.phase = "persist" /\ worker'.pos = s
         /\ worker'.applied = s /\ worker'.todo = worker.todo /\ worker'.fetched = worker.fetched
<1>1. 0 \in Nat
  OBVIOUS
<1> QED BY <1>1 DEF Workers

\* A worker outside of a drain has nothing to hydrate.
LEMMA NotDraining ==
  ASSUME IndInv, worker.phase \notin Draining \cup {"drain"}
  PROVE  worker.todo = {} /\ worker.fetched = NoFetch
BY DEF IndInv, FetchInv, Draining

\* set_gateway_health keeps the types of the settings.
LEMMA HealthKeepsTypes ==
  ASSUME SettingsType, NEW c \in Nat, NEW h \in {"ready", "connecting", "unavailable"},
         NEW s \in Int, SetGatewayHealth(c, h, s), UNCHANGED <<credential, connected>>
  PROVE  SettingsType' /\ gateway'.sequence = s
<1>1. h \in Healths
  BY DEF Healths
<1> QED BY <1>1, HealthType DEF SettingsType

\* initialize_organization_gateway and persist_shard_health.
LEMMA InitializeInv ==
  ASSUME IndInv, Initialize \/ PersistShardHealth
  PROVE  IndInv'
<1>0. /\ TypeOK /\ ProviderType /\ SettingsType /\ InboxType /\ worker \in Workers /\ HistoryType
      /\ worker.credential \in Nat /\ worker.pos \in Int
  BY SequenceBound DEF IndInv, TypeOK
<1>1. /\ UNCHANGED <<provider, inbox, removed, lag, excused, missed>>
      /\ UNCHANGED <<credential, connected>>
      /\ disturbances' \in Nat
  BY <1>0, SMTT(20) DEF Initialize, PersistShardHealth, history, Fails, Disturbance, HistoryType
<1>2. worker.todo = {} /\ worker.fetched = NoFetch
  BY NotDraining DEF Initialize, PersistShardHealth, At, Draining
<1>3. \/ UNCHANGED <<gateway, policy>>
      \/ \E h \in {"ready", "connecting", "unavailable"}, s \in {-1, worker.pos} :
           SetGatewayHealth(worker.credential, h, s)
  BY DEF Initialize, PersistShardHealth
<1>4. SettingsType' /\ gateway'.sequence \in {gateway.sequence, -1, worker.pos}
  <2>1. CASE UNCHANGED <<gateway, policy>>
    BY <1>0, <1>1, <2>1 DEF SettingsType
  <2>2. ASSUME NEW h \in {"ready", "connecting", "unavailable"}, NEW s \in {-1, worker.pos},
               SetGatewayHealth(worker.credential, h, s)
        PROVE  SettingsType' /\ gateway'.sequence \in {gateway.sequence, -1, worker.pos}
    <3>1. s \in Int
      BY <1>0, SMTT(20)
    <3> QED BY <1>0, <1>1, <2>2, <3>1, HealthKeepsTypes, SMTT(20)
  <2> QED BY <1>3, <2>1, <2>2
<1>5. -1 <= gateway'.sequence /\ gateway'.sequence <= worker.applied
  <2>1. /\ worker.applied \in Nat /\ gateway.sequence \in Int /\ worker.pos \in Int
        /\ -1 <= gateway.sequence /\ gateway.sequence <= worker.applied
        /\ 0 <= worker.pos /\ worker.pos <= worker.applied
    BY SequenceBound
  <2> QED BY ONLY <1>4, <2>1, SMTT(20)
<1>6. \/ worker' = [worker EXCEPT !.phase = "connecting"]
      \/ worker' = [worker EXCEPT !.phase = "idle"]
      \/ worker' = Fresh("down", worker.credential, worker.resumable)
  BY DEF Initialize, PersistShardHealth
<1>7. /\ worker' \in Workers /\ worker'.phase \in {"connecting", "idle", "down"}
      /\ worker'.pos \in {0, worker.pos}
      /\ worker'.applied = worker.applied /\ worker'.todo = {} /\ worker'.fetched = NoFetch
  <2>1. ASSUME NEW p \in {"connecting", "idle"}, worker' = [worker EXCEPT !.phase = p]
        PROVE  /\ worker' \in Workers /\ worker'.phase = p /\ worker'.pos = worker.pos
               /\ worker'.applied = worker.applied /\ worker'.todo = {} /\ worker'.fetched = NoFetch
    BY <1>0, <1>2, <2>1 DEF Workers
  <2>2. CASE worker' = Fresh("down", worker.credential, worker.resumable)
    <3>1. worker.resumable \in Nat /\ worker.credential \in Nat /\ worker \in Workers
      BY <1>0, SequenceBound
    <3> QED BY ONLY <2>2, <3>1, FreshType, SMTT(20)
  <2> QED BY <1>6, <2>1, <2>2
<1>8. TypeOK'
  BY <1>0, <1>1, <1>4, <1>7 DEF TypeOK, provider, inbox, ProviderType, InboxType, HistoryType
<1>9. 0 <= worker'.pos /\ worker'.pos <= worker.applied
  BY <1>7, SequenceBound, SMTT(20)
<1>10. worker'.phase \notin Draining \cup {"drain"}
  BY <1>7 DEF Draining
<1> QED BY <1>1, <1>5, <1>7, <1>8, <1>9, <1>10, QuietStep

\* The worker ends after it has written why.
LEMMA EndsInv ==
  ASSUME IndInv, NEW s \in Int, -1 <= s, s <= worker.applied, Ends(s),
         UNCHANGED <<provider, credential, connected, inbox, removed, lag>>
  PROVE  IndInv'
<1>0. /\ ProviderType /\ SettingsType /\ InboxType /\ worker \in Workers /\ HistoryType
      /\ worker.credential \in Nat /\ worker.applied \in Nat
  BY SequenceBound DEF IndInv, TypeOK
<1>1. SettingsType' /\ gateway'.sequence = s
  BY <1>0, HealthKeepsTypes DEF Ends
<1>2. /\ worker' \in Workers /\ worker'.phase = "down" /\ worker'.pos = 0
      /\ worker'.applied = worker.applied /\ worker'.todo = {} /\ worker'.fetched = NoFetch
  BY <1>0, DownType DEF Ends
<1>3. HistoryType'
  BY <1>0, SMTT(20) DEF Ends, Disturbance, HistoryType
<1>4. TypeOK'
  BY <1>0, <1>1, <1>2, <1>3 DEF TypeOK, provider, inbox, ProviderType, InboxType
<1>5. worker'.phase \notin Draining \cup {"drain"} /\ excused' = excused
  BY <1>2 DEF Draining, Ends
<1> QED BY <1>0, <1>1, <1>2, <1>4, <1>5, QuietStep, SMTT(20)

\* A new session applies everything so far, by skipping what was not.
LEMMA SessionInv ==
  ASSUME IndInv, NEW lost \in BOOLEAN, Skip(lost),
         UNCHANGED <<provider, credential, connected, inbox, removed, lag>>,
         SettingsType', disturbances' \in Nat, worker' \in Workers,
         worker'.applied = Now, worker'.pos \in {0, Now}, worker'.todo = {},
         worker'.fetched = NoFetch, worker'.phase \notin Draining \cup {"drain"},
         -1 <= gateway'.sequence, gateway'.sequence <= Now
  PROVE  IndInv'
<1>0. /\ ProviderType /\ InboxType /\ HistoryType /\ LogInv /\ MessageInv
      /\ UNCHANGED <<discord, log, rows, receipts>>
  BY DEF IndInv, TypeOK, provider, inbox
<1>1. TypeOK'
  <2>1. HistoryType'
    BY <1>0, SkipType DEF HistoryType
  <2> QED BY <1>0, <2>1 DEF TypeOK, ProviderType, InboxType
<1>2. LogInv' /\ MessageInv'
  BY <1>0, LogFrame
<1>3. ReceiptInv' /\ \A i : Waiting(i)' <=> Waiting(i)
  BY <1>0, ReceiptFrame
<1>4. Len(log) \in Nat /\ Now = Len(log)
  BY <1>0, LogTypes DEF Now
<1>5. PositionInv'
  <2>1. /\ DOMAIN receipts' \subseteq 1..worker.applied
        /\ worker.applied \in Nat /\ worker.applied <= Len(log)
    BY <1>0, SequenceBound DEF IndInv, PositionInv
  <2>2. /\ log' = log /\ worker'.applied = Len(log) /\ worker'.pos \in {0, Len(log)}
        /\ -1 <= gateway'.sequence /\ gateway'.sequence <= Len(log)
    BY <1>0, <1>4
  <2> QED BY ONLY <1>4, <2>1, <2>2, SMTT(20) DEF PositionInv
<1>6. FetchInv'
  BY DEF FetchInv, Draining
<1>7. excused \subseteq excused'
  BY SkipType
<1>8. RemovedInv' /\ TextInv' /\ BuriedInv'
  BY <1>0, <1>7, RowsKept
<1>9. MirrorInv'
  <2> SUFFICES ASSUME NEW m \in Messages \ (excused' \cup removed')
               PROVE  Mirrored(m)'
    BY DEF MirrorInv
  <2>1. Mirrored(m) /\ m # NoMessage
    BY <1>7 DEF IndInv, MirrorInv
  <2>2. \A i \in 1..Now : log[i].message = m => i \in 1..worker.applied
    <3>1. worker.applied \in Nat /\ worker.applied <= Len(log)
      BY SequenceBound
    <3>2. \A i \in Positions : i > worker.applied => log[i].message # m
      BY <2>1, SkipType
    <3> QED BY ONLY <1>4, <3>1, <3>2, SMTT(20) DEF Positions
  <2>3. \A i \in 1..worker.applied : i \in 1..Now
    <3>1. worker.applied \in Nat /\ worker.applied <= Len(log)
      BY SequenceBound
    <3> QED BY ONLY <1>4, <3>1, SMTT(20)
  <2> QED BY <1>0, <1>3, <2>1, <2>2, <2>3 DEF Mirrored
<1> QED BY <1>1, <1>2, <1>3, <1>5, <1>6, <1>8, <1>9 DEF IndInv

\* The shard connects: it resumes the stored session, starts a new one, or gives up.
LEMMA ConnectInv ==
  ASSUME IndInv, Connect
  PROVE  IndInv'
<1> DEFINE resume == GatewayResume(worker.credential)
           lost == resume = NoSequence /\ worker.resumable = worker.credential
<1>0. /\ ProviderType /\ SettingsType /\ InboxType /\ worker \in Workers /\ HistoryType
      /\ Len(log) \in Nat /\ Now = Len(log)
  BY LogTypes DEF IndInv, TypeOK, Now
<1>1. /\ resume \in Int /\ -1 <= resume /\ resume <= worker.applied
      /\ resume # NoSequence => 0 <= resume
  <2>1. /\ worker.applied \in Nat /\ gateway.sequence \in Int
        /\ -1 <= gateway.sequence /\ gateway.sequence <= worker.applied
    BY SequenceBound
  <2>2. resume \in {gateway.sequence, -1}
    BY DEF GatewayResume
  <2> QED BY ONLY <2>1, <2>2, SMTT(20) DEF NoSequence
<1>2. UNCHANGED <<provider, credential, connected, inbox, removed, lag>> /\ lost \in BOOLEAN
  BY DEF Connect
<1>3. worker.todo = {} /\ worker.fetched = NoFetch
  BY NotDraining DEF Connect, At, Draining
<1>4. \/ /\ resume # NoSequence
         /\ worker' = [worker EXCEPT !.phase = "persist", !.pos = resume, !.resumable = 0]
         /\ UNCHANGED <<gateway, policy, excused, missed, disturbances>>
      \/ NewSession(lost) /\ UNCHANGED <<gateway, policy, disturbances>>
      \/ WithoutGuild(lost) \/ Ends(resume)
  BY DEF Connect
<1> HIDE DEF resume, lost
<1>5. CASE /\ resume # NoSequence
           /\ worker' = [worker EXCEPT !.phase = "persist", !.pos = resume, !.resumable = 0]
           /\ UNCHANGED <<gateway, policy, excused, missed, disturbances>>
  <2>1. /\ worker' \in Workers /\ worker'.phase = "persist" /\ worker'.pos = resume
        /\ worker'.applied = worker.applied /\ worker'.todo = {} /\ worker'.fetched = NoFetch
    <3>1. 0 \in Nat
      OBVIOUS
    <3> QED BY <1>0, <1>1, <1>3, <1>5, <3>1 DEF Workers
  <2>2. TypeOK'
    BY <1>0, <1>2, <1>5, <2>1 DEF TypeOK, provider, inbox, ProviderType, InboxType,
       SettingsType, HistoryType
  <2>3. worker'.phase \notin Draining \cup {"drain"}
    BY <2>1 DEF Draining
  <2> QED BY <1>1, <1>2, <1>5, <2>1, <2>2, <2>3, QuietStep, SequenceBound
<1>6. CASE NewSession(lost) /\ UNCHANGED <<gateway, policy, disturbances>>
  <2>1. worker' = [worker EXCEPT !.phase = "persist", !.pos = Now, !.applied = Now, !.resumable = 0]
    BY <1>6 DEF NewSession
  <2>2. /\ worker' \in Workers /\ worker'.phase = "persist" /\ worker'.pos = Now
        /\ worker'.applied = Now /\ worker'.todo = {} /\ worker'.fetched = NoFetch
    <3>1. Now \in Int /\ Now \in Nat
      BY <1>0, SMTT(20)
    <3> QED BY <1>0, <1>3, <2>1, <3>1, NewWorker
  <2>3. SettingsType' /\ disturbances' \in Nat
    BY <1>0, <1>2, <1>6 DEF SettingsType, HistoryType
  <2>4. worker'.phase \notin Draining \cup {"drain"}
    BY <2>2 DEF Draining
  <2>5. -1 <= gateway'.sequence /\ gateway'.sequence <= Now
    BY <1>0, <1>6, SequenceBound, SMTT(20)
  <2> QED BY <1>2, <1>6, <2>2, <2>3, <2>4, <2>5, SessionInv DEF NewSession
<1>7. CASE WithoutGuild(lost)
  <2> DEFINE ended == Fresh("down", worker.credential, 0)
  <2>1. /\ ended \in Workers /\ ended.phase = "down" /\ ended.pos = 0 /\ ended.todo = {}
        /\ ended.fetched = NoFetch /\ Now \in Nat /\ Now \in Int
    BY <1>0, DownType, SMTT(20)
  <2>2. worker' = [ended EXCEPT !.applied = Now]
    BY <1>7 DEF WithoutGuild
  <2> HIDE DEF ended
  <2>3. /\ worker' \in Workers /\ worker'.phase = "down" /\ worker'.pos = 0
        /\ worker'.applied = Now /\ worker'.todo = {} /\ worker'.fetched = NoFetch
    BY <2>1, <2>2 DEF Workers
  <2>4. SettingsType' /\ gateway'.sequence = Now
    BY <1>0, <1>2, <1>7, <2>1, HealthKeepsTypes, SequenceBound DEF WithoutGuild
  <2>5. disturbances' \in Nat
    BY <1>0, <1>7, SMTT(20) DEF WithoutGuild, Disturbance, HistoryType
  <2>6. worker'.phase \notin Draining \cup {"drain"}
    BY <2>3 DEF Draining
  <2>7. -1 <= gateway'.sequence /\ gateway'.sequence <= Now
    BY <1>0, <2>4, SMTT(20)
  <2> QED BY <1>2, <1>7, <2>3, <2>4, <2>5, <2>6, <2>7, SessionInv DEF WithoutGuild
<1>8. CASE Ends(resume)
  BY <1>1, <1>2, <1>8, EndsInv
<1> QED BY <1>4, <1>5, <1>6, <1>7, <1>8

\* The shard loses its connection and reconnects, or ends.
LEMMA ReconnectInv ==
  ASSUME IndInv, ShardReconnects
  PROVE  IndInv'
<1>0. /\ ProviderType /\ SettingsType /\ InboxType /\ worker \in Workers /\ HistoryType
      /\ Len(log) \in Nat /\ Now = Len(log)
  BY LogTypes DEF IndInv, TypeOK, Now
<1>2. UNCHANGED <<provider, credential, connected, inbox, removed, lag>>
  BY DEF ShardReconnects
<1>3. worker.todo = {} /\ worker.fetched = NoFetch
  BY NotDraining DEF ShardReconnects, At, Draining
<1>4. CASE Ends(worker.pos)
  BY <1>2, <1>4, EndsInv, SequenceBound, SMTT(20)
<1>5. CASE /\ Disturbance /\ SetGatewayHealth(worker.credential, "unavailable", worker.pos)
           /\ \/ worker' = [worker EXCEPT !.phase = "persist"] /\ UNCHANGED <<excused, missed>>
              \/ NewSession(FALSE)
  <2>1. SettingsType' /\ gateway'.sequence = worker.pos
    BY <1>0, <1>2, <1>5, HealthKeepsTypes, SequenceBound
  <2>2. disturbances' \in Nat
    BY <1>0, <1>5, SMTT(20) DEF Disturbance, HistoryType
  <2>3. CASE worker' = [worker EXCEPT !.phase = "persist"] /\ UNCHANGED <<excused, missed>>
    <3>1. /\ worker' \in Workers /\ worker'.phase = "persist" /\ worker'.pos = worker.pos
          /\ worker'.applied = worker.applied /\ worker'.todo = {} /\ worker'.fetched = NoFetch
      BY <1>0, <1>3, <2>3 DEF Workers
    <3>2. TypeOK'
      BY <1>0, <1>2, <2>1, <2>2, <2>3, <3>1 DEF TypeOK, provider, inbox, ProviderType, InboxType,
         HistoryType
    <3>3. worker'.phase \notin Draining \cup {"drain"}
      BY <3>1 DEF Draining
    <3>4. /\ 0 <= worker'.pos /\ worker'.pos <= worker.applied
          /\ -1 <= gateway'.sequence /\ gateway'.sequence <= worker.applied
      BY <2>1, <3>1, SequenceBound, SMTT(20)
    <3> QED BY <1>2, <2>3, <3>1, <3>2, <3>3, <3>4, QuietStep
  <2>4. CASE NewSession(FALSE)
    <3>1. worker' = [worker EXCEPT !.phase = "persist", !.pos = Now, !.applied = Now, !.resumable = 0]
      BY <2>4 DEF NewSession
    <3>2. /\ worker' \in Workers /\ worker'.phase = "persist" /\ worker'.pos = Now
          /\ worker'.applied = Now /\ worker'.todo = {} /\ worker'.fetched = NoFetch
      <4>1. Now \in Int /\ Now \in Nat
        BY <1>0, SMTT(20)
      <4> QED BY <1>0, <1>3, <3>1, <4>1, NewWorker
    <3>3. worker'.phase \notin Draining \cup {"drain"}
      BY <3>2 DEF Draining
    <3>4. -1 <= gateway'.sequence /\ gateway'.sequence <= Now
      <4>1. /\ worker.applied \in Nat /\ worker.pos \in Int /\ 0 <= worker.pos
            /\ worker.pos <= worker.applied /\ worker.applied <= Len(log)
        BY SequenceBound
      <4>2. gateway'.sequence = worker.pos /\ Now = Len(log) /\ Len(log) \in Nat
        BY <1>0, <2>1
      <4> QED BY ONLY <4>1, <4>2, SMTT(20)
    <3> QED BY <1>2, <2>1, <2>2, <2>4, <3>2, <3>3, <3>4, SessionInv DEF NewSession
  <2> QED BY <1>5, <2>3, <2>4
<1> QED BY <1>4, <1>5 DEF ShardReconnects

\* A step of a drain that only the worker remembers.
LEMMA DrainStep ==
  ASSUME IndInv, UNCHANGED <<provider, settings, inbox, history>>, disturbances' \in Nat,
         worker' \in Workers, worker'.pos = worker.pos, worker'.applied = worker.applied,
         FetchInv'
  PROVE  IndInv'
<1>0. UNCHANGED <<discord, log, rows, receipts, gateway, excused, removed, lag>>
  BY DEF provider, inbox, settings, history
<1>1. LogInv' /\ MessageInv'
  BY LogFrame DEF IndInv
<1>2. ReceiptInv' /\ \A i : Waiting(i) => Waiting(i)'
  BY <1>0, ReceiptFrame
<1>3. RemovedInv' /\ TextInv' /\ BuriedInv' /\ MirrorInv'
  BY <1>0, <1>2, RowsFrame
<1>4. PositionInv'
  BY <1>0 DEF IndInv, PositionInv
<1>5. TypeOK'
  BY DEF IndInv, TypeOK, ProviderType, SettingsType, InboxType, HistoryType, provider, settings,
     inbox, history
<1> QED BY <1>1, <1>2, <1>3, <1>4, <1>5 DEF IndInv

\* The pending ticker picks up the receipts that wait.
LEMMA PendingTickInv ==
  ASSUME IndInv, PendingTick
  PROVE  IndInv'
<1>0. worker \in Workers /\ disturbances \in Nat
  BY DEF IndInv, TypeOK, HistoryType
<1>1. /\ UNCHANGED <<provider, settings, inbox, history, disturbances>> /\ worker.phase = "idle"
      /\ worker' = [worker EXCEPT !.phase = "drain", !.todo = PendingUpdates(receipts)]
  BY DEF PendingTick, At
<1>2. \A i \in PendingUpdates(receipts) : Waiting(i)
  BY DEF PendingUpdates, Waiting
<1>3. PendingUpdates(receipts) \in SUBSET Nat
  BY SequenceBound, SMTT(20) DEF PendingUpdates, IndInv, PositionInv
<1>4. /\ worker' \in Workers /\ worker'.pos = worker.pos /\ worker'.applied = worker.applied
      /\ worker'.phase = "drain" /\ worker'.todo = PendingUpdates(receipts)
      /\ worker'.fetched = worker.fetched
  BY <1>0, <1>1, <1>3 DEF Workers
<1>5. worker.fetched = NoFetch
  BY <1>1, NotDraining DEF Draining
<1>6. \A i : Waiting(i)' <=> Waiting(i)
  BY <1>1 DEF Waiting, inbox
<1>7. FetchInv'
  BY <1>2, <1>4, <1>5, <1>6 DEF FetchInv, Draining
<1> QED BY <1>0, <1>1, <1>4, <1>7, DrainStep

\* The worker that goes on with the next receipt has nothing fetched.
LEMMA FinishedFetch ==
  ASSUME IndInv, NEW i, worker' = Finished(i), \A j \in worker.todo \ {i} : Waiting(j)'
  PROVE  FetchInv'
<1>1. worker \in Workers
  BY DEF IndInv, TypeOK
<1>2. /\ worker'.todo = worker.todo \ {i} /\ worker'.fetched = NoFetch
      /\ worker'.phase \in {"drain", "idle", "persist"}
      /\ worker'.phase # "drain" => worker'.todo = {}
  BY <1>1, FinishedType
<1> QED BY <1>2 DEF FetchInv, Draining

\* authorization_for decides whether the next receipt is fetched.
LEMMA AuthorizeInv ==
  ASSUME IndInv, Authorize
  PROVE  IndInv'
<1>0. worker \in Workers /\ disturbances \in Nat /\ worker.fetched = NoFetch
  BY DEF IndInv, TypeOK, HistoryType, FetchInv, Authorize, At
<1>1. UNCHANGED <<provider, settings, inbox, history>> /\ disturbances' \in Nat
  BY <1>0, SMTT(20) DEF Authorize, Fails, Disturbance
<1>6. \A j : Waiting(j)' <=> Waiting(j)
  <2>1. receipts' = receipts
    BY <1>1 DEF inbox
  <2> QED BY <2>1 DEF Waiting
<1>2. \A j \in worker.todo : Waiting(j) /\ j \in Nat
  <2>1. worker.todo \in SUBSET Nat
    BY <1>0 DEF Workers
  <2> QED BY <2>1 DEF IndInv, FetchInv
<1>3. PICK i \in worker.todo :
        \/ \E p \in {"fetch", "apply"} : worker' = [worker EXCEPT !.phase = p, !.item = i]
        \/ worker' = Finished(i)
  BY DEF Authorize
<1>4. ASSUME NEW p \in {"fetch", "apply"}, worker' = [worker EXCEPT !.phase = p, !.item = i]
      PROVE  IndInv'
  <2>0. i \in Nat
    BY <1>2
  <2>1. /\ worker' \in Workers /\ worker'.pos = worker.pos /\ worker'.applied = worker.applied
        /\ worker'.phase = p /\ worker'.todo = worker.todo /\ worker'.item = i
        /\ worker'.fetched = worker.fetched
    BY <1>0, <1>4, <2>0 DEF Workers, Draining
  <2>2. FetchInv'
    BY <1>0, <1>2, <1>6, <2>1, SMTT(20) DEF FetchInv, Draining, NoFetch
  <2> QED BY <1>1, <2>1, <2>2, DrainStep
<1>5. CASE worker' = Finished(i)
  <2>1. /\ worker' \in Workers /\ worker'.pos = worker.pos /\ worker'.applied = worker.applied
    BY <1>0, <1>5, FinishedType
  <2>2. FetchInv'
    BY <1>2, <1>5, <1>6, FinishedFetch
  <2> QED BY <1>1, <2>1, <2>2, DrainStep
<1> QED BY <1>3, <1>4, <1>5

\* A fetch answers with a text that is not older than the event, or with none.
LEMMA FetchMessageInv ==
  ASSUME IndInv, FetchMessage
  PROVE  IndInv'
<1> DEFINE i == worker.item
           m == log[i].message
<1>0. /\ worker \in Workers /\ disturbances \in Nat /\ worker.fetched = NoFetch
      /\ worker.phase = "fetch" /\ i \in worker.todo /\ \A j \in worker.todo : Waiting(j)
      /\ UNCHANGED <<provider, settings, inbox, history, disturbances>>
  BY DEF IndInv, TypeOK, HistoryType, FetchInv, FetchMessage, At, Draining
<1>1. \A j : Waiting(j)' <=> Waiting(j)
  BY <1>0 DEF Waiting, inbox
<1>2. /\ i \in Positions /\ log[i].version = i /\ log[i].kind = "update" /\ DOMAIN log = Positions
      /\ log' = log /\ discord' = discord /\ \A k \in Positions : log[k] \in Events
  <2>1. /\ DOMAIN log = Positions /\ \A k \in Positions : log[k] \in Events
        /\ log' = log /\ discord' = discord
    BY <1>0, LogTypes DEF IndInv, TypeOK, provider
  <2>2. i \in DOMAIN receipts /\ log[i].kind = "update"
    BY <1>0 DEF Waiting, IndInv, ReceiptInv
  <2>3. /\ DOMAIN receipts \subseteq 1..worker.applied /\ worker.applied \in Nat
        /\ worker.applied <= Len(log) /\ Len(log) \in Nat
    BY SequenceBound, LogTypes DEF IndInv, PositionInv, TypeOK
  <2>4. 1..worker.applied \subseteq Positions
    BY ONLY <2>3, SMTT(20) DEF Positions
  <2>5. i \in Positions
    BY <2>2, <2>3, <2>4
  <2>6. \A k \in Positions : log[k].version = k
    BY DEF IndInv, LogInv
  <2>7. log[i].version = i
    BY ONLY <2>5, <2>6, ZenonT(30)
  <2> QED BY ONLY <2>1, <2>2, <2>5, <2>7, ZenonT(30)
<1>3. ASSUME NEW found \in Texts(m, log[i].version),
             worker' = [worker EXCEPT !.phase = "apply",
                          !.fetched = [result |-> "found", version |-> found.version,
                                       text |-> found.text]]
      PROVE  IndInv'
  <2>1. PICK k \in Positions : /\ found = log[k] /\ log[k].message = m /\ log[k].version >= i
                               /\ log[k].kind \in {"create", "update"}
    BY <1>2 DEF Texts
  <2>2. log[k].version = k /\ log[k] \in Events
    BY <1>2 DEF IndInv, LogInv
  <2>3. found.version = k /\ k \in Nat /\ found.text \in BOOLEAN
    BY <2>1, <2>2 DEF Events, Positions
  <2>4. /\ worker' \in Workers /\ worker'.pos = worker.pos /\ worker'.applied = worker.applied
        /\ worker'.phase = "apply" /\ worker'.todo = worker.todo /\ worker'.item = i
        /\ worker'.fetched.version = k
    BY <1>0, <1>3, <2>3 DEF Workers, Draining
  <2>5. i <= k /\ IsText(k, m)'
    BY <1>2, <2>1, <2>2, <2>4 DEF IsText, Positions
  <2>6. FetchInv'
    BY <1>0, <1>1, <1>2, <2>4, <2>5 DEF FetchInv, Draining
  <2> QED BY <1>0, <2>4, <2>6, DrainStep
<1>4. ASSUME NEW r \in {"missing", "retryable"},
             worker' = [worker EXCEPT !.phase = "settle", !.fetched.result = r],
             r = "missing" => discord[m].state = "deleted"
      PROVE  IndInv'
  <2>1. /\ worker' \in Workers /\ worker'.pos = worker.pos /\ worker'.applied = worker.applied
        /\ worker'.phase = "settle" /\ worker'.todo = worker.todo /\ worker'.item = i
        /\ worker'.fetched.result = r
    BY <1>0, <1>4 DEF Workers, Draining
  <2>2. FetchInv'
    BY <1>0, <1>1, <1>2, <1>4, <2>1 DEF FetchInv, Draining
  <2> QED BY <1>0, <2>1, <2>2, DrainStep
<1> QED BY <1>3, <1>4 DEF FetchMessage

-----------------------------------------------------------------------------
(* One inbound event *)

\* An event as the transaction gets it, for position i of the log.
EventAt(i, e) ==
  /\ i \in Positions /\ e \in InboundEvents
  /\ e.message = log[i].message /\ e.kind = log[i].kind
  /\ e.kind # "thread" => e.message \in Messages
  /\ e.kind = "create" => e.version = i
  /\ e.kind = "update" /\ e.content => i <= e.version /\ IsText(e.version, e.message)
  /\ e.kind = "delete" => e.version <= Len(log)

\* What apply_in_transaction does to the tables.
LEMMA ApplyFacts ==
  ASSUME IndInv, NEW i, NEW e, EventAt(i, e), ApplyInTransaction(i, e)
  PROVE  /\ \A m \in Messages : m # e.message => rows'[m] = rows[m]
         /\ EventExists(i) \/ Process(e) # "applied" => rows' = rows
         /\ ~EventExists(i) /\ Process(e) = "applied" => rows'[e.message] = Stored(e)
         /\ EventExists(i) => receipts' = receipts /\ excused' = excused
         /\ ~EventExists(i) =>
              /\ DOMAIN receipts' = DOMAIN receipts \cup {i}
              /\ receipts'[i].message = e.message
              /\ Waiting(i)' <=> Process(e) = "needs_fetch"
              /\ Drops(e, Process(e)) => e.message \in excused'
         /\ \A j \in DOMAIN receipts \ {i} : receipts'[j] = receipts[j]
         /\ \A j : j # i => (Waiting(j)' <=> Waiting(j))
<1>0. InboxType /\ e \in InboundEvents /\ (e.kind # "thread" => e.message \in Messages)
  BY DEF IndInv, TypeOK, EventAt
<1>1. CASE EventExists(i)
  <2>1. UNCHANGED <<rows, receipts, excused>>
    BY <1>1 DEF ApplyInTransaction, inbox
  <2> QED BY <1>1, <2>1 DEF Waiting
<1>2. CASE ~EventExists(i)
  <2> DEFINE result == Process(e)
  <2>1. /\ rows' = IF result = "applied" THEN [rows EXCEPT ![e.message] = Stored(e)] ELSE rows
        /\ receipts' = WithReceipt(i, Receipt(i, e, result))
        /\ excused' = IF Drops(e, result) THEN excused \cup {e.message} ELSE excused
    BY <1>2 DEF ApplyInTransaction
  <2>2. result = "applied" => e.message \in Messages
    BY <1>0, AppliedMeans
  <2>3. rows \in [Messages -> Rows]
    BY <1>0 DEF InboxType
  <2> HIDE DEF result
  <2>4. /\ \A m \in Messages : m # e.message => rows'[m] = rows[m]
        /\ result # "applied" => rows' = rows
        /\ result = "applied" => rows'[e.message] = Stored(e)
    BY <2>1, <2>2, <2>3
  <2>5. /\ DOMAIN receipts' = DOMAIN receipts \cup {i}
        /\ receipts'[i] = Receipt(i, e, result)
        /\ \A j \in DOMAIN receipts \ {i} : receipts'[j] = receipts[j]
    BY <1>0, <2>1, ReceiptType, WithReceiptType
  <2>6. /\ receipts'[i].message = e.message
        /\ receipts'[i].result = "needs_fetch" <=> result = "needs_fetch"
    BY <1>0, <2>5, ReceiptType, SMTT(20)
  <2>7. Waiting(i)' <=> result = "needs_fetch"
    BY <2>5, <2>6 DEF Waiting
  <2>8. \A j : j # i => (Waiting(j)' <=> Waiting(j))
    BY <2>5 DEF Waiting
  <2>9. Drops(e, result) => e.message \in excused'
    BY <2>1
  <2> QED BY <1>2, <2>4, <2>5, <2>6, <2>7, <2>8, <2>9 DEF result
<1> QED BY <1>1, <1>2

\* The fields of a row that an event was applied to.
LEMMA StoredFields ==
  ASSUME InboxType, NEW e \in InboundEvents, e.message \in Messages,
         Process(e) = "applied"
  PROVE  /\ Stored(e).state = "present" /\ Stored(e).version = e.version
         /\ Stored(e).body = IF e.kind = "delete" THEN Tombstone ELSE e.version
<1>1. /\ rows[e.message] \in Rows /\ e.kind \in {"create", "update", "delete"}
      /\ e.kind # "create" => rows[e.message].state = "present"
  BY AppliedMeans DEF InboxType, InboundEvents
<1>2. CASE e.kind = "create"
  BY <1>2 DEF Stored
<1>3. CASE e.kind = "update"
  <2>1. Stored(e) = [rows[e.message] EXCEPT !.version = e.version, !.body = e.version]
    BY <1>3 DEF Stored
  <2> QED BY <1>1, <1>3, <2>1 DEF Rows
<1>4. CASE e.kind = "delete"
  <2>1. Stored(e) = [rows[e.message] EXCEPT !.version = e.version, !.body = Tombstone]
    BY <1>4 DEF Stored
  <2> QED BY <1>1, <1>4, <2>1 DEF Rows
<1> QED BY <1>1, <1>2, <1>3, <1>4

\* The invariants of the rows after one event.
LEMMA ApplyRows ==
  ASSUME IndInv, NEW i, NEW e, EventAt(i, e), ApplyInTransaction(i, e),
         UNCHANGED <<provider, removed>>, excused \subseteq excused',
         lag' \in Nat, lag <= lag', e.kind = "delete" /\ lag' = 0 => e.version = Len(log)
  PROVE  RemovedInv' /\ TextInv' /\ BuriedInv'
<1>0. /\ InboxType /\ ProviderType /\ lag \in Nat /\ UNCHANGED <<discord, log, removed>>
      /\ Len(log) \in Nat
  BY LogTypes DEF IndInv, TypeOK, HistoryType, provider
<1>1. SUFFICES ASSUME NEW m \in Messages
               PROVE  /\ m \in removed' <=> rows'[m].state = "moderated"
                      /\ rows'[m].state = "present" /\ rows'[m].body # Tombstone =>
                           rows'[m].body = rows'[m].version /\ IsText(rows'[m].version, m)
                      /\ (lag' = 0 \/ m \notin excused') /\ rows'[m].state = "present"
                           /\ rows'[m].body = Tombstone => Buried(m)'
  BY <1>0 DEF RemovedInv, TextInv, BuriedInv, IsText, Positions
<1>2. CASE rows'[m] = rows[m]
  <2>1. m \in removed <=> rows[m].state = "moderated"
    BY DEF IndInv, RemovedInv
  <2>2. rows[m].state = "present" /\ rows[m].body # Tombstone =>
          rows[m].body = rows[m].version /\ IsText(rows[m].version, m)
    BY DEF IndInv, TextInv
  <2>3. lag' = 0 => lag = 0
    BY <1>0, SMTT(20)
  <2>4. (lag' = 0 \/ m \notin excused') /\ rows[m].state = "present" /\ rows[m].body = Tombstone
          => Buried(m)
    BY <2>3 DEF IndInv, BuriedInv
  <2>5. Buried(m) => Buried(m)'
    BY <1>0, <1>2 DEF Buried, IsText, Positions
  <2> QED BY <1>0, <1>2, <2>1, <2>2, <2>4, <2>5
<1>3. CASE rows'[m] # rows[m]
  <2>1. /\ m = e.message /\ ~EventExists(i) /\ Process(e) = "applied"
        /\ rows'[m] = Stored(e)
    BY <1>3, ApplyFacts
  <2>2. /\ rows'[m].state = "present" /\ rows'[m].version = e.version
        /\ rows'[m].body = IF e.kind = "delete" THEN Tombstone ELSE e.version
    BY <1>0, <2>1, StoredFields DEF EventAt
  <2>3. /\ rows[m].state # "moderated" /\ e.kind # "thread"
        /\ e.kind = "update" => e.content
    BY <1>0, <2>1, AppliedMeans DEF EventAt
  <2>4. m \in removed' <=> rows'[m].state = "moderated"
    BY <1>0, <2>2, <2>3 DEF IndInv, RemovedInv
  <2>5. e.kind # "delete" => IsText(e.version, m)
    BY <2>1, <2>3 DEF EventAt, IsText, InboundEvents
  <2>6. ASSUME e.kind = "delete", lag' = 0 \/ m \notin excused'
        PROVE  Buried(m)'
    <3>1. discord[m].state = "deleted"
      <4>1. i \in Positions /\ log[i].message = m /\ log[i].kind = "delete"
        BY <2>1, <2>6 DEF EventAt
      <4> QED BY <4>1 DEF IndInv, MessageInv
    <3>2. \A j \in Positions : IsText(j, m) => j <= e.version
      <4>1. CASE lag' = 0
        BY <1>0, <2>6, <4>1, SMTT(20) DEF Positions
      <4>2. CASE m \notin excused'
        <5>1. ~Backdated(e)
          BY <2>1, <2>6, <4>2, ApplyFacts DEF Drops
        <5>2. \A j \in Positions : j \in DOMAIN log /\ log[j].version = j
          BY <1>0, LogTypes, SMTT(20) DEF IndInv, LogInv
        <5>3. e.version \in Int
          BY DEF EventAt, InboundEvents
        <5> QED BY ONLY <2>1, <5>1, <5>2, <5>3, SMTT(20) DEF Backdated, IsText, Positions
      <4> QED BY <2>6, <4>1, <4>2
    <3> QED BY <1>0, <2>2, <3>1, <3>2 DEF Buried, IsText, Positions
  <2>7. e.kind # "delete" => rows'[m].body # Tombstone
    <3>1. e.kind # "delete" => e.version >= 1
      BY <2>5, SMTT(20) DEF IsText, Positions
    <3> QED BY <2>2, <3>1, SMTT(20)
  <2> QED BY <2>2, <2>4, <2>5, <2>6, <2>7
<1> QED BY <1>2, <1>3

\* The mirror of the messages that the event at position i is not about.
LEMMA MirrorOther ==
  ASSUME IndInv, NEW i \in Positions, UNCHANGED <<provider, removed>>,
         excused \subseteq excused', worker'.applied \in Nat,
         \/ worker'.applied = worker.applied
         \/ worker'.applied = worker.applied + 1 /\ i = worker.applied + 1,
         \A j : j # i => (Waiting(j)' <=> Waiting(j)),
         NEW m \in Messages \ (excused' \cup removed'), m # log[i].message, rows'[m] = rows[m]
  PROVE  Mirrored(m)'
<1>0. UNCHANGED <<discord, log>> /\ worker.applied \in Nat
  BY SequenceBound DEF provider
<1>1. Mirrored(m)
  BY DEF IndInv, MirrorInv
<1>2. \A j \in 1..worker'.applied : log[j].message = m => j \in 1..worker.applied /\ j # i
  BY <1>0, SMTT(20)
<1>3. \A j \in 1..worker.applied : j \in 1..worker'.applied
  BY <1>0, SMTT(20)
<1> QED BY <1>0, <1>1, <1>2, <1>3 DEF Mirrored

\* The mirror of a message after an event that leaves its row alone.
LEMMA MirrorKept ==
  ASSUME IndInv, NEW i \in Positions, UNCHANGED <<provider, removed>>,
         excused \subseteq excused', worker'.applied \in Nat,
         \/ worker'.applied = worker.applied /\ i <= worker.applied
         \/ worker'.applied = worker.applied + 1 /\ i = worker.applied + 1,
         \A j : j # i => (Waiting(j)' <=> Waiting(j)),
         NEW m \in Messages \ (excused' \cup removed'), m = log[i].message, rows'[m] = rows[m],
         rows[m].state # "none",
         log[i].kind = "delete" => rows[m].body = Tombstone,
         \/ rows[m].body = Tombstone \/ i <= rows[m].version
         \/ Waiting(i)' \/ discord[m].state = "deleted"
  PROVE  Mirrored(m)'
<1>0. UNCHANGED <<discord, log>> /\ worker.applied \in Nat
  BY SequenceBound DEF provider
<1>1. Mirrored(m)
  BY DEF IndInv, MirrorInv
<1>p. /\ \/ worker'.applied = worker.applied /\ i <= worker.applied
         \/ worker'.applied = worker.applied + 1 /\ i = worker.applied + 1
      /\ i \in Positions
  OBVIOUS
<1>2. \A j \in 1..worker'.applied : j = i \/ j \in 1..worker.applied
  BY ONLY <1>0, <1>p, SMTT(20)
<1>3. i \in 1..worker'.applied
  BY ONLY <1>0, <1>p, SMTT(20) DEF Positions
<1> QED BY <1>0, <1>1, <1>2, <1>3 DEF Mirrored

\* The mirror of a message after an event that was applied to its row.
LEMMA MirrorApplied ==
  ASSUME IndInv, InboxType', NEW i \in Positions, UNCHANGED <<provider, removed>>,
         excused \subseteq excused', worker'.applied \in Nat,
         \/ worker'.applied = worker.applied /\ i <= worker.applied
         \/ worker'.applied = worker.applied + 1 /\ i = worker.applied + 1,
         \A j : j # i => (Waiting(j)' <=> Waiting(j)),
         NEW m \in Messages \ (excused' \cup removed'), m = log[i].message,
         rows'[m].state # "none",
         log[i].kind = "delete" => rows'[m].body = Tombstone,
         \A j \in 1..worker.applied : log[j].message = m =>
           rows'[m].body = Tombstone \/ (log[j].kind # "delete" /\ rows[m].body # Tombstone),
         rows'[m].body = Tombstone \/ i <= rows'[m].version,
         rows'[m].body = Tombstone \/ rows[m].version <= rows'[m].version
           \/ \A j \in 1..worker.applied : log[j].message # m
  PROVE  Mirrored(m)'
<1>0. UNCHANGED <<discord, log>> /\ worker.applied \in Nat
  BY SequenceBound DEF provider
<1>1. Mirrored(m)
  BY DEF IndInv, MirrorInv
<1>2. \A j \in 1..worker'.applied : j = i \/ (j # i /\ j \in 1..worker.applied)
  BY <1>0, SMTT(20)
<1>3. i \in 1..worker'.applied
  BY <1>0, SMTT(20) DEF Positions
<1>4. rows'[m].state # "none" /\ \E j \in 1..worker'.applied : log'[j].message = m
  BY <1>0, <1>3
<1>5. ASSUME NEW j \in 1..worker'.applied, log'[j].message = m
      PROVE  /\ log'[j].kind = "delete" => rows'[m].body = Tombstone
             /\ \/ rows'[m].body = Tombstone \/ j <= rows'[m].version
                \/ Waiting(j)' \/ discord'[m].state = "deleted"
  <2>1. CASE j = i
    BY <1>0, <2>1
  <2>2. CASE j # i
    <3>1. j \in 1..worker.applied /\ log[j].message = m /\ j \in Int
      BY <1>0, <1>2, <1>5, <2>2, SMTT(20)
    <3>2. \/ rows[m].body = Tombstone \/ j <= rows[m].version
          \/ Waiting(j) \/ discord[m].state = "deleted"
      BY <1>1, <3>1 DEF Mirrored
    <3>3. rows[m].version \in Int
      BY DEF IndInv, TypeOK, InboxType, Rows
    <3>4. CASE rows'[m].body = Tombstone
      BY <3>4
    <3>5. CASE rows'[m].body # Tombstone
      <4>1. log[j].kind # "delete" /\ rows[m].body # Tombstone /\ rows[m].version <= rows'[m].version
        BY <3>1, <3>5
      <4>2. CASE j <= rows[m].version
        <5>1. rows'[m].version \in Int
          BY DEF InboxType, Rows
        <5>2. j <= rows'[m].version
          BY <3>1, <3>3, <4>1, <4>2, <5>1, SMTT(20)
        <5> QED BY <1>0, <4>1, <5>2
      <4>3. CASE Waiting(j) \/ discord[m].state = "deleted"
        BY <1>0, <2>2, <4>1, <4>3
      <4> QED BY <3>2, <4>1, <4>2, <4>3
    <3> QED BY <3>4, <3>5
  <2> QED BY <2>1, <2>2
<1> QED BY <1>4, <1>5 DEF Mirrored

\* The mirror after one event, at the next position or at one that was applied before.
LEMMA ApplyMirror ==
  ASSUME IndInv, InboxType', NEW i, NEW e, EventAt(i, e), ApplyInTransaction(i, e),
         UNCHANGED <<provider, removed>>, excused \subseteq excused', worker'.applied \in Nat,
         \/ worker'.applied = worker.applied /\ i <= worker.applied
         \/ worker'.applied = worker.applied + 1 /\ i = worker.applied + 1,
         e.kind = "update" /\ e.content => i <= worker.applied
  PROVE  MirrorInv'
<1>0. /\ i \in Positions /\ i \in Int /\ i >= 1 /\ e.message = log[i].message /\ e.kind = log[i].kind
      /\ e \in InboundEvents /\ e.version \in Int /\ worker.applied \in Nat /\ Len(log) \in Nat
      /\ Now = Len(log) /\ InboxType
  BY SequenceBound, LogTypes, SMTT(20) DEF IndInv, TypeOK, EventAt, Positions, InboundEvents, Now
<1>w. \A j : j # i => (Waiting(j)' <=> Waiting(j))
  BY ApplyFacts
<1> SUFFICES ASSUME NEW m \in Messages \ (excused' \cup removed') PROVE Mirrored(m)'
  BY DEF MirrorInv
<1>1. CASE m # e.message
  <2>1. rows'[m] = rows[m] /\ m # log[i].message
    BY <1>0, <1>1, ApplyFacts
  <2> QED BY <1>0, <1>w, <2>1, MirrorOther
<1>2. CASE m = e.message
  <2>0. /\ Mirrored(m) /\ m \notin excused /\ m \notin removed /\ m # NoMessage
        /\ m = log[i].message
    BY <1>0, <1>2 DEF IndInv, MirrorInv
  <2>r. /\ rows[m] \in Rows /\ rows[m].version \in Int /\ rows[m].state \in {"none", "present"}
        /\ rows[m].state # "moderated"
    BY <1>0, <2>0 DEF InboxType, Rows, IndInv, RemovedInv
  <2>i. i <= worker.applied => i \in 1..worker.applied
    BY ONLY <1>0, SMTT(20)
  <2>n. i <= worker.applied => rows[m].state # "none"
    BY <2>0, <2>i DEF Mirrored
  <2>o. i <= worker.applied =>
          /\ log[i].kind = "delete" => rows[m].body = Tombstone
          /\ \/ rows[m].body = Tombstone \/ i <= rows[m].version
             \/ Waiting(i) \/ discord[m].state = "deleted"
    BY <2>0, <2>i DEF Mirrored
  <2>c. log[i].kind # "create" => rows[m].state # "none"
    <3> SUFFICES ASSUME log[i].kind # "create" PROVE rows[m].state # "none"
      OBVIOUS
    <3>1. PICK j \in 1..i : log[j].message = m /\ log[j].kind = "create"
      <4>1. \A k \in Positions : log[k].message # NoMessage =>
              \E j \in 1..k : log[j].message = log[k].message /\ log[j].kind = "create"
        BY DEF IndInv, LogInv
      <4>2. i \in Positions /\ log[i].message # NoMessage /\ m = log[i].message
        BY <1>0, <2>0
      <4> QED BY ONLY <4>1, <4>2, ZenonT(30)
    <3>2. j \in 1..worker.applied
      <4>1. j # i /\ (i <= worker.applied \/ i = worker.applied + 1)
        BY <3>1
      <4> QED BY ONLY <1>0, <3>1, <4>1, SMTT(20)
    <3> QED BY <2>0, <3>1, <3>2 DEF Mirrored
  <2>1. CASE EventExists(i)
    <3>0. i \in 1..worker.applied
      BY <2>1 DEF EventExists, IndInv, PositionInv
    <3>a. rows' = rows /\ receipts' = receipts
      BY <2>1, ApplyFacts
    <3>1. rows' = rows /\ receipts' = receipts /\ i <= worker.applied
      BY <1>0, <3>0, <3>a, SMTT(20)
    <3>2. Waiting(i)' <=> Waiting(i)
      BY <3>1 DEF Waiting
    <3> QED BY <1>0, <1>w, <2>0, <2>n, <2>o, <3>1, <3>2, MirrorKept
  <2>2. CASE ~EventExists(i)
    <3>1. /\ Waiting(i)' <=> Process(e) = "needs_fetch"
          /\ ~Drops(e, Process(e))
          /\ Process(e) # "applied" => rows' = rows
          /\ Process(e) = "applied" => rows'[m] = Stored(e)
      BY <1>2, <2>2, ApplyFacts
    <3>2. e.kind \in {"create", "update", "delete"}
      BY <1>0, <2>0, SMTT(20) DEF IndInv, LogInv, InboundEvents
    <3>3. ~Moderated(e) /\ Authorized
      BY <1>2, <2>r, <3>1 DEF Moderated, Drops, Process
    <3>4. CASE e.kind = "create"
      <4>1. Process(e) = Create(e) /\ e.text
        BY <3>1, <3>3, <3>4 DEF Process, Drops, Create
      <4>2. CASE i <= worker.applied
        <5>1. Process(e) # "applied" /\ rows' = rows
          BY <1>2, <2>n, <2>r, <3>1, <4>1, <4>2 DEF Create
        <5>2. ~Waiting(i)
          BY <1>0, <3>4 DEF IndInv, ReceiptInv, Waiting
        <5> QED BY <1>0, <1>w, <2>0, <2>n, <2>o, <4>2, <5>1, <5>2, MirrorKept
      <4>3. CASE i = worker.applied + 1
        <5>1. \A j \in 1..worker.applied : log[j].message # m
          <6> SUFFICES ASSUME NEW j \in 1..worker.applied, log[j].message = m PROVE FALSE
            OBVIOUS
          <6>1. j \in Positions
            BY <1>0, SequenceBound, SMTT(20) DEF Positions
          <6>2. i <= j
            BY <1>0, <2>0, <3>4, <6>1 DEF IndInv, LogInv
          <6> QED BY <1>0, <4>3, <6>2, SMTT(20)
        <5>2. rows[m].state = "none"
          BY <2>0, <2>r, <5>1 DEF Mirrored
        <5>3. Process(e) = "applied"
          BY <1>2, <4>1, <5>2 DEF Create
        <5>4. rows'[m].state = "present" /\ rows'[m].version = i
          BY <1>0, <1>2, <3>1, <3>4, <5>3, StoredFields DEF EventAt
        <5>5. log[i].kind # "delete" /\ rows'[m].state # "none" /\ i <= rows'[m].version
          BY <1>0, <3>4, <5>4, SMTT(20)
        <5> QED BY <1>0, <1>w, <2>0, <5>1, <5>5, MirrorApplied
      <4> QED BY <4>2, <4>3
    <3>5. CASE e.kind = "update" /\ ~e.content
      <4>1. Process(e) = "needs_fetch"
        BY <3>3, <3>5 DEF Process, Update
      <4>2. rows' = rows /\ Waiting(i)'
        BY <3>1, <4>1
      <4> QED BY <1>0, <1>w, <2>0, <2>c, <3>5, <4>2, MirrorKept
    <3>6. CASE e.kind = "update" /\ e.content
      <4>0. i <= worker.applied /\ i <= e.version /\ IsText(e.version, m) /\ rows[m].state = "present"
        BY <1>2, <2>n, <2>r, <3>6 DEF EventAt
      <4>1. Process(e) \in {"stale", "applied"} /\ (Process(e) = "stale" <=> e.version <= rows[m].version)
        BY <1>2, <3>1, <3>3, <3>6, <4>0 DEF Process, Update, Drops, NotNewer
      <4>2. CASE Process(e) = "stale"
        <5>1. rows' = rows /\ i <= rows[m].version
          <6>1. rows' = rows /\ e.version <= rows[m].version /\ i <= e.version
            BY <3>1, <4>0, <4>1, <4>2
          <6> QED BY ONLY <1>0, <2>r, <6>1, SMTT(20)
        <5> QED BY <1>0, <1>w, <2>0, <2>n, <3>6, <4>0, <5>1, MirrorKept
      <4>3. CASE Process(e) = "applied"
        <5>1. rows[m].body # Tombstone
          <6> SUFFICES ASSUME rows[m].body = Tombstone PROVE FALSE
            OBVIOUS
          <6>1. Buried(m)
            BY <2>0, <4>0 DEF IndInv, BuriedInv
          <6>2. e.version <= rows[m].version
            BY <4>0, <6>1 DEF Buried, IsText
          <6> QED BY <4>1, <4>3, <6>2
        <5>2. rows'[m].state = "present" /\ rows'[m].version = e.version
          BY <1>0, <1>2, <3>1, <3>6, <4>3, StoredFields
        <5>3. rows[m].version <= rows'[m].version
          BY <1>0, <2>r, <4>1, <4>3, <5>2, SMTT(20)
        <5>4. \A j \in 1..worker.applied : log[j].message = m => log[j].kind # "delete"
          BY <2>0, <5>1 DEF Mirrored
        <5> QED BY <1>0, <1>w, <2>0, <3>6, <4>0, <5>1, <5>2, <5>3, <5>4, MirrorApplied
      <4> QED BY <4>1, <4>2, <4>3
    <3>7. CASE e.kind = "delete"
      <4>0. rows[m].state = "present"
        BY <1>0, <2>c, <2>r, <3>7
      <4>1. Process(e) \in {"stale", "applied"} /\ (Process(e) = "stale" <=> e.version <= rows[m].version)
        BY <1>2, <3>1, <3>3, <3>7, <4>0 DEF Process, Delete, NotNewer
      <4>2. CASE Process(e) = "stale"
        <5>1. e.version = Len(log)
          BY <1>0, <3>1, <3>7, <4>2, SMTT(20) DEF Drops, EventAt
        <5>2. rows[m].body = Tombstone
          <6> SUFFICES ASSUME rows[m].body # Tombstone PROVE FALSE
            OBVIOUS
          <6>1. IsText(rows[m].version, m)
            BY <4>0 DEF IndInv, TextInv
          <6>2. rows[m].version = Len(log) /\ Len(log) \in Positions
            BY ONLY <1>0, <2>r, <4>1, <4>2, <5>1, <6>1, SMTT(20) DEF IsText, Positions
          <6>3. Len(log) <= i
            <7>1. log[Len(log)].message = log[i].message
              BY <2>0, <6>1, <6>2 DEF IsText
            <7>2. log[i].kind = "delete" /\ i \in Positions /\ Len(log) \in Positions
              BY <1>0, <3>7, <6>2
            <7> QED BY <7>1, <7>2 DEF IndInv, LogInv
          <6>4. i = Len(log)
            BY <1>0, <6>3, SMTT(20) DEF Positions
          <6> QED BY <1>0, <3>7, <6>1, <6>2, <6>4 DEF IsText
        <5>3. rows' = rows
          BY <3>1, <4>2
        <5> QED BY <1>0, <1>w, <2>0, <4>0, <5>2, <5>3, MirrorKept
      <4>3. CASE Process(e) = "applied"
        <5>1. rows'[m].state = "present" /\ rows'[m].body = Tombstone
          BY <1>0, <1>2, <3>1, <3>7, <4>3, StoredFields
        <5> QED BY <1>0, <1>w, <2>0, <5>1, MirrorApplied
      <4> QED BY <4>1, <4>2, <4>3
    <3> QED BY <3>2, <3>4, <3>5, <3>6, <3>7
  <2> QED BY <2>1, <2>2
<1> QED BY <1>1, <1>2

\* The invariant after one event, for whatever the worker does next.
LEMMA ApplyStep ==
  ASSUME IndInv, NEW i, NEW e, EventAt(i, e), ApplyInTransaction(i, e),
         UNCHANGED <<provider, gateway, credential, removed, missed>>, disturbances' \in Nat,
         lag' \in Nat, lag <= lag', e.kind = "delete" /\ lag' = 0 => e.version = Len(log),
         e.kind = "update" /\ e.content => i <= worker.applied,
         worker' \in Workers, 0 <= worker'.pos, worker'.pos <= worker'.applied, FetchInv',
         \/ worker'.applied = worker.applied /\ i <= worker.applied
         \/ worker'.applied = worker.applied + 1 /\ i = worker.applied + 1
  PROVE  IndInv'
<1>0. /\ i \in Positions /\ i \in Int /\ i >= 1 /\ i <= Len(log) /\ Len(log) \in Nat
      /\ worker.applied \in Nat /\ worker'.applied \in Nat /\ worker.applied <= Len(log)
      /\ e.message = log[i].message /\ e.kind = log[i].kind /\ e \in InboundEvents
  BY SequenceBound, LogTypes, SMTT(20) DEF EventAt, IndInv, TypeOK, PositionInv, Positions, Workers
<1>1. UNCHANGED <<discord, log>> /\ LogInv' /\ MessageInv'
  BY LogFrame DEF IndInv, provider
<1>2. /\ InboxType' /\ excused \subseteq excused' /\ excused' \subseteq Messages \cup {NoMessage}
      /\ policy' \in [enabled : BOOLEAN, health : Healths, thread : BOOLEAN]
      /\ connected' \in BOOLEAN
  BY ApplyType DEF EventAt, IndInv, TypeOK
<1>3. TypeOK'
  <2>1. ProviderType' /\ SettingsType' /\ HistoryType'
    BY <1>1, <1>2 DEF IndInv, TypeOK, ProviderType, SettingsType, HistoryType
  <2> QED BY <1>2, <2>1 DEF TypeOK
<1>4. RemovedInv' /\ TextInv' /\ BuriedInv'
  BY <1>2, ApplyRows
<1>5. MirrorInv'
  BY <1>0, <1>2, ApplyMirror
<1>6. /\ DOMAIN receipts' \subseteq DOMAIN receipts \cup {i}
      /\ \A j : j # i => (Waiting(j)' <=> Waiting(j))
      /\ \A j \in DOMAIN receipts' \ {i} : receipts'[j].message = receipts[j].message
  BY ApplyFacts
<1>7. PositionInv'
  <2>1. DOMAIN receipts \subseteq 1..worker.applied
    BY DEF IndInv, PositionInv
  <2>2. DOMAIN receipts' \subseteq 1..worker'.applied
    <3>1. \/ worker'.applied = worker.applied /\ i <= worker.applied
          \/ worker'.applied = worker.applied + 1 /\ i = worker.applied + 1
      OBVIOUS
    <3>2. 1..worker.applied \cup {i} \subseteq 1..worker'.applied
      BY ONLY <1>0, <3>1, SMTT(20)
    <3> QED BY <1>6, <2>1, <3>2
  <2>3. -1 <= gateway'.sequence /\ gateway'.sequence <= worker'.applied
    <3>1. /\ gateway'.sequence = gateway.sequence /\ gateway.sequence \in Int
          /\ -1 <= gateway.sequence /\ gateway.sequence <= worker.applied
      BY SequenceBound
    <3>2. worker'.applied \in {worker.applied, worker.applied + 1}
      OBVIOUS
    <3> QED BY ONLY <1>0, <3>1, <3>2, SMTT(20)
  <2> QED BY <1>0, <1>1, <2>2, <2>3 DEF PositionInv
<1>8. ReceiptInv'
  <2> SUFFICES ASSUME NEW j \in DOMAIN receipts'
               PROVE  receipts'[j].message = log'[j].message /\ (Waiting(j)' => log'[j].kind = "update")
    BY DEF ReceiptInv
  <2>1. CASE j # i
    BY <1>1, <1>6, <2>1 DEF IndInv, ReceiptInv
  <2>2. CASE j = i /\ EventExists(i)
    <3>1. receipts' = receipts
      BY <2>2, ApplyFacts
    <3> QED BY <1>1, <3>1 DEF IndInv, ReceiptInv, Waiting
  <2>3. CASE j = i /\ ~EventExists(i)
    <3>1. receipts'[i].message = e.message /\ (Waiting(i)' <=> Process(e) = "needs_fetch")
      BY <2>3, ApplyFacts
    <3>2. Process(e) = "needs_fetch" => e.kind = "update"
      BY <1>0 DEF Process, Create, Update, Delete, InboundEvents
    <3> QED BY <1>0, <1>1, <2>3, <3>1, <3>2
  <2> QED BY <2>1, <2>2, <2>3
<1> QED BY <1>1, <1>3, <1>4, <1>5, <1>7, <1>8 DEF IndInv

\* apply_event for a deferred update.
LEMMA ApplyDeferredInv ==
  ASSUME IndInv, ApplyDeferred
  PROVE  IndInv'
<1> DEFINE i == worker.item
           e == Hydrated(i)
<1>0. /\ worker.phase = "apply" /\ worker' = Finished(i)
      /\ UNCHANGED <<provider, gateway, credential, removed, missed, lag, disturbances>>
      /\ \/ ApplyInTransaction(i, e)
         \/ UNCHANGED <<inbox, policy, connected, excused>>
  BY DEF ApplyDeferred, At
<1>1. /\ i \in 1..worker.applied /\ EventAt(i, e) /\ e.kind = "update"
  BY <1>0, HydratedType DEF EventAt
<1>2. worker \in Workers /\ disturbances \in Nat /\ lag \in Nat
  BY DEF IndInv, TypeOK, HistoryType
<1>3. worker' \in Workers /\ worker'.pos = worker.pos /\ worker'.applied = worker.applied
  BY <1>0, <1>2, FinishedType
<1>4. \A j \in worker.todo : Waiting(j)
  BY DEF IndInv, FetchInv
<1>5. CASE UNCHANGED <<inbox, policy, connected, excused>>
  <2>1. UNCHANGED <<provider, settings, inbox, history>>
    BY <1>0, <1>5 DEF settings, history
  <2>2. \A j : Waiting(j)' <=> Waiting(j)
    BY <1>5 DEF Waiting, inbox
  <2>3. FetchInv'
    BY <1>0, <1>4, <2>2, FinishedFetch
  <2> QED BY <1>0, <1>2, <1>3, <2>1, <2>3, DrainStep
<1>6. CASE ApplyInTransaction(i, e)
  <2> HIDE DEF i, e
  <2>1. \A j : j # i => (Waiting(j)' <=> Waiting(j))
    BY <1>1, <1>6, ApplyFacts
  <2>2. FetchInv'
    BY <1>0, <1>4, <2>1, FinishedFetch
  <2>3. /\ 0 <= worker'.pos /\ worker'.pos <= worker'.applied /\ i <= worker.applied
        /\ lag' = lag /\ lag <= lag' /\ lag' \in Nat /\ disturbances' \in Nat
    BY <1>0, <1>1, <1>2, <1>3, SMTT(20) DEF IndInv, PositionInv
  <2>4. e.kind # "delete"
    BY <1>1
  <2> QED BY <1>0, <1>1, <1>3, <1>6, <2>2, <2>3, <2>4, ApplyStep
<1> QED BY <1>0, <1>5, <1>6

\* The worker that has read the event at position i, and then persists or drains.
LEMMA ReadWorker ==
  ASSUME IndInv, worker.phase = "idle", NEW i, i = worker.pos + 1, i <= Now, NEW todo \in SUBSET Nat,
         \A j \in todo : Waiting(j)',
         LET read == [worker EXCEPT !.pos = i, !.applied = IF i > @ THEN i ELSE @, !.phase = "persist"]
         IN  \/ worker' = read
             \/ worker' = [read EXCEPT !.phase = "drain", !.after = "persist", !.todo = todo]
  PROVE  /\ worker' \in Workers /\ worker'.pos = i /\ i \in Positions /\ FetchInv'
         /\ 0 <= worker'.pos /\ worker'.pos <= worker'.applied
         /\ \/ worker'.applied = worker.applied /\ i <= worker.applied
            \/ worker'.applied = worker.applied + 1 /\ i = worker.applied + 1
<1>0. /\ worker \in Workers /\ worker.todo = {} /\ worker.fetched = NoFetch
      /\ Len(log) \in Nat /\ Now = Len(log)
  BY NotDraining, LogTypes DEF IndInv, TypeOK, Draining, Now
<1> DEFINE a == IF i > worker.applied THEN i ELSE worker.applied
           read == [worker EXCEPT !.pos = i, !.applied = a, !.phase = "persist"]
<1>a. /\ worker.applied \in Nat /\ worker.pos \in Int
      /\ 0 <= worker.pos /\ worker.pos <= worker.applied
      /\ i = worker.pos + 1 /\ i <= Now
  BY SequenceBound
<1>1. i \in Int /\ i >= 1 /\ i \in Positions /\ a \in Nat /\ i <= a
  BY ONLY <1>0, <1>a, SMTT(20) DEF Positions
<1>2. \/ a = worker.applied /\ i <= worker.applied
      \/ a = worker.applied + 1 /\ i = worker.applied + 1
  BY ONLY <1>a, SMTT(20)
<1>3. worker' = read \/ worker' = [read EXCEPT !.phase = "drain", !.after = "persist", !.todo = todo]
  OBVIOUS
<1> HIDE DEF a
<1>4. /\ read \in Workers /\ read.pos = i /\ read.applied = a /\ read.phase = "persist"
      /\ read.todo = {} /\ read.fetched = NoFetch
  BY <1>0, <1>1 DEF Workers
<1> HIDE DEF read
<1>5. CASE worker' = read
  <2>1. FetchInv'
    BY <1>4, <1>5 DEF FetchInv, Draining
  <2> QED BY <1>1, <1>2, <1>4, <1>5, <2>1, SMTT(20)
<1>6. CASE worker' = [read EXCEPT !.phase = "drain", !.after = "persist", !.todo = todo]
  <2>1. /\ worker' \in Workers /\ worker'.pos = i /\ worker'.applied = a
        /\ worker'.phase = "drain" /\ worker'.todo = todo /\ worker'.fetched = NoFetch
    BY <1>4, <1>6 DEF Workers
  <2>2. FetchInv'
    BY <2>1 DEF FetchInv, Draining
  <2> QED BY <1>1, <1>2, <2>1, <2>2, SMTT(20)
<1> QED BY <1>3, <1>5, <1>6

\* handle_gateway_event.
LEMMA HandleGatewayEventInv ==
  ASSUME IndInv, HandleGatewayEvent
  PROVE  IndInv'
<1> DEFINE i == worker.pos + 1
           read == [worker EXCEPT !.pos = i, !.applied = IF i > @ THEN i ELSE @, !.phase = "persist"]
           drain(todo) == [read EXCEPT !.phase = "drain", !.after = "persist", !.todo = todo]
<1>0. /\ worker.phase = "idle" /\ i <= Now
      /\ UNCHANGED <<provider, gateway, credential, removed, missed>>
  BY DEF HandleGatewayEvent, At
<1>1. lag \in Nat /\ disturbances \in Nat /\ Len(log) \in Nat /\ ProviderType /\ LogInv
  BY LogTypes DEF IndInv, TypeOK, HistoryType
<1>p. i \in Positions
  <2>1. worker.pos \in Int /\ 0 <= worker.pos
    BY SequenceBound
  <2> QED BY ONLY <1>0, <1>1, <2>1, SMTT(20) DEF Positions, Now
<1>2. ASSUME NEW behind \in Nat, behind <= MaxLag, log[i].kind # "delete" => behind = 0,
             ApplyInTransaction(i, Normalized(log[i], behind)),
             worker' = read \/ worker' = drain(PendingUpdates(receipts')),
             lag' = IF behind > lag THEN behind ELSE lag, UNCHANGED disturbances
      PROVE  IndInv'
  <2> DEFINE e == Normalized(log[i], behind)
  <2>1. /\ e \in InboundEvents /\ (e.kind # "thread" => e.message \in Messages)
        /\ e.kind = log[i].kind /\ e.message = log[i].message
        /\ e.version = IF log[i].kind = "delete" THEN Len(log) - behind ELSE i
        /\ e.content = (e.kind = "create")
    <3> HIDE DEF i
    <3> QED BY ONLY <1>1, <1>p, NormalizedType, SMTT(20)
  <2> HIDE DEF e
  <2>a. (e.kind = "delete" => e.version <= Len(log)) /\ (e.kind = "create" => e.version = i)
    BY <1>1, <1>2, <2>1, SMTT(20)
  <2>b. ~(e.kind = "update" /\ e.content)
    BY <2>1
  <2>2. EventAt(i, e)
    <3> HIDE DEF i
    <3> QED BY <1>p, <2>1, <2>a, <2>b DEF EventAt
  <2>3. lag' \in Nat /\ lag <= lag' /\ (e.kind = "delete" /\ lag' = 0 => e.version = Len(log))
    BY <1>1, <1>2, <2>1, SMTT(20)
  <2>4. ApplyInTransaction(i, e) /\ disturbances' \in Nat /\ ~(e.kind = "update" /\ e.content)
    BY <1>1, <1>2, <2>b DEF e
  <2>5. PendingUpdates(receipts') \in SUBSET Nat /\ \A j \in PendingUpdates(receipts') : Waiting(j)'
    <3>1. DOMAIN receipts' \subseteq DOMAIN receipts \cup {i}
      BY <2>2, <2>4, ApplyFacts
    <3>2. worker.applied \in Nat /\ DOMAIN receipts \subseteq 1..worker.applied
      BY SequenceBound DEF IndInv, PositionInv
    <3>3. DOMAIN receipts \subseteq Nat
      BY ONLY <3>2, SMTT(20)
    <3>4. i \in Nat
      BY ONLY <1>1, <1>p, SMTT(20) DEF Positions
    <3> QED BY <3>1, <3>3, <3>4 DEF PendingUpdates, Waiting
  <2>6. /\ worker' \in Workers /\ FetchInv'
        /\ 0 <= worker'.pos /\ worker'.pos <= worker'.applied
        /\ \/ worker'.applied = worker.applied /\ i <= worker.applied
           \/ worker'.applied = worker.applied + 1 /\ i = worker.applied + 1
    BY <1>0, <1>2, <2>5, ReadWorker
  <2> HIDE DEF i
  <2> QED BY <1>0, <2>2, <2>3, <2>4, <2>6, ApplyStep
<1>3. ASSUME Fails, worker' = read, excused' = excused \cup ({log[i].message} \ {NoMessage}),
             UNCHANGED <<inbox, policy, connected, lag>>
      PROVE  IndInv'
  <2>0. UNCHANGED <<discord, log, rows, receipts>> /\ excused \subseteq excused'
        /\ disturbances' \in Nat
    BY <1>0, <1>1, <1>3, SMTT(20) DEF provider, inbox, Fails, Disturbance
  <2>1. /\ worker' \in Workers /\ FetchInv'
        /\ 0 <= worker'.pos /\ worker'.pos <= worker'.applied
        /\ \/ worker'.applied = worker.applied /\ i <= worker.applied
           \/ worker'.applied = worker.applied + 1 /\ i = worker.applied + 1
    <3>1. {} \in SUBSET Nat /\ \A j \in {} : Waiting(j)'
      OBVIOUS
    <3> QED BY <1>0, <1>3, <3>1, ReadWorker
  <2> HIDE DEF i, read
  <2>2. log[i].message \in Messages \cup {NoMessage}
    BY <1>1, <1>p, LogTypes DEF Events
  <2>3. TypeOK'
    <3>1. excused' \subseteq Messages \cup {NoMessage}
      BY <1>3, <2>2 DEF IndInv, TypeOK, HistoryType
    <3>2. ProviderType' /\ SettingsType' /\ InboxType' /\ HistoryType'
      BY <1>0, <1>3, <2>0, <3>1
         DEF IndInv, TypeOK, ProviderType, SettingsType, InboxType, HistoryType
    <3> QED BY <2>1, <3>2 DEF TypeOK
  <2>4. LogInv' /\ MessageInv' /\ ReceiptInv' /\ \A j : Waiting(j)' <=> Waiting(j)
    BY <1>0, <2>0, LogFrame, ReceiptFrame DEF IndInv
  <2>5. RemovedInv' /\ TextInv' /\ BuriedInv'
    BY <1>0, <1>3, <2>0, RowsKept
  <2>6. PositionInv'
    <3>0. /\ worker.applied \in Nat /\ worker.applied <= Len(log) /\ gateway.sequence \in Int
          /\ -1 <= gateway.sequence /\ gateway.sequence <= worker.applied
          /\ DOMAIN receipts \subseteq 1..worker.applied /\ gateway' = gateway
      BY <1>0, SequenceBound DEF IndInv, PositionInv
    <3>1. worker'.applied \in Nat /\ i <= Len(log)
      BY ONLY <1>p, <2>1, <3>0, SMTT(20) DEF Positions, Workers
    <3>2. worker.applied <= worker'.applied /\ worker'.applied <= Len(log)
      BY ONLY <1>1, <2>1, <3>0, <3>1, SMTT(20)
    <3>3. DOMAIN receipts \subseteq 1..worker'.applied
      BY ONLY <3>0, <3>1, <3>2, SMTT(20)
    <3>4. -1 <= gateway'.sequence /\ gateway'.sequence <= worker'.applied
      BY ONLY <3>0, <3>1, <3>2, SMTT(20)
    <3> QED BY <2>0, <2>1, <3>2, <3>3, <3>4 DEF PositionInv
  <2>7. MirrorInv'
    <3> SUFFICES ASSUME NEW m \in Messages \ (excused' \cup removed') PROVE Mirrored(m)'
      BY DEF MirrorInv
    <3>1. m # log[i].message
      BY <1>3
    <3>2. worker'.applied \in Nat
      BY <2>1 DEF Workers
    <3> QED BY <1>0, <1>p, <2>0, <2>1, <2>4, <3>1, <3>2, MirrorOther
  <2> QED BY <2>1, <2>3, <2>4, <2>5, <2>6, <2>7 DEF IndInv
<1>4. \/ \E behind \in IF log[i].kind = "delete" THEN 0..MaxLag ELSE {0} :
           /\ ApplyInTransaction(i, Normalized(log[i], behind))
           /\ worker' = read \/ worker' = drain(PendingUpdates(receipts'))
           /\ lag' = IF behind > lag THEN behind ELSE lag
           /\ UNCHANGED disturbances
      \/ /\ Fails /\ worker' = read /\ excused' = excused \cup ({log[i].message} \ {NoMessage})
         /\ UNCHANGED <<inbox, policy, connected, lag>>
  BY DEF HandleGatewayEvent
<1>5. \A behind \in IF log[i].kind = "delete" THEN 0..MaxLag ELSE {0} :
        behind \in Nat /\ behind <= MaxLag /\ (log[i].kind # "delete" => behind = 0)
  BY SMTT(20)
<1> HIDE DEF i, read, drain
<1> QED BY <1>2, <1>3, <1>4, <1>5

\* complete_missing_update and defer_update_retry.
LEMMA SettleDeferredInv ==
  ASSUME IndInv, SettleDeferred
  PROVE  IndInv'
<1> DEFINE i == worker.item
<1>0. /\ worker.phase = "settle" /\ worker' = Finished(i)
      /\ UNCHANGED <<provider, gateway, credential, connected, rows, removed, missed, lag>>
  BY DEF SettleDeferred, At
<1>1. /\ worker \in Workers /\ disturbances \in Nat /\ lag \in Nat /\ ProviderType
      /\ InboxType /\ SettingsType /\ HistoryType
  BY DEF IndInv, TypeOK, HistoryType
<1>2. Waiting(i) /\ (\A j \in worker.todo : Waiting(j)) /\ i \in DOMAIN receipts
      /\ receipts[i] \in Receipts /\ receipts[i].message = log[i].message /\ log[i].kind = "update"
  BY <1>0, <1>1 DEF IndInv, FetchInv, Draining, Waiting, InboxType, ReceiptInv
<1>3. worker' \in Workers /\ worker'.pos = worker.pos /\ worker'.applied = worker.applied
  BY <1>0, <1>1, FinishedType
<1>4. CASE Fails /\ UNCHANGED <<receipts, policy, excused>>
  <2>1. UNCHANGED <<provider, settings, inbox, history>> /\ disturbances' \in Nat
    BY <1>0, <1>1, <1>4, SMTT(20) DEF settings, inbox, history, Fails, Disturbance
  <2>2. \A j : Waiting(j)' <=> Waiting(j)
    BY <1>4 DEF Waiting
  <2>3. FetchInv'
    BY <1>0, <1>2, <2>2, FinishedFetch
  <2> QED BY <1>3, <2>1, <2>3, DrainStep
<1>5. ASSUME NEW k, k = i, NEW r \in Receipts, receipts' = WithReceipt(k, r), r.message = receipts[k].message,
             \/ r.result = "needs_fetch" \/ log[k].message \in excused'
             \/ discord[log[k].message].state = "deleted",
             excused \subseteq excused', excused' \subseteq Messages \cup {NoMessage},
             policy' \in [enabled : BOOLEAN, health : Healths, thread : BOOLEAN],
             UNCHANGED disturbances
      PROVE  IndInv'
  <2>0. /\ Waiting(k) /\ k \in DOMAIN receipts /\ receipts[k].message = log[k].message
        /\ log[k].kind = "update" /\ worker' = Finished(k)
    BY <1>0, <1>2, <1>5
  <2> HIDE DEF i
  <2>1. /\ InboxType' /\ DOMAIN receipts' = DOMAIN receipts /\ receipts'[k] = r
        /\ \A j \in DOMAIN receipts \ {k} : receipts'[j] = receipts[j]
    <3>1. /\ receipts' \in [DOMAIN receipts' -> Receipts] /\ DOMAIN receipts' = DOMAIN receipts \cup {k}
          /\ receipts'[k] = r /\ \A j \in DOMAIN receipts \ {k} : receipts'[j] = receipts[j]
      BY <1>1, <1>5, WithReceiptType
    <3>2. DOMAIN receipts \cup {k} = DOMAIN receipts
      BY <2>0
    <3> QED BY <1>0, <1>1, <3>1, <3>2 DEF InboxType
  <2>2. \A j : j # k => (Waiting(j)' <=> Waiting(j))
    BY <2>1 DEF Waiting
  <2>3. TypeOK'
    <3>1. ProviderType' /\ SettingsType' /\ HistoryType'
      BY <1>0, <1>1, <1>5 DEF ProviderType, SettingsType, HistoryType, provider
    <3> QED BY <1>3, <2>1, <3>1 DEF TypeOK
  <2>4. LogInv' /\ MessageInv' /\ UNCHANGED <<discord, log>>
    BY <1>0, LogFrame DEF IndInv, provider
  <2>5. RemovedInv' /\ TextInv' /\ BuriedInv'
    BY <1>0, <1>5, RowsKept
  <2>6. PositionInv'
    BY <1>0, <1>3, <2>1, <2>4 DEF IndInv, PositionInv
  <2>7. FetchInv'
    BY <1>2, <2>0, <2>2, FinishedFetch
  <2>8. ReceiptInv'
    <3> SUFFICES ASSUME NEW j \in DOMAIN receipts'
                 PROVE  receipts'[j].message = log'[j].message /\ (Waiting(j)' => log'[j].kind = "update")
      BY DEF ReceiptInv
    <3>1. CASE j = k
      BY <1>5, <2>0, <2>1, <2>4, <3>1
    <3>2. CASE j # k
      BY <2>1, <2>2, <2>4, <3>2 DEF IndInv, ReceiptInv
    <3> QED BY <3>1, <3>2
  <2>9. MirrorInv'
    <3> SUFFICES ASSUME NEW m \in Messages \ (excused' \cup removed') PROVE Mirrored(m)'
      BY DEF MirrorInv
    <3>1. Mirrored(m)
      BY <1>0, <1>5 DEF IndInv, MirrorInv
    <3>2. log[k].message = m => Waiting(k)' \/ discord[m].state = "deleted"
      BY <1>5, <2>0, <2>1 DEF Waiting
    <3> QED BY <1>0, <1>3, <2>2, <2>4, <3>1, <3>2 DEF Mirrored
  <2> QED BY <2>3, <2>4, <2>5, <2>6, <2>7, <2>8, <2>9 DEF IndInv
<1>6. CASE worker.fetched.result = "missing" /\ CompleteMissingUpdate(i) /\ UNCHANGED disturbances
  <2> DEFINE r == [receipts[i] EXCEPT !.result = "done"]
  <2>1. r \in Receipts /\ r.message = receipts[i].message
    BY <1>2 DEF Receipts
  <2>2. discord[log[i].message].state = "deleted"
    BY <1>0, <1>6 DEF IndInv, FetchInv
  <2>3. receipts' = WithReceipt(i, r) /\ UNCHANGED <<policy, excused>>
    BY <1>6 DEF CompleteMissingUpdate
  <2>4. /\ policy' \in [enabled : BOOLEAN, health : Healths, thread : BOOLEAN]
        /\ excused' \subseteq Messages \cup {NoMessage} /\ excused \subseteq excused'
    BY <1>1, <2>3 DEF SettingsType, HistoryType
  <2> HIDE DEF r, i
  <2> QED BY <1>5, <1>6, <2>1, <2>2, <2>3, <2>4
<1>7. CASE worker.fetched.result = "retryable" /\ DeferUpdateRetry(i) /\ UNCHANGED disturbances
  <2> DEFINE attempts == receipts[i].attempts + 1
             terminal == LastAttempt(attempts)
             r == [receipts[i] EXCEPT !.attempts = attempts, !.due = terminal,
                     !.result = IF terminal THEN "done" ELSE "needs_fetch"]
  <2>1. /\ receipts' = WithReceipt(i, r)
        /\ policy' = IF terminal THEN [policy EXCEPT !.health = "degraded", !.thread = FALSE] ELSE policy
        /\ excused' = IF terminal THEN excused \cup {receipts[i].message} ELSE excused
    BY <1>7 DEF DeferUpdateRetry
  <2>2. attempts \in Nat /\ terminal \in BOOLEAN
    BY <1>2, SMTT(20) DEF Receipts, LastAttempt
  <2> HIDE DEF i, attempts, terminal
  <2>3. r \in Receipts /\ r.message = receipts[i].message /\ (~terminal => r.result = "needs_fetch")
    BY <1>2, <2>2 DEF Receipts
  <2>4. /\ policy' \in [enabled : BOOLEAN, health : Healths, thread : BOOLEAN]
        /\ excused' \subseteq Messages \cup {NoMessage} /\ excused \subseteq excused'
        /\ terminal => log[i].message \in excused'
    <3>1. policy' \in [enabled : BOOLEAN, health : Healths, thread : BOOLEAN]
      BY <1>1, <2>1 DEF SettingsType, Healths
    <3>2. receipts[i].message \in Messages \cup {NoMessage} /\ excused \subseteq Messages \cup {NoMessage}
      BY <1>1, <1>2 DEF Receipts, HistoryType
    <3> QED BY <1>2, <2>1, <3>1, <3>2
  <2> HIDE DEF r
  <2> QED BY <1>5, <1>7, <2>1, <2>3, <2>4
<1> QED BY <1>4, <1>6, <1>7 DEF SettleDeferred

-----------------------------------------------------------------------------
(* Administrators and Discord *)

\* delete_as_viewer.
LEMMA DeleteAsViewerInv ==
  ASSUME IndInv, NEW m \in Messages, DeleteAsViewer(m)
  PROVE  IndInv'
<1>1. TypeOK'
  BY AdministerType DEF Administer
<1>2. /\ UNCHANGED <<provider, settings, receipts, worker, excused, missed, lag, disturbances>>
      /\ UNCHANGED <<discord, log, gateway>>
      /\ rows' = WithoutFeedback(m)
      /\ removed' = removed \cup {n \in Messages : n = m \/ rows[n].parent = m}
  BY DEF DeleteAsViewer, provider, settings
<1>3. ASSUME NEW n \in Messages
      PROVE  \/ rows'[n] = rows[n] /\ (n \in removed' <=> n \in removed)
             \/ rows'[n].state = "moderated" /\ n \in removed'
  <2>1. rows[n] \in Rows
    BY DEF IndInv, TypeOK, InboxType
  <2>2. CASE n = m \/ rows[n].parent = m
    <3>1. rows'[n] = [rows[n] EXCEPT !.state = "moderated", !.body = Tombstone]
      BY <1>2, <2>2 DEF WithoutFeedback
    <3>2. rows'[n].state = "moderated"
      BY <2>1, <3>1 DEF Rows
    <3> QED BY <1>2, <2>2, <3>2
  <2>3. CASE ~(n = m \/ rows[n].parent = m)
    BY <1>2, <2>3 DEF WithoutFeedback
  <2> QED BY <2>2, <2>3
<1>4. LogInv' /\ MessageInv' /\ ReceiptInv' /\ \A j : Waiting(j)' <=> Waiting(j)
  BY <1>2, LogFrame, ReceiptFrame DEF IndInv
<1>5. PositionInv'
  BY <1>2 DEF IndInv, PositionInv
<1>6. FetchInv'
  BY <1>2, <1>4 DEF IndInv, FetchInv, IsText, Positions
<1>7. RemovedInv'
  BY <1>3 DEF IndInv, RemovedInv
<1>8. TextInv'
  <2> SUFFICES ASSUME NEW n \in Messages, rows'[n].state = "present", rows'[n].body # Tombstone
               PROVE  rows'[n].body = rows'[n].version /\ IsText(rows'[n].version, n)
    BY <1>2 DEF TextInv, IsText, Positions
  <2>1. rows'[n] = rows[n]
    BY <1>3
  <2> QED BY <2>1 DEF IndInv, TextInv
<1>9. BuriedInv'
  <2> SUFFICES ASSUME NEW n \in Messages, (lag = 0 \/ n \notin excused)',
                      (rows[n].state = "present" /\ rows[n].body = Tombstone)'
               PROVE  Buried(n)'
    BY DEF BuriedInv
  <2>1. rows'[n] = rows[n]
    BY <1>3
  <2>2. Buried(n)
    BY <1>2, <2>1 DEF IndInv, BuriedInv
  <2> QED BY <1>2, <2>1, <2>2 DEF Buried, IsText, Positions
<1>10. MirrorInv'
  <2> SUFFICES ASSUME NEW n \in Messages \ (excused' \cup removed') PROVE Mirrored(n)'
    BY DEF MirrorInv
  <2>1. rows'[n] = rows[n] /\ n \notin removed
    BY <1>3
  <2>2. Mirrored(n)
    BY <1>2, <2>1 DEF IndInv, MirrorInv
  <2> QED BY <1>2, <1>4, <2>1, <2>2 DEF Mirrored
<1> QED BY <1>1, <1>4, <1>5, <1>6, <1>7, <1>8, <1>9, <1>10 DEF IndInv

\* An event e that Discord may dispatch next, with what it makes of the message.
Follows(e) ==
  /\ e \in Events /\ e.version = Len(log) + 1 /\ (e.message = NoMessage <=> e.kind = "thread")
  /\ log' = Append(log, e)
  /\ \A m \in Messages : m # e.message => discord'[m] = discord[m]
  /\ e.kind = "create" => discord[e.message].state = "none"
  /\ e.kind \in {"update", "delete"} => discord[e.message].state = "live"
  /\ e.kind \in {"create", "update"} =>
       discord'[e.message].state = "live" /\ discord'[e.message].version = Len(log) + 1
  /\ e.kind = "delete" => discord'[e.message].state = "deleted"

\* The log grows by one event, and a message that Discord deleted gets no more.
LEMMA FollowsFacts ==
  ASSUME IndInv, NEW e, Follows(e)
  PROVE  /\ Len(log) \in Nat /\ Len(log') = Len(log) + 1 /\ Positions' = Positions \cup {Len(log) + 1}
         /\ Len(log) + 1 \notin Positions /\ log'[Len(log) + 1] = e
         /\ \A i \in Positions : log'[i] = log[i] /\ i <= Len(log) /\ i \in Int
         /\ \A m \in Messages : discord[m].state = "deleted" =>
              discord'[m].state = "deleted" /\ m # e.message
         /\ e.kind \in {"create", "update", "delete", "thread"}
         /\ e.kind # "thread" => e.message \in Messages
<1>1. log \in Seq(Events) /\ e \in Events /\ log' = Append(log, e)
  BY DEF IndInv, TypeOK, ProviderType, Follows
<1>2. /\ Len(log) \in Nat /\ Len(log') = Len(log) + 1 /\ Positions' = Positions \cup {Len(log) + 1}
      /\ Len(log) + 1 \notin Positions /\ log'[Len(log) + 1] = e
      /\ \A i \in Positions : log'[i] = log[i] /\ i <= Len(log) /\ i \in Int
  BY <1>1, SMTT(20) DEF Positions
<1>3. e.kind \in {"create", "update", "delete", "thread"} /\ (e.kind # "thread" => e.message \in Messages)
  BY <1>1 DEF Events, Follows
<1>4. ASSUME NEW m \in Messages, discord[m].state = "deleted"
      PROVE  discord'[m].state = "deleted" /\ m # e.message
  <2>1. m # e.message
    BY <1>3, <1>4 DEF Follows
  <2> QED BY <1>4, <2>1 DEF Follows
<1> QED BY <1>2, <1>3, <1>4

\* Discord's log stays well formed.
LEMMA FollowsLog ==
  ASSUME IndInv, NEW e, Follows(e)
  PROVE  LogInv'
<1> DEFINE n == Len(log) + 1
<1>0. /\ n \in Int /\ n >= 1 /\ Positions' = Positions \cup {n} /\ log'[n] = e /\ n \notin Positions
      /\ \A i \in Positions : log'[i] = log[i] /\ i < n /\ i \in Int /\ i >= 1
      /\ e.kind \in {"create", "update", "delete", "thread"}
      /\ e.kind # "thread" => e.message \in Messages
  BY FollowsFacts, SMTT(20) DEF Positions
<1>1. e.version = n /\ (e.message = NoMessage <=> e.kind = "thread")
  BY DEF Follows
<1>n. n' = n + 1
  BY FollowsFacts
<1>2. e.kind = "create" => \A i \in Positions : log[i].message # e.message
  BY <1>0 DEF Follows, IndInv, MessageInv
<1>3. e.kind \in {"update", "delete"} =>
        /\ \E j \in Positions : log[j].message = e.message /\ log[j].kind = "create"
        /\ \A i \in Positions : log[i].message = e.message => log[i].kind # "delete"
  <2> SUFFICES ASSUME e.kind \in {"update", "delete"}
               PROVE  /\ \E j \in Positions : log[j].message = e.message /\ log[j].kind = "create"
                      /\ \A i \in Positions : log[i].message = e.message => log[i].kind # "delete"
    OBVIOUS
  <2>1. e.message \in Messages /\ discord[e.message].state = "live"
    BY <1>0 DEF Follows
  <2>2. PICK k \in Positions : log[k].message = e.message
    BY <2>1 DEF IndInv, MessageInv, IsText
  <2>3. PICK j \in 1..k : log[j].message = e.message /\ log[j].kind = "create"
    BY <2>1, <2>2, SMTT(20) DEF IndInv, LogInv
  <2>4. j \in Positions
    BY <1>0, <2>2, <2>3, FollowsFacts, SMTT(20) DEF Positions
  <2>5. \A i \in Positions : log[i].message = e.message => log[i].kind # "delete"
    BY <2>1 DEF IndInv, MessageInv
  <2> QED BY <2>3, <2>4, <2>5
<1> HIDE DEF n
<1>4. ASSUME NEW i \in Positions'
      PROVE  /\ log'[i].version = i
             /\ log'[i].message = NoMessage <=> log'[i].kind = "thread"
             /\ log'[i].message # NoMessage =>
                  \E j \in 1..i : log'[j].message = log'[i].message /\ log'[j].kind = "create"
  <2>1. CASE i \in Positions
    <3>1. /\ log[i].version = i
          /\ log[i].message = NoMessage <=> log[i].kind = "thread"
          /\ log[i].message # NoMessage =>
               \E j \in 1..i : log[j].message = log[i].message /\ log[j].kind = "create"
      BY <2>1 DEF IndInv, LogInv
    <3>2. \A j \in 1..i : log'[j] = log[j]
      BY <1>0, <2>1, FollowsFacts, SMTT(20) DEF Positions
    <3> QED BY <1>0, <2>1, <3>1, <3>2
  <2>2. CASE i = n
    <3>1. n \in 1..n /\ \A j \in Positions : j \in 1..n
      BY <1>0, SMTT(20)
    <3>2. e.kind # "thread" =>
            \E j \in 1..n : log'[j].message = e.message /\ log'[j].kind = "create"
      <4>1. CASE e.kind = "create"
        BY <1>0, <3>1, <4>1
      <4>2. CASE e.kind \in {"update", "delete"}
        BY <1>0, <1>3, <3>1, <4>2
      <4> QED BY <1>0, <4>1, <4>2
    <3> QED BY <1>0, <1>1, <2>2, <3>2
  <2> QED BY <1>0, <2>1, <2>2
<1>5. ASSUME NEW i \in Positions', NEW j \in Positions', log'[i].message = log'[j].message
      PROVE  (log'[i].kind = "create" => i <= j) /\ (log'[i].kind = "delete" => j <= i)
  <2>1. CASE i \in Positions /\ j \in Positions
    <3>1. log[i].message = log[j].message
      BY <1>0, <1>5, <2>1
    <3>2. (log[i].kind = "create" => i <= j) /\ (log[i].kind = "delete" => j <= i)
      BY <2>1, <3>1 DEF IndInv, LogInv
    <3> QED BY <1>0, <2>1, <3>2
  <2>2. CASE i = n /\ j = n
    BY <1>0, <2>2, SMTT(20)
  <2>3. CASE i \in Positions /\ j = n
    <3>1. log[i].message = e.message /\ i <= j
      BY <1>0, <1>5, <2>3, SMTT(20)
    <3>2. log[i].kind # "delete"
      <4>1. CASE e.kind = "thread"
        BY <1>1, <2>3, <3>1, <4>1 DEF IndInv, LogInv
      <4>2. CASE e.kind # "thread"
        BY <1>0, <1>2, <1>3, <2>3, <3>1, <4>2
      <4> QED BY <4>1, <4>2
    <3> QED BY <1>0, <2>3, <3>1, <3>2
  <2>4. CASE i = n /\ j \in Positions
    <3>1. log[j].message = e.message
      BY <1>0, <1>5, <2>4
    <3>2. j <= i
      BY <1>0, <2>4, SMTT(20)
    <3>3. e.kind # "create"
      BY <1>2, <2>4, <3>1
    <3> QED BY <1>0, <2>4, <3>2, <3>3
  <2> QED BY <1>0, <2>1, <2>2, <2>3, <2>4
<1> QED BY <1>4, <1>5 DEF LogInv

\* Discord's messages stay what its log says.
LEMMA FollowsMessages ==
  ASSUME IndInv, NEW e, Follows(e)
  PROVE  MessageInv'
<1>0. /\ Len(log) \in Nat /\ Positions' = Positions \cup {Len(log) + 1} /\ log'[Len(log) + 1] = e
      /\ \A i \in Positions : log'[i] = log[i] /\ i <= Len(log) /\ i \in Int
      /\ e.kind \in {"create", "update", "delete", "thread"}
      /\ e.kind # "thread" => e.message \in Messages
  BY FollowsFacts
<1> SUFFICES ASSUME NEW m \in Messages
             PROVE  /\ \A i \in Positions' : log'[i].message = m =>
                         /\ discord'[m].state # "none"
                         /\ log'[i].kind = "delete" => discord'[m].state = "deleted"
                         /\ discord'[m].state = "live" => i <= discord'[m].version
                    /\ discord'[m].state = "live" => IsText(discord[m].version, m)'
                    /\ discord'[m].state = "deleted" =>
                         \E i \in Positions' : log'[i].message = m /\ log'[i].kind = "delete"
  BY DEF MessageInv
<1>1. /\ \A i \in Positions : log[i].message = m =>
           /\ discord[m].state # "none"
           /\ log[i].kind = "delete" => discord[m].state = "deleted"
           /\ discord[m].state = "live" => i <= discord[m].version
      /\ discord[m].state = "live" => IsText(discord[m].version, m)
      /\ discord[m].state = "deleted" =>
           \E i \in Positions : log[i].message = m /\ log[i].kind = "delete"
  BY DEF IndInv, MessageInv
<1>2. CASE m # e.message
  <2>1. discord'[m] = discord[m]
    BY <1>2 DEF Follows
  <2>2. \A i \in Positions' : log'[i].message = m => i \in Positions /\ log'[i] = log[i]
    BY <1>0, <1>2
  <2>3. discord[m].state = "live" => IsText(discord[m].version, m)'
    BY <1>0, <1>1, <2>1, <2>2 DEF IsText
  <2> QED BY <1>0, <1>1, <2>1, <2>2, <2>3
<1>3. CASE m = e.message
  <2>1. e.kind # "thread" /\ discord[m].state # "deleted"
    BY <1>0, <1>3 DEF Follows
  <2>2. \A i \in Positions : log[i].message = m => log[i].kind # "delete"
    BY <1>1, <2>1
  <2>3. CASE e.kind = "delete"
    <3>1. discord'[m].state = "deleted"
      BY <1>3, <2>3 DEF Follows
    <3> QED BY <1>0, <1>3, <2>3, <3>1
  <2>4. CASE e.kind \in {"create", "update"}
    <3>1. discord'[m].state = "live" /\ discord'[m].version = Len(log) + 1
      BY <1>3, <2>4 DEF Follows
    <3>2. \A i \in Positions' : i <= Len(log) + 1 /\ (log'[i].message = m => log'[i].kind # "delete")
      BY <1>0, <1>3, <2>2, <2>4, SMTT(20)
    <3>3. IsText(discord[m].version, m)'
      BY <1>0, <1>3, <2>4, <3>1 DEF IsText
    <3> QED BY <3>1, <3>2, <3>3
  <2> QED BY <1>0, <2>1, <2>3, <2>4
<1> QED BY <1>2, <1>3

\* An event of Discord keeps the invariant.
LEMMA FollowsInv ==
  ASSUME IndInv, TypeOK', NEW e, Follows(e),
         UNCHANGED <<settings, inbox, worker, history>>
  PROVE  IndInv'
<1>0. /\ Len(log) \in Nat /\ Len(log') = Len(log) + 1 /\ Positions' = Positions \cup {Len(log) + 1}
      /\ \A i \in Positions : log'[i] = log[i] /\ i <= Len(log) /\ i \in Int
      /\ \A m \in Messages : discord[m].state = "deleted" => discord'[m].state = "deleted"
      /\ \A m \in Messages : discord[m].state = "deleted" => m # e.message
      /\ log'[Len(log) + 1] = e
  BY FollowsFacts
<1>1. UNCHANGED <<rows, receipts, worker, excused, removed, lag, gateway>>
  BY DEF inbox, history, settings
<1>2. \A i \in 1..worker.applied : i \in Positions /\ log'[i] = log[i]
  <2>1. worker.applied \in Nat /\ worker.applied <= Len(log)
    BY SequenceBound
  <2>2. 1..worker.applied \subseteq Positions
    BY ONLY <1>0, <2>1, SMTT(20) DEF Positions
  <2> QED BY <1>0, <2>2
<1>3. \A i, m : IsText(i, m) => IsText(i, m)'
  BY <1>0 DEF IsText
<1>4. LogInv' /\ MessageInv'
  BY FollowsLog, FollowsMessages
<1>5. PositionInv'
  <2>1. /\ worker.applied \in Nat /\ worker.applied <= Len(log) /\ PositionInv
    BY SequenceBound DEF IndInv
  <2>2. worker.applied <= Len(log')
    BY <1>0, <2>1, SMTT(20)
  <2> QED BY <1>1, <2>1, <2>2 DEF PositionInv
<1>6. \A j : Waiting(j)' <=> Waiting(j)
  BY <1>1 DEF Waiting
<1>7. \A j \in DOMAIN receipts : j \in Positions /\ log'[j] = log[j]
  BY <1>2 DEF IndInv, PositionInv
<1>8. ReceiptInv'
  BY <1>1, <1>6, <1>7 DEF IndInv, ReceiptInv
<1>9. FetchInv'
  <2>1. worker.phase \in Draining =>
          /\ worker.item \in Positions /\ log'[worker.item] = log[worker.item]
          /\ log[worker.item].message \in Messages
    <3> SUFFICES ASSUME worker.phase \in Draining
                 PROVE  /\ worker.item \in Positions /\ log'[worker.item] = log[worker.item]
                        /\ log[worker.item].message \in Messages
      OBVIOUS
    <3>1. Waiting(worker.item)
      BY DEF IndInv, FetchInv
    <3>2. worker.item \in DOMAIN receipts /\ log[worker.item].kind = "update"
      BY <3>1 DEF IndInv, ReceiptInv, Waiting
    <3>3. worker.item \in Positions /\ log[worker.item] \in Events
      BY <1>7, <3>2, LogTypes DEF IndInv, TypeOK
    <3>4. log[worker.item].message # NoMessage
      BY <3>2, <3>3, SMTT(20) DEF IndInv, LogInv
    <3> QED BY <1>7, <3>2, <3>3, <3>4 DEF Events
  <2>2. \A i \in worker'.todo : Waiting(i)'
    BY <1>1, <1>6 DEF IndInv, FetchInv
  <2>3. worker'.phase = "apply" /\ worker'.fetched.result = "found" =>
          /\ worker'.item <= worker'.fetched.version
          /\ IsText(worker.fetched.version, log[worker.item].message)'
    <3> SUFFICES ASSUME worker.phase = "apply", worker.fetched.result = "found"
                 PROVE  /\ worker.item <= worker.fetched.version
                        /\ IsText(worker.fetched.version, log[worker.item].message)'
      BY <1>1
    <3>1. /\ worker.item <= worker.fetched.version
          /\ IsText(worker.fetched.version, log[worker.item].message)
      BY DEF IndInv, FetchInv
    <3>2. log'[worker.item] = log[worker.item]
      BY <2>1 DEF Draining
    <3> QED BY <1>0, <1>1, <3>1, <3>2 DEF IsText
  <2>4. worker'.phase = "settle" /\ worker'.fetched.result = "missing" =>
          discord'[log'[worker'.item].message].state = "deleted"
    BY <1>0, <1>1, <2>1 DEF IndInv, FetchInv, Draining
  <2> QED BY <1>1, <2>2, <2>3, <2>4 DEF IndInv, FetchInv
<1>10. RemovedInv'
  BY <1>1 DEF IndInv, RemovedInv
<1>11. TextInv'
  BY <1>1, <1>3 DEF IndInv, TextInv
<1>12. BuriedInv'
  <2> SUFFICES ASSUME NEW m \in Messages, (lag = 0 \/ m \notin excused)',
                      (rows[m].state = "present" /\ rows[m].body = Tombstone)'
               PROVE  Buried(m)'
    BY DEF BuriedInv
  <2>1. Buried(m)
    BY <1>1 DEF IndInv, BuriedInv
  <2>2. m # e.message /\ discord'[m].state = "deleted"
    BY <1>0, <2>1 DEF Buried
  <2>3. \A i \in Positions' : IsText(i, m)' => i \in Positions /\ IsText(i, m)
    BY <1>0, <2>2 DEF IsText
  <2> QED BY <1>1, <2>1, <2>2, <2>3 DEF Buried
<1>13. MirrorInv'
  <2> SUFFICES ASSUME NEW m \in Messages \ (excused' \cup removed') PROVE Mirrored(m)'
    BY DEF MirrorInv
  <2>1. Mirrored(m)
    BY <1>1 DEF IndInv, MirrorInv
  <2> QED BY <1>0, <1>1, <1>2, <1>6, <2>1 DEF Mirrored
<1> QED BY <1>4, <1>5, <1>8, <1>9, <1>10, <1>11, <1>12, <1>13 DEF IndInv

\* Discord's steps keep the invariant.
LEMMA DiscordMovesInv ==
  ASSUME IndInv, DiscordMoves
  PROVE  IndInv'
<1>0. /\ Len(log) \in Nat /\ Now = Len(log) /\ Len(log) + 1 \in Nat
      /\ discord \in [Messages -> [state : {"none", "live", "deleted"}, version : Nat, text : BOOLEAN]]
  BY LogTypes, SMTT(20) DEF IndInv, TypeOK, ProviderType, Now
<1>1. TypeOK' /\ UNCHANGED <<settings, inbox, worker, history>>
  BY DiscordMovesType DEF DiscordMoves
<1>2. ASSUME NEW m \in Messages, NEW text \in BOOLEAN, NEW kind \in {"create", "update"},
             discord[m].state = IF kind = "create" THEN "none" ELSE "live",
             discord' = [discord EXCEPT ![m] = Message("live", text)],
             Dispatch([kind |-> kind, message |-> m, version |-> Now + 1, text |-> text])
      PROVE  IndInv'
  <2> DEFINE e == [kind |-> kind, message |-> m, version |-> Now + 1, text |-> text]
  <2>1. /\ e \in Events /\ e.version = Len(log) + 1 /\ e.message = m /\ e.kind = kind
        /\ log' = Append(log, e)
    BY <1>0, <1>2 DEF Events, Dispatch
  <2>2. /\ discord'[m] = [state |-> "live", version |-> Len(log) + 1, text |-> text]
        /\ \A n \in Messages : n # m => discord'[n] = discord[n]
    BY <1>0, <1>2 DEF Message
  <2>3. discord'[m].state = "live" /\ discord'[m].version = Len(log) + 1
    BY <2>2, SMTT(20)
  <2> HIDE DEF e
  <2>4. Follows(e)
    BY <1>2, <2>1, <2>2, <2>3 DEF Follows
  <2> QED BY <1>1, <2>4, FollowsInv
<1>3. ASSUME NEW m \in Messages, DeleteMessage(m)
      PROVE  IndInv'
  <2> DEFINE e == [kind |-> "delete", message |-> m, version |-> Now + 1, text |-> FALSE]
  <2>1. /\ e \in Events /\ e.version = Len(log) + 1 /\ e.message = m /\ e.kind = "delete"
        /\ log' = Append(log, e)
    BY <1>0, <1>3 DEF Events, Dispatch, DeleteMessage
  <2>2. /\ discord'[m].state = "deleted" /\ discord[m].state = "live"
        /\ \A n \in Messages : n # m => discord'[n] = discord[n]
    BY <1>0, <1>3 DEF DeleteMessage
  <2> HIDE DEF e
  <2>3. Follows(e)
    BY <2>1, <2>2 DEF Follows
  <2> QED BY <1>1, <2>3, FollowsInv
<1>4. CASE CloseThread
  <2> DEFINE e == [kind |-> "thread", message |-> NoMessage, version |-> Now + 1, text |-> FALSE]
  <2>1. /\ e \in Events /\ e.version = Len(log) + 1 /\ e.message = NoMessage /\ e.kind = "thread"
        /\ log' = Append(log, e) /\ discord' = discord
    BY <1>0, <1>4 DEF Events, Dispatch, CloseThread
  <2> HIDE DEF e
  <2>2. Follows(e)
    BY <2>1 DEF Follows
  <2> QED BY <1>1, <2>2, FollowsInv
<1>5. ASSUME NEW m \in Messages, NEW text \in BOOLEAN, Post(m, text) \/ EditMessage(m, text)
      PROVE  IndInv'
  <2>1. CASE Post(m, text)
    BY <1>2, <2>1 DEF Post
  <2>2. CASE EditMessage(m, text)
    BY <1>2, <2>2 DEF EditMessage
  <2> QED BY <1>5, <2>1, <2>2
<1> QED BY <1>3, <1>4, <1>5 DEF DiscordMoves

-----------------------------------------------------------------------------
(* The theorems *)

\* The worker is connected to a quiet thread.
LEMMA InitInv ==
  ASSUME Init
  PROVE  IndInv
<1>d. \A m \in Messages : discord[m] = [state |-> "none", version |-> 0, text |-> FALSE]
  BY DEF Init
<1>r. \A m \in Messages : rows[m] = NoRow
  BY DEF Init
<1>l. log = <<>> /\ gateway = [sequence |-> 0, credential |-> 1, health |-> "ready"]
  BY DEF Init
<1>p. /\ policy = [enabled |-> TRUE, health |-> "ready", thread |-> FALSE]
      /\ credential = 1 /\ connected = TRUE
  BY DEF Init
<1>w. worker = [phase |-> "idle", credential |-> 1, pos |-> 0, applied |-> 0, todo |-> {},
                item |-> 0, fetched |-> NoFetch, after |-> "idle", resumable |-> 0]
  BY DEF Init
<1>x. excused = {} /\ removed = {} /\ missed = FALSE /\ lag = 0 /\ disturbances = 0
  BY DEF Init
<1>c. DOMAIN receipts = {} /\ receipts \in [{} -> Receipts]
  BY DEF Init
<1>v. /\ worker.phase = "idle" /\ worker.pos = 0 /\ worker.applied = 0 /\ worker.todo = {}
      /\ worker.fetched = NoFetch
  BY <1>w
<1>1. TypeOK
  <2>1. [state |-> "none", version |-> 0, text |-> FALSE]
          \in [state : {"none", "live", "deleted"}, version : Nat, text : BOOLEAN]
    OBVIOUS
  <2>2. discord \in [Messages -> [state : {"none", "live", "deleted"}, version : Nat, text : BOOLEAN]]
    BY <2>1 DEF Init
  <2>3. ProviderType
    BY <1>l, <2>2, SMTT(20) DEF ProviderType
  <2>4. HistoryType
    <3>1. 0 \in Nat /\ FALSE \in BOOLEAN
      OBVIOUS
    <3> QED BY <1>x, <3>1 DEF HistoryType
  <2>5. SettingsType
    BY <1>l, <1>p, SMTT(20) DEF SettingsType, Healths
  <2>6. NoRow \in Rows
    BY SMTT(20) DEF NoRow, Rows
  <2>7. InboxType
    BY <1>c, <2>6 DEF Init, InboxType
  <2>8. worker \in Workers
    BY <1>w, SMTT(20) DEF Workers, NoFetch
  <2> QED BY <2>3, <2>4, <2>5, <2>7, <2>8 DEF TypeOK
<1>2. Positions = {} /\ 1..worker.applied = {}
  BY <1>l, <1>v, SMTT(20) DEF Positions
<1>3. LogInv /\ ReceiptInv
  BY <1>c, <1>2 DEF LogInv, ReceiptInv
<1>4. MessageInv
  <2>1. \A m \in Messages : discord[m].state = "none"
    BY <1>d, SMTT(20)
  <2> QED BY <1>2, <2>1 DEF MessageInv
<1>5. PositionInv
  <2>1. gateway.sequence = 0 /\ Len(log) = 0
    BY <1>l
  <2> QED BY <1>c, <1>v, <2>1, SMTT(20) DEF PositionInv
<1>6. FetchInv
  BY <1>v DEF FetchInv, Draining
<1>7. \A m \in Messages : rows[m].state = "none"
  BY <1>r, SMTT(20) DEF NoRow
<1>8. RemovedInv /\ TextInv /\ BuriedInv
  BY <1>x, <1>7 DEF RemovedInv, TextInv, BuriedInv
<1>9. MirrorInv
  BY <1>2, <1>7 DEF MirrorInv, Mirrored
<1> QED BY <1>1, <1>3, <1>4, <1>5, <1>6, <1>8, <1>9 DEF IndInv

\* One step keeps the invariant.
LEMMA NextInv ==
  ASSUME IndInv, [Next]_vars
  PROVE  IndInv'
<1>1. CASE DiscordMoves
  BY <1>1, DiscordMovesInv
<1>2. CASE ReconnectThread \/ RequestGatewayReadiness \/ RotateCredential
           \/ \E enabled \in BOOLEAN : SetPolicy(enabled)
  BY <1>2, SettingsInv
<1>3. CASE RetryDue \/ CleanupProcessedEvents
  BY <1>3, ReceiptsInv
<1>4. CASE StartMissingWorker \/ StopStaleWorker \/ Crash
  BY <1>4, SuperviseInv
<1>5. CASE \E m \in Messages : DeleteAsViewer(m)
  BY <1>5, DeleteAsViewerInv
<1>6. CASE Work
  <2>1. CASE Initialize \/ PersistShardHealth
    BY <2>1, InitializeInv
  <2>2. CASE Connect
    BY <2>2, ConnectInv
  <2>3. CASE ShardReconnects
    BY <2>3, ReconnectInv
  <2>4. CASE HandleGatewayEvent
    BY <2>4, HandleGatewayEventInv
  <2>5. CASE PendingTick
    BY <2>5, PendingTickInv
  <2>6. CASE Authorize
    BY <2>6, AuthorizeInv
  <2>7. CASE FetchMessage
    BY <2>7, FetchMessageInv
  <2>8. CASE ApplyDeferred
    BY <2>8, ApplyDeferredInv
  <2>9. CASE SettleDeferred
    BY <2>9, SettleDeferredInv
  <2> QED BY <1>6, <2>1, <2>2, <2>3, <2>4, <2>5, <2>6, <2>7, <2>8, <2>9 DEF Work
<1>7. CASE UNCHANGED vars
  <2>1. /\ UNCHANGED <<provider, settings, inbox, worker, history, disturbances>>
        /\ UNCHANGED gateway
    BY <1>7 DEF vars, settings
  <2>2. TypeOK'
    BY <2>1 DEF IndInv, TypeOK, ProviderType, SettingsType, InboxType, HistoryType, provider,
       settings, inbox, history
  <2>3. -1 <= gateway'.sequence /\ gateway'.sequence <= worker.applied
    BY <2>1, SequenceBound
  <2> QED BY <2>1, <2>2, <2>3, SettingsStep
<1> QED BY <1>1, <1>2, <1>3, <1>4, <1>5, <1>6, <1>7 DEF Next, Supervise, Administer

\* The invariant that the properties below rest on: Discord's log and messages agree, no
\* position is beyond what was applied, a receipt that waits is one of an update, and the row
\* of every message that no event was dropped for is what the applied events make of it.
THEOREM InboundInductive == Spec => []IndInv
<1>1. Init => IndInv
  BY InitInv
<1>2. IndInv /\ [Next]_vars => IndInv'
  BY NextInv
<1> QED BY <1>1, <1>2, PTL DEF Spec

\* ModerationFinal for every number of messages, events, fetches, crashes and restarts:
\* a row that delete_as_viewer moderated is never present again.
THEOREM AlwaysModerationFinal == Spec => []ModerationFinal
<1>1. IndInv => ModerationFinal
  <2> SUFFICES ASSUME IndInv, NEW m \in removed PROVE rows[m].state # "present"
    BY DEF ModerationFinal
  <2>1. m \in Messages
    BY DEF IndInv, TypeOK, HistoryType
  <2> QED BY <2>1 DEF IndInv, RemovedInv
<1> QED BY <1>1, InboundInductive, PTL

\* Converges for every instance: when nothing is left to read or to fetch, the rows that no
\* event was dropped for show what Discord has.
THEOREM AlwaysConverges == Spec => []Converges
<1>1. IndInv => Converges
  <2> SUFFICES ASSUME IndInv, Quiescent, NEW m \in Messages \ (excused \cup removed)
               PROVE  CASE discord[m].state = "none" -> rows[m].state = "none"
                        [] discord[m].state = "live" -> rows[m].state = "present"
                                                        /\ rows[m].body = discord[m].version
                        [] discord[m].state = "deleted" -> rows[m].state = "present"
                                                           /\ rows[m].body = Tombstone
    BY DEF Converges
  <2>1. 1..worker.applied = Positions
    BY SequenceBound, LogTypes, SMTT(20) DEF Quiescent, Now, Positions, IndInv, TypeOK
  <2>2. \A i : ~Waiting(i)
    BY DEF Quiescent, Waiting
  <2>3. Mirrored(m) /\ rows[m].state \in {"none", "present"} /\ rows[m].version \in Int
    BY DEF IndInv, MirrorInv, RemovedInv, TypeOK, InboxType, Rows
  <2>4. discord[m].state \in {"none", "live", "deleted"} /\ discord[m].version \in Nat
    BY DEF IndInv, TypeOK, ProviderType
  <2>5. CASE discord[m].state = "none"
    <3>1. \A i \in Positions : log[i].message # m
      BY <2>5 DEF IndInv, MessageInv
    <3>2. rows[m].state = "none"
      BY <2>1, <2>3, <3>1 DEF Mirrored
    <3> QED BY <2>5, <3>2
  <2>6. CASE discord[m].state = "live"
    <3>1. IsText(discord[m].version, m)
      BY <2>6 DEF IndInv, MessageInv
    <3> DEFINE v == discord[m].version
    <3>2. v \in Positions /\ log[v].message = m
      BY <3>1 DEF IsText
    <3>3. rows[m].state = "present"
      BY <2>1, <2>3, <3>2 DEF Mirrored
    <3>4. rows[m].body # Tombstone
      BY <2>6, <3>3 DEF IndInv, BuriedInv, Buried
    <3>5. v <= rows[m].version
      BY <2>1, <2>2, <2>3, <2>6, <3>2, <3>4 DEF Mirrored
    <3>6. rows[m].body = rows[m].version /\ IsText(rows[m].version, m)
      BY <3>3, <3>4 DEF IndInv, TextInv
    <3>7. rows[m].version <= v
      BY <2>6, <3>6 DEF IndInv, MessageInv, IsText
    <3>8. rows[m].body = v
      BY <2>3, <2>4, <3>5, <3>6, <3>7, SMTT(20)
    <3> QED BY <2>6, <3>3, <3>8
  <2>7. CASE discord[m].state = "deleted"
    <3>1. PICK i \in Positions : log[i].message = m /\ log[i].kind = "delete"
      BY <2>7 DEF IndInv, MessageInv
    <3>2. rows[m].state = "present" /\ rows[m].body = Tombstone
      BY <2>1, <2>3, <3>1 DEF Mirrored
    <3> QED BY <2>7, <3>2
  <2> QED BY <2>4, <2>5, <2>6, <2>7
<1> QED BY <1>1, InboundInductive, PTL

\* Discord changes a row only through apply_in_transaction, with an event of its message.
LEMMA RowChange ==
  ASSUME IndInv, Next, NEW m \in Messages, rows'[m] # rows[m], rows'[m].state = "present"
  PROVE  \E i, e : /\ EventAt(i, e) /\ ApplyInTransaction(i, e)
                   /\ ~EventExists(i) /\ Process(e) = "applied" /\ m = e.message
                   /\ lag' = 0 => lag = 0
<1>0. lag \in Nat /\ ProviderType /\ LogInv /\ Len(log) \in Nat
  BY LogTypes DEF IndInv, TypeOK, HistoryType
<1>1. ASSUME NEW i, NEW e, EventAt(i, e), ApplyInTransaction(i, e), lag' = 0 => lag = 0
      PROVE  \E j, f : /\ EventAt(j, f) /\ ApplyInTransaction(j, f)
                       /\ ~EventExists(j) /\ Process(f) = "applied" /\ m = f.message
                       /\ lag' = 0 => lag = 0
  BY <1>1, ApplyFacts
<1>2. CASE HandleGatewayEvent
  <2> DEFINE i == worker.pos + 1
  <2>1. PICK behind \in IF log[i].kind = "delete" THEN 0..MaxLag ELSE {0} :
           /\ ApplyInTransaction(i, Normalized(log[i], behind))
           /\ lag' = IF behind > lag THEN behind ELSE lag
    BY <1>2 DEF HandleGatewayEvent, inbox
  <2>n. i <= Len(log)
    BY <1>2 DEF Now, HandleGatewayEvent
  <2>o. worker.pos \in Int /\ 0 <= worker.pos
    BY SequenceBound
  <2>p. i \in Positions
    BY ONLY <1>0, <2>n, <2>o, SMTT(20) DEF Positions
  <2>b. behind \in Nat /\ (lag' = 0 => lag = 0)
    <3>1. behind \in 0..MaxLag \cup {0} /\ lag' = IF behind > lag THEN behind ELSE lag
      BY <2>1
    <3> QED BY ONLY <1>0, <3>1, SMTT(20)
  <2> DEFINE e == Normalized(log[i], behind)
  <2>2. /\ e \in InboundEvents /\ (e.kind # "thread" => e.message \in Messages)
        /\ e.kind = log[i].kind /\ e.message = log[i].message
        /\ e.version = IF log[i].kind = "delete" THEN Len(log) - behind ELSE i
        /\ e.content = (e.kind = "create")
    <3> HIDE DEF i
    <3> QED BY <1>0, <2>b, <2>p, NormalizedType, SMTT(20)
  <2> HIDE DEF e
  <2> HIDE DEF i
  <2>c. /\ e.kind = "create" => e.version = i
        /\ ~(e.kind = "update" /\ e.content)
    BY <2>2
  <2>d. e.kind = "delete" => e.version <= Len(log)
    BY <1>0, <2>b, <2>2, SMTT(20)
  <2>3. /\ e.kind = "delete" => e.version <= Len(log)
        /\ e.kind = "create" => e.version = i
        /\ ~(e.kind = "update" /\ e.content)
    BY <2>c, <2>d
  <2>4. EventAt(i, e)
    BY <2>p, <2>2, <2>3 DEF EventAt
  <2> QED BY <1>1, <2>1, <2>b, <2>4 DEF e
<1>3. CASE ApplyDeferred
  <2> DEFINE i == worker.item
             e == Hydrated(i)
  <2>1. ApplyInTransaction(i, e) /\ lag' = lag /\ worker.phase = "apply"
    BY <1>3 DEF ApplyDeferred, inbox, At
  <2>2. EventAt(i, e)
    BY <2>1, HydratedType DEF EventAt
  <2> HIDE DEF i, e
  <2> QED BY <1>1, <2>1, <2>2
<1>4. CASE \E n \in Messages : DeleteAsViewer(n)
  <2>1. PICK n \in Messages : DeleteAsViewer(n)
    BY <1>4
  <2>2. rows[m] \in Rows
    BY DEF IndInv, TypeOK, InboxType
  <2>3. rows'[m] = [rows[m] EXCEPT !.state = "moderated", !.body = Tombstone]
    BY <2>1 DEF DeleteAsViewer, WithoutFeedback
  <2>4. rows'[m].state = "moderated"
    BY <2>2, <2>3 DEF Rows
  <2> QED BY <2>4
<1>5. CASE rows' = rows
  BY <1>5
<1>6. \/ HandleGatewayEvent \/ ApplyDeferred \/ (\E n \in Messages : DeleteAsViewer(n))
      \/ rows' = rows
  BY DEF Next, DiscordMoves, ReconnectThread, RetryDue, Supervise, StartMissingWorker,
     StopStaleWorker, CleanupProcessedEvents, Work, Initialize, Connect, PersistShardHealth,
     ShardReconnects, PendingTick, Authorize, FetchMessage, SettleDeferred, Administer,
     RequestGatewayReadiness, RotateCredential, SetPolicy, Crash, inbox
<1> QED BY <1>2, <1>3, <1>4, <1>5, <1>6

\* TombstoneFinal for every instance: while the host's clock is not behind Discord's, a
\* mirrored row never goes back to an older version, and a tombstone stays one.
THEOREM AlwaysTombstoneFinal == Spec => TombstoneFinal
<1>1. ASSUME IndInv, [Next]_vars, lag' = 0, NEW m \in Messages,
             rows[m].state = "present", rows'[m].state = "present"
      PROVE  /\ rows'[m].version >= rows[m].version
             /\ rows[m].body = Tombstone => rows'[m].body = Tombstone
  <2>0. rows[m].version \in Int /\ InboxType
    BY <1>1 DEF IndInv, TypeOK, InboxType, Rows
  <2>1. CASE rows'[m] = rows[m]
    BY <2>0, <2>1, SMTT(20)
  <2>2. CASE rows'[m] # rows[m]
    <3>0. Next
      BY <1>1, <2>2 DEF vars, inbox
    <3>1. PICK i, e : /\ EventAt(i, e) /\ ApplyInTransaction(i, e)
                      /\ ~EventExists(i) /\ Process(e) = "applied" /\ m = e.message
                      /\ lag' = 0 => lag = 0
      BY <1>1, <2>2, <3>0, RowChange
    <3>2. e \in InboundEvents /\ e.version \in Int /\ e.kind \in {"create", "update", "delete", "thread"}
      BY <3>1 DEF EventAt, InboundEvents
    <3>3. rows'[m] = Stored(e)
      BY <1>1, <3>1, ApplyFacts
    <3>4. /\ rows'[m].version = e.version
          /\ rows'[m].body = IF e.kind = "delete" THEN Tombstone ELSE e.version
      BY <2>0, <3>1, <3>2, <3>3, StoredFields
    <3>5. e.kind \in {"update", "delete"} /\ e.version > rows[m].version /\ (e.kind = "update" => e.content)
      BY <1>1, <2>0, <3>1, <3>2, SMTT(20) DEF Process, Create, Update, Delete, NotNewer
    <3>6. rows[m].body = Tombstone => e.kind = "delete"
      <4> SUFFICES ASSUME rows[m].body = Tombstone, e.kind = "update" PROVE FALSE
        BY <3>5
      <4>1. Buried(m)
        BY <1>1, <3>1 DEF IndInv, BuriedInv
      <4>2. IsText(e.version, m)
        BY <3>1, <3>5 DEF EventAt
      <4>3. e.version <= rows[m].version
        BY <4>1, <4>2 DEF Buried, IsText
      <4> QED BY <2>0, <3>2, <3>5, <4>3, SMTT(20)
    <3> QED BY <2>0, <3>2, <3>4, <3>5, <3>6, SMTT(20)
  <2> QED BY <2>1, <2>2
<1>2. IndInv /\ [Next]_vars =>
        [lag' = 0 =>
           \A m \in Messages :
             rows[m].state = "present" /\ rows'[m].state = "present" =>
               /\ rows'[m].version >= rows[m].version
               /\ rows[m].body = Tombstone => rows'[m].body = Tombstone]_vars
  BY <1>1
<1> QED BY <1>2, InboundInductive, PTL DEF Spec, TombstoneFinal

\* AuthorizedOnly for every instance: a row that Discord changes is changed while two-way
\* sync is enabled and the thread connected.
THEOREM AlwaysAuthorizedOnly == Spec => AuthorizedOnly
<1>1. ASSUME IndInv, [Next]_vars, NEW m \in Messages, rows'[m] # rows[m], rows'[m].state = "present"
      PROVE  Authorized
  <2>0. Next
    BY <1>1 DEF vars, inbox
  <2>1. PICK e : Process(e) = "applied"
    BY <1>1, <2>0, RowChange
  <2> QED BY <2>1 DEF Process
<1>2. IndInv /\ [Next]_vars =>
        [\A m \in Messages : rows'[m] # rows[m] /\ rows'[m].state = "present" => Authorized]_vars
  BY <1>1
<1> QED BY <1>2, InboundInductive, PTL DEF Spec, AuthorizedOnly

=============================================================================
