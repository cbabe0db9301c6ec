---------------------------- MODULE PreviewTasks ----------------------------
(***************************************************************************)
(* Gallery previews of one single-file artifact and the durable tasks that *)
(* regenerate them (mcp/tasks.rs, integrations/thumbnails, the cache of    *)
(* integrations/preview.rs, warm_previews of startup/storage.rs, the       *)
(* preview lookup of integrations/delivery_worker/preview.rs).             *)
(*                                                                         *)
(* A preview is a file named by the digest of the body it should show.     *)
(* One lane renders queued jobs in turn.  Jobs come from committed         *)
(* mutations and from the backfill after a start, and load the body when   *)
(* they run; those of regenerations and of delivery workers bring along a  *)
(* body read before.  A mutation may commit between any two steps of them. *)
(* Every step is what the code does between two awaits.  A body stands for *)
(* its digest.                                                             *)
(***************************************************************************)
EXTENDS Integers, Sequences, FiniteSets

CONSTANTS
  Bodies,
  NoBody,           \* no body, no picture, or a body that a job loads itself
  Tasks,            \* task ids, each also that of a request without a task
  Workers,          \* delivery workers
  Bytes,            \* Bytes[b]: what a job for body b reserves
  MaxPending,       \* render_queue_jobs
  MaxPendingBytes,  \* render_queue_bytes
  MaxChanges,       \* bound: mutations of the artifact
  MaxExtras,        \* bound: preview lookups, and regenerations without a task
  MaxFaults         \* bound: crashes, gone clients, failed renders, reads and writes

ASSUME PreviewAssumption ==
  /\ NoBody \notin Bodies
  /\ Bytes \in [Bodies -> Nat \ {0}]
  /\ {MaxPending, MaxPendingBytes} \subseteq Nat \ {0}
  /\ {MaxChanges, MaxExtras, MaxFaults} \subseteq Nat
  /\ {"mutation", "backfill", "delivery"} \cap Tasks = {}

VARIABLES
  up,          \* the process serves
  body,        \* the artifact's current body, NoBody once deleted
  changes,     \* mutations so far
  unscheduled, \* committed mutations whose schedule_preview is still to come
  removal,     \* a delete's remove_artifact is still to come
  png,         \* previews/<id>/<digest>.png: the body each picture shows
  cache,       \* PreviewRenderer's cache: digest -> the body the render shows
  high, low,   \* QueueState: the waiting jobs
  reserved,    \* QueueState.reserved_bytes
  lane,        \* the drain task and its job
  backfill,    \* the digest the backfill of this start has still to look at
  tasks,       \* the task files
  runner,      \* the spawned tasks and the handlers that regenerate without one
  lookup,      \* the preview lookups of the delivery workers
  forgotten,   \* working tasks that nothing in this process runs
  mixed,       \* digests for which a body was read after a mutation had replaced it
  excused,     \* digests whose picture was lost to a fault, a full queue or an older body
  extras, faults

artifact == <<body, changes>>
queue    == <<high, low, reserved>>
history  == <<mixed, excused>>
asked    == <<lookup, extras>>
vars == <<up, artifact, unscheduled, removal, png, cache, queue, lane, backfill, tasks,
          runner, asked, forgotten, history, faults>>

NoPngs   == [d \in Bodies |-> NoBody]
Off      == [at |-> "off", digest |-> NoBody, html |-> NoBody, from |-> "none", row |-> NoBody]
NoRunner == [at |-> "none", digest |-> NoBody, html |-> NoBody, row |-> NoBody]
Terminal == {"completed", "failed", "cancelled"}
NoLookup == [at |-> "none", digest |-> NoBody]
NoTask   == [status |-> "absent", result |-> NoBody]
Working  == {t \in Tasks : tasks[t].status = "working"}
Deferred == {"mutation", "backfill"}   \* the origins whose jobs load the body themselves
Job(d, html, from) == [digest |-> d, html |-> html, from |-> from]

Extra == extras < MaxExtras /\ extras' = extras + 1
Fault == faults < MaxFaults /\ faults' = faults + 1

\* Everything but the artifact's own rows stands still.
IdlePreviews == UNCHANGED <<up, png, cache, queue, lane, backfill, tasks, runner, asked,
                            forgotten, history, faults>>

-----------------------------------------------------------------------------
(* try_enqueue and enqueue_ready *)

\* Mutant: one job more than the limit.
HasRoomForOneMore(d) ==
  /\ Len(high) + Len(low) <= MaxPending
  /\ reserved + Bytes[d] <= MaxPendingBytes

HasRoom(d) ==
  /\ Len(high) + Len(low) < MaxPending
  /\ reserved + Bytes[d] <= MaxPendingBytes

\* Mutant: the lane is started only when jobs were waiting before.
StartLaneWhenQueued ==
  IF lane.at = "off" /\ (high # <<>> \/ low # <<>>) THEN [Off EXCEPT !.at = "pick"] ELSE lane

\* The lane is started by the job that finds it off.
StartLane == IF lane.at = "off" THEN [Off EXCEPT !.at = "pick"] ELSE lane

Admit(job, priority) ==
  /\ HasRoom(job.digest)
  /\ reserved' = reserved + Bytes[job.digest]
  /\ high' = IF priority = "high" THEN Append(high, job) ELSE high
  /\ low'  = IF priority = "low" THEN Append(low, job) ELSE low
  /\ lane' = StartLane

Reject(d) ==
  /\ ~HasRoom(d)
  /\ excused' = excused \cup {d}
  /\ UNCHANGED <<queue, lane, mixed>>

Lost(d) == excused' = excused \cup {d} /\ UNCHANGED mixed

-----------------------------------------------------------------------------
(* The artifact: one step per committed mutation, and what follows it *)

\* update_for, restore_for: any earlier or new body, or the same with other metadata.
Mutate(b) ==
  /\ up /\ body # NoBody /\ changes < MaxChanges
  /\ body' = b /\ changes' = changes + 1
  /\ unscheduled' = unscheduled \cup {<<changes', b>>}
  /\ IdlePreviews /\ UNCHANGED removal

\* delete_artifact; the HTTP route then spawns the removal of the previews, the MCP tool
\* leaves them to the audit of the next start.
Delete ==
  /\ up /\ body # NoBody /\ changes < MaxChanges
  /\ body' = NoBody /\ changes' = changes + 1
  /\ removal' \in BOOLEAN
  /\ IdlePreviews /\ UNCHANGED unscheduled

RemoveDeleted ==
  /\ removal /\ removal' = FALSE
  /\ png' = NoPngs
  /\ UNCHANGED <<up, artifact, unscheduled, cache, queue, lane, backfill, tasks, runner,
                 asked, forgotten, history, faults>>

\* PersistentThumbnailScheduler::schedule, by the handler of a committed mutation; the handler
\* is dropped when its client has gone while the mutation ran on its blocking thread.
Schedule(u) ==
  /\ unscheduled' = unscheduled \ {u}
  /\ \/ /\ \/ Admit(Job(u[2], NoBody, "mutation"), "high") /\ UNCHANGED history
           \/ Reject(u[2])
        /\ UNCHANGED faults
     \/ Fault /\ Lost(u[2]) /\ UNCHANGED <<queue, lane>>
  /\ UNCHANGED <<up, artifact, removal, png, cache, backfill, tasks, runner, asked,
                 forgotten>>

-----------------------------------------------------------------------------
(* drain and ensure_thumbnail: the lane *)

Lane(at, html) == lane' = [lane EXCEPT !.at = at, !.html = html, !.row = NoBody]

\* The next job, high before low; the lane goes off under the queue's lock.
LanePick ==
  /\ lane.at = "pick"
  /\ LET next == IF high # <<>> THEN Head(high) ELSE Head(low)
     IN  IF high = <<>> /\ low = <<>> THEN lane' = Off
         ELSE lane' = [at |-> IF next.html = NoBody THEN "find" ELSE "ensure",
                       digest |-> next.digest, html |-> next.html, from |-> next.from,
                       row |-> NoBody]
  /\ IF high # <<>> THEN high' = Tail(high) /\ UNCHANGED low
     ELSE /\ low' = IF low # <<>> THEN Tail(low) ELSE low
          /\ UNCHANGED high
  /\ UNCHANGED <<up, artifact, unscheduled, removal, png, cache, reserved, backfill, tasks,
                 runner, asked, forgotten, history, faults>>

\* Mutant: the loader does not compare the digest it was queued for.
LaneFindUnchecked ==
  /\ lane.at = "find"
  /\ \/ /\ IF body # NoBody
           THEN lane' = [lane EXCEPT !.at = "read", !.row = body]
           ELSE Lane("ensure", NoBody)
        /\ UNCHANGED <<history, faults>>
     \/ Fault /\ Lane("ensure", NoBody) /\ Lost(lane.digest)

\* The deferred loader: find_meta and the check of the digest.
LaneFind ==
  /\ lane.at = "find"
  /\ \/ /\ IF body = lane.digest
           THEN lane' = [lane EXCEPT !.at = "read", !.row = body]
           ELSE Lane("ensure", NoBody)
        /\ UNCHANGED <<history, faults>>
     \/ Fault /\ Lane("ensure", NoBody) /\ Lost(lane.digest)

\* A body read by a reader for digest d; row is the digest of the row it saw before.
Mix(d, row) ==
  mixed' = IF row = d /\ body \notin {d, NoBody} THEN mixed \cup {d} ELSE mixed

\* read_body_for: the body as it is now.
LaneRead ==
  /\ lane.at = "read"
  /\ \/ Lane("ensure", body) /\ Mix(lane.digest, lane.row) /\ UNCHANGED <<excused, faults>>
     \/ Fault /\ Lane("ensure", NoBody) /\ Lost(lane.digest)

\* generate: an existing preview is enough; without a body there is nothing to render.
LaneEnsure ==
  /\ lane.at = "ensure"
  /\ IF png[lane.digest] # NoBody THEN Lane("stored", NoBody)
     ELSE IF lane.html = NoBody THEN Lane("nothing", NoBody)
     ELSE Lane("render", lane.html)
  /\ UNCHANGED <<history, faults>>

\* render_revision_preview: the cached render, unless those of other artifacts have pushed it
\* out of the bounded cache by now, or a new one; a failure is forgotten.
LaneRender ==
  LET d == lane.digest
  IN  /\ lane.at = "render"
      /\ \/ /\ cache[d] # NoBody
            /\ Lane("persist", cache[d]) /\ UNCHANGED <<cache, history, faults>>
         \/ /\ cache' = [cache EXCEPT ![d] = lane.html]
            /\ Lane("persist", lane.html) /\ UNCHANGED <<history, faults>>
         \/ /\ cache' = [cache EXCEPT ![d] = NoBody]
            /\ Fault /\ Lane("nothing", NoBody) /\ Lost(d)

\* persist: the file is written beside and renamed into place.
LanePersist ==
  /\ lane.at = "persist"
  /\ \/ /\ png' = [png EXCEPT ![lane.digest] = lane.html]
        /\ excused' = excused \ {lane.digest}
        /\ Lane("sweep", NoBody)
        /\ UNCHANGED <<mixed, faults>>
     \/ Fault /\ Lane("nothing", NoBody) /\ Lost(lane.digest) /\ UNCHANGED png

\* What a step for body d takes away from the current one.
TakenFrom(d) == IF body # d /\ body # NoBody /\ png[body] # NoBody THEN {body} ELSE {}

\* cleanup_obsolete: everything but the picture just stored, also when that is of an older
\* body, which the lane does not find out of a job that brought its body along.
LaneSweep ==
  /\ lane.at = "sweep"
  /\ png' = [d \in Bodies |-> IF d = lane.digest THEN png[d] ELSE NoBody]
  /\ excused' = excused \cup (IF lane.from \in Deferred THEN {} ELSE TakenFrom(lane.digest))
  /\ Lane("stored", NoBody)
  /\ UNCHANGED <<mixed, faults>>

\* Who waits for the lane's job gets its answer.
Answered ==
  [t \in Tasks |->
     IF t # lane.from THEN runner[t]
     ELSE [runner[t] EXCEPT !.at = IF lane.at = "stored" THEN "complete" ELSE "fail"]]

\* The reservation is released, the job answered, and the next one picked.
LaneFinish ==
  /\ lane.at \in {"stored", "nothing"}
  /\ reserved' = reserved - Bytes[lane.digest]
  /\ runner' = Answered
  /\ lane' = [Off EXCEPT !.at = "pick"]

LaneStep ==
  \/ LanePick
  \/ /\ \/ (LaneFind \/ LaneRead \/ LaneEnsure) /\ UNCHANGED <<png, cache>>
        \/ LaneRender /\ UNCHANGED png
        \/ (LanePersist \/ LaneSweep) /\ UNCHANGED cache
     /\ UNCHANGED <<up, artifact, unscheduled, removal, queue, backfill, tasks, runner,
                    asked, forgotten>>
  \/ /\ LaneFinish
     /\ UNCHANGED <<up, artifact, unscheduled, removal, png, cache, high, low, backfill,
                    tasks, asked, forgotten, history, faults>>

-----------------------------------------------------------------------------
(* schedule_thumbnail_backfill *)

\* The candidate of the start: nothing to do, or one deferred job of low priority.
Backfill ==
  /\ backfill # NoBody /\ backfill' = NoBody
  /\ \/ png[backfill] # NoBody /\ UNCHANGED <<queue, lane, history>>
     \/ /\ png[backfill] = NoBody
        /\ \/ Admit(Job(backfill, NoBody, "backfill"), "low") /\ UNCHANGED history
           \/ Reject(backfill)
  /\ UNCHANGED <<up, artifact, unscheduled, removal, png, cache, tasks, runner, asked,
                 forgotten, faults>>

-----------------------------------------------------------------------------
(* ArtifactDeliveryPreviewResolver::preview, by a worker that has claimed an event *)

\* find_meta and read_delivery_thumbnail: two awaited reads, taken as one because a lookup
\* whose picture goes between them is one that begins then.  A lookup for another revision
\* than the row's, or for one with a picture, renders nothing and is left out.
FindMeta(w) ==
  /\ up /\ body # NoBody /\ png[body] = NoBody
  /\ lookup[w] = NoLookup /\ Extra
  /\ lookup' = [lookup EXCEPT ![w] = [at |-> "read", digest |-> body]]
  /\ UNCHANGED <<queue, lane>>

\* read_body_for, and the hash of what it returned; any await may also end the lookup.
ReadReference(w) ==
  /\ \/ lookup[w].at = "read" /\ body = lookup[w].digest
        /\ lookup' = [lookup EXCEPT ![w].at = "enqueue"]
     \/ lookup[w].at # "none" /\ lookup' = [lookup EXCEPT ![w] = NoLookup]
  /\ UNCHANGED <<queue, lane, extras>>

\* try_enqueue with that body; the worker waits for the job or gives up on it, and whether it
\* does makes no difference to the job.
EnqueueLookup(w) ==
  LET d == lookup[w].digest
  IN  /\ lookup[w].at = "enqueue"
      /\ Admit(Job(d, d, "delivery"), "high")
      /\ lookup' = [lookup EXCEPT ![w] = NoLookup]
      /\ UNCHANGED extras

DeliveryStep(w) ==
  /\ FindMeta(w) \/ ReadReference(w) \/ EnqueueLookup(w)
  /\ UNCHANGED <<up, artifact, unscheduled, removal, png, cache, backfill, tasks, runner,
                 forgotten, history, faults>>

-----------------------------------------------------------------------------
(* PreviewTaskStore and spawn_preview_task *)

Run(t, at) == runner' = [runner EXCEPT ![t] = [@ EXCEPT !.at = at, !.row = NoBody]]
End(t) == runner' = [runner EXCEPT ![t] = NoRunner]

\* Mutant: the stored status is not looked at.
TransitionBlind(t, status, result) ==
  tasks' = [tasks EXCEPT ![t] = [status |-> status, result |-> result]]

\* transition: under the store's mutex, and only from a status that is not final.
Transition(t, status, result) ==
  tasks' = IF tasks[t].status \in Terminal THEN tasks
           ELSE [tasks EXCEPT ![t] = [status |-> status, result |-> result]]

\* A file access that fails ends the spawned task; its file stays as it was.
GiveUp(t) ==
  /\ Fault /\ End(t)
  /\ forgotten' = forgotten \cup {t}
  /\ UNCHANGED <<tasks, png, queue, lane, history>>

\* create_preview_task: the artifact is looked at before the file is written.
RequestTask(t) ==
  /\ up /\ body # NoBody
  /\ tasks[t] = NoTask /\ runner[t] = NoRunner
  /\ Run(t, "create")
  /\ UNCHANGED <<tasks, forgotten, png, queue, lane, history, faults>>

\* regenerate_synchronously: a client without tasks has the handler itself regenerate.
RequestSync(t) ==
  /\ up /\ Extra
  /\ tasks[t] = NoTask /\ runner[t] = NoRunner
  /\ Run(t, "find")
  /\ UNCHANGED <<tasks, forgotten, png, queue, lane, history, faults>>

\* create, then the task is spawned; the write may fail, and the client may be gone after it.
CreateTask(t) ==
  /\ runner[t].at = "create"
  /\ \/ /\ tasks' = [tasks EXCEPT ![t] = [status |-> "working", result |-> NoBody]]
        /\ \/ Run(t, "mark") /\ UNCHANGED <<forgotten, faults>>
           \/ Fault /\ End(t) /\ forgotten' = forgotten \cup {t}
     \/ Fault /\ End(t) /\ UNCHANGED <<tasks, forgotten>>
  /\ UNCHANGED <<png, queue, lane, history>>

\* mark_running; a task cancelled before it began ends here.
MarkRunning(t) ==
  /\ runner[t].at = "mark"
  /\ \/ /\ IF tasks[t].status \in Terminal THEN End(t) ELSE Run(t, "find")
        /\ UNCHANGED <<tasks, forgotten, png, queue, lane, history, faults>>
     \/ GiveUp(t)

\* preview_source: the row, then the body, in two calls.
FindSource(t) ==
  /\ runner[t].at = "find"
  /\ \/ /\ IF body = NoBody THEN Run(t, "fail")
           ELSE runner' = [runner EXCEPT ![t] = [@ EXCEPT !.at = "read", !.digest = body,
                                                          !.row = body]]
        /\ UNCHANGED faults
     \/ Fault /\ Run(t, "fail")
  /\ UNCHANGED <<tasks, forgotten, png, queue, lane, history>>

ReadSource(t) ==
  /\ runner[t].at = "read"
  /\ \/ /\ IF body = NoBody THEN Run(t, "fail") /\ UNCHANGED mixed
           ELSE /\ runner' = [runner EXCEPT ![t] = [@ EXCEPT !.at = "remove", !.html = body,
                                                             !.row = NoBody]]
                /\ Mix(runner[t].digest, runner[t].row)
        /\ UNCHANGED faults
     \/ Fault /\ Run(t, "fail") /\ UNCHANGED mixed
  /\ UNCHANGED <<tasks, forgotten, png, queue, lane, excused>>

\* regenerate: the stored previews go first.
RemoveStored(t) ==
  /\ runner[t].at = "remove"
  /\ png' = NoPngs
  /\ excused' = excused \cup TakenFrom(runner[t].digest)
  /\ Run(t, "enqueue")
  /\ UNCHANGED <<tasks, forgotten, queue, lane, mixed, faults>>

\* enqueue_ready with the body just read; a full queue is an answer without a picture.
EnqueueReady(t) ==
  LET d == runner[t].digest
  IN  /\ runner[t].at = "enqueue"
      /\ \/ /\ Admit(Job(d, runner[t].html, t), "high")
            /\ runner' = [runner EXCEPT ![t] = [@ EXCEPT !.at = "wait", !.html = NoBody]]
            /\ UNCHANGED history
         \/ Reject(d) /\ Run(t, "fail")
      /\ UNCHANGED <<tasks, forgotten, png, faults>>

\* The handler answers, or is dropped with its client before it has a job.
EndSync(t) ==
  /\ tasks[t] = NoTask
  /\ \/ runner[t].at \in {"complete", "fail"} /\ UNCHANGED <<history, faults>>
     \/ runner[t].at \in {"find", "read", "remove"} /\ Fault /\ UNCHANGED history
     \/ runner[t].at = "enqueue" /\ Fault /\ Lost(runner[t].digest)
  /\ End(t)
  /\ UNCHANGED <<tasks, forgotten, png, queue, lane>>

\* complete or fail; an error of the write is dropped.
SettleTask(t) ==
  /\ tasks[t] # NoTask
  /\ \/ /\ \/ runner[t].at = "complete" /\ Transition(t, "completed", runner[t].digest)
           \/ runner[t].at = "fail" /\ Transition(t, "failed", NoBody)
        /\ End(t)
        /\ UNCHANGED <<forgotten, png, queue, lane, history, faults>>
     \/ runner[t].at \in {"complete", "fail"} /\ GiveUp(t)

\* tasks/cancel: the spawned task goes on and finds out when it settles.
CancelTask(t) ==
  /\ up /\ tasks[t] # NoTask
  /\ Transition(t, "cancelled", NoBody)
  /\ UNCHANGED <<runner, forgotten, png, queue, lane, history, faults>>

RunTask(t) ==
  /\ \/ CreateTask(t) \/ MarkRunning(t) \/ FindSource(t) \/ ReadSource(t)
     \/ RemoveStored(t) \/ EnqueueReady(t) \/ SettleTask(t) \/ EndSync(t)
  /\ UNCHANGED <<up, artifact, unscheduled, removal, cache, backfill, asked>>

TaskRequest(t) ==
  /\ \/ RequestSync(t)
     \/ (RequestTask(t) \/ CancelTask(t)) /\ UNCHANGED extras
  /\ UNCHANGED <<up, artifact, unscheduled, removal, cache, backfill, lookup>>

-----------------------------------------------------------------------------
(* The process *)

\* Files survive; the queue, the lane, the cache and every spawned task do not.
Crash ==
  /\ up /\ up' = FALSE /\ Fault
  /\ unscheduled' = {} /\ removal' = FALSE
  /\ cache' = NoPngs
  /\ high' = <<>> /\ low' = <<>> /\ reserved' = 0
  /\ lane' = Off /\ backfill' = NoBody
  /\ runner' = [t \in Tasks |-> NoRunner] /\ forgotten' = {}
  /\ lookup' = [w \in Workers |-> NoLookup]
  /\ UNCHANGED <<artifact, png, tasks, extras, history>>

\* audit: only the file named by the current digest stays.
Audited == [d \in Bodies |-> IF d = body THEN png[d] ELSE NoBody]

\* resume_preview_tasks: every working task is spawned again, but those whose file cannot be
\* read now (or all, when the directory cannot).
Resume(skipped) ==
  /\ forgotten' = skipped
  /\ runner' = [t \in Tasks |-> IF t \in Working \ skipped THEN [NoRunner EXCEPT !.at = "mark"]
                                ELSE NoRunner]

\* Mutant: the start audits the previews and queues none.
WarmPreviewsAuditOnly == png' = Audited /\ backfill' = NoBody

\* warm_previews: the audit, then the backfill is spawned for the artifact as it is.
WarmPreviews == png' = Audited /\ backfill' = body

Restart ==
  /\ ~up /\ up' = TRUE
  /\ WarmPreviews
  /\ excused' = {}
  /\ \E skipped \in SUBSET Working : Resume(skipped)
  /\ UNCHANGED <<artifact, unscheduled, removal, cache, queue, lane, tasks, asked, mixed,
                 faults>>

-----------------------------------------------------------------------------
\* A publish has just committed in a process without previews or tasks.
Init ==
  /\ up = TRUE
  /\ body \in Bodies /\ changes = 0
  /\ unscheduled = {<<0, body>>} /\ removal = FALSE
  /\ png = NoPngs /\ cache = NoPngs
  /\ high = <<>> /\ low = <<>> /\ reserved = 0
  /\ lane = Off /\ backfill = NoBody
  /\ tasks = [t \in Tasks |-> NoTask]
  /\ runner = [t \in Tasks |-> NoRunner] /\ forgotten = {}
  /\ lookup = [w \in Workers |-> NoLookup]
  /\ mixed = {} /\ excused = {} /\ extras = 0 /\ faults = 0

Next ==
  \/ \E b \in Bodies : Mutate(b)
  \/ Delete \/ RemoveDeleted
  \/ \E u \in unscheduled : Schedule(u)
  \/ LaneStep
  \/ Backfill
  \/ \E w \in Workers : DeliveryStep(w)
  \/ \E t \in Tasks : TaskRequest(t) \/ RunTask(t)
  \/ Crash \/ Restart

\* The lane and the spawned tasks run on, and the process is started again; requests, lookups
\* and the backfill may stop for ever.  Each of these steps changes the variable it is fair for.
Fairness ==
  /\ WF_lane(LaneStep)
  /\ \A t \in Tasks : WF_runner(RunTask(t))
  /\ WF_up(Restart)

Spec == Init /\ [][Next]_vars /\ Fairness

-----------------------------------------------------------------------------
(* Properties *)

\* The bytes of the job at position i, and those of all jobs of a queue.
JobUnits(i, d) == {i} \X (1 .. Bytes[d])
Units(jobs) == UNION {JobUnits(i, jobs[i].digest) : i \in DOMAIN jobs}

\* How many bytes the jobs hold that wait, and the one in the lane.
Held ==
  Cardinality(Units(high)) + Cardinality(Units(low))
    + IF lane.at \in {"off", "pick"} THEN 0 ELSE Bytes[lane.digest]

\* The queue's books: try_enqueue and enqueue_ready keep both limits, the reserved bytes are
\* those of the jobs that wait and of the one being rendered, and no job waits while no lane
\* runs, whichever enqueue races the lane going off.
QueueAccounts ==
  /\ Len(high) + Len(low) <= MaxPending
  /\ reserved = Held /\ reserved <= MaxPendingBytes
  /\ lane.at = "off" => high = <<>> /\ low = <<>>

\* A picture stored under a digest shows the body of that digest, through updates, restores,
\* the renderer's cache and restarts, unless a mutation committed between a reader's look at
\* the row and its read of the body (read_body_for does not compare the digest).
PictureOfBody ==
  \A d \in Bodies : png[d] \notin {NoBody, d} => d \in mixed

\* Nothing waits, runs or is still to be scheduled.
Quiet ==
  /\ up /\ unscheduled = {} /\ lane.at = "off" /\ backfill = NoBody
  /\ \A t \in Tasks : runner[t].at = "none"

\* Once everything has come to rest, the current body has its picture, whatever order the
\* jobs of overlapping mutations, of the backfill, of regenerations and of delivery workers
\* were rendered and swept in and wherever the process died.  Three things do take it away,
\* and are excused: its last job failed, was refused or never queued; a regeneration for an
\* older body removed the stored pictures; and a job that brought an older body along stored
\* and swept last, although cleanup_obsolete says that it spares the current picture.
GalleryComplete ==
  Quiet /\ body # NoBody => png[body] # NoBody \/ body \in excused

\* A finished, failed or cancelled task keeps its status and its result: cancel, complete and
\* fail race, and the spawned task does not know that it was cancelled (transition).
TaskFinal ==
  [][\A t \in Tasks : tasks[t].status \in Terminal => tasks'[t] = tasks[t]]_vars

\* A working task is settled, across crashes, unless this process gave it up: its file could
\* not be read or written (spawn_preview_task ignores that error), or its client was gone
\* before it was spawned.  (The same as t \in Working ~> t \notin Working \/ t \in forgotten.)
TaskSettles ==
  \A t \in Tasks : []<>(t \notin Working \/ t \in forgotten)

=============================================================================
